------------------------------- MODULE TxCodec -------------------------------
(***************************************************************************)
(* TransactionBuilder of the aether package (transaction.py): the fluent   *)
(* setters, build(), and sign(), which serializes the transaction with     *)
(* _serialize, hashes the bytes and signs the digest.                      *)
(*                                                                         *)
(* Bytes are the numbers 0..ByteBase-1.  An address is the sequence of the *)
(* bytes of its UTF-8 text ("0x" and hex digits: one byte per character),  *)
(* and a well-formed one has AddrLen of them.  Integers are packed little- *)
(* endian in ValueWidth (the <Q of the value) and NonceWidth (the <I of    *)
(* the nonce) bytes; struct.pack raises struct.error for an integer out of *)
(* range.  SHA-256 and Ed25519 are ideal: the digest is collision-free, so *)
(* two transactions share a hash and a signature exactly when they share   *)
(* their serialized bytes, which is what the model keeps.                  *)
(***************************************************************************)
EXTENDS Integers, Sequences

CONSTANTS
    ByteBase,    \* number of distinct byte values
    AddrLen,     \* bytes in a well-formed address text
    ValueWidth,  \* bytes of the packed value
    NonceWidth,  \* bytes of the packed nonce
    Addresses,   \* address texts a caller passes to from_addr and to
    Amounts,     \* integers a caller passes to value
    Payloads,    \* byte strings a caller passes to data
    Nonces,      \* integers a caller passes to nonce
    None         \* Python's None: a field not set

Bytes == 0..(ByteBase - 1)

ASSUME CodecAssumption ==
    /\ ByteBase \in Nat \ {0, 1}
    /\ AddrLen \in Nat
    /\ ValueWidth \in Nat \ {0}
    /\ NonceWidth \in Nat \ {0}

ASSUME InputsAssumption ==
    /\ Addresses \subseteq Seq(Bytes)
    /\ Payloads \subseteq Seq(Bytes)
    /\ Amounts \subseteq Int
    /\ Nonces \subseteq Int
    /\ None \notin Seq(Bytes) \cup Int

-----------------------------------------------------------------------------
(* The codec.                                                              *)

\* Shifts(n, w)[i]: n with its i lowest base-ByteBase digits dropped, that
\* is n \div ByteBase^i, computed one digit at a time as an encoder does.
Shifts(n, w) ==
    LET q[i \in 0..w] == IF i = 0 THEN n ELSE q[i - 1] \div ByteBase
    IN  q

\* struct.pack("<Q"/"<I", n): the w little-endian base-ByteBase digits of n.
Pack(n, w) == [i \in 1..w |-> Shifts(n, w)[i - 1] % ByteBase]

\* struct.pack raises struct.error unless 0 <= n < ByteBase^w: n is not
\* negative and nothing of it is left past its w-th digit.
Packable(n, w) == 0 <= n /\ Shifts(n, w)[w] = 0

\* tx.data or b"": absent data and empty data give the same bytes.
DataBytes(d) == IF d = None THEN <<>> ELSE d

\* _serialize: the five parts joined with no separator and no length.
Serialize(tx) ==
    tx.from \o tx.to \o Pack(tx.value, ValueWidth) \o DataBytes(tx.data)
        \o Pack(tx.nonce, NonceWidth)

-----------------------------------------------------------------------------
(* Reference decoder of the layout, for well-formed addresses: the parts   *)
(* are cut at the fixed widths, and the data is what lies between the      *)
(* value and the trailing nonce.                                           *)

\* Horner's rule from the last byte: HornerLE(s)[i] is the little-endian
\* value of the last i bytes of s.
HornerLE(s) ==
    LET v[i \in 0..Len(s)] == IF i = 0 THEN 0
                              ELSE s[Len(s) - i + 1] + ByteBase * v[i - 1]
    IN  v

\* The integer a little-endian byte string stands for.
LEValue(s) == HornerLE(s)[Len(s)]

\* The layout is long enough to hold the fixed-width parts.
Decodable(b) == Len(b) >= 2 * AddrLen + ValueWidth + NonceWidth

Decode(b) ==
    LET k == 2 * AddrLen + ValueWidth
    IN  [from  |-> SubSeq(b, 1, AddrLen),
         to    |-> SubSeq(b, AddrLen + 1, 2 * AddrLen),
         value |-> LEValue(SubSeq(b, 2 * AddrLen + 1, k)),
         data  |-> SubSeq(b, k + 1, Len(b) - NonceWidth),
         nonce |-> LEValue(SubSeq(b, Len(b) - NonceWidth + 1, Len(b)))]

\* The fields a signature commits to, with absent data read as empty.
Canonical(tx) == [tx EXCEPT !.data = DataBytes(tx.data)]

-----------------------------------------------------------------------------
(* The builder.                                                            *)

VARIABLES
    builder,  \* the five private fields of one TransactionBuilder
    result    \* what the last call of sign() gave

vars == <<builder, result>>

Fields == {"from", "to", "value", "data", "nonce"}

\* build() tests these fields for None, in this order.
Required == <<"from", "to", "value", "nonce">>

Unset == [f \in Fields |-> None]

Signed(tx) == [out |-> "signed", tx |-> tx, bytes |-> Serialize(tx)]

TypeOK ==
    /\ builder \in [from : Addresses \cup {None}, to : Addresses \cup {None},
                    value : Amounts \cup {None}, data : Payloads \cup {None},
                    nonce : Nonces \cup {None}]
    /\ \/ result = [out |-> "none"]
       \/ result = [out |-> "struct.error"]
       \/ result \in [out : {"ValueError"}, field : {Required[i] : i \in 1..4}]
       \/ \E tx \in [from : Addresses, to : Addresses, value : Amounts,
                     data : Payloads \cup {None}, nonce : Nonces] :
              result = Signed(tx)

\* TransactionBuilder(): a new builder with every field None.
New ==
    /\ builder' = Unset
    /\ UNCHANGED result

\* from_addr, to, value, data, nonce: each overwrites one field.
SetField(f, x) ==
    /\ builder' = [builder EXCEPT ![f] = x]
    /\ UNCHANGED result

\* build() raises ValueError naming the first required field that is None.
BuildFails(i) ==
    /\ builder[Required[i]] = None
    /\ \A j \in 1..(i - 1) : builder[Required[j]] # None
    /\ result' = [out |-> "ValueError", field |-> Required[i]]

Built == \A i \in 1..4 : builder[Required[i]] # None

\* Mutant: the integers are packed modulo their width instead of raising.
SignWrapping ==
    /\ \/ \E i \in 1..4 : BuildFails(i)
       \/ Built /\ result' = Signed(builder)
    /\ UNCHANGED builder

\* sign(): build(), then _serialize (struct.pack may raise), then the
\* digest and the signature are written into the new transaction.
Sign ==
    /\ \/ \E i \in 1..4 : BuildFails(i)
       \/ /\ Built
          /\ ~(Packable(builder.value, ValueWidth) /\ Packable(builder.nonce, NonceWidth))
          /\ result' = [out |-> "struct.error"]
       \/ /\ Built
          /\ Packable(builder.value, ValueWidth)
          /\ Packable(builder.nonce, NonceWidth)
          /\ result' = Signed(builder)
    /\ UNCHANGED builder

Init ==
    /\ builder = Unset
    /\ result = [out |-> "none"]

Next ==
    \/ New
    \/ \E a \in Addresses : SetField("from", a) \/ SetField("to", a)
    \/ \E v \in Amounts : SetField("value", v)
    \/ \E d \in Payloads : SetField("data", d)
    \/ \E n \in Nonces : SetField("nonce", n)
    \/ Sign

Spec == Init /\ [][Next]_vars

-----------------------------------------------------------------------------
(* Properties.                                                             *)

\* The bytes sign() hashes and signs determine the transaction: read back
\* at the layout's fixed widths they give exactly the fields set on the
\* builder (absent data as empty).  So no two different transactions share
\* a hash or a signature, and no integer is truncated silently.
EmittedDecodes ==
    result.out = "signed" =>
        /\ Decodable(result.bytes)
        /\ Decode(result.bytes) = Canonical(result.tx)

\* Every transaction the builder can sign from these inputs.
Buildable ==
    {tx \in [from : Addresses, to : Addresses, value : Amounts,
             data : Payloads \cup {None}, nonce : Nonces] :
        Packable(tx.value, ValueWidth) /\ Packable(tx.nonce, NonceWidth)}

\* Spec section 2: a signature is bound to exactly one message, and the
\* hash is the digest of the transaction's fields.  No other transaction
\* the builder accepts serializes to the bytes sign() hashed, so none
\* shares the hash and signature of the one signed.  _serialize joins the
\* address texts with no length and build() does not check their form.
SignedBytesUnique ==
    result.out = "signed" =>
        \A tx \in Buildable :
            Serialize(tx) = result.bytes => Canonical(tx) = Canonical(result.tx)

=============================================================================
