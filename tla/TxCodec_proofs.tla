---------------------------- MODULE TxCodec_proofs ----------------------------
(***************************************************************************)
(* Proofs about the layout of TransactionBuilder._serialize, for every     *)
(* byte base, address length and integer width.                            *)
(***************************************************************************)
EXTENDS TxCodecInts_proofs, SequenceTheorems, TLAPS

-----------------------------------------------------------------------------
(* Lemmas on slices of a concatenation.                                    *)

\* The two halves of s \o t are recovered by cutting at Len(s), whatever
\* their lengths (either may be empty).
LEMMA SplitConcat ==
    ASSUME NEW s \in Seq(Int), NEW t \in Seq(Int)
    PROVE  /\ SubSeq(s \o t, 1, Len(s)) = s
           /\ SubSeq(s \o t, Len(s) + 1, Len(s) + Len(t)) = t
<1>1. /\ s \o t \in Seq(Int)
      /\ Len(s \o t) = Len(s) + Len(t)
      /\ \A i \in 1 .. Len(s) + Len(t) :
             (s \o t)[i] = IF i <= Len(s) THEN s[i] ELSE t[i - Len(s)]
  BY ConcatProperties
<1>2. SubSeq(s \o t, 1, Len(s)) = s
  <2>1. \A i \in 1 .. Len(s) : (s \o t)[i] \in Int
    BY <1>1
  <2>2. /\ SubSeq(s \o t, 1, Len(s)) \in Seq(Int)
        /\ Len(SubSeq(s \o t, 1, Len(s))) = Len(s)
        /\ \A i \in 1 .. Len(s) : SubSeq(s \o t, 1, Len(s))[i] = (s \o t)[i]
    BY <2>1, SubSeqProperties
  <2>. QED
    BY <1>1, <2>2, SeqEqual
<1>3. SubSeq(s \o t, Len(s) + 1, Len(s) + Len(t)) = t
  <2>1. \A i \in Len(s) + 1 .. Len(s) + Len(t) : (s \o t)[i] \in Int
    BY <1>1
  <2>2. /\ SubSeq(s \o t, Len(s) + 1, Len(s) + Len(t)) \in Seq(Int)
        /\ Len(SubSeq(s \o t, Len(s) + 1, Len(s) + Len(t))) = Len(t)
        /\ \A i \in 1 .. Len(t) :
               SubSeq(s \o t, Len(s) + 1, Len(s) + Len(t))[i] = (s \o t)[Len(s) + i]
    BY <2>1, SubSeqProperties
  <2>. QED
    BY <1>1, <2>2, SeqEqual
<1>. QED
  BY <1>2, <1>3

\* A slice that ends within s is a slice of s.
LEMMA PrefixSlice ==
    ASSUME NEW s \in Seq(Int), NEW t \in Seq(Int),
           NEW m \in Int, NEW n \in Int, 1 <= m, n <= Len(s)
    PROVE  SubSeq(s \o t, m, n) = SubSeq(s, m, n)
<1>1. CASE n < m
  BY <1>1, SubSeqEmpty
<1>2. CASE m <= n
  <2>1. /\ s \o t \in Seq(Int)
        /\ \A i \in 1 .. Len(s) + Len(t) :
               (s \o t)[i] = IF i <= Len(s) THEN s[i] ELSE t[i - Len(s)]
    BY ConcatProperties
  <2>2. /\ SubSeq(s \o t, m, n) \in Seq(Int)
        /\ Len(SubSeq(s \o t, m, n)) = n - m + 1
        /\ \A i \in 1 .. n - m + 1 : SubSeq(s \o t, m, n)[i] = (s \o t)[m + i - 1]
    BY <1>2, <2>1, SubSeqProperties
  <2>3. /\ SubSeq(s, m, n) \in Seq(Int)
        /\ Len(SubSeq(s, m, n)) = n - m + 1
        /\ \A i \in 1 .. n - m + 1 : SubSeq(s, m, n)[i] = s[m + i - 1]
    BY <1>2, SubSeqProperties
  <2>. QED
    BY <1>2, <2>1, <2>2, <2>3, SeqEqual
<1>. QED
  BY <1>1, <1>2

\* PrefixSlice as one formula, for citing under large terms.
LEMMA PrefixSliceAll ==
    \A s, t \in Seq(Int) : \A m, n \in Int :
        1 <= m /\ n <= Len(s) => SubSeq(s \o t, m, n) = SubSeq(s, m, n)
BY PrefixSlice

\* Concatenation of integer sequences, with its length.
LEMMA ConcatInt ==
    ASSUME NEW s \in Seq(Int), NEW t \in Seq(Int)
    PROVE  s \o t \in Seq(Int) /\ Len(s \o t) = Len(s) + Len(t)
BY ConcatProperties

\* A packed integer is a sequence of w integers.
LEMMA PackType ==
    ASSUME NEW n \in Int, NEW w \in Nat
    PROVE  /\ Pack(n, w) \in Seq(Int)
           /\ Len(Pack(n, w)) = w
BY PackDigits

-----------------------------------------------------------------------------
(* The layout.                                                             *)

\* Whatever the integers, a transaction whose from and to texts have the
\* well-formed length is serialized so that cutting the bytes at the fixed
\* widths gives back its from and to texts, its data (absent read as empty)
\* and the packed value and nonce: _serialize's concatenation without
\* lengths is unambiguous exactly when the address lengths are fixed.
THEOREM SerializeLayout ==
    ASSUME NEW tx \in [from : Seq(Int), to : Seq(Int), value : Int,
                       data : Seq(Int) \cup {None}, nonce : Int],
           Len(tx.from) = AddrLen, Len(tx.to) = AddrLen
    PROVE  LET b == Serialize(tx)
               k == 2 * AddrLen + ValueWidth
           IN  /\ Decodable(b)
               /\ Decode(b).from = tx.from
               /\ Decode(b).to = tx.to
               /\ Decode(b).data = DataBytes(tx.data)
               /\ SubSeq(b, 2 * AddrLen + 1, k) = Pack(tx.value, ValueWidth)
               /\ SubSeq(b, Len(b) - NonceWidth + 1, Len(b)) = Pack(tx.nonce, NonceWidth)
<1>. USE CodecAssumption
<1>. DEFINE A == tx.from
            B == tx.to
            V == Pack(tx.value, ValueWidth)
            D == DataBytes(tx.data)
            W == Pack(tx.nonce, NonceWidth)
            P1 == A \o B
            P2 == P1 \o V
            P3 == P2 \o D
            b == P3 \o W
            k == 2 * AddrLen + ValueWidth
<1>1. /\ A \in Seq(Int) /\ B \in Seq(Int) /\ D \in Seq(Int)
      /\ V \in Seq(Int) /\ Len(V) = ValueWidth
      /\ W \in Seq(Int) /\ Len(W) = NonceWidth
  <2>1. A \in Seq(Int) /\ B \in Seq(Int)
    BY DEF A, B
  <2>2. D \in Seq(Int)
    <3>1. CASE tx.data = None
      BY <3>1, EmptySeq DEF D, DataBytes
    <3>2. CASE tx.data # None
      BY <3>2 DEF D, DataBytes
    <3>. QED
      BY <3>1, <3>2
  <2>3. V \in Seq(Int) /\ Len(V) = ValueWidth
    BY PackType DEF V
  <2>4. W \in Seq(Int) /\ Len(W) = NonceWidth
    BY PackType DEF W
  <2>. QED
    BY <2>1, <2>2, <2>3, <2>4
<1>2. /\ P1 \in Seq(Int) /\ Len(P1) = 2 * AddrLen
      /\ P2 \in Seq(Int) /\ Len(P2) = k
      /\ P3 \in Seq(Int) /\ Len(P3) = k + Len(D)
      /\ b \in Seq(Int) /\ Len(b) = k + Len(D) + NonceWidth
  <2>1. P1 \in Seq(Int) /\ Len(P1) = 2 * AddrLen
    <3>1. A \o B \in Seq(Int) /\ Len(A \o B) = Len(A) + Len(B)
      BY <1>1, ConcatInt
    <3>. QED
      BY <3>1 DEF P1, A, B
  <2>2. P2 \in Seq(Int) /\ Len(P2) = k
    <3>1. P1 \o V \in Seq(Int) /\ Len(P1 \o V) = Len(P1) + Len(V)
      BY <1>1, <2>1, ConcatInt
    <3>. QED
      BY <1>1, <2>1, <3>1 DEF P2, k
  <2>3. P3 \in Seq(Int) /\ Len(P3) = k + Len(D)
    <3>1. P2 \o D \in Seq(Int) /\ Len(P2 \o D) = Len(P2) + Len(D)
      BY <1>1, <2>2, ConcatInt
    <3>. QED
      BY <2>2, <3>1 DEF P3
  <2>4. b \in Seq(Int) /\ Len(b) = k + Len(D) + NonceWidth
    <3>1. P3 \o W \in Seq(Int) /\ Len(P3 \o W) = Len(P3) + Len(W)
      BY <1>1, <2>3, ConcatInt
    <3>. QED
      BY <1>1, <2>3, <3>1 DEF b
  <2>. QED
    BY <2>1, <2>2, <2>3, <2>4
<1>3. b = Serialize(tx)
  BY DEF Serialize, b, P3, P2, P1, A, B, V, D, W
<1>4. Decodable(b)
  BY <1>1, <1>2, CodecAssumption DEF Decodable, k
<1>5. SubSeq(b, Len(b) - NonceWidth + 1, Len(b)) = W
  <2>1. SubSeq(P3 \o W, Len(P3) + 1, Len(P3) + Len(W)) = W
    <3>1. P3 \in Seq(Int) /\ W \in Seq(Int)
      BY <1>1, <1>2
    <3>. QED
      BY <3>1, SplitConcat
  <2>2. /\ Len(b) - NonceWidth + 1 = Len(P3) + 1
        /\ Len(b) = Len(P3) + Len(W)
    BY <1>1, <1>2
  <2>. QED
    BY <2>1, <2>2 DEF b
<1>6. SubSeq(b, k + 1, Len(b) - NonceWidth) = D
  <2>1. k + 1 \in Int /\ Len(P3) \in Int /\ 1 <= k + 1 /\ Len(P3) <= Len(P3)
    BY <1>2 DEF k
  <2>2. SubSeq(P3 \o W, k + 1, Len(P3)) = SubSeq(P3, k + 1, Len(P3))
    <3>1. P3 \in Seq(Int) /\ W \in Seq(Int)
      BY <1>1, <1>2
    <3>2. \A m, n \in Int : 1 <= m /\ n <= Len(P3) =>
                SubSeq(P3 \o W, m, n) = SubSeq(P3, m, n)
      BY <3>1, PrefixSliceAll
    <3>. QED
      BY <3>2, <2>1
  <2>3. SubSeq(P2 \o D, Len(P2) + 1, Len(P2) + Len(D)) = D
    <3>1. D \in Seq(Int) /\ P2 \in Seq(Int)
      BY <1>1, <1>2
    <3>. QED
      BY <3>1, SplitConcat
  <2>. QED
    BY <1>1, <1>2, <2>2, <2>3 DEF b, P3
<1>7. SubSeq(b, 2 * AddrLen + 1, k) = V
  <2>1. /\ 2 * AddrLen + 1 \in Int /\ k \in Int /\ 1 <= 2 * AddrLen + 1
        /\ k <= Len(P3) /\ k <= Len(P2)
    BY <1>2 DEF k
  <2>2. SubSeq(P3 \o W, 2 * AddrLen + 1, k) = SubSeq(P3, 2 * AddrLen + 1, k)
    <3>1. P3 \in Seq(Int) /\ W \in Seq(Int)
      BY <1>1, <1>2
    <3>2. \A m, n \in Int : 1 <= m /\ n <= Len(P3) =>
                SubSeq(P3 \o W, m, n) = SubSeq(P3, m, n)
      BY <3>1, PrefixSliceAll
    <3>. QED
      BY <3>2, <2>1
  <2>3. SubSeq(P2 \o D, 2 * AddrLen + 1, k) = SubSeq(P2, 2 * AddrLen + 1, k)
    <3>1. D \in Seq(Int) /\ P2 \in Seq(Int)
      BY <1>1, <1>2
    <3>2. \A m, n \in Int : 1 <= m /\ n <= Len(P2) =>
                SubSeq(P2 \o D, m, n) = SubSeq(P2, m, n)
      BY <3>1, PrefixSliceAll
    <3>. QED
      BY <3>2, <2>1
  <2>4. SubSeq(P1 \o V, Len(P1) + 1, Len(P1) + Len(V)) = V
    <3>1. P1 \in Seq(Int) /\ V \in Seq(Int)
      BY <1>1, <1>2
    <3>. QED
      BY <3>1, SplitConcat
  <2>. QED
    BY <1>1, <1>2, <2>2, <2>3, <2>4 DEF b, P3, P2, k
<1>8. /\ SubSeq(b, 1, AddrLen) = A
      /\ SubSeq(b, AddrLen + 1, 2 * AddrLen) = B
  <2>1. /\ 1 \in Int /\ AddrLen \in Int /\ AddrLen + 1 \in Int /\ 2 * AddrLen \in Int
        /\ 1 <= 1 /\ 1 <= AddrLen + 1
        /\ AddrLen <= Len(P1) /\ 2 * AddrLen <= Len(P1)
        /\ AddrLen <= Len(P2) /\ 2 * AddrLen <= Len(P2)
        /\ AddrLen <= Len(P3) /\ 2 * AddrLen <= Len(P3)
    <3>1. AddrLen \in Nat /\ ValueWidth \in Nat /\ Len(D) \in Nat
      BY <1>1, CodecAssumption
    <3>2. Len(P1) = 2 * AddrLen /\ Len(P2) = 2 * AddrLen + ValueWidth
          /\ Len(P3) = 2 * AddrLen + ValueWidth + Len(D)
      BY <1>2 DEF k
    <3>. QED
      BY <3>1, <3>2
  <2>2. /\ SubSeq(P3 \o W, 1, AddrLen) = SubSeq(P3, 1, AddrLen)
        /\ SubSeq(P3 \o W, AddrLen + 1, 2 * AddrLen) = SubSeq(P3, AddrLen + 1, 2 * AddrLen)
    <3>1. P3 \in Seq(Int) /\ W \in Seq(Int)
      BY <1>1, <1>2
    <3>2. \A m, n \in Int : 1 <= m /\ n <= Len(P3) =>
                SubSeq(P3 \o W, m, n) = SubSeq(P3, m, n)
      BY <3>1, PrefixSliceAll
    <3>. QED
      BY <3>2, <2>1
  <2>3. /\ SubSeq(P2 \o D, 1, AddrLen) = SubSeq(P2, 1, AddrLen)
        /\ SubSeq(P2 \o D, AddrLen + 1, 2 * AddrLen) = SubSeq(P2, AddrLen + 1, 2 * AddrLen)
    <3>1. D \in Seq(Int) /\ P2 \in Seq(Int)
      BY <1>1, <1>2
    <3>2. \A m, n \in Int : 1 <= m /\ n <= Len(P2) =>
                SubSeq(P2 \o D, m, n) = SubSeq(P2, m, n)
      BY <3>1, PrefixSliceAll
    <3>. QED
      BY <3>2, <2>1
  <2>4. /\ SubSeq(P1 \o V, 1, AddrLen) = SubSeq(P1, 1, AddrLen)
        /\ SubSeq(P1 \o V, AddrLen + 1, 2 * AddrLen) = SubSeq(P1, AddrLen + 1, 2 * AddrLen)
    <3>1. P1 \in Seq(Int) /\ V \in Seq(Int)
      BY <1>1, <1>2
    <3>2. \A m, n \in Int : 1 <= m /\ n <= Len(P1) =>
                SubSeq(P1 \o V, m, n) = SubSeq(P1, m, n)
      BY <3>1, PrefixSliceAll
    <3>. QED
      BY <3>2, <2>1
  <2>5. /\ SubSeq(A \o B, 1, Len(A)) = A
        /\ SubSeq(A \o B, Len(A) + 1, Len(A) + Len(B)) = B
    <3>1. A \in Seq(Int) /\ B \in Seq(Int)
      BY <1>1, <1>2
    <3>. QED
      BY <3>1, SplitConcat
  <2>6. Len(A) = AddrLen /\ Len(A) + Len(B) = 2 * AddrLen
    BY DEF A, B
  <2>7. /\ SubSeq(b, 1, AddrLen) = SubSeq(A \o B, 1, AddrLen)
        /\ SubSeq(b, AddrLen + 1, 2 * AddrLen) = SubSeq(A \o B, AddrLen + 1, 2 * AddrLen)
    BY <2>2, <2>3, <2>4 DEF b, P3, P2, P1
  <2>. QED
    BY <2>5, <2>6, <2>7
<1>. QED
  BY <1>3, <1>4, <1>5, <1>6, <1>7, <1>8 DEF Decode, k, A, B, D, V, W

-----------------------------------------------------------------------------
(* The layout of every transaction sign() returns.                         *)

\* What sign() returned was built from fields the caller set, serialized
\* by _serialize, and both of its integers passed struct.pack.
SignedInv ==
    /\ TypeOK
    /\ result.out = "signed" =>
          /\ result.tx \in [from : Addresses, to : Addresses, value : Amounts,
                            data : Payloads \cup {None}, nonce : Nonces]
          /\ result.bytes = Serialize(result.tx)
          /\ Packable(result.tx.value, ValueWidth)
          /\ Packable(result.tx.nonce, NonceWidth)

\* EmittedDecodes up to reading the packed integers back: the bytes of a
\* signed transaction are long enough, cut at the fixed widths they give
\* its addresses and its data, and the value and nonce slices are the
\* struct.pack digits of integers in range.
EmittedLayout ==
    result.out = "signed" =>
        LET b == result.bytes
        IN  /\ Decodable(b)
            /\ Decode(b).from = result.tx.from
            /\ Decode(b).to = result.tx.to
            /\ Decode(b).data = DataBytes(result.tx.data)
            /\ SubSeq(b, 2 * AddrLen + 1, 2 * AddrLen + ValueWidth)
                   = Pack(result.tx.value, ValueWidth)
            /\ SubSeq(b, Len(b) - NonceWidth + 1, Len(b))
                   = Pack(result.tx.nonce, NonceWidth)
            /\ Packable(result.tx.value, ValueWidth)
            /\ Packable(result.tx.nonce, NonceWidth)

\* Addresses and payloads are sequences of integers.
LEMMA InputsAreIntSeqs ==
    Addresses \cup Payloads \subseteq Seq(Int)
<1>1. Bytes \subseteq Int
  BY DEF Bytes
<1>. QED
  BY <1>1, InputsAssumption, SeqMonotonic

LEMMA InitSignedInv == Init => SignedInv
BY DEF Init, SignedInv, TypeOK, Unset, Fields

\* A field build() requires holds what the caller set once it is not None.
LEMMA BuiltFields ==
    ASSUME TypeOK, Built
    PROVE  builder \in [from : Addresses, to : Addresses, value : Amounts,
                        data : Payloads \cup {None}, nonce : Nonces]
<1>1. /\ builder.from # None /\ builder.to # None
      /\ builder.value # None /\ builder.nonce # None
  <2>1. \A i \in 1..4 : builder[Required[i]] # None
    BY DEF Built
  <2>2. Required[1] = "from" /\ Required[2] = "to"
        /\ Required[3] = "value" /\ Required[4] = "nonce"
    BY DEF Required
  <2>. QED
    BY <2>1, <2>2
<1>. QED
  BY <1>1 DEF TypeOK

\* sign() stores a Signed result only for a built builder whose integers
\* pass struct.pack; every other step leaves result or writes a failure.
LEMMA SignedInvStep == SignedInv /\ [Next]_vars => SignedInv'
<1> SUFFICES ASSUME SignedInv, [Next]_vars PROVE SignedInv'
  OBVIOUS
<1>1. TypeOK'
  <2>1. CASE New
    BY <2>1 DEF New, SignedInv, TypeOK, Unset, Fields
  <2>2. ASSUME NEW f \in {"from", "to"}, NEW x \in Addresses, SetField(f, x)
        PROVE  TypeOK'
    BY <2>2 DEF SetField, SignedInv, TypeOK
  <2>3. ASSUME NEW x \in Amounts, SetField("value", x) PROVE TypeOK'
    BY <2>3 DEF SetField, SignedInv, TypeOK
  <2>4. ASSUME NEW x \in Payloads, SetField("data", x) PROVE TypeOK'
    BY <2>4 DEF SetField, SignedInv, TypeOK
  <2>5. ASSUME NEW x \in Nonces, SetField("nonce", x) PROVE TypeOK'
    BY <2>5 DEF SetField, SignedInv, TypeOK
  <2>6. CASE Sign
    <3>1. CASE \E i \in 1..4 : BuildFails(i)
      <4>1. PICK i \in 1..4 : BuildFails(i)
        BY <3>1
      <4>. QED
        BY <2>6, <4>1 DEF Sign, BuildFails, SignedInv, TypeOK
    <3>2. CASE Built /\ result' = [out |-> "struct.error"]
      BY <2>6, <3>2 DEF Sign, SignedInv, TypeOK
    <3>3. CASE Built /\ result' = Signed(builder)
      BY <2>6, <3>3, BuiltFields DEF Sign, SignedInv, TypeOK
    <3>. QED
      BY <2>6, <3>1, <3>2, <3>3 DEF Sign
  <2>7. CASE UNCHANGED vars
    BY <2>7 DEF vars, SignedInv, TypeOK
  <2>. QED
    BY <2>1, <2>2, <2>3, <2>4, <2>5, <2>6, <2>7 DEF Next
<1>2. (result.out = "signed")' =>
          /\ result'.tx \in [from : Addresses, to : Addresses, value : Amounts,
                             data : Payloads \cup {None}, nonce : Nonces]
          /\ result'.bytes = Serialize(result'.tx)
          /\ Packable(result'.tx.value, ValueWidth)
          /\ Packable(result'.tx.nonce, NonceWidth)
  <2>1. CASE UNCHANGED result
    BY <2>1 DEF SignedInv
  <2>2. CASE Sign
    <3>1. CASE \E i \in 1..4 : BuildFails(i)
      BY <3>1 DEF BuildFails
    <3>2. CASE Built /\ result' = [out |-> "struct.error"]
      BY <3>2
    <3>3. CASE /\ Built
               /\ Packable(builder.value, ValueWidth)
               /\ Packable(builder.nonce, NonceWidth)
               /\ result' = Signed(builder)
      BY <3>3, BuiltFields DEF SignedInv, Signed
    <3>. QED
      BY <2>2, <3>1, <3>2, <3>3 DEF Sign
  <2>. QED
    BY <2>1, <2>2 DEF Next, New, SetField, vars
<1>. QED
  BY <1>1, <1>2 DEF SignedInv

\* A transaction that SignedInv describes has the layout, when the
\* addresses have the well-formed length.
LEMMA LayoutOfSigned ==
    ASSUME \A a \in Addresses : Len(a) = AddrLen, SignedInv
    PROVE  EmittedLayout
<1> SUFFICES ASSUME result.out = "signed" PROVE EmittedLayout
  BY DEF EmittedLayout
<1>1. result.tx \in [from : Seq(Int), to : Seq(Int), value : Int,
                     data : Seq(Int) \cup {None}, nonce : Int]
  BY InputsAreIntSeqs, InputsAssumption DEF SignedInv
<1>2. Len(result.tx.from) = AddrLen /\ Len(result.tx.to) = AddrLen
  BY DEF SignedInv
<1>3. result.bytes = Serialize(result.tx)
  BY DEF SignedInv
<1>. QED
  BY <1>1, <1>2, <1>3, SerializeLayout DEF SignedInv, EmittedLayout

\* For every byte base, address length and integer widths, and every set
\* of addresses of the well-formed length, each transaction sign() returns
\* is serialized so that cutting its bytes at the fixed widths gives back
\* its addresses and its data, and the packed digits of its value and
\* nonce, both in range.  With addresses of another length this fails
\* (codec_short_address).
THEOREM SignedLayout ==
    (\A a \in Addresses : Len(a) = AddrLen) => (Spec => []EmittedLayout)
<1> SUFFICES ASSUME \A a \in Addresses : Len(a) = AddrLen
             PROVE  Spec => []EmittedLayout
  OBVIOUS
<1>1. SignedInv => EmittedLayout
  BY LayoutOfSigned
<1>. QED
  BY <1>1, InitSignedInv, SignedInvStep, PTL DEF Spec

\* For every byte base, address length and integer widths, and every set
\* of addresses of the well-formed length, the bytes of each transaction
\* sign() returns decode to exactly the fields set on the builder: its
\* addresses, its data (absent read as empty), and its value and nonce,
\* which struct.pack wrote without truncation.
THEOREM SignedDecodes ==
    (\A a \in Addresses : Len(a) = AddrLen) => (Spec => []EmittedDecodes)
<1> SUFFICES ASSUME \A a \in Addresses : Len(a) = AddrLen
             PROVE  Spec => []EmittedDecodes
  OBVIOUS
<1>1. SignedInv /\ EmittedLayout => EmittedDecodes
  <2> SUFFICES ASSUME SignedInv, EmittedLayout, result.out = "signed"
               PROVE  EmittedDecodes
    BY DEF EmittedDecodes
  <2> DEFINE tx == result.tx
             b == result.bytes
  <2>1. tx \in [from : Addresses, to : Addresses, value : Amounts,
                data : Payloads \cup {None}, nonce : Nonces]
    BY DEF SignedInv
  <2>2. tx.value \in Int /\ tx.nonce \in Int
    BY <2>1, InputsAssumption
  <2>3. /\ Decodable(b)
        /\ Decode(b).from = tx.from /\ Decode(b).to = tx.to
        /\ Decode(b).data = DataBytes(tx.data)
        /\ SubSeq(b, 2 * AddrLen + 1, 2 * AddrLen + ValueWidth) = Pack(tx.value, ValueWidth)
        /\ SubSeq(b, Len(b) - NonceWidth + 1, Len(b)) = Pack(tx.nonce, NonceWidth)
        /\ Shifts(tx.value, ValueWidth)[ValueWidth] = 0
        /\ Shifts(tx.nonce, NonceWidth)[NonceWidth] = 0
    BY DEF EmittedLayout, Packable
  <2>4. Decode(b).value = tx.value
    <3>1. LEValue(Pack(tx.value, ValueWidth)) = tx.value
      BY <2>2, <2>3, CodecAssumption, RoundTrip
    <3>. QED
      BY <2>3, <3>1 DEF Decode
  <2>5. Decode(b).nonce = tx.nonce
    <3>1. LEValue(Pack(tx.nonce, NonceWidth)) = tx.nonce
      BY <2>2, <2>3, CodecAssumption, RoundTrip
    <3>. QED
      BY <2>3, <3>1 DEF Decode
  <2>6. Decode(b) = Canonical(tx)
    BY <2>1, <2>3, <2>4, <2>5 DEF Decode, Canonical
  <2>. QED
    BY <2>3, <2>6 DEF EmittedDecodes
<1>2. SignedInv => EmittedLayout
  BY LayoutOfSigned
<1>. QED
  BY <1>1, <1>2, InitSignedInv, SignedInvStep, PTL DEF Spec

=============================================================================
