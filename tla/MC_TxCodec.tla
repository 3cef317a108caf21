----------------------------- MODULE MC_TxCodec -----------------------------
(* Instances of TxCodec for TLC.  The bytes are the UTF-8 codes of four    *)
(* characters, numbered 0..3: '0', 'x', 'a' and 'b'; a well-formed address *)
(* is "0x" and one hex digit, three bytes.  The value packs into two bytes *)
(* and the nonce into one (the <Q value is wider than the <I nonce, as in  *)
(* the code).                                                              *)
EXTENDS TxCodec, TLC

\* The byte of each character.
Code == ("0" :> 0) @@ ("x" :> 1) @@ ("a" :> 2) @@ ("b" :> 3)

\* str.encode() of a text given as its characters.
Utf8(cs) == [i \in DOMAIN cs |-> Code[cs[i]]]

\* Well-formed addresses only: "0xa" and "0xb".
MCAddresses == {Utf8(<<"0", "x", "a">>), Utf8(<<"0", "x", "b">>)}

\* What the builder also accepts, as from_addr and to do not check the
\* text: "0xa0x" and "b" join to the bytes of "0xa" and "0xb".
MCAnyAddresses ==
    MCAddresses \cup {Utf8(<<"0", "x", "a", "0", "x">>), Utf8(<<"b">>)}

\* A negative amount, zero, the largest packable amount and the first
\* amount past it.
MCAmounts == {-1, 0, 15, 16}

\* Zero (a valid nonce), the largest packable nonce and the first past it.
MCNonces == {0, 3, 4}

MCPayloads == {<<>>, <<3>>, <<0, 1>>}

=============================================================================
