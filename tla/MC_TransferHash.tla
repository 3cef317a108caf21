------------------------- MODULE MC_TransferHash -------------------------
(* Model-checking instance of TransferHash: one hex and one non-hex        *)
(* address, one public key, signatures of several lengths, and integers    *)
(* on both sides of the positivity checks.                                 *)
EXTENDS TransferHash, TLC

\* "0x" and 40 hex digits, and a bare 40-digit text.
MCRecipients == {[hex |-> TRUE, len |-> 42, id |-> 1],
                 [hex |-> FALSE, len |-> 40, id |-> 2]}

MCPublicKeys == {[hex |-> TRUE, len |-> 66, id |-> 3]}

\* 0x with 128 hex digits (64 bytes), and with 62 (31 bytes).
MCSignatures == {[hex |-> TRUE, len |-> 130, id |-> 4],
                 [hex |-> TRUE, len |-> 64, id |-> 5]}

MCAmounts == {0, 1, 2}
MCMemos == {"", "m"}
MCNonces == {-1, 0}

\* "", "/" and "h/".
MCEndpoints == {[base |-> "", slashes |-> 0], [base |-> "", slashes |-> 1],
                [base |-> "h", slashes |-> 1]}

\* A blank id and a non-blank one.
MCJobIds == {[hex |-> FALSE, len |-> 0, id |-> 6],
             [hex |-> FALSE, len |-> 9, id |-> 7]}

MCHashes == {[hex |-> TRUE, len |-> 66, id |-> 8],
             [hex |-> FALSE, len |-> 64, id |-> 9]}

\* At the clock's start and after it.
MCExpiries == {1, 2}
=============================================================================
