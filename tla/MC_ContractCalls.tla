--------------------------- MODULE MC_ContractCalls ---------------------------
(* Two concurrent helper calls, one proposal, two hashes (one of them not  *)
(* hex), the boundary integers of the argument checks and of "<Q"; or two *)
(* concurrent receipt checks about the same two hashes.                    *)
EXTENDS ContractCalls, TLC

CONSTANTS t1, t2, h1, h2, b1, v1, None, k1, k2

MCTasks == {t1, t2}
MCChecks == {k1, k2}
MCHashes == {h1, h2}
MCBadHex == {h2}
MCBlobs == {b1}
MCInts == {-1, 0, 10000, 10001}
MCLengths == {1, 257, 10001}
MCAddresses == {v1}
MCProposalIds == {1}
MCValueLimit == 2^30

TaskSymmetry == Permutations(MCTasks) \cup Permutations(MCChecks)
=============================================================================
