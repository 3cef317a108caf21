------------------------ MODULE MC_CompletionTracker ------------------------
(* Model-checking instance of CompletionTracker: one transaction wait and  *)
(* two job waits on one event loop.                                        *)
EXTENDS CompletionTracker, TLC

CONSTANTS t1, j1, j2

MCTxWaits == {t1}
MCJobWaits == {j1, j2}

\* A single job wait, for the liveness and violation runs.
MCOneJobWait == {j1}

\* The two job waits are interchangeable.
MCSymmetry == Permutations(MCJobWaits)
=============================================================================
