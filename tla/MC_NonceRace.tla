---------------------------- MODULE MC_NonceRace ----------------------------
(* Instances of NonceRace for TLC.                                         *)
EXTENDS NonceRace, TLC

\* Four helper calls one after the other, as in examples 01 to 04.
MCSequentialN == 4

\* Three helper calls under asyncio.gather, as in example 05.
MCGatherN == 3

=============================================================================
