----------------------- MODULE MCMissedBlockRecovery ------------------------
(***************************************************************************)
(* MissedBlockRecovery for TLC: overlapping runs are interchangeable.      *)
(***************************************************************************)
EXTENDS MissedBlockRecovery, TLC

Overlapping == Permutations(Jobs) \cup Permutations(Watchers)
=============================================================================
