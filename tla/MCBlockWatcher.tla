--------------------------- MODULE MCBlockWatcher ---------------------------
(***************************************************************************)
(* The files a network may start with: none, or one of an earlier run; and *)
(* what TLC may identify when it looks for lost blocks: runs that change   *)
(* places, and states that differ in the block files, the trigger tasks,   *)
(* or what was notified or handed over twice.  No guard, no other variable *)
(* and no part of NoSilentLoss reads these.                                *)
(***************************************************************************)
EXTENDS BlockWatcher, TLC

NoFileYet == {NoFile}
AnyFile   == {NoFile, 1}

RunsAlike == Permutations(Runs)

LossView == <<height, last_file, missed, run, triggered, skipped, unseen, origin>>
=============================================================================
