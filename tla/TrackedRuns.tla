---------------------------- MODULE TrackedRuns -----------------------------
(***************************************************************************)
(* Runs of process_new_blocks that overlap in time and share one           *)
(* BlockTracker.  The cron job starts a run at every tick, whether or not  *)
(* the run of an earlier tick has ended, so the calls of several runs      *)
(* interleave.  A run resets the expectation to its start block and then   *)
(* checks numbers in ascending order (holes allowed), each just before it  *)
(* calls the trigger handler.                                              *)
(*                                                                         *)
(* recorded and overtaken are history variables: they record what happened *)
(* and never influence it.                                                 *)
(***************************************************************************)
EXTENDS BlockTracker

CONSTANTS
    Runs,       \* identities of runs
    MaxBlock,   \* bound: the largest block number
    MaxChecks   \* bound: the number of checks in a behaviour

ASSUME RunsAssumption == MaxBlock \in Nat /\ MaxChecks \in Nat

VARIABLES
    cursor,     \* cursor[r]: the smallest number run r may still check, or Idle
    recorded,   \* every number that entered the history, in order
    overtaken   \* overtaken[r]: one past the largest number another run has
                \* recorded since r reset the expectation; 0 if none has

runsVars == <<processed_history, expected_next, cursor, recorded, overtaken>>

Idle == -1
Blocks == 1 .. MaxBlock

RunsInit ==
    /\ TrackerInit
    /\ cursor = [r \in Runs |-> Idle]
    /\ recorded = <<>>
    /\ overtaken = [r \in Runs |-> 0]

\* process_new_blocks computes start_block and resets the expectation.
Begin(r, first) ==
    /\ cursor[r] = Idle
    /\ ResetExpectedNext(first)
    /\ cursor' = [cursor EXCEPT ![r] = first]
    /\ overtaken' = [overtaken EXCEPT ![r] = 0]
    /\ UNCHANGED recorded

\* The trigger stage checks the number of the block it is about to trigger.
Check(r, n) ==
    /\ cursor[r] # Idle
    /\ n >= cursor[r]
    /\ Len(recorded) < MaxChecks
    /\ CheckProcessedBlock(n)
    /\ cursor' = [cursor EXCEPT ![r] = n + 1]
    /\ IF CheckResult(n) = "duplicate"
       THEN UNCHANGED <<recorded, overtaken>>
       ELSE /\ recorded' = Append(recorded, n)
            /\ overtaken' = [q \in Runs |->
                   IF q # r /\ overtaken[q] < n + 1 THEN n + 1 ELSE overtaken[q]]

\* Both stages have ended.
End(r) ==
    /\ cursor[r] # Idle
    /\ cursor' = [cursor EXCEPT ![r] = Idle]
    /\ UNCHANGED <<processed_history, expected_next, recorded, overtaken>>

RunsNext == \E r \in Runs :
            \/ \E n \in Blocks : Begin(r, n) \/ Check(r, n)
            \/ End(r)

RunsSpec == RunsInit /\ [][RunsNext]_runsVars

-----------------------------------------------------------------------------

\* Type correctness of the tracker and of the runs that call it.
RunsTypeOK ==
    /\ processed_history \in Seq(Blocks)
    /\ expected_next \in 1 .. MaxBlock + 1 \cup {Vacant}
    /\ cursor \in [Runs -> 1 .. MaxBlock + 1 \cup {Idle}]
    /\ recorded \in Seq(Blocks)
    /\ overtaken \in [Runs -> 0 .. MaxBlock + 1]

\* The history is exactly the last HistorySize numbers recorded, whatever the
\* interleaving of the runs: eviction drops the oldest and nothing else.
HistoryIsRecent ==
    /\ Len(processed_history) =
           IF Len(recorded) < HistorySize THEN Len(recorded) ELSE HistorySize
    /\ \A i \in 1 .. Len(processed_history) :
           processed_history[i] =
               recorded[Len(recorded) - Len(processed_history) + i]

\* A number is recorded a second time only after HistorySize others have pushed it
\* out: within the window the tracker always says Duplicate, even when the two
\* checks come from different runs.
DuplicatesAreFar ==
    \A i, j \in 1 .. Len(recorded) :
        i < j /\ recorded[i] = recorded[j] => j - i > HistorySize

\* "This prevents false out-of-order warnings when reprocessing blocks or
\* restarting" (service.rs): run r, whose next block is n, is told OutOfOrder only
\* when another run has recorded n or a later block since r's reset.
OutOfOrderMeansOvertaken ==
    \A r \in Runs : \A n \in Blocks :
        /\ cursor[r] # Idle
        /\ n >= cursor[r]
        /\ CheckResult(n) = "out_of_order"
        => overtaken[r] > n
=============================================================================
