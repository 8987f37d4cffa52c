---------------------------- MODULE BlockTracker ----------------------------
(***************************************************************************)
(* The tracker that every run of process_new_blocks shares                 *)
(* (blockwatcher/tracker.rs).  It remembers the last HistorySize block     *)
(* numbers handed to the trigger handler and the next number it expects,   *)
(* and it only gives verdicts: no caller ever withholds a block because of *)
(* one.  The code keeps one history and one expectation per network slug;  *)
(* they never meet, so the module has those of a single network.           *)
(*                                                                         *)
(* Each operation holds both mutexes until it returns: one action each.    *)
(***************************************************************************)
EXTENDS Integers, Sequences, Functions

CONSTANT HistorySize    \* BlockTracker::history_size; the service passes 1000

ASSUME HistorySizeAssumption == HistorySize \in Nat

VARIABLES
    processed_history,  \* VecDeque of block numbers, oldest first
    expected_next       \* the map entry: Vacant, or the expected number

trackerVars == <<processed_history, expected_next>>

Vacant == -1

TrackerInit ==
    /\ processed_history = <<>>
    /\ expected_next = Vacant

-----------------------------------------------------------------------------

\* or_insert(block_number): a vacant expectation becomes the number checked.
ExpectedFor(n) == IF expected_next = Vacant THEN n ELSE expected_next

\* BlockCheckResult
CheckResult(n) ==
    IF n \in Range(processed_history) THEN "duplicate"
    ELSE IF n < ExpectedFor(n) THEN "out_of_order"
    ELSE "ok"

\* Mutant: pop_back instead of pop_front.
EvictNewest(history) ==
    SubSeq(history, 1, IF Len(history) > HistorySize THEN HistorySize ELSE Len(history))

\* Mutant: while len >= history_size.
EvictEarly(history) ==
    SubSeq(history, IF Len(history) >= HistorySize
                    THEN Len(history) - HistorySize + 2 ELSE 1, Len(history))

\* while len > history_size { pop_front }
Evict(history) ==
    SubSeq(history, IF Len(history) > HistorySize
                    THEN Len(history) - HistorySize + 1 ELSE 1, Len(history))

\* check_processed_block: a duplicate is not recorded again and moves nothing; any
\* other number is recorded, and only one at or past the expectation advances it.
CheckProcessedBlock(n) ==
    IF CheckResult(n) = "duplicate"
    THEN /\ expected_next' = ExpectedFor(n)
         /\ UNCHANGED processed_history
    ELSE /\ processed_history' = Evict(Append(processed_history, n))
         /\ expected_next' = IF n >= ExpectedFor(n) THEN n + 1 ELSE ExpectedFor(n)

\* Mutant: or_insert only, an expectation that is there stays.
ResetIfVacant(start_block) ==
    /\ expected_next' = IF expected_next = Vacant THEN start_block ELSE expected_next
    /\ UNCHANGED processed_history

\* reset_expected_next: fills a vacant entry, and otherwise only lowers it.
ResetExpectedNext(start_block) ==
    /\ expected_next' = IF expected_next = Vacant \/ expected_next > start_block
                        THEN start_block ELSE expected_next
    /\ UNCHANGED processed_history
=============================================================================
