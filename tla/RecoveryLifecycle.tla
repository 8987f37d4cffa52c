------------------------- MODULE RecoveryLifecycle --------------------------
(***************************************************************************)
(* The life of the entries of the missed-blocks file, as MissedBlockStatus *)
(* and the algorithm in front of process_missed_blocks describe it: an     *)
(* attempt recovers a block or costs it one of its max_retries, a block    *)
(* that has none left has failed for good, and an entry goes away when its *)
(* block is recovered or, between attempts, when it is too old.            *)
(***************************************************************************)
EXTENDS Naturals

CONSTANTS Blocks, max_retries

VARIABLES
    status,         \* status[n]: the entry's status, or "Untracked", or "Gone"
    retry_count     \* retry_count[n]: failed attempts; 0 when there is no entry

vars == <<status, retry_count>>

Statuses == {"Untracked", "Pending", "Recovering", "Recovered", "Failed", "Gone"}

Init ==
    /\ status \in [Blocks -> {"Untracked", "Pending"}]
    /\ retry_count = [n \in Blocks |-> 0]

Move(n, from, to) ==
    /\ status[n] = from
    /\ status' = [status EXCEPT ![n] = to]

Attempt(n) == Move(n, "Pending", "Recovering") /\ UNCHANGED retry_count

Recover(n) == Move(n, "Recovering", "Recovered") /\ UNCHANGED retry_count

\* A failed attempt with others left, and the last one.
Retry(n) ==
    /\ retry_count[n] + 1 < max_retries
    /\ Move(n, "Recovering", "Pending")
    /\ retry_count' = [retry_count EXCEPT ![n] = @ + 1]

GiveUp(n) ==
    /\ retry_count[n] + 1 = max_retries
    /\ Move(n, "Recovering", "Failed")
    /\ retry_count' = [retry_count EXCEPT ![n] = @ + 1]

\* Recovered blocks are removed together; so are old ones, when no attempt runs.
Forget(S) ==
    /\ \/ \A n \in S : status[n] = "Recovered"
       \/ \A n \in Blocks : status[n] # "Recovering"
    /\ \A n \in S : status[n] # "Untracked"
    /\ status' = [n \in Blocks |-> IF n \in S THEN "Gone" ELSE status[n]]
    /\ retry_count' = [n \in Blocks |-> IF n \in S THEN 0 ELSE retry_count[n]]

Next ==
    \/ \E n \in Blocks : Attempt(n) \/ Recover(n) \/ Retry(n) \/ GiveUp(n)
    \/ \E S \in SUBSET Blocks : Forget(S)

Spec == Init /\ [][Next]_vars
=============================================================================
