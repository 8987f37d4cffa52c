---------------------------- MODULE TriggerDuties ----------------------------
(***************************************************************************)
(* What the tasks of create_trigger_handler promise for the matches of     *)
(* each block: every match is judged once, no trigger is answered before   *)
(* all matches of its block were judged, a match that was filtered out has *)
(* no trigger answered, an answer is final, and a task is over when every  *)
(* trigger of every match left has an answer, or after a shutdown.         *)
(***************************************************************************)
CONSTANT Handlers

VARIABLES
    MatchesOf,  \* the matches of each block
    TriggersOf, \* the triggers of each match
    verdict,    \* of each match: "pending", "left" or "filtered"
    answer,     \* of each trigger of each match: "none", "ok" or "failed"
    over,       \* of each task: "no", "complete" or "abandoned"
    shutdown

work == <<MatchesOf, TriggersOf>>
vars == <<work, verdict, answer, over, shutdown>>

Init ==
    /\ DOMAIN MatchesOf = Handlers
    /\ verdict = [m \in UNION {MatchesOf[h] : h \in Handlers} |-> "pending"]
    /\ DOMAIN TriggersOf = DOMAIN verdict
    /\ answer = [o \in UNION {TriggersOf[m] : m \in DOMAIN verdict} |-> "none"]
    /\ over = [h \in Handlers |-> "no"]
    /\ shutdown = FALSE

Judge(h) ==
    /\ over[h] = "no"
    /\ \E m \in MatchesOf[h] :
           /\ verdict[m] = "pending"
           /\ \E v \in {"left", "filtered"} : verdict' = [verdict EXCEPT ![m] = v]
    /\ UNCHANGED <<work, answer, over, shutdown>>

Answer(h) ==
    /\ over[h] = "no"
    /\ \A m \in MatchesOf[h] : verdict[m] # "pending"
    /\ \E m \in MatchesOf[h] : verdict[m] = "left" /\
           \E o \in TriggersOf[m] : answer[o] = "none" /\
               \E a \in {"ok", "failed"} : answer' = [answer EXCEPT ![o] = a]
    /\ UNCHANGED <<work, verdict, over, shutdown>>

Complete(h) ==
    /\ over[h] = "no"
    /\ \A m \in MatchesOf[h] : verdict[m] # "pending"
    /\ \A m \in MatchesOf[h] : verdict[m] = "left" => \A o \in TriggersOf[m] : answer[o] # "none"
    /\ over' = [over EXCEPT ![h] = "complete"]
    /\ UNCHANGED <<work, verdict, answer, shutdown>>

Abandon(h) ==
    /\ over[h] = "no" /\ shutdown
    /\ over' = [over EXCEPT ![h] = "abandoned"]
    /\ UNCHANGED <<work, verdict, answer, shutdown>>

Shutdown == shutdown' = TRUE /\ UNCHANGED <<work, verdict, answer, over>>

Next ==
    \/ Shutdown
    \/ \E h \in Handlers : Judge(h) \/ Answer(h) \/ Complete(h) \/ Abandon(h)

Spec == Init /\ [][Next]_vars
=============================================================================
