--------------------------- MODULE TriggerHandler ---------------------------
(***************************************************************************)
(* The tasks that create_trigger_handler spawns, one for each block.  A    *)
(* task first runs the filter scripts of all matches of its block, then    *)
(* handles the matches that are left one after the other: the triggers of  *)
(* a match are executed together, and the next match waits for all of      *)
(* them.  Tasks of several blocks run at the same time; they share the     *)
(* pool of notification clients.                                           *)
(*                                                                         *)
(* An execution <<h, i, k>> is the k-th trigger of the i-th match of       *)
(* handler h, and a requester of the pool.  Shutdown drops a task wherever *)
(* it awaits, if it subscribed before.                                     *)
(***************************************************************************)
EXTENDS ClientPool

CONSTANTS
    Handlers,       \* the blocks' tasks
    Plans,          \* for each handler, matches [conditions, triggers]
    Trigger,        \* the configuration of each trigger
    BackoffTimes,   \* how often the mail client's backoff retries at most
    Scripts,        \* the configured scripts
    Deaf,           \* those that neither read their input nor exit
    Silent          \* triggers whose server takes requests and never answers

\* What is left of a validated trigger's configuration.
TriggerConfigs ==
    [type : {"webhook", "email", "script"}, key : Keys \union {"none"}, max_retries : Nat,
     secret : {"none", "set", "empty"}, script : Scripts \union {"none"}, fits : BOOLEAN]

ASSUME TriggerAssumption ==
    /\ BackoffTimes \in Nat
    /\ Trigger \in [DOMAIN Trigger -> TriggerConfigs]
    /\ \A t \in DOMAIN Trigger : Trigger[t].fits =>
           IF Trigger[t].type = "script"
           THEN Trigger[t].script \in Scripts /\ Trigger[t].secret = "none"
           ELSE Trigger[t].key \in Keys

\* There is a requester for each trigger of each match.
ASSUME PlansAssumption ==
    /\ Plans \subseteq [Handlers -> Seq([conditions : Seq(Scripts), triggers : Seq(DOMAIN Trigger)])]
    /\ Requesters \subseteq Handlers \X Nat \X Nat
    /\ \A p \in Plans, h \in Handlers : \A i \in DOMAIN p[h] : \A k \in DOMAIN p[h][i].triggers :
           <<h, i, k>> \in Requesters

VARIABLES
    plan,        \* the matches of each handler
    shutdown,    \* the shutdown channel's value
    task,        \* the stage of each handler's task
    hears,       \* whether it subscribed before the shutdown was sent
    match,       \* the match whose conditions it is at
    condition,   \* the condition of that match it is at
    script,      \* what the filter script's process is at
    kept,        \* filtered_matches, by their indexes
    place,       \* the place in kept of the match it handles
    exec,        \* how far each execution is
    attempts,    \* how often it sent its message
    delivered    \* how often the message arrived

handlerVars == <<task, hears, match, condition, script, kept, place>>
execVars    == <<exec, attempts, delivered>>
vars        == <<poolVars, plan, shutdown, handlerVars, execVars>>

Conditions(h)    == plan[h][match[h]].conditions
TriggerOf(o)     == plan[o[1]][o[2]].triggers[o[3]]
Config(o)        == Trigger[TriggerOf(o)]
Executions(h, i) == {o \in Requesters : /\ o[1] = h /\ o[2] = i
                                        /\ i \in DOMAIN plan[h] /\ o[3] \in DOMAIN plan[h][i].triggers}

Running  == {"filtering", "handling"}
Finished == {"ok", "failed"}
IsDone(h, i) == \A o \in Executions(h, i) : exec[o] \in Finished

Init ==
    /\ PoolInit
    /\ plan \in Plans
    /\ shutdown = FALSE
    /\ task = [h \in Handlers |-> "unspawned"]
    /\ hears = [h \in Handlers |-> FALSE]
    /\ match = [h \in Handlers |-> 1]
    /\ condition = [h \in Handlers |-> 1]
    /\ script = [h \in Handlers |-> "none"]
    /\ kept = [h \in Handlers |-> <<>>]
    /\ place = [h \in Handlers |-> 1]
    /\ exec = [o \in Requesters |-> "none"]
    /\ attempts = [o \in Requesters |-> 0]
    /\ delivered = [o \in Requesters |-> 0]

(***************************************************************************)
(* The task's start and end.                                               *)
(***************************************************************************)
\* The handler is called: it subscribes, then spawns the task.
Spawn(h) ==
    /\ task[h] = "unspawned"
    /\ task' = [task EXCEPT ![h] = "filtering"]
    /\ hears' = [hears EXCEPT ![h] = ~shutdown]
    /\ UNCHANGED <<poolVars, plan, shutdown, match, condition, script, kept, place, execVars>>

Shutdown ==
    /\ ~shutdown
    /\ shutdown' = TRUE
    /\ UNCHANGED <<poolVars, plan, handlerVars, execVars>>

\* Mutant: the triggers are executed outside of the select.
CancelFiltersOnly(h) ==
    /\ shutdown /\ hears[h]
    /\ task[h] = "filtering"
    /\ task' = [task EXCEPT ![h] = "cancelled"]
    /\ script' = [script EXCEPT ![h] = "none"]
    /\ UNCHANGED <<poolVars, plan, shutdown, hears, match, condition, kept, place, execVars>>

\* shutdown_rx.changed() wins the select: everything the task awaits is dropped.
Cancel(h) ==
    /\ shutdown /\ hears[h]
    /\ task[h] \in Running
    /\ task' = [task EXCEPT ![h] = "cancelled"]
    /\ script' = [script EXCEPT ![h] = "none"]
    /\ exec' = [o \in Requesters |->
                   IF o[1] = h /\ exec[o] \notin Finished \union {"none"} THEN "dropped" ELSE exec[o]]
    /\ Drop({o \in Requesters : o[1] = h})
    /\ UNCHANGED <<plan, shutdown, hears, match, condition, kept, place, attempts, delivered>>

(***************************************************************************)
(* run_trigger_filters.                                                    *)
(***************************************************************************)
Filtering(h) == task[h] = "filtering" /\ match[h] \in DOMAIN plan[h]

NextMatch(h, left) ==
    /\ match' = [match EXCEPT ![h] = @ + 1]
    /\ condition' = [condition EXCEPT ![h] = 1]
    /\ kept' = [kept EXCEPT ![h] = IF left THEN Append(@, match[h]) ELSE @]

\* A condition that does not filter: the next one, or the match is left.
NextCondition(h) ==
    IF condition[h] < Len(Conditions(h))
    THEN condition' = [condition EXCEPT ![h] = @ + 1] /\ UNCHANGED <<match, kept>>
    ELSE NextMatch(h, TRUE)

KeepUnconditional(h) ==
    /\ Filtering(h) /\ Conditions(h) = <<>>
    /\ NextMatch(h, TRUE)
    /\ UNCHANGED <<poolVars, plan, shutdown, task, hears, script, place, execVars>>

\* The script's process is started and written to.
StartScript(h) ==
    /\ Filtering(h) /\ Conditions(h) # <<>>
    /\ script[h] = "none"
    /\ script' = [script EXCEPT ![h] = "writing"]
    /\ UNCHANGED <<poolVars, plan, shutdown, task, hears, match, condition, kept, place, execVars>>

\* No time limit yet: an input larger than the pipe waits for the script to read.
WriteInput(h) ==
    /\ script[h] = "writing"
    /\ Conditions(h)[condition[h]] \notin Deaf
    /\ script' = [script EXCEPT ![h] = "waiting"]
    /\ UNCHANGED <<poolVars, plan, shutdown, task, hears, match, condition, kept, place, execVars>>

ScriptAnswersTrue(h) ==
    /\ script[h] = "waiting"
    /\ script' = [script EXCEPT ![h] = "none"]
    /\ NextMatch(h, FALSE)
    /\ UNCHANGED <<poolVars, plan, shutdown, task, hears, place, execVars>>

\* It answers false or nothing valid, exits with an error, or reaches its time
\* limit; before that it may not start, or exit without reading its input.
ScriptDoesNotFilter(h) ==
    /\ \/ script[h] \in {"writing", "waiting"}
       \/ script[h] = "none" /\ Filtering(h) /\ Conditions(h) # <<>>
    /\ script[h] = "writing" => Conditions(h)[condition[h]] \notin Deaf
    /\ script' = [script EXCEPT ![h] = "none"]
    /\ NextCondition(h)
    /\ UNCHANGED <<poolVars, plan, shutdown, task, hears, place, execVars>>

\* Mutant: the first match is handled as soon as it is left.
StartHandlingEarly(h) ==
    /\ task[h] = "filtering"
    /\ match[h] \notin DOMAIN plan[h] \/ kept[h] # <<>>
    /\ task' = [task EXCEPT ![h] = "handling"]
    /\ UNCHANGED <<poolVars, plan, shutdown, hears, match, condition, script, kept, place, execVars>>

StartHandling(h) ==
    /\ task[h] = "filtering"
    /\ match[h] \notin DOMAIN plan[h]
    /\ task' = [task EXCEPT ![h] = "handling"]
    /\ UNCHANGED <<poolVars, plan, shutdown, hears, match, condition, script, kept, place, execVars>>

(***************************************************************************)
(* handle_match for the matches left: TriggerExecutionService::execute     *)
(* joins the executions of all triggers, whatever each of them returns.    *)
(***************************************************************************)
Handling(h) == task[h] = "handling" /\ place[h] \in DOMAIN kept[h]

Current(h) == kept[h][place[h]]

StartMatch(h) ==
    /\ Handling(h)
    /\ LET started == Executions(h, Current(h))
       IN  /\ \A o \in started : exec[o] = "none"
           /\ started # {}
           /\ exec' = [o \in Requesters |-> IF o \in started THEN "ready" ELSE exec[o]]
    /\ UNCHANGED <<poolVars, plan, shutdown, handlerVars, attempts, delivered>>

\* Mutant: one failure ends the match, what still runs is dropped.
FinishMatchOnFailure(h) ==
    /\ Handling(h)
    /\ LET all == Executions(h, Current(h))
       IN  /\ \A o \in all : exec[o] # "none"
           /\ (\E o \in all : exec[o] = "failed") \/ IsDone(h, Current(h))
    /\ place' = [place EXCEPT ![h] = @ + 1]
    /\ UNCHANGED <<poolVars, plan, shutdown, task, hears, match, condition, script, kept, execVars>>

\* Mutant: a trigger that failed holds up the matches after its own.
FinishMatchOnSuccess(h) ==
    /\ Handling(h)
    /\ \A o \in Executions(h, Current(h)) : exec[o] = "ok"
    /\ place' = [place EXCEPT ![h] = @ + 1]
    /\ UNCHANGED <<poolVars, plan, shutdown, task, hears, match, condition, script, kept, execVars>>

FinishMatch(h) ==
    /\ Handling(h)
    /\ IsDone(h, Current(h))
    /\ place' = [place EXCEPT ![h] = @ + 1]
    /\ UNCHANGED <<poolVars, plan, shutdown, task, hears, match, condition, script, kept, execVars>>

End(h) ==
    /\ task[h] = "handling" /\ ~Handling(h)
    /\ task' = [task EXCEPT ![h] = "ended"]
    /\ UNCHANGED <<poolVars, plan, shutdown, hears, match, condition, script, kept, place, execVars>>

(***************************************************************************)
(* NotificationService::execute.                                           *)
(***************************************************************************)
Become(o, stage) == exec' = [exec EXCEPT ![o] = stage]

\* A trigger whose configuration is of another kind than its type.
Refuse(o) ==
    /\ exec[o] = "ready" /\ ~Config(o).fits
    /\ Become(o, "failed")
    /\ UNCHANGED <<poolVars, plan, shutdown, handlerVars, attempts, delivered>>

AskForClient(o) ==
    /\ exec[o] = "ready" /\ Config(o).fits /\ Config(o).type # "script"
    /\ Ask(o, Config(o).key)
    /\ Become(o, "pooling")
    /\ UNCHANGED <<plan, shutdown, handlerVars, attempts, delivered>>

Pool(o) ==
    /\ exec[o] = "pooling"
    /\ PoolStep(o)
    /\ UNCHANGED <<plan, shutdown, handlerVars, execVars>>

\* A webhook with an empty secret is not signed, and not sent.
StartSending(o) ==
    /\ exec[o] = "pooling" /\ step[o] \in {"served", "refused"}
    /\ IF step[o] = "refused" \/ Config(o).secret = "empty"
       THEN Become(o, "failed") /\ attempts' = attempts
       ELSE Become(o, "sending") /\ attempts' = [attempts EXCEPT ![o] = 1]
    /\ UNCHANGED <<poolVars, plan, shutdown, handlerVars, delivered>>

SmallerOf(m, n) == IF m < n THEN m ELSE n

\* Mutant: the number of retries is taken for the number of attempts plus one.
RetriesPlusOne(o) ==
    IF Config(o).type = "email" THEN SmallerOf(Config(o).max_retries, BackoffTimes)
    ELSE Config(o).max_retries + 1

\* The webhooks' retry policy, and the backoff that email retries with.
Retries(o) ==
    IF Config(o).type = "email" THEN SmallerOf(Config(o).max_retries, BackoffTimes)
    ELSE Config(o).max_retries

SendSucceeds(o) ==
    /\ exec[o] = "sending" /\ TriggerOf(o) \notin Silent
    /\ delivered' = [delivered EXCEPT ![o] = @ + 1]
    /\ Become(o, "ok")
    /\ UNCHANGED <<poolVars, plan, shutdown, handlerVars, attempts>>

\* A status or an SMTP error that no retry can change.
SendIsRejected(o) ==
    /\ exec[o] = "sending" /\ TriggerOf(o) \notin Silent
    /\ Become(o, "failed")
    /\ UNCHANGED <<poolVars, plan, shutdown, handlerVars, attempts, delivered>>

\* A transient failure: the connection, a time limit or a server's error.  The
\* message may have arrived although its answer did not.
SendFails(o) ==
    /\ exec[o] = "sending" /\ TriggerOf(o) \notin Silent
    /\ delivered' \in {delivered, [delivered EXCEPT ![o] = @ + 1]}
    /\ Become(o, IF attempts[o] <= Retries(o) THEN "resting" ELSE "failed")
    /\ UNCHANGED <<poolVars, plan, shutdown, handlerVars, attempts>>

\* After the backoff.
Retry(o) ==
    /\ exec[o] = "resting"
    /\ attempts' = [attempts EXCEPT ![o] = @ + 1]
    /\ Become(o, "sending")
    /\ UNCHANGED <<poolVars, plan, shutdown, handlerVars, delivered>>

\* A trigger that is a script: started, given its input, waited for.
StartNotifier(o) ==
    /\ exec[o] = "ready" /\ Config(o).fits /\ Config(o).type = "script"
    /\ Become(o, "writing")
    /\ attempts' = [attempts EXCEPT ![o] = 1]
    /\ UNCHANGED <<poolVars, plan, shutdown, handlerVars, delivered>>

WriteNotifierInput(o) ==
    /\ exec[o] = "writing" /\ Config(o).script \notin Deaf
    /\ Become(o, "waiting")
    /\ UNCHANGED <<poolVars, plan, shutdown, handlerVars, attempts, delivered>>

NotifierSucceeds(o) ==
    /\ exec[o] = "waiting"
    /\ Become(o, "ok")
    /\ delivered' = [delivered EXCEPT ![o] = @ + 1]
    /\ UNCHANGED <<poolVars, plan, shutdown, handlerVars, attempts>>

\* It does not start, exits without reading, fails, or reaches its time limit.
NotifierFails(o) ==
    /\ exec[o] \in {"writing", "waiting"}
    /\ exec[o] = "writing" => Config(o).script \notin Deaf
    /\ Become(o, "failed")
    /\ UNCHANGED <<poolVars, plan, shutdown, handlerVars, attempts, delivered>>

(***************************************************************************)
(* The specification.                                                      *)
(***************************************************************************)
HandlerStep(h) ==
    \/ KeepUnconditional(h)
    \/ StartScript(h)
    \/ WriteInput(h)
    \/ ScriptAnswersTrue(h)
    \/ ScriptDoesNotFilter(h)
    \/ StartHandling(h)
    \/ StartMatch(h)
    \/ FinishMatch(h)
    \/ End(h)

ExecutionStep(o) ==
    \/ Refuse(o)
    \/ AskForClient(o)
    \/ Pool(o)
    \/ StartSending(o)
    \/ SendSucceeds(o)
    \/ SendIsRejected(o)
    \/ SendFails(o)
    \/ Retry(o)
    \/ StartNotifier(o)
    \/ WriteNotifierInput(o)
    \/ NotifierSucceeds(o)
    \/ NotifierFails(o)

Next ==
    \/ Shutdown
    \/ \E h \in Handlers : Spawn(h) \/ Cancel(h) \/ HandlerStep(h)
    \/ \E o \in Requesters : ExecutionStep(o)

\* The runtime polls every task that can go on, servers that are not silent
\* answer or a time limit is reached, and so is that of a script.
Fairness ==
    /\ \A h \in Handlers : WF_vars(HandlerStep(h)) /\ WF_vars(Cancel(h))
    /\ \A o \in Requesters : WF_vars(ExecutionStep(o))

Spec == Init /\ [][Next]_vars /\ Fairness

(***************************************************************************)
(* Type invariant.                                                         *)
(***************************************************************************)
Active == {"ready", "pooling", "sending", "resting", "writing", "waiting"}

TypeOK ==
    /\ PoolTypeOK
    /\ plan \in Plans
    /\ shutdown \in BOOLEAN
    /\ task \in [Handlers -> {"unspawned", "ended", "cancelled"} \union Running]
    /\ hears \in [Handlers -> BOOLEAN]
    /\ {match, condition, place} \subseteq [Handlers -> Nat \ {0}]
    /\ script \in [Handlers -> {"none", "writing", "waiting"}]
    /\ kept \in [Handlers -> Seq(Nat)]
    /\ exec \in [Requesters -> Active \union Finished \union {"none", "dropped"}]
    /\ {attempts, delivered} \subseteq [Requesters -> Nat]

(***************************************************************************)
(* A trigger is begun only when all matches of the block went through      *)
(* their filters and the triggers of every earlier match were answered:    *)
(* the loop of create_trigger_handler waits for run_trigger_filters, and   *)
(* join_all for all executions (bootstrap/mod.rs:426-431).                 *)
(***************************************************************************)
OneMatchAtATime ==
    \A o \in Requesters : exec[o] # "none" =>
        /\ match[o[1]] > Len(plan[o[1]])
        /\ o[2] \in ToSet(kept[o[1]])
        /\ \A i \in ToSet(kept[o[1]]) : i < o[2] => IsDone(o[1], i)

(***************************************************************************)
(* A message is sent at most once more than the policy allows retries and  *)
(* arrives at most as often as it is sent; without retries it never        *)
(* arrives twice.  A trigger that reports success was delivered, and one   *)
(* that cannot be signed was never sent (webhook.rs:168-270,               *)
(* email.rs:141-181).                                                      *)
(***************************************************************************)
SendsWithinPolicy ==
    \A o \in Requesters : attempts[o] > 0 =>
        /\ attempts[o] <= Config(o).max_retries + 1
        /\ Config(o).type = "email" => attempts[o] <= BackoffTimes + 1
        /\ delivered[o] <= attempts[o]
        /\ exec[o] = "ok" => delivered[o] > 0
        /\ Config(o).secret # "empty"

(***************************************************************************)
(* The tasks do what TriggerDuties promises: one failing trigger, or a     *)
(* failing filter script, costs no other trigger its execution, and only a *)
(* shutdown ends a task early (service.rs:84-134, filter_match.rs:136).    *)
(***************************************************************************)
MatchesOf  == [h \in Handlers |-> {<<h, i>> : i \in DOMAIN plan[h]}]
Matches    == UNION {MatchesOf[h] : h \in Handlers}
TriggersOf == [m \in Matches |-> Executions(m[1], m[2])]

Verdicts == [m \in Matches |-> IF m[2] \in ToSet(kept[m[1]]) THEN "left"
                               ELSE IF m[2] < match[m[1]] THEN "filtered" ELSE "pending"]
Answers  == [o \in UNION {TriggersOf[m] : m \in Matches} |->
                IF exec[o] \in Finished THEN exec[o] ELSE "none"]
Outcomes == [h \in Handlers |-> IF task[h] = "ended" THEN "complete"
                                ELSE IF task[h] = "cancelled" THEN "abandoned" ELSE "no"]

Duties == INSTANCE TriggerDuties WITH verdict <- Verdicts, answer <- Answers, over <- Outcomes

ImplementsDuties == Duties!Spec

(***************************************************************************)
(* A spawned task ends, whatever the other tasks wait for, unless it waits *)
(* for a script that reads no input or a server that gives no answer: the  *)
(* time limit of a script begins after its input was written               *)
(* (executor.rs:212-229), and the HTTP client has none for an answer       *)
(* (notification/pool.rs:85-90).                                           *)
(***************************************************************************)
Hangs(h) ==
    \/ script[h] = "writing" /\ Conditions(h)[condition[h]] \in Deaf
    \/ \E o \in Requesters : o[1] = h /\
           \/ exec[o] = "writing" /\ Config(o).script \in Deaf
           \/ exec[o] = "sending" /\ TriggerOf(o) \in Silent

TasksEnd ==
    \A h \in Handlers : task[h] = "filtering" ~> task[h] \in {"ended", "cancelled"} \/ Hangs(h)

(***************************************************************************)
(* After a shutdown every task that subscribed before ends, whatever it    *)
(* waits for (bootstrap/mod.rs:415-435).                                   *)
(***************************************************************************)
ShutdownEndsTasks ==
    \A h \in Handlers :
        shutdown /\ hears[h] /\ task[h] \in Running ~> task[h] \in {"ended", "cancelled"}
=============================================================================
