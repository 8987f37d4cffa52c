------------------------ MODULE TriggerHandlerProofs ------------------------
(***************************************************************************)
(* Proofs about TriggerHandler: for any number of blocks, matches, filter  *)
(* scripts and triggers, any configuration of them, and a shutdown at any  *)
(* point, the tasks handle one match at a time, send within the policy,    *)
(* share one client per key and do what TriggerDuties promises; and the    *)
(* variables that MatchHandling gives the triggers are those of the match. *)
(***************************************************************************)
EXTENDS TriggerHandler, MatchHandling, SequenceLemmas

\* The matches left by the filters are ascending and lie before the one being filtered.
KeptInOrder(h) ==
    /\ match[h] <= Len(plan[h]) + 1
    /\ \A j \in 1 .. Len(kept[h]) : kept[h][j] \in 1 .. match[h] - 1
    /\ \A j, k \in 1 .. Len(kept[h]) : j < k => kept[h][j] < kept[h][k]

\* Handling begins when all matches went through their filters.
StageInOrder(h) ==
    /\ script[h] # "none" => task[h] = "filtering" /\ match[h] <= Len(plan[h]) /\ Conditions(h) # <<>>
    /\ task[h] \in {"handling", "ended"} => Len(plan[h]) < match[h]
    /\ task[h] = "ended" => Len(kept[h]) < place[h]

\* What lies before the match being handled is done.
PlaceInOrder(h) ==
    /\ place[h] <= Len(kept[h]) + 1
    /\ \A j \in 1 .. Len(kept[h]) : j < place[h] => IsDone(h, kept[h][j])

HandlerInOrder(h) == KeptInOrder(h) /\ StageInOrder(h) /\ PlaceInOrder(h)

\* An execution that was begun is one of a match that its task has come to, and goes on
\* only while the task handles matches.
ExecutionInOrder(o) == exec[o] # "none" =>
    /\ o \in Executions(o[1], o[2])
    /\ Len(plan[o[1]]) < match[o[1]]
    /\ \E j \in 1 .. Len(kept[o[1]]) : j <= place[o[1]] /\ o[2] = kept[o[1]][j]
    /\ exec[o] \in Active => task[o[1]] = "handling"

\* What was sent and arrived, at each stage of an execution.
SendsInOrder(o) ==
    /\ delivered[o] <= attempts[o]
    /\ exec[o] \in {"none", "ready", "pooling"} => attempts[o] = 0
    /\ exec[o] \in {"writing", "waiting"} => attempts[o] = 1 /\ delivered[o] = 0
    /\ exec[o] = "sending" => delivered[o] < attempts[o]
    /\ exec[o] = "resting" => attempts[o] \in 1 .. Retries(o)
    /\ exec[o] = "ok" => delivered[o] > 0
    /\ attempts[o] > 0 => attempts[o] <= Retries(o) + 1 /\ Config(o).secret # "empty"

\* The inductive invariant.
IInv ==
    /\ TypeOK /\ PoolInv
    /\ \A h \in Handlers : HandlerInOrder(h)
    /\ \A o \in Requesters : ExecutionInOrder(o) /\ SendsInOrder(o)

-----------------------------------------------------------------------------
(* The client pool: for any number of requesters, keys and storages.  The  *)
(* order of the waiters plays no part in it, only the holder does.         *)

\* Every requester has a storage.
LEMMA StorageIsAStorage ==
    ASSUME PoolTypeOK, NEW r \in Requesters
    PROVE  Storage(r) \in Storages /\ want[r] \in Keys
BY StorageOfAssumption DEF PoolTypeOK, Storage

\* Initially nothing is kept and nobody creates.
LEMMA PoolInitInv == PoolInit => PoolInv
BY StorageOfAssumption
   DEF PoolInit, PoolInv, PoolTypeOK, CreatorsHoldTheLock, OneClientPerKey, NoClient, Steps, Resting

\* Asking, and the answers of a request that finds a client or fails.
LEMMA AskInv ==
    ASSUME PoolInv, NEW r \in Requesters, NEW k \in Keys, Ask(r, k)
    PROVE  PoolInv'
BY StorageOfAssumption
   DEF Ask, PoolInv, PoolTypeOK, CreatorsHoldTheLock, OneClientPerKey, NoClient, Steps, Resting, Storage

\* The first look under the read lock.
LEMMA LookInv ==
    ASSUME PoolInv, NEW r \in Requesters, Look(r)
    PROVE  PoolInv'
BY StorageOfAssumption
   DEF Look, Serve, Leave, PoolInv, PoolTypeOK, CreatorsHoldTheLock, OneClientPerKey, NoClient, Steps, Resting, Storage

\* A requester queues for the write lock.
LEMMA AskToWriteInv ==
    ASSUME PoolInv, NEW r \in Requesters, AskToWrite(r)
    PROVE  PoolInv'
BY StorageOfAssumption
   DEF AskToWrite, PoolInv, PoolTypeOK, CreatorsHoldTheLock, OneClientPerKey, NoClient, Steps, Resting, Storage

\* The double check makes a creator of a key that is still free, and its
\* storage had no holder before.
LEMMA LookAgainInv ==
    ASSUME PoolInv, NEW r \in Requesters, LookAgain(r)
    PROVE  PoolInv'
<1> USE StorageOfAssumption
    DEF LookAgain, Serve, MyTurn, PoolInv, PoolTypeOK, NoClient, Steps, Resting, Storage
<1>1. CASE clients[want[r]] # NoClient
    <2>1. PoolTypeOK'
        <3>1. step' = [step EXCEPT ![r] = "served"] /\ got' = [got EXCEPT ![r] = clients[want[r]]]
            BY <1>1
        <3>2. UNCHANGED <<clients, created, holder, want>>
            BY <1>1
        <3> HIDE DEF LookAgain, Serve, MyTurn, NoClient, Storage
        <3> QED BY <3>1, <3>2
    <2>2. CreatorsHoldTheLock' /\ OneClientPerKey'
        BY <1>1 DEF CreatorsHoldTheLock, OneClientPerKey
    <2> QED BY <2>1, <2>2
<1>2. CASE clients[want[r]] = NoClient
    <2>1. PoolTypeOK'
        BY <1>2
    <2>2. \A q \in Requesters : step[q] = "creating" => Storage(q) # Storage(r)
        BY NobodyAssumption DEF CreatorsHoldTheLock
    <2>3. CreatorsHoldTheLock'
        BY <1>2, <2>1, <2>2 DEF CreatorsHoldTheLock
    <2>4. OneClientPerKey'
        BY <1>2 DEF OneClientPerKey
    <2> QED BY <2>1, <2>3, <2>4
<1> QED BY <1>1, <1>2

\* A new client gets a fresh number, and no one else was creating under
\* that key or had been served for it.
LEMMA CreateInv ==
    ASSUME PoolInv, NEW r \in Requesters, Create(r)
    PROVE  PoolInv'
<1> USE StorageOfAssumption, NobodyAssumption
        DEF Create, PoolInv, PoolTypeOK, NoClient, Steps, Resting, Storage
<1>1. PoolTypeOK'
    BY StorageIsAStorage
<1>2. clients[want[r]] = NoClient /\ holder[Storage(r)] = r
    BY DEF CreatorsHoldTheLock
<1>3. \A q \in Requesters \ {r} : step[q] = "creating" => Storage(q) # Storage(r)
    BY <1>2 DEF CreatorsHoldTheLock
<1>4. CreatorsHoldTheLock'
    BY <1>1, <1>2, <1>3 DEF CreatorsHoldTheLock
<1>5. OneClientPerKey'
    BY <1>2 DEF OneClientPerKey
<1> QED BY <1>1, <1>4, <1>5

\* A creation that fails keeps nothing.
LEMMA CreateFailsInv ==
    ASSUME PoolInv, NEW r \in Requesters, CreateFails(r)
    PROVE  PoolInv'
<1> USE StorageOfAssumption, NobodyAssumption
        DEF CreateFails, PoolInv, PoolTypeOK, NoClient, Steps, Resting, Storage
<1>1. \A q \in Requesters \ {r} : step[q] = "creating" => Storage(q) # Storage(r)
    BY DEF CreatorsHoldTheLock
<1>2. CreatorsHoldTheLock'
    BY <1>1 DEF CreatorsHoldTheLock
<1> QED BY <1>2 DEF OneClientPerKey

\* Dropping requesters frees only the locks that they held.
LEMMA DropInv ==
    ASSUME PoolInv, NEW S \in SUBSET Requesters, Drop(S)
    PROVE  PoolInv'
<1> USE StorageOfAssumption, NobodyAssumption
        DEF Drop, Released, PoolInv, PoolTypeOK, NoClient, Steps, Resting, Storage
<1>1. PoolTypeOK'
    OBVIOUS
<1>2. CreatorsHoldTheLock'
    BY DEF CreatorsHoldTheLock
<1> QED BY <1>1, <1>2 DEF OneClientPerKey

\* Every step keeps the invariant.
LEMMA PoolNextInv == PoolInv /\ [PoolNext]_poolVars => PoolInv'
<1> SUFFICES ASSUME PoolInv, [PoolNext]_poolVars PROVE PoolInv'
    OBVIOUS
<1>1. ASSUME NEW r \in Requesters, PoolStep(r) PROVE PoolInv'
    BY <1>1, LookInv, AskToWriteInv, LookAgainInv, CreateInv, CreateFailsInv DEF PoolStep
<1>2. CASE UNCHANGED poolVars
    BY <1>2 DEF poolVars, PoolInv, PoolTypeOK, CreatorsHoldTheLock, OneClientPerKey, Storage
<1> QED BY <1>1, <1>2, AskInv, DropInv DEF PoolNext

\* Whatever the order of the requests, and whoever is dropped: everyone
\* who was served for a key holds the one client kept under it
\* (pool.rs:111-142).
THEOREM PoolServesOneClient == PoolSpec => [](PoolTypeOK /\ OneClientPerKey)
<1>1. PoolInv => PoolTypeOK /\ OneClientPerKey
    BY DEF PoolInv
<1> QED BY <1>1, PoolInitInv, PoolNextInv, PTL DEF PoolSpec

\* A client that is kept is never replaced: the double check leaves
\* nothing to overwrite.
THEOREM PoolKeepsClients == PoolSpec => ClientsStay
<1>1. ASSUME PoolInv, [PoolNext]_poolVars
      PROVE  [\A k \in Keys : clients[k] # NoClient => clients'[k] = clients[k]]_poolVars
    <2>1. ASSUME NEW r \in Requesters, Create(r)
        PROVE  \A k \in Keys : clients[k] # NoClient => clients'[k] = clients[k]
        BY <1>1, <2>1 DEF Create, PoolInv, PoolTypeOK, CreatorsHoldTheLock
    <2>2. CASE UNCHANGED poolVars
        BY <2>2
    <2> QED BY <1>1, <2>1, <2>2
              DEF PoolNext, PoolStep, Ask, Look, AskToWrite, LookAgain, CreateFails, Drop
<1> QED BY <1>1, PoolInitInv, PoolNextInv, PTL DEF PoolSpec, ClientsStay

-----------------------------------------------------------------------------
(* What the constants say of a state.                                      *)

\* The matches of a block and what is configured for them.
LEMMA PlanFacts ==
    ASSUME TypeOK, NEW h \in Handlers
    PROVE  /\ Len(plan[h]) \in Nat
           /\ DOMAIN plan[h] = 1 .. Len(plan[h])
           /\ \A i \in 1 .. Len(plan[h]) : plan[h][i].triggers \in Seq(DOMAIN Trigger)
<1>1. plan[h] \in Seq([conditions : Seq(Scripts), triggers : Seq(DOMAIN Trigger)])
    BY PlansAssumption DEF TypeOK
<1>2. DOMAIN plan[h] = 1 .. Len(plan[h]) /\ Len(plan[h]) \in Nat
    BY <1>1, LenProperties
<1>3. \A i \in 1 .. Len(plan[h]) :
          plan[h][i] \in [conditions : Seq(Scripts), triggers : Seq(DOMAIN Trigger)]
    BY <1>1, <1>2, ElementOfSeq
<1> QED BY <1>2, <1>3

\* The task that an execution belongs to.
LEMMA TaskOfExecution ==
    ASSUME NEW o \in Requesters
    PROVE  o[1] \in Handlers
BY PlansAssumption

\* An execution of a match has a configured trigger.
LEMMA ConfigFacts ==
    ASSUME TypeOK, NEW o \in Requesters, o \in Executions(o[1], o[2])
    PROVE  /\ Config(o) \in TriggerConfigs
           /\ Retries(o) \in Nat
           /\ Retries(o) <= Config(o).max_retries
           /\ Config(o).type = "email" => Retries(o) <= BackoffTimes
           /\ Config(o).fits /\ Config(o).type = "script" => Config(o).secret = "none"
           /\ Config(o).fits /\ Config(o).type # "script" => Config(o).key \in Keys
<1>1. o[1] \in Handlers /\ o[2] \in DOMAIN plan[o[1]] /\ o[3] \in DOMAIN plan[o[1]][o[2]].triggers
    BY TaskOfExecution DEF Executions
<1>2. plan[o[1]][o[2]].triggers \in Seq(DOMAIN Trigger)
    BY <1>1, PlanFacts
<1>3. TriggerOf(o) \in DOMAIN Trigger
    BY <1>1, <1>2, LenProperties, ElementOfSeq DEF TriggerOf
<1>4. Config(o) \in TriggerConfigs
    BY <1>3, TriggerAssumption DEF Config
<1>5. Config(o).max_retries \in Nat /\ BackoffTimes \in Nat
    BY <1>4, TriggerAssumption DEF TriggerConfigs
<1>6. /\ Retries(o) \in Nat
      /\ Retries(o) <= Config(o).max_retries
      /\ Config(o).type = "email" => Retries(o) <= BackoffTimes
    BY <1>5 DEF Retries, SmallerOf
<1> QED BY <1>3, <1>4, <1>6, TriggerAssumption DEF Config

\* The plan alone says which executions a match has, and how they are configured.
LEMMA PlanStays ==
    ASSUME UNCHANGED plan
    PROVE  /\ \A h \in Handlers, i \in Nat : /\ Executions(h, i)' = Executions(h, i)
                                          /\ Executions(h, i) \subseteq Requesters
           /\ \A o \in Requesters : /\ (o \in Executions(o[1], o[2]))' <=> o \in Executions(o[1], o[2])
                                    /\ Config(o)' = Config(o) /\ Retries(o)' = Retries(o)
BY DEF Executions, Config, TriggerOf, Retries

-----------------------------------------------------------------------------
(* The pool of clients, as the tasks use it.                               *)

\* A step of the tasks is one of the pool, or leaves it alone.
LEMMA PoolKept ==
    ASSUME IInv, [Next]_vars
    PROVE  PoolInv'
<1>1. PoolInv
    BY DEF IInv
<1>2. ASSUME UNCHANGED poolVars PROVE PoolInv'
    BY <1>1, <1>2, PoolNextInv
<1>3. ASSUME NEW o \in Requesters, AskForClient(o) PROVE PoolInv'
    <2>1. o \in Executions(o[1], o[2])
        BY <1>3 DEF AskForClient, IInv, ExecutionInOrder
    <2>2. Config(o).key \in Keys /\ Ask(o, Config(o).key)
        BY <1>3, <2>1, ConfigFacts DEF AskForClient, IInv
    <2> QED BY <1>1, <2>2, AskInv
<1>4. ASSUME NEW o \in Requesters, Pool(o) PROVE PoolInv'
    BY <1>1, <1>4, PoolNextInv DEF Pool, PoolNext
<1>5. ASSUME NEW h \in Handlers, Cancel(h) PROVE PoolInv'
    <2>1. {o \in Requesters : o[1] = h} \in SUBSET Requesters
        OBVIOUS
    <2> QED BY <1>1, <1>5, <2>1, DropInv DEF Cancel
<1>6. ASSUME NEW h \in Handlers, Spawn(h) \/ HandlerStep(h) PROVE PoolInv'
    BY <1>2, <1>6 DEF Spawn, HandlerStep, KeepUnconditional, StartScript, WriteInput, ScriptAnswersTrue,
                      ScriptDoesNotFilter, StartHandling, StartMatch, FinishMatch, End
<1>7. ASSUME NEW o \in Requesters, ExecutionStep(o), ~ AskForClient(o), ~ Pool(o) PROVE PoolInv'
    BY <1>2, <1>7 DEF ExecutionStep, Refuse, StartSending, SendSucceeds, SendIsRejected, SendFails,
                      Retry, StartNotifier, WriteNotifierInput, NotifierSucceeds, NotifierFails
<1>8. CASE Shutdown
    BY <1>2, <1>8 DEF Shutdown
<1>9. CASE UNCHANGED vars
    BY <1>2, <1>9 DEF vars
<1> QED BY <1>3, <1>4, <1>5, <1>6, <1>7, <1>8, <1>9 DEF Next

-----------------------------------------------------------------------------
(* Types.                                                                  *)

\* Every step keeps the types.
LEMMA TypesKept ==
    ASSUME IInv, [Next]_vars
    PROVE  TypeOK'
<1>1. PoolTypeOK'
    BY PoolKept DEF PoolInv
<1> USE <1>1 DEF TypeOK, Running, Finished, Active
<1>2. TypeOK
    BY DEF IInv
<1>3. ASSUME NEW h \in Handlers, Spawn(h) PROVE TypeOK'
    BY <1>2, <1>3 DEF Spawn, execVars
<1>4. CASE Shutdown
    BY <1>2, <1>4 DEF Shutdown, handlerVars, execVars
<1>5. ASSUME NEW h \in Handlers, Cancel(h) PROVE TypeOK'
    BY <1>2, <1>5 DEF Cancel
<1>6. ASSUME NEW h \in Handlers, NEW left \in BOOLEAN, NextMatch(h, left),
             UNCHANGED <<plan, shutdown, task, hears, place, execVars>>,
             script' \in {script, [script EXCEPT ![h] = "none"]}
      PROVE  TypeOK'
    <2>1. Append(kept[h], match[h]) \in Seq(Nat)
        BY <1>2, AppendProperties
    <2>2. kept' \in [Handlers -> Seq(Nat)]
        BY <1>2, <1>6, <2>1 DEF NextMatch
    <2>3. match' \in [Handlers -> Nat \ {0}] /\ condition' \in [Handlers -> Nat \ {0}]
        BY <1>2, <1>6 DEF NextMatch
    <2> QED BY <1>2, <1>6, <2>2, <2>3 DEF execVars
<1>7. ASSUME NEW h \in Handlers, KeepUnconditional(h) \/ ScriptAnswersTrue(h) PROVE TypeOK'
    BY <1>6, <1>7 DEF KeepUnconditional, ScriptAnswersTrue
<1>8. ASSUME NEW h \in Handlers, ScriptDoesNotFilter(h) PROVE TypeOK'
    <2>1. CASE NextMatch(h, TRUE)
        BY <1>6, <1>8, <2>1 DEF ScriptDoesNotFilter
    <2>2. CASE condition' = [condition EXCEPT ![h] = @ + 1] /\ UNCHANGED <<match, kept>>
        <3>1. condition' \in [Handlers -> Nat \ {0}]
            BY <1>2, <2>2
        <3> QED BY <1>2, <1>8, <2>2, <3>1 DEF ScriptDoesNotFilter, execVars
    <2> QED BY <1>8, <2>1, <2>2 DEF ScriptDoesNotFilter, NextCondition
<1>9. ASSUME NEW h \in Handlers, StartScript(h) \/ WriteInput(h) PROVE TypeOK'
    <2>1. script' \in [Handlers -> {"none", "writing", "waiting"}]
        <3>1. CASE StartScript(h)
            BY <1>2, <3>1 DEF StartScript
        <3>2. CASE WriteInput(h)
            BY <1>2, <3>2 DEF WriteInput
        <3> QED BY <1>9, <3>1, <3>2
    <2> QED BY <1>2, <1>9, <2>1 DEF StartScript, WriteInput, execVars
<1>10. ASSUME NEW h \in Handlers, StartHandling(h) \/ End(h) PROVE TypeOK'
    <2>1. CASE StartHandling(h)
        BY <1>2, <2>1 DEF StartHandling, execVars
    <2>2. CASE End(h)
        BY <1>2, <2>2 DEF End, execVars
    <2> QED BY <1>10, <2>1, <2>2
<1>11. ASSUME NEW h \in Handlers, StartMatch(h) PROVE TypeOK'
    <2>1. exec' \in [Requesters -> Active \union Finished \union {"none", "dropped"}]
        BY <1>2, <1>11 DEF StartMatch
    <2> QED BY <1>2, <1>11, <2>1 DEF StartMatch, handlerVars
<1>12. ASSUME NEW h \in Handlers, FinishMatch(h) PROVE TypeOK'
    <2>1. place' \in [Handlers -> Nat \ {0}]
        BY <1>2, <1>12 DEF FinishMatch
    <2> QED BY <1>2, <1>12, <2>1 DEF FinishMatch, execVars
<1>13. ASSUME NEW o \in Requesters, NEW stage \in Active \union Finished, Become(o, stage) \/ exec' = exec,
              UNCHANGED <<plan, shutdown, handlerVars>>,
              attempts' = attempts \/ \E n \in Nat : attempts' = [attempts EXCEPT ![o] = n],
              delivered' = delivered \/ \E n \in Nat : delivered' = [delivered EXCEPT ![o] = n]
       PROVE  TypeOK'
    <2>1. exec' \in [Requesters -> Active \union Finished \union {"none", "dropped"}]
        BY <1>2, <1>13 DEF Become
    <2>2. attempts' \in [Requesters -> Nat]
        <3>1. attempts \in [Requesters -> Nat]
            BY <1>2
        <3>2. CASE attempts' = attempts
            BY <3>1, <3>2
        <3>3. CASE \E n \in Nat : attempts' = [attempts EXCEPT ![o] = n]
            BY <3>1, <3>3
        <3> QED BY <1>13, <3>2, <3>3
    <2>3. delivered' \in [Requesters -> Nat]
        <3>1. delivered \in [Requesters -> Nat]
            BY <1>2
        <3>2. CASE delivered' = delivered
            BY <3>1, <3>2
        <3>3. CASE \E n \in Nat : delivered' = [delivered EXCEPT ![o] = n]
            BY <3>1, <3>3
        <3> QED BY <1>13, <3>2, <3>3
    <2> QED BY <1>2, <1>13, <2>1, <2>2, <2>3 DEF handlerVars
<1>14. ASSUME NEW o \in Requesters, ExecutionStep(o) PROVE TypeOK'
    <2>1. attempts[o] + 1 \in Nat /\ delivered[o] + 1 \in Nat
        BY <1>2
    <2>2. \E stage \in Active \union Finished : Become(o, stage) \/ exec' = exec
        BY <1>14 DEF ExecutionStep, Refuse, AskForClient, Pool, StartSending, SendSucceeds, SendIsRejected,
                     SendFails, Retry, StartNotifier, WriteNotifierInput, NotifierSucceeds, NotifierFails,
                     execVars
    <2>3. UNCHANGED <<plan, shutdown, handlerVars>>
        BY <1>14 DEF ExecutionStep, Refuse, AskForClient, Pool, StartSending, SendSucceeds, SendIsRejected,
                     SendFails, Retry, StartNotifier, WriteNotifierInput, NotifierSucceeds, NotifierFails
    <2>4. attempts' = attempts \/ \E n \in Nat : attempts' = [attempts EXCEPT ![o] = n]
        BY <1>14, <2>1 DEF ExecutionStep, Refuse, AskForClient, Pool, StartSending, SendSucceeds,
                     SendIsRejected, SendFails, Retry, StartNotifier, WriteNotifierInput, NotifierSucceeds,
                     NotifierFails, execVars
    <2>5. delivered' = delivered \/ \E n \in Nat : delivered' = [delivered EXCEPT ![o] = n]
        BY <1>14, <2>1 DEF ExecutionStep, Refuse, AskForClient, Pool, StartSending, SendSucceeds,
                     SendIsRejected, SendFails, Retry, StartNotifier, WriteNotifierInput, NotifierSucceeds,
                     NotifierFails, execVars
    <2> QED BY <1>13, <2>2, <2>3, <2>4, <2>5
<1>15. CASE UNCHANGED vars
    BY <1>2, <1>15 DEF vars, handlerVars, execVars
<1> QED BY <1>3, <1>4, <1>5, <1>7, <1>8, <1>9, <1>10, <1>11, <1>12, <1>14, <1>15
        DEF Next, HandlerStep

-----------------------------------------------------------------------------
(* The executions.                                                         *)

\* Stages is what an execution may be at; one that goes on moves to another of them.
LEMMA MoveInv ==
    ASSUME IInv, TypeOK', PoolInv', NEW o \in Requesters, exec[o] \in Active,
           NEW stage \in Active \union Finished, Become(o, stage),
           UNCHANGED <<plan, handlerVars>>,
           \A p \in Requesters \ {o} : attempts'[p] = attempts[p] /\ delivered'[p] = delivered[p],
           SendsInOrder(o)'
    PROVE  IInv'
<1> USE DEF IInv
<1>1. exec'[o] = stage /\ \A p \in Requesters \ {o} : exec'[p] = exec[p]
    BY DEF Become, TypeOK
<1>2. UNCHANGED <<task, match, script, kept, place>>
    BY DEF handlerVars
<1>3. \A h \in Handlers, i \in Nat : IsDone(h, i) => IsDone(h, i)'
    <2>1. exec[o] \notin Finished
        BY DEF Active, Finished
    <2> QED BY <1>1, <2>1, PlanStays DEF IsDone
<1>4. ASSUME NEW h \in Handlers PROVE HandlerInOrder(h)'
    <2>1. \A j \in 1 .. Len(kept[h]) : kept[h][j] \in Nat
        BY RangeElements, ElementOfSeq DEF TypeOK
    <2> QED BY <1>2, <1>3, <2>1 DEF HandlerInOrder, KeptInOrder, StageInOrder, Conditions, PlaceInOrder
<1>5. ASSUME NEW p \in Requesters PROVE ExecutionInOrder(p)'
    <2>1. \/ exec[p] # "none" /\ (exec'[p] \in Active => exec[p] \in Active)
          \/ exec'[p] = exec[p]
        BY <1>1 DEF Active
    <2> QED BY <1>2, <2>1, PlanStays DEF ExecutionInOrder, Active
<1>6. ASSUME NEW p \in Requesters PROVE SendsInOrder(p)'
    BY <1>1, PlanStays DEF SendsInOrder
<1> QED BY <1>4, <1>5, <1>6

\* Whatever an execution does: what it has sent stays within its policy.
LEMMA ExecutionInv ==
    ASSUME IInv, TypeOK', PoolInv', NEW o \in Requesters, ExecutionStep(o)
    PROVE  IInv'
<1> USE DEF IInv
<1>1. ASSUME exec[o] # "none"
      PROVE  /\ TypeOK /\ SendsInOrder(o) /\ attempts[o] \in Nat /\ delivered[o] \in Nat
             /\ Retries(o) \in Nat
             /\ Config(o).fits /\ Config(o).type = "script" => Config(o).secret = "none"
    BY <1>1, ConfigFacts DEF TypeOK, ExecutionInOrder
<1>2. ASSUME UNCHANGED plan PROVE Config(o)' = Config(o) /\ Retries(o)' = Retries(o)
    BY <1>2, PlanStays
<1>3. CASE Pool(o)
    <2>1. UNCHANGED <<plan, handlerVars, execVars>>
        BY <1>3 DEF Pool
    <2>2. UNCHANGED <<exec, attempts, delivered, task, match, script, kept, place>>
        BY <2>1 DEF execVars, handlerVars
    <2>3. \A h \in Handlers, i \in Nat : IsDone(h, i)' = IsDone(h, i)
        BY <2>1, <2>2, PlanStays DEF IsDone
    <2>4. ASSUME NEW h \in Handlers PROVE HandlerInOrder(h)'
        <3>1. \A j \in 1 .. Len(kept[h]) : kept[h][j] \in Nat
            BY RangeElements, ElementOfSeq DEF TypeOK
        <3> QED BY <2>1, <2>2, <2>3, <3>1 DEF HandlerInOrder, KeptInOrder, StageInOrder, Conditions, PlaceInOrder
    <2>5. ASSUME NEW p \in Requesters PROVE ExecutionInOrder(p)' /\ SendsInOrder(p)'
        BY <2>1, <2>2, PlanStays DEF ExecutionInOrder, SendsInOrder
    <2> QED BY <2>4, <2>5
<1>4. CASE Refuse(o)
    <2>1. SendsInOrder(o)'
        BY <1>1, <1>2, <1>4 DEF Refuse, Become, SendsInOrder, TypeOK
    <2> QED BY <1>4, <2>1, MoveInv DEF Refuse, Active, Finished
<1>5. CASE AskForClient(o)
    <2>1. SendsInOrder(o)'
        BY <1>1, <1>2, <1>5 DEF AskForClient, Become, SendsInOrder, TypeOK
    <2> QED BY <1>5, <2>1, MoveInv DEF AskForClient, Active
<1>6. CASE StartSending(o)
    <2>1. SendsInOrder(o)'
        BY <1>1, <1>2, <1>6 DEF StartSending, Become, SendsInOrder, TypeOK
    <2>2. \A p \in Requesters \ {o} : attempts'[p] = attempts[p] /\ delivered'[p] = delivered[p]
        BY <1>6 DEF StartSending, TypeOK
    <2> QED BY <1>6, <2>1, <2>2, MoveInv DEF StartSending, Active, Finished
<1>7. CASE SendSucceeds(o)
    <2>1. SendsInOrder(o)'
        BY <1>1, <1>2, <1>7 DEF SendSucceeds, Become, SendsInOrder, TypeOK
    <2>2. \A p \in Requesters \ {o} : attempts'[p] = attempts[p] /\ delivered'[p] = delivered[p]
        BY <1>7 DEF SendSucceeds, TypeOK
    <2> QED BY <1>7, <2>1, <2>2, MoveInv DEF SendSucceeds, Active, Finished
<1>8. CASE SendIsRejected(o)
    <2>1. SendsInOrder(o)'
        BY <1>1, <1>2, <1>8 DEF SendIsRejected, Become, SendsInOrder, TypeOK
    <2> QED BY <1>8, <2>1, MoveInv DEF SendIsRejected, Active, Finished
<1>9. CASE SendFails(o)
    <2>1. SendsInOrder(o)'
        BY <1>1, <1>2, <1>9 DEF SendFails, Become, SendsInOrder, TypeOK
    <2>2. \A p \in Requesters \ {o} : attempts'[p] = attempts[p] /\ delivered'[p] = delivered[p]
        BY <1>9 DEF SendFails, TypeOK
    <2> QED BY <1>9, <2>1, <2>2, MoveInv DEF SendFails, Active, Finished
<1>10. CASE Retry(o)
    <2>1. SendsInOrder(o)'
        BY <1>1, <1>2, <1>10 DEF Retry, Become, SendsInOrder, TypeOK
    <2>2. \A p \in Requesters \ {o} : attempts'[p] = attempts[p] /\ delivered'[p] = delivered[p]
        BY <1>10 DEF Retry, TypeOK
    <2> QED BY <1>10, <2>1, <2>2, MoveInv DEF Retry, Active
<1>11. CASE StartNotifier(o)
    <2>1. SendsInOrder(o)'
        BY <1>1, <1>2, <1>11 DEF StartNotifier, Become, SendsInOrder, TypeOK
    <2>2. \A p \in Requesters \ {o} : attempts'[p] = attempts[p] /\ delivered'[p] = delivered[p]
        BY <1>11 DEF StartNotifier, TypeOK
    <2> QED BY <1>11, <2>1, <2>2, MoveInv DEF StartNotifier, Active
<1>12. CASE WriteNotifierInput(o)
    <2>1. SendsInOrder(o)'
        BY <1>1, <1>2, <1>12 DEF WriteNotifierInput, Become, SendsInOrder, TypeOK
    <2> QED BY <1>12, <2>1, MoveInv DEF WriteNotifierInput, Active
<1>13. CASE NotifierSucceeds(o)
    <2>1. SendsInOrder(o)'
        BY <1>1, <1>2, <1>13 DEF NotifierSucceeds, Become, SendsInOrder, TypeOK
    <2>2. \A p \in Requesters \ {o} : attempts'[p] = attempts[p] /\ delivered'[p] = delivered[p]
        BY <1>13 DEF NotifierSucceeds, TypeOK
    <2> QED BY <1>13, <2>1, <2>2, MoveInv DEF NotifierSucceeds, Active, Finished
<1>14. CASE NotifierFails(o)
    <2>1. SendsInOrder(o)'
        BY <1>1, <1>2, <1>14 DEF NotifierFails, Become, SendsInOrder, TypeOK
    <2> QED BY <1>14, <2>1, MoveInv DEF NotifierFails, Active, Finished
<1> QED BY <1>3, <1>4, <1>5, <1>6, <1>7, <1>8, <1>9, <1>10, <1>11, <1>12, <1>13, <1>14
        DEF ExecutionStep

-----------------------------------------------------------------------------
(* The tasks.                                                              *)

\* The matches left are sequences of match numbers.
LEMMA KeptFacts ==
    ASSUME IInv, NEW h \in Handlers
    PROVE  /\ kept[h] \in Seq(Nat) /\ Len(kept[h]) \in Nat /\ DOMAIN kept[h] = 1 .. Len(kept[h])
           /\ \A j \in 1 .. Len(kept[h]) : kept[h][j] \in 1 .. Len(plan[h])
           /\ match[h] \in Nat \ {0} /\ place[h] \in Nat \ {0} /\ Len(plan[h]) \in Nat
           /\ DOMAIN plan[h] = 1 .. Len(plan[h])
<1>1. kept[h] \in Seq(Nat) /\ Len(kept[h]) \in Nat /\ DOMAIN kept[h] = 1 .. Len(kept[h])
    BY LenProperties DEF IInv, TypeOK
<1>2. match[h] \in Nat \ {0} /\ place[h] \in Nat \ {0}
    BY DEF IInv, TypeOK
<1>3. Len(plan[h]) \in Nat /\ DOMAIN plan[h] = 1 .. Len(plan[h])
    BY PlanFacts DEF IInv
<1>4. \A j \in 1 .. Len(kept[h]) : kept[h][j] \in 1 .. Len(plan[h])
    BY <1>2, <1>3 DEF IInv, HandlerInOrder, KeptInOrder, StageInOrder, Conditions, PlaceInOrder
<1> QED BY <1>1, <1>2, <1>3, <1>4

\* A step that leaves the matches and the executions where they are.
LEMMA StageInv ==
    ASSUME IInv, TypeOK', PoolInv', UNCHANGED <<plan, match, kept, place, exec, attempts, delivered>>,
           \A h \in Handlers :
               /\ script'[h] # "none" => task'[h] = "filtering" /\ match[h] <= Len(plan[h])
                                         /\ Conditions(h) # <<>>
               /\ task'[h] \in {"handling", "ended"} => Len(plan[h]) < match[h]
               /\ task'[h] = "ended" => Len(kept[h]) < place[h],
           \A o \in Requesters : exec[o] \in Active => task'[o[1]] = "handling"
    PROVE  IInv'
<1>1. ASSUME NEW h \in Handlers, NEW i \in Nat PROVE IsDone(h, i)' = IsDone(h, i)
    BY PlanStays DEF IsDone
<1>2. ASSUME NEW h \in Handlers PROVE HandlerInOrder(h)'
    <2>1. \A j \in 1 .. Len(kept[h]) : kept[h][j] \in Nat
        BY KeptFacts
    <2> QED BY <1>1, <2>1 DEF IInv, HandlerInOrder, KeptInOrder, StageInOrder, Conditions, PlaceInOrder
<1>3. ASSUME NEW o \in Requesters PROVE ExecutionInOrder(o)' /\ SendsInOrder(o)'
    BY PlanStays DEF IInv, ExecutionInOrder, SendsInOrder
<1> QED BY <1>2, <1>3 DEF IInv

\* A match has gone through its filters.
LEMMA NextMatchInv ==
    ASSUME IInv, TypeOK', PoolInv', NEW h \in Handlers, NEW left \in BOOLEAN,
           Filtering(h), NextMatch(h, left), script' = [script EXCEPT ![h] = "none"],
           UNCHANGED <<plan, task, place, exec, attempts, delivered>>
    PROVE  IInv'
<1>1. /\ kept[h] \in Seq(Nat) /\ Len(kept[h]) \in Nat
      /\ match[h] \in Nat \ {0} /\ match[h] <= Len(plan[h]) /\ Len(plan[h]) \in Nat
    BY KeptFacts DEF Filtering
<1>2. /\ match'[h] = match[h] + 1
      /\ kept'[h] = IF left THEN Append(kept[h], match[h]) ELSE kept[h]
      /\ \A g \in Handlers \ {h} : UNCHANGED <<match[g], kept[g], script[g]>>
      /\ script'[h] = "none"
    BY DEF NextMatch, IInv, TypeOK
<1>3. /\ Len(kept'[h]) \in Nat /\ Len(kept[h]) <= Len(kept'[h]) /\ Len(kept'[h]) <= Len(kept[h]) + 1
      /\ \A j \in 1 .. Len(kept[h]) : kept'[h][j] = kept[h][j]
      /\ \A j \in 1 .. Len(kept'[h]) : j > Len(kept[h]) => kept'[h][j] = match[h]
    BY <1>1, <1>2, AppendProperties
<1>4. ASSUME NEW g \in Handlers, NEW i \in Nat PROVE IsDone(g, i)' = IsDone(g, i)
    BY PlanStays DEF IsDone
<1>5. HandlerInOrder(h)'
    <2>1. \A j \in 1 .. Len(kept[h]) : kept[h][j] \in 1 .. match[h] - 1
        BY DEF IInv, HandlerInOrder, KeptInOrder
    <2>2. \A j, k \in 1 .. Len(kept[h]) : j < k => kept[h][j] < kept[h][k]
        BY DEF IInv, HandlerInOrder, KeptInOrder
    <2>3. \A j \in 1 .. Len(kept'[h]) : j \in 1 .. Len(kept[h]) \/ j = Len(kept[h]) + 1
        BY <1>1, <1>3
    <2>4. \A j \in 1 .. Len(kept'[h]) : kept'[h][j] \in 1 .. match'[h] - 1
        <3> SUFFICES ASSUME NEW j \in 1 .. Len(kept'[h]) PROVE kept'[h][j] \in 1 .. match'[h] - 1
            OBVIOUS
        <3>1. kept'[h][j] \in 1 .. match[h]
            BY <1>1, <1>3, <2>1, <2>3, SMTT(30)
        <3> QED BY <1>1, <1>2, <3>1
    <2>5. \A j, k \in 1 .. Len(kept'[h]) : j < k => kept'[h][j] < kept'[h][k]
        <3> SUFFICES ASSUME NEW j \in 1 .. Len(kept'[h]), NEW k \in 1 .. Len(kept'[h]), j < k
                     PROVE  kept'[h][j] < kept'[h][k]
            OBVIOUS
        <3>1. j \in 1 .. Len(kept[h])
            BY <1>1, <1>3
        <3>2. CASE k \in 1 .. Len(kept[h])
            BY <1>3, <2>2, <3>1, <3>2, SMTT(30)
        <3>3. CASE k = Len(kept[h]) + 1
            <4>1. k > Len(kept[h])
                BY <1>1, <3>3
            <4>2. kept'[h][k] = match[h]
                BY <1>3, <4>1
            <4>3. kept'[h][j] = kept[h][j] /\ kept[h][j] < match[h]
                BY <1>1, <1>3, <2>1, <3>1
            <4> QED BY <4>2, <4>3
        <3> QED BY <2>3, <3>2, <3>3
    <2>6. KeptInOrder(h)'
        <3>1. match'[h] <= Len(plan'[h]) + 1
            BY <1>1, <1>2
        <3> QED BY <2>4, <2>5, <3>1 DEF KeptInOrder
    <2>7. StageInOrder(h)'
        BY <1>2 DEF StageInOrder, Conditions, Filtering
    <2>8. PlaceInOrder(h)'
        <3>1. place[h] \in Nat /\ place[h] <= Len(kept[h]) + 1
            BY KeptFacts DEF IInv, HandlerInOrder, PlaceInOrder
        <3>2. \A j \in 1 .. Len(kept'[h]) : j < place[h] => j \in 1 .. Len(kept[h])
            BY <1>1, <2>3, <3>1
        <3>3. ASSUME NEW j \in 1 .. Len(kept[h]), j < place[h] PROVE IsDone(h, kept[h][j])'
            <4>1. IsDone(h, kept[h][j])
                BY <3>3 DEF IInv, HandlerInOrder, PlaceInOrder
            <4>2. kept[h][j] \in Nat
                BY <2>1, <1>1
            <4>3. kept'[h][j] = kept[h][j]
                BY <1>3
            <4> QED BY <4>1, <4>2, <4>3, <1>4
        <3>4. \A j \in 1 .. Len(kept'[h]) : j < place[h] => IsDone(h, kept[h][j])'
            BY <3>2, <3>3
        <3>5. place'[h] = place[h] /\ place[h] <= Len(kept'[h]) + 1
            BY <1>1, <1>3, <3>1
        <3> QED BY <3>4, <3>5 DEF PlaceInOrder
    <2> QED BY <2>6, <2>7, <2>8 DEF HandlerInOrder
<1>6. ASSUME NEW g \in Handlers \ {h} PROVE HandlerInOrder(g)'
    <2>1. UNCHANGED <<match[g], kept[g], script[g], task[g], place[g], plan[g]>>
        BY <1>2
    <2>2. KeptInOrder(g)' /\ StageInOrder(g)'
        BY <2>1 DEF IInv, HandlerInOrder, KeptInOrder, StageInOrder, Conditions
    <2>3. PlaceInOrder(g)'
        BY <2>1, <1>4, KeptFacts DEF IInv, HandlerInOrder, PlaceInOrder
    <2> QED BY <2>2, <2>3 DEF HandlerInOrder
<1>7. ASSUME NEW o \in Requesters PROVE ExecutionInOrder(o)' /\ SendsInOrder(o)'
    <2>1. SendsInOrder(o)'
        BY PlanStays DEF IInv, SendsInOrder
    <2>2. CASE o[1] = h
        <3>1. exec[o] = "none"
            BY <1>1, <2>2 DEF IInv, ExecutionInOrder
        <3> QED BY <2>1, <3>1 DEF ExecutionInOrder
    <2>3. CASE o[1] # h
        <3>1. o[1] \in Handlers
            BY TaskOfExecution
        <3> QED BY <1>2, <2>1, <2>3, <3>1, PlanStays DEF IInv, ExecutionInOrder
    <2> QED BY <2>2, <2>3
<1> QED BY <1>5, <1>6, <1>7 DEF IInv

\* The executions of a match begin when those before it are done.
LEMMA StartMatchInv ==
    ASSUME IInv, TypeOK', PoolInv', NEW h \in Handlers, StartMatch(h)
    PROVE  IInv'
<1> DEFINE started == Executions(h, Current(h))
<1>1. /\ task[h] = "handling" /\ place[h] \in 1 .. Len(kept[h]) /\ Current(h) \in Nat
      /\ Len(plan[h]) < match[h]
    BY KeptFacts DEF StartMatch, Handling, Current, IInv, HandlerInOrder, StageInOrder, Conditions
<1>2. /\ \A o \in started : exec[o] = "none" /\ o[1] = h /\ o[2] = Current(h)
      /\ started \subseteq Requesters
      /\ \A o \in Requesters : exec'[o] = IF o \in started THEN "ready" ELSE exec[o]
    BY DEF StartMatch, Executions
<1>3. UNCHANGED <<plan, task, match, script, kept, place, attempts, delivered>>
    BY DEF StartMatch, handlerVars
<1> HIDE DEF started
<1>4. ASSUME NEW g \in Handlers, NEW i \in Nat, IsDone(g, i) PROVE IsDone(g, i)'
    BY <1>2, <1>3, <1>4, PlanStays DEF IsDone, Finished
<1>5. ASSUME NEW g \in Handlers PROVE HandlerInOrder(g)'
    <2>1. KeptInOrder(g)' /\ StageInOrder(g)'
        BY <1>3 DEF IInv, HandlerInOrder, KeptInOrder, StageInOrder, Conditions
    <2>2. PlaceInOrder(g)'
        BY <1>3, <1>4, KeptFacts DEF IInv, HandlerInOrder, PlaceInOrder
    <2> QED BY <2>1, <2>2 DEF HandlerInOrder
<1>6. ASSUME NEW o \in Requesters PROVE ExecutionInOrder(o)' /\ SendsInOrder(o)'
    <2>1. CASE o \in started
        <3>1. exec'[o] = "ready" /\ exec[o] = "none" /\ o[1] = h /\ o[2] = kept[h][place[h]]
            BY <1>2, <2>1 DEF Current
        <3>2. o \in Executions(o[1], o[2])
            BY <2>1, <3>1 DEF started, Current
        <3>3. ExecutionInOrder(o)'
            <4>1. \E j \in 1 .. Len(kept[h]) : j <= place[h] /\ o[2] = kept[h][j]
                BY <1>1, <3>1
            <4>2. (o \in Executions(o[1], o[2]))'
                BY <1>3, <3>2, PlanStays
            <4> QED BY <1>1, <1>3, <3>1, <4>1, <4>2 DEF ExecutionInOrder
        <3>4. SendsInOrder(o)'
            BY <1>3, <3>1 DEF IInv, SendsInOrder
        <3> QED BY <3>3, <3>4
    <2>2. CASE o \notin started
        BY <1>2, <1>3, <2>2, PlanStays DEF IInv, ExecutionInOrder, SendsInOrder
    <2> QED BY <2>1, <2>2
<1> QED BY <1>5, <1>6 DEF IInv

\* A match is left behind when all its executions have an answer.
LEMMA FinishMatchInv ==
    ASSUME IInv, TypeOK', PoolInv', NEW h \in Handlers, FinishMatch(h)
    PROVE  IInv'
<1>1. /\ task[h] = "handling" /\ place[h] \in 1 .. Len(kept[h]) /\ Current(h) = kept[h][place[h]]
      /\ IsDone(h, Current(h)) /\ place[h] \in Nat /\ Len(kept[h]) \in Nat
    BY KeptFacts DEF FinishMatch, Handling, Current
<1>2. UNCHANGED <<plan, task, match, script, kept, exec, attempts, delivered>>
    BY DEF FinishMatch, execVars
<1>3. place'[h] = place[h] + 1 /\ \A g \in Handlers \ {h} : place'[g] = place[g]
    BY DEF FinishMatch, IInv, TypeOK
<1>4. ASSUME NEW g \in Handlers, NEW i \in Nat PROVE IsDone(g, i)' = IsDone(g, i)
    BY <1>2, PlanStays DEF IsDone
<1>5. ASSUME NEW g \in Handlers PROVE HandlerInOrder(g)'
    <2>1. KeptInOrder(g)'
        BY <1>2 DEF IInv, HandlerInOrder, KeptInOrder
    <2>2. StageInOrder(g)'
        BY <1>1, <1>2, <1>3 DEF IInv, HandlerInOrder, StageInOrder, Conditions
    <2>3. CASE g = h
        <3>1. \A j \in 1 .. Len(kept[h]) : j < place[h] + 1 => j < place[h] \/ j = place[h]
            BY <1>1
        <3>2. \A j \in 1 .. Len(kept[h]) : j < place[h] + 1 => IsDone(h, kept[h][j])
            BY <1>1, <3>1 DEF IInv, HandlerInOrder, PlaceInOrder
        <3>3. \A j \in 1 .. Len(kept[h]) : j < place[h] + 1 => IsDone(h, kept[h][j])'
            BY <1>2, <1>4, <3>2, KeptFacts
        <3>4. PlaceInOrder(g)'
            BY <1>1, <1>2, <1>3, <2>3, <3>3 DEF PlaceInOrder
        <3> QED BY <2>1, <2>2, <3>4 DEF HandlerInOrder
    <2>4. CASE g # h
        <3>1. PlaceInOrder(g)'
            BY <1>2, <1>3, <1>4, <2>4, KeptFacts, SMTT(30) DEF IInv, HandlerInOrder, PlaceInOrder
        <3> QED BY <2>1, <2>2, <3>1 DEF HandlerInOrder
    <2> QED BY <2>3, <2>4
<1>6. ASSUME NEW o \in Requesters PROVE ExecutionInOrder(o)' /\ SendsInOrder(o)'
    <2>1. o[1] \in Handlers
        BY TaskOfExecution
    <2>2. place[o[1]] \in Nat /\ place'[o[1]] \in {place[o[1]], place[o[1]] + 1}
        BY <1>3, <2>1, KeptFacts
    <2>3. ASSUME NEW j \in 1 .. Len(kept[o[1]]), j <= place[o[1]] PROVE j <= place'[o[1]]
        BY <2>1, <2>2, <2>3, KeptFacts
    <2> QED BY <1>2, <2>3, PlanStays DEF IInv, ExecutionInOrder, SendsInOrder
<1> QED BY <1>5, <1>6 DEF IInv

\* A shutdown drops what the task awaits; what had an answer keeps it.
LEMMA CancelInv ==
    ASSUME IInv, TypeOK', PoolInv', NEW h \in Handlers, Cancel(h)
    PROVE  IInv'
<1>1. UNCHANGED <<plan, match, kept, place, attempts, delivered>>
    BY DEF Cancel
<1>2. /\ task'[h] = "cancelled" /\ script'[h] = "none"
      /\ \A g \in Handlers \ {h} : task'[g] = task[g] /\ script'[g] = script[g]
    BY DEF Cancel, IInv, TypeOK
<1>3. \A o \in Requesters :
          exec'[o] = IF o[1] = h /\ exec[o] \notin Finished \union {"none"} THEN "dropped" ELSE exec[o]
    BY DEF Cancel
<1>4. ASSUME NEW g \in Handlers, NEW i \in Nat, IsDone(g, i) PROVE IsDone(g, i)'
    BY <1>1, <1>3, <1>4, PlanStays DEF IsDone
<1>5. ASSUME NEW g \in Handlers PROVE HandlerInOrder(g)'
    <2>1. KeptInOrder(g)' /\ StageInOrder(g)'
        BY <1>1, <1>2 DEF IInv, HandlerInOrder, KeptInOrder, StageInOrder, Conditions
    <2>2. PlaceInOrder(g)'
        BY <1>1, <1>4, KeptFacts DEF IInv, HandlerInOrder, PlaceInOrder
    <2> QED BY <2>1, <2>2 DEF HandlerInOrder
<1>6. ASSUME NEW o \in Requesters PROVE ExecutionInOrder(o)' /\ SendsInOrder(o)'
    <2>1. o[1] \in Handlers /\ exec[o] \in Active \union Finished \union {"none", "dropped"}
        BY TaskOfExecution DEF IInv, TypeOK
    <2>2. ExecutionInOrder(o)'
        BY <1>1, <1>2, <1>3, <2>1, PlanStays DEF IInv, ExecutionInOrder, Active, Finished
    <2>3. SendsInOrder(o)'
        BY <1>1, <1>3, <2>1, PlanStays DEF IInv, SendsInOrder, Finished
    <2> QED BY <2>2, <2>3
<1> QED BY <1>5, <1>6 DEF IInv

\* When the last match is behind it, a task has nothing running.
LEMMA NothingRuns ==
    ASSUME IInv, NEW h \in Handlers, Len(kept[h]) < place[h],
           NEW o \in Requesters, o[1] = h
    PROVE  exec[o] \notin Active
<1> SUFFICES ASSUME exec[o] \in Active PROVE FALSE
    OBVIOUS
<1>1. o \in Executions(h, o[2]) /\ \E j \in 1 .. Len(kept[h]) : j <= place[h] /\ o[2] = kept[h][j]
    BY DEF IInv, ExecutionInOrder, Active
<1>2. PICK j \in 1 .. Len(kept[h]) : o[2] = kept[h][j]
    BY <1>1
<1>3. j < place[h]
    BY KeptFacts
<1>4. IsDone(h, o[2])
    BY <1>2, <1>3 DEF IInv, HandlerInOrder, PlaceInOrder
<1> QED BY <1>1, <1>4 DEF IsDone, Active, Finished

\* Every step of a task keeps the invariant.
LEMMA TaskInv ==
    ASSUME IInv, TypeOK', PoolInv', NEW h \in Handlers, Spawn(h) \/ Cancel(h) \/ HandlerStep(h)
    PROVE  IInv'
<1>1. /\ TypeOK
      /\ \A g \in Handlers : StageInOrder(g)
      /\ \A g \in Handlers : match[g] \in Nat /\ place[g] \in Nat /\ Len(plan[g]) \in Nat
      /\ \A o \in Requesters : o[1] \in Handlers /\ (exec[o] \in Active => task[o[1]] = "handling")
    BY KeptFacts, TaskOfExecution DEF IInv, HandlerInOrder, ExecutionInOrder, Active
<1>2. CASE Spawn(h)
    BY <1>1, <1>2, StageInv DEF Spawn, StageInOrder, Conditions, execVars, TypeOK
<1>3. CASE KeepUnconditional(h)
    <2>1. script' = [script EXCEPT ![h] = "none"]
        BY <1>1, <1>3 DEF KeepUnconditional, TypeOK, StageInOrder
    <2> QED BY <1>3, <2>1, NextMatchInv DEF KeepUnconditional, execVars
<1>4. CASE StartScript(h) \/ WriteInput(h)
    <2>1. /\ UNCHANGED <<plan, match, kept, place, exec, attempts, delivered, task>>
          /\ task[h] = "filtering" /\ match[h] <= Len(plan[h]) /\ Conditions(h) # <<>>
          /\ \A g \in Handlers \ {h} : script'[g] = script[g]
        BY <1>1, <1>4, KeptFacts DEF StartScript, WriteInput, Filtering, StageInOrder, Conditions, execVars, TypeOK
    <2> QED BY <1>1, <2>1, StageInv DEF StageInOrder, Conditions
<1>5. ASSUME script[h] # "none" PROVE Filtering(h)
    BY <1>1, <1>5, KeptFacts DEF StageInOrder, Conditions, Filtering
<1>6. CASE ScriptAnswersTrue(h)
    BY <1>5, <1>6, NextMatchInv DEF ScriptAnswersTrue, execVars
<1>7. CASE ScriptDoesNotFilter(h)
    <2>1. Filtering(h)
        BY <1>5, <1>7 DEF ScriptDoesNotFilter
    <2>2. CASE NextMatch(h, TRUE)
        BY <1>7, <2>1, <2>2, NextMatchInv DEF ScriptDoesNotFilter, execVars
    <2>3. CASE UNCHANGED <<match, kept>>
        <3>1. /\ UNCHANGED <<plan, match, kept, place, exec, attempts, delivered, task>>
              /\ script'[h] = "none" /\ \A g \in Handlers \ {h} : script'[g] = script[g]
            BY <1>1, <1>7, <2>3 DEF ScriptDoesNotFilter, execVars, TypeOK
        <3> QED BY <1>1, <3>1, StageInv DEF StageInOrder, Conditions
    <2> QED BY <1>7, <2>2, <2>3 DEF ScriptDoesNotFilter, NextCondition
<1>8. CASE StartHandling(h)
    <2>1. task[h] = "filtering" /\ Len(plan[h]) < match[h]
        BY <1>8, KeptFacts DEF StartHandling
    <2>2. /\ UNCHANGED <<plan, match, kept, place, exec, attempts, delivered, script>>
          /\ task'[h] = "handling" /\ \A g \in Handlers \ {h} : task'[g] = task[g]
        BY <1>1, <1>8 DEF StartHandling, execVars, TypeOK
    <2>3. script[h] = "none"
        BY <1>1, <2>1 DEF StageInOrder, Conditions
    <2> QED BY <1>1, <2>1, <2>2, <2>3, StageInv DEF StageInOrder, Conditions
<1>9. CASE End(h)
    <2>1. /\ task[h] = "handling" /\ Len(kept[h]) < place[h]
        BY <1>9, KeptFacts DEF End, Handling
    <2>2. /\ UNCHANGED <<plan, match, kept, place, exec, attempts, delivered, script>>
          /\ task'[h] = "ended" /\ \A g \in Handlers \ {h} : task'[g] = task[g]
        BY <1>1, <1>9 DEF End, execVars, TypeOK
    <2>3. script[h] = "none" /\ Len(plan[h]) < match[h]
        BY <1>1, <2>1 DEF StageInOrder, Conditions
    <2>4. \A o \in Requesters : exec[o] \in Active => task'[o[1]] = "handling"
        BY <1>1, <2>1, <2>2, NothingRuns
    <2> QED BY <1>1, <2>1, <2>2, <2>3, <2>4, StageInv DEF StageInOrder, Conditions
<1> QED BY <1>2, <1>3, <1>4, <1>6, <1>7, <1>8, <1>9, StartMatchInv, FinishMatchInv, CancelInv
        DEF HandlerStep

\* The invariant holds of every behaviour.
LEMMA InitInv == Init => IInv
<1> SUFFICES ASSUME Init PROVE IInv
    OBVIOUS
<1>1. PoolInv
    BY PoolInitInv DEF Init
<1>2. TypeOK
    <2>1. <<>> \in Seq(Nat)
        OBVIOUS
    <2>2. kept \in [Handlers -> Seq(Nat)]
        BY <2>1 DEF Init
    <2>3. {match, condition, place} \subseteq [Handlers -> Nat \ {0}]
        BY DEF Init
    <2>4. {attempts, delivered} \subseteq [Requesters -> Nat]
        BY DEF Init
    <2> QED BY <1>1, <2>2, <2>3, <2>4 DEF Init, TypeOK, PoolInv
<1>3. ASSUME NEW h \in Handlers PROVE HandlerInOrder(h)
    <2>1. Len(plan[h]) \in Nat
        BY <1>2, <1>3, PlanFacts
    <2>2. kept[h] = <<>> /\ match[h] = 1 /\ place[h] = 1 /\ script[h] = "none" /\ task[h] = "unspawned"
        BY DEF Init
    <2> QED BY <2>1, <2>2 DEF HandlerInOrder, KeptInOrder, StageInOrder, Conditions, PlaceInOrder
<1>4. \A o \in Requesters : ExecutionInOrder(o) /\ SendsInOrder(o)
    BY DEF Init, ExecutionInOrder, SendsInOrder
<1> QED BY <1>1, <1>2, <1>3, <1>4 DEF IInv

\* Every step keeps the invariant.
LEMMA NextInv == IInv /\ [Next]_vars => IInv'
<1> SUFFICES ASSUME IInv, [Next]_vars PROVE IInv'
    OBVIOUS
<1>1. TypeOK' /\ PoolInv'
    BY TypesKept, PoolKept
<1>2. CASE Shutdown \/ UNCHANGED vars
    <2>1. UNCHANGED <<plan, match, kept, place, exec, attempts, delivered, task, script>>
        BY <1>2 DEF Shutdown, vars, handlerVars, execVars
    <2>2. /\ \A h \in Handlers : StageInOrder(h)
          /\ \A o \in Requesters : exec[o] \in Active => task[o[1]] = "handling"
        BY DEF IInv, HandlerInOrder, ExecutionInOrder, Active
    <2> QED BY <1>1, <2>1, <2>2, StageInv DEF StageInOrder, Conditions
<1> QED BY <1>1, <1>2, TaskInv, ExecutionInv DEF Next

\* The inductive invariant holds, whatever scripts, senders, pool and shutdown do.
THEOREM TasksInvariance == Spec => []IInv
BY InitInv, NextInv, PTL DEF Spec

\* A trigger is begun only when all matches of its block went through their filters and the
\* triggers of every earlier match were answered (OneMatchAtATime).
THEOREM TasksHandleOneMatch == Spec => []OneMatchAtATime
<1>1. IInv => OneMatchAtATime
    <2> SUFFICES ASSUME IInv, NEW o \in Requesters, exec[o] # "none"
                 PROVE  /\ match[o[1]] > Len(plan[o[1]])
                        /\ o[2] \in ToSet(kept[o[1]])
                        /\ \A i \in ToSet(kept[o[1]]) : i < o[2] => IsDone(o[1], i)
        BY DEF OneMatchAtATime
    <2> DEFINE h == o[1]
    <2>1. /\ h \in Handlers /\ match[h] \in Nat /\ Len(plan[h]) \in Nat /\ place[h] \in Nat
          /\ DOMAIN kept[h] = 1 .. Len(kept[h]) /\ Len(kept[h]) \in Nat
          /\ \A k \in 1 .. Len(kept[h]) : kept[h][k] \in Nat
        BY TaskOfExecution, KeptFacts
    <2>2. PICK j \in 1 .. Len(kept[h]) : j <= place[h] /\ o[2] = kept[h][j]
        BY DEF IInv, ExecutionInOrder
    <2>3. ASSUME NEW i \in ToSet(kept[h]), i < o[2] PROVE IsDone(h, i)
        <3>1. PICK k \in 1 .. Len(kept[h]) : i = kept[h][k]
            BY <2>1 DEF ToSet
        <3>2. ~ (j < k) /\ j # k
            BY <2>1, <2>2, <2>3, <3>1 DEF IInv, HandlerInOrder, KeptInOrder
        <3>3. k < place[h]
            BY <2>1, <2>2, <3>2
        <3> QED BY <2>1, <3>1, <3>3 DEF IInv, HandlerInOrder, PlaceInOrder
    <2>4. o[2] \in ToSet(kept[h])
        BY <2>1, <2>2 DEF ToSet
    <2>5. match[h] > Len(plan[h])
        BY <2>1 DEF IInv, ExecutionInOrder
    <2> QED BY <2>3, <2>4, <2>5
<1> QED BY <1>1, TasksInvariance, PTL

\* A message is sent at most once more than its policy allows retries and arrives at most
\* as often as it is sent; success means delivery, and what cannot be signed is not sent
\* (SendsWithinPolicy).
THEOREM TasksSendWithinPolicy == Spec => []SendsWithinPolicy
<1>1. IInv => SendsWithinPolicy
    <2> SUFFICES ASSUME IInv, NEW o \in Requesters, attempts[o] > 0
                 PROVE  /\ attempts[o] <= Config(o).max_retries + 1
                        /\ Config(o).type = "email" => attempts[o] <= BackoffTimes + 1
                        /\ delivered[o] <= attempts[o]
                        /\ exec[o] = "ok" => delivered[o] > 0
                        /\ Config(o).secret # "empty"
        BY DEF SendsWithinPolicy
    <2>1. SendsInOrder(o) /\ attempts[o] \in Nat /\ delivered[o] \in Nat
        BY DEF IInv, TypeOK
    <2>2. exec[o] # "none"
        BY <2>1 DEF SendsInOrder
    <2>3. o \in Executions(o[1], o[2]) /\ TypeOK
        BY <2>2 DEF IInv, ExecutionInOrder
    <2>4. /\ Retries(o) \in Nat /\ Retries(o) <= Config(o).max_retries
          /\ Config(o).max_retries \in Nat /\ BackoffTimes \in Nat
          /\ Config(o).type = "email" => Retries(o) <= BackoffTimes
        BY <2>3, ConfigFacts, TriggerAssumption DEF TriggerConfigs
    <2>5. attempts[o] <= Retries(o) + 1 /\ Config(o).secret # "empty"
        BY <2>1 DEF SendsInOrder
    <2> QED BY <2>1, <2>4, <2>5 DEF SendsInOrder
<1> QED BY <1>1, TasksInvariance, PTL

\* All executions served under a policy hold the one client kept under it, whatever
\* their tasks wait for and whichever are dropped (OneClientPerKey).
THEOREM TasksShareOneClient == Spec => []OneClientPerKey
<1>1. IInv => OneClientPerKey
    BY DEF IInv, PoolInv
<1> QED BY <1>1, TasksInvariance, PTL

-----------------------------------------------------------------------------
(* The tasks implement TriggerDuties.                                      *)

\* The work as TriggerDuties sees it.
LEMMA WorkFacts ==
    ASSUME IInv
    PROVE  /\ \A h \in Handlers : MatchesOf[h] = {<<h, i>> : i \in 1 .. Len(plan[h])}
           /\ DOMAIN MatchesOf = Handlers
           /\ Matches = UNION {MatchesOf[h] : h \in Handlers}
           /\ DOMAIN TriggersOf = Matches /\ DOMAIN Verdicts = Matches
           /\ \A h \in Handlers, i \in Nat : <<h, i>> \in Matches => TriggersOf[<<h, i>>] = Executions(h, i)
           /\ DOMAIN Answers = UNION {TriggersOf[m] : m \in DOMAIN Verdicts}
           /\ \A o \in DOMAIN Answers : o \in Requesters
<1>1. \A h \in Handlers : MatchesOf[h] = {<<h, i>> : i \in 1 .. Len(plan[h])}
    BY KeptFacts DEF MatchesOf
<1>2. \A m \in Matches : TriggersOf[m] = Executions(m[1], m[2]) /\ TriggersOf[m] \subseteq Requesters
    BY DEF TriggersOf, Executions
<1>3. DOMAIN Answers = UNION {TriggersOf[m] : m \in Matches}
    BY DEF Answers
<1> QED BY <1>1, <1>2, <1>3 DEF MatchesOf, Matches, TriggersOf, Verdicts

\* A begun execution is one of a match that was left.
LEMMA BegunIsLeft ==
    ASSUME IInv, NEW o \in Requesters, exec[o] # "none"
    PROVE  /\ o[1] \in Handlers /\ o[2] \in 1 .. Len(plan[o[1]])
           /\ <<o[1], o[2]>> \in MatchesOf[o[1]] /\ <<o[1], o[2]>> \in Matches
           /\ o[2] \in ToSet(kept[o[1]])
           /\ o \in TriggersOf[<<o[1], o[2]>>] /\ o \in DOMAIN Answers
<1>1. o[1] \in Handlers
    BY TaskOfExecution
<1>2. PICK j \in 1 .. Len(kept[o[1]]) : o[2] = kept[o[1]][j]
    BY DEF IInv, ExecutionInOrder
<1>3. o[2] \in 1 .. Len(plan[o[1]]) /\ o[2] \in ToSet(kept[o[1]])
    BY <1>1, <1>2, KeptFacts DEF ToSet
<1>4. o[2] \in Nat
    BY <1>1, <1>3, KeptFacts
<1>5. <<o[1], o[2]>> \in MatchesOf[o[1]] /\ <<o[1], o[2]>> \in Matches
    BY <1>1, <1>3, WorkFacts
<1>6. o \in TriggersOf[<<o[1], o[2]>>]
    BY <1>1, <1>4, <1>5, WorkFacts DEF IInv, ExecutionInOrder
<1> QED BY <1>1, <1>3, <1>5, <1>6, WorkFacts

\* What a step leaves alone of the view.
LEMMA ViewKept ==
    ASSUME UNCHANGED plan
    PROVE  /\ MatchesOf' = MatchesOf /\ Matches' = Matches /\ TriggersOf' = TriggersOf
           /\ UNCHANGED <<kept, match>> => Verdicts' = Verdicts
           /\ (\A o \in DOMAIN Answers : exec'[o] = exec[o] \/ {exec[o], exec'[o]} \cap Finished = {})
                  => Answers' = Answers
           /\ (\A h \in Handlers : task'[h] = task[h] \/ {task[h], task'[h]} \cap {"ended", "cancelled"} = {})
                  => Outcomes' = Outcomes
<1>1. MatchesOf' = MatchesOf /\ Matches' = Matches
    BY DEF MatchesOf, Matches
<1>2. TriggersOf' = TriggersOf
    BY <1>1 DEF TriggersOf, Executions
<1>3. UNCHANGED <<kept, match>> => Verdicts' = Verdicts
    BY <1>1 DEF Verdicts
<1>4. ASSUME \A o \in DOMAIN Answers : exec'[o] = exec[o] \/ {exec[o], exec'[o]} \cap Finished = {}
      PROVE  Answers' = Answers
    <2>1. \A o \in UNION {TriggersOf[m] : m \in Matches} :
              (IF exec'[o] \in Finished THEN exec'[o] ELSE "none") = (IF exec[o] \in Finished THEN exec[o] ELSE "none")
        BY <1>4 DEF Answers
    <2> QED BY <1>1, <1>2, <2>1 DEF Answers
<1>5. ASSUME \A h \in Handlers : task'[h] = task[h] \/ {task[h], task'[h]} \cap {"ended", "cancelled"} = {}
      PROVE  Outcomes' = Outcomes
    BY <1>5 DEF Outcomes
<1> QED BY <1>1, <1>2, <1>3, <1>4, <1>5

\* Two names of the library for the elements of a sequence.
LEMMA ToSetIsRange == ASSUME NEW s PROVE ToSet(s) = Range(s)
BY DEF ToSet, Range

\* A match that went through its filters is judged.
LEMMA NextMatchJudges ==
    ASSUME IInv, NEW h \in Handlers, NEW left \in BOOLEAN, Filtering(h), NextMatch(h, left),
           UNCHANGED <<plan, shutdown, task, exec>>
    PROVE  Duties!Judge(h)
<1> DEFINE m == <<h, match[h]>>
           v == IF left THEN "left" ELSE "filtered"
<1>1. /\ match[h] \in 1 .. Len(plan[h]) /\ match[h] \in Nat
      /\ kept[h] \in Seq(Nat) /\ DOMAIN kept[h] = 1 .. Len(kept[h])
    BY KeptFacts DEF Filtering
<1>2. m \in MatchesOf[h] /\ m \in Matches
    BY <1>1, WorkFacts
<1>3. match[h] \notin ToSet(kept[h])
    BY <1>1 DEF ToSet, IInv, HandlerInOrder, KeptInOrder
<1>4. Verdicts[m] = "pending"
    BY <1>1, <1>2, <1>3 DEF Verdicts
<1>5. /\ match'[h] = match[h] + 1
      /\ ToSet(kept'[h]) = IF left THEN ToSet(kept[h]) \cup {match[h]} ELSE ToSet(kept[h])
      /\ \A g \in Handlers \ {h} : match'[g] = match[g] /\ kept'[g] = kept[g]
    <2>1. ToSet(Append(kept[h], match[h])) = ToSet(kept[h]) \cup {match[h]}
        BY <1>1, RangeOfAppend, ToSetIsRange
    <2> QED BY <2>1 DEF NextMatch, IInv, TypeOK
<1>6. Verdicts' = [Verdicts EXCEPT ![m] = v]
    <2>1. Matches' = Matches
        BY ViewKept
    <2>2. ASSUME NEW n \in Matches
          PROVE  Verdicts'[n] = IF n = m THEN v ELSE Verdicts[n]
        <3>1. PICK g \in Handlers : \E i \in 1 .. Len(plan[g]) : n = <<g, i>>
            BY WorkFacts
        <3>2. PICK i \in 1 .. Len(plan[g]) : n = <<g, i>>
            BY <3>1
        <3>3. i \in Nat /\ match[g] \in Nat
            BY KeptFacts
        <3>4. Verdicts[n] = IF i \in ToSet(kept[g]) THEN "left"
                            ELSE IF i < match[g] THEN "filtered" ELSE "pending"
            BY <3>2 DEF Verdicts
        <3>5. Verdicts'[n] = IF i \in ToSet(kept'[g]) THEN "left"
                             ELSE IF i < match'[g] THEN "filtered" ELSE "pending"
            BY <2>1, <3>2 DEF Verdicts
        <3>6. CASE g # h
            BY <1>5, <3>2, <3>4, <3>5, <3>6
        <3>7. CASE g = h /\ i # match[h]
            <4>1. i < match[h] + 1 <=> i < match[h]
                BY <3>3, <3>7
            <4> QED BY <1>5, <3>2, <3>4, <3>5, <3>7, <4>1
        <3>8. CASE g = h /\ i = match[h]
            BY <1>1, <1>3, <1>5, <3>2, <3>5, <3>8
        <3> QED BY <3>6, <3>7, <3>8
    <2> HIDE DEF m, v
    <2> QED BY <2>1, <2>2 DEF Verdicts
<1>7. MatchesOf' = MatchesOf /\ TriggersOf' = TriggersOf /\ Answers' = Answers /\ Outcomes' = Outcomes
    BY ViewKept
<1>8. Outcomes[h] = "no"
    BY DEF Filtering, Outcomes
<1> HIDE DEF m
<1> QED BY <1>2, <1>4, <1>6, <1>7, <1>8 DEF Duties!Judge, Duties!work

\* An execution that comes to its end answers its trigger.
LEMMA EndAnswers ==
    ASSUME IInv, NEW o \in Requesters, exec[o] \in Active, NEW stage \in Finished, Become(o, stage),
           UNCHANGED <<plan, shutdown, handlerVars>>
    PROVE  Duties!Answer(o[1])
<1> DEFINE h == o[1]
           m == <<o[1], o[2]>>
<1>1. /\ h \in Handlers /\ m \in MatchesOf[h] /\ m \in Matches /\ o \in TriggersOf[m] /\ o \in DOMAIN Answers
      /\ o[2] \in ToSet(kept[h]) /\ task[h] = "handling"
    BY BegunIsLeft DEF IInv, ExecutionInOrder, Active
<1>2. Verdicts[m] = "left" /\ Answers[o] = "none" /\ Outcomes[h] = "no"
    BY <1>1 DEF Verdicts, Answers, Outcomes, Active, Finished
<1>3. ASSUME NEW n \in MatchesOf[h] PROVE Verdicts[n] # "pending"
    <2>1. PICK i \in 1 .. Len(plan[h]) : n = <<h, i>>
        BY <1>1, WorkFacts
    <2>2. i < match[h]
        BY <1>1, KeptFacts DEF IInv, HandlerInOrder, StageInOrder
    <2>3. n \in Matches
        BY <1>1, WorkFacts
    <2> QED BY <2>1, <2>2, <2>3 DEF Verdicts
<1>4. UNCHANGED <<task, kept, match>>
    BY DEF handlerVars
<1>5. MatchesOf' = MatchesOf /\ Matches' = Matches /\ TriggersOf' = TriggersOf /\ Verdicts' = Verdicts
      /\ Outcomes' = Outcomes
    BY <1>4, ViewKept
<1>6. Answers' = [Answers EXCEPT ![o] = stage]
    <2>1. \A p \in Requesters : exec'[p] = IF p = o THEN stage ELSE exec[p]
        BY DEF Become, IInv, TypeOK
    <2>2. \A p \in UNION {TriggersOf[n] : n \in Matches} : p \in Requesters
        BY WorkFacts
    <2> QED BY <1>5, <2>1, <2>2 DEF Answers
<1>7. stage \in {"ok", "failed"}
    BY DEF Finished
<1> HIDE DEF m, h
<1> QED BY <1>1, <1>2, <1>3, <1>5, <1>6, <1>7 DEF Duties!Answer, Duties!work, h

\* A task ends when everything is judged and answered.
LEMMA EndCompletes ==
    ASSUME IInv, NEW h \in Handlers, End(h)
    PROVE  Duties!Complete(h)
<1>1. /\ task[h] = "handling" /\ Len(kept[h]) < place[h] /\ Len(plan[h]) < match[h]
      /\ UNCHANGED <<plan, shutdown, kept, match, exec>>
    BY KeptFacts DEF End, Handling, execVars, IInv, HandlerInOrder, StageInOrder
<1>2. ASSUME NEW n \in MatchesOf[h]
      PROVE  /\ Verdicts[n] # "pending"
             /\ Verdicts[n] = "left" => \A o \in TriggersOf[n] : Answers[o] # "none"
    <2>1. PICK i \in 1 .. Len(plan[h]) : n = <<h, i>>
        BY WorkFacts
    <2>2. i < match[h] /\ n \in Matches /\ i \in Nat
        BY <1>1, <2>1, KeptFacts, WorkFacts
    <2>3. Verdicts[n] = IF i \in ToSet(kept[h]) THEN "left" ELSE "filtered"
        BY <2>1, <2>2 DEF Verdicts
    <2>4. ASSUME i \in ToSet(kept[h]), NEW o \in TriggersOf[n] PROVE Answers[o] # "none"
        <3>1. PICK j \in 1 .. Len(kept[h]) : i = kept[h][j]
            BY <2>4, KeptFacts DEF ToSet
        <3>2. IsDone(h, i)
            BY <1>1, <3>1, KeptFacts DEF IInv, HandlerInOrder, PlaceInOrder
        <3>3. o \in Executions(h, i) /\ o \in DOMAIN Answers
            BY <2>1, <2>2, WorkFacts
        <3> QED BY <3>2, <3>3 DEF IsDone, Answers, Finished
    <2> QED BY <2>3, <2>4
<1>3. Outcomes[h] = "no" /\ Outcomes' = [Outcomes EXCEPT ![h] = "complete"]
    <2>1. \A g \in Handlers : task'[g] = IF g = h THEN "ended" ELSE task[g]
        BY DEF End, IInv, TypeOK
    <2> QED BY <1>1, <2>1 DEF Outcomes
<1>4. MatchesOf' = MatchesOf /\ TriggersOf' = TriggersOf /\ Verdicts' = Verdicts /\ Answers' = Answers
    BY <1>1, ViewKept
<1> QED BY <1>1, <1>2, <1>3, <1>4 DEF Duties!Complete, Duties!work

\* A cancelled task was told of the shutdown, and takes back no answer.
LEMMA CancelAbandons ==
    ASSUME IInv, NEW h \in Handlers, Cancel(h)
    PROVE  Duties!Abandon(h)
<1>1. /\ task[h] \in {"filtering", "handling"} /\ shutdown
      /\ UNCHANGED <<plan, shutdown, kept, match>>
    BY DEF Cancel, Running
<1>2. Outcomes[h] = "no" /\ Outcomes' = [Outcomes EXCEPT ![h] = "abandoned"]
    <2>1. \A g \in Handlers : task'[g] = IF g = h THEN "cancelled" ELSE task[g]
        BY DEF Cancel, IInv, TypeOK
    <2> QED BY <1>1, <2>1 DEF Outcomes
<1>3. \A o \in DOMAIN Answers : exec'[o] = exec[o] \/ {exec[o], exec'[o]} \cap Finished = {}
    BY WorkFacts DEF Cancel, Finished
<1>4. MatchesOf' = MatchesOf /\ TriggersOf' = TriggersOf /\ Verdicts' = Verdicts /\ Answers' = Answers
    BY <1>1, <1>3, ViewKept
<1> QED BY <1>1, <1>2, <1>4 DEF Duties!Abandon, Duties!work

\* Every other step is one that TriggerDuties does not see.
LEMMA Stutters ==
    ASSUME UNCHANGED <<plan, shutdown, kept, match>>,
           \A o \in DOMAIN Answers : exec'[o] = exec[o] \/ {exec[o], exec'[o]} \cap Finished = {},
           \A h \in Handlers : task'[h] = task[h] \/ {task[h], task'[h]} \cap {"ended", "cancelled"} = {}
    PROVE  UNCHANGED Duties!vars
BY ViewKept DEF Duties!vars, Duties!work

\* The steps of a task between those that TriggerDuties sees are stutters.
LEMMA TaskRefines ==
    ASSUME IInv, NEW h \in Handlers, Spawn(h) \/ Cancel(h) \/ HandlerStep(h)
    PROVE  [Duties!Next]_(Duties!vars)
<1>1. TypeOK /\ (script[h] # "none" => Filtering(h))
    BY KeptFacts DEF IInv, HandlerInOrder, StageInOrder, Filtering
<1>2. ASSUME NEW left \in BOOLEAN, Filtering(h), NextMatch(h, left), UNCHANGED <<plan, shutdown, task, exec>>
      PROVE  [Duties!Next]_(Duties!vars)
    BY <1>2, NextMatchJudges DEF Duties!Next
<1>3. CASE Cancel(h) \/ End(h)
    BY <1>3, CancelAbandons, EndCompletes DEF Duties!Next
<1>4. CASE KeepUnconditional(h)
    BY <1>2, <1>4 DEF KeepUnconditional, execVars
<1>5. CASE ScriptAnswersTrue(h)
    BY <1>1, <1>2, <1>5 DEF ScriptAnswersTrue, execVars
<1>6. CASE ScriptDoesNotFilter(h)
    <2>1. Filtering(h)
        BY <1>1, <1>6 DEF ScriptDoesNotFilter
    <2>2. CASE NextMatch(h, TRUE)
        BY <1>2, <1>6, <2>1, <2>2 DEF ScriptDoesNotFilter, execVars
    <2>3. CASE UNCHANGED <<match, kept>>
        BY <1>6, <2>3, Stutters DEF ScriptDoesNotFilter, execVars
    <2> QED BY <1>6, <2>2, <2>3 DEF ScriptDoesNotFilter, NextCondition
<1>7. CASE Spawn(h) \/ StartHandling(h)
    <2>1. /\ UNCHANGED <<plan, shutdown, kept, match, exec>>
          /\ \A g \in Handlers : task'[g] = task[g] \/ {task[g], task'[g]} \cap {"ended", "cancelled"} = {}
        BY <1>1, <1>7 DEF Spawn, StartHandling, execVars, TypeOK
    <2> QED BY <2>1, Stutters
<1>8. CASE StartScript(h) \/ WriteInput(h) \/ FinishMatch(h)
    BY <1>8, Stutters DEF StartScript, WriteInput, FinishMatch, execVars
<1>9. CASE StartMatch(h)
    <2>1. UNCHANGED <<plan, shutdown, kept, match, task>>
        BY <1>9 DEF StartMatch, handlerVars
    <2>2. \A o \in DOMAIN Answers : exec'[o] = exec[o] \/ {exec[o], exec'[o]} \cap Finished = {}
        BY <1>9, WorkFacts DEF StartMatch, Finished
    <2> QED BY <2>1, <2>2, Stutters
<1> QED BY <1>3, <1>4, <1>5, <1>6, <1>7, <1>8, <1>9 DEF HandlerStep

\* A step of an execution answers its trigger, or is a stutter.
LEMMA ExecutionRefines ==
    ASSUME IInv, NEW o \in Requesters, ExecutionStep(o)
    PROVE  [Duties!Next]_(Duties!vars)
<1>1. UNCHANGED <<plan, shutdown, handlerVars>>
    BY DEF ExecutionStep, Refuse, AskForClient, Pool, StartSending, SendSucceeds, SendIsRejected, SendFails,
           Retry, StartNotifier, WriteNotifierInput, NotifierSucceeds, NotifierFails
<1>2. exec[o] \in Active
    BY DEF ExecutionStep, Refuse, AskForClient, Pool, StartSending, SendSucceeds, SendIsRejected, SendFails,
           Retry, StartNotifier, WriteNotifierInput, NotifierSucceeds, NotifierFails, Active
<1>3. exec' = exec \/ \E stage \in Active \union Finished : Become(o, stage)
    BY DEF ExecutionStep, Refuse, AskForClient, Pool, StartSending, SendSucceeds, SendIsRejected, SendFails,
           Retry, StartNotifier, WriteNotifierInput, NotifierSucceeds, NotifierFails, execVars, Active, Finished
<1>4. CASE \E stage \in Finished : Become(o, stage)
    <2>1. o[1] \in Handlers
        BY TaskOfExecution
    <2> QED BY <1>1, <1>2, <1>4, <2>1, EndAnswers DEF Duties!Next
<1>5. CASE exec' = exec \/ \E stage \in Active : Become(o, stage)
    <2>1. \A p \in DOMAIN Answers : exec'[p] = exec[p] \/ {exec[p], exec'[p]} \cap Finished = {}
        BY <1>2, <1>5, WorkFacts DEF Become, Active, Finished, IInv, TypeOK
    <2>2. UNCHANGED <<kept, match, task>>
        BY <1>1 DEF handlerVars
    <2> QED BY <1>1, <2>1, <2>2, Stutters
<1> QED BY <1>3, <1>4, <1>5

\* The tasks do what TriggerDuties promises (ImplementsDuties): every match is judged once,
\* every trigger of every match left is answered once and after the filters, and a task is
\* over when all are answered, or after a shutdown.
THEOREM TasksImplementDuties == Spec => ImplementsDuties
<1>1. Init => Duties!Init
    <2> SUFFICES ASSUME Init PROVE Duties!Init
        OBVIOUS
    <2>1. IInv
        BY InitInv
    <2>2. Verdicts = [m \in UNION {MatchesOf[h] : h \in Handlers} |-> "pending"]
        <3>1. ASSUME NEW m \in Matches
              PROVE  m[2] \notin ToSet(kept[m[1]]) /\ ~ (m[2] < match[m[1]])
            <4>1. PICK h \in Handlers : \E i \in 1 .. Len(plan[h]) : m = <<h, i>>
                BY <2>1, WorkFacts
            <4>2. PICK i \in 1 .. Len(plan[h]) : m = <<h, i>>
                BY <4>1
            <4>3. kept[h] = <<>> /\ match[h] = 1 /\ Len(plan[h]) \in Nat
                BY <2>1, KeptFacts DEF Init
            <4> QED BY <4>2, <4>3 DEF ToSet
        <3> QED BY <3>1 DEF Verdicts, Matches
    <2>3. Answers = [o \in UNION {TriggersOf[m] : m \in DOMAIN Verdicts} |-> "none"]
        <3>1. \A o \in DOMAIN Answers : exec[o] = "none"
            BY <2>1, WorkFacts DEF Init
        <3>2. DOMAIN Verdicts = Matches
            BY DEF Verdicts
        <3> QED BY <3>1, <3>2 DEF Answers, Finished
    <2>4. Outcomes = [h \in Handlers |-> "no"]
        BY DEF Init, Outcomes
    <2>5. DOMAIN MatchesOf = Handlers /\ DOMAIN TriggersOf = DOMAIN Verdicts
        BY <2>1, WorkFacts
    <2> QED BY <2>2, <2>3, <2>4, <2>5 DEF Init, Duties!Init
<1>2. IInv /\ [Next]_vars => [Duties!Next]_(Duties!vars)
    <2> SUFFICES ASSUME IInv, [Next]_vars PROVE [Duties!Next]_(Duties!vars)
        OBVIOUS
    <2>1. CASE Shutdown
        <3>1. UNCHANGED <<plan, kept, match, exec, task>> /\ shutdown' = TRUE
            BY <2>1 DEF Shutdown, handlerVars, execVars
        <3> QED BY <3>1, ViewKept DEF Duties!Next, Duties!Shutdown, Duties!work
    <2>2. CASE UNCHANGED vars
        BY <2>2, Stutters DEF vars, handlerVars, execVars
    <2> QED BY <2>1, <2>2, TaskRefines, ExecutionRefines DEF Next
<1> QED BY <1>1, <1>2, TasksInvariance, PTL DEF Spec, ImplementsDuties, Duties!Spec
-----------------------------------------------------------------------------
(* Match handling, which comes before the triggers: for any matches and    *)
(* any arguments, the variables of a match are made of its own arguments.  *)

\* What the filters found is well shaped, and the matches handled have their own variables.
HandlingInv ==
    /\ AreMatches(matches)
    /\ variables \in Seq(Range(variables))
    /\ Len(variables) <= Len(matches)
    /\ \A k \in DOMAIN variables : variables[k] = MatchVariables(matches[k])

\* Among the places of a list that are of some kind there is a last one.
LEMMA LastPlace ==
    ASSUME NEW n \in Nat, NEW S, S \subseteq 1 .. n, S # {}
    PROVE  Max(S) \in S
<1> DEFINE Distances == {n - i : i \in S}
<1>1. PICK d \in Distances : \A e \in Distances : d <= e
    <2>1. Distances \subseteq Nat
        OBVIOUS
    <2>2. PICK i \in S : TRUE
        OBVIOUS
    <2>3. n - i \in Distances
        OBVIOUS
    <2> HIDE DEF Distances
    <2> QED BY <2>1, <2>3, SmallestExists
<1>2. n - d \in S /\ \A i \in S : n - d >= i
    BY <1>1
<1> QED BY <1>2 DEF Max

\* A value named in the recorded arguments is that of one of them, of the same signature.
LEMMA ValuesAreRecorded ==
    ASSUME NEW signature, NEW entries, IsList(entries),
           \A i \in DOMAIN entries : IsList(entries[i].args),
           NEW name \in Names(signature, entries)
    PROVE  \E e \in ToSet(entries) : e.signature = signature /\
               \E arg \in ToSet(e.args) :
                   arg.name = name /\ arg.value = ArgVariables(signature, entries)[name]
<1> DEFINE i == Max(Naming(signature, entries, name))
           args == entries[i].args
           j == Max(PlacesOf(args, name))
<1>1. Naming(signature, entries, name) # {}
    <2>1. PICK e \in ToSet(entries) : e.signature = signature /\ \E arg \in ToSet(e.args) : arg.name = name
        BY DEF Names
    <2>2. PICK k \in DOMAIN entries : e = entries[k]
        BY DEF ToSet
    <2>3. PICK l \in DOMAIN e.args : e.args[l].name = name
        BY <2>1 DEF ToSet
    <2>4. l \in PlacesOf(entries[k].args, name)
        BY <2>2, <2>3 DEF PlacesOf
    <2> QED BY <2>1, <2>2, <2>4 DEF Naming
<1>2. i \in Naming(signature, entries, name)
    <2>1. Naming(signature, entries, name) \subseteq 1 .. Len(entries) /\ Len(entries) \in Nat
        BY DEF Naming, IsList
    <2> QED BY <1>1, <2>1, LastPlace
<1>3. i \in DOMAIN entries /\ entries[i].signature = signature /\ PlacesOf(args, name) # {}
    BY <1>2 DEF Naming
<1>4. j \in PlacesOf(args, name)
    <2>1. PlacesOf(args, name) \subseteq 1 .. Len(args) /\ Len(args) \in Nat
        BY <1>3 DEF PlacesOf, IsList
    <2> QED BY <1>3, <2>1, LastPlace
<1>5. j \in DOMAIN args /\ args[j].name = name
    BY <1>4 DEF PlacesOf
<1>6. entries[i] \in ToSet(entries) /\ args[j] \in ToSet(args)
    BY <1>3, <1>5 DEF ToSet
<1>7. ArgVariables(signature, entries)[name] = args[j].value
    BY DEF ArgVariables, LastArg
<1> QED BY <1>3, <1>5, <1>6, <1>7

\* The variables of the conditions that were met come from the recorded arguments.
LEMMA ConditionVariablesComeFrom ==
    ASSUME NEW found, NEW entries, IsList(entries),
           \A i \in DOMAIN entries : IsList(entries[i].args)
    PROVE  ComeFrom(ConditionVariables(found, entries), found, entries)
<1> DEFINE made == ConditionVariables(found, entries)
<1> SUFFICES ASSUME NEW i \in DOMAIN made
             PROVE  LET entry == made[i]
                        recorded == {e \in ToSet(entries) : e.signature = entry.signature}
                    IN  /\ entry.signature = found[i].signature
                        /\ \A name \in DOMAIN entry.args : \E e \in recorded : \E arg \in ToSet(e.args) :
                               arg.name = name /\ arg.value = entry.args[name]
                        /\ \A e \in recorded :
                               recorded = {e} => DOMAIN entry.args = {arg.name : arg \in ToSet(e.args)}
    BY DEF ComeFrom
<1> DEFINE signature == found[i].signature
           recorded == {e \in ToSet(entries) : e.signature = signature}
<1>1. made[i].signature = signature /\ made[i].args = ArgVariables(signature, entries)
    BY DEF ConditionVariables
<1>2. DOMAIN ArgVariables(signature, entries) = Names(signature, entries)
    BY DEF ArgVariables
<1>3. \A name \in Names(signature, entries) : \E e \in recorded : \E arg \in ToSet(e.args) :
          arg.name = name /\ arg.value = ArgVariables(signature, entries)[name]
    BY ValuesAreRecorded
<1>4. ASSUME NEW e \in recorded, recorded = {e}
      PROVE  Names(signature, entries) = {arg.name : arg \in ToSet(e.args)}
    <2>1. Names(signature, entries) = UNION {{arg.name : arg \in ToSet(d.args)} : d \in recorded}
        BY DEF Names
    <2> HIDE DEF recorded
    <2> QED BY <1>4, <2>1
<1> HIDE DEF made
<1> QED BY <1>1, <1>2, <1>3, <1>4

\* Filters and handling keep the inductive invariant.
LEMMA HandlingStep ==
    ASSUME HandlingInv, [FindMatches \/ HandleNextMatch]_<<matches, variables>>
    PROVE  HandlingInv'
<1>1. CASE FindMatches
    <2>1. variables' = <<>> /\ AreMatches(matches)'
        BY <1>1 DEF FindMatches, AreMatches, IsMatch, IsList
    <2>2. Len(matches') \in Nat
        BY <2>1 DEF AreMatches, IsList
    <2>3. <<>> \in Seq(Range(<<>>)) /\ Len(<<>>) = 0 /\ DOMAIN <<>> = {}
        OBVIOUS
    <2> QED BY <2>1, <2>2, <2>3 DEF HandlingInv
<1>2. CASE HandleNextMatch
    <2> DEFINE made == MatchVariables(matches[Len(variables) + 1])
               S == Range(variables) \union {made}
    <2>1. /\ matches' = matches /\ Len(variables) < Len(matches) /\ variables' = Append(variables, made)
        BY <1>2 DEF HandleNextMatch
    <2>2. variables \in Seq(S) /\ made \in S
        BY SeqOfSuperset DEF HandlingInv
    <2>3. Range(variables') = S
        BY <2>1, <2>2, RangeOfAppend
    <2> HIDE DEF S, made
    <2>4. /\ variables' \in Seq(S) /\ Len(variables') = Len(variables) + 1
          /\ variables'[Len(variables) + 1] = made
          /\ \A k \in 1 .. Len(variables) : variables'[k] = variables[k]
        BY <2>1, <2>2, AppendProperties
    <2>5. Len(variables) \in Nat /\ DOMAIN variables = 1 .. Len(variables)
        BY <2>2, LenProperties
    <2>6. DOMAIN variables' = 1 .. Len(variables) + 1
        BY <2>4, LenProperties
    <2>7. variables' \in Seq(Range(variables'))
        BY <2>3, <2>4
    <2>8. \A k \in DOMAIN variables' : variables'[k] = MatchVariables(matches[k])
        BY <2>4, <2>5, <2>6 DEF HandlingInv, made
    <2>9. Len(variables') <= Len(matches)
        <3>1. Len(matches) \in Nat
            BY DEF HandlingInv, AreMatches, IsList
        <3>2. Len(variables) < Len(matches) /\ Len(variables) \in Nat
            BY <2>1, <2>5
        <3>3. Len(variables') = Len(variables) + 1
            BY <2>4
        <3> QED BY <3>1, <3>2, <3>3
    <2> QED BY <2>1, <2>7, <2>8, <2>9 DEF HandlingInv
<1>3. CASE UNCHANGED <<matches, variables>>
    BY <1>3 DEF HandlingInv
<1> QED BY <1>1, <1>2, <1>3

\* The variables of a match, by the invariant.
LEMMA VariablesFromInvariant == HandlingInv => VariablesComeFromTheMatch
<1> SUFFICES ASSUME HandlingInv, NEW k \in DOMAIN variables
             PROVE  /\ ComeFrom(variables[k].events, matches[k].events, matches[k].eventArgs)
                    /\ ComeFrom(variables[k].functions, matches[k].functions, matches[k].functionArgs)
    BY DEF VariablesComeFromTheMatch
<1>1. k \in DOMAIN matches
    BY LenProperties DEF HandlingInv, AreMatches, IsList
<1>2. IsMatch(matches[k])
    BY <1>1 DEF HandlingInv, AreMatches
<1>3. variables[k] = MatchVariables(matches[k])
    BY DEF HandlingInv
<1>4. /\ variables[k].events = ConditionVariables(matches[k].events, matches[k].eventArgs)
      /\ variables[k].functions = ConditionVariables(matches[k].functions, matches[k].functionArgs)
    BY <1>3 DEF MatchVariables
<1>5. ComeFrom(ConditionVariables(matches[k].events, matches[k].eventArgs),
               matches[k].events, matches[k].eventArgs)
    BY <1>2, ConditionVariablesComeFrom DEF IsMatch
<1>6. ComeFrom(ConditionVariables(matches[k].functions, matches[k].functionArgs),
               matches[k].functions, matches[k].functionArgs)
    BY <1>2, ConditionVariablesComeFrom DEF IsMatch
<1> QED BY <1>4, <1>5, <1>6

\* The variables of an event or function come from recorded arguments of its signature
\* (VariablesComeFromTheMatch), however many matches the filters found and whatever
\* arguments they recorded for them.
THEOREM VariablesAreRecorded == HandlingSpec => []VariablesComeFromTheMatch
<1>1. matches = <<>> /\ variables = <<>> => HandlingInv
    <2>1. <<>> \in Seq(Range(<<>>)) /\ Len(<<>>) = 0 /\ DOMAIN <<>> = {}
        OBVIOUS
    <2> QED BY <2>1 DEF HandlingInv, AreMatches, IsList
<1> QED BY <1>1, HandlingStep, VariablesFromInvariant, PTL DEF HandlingSpec
=============================================================================
