--------------------- MODULE MissedBlockRecoveryProofs ----------------------
(***************************************************************************)
(* What MissedBlockRecovery promises, for every value of its constants:    *)
(* that no block is given up early, however the runs overlap and whatever  *)
(* fails or crashes (EarnedInv); the retry bound, when neither the runs of *)
(* the job nor those of the watcher overlap, while both race, fail and     *)
(* crash (RacingInv); when the watcher finds nothing and the disk works, a *)
(* single trigger for each block, crashes included (AloneInv); and without *)
(* crashes that the entries live as RecoveryLifecycle says (QuietInv).     *)
(***************************************************************************)
EXTENDS MissedBlockRecovery, SequenceLemmas

\* Runs of the job do not overlap.
OneJob == \E j \in Jobs : Jobs = {j}

\* Nor do runs of the main watcher.
OneWatcher == \E w \in Watchers : Watchers = {w}

\* Nobody but the job changes the file, and the disk works.
Alone == OneJob /\ Undetected = {} /\ ~ StorageFails

\* Nor does the process die.
Undisturbed == Alone /\ ~ Crashes

-----------------------------------------------------------------------------

AtWork(j) == pc[j] \in {"fetching", "fetched"}
HasCurrent(j) == AtWork(j) => Waiting(j) # {}

\* Types, and a run that is at work has a block to work on.
Located == TypeOK /\ \A j \in Jobs : HasCurrent(j)

-----------------------------------------------------------------------------
(* All race.                                                               *)

\* count attempts have failed, if f of them have, counted up to max_retries.
Backed(count, f) == count <= f \/ f >= max_retries

\* Each attempt that E counts has failed, and what it calls Failed has used up its attempts.
Earned(E, f) ==
    \A n \in DOMAIN E : /\ Backed(E[n].retry_count, f[n])
                        /\ E[n].status = "Failed" => f[n] >= max_retries

\* The inductive invariant for GivenUpOnlyAfterMaxRetries: it holds of all that will be written
\* and of the counts that will decide.
EarnedInv ==
    /\ Located
    /\ Earned(file, failures)
    /\ \A p \in Procs : Earned(io[p].entries, failures)
    /\ \A j \in Jobs : \A n \in Waiting(j) : Backed(queue[j][n], failures[n])

-----------------------------------------------------------------------------
(* One run of the job races with one of the watcher.                       *)

\* Where both have an entry, E counts at most as many attempts as F.
CountsAtMost(E, F) ==
    \A n \in DOMAIN E \cap DOMAIN F : E[n].retry_count <= F[n].retry_count

Bounded(E) == \A n \in DOMAIN E : E[n].retry_count <= max_retries

\* No entry has been attempted more often than when it was selected.
AsSelected(E, j) ==
    \A n \in DOMAIN E \cap Waiting(j) : E[n].retry_count <= queue[j][n]

\* What the watcher will write is out of date, never ahead of the file.
WatcherIsBehind ==
    \A w \in Watchers : io[w].step # "none" => CountsAtMost(io[w].entries, file)

\* What the job will write is ahead of the file and of what the watcher will write.
JobIsAhead(j) == io[j].step # "none" =>
    /\ CountsAtMost(file, io[j].entries)
    /\ \A w \in Watchers :
           io[w].step # "none" => CountsAtMost(io[w].entries, io[j].entries)

\* Whatever is in the file when the attempt fails, the count at selection decides rightly.
SelectionHolds(j) ==
    /\ \A n \in Waiting(j) : queue[j][n] < max_retries
    /\ AsSelected(file, j)
    /\ \A p \in Procs : io[p].step # "none" => AsSelected(io[p].entries, j)

\* The inductive invariant for RetryBound.
RacingInv ==
    /\ Located
    /\ Bounded(file) /\ \A p \in Procs : Bounded(io[p].entries)
    /\ WatcherIsBehind
    /\ \A j \in Jobs : JobIsAhead(j) /\ SelectionHolds(j)

-----------------------------------------------------------------------------
(* The job alone with the file.                                            *)

\* What is in the file once the operation that is under way has ended.
Target(j) == IF io[j].step = "none" THEN file ELSE io[j].entries

\* Nobody interferes: what the job truncates stays empty until the job writes it.
NoInterference ==
    /\ ~ garbled
    /\ undetected = {}
    /\ \A w \in Watchers : io[w].step = "none"
    /\ \A j \in Jobs : io[j].step = "truncated" => file = NoEntries

\* A block that was triggered is not Pending again.
TriggeredIsMarked(E) ==
    \A n \in DOMAIN E : triggered[n] > 0 => E[n].status \in {"Recovering", "Recovered"}

\* The block at work is marked, and only it may have been triggered.
MarksCurrent(j) ==
    /\ AtWork(j) => \A n \in DOMAIN Target(j) :
                        n = Current(j) => Target(j)[n].status = "Recovering"
    /\ \A n \in Waiting(j) : triggered[n] = 0 \/ (pc[j] = "fetched" /\ n = Current(j))

\* The inductive invariant for TriggeredOnce.
AloneInv ==
    /\ Located
    /\ NoInterference
    /\ TriggeredOnce
    /\ TriggeredIsMarked(file)
    /\ \A j \in Jobs : TriggeredIsMarked(Target(j)) /\ MarksCurrent(j)

-----------------------------------------------------------------------------
(* Undisturbed.                                                            *)

\* The steps of RecoveryLifecycle that an attempt at an entry may take.
Allowed(entry, status) ==
    \/ entry.status = "Pending" /\ status = "Recovering"
    \/ entry.status = "Recovering" /\ status = "Recovered"
    \/ /\ entry.status = "Recovering"
       /\ IF entry.retry_count + 1 < max_retries THEN status = "Pending"
          ELSE entry.retry_count + 1 = max_retries /\ status = "Failed"

\* F comes from E by one step of RecoveryLifecycle.
Evolves(E, F) ==
    \/ F = E
    \/ \E n \in DOMAIN E, status \in Statuses :
           Allowed(E[n], status) /\ F = Updated(E, n, status)
    \/ \E S \in SUBSET Blocks :
           /\ \/ \A n \in S \cap DOMAIN E : E[n].status = "Recovered"
              \/ \A n \in DOMAIN E : E[n].status # "Recovering"
           /\ F = Without(E, S)

\* Where the job is says which entries are at which stage.
StagesFit(j) ==
    LET E == Target(j) IN
    /\ \A n \in DOMAIN E : E[n].status = "Recovering" => AtWork(j) /\ n = Current(j)
    /\ \A n \in DOMAIN E \cap Waiting(j) :
           /\ E[n].retry_count = queue[j][n]
           /\ E[n].status = "Pending" \/ (AtWork(j) /\ n = Current(j))
    /\ \A n \in Waiting(j) : queue[j][n] < max_retries
    /\ \A n \in DOMAIN E \cap recovered[j] : E[n].status = "Recovered"

\* What is gone was triggered or pruned.
NothingForgotten(j) ==
    /\ \A n \in InitialEntries \ pruned : n \in DOMAIN Target(j) \/ triggered[n] > 0
    /\ \A n \in recovered[j] : triggered[n] > 0
    /\ pc[j] = "fetched" => triggered[Current(j)] > 0

\* The inductive invariant for RecoveringIsInProgress, MissedBlocksTracked and the
\* refinement of RecoveryLifecycle.
QuietInv ==
    /\ AloneInv
    /\ DOMAIN file \subseteq InitialEntries
    /\ \A j \in Jobs :
           /\ DOMAIN Target(j) \subseteq InitialEntries
           /\ StagesFit(j)
           /\ NothingForgotten(j)
           /\ io[j].step = "loaded" => Evolves(file, io[j].entries)

-----------------------------------------------------------------------------
(* The operators on entries, and the entry a run works on.                 *)

\* The block a run works on is one that waits.
LEMMA CurrentIsWaiting ==
    ASSUME TypeOK, NEW j \in Jobs, Waiting(j) # {}
    PROVE  Current(j) \in Waiting(j) /\ Current(j) \in Blocks
<1>1. Waiting(j) \subseteq Blocks /\ Blocks \subseteq Nat
    BY RecoveryAssumption DEF TypeOK, IsQueue, Waiting
<1>2. \E n \in Waiting(j) : \A m \in Waiting(j) : n <= m
    BY <1>1, SmallestExists
<1> QED BY <1>1, <1>2 DEF Current

\* The empty file, the empty queue and no operation are well typed.
LEMMA NoEntriesFacts == DOMAIN NoEntries = {} /\ IsEntries(NoEntries) /\ IsQueue(NoEntries)
                        /\ IsOperation(NoOperation)
<1>1. DOMAIN NoEntries = {} /\ NoEntries = [n \in {} |-> 0]
    BY DEF NoEntries
<1>2. IsEntries(NoEntries) /\ IsQueue(NoEntries)
    BY <1>1 DEF IsEntries, IsQueue
<1> QED BY <1>1, <1>2 DEF IsOperation, NoOperation

\* Removing (remove_recovered_blocks, prune_old_missed_blocks) leaves the others as they are.
LEMMA WithoutFacts ==
    ASSUME NEW E, NEW S
    PROVE  /\ DOMAIN Without(E, S) = DOMAIN E \ S
           /\ \A n \in DOMAIN E \ S : Without(E, S)[n] = E[n]
           /\ IsEntries(E) => IsEntries(Without(E, S))
           /\ IsQueue(E) => IsQueue(Without(E, S))
BY DEF Without, Restrict, IsEntries, IsQueue

\* An update changes the status of one entry, and counts an attempt that failed.
LEMMA UpdatedFacts ==
    ASSUME NEW E, IsEntries(E), NEW n, NEW status \in Statuses
    PROVE  /\ DOMAIN Updated(E, n, status) = DOMAIN E
           /\ \A m \in DOMAIN E \ {n} : Updated(E, n, status)[m] = E[m]
           /\ n \in DOMAIN E =>
                /\ Updated(E, n, status)[n].status = status
                /\ Updated(E, n, status)[n].retry_count
                       = E[n].retry_count + IF status \in {"Pending", "Failed"} THEN 1 ELSE 0
           /\ IsEntries(Updated(E, n, status))
BY DEF Updated, IsEntries, Statuses

\* Recording adds new entries and replaces none (save_missed_blocks).
LEMMA WithNewFacts ==
    ASSUME NEW E, IsEntries(E), NEW S, S \subseteq Blocks
    PROVE  /\ DOMAIN WithNew(E, S) = DOMAIN E \cup S
           /\ \A n \in DOMAIN E : WithNew(E, S)[n] = E[n]
           /\ \A n \in S \ DOMAIN E : WithNew(E, S)[n] = NewEntry
           /\ IsEntries(WithNew(E, S))
BY DEF WithNew, IsEntries, NewEntry, Statuses

-----------------------------------------------------------------------------
(* Types.                                                                  *)

Places == {"idle", "selecting", "attempting", "fetching", "fetched"}

\* What Operate changes.
LEMMA OperateFacts ==
    ASSUME TypeOK, NEW p \in Procs, NEW E, IsEntries(E), NEW next \in Places, NEW otherwise \in Places,
           Operate(p, E, next, otherwise)
    PROVE  /\ io' = [q \in Procs |-> io'[q]] /\ \A q \in Procs : IsOperation(io'[q])
           /\ pc' \in [Procs -> Places]
           /\ \A q \in Procs \ {p} : io'[q] = io[q] /\ pc'[q] = pc[q]
           /\ garbled => io'[p] = io[p] /\ pc'[p] = otherwise
           /\ ~ garbled => io'[p] = [step |-> "loaded", entries |-> E] /\ pc'[p] = next
           /\ UNCHANGED <<file, garbled, confirmed, undetected>>
<1> DEFINE o == [step |-> "loaded", entries |-> E]
<1>1. IsOperation(o)
    BY DEF IsOperation
<1>2. io' = IF garbled THEN io ELSE [io EXCEPT ![p] = o]
    BY DEF Operate
<1>3. io = [q \in Procs |-> io[q]] /\ \A q \in Procs : IsOperation(io[q])
    BY DEF TypeOK
<1> HIDE DEF o
<1>4. /\ io' = [q \in Procs |-> io'[q]] /\ \A q \in Procs : IsOperation(io'[q])
      /\ \A q \in Procs \ {p} : io'[q] = io[q]
      /\ io'[p] = IF garbled THEN io[p] ELSE o
    BY <1>1, <1>2, <1>3
<1>5. pc' = [pc EXCEPT ![p] = IF garbled THEN otherwise ELSE next] /\ pc \in [Procs -> Places]
    BY DEF Operate, TypeOK, Places
<1>6. pc' \in [Procs -> Places] /\ \A q \in Procs \ {p} : pc'[q] = pc[q]
      /\ pc'[p] = IF garbled THEN otherwise ELSE next
    BY <1>5
<1> QED BY <1>4, <1>6 DEF Operate, o

\* What the three ways an operation goes on change.
LEMMA OperationFacts ==
    ASSUME TypeOK, NEW p \in Procs, Truncate(p) \/ Write(p) \/ OperationFails(p)
    PROVE  /\ io' = [q \in Procs |-> io'[q]] /\ \A q \in Procs : IsOperation(io'[q])
           /\ \A q \in Procs \ {p} : io'[q] = io[q]
           /\ Truncate(p) => io'[p].step = "truncated" /\ io'[p].entries = io[p].entries
           /\ Write(p) \/ OperationFails(p) => io'[p] = NoOperation
<1> DEFINE o == IF Truncate(p) THEN [step |-> "truncated", entries |-> io[p].entries] ELSE NoOperation
<1>1. io = [q \in Procs |-> io[q]] /\ \A q \in Procs : IsOperation(io[q])
    BY DEF TypeOK
<1>2. io[p].step # "truncated" \/ ~ Truncate(p)
    BY DEF Truncate
<1>3. IsOperation(o)
    BY <1>1, NoEntriesFacts DEF IsOperation
<1>4. io' = [io EXCEPT ![p] = o]
    <2>1. CASE Truncate(p)
        <3>1. [io[p] EXCEPT !.step = "truncated"] = o
            BY <1>1, <2>1 DEF IsOperation
        <3> QED BY <1>1, <2>1, <3>1 DEF Truncate
    <2>2. CASE ~ Truncate(p)
        BY <2>2 DEF Write, OperationFails
    <2> QED BY <2>1, <2>2
<1>5. Write(p) \/ OperationFails(p) => io'[p] = NoOperation
    BY <1>1 DEF Write, OperationFails
<1>6. Truncate(p) => o.step = "truncated" /\ o.entries = io[p].entries
    OBVIOUS
<1> HIDE DEF o
<1> QED BY <1>1, <1>3, <1>4, <1>5, <1>6

\* The entries the job makes of those in the file.
LEMMA EntriesOfActions ==
    ASSUME TypeOK
    PROVE  /\ IsEntries(file)
           /\ \A S : IsEntries(Without(file, S))
           /\ \A n : \A status \in Statuses : IsEntries(Updated(file, n, status))
           /\ \A S \in SUBSET Undetected : IsEntries(WithNew(file, S))
BY UpdatedFacts, WithoutFacts, WithNewFacts, RecoveryAssumption DEF TypeOK

\* A change of one run's queue keeps the queues well typed.
LEMMA QueueStays ==
    ASSUME TypeOK, NEW j \in Jobs, NEW q, IsQueue(q), queue' = [queue EXCEPT ![j] = q]
    PROVE  /\ queue' = [i \in Jobs |-> queue'[i]] /\ \A i \in Jobs : IsQueue(queue'[i])
           /\ queue'[j] = q
BY DEF TypeOK

\* An operation that is begun with well typed entries keeps the types.
LEMMA OperateTypes ==
    ASSUME TypeOK, NEW p \in Procs, NEW E, IsEntries(E), NEW next \in Places, NEW otherwise \in Places,
           Operate(p, E, next, otherwise),
           queue' = [j \in Jobs |-> queue'[j]], \A j \in Jobs : IsQueue(queue'[j]),
           recovered' \in [Jobs -> SUBSET Blocks], current_confirmed' \in [Jobs -> Nat],
           triggered' \in [Blocks -> 0 .. 2], failures' \in [Blocks -> Nat], pruned' \subseteq Blocks
    PROVE  TypeOK'
<1>1. /\ io' = [q \in Procs |-> io'[q]] /\ \A q \in Procs : IsOperation(io'[q])
      /\ pc' \in [Procs -> Places]
      /\ UNCHANGED <<file, garbled, confirmed, undetected>>
    BY OperateFacts
<1>2. IsEntries(file) /\ garbled \in BOOLEAN /\ confirmed \in Nat /\ undetected \subseteq Blocks
    BY DEF TypeOK
<1> QED BY <1>1, <1>2 DEF TypeOK, Places

\* The queue stays one when a block is done.
LEMMA QueueRestTypes ==
    ASSUME TypeOK, NEW j \in Jobs, NEW n
    PROVE  IsQueue(Without(queue[j], {n}))
BY WithoutFacts DEF TypeOK

\* Every step keeps the types.
LEMMA TypesKept == Located /\ [Next]_vars => TypeOK'
<1> SUFFICES ASSUME TypeOK, \A j \in Jobs : HasCurrent(j), [Next]_vars PROVE TypeOK'
    BY DEF Located
<1>0. /\ queue = [j \in Jobs |-> queue[j]] /\ \A j \in Jobs : IsQueue(queue[j])
      /\ recovered \in [Jobs -> SUBSET Blocks] /\ current_confirmed \in [Jobs -> Nat]
      /\ triggered \in [Blocks -> 0 .. 2] /\ failures \in [Blocks -> Nat]
      /\ pruned \subseteq Blocks /\ confirmed \in Nat
      /\ Jobs \subseteq Procs /\ Watchers \subseteq Procs
      /\ pc \in [Procs -> Places]
    BY DEF TypeOK, Procs, Places
<1>1. ASSUME NEW p \in Procs, FileStep(p) \/ OperationFails(p)
      PROVE  TypeOK'
    <2>1. CASE Truncate(p)
        BY <2>1, OperationFacts, NoEntriesFacts DEF Truncate, TypeOK
    <2>2. CASE Write(p)
        <3>1. IsEntries(file') /\ garbled' \in BOOLEAN /\ undetected' \subseteq Blocks
            BY <2>2 DEF Write, TypeOK, IsOperation
        <3> QED BY <2>2, <3>1, OperationFacts DEF Write, TypeOK
    <2>3. CASE OperationFails(p)
        <3>1. pc' \in [Procs -> Places]
            BY <1>0, <2>3 DEF OperationFails, Places
        <3> QED BY <2>3, <3>1, OperationFacts DEF OperationFails, TypeOK, Places
    <2> QED BY <1>1, <2>1, <2>2, <2>3 DEF FileStep
<1>2. ASSUME NEW j \in Jobs, Prune(j) \/ Work(j) \/ Answer(j)
      PROVE  TypeOK'
    <2>0. j \in Procs
        BY <1>0
    <2>1. CASE Prune(j)
        <3> DEFINE old == {n \in DOMAIN file : n < MinBlock(confirmed)}
        <3>1. current_confirmed' \in [Jobs -> Nat] /\ pruned' \subseteq Blocks
            BY <1>0, <2>1 DEF Prune, TypeOK, IsEntries
        <3>2. CASE old = {}
            <4>1. pc' \in [Procs -> Places]
                BY <1>0, <2>1, <3>2 DEF Prune, Places
            <4> QED BY <2>1, <3>1, <3>2, <4>1 DEF Prune, TypeOK, Places
        <3>3. CASE old # {}
            <4>1. Operate(j, Without(file, old), "selecting", "idle")
                  /\ UNCHANGED <<queue, recovered, triggered, failures>>
                BY <2>1, <3>3 DEF Prune
            <4>2. IsEntries(Without(file, old))
                BY EntriesOfActions
            <4> HIDE DEF old
            <4> QED BY <1>0, <2>0, <3>1, <4>1, <4>2, OperateTypes DEF Places
        <3> QED BY <3>2, <3>3
    <2>2. CASE Select(j)
        <3> DEFINE selected == Oldest(Eligible(file, current_confirmed[j]))
                   counts   == [n \in selected |-> file[n].retry_count]
        <3>1. IsQueue(counts)
            BY DEF Oldest, Eligible, TypeOK, IsEntries, IsQueue
        <3>2. queue' = [queue EXCEPT ![j] = counts]
            BY <2>2 DEF Select
        <3>3. queue' = [i \in Jobs |-> queue'[i]] /\ \A i \in Jobs : IsQueue(queue'[i])
            <4> HIDE DEF counts
            <4> QED BY <3>1, <3>2, QueueStays
        <3>4. pc' \in [Procs -> Places] /\ recovered' \in [Jobs -> SUBSET Blocks]
            BY <1>0, <2>2 DEF Select, Places
        <3> QED BY <2>2, <3>3, <3>4 DEF Select, TypeOK, Places
    <2>3. CASE CannotRead(j)
        <3>1. pc' \in [Procs -> Places]
            BY <1>0, <2>3 DEF CannotRead, Places
        <3> QED BY <2>3, <3>1 DEF CannotRead, TypeOK, Places
    <2>4. CASE MarkRecovering(j)
        BY <1>0, <2>0, <2>4, OperateTypes, EntriesOfActions DEF MarkRecovering, Places, Statuses
    <2>5. CASE Fetched(j)
        <3>1. pc' \in [Procs -> Places]
            BY <1>0, <2>5 DEF Fetched, Places
        <3>2. triggered' \in [Blocks -> 0 .. 2]
            <4> DEFINE count == IF triggered[Current(j)] < 2 THEN triggered[Current(j)] + 1
                                ELSE triggered[Current(j)]
            <4>1. triggered' = [triggered EXCEPT ![Current(j)] = count]
                BY <2>5 DEF Fetched
            <4>2. Current(j) \in Blocks => count \in 0 .. 2
                BY <1>0
            <4> HIDE DEF count
            <4>3. CASE Current(j) \in Blocks
                BY <1>0, <4>1, <4>2, <4>3
            <4>4. CASE Current(j) \notin Blocks
                BY <1>0, <4>1, <4>4
            <4> QED BY <4>3, <4>4
        <3> QED BY <2>5, <3>1, <3>2 DEF Fetched, TypeOK, Places
    <2>6. CASE MarkRecovered(j)
        <3>0. Current(j) \in Blocks
            BY <2>6, CurrentIsWaiting DEF HasCurrent, AtWork, MarkRecovered, Ready
        <3>1. recovered' \in [Jobs -> SUBSET Blocks]
            BY <1>0, <2>6, <3>0 DEF MarkRecovered
        <3>2. queue' = [i \in Jobs |-> queue'[i]] /\ \A i \in Jobs : IsQueue(queue'[i])
            BY <2>6, QueueRestTypes, QueueStays DEF MarkRecovered
        <3> QED BY <1>0, <2>0, <2>6, <3>1, <3>2, OperateTypes, EntriesOfActions
                DEF MarkRecovered, Places, Statuses
    <2>7. CASE AttemptFails(j)
        <3>1. queue' = [i \in Jobs |-> queue'[i]] /\ \A i \in Jobs : IsQueue(queue'[i])
            BY <2>7, QueueRestTypes, QueueStays DEF AttemptFails
        <3> DEFINE status == IF SelectedCount(j) + 1 >= max_retries THEN "Failed" ELSE "Pending"
        <3>2. Operate(j, Updated(file, Current(j), status), "attempting", "attempting")
            BY <2>7 DEF AttemptFails
        <3>3. status \in Statuses
            BY DEF Statuses
        <3>6. Current(j) \in Blocks
            BY <2>7, CurrentIsWaiting DEF HasCurrent, AtWork, AttemptFails, Ready
        <3>4. failures' \in [Blocks -> Nat] /\ UNCHANGED <<current_confirmed, recovered, triggered, pruned>>
            <4>1. failures' = [failures EXCEPT ![Current(j)] = IF @ < max_retries THEN @ + 1 ELSE @]
                BY <2>7 DEF AttemptFails, Fails
            <4> QED BY <1>0, <2>7, <3>6, <4>1 DEF AttemptFails
        <3> HIDE DEF status
        <3>5. IsEntries(Updated(file, Current(j), status))
            BY <3>3, EntriesOfActions
        <3> QED BY <1>0, <2>0, <3>1, <3>2, <3>4, <3>5, OperateTypes DEF Places
    <2>8. CASE Finish(j)
        <3>1. CASE recovered[j] = {}
            <4>1. pc' \in [Procs -> Places]
                BY <1>0, <2>8, <3>1 DEF Finish, Places
            <4> QED BY <2>8, <3>1, <4>1 DEF Finish, TypeOK, Places
        <3>2. CASE recovered[j] # {}
            BY <1>0, <2>0, <2>8, <3>2, OperateTypes, EntriesOfActions DEF Finish, Places
        <3> QED BY <3>1, <3>2
    <2> QED BY <1>2, <2>1, <2>2, <2>3, <2>4, <2>5, <2>6, <2>7, <2>8 DEF Work, Answer
<1>3. ASSUME NEW w \in Watchers, NEW S \in SUBSET Undetected, Detect(w, S)
      PROVE  TypeOK'
    BY <1>0, <1>3, OperateTypes, EntriesOfActions DEF Detect, Places
<1>4. CASE ChainGrows
    BY <1>4 DEF ChainGrows, TypeOK
<1>5. CASE Crash
    <2>1. /\ io' = [p \in Procs |-> io'[p]] /\ \A p \in Procs : IsOperation(io'[p])
          /\ queue' = [j \in Jobs |-> queue'[j]] /\ \A j \in Jobs : IsQueue(queue'[j])
        BY <1>5, NoEntriesFacts DEF Crash
    <2>2. pc' \in [Procs -> Places] /\ current_confirmed' \in [Jobs -> Nat]
          /\ recovered' \in [Jobs -> SUBSET Blocks]
        BY <1>5 DEF Crash, Places
    <2> QED BY <1>5, <2>1, <2>2 DEF Crash, TypeOK, Places
<1>6. CASE UNCHANGED vars
    BY <1>6 DEF vars, TypeOK
<1> QED BY <1>1, <1>2, <1>3, <1>4, <1>5, <1>6 DEF Next

\* What an action of run j leaves alone, and where it may leave j.
LEMMA JobMoves ==
    ASSUME TypeOK, NEW j \in Jobs, Prune(j) \/ Work(j) \/ Answer(j), NEW i \in Jobs
    PROVE  /\ i # j => pc'[i] = pc[i] /\ queue'[i] = queue[i]
           /\ AtWork(j)' => queue'[j] = queue[j] /\ (AtWork(j) \/ Waiting(j) # {})
<1> USE DEF AtWork
<1>0. pc \in [Procs -> Places] /\ queue = [q \in Jobs |-> queue[q]] /\ i \in Procs /\ j \in Procs
    BY DEF TypeOK, Procs, Places
<1>1. CASE Prune(j)
    BY <1>0, <1>1 DEF Prune, Operate
<1>2. CASE Select(j) \/ CannotRead(j) \/ Finish(j)
    BY <1>0, <1>2 DEF Select, CannotRead, Finish, Operate
<1>3. CASE MarkRecovering(j) \/ Fetched(j)
    BY <1>0, <1>3 DEF MarkRecovering, Fetched, Operate, Ready, Waiting
<1>4. CASE MarkRecovered(j) \/ AttemptFails(j)
    BY <1>0, <1>4 DEF MarkRecovered, AttemptFails, Operate
<1> QED BY <1>1, <1>2, <1>3, <1>4 DEF Work, Answer

\* The types hold at first.
LEMMA InitTypes == Init => TypeOK
<1> SUFFICES ASSUME Init PROVE TypeOK
    OBVIOUS
<1>1. IsEntries(file)
    BY RecoveryAssumption DEF Init, IsEntries, NewEntry, Statuses
<1>2. io = [p \in Procs |-> io[p]] /\ \A p \in Procs : IsOperation(io[p])
    BY NoEntriesFacts DEF Init
<1>3. queue = [j \in Jobs |-> queue[j]] /\ \A j \in Jobs : IsQueue(queue[j])
    BY NoEntriesFacts DEF Init
<1>4. pc \in [Procs -> Places] /\ current_confirmed \in [Jobs -> Nat]
      /\ recovered \in [Jobs -> SUBSET Blocks] /\ triggered \in [Blocks -> 0 .. 2]
      /\ failures \in [Blocks -> Nat]
    BY DEF Init, Places
<1>5. garbled \in BOOLEAN /\ confirmed \in Nat /\ undetected \subseteq Blocks /\ pruned \subseteq Blocks
    BY RecoveryAssumption DEF Init
<1> QED BY <1>1, <1>2, <1>3, <1>4, <1>5 DEF TypeOK, Places

\* Every step keeps the types, and that a run at work has a block.
LEMMA LocatedKept == Located /\ [Next]_vars => Located'
<1> SUFFICES ASSUME Located, [Next]_vars, NEW i \in Jobs PROVE HasCurrent(i)'
    BY TypesKept DEF Located
<1>0. TypeOK /\ HasCurrent(i) /\ i \in Procs
    BY DEF Located, Procs
<1>1. ASSUME NEW p \in Procs, FileStep(p) \/ OperationFails(p)
      PROVE  HasCurrent(i)'
    <2>1. queue' = queue /\ (pc'[i] = pc[i] \/ pc'[i] = "idle")
        BY <1>0, <1>1 DEF FileStep, Truncate, Write, OperationFails, TypeOK
    <2> QED BY <1>0, <2>1 DEF HasCurrent, AtWork, Waiting
<1>2. ASSUME NEW j \in Jobs, Prune(j) \/ Work(j) \/ Answer(j)
      PROVE  HasCurrent(i)'
    BY <1>0, <1>2, JobMoves DEF HasCurrent, AtWork, Waiting
<1>3. ASSUME NEW w \in Watchers, NEW S \in SUBSET Undetected, Detect(w, S)
      PROVE  HasCurrent(i)'
    <2>1. queue' = queue /\ pc'[i] = pc[i]
        BY <1>0, <1>3, RecoveryAssumption DEF Detect, Operate, TypeOK, Procs
    <2> QED BY <1>0, <2>1 DEF HasCurrent, AtWork, Waiting
<1>4. CASE ChainGrows \/ UNCHANGED vars
    BY <1>0, <1>4 DEF ChainGrows, vars, HasCurrent, AtWork, Waiting
<1>5. CASE Crash
    BY <1>0, <1>5 DEF Crash, HasCurrent, AtWork
<1> QED BY <1>1, <1>2, <1>3, <1>4, <1>5 DEF Next

-----------------------------------------------------------------------------
(* No block is given up early.                                             *)

\* More failures keep what is counted earned.
LEMMA EarnedGrows ==
    ASSUME TypeOK, TypeOK', \A n \in Blocks : failures'[n] >= failures[n],
           NEW E, IsEntries(E), Earned(E, failures)
    PROVE  Earned(E, failures')
<1> SUFFICES ASSUME NEW n \in DOMAIN E
             PROVE  /\ Backed(E[n].retry_count, failures'[n])
                    /\ E[n].status = "Failed" => failures'[n] >= max_retries
    BY DEF Earned
<1>1. n \in Blocks /\ E[n].retry_count \in Nat /\ failures[n] \in Nat /\ failures'[n] \in Nat
    BY DEF IsEntries, TypeOK
<1> QED BY <1>1, RecoveryAssumption DEF Earned, Backed

\* What a run may leave behind in the file, in the operations under way, and in its queue.
LEMMA EarnedStays ==
    ASSUME EarnedInv, Located', \A n \in Blocks : failures'[n] >= failures[n],
           file' = file \/ Earned(file', failures'),
           \A p \in Procs : io'[p].entries = io[p].entries \/ Earned(io'[p].entries, failures'),
           \A j \in Jobs : \A n \in Waiting(j)' :
               \/ n \in Waiting(j) /\ queue'[j][n] = queue[j][n]
               \/ Backed(queue'[j][n], failures'[n])
    PROVE  EarnedInv'
<1>1. TypeOK /\ TypeOK'
    BY DEF EarnedInv, Located
<1>2. Earned(file', failures')
    BY <1>1, EarnedGrows DEF EarnedInv, TypeOK
<1>3. ASSUME NEW p \in Procs PROVE Earned(io'[p].entries, failures')
    <2>1. IsEntries(io[p].entries) /\ Earned(io[p].entries, failures)
        BY <1>1 DEF EarnedInv, TypeOK, IsOperation
    <2> QED BY <1>1, <2>1, EarnedGrows
<1>4. ASSUME NEW j \in Jobs, NEW n \in Waiting(j)' PROVE Backed(queue'[j][n], failures'[n])
    <2>1. CASE n \in Waiting(j) /\ queue'[j][n] = queue[j][n]
        <3>1. n \in Blocks /\ queue[j][n] \in Nat /\ failures[n] \in Nat /\ failures'[n] \in Nat
            BY <1>1, <2>1 DEF TypeOK, IsQueue, Waiting
        <3> QED BY <2>1, <3>1, RecoveryAssumption DEF EarnedInv, Backed
    <2> QED BY <1>4, <2>1
<1> QED BY <1>2, <1>3, <1>4 DEF EarnedInv

\* An operation that a run starts on what it reads in the file.
LEMMA EarnedLoads ==
    ASSUME EarnedInv, Located', NEW p \in Procs, NEW E, IsEntries(E), Earned(E, failures'),
           NEW next \in Places, NEW otherwise \in Places, Operate(p, E, next, otherwise),
           \A n \in Blocks : failures'[n] >= failures[n],
           \A j \in Jobs : \A n \in Waiting(j)' : n \in Waiting(j) /\ queue'[j][n] = queue[j][n]
    PROVE  EarnedInv'
<1>1. TypeOK
    BY DEF EarnedInv, Located
<1>2. /\ file' = file /\ \A q \in Procs \ {p} : io'[q] = io[q]
      /\ io'[p] = io[p] \/ io'[p] = [step |-> "loaded", entries |-> E]
    BY <1>1, OperateFacts
<1>3. io'[p].entries = io[p].entries \/ Earned(io'[p].entries, failures')
    <2>1. CASE io'[p] = io[p]
        BY <2>1
    <2>2. CASE io'[p] = [step |-> "loaded", entries |-> E]
        BY <2>2
    <2> QED BY <1>2, <2>1, <2>2
<1>4. \A q \in Procs : io'[q].entries = io[q].entries \/ Earned(io'[q].entries, failures')
    BY <1>2, <1>3
<1> QED BY <1>2, <1>4, EarnedStays

\* What is left of the file, added to it, or marked in it is earned.
LEMMA EarnedEntries ==
    ASSUME EarnedInv
    PROVE  /\ \A S : Earned(Without(file, S), failures)
           /\ \A S \in SUBSET Undetected : Earned(WithNew(file, S), failures)
           /\ \A n : \A status \in {"Recovering", "Recovered"} :
                  Earned(Updated(file, n, status), failures)
<1>1. /\ TypeOK /\ IsEntries(file) /\ Earned(file, failures)
      /\ \A n \in Blocks : failures[n] \in Nat
    BY DEF EarnedInv, Located, TypeOK
<1>2. ASSUME NEW S PROVE Earned(Without(file, S), failures)
    BY <1>1 DEF Earned, Without, Restrict
<1>3. ASSUME NEW S \in SUBSET Undetected PROVE Earned(WithNew(file, S), failures)
    <2>1. S \subseteq Blocks
        BY RecoveryAssumption
    <2> DEFINE E == WithNew(file, S)
    <2>2. /\ DOMAIN E = DOMAIN file \cup S
          /\ \A n \in DOMAIN file : E[n] = file[n]
          /\ \A n \in S \ DOMAIN file : E[n].status = "Pending" /\ E[n].retry_count = 0
        BY DEF WithNew, NewEntry
    <2>3. \A n \in S : failures[n] \in Nat
        BY <1>1, <2>1
    <2> HIDE DEF E
    <2>4. Earned(E, failures)
        BY <1>1, <2>2, <2>3 DEF Earned, Backed
    <2> QED BY <2>4 DEF E
<1>4. ASSUME NEW n, NEW status \in {"Recovering", "Recovered"}
      PROVE  Earned(Updated(file, n, status), failures)
    BY <1>1 DEF Earned, Updated, IsEntries
<1> QED BY <1>2, <1>3, <1>4

\* The attempt at a block that has failed: it is counted, and the last one if the count at
\* selection says so.
LEMMA EarnedAttempt ==
    ASSUME EarnedInv, Located', NEW j \in Jobs, AttemptFails(j)
    PROVE  EarnedInv'
<1> DEFINE n == Current(j)
           status == IF queue[j][n] + 1 >= max_retries THEN "Failed" ELSE "Pending"
           E == Updated(file, n, status)
<1>1. TypeOK /\ TypeOK' /\ j \in Procs /\ n \in Waiting(j) /\ n \in Blocks /\ IsEntries(file)
    BY CurrentIsWaiting DEF EarnedInv, Located, HasCurrent, AtWork, AttemptFails, Ready, Procs, TypeOK
<1>2. /\ failures[n] \in Nat /\ queue[j][n] \in Nat /\ max_retries \in Nat
      /\ Backed(queue[j][n], failures[n])
    BY <1>1, RecoveryAssumption DEF TypeOK, IsQueue, Waiting, EarnedInv
<1>3. failures' = [failures EXCEPT ![n] = IF @ < max_retries THEN @ + 1 ELSE @]
    BY DEF AttemptFails, Fails
<1>4. failures'[n] = (IF failures[n] < max_retries THEN failures[n] + 1 ELSE failures[n])
      /\ \A m \in Blocks \ {n} : failures'[m] = failures[m]
    BY <1>1, <1>3 DEF TypeOK
<1>5. \A m \in Blocks : failures[m] \in Nat /\ failures'[m] >= failures[m]
    BY <1>1, <1>2, <1>4 DEF TypeOK
<1>6. Operate(j, E, "attempting", "attempting") /\ queue' = [queue EXCEPT ![j] = Without(@, {n})]
    BY DEF AttemptFails, SelectedCount
<1>7. status \in Statuses /\ (status = "Failed" => queue[j][n] + 1 >= max_retries)
    BY DEF Statuses
<1> HIDE DEF status
<1>8. /\ IsEntries(E) /\ DOMAIN E = DOMAIN file /\ \A m \in DOMAIN E \ {n} : E[m] = file[m]
      /\ n \in DOMAIN E => /\ E[n].status = status
                           /\ E[n].retry_count <= file[n].retry_count + 1
    <2>1. n \in DOMAIN file => file[n].retry_count \in Nat
        BY <1>1 DEF IsEntries
    <2> QED BY <1>1, <1>7, <2>1, UpdatedFacts
<1> HIDE DEF E, n
<1>9. Earned(E, failures')
    <2>1. Earned(file, failures')
        BY <1>1, <1>5, EarnedGrows DEF EarnedInv
    <2>2. ASSUME n \in DOMAIN E
          PROVE  Backed(E[n].retry_count, failures'[n]) /\ (status = "Failed" => failures'[n] >= max_retries)
        <3>1. file[n].retry_count \in Nat /\ Backed(file[n].retry_count, failures[n])
            BY <1>8, <1>1, <2>2 DEF EarnedInv, Earned, IsEntries
        <3>2. E[n].retry_count \in Nat
            BY <1>8, <2>2 DEF IsEntries
        <3> QED BY <1>2, <1>4, <1>7, <1>8, <2>2, <3>1, <3>2 DEF Backed
    <2> QED BY <1>8, <2>1, <2>2 DEF Earned
<1>10. \A i \in Jobs : \A m \in Waiting(i)' : m \in Waiting(i) /\ queue'[i][m] = queue[i][m]
    BY <1>1, <1>6 DEF TypeOK, Waiting, Without, Restrict
<1> QED BY <1>1, <1>5, <1>6, <1>8, <1>9, <1>10, EarnedLoads DEF Places

\* What a run of the job does besides.
LEMMA EarnedJob ==
    ASSUME EarnedInv, Located', NEW j \in Jobs, Prune(j) \/ Work(j) \/ Fetched(j)
    PROVE  EarnedInv'
<1>1. /\ TypeOK /\ j \in Procs /\ IsEntries(file) /\ failures' = failures
      /\ \A n \in Blocks : failures'[n] >= failures[n]
    <2>1. TypeOK /\ j \in Procs /\ IsEntries(file) /\ \A n \in Blocks : failures[n] \in Nat
        BY DEF EarnedInv, Located, TypeOK, Procs
    <2>2. failures' = failures
        BY DEF Prune, Work, Fetched, MarkRecovering, MarkRecovered, Finish, Select, CannotRead
    <2> QED BY <2>1, <2>2
<1>2. CASE UNCHANGED <<file, io, queue>>
    BY <1>1, <1>2, EarnedStays DEF Waiting
<1>3. ASSUME NEW S, NEW next \in Places, NEW otherwise \in Places, queue' = queue,
             Operate(j, Without(file, S), next, otherwise)
      PROVE  EarnedInv'
    BY <1>1, <1>3, EarnedEntries, EarnedLoads, WithoutFacts DEF Waiting
<1>4. ASSUME NEW n, NEW status \in {"Recovering", "Recovered"}, NEW next \in Places,
             NEW otherwise \in Places, Operate(j, Updated(file, n, status), next, otherwise),
             queue' = queue \/ queue' = [queue EXCEPT ![j] = Without(@, {n})]
      PROVE  EarnedInv'
    <2>1. IsEntries(Updated(file, n, status)) /\ Earned(Updated(file, n, status), failures')
        BY <1>1, EarnedEntries, UpdatedFacts DEF Statuses
    <2>2. \A i \in Jobs : \A m \in Waiting(i)' : m \in Waiting(i) /\ queue'[i][m] = queue[i][m]
        BY <1>1, <1>4 DEF TypeOK, Waiting, Without, Restrict
    <2> QED BY <1>1, <1>4, <2>1, <2>2, EarnedLoads
<1>5. CASE Select(j)
    <2> DEFINE selected == Oldest(Eligible(file, current_confirmed[j]))
    <2>1. queue' = [queue EXCEPT ![j] = [n \in selected |-> file[n].retry_count]]
          /\ UNCHANGED <<file, io>>
        BY <1>5 DEF Select
    <2>2. selected \subseteq DOMAIN file
        BY DEF Oldest, Eligible
    <2> HIDE DEF selected
    <2>3. \A i \in Jobs : \A n \in Waiting(i)' :
              \/ n \in Waiting(i) /\ queue'[i][n] = queue[i][n]
              \/ n \in DOMAIN file /\ queue'[i][n] = file[n].retry_count
        BY <1>1, <2>1, <2>2 DEF TypeOK, Waiting
    <2>4. \A n \in DOMAIN file : Backed(file[n].retry_count, failures'[n])
        BY <1>1 DEF EarnedInv, Earned
    <2>5. \A i \in Jobs : \A n \in Waiting(i)' :
              \/ n \in Waiting(i) /\ queue'[i][n] = queue[i][n]
              \/ Backed(queue'[i][n], failures'[n])
        BY <2>3, <2>4
    <2> QED BY <1>1, <2>1, <2>5, EarnedStays
<1>6. CASE Prune(j)
    BY <1>2, <1>3, <1>6 DEF Prune, Places
<1>7. CASE MarkRecovering(j) \/ MarkRecovered(j)
    BY <1>4, <1>7 DEF MarkRecovering, MarkRecovered, Places
<1>8. CASE Finish(j)
    BY <1>2, <1>3, <1>8 DEF Finish, Places
<1>9. CASE CannotRead(j) \/ Fetched(j)
    BY <1>2, <1>9 DEF CannotRead, Fetched
<1> QED BY <1>5, <1>6, <1>7, <1>8, <1>9 DEF Work

\* What any run writes, finds missing, or leaves when the process dies.
LEMMA EarnedRest ==
    ASSUME EarnedInv, Located',
           \/ \E p \in Procs : FileStep(p) \/ OperationFails(p)
           \/ \E w \in Watchers, S \in SUBSET Undetected : Detect(w, S)
           \/ ChainGrows \/ Crash \/ UNCHANGED vars
    PROVE  EarnedInv'
<1>1. TypeOK /\ IsEntries(file) /\ \A n \in Blocks : failures[n] \in Nat
    BY DEF EarnedInv, Located, TypeOK
<1>2. \A f : Earned(NoEntries, f) /\ Earned(NoOperation.entries, f)
    BY NoEntriesFacts DEF Earned, NoOperation
<1>3. ASSUME NEW p \in Procs, FileStep(p) \/ OperationFails(p) PROVE EarnedInv'
    <2>1. UNCHANGED <<failures, queue>>
          /\ (file' = file \/ file' = NoEntries \/ file' = io[p].entries)
        BY <1>3 DEF FileStep, Truncate, Write, OperationFails
    <2>2. \A q \in Procs : io'[q].entries = io[q].entries \/ io'[q] = NoOperation
        BY <1>1, <1>3, OperationFacts DEF FileStep
    <2>3. file' = file \/ Earned(file', failures')
        BY <1>2, <2>1 DEF EarnedInv
    <2> QED BY <1>1, <1>2, <2>1, <2>2, <2>3, EarnedStays DEF Waiting
<1>4. ASSUME NEW w \in Watchers, NEW S \in SUBSET Undetected, Detect(w, S) PROVE EarnedInv'
    <2>1. w \in Procs /\ Operate(w, WithNew(file, S), "idle", "idle") /\ UNCHANGED <<failures, queue>>
        BY <1>4 DEF Detect, Procs
    <2> QED BY <1>1, <2>1, EarnedEntries, EarnedLoads, EntriesOfActions DEF Places, Waiting
<1>5. CASE ChainGrows \/ UNCHANGED vars
    BY <1>1, <1>5, EarnedStays DEF ChainGrows, vars, Waiting
<1>6. CASE Crash
    <2>1. /\ UNCHANGED <<file, failures>> /\ \A p \in Procs : io'[p] = NoOperation
          /\ \A j \in Jobs : Waiting(j)' = {}
        BY <1>6, NoEntriesFacts DEF Crash, Waiting
    <2> QED BY <1>1, <1>2, <2>1, EarnedStays
<1> QED BY <1>3, <1>4, <1>5, <1>6

\* Every attempt that any entry counts has failed, whatever runs overlap, fails or dies.
THEOREM EarnedInvariance == Spec => []EarnedInv
<1>1. Init => EarnedInv
    <2> SUFFICES ASSUME Init PROVE EarnedInv
        OBVIOUS
    <2>1. TypeOK /\ \A j \in Jobs : Waiting(j) = {} /\ pc[j] = "idle"
        BY InitTypes, NoEntriesFacts DEF Init, Waiting, Procs
    <2>2. Earned(file, failures)
        BY RecoveryAssumption DEF Init, Earned, Backed, NewEntry
    <2>3. \A p \in Procs : Earned(io[p].entries, failures)
        BY NoEntriesFacts DEF Init, Earned, NoOperation
    <2> QED BY <2>1, <2>2, <2>3 DEF EarnedInv, Located, HasCurrent, AtWork
<1>2. EarnedInv /\ [Next]_vars => EarnedInv'
    <2> SUFFICES ASSUME EarnedInv, [Next]_vars PROVE EarnedInv'
        OBVIOUS
    <2>1. Located'
        BY LocatedKept DEF EarnedInv
    <2> QED BY <2>1, EarnedAttempt, EarnedJob, EarnedRest DEF Next, Answer
<1> QED BY <1>1, <1>2, PTL DEF Spec

\* An entry says Failed only after max_retries attempts at its block have failed
\* (GivenUpOnlyAfterMaxRetries), for any number of overlapping runs of the job and of the
\* watcher, failing operations and crashes.
THEOREM NoneGivenUpEarly == Spec => []GivenUpOnlyAfterMaxRetries
<1>1. EarnedInv => GivenUpOnlyAfterMaxRetries
    BY DEF EarnedInv, Earned, GivenUpOnlyAfterMaxRetries
<1> QED BY <1>1, EarnedInvariance, PTL

-----------------------------------------------------------------------------
(* The retry bound.                                                        *)

\* The counts are numbers.
LEMMA Counts ==
    ASSUME TypeOK
    PROVE  /\ \A n \in DOMAIN file : file[n].retry_count \in Nat
           /\ \A p \in Procs : \A n \in DOMAIN io[p].entries : io[p].entries[n].retry_count \in Nat
           /\ \A j \in Jobs : \A n \in Waiting(j) : queue[j][n] \in Nat
           /\ max_retries \in Nat
BY RecoveryAssumption DEF TypeOK, IsEntries, IsOperation, IsQueue, Waiting

\* With one job all others who change the file are runs of the watcher.
LEMMA TwoKinds ==
    ASSUME OneJob, NEW j \in Jobs
    PROVE  /\ \A p \in Procs : p = j \/ p \in Watchers
           /\ \A q \in Jobs : q = j
           /\ j \in Procs /\ j \notin Watchers /\ Watchers \subseteq Procs
BY RecoveryAssumption DEF OneJob, Procs

\* A step of the job that does not change the file, selects nothing, and loads at most
\* entries that are ahead of the file.
LEMMA JobKeepsRacing ==
    ASSUME OneJob, RacingInv, Located', NEW j \in Jobs, file' = file,
           \A n \in Waiting(j)' : n \in Waiting(j) /\ queue'[j][n] = queue[j][n],
           \A w \in Watchers : io'[w] = io[w],
           \/ io'[j] = io[j] \/ io'[j] = NoOperation
           \/ /\ DOMAIN io'[j].entries \subseteq DOMAIN file
              /\ CountsAtMost(file, io'[j].entries)
              /\ Bounded(io'[j].entries)
              /\ \A n \in DOMAIN io'[j].entries \cap Waiting(j)' :
                     io'[j].entries[n].retry_count <= queue'[j][n]
    PROVE  RacingInv'
<1>0. TypeOK /\ TypeOK'
    BY DEF RacingInv, Located
<1>1. Bounded(file') /\ \A p \in Procs : Bounded(io'[p].entries)
    BY TwoKinds, NoEntriesFacts DEF RacingInv, Bounded, NoOperation
<1>2. WatcherIsBehind'
    BY DEF RacingInv, WatcherIsBehind
<1>3. JobIsAhead(j)'
    <2>1. CASE io'[j] = io[j] \/ io'[j] = NoOperation
        BY <2>1 DEF RacingInv, JobIsAhead, NoOperation
    <2>2. CASE /\ DOMAIN io'[j].entries \subseteq DOMAIN file
               /\ CountsAtMost(file, io'[j].entries)
        <3> SUFFICES ASSUME NEW w \in Watchers, io[w].step # "none"
                     PROVE  CountsAtMost(io[w].entries, io'[j].entries)
            BY <2>2 DEF JobIsAhead
        <3>1. CountsAtMost(io[w].entries, file)
            BY DEF RacingInv, WatcherIsBehind
        <3>2. w \in Procs /\ j \in Procs
            BY TwoKinds
        <3>3. \A n \in DOMAIN io'[j].entries : io'[j].entries[n].retry_count \in Nat
            BY <1>0, <3>2 DEF TypeOK, IsOperation, IsEntries
        <3> QED BY <1>0, <2>2, <3>1, <3>2, <3>3, Counts DEF CountsAtMost
    <2> QED BY <2>1, <2>2
<1>4. SelectionHolds(j)'
    <2>1. \A n \in Waiting(j)' : queue'[j][n] < max_retries
        BY DEF RacingInv, SelectionHolds
    <2>2. AsSelected(file, j)'
        BY DEF RacingInv, SelectionHolds, AsSelected
    <2>3. \A w \in Watchers : io'[w].step # "none" => AsSelected(io[w].entries, j)'
        BY TwoKinds DEF RacingInv, SelectionHolds, AsSelected
    <2>4. io'[j].step # "none" => \A n \in DOMAIN io'[j].entries \cap Waiting(j)' :
                                      io'[j].entries[n].retry_count <= queue'[j][n]
        <3>1. CASE io'[j] = io[j]
            <4>1. io[j].step # "none" => AsSelected(io[j].entries, j)
                BY TwoKinds DEF RacingInv, SelectionHolds
            <4> QED BY <3>1, <4>1 DEF AsSelected
        <3> QED BY <3>1 DEF NoOperation
    <2> QED BY <2>1, <2>2, <2>3, <2>4, TwoKinds DEF SelectionHolds, AsSelected
<1> QED BY <1>1, <1>2, <1>3, <1>4, TwoKinds DEF RacingInv

\* An operation that the job starts.
LEMMA JobLoadsRacing ==
    ASSUME OneJob, RacingInv, Located', NEW j \in Jobs, NEW E, IsEntries(E),
           NEW next \in Places, NEW otherwise \in Places, Operate(j, E, next, otherwise),
           \A n \in Waiting(j)' : n \in Waiting(j) /\ queue'[j][n] = queue[j][n],
           DOMAIN E \subseteq DOMAIN file, CountsAtMost(file, E), Bounded(E),
           \A n \in DOMAIN E \cap Waiting(j)' : E[n].retry_count <= queue'[j][n]
    PROVE  RacingInv'
<1>1. TypeOK /\ j \in Procs /\ Watchers \subseteq Procs /\ j \notin Watchers
    BY TwoKinds DEF RacingInv, Located
<1>2. file' = file /\ (\A w \in Watchers : io'[w] = io[w])
      /\ (io'[j] = io[j] \/ io'[j] = [step |-> "loaded", entries |-> E])
    BY <1>1, OperateFacts
<1> QED BY <1>2, JobKeepsRacing

\* The job removes entries.
LEMMA WithoutRacing ==
    ASSUME OneJob, RacingInv, Located', NEW j \in Jobs, NEW S,
           NEW next \in Places, NEW otherwise \in Places,
           Operate(j, Without(file, S), next, otherwise), queue' = queue
    PROVE  RacingInv'
<1> DEFINE E == Without(file, S)
<1>1. TypeOK /\ j \in Procs
    BY TwoKinds DEF RacingInv, Located
<1>2. IsEntries(E) /\ DOMAIN E \subseteq DOMAIN file /\ \A n \in DOMAIN E : E[n] = file[n]
    BY <1>1, EntriesOfActions DEF Without, Restrict
<1>3. CountsAtMost(file, E) /\ Bounded(E)
    BY <1>1, <1>2, Counts DEF CountsAtMost, Bounded, RacingInv
<1>4. \A n \in DOMAIN E \cap Waiting(j)' : E[n].retry_count <= queue'[j][n]
    BY <1>2 DEF RacingInv, SelectionHolds, AsSelected, Waiting
<1>5. \A n \in Waiting(j)' : n \in Waiting(j) /\ queue'[j][n] = queue[j][n]
    BY DEF Waiting
<1> HIDE DEF E
<1> QED BY <1>2, <1>3, <1>4, <1>5, JobLoadsRacing DEF E

\* The job updates its entry: it counts an attempt only when it is done with the block.
LEMMA UpdatedRacing ==
    ASSUME OneJob, RacingInv, Located', NEW j \in Jobs, NEW status \in Statuses, Waiting(j) # {},
           NEW next \in Places, NEW otherwise \in Places,
           Operate(j, Updated(file, Current(j), status), next, otherwise),
           \/ queue' = queue /\ status \notin {"Pending", "Failed"}
           \/ queue' = [queue EXCEPT ![j] = Without(@, {Current(j)})]
    PROVE  RacingInv'
<1> DEFINE n == Current(j)
           E == Updated(file, n, status)
<1>1. TypeOK /\ j \in Procs /\ n \in Waiting(j) /\ IsEntries(file)
    BY TwoKinds, CurrentIsWaiting, EntriesOfActions DEF RacingInv, Located
<1>2. IsEntries(E) /\ DOMAIN E = DOMAIN file /\ (\A m \in DOMAIN file \ {n} : E[m] = file[m])
      /\ (n \in DOMAIN file => E[n].retry_count
              = file[n].retry_count + IF status \in {"Pending", "Failed"} THEN 1 ELSE 0)
    BY <1>1, UpdatedFacts
<1>3. \A m \in Waiting(j)' : /\ m \in Waiting(j) /\ queue'[j][m] = queue[j][m]
                             /\ m = n => status \notin {"Pending", "Failed"}
    <2>1. CASE queue' = queue /\ status \notin {"Pending", "Failed"}
        BY <2>1 DEF Waiting
    <2>2. CASE queue' = [queue EXCEPT ![j] = Without(@, {n})]
        <3>1. queue'[j] = Without(queue[j], {n})
            BY <1>1, <2>2 DEF TypeOK
        <3> QED BY <3>1 DEF Waiting, Without, Restrict
    <2> QED BY <2>1, <2>2
<1>4. CountsAtMost(file, E)
    BY <1>1, <1>2, Counts DEF CountsAtMost
<1>5. Bounded(E)
    <2>1. n \in DOMAIN file => file[n].retry_count <= queue[j][n] /\ queue[j][n] < max_retries
        BY <1>1 DEF RacingInv, SelectionHolds, AsSelected
    <2>2. \A m \in DOMAIN file : file[m].retry_count <= max_retries
        BY DEF RacingInv, Bounded
    <2>3. n \in DOMAIN E => E[n].retry_count <= max_retries
        BY <1>1, <1>2, <2>1, Counts
    <2> QED BY <1>2, <2>2, <2>3 DEF Bounded
<1>6. \A m \in DOMAIN E \cap Waiting(j)' : E[m].retry_count <= queue'[j][m]
    <2> SUFFICES ASSUME NEW m \in DOMAIN E \cap Waiting(j)' PROVE E[m].retry_count <= queue'[j][m]
        OBVIOUS
    <2>1. m \in DOMAIN file /\ m \in Waiting(j) /\ queue'[j][m] = queue[j][m]
          /\ (m = n => status \notin {"Pending", "Failed"})
        BY <1>2, <1>3
    <2>2. E[m].retry_count = file[m].retry_count
        BY <1>1, <1>2, <2>1, Counts
    <2> QED BY <2>1, <2>2 DEF RacingInv, SelectionHolds, AsSelected
<1> HIDE DEF E, n
<1> QED BY <1>2, <1>3, <1>4, <1>5, <1>6, JobLoadsRacing DEF E, n

\* The job selects entries with their counts.
LEMMA SelectRacing ==
    ASSUME OneJob, RacingInv, Located', NEW j \in Jobs, Select(j)
    PROVE  RacingInv'
<1> DEFINE selected == Oldest(Eligible(file, current_confirmed[j]))
<1>1. TypeOK /\ io[j].step = "none" /\ UNCHANGED <<file, io>>
    BY DEF RacingInv, Located, Select, Ready
<1>2. \A n \in Waiting(j)' : /\ n \in DOMAIN file /\ file[n].retry_count < max_retries
                             /\ queue'[j][n] = file[n].retry_count
    <2>1. queue' = [queue EXCEPT ![j] = [n \in selected |-> file[n].retry_count]]
        BY DEF Select
    <2>2. queue'[j] = [n \in selected |-> file[n].retry_count]
        BY <1>1, <2>1 DEF TypeOK
    <2> QED BY <2>2 DEF Waiting, Oldest, Eligible
<1>3. SelectionHolds(j)'
    <2>1. AsSelected(file, j)'
        BY <1>1, <1>2, Counts DEF AsSelected
    <2>2. \A w \in Watchers : io[w].step # "none" => AsSelected(io[w].entries, j)'
        BY <1>1, <1>2 DEF RacingInv, WatcherIsBehind, CountsAtMost, AsSelected
    <2> QED BY <1>1, <1>2, <2>1, <2>2, TwoKinds DEF SelectionHolds, AsSelected
<1> QED BY <1>1, <1>3, TwoKinds DEF RacingInv, Bounded, WatcherIsBehind, JobIsAhead, CountsAtMost

\* Any action of the job.
LEMMA JobActionRacing ==
    ASSUME OneJob, RacingInv, Located', NEW j \in Jobs, Prune(j) \/ Work(j) \/ Answer(j)
    PROVE  RacingInv'
<1>0. TypeOK /\ HasCurrent(j)
    BY DEF RacingInv, Located
<1> USE DEF Places, Statuses
<1>1. CASE UNCHANGED <<file, io>> /\ queue' = queue
    BY <1>1, JobKeepsRacing DEF Waiting
<1>2. CASE Prune(j)
    <2>1. CASE {n \in DOMAIN file : n < MinBlock(confirmed)} = {}
        BY <1>1, <1>2, <2>1 DEF Prune
    <2>2. CASE {n \in DOMAIN file : n < MinBlock(confirmed)} # {}
        BY <1>2, <2>2, WithoutRacing DEF Prune
    <2> QED BY <2>1, <2>2
<1>3. CASE MarkRecovering(j)
    BY <1>3, UpdatedRacing DEF MarkRecovering
<1>4. CASE MarkRecovered(j)
    <2>1. Waiting(j) # {}
        BY <1>0, <1>4 DEF HasCurrent, AtWork, MarkRecovered, Ready
    <2> QED BY <1>4, <2>1, UpdatedRacing DEF MarkRecovered
<1>5. CASE AttemptFails(j)
    <2>1. Waiting(j) # {}
        BY <1>0, <1>5 DEF HasCurrent, AtWork, AttemptFails, Ready
    <2> QED BY <1>5, <2>1, UpdatedRacing DEF AttemptFails
<1>6. CASE Finish(j)
    <2>1. CASE recovered[j] = {}
        BY <1>1, <1>6, <2>1 DEF Finish
    <2>2. CASE recovered[j] # {}
        BY <1>6, <2>2, WithoutRacing DEF Finish
    <2> QED BY <2>1, <2>2
<1>7. CASE Fetched(j) \/ CannotRead(j)
    BY <1>1, <1>7 DEF Fetched, CannotRead
<1> QED BY <1>2, <1>3, <1>4, <1>5, <1>6, <1>7, SelectRacing DEF Work, Answer

\* A step of an operation on the file, of the job or the watcher, or its failure.
LEMMA FileStepRacing ==
    ASSUME OneJob, OneWatcher, RacingInv, Located', NEW j \in Jobs, NEW p \in Procs,
           FileStep(p) \/ OperationFails(p)
    PROVE  RacingInv'
<1>0. /\ TypeOK /\ j \notin Watchers /\ j \in Procs /\ Watchers \subseteq Procs
      /\ p = j \/ Watchers = {p}
    BY TwoKinds DEF RacingInv, Located, OneWatcher
<1>1. queue' = queue /\ \A q \in Procs \ {p} : io'[q] = io[q]
    BY <1>0, OperationFacts DEF FileStep, Truncate, Write, OperationFails
<1>2. CASE Truncate(p)
    <2>1. file' = NoEntries /\ DOMAIN file' = {} /\ io[p].step # "none"
        BY <1>2, NoEntriesFacts DEF Truncate
    <2>2. io'[p].step = "truncated" /\ io'[p].entries = io[p].entries
        BY <1>0, <1>2, OperationFacts
    <2>3. \A q \in Procs : io'[q].entries = io[q].entries /\ (io'[q].step # "none" <=> io[q].step # "none")
        BY <1>1, <2>1, <2>2
    <2>4. Bounded(file') /\ (\A q \in Procs : Bounded(io'[q].entries)) /\ WatcherIsBehind'
        BY <2>1, <2>3 DEF RacingInv, Bounded, WatcherIsBehind, CountsAtMost
    <2>5. JobIsAhead(j)'
        BY <1>0, <2>1, <2>3 DEF RacingInv, JobIsAhead, CountsAtMost
    <2>6. SelectionHolds(j)'
        BY <1>0, <1>1, <2>1, <2>3 DEF RacingInv, SelectionHolds, AsSelected, Waiting
    <2> QED BY <2>4, <2>5, <2>6, TwoKinds DEF RacingInv
<1>3. CASE Write(p)
    <2>1. file' = io[p].entries /\ io[p].step # "none" /\ io'[p] = NoOperation
        BY <1>0, <1>3, OperationFacts DEF Write
    <2>2. Bounded(file') /\ \A q \in Procs : Bounded(io'[q].entries)
        BY <1>1, <2>1, NoEntriesFacts DEF RacingInv, Bounded, NoOperation
    <2>3. WatcherIsBehind' /\ JobIsAhead(j)'
        BY <1>0, <1>1, <2>1 DEF RacingInv, WatcherIsBehind, JobIsAhead, NoOperation
    <2>4. SelectionHolds(j)'
        BY <1>0, <1>1, <2>1 DEF RacingInv, SelectionHolds, AsSelected, Waiting, NoOperation
    <2> QED BY <2>2, <2>3, <2>4, TwoKinds DEF RacingInv
<1>4. CASE OperationFails(p)
    <2>1. file' = file /\ io'[p] = NoOperation
        BY <1>0, <1>4, OperationFacts DEF OperationFails
    <2>2. Bounded(file') /\ \A q \in Procs : Bounded(io'[q].entries)
        BY <1>1, <2>1, NoEntriesFacts DEF RacingInv, Bounded, NoOperation
    <2>3. WatcherIsBehind' /\ JobIsAhead(j)'
        BY <1>0, <1>1, <2>1 DEF RacingInv, WatcherIsBehind, JobIsAhead, NoOperation
    <2>4. SelectionHolds(j)'
        BY <1>0, <1>1, <2>1 DEF RacingInv, SelectionHolds, AsSelected, Waiting, NoOperation
    <2> QED BY <2>2, <2>3, <2>4, TwoKinds DEF RacingInv
<1> QED BY <1>2, <1>3, <1>4 DEF FileStep

\* The watcher reads the file: what it adds has not been attempted.
LEMMA DetectRacing ==
    ASSUME OneJob, RacingInv, Located', NEW j \in Jobs, NEW w \in Watchers, NEW S \in SUBSET Undetected, Detect(w, S)
    PROVE  RacingInv'
<1> DEFINE E == WithNew(file, S)
<1>0. TypeOK /\ j \notin Watchers /\ j \in Procs /\ Watchers \subseteq Procs
    BY TwoKinds DEF RacingInv, Located
<1>1. /\ IsEntries(E) /\ DOMAIN E = DOMAIN file \cup S
      /\ \A n \in DOMAIN E : E[n].retry_count = IF n \in DOMAIN file THEN file[n].retry_count ELSE 0
    BY <1>0, EntriesOfActions DEF WithNew, NewEntry
<1>2. Operate(w, E, "idle", "idle") /\ queue' = queue
    BY DEF Detect
<1> HIDE DEF E
<1>3. /\ file' = file /\ io'[j] = io[j]
      /\ \A q \in Watchers \ {w} : io'[q] = io[q]
      /\ io'[w] = io[w] \/ io'[w] = [step |-> "loaded", entries |-> E]
    BY <1>0, <1>1, <1>2, OperateFacts DEF Places
<1>4. CountsAtMost(E, file) /\ Bounded(E) /\ AsSelected(E, j)
    <2>1. CountsAtMost(E, file)
        BY <1>0, <1>1, Counts DEF CountsAtMost
    <2>2. Bounded(E)
        BY <1>0, <1>1, Counts DEF Bounded, RacingInv
    <2>3. AsSelected(E, j)
        BY <1>0, <1>1, Counts DEF AsSelected, SelectionHolds, RacingInv
    <2> QED BY <2>1, <2>2, <2>3
<1>5. io[j].step # "none" => CountsAtMost(E, io[j].entries)
    BY <1>0, <1>1, Counts DEF RacingInv, JobIsAhead, CountsAtMost
<1>6. Bounded(file') /\ (\A q \in Procs : Bounded(io'[q].entries)) /\ WatcherIsBehind' /\ JobIsAhead(j)'
    BY <1>3, <1>4, <1>5, TwoKinds DEF RacingInv, WatcherIsBehind, JobIsAhead
<1>7. SelectionHolds(j)'
    BY <1>2, <1>3, <1>4, TwoKinds DEF RacingInv, SelectionHolds, AsSelected, Waiting
<1> QED BY <1>6, <1>7, TwoKinds DEF RacingInv

\* What neither does: the chain grows, the process dies.
LEMMA OutsideRacing ==
    ASSUME OneJob, RacingInv, Located', NEW j \in Jobs, ChainGrows \/ Crash \/ UNCHANGED vars
    PROVE  RacingInv'
<1>1. CASE Crash
    BY <1>1, NoEntriesFacts, TwoKinds
       DEF Crash, RacingInv, Bounded, NoOperation, WatcherIsBehind, JobIsAhead, SelectionHolds,
           AsSelected, Waiting
<1>2. CASE ChainGrows \/ UNCHANGED vars
    BY <1>2, JobKeepsRacing DEF ChainGrows, vars, Waiting
<1> QED BY <1>1, <1>2

\* The invariant of the race of one job run with one of the watcher holds, whatever the
\* watcher writes when, and whatever fails.
THEOREM RacingInvariance == OneJob /\ OneWatcher => (Spec => []RacingInv)
<1> SUFFICES ASSUME OneJob, OneWatcher PROVE Spec => []RacingInv
    OBVIOUS
<1>0. PICK j \in Jobs : TRUE
    BY DEF OneJob
<1>1. Init => RacingInv
    <2> SUFFICES ASSUME Init PROVE RacingInv
        OBVIOUS
    <2>1. TypeOK
        BY InitTypes
    <2>2. Bounded(file) /\ \A p \in Procs : Bounded(io[p].entries)
        BY NoEntriesFacts, RecoveryAssumption DEF Init, Bounded, NewEntry, NoOperation
    <2>3. WatcherIsBehind /\ \A i \in Jobs : JobIsAhead(i) /\ SelectionHolds(i) /\ HasCurrent(i)
        BY NoEntriesFacts DEF Init, WatcherIsBehind, JobIsAhead, SelectionHolds, AsSelected, HasCurrent,
                              AtWork, Waiting, NoOperation, Procs
    <2> QED BY <2>1, <2>2, <2>3 DEF RacingInv, Located
<1>2. RacingInv /\ [Next]_vars => RacingInv'
    <2> SUFFICES ASSUME RacingInv, [Next]_vars PROVE RacingInv'
        OBVIOUS
    <2>1. Located'
        BY LocatedKept DEF RacingInv
    <2> QED BY <1>0, <2>1, FileStepRacing, JobActionRacing, DetectRacing, OutsideRacing DEF Next
<1> QED BY <1>1, <1>2, PTL DEF Spec

\* While neither the job's runs nor the watcher's overlap, no entry counts more failed attempts
\* than max_retries (RetryBound), although whether an attempt was the last is decided by a
\* count read long before, and the watcher may meanwhile write back older entries.  Nothing in
\* the code keeps the runs from overlapping: with two of either kind the bound does not hold,
\* as what one will write may be ahead of what the other writes first.
THEOREM RetriesAreBounded == OneJob /\ OneWatcher => (Spec => []RetryBound)
<1>1. RacingInv => RetryBound
    BY DEF RacingInv, Bounded, RetryBound
<1> QED BY <1>1, RacingInvariance, PTL

-----------------------------------------------------------------------------
(* A single trigger for each block.                                        *)

\* The file as a run that is alone finds it.
LEMMA AloneFacts ==
    ASSUME OneJob, AloneInv, NEW j \in Jobs
    PROVE  /\ TypeOK /\ HasCurrent(j) /\ j \in Procs
           /\ io[j].step = "none" => Target(j) = file
           /\ \A n \in Blocks : triggered[n] \in 0 .. 1
           /\ MarksCurrent(j) /\ TriggeredIsMarked(Target(j))
<1>1. TypeOK /\ HasCurrent(j) /\ j \in Procs
    BY DEF AloneInv, Located, Procs
<1>2. \A n \in Blocks : triggered[n] \in 0 .. 1
    BY <1>1 DEF AloneInv, TriggeredOnce, TypeOK
<1> QED BY <1>1, <1>2 DEF AloneInv, Target

\* A step of the job that leaves the file to others.
LEMMA AloneMove ==
    ASSUME OneJob, AloneInv, Located', NEW j \in Jobs,
           UNCHANGED <<file, garbled, io, undetected, triggered>>, MarksCurrent(j)'
    PROVE  AloneInv'
BY TwoKinds DEF AloneInv, NoInterference, TriggeredOnce, TriggeredIsMarked, Target

\* An operation that the job starts.
LEMMA AloneLoad ==
    ASSUME OneJob, AloneInv, Located', NEW j \in Jobs, NEW E, IsEntries(E),
           NEW next \in Places, NEW otherwise \in Places, Operate(j, E, next, otherwise),
           triggered' = triggered, TriggeredIsMarked(E),
           Target(j)' = E /\ pc'[j] = next => MarksCurrent(j)'
    PROVE  AloneInv'
<1>1. TypeOK /\ j \in Procs /\ Watchers \subseteq Procs /\ j \notin Watchers /\ ~ garbled
    BY TwoKinds DEF AloneInv, Located, NoInterference
<1>2. /\ UNCHANGED <<file, garbled, undetected>> /\ (\A w \in Watchers : io'[w] = io[w])
      /\ io'[j] = [step |-> "loaded", entries |-> E] /\ pc'[j] = next
    BY <1>1, OperateFacts
<1>3. Target(j)' = E
    BY <1>2 DEF Target
<1>4. NoInterference' /\ TriggeredOnce' /\ TriggeredIsMarked(file)'
    BY <1>1, <1>2, TwoKinds DEF AloneInv, NoInterference, TriggeredOnce, TriggeredIsMarked
<1>5. TriggeredIsMarked(E)'
    BY DEF TriggeredIsMarked
<1>6. TriggeredIsMarked(Target(j))'
    BY <1>3, <1>5 DEF TriggeredIsMarked
<1> QED BY <1>2, <1>3, <1>4, <1>6, TwoKinds DEF AloneInv

\* The job removes entries while no block is between its trigger and its mark.
LEMMA AloneWithout ==
    ASSUME OneJob, AloneInv, Located', NEW j \in Jobs, NEW S,
           NEW next \in {"idle", "selecting"}, NEW otherwise \in Places,
           Operate(j, Without(file, S), next, otherwise), queue' = queue, triggered' = triggered,
           pc[j] # "fetched"
    PROVE  AloneInv'
<1>1. TypeOK /\ MarksCurrent(j) /\ next \in Places
    BY AloneFacts DEF Places
<1>2. IsEntries(Without(file, S))
    BY <1>1, EntriesOfActions
<1>3. TriggeredIsMarked(Without(file, S))
    BY DEF AloneInv, TriggeredIsMarked, Without, Restrict
<1>4. pc'[j] = next => MarksCurrent(j)'
    BY <1>1 DEF MarksCurrent, AtWork, Waiting
<1> QED BY <1>1, <1>2, <1>3, <1>4, AloneLoad

\* The step that triggers.
LEMMA AloneFetched ==
    ASSUME OneJob, AloneInv, Located', NEW j \in Jobs, Fetched(j)
    PROVE  AloneInv'
<1> DEFINE n == Current(j)
<1>1. /\ TypeOK /\ HasCurrent(j) /\ j \in Procs /\ Target(j) = file
      /\ pc[j] = "fetching" /\ MarksCurrent(j)
    BY AloneFacts DEF Fetched, Ready
<1>2. n \in Waiting(j) /\ n \in Blocks
    BY <1>1, CurrentIsWaiting DEF HasCurrent, AtWork
<1>3. triggered[n] = 0 /\ \A m \in DOMAIN file : m = n => file[m].status = "Recovering"
    BY <1>1, <1>2 DEF MarksCurrent, AtWork
<1>4. triggered' = [triggered EXCEPT ![n] = 1]
    BY <1>3 DEF Fetched
<1>5. /\ UNCHANGED <<file, garbled, io, undetected, queue>> /\ Current(j)' = n
      /\ pc'[j] = "fetched" /\ Target(j)' = file
    BY <1>1 DEF Fetched, Current, Waiting, TypeOK, Target
<1>6. TriggeredOnce' /\ TriggeredIsMarked(file)'
    BY <1>2, <1>3, <1>4, <1>5 DEF AloneInv, TriggeredOnce, TriggeredIsMarked, TypeOK
<1>7. MarksCurrent(j)'
    BY <1>1, <1>2, <1>3, <1>4, <1>5 DEF MarksCurrent, AtWork, Waiting, TypeOK
<1>8. TriggeredIsMarked(Target(j))'
    BY <1>5, <1>6 DEF TriggeredIsMarked
<1> QED BY <1>5, <1>6, <1>7, <1>8, TwoKinds DEF AloneInv, NoInterference

\* Only entries that are not marked are selected.
LEMMA AloneSelect ==
    ASSUME OneJob, AloneInv, Located', NEW j \in Jobs, Select(j)
    PROVE  AloneInv'
<1> DEFINE selected == Oldest(Eligible(file, current_confirmed[j]))
<1>1. TypeOK /\ j \in Procs /\ UNCHANGED <<file, garbled, io, undetected, triggered>>
      /\ \A n \in Blocks : triggered[n] \in 0 .. 1
    BY AloneFacts DEF Select
<1>2. queue'[j] = [n \in selected |-> file[n].retry_count]
    <2>1. queue' = [queue EXCEPT ![j] = [n \in selected |-> file[n].retry_count]]
        BY DEF Select
    <2> QED BY <1>1, <2>1 DEF TypeOK
<1>3. \A n \in Waiting(j)' : n \in DOMAIN file /\ file[n].status = "Pending"
    BY <1>2 DEF Waiting, Oldest, Eligible
<1>4. \A n \in Waiting(j)' : triggered[n] = 0
    <2> SUFFICES ASSUME NEW n \in Waiting(j)' PROVE triggered[n] = 0
        OBVIOUS
    <2>1. n \in DOMAIN file /\ file[n].status = "Pending" /\ triggered[n] \in 0 .. 1
        BY <1>1, <1>3 DEF TypeOK, IsEntries
    <2> QED BY <2>1 DEF AloneInv, TriggeredIsMarked
<1>5. ~ AtWork(j)'
    BY <1>1 DEF Select, AtWork, TypeOK
<1>6. MarksCurrent(j)'
    BY <1>1, <1>4, <1>5 DEF MarksCurrent
<1> QED BY <1>1, <1>6, AloneMove

\* The steps that mark the entry at work.
LEMMA AloneMarks ==
    ASSUME OneJob, AloneInv, Located', NEW j \in Jobs,
           MarkRecovering(j) \/ MarkRecovered(j) \/ AttemptFails(j)
    PROVE  AloneInv'
<1> DEFINE n == Current(j)
<1>1. /\ TypeOK /\ HasCurrent(j) /\ j \in Procs /\ MarksCurrent(j) /\ IsEntries(file)
      /\ TriggeredIsMarked(file)
    BY AloneFacts, EntriesOfActions DEF AloneInv
<1>2. n \in Waiting(j)
    BY <1>1, CurrentIsWaiting DEF HasCurrent, AtWork, MarkRecovering, MarkRecovered, AttemptFails, Ready
<1>3. CASE MarkRecovering(j)
    <2> DEFINE E == Updated(file, n, "Recovering")
    <2>1. /\ Operate(j, E, "fetching", "fetching")
          /\ UNCHANGED <<queue, triggered>> /\ pc[j] = "attempting"
        BY <1>3 DEF MarkRecovering, Ready
    <2>2. IsEntries(E) /\ TriggeredIsMarked(E) /\ \A m \in DOMAIN E : m = n => E[m].status = "Recovering"
        <3>1. IsEntries(E)
            BY <1>1, EntriesOfActions DEF Statuses
        <3>2. DOMAIN E = DOMAIN file /\ (\A m \in DOMAIN file \ {n} : E[m] = file[m])
              /\ \A m \in DOMAIN E : m = n => E[m].status = "Recovering"
            BY DEF Updated
        <3> HIDE DEF E, n
        <3> QED BY <1>1, <3>1, <3>2 DEF TriggeredIsMarked
    <2> HIDE DEF E
    <2>3. Target(j)' = E => MarksCurrent(j)'
        BY <1>1, <2>1, <2>2 DEF MarksCurrent, AtWork, Waiting, Current
    <2> QED BY <2>1, <2>2, <2>3, AloneLoad DEF Places
<1>4. ASSUME NEW status \in Statuses,
             Operate(j, Updated(file, n, status), "attempting", "attempting"),
             triggered' = triggered, queue' = [queue EXCEPT ![j] = Without(@, {n})],
             triggered[n] > 0 => status = "Recovered"
      PROVE  AloneInv'
    <2> DEFINE E == Updated(file, n, status)
    <2>1. IsEntries(E) /\ TriggeredIsMarked(E)
        BY <1>1, <1>4, UpdatedFacts DEF TriggeredIsMarked
    <2>2. queue'[j] = Without(queue[j], {n})
        BY <1>1, <1>4 DEF TypeOK
    <2>3. \A m \in Waiting(j)' : m \in Waiting(j) \ {n}
        BY <2>2 DEF Waiting, Without, Restrict
    <2>4. pc'[j] = "attempting" => MarksCurrent(j)'
        BY <1>1, <1>4, <2>3 DEF MarksCurrent, AtWork
    <2> HIDE DEF E
    <2> QED BY <1>4, <2>1, <2>4, AloneLoad DEF E, Places
<1>5. CASE MarkRecovered(j)
    BY <1>4, <1>5 DEF MarkRecovered, Statuses
<1>6. CASE AttemptFails(j)
    <2>1. triggered[n] = 0
        BY <1>1, <1>2, <1>6 DEF AttemptFails, Ready, MarksCurrent
    <2> QED BY <1>4, <1>6, <2>1 DEF AttemptFails, Statuses
<1> QED BY <1>3, <1>5, <1>6

\* Any action of the job.
LEMMA AloneJob ==
    ASSUME OneJob, AloneInv, Located', NEW j \in Jobs, Prune(j) \/ Work(j) \/ Answer(j)
    PROVE  AloneInv'
<1>1. ~ garbled /\ MarksCurrent(j) /\ TypeOK /\ j \in Procs
    BY AloneFacts DEF AloneInv, NoInterference
<1> USE DEF Places
<1>2. CASE UNCHANGED <<file, garbled, io, undetected, triggered, queue>>
           /\ ~ AtWork(j)' /\ pc[j] # "fetched"
    BY <1>1, <1>2, AloneMove DEF MarksCurrent, Waiting
<1>3. CASE Prune(j)
    <2>1. CASE {n \in DOMAIN file : n < MinBlock(confirmed)} = {}
        BY <1>1, <1>2, <1>3, <2>1 DEF Prune, Ready, AtWork, TypeOK
    <2>2. CASE {n \in DOMAIN file : n < MinBlock(confirmed)} # {}
        BY <1>3, <2>2, AloneWithout DEF Prune, Ready
    <2> QED BY <2>1, <2>2
<1>4. CASE Finish(j)
    <2>1. CASE recovered[j] = {}
        BY <1>1, <1>2, <1>4, <2>1 DEF Finish, Ready, AtWork, TypeOK
    <2>2. CASE recovered[j] # {}
        BY <1>4, <2>2, AloneWithout DEF Finish, Ready
    <2> QED BY <2>1, <2>2
<1>5. ~ CannotRead(j)
    BY <1>1 DEF CannotRead
<1> QED BY <1>3, <1>4, <1>5, AloneSelect, AloneMarks, AloneFetched DEF Work, Answer

\* What the job writes is what it has loaded.
LEMMA AloneFileStep ==
    ASSUME Alone, AloneInv, Located', NEW p \in Procs, FileStep(p) \/ OperationFails(p)
    PROVE  AloneInv' /\ p \in Jobs /\ UNCHANGED <<pc, queue, recovered, triggered, pruned>>
           /\ Target(p)' = Target(p)
<1>0. OneJob /\ TypeOK /\ NoInterference /\ ~ OperationFails(p) /\ p \notin Watchers /\ p \in Jobs
      /\ UNCHANGED <<pc, queue, recovered, triggered, pruned>>
    BY DEF Alone, AloneInv, Located, NoInterference, FileStep, Truncate, Write, OperationFails, Procs
<1>1. /\ (\A w \in Watchers : io'[w] = io[w]) /\ undetected' \subseteq undetected
      /\ \A q \in Jobs : q = p
    BY <1>0, TwoKinds, OperationFacts DEF FileStep, Truncate, Write
<1>2. Target(p)' = Target(p) /\ TriggeredIsMarked(file)' /\ NoInterference'
    <2>1. CASE Truncate(p)
        <3>1. io[p].step = "loaded" /\ io'[p].step = "truncated" /\ io'[p].entries = io[p].entries
              /\ file' = NoEntries /\ ~ garbled'
            BY <1>0, <2>1, OperationFacts DEF Truncate
        <3> QED BY <1>0, <1>1, <3>1, NoEntriesFacts DEF Target, TriggeredIsMarked, NoInterference
    <2>2. CASE Write(p)
        <3>1. io[p].step = "truncated" /\ io'[p] = NoOperation /\ file' = io[p].entries /\ ~ garbled'
            BY <1>0, <2>2, OperationFacts DEF Write, NoInterference
        <3>2. Target(p) = file' /\ Target(p)' = file'
            BY <3>1 DEF Target, NoOperation
        <3>3. TriggeredIsMarked(file)'
            BY <1>0, <3>2 DEF AloneInv, TriggeredIsMarked
        <3> QED BY <1>0, <1>1, <3>1, <3>2, <3>3 DEF NoInterference, NoOperation
    <2> QED BY <1>0, <2>1, <2>2 DEF FileStep
<1>3. TriggeredIsMarked(Target(p))' /\ MarksCurrent(p)'
    BY <1>0, <1>2 DEF AloneInv, TriggeredIsMarked, MarksCurrent, AtWork, Waiting, Current
<1>4. TriggeredOnce'
    BY <1>0 DEF AloneInv, TriggeredOnce
<1> QED BY <1>0, <1>1, <1>2, <1>3, <1>4 DEF AloneInv

\* What the job does not do; a crash leaves the marks in the file.
LEMMA AloneOutside ==
    ASSUME Alone, AloneInv, Located',
           Crash \/ ChainGrows \/ UNCHANGED vars \/ \E w \in Watchers, S \in SUBSET Undetected : Detect(w, S)
    PROVE  AloneInv' /\ \A w \in Watchers, S \in SUBSET Undetected : ~ Detect(w, S)
<1>1. OneJob /\ \A w \in Watchers, S \in SUBSET Undetected : ~ Detect(w, S)
    BY DEF Alone, AloneInv, NoInterference, Detect
<1>2. PICK j \in Jobs : TRUE
    BY <1>1 DEF OneJob
<1>3. CASE Crash
    <2>1. io'[j] = NoOperation /\ (\A w \in Watchers : io'[w] = NoOperation) /\ pc'[j] = "idle" /\ Waiting(j)' = {}
          /\ UNCHANGED <<file, garbled, undetected, triggered>>
        BY <1>1, <1>3, TwoKinds, NoEntriesFacts DEF Crash, Waiting
    <2>2. Target(j)' = file /\ TriggeredIsMarked(file)' /\ TriggeredOnce'
        BY <2>1 DEF Target, NoOperation, AloneInv, TriggeredIsMarked, TriggeredOnce
    <2>3. TriggeredIsMarked(Target(j))'
        BY <2>1, <2>2 DEF TriggeredIsMarked
    <2>4. MarksCurrent(j)'
        BY <2>1 DEF MarksCurrent, AtWork
    <2>5. NoInterference'
        BY <1>1, <2>1, TwoKinds DEF AloneInv, NoInterference, NoOperation
    <2> QED BY <1>1, <2>2, <2>3, <2>4, <2>5, TwoKinds DEF AloneInv
<1>4. CASE ChainGrows \/ UNCHANGED vars
    <2>1. MarksCurrent(j)'
        BY <1>1, <1>4, AloneFacts DEF ChainGrows, vars, MarksCurrent, AtWork, Target, Waiting, Current
    <2> QED BY <1>1, <1>4, <2>1, AloneMove DEF ChainGrows, vars
<1> QED BY <1>1, <1>3, <1>4

\* It holds at first.
LEMMA AloneInit == Alone /\ Init => AloneInv
<1> SUFFICES ASSUME Alone, Init PROVE AloneInv
    OBVIOUS
<1>1. io = [p \in Procs |-> NoOperation] /\ \A j \in Jobs : Waiting(j) = {} /\ pc[j] = "idle"
    BY NoEntriesFacts DEF Init, Waiting, Procs
<1>2. Located /\ NoInterference
    BY <1>1, InitTypes DEF Init, Located, HasCurrent, AtWork, NoInterference, Alone, Procs, NoOperation
<1>3. TriggeredOnce /\ \A E : (DOMAIN E \subseteq Blocks => TriggeredIsMarked(E))
    BY DEF Init, TriggeredOnce, TriggeredIsMarked
<1>4. DOMAIN file \subseteq Blocks /\ \A j \in Jobs : Target(j) = file /\ MarksCurrent(j)
    BY <1>1, <1>2 DEF Located, TypeOK, IsEntries, Target, NoOperation, MarksCurrent, AtWork, Procs
<1> QED BY <1>2, <1>3, <1>4 DEF AloneInv

\* Every step keeps it.
LEMMA AloneNext == Alone /\ AloneInv /\ [Next]_vars => AloneInv'
<1> SUFFICES ASSUME Alone, AloneInv, [Next]_vars PROVE AloneInv'
    OBVIOUS
<1>1. Located' /\ OneJob
    BY LocatedKept DEF AloneInv, Alone
<1> QED BY <1>1, AloneFileStep, AloneJob, AloneOutside DEF Next

\* The invariant of the job alone with the file holds, crashes included.
THEOREM AloneInvariance == Alone => (Spec => []AloneInv)
<1> SUFFICES ASSUME Alone PROVE Spec => []AloneInv
    OBVIOUS
<1>1. Init => AloneInv
    BY AloneInit
<1>2. AloneInv /\ [Next]_vars => AloneInv'
    BY AloneNext
<1> QED BY <1>1, <1>2, PTL DEF Spec

\* No block is handed to the trigger handler twice by the recovery (TriggeredOnce), not even
\* when the process dies between the trigger and the mark: the entry says Recovering by then.
THEOREM TriggersOnceAlone == Alone => (Spec => []TriggeredOnce)
<1>1. AloneInv => TriggeredOnce
    BY DEF AloneInv
<1> QED BY <1>1, AloneInvariance, PTL

-----------------------------------------------------------------------------
(* Undisturbed, the entries live as RecoveryLifecycle says.                *)

\* What the proofs about the undisturbed job use of the invariant.
LEMMA QuietFacts ==
    ASSUME OneJob, QuietInv, NEW j \in Jobs
    PROVE  /\ TypeOK /\ HasCurrent(j) /\ j \in Procs /\ ~ garbled
           /\ io[j].step = "none" => Target(j) = file
           /\ MarksCurrent(j) /\ StagesFit(j) /\ NothingForgotten(j)
           /\ IsEntries(file)
BY AloneFacts, EntriesOfActions DEF QuietInv, AloneInv, NoInterference

\* A step of the job that leaves the file to others.
LEMMA QuietMove ==
    ASSUME OneJob, QuietInv, AloneInv', NEW j \in Jobs,
           UNCHANGED <<file, io>>, StagesFit(j)', NothingForgotten(j)'
    PROVE  QuietInv'
BY TwoKinds DEF QuietInv, Target

\* An operation that the job starts.
LEMMA QuietLoad ==
    ASSUME OneJob, QuietInv, AloneInv', NEW j \in Jobs, NEW E, IsEntries(E),
           NEW next \in Places, NEW otherwise \in Places, Operate(j, E, next, otherwise),
           DOMAIN E \subseteq DOMAIN file, Evolves(file, E),
           Target(j)' = E /\ pc'[j] = next => StagesFit(j)' /\ NothingForgotten(j)'
    PROVE  QuietInv'
<1>1. TypeOK /\ j \in Procs /\ ~ garbled
    BY QuietFacts
<1>2. file' = file /\ io'[j] = [step |-> "loaded", entries |-> E] /\ pc'[j] = next
    BY <1>1, OperateFacts
<1>3. Target(j)' = E
    BY <1>2 DEF Target
<1>5. Evolves(file', io'[j].entries)
    BY <1>2
<1>6. DOMAIN file' \subseteq InitialEntries /\ DOMAIN Target(j)' \subseteq InitialEntries
    BY <1>2, <1>3 DEF QuietInv
<1> QED BY <1>2, <1>3, <1>5, <1>6, TwoKinds DEF QuietInv

\* What is removed was recovered and triggered, or is pruned.
LEMMA QuietWithout ==
    ASSUME OneJob, QuietInv, AloneInv', NEW j \in Jobs, NEW S \in SUBSET Blocks,
           NEW next \in {"idle", "selecting"}, NEW otherwise \in Places, Ready(j, pc[j]),
           Operate(j, Without(file, S), next, otherwise), UNCHANGED <<queue, recovered, triggered>>,
           pruned \subseteq pruned', ~ AtWork(j),
           \/ \A n \in S \cap DOMAIN file : file[n].status = "Recovered" /\ triggered[n] > 0
           \/ S \subseteq pruned'
    PROVE  QuietInv'
<1> DEFINE E == Without(file, S)
<1>1. TypeOK /\ Target(j) = file /\ StagesFit(j) /\ NothingForgotten(j) /\ next \in Places
    BY QuietFacts DEF Ready, Places
<1>2. IsEntries(E) /\ DOMAIN E = DOMAIN file \ S /\ \A n \in DOMAIN E : E[n] = file[n]
    BY <1>1, EntriesOfActions DEF Without, Restrict
<1>3. Evolves(file, E)
    BY <1>1 DEF Evolves, StagesFit
<1>4. Target(j)' = E /\ pc'[j] = next => StagesFit(j)' /\ NothingForgotten(j)'
    <2> HIDE DEF E
    <2> SUFFICES ASSUME Target(j)' = E, pc'[j] = next PROVE StagesFit(j)' /\ NothingForgotten(j)'
        OBVIOUS
    <2>1. StagesFit(j)'
        BY <1>1, <1>2 DEF StagesFit, Waiting
    <2>2. NothingForgotten(j)'
        BY <1>1, <1>2 DEF NothingForgotten
    <2> QED BY <2>1, <2>2
<1> HIDE DEF E
<1> QED BY <1>1, <1>2, <1>3, <1>4, QuietLoad DEF E

\* The job selects entries.
LEMMA QuietSelect ==
    ASSUME OneJob, QuietInv, AloneInv', NEW j \in Jobs, Select(j)
    PROVE  QuietInv'
<1> DEFINE selected == Oldest(Eligible(file, current_confirmed[j]))
<1>1. /\ TypeOK /\ j \in Procs /\ UNCHANGED <<file, io, triggered, pruned>> /\ Target(j) = file
      /\ pc[j] = "selecting" /\ StagesFit(j) /\ NothingForgotten(j)
    BY QuietFacts DEF Select, Ready
<1>2. queue' = [queue EXCEPT ![j] = [n \in selected |-> file[n].retry_count]]
      /\ pc' = [pc EXCEPT ![j] = IF selected = {} THEN "idle" ELSE "attempting"]
      /\ recovered' = [recovered EXCEPT ![j] = {}]
    BY DEF Select
<1>3. queue'[j] = [n \in selected |-> file[n].retry_count] /\ recovered'[j] = {}
      /\ pc'[j] \in {"idle", "attempting"}
    BY <1>1, <1>2 DEF TypeOK
<1>4. \A n \in Waiting(j)' : /\ n \in DOMAIN file /\ file[n].status = "Pending"
                             /\ file[n].retry_count < max_retries
                             /\ queue'[j][n] = file[n].retry_count
    BY <1>3 DEF Waiting, Oldest, Eligible
<1>5. Target(j)' = file
    BY <1>1 DEF Target
<1>6. StagesFit(j)'
    BY <1>1, <1>3, <1>4, <1>5 DEF StagesFit, AtWork
<1>7. NothingForgotten(j)'
    BY <1>1, <1>3, <1>5 DEF NothingForgotten
<1> QED BY <1>1, <1>6, <1>7, QuietMove

\* A block that was fetched is triggered.
LEMMA QuietFetched ==
    ASSUME OneJob, QuietInv, AloneInv', NEW j \in Jobs, Fetched(j)
    PROVE  QuietInv'
<1> DEFINE n == Current(j)
<1>1. /\ TypeOK /\ j \in Procs /\ Target(j) = file /\ HasCurrent(j)
      /\ pc[j] = "fetching" /\ StagesFit(j) /\ NothingForgotten(j) /\ MarksCurrent(j)
    BY QuietFacts DEF Fetched, Ready
<1>2. /\ UNCHANGED <<file, io, queue, recovered, pruned>> /\ pc'[j] = "fetched"
      /\ Current(j)' = n /\ Target(j)' = file
    BY <1>1 DEF Fetched, Current, Waiting, TypeOK, Target
<1>3. n \in Waiting(j) /\ n \in Blocks
    BY <1>1, CurrentIsWaiting DEF HasCurrent, AtWork
<1>4. triggered[n] = 0
    BY <1>1, <1>3 DEF MarksCurrent
<1>5. triggered' = [triggered EXCEPT ![n] = 1]
    BY <1>4 DEF Fetched
<1>6. triggered'[n] > 0 /\ \A m \in Blocks : triggered[m] > 0 => triggered'[m] > 0
    BY <1>1, <1>3, <1>5 DEF TypeOK
<1>7. StagesFit(j)'
    BY <1>1, <1>2 DEF StagesFit, AtWork, Waiting
<1>8. NothingForgotten(j)'
    <2>1. recovered[j] \subseteq Blocks /\ InitialEntries \subseteq Blocks
        BY <1>1, RecoveryAssumption DEF TypeOK
    <2> QED BY <1>1, <1>2, <1>6, <2>1 DEF NothingForgotten
<1> QED BY <1>2, <1>7, <1>8, QuietMove

\* The steps that mark the entry at work.
LEMMA QuietMarks ==
    ASSUME OneJob, QuietInv, AloneInv', NEW j \in Jobs, NEW status \in Statuses,
           NEW next \in {"fetching", "attempting"},
           Ready(j, pc[j]), Waiting(j) # {},
           Operate(j, Updated(file, Current(j), status), next, next),
           UNCHANGED <<triggered, pruned>>,
           Current(j) \in DOMAIN file => Allowed(file[Current(j)], status),
           \/ /\ next = "fetching" /\ status = "Recovering" /\ ~ AtWork(j)
              /\ queue' = queue /\ recovered' = recovered
           \/ /\ next = "attempting" /\ status # "Recovering" /\ AtWork(j)
              /\ queue' = [queue EXCEPT ![j] = Without(@, {Current(j)})]
              /\ \/ recovered' = recovered
                 \/ /\ recovered' = [recovered EXCEPT ![j] = @ \cup {Current(j)}]
                    /\ status = "Recovered" /\ triggered[Current(j)] > 0
    PROVE  QuietInv'
<1> DEFINE n == Current(j)
           E == Updated(file, n, status)
<1>1. /\ TypeOK /\ j \in Procs /\ Target(j) = file /\ MarksCurrent(j)
      /\ StagesFit(j) /\ NothingForgotten(j) /\ next \in Places /\ IsEntries(file)
    BY QuietFacts DEF Ready, Places
<1>2. n \in Waiting(j) /\ n \in Blocks
    BY <1>1, CurrentIsWaiting
<1>3. IsEntries(E)
    BY <1>1, EntriesOfActions
<1>4. /\ DOMAIN E = DOMAIN file /\ \A m \in DOMAIN file \ {n} : E[m] = file[m]
      /\ n \in DOMAIN file =>
            /\ E[n].status = status
            /\ status = "Recovering" => E[n].retry_count = file[n].retry_count
    BY <1>1 DEF Updated, IsEntries
<1>5. Evolves(file, E)
    <2>1. CASE n \in DOMAIN file
        BY <2>1 DEF Evolves
    <2>2. CASE n \notin DOMAIN file
        BY <1>1, <2>2 DEF Evolves, Updated, IsEntries
    <2> QED BY <2>1, <2>2
<1>6. n \in DOMAIN file => file[n].status \in {"Pending", "Recovering"}
    BY DEF Allowed
<1>7. ASSUME Target(j)' = E, pc'[j] = next
      PROVE  StagesFit(j)' /\ NothingForgotten(j)'
    <2> HIDE DEF E
    <2>1. CASE next = "fetching"
        <3>1. Waiting(j)' = Waiting(j) /\ Current(j)' = n /\ queue' = queue /\ recovered' = recovered
              /\ status = "Recovering" /\ AtWork(j)' /\ ~ AtWork(j) /\ pc'[j] # "fetched"
            BY <1>7, <2>1 DEF Waiting, Current, AtWork
        <3> HIDE DEF n
        <3>2. StagesFit(j)'
            BY <1>1, <1>4, <1>6, <1>7, <3>1 DEF StagesFit
        <3>3. NothingForgotten(j)'
            BY <1>1, <1>4, <1>7, <3>1 DEF NothingForgotten
        <3> QED BY <3>2, <3>3
    <2>2. CASE next = "attempting"
        <3>1. queue'[j] = Without(queue[j], {n})
            BY <1>1, <2>2 DEF TypeOK
        <3>2. Waiting(j)' = Waiting(j) \ {n} /\ (\A m \in Waiting(j)' : queue'[j][m] = queue[j][m])
            BY <3>1 DEF Waiting, Without, Restrict
        <3>3. ~ AtWork(j)' /\ pc'[j] # "fetched" /\ status # "Recovering"
            BY <1>7, <2>2 DEF AtWork
        <3>4. \/ recovered'[j] = recovered[j]
              \/ recovered'[j] = recovered[j] \cup {n} /\ status = "Recovered" /\ triggered[n] > 0
            BY <1>1, <2>2 DEF TypeOK
        <3> HIDE DEF n
        <3>5. StagesFit(j)'
            BY <1>1, <1>4, <1>6, <1>7, <3>2, <3>3, <3>4 DEF StagesFit, n
        <3>6. NothingForgotten(j)'
            BY <1>1, <1>4, <1>7, <3>3, <3>4 DEF NothingForgotten
        <3> QED BY <3>5, <3>6
    <2> QED BY <2>1, <2>2
<1> HIDE DEF E
<1> QED BY <1>1, <1>3, <1>4, <1>5, <1>7, QuietLoad DEF E

\* Any action of the job.
LEMMA QuietJob ==
    ASSUME OneJob, QuietInv, AloneInv', NEW j \in Jobs, Prune(j) \/ Work(j) \/ Answer(j)
    PROVE  QuietInv'
<1>0. /\ TypeOK /\ j \in Procs /\ HasCurrent(j) /\ ~ garbled /\ IsEntries(file)
      /\ StagesFit(j) /\ NothingForgotten(j) /\ MarksCurrent(j)
    BY QuietFacts
<1> USE DEF Places, Statuses
<1>1. CASE Prune(j)
    <2> DEFINE old == {n \in DOMAIN file : n < MinBlock(confirmed)}
    <2>1. old \in SUBSET Blocks /\ old \subseteq pruned' /\ pruned \subseteq pruned'
          /\ Ready(j, pc[j]) /\ ~ AtWork(j)
        BY <1>0, <1>1 DEF Prune, IsEntries, Ready, AtWork
    <2>2. CASE old = {}
        <3>1. UNCHANGED <<file, io, queue, recovered, triggered>> /\ ~ AtWork(j)' /\ pc'[j] # "fetched"
            BY <1>0, <1>1, <2>2 DEF Prune, AtWork, TypeOK
        <3>2. StagesFit(j)' /\ NothingForgotten(j)'
            BY <1>0, <2>1, <3>1 DEF StagesFit, NothingForgotten, Target, Waiting
        <3> QED BY <3>1, <3>2, QuietMove
    <2>3. CASE old # {}
        <3>1. Operate(j, Without(file, old), "selecting", "idle")
              /\ UNCHANGED <<queue, recovered, triggered>>
            BY <1>1, <2>3 DEF Prune
        <3> HIDE DEF old
        <3> QED BY <2>1, <3>1, QuietWithout
    <2> QED BY <2>2, <2>3
<1>2. CASE Finish(j)
    <2>1. Ready(j, pc[j]) /\ ~ AtWork(j) /\ Target(j) = file /\ UNCHANGED <<queue, recovered, triggered, pruned>>
        BY <1>0, <1>2, QuietFacts DEF Finish, Ready, AtWork
    <2>2. CASE recovered[j] = {}
        <3>1. UNCHANGED <<file, io>> /\ ~ AtWork(j)' /\ pc'[j] # "fetched"
            BY <1>0, <1>2, <2>2 DEF Finish, AtWork, TypeOK
        <3>2. StagesFit(j)' /\ NothingForgotten(j)'
            BY <1>0, <2>1, <3>1 DEF StagesFit, NothingForgotten, Target, Waiting
        <3> QED BY <3>1, <3>2, QuietMove
    <2>3. CASE recovered[j] # {}
        <3>1. Operate(j, Without(file, recovered[j]), "idle", "idle")
            BY <1>2, <2>3 DEF Finish
        <3>2. recovered[j] \in SUBSET Blocks
            BY <1>0 DEF TypeOK
        <3>3. \A n \in recovered[j] \cap DOMAIN file : file[n].status = "Recovered" /\ triggered[n] > 0
            BY <1>0, <2>1 DEF StagesFit, NothingForgotten
        <3> QED BY <2>1, <3>1, <3>2, <3>3, QuietWithout
    <2> QED BY <2>2, <2>3
<1>3. CASE MarkRecovering(j)
    <2>1. Ready(j, pc[j]) /\ ~ AtWork(j) /\ Waiting(j) # {} /\ Target(j) = file
        BY <1>0, <1>3, QuietFacts DEF MarkRecovering, Ready, AtWork
    <2>2. Current(j) \in DOMAIN file => Allowed(file[Current(j)], "Recovering")
        BY <1>0, <2>1, CurrentIsWaiting DEF StagesFit, Allowed
    <2> QED BY <1>3, <2>1, <2>2, QuietMarks DEF MarkRecovering
<1>4. ASSUME MarkRecovered(j) \/ AttemptFails(j)
      PROVE  /\ Ready(j, pc[j]) /\ AtWork(j) /\ Waiting(j) # {}
             /\ Current(j) \in DOMAIN file =>
                    /\ file[Current(j)].status = "Recovering"
                    /\ file[Current(j)].retry_count = SelectedCount(j)
                    /\ file[Current(j)].retry_count \in Nat
                    /\ SelectedCount(j) < max_retries
    <2>1. Ready(j, pc[j]) /\ AtWork(j) /\ Waiting(j) # {} /\ Target(j) = file
        BY <1>0, <1>4, QuietFacts DEF MarkRecovered, AttemptFails, Ready, AtWork, HasCurrent
    <2> QED BY <1>0, <2>1, CurrentIsWaiting DEF StagesFit, MarksCurrent, SelectedCount, IsEntries
<1>5. CASE MarkRecovered(j)
    <2>1. Current(j) \in DOMAIN file => Allowed(file[Current(j)], "Recovered")
        BY <1>4, <1>5 DEF Allowed
    <2>2. triggered[Current(j)] > 0
        BY <1>0, <1>5 DEF MarkRecovered, Ready, NothingForgotten
    <2> QED BY <1>4, <1>5, <2>1, <2>2, QuietMarks DEF MarkRecovered
<1>6. CASE AttemptFails(j)
    <2> DEFINE status == IF SelectedCount(j) + 1 >= max_retries THEN "Failed" ELSE "Pending"
    <2>1. Current(j) \in DOMAIN file => Allowed(file[Current(j)], status)
        BY <1>4, <1>6, RecoveryAssumption DEF Allowed
    <2>2. status \in Statuses /\ status # "Recovering"
        OBVIOUS
    <2>3. /\ Operate(j, Updated(file, Current(j), status), "attempting", "attempting")
          /\ UNCHANGED <<recovered, triggered, pruned>>
          /\ queue' = [queue EXCEPT ![j] = Without(@, {Current(j)})]
        BY <1>6 DEF AttemptFails
    <2> HIDE DEF status
    <2> QED BY <1>4, <1>6, <2>1, <2>2, <2>3, QuietMarks
<1>7. ~ CannotRead(j)
    BY <1>0 DEF CannotRead
<1> QED BY <1>1, <1>2, <1>3, <1>5, <1>6, <1>7, QuietSelect, QuietFetched DEF Work, Answer

\* A step of an operation on the file; none fails.
LEMMA QuietFileStep ==
    ASSUME Alone, QuietInv, AloneInv', NEW j \in Procs, FileStep(j) \/ OperationFails(j), Located'
    PROVE  QuietInv'
<1>1. /\ j \in Jobs /\ UNCHANGED <<pc, queue, recovered, triggered, pruned>>
      /\ Target(j)' = Target(j) /\ OneJob
    BY AloneFileStep DEF QuietInv, Alone
<1>2. StagesFit(j)' /\ NothingForgotten(j)' /\ DOMAIN Target(j)' \subseteq InitialEntries
    BY <1>1 DEF QuietInv, StagesFit, NothingForgotten, AtWork, Waiting, Current
<1>3. DOMAIN file' \subseteq InitialEntries /\ io'[j].step # "loaded"
    <2>1. TypeOK /\ ~ OperationFails(j)
        BY DEF QuietInv, AloneInv, Located, Alone, OperationFails
    <2>2. CASE Truncate(j)
        BY <2>1, <2>2, OperationFacts, NoEntriesFacts DEF Truncate
    <2>3. CASE Write(j)
        BY <1>1, <2>1, <2>3, OperationFacts DEF Write, NoOperation, QuietInv, Target
    <2> QED BY <2>1, <2>2, <2>3 DEF FileStep
<1> QED BY <1>1, <1>2, <1>3, TwoKinds DEF QuietInv

\* It holds at first.
LEMMA QuietInit == Undisturbed /\ Init => QuietInv
<1> SUFFICES ASSUME Alone, Init PROVE QuietInv
    BY DEF Undisturbed
<1>1. AloneInv
    BY AloneInit
<1>2. \A j \in Jobs : /\ Waiting(j) = {} /\ pc[j] = "idle" /\ recovered[j] = {}
                      /\ io[j].step = "none" /\ Target(j) = file
    BY NoEntriesFacts DEF Init, Waiting, Procs, Target, NoOperation
<1>3. DOMAIN file = InitialEntries /\ \A n \in InitialEntries : file[n].status = "Pending"
    BY DEF Init, NewEntry
<1>4. \A j \in Jobs : StagesFit(j) /\ NothingForgotten(j)
    BY <1>2, <1>3 DEF StagesFit, NothingForgotten
<1> QED BY <1>1, <1>2, <1>3, <1>4 DEF QuietInv

\* How the file and what is to be written there change: not at all, but when the job
\* truncates the file for what it has loaded, and then writes it.
LEMMA QuietNext ==
    ASSUME Undisturbed, QuietInv, [Next]_vars
    PROVE  /\ QuietInv'
           /\ \/ \E j \in Jobs : Truncate(j) \/ Write(j)
              \/ /\ file' = file
                 /\ \A p \in Procs : (io'[p].step = "truncated") <=> (io[p].step = "truncated")
                 /\ \A p \in Procs : io[p].step = "truncated" => io'[p] = io[p]
<1>1. Alone /\ AloneInv /\ AloneInv' /\ Located' /\ OneJob /\ ~ Crash /\ TypeOK
      /\ \A w \in Watchers, S \in SUBSET Undetected : ~ Detect(w, S)
    BY AloneNext, QuietFacts DEF Undisturbed, Alone, QuietInv, AloneInv, Located, Crash,
                                 NoInterference, Detect
<1>2. CASE \E p \in Procs : FileStep(p) \/ OperationFails(p)
    BY <1>1, <1>2, QuietFileStep, AloneFileStep DEF FileStep, Alone, OperationFails
<1>3. ASSUME NEW j \in Jobs, Prune(j) \/ Work(j) \/ Answer(j)
      PROVE  /\ QuietInv' /\ file' = file
             /\ \A p \in Procs : (io'[p].step = "truncated") <=> (io[p].step = "truncated")
             /\ \A p \in Procs : io[p].step = "truncated" => io'[p] = io[p]
    <2>1. io[j].step = "none" /\ file' = file /\ j \in Procs
          /\ (io' = io \/ \E E : io' = [io EXCEPT ![j] = [step |-> "loaded", entries |-> E]])
        BY <1>3 DEF Prune, Work, Answer, Select, CannotRead, MarkRecovering, Fetched, MarkRecovered,
                    AttemptFails, Finish, Ready, Operate, Procs
    <2>2. io = [p \in Procs |-> io[p]]
        BY <1>1 DEF TypeOK
    <2>3. QuietInv'
        BY <1>1, <1>3, QuietJob
    <2> QED BY <2>1, <2>2, <2>3
<1>4. CASE ChainGrows \/ UNCHANGED vars
    <2>1. PICK j \in Jobs : TRUE
        BY <1>1 DEF OneJob
    <2>2. UNCHANGED <<file, io>> /\ StagesFit(j)' /\ NothingForgotten(j)'
        BY <1>1, <1>4, QuietFacts DEF ChainGrows, vars, StagesFit, NothingForgotten, AtWork, Target,
                                      Waiting, Current
    <2> QED BY <1>1, <2>2, QuietMove
<1> QED BY <1>1, <1>2, <1>3, <1>4 DEF Next

\* The invariant of the undisturbed job holds.
THEOREM QuietInvariance == Undisturbed => (Spec => []QuietInv)
<1> SUFFICES ASSUME Undisturbed PROVE Spec => []QuietInv
    OBVIOUS
<1>1. Init => QuietInv
    BY QuietInit
<1>2. QuietInv /\ [Next]_vars => QuietInv'
    BY QuietNext
<1> QED BY <1>1, <1>2, PTL DEF Spec

\* An entry says Recovering only while the job works on its block (RecoveringIsInProgress).
THEOREM RecoveringWhileAtWork == Undisturbed => (Spec => []RecoveringIsInProgress)
<1> SUFFICES ASSUME Undisturbed PROVE Spec => []RecoveringIsInProgress
    OBVIOUS
<1>1. QuietInv => RecoveringIsInProgress
    <2> SUFFICES ASSUME QuietInv, NEW n \in DOMAIN file, file[n].status = "Recovering"
                 PROVE  \E j \in Jobs : io[j].step # "none" \/ (Waiting(j) # {} /\ Current(j) = n)
        BY DEF RecoveringIsInProgress
    <2>1. OneJob
        BY DEF Undisturbed, Alone
    <2>2. PICK j \in Jobs : TRUE
        BY <2>1 DEF OneJob
    <2> QED BY <2>1, QuietFacts DEF StagesFit, HasCurrent
<1> QED BY <1>1, QuietInvariance, PTL

\* Each block found missing has its entry until it is recovered or pruned
\* (MissedBlocksTracked): what a failing watcher or a second writer would lose, the job
\* alone does not.
THEOREM NothingIsForgotten == Undisturbed => (Spec => []MissedBlocksTracked)
<1> SUFFICES ASSUME Undisturbed PROVE Spec => []MissedBlocksTracked
    OBVIOUS
<1>1. QuietInv => MissedBlocksTracked
    <2> SUFFICES ASSUME QuietInv, \A p \in Procs : io[p].step = "none",
                        NEW n \in InitialEntries, n \notin pruned
                 PROVE  n \in DOMAIN file \/ triggered[n] > 0
        BY DEF MissedBlocksTracked, Undisturbed, Alone
    <2>1. OneJob
        BY DEF Undisturbed, Alone
    <2>2. PICK j \in Jobs : TRUE
        BY <2>1 DEF OneJob
    <2> QED BY <2>1, QuietFacts DEF NothingForgotten
<1> QED BY <1>1, QuietInvariance, PTL

-----------------------------------------------------------------------------
(* The refinement of RecoveryLifecycle.                                    *)

\* The status and the count that the mapping gives each block when E is visible.
StatusIn(E) == [n \in Blocks |-> IF n \in DOMAIN E THEN E[n].status
                                 ELSE IF n \in Blocks \ InitialEntries THEN "Untracked" ELSE "Gone"]
CountIn(E) == [n \in Blocks |-> IF n \in DOMAIN E THEN E[n].retry_count ELSE 0]

\* A step of the lifecycle, of the entries E to the entries F.
LifecycleStep(E, F) ==
    \/ StatusIn(F) = StatusIn(E) /\ CountIn(F) = CountIn(E)
    \/ \E n \in Blocks, status \in Statuses :
           /\ n \in DOMAIN E
           /\ Allowed(E[n], status)
           /\ StatusIn(F) = [StatusIn(E) EXCEPT ![n] = status]
           /\ CountIn(F) = IF status \in {"Pending", "Failed"}
                           THEN [CountIn(E) EXCEPT ![n] = @ + 1] ELSE CountIn(E)
    \/ \E S \in SUBSET Blocks :
           /\ \A n \in S : StatusIn(E)[n] # "Untracked"
           /\ \/ \A n \in S : StatusIn(E)[n] = "Recovered"
              \/ \A n \in Blocks : StatusIn(E)[n] # "Recovering"
           /\ StatusIn(F) = [n \in Blocks |-> IF n \in S THEN "Gone" ELSE StatusIn(E)[n]]
           /\ CountIn(F) = [n \in Blocks |-> IF n \in S THEN 0 ELSE CountIn(E)[n]]

\* Entries that evolve take a step of RecoveryLifecycle.
LEMMA EvolvesIsStep ==
    ASSUME NEW E, NEW F, IsEntries(E), DOMAIN E \subseteq InitialEntries, Evolves(E, F)
    PROVE  LifecycleStep(E, F)
<1>1. CASE F = E
    BY <1>1 DEF LifecycleStep
<1>2. ASSUME NEW n \in DOMAIN E, NEW status \in Statuses, Allowed(E[n], status),
             F = Updated(E, n, status)
      PROVE  LifecycleStep(E, F)
    <2>1. n \in Blocks /\ \A m \in DOMAIN E : E[m].retry_count \in Nat
        BY DEF IsEntries
    <2>2. StatusIn(F) = [StatusIn(E) EXCEPT ![n] = status]
        BY <1>2, <2>1 DEF StatusIn, Updated
    <2>3. CountIn(F) = IF status \in {"Pending", "Failed"}
                       THEN [CountIn(E) EXCEPT ![n] = @ + 1] ELSE CountIn(E)
        BY <1>2, <2>1 DEF CountIn, Updated
    <2> QED BY <1>2, <2>1, <2>2, <2>3 DEF LifecycleStep
<1>3. ASSUME NEW S \in SUBSET Blocks, F = Without(E, S),
             \/ \A n \in S \cap DOMAIN E : E[n].status = "Recovered"
             \/ \A n \in DOMAIN E : E[n].status # "Recovering"
      PROVE  LifecycleStep(E, F)
    <2> DEFINE T == S \cap DOMAIN E
    <2>1. T \in SUBSET Blocks /\ DOMAIN F = DOMAIN E \ T /\ \A n \in DOMAIN F : F[n] = E[n]
        BY <1>3 DEF Without, Restrict
    <2>2. /\ \A n \in T : StatusIn(E)[n] # "Untracked"
          /\ \/ \A n \in T : StatusIn(E)[n] = "Recovered"
             \/ \A n \in Blocks : StatusIn(E)[n] # "Recovering"
        BY <1>3 DEF StatusIn, IsEntries, Statuses
    <2>3. T \subseteq InitialEntries /\ T \subseteq DOMAIN E
        OBVIOUS
    <2> HIDE DEF T
    <2>4. StatusIn(F) = [n \in Blocks |-> IF n \in T THEN "Gone" ELSE StatusIn(E)[n]]
        BY <2>1, <2>3 DEF StatusIn
    <2>5. CountIn(F) = [n \in Blocks |-> IF n \in T THEN 0 ELSE CountIn(E)[n]]
        BY <2>1, <2>3 DEF CountIn
    <2> QED BY <2>1, <2>2, <2>4, <2>5 DEF LifecycleStep
<1> QED BY <1>1, <1>2, <1>3 DEF Evolves

\* What is visible is the file, but for what the job is about to write.
VisibleAt(j) == Visible = IF io[j].step = "truncated" THEN io[j].entries ELSE file

\* What the refinement sees of the file.
LEMMA VisibleIs == OneJob /\ QuietInv => \A j \in Jobs : VisibleAt(j)
<1> SUFFICES ASSUME OneJob, QuietInv, NEW j \in Jobs PROVE VisibleAt(j)
    OBVIOUS
<1>1. /\ \A w \in Watchers : io[w].step = "none"
      /\ j \in Procs /\ \A p \in Procs : p = j \/ p \in Watchers
    BY TwoKinds DEF QuietInv, AloneInv, NoInterference
<1>2. CASE io[j].step = "truncated"
    <2>1. (CHOOSE p \in Procs : io[p].step = "truncated") = j
        BY <1>1, <1>2
    <2> QED BY <1>1, <1>2, <2>1 DEF Visible, VisibleAt
<1>3. CASE io[j].step # "truncated"
    BY <1>1, <1>3 DEF Visible, VisibleAt
<1> QED BY <1>2, <1>3

\* The same in the next state.
LEMMA VisibleIsNext == (OneJob /\ QuietInv => \A j \in Jobs : VisibleAt(j))'
BY VisibleIs, PTL

\* A step leaves what is visible as it is, or is one of the lifecycle.
LEMMA VisibleSteps ==
    ASSUME Undisturbed, QuietInv, [Next]_vars
    PROVE  /\ QuietInv' /\ LifecycleStep(Visible, Visible')
           /\ IsEntries(Visible) /\ DOMAIN Visible \subseteq InitialEntries
<1>1. OneJob /\ TypeOK /\ QuietInv'
    BY QuietNext DEF Undisturbed, Alone, QuietInv, AloneInv, Located
<1>2. PICK j \in Jobs : Jobs = {j}
    BY <1>1 DEF OneJob
<1>3. /\ Visible = IF io[j].step = "truncated" THEN io[j].entries ELSE file
      /\ Visible' = IF io'[j].step = "truncated" THEN io'[j].entries ELSE file'
    BY <1>1, VisibleIs, VisibleIsNext DEF VisibleAt, OneJob
<1>4. IsEntries(Visible) /\ DOMAIN Visible \subseteq InitialEntries /\ j \in Procs
    BY <1>1, <1>3, TwoKinds DEF TypeOK, IsOperation, QuietInv, Target
<1>5. CASE Truncate(j)
    <2>1. io[j].step = "loaded" /\ io'[j].step = "truncated" /\ io'[j].entries = io[j].entries
        BY <1>1, <1>4, <1>5, OperationFacts DEF Truncate
    <2>2. Visible = file /\ Evolves(file, io[j].entries) /\ Visible' = io[j].entries
        BY <1>3, <2>1 DEF QuietInv
    <2> QED BY <1>1, <1>4, <2>2, EvolvesIsStep
<1>6. CASE Write(j)
    <2>1. io[j].step = "truncated" /\ io'[j] = NoOperation /\ file' = io[j].entries
        BY <1>1, <1>4, <1>6, OperationFacts DEF Write
    <2> QED BY <1>1, <1>3, <1>4, <2>1 DEF NoOperation, LifecycleStep
<1>7. CASE /\ file' = file
           /\ \A p \in Procs : (io'[p].step = "truncated") <=> (io[p].step = "truncated")
           /\ \A p \in Procs : io[p].step = "truncated" => io'[p] = io[p]
    BY <1>1, <1>3, <1>4, <1>7 DEF LifecycleStep
<1> QED BY <1>2, <1>5, <1>6, <1>7, QuietNext

\* Undisturbed, the job takes the entries through their life as RecoveryLifecycle has it
\* (ImplementsLifecycle), at the moment it truncates the file; every other step is a stutter.
THEOREM RecoveryImplementsLifecycle == Undisturbed => (Spec => ImplementsLifecycle)
<1> SUFFICES ASSUME Undisturbed PROVE Spec => ImplementsLifecycle
    OBVIOUS
<1> DEFINE st == [n \in Blocks |-> IF n \in DOMAIN Visible THEN Visible[n].status
                                   ELSE IF n \in undetected \cup (Blocks \ InitialEntries)
                                   THEN "Untracked" ELSE "Gone"]
           rc == [n \in Blocks |-> IF n \in DOMAIN Visible THEN Visible[n].retry_count ELSE 0]
<1>1. QuietInv => undetected = {}
    BY DEF QuietInv, AloneInv, NoInterference
<1>2. Init => Lifecycle!Init
    <2> SUFFICES ASSUME Init PROVE Lifecycle!Init
        OBVIOUS
    <2>1. QuietInv /\ OneJob /\ undetected = {}
        BY <1>1, QuietInit DEF Undisturbed, Alone
    <2>2. PICK j \in Jobs : VisibleAt(j)
        BY <2>1, VisibleIs DEF OneJob
    <2>3. Visible = [n \in InitialEntries |-> NewEntry]
        BY <2>2 DEF Init, VisibleAt, NoOperation, Procs
    <2>4. st \in [Blocks -> {"Untracked", "Pending"}] /\ rc = [n \in Blocks |-> 0]
        BY <2>1, <2>3 DEF NewEntry
    <2> QED BY <2>4 DEF Lifecycle!Init
<1>3. QuietInv /\ [Next]_vars => [Lifecycle!Next]_(Lifecycle!vars)
    <2> SUFFICES ASSUME QuietInv, [Next]_vars PROVE [Lifecycle!Next]_(Lifecycle!vars)
        OBVIOUS
    <2>1. /\ QuietInv' /\ LifecycleStep(Visible, Visible')
          /\ IsEntries(Visible) /\ DOMAIN Visible \subseteq InitialEntries
        BY VisibleSteps
    <2>2. undetected = {} /\ undetected' = {}
        BY <1>1, <2>1 DEF QuietInv, AloneInv, NoInterference
    <2>3. /\ st = StatusIn(Visible) /\ rc = CountIn(Visible)
          /\ st' = StatusIn(Visible') /\ rc' = CountIn(Visible')
        BY <2>2 DEF StatusIn, CountIn
    <2>4. CASE UNCHANGED <<st, rc>>
        BY <2>4 DEF Lifecycle!vars
    <2>5. ASSUME NEW n \in Blocks, NEW status \in Statuses, n \in DOMAIN Visible,
                 Allowed(Visible[n], status), st' = [st EXCEPT ![n] = status],
                 rc' = IF status \in {"Pending", "Failed"} THEN [rc EXCEPT ![n] = @ + 1] ELSE rc
          PROVE  Lifecycle!Next
        <3>1. st[n] = Visible[n].status /\ rc[n] = Visible[n].retry_count
            BY <2>5
        <3> HIDE DEF st, rc
        <3>2. \/ st[n] = "Pending" /\ st' = [st EXCEPT ![n] = "Recovering"] /\ rc' = rc
              \/ st[n] = "Recovering" /\ st' = [st EXCEPT ![n] = "Recovered"] /\ rc' = rc
              \/ /\ rc[n] + 1 < max_retries
                 /\ st[n] = "Recovering" /\ st' = [st EXCEPT ![n] = "Pending"]
                 /\ rc' = [rc EXCEPT ![n] = @ + 1]
              \/ /\ rc[n] + 1 = max_retries
                 /\ st[n] = "Recovering" /\ st' = [st EXCEPT ![n] = "Failed"]
                 /\ rc' = [rc EXCEPT ![n] = @ + 1]
            BY <2>5, <3>1 DEF Allowed
        <3> QED BY <3>2 DEF Lifecycle!Next, Lifecycle!Attempt, Lifecycle!Recover, Lifecycle!Retry,
                            Lifecycle!GiveUp, Lifecycle!Move, st, rc
    <2>6. ASSUME NEW S \in SUBSET Blocks,
                 \A n \in S : st[n] # "Untracked",
                 (\A n \in S : st[n] = "Recovered") \/ (\A n \in Blocks : st[n] # "Recovering"),
                 st' = [n \in Blocks |-> IF n \in S THEN "Gone" ELSE st[n]],
                 rc' = [n \in Blocks |-> IF n \in S THEN 0 ELSE rc[n]]
          PROVE  Lifecycle!Next
        BY <2>6 DEF Lifecycle!Next, Lifecycle!Forget
    <2> HIDE DEF st, rc
    <2>7. \/ UNCHANGED <<st, rc>>
          \/ \E n \in Blocks, status \in Statuses :
                 /\ n \in DOMAIN Visible
                 /\ Allowed(Visible[n], status) /\ st' = [st EXCEPT ![n] = status]
                 /\ rc' = IF status \in {"Pending", "Failed"} THEN [rc EXCEPT ![n] = @ + 1] ELSE rc
          \/ \E S \in SUBSET Blocks :
                 /\ \A n \in S : st[n] # "Untracked"
                 /\ (\A n \in S : st[n] = "Recovered") \/ (\A n \in Blocks : st[n] # "Recovering")
                 /\ st' = [n \in Blocks |-> IF n \in S THEN "Gone" ELSE st[n]]
                 /\ rc' = [n \in Blocks |-> IF n \in S THEN 0 ELSE rc[n]]
        BY <2>1, <2>3 DEF LifecycleStep
    <2> QED BY <2>4, <2>5, <2>6, <2>7
<1> QED BY <1>2, <1>3, QuietInvariance, PTL DEF Spec, ImplementsLifecycle, Lifecycle!Spec
=============================================================================
