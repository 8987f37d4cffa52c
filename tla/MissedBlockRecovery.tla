------------------------ MODULE MissedBlockRecovery -------------------------
(***************************************************************************)
(* The missed-blocks file of one network and those who change it: the runs *)
(* of the main watcher, which record the gaps they detect                  *)
(* (save_missed_blocks), and the runs of the recovery job (recovery.rs).   *)
(* The scheduler starts a run at every tick, whether or not the earlier    *)
(* ones have ended (service.rs), and nothing locks the file.               *)
(* Every operation of FileBlockStorage on it (storage.rs) reads all the    *)
(* entries, computes new ones and writes them back with tokio::fs::write,  *)
(* which truncates the file before it writes: three steps that interleave  *)
(* with those of the others, and between which the process may die.  An    *)
(* empty file and no file are both read as no entries.                     *)
(***************************************************************************)
EXTENDS Integers, FiniteSets, Functions

CONSTANTS
    Blocks,         \* the numbers of the blocks that may be missed
    Jobs,           \* runs of the recovery job that may overlap
    Watchers,       \* runs of the main watcher that may overlap
    InitialEntries, \* the blocks with a Pending entry in the file at first
    Undetected,     \* the blocks the main watcher may find missing
    InitialConfirmed, MaxConfirmed, \* bounds of the latest confirmed block
    MaxCount,       \* bound: the retry_count up to which attempts may fail
    max_retries, max_block_age, max_blocks_per_run,     \* recovery_config
    StorageFails,   \* whether a file operation may fail
    Crashes         \* whether the process may be killed and restarted

ASSUME RecoveryAssumption ==
    /\ Blocks \subseteq Nat /\ IsFiniteSet(Blocks)
    /\ Jobs \cap Watchers = {}
    /\ InitialEntries \subseteq Blocks /\ Undetected \subseteq Blocks
    /\ InitialConfirmed \in Nat /\ MaxConfirmed \in Nat /\ MaxCount \in Nat
    /\ max_retries \in Nat \ {0} /\ max_block_age \in Nat /\ max_blocks_per_run \in Nat
    /\ StorageFails \in BOOLEAN /\ Crashes \in BOOLEAN

VARIABLES
    file,           \* the entries in the file: a function from block numbers
    garbled,        \* the file does not parse: two writes have overlapped
    io,             \* io[p]: the operation process p has under way on the file
    pc,             \* pc[p]: where p is, or where it goes on after its operation
    current_confirmed,  \* current_confirmed[j]: as job run j has learnt it
    queue,          \* queue[j]: the retry_counts of the entries j has selected and not done
    recovered,      \* recovered[j]: recovered_blocks
    confirmed,      \* the latest confirmed block
    undetected,     \* history: blocks the main watcher has not recorded yet
    triggered,      \* history: how often recovery triggered each block
    failures,       \* history: how often the attempts at each block failed, up to max_retries
    pruned          \* history: blocks pruned for their age

vars == <<file, garbled, io, pc, current_confirmed, queue, recovered, confirmed, undetected, triggered, failures, pruned>>

Procs == Jobs \cup Watchers
Statuses == {"Pending", "Recovering", "Recovered", "Failed"}

\* MissedBlockEntry::new
NewEntry == [status |-> "Pending", retry_count |-> 0]
NoEntries == <<>>
NoOperation == [step |-> "none", entries |-> NoEntries]

Init ==
    /\ file = [n \in InitialEntries |-> NewEntry]
    /\ garbled = FALSE
    /\ io = [p \in Procs |-> NoOperation]
    /\ pc = [p \in Procs |-> "idle"]
    /\ current_confirmed = [j \in Jobs |-> 0]
    /\ queue = [j \in Jobs |-> NoEntries]
    /\ recovered = [j \in Jobs |-> {}]
    /\ confirmed = InitialConfirmed
    /\ undetected = Undetected
    /\ triggered = [n \in Blocks |-> 0]
    /\ failures = [n \in Blocks |-> 0]
    /\ pruned = {}

-----------------------------------------------------------------------------
(* What the operations make of the entries they have read.                 *)

WithNew(entries, S) ==
    [n \in DOMAIN entries \cup S |-> IF n \in DOMAIN entries THEN entries[n] ELSE NewEntry]

\* Mutant: the attempt is counted when it starts, and again when it fails.
UpdatedAlways(entries, n, status) ==
    [m \in DOMAIN entries |->
        IF m # n THEN entries[m]
        ELSE [status |-> status, retry_count |-> entries[m].retry_count + 1]]

\* Mutant: the status changes, the count does not.
UpdatedStatus(entries, n, status) ==
    [m \in DOMAIN entries |->
        IF m # n THEN entries[m]
        ELSE [status |-> status, retry_count |-> entries[m].retry_count]]

\* update_missed_block_status: a retry or a failure costs one attempt.
Updated(entries, n, status) ==
    [m \in DOMAIN entries |->
        IF m # n THEN entries[m]
        ELSE [status |-> status,
              retry_count |-> entries[m].retry_count
                                  + IF status \in {"Pending", "Failed"} THEN 1 ELSE 0]]

Without(entries, S) == Restrict(entries, DOMAIN entries \ S)

\* saturating_sub
MinBlock(current_block) ==
    IF current_block > max_block_age THEN current_block - max_block_age ELSE 0

\* get_missed_blocks
Eligible(entries, current_block) ==
    {n \in DOMAIN entries : /\ n >= MinBlock(current_block)
                            /\ entries[n].status = "Pending"
                            /\ entries[n].retry_count < max_retries}

\* sort_by_key and truncate: the oldest max_blocks_per_run of S.
Oldest(S) == {n \in S : Cardinality({m \in S : m < n}) < max_blocks_per_run}

-----------------------------------------------------------------------------
(* The three steps of an operation.                                        *)

Ready(p, at) == io[p].step = "none" /\ pc[p] = at

\* p reads the file, will write entries, and then goes on at next; if the file does
\* not parse the operation fails and p goes on at otherwise.
Operate(p, entries, next, otherwise) ==
    /\ io' = IF garbled THEN io
             ELSE [io EXCEPT ![p] = [step |-> "loaded", entries |-> entries]]
    /\ pc' = [pc EXCEPT ![p] = IF garbled THEN otherwise ELSE next]
    /\ UNCHANGED <<file, garbled, confirmed, undetected>>

Truncate(p) ==
    /\ io[p].step = "loaded"
    /\ file' = NoEntries
    /\ garbled' = FALSE
    /\ io' = [io EXCEPT ![p].step = "truncated"]
    /\ UNCHANGED <<current_confirmed, pc, queue, recovered, confirmed, undetected, triggered, failures, pruned>>

\* p writes from the start of the file.  What another process has written there since
\* p truncated it stays behind p's text if it is longer, and the file is garbled.
Write(p) ==
    /\ io[p].step = "truncated"
    /\ file' = io[p].entries
    /\ garbled' \in IF file = NoEntries THEN {FALSE} ELSE BOOLEAN
    /\ io' = [io EXCEPT ![p] = NoOperation]
    /\ undetected' = IF p \in Watchers THEN undetected \ DOMAIN io[p].entries ELSE undetected
    /\ UNCHANGED <<current_confirmed, pc, queue, recovered, confirmed, triggered, failures, pruned>>

\* The write fails, before or after it has truncated the file.  A job run that was
\* pruning ends; everywhere else it logs a warning and goes on.  The main watcher's
\* run ends, and a later one finds the same gap.
OperationFails(p) ==
    /\ StorageFails
    /\ io[p].step # "none"
    /\ io' = [io EXCEPT ![p] = NoOperation]
    /\ pc' = [pc EXCEPT ![p] = IF @ = "selecting" THEN "idle" ELSE @]
    /\ UNCHANGED <<current_confirmed, file, garbled, queue, recovered, confirmed, undetected, triggered, failures, pruned>>

-----------------------------------------------------------------------------

ChainGrows ==
    /\ confirmed < MaxConfirmed
    /\ confirmed' = confirmed + 1
    /\ UNCHANGED <<current_confirmed, file, garbled, io, pc, queue, recovered, undetected, triggered, failures, pruned>>

\* save_missed_blocks, by a run of the main watcher.  A gap is found again, recorded or
\* not, by a run that overlaps, and by a later one if the last block was not saved.
Detect(w, S) ==
    /\ Ready(w, "idle")
    /\ S # {} /\ S \subseteq Undetected
    /\ Operate(w, WithNew(file, S), "idle", "idle")
    /\ UNCHANGED <<current_confirmed, queue, recovered, triggered, failures, pruned>>

\* The job fires, learns the latest block and prunes; nothing is written if nothing
\* is too old.
Prune(j) ==
    /\ Ready(j, "idle")
    /\ ~garbled
    /\ LET old == {n \in DOMAIN file : n < MinBlock(confirmed)}
       IN  /\ IF old = {}
              THEN /\ pc' = [pc EXCEPT ![j] = "selecting"]
                   /\ UNCHANGED <<file, garbled, io, confirmed, undetected>>
              ELSE Operate(j, Without(file, old), "selecting", "idle")
           /\ pruned' = pruned \cup old
    /\ current_confirmed' = [current_confirmed EXCEPT ![j] = confirmed]
    /\ UNCHANGED <<queue, recovered, triggered, failures>>

\* get_missed_blocks, sort, truncate.
Select(j) ==
    /\ Ready(j, "selecting")
    /\ ~garbled
    /\ LET selected == Oldest(Eligible(file, current_confirmed[j]))
       IN  /\ queue' = [queue EXCEPT ![j] = [n \in selected |-> file[n].retry_count]]
           /\ pc' = [pc EXCEPT ![j] = IF selected = {} THEN "idle" ELSE "attempting"]
    /\ recovered' = [recovered EXCEPT ![j] = {}]
    /\ UNCHANGED <<file, garbled, io, current_confirmed, confirmed, undetected, triggered, failures, pruned>>

\* The run cannot prune or select, because the file does not parse, and ends.
CannotRead(j) ==
    /\ Ready(j, "idle") \/ Ready(j, "selecting")
    /\ garbled
    /\ pc' = [pc EXCEPT ![j] = "idle"]
    /\ UNCHANGED <<current_confirmed, file, garbled, io, queue, recovered, confirmed, undetected, triggered, failures, pruned>>

Waiting(j) == DOMAIN queue[j]

\* The entry the run works on: the oldest of those left.
Current(j) == CHOOSE n \in Waiting(j) : \A m \in Waiting(j) : n <= m
SelectedCount(j) == queue[j][Current(j)]

MarkRecovering(j) ==
    /\ Ready(j, "attempting")
    /\ Waiting(j) # {}
    /\ Operate(j, Updated(file, Current(j), "Recovering"),
               "fetching", "fetching")
    /\ UNCHANGED <<current_confirmed, queue, recovered, triggered, failures, pruned>>

\* Mutant: the run goes on without marking the block.
FetchedUnmarked(j) ==
    /\ Ready(j, "fetching")
    /\ triggered' = [triggered EXCEPT ![Current(j)] =
                         IF @ < 2 THEN @ + 1 ELSE @]
    /\ pc' = [pc EXCEPT ![j] = "attempting"]
    /\ UNCHANGED <<current_confirmed, file, garbled, io, queue, recovered, confirmed, undetected, failures, pruned>>

\* get_blocks(n, n) returns the block; the block handler and the trigger handler
\* have been called.
Fetched(j) ==
    /\ Ready(j, "fetching")
    /\ triggered' = [triggered EXCEPT ![Current(j)] =
                         IF @ < 2 THEN @ + 1 ELSE @]
    /\ pc' = [pc EXCEPT ![j] = "fetched"]
    /\ UNCHANGED <<current_confirmed, file, garbled, io, queue, recovered, confirmed, undetected, failures, pruned>>

MarkRecovered(j) ==
    /\ Ready(j, "fetched")
    /\ Operate(j, Updated(file, Current(j), "Recovered"),
               "attempting", "attempting")
    /\ queue' = [queue EXCEPT ![j] = Without(@, {Current(j)})]
    /\ recovered' = [recovered EXCEPT ![j] = @ \cup {Current(j)}]
    /\ UNCHANGED <<current_confirmed, triggered, failures, pruned>>

Fails(n) ==
    /\ n \in DOMAIN file => file[n].retry_count < MaxCount
    /\ failures' = [failures EXCEPT ![n] = IF @ < max_retries THEN @ + 1 ELSE @]

\* Mutant: an error goes on to the next block before the status is updated.
AttemptFailsUnmarked(j) ==
    /\ Ready(j, "fetching")
    /\ Fails(Current(j))
    /\ pc' = [pc EXCEPT ![j] = "attempting"]
    /\ queue' = [queue EXCEPT ![j] = Without(@, {Current(j)})]
    /\ UNCHANGED <<current_confirmed, file, garbled, io, recovered, confirmed, undetected, triggered, pruned>>

\* Mutant: the attempt that is failing is counted twice.
AttemptFailsEarly(j) ==
    /\ Ready(j, "fetching")
    /\ Fails(Current(j))
    /\ Operate(j, Updated(file, Current(j),
                          IF SelectedCount(j) + 2 >= max_retries
                          THEN "Failed" ELSE "Pending"),
               "attempting", "attempting")
    /\ queue' = [queue EXCEPT ![j] = Without(@, {Current(j)})]
    /\ UNCHANGED <<current_confirmed, recovered, triggered, pruned>>

\* get_blocks(n, n) fails or returns nothing.  Whether that was the last attempt is
\* decided by the count the entry had when it was selected.
AttemptFails(j) ==
    /\ Ready(j, "fetching")
    /\ Fails(Current(j))
    /\ Operate(j, Updated(file, Current(j),
                          IF SelectedCount(j) + 1 >= max_retries
                          THEN "Failed" ELSE "Pending"),
               "attempting", "attempting")
    /\ queue' = [queue EXCEPT ![j] = Without(@, {Current(j)})]
    /\ UNCHANGED <<current_confirmed, recovered, triggered, pruned>>

\* Mutant: every entry that is not Pending is removed.
FinishRemovesFailed(j) ==
    /\ Ready(j, "attempting")
    /\ Waiting(j) = {}
    /\ Operate(j, Without(file, {n \in DOMAIN file : file[n].status # "Pending"}), "idle", "idle")
    /\ UNCHANGED <<current_confirmed, queue, recovered, triggered, failures, pruned>>

\* remove_recovered_blocks, if there are any; the run ends.
Finish(j) ==
    /\ Ready(j, "attempting")
    /\ Waiting(j) = {}
    /\ IF recovered[j] = {}
       THEN pc' = [pc EXCEPT ![j] = "idle"] /\ UNCHANGED <<file, garbled, io, confirmed, undetected>>
       ELSE Operate(j, Without(file, recovered[j]), "idle", "idle")
    /\ UNCHANGED <<current_confirmed, queue, recovered, triggered, failures, pruned>>

\* The process is killed and restarted: only the file is left.
Crash ==
    /\ Crashes
    /\ io' = [p \in Procs |-> NoOperation]
    /\ pc' = [p \in Procs |-> "idle"]
    /\ current_confirmed' = [j \in Jobs |-> 0]
    /\ queue' = [j \in Jobs |-> NoEntries]
    /\ recovered' = [j \in Jobs |-> {}]
    /\ UNCHANGED <<file, garbled, confirmed, undetected, triggered, failures, pruned>>

-----------------------------------------------------------------------------

FileStep(p) == Truncate(p) \/ Write(p)

Work(j) == MarkRecovering(j) \/ MarkRecovered(j) \/ Finish(j) \/ Select(j) \/ CannotRead(j)

Answer(j) == Fetched(j) \/ AttemptFails(j)

Next ==
    \/ \E p \in Procs : FileStep(p) \/ OperationFails(p)
    \/ \E j \in Jobs : Prune(j) \/ Work(j) \/ Answer(j)
    \/ \E w \in Watchers, S \in SUBSET Undetected : Detect(w, S)
    \/ ChainGrows
    \/ Crash

Spec == Init /\ [][Next]_vars

\* The job keeps firing and a run that can proceed does; a fetch is answered, if
\* only by an error.
FairSpec ==
    /\ Spec
    /\ \A p \in Procs : WF_vars(FileStep(p))
    /\ \A j \in Jobs : WF_vars(Prune(j) \/ Work(j) \/ Answer(j))

-----------------------------------------------------------------------------

IsEntries(E) ==
    /\ DOMAIN E \subseteq Blocks
    /\ E \in [DOMAIN E -> [status : Statuses, retry_count : Nat]]

IsOperation(o) ==
    /\ o \in [step : {"none", "loaded", "truncated"}, entries : {o.entries}]
    /\ IsEntries(o.entries)

IsQueue(q) == DOMAIN q \subseteq Blocks /\ q \in [DOMAIN q -> Nat]

\* Type correctness.
TypeOK ==
    /\ IsEntries(file)
    /\ garbled \in BOOLEAN
    /\ io = [p \in Procs |-> io[p]] /\ \A p \in Procs : IsOperation(io[p])
    /\ pc \in [Procs -> {"idle", "selecting", "attempting", "fetching", "fetched"}]
    /\ current_confirmed \in [Jobs -> Nat]
    /\ queue = [j \in Jobs |-> queue[j]] /\ \A j \in Jobs : IsQueue(queue[j])
    /\ recovered \in [Jobs -> SUBSET Blocks]
    /\ confirmed \in Nat
    /\ undetected \subseteq Blocks
    /\ triggered \in [Blocks -> 0 .. 2]
    /\ failures \in [Blocks -> Nat]
    /\ pruned \subseteq Blocks

\* An entry says Failed only if as many attempts at its block have failed as the
\* configuration allows (max_retries): overlapping runs that write back old counts, lost
\* updates, failing writes and crashes may make the recovery try too often, and never
\* make it give up too early.
GivenUpOnlyAfterMaxRetries ==
    \A n \in DOMAIN file : file[n].status = "Failed" => failures[n] >= max_retries

\* "Maximum number of retry attempts per block before marking as failed"
\* (models/core/network.rs): the file never counts more failed attempts than that.  It
\* takes runs that do not overlap, of the job or of the watcher.
RetryBound == \A n \in DOMAIN file : file[n].retry_count <= max_retries

\* Recovery hands a block to the trigger handler at most once.
TriggeredOnce == \A n \in Blocks : triggered[n] <= 1

\* "Block recovery is in progress" (storage.rs): an entry says Recovering only while
\* a run of the job works on its block.
RecoveringIsInProgress ==
    \A n \in DOMAIN file :
        file[n].status = "Recovering" =>
            \E j \in Jobs : \/ io[j].step # "none"
                            \/ Waiting(j) # {} /\ Current(j) = n

\* "The missed blocks file tracks blocks that failed to be fetched or processed"
\* (docs/index.mdx): unless the file is being written, each block that was found
\* missing has its entry until it is recovered or pruned.
MissedBlocksTracked ==
    (\A p \in Procs : io[p].step = "none") /\ ~garbled =>
        \A n \in (InitialEntries \cup Undetected) \ (undetected \cup pruned) :
            n \in DOMAIN file \/ triggered[n] > 0

\* Every missed block is eventually recovered, given up or pruned: the oldest ones
\* do not starve the others of the max_blocks_per_run attempts of a run.
EventuallyResolved ==
    \A n \in InitialEntries :
        <>(triggered[n] > 0 \/ n \in pruned \/ (n \in DOMAIN file /\ file[n].status = "Failed"))

\* A single job run at a time, undisturbed, makes the entries live as
\* RecoveryLifecycle says.  While p has the file truncated its entries count.
Visible ==
    IF \E p \in Procs : io[p].step = "truncated"
    THEN io[CHOOSE p \in Procs : io[p].step = "truncated"].entries ELSE file

Lifecycle == INSTANCE RecoveryLifecycle WITH
    status <- [n \in Blocks |-> IF n \in DOMAIN Visible THEN Visible[n].status
                                ELSE IF n \in undetected \cup (Blocks \ InitialEntries)
                                THEN "Untracked" ELSE "Gone"],
    retry_count <- [n \in Blocks |-> IF n \in DOMAIN Visible
                                     THEN Visible[n].retry_count ELSE 0]
ImplementsLifecycle == Lifecycle!Spec
=============================================================================
