---------------------------- MODULE BlockWatcher ----------------------------
(***************************************************************************)
(* The main watcher of one network: the runs of process_new_blocks that    *)
(* the cron job starts, the file that holds the last processed block, the  *)
(* blockchain client they ask and the trigger tasks they spawn, with       *)
(* crashes and restarts of the process.                                    *)
(*                                                                         *)
(* The scheduler starts a run at every tick, whether or not the previous   *)
(* one has ended: Runs has as many elements as runs may overlap.  Between  *)
(* fetching and saving, a run is the pipeline of BlockPipeline, taken here *)
(* as what it implements, OrderedDelivery, for handlers that do not panic. *)
(* The tracker only logs and is left out; the steps of a write of the      *)
(* missed-blocks file are in MissedBlockRecovery.                          *)
(***************************************************************************)
EXTENDS Integers, FiniteSets

CONSTANTS
    Runs,               \* runs that may overlap
    MaxHeight,          \* bound: the height the chain stops at
    InitialHeight,      \* the chain's height when the service is first started
    InitialFiles,       \* what <slug>_last_block.txt may hold then: NoFile or a number
    confirmation_blocks,    \* of the network's configuration
    max_past_blocks,        \* of the network's configuration
    store_blocks,           \* of the network's configuration
    records_missed,     \* store_blocks or recovery_config.enabled
    MaxLag,             \* how far behind the chain an answering node may be
    MaxLeftOut,         \* bound: how many blocks of a range the client may leave out
    StorageFails,       \* whether a file operation may fail
    Crashes             \* whether the process may be killed and restarted

NoFile == -1            \* file_path.exists() is false
Torn == -2              \* the file is there and empty: truncated, not yet written

ASSUME WatcherAssumption ==
    /\ MaxHeight \in Nat /\ InitialHeight \in 0 .. MaxHeight
    /\ InitialFiles \subseteq 0 .. MaxHeight \cup {NoFile}
    /\ confirmation_blocks \in Nat /\ max_past_blocks \in Nat /\ MaxLag \in Nat
    /\ MaxLeftOut \in Nat
    /\ {store_blocks, records_missed, StorageFails, Crashes} \subseteq BOOLEAN

VARIABLES
    height,         \* the chain's latest block
    last_file,      \* the last-block file: NoFile, Torn or a number
    block_files,    \* the numbers in <slug>_blocks_*.json
    missed,         \* the numbers recorded in the missed-blocks file
    run,            \* run[r]: where run r is and what it holds
    tasks,          \* blocks with a spawned trigger task that has not ended
    notified,       \* history: blocks one of whose trigger tasks has ended
    triggered,      \* history: blocks the trigger handler was called for
    twice,          \* history: blocks it was called for more than once
    skipped,        \* history: blocks max_past_blocks left out
    unseen,         \* history: blocks answers left out where no hole is recorded
    origin          \* history: the highest block where a first run began

environment == <<height, block_files, missed, tasks, notified, triggered, twice, skipped, unseen, origin>>
vars == <<environment, last_file, run>>

Blocks == 0 .. MaxHeight

\* A run that is not there; the fields are process_new_blocks' local variables.
IdleRun == [pc |-> "idle", last |-> 0, confirmed |-> 0, fetched |-> {}, remaining |-> {}]

SaturatingSub(a, b) == IF a > b THEN a - b ELSE 0
Larger(a, b) == IF a >= b THEN a ELSE b

Init ==
    /\ height = InitialHeight
    /\ last_file \in InitialFiles
    /\ block_files = {}
    /\ missed = {}
    /\ run = [r \in Runs |-> IdleRun]
    /\ tasks = {}
    /\ notified = {}
    /\ triggered = {}
    /\ twice = {}
    /\ skipped = {}
    /\ unseen = {}
    /\ origin = last_file + 1

Goto(r, pc) == run' = [run EXCEPT ![r].pc = pc]
Leave(r) == run' = [run EXCEPT ![r] = IdleRun]

-----------------------------------------------------------------------------

ChainGrows ==
    /\ height < MaxHeight
    /\ height' = height + 1
    /\ UNCHANGED <<last_file, block_files, missed, run, tasks, notified, triggered,
                   twice, skipped, unseen, origin>>

\* The job fires and process_new_blocks reads the last processed block, 0 if there
\* is no file; an empty file does not parse, and the run ends with the error.
Tick(r) ==
    /\ run[r].pc = "idle"
    /\ last_file # Torn
    /\ run' = [run EXCEPT ![r].pc = "asking",
                          ![r].last = IF last_file = NoFile THEN 0 ELSE last_file]
    /\ UNCHANGED <<environment, last_file>>

\* get_latest_block_number, answered by a node that may lag behind the chain.
GetLatest(r, latest) ==
    /\ run[r].pc = "asking"
    /\ latest \in SaturatingSub(height, MaxLag) .. height
    /\ run' = [run EXCEPT ![r].pc = "fetching",
                          ![r].confirmed = SaturatingSub(latest, confirmation_blocks)]
    /\ UNCHANGED <<environment, last_file>>

\* Mutant: the last processed block is asked for again.
StartBlockRepeats(r) ==
    Larger(run[r].last, SaturatingSub(run[r].confirmed, max_past_blocks))

StartBlock(r) ==
    Larger(run[r].last + 1, SaturatingSub(run[r].confirmed, max_past_blocks))

\* Mutant: last_processed_block + 1 < confirmed_block.
RequestedStrictly(r) ==
    IF run[r].last = 0 THEN {run[r].confirmed}
    ELSE IF run[r].last + 1 < run[r].confirmed THEN StartBlock(r) .. run[r].confirmed
    ELSE {}

\* What the run asks for: one block the first time, else the range up to the
\* confirmed block, else nothing.
Requested(r) ==
    IF run[r].last = 0 THEN {run[r].confirmed}
    ELSE IF run[r].last < run[r].confirmed THEN StartBlock(r) .. run[r].confirmed
    ELSE {}

\* get_latest_block_number or get_blocks fails: the run ends, nothing is saved.
RpcError(r) ==
    /\ run[r].pc \in {"asking", "fetching"}
    /\ run[r].pc = "fetching" => Requested(r) # {}
    /\ Leave(r)
    /\ UNCHANGED <<environment, last_file>>

\* detect_missing_blocks: the holes between the smallest and the largest number
\* fetched.  What is missing before the first or after the last goes unseen.
Missing(fetched) == UNION {a .. b : a, b \in fetched} \ fetched

\* What is saved of them, if the network records missed blocks.
Recorded(fetched) == IF records_missed THEN Missing(fetched) ELSE {}

\* get_blocks, the tracker's reset and detect_missing_blocks.
GetBlocks(r, answer) ==
    /\ run[r].pc = "fetching"
    /\ answer \subseteq Requested(r)
    /\ Cardinality(Requested(r) \ answer) <= MaxLeftOut
    /\ run' = [run EXCEPT ![r].pc = "recording", ![r].fetched = answer,
                          ![r].remaining = answer]
    /\ skipped' = IF run[r].last # 0 /\ run[r].last < run[r].confirmed
                  THEN skipped \cup (run[r].last + 1 .. StartBlock(r) - 1) ELSE skipped
    /\ unseen' = unseen \cup (Requested(r) \ (answer \cup Recorded(answer)))
    /\ origin' = IF run[r].last = 0 THEN Larger(origin, run[r].confirmed) ELSE origin
    /\ UNCHANGED <<height, last_file, block_files, missed, tasks, notified, triggered, twice>>

\* save_missed_blocks.
RecordMissed(r) ==
    /\ run[r].pc = "recording"
    /\ missed' = missed \cup Recorded(run[r].fetched)
    /\ Goto(r, "delivering")
    /\ UNCHANGED <<height, last_file, block_files, tasks, notified, triggered, twice,
                   skipped, unseen, origin>>

\* The pipeline calls the trigger handler, which spawns a task, for the smallest
\* number left.
Deliver(r) ==
    /\ run[r].pc = "delivering"
    /\ \E n \in run[r].remaining :
           /\ \A m \in run[r].remaining : n <= m
           /\ run' = [run EXCEPT ![r].remaining = @ \ {n}]
           /\ tasks' = tasks \cup {n}
           /\ triggered' = triggered \cup {n}
           /\ twice' = twice \cup ({n} \cap triggered)
    /\ UNCHANGED <<height, last_file, block_files, missed, notified, skipped, unseen, origin>>

\* Mutant: the stages are spawned and not joined.
JoinPipelineEarly(r) ==
    /\ run[r].pc = "delivering"
    /\ Goto(r, IF store_blocks THEN "deleting" ELSE "saving")
    /\ UNCHANGED <<environment, last_file>>

\* Both stages are joined.  delete_blocks and save_blocks follow if blocks are
\* stored, then save_last_processed_block.
JoinPipeline(r) ==
    /\ run[r].pc = "delivering"
    /\ run[r].remaining = {}
    /\ Goto(r, IF store_blocks THEN "deleting" ELSE "saving")
    /\ UNCHANGED <<environment, last_file>>

DeleteBlocks(r) ==
    /\ run[r].pc = "deleting"
    /\ block_files' = {}
    /\ Goto(r, "storing")
    /\ UNCHANGED <<height, last_file, missed, tasks, notified, triggered, twice, skipped, unseen, origin>>

SaveBlocks(r) ==
    /\ run[r].pc = "storing"
    /\ block_files' = block_files \cup run[r].fetched
    /\ Goto(r, "saving")
    /\ UNCHANGED <<height, last_file, missed, tasks, notified, triggered, twice, skipped, unseen, origin>>

\* save_last_processed_block is a tokio::fs::write: it truncates the file, ...
TruncateLast(r) ==
    /\ run[r].pc = "saving"
    /\ last_file' = Torn
    /\ Goto(r, "writing")
    /\ UNCHANGED environment

\* Mutant: the block that was read is saved again.
WriteOldLast(r) ==
    /\ run[r].pc = "writing"
    /\ last_file' = run[r].last
    /\ Leave(r)
    /\ UNCHANGED environment

\* ... and writes the number; the run ends.  (Of two writes that overlap the later
\* one stands, for numbers of the same length; a shorter one over a longer one, 99
\* over 100, would leave a digit behind, which is not modelled.)
WriteLast(r) ==
    /\ run[r].pc = "writing"
    /\ last_file' = run[r].confirmed
    /\ Leave(r)
    /\ UNCHANGED environment

\* A file operation fails: the run ends there.
StorageError(r) ==
    /\ StorageFails
    /\ run[r].pc \in {"recording", "deleting", "storing", "saving", "writing"}
    /\ run[r].pc = "recording" => Recorded(run[r].fetched) # {}
    /\ Leave(r)
    /\ UNCHANGED <<environment, last_file>>

\* A trigger task has run the trigger conditions and sent the notifications.
TaskEnds(n) ==
    /\ n \in tasks
    /\ tasks' = tasks \ {n}
    /\ notified' = notified \cup {n}
    /\ UNCHANGED <<height, last_file, block_files, missed, run, triggered, twice, skipped, unseen, origin>>

\* The process is killed and restarted: only the files are left.
Crash ==
    /\ Crashes
    /\ run' = [r \in Runs |-> IdleRun]
    /\ tasks' = {}
    /\ UNCHANGED <<height, last_file, block_files, missed, notified, triggered, twice,
                   skipped, unseen, origin>>

-----------------------------------------------------------------------------

Respond(r) ==
    \/ \E latest \in Blocks : GetLatest(r, latest)
    \/ \E answer \in SUBSET Requested(r) : GetBlocks(r, answer)

Work(r) ==
    \/ RecordMissed(r) \/ Deliver(r) \/ JoinPipeline(r)
    \/ DeleteBlocks(r) \/ SaveBlocks(r) \/ TruncateLast(r) \/ WriteLast(r)

Next ==
    \/ \E r \in Runs : Tick(r) \/ Respond(r) \/ RpcError(r) \/ Work(r) \/ StorageError(r)
    \/ \E n \in tasks : TaskEnds(n)
    \/ ChainGrows
    \/ Crash

Spec == Init /\ [][Next]_vars

FetchUpToDate(r) ==
    /\ run[r].confirmed = SaturatingSub(height, confirmation_blocks)
    /\ \E answer \in SUBSET Requested(r) : GetBlocks(r, answer)

\* The job keeps firing, a run that can proceed does, a request is answered or fails,
\* and a trigger task ends.  Of the network it is assumed that no node lags and no
\* error lasts for ever: asked again and again, it answers again and again with the
\* chain's latest block, and then with the blocks up to it.
FairSpec ==
    /\ Spec
    /\ \A r \in Runs :
          /\ WF_vars(Tick(r))
          /\ WF_vars(Respond(r) \/ RpcError(r))
          /\ SF_vars(GetLatest(r, height))
          /\ SF_vars(FetchUpToDate(r))
          /\ WF_vars(Work(r))
    /\ \A n \in Blocks : WF_vars(TaskEnds(n))

-----------------------------------------------------------------------------

RunStates == [pc : {"idle", "asking", "fetching", "recording", "delivering",
                    "deleting", "storing", "saving", "writing"},
              last : Blocks, confirmed : Blocks,
              fetched : SUBSET Blocks, remaining : SUBSET Blocks]

\* Type correctness.
TypeOK ==
    /\ height \in Blocks
    /\ last_file \in Blocks \cup {NoFile, Torn}
    /\ \A S \in {block_files, missed, tasks, notified, triggered, twice, skipped, unseen} :
           S \subseteq Blocks
    /\ run \in [Runs -> RunStates]
    /\ origin \in 0 .. MaxHeight + 1

\* No block is lost in silence: from the block where watching began to the last
\* processed one, each was handed to the trigger handler, recorded as missed, left out
\* by max_past_blocks, or by an answer in which no hole is recorded there.  Runs that
\* fail, overlap or die, and writes of the last-block file in any order, must not open
\* a hole.
NoSilentLoss ==
    \A n \in origin .. last_file : n \in triggered \cup missed \cup skipped \cup unseen

\* "Tracks processed block numbers to prevent duplicate processing"
\* (docs/architecture.mdx): no block is handed to the trigger handler twice.
NoDuplicateProcessing == twice = {}

\* A save never takes the last processed block back below a block already handed
\* to the trigger handler, which the next run would process again.
LastNeverRegresses ==
    [][last_file' # last_file /\ last_file' # Torn
          => \A n \in triggered : n <= last_file']_vars

\* A block that is confirmed is eventually handed to the trigger handler and its
\* trigger task ends, unless it lies before the first run or was left out by
\* max_past_blocks, whatever errors the client meets on the way.
EventuallyNotified ==
    \A n \in Blocks :
        SaturatingSub(height, confirmation_blocks) = n
            ~> n \in notified \cup skipped \/ n < origin
=============================================================================
