--------------------------- MODULE BlockPipeline ----------------------------
(***************************************************************************)
(* The two-stage pipeline of process_new_blocks (blockwatcher/service.rs), *)
(* from the channels it creates to the join of its stages:                 *)
(*                                                                         *)
(*   main     feeds the fetched blocks, in order, into the process         *)
(*            channel, drops its senders and joins both stages;            *)
(*   stage 1  keeps up to Window block handlers in flight and sends each   *)
(*            result to the trigger channel as soon as it is there, so in  *)
(*            an order that is not that of the blocks;                     *)
(*   stage 2  buffers what it receives by number, triggers the run of      *)
(*            numbers that continues the one it expects, and when the      *)
(*            channel is closed triggers what is left, lowest first.       *)
(*                                                                         *)
(* The handlers are polled inside the task of stage 1: one that panics     *)
(* takes the task down, with the handlers in flight, the blocks it has not *)
(* read and its senders.  main then fails if it is still feeding; else it  *)
(* ignores the results of the join and goes on as after any other run.     *)
(*                                                                         *)
(* A channel is not shortened when it is read.  The process channel holds  *)
(* positions taken+1..fed of blocks; the trigger channel holds positions   *)
(* received+1..Len(completed) of completed.  The blocks' contents and the  *)
(* handlers' results are abstracted away: a result is the position of its  *)
(* block.                                                                  *)
(***************************************************************************)
EXTENDS BlockTracker, FiniteSets

CONSTANTS
    Batches,    \* what a run may start from: [blocks |-> ..., start_block |-> ...]
    Window,     \* buffer_unordered's limit; the service uses 32
    Histories,      \* what earlier runs may have left in processed_history
    Expectations    \* and in expected_next

ASSUME BatchesAssumption ==
    \A b \in Batches : /\ b.start_block \in Nat
                       /\ b.blocks \in Seq(Nat)
ASSUME WindowAssumption == Window \in Nat \ {0}
ASSUME TrackerAssumption ==
    /\ Histories \subseteq Seq(Nat)
    /\ Expectations \subseteq Nat \cup {Vacant}

\* What every chain client is asked for: blocks of the range, each of them once.
IsDistinct(b) ==
    /\ IsInjective(b.blocks)
    /\ \A n \in Range(b.blocks) : n >= b.start_block

VARIABLES
    blocks,             \* the numbers of the fetched blocks, as the client listed them
    start_block,        \* the first number the run asked for
    fed,                \* how many blocks main has sent to stage 1
    taken,              \* how many of those stage 1 has started
    in_flight,          \* positions whose handler is running
    completed,          \* positions in the order their results were sent
    received,           \* how many results stage 2 has received
    pending_blocks,     \* the keys of stage 2's BTreeMap
    next_block_number,  \* the number stage 2 waits for
    triggered,          \* the numbers trigger_handler was called with, in order
    main,               \* "starting", "feeding", "joining" (its senders are dropped),
                        \* "joined", "failed" (returned an error, its senders dropped)
    process_stage,      \* stage 1: "running", "ended" or "panicked" (its sender is dropped)
    trigger_stage       \* stage 2: "receiving", "draining", "ended"

pipelineVars == <<fed, taken, in_flight, completed, received, pending_blocks,
                  next_block_number, triggered, main, process_stage, trigger_stage>>
vars == <<blocks, start_block, pipelineVars, trackerVars>>

\* The bound of both channels.
Capacity == 2 * Len(blocks)

\* The blocks are fetched; the tracker is as earlier runs have left it.
Init ==
    /\ \E b \in Batches : blocks = b.blocks /\ start_block = b.start_block
    /\ processed_history \in Histories
    /\ expected_next \in Expectations
    /\ fed = 0
    /\ taken = 0
    /\ in_flight = {}
    /\ completed = <<>>
    /\ received = 0
    /\ pending_blocks = {}
    /\ next_block_number = start_block
    /\ triggered = <<>>
    /\ main = "starting"
    /\ process_stage = "running"
    /\ trigger_stage = "receiving"

-----------------------------------------------------------------------------

\* Mutant: the run does not reset the expectation.
StartWithoutReset ==
    /\ main = "starting"
    /\ main' = "feeding"
    /\ UNCHANGED <<blocks, start_block, fed, taken, in_flight, completed, received,
                   pending_blocks, next_block_number, triggered,
                   process_stage, trigger_stage, trackerVars>>

\* main: reset_expected_next, then the channels and both stages.
Start ==
    /\ main = "starting"
    /\ ResetExpectedNext(start_block)
    /\ main' = "feeding"
    /\ UNCHANGED <<blocks, start_block, fed, taken, in_flight, completed, received,
                   pending_blocks, next_block_number, triggered,
                   process_stage, trigger_stage>>

\* main: process_tx.send, one block after the other.
Feed ==
    /\ main = "feeding"
    /\ process_stage # "panicked"
    /\ fed < Len(blocks)
    /\ fed - taken < Capacity
    /\ fed' = fed + 1
    /\ UNCHANGED <<blocks, start_block, taken, in_flight, completed, received,
                   pending_blocks, next_block_number, triggered, main,
                   process_stage, trigger_stage, trackerVars>>

\* main: the receiver of the process channel is gone, a send fails and the run ends
\* with the error.  Stage 2 is not aborted.
FailToFeed ==
    /\ main = "feeding"
    /\ process_stage = "panicked"
    /\ fed < Len(blocks)
    /\ main' = "failed"
    /\ UNCHANGED <<blocks, start_block, fed, taken, in_flight, completed, received,
                   pending_blocks, next_block_number, triggered,
                   process_stage, trigger_stage, trackerVars>>

\* main: drop(process_tx), drop(trigger_tx).
DropSenders ==
    /\ main = "feeding"
    /\ fed = Len(blocks)
    /\ main' = "joining"
    /\ UNCHANGED <<blocks, start_block, fed, taken, in_flight, completed, received,
                   pending_blocks, next_block_number, triggered,
                   process_stage, trigger_stage, trackerVars>>

\* main: tokio::join! of both stages, whose results are ignored.
Join ==
    /\ main = "joining"
    /\ process_stage # "running"
    /\ trigger_stage = "ended"
    /\ main' = "joined"
    /\ UNCHANGED <<blocks, start_block, fed, taken, in_flight, completed, received,
                   pending_blocks, next_block_number, triggered,
                   process_stage, trigger_stage, trackerVars>>

\* Stage 1 pulls the next block and starts its handler.
StartHandler ==
    /\ process_stage = "running"
    /\ taken < fed
    /\ Cardinality(in_flight) < Window
    /\ taken' = taken + 1
    /\ in_flight' = in_flight \cup {taken + 1}
    /\ UNCHANGED <<blocks, start_block, fed, completed, received, pending_blocks,
                   next_block_number, triggered, main, process_stage,
                   trigger_stage, trackerVars>>

\* Any handler in flight may be the next to end; stage 1 sends its result on.
FinishHandler(i) ==
    /\ process_stage = "running"
    /\ i \in in_flight
    /\ Len(completed) - received < Capacity
    /\ in_flight' = in_flight \ {i}
    /\ completed' = Append(completed, i)
    /\ UNCHANGED <<blocks, start_block, fed, taken, received, pending_blocks,
                   next_block_number, triggered, main, process_stage,
                   trigger_stage, trackerVars>>

\* A handler in flight panics: the others are dropped where they are.
HandlerPanics ==
    /\ process_stage = "running"
    /\ in_flight # {}
    /\ process_stage' = "panicked"
    /\ in_flight' = {}
    /\ UNCHANGED <<blocks, start_block, fed, taken, completed, received, pending_blocks,
                   next_block_number, triggered, main, trigger_stage, trackerVars>>

\* The process channel is closed and empty and no handler is in flight.
EndProcessStage ==
    /\ process_stage = "running"
    /\ main = "joining"
    /\ taken = fed
    /\ in_flight = {}
    /\ process_stage' = "ended"
    /\ UNCHANGED <<blocks, start_block, fed, taken, in_flight, completed, received,
                   pending_blocks, next_block_number, triggered, main,
                   trigger_stage, trackerVars>>

-----------------------------------------------------------------------------

\* The inner loop of stage 2 has nothing to trigger.
WaitsForResult == trigger_stage = "receiving" /\ next_block_number \notin pending_blocks

\* Stage 2 buffers a result.  BTreeMap::insert replaces a block of the same number.
Receive ==
    /\ WaitsForResult
    /\ received < Len(completed)
    /\ received' = received + 1
    /\ pending_blocks' = pending_blocks \cup {blocks[completed[received + 1]]}
    /\ UNCHANGED <<blocks, start_block, fed, taken, in_flight, completed,
                   next_block_number, triggered, main, process_stage,
                   trigger_stage, trackerVars>>

\* Both places that trigger a block: the verdict of the tracker is logged and the
\* trigger handler is called whatever it says.
Trigger(n) ==
    /\ pending_blocks' = pending_blocks \ {n}
    /\ CheckProcessedBlock(n)
    /\ triggered' = Append(triggered, n)

\* The block stage 2 waits for is there.
TriggerNext ==
    /\ trigger_stage = "receiving"
    /\ next_block_number \in pending_blocks
    /\ Trigger(next_block_number)
    /\ next_block_number' = next_block_number + 1
    /\ UNCHANGED <<blocks, start_block, fed, taken, in_flight, completed, received,
                   main, process_stage, trigger_stage>>

\* Mutant: main keeps its own trigger_tx until both stages are joined.
StartDrainingAfterJoin ==
    /\ WaitsForResult
    /\ received = Len(completed)
    /\ main = "joined"
    /\ process_stage # "running"
    /\ trigger_stage' = "draining"
    /\ UNCHANGED <<blocks, start_block, fed, taken, in_flight, completed, received,
                   pending_blocks, next_block_number, triggered, main,
                   process_stage, trackerVars>>

\* The trigger channel is empty and every sender is dropped: main's and stage 1's.
StartDraining ==
    /\ WaitsForResult
    /\ received = Len(completed)
    /\ main \in {"joining", "failed"}
    /\ process_stage # "running"
    /\ trigger_stage' = "draining"
    /\ UNCHANGED <<blocks, start_block, fed, taken, in_flight, completed, received,
                   pending_blocks, next_block_number, triggered, main,
                   process_stage, trackerVars>>

\* Mutant: keys().next_back().
DrainHighest(n) ==
    /\ trigger_stage = "draining"
    /\ n \in pending_blocks
    /\ \A m \in pending_blocks : n >= m
    /\ Trigger(n)
    /\ UNCHANGED <<blocks, start_block, fed, taken, in_flight, completed, received,
                   next_block_number, main, process_stage, trigger_stage>>

\* pending_blocks.keys().next(): the smallest number left.
Drain(n) ==
    /\ trigger_stage = "draining"
    /\ n \in pending_blocks
    /\ \A m \in pending_blocks : n <= m
    /\ Trigger(n)
    /\ UNCHANGED <<blocks, start_block, fed, taken, in_flight, completed, received,
                   next_block_number, main, process_stage, trigger_stage>>

\* Mutant: what is still buffered when the channel closes is dropped.
EndTriggerStageUndrained ==
    /\ trigger_stage = "draining"
    /\ trigger_stage' = "ended"
    /\ UNCHANGED <<blocks, start_block, fed, taken, in_flight, completed, received,
                   pending_blocks, next_block_number, triggered, main,
                   process_stage, trackerVars>>

EndTriggerStage ==
    /\ trigger_stage = "draining"
    /\ pending_blocks = {}
    /\ trigger_stage' = "ended"
    /\ UNCHANGED <<blocks, start_block, fed, taken, in_flight, completed, received,
                   pending_blocks, next_block_number, triggered, main,
                   process_stage, trackerVars>>

-----------------------------------------------------------------------------

MainStep == Start \/ Feed \/ FailToFeed \/ DropSenders \/ Join

ProcessStep ==
    \/ StartHandler \/ EndProcessStage \/ HandlerPanics
    \/ \E i \in in_flight : FinishHandler(i)

TriggerStep ==
    \/ Receive \/ TriggerNext \/ StartDraining \/ EndTriggerStage
    \/ \E n \in pending_blocks : Drain(n)

\* The run goes on to save the last processed block, or has failed.
Terminated == main \in {"joined", "failed"} /\ trigger_stage = "ended" /\ UNCHANGED vars

Next == MainStep \/ ProcessStep \/ TriggerStep \/ Terminated

Spec == Init /\ [][Next]_vars

\* Each task is polled by the runtime as long as it can proceed, and a handler that
\* was started ends or panics.
FairSpec ==
    /\ Spec
    /\ WF_vars(MainStep)
    /\ WF_vars(ProcessStep)
    /\ WF_vars(TriggerStep)

-----------------------------------------------------------------------------

\* Type correctness.
TypeOK ==
    /\ \E b \in Batches : blocks = b.blocks /\ start_block = b.start_block
    /\ fed \in 0 .. Len(blocks)
    /\ taken \in 0 .. fed
    /\ in_flight \subseteq 1 .. taken
    /\ completed \in Seq(1 .. taken)
    /\ received \in 0 .. Len(completed)
    /\ pending_blocks \subseteq Range(blocks)
    /\ next_block_number \in Nat
    /\ triggered \in Seq(Range(blocks))
    /\ main \in {"starting", "feeding", "joining", "joined", "failed"}
    /\ process_stage \in {"running", "ended", "panicked"}
    /\ trigger_stage \in {"receiving", "draining", "ended"}
    /\ processed_history \in Seq(Nat)
    /\ expected_next \in Nat \cup {Vacant}

\* The trigger handler is called in strictly ascending order of block numbers, in
\* whatever order the block handlers end.
TriggeredInOrder ==
    \A i, j \in 1 .. Len(triggered) : i < j => triggered[i] < triggered[j]

\* The blocks whose trigger handler is going to be called: all of them, or those that
\* were handled before a handler panicked.
Owed ==
    IF process_stage = "panicked" THEN {blocks[completed[k]] : k \in 1 .. Len(completed)}
    ELSE Range(blocks)

Remaining == Owed \ Range(triggered)

\* A block is triggered only once every block below it that is owed has been: nothing
\* slower and lower can still come.
NoBlockOvertaken ==
    \A n \in Range(triggered) : \A m \in Remaining : n < m

\* Stage 2 ends, and the stages are joined, only when each fetched block has been
\* triggered exactly once: nothing is left in a channel, in flight or in the buffer.
\* The join ignores a panic of stage 1, so what a handler has finished before it must
\* still be triggered, and nothing else is.
AllTriggeredWhenJoined ==
    main = "joined" \/ trigger_stage = "ended" =>
        /\ Range(triggered) = Owed
        /\ IsInjective(triggered)

\* "This prevents false out-of-order warnings" (the comment on the reset): a run
\* that has the tracker to itself is never told OutOfOrder, whatever expectation
\* earlier runs left.
NoFalseOutOfOrder ==
    main # "starting" =>
        \A n \in Remaining :
            (\A m \in Remaining : n <= m) => CheckResult(n) # "out_of_order"

\* Both stages end, and main joins them or has failed: no task waits for a message
\* that never comes, when a handler panics neither.
Terminates == <>(main \in {"joined", "failed"} /\ trigger_stage = "ended")

\* The pipeline delivers as OrderedDelivery promises.
Delivery == INSTANCE OrderedDelivery WITH
    Fetches <- {Range(b.blocks) : b \in Batches},
    remaining <- Remaining,
    panicked <- process_stage = "panicked"
ImplementsOrderedDelivery == Delivery!Spec

-----------------------------------------------------------------------------
(* Why the invariants above hold: the inductive invariant of the proofs.   *)

\* Every position that stage 1 has taken is in flight or sent, unless a panic has
\* dropped it, and only once.
PositionsAccounted ==
    /\ process_stage # "panicked" =>
           \A i \in 1 .. taken : i \in in_flight \/ i \in Range(completed)
    /\ in_flight \cap Range(completed) = {}
    /\ IsInjective(completed)

\* Every result that stage 2 has received is buffered or triggered, and nothing else is.
ResultsAccounted ==
    /\ \A k \in 1 .. received : blocks[completed[k]] \in pending_blocks \cup Range(triggered)
    /\ \A n \in pending_blocks \cup Range(triggered) :
           \E k \in 1 .. received : n = blocks[completed[k]]
    /\ pending_blocks \cap Range(triggered) = {}

\* While stage 2 receives, it has triggered exactly the blocks below the next one.
TriggeredBelowNext ==
    trigger_stage = "receiving" =>
        \A n \in Range(blocks) : n \in Range(triggered) <=> n < next_block_number

\* The order in which main and the stages end.
StagesEndInOrder ==
    /\ main = "starting" => fed = 0 /\ process_stage = "running"
    /\ main \in {"joining", "joined"} => fed = Len(blocks)
    /\ main = "failed" => process_stage = "panicked"
    /\ process_stage = "ended" =>
           main \in {"joining", "joined"} /\ taken = fed /\ in_flight = {}
    /\ process_stage = "panicked" => in_flight = {}
    /\ trigger_stage # "receiving" =>
           process_stage # "running" /\ received = Len(completed)
    /\ trigger_stage = "ended" => pending_blocks = {}
    /\ main = "joined" => trigger_stage = "ended"

\* The tracker expects no block above one that is still owed.
ExpectationIsLow ==
    main # "starting" =>
        /\ expected_next # Vacant
        /\ \A n \in Remaining : expected_next <= n

\* Wherever the channels, the handlers and the buffer stand, each block that is owed is at
\* exactly one place on its way from main to the trigger handler, and the tracker and
\* stage 2 expect the lowest that is still on it.
IInv ==
    /\ TypeOK
    /\ PositionsAccounted
    /\ ResultsAccounted
    /\ TriggeredInOrder
    /\ NoBlockOvertaken
    /\ TriggeredBelowNext
    /\ StagesEndInOrder
    /\ ExpectationIsLow
=============================================================================
