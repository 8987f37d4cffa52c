------------------------ MODULE BlockPipelineProofs -------------------------
(***************************************************************************)
(* Proofs about the callers of the tracker.  About BlockPipeline: for      *)
(* every set of batches of distinct blocks, every window and history size, *)
(* whatever the tracker held and whatever order the block handlers end in. *)
(* About TrackedRuns (the names that begin with Runs): for every set of    *)
(* runs whose calls interleave.                                            *)
(***************************************************************************)
EXTENDS BlockPipeline, TrackedRuns, SequenceLemmas

DistinctBatches == \A b \in Batches : IsDistinct(b)

-----------------------------------------------------------------------------
(* What the calls of the tracker do.                                       *)

\* Eviction keeps the newest HistorySize entries.
LEMMA EvictKeepsNewest ==
    ASSUME NEW S, NEW h \in Seq(S)
    PROVE  /\ Evict(h) \in Seq(S)
           /\ Len(Evict(h)) = IF Len(h) > HistorySize THEN HistorySize ELSE Len(h)
           /\ \A i \in 1 .. Len(Evict(h)) : Evict(h)[i] = h[Len(h) - Len(Evict(h)) + i]
<1> DEFINE m == IF Len(h) > HistorySize THEN Len(h) - HistorySize + 1 ELSE 1
<1>1. Len(h) \in Nat /\ m \in Int /\ HistorySize \in Nat
    BY RangeElements, HistorySizeAssumption
<1>2. \A i \in m .. Len(h) : h[i] \in S
    BY <1>1, ElementOfSeq
<1>3. Evict(h) = SubSeq(h, m, Len(h))
    BY DEF Evict
<1> HIDE DEF m
<1>4. /\ Evict(h) \in Seq(S)
      /\ Len(Evict(h)) = IF m <= Len(h) THEN Len(h) - m + 1 ELSE 0
      /\ \A i \in 1 .. Len(h) - m + 1 : Evict(h)[i] = h[m + i - 1]
    BY <1>1, <1>2, <1>3, SubSeqProperties
<1>5. m = IF Len(h) > HistorySize THEN Len(h) - HistorySize + 1 ELSE 1
    BY DEF m
<1>6. Len(Evict(h)) = IF Len(h) > HistorySize THEN HistorySize ELSE Len(h)
    <2> DEFINE l == Len(h)
               k == Len(Evict(h))
    <2>1. /\ l \in Nat /\ m \in Int /\ HistorySize \in Nat
          /\ k = IF m <= l THEN l - m + 1 ELSE 0
          /\ m = IF l > HistorySize THEN l - HistorySize + 1 ELSE 1
        BY <1>1, <1>4, <1>5
    <2> HIDE DEF l, k
    <2>2. k = IF l > HistorySize THEN HistorySize ELSE l
        BY <2>1
    <2> QED BY <2>2 DEF l, k
<1>7. ASSUME NEW i \in 1 .. Len(Evict(h))
      PROVE  Evict(h)[i] = h[Len(h) - Len(Evict(h)) + i]
    <2>1. i \in 1 .. Len(h) - m + 1 /\ m + i - 1 = Len(h) - Len(Evict(h)) + i
        <3> DEFINE l == Len(h)
                   k == Len(Evict(h))
        <3>1. /\ l \in Nat /\ m \in Int /\ HistorySize \in Nat /\ k \in Nat /\ i \in 1 .. k
              /\ k = IF m <= l THEN l - m + 1 ELSE 0
              /\ m = IF l > HistorySize THEN l - HistorySize + 1 ELSE 1
            BY <1>1, <1>4, <1>5, RangeElements
        <3> HIDE DEF l, k
        <3>2. i \in 1 .. l - m + 1 /\ m + i - 1 = l - k + i
            BY <3>1
        <3> QED BY <3>2 DEF l, k
    <2> QED BY <2>1, <1>4
<1> QED BY <1>4, <1>6, <1>7

\* What a check does to a well-typed tracker: the expectation stays or becomes one past
\* the number checked; a vacant one is filled.
LEMMA CheckProperties ==
    ASSUME NEW S, S \subseteq Nat, processed_history \in Seq(S),
           expected_next \in Nat \cup {Vacant},
           NEW n \in S, CheckProcessedBlock(n)
    PROVE  /\ processed_history' \in Seq(S)
           /\ expected_next' \in Nat
           /\ expected_next' \in {ExpectedFor(n), n + 1}
           /\ CheckResult(n) = "duplicate" => expected_next' = ExpectedFor(n)
<1>1. Append(processed_history, n) \in Seq(S)
    BY AppendProperties
<1>2. Evict(Append(processed_history, n)) \in Seq(S)
    BY <1>1, EvictKeepsNewest
<1>3. ExpectedFor(n) \in Nat /\ n \in Nat
    BY DEF ExpectedFor, Vacant
<1>4. CASE CheckResult(n) = "duplicate"
    BY <1>3, <1>4 DEF CheckProcessedBlock
<1>5. CASE CheckResult(n) # "duplicate"
    BY <1>2, <1>3, <1>5 DEF CheckProcessedBlock
<1> QED BY <1>4, <1>5

\* A reset leaves the expectation at most at the start block.
LEMMA ResetProperties ==
    ASSUME expected_next \in Nat \cup {Vacant}, NEW s \in Nat, ResetExpectedNext(s)
    PROVE  /\ processed_history' = processed_history
           /\ expected_next' \in Nat
           /\ expected_next' <= s
           /\ expected_next' \in {expected_next, s}
BY DEF ResetExpectedNext, Vacant

-----------------------------------------------------------------------------
(* What the invariant says of a state.                                     *)

\* The blocks of a run are distinct numbers at or above its start.
LEMMA BatchFacts ==
    ASSUME DistinctBatches, \E b \in Batches : blocks = b.blocks /\ start_block = b.start_block
    PROVE  /\ blocks \in Seq(Nat) /\ Len(blocks) \in Nat /\ start_block \in Nat
           /\ IsInjective(blocks)
           /\ Range(blocks) \subseteq Nat
           /\ \A n \in Range(blocks) : n >= start_block
           /\ \A i \in 1 .. Len(blocks) : blocks[i] \in Range(blocks)
<1>1. PICK b \in Batches : blocks = b.blocks /\ start_block = b.start_block
    OBVIOUS
<1>2. blocks \in Seq(Nat) /\ start_block \in Nat
    BY <1>1, BatchesAssumption
<1>3. IsInjective(blocks) /\ \A n \in Range(blocks) : n >= start_block
    BY <1>1 DEF DistinctBatches, IsDistinct
<1> QED BY <1>2, <1>3, RangeElements

\* A result that was sent is a position that stage 1 has taken.
LEMMA ResultFacts ==
    ASSUME DistinctBatches, TypeOK
    PROVE  /\ Len(completed) \in Nat
           /\ DOMAIN completed = 1 .. Len(completed)
           /\ \A k \in 1 .. Len(completed) :
                  /\ completed[k] \in 1 .. taken
                  /\ completed[k] \in 1 .. Len(blocks)
                  /\ blocks[completed[k]] \in Range(blocks)
<1>1. Len(completed) \in Nat /\ DOMAIN completed = 1 .. Len(completed)
    BY RangeElements DEF TypeOK
<1>2. \A k \in 1 .. Len(completed) : completed[k] \in 1 .. taken
    BY ElementOfSeq DEF TypeOK
<1>3. Len(blocks) \in Nat /\ \A i \in 1 .. Len(blocks) : blocks[i] \in Range(blocks)
    BY BatchFacts, RangeElements DEF TypeOK
<1>4. fed \in 0 .. Len(blocks) /\ taken \in 0 .. fed
    BY DEF TypeOK
<1>5. \A k \in 1 .. Len(completed) : completed[k] \in 1 .. Len(blocks)
    BY <1>2, <1>3, <1>4
<1> QED BY <1>1, <1>2, <1>3, <1>5

\* What is owed are blocks of the run, and every result that was sent is owed.
LEMMA OwedFacts ==
    ASSUME DistinctBatches, TypeOK
    PROVE  /\ Owed \subseteq Range(blocks)
           /\ Remaining \subseteq Range(blocks) \ Range(triggered)
           /\ \A k \in 1 .. Len(completed) : blocks[completed[k]] \in Owed
BY ResultFacts DEF Owed, Remaining

\* A step that changes neither the blocks nor what is triggered, and is no panic,
\* leaves the same blocks owed.
LEMMA RemainingKept ==
    ASSUME UNCHANGED <<blocks, triggered>>,
           \/ UNCHANGED <<completed, process_stage>>
           \/ process_stage # "panicked" /\ process_stage' # "panicked"
    PROVE  Owed' = Owed /\ Remaining' = Remaining
<1>1. Range(blocks)' = Range(blocks) /\ Range(triggered)' = Range(triggered)
    BY DEF Range
<1>2. Owed' = Owed
    BY <1>1 DEF Owed
<1> QED BY <1>1, <1>2 DEF Remaining

\* A panic leaves fewer blocks owed.
LEMMA PanicShrinks ==
    ASSUME DistinctBatches, TypeOK, HandlerPanics
    PROVE  Remaining' \subseteq Remaining
<1>1. Owed = Range(blocks)
    BY DEF HandlerPanics, Owed
<1>2. /\ Owed' = {blocks[completed[k]] : k \in 1 .. Len(completed)}
      /\ Range(triggered)' = Range(triggered)
    BY DEF HandlerPanics, Owed, Range
<1> QED BY <1>1, <1>2, ResultFacts DEF Remaining

\* What is buffered is owed.
LEMMA BufferedIsOwed ==
    ASSUME DistinctBatches, IInv, NEW n \in pending_blocks
    PROVE  n \in Remaining
<1>1. PICK k \in 1 .. received : n = blocks[completed[k]]
    BY DEF IInv, ResultsAccounted
<1>2. received \in 0 .. Len(completed) /\ Len(completed) \in Nat
    BY ResultFacts DEF IInv, TypeOK
<1>3. n \in Owed
    BY <1>1, <1>2, OwedFacts DEF IInv
<1>4. n \notin Range(triggered)
    BY DEF IInv, ResultsAccounted
<1> QED BY <1>3, <1>4 DEF Remaining

\* Stage 2 has something buffered only once main has started.
LEMMA BufferedAfterStart ==
    ASSUME DistinctBatches, IInv, NEW n \in pending_blocks
    PROVE  main # "starting"
<1>1. PICK k \in 1 .. received : n = blocks[completed[k]]
    BY DEF IInv, ResultsAccounted
<1>2. /\ Len(completed) \in Nat
      /\ \A j \in 1 .. Len(completed) : completed[j] \in 1 .. taken
      /\ received \in 0 .. Len(completed) /\ taken \in 0 .. fed /\ fed \in Nat
    <2>1. TypeOK /\ Len(blocks) \in Nat
        BY BatchFacts DEF IInv, TypeOK
    <2> QED BY <2>1, ResultFacts DEF TypeOK
<1>3. completed[k] \in 1 .. taken
    BY <1>1, <1>2
<1>4. fed # 0
    BY <1>2, <1>3
<1> QED BY <1>4 DEF IInv, StagesEndInOrder

\* Once stage 2 has stopped receiving, each block that is owed is buffered or triggered.
LEMMA AllReceived ==
    ASSUME DistinctBatches, IInv, trigger_stage # "receiving"
    PROVE  Owed = pending_blocks \cup Range(triggered)
<1>1. received = Len(completed) /\ process_stage # "running"
    BY DEF IInv, StagesEndInOrder
<1>2. \A k \in 1 .. Len(completed) : blocks[completed[k]] \in pending_blocks \cup Range(triggered)
    BY <1>1 DEF IInv, ResultsAccounted
<1>3. ASSUME NEW n \in Range(blocks), process_stage # "panicked"
      PROVE  n \in pending_blocks \cup Range(triggered)
    <2>1. PICK i \in 1 .. Len(blocks) : n = blocks[i]
        BY BatchFacts, RangeElements DEF IInv, TypeOK
    <2>2. taken = Len(blocks) /\ in_flight = {}
        BY <1>1, <1>3 DEF IInv, TypeOK, StagesEndInOrder
    <2>3. i \in Range(completed)
        BY <1>3, <2>2 DEF IInv, PositionsAccounted
    <2>4. PICK k \in 1 .. Len(completed) : i = completed[k]
        BY <2>3, RangeElements DEF IInv, TypeOK
    <2> QED BY <2>1, <2>4, <1>2
<1>4. \A n \in Owed : n \in pending_blocks \cup Range(triggered)
    BY <1>2, <1>3 DEF Owed
<1>5. pending_blocks \cup Range(triggered) \subseteq Owed
    BY <1>1, OwedFacts DEF IInv, ResultsAccounted
<1> QED BY <1>4, <1>5

-----------------------------------------------------------------------------
(* Triggering a block.                                                     *)

\* A block that either place of stage 2 triggers is the lowest one left.
LEMMA TriggersLowest ==
    ASSUME DistinctBatches, IInv, NEW n \in pending_blocks,
           \/ trigger_stage = "receiving" /\ n = next_block_number
           \/ trigger_stage = "draining" /\ \A m \in pending_blocks : n <= m
    PROVE  \A m \in Remaining : n <= m
<1>1. /\ n \in Range(blocks) /\ Range(blocks) \subseteq Nat /\ next_block_number \in Nat
      /\ Remaining \subseteq Range(blocks) \ Range(triggered)
    BY BatchFacts, OwedFacts DEF IInv, TypeOK
<1>2. CASE trigger_stage = "receiving" /\ n = next_block_number
    BY <1>1, <1>2 DEF IInv, TriggeredBelowNext
<1>3. CASE trigger_stage = "draining" /\ \A m \in pending_blocks : n <= m
    BY <1>3, AllReceived DEF Remaining
<1> QED BY <1>2, <1>3

\* Triggering the lowest block left keeps everything that is said of the triggered ones.
LEMMA TriggerFacts ==
    ASSUME DistinctBatches, IInv, NEW n \in pending_blocks,
           \A m \in Remaining : n <= m,
           Trigger(n)
    PROVE  /\ n \in Range(blocks) /\ n \in Remaining
           /\ pending_blocks' = pending_blocks \ {n}
           /\ triggered' \in Seq(Range(blocks))
           /\ Range(triggered') = Range(triggered) \cup {n}
           /\ \A i, j \in 1 .. Len(triggered') : i < j => triggered'[i] < triggered'[j]
           /\ processed_history' \in Seq(Nat)
           /\ expected_next' \in Nat
           /\ \A m \in Owed \ Range(triggered') : n < m /\ expected_next' <= m
<1>1. /\ n \in Range(blocks) /\ n \notin Range(triggered)
      /\ Range(blocks) \subseteq Nat /\ Range(triggered) \subseteq Range(blocks)
      /\ triggered \in Seq(Range(blocks)) /\ triggered \in Seq(Nat) /\ n \in Nat
    <2>1. n \in Range(blocks) /\ n \notin Range(triggered) /\ triggered \in Seq(Range(blocks))
        BY DEF IInv, TypeOK, ResultsAccounted
    <2>2. Range(blocks) \subseteq Nat
        BY BatchFacts DEF IInv, TypeOK
    <2>3. triggered \in Seq(Nat)
        BY <2>1, <2>2, SeqDef
    <2> QED BY <2>1, <2>2, <2>3, RangeElements
<1>2. /\ triggered' = Append(triggered, n) /\ pending_blocks' = pending_blocks \ {n}
      /\ CheckProcessedBlock(n)
    BY DEF Trigger
<1>3. triggered' \in Seq(Range(blocks))
    BY <1>1, <1>2, AppendProperties
<1>4. Range(triggered') = Range(triggered) \cup {n}
    BY <1>1, <1>2, RangeOfAppend
<1>5. n \in Remaining /\ \A m \in Range(triggered) : m < n
    BY BufferedIsOwed DEF IInv, NoBlockOvertaken
<1>6. \A i, j \in 1 .. Len(triggered') : i < j => triggered'[i] < triggered'[j]
    BY <1>1, <1>2, <1>5, AscendingAppend DEF IInv, TriggeredInOrder
<1>7. expected_next \in Nat
    BY BufferedAfterStart DEF IInv, TypeOK, ExpectationIsLow
<1>8. /\ processed_history' \in Seq(Nat)
      /\ expected_next' \in Nat
      /\ expected_next' \in {expected_next, n + 1}
    <2>1. processed_history \in Seq(Nat) /\ expected_next \in Nat \cup {Vacant} /\ n \in Nat
        BY <1>1 DEF IInv, TypeOK
    <2>2. /\ processed_history' \in Seq(Nat)
          /\ expected_next' \in Nat
          /\ expected_next' \in {ExpectedFor(n), n + 1}
        BY <2>1, <1>2, CheckProperties
    <2>3. ExpectedFor(n) = expected_next
        BY <1>7 DEF ExpectedFor, Vacant
    <2> QED BY <2>2, <2>3
<1>9. ASSUME NEW m \in Owed \ Range(triggered')
      PROVE  n < m /\ expected_next' <= m
    <2>1. m \in Remaining /\ m # n /\ m \in Nat
        BY <1>1, <1>4, OwedFacts DEF Remaining, IInv
    <2>2. expected_next <= m
        BY <2>1, BufferedAfterStart DEF IInv, ExpectationIsLow
    <2>3. n + 1 <= m
        BY <2>1, <1>1
    <2> QED BY <2>1, <2>2, <2>3, <1>1, <1>8
<1> QED BY <1>1, <1>2, <1>3, <1>4, <1>5, <1>6, <1>8, <1>9

-----------------------------------------------------------------------------
(* The steps of main and of stage 1: the channels move, the buffer and the *)
(* triggered blocks do not.                                                *)

\* A step of main after which only its own place, or what it has fed, differs.
LEMMA MainSteps ==
    ASSUME DistinctBatches, IInv, MainStep
    PROVE  IInv'
<1>1. CASE Start
    <2>1. start_block \in Nat /\ Range(blocks) \subseteq Nat /\ \A n \in Range(blocks) : start_block <= n
        BY BatchFacts DEF IInv, TypeOK
    <2>2. /\ processed_history' = processed_history
          /\ expected_next' \in Nat /\ expected_next' <= start_block
        BY <1>1, <2>1, ResetProperties DEF Start, IInv, TypeOK
    <2>3. TypeOK'
        BY <1>1, <2>2 DEF Start, IInv, TypeOK
    <2>4. Remaining' = Remaining /\ Remaining \subseteq Range(blocks)
        BY <1>1, RemainingKept, OwedFacts DEF Start, IInv
    <2>5. ExpectationIsLow'
        BY <1>1, <2>1, <2>2, <2>4 DEF Start, ExpectationIsLow, Vacant
    <2>6. StagesEndInOrder'
        BY <1>1 DEF Start, IInv, StagesEndInOrder
    <2>7. PositionsAccounted' /\ ResultsAccounted'
        BY <1>1 DEF Start, IInv, PositionsAccounted, ResultsAccounted
    <2>8. TriggeredInOrder' /\ NoBlockOvertaken' /\ TriggeredBelowNext'
        BY <1>1, <2>4 DEF Start, IInv, TriggeredInOrder, NoBlockOvertaken, TriggeredBelowNext
    <2> QED BY <2>3, <2>5, <2>6, <2>7, <2>8 DEF IInv
<1>2. CASE Feed
    <2>1. TypeOK'
        BY <1>2, BatchFacts DEF Feed, trackerVars, IInv, TypeOK
    <2>2. StagesEndInOrder'
        BY <1>2, <2>1, BatchFacts DEF Feed, IInv, StagesEndInOrder, TypeOK
    <2>3. Remaining' = Remaining
        BY <1>2, RemainingKept DEF Feed
    <2>4. PositionsAccounted' /\ ResultsAccounted' /\ ExpectationIsLow'
        BY <1>2, <2>3 DEF Feed, trackerVars, IInv,
                          PositionsAccounted, ResultsAccounted, ExpectationIsLow
    <2>5. TriggeredInOrder' /\ NoBlockOvertaken' /\ TriggeredBelowNext'
        BY <1>2, <2>3 DEF Feed, IInv,
                          TriggeredInOrder, NoBlockOvertaken, TriggeredBelowNext
    <2> QED BY <2>1, <2>2, <2>4, <2>5 DEF IInv
<1>3. CASE DropSenders \/ FailToFeed \/ Join
    <2>1. TypeOK'
        BY <1>3 DEF DropSenders, FailToFeed, Join, trackerVars, IInv, TypeOK
    <2>2. StagesEndInOrder'
        BY <1>3 DEF DropSenders, FailToFeed, Join, IInv, StagesEndInOrder
    <2>3. Remaining' = Remaining
        BY <1>3, RemainingKept DEF DropSenders, FailToFeed, Join
    <2>4. PositionsAccounted' /\ ResultsAccounted' /\ ExpectationIsLow'
        BY <1>3, <2>3 DEF DropSenders, FailToFeed, Join, trackerVars, IInv,
                          PositionsAccounted, ResultsAccounted, ExpectationIsLow
    <2>5. TriggeredInOrder' /\ NoBlockOvertaken' /\ TriggeredBelowNext'
        BY <1>3, <2>3 DEF DropSenders, FailToFeed, Join, IInv,
                          TriggeredInOrder, NoBlockOvertaken, TriggeredBelowNext
    <2> QED BY <2>1, <2>2, <2>4, <2>5 DEF IInv
<1> QED BY <1>1, <1>2, <1>3 DEF MainStep

\* A step of stage 1: a position goes from the channel to a handler, from there to the
\* trigger channel.
LEMMA ProcessSteps ==
    ASSUME DistinctBatches, IInv, ProcessStep
    PROVE  IInv'
<1>1. CASE StartHandler
    <2>1. completed \in Seq(1 .. taken + 1) /\ taken \in Nat
        <3>1. 1 .. taken \subseteq 1 .. taken + 1 /\ taken \in Nat
            BY BatchFacts DEF IInv, TypeOK
        <3> QED BY <3>1, SeqOfSuperset DEF IInv, TypeOK
    <2>2. TypeOK'
        <3>1. fed \in Nat /\ taken' \in 0 .. fed
            BY <1>1, BatchFacts DEF StartHandler, IInv, TypeOK
        <3>2. in_flight' \subseteq 1 .. taken'
            BY <1>1, <2>1 DEF StartHandler, IInv, TypeOK
        <3> QED BY <1>1, <2>1, <3>1, <3>2 DEF StartHandler, trackerVars, IInv, TypeOK
    <2>3. taken + 1 \notin Range(completed)
        BY <2>1, ResultFacts, RangeElements DEF IInv, TypeOK
    <2>4. PositionsAccounted'
        BY <1>1, <2>1, <2>3 DEF StartHandler, IInv, PositionsAccounted
    <2>5. Remaining' = Remaining
        BY <1>1, RemainingKept DEF StartHandler
    <2>6. StagesEndInOrder' /\ ResultsAccounted' /\ ExpectationIsLow'
        BY <1>1, <2>5 DEF StartHandler, trackerVars, IInv, StagesEndInOrder, ResultsAccounted,
                          ExpectationIsLow
    <2>7. TriggeredInOrder' /\ NoBlockOvertaken' /\ TriggeredBelowNext'
        BY <1>1, <2>5 DEF StartHandler, IInv, TriggeredInOrder, NoBlockOvertaken,
                          TriggeredBelowNext
    <2> QED BY <2>2, <2>4, <2>6, <2>7 DEF IInv
<1>2. ASSUME NEW i \in in_flight, FinishHandler(i)
      PROVE  IInv'
    <2>1. /\ i \in 1 .. taken /\ i \notin Range(completed)
          /\ completed \in Seq(1 .. taken) /\ IsInjective(completed)
          /\ completed' = Append(completed, i) /\ in_flight' = in_flight \ {i}
        BY <1>2 DEF FinishHandler, IInv, TypeOK, PositionsAccounted
    <2>2. /\ completed' \in Seq(1 .. taken) /\ Len(completed') = Len(completed) + 1
          /\ \A k \in 1 .. Len(completed) : completed'[k] = completed[k]
        BY <2>1, AppendProperties
    <2>3. Range(completed') = Range(completed) \cup {i} /\ IsInjective(completed')
        <3> DEFINE Positions == 1 .. taken
        <3>1. /\ completed \in Seq(Positions) /\ i \in Positions
              /\ IsInjective(completed) /\ i \notin Range(completed)
            BY <2>1
        <3> HIDE DEF Positions
        <3>2. Range(Append(completed, i)) = Range(completed) \cup {i}
            BY <3>1, RangeOfAppend
        <3>3. IsInjective(Append(completed, i))
            BY <3>1, InjectiveAppend
        <3> QED BY <2>1, <3>2, <3>3
    <2>4. received \in 0 .. Len(completed) /\ Len(completed) \in Nat
        BY ResultFacts DEF IInv, TypeOK
    <2>5. TypeOK'
        BY <1>2, <2>1, <2>2, <2>4 DEF FinishHandler, trackerVars, IInv, TypeOK
    <2>6. PositionsAccounted'
        BY <1>2, <2>1, <2>3 DEF FinishHandler, IInv, PositionsAccounted
    <2>7. ResultsAccounted'
        BY <1>2, <2>2, <2>4 DEF FinishHandler, IInv, ResultsAccounted
    <2>8. Remaining' = Remaining
        BY <1>2, RemainingKept DEF FinishHandler
    <2>9. StagesEndInOrder' /\ ExpectationIsLow'
        BY <1>2, <2>8 DEF FinishHandler, trackerVars, IInv, StagesEndInOrder, ExpectationIsLow
    <2>10. TriggeredInOrder' /\ NoBlockOvertaken' /\ TriggeredBelowNext'
        BY <1>2, <2>8 DEF FinishHandler, IInv, TriggeredInOrder, NoBlockOvertaken,
                          TriggeredBelowNext
    <2> QED BY <2>5, <2>6, <2>7, <2>9, <2>10 DEF IInv
<1>3. CASE EndProcessStage
    <2>1. TypeOK'
        BY <1>3 DEF EndProcessStage, trackerVars, IInv, TypeOK
    <2>2. StagesEndInOrder'
        BY <1>3 DEF EndProcessStage, IInv, StagesEndInOrder
    <2>3. Remaining' = Remaining
        BY <1>3, RemainingKept DEF EndProcessStage
    <2>4. PositionsAccounted' /\ ResultsAccounted' /\ ExpectationIsLow'
        BY <1>3, <2>3 DEF EndProcessStage, trackerVars, IInv,
                          PositionsAccounted, ResultsAccounted, ExpectationIsLow
    <2>5. TriggeredInOrder' /\ NoBlockOvertaken' /\ TriggeredBelowNext'
        BY <1>3, <2>3 DEF EndProcessStage, IInv,
                          TriggeredInOrder, NoBlockOvertaken, TriggeredBelowNext
    <2> QED BY <2>1, <2>2, <2>4, <2>5 DEF IInv
<1>4. CASE HandlerPanics
    <2>1. TypeOK'
        BY <1>4 DEF HandlerPanics, trackerVars, IInv, TypeOK
    <2>2. StagesEndInOrder'
        <3>1. taken \in 0 .. fed /\ fed \in Nat /\ in_flight \subseteq 1 .. taken
            BY BatchFacts DEF IInv, TypeOK
        <3>2. ASSUME fed = 0 PROVE FALSE
            <4>1. taken = 0 /\ \A i \in 1 .. taken : FALSE
                BY <3>1, <3>2
            <4> QED BY <1>4, <3>1, <4>1 DEF HandlerPanics
        <3>3. main # "starting"
            BY <3>2 DEF IInv, StagesEndInOrder
        <3> QED BY <1>4, <3>3 DEF HandlerPanics, IInv, StagesEndInOrder
    <2>3. Remaining' \subseteq Remaining
        BY <1>4, PanicShrinks DEF IInv
    <2>4. PositionsAccounted' /\ ResultsAccounted' /\ ExpectationIsLow'
        BY <1>4, <2>3 DEF HandlerPanics, trackerVars, IInv, PositionsAccounted,
                          ResultsAccounted, ExpectationIsLow
    <2>5. TriggeredInOrder' /\ NoBlockOvertaken' /\ TriggeredBelowNext'
        BY <1>4, <2>3 DEF HandlerPanics, IInv, TriggeredInOrder, NoBlockOvertaken,
                          TriggeredBelowNext
    <2> QED BY <2>1, <2>2, <2>4, <2>5 DEF IInv
<1> QED BY <1>1, <1>2, <1>3, <1>4 DEF ProcessStep

-----------------------------------------------------------------------------
(* The steps of stage 2.                                                   *)

\* The number of a result that is received has not been triggered: its position was not
\* received before, and no other position holds the same number.
LEMMA ReceivedIsNew ==
    ASSUME DistinctBatches, IInv, received < Len(completed)
    PROVE  blocks[completed[received + 1]] \in Range(blocks) \ Range(triggered)
<1> DEFINE k0 == received + 1
<1>1. /\ Len(completed) \in Nat /\ received \in Nat /\ k0 \in 1 .. Len(completed)
      /\ received \in 0 .. Len(completed)
    BY ResultFacts DEF IInv, TypeOK
<1>2. \A k \in 1 .. Len(completed) :
          completed[k] \in 1 .. Len(blocks) /\ blocks[completed[k]] \in Range(blocks)
    BY ResultFacts DEF IInv
<1> HIDE DEF k0
<1>3. ASSUME NEW k \in 1 .. received, blocks[completed[k]] = blocks[completed[k0]]
      PROVE  FALSE
    <2>1. k \in 1 .. Len(completed) /\ k # k0
        BY <1>1 DEF k0
    <2>2. completed[k] = completed[k0]
        <3>1. IsInjective(blocks) /\ DOMAIN blocks = 1 .. Len(blocks)
            BY BatchFacts, RangeElements DEF IInv, TypeOK
        <3> QED BY <3>1, <2>1, <1>1, <1>2, <1>3 DEF IsInjective
    <2>3. IsInjective(completed) /\ DOMAIN completed = 1 .. Len(completed)
        BY ResultFacts DEF IInv, PositionsAccounted
    <2> QED BY <2>1, <2>2, <2>3, <1>1 DEF IsInjective
<1>4. blocks[completed[k0]] \notin Range(triggered)
    BY <1>3 DEF IInv, ResultsAccounted
<1> QED BY <1>1, <1>2, <1>4 DEF k0

\* Stage 2 takes a result from its channel, and triggers or buffers it.
LEMMA ReceiveStep ==
    ASSUME DistinctBatches, IInv, Receive
    PROVE  IInv'
<1> DEFINE n == blocks[completed[received + 1]]
<1>1. n \in Range(blocks) /\ n \notin Range(triggered)
    BY ReceivedIsNew DEF Receive
<1>2. received < Len(completed) /\ Len(completed) \in Nat /\ received \in Nat
    BY ResultFacts DEF Receive, IInv, TypeOK
<1>3. pending_blocks' = pending_blocks \cup {n} /\ received' = received + 1
    BY DEF Receive
<1>4. n = blocks[completed[received']]
    BY <1>3
<1> HIDE DEF n
<1>5. TypeOK'
    BY <1>1, <1>2, <1>3 DEF Receive, trackerVars, IInv, TypeOK
<1>6. ResultsAccounted'
    <2>1. blocks' = blocks /\ completed' = completed /\ triggered' = triggered
        BY DEF Receive
    <2>2. \A k \in 1 .. received + 1 : k \in 1 .. received \/ k = received + 1
        BY <1>2
    <2>3. 1 .. received \subseteq 1 .. received' /\ received' \in 1 .. received'
        BY <1>2, <1>3
    <2>4. \A k \in 1 .. received' : blocks[completed[k]] \in pending_blocks' \cup Range(triggered)
        BY <1>3, <1>4, <2>2 DEF IInv, ResultsAccounted
    <2>5. \A m \in pending_blocks' \cup Range(triggered) :
              \E k \in 1 .. received' : m = blocks[completed[k]]
        BY <1>3, <1>4, <2>3 DEF IInv, ResultsAccounted
    <2>6. pending_blocks' \cap Range(triggered) = {}
        BY <1>1, <1>3 DEF IInv, ResultsAccounted
    <2> QED BY <2>1, <2>4, <2>5, <2>6 DEF ResultsAccounted
<1>7. StagesEndInOrder'
    BY <1>2 DEF Receive, WaitsForResult, IInv, StagesEndInOrder
<1>8. Remaining' = Remaining
    BY RemainingKept DEF Receive
<1>9. PositionsAccounted' /\ ExpectationIsLow'
    BY <1>8 DEF Receive, trackerVars, IInv, PositionsAccounted, ExpectationIsLow
<1>10. TriggeredInOrder' /\ NoBlockOvertaken' /\ TriggeredBelowNext'
    BY <1>8 DEF Receive, IInv, TriggeredInOrder, NoBlockOvertaken, TriggeredBelowNext
<1> QED BY <1>5, <1>6, <1>7, <1>9, <1>10 DEF IInv

\* Both ways to trigger a block: it is the lowest one left, and nothing else moves but
\* the number stage 2 waits for.
LEMMA DeliverySteps ==
    ASSUME DistinctBatches, IInv, NEW n \in pending_blocks,
           (TriggerNext /\ n = next_block_number) \/ Drain(n)
    PROVE  IInv'
<1>1. /\ Trigger(n)
      /\ UNCHANGED <<blocks, start_block, fed, taken, in_flight, completed, received,
                     main, process_stage, trigger_stage>>
      /\ \A m \in Remaining : n <= m
    BY TriggersLowest DEF TriggerNext, Drain
<1>2. /\ n \in Range(blocks) /\ n \in Remaining
      /\ pending_blocks' = pending_blocks \ {n}
      /\ triggered' \in Seq(Range(blocks))
      /\ Range(triggered') = Range(triggered) \cup {n}
      /\ \A i, j \in 1 .. Len(triggered') : i < j => triggered'[i] < triggered'[j]
      /\ processed_history' \in Seq(Nat)
      /\ expected_next' \in Nat
      /\ \A m \in Owed \ Range(triggered') : n < m /\ expected_next' <= m
    BY <1>1, TriggerFacts
<1>3. Range(blocks) \subseteq Nat /\ n \in Nat /\ next_block_number \in Nat
    BY <1>2, BatchFacts DEF IInv, TypeOK
<1>4. next_block_number' \in Nat
    BY <1>3 DEF TriggerNext, Drain
<1>5. TypeOK'
    BY <1>1, <1>2, <1>4 DEF IInv, TypeOK
<1>6. PositionsAccounted'
    BY <1>1 DEF IInv, PositionsAccounted
<1>7. ResultsAccounted'
    <2>1. pending_blocks' \cup Range(triggered') = pending_blocks \cup Range(triggered)
        BY <1>2
    <2>2. pending_blocks' \cap Range(triggered') = {}
        BY <1>2 DEF IInv, ResultsAccounted
    <2> QED BY <2>1, <2>2, <1>1 DEF IInv, ResultsAccounted
<1>8. TriggeredInOrder'
    BY <1>2 DEF TriggeredInOrder
<1>9. Remaining' = Owed \ Range(triggered')
    <2>1. Owed' = Owed
        BY <1>1 DEF Owed, Range
    <2> QED BY <2>1 DEF Remaining, Range
<1>10. NoBlockOvertaken'
    BY <1>2, <1>9 DEF IInv, NoBlockOvertaken, Remaining
<1>11. TriggeredBelowNext'
    <2>1. CASE TriggerNext /\ n = next_block_number
        <3>1. /\ next_block_number' = n + 1 /\ blocks' = blocks
              /\ \A m \in Range(blocks) : m \in Range(triggered) <=> m < n
            BY <2>1, <1>1 DEF TriggerNext, IInv, TriggeredBelowNext
        <3>2. \A m \in Range(blocks) : m < n + 1 <=> (m < n \/ m = n)
            BY <1>3
        <3> QED BY <3>1, <3>2, <1>2 DEF TriggeredBelowNext
    <2>2. CASE Drain(n)
        BY <2>2, <1>1 DEF Drain, TriggeredBelowNext
    <2> QED BY <2>1, <2>2
<1>12. StagesEndInOrder'
    BY <1>1, <1>2 DEF IInv, StagesEndInOrder
<1>13. ExpectationIsLow'
    BY <1>1, <1>2, <1>9 DEF ExpectationIsLow, Vacant
<1> QED BY <1>5, <1>6, <1>7, <1>8, <1>10, <1>11, <1>12, <1>13 DEF IInv

\* The two places that trigger a block.
LEMMA TriggerSteps ==
    ASSUME DistinctBatches, IInv, TriggerStep
    PROVE  IInv'
<1>1. CASE Receive
    BY <1>1, ReceiveStep
<1>2. CASE TriggerNext
    BY <1>2, DeliverySteps DEF TriggerNext
<1>3. CASE StartDraining \/ EndTriggerStage
    <2>1. TypeOK'
        BY <1>3 DEF StartDraining, EndTriggerStage, trackerVars, IInv, TypeOK
    <2>2. StagesEndInOrder'
        BY <1>3 DEF StartDraining, EndTriggerStage, WaitsForResult, IInv, StagesEndInOrder
    <2>3. Remaining' = Remaining
        BY <1>3, RemainingKept DEF StartDraining, EndTriggerStage
    <2>4. PositionsAccounted' /\ ResultsAccounted' /\ ExpectationIsLow'
        BY <1>3, <2>3 DEF StartDraining, EndTriggerStage, trackerVars, IInv,
                          PositionsAccounted, ResultsAccounted, ExpectationIsLow
    <2>5. TriggeredInOrder' /\ NoBlockOvertaken' /\ TriggeredBelowNext'
        BY <1>3, <2>3 DEF StartDraining, EndTriggerStage, WaitsForResult, IInv,
                          TriggeredInOrder, NoBlockOvertaken, TriggeredBelowNext
    <2> QED BY <2>1, <2>2, <2>4, <2>5 DEF IInv
<1>4. ASSUME NEW n \in pending_blocks, Drain(n)
      PROVE  IInv'
    BY <1>4, DeliverySteps
<1> QED BY <1>1, <1>2, <1>3, <1>4 DEF TriggerStep

-----------------------------------------------------------------------------
(* The invariant and what follows from it.                                 *)

\* It holds at first.
LEMMA InitialStates ==
    ASSUME DistinctBatches, Init
    PROVE  IInv
<1>1. /\ \E b \in Batches : blocks = b.blocks /\ start_block = b.start_block
      /\ processed_history \in Seq(Nat) /\ expected_next \in Nat \cup {Vacant}
    BY TrackerAssumption DEF Init
<1>2. /\ Len(blocks) \in Nat /\ start_block \in Nat
      /\ Range(blocks) \subseteq Nat
      /\ \A n \in Range(blocks) : n >= start_block
    BY <1>1, BatchFacts
<1>3. /\ \A S : <<>> \in Seq(S)
      /\ Len(<<>>) = 0 /\ Range(<<>>) = {} /\ IsInjective(<<>>)
    BY EmptySeq DEF Range, IsInjective
<1>4. TypeOK
    BY <1>1, <1>2, <1>3 DEF Init, TypeOK
<1>5. PositionsAccounted /\ ResultsAccounted
    BY <1>3 DEF Init, PositionsAccounted, ResultsAccounted
<1>6. TriggeredInOrder /\ NoBlockOvertaken
    BY <1>3 DEF Init, TriggeredInOrder, NoBlockOvertaken
<1>7. TriggeredBelowNext
    BY <1>2, <1>3 DEF Init, TriggeredBelowNext
<1>8. StagesEndInOrder /\ ExpectationIsLow
    BY DEF Init, StagesEndInOrder, ExpectationIsLow
<1> QED BY <1>4, <1>5, <1>6, <1>7, <1>8 DEF IInv

\* Every step keeps it.
LEMMA NextPreservesIInv ==
    ASSUME DistinctBatches, IInv, [Next]_vars
    PROVE  IInv'
<1>1. CASE UNCHANGED vars
    <2>1. TypeOK' /\ PositionsAccounted' /\ ResultsAccounted'
        BY <1>1 DEF vars, pipelineVars, trackerVars, IInv, TypeOK, PositionsAccounted,
                    ResultsAccounted
    <2>2. Remaining' = Remaining
        BY <1>1, RemainingKept DEF vars, pipelineVars
    <2>3. TriggeredInOrder' /\ NoBlockOvertaken' /\ TriggeredBelowNext'
        BY <1>1, <2>2 DEF vars, pipelineVars, IInv, TriggeredInOrder, NoBlockOvertaken,
                          TriggeredBelowNext
    <2>4. StagesEndInOrder' /\ ExpectationIsLow'
        BY <1>1, <2>2 DEF vars, pipelineVars, trackerVars, IInv, StagesEndInOrder,
                          ExpectationIsLow
    <2> QED BY <2>1, <2>3, <2>4 DEF IInv
<1> QED BY <1>1, MainSteps, ProcessSteps, TriggerSteps DEF Next, Terminated

\* The invariant of the pipeline, for batches of distinct blocks.
THEOREM Invariance ==
    ASSUME DistinctBatches
    PROVE  Spec => []IInv
<1>1. Init => IInv
    BY InitialStates
<1>2. IInv /\ [Next]_vars => IInv'
    BY NextPreservesIInv
<1> QED BY <1>1, <1>2, PTL DEF Spec

\* Type correctness.
THEOREM TypeCorrect ==
    ASSUME DistinctBatches
    PROVE  Spec => []TypeOK
<1>1. IInv => TypeOK
    BY DEF IInv
<1> QED BY <1>1, Invariance, PTL

\* The trigger handler is called in strictly ascending order.
THEOREM Order ==
    ASSUME DistinctBatches
    PROVE  Spec => []TriggeredInOrder
<1>1. IInv => TriggeredInOrder
    BY DEF IInv
<1> QED BY <1>1, Invariance, PTL

\* No block is triggered while a block below it is still owed.
THEOREM NoOvertaking ==
    ASSUME DistinctBatches
    PROVE  Spec => []NoBlockOvertaken
<1>1. IInv => NoBlockOvertaken
    BY DEF IInv
<1> QED BY <1>1, Invariance, PTL

\* When stage 2 has ended and when the stages are joined, each block that is owed has
\* been triggered, and once; after a panic that is what was handled before it.
THEOREM Completeness ==
    ASSUME DistinctBatches
    PROVE  Spec => []AllTriggeredWhenJoined
<1>1. ASSUME IInv, main = "joined" \/ trigger_stage = "ended"
      PROVE  Range(triggered) = Owed
    BY <1>1, AllReceived DEF IInv, StagesEndInOrder
<1>2. ASSUME IInv
      PROVE  IsInjective(triggered)
    <2>1. /\ DOMAIN triggered = 1 .. Len(triggered) /\ Len(triggered) \in Nat
          /\ Range(blocks) \subseteq Nat
          /\ \A i \in 1 .. Len(triggered) : triggered[i] \in Range(blocks)
        BY <1>2, BatchFacts, RangeElements, ElementOfSeq DEF IInv, TypeOK
    <2>2. \A i \in 1 .. Len(triggered) : triggered[i] \in Nat
        BY <2>1
    <2>3. ASSUME NEW i \in 1 .. Len(triggered), NEW j \in 1 .. Len(triggered),
                 triggered[i] = triggered[j]
          PROVE  i = j
        BY <1>2, <2>1, <2>2, <2>3 DEF IInv, TriggeredInOrder
    <2> QED BY <2>1, <2>3 DEF IsInjective
<1>3. IInv => AllTriggeredWhenJoined
    BY <1>1, <1>2 DEF AllTriggeredWhenJoined
<1> QED BY <1>3, Invariance, PTL

\* A run that has the tracker to itself is never told that a block is out of order.
THEOREM NoFalseWarning ==
    ASSUME DistinctBatches
    PROVE  Spec => []NoFalseOutOfOrder
<1>1. ASSUME IInv, main # "starting",
             NEW n \in Remaining
      PROVE  CheckResult(n) # "out_of_order"
    <2>1. n \in Nat
        BY <1>1, BatchFacts, OwedFacts DEF IInv, TypeOK
    <2>2. expected_next \in Nat /\ expected_next <= n
        BY <1>1 DEF IInv, TypeOK, ExpectationIsLow
    <2>3. ExpectedFor(n) = expected_next
        BY <2>2 DEF ExpectedFor, Vacant
    <2> QED BY <2>1, <2>2, <2>3 DEF CheckResult
<1>2. IInv => NoFalseOutOfOrder
    BY <1>1 DEF NoFalseOutOfOrder
<1> QED BY <1>2, Invariance, PTL

-----------------------------------------------------------------------------
(* The pipeline implements OrderedDelivery.                                *)

\* Triggering a block delivers the lowest number left.
LEMMA DeliverySimulation ==
    ASSUME DistinctBatches, IInv, NEW n \in pending_blocks,
           (TriggerNext /\ n = next_block_number) \/ Drain(n)
    PROVE  Delivery!Deliver(n)
<1>1. /\ Trigger(n) /\ UNCHANGED <<blocks, completed, process_stage>>
      /\ \A m \in Remaining : n <= m
    BY TriggersLowest DEF TriggerNext, Drain
<1>2. /\ n \in Remaining
      /\ Range(triggered') = Range(triggered) \cup {n}
    BY <1>1, TriggerFacts
<1>3. Owed' = Owed
    BY <1>1 DEF Owed, Range
<1>4. Remaining' = Remaining \ {n}
    BY <1>2, <1>3 DEF Remaining, Range
<1> QED BY <1>1, <1>2, <1>4 DEF Delivery!Deliver

\* A panic gives up the blocks that were not handled.
LEMMA PanicSimulation ==
    ASSUME DistinctBatches, IInv, HandlerPanics
    PROVE  \E lost \in SUBSET Remaining : Delivery!GiveUp(lost)
<1>1. process_stage = "running" /\ process_stage' = "panicked"
    BY DEF HandlerPanics
<1>2. Remaining' \subseteq Remaining
    BY PanicShrinks DEF IInv
<1> DEFINE lost == Remaining \ Remaining'
<1>3. Remaining' = Remaining \ lost
    BY <1>2
<1>4. Delivery!GiveUp(lost)
    BY <1>1, <1>3 DEF Delivery!GiveUp
<1> QED BY <1>4

\* The pipeline delivers as OrderedDelivery promises.
THEOREM Refinement ==
    ASSUME DistinctBatches
    PROVE  Spec => ImplementsOrderedDelivery
<1>1. Init => Delivery!Init
    <2> SUFFICES ASSUME Init PROVE Delivery!Init
        OBVIOUS
    <2>1. PICK b \in Batches : blocks = b.blocks
        BY DEF Init
    <2>2. Range(triggered) = {} /\ process_stage = "running"
        BY DEF Init, Range
    <2>3. Remaining = Range(blocks)
        BY <2>2 DEF Remaining, Owed
    <2> QED BY <2>1, <2>2, <2>3 DEF Delivery!Init
<1>2. IInv /\ [Next]_vars => [Delivery!Next]_<<Remaining, process_stage = "panicked">>
    <2> SUFFICES ASSUME IInv, [Next]_vars
                 PROVE  [Delivery!Next]_<<Remaining, process_stage = "panicked">>
        OBVIOUS
    <2>1. CASE \/ MainStep \/ StartHandler \/ EndProcessStage
               \/ \E i \in in_flight : FinishHandler(i)
               \/ Receive \/ StartDraining \/ EndTriggerStage \/ UNCHANGED vars
        <3>1. /\ UNCHANGED <<blocks, triggered>>
              /\ \/ UNCHANGED <<completed, process_stage>>
                 \/ process_stage # "panicked" /\ process_stage' # "panicked"
            BY <2>1 DEF MainStep, Start, Feed, FailToFeed, DropSenders, Join, StartHandler,
                        FinishHandler, EndProcessStage, Receive, StartDraining,
                        EndTriggerStage, vars, pipelineVars
        <3>2. Remaining' = Remaining
            BY <3>1, RemainingKept
        <3>3. (process_stage = "panicked")' = (process_stage = "panicked")
            BY <3>1
        <3> QED BY <3>2, <3>3
    <2>2. ASSUME NEW n \in pending_blocks, (TriggerNext /\ n = next_block_number) \/ Drain(n)
          PROVE  Delivery!Next
        <3>1. Delivery!Deliver(n)
            BY <2>2, DeliverySimulation
        <3>2. n \in Remaining
            BY BufferedIsOwed
        <3> QED BY <3>1, <3>2 DEF Delivery!Next
    <2>3. CASE HandlerPanics
        BY <2>3, PanicSimulation DEF Delivery!Next
    <2> QED BY <2>1, <2>2, <2>3 DEF Next, ProcessStep, TriggerStep, TriggerNext, Terminated
<1> QED BY <1>1, <1>2, Invariance, PTL DEF Spec, ImplementsOrderedDelivery, Delivery!Spec

-----------------------------------------------------------------------------
(* TrackedRuns: every history size, every set of runs and every            *)
(* interleaving of their calls.                                            *)

\* An active run finds the expectation filled, and above its own next number only if
\* another run has recorded a block that far up.
ExpectationIsJustified ==
    \A r \in Runs : cursor[r] # Idle =>
        /\ expected_next # Vacant
        /\ expected_next <= cursor[r] \/ expected_next <= overtaken[r]

\* The inductive invariant.
RunsInv ==
    /\ RunsTypeOK
    /\ HistoryIsRecent
    /\ DuplicatesAreFar
    /\ ExpectationIsJustified

-----------------------------------------------------------------------------

\* Numbers and sequences that a well-typed state consists of.
LEMMA TypeFacts ==
    ASSUME RunsTypeOK
    PROVE  /\ MaxBlock \in Nat /\ HistorySize \in Nat
           /\ Blocks \subseteq Nat
           /\ processed_history \in Seq(Blocks) /\ recorded \in Seq(Blocks)
           /\ Len(processed_history) \in Nat /\ Len(recorded) \in Nat
           /\ expected_next \in Nat \cup {Vacant}
<1>1. Len(processed_history) \in Nat /\ Len(recorded) \in Nat
    BY RangeElements DEF RunsTypeOK
<1>2. MaxBlock \in Nat /\ HistorySize \in Nat
    BY RunsAssumption, HistorySizeAssumption
<1> QED BY <1>1, <1>2 DEF RunsTypeOK, Blocks

\* A verdict depends on the expectation alone once it is filled.
LEMMA ActiveExpectation ==
    ASSUME RunsInv, NEW r \in Runs, cursor[r] # Idle, NEW n \in Blocks
    PROVE  /\ expected_next \in 1 .. MaxBlock + 1
           /\ ExpectedFor(n) = expected_next
           /\ expected_next <= cursor[r] \/ expected_next <= overtaken[r]
BY DEF RunsInv, RunsTypeOK, ExpectationIsJustified, ExpectedFor

\* A number about to be recorded is not among the last HistorySize recorded.
LEMMA NotRecent ==
    ASSUME RunsInv, NEW n \in Blocks, CheckResult(n) # "duplicate",
           NEW i \in 1 .. Len(recorded), recorded[i] = n
    PROVE  Len(recorded) + 1 - i > HistorySize
<1> DEFINE l == Len(recorded)
           h == Len(processed_history)
           k == i - (l - h)
<1>1. /\ l \in Nat /\ h \in Nat /\ HistorySize \in Nat /\ i \in 1 .. l
      /\ h = IF l < HistorySize THEN l ELSE HistorySize
    BY TypeFacts DEF RunsInv, HistoryIsRecent
<1>2. \A j \in 1 .. h : processed_history[j] = recorded[l - h + j]
    BY DEF RunsInv, HistoryIsRecent
<1>3. \A j \in 1 .. h : processed_history[j] \in Range(processed_history)
    BY RangeElements, TypeFacts DEF RunsInv
<1>4. n \notin Range(processed_history)
    BY DEF CheckResult
<1> HIDE DEF l, h
<1>5. SUFFICES ASSUME ~(l + 1 - i > HistorySize)
               PROVE  FALSE
    BY DEF l
<1>6. k \in 1 .. h /\ l - h + k = i
    BY <1>1, <1>5
<1>7. processed_history[k] = n
    BY <1>2, <1>6 DEF l
<1> QED BY <1>3, <1>4, <1>6, <1>7

-----------------------------------------------------------------------------
(* The steps.                                                              *)

\* A reset justifies the expectation of the run that resets, and lowers it for others.
LEMMA BeginStep ==
    ASSUME RunsInv, NEW r \in Runs, NEW n \in Blocks, Begin(r, n)
    PROVE  RunsInv'
<1> USE DEF RunsInv
<1>1. /\ processed_history' = processed_history /\ recorded' = recorded
      /\ expected_next' = IF expected_next = Vacant \/ expected_next > n THEN n ELSE expected_next
      /\ cursor' = [cursor EXCEPT ![r] = n]
      /\ overtaken' = [overtaken EXCEPT ![r] = 0]
    BY DEF Begin, ResetExpectedNext
<1>2. RunsTypeOK'
    BY <1>1, RunsAssumption DEF RunsTypeOK, Blocks, Vacant
<1>3. HistoryIsRecent' /\ DuplicatesAreFar'
    BY <1>1 DEF HistoryIsRecent, DuplicatesAreFar
<1>4. ExpectationIsJustified'
    <2> SUFFICES ASSUME NEW q \in Runs, cursor'[q] # Idle
                 PROVE  /\ expected_next' # Vacant
                        /\ expected_next' <= cursor'[q] \/ expected_next' <= overtaken'[q]
        BY DEF ExpectationIsJustified
    <2>1. /\ n \in 1 .. MaxBlock /\ MaxBlock \in Nat
          /\ expected_next \in 1 .. MaxBlock + 1 \cup {Vacant}
          /\ cursor \in [Runs -> 1 .. MaxBlock + 1 \cup {Idle}]
          /\ overtaken \in [Runs -> 0 .. MaxBlock + 1]
        BY RunsAssumption DEF RunsTypeOK, Blocks
    <2>2. CASE q = r
        BY <1>1, <2>1, <2>2 DEF Vacant
    <2>3. CASE q # r
        <3>1. cursor'[q] = cursor[q] /\ overtaken'[q] = overtaken[q]
            BY <1>1, <2>1, <2>3
        <3>2. /\ expected_next # Vacant
              /\ expected_next <= cursor[q] \/ expected_next <= overtaken[q]
            BY <3>1 DEF ExpectationIsJustified
        <3>3. cursor[q] \in Int /\ overtaken[q] \in Int
            BY <2>1 DEF Idle
        <3> QED BY <1>1, <2>1, <3>1, <3>2, <3>3 DEF Vacant
    <2> QED BY <2>2, <2>3
<1> QED BY <1>2, <1>3, <1>4

\* A check that finds a duplicate only moves the run on.
LEMMA DuplicateStep ==
    ASSUME RunsInv, NEW r \in Runs, NEW n \in Blocks, Check(r, n), CheckResult(n) = "duplicate"
    PROVE  RunsInv'
<1> USE DEF RunsInv
<1>1. /\ expected_next \in 1 .. MaxBlock + 1
      /\ ExpectedFor(n) = expected_next
      /\ expected_next <= cursor[r] \/ expected_next <= overtaken[r]
    BY ActiveExpectation DEF Check
<1>2. /\ processed_history' = processed_history /\ expected_next' = expected_next
      /\ recorded' = recorded /\ overtaken' = overtaken
      /\ cursor' = [cursor EXCEPT ![r] = n + 1]
      /\ cursor[r] # Idle /\ n >= cursor[r]
    BY <1>1 DEF Check, CheckProcessedBlock
<1>3. RunsTypeOK'
    BY <1>2, RunsAssumption DEF RunsTypeOK, Blocks
<1>4. HistoryIsRecent' /\ DuplicatesAreFar'
    BY <1>2 DEF HistoryIsRecent, DuplicatesAreFar
<1>5. ExpectationIsJustified'
    <2> SUFFICES ASSUME NEW q \in Runs, cursor'[q] # Idle
                 PROVE  /\ expected_next # Vacant
                        /\ expected_next <= cursor'[q] \/ expected_next <= overtaken[q]
        BY <1>2 DEF ExpectationIsJustified
    <2>1. /\ n \in Nat /\ cursor \in [Runs -> 1 .. MaxBlock + 1 \cup {Idle}]
          /\ overtaken \in [Runs -> 0 .. MaxBlock + 1] /\ MaxBlock \in Nat
        BY RunsAssumption DEF RunsTypeOK, Blocks
    <2>2. CASE q = r
        BY <1>1, <1>2, <2>1, <2>2 DEF Vacant, Idle
    <2>3. CASE q # r
        <3>1. cursor'[q] = cursor[q]
            BY <1>2, <2>1, <2>3
        <3> QED BY <3>1 DEF ExpectationIsJustified
    <2> QED BY <2>2, <2>3
<1> QED BY <1>3, <1>4, <1>5

\* What a check that records its number changes.
LEMMA RecordingChanges ==
    ASSUME RunsInv, NEW r \in Runs, NEW n \in Blocks, Check(r, n), CheckResult(n) # "duplicate"
    PROVE  /\ processed_history' = Evict(Append(processed_history, n))
           /\ expected_next' = IF n >= expected_next THEN n + 1 ELSE expected_next
           /\ expected_next \in 1 .. MaxBlock + 1
           /\ expected_next <= cursor[r] \/ expected_next <= overtaken[r]
           /\ cursor[r] # Idle /\ n >= cursor[r]
           /\ cursor' = [cursor EXCEPT ![r] = n + 1]
           /\ recorded' = Append(recorded, n)
           /\ overtaken' = [q \in Runs |->
                  IF q # r /\ overtaken[q] < n + 1 THEN n + 1 ELSE overtaken[q]]
<1>1. /\ expected_next \in 1 .. MaxBlock + 1
      /\ ExpectedFor(n) = expected_next
      /\ expected_next <= cursor[r] \/ expected_next <= overtaken[r]
    BY ActiveExpectation DEF Check
<1> QED BY <1>1 DEF Check, CheckProcessedBlock

\* Recording keeps the history equal to the recent window.
LEMMA RecordingKeepsHistory ==
    ASSUME RunsInv, NEW r \in Runs, NEW n \in Blocks, Check(r, n), CheckResult(n) # "duplicate"
    PROVE  HistoryIsRecent' /\ processed_history' \in Seq(Blocks)
<1> DEFINE l == Len(recorded)
           h == Len(processed_history)
           longer == Append(processed_history, n)
           h1 == Len(processed_history')
<1>1. /\ l \in Nat /\ h \in Nat /\ HistorySize \in Nat
      /\ h = IF l < HistorySize THEN l ELSE HistorySize
      /\ \A i \in 1 .. h : processed_history[i] = recorded[l - h + i]
    BY TypeFacts DEF RunsInv, HistoryIsRecent
<1>2. /\ longer \in Seq(Blocks) /\ Len(longer) = h + 1 /\ longer[h + 1] = n
      /\ \A i \in 1 .. h : longer[i] = processed_history[i]
    BY AppendProperties, TypeFacts DEF RunsInv
<1>3. /\ Len(recorded') = l + 1 /\ recorded'[l + 1] = n
      /\ \A i \in 1 .. l : recorded'[i] = recorded[i]
    BY AppendProperties, TypeFacts, RecordingChanges DEF RunsInv
<1>4. processed_history' = Evict(longer)
    BY RecordingChanges
<1> HIDE DEF longer
<1>5. /\ processed_history' \in Seq(Blocks)
      /\ h1 = IF Len(longer) > HistorySize THEN HistorySize ELSE Len(longer)
      /\ \A i \in 1 .. h1 : processed_history'[i] = longer[Len(longer) - h1 + i]
    BY <1>2, <1>4, EvictKeepsNewest
<1> HIDE DEF l, h, h1
<1>6. h1 = IF l + 1 < HistorySize THEN l + 1 ELSE HistorySize
    BY <1>1, <1>2, <1>5
<1>7. ASSUME NEW i \in 1 .. h1
      PROVE  processed_history'[i] = recorded'[l + 1 - h1 + i]
    <2> DEFINE k == h + 1 - h1 + i
    <2>1. k \in 1 .. h + 1 /\ l + 1 - h1 + i = l - h + k /\ i \in Nat /\ h <= l
        BY <1>1, <1>6
    <2>2. processed_history'[i] = longer[k]
        <3>1. Len(longer) - h1 + i = k
            BY <1>1, <1>2, <1>6, <2>1
        <3> QED BY <1>5, <3>1
    <2> HIDE DEF k
    <2>3. CASE k = h + 1
        <3>1. l - h + k = l + 1
            BY <1>1, <2>3
        <3> QED BY <1>2, <1>3, <2>1, <2>2, <2>3, <3>1
    <2>4. CASE k \in 1 .. h
        <3>1. l - h + k \in 1 .. l
            BY <1>1, <2>1, <2>4
        <3>2. longer[k] = recorded[l - h + k]
            BY <1>1, <1>2, <2>4
        <3> QED BY <1>3, <2>1, <2>2, <3>1, <3>2
    <2> QED BY <1>1, <2>1, <2>3, <2>4
<1>8. /\ h1 = IF Len(recorded') < HistorySize THEN Len(recorded') ELSE HistorySize
      /\ \A i \in 1 .. h1 : processed_history'[i] = recorded'[Len(recorded') - h1 + i]
    <2>1. Len(recorded') = l + 1
        BY <1>3
    <2>2. \A i \in 1 .. h1 : processed_history'[i] = recorded'[l + 1 - h1 + i]
        BY <1>7
    <2>3. l \in Nat /\ h1 \in Nat
        BY <1>1, <1>6
    <2>4. h1 = IF Len(recorded') < HistorySize THEN Len(recorded') ELSE HistorySize
        BY <1>6, <2>1
    <2>5. \A i \in 1 .. h1 : processed_history'[i] = recorded'[Len(recorded') - h1 + i]
        BY <2>1, <2>2, <2>3
    <2> QED BY <2>4, <2>5
<1>9. HistoryIsRecent'
    BY <1>8 DEF HistoryIsRecent, h1
<1> QED BY <1>5, <1>9

\* Recording keeps repetitions more than HistorySize apart.
LEMMA RecordingKeepsDistance ==
    ASSUME RunsInv, NEW r \in Runs, NEW n \in Blocks, Check(r, n), CheckResult(n) # "duplicate"
    PROVE  DuplicatesAreFar'
<1> DEFINE l == Len(recorded)
<1>1. /\ Len(recorded') = l + 1 /\ recorded'[l + 1] = n
      /\ \A i \in 1 .. l : recorded'[i] = recorded[i]
    BY AppendProperties, TypeFacts, RecordingChanges DEF RunsInv
<1>2. l \in Nat
    BY TypeFacts DEF RunsInv
<1>3. \A i \in 1 .. l : recorded[i] = n => l + 1 - i > HistorySize
    BY NotRecent
<1>4. \A i, j \in 1 .. l : i < j /\ recorded[i] = recorded[j] => j - i > HistorySize
    BY DEF RunsInv, DuplicatesAreFar
<1> HIDE DEF l
<1>5. SUFFICES ASSUME NEW i \in 1 .. l + 1, NEW j \in 1 .. l + 1, i < j,
                      recorded'[i] = recorded'[j]
               PROVE  j - i > HistorySize
    BY <1>1 DEF DuplicatesAreFar
<1>6. i \in 1 .. l /\ recorded'[i] = recorded[i]
    BY <1>1, <1>2, <1>5
<1>7. CASE j = l + 1
    <2>1. recorded[i] = n
        BY <1>1, <1>5, <1>6, <1>7
    <2>2. l + 1 - i > HistorySize
        BY <1>3, <1>6, <2>1
    <2> QED BY <1>2, <1>6, <1>7, <2>2
<1>8. CASE j \in 1 .. l
    BY <1>1, <1>4, <1>5, <1>6, <1>8
<1> QED BY <1>2, <1>7, <1>8

\* A check that records its number.
LEMMA RecordingStep ==
    ASSUME RunsInv, NEW r \in Runs, NEW n \in Blocks, Check(r, n), CheckResult(n) # "duplicate"
    PROVE  RunsInv'
<1>1. /\ n \in 1 .. MaxBlock /\ MaxBlock \in Nat
      /\ cursor \in [Runs -> 1 .. MaxBlock + 1 \cup {Idle}]
      /\ overtaken \in [Runs -> 0 .. MaxBlock + 1]
    BY RunsAssumption DEF RunsInv, RunsTypeOK, Blocks
<1>2. RunsTypeOK'
    <2>1. processed_history' \in Seq(Blocks)
        BY RecordingKeepsHistory
    <2>2. recorded' \in Seq(Blocks)
        <3>1. recorded \in Seq(Blocks)
            BY TypeFacts DEF RunsInv
        <3>2. Append(recorded, n) \in Seq(Blocks)
            BY <3>1, AppendProperties
        <3> QED BY <3>2, RecordingChanges
    <2>3. expected_next' \in 1 .. MaxBlock + 1
        BY <1>1, RecordingChanges
    <2>4. cursor' \in [Runs -> 1 .. MaxBlock + 1 \cup {Idle}]
        BY <1>1, RecordingChanges
    <2>5. overtaken' \in [Runs -> 0 .. MaxBlock + 1]
        BY <1>1, RecordingChanges
    <2> QED BY <2>1, <2>2, <2>3, <2>4, <2>5 DEF RunsTypeOK
<1>3. ExpectationIsJustified'
    <2> SUFFICES ASSUME NEW q \in Runs, cursor'[q] # Idle
                 PROVE  /\ expected_next' # Vacant
                        /\ expected_next' <= cursor'[q] \/ expected_next' <= overtaken'[q]
        BY DEF ExpectationIsJustified
    <2>1. /\ expected_next \in 1 .. MaxBlock + 1
          /\ expected_next' = IF n >= expected_next THEN n + 1 ELSE expected_next
          /\ cursor[r] # Idle /\ n >= cursor[r]
          /\ expected_next <= cursor[r] \/ expected_next <= overtaken[r]
        BY RecordingChanges
    <2>2. cursor[r] \in Int /\ overtaken[q] \in Int /\ cursor[q] \in Int
        BY <1>1 DEF Idle
    <2>3. CASE q = r
        <3>1. cursor'[q] = n + 1 /\ overtaken'[q] = overtaken[r]
            BY <1>1, <2>3, RecordingChanges
        <3> QED BY <1>1, <2>1, <2>2, <2>3, <3>1 DEF Vacant
    <2>4. CASE q # r
        <3>1. /\ cursor'[q] = cursor[q]
              /\ overtaken'[q] = IF overtaken[q] < n + 1 THEN n + 1 ELSE overtaken[q]
            BY <1>1, <2>4, RecordingChanges
        <3>2. expected_next <= cursor[q] \/ expected_next <= overtaken[q]
            BY <3>1 DEF RunsInv, ExpectationIsJustified
        <3> QED BY <1>1, <2>1, <2>2, <3>1, <3>2 DEF Vacant
    <2> QED BY <2>3, <2>4
<1> QED BY <1>2, <1>3, RecordingKeepsHistory, RecordingKeepsDistance DEF RunsInv

-----------------------------------------------------------------------------
(* The invariant and what follows from it.                                 *)

\* The tracker starts empty.
LEMMA Initial == RunsInit => RunsInv
<1> SUFFICES ASSUME RunsInit
             PROVE  RunsInv
    OBVIOUS
<1>1. /\ processed_history = <<>> /\ recorded = <<>> /\ expected_next = Vacant
      /\ cursor = [r \in Runs |-> Idle] /\ overtaken = [r \in Runs |-> 0]
    BY DEF RunsInit, TrackerInit
<1>2. RunsTypeOK
    BY <1>1, RunsAssumption, EmptySeq DEF RunsTypeOK
<1>3. Len(<<>>) = 0
    OBVIOUS
<1>4. HistoryIsRecent
    BY <1>1, <1>3, HistorySizeAssumption DEF HistoryIsRecent
<1>5. DuplicatesAreFar
    BY <1>1, <1>3 DEF DuplicatesAreFar
<1>6. ExpectationIsJustified
    BY <1>1 DEF ExpectationIsJustified
<1> QED BY <1>2, <1>4, <1>5, <1>6 DEF RunsInv

\* Every step keeps the invariant.
LEMMA Inductive == RunsInv /\ [RunsNext]_runsVars => RunsInv'
<1> SUFFICES ASSUME RunsInv, [RunsNext]_runsVars
             PROVE  RunsInv'
    OBVIOUS
<1>1. ASSUME NEW r \in Runs, NEW n \in Blocks, Begin(r, n)
      PROVE  RunsInv'
    BY <1>1, BeginStep
<1>2. ASSUME NEW r \in Runs, NEW n \in Blocks, Check(r, n)
      PROVE  RunsInv'
    BY <1>2, DuplicateStep, RecordingStep
<1>3. ASSUME NEW r \in Runs, End(r)
      PROVE  RunsInv'
    <2>1. UNCHANGED <<processed_history, expected_next, recorded, overtaken>>
        BY <1>3 DEF End
    <2>2. cursor' = [cursor EXCEPT ![r] = Idle]
        BY <1>3 DEF End
    <2>3. RunsTypeOK'
        BY <2>1, <2>2 DEF RunsInv, RunsTypeOK
    <2>4. HistoryIsRecent' /\ DuplicatesAreFar'
        BY <2>1 DEF RunsInv, HistoryIsRecent, DuplicatesAreFar
    <2>5. ExpectationIsJustified'
        BY <2>1, <2>2 DEF RunsInv, RunsTypeOK, ExpectationIsJustified
    <2> QED BY <2>3, <2>4, <2>5 DEF RunsInv
<1>4. CASE UNCHANGED runsVars
    BY <1>4 DEF runsVars, RunsInv, RunsTypeOK, HistoryIsRecent, DuplicatesAreFar, ExpectationIsJustified
<1> QED BY <1>1, <1>2, <1>3, <1>4 DEF RunsNext

\* A run is told OutOfOrder only when another has overtaken it (reset_expected_next).
LEMMA VerdictIsJustified == RunsInv => OutOfOrderMeansOvertaken
<1> SUFFICES ASSUME RunsInv, NEW r \in Runs, NEW n \in Blocks,
                    cursor[r] # Idle, n >= cursor[r], CheckResult(n) = "out_of_order"
             PROVE  overtaken[r] > n
    BY DEF OutOfOrderMeansOvertaken
<1>1. n < expected_next
    <2>1. n < ExpectedFor(n)
        BY DEF CheckResult
    <2> QED BY <2>1, ActiveExpectation
<1>2. /\ expected_next \in 1 .. MaxBlock + 1 /\ n \in 1 .. MaxBlock /\ MaxBlock \in Nat
      /\ cursor[r] \in 1 .. MaxBlock + 1 /\ overtaken[r] \in 0 .. MaxBlock + 1
    BY ActiveExpectation, RunsAssumption DEF RunsInv, RunsTypeOK, Blocks
<1>3. expected_next <= cursor[r] \/ expected_next <= overtaken[r]
    BY ActiveExpectation
<1> QED BY <1>1, <1>2, <1>3

\* The invariant holds in every reachable state.
THEOREM RunsInvariance == RunsSpec => []RunsInv
BY Initial, Inductive, PTL DEF RunsSpec

\* The tracker and the runs keep their types.
THEOREM RunsTypeCorrect == RunsSpec => []RunsTypeOK
<1>1. RunsInv => RunsTypeOK
    BY DEF RunsInv
<1> QED BY <1>1, RunsInvariance, PTL

\* The history is the recent window, whatever runs call check_processed_block.
THEOREM HistoryCorrect == RunsSpec => []HistoryIsRecent
<1>1. RunsInv => HistoryIsRecent
    BY DEF RunsInv
<1> QED BY <1>1, RunsInvariance, PTL

\* No number is recorded twice within HistorySize numbers (check_processed_block).
THEOREM NoNearDuplicate == RunsSpec => []DuplicatesAreFar
<1>1. RunsInv => DuplicatesAreFar
    BY DEF RunsInv
<1> QED BY <1>1, RunsInvariance, PTL

\* The OutOfOrder verdict always has a cause (reset_expected_next).
THEOREM WarningsJustified == RunsSpec => []OutOfOrderMeansOvertaken
BY VerdictIsJustified, RunsInvariance, PTL
=============================================================================
