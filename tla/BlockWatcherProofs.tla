------------------------- MODULE BlockWatcherProofs -------------------------
(***************************************************************************)
(* Proofs about BlockWatcher.  NoSilentLoss holds for every height, every  *)
(* configuration, any number of overlapping runs, files that cannot be     *)
(* read or written and crashes.  NoDuplicateProcessing and                 *)
(* LastNeverRegresses hold when nothing disturbs the runs.                 *)
(***************************************************************************)
EXTENDS BlockWatcher, TLAPS

Accounted == triggered \cup missed \cup skipped \cup unseen

CoveredUpTo(b) == \A n \in origin .. b : n \in Accounted

\* The block a run read was covered.
ReadIsCovered(r) == run[r].pc # "idle" /\ run[r].last # 0 => CoveredUpTo(run[r].last)

Answered == {"recording", "delivering", "deleting", "storing", "saving", "writing"}
Joined   == {"deleting", "storing", "saving", "writing"}

\* Each block the run asked for is fetched, a hole to be recorded, or unseen; those below
\* what it asked for are skipped, or lie before the origin.
AnswerAccounted(r) == run[r].pc \in Answered =>
    /\ \A n \in Requested(r) : n \in run[r].fetched \cup Recorded(run[r].fetched) \cup unseen
    /\ run[r].last = 0 => run[r].confirmed <= origin
    /\ run[r].last # 0 /\ run[r].last < run[r].confirmed
          => run[r].last + 1 .. StartBlock(r) - 1 \subseteq skipped

\* What is no longer to be delivered was; the holes are recorded before the first delivery.
DeliveryAccounted(r) ==
    /\ run[r].pc \in Answered => run[r].fetched \subseteq run[r].remaining \cup triggered
    /\ run[r].pc \in Answered \ {"recording"} => Recorded(run[r].fetched) \subseteq missed
    /\ run[r].pc \in Joined => run[r].remaining = {}

RunAccounted(r) == ReadIsCovered(r) /\ AnswerAccounted(r) /\ DeliveryAccounted(r)

\* The inductive invariant for NoSilentLoss.
IInv == TypeOK /\ CoveredUpTo(last_file) /\ \A r \in Runs : RunAccounted(r)

-----------------------------------------------------------------------------
(* Without disturbances.                                                   *)

\* One run at a time, nodes that do not lag, a disk that works, no crash, and a chain
\* with a confirmed block above 0.
Undisturbed ==
    /\ \A r, q \in Runs : r = q
    /\ MaxLag = 0
    /\ ~ StorageFails
    /\ ~ Crashes
    /\ confirmation_blocks < InitialHeight

TriggeredUpTo(b) == \A n \in triggered : n <= b

\* Nothing triggered lies above the file, which is whole, until a run delivers.
FileIsAhead(r) == run[r].pc \in {"idle", "asking", "fetching", "recording"} =>
    /\ last_file # Torn
    /\ TriggeredUpTo(last_file)
    /\ run[r].pc # "idle" => run[r].last = IF last_file = NoFile THEN 0 ELSE last_file

\* Nothing triggered lies above the block a run will save, nor is to be delivered.
ConfirmedIsAhead(r) == run[r].pc \in {"fetching"} \cup Answered =>
    /\ run[r].confirmed \in 1 .. SaturatingSub(height, confirmation_blocks)
    /\ TriggeredUpTo(run[r].confirmed)
    /\ run[r].pc # "fetching" => run[r].remaining \subseteq (1 .. run[r].confirmed) \ triggered

\* The inductive invariant for runs that nothing disturbs.
QuietInv ==
    /\ TypeOK
    /\ InitialHeight <= height
    /\ triggered \subseteq 1 .. SaturatingSub(height, confirmation_blocks)
    /\ twice = {}
    /\ \A r \in Runs : FileIsAhead(r) /\ ConfirmedIsAhead(r)

-----------------------------------------------------------------------------
(* Types.                                                                  *)

\* What a run asks for and what it skips are blocks of the chain.
LEMMA RequestTypes ==
    ASSUME TypeOK, NEW r \in Runs
    PROVE  /\ run[r].last \in Nat /\ run[r].confirmed \in Nat
           /\ StartBlock(r) \in Nat
           /\ Requested(r) \subseteq Blocks
           /\ run[r].last # 0 /\ run[r].last < run[r].confirmed
                 => /\ run[r].last < StartBlock(r) /\ StartBlock(r) <= run[r].confirmed
                    /\ run[r].last + 1 .. StartBlock(r) - 1 \subseteq Blocks
<1>1. run[r].last \in Blocks /\ run[r].confirmed \in Blocks /\ max_past_blocks \in Nat /\ MaxHeight \in Nat
    BY WatcherAssumption DEF TypeOK, RunStates
<1>2. StartBlock(r) \in Nat
    BY <1>1 DEF StartBlock, Larger, SaturatingSub, Blocks
<1>3. run[r].last # 0 /\ run[r].last < run[r].confirmed
         => run[r].last < StartBlock(r) /\ StartBlock(r) <= run[r].confirmed
    BY <1>1 DEF StartBlock, Larger, SaturatingSub, Blocks
<1> QED BY <1>1, <1>2, <1>3 DEF Requested, Blocks

\* So are the holes in what was fetched.
LEMMA HoleTypes ==
    ASSUME NEW fetched \in SUBSET Blocks
    PROVE  Recorded(fetched) \subseteq Blocks
BY WatcherAssumption DEF Recorded, Missing, Blocks

\* Every action keeps the types.
LEMMA TypesKept ==
    ASSUME TypeOK, [Next]_vars
    PROVE  TypeOK'
<1> USE DEF TypeOK, RunStates
<1>1. MaxHeight \in Nat /\ NoFile \notin Blocks /\ Torn \notin Blocks
    BY WatcherAssumption DEF NoFile, Torn, Blocks
<1>2. IdleRun \in RunStates
    BY <1>1 DEF IdleRun, Blocks
<1>3. ASSUME NEW r \in Runs, Tick(r) PROVE TypeOK'
    <2> DEFINE last == IF last_file = NoFile THEN 0 ELSE last_file
    <2>1. last \in Blocks
        BY <1>1, <1>3 DEF Tick, Blocks
    <2>2. run' = [run EXCEPT ![r].pc = "asking", ![r].last = last]
        BY <1>3 DEF Tick
    <2> HIDE DEF last
    <2>3. run' \in [Runs -> RunStates]
        <3>1. [run[r] EXCEPT !.pc = "asking", !.last = last] \in RunStates
            BY <2>1
        <3>2. run' = [run EXCEPT ![r] = [run[r] EXCEPT !.pc = "asking", !.last = last]]
            BY <2>2
        <3> QED BY <3>1, <3>2
    <2>4. UNCHANGED <<height, last_file, block_files, missed, tasks, notified, triggered, twice,
                      skipped, unseen, origin>>
        BY <1>3 DEF Tick, environment
    <2> QED BY <2>3, <2>4
<1>4. ASSUME NEW r \in Runs, RpcError(r) PROVE TypeOK'
    BY <1>2, <1>4 DEF RpcError, Leave, environment
<1>5. ASSUME NEW r \in Runs, NEW latest \in Blocks, GetLatest(r, latest) PROVE TypeOK'
    <2>1. SaturatingSub(latest, confirmation_blocks) \in Blocks
        BY WatcherAssumption DEF SaturatingSub, Blocks
    <2> DEFINE told == [run[r] EXCEPT !.pc = "fetching",
                                      !.confirmed = SaturatingSub(latest, confirmation_blocks)]
    <2>2. told \in RunStates
        BY <2>1
    <2>3. run' = [run EXCEPT ![r] = told]
        BY <1>5 DEF GetLatest
    <2> HIDE DEF told
    <2>4. run' \in [Runs -> RunStates]
        BY <2>2, <2>3
    <2> QED BY <1>5, <2>4 DEF GetLatest, environment
<1>6. ASSUME NEW r \in Runs, NEW answer \in SUBSET Requested(r), GetBlocks(r, answer) PROVE TypeOK'
    <2>1. Requested(r) \subseteq Blocks /\ run[r].confirmed \in Blocks
        BY RequestTypes
    <2>2. skipped' \subseteq Blocks
        BY <1>6, RequestTypes DEF GetBlocks
    <2>3. origin' \in 0 .. MaxHeight + 1
        BY <1>1, <1>6, <2>1 DEF GetBlocks, Larger, Blocks
    <2>4. unseen' \subseteq Blocks
        BY <1>6, <2>1 DEF GetBlocks
    <2>5. run' = [run EXCEPT ![r].pc = "recording", ![r].fetched = answer, ![r].remaining = answer]
        BY <1>6 DEF GetBlocks
    <2>6. answer \subseteq Blocks
        BY <2>1
    <2>7. run' \in [Runs -> RunStates]
        <3> DEFINE told == [run[r] EXCEPT !.pc = "recording", !.fetched = answer, !.remaining = answer]
        <3>1. told \in RunStates
            BY <2>6
        <3>2. run' = [run EXCEPT ![r] = told]
            BY <2>5
        <3> HIDE DEF told
        <3> QED BY <3>1, <3>2
    <2> QED BY <1>6, <2>7, <2>2, <2>3, <2>4, <2>5, <2>6 DEF GetBlocks
<1>7. ASSUME NEW r \in Runs, RecordMissed(r) PROVE TypeOK'
    <2>1. Recorded(run[r].fetched) \subseteq Blocks
        BY HoleTypes
    <2> QED BY <1>7, <2>1 DEF RecordMissed, Goto
<1>8. ASSUME NEW r \in Runs, Deliver(r) PROVE TypeOK'
    BY <1>8 DEF Deliver
<1>9. ASSUME NEW r \in Runs, JoinPipeline(r) PROVE TypeOK'
    BY <1>9 DEF JoinPipeline, Goto, environment
<1>10. ASSUME NEW r \in Runs, DeleteBlocks(r) \/ SaveBlocks(r) PROVE TypeOK'
    BY <1>10 DEF DeleteBlocks, SaveBlocks, Goto
<1>11. ASSUME NEW r \in Runs, TruncateLast(r) PROVE TypeOK'
    BY <1>11 DEF TruncateLast, Goto, environment
<1>12. ASSUME NEW r \in Runs, WriteLast(r) PROVE TypeOK'
    BY <1>2, <1>12 DEF WriteLast, Leave, environment
<1>13. ASSUME NEW r \in Runs, StorageError(r) PROVE TypeOK'
    BY <1>2, <1>13 DEF StorageError, Leave, environment
<1>14. ASSUME NEW n \in tasks, TaskEnds(n) PROVE TypeOK'
    BY <1>14 DEF TaskEnds
<1>15. CASE ChainGrows
    BY <1>1, <1>15 DEF ChainGrows, Blocks
<1>16. CASE Crash
    BY <1>2, <1>16 DEF Crash
<1>17. CASE UNCHANGED vars
    BY <1>17 DEF vars, environment
<1> QED BY <1>3, <1>4, <1>5, <1>6, <1>7, <1>8, <1>9, <1>10, <1>11, <1>12, <1>13, <1>14,
           <1>15, <1>16, <1>17 DEF Next, Respond, Work

-----------------------------------------------------------------------------
(* NoSilentLoss.                                                           *)

\* What is accounted for stays so, and the origin never sinks.
Grows == Accounted \subseteq Accounted' /\ origin \in Nat /\ origin' \in Nat /\ origin <= origin'

\* What is accounted for stays so, as the histories only grow.
LEMMA CoverageKept ==
    ASSUME Grows, NEW b \in Int, CoveredUpTo(b)
    PROVE  CoveredUpTo(b)'
BY DEF Grows, CoveredUpTo

\* A run that a step does not touch stays accounted for.
LEMMA OthersKept ==
    ASSUME TypeOK, Grows, missed \subseteq missed', triggered \subseteq triggered',
           skipped \subseteq skipped', unseen \subseteq unseen',
           NEW r \in Runs, RunAccounted(r), run'[r] = run[r]
    PROVE  RunAccounted(r)'
<1>1. StartBlock(r)' = StartBlock(r) /\ Requested(r)' = Requested(r)
    BY DEF StartBlock, Requested
<1>2. ReadIsCovered(r)'
    <2>1. run[r].last \in Int
        BY RequestTypes
    <2> QED BY <2>1, CoverageKept DEF RunAccounted, ReadIsCovered
<1>3. AnswerAccounted(r)'
    BY <1>1, RequestTypes DEF RunAccounted, AnswerAccounted, Grows
<1>4. DeliveryAccounted(r)'
    BY DEF RunAccounted, DeliveryAccounted
<1> QED BY <1>2, <1>3, <1>4 DEF RunAccounted

\* A run that is not there has nothing to account for.
LEMMA IdleAccounted ==
    ASSUME NEW r \in Runs, run[r] = IdleRun
    PROVE  RunAccounted(r)
BY DEF IdleRun, RunAccounted, ReadIsCovered, AnswerAccounted, DeliveryAccounted, Answered, Joined

\* A run that saves its confirmed block has accounted for every block up to it.
LEMMA ConfirmedIsCovered ==
    ASSUME TypeOK, NEW r \in Runs, RunAccounted(r), run[r].pc \in Joined
    PROVE  CoveredUpTo(run[r].confirmed)
<1> SUFFICES ASSUME NEW n \in origin .. run[r].confirmed
             PROVE  n \in Accounted
    BY DEF CoveredUpTo
<1>1. /\ run[r].last \in Nat /\ run[r].confirmed \in Nat /\ StartBlock(r) \in Nat
      /\ origin \in Nat
    BY RequestTypes DEF TypeOK
<1>2. \A m \in Requested(r) : m \in Accounted
    BY DEF RunAccounted, AnswerAccounted, DeliveryAccounted, Answered, Joined, Accounted
<1>3. CASE run[r].last = 0
    <2>1. n = run[r].confirmed
        BY <1>1, <1>3 DEF RunAccounted, AnswerAccounted, Answered, Joined
    <2> QED BY <1>2, <1>3, <2>1 DEF Requested
<1>4. CASE run[r].last # 0 /\ n <= run[r].last
    BY <1>1, <1>4 DEF RunAccounted, ReadIsCovered, CoveredUpTo, Joined
<1>5. CASE run[r].last # 0 /\ run[r].last < n /\ n < StartBlock(r)
    <2>1. run[r].last < run[r].confirmed
        BY <1>1, <1>5
    <2>2. n \in skipped
        BY <1>1, <1>5, <2>1 DEF RunAccounted, AnswerAccounted, Answered, Joined
    <2> QED BY <2>2 DEF Accounted
<1>6. CASE run[r].last # 0 /\ run[r].last < n /\ StartBlock(r) <= n
    <2>1. n \in Requested(r)
        BY <1>1, <1>6 DEF Requested
    <2> QED BY <1>2, <2>1
<1> QED BY <1>1, <1>3, <1>4, <1>5, <1>6

\* A step leaves accounted for what its action and the other runs account for.
LEMMA StepOfRun ==
    ASSUME IInv, TypeOK', NEW r \in Runs, RunAccounted(r)',
           \A q \in Runs \ {r} : run'[q] = run[q],
           missed \subseteq missed', triggered \subseteq triggered',
           skipped \subseteq skipped', unseen \subseteq unseen', origin <= origin',
           last_file' = last_file \/ CoveredUpTo(last_file)'
    PROVE  IInv'
<1>1. Grows
    BY DEF IInv, TypeOK, Grows, Accounted
<1>2. \A q \in Runs \ {r} : RunAccounted(q)'
    BY <1>1, OthersKept DEF IInv
<1>3. CoveredUpTo(last_file)'
    <2>1. last_file \in Int
        BY WatcherAssumption DEF IInv, TypeOK, Blocks, NoFile, Torn
    <2>2. ASSUME last_file' = last_file PROVE CoveredUpTo(last_file)'
        BY <1>1, <2>1, <2>2, CoverageKept DEF IInv, CoveredUpTo
    <2> QED BY <2>2
<1> QED BY <1>2, <1>3 DEF IInv

\* Each action of the blocks' way from the client to the file keeps the invariant.
LEMMA TickInv ==
    ASSUME IInv, TypeOK', NEW r \in Runs, Tick(r)
    PROVE  IInv'
<1>1. UNCHANGED <<last_file, missed, triggered, skipped, unseen, origin>>
    BY DEF Tick, environment
<1>2. /\ \A q \in Runs \ {r} : run'[q] = run[q]
      /\ run'[r].pc = "asking"
      /\ run'[r].last = IF last_file = NoFile THEN 0 ELSE last_file
    BY DEF Tick, IInv, TypeOK, RunStates
<1>3. CoveredUpTo(last_file)'
    BY <1>1 DEF IInv, CoveredUpTo, Accounted
<1>4. RunAccounted(r)'
    <2>1. ReadIsCovered(r)'
        BY <1>1, <1>2, <1>3 DEF ReadIsCovered, CoveredUpTo
    <2> QED BY <1>2, <2>1 DEF RunAccounted, AnswerAccounted, DeliveryAccounted, Answered, Joined
<1>5. origin <= origin'
    BY <1>1 DEF IInv, TypeOK
<1> QED BY <1>1, <1>2, <1>4, <1>5, StepOfRun

\* A run that learns the latest block decides what it will save.
LEMMA GetLatestInv ==
    ASSUME IInv, TypeOK', NEW r \in Runs, NEW latest \in Blocks, GetLatest(r, latest)
    PROVE  IInv'
<1>1. UNCHANGED <<last_file, missed, triggered, skipped, unseen, origin>>
    BY DEF GetLatest, environment
<1>2. /\ \A q \in Runs \ {r} : run'[q] = run[q]
      /\ run[r].pc = "asking" /\ run'[r].pc = "fetching" /\ run'[r].last = run[r].last
    BY DEF GetLatest, IInv, TypeOK, RunStates
<1>3. RunAccounted(r)'
    BY <1>1, <1>2 DEF IInv, RunAccounted, ReadIsCovered, AnswerAccounted, DeliveryAccounted,
                      Answered, Joined, CoveredUpTo, Accounted
<1>4. origin <= origin'
    BY <1>1 DEF IInv, TypeOK
<1> QED BY <1>1, <1>2, <1>3, <1>4, StepOfRun

\* What an answer leaves out is missed or was never seen.
LEMMA GetBlocksInv ==
    ASSUME IInv, TypeOK', NEW r \in Runs, NEW answer \in SUBSET Requested(r), GetBlocks(r, answer)
    PROVE  IInv'
<1>1. /\ UNCHANGED <<last_file, missed, triggered>>
      /\ unseen' = unseen \cup (Requested(r) \ (answer \cup Recorded(answer)))
      /\ skipped \subseteq skipped'
      /\ run[r].last # 0 /\ run[r].last < run[r].confirmed
            => run[r].last + 1 .. StartBlock(r) - 1 \subseteq skipped'
    BY DEF GetBlocks
<1>2. run[r].confirmed \in Nat /\ origin \in Nat
    BY RequestTypes DEF IInv, TypeOK
<1>3. run[r].last = 0 => run[r].confirmed <= origin'
    BY <1>2 DEF GetBlocks, Larger
<1>4. origin <= origin'
    BY <1>2 DEF GetBlocks, Larger
<1>5. /\ \A q \in Runs \ {r} : run'[q] = run[q]
      /\ run[r].pc = "fetching" /\ run'[r].pc = "recording"
      /\ run'[r].last = run[r].last /\ run'[r].confirmed = run[r].confirmed
      /\ run'[r].fetched = answer /\ run'[r].remaining = answer
    BY DEF GetBlocks, IInv, TypeOK, RunStates
<1>6. StartBlock(r)' = StartBlock(r) /\ Requested(r)' = Requested(r)
    BY <1>5 DEF StartBlock, Requested
<1>7. ReadIsCovered(r)'
    <2>1. Grows
        BY <1>1, <1>4 DEF Grows, Accounted, IInv, TypeOK
    <2>2. run[r].last \in Int
        BY RequestTypes DEF IInv
    <2> QED BY <1>5, <2>1, <2>2, CoverageKept DEF IInv, RunAccounted, ReadIsCovered
<1>8. AnswerAccounted(r)'
    BY <1>1, <1>3, <1>4, <1>5, <1>6 DEF AnswerAccounted
<1>9. DeliveryAccounted(r)'
    BY <1>5 DEF DeliveryAccounted, Answered, Joined
<1> QED BY <1>1, <1>4, <1>5, <1>7, <1>8, <1>9, StepOfRun DEF RunAccounted

\* Holes are recorded before the run delivers.
LEMMA RecordMissedInv ==
    ASSUME IInv, TypeOK', NEW r \in Runs, RecordMissed(r)
    PROVE  IInv'
<1>1. /\ UNCHANGED <<last_file, triggered, skipped, unseen, origin>>
      /\ missed' = missed \cup Recorded(run[r].fetched)
    BY DEF RecordMissed
<1>2. /\ \A q \in Runs \ {r} : run'[q] = run[q]
      /\ run[r].pc = "recording" /\ run'[r].pc = "delivering"
      /\ run'[r].last = run[r].last /\ run'[r].confirmed = run[r].confirmed
      /\ run'[r].fetched = run[r].fetched /\ run'[r].remaining = run[r].remaining
    BY DEF RecordMissed, Goto, IInv, TypeOK, RunStates
<1>3. StartBlock(r)' = StartBlock(r) /\ Requested(r)' = Requested(r)
    BY <1>2 DEF StartBlock, Requested
<1>4. ReadIsCovered(r)'
    BY <1>1, <1>2 DEF IInv, RunAccounted, ReadIsCovered, CoveredUpTo, Accounted
<1>5. AnswerAccounted(r)'
    BY <1>1, <1>2, <1>3 DEF IInv, RunAccounted, AnswerAccounted, Answered
<1>6. DeliveryAccounted(r)'
    BY <1>1, <1>2 DEF IInv, RunAccounted, DeliveryAccounted, Answered, Joined
<1>7. origin <= origin'
    BY <1>1 DEF IInv, TypeOK
<1> QED BY <1>1, <1>2, <1>4, <1>5, <1>6, <1>7, StepOfRun DEF RunAccounted

\* A delivered block is triggered.
LEMMA DeliverInv ==
    ASSUME IInv, TypeOK', NEW r \in Runs, Deliver(r)
    PROVE  IInv'
<1>1. PICK n \in run[r].remaining :
          /\ run' = [run EXCEPT ![r].remaining = @ \ {n}]
          /\ triggered' = triggered \cup {n}
    BY DEF Deliver
<1>2. UNCHANGED <<last_file, missed, skipped, unseen, origin>> /\ run[r].pc = "delivering"
    BY DEF Deliver
<1>3. /\ \A q \in Runs \ {r} : run'[q] = run[q]
      /\ run'[r].pc = "delivering"
      /\ run'[r].last = run[r].last /\ run'[r].confirmed = run[r].confirmed
      /\ run'[r].fetched = run[r].fetched /\ run'[r].remaining = run[r].remaining \ {n}
    BY <1>1, <1>2 DEF IInv, TypeOK, RunStates
<1>4. StartBlock(r)' = StartBlock(r) /\ Requested(r)' = Requested(r)
    BY <1>3 DEF StartBlock, Requested
<1>5. ReadIsCovered(r)'
    BY <1>1, <1>2, <1>3 DEF IInv, RunAccounted, ReadIsCovered, CoveredUpTo, Accounted
<1>6. AnswerAccounted(r)'
    BY <1>2, <1>3, <1>4 DEF IInv, RunAccounted, AnswerAccounted, Answered
<1>7. DeliveryAccounted(r)'
    BY <1>1, <1>2, <1>3 DEF IInv, RunAccounted, DeliveryAccounted, Answered, Joined
<1>8. origin <= origin'
    BY <1>2 DEF IInv, TypeOK
<1> QED BY <1>1, <1>2, <1>3, <1>5, <1>6, <1>7, <1>8, StepOfRun DEF RunAccounted

\* The steps after the delivery, up to the truncated file, only move the run on.
LEMMA JoinedStepInv ==
    ASSUME IInv, TypeOK', NEW r \in Runs,
           JoinPipeline(r) \/ DeleteBlocks(r) \/ SaveBlocks(r) \/ TruncateLast(r)
    PROVE  IInv'
<1>1. /\ UNCHANGED <<missed, triggered, skipped, unseen, origin>>
      /\ last_file' \in {last_file, Torn}
    BY DEF JoinPipeline, DeleteBlocks, SaveBlocks, TruncateLast, environment
<1>2. /\ \A q \in Runs \ {r} : run'[q] = run[q]
      /\ run[r].pc \in Answered \ {"recording"} /\ run'[r].pc \in Joined
      /\ run'[r].last = run[r].last /\ run'[r].confirmed = run[r].confirmed
      /\ run'[r].fetched = run[r].fetched /\ run'[r].remaining = run[r].remaining
      /\ run[r].pc \in Joined \/ run[r].remaining = {}
    BY DEF JoinPipeline, DeleteBlocks, SaveBlocks, TruncateLast, Goto, IInv, TypeOK, RunStates,
           Answered, Joined
<1>3. StartBlock(r)' = StartBlock(r) /\ Requested(r)' = Requested(r)
    BY <1>2 DEF StartBlock, Requested
<1>4. ReadIsCovered(r)'
    BY <1>1, <1>2 DEF IInv, RunAccounted, ReadIsCovered, CoveredUpTo, Accounted, Answered
<1>5. AnswerAccounted(r)'
    BY <1>1, <1>2, <1>3 DEF IInv, RunAccounted, AnswerAccounted
<1>6. DeliveryAccounted(r)'
    BY <1>1, <1>2 DEF IInv, RunAccounted, DeliveryAccounted, Answered, Joined
<1>7. origin <= origin' /\ origin' \in Nat
    BY <1>1 DEF IInv, TypeOK
<1>8. last_file' = last_file \/ CoveredUpTo(last_file)'
    BY <1>1, <1>7 DEF CoveredUpTo, Torn
<1> QED BY <1>1, <1>2, <1>4, <1>5, <1>6, <1>7, <1>8, StepOfRun DEF RunAccounted

\* A run that ends leaves the histories alone; if it saves, what it saves is covered.
LEMMA EndOfRunInv ==
    ASSUME IInv, TypeOK', NEW r \in Runs, WriteLast(r) \/ RpcError(r) \/ StorageError(r)
    PROVE  IInv'
<1>1. UNCHANGED <<missed, triggered, skipped, unseen, origin>>
    BY DEF WriteLast, RpcError, StorageError, environment
<1>2. \A q \in Runs : run'[q] = IF q = r THEN IdleRun ELSE run[q]
    BY DEF WriteLast, RpcError, StorageError, Leave, IInv, TypeOK
<1>3. RunAccounted(r)'
    BY <1>2 DEF IdleRun, RunAccounted, ReadIsCovered, AnswerAccounted, DeliveryAccounted, Answered, Joined
<1>4. origin <= origin'
    BY <1>1 DEF IInv, TypeOK
<1>5. last_file' = last_file \/ CoveredUpTo(last_file)'
    <2>1. CASE WriteLast(r)
        <3>1. CoveredUpTo(run[r].confirmed) /\ last_file' = run[r].confirmed
            BY <2>1, ConfirmedIsCovered DEF IInv, WriteLast, Joined
        <3> QED BY <1>1, <3>1 DEF CoveredUpTo, Accounted
    <2>2. CASE ~ WriteLast(r)
        BY <2>2 DEF RpcError, StorageError
    <2> QED BY <2>1, <2>2
<1> QED BY <1>1, <1>2, <1>3, <1>4, <1>5, StepOfRun

\* The chain, the trigger tasks and the killer of the process touch no history of theirs.
LEMMA OutsideInv ==
    ASSUME IInv, TypeOK',
           \/ ChainGrows \/ Crash \/ UNCHANGED vars
           \/ \E n \in tasks : TaskEnds(n)
    PROVE  IInv'
<1>1. UNCHANGED <<last_file, missed, triggered, skipped, unseen, origin>>
    BY DEF ChainGrows, Crash, TaskEnds, vars, environment
<1>2. \A r \in Runs : run'[r] = run[r] \/ run'[r] = IdleRun
    BY DEF ChainGrows, Crash, TaskEnds, vars
<1>3. Grows
    BY <1>1 DEF IInv, TypeOK, Grows, Accounted
<1>4. ASSUME NEW r \in Runs PROVE RunAccounted(r)'
    <2>1. CASE run'[r] = run[r]
        BY <1>1, <1>3, <2>1, OthersKept DEF IInv
    <2>2. CASE run'[r] = IdleRun
        BY <2>2 DEF IdleRun, RunAccounted, ReadIsCovered, AnswerAccounted, DeliveryAccounted,
                    Answered, Joined
    <2> QED BY <1>2, <2>1, <2>2
<1>5. CoveredUpTo(last_file)'
    BY <1>1 DEF IInv, CoveredUpTo, Accounted
<1> QED BY <1>4, <1>5 DEF IInv

\* The invariant holds, of every behaviour: whatever the heights, the configuration, the
\* number of runs that overlap, the errors and the crashes.
THEOREM WatcherInvariance == Spec => []IInv
<1>1. Init => IInv
    <2> SUFFICES ASSUME Init PROVE IInv
        OBVIOUS
    <2>1. TypeOK
        BY WatcherAssumption DEF Init, TypeOK, RunStates, IdleRun, Blocks, NoFile, Torn
    <2>2. CoveredUpTo(last_file)
        BY WatcherAssumption DEF Init, CoveredUpTo, Blocks, NoFile
    <2>3. \A r \in Runs : RunAccounted(r)
        BY IdleAccounted DEF Init
    <2> QED BY <2>1, <2>2, <2>3 DEF IInv
<1>2. IInv /\ [Next]_vars => IInv'
    <2> SUFFICES ASSUME IInv, [Next]_vars PROVE IInv'
        OBVIOUS
    <2>1. TypeOK'
        BY TypesKept DEF IInv
    <2> QED BY <2>1, TickInv, GetLatestInv, GetBlocksInv, RecordMissedInv, DeliverInv, JoinedStepInv,
               EndOfRunInv, OutsideInv DEF Next, Respond, Work
<1> QED BY <1>1, <1>2, PTL DEF Spec

\* No block up to the last processed one is lost in silence (NoSilentLoss), and the
\* watcher's state is well typed.
THEOREM WatcherLosesNothing == Spec => [](TypeOK /\ NoSilentLoss)
<1>1. IInv => TypeOK /\ NoSilentLoss
    BY DEF IInv, CoveredUpTo, Accounted, NoSilentLoss
<1> QED BY <1>1, WatcherInvariance, PTL

-----------------------------------------------------------------------------
(* Runs that nothing disturbs.                                             *)

\* The chain has a confirmed block, which rises with its height, and no node lags.
LEMMA ConfirmedRises ==
    ASSUME Undisturbed, NEW low \in Nat, NEW high \in Nat, InitialHeight <= low, low <= high
    PROVE  /\ SaturatingSub(low, confirmation_blocks) \in Nat \ {0}
           /\ SaturatingSub(high, confirmation_blocks) \in Nat
           /\ SaturatingSub(low, confirmation_blocks) <= SaturatingSub(high, confirmation_blocks)
           /\ SaturatingSub(low, MaxLag) = low
<1>1. /\ confirmation_blocks \in Nat /\ InitialHeight \in Nat
      /\ confirmation_blocks < InitialHeight /\ MaxLag = 0
    BY WatcherAssumption DEF Undisturbed
<1> QED BY <1>1 DEF SaturatingSub

\* The nodes tell the height as it is, and a block of it is confirmed.
LEMMA ConfirmedNow ==
    ASSUME Undisturbed, QuietInv
    PROVE  /\ height \in Nat
           /\ SaturatingSub(height, confirmation_blocks) \in Nat \ {0}
           /\ SaturatingSub(height, MaxLag) = height
<1>1. height \in Nat /\ InitialHeight <= height /\ height <= height
    BY WatcherAssumption DEF QuietInv, TypeOK, Blocks
<1> QED BY <1>1, ConfirmedRises

\* Every step but that of a delivery leaves what was triggered alone: it is enough to
\* look at the run it moves, which is the only one there is.
LEMMA QuietStep ==
    ASSUME QuietInv, Undisturbed, TypeOK', height \in Nat, height' \in Nat, height <= height',
           UNCHANGED <<triggered, twice>>,
           \A r \in Runs : FileIsAhead(r)' /\ ConfirmedIsAhead(r)'
    PROVE  QuietInv'
<1>1. InitialHeight \in Nat
    BY WatcherAssumption
<1>2. triggered' \subseteq 1 .. SaturatingSub(height, confirmation_blocks)'
    BY ConfirmedRises DEF QuietInv
<1> QED BY <1>1, <1>2 DEF QuietInv

\* The run reads the file, asks how high the chain is and is told.
LEMMA QuietAsk ==
    ASSUME QuietInv, Undisturbed, TypeOK', NEW r \in Runs,
           Tick(r) \/ \E latest \in Blocks : GetLatest(r, latest)
    PROVE  QuietInv'
<1>1. UNCHANGED <<height, last_file, triggered, twice>>
    BY DEF Tick, GetLatest, environment
<1>2. \A q \in Runs : q = r
    BY DEF Undisturbed
<1>3. CASE Tick(r)
    <2>1. run[r].pc = "idle" /\ run'[r].pc = "asking" /\ last_file # Torn
          /\ run'[r].last = IF last_file = NoFile THEN 0 ELSE last_file
        BY <1>3 DEF Tick, QuietInv, TypeOK, RunStates
    <2>2. FileIsAhead(r)' /\ ConfirmedIsAhead(r)'
        BY <1>1, <2>1 DEF QuietInv, FileIsAhead, ConfirmedIsAhead, TriggeredUpTo, Answered
    <2> QED BY <1>1, <1>2, <2>2, QuietStep DEF QuietInv, TypeOK, Blocks
<1>4. CASE \E latest \in Blocks : GetLatest(r, latest)
    <2>1. /\ run[r].pc = "asking" /\ run'[r].pc = "fetching" /\ run'[r].last = run[r].last
          /\ run'[r].confirmed = SaturatingSub(height, confirmation_blocks)
        <3>1. PICK latest \in Blocks : GetLatest(r, latest)
            BY <1>4
        <3>2. latest = height
            <4>1. latest \in height .. height /\ height \in Nat
                BY <3>1, ConfirmedNow DEF GetLatest
            <4> QED BY <4>1
        <3>3. GetLatest(r, height)
            BY <3>1, <3>2
        <3>4. run \in [Runs -> RunStates]
            BY DEF QuietInv, TypeOK
        <3> QED BY <3>3, <3>4 DEF GetLatest, RunStates
    <2>2. FileIsAhead(r)'
        BY <1>1, <2>1 DEF QuietInv, FileIsAhead, TriggeredUpTo
    <2>3. SaturatingSub(height, confirmation_blocks) \in Nat \ {0}
        BY ConfirmedNow
    <2>4. TriggeredUpTo(SaturatingSub(height, confirmation_blocks))
        BY <2>3 DEF QuietInv, TriggeredUpTo
    <2>5. ConfirmedIsAhead(r)'
        BY <1>1, <2>1, <2>3, <2>4 DEF ConfirmedIsAhead, TriggeredUpTo, Answered
    <2> QED BY <1>1, <1>2, <2>2, <2>5, QuietStep DEF QuietInv, TypeOK, Blocks
<1> QED BY <1>3, <1>4

\* What is fetched lies above everything triggered.
LEMMA QuietGetBlocks ==
    ASSUME QuietInv, Undisturbed, TypeOK', NEW r \in Runs,
           NEW answer \in SUBSET Requested(r), GetBlocks(r, answer)
    PROVE  QuietInv'
<1>1. UNCHANGED <<height, last_file, triggered, twice>>
    BY DEF GetBlocks
<1>2. \A q \in Runs : q = r
    BY DEF Undisturbed
<1>3. /\ run[r].pc = "fetching" /\ run'[r].pc = "recording" /\ run'[r].last = run[r].last
      /\ run'[r].confirmed = run[r].confirmed /\ run'[r].remaining = answer
    BY DEF GetBlocks, QuietInv, TypeOK, RunStates
<1>4. FileIsAhead(r)'
    BY <1>1, <1>3 DEF QuietInv, FileIsAhead, TriggeredUpTo
<1>5. /\ run[r].last \in Nat /\ run[r].confirmed \in Nat /\ StartBlock(r) \in Nat
      /\ SaturatingSub(height, confirmation_blocks) \in Nat
      /\ 1 <= run[r].confirmed
    BY <1>3, RequestTypes, ConfirmedNow DEF QuietInv, ConfirmedIsAhead
<1>6. \A n \in triggered : n \in Nat /\ 1 <= n /\ n <= run[r].last
    BY <1>3, <1>5 DEF QuietInv, FileIsAhead, TriggeredUpTo, NoFile
<1>7. answer \subseteq (1 .. run[r].confirmed) \ triggered
    <2>1. CASE run[r].last = 0
        BY <1>5, <1>6, <2>1 DEF Requested
    <2>2. CASE run[r].last # 0 /\ run[r].last < run[r].confirmed
        BY <1>5, <1>6, <2>2, RequestTypes DEF Requested, QuietInv
    <2>3. CASE run[r].last # 0 /\ ~ (run[r].last < run[r].confirmed)
        BY <2>3 DEF Requested
    <2> QED BY <2>1, <2>2, <2>3
<1>8. ConfirmedIsAhead(r)'
    BY <1>1, <1>3, <1>7 DEF QuietInv, ConfirmedIsAhead, TriggeredUpTo, Answered
<1> QED BY <1>1, <1>2, <1>4, <1>8, QuietStep DEF QuietInv, TypeOK, Blocks

\* A delivery is the first of its block.
LEMMA QuietDeliver ==
    ASSUME QuietInv, Undisturbed, TypeOK', NEW r \in Runs, Deliver(r)
    PROVE  QuietInv'
<1>1. PICK n \in run[r].remaining :
          /\ run' = [run EXCEPT ![r].remaining = @ \ {n}]
          /\ triggered' = triggered \cup {n}
          /\ twice' = twice \cup ({n} \cap triggered)
    BY DEF Deliver
<1>2. UNCHANGED <<height, last_file>> /\ run[r].pc = "delivering" /\ \A q \in Runs : q = r
    BY DEF Deliver, Undisturbed
<1>3. /\ run'[r].pc = "delivering" /\ run'[r].confirmed = run[r].confirmed
      /\ run'[r].remaining = run[r].remaining \ {n}
    BY <1>1, <1>2 DEF QuietInv, TypeOK, RunStates
<1>4. /\ run[r].confirmed \in 1 .. SaturatingSub(height, confirmation_blocks)
      /\ TriggeredUpTo(run[r].confirmed)
      /\ run[r].remaining \subseteq (1 .. run[r].confirmed) \ triggered
      /\ SaturatingSub(height, confirmation_blocks) \in Nat
    BY <1>2, ConfirmedNow DEF QuietInv, ConfirmedIsAhead, Answered
<1>5. n \in 1 .. run[r].confirmed /\ n \notin triggered
    BY <1>4
<1>6. twice' = {} /\ triggered' \subseteq 1 .. SaturatingSub(height, confirmation_blocks)'
    BY <1>1, <1>2, <1>4, <1>5 DEF QuietInv
<1>7. FileIsAhead(r)'
    BY <1>3 DEF FileIsAhead
<1>8. ConfirmedIsAhead(r)'
    BY <1>1, <1>2, <1>3, <1>4, <1>5 DEF ConfirmedIsAhead, TriggeredUpTo
<1> QED BY <1>2, <1>6, <1>7, <1>8 DEF QuietInv

\* From the recorded holes to the truncated file: the run keeps what it holds.
LEMMA QuietProceed ==
    ASSUME QuietInv, Undisturbed, TypeOK', NEW r \in Runs,
           \/ RecordMissed(r) \/ JoinPipeline(r)
           \/ DeleteBlocks(r) \/ SaveBlocks(r) \/ TruncateLast(r)
    PROVE  QuietInv'
<1>1. UNCHANGED <<height, triggered, twice>>
    BY DEF RecordMissed, JoinPipeline, DeleteBlocks, SaveBlocks, TruncateLast, environment
<1>2. /\ run[r].pc \in Answered /\ run'[r].pc \in Answered \ {"recording"}
      /\ run'[r].confirmed = run[r].confirmed /\ run'[r].remaining = run[r].remaining
    BY DEF RecordMissed, JoinPipeline, DeleteBlocks, SaveBlocks, TruncateLast, Goto,
           QuietInv, TypeOK, RunStates, Answered
<1>3. FileIsAhead(r)'
    BY <1>2 DEF FileIsAhead, Answered
<1>4. ConfirmedIsAhead(r)'
    BY <1>1, <1>2 DEF QuietInv, ConfirmedIsAhead, TriggeredUpTo, Answered
<1>5. \A q \in Runs : q = r
    BY DEF Undisturbed
<1> QED BY <1>1, <1>3, <1>4, <1>5, ConfirmedNow, QuietStep

\* A run ends with what it triggered at or below the file.
LEMMA QuietEnd ==
    ASSUME QuietInv, Undisturbed, TypeOK', NEW r \in Runs, WriteLast(r) \/ RpcError(r)
    PROVE  QuietInv'
<1>1. UNCHANGED <<height, triggered, twice>>
    BY DEF WriteLast, RpcError, environment
<1>2. run'[r] = IdleRun
    BY DEF WriteLast, RpcError, Leave, QuietInv, TypeOK
<1>3. last_file' # Torn /\ \A n \in triggered : n <= last_file'
    <2>1. CASE WriteLast(r)
        BY <2>1, ConfirmedNow DEF WriteLast, QuietInv, ConfirmedIsAhead, TriggeredUpTo, Answered, Torn
    <2>2. CASE RpcError(r)
        BY <2>2 DEF RpcError, QuietInv, FileIsAhead, TriggeredUpTo
    <2> QED BY <2>1, <2>2
<1>4. FileIsAhead(r)' /\ ConfirmedIsAhead(r)'
    BY <1>1, <1>2, <1>3 DEF FileIsAhead, ConfirmedIsAhead, TriggeredUpTo, IdleRun, Answered
<1>5. \A q \in Runs : q = r
    BY DEF Undisturbed
<1> QED BY <1>1, <1>4, <1>5, ConfirmedNow, QuietStep

\* The chain only grows, and a trigger task's end moves no run.
LEMMA QuietOutside ==
    ASSUME QuietInv, Undisturbed, TypeOK',
           ChainGrows \/ UNCHANGED vars \/ \E n \in tasks : TaskEnds(n)
    PROVE  QuietInv'
<1>1. height \in Nat /\ height' \in {height, height + 1} /\ InitialHeight <= height
    BY ConfirmedNow DEF QuietInv, ChainGrows, TaskEnds, vars, environment
<1>2. UNCHANGED <<last_file, run, triggered, twice>>
    BY DEF ChainGrows, TaskEnds, vars, environment
<1>3. SaturatingSub(height, confirmation_blocks) \in Nat
      /\ SaturatingSub(height, confirmation_blocks)' \in Nat
      /\ SaturatingSub(height, confirmation_blocks) <= SaturatingSub(height, confirmation_blocks)'
    <2>1. height' \in Nat /\ height <= height'
        BY <1>1
    <2> QED BY <1>1, <2>1, ConfirmedRises
<1>4. \A r \in Runs : FileIsAhead(r)' /\ ConfirmedIsAhead(r)'
    BY <1>2, <1>3 DEF QuietInv, FileIsAhead, ConfirmedIsAhead, TriggeredUpTo
<1>5. height' \in Nat /\ height <= height'
    BY <1>1
<1> QED BY <1>1, <1>2, <1>4, <1>5, QuietStep

\* The invariant of undisturbed runs holds, whatever file the network starts with.
THEOREM QuietInvariance == Undisturbed => (Spec => []QuietInv)
<1> SUFFICES ASSUME Undisturbed PROVE Spec => []QuietInv
    OBVIOUS
<1>1. Init => QuietInv
    <2> SUFFICES ASSUME Init PROVE QuietInv
        OBVIOUS
    <2>1. TypeOK
        BY WatcherAssumption DEF Init, TypeOK, RunStates, IdleRun, Blocks, NoFile, Torn
    <2>2. last_file # Torn
        BY WatcherAssumption DEF Init, NoFile, Torn
    <2>3. \A r \in Runs : FileIsAhead(r) /\ ConfirmedIsAhead(r)
        BY <2>2 DEF Init, FileIsAhead, ConfirmedIsAhead, TriggeredUpTo, IdleRun, Answered
    <2> QED BY <2>1, <2>3, WatcherAssumption DEF Init, QuietInv
<1>2. QuietInv /\ [Next]_vars => QuietInv'
    <2> SUFFICES ASSUME QuietInv, [Next]_vars PROVE QuietInv'
        OBVIOUS
    <2>1. TypeOK'
        BY TypesKept DEF QuietInv
    <2>2. ~ Crash /\ \A r \in Runs : ~ StorageError(r)
        BY DEF Undisturbed, Crash, StorageError
    <2> QED BY <2>1, <2>2, QuietAsk, QuietGetBlocks, QuietDeliver, QuietProceed, QuietEnd, QuietOutside
            DEF Next, Respond, Work
<1> QED BY <1>1, <1>2, PTL DEF Spec

\* No block is handed to the trigger handler twice (NoDuplicateProcessing): StartBlock, the
\* order of the saves and the block saved never let a run that nothing disturbs go back.
THEOREM NoDuplicatesUndisturbed == Undisturbed => (Spec => []NoDuplicateProcessing)
<1>1. QuietInv => NoDuplicateProcessing
    BY DEF QuietInv, NoDuplicateProcessing
<1> QED BY <1>1, QuietInvariance, PTL

\* A save never takes the last processed block below one that was triggered
\* (LastNeverRegresses).
THEOREM SavesNeverRegressUndisturbed == Undisturbed => (Spec => LastNeverRegresses)
<1> SUFFICES ASSUME Undisturbed PROVE Spec => LastNeverRegresses
    OBVIOUS
<1>1. ASSUME QuietInv, [Next]_vars
      PROVE  [last_file' # last_file /\ last_file' # Torn => \A n \in triggered : n <= last_file']_vars
    <2> SUFFICES ASSUME last_file' # last_file, last_file' # Torn
                 PROVE  \A n \in triggered : n <= last_file'
        OBVIOUS
    <2>1. PICK r \in Runs : WriteLast(r)
        BY <1>1 DEF Next, Respond, Work, Tick, GetLatest, GetBlocks, RpcError, RecordMissed, Deliver,
                    JoinPipeline, DeleteBlocks, SaveBlocks, TruncateLast, StorageError, TaskEnds,
                    ChainGrows, Crash, vars, environment
    <2> QED BY <1>1, <2>1 DEF WriteLast, QuietInv, ConfirmedIsAhead, TriggeredUpTo, Answered
<1> QED BY <1>1, QuietInvariance, PTL DEF Spec, LastNeverRegresses
=============================================================================
