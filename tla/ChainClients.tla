---------------------------- MODULE ChainClients -----------------------------
(***************************************************************************)
(* The chain clients (clients/{evm,midnight,stellar,solana}/client.rs):    *)
(* how a call of the watcher or of a filter becomes requests to nodes      *)
(* whose chain grows meanwhile, and what it returns.  EVM and Midnight ask *)
(* for every block at once, Stellar reads pages, Solana lists slots, or,   *)
(* when the monitors name addresses, the signatures of the addresses.      *)
(*                                                                         *)
(* An item of a chain (a block, a transaction, an event, a signature) is a *)
(* record [at, id, involves]: its height, its name, the addresses in it.   *)
(* What a call holds of the chain are positions in it.                     *)
(* A request may always fail: transport, RPC error, unreadable answer, a   *)
(* start outside the node's retention.  The nodes behind the URLs of a     *)
(* network are taken to serve the same height.                             *)
(***************************************************************************)
EXTENDS Integers, Sequences, FiniteSets, Functions

CONSTANTS
    Calls,         \* records [chain, method, from, to, monitors]; to is {} or {a height}
    History,       \* method -> the chain's items, in the chain's order; id 0 is none
    Heights,       \* bound: the heads of the nodes
    PAGE_LIMIT,    \* items of a page
    MAX_SIGNATURES \* "Safety limit"

\* A page that holds the start alone would end get_blocks of Stellar at once.
ASSUME LimitsAssumption == PAGE_LIMIT \in Nat \ {0, 1} /\ MAX_SIGNATURES \in Nat \ {0}
ASSUME HeightsAssumption == Heights \subseteq Nat

ASSUME CallsAssumption ==
    \A c \in Calls :
        /\ <<c.chain, c.method>> \in {<<"EVM", "blocks">>, <<"Midnight", "blocks">>, <<"Midnight", "events">>,
                                     <<"Stellar", "blocks">>, <<"Stellar", "transactions">>,
                                     <<"Stellar", "events">>, <<"Solana", "blocks">>}
        /\ c.from \in Nat /\ c.to \subseteq Nat

\* A chain is in the order of heights.  Only the ledgers without events have no name, and
\* there is one ledger of a sequence number and one block of a slot.
ASSUME HistoryAssumption ==
    \A m \in {"blocks", "transactions", "events", "slots", "signatures"} :
        /\ History[m] \in Seq(Range(History[m]))
        /\ \A i \in DOMAIN History[m] :
              /\ History[m][i].at \in Nat
              /\ m # "events" => History[m][i].id # 0
              /\ \A j \in DOMAIN History[m] : i < j =>
                    /\ History[m][i].at <= History[m][j].at
                    /\ m \in {"blocks", "slots"} => History[m][i].at # History[m][j].at

VARIABLES
    call,    \* the call under way, or the last one
    head,    \* the height up to which the nodes serve the chain
    pc,      \* where the call is
    locals,  \* its local variables
    answer,  \* what it has collected or returned: positions in the chain
    excused  \* history: the positions that the nodes did not serve when they were asked

vars == <<call, head, pc, locals, answer, excused>>

Nothing == [none |-> TRUE]
Stopped == {"idle", "done", "failed"}

Target(c) == IF c.to = {} THEN c.from ELSE CHOOSE n \in c.to : TRUE
InRange(c, item) == c.from <= item.at /\ item.at <= Target(c) /\ item.id # 0

\* Solana's client for a network watches the addresses of all its monitors.
Addresses(c) == UNION c.monitors
Method(c) == IF c.chain = "Solana" /\ c.method = "blocks" /\ Addresses(c) # {}
             THEN "signatures" ELSE c.method
Chain(c) == IF c.chain = "Solana" /\ Method(c) = "blocks"
            THEN History["slots"] ELSE History[Method(c)]
Positions(c) == DOMAIN Chain(c)
Wanted(c) == {i \in Positions(c) : InRange(c, Chain(c)[i])}

At(i) == Chain(call)[i].at

\* The last position up to a height, and what the nodes serve.
Upto(height) == CHOOSE n \in 0 .. Len(Chain(call)) : \A i \in Positions(call) : At(i) <= height <=> i <= n
Served == {i \in Positions(call) : At(i) <= head}

\* Positions in their order.
Ascending(S) ==
    CHOOSE s \in [1 .. Cardinality(S) -> S] : \A i, j \in 1 .. Cardinality(S) : i < j => s[i] < s[j]

Return(items) ==
    /\ pc' = "done"
    /\ answer' = items
    /\ locals' = Nothing

Fail ==
    /\ pc \notin Stopped
    /\ pc' = "failed"
    /\ answer' = <<>>
    /\ locals' = Nothing
    /\ UNCHANGED <<call, head, excused>>

\* A collected list goes on to the next step.
Continue(label, values) == pc' = label /\ locals' = values

-----------------------------------------------------------------------------
(* EVM and Midnight: requests for all heights at once, joined.             *)

\* The requests made for one height, each with what the one before returned.
Requests(c) ==
    CASE c.chain = "EVM"                               -> 1
      [] c.chain = "Midnight" /\ c.method = "blocks"   -> 2  \* hash, block
      [] c.chain = "Midnight" /\ c.method = "events"   -> 3  \* hash, raw events, decoding

\* The events of Midnight are joined after every request, the blocks at the end.
JoinsEachRound == call.method = "events"

StartJoined(c) ==
    Continue("joining", [asked |-> [n \in c.from .. Target(c) |-> 0], failed |-> {}])

\* Whether the next request for height n has been sent.
Sent(n) ==
    /\ n \notin locals.failed
    /\ locals.asked[n] < Requests(call)
    /\ JoinsEachRound =>
          /\ \A m \in DOMAIN locals.asked : m \in locals.failed \/ locals.asked[m] >= locals.asked[n]
          /\ \A m \in locals.failed : locals.asked[m] = locals.asked[n]

\* A node that has the block answers.
HeightAnswers(n) ==
    /\ Sent(n)
    /\ n <= head
    /\ locals' = [locals EXCEPT !.asked[n] = @ + 1]
    /\ UNCHANGED <<call, head, pc, answer, excused>>

\* An error, or null for a block that the node does not have.
HeightFails(n) ==
    /\ Sent(n)
    /\ locals' = [locals EXCEPT !.failed = @ \cup {n}]
    /\ UNCHANGED <<call, head, pc, answer, excused>>

\* join_all: when every request has ended, one failure fails the call.
Join ==
    /\ pc = "joining"
    /\ \A n \in DOMAIN locals.asked : ~Sent(n)
    /\ locals.failed = {}
    /\ Return(Ascending(Wanted(call)))
    /\ UNCHANGED <<call, head, excused>>

Joining ==
    /\ pc = "joining"
    /\ \/ \E n \in DOMAIN locals.asked : HeightAnswers(n) \/ HeightFails(n)
       \/ Join

-----------------------------------------------------------------------------
(* Stellar: pages, from a ledger and then from a cursor.                   *)

StartPaging == Continue("paging", [cursor |-> {}])

\* The node's answer: at most a page of what it serves after the cursor, or from the first
\* ledger of the call.  A single ledger is asked for with a limit of 1.
FirstAfterCursor ==
    1 + IF locals.cursor = {} THEN Upto(call.from - 1) ELSE CHOOSE i \in locals.cursor : TRUE

Limit == IF call.method = "blocks" /\ locals.cursor = {} /\ call.to = {} THEN 1 ELSE PAGE_LIMIT

LastOfPage ==
    LET full == FirstAfterCursor + Limit - 1 IN IF full < Upto(head) THEN full ELSE Upto(head)

\* The node's scan of ledgers without events may leave a page empty.
Page == {i \in FirstAfterCursor .. LastOfPage : Chain(call)[i].id # 0}

\* At the end of its chain a node returns no cursor, or the last one again.
Cursors == IF LastOfPage < Upto(head) THEN {{LastOfPage}} ELSE {{}, {LastOfPage}}

\* Mutant: the item that ends the range is taken for one after it.
WithinTargetStrictly(items) == {i \in items : At(i) < Target(call)}

WithinTarget(items) == {i \in items : At(i) <= Target(call)}

AskForPage ==
    /\ pc = "paging"
    /\ pc' = "waiting"
    /\ UNCHANGED <<call, head, locals, answer, excused>>

PageServed ==
    /\ pc = "waiting"
    /\ locals.cursor = {} => call.from <= head
    /\ UNCHANGED <<call, head, excused>>

\* An item after the target ends the call.
PageReachesTarget ==
    /\ PageServed
    /\ WithinTarget(Page) # Page
    /\ Return(answer \o Ascending(WithinTarget(Page)))

\* Mutant: transactions are paged as events are.
EndsAtEmptyPageOfBlocks == call.method = "blocks"

\* So does an empty page, but for events.
EndsAtEmptyPage == call.method # "events"

PageIsEmpty ==
    /\ PageServed
    /\ Page = {}
    /\ EndsAtEmptyPage
    /\ Return(answer)

\* The call ends without a cursor, and get_blocks when the cursor is the start.
EndsPaging(cursor) ==
    \/ cursor = {}
    \/ call.method = "blocks" /\ \E i \in cursor : At(i) = call.from

PageGoesOn ==
    /\ PageServed
    /\ Page # {} \/ ~EndsAtEmptyPage
    /\ WithinTarget(Page) = Page
    /\ \E cursor \in Cursors :
          IF EndsPaging(cursor)
          THEN Return(answer \o Ascending(Page))
          ELSE answer' = answer \o Ascending(Page) /\ Continue("paging", [cursor |-> cursor])

Paging == AskForPage \/ PageReachesTarget \/ PageIsEmpty \/ PageGoesOn

-----------------------------------------------------------------------------
(* Solana without addresses: the slots that have blocks, one after another. *)

\* One slot is fetched without asking which slots there are.
ListSlots ==
    /\ pc = "listing"
    /\ LET slots == IF call.from = Target(call) THEN {call.from}
                    ELSE {At(i) : i \in Wanted(call) \cap Served}
       IN  IF slots = {}
           THEN Return(<<>>)
           ELSE Continue("fetching", [slots |-> slots]) /\ answer' = answer
    /\ UNCHANGED <<call, head, excused>>

IsNext(slot) == slot \in locals.slots /\ \A s \in locals.slots : slot <= s

Fetch(slot, items) ==
    /\ IsNext(slot)
    /\ IF locals.slots = {slot}
       THEN Return(items)
       ELSE Continue("fetching", [slots |-> locals.slots \ {slot}]) /\ answer' = items

FetchSlot ==
    /\ pc = "fetching"
    /\ \E i \in Served : Fetch(At(i), Append(answer, i))
    /\ UNCHANGED <<call, head, excused>>

\* A slot that was skipped, or whose block the node does not have, is left out.
SlotUnavailable ==
    /\ pc = "fetching"
    /\ \E slot \in locals.slots :
          /\ Fetch(slot, answer)
          /\ excused' = excused \cup {i \in Served : At(i) = slot}
    /\ UNCHANGED <<call, head>>

-----------------------------------------------------------------------------
(* Solana with addresses: get_blocks_for_addresses.                        *)

\* The addresses one after another, each from its newest signatures.
NextAddress(addresses, signatures) ==
    \E a \in addresses :
        Continue("signatures", [address |-> a, addresses |-> addresses \ {a}, until |-> {},
                                count |-> 0, signatures |-> signatures])

StartSignatures(c) == NextAddress(Addresses(c), {})

\* getSignaturesForAddress: the newest, and with until only those after it.
Newest(S) == {i \in S : Cardinality({j \in S : j > i}) < PAGE_LIMIT}
After(i) == \A j \in locals.until : i > j
Batch == Newest({i \in Served : After(i) /\ locals.address \in Chain(call)[i].involves})

\* Only what is in the range is kept, counted and continued from.
Filtered == Batch \cap Wanted(call)
Oldest == {i \in Filtered : \A j \in Filtered : i <= j}

Signatures ==
    /\ pc = "signatures"
    /\ call.from <= head \* minContextSlot
    /\ LET count == locals.count + Cardinality(Filtered)
           all == locals.signatures \cup Filtered
       IN  IF Cardinality(Filtered) = PAGE_LIMIT /\ count < MAX_SIGNATURES
           THEN /\ Continue("signatures",
                     [locals EXCEPT !.until = Oldest, !.count = count, !.signatures = all])
                /\ answer' = answer
           ELSE IF locals.addresses # {}
           THEN NextAddress(locals.addresses, all) /\ answer' = answer
           ELSE IF all # {}
           THEN Continue("transactions", [wanted |-> all, got |-> {}]) /\ answer' = answer
           ELSE Return(<<>>)
    /\ UNCHANGED <<call, head, excused>>

\* The transactions are fetched in any order, 20 at a time.
Transaction ==
    /\ pc = "transactions"
    /\ \E i \in locals.wanted :
          locals' = [locals EXCEPT !.wanted = @ \ {i}, !.got = @ \cup {i}]
    /\ UNCHANGED <<call, head, pc, answer, excused>>

\* One that is not found or fails is dropped.
TransactionIsDropped ==
    /\ pc = "transactions"
    /\ \E i \in locals.wanted :
          /\ locals' = [locals EXCEPT !.wanted = @ \ {i}]
          /\ excused' = excused \cup {i}
    /\ UNCHANGED <<call, head, pc, answer>>

Orders(S) == {s \in [1 .. Cardinality(S) -> S] : IsInjective(s)}

\* Mutant: the transactions stay in the order in which they came.
GroupAsTheyCame ==
    /\ pc = "transactions"
    /\ locals.wanted = {}
    /\ \E s \in Orders(locals.got) : Return(s)
    /\ UNCHANGED <<call, head, excused>>

\* Virtual blocks: by slot, and within one in the order in which they came.
Group ==
    /\ pc = "transactions"
    /\ locals.wanted = {}
    /\ \E s \in Orders(locals.got) :
          /\ \A i, j \in DOMAIN s : i < j => At(s[i]) <= At(s[j])
          /\ Return(s)
    /\ UNCHANGED <<call, head, excused>>

-----------------------------------------------------------------------------

Init ==
    /\ call \in Calls
    /\ head \in Heights
    /\ pc = "idle"
    /\ locals = Nothing
    /\ answer = <<>>
    /\ excused = {}

\* Only EVM and the address-based calls of Solana take a range that ends before it starts.
ChecksRange(c) == c.chain # "EVM" /\ Method(c) # "signatures"

Start(c) ==
    /\ pc \in Stopped
    /\ call' = c
    /\ answer' = <<>>
    /\ excused' = {i \in Wanted(c) : Chain(c)[i].at > head}
    /\ IF ChecksRange(c) /\ c.from > Target(c)
       THEN pc' = "failed" /\ locals' = Nothing
       ELSE \/ c.chain \in {"EVM", "Midnight"} /\ StartJoined(c)
            \/ c.chain = "Stellar" /\ StartPaging
            \/ Method(c) = "signatures" /\ StartSignatures(c)
            \/ c.chain = "Solana" /\ Method(c) = "blocks" /\ Continue("listing", Nothing)
    /\ UNCHANGED head

\* The chain grows.
Grow ==
    /\ head + 1 \in Heights
    /\ head' = head + 1
    /\ UNCHANGED <<call, pc, locals, answer, excused>>

Step ==
    \/ Joining
    \/ Paging
    \/ ListSlots \/ FetchSlot \/ SlotUnavailable
    \/ Signatures \/ Transaction \/ TransactionIsDropped \/ Group

Next ==
    \/ \E c \in Calls : Start(c)
    \/ Step
    \/ Fail
    \/ Grow

\* The transports return every request, and chains grow.
Spec == Init /\ [][Next]_vars /\ WF_vars(Step \/ Fail) /\ WF_vars(Grow)

-----------------------------------------------------------------------------

Expected ==
    {i \in Wanted(call) :
        Method(call) = "signatures" => Chain(call)[i].involves \cap Addresses(call) # {}}

\* An address with more signatures since the start than a page holds: what is older than the
\* newest page is not found, as until asks for newer ones.
ExceedsPage ==
    /\ Method(call) = "signatures"
    /\ \E a \in Addresses(call) :
          Cardinality({i \in Served : At(i) >= call.from /\ a \in Chain(call)[i].involves}) > PAGE_LIMIT

\* A call that succeeds returns all there is in its range, whatever pages the nodes make of
\* it and however the chain grows meanwhile, except what the nodes did not serve.
AnswersAreComplete ==
    pc = "done" /\ ~ExceedsPage => Expected \ excused \subseteq Range(answer)

\* What a call has collected is in its range, in the chain's order, and there once: the
\* blocks and events that the watcher and the filters rely on being distinct.  Only the
\* transactions of a virtual block are in any order.
Precedes(i, j) ==
    IF Method(call) = "signatures" THEN i # j /\ At(i) <= At(j) ELSE i < j

AnswersAreOrdered ==
    /\ Range(answer) \subseteq Expected
    /\ \A k, l \in DOMAIN answer : k < l => Precedes(answer[k], answer[l])

\* Every call returns, unless it reads the events of a range that no event follows: while
\* nodes go on returning a cursor, such a call goes on asking.
EveryCallReturns ==
    pc \notin Stopped ~>
        \/ pc \in Stopped
        \/ call.method = "events" /\ \A i \in DOMAIN Chain(call) :
               Chain(call)[i].at > Target(call) => Chain(call)[i].id = 0
=============================================================================
