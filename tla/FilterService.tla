---------------------------- MODULE FilterService ----------------------------
(***************************************************************************)
(* filter_block on one block, followed by handle_match for every match.    *)
(* The filter first asks the client for what the block does not carry,     *)
(* then tries every monitor with every transaction, for EVM with a receipt *)
(* each when the monitor needs receipts.  An error at any of these steps   *)
(* is the result of the whole block.  A match is then turned into the      *)
(* variables that the triggers' templates use.                             *)
(***************************************************************************)
EXTENDS Filters, MatchHandling

CONSTANT Scenarios    \* records [chain, monitors, blocks]: every block with every list of monitors

EVMBlockFilter      == INSTANCE EVMFilter
StellarBlockFilter  == INSTANCE StellarFilter
SolanaBlockFilter   == INSTANCE SolanaFilter
MidnightBlockFilter == INSTANCE MidnightFilter

VARIABLES
    scenario,     \* the chain, the monitors and the block with its data
    stage,        \* "fetch", "match", "handle", "done", "error" or "panic"
    fetched,      \* how many requests for block data were answered
    next          \* the monitor and the transaction to try next

vars == <<scenario, stage, fetched, next, matches, variables>>

Chain    == scenario.chain
Monitors == scenario.monitors
Block    == scenario.block

\* The requests of each filter, in order; the last one of Midnight decodes.
Requests ==
    CASE Chain = "evm"      -> <<"logs">>
      [] Chain = "stellar"  -> <<"transactions", "events">>
      [] Chain = "midnight" -> <<"chain type", "events", "decoding">>
      [] Chain = "solana"   -> <<>>

Init ==
    /\ \E s \in Scenarios :
           scenario \in [chain : {s.chain}, monitors : s.monitors, block : s.blocks]
    /\ stage = "fetch"
    /\ fetched = 0
    /\ next = <<1, 1>>
    /\ matches = <<>>
    /\ variables = <<>>

(***************************************************************************)
(* Requests for the whole block.                                           *)
(***************************************************************************)
\* Stellar's events are not asked for when the block has no transactions.
FetchedAll ==
    \/ fetched = Len(Requests)
    \/ Chain = "stellar" /\ fetched = 1 /\ Block = <<>>

Fetch ==
    /\ stage = "fetch" /\ ~FetchedAll
    /\ Requests[fetched + 1] = "decoding" => \A i \in DOMAIN Block : Block[i].decodes
    /\ fetched' = fetched + 1
    /\ UNCHANGED <<scenario, stage, next, matches, variables>>

FetchFails ==
    /\ stage = "fetch" /\ ~FetchedAll
    /\ Requests[fetched + 1] = "decoding" => \E i \in DOMAIN Block : ~Block[i].decodes
    /\ stage' = "error"
    /\ UNCHANGED <<scenario, fetched, next, matches, variables>>

StartMatching ==
    /\ stage = "fetch" /\ FetchedAll
    /\ stage' = "match"
    /\ UNCHANGED <<scenario, fetched, next, matches, variables>>

(***************************************************************************)
(* The loop over monitors and transactions.                                *)
(***************************************************************************)
Matching == stage = "match" /\ next[1] <= Len(Monitors) /\ Block # <<>>

FilterTransaction(monitor, tx) ==
    CASE Chain = "evm"      -> EVMBlockFilter!FilterTransaction(monitor, Block, tx)
      [] Chain = "stellar"  -> StellarBlockFilter!FilterTransaction(monitor, tx)
      [] Chain = "solana"   -> SolanaBlockFilter!FilterTransaction(monitor, tx)
      [] Chain = "midnight" -> MidnightBlockFilter!FilterTransaction(monitor, tx)

\* Only the EVM filter reads what may not be there.
Panics == Chain = "evm" /\ EVMBlockFilter!Panics(Monitors[next[1]], Block[next[2]])

TryTransaction ==
    /\ Matching
    /\ ~Panics
    /\ matches' = matches \o FilterTransaction(Monitors[next[1]], Block[next[2]])
    /\ next' = IF next[2] < Len(Block) THEN <<next[1], next[2] + 1>> ELSE <<next[1] + 1, 1>>
    /\ UNCHANGED <<scenario, stage, fetched, variables>>

\* One receipt that cannot be had loses the matches found so far.
ReceiptFails ==
    /\ Matching
    /\ Chain = "evm"
    /\ EVMBlockFilter!NeedsReceipt(Monitors[next[1]], Block)
    /\ stage' = "error"
    /\ UNCHANGED <<scenario, fetched, next, matches, variables>>

\* The panic ends the block handler and what it is part of.
FilterPanics ==
    /\ Matching
    /\ Panics
    /\ stage' = "panic"
    /\ UNCHANGED <<scenario, fetched, next, matches, variables>>

StartHandling ==
    /\ stage = "match" /\ ~Matching
    /\ stage' = "handle"
    /\ UNCHANGED <<scenario, fetched, next, matches, variables>>

(***************************************************************************)
(* handle_match, one match after another.                                  *)
(***************************************************************************)
HandleMatch ==
    /\ stage = "handle"
    /\ HandleNextMatch
    /\ UNCHANGED <<scenario, stage, fetched, next>>

Finish ==
    /\ stage = "handle" /\ Len(variables) = Len(matches)
    /\ stage' = "done"
    /\ UNCHANGED <<scenario, fetched, next, matches, variables>>

Next ==
    \/ Fetch
    \/ FetchFails
    \/ StartMatching
    \/ TryTransaction
    \/ ReceiptFails
    \/ FilterPanics
    \/ StartHandling
    \/ HandleMatch
    \/ Finish

Spec == Init /\ [][Next]_vars
=============================================================================
