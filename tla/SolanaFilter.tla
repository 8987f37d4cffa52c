---------------------------- MODULE SolanaFilter ----------------------------
(***************************************************************************)
(* SolanaBlockFilter.  Events are found by their name in the program's     *)
(* log lines; function conditions and the expressions of event conditions  *)
(* are not evaluated.                                                      *)
(***************************************************************************)
EXTENDS Filters

Involved(monitor, tx) == \E i \in DOMAIN tx.calls : Monitored(monitor, tx.calls[i].address)

\* |user|A|
Piped(accounts) == <<"|">> \o FlattenSeq([i \in DOMAIN accounts |-> <<accounts[i], "|">>])

\* The fee payer is the first account; a transaction without accounts has neither.
TransactionParams(tx) ==
    <<[name |-> "signature", kind |-> "string", value |-> Word(<<tx.hash>>, FALSE)],
      [name |-> "slot", kind |-> "u64", value |-> Dec(tx.height)],
      [name |-> "fee", kind |-> "u64", value |-> Dec(tx.gas)],
      [name |-> "is_success", kind |-> "bool", value |-> Bool(tx.status = "Success")]>> \o
    (IF tx.accounts = <<>> THEN <<>>
     ELSE <<[name |-> "fee_payer", kind |-> "pubkey", value |-> Address(tx.accounts[1], FALSE)],
            [name |-> "accounts", kind |-> "string", value |-> Word(Piped(tx.accounts), FALSE)]>>)

\* Only a condition with an expression ends the search.
FindMatchingTransaction(monitor, tx) ==
    LET conditions == monitor.transactions
        holds(c) == StatusMatches(c, tx.status) /\ Satisfied("solana", c, TransactionParams(tx))
        ends(c)  == holds(c) /\ c.expression # {}
        last  == SelectInSeq(conditions, ends)
        found == SelectSeq(IF last = 0 THEN conditions ELSE SubSeq(conditions, 1, last), holds)
    IN  IF conditions = <<>> THEN <<AnyTransaction>>
        ELSE [i \in DOMAIN found |->
                 IF found[i].expression = {} THEN found[i] ELSE [found[i] EXCEPT !.status = tx.status]]

\* One entry for a condition some log line mentions, with that line as argument.
FindMatchingEvents(monitor, tx) ==
    LET mentions(c) == \E i \in DOMAIN tx.logs : tx.logs[i].signature = c.signature
        found == SelectSeq(monitor.events, mentions)
    IN  [i \in DOMAIN found |-> Found(found[i], NoCondition, {<<>>})]

FilterTransaction(monitor, tx) ==
    LET transactions == FindMatchingTransaction(monitor, tx)
        events       == FindMatchingEvents(monitor, tx)
        matched      == transactions # <<>> /\ (monitor.events = <<>> \/ events # <<>>)
    IN  IF Involved(monitor, tx) /\ matched
        THEN <<[MonitorMatch(monitor, tx, events, <<>>, transactions)
                    EXCEPT !.transactions = transactions]>>
        ELSE <<>>
=============================================================================
