------------------------------ MODULE EVMFilter ------------------------------
(***************************************************************************)
(* EVMBlockFilter: the match of one monitor with one transaction.  A block *)
(* has transactions, and each transaction the logs that get_logs_for_blocks*)
(* gives for it.  A log has its topics, the first of them the selector of  *)
(* its event, and its data, a value for each argument that is no topic; it *)
(* is read with the ABI given for its contract, the events that spec lists.*)
(***************************************************************************)
EXTENDS Filters

UsesGas(condition) ==
    \E tokens \in condition.expression : \E i \in DOMAIN tokens :
        tokens[i].token = "condition" /\ tokens[i].base = "gas_used"

\* The logs are those of the whole block.
NeedsReceipt(monitor, block) ==
    \E i \in DOMAIN monitor.transactions :
        LET condition == monitor.transactions[i]
        IN  \/ condition.status # "Any" /\ \A j \in DOMAIN block : block[j].logs = <<>>
            \/ UsesGas(condition)

\* Without a receipt a transaction is taken for a successful one.
TransactionStatus(monitor, block, tx) ==
    IF NeedsReceipt(monitor, block) THEN tx.status ELSE "Success"

TransactionArgs(monitor, block, tx) ==
    tx.args \o <<[name |-> "gas_used", kind |-> "uint256",
                  value |-> IF NeedsReceipt(monitor, block) THEN Dec(tx.gas) ELSE Word(<<>>, FALSE)]>>

FindMatchingTransaction(monitor, block, tx) ==
    LET status == TransactionStatus(monitor, block, tx)
        matches(c) == /\ StatusMatches(c, status)
                      /\ Satisfied("evm", c, TransactionArgs(monitor, block, tx))
        found == FirstSuch(monitor.transactions, matches)
    IN  IF monitor.transactions = <<>> THEN <<AnyTransaction>>
        ELSE [i \in DOMAIN found |-> [found[i] EXCEPT !.status = status]]

\* A call is to the transaction's receiver; its arguments may not decode.
FindMatchingFunctions(monitor, tx) ==
    LET calls == SelectSeq(tx.calls, LAMBDA call : /\ Monitored(monitor, call.address)
                                                   /\ call.inSpec
                                                   /\ call.decodes)
    IN  FlattenSeq([i \in DOMAIN calls |-> FindFirst("evm", monitor.functions, calls[i])])

\* How many of the first n inputs of an event are topics, and how many are data.
Indexed(event, n) == Cardinality({i \in 1..n : event.inputs[i].indexed})
InBody(event, n) == n - Indexed(event, n)

\* Whether decode_log takes the log for an occurrence of the event.
Fits(event, log) ==
    /\ Len(log.topics) = 1 + Indexed(event, Len(event.inputs))
    /\ Len(log.data) >= InBody(event, Len(event.inputs))

\* Mutant: the topics come first, then the data, whatever order the inputs have.
DecodedArgsUnordered(event, log) ==
    LET values == Tail(log.topics) \o log.data
    IN  [i \in DOMAIN event.inputs |-> [name  |-> event.inputs[i].name,
                                        kind  |-> event.inputs[i].kind,
                                        value |-> values[i]]]

\* Each input in the order of the ABI: the next topic if it is indexed, else the next
\* value of the data.
DecodedArgs(event, log) ==
    [i \in DOMAIN event.inputs |->
        [name  |-> event.inputs[i].name,
         kind  |-> event.inputs[i].kind,
         value |-> IF event.inputs[i].indexed THEN log.topics[1 + Indexed(event, i)]
                   ELSE log.data[InBody(event, i)]]]

\* The first event of the ABI with the selector, and no other, is tried.
DecodeEvents(log) ==
    LET known == FirstSuch(log.spec, LAMBDA event : event.signature = log.topics[1])
        fitting == SelectSeq(known, LAMBDA event : Fits(event, log))
    IN  [i \in DOMAIN fitting |->
            [signature |-> fitting[i].signature, args |-> DecodedArgs(fitting[i], log)]]

MonitoredLogs(monitor, tx) ==
    SelectSeq(tx.logs, LAMBDA log : Monitored(monitor, log.address) /\ log.spec # <<>>)

\* log.topics[0] of a log without topics.
Panics(monitor, tx) == \E log \in ToSet(MonitoredLogs(monitor, tx)) : log.topics = <<>>

\* Every log of a monitored address whose ABI knows the event.
FindMatchingEvents(monitor, tx) ==
    LET logs == MonitoredLogs(monitor, tx)
        events == FlattenSeq([i \in DOMAIN logs |-> DecodeEvents(logs[i])])
    IN  FlattenSeq([i \in DOMAIN events |->
            IF monitor.events = <<>> THEN <<Found(events[i], NoCondition, {events[i].args})>>
            ELSE FindFirst("evm", monitor.events, events[i])])

InvolvedAddresses(monitor, tx) ==
    {tx.from, tx.to} \union {log.address : log \in {l \in ToSet(tx.logs) : Monitored(monitor, l.address)}}

HasAddressMatch(monitor, tx) == \E a \in InvolvedAddresses(monitor, tx) : Monitored(monitor, a)

FilterTransaction(monitor, block, tx) ==
    LET transactions == FindMatchingTransaction(monitor, block, tx)
        events       == FindMatchingEvents(monitor, tx)
        functions    == FindMatchingFunctions(monitor, tx)
    IN  IF HasAddressMatch(monitor, tx) /\ ShouldMatch(monitor, events, functions, transactions)
        THEN <<MonitorMatch(monitor, tx, events, functions, transactions)>>
        ELSE <<>>
=============================================================================
