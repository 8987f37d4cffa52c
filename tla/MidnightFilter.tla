--------------------------- MODULE MidnightFilter ---------------------------
(***************************************************************************)
(* MidnightBlockFilter.  Arguments are private, so that no expression is   *)
(* evaluated; the status comes from the block's events.                    *)
(***************************************************************************)
EXTENDS Filters

FindMatchingTransaction(monitor, tx) ==
    LET found == FirstSuch(monitor.transactions, LAMBDA c : StatusMatches(c, tx.status))
    IN  IF monitor.transactions = <<>> THEN <<AnyTransaction>>
        ELSE [i \in DOMAIN found |-> [status |-> tx.status, expression |-> {}]]

\* Each condition whose entry point some monitored contract was called at.
FindMatchingFunctions(monitor, tx) ==
    LET called(c) == \E i \in DOMAIN tx.calls : /\ Monitored(monitor, tx.calls[i].address)
                                                /\ tx.calls[i].signature = c.signature
        found == SelectSeq(monitor.functions, called)
    IN  [i \in DOMAIN found |-> Found(found[i], found[i], {})]

FilterTransaction(monitor, tx) ==
    LET transactions == FindMatchingTransaction(monitor, tx)
        functions    == FindMatchingFunctions(monitor, tx)
    IN  IF ShouldMatch(monitor, <<>>, functions, transactions)
        THEN <<MonitorMatch(monitor, tx, <<>>, functions, transactions)>>
        ELSE <<>>
=============================================================================
