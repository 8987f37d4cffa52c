------------------------------- MODULE Filters -------------------------------
(***************************************************************************)
(* What the filters of all chains share: a monitor's conditions, the first *)
(* condition that holds, and the table that decides from what was found    *)
(* whether a transaction matches.                                          *)
(*                                                                         *)
(* A condition is a record with an expression, {} or {tokens}.  A found    *)
(* event or function is a record [signature, expression, args], where args *)
(* is {} when the filter records the condition without its arguments.      *)
(* Blocks hold decoded data, and say what the decoders refuse; only the    *)
(* logs of EVM are as the node gives them.                                 *)
(***************************************************************************)
EXTENDS Expressions

FirstSuch(s, Test(_)) ==
    LET i == SelectInSeq(s, Test) IN IF i = 0 THEN <<>> ELSE <<s[i]>>

\* Without an expression a condition holds; an error counts as false.
Satisfied(chain, condition, args) ==
    \/ condition.expression = {}
    \/ \E tokens \in condition.expression : EvaluateTokens(chain, tokens, args) = {TRUE}

StatusMatches(condition, status) == condition.status \in {"Any", status}

AnyTransaction == [status |-> "Any", expression |-> {}]

Monitored(monitor, address) == \E i \in DOMAIN monitor.addresses : monitor.addresses[i] = address

Found(item, condition, args) ==
    [signature |-> item.signature, expression |-> condition.expression, args |-> args]

NoCondition == [expression |-> {}]

\* The conditions that an event or a call satisfies: the first, with its arguments.
FindFirst(chain, conditions, item) ==
    LET matches(c) == c.signature = item.signature /\ Satisfied(chain, c, item.args)
        found == FirstSuch(conditions, matches)
    IN  [i \in DOMAIN found |-> Found(item, found[i], {item.args})]

(***************************************************************************)
(* The decision and the match.                                             *)
(***************************************************************************)
Has(conditions, found) == conditions # <<>> /\ found # <<>>

\* Mutant: with all sorts of conditions, one that is met is enough.
ShouldMatchAny(monitor, events, functions, transactions) ==
    LET hasLog == Has(monitor.events, events) \/ Has(monitor.functions, functions)
    IN  CASE monitor.events = <<>> /\ monitor.functions = <<>> /\ monitor.transactions = <<>> -> TRUE
          [] OTHER -> hasLog \/ Has(monitor.transactions, transactions)

ShouldMatch(monitor, events, functions, transactions) ==
    LET hasLog == Has(monitor.events, events) \/ Has(monitor.functions, functions)
    IN  CASE monitor.events = <<>> /\ monitor.functions = <<>> /\ monitor.transactions = <<>> -> TRUE
          [] monitor.events = <<>> /\ monitor.functions = <<>> /\ monitor.transactions # <<>> ->
                 Has(monitor.transactions, transactions)
          [] monitor.transactions = <<>> /\ (monitor.events # <<>> \/ monitor.functions # <<>>) -> hasLog
          [] OTHER -> hasLog /\ Has(monitor.transactions, transactions)

ArgsOf(found) ==
    LET kept == SelectSeq(found, LAMBDA f : f.args # {})
    IN  [i \in DOMAIN kept |-> [signature |-> kept[i].signature,
                                args |-> CHOOSE args \in kept[i].args : TRUE]]

\* A MonitorMatch: what was found counts only where there are conditions.
MonitorMatch(monitor, tx, events, functions, transactions) ==
    LET counted(conditions, found) == IF Has(conditions, found) THEN found ELSE <<>>
    IN  [monitor |-> monitor, tx |-> tx,
         events       |-> counted(monitor.events, events),
         eventArgs    |-> ArgsOf(counted(monitor.events, events)),
         functions    |-> counted(monitor.functions, functions),
         functionArgs |-> ArgsOf(counted(monitor.functions, functions)),
         transactions |-> counted(monitor.transactions, transactions)]
=============================================================================
