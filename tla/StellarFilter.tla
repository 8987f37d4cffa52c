---------------------------- MODULE StellarFilter ----------------------------
(***************************************************************************)
(* StellarBlockFilter: the match of one monitor with one transaction.  No  *)
(* address has to be involved when only transaction conditions are set.    *)
(*                                                                         *)
(* The topics of an event are values [kind, value], the first ones symbols *)
(* that name it.  Its data is one value, by its shape a map with fields, a *)
(* vec with elements, or single; "whole" is the value as it is printed.    *)
(***************************************************************************)
EXTENDS Filters

\* Base parameters, then those of one operation; value defaults to "0".
BaseParams(tx) ==
    <<[name |-> "hash", kind |-> "string", value |-> Word(<<tx.hash>>, FALSE)],
      [name |-> "ledger", kind |-> "i64", value |-> Dec(tx.height)],
      [name |-> "value", kind |-> "i64", value |-> Dec(0)]>>

OperationParams(tx, operation) ==
    SubSeq(BaseParams(tx), 1, 2) \o
    <<[name |-> "value", kind |-> "i64", value |-> operation.value],
      [name |-> "from", kind |-> "address", value |-> Address(tx.from, FALSE)],
      [name |-> "to", kind |-> "address", value |-> Address(operation.to, FALSE)]>>

\* The operations of a fee bump's inner transaction are not looked at here.
Operations(tx) == IF tx.feeBump THEN <<>> ELSE tx.operations

\* An operation that satisfies the expression ends the search among the
\* operations only: the next condition is checked too.
FindMatchingTransaction(monitor, tx) ==
    LET conditions == monitor.transactions
        holds(c) == /\ StatusMatches(c, tx.status)
                    /\ \/ c.expression = {}
                       \/ Operations(tx) = <<>> /\ Satisfied("stellar", c, BaseParams(tx))
                       \/ \E i \in DOMAIN Operations(tx) :
                              Satisfied("stellar", c, OperationParams(tx, Operations(tx)[i]))
        ends(c) == holds(c) /\ (c.expression = {} \/ Operations(tx) = <<>>)
        last == SelectInSeq(conditions, ends)
        found == SelectSeq(IF last = 0 THEN conditions ELSE SubSeq(conditions, 1, last), holds)
    IN  IF conditions = <<>> THEN <<AnyTransaction>>
        ELSE [i \in DOMAIN found |-> [found[i] EXCEPT !.status = tx.status]]

\* An object with the string fields "type" and "value", among call arguments.
JTyped(kind, text) == [json |-> "typed", kind |-> kind, text |-> text]

\* convert_arguments_to_match_param_entry: what an argument looks like decides
\* its kind before the function's declaration does.
ParamEntry(arg) ==
    LET tree == arg.value
    IN  CASE tree.json = "array"  -> [arg EXCEPT !.kind = "vec", !.value = Json(tree)]
          [] tree.json = "object" -> [arg EXCEPT !.kind = "map", !.value = Json(tree)]
          [] tree.json = "typed"  -> [arg EXCEPT !.kind = tree.kind, !.value = tree.text]
          [] OTHER                -> [arg EXCEPT !.value = TextOf(tree)]

\* The operations of a fee bump's inner transaction count here.
FindMatchingFunctions(monitor, tx) ==
    LET declared == SelectSeq(tx.calls, LAMBDA call : /\ Monitored(monitor, call.address)
                                                      /\ call.inSpec)
        calls == [i \in DOMAIN declared |->
                     [declared[i] EXCEPT !.args = [k \in DOMAIN @ |-> ParamEntry(@[k])]]]
    IN  FlattenSeq([i \in DOMAIN calls |->
            IF monitor.functions = <<>> THEN <<Found(calls[i], NoCondition, {calls[i].args})>>
            ELSE FindFirst("stellar", monitor.functions, calls[i])])

\* A wide integer arrives in two parts.
Wide(high, low) == [form |-> "wide", high |-> high, low |-> low]

\* Printed without quotes, a vec of numbers is JSON, and not much else.
Quoted(tree) ==
    /\ tree.json = "object" => DOMAIN tree.fields = {}
    /\ \A item \in Items(tree) : item.json \in {"number", "bool"}

DecodeValue(arg) ==
    CASE arg.value.form = "wide" /\ arg.kind = "i128" ->
             [arg EXCEPT !.value = Dec(Stellar!CombineI128(@.high, @.low))]
      [] arg.value.form = "wide" /\ arg.kind = "i256" ->
             [arg EXCEPT !.value = Dec(Stellar!CombineI256(@.high, @.low))]
      [] arg.value.form = "json" /\ ~Quoted(arg.value.tree) -> [arg EXCEPT !.value = Listed(@.tree)]
      [] OTHER -> arg

Entry(name, item) ==
    LET decoded == DecodeValue(item)
    IN  [name |-> name, kind |-> decoded.kind, value |-> decoded.value]

IsSymbol(topic, name) == topic.kind = "symbol" /\ topic.value = Word(<<name>>, FALSE)

\* The first event of the specification whose prefix the topics begin with, or whose
\* name if it has no prefix.
EventSpec(log) ==
    LET names(event) == IF event.prefix = <<>> THEN <<event.name>> ELSE event.prefix
        named(event) == /\ Len(names(event)) <= Len(log.topics)
                        /\ \A i \in DOMAIN names(event) : IsSymbol(log.topics[i], names(event)[i])
    IN  FirstSuch(log.spec, named)

DataParams(event) == SelectSeq(event.params, LAMBDA p : ~p.indexed)

\* A map by the names of the parameters, a vec by their positions, else one value.
Unpack(data, params) ==
    LET there == SelectSeq(params, LAMBDA p : p.name \in DOMAIN data.fields)
        nameAt(i) == IF i \in DOMAIN params THEN params[i].name ELSE ToString(i - 1)
    IN  CASE data.shape = "map"    -> [i \in DOMAIN there |-> Entry(there[i].name, data.fields[there[i].name])]
          [] data.shape = "vec"    -> [i \in DOMAIN data.elements |-> Entry(nameAt(i), data.elements[i])]
          [] data.shape = "single" -> <<Entry(nameAt(1), data.whole)>>

\* What is not named yet is named by position: the topics first, whatever the order
\* of the parameters.
PositionName(spec, i) ==
    IF spec # <<>> /\ i \in DOMAIN spec[1].params THEN spec[1].params[i].name ELSE ToString(i - 1)

DecodeEvent(log) ==
    LET spec     == EventSpec(log)
        prefix   == IF spec = <<>> THEN 1 ELSE Len(spec[1].prefix)
        topics   == SubSeq(log.topics, prefix + 1, Len(log.topics))
        indexed  == [i \in DOMAIN topics |-> Entry(PositionName(spec, i), topics[i])]
        unpacked == IF spec = <<>> THEN <<Entry(PositionName(spec, Len(topics) + 1), log.data.whole)>>
                    ELSE Unpack(log.data, DataParams(spec[1]))
        name     == IF spec = <<>> THEN log.topics[1].value.letters[1] ELSE spec[1].name
        args     == indexed \o unpacked
    IN  IF unpacked = <<>> THEN <<>>
        ELSE <<[signature |-> <<name, Len(args)>>, args |-> args]>>

\* The events of monitored addresses; one that does not unpack is left out.
DecodeEvents(monitor, tx) ==
    LET kept == SelectSeq(tx.logs, LAMBDA log : /\ Monitored(monitor, log.address)
                                                /\ log.topics # <<>>
                                                /\ log.topics[1].kind = "symbol"
                                                /\ log.decodes)
    IN  FlattenSeq([i \in DOMAIN kept |-> DecodeEvent(kept[i])])

\* Every condition that an event satisfies is recorded, and its arguments only
\* with an expression.
FindMatchingEvents(monitor, tx) ==
    LET events == DecodeEvents(monitor, tx)
        matching(event) ==
            SelectSeq(monitor.events, LAMBDA c : /\ c.signature = event.signature
                                                 /\ Satisfied("stellar", c, event.args))
        recorded(event, c) ==
            Found(event, c, IF c.expression = {} THEN {} ELSE {event.args})
    IN  FlattenSeq([i \in DOMAIN events |->
            IF monitor.events = <<>> THEN <<Found(events[i], NoCondition, {events[i].args})>>
            ELSE [k \in DOMAIN matching(events[i]) |-> recorded(events[i], matching(events[i])[k])]])

FilterTransaction(monitor, tx) ==
    LET transactions == FindMatchingTransaction(monitor, tx)
        events       == FindMatchingEvents(monitor, tx)
        functions    == FindMatchingFunctions(monitor, tx)
    IN  IF ShouldMatch(monitor, events, functions, transactions)
        THEN <<MonitorMatch(monitor, tx, events, functions, transactions)>>
        ELSE <<>>
=============================================================================
