--------------------------- MODULE MCFilterService ---------------------------
(***************************************************************************)
(* Blocks and monitors for TLC: expressions of every shape, values of      *)
(* every kind, and every combination of conditions with what a transaction *)
(* may hold, two transactions and two monitors included.                   *)
(***************************************************************************)
EXTENDS FilterProperties

Number(n) == [type |-> "Number", text |-> Dec(n)]
Str(text) == [type |-> "Str", text |-> text]
Truth(b)  == [type |-> "Bool", b |-> b]

Arg(name, kind, value) == [name |-> name, kind |-> kind, value |-> value]

Call(address, signature, args) ==
    [address |-> address, signature |-> signature, args |-> args, inSpec |-> TRUE, decodes |-> TRUE]

\* The signature of an event: its name and how many arguments it has.
E == <<"E", 1>>
F == <<"F", 1>>

\* The arguments that are topics, or those that are not.
Part(args, indexed, inTopics) ==
    LET positions == SetToSortSeq({i \in DOMAIN args : (i \in indexed) = inTopics}, <)
    IN  [k \in DOMAIN positions |-> args[positions[k]]]

\* A log as its contract emits it: the values of the indexed inputs are topics, and
\* the ABI that the monitor has for the contract declares the event.
IndexedLog(address, name, args, indexed) ==
    LET values(inTopics) == [k \in DOMAIN Part(args, indexed, inTopics) |->
                                Part(args, indexed, inTopics)[k].value]
        signature == <<name, Len(args)>>
        declaration == [signature |-> signature,
                        inputs |-> [i \in DOMAIN args |-> [name |-> args[i].name, kind |-> args[i].kind,
                                                            indexed |-> i \in indexed]]]
    IN  [address |-> address, signature |-> signature, args |-> args, decodes |-> TRUE,
         declaration |-> declaration, spec |-> <<declaration>>,
         topics |-> <<signature>> \o values(TRUE), data |-> values(FALSE)]

Item(arg) == [kind |-> arg.kind, value |-> arg.value]

\* An event as a Soroban contract emits it, with its data in any of three shapes.
StellarLog(address, name, args, indexed, shape) ==
    LET items(inTopics) == [k \in DOMAIN Part(args, indexed, inTopics) |->
                               Item(Part(args, indexed, inTopics)[k])]
        data == Part(args, indexed, FALSE)
        declaration == [signature |-> <<name, Len(args)>>, name |-> name, prefix |-> <<name>>,
                        params |-> [i \in DOMAIN args |-> [name |-> args[i].name,
                                                            indexed |-> i \in indexed]]]
    IN  [address |-> address, signature |-> <<name, Len(args)>>, args |-> args, decodes |-> TRUE,
         declaration |-> declaration, spec |-> <<declaration>>,
         topics |-> <<[kind |-> "symbol", value |-> Word(<<name>>, FALSE)]>> \o items(TRUE),
         data |-> [shape    |-> shape,
                   whole    |-> IF shape = "single" /\ data # <<>> THEN items(FALSE)[1]
                                ELSE [kind |-> shape, value |-> Json(JArray(<<>>))],
                   fields   |-> [n \in {data[k].name : k \in DOMAIN data} |->
                                    Item(data[CHOOSE k \in DOMAIN data : data[k].name = n])],
                   elements |-> items(FALSE)]]

Log(chain, address, name, args) ==
    IF chain = "stellar" THEN StellarLog(address, name, args, {}, "single")
    ELSE IndexedLog(address, name, args, {})

Truncated(chain, log) ==
    IF chain = "stellar" THEN [log EXCEPT !.decodes = FALSE]
    ELSE [log EXCEPT !.decodes = FALSE, !.data = <<>>]

Tx(hash, status, calls, logs) ==
    [hash |-> hash, status |-> status, from |-> "user", to |-> "A", gas |-> 2, height |-> 2,
     accounts |-> <<"user">> \o [i \in DOMAIN calls |-> calls[i].address],
     args |-> <<Arg("value", "uint256", Dec(2))>>, calls |-> calls, logs |-> logs,
     operations |-> <<[value |-> Dec(2), to |-> "A"], [value |-> Dec(3), to |-> "B"]>>,
     feeBump |-> FALSE, decodes |-> TRUE]

Monitor(name, events, functions, transactions) ==
    [name |-> name, addresses |-> <<"A">>, events |-> events, functions |-> functions,
     transactions |-> transactions]

On(signature, expression) == [signature |-> signature, expression |-> expression]

Scenario(chain, monitors, blocks) == [chain |-> chain, monitors |-> monitors, blocks |-> blocks]

(***************************************************************************)
(* Expressions over a true, a false and an erroneous condition.            *)
(***************************************************************************)
Conditions == {Condition("x", <<>>, "Eq", Number(2)), Condition("x", <<>>, "Eq", Number(3)),
               Condition("y", <<>>, "Eq", Number(2))}
Ops == {And, Or}

Chains3 == {<<a, o, b, p, c>> : a, b, c \in Conditions, o, p \in Ops}
Grouped ==
    {<<Open, t[1], t[2], t[3], Close, t[4], t[5]>> : t \in Chains3} \union
    {<<t[1], t[2], Open, t[3], t[4], t[5], Close>> : t \in Chains3}
Chains4 == {t \o <<o, c>> : t \in Chains3, o \in Ops, c \in Conditions}
ShortOnes == UNION {[1..n -> Conditions \union Ops \union {Open, Close}] : n \in 0..4}
Broken == {RemoveAt(t, i) : t \in Grouped, i \in {1, 2, 4, 5}}
Expressions4 == Chains3 \union Grouped \union Chains4 \union ShortOnes \union Broken

NumberKind == [evm |-> "uint256", stellar |-> "u64", solana |-> "u64"]

OnEventOf(signature, expressions) ==
    {<<Monitor("m", <<On(signature, {tokens})>>, <<>>, <<>>)>> : tokens \in expressions}
OnEvent(expressions) == OnEventOf(E, expressions)
Emitting(chain, args) ==
    {<<Tx("h", "Success", <<>>, <<Log(chain, "A", "E", <<arg>>)>>)>> : arg \in args}

ExpressionScenarios ==
    {Scenario(chain, OnEvent(Expressions4), Emitting(chain, {Arg("x", NumberKind[chain], Dec(2))}))
        : chain \in {"evm", "stellar"}}

(***************************************************************************)
(* Values of every kind against literals of every type.                    *)
(***************************************************************************)
Ab == Word(<<"a", "b">>, FALSE)
List == JArray(<<JNumber(2), JString(Ab)>>)
Object == JObject([value |-> JString(Ab), n |-> JNumber(2)])

Texts ==
    {Dec(2), Dec(-3), Dec(20), Hex(15), Bool(TRUE), Ab, Word(<<"a", "b">>, TRUE), Word(<<"a">>, FALSE),
     Address("A", FALSE), Address("A", TRUE), Json(List), Json(Object), Json(JArray(<<Object>>)),
     Tuple(<<Dec(2), Ab>>)}
TextsOf(chain) == Texts \union (IF chain = "stellar" THEN {Listed(List)} ELSE {})
Literals(chain) == {Number(2), Number(-3), Truth(TRUE)} \union {Str(t) : t \in TextsOf(chain)}

Kinds == [evm     |-> {"int256", "uint256", "array", "address", "string", "bool", "tuple", "uint24"},
          stellar |-> {"u64", "i128", "u256", "bool", "string", "address", "vec", "map"},
          solana  |-> {"u64", "i64", "bool", "string"}]

Paths == {<<>>, <<Index(1)>>, <<Key("value")>>, <<Index(0), Key("n")>>}

Comparing(paths, ops, literals) ==
    OnEvent({<<Condition("x", path, op, literal)>> : path \in paths, op \in ops, literal \in literals})

ValueScenarios ==
    {Scenario(chain, Comparing({<<>>}, {"Eq", "Contains"}, Literals(chain)),
              Emitting(chain, {Arg("x", kind, text) : kind \in Kinds[chain], text \in TextsOf(chain)}))
        : chain \in {"evm", "stellar", "solana"}}

PathScenarios ==
    {Scenario(chain, Comparing(Paths, {"Eq", "StartsWith"}, Literals(chain)),
              Emitting(chain, {Arg("x", "map", text) :
                                   text \in {Json(List), Json(Object), Json(JArray(<<Object>>)), Ab}}))
        : chain \in {"evm", "stellar", "solana"}}

\* What the Solana filter compares with its own parameters.
ParameterScenarios ==
    {Scenario("solana",
              {<<Monitor("m", <<>>, <<>>, <<[status |-> "Any", expression |-> {<<Condition(p, <<>>, op, literal)>>}]>>)>>
                  : p \in {"signature", "is_success", "fee", "fee_payer", "slot", "accounts", "unknown"},
                    op \in {"Eq", "Contains"},
                    literal \in Literals("solana") \union {Str(Word(<<"|", a, "|">>, FALSE)) : a \in {"A", "B"}}},
              {<<Tx("h", status, <<Call("A", "f", <<>>)>>, <<>>),
                 [Tx("i", status, <<>>, <<>>) EXCEPT !.accounts = <<>>]>> : status \in {"Success", "Failure"}})}

WideScenarios ==
    {Scenario("stellar", Comparing({<<>>}, {"Gte"}, {Number(n) : n \in {-1, 0, 2}}),
              Emitting("stellar", {Arg("x", kind, StellarBlockFilter!Wide(h, l))
                           : h \in -2..1, l \in 0..3, kind \in {"i128", "i256"}}))}

(***************************************************************************)
(* Conditions of all three sorts against what transactions hold.           *)
(***************************************************************************)
Above(name, n) == {<<Condition(name, <<>>, "Gt", Number(n))>>}

EventConditions == {<<>>, <<On(E, {})>>, <<On(E, Above("x", 2)), On(E, {})>>,
                    <<On(F, {}), On(E, Above("x", 1))>>}
FunctionConditions == {<<>>, <<On("f", {})>>, <<On("f", Above("x", 1)), On("f", Above("x", 2))>>}
OfStatus(status, expression) == [status |-> status, expression |-> expression]
TransactionConditions(chain) ==
    LET base == IF chain = "solana" THEN "fee" ELSE "value"
    IN  {<<>>, <<OfStatus("Success", {})>>, <<OfStatus("Failure", {})>>,
         <<OfStatus("Any", Above(base, 2)), OfStatus("Success", Above(base, 1))>>,
         <<OfStatus("Any", Above(IF chain = "stellar" THEN "ledger" ELSE "gas_used", 1))>>}

LogsOf(chain) ==
    LET e(address, name, n) == Log(chain, address, name, <<Arg("x", NumberKind[chain], Dec(n))>>)
    IN  {<<>>, <<e("A", "E", 2)>>, <<e("B", "E", 3)>>, <<e("A", "E", 1), e("A", "E", 3)>>,
         <<e("A", "F", 1), e("A", "E", 2)>>, <<Truncated(chain, e("A", "E", 3))>>}

CallsOf(chain) ==
    LET v(n) == IF chain = "stellar" THEN JNumber(n) ELSE Dec(n)
        f(address, n) == Call(address, "f", <<Arg("x", NumberKind[chain], v(n))>>)
    IN  {<<>>, <<f("A", 2)>>, <<f("B", 3)>>, <<[f("A", 3) EXCEPT !.inSpec = FALSE]>>}

Chain4 == {"evm", "stellar", "solana", "midnight"}
Basis(chain) == IF chain = "midnight" THEN "evm" ELSE chain

Monitors4(chain, name) ==
    {Monitor(name, e, f, t) : e \in EventConditions, f \in FunctionConditions,
                              t \in TransactionConditions(chain)}

RuleScenarios ==
    {Scenario(chain, {<<m>> : m \in Monitors4(chain, "m")},
              {<<Tx("h", status, calls, logs)>> : status \in {"Success", "Failure"},
                   calls \in CallsOf(Basis(chain)), logs \in LogsOf(Basis(chain))})
        : chain \in Chain4}

\* Two of each, and blocks without transactions or with an unusual one.
PairScenarios ==
    {Scenario(chain,
              {<<m, Monitor("n", <<On(E, {})>>, <<>>, <<>>)>> : m \in Monitors4(chain, "m")},
              {<<Tx("h", "Failure", <<>>, <<>>), [Tx("i", "Success", calls, logs) EXCEPT !.to = "B"]>>
                   : calls \in CallsOf(Basis(chain)), logs \in LogsOf(Basis(chain))})
        : chain \in Chain4}

UnusualScenarios ==
    LET plain == Tx("h", "Success", <<>>, <<>>)
    IN  {Scenario(chain, {<<m>> : m \in Monitors4(chain, "m")},
                  {<<>>, <<[plain EXCEPT !.decodes = FALSE]>>, <<[plain EXCEPT !.feeBump = TRUE]>>,
                   <<[plain EXCEPT !.operations = <<>>]>>})
            : chain \in Chain4}

TypedScenarios ==
    {Scenario("stellar", {<<Monitor("m", <<>>, <<On("f", Above("x", 1))>>, <<>>)>>},
              {<<Tx("h", "Success", <<Call("A", "f", <<Arg("x", "u64", tree)>>)>>, <<>>)>>
                  : tree \in {List, Object, JBool(TRUE), JNumber(2), StellarBlockFilter!JTyped("i64", Dec(2))}})}

(***************************************************************************)
(* Events of three arguments, any of them indexed, read with ABIs that     *)
(* declare them, declare them otherwise, name other events before, or do   *)
(* not know them; truncated, and without topics.                           *)
(***************************************************************************)
Transfer(indexed) ==
    IndexedLog("A", "E", <<Arg("x", "uint256", Dec(1)), Arg("y", "uint256", Dec(2)),
                           Arg("z", "uint256", Dec(3))>>, indexed)

ReadWith(log) ==
    LET other == [signature |-> <<"F", 0>>, inputs |-> <<>>]
        reindexed == [log.spec[1] EXCEPT !.inputs[3].indexed = ~@]
    IN  {log, [log EXCEPT !.spec = <<other>> \o @], [log EXCEPT !.spec = <<other>>],
         [log EXCEPT !.spec = <<>>], [log EXCEPT !.spec = <<reindexed>>],
         [log EXCEPT !.spec = <<reindexed>> \o @], [log EXCEPT !.topics = <<>>],
         [log EXCEPT !.topics = <<>>, !.spec = <<>>]}
        \union (IF log.data = <<>> THEN {} ELSE {Truncated("evm", log)})

DecodingScenarios ==
    {Scenario("evm",
              OnEventOf(<<"E", 3>>, {<<Condition(name, <<>>, "Eq", Number(n))>> :
                                         name \in {"x", "y", "z"}, n \in 1..3}),
              {<<Tx("h", "Success", <<>>, <<log>>)>> :
                   log \in UNION {ReadWith(Transfer(indexed)) : indexed \in SUBSET (1..3)}})}

(***************************************************************************)
(* Events of one or three arguments in every shape, read with              *)
(* specifications that declare them, after another event or not at all,    *)
(* or without a prefix; and some without a name or without all their data. *)
(***************************************************************************)
Sent(n, indexed, shape) ==
    StellarLog("A", "E", SubSeq(<<Arg("x", "u64", Dec(1)), Arg("y", "i128", StellarBlockFilter!Wide(0, 2)),
                                  Arg("z", "u64", Dec(3))>>, 1, n), indexed, shape)

\* Declared without a prefix, and its first parameter has a name for its value.
Named(name, shape) ==
    LET topic == Arg("name", "symbol", Word(<<name>>, FALSE))
        log == StellarLog("A", "E", <<topic, Arg("x", "u64", Dec(1))>>, {1}, shape)
    IN  [log EXCEPT !.topics = Tail(@), !.declaration.prefix = <<>>, !.spec[1].prefix = <<>>]

SpecifiedAs(log) ==
    LET other == [signature |-> <<"F", 0>>, name |-> "F", prefix |-> <<"F">>, params |-> <<>>]
        longer == [other EXCEPT !.prefix = <<"E", "F">>]
    IN  {log, [log EXCEPT !.spec = <<other, longer>> \o @], [log EXCEPT !.spec = <<other>>],
         [log EXCEPT !.spec = <<>>], [log EXCEPT !.topics = <<>>], [log EXCEPT !.topics = Tail(@)]}

Shapes == {"map", "vec", "single"}

StellarDecodingScenarios ==
    LET fits(n, indexed, shape) == shape = "single" => Cardinality(indexed) >= n - 1
        logs(n) == UNION {SpecifiedAs(Sent(n, s[1], s[2])) :
                              s \in {t \in (SUBSET (1..n)) \X Shapes : fits(n, t[1], t[2])}}
    IN  {Scenario("stellar",
                  OnEventOf(<<"E", n>>, {<<Condition(name, <<>>, "Eq", Number(v))>> :
                                             name \in {"x", "y", "z", "0", "1"}, v \in 1..3}),
                  {<<Tx("h", "Success", <<>>, <<log>>)>> :
                       log \in logs(1) \union logs(3) \union
                               {Named(name, shape) : name \in {"E", "F"}, shape \in Shapes}})
            : n \in 1..3}

AllScenarios ==
    ExpressionScenarios \union ValueScenarios \union PathScenarios \union ParameterScenarios \union WideScenarios \union
    RuleScenarios \union PairScenarios \union UnusualScenarios \union TypedScenarios \union
    DecodingScenarios \union StellarDecodingScenarios
=============================================================================
