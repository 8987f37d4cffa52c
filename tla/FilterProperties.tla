-------------------------- MODULE FilterProperties --------------------------
(***************************************************************************)
(* What the matches of a block should be, stated without the filters'      *)
(* loops: the meaning of an expression from the structure of its tokens,   *)
(* and the documented rule that combines a monitor's conditions.           *)
(***************************************************************************)
EXTENDS FilterService

(***************************************************************************)
(* The meaning of an expression.                                           *)
(***************************************************************************)
Depth(tokens, i) ==
    Cardinality({j \in 1..i : tokens[j] = Open}) - Cardinality({j \in 1..i : tokens[j] = Close})

TopLevel(tokens, kind) == {i \in DOMAIN tokens : tokens[i].token = kind /\ Depth(tokens, i) = 0}

\* In parentheses that belong together.
Enclosed(tokens) ==
    /\ Len(tokens) > 2
    /\ tokens[1] = Open
    /\ tokens[Len(tokens)] = Close
    /\ \A i \in 1..Len(tokens) - 1 : Depth(tokens, i) > 0

Inner(tokens) == SubSeq(tokens, 2, Len(tokens) - 1)

RECURSIVE WellFormed(_)
WellFormed(tokens) ==
    \/ Len(tokens) = 1 /\ tokens[1].token = "condition"
    \/ Enclosed(tokens) /\ WellFormed(Inner(tokens))
    \/ \E i \in TopLevel(tokens, "And") \union TopLevel(tokens, "Or") :
           /\ WellFormed(SubSeq(tokens, 1, i - 1))
           /\ WellFormed(SubSeq(tokens, i + 1, Len(tokens)))

Operands(tokens, kind) ==
    LET cuts == SetToSortSeq(TopLevel(tokens, kind) \union {0, Len(tokens) + 1}, <)
    IN  [k \in 1..Len(cuts) - 1 |-> SubSeq(tokens, cuts[k] + 1, cuts[k + 1] - 1)]

\* The answer of the first operand that is not the neutral one.
Decide(outcomes, neutral) ==
    LET i == SelectInSeq(outcomes, LAMBDA o : o # {neutral})
    IN  IF i = 0 THEN {neutral} ELSE outcomes[i]

RECURSIVE Meaning(_, _)
Meaning(tokens, args) ==
    LET outcomes(kind) ==
            [k \in DOMAIN Operands(tokens, kind) |-> Meaning(Operands(tokens, kind)[k], args)]
    IN  CASE TopLevel(tokens, "Or") # {} -> Decide(outcomes("Or"), FALSE)
          [] TopLevel(tokens, "Or") = {} /\ TopLevel(tokens, "And") # {} -> Decide(outcomes("And"), TRUE)
          [] Enclosed(tokens) -> Meaning(Inner(tokens), args)
          [] OTHER -> EvaluateCondition(Chain, tokens[1], args)

Holds(condition, args) ==
    \A tokens \in condition.expression : WellFormed(tokens) /\ Meaning(tokens, args) = {TRUE}

(***************************************************************************)
(* The arguments that a monitor's conditions are about.                    *)
(***************************************************************************)
\* A wide integer is its signed high part followed by its low part.
RealArg(arg) ==
    IF arg.value.form # "wide" THEN arg
    ELSE [arg EXCEPT !.value = Dec(@.high * Stellar!Half + @.low)]

RealArgs(args) == [i \in DOMAIN args |-> RealArg(args[i])]

CallArgs(call) ==
    IF Chain = "stellar"
    THEN [i \in DOMAIN call.args |-> StellarBlockFilter!ParamEntry(call.args[i])]
    ELSE call.args

\* The ABI or specification declares the event, and before any other that the log
\* could be read as, the way its contract does.
Declared(log) ==
    LET named == SelectSeq(log.spec, LAMBDA event : event.signature = log.signature)
    IN  named # <<>> /\ named[1] = log.declaration

\* docs/index.mdx:1370-1390: by the names of the specification, or by position.
ByPosition(log) ==
    LET values == Tail(log.topics) \o <<log.data.whole>>
    IN  [signature |-> <<log.signature[1], Len(values)>>,
         args |-> [i \in DOMAIN values |-> [name |-> ToString(i - 1), kind |-> values[i].kind,
                                             value |-> values[i].value]]]

\* By the names of the parameters; an event that declares no data has a void one.
Bare(log) == \A i \in DOMAIN log.declaration.params : log.declaration.params[i].indexed

ByName(log) ==
    LET void == IF Bare(log) THEN <<[name |-> "0", kind |-> log.data.whole.kind, value |-> log.data.whole.value]>>
                ELSE <<>>
    IN  [signature |-> <<log.signature[1], Len(log.args \o void)>>, args |-> log.args \o void]

Emitted(log) ==
    IF Chain # "stellar" THEN [signature |-> log.signature, args |-> log.args]
    ELSE IF Declared(log) THEN ByName(log) ELSE ByPosition(log)

\* The first topic is a name; without a prefix it is the event's, by chance or by design.
HasName(log) ==
    /\ log.topics # <<>>
    /\ log.topics[1].kind = "symbol"
    /\ Declared(log) /\ log.declaration.prefix = <<>> =>
           log.topics[1].value = Word(<<log.declaration.name>>, FALSE)

\* An empty map or vec is taken for data that does not unpack.
Unpacks(log) == Declared(log) /\ Bare(log) => log.data.shape = "single"

Events(monitor, tx) ==
    {Emitted(log) : log \in {l \in ToSet(tx.logs) :
        /\ Chain # "solana" => Monitored(monitor, l.address) /\ l.decodes
        /\ Chain = "evm" => Declared(l)
        /\ Chain = "stellar" => HasName(l) /\ Unpacks(l)}}

Calls(monitor, tx) ==
    {call \in ToSet(tx.calls) :
        /\ Monitored(monitor, call.address)
        /\ Chain # "midnight" => call.inSpec
        /\ Chain = "evm" => call.decodes}

\* On Stellar those of an operation, or without one the defaults.
TransactionArgs(monitor, tx, operation) ==
    CASE Chain = "evm"      -> EVMBlockFilter!TransactionArgs(monitor, Block, tx)
      [] Chain = "solana"   -> SolanaBlockFilter!TransactionParams(tx)
      [] Chain = "midnight" -> <<>>
      [] Chain = "stellar"  ->
             IF operation \in DOMAIN tx.operations
             THEN StellarBlockFilter!OperationParams(tx, tx.operations[operation])
             ELSE StellarBlockFilter!BaseParams(tx)

TransactionHolds(monitor, tx, operation) ==
    \E c \in ToSet(monitor.transactions) :
        c.status \in {"Any", tx.status} /\ Holds(c, TransactionArgs(monitor, tx, operation))

\* Every expression with arguments of the transactions of the block; the
\* evaluators are asked about events even where a filter does not.
Evaluations ==
    IF Chain = "midnight" THEN {}
    ELSE UNION {UNION {
             {<<tokens, log.args>> : tokens \in UNION {c.expression : c \in ToSet(monitor.events)},
                                     log \in ToSet(tx.logs)} \union
             {<<tokens, CallArgs(call)>> : tokens \in UNION {c.expression : c \in ToSet(monitor.functions)},
                                           call \in ToSet(tx.calls)} \union
             {<<tokens, args>> : tokens \in UNION {c.expression : c \in ToSet(monitor.transactions)},
                                 args \in {TransactionArgs(monitor, tx, k) : k \in 0..Len(tx.operations)}}
             : monitor \in ToSet(Monitors)} : tx \in ToSet(Block)}

\* What depends on the block and the monitors alone is judged when matching starts.
BeforeMatching == stage = "match" /\ next = <<1, 1>>

(***************************************************************************)
(* Type invariant: the stage, and a match for some monitor and some        *)
(* transaction of the block at most once each.                             *)
(***************************************************************************)
TypeOK ==
    /\ scenario.chain \in {"evm", "stellar", "solana", "midnight"}
    /\ stage \in {"fetch", "match", "handle", "done", "error", "panic"}
    /\ fetched \in 0..Len(Requests)
    /\ next[1] \in 1..Len(Monitors) + 1 /\ next[2] \in {1} \union DOMAIN Block
    /\ Len(matches) <= Len(Monitors) * Len(Block)
    /\ \A i, j \in DOMAIN matches :
           i # j => <<matches[i].monitor, matches[i].tx>> # <<matches[j].monitor, matches[j].tx>>
    /\ Len(variables) <= Len(matches)

(***************************************************************************)
(* The parser and evaluate give an expression the meaning its tokens have: *)
(* AND before OR, parentheses first, operands from left to right until one *)
(* decides, an error only where it is reached, and no answer for what is   *)
(* not an expression (parsing.rs:302-404, helpers.rs:14-85).               *)
(***************************************************************************)
ExpressionMeansItsTokens ==
    BeforeMatching =>
        \A e \in Evaluations :
            EvaluateTokens(Chain, e[1], e[2]) =
                IF WellFormed(e[1]) THEN Meaning(e[1], e[2]) ELSE Err

(***************************************************************************)
(* The comparisons of a chain's evaluator agree with each other: != is not *)
(* ==, and where values are ordered exactly one of <, == and > holds, with *)
(* <= and >= their complements (compare_final_values of each chain).       *)
(***************************************************************************)
ComparisonsAgree ==
    BeforeMatching => \A e \in Evaluations : \A condition \in {t \in ToSet(e[1]) : t.token = "condition"} :
        LET v(op) == EvaluateCondition(Chain, [condition EXCEPT !.operator = op], e[2])
            Not(outcome) == {~b : b \in outcome}
        IN  /\ v("Ne") = Not(v("Eq"))
            /\ v("Lt") # Err =>
                   /\ v("Gte") = Not(v("Lt"))
                   /\ v("Lte") = Not(v("Gt"))
                   /\ Cardinality({op \in {"Lt", "Eq", "Gt"} : v(op) = {TRUE}}) = 1

(***************************************************************************)
(* docs/index.mdx:1215-1221: without conditions every transaction matches; *)
(* otherwise a transaction condition, if there is one, and an event or a   *)
(* function, if there are conditions on these; and 1157-1159: the value,   *)
(* from and to of a Stellar transaction are those of its first operation.  *)
(* EVM asks for an involved address as well.  Where a filter is known to   *)
(* do otherwise is left out: a status that EVM takes for success without a *)
(* receipt, what Misread names of Stellar's events and OtherOperation of   *)
(* its operations, function and event expressions on Solana, expressions   *)
(* on Midnight.                                                            *)
(***************************************************************************)
Documented(monitor, tx) ==
    LET event == \E c \in ToSet(monitor.events), log \in Events(monitor, tx) :
                     c.signature = log.signature /\ Holds(c, RealArgs(log.args))
        function == \E c \in ToSet(monitor.functions), call \in Calls(monitor, tx) :
                     c.signature = call.signature /\ Holds(c, CallArgs(call))
        involved == \/ \E a \in {tx.from, tx.to} : Monitored(monitor, a)
                    \/ \E log \in ToSet(tx.logs) : Monitored(monitor, log.address)
    IN  /\ Chain = "evm" => involved
        /\ Chain = "solana" => \E call \in ToSet(tx.calls) : Monitored(monitor, call.address)
        /\ monitor.transactions # <<>> => TransactionHolds(monitor, tx, 1)
        /\ monitor.events # <<>> \/ monitor.functions # <<>> => event \/ function

Plain(conditions) == \A c \in ToSet(conditions) : c.expression = {}

NegativeI256(tx) ==
    \E log \in ToSet(tx.logs) : \E arg \in ToSet(log.args) :
        arg.value.form = "wide" /\ arg.kind = "i256" /\ arg.value.high < 0

\* A parameter that is a topic is declared after one that is data: names get mixed up.
TopicAfterData(tx) ==
    \E log \in ToSet(tx.logs) :
        /\ Declared(log)
        /\ \E i, j \in DOMAIN log.args :
               i < j /\ ~log.declaration.params[i].indexed /\ log.declaration.params[j].indexed

\* A map, or a vec that is not of numbers: its parts are out of reach.
Unquoted(tx) ==
    \E log \in ToSet(tx.logs) : \E arg \in ToSet(log.args) :
        arg.value.form = "json" /\ ~StellarBlockFilter!Quoted(arg.value.tree)

Misread(tx) == NegativeI256(tx) \/ TopicAfterData(tx) \/ Unquoted(tx)

\* The filter tries every operation (stellar/filter.rs:153-199), so that a later one
\* may satisfy what the first does not; and none of a fee bump's (76-105).
OtherOperation(monitor, tx) ==
    \/ tx.feeBump /\ ~Plain(monitor.transactions)
    \/ /\ ~TransactionHolds(monitor, tx, 1)
       /\ \E k \in 2..Len(tx.operations) : TransactionHolds(monitor, tx, k)

Supported(monitor, tx) ==
    CASE Chain = "evm"      -> tx.status = "Success" \/ EVMBlockFilter!NeedsReceipt(monitor, Block)
      [] Chain = "stellar"  -> ~Misread(tx) /\ ~OtherOperation(monitor, tx)
      [] Chain = "solana"   -> monitor.functions = <<>> /\ Plain(monitor.events)
      [] Chain = "midnight" -> /\ Plain(monitor.functions)
                               /\ Plain(monitor.transactions)
                               /\ monitor.events = <<>>

\* Once the block is done, the matches are the documented ones.
MatchesAreDocumented ==
    stage = "done" =>
        \A i \in DOMAIN Monitors, t \in DOMAIN Block :
            Supported(Monitors[i], Block[t]) =>
                (Documented(Monitors[i], Block[t]) <=>
                     \E k \in DOMAIN matches : matches[k].monitor = Monitors[i] /\ matches[k].tx = Block[t])

(***************************************************************************)
(* Every event recorded with arguments was emitted by a monitored contract *)
(* in that very transaction, has these arguments and satisfies a condition *)
(* of its signature; and so does every call (matched_on and                *)
(* matched_on_args of the EVM and Stellar filters).                        *)
(***************************************************************************)
EvidenceIsReal ==
    stage = "done" /\ Chain \in {"evm", "stellar"} =>
        \A k \in DOMAIN matches : LET match == matches[k] monitor == match.monitor IN
            /\ \A found \in ToSet(match.eventArgs) :
                   \/ Chain = "stellar" /\ Misread(match.tx)
                   \/ \E log \in Events(monitor, match.tx) :
                       /\ found = [signature |-> log.signature, args |-> RealArgs(log.args)]
                       /\ \E c \in ToSet(monitor.events) :
                              c.signature = found.signature /\ Holds(c, found.args)
            /\ \A found \in ToSet(match.functionArgs) :
                   \E call \in Calls(monitor, match.tx) :
                       /\ found = [signature |-> call.signature, args |-> CallArgs(call)]
                       /\ \E c \in ToSet(monitor.functions) :
                              c.signature = found.signature /\ Holds(c, found.args)
=============================================================================
