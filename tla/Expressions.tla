---------------------------- MODULE Expressions ----------------------------
(***************************************************************************)
(* The filter expression language: its grammar over tokens, and the        *)
(* evaluation of an expression with the comparisons of one chain.  The     *)
(* characters of a token are left out: a condition is one token.           *)
(***************************************************************************)
EXTENDS Values

EVM     == INSTANCE EVMEvaluator
Stellar == INSTANCE StellarEvaluator
Solana  == INSTANCE SolanaEvaluator

(***************************************************************************)
(* Tokens and the syntax tree.                                             *)
(***************************************************************************)
Open  == [token |-> "open"]
Close == [token |-> "close"]
And   == [token |-> "And"]
Or    == [token |-> "Or"]

\* base[0].key == literal
Condition(base, accessors, op, literal) ==
    [token |-> "condition", base |-> base, accessors |-> accessors,
     operator |-> op, right |-> literal]

Logical(left, op, right) ==
    [token |-> "logical", left |-> left, operator |-> op, right |-> right]

At(tokens, kind) == tokens # <<>> /\ Head(tokens).token = kind

(***************************************************************************)
(* The parser.  A parser returns {<<tree, what is left of the tokens>>},   *)
(* or the empty set when it fails.  AND binds tighter than OR, both        *)
(* associate to the left, and an operator whose right side does not parse  *)
(* is left over, so that the expression is rejected at its end.            *)
(***************************************************************************)
RECURSIVE ParseOrExpression(_)

\* Mutant: a group need not be closed.
ParseTermUnclosed(tokens) ==
    CASE At(tokens, "condition") -> {<<Head(tokens), Tail(tokens)>>}
      [] At(tokens, "open") ->
             {<<r[1], IF At(r[2], "close") THEN Tail(r[2]) ELSE r[2]>> :
                  r \in ParseOrExpression(Tail(tokens))}
      [] OTHER -> {}

ParseTerm(tokens) ==
    CASE At(tokens, "condition") -> {<<Head(tokens), Tail(tokens)>>}
      [] At(tokens, "open") ->
             {<<r[1], Tail(r[2])>> : r \in {q \in ParseOrExpression(Tail(tokens)) : At(q[2], "close")}}
      [] OTHER -> {}

RECURSIVE FoldAnd(_)
FoldAnd(parsed) ==
    LET right == IF At(parsed[2], "And") THEN ParseTerm(Tail(parsed[2])) ELSE {}
    IN  IF right = {} THEN {parsed}
        ELSE UNION {FoldAnd(<<Logical(parsed[1], "And", r[1]), r[2]>>) : r \in right}

ParseAndExpression(tokens) == UNION {FoldAnd(parsed) : parsed \in ParseTerm(tokens)}

RECURSIVE FoldOr(_)
FoldOr(parsed) ==
    LET right == IF At(parsed[2], "Or") THEN ParseAndExpression(Tail(parsed[2])) ELSE {}
    IN  IF right = {} THEN {parsed}
        ELSE UNION {FoldOr(<<Logical(parsed[1], "Or", r[1]), r[2]>>) : r \in right}

ParseOrExpression(tokens) == UNION {FoldOr(parsed) : parsed \in ParseAndExpression(tokens)}

Parse(tokens) == {r[1] : r \in {q \in ParseOrExpression(tokens) : q[2] = <<>>}}

(***************************************************************************)
(* Evaluation.                                                             *)
(***************************************************************************)
GetKind(chain, tree) ==
    CASE chain = "evm"     -> EVM!GetKindFromJsonValue(tree)
      [] chain = "stellar" -> Stellar!GetKindFromValue(tree)
      [] chain = "solana"  -> Solana!GetKindFromJsonValue(tree)

CompareFinalValues(chain, kind, text, op, literal) ==
    CASE chain = "evm"     -> EVM!CompareFinalValues(kind, text, op, literal)
      [] chain = "stellar" -> Stellar!CompareFinalValues(kind, text, op, literal)
      [] chain = "solana"  -> Solana!CompareFinalValues(kind, text, op, literal)

Index(i) == [by |-> "index", index |-> i]
Key(k)   == [by |-> "key", key |-> k]

AccessJsonValue(tree, accessor) ==
    IF accessor.by = "index"
    THEN {tree.items[i] : i \in {j \in {accessor.index + 1} :
                                     tree.json = "array" /\ j \in DOMAIN tree.items}}
    ELSE {tree.fields[k] : k \in {j \in {accessor.key} :
                                     tree.json = "object" /\ j \in DOMAIN tree.fields}}

ResolvePath(text, accessors) ==
    FoldLeft(LAMBDA trees, accessor : UNION {AccessJsonValue(t, accessor) : t \in trees},
             ParseJson(text), accessors)

\* The first argument of that name, if there is one.
GetBaseParam(args, name) ==
    LET named == {i \in DOMAIN args : args[i].name = name}
    IN  {args[i] : i \in {j \in named : \A k \in named : j <= k}}

EvaluateCondition(chain, condition, args) ==
    LET compare(kind, text) ==
            CompareFinalValues(chain, kind, text, condition.operator, condition.right)
    IN  UNION {IF condition.accessors = <<>> THEN compare(arg.kind, arg.value)
               ELSE UNION {compare(GetKind(chain, tree), TextOf(tree)) :
                               tree \in ResolvePath(arg.value, condition.accessors)}
                   : arg \in GetBaseParam(args, condition.base)}

\* The right side is evaluated only when the left one does not decide.
RECURSIVE Evaluate(_, _, _)
Evaluate(chain, expression, args) ==
    IF expression.token = "condition" THEN EvaluateCondition(chain, expression, args)
    ELSE LET left == Evaluate(chain, expression.left, args)
         IN  IF left \in {Err, {expression.operator = "Or"}} THEN left
             ELSE Evaluate(chain, expression.right, args)

\* evaluate_expression of the filters: an expression that does not parse is an error.
EvaluateTokens(chain, tokens, args) ==
    UNION {Evaluate(chain, expression, args) : expression \in Parse(tokens)}
=============================================================================
