---------------------------- MODULE EVMEvaluator ----------------------------
(***************************************************************************)
(* EVMConditionEvaluator: what each comparison of the expression language  *)
(* answers for the arguments of EVM transactions, functions and events.    *)
(***************************************************************************)
EXTENDS Values

SignedKinds   == {"int8", "int256", "int64"}
UnsignedKinds == {"uint8", "uint256", "number"}
ArrayKinds    == {"array", "uint256[]", "address[]", "string[]"}
StringKinds   == {"string", "bytes", "bytes32"}

GetKindFromJsonValue(tree) ==
    CASE tree.json = "string" /\ tree.text.form = "address" -> "address"
      [] tree.json = "string" /\ tree.text.form = "hex"     -> "bytes"
      [] tree.json = "string" /\ tree.text.form \notin {"address", "hex"} -> "string"
      [] tree.json = "number" /\ tree.n < 0  -> "int64"
      [] tree.json = "number" /\ tree.n >= 0 -> "number"
      [] tree.json = "object" -> "map"
      [] OTHER -> tree.json

\* string_to_u256 and string_to_i256: the number a text stands for, if any.
\* A hexadecimal number is taken for the bits of a signed one.
StringToU256(text) ==
    IF text.form \in {"dec", "hex"} THEN {text.n} \intersect Unsigned ELSE {}

StringToI256(text) ==
    CASE text.form = "dec" -> {text.n} \intersect Signed
      [] text.form = "hex" -> {FromRaw(n) : n \in {text.n} \intersect Unsigned}
      [] OTHER             -> {}

CompareNumbers(left, op, right) ==
    UNION {CompareOrdered(l, op, r) : l \in left, r \in right}

\* Numbers accept a number or a string literal.
CompareU256(text, op, literal) ==
    IF literal.type = "Bool" THEN Err
    ELSE CompareNumbers(StringToU256(text), op, StringToU256(literal.text))

CompareI256(text, op, literal) ==
    IF literal.type = "Bool" THEN Err
    ELSE CompareNumbers(StringToI256(text), op, StringToI256(literal.text))

AreSameAddress(t, u) == Lower(t) = Lower(u)

CompareAddress(text, op, literal) ==
    IF literal.type # "Str" THEN Err
    ELSE CompareEqual(AreSameAddress(text, literal.text), op)

CompareString(text, op, literal) ==
    IF literal.type # "Str" THEN Err
    ELSE LET left  == Lower(text)
             right == Lower(literal.text)
         IN  CASE op = "StartsWith" -> {HasPrefix(left, right)}
               [] op = "EndsWith"   -> {HasSuffix(left, right)}
               [] op = "Contains"   -> {HasInfix(left, right)}
               [] OTHER             -> CompareEqual(left = right, op)

CompareBoolean(text, op, literal) ==
    IF text.form # "bool" \/ literal.type # "Bool" THEN Err
    ELSE CompareEqual(text.b = literal.b, op)

\* A nested array or object matches when anything in it does.
RECURSIVE CheckJsonValueMatchesStr(_, _)
CheckJsonValueMatchesStr(tree, target) ==
    CASE tree.json = "string" -> Lower(tree.text) = Lower(target)
      [] tree.json \in {"array", "object"} ->
             \E item \in Items(tree) : CheckJsonValueMatchesStr(item, target)
      [] OTHER -> TextOf(tree) = target

\* Contains takes a number too; Eq and Ne only a string.
Searchable(op, literal) ==
    literal.type = "Str" \/ (literal.type = "Number" /\ op = "Contains")

CompareArray(text, op, literal) ==
    IF ~Searchable(op, literal) \/ op \notin {"Eq", "Ne", "Contains"} THEN Err
    ELSE LET left  == {t \in ParseJson(text) : t.json = "array"}
             right == {t \in ParseJson(literal.text) : t.json = "array"}
         IN  IF op = "Contains"
             THEN {CheckJsonValueMatchesStr(t, literal.text) : t \in left}
             ELSE UNION {CompareEqual(LowerTree(t) = LowerTree(u), op) : t \in left, u \in right}

\* The JSON value of an element of a tuple; what JSON refuses is a string.
RECURSIVE TupleElement(_)
TupleElement(text) ==
    IF text.form = "tuple"
    THEN JArray([i \in DOMAIN text.items |-> TupleElement(text.items[i])])
    ELSE IF ParseJson(text) = {} THEN JString(text)
    ELSE CHOOSE tree \in ParseJson(text) : TRUE

CompareTuple(text, op, literal) ==
    IF ~Searchable(op, literal) THEN Err
    ELSE IF op # "Contains" THEN CompareEqual(text = literal.text, op)
    ELSE IF text.form # "tuple" THEN Err
    ELSE {CheckJsonValueMatchesStr(TupleElement(text), literal.text)}

CompareFinalValues(kind, text, op, literal) ==
    CASE kind \in SignedKinds   -> CompareI256(text, op, literal)
      [] kind \in UnsignedKinds -> CompareU256(text, op, literal)
      [] kind \in ArrayKinds    -> CompareArray(text, op, literal)
      [] kind = "address"       -> CompareAddress(text, op, literal)
      [] kind \in StringKinds   -> CompareString(text, op, literal)
      [] kind = "bool"          -> CompareBoolean(text, op, literal)
      [] kind = "tuple"         -> CompareTuple(text, op, literal)
      [] OTHER                  -> Err
=============================================================================
