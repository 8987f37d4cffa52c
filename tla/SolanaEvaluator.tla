--------------------------- MODULE SolanaEvaluator ---------------------------
(***************************************************************************)
(* SolanaConditionEvaluator.  Strings compare exactly and know only        *)
(* equality and containment; a kind it does not know is a string.          *)
(***************************************************************************)
EXTENDS Values

GetKindFromJsonValue(tree) ==
    CASE tree.json = "number" -> "i64"
      [] tree.json = "array"  -> "vec"
      [] OTHER                -> tree.json

ParseInteger(text, range) == IF text.form = "dec" THEN {text.n} \intersect range ELSE {}

CompareInteger(text, op, literal, range) ==
    IF literal.type = "Bool" THEN Err
    ELSE UNION {CompareOrdered(l, op, r) : l \in ParseInteger(text, range),
                                           r \in ParseInteger(literal.text, range)}

CompareString(text, op, literal) ==
    IF literal.type = "Bool" THEN Err
    ELSE IF op = "Contains" THEN {HasInfix(text, literal.text)}
    ELSE CompareEqual(text = literal.text, op)

\* The word "true" is a boolean literal too.
CompareBool(text, op, literal) ==
    LET right == CASE literal.type = "Bool" -> {literal.b}
                   [] literal.type = "Str" /\ literal.text.form = "bool" -> {literal.text.b}
                   [] OTHER -> {}
    IN  IF text.form # "bool" THEN Err
        ELSE UNION {CompareEqual(text.b = b, op) : b \in right}

CompareFinalValues(kind, text, op, literal) ==
    CASE kind \in {"u8", "u16", "u32", "u64", "u128"} ->
             CompareInteger(text, op, literal, Unsigned)
      [] kind \in {"i8", "i16", "i32", "i64", "i128"} ->
             CompareInteger(text, op, literal, Signed)
      [] kind = "bool" -> CompareBool(text, op, literal)
      [] OTHER -> CompareString(text, op, literal)
=============================================================================
