-------------------------- MODULE StellarEvaluator --------------------------
(***************************************************************************)
(* StellarConditionEvaluator.  Numbers compare only with number literals,  *)
(* the widest integers as strings, vectors as JSON arrays or as lists.     *)
(***************************************************************************)
EXTENDS Values

\* The kinds after "Map<K,V>" has lost its parameters and its capitals.
GetKindFromValue(tree) ==
    CASE tree.json = "number" /\ tree.n >= 0 -> "u64"
      [] tree.json = "number" /\ tree.n < 0  -> "i64"
      [] tree.json = "string" -> IF tree.text.form = "address" THEN "address" ELSE "string"
      [] tree.json = "array"  -> "vec"
      [] tree.json = "object" -> "map"
      [] OTHER                -> tree.json

CompareBoolean(text, op, literal) ==
    IF text.form # "bool" \/ literal.type # "Bool" THEN Err
    ELSE CompareEqual(text.b = literal.b, op)

ParseNumeric(text, range) == IF text.form = "dec" THEN {text.n} \intersect range ELSE {}

CompareNumeric(text, op, literal, range) ==
    IF literal.type # "Number" THEN Err
    ELSE UNION {CompareOrdered(l, op, r) : l \in ParseNumeric(text, range),
                                           r \in ParseNumeric(literal.text, range)}

CompareLargeIntAsString(text, op, literal) ==
    IF literal.type = "Bool" THEN Err ELSE CompareEqual(text = literal.text, op)

CompareString(text, op, literal) ==
    IF literal.type # "Str" THEN Err
    ELSE LET left  == Lower(text)
             right == Lower(literal.text)
         IN  CASE op = "StartsWith" -> {HasPrefix(left, right)}
               [] op = "EndsWith"   -> {HasSuffix(left, right)}
               [] op = "Contains"   -> {HasInfix(left, right)}
               [] OTHER             -> CompareEqual(left = right, op)

\* Only strings ignore case; of an object, the field "value" counts.
CheckJsonValueMatchesStr(tree, target) ==
    CASE tree.json = "string" -> Lower(tree.text) = Lower(target)
      [] tree.json = "object" ->
             /\ "value" \in DOMAIN tree.fields
             /\ TextOf(tree.fields["value"]) = target
      [] OTHER -> TextOf(tree) = target

\* Two texts that are not JSON compare as lists of words.
EqualVectors(text, target) ==
    LET left  == ParseJson(text)
        right == ParseJson(target)
        isArray(trees) == \E t \in trees : t.json = "array"
    IN  IF left # {} /\ right # {} /\ (isArray(left) \/ isArray(right))
        THEN left = right
        ELSE (left = {} <=> right = {}) /\ Lower(text) = Lower(target)

VectorHas(text, target) ==
    LET arrays == {t \in ParseJson(text) : t.json = "array"}
    IN  IF text.form = "listed" THEN \E item \in Items(text.tree) : TextOf(item) = target
        ELSE IF arrays = {} THEN text = target
        ELSE \E item \in UNION {Items(t) : t \in arrays} :
                 IF item.json = "object"
                 THEN \E field \in Items(item) : CheckJsonValueMatchesStr(field, target)
                 ELSE CheckJsonValueMatchesStr(item, target)

CompareVec(text, op, literal) ==
    IF literal.type = "Bool" THEN Err
    ELSE IF op = "Contains" THEN {VectorHas(text, literal.text)}
    ELSE CompareEqual(EqualVectors(text, literal.text), op)

CompareMap(text, op, literal) ==
    IF \/ literal.type = "Bool"
       \/ (literal.type = "Number" /\ op # "Contains")
       \/ op \notin {"Eq", "Ne", "Contains"}
    THEN Err
    ELSE LET left  == {t \in ParseJson(text) : t.json = "object"}
             right == {t \in ParseJson(literal.text) : t.json = "object"}
         IN  IF op = "Contains"
             THEN {\E field \in Items(t) : CheckJsonValueMatchesStr(field, literal.text) : t \in left}
             ELSE UNION {CompareEqual(t = u, op) : t \in left, u \in right}

CompareFinalValues(kind, text, op, literal) ==
    CASE kind = "bool" -> CompareBoolean(text, op, literal)
      [] kind \in {"u32", "u64", "timepoint", "duration", "u128"} ->
             CompareNumeric(text, op, literal, Unsigned)
      [] kind \in {"i32", "i64", "i128"} -> CompareNumeric(text, op, literal, Signed)
      [] kind \in {"u256", "i256"} -> CompareLargeIntAsString(text, op, literal)
      [] kind \in {"string", "symbol", "address", "bytes"} -> CompareString(text, op, literal)
      [] kind = "vec" -> CompareVec(text, op, literal)
      [] kind = "map" -> CompareMap(text, op, literal)
      [] OTHER        -> Err

(***************************************************************************)
(* combine_i128 and combine_i256: the number that the parts of a wide      *)
(* integer stand for.  The high part is signed; here each part has half of *)
(* the bits.                                                               *)
(***************************************************************************)
Half == 2^(WordBits \div 2)
Raw(high, low) == (high % Half) * Half + low

CombineI128(high, low) == FromRaw(Raw(high, low))

CombineI256(high, low) ==
    IF high < 0
    THEN FromRaw((-FromRaw(Raw(high, low))) % 2^WordBits)
    ELSE FromRaw(Raw(high, low))
=============================================================================
