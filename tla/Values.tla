------------------------------- MODULE Values -------------------------------
(***************************************************************************)
(* The values that filter expressions compare.  Every argument of a        *)
(* transaction, function or event is a text with a kind; what matters of a *)
(* text is which parsers accept it and what they make of it.  A word is a  *)
(* sequence of syllables in one case, an address a word the chain's        *)
(* address parser accepts, and JSON texts hold the tree they parse to.     *)
(* The outcome of a comparison is the set of its answer, or the empty set  *)
(* when the code returns an EvaluationError.                               *)
(***************************************************************************)
EXTENDS Integers, SequencesExt, TLC

CONSTANT WordBits     \* the width of the widest integers, 256 in the code

ASSUME WordBitsAssumption == WordBits \in Nat \ {0, 1}

Err == {}

(***************************************************************************)
(* Texts.                                                                  *)
(***************************************************************************)
Word(letters, caps) == [form |-> "word", letters |-> letters, caps |-> caps]
Address(a, caps)    == [form |-> "address", letters |-> <<a>>, caps |-> caps]
Dec(n)              == [form |-> "dec", n |-> n]
Hex(n)              == [form |-> "hex", n |-> n]
Bool(b)             == [form |-> "bool", b |-> b]
Json(tree)          == [form |-> "json", tree |-> tree]
Tuple(items)        == [form |-> "tuple", items |-> items]
Listed(tree)        == [form |-> "listed", tree |-> tree]    \* printed without quotes, which is no JSON

Lower(text) ==
    IF text.form \in {"word", "address"} THEN [text EXCEPT !.caps = FALSE] ELSE text

\* The syllables of a text; one that is not a word has only itself to offer.
Syllables(text) ==
    IF text.form \in {"word", "address"} THEN text.letters ELSE <<ToString(text)>>

SameCase(t, u) ==
    \/ t.form \notin {"word", "address"}
    \/ u.form \notin {"word", "address"}
    \/ t.caps = u.caps

HasPrefix(t, u) == SameCase(t, u) /\ IsPrefix(Syllables(u), Syllables(t))
HasSuffix(t, u) == SameCase(t, u) /\ IsSuffix(Syllables(u), Syllables(t))
HasInfix(t, u) ==
    /\ SameCase(t, u)
    /\ \E i \in 0..Len(Syllables(t)) :
           IsPrefix(Syllables(u), SubSeq(Syllables(t), i + 1, Len(Syllables(t))))

(***************************************************************************)
(* JSON trees.                                                             *)
(***************************************************************************)
JNumber(n)      == [json |-> "number", n |-> n]
JBool(b)        == [json |-> "bool", b |-> b]
JString(text)   == [json |-> "string", text |-> text]
JArray(items)   == [json |-> "array", items |-> items]
JObject(fields) == [json |-> "object", fields |-> fields]

\* serde_json::from_str: the tree of a text, or nothing.
ParseJson(text) ==
    CASE text.form = "dec"  -> {JNumber(text.n)}
      [] text.form = "bool" -> {JBool(text.b)}
      [] text.form = "json" -> {text.tree}
      [] OTHER              -> {}

\* The text that evaluate makes of a resolved tree.
TextOf(tree) ==
    CASE tree.json = "string" -> tree.text
      [] tree.json = "number" -> Dec(tree.n)
      [] tree.json = "bool"   -> Bool(tree.b)
      [] OTHER                -> Json(tree)

Items(tree) ==
    CASE tree.json = "array"  -> ToSet(tree.items)
      [] tree.json = "object" -> {tree.fields[k] : k \in DOMAIN tree.fields}
      [] OTHER                -> {}

RECURSIVE LowerTree(_)
LowerTree(tree) ==
    CASE tree.json = "string" -> JString(Lower(tree.text))
      [] tree.json = "array"  -> JArray([i \in DOMAIN tree.items |-> LowerTree(tree.items[i])])
      [] tree.json = "object" -> JObject([k \in DOMAIN tree.fields |-> LowerTree(tree.fields[k])])
      [] OTHER                -> tree

(***************************************************************************)
(* Comparisons.                                                            *)
(***************************************************************************)
\* Eq and Ne; every other operator is unsupported.
CompareEqual(equal, op) ==
    CASE op = "Eq" -> {equal}
      [] op = "Ne" -> {~equal}
      [] OTHER     -> Err

\* Mutant: at most is taken for less than.
CompareOrderedStrictly(left, op, right) ==
    CASE op = "Gt"  -> {left > right}
      [] op = "Gte" -> {left >= right}
      [] op \in {"Lt", "Lte"} -> {left < right}
      [] OTHER      -> CompareEqual(left = right, op)

CompareOrdered(left, op, right) ==
    CASE op = "Gt"  -> {left > right}
      [] op = "Gte" -> {left >= right}
      [] op = "Lt"  -> {left < right}
      [] op = "Lte" -> {left <= right}
      [] OTHER      -> CompareEqual(left = right, op)

Unsigned == 0 .. 2^WordBits - 1
Signed   == -(2^(WordBits - 1)) .. 2^(WordBits - 1) - 1

\* I256::from_raw: the same bits read as a two's complement number.
FromRaw(n) == IF n \in Signed THEN n ELSE n - 2^WordBits
=============================================================================
