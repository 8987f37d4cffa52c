--------------------------- MODULE SequenceLemmas ---------------------------
(***************************************************************************)
(* Facts about numbers, ranges and appends that the proofs about the other *)
(* modules cite.                                                           *)
(***************************************************************************)
EXTENDS Integers, Sequences, Functions, SequenceTheorems, WellFoundedInduction, TLAPS

\* A set of numbers that is not empty has a smallest one.
LEMMA SmallestExists ==
    ASSUME NEW S, S \subseteq Nat, S # {}
    PROVE  \E n \in S : \A m \in S : n <= m
<1> DEFINE Below == {pair \in Nat \X Nat : pair[1] < pair[2]}
<1>1. Below = OpToRel(<, Nat)
    BY Zenon DEF OpToRel
<1>2. PICK n \in S : \A m \in S : ~ (<<m, n>> \in Below)
    BY <1>1, NatLessThanWellFounded, WFMin, ZenonT(40)
<1>3. \A m \in S : ~ (m < n)
    BY <1>2
<1> QED BY <1>3

\* A sequence and its range.
LEMMA RangeElements ==
    ASSUME NEW S, NEW s \in Seq(S)
    PROVE  /\ DOMAIN s = 1 .. Len(s)
           /\ Len(s) \in Nat
           /\ \A i \in 1 .. Len(s) : s[i] \in Range(s)
           /\ \A x \in Range(s) : \E i \in 1 .. Len(s) : x = s[i]
           /\ Range(s) \subseteq S
<1>1. DOMAIN s = 1 .. Len(s) /\ Len(s) \in Nat
    BY LenProperties
<1>2. \A i \in 1 .. Len(s) : s[i] \in S
    BY ElementOfSeq
<1>3. \A x \in Range(s) : \E i \in 1 .. Len(s) : x = s[i]
    BY <1>1 DEF Range
<1>4. \A i \in 1 .. Len(s) : s[i] \in Range(s)
    BY <1>1 DEF Range
<1> QED BY <1>1, <1>2, <1>3, <1>4

\* A sequence over a set is one over any larger set.
LEMMA SeqOfSuperset ==
    ASSUME NEW S, NEW T, S \subseteq T, NEW s \in Seq(S)
    PROVE  s \in Seq(T)
BY SeqDef

\* Appending an element adds it to the range, and nothing else.
LEMMA RangeOfAppend ==
    ASSUME NEW S, NEW s \in Seq(S), NEW e \in S
    PROVE  Range(Append(s, e)) = Range(s) \cup {e}
<1> DEFINE t == Append(s, e)
<1>1. /\ t \in Seq(S) /\ Len(t) = Len(s) + 1 /\ t[Len(s) + 1] = e
      /\ \A i \in 1 .. Len(s) : t[i] = s[i]
    BY AppendProperties
<1>2. /\ Len(s) \in Nat
      /\ \A i \in 1 .. Len(s) : s[i] \in Range(s)
      /\ \A x \in Range(s) : \E i \in 1 .. Len(s) : x = s[i]
    BY RangeElements
<1>3. /\ \A i \in 1 .. Len(t) : t[i] \in Range(t)
      /\ \A x \in Range(t) : \E i \in 1 .. Len(t) : x = t[i]
    BY <1>1, RangeElements
<1> HIDE DEF t
<1>4. ASSUME NEW x \in Range(t)
      PROVE  x \in Range(s) \cup {e}
    BY <1>1, <1>2, <1>3
<1>5. ASSUME NEW x \in Range(s) \cup {e}
      PROVE  x \in Range(t)
    BY <1>1, <1>2, <1>3
<1> QED BY <1>4, <1>5 DEF t

\* Appending a new element keeps a sequence injective.
LEMMA InjectiveAppend ==
    ASSUME NEW S, NEW s \in Seq(S), NEW e \in S, IsInjective(s), e \notin Range(s)
    PROVE  IsInjective(Append(s, e))
<1> DEFINE t == Append(s, e)
<1>1. /\ t \in Seq(S) /\ Len(t) = Len(s) + 1 /\ t[Len(s) + 1] = e
      /\ \A i \in 1 .. Len(s) : t[i] = s[i]
    BY AppendProperties
<1>2. Len(s) \in Nat /\ DOMAIN s = 1 .. Len(s) /\ DOMAIN t = 1 .. Len(s) + 1
    BY <1>1, LenProperties
<1>3. \A i \in 1 .. Len(s) : s[i] # e
    BY <1>2 DEF Range
<1> HIDE DEF t
<1>4. \A a, b \in 1 .. Len(s) + 1 : t[a] = t[b] => a = b
    <2> SUFFICES ASSUME NEW a \in 1 .. Len(s) + 1, NEW b \in 1 .. Len(s) + 1, t[a] = t[b]
                 PROVE  a = b
        OBVIOUS
    <2>1. CASE a \in 1 .. Len(s) /\ b \in 1 .. Len(s)
        BY <2>1, <1>1, <1>2 DEF IsInjective
    <2>2. CASE a = Len(s) + 1 /\ b \in 1 .. Len(s)
        BY <2>2, <1>1, <1>3
    <2>3. CASE b = Len(s) + 1 /\ a \in 1 .. Len(s)
        BY <2>3, <1>1, <1>3
    <2>4. CASE a = Len(s) + 1 /\ b = Len(s) + 1
        BY <2>4
    <2> QED BY <2>1, <2>2, <2>3, <2>4, <1>2
<1> QED BY <1>2, <1>4 DEF IsInjective, t

\* Appending an element above all others keeps a sequence ascending.
LEMMA AscendingAppend ==
    ASSUME NEW s \in Seq(Nat), NEW e \in Nat,
           \A i, j \in 1 .. Len(s) : i < j => s[i] < s[j],
           \A m \in Range(s) : m < e
    PROVE  \A i, j \in 1 .. Len(Append(s, e)) : i < j => Append(s, e)[i] < Append(s, e)[j]
<1> DEFINE t == Append(s, e)
<1>1. /\ Len(t) = Len(s) + 1 /\ t[Len(s) + 1] = e
      /\ \A i \in 1 .. Len(s) : t[i] = s[i]
    BY AppendProperties
<1>2. Len(s) \in Nat /\ \A i \in 1 .. Len(s) : s[i] \in Range(s)
    BY RangeElements
<1> HIDE DEF t
<1>3. \A i, j \in 1 .. Len(t) : i < j => t[i] < t[j]
    <2> SUFFICES ASSUME NEW i \in 1 .. Len(t), NEW j \in 1 .. Len(t), i < j
                 PROVE  t[i] < t[j]
        OBVIOUS
    <2>1. i \in 1 .. Len(s) /\ t[i] = s[i]
        BY <1>1, <1>2
    <2>2. CASE j \in 1 .. Len(s)
        BY <2>1, <2>2, <1>1
    <2>3. CASE j = Len(s) + 1
        BY <2>1, <2>3, <1>1, <1>2
    <2> QED BY <2>2, <2>3, <1>1, <1>2
<1> QED BY <1>3 DEF t
=============================================================================
