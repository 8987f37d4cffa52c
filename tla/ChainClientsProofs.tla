------------------------- MODULE ChainClientsProofs --------------------------
(***************************************************************************)
(* Proofs about ChainClients: for every history of a chain, every set of   *)
(* calls, page size and limit of signatures, however the nodes answer and  *)
(* however their chain grows meanwhile.                                    *)
(***************************************************************************)
EXTENDS ChainClients, SequenceLemmas, FiniteSetTheorems

-----------------------------------------------------------------------------
(* The inductive invariant.                                                *)

Labels == Stopped \cup {"joining", "paging", "waiting", "listing", "fetching",
                        "signatures", "transactions"}

\* A call holds positions of its chain.
ClientTypes ==
    /\ call \in Calls
    /\ head \in Nat
    /\ pc \in Labels
    /\ answer \in Seq(Positions(call))
    /\ excused \subseteq Positions(call)

\* A call is where its chain and method take it; until a list is joined nothing is collected.
LabelsOK ==
    /\ pc = "joining" => call.chain \in {"EVM", "Midnight"} /\ answer = <<>>
    /\ pc \in {"paging", "waiting"} => call.chain = "Stellar" /\ call.from <= Target(call)
    /\ pc \in {"listing", "fetching"} =>
          call.chain = "Solana" /\ Method(call) = "blocks" /\ call.from <= Target(call)
    /\ pc = "listing" => answer = <<>>
    /\ pc \in {"signatures", "transactions"} => Method(call) = "signatures" /\ answer = <<>>

\* What the nodes do not serve yet was not served when the call started.
UnservedIsExcused ==
    pc # "idle" => \A i \in Expected : At(i) > head => i \in excused

\* Up to the cursor, pages have brought all that is in the range.
PagesOK ==
    pc \in {"paging", "waiting"} =>
        \/ locals.cursor = {} /\ answer = <<>>
        \/ \E k \in 0 .. Len(Chain(call)) :
              /\ locals.cursor = {k}
              /\ Upto(call.from - 1) <= k /\ k <= Upto(head)
              /\ Range(answer) = {i \in Wanted(call) : i <= k}
              /\ call.method = "blocks" => k \in Positions(call) /\ At(k) > call.from

\* A slot of the range is fetched, to fetch, or not served; those to fetch come later.
SlotsOK ==
    pc = "fetching" =>
        /\ locals.slots \subseteq call.from .. Target(call)
        /\ \A i \in Range(answer) : \A slot \in locals.slots : At(i) < slot
        /\ \A i \in Wanted(call) \ excused : i \in Range(answer) \/ At(i) \in locals.slots

\* The addresses whose newest page is still to come.
ToAsk == locals.addresses \cup IF locals.until = {} THEN {locals.address} ELSE {}

\* A signature is known once an address in it has been asked.
SignaturesOK ==
    pc = "signatures" =>
        /\ locals \in [address : Addresses(call), addresses : SUBSET Addresses(call),
                       until : SUBSET Positions(call), count : Nat, signatures : SUBSET Expected]
        /\ ~ExceedsPage => \A i \in Expected \ excused :
              i \in locals.signatures \/ Chain(call)[i].involves \cap ToAsk # {}

\* A transaction is fetched, to fetch, or dropped.
TransactionsOK ==
    pc = "transactions" =>
        /\ locals \in [wanted : SUBSET Expected, got : SUBSET Expected]
        /\ ~ExceedsPage => Expected \ excused \subseteq locals.wanted \cup locals.got

IInv ==
    /\ ClientTypes
    /\ LabelsOK
    /\ UnservedIsExcused
    /\ PagesOK
    /\ SlotsOK
    /\ SignaturesOK
    /\ TransactionsOK
    /\ AnswersAreOrdered
    /\ AnswersAreComplete

-----------------------------------------------------------------------------
(* Positions in their order.                                               *)

\* A finite set of positions can be put in order.
LEMMA OrderExists ==
    ASSUME NEW n \in Nat, NEW S, S \subseteq 1 .. n
    PROVE  \E s \in Seq(S) :
              /\ Range(s) = S
              /\ \A i, j \in 1 .. Len(s) : i < j => s[i] < s[j]
<1> DEFINE Upper(k) == S \cap 1 .. k
           Ordered(k) == \E s \in Seq(Upper(k)) :
                            /\ Range(s) = Upper(k)
                            /\ \A i, j \in 1 .. Len(s) : i < j => s[i] < s[j]
           Unordered == {k \in 0 .. n : ~Ordered(k)}
<1>1. SUFFICES Unordered = {}
    <2>1. Ordered(n)
        <3>1. n \in 0 .. n
            OBVIOUS
        <3> HIDE DEF Ordered
        <3> QED BY <3>1, <1>1
    <2>2. Upper(n) = S
        OBVIOUS
    <2> QED BY <2>1, <2>2
<1>2. SUFFICES ASSUME Unordered # {}
               PROVE  FALSE
    OBVIOUS
<1>3. PICK k \in Unordered : \A m \in Unordered : k <= m
    <2>1. Unordered \subseteq Nat
        OBVIOUS
    <2> HIDE DEF Unordered
    <2> QED BY <1>2, <2>1, SmallestExists
<1>4. k \in 0 .. n /\ ~Ordered(k)
    BY <1>3
<1>5. Ordered(0)
    <2>1. Upper(0) = {}
        OBVIOUS
    <2>2. <<>> \in Seq(Upper(0)) /\ Len(<<>>) = 0 /\ Range(<<>>) = {}
        BY EmptySeq DEF Range
    <2> HIDE DEF Upper
    <2>3. \A i, j \in 1 .. Len(<<>>) : i < j => <<>>[i] < <<>>[j]
        BY <2>2
    <2> QED BY <2>1, <2>2, <2>3, Zenon
<1>6. k # 0
    BY <1>4, <1>5
<1>7. k - 1 \in 0 .. n /\ Ordered(k - 1)
    <2>1. k - 1 \in 0 .. n /\ ~(k <= k - 1)
        BY <1>4, <1>6
    <2>2. k - 1 \notin Unordered
        BY <1>3, <2>1
    <2> HIDE DEF Ordered
    <2> QED BY <2>1, <2>2
<1>8. PICK s \in Seq(Upper(k - 1)) :
          /\ Range(s) = Upper(k - 1)
          /\ \A i, j \in 1 .. Len(s) : i < j => s[i] < s[j]
    BY <1>7
<1>9. CASE k \notin S
    <2>1. Upper(k) = Upper(k - 1)
        BY <1>4, <1>6, <1>9
    <2> HIDE DEF Upper
    <2> QED BY <2>1, <1>4, <1>7
<1>10. CASE k \in S
    <2>1. /\ Upper(k) = Upper(k - 1) \cup {k}
          /\ Upper(k - 1) \subseteq Upper(k) /\ k \in Upper(k)
          /\ Upper(k - 1) \subseteq Nat /\ k \in Nat /\ \A m \in Upper(k - 1) : m < k
        BY <1>4, <1>6, <1>10
    <2> HIDE DEF Upper
    <2>2. s \in Seq(Upper(k)) /\ s \in Seq(Nat)
        BY <2>1, <1>8, SeqOfSuperset
    <2>3. Append(s, k) \in Seq(Upper(k)) /\ Range(Append(s, k)) = Upper(k)
        <3>1. Range(Append(s, k)) = Range(s) \cup {k}
            BY <2>1, <2>2, RangeOfAppend
        <3>2. Append(s, k) \in Seq(Upper(k))
            BY <2>1, <2>2, AppendProperties
        <3> QED BY <3>1, <3>2, <2>1, <1>8
    <2>4. \A i, j \in 1 .. Len(Append(s, k)) : i < j => Append(s, k)[i] < Append(s, k)[j]
        BY <2>1, <2>2, <1>8, AscendingAppend
    <2>5. Ordered(k)
        BY <2>3, <2>4
    <2> QED BY <2>5, <1>4
<1> QED BY <1>9, <1>10

\* The numbers up to k are k numbers.
LEMMA UpToCardinality ==
    ASSUME NEW k \in Nat
    PROVE  IsFiniteSet(1 .. k) /\ Cardinality(1 .. k) = k
<1>1. IsFiniteSet(1 .. k) /\ Cardinality(1 .. k) = IF 1 > k THEN 0 ELSE k - 1 + 1
    BY FS_Interval
<1> QED BY <1>1

\* What Ascending returns (the results in the order of their requests).
LEMMA AscendingFacts ==
    ASSUME NEW n \in Nat, NEW S, S \subseteq 1 .. n
    PROVE  /\ Ascending(S) \in Seq(S)
           /\ Range(Ascending(S)) = S
           /\ \A i, j \in 1 .. Len(Ascending(S)) : i < j => Ascending(S)[i] < Ascending(S)[j]
<1> DEFINE c == Cardinality(S)
           t == Ascending(S)
<1>1. IsFiniteSet(S)
    <2>1. IsFiniteSet(1 .. n)
        BY FS_Interval
    <2> QED BY <2>1, FS_Subset
<1>2. c \in Nat
    BY <1>1, FS_CardinalityType
<1>3. PICK s \in Seq(S) : /\ Range(s) = S
                          /\ \A i, j \in 1 .. Len(s) : i < j => s[i] < s[j]
    BY OrderExists
<1>4. Len(s) \in Nat /\ s \in [1 .. Len(s) -> S]
    BY LenProperties
<1>5. \A i, j \in 1 .. Len(s) : s[i] = s[j] => i = j
    <2> SUFFICES ASSUME NEW i \in 1 .. Len(s), NEW j \in 1 .. Len(s), i # j
                 PROVE  s[i] # s[j]
        OBVIOUS
    <2>1. i < j \/ j < i
        BY <1>4
    <2>2. s[i] \in 1 .. n /\ s[j] \in 1 .. n
        BY <1>4
    <2> QED BY <2>1, <2>2, <1>3
<1>6. c = Len(s)
    <2>1. s \in Bijection(1 .. Len(s), S)
        <3>1. \A x \in S : \E i \in 1 .. Len(s) : s[i] = x
            BY <1>3, <1>4, RangeElements
        <3> QED BY <3>1, <1>4, <1>5 DEF Bijection, Injection, Surjection, IsInjective
    <2>2. IsFiniteSet(1 .. Len(s)) /\ Cardinality(1 .. Len(s)) = Len(s)
        BY <1>4, UpToCardinality
    <2>3. ExistsBijection(1 .. Len(s), S)
        BY <2>1 DEF ExistsBijection
    <2> QED BY <2>2, <2>3, FS_Bijection
<1>7. t \in [1 .. c -> S] /\ \A i, j \in 1 .. c : i < j => t[i] < t[j]
    <2> HIDE DEF c
    <2>1. s \in [1 .. c -> S] /\ \A i, j \in 1 .. c : i < j => s[i] < s[j]
        BY <1>3, <1>4, <1>6
    <2> QED BY <2>1 DEF Ascending, c
<1> HIDE DEF c, t
<1>8. t \in Seq(S) /\ Len(t) = c
    BY <1>2, <1>7
<1>9. Range(t) = S
    <2>1. \A i, j \in 1 .. c : t[i] = t[j] => i = j
        <3> SUFFICES ASSUME NEW i \in 1 .. c, NEW j \in 1 .. c, i # j
                     PROVE  t[i] # t[j]
            OBVIOUS
        <3>1. i < j \/ j < i
            BY <1>2
        <3>2. t[i] \in 1 .. n /\ t[j] \in 1 .. n
            BY <1>7
        <3> QED BY <3>1, <3>2, <1>7
    <2>2. t \in Injection(1 .. c, S)
        BY <1>7, <2>1 DEF Injection, IsInjective
    <2>3. Cardinality(1 .. c) = c
        BY <1>2, UpToCardinality
    <2>4. t \in Surjection(1 .. c, S)
        BY <2>2, <2>3, <1>1, FS_Injection DEF c
    <2> QED BY <2>4, <1>7 DEF Surjection, Range
<1> QED BY <1>7, <1>8, <1>9 DEF t

-----------------------------------------------------------------------------
(* The chain of a call.                                                    *)

Histories == {"blocks", "transactions", "events", "slots", "signatures"}

\* Which history a call reads.
LEMMA MethodFacts ==
    ASSUME NEW c \in Calls
    PROVE  /\ \E m \in Histories :
                 /\ Chain(c) = History[m]
                 /\ m = "events" => c.method = "events"
                 /\ c.chain = "Stellar" /\ c.method = "blocks" => m = "blocks"
                 /\ c.chain = "Solana" /\ Method(c) = "blocks" => m = "slots"
           /\ Method(c) = "signatures" <=> c.chain = "Solana" /\ Addresses(c) # {}
           /\ c.chain = "Solana" => c.method = "blocks" /\ Method(c) \in {"blocks", "signatures"}
<1>1. \/ c.chain = "EVM" /\ c.method = "blocks"
      \/ c.chain = "Midnight" /\ c.method \in {"blocks", "events"}
      \/ c.chain = "Stellar" /\ c.method \in {"blocks", "transactions", "events"}
      \/ c.chain = "Solana" /\ c.method = "blocks"
    BY CallsAssumption
<1> QED BY <1>1 DEF Chain, Method, Histories

\* The numbers of a call.
LEMMA RangeFacts ==
    ASSUME NEW c \in Calls
    PROVE  c.from \in Nat /\ Target(c) \in Nat
<1>1. c.from \in Nat /\ c.to \subseteq Nat
    BY CallsAssumption
<1>2. c.to # {} => (CHOOSE n \in c.to : TRUE) \in c.to
    OBVIOUS
<1> QED BY <1>1, <1>2 DEF Target

\* Positions are numbers from 1, and heights ascend with them.
LEMMA ChainFacts ==
    ASSUME call \in Calls
    PROVE  /\ Len(Chain(call)) \in Nat
           /\ Positions(call) = 1 .. Len(Chain(call))
           /\ \A i \in Positions(call) : At(i) \in Nat
           /\ \A i, j \in Positions(call) : i < j => At(i) <= At(j)
           /\ \A i, j \in Positions(call) : At(i) < At(j) => i < j
           /\ call.method # "events" => \A i \in Positions(call) : Chain(call)[i].id # 0
           /\ \/ call.chain = "Stellar" /\ call.method = "blocks"
              \/ call.chain = "Solana" /\ Method(call) = "blocks"
              => \A i, j \in Positions(call) : i # j => At(i) # At(j)
<1>1. PICK m \in Histories :
          /\ Chain(call) = History[m]
          /\ m = "events" => call.method = "events"
          /\ call.chain = "Stellar" /\ call.method = "blocks" => m = "blocks"
          /\ call.chain = "Solana" /\ Method(call) = "blocks" => m = "slots"
    BY MethodFacts
<1> DEFINE H == Chain(call)
<1>2. /\ H \in Seq(Range(H))
      /\ \A i \in DOMAIN H :
            /\ H[i].at \in Nat
            /\ m # "events" => H[i].id # 0
            /\ \A j \in DOMAIN H : i < j =>
                  /\ H[i].at <= H[j].at
                  /\ m \in {"blocks", "slots"} => H[i].at # H[j].at
    BY <1>1, HistoryAssumption DEF Histories
<1>3. Len(H) \in Nat /\ DOMAIN H = 1 .. Len(H)
    BY <1>2, LenProperties
<1>4. Positions(call) = DOMAIN H /\ \A i : At(i) = H[i].at
    BY DEF Positions, At
<1> HIDE DEF H
<1>5. /\ \A i \in DOMAIN H : At(i) \in Nat
      /\ \A i, j \in DOMAIN H : i < j => At(i) <= At(j)
    BY <1>2, <1>4
<1>6. \A i, j \in DOMAIN H : At(i) < At(j) => i < j
    <2> SUFFICES ASSUME NEW i \in DOMAIN H, NEW j \in DOMAIN H, At(i) < At(j), ~(i < j)
                 PROVE  FALSE
        OBVIOUS
    <2>1. i = j \/ j < i
        BY <1>3
    <2>2. At(j) <= At(i) /\ At(i) \in Nat /\ At(j) \in Nat
        BY <2>1, <1>5
    <2> QED BY <2>2
<1>7. call.method # "events" => \A i \in DOMAIN H : H[i].id # 0
    BY <1>1, <1>2
<1>8. m \in {"blocks", "slots"} => \A i, j \in DOMAIN H : i # j => At(i) # At(j)
    <2> SUFFICES ASSUME m \in {"blocks", "slots"},
                        NEW i \in DOMAIN H, NEW j \in DOMAIN H, i # j
                 PROVE  At(i) # At(j)
        OBVIOUS
    <2>1. i < j \/ j < i
        BY <1>3
    <2> QED BY <2>1, <1>2, <1>4
<1> QED BY <1>1, <1>3, <1>4, <1>5, <1>6, <1>7, <1>8 DEF H

\* What is wanted, what is expected and what is served are positions.
LEMMA WantedFacts ==
    ASSUME call \in Calls
    PROVE  /\ Wanted(call) \subseteq Positions(call)
           /\ Expected \subseteq Wanted(call)
           /\ Served \subseteq Positions(call)
           /\ \A i \in Positions(call) :
                 i \in Wanted(call) <=>
                    call.from <= At(i) /\ At(i) <= Target(call) /\ Chain(call)[i].id # 0
           /\ Method(call) # "signatures" => Expected = Wanted(call)
BY DEF Wanted, Expected, Served, InRange, At

\* A height divides the chain.
LEMMA UptoFacts ==
    ASSUME call \in Calls, NEW h \in Int
    PROVE  /\ Upto(h) \in 0 .. Len(Chain(call))
           /\ \A i \in Positions(call) : At(i) <= h <=> i <= Upto(h)
<1> DEFINE l == Len(Chain(call))
           Divides(n) == \A i \in Positions(call) : At(i) <= h <=> i <= n
           Above == {i \in Positions(call) : At(i) > h}
<1>1. /\ l \in Nat /\ Positions(call) = 1 .. l
      /\ \A i \in Positions(call) : At(i) \in Nat
      /\ \A i, j \in Positions(call) : i < j => At(i) <= At(j)
    BY ChainFacts
<1>2. \E n \in 0 .. l : Divides(n)
    <2>1. CASE Above = {}
        <3>1. Divides(l)
            BY <2>1, <1>1
        <3> QED BY <3>1, <1>1
    <2>2. CASE Above # {}
        <3>1. Above \subseteq Nat
            BY <1>1
        <3>2. PICK p \in Above : \A q \in Above : p <= q
            <4> HIDE DEF Above
            <4> QED BY <2>2, <3>1, SmallestExists
        <3>3. p \in Positions(call) /\ At(p) > h /\ p - 1 \in 0 .. l
            BY <3>2, <1>1
        <3>4. ASSUME NEW i \in Positions(call)
              PROVE  At(i) <= h <=> i <= p - 1
            <4>1. CASE i < p
                BY <4>1, <3>2, <3>3, <1>1
            <4>2. CASE ~(i < p)
                <5>1. At(p) <= At(i)
                    BY <4>2, <3>3, <1>1
                <5> QED BY <4>2, <5>1, <3>3, <1>1
            <4> QED BY <4>1, <4>2
        <3> QED BY <3>3, <3>4
    <2> QED BY <2>1, <2>2
<1>3. Upto(h) = CHOOSE n \in 0 .. l : Divides(n)
    BY DEF Upto
<1> HIDE DEF l, Divides
<1>4. Upto(h) \in 0 .. l /\ Divides(Upto(h))
    BY <1>2, <1>3
<1> QED BY <1>4 DEF l, Divides

\* A higher head serves no less.
LEMMA UptoMonotone ==
    ASSUME call \in Calls, NEW h \in Int, NEW g \in Int, h <= g
    PROVE  Upto(h) <= Upto(g)
<1>1. Upto(h) \in 0 .. Len(Chain(call)) /\ Upto(g) \in 0 .. Len(Chain(call))
    BY UptoFacts
<1>2. CASE Upto(h) = 0
    BY <1>1, <1>2
<1>3. CASE Upto(h) # 0
    <2>1. Upto(h) \in Positions(call)
        BY <1>1, <1>3, ChainFacts
    <2>2. At(Upto(h)) <= h /\ At(Upto(h)) \in Nat
        BY <2>1, <1>1, UptoFacts, ChainFacts
    <2>3. At(Upto(h)) <= g
        BY <2>2
    <2> QED BY <2>1, <2>3, UptoFacts
<1> QED BY <1>2, <1>3

\* A list with nothing in it.
LEMMA EmptyFacts ==
    ASSUME NEW T
    PROVE  <<>> \in Seq(T) /\ Range(<<>>) = {} /\ DOMAIN <<>> = {}
BY EmptySeq DEF Range

\* A page after what has been collected.
LEMMA ConcatFacts ==
    ASSUME NEW T, T \subseteq Nat, NEW s \in Seq(T), NEW t \in Seq(T)
    PROVE  /\ s \o t \in Seq(T)
           /\ Range(s \o t) = Range(s) \cup Range(t)
           /\ (/\ \A i, j \in 1 .. Len(s) : i < j => s[i] < s[j]
               /\ \A i, j \in 1 .. Len(t) : i < j => t[i] < t[j]
               /\ \A x \in Range(s) : \A y \in Range(t) : x < y)
              => \A i, j \in 1 .. Len(s \o t) : i < j => (s \o t)[i] < (s \o t)[j]
<1> DEFINE u == s \o t
           m == Len(s)
           n == Len(t)
<1>1. /\ u \in Seq(T) /\ Len(u) = m + n
      /\ \A i \in 1 .. m + n : u[i] = IF i <= m THEN s[i] ELSE t[i - m]
    BY ConcatProperties
<1>2. /\ m \in Nat /\ n \in Nat
      /\ \A i \in 1 .. m : s[i] \in Range(s)
      /\ \A x \in Range(s) : \E i \in 1 .. m : x = s[i]
      /\ \A i \in 1 .. n : t[i] \in Range(t)
      /\ \A x \in Range(t) : \E i \in 1 .. n : x = t[i]
    BY RangeElements
<1>3. /\ \A i \in 1 .. m + n : u[i] \in Range(u)
      /\ \A x \in Range(u) : \E i \in 1 .. m + n : x = u[i]
    BY <1>1, RangeElements
<1> HIDE DEF u, m, n
<1>4. \A i \in 1 .. m : i \in 1 .. m + n /\ u[i] = s[i]
    BY <1>1, <1>2
<1>5. \A i \in 1 .. n : m + i \in 1 .. m + n /\ u[m + i] = t[i]
    <2> SUFFICES ASSUME NEW i \in 1 .. n
                 PROVE  m + i \in 1 .. m + n /\ u[m + i] = t[i]
        OBVIOUS
    <2> DEFINE k == m + i
    <2>1. k \in 1 .. m + n /\ ~(k <= m) /\ k - m = i
        BY <1>2
    <2> HIDE DEF k
    <2>2. u[k] = t[i]
        BY <2>1, <1>1
    <2> QED BY <2>1, <2>2 DEF k
<1>6. \A i \in 1 .. m + n : i \in 1 .. m \/ \E j \in 1 .. n : i = m + j
    <2> SUFFICES ASSUME NEW i \in 1 .. m + n, i \notin 1 .. m
                 PROVE  \E j \in 1 .. n : i = m + j
        OBVIOUS
    <2>1. i - m \in 1 .. n /\ i = m + (i - m)
        BY <1>2
    <2> QED BY <2>1
<1>7. Range(u) = Range(s) \cup Range(t)
    <2>1. ASSUME NEW x \in Range(u)
          PROVE  x \in Range(s) \cup Range(t)
        <3>1. PICK i \in 1 .. m + n : x = u[i]
            BY <2>1, <1>3
        <3>2. CASE i \in 1 .. m
            BY <3>1, <3>2, <1>2, <1>4
        <3>3. ASSUME NEW j \in 1 .. n, i = m + j
              PROVE  x \in Range(t)
            BY <3>1, <3>3, <1>2, <1>5
        <3> QED BY <3>2, <3>3, <1>6
    <2>2. ASSUME NEW x \in Range(s)
          PROVE  x \in Range(u)
        BY <1>2, <1>3, <1>4
    <2>3. ASSUME NEW x \in Range(t)
          PROVE  x \in Range(u)
        BY <1>2, <1>3, <1>5
    <2> QED BY <2>1, <2>2, <2>3
<1>8. ASSUME \A i, j \in 1 .. m : i < j => s[i] < s[j],
             \A i, j \in 1 .. n : i < j => t[i] < t[j],
             \A x \in Range(s) : \A y \in Range(t) : x < y,
             NEW i \in 1 .. m + n, NEW j \in 1 .. m + n, i < j
      PROVE  u[i] < u[j]
    <2>1. CASE j \in 1 .. m
        <3>1. i \in 1 .. m
            BY <2>1, <1>2, <1>8
        <3> QED BY <2>1, <3>1, <1>4, <1>8
    <2>2. ASSUME i \in 1 .. m, NEW b \in 1 .. n, j = m + b
          PROVE  u[i] < u[j]
        <3>1. u[i] = s[i] /\ u[j] = t[b] /\ s[i] \in Range(s) /\ t[b] \in Range(t)
            BY <2>2, <1>2, <1>4, <1>5
        <3> QED BY <3>1, <1>8
    <2>3. ASSUME NEW a \in 1 .. n, i = m + a, NEW b \in 1 .. n, j = m + b
          PROVE  u[i] < u[j]
        <3>1. u[i] = t[a] /\ u[j] = t[b]
            BY <2>3, <1>5
        <3>2. a < b
            BY <2>3, <1>2, <1>8
        <3> QED BY <3>1, <3>2, <1>8
    <2> QED BY <2>1, <2>2, <2>3, <1>6
<1>9. Len(u) = m + n
    BY <1>1
<1> QED BY <1>1, <1>7, <1>8, <1>9 DEF u, m, n

-----------------------------------------------------------------------------
(* What the steps of one call have in common.                              *)

\* Without a new call or a new head nothing is newly expected or served.
LEMMA Frame ==
    ASSUME UNCHANGED <<call, head>>
    PROVE  /\ Expected' = Expected
           /\ Served' = Served
           /\ ExceedsPage' = ExceedsPage
<1>1. call' = call /\ head' = head
    OBVIOUS
<1>2. Expected' = Expected
    BY <1>1 DEF Expected
<1>3. Served' = Served
    BY <1>1 DEF Served, At
<1>4. ExceedsPage' = ExceedsPage
    BY <1>1, <1>3, Zenon DEF ExceedsPage, At
<1> QED BY <1>2, <1>3, <1>4

\* What a step of a call keeps whatever it collects.
LEMMA CallGoesOn ==
    ASSUME IInv, pc \notin Stopped, UNCHANGED <<call, head>>,
           excused \subseteq excused', excused' \subseteq Positions(call),
           pc' \in Labels \ {"idle"}, answer' \in Seq(Positions(call))
    PROVE  ClientTypes' /\ UnservedIsExcused'
<1>1. call' = call /\ head' = head
    OBVIOUS
<1>2. ClientTypes'
    BY <1>1 DEF IInv, ClientTypes
<1>3. Expected' = Expected /\ \A i : At(i)' = At(i)
    BY <1>1, Frame DEF At
<1>4. pc # "idle"
    BY DEF Stopped
<1>5. UnservedIsExcused'
    BY <1>1, <1>3, <1>4 DEF IInv, UnservedIsExcused
<1> QED BY <1>2, <1>5

\* A list of positions of the range in their order is an ordered answer.
LEMMA AscendingIsOrdered ==
    ASSUME call \in Calls, call' = call, Method(call) # "signatures",
           answer' \in Seq(Positions(call)), Range(answer') \subseteq Wanted(call),
           \A i, j \in 1 .. Len(answer') : i < j => answer'[i] < answer'[j]
    PROVE  AnswersAreOrdered'
<1>1. DOMAIN answer' = 1 .. Len(answer')
    BY LenProperties
<1>2. Expected' = Wanted(call)
    BY DEF Expected
<1>3. \A i, j : Precedes(i, j)' = (i < j)
    BY DEF Precedes
<1> QED BY <1>1, <1>2, <1>3 DEF AnswersAreOrdered

\* Nothing collected is ordered.
LEMMA NothingIsOrdered ==
    ASSUME answer' = <<>>
    PROVE  AnswersAreOrdered'
BY EmptyFacts DEF AnswersAreOrdered

\* A call that returns.
LEMMA CallReturns ==
    ASSUME IInv, pc \notin Stopped, UNCHANGED <<call, head>>, pc' = "done",
           excused \subseteq excused', excused' \subseteq Positions(call),
           answer' \in Seq(Positions(call)), AnswersAreOrdered',
           ~ExceedsPage => Expected \ excused' \subseteq Range(answer')
    PROVE  IInv'
<1>1. ClientTypes' /\ UnservedIsExcused'
    BY CallGoesOn DEF Labels, Stopped
<1>2. LabelsOK' /\ PagesOK' /\ SlotsOK' /\ SignaturesOK' /\ TransactionsOK'
    BY DEF LabelsOK, PagesOK, SlotsOK, SignaturesOK, TransactionsOK
<1>3. AnswersAreComplete'
    BY Frame DEF AnswersAreComplete
<1> QED BY <1>1, <1>2, <1>3 DEF IInv

\* What has been collected so far, in other words.
LEMMA CollectedFacts ==
    ASSUME IInv, Method(call) # "signatures"
    PROVE  /\ answer \in Seq(Positions(call))
           /\ Range(answer) \subseteq Wanted(call)
           /\ \A i, j \in 1 .. Len(answer) : i < j => answer[i] < answer[j]
<1>1. answer \in Seq(Positions(call)) /\ DOMAIN answer = 1 .. Len(answer)
    BY LenProperties DEF IInv, ClientTypes
<1>2. Expected = Wanted(call) /\ \A i, j : Precedes(i, j) = (i < j)
    BY DEF Expected, Precedes
<1> QED BY <1>1, <1>2 DEF IInv, AnswersAreOrdered

-----------------------------------------------------------------------------
(* The steps: between the requests.                                        *)

\* It holds at first.
LEMMA Initial == Init => IInv
<1> SUFFICES ASSUME Init PROVE IInv
    OBVIOUS
<1>1. ClientTypes
    BY EmptyFacts, HeightsAssumption DEF Init, ClientTypes, Labels, Stopped
<1>2. AnswersAreOrdered
    BY EmptyFacts DEF Init, AnswersAreOrdered
<1> QED BY <1>1, <1>2 DEF Init, IInv, LabelsOK, UnservedIsExcused, PagesOK, SlotsOK,
                          SignaturesOK, TransactionsOK, AnswersAreComplete

\* A new call has everything to ask for.
LEMMA StartStep ==
    ASSUME IInv, NEW c \in Calls, Start(c)
    PROVE  IInv'
<1>1. /\ call' = c /\ head' = head /\ answer' = <<>>
      /\ excused' = {i \in Wanted(c) : Chain(c)[i].at > head}
    BY DEF Start
<1>2. \/ pc' = "failed"
      \/ c.chain \in {"EVM", "Midnight"} /\ StartJoined(c)
      \/ c.chain = "Stellar" /\ c.from <= Target(c) /\ StartPaging
      \/ c.chain = "Solana" /\ Method(c) = "signatures" /\ StartSignatures(c)
      \/ c.chain = "Solana" /\ Method(c) = "blocks" /\ c.from <= Target(c) /\ pc' = "listing"
    <2>1. /\ c.chain \in {"EVM", "Midnight", "Stellar", "Solana"}
          /\ c.chain # "Solana" => Method(c) # "signatures"
          /\ c.chain = "Solana" => Method(c) \in {"blocks", "signatures"}
        BY CallsAssumption, MethodFacts
    <2>2. c.from \in Nat /\ Target(c) \in Nat
        BY RangeFacts
    <2>3. CASE ChecksRange(c) /\ c.from > Target(c)
        BY <2>3 DEF Start
    <2>4. CASE ~(ChecksRange(c) /\ c.from > Target(c))
        <3>1. \/ c.chain = "Stellar"
              \/ c.chain = "Solana" /\ Method(c) = "blocks"
              => c.from <= Target(c)
            <4>1. SUFFICES ASSUME c.chain # "EVM", Method(c) # "signatures"
                           PROVE  c.from <= Target(c)
                BY <2>1
            <4>2. ChecksRange(c)
                BY <4>1 DEF ChecksRange
            <4> QED BY <4>2, <2>2, <2>4
        <3> QED BY <2>1, <2>4, <3>1 DEF Start, Continue
    <2> QED BY <2>3, <2>4
<1>3. ClientTypes'
    <2>1. pc' \in Labels
        BY <1>2 DEF Labels, Stopped, StartJoined, StartPaging, StartSignatures, NextAddress, Continue
    <2>2. excused' \subseteq Positions(c)
        BY <1>1 DEF Wanted
    <2> QED BY <1>1, <2>1, <2>2, EmptyFacts DEF IInv, ClientTypes
<1>4. UnservedIsExcused'
    <2>1. Expected' \subseteq Wanted(c)
        BY <1>1 DEF Expected
    <2>2. \A i : At(i)' = Chain(c)[i].at
        BY <1>1 DEF At
    <2> QED BY <1>1, <2>1, <2>2 DEF UnservedIsExcused
<1>5. LabelsOK'
    BY <1>1, <1>2 DEF LabelsOK, StartJoined, StartPaging, StartSignatures, NextAddress, Continue
<1>6. PagesOK'
    BY <1>1, <1>2 DEF PagesOK, StartJoined, StartPaging, StartSignatures, NextAddress, Continue
<1>7. SlotsOK' /\ TransactionsOK'
    BY <1>1, <1>2 DEF SlotsOK, TransactionsOK, StartJoined, StartPaging, StartSignatures,
                      NextAddress, Continue
<1>8. SignaturesOK'
    <2>1. SUFFICES ASSUME pc' = "signatures"
                   PROVE  SignaturesOK'
        BY DEF SignaturesOK
    <2>2. PICK a \in Addresses(c) :
              locals' = [address |-> a, addresses |-> Addresses(c) \ {a}, until |-> {},
                         count |-> 0, signatures |-> {}]
        BY <1>2, <2>1 DEF StartJoined, StartPaging, StartSignatures, NextAddress, Continue
    <2>3. ToAsk' = Addresses(c)
        BY <2>2 DEF ToAsk
    <2>4. Method(c) = "signatures"
        BY <1>2, <2>1 DEF StartJoined, StartPaging, Continue
    <2>5. \A i \in Expected' : Chain(c)[i].involves \cap Addresses(c) # {}
        BY <1>1, <2>4 DEF Expected
    <2> QED BY <1>1, <2>2, <2>3, <2>5 DEF SignaturesOK
<1>9. AnswersAreOrdered'
    BY <1>1, NothingIsOrdered
<1>10. AnswersAreComplete'
    BY <1>2 DEF AnswersAreComplete, StartJoined, StartPaging, StartSignatures, NextAddress, Continue
<1> QED BY <1>3, <1>4, <1>5, <1>6, <1>7, <1>8, <1>9, <1>10 DEF IInv

\* A failed call has nothing.
LEMMA FailStep ==
    ASSUME IInv, Fail
    PROVE  IInv'
<1>1. /\ pc \notin Stopped /\ pc' = "failed" /\ answer' = <<>>
      /\ UNCHANGED <<call, head, excused>>
    BY DEF Fail
<1>2. ClientTypes' /\ UnservedIsExcused'
    BY <1>1, EmptyFacts, CallGoesOn DEF Labels, Stopped, IInv, ClientTypes
<1>3. /\ LabelsOK' /\ PagesOK' /\ SlotsOK' /\ SignaturesOK' /\ TransactionsOK'
      /\ AnswersAreComplete'
    BY <1>1 DEF LabelsOK, PagesOK, SlotsOK, SignaturesOK, TransactionsOK, AnswersAreComplete
<1>4. AnswersAreOrdered'
    BY <1>1, NothingIsOrdered
<1> QED BY <1>2, <1>3, <1>4 DEF IInv

\* A page that is too small for what the nodes serve stays too small when they serve more.
LEMMA GrowthServesMore ==
    ASSUME ClientTypes, Grow
    PROVE  ExceedsPage => ExceedsPage'
<1>1. call' = call /\ head' = head + 1 /\ call \in Calls /\ head \in Nat
    BY DEF Grow, ClientTypes
<1>2. /\ Positions(call) = 1 .. Len(Chain(call)) /\ Len(Chain(call)) \in Nat
      /\ \A i \in Positions(call) : At(i) \in Nat
    BY <1>1, ChainFacts
<1>3. /\ \A i : At(i)' = At(i)
      /\ Served' = {i \in Positions(call) : At(i) <= head + 1}
    BY <1>1 DEF Served, At
<1>4. IsFiniteSet(Positions(call))
    BY <1>2, FS_Interval
<1> DEFINE Of(a) == {i \in Served : At(i) >= call.from /\ a \in Chain(call)[i].involves}
           More(a) == {i \in Served' : At(i) >= call.from /\ a \in Chain(call)[i].involves}
<1>5. ASSUME NEW a, Cardinality(Of(a)) > PAGE_LIMIT
      PROVE  Cardinality(More(a)) > PAGE_LIMIT
    <2>1. Of(a) \subseteq More(a) /\ More(a) \subseteq Positions(call)
        BY <1>1, <1>2, <1>3 DEF Served
    <2> HIDE DEF Of, More
    <2>2. IsFiniteSet(More(a)) /\ IsFiniteSet(Of(a))
        BY <1>4, <2>1, FS_Subset
    <2>3. Cardinality(Of(a)) \in Nat /\ Cardinality(More(a)) \in Nat
        BY <2>2, FS_CardinalityType
    <2>4. Cardinality(Of(a)) <= Cardinality(More(a))
        BY <2>1, <2>2, FS_Subset
    <2> QED BY <2>3, <2>4, <1>5, LimitsAssumption
<1>6. SUFFICES ASSUME ExceedsPage
               PROVE  ExceedsPage'
    OBVIOUS
<1>7. PICK a \in Addresses(call) : Cardinality(Of(a)) > PAGE_LIMIT
    BY <1>6 DEF ExceedsPage
<1>8. Cardinality(More(a)) > PAGE_LIMIT
    BY <1>5, <1>7
<1>9. More(a) = {i \in Served' : At(i)' >= call'.from /\ a \in Chain(call')[i].involves}
    BY <1>1, <1>3
<1>10. Method(call') = "signatures" /\ a \in Addresses(call')
    BY <1>1, <1>6, <1>7 DEF ExceedsPage
<1> HIDE DEF More
<1> QED BY <1>8, <1>9, <1>10 DEF ExceedsPage

\* When the chain grows, what the nodes did not serve before is still excused.
LEMMA GrowStep ==
    ASSUME IInv, Grow
    PROVE  IInv'
<1>1. /\ call' = call /\ head' = head + 1 /\ head' \in Heights
      /\ UNCHANGED <<pc, locals, answer, excused>>
    BY DEF Grow
<1>2. call \in Calls /\ head \in Nat /\ head' \in Nat
    BY <1>1, HeightsAssumption DEF IInv, ClientTypes
<1>3. /\ Expected' = Expected
      /\ \A i : At(i)' = At(i)
      /\ \A i, j : Precedes(i, j)' = Precedes(i, j)
    BY <1>1 DEF Expected, At, Precedes
<1>4. ClientTypes'
    BY <1>1, <1>2 DEF IInv, ClientTypes
<1>5. LabelsOK'
    BY <1>1 DEF IInv, LabelsOK
<1>6. UnservedIsExcused'
    <2>1. \A i \in Expected : At(i) \in Nat
        BY <1>2, ChainFacts, WantedFacts
    <2> QED BY <1>1, <1>2, <1>3, <2>1 DEF IInv, UnservedIsExcused
<1>7. PagesOK'
    <2>1. Upto(head)' = Upto(head + 1) /\ Upto(call.from - 1)' = Upto(call.from - 1)
        BY <1>1 DEF Upto, At
    <2>2. /\ Upto(head) <= Upto(head + 1)
          /\ Upto(head) \in 0 .. Len(Chain(call)) /\ Upto(head + 1) \in 0 .. Len(Chain(call))
          /\ Len(Chain(call)) \in Nat
        <3>1. head \in Int /\ head + 1 \in Int /\ head <= head + 1
            BY <1>2
        <3>2. Upto(head) <= Upto(head + 1)
            BY <1>2, <3>1, UptoMonotone
        <3>3. Upto(head) \in 0 .. Len(Chain(call)) /\ Upto(head + 1) \in 0 .. Len(Chain(call))
            BY <1>2, <3>1, UptoFacts
        <3> QED BY <1>2, <3>2, <3>3, ChainFacts
    <2>3. SUFFICES ASSUME pc \in {"paging", "waiting"}, ~(locals.cursor = {} /\ answer = <<>>)
                   PROVE  PagesOK'
        BY <1>1 DEF PagesOK
    <2>4. PICK k \in 0 .. Len(Chain(call)) :
              /\ locals.cursor = {k}
              /\ Upto(call.from - 1) <= k /\ k <= Upto(head)
              /\ Range(answer) = {i \in Wanted(call) : i <= k}
              /\ call.method = "blocks" => k \in Positions(call) /\ At(k) > call.from
        BY <2>3 DEF IInv, PagesOK
    <2>5. k <= Upto(head + 1)
        BY <2>2, <2>4
    <2> QED BY <1>1, <1>3, <2>1, <2>4, <2>5 DEF PagesOK
<1>8. SlotsOK'
    BY <1>1, <1>3 DEF IInv, SlotsOK
<1>9. ExceedsPage => ExceedsPage'
    BY GrowthServesMore DEF IInv
<1>10. SignaturesOK'
    <2>1. ToAsk' = ToAsk
        BY <1>1 DEF ToAsk
    <2> QED BY <1>1, <1>3, <1>9, <2>1 DEF IInv, SignaturesOK
<1>11. TransactionsOK'
    BY <1>1, <1>3, <1>9 DEF IInv, TransactionsOK
<1>12. AnswersAreOrdered'
    BY <1>1, <1>3 DEF IInv, AnswersAreOrdered
<1>13. AnswersAreComplete'
    BY <1>1, <1>3, <1>9 DEF IInv, AnswersAreComplete
<1> QED BY <1>4, <1>5, <1>6, <1>7, <1>8, <1>10, <1>11, <1>12, <1>13 DEF IInv

-----------------------------------------------------------------------------
(* The steps: EVM and Midnight.                                            *)

\* The requests for the heights, and their join.
LEMMA JoiningStep ==
    ASSUME IInv, Joining
    PROVE  IInv'
<1>1. /\ pc = "joining" /\ answer = <<>> /\ call \in Calls
      /\ Method(call) # "signatures" /\ excused \subseteq Positions(call)
    BY MethodFacts DEF IInv, Joining, LabelsOK, ClientTypes
<1>2. CASE Join
    <2>1. /\ pc' = "done" /\ answer' = Ascending(Wanted(call))
          /\ UNCHANGED <<call, head, excused>>
        BY <1>2 DEF Join, Return
    <2>2. /\ answer' \in Seq(Wanted(call)) /\ Range(answer') = Wanted(call)
          /\ \A i, j \in 1 .. Len(answer') : i < j => answer'[i] < answer'[j]
        BY <1>1, <2>1, ChainFacts, WantedFacts, AscendingFacts
    <2>3. answer' \in Seq(Positions(call))
        BY <1>1, <2>2, WantedFacts, SeqOfSuperset
    <2>4. AnswersAreOrdered'
        BY <1>1, <2>1, <2>2, <2>3, AscendingIsOrdered
    <2>5. Expected \subseteq Range(answer')
        BY <1>1, <2>2, WantedFacts
    <2> QED BY <1>1, <2>1, <2>3, <2>4, <2>5, CallReturns DEF Stopped
<1>3. CASE \E n \in DOMAIN locals.asked : HeightAnswers(n) \/ HeightFails(n)
    <2>1. UNCHANGED <<call, head, pc, answer, excused>>
        BY <1>3 DEF HeightAnswers, HeightFails
    <2>2. ClientTypes' /\ UnservedIsExcused'
        BY <1>1, <2>1, CallGoesOn DEF IInv, ClientTypes, Stopped, Labels
    <2>3. /\ LabelsOK' /\ PagesOK' /\ SlotsOK' /\ SignaturesOK' /\ TransactionsOK'
          /\ AnswersAreComplete'
        BY <1>1, <2>1 DEF IInv, LabelsOK, PagesOK, SlotsOK, SignaturesOK, TransactionsOK,
                          AnswersAreComplete
    <2>4. AnswersAreOrdered'
        BY <1>1, <2>1, NothingIsOrdered
    <2> QED BY <2>2, <2>3, <2>4 DEF IInv
<1> QED BY <1>2, <1>3 DEF Joining

-----------------------------------------------------------------------------
(* The steps: Stellar.                                                     *)

\* Where a page begins and ends, and what has been collected before it.
LEMMA PageFacts ==
    ASSUME IInv, PageServed
    PROVE  /\ call \in Calls /\ call.chain = "Stellar" /\ Method(call) # "signatures"
           /\ FirstAfterCursor \in 1 .. Len(Chain(call)) + 1
           /\ LastOfPage \in 0 .. Len(Chain(call))
           /\ Upto(call.from - 1) < FirstAfterCursor /\ FirstAfterCursor - 1 <= LastOfPage
           /\ LastOfPage <= Upto(head)
           /\ LastOfPage < Upto(head) => LastOfPage = FirstAfterCursor + Limit - 1
           /\ Range(answer) = {i \in Wanted(call) : i < FirstAfterCursor}
<1> DEFINE F == FirstAfterCursor
           L == LastOfPage
           U == Upto(head)
           B == Upto(call.from - 1)
           size == Len(Chain(call))
<1>1. /\ pc = "waiting" /\ call \in Calls /\ call.chain = "Stellar" /\ head \in Nat
      /\ locals.cursor = {} => call.from <= head
    BY DEF IInv, ClientTypes, LabelsOK, PageServed
<1>2. Method(call) # "signatures"
    BY <1>1, MethodFacts
<1>3. /\ call.from \in Nat /\ size \in Nat /\ U \in 0 .. size /\ B \in 0 .. size
      /\ Positions(call) = 1 .. size /\ \A i \in Positions(call) : At(i) \in Nat
      /\ \A i \in Positions(call) : At(i) <= call.from - 1 <=> i <= B
    <2>1. call.from \in Nat /\ head \in Int /\ call.from - 1 \in Int
        BY <1>1, RangeFacts
    <2> QED BY <1>1, <2>1, ChainFacts, UptoFacts
<1>4. Limit \in Nat \ {0}
    BY LimitsAssumption DEF Limit
<1>5. /\ F \in 1 .. size + 1 /\ B < F /\ F - 1 <= U
      /\ Range(answer) = {i \in Wanted(call) : i < F}
    <2>1. CASE locals.cursor = {} /\ answer = <<>>
        <3>1. F = 1 + B
            BY <2>1 DEF FirstAfterCursor
        <3>2. B <= U
            <4>1. call.from - 1 \in Int /\ head \in Int /\ call.from - 1 <= head
                BY <1>1, <1>3, <2>1
            <4> QED BY <1>1, <4>1, UptoMonotone
        <3>3. Range(answer) = {}
            BY <2>1, EmptyFacts
        <3>4. ASSUME NEW i \in Wanted(call), i < F
              PROVE  FALSE
            <4>1. i \in Positions(call) /\ call.from <= At(i)
                BY <1>1, WantedFacts
            <4>2. i <= B
                BY <4>1, <1>3, <3>1, <3>4
            <4> QED BY <4>1, <4>2, <1>3
        <3> HIDE DEF F, B, U, size
        <3>5. {i \in Wanted(call) : i < F} = {}
            BY <3>4
        <3> QED BY <3>1, <3>2, <3>3, <3>5, <1>3
    <2>2. CASE ~(locals.cursor = {} /\ answer = <<>>)
        <3>1. PICK k \in 0 .. size :
                  /\ locals.cursor = {k}
                  /\ B <= k /\ k <= U
                  /\ Range(answer) = {i \in Wanted(call) : i <= k}
            BY <1>1, <2>2 DEF IInv, PagesOK
        <3>2. F = 1 + k
            BY <3>1 DEF FirstAfterCursor
        <3>3. \A i \in Wanted(call) : i <= k <=> i < F
            BY <1>1, <1>3, <3>1, <3>2, WantedFacts
        <3> HIDE DEF F, B, U, size
        <3> QED BY <1>3, <3>1, <3>2, <3>3
    <2> QED BY <2>1, <2>2
<1>6. L = IF F + Limit - 1 < U THEN F + Limit - 1 ELSE U
    BY DEF LastOfPage
<1> HIDE DEF F, L, U, B, size
<1>7. L \in 0 .. size /\ F - 1 <= L /\ L <= U /\ (L < U => L = F + Limit - 1)
    BY <1>3, <1>4, <1>5, <1>6
<1> QED BY <1>1, <1>2, <1>5, <1>7 DEF F, L, U, B, size

\* The items of a page in the range are those that the range has there.
LEMMA PageIsWanted ==
    ASSUME IInv, PageServed
    PROVE  /\ Page \subseteq Positions(call)
           /\ WithinTarget(Page) =
                 {i \in Wanted(call) : FirstAfterCursor <= i /\ i <= LastOfPage}
<1> DEFINE F == FirstAfterCursor
           L == LastOfPage
<1>1. /\ call \in Calls /\ Len(Chain(call)) \in Nat
      /\ F \in 1 .. Len(Chain(call)) + 1 /\ L \in 0 .. Len(Chain(call))
      /\ Upto(call.from - 1) < F /\ Upto(call.from - 1) \in Int
      /\ Positions(call) = 1 .. Len(Chain(call))
      /\ call.from \in Nat
      /\ \A i \in Positions(call) : At(i) \in Nat
      /\ \A i \in Positions(call) : At(i) <= call.from - 1 <=> i <= Upto(call.from - 1)
    <2>1. call \in Calls
        BY PageFacts
    <2>2. call.from \in Nat /\ call.from - 1 \in Int
        BY <2>1, RangeFacts
    <2>3. /\ Len(Chain(call)) \in Nat /\ Positions(call) = 1 .. Len(Chain(call))
          /\ \A i \in Positions(call) : At(i) \in Nat
        BY <2>1, ChainFacts
    <2> DEFINE h == call.from - 1
    <2>4. /\ Upto(h) \in Int
          /\ \A i \in Positions(call) : At(i) <= h <=> i <= Upto(h)
        <3>1. h \in Int
            BY <2>2
        <3> HIDE DEF h
        <3>2. /\ Upto(h) \in 0 .. Len(Chain(call))
              /\ \A i \in Positions(call) : At(i) <= h <=> i <= Upto(h)
            BY <2>1, <3>1, UptoFacts
        <3> QED BY <2>3, <3>2
    <2>5. /\ F \in 1 .. Len(Chain(call)) + 1 /\ L \in 0 .. Len(Chain(call))
          /\ Upto(call.from - 1) < F
        BY PageFacts
    <2> QED BY <2>1, <2>2, <2>3, <2>4, <2>5
<1>2. Page = {i \in F .. L : Chain(call)[i].id # 0}
    BY DEF Page
<1> HIDE DEF F, L
<1>3. Page \subseteq Positions(call)
    BY <1>1, <1>2
<1>4. \A i \in Page : call.from <= At(i)
    <2> SUFFICES ASSUME NEW i \in Page
                 PROVE  call.from <= At(i)
        OBVIOUS
    <2>1. i \in Positions(call) /\ F <= i
        BY <1>1, <1>2, <1>3
    <2>2. ~(i <= Upto(call.from - 1))
        BY <2>1, <1>1
    <2> QED BY <2>1, <2>2, <1>1
<1>5. ASSUME NEW i \in WithinTarget(Page)
      PROVE  i \in Wanted(call) /\ F <= i /\ i <= L
    <2>1. i \in Page /\ At(i) <= Target(call)
        BY DEF WithinTarget
    <2> QED BY <2>1, <1>1, <1>2, <1>3, <1>4, WantedFacts
<1>6. ASSUME NEW i \in Wanted(call), F <= i, i <= L
      PROVE  i \in WithinTarget(Page)
    <2>1. i \in Positions(call) /\ At(i) <= Target(call) /\ Chain(call)[i].id # 0
        BY <1>1, WantedFacts
    <2>2. i \in Page
        BY <1>1, <1>2, <1>6, <2>1
    <2> QED BY <2>1, <2>2 DEF WithinTarget
<1>7. WithinTarget(Page) = {i \in Wanted(call) : F <= i /\ i <= L}
    BY <1>5, <1>6
<1> QED BY <1>3, <1>7 DEF F, L

\* With a page in the range, all that the range has up to the page's end is collected.
LEMMA PageCollected ==
    ASSUME IInv, PageServed, UNCHANGED call,
           answer' = answer \o Ascending(WithinTarget(Page))
    PROVE  /\ answer' \in Seq(Positions(call))
           /\ Range(answer') = {i \in Wanted(call) : i <= LastOfPage}
           /\ AnswersAreOrdered'
<1> DEFINE F == FirstAfterCursor
           L == LastOfPage
           S == WithinTarget(Page)
           t == Ascending(S)
<1>1. /\ call \in Calls /\ Method(call) # "signatures"
      /\ F \in Int /\ L \in Int /\ F - 1 <= L
      /\ Range(answer) = {i \in Wanted(call) : i < F}
      /\ S = {i \in Wanted(call) : F <= i /\ i <= L}
    BY PageFacts, PageIsWanted, ChainFacts
<1>2. /\ Len(Chain(call)) \in Nat /\ Positions(call) = 1 .. Len(Chain(call))
      /\ Wanted(call) \subseteq Positions(call)
    BY <1>1, ChainFacts, WantedFacts
<1>3. /\ answer \in Seq(Positions(call))
      /\ \A i, j \in 1 .. Len(answer) : i < j => answer[i] < answer[j]
    BY <1>1, CollectedFacts
<1> HIDE DEF F, L, S
<1>4. S \subseteq Positions(call) /\ Positions(call) \subseteq Nat
    BY <1>1, <1>2
<1>5. /\ t \in Seq(S) /\ Range(t) = S
      /\ \A i, j \in 1 .. Len(t) : i < j => t[i] < t[j]
    BY <1>2, <1>4, AscendingFacts
<1> HIDE DEF t
<1>6. t \in Seq(Positions(call))
    BY <1>4, <1>5, SeqOfSuperset
<1>7. \A x \in Range(answer) : \A y \in Range(t) : x < y
    BY <1>1, <1>2, <1>5
<1>8. answer' = answer \o t
    BY DEF t, S
<1>9. /\ answer' \in Seq(Positions(call))
      /\ Range(answer') = Range(answer) \cup Range(t)
      /\ \A i, j \in 1 .. Len(answer') : i < j => answer'[i] < answer'[j]
    <2>1. /\ answer \o t \in Seq(Positions(call))
          /\ Range(answer \o t) = Range(answer) \cup Range(t)
          /\ (/\ \A i, j \in 1 .. Len(answer) : i < j => answer[i] < answer[j]
              /\ \A i, j \in 1 .. Len(t) : i < j => t[i] < t[j]
              /\ \A x \in Range(answer) : \A y \in Range(t) : x < y)
             => \A i, j \in 1 .. Len(answer \o t) : i < j => (answer \o t)[i] < (answer \o t)[j]
        <3>1. /\ answer \in Seq(Positions(call)) /\ t \in Seq(Positions(call))
              /\ Positions(call) \subseteq Nat
            BY <1>3, <1>4, <1>6
        <3> QED BY <3>1, ConcatFacts, Zenon
    <2>2. \A i, j \in 1 .. Len(answer \o t) : i < j => (answer \o t)[i] < (answer \o t)[j]
        BY <1>3, <1>5, <1>7, <2>1, Zenon
    <2> QED BY <2>1, <2>2, <1>8
<1>10. Range(answer') = {i \in Wanted(call) : i <= L}
    <2>1. ASSUME NEW i \in Wanted(call)
          PROVE  i <= L <=> i < F \/ (F <= i /\ i <= L)
        BY <1>1, <1>2
    <2> QED BY <2>1, <1>1, <1>5, <1>9
<1>11. AnswersAreOrdered'
    BY <1>1, <1>9, <1>10, AscendingIsOrdered
<1> QED BY <1>9, <1>10, <1>11 DEF L

\* What the nodes served of the range and no page has brought is after the last page.
LEMMA LaterIsServed ==
    ASSUME IInv, PageServed, NEW i \in Expected \ excused
    PROVE  i \in Wanted(call) /\ i \in Positions(call) /\ i <= Upto(head)
<1>1. call \in Calls /\ head \in Nat /\ pc # "idle"
    BY DEF IInv, ClientTypes, PageServed
<1>2. i \in Wanted(call) /\ i \in Positions(call) /\ At(i) \in Nat
    BY <1>1, WantedFacts, ChainFacts
<1>3. ~(At(i) > head)
    BY <1>1 DEF IInv, UnservedIsExcused
<1>4. At(i) <= head
    BY <1>1, <1>2, <1>3
<1> QED BY <1>1, <1>2, <1>4, UptoFacts

\* The item that ends the range has nothing of the range behind it.
LEMMA PageReachesTargetStep ==
    ASSUME IInv, PageReachesTarget
    PROVE  IInv'
<1>1. /\ PageServed /\ pc' = "done" /\ UNCHANGED <<call, head, excused>>
      /\ WithinTarget(Page) # Page
      /\ answer' = answer \o Ascending(WithinTarget(Page))
    BY DEF PageReachesTarget, PageServed, Return
<1>2. call \in Calls /\ excused \subseteq Positions(call) /\ pc \notin Stopped
    BY <1>1 DEF IInv, ClientTypes, PageServed, Stopped
<1>3. /\ answer' \in Seq(Positions(call)) /\ AnswersAreOrdered'
      /\ Range(answer') = {i \in Wanted(call) : i <= LastOfPage}
    BY <1>1, PageCollected
<1>4. PICK p \in Page : ~(At(p) <= Target(call))
    BY <1>1 DEF WithinTarget
<1>5. p \in Positions(call) /\ p <= LastOfPage /\ p \in Nat
    <2>1. p \in Positions(call)
        BY <1>1, <1>4, PageIsWanted
    <2> QED BY <1>2, <1>4, <2>1, ChainFacts DEF Page
<1>6. ASSUME NEW i \in Wanted(call)
      PROVE  i <= LastOfPage
    <2>1. i \in Positions(call) /\ At(i) <= Target(call) /\ At(i) \in Nat /\ At(p) \in Nat
        BY <1>2, <1>5, WantedFacts, ChainFacts
    <2>2. At(i) < At(p)
        BY <1>2, <1>4, <2>1, RangeFacts
    <2>3. i < p
        BY <1>2, <1>5, <2>1, <2>2, ChainFacts
    <2>4. i \in Nat /\ LastOfPage \in Int
        BY <1>1, <1>2, <2>1, ChainFacts, PageFacts
    <2> QED BY <1>5, <2>3, <2>4
<1>7. Expected \subseteq Range(answer')
    BY <1>2, <1>3, <1>6, WantedFacts
<1> QED BY <1>1, <1>2, <1>3, <1>7, CallReturns

\* A page without items, but for events, has nothing behind it that was served.
LEMMA PageIsEmptyStep ==
    ASSUME IInv, PageIsEmpty
    PROVE  IInv'
<1>1. /\ PageServed /\ pc' = "done" /\ UNCHANGED <<call, head, excused, answer>>
      /\ Page = {} /\ call.method # "events"
    BY DEF PageIsEmpty, PageServed, EndsAtEmptyPage, Return
<1>2. call \in Calls /\ excused \subseteq Positions(call) /\ pc \notin Stopped
    BY <1>1 DEF IInv, ClientTypes, PageServed, Stopped
<1>3. answer' \in Seq(Positions(call)) /\ AnswersAreOrdered'
    BY <1>1 DEF IInv, ClientTypes, AnswersAreOrdered, Precedes, Expected, At
<1>4. ASSUME NEW i \in Expected \ excused
      PROVE  i \in Range(answer')
    <2> DEFINE F == FirstAfterCursor
               L == LastOfPage
               U == Upto(head)
    <2>1. i \in Wanted(call) /\ i \in Positions(call) /\ i <= U
        BY <1>1, LaterIsServed
    <2>2. /\ F \in 1 .. Len(Chain(call)) + 1 /\ L \in 0 .. Len(Chain(call)) /\ L <= U
          /\ L < U => L = F + Limit - 1
          /\ Range(answer) = {j \in Wanted(call) : j < F}
        BY <1>1, PageFacts
    <2>3. /\ Len(Chain(call)) \in Nat /\ Positions(call) = 1 .. Len(Chain(call))
          /\ \A j \in Positions(call) : Chain(call)[j].id # 0
        BY <1>1, <1>2, ChainFacts
    <2>4. \A j \in F .. L : j \notin Positions(call)
        BY <1>1, <2>3 DEF Page
    <2>5. head \in Int /\ U \in 0 .. Len(Chain(call)) /\ Limit \in Nat \ {0}
        <3>1. head \in Int
            BY DEF IInv, ClientTypes
        <3> QED BY <1>2, <3>1, UptoFacts, LimitsAssumption DEF Limit
    <2> HIDE DEF F, L, U
    <2>6. i < F
        <3>1. SUFFICES ASSUME F <= i
                       PROVE  FALSE
            BY <2>1, <2>2, <2>3
        <3>2. L < U
            BY <2>1, <2>2, <2>3, <2>4, <2>5, <3>1
        <3>3. F \in F .. L /\ F \in Positions(call)
            BY <2>2, <2>3, <2>5, <3>2
        <3> QED BY <2>4, <3>3
    <2> QED BY <1>1, <2>1, <2>2, <2>6
<1> QED BY <1>1, <1>2, <1>3, <1>4, CallReturns

\* A ledger is at the start of the range only if a page that goes on from it was asked for a
\* single ledger.
LEMMA StartIsReachedOnce ==
    ASSUME IInv, PageServed, Page # {}, call.method = "blocks",
           At(LastOfPage) = call.from, NEW i \in Expected \ excused
    PROVE  i <= LastOfPage
<1> DEFINE F == FirstAfterCursor
           L == LastOfPage
           U == Upto(head)
<1>1. /\ call \in Calls /\ call.chain = "Stellar"
      /\ F \in 1 .. Len(Chain(call)) + 1 /\ L \in 0 .. Len(Chain(call)) /\ L <= U
      /\ L < U => L = F + Limit - 1
      /\ Upto(call.from - 1) < F
    BY PageFacts
<1>2. i \in Wanted(call) /\ i \in Positions(call) /\ i <= U
    BY LaterIsServed
<1>3. /\ Len(Chain(call)) \in Nat /\ Positions(call) = 1 .. Len(Chain(call))
      /\ \A j \in Positions(call) : At(j) \in Nat
      /\ \A j, k \in Positions(call) : j < k => At(j) < At(k)
    <2>1. /\ Len(Chain(call)) \in Nat /\ Positions(call) = 1 .. Len(Chain(call))
          /\ \A j \in Positions(call) : At(j) \in Nat
          /\ \A j, k \in Positions(call) : j < k => At(j) <= At(k)
          /\ \A j, k \in Positions(call) : j # k => At(j) # At(k)
        BY <1>1, ChainFacts
    <2>2. ASSUME NEW j \in Positions(call), NEW k \in Positions(call), j < k
          PROVE  At(j) < At(k)
        <3>1. At(j) <= At(k) /\ At(j) # At(k)
            BY <2>1, <2>2
        <3> QED BY <3>1, <2>1
    <2> QED BY <2>1, <2>2
<1>4. F <= L /\ F \in Positions(call) /\ L \in Positions(call)
    <2>1. F <= L
        BY <1>1, <1>3 DEF Page
    <2> QED BY <2>1, <1>1, <1>3
<1>5. call.from \in Nat /\ Target(call) \in Nat /\ U \in Int
    <2>1. head \in Int
        BY DEF IInv, ClientTypes
    <2> QED BY <1>1, <2>1, RangeFacts, UptoFacts
<1>6. call.from <= At(F) /\ call.from <= At(i) /\ At(i) <= Target(call)
    <2> DEFINE h == call.from - 1
    <2>1. h \in Int /\ Upto(h) < F
        BY <1>1, <1>5
    <2> HIDE DEF h, F
    <2>2. Upto(h) \in Int /\ ~(F <= Upto(h))
        BY <1>1, <1>3, <1>4, <2>1, UptoFacts
    <2>3. ~(At(F) <= h)
        BY <1>1, <1>4, <2>1, <2>2, UptoFacts
    <2>4. call.from <= At(F)
        BY <1>3, <1>4, <1>5, <2>3 DEF h
    <2> QED BY <1>1, <1>2, <2>4, WantedFacts
<1>7. SUFFICES ASSUME L < i
               PROVE  FALSE
    BY <1>1, <1>2, <1>3
<1>8. At(L) < At(i) /\ L = F + Limit - 1
    <2>1. L < U
        BY <1>1, <1>2, <1>3, <1>5, <1>7
    <2> QED BY <1>1, <1>2, <1>3, <1>4, <1>7, <2>1
<1>9. CASE Limit = 1
    <2>1. call.to = {}
        BY <1>9, LimitsAssumption DEF Limit
    <2>2. Target(call) = call.from
        BY <2>1 DEF Target
    <2> HIDE DEF L
    <2> QED BY <1>2, <1>3, <1>4, <1>5, <1>6, <1>8, <2>2 DEF L
<1>10. CASE Limit # 1
    <2>1. Limit = PAGE_LIMIT /\ PAGE_LIMIT \in Nat \ {0, 1}
        BY <1>10, LimitsAssumption DEF Limit
    <2>2. F < L
        BY <1>1, <1>8, <2>1
    <2>3. At(F) < At(L)
        BY <1>3, <1>4, <2>2
    <2> QED BY <1>3, <1>4, <1>5, <1>6, <2>3
<1> QED BY <1>9, <1>10

\* A page in the range ends the call only when there was nothing more.
LEMMA PageGoesOnStep ==
    ASSUME IInv, PageGoesOn
    PROVE  IInv'
<1>1. PICK cursor \in Cursors :
          /\ PageServed /\ UNCHANGED <<call, head, excused>>
          /\ Page # {} \/ call.method = "events"
          /\ WithinTarget(Page) = Page
          /\ answer' = answer \o Ascending(Page)
          /\ IF EndsPaging(cursor) THEN pc' = "done"
             ELSE pc' = "paging" /\ locals' = [cursor |-> cursor]
    BY DEF PageGoesOn, PageServed, EndsAtEmptyPage, Return, Continue
<1>2. call \in Calls /\ excused \subseteq Positions(call) /\ pc \notin Stopped
    BY <1>1 DEF IInv, ClientTypes, PageServed, Stopped
<1>3. /\ answer' \in Seq(Positions(call)) /\ AnswersAreOrdered'
      /\ Range(answer') = {i \in Wanted(call) : i <= LastOfPage}
    <2>1. answer' = answer \o Ascending(WithinTarget(Page)) /\ UNCHANGED call
        BY <1>1
    <2> QED BY <1>1, <2>1, PageCollected
<1>4. /\ LastOfPage \in 0 .. Len(Chain(call)) /\ LastOfPage <= Upto(head)
      /\ FirstAfterCursor \in 1 .. Len(Chain(call)) + 1
      /\ Upto(call.from - 1) < FirstAfterCursor /\ FirstAfterCursor - 1 <= LastOfPage
    BY <1>1, PageFacts
<1>5. /\ Len(Chain(call)) \in Nat /\ Upto(head) \in 0 .. Len(Chain(call))
      /\ Upto(call.from - 1) \in 0 .. Len(Chain(call)) /\ call.from \in Nat
      /\ Positions(call) = 1 .. Len(Chain(call))
    <2>1. call.from \in Nat /\ head \in Int /\ call.from - 1 \in Int
        BY <1>2, RangeFacts DEF IInv, ClientTypes
    <2> QED BY <1>2, <2>1, ChainFacts, UptoFacts
<1>6. cursor = {LastOfPage} \/ (cursor = {} /\ ~(LastOfPage < Upto(head)))
    BY <1>1, Zenon DEF Cursors
<1>7. CASE EndsPaging(cursor)
    <2>1. ASSUME NEW i \in Expected \ excused
          PROVE  i <= LastOfPage
        <3>1. i \in Positions(call) /\ i <= Upto(head)
            BY <1>1, LaterIsServed
        <3>2. CASE cursor = {}
            BY <1>4, <1>5, <1>6, <3>1, <3>2
        <3>3. CASE cursor = {LastOfPage}
            <4>1. call.method = "blocks" /\ At(LastOfPage) = call.from
                BY <1>7, <3>3 DEF EndsPaging
            <4> QED BY <1>1, <4>1, StartIsReachedOnce
        <3> QED BY <1>6, <3>2, <3>3
    <2>2. Expected \ excused' \subseteq Range(answer')
        BY <1>1, <1>2, <1>3, <2>1, WantedFacts
    <2> QED BY <1>1, <1>2, <1>3, <1>7, <2>2, CallReturns
<1>8. CASE ~EndsPaging(cursor)
    <2>1. /\ pc' = "paging" /\ locals' = [cursor |-> {LastOfPage}]
          /\ call.method = "blocks" => At(LastOfPage) # call.from
        BY <1>1, <1>6, <1>8 DEF EndsPaging
    <2>2. ClientTypes' /\ UnservedIsExcused'
        BY <1>1, <1>2, <1>3, <2>1, CallGoesOn DEF Labels, Stopped
    <2>3. LabelsOK' /\ SlotsOK' /\ SignaturesOK' /\ TransactionsOK' /\ AnswersAreComplete'
        <3>1. call.chain = "Stellar" /\ call.from <= Target(call)
            BY <1>1 DEF IInv, LabelsOK, PageServed
        <3> QED BY <1>1, <2>1, <3>1 DEF LabelsOK, SlotsOK, SignaturesOK, TransactionsOK,
                                        AnswersAreComplete
    <2>4. call.method = "blocks" => LastOfPage \in Positions(call) /\ At(LastOfPage) > call.from
        <3> SUFFICES ASSUME call.method = "blocks"
                     PROVE  LastOfPage \in Positions(call) /\ At(LastOfPage) > call.from
            OBVIOUS
        <3>1. FirstAfterCursor <= LastOfPage
            BY <1>1, <1>4, <1>5 DEF Page
        <3>2. LastOfPage \in Positions(call) /\ ~(LastOfPage <= Upto(call.from - 1))
            BY <1>4, <1>5, <3>1
        <3> DEFINE h == call.from - 1
        <3>3. h \in Int /\ ~(LastOfPage <= Upto(h))
            BY <1>5, <3>2
        <3> HIDE DEF h
        <3>4. ~(At(LastOfPage) <= h) /\ At(LastOfPage) \in Nat
            BY <1>2, <3>2, <3>3, UptoFacts, ChainFacts
        <3> QED BY <1>5, <2>1, <3>2, <3>4 DEF h
    <2>5. PagesOK'
        <3>1. /\ LastOfPage \in 0 .. Len(Chain(call)) /\ locals'.cursor = {LastOfPage}
              /\ Upto(call.from - 1) <= LastOfPage /\ LastOfPage <= Upto(head)
            BY <1>4, <1>5, <2>1
        <3>2. /\ Upto(head)' = Upto(head) /\ Upto(call.from - 1)' = Upto(call.from - 1)
              /\ \A i : At(i)' = At(i)
            BY <1>1 DEF Upto, At
        <3>3. PICK k \in 0 .. Len(Chain(call)) : k = LastOfPage
            BY <3>1
        <3>4. /\ locals'.cursor = {k} /\ Upto(call.from - 1) <= k /\ k <= Upto(head)
              /\ Range(answer') = {i \in Wanted(call) : i <= k}
              /\ call.method = "blocks" => k \in Positions(call) /\ At(k) > call.from
            BY <1>3, <2>4, <3>1, <3>3
        <3>5. At(k)' = At(k) /\ call' = call
            BY <1>1, <3>2
        <3> QED BY <3>2, <3>4, <3>5 DEF PagesOK
    <2> QED BY <1>3, <2>2, <2>3, <2>5 DEF IInv
<1> QED BY <1>7, <1>8

\* The pages of Stellar.
LEMMA PagingStep ==
    ASSUME IInv, Paging
    PROVE  IInv'
<1>1. CASE AskForPage
    <2>1. pc = "paging" /\ pc' = "waiting" /\ UNCHANGED <<call, head, locals, answer, excused>>
        BY <1>1 DEF AskForPage
    <2>2. ClientTypes' /\ UnservedIsExcused'
        BY <2>1, CallGoesOn DEF IInv, ClientTypes, Labels, Stopped
    <2>3. /\ Upto(head)' = Upto(head) /\ Upto(call.from - 1)' = Upto(call.from - 1)
          /\ \A i : At(i)' = At(i)
          /\ \A i, j : Precedes(i, j)' = Precedes(i, j)
        BY <2>1 DEF Upto, At, Precedes
    <2>4. PagesOK'
        BY <2>1, <2>3 DEF IInv, PagesOK
    <2>5. LabelsOK' /\ SlotsOK' /\ SignaturesOK' /\ TransactionsOK' /\ AnswersAreComplete'
        BY <2>1 DEF IInv, LabelsOK, SlotsOK, SignaturesOK, TransactionsOK, AnswersAreComplete
    <2>6. AnswersAreOrdered'
        BY <2>1, <2>3, Frame DEF IInv, AnswersAreOrdered
    <2> QED BY <2>2, <2>4, <2>5, <2>6 DEF IInv
<1> QED BY <1>1, PageReachesTargetStep, PageIsEmptyStep, PageGoesOnStep DEF Paging

-----------------------------------------------------------------------------
(* The steps: Solana without addresses.                                    *)

\* A call that goes on fetching.
LEMMA FetchingGoesOn ==
    ASSUME IInv, pc \notin Stopped, UNCHANGED <<call, head>>, pc' = "fetching",
           call.chain = "Solana" /\ Method(call) = "blocks" /\ call.from <= Target(call),
           excused \subseteq excused', excused' \subseteq Positions(call),
           answer' \in Seq(Positions(call)), AnswersAreOrdered',
           NEW slots, locals' = [slots |-> slots], slots \subseteq call.from .. Target(call),
           \A i \in Range(answer') : \A slot \in slots : At(i) < slot,
           \A i \in Wanted(call) \ excused' : i \in Range(answer') \/ At(i) \in slots
    PROVE  IInv'
<1>1. ClientTypes' /\ UnservedIsExcused'
    BY CallGoesOn DEF Labels, Stopped
<1>2. /\ LabelsOK' /\ PagesOK' /\ SignaturesOK' /\ TransactionsOK' /\ AnswersAreComplete'
    BY DEF LabelsOK, PagesOK, SignaturesOK, TransactionsOK, AnswersAreComplete
<1>3. \A i : At(i)' = At(i)
    BY DEF At
<1>4. SlotsOK'
    BY <1>3 DEF SlotsOK
<1> QED BY <1>1, <1>2, <1>4 DEF IInv

\* The slots listed are those of the range that the node serves.
LEMMA ListSlotsStep ==
    ASSUME IInv, ListSlots
    PROVE  IInv'
<1>1. /\ pc = "listing" /\ UNCHANGED <<call, head, excused>> /\ answer = <<>>
      /\ call \in Calls /\ head \in Nat /\ excused \subseteq Positions(call)
      /\ call.chain = "Solana" /\ Method(call) = "blocks" /\ call.from <= Target(call)
    BY DEF ListSlots, IInv, LabelsOK, ClientTypes
<1> DEFINE slots == IF call.from = Target(call) THEN {call.from}
                    ELSE {At(i) : i \in Wanted(call) \cap Served}
<1>2. \/ slots = {} /\ pc' = "done" /\ answer' = <<>>
      \/ pc' = "fetching" /\ locals' = [slots |-> slots] /\ answer' = answer
    BY DEF ListSlots, Return, Continue
<1>3. /\ call.from \in Nat /\ Target(call) \in Nat
      /\ Expected = Wanted(call)
      /\ \A i \in Wanted(call) : /\ i \in Positions(call) /\ At(i) \in Nat
                                 /\ call.from <= At(i) /\ At(i) <= Target(call)
    BY <1>1, RangeFacts, WantedFacts, ChainFacts
<1>4. slots \subseteq call.from .. Target(call)
    BY <1>1, <1>3
<1>5. ASSUME NEW i \in Wanted(call) \ excused
      PROVE  At(i) \in slots
    <2>1. CASE call.from = Target(call)
        <3>1. At(i) = call.from
            BY <2>1, <1>3
        <3> QED BY <2>1, <3>1
    <2>2. CASE call.from # Target(call)
        <3>1. ~(At(i) > head)
            BY <1>1, <1>3 DEF IInv, UnservedIsExcused
        <3>2. i \in Served
            BY <1>1, <1>3, <3>1 DEF Served
        <3> QED BY <2>2, <3>2
    <2> QED BY <2>1, <2>2
<1> HIDE DEF slots
<1>6. answer' = <<>> /\ answer' \in Seq(Positions(call)) /\ Range(answer') = {} /\ AnswersAreOrdered'
    BY <1>1, <1>2, EmptyFacts, NothingIsOrdered
<1>7. CASE slots = {} /\ pc' = "done"
    BY <1>1, <1>3, <1>5, <1>6, <1>7, CallReturns DEF Stopped
<1>8. CASE pc' = "fetching" /\ locals' = [slots |-> slots]
    BY <1>1, <1>4, <1>5, <1>6, <1>8, FetchingGoesOn DEF Stopped
<1> QED BY <1>2, <1>7, <1>8

\* One slot less to fetch, whatever came of it.
LEMMA FetchStep ==
    ASSUME IInv, pc = "fetching", UNCHANGED <<call, head>>, NEW slot, NEW items,
           Fetch(slot, items), items \in Seq(Positions(call)),
           excused \subseteq excused', excused' \subseteq Positions(call),
           answer' = items => AnswersAreOrdered',
           \A i \in Range(items) : i \in Range(answer) \/ At(i) = slot,
           Range(answer) \subseteq Range(items),
           \A i \in Wanted(call) : At(i) = slot => i \in Range(items) \cup excused'
    PROVE  IInv'
<1>1. /\ call.chain = "Solana" /\ Method(call) = "blocks" /\ call.from <= Target(call)
      /\ call \in Calls /\ pc \notin Stopped /\ Expected = Wanted(call)
    BY WantedFacts DEF IInv, LabelsOK, ClientTypes, Stopped
<1>2. /\ IsNext(slot) /\ answer' = items
      /\ IF locals.slots = {slot} THEN pc' = "done"
         ELSE pc' = "fetching" /\ locals' = [slots |-> locals.slots \ {slot}]
    BY DEF Fetch, Return, Continue
<1>3. /\ locals.slots \subseteq call.from .. Target(call) /\ slot \in locals.slots
      /\ \A i \in Range(answer) : \A s \in locals.slots : At(i) < s
      /\ \A i \in Wanted(call) \ excused : i \in Range(answer) \/ At(i) \in locals.slots
      /\ \A s \in locals.slots : slot <= s
    BY <1>2 DEF IInv, SlotsOK, IsNext
<1>4. \A i \in Wanted(call) \ excused' : i \in Range(answer') \/ At(i) \in locals.slots \ {slot}
    BY <1>2, <1>3
<1>5. CASE locals.slots = {slot}
    <2>1. Expected \ excused' \subseteq Range(answer')
        BY <1>1, <1>4, <1>5
    <2> QED BY <1>1, <1>2, <1>5, <2>1, CallReturns
<1>6. CASE locals.slots # {slot}
    <2> DEFINE left == locals.slots \ {slot}
    <2>1. left \subseteq call.from .. Target(call) /\ locals' = [slots |-> left] /\ pc' = "fetching"
        BY <1>2, <1>3, <1>6
    <2>2. ASSUME NEW i \in Range(answer'), NEW s \in left
          PROVE  At(i) < s
        <3>1. s \in Int /\ slot \in Int /\ slot < s
            <4>1. call.from \in Nat /\ Target(call) \in Nat
                BY <1>1, RangeFacts
            <4> QED BY <1>3, <4>1
        <3> QED BY <1>2, <1>3, <3>1
    <2> HIDE DEF left
    <2>3. \A i \in Wanted(call) \ excused' : i \in Range(answer') \/ At(i) \in left
        BY <1>4 DEF left
    <2> QED BY <1>1, <1>2, <2>1, <2>2, <2>3, FetchingGoesOn
<1> QED BY <1>5, <1>6

\* The block of the next slot comes after those before.
LEMMA FetchSlotStep ==
    ASSUME IInv, FetchSlot
    PROVE  IInv'
<1>1. PICK i \in Served : Fetch(At(i), Append(answer, i))
    BY DEF FetchSlot
<1>2. /\ pc = "fetching" /\ UNCHANGED <<call, head, excused>> /\ call \in Calls
      /\ excused \subseteq Positions(call)
      /\ call.chain = "Solana" /\ Method(call) = "blocks" /\ call.method # "events"
      /\ Method(call) # "signatures"
    <2>1. /\ pc = "fetching" /\ UNCHANGED <<call, head, excused>> /\ call \in Calls
          /\ excused \subseteq Positions(call)
          /\ call.chain = "Solana" /\ Method(call) = "blocks"
        BY DEF FetchSlot, IInv, ClientTypes, LabelsOK
    <2> QED BY <2>1, MethodFacts
<1>3. /\ At(i) \in locals.slots /\ At(i) \in call.from .. Target(call)
      /\ \A j \in Range(answer) : At(j) < At(i)
    BY <1>1, <1>2 DEF Fetch, IsNext, IInv, SlotsOK
<1>4. i \in Positions(call) /\ i \in Wanted(call)
    <2>1. i \in Positions(call) /\ Chain(call)[i].id # 0 /\ call.from \in Nat /\ Target(call) \in Nat
        BY <1>2, WantedFacts, ChainFacts, RangeFacts
    <2> QED BY <1>2, <1>3, <2>1, WantedFacts
<1>5. /\ answer \in Seq(Positions(call)) /\ Range(answer) \subseteq Wanted(call)
      /\ \A k, l \in 1 .. Len(answer) : k < l => answer[k] < answer[l]
    BY <1>2, CollectedFacts
<1>6. /\ Append(answer, i) \in Seq(Positions(call))
      /\ Range(Append(answer, i)) = Range(answer) \cup {i}
    BY <1>4, <1>5, RangeOfAppend, AppendProperties
<1>7. \A k, l \in 1 .. Len(Append(answer, i)) : k < l => Append(answer, i)[k] < Append(answer, i)[l]
    <2>1. Positions(call) \subseteq Nat
        BY <1>2, ChainFacts
    <2>2. \A j \in Range(answer) : j < i
        BY <1>2, <1>3, <1>4, <1>5, WantedFacts, ChainFacts
    <2>3. answer \in Seq(Nat) /\ i \in Nat
        BY <1>4, <1>5, <2>1, SeqOfSuperset
    <2> QED BY <1>5, <2>2, <2>3, AscendingAppend
<1>8. answer' = Append(answer, i) => AnswersAreOrdered'
    <2> SUFFICES ASSUME answer' = Append(answer, i)
                 PROVE  AnswersAreOrdered'
        OBVIOUS
    <2>1. Range(answer') \subseteq Wanted(call)
        BY <1>4, <1>5, <1>6
    <2> QED BY <1>2, <1>6, <1>7, <2>1, AscendingIsOrdered
<1>9. ASSUME NEW j \in Wanted(call), At(j) = At(i)
      PROVE  j = i
    <2>1. j \in Positions(call)
        BY <1>2, WantedFacts
    <2> QED BY <1>2, <1>4, <1>9, <2>1, ChainFacts
<1> DEFINE slot == At(i)
           items == Append(answer, i)
<1>10. /\ Fetch(slot, items) /\ items \in Seq(Positions(call))
       /\ answer' = items => AnswersAreOrdered'
       /\ \A j \in Range(items) : j \in Range(answer) \/ At(j) = slot
       /\ Range(answer) \subseteq Range(items)
       /\ \A j \in Wanted(call) : At(j) = slot => j \in Range(items) \cup excused'
    BY <1>1, <1>6, <1>8, <1>9
<1> HIDE DEF slot, items
<1> QED BY <1>2, <1>10, FetchStep

\* A slot without a block is left out.
LEMMA SlotUnavailableStep ==
    ASSUME IInv, SlotUnavailable
    PROVE  IInv'
<1>1. PICK slot \in locals.slots :
          Fetch(slot, answer) /\ excused' = excused \cup {i \in Served : At(i) = slot}
    BY DEF SlotUnavailable
<1>2. /\ pc = "fetching" /\ UNCHANGED <<call, head>> /\ call \in Calls /\ head \in Nat
      /\ excused \subseteq Positions(call) /\ answer \in Seq(Positions(call))
      /\ Expected = Wanted(call)
    BY WantedFacts DEF SlotUnavailable, IInv, ClientTypes, LabelsOK
<1>3. excused \subseteq excused' /\ excused' \subseteq Positions(call)
    BY <1>1, <1>2 DEF Served
<1>4. answer' = answer => AnswersAreOrdered'
    <2>1. \A i, j : Precedes(i, j)' = Precedes(i, j)
        BY <1>2 DEF Precedes, At
    <2> QED BY <1>2, <2>1, Frame DEF IInv, AnswersAreOrdered
<1>5. ASSUME NEW i \in Wanted(call), At(i) = slot
      PROVE  i \in excused'
    <2>1. i \in Positions(call) /\ At(i) \in Nat
        BY <1>2, WantedFacts, ChainFacts
    <2>2. CASE At(i) > head
        BY <1>2, <1>3, <2>2 DEF IInv, UnservedIsExcused
    <2>3. CASE ~(At(i) > head)
        BY <1>1, <1>2, <1>5, <2>1, <2>3 DEF Served
    <2> QED BY <2>2, <2>3
<1> QED BY <1>1, <1>2, <1>3, <1>4, <1>5, FetchStep

-----------------------------------------------------------------------------
(* The steps: Solana with addresses.                                       *)

\* An item with fewer than a page of others after it is in the newest page.
LEMMA NewestKeeps ==
    ASSUME NEW S, IsFiniteSet(S), NEW T, T \subseteq S, NEW i \in T,
           \A j \in S : j > i => j \in T, ~(i > i), ~(Cardinality(T) > PAGE_LIMIT)
    PROVE  i \in Newest(S)
<1> DEFINE Newer == {j \in S : j > i}
<1>1. Newer \subseteq T \ {i}
    OBVIOUS
<1> HIDE DEF Newer
<1>2. IsFiniteSet(T)
    BY FS_Subset
<1>3. IsFiniteSet(T \ {i}) /\ Cardinality(T \ {i}) = Cardinality(T) - 1
    BY <1>2, FS_RemoveElement
<1>4. IsFiniteSet(Newer) /\ Cardinality(Newer) <= Cardinality(T \ {i})
    BY <1>1, <1>3, FS_Subset
<1>5. Cardinality(T) \in Nat /\ Cardinality(T \ {i}) \in Nat /\ Cardinality(Newer) \in Nat
    BY <1>2, <1>3, <1>4, FS_CardinalityType
<1>6. Cardinality(Newer) < PAGE_LIMIT
    BY <1>3, <1>4, <1>5, LimitsAssumption
<1> QED BY <1>6 DEF Newest, Newer

\* What an address's page brings is expected.
LEMMA FilteredIsExpected ==
    ASSUME IInv, pc = "signatures"
    PROVE  /\ Filtered \subseteq Expected /\ Oldest \subseteq Positions(call)
           /\ Cardinality(Filtered) \in Nat
<1>1. locals.address \in Addresses(call)
    BY DEF IInv, SignaturesOK
<1>2. Batch \subseteq {i \in Served : locals.address \in Chain(call)[i].involves}
    BY DEF Batch, Newest
<1>3. Filtered \subseteq Expected
    BY <1>1, <1>2 DEF Filtered, Expected
<1>4. call \in Calls
    BY DEF IInv, ClientTypes
<1>5. Filtered \subseteq Positions(call) /\ IsFiniteSet(Positions(call))
    BY <1>4, ChainFacts, WantedFacts, UpToCardinality DEF Filtered
<1>6. IsFiniteSet(Filtered)
    BY <1>5, FS_Subset
<1> QED BY <1>3, <1>5, <1>6, FS_CardinalityType DEF Oldest

\* Unless the page is too small, the first page of an address brings all that is expected of it.
LEMMA AskedIsKnown ==
    ASSUME IInv, pc = "signatures", ~ExceedsPage, NEW i \in Expected \ excused
    PROVE  \/ i \in locals.signatures \cup Filtered
           \/ Chain(call)[i].involves \cap locals.addresses # {}
<1>1. /\ call \in Calls /\ head \in Nat /\ Method(call) = "signatures"
      /\ locals.address \in Addresses(call)
      /\ i \in locals.signatures \/ Chain(call)[i].involves \cap ToAsk # {}
    BY DEF IInv, ClientTypes, LabelsOK, SignaturesOK
<1>2. /\ i \in Wanted(call) /\ i \in Positions(call) /\ call.from <= At(i)
      /\ call.from \in Nat /\ \A j \in Positions(call) : At(j) \in Nat
      /\ Positions(call) = 1 .. Len(Chain(call)) /\ Len(Chain(call)) \in Nat
      /\ \A j, k \in Positions(call) : j < k => At(j) <= At(k)
    BY <1>1, WantedFacts, ChainFacts, RangeFacts
<1>3. SUFFICES ASSUME locals.until = {}, locals.address \in Chain(call)[i].involves
               PROVE  i \in Filtered
    BY <1>1 DEF ToAsk
<1> DEFINE S == {j \in Served : locals.address \in Chain(call)[j].involves}
           T == {j \in Served : At(j) >= call.from /\ locals.address \in Chain(call)[j].involves}
<1>4. Batch = Newest(S)
    <2>1. \A j : After(j)
        BY <1>3 DEF After
    <2> QED BY <2>1 DEF Batch
<1>5. i \in T
    <2>1. ~(At(i) > head)
        BY DEF IInv, UnservedIsExcused
    <2>2. i \in Served
        BY <1>1, <1>2, <2>1 DEF Served
    <2> QED BY <1>2, <1>3, <2>2
<1>6. T \subseteq S /\ S \subseteq Positions(call)
    BY DEF Served
<1>7. ~(Cardinality(T) > PAGE_LIMIT)
    BY <1>1 DEF ExceedsPage
<1>8. \A j \in S : j > i => j \in T
    <2> SUFFICES ASSUME NEW j \in S, j > i
                 PROVE  At(j) >= call.from
        OBVIOUS
    <2>1. j \in Positions(call)
        BY <1>6
    <2>2. At(i) <= At(j)
        BY <1>2, <2>1
    <2> QED BY <1>2, <2>1, <2>2
<1> HIDE DEF S, T
<1>9. IsFiniteSet(S) /\ ~(i > i)
    <2>1. IsFiniteSet(Positions(call))
        BY <1>2, UpToCardinality
    <2> QED BY <1>2, <1>6, <2>1, FS_Subset
<1>10. i \in Newest(S)
    BY <1>5, <1>6, <1>7, <1>8, <1>9, NewestKeeps
<1> QED BY <1>2, <1>4, <1>10 DEF Filtered

\* Whichever way the pages of the addresses end, what they owe is known or still to be asked.
LEMMA SignaturesStep ==
    ASSUME IInv, Signatures
    PROVE  IInv'
<1> DEFINE all == locals.signatures \cup Filtered
<1>1. /\ pc = "signatures" /\ UNCHANGED <<call, head, excused>> /\ answer = <<>>
      /\ Method(call) = "signatures" /\ excused \subseteq Positions(call)
      /\ locals \in [address : Addresses(call), addresses : SUBSET Addresses(call),
                     until : SUBSET Positions(call), count : Nat, signatures : SUBSET Expected]
      /\ all \subseteq Expected /\ Oldest \subseteq Positions(call)
    BY FilteredIsExpected DEF Signatures, IInv, ClientTypes, LabelsOK, SignaturesOK
<1>2. ~ExceedsPage => \A i \in Expected \ excused :
          i \in all \/ Chain(call)[i].involves \cap locals.addresses # {}
    BY <1>1, AskedIsKnown
<1>3. \/ /\ pc' = "signatures" /\ answer' = answer
         /\ \E count \in Nat : locals' = [locals EXCEPT !.until = Oldest, !.count = count, !.signatures = all]
      \/ /\ pc' = "signatures" /\ answer' = answer
         /\ \E a \in locals.addresses :
               locals' = [address |-> a, addresses |-> locals.addresses \ {a}, until |-> {},
                          count |-> 0, signatures |-> all]
      \/ /\ pc' = "transactions" /\ answer' = answer /\ locals.addresses = {}
         /\ locals' = [wanted |-> all, got |-> {}]
      \/ pc' = "done" /\ answer' = <<>> /\ locals.addresses = {} /\ all = {}
    <2>1. locals.count + Cardinality(Filtered) \in Nat
        BY <1>1, FilteredIsExpected
    <2> QED BY <2>1 DEF Signatures, NextAddress, Continue, Return
<1>4. answer' = <<>> /\ answer' \in Seq(Positions(call)) /\ Range(answer') = {} /\ AnswersAreOrdered'
    BY <1>1, <1>3, EmptyFacts, NothingIsOrdered
<1>5. CASE pc' = "done" /\ locals.addresses = {} /\ all = {}
    BY <1>1, <1>2, <1>4, <1>5, CallReturns DEF Stopped
<1>6. CASE pc' \in {"signatures", "transactions"}
    <2>1. ClientTypes' /\ UnservedIsExcused'
        BY <1>1, <1>4, <1>6, CallGoesOn DEF Labels, Stopped
    <2>2. LabelsOK' /\ PagesOK' /\ SlotsOK' /\ AnswersAreComplete'
        BY <1>1, <1>4, <1>6 DEF LabelsOK, PagesOK, SlotsOK, AnswersAreComplete
    <2>3. Expected' = Expected /\ ExceedsPage' = ExceedsPage
        BY <1>1, Frame
    <2>4. TransactionsOK'
        <3> SUFFICES ASSUME pc' = "transactions"
                     PROVE  TransactionsOK'
            BY DEF TransactionsOK
        <3>1. locals.addresses = {} /\ locals' = [wanted |-> all, got |-> {}]
            BY <1>3
        <3> HIDE DEF all
        <3>2. locals'.wanted \cup locals'.got = all
            BY <3>1
        <3> QED BY <1>1, <1>2, <2>3, <3>1, <3>2 DEF TransactionsOK
    <2>5. SignaturesOK'
        <3> SUFFICES ASSUME pc' = "signatures"
                     PROVE  SignaturesOK'
            BY DEF SignaturesOK
        <3> HIDE DEF all
        <3>1. CASE \E count \in Nat : locals' = [locals EXCEPT !.until = Oldest, !.count = count, !.signatures = all]
            <4>1. PICK count \in Nat :
                      locals' = [locals EXCEPT !.until = Oldest, !.count = count, !.signatures = all]
                BY <3>1
            <4>2. /\ locals'.addresses = locals.addresses /\ locals'.signatures = all
                  /\ locals' \in [address : Addresses(call), addresses : SUBSET Addresses(call),
                                  until : SUBSET Positions(call), count : Nat,
                                  signatures : SUBSET Expected]
                BY <1>1, <4>1
            <4>3. ASSUME NEW i \in Expected \ excused, ~ExceedsPage
                  PROVE  i \in locals'.signatures \/ Chain(call)[i].involves \cap ToAsk' # {}
                BY <1>2, <4>2, <4>3 DEF ToAsk
            <4> QED BY <1>1, <2>3, <4>2, <4>3 DEF SignaturesOK
        <3>2. CASE \E a \in locals.addresses :
                      locals' = [address |-> a, addresses |-> locals.addresses \ {a}, until |-> {},
                                 count |-> 0, signatures |-> all]
            <4>1. PICK a \in locals.addresses :
                      locals' = [address |-> a, addresses |-> locals.addresses \ {a}, until |-> {},
                                 count |-> 0, signatures |-> all]
                BY <3>2
            <4>2. /\ ToAsk' = locals.addresses /\ locals'.signatures = all
                  /\ locals' \in [address : Addresses(call), addresses : SUBSET Addresses(call),
                                  until : SUBSET Positions(call), count : Nat,
                                  signatures : SUBSET Expected]
                BY <1>1, <4>1 DEF ToAsk
            <4> QED BY <1>1, <1>2, <2>3, <4>2 DEF SignaturesOK
        <3> QED BY <1>3, <3>1, <3>2
    <2> QED BY <1>4, <2>1, <2>2, <2>4, <2>5 DEF IInv
<1> QED BY <1>3, <1>5, <1>6

\* A transaction that comes, or is dropped.
LEMMA TransactionStep ==
    ASSUME IInv, Transaction \/ TransactionIsDropped
    PROVE  IInv'
<1>1. PICK i \in locals.wanted :
          /\ pc = "transactions" /\ UNCHANGED <<call, head, pc, answer>>
          /\ \/ /\ locals' = [locals EXCEPT !.wanted = @ \ {i}, !.got = @ \cup {i}]
                /\ excused' = excused
             \/ /\ locals' = [locals EXCEPT !.wanted = @ \ {i}]
                /\ excused' = excused \cup {i}
    BY DEF Transaction, TransactionIsDropped
<1>2. /\ locals \in [wanted : SUBSET Expected, got : SUBSET Expected]
      /\ ~ExceedsPage => Expected \ excused \subseteq locals.wanted \cup locals.got
      /\ call \in Calls /\ answer \in Seq(Positions(call)) /\ answer = <<>>
      /\ excused \subseteq Positions(call)
    BY <1>1 DEF IInv, TransactionsOK, ClientTypes, LabelsOK
<1>3. i \in Positions(call) /\ i \in Expected
    BY <1>1, <1>2, WantedFacts
<1>4. Expected' = Expected /\ ExceedsPage' = ExceedsPage
    BY <1>1, Frame
<1>5. ClientTypes' /\ UnservedIsExcused'
    BY <1>1, <1>2, <1>3, CallGoesOn DEF Labels, Stopped
<1>6. LabelsOK' /\ PagesOK' /\ SlotsOK' /\ SignaturesOK' /\ AnswersAreComplete'
    BY <1>1 DEF IInv, LabelsOK, PagesOK, SlotsOK, SignaturesOK, AnswersAreComplete
<1>7. locals' \in [wanted : SUBSET Expected, got : SUBSET Expected]
    BY <1>1, <1>2
<1>8. ~ExceedsPage => Expected \ excused' \subseteq locals'.wanted \cup locals'.got
    BY <1>1, <1>2
<1>9. TransactionsOK'
    BY <1>1, <1>4, <1>7, <1>8 DEF TransactionsOK
<1>10. AnswersAreOrdered'
    BY <1>1, <1>2, NothingIsOrdered
<1> QED BY <1>5, <1>6, <1>9, <1>10 DEF IInv

\* The virtual blocks hold every transaction that came, each once.
LEMMA GroupStep ==
    ASSUME IInv, Group
    PROVE  IInv'
<1> DEFINE got == locals.got
           n == Cardinality(got)
<1>1. PICK s \in Orders(got) :
          /\ pc = "transactions" /\ UNCHANGED <<call, head, excused>> /\ locals.wanted = {}
          /\ \A i, j \in DOMAIN s : i < j => At(s[i]) <= At(s[j])
          /\ pc' = "done" /\ answer' = s
    BY DEF Group, Return
<1>2. /\ got \subseteq Expected
      /\ ~ExceedsPage => Expected \ excused \subseteq got
      /\ call \in Calls /\ excused \subseteq Positions(call) /\ Method(call) = "signatures"
    BY <1>1 DEF IInv, TransactionsOK, ClientTypes, LabelsOK
<1>3. got \subseteq Positions(call) /\ IsFiniteSet(got) /\ n \in Nat
    <2>1. got \subseteq Positions(call) /\ IsFiniteSet(Positions(call))
        BY <1>2, WantedFacts, ChainFacts, UpToCardinality
    <2> HIDE DEF got
    <2> QED BY <2>1, FS_Subset, FS_CardinalityType
<1>4. s \in [1 .. n -> got] /\ IsInjective(s)
    BY <1>1 DEF Orders
<1> HIDE DEF got, n
<1>5. DOMAIN s = 1 .. n /\ s \in Seq(got)
    BY <1>3, <1>4
<1>6. Range(s) = got
    <2>1. s \in Injection(1 .. n, got) /\ Cardinality(1 .. n) = n
        BY <1>3, <1>4, UpToCardinality DEF Injection
    <2>2. s \in Surjection(1 .. n, got)
        BY <2>1, <1>3, FS_Injection DEF n
    <2> QED BY <2>2, <1>4 DEF Surjection, Range
<1>7. answer' \in Seq(Positions(call))
    BY <1>1, <1>3, <1>5, SeqOfSuperset
<1>8. AnswersAreOrdered'
    <2>1. ASSUME NEW i \in DOMAIN s, NEW j \in DOMAIN s, i < j
          PROVE  s[i] # s[j] /\ At(s[i]) <= At(s[j])
        <3>1. i # j
            BY <2>1, <1>3, <1>5
        <3> QED BY <2>1, <3>1, <1>1, <1>4 DEF IsInjective
    <2>2. \A x, y : Precedes(x, y)' = (x # y /\ At(x) <= At(y))
        BY <1>1, <1>2 DEF Precedes, At
    <2>3. Expected' = Expected
        BY <1>1, Frame
    <2> QED BY <1>1, <1>2, <1>6, <2>1, <2>2, <2>3 DEF AnswersAreOrdered
<1>9. ~ExceedsPage => Expected \ excused' \subseteq Range(answer')
    BY <1>1, <1>2, <1>6
<1> QED BY <1>1, <1>2, <1>7, <1>8, <1>9, CallReturns DEF Stopped

-----------------------------------------------------------------------------

\* Every step keeps the invariant.
LEMMA Inductive == IInv /\ [Next]_vars => IInv'
<1> SUFFICES ASSUME IInv, [Next]_vars
             PROVE  IInv'
    OBVIOUS
<1>1. ASSUME NEW c \in Calls, Start(c)
      PROVE  IInv'
    BY <1>1, StartStep
<1>2. CASE Step
    BY <1>2, JoiningStep, PagingStep, ListSlotsStep, FetchSlotStep, SlotUnavailableStep,
       SignaturesStep, TransactionStep, GroupStep DEF Step
<1>3. CASE Fail
    BY <1>3, FailStep
<1>4. CASE Grow
    BY <1>4, GrowStep
<1>5. CASE UNCHANGED vars
    <2>1. UNCHANGED <<call, head, pc, locals, answer, excused>>
        BY <1>5 DEF vars
    <2>2. /\ Expected' = Expected /\ ExceedsPage' = ExceedsPage /\ ToAsk' = ToAsk
          /\ Upto(head)' = Upto(head) /\ Upto(call.from - 1)' = Upto(call.from - 1)
          /\ \A i : At(i)' = At(i)
          /\ \A i, j : Precedes(i, j)' = Precedes(i, j)
        BY <2>1, Frame DEF ToAsk, Upto, At, Precedes
    <2>3. ClientTypes' /\ LabelsOK' /\ UnservedIsExcused'
        BY <2>1, <2>2 DEF IInv, ClientTypes, LabelsOK, UnservedIsExcused
    <2>4. PagesOK' /\ SlotsOK'
        BY <2>1, <2>2 DEF IInv, PagesOK, SlotsOK
    <2>5. SignaturesOK' /\ TransactionsOK'
        BY <2>1, <2>2 DEF IInv, SignaturesOK, TransactionsOK
    <2>6. AnswersAreOrdered' /\ AnswersAreComplete'
        BY <2>1, <2>2 DEF IInv, AnswersAreOrdered, AnswersAreComplete
    <2> QED BY <2>3, <2>4, <2>5, <2>6 DEF IInv
<1> QED BY <1>1, <1>2, <1>3, <1>4, <1>5 DEF Next

\* The invariant holds in every reachable state.
THEOREM ClientsInvariance == Spec => []IInv
BY Initial, Inductive, PTL DEF Spec

\* A call that succeeds has all of its range that the nodes served, for every chain, page
\* size and growth of the chain (get_blocks, get_transactions, get_events).
THEOREM AnswersStayComplete == Spec => []AnswersAreComplete
<1>1. IInv => AnswersAreComplete
    BY DEF IInv
<1> QED BY <1>1, ClientsInvariance, PTL

\* What a call has collected is in the order of the chain and in it once.
THEOREM AnswersStayOrdered == Spec => []AnswersAreOrdered
<1>1. IInv => AnswersAreOrdered
    BY DEF IInv
<1> QED BY <1>1, ClientsInvariance, PTL
=============================================================================
