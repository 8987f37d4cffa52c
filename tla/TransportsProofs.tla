-------------------------- MODULE TransportsProofs --------------------------
(***************************************************************************)
(* Proofs about Transports, for any number of tasks, any configuration of  *)
(* distinct URLs and any changes of the endpoints: rotations are atomic    *)
(* and lose no URL, a WebSocket's stream belongs to the active URL, and no *)
(* request returns another's answer.                                       *)
(***************************************************************************)
EXTENDS Transports, SequenceLemmas

-----------------------------------------------------------------------------
(* The inductive invariants.                                               *)

Known == Range(rpc_urls)

HttpStages == {"idle", "asking", "answered", "refused", "failed", "locking", "connecting", "updating", "listing", "rotated"}

\* A task rotates while it holds the lock, and no other does.  The fallbacks are then all URLs but the
\* one that it rotates away from, and its candidate is one of them.
HttpInv ==
    /\ pc \in [Tasks -> HttpStages]
    /\ rotation_lock \in Tasks \cup {NoTask}
    /\ \A t \in Tasks : pc[t] \in {"connecting", "updating", "listing"} <=> rotation_lock = t
    /\ new_url \in [Tasks -> Known] /\ initial_active \in [Tasks -> Known]
    /\ rotation_lock = NoTask => Range(fallback_urls) = Known \ {active_url}
    /\ \A t \in Tasks : rotation_lock = t =>
           /\ Range(fallback_urls) = Known \ {initial_active[t]}
           /\ new_url[t] \in Range(fallback_urls)
           /\ active_url = IF pc[t] = "listing" THEN new_url[t] ELSE initial_active[t]

WsStages == {"idle", "asking", "waiting", "answered", "refused", "failed", "deciding", "locking", "choosing", "connecting",
             "updating", "listing", "rotated"}

\* A task that has given up the stream and has not opened another.
Adrift(t) == pc[t] \in {"deciding", "locking", "choosing", "connecting"}

\* The URLs of a client over a WebSocket: the fallbacks, the candidate and the URL that is rotated away
\* from are all of them, each once.
WsRotationInv ==
    /\ rotation_lock \in Tasks \cup {NoTask}
    /\ \A t \in Tasks : pc[t] \in {"choosing", "connecting", "updating", "listing"} <=> rotation_lock = t
    /\ new_url \in [Tasks -> Known] /\ initial_active \in [Tasks -> Known]
    /\ rotation_lock = NoTask => Range(fallback_urls) = Known \ {active_url}
    /\ \A t \in Tasks : rotation_lock = t =>
           /\ active_url = IF pc[t] = "listing" THEN new_url[t] ELSE initial_active[t]
           /\ pc[t] = "choosing" => Range(fallback_urls) = Known \ {initial_active[t]}
           /\ pc[t] # "choosing" => /\ new_url[t] # initial_active[t]
                                    /\ Range(fallback_urls) = Known \ {initial_active[t], new_url[t]}
    /\ \A t \in Tasks : pc[t] \in {"locking", "choosing"} => \E a, b \in Known : a # b

Shaped(s) == DOMAIN s = {"url", "open", "asked", "inbox"}

\* The stream is open while a task waits for an answer, and given up as long as one is adrift: there is
\* never a second.
WsStreamInv ==
    /\ \A s \in stream : Shaped(s)
    /\ is_healthy \in BOOLEAN
    /\ connection_lock \in Tasks \cup {NoTask}
    /\ \A t \in Tasks : pc[t] = "waiting" <=> connection_lock = t
    /\ \A t \in Tasks : Adrift(t) => stream = {} /\ \A o \in Tasks : Adrift(o) => o = t
    /\ Ws!StreamFollowsActive

WsInv ==
    /\ pc \in [Tasks -> WsStages]
    /\ DOMAIN request_id = Tasks /\ DOMAIN response = Tasks
    /\ WsRotationInv
    /\ WsStreamInv
    /\ Ws!AnswersAreTheirOwn

TransportsInv ==
    /\ transport \in {"http", "ws"}
    /\ rpc_urls \in Configurations
    /\ active_url \in Known
    /\ fallback_urls \in Seq(Urls) /\ IsInjective(fallback_urls)
    /\ transport = "http" => HttpInv
    /\ transport = "ws" => WsInv

-----------------------------------------------------------------------------
(* Lists of URLs.                                                          *)

\* What is left of a list when its only occurrence of an element is removed.
LEMMA RemovedAt ==
    ASSUME NEW S, NEW s \in Seq(S), NEW i \in 1 .. Len(s)
    PROVE  /\ RemoveAt(s, i) \in Seq(S)
           /\ Len(RemoveAt(s, i)) = Len(s) - 1
           /\ \A j \in 1 .. Len(s) - 1 : RemoveAt(s, i)[j] = s[IF j < i THEN j ELSE j + 1]
<1> DEFINE before == SubSeq(s, 1, i - 1)
           after == SubSeq(s, i + 1, Len(s))
<1>1. Len(s) \in Nat /\ i \in Int
    BY LenProperties
<1>2. \A j \in 1 .. Len(s) : s[j] \in S
    BY ElementOfSeq
<1>3. /\ before \in Seq(S) /\ Len(before) = i - 1
      /\ \A j \in 1 .. i - 1 : before[j] = s[j]
    <2>1. \A j \in 1 .. i - 1 : s[j] \in S
        BY <1>1, <1>2
    <2> QED BY <1>1, <2>1, SubSeqProperties
<1>4. /\ after \in Seq(S) /\ Len(after) = Len(s) - i
      /\ \A j \in 1 .. Len(s) - i : after[j] = s[i + j]
    <2>1. \A j \in i + 1 .. Len(s) : s[j] \in S
        BY <1>1, <1>2
    <2> QED BY <1>1, <2>1, SubSeqProperties
<1> HIDE DEF before, after
<1>5. /\ before \o after \in Seq(S)
      /\ Len(before \o after) = Len(s) - 1
      /\ \A j \in 1 .. Len(s) - 1 : (before \o after)[j] = IF j <= i - 1 THEN before[j] ELSE after[j - (i - 1)]
    <2>1. /\ before \o after \in Seq(S)
          /\ Len(before \o after) = Len(before) + Len(after)
          /\ \A j \in 1 .. Len(before) + Len(after) :
                 (before \o after)[j] = IF j <= Len(before) THEN before[j] ELSE after[j - Len(before)]
        BY <1>3, <1>4, ConcatProperties
    <2>2. Len(before) = i - 1 /\ Len(before) + Len(after) = Len(s) - 1
        BY <1>1, <1>3, <1>4
    <2> QED BY <2>1, <2>2
<1>6. RemoveAt(s, i) = before \o after
    BY DEF RemoveAt, before, after
<1>7. ASSUME NEW j \in 1 .. Len(s) - 1
      PROVE  RemoveAt(s, i)[j] = s[IF j < i THEN j ELSE j + 1]
    <2>1. CASE j < i
        <3>1. j \in 1 .. i - 1
            BY <1>1, <2>1
        <3> QED BY <1>3, <1>5, <1>6, <2>1, <3>1
    <2>2. CASE ~ (j < i)
        <3>1. j - (i - 1) \in 1 .. Len(s) - i /\ i + (j - (i - 1)) = j + 1 /\ ~ (j <= i - 1)
            BY <1>1, <2>2
        <3> QED BY <1>4, <1>5, <1>6, <2>2, <3>1
    <2> QED BY <2>1, <2>2
<1> QED BY <1>5, <1>6, <1>7

\* Removing an element from a list that has each element once.
LEMMA WithoutProperties ==
    ASSUME NEW S, NEW s \in Seq(S), IsInjective(s), NEW e
    PROVE  /\ Without(s, e) \in Seq(S)
           /\ IsInjective(Without(s, e))
           /\ Range(Without(s, e)) = Range(s) \ {e}
<1>1. /\ DOMAIN s = 1 .. Len(s) /\ Len(s) \in Nat
      /\ \A i \in 1 .. Len(s) : s[i] \in Range(s)
      /\ \A x \in Range(s) : \E i \in 1 .. Len(s) : x = s[i]
    BY RangeElements
<1>2. \A a, b \in 1 .. Len(s) : s[a] = s[b] => a = b
    BY <1>1 DEF IsInjective
<1>3. CASE \E i \in 1 .. Len(s) : s[i] = e
    <2>1. PICK i \in 1 .. Len(s) : s[i] = e
        BY <1>3
    <2>2. {j \in 1 .. Len(s) : s[j] = e} = {i}
        BY <1>2, <2>1
    <2>3. Without(s, e) = RemoveAt(s, i)
        <3>1. Min({i}) = i
            BY <1>1 DEF Min
        <3> QED BY <1>3, <2>2, <3>1 DEF Without, RemoveFirst, SelectInSeq
    <2> DEFINE t == Without(s, e)
    <2>4. /\ t \in Seq(S) /\ Len(t) = Len(s) - 1
          /\ \A j \in 1 .. Len(s) - 1 : t[j] = s[IF j < i THEN j ELSE j + 1]
        BY <2>3, RemovedAt
    <2> HIDE DEF t
    <2>5. /\ DOMAIN t = 1 .. Len(s) - 1
          /\ \A j \in 1 .. Len(s) - 1 : t[j] \in Range(t)
          /\ \A x \in Range(t) : \E j \in 1 .. Len(s) - 1 : x = t[j]
        BY <2>4, RangeElements
    <2>6. IsInjective(t)
        <3>1. ASSUME NEW a \in 1 .. Len(s) - 1, NEW b \in 1 .. Len(s) - 1, t[a] = t[b]
              PROVE  a = b
            <4>1. /\ (IF a < i THEN a ELSE a + 1) \in 1 .. Len(s)
                  /\ (IF b < i THEN b ELSE b + 1) \in 1 .. Len(s)
                BY <1>1
            <4>2. s[IF a < i THEN a ELSE a + 1] = s[IF b < i THEN b ELSE b + 1]
                BY <2>4, <3>1
            <4>3. (IF a < i THEN a ELSE a + 1) = (IF b < i THEN b ELSE b + 1)
                BY <1>2, <4>1, <4>2
            <4> QED BY <1>1, <4>3
        <3> QED BY <2>5, <3>1 DEF IsInjective
    <2>7. ASSUME NEW x \in Range(t)
          PROVE  x \in Range(s) \ {e}
        <3>1. PICK j \in 1 .. Len(s) - 1 : x = t[j]
            BY <2>5
        <3>2. PICK k \in 1 .. Len(s) : k # i /\ x = s[k]
            <4>1. CASE j < i
                <5>1. j \in 1 .. Len(s) /\ j # i
                    BY <1>1, <4>1
                <5>2. t[j] = s[j]
                    BY <2>4, <4>1
                <5> QED BY <3>1, <5>1, <5>2
            <4>2. CASE ~ (j < i)
                <5>1. j + 1 \in 1 .. Len(s) /\ j + 1 # i /\ x = s[j + 1]
                    BY <1>1, <2>4, <3>1, <4>2
                <5> QED BY <5>1
            <4> QED BY <4>1, <4>2
        <3> QED BY <1>1, <1>2, <2>1, <3>2
    <2>8. ASSUME NEW x \in Range(s) \ {e}
          PROVE  x \in Range(t)
        <3>1. PICK k \in 1 .. Len(s) : x = s[k] /\ k # i
            BY <1>1, <2>1
        <3>2. CASE k < i
            <4>1. k \in 1 .. Len(s) - 1 /\ t[k] = x
                BY <1>1, <2>4, <3>1, <3>2
            <4> QED BY <2>5, <4>1
        <3>3. CASE k > i
            <4>1. k - 1 \in 1 .. Len(s) - 1 /\ ~ (k - 1 < i) /\ (k - 1) + 1 = k
                BY <1>1, <3>3
            <4>2. t[k - 1] = x
                BY <2>4, <3>1, <4>1
            <4> QED BY <2>5, <4>1, <4>2
        <3> QED BY <1>1, <3>1, <3>2, <3>3
    <2> QED BY <2>4, <2>6, <2>7, <2>8 DEF t
<1>4. CASE ~ \E i \in 1 .. Len(s) : s[i] = e
    <2>1. Without(s, e) = s
        BY <1>4 DEF Without, RemoveFirst
    <2>2. e \notin Range(s)
        BY <1>1, <1>4
    <2> QED BY <2>1, <2>2
<1> QED BY <1>3, <1>4

\* A list with an element has a head, and it is one of its elements.
LEMMA HeadIsElement ==
    ASSUME NEW S, NEW s \in Seq(S)
    PROVE  /\ s # <<>> => Head(s) \in Range(s)
           /\ s = <<>> <=> Range(s) = {}
<1>1. /\ Len(s) \in Nat
      /\ \A i \in 1 .. Len(s) : s[i] \in Range(s)
      /\ \A x \in Range(s) : \E i \in 1 .. Len(s) : x = s[i]
    BY RangeElements
<1>2. CASE s = <<>>
    <2>1. Len(s) = 0
        BY <1>2
    <2> QED BY <1>1, <1>2, <2>1
<1>3. CASE s # <<>>
    <2>1. Len(s) # 0 /\ Head(s) = s[1]
        BY <1>3, EmptySeq
    <2> QED BY <1>1, <1>3, <2>1
<1> QED BY <1>2, <1>3

\* A configuration lists distinct URLs, at least one.
LEMMA ConfigurationFacts ==
    ASSUME rpc_urls \in Configurations
    PROVE  /\ rpc_urls \in Seq(Urls) /\ IsInjective(rpc_urls)
           /\ Known \subseteq Urls
           /\ \A k \in 1 .. Len(rpc_urls) : rpc_urls[k] \in Known
           /\ rpc_urls[1] \in Known
<1>1. rpc_urls \in Seq(Urls) /\ rpc_urls # <<>> /\ IsInjective(rpc_urls)
    BY UrlsAssumption
<1>2. /\ Len(rpc_urls) \in Nat /\ Known \subseteq Urls
      /\ \A k \in 1 .. Len(rpc_urls) : rpc_urls[k] \in Known
    BY <1>1, RangeElements DEF Known
<1>3. Len(rpc_urls) # 0
    BY <1>1, EmptySeq
<1> QED BY <1>1, <1>2, <1>3

\* A URL leaves the fallbacks or joins them.
LEMMA FallbacksChange ==
    ASSUME fallback_urls \in Seq(Urls), IsInjective(fallback_urls), NEW u \in Urls
    PROVE  /\ Without(fallback_urls, u) \in Seq(Urls) /\ IsInjective(Without(fallback_urls, u))
           /\ Range(Without(fallback_urls, u)) = Range(fallback_urls) \ {u}
           /\ u \notin Range(fallback_urls) => /\ Append(fallback_urls, u) \in Seq(Urls)
                                               /\ IsInjective(Append(fallback_urls, u))
                                               /\ Range(Append(fallback_urls, u)) = Range(fallback_urls) \cup {u}
BY WithoutProperties, AppendProperties, InjectiveAppend, RangeOfAppend

-----------------------------------------------------------------------------
(* Over HTTP.                                                              *)

\* A client over HTTP starts with all URLs.
LEMMA HttpStarts ==
    ASSUME Init
    PROVE  /\ rpc_urls \in Configurations /\ active_url \in Known
           /\ fallback_urls \in Seq(Urls) /\ IsInjective(fallback_urls)
           /\ HttpInv
<1>1. rpc_urls \in Configurations
    BY DEF Init
<1>2. PICK k \in 1 .. Len(rpc_urls) : active_url = rpc_urls[k] /\ fallback_urls = Without(rpc_urls, rpc_urls[k])
    BY DEF Init
<1>3. /\ fallback_urls \in Seq(Urls) /\ IsInjective(fallback_urls)
      /\ Range(fallback_urls) = Known \ {active_url}
    BY <1>1, <1>2, ConfigurationFacts, WithoutProperties DEF Known
<1>4. HttpInv
    <2>1. /\ rotation_lock = NoTask /\ pc = [t \in Tasks |-> "idle"]
          /\ new_url \in [Tasks -> Known] /\ initial_active \in [Tasks -> Known]
        BY <1>1, ConfigurationFacts DEF Init
    <2> QED BY <1>3, <2>1, TasksAssumption DEF HttpInv, HttpStages
<1> QED BY <1>1, <1>2, <1>3, <1>4, ConfigurationFacts

\* A step that changes no list and no lock.
LEMMA HttpStageChanges ==
    ASSUME HttpInv, NEW t \in Tasks, NEW label \in HttpStages, Goto(t, label),
           UNCHANGED <<rpc_urls, active_url, fallback_urls, rotation_lock, initial_active, new_url>>,
           \/ pc[t] \notin {"connecting", "updating", "listing"} /\ label \notin {"connecting", "updating", "listing"}
           \/ pc[t] = "connecting" /\ label = "updating"
    PROVE  HttpInv'
<1>1. /\ pc' \in [Tasks -> HttpStages] /\ pc'[t] = label
      /\ \A o \in Tasks : o # t => pc'[o] = pc[o]
    BY DEF HttpInv, Goto
<1>2. Known' = Known
    BY DEF Known
<1> QED BY <1>1, <1>2 DEF HttpInv

\* Every step over HTTP keeps the invariant.
LEMMA HttpStep ==
    ASSUME TransportsInv, transport = "http", OnHttp(Next)
    PROVE  TransportsInv'
<1>1. /\ HttpInv /\ Next /\ UNCHANGED transport
      /\ rpc_urls \in Configurations /\ active_url \in Known
      /\ fallback_urls \in Seq(Urls) /\ IsInjective(fallback_urls)
    BY DEF TransportsInv, OnHttp
<1>2. /\ rpc_urls \in Seq(Urls) /\ Known \subseteq Urls /\ rpc_urls[1] \in Known
    BY <1>1, ConfigurationFacts
<1>3. rpc_urls' = rpc_urls /\ Known' = Known
    BY <1>1 DEF Next, Send, Ask, Answered, Refused, NeedsRotation, Rotate, Lock, NoCandidate, Connect, ConnectFails,
                UpdateClient, UpdateLists, ChangeHealth, environment, Known
<1> DEFINE Rest == /\ active_url' \in Known
                   /\ fallback_urls' \in Seq(Urls) /\ IsInjective(fallback_urls')
                   /\ HttpInv'
<1>4. SUFFICES Rest
    BY <1>1, <1>3 DEF TransportsInv
<1>5. ASSUME NEW t \in Tasks, Send(t) \/ Ask(t)
      PROVE  Rest
    <2>1. UNCHANGED <<active_url, fallback_urls, rotation_lock, initial_active, new_url>>
        BY <1>5 DEF Send, Ask, Answered, Refused, NeedsRotation
    <2>2. /\ pc[t] \in {"idle", "answered", "failed", "refused", "rotated", "asking"}
          /\ \E label \in {"asking", "answered", "refused", "locking"} : Goto(t, label)
        BY <1>5 DEF Send, Ask, Answered, Refused, NeedsRotation
    <2>3. HttpInv'
        BY <1>1, <1>3, <2>1, <2>2, HttpStageChanges DEF HttpStages
    <2> QED BY <1>1, <2>1, <2>3
<1>6. ASSUME NEW t \in Tasks, Lock(t)
      PROVE  Rest
    <2>1. /\ pc[t] = "locking" /\ rotation_lock = NoTask /\ rotation_lock' = t
          /\ Candidates(fallback_urls, active_url) # <<>>
          /\ initial_active' = [initial_active EXCEPT ![t] = active_url]
          /\ new_url' = [new_url EXCEPT ![t] = Head(Candidates(fallback_urls, active_url))]
          /\ pc' = [pc EXCEPT ![t] = "connecting"]
          /\ UNCHANGED <<active_url, fallback_urls>>
        BY <1>6 DEF Lock, Goto
    <2>2. /\ Range(fallback_urls) = Known \ {active_url}
          /\ \A o \in Tasks : pc[o] \notin {"connecting", "updating", "listing"}
        BY <1>1, <2>1, TasksAssumption DEF HttpInv
    <2>3. Head(Candidates(fallback_urls, active_url)) \in Known \ {active_url}
        <3>1. /\ Candidates(fallback_urls, active_url) \in Seq(Urls)
              /\ Range(Candidates(fallback_urls, active_url)) = Range(fallback_urls) \ {active_url}
            BY <1>1, <1>2, FallbacksChange DEF Candidates
        <3> QED BY <2>1, <2>2, <3>1, HeadIsElement
    <2>4. /\ pc' \in [Tasks -> HttpStages] /\ pc'[t] = "connecting"
          /\ \A o \in Tasks : o # t => pc'[o] = pc[o]
        BY <1>1, <2>1 DEF HttpInv, HttpStages
    <2>5. /\ initial_active' \in [Tasks -> Known] /\ initial_active'[t] = active_url
          /\ new_url' \in [Tasks -> Known] /\ new_url'[t] \in Known \ {active_url}
        BY <1>1, <2>1, <2>3 DEF HttpInv
    <2>6. HttpInv'
        BY <1>3, <2>1, <2>2, <2>4, <2>5, TasksAssumption DEF HttpInv
    <2> QED BY <1>1, <2>1, <2>6
<1>7. ASSUME NEW t \in Tasks, NoCandidate(t) \/ Connect(t)
      PROVE  Rest
    <2>1. UNCHANGED <<active_url, fallback_urls, rotation_lock, initial_active, new_url>>
        BY <1>7 DEF NoCandidate, Connect
    <2>2. \/ pc[t] = "locking" /\ Goto(t, "failed")
          \/ pc[t] = "connecting" /\ Goto(t, "updating")
        BY <1>7 DEF NoCandidate, Connect
    <2>3. HttpInv'
        BY <1>1, <1>3, <2>1, <2>2, HttpStageChanges DEF HttpStages
    <2> QED BY <1>1, <2>1, <2>3
<1>8. ASSUME NEW t \in Tasks, ConnectFails(t) \/ UpdateLists(t)
      PROVE  Rest
    <2>1. /\ pc[t] \in {"connecting", "listing"} /\ rotation_lock = t /\ rotation_lock' = NoTask
          /\ initial_active' = [initial_active EXCEPT ![t] = rpc_urls[1]]
          /\ new_url' = [new_url EXCEPT ![t] = rpc_urls[1]]
          /\ \E label \in {"failed", "rotated"} : pc' = [pc EXCEPT ![t] = label]
        BY <1>1, <1>8 DEF ConnectFails, UpdateLists, Release, Goto, HttpInv
    <2>2. /\ Range(fallback_urls) = Known \ {initial_active[t]}
          /\ initial_active[t] \in Known /\ new_url[t] \in Known \ {initial_active[t]}
          /\ active_url = IF pc[t] = "listing" THEN new_url[t] ELSE initial_active[t]
        BY <1>1, <2>1 DEF HttpInv
    <2>3. /\ active_url' \in Known
          /\ fallback_urls' \in Seq(Urls) /\ IsInjective(fallback_urls')
          /\ Range(fallback_urls') = Known \ {active_url'}
        <3>1. CASE ConnectFails(t)
            <4>1. UNCHANGED <<active_url, fallback_urls>> /\ pc[t] = "connecting"
                BY <3>1 DEF ConnectFails
            <4> QED BY <1>1, <2>2, <4>1
        <3>2. CASE UpdateLists(t)
            <4> DEFINE w == Without(fallback_urls, new_url[t])
            <4>1. fallback_urls' = Append(w, initial_active[t]) /\ active_url' = new_url[t]
                BY <3>2 DEF UpdateLists
            <4>2. w \in Seq(Urls) /\ IsInjective(w) /\ Range(w) = Range(fallback_urls) \ {new_url[t]}
                BY <1>1, <1>2, <2>2, WithoutProperties
            <4> HIDE DEF w
            <4>3. initial_active[t] \in Urls /\ initial_active[t] \notin Range(w)
                BY <1>2, <2>2, <4>2
            <4>4. /\ Append(w, initial_active[t]) \in Seq(Urls) /\ IsInjective(Append(w, initial_active[t]))
                  /\ Range(Append(w, initial_active[t])) = Range(w) \cup {initial_active[t]}
                BY <4>2, <4>3, AppendProperties, InjectiveAppend, RangeOfAppend
            <4> QED BY <2>2, <4>1, <4>2, <4>4
        <3> QED BY <1>8, <3>1, <3>2
    <2>4. /\ pc' \in [Tasks -> HttpStages] /\ pc'[t] \in {"failed", "rotated"}
          /\ \A o \in Tasks : o # t => pc'[o] = pc[o]
        BY <1>1, <2>1 DEF HttpInv, HttpStages
    <2>5. initial_active' \in [Tasks -> Known] /\ new_url' \in [Tasks -> Known]
        BY <1>1, <1>2, <2>1 DEF HttpInv
    <2>6. \A o \in Tasks : pc'[o] \notin {"connecting", "updating", "listing"}
        BY <1>1, <2>1, <2>4 DEF HttpInv
    <2>7. HttpInv'
        BY <1>3, <2>1, <2>3, <2>4, <2>5, <2>6, TasksAssumption DEF HttpInv
    <2> QED BY <2>3, <2>7
<1>9. ASSUME NEW t \in Tasks, UpdateClient(t)
      PROVE  Rest
    <2>1. /\ pc[t] = "updating" /\ rotation_lock = t /\ active_url' = new_url[t]
          /\ pc' = [pc EXCEPT ![t] = "listing"]
          /\ UNCHANGED <<fallback_urls, rotation_lock, initial_active, new_url>>
        BY <1>1, <1>9 DEF UpdateClient, Goto, HttpInv
    <2>2. /\ pc' \in [Tasks -> HttpStages] /\ pc'[t] = "listing"
          /\ \A o \in Tasks : o # t => pc'[o] = pc[o]
        BY <1>1, <2>1 DEF HttpInv, HttpStages
    <2>3. HttpInv'
        BY <1>1, <1>3, <2>1, <2>2, TasksAssumption DEF HttpInv
    <2> QED BY <1>1, <2>1, <2>3 DEF HttpInv
<1>10. ASSUME NEW u \in Range(rpc_urls), ChangeHealth(u)
       PROVE  Rest
    BY <1>1, <1>3, <1>10 DEF ChangeHealth, HttpInv
<1> QED BY <1>1, <1>5, <1>6, <1>7, <1>8, <1>9, <1>10 DEF Next, Rotate

-----------------------------------------------------------------------------
(* Over a WebSocket: the URLs.                                             *)

WsLists ==
    /\ active_url \in Known
    /\ fallback_urls \in Seq(Urls) /\ IsInjective(fallback_urls)
    /\ WsRotationInv

RotatingStages == {"choosing", "connecting", "updating", "listing"}

\* A step of a task that changes no list and no lock.
LEMMA WsStageChanges ==
    ASSUME WsLists, pc \in [Tasks -> WsStages],
           NEW t \in Tasks, NEW label, pc' = [pc EXCEPT ![t] = label],
           UNCHANGED <<rpc_urls, active_url, fallback_urls, rotation_lock, initial_active, new_url>>,
           \/ pc[t] \notin RotatingStages /\ label \notin RotatingStages \cup {"locking"}
           \/ pc[t] = "connecting" /\ label = "updating"
           \/ pc[t] \notin RotatingStages /\ label = "locking" /\ \E a, b \in Known : a # b
    PROVE  WsLists'
<1>1. /\ pc'[t] = label
      /\ \A o \in Tasks : o # t => pc'[o] = pc[o]
    OBVIOUS
<1>2. Known' = Known
    BY DEF Known
<1>3. WsRotationInv'
    BY <1>1, <1>2 DEF WsLists, WsRotationInv, RotatingStages
<1> QED BY <1>2, <1>3 DEF WsLists

\* A step that concerns only the connection.
LEMMA WsListsStay ==
    ASSUME WsLists, UNCHANGED <<rpc_urls, active_url, fallback_urls, rotation_lock, initial_active, new_url, pc>>
    PROVE  WsLists'
BY DEF WsLists, WsRotationInv, Known

\* Both transports remove a URL in the same way.
LEMMA WsWithout == \A s, e : Ws!Without(s, e) = Without(s, e)
BY DEF Ws!Without, Ws!RemoveFirst, Ws!RemoveAt, Ws!SelectInSeq, Ws!Min, Without, RemoveFirst, RemoveAt, SelectInSeq, Min

\* A rotation's own steps.
LEMMA WsRotates ==
    ASSUME WsLists, pc \in [Tasks -> WsStages], rpc_urls \in Configurations, rpc_urls' = rpc_urls,
           NEW t \in Tasks, Ws!Lock(t) \/ Ws!Choose(t) \/ Ws!ConnectFails(t) \/ Ws!UpdateClient(t) \/ Ws!UpdateLists(t)
    PROVE  WsLists'
<1>1. /\ active_url \in Known /\ fallback_urls \in Seq(Urls) /\ IsInjective(fallback_urls) /\ WsRotationInv
    BY DEF WsLists
<1>2. /\ Known \subseteq Urls /\ rpc_urls[1] \in Known /\ Known' = Known
    BY ConfigurationFacts DEF Known
<1>3. /\ rotation_lock \in Tasks \cup {NoTask}
      /\ new_url \in [Tasks -> Known] /\ initial_active \in [Tasks -> Known]
      /\ \A o \in Tasks : pc[o] \in {"choosing", "connecting", "updating", "listing"} <=> rotation_lock = o
      /\ \A o \in Tasks : pc[o] \in {"locking", "choosing"} => \E a, b \in Known : a # b
    BY <1>1 DEF WsRotationInv
<1>4. CASE Ws!Lock(t)
    <2>1. /\ pc[t] = "locking" /\ rotation_lock = NoTask /\ rotation_lock' = t
          /\ initial_active' = [initial_active EXCEPT ![t] = active_url]
          /\ pc' = [pc EXCEPT ![t] = "choosing"]
          /\ UNCHANGED <<active_url, fallback_urls, new_url>>
        BY <1>4 DEF Ws!Lock, Ws!Goto, Ws!NoTask, NoTask
    <2>2. /\ Range(fallback_urls) = Known \ {active_url}
          /\ \A o \in Tasks : pc[o] \notin {"choosing", "connecting", "updating", "listing"}
          /\ \E a, b \in Known : a # b
        BY <1>1, <1>3, <2>1, TasksAssumption DEF WsRotationInv
    <2>3. /\ pc'[t] = "choosing" /\ \A o \in Tasks : o # t => pc'[o] = pc[o]
          /\ initial_active' \in [Tasks -> Known] /\ initial_active'[t] = active_url
        BY <1>1, <1>3, <2>1
    <2>4. WsRotationInv'
        BY <1>2, <1>3, <2>1, <2>2, <2>3, TasksAssumption DEF WsRotationInv
    <2> QED BY <1>1, <1>2, <2>1, <2>4 DEF WsLists
<1>5. CASE Ws!Choose(t)
    <2> DEFINE w == Without(fallback_urls, initial_active[t])
    <2>1. /\ pc[t] = "choosing" /\ rotation_lock = t
          /\ new_url' = [new_url EXCEPT ![t] = Head(w)]
          /\ fallback_urls' = Without(fallback_urls, Head(w))
          /\ pc' = [pc EXCEPT ![t] = "connecting"]
          /\ UNCHANGED <<active_url, rotation_lock, initial_active>>
        BY <1>3, <1>5, WsWithout DEF Ws!Choose, Ws!Goto, Ws!Candidates
    <2>2. /\ Range(fallback_urls) = Known \ {initial_active[t]}
          /\ active_url = initial_active[t] /\ initial_active[t] \in Known
          /\ \E a, b \in Known : a # b
        BY <1>1, <1>3, <2>1 DEF WsRotationInv
    <2>3. w \in Seq(Urls) /\ Range(w) = Known \ {initial_active[t]}
        BY <1>1, <2>2, WithoutProperties
    <2> HIDE DEF w
    <2>4. Head(w) \in Known \ {initial_active[t]}
        <3>1. Range(w) # {}
            BY <2>2, <2>3
        <3> QED BY <2>3, <3>1, HeadIsElement
    <2>5. /\ fallback_urls' \in Seq(Urls) /\ IsInjective(fallback_urls')
          /\ Range(fallback_urls') = Known \ {initial_active[t], Head(w)}
        BY <1>1, <2>1, <2>2, WithoutProperties
    <2>6. /\ pc'[t] = "connecting" /\ \A o \in Tasks : o # t => pc'[o] = pc[o]
          /\ new_url' \in [Tasks -> Known] /\ new_url'[t] = Head(w)
        BY <1>3, <2>1, <2>4
    <2>7. WsRotationInv'
        BY <1>2, <1>3, <2>1, <2>2, <2>4, <2>5, <2>6, TasksAssumption DEF WsRotationInv
    <2> QED BY <1>1, <1>2, <2>1, <2>5, <2>7 DEF WsLists
<1>6. CASE Ws!ConnectFails(t)
    <2>1. /\ pc[t] = "connecting" /\ rotation_lock = t
          /\ fallback_urls' = Append(fallback_urls, new_url[t])
          /\ active_url' = active_url
        BY <1>3, <1>6 DEF Ws!ConnectFails
    <2>2. /\ Range(fallback_urls) = Known \ {initial_active[t], new_url[t]}
          /\ active_url = initial_active[t]
          /\ initial_active[t] \in Known /\ new_url[t] \in Known \ {initial_active[t]}
        BY <1>1, <1>3, <2>1 DEF WsRotationInv
    <2>3. /\ fallback_urls' \in Seq(Urls) /\ IsInjective(fallback_urls')
          /\ Range(fallback_urls') = Known \ {initial_active[t]}
        <3>1. new_url[t] \in Urls /\ new_url[t] \notin Range(fallback_urls)
            BY <1>2, <2>2
        <3> QED BY <1>1, <2>1, <2>2, <3>1, FallbacksChange
    <2>4. CASE /\ pc' = [pc EXCEPT ![t] = "choosing"]
               /\ UNCHANGED <<rotation_lock, initial_active, new_url>>
        <3>1. pc'[t] = "choosing" /\ \A o \in Tasks : o # t => pc'[o] = pc[o]
            BY <2>4
        <3>2. WsRotationInv'
            BY <1>2, <1>3, <2>1, <2>2, <2>3, <2>4, <3>1, TasksAssumption DEF WsRotationInv
        <3> QED BY <1>1, <1>2, <2>1, <2>3, <3>2 DEF WsLists
    <2>5. CASE /\ pc' = [pc EXCEPT ![t] = "failed"]
               /\ rotation_lock' = NoTask
               /\ initial_active' = [initial_active EXCEPT ![t] = rpc_urls[1]]
               /\ new_url' = [new_url EXCEPT ![t] = rpc_urls[1]]
        <3>1. /\ pc'[t] = "failed" /\ \A o \in Tasks : o # t => pc'[o] = pc[o]
              /\ initial_active' \in [Tasks -> Known] /\ new_url' \in [Tasks -> Known]
            BY <1>2, <1>3, <2>5
        <3>2. WsRotationInv'
            BY <1>2, <1>3, <2>1, <2>2, <2>3, <2>5, <3>1, TasksAssumption DEF WsRotationInv
        <3> QED BY <1>1, <1>2, <2>1, <2>3, <3>2 DEF WsLists
    <2> QED BY <1>6, <2>4, <2>5 DEF Ws!ConnectFails, Ws!CountAttempt, Ws!Release, Ws!Goto, Ws!NoTask, NoTask
<1>7. CASE Ws!UpdateClient(t)
    <2>1. /\ pc[t] = "updating" /\ rotation_lock = t
          /\ active_url' = new_url[t]
          /\ pc' = [pc EXCEPT ![t] = "listing"]
          /\ UNCHANGED <<fallback_urls, rotation_lock, initial_active, new_url>>
        BY <1>3, <1>7 DEF Ws!UpdateClient, Ws!Goto
    <2>2. pc'[t] = "listing" /\ \A o \in Tasks : o # t => pc'[o] = pc[o]
        BY <2>1
    <2>3. WsRotationInv'
        BY <1>1, <1>2, <2>1, <2>2, TasksAssumption DEF WsRotationInv
    <2> QED BY <1>1, <1>2, <1>3, <2>1, <2>3 DEF WsLists
<1>8. CASE Ws!UpdateLists(t)
    <2>1. /\ pc[t] = "listing" /\ rotation_lock = t /\ rotation_lock' = NoTask
          /\ fallback_urls' = Append(fallback_urls, initial_active[t])
          /\ active_url' = new_url[t]
          /\ initial_active' = [initial_active EXCEPT ![t] = rpc_urls[1]]
          /\ new_url' = [new_url EXCEPT ![t] = rpc_urls[1]]
          /\ pc' = [pc EXCEPT ![t] = "rotated"]
        BY <1>3, <1>8 DEF Ws!UpdateLists, Ws!Release, Ws!Goto, Ws!NoTask, NoTask
    <2>2. /\ Range(fallback_urls) = Known \ {initial_active[t], new_url[t]}
          /\ initial_active[t] \in Known /\ new_url[t] \in Known \ {initial_active[t]}
        BY <1>1, <1>3, <2>1 DEF WsRotationInv
    <2>3. /\ fallback_urls' \in Seq(Urls) /\ IsInjective(fallback_urls')
          /\ Range(fallback_urls') = Known \ {active_url'}
        <3>1. initial_active[t] \in Urls /\ initial_active[t] \notin Range(fallback_urls)
            BY <1>2, <2>2
        <3> QED BY <1>1, <2>1, <2>2, <3>1, FallbacksChange
    <2>4. /\ pc'[t] = "rotated" /\ \A o \in Tasks : o # t => pc'[o] = pc[o]
          /\ initial_active' \in [Tasks -> Known] /\ new_url' \in [Tasks -> Known]
        BY <1>2, <1>3, <2>1
    <2>5. WsRotationInv'
        BY <1>2, <1>3, <2>1, <2>3, <2>4, TasksAssumption DEF WsRotationInv
    <2> QED BY <1>2, <2>1, <2>2, <2>3, <2>5 DEF WsLists
<1> QED BY <1>4, <1>5, <1>6, <1>7, <1>8

-----------------------------------------------------------------------------
(* Over a WebSocket: the stream.                                           *)

\* The streams still go to where they went.
SameStreams ==
    /\ stream' = {} <=> stream = {}
    /\ \A s \in stream' : Shaped(s) /\ \E r \in stream : s.url = r.url

\* What a task does to a stream keeps its URL.
LEMMA MessagesKeepStreams ==
    ASSUME \A s \in stream : Shaped(s)
    PROVE  /\ stream' = stream => SameStreams
           /\ Ws!TakeMessage => SameStreams
           /\ \A r \in stream : \A x : stream' = {[r EXCEPT !.asked = x]} => SameStreams
           /\ \A r \in stream : \A x : stream' = {[r EXCEPT !.inbox = x]} => SameStreams
           /\ \A r \in stream : \A x, y : stream' = {[r EXCEPT !.asked = x, !.inbox = y]} => SameStreams
<1>1. stream' = stream => SameStreams
    BY DEF SameStreams
<1>2. ASSUME NEW r \in stream, NEW x
      PROVE  Shaped([r EXCEPT !.asked = x]) /\ [r EXCEPT !.asked = x].url = r.url
    BY DEF Shaped
<1>3. ASSUME NEW r \in stream, NEW y
      PROVE  Shaped([r EXCEPT !.inbox = y]) /\ [r EXCEPT !.inbox = y].url = r.url
    BY DEF Shaped
<1>4. ASSUME NEW r \in stream, NEW x, NEW y
      PROVE  Shaped([r EXCEPT !.asked = x, !.inbox = y]) /\ [r EXCEPT !.asked = x, !.inbox = y].url = r.url
    BY DEF Shaped
<1>5. ASSUME Ws!TakeMessage
      PROVE  SameStreams
    <2>1. stream' = {[s EXCEPT !.inbox = Tail(@)] : s \in stream}
        BY <1>5 DEF Ws!TakeMessage
    <2>2. \A s \in stream : Shaped([s EXCEPT !.inbox = Tail(@)]) /\ [s EXCEPT !.inbox = Tail(@)].url = s.url
        BY <1>3
    <2> QED BY <2>1, <2>2 DEF SameStreams
<1>6. ASSUME NEW r \in stream, NEW n, stream' = {n}, Shaped(n), n.url = r.url
      PROVE  SameStreams
    BY <1>6 DEF SameStreams
<1>7. ASSUME NEW r \in stream, NEW x, stream' = {[r EXCEPT !.asked = x]}
      PROVE  SameStreams
    BY <1>2, <1>6, <1>7
<1>8. ASSUME NEW r \in stream, NEW y, stream' = {[r EXCEPT !.inbox = y]}
      PROVE  SameStreams
    BY <1>3, <1>6, <1>8
<1>9. ASSUME NEW r \in stream, NEW x, NEW y, stream' = {[r EXCEPT !.asked = x, !.inbox = y]}
      PROVE  SameStreams
    BY <1>4, <1>6, <1>9
<1> QED BY <1>1, <1>5, <1>7, <1>8, <1>9

\* Nobody is adrift while there is a stream, and nobody waits without one.
LEMMA StreamFacts ==
    ASSUME WsStreamInv
    PROVE  /\ \A o \in Tasks : stream # {} => ~ Adrift(o)
           /\ \A o \in Tasks : stream = {} => pc[o] # "waiting"
           /\ stream = {} => ~ is_healthy /\ connection_lock = NoTask
<1>1. \A o \in Tasks : stream # {} => ~ Adrift(o)
    BY DEF WsStreamInv
<1>2. stream = {} => ~ is_healthy /\ connection_lock = NoTask
    BY DEF WsStreamInv, Ws!StreamFollowsActive, Ws!NoTask, NoTask
<1>3. \A o \in Tasks : stream = {} => pc[o] # "waiting"
    BY <1>2, TasksAssumption DEF WsStreamInv
<1> QED BY <1>1, <1>2, <1>3

\* A step that keeps the streams and the rotation.
LEMMA StreamStays ==
    ASSUME WsStreamInv, WsLists, SameStreams,
           UNCHANGED <<is_healthy, active_url, rotation_lock, new_url>>,
           \A o \in Tasks : pc'[o] = pc[o] \/ {pc[o], pc'[o]} \subseteq {"idle", "asking", "waiting", "rotated", "answered", "refused", "failed"},
           connection_lock' \in Tasks \cup {NoTask},
           \A o \in Tasks : pc'[o] = "waiting" <=> connection_lock' = o,
           connection_lock' # NoTask => stream # {}
    PROVE  WsStreamInv'
<1>1. \A o \in Tasks : Adrift(o)' <=> Adrift(o)
    BY DEF Adrift
<1>2. Ws!StreamFollowsActive'
    <2>1. is_healthy' <=> stream' # {}
        BY DEF WsStreamInv, Ws!StreamFollowsActive, SameStreams
    <2>2. ASSUME NEW s \in stream'
          PROVE  IF rotation_lock' = NoTask
                 THEN s.url = active_url'
                 ELSE pc'[rotation_lock'] \in {"updating", "listing"} /\ s.url = new_url'[rotation_lock']
        <3>1. PICK r \in stream : s.url = r.url
            BY DEF SameStreams
        <3>2. IF rotation_lock = NoTask
              THEN r.url = active_url
              ELSE pc[rotation_lock] \in {"updating", "listing"} /\ r.url = new_url[rotation_lock]
            BY DEF WsStreamInv, Ws!StreamFollowsActive, Ws!NoTask, NoTask
        <3>3. rotation_lock \in Tasks \cup {NoTask}
            BY DEF WsLists, WsRotationInv
        <3> QED BY <3>1, <3>2, <3>3
    <2>3. connection_lock' # NoTask => pc'[connection_lock'] = "waiting" /\ stream' # {}
        BY DEF SameStreams
    <2> QED BY <2>1, <2>2, <2>3 DEF Ws!StreamFollowsActive, Ws!NoTask, NoTask
<1> QED BY <1>1, <1>2 DEF WsStreamInv, SameStreams, Shaped

\* A step that leaves a task without a stream, or finds it so.
LEMMA StreamIsGone ==
    ASSUME WsStreamInv, NEW t \in Tasks,
           \A o \in Tasks : o # t => ~ Adrift(o) /\ pc[o] # "waiting" /\ pc'[o] = pc[o],
           pc'[t] # "waiting",
           stream' = {}, is_healthy' = FALSE, connection_lock' = NoTask
    PROVE  WsStreamInv'
<1>1. \A o \in Tasks : o # t => ~ Adrift(o)' /\ pc'[o] # "waiting"
    BY DEF Adrift
<1>2. Ws!StreamFollowsActive'
    BY DEF Ws!StreamFollowsActive, Ws!NoTask, NoTask
<1> QED BY <1>1, <1>2, TasksAssumption DEF WsStreamInv

-----------------------------------------------------------------------------
(* Over a WebSocket: the steps.                                            *)

\* What no step changes.
LEMMA WsFrame ==
    ASSUME pc \in [Tasks -> WsStages], DOMAIN request_id = Tasks, DOMAIN response = Tasks, Ws!Next
    PROVE  /\ rpc_urls' = rpc_urls
           /\ pc' \in [Tasks -> WsStages]
           /\ DOMAIN request_id' = Tasks /\ DOMAIN response' = Tasks
<1>1. \/ pc' = pc
      \/ \E t \in Tasks, label \in WsStages : pc' = [pc EXCEPT ![t] = label]
    BY DEF Ws!Next, Ws!Request, Ws!Ask, Ws!NotConnected, Ws!Send, Ws!SendFails, Ws!GiveUpStream, Ws!TakeAnswer,
           Ws!TakeNotice, Ws!TakeGarbled, Ws!Return, Ws!Skip, Ws!ReceiveFails, Ws!Rotate, Ws!ShouldRotate, Ws!Lock,
           Ws!Choose, Ws!Connect, Ws!ConnectFails, Ws!CountAttempt, Ws!UpdateClient, Ws!UpdateLists, Ws!Respond,
           Ws!SendUnasked, Ws!ChangeHealth, Ws!Goto, WsStages
<1>2. rpc_urls' = rpc_urls
    BY DEF Ws!Next, Ws!Request, Ws!Ask, Ws!NotConnected, Ws!Send, Ws!SendFails, Ws!GiveUpStream, Ws!TakeAnswer,
           Ws!TakeNotice, Ws!TakeGarbled, Ws!Return, Ws!Skip, Ws!ReceiveFails, Ws!Rotate, Ws!ShouldRotate, Ws!Lock,
           Ws!Choose, Ws!Connect, Ws!ConnectFails, Ws!UpdateClient, Ws!UpdateLists, Ws!Respond, Ws!SendUnasked,
           Ws!ChangeHealth, Ws!environment
<1>3. /\ request_id' = request_id \/ \E t, v : request_id' = [request_id EXCEPT ![t] = v]
      /\ response' = response \/ \E t, v : response' = [response EXCEPT ![t] = v]
    BY DEF Ws!Next, Ws!Request, Ws!Ask, Ws!NotConnected, Ws!Send, Ws!SendFails, Ws!GiveUpStream, Ws!TakeAnswer,
           Ws!TakeNotice, Ws!TakeGarbled, Ws!Return, Ws!Skip, Ws!ReceiveFails, Ws!Rotate, Ws!ShouldRotate, Ws!Lock,
           Ws!Choose, Ws!Connect, Ws!ConnectFails, Ws!UpdateClient, Ws!UpdateLists, Ws!Respond, Ws!SendUnasked,
           Ws!ChangeHealth, Ws!connection
<1>4. pc' \in [Tasks -> WsStages]
    BY <1>1
<1> QED BY <1>2, <1>3, <1>4

\* The URLs.
LEMMA WsListsKept ==
    ASSUME WsLists, pc \in [Tasks -> WsStages], rpc_urls \in Configurations, rpc_urls' = rpc_urls, Ws!Next
    PROVE  WsLists'
<1>1. ASSUME NEW t \in Tasks, Ws!Request(t) \/ Ws!Ask(t)
      PROVE  WsLists'
    <2>1. UNCHANGED <<active_url, fallback_urls, rotation_lock, initial_active, new_url>>
        BY <1>1 DEF Ws!Request, Ws!Ask, Ws!NotConnected, Ws!Send, Ws!SendFails, Ws!GiveUpStream, Ws!TakeAnswer,
                    Ws!TakeNotice, Ws!TakeGarbled, Ws!Return, Ws!Skip, Ws!ReceiveFails, Ws!rotation
    <2>2. \/ pc' = pc
          \/ /\ pc[t] \in {"idle", "answered", "refused", "failed", "asking", "rotated", "waiting"}
             /\ \E label \in {"asking", "failed", "waiting", "deciding", "answered", "refused"} :
                    pc' = [pc EXCEPT ![t] = label]
        BY <1>1 DEF Ws!Request, Ws!Ask, Ws!NotConnected, Ws!Send, Ws!SendFails, Ws!GiveUpStream, Ws!TakeAnswer,
                    Ws!TakeNotice, Ws!TakeGarbled, Ws!Return, Ws!Skip, Ws!ReceiveFails, Ws!HasConnection, Ws!Message,
                    Ws!Goto
    <2>3. CASE pc' = pc
        BY <2>1, <2>3, WsListsStay
    <2>4. CASE pc' # pc
        BY <2>1, <2>2, <2>4, WsStageChanges DEF RotatingStages
    <2> QED BY <2>3, <2>4
<1>2. ASSUME NEW t \in Tasks, Ws!ShouldRotate(t)
      PROVE  WsLists'
    <2>1. /\ pc[t] = "deciding"
          /\ pc' = [pc EXCEPT ![t] = IF fallback_urls = <<>> THEN "failed" ELSE "locking"]
          /\ UNCHANGED <<active_url, fallback_urls, rotation_lock, initial_active, new_url>>
        BY <1>2 DEF Ws!ShouldRotate, Ws!Goto, Ws!rotation
    <2>2. ASSUME fallback_urls # <<>>
          PROVE  \E a, b \in Known : a # b
        <3>1. PICK x : x \in Range(fallback_urls)
            BY <2>2, HeadIsElement DEF WsLists
        <3>2. /\ active_url \in Known /\ initial_active \in [Tasks -> Known]
              /\ rotation_lock \in Tasks \cup {NoTask}
            BY DEF WsLists, WsRotationInv
        <3>3. CASE rotation_lock = NoTask
            <4>1. Range(fallback_urls) = Known \ {active_url}
                BY <3>3 DEF WsLists, WsRotationInv
            <4> QED BY <3>1, <3>2, <4>1
        <3>4. CASE rotation_lock \in Tasks
            <4>1. Range(fallback_urls) \subseteq Known \ {initial_active[rotation_lock]}
                BY <3>4 DEF WsLists, WsRotationInv
            <4> QED BY <3>1, <3>2, <3>4, <4>1
        <3> QED BY <3>2, <3>3, <3>4
    <2> QED BY <2>1, <2>2, WsStageChanges DEF RotatingStages
<1>3. ASSUME NEW t \in Tasks, Ws!Connect(t)
      PROVE  WsLists'
    <2>1. /\ pc[t] = "connecting" /\ pc' = [pc EXCEPT ![t] = "updating"]
          /\ UNCHANGED <<active_url, fallback_urls, rotation_lock, initial_active, new_url>>
        BY <1>3 DEF Ws!Connect, Ws!Goto, Ws!rotation
    <2> QED BY <2>1, WsStageChanges
<1>4. ASSUME NEW u \in Ws!Range(rpc_urls), Ws!ChangeHealth(u)
      PROVE  WsLists'
    BY <1>4, WsListsStay DEF Ws!ChangeHealth, Ws!rotation
<1>5. CASE Ws!Respond \/ Ws!SendUnasked
    BY <1>5, WsListsStay DEF Ws!Respond, Ws!SendUnasked, Ws!rotation
<1> QED BY <1>1, <1>2, <1>3, <1>4, <1>5, WsRotates DEF Ws!Next, Ws!Rotate

\* The answers.
LEMMA WsAnswersKept ==
    ASSUME pc \in [Tasks -> WsStages], DOMAIN request_id = Tasks, DOMAIN response = Tasks,
           Ws!AnswersAreTheirOwn, Ws!Next
    PROVE  Ws!AnswersAreTheirOwn'
<1> DEFINE Own(o) == pc[o] = "answered" => response[o] \subseteq {request_id[o], Ws!NoId}
<1>1. \A o \in Tasks : Own(o)
    BY DEF Ws!AnswersAreTheirOwn
<1>2. SUFFICES \A o \in Tasks : Own(o)'
    BY DEF Ws!AnswersAreTheirOwn
<1>3. ASSUME NEW t \in Tasks, Ws!Request(t) \/ Ws!Send(t)
      PROVE  \A o \in Tasks : Own(o)'
    <2>1. /\ pc'[t] # "answered"
          /\ \A o \in Tasks : o # t => pc'[o] = pc[o] /\ request_id'[o] = request_id[o] /\ response'[o] = response[o]
        BY <1>3 DEF Ws!Request, Ws!Send, Ws!Goto
    <2> QED BY <1>1, <2>1
<1>4. ASSUME NEW t \in Tasks, Ws!TakeAnswer(t) \/ Ws!TakeNotice(t)
      PROVE  \A o \in Tasks : Own(o)'
    <2>1. /\ \E id \in {request_id[t], Ws!NoId} : response' = [response EXCEPT ![t] = {id}]
          /\ pc' = [pc EXCEPT ![t] = "answered"] /\ request_id' = request_id
        BY <1>4 DEF Ws!TakeAnswer, Ws!TakeNotice, Ws!Return, Ws!Goto
    <2>2. /\ response'[t] \subseteq {request_id'[t], Ws!NoId}
          /\ \A o \in Tasks : o # t => pc'[o] = pc[o] /\ request_id'[o] = request_id[o] /\ response'[o] = response[o]
        BY <2>1
    <2> QED BY <1>1, <2>2
<1>5. ASSUME NEW t \in Tasks, Ws!TakeGarbled(t)
      PROVE  \A o \in Tasks : Own(o)'
    <2>1. /\ pc'[t] # "answered"
          /\ \A o \in Tasks : o # t => pc'[o] = pc[o] /\ request_id'[o] = request_id[o] /\ response'[o] = response[o]
        BY <1>5 DEF Ws!TakeGarbled, Ws!Return, Ws!Goto
    <2> QED BY <1>1, <2>1
<1>6. ASSUME UNCHANGED <<request_id, response>>,
             \A o \in Tasks : pc'[o] = "answered" => pc[o] = "answered"
      PROVE  \A o \in Tasks : Own(o)'
    BY <1>1, <1>6
<1>7. ASSUME NEW t \in Tasks, Ws!NotConnected(t) \/ Ws!SendFails(t) \/ Ws!Skip(t) \/ Ws!ReceiveFails(t) \/ Ws!Rotate(t)
      PROVE  \A o \in Tasks : Own(o)'
    <2>1. UNCHANGED <<request_id, response>>
        BY <1>7 DEF Ws!NotConnected, Ws!SendFails, Ws!GiveUpStream, Ws!Skip, Ws!ReceiveFails, Ws!Rotate,
                    Ws!ShouldRotate, Ws!Lock, Ws!Choose, Ws!Connect, Ws!ConnectFails, Ws!UpdateClient, Ws!UpdateLists,
                    Ws!connection
    <2>2. \/ pc' = pc
          \/ \E label \in WsStages \ {"answered"} : pc' = [pc EXCEPT ![t] = label]
        BY <1>7 DEF Ws!NotConnected, Ws!SendFails, Ws!GiveUpStream, Ws!Skip, Ws!ReceiveFails, Ws!Rotate,
                    Ws!ShouldRotate, Ws!Lock, Ws!Choose, Ws!Connect, Ws!ConnectFails, Ws!CountAttempt,
                    Ws!UpdateClient, Ws!UpdateLists, Ws!Goto, WsStages
    <2>3. \A o \in Tasks : pc'[o] = "answered" => pc[o] = "answered"
        BY <2>2
    <2> QED BY <1>6, <2>1, <2>3
<1>8. ASSUME NEW u, Ws!ChangeHealth(u) \/ Ws!Respond \/ Ws!SendUnasked
      PROVE  \A o \in Tasks : Own(o)'
    <2>1. UNCHANGED <<request_id, response, pc>>
        BY <1>8 DEF Ws!ChangeHealth, Ws!Respond, Ws!SendUnasked
    <2> QED BY <1>6, <2>1
<1> QED BY <1>3, <1>4, <1>5, <1>7, <1>8 DEF Ws!Next, Ws!Ask

\* The stream.
LEMMA WsStreamKept ==
    ASSUME WsStreamInv, WsLists, WsLists', pc \in [Tasks -> WsStages], Ws!Next
    PROVE  WsStreamInv'
<1> DEFINE Settled == {"idle", "asking", "waiting", "rotated", "answered", "refused", "failed"}
           Holds(lock) == /\ lock \in Tasks \cup {NoTask}
                          /\ \A o \in Tasks : pc'[o] = "waiting" <=> lock = o
                          /\ lock # NoTask => stream # {}
<1>1. /\ connection_lock \in Tasks \cup {NoTask}
      /\ \A o \in Tasks : pc[o] = "waiting" <=> connection_lock = o
      /\ connection_lock # NoTask => stream # {}
      /\ \A s \in stream : Shaped(s)
      /\ is_healthy <=> stream # {}
    BY DEF WsStreamInv, Ws!StreamFollowsActive, Ws!NoTask, NoTask
<1>2. \A o \in Tasks : stream = {} => pc[o] # "waiting"
    BY StreamFacts
<1>3. ASSUME NEW t \in Tasks, Ws!Request(t) \/ Ws!NotConnected(t)
      PROVE  WsStreamInv'
    <2>1. /\ UNCHANGED <<stream, is_healthy, connection_lock, active_url, rotation_lock, new_url>>
          /\ pc[t] \in Settled \ {"waiting"}
          /\ \E label \in Settled \ {"waiting"} : pc' = [pc EXCEPT ![t] = label]
        BY <1>3 DEF Ws!Request, Ws!NotConnected, Ws!HasConnection, Ws!Goto, Ws!connection, Ws!rotation
    <2>2. /\ pc'[t] \in Settled \ {"waiting"}
          /\ \A o \in Tasks : o # t => pc'[o] = pc[o]
        BY <2>1
    <2>3. Holds(connection_lock')
        BY <1>1, <2>1, <2>2
    <2> QED BY <1>1, <2>1, <2>2, <2>3, MessagesKeepStreams, StreamStays
<1>4. ASSUME NEW t \in Tasks, Ws!Send(t)
      PROVE  WsStreamInv'
    <2>1. /\ UNCHANGED <<is_healthy, active_url, rotation_lock, new_url>>
          /\ pc[t] \in {"asking", "rotated"} /\ connection_lock = NoTask
          /\ \E s \in stream : \E id : stream' = {[s EXCEPT !.asked = @ \cup {id}]}
          /\ connection_lock' = t /\ pc' = [pc EXCEPT ![t] = "waiting"]
        BY <1>4 DEF Ws!Send, Ws!HasConnection, Ws!Goto, Ws!rotation, Ws!NoTask, NoTask
    <2>2. pc'[t] = "waiting" /\ \A o \in Tasks : o # t => pc'[o] = pc[o]
        BY <2>1
    <2>3. SameStreams
        <3>1. PICK s \in stream : \E id : stream' = {[s EXCEPT !.asked = s.asked \cup {id}]}
            BY <2>1
        <3>2. PICK id : stream' = {[s EXCEPT !.asked = s.asked \cup {id}]}
            BY <3>1
        <3> QED BY <1>1, <3>2, MessagesKeepStreams
    <2>4. Holds(connection_lock')
        BY <1>1, <2>1, <2>2, TasksAssumption
    <2> QED BY <2>1, <2>2, <2>3, <2>4, StreamStays
<1>5. ASSUME NEW t \in Tasks, Ws!TakeAnswer(t) \/ Ws!TakeNotice(t) \/ Ws!TakeGarbled(t)
      PROVE  WsStreamInv'
    <2>1. /\ UNCHANGED <<is_healthy, active_url, rotation_lock, new_url>>
          /\ pc[t] = "waiting" /\ Ws!TakeMessage /\ connection_lock' = NoTask
          /\ \E label \in {"answered", "refused"} : pc' = [pc EXCEPT ![t] = label]
        BY <1>5 DEF Ws!TakeAnswer, Ws!TakeNotice, Ws!TakeGarbled, Ws!Message, Ws!Return, Ws!Goto, Ws!rotation,
                    Ws!NoTask, NoTask
    <2>2. pc'[t] \in {"answered", "refused"} /\ \A o \in Tasks : o # t => pc'[o] = pc[o]
        BY <2>1
    <2>3. Holds(connection_lock')
        BY <1>1, <2>1, <2>2, TasksAssumption
    <2> QED BY <1>1, <2>1, <2>2, <2>3, MessagesKeepStreams, StreamStays
<1>6. ASSUME NEW t \in Tasks, Ws!Skip(t)
      PROVE  WsStreamInv'
    <2>1. UNCHANGED <<is_healthy, connection_lock, active_url, rotation_lock, new_url, pc>> /\ Ws!TakeMessage
        BY <1>6 DEF Ws!Skip, Ws!rotation
    <2> QED BY <1>1, <2>1, MessagesKeepStreams, StreamStays
<1>7. ASSUME NEW t \in Tasks, Ws!SendFails(t) \/ Ws!ReceiveFails(t)
      PROVE  WsStreamInv'
    <2>1. /\ stream' = {} /\ is_healthy' = FALSE /\ connection_lock' = NoTask
          /\ pc' = [pc EXCEPT ![t] = "deciding"]
          /\ \/ connection_lock = NoTask /\ stream # {}
             \/ pc[t] = "waiting"
        BY <1>7 DEF Ws!SendFails, Ws!ReceiveFails, Ws!GiveUpStream, Ws!HasConnection, Ws!Goto, Ws!NoTask, NoTask
    <2>2. stream # {}
        BY <1>2, <2>1
    <2>3. \A o \in Tasks : o # t => ~ Adrift(o) /\ pc[o] # "waiting" /\ pc'[o] = pc[o]
        BY <1>1, <2>1, <2>2, StreamFacts, TasksAssumption
    <2> QED BY <2>1, <2>3, StreamIsGone
<1>8. ASSUME NEW t \in Tasks, Ws!ShouldRotate(t) \/ Ws!Lock(t) \/ Ws!Choose(t) \/ Ws!ConnectFails(t)
      PROVE  WsStreamInv'
    <2>1. /\ Adrift(t)
          /\ \E label \in WsStages \ {"waiting"} : pc' = [pc EXCEPT ![t] = label]
          /\ UNCHANGED <<stream, connection_lock>>
          /\ is_healthy' \in {is_healthy, FALSE}
        BY <1>8 DEF Ws!ShouldRotate, Ws!Lock, Ws!Choose, Ws!ConnectFails, Ws!CountAttempt, Ws!Goto, Ws!connection, Adrift,
                    WsStages
    <2>2. stream = {} /\ \A o \in Tasks : o # t => ~ Adrift(o)
        BY <2>1 DEF WsStreamInv
    <2>3. is_healthy' = FALSE /\ connection_lock' = NoTask /\ \A o \in Tasks : pc[o] # "waiting"
        BY <2>1, <2>2, StreamFacts DEF WsStreamInv
    <2>4. pc'[t] # "waiting" /\ \A o \in Tasks : o # t => pc'[o] = pc[o]
        BY <2>1
    <2> QED BY <2>1, <2>2, <2>3, <2>4, StreamIsGone
<1>9. ASSUME NEW t \in Tasks, Ws!Connect(t)
      PROVE  WsStreamInv'
    <2>1. /\ pc[t] = "connecting" /\ pc' = [pc EXCEPT ![t] = "updating"]
          /\ connection_lock = NoTask /\ connection_lock' = NoTask
          /\ stream' = Ws!Opened(new_url[t]) /\ is_healthy' = TRUE
          /\ UNCHANGED <<rotation_lock, new_url>>
        BY <1>9 DEF Ws!Connect, Ws!Goto, Ws!NoTask, NoTask, Ws!rotation
    <2>2. rotation_lock = t
        BY <2>1 DEF WsLists, WsRotationInv
    <2>3. pc'[t] = "updating" /\ \A o \in Tasks : o # t => pc'[o] = pc[o]
        BY <2>1
    <2>4. stream = {} /\ \A o \in Tasks : o # t => ~ Adrift(o)
        BY <2>1 DEF WsStreamInv, Adrift
    <2>5. \A o \in Tasks : ~ Adrift(o)' /\ pc'[o] # "waiting"
        BY <1>2, <2>3, <2>4 DEF Adrift
    <2>6. stream' # {} /\ \A s \in stream' : Shaped(s) /\ s.url = new_url[t]
        BY <2>1 DEF Ws!Opened, Shaped
    <2>7. Ws!StreamFollowsActive'
        BY <2>1, <2>2, <2>3, <2>6, TasksAssumption DEF Ws!StreamFollowsActive, Ws!NoTask, NoTask
    <2> QED BY <2>1, <2>5, <2>6, <2>7, TasksAssumption DEF WsStreamInv, Shaped
<1>10. ASSUME NEW t \in Tasks, Ws!UpdateClient(t) \/ Ws!UpdateLists(t)
       PROVE  WsStreamInv'
    <2>1. /\ UNCHANGED <<stream, is_healthy, connection_lock>>
          /\ \/ /\ pc[t] = "updating" /\ pc' = [pc EXCEPT ![t] = "listing"]
                /\ UNCHANGED <<rotation_lock, new_url>>
             \/ /\ pc[t] = "listing" /\ pc' = [pc EXCEPT ![t] = "rotated"]
                /\ active_url' = new_url[t] /\ rotation_lock' = NoTask
        BY <1>10 DEF Ws!UpdateClient, Ws!UpdateLists, Ws!Release, Ws!Goto, Ws!connection, Ws!NoTask, NoTask
    <2>2. rotation_lock = t
        BY <2>1 DEF WsLists, WsRotationInv
    <2>3. /\ pc[t] \in {"updating", "listing"} /\ pc'[t] \in {"listing", "rotated"}
          /\ \A o \in Tasks : o # t => pc'[o] = pc[o]
        BY <2>1
    <2>4. \A o \in Tasks : (Adrift(o)' <=> Adrift(o)) /\ (pc'[o] = "waiting" <=> pc[o] = "waiting")
        BY <2>3 DEF Adrift
    <2>5. \A s \in stream : s.url = new_url[t]
        BY <2>2, TasksAssumption DEF WsStreamInv, Ws!StreamFollowsActive, Ws!NoTask, NoTask
    <2>6. Ws!StreamFollowsActive'
        <3>1. \A s \in stream : IF rotation_lock' = NoTask
                                THEN s.url = active_url'
                                ELSE pc'[rotation_lock'] \in {"updating", "listing"} /\ s.url = new_url'[rotation_lock']
            BY <2>1, <2>2, <2>3, <2>5, TasksAssumption
        <3>2. connection_lock # NoTask => pc'[connection_lock] = "waiting" /\ stream # {}
            BY <1>1, <2>4
        <3> QED BY <1>1, <2>1, <3>1, <3>2 DEF Ws!StreamFollowsActive, Ws!NoTask, NoTask
    <2> QED BY <2>1, <2>4, <2>6 DEF WsStreamInv
<1>11. CASE Ws!Respond \/ Ws!SendUnasked
    <2>1. UNCHANGED <<is_healthy, connection_lock, active_url, rotation_lock, new_url, pc>>
        BY <1>11 DEF Ws!Respond, Ws!SendUnasked, Ws!rotation
    <2>2. SameStreams
        <3>1. CASE Ws!Respond
            <4>1. PICK s \in stream : \E id \in s.asked :
                      stream' = {[s EXCEPT !.asked = s.asked \ {id}, !.inbox = Append(s.inbox, [kind |-> "answer", id |-> id])]}
                BY <3>1 DEF Ws!Respond
            <4>2. PICK id \in s.asked :
                      stream' = {[s EXCEPT !.asked = s.asked \ {id}, !.inbox = Append(s.inbox, [kind |-> "answer", id |-> id])]}
                BY <4>1
            <4> QED BY <1>1, <4>2, MessagesKeepStreams
        <3>2. CASE Ws!SendUnasked
            <4>1. PICK s \in stream : \E kind :
                      stream' = {[s EXCEPT !.inbox = Append(s.inbox, [kind |-> kind, id |-> Ws!NoId])]}
                BY <3>2 DEF Ws!SendUnasked
            <4>2. PICK kind : stream' = {[s EXCEPT !.inbox = Append(s.inbox, [kind |-> kind, id |-> Ws!NoId])]}
                BY <4>1
            <4> QED BY <1>1, <4>2, MessagesKeepStreams
        <3> QED BY <1>11, <3>1, <3>2
    <2> QED BY <1>1, <2>1, <2>2, StreamStays
<1>12. ASSUME NEW u, Ws!ChangeHealth(u)
       PROVE  WsStreamInv'
    <2>1. UNCHANGED <<is_healthy, connection_lock, active_url, rotation_lock, new_url, pc>>
        BY <1>12 DEF Ws!ChangeHealth, Ws!rotation
    <2>2. SameStreams
        <3>1. PICK c \in Conditions :
                  /\ health' = [health EXCEPT ![u] = c]
                  /\ stream' = {[s EXCEPT !.open = s.open /\ ~(s.url = u /\ c = "down")] : s \in stream}
            BY <1>12 DEF Ws!ChangeHealth
        <3> DEFINE still(s) == s.open /\ ~(s.url = u /\ c = "down")
        <3>2. stream' = {[s EXCEPT !.open = still(s)] : s \in stream}
            BY <3>1
        <3>3. \A s \in stream : Shaped([s EXCEPT !.open = still(s)]) /\ [s EXCEPT !.open = still(s)].url = s.url
            BY <1>1 DEF Shaped
        <3> HIDE DEF still
        <3> QED BY <3>2, <3>3 DEF SameStreams
    <2> QED BY <1>1, <2>1, <2>2, StreamStays
<1> QED BY <1>3, <1>4, <1>5, <1>6, <1>7, <1>8, <1>9, <1>10, <1>11, <1>12 DEF Ws!Next, Ws!Ask, Ws!Rotate

\* A client over a WebSocket starts with a stream to the active URL and all other URLs.
LEMMA WsStarts ==
    ASSUME Ws!Init
    PROVE  rpc_urls \in Configurations /\ WsLists /\ WsInv
<1>1. rpc_urls \in Configurations
    BY DEF Ws!Init
<1>2. PICK k \in 1 .. Len(rpc_urls) :
          /\ active_url = rpc_urls[k] /\ fallback_urls = Without(rpc_urls, rpc_urls[k])
          /\ stream = Ws!Opened(rpc_urls[k])
    BY WsWithout DEF Ws!Init
<1>3. /\ active_url \in Known
      /\ fallback_urls \in Seq(Urls) /\ IsInjective(fallback_urls)
      /\ Range(fallback_urls) = Known \ {active_url}
    BY <1>1, <1>2, ConfigurationFacts, WithoutProperties DEF Known
<1>4. /\ rotation_lock = NoTask /\ connection_lock = NoTask /\ is_healthy = TRUE
      /\ pc = [t \in Tasks |-> "idle"]
      /\ new_url \in [Tasks -> Known] /\ initial_active \in [Tasks -> Known]
      /\ DOMAIN request_id = Tasks /\ DOMAIN response = Tasks
    BY <1>1, ConfigurationFacts DEF Ws!Init, Ws!NoTask, NoTask
<1>5. WsRotationInv
    BY <1>3, <1>4, TasksAssumption DEF WsRotationInv
<1>6. stream # {} /\ \A s \in stream : Shaped(s) /\ s.url = active_url
    BY <1>2 DEF Ws!Opened, Shaped
<1>7. WsStreamInv
    BY <1>4, <1>6, TasksAssumption DEF WsStreamInv, Adrift, Ws!StreamFollowsActive, Ws!NoTask, NoTask
<1>8. Ws!AnswersAreTheirOwn
    BY <1>4 DEF Ws!AnswersAreTheirOwn
<1> QED BY <1>1, <1>3, <1>4, <1>5, <1>7, <1>8 DEF WsLists, WsInv, WsStages

\* Every step over a WebSocket keeps the invariant.
LEMMA WsStep ==
    ASSUME TransportsInv, transport = "ws", OnWs(Ws!Next)
    PROVE  TransportsInv'
<1>1. /\ WsInv /\ WsLists /\ rpc_urls \in Configurations
      /\ Ws!Next /\ UNCHANGED transport
    BY DEF TransportsInv, OnWs, WsLists, WsInv
<1>2. /\ rpc_urls' = rpc_urls /\ pc' \in [Tasks -> WsStages]
      /\ DOMAIN request_id' = Tasks /\ DOMAIN response' = Tasks
    BY <1>1, WsFrame DEF WsInv
<1>3. WsLists'
    BY <1>1, <1>2, WsListsKept DEF WsInv
<1>4. WsStreamInv'
    BY <1>1, <1>3, WsStreamKept DEF WsInv
<1>5. Ws!AnswersAreTheirOwn'
    BY <1>1, WsAnswersKept DEF WsInv
<1>6. WsInv'
    BY <1>2, <1>3, <1>4, <1>5 DEF WsInv, WsLists
<1> QED BY <1>1, <1>2, <1>3, <1>6 DEF TransportsInv, WsLists

-----------------------------------------------------------------------------
(* The client.                                                             *)

\* The inductive invariant holds over either transport.
THEOREM TransportsInvariance == TransportsSpec => []TransportsInv
<1>1. HttpInit \/ WsInit => TransportsInv
    BY HttpStarts, WsStarts DEF HttpInit, WsInit, TransportsInv, WsLists
<1>2. TransportsInv /\ [TransportsNext]_allVars => TransportsInv'
    <2> SUFFICES ASSUME TransportsInv, [TransportsNext]_allVars
                 PROVE  TransportsInv'
        OBVIOUS
    <2>1. CASE OnHttp(Next)
        BY <2>1, HttpStep DEF OnHttp
    <2>2. CASE OnWs(Ws!Next)
        BY <2>2, WsStep DEF OnWs
    <2>3. CASE UNCHANGED allVars
        <3>1. /\ UNCHANGED <<transport, rpc_urls, active_url, fallback_urls, rotation_lock, pc, initial_active, new_url>>
              /\ UNCHANGED <<stream, is_healthy, connection_lock, request_id, response>>
            BY <2>3 DEF allVars, vars, wsVars
        <3>2. Known' = Known
            BY <3>1 DEF Known
        <3>3. HttpInv => HttpInv'
            BY <3>1, <3>2 DEF HttpInv
        <3>4. WsInv => WsInv'
            <4>1. WsRotationInv => WsRotationInv'
                BY <3>1, <3>2 DEF WsRotationInv
            <4>2. WsStreamInv => WsStreamInv'
                BY <3>1 DEF WsStreamInv, Adrift, Shaped, Ws!StreamFollowsActive
            <4>3. Ws!AnswersAreTheirOwn => Ws!AnswersAreTheirOwn'
                BY <3>1 DEF Ws!AnswersAreTheirOwn
            <4> QED BY <3>1, <4>1, <4>2, <4>3 DEF WsInv
        <3> QED BY <3>1, <3>2, <3>3, <3>4 DEF TransportsInv
    <2> QED BY <2>1, <2>2, <2>3 DEF TransportsNext
<1> QED BY <1>1, <1>2, PTL DEF TransportsSpec

\* However many tasks rotate at once, and however often connecting fails, no URL is lost or listed twice
\* (http/endpoint_manager.rs:158-184, ws/endpoint_manager.rs:80-145).
THEOREM UrlsAreConserved == TransportsSpec => []UrlsConserved
<1>1. TransportsInv => UrlsConserved
    BY DEF TransportsInv, HttpInv, WsInv, WsRotationInv, UrlsConserved, Known
<1> QED BY <1>1, TransportsInvariance, PTL

\* A rotation ends at the URL it has connected to, and a stream belongs to the active URL or to the one
\* that is about to become it (http/endpoint_manager.rs:92-185, ws/transport.rs:391-435).
THEOREM RotationsStayAtomic == TransportsSpec => []RotationsAreAtomic
<1>1. TransportsInv => RotationsAreAtomic
    <2> SUFFICES ASSUME TransportsInv PROVE RotationsAreAtomic
        OBVIOUS
    <2>1. ASSUME transport = "http", HttpInv
          PROVE  RotationIsAtomic
        BY <2>1 DEF HttpInv, RotationIsAtomic
    <2>2. WsInv => Ws!StreamFollowsActive
        BY DEF WsInv, WsStreamInv
    <2> QED BY <2>1, <2>2 DEF TransportsInv, RotationsAreAtomic
<1> QED BY <1>1, TransportsInvariance, PTL

\* A request over a WebSocket returns its own answer, or a text without an id (ws/transport.rs:244-266).
THEOREM AnswersStayTheirOwn == TransportsSpec => []AnswersAreTheirOwn
<1>1. TransportsInv => AnswersAreTheirOwn
    BY DEF TransportsInv, WsInv, AnswersAreTheirOwn
<1> QED BY <1>1, TransportsInvariance, PTL
=============================================================================
