-------------------------- MODULE EndpointManager ---------------------------
(***************************************************************************)
(* The HTTP endpoint rotation of one network's client                      *)
(* (transports/http/endpoint_manager.rs and transport.rs).  Tasks send     *)
(* requests concurrently through one client: each reads the active URL,    *)
(* asks it, and on a 429 or a network error tries to rotate the client to  *)
(* another URL and asks again.  A rotation holds rotation_lock; reading    *)
(* the active URL does not.                                                *)
(*                                                                         *)
(* A URL is an endpoint: update_client's normalisation names the same one. *)
(* The retries that the HTTP middleware makes on one URL are part of one   *)
(* request, and an endpoint is what they find it to be: "up", "limited"    *)
(* (requests get 429; the small test request may get through), or "down".  *)
(***************************************************************************)
EXTENDS Integers, SequencesExt

CONSTANTS
    Tasks,          \* the tasks that send requests
    Urls,           \* URLs of endpoints
    Configurations, \* lists of the rpc URLs of positive weight, heaviest first
    Conditions,     \* the conditions the endpoints may be in
    MaxChanges      \* bound: how often an endpoint changes its condition

NoTask == "none"

ASSUME UrlsAssumption ==
    /\ Configurations \subseteq Seq(Urls) \ {<<>>}
    /\ \A urls \in Configurations : IsInjective(urls)
ASSUME HealthAssumption == Conditions \subseteq {"up", "limited", "down"} /\ MaxChanges \in Nat
ASSUME TasksAssumption == NoTask \notin Tasks

VARIABLES
    rpc_urls,       \* the network's configuration, which never changes
    active_url,     \* Arc<RwLock<String>>
    fallback_urls,  \* Arc<RwLock<Vec<String>>>
    rotation_lock,  \* the task that holds it, or NoTask
    pc,             \* pc[t]: where task t is
    url,            \* url[t]: current_url_snapshot
    initial_active, \* initial_active[t]: the URL t rotates away from
    new_url,        \* new_url[t]: the URL t rotates to
    health,         \* health[u]: the condition of endpoint u
    changes         \* how often an endpoint has changed its condition

vars == <<rpc_urls, active_url, fallback_urls, rotation_lock, pc, url, initial_active, new_url,
          health, changes>>

\* A list of fallbacks has each URL once, so that all of u goes with its first occurrence.
Without(urls, u) == RemoveFirst(urls, u)

\* HttpTransportClient::new: the first URL, by weight, that answers the test request
\* becomes the active one, the others its fallbacks.
Init ==
    /\ rpc_urls \in Configurations
    /\ health \in [Range(rpc_urls) -> Conditions]
    /\ \E k \in 1 .. Len(rpc_urls) :
          /\ health[rpc_urls[k]] # "down"
          /\ \A j \in 1 .. k - 1 : health[rpc_urls[j]] # "up"
          /\ active_url = rpc_urls[k]
          /\ fallback_urls = Without(rpc_urls, rpc_urls[k])
    /\ rotation_lock = NoTask
    /\ pc = [t \in Tasks |-> "idle"]
    /\ url = [t \in Tasks |-> rpc_urls[1]]
    /\ initial_active = [t \in Tasks |-> rpc_urls[1]]
    /\ new_url = [t \in Tasks |-> rpc_urls[1]]
    /\ changes = 0

\* What no task changes.
environment == <<rpc_urls, health, changes>>

Goto(t, label) == pc' = [pc EXCEPT ![t] = label]

-----------------------------------------------------------------------------
(* send_raw_request                                                        *)

\* A request is made, or made again: the loop starts with the URL now active.
Send(t) ==
    /\ pc[t] \in {"idle", "answered", "failed", "refused", "rotated"}
    /\ url' = [url EXCEPT ![t] = active_url]
    /\ Goto(t, "asking")
    /\ UNCHANGED <<active_url, fallback_urls, rotation_lock, initial_active, new_url, environment>>

\* A successful response.
Answered(t) ==
    /\ pc[t] = "asking"
    /\ health[url[t]] = "up"
    /\ Goto(t, "answered")
    /\ UNCHANGED <<active_url, fallback_urls, rotation_lock, url, initial_active, new_url, environment>>

\* Any other status, or a request that cannot be serialized, fails without rotation.
Refused(t) ==
    /\ pc[t] = "asking"
    /\ health[url[t]] # "down"
    /\ Goto(t, "refused")
    /\ UNCHANGED <<active_url, fallback_urls, rotation_lock, url, initial_active, new_url, environment>>

\* 429 or a network error: rotate.
NeedsRotation(t) ==
    /\ pc[t] = "asking"
    /\ health[url[t]] \in {"limited", "down"}
    /\ Goto(t, "locking")
    /\ UNCHANGED <<active_url, fallback_urls, rotation_lock, url, initial_active, new_url, environment>>

-----------------------------------------------------------------------------
(* try_rotate_url                                                          *)

\* The rotation returns: its guard is dropped, and its locals with it.
Release(t) ==
    /\ rotation_lock' = NoTask
    /\ initial_active' = [initial_active EXCEPT ![t] = rpc_urls[1]]
    /\ new_url' = [new_url EXCEPT ![t] = rpc_urls[1]]

\* The first fallback that is not the active URL is the only one that is tried.
Candidates(urls, current) == Without(urls, current)

\* Mutant: the rotation does not wait for the lock.
LockAtOnce(t) ==
    /\ pc[t] = "locking"
    /\ Candidates(fallback_urls, active_url) # <<>>
    /\ rotation_lock' = t
    /\ initial_active' = [initial_active EXCEPT ![t] = active_url]
    /\ new_url' = [new_url EXCEPT ![t] = Head(Candidates(fallback_urls, active_url))]
    /\ Goto(t, "connecting")
    /\ UNCHANGED <<active_url, fallback_urls, url, environment>>

\* rotation_lock is acquired and the candidate chosen.
Lock(t) ==
    /\ pc[t] = "locking"
    /\ rotation_lock = NoTask
    /\ Candidates(fallback_urls, active_url) # <<>>
    /\ rotation_lock' = t
    /\ initial_active' = [initial_active EXCEPT ![t] = active_url]
    /\ new_url' = [new_url EXCEPT ![t] = Head(Candidates(fallback_urls, active_url))]
    /\ Goto(t, "connecting")
    /\ UNCHANGED <<active_url, fallback_urls, url, environment>>

\* "No fallback URLs available": the request fails.
NoCandidate(t) ==
    /\ pc[t] = "locking"
    /\ rotation_lock = NoTask
    /\ Candidates(fallback_urls, active_url) = <<>>
    /\ Goto(t, "failed")
    /\ UNCHANGED <<active_url, fallback_urls, rotation_lock, url, initial_active, new_url, environment>>

\* try_connect succeeds.
Connect(t) ==
    /\ pc[t] = "connecting"
    /\ health[new_url[t]] # "down"
    /\ Goto(t, "updating")
    /\ UNCHANGED <<active_url, fallback_urls, rotation_lock, url, initial_active, new_url, environment>>

\* try_connect fails: the lock is released and the request fails.
ConnectFails(t) ==
    /\ pc[t] = "connecting"
    /\ health[new_url[t]] # "up"
    /\ Release(t)
    /\ Goto(t, "failed")
    /\ UNCHANGED <<active_url, fallback_urls, url, environment>>

\* update_client makes the new URL active while it is still among the fallbacks.
UpdateClient(t) ==
    /\ pc[t] = "updating"
    /\ active_url' = new_url[t]
    /\ Goto(t, "listing")
    /\ UNCHANGED <<fallback_urls, rotation_lock, url, initial_active, new_url, environment>>

\* The fallbacks lose the new URL and get the old one at their end; the lock is
\* released and the loop of send_raw_request starts again.
UpdateLists(t) ==
    /\ pc[t] = "listing"
    /\ fallback_urls' = Append(Without(fallback_urls, new_url[t]), initial_active[t])
    /\ active_url' = new_url[t]
    /\ Release(t)
    /\ Goto(t, "rotated")
    /\ UNCHANGED <<url, environment>>

-----------------------------------------------------------------------------

\* An endpoint recovers, starts to limit, or goes down.
ChangeHealth(u) ==
    /\ changes < MaxChanges
    /\ changes' = changes + 1
    /\ \E c \in Conditions : health' = [health EXCEPT ![u] = c]
    /\ UNCHANGED <<rpc_urls, active_url, fallback_urls, rotation_lock, pc, url, initial_active, new_url>>

Ask(t) == Answered(t) \/ Refused(t) \/ NeedsRotation(t)

Rotate(t) ==
    \/ Lock(t) \/ NoCandidate(t) \/ Connect(t) \/ ConnectFails(t)
    \/ UpdateClient(t) \/ UpdateLists(t)

Next ==
    \/ \E t \in Tasks : Send(t) \/ Ask(t) \/ Rotate(t)
    \/ \E u \in Range(rpc_urls) : ChangeHealth(u)

Spec == Init /\ [][Next]_vars

-----------------------------------------------------------------------------

\* However many tasks rotate at once, no URL is ever lost or listed twice: between
\* rotations the fallbacks are all URLs but the active one, each once.
UrlsConserved ==
    rotation_lock = NoTask =>
        /\ IsInjective(fallback_urls)
        /\ Range(fallback_urls) = Range(rpc_urls) \ {active_url}

\* A rotation ends at the URL it has connected to: no other task's rotation comes
\* between the choice of the URL and the update of the lists.
RotationIsAtomic ==
    \A t \in Tasks :
        pc[t] \in {"connecting", "updating", "listing"} =>
            /\ active_url = IF pc[t] = "listing" THEN new_url[t] ELSE initial_active[t]
            /\ new_url[t] \in Range(fallback_urls)
            /\ initial_active[t] \notin Range(fallback_urls)

\* "Returns the first successful response or an error if all attempts fail"
\* (endpoint_manager.rs): a request returns, however the tasks rotate the URL under
\* each other.  The loop has no bound: while endpoints limit requests and still answer
\* the test request of a rotation it may go round them for ever, hence the exception.
EveryRequestReturns ==
    \A t \in Tasks :
        pc[t] = "asking" ~> \/ pc[t] \in {"answered", "refused", "failed"}
                            \/ \E u \in Range(rpc_urls) : health[u] = "limited"
=============================================================================
