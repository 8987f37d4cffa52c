------------------------- MODULE WebSocketTransport --------------------------
(***************************************************************************)
(* The WebSocket transport of one network's client                         *)
(* (transports/ws/transport.rs, endpoint_manager.rs and connection.rs).    *)
(* One stream carries the requests of all tasks: the connection's lock is  *)
(* held from sending a request to its answer.  A stream that fails is      *)
(* given up, the lock is released, and the task that saw the failure       *)
(* rotates to another URL; nothing else ever connects again.               *)
(*                                                                         *)
(* An endpoint is "up", "limited" (it accepts connections and pings but    *)
(* answers no request in time) or "down".  A request id is any that is not *)
(* in use, as ids are only ever compared.  The stream a task finds is      *)
(* never None while is_healthy, so the branch of send_raw_request for that *)
(* case does not occur; nor does a rotation ever wait for the connection's *)
(* lock (StreamFollowsActive), so try_connect is one step.                 *)
(***************************************************************************)
EXTENDS Integers, FiniteSets, SequencesExt

CONSTANTS
    Tasks, Urls, Configurations, Conditions, MaxChanges, \* as in EndpointManager
    max_reconnect_attempts  \* WsConfig

VARIABLES
    rpc_urls, active_url, fallback_urls, rotation_lock, pc, initial_active, new_url,
    health, changes,     \* as in EndpointManager; changes also counts unsolicited messages
    stream,              \* {} or the stream: its URL, whether it is open, the ids of the
                         \* requests the endpoint has to answer, and what it has sent
    is_healthy,          \* WebSocketConnection
    connection_lock,     \* the task that holds the connection's mutex, or NoTask
    request_id,          \* request_id[t]: the id of t's latest request
    attempts,            \* attempts[t]: failed attempts of t's rotation
    response             \* response[t]: {} or what t's request returned

connection == <<stream, is_healthy, connection_lock, request_id, response>>
rotation == <<active_url, fallback_urls, rotation_lock, initial_active, new_url, attempts>>
environment == <<rpc_urls, health, changes>>
vars == <<connection, rotation, environment, pc>>

NoTask == "none"
NoId == 0

Without(urls, u) == RemoveFirst(urls, u)

Opened(u) == {[url |-> u, open |-> TRUE, asked |-> {}, inbox |-> <<>>]}

\* WsTransportClient::new: the first URL, by weight, that accepts a connection becomes the
\* active one, the others its fallbacks; then the stream is opened.
Init ==
    /\ rpc_urls \in Configurations
    /\ health \in [Range(rpc_urls) -> Conditions]
    /\ \E k \in 1 .. Len(rpc_urls) :
          /\ health[rpc_urls[k]] # "down"
          /\ \A j \in 1 .. k - 1 : health[rpc_urls[j]] = "down"
          /\ active_url = rpc_urls[k]
          /\ fallback_urls = Without(rpc_urls, rpc_urls[k])
          /\ stream = Opened(rpc_urls[k])
    /\ is_healthy = TRUE
    /\ connection_lock = NoTask
    /\ rotation_lock = NoTask
    /\ pc = [t \in Tasks |-> "idle"]
    /\ initial_active = [t \in Tasks |-> rpc_urls[1]]
    /\ new_url = [t \in Tasks |-> rpc_urls[1]]
    /\ attempts = [t \in Tasks |-> 0]
    /\ request_id = [t \in Tasks |-> NoId]
    /\ response = [t \in Tasks |-> {}]
    /\ changes = 0

Goto(t, label) == pc' = [pc EXCEPT ![t] = label]

-----------------------------------------------------------------------------
(* send_raw_request                                                        *)

\* A request is made: it waits for the connection.
Request(t) ==
    /\ pc[t] \in {"idle", "answered", "refused", "failed"}
    /\ request_id' = [request_id EXCEPT ![t] = NoId]
    /\ response' = [response EXCEPT ![t] = {}]
    /\ Goto(t, "asking")
    /\ UNCHANGED <<stream, is_healthy, connection_lock, rotation, environment>>

IsConnected == stream # {} /\ is_healthy

HasConnection(t) == pc[t] \in {"asking", "rotated"} /\ connection_lock = NoTask

\* "Not connected": the request fails at once, whatever the fallbacks.
NotConnected(t) ==
    /\ HasConnection(t)
    /\ ~IsConnected
    /\ Goto(t, "failed")
    /\ UNCHANGED <<connection, rotation, environment>>

InUse(s) == s.asked \cup {m.id : m \in Range(s.inbox)} \cup Range(request_id) \cup {NoId}

\* The request goes out under a new id, and the task waits for messages.
Send(t) ==
    /\ HasConnection(t)
    /\ IsConnected
    /\ \E s \in stream :
          LET id == CHOOSE n \in 0 .. Cardinality(InUse(s)) : n \notin InUse(s) IN
          /\ s.open
          /\ request_id' = [request_id EXCEPT ![t] = id]
          /\ stream' = {[s EXCEPT !.asked = @ \cup {id}]}
    /\ connection_lock' = t
    /\ Goto(t, "waiting")
    /\ UNCHANGED <<is_healthy, response, rotation, environment>>

\* handle_connection_error: the stream is given up and the connection's lock released.
GiveUpStream(t) ==
    /\ stream' = {}
    /\ is_healthy' = FALSE
    /\ connection_lock' = NoTask
    /\ Goto(t, "deciding")
    /\ UNCHANGED <<request_id, response, rotation, environment>>

SendFails(t) ==
    /\ HasConnection(t)
    /\ IsConnected
    /\ \E s \in stream : ~s.open
    /\ GiveUpStream(t)

Message(t, kind) ==
    /\ pc[t] = "waiting"
    /\ \E s \in stream : s.inbox # <<>> /\ Head(s.inbox).kind = kind

Id == (CHOOSE m \in {Head(s.inbox) : s \in stream} : TRUE).id

TakeMessage == stream' = {[s EXCEPT !.inbox = Tail(@)] : s \in stream}

Return(t, value, label) ==
    /\ TakeMessage
    /\ response' = [response EXCEPT ![t] = value]
    /\ connection_lock' = NoTask
    /\ Goto(t, label)
    /\ UNCHANGED <<is_healthy, request_id, rotation, environment>>

\* Mutant: the first answer that comes is taken for the task's own.
TakeAnswerOfAny(t) ==
    Message(t, "answer") /\ Return(t, {Id}, "answered")

\* The answer under the request's id.
TakeAnswer(t) ==
    Message(t, "answer") /\ Id = request_id[t] /\ Return(t, {Id}, "answered")

\* A text without an id, as a subscription sends it, is returned as the answer.
TakeNotice(t) ==
    Message(t, "notice") /\ Return(t, {NoId}, "answered")

\* A text that is not JSON fails the request; the stream is kept.
TakeGarbled(t) ==
    Message(t, "garbled") /\ Return(t, {}, "refused")

\* The answer to an earlier request is skipped, a ping answered.
Skip(t) ==
    /\ \/ Message(t, "answer") /\ Id # request_id[t]
       \/ Message(t, "ping") /\ \A s \in stream : s.open
    /\ TakeMessage
    /\ UNCHANGED <<is_healthy, connection_lock, request_id, response, rotation, environment, pc>>

\* Any other message, a pong that cannot be sent, a closed stream or no message in time.
ReceiveFails(t) ==
    /\ pc[t] = "waiting"
    /\ \/ Message(t, "other")
       \/ Message(t, "ping") /\ \E s \in stream : ~s.open
       \/ \E s \in stream : s.inbox = <<>> /\ (~s.open \/ health[s.url] # "up")
    /\ GiveUpStream(t)

-----------------------------------------------------------------------------
(* should_rotate and rotate_url                                            *)

\* Without fallbacks the request fails, and the connection stays closed.
ShouldRotate(t) ==
    /\ pc[t] = "deciding"
    /\ Goto(t, IF fallback_urls = <<>> THEN "failed" ELSE "locking")
    /\ UNCHANGED <<connection, rotation, environment>>

\* The rotation returns: its guard is dropped, and its locals with it.
Release(t) ==
    /\ rotation_lock' = NoTask
    /\ initial_active' = [initial_active EXCEPT ![t] = rpc_urls[1]]
    /\ new_url' = [new_url EXCEPT ![t] = rpc_urls[1]]
    /\ attempts' = [attempts EXCEPT ![t] = 0]

Lock(t) ==
    /\ pc[t] = "locking"
    /\ rotation_lock = NoTask
    /\ rotation_lock' = t
    /\ initial_active' = [initial_active EXCEPT ![t] = active_url]
    /\ Goto(t, "choosing")
    /\ UNCHANGED <<connection, active_url, fallback_urls, new_url, attempts, environment>>

Candidates(t) == Without(fallback_urls, initial_active[t])

\* The first fallback that is not the active URL leaves the list.  There always is one:
\* should_rotate saw it, and whoever has rotated since has put a URL back.
Choose(t) ==
    /\ pc[t] = "choosing"
    /\ new_url' = [new_url EXCEPT ![t] = Head(Candidates(t))]
    /\ fallback_urls' = Without(fallback_urls, Head(Candidates(t)))
    /\ Goto(t, "connecting")
    /\ UNCHANGED <<connection, active_url, rotation_lock, initial_active, attempts, environment>>

\* try_connect succeeds: other tasks may use the stream before its URL is the active one.
Connect(t) ==
    /\ pc[t] = "connecting"
    /\ connection_lock = NoTask
    /\ health[new_url[t]] # "down"
    /\ stream' = Opened(new_url[t])
    /\ is_healthy' = TRUE
    /\ Goto(t, "updating")
    /\ UNCHANGED <<connection_lock, request_id, response, rotation, environment>>

\* Mutant: the attempts are not counted.
CountAttemptNever(t) ==
    /\ Goto(t, "choosing")
    /\ UNCHANGED <<attempts, rotation_lock, initial_active, new_url>>

\* Another attempt, until they are used up.
CountAttempt(t) ==
    IF attempts[t] + 1 < max_reconnect_attempts
    THEN /\ attempts' = [attempts EXCEPT ![t] = @ + 1]
         /\ Goto(t, "choosing")
         /\ UNCHANGED <<rotation_lock, initial_active, new_url>>
    ELSE Release(t) /\ Goto(t, "failed")

\* try_connect fails: the URL goes to the end of the list.
ConnectFails(t) ==
    /\ pc[t] = "connecting"
    /\ connection_lock = NoTask
    /\ health[new_url[t]] # "up"
    /\ is_healthy' = FALSE
    /\ fallback_urls' = Append(fallback_urls, new_url[t])
    /\ CountAttempt(t)
    /\ UNCHANGED <<stream, connection_lock, request_id, response, active_url, environment>>

UpdateClient(t) ==
    /\ pc[t] = "updating"
    /\ active_url' = new_url[t]
    /\ Goto(t, "listing")
    /\ UNCHANGED <<connection, fallback_urls, rotation_lock, initial_active, new_url, attempts, environment>>

\* Mutant: the new URL, not the old one, joins the fallbacks.
UpdateListsSwapped(t) ==
    /\ pc[t] = "listing"
    /\ fallback_urls' = Append(fallback_urls, new_url[t])
    /\ active_url' = new_url[t]
    /\ Release(t)
    /\ Goto(t, "rotated")
    /\ UNCHANGED <<connection, environment>>

\* The old URL joins the fallbacks; the lock is released and the loop starts again.
UpdateLists(t) ==
    /\ pc[t] = "listing"
    /\ fallback_urls' = Append(fallback_urls, initial_active[t])
    /\ active_url' = new_url[t]
    /\ Release(t)
    /\ Goto(t, "rotated")
    /\ UNCHANGED <<connection, environment>>

-----------------------------------------------------------------------------
(* The endpoints                                                           *)

\* An endpoint that is up answers what it was asked.
Respond ==
    /\ \E s \in stream : \E id \in s.asked :
          /\ s.open
          /\ health[s.url] = "up"
          /\ stream' = {[s EXCEPT !.asked = @ \ {id},
                                  !.inbox = Append(@, [kind |-> "answer", id |-> id])]}
    /\ UNCHANGED <<is_healthy, connection_lock, request_id, response, rotation, environment, pc>>

\* It sends something else.
SendUnasked ==
    /\ changes < MaxChanges
    /\ changes' = changes + 1
    /\ \E s \in stream, kind \in {"notice", "garbled", "ping", "other"} :
          /\ s.open
          /\ stream' = {[s EXCEPT !.inbox = Append(@, [kind |-> kind, id |-> NoId])]}
    /\ UNCHANGED <<is_healthy, connection_lock, request_id, response, rotation, rpc_urls, health, pc>>

\* An endpoint changes its condition; one that goes down closes its stream.
ChangeHealth(u) ==
    /\ changes < MaxChanges
    /\ changes' = changes + 1
    /\ \E c \in Conditions :
          /\ health' = [health EXCEPT ![u] = c]
          /\ stream' = {[s EXCEPT !.open = @ /\ ~(s.url = u /\ c = "down")] : s \in stream}
    /\ UNCHANGED <<is_healthy, connection_lock, request_id, response, rotation, rpc_urls, pc>>

Ask(t) ==
    \/ NotConnected(t) \/ Send(t) \/ SendFails(t)
    \/ TakeAnswer(t) \/ TakeNotice(t) \/ TakeGarbled(t) \/ Skip(t) \/ ReceiveFails(t)

Rotate(t) ==
    \/ ShouldRotate(t) \/ Lock(t) \/ Choose(t)
    \/ Connect(t) \/ ConnectFails(t) \/ UpdateClient(t) \/ UpdateLists(t)

Next ==
    \/ \E t \in Tasks : Request(t) \/ Ask(t) \/ Rotate(t)
    \/ \E u \in Range(rpc_urls) : ChangeHealth(u)
    \/ Respond
    \/ SendUnasked

Spec == Init /\ [][Next]_vars

-----------------------------------------------------------------------------

\* No request is answered with the answer to another, though requests that failed to be
\* parsed leave answers on the stream.  The exception is a text without an id.
AnswersAreTheirOwn ==
    \A t \in Tasks : pc[t] = "answered" => response[t] \subseteq {request_id[t], NoId}

\* The stream belongs to the active URL, or to the one that a rotation is about to make
\* active; none is open while a rotation looks for a URL, and it is healthy when there is
\* one.  Tasks that fail one after the other while URLs change could break it.
StreamFollowsActive ==
    /\ is_healthy <=> stream # {}
    /\ \A s \in stream :
          IF rotation_lock = NoTask
          THEN s.url = active_url
          ELSE pc[rotation_lock] \in {"updating", "listing"} /\ s.url = new_url[rotation_lock]
    /\ connection_lock # NoTask => pc[connection_lock] = "waiting" /\ stream # {}
=============================================================================
