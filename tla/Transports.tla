----------------------------- MODULE Transports -----------------------------
(***************************************************************************)
(* A network's client over either transport: HTTP (EndpointManager) or     *)
(* WebSocket (WebSocketTransport).  Both keep an active URL, fallbacks and *)
(* a rotation lock, and promise the same of them.                          *)
(***************************************************************************)
EXTENDS EndpointManager

CONSTANTS
    max_reconnect_attempts, \* WsConfig
    MaxWsChanges            \* bound: MaxChanges for a WebSocket

ASSUME AttemptsAssumption == max_reconnect_attempts \in Nat \ {0} /\ MaxWsChanges \in Nat

VARIABLES
    transport,  \* "http" or "ws": the type of the rpc_urls that the client uses
    stream, is_healthy, connection_lock, request_id, attempts, response

Ws == INSTANCE WebSocketTransport WITH MaxChanges <- MaxWsChanges

wsVars == <<stream, is_healthy, connection_lock, request_id, attempts, response>>
allVars == <<vars, wsVars, transport>>

HttpInit ==
    /\ transport = "http"
    /\ Init
    /\ stream = {}
    /\ is_healthy = FALSE
    /\ connection_lock = NoTask
    /\ request_id = [t \in Tasks |-> 0]
    /\ attempts = [t \in Tasks |-> 0]
    /\ response = [t \in Tasks |-> {}]

WsInit ==
    /\ transport = "ws"
    /\ Ws!Init
    /\ url = [t \in Tasks |-> rpc_urls[1]]

\* A step of the HTTP client, or of the WebSocket client.
OnHttp(A) == transport = "http" /\ A /\ UNCHANGED <<wsVars, transport>>
OnWs(A) == transport = "ws" /\ A /\ UNCHANGED <<url, transport>>

TransportsNext == OnHttp(Next) \/ OnWs(Ws!Next)

\* A request under way goes on: the loop asks again, an endpoint asked answers or times
\* out, and tokio's fair mutexes admit every waiting task.
TransportsSpec ==
    /\ HttpInit \/ WsInit
    /\ [][TransportsNext]_allVars
    /\ \A t \in Tasks :
          /\ WF_allVars(OnHttp(pc[t] = "rotated" /\ Send(t)))
          /\ WF_allVars(OnHttp(Ask(t)))
          /\ SF_allVars(OnHttp(Rotate(t)))
          /\ SF_allVars(OnWs(Ws!Ask(t)))
          /\ SF_allVars(OnWs(Ws!Rotate(t)))
    /\ WF_allVars(OnWs(Ws!Respond))

-----------------------------------------------------------------------------

\* A rotation is atomic on both transports: its URL is the one the client ends at, and a
\* WebSocket's stream never belongs to another than the active URL.
RotationsAreAtomic ==
    IF transport = "http" THEN RotationIsAtomic ELSE Ws!StreamFollowsActive

\* No request over a WebSocket returns another's answer.
AnswersAreTheirOwn == transport = "ws" => Ws!AnswersAreTheirOwn
=============================================================================
