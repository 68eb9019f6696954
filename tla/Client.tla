------------------------------- MODULE Client -------------------------------
(***************************************************************************)
(* synapse::client: application threads send requests and hold futures,    *)
(* the transport's reader delivers responses and the peer's own requests,  *)
(* and every incoming request is handled on a detached thread.             *)
(*                                                                         *)
(* A request r stands for one call of send_request and the future that it  *)
(* returns. The wire is either text, which a JSON parser reads back, or    *)
(* JSON values handed over as they are (send_callback and on_message).     *)
(***************************************************************************)
EXTENDS RequestId, FiniteSets

CONSTANTS Requests,  \* calls of send_request, each on a thread of its own
          Calls,     \* requests the peer makes of the client
          CallId,    \* CallId[k]: the identifier the peer gives to k
          TextWire   \* messages cross as text

ASSUME TextWireAssumption == TextWire \in BOOLEAN
\* Finitely many calls are made, and the peer's are not ours.
ASSUME RequestsAssumption == IsFiniteSet(Requests) /\ Requests \cap Calls = {}

VARIABLES nextId,     \* next_id_
          promises,   \* promises_: identifier -> the request it was made for
          phase,      \* phase[r]: how far send_request has come
          number,     \* number[r]: req.id, 0 before it is taken
          future,     \* future[r]: what the future holds
          prom,       \* the local of handle_message: a promise taken from the map, and its answer
          handler,    \* request_handler_ is set
          handling,   \* handling[k]: how far the peer's request k has come
          alive,      \* the process has not been terminated
          outbox,     \* messages handed to the transport, not lost
          inbox,      \* messages the transport may deliver, in any order
          handled     \* history: requests whose response handle_message has consumed

sending == <<nextId, phase, number>>
serving == <<handler, handling>>
vars == <<nextId, promises, phase, number, future, prom, handler, handling, alive,
          outbox, inbox, handled>>

Pending == [kind |-> "pending"]
Broken == [kind |-> "broken"]
NoPromise == [kind |-> "none"]

Request(id, r) == [type |-> "request", id |-> id, of |-> r]
Response(id, r, kind) == [type |-> "response", id |-> id, of |-> r, kind |-> kind]
Kinds == {"result", "error", "empty"}

\* nlohmann prints the digits; its parser makes every non-negative integer
\* unsigned, and read_json_rpc_id looks at unsigned first.
Carried(id) ==
    IF TextWire /\ IsInteger(id) /\ id.value >= 0 THEN Unsigned(id.value) ELSE id

Init == /\ nextId = 1
        /\ promises = <<>>
        /\ phase = [r \in Requests |-> "idle"]
        /\ number = [r \in Requests |-> 0]
        /\ future = [r \in Requests |-> Pending]
        /\ prom = NoPromise
        /\ handler = FALSE
        /\ handling = [k \in Calls |-> "none"]
        /\ alive = TRUE
        /\ outbox = {}
        /\ inbox = {}
        /\ handled = {}

-----------------------------------------------------------------------------
(* send_request *)

\* Variant: the counter is read and not advanced.
TakeIdAgain(r) ==
    /\ phase[r] = "idle"
    /\ number' = [number EXCEPT ![r] = nextId]
    /\ phase' = [phase EXCEPT ![r] = "numbered"]
    /\ UNCHANGED <<nextId, promises, future, prom, serving, alive, outbox, inbox, handled>>

\* next_id_++ is atomic; the promise and its future exist from here on.
TakeId(r) ==
    /\ phase[r] = "idle"
    /\ number' = [number EXCEPT ![r] = nextId]
    /\ nextId' = nextId + 1
    /\ phase' = [phase EXCEPT ![r] = "numbered"]
    /\ UNCHANGED <<promises, future, prom, serving, alive, outbox, inbox, handled>>

\* emplace does not replace: a second promise for an identifier dies unfulfilled.
Register(r) ==
    /\ phase[r] = "numbered"
    /\ IF number[r] \in DOMAIN promises
       THEN future' = [future EXCEPT ![r] = Broken] /\ UNCHANGED promises
       ELSE /\ promises' = [id \in DOMAIN promises \union {number[r]} |->
                               IF id = number[r] THEN r ELSE promises[id]]
            /\ UNCHANGED future
    /\ phase' = [phase EXCEPT ![r] = "registered"]
    /\ UNCHANGED <<nextId, number, prom, serving, alive, outbox, inbox, handled>>

Transmit(r) ==
    /\ phase[r] = "registered"
    /\ outbox' = outbox \union {Request(Carried(Signed(number[r])), r)}
    /\ phase' = [phase EXCEPT ![r] = "sent"]
    /\ UNCHANGED <<nextId, promises, number, future, prom, serving, alive, inbox, handled>>

\* The callback ignores the transport's error, or an exception leaves send_request:
\* the promise stays in the map either way.
TransmitFails(r) ==
    /\ phase[r] = "registered"
    /\ phase' = [phase EXCEPT ![r] = "lost"]
    /\ UNCHANGED <<nextId, promises, number, future, prom, serving, alive, outbox, inbox, handled>>

-----------------------------------------------------------------------------
(* handle_message, on the transport's one reader *)

\* The response's identifier must be the int64_t alternative.
Known(id) == id.form = "int64" /\ id.value \in DOMAIN promises

\* Under promises_mutex_: the promise moves out of the map.
LookUp(m) ==
    /\ m \in inbox /\ m.type = "response" /\ Known(m.id)
    /\ prom' = [kind |-> m.kind, for |-> promises[m.id.value], of |-> m.of]
    /\ promises' = [id \in DOMAIN promises \ {m.id.value} |-> promises[id]]
    /\ inbox' = inbox \ {m}
    /\ UNCHANGED <<sending, future, serving, alive, outbox, handled>>

Ignore(m) ==
    /\ m \in inbox /\ m.type = "response" /\ ~Known(m.id)
    /\ inbox' = inbox \ {m}
    /\ handled' = handled \union {m.of}
    /\ UNCHANGED <<sending, promises, future, prom, serving, alive, outbox>>

\* Variant: a response with neither result nor error leaves its future as it is.
SetValueIfAny ==
    /\ prom # NoPromise
    /\ future' = IF prom.kind = "empty" THEN future
                 ELSE [future EXCEPT ![prom.for] = [kind |-> prom.kind, of |-> prom.of]]
    /\ handled' = handled \union {prom.of}
    /\ prom' = NoPromise
    /\ UNCHANGED <<sending, promises, serving, alive, outbox, inbox>>

\* set_value, outside the lock: the error, the result or an empty object.
SetValue ==
    /\ prom # NoPromise
    /\ future' = [future EXCEPT ![prom.for] = [kind |-> prom.kind, of |-> prom.of]]
    /\ handled' = handled \union {prom.of}
    /\ prom' = NoPromise
    /\ UNCHANGED <<sending, promises, serving, alive, outbox, inbox>>

\* With a handler the request goes to a detached thread.
Spawn(m) ==
    /\ handler
    /\ handling' = [handling EXCEPT ![m.of] = "running"]
    /\ UNCHANGED outbox

\* Without one it is answered in place.
MethodNotFound(m) ==
    /\ ~handler
    /\ handling' = [handling EXCEPT ![m.of] = "answered"]
    /\ outbox' = outbox \union {Response(Carried(m.id), m.of, "error")}

Serve(m) ==
    /\ m \in inbox /\ m.type = "request"
    /\ Spawn(m) \/ MethodNotFound(m)
    /\ inbox' = inbox \ {m}
    /\ UNCHANGED <<sending, promises, future, prom, handler, alive, handled>>

\* The reader finishes one message before it takes the next; an invalid message
\* makes from_json throw into the transport and changes nothing here.
HandleMessage == SetValue \/ (prom = NoPromise /\ \E m \in inbox : LookUp(m) \/ Ignore(m) \/ Serve(m))

-----------------------------------------------------------------------------
(* The detached threads and the application *)

HandlerReturns(k) ==
    /\ handling[k] = "running"
    /\ handling' = [handling EXCEPT ![k] = "answered"]
    /\ \E kind \in {"result", "error"} :
           outbox' = outbox \union {Response(Carried(CallId[k]), k, kind)}
    /\ UNCHANGED <<sending, promises, future, prom, handler, alive, inbox, handled>>

\* Nothing on the detached thread catches: the exception terminates the process.
HandlerThrows(k) ==
    /\ handling[k] = "running"
    /\ alive' = FALSE
    /\ UNCHANGED <<sending, promises, future, prom, serving, outbox, inbox, handled>>

SetRequestHandler ==
    /\ ~handler
    /\ handler' = TRUE
    /\ UNCHANGED <<sending, promises, future, prom, handling, alive, outbox, inbox, handled>>

-----------------------------------------------------------------------------
(* The peer: a server on the other end of the transport *)

\* It answers what it was asked, once or again, in any order, with the same identifier.
PeerAnswers(r) ==
    /\ \E m \in outbox, kind \in Kinds :
          /\ m.type = "request" /\ m.of = r
          /\ inbox' = inbox \union {Response(Carried(m.id), r, kind)}
    /\ ~\E m \in inbox : m.type = "response" /\ m.of = r
    /\ UNCHANGED <<sending, promises, future, prom, serving, alive, outbox, handled>>

PeerCalls(k) ==
    /\ handling[k] = "none"
    /\ handling' = [handling EXCEPT ![k] = "asked"]
    /\ inbox' = inbox \union {Request(Carried(CallId[k]), k)}
    /\ UNCHANGED <<sending, promises, future, prom, handler, alive, outbox, handled>>

SendRequest(r) == TakeId(r) \/ Register(r) \/ Transmit(r) \/ TransmitFails(r)

Next ==
    /\ alive
    /\ \/ \E r \in Requests : SendRequest(r) \/ PeerAnswers(r)
       \/ HandleMessage
       \/ \E k \in Calls : HandlerReturns(k) \/ HandlerThrows(k) \/ PeerCalls(k)
       \/ SetRequestHandler

Spec == Init /\ [][Next]_vars

\* Threads run, and the peer answers what it has not yet answered.
Fairness ==
    /\ \A r \in Requests :
          /\ WF_vars(alive /\ (TakeId(r) \/ Register(r) \/ Transmit(r)))
          /\ WF_vars(alive /\ r \notin handled /\ PeerAnswers(r))
          /\ WF_vars(alive /\ prom = NoPromise /\ \E m \in inbox : m.of = r /\ (LookUp(m) \/ Ignore(m)))
    /\ \A k \in Calls : /\ WF_vars(alive /\ HandlerReturns(k))
                        /\ WF_vars(alive /\ \E m \in inbox : m.of = k /\ Serve(m))
    /\ WF_vars(alive /\ SetValue)

FairSpec == Spec /\ Fairness

-----------------------------------------------------------------------------
(* Properties *)

Identifiers == {number[r] : r \in Requests} \ {0}

TypeOK ==
    /\ nextId \in 1..Cardinality(Requests) + 1
    /\ DOMAIN promises \subseteq Identifiers
    /\ \A id \in DOMAIN promises : promises[id] \in Requests
    /\ \A r \in Requests : /\ phase[r] \in {"idle", "numbered", "registered", "sent", "lost"}
                           /\ future[r].kind \in Kinds \union {"pending", "broken"}
    /\ prom = NoPromise \/ prom.for \in Requests
    /\ handled \subseteq Requests
    /\ \A m \in inbox : m.type = "request" <=> m.of \in Calls

(* However concurrent callers and out-of-order, repeated responses interleave, a *)
(* future only ever holds the peer's answer to its own request.                  *)
OwnAnswer == \A r \in Requests : future[r] # Pending => future[r].kind # "broken" /\ future[r].of = r

(* client.hpp:144, "It's a response to a request we sent": once the reader is done *)
(* with the response to a request, the future of that request is ready.            *)
ResponseResolvesItsRequest == \A r \in handled : future[r] # Pending

(* A request that reached the peer gets its answer into its future, unless a handler *)
(* has taken the process down.                                                       *)
AnsweredRequestsResolve ==
    \A r \in Requests : phase[r] = "sent" ~> (future[r] # Pending \/ ~alive)
=============================================================================
