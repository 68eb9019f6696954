--------------------------- MODULE MessageDecoder ---------------------------
(***************************************************************************)
(* decode_message and the to_json functions of the message types: JSON-RPC *)
(* between wire objects and messages.                                      *)
(*                                                                         *)
(* A wire value is a record of the members JSON-RPC names, Absent where the *)
(* object lacks one; method, params, result and data are opaque, told apart *)
(* by their JSON type only. An id on the wire is an id of RequestId or a    *)
(* value that cannot be one, an error [code, message, data] or malformed.   *)
(***************************************************************************)
EXTENDS RequestId

CONSTANTS Absent, Other,   \* no such member; a member of no use
          MaxCode          \* int holds the codes from -MaxCode - 1 to MaxCode

ASSUME MaxCodeAssumption == MaxCode \in Nat

-----------------------------------------------------------------------------
(* Numbers: what dump and parse do to them, and what get<int> does. *)

\* nlohmann parses an integer as unsigned unless it is negative.
Reparsed(number) ==
    IF IsInteger(number) /\ number.value >= 0 THEN Unsigned(number.value) ELSE number

\* get<int> of a wider integer keeps its low bits.
Narrow(n) == ((n + MaxCode + 1) % (2 * MaxCode + 2)) - (MaxCode + 1)

-----------------------------------------------------------------------------
(* Decoding. *)

IsRequestId(value) == value # Other /\ value.form \in {"string", "int64", "uint64"}

\* Variant: a non-negative code of any size is taken for one of ours.
IsWireErrorWide(err) ==
    /\ err # Other
    /\ err.message # Absent
    /\ err.code # Other
    /\ \/ err.code.form = "uint64"
       \/ err.code.form = "int64" /\ err.code.value \in -MaxCode - 1 .. MaxCode

\* The code is an integer in either representation that an int can hold.
IsWireError(err) ==
    /\ err # Other
    /\ err.message # Absent
    /\ err.code # Other
    /\ \/ err.code.form = "uint64" /\ err.code.value <= MaxCode
       \/ err.code.form = "int64" /\ err.code.value \in -MaxCode - 1 .. MaxCode

\* The diagnostic carries the id only where the object has a usable one.
Failure(wire) ==
    [kind |-> "failure",
     id |-> IF wire.object /\ wire.id # Absent /\ IsRequestId(wire.id)
            THEN wire.id ELSE Null]

ReadError(err) == [code |-> Narrow(err.code.value), message |-> err.message, data |-> err.data]

WellFormedCall(wire) ==
    /\ wire.method # Other
    /\ wire.result = Absent /\ wire.error = Absent
    /\ wire.params \in {Absent, "object", "array"}
    /\ wire.id # Absent => IsRequestId(wire.id)

\* Exactly one of result and error; only an error may answer the null id.
WellFormedResponse(wire) ==
    /\ wire.id # Absent
    /\ (wire.result = Absent) # (wire.error = Absent)
    /\ \/ IsRequestId(wire.id)
       \/ wire.error # Absent /\ wire.id = Null
    /\ wire.error # Absent => IsWireError(wire.error)

Decode(wire) ==
    IF ~wire.object \/ wire.jsonrpc # "2.0" THEN Failure(wire)
    ELSE IF wire.method # Absent THEN
        IF ~WellFormedCall(wire) THEN Failure(wire)
        ELSE IF wire.id = Absent
        THEN [kind |-> "notification", method |-> wire.method, params |-> wire.params]
        ELSE [kind |-> "request", id |-> wire.id, method |-> wire.method,
              params |-> wire.params]
    ELSE IF ~WellFormedResponse(wire) THEN Failure(wire)
    ELSE [kind |-> "response", id |-> wire.id, result |-> wire.result,
          error |-> IF wire.error = Absent THEN Absent ELSE ReadError(wire.error)]

-----------------------------------------------------------------------------
(* Encoding. *)

Blank == [object |-> TRUE, jsonrpc |-> "2.0", id |-> Absent, method |-> Absent,
          params |-> Absent, result |-> Absent, error |-> Absent]

EncodeRequest(message) ==
    [Blank EXCEPT !.id = message.id, !.method = message.method, !.params = message.params]

EncodeNotification(message) ==
    [Blank EXCEPT !.method = message.method, !.params = message.params]

\* A response with neither member says null: one of the two must be there.
EncodeResponse(message) ==
    IF message.error # Absent
    THEN [Blank EXCEPT !.id = message.id,
                       !.error = [message.error EXCEPT !.code = Signed(@)]]
    ELSE [Blank EXCEPT !.id = message.id,
                       !.result = IF message.result = Absent THEN "null"
                                  ELSE message.result]

Encode(message) ==
    CASE message.kind = "request"      -> EncodeRequest(message)
      [] message.kind = "notification" -> EncodeNotification(message)
      [] message.kind = "response"     -> EncodeResponse(message)

\* The text of a wire value, read back.
OverTheWire(wire) ==
    [object |-> wire.object, jsonrpc |-> wire.jsonrpc, method |-> wire.method,
     params |-> wire.params, result |-> wire.result,
     id |-> IF wire.id \in {Absent, Other} THEN wire.id ELSE Reparsed(wire.id),
     error |-> IF wire.error \in {Absent, Other} \/ wire.error.code = Other THEN wire.error
               ELSE [wire.error EXCEPT !.code = Reparsed(@)]]

-----------------------------------------------------------------------------
(* What the server does with a value it cannot decode. *)

\* receive suppresses the diagnostic for a method without an id.
Suppresses(wire) == wire.object /\ wire.method # Absent /\ wire.id = Absent

\* The id receive answers an undecodable value with, in a set; empty: no answer.
Answers(wire) ==
    IF Decode(wire).kind # "failure" \/ Suppresses(wire) THEN {}
    ELSE {Decode(wire).id}

-----------------------------------------------------------------------------
(* Promises. *)

\* Two ids the peers hold for the same one.
SameId(a, b) == a = b \/ SameRequestId(a, b)

SameMessage(a, b) ==
    /\ a.kind = b.kind
    /\ a.kind # "notification" => SameId(a.id, b.id)
    /\ a.kind # "response" => a.method = b.method /\ a.params = b.params
    /\ a.kind = "response" => a.result = b.result /\ a.error = b.error

\* A message that was decoded survives being sent on and decoded again, down to
\* the value of its error code, and its text says what the first text said; params
\* mean nothing in a response.
Faithful(wire, message) ==
    LET read == OverTheWire(wire)
        again == OverTheWire(Encode(message))
    IN  message.kind # "failure" =>
            /\ SameMessage(Decode(again), message)
            /\ \A member \in DOMAIN read :
                  again[member] = IF message.kind = "response" /\ member = "params"
                                  THEN Absent ELSE read[member]

\* JSON-RPC: no answer to a notification, malformed or not; whatever else cannot
\* be decoded is answered, with the id it came with or else with null.
AnswersWhatAsks(wire, answers) ==
    IF wire.object /\ wire.method # Absent /\ wire.id = Absent THEN answers = {}
    ELSE answers = {IF wire.object /\ wire.id \notin {Absent, Other} THEN wire.id ELSE Null}
=============================================================================
