--------------------------- MODULE MessageExchange ---------------------------
(* A peer writes a value of any shape, the text is parsed, and receive decodes *)
(* it and answers what it cannot decode.                                        *)
EXTENDS MessageDecoder

CONSTANTS Ids,     \* what the peer uses for ids,
          Codes,   \* for error codes,
          Opaque   \* and for the contents that no one looks into

AnyId == [form : {"null", "int64", "uint64", "string"}, value : Int]
Part(values) == values \cup {Absent}
AnyError == [code : AnyId \cup Int \cup {Other}, message : Part(Opaque), data : Part(Opaque)]

ASSUME IdsAssumption ==
    /\ Ids \subseteq AnyId
    /\ \A id \in Ids : /\ id.form = "uint64" => id.value >= 0
                       /\ id.form = "null" => id = Null
ASSUME CodesAssumption ==
    /\ Codes \subseteq AnyId
    /\ \A code \in Codes : IsInteger(code) /\ (code.form = "uint64" => code.value >= 0)
\* What a member lacks, or holds in vain, is none of the values it might hold.
ASSUME AbsentAssumption ==
    /\ Absent # Other
    /\ \A none \in {Absent, Other} : none \notin AnyId /\ none \notin AnyError
    /\ {Absent, Other} \cap (Opaque \cup {"2.0", "object", "array", "null"}) = {}

Errors == [code : Codes \cup {Other}, message : Part(Opaque), data : Part(Opaque)]

Wires == [object : {TRUE}, jsonrpc : Part({"2.0", Other}), id : Part(Ids \cup {Other}),
          method : Part(Opaque \cup {Other}), params : Part({"object", "array", Other}),
          result : Part(Opaque \cup {"null"}), error : Part(Errors \cup {Other})]

NoObject == [object |-> FALSE, jsonrpc |-> Absent, id |-> Absent, method |-> Absent,
             params |-> Absent, result |-> Absent, error |-> Absent]

VARIABLES written,      \* what the peer wrote
          received   \* once it has come: the message or failure, and the answers

ExchangeInit == written \in Wires \cup {NoObject} /\ received = {}

ReceiveText ==
    /\ received = {}
    /\ received' = {[message |-> Decode(OverTheWire(written)),
                     answers |-> Answers(OverTheWire(written))]}
    /\ UNCHANGED written

ExchangeSpec == ExchangeInit /\ [][ReceiveText]_<<written, received>>

(* A message that decode_message accepts is written by to_json as the text it was *)
(* read from, and read back as the same message, error code included. What it      *)
(* refuses is answered exactly where a peer may wait for an answer, with the peer's *)
(* id or null, never with an id of its making (message_decoder.hpp:31).             *)
ReceivesWhatWasSent ==
    \A got \in received :
        IF got.message.kind = "failure"
        THEN AnswersWhatAsks(OverTheWire(written), got.answers)
        ELSE Faithful(written, got.message) /\ got.answers = {}
=============================================================================
