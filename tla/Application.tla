----------------------------- MODULE Application -----------------------------
(***************************************************************************)
(* server::application and what it reads: the registries of tools, prompts  *)
(* and resources, filled while the server is configured and read without a  *)
(* lock by the one application worker, the session that initialize opens,   *)
(* and the policy's filter on every text a handler produces. tools/call     *)
(* refines the steps of ToolPolicy.                                         *)
(*                                                                          *)
(* A request is one step of the worker; Server has the threads around it. A *)
(* text is plain, or holds a control character that valid_text refuses.     *)
(***************************************************************************)
EXTENDS ToolPolicy, Sequences, SequencesExt

CONSTANT Names   \* Names[kind]: what may be registered of each kind

Kinds == {"tools", "prompts", "resources"}

VARIABLES lifecycle,   \* state_, until it is running
          session,     \* protocol_
          registered,  \* tools_, prompts_ and resources_
          filtering,   \* options_.filter_output is set
          advertised,  \* history: the capabilities initialize answered with
          produced,    \* history: the texts the current call's handler came up with
          reply        \* the reply to the last request

registry == <<lifecycle, session, registered, filtering, advertised>>
appVars == <<vars, registry, produced, reply>>

Reply(method, outcome, texts, names) ==
    [method |-> method, outcome |-> outcome, texts |-> texts, names |-> names]
Error(method, outcome) == Reply(method, outcome, <<>>, {})

AppInit == /\ Init
           /\ lifecycle = "configuring" /\ session = "await_initialize"
           /\ registered = [kind \in Kinds |-> {}]
           /\ filtering \in BOOLEAN
           /\ advertised = {}
           /\ produced = <<>>
           /\ reply = Error("none", "none")

-----------------------------------------------------------------------------
(* Registration and the session. *)

\* Variant: only a server that runs has its registries frozen.
RegisterLate(kind, name) ==
    /\ lifecycle # "running"
    /\ name \notin registered[kind]
    /\ registered' = [registered EXCEPT ![kind] = @ \cup {name}]
    /\ UNCHANGED <<vars, lifecycle, session, filtering, advertised, produced, reply>>

\* register_tool, register_prompt, register_resource of a valid descriptor. The
\* registries freeze as soon as start has begun.
Register(kind, name) ==
    /\ lifecycle = "configuring"
    /\ name \notin registered[kind]
    /\ registered' = [registered EXCEPT ![kind] = @ \cup {name}]
    /\ UNCHANGED <<vars, lifecycle, session, filtering, advertised, produced, reply>>

\* start marks the server starting, and running only after the transport has
\* begun to deliver.
Advance ==
    /\ lifecycle' = CASE lifecycle = "configuring" -> "starting"
                      [] lifecycle = "starting" -> "running"
                      [] OTHER -> lifecycle
    /\ lifecycle' # lifecycle
    /\ UNCHANGED <<vars, session, registered, filtering, advertised, produced, reply>>

Serving == lifecycle \in {"starting", "running"}

\* initialize answers a malformed or repeated request with an error and nothing else.
Initialize ==
    /\ Serving
    /\ produced' = <<>>
    /\ \/ /\ session = "await_initialize"
          /\ session' = "await_initialized"
          /\ advertised' = {kind \in Kinds : registered[kind] # {}}
          /\ reply' = Reply("initialize", "result", <<>>, advertised')
       \/ /\ reply' = Error("initialize", IF session = "await_initialize"
                                          THEN "invalid_params" ELSE "invalid_request")
          /\ UNCHANGED <<session, advertised>>
    /\ UNCHANGED <<vars, lifecycle, registered, filtering>>

\* notifications/initialized, ignored where it does not belong.
Initialized ==
    /\ Serving
    /\ session = "await_initialized"
    /\ session' = "ready"
    /\ UNCHANGED <<vars, lifecycle, registered, filtering, advertised, produced, reply>>

-----------------------------------------------------------------------------
(* The filter. *)

Texts == {"plain", "control"}
Rejected == "rejected"

\* What may come of a text: valid_text, then the hook, which may reject it, return
\* something invalid or throw.
Passed(text) == IF text = "control" THEN {Rejected}
                ELSE IF filtering THEN {"filtered", Rejected}
                ELSE {text}

\* Variant: the filter is asked for the messages and not for what comes after them.
PassedButLast(texts) ==
    {s \in [1 .. Len(texts) -> {"plain", "control", "filtered", Rejected}] :
        \A i \in 1 .. Len(texts) :
            s[i] \in IF i = Len(texts) /\ i > 1 THEN {texts[i]} ELSE Passed(texts[i])}

\* Every way a sequence of texts may pass.
PassedAll(texts) ==
    {s \in [1 .. Len(texts) -> {"plain", "control", "filtered", Rejected}] :
        \A i \in 1 .. Len(texts) : s[i] \in Passed(texts[i])}

-----------------------------------------------------------------------------
(* application, once the session is open. *)

Dispatches == session = "ready"

\* The list methods; resources/templates/list is always empty.
List ==
    /\ Dispatches
    /\ produced' = <<>>
    /\ \E kind \in Kinds \cup {"templates"} :
          reply' \in {Reply(kind, "listed", <<>>,
                            IF kind \in Kinds THEN registered[kind] ELSE {}),
                      Error(kind, "invalid_params")}
    /\ UNCHANGED <<vars, registry>>

\* Bad parameters or an unknown tool; the hook denies, or throws.
RefuseTool ==
    /\ Dispatches
    /\ Refuse
    /\ answer' # "invalid_params" => registered["tools"] # {}
    /\ produced' = <<>>
    /\ reply' = Error("tools/call", answer')
    /\ UNCHANGED registry

LimitTool(now) ==
    /\ Dispatches /\ registered["tools"] # {}
    /\ Limit(now)
    /\ produced' = <<>>
    /\ reply' = Error("tools/call", answer')
    /\ UNCHANGED registry

\* The text of the reply is the only one produced, passed by the filter; a text it
\* rejects gives tool_failure, and what throws an internal error.
ToolText(text, outcome) ==
    /\ produced' = <<text>>
    /\ \E passed \in Passed(text) :
          /\ answer' \in IF passed = Rejected THEN {"output_rejected", "internal_error"}
                         ELSE {outcome}
          /\ reply' = IF passed = Rejected THEN Error("tools/call", answer')
                      ELSE Reply("tools/call", outcome, <<passed>>, {})

\* The arguments do not match the schema, or the validator fails on them.
MismatchTool(now) ==
    /\ Dispatches /\ registered["tools"] # {}
    /\ Mismatch(now)
    /\ \/ ToolText("plain", "result_error")
       \/ /\ answer' = "internal_error" /\ produced' = <<>>
          /\ reply' = Error("tools/call", answer')
    /\ UNCHANGED registry

\* The handler returns a text, fails with a public message, or throws.
HandleTool(now) ==
    /\ Dispatches /\ registered["tools"] # {}
    /\ Handle(now)
    /\ \/ \E text \in Texts, outcome \in {"result", "result_error"} : ToolText(text, outcome)
       \/ /\ answer' = "internal_error" /\ produced' = <<>>
          /\ reply' = Error("tools/call", answer')
    /\ UNCHANGED registry

\* Bad parameters, an unknown prompt, an argument that is not declared, no string
\* or missing although required: the handler is not asked.
RefusePrompt ==
    /\ Dispatches
    /\ produced' = <<>>
    /\ reply' = Error("prompts/get", "invalid_params")
    /\ UNCHANGED <<vars, registry>>

\* The texts are the messages' and then the description, if there is one. At the
\* first of them that the filter rejects, and at a role that is none, the whole
\* prompt is an internal error.
GetPrompt(texts) ==
    /\ Dispatches /\ registered["prompts"] # {}
    /\ produced' = texts
    /\ \/ texts # <<>> /\ reply' = Error("prompts/get", "internal_error")
       \/ \E passed \in PassedAll(texts) :
             /\ Rejected \notin ToSet(passed)
             /\ reply' = Reply("prompts/get", "result", passed, {})
    /\ UNCHANGED <<vars, registry>>

\* The uri is invalid, or valid and unknown, or its handler is asked.
ReadResource(text) ==
    /\ Dispatches
    /\ \/ /\ produced' = <<>>
          /\ reply' \in {Error("resources/read", "invalid_params"),
                         Error("resources/read", "not_found")}
       \/ /\ registered["resources"] # {}
          /\ produced' = <<text>>
          /\ \E passed \in Passed(text) :
                reply' = IF passed = Rejected THEN Error("resources/read", "internal_error")
                         ELSE Reply("resources/read", "result", <<passed>>, {})
    /\ UNCHANGED <<vars, registry>>

\* A handler of a prompt or a resource fails or throws.
HandlerFails ==
    /\ Dispatches
    /\ produced' = <<>>
    /\ \/ registered["prompts"] # {} /\ reply' = Error("prompts/get", "internal_error")
       \/ registered["resources"] # {} /\ reply' = Error("resources/read", "internal_error")
    /\ UNCHANGED <<vars, registry>>

UnknownMethod ==
    /\ Dispatches
    /\ produced' = <<>>
    /\ reply' = Error("unknown", "method_not_found")
    /\ UNCHANGED <<vars, registry>>

\* The observer of ToolPolicy may begin to count at any time.
Observe == BeginWindow /\ UNCHANGED <<registry, produced, reply>>

AppNext ==
    \/ \E kind \in Kinds : \E name \in Names[kind] : Register(kind, name)
    \/ Advance
    \/ Initialize
    \/ Initialized
    \/ List
    \/ RefuseTool
    \/ \E now \in 0 .. Horizon : LimitTool(now) \/ MismatchTool(now) \/ HandleTool(now)
    \/ RefusePrompt
    \/ \E texts \in BoundedSeq(Texts, 2) : GetPrompt(texts)
    \/ \E text \in Texts : ReadResource(text)
    \/ HandlerFails
    \/ UnknownMethod
    \/ Observe

AppSpec == AppInit /\ [][AppNext]_appVars

-----------------------------------------------------------------------------
(* Properties *)

(* What leaves a handler leaves whole and through the filter: a reply carries every  *)
(* text of its call, each valid and the filter's own where there is one, or none.    *)
OutputVettedWhole ==
    /\ reply.texts # <<>> => Len(reply.texts) = Len(produced)
    /\ \A i \in 1 .. Len(reply.texts) :
          reply.texts[i] = IF filtering THEN "filtered" ELSE "plain"

(* What the host was told of the server stays true: a kind is advertised exactly if *)
(* something of it can be listed, and a list is complete whenever it is read,       *)
(* although registration runs on other threads and the worker takes no lock.        *)
ToldStaysTrue ==
    /\ session # "await_initialize" =>
           advertised = {kind \in Kinds : registered[kind] # {}}
    /\ reply.outcome = "listed" /\ reply.method \in Kinds =>
           reply.names = registered[reply.method]
=============================================================================
