---------------------------- MODULE MCConversions ----------------------------
(* Bounded inputs for the algorithms: an input is chosen, then the code is called *)
(* once. Only the registration of a schema has steps of its own.                  *)
EXTENDS MessageExchange, SchemaRegistration, UriCheck, FrameExchange

VARIABLES subject,  \* which algorithm
          returned

convVars == <<subject, returned, written, received, frameVars, uriVars, registrationVars>>

-----------------------------------------------------------------------------
(* Worlds of schemas: a root r, documents m and k of a catalog, an object c  *)
(* under a keyword of m, and p in m that only a pointer leads to.            *)

MCObjects == {"r", "m", "k", "c", "p"}
MCBuiltins == {Draft}
MCKeys == {"M", "K", "E", Draft, Default}
MCFragments == MCObjects \cup {"a"}

Ref(key, fragment) == [key |-> key, fragment |-> fragment]

Schema(id, dialect, names, refs, children, parts) ==
    [id |-> id, dialect |-> dialect, anchors |-> names, refs |-> refs, children |-> children,
     parts |-> parts, valid |-> TRUE, supported |-> TRUE]
Invalid(schema) == [schema EXCEPT !.valid = FALSE]
Unsupported(schema) == [schema EXCEPT !.supported = FALSE]
Bare(parts) == Schema(None, None, {}, <<>>, <<>>, parts)

Roots == {Schema(None, dialect, {}, refs, <<>>, {"r"}) :
             dialect \in {Draft, "M"},
             refs \in {<<Ref(Draft, Whole)>>, <<Ref("M", "a"), Ref("K", "a")>>,
                       <<Ref("E", Whole)>>, <<Ref("M", "p"), Ref("K", Whole)>>}}
FirstDocuments ==
    UNION {{Schema(id, dialect, {}, refs, children, {"m", "p"} \cup ToSet(children)) :
               id \in {None, "E"}, dialect \in {None, Draft, "K", "M"},
               refs \in {<<>>, <<Ref("K", Whole)>>}} : children \in {<<>>, <<"c">>}}
    \cup {Invalid(Bare({"m", "p"}))}
SecondDocuments == {Schema(None, dialect, {"a"}, refs, <<>>, {"k"}) :
                       dialect \in {None, Draft, "M"},
                       refs \in {<<>>, <<Ref("M", "a")>>, <<Ref("E", Whole)>>}}
Embedded == {Schema(id, dialect, {"a"}, refs, <<>>, {"c"}) :
                id \in {None, "E", "K"}, dialect \in {None, "M"},
                refs \in {<<>>, <<Ref("K", Whole)>>}}
            \cup {Unsupported(Bare({"c"}))}
Pointed == {Schema(None, None, {}, refs, <<>>, {"p"}) : refs \in {<<>>, <<Ref("K", "a")>>}}
           \cup {Invalid(Bare({"p"}))}

\* What nothing leads to is left at one value.
Plausible(w) ==
    /\ w.node.m.children = <<>> => w.node.c = Bare({"c"})
    /\ (\A ref \in ToSet(w.node.r.refs) : ref.fragment # "p") => w.node.p = Bare({"p"})
    /\ "K" \notin DOMAIN w.catalog => w.node.k = Bare({"k"})

MCWorlds == {w \in [node : [r : Roots, m : FirstDocuments, c : Embedded \cup {Bare({"c"})},
                            p : Pointed \cup {Bare({"p"})}, k : SecondDocuments \cup {Bare({"k"})}],
                    root : {"r"}, catalog : {"M" :> "m", "M" :> "m" @@ "K" :> "k"}] : Plausible(w)}

-----------------------------------------------------------------------------
(* Wire values. *)

Numbers == {Signed(-1), Signed(1), Unsigned(1)}
MCIds == {Null, Text(1)} \cup Numbers
MCCodes == {Signed(n) : n \in -5 .. 5} \cup {Unsigned(n) : n \in 0 .. 9}
MCOpaque == {"any"}

-----------------------------------------------------------------------------
(* Texts: short ones of every character, longer authorities, longer addresses. *)

Prefix == <<"x", ":", "/", "/">>
Short == {"x", "f", "1", "~", "!", " ", ":", "/", "?", "#", "[", "@", "%", "."}
InAuthority == {"x", "1", ":", "/", "@", "%", "?", "["}
InAddress == {"v", "x", "1", ":", ".", "4", "%", "]"}
MCUris == BoundedSeq(Short, 5)
          \cup {Prefix \o t : t \in BoundedSeq(InAuthority, 5)}
          \cup {Prefix \o <<"[">> \o t \o <<"]">> : t \in BoundedSeq(InAddress, 6)}
          \cup {Prefix \o <<"[", "1", ":", ":", "]">> \o t : t \in BoundedSeq(InAuthority, 2)}

\* Inputs of a few short lines.
MCInputs == BoundedSeq({"1", "[", "]", ",", "\"", "\\", "n"}, 7)

\* Replies of up to four pieces, and an error in their place, against small limits;
\* what is queued already are frames of at least a byte and their newlines.
MCReplies ==
    {reply \in [opt : [frame : 1 .. 4, outbound : 1 .. 5], queued : {0, 2, 3, 4, 5},
                pieces : BoundedSeq(0 .. 3, 4) \ {<<>>},
                substitute : {<<0>>, <<2>>, <<2, 0, 1>>}] :
        reply.queued <= reply.opt.outbound}

-----------------------------------------------------------------------------

NoExchange == written = NoObject /\ received = {}
NoFrame == side = "in" /\ given = <<>> /\ outcome = {}
NoUri == uri = <<>> /\ verdicts = {}
NoSchema == /\ world = None /\ resources = <<>> /\ anchors = {} /\ inspected = {}
            /\ checked = {} /\ active = {} /\ references = <<>> /\ index = 1
            /\ agenda = <<>> /\ verdict = None

ConvInit ==
    /\ returned = FALSE
    /\ \/ subject = "message" /\ ExchangeInit /\ NoFrame /\ NoUri /\ NoSchema
       \/ subject = "frame" /\ NoExchange /\ FrameInit /\ NoUri /\ NoSchema
       \/ subject = "uri" /\ NoExchange /\ NoFrame /\ UriInit /\ NoSchema
       \/ subject = "schema" /\ NoExchange /\ NoFrame /\ NoUri /\ RegistrationInit

CheckUri == subject = "uri" /\ Validate
Receive == subject = "message" /\ ReceiveText
PassFrame == subject = "frame" /\ FrameNext

CallOnce == /\ ~returned
            /\ returned' = TRUE
            /\ \/ CheckUri /\ UNCHANGED <<written, received, frameVars>>
               \/ Receive /\ UNCHANGED <<frameVars, uriVars>>
               \/ PassFrame /\ UNCHANGED <<written, received, uriVars>>
            /\ UNCHANGED <<subject, registrationVars>>

RegisterSchema == /\ subject = "schema"
                  /\ RegistrationNext
                  /\ UNCHANGED <<subject, returned, written, received, frameVars, uriVars>>

ConvNext == CallOnce \/ RegisterSchema

ConvSpec == ConvInit /\ [][ConvNext]_convVars
=============================================================================
