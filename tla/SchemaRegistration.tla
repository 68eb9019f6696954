------------------------- MODULE SchemaRegistration -------------------------
(***************************************************************************)
(* registration of schema_validator: what compile_schema inspects before it *)
(* hands a schema to the evaluator, and what it refuses. Offline: a         *)
(* reference resolves to a resource met before or to a catalog document.    *)
(*                                                                          *)
(* Its methods call each other. A step is one call up to the next it makes; *)
(* agenda is what the calls in progress have left to do, next task first.   *)
(***************************************************************************)
EXTENDS Naturals, Sequences, SequencesExt

CONSTANTS Worlds,     \* what a program may compile, each with its catalog
          Objects,    \* the JSON objects in it
          Keys,       \* URIs without a fragment
          Fragments,  \* anchors, and pointers to objects, which stand for what they lead to
          None,
          Draft,      \* the 2020-12 metaschema
          Builtins,   \* the metaschema and its components, which are built in
          Default,    \* the base URI of a root without $id
          Whole       \* the empty fragment

References == [key : Keys, fragment : Fragments \cup {Whole}]

\* An object: its $id and $schema, its anchors and references, the schemas under its
\* applicator keywords, all objects in it; whether the metaschema lets it pass, and
\* whether the vocabularies it requires are supported.
Schemas == [id : Keys \cup {None}, dialect : Keys \cup {None},
            anchors : SUBSET (Fragments \ Objects), refs : Seq(References),
            children : Seq(Objects), parts : SUBSET Objects,
            valid : BOOLEAN, supported : BOOLEAN]

\* Objects contain objects as JSON does, and the documents are apart.
WellFormed(w) ==
    /\ w.node \in [Objects -> Schemas]
    /\ w.root \in Objects
    /\ DOMAIN w.catalog \subseteq Keys
    /\ \A key \in DOMAIN w.catalog : w.catalog[key] \in Objects
    /\ \A n \in Objects : n \in w.node[n].parts
    /\ \A n \in Objects : \A m \in w.node[n].parts : w.node[m].parts \subseteq w.node[n].parts
    /\ \A n \in Objects : ToSet(w.node[n].children) \subseteq w.node[n].parts
    /\ \A k, l \in DOMAIN w.catalog :
          k # l => w.node[w.catalog[k]].parts \cap w.node[w.catalog[l]].parts = {}
    /\ \A k \in DOMAIN w.catalog : w.node[w.root].parts \cap w.node[w.catalog[k]].parts = {}

\* The metaschema looks into every keyword that inspect looks into.
PassesWhole(w) ==
    \A n \in Objects : w.node[n].valid => \A c \in ToSet(w.node[n].children) : w.node[c].valid

ASSUME WorldsAssumption == \A w \in Worlds : WellFormed(w) /\ PassesWhole(w)

\* The default base is jsoncons's own and names no document of a catalog.
ASSUME NamesAssumption ==
    /\ Draft \in Builtins /\ Builtins \subseteq Keys /\ Default \in Keys
    /\ None \notin Keys /\ Objects \subseteq Fragments /\ Whole \notin Fragments
    /\ \A w \in Worlds : Default \notin DOMAIN w.catalog

VARIABLES world,
          resources,   \* resources_: key -> the object it names and its base URI
          anchors,     \* anchors_
          inspected,   \* inspected_
          checked,     \* checked_dialects_
          active,      \* active_dialects_
          references,  \* references_
          index,       \* the loop's index into them
          agenda,
          verdict      \* "running", "accepted" or "refused"

members == <<resources, anchors, inspected, checked, active, references, index>>
registrationVars == <<world, members, agenda, verdict>>

-----------------------------------------------------------------------------
(* Tasks: a method to enter, or to continue after a call has returned. *)

Task(do, key, what) == [do |-> do, key |-> key, what |-> what]
ToInspect(n, base) == Task("inspect", base, n)
ToNote(n, base) == Task("note", base, n)     \* inspect, after $schema
ToCheck(key) == Task("check", key, None)
ToSpeak(key) == Task("speak", key, None)     \* check_dialect, after load_resource
ToPass(key) == Task("pass", key, None)       \* check_dialect, after the dialect's dialect
ToPoint(key, fragment) == Task("point", key, fragment)  \* inspect_reference, after load_resource

RegistrationInit ==
    /\ world \in Worlds
    /\ resources = [key \in {Default} |-> [value |-> world.root, base |-> Default]]
    /\ anchors = {} /\ inspected = {} /\ checked = {} /\ active = {}
    /\ references = <<>> /\ index = 1
    /\ agenda = <<ToInspect(world.root, Default)>>
    /\ verdict = IF world.node[world.root].valid THEN "running" ELSE "refused"

Doing(do) == verdict = "running" /\ agenda # <<>> /\ Head(agenda).do = do
Rest == SubSeq(agenda, 2, Len(agenda))
Continue(tasks) == agenda' = tasks \o Rest /\ UNCHANGED <<world, verdict>>

\* policy_error, or an exception of the JSON library: no call goes on.
Throw == verdict' = "refused" /\ UNCHANGED <<world, members, agenda>>

-----------------------------------------------------------------------------

Named(key, n) ==
    [k \in DOMAIN resources \cup {key} |->
        IF k \in DOMAIN resources THEN resources[k] ELSE [value |-> n, base |-> key]]

\* $id opens a resource; retrieval aliases of the object share its new base.
Identified(n, id) ==
    [k \in DOMAIN resources \cup {id} |->
        IF k \notin DOMAIN resources \/ resources[k].value = n THEN [value |-> n, base |-> id]
        ELSE resources[k]]

\* inspect, once the base is known: $schema, anchors and references, keywords.
Walk(n, base) ==
    LET schema == world.node[n]
    IN  (IF schema.dialect = None THEN <<>> ELSE <<ToCheck(schema.dialect)>>)
        \o <<ToNote(n, base)>>
        \o [i \in 1 .. Len(schema.children) |-> ToInspect(schema.children[i], base)]

Inspect ==
    LET n == Head(agenda).what
        id == world.node[n].id
        taken == id # None /\ id \in DOMAIN resources /\ resources[id].value # n
    IN  /\ Doing("inspect")
        /\ \/ /\ n \in inspected
              /\ Continue(<<>>)
              /\ UNCHANGED members
           \/ /\ n \notin inspected /\ taken
              /\ Throw
           \/ /\ n \notin inspected /\ ~taken
              /\ inspected' = inspected \cup {n}
              /\ resources' = IF id = None THEN resources ELSE Identified(n, id)
              /\ Continue(Walk(n, IF id = None THEN Head(agenda).key ELSE id))
              /\ UNCHANGED <<anchors, checked, active, references, index>>

Note ==
    LET schema == world.node[Head(agenda).what] IN
    /\ Doing("note")
    /\ \/ /\ ~schema.supported
          /\ Throw
       \/ /\ schema.supported
          /\ anchors' = anchors \cup {<<Head(agenda).key, a>> : a \in schema.anchors}
          /\ references' = references \o schema.refs
          /\ Continue(<<>>)
          /\ UNCHANGED <<resources, inspected, checked, active, index>>

-----------------------------------------------------------------------------

\* Variant: the document is registered but not looked into.
LoadUnread(key, then) ==
    /\ key \in DOMAIN resources \cup DOMAIN world.catalog
    /\ resources' = IF key \in DOMAIN resources THEN resources ELSE Named(key, world.catalog[key])
    /\ Continue(then)

\* load_resource, and then what its caller does with the resource.
Load(key, then) ==
    LET document == world.catalog[key] IN
    \/ key \in DOMAIN resources /\ Continue(then) /\ UNCHANGED resources
    \/ /\ key \in DOMAIN world.catalog \ DOMAIN resources
       /\ world.node[document].valid
       /\ resources' = Named(key, document)
       /\ Continue(<<ToInspect(document, key)>> \o then)

Missing(key) ==
    /\ key \notin DOMAIN resources
    /\ key \in DOMAIN world.catalog => ~world.node[world.catalog[key]].valid

CheckDialect ==
    LET key == Head(agenda).key IN
    /\ Doing("check")
    /\ \/ /\ key \in checked \cup {Draft}
          /\ Continue(<<>>)
          /\ UNCHANGED members
       \/ /\ key \notin checked \cup {Draft}
          /\ key \in active \/ Missing(key)
          /\ Throw
       \/ /\ key \notin checked \cup {Draft} \cup active
          /\ active' = active \cup {key}
          /\ Load(key, <<ToSpeak(key)>>)
          /\ UNCHANGED <<anchors, inspected, checked, references, index>>

Speak ==
    LET key == Head(agenda).key
        dialect == world.node[resources[key].value].dialect
    IN  /\ Doing("speak")
        /\ \/ dialect = None /\ Throw
           \/ /\ dialect # None
              /\ Continue(<<ToCheck(dialect), ToPass(key)>>)
              /\ UNCHANGED members

Pass ==
    LET key == Head(agenda).key IN
    /\ Doing("pass")
    /\ active' = active \ {key}
    /\ checked' = checked \cup {key}
    /\ Continue(<<>>)
    /\ UNCHANGED <<resources, anchors, inspected, references, index>>

-----------------------------------------------------------------------------

\* inspect_reference leaves what is built in alone.
Skip ==
    /\ index' = index + 1
    /\ UNCHANGED <<world, resources, anchors, inspected, checked, active, references, agenda, verdict>>

\* The loop over references_, which inspecting extends, up to load_resource.
Follow ==
    LET ref == references[index]
        then == IF ref.fragment = Whole THEN <<>> ELSE <<ToPoint(ref.key, ref.fragment)>>
    IN  /\ verdict = "running" /\ agenda = <<>> /\ index <= Len(references)
        /\ \/ /\ ref.key \notin Builtins /\ Missing(ref.key)
              /\ Throw
           \/ ref.key \in Builtins /\ Skip
           \/ /\ ref.key \notin Builtins
              /\ index' = index + 1
              /\ Load(ref.key, then)
              /\ UNCHANGED <<anchors, inspected, checked, active, references>>

\* A pointer may lead to an object that no applicator keyword leads to.
Point ==
    LET fragment == Head(agenda).what
        resource == resources[Head(agenda).key]
        found == IF fragment \in Objects
                 THEN fragment \in world.node[resource.value].parts
                      /\ (fragment \in inspected \/ world.node[fragment].valid)
                 ELSE <<resource.base, fragment>> \in anchors
    IN  /\ Doing("point")
        /\ \/ ~found /\ Throw
           \/ /\ found
              /\ Continue(IF fragment \in Objects \ inspected
                          THEN <<ToInspect(fragment, resource.base)>> ELSE <<>>)
              /\ UNCHANGED members

Finish ==
    /\ verdict = "running" /\ agenda = <<>> /\ index > Len(references)
    /\ verdict' = "accepted"
    /\ UNCHANGED <<world, members, agenda>>

RegistrationNext == Inspect \/ Note \/ CheckDialect \/ Speak \/ Pass \/ Follow \/ Point \/ Finish

RegistrationSpec == RegistrationInit /\ [][RegistrationNext]_registrationVars

-----------------------------------------------------------------------------
(* What it should accept, as a condition on the graph of the world. *)

\* What a URI may mean: the root, a document, or an object that calls itself so.
NamesOf(w) == {Default} \cup DOMAIN w.catalog \cup ({w.node[n].id : n \in Objects} \ {None})

Means(w, key, n) ==
    \/ key = Default /\ n = w.root
    \/ key \in DOMAIN w.catalog /\ n = w.catalog[key]
    \/ w.node[n].id = key

Namings(w) == {naming \in [NamesOf(w) -> Objects] : \A key \in NamesOf(w) : Means(w, key, naming[key])}

\* The dialect of a dialect's metaschema, and so on, is the draft: every set of dialects
\* that goes on like this has the draft in it.
Onward(w, naming, set) == \A d \in (set \cap DOMAIN naming) \ {Draft} : w.node[naming[d]].dialect \in set
Grounded(w, naming, dialect) ==
    \A set \in SUBSET (Keys \cup {None}) :
        dialect \in set /\ Onward(w, naming, set) => Draft \in set

\* What is written in an object.
Anchored(w, n, anchor) == \E a \in w.node[n].parts : anchor \in w.node[a].anchors
Resolves(w, naming, ref) ==
    \/ ref.key \in Builtins
    \/ /\ ref.key \in DOMAIN naming
       /\ \/ ref.fragment = Whole
          \/ ref.fragment \in w.node[naming[ref.key]].parts
          \/ ref.fragment \notin Objects /\ Anchored(w, naming[ref.key], ref.fragment)

\* A schema leads to what it contains, to what it refers to and to its dialect.
Leads(w, naming, n) ==
    LET outside == {ref \in ToSet(w.node[n].refs) : ref.key \notin Builtins}
        keys == ({w.node[n].dialect} \ {Draft}) \cup {ref.key : ref \in outside}
    IN  ToSet(w.node[n].children)
        \cup {naming[key] : key \in keys \cap DOMAIN naming}
        \cup ({ref.fragment : ref \in outside} \cap Objects)

Sound(w, naming, n) ==
    LET schema == w.node[n] IN
    /\ schema.valid /\ schema.supported
    /\ schema.dialect # None => Grounded(w, naming, schema.dialect)
    /\ \A ref \in ToSet(schema.refs) : Resolves(w, naming, ref)

\* All the root leads to is sound.
Closes(w, naming, nodes) ==
    /\ w.root \in nodes
    /\ \A n \in nodes : Leads(w, naming, n) \subseteq nodes /\ Sound(w, naming, n)
Closed(w) == \E naming \in Namings(w), nodes \in SUBSET Objects : Closes(w, naming, nodes)

\* No schema names itself, only documents and what pointers lead to choose a dialect,
\* and anchors are where applicator keywords lead to.
Reached(w, n, m) ==
    \A nodes \in SUBSET Objects :
        n \in nodes /\ (\A a \in nodes : ToSet(w.node[a].children) \subseteq nodes) => m \in nodes
Plain(w) ==
    /\ \A n \in Objects : w.node[n].id = None
    /\ \A n \in Objects : \A c \in ToSet(w.node[n].children) : w.node[c].dialect = None
    /\ \A n \in Objects : \A m \in w.node[n].parts : w.node[m].anchors # {} => Reached(w, n, m)

-----------------------------------------------------------------------------

(* docs/decisions/0003-schema-validation.md: compile_schema accepts a schema only if *)
(* all it leads to is there, valid and of a dialect that ends in the draft, however   *)
(* the documents refer to each other; and it refuses no such schema that is plain.    *)
CompilesOnlyClosed ==
    /\ verdict = "accepted" => Closed(world)
    /\ verdict = "refused" /\ Plain(world) => ~Closed(world)

(* schema_validator.hpp:125: "Retrieval aliases share the canonical resource's anchor *)
(* namespace": whatever URIs an object has been met under, its base is one, and is    *)
(* the object's own.                                                                    *)
AliasesShareNamespace ==
    \A k, l \in DOMAIN resources :
        resources[k].value = resources[l].value =>
            /\ resources[k].base = resources[l].base
            /\ resources[k].base \in DOMAIN resources
            /\ resources[resources[k].base].value = resources[k].value
=============================================================================
