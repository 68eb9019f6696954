---------------------------- MODULE InputProofs ----------------------------
(* Proofs about what the library makes of its inputs: the client of the answers it gets, *)
(* decode_message of a text, compile_schema of a schema and the catalog it refers to.    *)
EXTENDS Client, MessageExchange, SchemaRegistration, FiniteSetTheorems, SequenceTheorems, TLAPS

-----------------------------------------------------------------------------
(* The client: its inductive invariant, for any number of concurrent callers and of *)
(* the peer's own requests, over text and over values.                                *)

Phases == {"idle", "numbered", "registered", "sent", "lost"}
Answered == [kind : Kinds, of : Requests]

\* Members and locals.
TypeShape ==
    /\ phase \in [Requests -> Phases]
    /\ number \in [Requests -> Nat]
    /\ future \in [Requests -> {Pending, Broken} \cup Answered]
    /\ handled \subseteq Requests

\* next_id_ has given every request that has begun a number of its own.
NumberShape ==
    /\ nextId \in Nat \ {0}
    /\ \A r \in Requests : number[r] < nextId /\ (phase[r] = "idle" <=> number[r] = 0)
    /\ \A r, s \in Requests : number[r] = number[s] /\ number[r] # 0 => r = s

\* A promise is in the map under the number of the request that registered it.
PromiseShape ==
    \A id \in DOMAIN promises :
        /\ promises[id] \in Requests
        /\ number[promises[id]] = id
        /\ phase[promises[id]] \notin {"idle", "numbered"}

\* A message about a request carries the request's number, in one form or another.
Carries(m) == /\ m.of \in Requests
              /\ number[m.of] # 0
              /\ m.id.value = number[m.of]

WireShape ==
    /\ \A m \in outbox : m.type = "request" => Carries(m)
    /\ \A m \in inbox : m.type = "response" => Carries(m) /\ m.kind \in Kinds
    /\ \A m \in inbox : m.type = "request" <=> m.of \in Calls

\* The promise that the reader holds belongs to the request that the answer is for.
AnswerShape ==
    prom # NoPromise => prom.for = prom.of /\ prom.for \in Requests /\ prom.kind \in Kinds

IInv == /\ TypeShape /\ NumberShape /\ PromiseShape /\ WireShape /\ AnswerShape
        /\ OwnAnswer
-----------------------------------------------------------------------------
(* Each conjunct is preserved. *)

\* The wire changes the form of an identifier and not its value.
LEMMA CarriedValue == ASSUME NEW id PROVE Carried(id).value = id.value
  BY DEF Carried, Unsigned

\* Types are kept.
LEMMA TypeStep ==
    ASSUME IInv, [Next]_vars
    PROVE  TypeShape'
  <1> USE DEF IInv, TypeShape, AnswerShape, Phases, Answered, Pending, Broken, sending, serving
  <1>1. CASE UNCHANGED vars
    BY <1>1 DEF vars
  <1>2. ASSUME NEW r \in Requests, TakeId(r) PROVE TypeShape'
    BY <1>2 DEF TakeId, NumberShape
  <1>3. ASSUME NEW r \in Requests, Register(r) PROVE TypeShape'
    BY <1>3 DEF Register
  <1>4. ASSUME NEW r \in Requests, Transmit(r) \/ TransmitFails(r) PROVE TypeShape'
    BY <1>4 DEF Transmit, TransmitFails, Request, Signed
  <1>5. ASSUME NEW m \in inbox, LookUp(m) PROVE TypeShape'
    BY <1>5 DEF LookUp, Known
  <1>6. ASSUME NEW m \in inbox, Ignore(m) \/ Serve(m) PROVE TypeShape'
    BY <1>6 DEF WireShape, Carries, Ignore, Serve, Spawn, MethodNotFound, Response
  <1>7. ASSUME SetValue PROVE TypeShape'
    BY <1>7 DEF SetValue
  <1>8. ASSUME NEW k \in Calls, HandlerReturns(k) \/ HandlerThrows(k) \/ PeerCalls(k) PROVE TypeShape'
    BY <1>8 DEF HandlerReturns, HandlerThrows, PeerCalls, Request, Response
  <1>9. ASSUME NEW r \in Requests, PeerAnswers(r) PROVE TypeShape'
    BY <1>9 DEF PeerAnswers, Response, Request
  <1>10. ASSUME SetRequestHandler PROVE TypeShape'
    BY <1>10 DEF SetRequestHandler
  <1> HIDE DEF IInv, TypeShape, AnswerShape, Phases, Answered, Pending, Broken
  <1> QED
    BY <1>1, <1>2, <1>3, <1>4, <1>5, <1>6, <1>7, <1>8, <1>9, <1>10
    DEF Next, SendRequest, HandleMessage

\* A number is given once.
LEMMA NumberStep ==
    ASSUME IInv, [Next]_vars
    PROVE  NumberShape'
  <1> USE DEF IInv, TypeShape, Phases, NumberShape, sending, serving
  <1>1. CASE UNCHANGED vars
    BY <1>1 DEF vars
  <1>2. ASSUME NEW r \in Requests, TakeId(r) PROVE NumberShape'
    BY <1>2 DEF TakeId
  <1>3. ASSUME NEW r \in Requests, Register(r) PROVE NumberShape'
    BY <1>3 DEF Register
  <1>4. ASSUME NEW r \in Requests, Transmit(r) \/ TransmitFails(r) PROVE NumberShape'
    BY <1>4 DEF Transmit, TransmitFails, Request, Signed
  <1>5. ASSUME NEW m \in inbox, LookUp(m) PROVE NumberShape'
    BY <1>5 DEF LookUp, Known
  <1>6. ASSUME NEW m \in inbox, Ignore(m) \/ Serve(m) PROVE NumberShape'
    BY <1>6 DEF Ignore, Serve, Spawn, MethodNotFound, Response
  <1>7. ASSUME SetValue PROVE NumberShape'
    BY <1>7 DEF SetValue
  <1>8. ASSUME NEW k \in Calls, HandlerReturns(k) \/ HandlerThrows(k) \/ PeerCalls(k) PROVE NumberShape'
    BY <1>8 DEF HandlerReturns, HandlerThrows, PeerCalls, Request, Response
  <1>9. ASSUME NEW r \in Requests, PeerAnswers(r) PROVE NumberShape'
    BY <1>9 DEF PeerAnswers, Response, Request
  <1>10. ASSUME SetRequestHandler PROVE NumberShape'
    BY <1>10 DEF SetRequestHandler
  <1> HIDE DEF IInv, TypeShape, Phases, NumberShape
  <1> QED
    BY <1>1, <1>2, <1>3, <1>4, <1>5, <1>6, <1>7, <1>8, <1>9, <1>10
    DEF Next, SendRequest, HandleMessage

\* Register finds no promise under its number, and the reader takes one out at a time.
LEMMA PromiseStep ==
    ASSUME IInv, [Next]_vars
    PROVE  PromiseShape'
  <1> USE DEF IInv, TypeShape, Phases, NumberShape, PromiseShape, sending, serving
  <1>1. CASE UNCHANGED vars
    BY <1>1 DEF vars
  <1>2. ASSUME NEW r \in Requests, TakeId(r) PROVE PromiseShape'
    BY <1>2 DEF TakeId
  <1>3. ASSUME NEW r \in Requests, Register(r) PROVE PromiseShape'
    BY <1>3 DEF Register
  <1>4. ASSUME NEW r \in Requests, Transmit(r) \/ TransmitFails(r) PROVE PromiseShape'
    BY <1>4 DEF Transmit, TransmitFails, Request, Signed
  <1>5. ASSUME NEW m \in inbox, LookUp(m) PROVE PromiseShape'
    BY <1>5 DEF LookUp, Known
  <1>6. ASSUME NEW m \in inbox, Ignore(m) \/ Serve(m) PROVE PromiseShape'
    BY <1>6 DEF Ignore, Serve, Spawn, MethodNotFound, Response
  <1>7. ASSUME SetValue PROVE PromiseShape'
    BY <1>7 DEF SetValue
  <1>8. ASSUME NEW k \in Calls, HandlerReturns(k) \/ HandlerThrows(k) \/ PeerCalls(k) PROVE PromiseShape'
    BY <1>8 DEF HandlerReturns, HandlerThrows, PeerCalls, Request, Response
  <1>9. ASSUME NEW r \in Requests, PeerAnswers(r) PROVE PromiseShape'
    BY <1>9 DEF PeerAnswers, Response, Request
  <1>10. ASSUME SetRequestHandler PROVE PromiseShape'
    BY <1>10 DEF SetRequestHandler
  <1> HIDE DEF IInv, TypeShape, Phases, NumberShape, PromiseShape
  <1> QED
    BY <1>1, <1>2, <1>3, <1>4, <1>5, <1>6, <1>7, <1>8, <1>9, <1>10
    DEF Next, SendRequest, HandleMessage

\* Responses go back under the number they came with, twice or out of order.
LEMMA WireStep ==
    ASSUME IInv, [Next]_vars
    PROVE  WireShape'
  <1> USE DEF IInv, TypeShape, Phases, NumberShape, WireShape, Carries, sending, serving
  <1>1. CASE UNCHANGED vars
    BY <1>1, CarriedValue, RequestsAssumption DEF vars
  <1>2. ASSUME NEW r \in Requests, TakeId(r) PROVE WireShape'
    BY <1>2, CarriedValue, RequestsAssumption DEF TakeId
  <1>3. ASSUME NEW r \in Requests, Register(r) PROVE WireShape'
    BY <1>3, CarriedValue, RequestsAssumption DEF Register
  <1>4. ASSUME NEW r \in Requests, Transmit(r) \/ TransmitFails(r) PROVE WireShape'
    BY <1>4, CarriedValue, RequestsAssumption DEF Transmit, TransmitFails, Request, Signed
  <1>5. ASSUME NEW m \in inbox, LookUp(m) PROVE WireShape'
    BY <1>5, CarriedValue, RequestsAssumption DEF LookUp, Known
  <1>6. ASSUME NEW m \in inbox, Ignore(m) \/ Serve(m) PROVE WireShape'
    BY <1>6, CarriedValue, RequestsAssumption DEF Ignore, Serve, Spawn, MethodNotFound, Response
  <1>7. ASSUME SetValue PROVE WireShape'
    BY <1>7, CarriedValue, RequestsAssumption DEF SetValue
  <1>8. ASSUME NEW k \in Calls, HandlerReturns(k) \/ HandlerThrows(k) \/ PeerCalls(k) PROVE WireShape'
    BY <1>8, CarriedValue, RequestsAssumption DEF HandlerReturns, HandlerThrows, PeerCalls, Request, Response
  <1>9. ASSUME NEW r \in Requests, PeerAnswers(r) PROVE WireShape'
    BY <1>9, CarriedValue, RequestsAssumption DEF PeerAnswers, Response, Request
  <1>10. ASSUME SetRequestHandler PROVE WireShape'
    BY <1>10, CarriedValue, RequestsAssumption DEF SetRequestHandler
  <1> HIDE DEF IInv, TypeShape, Phases, NumberShape, WireShape, Carries
  <1> QED
    BY <1>1, <1>2, <1>3, <1>4, <1>5, <1>6, <1>7, <1>8, <1>9, <1>10
    DEF Next, SendRequest, HandleMessage

\* The promise that is found is the one that was made for this request.
LEMMA AnswerStep ==
    ASSUME IInv, [Next]_vars
    PROVE  AnswerShape'
  <1> USE DEF IInv, TypeShape, NumberShape, PromiseShape, WireShape, Carries, AnswerShape, NoPromise, sending, serving
  <1>1. CASE UNCHANGED vars
    BY <1>1 DEF vars
  <1>2. ASSUME NEW r \in Requests, TakeId(r) PROVE AnswerShape'
    BY <1>2 DEF TakeId
  <1>3. ASSUME NEW r \in Requests, Register(r) PROVE AnswerShape'
    BY <1>3 DEF Register
  <1>4. ASSUME NEW r \in Requests, Transmit(r) \/ TransmitFails(r) PROVE AnswerShape'
    BY <1>4 DEF Transmit, TransmitFails, Request, Signed
  <1>5. ASSUME NEW m \in inbox, LookUp(m) PROVE AnswerShape'
    BY <1>5 DEF LookUp, Known
  <1>6. ASSUME NEW m \in inbox, Ignore(m) \/ Serve(m) PROVE AnswerShape'
    BY <1>6 DEF Ignore, Serve, Spawn, MethodNotFound, Response
  <1>7. ASSUME SetValue PROVE AnswerShape'
    BY <1>7 DEF SetValue
  <1>8. ASSUME NEW k \in Calls, HandlerReturns(k) \/ HandlerThrows(k) \/ PeerCalls(k) PROVE AnswerShape'
    BY <1>8 DEF HandlerReturns, HandlerThrows, PeerCalls, Request, Response
  <1>9. ASSUME NEW r \in Requests, PeerAnswers(r) PROVE AnswerShape'
    BY <1>9 DEF PeerAnswers, Response, Request
  <1>10. ASSUME SetRequestHandler PROVE AnswerShape'
    BY <1>10 DEF SetRequestHandler
  <1> HIDE DEF IInv, TypeShape, NumberShape, PromiseShape, WireShape, Carries, AnswerShape, NoPromise
  <1> QED
    BY <1>1, <1>2, <1>3, <1>4, <1>5, <1>6, <1>7, <1>8, <1>9, <1>10
    DEF Next, SendRequest, HandleMessage

\* A future is set from the promise that was made for it.
LEMMA OwnStep ==
    ASSUME IInv, [Next]_vars
    PROVE  OwnAnswer'
  <1> USE DEF IInv, TypeShape, NumberShape, PromiseShape, AnswerShape, Phases, OwnAnswer, Pending, Broken, sending, serving
  <1>1. CASE UNCHANGED vars
    BY <1>1 DEF vars
  <1>2. ASSUME NEW r \in Requests, TakeId(r) PROVE OwnAnswer'
    BY <1>2 DEF TakeId
  <1>3. ASSUME NEW r \in Requests, Register(r) PROVE OwnAnswer'
    BY <1>3 DEF Register
  <1>4. ASSUME NEW r \in Requests, Transmit(r) \/ TransmitFails(r) PROVE OwnAnswer'
    BY <1>4 DEF Transmit, TransmitFails, Request, Signed
  <1>5. ASSUME NEW m \in inbox, LookUp(m) PROVE OwnAnswer'
    BY <1>5 DEF LookUp, Known
  <1>6. ASSUME NEW m \in inbox, Ignore(m) \/ Serve(m) PROVE OwnAnswer'
    BY <1>6 DEF Ignore, Serve, Spawn, MethodNotFound, Response
  <1>7. ASSUME SetValue PROVE OwnAnswer'
    <2>1. prom.for \in Requests /\ prom.for = prom.of /\ prom.kind \in Kinds
      BY <1>7 DEF SetValue
    <2>2. ASSUME NEW r \in Requests
          PROVE  future'[r] = IF r = prom.for THEN [kind |-> prom.kind, of |-> prom.of]
                              ELSE future[r]
      BY <1>7, <2>1, <2>2 DEF SetValue
    <2> QED  BY <2>1, <2>2 DEF Kinds
  <1>8. ASSUME NEW k \in Calls, HandlerReturns(k) \/ HandlerThrows(k) \/ PeerCalls(k) PROVE OwnAnswer'
    BY <1>8 DEF HandlerReturns, HandlerThrows, PeerCalls, Request, Response
  <1>9. ASSUME NEW r \in Requests, PeerAnswers(r) PROVE OwnAnswer'
    BY <1>9 DEF PeerAnswers, Response, Request
  <1>10. ASSUME SetRequestHandler PROVE OwnAnswer'
    BY <1>10 DEF SetRequestHandler
  <1> HIDE DEF IInv, TypeShape, NumberShape, PromiseShape, AnswerShape, Phases, OwnAnswer, Pending, Broken
  <1> QED
    BY <1>1, <1>2, <1>3, <1>4, <1>5, <1>6, <1>7, <1>8, <1>9, <1>10
    DEF Next, SendRequest, HandleMessage
-----------------------------------------------------------------------------
(* The theorems. *)

\* Before any request there is no promise, no message and no answer.
LEMMA InvInit == Init => IInv
  BY DEF Init, IInv, TypeShape, NumberShape, PromiseShape, WireShape, AnswerShape, OwnAnswer,
         Phases

\* Every step keeps the invariant.
LEMMA InvStep == IInv /\ [Next]_vars => IInv'
  <1> SUFFICES ASSUME IInv, [Next]_vars PROVE IInv'
    OBVIOUS
  <1> QED
    BY TypeStep, NumberStep, PromiseStep, WireStep, AnswerStep, OwnStep DEF IInv

\* The invariant holds in every state that a program can reach.
LEMMA Invariance == Spec => []IInv
  BY InvInit, InvStep, PTL DEF Spec

(* A future only ever holds the peer's answer to its own request, and is never left    *)
(* with a promise that died: concurrent callers never share a number, and a second      *)
(* response to a request finds nothing, although the identifiers' forms change on the   *)
(* wire.                                                                                 *)
THEOREM AnswersAreOwn == Spec => []OwnAnswer
  BY Invariance, PTL DEF IInv

-----------------------------------------------------------------------------
(* The counter. *)

Begun == {r \in Requests : phase[r] # "idle"}

\* next_id_ counts the calls, so that no number is given twice before it overflows.
Counted == nextId = Cardinality(Begun) + 1

\* Only a call that begins takes a number.
LEMMA CountStep ==
    ASSUME IInv, Counted, [Next]_vars
    PROVE  Counted'
  <1> USE DEF IInv, TypeShape, Phases, sending, serving
  <1>1. IsFiniteSet(Begun) /\ Cardinality(Begun) \in Nat
    BY RequestsAssumption, FS_Subset, FS_CardinalityType DEF Begun
  <1>2. ASSUME NEW r \in Requests, TakeId(r) PROVE Counted'
    <2>1. Begun' = Begun \cup {r} /\ r \notin Begun
      BY <1>2 DEF TakeId, Begun
    <2>2. Cardinality(Begun') = Cardinality(Begun) + 1
      BY <1>1, <2>1, FS_AddElement
    <2> QED  BY <1>1, <1>2, <2>2 DEF Counted, TakeId
  <1>3. ASSUME NEW r \in Requests, Register(r) \/ Transmit(r) \/ TransmitFails(r) PROVE Counted'
    <2>1. Begun' = Begun /\ nextId' = nextId
      BY <1>3 DEF Register, Transmit, TransmitFails, Begun
    <2> QED  BY <2>1 DEF Counted
  <1>4. CASE UNCHANGED <<nextId, phase>>
    BY <1>4 DEF Counted, Begun
  <1> QED
    BY <1>2, <1>3, <1>4
    DEF Next, SendRequest, HandleMessage, LookUp, Ignore, Serve, SetValue, SetRequestHandler,
        PeerAnswers, HandlerReturns, HandlerThrows, PeerCalls, vars

(* The client's members and locals keep their types, whatever the peer sends; the       *)
(* counter stays within the calls that were made.                                        *)
THEOREM ClientTypeCorrect == Spec => []TypeOK
  <1>1. Init => Counted
    <2> SUFFICES ASSUME Init PROVE Counted
      OBVIOUS
    <2>1. Begun = {}
      BY DEF Init, Begun
    <2> QED  BY <2>1, FS_EmptySet DEF Init, Counted
  <1>2. IInv /\ Counted => TypeOK
    <2> SUFFICES ASSUME IInv, Counted PROVE TypeOK
      OBVIOUS
    <2> USE DEF IInv
    <2>1. nextId \in 1..Cardinality(Requests) + 1
      <3>1. Begun \subseteq Requests
        BY DEF Begun
      <3>2. /\ Cardinality(Begun) \in Nat /\ Cardinality(Requests) \in Nat
            /\ Cardinality(Begun) <= Cardinality(Requests)
        BY <3>1, RequestsAssumption, FS_Subset, FS_CardinalityType
      <3> QED  BY <3>2 DEF Counted
    <2>2. /\ DOMAIN promises \subseteq Identifiers
          /\ \A id \in DOMAIN promises : promises[id] \in Requests
      BY DEF PromiseShape, NumberShape, TypeShape, Identifiers
    <2>3. \A r \in Requests : /\ phase[r] \in {"idle", "numbered", "registered", "sent", "lost"}
                              /\ future[r].kind \in Kinds \union {"pending", "broken"}
      BY DEF TypeShape, Phases, Answered, Pending, Broken
    <2>4. prom = NoPromise \/ prom.for \in Requests
      BY DEF AnswerShape
    <2> QED  BY <2>1, <2>2, <2>3, <2>4 DEF TypeOK, TypeShape, WireShape
  <1> QED  BY <1>1, <1>2, Invariance, CountStep, PTL DEF Spec
-----------------------------------------------------------------------------
(* The messages, from text to value and back. *)

\* What becomes of the members a text spells.
IdRead(id) == IF id \in {Absent, Other} THEN id ELSE Reparsed(id)
ErrorRead(err) == IF err \in {Absent, Other} \/ err.code = Other THEN err
                  ELSE [err EXCEPT !.code = Reparsed(@)]

\* The members of an object, in the order of Blank.
Object(jsonrpc, id, method, params, result, error) ==
    [object |-> TRUE, jsonrpc |-> jsonrpc, id |-> id, method |-> method, params |-> params,
     result |-> result, error |-> error]

\* A text changes nothing but the form of its numbers.
LEMMA OverTheWireObject ==
    ASSUME NEW a, NEW b, NEW c, NEW d, NEW e, NEW f
    PROVE  OverTheWire(Object(a, b, c, d, e, f)) = Object(a, IdRead(b), c, d, e, ErrorRead(f))
  BY DEF OverTheWire, Object, IdRead, ErrorRead

\* Ids as a text spells them: no non-negative number is signed.
ReadIds == {id \in AnyId : /\ id.form = "uint64" => id.value >= 0
                           /\ id.form = "int64" => id.value < 0
                           /\ id.form = "null" => id = Null}

LEMMA ReparsedRead ==
    ASSUME NEW id \in AnyId, id.form = "uint64" => id.value >= 0, id.form = "null" => id = Null
    PROVE  Reparsed(id) \in ReadIds /\ (IsInteger(id) => IsInteger(Reparsed(id)))
  BY DEF Reparsed, ReadIds, AnyId, IsInteger, Unsigned, Null

LEMMA ReadTwice == ASSUME NEW id \in ReadIds PROVE Reparsed(id) = id
  BY DEF Reparsed, ReadIds, AnyId, IsInteger, Unsigned

LEMMA ReadIdShape ==
    ASSUME NEW id \in Part(Ids \cup {Other})
    PROVE  /\ IdRead(id) \in Part(ReadIds \cup {Other})
           /\ IdRead(IdRead(id)) = IdRead(id)
  <1>1. CASE id \in Ids
    <2>1. id \in AnyId /\ id \notin {Absent, Other} /\ Reparsed(id) \in ReadIds
      BY <1>1, IdsAssumption, AbsentAssumption, ReparsedRead
    <2>2. Reparsed(id) \notin {Absent, Other}
      BY <2>1, AbsentAssumption DEF ReadIds
    <2> QED  BY <2>1, <2>2, ReadTwice DEF IdRead, Part
  <1>2. CASE id \in {Absent, Other}
    BY <1>2 DEF IdRead, Part
  <1> QED  BY <1>1, <1>2 DEF Part

\* A code that an int can hold keeps its value.
LEMMA NarrowKeeps ==
    ASSUME NEW n \in Int, -MaxCode - 1 <= n, n <= MaxCode
    PROVE  Narrow(n) = n
  <1>1. ASSUME NEW x \in Nat, NEW m \in Nat, x < m PROVE x % m = x
    BY <1>1
  <1>2. n + MaxCode + 1 \in Nat /\ 2 * MaxCode + 2 \in Nat /\ n + MaxCode + 1 < 2 * MaxCode + 2
    BY MaxCodeAssumption
  <1>3. (n + MaxCode + 1) % (2 * MaxCode + 2) = n + MaxCode + 1
    BY <1>1, <1>2
  <1> QED  BY <1>3, MaxCodeAssumption DEF Narrow

\* An error that is read, decoded, written and read again is the same text.
LEMMA ErrorKept ==
    ASSUME NEW err \in Errors, IsWireError(ErrorRead(err))
    PROVE  LET e == ErrorRead(err)
               m == ReadError(e)
           IN  /\ m # Absent
               /\ ErrorRead([m EXCEPT !.code = Signed(@)]) = e
               /\ e \notin {Absent, Other}
  <1> DEFINE e == ErrorRead(err)
             m == ReadError(e)
  <1>1. err \in AnyError
    BY CodesAssumption DEF Errors, AnyError
  <1>2. err \notin {Absent, Other}
    BY <1>1, AbsentAssumption
  <1>3. CASE err.code = Other
    BY <1>2, <1>3 DEF ErrorRead, IsWireError
  <1>4. CASE err.code # Other
    <2>1. err.code \in Codes /\ err.code \in AnyId /\ IsInteger(err.code)
          /\ (err.code.form = "uint64" => err.code.value >= 0)
      BY <1>4, CodesAssumption DEF Errors
    <2>2. e = [err EXCEPT !.code = Reparsed(@)]
      BY <1>2, <1>4 DEF ErrorRead
    <2> DEFINE c == Reparsed(err.code)
    <2>3. e = [code |-> c, message |-> err.message, data |-> err.data]
      BY <2>2 DEF Errors
    <2>4. c \in ReadIds /\ IsInteger(c)
      BY <2>1, ReparsedRead DEF IsInteger
    <2> HIDE DEF c
    <2>5. c \notin {Absent, Other} /\ c.value \in Int
      BY <2>4, AbsentAssumption DEF ReadIds, AnyId
    <2>6. IsWireError(e)
      OBVIOUS
    <2> HIDE DEF e
    <2>7. -MaxCode - 1 <= c.value /\ c.value <= MaxCode
      BY <2>3, <2>4, <2>5, <2>6, MaxCodeAssumption DEF IsWireError, IsInteger, ReadIds, AnyId
    <2>8. m = [code |-> c.value, message |-> err.message, data |-> err.data]
      BY <2>3, <2>5, <2>7, NarrowKeeps DEF ReadError
    <2>9. m \in AnyError
      BY <1>1, <2>5, <2>8 DEF AnyError
    <2> DEFINE s == [code |-> Signed(c.value), message |-> err.message, data |-> err.data]
    <2>10. [m EXCEPT !.code = Signed(@)] = s
      BY <2>8
    <2>11. Signed(c.value) \in AnyId /\ Reparsed(Signed(c.value)) = c
      BY <2>4, <2>5 DEF Signed, AnyId, Reparsed, IsInteger, Unsigned, ReadIds
    <2>12. s \in AnyError /\ e \in AnyError
      BY <1>1, <2>3, <2>4, <2>11 DEF AnyError, ReadIds
    <2>13. s \notin {Absent, Other} /\ e \notin {Absent, Other} /\ m # Absent
           /\ Signed(c.value) # Other
      BY <2>9, <2>11, <2>12, AbsentAssumption
    <2>14. ErrorRead(s) = [s EXCEPT !.code = Reparsed(@)]
      BY <2>13 DEF ErrorRead
    <2>15. ErrorRead(s) = e
      BY <2>3, <2>11, <2>14
    <2> QED  BY <2>10, <2>13, <2>15 DEF e
  <1> QED  BY <1>3, <1>4
\* Every value is one of the objects, or none.
LEMMA TextShape ==
    ASSUME NEW w \in Wires \cup {NoObject}
    PROVE  \/ w = NoObject /\ OverTheWire(w) = NoObject
           \/ \E b \in Part(Ids \cup {Other}), f \in Part(Errors \cup {Other}) :
                /\ w = Object(w.jsonrpc, b, w.method, w.params, w.result, f)
                /\ OverTheWire(w) =
                     Object(w.jsonrpc, IdRead(b), w.method, w.params, w.result, ErrorRead(f))
  <1>1. CASE w = NoObject
    BY <1>1 DEF NoObject, OverTheWire
  <1>2. CASE w \in Wires
    <2>1. w = Object(w.jsonrpc, w.id, w.method, w.params, w.result, w.error)
          /\ w.id \in Part(Ids \cup {Other}) /\ w.error \in Part(Errors \cup {Other})
      BY <1>2 DEF Wires, Object
    <2> QED  BY <2>1, OverTheWireObject
  <1> QED  BY <1>1, <1>2

\* What is refused is answered where a peer may wait, and with the peer's id.
LEMMA RefusalsAnswered ==
    ASSUME NEW w \in Wires \cup {NoObject}, Decode(OverTheWire(w)).kind = "failure"
    PROVE  AnswersWhatAsks(OverTheWire(w), Answers(OverTheWire(w)))
  <1> DEFINE t == OverTheWire(w)
  <1>1. t.object => t.id \in Part(ReadIds \cup {Other})
    <2>1. CASE t = NoObject
      BY <2>1 DEF NoObject
    <2>2. CASE t # NoObject
      <3>1. PICK b \in Part(Ids \cup {Other}), f \in Part(Errors \cup {Other}) :
              t = Object(w.jsonrpc, IdRead(b), w.method, w.params, w.result, ErrorRead(f))
        BY <2>2, TextShape
      <3>2. t.id = IdRead(b)
        BY <3>1 DEF Object
      <3> QED  BY <3>2, ReadIdShape
    <2> QED  BY <2>1, <2>2
  <1> HIDE DEF t
  <1>2. Decode(t).kind = "failure" => Decode(t) = Failure(t)
    BY DEF Decode
  <1>3. t.object /\ t.id \notin {Absent, Other} => (IsRequestId(t.id) \/ t.id = Null)
    BY <1>1 DEF Part, ReadIds, AnyId, IsRequestId
  <1>4. t.object /\ t.id = Other => ~IsRequestId(t.id)
    BY DEF IsRequestId
  <1>5. Decode(t).kind = "failure"
    BY DEF t
  <1>6. AnswersWhatAsks(t, Answers(t))
    BY <1>2, <1>3, <1>4, <1>5 DEF AnswersWhatAsks, Answers, Suppresses, Failure
  <1> QED  BY <1>6 DEF t

\* What is accepted is one of three messages.
LEMMA MessageShape ==
    ASSUME NEW w \in Wires \cup {NoObject}, Decode(OverTheWire(w)).kind # "failure"
    PROVE  \E b \in Part(Ids \cup {Other}), f \in Part(Errors \cup {Other}) :
             LET id == IdRead(b)
                 err == ErrorRead(f)
                 m == Decode(OverTheWire(w))
             IN  /\ OverTheWire(w) = Object("2.0", id, w.method, w.params, w.result, err)
                 /\ \/ /\ w.method # Absent /\ w.result = Absent /\ err = Absent
                       /\ id = Absent
                       /\ m = [kind |-> "notification", method |-> w.method, params |-> w.params]
                    \/ /\ w.method # Absent /\ w.result = Absent /\ err = Absent
                       /\ id # Absent
                       /\ m = [kind |-> "request", id |-> id, method |-> w.method,
                               params |-> w.params]
                    \/ /\ w.method = Absent /\ id # Absent
                       /\ (w.result = Absent) # (err = Absent)
                       /\ err # Absent => IsWireError(err)
                       /\ m = [kind |-> "response", id |-> id, result |-> w.result,
                               error |-> IF err = Absent THEN Absent ELSE ReadError(err)]
  <1> DEFINE t == OverTheWire(w)
             m == Decode(t)
  <1>1. Failure(t).kind = "failure"
    BY DEF Failure
  <1>2. t # NoObject
    <2>1. ~NoObject.object
      BY DEF NoObject
    <2> QED  BY <1>1, <2>1 DEF Decode
  <1>3. PICK b \in Part(Ids \cup {Other}), f \in Part(Errors \cup {Other}) :
               t = Object(w.jsonrpc, IdRead(b), w.method, w.params, w.result, ErrorRead(f))
    BY <1>2, TextShape
  <1> DEFINE id == IdRead(b)
             err == ErrorRead(f)
  <1>4. /\ t.object /\ t.jsonrpc = w.jsonrpc /\ t.id = id /\ t.method = w.method
        /\ t.params = w.params /\ t.result = w.result /\ t.error = err
    BY <1>3 DEF Object
  <1> HIDE DEF t, id, err
  <1>5. t.jsonrpc = "2.0"
    BY <1>1 DEF Decode, t
  <1>6. CASE t.method # Absent
    <2>1. WellFormedCall(t)
      BY <1>1, <1>4, <1>5, <1>6 DEF Decode, t
    <2>2. t.result = Absent /\ t.error = Absent
      BY <2>1 DEF WellFormedCall
    <2>3. m = IF t.id = Absent
              THEN [kind |-> "notification", method |-> t.method, params |-> t.params]
              ELSE [kind |-> "request", id |-> t.id, method |-> t.method, params |-> t.params]
      BY <1>4, <1>5, <1>6, <2>1 DEF Decode
    <2> QED  BY <1>3, <1>4, <1>5, <1>6, <2>2, <2>3 DEF id, err, t
  <1>7. CASE t.method = Absent
    <2>1. WellFormedResponse(t)
      BY <1>1, <1>4, <1>5, <1>7 DEF Decode, t
    <2>2. /\ t.id # Absent /\ (t.result = Absent) # (t.error = Absent)
          /\ t.error # Absent => IsWireError(t.error)
      BY <2>1 DEF WellFormedResponse
    <2>3. m = [kind |-> "response", id |-> t.id, result |-> t.result,
               error |-> IF t.error = Absent THEN Absent ELSE ReadError(t.error)]
      BY <1>4, <1>5, <1>7, <2>1 DEF Decode
    <2> QED  BY <1>3, <1>4, <1>5, <1>7, <2>2, <2>3 DEF id, err, t
  <1> QED  BY <1>6, <1>7

\* Decoding looks at params in a call only.
LEMMA ParamsIgnored ==
    ASSUME NEW a, NEW b, NEW c, NEW d, NEW e, NEW f, NEW g, c = Absent
    PROVE  Decode(Object(a, b, c, d, e, f)).kind # "failure" =>
             Decode(Object(a, b, c, g, e, f)) = Decode(Object(a, b, c, d, e, f))
  BY DEF Decode, Object, Failure, WellFormedResponse

\* A message is its own, id and all.
LEMMA SameAsItself == ASSUME NEW m PROVE SameMessage(m, m)
  BY DEF SameMessage, SameId

\* What is accepted survives the round trip.
LEMMA RoundTrip ==
    ASSUME NEW w \in Wires \cup {NoObject}, Decode(OverTheWire(w)).kind # "failure"
    PROVE  Faithful(w, Decode(OverTheWire(w)))
  <1> DEFINE t == OverTheWire(w)
             m == Decode(t)
             again == OverTheWire(Encode(m))
  <1>1. PICK b \in Part(Ids \cup {Other}), f \in Part(Errors \cup {Other}) :
           LET id == IdRead(b)
               err == ErrorRead(f)
           IN  /\ t = Object("2.0", id, w.method, w.params, w.result, err)
               /\ \/ /\ w.method # Absent /\ w.result = Absent /\ err = Absent
                     /\ id = Absent
                     /\ m = [kind |-> "notification", method |-> w.method, params |-> w.params]
                  \/ /\ w.method # Absent /\ w.result = Absent /\ err = Absent
                     /\ id # Absent
                     /\ m = [kind |-> "request", id |-> id, method |-> w.method,
                             params |-> w.params]
                  \/ /\ w.method = Absent /\ id # Absent
                     /\ (w.result = Absent) # (err = Absent)
                     /\ err # Absent => IsWireError(err)
                     /\ m = [kind |-> "response", id |-> id, result |-> w.result,
                             error |-> IF err = Absent THEN Absent ELSE ReadError(err)]
    BY MessageShape
  <1> DEFINE id == IdRead(b)
             err == ErrorRead(f)
  <1>2. IdRead(id) = id /\ IdRead(Absent) = Absent /\ ErrorRead(Absent) = Absent
    BY ReadIdShape DEF IdRead, ErrorRead
  <1>3. t = Object("2.0", id, w.method, w.params, w.result, err)
    BY <1>1
  <1>4. m.kind # "failure"
    OBVIOUS
  <1> HIDE DEF t, id, err, m
  <1>5. CASE m = [kind |-> "notification", method |-> w.method, params |-> w.params]
             /\ w.result = Absent /\ err = Absent /\ id = Absent
    <2>1. Encode(m) = Object("2.0", Absent, w.method, w.params, Absent, Absent)
          /\ m.kind = "notification"
      BY <1>5 DEF Encode, EncodeNotification, Blank, Object
    <2>2. again = t
      BY <1>2, <1>3, <1>5, <2>1, OverTheWireObject
    <2> QED  BY <2>1, <2>2, SameAsItself DEF Faithful, m, t
  <1>6. CASE m = [kind |-> "request", id |-> id, method |-> w.method, params |-> w.params]
             /\ w.result = Absent /\ err = Absent
    <2>1. Encode(m) = Object("2.0", id, w.method, w.params, Absent, Absent)
          /\ m.kind = "request"
      BY <1>6 DEF Encode, EncodeRequest, Blank, Object
    <2>2. again = t
      BY <1>2, <1>3, <1>6, <2>1, OverTheWireObject
    <2> QED  BY <2>1, <2>2, SameAsItself DEF Faithful, m, t
  <1>7. CASE /\ m = [kind |-> "response", id |-> id, result |-> w.result,
                     error |-> IF err = Absent THEN Absent ELSE ReadError(err)]
             /\ w.method = Absent
             /\ (w.result = Absent) # (err = Absent)
             /\ err # Absent => IsWireError(err)
    <2> DEFINE bare == Object("2.0", id, Absent, Absent, w.result, err)
    <2>1. m.kind = "response" /\ m.id = id /\ m.result = w.result
          /\ m.error = IF err = Absent THEN Absent ELSE ReadError(err)
      BY <1>7
    <2>2. again = bare
      <3>1. CASE err = Absent
        <4>1. Encode(m) = Object("2.0", id, Absent, Absent, w.result, Absent)
          BY <1>7, <2>1, <3>1 DEF Encode, EncodeResponse, Blank, Object
        <4> QED  BY <1>2, <3>1, <4>1, OverTheWireObject
      <3>2. CASE err # Absent
        <4>1. f \in Errors
          BY <1>7, <3>2 DEF err, Part, ErrorRead, IsWireError
        <4>2. /\ ReadError(err) # Absent
              /\ ErrorRead([ReadError(err) EXCEPT !.code = Signed(@)]) = err
          BY <1>7, <3>2, <4>1, ErrorKept DEF err
        <4> DEFINE sent == [ReadError(err) EXCEPT !.code = Signed(@)]
        <4> HIDE DEF sent
        <4>3. Encode(m) = [Blank EXCEPT !.id = id, !.error = sent]
          BY <2>1, <3>2, <4>2 DEF Encode, EncodeResponse, sent
        <4>4. Encode(m) = Object("2.0", id, Absent, Absent, Absent, sent)
          BY <4>3 DEF Blank, Object
        <4>5. w.result = Absent
          BY <1>7, <3>2
        <4> QED  BY <1>2, <4>2, <4>4, <4>5, OverTheWireObject DEF sent
      <3> QED  BY <3>1, <3>2
    <2>3. \A member \in DOMAIN t : bare[member] = IF member = "params" THEN Absent ELSE t[member]
      <3>1. DOMAIN t = {"object", "jsonrpc", "id", "method", "params", "result", "error"}
        BY <1>3 DEF Object
      <3>2. /\ t.object = TRUE /\ t.jsonrpc = "2.0" /\ t.id = id /\ t.method = Absent
            /\ t.result = w.result /\ t.error = err
        BY <1>3, <1>7 DEF Object
      <3>3. /\ bare.object = TRUE /\ bare.jsonrpc = "2.0" /\ bare.id = id /\ bare.method = Absent
            /\ bare.params = Absent /\ bare.result = w.result /\ bare.error = err
        BY DEF Object
      <3> HIDE DEF bare
      <3> QED  BY <3>1, <3>2, <3>3
    <2>4. Decode(bare) = Decode(t)
      BY <1>3, <1>4, <1>7, ParamsIgnored DEF m
    <2> HIDE DEF bare
    <2>5. SameMessage(Decode(again), m)
      BY <2>2, <2>4, SameAsItself DEF m
    <2> QED  BY <2>1, <2>2, <2>3, <2>5 DEF Faithful, m, t
  <1> QED  BY <1>1, <1>5, <1>6, <1>7 DEF id, err, m

(* Every message that decode_message accepts survives to_json, the text and decode_message *)
(* again, error codes and ids of either sign included, and every value it refuses is         *)
(* answered where a peer may wait for it: for all ids, codes and contents a peer may use.    *)
THEOREM DecoderIsFaithful == ExchangeSpec => []ReceivesWhatWasSent
  <1> DEFINE Due == written \in Wires \cup {NoObject}
             Inv == Due /\ ReceivesWhatWasSent
  <1>1. ExchangeInit => Inv
    BY DEF ExchangeInit, ReceivesWhatWasSent
  <1>2. Inv /\ [ReceiveText]_<<written, received>> => Inv'
    <2>1. CASE UNCHANGED <<written, received>>
      BY <2>1 DEF ReceivesWhatWasSent
    <2>2. ASSUME Inv, ReceiveText
          PROVE  Inv'
      <3> DEFINE t == OverTheWire(written)
                 got == [message |-> Decode(t), answers |-> Answers(t)]
      <3>1. received' = {got} /\ written' = written
        BY <2>2 DEF ReceiveText
      <3>2. CASE Decode(t).kind = "failure"
        <4>1. AnswersWhatAsks(t, Answers(t))
          BY <2>2, <3>2, RefusalsAnswered
        <4> HIDE DEF t
        <4>2. got.message = Decode(t) /\ got.answers = Answers(t)
          OBVIOUS
        <4> HIDE DEF got
        <4> QED  BY <2>2, <3>1, <3>2, <4>1, <4>2 DEF ReceivesWhatWasSent, t
      <3>3. CASE Decode(t).kind # "failure"
        <4>1. Faithful(written, Decode(t))
          BY <2>2, <3>3, RoundTrip
        <4>2. Answers(t) = {}
          BY <3>3 DEF Answers
        <4> HIDE DEF t
        <4>3. got.message = Decode(t) /\ got.answers = Answers(t)
          OBVIOUS
        <4> HIDE DEF got
        <4> QED  BY <2>2, <3>1, <3>3, <4>1, <4>2, <4>3 DEF ReceivesWhatWasSent, t
      <3> QED  BY <3>2, <3>3
    <2> QED  BY <2>1, <2>2
  <1> QED  BY <1>1, <1>2, PTL DEF ExchangeSpec

-----------------------------------------------------------------------------
(* The registration of schemas: its inductive invariants. What the calls in progress *)
(* have left to do makes up for what the registration does not know yet.             *)

Due == {agenda[i] : i \in 1 .. Len(agenda)}
Values == [key \in DOMAIN resources |-> resources[key].value]
Base(n, base) == base \in DOMAIN resources /\ n \in world.node[resources[base].value].parts

Tasks == [do : {"inspect", "note"}, key : Keys, what : Objects]
         \cup [do : {"check", "speak", "pass"}, key : Keys, what : {None}]
         \cup [do : {"point"}, key : Keys, what : Fragments]

RegistrationTypes ==
    /\ world \in Worlds
    /\ DOMAIN resources \subseteq Keys
    /\ \A key \in DOMAIN resources : /\ resources[key].value \in Objects
                                     /\ resources[key].base \in Keys
    /\ anchors \subseteq Keys \X Fragments
    /\ inspected \subseteq Objects
    /\ checked \subseteq Keys /\ active \subseteq Keys
    /\ references \in Seq(References)
    /\ index \in Nat \ {0}
    /\ agenda \in Seq(Tasks)
    /\ verdict \in {"running", "accepted", "refused"}

\* Resources are what their names mean, and are looked into.
ResourceShape ==
    /\ Default \in DOMAIN resources /\ resources[Default].value = world.root
    /\ \A key \in DOMAIN resources :
          LET n == resources[key].value IN
          /\ Means(world, key, n)
          /\ resources[key].base \in DOMAIN resources
          /\ resources[resources[key].base].value = n
          /\ n \in inspected \/ \E base \in Keys : ToInspect(n, base) \in Due

\* What is looked into is within a resource whose name is the base of its anchors.
PlaceShape ==
    \A n \in Objects, base \in Keys :
        /\ ToInspect(n, base) \in Due => Base(n, base) /\ (verdict = "running" => world.node[n].valid)
        /\ ToNote(n, base) \in Due => Base(n, base) /\ n \in inspected
KeyShape ==
    \A key \in Keys :
        /\ ToSpeak(key) \in Due \/ ToPass(key) \in Due =>
              key \in DOMAIN resources /\ key # Draft
        /\ ToPass(key) \in Due => world.node[resources[key].value].dialect # None
        /\ \A f \in Fragments : ToPoint(key, f) \in Due => key \in DOMAIN resources

\* What an object needs is there or on its way.
DialectDue(dialect) ==
    dialect \in checked \cup {Draft}
    \/ ToCheck(dialect) \in Due \/ ToSpeak(dialect) \in Due \/ ToPass(dialect) \in Due
Noted(n) ==
    /\ world.node[n].supported
    /\ \A i \in 1 .. Len(world.node[n].refs) : \E j \in 1 .. Len(references) : references[j] = world.node[n].refs[i]
    /\ \A a \in world.node[n].anchors : \E base \in Keys : <<base, a>> \in anchors /\ Base(n, base)
ObjectShape ==
    \A n \in inspected :
        /\ world.node[n].valid
        /\ \A c \in ToSet(world.node[n].children) :
              c \in inspected \/ \E base \in Keys : ToInspect(c, base) \in Due
        /\ world.node[n].dialect # None => DialectDue(world.node[n].dialect)
        /\ Noted(n) \/ \E base \in Keys : ToNote(n, base) \in Due

AnchorShape ==
    \A place \in anchors : /\ place[1] \in DOMAIN resources
                           /\ place[2] \notin Objects
                           /\ Anchored(world, resources[place[1]].value, place[2])

\* A dialect passes after its own dialect.
Before(i, dialect) == \E j \in 1 .. i - 1 : agenda[j] \in {ToCheck(dialect), ToSpeak(dialect), ToPass(dialect)}
DialectShape ==
    /\ \A key \in checked : key \in DOMAIN resources /\ Grounded(world, Values, key)
    /\ \A i \in 1 .. Len(agenda), key \in Keys :
          agenda[i] = ToPass(key) =>
              LET dialect == world.node[resources[key].value].dialect
              IN  dialect \in checked \cup {Draft} \/ Before(i, dialect)

\* References that the loop has come to lead somewhere.
Pointed(key, f) ==
    \/ ToPoint(key, f) \in Due
    \/ /\ f \in world.node[resources[key].value].parts
       /\ f \in inspected \/ \E base \in Keys : ToInspect(f, base) \in Due
    \/ f \notin Objects /\ Anchored(world, resources[key].value, f)
Leading(ref) ==
    \/ ref.key \in Builtins
    \/ ref.key \in DOMAIN resources /\ (ref.fragment = Whole \/ Pointed(ref.key, ref.fragment))
ReferenceShape ==
    /\ index <= Len(references) + 1
    /\ \A i \in 1 .. index - 1 : Leading(references[i])
    /\ verdict = "accepted" => agenda = <<>> /\ index = Len(references) + 1

RegInv == /\ RegistrationTypes /\ ResourceShape /\ PlaceShape /\ KeyShape /\ ObjectShape
          /\ AnchorShape /\ DialectShape /\ ReferenceShape

\* A world that is plain and closed, by these resources: nothing is refused.
After(naming, key, dialect) ==
    \A set \in SUBSET (Keys \cup {None}) :
        world.node[naming[key]].dialect \in set /\ Onward(world, naming, set) => dialect \in set
InNodes(naming, nodes, key) == key \in DOMAIN naming /\ naming[key] \in nodes
Sustained(naming, nodes, key) == /\ Grounded(world, naming, key)
                                 /\ key # Draft => InNodes(naming, nodes, key)
Meant(naming, nodes, ref) ==
    /\ Resolves(world, naming, ref)
    /\ ref.key \notin Builtins => /\ InNodes(naming, nodes, ref.key)
                                  /\ ref.fragment \in Objects => ref.fragment \in nodes

\* What is done before a dialect goes on comes after it on its way to the draft.
Behind(naming, key, task) ==
    /\ \A d \in Keys : task \in {ToCheck(d), ToSpeak(d), ToPass(d)} => After(naming, key, d)
    /\ \A n \in Objects, base \in Keys :
          task = ToInspect(n, base) /\ world.node[n].dialect # None
          => After(naming, key, world.node[n].dialect)
Chain(naming) ==
    \A j \in 1 .. Len(agenda), i \in 1 .. Len(agenda), key \in Keys :
        i < j /\ agenda[j] \in {ToSpeak(key), ToPass(key)} => Behind(naming, key, agenda[i])

Good(naming, nodes, task) ==
    /\ \A n \in Objects, base \in Keys : task = ToInspect(n, base) => n \in nodes
    /\ \A key \in Keys :
          task \in {ToCheck(key), ToSpeak(key), ToPass(key)} => Sustained(naming, nodes, key)
    /\ \A key \in Keys, f \in Fragments :
          task = ToPoint(key, f) => /\ key \notin Builtins
                                    /\ Meant(naming, nodes, [key |-> key, fragment |-> f])
Tasked(naming, nodes) ==
    /\ \A task \in Due : Good(naming, nodes, task)
    /\ \A i \in 1 .. Len(agenda) : agenda[i].do = "point" => i = Len(agenda)

Accepting(naming, nodes) ==
    /\ verdict # "refused"
    /\ \A key \in DOMAIN resources : /\ key \in DOMAIN naming
                                     /\ resources[key].value = naming[key]
                                     /\ resources[key].base = key
    /\ inspected \subseteq nodes
    /\ \A i \in 1 .. Len(references) : Meant(naming, nodes, references[i])
    /\ \A key \in active : ToSpeak(key) \in Due \/ ToPass(key) \in Due
    /\ Tasked(naming, nodes)
    /\ Chain(naming)

AcceptsPlain ==
    Plain(world) => \A naming \in Namings(world), nodes \in SUBSET Objects :
                        Closes(world, naming, nodes) => Accepting(naming, nodes)

-----------------------------------------------------------------------------
(* The list of tasks, and the world. *)

\* What remains of a list when tasks take the place of its first element.
LEMMA TasksReplace ==
    ASSUME NEW S, NEW s \in Seq(S), NEW t \in Seq(S), NEW r, r = t \o SubSeq(s, 2, Len(s))
    PROVE  /\ r \in Seq(S)
           /\ \A i \in 1 .. Len(t) : i \in 1 .. Len(r) /\ r[i] = t[i]
           /\ \A i \in 2 .. Len(s) : Len(t) + i - 1 \in 1 .. Len(r) /\ r[Len(t) + i - 1] = s[i]
           /\ \A j \in 1 .. Len(r) :
                 \/ j \in 1 .. Len(t)
                 \/ j - Len(t) + 1 \in 2 .. Len(s) /\ r[j] = s[j - Len(t) + 1]
           /\ Len(r) = IF s = <<>> THEN Len(t) ELSE Len(t) + Len(s) - 1
  <1> DEFINE q == SubSeq(s, 2, Len(s))
  <1>1. q \in Seq(S) /\ Len(q) = (IF s = <<>> THEN 0 ELSE Len(s) - 1)
        /\ \A i \in 1 .. Len(q) : q[i] = s[i + 1]
    OBVIOUS
  <1>2. Len(s) \in Nat /\ Len(t) \in Nat /\ (s = <<>> <=> Len(s) = 0)
    OBVIOUS
  <1> HIDE DEF q
  <1>3. /\ r \in Seq(S) /\ Len(r) = Len(t) + Len(q)
        /\ \A i \in 1 .. Len(r) : r[i] = IF i <= Len(t) THEN t[i] ELSE q[i - Len(t)]
    <2>1. r = t \o q
      BY DEF q
    <2> QED  BY <2>1, <1>1
  <1>4. \A i \in 2 .. Len(s) : i - 1 \in 1 .. Len(q) /\ q[i - 1] = s[i]
    BY <1>1, <1>2
  <1>5. \A j \in 1 .. Len(r) : j \notin 1 .. Len(t) =>
            j - Len(t) \in 1 .. Len(q) /\ j - Len(t) + 1 \in 2 .. Len(s)
            /\ r[j] = s[j - Len(t) + 1]
    BY <1>1, <1>2, <1>3
  <1>6. \A i \in 2 .. Len(s) : Len(t) + i - 1 \in 1 .. Len(r) /\ r[Len(t) + i - 1] = s[i]
    BY <1>1, <1>2, <1>3, <1>4
  <1> QED  BY <1>1, <1>2, <1>3, <1>5, <1>6

\* The tasks that are due after a step that goes on.
LEMMA Continues ==
    ASSUME RegistrationTypes, NEW tasks \in Seq(Tasks), Continue(tasks)
    PROVE  /\ agenda' \in Seq(Tasks) /\ world' = world /\ verdict' = verdict
           /\ \A i \in 1 .. Len(tasks) : tasks[i] \in Due'
           /\ \A task \in Due : task \in Due' \/ (agenda # <<>> /\ task = Head(agenda))
           /\ \A task \in Due' : task \in Due \/ \E i \in 1 .. Len(tasks) : task = tasks[i]
  <1> DEFINE s == agenda
             r == agenda'
  <1>1. s \in Seq(Tasks) /\ r = tasks \o SubSeq(s, 2, Len(s)) /\ world' = world /\ verdict' = verdict
    BY DEF RegistrationTypes, Continue, Rest
  <1>2. /\ r \in Seq(Tasks)
        /\ \A i \in 1 .. Len(tasks) : i \in 1 .. Len(r) /\ r[i] = tasks[i]
        /\ \A i \in 2 .. Len(s) : Len(tasks) + i - 1 \in 1 .. Len(r) /\ r[Len(tasks) + i - 1] = s[i]
        /\ \A j \in 1 .. Len(r) :
              \/ j \in 1 .. Len(tasks)
              \/ j - Len(tasks) + 1 \in 2 .. Len(s) /\ r[j] = s[j - Len(tasks) + 1]
    BY <1>1, TasksReplace
  <1>3. Due = {s[i] : i \in 1 .. Len(s)} /\ Due' = {r[i] : i \in 1 .. Len(r)}
    BY DEF Due
  <1>4. Len(s) \in Nat /\ (s # <<>> => Head(s) = s[1])
    BY <1>1
  <1> HIDE DEF s, r
  <1>5. \A i \in 1 .. Len(tasks) : tasks[i] \in Due'
    BY <1>2, <1>3
  <1>6. ASSUME NEW task \in Due
        PROVE  task \in Due' \/ (s # <<>> /\ task = Head(s))
    <2>1. PICK i \in 1 .. Len(s) : task = s[i]
      BY <1>3
    <2>2. CASE i = 1
      BY <2>1, <2>2, <1>4, <1>1
    <2>3. CASE i # 1
      <3>1. i \in 2 .. Len(s)
        BY <2>3, <1>4
      <3> QED  BY <3>1, <2>1, <1>2, <1>3
    <2> QED  BY <2>2, <2>3
  <1>7. ASSUME NEW task \in Due'
        PROVE  task \in Due \/ \E i \in 1 .. Len(tasks) : task = tasks[i]
    <2>1. PICK j \in 1 .. Len(r) : task = r[j]
      BY <1>3
    <2>2. j \in 1 .. Len(tasks) \/ (j - Len(tasks) + 1 \in 1 .. Len(s) /\ r[j] = s[j - Len(tasks) + 1])
      BY <1>2, <1>4
    <2> QED  BY <2>1, <2>2, <1>2, <1>3
  <1> QED  BY <1>1, <1>2, <1>5, <1>6, <1>7 DEF s, r

\* A task is one of the six kinds.
LEMMA HeadIs ==
    ASSUME RegistrationTypes, agenda # <<>>
    PROVE  LET task == Head(agenda) IN
           /\ task \in Due /\ task = agenda[1] /\ 1 \in 1 .. Len(agenda)
           /\ task.do = "inspect" =>
                 task = ToInspect(task.what, task.key) /\ task.what \in Objects /\ task.key \in Keys
           /\ task.do = "note" =>
                 task = ToNote(task.what, task.key) /\ task.what \in Objects /\ task.key \in Keys
           /\ task.do = "check" => task = ToCheck(task.key) /\ task.key \in Keys
           /\ task.do = "speak" => task = ToSpeak(task.key) /\ task.key \in Keys
           /\ task.do = "pass" => task = ToPass(task.key) /\ task.key \in Keys
           /\ task.do = "point" =>
                 task = ToPoint(task.key, task.what) /\ task.key \in Keys /\ task.what \in Fragments
  <1>1. agenda \in Seq(Tasks) /\ Head(agenda) = agenda[1] /\ Len(agenda) \in Nat \ {0}
    BY DEF RegistrationTypes
  <1>2. agenda[1] \in Tasks /\ agenda[1] \in Due
    BY <1>1 DEF Due
  <1> DEFINE task == Head(agenda)
  <1>3. task = [do |-> task.do, key |-> task.key, what |-> task.what]
    BY <1>1, <1>2 DEF Tasks
  <1> QED  BY <1>1, <1>2, <1>3 DEF Tasks, ToInspect, ToNote, ToCheck, ToSpeak, ToPass, ToPoint, Task

\* Tasks are equal when they are of a kind and about the same.
LEMMA TasksApart ==
    /\ \A n, m, b, c : ToInspect(n, b) = ToInspect(m, c) => n = m /\ b = c
    /\ \A n, m, b, c : ToNote(n, b) = ToNote(m, c) => n = m /\ b = c
    /\ \A k, l : ToCheck(k) = ToCheck(l) => k = l
    /\ \A k, l : ToSpeak(k) = ToSpeak(l) => k = l
    /\ \A k, l : ToPass(k) = ToPass(l) => k = l
    /\ \A k, l, e, f : ToPoint(k, e) = ToPoint(l, f) => k = l /\ e = f
    /\ \A n, b : ToInspect(n, b).do = "inspect" /\ ToNote(n, b).do = "note" /\ ToPoint(b, n).do = "point"
    /\ \A k : ToCheck(k).do = "check" /\ ToSpeak(k).do = "speak" /\ ToPass(k).do = "pass"
  BY DEF ToInspect, ToNote, ToCheck, ToSpeak, ToPass, ToPoint, Task

\* An object is one, and its parts and children are.
LEMMA ObjectIs ==
    ASSUME world \in Worlds, NEW n \in Objects
    PROVE  /\ world.node[n] \in Schemas
           /\ n \in world.node[n].parts /\ world.node[n].parts \subseteq Objects
           /\ \A m \in world.node[n].parts : world.node[m].parts \subseteq world.node[n].parts
           /\ \A c \in ToSet(world.node[n].children) : c \in Objects /\ c \in world.node[n].parts
           /\ ToSet(world.node[n].children)
              = {world.node[n].children[i] : i \in 1 .. Len(world.node[n].children)}
           /\ world.node[n].valid => \A c \in ToSet(world.node[n].children) : world.node[c].valid
  <1>1. WellFormed(world) /\ PassesWhole(world)
    BY WorldsAssumption
  <1>2. world.node[n] \in Schemas
    BY <1>1 DEF WellFormed
  <1>3. world.node[n].children \in Seq(Objects)
    BY <1>2 DEF Schemas
  <1>4. ToSet(world.node[n].children)
        = {world.node[n].children[i] : i \in 1 .. Len(world.node[n].children)}
    BY <1>3 DEF ToSet
  <1>5. ToSet(world.node[n].children) \subseteq world.node[n].parts
    BY <1>1 DEF WellFormed
  <1>6. world.node[n].parts \subseteq Objects
    BY <1>2 DEF Schemas
  <1>7. n \in world.node[n].parts
        /\ \A m \in world.node[n].parts : world.node[m].parts \subseteq world.node[n].parts
    BY <1>1 DEF WellFormed
  <1> QED  BY <1>1, <1>2, <1>4, <1>5, <1>6, <1>7 DEF PassesWhole

\* What a walk has to do.
LEMMA WalkIs ==
    ASSUME RegistrationTypes, NEW n \in Objects, NEW base \in Keys
    PROVE  LET tasks == Walk(n, base)  schema == world.node[n] IN
           /\ tasks \in Seq(Tasks)
           /\ \A i \in 1 .. Len(tasks) :
                 \/ schema.dialect # None /\ i = 1 /\ tasks[i] = ToCheck(schema.dialect)
                 \/ tasks[i] = ToNote(n, base)
                 \/ \E c \in ToSet(schema.children) : tasks[i] = ToInspect(c, base)
           /\ schema.dialect # None => 1 \in 1 .. Len(tasks) /\ tasks[1] = ToCheck(schema.dialect)
           /\ \E i \in 1 .. Len(tasks) : tasks[i] = ToNote(n, base)
           /\ \A c \in ToSet(schema.children) :
                 \E i \in 1 .. Len(tasks) : tasks[i] = ToInspect(c, base)
  <1> DEFINE schema == world.node[n]
             first == IF schema.dialect = None THEN <<>> ELSE <<ToCheck(schema.dialect)>>
             last == [i \in 1 .. Len(schema.children) |-> ToInspect(schema.children[i], base)]
             note == <<ToNote(n, base)>>
  <1>0. /\ schema.dialect \in Keys \cup {None} /\ schema.children \in Seq(Objects)
        /\ ToSet(schema.children) = {schema.children[i] : i \in 1 .. Len(schema.children)}
    BY ObjectIs DEF RegistrationTypes, Schemas
  <1>1. /\ first \in Seq(Tasks) /\ (schema.dialect = None => Len(first) = 0)
        /\ schema.dialect # None => Len(first) = 1 /\ first[1] = ToCheck(schema.dialect)
    <2>1. CASE schema.dialect = None
      BY <2>1
    <2>2. CASE schema.dialect # None
      <3>1. ToCheck(schema.dialect) \in Tasks
        BY <1>0, <2>2 DEF ToCheck, Task, Tasks
      <3> QED  BY <2>2, <3>1
    <2> QED  BY <2>1, <2>2
  <1>2. note \in Seq(Tasks) /\ Len(note) = 1 /\ note[1] = ToNote(n, base)
    BY DEF ToNote, Task, Tasks
  <1>3. /\ last \in Seq(Tasks) /\ Len(last) = Len(schema.children) /\ Len(last) \in Nat
        /\ \A i \in 1 .. Len(last) : last[i] = ToInspect(schema.children[i], base)
    <2>1. \A i \in 1 .. Len(schema.children) : ToInspect(schema.children[i], base) \in Tasks
      BY <1>0 DEF ToInspect, Task, Tasks
    <2> QED  BY <1>0, <2>1
  <1>a. Len(first) \in Nat /\ Len(note) = 1 /\ Len(last) \in Nat
    BY <1>1, <1>2, <1>3
  <1> DEFINE front == first \o note
  <1>t. first \in Seq(Tasks) /\ note \in Seq(Tasks) /\ last \in Seq(Tasks)
    BY <1>1, <1>2, <1>3
  <1>f. front \in Seq(Tasks) /\ Len(front) = Len(first) + Len(note)
        /\ \A i \in 1 .. Len(first) + Len(note) :
              front[i] = IF i <= Len(first) THEN first[i] ELSE note[i - Len(first)]
    BY <1>t, ConcatProperties, Zenon
  <1>b. Len(front) = Len(first) + 1
        /\ \A i \in 1 .. Len(first) + 1 : front[i] = IF i <= Len(first) THEN first[i] ELSE note[1]
    BY <1>f, <1>a
  <1> DEFINE tasks == front \o last
  <1>4. tasks = Walk(n, base)
    BY DEF Walk
  <1> HIDE DEF front, first, note, last
  <1>g. front \in Seq(Tasks) /\ last \in Seq(Tasks)
    BY <1>t, <1>f
  <1>c. /\ front \o last \in Seq(Tasks) /\ Len(front \o last) = Len(front) + Len(last)
        /\ \A i \in 1 .. Len(front) + Len(last) :
              (front \o last)[i] = IF i <= Len(front) THEN front[i] ELSE last[i - Len(front)]
    BY <1>g, ConcatProperties, Zenon
  <1>d. /\ tasks \in Seq(Tasks) /\ Len(tasks) = Len(front) + Len(last)
        /\ \A i \in 1 .. Len(front) + Len(last) :
              tasks[i] = IF i <= Len(front) THEN front[i] ELSE last[i - Len(front)]
    BY <1>c
  <1> HIDE DEF tasks
  <1>e. Len(tasks) = Len(first) + 1 + Len(last)
    BY <1>b, <1>d
  <1>5. /\ \A i \in 1 .. Len(first) : tasks[i] = first[i]
        /\ tasks[Len(first) + 1] = ToNote(n, base)
        /\ \A i \in 1 .. Len(last) : tasks[i + Len(first) + 1] = last[i]
    <2>1. \A i \in 1 .. Len(first) + 1 : tasks[i] = front[i]
      BY <1>a, <1>b, <1>d
    <2>2. \A i \in 1 .. Len(last) : i + Len(first) + 1 - Len(front) = i
             /\ i + Len(first) + 1 \in 1 .. Len(front) + Len(last) /\ ~(i + Len(first) + 1 <= Len(front))
      BY <1>a, <1>b
    <2>3. \A i \in 1 .. Len(last) : tasks[i + Len(first) + 1] = last[i]
      BY <2>2, <1>d
    <2> QED  BY <2>1, <2>3, <1>a, <1>b, <1>2
  <1>6. ASSUME NEW i \in 1 .. Len(tasks)
        PROVE  \/ schema.dialect # None /\ i = 1 /\ tasks[i] = ToCheck(schema.dialect)
               \/ tasks[i] = ToNote(n, base)
               \/ \E c \in ToSet(schema.children) : tasks[i] = ToInspect(c, base)
    <2>1. CASE i <= Len(first)
      BY <2>1, <1>5, <1>1, <1>a
    <2>2. CASE i = Len(first) + 1
      BY <2>2, <1>5
    <2>3. CASE i > Len(first) + 1
      <3> DEFINE j == i - Len(first) - 1
      <3>1. j \in 1 .. Len(last) /\ i = j + Len(first) + 1
        BY <2>3, <1>a, <1>e
      <3> HIDE DEF j
      <3>2. tasks[i] = ToInspect(schema.children[j], base)
        BY <3>1, <1>5, <1>3
      <3> QED  BY <3>1, <3>2, <1>3, <1>0
    <2> QED  BY <2>1, <2>2, <2>3, <1>a
  <1>7. Len(first) + 1 \in 1 .. Len(tasks) /\ tasks[Len(first) + 1] = ToNote(n, base)
    BY <1>a, <1>e, <1>5
  <1>8. schema.dialect # None => 1 \in 1 .. Len(tasks) /\ tasks[1] = ToCheck(schema.dialect)
    BY <1>a, <1>1, <1>5, <1>e
  <1>9. ASSUME NEW c \in ToSet(schema.children)
        PROVE  \E i \in 1 .. Len(tasks) : tasks[i] = ToInspect(c, base)
    <2>1. PICK i \in 1 .. Len(last) : schema.children[i] = c
      BY <1>0, <1>3
    <2>2. i + Len(first) + 1 \in 1 .. Len(tasks)
      BY <1>a, <1>e
    <2> QED  BY <2>1, <2>2, <1>3, <1>5
  <1> QED  BY <1>4, <1>d, <1>6, <1>7, <1>8, <1>9

\* A resource is known, or is named now and is to be looked into first.
LEMMA LoadIs ==
    ASSUME RegistrationTypes, NEW key \in Keys, NEW then \in Seq(Tasks), Load(key, then)
    PROVE  \E tasks \in Seq(Tasks) :
              /\ Continue(tasks)
              /\ \/ key \in DOMAIN resources /\ resources' = resources /\ tasks = then
                 \/ /\ key \in DOMAIN world.catalog \ DOMAIN resources
                    /\ world.catalog[key] \in Objects /\ world.node[world.catalog[key]].valid
                    /\ resources' = Named(key, world.catalog[key])
                    /\ Len(tasks) = Len(then) + 1
                    /\ tasks[1] = ToInspect(world.catalog[key], key)
                    /\ \A i \in 1 .. Len(then) : tasks[i + 1] = then[i]
  <1>1. CASE key \in DOMAIN resources
    BY <1>1 DEF Load
  <1>2. CASE key \notin DOMAIN resources
    <2> DEFINE document == world.catalog[key]
               one == <<ToInspect(document, key)>>
    <2>1. /\ key \in DOMAIN world.catalog /\ world.node[document].valid
          /\ resources' = Named(key, document) /\ Continue(one \o then)
      BY <1>2 DEF Load
    <2>2. document \in Objects
      BY <2>1, WorldsAssumption DEF RegistrationTypes, WellFormed
    <2>3. one \in Seq(Tasks) /\ Len(one) = 1 /\ one[1] = ToInspect(document, key)
      BY <2>2 DEF ToInspect, Task, Tasks
    <2> HIDE DEF one
    <2>4. one \in Seq(Tasks) /\ then \in Seq(Tasks)
      BY <2>3
    <2>5. /\ one \o then \in Seq(Tasks) /\ Len(one \o then) = Len(one) + Len(then)
          /\ \A i \in 1 .. Len(one) + Len(then) :
                (one \o then)[i] = IF i <= Len(one) THEN one[i] ELSE then[i - Len(one)]
      BY <2>4, ConcatProperties, Zenon
    <2> DEFINE tasks == one \o then
    <2>6. tasks \in Seq(Tasks) /\ Len(tasks) = 1 + Len(then) /\ Continue(tasks)
          /\ \A i \in 1 .. 1 + Len(then) : tasks[i] = IF i <= 1 THEN one[i] ELSE then[i - 1]
      BY <2>1, <2>3, <2>5
    <2> HIDE DEF tasks
    <2>7. Len(then) \in Nat
      OBVIOUS
    <2>8. Len(tasks) = Len(then) + 1 /\ tasks[1] = ToInspect(document, key)
          /\ \A i \in 1 .. Len(then) : tasks[i + 1] = then[i]
      BY <2>3, <2>6, <2>7
    <2> QED  BY <1>2, <2>1, <2>2, <2>6, <2>8
  <1> QED  BY <1>1, <1>2

\* What there is to do after each load.
LEMMA ThenIs ==
    ASSUME NEW key \in Keys
    PROVE  /\ <<>> \in Seq(Tasks) /\ <<ToSpeak(key)>> \in Seq(Tasks)
           /\ \A f \in Fragments : <<ToPoint(key, f)>> \in Seq(Tasks)
           /\ \A d \in Keys : <<ToCheck(d), ToPass(key)>> \in Seq(Tasks)
           /\ \A n \in Objects : <<ToInspect(n, key)>> \in Seq(Tasks)
  BY DEF Tasks, ToSpeak, ToPoint, ToCheck, ToPass, ToInspect, Task

-----------------------------------------------------------------------------
(* What a step may do. *)

\* The steps that go on, by what they do.
Drops(n, base) == Head(agenda) = ToInspect(n, base) /\ n \in inspected /\ Continue(<<>>) /\ UNCHANGED members
Walks(n, base, own) ==
    /\ Head(agenda) = ToInspect(n, base) /\ n \notin inspected
    /\ inspected' = inspected \cup {n}
    /\ \/ own = base /\ world.node[n].id = None /\ resources' = resources
       \/ /\ own = world.node[n].id /\ own # None
          /\ own \in DOMAIN resources => resources[own].value = n
          /\ resources' = Identified(n, own)
    /\ Continue(Walk(n, own))
    /\ UNCHANGED <<anchors, checked, active, references, index>>
Notes(n, base) ==
    /\ Head(agenda) = ToNote(n, base) /\ world.node[n].supported
    /\ anchors' = anchors \cup {<<base, a>> : a \in world.node[n].anchors}
    /\ references' = references \o world.node[n].refs
    /\ Continue(<<>>)
    /\ UNCHANGED <<resources, inspected, checked, active, index>>
Knows(key) == Head(agenda) = ToCheck(key) /\ key \in checked \cup {Draft} /\ Continue(<<>>) /\ UNCHANGED members
Opens(key) ==
    /\ Head(agenda) = ToCheck(key) /\ key \notin checked \cup {Draft} \cup active
    /\ active' = active \cup {key}
    /\ Load(key, <<ToSpeak(key)>>)
    /\ UNCHANGED <<anchors, inspected, checked, references, index>>
Speaks(key, dialect) ==
    /\ Head(agenda) = ToSpeak(key) /\ key \in DOMAIN resources
    /\ dialect = world.node[resources[key].value].dialect /\ dialect # None
    /\ Continue(<<ToCheck(dialect), ToPass(key)>>) /\ UNCHANGED members
Passes(key) ==
    /\ Head(agenda) = ToPass(key)
    /\ active' = active \ {key} /\ checked' = checked \cup {key}
    /\ Continue(<<>>)
    /\ UNCHANGED <<resources, anchors, inspected, references, index>>
Skips(ref) == /\ agenda = <<>> /\ index <= Len(references) /\ ref = references[index] 
              /\ ref.key \in Builtins /\ Skip
Follows(ref, then) ==
    /\ agenda = <<>> /\ index <= Len(references) /\ ref = references[index]
    /\ ref.key \notin Builtins /\ index' = index + 1
    /\ \/ ref.fragment = Whole /\ then = <<>>
       \/ ref.fragment \in Fragments /\ then = <<ToPoint(ref.key, ref.fragment)>>
    /\ Load(ref.key, then)
    /\ UNCHANGED <<anchors, inspected, checked, active, references>>
Points(key, f, tasks) ==
    /\ Head(agenda) = ToPoint(key, f) /\ key \in DOMAIN resources
    /\ f \in Objects => /\ f \in world.node[resources[key].value].parts
                        /\ f \in inspected \/ world.node[f].valid
    /\ f \notin Objects => <<resources[key].base, f>> \in anchors
    /\ \/ f \in Objects \ inspected /\ tasks = <<ToInspect(f, resources[key].base)>>
       \/ f \notin Objects \ inspected /\ tasks = <<>>
    /\ Continue(tasks) /\ UNCHANGED members
Stops == /\ UNCHANGED <<world, members, agenda>>
         /\ \/ verdict' \in {verdict, "refused"}
            \/ verdict' = "accepted" /\ agenda = <<>> /\ index > Len(references)

Moves ==
    /\ verdict = "running"
    /\ agenda # <<>> => Head(agenda) \in Due /\ Head(agenda) = agenda[1]
    /\ \/ /\ agenda # <<>>
          /\ \/ \E n \in Objects, base \in Keys :
                   Drops(n, base) \/ Notes(n, base) \/ \E own \in Keys : Walks(n, base, own)
             \/ \E key \in Keys : Knows(key) \/ Opens(key) \/ Passes(key)
             \/ \E key, dialect \in Keys : Speaks(key, dialect)
             \/ \E key \in Keys, f \in Fragments, tasks \in Seq(Tasks) : Points(key, f, tasks)
       \/ \E ref \in References : Skips(ref) \/ \E then \in Seq(Tasks) : Follows(ref, then)

\* Every step stops the registration or is one of the moves.
LEMMA StepIs ==
    ASSUME RegistrationTypes, KeyShape, [RegistrationNext]_registrationVars
    PROVE  Stops \/ Moves
  <1> DEFINE task == Head(agenda)
  <1>1. CASE Throw
    BY <1>1 DEF Throw, Stops
  <1>2. CASE UNCHANGED registrationVars
    BY <1>2 DEF registrationVars, Stops
  <1>3. CASE Finish
    BY <1>3 DEF Finish, Stops
  <1>4. ASSUME NEW do, Doing(do)
        PROVE  /\ verdict = "running" /\ agenda # <<>> /\ task \in Due /\ task = agenda[1] /\ task.do = do
               /\ do = "inspect" =>
                     task = ToInspect(task.what, task.key) /\ task.what \in Objects /\ task.key \in Keys
               /\ do = "note" =>
                     task = ToNote(task.what, task.key) /\ task.what \in Objects /\ task.key \in Keys
               /\ do = "check" => task = ToCheck(task.key) /\ task.key \in Keys
               /\ do = "speak" => task = ToSpeak(task.key) /\ task.key \in Keys
               /\ do = "pass" => task = ToPass(task.key) /\ task.key \in Keys
               /\ do = "point" =>
                     task = ToPoint(task.key, task.what) /\ task.key \in Keys /\ task.what \in Fragments
    BY <1>4, HeadIs DEF Doing
  <1>5. ASSUME Inspect, ~Throw
        PROVE  Moves
    <2> DEFINE n == task.what
               base == task.key
               id == world.node[n].id
    <2>1. /\ n \in Objects /\ base \in Keys /\ task = ToInspect(n, base)
          /\ verdict = "running" /\ agenda # <<>> /\ task \in Due /\ task = agenda[1]
      BY <1>5, <1>4 DEF Inspect
    <2>2. id \in Keys \cup {None}
      BY <2>1, ObjectIs DEF Schemas, RegistrationTypes
    <2>3. CASE n \in inspected
      <3>1. Drops(n, base)
        BY <1>5, <2>1, <2>3 DEF Inspect, Drops
      <3> QED  BY <3>1, <2>1 DEF Moves
    <2>4. CASE n \notin inspected
      <3> DEFINE own == IF id = None THEN base ELSE id
      <3>1. own \in Keys
        BY <2>1, <2>2
      <3>2. Walks(n, base, own)
        BY <1>5, <2>1, <2>4 DEF Inspect, Walks
      <3> QED  BY <3>1, <3>2, <2>1 DEF Moves
    <2> QED  BY <2>3, <2>4
  <1>6. ASSUME Note, ~Throw
        PROVE  Moves
    <2>1. /\ task.what \in Objects /\ task.key \in Keys /\ task = ToNote(task.what, task.key)
          /\ verdict = "running" /\ agenda # <<>> /\ task \in Due /\ task = agenda[1]
      BY <1>6, <1>4 DEF Note
    <2>2. Notes(task.what, task.key)
      BY <1>6, <2>1 DEF Note, Notes
    <2> QED  BY <2>1, <2>2 DEF Moves
  <1>7. ASSUME CheckDialect, ~Throw
        PROVE  Moves
    <2>1. /\ task.key \in Keys /\ task = ToCheck(task.key)
          /\ verdict = "running" /\ agenda # <<>> /\ task \in Due /\ task = agenda[1]
      BY <1>7, <1>4 DEF CheckDialect
    <2>2. Knows(task.key) \/ Opens(task.key)
      BY <1>7, <2>1 DEF CheckDialect, Knows, Opens
    <2> QED  BY <2>1, <2>2 DEF Moves
  <1>8. ASSUME Speak, ~Throw
        PROVE  Moves
    <2> DEFINE key == task.key
               dialect == world.node[resources[key].value].dialect
    <2>1. /\ key \in Keys /\ task = ToSpeak(key)
          /\ verdict = "running" /\ agenda # <<>> /\ task \in Due /\ task = agenda[1]
      BY <1>8, <1>4 DEF Speak
    <2>2. key \in DOMAIN resources
      BY <2>1 DEF KeyShape
    <2>3. dialect \in Keys \cup {None}
      BY <2>2, ObjectIs DEF Schemas, RegistrationTypes
    <2>4. dialect # None /\ Continue(<<ToCheck(dialect), ToPass(key)>>) /\ UNCHANGED members
      BY <1>8 DEF Speak
    <2>5. Speaks(key, dialect)
      BY <2>1, <2>2, <2>4 DEF Speaks
    <2>6. dialect \in Keys
      BY <2>3, <2>4
    <2> QED  BY <2>1, <2>5, <2>6 DEF Moves
  <1>9. ASSUME Pass
        PROVE  Moves
    <2>1. /\ task.key \in Keys /\ task = ToPass(task.key)
          /\ verdict = "running" /\ agenda # <<>> /\ task \in Due /\ task = agenda[1]
      BY <1>9, <1>4 DEF Pass
    <2>2. Passes(task.key)
      BY <1>9, <2>1 DEF Pass, Passes
    <2> QED  BY <2>1, <2>2 DEF Moves
  <1>10. ASSUME Follow, ~Throw
         PROVE  Moves
    <2> DEFINE ref == references[index]
               then == IF ref.fragment = Whole THEN <<>> ELSE <<ToPoint(ref.key, ref.fragment)>>
    <2>1. /\ ref \in References /\ verdict = "running" /\ agenda = <<>> /\ index <= Len(references)
      BY <1>10 DEF Follow, RegistrationTypes
    <2>2. ref.key \in Keys /\ ref.fragment \in Fragments \cup {Whole}
      BY <2>1 DEF References
    <2>3. CASE ref.key \in Builtins
      <3>1. Skips(ref)
        BY <1>10, <2>1, <2>3 DEF Follow, Skips
      <3> QED  BY <2>1, <3>1 DEF Moves
    <2>4. CASE ref.key \notin Builtins
      <3>1. then \in Seq(Tasks)
        BY <2>2, ThenIs
      <3>2. /\ index' = index + 1 /\ Load(ref.key, then)
            /\ UNCHANGED <<anchors, inspected, checked, active, references>>
        BY <1>10, <2>4 DEF Follow
      <3>3. Follows(ref, then)
        BY <2>1, <2>2, <2>4, <3>2, NamesAssumption DEF Follows
      <3> QED  BY <2>1, <3>1, <3>3 DEF Moves
    <2> QED  BY <2>3, <2>4
  <1>11. ASSUME Point, ~Throw
         PROVE  Moves
    <2> DEFINE key == task.key
               f == task.what
               tasks == IF f \in Objects \ inspected THEN <<ToInspect(f, resources[key].base)>> ELSE <<>>
    <2>1. /\ key \in Keys /\ f \in Fragments /\ task = ToPoint(key, f)
          /\ verdict = "running" /\ agenda # <<>> /\ task \in Due /\ task = agenda[1]
      BY <1>11, <1>4 DEF Point
    <2>2. key \in DOMAIN resources /\ resources[key].base \in Keys
      BY <2>1 DEF KeyShape, RegistrationTypes
    <2>3. tasks \in Seq(Tasks)
      BY <2>2, ThenIs
    <2>4. /\ Continue(tasks) /\ UNCHANGED members
          /\ IF f \in Objects THEN /\ f \in world.node[resources[key].value].parts
                                   /\ f \in inspected \/ world.node[f].valid
             ELSE <<resources[key].base, f>> \in anchors
      BY <1>11 DEF Point
    <2>5. Points(key, f, tasks)
      BY <2>1, <2>2, <2>4 DEF Points
    <2> QED  BY <2>1, <2>3, <2>5 DEF Moves
  <1> QED  BY <1>1, <1>2, <1>3, <1>5, <1>6, <1>7, <1>8, <1>9, <1>10, <1>11 DEF RegistrationNext

\* What is due after a load.
LEMMA LoadDue ==
    ASSUME RegistrationTypes, NEW key \in Keys, NEW then \in Seq(Tasks), Load(key, then)
    PROVE  LET document == world.catalog[key] IN
           /\ agenda' \in Seq(Tasks) /\ world' = world /\ verdict' = verdict
           /\ \A i \in 1 .. Len(then) : then[i] \in Due'
           /\ \A task \in Due : task \in Due' \/ (agenda # <<>> /\ task = Head(agenda))
           /\ \/ /\ key \in DOMAIN resources /\ resources' = resources
                 /\ \A task \in Due' : task \in Due \/ \E i \in 1 .. Len(then) : task = then[i]
              \/ /\ key \in DOMAIN world.catalog \ DOMAIN resources
                 /\ document \in Objects /\ world.node[document].valid
                 /\ DOMAIN resources' = DOMAIN resources \cup {key}
                 /\ \A k \in DOMAIN resources : resources'[k] = resources[k]
                 /\ resources'[key].value = document /\ resources'[key].base = key
                 /\ ToInspect(document, key) \in Due'
                 /\ \A task \in Due' : \/ task \in Due \/ task = ToInspect(document, key)
                                       \/ \E i \in 1 .. Len(then) : task = then[i]
  <1> DEFINE document == world.catalog[key]
  <1>1. PICK tasks \in Seq(Tasks) :
           /\ Continue(tasks)
           /\ \/ key \in DOMAIN resources /\ resources' = resources /\ tasks = then
              \/ /\ key \in DOMAIN world.catalog \ DOMAIN resources
                 /\ document \in Objects /\ world.node[document].valid
                 /\ resources' = Named(key, document)
                 /\ Len(tasks) = Len(then) + 1
                 /\ tasks[1] = ToInspect(document, key)
                 /\ \A i \in 1 .. Len(then) : tasks[i + 1] = then[i]
    BY LoadIs
  <1>2. /\ agenda' \in Seq(Tasks) /\ world' = world /\ verdict' = verdict
        /\ \A i \in 1 .. Len(tasks) : tasks[i] \in Due'
        /\ \A task \in Due : task \in Due' \/ (agenda # <<>> /\ task = Head(agenda))
        /\ \A task \in Due' : task \in Due \/ \E i \in 1 .. Len(tasks) : task = tasks[i]
    BY <1>1, Continues
  <1>3. CASE key \in DOMAIN resources
    BY <1>1, <1>2, <1>3
  <1>4. CASE key \notin DOMAIN resources
    <2>1. /\ DOMAIN resources' = DOMAIN resources \cup {key}
          /\ \A k \in DOMAIN resources : resources'[k] = resources[k]
          /\ resources'[key].value = document /\ resources'[key].base = key
      BY <1>1, <1>4 DEF Named
    <2>2. /\ Len(then) \in Nat /\ Len(tasks) = Len(then) + 1
          /\ tasks[1] = ToInspect(document, key)
          /\ \A i \in 1 .. Len(then) : tasks[i + 1] = then[i]
      BY <1>1, <1>4
    <2>3. /\ ToInspect(document, key) \in Due'
          /\ \A i \in 1 .. Len(then) : i + 1 \in 1 .. Len(tasks) /\ then[i] \in Due'
      BY <2>2, <1>2
    <2>4. \A i \in 1 .. Len(tasks) : i = 1 \/ (i - 1 \in 1 .. Len(then) /\ tasks[i] = then[i - 1])
      BY <2>2
    <2> QED  BY <1>1, <1>2, <1>4, <2>1, <2>2, <2>3, <2>4
  <1> QED  BY <1>3, <1>4

\* Nothing that a move finds is lost.
Grown ==
    /\ world' = world /\ verdict' = verdict /\ agenda' \in Seq(Tasks)
    /\ \A key \in DOMAIN resources :
          key \in DOMAIN resources' /\ resources'[key].value = resources[key].value
    /\ inspected \subseteq inspected' /\ anchors \subseteq anchors' /\ checked \subseteq checked'
    /\ references' \in Seq(References) /\ Len(references) <= Len(references')
    /\ \A i \in 1 .. Len(references) : references'[i] = references[i]
    /\ \A task \in Due : task \in Due' \/ (agenda # <<>> /\ task = Head(agenda))

\* No step takes a name, an anchor, a reference or an inspected object back.
LEMMA Grows ==
    ASSUME RegistrationTypes, Moves
    PROVE  Grown
  <1>1. references \in Seq(References) /\ Len(references) \in Nat
    BY DEF RegistrationTypes
  <1>2. ASSUME NEW tasks \in Seq(Tasks), Continue(tasks), UNCHANGED members
        PROVE  Grown
    BY <1>1, <1>2, Continues DEF Grown, members
  <1>3. ASSUME NEW key \in Keys, NEW then \in Seq(Tasks), Load(key, then),
               UNCHANGED <<anchors, inspected, checked, references>>
        PROVE  Grown
    <2>1. /\ agenda' \in Seq(Tasks) /\ world' = world /\ verdict' = verdict
          /\ \A task \in Due : task \in Due' \/ (agenda # <<>> /\ task = Head(agenda))
          /\ \A k \in DOMAIN resources : k \in DOMAIN resources' /\ resources'[k] = resources[k]
      BY <1>3, LoadDue
    <2> QED  BY <1>1, <1>3, <2>1 DEF Grown
  <1>4. ASSUME NEW n \in Objects, NEW base \in Keys, NEW own \in Keys, Walks(n, base, own)
        PROVE  Grown
    <2>1. \A k \in DOMAIN resources : k \in DOMAIN resources' /\ resources'[k].value = resources[k].value
      BY <1>4 DEF Walks, Identified
    <2>2. Walk(n, own) \in Seq(Tasks) /\ Continue(Walk(n, own))
      BY <1>4, WalkIs DEF Walks
    <2>3. /\ agenda' \in Seq(Tasks) /\ world' = world /\ verdict' = verdict
          /\ \A task \in Due : task \in Due' \/ (agenda # <<>> /\ task = Head(agenda))
      BY <2>2, Continues
    <2> QED  BY <1>1, <1>4, <2>1, <2>3 DEF Grown, Walks
  <1>5. ASSUME NEW n \in Objects, NEW base \in Keys, Notes(n, base)
        PROVE  Grown
    <2>1. world.node[n].refs \in Seq(References)
      BY ObjectIs DEF Schemas, RegistrationTypes
    <2> DEFINE refs == world.node[n].refs
    <2>2. references' = references \o refs /\ anchors \subseteq anchors'
          /\ UNCHANGED <<resources, inspected, checked>> /\ Continue(<<>>)
      BY <1>5 DEF Notes
    <2>3. refs \in Seq(References)
      BY <2>1
    <2> HIDE DEF refs
    <2>4. references' \in Seq(References) /\ Len(references) <= Len(references')
          /\ \A i \in 1 .. Len(references) : references'[i] = references[i]
      BY <1>1, <2>2, <2>3
    <2>5. <<>> \in Seq(Tasks)
      OBVIOUS
    <2>6. /\ agenda' \in Seq(Tasks) /\ world' = world /\ verdict' = verdict
          /\ \A task \in Due : task \in Due' \/ (agenda # <<>> /\ task = Head(agenda))
      BY <2>2, <2>5, Continues
    <2> QED  BY <2>2, <2>4, <2>6 DEF Grown
  <1>6. ASSUME NEW key \in Keys, Passes(key)
        PROVE  Grown
    <2>1. <<>> \in Seq(Tasks) /\ Continue(<<>>)
      BY <1>6 DEF Passes
    <2>2. /\ agenda' \in Seq(Tasks) /\ world' = world /\ verdict' = verdict
          /\ \A task \in Due : task \in Due' \/ (agenda # <<>> /\ task = Head(agenda))
      BY <2>1, Continues
    <2> QED  BY <1>1, <1>6, <2>2 DEF Grown, Passes
  <1>7. ASSUME NEW ref \in References, Skips(ref)
        PROVE  Grown
    BY <1>1, <1>7 DEF Skips, Skip, Grown, Due, RegistrationTypes
  <1>8. \A n \in Objects, base \in Keys : Drops(n, base) => Grown
    BY <1>2, ThenIs, NamesAssumption DEF Drops
  <1>9. \A key \in Keys : Knows(key) \/ Opens(key) => Grown
    BY <1>2, <1>3, ThenIs DEF Knows, Opens
  <1>10. \A key, dialect \in Keys : Speaks(key, dialect) => Grown
    BY <1>2, ThenIs DEF Speaks
  <1>11. \A key \in Keys, f \in Fragments, tasks \in Seq(Tasks) : Points(key, f, tasks) => Grown
    BY <1>2 DEF Points
  <1>12. \A ref \in References, then \in Seq(Tasks) : Follows(ref, then) => Grown
    BY <1>3 DEF Follows, References
  <1> QED  BY <1>4, <1>5, <1>6, <1>7, <1>8, <1>9, <1>10, <1>11, <1>12 DEF Moves


-----------------------------------------------------------------------------
(* Each conjunct is preserved. *)

\* Types: every task is about something of its kind.
LEMMA TypesStep ==
    ASSUME RegistrationTypes, KeyShape, [RegistrationNext]_registrationVars
    PROVE  RegistrationTypes'
  <1> DEFINE Kept == DOMAIN resources' \subseteq Keys
                     /\ \A key \in DOMAIN resources' :
                           resources'[key].value \in Objects /\ resources'[key].base \in Keys
             Rests == /\ anchors' \subseteq Keys \X Fragments /\ inspected' \subseteq Objects
                      /\ checked' \subseteq Keys /\ active' \subseteq Keys /\ index' \in Nat \ {0}
  <1>1. CASE Stops
    BY <1>1 DEF Stops, RegistrationTypes, members
  <1>2. CASE Moves
    <2>1. Grown
      BY <1>2, Grows
    <2>2. ASSUME UNCHANGED members
          PROVE  Kept /\ Rests
      BY <2>2 DEF members, RegistrationTypes
    <2>3. ASSUME NEW key \in Keys, NEW then \in Seq(Tasks), Load(key, then)
          PROVE  Kept
      <3>1. \/ resources' = resources
            \/ /\ DOMAIN resources' = DOMAIN resources \cup {key}
               /\ \A k \in DOMAIN resources : resources'[k] = resources[k]
               /\ resources'[key].value \in Objects /\ resources'[key].base = key
        BY <2>3, LoadDue
      <3> QED  BY <3>1 DEF RegistrationTypes
    <2>4. ASSUME NEW n \in Objects, NEW base \in Keys, NEW own \in Keys, Walks(n, base, own)
          PROVE  Kept /\ Rests
      <3>1. Rests
        BY <2>4 DEF Walks, RegistrationTypes
      <3>2. CASE resources' = resources
        BY <3>1, <3>2 DEF RegistrationTypes
      <3>3. CASE resources' = Identified(n, own)
        BY <3>1, <3>3 DEF RegistrationTypes, Identified
      <3> QED  BY <2>4, <3>2, <3>3 DEF Walks
    <2>5. ASSUME NEW n \in Objects, NEW base \in Keys, Notes(n, base)
          PROVE  Kept /\ Rests
      <3>1. world.node[n].anchors \subseteq Fragments
        BY ObjectIs DEF Schemas, RegistrationTypes
      <3> QED  BY <2>5, <3>1 DEF Notes, RegistrationTypes
    <2>6. ASSUME NEW key \in Keys, Opens(key)
          PROVE  Kept /\ Rests
      <3>1. <<ToSpeak(key)>> \in Seq(Tasks)
        BY ThenIs
      <3>2. Kept
        BY <2>6, <3>1, <2>3 DEF Opens
      <3> QED  BY <2>6, <3>2 DEF Opens, RegistrationTypes
    <2>7. ASSUME NEW key \in Keys, Passes(key)
          PROVE  Kept /\ Rests
      BY <2>7 DEF Passes, RegistrationTypes
    <2>8. ASSUME NEW ref \in References, Skips(ref)
          PROVE  Kept /\ Rests
      BY <2>8 DEF Skips, Skip, RegistrationTypes
    <2>9. ASSUME NEW ref \in References, NEW then \in Seq(Tasks), Follows(ref, then)
          PROVE  Kept /\ Rests
      <3>1. Kept
        BY <2>9, <2>3 DEF Follows, References
      <3> QED  BY <2>9, <3>1 DEF Follows, RegistrationTypes
    <2>10. Kept /\ Rests
      BY <1>2, <2>2, <2>4, <2>5, <2>6, <2>7, <2>8, <2>9 DEF Moves, Drops, Knows, Speaks, Points
    <2> QED  BY <2>1, <2>10 DEF Grown, RegistrationTypes
  <1> QED  BY <1>1, <1>2, StepIs


\* The first task says what move there is.
LEMMA MoveOf ==
    ASSUME RegistrationTypes, Moves, agenda # <<>>
    PROVE  /\ \A n \in Objects, base \in Keys : Head(agenda) = ToInspect(n, base) =>
                 Drops(n, base) \/ \E own \in Keys : Walks(n, base, own)
           /\ \A n \in Objects, base \in Keys : Head(agenda) = ToNote(n, base) => Notes(n, base)
           /\ \A key \in Keys : Head(agenda) = ToCheck(key) => Knows(key) \/ Opens(key)
           /\ \A key \in Keys : Head(agenda) = ToSpeak(key) => \E d \in Keys : Speaks(key, d)
           /\ \A key \in Keys : Head(agenda) = ToPass(key) => Passes(key)
           /\ \A key \in Keys, f \in Fragments : Head(agenda) = ToPoint(key, f) =>
                 \E tasks \in Seq(Tasks) : Points(key, f, tasks)
  <1> DEFINE do == Head(agenda).do
  <1>1. \A n \in Objects, base \in Keys :
           /\ Drops(n, base) => Head(agenda) = ToInspect(n, base) /\ do = "inspect"
           /\ Notes(n, base) => Head(agenda) = ToNote(n, base) /\ do = "note"
           /\ \A own \in Keys : Walks(n, base, own) => Head(agenda) = ToInspect(n, base) /\ do = "inspect"
    BY TasksApart DEF Drops, Notes, Walks
  <1>2. \A key \in Keys :
           /\ Knows(key) \/ Opens(key) => Head(agenda) = ToCheck(key) /\ do = "check"
           /\ Passes(key) => Head(agenda) = ToPass(key) /\ do = "pass"
           /\ \A d \in Keys : Speaks(key, d) => Head(agenda) = ToSpeak(key) /\ do = "speak"
           /\ \A f \in Fragments, tasks \in Seq(Tasks) :
                 Points(key, f, tasks) => Head(agenda) = ToPoint(key, f) /\ do = "point"
    BY TasksApart DEF Knows, Opens, Passes, Speaks, Points
  <1>3. \A ref \in References : ~Skips(ref) /\ \A then \in Seq(Tasks) : ~Follows(ref, then)
    BY DEF Skips, Follows
  <1>4. \/ \E n \in Objects, base \in Keys :
              Drops(n, base) \/ Notes(n, base) \/ \E own \in Keys : Walks(n, base, own)
        \/ \E key \in Keys : Knows(key) \/ Opens(key) \/ Passes(key)
        \/ \E key, dialect \in Keys : Speaks(key, dialect)
        \/ \E key \in Keys, f \in Fragments, tasks \in Seq(Tasks) : Points(key, f, tasks)
    BY <1>3 DEF Moves
  <1>5. /\ \A n, base : Head(agenda) = ToInspect(n, base) => do = "inspect"
        /\ \A n, base : Head(agenda) = ToNote(n, base) => do = "note"
        /\ \A key : Head(agenda) = ToCheck(key) => do = "check"
        /\ \A key : Head(agenda) = ToSpeak(key) => do = "speak"
        /\ \A key : Head(agenda) = ToPass(key) => do = "pass"
        /\ \A key, f : Head(agenda) = ToPoint(key, f) => do = "point"
    BY TasksApart
  <1> HIDE DEF do
  <1>6. ASSUME NEW n \in Objects, NEW base \in Keys, Head(agenda) = ToInspect(n, base)
        PROVE  Drops(n, base) \/ \E own \in Keys : Walks(n, base, own)
    BY <1>1, <1>2, <1>4, <1>5, <1>6, TasksApart
  <1>7. ASSUME NEW n \in Objects, NEW base \in Keys, Head(agenda) = ToNote(n, base)
        PROVE  Notes(n, base)
    BY <1>1, <1>2, <1>4, <1>5, <1>7, TasksApart
  <1>8. ASSUME NEW key \in Keys, Head(agenda) = ToCheck(key)
        PROVE  Knows(key) \/ Opens(key)
    BY <1>1, <1>2, <1>4, <1>5, <1>8, TasksApart
  <1>9. ASSUME NEW key \in Keys, Head(agenda) = ToSpeak(key)
        PROVE  \E d \in Keys : Speaks(key, d)
    BY <1>1, <1>2, <1>4, <1>5, <1>9, TasksApart
  <1>10. ASSUME NEW key \in Keys, Head(agenda) = ToPass(key)
         PROVE  Passes(key)
    BY <1>1, <1>2, <1>4, <1>5, <1>10, TasksApart
  <1>11. ASSUME NEW key \in Keys, NEW f \in Fragments, Head(agenda) = ToPoint(key, f)
         PROVE  \E tasks \in Seq(Tasks) : Points(key, f, tasks)
    BY <1>1, <1>2, <1>4, <1>5, <1>11, TasksApart
  <1> QED  BY <1>6, <1>7, <1>8, <1>9, <1>10, <1>11

\* An object that has been looked into stays so, or is looked into now.
LEMMA InspectKept ==
    ASSUME RegistrationTypes, Moves, NEW n \in Objects,
           n \in inspected \/ \E base \in Keys : ToInspect(n, base) \in Due
    PROVE  n \in inspected' \/ \E base \in Keys : ToInspect(n, base) \in Due'
  <1>1. Grown
    BY Grows
  <1>2. CASE n \in inspected
    BY <1>1, <1>2 DEF Grown
  <1>3. ASSUME NEW base \in Keys, ToInspect(n, base) \in Due
        PROVE  n \in inspected' \/ ToInspect(n, base) \in Due'
    <2>1. ToInspect(n, base) \in Due' \/ (agenda # <<>> /\ ToInspect(n, base) = Head(agenda))
      BY <1>1, <1>3 DEF Grown
    <2>2. ASSUME agenda # <<>>, ToInspect(n, base) = Head(agenda)
          PROVE  n \in inspected'
      <3>1. Drops(n, base) \/ \E own \in Keys : Walks(n, base, own)
        BY <2>2, MoveOf
      <3> QED  BY <3>1 DEF Drops, Walks, members
    <2> QED  BY <2>1, <2>2
  <1> QED  BY <1>2, <1>3

\* A dialect that has passed, or is on its way, stays so.
LEMMA DialectKept ==
    ASSUME RegistrationTypes, Moves, NEW key \in Keys, DialectDue(key)
    PROVE  DialectDue(key)'
  <1>1. Grown
    BY Grows
  <1>2. CASE key \in checked \cup {Draft}
    BY <1>1, <1>2 DEF Grown, DialectDue
  <1>3. ASSUME NEW task \in {ToCheck(key), ToSpeak(key), ToPass(key)}, task \in Due
        PROVE  DialectDue(key)'
    <2>1. task \in Due' \/ (agenda # <<>> /\ task = Head(agenda))
      BY <1>1, <1>3 DEF Grown
    <2>2. CASE task \in Due'
      BY <2>2 DEF DialectDue
    <2>3. CASE agenda # <<>> /\ Head(agenda) = ToCheck(key)
      <3>1. Knows(key) \/ Opens(key)
        BY <2>3, MoveOf
      <3>2. CASE Knows(key)
        BY <3>2, <1>1 DEF Knows, Grown, DialectDue
      <3>3. CASE Opens(key)
        <4> DEFINE then == <<ToSpeak(key)>>
        <4>1. then \in Seq(Tasks) /\ Load(key, then)
          BY <3>3, ThenIs DEF Opens
        <4>2. Len(then) = 1 /\ then[1] = ToSpeak(key)
          OBVIOUS
        <4> HIDE DEF then
        <4>3. \A i \in 1 .. Len(then) : then[i] \in Due'
          BY <4>1, LoadDue
        <4> QED  BY <4>2, <4>3 DEF DialectDue
      <3> QED  BY <3>1, <3>2, <3>3
    <2>4. CASE agenda # <<>> /\ Head(agenda) = ToSpeak(key)
      <3>1. PICK d \in Keys : Speaks(key, d)
        BY <2>4, MoveOf
      <3> DEFINE tasks == <<ToCheck(d), ToPass(key)>>
      <3>2. tasks \in Seq(Tasks) /\ Continue(tasks)
        BY <3>1, ThenIs DEF Speaks
      <3>3. Len(tasks) = 2 /\ tasks[2] = ToPass(key)
        OBVIOUS
      <3> HIDE DEF tasks
      <3>4. tasks[2] \in Due'
        BY <3>2, <3>3, Continues
      <3> QED  BY <3>3, <3>4 DEF DialectDue
    <2>5. CASE agenda # <<>> /\ Head(agenda) = ToPass(key)
      <3>1. Passes(key)
        BY <2>5, MoveOf
      <3> QED  BY <3>1 DEF Passes, DialectDue
    <2> QED  BY <2>1, <2>2, <2>3, <2>4, <2>5
  <1> QED  BY <1>2, <1>3 DEF DialectDue

\* A place in a resource stays one.
LEMMA BaseKept ==
    ASSUME Grown, NEW n, NEW base, Base(n, base)
    PROVE  Base(n, base)'
  BY DEF Grown, Base

\* What was noted, and what is noted now.
LEMMA NoteKept ==
    ASSUME RegistrationTypes, PlaceShape, Moves, NEW n \in Objects,
           Noted(n) \/ \E base \in Keys : ToNote(n, base) \in Due
    PROVE  Noted(n)' \/ \E base \in Keys : ToNote(n, base) \in Due'
  <1>1. Grown
    BY Grows
  <1>2. references \in Seq(References) /\ references' \in Seq(References)
        /\ Len(references) \in Nat /\ Len(references') \in Nat
    BY <1>1 DEF RegistrationTypes, Grown
  <1>3. world.node[n].refs \in Seq(References)
    BY ObjectIs DEF Schemas, RegistrationTypes
  <1>4. CASE Noted(n)
    <2>1. world' = world /\ world'.node[n].supported
      BY <1>1, <1>4 DEF Grown, Noted
    <2>2. \A i \in 1 .. Len(world.node[n].refs) :
             \E j \in 1 .. Len(references') : references'[j] = world.node[n].refs[i]
      BY <1>1, <1>2, <1>4 DEF Grown, Noted
    <2>3. \A a \in world.node[n].anchors : \E base \in Keys : <<base, a>> \in anchors' /\ Base(n, base)'
      BY <1>1, <1>4, BaseKept DEF Grown, Noted
    <2> QED  BY <2>1, <2>2, <2>3 DEF Noted
  <1>5. ASSUME NEW base \in Keys, ToNote(n, base) \in Due
        PROVE  Noted(n)' \/ ToNote(n, base) \in Due'
    <2>1. ToNote(n, base) \in Due' \/ (agenda # <<>> /\ ToNote(n, base) = Head(agenda))
      BY <1>1, <1>5 DEF Grown
    <2>2. ASSUME agenda # <<>>, ToNote(n, base) = Head(agenda)
          PROVE  Noted(n)'
      <3>1. Notes(n, base)
        BY <2>2, MoveOf
      <3>2. world' = world /\ world.node[n].supported
        BY <1>1, <3>1 DEF Notes, Grown
      <3>3. Base(n, base)'
        BY <1>1, <1>5, BaseKept DEF PlaceShape
      <3>4. \A a \in world.node[n].anchors : <<base, a>> \in anchors'
        BY <3>1 DEF Notes
      <3> DEFINE refs == world.node[n].refs
      <3>5. references' = references \o refs /\ refs \in Seq(References)
        BY <3>1, <1>3 DEF Notes
      <3> HIDE DEF refs
      <3>6. \A i \in 1 .. Len(refs) : Len(references) + i \in 1 .. Len(references')
                                      /\ references'[Len(references) + i] = refs[i]
        BY <3>5, <1>2
      <3>7. \A i \in 1 .. Len(refs) : \E j \in 1 .. Len(references') : references'[j] = refs[i]
        BY <3>6
      <3> QED  BY <3>2, <3>3, <3>4, <3>7 DEF Noted, refs
    <2> QED  BY <2>1, <2>2
  <1> QED  BY <1>4, <1>5


\* Where a fragment leads, once it has been found or before.
LEMMA PointKept ==
    ASSUME RegistrationTypes, AnchorShape, ResourceShape, Moves,
           NEW key \in Keys, NEW f \in Fragments, key \in DOMAIN resources, Pointed(key, f)
    PROVE  Pointed(key, f)'
  <1>1. Grown
    BY Grows
  <1>2. world' = world /\ key \in DOMAIN resources' /\ resources'[key].value = resources[key].value
    BY <1>1 DEF Grown
  <1> DEFINE n == resources[key].value
  <1>3. n \in Objects /\ world.node[n].parts \subseteq Objects
    BY ObjectIs DEF RegistrationTypes
  <1>4. CASE /\ f \in world.node[n].parts
             /\ f \in inspected \/ \E base \in Keys : ToInspect(f, base) \in Due
    <2>1. f \in inspected' \/ \E base \in Keys : ToInspect(f, base) \in Due'
      BY <1>3, <1>4, InspectKept
    <2> QED  BY <1>2, <1>4, <2>1 DEF Pointed
  <1>5. CASE f \notin Objects /\ Anchored(world, n, f)
    BY <1>2, <1>5 DEF Pointed, Anchored
  <1>6. CASE ToPoint(key, f) \in Due
    <2>1. ToPoint(key, f) \in Due' \/ (agenda # <<>> /\ ToPoint(key, f) = Head(agenda))
      BY <1>1, <1>6 DEF Grown
    <2>2. CASE ToPoint(key, f) \in Due'
      BY <2>2 DEF Pointed
    <2>3. CASE agenda # <<>> /\ Head(agenda) = ToPoint(key, f)
      <3>1. PICK tasks \in Seq(Tasks) : Points(key, f, tasks)
        BY <2>3, MoveOf
      <3>2. CASE f \in Objects \ inspected
        <4> DEFINE task == ToInspect(f, resources[key].base)
        <4>1. tasks = <<task>> /\ Continue(tasks) /\ f \in world.node[n].parts
          BY <3>1, <3>2 DEF Points
        <4>2. \A i \in 1 .. Len(tasks) : tasks[i] \in Due'
          BY <4>1, Continues
        <4>3. Len(tasks) = 1 /\ tasks[1] = task
          BY <4>1
        <4>4. task \in Due' /\ resources[key].base \in Keys
          BY <4>2, <4>3 DEF RegistrationTypes
        <4> QED  BY <1>2, <4>1, <4>4 DEF Pointed
      <3>3. CASE f \in inspected
        <4>1. f \in world.node[n].parts /\ f \in inspected'
          BY <3>1, <3>3, <1>1 DEF Points, Grown, RegistrationTypes
        <4> QED  BY <1>2, <4>1 DEF Pointed
      <3>4. CASE f \notin Objects
        <4>1. <<resources[key].base, f>> \in anchors
          BY <3>1, <3>4 DEF Points
        <4>2. Anchored(world, resources[resources[key].base].value, f)
          BY <4>1 DEF AnchorShape
        <4>3. Anchored(world, n, f)
          BY <4>2 DEF ResourceShape
        <4> QED  BY <1>2, <3>4, <4>3 DEF Pointed, Anchored
      <3> QED  BY <3>2, <3>3, <3>4
    <2> QED  BY <2>1, <2>2, <2>3
  <1> QED  BY <1>4, <1>5, <1>6 DEF Pointed

\* What a step leaves as it was.
LEMMA StopsStep ==
    ASSUME Stops
    PROVE  /\ world' = world /\ resources' = resources /\ anchors' = anchors /\ inspected' = inspected
           /\ checked' = checked /\ active' = active /\ references' = references /\ index' = index
           /\ agenda' = agenda /\ Due' = Due /\ Values' = Values
           /\ verdict' = "running" => verdict = "running"
           /\ verdict' = "accepted" =>
                 verdict = "accepted" \/ (agenda = <<>> /\ index > Len(references))
  BY DEF Stops, members, Due, Values

\* The resources after a move: those there were, and one that may be new.
LEMMA ResourcesAre ==
    ASSUME RegistrationTypes, ResourceShape, Moves, NEW key \in DOMAIN resources'
    PROVE  /\ key \in DOMAIN resources =>
                 \/ resources'[key].base = resources[key].base
                 \/ /\ resources'[key].base \in DOMAIN resources'
                    /\ resources'[resources'[key].base].value = resources'[key].value
           /\ key \notin DOMAIN resources =>
                 /\ Means(world, key, resources'[key].value)
                 /\ resources'[key].base = key
                 /\ \/ resources'[key].value \in inspected'
                    \/ ToInspect(resources'[key].value, key) \in Due'
  <1> DEFINE Goal == /\ key \in DOMAIN resources =>
                           \/ resources'[key].base = resources[key].base
                           \/ /\ resources'[key].base \in DOMAIN resources'
                              /\ resources'[resources'[key].base].value = resources'[key].value
                     /\ key \notin DOMAIN resources =>
                           /\ Means(world, key, resources'[key].value)
                           /\ resources'[key].base = key
                           /\ \/ resources'[key].value \in inspected'
                              \/ ToInspect(resources'[key].value, key) \in Due'
  <1>1. CASE resources' = resources
    BY <1>1
  <1>2. ASSUME NEW k \in Keys, NEW then \in Seq(Tasks), Load(k, then)
        PROVE  Goal
    <2> DEFINE document == world.catalog[k]
    <2>1. \/ resources' = resources
          \/ /\ k \in DOMAIN world.catalog \ DOMAIN resources
             /\ DOMAIN resources' = DOMAIN resources \cup {k}
             /\ \A l \in DOMAIN resources : resources'[l] = resources[l]
             /\ resources'[k].value = document /\ resources'[k].base = k
             /\ ToInspect(document, k) \in Due'
      BY <1>2, LoadDue
    <2> QED  BY <1>1, <2>1 DEF Means
  <1>3. ASSUME NEW n \in Objects, NEW base \in Keys, NEW own \in Keys, Walks(n, base, own)
        PROVE  Goal
    <2>1. CASE resources' = resources
      BY <2>1, <1>1
    <2>2. CASE resources' # resources
      <3>1. /\ own = world.node[n].id /\ resources' = Identified(n, own) /\ inspected' = inspected \cup {n}
            /\ own \in DOMAIN resources => resources[own].value = n
        BY <1>3, <2>2 DEF Walks
      <3>2. Means(world, own, n)
        BY <3>1 DEF Means
      <3> QED  BY <3>1, <3>2 DEF Identified
    <2> QED  BY <2>1, <2>2
  <1>4. \A k \in Keys : Opens(k) => Goal
    BY <1>2, ThenIs DEF Opens
  <1>5. \A ref \in References, then \in Seq(Tasks) : Follows(ref, then) => Goal
    BY <1>2 DEF Follows, References
  <1>6. UNCHANGED members => Goal
    BY <1>1 DEF members
  <1>7. /\ \A n \in Objects, base \in Keys : Notes(n, base) => Goal
        /\ \A k \in Keys : Passes(k) => Goal
        /\ \A ref \in References : Skips(ref) => Goal
    BY <1>1 DEF Notes, Passes, Skips, Skip
  <1> QED  BY <1>3, <1>4, <1>5, <1>6, <1>7 DEF Moves, Drops, Knows, Speaks, Points

\* Resources: by the names that each move adds.
LEMMA ResourceStep ==
    ASSUME RegistrationTypes, RegistrationTypes', KeyShape, ResourceShape,
           [RegistrationNext]_registrationVars
    PROVE  ResourceShape'
  <1>1. CASE Stops
    BY <1>1, StopsStep DEF ResourceShape
  <1>2. CASE Moves
    <2>1. Grown
      BY <1>2, Grows
    <2>2. Default \in DOMAIN resources' /\ resources'[Default].value = world'.root
      BY <2>1 DEF Grown, ResourceShape
    <2>3. ASSUME NEW key \in DOMAIN resources'
          PROVE  LET n == resources'[key].value IN
                 /\ Means(world', key, n)
                 /\ resources'[key].base \in DOMAIN resources'
                 /\ resources'[resources'[key].base].value = n
                 /\ n \in inspected' \/ \E base \in Keys : ToInspect(n, base) \in Due'
      <3>1. CASE key \in DOMAIN resources
        <4>1. resources'[key].value = resources[key].value /\ resources[key].value \in Objects
              /\ world' = world
          BY <2>1, <3>1 DEF Grown, RegistrationTypes
        <4>2. Means(world, key, resources[key].value)
          BY <3>1 DEF ResourceShape
        <4>3. resources[key].value \in inspected
              \/ \E base \in Keys : ToInspect(resources[key].value, base) \in Due
          BY <3>1 DEF ResourceShape
        <4>4. resources[key].value \in inspected'
              \/ \E base \in Keys : ToInspect(resources[key].value, base) \in Due'
          BY <4>1, <4>3, <1>2, InspectKept
        <4>5. resources[key].base \in DOMAIN resources
              /\ resources[resources[key].base].value = resources[key].value
          BY <3>1 DEF ResourceShape
        <4>6. resources[key].base \in DOMAIN resources'
              /\ resources'[resources[key].base].value = resources[key].value
          BY <4>5, <2>1 DEF Grown
        <4>7. \/ resources'[key].base = resources[key].base
              \/ /\ resources'[key].base \in DOMAIN resources'
                 /\ resources'[resources'[key].base].value = resources'[key].value
          BY <3>1, <1>2, ResourcesAre
        <4> QED  BY <4>1, <4>2, <4>4, <4>6, <4>7
      <3>2. CASE key \notin DOMAIN resources
        <4>1. /\ Means(world, key, resources'[key].value)
              /\ resources'[key].base = key
              /\ \/ resources'[key].value \in inspected'
                 \/ ToInspect(resources'[key].value, key) \in Due'
          BY <3>2, <1>2, ResourcesAre
        <4>2. world' = world /\ key \in Keys
          BY <2>1 DEF Grown, RegistrationTypes
        <4> QED  BY <4>1, <4>2
      <3> QED  BY <3>1, <3>2
    <2> QED  BY <2>2, <2>3 DEF ResourceShape
  <1> QED  BY <1>1, <1>2, StepIs


\* What a walk needs: the object has a place in the resource it is walked in.
LEMMA WalksIs ==
    ASSUME RegistrationTypes, PlaceShape, Moves,
           NEW n \in Objects, NEW base \in Keys, NEW own \in Keys, Walks(n, base, own), agenda # <<>>
    PROVE  /\ world.node[n].valid /\ Base(n, own)'
           /\ \A m \in world.node[n].parts : Base(m, own)'
           /\ Walk(n, own) \in Seq(Tasks)
           /\ \A i \in 1 .. Len(Walk(n, own)) : Walk(n, own)[i] \in Due'
           /\ \A task \in Due' : task \in Due \/ \E i \in 1 .. Len(Walk(n, own)) : task = Walk(n, own)[i]
  <1>1. Grown
    BY Grows
  <1>2. ToInspect(n, base) \in Due /\ verdict = "running"
    BY DEF Moves, Walks
  <1>3. world.node[n].valid /\ Base(n, base)
    BY <1>2 DEF PlaceShape
  <1>4. n \in world.node[n].parts /\ world' = world
    BY <1>1, ObjectIs DEF RegistrationTypes, Grown
  <1>5. own \in DOMAIN resources' /\ resources'[own].value \in Objects
        /\ n \in world.node[resources'[own].value].parts
    <2>1. CASE own = base
      <3>1. own \in DOMAIN resources' /\ resources'[own].value = resources[own].value
            /\ n \in world.node[resources[own].value].parts
        BY <1>1, <1>3, <2>1 DEF Grown, Base
      <3> QED  BY <3>1, <1>3, <2>1 DEF RegistrationTypes, Base
    <2>2. CASE own # base
      BY <2>2, <1>4 DEF Walks, Identified
    <2> QED  BY <2>1, <2>2
  <1>6. \A m \in world.node[n].parts : m \in world.node[resources'[own].value].parts
    BY <1>5, ObjectIs DEF RegistrationTypes
  <1>7. Walk(n, own) \in Seq(Tasks) /\ Continue(Walk(n, own))
    BY WalkIs DEF Walks
  <1> QED  BY <1>3, <1>4, <1>5, <1>6, <1>7, Continues DEF Base

\* What a move adds to the tasks.
LEMMA TasksAre ==
    ASSUME RegistrationTypes, ResourceShape, PlaceShape, KeyShape, Moves, NEW task \in Due', task \notin Due
    PROVE  \/ \E n \in Objects, base \in Keys :
                 task = ToInspect(n, base) /\ Base(n, base)' /\ world.node[n].valid
           \/ \E n \in Objects, base \in Keys :
                 task = ToNote(n, base) /\ Base(n, base)' /\ n \in inspected'
           \/ \E key \in Keys : task = ToCheck(key)
           \/ \E key \in Keys : task = ToSpeak(key) /\ key \in DOMAIN resources' /\ key # Draft
           \/ \E key \in Keys : /\ task = ToPass(key) /\ key \in DOMAIN resources /\ key # Draft
                                /\ world.node[resources[key].value].dialect # None
           \/ \E key \in Keys, f \in Fragments : task = ToPoint(key, f) /\ key \in DOMAIN resources'
  <1> DEFINE Goal == 
           \/ \E n \in Objects, base \in Keys :
                 task = ToInspect(n, base) /\ Base(n, base)' /\ world.node[n].valid
           \/ \E n \in Objects, base \in Keys :
                 task = ToNote(n, base) /\ Base(n, base)' /\ n \in inspected'
           \/ \E key \in Keys : task = ToCheck(key)
           \/ \E key \in Keys : task = ToSpeak(key) /\ key \in DOMAIN resources' /\ key # Draft
           \/ \E key \in Keys : /\ task = ToPass(key) /\ key \in DOMAIN resources /\ key # Draft
                                /\ world.node[resources[key].value].dialect # None
           \/ \E key \in Keys, f \in Fragments : task = ToPoint(key, f) /\ key \in DOMAIN resources'
  <1>1. Grown
    BY Grows
  <1>2. ~Continue(<<>>) /\ agenda' # agenda
    <2>1. CASE Continue(<<>>)
      <3>1. <<>> \in Seq(Tasks)
        OBVIOUS
      <3>2. task \in Due \/ \E i \in 1 .. Len(<<>>) : task = <<>>[i]
        BY <2>1, <3>1, Continues
      <3> QED  BY <3>2
    <2>2. agenda' # agenda
      BY DEF Due
    <2> QED  BY <2>1, <2>2
  <1>3. ASSUME NEW n \in Objects, NEW base \in Keys, NEW own \in Keys, Walks(n, base, own), agenda # <<>>
        PROVE  Goal
    <2> DEFINE tasks == Walk(n, own)
    <2>1. /\ world.node[n].valid /\ Base(n, own)'
          /\ \A m \in world.node[n].parts : Base(m, own)'
          /\ \E i \in 1 .. Len(tasks) : task = tasks[i]
      BY <1>3, WalksIs
    <2>2. n \in inspected'
      BY <1>3 DEF Walks
    <2>3. \A c \in ToSet(world.node[n].children) :
             c \in Objects /\ c \in world.node[n].parts /\ world.node[c].valid
      <3>1. world \in Worlds
        BY DEF RegistrationTypes
      <3>2. \A c \in ToSet(world.node[n].children) : c \in Objects /\ c \in world.node[n].parts
        BY <3>1, ObjectIs
      <3>3. \A c \in ToSet(world.node[n].children) : world.node[c].valid
        BY <2>1, <3>1, ObjectIs
      <3> QED  BY <3>2, <3>3
    <2>4. world.node[n].dialect # None => world.node[n].dialect \in Keys
      BY ObjectIs DEF RegistrationTypes, Schemas
    <2>5. \/ world.node[n].dialect # None /\ task = ToCheck(world.node[n].dialect)
          \/ task = ToNote(n, own)
          \/ \E c \in ToSet(world.node[n].children) : task = ToInspect(c, own)
      BY <2>1, WalkIs
    <2> QED  BY <2>1, <2>2, <2>3, <2>4, <2>5
  <1>4. ASSUME NEW key \in Keys, NEW then \in Seq(Tasks), Load(key, then), key # Draft \/ then = <<>>,
               \A i \in 1 .. Len(then) : \/ then[i] = ToSpeak(key) /\ key # Draft
                                         \/ \E f \in Fragments : then[i] = ToPoint(key, f)
        PROVE  Goal
    <2> DEFINE document == world.catalog[key]
    <2>1. \/ /\ key \in DOMAIN resources /\ resources' = resources
             /\ \E i \in 1 .. Len(then) : task = then[i]
          \/ /\ document \in Objects /\ world.node[document].valid
             /\ DOMAIN resources' = DOMAIN resources \cup {key}
             /\ resources'[key].value = document
             /\ task = ToInspect(document, key) \/ \E i \in 1 .. Len(then) : task = then[i]
      <3>1. \/ /\ key \in DOMAIN resources /\ resources' = resources
               /\ \A t \in Due' : t \in Due \/ \E i \in 1 .. Len(then) : t = then[i]
            \/ /\ key \in DOMAIN world.catalog \ DOMAIN resources
               /\ document \in Objects /\ world.node[document].valid
               /\ DOMAIN resources' = DOMAIN resources \cup {key}
               /\ \A k \in DOMAIN resources : resources'[k] = resources[k]
               /\ resources'[key].value = document /\ resources'[key].base = key
               /\ ToInspect(document, key) \in Due'
               /\ \A t \in Due' : \/ t \in Due \/ t = ToInspect(document, key)
                                  \/ \E i \in 1 .. Len(then) : t = then[i]
        <4>1. Load(key, then)
          BY <1>4
        <4> HIDE DEF document
        <4> QED  BY <4>1, LoadDue, ZenonT(30) DEF document
      <3> QED  BY <3>1
    <2>2. key \in DOMAIN resources'
      BY <2>1
    <2>3. CASE \E i \in 1 .. Len(then) : task = then[i]
      BY <2>2, <2>3, <1>4
    <2>4. CASE ~\E i \in 1 .. Len(then) : task = then[i]
      <3>1. document \in Objects /\ world.node[document].valid /\ resources'[key].value = document
            /\ task = ToInspect(document, key)
        BY <2>1, <2>4
      <3>2. PICK n \in Objects : n = document
        BY <3>1
      <3>3. Base(n, key)'
        <4>1. world' = world /\ world \in Worlds
          BY <1>1 DEF Grown, RegistrationTypes
        <4>2. n \in world.node[n].parts
          BY <4>1, ObjectIs
        <4>3. resources'[key].value = n
          BY <3>1, <3>2
        <4> QED  BY <2>2, <4>1, <4>2, <4>3 DEF Base
      <3> QED  BY <3>1, <3>2, <3>3
    <2> QED  BY <2>3, <2>4
  <1>5. ASSUME NEW key \in Keys, Opens(key)
        PROVE  Goal
    <2> DEFINE then == <<ToSpeak(key)>>
    <2>1. then \in Seq(Tasks) /\ Load(key, then) /\ key # Draft
      BY <1>5, ThenIs DEF Opens
    <2>2. \A i \in 1 .. Len(then) : then[i] = ToSpeak(key)
      OBVIOUS
    <2> HIDE DEF then
    <2> QED  BY <2>1, <2>2, <1>4
  <1>6. ASSUME NEW ref \in References, NEW then \in Seq(Tasks), Follows(ref, then)
        PROVE  Goal
    <2>1. /\ ref.key \in Keys /\ Load(ref.key, then) /\ ref.key # Draft
          /\ \/ then = <<>>
             \/ ref.fragment \in Fragments /\ then = <<ToPoint(ref.key, ref.fragment)>>
      BY <1>6, NamesAssumption DEF Follows, References
    <2>2. \A i \in 1 .. Len(then) : \E f \in Fragments : then[i] = ToPoint(ref.key, f)
      BY <2>1
    <2> QED  BY <2>1, <2>2, <1>4
  <1>7. ASSUME NEW key \in Keys, NEW d \in Keys, Speaks(key, d), agenda # <<>>
        PROVE  Goal
    <2> DEFINE tasks == <<ToCheck(d), ToPass(key)>>
    <2>1. tasks \in Seq(Tasks) /\ Continue(tasks) /\ ToSpeak(key) \in Due
      BY <1>7, ThenIs DEF Speaks, Moves
    <2>2. \E i \in 1 .. Len(tasks) : task = tasks[i]
      BY <2>1, Continues
    <2>3. task = ToCheck(d) \/ task = ToPass(key)
      BY <2>2
    <2>4. key \in DOMAIN resources /\ key # Draft /\ world.node[resources[key].value].dialect # None
      BY <1>7, <2>1 DEF KeyShape, Speaks
    <2> QED  BY <2>3, <2>4
  <1>8. ASSUME NEW key \in Keys, NEW f \in Fragments, NEW tasks \in Seq(Tasks), Points(key, f, tasks)
        PROVE  Goal
    <2>0. key \in DOMAIN resources
      BY <1>8 DEF Points
    <2>a. PICK base \in Keys : base = resources[key].base
      BY <2>0 DEF RegistrationTypes
    <2>1. Continue(tasks) /\ tasks # <<>>
      BY <1>8, <1>2 DEF Points
    <2>2. f \in Objects \ inspected /\ tasks = <<ToInspect(f, base)>>
      BY <1>8, <2>1, <2>a DEF Points
    <2>3. \E i \in 1 .. Len(tasks) : task = tasks[i]
      BY <2>1, Continues
    <2>4. task = ToInspect(f, base)
      BY <2>2, <2>3
    <2>5. f \in world.node[resources[key].value].parts /\ world.node[f].valid /\ key \in DOMAIN resources
      BY <1>8, <2>2 DEF Points
    <2>6. base \in DOMAIN resources /\ resources[base].value = resources[key].value /\ base \in Keys
      BY <2>5, <2>a DEF ResourceShape, RegistrationTypes
    <2>7. Base(f, base)'
      <3>1. Base(f, base)
        BY <2>5, <2>6 DEF Base
      <3> QED  BY <3>1, BaseKept, <1>1
    <2> QED  BY <2>2, <2>4, <2>5, <2>6, <2>7
  <1>9. \A ref \in References : ~Skips(ref)
    BY <1>2 DEF Skips, Skip
  <1>10. /\ \A n \in Objects, base \in Keys : ~Drops(n, base) /\ ~Notes(n, base)
         /\ \A key \in Keys : ~Knows(key) /\ ~Passes(key)
    BY <1>2 DEF Drops, Notes, Knows, Passes
  <1> QED  BY <1>3, <1>5, <1>6, <1>7, <1>8, <1>9, <1>10 DEF Moves

\* Places: what a move is to look into is within the object it is about.
LEMMA PlaceStep ==
    ASSUME RegistrationTypes, RegistrationTypes', ResourceShape, PlaceShape, KeyShape,
           [RegistrationNext]_registrationVars
    PROVE  PlaceShape'
  <1>1. CASE Stops
    BY <1>1, StopsStep DEF PlaceShape, Base
  <1>2. CASE Moves
    <2>1. Grown
      BY <1>2, Grows
    <2>2. world' = world
      BY <2>1 DEF Grown
    <2>3. ASSUME NEW n \in Objects, NEW base \in Keys, ToInspect(n, base) \in Due'
          PROVE  Base(n, base)' /\ world.node[n].valid
      <3>1. CASE ToInspect(n, base) \in Due
        BY <3>1, <1>2, <2>1, BaseKept DEF PlaceShape, Moves
      <3>2. CASE ToInspect(n, base) \notin Due
        <4>1. ToInspect(n, base).do = "inspect"
          BY TasksApart
        <4> QED  BY <1>2, <2>3, <3>2, <4>1, TasksAre, TasksApart
      <3> QED  BY <3>1, <3>2
    <2>4. ASSUME NEW n \in Objects, NEW base \in Keys, ToNote(n, base) \in Due'
          PROVE  Base(n, base)' /\ n \in inspected'
      <3>1. CASE ToNote(n, base) \in Due
        BY <3>1, <1>2, <2>1, BaseKept DEF PlaceShape, Grown
      <3>2. CASE ToNote(n, base) \notin Due
        <4>1. ToNote(n, base).do = "note"
          BY TasksApart
        <4> QED  BY <1>2, <2>4, <3>2, <4>1, TasksAre, TasksApart
      <3> QED  BY <3>1, <3>2
    <2> QED  BY <2>2, <2>3, <2>4 DEF PlaceShape
  <1> QED  BY <1>1, <1>2, StepIs

\* Keys: a dialect is loaded before it is asked for its own.
LEMMA KeyStep ==
    ASSUME RegistrationTypes, RegistrationTypes', ResourceShape, PlaceShape, KeyShape,
           [RegistrationNext]_registrationVars
    PROVE  KeyShape'
  <1>1. CASE Stops
    BY <1>1, StopsStep DEF KeyShape
  <1>2. CASE Moves
    <2>1. Grown
      BY <1>2, Grows
    <2>2. world' = world
          /\ \A key \in DOMAIN resources : key \in DOMAIN resources' /\ resources'[key].value = resources[key].value
      BY <2>1 DEF Grown
    <2> SUFFICES ASSUME NEW key \in Keys
                 PROVE  /\ ToSpeak(key) \in Due' \/ ToPass(key) \in Due' => key \in DOMAIN resources' /\ key # Draft
                        /\ ToPass(key) \in Due' => world.node[resources'[key].value].dialect # None
                        /\ \A f \in Fragments : ToPoint(key, f) \in Due' => key \in DOMAIN resources'
      BY <2>2 DEF KeyShape
    <2>3. ASSUME ToSpeak(key) \in Due'
          PROVE  key \in DOMAIN resources' /\ key # Draft
      <3>1. CASE ToSpeak(key) \in Due
        BY <3>1, <2>2 DEF KeyShape
      <3>2. CASE ToSpeak(key) \notin Due
        <4>1. ToSpeak(key).do = "speak"
          BY TasksApart
        <4> QED  BY <1>2, <2>3, <3>2, <4>1, TasksAre, TasksApart
      <3> QED  BY <3>1, <3>2
    <2>4. ASSUME ToPass(key) \in Due'
          PROVE  /\ key \in DOMAIN resources' /\ key # Draft
                 /\ world.node[resources'[key].value].dialect # None
      <3>1. CASE ToPass(key) \in Due
        BY <3>1, <2>2 DEF KeyShape
      <3>2. CASE ToPass(key) \notin Due
        <4>1. ToPass(key).do = "pass"
          BY TasksApart
        <4>2. /\ key \in DOMAIN resources /\ key # Draft
              /\ world.node[resources[key].value].dialect # None
          BY <1>2, <2>4, <3>2, <4>1, TasksAre, TasksApart
        <4> QED  BY <4>2, <2>2
      <3> QED  BY <3>1, <3>2
    <2>5. ASSUME NEW f \in Fragments, ToPoint(key, f) \in Due'
          PROVE  key \in DOMAIN resources'
      <3>1. CASE ToPoint(key, f) \in Due
        BY <3>1, <2>2 DEF KeyShape
      <3>2. CASE ToPoint(key, f) \notin Due
        <4>1. ToPoint(key, f).do = "point"
          BY TasksApart
        <4> QED  BY <1>2, <2>5, <3>2, <4>1, TasksAre, TasksApart
      <3> QED  BY <3>1, <3>2
    <2> QED  BY <2>3, <2>4, <2>5
  <1> QED  BY <1>1, <1>2, StepIs


\* Objects: what a move no longer knows to be due, it has done.
LEMMA ObjectStep ==
    ASSUME RegistrationTypes, PlaceShape, ObjectShape, KeyShape, [RegistrationNext]_registrationVars
    PROVE  ObjectShape'
  <1>1. CASE Stops
    BY <1>1, StopsStep DEF ObjectShape, DialectDue, Noted, Base
  <1>2. CASE Moves
    <2>1. Grown /\ world' = world
      BY <1>2, Grows DEF Grown
    <2> SUFFICES ASSUME NEW n \in inspected'
                 PROVE  /\ world.node[n].valid
                        /\ \A c \in ToSet(world.node[n].children) :
                              c \in inspected' \/ \E base \in Keys : ToInspect(c, base) \in Due'
                        /\ world.node[n].dialect # None => DialectDue(world.node[n].dialect)'
                        /\ Noted(n)' \/ \E base \in Keys : ToNote(n, base) \in Due'
      BY <2>1 DEF ObjectShape
    <2>2. CASE n \in inspected
      <3>1. n \in Objects /\ world \in Worlds
        BY <2>2 DEF RegistrationTypes
      <3>2. \A c \in ToSet(world.node[n].children) : c \in Objects
        BY <3>1, ObjectIs
      <3>3. \A c \in ToSet(world.node[n].children) :
               c \in inspected' \/ \E base \in Keys : ToInspect(c, base) \in Due'
        BY <1>2, <2>2, <3>2, InspectKept DEF ObjectShape
      <3>4. ASSUME world.node[n].dialect # None
            PROVE  DialectDue(world.node[n].dialect)'
        <4>1. PICK d \in Keys : d = world.node[n].dialect
          BY <3>4, <3>1, ObjectIs DEF Schemas
        <4>2. DialectDue(d)
          BY <4>1, <2>2, <3>4 DEF ObjectShape
        <4>3. DialectDue(d)'
          BY <4>2, <1>2, DialectKept
        <4> QED  BY <4>1, <4>3, <2>1 DEF DialectDue
      <3>5. Noted(n)' \/ \E base \in Keys : ToNote(n, base) \in Due'
        BY <1>2, <2>2, <3>1, NoteKept DEF ObjectShape
      <3>6. world.node[n].valid
        BY <2>2 DEF ObjectShape
      <3> QED  BY <3>3, <3>4, <3>5, <3>6
    <2>3. CASE n \notin inspected
      <3>1. PICK base \in Keys, own \in Keys : n \in Objects /\ Walks(n, base, own) /\ agenda # <<>>
        <4> DEFINE Goal == \E base, own \in Keys : n \in Objects /\ Walks(n, base, own) /\ agenda # <<>>
        <4>1. \A m \in Objects, base, own \in Keys : Walks(m, base, own) /\ agenda # <<>> => Goal
          BY <2>3 DEF Walks
        <4>2. inspected' # inspected
          BY <2>3
        <4>3. /\ \A m \in Objects, base \in Keys : ~Drops(m, base) /\ ~Notes(m, base)
              /\ \A key \in Keys : ~Knows(key) /\ ~Opens(key) /\ ~Passes(key)
              /\ \A key, d \in Keys : ~Speaks(key, d)
              /\ \A key \in Keys, f \in Fragments, tasks \in Seq(Tasks) : ~Points(key, f, tasks)
              /\ \A ref \in References : ~Skips(ref) /\ \A then \in Seq(Tasks) : ~Follows(ref, then)
          BY <4>2 DEF Drops, Notes, Knows, Opens, Passes, Speaks, Points, Skips, Skip, Follows, members
        <4> HIDE DEF Goal
        <4>4. Goal
          BY <1>2, <4>1, <4>3 DEF Moves
        <4> QED  BY <4>4 DEF Goal
      <3>2. /\ world.node[n].valid
            /\ \A i \in 1 .. Len(Walk(n, own)) : Walk(n, own)[i] \in Due'
        BY <1>2, <3>1, WalksIs
      <3> DEFINE tasks == Walk(n, own)
      <3>3. /\ world.node[n].dialect # None =>
                  1 \in 1 .. Len(tasks) /\ tasks[1] = ToCheck(world.node[n].dialect)
            /\ \E i \in 1 .. Len(tasks) : tasks[i] = ToNote(n, own)
            /\ \A c \in ToSet(world.node[n].children) :
                  \E i \in 1 .. Len(tasks) : tasks[i] = ToInspect(c, own)
        BY <3>1, WalkIs
      <3> HIDE DEF tasks
      <3>4. \A i \in 1 .. Len(tasks) : tasks[i] \in Due'
        BY <3>2 DEF tasks
      <3>5. /\ world.node[n].dialect # None => ToCheck(world.node[n].dialect) \in Due'
            /\ ToNote(n, own) \in Due'
            /\ \A c \in ToSet(world.node[n].children) : ToInspect(c, own) \in Due'
        BY <3>3, <3>4
      <3>6. ASSUME world.node[n].dialect # None
            PROVE  DialectDue(world.node[n].dialect)'
        BY <3>5, <3>6, <2>1 DEF DialectDue
      <3> QED  BY <3>2, <3>5, <3>6
    <2> QED  BY <2>2, <2>3
  <1> QED  BY <1>1, <1>2, StepIs

\* Anchors: only Notes adds some, at a base that the object is within.
LEMMA AnchorStep ==
    ASSUME RegistrationTypes, PlaceShape, AnchorShape, KeyShape, [RegistrationNext]_registrationVars
    PROVE  AnchorShape'
  <1>1. CASE Stops
    BY <1>1, StopsStep DEF AnchorShape
  <1>2. CASE Moves
    <2>1. Grown /\ world' = world
      BY <1>2, Grows DEF Grown
    <2>2. ASSUME NEW place \in anchors
          PROVE  /\ place[1] \in DOMAIN resources' /\ place[2] \notin Objects
                 /\ Anchored(world', resources'[place[1]].value, place[2])
      BY <2>1 DEF AnchorShape, Grown, Anchored
    <2>3. ASSUME NEW n \in Objects, NEW base \in Keys, Notes(n, base), agenda # <<>>
          PROVE  AnchorShape'
      <3>1. Base(n, base)
        BY <1>2, <2>3 DEF PlaceShape, Moves, Notes
      <3>2. world.node[n].anchors \subseteq Fragments \ Objects
        BY ObjectIs DEF RegistrationTypes, Schemas
      <3>3. ASSUME NEW a \in world.node[n].anchors
            PROVE  /\ base \in DOMAIN resources' /\ a \notin Objects
                   /\ Anchored(world', resources'[base].value, a)
        BY <3>1, <3>2, <2>1 DEF Base, Anchored, Grown
      <3>4. anchors' = anchors \cup {<<base, a>> : a \in world.node[n].anchors}
        BY <2>3 DEF Notes
      <3> QED  BY <2>2, <3>3, <3>4 DEF AnchorShape
    <2>4. CASE anchors' = anchors
      BY <2>2, <2>4 DEF AnchorShape
    <2>5. /\ \A m \in Objects, base \in Keys : Drops(m, base) => anchors' = anchors
          /\ \A m \in Objects, base, own \in Keys : Walks(m, base, own) => anchors' = anchors
          /\ \A key \in Keys : Knows(key) \/ Opens(key) \/ Passes(key) => anchors' = anchors
          /\ \A key, d \in Keys : Speaks(key, d) => anchors' = anchors
          /\ \A key \in Keys, f \in Fragments, tasks \in Seq(Tasks) : Points(key, f, tasks) => anchors' = anchors
          /\ \A ref \in References : Skips(ref) => anchors' = anchors
          /\ \A ref \in References, then \in Seq(Tasks) : Follows(ref, then) => anchors' = anchors
      BY DEF Drops, Walks, Knows, Opens, Passes, Speaks, Points, Skips, Skip, Follows, members
    <2> QED  BY <1>2, <2>3, <2>4, <2>5 DEF Moves
  <1> QED  BY <1>1, <1>2, StepIs

\* References: what the loop follows is there when it goes on.
LEMMA ReferenceStep ==
    ASSUME RegistrationTypes, RegistrationTypes', ResourceShape, AnchorShape, KeyShape, ReferenceShape,
           [RegistrationNext]_registrationVars
    PROVE  ReferenceShape'
  <1>0. references \in Seq(References) /\ index \in Nat \ {0} /\ Len(references) \in Nat
    BY DEF RegistrationTypes
  <1>1. CASE Stops
    BY <1>0, <1>1, StopsStep DEF ReferenceShape, Leading, Pointed
  <1>2. CASE Moves
    <2>1. Grown /\ world' = world
      BY <1>2, Grows DEF Grown
    <2>2. verdict' = "running"
      BY <1>2, <2>1 DEF Moves, Grown
    <2>3. ASSUME NEW i \in 1 .. index - 1
          PROVE  Leading(references[i])' /\ references'[i] = references[i]
      <3>1. i \in 1 .. Len(references) /\ references'[i] = references[i]
        BY <1>0, <2>1 DEF Grown, ReferenceShape
      <3>2. PICK ref \in References : ref = references[i]
        BY <3>1, <1>0
      <3>3. Leading(ref) /\ ref.key \in Keys /\ ref.fragment \in Fragments \cup {Whole}
        BY <3>2 DEF ReferenceShape, References
      <3>4. Leading(ref)'
        <4>1. CASE ref.key \in Builtins
          BY <4>1 DEF Leading
        <4>2. CASE ref.key \in DOMAIN resources /\ ref.fragment = Whole
          BY <4>2, <2>1 DEF Leading, Grown
        <4>3. CASE ref.key \in DOMAIN resources /\ ref.fragment \in Fragments /\ Pointed(ref.key, ref.fragment)
          <5>1. Pointed(ref.key, ref.fragment)'
            BY <1>2, <3>3, <4>3, PointKept
          <5> QED  BY <5>1, <4>3, <2>1 DEF Leading, Grown
        <4> QED  BY <3>3, <4>1, <4>2, <4>3 DEF Leading
      <3> QED  BY <3>1, <3>2, <3>4
    <2>4. CASE index' = index
      <3>1. index' <= Len(references') + 1
        BY <1>0, <2>1, <2>4 DEF ReferenceShape, Grown
      <3>2. \A i \in 1 .. index' - 1 : Leading(references[i])'
        BY <2>3, <2>4
      <3> QED  BY <2>2, <3>1, <3>2 DEF ReferenceShape
    <2>5. ASSUME NEW ref \in References, ref = references[index], index' = index + 1,
                 index <= Len(references), Leading(ref)'
          PROVE  ReferenceShape'
      <3>1. index' <= Len(references') + 1 /\ index \in 1 .. Len(references)
        BY <1>0, <2>1, <2>5 DEF Grown
      <3>2. references'[index] = ref
        BY <3>1, <2>5, <2>1 DEF Grown
      <3>3. \A i \in 1 .. index' - 1 : i \in 1 .. index - 1 \/ i = index
        BY <1>0, <2>5
      <3>4. \A i \in 1 .. index' - 1 : Leading(references[i])'
        BY <2>3, <2>5, <3>2, <3>3
      <3> QED  BY <2>2, <3>1, <3>4 DEF ReferenceShape
    <2>6. ASSUME NEW ref \in References, Skips(ref)
          PROVE  ReferenceShape'
      BY <2>5, <2>6 DEF Skips, Skip, Leading
    <2>7. ASSUME NEW ref \in References, NEW then \in Seq(Tasks), Follows(ref, then)
          PROVE  ReferenceShape'
      <3>1. ref.key \in Keys /\ Load(ref.key, then)
        BY <2>7 DEF Follows, References
      <3>2. ref.key \in DOMAIN resources' /\ \A i \in 1 .. Len(then) : then[i] \in Due'
        BY <3>1, LoadDue
      <3>3. Leading(ref)'
        <4>1. CASE ref.fragment = Whole
          BY <4>1, <3>2 DEF Leading
        <4>2. CASE ref.fragment # Whole
          <5>1. then = <<ToPoint(ref.key, ref.fragment)>>
            BY <4>2, <2>7 DEF Follows
          <5>2. ToPoint(ref.key, ref.fragment) \in Due'
            BY <5>1, <3>2
          <5> QED  BY <5>2, <3>2 DEF Leading, Pointed
        <4> QED  BY <4>1, <4>2
      <3> QED  BY <2>5, <2>7, <3>3 DEF Follows
    <2>8. /\ \A m \in Objects, base \in Keys : Drops(m, base) \/ Notes(m, base) => index' = index
          /\ \A m \in Objects, base, own \in Keys : Walks(m, base, own) => index' = index
          /\ \A key \in Keys : Knows(key) \/ Opens(key) \/ Passes(key) => index' = index
          /\ \A key, d \in Keys : Speaks(key, d) => index' = index
          /\ \A key \in Keys, f \in Fragments, tasks \in Seq(Tasks) : Points(key, f, tasks) => index' = index
      BY DEF Drops, Notes, Walks, Knows, Opens, Passes, Speaks, Points, members
    <2> QED  BY <1>2, <2>4, <2>6, <2>7, <2>8 DEF Moves
  <1> QED  BY <1>1, <1>2, StepIs


\* The agenda after a move, by position: tasks in the place of the first.
Shifted(tasks) ==
    /\ \A i \in 1 .. Len(tasks) : i \in 1 .. Len(agenda') /\ agenda'[i] = tasks[i]
    /\ \A i \in 2 .. Len(agenda) :
          Len(tasks) + i - 1 \in 1 .. Len(agenda') /\ agenda'[Len(tasks) + i - 1] = agenda[i]
    /\ \A j \in 1 .. Len(agenda') :
          \/ j \in 1 .. Len(tasks)
          \/ j - Len(tasks) + 1 \in 2 .. Len(agenda) /\ agenda'[j] = agenda[j - Len(tasks) + 1]
    /\ Len(agenda') = IF agenda = <<>> THEN Len(tasks) ELSE Len(tasks) + Len(agenda) - 1
Brought(key, then, tasks) ==
    \/ tasks = then
    \/ /\ key \in DOMAIN world.catalog \ DOMAIN resources /\ Len(tasks) = Len(then) + 1
       /\ world.catalog[key] \in Objects
       /\ tasks[1] = ToInspect(world.catalog[key], key)
       /\ \A i \in 1 .. Len(then) : tasks[i + 1] = then[i]
Brings(tasks) ==
    \/ /\ tasks = <<>>
       /\ \/ /\ agenda # <<>>
             /\ \/ \E n \in Objects, base \in Keys : Drops(n, base) \/ Notes(n, base)
                \/ \E key \in Keys : Knows(key) \/ Passes(key)
          \/ \E ref \in References : Skips(ref)
    \/ /\ agenda # <<>>
       /\ \/ \E n \in Objects, base, own \in Keys : Walks(n, base, own) /\ tasks = Walk(n, own)
          \/ \E key \in Keys : Opens(key) /\ Brought(key, <<ToSpeak(key)>>, tasks)
          \/ \E key, d \in Keys : Speaks(key, d) /\ tasks = <<ToCheck(d), ToPass(key)>>
          \/ \E key \in Keys, f \in Fragments : Points(key, f, tasks)
    \/ \E ref \in References, then \in Seq(Tasks) : Follows(ref, then) /\ Brought(ref.key, then, tasks)

\* Every move puts tasks of a known form in the place of the first one.
LEMMA Shifts ==
    ASSUME RegistrationTypes, Moves
    PROVE  \E tasks \in Seq(Tasks) : Shifted(tasks) /\ Brings(tasks)
  <1>1. agenda \in Seq(Tasks)
    BY DEF RegistrationTypes
  <1>2. ASSUME NEW tasks \in Seq(Tasks), agenda' = tasks \o SubSeq(agenda, 2, Len(agenda))
        PROVE  Shifted(tasks)
    <2> DEFINE s == agenda
               r == agenda'
    <2>1. s \in Seq(Tasks) /\ tasks \in Seq(Tasks) /\ r = tasks \o SubSeq(s, 2, Len(s))
      BY <1>1, <1>2
    <2> HIDE DEF s, r
    <2>2. /\ r \in Seq(Tasks)
          /\ \A i \in 1 .. Len(tasks) : i \in 1 .. Len(r) /\ r[i] = tasks[i]
          /\ \A i \in 2 .. Len(s) : Len(tasks) + i - 1 \in 1 .. Len(r) /\ r[Len(tasks) + i - 1] = s[i]
          /\ \A j \in 1 .. Len(r) :
                \/ j \in 1 .. Len(tasks)
                \/ j - Len(tasks) + 1 \in 2 .. Len(s) /\ r[j] = s[j - Len(tasks) + 1]
          /\ Len(r) = IF s = <<>> THEN Len(tasks) ELSE Len(tasks) + Len(s) - 1
      BY <2>1, TasksReplace
    <2> QED  BY <2>2 DEF s, r, Shifted
  <1>3. ASSUME NEW tasks \in Seq(Tasks), Continue(tasks)
        PROVE  Shifted(tasks)
    BY <1>2, <1>3 DEF Continue, Rest
  <1>4. ASSUME NEW key \in Keys, NEW then \in Seq(Tasks), Load(key, then)
        PROVE  \E tasks \in Seq(Tasks) : Shifted(tasks) /\ Brought(key, then, tasks)
    BY <1>3, <1>4, LoadIs DEF Brought
  <1>5. ASSUME Continue(<<>>), agenda # <<>>,
               \/ \E n \in Objects, base \in Keys : Drops(n, base) \/ Notes(n, base)
               \/ \E key \in Keys : Knows(key) \/ Passes(key)
        PROVE  \E tasks \in Seq(Tasks) : Shifted(tasks) /\ Brings(tasks)
    <2>1. <<>> \in Seq(Tasks)
      OBVIOUS
    <2> QED  BY <1>3, <1>5, <2>1 DEF Brings
  <1>6. ASSUME NEW ref \in References, Skips(ref)
        PROVE  \E tasks \in Seq(Tasks) : Shifted(tasks) /\ Brings(tasks)
    <2>1. agenda = <<>> /\ agenda' = <<>>
      BY <1>6 DEF Skips, Skip
    <2>2. <<>> \in Seq(Tasks) /\ <<>> = <<>> \o SubSeq(<<>>, 2, Len(<<>>))
      OBVIOUS
    <2> QED  BY <1>2, <1>6, <2>1, <2>2 DEF Brings
  <1>7. ASSUME NEW n \in Objects, NEW base \in Keys, NEW own \in Keys, Walks(n, base, own), agenda # <<>>
        PROVE  \E tasks \in Seq(Tasks) : Shifted(tasks) /\ Brings(tasks)
    <2>1. Walk(n, own) \in Seq(Tasks) /\ Continue(Walk(n, own))
      BY <1>7, WalkIs DEF Walks
    <2> QED  BY <1>3, <1>7, <2>1 DEF Brings
  <1>8. ASSUME NEW key \in Keys, Opens(key), agenda # <<>>
        PROVE  \E tasks \in Seq(Tasks) : Shifted(tasks) /\ Brings(tasks)
    <2>1. <<ToSpeak(key)>> \in Seq(Tasks) /\ Load(key, <<ToSpeak(key)>>)
      BY <1>8, ThenIs DEF Opens
    <2> QED  BY <1>4, <1>8, <2>1 DEF Brings
  <1>9. ASSUME NEW key \in Keys, NEW d \in Keys, Speaks(key, d), agenda # <<>>
        PROVE  \E tasks \in Seq(Tasks) : Shifted(tasks) /\ Brings(tasks)
    <2>1. <<ToCheck(d), ToPass(key)>> \in Seq(Tasks) /\ Continue(<<ToCheck(d), ToPass(key)>>)
      BY <1>9, ThenIs DEF Speaks
    <2> QED  BY <1>3, <1>9, <2>1 DEF Brings
  <1>10. ASSUME NEW key \in Keys, NEW f \in Fragments, NEW tasks \in Seq(Tasks), Points(key, f, tasks), agenda # <<>>
         PROVE  Shifted(tasks) /\ Brings(tasks)
    BY <1>3, <1>10 DEF Brings, Points
  <1>11. ASSUME NEW ref \in References, NEW then \in Seq(Tasks), Follows(ref, then)
         PROVE  \E tasks \in Seq(Tasks) : Shifted(tasks) /\ Brings(tasks)
    <2>1. ref.key \in Keys /\ Load(ref.key, then)
      BY <1>11 DEF Follows, References
    <2> QED  BY <1>4, <1>11, <2>1 DEF Brings
  <1>12. /\ \A n \in Objects, base \in Keys : Drops(n, base) \/ Notes(n, base) => Continue(<<>>)
         /\ \A key \in Keys : Knows(key) \/ Passes(key) => Continue(<<>>)
    BY DEF Drops, Notes, Knows, Passes
  <1> QED  BY <1>5, <1>6, <1>7, <1>8, <1>9, <1>10, <1>11, <1>12 DEF Moves

\* More names make no dialect groundless.
LEMMA GroundedKept ==
    ASSUME Grown, NEW key, Grounded(world, Values, key)
    PROVE  Grounded(world', Values', key)
  <1> SUFFICES ASSUME NEW set \in SUBSET (Keys \cup {None}), key \in set, Onward(world', Values', set)
               PROVE  Draft \in set
    BY DEF Grounded
  <1>1. world' = world
    BY DEF Grown
  <1>2. /\ DOMAIN Values = DOMAIN resources /\ DOMAIN Values' = DOMAIN resources'
        /\ \A k \in DOMAIN resources : k \in DOMAIN resources' /\ Values'[k] = Values[k]
    BY DEF Grown, Values
  <1>3. Onward(world, Values, set)
    BY <1>1, <1>2 DEF Onward
  <1> QED  BY <1>3 DEF Grounded

\* A dialect is grounded when its own is.
LEMMA GroundedFrom ==
    ASSUME NEW w, NEW naming, NEW key \in DOMAIN naming, key # Draft,
           LET d == w.node[naming[key]].dialect IN d = Draft \/ Grounded(w, naming, d)
    PROVE  Grounded(w, naming, key)
  <1> SUFFICES ASSUME NEW set \in SUBSET (Keys \cup {None}), key \in set, Onward(w, naming, set)
               PROVE  Draft \in set
    BY DEF Grounded
  <1>1. w.node[naming[key]].dialect \in set
    BY DEF Onward
  <1> QED  BY <1>1 DEF Grounded

\* A dialect's pass comes with the check of its own dialect, before it.
LEMMA BringsPass ==
    ASSUME RegistrationTypes, NEW tasks \in Seq(Tasks), Brings(tasks),
           NEW key \in Keys, NEW i \in 1 .. Len(tasks), tasks[i] = ToPass(key)
    PROVE  /\ key \in DOMAIN resources /\ i = 2
           /\ tasks[1] = ToCheck(world.node[resources[key].value].dialect)
  <1>0. ToPass(key).do = "pass"
    BY TasksApart
  <1>1. ASSUME NEW n \in Objects, NEW own \in Keys, tasks = Walk(n, own)
        PROVE  FALSE
    <2>1. \/ tasks[i] = ToCheck(world.node[n].dialect)
          \/ tasks[i] = ToNote(n, own)
          \/ \E c \in ToSet(world.node[n].children) : tasks[i] = ToInspect(c, own)
      BY <1>1, WalkIs
    <2> QED  BY <2>1, <1>0, TasksApart
  <1>2. ASSUME NEW k \in Keys, NEW then \in Seq(Tasks), Brought(k, then, tasks),
               \A j \in 1 .. Len(then) : then[j].do # "pass"
        PROVE  FALSE
    <2>1. Len(then) \in Nat
      OBVIOUS
    <2>2. CASE tasks = then
      BY <2>2, <1>0, <1>2
    <2>3. CASE tasks # then
      <3>1. /\ Len(tasks) = Len(then) + 1 /\ tasks[1].do = "inspect"
            /\ \A j \in 1 .. Len(then) : tasks[j + 1] = then[j]
        BY <2>3, <1>2, TasksApart DEF Brought
      <3>2. i # 1
        BY <3>1, <1>0
      <3>3. i - 1 \in 1 .. Len(then) /\ tasks[i - 1 + 1] = then[i - 1]
        BY <3>1, <3>2, <2>1
      <3> QED  BY <3>3, <1>0, <1>2
    <2> QED  BY <2>2, <2>3
  <1>3. ASSUME NEW k \in Keys, Brought(k, <<ToSpeak(k)>>, tasks)
        PROVE  FALSE
    <2> DEFINE then == <<ToSpeak(k)>>
    <2>1. then \in Seq(Tasks) /\ \A j \in 1 .. Len(then) : then[j].do # "pass"
      BY ThenIs, TasksApart
    <2> HIDE DEF then
    <2>2. Brought(k, then, tasks)
      BY <1>3 DEF then
    <2> QED  BY <2>1, <2>2, <1>2
  <1>4. ASSUME NEW ref \in References, NEW then \in Seq(Tasks), Follows(ref, then),
               Brought(ref.key, then, tasks)
        PROVE  FALSE
    <2>1. \A j \in 1 .. Len(then) : then[j].do # "pass"
      BY <1>4, TasksApart DEF Follows
    <2> QED  BY <2>1, <1>2, <1>4 DEF References
  <1>5. ASSUME NEW k \in Keys, NEW f \in Fragments, Points(k, f, tasks)
        PROVE  FALSE
    BY <1>0, <1>5, TasksApart DEF Points
  <1>6. ASSUME NEW k \in Keys, NEW d \in Keys, Speaks(k, d), tasks = <<ToCheck(d), ToPass(k)>>
        PROVE  /\ key \in DOMAIN resources /\ i = 2
               /\ tasks[1] = ToCheck(world.node[resources[key].value].dialect)
    <2>1. i = 1 \/ i = 2
      BY <1>6
    <2>2. i # 1
      BY <1>0, <1>6, TasksApart
    <2>3. ToPass(key) = ToPass(k)
      BY <1>6, <2>1, <2>2
    <2>4. key = k
      BY <2>3, TasksApart
    <2> QED  BY <1>6, <2>1, <2>2, <2>4 DEF Speaks
  <1>7. tasks # <<>>
    OBVIOUS
  <1> QED  BY <1>1, <1>3, <1>4, <1>5, <1>6, <1>7 DEF Brings

\* A dialect that was the first to do goes on, or has passed.
LEMMA BringsDialect ==
    ASSUME RegistrationTypes, NEW tasks \in Seq(Tasks), Brings(tasks), agenda # <<>>, NEW d \in Keys,
           Head(agenda) \in {ToCheck(d), ToSpeak(d), ToPass(d)}
    PROVE  d \in checked' \cup {Draft}
           \/ \E i \in 1 .. Len(tasks) : tasks[i] \in {ToCheck(d), ToSpeak(d), ToPass(d)}
  <1> DEFINE Goal == d \in checked' \cup {Draft}
                     \/ \E i \in 1 .. Len(tasks) : tasks[i] \in {ToCheck(d), ToSpeak(d), ToPass(d)}
  <1>1. /\ Head(agenda).do \in {"check", "speak", "pass"}
        /\ \A k \in Keys : Head(agenda) \in {ToCheck(k), ToSpeak(k), ToPass(k)} => k = d
    BY TasksApart
  <1>2. ASSUME NEW n \in Objects, NEW base \in Keys
        PROVE  ~Drops(n, base) /\ ~Notes(n, base) /\ \A own \in Keys : ~Walks(n, base, own)
    BY <1>1, TasksApart DEF Drops, Notes, Walks
  <1>3. ASSUME NEW k \in Keys, NEW f \in Fragments
        PROVE  ~Points(k, f, tasks)
    BY <1>1, TasksApart DEF Points
  <1>4. /\ \A ref \in References : ~Skips(ref)
        /\ \A ref \in References, then \in Seq(Tasks) : ~Follows(ref, then)
    BY DEF Skips, Follows
  <1>5. ASSUME NEW k \in Keys, Knows(k) \/ Passes(k)
        PROVE  Goal
    BY <1>1, <1>5 DEF Knows, Passes, members
  <1>6. ASSUME NEW k \in Keys, Opens(k), Brought(k, <<ToSpeak(k)>>, tasks)
        PROVE  Goal
    <2>1. k = d
      BY <1>1, <1>6 DEF Opens
    <2> DEFINE then == <<ToSpeak(k)>>
    <2>2. Len(then) = 1 /\ then[1] = ToSpeak(k) /\ Brought(k, then, tasks)
      BY <1>6
    <2> HIDE DEF then
    <2>3. (1 \in 1 .. Len(tasks) /\ tasks[1] = ToSpeak(k)) \/ (2 \in 1 .. Len(tasks) /\ tasks[2] = ToSpeak(k))
      <3>1. CASE tasks = then
        BY <3>1, <2>2
      <3>2. CASE tasks # then
        <4>1. Len(tasks) = Len(then) + 1 /\ \A i \in 1 .. Len(then) : tasks[i + 1] = then[i]
          BY <3>2, <2>2 DEF Brought
        <4>2. Len(tasks) = 2 /\ tasks[1 + 1] = then[1]
          BY <4>1, <2>2
        <4> QED  BY <4>2, <2>2
      <3> QED  BY <3>1, <3>2
    <2> QED  BY <2>1, <2>3
  <1>7. ASSUME NEW k \in Keys, NEW e \in Keys, Speaks(k, e), tasks = <<ToCheck(e), ToPass(k)>>
        PROVE  Goal
    <2>1. k = d
      BY <1>1, <1>7 DEF Speaks
    <2>2. 2 \in 1 .. Len(tasks) /\ tasks[2] = ToPass(k)
      BY <1>7
    <2> QED  BY <2>1, <2>2
  <1> QED  BY <1>2, <1>3, <1>4, <1>5, <1>6, <1>7 DEF Brings

\* Dialects: what passes was due after the dialect it needs.
LEMMA DialectStep ==
    ASSUME RegistrationTypes, RegistrationTypes', KeyShape, DialectShape, [RegistrationNext]_registrationVars
    PROVE  DialectShape'
  <1>1. CASE Stops
    BY <1>1, StopsStep DEF DialectShape, Before
  <1>2. CASE Moves
    <2>1. Grown
      BY <1>2, Grows
    <2>2. /\ world' = world /\ checked \subseteq checked'
          /\ \A key \in DOMAIN resources : key \in DOMAIN resources' /\ resources'[key].value = resources[key].value
      BY <2>1 DEF Grown
    <2>3. \A key \in checked : key \in DOMAIN resources' /\ Grounded(world', Values', key)
      BY <2>1, <2>2, GroundedKept DEF DialectShape
    <2>4. \A key \in checked' : key \in DOMAIN resources' /\ Grounded(world', Values', key)
      <3>1. CASE checked' = checked
        BY <3>1, <2>3
      <3>2. ASSUME NEW key \in Keys, Passes(key), agenda # <<>>
            PROVE  key \in DOMAIN resources' /\ Grounded(world', Values', key)
                   /\ checked' = checked \cup {key}
        <4>1. ToPass(key) \in Due /\ agenda[1] = ToPass(key) /\ 1 \in 1 .. Len(agenda)
          BY <3>2, <1>2, HeadIs DEF Passes, Moves
        <4>2. key \in DOMAIN resources /\ key # Draft
          BY <4>1 DEF KeyShape
        <4> DEFINE d == world.node[resources[key].value].dialect
        <4>3. d \in checked \cup {Draft} \/ Before(1, d)
          BY <4>1 DEF DialectShape
        <4>4. ~Before(1, d)
          BY DEF Before
        <4>5. d = Draft \/ Grounded(world, Values, d)
          BY <4>3, <4>4 DEF DialectShape
        <4>6. Values[key] = resources[key].value /\ key \in DOMAIN Values
          BY <4>2 DEF Values
        <4>7. Grounded(world, Values, key)
          BY <4>2, <4>5, <4>6, GroundedFrom
        <4>8. Grounded(world', Values', key)
          BY <4>7, <2>1, GroundedKept
        <4> QED  BY <4>2, <4>8, <2>2, <3>2 DEF Passes
      <3>3. /\ \A m \in Objects, base \in Keys : Drops(m, base) \/ Notes(m, base) => checked' = checked
            /\ \A m \in Objects, base, own \in Keys : Walks(m, base, own) => checked' = checked
            /\ \A key \in Keys : Knows(key) \/ Opens(key) => checked' = checked
            /\ \A key, d \in Keys : Speaks(key, d) => checked' = checked
            /\ \A key \in Keys, f \in Fragments, tasks \in Seq(Tasks) : Points(key, f, tasks) => checked' = checked
            /\ \A ref \in References : Skips(ref) => checked' = checked
            /\ \A ref \in References, then \in Seq(Tasks) : Follows(ref, then) => checked' = checked
        BY DEF Drops, Notes, Walks, Knows, Opens, Speaks, Points, Skips, Skip, Follows, members
      <3>4. \A key \in checked' : key \in checked \/ (Passes(key) /\ agenda # <<>>)
        BY <1>2, <3>2, <3>3 DEF Moves
      <3> QED  BY <2>3, <3>2, <3>4, RegistrationTypes' DEF RegistrationTypes
    <2>5. PICK tasks \in Seq(Tasks) : Shifted(tasks) /\ Brings(tasks)
      BY <1>2, Shifts
    <2>6. ASSUME NEW j \in 1 .. Len(agenda'), NEW key \in Keys, agenda'[j] = ToPass(key)
          PROVE  \/ world'.node[resources'[key].value].dialect \in checked' \cup {Draft}
                 \/ Before(j, world.node[resources[key].value].dialect)'
      <3>0. Len(tasks) \in Nat /\ agenda \in Seq(Tasks) /\ Len(agenda) \in Nat
            /\ agenda # <<>> => Head(agenda) = agenda[1]
        BY DEF RegistrationTypes
      <3> DEFINE own(d) == {ToCheck(d), ToSpeak(d), ToPass(d)}
      <3>1. CASE j \in 1 .. Len(tasks)
        <4>1. tasks[j] = ToPass(key)
          BY <2>5, <2>6, <3>1 DEF Shifted
        <4>2. /\ key \in DOMAIN resources /\ j = 2
              /\ tasks[1] = ToCheck(world.node[resources[key].value].dialect)
          BY <2>5, <3>1, <4>1, BringsPass
        <4>3. agenda'[1] = tasks[1] /\ 1 \in 1 .. j - 1
          BY <2>5, <3>1, <4>2 DEF Shifted
        <4> QED  BY <4>2, <4>3, <2>2 DEF Before
      <3>2. CASE j \notin 1 .. Len(tasks)
        <4> DEFINE i == j - Len(tasks) + 1
        <4>1. i \in 2 .. Len(agenda) /\ agenda[i] = ToPass(key)
          BY <2>5, <2>6, <3>2 DEF Shifted
        <4>2. i \in 1 .. Len(agenda) /\ agenda # <<>>
          BY <4>1, <3>0
        <4>3. ToPass(key) \in Due
          BY <4>1, <4>2 DEF Due
        <4>4. key \in DOMAIN resources
          BY <4>3 DEF KeyShape
        <4>5. world.node[resources[key].value].dialect \in Keys
          BY <4>3, <4>4, ObjectIs DEF KeyShape, RegistrationTypes, Schemas
        <4>6. PICK d \in Keys : d = world.node[resources[key].value].dialect
          BY <4>5
        <4>7. d = world'.node[resources'[key].value].dialect
          BY <4>4, <4>6, <2>2
        <4>8. d \in checked \cup {Draft} \/ \E h \in 1 .. i - 1 : agenda[h] \in own(d)
          BY <4>1, <4>2, <4>6 DEF DialectShape, Before
        <4>9. ASSUME NEW h \in 1 .. i - 1, agenda[h] \in own(d)
              PROVE  d \in checked' \cup {Draft} \/ \E g \in 1 .. j - 1 : agenda'[g] \in own(d)
          <5>1. CASE h = 1
            <6>1. \/ d \in checked' \cup {Draft}
                  \/ \E g \in 1 .. Len(tasks) : tasks[g] \in own(d)
              BY <5>1, <4>9, <4>2, <3>0, <2>5, BringsDialect
            <6>2. \A g \in 1 .. Len(tasks) : g \in 1 .. j - 1 /\ agenda'[g] = tasks[g]
              BY <2>5, <3>0, <3>2 DEF Shifted
            <6> QED  BY <6>1, <6>2
          <5>2. CASE h # 1
            <6>1. h \in 2 .. Len(agenda) /\ Len(tasks) + h - 1 \in 1 .. j - 1
              BY <5>2, <4>1, <3>0
            <6>2. agenda'[Len(tasks) + h - 1] = agenda[h]
              BY <6>1, <2>5 DEF Shifted
            <6> QED  BY <6>1, <6>2, <4>9
          <5> QED  BY <5>1, <5>2
        <4>10. d \in checked' \cup {Draft} \/ \E g \in 1 .. j - 1 : agenda'[g] \in own(d)
          BY <4>8, <4>9, <2>2
        <4>11. d \in checked' \cup {Draft} \/ Before(j, d)'
          BY <4>10 DEF Before
        <4>12. Before(j, d)' => Before(j, world.node[resources[key].value].dialect)'
          BY <4>7 DEF Before
        <4> QED  BY <4>7, <4>11, <2>2 DEF Before
      <3> QED  BY <3>1, <3>2
    <2> QED  BY <2>2, <2>4, <2>6 DEF DialectShape
  <1> QED  BY <1>1, <1>2, StepIs


\* The invariant holds of a registration that begins,
LEMMA RegInit == RegistrationInit => RegInv
  <1> SUFFICES ASSUME RegistrationInit PROVE RegInv
    OBVIOUS
  <1> DEFINE root == world.root
             first == ToInspect(root, Default)
  <1>1. world \in Worlds /\ root \in Objects /\ Default \in Keys
    BY WorldsAssumption, NamesAssumption DEF RegistrationInit, WellFormed
  <1>2. /\ DOMAIN resources = {Default} /\ resources[Default].value = root /\ resources[Default].base = Default
        /\ anchors = {} /\ inspected = {} /\ checked = {} /\ active = {}
        /\ references = <<>> /\ index = 1 /\ agenda = <<first>>
        /\ verdict = IF world.node[root].valid THEN "running" ELSE "refused"
    BY DEF RegistrationInit
  <1>3. Due = {first}
    BY <1>2 DEF Due
  <1>4. root \in world.node[root].parts
    BY <1>1, ObjectIs
  <1>5. agenda \in Seq(Tasks) /\ Len(agenda) = 1 /\ agenda[1] = first
    BY <1>1, <1>2 DEF Tasks, ToInspect, Task
  <1>6. RegistrationTypes
    <2>1. references \in Seq(References) /\ Len(references) = 0
      BY <1>2
    <2> QED  BY <1>1, <1>2, <1>5, <2>1 DEF RegistrationTypes
  <1>7. ResourceShape
    BY <1>1, <1>2, <1>3 DEF ResourceShape, Means
  <1>8. PlaceShape
    BY <1>1, <1>2, <1>3, <1>4, TasksApart DEF PlaceShape, Base
  <1>9. KeyShape
    BY <1>3, TasksApart DEF KeyShape
  <1>10. ObjectShape /\ AnchorShape
    BY <1>2 DEF ObjectShape, AnchorShape
  <1>11. DialectShape
    BY <1>2, <1>5, TasksApart DEF DialectShape
  <1>12. ReferenceShape
    BY <1>2 DEF ReferenceShape
  <1> QED  BY <1>6, <1>7, <1>8, <1>9, <1>10, <1>11, <1>12 DEF RegInv

\* and every step keeps it.
LEMMA RegStep == RegInv /\ [RegistrationNext]_registrationVars => RegInv'
  <1> SUFFICES ASSUME RegInv, [RegistrationNext]_registrationVars PROVE RegInv'
    OBVIOUS
  <1> USE DEF RegInv
  <1>1. RegistrationTypes'
    BY TypesStep
  <1>2. ResourceShape'
    BY <1>1, ResourceStep
  <1>3. PlaceShape'
    BY <1>1, PlaceStep
  <1>4. KeyShape'
    BY <1>1, KeyStep
  <1>5. ObjectShape'
    BY ObjectStep
  <1>6. AnchorShape'
    BY AnchorStep
  <1>7. DialectShape'
    BY <1>1, DialectStep
  <1>8. ReferenceShape'
    BY <1>1, ReferenceStep
  <1> QED  BY <1>1, <1>2, <1>3, <1>4, <1>5, <1>6, <1>7, <1>8

-----------------------------------------------------------------------------
(* What is accepted is closed: the objects looked into, under the names they were met by. *)

\* What the names of the resources mean, and the other names as they may.
Naming == [key \in NamesOf(world) |->
              IF key \in DOMAIN resources THEN resources[key].value
              ELSE CHOOSE n \in Objects : Means(world, key, n)]

\* It is a naming, and what the resources are called by it is what they are.
LEMMA NamingIs ==
    ASSUME RegistrationTypes, ResourceShape
    PROVE  /\ Naming \in Namings(world)
           /\ DOMAIN Naming \subseteq Keys /\ DOMAIN resources \subseteq DOMAIN Naming
           /\ \A key \in DOMAIN resources : Naming[key] = resources[key].value
  <1>1. world \in Worlds /\ WellFormed(world)
    BY WorldsAssumption DEF RegistrationTypes
  <1>2. world.root \in Objects /\ DOMAIN world.catalog \subseteq Keys
        /\ \A key \in DOMAIN world.catalog : world.catalog[key] \in Objects
    BY <1>1 DEF WellFormed
  <1>3. \A n \in Objects : world.node[n].id \in Keys \cup {None}
    BY <1>1, ObjectIs DEF Schemas
  <1>4. NamesOf(world) \subseteq Keys
    BY <1>2, <1>3, NamesAssumption DEF NamesOf
  <1>5. \A key \in NamesOf(world) : \E n \in Objects : Means(world, key, n)
    BY <1>2 DEF NamesOf, Means
  <1>6. \A key \in DOMAIN resources : key \in NamesOf(world)
    BY NamesAssumption DEF ResourceShape, Means, NamesOf, RegistrationTypes
  <1>7. \A key \in NamesOf(world) : Naming[key] \in Objects /\ Means(world, key, Naming[key])
    BY <1>5 DEF Naming, ResourceShape, RegistrationTypes
  <1>8. Naming \in [NamesOf(world) -> Objects]
    BY <1>7 DEF Naming
  <1>9. Naming \in Namings(world)
    BY <1>7, <1>8 DEF Namings
  <1> QED  BY <1>4, <1>6, <1>9 DEF Naming

\* What is accepted is closed: with nothing left to do, nothing is on its way.
LEMMA AcceptedIsClosed ==
    ASSUME RegInv, verdict = "accepted"
    PROVE  Closed(world)
  <1> USE DEF RegInv
  <1>1. agenda = <<>> /\ index = Len(references) + 1 /\ Len(references) \in Nat
    BY DEF ReferenceShape, RegistrationTypes
  <1>2. Due = {}
    BY <1>1 DEF Due
  <1>3. /\ Naming \in Namings(world)
        /\ DOMAIN Naming \subseteq Keys /\ DOMAIN resources \subseteq DOMAIN Naming
        /\ \A key \in DOMAIN resources : Naming[key] = resources[key].value
    BY NamingIs
  <1>4. \A key \in DOMAIN resources : resources[key].value \in inspected
    BY <1>2 DEF ResourceShape
  <1>5. world.root \in inspected
    BY <1>4 DEF ResourceShape
  <1>6. ASSUME NEW n \in inspected
        PROVE  Leads(world, Naming, n) \subseteq inspected /\ Sound(world, Naming, n)
    <2> DEFINE schema == world.node[n]
    <2>1. /\ n \in Objects /\ world \in Worlds /\ schema \in Schemas
      BY ObjectIs DEF RegistrationTypes
    <2>2. ToSet(schema.children) \subseteq inspected
      BY <1>2 DEF ObjectShape
    <2>3. schema.dialect # None => schema.dialect \in checked \cup {Draft}
      BY <1>2 DEF ObjectShape, DialectDue
    <2>4. Noted(n) /\ schema.valid
      BY <1>2 DEF ObjectShape
    <2>5. schema.refs \in Seq(References) /\ schema.dialect \in Keys \cup {None}
      BY <2>1 DEF Schemas
    <2>6. ASSUME NEW ref \in ToSet(schema.refs)
          PROVE  /\ ref \in References
                 /\ ref.key \notin Builtins =>
                       /\ ref.key \in DOMAIN resources
                       /\ \/ ref.fragment = Whole
                          \/ /\ ref.fragment \in world.node[resources[ref.key].value].parts
                             /\ ref.fragment \in inspected
                          \/ /\ ref.fragment \notin Objects
                             /\ Anchored(world, resources[ref.key].value, ref.fragment)
      <3>1. PICK i \in 1 .. Len(schema.refs) : ref = schema.refs[i]
        BY <2>5 DEF ToSet
      <3>2. PICK j \in 1 .. Len(references) : references[j] = ref
        BY <2>4, <3>1 DEF Noted
      <3>3. Leading(ref)
        BY <1>1, <3>2 DEF ReferenceShape
      <3>4. ref \in References
        BY <2>5, <3>1
      <3> QED  BY <1>2, <3>3, <3>4 DEF Leading, Pointed
    <2>7. ASSUME NEW d \in checked
          PROVE  d \in DOMAIN resources /\ Grounded(world, Naming, d)
      <3>1. d \in DOMAIN resources /\ Grounded(world, Values, d)
        BY DEF DialectShape
      <3>2. ASSUME NEW set \in SUBSET (Keys \cup {None}), d \in set, Onward(world, Naming, set)
            PROVE  Draft \in set
        <4>1. DOMAIN Values = DOMAIN resources /\ \A k \in DOMAIN resources : Values[k] = Naming[k]
          BY <1>3 DEF Values
        <4>2. Onward(world, Values, set)
          BY <1>3, <3>2, <4>1 DEF Onward
        <4> QED  BY <3>1, <3>2, <4>2 DEF Grounded
      <3> QED  BY <3>1, <3>2 DEF Grounded
    <2>8. Leads(world, Naming, n) \subseteq inspected
      <3> DEFINE outside == {ref \in ToSet(schema.refs) : ref.key \notin Builtins}
                 keys == ({schema.dialect} \ {Draft}) \cup {ref.key : ref \in outside}
      <3>1. \A key \in keys \cap DOMAIN Naming : key \in DOMAIN resources
        <4>1. ASSUME schema.dialect \in DOMAIN Naming, schema.dialect # Draft
              PROVE  schema.dialect \in DOMAIN resources
          BY <4>1, <1>3, <2>3, <2>7, NamesAssumption
        <4>2. \A ref \in outside : ref.key \in DOMAIN resources
          BY <2>6
        <4> QED  BY <4>1, <4>2
      <3>2. \A key \in keys \cap DOMAIN Naming : Naming[key] \in inspected
        BY <3>1, <1>3, <1>4
      <3>3. \A ref \in outside : ref.fragment \in Objects => ref.fragment \in inspected
        BY <2>6, NamesAssumption
      <3>4. Leads(world, Naming, n)
            = ToSet(schema.children) \cup {Naming[key] : key \in keys \cap DOMAIN Naming}
              \cup ({ref.fragment : ref \in outside} \cap Objects)
        BY DEF Leads
      <3> HIDE DEF keys, outside
      <3> QED  BY <2>2, <3>2, <3>3, <3>4
    <2>9. Sound(world, Naming, n)
      <3>1. schema.dialect # None => Grounded(world, Naming, schema.dialect)
        BY <2>3, <2>7 DEF Grounded
      <3>2. \A ref \in ToSet(schema.refs) : Resolves(world, Naming, ref)
        BY <2>6, <1>3 DEF Resolves
      <3> QED  BY <2>4, <3>1, <3>2 DEF Sound, Noted
    <2> QED  BY <2>8, <2>9
  <1>7. Closes(world, Naming, inspected)
    BY <1>5, <1>6 DEF Closes
  <1> QED  BY <1>3, <1>7 DEF Closed, RegistrationTypes


-----------------------------------------------------------------------------
(* A plain world that is closed is not refused: no dialect waits for itself, for there *)
(* would be a set of dialects that goes on and never comes to the draft.               *)

\* A plain world that closes: there is one naming.
Plainly(naming, nodes) ==
    /\ Plain(world) /\ naming \in Namings(world)
    /\ nodes \in SUBSET Objects /\ Closes(world, naming, nodes)

\* In such a world a name is the root's or a document's.
LEMMA PlainNames ==
    ASSUME RegistrationTypes, NEW naming, NEW nodes, Plainly(naming, nodes)
    PROVE  /\ DOMAIN naming = {Default} \cup DOMAIN world.catalog /\ DOMAIN naming \subseteq Keys
           /\ naming[Default] = world.root
           /\ \A key \in DOMAIN world.catalog : key # Default /\ naming[key] = world.catalog[key]
           /\ \A key \in DOMAIN naming : naming[key] \in Objects
           /\ \A key \in Keys, n \in Objects :
                 Means(world, key, n) => key \in DOMAIN naming /\ n = naming[key]
           /\ \A k, l \in DOMAIN naming :
                 k # l => world.node[naming[k]].parts \cap world.node[naming[l]].parts = {}
           /\ \A n \in nodes : n \in Objects /\ world.node[n].valid /\ world.node[n].supported
  <1>1. world \in Worlds /\ WellFormed(world)
    BY WorldsAssumption DEF RegistrationTypes
  <1>2. /\ \A n \in Objects : world.node[n].id = None
        /\ naming \in [NamesOf(world) -> Objects]
        /\ \A key \in NamesOf(world) : Means(world, key, naming[key])
    BY DEF Plainly, Plain, Namings
  <1>3. NamesOf(world) = {Default} \cup DOMAIN world.catalog
    BY <1>2 DEF NamesOf
  <1>4. \A key \in DOMAIN world.catalog : key # Default /\ key \in Keys
    BY <1>1, NamesAssumption DEF WellFormed
  <1>5. \A key \in Keys, n \in Objects :
           Means(world, key, n) => \/ key = Default /\ n = world.root
                                   \/ key \in DOMAIN world.catalog /\ n = world.catalog[key]
    BY <1>2, NamesAssumption DEF Means
  <1>6. Default \in Keys
    BY NamesAssumption
  <1>7. /\ naming[Default] = world.root
        /\ \A key \in DOMAIN world.catalog : naming[key] = world.catalog[key]
    BY <1>2, <1>3, <1>4, <1>5, <1>6
  <1>8. \A k, l \in DOMAIN naming :
           k # l => world.node[naming[k]].parts \cap world.node[naming[l]].parts = {}
    BY <1>1, <1>2, <1>3, <1>7 DEF WellFormed
  <1>9. \A n \in nodes : n \in Objects /\ world.node[n].valid /\ world.node[n].supported
    BY DEF Plainly, Closes, Sound
  <1> QED  BY <1>2, <1>3, <1>4, <1>5, <1>6, <1>7, <1>8, <1>9

\* What a node leads to is in the nodes.
LEMMA PlainLeads ==
    ASSUME RegistrationTypes, NEW naming, NEW nodes, Plainly(naming, nodes), NEW n \in nodes
    PROVE  /\ \A c \in ToSet(world.node[n].children) : c \in nodes /\ world.node[c].dialect = None
           /\ world.node[n].dialect # None =>
                 world.node[n].dialect \in Keys /\ Sustained(naming, nodes, world.node[n].dialect)
           /\ \A i \in 1 .. Len(world.node[n].refs) : Meant(naming, nodes, world.node[n].refs[i])
  <1> DEFINE schema == world.node[n]
             outside == {ref \in ToSet(schema.refs) : ref.key \notin Builtins}
             keys == ({schema.dialect} \ {Draft}) \cup {ref.key : ref \in outside}
  <1>1. n \in Objects /\ world \in Worlds /\ Plain(world) /\ Leads(world, naming, n) \subseteq nodes
        /\ Sound(world, naming, n)
    BY DEF Plainly, Closes, RegistrationTypes
  <1>2. schema.dialect \in Keys \cup {None} /\ schema.refs \in Seq(References)
    BY <1>1, ObjectIs DEF Schemas
  <1>3. /\ ToSet(schema.children) \subseteq nodes
        /\ \A key \in keys \cap DOMAIN naming : naming[key] \in nodes
        /\ \A ref \in outside : ref.fragment \in Objects => ref.fragment \in nodes
    <2>1. Leads(world, naming, n)
          = ToSet(schema.children) \cup {naming[key] : key \in keys \cap DOMAIN naming}
            \cup ({ref.fragment : ref \in outside} \cap Objects)
      BY DEF Leads
    <2> HIDE DEF keys, outside
    <2> QED  BY <2>1, <1>1
  <1>4. \A c \in ToSet(schema.children) : world.node[c].dialect = None
    BY <1>1 DEF Plain
  <1>5. ASSUME schema.dialect # None
        PROVE  schema.dialect \in Keys /\ Sustained(naming, nodes, schema.dialect)
    <2> DEFINE d == schema.dialect
    <2>1. d \in Keys /\ Grounded(world, naming, d)
      BY <1>1, <1>2, <1>5 DEF Sound
    <2>2. ASSUME d # Draft
          PROVE  d \in DOMAIN naming
      <3>1. SUFFICES ASSUME d \notin DOMAIN naming PROVE FALSE
        OBVIOUS
      <3>2. {d} \in SUBSET (Keys \cup {None}) /\ Onward(world, naming, {d})
        BY <2>1, <3>1 DEF Onward
      <3> QED  BY <2>1, <2>2, <3>2 DEF Grounded
    <2>3. d # Draft => naming[d] \in nodes
      BY <1>3, <2>2
    <2> QED  BY <2>1, <2>2, <2>3 DEF Sustained, InNodes
  <1>6. ASSUME NEW i \in 1 .. Len(schema.refs)
        PROVE  Meant(naming, nodes, schema.refs[i])
    <2>1. schema.refs[i] \in ToSet(schema.refs)
      BY <1>2 DEF ToSet
    <2>2. Resolves(world, naming, schema.refs[i])
      BY <1>1, <2>1 DEF Sound
    <2> QED  BY <1>3, <2>1, <2>2 DEF Meant, InNodes, Resolves
  <1> QED  BY <1>3, <1>4, <1>5, <1>6

\* The dialect of a dialect never comes back to it.
LEMMA NoCycle ==
    ASSUME NEW naming, NEW key \in DOMAIN naming, key \in Keys, key # Draft, Draft \in Keys,
           \A k \in DOMAIN naming : world.node[naming[k]].dialect \in Keys \cup {None},
           Grounded(world, naming, key), After(naming, key, key)
    PROVE  FALSE
  <1> DEFINE all == SUBSET (Keys \cup {None})
             dialect(k) == world.node[naming[k]].dialect
             reach == {x \in Keys \cup {None} :
                          \A set \in all : x \in set /\ Onward(world, naming, set) => key \in set}
  <1>1. reach \in all /\ key \in reach
    OBVIOUS
  <1>2. ASSUME NEW x \in (reach \cap DOMAIN naming) \ {Draft}
        PROVE  dialect(x) \in reach
    <2>1. ASSUME NEW set \in all, dialect(x) \in set, Onward(world, naming, set)
          PROVE  key \in set
      <3>1. CASE x = key
        BY <2>1, <3>1 DEF After
      <3>2. CASE x # key
        <4>1. set \cup {x} \in all /\ Onward(world, naming, set \cup {x})
          BY <2>1 DEF Onward
        <4>2. key \in set \cup {x}
          BY <4>1, <1>2
        <4> QED  BY <4>2, <3>2
      <3> QED  BY <3>1, <3>2
    <2>2. dialect(x) \in Keys \cup {None}
      OBVIOUS
    <2> QED  BY <2>1, <2>2
  <1>3. Onward(world, naming, reach)
    BY <1>2 DEF Onward
  <1>4. Draft \in reach
    BY <1>1, <1>3 DEF Grounded
  <1>5. {Draft} \in all /\ Onward(world, naming, {Draft})
    BY DEF Onward
  <1> QED  BY <1>4, <1>5

\* A resource that the world needs is there.
LEMMA PlainPresent ==
    ASSUME RegistrationTypes, ResourceShape, NEW naming, NEW nodes, Plainly(naming, nodes),
           NEW key, InNodes(naming, nodes, key)
    PROVE  ~Missing(key)
  <1>1. key \in {Default} \cup DOMAIN world.catalog /\ naming[key] \in nodes
    BY PlainNames DEF InNodes
  <1>2. CASE key = Default
    BY <1>2 DEF Missing, ResourceShape
  <1>3. CASE key \in DOMAIN world.catalog
    <2>1. naming[key] = world.catalog[key] /\ world.node[naming[key]].valid
      BY <1>1, <1>3, PlainNames
    <2> QED  BY <1>3, <2>1 DEF Missing
  <1> QED  BY <1>1, <1>2, <1>3

\* An anchor of a resource is where the walk has been, once there is nothing else to do.
LEMMA PlainAnchor ==
    ASSUME RegInv, NEW naming, NEW nodes, Plainly(naming, nodes), Accepting(naming, nodes),
           NEW key \in Keys, NEW f \in Fragments, Due = {ToPoint(key, f)}, f \notin Objects,
           Anchored(world, naming[key], f)
    PROVE  <<resources[key].base, f>> \in anchors
  <1> USE DEF RegInv
  <1>1. key \in DOMAIN resources
    BY DEF KeyShape
  <1>2. /\ \A k \in DOMAIN resources : /\ k \in DOMAIN naming /\ resources[k].value = naming[k]
                                       /\ resources[k].base = k
    BY DEF Accepting
  <1>3. /\ \A n, base : ToInspect(n, base) \notin Due /\ ToNote(n, base) \notin Due
    BY TasksApart
  <1>4. naming[key] \in inspected
    BY <1>1, <1>2, <1>3 DEF ResourceShape
  <1>5. \A n \in inspected : ToSet(world.node[n].children) \subseteq inspected /\ Noted(n)
    BY <1>3 DEF ObjectShape
  <1>6. PICK m \in world.node[naming[key]].parts : f \in world.node[m].anchors
    BY DEF Anchored
  <1>7. Reached(world, naming[key], m)
    <2>1. naming[key] \in Objects
      BY <1>4 DEF RegistrationTypes
    <2>2. Plain(world)
      BY DEF Plainly
    <2> QED  BY <2>1, <2>2, <1>6 DEF Plain
  <1>8. m \in inspected
    BY <1>4, <1>5, <1>7 DEF Reached, RegistrationTypes
  <1>9. PICK base \in Keys : <<base, f>> \in anchors /\ Base(m, base)
    BY <1>5, <1>6, <1>8 DEF Noted
  <1>10. base = key
    <2>1. base \in DOMAIN naming /\ m \in world.node[naming[base]].parts
      BY <1>2, <1>9 DEF Base
    <2>2. key \in DOMAIN naming
      BY <1>1, <1>2
    <2> QED  BY <2>1, <2>2, <1>6, PlainNames
  <1> QED  BY <1>1, <1>2, <1>9, <1>10


\* The dialects of named schemas.
LEMMA PlainDialects ==
    ASSUME RegistrationTypes, NEW naming, NEW nodes, Plainly(naming, nodes)
    PROVE  \A key \in DOMAIN naming : world.node[naming[key]].dialect \in Keys \cup {None}
  <1>1. \A key \in DOMAIN naming : naming[key] \in Objects
    BY PlainNames
  <1>2. \A n \in Objects : world.node[n].dialect \in Keys \cup {None}
    BY ObjectIs DEF Schemas, RegistrationTypes
  <1> QED  BY <1>1, <1>2

\* Resources of a plain world are its documents, under their names.
LEMMA PlainResources ==
    ASSUME RegistrationTypes, ResourceShape, NEW naming, NEW nodes, Plainly(naming, nodes),
           NEW key \in DOMAIN resources
    PROVE  key \in DOMAIN naming /\ resources[key].value = naming[key]
  <1>1. key \in Keys /\ resources[key].value \in Objects /\ Means(world, key, resources[key].value)
    BY DEF RegistrationTypes, ResourceShape
  <1> QED  BY <1>1, PlainNames

\* Nothing is refused in it.
LEMMA PlainGoesOn ==
    ASSUME RegInv, NEW naming, NEW nodes, Plainly(naming, nodes), Accepting(naming, nodes),
           RegistrationNext
    PROVE  verdict' # "refused"
  <1> USE DEF RegInv
  <1> SUFFICES ASSUME verdict' = "refused" PROVE FALSE
    OBVIOUS
  <1>0. verdict # "refused" /\ world \in Worlds /\ Plain(world)
    BY DEF Accepting, Plainly, RegistrationTypes
  <1>1. ~Continue(<<>>) /\ \A tasks : ~Continue(tasks)
    BY <1>0 DEF Continue
  <1>2. \A key, then : ~Load(key, then)
    BY <1>1 DEF Load
  <1>3. ASSUME NEW do, Doing(do)
        PROVE  /\ agenda # <<>> /\ Head(agenda) \in Due /\ Head(agenda) = agenda[1]
               /\ 1 \in 1 .. Len(agenda) /\ Head(agenda).do = do
    BY <1>3, HeadIs DEF Doing
  <1>4. ASSUME Inspect
        PROVE  FALSE
    <2>1. Head(agenda).what \in Objects
      BY <1>4, HeadIs DEF Inspect, Doing
    <2>2. world.node[Head(agenda).what].id = None
      BY <2>1, <1>0 DEF Plain
    <2> QED  BY <1>1, <1>4, <2>2 DEF Inspect
  <1>5. ASSUME Note
        PROVE  FALSE
    <2> DEFINE n == Head(agenda).what
               base == Head(agenda).key
    <2>1. ToNote(n, base) \in Due /\ n \in Objects /\ base \in Keys
      BY <1>5, HeadIs DEF Note, Doing
    <2>2. n \in inspected
      BY <2>1 DEF PlaceShape
    <2>3. n \in nodes
      BY <2>2 DEF Accepting
    <2>4. world.node[n].supported
      BY <2>3, PlainNames
    <2> QED  BY <1>1, <1>5, <2>4 DEF Note
  <1>6. ASSUME CheckDialect
        PROVE  FALSE
    <2> DEFINE key == Head(agenda).key
    <2>1. ToCheck(key) \in Due /\ key \in Keys /\ ToCheck(key) = agenda[1] /\ 1 \in 1 .. Len(agenda)
      BY <1>6, HeadIs DEF CheckDialect, Doing
    <2>2. Sustained(naming, nodes, key)
      BY <2>1 DEF Accepting, Tasked, Good
    <2>3. key \notin checked \cup {Draft} /\ (key \in active \/ Missing(key))
      BY <1>1, <1>2, <1>6 DEF CheckDialect
    <2>4. InNodes(naming, nodes, key) /\ key # Draft /\ Grounded(world, naming, key)
      BY <2>2, <2>3 DEF Sustained
    <2>5. ~Missing(key)
      BY <2>4, PlainPresent
    <2>6. PICK j \in 1 .. Len(agenda) : agenda[j] \in {ToSpeak(key), ToPass(key)}
      BY <2>3, <2>5 DEF Accepting, Due
    <2>7. j # 1
      BY <2>1, <2>6, TasksApart
    <2>8. 1 < j
      BY <2>1, <2>6, <2>7
    <2>9. Chain(naming)
      BY DEF Accepting
    <2>10. After(naming, key, key)
      BY <2>1, <2>6, <2>8, <2>9 DEF Chain, Behind
    <2>11. key \in DOMAIN naming /\ Draft \in Keys
      BY <2>4, NamesAssumption DEF InNodes
    <2> QED  BY <2>1, <2>4, <2>10, <2>11, NoCycle, PlainDialects
  <1>7. ASSUME Speak
        PROVE  FALSE
    <2> DEFINE key == Head(agenda).key
    <2>1. ToSpeak(key) \in Due /\ key \in Keys
      BY <1>7, HeadIs DEF Speak, Doing
    <2>2. Sustained(naming, nodes, key) /\ key # Draft /\ key \in DOMAIN resources
      BY <2>1 DEF Accepting, Tasked, Good, KeyShape
    <2>3. world.node[resources[key].value].dialect = None
      BY <1>1, <1>7 DEF Speak
    <2>4. key \in DOMAIN naming /\ world.node[naming[key]].dialect = None
      BY <2>2, <2>3, PlainResources
    <2>5. None \notin DOMAIN naming /\ Draft # None
      BY PlainNames, NamesAssumption
    <2>6. {key, None} \in SUBSET (Keys \cup {None}) /\ Onward(world, naming, {key, None})
      BY <2>1, <2>4, <2>5 DEF Onward
    <2>7. Draft \in {key, None}
      BY <2>2, <2>6 DEF Sustained, Grounded
    <2> QED  BY <2>2, <2>5, <2>7
  <1>8. ASSUME Follow
        PROVE  FALSE
    <2> DEFINE ref == references[index]
    <2>1. index \in 1 .. Len(references) /\ ref \in References
      BY <1>8 DEF Follow, RegistrationTypes
    <2>2. Meant(naming, nodes, ref)
      BY <2>1 DEF Accepting
    <2>3. ref.key \notin Builtins /\ Missing(ref.key)
      BY <1>0, <1>2, <1>8 DEF Follow, Skip
    <2>4. InNodes(naming, nodes, ref.key)
      BY <2>2, <2>3 DEF Meant
    <2> QED  BY <2>3, <2>4, PlainPresent
  <1>9. ASSUME Point
        PROVE  FALSE
    <2> DEFINE key == Head(agenda).key
               f == Head(agenda).what
               ref == [key |-> key, fragment |-> f]
    <2>1. /\ Head(agenda) = ToPoint(key, f) /\ ToPoint(key, f) \in Due /\ key \in Keys /\ f \in Fragments
          /\ 1 \in 1 .. Len(agenda) /\ agenda[1] = ToPoint(key, f) /\ agenda[1].do = "point"
      BY <1>9, HeadIs DEF Point, Doing
    <2>2. key \notin Builtins /\ Meant(naming, nodes, ref) /\ key \in DOMAIN resources
      BY <2>1 DEF Accepting, Tasked, Good, KeyShape
    <2>3. InNodes(naming, nodes, key) /\ (f \in Objects => f \in nodes) /\ Resolves(world, naming, ref)
      BY <2>2 DEF Meant
    <2>4. naming[key] = resources[key].value /\ f # Whole
      BY <2>1, <2>2, PlainResources, NamesAssumption
    <2>5. f \in world.node[naming[key]].parts \/ (f \notin Objects /\ Anchored(world, naming[key], f))
      BY <2>2, <2>3, <2>4 DEF Resolves
    <2>6. naming[key] \in Objects
      BY <2>3, PlainNames DEF InNodes
    <2>7. world.node[naming[key]].parts \subseteq Objects
      BY <2>6, <1>0, ObjectIs
    <2>8. CASE f \in Objects
      <3>1. f \in world.node[resources[key].value].parts /\ world.node[f].valid
        BY <2>3, <2>4, <2>5, <2>8, PlainNames
      <3> QED  BY <1>1, <1>9, <2>8, <3>1 DEF Point
    <2>9. CASE f \notin Objects
      <3>1. Anchored(world, naming[key], f)
        BY <2>5, <2>7, <2>9
      <3>2. Len(agenda) = 1
        BY <2>1 DEF Accepting, Tasked, Good
      <3>3. Due = {ToPoint(key, f)}
        BY <2>1, <3>2 DEF Due
      <3>4. <<resources[key].base, f>> \in anchors
        BY <2>1, <2>9, <3>1, <3>3, PlainAnchor
      <3> QED  BY <1>1, <1>9, <2>9, <3>4 DEF Point
    <2> QED  BY <2>8, <2>9
  <1>10. ~Pass /\ ~Finish
    BY <1>1 DEF Pass, Finish
  <1> QED  BY <1>4, <1>5, <1>6, <1>7, <1>8, <1>9, <1>10 DEF RegistrationNext


\* After a dialect comes its own.
LEMMA AfterNext ==
    ASSUME NEW naming, NEW key, NEW k \in DOMAIN naming, k # Draft, After(naming, key, k)
    PROVE  After(naming, key, world.node[naming[k]].dialect)
  BY DEF After, Onward

\* What a move adds to the tasks of a plain world is in the nodes too.
LEMMA PlainBrings ==
    ASSUME RegInv, NEW naming, NEW nodes, Plainly(naming, nodes), Accepting(naming, nodes), Moves,
           NEW tasks \in Seq(Tasks), Brings(tasks), NEW i \in 1 .. Len(tasks)
    PROVE  /\ Good(naming, nodes, tasks[i])
           /\ tasks[i].do = "point" => agenda = <<>> /\ i = Len(tasks)
  <1> USE DEF RegInv
  <1> DEFINE Goal == /\ Good(naming, nodes, tasks[i])
                     /\ tasks[i].do = "point" => agenda = <<>> /\ i = Len(tasks)
  <1>0. \A task \in Due : Good(naming, nodes, task)
    BY DEF Accepting, Tasked
  <1>h. agenda # <<>> => Head(agenda) \in Due
    BY DEF Moves
  <1>a. \A n \in nodes, base \in Keys : Good(naming, nodes, ToInspect(n, base)) /\ ToInspect(n, base).do # "point"
    BY TasksApart DEF Good
  <1>b. \A key \in Keys : Sustained(naming, nodes, key) =>
           \A task \in {ToCheck(key), ToSpeak(key), ToPass(key)} :
              Good(naming, nodes, task) /\ task.do # "point"
    <2> SUFFICES ASSUME NEW key \in Keys, Sustained(naming, nodes, key),
                        NEW task \in {ToCheck(key), ToSpeak(key), ToPass(key)}
                 PROVE  Good(naming, nodes, task) /\ task.do # "point"
      OBVIOUS
    <2>1. task.do \in {"check", "speak", "pass"}
      BY TasksApart
    <2>2. /\ \A n, base : task # ToInspect(n, base)
          /\ \A k, f : task # ToPoint(k, f)
          /\ \A k : task \in {ToCheck(k), ToSpeak(k), ToPass(k)} => k = key
      BY <2>1, TasksApart
    <2> QED  BY <2>1, <2>2 DEF Good
  <1>c. \A n, base : Good(naming, nodes, ToNote(n, base)) /\ ToNote(n, base).do # "point"
    BY TasksApart DEF Good
  <1>1. ASSUME NEW n \in Objects, NEW base \in Keys, NEW own \in Keys, Walks(n, base, own),
               tasks = Walk(n, own), agenda # <<>>
        PROVE  Goal
    <2>1. n \in nodes
      BY <1>0, <1>1, <1>h DEF Good, Walks
    <2>2. \/ world.node[n].dialect # None /\ tasks[i] = ToCheck(world.node[n].dialect)
          \/ tasks[i] = ToNote(n, own)
          \/ \E c \in ToSet(world.node[n].children) : tasks[i] = ToInspect(c, own)
      BY <1>1, WalkIs
    <2>3. /\ \A c \in ToSet(world.node[n].children) : c \in nodes
          /\ world.node[n].dialect # None =>
                world.node[n].dialect \in Keys /\ Sustained(naming, nodes, world.node[n].dialect)
      BY <2>1, PlainLeads
    <2> QED  BY <2>2, <2>3, <1>a, <1>b, <1>c
  <1>2. ASSUME NEW key \in Keys, NEW then \in Seq(Tasks), Brought(key, then, tasks),
               InNodes(naming, nodes, key)
        PROVE  \/ Goal
               \/ tasks = then
               \/ Len(tasks) = Len(then) + 1 /\ i # 1 /\ i - 1 \in 1 .. Len(then) /\ tasks[i] = then[i - 1]
    <2>1. Len(then) \in Nat
      OBVIOUS
    <2>2. CASE tasks # then
      <3>1. /\ key \in DOMAIN world.catalog /\ Len(tasks) = Len(then) + 1
            /\ tasks[1] = ToInspect(world.catalog[key], key)
            /\ \A j \in 1 .. Len(then) : tasks[j + 1] = then[j]
        BY <1>2, <2>2 DEF Brought
      <3>2. CASE i = 1
        <4>1. world.catalog[key] \in nodes
          BY <1>2, <3>1, PlainNames DEF InNodes
        <4> QED  BY <3>1, <3>2, <4>1, <1>a
      <3>3. CASE i # 1
        <4>1. i - 1 \in 1 .. Len(then) /\ tasks[(i - 1) + 1] = then[i - 1] /\ (i - 1) + 1 = i
          BY <2>1, <3>1, <3>3
        <4> QED  BY <3>1, <3>3, <4>1
      <3> QED  BY <3>2, <3>3
    <2> QED  BY <2>2
  <1>3. ASSUME NEW key \in Keys, Opens(key), Brought(key, <<ToSpeak(key)>>, tasks), agenda # <<>>
        PROVE  Goal
    <2>1. Sustained(naming, nodes, key) /\ key # Draft
      BY <1>0, <1>3, <1>h DEF Good, Opens
    <2>2. InNodes(naming, nodes, key)
      BY <2>1 DEF Sustained
    <2> DEFINE then == <<ToSpeak(key)>>
    <2>3. then \in Seq(Tasks) /\ Brought(key, then, tasks) /\ \A j \in 1 .. Len(then) : then[j] = ToSpeak(key)
      BY <1>3, ThenIs
    <2> HIDE DEF then
    <2>4. Goal \/ tasks[i] = ToSpeak(key)
      BY <2>2, <2>3, <1>2
    <2> QED  BY <2>1, <2>4, <1>b
  <1>4. ASSUME NEW key \in Keys, NEW d \in Keys, Speaks(key, d), tasks = <<ToCheck(d), ToPass(key)>>,
               agenda # <<>>
        PROVE  Goal
    <2>1. Sustained(naming, nodes, key) /\ key # Draft /\ key \in DOMAIN resources
      BY <1>0, <1>4, <1>h DEF Good, Speaks, KeyShape
    <2>2. naming[key] \in nodes /\ d = world.node[naming[key]].dialect /\ d # None
      BY <1>4, <2>1, PlainResources DEF Sustained, InNodes, Speaks
    <2>3. Sustained(naming, nodes, d)
      BY <2>2, PlainLeads
    <2>4. tasks[i] = ToCheck(d) \/ tasks[i] = ToPass(key)
      BY <1>4
    <2> QED  BY <2>1, <2>3, <2>4, <1>b
  <1>5. ASSUME NEW key \in Keys, NEW f \in Fragments, Points(key, f, tasks), agenda # <<>>
        PROVE  Goal
    <2>1. Meant(naming, nodes, [key |-> key, fragment |-> f]) /\ key \notin Builtins
      BY <1>0, <1>5, <1>h DEF Good, Points
    <2>2. f \in Objects => f \in nodes
      BY <2>1 DEF Meant
    <2>3. key \in DOMAIN resources /\ resources[key].base \in Keys
      BY <1>5 DEF Points, RegistrationTypes
    <2>4. f \in Objects /\ tasks[i] = ToInspect(f, resources[key].base)
      BY <1>5 DEF Points
    <2> QED  BY <2>2, <2>3, <2>4, <1>a
  <1>6. ASSUME NEW ref \in References, NEW then \in Seq(Tasks), Follows(ref, then),
               Brought(ref.key, then, tasks)
        PROVE  Goal
    <2>1. index \in 1 .. Len(references) /\ ref = references[index] /\ ref.key \notin Builtins
          /\ agenda = <<>> /\ ref.key \in Keys
      BY <1>6 DEF Follows, RegistrationTypes, References
    <2>2. Meant(naming, nodes, ref)
      BY <2>1 DEF Accepting
    <2>3. InNodes(naming, nodes, ref.key)
      BY <2>1, <2>2 DEF Meant
    <2>4. \/ Goal
          \/ tasks = then
          \/ Len(tasks) = Len(then) + 1 /\ i # 1 /\ i - 1 \in 1 .. Len(then) /\ tasks[i] = then[i - 1]
      BY <2>1, <2>3, <1>2, <1>6
    <2>5. CASE then = <<>>
      BY <2>4, <2>5
    <2>6. CASE ref.fragment \in Fragments /\ then = <<ToPoint(ref.key, ref.fragment)>>
      <3>1. ref = [key |-> ref.key, fragment |-> ref.fragment]
        BY DEF References
      <3>2. Good(naming, nodes, ToPoint(ref.key, ref.fragment))
        BY <2>1, <2>2, <2>6, <3>1, TasksApart DEF Good
      <3> DEFINE task == ToPoint(ref.key, ref.fragment)
      <3> HIDE DEF Goal, task
      <3>4. Len(then) = 1 /\ then[1] = task
        BY <2>6 DEF task
      <3>5. tasks = then => tasks[i] = task /\ i = Len(tasks)
        <4>1. SUFFICES ASSUME tasks = then PROVE tasks[i] = task /\ i = Len(tasks)
          OBVIOUS
        <4>2. Len(tasks) = 1 /\ tasks[1] = task
          BY <3>4, <4>1
        <4>3. i = 1
          BY <4>2
        <4> QED  BY <4>2, <4>3
      <3>6. Len(tasks) = Len(then) + 1 /\ i # 1 /\ i - 1 \in 1 .. Len(then) /\ tasks[i] = then[i - 1]
            => tasks[i] = task /\ i = Len(tasks)
        BY <3>4
      <3>3. Goal \/ (tasks[i] = ToPoint(ref.key, ref.fragment) /\ i = Len(tasks))
        BY <2>4, <3>4, <3>5, <3>6 DEF task
      <3> QED  BY <2>1, <3>2, <3>3 DEF Goal
    <2> QED  BY <1>6, <2>5, <2>6 DEF Follows
  <1>7. tasks # <<>>
    OBVIOUS
  <1> QED  BY <1>1, <1>3, <1>4, <1>5, <1>6, <1>7 DEF Brings

\* The dialects on their way, in the order they come.
LEMMA PlainChain ==
    ASSUME RegInv, NEW naming, NEW nodes, Plainly(naming, nodes), Accepting(naming, nodes), Moves,
           NEW tasks \in Seq(Tasks), Brings(tasks), NEW key \in Keys, NEW i \in 1 .. Len(tasks)
    PROVE  /\ \A j \in 1 .. Len(tasks) :
                 i < j /\ tasks[j] \in {ToSpeak(key), ToPass(key)} => Behind(naming, key, tasks[i])
           /\ agenda # <<>> /\ Head(agenda).do # "point" /\ Behind(naming, key, Head(agenda))
              => Behind(naming, key, tasks[i])
  <1> USE DEF RegInv
  <1>0. \A task \in Due : Good(naming, nodes, task)
    BY DEF Accepting, Tasked
  <1>h. agenda # <<>> => Head(agenda) \in Due
    BY DEF Moves
  <1>a. \A d \in Keys : After(naming, key, d) =>
           \A task \in {ToCheck(d), ToSpeak(d), ToPass(d)} : Behind(naming, key, task)
    <2> SUFFICES ASSUME NEW d \in Keys, After(naming, key, d), NEW task \in {ToCheck(d), ToSpeak(d), ToPass(d)}
                 PROVE  Behind(naming, key, task)
      OBVIOUS
    <2>1. /\ \A n, base : task # ToInspect(n, base)
          /\ \A k : task \in {ToCheck(k), ToSpeak(k), ToPass(k)} => k = d
      BY TasksApart
    <2> QED  BY <2>1 DEF Behind
  <1>b. \A n \in Objects, base \in Keys :
           (world.node[n].dialect # None => After(naming, key, world.node[n].dialect))
           => Behind(naming, key, ToInspect(n, base))
    BY TasksApart DEF Behind
  <1>c. \A n, base : Behind(naming, key, ToNote(n, base))
    BY TasksApart DEF Behind
  <1>d. After(naming, key, world.node[naming[key]].dialect)
    BY DEF After
  <1>1. ASSUME NEW j \in 1 .. Len(tasks), i < j, tasks[j] = ToPass(key)
        PROVE  Behind(naming, key, tasks[i])
    <2>1. key \in DOMAIN resources /\ j = 2 /\ tasks[1] = ToCheck(world.node[resources[key].value].dialect)
      BY <1>1, BringsPass
    <2>2. i = 1 /\ tasks[i] = ToCheck(world.node[naming[key]].dialect) /\ key \in DOMAIN naming
      BY <1>1, <2>1, PlainResources
    <2>3. tasks[i] \in Tasks /\ tasks[i].do = "check"
      BY <2>2, TasksApart
    <2>4. world.node[naming[key]].dialect \in Keys
      BY <2>2, <2>3 DEF Tasks, ToCheck, Task
    <2> QED  BY <2>2, <2>4, <1>a, <1>d
  <1>2. ASSUME NEW j \in 1 .. Len(tasks), i < j, tasks[j] = ToSpeak(key)
        PROVE  Behind(naming, key, tasks[i])
    <2>0. tasks[j].do = "speak"
      BY <1>2, TasksApart
    <2>1. ASSUME NEW n \in Objects, NEW own \in Keys, tasks = Walk(n, own)
          PROVE  FALSE
      <3>1. \/ tasks[j] = ToCheck(world.node[n].dialect)
            \/ tasks[j] = ToNote(n, own)
            \/ \E c \in ToSet(world.node[n].children) : tasks[j] = ToInspect(c, own)
        BY <2>1, WalkIs
      <3> QED  BY <3>1, <2>0, TasksApart
    <2>2. ASSUME NEW k \in Keys, Brought(k, <<ToSpeak(k)>>, tasks)
          PROVE  Behind(naming, key, tasks[i])
      <3> DEFINE then == <<ToSpeak(k)>>
      <3>1. Len(then) = 1 /\ then[1] = ToSpeak(k) /\ Brought(k, then, tasks)
        BY <2>2
      <3> HIDE DEF then
      <3>2. /\ k \in DOMAIN world.catalog /\ world.catalog[k] \in Objects
            /\ tasks[1] = ToInspect(world.catalog[k], k) /\ Len(tasks) = 2
            /\ \A h \in 1 .. Len(then) : tasks[h + 1] = then[h]
        BY <3>1, <1>2 DEF Brought
      <3>3. tasks[1 + 1] = ToSpeak(k) /\ i = 1 /\ j = 2
        BY <3>1, <3>2, <1>2
      <3>4. k = key
        BY <3>3, <1>2, TasksApart
      <3>5. naming[key] = world.catalog[k]
        BY <3>2, <3>4, PlainNames
      <3> QED  BY <3>2, <3>3, <3>4, <3>5, <1>b, <1>d
    <2>3. ASSUME NEW ref \in References, NEW then \in Seq(Tasks), Follows(ref, then),
                 Brought(ref.key, then, tasks)
          PROVE  FALSE
      <3>1. Len(then) \in Nat /\ \A h \in 1 .. Len(then) : then[h].do = "point"
        BY <2>3, TasksApart DEF Follows
      <3>2. CASE tasks = then
        BY <3>1, <3>2, <2>0
      <3>3. CASE tasks # then
        <4>1. /\ Len(tasks) = Len(then) + 1
              /\ \A h \in 1 .. Len(then) : tasks[h + 1] = then[h]
          BY <2>3, <3>3 DEF Brought
        <4>2. j - 1 \in 1 .. Len(then) /\ tasks[(j - 1) + 1] = then[j - 1] /\ (j - 1) + 1 = j
          BY <4>1, <3>1, <1>2
        <4> QED  BY <4>2, <3>1, <2>0
      <3> QED  BY <3>2, <3>3
    <2>4. ASSUME NEW k \in Keys, NEW d \in Keys, tasks = <<ToCheck(d), ToPass(k)>>
          PROVE  FALSE
      <3>1. j = 2 /\ tasks[2] = ToPass(k)
        BY <2>4, <1>2
      <3> QED  BY <3>1, <2>0, TasksApart
    <2>5. ASSUME NEW k \in Keys, NEW f \in Fragments, Points(k, f, tasks)
          PROVE  FALSE
      BY <2>5, <1>2 DEF Points
    <2>6. tasks # <<>>
      OBVIOUS
    <2> QED  BY <2>1, <2>2, <2>3, <2>4, <2>5, <2>6 DEF Brings
  <1>3. ASSUME agenda # <<>>, Head(agenda).do # "point", Behind(naming, key, Head(agenda))
        PROVE  Behind(naming, key, tasks[i])
    <2>1. ASSUME NEW n \in Objects, NEW base \in Keys, NEW own \in Keys, Walks(n, base, own), tasks = Walk(n, own)
          PROVE  Behind(naming, key, tasks[i])
      <3>1. n \in nodes
        BY <1>0, <1>3, <2>1, <1>h DEF Good, Walks
      <3>2. world.node[n].dialect # None => After(naming, key, world.node[n].dialect)
        BY <1>3, <2>1 DEF Behind, Walks
      <3>3. /\ \A c \in ToSet(world.node[n].children) : c \in Objects /\ world.node[c].dialect = None
            /\ world.node[n].dialect # None => world.node[n].dialect \in Keys
        BY <3>1, PlainLeads, PlainNames
      <3>4. \/ world.node[n].dialect # None /\ tasks[i] = ToCheck(world.node[n].dialect)
            \/ tasks[i] = ToNote(n, own)
            \/ \E c \in ToSet(world.node[n].children) : tasks[i] = ToInspect(c, own)
        BY <2>1, WalkIs
      <3> QED  BY <3>2, <3>3, <3>4, <1>a, <1>b, <1>c
    <2>2. ASSUME NEW k \in Keys, Opens(k), Brought(k, <<ToSpeak(k)>>, tasks)
          PROVE  Behind(naming, key, tasks[i])
      <3>1. After(naming, key, k) /\ k # Draft
        BY <1>3, <2>2 DEF Behind, Opens
      <3> DEFINE then == <<ToSpeak(k)>>
      <3>2. Len(then) = 1 /\ then[1] = ToSpeak(k) /\ Brought(k, then, tasks)
        BY <2>2
      <3> HIDE DEF then
      <3>3. CASE tasks[i] = ToSpeak(k)
        BY <3>1, <3>3, <1>a
      <3>4. CASE tasks[i] # ToSpeak(k)
        <4>1. /\ k \in DOMAIN world.catalog /\ world.catalog[k] \in Objects
              /\ tasks[1] = ToInspect(world.catalog[k], k) /\ Len(tasks) = 2
              /\ \A h \in 1 .. Len(then) : tasks[h + 1] = then[h]
          BY <3>2, <3>4 DEF Brought
        <4>2. tasks[1 + 1] = ToSpeak(k)
          BY <3>2, <4>1
        <4>3. i = 1
          BY <3>4, <4>1, <4>2
        <4>4. naming[k] = world.catalog[k] /\ k \in DOMAIN naming
          BY <4>1, PlainNames
        <4>5. After(naming, key, world.node[world.catalog[k]].dialect)
          BY <3>1, <4>4, AfterNext
        <4> QED  BY <4>1, <4>3, <4>5, <1>b
      <3> QED  BY <3>3, <3>4
    <2>3. ASSUME NEW k \in Keys, NEW d \in Keys, Speaks(k, d), tasks = <<ToCheck(d), ToPass(k)>>
          PROVE  Behind(naming, key, tasks[i])
      <3>1. After(naming, key, k) /\ ToSpeak(k) \in Due
        BY <1>3, <2>3, <1>h DEF Behind, Speaks
      <3>2. k # Draft /\ k \in DOMAIN resources
        BY <3>1 DEF KeyShape
      <3>3. k \in DOMAIN naming /\ d = world.node[naming[k]].dialect
        BY <2>3, <3>2, PlainResources DEF Speaks
      <3>4. After(naming, key, d)
        BY <3>1, <3>2, <3>3, AfterNext
      <3>5. tasks[i] = ToCheck(d) \/ tasks[i] = ToPass(k)
        BY <2>3
      <3> QED  BY <3>1, <3>4, <3>5, <1>a
    <2>4. ASSUME NEW k \in Keys, NEW f \in Fragments, Points(k, f, tasks)
          PROVE  FALSE
      BY <1>3, <2>4, TasksApart DEF Points
    <2>5. ASSUME NEW ref \in References, NEW then \in Seq(Tasks), Follows(ref, then)
          PROVE  FALSE
      BY <1>3, <2>5 DEF Follows
    <2>6. tasks # <<>>
      OBVIOUS
    <2> QED  BY <2>1, <2>2, <2>3, <2>4, <2>5, <2>6 DEF Brings
  <1> QED  BY <1>1, <1>2, <1>3


\* A step in a plain world: what is looked into stays in the nodes.
LEMMA PlainStep ==
    ASSUME RegInv, RegInv', NEW naming, NEW nodes, Plainly(naming, nodes), Accepting(naming, nodes),
           [RegistrationNext]_registrationVars
    PROVE  Accepting(naming, nodes)'
  <1> USE DEF RegInv
  <1>0. verdict' # "refused"
    <2>1. CASE RegistrationNext
      BY <2>1, PlainGoesOn
    <2>2. CASE UNCHANGED registrationVars
      BY <2>2 DEF registrationVars, Accepting
    <2> QED  BY <2>1, <2>2
  <1>1. CASE Stops
    BY <1>0, <1>1, StopsStep
       DEF Accepting, Tasked, Good, Chain, Behind, Sustained, Meant, InNodes, Resolves, Anchored,
           Grounded, Onward, After
  <1>2. CASE Moves
    <2>1. Grown /\ world' = world
      BY <1>2, Grows DEF Grown
    <2>2. PICK tasks \in Seq(Tasks) : Shifted(tasks) /\ Brings(tasks)
      BY <1>2, Shifts
    <2>3. agenda \in Seq(Tasks) /\ agenda' \in Seq(Tasks) /\ Len(agenda) \in Nat /\ Len(tasks) \in Nat
          /\ Len(agenda') \in Nat /\ (agenda # <<>> => Head(agenda) = agenda[1])
      BY DEF RegistrationTypes
    <2>4. \A task : Good(naming, nodes, task) => Good(naming, nodes, task)'
      BY <2>1 DEF Good, Sustained, Meant, InNodes, Resolves, Anchored, Grounded, Onward
    <2>5. \A key, task : Behind(naming, key, task) => Behind(naming, key, task)'
      BY <2>1 DEF Behind, After, Onward
    <2>6. Tasked(naming, nodes)'
      <3>1. ASSUME NEW task \in Due'
            PROVE  Good(naming, nodes, task)'
        <4>1. PICK j \in 1 .. Len(agenda') : task = agenda'[j]
          BY DEF Due
        <4>2. CASE j \in 1 .. Len(tasks)
          <5>1. task = tasks[j]
            BY <2>2, <4>1, <4>2 DEF Shifted
          <5> QED  BY <1>2, <2>2, <2>4, <4>2, <5>1, PlainBrings
        <4>3. CASE j \notin 1 .. Len(tasks)
          <5>1. j - Len(tasks) + 1 \in 1 .. Len(agenda) /\ task = agenda[j - Len(tasks) + 1]
            BY <2>2, <2>3, <4>1, <4>3 DEF Shifted
          <5> QED  BY <2>4, <5>1 DEF Accepting, Tasked, Due
        <4> QED  BY <4>2, <4>3
      <3>2. ASSUME NEW j \in 1 .. Len(agenda'), agenda'[j].do = "point"
            PROVE  j = Len(agenda')
        <4>1. CASE j \in 1 .. Len(tasks)
          <5>1. tasks[j].do = "point"
            BY <2>2, <3>2, <4>1 DEF Shifted
          <5>2. agenda = <<>> /\ j = Len(tasks)
            BY <1>2, <2>2, <4>1, <5>1, PlainBrings
          <5> QED  BY <2>2, <5>2 DEF Shifted
        <4>2. CASE j \notin 1 .. Len(tasks)
          <5>1. /\ j - Len(tasks) + 1 \in 2 .. Len(agenda) /\ agenda[j - Len(tasks) + 1].do = "point"
                /\ Len(agenda') = IF agenda = <<>> THEN Len(tasks) ELSE Len(tasks) + Len(agenda) - 1
            BY <2>2, <3>2, <4>2 DEF Shifted
          <5>2. j - Len(tasks) + 1 \in 1 .. Len(agenda) /\ agenda # <<>>
            BY <2>3, <5>1
          <5>3. j - Len(tasks) + 1 = Len(agenda)
            BY <5>1, <5>2 DEF Accepting, Tasked
          <5> QED  BY <2>3, <5>1, <5>2, <5>3
        <4> QED  BY <4>1, <4>2
      <3> QED  BY <3>1, <3>2 DEF Tasked
    <2>7. Chain(naming)'
      <3> SUFFICES ASSUME NEW j \in 1 .. Len(agenda'), NEW i \in 1 .. Len(agenda'), NEW key \in Keys,
                          i < j, agenda'[j] \in {ToSpeak(key), ToPass(key)}
                   PROVE  \E task : task = agenda'[i] /\ Behind(naming, key, task)
        BY <2>1 DEF Chain, Behind, After, Onward
      <3> DEFINE h == j - Len(tasks) + 1
                 g == i - Len(tasks) + 1
      <3>1. CASE j \in 1 .. Len(tasks)
        <4>1. i \in 1 .. Len(tasks) /\ agenda'[j] = tasks[j] /\ agenda'[i] = tasks[i]
          BY <2>2, <2>3, <3>1 DEF Shifted
        <4>2. Behind(naming, key, tasks[i])
          BY <1>2, <2>2, <3>1, <4>1, PlainChain
        <4> QED  BY <4>1, <4>2
      <3>2. CASE j \notin 1 .. Len(tasks)
        <4>1. h \in 2 .. Len(agenda) /\ agenda[h] \in {ToSpeak(key), ToPass(key)}
          BY <2>2, <3>2 DEF Shifted
        <4>2. h \in 1 .. Len(agenda) /\ 1 \in 1 .. Len(agenda) /\ 1 < h /\ agenda # <<>> /\ 1 # Len(agenda)
          BY <2>3, <4>1
        <4>3. Chain(naming) /\ Tasked(naming, nodes)
          BY DEF Accepting
        <4>4. CASE i \in 1 .. Len(tasks)
          <5>1. agenda'[i] = tasks[i]
            BY <2>2, <4>4 DEF Shifted
          <5>2. Behind(naming, key, Head(agenda)) /\ Head(agenda).do # "point"
            BY <2>3, <4>1, <4>2, <4>3 DEF Chain, Tasked
          <5>3. Behind(naming, key, tasks[i])
            BY <1>2, <2>2, <4>2, <4>4, <5>2, PlainChain
          <5> QED  BY <5>1, <5>3
        <4>5. CASE i \notin 1 .. Len(tasks)
          <5>1. g \in 2 .. Len(agenda) /\ agenda'[i] = agenda[g]
            BY <2>2, <4>5 DEF Shifted
          <5>2. g \in 1 .. Len(agenda) /\ g < h
            BY <2>3, <5>1
          <5>3. Behind(naming, key, agenda[g])
            BY <4>1, <4>2, <4>3, <5>2 DEF Chain
          <5> QED  BY <5>1, <5>3
        <4> QED  BY <4>4, <4>5
      <3> QED  BY <3>1, <3>2
    <2>8. ASSUME NEW key \in DOMAIN resources'
          PROVE  key \in DOMAIN naming /\ resources'[key].value = naming[key] /\ resources'[key].base = key
      <3>1. Plainly(naming, nodes)'
        BY <2>1, SMTT(20) DEF Plainly, Plain, Namings, NamesOf, Means, Closes, Leads, Sound, Grounded, Onward,
                    Resolves, Anchored, Reached
      <3>2. key \in DOMAIN naming /\ resources'[key].value = naming[key]
        <4>1. /\ key \in Keys /\ resources'[key].value \in Objects
              /\ Means(world', key, resources'[key].value)
          BY DEF RegistrationTypes, ResourceShape
        <4> QED  BY <2>1, <4>1, PlainNames
      <3>3. resources'[key].base = key
        <4>1. CASE key \notin DOMAIN resources
          BY <1>2, <4>1, ResourcesAre
        <4>2. CASE key \in DOMAIN resources
          <5>1. resources[key].base = key
            BY <4>2 DEF Accepting
          <5>2. CASE resources' = resources
            BY <5>1, <5>2
          <5>3. ASSUME NEW k \in Keys, NEW then \in Seq(Tasks), Load(k, then)
                PROVE  resources'[key] = resources[key]
            BY <5>3, <4>2, LoadDue
          <5>4. \A k \in Keys : Opens(k) => resources'[key] = resources[key]
            BY <5>3, ThenIs DEF Opens
          <5>5. \A ref \in References, then \in Seq(Tasks) : Follows(ref, then) => resources'[key] = resources[key]
            BY <5>3 DEF Follows, References
          <5>6. ASSUME NEW n \in Objects, NEW base \in Keys, NEW own \in Keys, Walks(n, base, own)
                PROVE  resources' = resources
            <6>1. world.node[n].id = None
              BY DEF Plainly, Plain
            <6> QED  BY <5>6, <6>1 DEF Walks
          <5>7. /\ \A n \in Objects, base \in Keys : Drops(n, base) \/ Notes(n, base) => resources' = resources
                /\ \A k \in Keys : Knows(k) \/ Passes(k) => resources' = resources
                /\ \A k, d \in Keys : Speaks(k, d) => resources' = resources
                /\ \A k \in Keys, f \in Fragments, ts \in Seq(Tasks) : Points(k, f, ts) => resources' = resources
                /\ \A ref \in References : Skips(ref) => resources' = resources
            BY DEF Drops, Notes, Knows, Passes, Speaks, Points, Skips, Skip, members
          <5>8. resources'[key] = resources[key]
            BY <1>2, <5>4, <5>5, <5>6, <5>7 DEF Moves
          <5> QED  BY <5>1, <5>8
        <4> QED  BY <4>1, <4>2
      <3> QED  BY <3>2, <3>3
    <2>9. inspected' \subseteq nodes
      <3>1. inspected \subseteq nodes
        BY DEF Accepting
      <3>2. ASSUME NEW n \in Objects, NEW base \in Keys, NEW own \in Keys, Walks(n, base, own), agenda # <<>>
            PROVE  inspected' \subseteq nodes
        <4>1. ToInspect(n, base) \in Due
          BY <1>2, <3>2 DEF Moves, Walks
        <4>2. n \in nodes
          BY <4>1 DEF Accepting, Tasked, Good
        <4> QED  BY <3>1, <3>2, <4>2 DEF Walks
      <3>3. /\ \A n \in Objects, base \in Keys : Drops(n, base) \/ Notes(n, base) => inspected' = inspected
            /\ \A k \in Keys : Knows(k) \/ Opens(k) \/ Passes(k) => inspected' = inspected
            /\ \A k, d \in Keys : Speaks(k, d) => inspected' = inspected
            /\ \A k \in Keys, f \in Fragments, ts \in Seq(Tasks) : Points(k, f, ts) => inspected' = inspected
            /\ \A ref \in References : Skips(ref) => inspected' = inspected
            /\ \A ref \in References, then \in Seq(Tasks) : Follows(ref, then) => inspected' = inspected
        BY DEF Drops, Notes, Knows, Opens, Passes, Speaks, Points, Skips, Skip, Follows, members
      <3> QED  BY <1>2, <3>1, <3>2, <3>3 DEF Moves
    <2>10. ASSUME NEW j \in 1 .. Len(references')
           PROVE  \E ref : ref = references'[j] /\ Meant(naming, nodes, ref)
      <3>1. references \in Seq(References) /\ Len(references) \in Nat
        BY DEF RegistrationTypes
      <3>2. \A i \in 1 .. Len(references) : Meant(naming, nodes, references[i])
        BY DEF Accepting
      <3>3. CASE references' = references
        BY <3>2, <3>3
      <3>4. ASSUME NEW n \in Objects, NEW base \in Keys, Notes(n, base), agenda # <<>>
            PROVE  Meant(naming, nodes, references'[j])
        <4>1. ToNote(n, base) \in Due
          BY <1>2, <3>4 DEF Moves, Notes
        <4>2. n \in nodes
          BY <4>1 DEF PlaceShape, Accepting
        <4> DEFINE refs == world.node[n].refs
        <4>3. \A i \in 1 .. Len(refs) : Meant(naming, nodes, refs[i])
          BY <4>2, PlainLeads
        <4>4. refs \in Seq(References) /\ references' = references \o refs
          BY <3>4, ObjectIs DEF Schemas, Notes, RegistrationTypes
        <4> HIDE DEF refs
        <4>5. \/ j \in 1 .. Len(references) /\ references'[j] = references[j]
              \/ j - Len(references) \in 1 .. Len(refs) /\ references'[j] = refs[j - Len(references)]
          BY <3>1, <4>4
        <4> QED  BY <3>2, <4>3, <4>5
      <3>5. /\ \A n \in Objects, base \in Keys : Drops(n, base) => references' = references
            /\ \A n \in Objects, base, own \in Keys : Walks(n, base, own) => references' = references
            /\ \A k \in Keys : Knows(k) \/ Opens(k) \/ Passes(k) => references' = references
            /\ \A k, d \in Keys : Speaks(k, d) => references' = references
            /\ \A k \in Keys, f \in Fragments, ts \in Seq(Tasks) : Points(k, f, ts) => references' = references
            /\ \A ref \in References : Skips(ref) => references' = references
            /\ \A ref \in References, then \in Seq(Tasks) : Follows(ref, then) => references' = references
        BY DEF Drops, Walks, Knows, Opens, Passes, Speaks, Points, Skips, Skip, Follows, members
      <3> QED  BY <1>2, <3>3, <3>4, <3>5 DEF Moves
    <2>11. ASSUME NEW key \in active'
           PROVE  ToSpeak(key) \in Due' \/ ToPass(key) \in Due'
      <3>1. CASE key \in active
        <4>1. key \in Keys /\ (ToSpeak(key) \in Due \/ ToPass(key) \in Due)
          BY <3>1 DEF Accepting, RegistrationTypes
        <4>2. \A task \in Due : task \in Due' \/ (agenda # <<>> /\ task = Head(agenda))
          BY <2>1 DEF Grown
        <4>3. CASE agenda # <<>> /\ Head(agenda) = ToSpeak(key)
          <5>1. PICK d \in Keys : Speaks(key, d)
            BY <1>2, <4>1, <4>3, MoveOf
          <5> DEFINE new == <<ToCheck(d), ToPass(key)>>
          <5>2. new \in Seq(Tasks) /\ Continue(new)
            BY <4>1, <5>1, ThenIs DEF Speaks
          <5>3. Len(new) = 2 /\ new[2] = ToPass(key)
            OBVIOUS
          <5> HIDE DEF new
          <5>4. new[2] \in Due'
            BY <5>2, <5>3, Continues
          <5> QED  BY <5>3, <5>4
        <4>4. CASE agenda # <<>> /\ Head(agenda) = ToPass(key)
          <5>1. Passes(key)
            BY <1>2, <4>1, <4>4, MoveOf
          <5> QED  BY <5>1 DEF Passes
        <4> QED  BY <4>1, <4>2, <4>3, <4>4
      <3>2. CASE key \notin active
        <4>1. Opens(key) /\ key \in Keys
          <5>1. /\ \A n \in Objects, base \in Keys : Drops(n, base) \/ Notes(n, base) => active' = active
                /\ \A n \in Objects, base, own \in Keys : Walks(n, base, own) => active' = active
                /\ \A k \in Keys : Knows(k) \/ Passes(k) => active' \subseteq active
                /\ \A k, d \in Keys : Speaks(k, d) => active' = active
                /\ \A k \in Keys, f \in Fragments, ts \in Seq(Tasks) : Points(k, f, ts) => active' = active
                /\ \A ref \in References : Skips(ref) => active' = active
                /\ \A ref \in References, then \in Seq(Tasks) : Follows(ref, then) => active' = active
            BY DEF Drops, Notes, Walks, Knows, Passes, Speaks, Points, Skips, Skip, Follows, members
          <5>2. \A k \in Keys : Opens(k) => active' = active \cup {k}
            BY DEF Opens
          <5> QED  BY <1>2, <3>2, <5>1, <5>2 DEF Moves
        <4> DEFINE then == <<ToSpeak(key)>>
        <4>2. then \in Seq(Tasks) /\ Load(key, then)
          BY <4>1, ThenIs DEF Opens
        <4>3. Len(then) = 1 /\ then[1] = ToSpeak(key)
          OBVIOUS
        <4> HIDE DEF then
        <4>4. \A i \in 1 .. Len(then) : then[i] \in Due'
          BY <4>1, <4>2, LoadDue
        <4> QED  BY <4>3, <4>4
      <3> QED  BY <3>1, <3>2
    <2>12. \A i \in 1 .. Len(references') : Meant(naming, nodes, references[i])'
      BY <2>10, <2>1 DEF Meant, InNodes, Resolves, Anchored
    <2> QED  BY <1>0, <2>6, <2>7, <2>8, <2>9, <2>11, <2>12 DEF Accepting
  <1> QED  BY <1>1, <1>2, StepIs


\* A plain world that closes has a root that is valid, and nothing to refuse yet.
LEMMA PlainFirst ==
    ASSUME RegistrationInit, RegInv, NEW naming, NEW nodes, Plainly(naming, nodes)
    PROVE  Accepting(naming, nodes)
  <1> DEFINE root == world.root
             first == ToInspect(root, Default)
  <1>1. root \in nodes /\ naming[Default] = root /\ Default \in DOMAIN naming /\ world.node[root].valid
    BY PlainNames DEF Plainly, Closes, RegInv
  <1>2. /\ DOMAIN resources = {Default} /\ resources[Default].value = root /\ resources[Default].base = Default
        /\ inspected = {} /\ active = {} /\ references = <<>> /\ Len(agenda) = 1 /\ agenda[1] = first
        /\ verdict = "running"
    BY <1>1 DEF RegistrationInit
  <1>3. Due = {first} /\ first.do = "inspect"
    BY <1>2, TasksApart DEF Due
  <1>4. Good(naming, nodes, first)
    BY <1>1, TasksApart DEF Good
  <1>5. Tasked(naming, nodes)
    BY <1>2, <1>3, <1>4 DEF Tasked
  <1>6. Chain(naming)
    BY <1>2 DEF Chain
  <1> QED  BY <1>1, <1>2, <1>5, <1>6 DEF Accepting

\* The second invariant holds of a registration that begins,
LEMMA AcceptsInit == RegistrationInit /\ RegInv => AcceptsPlain
  BY PlainFirst DEF AcceptsPlain, Plainly

\* and every step keeps it.
LEMMA AcceptsStep == RegInv /\ RegInv' /\ AcceptsPlain /\ [RegistrationNext]_registrationVars => AcceptsPlain'
  <1> SUFFICES ASSUME RegInv, RegInv', AcceptsPlain, [RegistrationNext]_registrationVars
               PROVE  AcceptsPlain'
    OBVIOUS
  <1>1. world' = world
    <2>1. Stops \/ Moves
      BY StepIs DEF RegInv
    <2> QED  BY <2>1, Grows DEF Stops, Grown, RegInv
  <1> SUFFICES ASSUME NEW naming, NEW nodes, Plainly(naming, nodes)
               PROVE  Accepting(naming, nodes)'
    BY <1>1 DEF AcceptsPlain, Plainly, Plain, Namings, NamesOf, Means, Closes, Leads, Sound, Grounded,
                Onward, Resolves, Anchored, Reached
  <1>2. Accepting(naming, nodes)
    BY DEF AcceptsPlain, Plainly
  <1> QED  BY <1>2, PlainStep

\* docs/decisions/0003-schema-validation.md: whatever the schema and the catalog, what
\* compile_schema accepts leads only to what is there, valid and of a dialect that ends in
\* the draft; and no plain schema that does is refused.
THEOREM CompilesExactlyClosed == RegistrationSpec => []CompilesOnlyClosed
  <1>1. RegistrationInit => RegInv /\ AcceptsPlain
    BY RegInit, AcceptsInit
  <1>2. RegInv /\ AcceptsPlain /\ [RegistrationNext]_registrationVars => (RegInv /\ AcceptsPlain)'
    BY RegStep, AcceptsStep
  <1>3. RegInv /\ AcceptsPlain => CompilesOnlyClosed
    <2> SUFFICES ASSUME RegInv, AcceptsPlain PROVE CompilesOnlyClosed
      OBVIOUS
    <2>1. verdict = "accepted" => Closed(world)
      BY AcceptedIsClosed
    <2>2. ASSUME verdict = "refused", Plain(world), Closed(world)
          PROVE  FALSE
      <3>1. PICK naming \in Namings(world), nodes \in SUBSET Objects : Closes(world, naming, nodes)
        BY <2>2 DEF Closed
      <3>2. Accepting(naming, nodes)
        BY <2>2, <3>1 DEF AcceptsPlain
      <3> QED  BY <2>2, <3>2 DEF Accepting
    <2> QED  BY <2>1, <2>2 DEF CompilesOnlyClosed
  <1> QED  BY <1>1, <1>2, <1>3, PTL DEF RegistrationSpec


-----------------------------------------------------------------------------
(* Aliases. An object that a name stands for is within the root or a document, and *)
(* documents are apart, so that no document is met after an object in it.          *)

\* What has a name is in the root or in a document that was loaded under its own.
Housed(n) ==
    \/ n \in world.node[world.root].parts
    \/ \E k \in DOMAIN world.catalog \cap DOMAIN resources :
          resources[k].value = world.catalog[k] /\ n \in world.node[world.catalog[k]].parts
AliasShape ==
    /\ \A key \in DOMAIN resources : Housed(resources[key].value)
    /\ \A k, l \in DOMAIN resources :
          resources[k].value = resources[l].value => resources[k].base = resources[l].base

\* Names stay, and so does what they are within.
LEMMA HousedKept ==
    ASSUME Grown, NEW n, Housed(n)
    PROVE  Housed(n)'
  BY DEF Grown, Housed

\* The third invariant holds of a registration that begins,
LEMMA AliasInit == RegistrationInit => AliasShape
  <1> SUFFICES ASSUME RegistrationInit PROVE AliasShape
    OBVIOUS
  <1>1. world \in Worlds /\ world.root \in Objects
    BY WorldsAssumption DEF RegistrationInit, WellFormed
  <1>2. world.root \in world.node[world.root].parts
    BY <1>1, ObjectIs
  <1> QED  BY <1>2 DEF RegistrationInit, AliasShape, Housed

\* and every step keeps it: $id moves all names of the object at once.
LEMMA AliasStep == RegInv /\ AliasShape /\ [RegistrationNext]_registrationVars => AliasShape'
  <1> SUFFICES ASSUME RegInv, AliasShape, [RegistrationNext]_registrationVars PROVE AliasShape'
    OBVIOUS
  <1> USE DEF RegInv
  <1>0. world \in Worlds /\ WellFormed(world)
    BY WorldsAssumption DEF RegistrationTypes
  <1>1. CASE Stops
    BY <1>1, StopsStep DEF AliasShape, Housed
  <1>2. CASE Moves
    <2>1. Grown /\ world' = world
      BY <1>2, Grows DEF Grown
    <2>2. \A key \in DOMAIN resources : \E n : n = resources'[key].value /\ Housed(n)'
      BY <2>1, HousedKept DEF AliasShape, Grown
    <2>3. CASE resources' = resources
      BY <2>1, <2>3 DEF AliasShape, Housed
    <2>4. ASSUME NEW key \in Keys, NEW then \in Seq(Tasks), Load(key, then)
          PROVE  AliasShape'
      <3>1. CASE resources' = resources
        BY <2>3, <3>1
      <3>2. CASE resources' # resources
        <4> DEFINE document == world.catalog[key]
        <4>1. /\ key \in DOMAIN world.catalog \ DOMAIN resources /\ document \in Objects
              /\ DOMAIN resources' = DOMAIN resources \cup {key}
              /\ \A k \in DOMAIN resources : resources'[k] = resources[k]
              /\ resources'[key].value = document /\ resources'[key].base = key
          BY <2>4, <3>2, LoadDue
        <4>2. document \in world.node[document].parts
          BY <1>0, <4>1, ObjectIs
        <4>3. \A k \in DOMAIN resources : resources[k].value # document
          <5>1. SUFFICES ASSUME Housed(document) PROVE FALSE
            BY DEF AliasShape
          <5>2. document \notin world.node[world.root].parts
            BY <1>0, <4>1, <4>2 DEF WellFormed
          <5>3. PICK k \in DOMAIN world.catalog \cap DOMAIN resources :
                   document \in world.node[world.catalog[k]].parts
            BY <5>1, <5>2 DEF Housed
          <5>4. k # key
            BY <4>1, <5>3
          <5> QED  BY <1>0, <4>1, <4>2, <5>3, <5>4 DEF WellFormed
        <4>4. \E n : n = resources'[key].value /\ Housed(n)'
          <5>1. PICK n : n = document
            OBVIOUS
          <5>2. Housed(n)'
            BY <2>1, <4>1, <4>2, <5>1 DEF Housed
          <5> QED  BY <4>1, <5>1, <5>2
        <4>5. \A k, l \in DOMAIN resources' :
                 resources'[k].value = resources'[l].value => resources'[k].base = resources'[l].base
          BY <4>1, <4>3 DEF AliasShape
        <4> QED  BY <2>1, <2>2, <4>1, <4>4, <4>5 DEF AliasShape, Housed
      <3> QED  BY <3>1, <3>2
    <2>5. ASSUME NEW n \in Objects, NEW base \in Keys, NEW own \in Keys, Walks(n, base, own), agenda # <<>>
          PROVE  AliasShape'
      <3>1. CASE resources' = resources
        BY <2>3, <3>1
      <3>2. CASE resources' # resources
        <4>1. resources' = Identified(n, own) /\ (own \in DOMAIN resources => resources[own].value = n)
          BY <2>5, <3>2 DEF Walks
        <4>2. ToInspect(n, base) \in Due
          BY <1>2, <2>5 DEF Moves, Walks
        <4>3. base \in DOMAIN resources /\ n \in world.node[resources[base].value].parts
          BY <4>2 DEF PlaceShape, Base
        <4> DEFINE holder == resources[base].value
        <4>4. holder \in Objects /\ Housed(holder)
          BY <4>3 DEF AliasShape, RegistrationTypes
        <4>5. Housed(n)
          <5>1. \A m \in Objects : holder \in world.node[m].parts => n \in world.node[m].parts
            BY <1>0, <4>3, ObjectIs
          <5>2. world.root \in Objects /\ \A k \in DOMAIN world.catalog : world.catalog[k] \in Objects
            BY <1>0 DEF WellFormed
          <5> QED  BY <4>4, <5>1, <5>2 DEF Housed
        <4>6. Housed(n)'
          BY <4>5, <2>1, HousedKept
        <4>7. /\ DOMAIN resources' = DOMAIN resources \cup {own}
              /\ \A k \in DOMAIN resources :
                    /\ resources'[k].value = resources[k].value
                    /\ resources'[k].base = IF resources[k].value = n THEN own ELSE resources[k].base
              /\ resources'[own].value = n /\ resources'[own].base = own
          BY <4>1 DEF Identified
        <4>8. \A k, l \in DOMAIN resources' :
                 resources'[k].value = resources'[l].value => resources'[k].base = resources'[l].base
          BY <4>7 DEF AliasShape
        <4> QED  BY <2>1, <2>2, <4>6, <4>7, <4>8 DEF AliasShape, Housed
      <3> QED  BY <3>1, <3>2
    <2>6. \A k \in Keys : Opens(k) => AliasShape'
      BY <2>4, ThenIs DEF Opens
    <2>7. \A ref \in References, then \in Seq(Tasks) : Follows(ref, then) => AliasShape'
      BY <2>4 DEF Follows, References
    <2>8. /\ \A n \in Objects, base \in Keys : Drops(n, base) \/ Notes(n, base) => resources' = resources
          /\ \A k \in Keys : Knows(k) \/ Passes(k) => resources' = resources
          /\ \A k, d \in Keys : Speaks(k, d) => resources' = resources
          /\ \A k \in Keys, f \in Fragments, ts \in Seq(Tasks) : Points(k, f, ts) => resources' = resources
          /\ \A ref \in References : Skips(ref) => resources' = resources
      BY DEF Drops, Notes, Knows, Passes, Speaks, Points, Skips, Skip, members
    <2> QED  BY <1>2, <2>3, <2>5, <2>6, <2>7, <2>8 DEF Moves
  <1> QED  BY <1>1, <1>2, StepIs

\* schema_validator.hpp:125, retrieval aliases share the canonical resource's anchor
\* namespace: the URIs an object was met under have one base, which is a name of the object.
THEOREM AliasesShare == RegistrationSpec => []AliasesShareNamespace
  <1>1. RegistrationInit => RegInv /\ AliasShape
    BY RegInit, AliasInit
  <1>2. RegInv /\ AliasShape /\ [RegistrationNext]_registrationVars => (RegInv /\ AliasShape)'
    BY RegStep, AliasStep
  <1>3. RegInv /\ AliasShape => AliasesShareNamespace
    BY DEF RegInv, AliasShape, ResourceShape, AliasesShareNamespace
  <1> QED  BY <1>1, <1>2, <1>3, PTL DEF RegistrationSpec
=============================================================================
