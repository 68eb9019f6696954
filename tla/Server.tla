------------------------------- MODULE Server -------------------------------
(***************************************************************************)
(* synapse::server: the lifecycle of the owner, the connection protocol    *)
(* and the operations in flight, together with the executor that runs them *)
(* and the transport that carries them. The executor appears here by its   *)
(* critical sections (OwnedExecutor refines SerialQueue down to these) and *)
(* the transport by its callbacks and results.                             *)
(*                                                                         *)
(* A critical section of the server's mutex_ is one step, and so is a call *)
(* into the executor or the transport that is made outside it. emit runs   *)
(* under the mutex.                                                        *)
(***************************************************************************)
EXTENDS Naturals, Sequences, SequencesExt, RequestId

CONSTANTS Requests,    \* requests the host sends, each at most once
          IdOf,        \* the request id of each
          MethodOf,    \* "initialize", "ping" or "call" (runs on the worker)
          MaxPending,  \* options_.max_pending_requests
          Stoppers,    \* which of Owner and App call stop themselves
          Owner,       \* the thread that starts, waits for and destroys the server
          App,         \* another application thread
          Reader,      \* the transport's reader, on which receive runs
          Writer,      \* the transport's writer
          Worker,      \* the executor's thread
          None         \* no request

Threads == {Owner, App, Reader, Writer, Worker}

ASSUME ThreadsAssumption ==
    /\ Owner \notin {App, Reader, Writer, Worker}
    /\ App \notin {Reader, Writer, Worker}
    /\ Reader \notin {Writer, Worker}
    /\ Writer # Worker
ASSUME PendingAssumption == MaxPending \in Nat \ {0}
ASSUME NoneAssumption == None \notin Requests
ASSUME StoppersAssumption == Stoppers \subseteq {Owner, App}

VARIABLES
    state,      \* state_
    protocol,   \* protocol_
    inflight,   \* inflight_
    cancelled,  \* operations whose cancelled flag is set
    published,  \* has executor_ been published?
    queue,      \* the executor's pending_
    active,     \* the executor's active_
    exStopping, \* the executor's stopping_
    signalled,  \* requests whose stop token is set
    wire,       \* the transport: unstarted, consumed, open, closing
    claimed,    \* close_claimed_: some transport worker took the close callback
    pc,         \* where each thread is
    resume,     \* where a thread goes on when its stop() returns
    handling,   \* the request in the reader's receive
    held,       \* captures a thread took out of the executor to destroy
    owners,     \* who still owns each operation's completion
    timed,      \* is the owner in wait_for rather than wait?
    received,   \* history: requests the reader has seen
    accepted,   \* history: requests that became operations
    answers,    \* history: what the transport accepted for each request
    refusal,    \* history: why the executor refused an operation
    joined      \* history: has a wait returned success?

serverVars == <<state, protocol, inflight, cancelled, published>>
executorVars == <<queue, active, exStopping, signalled>>
transportVars == <<wire, claimed>>
localVars == <<handling, held, timed>>
history == <<received, accepted, refusal, joined>>
vars == <<serverVars, executorVars, transportVars, pc, resume, localVars, owners,
          answers, history>>

Init == /\ state = "configuring"
        /\ protocol = "await_initialize"
        /\ inflight = {} /\ cancelled = {}
        /\ published = FALSE
        /\ queue = <<>> /\ active = None /\ exStopping = FALSE /\ signalled = {}
        /\ wire = "unstarted" /\ claimed = FALSE
        /\ pc = [t \in Threads |-> IF t \in {Owner, App} THEN "idle" ELSE "unborn"]
        /\ resume = [t \in Threads |-> "idle"]
        /\ handling = None
        /\ held = [t \in Threads |-> {}]
        /\ timed = FALSE
        /\ owners = [r \in Requests |-> {}]
        /\ received = {} /\ accepted = {}
        /\ answers = [r \in Requests |-> <<>>]
        /\ refusal = [r \in Requests |-> "none"]
        /\ joined = FALSE

Serving == state \in {"starting", "running"}
Goto(t, step) == pc' = [pc EXCEPT ![t] = step] /\ UNCHANGED resume
Return(t) == /\ pc' = [pc EXCEPT ![t] = resume[t]]
             /\ resume' = [resume EXCEPT ![t] = "idle"]
CallStop(t, next) == /\ pc' = [pc EXCEPT ![t] = "stop"]
                     /\ resume' = [resume EXCEPT ![t] = next]

\* completion is shared; its destructor erases the operation with the last owner.
Drop(dropped, owner) ==
    /\ owners' = [r \in Requests |->
                    IF r \in dropped THEN owners[r] \ {owner} ELSE owners[r]]
    /\ inflight' = {r \in inflight : r \notin dropped \/ owners[r] # {owner}}

-----------------------------------------------------------------------------
(* emit *)

\* The encoded reply, or a smaller one in its place, is accepted by the writer.
Sent(r, answer) ==
    /\ wire = "open"
    /\ answers' = [answers EXCEPT ![r] = Append(@, answer)]

\* Neither fits, or the writer's queue is full or closed: nothing is sent.
Unsent == UNCHANGED answers

\* Under the mutex: reply, and go on, or stop outside the mutex if it failed.
EmitThen(t, r, answer, next) ==
    \/ Sent(r, answer) /\ Goto(t, next)
    \/ Unsent /\ CallStop(t, next)

-----------------------------------------------------------------------------
(* stop, which any thread may be inside *)

StopLocked(t) ==
    /\ pc[t] = "stop"
    /\ IF state = "stopped"
       THEN /\ Return(t)
            /\ UNCHANGED <<state, protocol, cancelled>>
       ELSE /\ state' = "stopping"
            /\ protocol' = "closing"
            /\ cancelled' = cancelled \cup inflight
            /\ Goto(t, IF published THEN "stop_executor" ELSE "stop_transport")
    /\ UNCHANGED <<inflight, published, executorVars, transportVars, localVars, owners,
                   answers, history>>

\* executor->stop(): what was pending now belongs to this thread.
StopExecutor(t) ==
    /\ pc[t] = "stop_executor"
    /\ exStopping' = TRUE
    /\ held' = [held EXCEPT ![t] = ToSet(queue)]
    /\ queue' = <<>>
    /\ signalled' = signalled \cup ({active} \ {None})
    /\ Goto(t, "stop_discard")
    /\ UNCHANGED <<serverVars, active, transportVars, handling, timed, owners, answers,
                   history>>

\* The discarded captures retire their operations, each under the mutex.
StopDiscard(t) ==
    /\ pc[t] = "stop_discard"
    /\ Drop(held[t], "call")
    /\ held' = [held EXCEPT ![t] = {}]
    /\ Goto(t, "stop_transport")
    /\ UNCHANGED <<state, protocol, cancelled, published, executorVars, transportVars,
                   handling, timed, answers, history>>

\* Variant: the transport is not stopped.
StopTransportMissing(t) ==
    /\ pc[t] = "stop_transport"
    /\ Return(t)
    /\ UNCHANGED <<serverVars, executorVars, transportVars, localVars, owners, answers, history>>

StopTransport(t) ==
    /\ pc[t] = "stop_transport"
    /\ wire' = IF wire = "open" THEN "closing"
               ELSE IF wire = "unstarted" THEN "consumed" ELSE wire
    /\ Return(t)
    /\ UNCHANGED <<serverVars, executorVars, claimed, localVars, owners, answers, history>>

StopStep(t) == StopLocked(t) \/ StopExecutor(t) \/ StopDiscard(t) \/ StopTransport(t)

\* An application thread calls stop, the owner too: it does so in the destructor.
AppStop(t) ==
    /\ t \in Stoppers
    /\ pc[t] = "idle"
    /\ CallStop(t, "idle")
    /\ UNCHANGED <<serverVars, executorVars, transportVars, localVars, owners, answers,
                   history>>

-----------------------------------------------------------------------------
(* start *)

\* One shot. Invalid limits leave the server stopped.
Start ==
    /\ pc[Owner] = "idle"
    /\ state = "configuring"
    /\ \/ state' = "starting" /\ Goto(Owner, "publish")
       \/ state' = "stopped" /\ Goto(Owner, "idle")
    /\ UNCHANGED <<protocol, inflight, cancelled, published, executorVars, transportVars,
                   localVars, owners, answers, history>>

\* A failed start stops, then waits, before it returns.
FailStart == CallStop(Owner, "wait_transport") /\ timed' = FALSE

StartExecutor ==
    /\ pc[Owner] = "publish"
    /\ published' = TRUE
    /\ IF state = "starting"
       THEN /\ pc' = [pc EXCEPT ![Owner] = "open", ![Worker] = "idle"]
            /\ UNCHANGED <<resume, timed>>
       ELSE /\ pc' = [pc EXCEPT ![Owner] = "stop", ![Worker] = "idle"]
            /\ resume' = [resume EXCEPT ![Owner] = "wait_transport"]
            /\ timed' = FALSE
    /\ UNCHANGED <<state, protocol, inflight, cancelled, executorVars, transportVars,
                   handling, held, owners, answers, history>>

\* Its thread cannot be created: nothing is published.
StartExecutorThrows ==
    /\ pc[Owner] = "publish"
    /\ FailStart
    /\ UNCHANGED <<serverVars, executorVars, transportVars, handling, held, owners,
                   answers, history>>

StartTransport ==
    /\ pc[Owner] = "open"
    /\ wire = "unstarted"
    /\ wire' = "open"
    /\ pc' = [pc EXCEPT ![Owner] = "run", ![Reader] = "poll", ![Writer] = "poll"]
    /\ UNCHANGED <<serverVars, executorVars, claimed, resume, localVars, owners, answers,
                   history>>

\* It was stopped before, or its endpoints or threads cannot be had.
StartTransportFails ==
    /\ pc[Owner] = "open"
    /\ wire' = "consumed"
    /\ FailStart
    /\ UNCHANGED <<serverVars, executorVars, claimed, handling, held, owners, answers,
                   history>>

StartRunning ==
    /\ pc[Owner] = "run"
    /\ IF state = "starting"
       THEN state' = "running" /\ Goto(Owner, "idle") /\ UNCHANGED timed
       ELSE FailStart /\ UNCHANGED state
    /\ UNCHANGED <<protocol, inflight, cancelled, published, executorVars, transportVars,
                   handling, held, owners, answers, history>>

StartStep == \/ StartExecutor \/ StartExecutorThrows \/ StartTransport
             \/ StartTransportFails \/ StartRunning

-----------------------------------------------------------------------------
(* wait and wait_for, on the owner *)

BeginWait ==
    /\ pc[Owner] = "idle"
    /\ timed' \in BOOLEAN
    /\ Goto(Owner, "wait_transport")
    /\ UNCHANGED <<serverVars, executorVars, transportVars, handling, held, owners,
                   answers, history>>

\* A transport that never started has nothing to join.
TransportDone == \/ wire \in {"unstarted", "consumed"}
                 \/ pc[Reader] = "exited" /\ pc[Writer] = "exited"

\* Variant: the executor is not joined.
WaitTransportOnly ==
    /\ pc[Owner] = "wait_transport"
    /\ TransportDone
    /\ Goto(Owner, "wait_mark")
    /\ UNCHANGED <<serverVars, executorVars, transportVars, localVars, owners, answers,
                   history>>

WaitTransport ==
    /\ pc[Owner] = "wait_transport"
    /\ TransportDone
    /\ Goto(Owner, IF published THEN "wait_executor" ELSE "wait_mark")
    /\ UNCHANGED <<serverVars, executorVars, transportVars, localVars, owners, answers,
                   history>>

WaitExecutor ==
    /\ pc[Owner] = "wait_executor"
    /\ pc[Worker] = "exited"
    /\ Goto(Owner, "wait_mark")
    /\ UNCHANGED <<serverVars, executorVars, transportVars, localVars, owners, answers,
                   history>>

WaitMark ==
    /\ pc[Owner] = "wait_mark"
    /\ state' = "stopped"
    /\ joined' = TRUE
    /\ timed' = FALSE
    /\ Goto(Owner, "idle")
    /\ UNCHANGED <<protocol, inflight, cancelled, published, executorVars, transportVars,
                   handling, held, owners, answers, received, accepted, refusal>>

WaitTimesOut ==
    /\ pc[Owner] \in {"wait_transport", "wait_executor"}
    /\ timed
    /\ timed' = FALSE
    /\ Goto(Owner, "idle")
    /\ UNCHANGED <<serverVars, executorVars, transportVars, handling, held, owners,
                   answers, history>>

WaitStep == WaitTransport \/ WaitExecutor \/ WaitMark

-----------------------------------------------------------------------------
(* receive and notify, on the reader *)

\* A frame may still be read while the transport is closing.
Reading == pc[Reader] = "poll" /\ wire \in {"open", "closing"}

Deliver(r) == /\ Reading
              /\ r \notin received
              /\ received' = received \cup {r}

\* Variant: identifiers are compared as variants and not by value.
KnownExactly(r) == \E other \in inflight : IdOf[other] = IdOf[r]

Known(r) == \E other \in inflight : SameRequestId(IdOf[other], IdOf[r])

\* No request is looked at any more.
ReceiveIgnored(r) ==
    /\ Deliver(r)
    /\ ~Serving \/ protocol = "closing"
    /\ UNCHANGED <<serverVars, executorVars, transportVars, pc, resume, localVars, owners,
                   answers, accepted, refusal, joined>>

\* The error has a null id, and the connection closes whether or not it is sent.
ReceiveDuplicate(r) ==
    /\ Deliver(r)
    /\ Serving /\ protocol # "closing" /\ Known(r)
    /\ protocol' = "closing"
    /\ CallStop(Reader, "poll")
    /\ UNCHANGED <<state, inflight, cancelled, published, executorVars, transportVars,
                   localVars, owners, answers, accepted, refusal, joined>>

ReceivePing(r) ==
    /\ Deliver(r)
    /\ Serving /\ protocol # "closing" /\ ~Known(r)
    /\ MethodOf[r] = "ping"
    /\ EmitThen(Reader, r, "result", "poll")
    /\ UNCHANGED <<serverVars, executorVars, transportVars, localVars, owners, accepted,
                   refusal, joined>>

\* Variant: the error that replaced the result does not end the session.
ReceiveInitializeGoesOn(r) ==
    /\ Deliver(r)
    /\ Serving /\ protocol # "closing" /\ ~Known(r)
    /\ MethodOf[r] = "initialize"
    /\ \/ /\ protocol = "await_initialize"
          /\ protocol' = "await_initialized"
          /\ \E answer \in {"result", "error"} : EmitThen(Reader, r, answer, "poll")
       \/ EmitThen(Reader, r, "error", "poll") /\ UNCHANGED protocol
    /\ UNCHANGED <<state, inflight, cancelled, published, executorVars, transportVars,
                   localVars, owners, accepted, refusal, joined>>

\* The session opens before its reply is sent. A reply too large for a frame is
\* replaced by an error, which is sent, and then the server stops.
ReceiveInitialize(r) ==
    /\ Deliver(r)
    /\ Serving /\ protocol # "closing" /\ ~Known(r)
    /\ MethodOf[r] = "initialize"
    /\ \/ /\ protocol = "await_initialize"
          /\ protocol' = "await_initialized"
          /\ \/ EmitThen(Reader, r, "result", "poll")
             \/ Sent(r, "error") /\ CallStop(Reader, "poll")
       \/ EmitThen(Reader, r, "error", "poll") /\ UNCHANGED protocol
    /\ UNCHANGED <<state, inflight, cancelled, published, executorVars, transportVars,
                   localVars, owners, accepted, refusal, joined>>

ReceiveEarly(r) ==
    /\ Deliver(r)
    /\ Serving /\ protocol \notin {"ready", "closing"} /\ ~Known(r)
    /\ MethodOf[r] = "call"
    /\ EmitThen(Reader, r, "error", "poll")
    /\ UNCHANGED <<serverVars, executorVars, transportVars, localVars, owners, accepted,
                   refusal, joined>>

ReceiveCall(r) ==
    /\ Deliver(r)
    /\ Serving /\ protocol = "ready" /\ ~Known(r)
    /\ MethodOf[r] = "call"
    /\ inflight' = inflight \cup {r}
    /\ owners' = [owners EXCEPT ![r] = {"call", "reader"}]
    /\ accepted' = accepted \cup {r}
    /\ handling' = r
    /\ Goto(Reader, "enqueue")
    /\ UNCHANGED <<state, protocol, cancelled, published, executorVars, transportVars,
                   held, timed, answers, refusal, joined>>

\* A frame that is no message is answered with a null id, or the server stops.
ReceiveMalformed ==
    /\ Reading
    /\ Serving
    /\ CallStop(Reader, "poll")
    /\ UNCHANGED <<serverVars, executorVars, transportVars, localVars, owners, answers,
                   history>>

EnqueueAnswer(r) ==
    IF exStopping THEN "closed"
    ELSE IF \E other \in ToSet(queue) \cup ({active} \ {None}) :
              SameRequestId(IdOf[other], IdOf[r]) THEN "duplicate"
    ELSE IF Len(queue) >= MaxPending THEN "full"
    ELSE "none"

\* Variant: what does not fit is refused and queued all the same.
EnqueuePastLimit ==
    /\ pc[Reader] = "enqueue"
    /\ refusal' = [refusal EXCEPT ![handling] = EnqueueAnswer(handling)]
    /\ queue' = Append(queue, handling)
    /\ Goto(Reader, IF EnqueueAnswer(handling) = "none" THEN "leave" ELSE "refused")
    /\ UNCHANGED <<serverVars, owners, active, exStopping, signalled,
                   transportVars, localVars, answers, received, accepted, joined>>

\* Outside the mutex. A refused invocation's captures go when enqueue returns.
Enqueue ==
    /\ pc[Reader] = "enqueue"
    /\ refusal' = [refusal EXCEPT ![handling] = EnqueueAnswer(handling)]
    /\ IF EnqueueAnswer(handling) = "none"
       THEN /\ queue' = Append(queue, handling)
            /\ Goto(Reader, "leave")
            /\ UNCHANGED <<inflight, owners>>
       ELSE /\ Drop({handling}, "call")
            /\ Goto(Reader, "refused")
            /\ UNCHANGED queue
    /\ UNCHANGED <<state, protocol, cancelled, published, active, exStopping, signalled,
                   transportVars, localVars, answers, received, accepted, joined>>

\* Variant: nobody looks whether the server stopped meanwhile.
AnswerRefusedUnchecked ==
    /\ pc[Reader] = "refused"
    /\ EmitThen(Reader, handling, "queue_full", "leave")
    /\ UNCHANGED <<serverVars, executorVars, transportVars, localVars, owners, history>>

AnswerRefused ==
    /\ pc[Reader] = "refused"
    /\ IF handling \notin cancelled /\ Serving
       THEN EmitThen(Reader, handling, "queue_full", "leave")
       ELSE Unsent /\ Goto(Reader, "leave")
    /\ UNCHANGED <<serverVars, executorVars, transportVars, localVars, owners, history>>

\* receive returns: its own reference to the completion goes last.
LeaveReceive ==
    /\ pc[Reader] = "leave"
    /\ Drop({handling}, "reader")
    /\ handling' = None
    /\ Goto(Reader, "poll")
    /\ UNCHANGED <<state, protocol, cancelled, published, executorVars, transportVars,
                   held, timed, answers, history>>

NotifyInitialized ==
    /\ Reading
    /\ Serving
    /\ protocol = "await_initialized"
    /\ protocol' = "ready"
    /\ UNCHANGED <<state, inflight, cancelled, published, executorVars, transportVars, pc,
                   resume, localVars, owners, answers, history>>

\* Under the mutex the flag, and then outside it the executor.
NotifyCancelled(r) ==
    /\ Reading
    /\ Serving
    /\ r \in inflight
    /\ cancelled' = cancelled \cup {r}
    /\ handling' = r
    /\ Goto(Reader, "cancel")
    /\ UNCHANGED <<state, protocol, inflight, published, executorVars, transportVars, held,
                   timed, owners, answers, history>>

\* The executor looks for the id again, and finds what has it by then.
CancelInExecutor ==
    /\ pc[Reader] = "cancel"
    /\ LET Same(r) == SameRequestId(IdOf[r], IdOf[handling])
           first == {i \in 1..Len(queue) : /\ Same(queue[i])
                                           /\ \A j \in 1..(i - 1) : ~Same(queue[j])}
       IN  \/ /\ active # None /\ Same(active)
              /\ signalled' = signalled \cup {active}
              /\ UNCHANGED <<queue, held>>
           \/ /\ ~(active # None /\ Same(active))
              /\ IF first = {} THEN UNCHANGED <<queue, held>>
                 ELSE \E i \in first : /\ queue' = RemoveAt(queue, i)
                                       /\ held' = [held EXCEPT ![Reader] = {queue[i]}]
              /\ UNCHANGED signalled
    /\ handling' = None
    /\ Goto(Reader, "cancel_discard")
    /\ UNCHANGED <<serverVars, active, exStopping, transportVars, timed, owners, answers,
                   history>>

CancelDiscard ==
    /\ pc[Reader] = "cancel_discard"
    /\ Drop(held[Reader], "call")
    /\ held' = [held EXCEPT ![Reader] = {}]
    /\ Goto(Reader, "poll")
    /\ UNCHANGED <<state, protocol, cancelled, published, executorVars, transportVars,
                   handling, timed, answers, history>>

Receive(r) == \/ ReceiveIgnored(r) \/ ReceiveDuplicate(r) \/ ReceivePing(r)
              \/ ReceiveInitialize(r) \/ ReceiveEarly(r) \/ ReceiveCall(r)

ReaderStep == Enqueue \/ AnswerRefused \/ LeaveReceive \/ CancelInExecutor \/ CancelDiscard

-----------------------------------------------------------------------------
(* the executor's worker, and the invocation it calls *)

WorkerTake ==
    /\ pc[Worker] = "idle"
    /\ ~exStopping /\ queue # <<>>
    /\ active' = Head(queue)
    /\ queue' = Tail(queue)
    /\ Goto(Worker, "invoke")
    /\ UNCHANGED <<serverVars, exStopping, signalled, transportVars, localVars, owners,
                   answers, history>>

\* A cancellation or a stop that came first wins.
Invoke ==
    /\ pc[Worker] = "invoke"
    /\ IF active \in cancelled \/ ~Serving
       THEN Goto(Worker, "return")
       ELSE Goto(Worker, "application")
    /\ UNCHANGED <<serverVars, executorVars, transportVars, localVars, owners, answers,
                   history>>

\* application() returns or throws; a handler may call stop() on the way.
ApplicationReturns ==
    /\ pc[Worker] = "application"
    /\ Goto(Worker, "reply")
    /\ UNCHANGED <<serverVars, executorVars, transportVars, localVars, owners, answers,
                   history>>

ApplicationStops ==
    /\ pc[Worker] = "application"
    /\ CallStop(Worker, "reply")
    /\ UNCHANGED <<serverVars, executorVars, transportVars, localVars, owners, answers,
                   history>>

\* Variants: a reply that cannot be sent is ignored, or a cancellation is.
ReplyUnsentIgnored ==
    /\ pc[Worker] = "reply"
    /\ \/ active \notin cancelled /\ Serving /\ Sent(active, "result")
       \/ Unsent
    /\ Goto(Worker, "return")
    /\ UNCHANGED <<serverVars, executorVars, transportVars, localVars, owners, history>>

ReplyCancelledToo ==
    /\ pc[Worker] = "reply"
    /\ IF Serving
       THEN EmitThen(Worker, active, "result", "return")
       ELSE Unsent /\ Goto(Worker, "return")
    /\ UNCHANGED <<serverVars, executorVars, transportVars, localVars, owners, history>>

\* Cancellation and writer admission serialize on the mutex.
Reply ==
    /\ pc[Worker] = "reply"
    /\ IF active \notin cancelled /\ Serving
       THEN EmitThen(Worker, active, "result", "return")
       ELSE Unsent /\ Goto(Worker, "return")
    /\ UNCHANGED <<serverVars, executorVars, transportVars, localVars, owners, history>>

\* The executor forgets the id before the captures go and the operation with them.
WorkerClearActive ==
    /\ pc[Worker] = "return"
    /\ active' = None
    /\ held' = [held EXCEPT ![Worker] = {active}]
    /\ Goto(Worker, "release")
    /\ UNCHANGED <<serverVars, queue, exStopping, signalled, transportVars, handling,
                   timed, owners, answers, history>>

WorkerRelease ==
    /\ pc[Worker] = "release"
    /\ Drop(held[Worker], "call")
    /\ held' = [held EXCEPT ![Worker] = {}]
    /\ Goto(Worker, "idle")
    /\ UNCHANGED <<state, protocol, cancelled, published, executorVars, transportVars,
                   handling, timed, answers, history>>

WorkerExit ==
    /\ pc[Worker] = "idle"
    /\ exStopping
    /\ Goto(Worker, "exited")
    /\ UNCHANGED <<serverVars, executorVars, transportVars, localVars, owners, answers,
                   history>>

WorkerStep == \/ WorkerTake \/ Invoke \/ ApplicationReturns \/ Reply
              \/ WorkerClearActive \/ WorkerRelease \/ WorkerExit

-----------------------------------------------------------------------------
(* the transport's workers *)

\* End of input, a failed read or write, or a limit: the transport closes itself.
LoseConnection ==
    /\ "poll" \in {pc[Reader], pc[Writer]}
    /\ wire = "open"
    /\ wire' = "closing"
    /\ UNCHANGED <<serverVars, executorVars, claimed, pc, resume, localVars, owners,
                   answers, history>>

\* The first worker to leave runs the close callback, which stops the server.
TransportExit(t) ==
    /\ t \in {Reader, Writer}
    /\ pc[t] = "poll"
    /\ wire = "closing"
    /\ claimed' = TRUE
    /\ IF claimed THEN Goto(t, "exited") ELSE CallStop(t, "exited")
    /\ UNCHANGED <<serverVars, executorVars, wire, localVars, owners, answers, history>>

-----------------------------------------------------------------------------

Next == \/ \E t \in Threads : StopStep(t) \/ AppStop(t) \/ TransportExit(t)
        \/ LoseConnection
        \/ Start \/ StartStep
        \/ BeginWait \/ WaitStep \/ WaitTimesOut
        \/ \E r \in Requests : Receive(r) \/ NotifyCancelled(r)
        \/ ReceiveMalformed \/ NotifyInitialized \/ ReaderStep
        \/ WorkerStep \/ ApplicationStops

Spec == Init /\ [][Next]_vars

\* Every thread that can go on does, the application's handlers return and a
\* closing transport lets its workers go. No message, stop, wait or failure has
\* to come.
Fairness == /\ \A t \in Threads : WF_vars(StopStep(t))
            /\ \A t \in {Reader, Writer} : WF_vars(TransportExit(t))
            /\ WF_vars(StartStep) /\ WF_vars(WaitStep)
            /\ WF_vars(ReaderStep) /\ WF_vars(WorkerStep)

FairSpec == Spec /\ Fairness

-----------------------------------------------------------------------------
(* Properties *)

States == {"configuring", "starting", "running", "stopping", "stopped"}
Protocols == {"await_initialize", "await_initialized", "ready", "closing"}
Steps == {"idle", "unborn", "exited", "stop", "stop_executor", "stop_discard",
          "stop_transport", "publish", "open", "run", "wait_transport", "wait_executor",
          "wait_mark", "poll", "enqueue", "refused", "leave", "cancel", "cancel_discard",
          "invoke", "application", "reply", "return", "release"}

Replies == {"result", "error", "queue_full"}
Refusals == {"none", "closed", "duplicate", "full"}

ServerOK == /\ state \in States
            /\ protocol \in Protocols
            /\ inflight \subseteq Requests /\ cancelled \subseteq Requests
            /\ published \in BOOLEAN
            /\ owners \in [Requests -> SUBSET {"call", "reader"}]

ExecutorOK == /\ queue \in Seq(Requests) /\ active \in Requests \cup {None}
              /\ exStopping \in BOOLEAN /\ signalled \subseteq Requests

TransportOK == /\ wire \in {"unstarted", "consumed", "open", "closing"}
               /\ claimed \in BOOLEAN

ThreadsOK == pc \in [Threads -> Steps] /\ resume \in [Threads -> Steps]

LocalsOK == /\ handling \in Requests \cup {None}
            /\ held \in [Threads -> SUBSET Requests]
            /\ timed \in BOOLEAN

HistoryOK == /\ received \subseteq Requests /\ accepted \subseteq Requests
             /\ answers \in [Requests -> Seq(Replies)]
             /\ refusal \in [Requests -> Refusals]
             /\ joined \in BOOLEAN

(* The state server's members and its threads' locals may be in. *)
TypeOK == ServerOK /\ ExecutorOK /\ TransportOK /\ ThreadsOK /\ LocalsOK /\ HistoryOK

(* A request is answered at most once, whichever of the reader and the worker *)
(* answers it.                                                                *)
AnsweredAtMostOnce == \A r \in Requests : Len(answers[r]) <= 1

(* queue_full (-32052) is said only of a full queue, although receive says it of *)
(* any refusal: a stopped executor or a duplicate id never gets that far.        *)
QueueFullMeansFull ==
    \A r \in Requests : answers[r] # <<>> /\ refusal[r] # "none" => refusal[r] = "full"

(* Every request the executor knows is in flight and no two in flight have the *)
(* same wire id, so that the executor can only refuse for want of room.        *)
InFlightCoversExecutor ==
    /\ ToSet(queue) \cup ({active} \ {None}) \subseteq inflight
    /\ \A r, s \in inflight : SameRequestId(IdOf[r], IdOf[s]) => r = s
    /\ \A r \in Requests : refusal[r] # "duplicate"

(* A session in which handlers run is one that the host was told of: the result of *)
(* initialize that opens it is sent, and an error in its place ends the connection  *)
(* although protocol_ has moved on.                                                 *)
SessionWasAnswered ==
    protocol = "ready" =>
        \E r \in Requests : MethodOf[r] = "initialize" /\ answers[r] = <<"result">>

(* An operation that is gone was answered or cancelled, or its session is over: *)
(* a reply that could not be sent takes the session with it.                    *)
NoSilentLoss ==
    \A r \in accepted \ inflight :
        \/ answers[r] # <<>>
        \/ r \in cancelled
        \/ state \in {"stopping", "stopped"}

(* When a wait has returned success no SDK thread runs and every operation is *)
(* retired but for those an application thread inside stop() still destroys.  *)
JoinMeansQuiescent ==
    joined => /\ pc[Reader] \in {"unborn", "exited"}
              /\ pc[Writer] \in {"unborn", "exited"}
              /\ pc[Worker] \in {"unborn", "exited"}
              /\ state = "stopped"
              /\ inflight \subseteq held[App] \cup held[Owner]

Rank == [configuring |-> 0, starting |-> 1, running |-> 2, stopping |-> 3, stopped |-> 4]

(* The lifecycle only moves forward: a stop during start is not undone by start. *)
LifecycleForward == [][Rank[state] <= Rank[state']]_vars

(* Nothing is answered once the operation is cancelled or the server stopped, *)
(* however far the worker has got.                                           *)
NoLateAnswer ==
    [][\A r \in Requests :
         answers'[r] # answers[r] => r \notin cancelled /\ Serving]_vars

(* An operation is answered or cancelled in the end, or its session ends. *)
EveryCallSettles ==
    \A r \in Requests :
        r \in accepted ~> \/ answers[r] # <<>>
                          \/ r \in cancelled
                          \/ state \in {"stopping", "stopped"}

(* After a stop, whatever asked for it, a wait comes back; so does a failed start. *)
WaitReturnsAfterStop ==
    pc[Owner] = "wait_transport" /\ state = "stopping" ~> pc[Owner] = "idle"

=============================================================================
