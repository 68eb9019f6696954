---------------------------- MODULE ServerProofs ----------------------------
(* Proofs about Server, for every set of requests, ids and bound. *)
EXTENDS Server, SharedLemmas, TLAPS

-----------------------------------------------------------------------------
(* The inductive invariant. *)

StopSteps == {"stop", "stop_executor", "stop_discard", "stop_transport"}

\* Only a thread inside stop() has a place to return to, and which one depends on
\* the thread.
ResumeShape ==
    /\ \A t \in Threads : resume[t] # "idle" => pc[t] \in StopSteps
    /\ resume[Owner] \in {"idle", "wait_transport"}
    /\ resume[Reader] \in {"idle", "poll", "leave", "exited"}
    /\ resume[Worker] \in {"idle", "reply", "return"}

\* The SDK's threads exist once start() has come that far, and it comes there once.
BirthShape ==
    /\ wire = "unstarted" => pc[Reader] = "unborn" /\ pc[Writer] = "unborn"
    /\ ~published => pc[Worker] = "unborn"
    /\ pc[Owner] = "publish" => ~published /\ state # "configuring"
    /\ state = "configuring" => ~published

Control == ThreadsOK /\ ResumeShape /\ BirthShape

\* The worker has an invocation, and it has not yet replied.
Undecided == pc[Worker] \in {"invoke", "application", "reply"} \/ resume[Worker] = "reply"
Busy == Undecided \/ pc[Worker] = "return" \/ resume[Worker] = "return"

\* The reader has an operation that the executor has not taken.
Offering == pc[Reader] \in {"enqueue", "refused"}

\* What is in flight, waits or is offered was accepted.
OperationShape ==
    /\ accepted \subseteq received
    /\ inflight \subseteq accepted
    /\ cancelled \subseteq accepted
    /\ \A i \in 1..Len(queue) : queue[i] \in accepted
    /\ Busy => active \in accepted
    /\ Offering => handling \in accepted

\* What was not received was not answered, and an operation without an answer is in
\* one place only: queued, at the worker or with the reader.
AnswerShape ==
    /\ \A r \in Requests \ received : answers[r] = <<>>
    /\ \A i \in 1..Len(queue) : answers[queue[i]] = <<>>
    /\ \A i, j \in 1..Len(queue) : i # j => queue[i] # queue[j]
    /\ Undecided => answers[active] = <<>> /\ \A i \in 1..Len(queue) : queue[i] # active
    /\ Offering => /\ answers[handling] = <<>>
                   /\ \A i \in 1..Len(queue) : queue[i] # handling
                   /\ Undecided => active # handling

IInv == TypeOK /\ Control /\ OperationShape /\ AnswerShape

-----------------------------------------------------------------------------
(* Type correctness. *)

\* The entries of a list are of the type of its entries.
LEMMA EntriesType == ASSUME NEW S, NEW s \in Seq(S) PROVE ToSet(s) \subseteq S
  BY DEF ToSet

\* Appending to one list of a family of lists.
LEMMA AppendType ==
    ASSUME NEW S, NEW T, NEW f \in [S -> Seq(T)], NEW x, NEW a \in T
    PROVE  [f EXCEPT ![x] = Append(@, a)] \in [S -> Seq(T)]
  <1> DEFINE g == [f EXCEPT ![x] = Append(@, a)]
  <1>1. ASSUME NEW y \in S PROVE g[y] \in Seq(T)
    <2>1. f[y] \in Seq(T) /\ Append(f[y], a) \in Seq(T)
      OBVIOUS
    <2>2. g[y] = IF y = x THEN Append(f[y], a) ELSE f[y]
      OBVIOUS
    <2> QED  BY <2>1, <2>2
  <1>2. g = [y \in S |-> g[y]]
    OBVIOUS
  <1> QED  BY <1>1, <1>2

\* A text that is sent joins the answers of one request.
LEMMA SentType ==
    ASSUME TypeOK, NEW r, NEW answer \in Replies, Sent(r, answer)
    PROVE  answers' \in [Requests -> Seq(Replies)]
  BY AppendType DEF TypeOK, HistoryOK, Sent

\* The five threads.
LEMMA NamedThreads == {Owner, App, Reader, Writer, Worker} = Threads
  BY DEF Threads

\* Where a thread goes stays a step of the program.
LEMMA GotoType ==
    ASSUME TypeOK, NEW t \in Threads, NEW step \in Steps,
           Goto(t, step) \/ CallStop(t, step) \/ Return(t)
    PROVE  ThreadsOK'
  <1>1. "stop" \in Steps /\ "idle" \in Steps
    BY DEF Steps
  <1> QED  BY <1>1 DEF TypeOK, ThreadsOK, Goto, CallStop, Return

\* An answer is sent or the server stops.
LEMMA EmitType ==
    ASSUME TypeOK, NEW t \in Threads, NEW r, NEW answer \in Replies,
           NEW next \in Steps, EmitThen(t, r, answer, next)
    PROVE  answers' \in [Requests -> Seq(Replies)] /\ ThreadsOK'
  <1>1. CASE Sent(r, answer) /\ Goto(t, next)
    BY <1>1, SentType, GotoType
  <1>2. CASE Unsent /\ CallStop(t, next)
    BY <1>2, GotoType DEF TypeOK, HistoryOK, Unsent
  <1> QED  BY <1>1, <1>2 DEF EmitThen

\* Retiring operations keeps the shape of what is in flight.
LEMMA DropType ==
    ASSUME TypeOK, NEW dropped, NEW owner, Drop(dropped, owner)
    PROVE  /\ owners' \in [Requests -> SUBSET {"call", "reader"}]
           /\ inflight' \subseteq inflight
  BY DEF TypeOK, ServerOK, Drop

\* An offered, invoked or discarded operation is a request: the two facts about
\* OperationShape that type correctness needs.
HasRequest == /\ Busy => active \in Requests
              /\ Offering => handling \in Requests

\* Every action keeps the types.
LEMMA TypeStep == TypeOK /\ HasRequest /\ [Next]_vars => TypeOK'
  <1> SUFFICES ASSUME TypeOK, HasRequest, [Next]_vars PROVE TypeOK'
    OBVIOUS
  <1> USE NamedThreads
      DEF TypeOK, ServerOK, ExecutorOK, TransportOK, LocalsOK, HistoryOK,
          serverVars, executorVars, transportVars, localVars, history
  <1>a. \A t \in Threads, step \in Steps :
          Goto(t, step) \/ CallStop(t, step) \/ Return(t) => ThreadsOK'
    BY GotoType
  <1>b. UNCHANGED <<pc, resume>> => ThreadsOK'
    BY DEF ThreadsOK
  <1>c. \A dropped, owner :
          Drop(dropped, owner) => /\ owners' \in [Requests -> SUBSET {"call", "reader"}]
                                  /\ inflight' \subseteq inflight
    BY DropType
  <1>1. ASSUME NEW t \in Threads, StopStep(t) PROVE TypeOK'
    <2>1. CASE StopLocked(t)
      BY <1>a, <2>1 DEF StopLocked, States, Protocols, Steps
    <2>2. CASE StopExecutor(t)
      <3>1. ToSet(queue) \subseteq Requests
        BY EntriesType
      <3> QED  BY <1>a, <2>2, <3>1 DEF StopExecutor, Steps
    <2>3. CASE StopDiscard(t)
      BY <1>a, <1>c, <2>3 DEF StopDiscard, Steps
    <2>4. CASE StopTransport(t)
      <3>1. ThreadsOK'
        BY <1>a, <2>4 DEF StopTransport, Steps
      <3> QED  BY <2>4, <3>1 DEF StopTransport
    <2> QED  BY <1>1, <2>1, <2>2, <2>3, <2>4 DEF StopStep
  <1>2. ASSUME NEW t \in Threads, AppStop(t) PROVE TypeOK'
    BY <1>a, <1>2 DEF AppStop, Steps
  <1>3. ASSUME NEW t \in Threads, TransportExit(t) PROVE TypeOK'
    BY <1>a, <1>3 DEF TransportExit, Steps
  <1>4. CASE LoseConnection
    BY <1>b, <1>4 DEF LoseConnection
  <1>5. CASE Start
    BY <1>a, <1>5 DEF Start, States, Steps
  <1>6. CASE StartStep
    <2>1. CASE StartExecutor
      <3>1. ThreadsOK'
        BY <2>1 DEF StartExecutor, ThreadsOK, Steps
      <3> QED  BY <2>1, <3>1 DEF StartExecutor
    <2>2. CASE StartExecutorThrows
      BY <1>a, <2>2 DEF StartExecutorThrows, FailStart, Steps
    <2>3. CASE StartTransport
      <3>1. ThreadsOK'
        BY <2>3 DEF StartTransport, ThreadsOK, Steps
      <3> QED  BY <2>3, <3>1 DEF StartTransport
    <2>4. CASE StartTransportFails
      BY <1>a, <2>4 DEF StartTransportFails, FailStart, Steps
    <2>5. CASE StartRunning
      BY <1>a, <2>5 DEF StartRunning, FailStart, States, Steps
    <2> QED  BY <1>6, <2>1, <2>2, <2>3, <2>4, <2>5 DEF StartStep
  <1>7. CASE BeginWait \/ WaitStep \/ WaitTimesOut
    <2>1. CASE BeginWait
      BY <1>a, <2>1 DEF BeginWait, Steps
    <2>2. CASE WaitTransport
      BY <1>a, <2>2 DEF WaitTransport, Steps
    <2>3. CASE WaitExecutor
      BY <1>a, <2>3 DEF WaitExecutor, Steps
    <2>4. CASE WaitMark
      BY <1>a, <2>4 DEF WaitMark, States, Steps
    <2>5. CASE WaitTimesOut
      BY <1>a, <2>5 DEF WaitTimesOut, Steps
    <2> QED  BY <1>7, <2>1, <2>2, <2>3, <2>4, <2>5 DEF WaitStep
  <1>d. \A t \in Threads, r \in Requests, answer \in Replies, next \in Steps :
          EmitThen(t, r, answer, next) => answers' \in [Requests -> Seq(Replies)] /\ ThreadsOK'
    BY EmitType
  <1>8. ASSUME NEW r \in Requests, Receive(r) PROVE TypeOK'
    <2>1. CASE ReceiveIgnored(r)
      BY <1>b, <2>1 DEF ReceiveIgnored, Deliver
    <2>2. CASE ReceiveDuplicate(r)
      BY <1>a, <2>2 DEF ReceiveDuplicate, Deliver, Protocols, Steps
    <2>3. CASE ReceivePing(r)
      BY <1>d, <2>3 DEF ReceivePing, Deliver, Replies, Steps
    <2>4. CASE ReceiveInitialize(r)
      <3>1. answers' \in [Requests -> Seq(Replies)] /\ ThreadsOK'
        <4>1. CASE EmitThen(Reader, r, "result", "poll") \/ EmitThen(Reader, r, "error", "poll")
          BY <1>d, <4>1 DEF Replies, Steps
        <4>2. CASE Sent(r, "error") /\ CallStop(Reader, "poll")
          BY <1>a, <4>2, SentType DEF Replies, Steps
        <4> QED  BY <2>4, <4>1, <4>2 DEF ReceiveInitialize
      <3> QED  BY <2>4, <3>1 DEF ReceiveInitialize, Deliver, Protocols
    <2>5. CASE ReceiveEarly(r)
      BY <1>d, <2>5 DEF ReceiveEarly, Deliver, Replies, Steps
    <2>6. CASE ReceiveCall(r)
      BY <1>a, <2>6 DEF ReceiveCall, Deliver, Steps
    <2> QED  BY <1>8, <2>1, <2>2, <2>3, <2>4, <2>5, <2>6 DEF Receive
  <1>9. ASSUME NEW r \in Requests, NotifyCancelled(r) PROVE TypeOK'
    BY <1>a, <1>9 DEF NotifyCancelled, Steps
  <1>10. CASE ReceiveMalformed \/ NotifyInitialized
    BY <1>a, <1>b, <1>10 DEF ReceiveMalformed, NotifyInitialized, Protocols, Steps
  <1>11. CASE Enqueue
    <2>1. EnqueueAnswer(handling) \in Refusals
      BY DEF EnqueueAnswer, Refusals
    <2>2. handling \in Requests
      BY <1>11 DEF Enqueue, HasRequest, Offering
    <2>3. ThreadsOK'
      BY <1>11, <1>a DEF Enqueue, Steps
    <2>4. /\ queue' \in Seq(Requests)
          /\ owners' \in [Requests -> SUBSET {"call", "reader"}]
          /\ inflight' \subseteq Requests
      <3>1. CASE EnqueueAnswer(handling) = "none"
        <4>1. queue' = Append(queue, handling) /\ UNCHANGED <<inflight, owners>>
          BY <1>11, <3>1 DEF Enqueue
        <4> QED  BY <2>2, <4>1
      <3>2. CASE EnqueueAnswer(handling) # "none"
        <4>1. Drop({handling}, "call") /\ queue' = queue
          BY <1>11, <3>2 DEF Enqueue
        <4> QED  BY <1>c, <4>1
      <3> QED  BY <3>1, <3>2
    <2>5. refusal' \in [Requests -> Refusals]
      BY <1>11, <2>1 DEF Enqueue
    <2> QED  BY <1>11, <2>3, <2>4, <2>5 DEF Enqueue
  <1>12. CASE AnswerRefused
    <2>1. handling \in Requests
      BY <1>12 DEF AnswerRefused, HasRequest, Offering
    <2>2. answers' \in [Requests -> Seq(Replies)] /\ ThreadsOK'
      BY <1>12, <1>a, <1>d, <2>1 DEF AnswerRefused, Unsent, Replies, Steps
    <2> QED  BY <1>12, <2>2 DEF AnswerRefused
  <1>13. CASE LeaveReceive
    BY <1>a, <1>c, <1>13 DEF LeaveReceive, Steps
  <1>14. CASE CancelInExecutor
    <2>1. ASSUME NEW i \in 1..Len(queue) PROVE RemoveAt(queue, i) \in Seq(Requests)
      BY RemoveAtType
    <2>2. queue' \in Seq(Requests) /\ held' \in [Threads -> SUBSET Requests]
      <3>1. CASE UNCHANGED <<queue, held>>
        BY <3>1
      <3>2. CASE \E i \in 1..Len(queue) : /\ queue' = RemoveAt(queue, i)
                                         /\ held' = [held EXCEPT ![Reader] = {queue[i]}]
        BY <2>1, <3>2
      <3> QED  BY <1>14, <3>1, <3>2 DEF CancelInExecutor
    <2>3. signalled' \subseteq Requests
      BY <1>14 DEF CancelInExecutor
    <2>4. ThreadsOK' /\ handling' = None
      BY <1>14, <1>a DEF CancelInExecutor, Steps
    <2> QED  BY <1>14, <2>2, <2>3, <2>4 DEF CancelInExecutor
  <1>15. CASE CancelDiscard
    BY <1>a, <1>c, <1>15 DEF CancelDiscard, Steps
  <1>16. CASE WorkerTake
    BY <1>a, <1>16 DEF WorkerTake, Steps
  <1>17. CASE Invoke \/ ApplicationReturns \/ ApplicationStops \/ WorkerExit
    BY <1>a, <1>17 DEF Invoke, ApplicationReturns, ApplicationStops, WorkerExit, Steps
  <1>18. CASE Reply
    <2>1. active \in Requests
      BY <1>18 DEF Reply, HasRequest, Busy, Undecided
    <2>2. answers' \in [Requests -> Seq(Replies)] /\ ThreadsOK'
      BY <1>18, <1>a, <1>d, <2>1 DEF Reply, Unsent, Replies, Steps
    <2> QED  BY <1>18, <2>2 DEF Reply
  <1>19. CASE WorkerClearActive
    <2>1. active \in Requests
      BY <1>19 DEF WorkerClearActive, HasRequest, Busy
    <2> QED  BY <1>19, <1>a, <2>1 DEF WorkerClearActive, Steps
  <1>20. CASE WorkerRelease
    BY <1>a, <1>c, <1>20 DEF WorkerRelease, Steps
  <1>21. CASE UNCHANGED vars
    BY <1>b, <1>21 DEF vars
  <1> QED
    BY <1>1, <1>2, <1>3, <1>4, <1>5, <1>6, <1>7, <1>8, <1>9, <1>10, <1>11, <1>12, <1>13,
       <1>14, <1>15, <1>16, <1>17, <1>18, <1>19, <1>20, <1>21
    DEF Next, ReaderStep, WorkerStep

-----------------------------------------------------------------------------
(* The threads' control. *)

\* One thread moves: it goes on, into stop(), or back from it.
LEMMA ControlMove ==
    ASSUME Control, NEW t \in Threads, pc[t] # "unborn",
           NEW step \in Steps \ {"publish"},
           \/ /\ Goto(t, step)
              /\ pc[t] \in StopSteps => step \in StopSteps
           \/ /\ CallStop(t, step)
              /\ t = Owner => step \in {"idle", "wait_transport"}
              /\ t = Reader => step \in {"idle", "poll", "leave", "exited"}
              /\ t = Worker => step \in {"idle", "reply", "return"}
           \/ Return(t),
           published' = published,
           wire' = "unstarted" => wire = "unstarted",
           state' = "configuring" => state = "configuring"
    PROVE  Control'
  <1>1. ThreadsOK'
    BY DEF Control, ThreadsOK, Goto, CallStop, Return, Steps
  <1>2. ResumeShape'
    BY NamedThreads DEF Control, ThreadsOK, ResumeShape, Goto, CallStop, Return, StopSteps
  <1>3. BirthShape'
    <2>1. ASSUME NEW u \in Threads, pc[u] = "unborn" PROVE pc'[u] = "unborn"
      BY <2>1 DEF Control, ThreadsOK, Goto, CallStop, Return
    <2>2. pc'[Owner] = "publish" => pc[Owner] = "publish"
      BY NamedThreads DEF Control, ThreadsOK, ResumeShape, Goto, CallStop, Return
    <2> QED  BY <2>1, <2>2, NamedThreads DEF Control, BirthShape
  <1> QED  BY <1>1, <1>2, <1>3 DEF Control

\* Every action moves one thread along its path, or leaves the threads alone.
LEMMA ControlStep == Control /\ [Next]_vars => Control'
  <1> SUFFICES ASSUME Control, [Next]_vars PROVE Control'
    OBVIOUS
  <1> USE NamedThreads DEF serverVars, transportVars, StopSteps
  <1>m. ASSUME NEW t \in Threads, NEW step \in Steps \ {"publish"}, pc[t] # "unborn",
               published' = published,
               wire' = "unstarted" => wire = "unstarted",
               state' = "configuring" => state = "configuring",
               \/ /\ Goto(t, step)
                  /\ pc[t] \in StopSteps => step \in StopSteps
               \/ /\ CallStop(t, step)
                  /\ t = Owner => step \in {"idle", "wait_transport"}
                  /\ t = Reader => step \in {"idle", "poll", "leave", "exited"}
                  /\ t = Worker => step \in {"idle", "reply", "return"}
               \/ Return(t)
        PROVE  Control'
    BY <1>m, ControlMove
  <1>u. UNCHANGED <<pc, resume, published>> /\ wire # "unstarted" /\ wire' # "unstarted"
          /\ UNCHANGED state => Control'
    BY DEF Control, ThreadsOK, ResumeShape, BirthShape
  <1>1. ASSUME NEW t \in Threads, StopStep(t) PROVE Control'
    <2>1. CASE StopLocked(t)
      BY <1>m, <2>1 DEF StopLocked, Steps
    <2>2. CASE StopExecutor(t)
      BY <1>m, <2>2 DEF StopExecutor, Steps
    <2>3. CASE StopDiscard(t)
      BY <1>m, <2>3 DEF StopDiscard, Steps
    <2>4. CASE StopTransport(t)
      BY <1>m, <2>4 DEF StopTransport, Steps
    <2> QED  BY <1>1, <2>1, <2>2, <2>3, <2>4 DEF StopStep
  <1>2. ASSUME NEW t \in Threads, AppStop(t) PROVE Control'
    BY <1>m, <1>2, StoppersAssumption, ThreadsAssumption DEF AppStop, Steps
  <1>3. ASSUME NEW t \in Threads, TransportExit(t) PROVE Control'
    BY <1>m, <1>3, ThreadsAssumption DEF TransportExit, Steps
  <1>4. CASE LoseConnection
    BY <1>u, <1>4 DEF LoseConnection
  <1>5. CASE Start
    <2>1. CASE Goto(Owner, "idle") /\ state' = "stopped"
      BY <1>m, <1>5, <2>1 DEF Start, Steps
    <2>2. CASE Goto(Owner, "publish") /\ state' = "starting"
      BY <1>5, <2>2, ThreadsAssumption
      DEF Start, Goto, Control, ThreadsOK, ResumeShape, BirthShape, Steps
    <2> QED  BY <1>5, <2>1, <2>2 DEF Start
  <1>6. CASE StartStep
    <2>1. CASE StartExecutor
      BY <2>1, ThreadsAssumption
      DEF StartExecutor, Control, ThreadsOK, ResumeShape, BirthShape, Steps
    <2>2. CASE StartExecutorThrows
      BY <1>m, <2>2, ThreadsAssumption DEF StartExecutorThrows, FailStart, Steps
    <2>3. CASE StartTransport
      BY <2>3, ThreadsAssumption
      DEF StartTransport, Control, ThreadsOK, ResumeShape, BirthShape, Steps
    <2>4. CASE StartTransportFails
      BY <1>m, <2>4, ThreadsAssumption DEF StartTransportFails, FailStart, Steps
    <2>5. CASE StartRunning
      BY <1>m, <2>5, ThreadsAssumption DEF StartRunning, FailStart, Steps
    <2> QED  BY <1>6, <2>1, <2>2, <2>3, <2>4, <2>5 DEF StartStep
  <1>7. CASE BeginWait \/ WaitStep \/ WaitTimesOut
    <2>1. CASE BeginWait
      BY <1>m, <2>1 DEF BeginWait, Steps
    <2>2. CASE WaitTransport
      BY <1>m, <2>2 DEF WaitTransport, Steps
    <2>3. CASE WaitExecutor
      BY <1>m, <2>3 DEF WaitExecutor, Steps
    <2>4. CASE WaitMark
      BY <1>m, <2>4 DEF WaitMark, Steps
    <2>5. CASE WaitTimesOut
      BY <1>m, <2>5 DEF WaitTimesOut, Steps
    <2> QED  BY <1>7, <2>1, <2>2, <2>3, <2>4, <2>5 DEF WaitStep
  <1>r. Reader \notin {Owner, Worker} /\ Worker # Owner
    BY ThreadsAssumption
  <1>8. ASSUME NEW r \in Requests, Receive(r) PROVE Control'
    <2>1. CASE ReceiveIgnored(r)
      BY <2>1 DEF ReceiveIgnored, Deliver, Reading, Control, ThreadsOK, ResumeShape, BirthShape
    <2>2. CASE ReceiveDuplicate(r)
      BY <1>m, <1>r, <2>2 DEF ReceiveDuplicate, Deliver, Reading, Steps
    <2>3. CASE ReceivePing(r)
      BY <1>m, <1>r, <2>3 DEF ReceivePing, Deliver, Reading, EmitThen, Steps
    <2>4. CASE ReceiveInitialize(r)
      BY <1>m, <1>r, <2>4 DEF ReceiveInitialize, Deliver, Reading, EmitThen, Steps
    <2>5. CASE ReceiveEarly(r)
      BY <1>m, <1>r, <2>5 DEF ReceiveEarly, Deliver, Reading, EmitThen, Steps
    <2>6. CASE ReceiveCall(r)
      BY <1>m, <2>6 DEF ReceiveCall, Deliver, Reading, Steps
    <2> QED  BY <1>8, <2>1, <2>2, <2>3, <2>4, <2>5, <2>6 DEF Receive
  <1>9. ASSUME NEW r \in Requests, NotifyCancelled(r) PROVE Control'
    BY <1>m, <1>9 DEF NotifyCancelled, Reading, Steps
  <1>10. CASE ReceiveMalformed
    BY <1>m, <1>r, <1>10 DEF ReceiveMalformed, Reading, Steps
  <1>11. CASE NotifyInitialized
    BY <1>u, <1>11 DEF NotifyInitialized, Reading
  <1>12. CASE ReaderStep
    <2>1. CASE Enqueue
      BY <1>m, <2>1 DEF Enqueue, Steps
    <2>2. CASE AnswerRefused
      BY <1>m, <1>r, <2>2 DEF AnswerRefused, EmitThen, Steps
    <2>3. CASE LeaveReceive
      BY <1>m, <2>3 DEF LeaveReceive, Steps
    <2>4. CASE CancelInExecutor
      BY <1>m, <2>4 DEF CancelInExecutor, Steps
    <2>5. CASE CancelDiscard
      BY <1>m, <2>5 DEF CancelDiscard, Steps
    <2> QED  BY <1>12, <2>1, <2>2, <2>3, <2>4, <2>5 DEF ReaderStep
  <1>13. CASE WorkerStep \/ ApplicationStops
    <2>1. CASE WorkerTake
      BY <1>m, <2>1 DEF WorkerTake, Steps
    <2>2. CASE Invoke \/ ApplicationReturns \/ WorkerExit
      BY <1>m, <2>2 DEF Invoke, ApplicationReturns, WorkerExit, executorVars, Steps
    <2>3. CASE ApplicationStops
      BY <1>m, <1>r, <2>3 DEF ApplicationStops, Steps
    <2>4. CASE Reply
      BY <1>m, <1>r, <2>4 DEF Reply, EmitThen, Steps
    <2>5. CASE WorkerClearActive
      BY <1>m, <2>5 DEF WorkerClearActive, Steps
    <2>6. CASE WorkerRelease
      BY <1>m, <2>6 DEF WorkerRelease, Steps
    <2> QED  BY <1>13, <2>1, <2>2, <2>3, <2>4, <2>5, <2>6 DEF WorkerStep
  <1>14. CASE UNCHANGED vars
    BY <1>14 DEF vars, Control, ThreadsOK, ResumeShape, BirthShape
  <1> QED
    BY <1>1, <1>2, <1>3, <1>4, <1>5, <1>6, <1>7, <1>8, <1>9, <1>10, <1>11, <1>12, <1>13,
       <1>14
    DEF Next

-----------------------------------------------------------------------------
(* Where an operation without an answer may be. *)

\* Nothing comes to the worker or to the reader.
Stay == (Undecided' => Undecided) /\ (Busy' => Busy) /\ (Offering' => Offering)

\* What one thread's move means for the worker and the reader.
LEMMA PlaceMove ==
    ASSUME Control, NEW t \in Threads, NEW step \in Steps,
           Goto(t, step) \/ CallStop(t, step) \/ Return(t),
           t = Worker /\ step \in {"invoke", "application", "reply"} => Undecided,
           t = Worker /\ step = "return" => Busy,
           t = Reader /\ step \in {"enqueue", "refused"} => Offering
    PROVE  Stay
  <1>1. (Undecided' => Undecided) /\ (Busy' => Busy)
    BY NamedThreads DEF Control, ThreadsOK, ResumeShape, Undecided, Busy, Goto, CallStop, Return
  <1>2. Offering' => Offering
    BY NamedThreads DEF Control, ThreadsOK, ResumeShape, Offering, Goto, CallStop, Return
  <1> QED  BY <1>1, <1>2 DEF Stay

\* A step that moves no operation between those places, and answers none in them.
LEMMA QuietKeeps ==
    ASSUME TypeOK, OperationShape, AnswerShape, Stay,
           accepted' = accepted, received \subseteq received', inflight' \subseteq inflight,
           cancelled' \subseteq cancelled \cup inflight,
           queue' \in {queue, <<>>},
           Busy' => active' = active,
           Offering' => handling' = handling,
           \A r \in received : answers'[r] = answers[r],
           \A r \in Requests \ received' : answers'[r] = answers[r]
    PROVE  OperationShape' /\ AnswerShape'
  <1>1. \A i \in 1..Len(queue') : i \in 1..Len(queue) /\ queue'[i] = queue[i]
    OBVIOUS
  <1>2. Undecided' => Busy'
    BY DEF Busy
  <1>3. OperationShape'
    BY <1>1 DEF OperationShape, Stay
  <1>4. \A r \in accepted : answers'[r] = answers[r]
    BY DEF OperationShape
  <1>5. AnswerShape'
    BY <1>1, <1>2, <1>3, <1>4 DEF OperationShape, AnswerShape, Stay
  <1> QED  BY <1>3, <1>5

\* Every action keeps each unanswered operation in one place.
LEMMA OperationStep ==
    ASSUME TypeOK, Control, OperationShape, AnswerShape, [Next]_vars
    PROVE  OperationShape' /\ AnswerShape'
  <1> DEFINE Goal == OperationShape' /\ AnswerShape'
  <1> USE NamedThreads DEF serverVars, executorVars, transportVars, localVars, history
  <1>d. Reader \notin {Owner, App, Writer, Worker} /\ Worker \notin {Owner, App, Writer}
    BY ThreadsAssumption
  <1>s. \A t \in Threads, step \in Steps :
          /\ Goto(t, step) \/ CallStop(t, step) \/ Return(t)
          /\ t = Worker /\ step \in {"invoke", "application", "reply"} => Undecided
          /\ t = Worker /\ step = "return" => Busy
          /\ t = Reader /\ step \in {"enqueue", "refused"} => Offering
          => Stay
    BY PlaceMove
  <1>u. UNCHANGED <<pc, resume>> => Stay
    BY DEF Stay, Busy, Undecided, Offering
  <1>q. ASSUME Stay, accepted' = accepted, received \subseteq received',
               inflight' \subseteq inflight, cancelled' \subseteq cancelled \cup inflight,
               queue' \in {queue, <<>>},
               Busy' => active' = active, Offering' => handling' = handling,
               \A r \in received : answers'[r] = answers[r],
               \A r \in Requests \ received' : answers'[r] = answers[r]
        PROVE  Goal
    BY <1>q, QuietKeeps
  <1>f. \A dropped, owner : Drop(dropped, owner) => inflight' \subseteq inflight
    BY DEF Drop
  <1> SUFFICES Goal
    OBVIOUS
  <1> HIDE DEF Goal
  <1>1. ASSUME NEW t \in Threads, StopStep(t) PROVE Goal
    <2>1. CASE StopLocked(t)
      <3>1. Stay
        BY <1>s, <2>1 DEF StopLocked, Steps
      <3> QED  BY <1>q, <2>1, <3>1 DEF StopLocked
    <2>2. CASE StopExecutor(t)
      <3>1. Stay
        BY <1>s, <2>2 DEF StopExecutor, Steps
      <3> QED  BY <1>q, <2>2, <3>1 DEF StopExecutor
    <2>3. CASE StopDiscard(t)
      <3>1. Stay /\ inflight' \subseteq inflight
        BY <1>s, <1>f, <2>3 DEF StopDiscard, Steps
      <3> QED  BY <1>q, <2>3, <3>1 DEF StopDiscard
    <2>4. CASE StopTransport(t)
      <3>1. Stay
        BY <1>s, <2>4 DEF StopTransport, Steps
      <3> QED  BY <1>q, <2>4, <3>1 DEF StopTransport
    <2> QED  BY <1>1, <2>1, <2>2, <2>3, <2>4 DEF StopStep
  <1>2. ASSUME NEW t \in Threads, AppStop(t) PROVE Goal
    <2>1. Stay
      BY <1>s, <1>2 DEF AppStop, Steps
    <2> QED  BY <1>q, <1>2, <2>1 DEF AppStop
  <1>3. ASSUME NEW t \in Threads, TransportExit(t) PROVE Goal
    <2>1. Stay
      BY <1>s, <1>3 DEF TransportExit, Steps
    <2> QED  BY <1>q, <1>3, <2>1 DEF TransportExit
  <1>4. CASE LoseConnection
    BY <1>q, <1>u, <1>4 DEF LoseConnection
  <1>5. CASE Start
    <2>1. Stay
      BY <1>d, <1>s, <1>5 DEF Start, Steps
    <2> QED  BY <1>q, <1>5, <2>1 DEF Start
  <1>6. CASE StartStep
    <2>1. CASE StartExecutor
      <3>1. Stay
        BY <1>d, <2>1
        DEF StartExecutor, Control, ThreadsOK, ResumeShape, Stay, Busy, Undecided, Offering
      <3> QED  BY <1>q, <2>1, <3>1 DEF StartExecutor
    <2>2. CASE StartExecutorThrows
      <3>1. Stay
        BY <1>d, <1>s, <2>2 DEF StartExecutorThrows, FailStart, Steps
      <3> QED  BY <1>q, <2>2, <3>1 DEF StartExecutorThrows
    <2>3. CASE StartTransport
      <3>1. Stay
        BY <1>d, <2>3
        DEF StartTransport, Control, ThreadsOK, Stay, Busy, Undecided, Offering
      <3> QED  BY <1>q, <2>3, <3>1 DEF StartTransport
    <2>4. CASE StartTransportFails
      <3>1. Stay
        BY <1>d, <1>s, <2>4 DEF StartTransportFails, FailStart, Steps
      <3> QED  BY <1>q, <2>4, <3>1 DEF StartTransportFails
    <2>5. CASE StartRunning
      <3>1. Stay
        BY <1>d, <1>s, <2>5 DEF StartRunning, FailStart, Steps
      <3> QED  BY <1>q, <2>5, <3>1 DEF StartRunning
    <2> QED  BY <1>6, <2>1, <2>2, <2>3, <2>4, <2>5 DEF StartStep
  <1>7. CASE BeginWait \/ WaitStep \/ WaitTimesOut
    <2>1. Stay
      BY <1>d, <1>s, <1>7
      DEF BeginWait, WaitStep, WaitTransport, WaitExecutor, WaitMark, WaitTimesOut, Steps
    <2>2. /\ UNCHANGED <<accepted, received, inflight, cancelled, queue, active, handling>>
          /\ UNCHANGED answers
      BY <1>7 DEF BeginWait, WaitStep, WaitTransport, WaitExecutor, WaitMark, WaitTimesOut
    <2> QED  BY <1>q, <2>1, <2>2
  <1>8. ASSUME NEW r \in Requests, Receive(r) PROVE Goal
    <2>1. CASE ReceiveIgnored(r)
      BY <1>q, <1>u, <2>1 DEF ReceiveIgnored, Deliver
    <2>2. CASE ReceiveDuplicate(r)
      <3>1. Stay
        BY <1>d, <1>s, <2>2 DEF ReceiveDuplicate, Steps
      <3> QED  BY <1>q, <2>2, <3>1 DEF ReceiveDuplicate, Deliver
    <2>3. CASE ReceivePing(r) \/ ReceiveInitialize(r) \/ ReceiveEarly(r)
      <3>1. Stay
        BY <1>d, <1>s, <2>3
        DEF ReceivePing, ReceiveInitialize, ReceiveEarly, EmitThen, Steps
      <3>2. \A q \in Requests : q # r => answers'[q] = answers[q]
        BY <2>3 DEF ReceivePing, ReceiveInitialize, ReceiveEarly, EmitThen, Sent, Unsent,
                    TypeOK, HistoryOK
      <3>3. /\ r \notin received /\ received' = received \cup {r}
            /\ UNCHANGED <<accepted, inflight, cancelled, queue, active, handling>>
        BY <2>3 DEF ReceivePing, ReceiveInitialize, ReceiveEarly, Deliver
      <3>4. received \subseteq Requests
        BY DEF TypeOK, HistoryOK
      <3> QED  BY <1>q, <3>1, <3>2, <3>3, <3>4
    <2>4. CASE ReceiveCall(r)
      <3>1. /\ r \notin received /\ received' = received \cup {r}
            /\ accepted' = accepted \cup {r} /\ inflight' = inflight \cup {r}
            /\ handling' = r /\ UNCHANGED <<cancelled, queue, active, answers, resume>>
            /\ pc' = [pc EXCEPT ![Reader] = "enqueue"]
        BY <2>4 DEF ReceiveCall, Deliver, Goto
      <3>2. (Undecided' => Undecided) /\ (Busy' => Busy)
        BY <1>d, <3>1 DEF TypeOK, ThreadsOK, Undecided, Busy
      <3>3. OperationShape'
        BY <3>1, <3>2 DEF OperationShape
      <3>4. r \notin accepted /\ answers[r] = <<>>
        BY <3>1 DEF OperationShape, AnswerShape
      <3>5. AnswerShape'
        BY <3>1, <3>2, <3>4 DEF OperationShape, AnswerShape, Busy
      <3> QED  BY <3>3, <3>5 DEF Goal
    <2> QED  BY <1>8, <2>1, <2>2, <2>3, <2>4 DEF Receive
  <1>9. ASSUME NEW r \in Requests, NotifyCancelled(r) PROVE Goal
    <2>1. Stay /\ ~Offering'
      BY <1>d, <1>s, <1>9
      DEF NotifyCancelled, Goto, Offering, TypeOK, ThreadsOK, Steps
    <2> QED  BY <1>q, <1>9, <2>1 DEF NotifyCancelled
  <1>10. CASE ReceiveMalformed
    <2>1. Stay
      BY <1>d, <1>s, <1>10 DEF ReceiveMalformed, Steps
    <2> QED  BY <1>q, <1>10, <2>1 DEF ReceiveMalformed
  <1>11. CASE NotifyInitialized
    BY <1>q, <1>u, <1>11 DEF NotifyInitialized
  <1>12. CASE Enqueue
    <2>1. Offering /\ Stay
      BY <1>12, <1>d, <1>s DEF Enqueue, Offering, Steps
    <2>2. CASE EnqueueAnswer(handling) = "none"
      <3>1. /\ queue' = Append(queue, handling)
            /\ UNCHANGED <<inflight, accepted, received, cancelled, active, handling, answers>>
            /\ ~Offering'
        BY <1>12, <2>2 DEF Enqueue, Goto, Offering, TypeOK, ThreadsOK
      <3>2. /\ \A i \in 1..Len(queue') :
                 queue'[i] = IF i = Len(queue) + 1 THEN handling ELSE queue[i]
            /\ Len(queue') = Len(queue) + 1
        BY <3>1 DEF TypeOK, ExecutorOK
      <3>3. OperationShape'
        BY <2>1, <3>1, <3>2 DEF OperationShape, Stay, TypeOK, ExecutorOK
      <3>4. AnswerShape'
        BY <2>1, <3>1, <3>2 DEF OperationShape, AnswerShape, Stay, TypeOK, ExecutorOK
      <3> QED  BY <3>3, <3>4 DEF Goal
    <2>3. CASE EnqueueAnswer(handling) # "none"
      <3>1. Drop({handling}, "call") /\ UNCHANGED queue
        BY <1>12, <2>3 DEF Enqueue
      <3> QED  BY <1>12, <1>f, <1>q, <2>1, <3>1 DEF Enqueue
    <2> QED  BY <2>2, <2>3
  <1>13. CASE AnswerRefused
    <2>1. Offering /\ Stay /\ ~Offering'
      BY <1>13, <1>d, <1>s
      DEF AnswerRefused, EmitThen, Goto, CallStop, Offering, TypeOK, ThreadsOK, Steps
    <2>2. \A q \in Requests : q # handling => answers'[q] = answers[q]
      BY <1>13 DEF AnswerRefused, EmitThen, Sent, Unsent, TypeOK, HistoryOK
    <2>3. UNCHANGED <<inflight, accepted, received, cancelled, queue, active, handling>>
      BY <1>13 DEF AnswerRefused
    <2>4. OperationShape'
      BY <2>1, <2>3 DEF OperationShape, Stay
    <2>5. accepted \subseteq Requests
      BY DEF TypeOK, HistoryOK
    <2>6. AnswerShape'
      BY <2>1, <2>2, <2>3, <2>5 DEF OperationShape, AnswerShape, Stay, Busy
    <2> QED  BY <2>4, <2>6 DEF Goal
  <1>14. CASE LeaveReceive
    <2>1. Stay /\ ~Offering' /\ inflight' \subseteq inflight
      BY <1>14, <1>d, <1>s, <1>f DEF LeaveReceive, Goto, Offering, TypeOK, ThreadsOK, Steps
    <2> QED  BY <1>14, <1>q, <2>1 DEF LeaveReceive
  <1>15. CASE CancelInExecutor
    <2>1. Stay /\ ~Offering'
      BY <1>15, <1>d, <1>s DEF CancelInExecutor, Goto, Offering, TypeOK, ThreadsOK, Steps
    <2>2. UNCHANGED <<inflight, accepted, received, cancelled, active, answers>>
      BY <1>15 DEF CancelInExecutor
    <2>3. CASE UNCHANGED queue
      BY <1>q, <2>1, <2>2, <2>3
    <2>4. ASSUME NEW i \in 1..Len(queue), queue' = RemoveAt(queue, i)
          PROVE  Goal
      <3>1. /\ Len(queue') = Len(queue) - 1
            /\ \A j \in 1..Len(queue') : queue'[j] = queue[IF j < i THEN j ELSE j + 1]
        BY <2>4, RemoveAtElements DEF TypeOK, ExecutorOK
      <3>2. Len(queue) \in Nat
        BY DEF TypeOK, ExecutorOK
      <3>3. OperationShape'
        BY <2>1, <2>2, <3>1, <3>2 DEF OperationShape, Stay
      <3>4. \A j, k \in 1..Len(queue') : j # k => queue'[j] # queue'[k]
        BY <3>1, <3>2 DEF AnswerShape
      <3>5. AnswerShape'
        BY <2>1, <2>2, <3>1, <3>2, <3>4 DEF AnswerShape, Stay
      <3> QED  BY <3>3, <3>5 DEF Goal
    <2> QED  BY <1>15, <2>3, <2>4 DEF CancelInExecutor
  <1>16. CASE CancelDiscard
    <2>1. Stay /\ inflight' \subseteq inflight
      BY <1>16, <1>d, <1>s, <1>f DEF CancelDiscard, Steps
    <2> QED  BY <1>16, <1>q, <2>1 DEF CancelDiscard
  <1>17. CASE WorkerTake
    <2>1. /\ queue # <<>> /\ active' = Head(queue) /\ queue' = Tail(queue)
          /\ UNCHANGED <<inflight, accepted, received, cancelled, handling, answers>>
      BY <1>17 DEF WorkerTake
    <2>2. Offering' => Offering
      BY <1>17, <1>d DEF WorkerTake, Goto, Offering, TypeOK, ThreadsOK
    <2>3. /\ 1 \in 1..Len(queue) /\ active' = queue[1]
          /\ Len(queue') = Len(queue) - 1
          /\ \A i \in 1..Len(queue') : i + 1 \in 1..Len(queue) /\ queue'[i] = queue[i + 1]
      BY <2>1 DEF TypeOK, ExecutorOK
    <2>4. OperationShape'
      BY <2>1, <2>2, <2>3 DEF OperationShape
    <2>5. \A i \in 1..Len(queue') : i + 1 # 1
      OBVIOUS
    <2>6. \A i, j \in 1..Len(queue') : i # j => i + 1 # j + 1
      OBVIOUS
    <2>7. AnswerShape'
      BY <2>1, <2>2, <2>3, <2>5, <2>6 DEF AnswerShape
    <2> QED  BY <2>4, <2>7 DEF Goal
  <1>18. CASE Invoke \/ ApplicationReturns \/ ApplicationStops \/ WorkerExit
    <2>1. Stay
      BY <1>18, <1>d, <1>s
      DEF Invoke, ApplicationReturns, ApplicationStops, WorkerExit, Undecided, Busy, Steps
    <2>2. UNCHANGED <<inflight, accepted, received, cancelled, queue, active, handling, answers>>
      BY <1>18 DEF Invoke, ApplicationReturns, ApplicationStops, WorkerExit
    <2> QED  BY <1>q, <2>1, <2>2
  <1>19. CASE Reply
    <2>1. Undecided /\ Busy /\ Stay
      BY <1>19, <1>d, <1>s DEF Reply, EmitThen, Undecided, Busy, Steps
    <2>2. ~Undecided'
      BY <1>19
      DEF Reply, EmitThen, Goto, CallStop, Undecided, Control, ThreadsOK, ResumeShape, StopSteps
    <2>3. \A q \in Requests : q # active => answers'[q] = answers[q]
      BY <1>19 DEF Reply, EmitThen, Sent, Unsent, TypeOK, HistoryOK
    <2>4. UNCHANGED <<inflight, accepted, received, cancelled, queue, active, handling>>
      BY <1>19 DEF Reply
    <2>5. OperationShape'
      BY <2>1, <2>4 DEF OperationShape, Stay
    <2>6. accepted \subseteq Requests
      BY DEF TypeOK, HistoryOK
    <2>7. AnswerShape'
      BY <2>1, <2>2, <2>3, <2>4, <2>6 DEF OperationShape, AnswerShape, Stay
    <2> QED  BY <2>5, <2>7 DEF Goal
  <1>20. CASE WorkerClearActive
    <2>1. ~Busy'
      BY <1>20
      DEF WorkerClearActive, Goto, Undecided, Busy, Control, ThreadsOK, ResumeShape, StopSteps
    <2>2. Stay
      BY <1>20, <1>d, <1>s DEF WorkerClearActive, Steps
    <2> QED  BY <1>20, <1>q, <2>1, <2>2 DEF WorkerClearActive
  <1>21. CASE WorkerRelease
    <2>1. Stay /\ inflight' \subseteq inflight
      BY <1>21, <1>d, <1>s, <1>f DEF WorkerRelease, Steps
    <2> QED  BY <1>21, <1>q, <2>1 DEF WorkerRelease
  <1>22. CASE UNCHANGED vars
    BY <1>22, <1>q, <1>u DEF vars
  <1> QED
    BY <1>1, <1>2, <1>3, <1>4, <1>5, <1>6, <1>7, <1>8, <1>9, <1>10, <1>11, <1>12, <1>13,
       <1>14, <1>15, <1>16, <1>17, <1>18, <1>19, <1>20, <1>21, <1>22
    DEF Next, ReaderStep, WorkerStep

-----------------------------------------------------------------------------
(* The inductive invariant is one. *)

\* The invariant holds before start.
LEMMA InvInit == Init => IInv
  <1> SUFFICES ASSUME Init PROVE IInv
    OBVIOUS
  <1>1. TypeOK
    <2>1. ServerOK /\ TransportOK /\ LocalsOK
      BY DEF Init, ServerOK, TransportOK, LocalsOK, States, Protocols
    <2>2. ExecutorOK
      <3>1. queue = <<>> /\ active = None /\ exStopping = FALSE /\ signalled = {}
        BY DEF Init
      <3>2. <<>> \in Seq(Requests)
        OBVIOUS
      <3> QED  BY <3>1, <3>2 DEF ExecutorOK
    <2>3. ThreadsOK
      BY DEF Init, ThreadsOK, Steps
    <2>4. HistoryOK
      <3>1. <<>> \in Seq(Replies)
        OBVIOUS
      <3>2. answers \in [Requests -> Seq(Replies)]
        BY <3>1 DEF Init
      <3>3. received = {} /\ accepted = {} /\ joined = FALSE /\ refusal \in [Requests -> Refusals]
        BY DEF Init, Refusals
      <3> QED  BY <3>2, <3>3 DEF HistoryOK
    <2> QED  BY <2>1, <2>2, <2>3, <2>4 DEF TypeOK
  <1>2. Control
    BY <1>1, NamedThreads, ThreadsAssumption DEF Init, Control, TypeOK, ResumeShape, BirthShape
  <1>3. ~Busy /\ ~Offering /\ ~Undecided
    BY NamedThreads, ThreadsAssumption DEF Init, Busy, Undecided, Offering
  <1>4. OperationShape /\ AnswerShape
    BY <1>3 DEF Init, OperationShape, AnswerShape
  <1> QED  BY <1>1, <1>2, <1>4 DEF IInv

\* The invariant survives every step.
LEMMA InvStep == IInv /\ [Next]_vars => IInv'
  <1> SUFFICES ASSUME IInv, [Next]_vars PROVE IInv'
    OBVIOUS
  <1>1. HasRequest
    BY DEF IInv, OperationShape, HasRequest, TypeOK, HistoryOK
  <1> QED  BY <1>1, TypeStep, ControlStep, OperationStep DEF IInv

\* A step answers a request for the first time, of an operation that is not cancelled,
\* on a server that is serving; or it leaves its answers alone.
FirstAnswer(r) == /\ answers[r] = <<>> /\ Len(answers'[r]) = 1
                  /\ r \notin cancelled /\ Serving

\* Only receive, the refusal and the invocation answer, and never a second time.
LEMMA AnswerStep ==
    ASSUME IInv, [Next]_vars, NEW q \in Requests
    PROVE  answers'[q] = answers[q] \/ FirstAnswer(q)
  <1> USE DEF IInv, TypeOK, HistoryOK, history
  <1>s. \A r \in Requests, answer \in Replies :
          Sent(r, answer) => /\ answers'[r] = Append(answers[r], answer)
                             /\ q # r => answers'[q] = answers[q]
    BY DEF Sent
  <1>f. ASSUME NEW r \in Requests, answers[r] = <<>>, r \notin cancelled, Serving,
               \E answer \in Replies : Sent(r, answer)
        PROVE  answers'[q] = answers[q] \/ FirstAnswer(q)
    <2>1. PICK answer \in Replies : Sent(r, answer)
      BY <1>f
    <2>2. answers'[r] = Append(<<>>, answer)
      BY <1>f, <1>s, <2>1
    <2>3. Len(Append(<<>>, answer)) = 1
      OBVIOUS
    <2> QED  BY <1>f, <1>s, <2>1, <2>2, <2>3 DEF FirstAnswer
  <1>e. \A t \in Threads, r \in Requests, answer \in Replies, next \in Steps :
          EmitThen(t, r, answer, next) => Sent(r, answer) \/ UNCHANGED answers
    BY DEF EmitThen, Unsent
  <1>o. ASSUME UNCHANGED answers PROVE answers'[q] = answers[q]
    BY <1>o
  <1>1. ASSUME NEW r \in Requests, Receive(r) PROVE answers'[q] = answers[q] \/ FirstAnswer(q)
    <2>1. CASE ReceiveIgnored(r) \/ ReceiveDuplicate(r) \/ ReceiveCall(r)
      BY <2>1 DEF ReceiveIgnored, ReceiveDuplicate, ReceiveCall
    <2>2. CASE ReceivePing(r) \/ ReceiveInitialize(r) \/ ReceiveEarly(r)
      <3>1. UNCHANGED answers \/ \E answer \in Replies : Sent(r, answer)
        BY <2>2, <1>e DEF ReceivePing, ReceiveInitialize, ReceiveEarly, EmitThen, Unsent, Replies
      <3>2. r \notin received /\ Serving
        BY <2>2 DEF ReceivePing, ReceiveInitialize, ReceiveEarly, Deliver
      <3>3. answers[r] = <<>> /\ r \notin cancelled
        BY <3>2 DEF OperationShape, AnswerShape
      <3> QED  BY <1>f, <1>o, <3>1, <3>2, <3>3
    <2> QED  BY <1>1, <2>1, <2>2 DEF Receive
  <1>2. CASE ReaderStep
    <2>1. CASE AnswerRefused
      <3>1. answers[handling] = <<>> /\ handling \in Requests
        BY <2>1 DEF AnswerRefused, OperationShape, AnswerShape, Offering
      <3>2. UNCHANGED answers \/ (/\ \E answer \in Replies : Sent(handling, answer)
                                  /\ handling \notin cancelled /\ Serving)
        BY <2>1 DEF AnswerRefused, EmitThen, Unsent, Replies
      <3> QED  BY <1>f, <1>o, <3>1, <3>2
    <2> QED  BY <1>2, <2>1 DEF ReaderStep, Enqueue, LeaveReceive, CancelInExecutor, CancelDiscard
  <1>3. CASE WorkerStep \/ ApplicationStops
    <2>1. CASE Reply
      <3>1. answers[active] = <<>> /\ active \in Requests
        BY <2>1 DEF Reply, OperationShape, AnswerShape, Undecided, Busy
      <3>2. UNCHANGED answers \/ (/\ \E answer \in Replies : Sent(active, answer)
                                  /\ active \notin cancelled /\ Serving)
        BY <2>1 DEF Reply, EmitThen, Unsent, Replies
      <3> QED  BY <1>f, <1>o, <3>1, <3>2
    <2> QED
      BY <1>3, <2>1 DEF WorkerStep, WorkerTake, Invoke, ApplicationReturns, ApplicationStops,
                        WorkerClearActive, WorkerRelease, WorkerExit
  <1>4. ASSUME NEW t \in Threads, StopStep(t) \/ AppStop(t) \/ TransportExit(t)
        PROVE  UNCHANGED answers
    BY <1>4 DEF StopStep, StopLocked, StopExecutor, StopDiscard, StopTransport, AppStop,
                TransportExit
  <1>5. CASE LoseConnection \/ Start \/ StartStep \/ BeginWait \/ WaitStep \/ WaitTimesOut
    BY <1>5 DEF LoseConnection, Start, StartStep, StartExecutor, StartExecutorThrows,
                StartTransport, StartTransportFails, StartRunning, BeginWait, WaitStep,
                WaitTransport, WaitExecutor, WaitMark, WaitTimesOut
  <1>6. ASSUME NEW r \in Requests, NotifyCancelled(r) PROVE UNCHANGED answers
    BY <1>6 DEF NotifyCancelled
  <1>7. CASE ReceiveMalformed \/ NotifyInitialized \/ UNCHANGED vars
    BY <1>7 DEF ReceiveMalformed, NotifyInitialized, vars
  <1> QED  BY <1>o, <1>1, <1>2, <1>3, <1>4, <1>5, <1>6, <1>7 DEF Next

-----------------------------------------------------------------------------
(* The theorems. *)

\* The invariant holds in every reachable state.
LEMMA Invariance == Spec => []IInv
  BY InvInit, InvStep, PTL DEF Spec

(* The members of the state and every thread's place stay within their types: a   *)
(* reply and a refusal name a request that there is, and no thread returns from   *)
(* stop() to nowhere.                                                             *)
THEOREM ServerTypeCorrect == Spec => []TypeOK
  <1>1. IInv => TypeOK
    BY DEF IInv
  <1> QED  BY <1>1, Invariance, PTL

(* A request is answered at most once: by the reader that received it or refused *)
(* it, or by the worker that ran it (receive, enqueue's failure, invoke).         *)
THEOREM ServerAnswersOnce == Spec => []AnsweredAtMostOnce
  <1>1. Init => AnsweredAtMostOnce
    BY DEF Init, AnsweredAtMostOnce
  <1>2. IInv /\ AnsweredAtMostOnce /\ [Next]_vars => AnsweredAtMostOnce'
    <2> SUFFICES ASSUME IInv, AnsweredAtMostOnce, [Next]_vars, NEW r \in Requests
                 PROVE  Len(answers'[r]) <= 1
      BY DEF AnsweredAtMostOnce
    <2>1. answers'[r] = answers[r] \/ FirstAnswer(r)
      BY AnswerStep
    <2>2. CASE answers'[r] = answers[r]
      BY <2>2 DEF AnsweredAtMostOnce
    <2>3. CASE FirstAnswer(r)
      BY <2>3 DEF FirstAnswer
    <2> QED  BY <2>1, <2>2, <2>3
  <1> QED  BY <1>1, <1>2, Invariance, PTL DEF Spec

(* No answer goes out for a cancelled operation or from a server that has been  *)
(* stopped, whatever the worker and the reader were doing when it happened.      *)
THEOREM ServerNeverLate == Spec => NoLateAnswer
  <1>1. IInv /\ [Next]_vars =>
          [\A r \in Requests :
             answers'[r] # answers[r] => r \notin cancelled /\ Serving]_vars
    BY AnswerStep DEF FirstAnswer
  <1> QED  BY <1>1, Invariance, PTL DEF Spec, NoLateAnswer

\* What each step does to the state of the server and of the connection.
LEMMA LifecycleStep ==
    ASSUME TypeOK, [Next]_vars
    PROVE  /\ state' \in States
           /\ Rank[state] <= Rank[state']
  <1> DEFINE Goal == state' \in States /\ Rank[state] <= Rank[state']
  <1> SUFFICES Goal
    OBVIOUS
  <1>t. state \in States
    BY DEF TypeOK, ServerOK
  <1>r. \A from, to \in States :
          from = to \/ (from = "configuring" /\ to = "starting")
                    \/ (from = "starting" /\ to = "running")
                    \/ (from # "stopped" /\ to = "stopping") \/ to = "stopped"
          => Rank[from] <= Rank[to]
    BY DEF States, Rank
  <1>g. ASSUME \/ state' = state
               \/ state = "configuring" /\ state' = "starting"
               \/ state = "starting" /\ state' = "running"
               \/ state # "stopped" /\ state' = "stopping"
               \/ state' = "stopped"
        PROVE  Goal
    <2>1. state' \in States
      BY <1>g, <1>t DEF States
    <2> QED  BY <1>g, <1>t, <1>r, <2>1
  <1> HIDE DEF Goal
  <1> USE DEF serverVars
  <1>1. ASSUME NEW t \in Threads, StopStep(t) PROVE Goal
    BY <1>1, <1>g DEF StopStep, StopLocked, StopExecutor, StopDiscard, StopTransport
  <1>2. ASSUME NEW t \in Threads, AppStop(t) \/ TransportExit(t) PROVE Goal
    BY <1>2, <1>g DEF AppStop, TransportExit
  <1>3. CASE LoseConnection \/ Start \/ BeginWait \/ WaitStep \/ WaitTimesOut
    BY <1>3, <1>g DEF LoseConnection, Start, BeginWait, WaitStep, WaitTransport, WaitExecutor,
                      WaitMark, WaitTimesOut
  <1>4. CASE StartStep
    BY <1>4, <1>g DEF StartStep, StartExecutor, StartExecutorThrows, StartTransport,
                      StartTransportFails, StartRunning
  <1>5. ASSUME NEW r \in Requests, Receive(r) \/ NotifyCancelled(r) PROVE Goal
    BY <1>5, <1>g DEF Receive, ReceiveIgnored, ReceiveDuplicate, ReceivePing, ReceiveInitialize,
                      ReceiveEarly, ReceiveCall, NotifyCancelled
  <1>6. CASE ReceiveMalformed \/ NotifyInitialized \/ ReaderStep
    BY <1>6, <1>g DEF ReceiveMalformed, NotifyInitialized, ReaderStep, Enqueue, AnswerRefused,
                      LeaveReceive, CancelInExecutor, CancelDiscard
  <1>7. CASE WorkerStep \/ ApplicationStops
    BY <1>7, <1>g DEF WorkerStep, WorkerTake, Invoke, ApplicationReturns, ApplicationStops,
                      Reply, WorkerClearActive, WorkerRelease, WorkerExit
  <1>8. CASE UNCHANGED vars
    BY <1>8, <1>g DEF vars
  <1> QED  BY <1>1, <1>2, <1>3, <1>4, <1>5, <1>6, <1>7, <1>8 DEF Next

(* state_ only moves forward: no thread's step, whichever others run between the *)
(* critical sections of start, stop and wait, brings a stopped server back.      *)
THEOREM ServerLifecycle == Spec => LifecycleForward
  <1>1. IInv /\ [Next]_vars => [Rank[state] <= Rank[state']]_vars
    BY LifecycleStep DEF IInv
  <1> QED  BY <1>1, Invariance, PTL DEF Spec, LifecycleForward

-----------------------------------------------------------------------------
(* The session's first answer. *)

\* The host was sent the result that opens the session.
Opened == \E r \in Requests : MethodOf[r] = "initialize" /\ answers[r] = <<"result">>

\* Between the reply to initialize and the notification, the host has the result or the
\* reader is on its way to close the connection.
SessionShape ==
    /\ protocol = "await_initialized" => Opened \/ state = "stopped" \/ pc[Reader] = "stop"
    /\ protocol = "ready" => Opened

\* The result that was sent stays sent.
LEMMA OpenedStays == ASSUME IInv, Opened, [Next]_vars PROVE Opened'
  <1>1. PICK r \in Requests : MethodOf[r] = "initialize" /\ answers[r] = <<"result">>
    BY DEF Opened
  <1>2. answers'[r] = answers[r] \/ FirstAnswer(r)
    BY AnswerStep
  <1>3. answers[r] # <<>>
    BY <1>1
  <1> QED  BY <1>1, <1>2, <1>3 DEF FirstAnswer, Opened

\* Another thread's move leaves the reader where it is.
LEMMA OtherMove ==
    ASSUME ThreadsOK, NEW t \in Threads, NEW step, t # Reader,
           Goto(t, step) \/ CallStop(t, step) \/ Return(t)
    PROVE  pc'[Reader] = pc[Reader]
  BY NamedThreads DEF ThreadsOK, Goto, CallStop, Return

\* Only a sent result lets the session be found open.
LEMMA SessionStep == IInv /\ SessionShape /\ [Next]_vars => SessionShape'
  <1> SUFFICES ASSUME IInv, SessionShape, [Next]_vars PROVE SessionShape'
    OBVIOUS
  <1> USE NamedThreads DEF serverVars
  <1>c. ThreadsOK /\ ResumeShape /\ BirthShape
    BY DEF IInv, Control
  <1>d. Reader \notin {Owner, App, Writer, Worker}
    BY ThreadsAssumption
  <1>o. Opened => Opened'
    BY OpenedStays
  <1>m. \A t \in Threads, step \in Steps :
          t # Reader /\ (Goto(t, step) \/ CallStop(t, step) \/ Return(t))
          => pc'[Reader] = pc[Reader]
    BY <1>c, OtherMove
  <1>s. state = "stopped" => state' = "stopped"
    BY LifecycleStep DEF IInv, Rank, States
  <1>k. ASSUME protocol' = protocol \/ protocol' = "closing",
               pc[Reader] = "stop" => pc'[Reader] = "stop" \/ state' = "stopped"
                                         \/ protocol' = "closing"
        PROVE  SessionShape'
    BY <1>k, <1>o, <1>s DEF SessionShape
  <1>1. ASSUME NEW t \in Threads, StopStep(t) PROVE SessionShape'
    <2>1. CASE StopLocked(t)
      <3>1. CASE state = "stopped"
        BY <1>k, <1>s, <2>1, <3>1 DEF StopLocked
      <3>2. CASE state # "stopped"
        BY <1>k, <2>1, <3>2 DEF StopLocked
      <3> QED  BY <3>1, <3>2
    <2>2. CASE StopExecutor(t) \/ StopDiscard(t) \/ StopTransport(t)
      <3>1. pc[Reader] = "stop" => t # Reader
        BY <2>2 DEF StopExecutor, StopDiscard, StopTransport
      <3>2. t # Reader => pc'[Reader] = pc[Reader]
        BY <1>m, <2>2 DEF StopExecutor, StopDiscard, StopTransport, Steps
      <3>3. protocol' = protocol
        BY <2>2 DEF StopExecutor, StopDiscard, StopTransport
      <3> QED  BY <1>k, <3>1, <3>2, <3>3
    <2> QED  BY <1>1, <2>1, <2>2 DEF StopStep
  <1>2. ASSUME NEW t \in Threads, AppStop(t) \/ TransportExit(t) PROVE SessionShape'
    <2>1. pc[Reader] = "stop" => t # Reader
      BY <1>2 DEF AppStop, TransportExit
    <2>2. t # Reader => pc'[Reader] = pc[Reader]
      BY <1>m, <1>2 DEF AppStop, TransportExit, Steps
    <2>3. protocol' = protocol
      BY <1>2 DEF AppStop, TransportExit
    <2> QED  BY <1>k, <2>1, <2>2, <2>3
  <1>3. CASE LoseConnection
    BY <1>3, <1>k DEF LoseConnection
  <1>4. CASE Start \/ BeginWait \/ WaitStep \/ WaitTimesOut
    <2>1. pc'[Reader] = pc[Reader]
      BY <1>4, <1>d, <1>m DEF Start, BeginWait, WaitStep, WaitTransport, WaitExecutor, WaitMark,
                              WaitTimesOut, Steps
    <2>2. protocol' = protocol
      BY <1>4 DEF Start, BeginWait, WaitStep, WaitTransport, WaitExecutor, WaitMark, WaitTimesOut
    <2> QED  BY <1>k, <2>1, <2>2
  <1>5. CASE StartStep
    <2>1. protocol' = protocol
      BY <1>5 DEF StartStep, StartExecutor, StartExecutorThrows, StartTransport,
                  StartTransportFails, StartRunning
    <2>2. CASE StartExecutor
      BY <1>c, <1>d, <1>k, <2>1, <2>2 DEF StartExecutor, ThreadsOK
    <2>3. CASE StartTransport
      BY <1>c, <1>k, <2>1, <2>3 DEF StartTransport, BirthShape
    <2>4. CASE StartExecutorThrows \/ StartTransportFails \/ StartRunning
      <3>1. pc'[Reader] = pc[Reader]
        BY <1>d, <1>m, <2>4
        DEF StartExecutorThrows, StartTransportFails, StartRunning, FailStart, Steps
      <3> QED  BY <1>k, <2>1, <3>1
    <2> QED  BY <1>5, <2>2, <2>3, <2>4 DEF StartStep
  <1>6. ASSUME NEW r \in Requests, Receive(r) PROVE SessionShape'
    <2>1. CASE ReceiveInitialize(r)
      <3>1. answers[r] = <<>>
        BY <2>1 DEF ReceiveInitialize, Deliver, IInv, AnswerShape
      <3>2. CASE UNCHANGED protocol
        BY <1>k, <2>1, <3>2 DEF ReceiveInitialize, Deliver, Reading
      <3>3. CASE protocol' = "await_initialized" /\ Sent(r, "result")
        <4>1. answers'[r] = Append(<<>>, "result")
          BY <3>1, <3>3 DEF Sent, IInv, TypeOK, HistoryOK
        <4>2. Append(<<>>, "result") = <<"result">>
          OBVIOUS
        <4>3. MethodOf[r] = "initialize"
          BY <2>1 DEF ReceiveInitialize
        <4>4. Opened'
          BY <4>1, <4>2, <4>3 DEF Opened
        <4> QED  BY <3>3, <4>4 DEF SessionShape
      <3>4. CASE protocol' = "await_initialized" /\ CallStop(Reader, "poll")
        BY <1>c, <3>4 DEF CallStop, ThreadsOK, SessionShape
      <3> QED  BY <2>1, <3>2, <3>3, <3>4 DEF ReceiveInitialize, EmitThen
    <2>2. CASE ReceiveIgnored(r) \/ ReceiveDuplicate(r) \/ ReceivePing(r) \/ ReceiveEarly(r)
                 \/ ReceiveCall(r)
      <3>1. protocol' \in {protocol, "closing"} /\ pc[Reader] = "poll"
        BY <2>2 DEF ReceiveIgnored, ReceiveDuplicate, ReceivePing, ReceiveEarly, ReceiveCall,
                    Deliver, Reading
      <3> QED  BY <1>k, <3>1
    <2> QED  BY <1>6, <2>1, <2>2 DEF Receive
  <1>7. ASSUME NEW r \in Requests, NotifyCancelled(r) PROVE SessionShape'
    BY <1>7, <1>k DEF NotifyCancelled, Reading
  <1>8. CASE NotifyInitialized
    BY <1>8, <1>o DEF NotifyInitialized, Reading, Serving, SessionShape
  <1>9. CASE ReceiveMalformed \/ ReaderStep
    BY <1>9, <1>k DEF ReceiveMalformed, Reading, ReaderStep, Enqueue, AnswerRefused,
                      LeaveReceive, CancelInExecutor, CancelDiscard
  <1>10. CASE WorkerStep \/ ApplicationStops
    <2>1. pc'[Reader] = pc[Reader]
      BY <1>10, <1>d, <1>m DEF WorkerStep, WorkerTake, Invoke, ApplicationReturns,
         ApplicationStops, Reply, EmitThen, WorkerClearActive, WorkerRelease, WorkerExit, Steps
    <2>2. protocol' = protocol
      BY <1>10 DEF WorkerStep, WorkerTake, Invoke, ApplicationReturns, ApplicationStops, Reply,
                   WorkerClearActive, WorkerRelease, WorkerExit
    <2> QED  BY <1>k, <2>1, <2>2
  <1>11. CASE UNCHANGED vars
    BY <1>11, <1>k DEF vars
  <1> QED
    BY <1>1, <1>2, <1>3, <1>4, <1>5, <1>6, <1>7, <1>8, <1>9, <1>10, <1>11 DEF Next

(* The application's handlers run only in a session that the host was told of.   *)
(* protocol_ moves on before the result of initialize is encoded and queued; all  *)
(* the same, a notification never finds it open without that answer.              *)
THEOREM ServerSessionAnswered == Spec => []SessionWasAnswered
  <1>1. Init => SessionShape
    BY DEF Init, SessionShape
  <1>2. SessionShape => SessionWasAnswered
    BY DEF SessionShape, Opened, SessionWasAnswered
  <1> QED  BY <1>1, <1>2, SessionStep, Invariance, PTL DEF Spec

-----------------------------------------------------------------------------
(* Custody: who holds an operation at every moment, and what follows for the    *)
(* executor's refusals, for the answers that are owed and for a wait that has    *)
(* returned. The invariant so far is its first part.                             *)

\* stop() has come past its mutex, or the server never started or is joined.
Over == state \in {"stopping", "stopped"}

\* Whoever goes on inside stop() has seen the state change first.
StopShape ==
    /\ \A t \in Threads : /\ resume[t] \notin StopSteps
                          /\ pc[t] \in StopSteps \ {"stop"} => Over
    /\ exStopping => Over /\ queue = <<>>
    /\ accepted # {} => state # "configuring"

\* The transport's threads live in an opened connection, and the executor before it.
LifeShape ==
    /\ pc[Reader] # "unborn" \/ pc[Writer] # "unborn" => wire \in {"open", "closing"}
    /\ wire \in {"open", "closing"} => published
    /\ published => pc[Worker] # "unborn"
    /\ pc[Worker] = "exited" => exStopping
    /\ pc[Owner] = "open" => published /\ wire \in {"unstarted", "consumed"}
    /\ accepted # {} => pc[Reader] # "unborn"

\* What the owner has waited for when it comes to the end of wait.
JoinShape ==
    /\ pc[Owner] \in {"wait_executor", "wait_mark"} => TransportDone
    /\ pc[Owner] = "wait_mark" /\ published => pc[Worker] = "exited"
    /\ joined => /\ state = "stopped"
                 /\ pc[Owner] \notin {"publish", "open", "run"}
                 /\ pc[Reader] \in {"unborn", "exited"}
                 /\ pc[Writer] \in {"unborn", "exited"}
                 /\ pc[Worker] \in {"unborn", "exited"}

\* The places of an invocation's captures: the executor's list, the worker, the call of
\* enqueue, and the threads that destroy them. And the reference that receive keeps.
Waiting == ToSet(queue)
Running == {active} \ {None}
Offered == IF pc[Reader] = "enqueue" THEN {handling} ELSE {}
Destroyed == UNION {held[t] : t \in Threads}
Kept == IF pc[Reader] \in {"enqueue", "refused", "leave"} \/ resume[Reader] = "leave"
        THEN {handling} ELSE {}

\* Who has captures to destroy or to call is about to.
HandShape ==
    /\ \A t \in Threads :
         held[t] # {} => pc[t] \in {"stop_discard", "cancel_discard", "release"}
    /\ active # None => Busy

\* No two threads destroy the same captures.
Apart == \A t, u \in Threads : t # u => held[t] \cap held[u] = {}

\* No captures are in two places.
PlaceShape ==
    /\ Apart
    /\ Waiting \cap Running = {} /\ Waiting \cap Offered = {} /\ Waiting \cap Destroyed = {}
    /\ Running \cap Offered = {} /\ Running \cap Destroyed = {} /\ Offered \cap Destroyed = {}

\* An operation is in flight as long as somebody owns its completion: the captures,
\* wherever they are, or receive.
CustodyShape ==
    /\ inflight = {r \in Requests : owners[r] # {}}
    /\ {r \in Requests : "call" \in owners[r]}
         = Waiting \cup Running \cup Offered \cup Destroyed
    /\ {r \in Requests : "reader" \in owners[r]} = Kept

\* Ids are unique in flight, also while a cancellation that found its operation in flight
\* has not come to the executor.
IdShape ==
    /\ \A r, s \in inflight : SameRequestId(IdOf[r], IdOf[s]) => r = s
    /\ pc[Reader] = "cancel" =>
         /\ handling \in cancelled
         /\ \A s \in inflight : SameRequestId(IdOf[s], IdOf[handling]) => s = handling

\* What the executor may have said when it refused.
RefusalShape ==
    \A r \in Requests : /\ refusal[r] # "duplicate"
                        /\ refusal[r] = "closed" => exStopping /\ answers[r] = <<>>

\* Nobody waits for the operation any more, and nobody ever will again.
Settled(r) == answers[r] # <<>> \/ r \in cancelled \/ Over

\* The refusal that receive still has to report, or to stop the server over.
Unreported == IF pc[Reader] = "refused" \/ (pc[Reader] = "stop" /\ resume[Reader] = "leave")
              THEN {handling} ELSE {}

\* The captures go when the operation is settled, or refused and about to be.
SettledShape ==
    /\ \A r \in accepted : "call" \in owners[r] \/ r \in Unreported \/ Settled(r)
    /\ \A r \in Destroyed : Settled(r)
    /\ pc[Worker] = "return" => Settled(active)

CustodyInv == /\ IInv
              /\ StopShape /\ LifeShape /\ JoinShape
              /\ HandShape /\ PlaceShape /\ CustodyShape
              /\ IdShape /\ RefusalShape /\ SettledShape

-----------------------------------------------------------------------------
(* The end of the server's life. *)

\* What is over stays over.
LEMMA OverStays ==
    ASSUME TypeOK, [Next]_vars
    PROVE  /\ Over => Over'
           /\ state = "stopped" => state' = "stopped"
           /\ state # "configuring" => state' # "configuring"
  BY LifecycleStep DEF TypeOK, ServerOK, Over, Rank, States

\* Every action keeps the order of stop().
LEMMA StopShapeStep == IInv /\ StopShape /\ [Next]_vars => StopShape'
  <1> SUFFICES ASSUME IInv, StopShape, [Next]_vars PROVE StopShape'
    OBVIOUS
  <1> USE NamedThreads DEF serverVars, executorVars, transportVars, localVars, history
  <1>t. /\ pc \in [Threads -> Steps] /\ resume \in [Threads -> Steps] /\ ResumeShape
        /\ queue \in Seq(Requests)
    BY DEF IInv, TypeOK, Control, ThreadsOK, ExecutorOK
  <1>o. (Over => Over') /\ (state # "configuring" => state' # "configuring")
    BY OverStays DEF IInv
  <1>1. ASSUME NEW t \in Threads, StopStep(t) PROVE StopShape'
    BY <1>1, <1>t, <1>o
    DEF StopStep, StopLocked, StopExecutor, StopDiscard, StopTransport, Goto, Return,
        StopShape, StopSteps, Over
  <1>2. ASSUME NEW t \in Threads, AppStop(t) \/ TransportExit(t) PROVE StopShape'
    BY <1>2, <1>t, <1>o
    DEF AppStop, TransportExit, Goto, CallStop, StopShape, StopSteps
  <1>3. CASE LoseConnection \/ Start \/ StartStep \/ BeginWait \/ WaitStep \/ WaitTimesOut
    BY <1>3, <1>t, <1>o
    DEF LoseConnection, Start, StartStep, StartExecutor, StartExecutorThrows, StartTransport,
        StartTransportFails, StartRunning, FailStart, BeginWait, WaitStep, WaitTransport,
        WaitExecutor, WaitMark, WaitTimesOut, Goto, CallStop, StopShape, StopSteps
  <1>4. ASSUME NEW r \in Requests, Receive(r) \/ NotifyCancelled(r) PROVE StopShape'
    BY <1>4, <1>t, <1>o
    DEF Receive, ReceiveIgnored, ReceiveDuplicate, ReceivePing, ReceiveInitialize,
        ReceiveEarly, ReceiveCall, Deliver, NotifyCancelled, EmitThen, Goto, CallStop,
        Serving, StopShape, StopSteps
  <1>5. CASE ReceiveMalformed \/ NotifyInitialized
    BY <1>5, <1>t, <1>o
    DEF ReceiveMalformed, NotifyInitialized, CallStop, StopShape, StopSteps
  <1>6. CASE ReaderStep
    <2>1. CASE Enqueue
      <3>1. exStopping => EnqueueAnswer(handling) = "closed"
        BY DEF EnqueueAnswer
      <3> QED  BY <1>t, <1>o, <2>1, <3>1 DEF Enqueue, Goto, StopShape, StopSteps
    <2>2. CASE CancelInExecutor
      <3>1. queue = <<>> => queue' = queue
        BY <2>2 DEF CancelInExecutor
      <3> QED  BY <1>t, <1>o, <2>2, <3>1 DEF CancelInExecutor, Goto, StopShape, StopSteps
    <2>3. CASE AnswerRefused \/ LeaveReceive \/ CancelDiscard
      BY <1>t, <1>o, <2>3
      DEF AnswerRefused, LeaveReceive, CancelDiscard, EmitThen, Goto, CallStop, StopShape,
          StopSteps
    <2> QED  BY <1>6, <2>1, <2>2, <2>3 DEF ReaderStep
  <1>7. CASE WorkerStep \/ ApplicationStops
    BY <1>7, <1>t, <1>o
    DEF WorkerStep, WorkerTake, Invoke, ApplicationReturns, ApplicationStops, Reply,
        WorkerClearActive, WorkerRelease, WorkerExit, EmitThen, Goto, CallStop, StopShape,
        StopSteps
  <1>8. CASE UNCHANGED vars
    BY <1>8, <1>o DEF vars, StopShape
  <1> QED  BY <1>1, <1>2, <1>3, <1>4, <1>5, <1>6, <1>7, <1>8 DEF Next
\* Every action keeps the order in which the threads come and go.
LEMMA LifeShapeStep == IInv /\ StopShape /\ LifeShape /\ [Next]_vars => LifeShape'
  <1> SUFFICES ASSUME IInv, StopShape, LifeShape, [Next]_vars PROVE LifeShape'
    OBVIOUS
  <1> USE NamedThreads DEF serverVars, executorVars, transportVars, localVars, history
  <1>t. /\ pc \in [Threads -> Steps] /\ resume \in [Threads -> Steps]
        /\ ResumeShape /\ BirthShape
    BY DEF IInv, TypeOK, Control, ThreadsOK
  <1>w. wire \in {"unstarted", "consumed", "open", "closing"}
    BY DEF IInv, TypeOK, TransportOK
  <1>d. /\ Owner \notin {App, Reader, Writer, Worker} /\ App \notin {Reader, Writer, Worker}
        /\ Reader \notin {Writer, Worker} /\ Writer # Worker
    BY ThreadsAssumption
  <1>1. ASSUME NEW t \in Threads, StopStep(t) PROVE LifeShape'
    BY <1>1, <1>t, <1>w, <1>d
    DEF StopStep, StopLocked, StopExecutor, StopDiscard, StopTransport, Goto, Return,
        ResumeShape, BirthShape, LifeShape, StopSteps
  <1>2. ASSUME NEW t \in Threads, AppStop(t) \/ TransportExit(t) PROVE LifeShape'
    BY <1>2, <1>t, <1>d, StoppersAssumption
    DEF AppStop, TransportExit, Goto, CallStop, LifeShape
  <1>3. CASE LoseConnection \/ Start \/ StartStep
    BY <1>3, <1>t, <1>w, <1>d
    DEF LoseConnection, Start, StartStep, StartExecutor, StartExecutorThrows, StartTransport,
        StartTransportFails, StartRunning, FailStart, Goto, CallStop, BirthShape, LifeShape
  <1>4. CASE BeginWait \/ WaitStep \/ WaitTimesOut
    BY <1>4, <1>t, <1>w, <1>d
    DEF BeginWait, WaitStep, WaitTransport, WaitExecutor, WaitMark, WaitTimesOut, Goto,
        LifeShape
  <1>5. ASSUME NEW r \in Requests, Receive(r) \/ NotifyCancelled(r) PROVE LifeShape'
    BY <1>5, <1>t, <1>w, <1>d
    DEF Receive, ReceiveIgnored, ReceiveDuplicate, ReceivePing, ReceiveInitialize,
        ReceiveEarly, ReceiveCall, Deliver, Reading, NotifyCancelled, EmitThen, Goto, CallStop,
        LifeShape
  <1>6. CASE ReceiveMalformed \/ NotifyInitialized \/ ReaderStep
    BY <1>6, <1>t, <1>w, <1>d
    DEF ReceiveMalformed, NotifyInitialized, Reading, ReaderStep, Enqueue, AnswerRefused,
        LeaveReceive, CancelInExecutor, CancelDiscard, EmitThen, Goto, CallStop, LifeShape
  <1>7. CASE WorkerStep \/ ApplicationStops
    BY <1>7, <1>t, <1>w, <1>d
    DEF WorkerStep, WorkerTake, Invoke, ApplicationReturns, ApplicationStops, Reply,
        WorkerClearActive, WorkerRelease, WorkerExit, EmitThen, Goto, CallStop, LifeShape
  <1>8. CASE UNCHANGED vars
    BY <1>8 DEF vars, LifeShape
  <1> QED  BY <1>1, <1>2, <1>3, <1>4, <1>5, <1>6, <1>7, <1>8 DEF Next

\* Every action keeps what a wait has found out: the threads that are gone stay gone.
LEMMA JoinShapeStep ==
    IInv /\ StopShape /\ LifeShape /\ JoinShape /\ [Next]_vars => JoinShape'
  <1> SUFFICES ASSUME IInv, StopShape, LifeShape, JoinShape, [Next]_vars PROVE JoinShape'
    OBVIOUS
  <1> USE NamedThreads DEF serverVars, executorVars, transportVars, localVars, history
  <1>t. /\ pc \in [Threads -> Steps] /\ resume \in [Threads -> Steps]
        /\ ResumeShape /\ BirthShape
    BY DEF IInv, TypeOK, Control, ThreadsOK
  <1>w. wire \in {"unstarted", "consumed", "open", "closing"} /\ published \in BOOLEAN
    BY DEF IInv, TypeOK, ServerOK, TransportOK
  <1>s. state = "stopped" => state' = "stopped"
    BY OverStays DEF IInv
  <1>d. /\ Owner \notin {App, Reader, Writer, Worker} /\ App \notin {Reader, Writer, Worker}
        /\ Reader \notin {Writer, Worker} /\ Writer # Worker
    BY ThreadsAssumption
  <1>1. ASSUME NEW t \in Threads, StopStep(t) PROVE JoinShape'
    BY <1>1, <1>t, <1>w, <1>d, <1>s
    DEF StopStep, StopLocked, StopExecutor, StopDiscard, StopTransport, Goto, Return,
        ResumeShape, BirthShape, TransportDone, JoinShape, StopSteps
  <1>2. ASSUME NEW t \in Threads, AppStop(t) \/ TransportExit(t) PROVE JoinShape'
    BY <1>2, <1>t, <1>d, <1>s, StoppersAssumption
    DEF AppStop, TransportExit, Goto, CallStop, TransportDone, JoinShape
  <1>3. CASE LoseConnection \/ Start \/ StartStep
    BY <1>3, <1>t, <1>w, <1>d, <1>s
    DEF LoseConnection, Start, StartStep, StartExecutor, StartExecutorThrows, StartTransport,
        StartTransportFails, StartRunning, FailStart, Goto, CallStop, BirthShape, LifeShape,
        TransportDone, JoinShape
  <1>4. CASE BeginWait \/ WaitStep \/ WaitTimesOut
    BY <1>4, <1>t, <1>w, <1>d, <1>s
    DEF BeginWait, WaitStep, WaitTransport, WaitExecutor, WaitMark, WaitTimesOut, Goto,
        BirthShape, LifeShape, TransportDone, JoinShape
  <1>5. ASSUME NEW r \in Requests, Receive(r) \/ NotifyCancelled(r) PROVE JoinShape'
    BY <1>5, <1>t, <1>w, <1>d, <1>s
    DEF Receive, ReceiveIgnored, ReceiveDuplicate, ReceivePing, ReceiveInitialize,
        ReceiveEarly, ReceiveCall, Deliver, Reading, NotifyCancelled, EmitThen, Goto, CallStop,
        TransportDone, JoinShape
  <1>6. CASE ReceiveMalformed \/ NotifyInitialized \/ ReaderStep
    BY <1>6, <1>t, <1>w, <1>d, <1>s
    DEF ReceiveMalformed, NotifyInitialized, Reading, ReaderStep, Enqueue, AnswerRefused,
        LeaveReceive, CancelInExecutor, CancelDiscard, EmitThen, Goto, CallStop,
        TransportDone, JoinShape
  <1>7. CASE WorkerStep \/ ApplicationStops
    BY <1>7, <1>t, <1>w, <1>d, <1>s
    DEF WorkerStep, WorkerTake, Invoke, ApplicationReturns, ApplicationStops, Reply,
        WorkerClearActive, WorkerRelease, WorkerExit, EmitThen, Goto, CallStop,
        TransportDone, JoinShape
  <1>8. CASE UNCHANGED vars
    BY <1>8 DEF vars, TransportDone, JoinShape
  <1> QED  BY <1>1, <1>2, <1>3, <1>4, <1>5, <1>6, <1>7, <1>8 DEF Next
-----------------------------------------------------------------------------
(* The operations' places. *)

\* Every action keeps captures in busy hands.
LEMMA HandShapeStep == IInv /\ LifeShape /\ HandShape /\ [Next]_vars => HandShape'
  <1> SUFFICES ASSUME IInv, LifeShape, HandShape, [Next]_vars PROVE HandShape'
    OBVIOUS
  <1> USE NamedThreads DEF serverVars, executorVars, transportVars, localVars, history
  <1>t. /\ pc \in [Threads -> Steps] /\ resume \in [Threads -> Steps] /\ ResumeShape
        /\ held \in [Threads -> SUBSET Requests] /\ BirthShape
    BY DEF IInv, TypeOK, Control, ThreadsOK, LocalsOK
  <1>d. /\ Owner \notin {App, Reader, Writer, Worker} /\ App \notin {Reader, Writer, Worker}
        /\ Reader \notin {Writer, Worker} /\ Writer # Worker
    BY ThreadsAssumption
  <1>1. ASSUME NEW t \in Threads, StopStep(t) PROVE HandShape'
    BY <1>1, <1>t, <1>d
    DEF StopStep, StopLocked, StopExecutor, StopDiscard, StopTransport, Goto, Return,
        ResumeShape, HandShape, Busy, Undecided, StopSteps
  <1>2. ASSUME NEW t \in Threads, AppStop(t) \/ TransportExit(t) PROVE HandShape'
    BY <1>2, <1>t, <1>d, StoppersAssumption
    DEF AppStop, TransportExit, Goto, CallStop, HandShape, Busy, Undecided
  <1>3. CASE LoseConnection \/ Start \/ StartStep
    BY <1>3, <1>t, <1>d
    DEF LoseConnection, Start, StartStep, StartExecutor, StartExecutorThrows, StartTransport,
        StartTransportFails, StartRunning, FailStart, Goto, CallStop, BirthShape, LifeShape,
        HandShape, Busy, Undecided
  <1>4. CASE BeginWait \/ WaitStep \/ WaitTimesOut
    BY <1>4, <1>t, <1>d
    DEF BeginWait, WaitStep, WaitTransport, WaitExecutor, WaitMark, WaitTimesOut, Goto,
        HandShape, Busy, Undecided
  <1>5. ASSUME NEW r \in Requests, Receive(r) \/ NotifyCancelled(r) PROVE HandShape'
    BY <1>5, <1>t, <1>d
    DEF Receive, ReceiveIgnored, ReceiveDuplicate, ReceivePing, ReceiveInitialize,
        ReceiveEarly, ReceiveCall, Deliver, Reading, NotifyCancelled, EmitThen, Goto, CallStop,
        HandShape, Busy, Undecided
  <1>6. CASE ReceiveMalformed \/ NotifyInitialized \/ ReaderStep
    BY <1>6, <1>t, <1>d
    DEF ReceiveMalformed, NotifyInitialized, Reading, ReaderStep, Enqueue, AnswerRefused,
        LeaveReceive, CancelInExecutor, CancelDiscard, EmitThen, Goto, CallStop,
        HandShape, Busy, Undecided
  <1>7. CASE WorkerStep \/ ApplicationStops
    BY <1>7, <1>t, <1>d
    DEF WorkerStep, WorkerTake, Invoke, ApplicationReturns, ApplicationStops, Reply,
        WorkerClearActive, WorkerRelease, WorkerExit, EmitThen, Goto, CallStop,
        HandShape, Busy, Undecided
  <1>8. CASE UNCHANGED vars
    BY <1>8 DEF vars, HandShape, Busy, Undecided
  <1> QED  BY <1>1, <1>2, <1>3, <1>4, <1>5, <1>6, <1>7, <1>8 DEF Next

\* What is not about captures leaves them and their owners alone.
Still == UNCHANGED <<queue, active, held, owners, inflight, accepted>>

LEMMA OtherSteps ==
    /\ \A t \in Threads :
          /\ StopStep(t) => StopExecutor(t) \/ StopDiscard(t) \/ Still
          /\ AppStop(t) \/ TransportExit(t) => Still
    /\ LoseConnection \/ Start \/ StartStep \/ BeginWait \/ WaitStep \/ WaitTimesOut
         => Still
    /\ \A r \in Requests :
          Receive(r) \/ NotifyCancelled(r) => ReceiveCall(r) \/ Still
    /\ (\/ ReceiveMalformed \/ NotifyInitialized \/ AnswerRefused
        \/ Invoke \/ ApplicationReturns \/ ApplicationStops \/ Reply \/ WorkerExit
        \/ UNCHANGED vars) => Still
  <1> USE DEF serverVars, executorVars, transportVars, localVars, history, Still
  <1>1. ASSUME NEW t \in Threads, StopStep(t), ~StopExecutor(t), ~StopDiscard(t)
        PROVE  Still
    BY <1>1 DEF StopStep, StopLocked, StopTransport
  <1>2. ASSUME LoseConnection \/ Start \/ StartStep \/ BeginWait \/ WaitStep \/ WaitTimesOut
        PROVE  Still
    BY <1>2
    DEF LoseConnection, Start, StartStep, StartExecutor, StartExecutorThrows, StartTransport,
        StartTransportFails, StartRunning, BeginWait, WaitStep, WaitTransport, WaitExecutor,
        WaitMark, WaitTimesOut
  <1>3. ASSUME NEW r \in Requests, Receive(r) \/ NotifyCancelled(r), ~ReceiveCall(r)
        PROVE  Still
    BY <1>3
    DEF Receive, ReceiveIgnored, ReceiveDuplicate, ReceivePing, ReceiveInitialize,
        ReceiveEarly, NotifyCancelled
  <1>4. ASSUME \/ ReceiveMalformed \/ NotifyInitialized \/ AnswerRefused
               \/ Invoke \/ ApplicationReturns \/ ApplicationStops \/ Reply \/ WorkerExit
               \/ UNCHANGED vars
        PROVE  Still
    BY <1>4
    DEF ReceiveMalformed, NotifyInitialized, AnswerRefused, Invoke, ApplicationReturns,
        ApplicationStops, Reply, WorkerExit, vars
  <1> HIDE DEF Still
  <1>5. \A t \in Threads : /\ StopStep(t) => StopExecutor(t) \/ StopDiscard(t) \/ Still
                           /\ AppStop(t) \/ TransportExit(t) => Still
    <2> TAKE t \in Threads
    <2>1. AppStop(t) \/ TransportExit(t) => Still
      BY DEF AppStop, TransportExit, Still
    <2> QED  BY <1>1, <2>1
  <1>6. \A r \in Requests : Receive(r) \/ NotifyCancelled(r) => ReceiveCall(r) \/ Still
    BY <1>3
  <1> QED  BY <1>2, <1>4, <1>5, <1>6

\* What a step of each kind means for the call of receive.
SameCall == Offered' = Offered /\ Kept' = Kept
Accepts(r) == ReceiveCall(r) /\ Offered = {} /\ Kept = {} /\ Offered' = {r} /\ Kept' = {r}
Enqueues == Enqueue /\ Offered = {handling} /\ Offered' = {} /\ Kept = {handling} /\ Kept' = Kept
Leaves == LeaveReceive /\ Offered = {} /\ Offered' = {} /\ Kept = {handling} /\ Kept' = {}

LEMMA ReaderMoves ==
    ASSUME IInv, LifeShape, [Next]_vars
    PROVE  \/ \E r \in Requests : Accepts(r)
           \/ Enqueues \/ Leaves
           \/ SameCall /\ \E t \in Threads : StopExecutor(t) \/ StopDiscard(t)
           \/ /\ SameCall
              /\ \/ CancelInExecutor \/ CancelDiscard \/ WorkerTake \/ WorkerClearActive
                 \/ WorkerRelease
                 \/ Still
  <1> USE NamedThreads DEF serverVars, executorVars, transportVars, localVars, history
  <1>t. /\ pc \in [Threads -> Steps] /\ resume \in [Threads -> Steps]
        /\ ResumeShape /\ BirthShape
    BY DEF IInv, TypeOK, Control, ThreadsOK
  <1>d. Reader \notin {Owner, App, Writer, Worker}
    BY ThreadsAssumption
  <1>1. ASSUME NEW t \in Threads, StopStep(t) PROVE SameCall
    BY <1>1, <1>t, <1>d
    DEF StopStep, StopLocked, StopExecutor, StopDiscard, StopTransport, Goto, Return,
        ResumeShape, StopSteps, SameCall, Offered, Kept
  <1>2. ASSUME NEW t \in Threads, AppStop(t) \/ TransportExit(t) PROVE SameCall
    BY <1>2, <1>t, <1>d, StoppersAssumption
    DEF AppStop, TransportExit, Goto, CallStop, ResumeShape, StopSteps, SameCall, Offered, Kept
  <1>3. ASSUME LoseConnection \/ Start \/ StartStep \/ BeginWait \/ WaitStep \/ WaitTimesOut
        PROVE  SameCall
    <2>1. pc'[Reader] = pc[Reader] \/ (pc[Reader] = "unborn" /\ pc'[Reader] = "poll")
      BY <1>3, <1>t, <1>d
      DEF LoseConnection, Start, StartStep, StartExecutor, StartExecutorThrows, StartTransport,
          StartTransportFails, StartRunning, FailStart, BeginWait, WaitStep, WaitTransport,
          WaitExecutor, WaitMark, WaitTimesOut, Goto, CallStop, BirthShape
    <2>2. resume'[Reader] = resume[Reader] /\ handling' = handling
      BY <1>3, <1>t, <1>d
      DEF LoseConnection, Start, StartStep, StartExecutor, StartExecutorThrows, StartTransport,
          StartTransportFails, StartRunning, FailStart, BeginWait, WaitStep, WaitTransport,
          WaitExecutor, WaitMark, WaitTimesOut, Goto, CallStop
    <2> QED  BY <2>1, <2>2 DEF SameCall, Offered, Kept
  <1>4. ASSUME NEW r \in Requests, Receive(r) \/ NotifyCancelled(r), ~ReceiveCall(r)
        PROVE  SameCall
    BY <1>4, <1>t, <1>d
    DEF Receive, ReceiveIgnored, ReceiveDuplicate, ReceivePing, ReceiveInitialize,
        ReceiveEarly, Deliver, Reading, NotifyCancelled, EmitThen, Goto, CallStop,
        ResumeShape, StopSteps, SameCall, Offered, Kept
  <1>5. ASSUME NEW r \in Requests, ReceiveCall(r)
        PROVE  Accepts(r)
    BY <1>5, <1>t
    DEF ReceiveCall, Deliver, Reading, Goto, ResumeShape, StopSteps, Accepts, Offered, Kept
  <1>6. ASSUME Enqueue PROVE Enqueues
    BY <1>6, <1>t DEF Enqueues, Enqueue, Goto, ResumeShape, StopSteps, Offered, Kept
  <1>7. ASSUME LeaveReceive PROVE Leaves
    BY <1>7, <1>t DEF Leaves, LeaveReceive, Goto, ResumeShape, StopSteps, Offered, Kept
  <1>8. ASSUME \/ ReceiveMalformed \/ NotifyInitialized \/ AnswerRefused \/ CancelInExecutor
               \/ CancelDiscard
        PROVE  SameCall
    BY <1>8, <1>t
    DEF ReceiveMalformed, NotifyInitialized, Reading, AnswerRefused, CancelInExecutor,
        CancelDiscard, EmitThen, Goto, CallStop, ResumeShape, StopSteps, SameCall, Offered, Kept
  <1>9. ASSUME WorkerStep \/ ApplicationStops PROVE SameCall
    BY <1>9, <1>t, <1>d
    DEF WorkerStep, WorkerTake, Invoke, ApplicationReturns, ApplicationStops, Reply,
        WorkerClearActive, WorkerRelease, WorkerExit, EmitThen, Goto, CallStop, SameCall, Offered, Kept
  <1>10. ASSUME UNCHANGED vars PROVE SameCall
    BY <1>10 DEF vars, SameCall, Offered, Kept
  <1> DEFINE Goal == \/ \E r \in Requests : Accepts(r)
                     \/ Enqueues \/ Leaves
                     \/ SameCall /\ \E t \in Threads : StopExecutor(t) \/ StopDiscard(t)
                     \/ /\ SameCall
                        /\ \/ CancelInExecutor \/ CancelDiscard \/ WorkerTake
                           \/ WorkerClearActive \/ WorkerRelease \/ Still
  <1> USE OtherSteps
  <1>11. ASSUME NEW t \in Threads, StopStep(t) \/ AppStop(t) \/ TransportExit(t) PROVE Goal
    BY <1>1, <1>2, <1>11
  <1>12. ASSUME NEW r \in Requests, Receive(r) \/ NotifyCancelled(r) PROVE Goal
    BY <1>4, <1>5, <1>12
  <1>13. ASSUME LoseConnection \/ Start \/ StartStep \/ BeginWait \/ WaitStep \/ WaitTimesOut
         PROVE  Goal
    BY <1>3, <1>13
  <1>14. ASSUME ReceiveMalformed \/ NotifyInitialized \/ ReaderStep PROVE Goal
    BY <1>6, <1>7, <1>8, <1>14 DEF ReaderStep
  <1>15. ASSUME WorkerStep \/ ApplicationStops \/ UNCHANGED vars PROVE Goal
    BY <1>9, <1>10, <1>15 DEF WorkerStep
  <1> HIDE DEF Goal
  <1>16. Goal
    BY <1>11, <1>12, <1>13, <1>14, <1>15 DEF Next
  <1> QED  BY <1>16 DEF Goal

\* A thread that destroys nothing takes captures, or one that does gets rid of its own.
LEMMA DestroyedTakes ==
    ASSUME NEW t \in Threads, NEW S, held \in [Threads -> SUBSET Requests],
           held' = [held EXCEPT ![t] = S], held[t] = {}, Apart, S \cap Destroyed = {}
    PROVE  Destroyed' = Destroyed \cup S /\ Apart'
  <1>1. \A u \in Threads : held'[u] = IF u = t THEN S ELSE held[u]
    OBVIOUS
  <1>2. Destroyed' = Destroyed \cup S
    BY <1>1 DEF Destroyed
  <1>3. \A u \in Threads : held[u] \subseteq Destroyed
    BY DEF Destroyed
  <1>4. Apart'
    BY <1>1, <1>3 DEF Apart
  <1> QED  BY <1>2, <1>4

LEMMA DestroyedDrops ==
    ASSUME NEW t \in Threads, held \in [Threads -> SUBSET Requests],
           held' = [held EXCEPT ![t] = {}], Apart
    PROVE  /\ Destroyed' = Destroyed \ held[t] /\ Apart'
           /\ held[t] \subseteq Destroyed
  <1>1. \A u \in Threads : held'[u] = IF u = t THEN {} ELSE held[u]
    OBVIOUS
  <1> QED  BY <1>1 DEF Destroyed, Apart
\* The members that the next lemmas argue about, as sets.
CustodyTypes ==
    /\ inflight \subseteq Requests /\ owners \in [Requests -> SUBSET {"call", "reader"}]
    /\ held \in [Threads -> SUBSET Requests]
    /\ queue \in Seq(Requests) /\ active \in Requests \cup {None}

\* A thread destroys the captures it holds.
LEMMA RetireHeld ==
    ASSUME CustodyTypes, PlaceShape, CustodyShape, NEW t \in Threads,
           Drop(held[t], "call"), held' = [held EXCEPT ![t] = {}],
           Waiting' = Waiting, Running' = Running, Offered' = Offered, Kept' = Kept
    PROVE  PlaceShape' /\ CustodyShape'
  <1>1. /\ Destroyed' = Destroyed \ held[t] /\ Apart'
        /\ held[t] \subseteq Destroyed
    BY DestroyedDrops DEF CustodyTypes, PlaceShape
  <1>2. PlaceShape'
    BY <1>1 DEF PlaceShape
  <1>3. /\ \A r \in Requests : owners'[r] = IF r \in held[t] THEN owners[r] \ {"call"}
                                                            ELSE owners[r]
        /\ inflight' = {r \in inflight : r \notin held[t] \/ owners[r] # {"call"}}
    BY DEF Drop
  <1>4. inflight' = {r \in Requests : owners'[r] # {}}
    <2>1. \A r \in Requests : owners[r] \in SUBSET {"call", "reader"}
      BY DEF CustodyTypes
    <2>2. \A r \in Requests : r \in inflight <=> owners[r] # {}
      BY DEF CustodyShape
    <2>3. \A r \in held[t] : r \in Requests /\ "call" \in owners[r]
      BY <1>1 DEF CustodyShape
    <2>4. \A r \in Requests : owners'[r] # {} <=> r \in inflight'
      BY <1>3, <2>1, <2>2, <2>3
    <2> QED  BY <1>3, <2>4 DEF CustodyTypes
  <1>5. {r \in Requests : "call" \in owners'[r]}
          = {r \in Requests : "call" \in owners[r]} \ held[t]
    BY <1>3
  <1>6. {r \in Requests : "reader" \in owners'[r]} = {r \in Requests : "reader" \in owners[r]}
    BY <1>3
  <1>7. CustodyShape'
    BY <1>1, <1>4, <1>5, <1>6 DEF CustodyShape, PlaceShape
  <1> QED  BY <1>2, <1>7

\* Captures go from one place to another: their owners stay.
LEMMA MoveCaptures ==
    ASSUME CustodyTypes, CustodyShape,
           UNCHANGED <<owners, inflight>>, Kept' = Kept,
           Waiting' \cup Running' \cup Offered' \cup Destroyed'
             = Waiting \cup Running \cup Offered \cup Destroyed
    PROVE  CustodyShape'
  BY DEF CustodyShape

\* Every action keeps each operation's captures in one place, and its owners there.
LEMMA PlaceStep ==
    ASSUME IInv, LifeShape, HandShape, PlaceShape, CustodyShape, [Next]_vars
    PROVE  PlaceShape' /\ CustodyShape'
  <1> DEFINE Goal == PlaceShape' /\ CustodyShape'
  <1> SUFFICES Goal
    OBVIOUS
  <1> HIDE DEF Goal
  <1> USE NamedThreads DEF serverVars, executorVars, transportVars, localVars, history
  <1>t. CustodyTypes /\ pc \in [Threads -> Steps]
    BY DEF IInv, TypeOK, ServerOK, ExecutorOK, LocalsOK, ThreadsOK, CustodyTypes
  <1>a. \A i, j \in 1..Len(queue) : i # j => queue[i] # queue[j]
    BY DEF IInv, AnswerShape
  <1>c. ResumeShape
    BY DEF IInv, Control
  <1>h. \A t \in Threads :
          pc[t] \notin {"stop_discard", "cancel_discard", "release"} => held[t] = {}
    BY DEF HandShape
  <1>1. ASSUME NEW r \in Requests, Accepts(r) PROVE Goal
    <2>1. Offered = {} /\ Kept = {} /\ Offered' = {r} /\ Kept' = {r}
      BY <1>1 DEF Accepts
    <2>2. /\ Waiting' = Waiting /\ Running' = Running /\ Destroyed' = Destroyed /\ held' = held
          /\ owners' = [owners EXCEPT ![r] = {"call", "reader"}]
          /\ inflight' = inflight \cup {r}
      BY <1>1 DEF Accepts, ReceiveCall, Waiting, Running, Destroyed
    <2>3. r \notin inflight
      BY <1>1 DEF Accepts, ReceiveCall, Deliver, IInv, OperationShape
    <2>4. owners[r] = {} /\ r \notin Waiting \cup Running \cup Destroyed
      BY <2>3 DEF CustodyShape
    <2>5. PlaceShape'
      BY <2>1, <2>2, <2>4 DEF PlaceShape, Apart
    <2>6. /\ {q \in Requests : owners'[q] # {}} = {q \in Requests : owners[q] # {}} \cup {r}
          /\ {q \in Requests : "call" \in owners'[q]}
               = {q \in Requests : "call" \in owners[q]} \cup {r}
          /\ {q \in Requests : "reader" \in owners'[q]}
               = {q \in Requests : "reader" \in owners[q]} \cup {r}
      BY <1>t, <2>2 DEF CustodyTypes
    <2>7. CustodyShape'
      BY <2>1, <2>2, <2>6 DEF CustodyShape
    <2> QED  BY <2>5, <2>7 DEF Goal
  <1>2. ASSUME NEW t \in Threads, StopExecutor(t), SameCall PROVE Goal
    <2>1. /\ Waiting' = {} /\ Running' = Running /\ UNCHANGED <<owners, inflight>>
          /\ held' = [held EXCEPT ![t] = Waiting]
      BY <1>2 DEF StopExecutor, Waiting, Running, ToSet
    <2>2. held[t] = {} /\ held \in [Threads -> SUBSET Requests]
      BY <1>2, <1>t, <1>h DEF StopExecutor, CustodyTypes
    <2>3. Destroyed' = Destroyed \cup Waiting /\ Apart'
      BY <2>1, <2>2, DestroyedTakes DEF PlaceShape
    <2>4. PlaceShape'
      BY <1>2, <2>1, <2>3 DEF PlaceShape, SameCall
    <2>5. CustodyShape'
      BY <1>2, <1>t, <2>1, <2>3, MoveCaptures DEF SameCall
    <2> QED  BY <2>4, <2>5 DEF Goal
  <1>3. ASSUME NEW t \in Threads, StopDiscard(t), SameCall PROVE Goal
    <2>1. Waiting' = Waiting /\ Running' = Running
      BY <1>3 DEF StopDiscard, Waiting, Running
    <2>2. Drop(held[t], "call") /\ held' = [held EXCEPT ![t] = {}]
      BY <1>3 DEF StopDiscard
    <2> QED  BY <1>3, <1>t, <2>1, <2>2, RetireHeld DEF SameCall, Goal
  <1>4. ASSUME Enqueues PROVE Goal
    <2>1. /\ Offered = {handling} /\ Offered' = {} /\ Kept = {handling} /\ Kept' = Kept
          /\ Enqueue
      BY <1>4 DEF Enqueues
    <2>2. Running' = Running /\ Destroyed' = Destroyed /\ held' = held
      BY <2>1 DEF Enqueue, Running, Destroyed
    <2>3. handling \in Requests /\ "call" \in owners[handling] /\ "reader" \in owners[handling]
      BY <2>1 DEF CustodyShape
    <2>4. CASE EnqueueAnswer(handling) = "none"
      <3>1. Waiting' = Waiting \cup {handling} /\ UNCHANGED <<owners, inflight>>
        <4>1. queue' = Append(queue, handling) /\ UNCHANGED <<owners, inflight>>
          BY <2>1, <2>4 DEF Enqueue
        <4>2. ToSet(Append(queue, handling)) = ToSet(queue) \cup {handling}
          BY <1>t, <2>3, AppendSet DEF CustodyTypes
        <4> QED  BY <4>1, <4>2 DEF Waiting
      <3>2. PlaceShape'
        BY <2>1, <2>2, <3>1 DEF PlaceShape, Apart
      <3>3. CustodyShape'
        BY <1>t, <2>1, <2>2, <3>1, MoveCaptures
      <3> QED  BY <3>2, <3>3 DEF Goal
    <2>5. CASE EnqueueAnswer(handling) # "none"
      <3>1. Waiting' = Waiting /\ Drop({handling}, "call")
        BY <2>1, <2>5 DEF Enqueue, Waiting
      <3>2. PlaceShape'
        BY <2>1, <2>2, <3>1 DEF PlaceShape, Apart
      <3>3. /\ \A r \in Requests : owners'[r] = IF r = handling THEN owners[r] \ {"call"}
                                                                ELSE owners[r]
            /\ inflight' = inflight
        BY <1>t, <2>3, <3>1 DEF Drop, CustodyTypes
      <3>4. \A r \in Requests : owners'[r] # {} <=> owners[r] # {}
        <4>1. "reader" \in owners'[handling]
          BY <2>3, <3>3
        <4> QED  BY <2>3, <3>3, <4>1
      <3>5. /\ {r \in Requests : "call" \in owners'[r]}
                 = {r \in Requests : "call" \in owners[r]} \ {handling}
            /\ {r \in Requests : "reader" \in owners'[r]}
                 = {r \in Requests : "reader" \in owners[r]}
        BY <3>3
      <3>6. CustodyShape'
        BY <2>1, <2>2, <3>1, <3>3, <3>4, <3>5 DEF CustodyShape, PlaceShape
      <3> QED  BY <3>2, <3>6 DEF Goal
    <2> QED  BY <2>4, <2>5
  <1>5. ASSUME Leaves PROVE Goal
    <2>1. /\ Offered = {} /\ Offered' = {} /\ Kept = {handling} /\ Kept' = {}
          /\ Drop({handling}, "reader") /\ UNCHANGED <<queue, active, held>>
      BY <1>5 DEF Leaves, LeaveReceive
    <2>2. Waiting' = Waiting /\ Running' = Running /\ Destroyed' = Destroyed
      BY <2>1 DEF Waiting, Running, Destroyed
    <2>3. handling \in Requests /\ "reader" \in owners[handling]
      BY <2>1 DEF CustodyShape
    <2>4. PlaceShape'
      BY <2>1, <2>2 DEF PlaceShape, Apart
    <2>5. /\ \A r \in Requests : owners'[r] = IF r = handling THEN owners[r] \ {"reader"}
                                                              ELSE owners[r]
          /\ inflight' = {r \in inflight : r # handling \/ owners[r] # {"reader"}}
      BY <2>1 DEF Drop
    <2>6. \A r \in Requests : owners[r] \in SUBSET {"call", "reader"}
      BY <1>t DEF CustodyTypes
    <2>7. inflight' = {r \in Requests : owners'[r] # {}}
      <3>1. \A r \in Requests : r \in inflight <=> owners[r] # {}
        BY DEF CustodyShape
      <3>2. \A r \in Requests : owners'[r] # {} <=> r \in inflight'
        BY <2>3, <2>5, <2>6, <3>1
      <3> QED  BY <1>t, <2>5, <3>2 DEF CustodyTypes
    <2>8. /\ {r \in Requests : "reader" \in owners'[r]}
               = {r \in Requests : "reader" \in owners[r]} \ {handling}
          /\ {r \in Requests : "call" \in owners'[r]} = {r \in Requests : "call" \in owners[r]}
      BY <2>5
    <2>9. CustodyShape'
      BY <2>1, <2>2, <2>7, <2>8 DEF CustodyShape
    <2> QED  BY <2>4, <2>9 DEF Goal
  <1>6. ASSUME CancelInExecutor, SameCall PROVE Goal
    <2>1. Running' = Running /\ UNCHANGED <<owners, inflight>>
      BY <1>6 DEF CancelInExecutor, Running
    <2>2. CASE UNCHANGED <<queue, held>>
      <3>1. Waiting' = Waiting /\ Destroyed' = Destroyed
        BY <2>2 DEF Waiting, Destroyed
      <3>2. PlaceShape'
        BY <1>6, <2>1, <2>2, <3>1 DEF PlaceShape, Apart, SameCall
      <3>3. CustodyShape'
        BY <1>6, <1>t, <2>1, <3>1, MoveCaptures DEF SameCall
      <3> QED  BY <3>2, <3>3 DEF Goal
    <2>3. ASSUME NEW i \in 1..Len(queue), queue' = RemoveAt(queue, i),
                 held' = [held EXCEPT ![Reader] = {queue[i]}]
          PROVE  Goal
      <3>1. Waiting = {queue[i]} \cup Waiting' /\ queue[i] \notin Waiting'
        BY <1>t, <1>a, <2>3, RemoveSet DEF Waiting, CustodyTypes
      <3>2. held[Reader] = {} /\ held \in [Threads -> SUBSET Requests]
        BY <1>6, <1>t, <1>h DEF CancelInExecutor, CustodyTypes
      <3>3. {queue[i]} \cap Destroyed = {}
        BY <3>1 DEF PlaceShape
      <3>4. Destroyed' = Destroyed \cup {queue[i]} /\ Apart'
        BY <2>3, <3>2, <3>3, DestroyedTakes DEF PlaceShape
      <3>5. PlaceShape'
        BY <1>6, <2>1, <3>1, <3>4 DEF PlaceShape, SameCall
      <3>6. CustodyShape'
        BY <1>6, <1>t, <2>1, <3>1, <3>4, MoveCaptures DEF SameCall
      <3> QED  BY <3>5, <3>6 DEF Goal
    <2> QED  BY <1>6, <2>2, <2>3 DEF CancelInExecutor
  <1>7. ASSUME CancelDiscard, SameCall PROVE Goal
    <2>1. Waiting' = Waiting /\ Running' = Running
      BY <1>7 DEF CancelDiscard, Waiting, Running
    <2>2. Drop(held[Reader], "call") /\ held' = [held EXCEPT ![Reader] = {}]
      BY <1>7 DEF CancelDiscard
    <2> QED  BY <1>7, <1>t, <2>1, <2>2, RetireHeld DEF SameCall, Goal
  <1>8. ASSUME WorkerTake, SameCall PROVE Goal
    <2>1. /\ queue # <<>> /\ active' = Head(queue) /\ queue' = Tail(queue)
          /\ UNCHANGED <<owners, inflight, held>> /\ active = None
      BY <1>8, <1>c DEF WorkerTake, HandShape, Busy, Undecided, ResumeShape, StopSteps
    <2>2. Waiting = {active'} \cup Waiting' /\ active' \notin Waiting' /\ active' \in Requests
      BY <1>t, <1>a, <2>1, TailSet DEF Waiting, CustodyTypes
    <2>3. Running = {} /\ Running' = {active'} /\ Destroyed' = Destroyed
      BY <2>1, <2>2, NoneAssumption DEF Running, Destroyed
    <2>4. PlaceShape'
      BY <1>8, <2>1, <2>2, <2>3 DEF PlaceShape, Apart, SameCall
    <2>5. CustodyShape'
      BY <1>8, <1>t, <2>1, <2>2, <2>3, MoveCaptures DEF SameCall
    <2> QED  BY <2>4, <2>5 DEF Goal
  <1>9. ASSUME WorkerClearActive, SameCall PROVE Goal
    <2>1. /\ active' = None /\ held' = [held EXCEPT ![Worker] = {active}]
          /\ UNCHANGED <<queue, owners, inflight>>
      BY <1>9 DEF WorkerClearActive
    <2>2. active \in Requests
      BY <1>9 DEF WorkerClearActive, IInv, OperationShape, Busy, TypeOK, HistoryOK
    <2>3. Waiting' = Waiting /\ Running' = {} /\ Running = {active}
      BY <2>1, <2>2, NoneAssumption DEF Waiting, Running
    <2>4. held[Worker] = {} /\ held \in [Threads -> SUBSET Requests]
      BY <1>9, <1>t, <1>h DEF WorkerClearActive, CustodyTypes
    <2>5. {active} \cap Destroyed = {}
      BY <2>3 DEF PlaceShape
    <2>6. Destroyed' = Destroyed \cup {active} /\ Apart'
      BY <2>1, <2>4, <2>5, DestroyedTakes DEF PlaceShape
    <2>7. PlaceShape'
      BY <1>9, <2>3, <2>6 DEF PlaceShape, SameCall
    <2>8. CustodyShape'
      BY <1>9, <1>t, <2>1, <2>3, <2>6, MoveCaptures DEF SameCall
    <2> QED  BY <2>7, <2>8 DEF Goal
  <1>10. ASSUME WorkerRelease, SameCall PROVE Goal
    <2>1. Waiting' = Waiting /\ Running' = Running
      BY <1>10 DEF WorkerRelease, Waiting, Running
    <2>2. Drop(held[Worker], "call") /\ held' = [held EXCEPT ![Worker] = {}]
      BY <1>10 DEF WorkerRelease
    <2> QED  BY <1>10, <1>t, <2>1, <2>2, RetireHeld DEF SameCall, Goal
  <1>11. ASSUME Still, SameCall PROVE Goal
    BY <1>11 DEF Still, SameCall, PlaceShape, Apart, CustodyShape, Waiting, Running, Destroyed,
                 Goal
  <1> QED
    BY <1>1, <1>2, <1>3, <1>4, <1>5, <1>6, <1>7, <1>8, <1>9, <1>10, <1>11, ReaderMoves
-----------------------------------------------------------------------------
(* Ids, refusals and answers. *)

\* std::cmp_equal and string equality do not care which id comes first.
LEMMA SameIsSymmetric == \A a, b : SameRequestId(a, b) => SameRequestId(b, a)
  BY DEF SameRequestId, IsInteger

\* What only grows, and what only one handler changes.
LEMMA HistoryMoves ==
    ASSUME [Next]_vars
    PROVE  /\ cancelled \subseteq cancelled'
           /\ exStopping => exStopping'
           /\ refusal' = refusal \/ Enqueue
           /\ accepted' = accepted \/ \E r \in Requests : ReceiveCall(r)
           /\ inflight' \subseteq inflight \/ \E r \in Requests : ReceiveCall(r)
  <1> DEFINE Goal == /\ cancelled \subseteq cancelled'
                     /\ exStopping => exStopping'
                     /\ refusal' = refusal \/ Enqueue
                     /\ accepted' = accepted \/ \E r \in Requests : ReceiveCall(r)
                     /\ inflight' \subseteq inflight \/ \E r \in Requests : ReceiveCall(r)
  <1> USE DEF serverVars, executorVars, transportVars, localVars, history
  <1>f. \A dropped, owner : Drop(dropped, owner) => inflight' \subseteq inflight
    BY DEF Drop
  <1>1. ASSUME NEW t \in Threads, StopStep(t) \/ AppStop(t) \/ TransportExit(t) PROVE Goal
    BY <1>1, <1>f
    DEF StopStep, StopLocked, StopExecutor, StopDiscard, StopTransport, AppStop, TransportExit
  <1>2. ASSUME LoseConnection \/ Start \/ StartStep \/ BeginWait \/ WaitStep \/ WaitTimesOut
        PROVE  Goal
    BY <1>2
    DEF LoseConnection, Start, StartStep, StartExecutor, StartExecutorThrows, StartTransport,
        StartTransportFails, StartRunning, BeginWait, WaitStep, WaitTransport, WaitExecutor,
        WaitMark, WaitTimesOut
  <1>3. ASSUME NEW r \in Requests, Receive(r) \/ NotifyCancelled(r) PROVE Goal
    <2>1. CASE ReceiveCall(r)
      <3>1. UNCHANGED <<cancelled, exStopping, refusal>>
        BY <2>1 DEF ReceiveCall
      <3> QED  BY <2>1, <3>1
    <2>2. CASE ~ReceiveCall(r)
      BY <1>3, <2>2
      DEF Receive, ReceiveIgnored, ReceiveDuplicate, ReceivePing, ReceiveInitialize,
          ReceiveEarly, NotifyCancelled
    <2> QED  BY <2>1, <2>2
  <1>4. ASSUME ReceiveMalformed \/ NotifyInitialized \/ ReaderStep PROVE Goal
    <2>1. CASE Enqueue
      <3>1. UNCHANGED <<cancelled, exStopping, accepted>> /\ inflight' \subseteq inflight
        BY <2>1, <1>f DEF Enqueue
      <3> QED  BY <2>1, <3>1
    <2>2. CASE ~Enqueue
      BY <1>4, <1>f, <2>2
      DEF ReceiveMalformed, NotifyInitialized, ReaderStep, AnswerRefused, LeaveReceive,
          CancelInExecutor, CancelDiscard
    <2> QED  BY <2>1, <2>2
  <1>5. ASSUME WorkerStep \/ ApplicationStops \/ UNCHANGED vars PROVE Goal
    BY <1>5, <1>f
    DEF WorkerStep, WorkerTake, Invoke, ApplicationReturns, ApplicationStops, Reply,
        WorkerClearActive, WorkerRelease, WorkerExit, vars
  <1> HIDE DEF Goal
  <1>6. Goal
    BY <1>1, <1>2, <1>3, <1>4, <1>5 DEF Next
  <1> QED  BY <1>6 DEF Goal

\* A cancellation comes to the executor with the operation that it found in flight.
LEMMA CancelMoves ==
    ASSUME IInv, LifeShape, [Next]_vars, pc'[Reader] = "cancel"
    PROVE  \/ \E r \in Requests : NotifyCancelled(r) /\ handling' = r
           \/ pc[Reader] = "cancel" /\ handling' = handling
                /\ \A r \in Requests : ~ReceiveCall(r)
  <1> DEFINE Goal == \/ \E r \in Requests : NotifyCancelled(r) /\ handling' = r
                     \/ pc[Reader] = "cancel" /\ handling' = handling
                          /\ \A r \in Requests : ~ReceiveCall(r)
  <1> SUFFICES Goal
    OBVIOUS
  <1> USE NamedThreads DEF serverVars, executorVars, transportVars, localVars, history
  <1>t. /\ pc \in [Threads -> Steps] /\ resume \in [Threads -> Steps]
        /\ ResumeShape /\ BirthShape
    BY DEF IInv, TypeOK, Control, ThreadsOK
  <1>d. Reader \notin {Owner, App, Writer, Worker}
    BY ThreadsAssumption
  <1>r. \A r \in Requests : ReceiveCall(r) => pc[Reader] = "poll"
    BY DEF ReceiveCall, Deliver, Reading
  <1>1. ASSUME NEW t \in Threads, StopStep(t) PROVE Goal
    BY <1>1, <1>t, <1>d, <1>r
    DEF StopStep, StopLocked, StopExecutor, StopDiscard, StopTransport, Goto, Return,
        ResumeShape, StopSteps
  <1>2. ASSUME NEW t \in Threads, AppStop(t) \/ TransportExit(t) PROVE Goal
    BY <1>2, <1>t, <1>d, <1>r DEF AppStop, TransportExit, Goto, CallStop
  <1>3. CASE LoseConnection \/ Start \/ StartStep \/ BeginWait \/ WaitStep \/ WaitTimesOut
    <2>1. pc'[Reader] = pc[Reader] \/ pc'[Reader] = "poll"
      BY <1>3, <1>t, <1>d
      DEF LoseConnection, Start, StartStep, StartExecutor, StartExecutorThrows, StartTransport,
          StartTransportFails, StartRunning, FailStart, BeginWait, WaitStep, WaitTransport,
          WaitExecutor, WaitMark, WaitTimesOut, Goto, CallStop
    <2>2. handling' = handling
      BY <1>3
      DEF LoseConnection, Start, StartStep, StartExecutor, StartExecutorThrows, StartTransport,
          StartTransportFails, StartRunning, BeginWait, WaitStep, WaitTransport, WaitExecutor,
          WaitMark, WaitTimesOut
    <2> QED  BY <1>r, <2>1, <2>2
  <1>4. ASSUME NEW r \in Requests, Receive(r) PROVE Goal
    BY <1>4, <1>t
    DEF Receive, ReceiveIgnored, ReceiveDuplicate, ReceivePing, ReceiveInitialize,
        ReceiveEarly, ReceiveCall, Deliver, Reading, EmitThen, Goto, CallStop
  <1>5. ASSUME NEW r \in Requests, NotifyCancelled(r) PROVE Goal
    <2>1. handling' = r
      BY <1>5 DEF NotifyCancelled
    <2> QED  BY <1>5, <2>1
  <1>6. CASE ReceiveMalformed \/ NotifyInitialized \/ ReaderStep
    BY <1>6, <1>t
    DEF ReceiveMalformed, NotifyInitialized, Reading, ReaderStep, Enqueue, AnswerRefused,
        LeaveReceive, CancelInExecutor, CancelDiscard, EmitThen, Goto, CallStop
  <1>7. CASE WorkerStep \/ ApplicationStops
    BY <1>7, <1>t, <1>d, <1>r
    DEF WorkerStep, WorkerTake, Invoke, ApplicationReturns, ApplicationStops, Reply,
        WorkerClearActive, WorkerRelease, WorkerExit, EmitThen, Goto, CallStop
  <1>8. CASE UNCHANGED vars
    BY <1>8, <1>r DEF vars
  <1> HIDE DEF Goal
  <1> QED  BY <1>1, <1>2, <1>3, <1>4, <1>5, <1>6, <1>7, <1>8 DEF Next

\* Every action keeps the ids in flight apart.
LEMMA IdShapeStep == IInv /\ LifeShape /\ IdShape /\ [Next]_vars => IdShape'
  <1> SUFFICES ASSUME IInv, LifeShape, IdShape, [Next]_vars PROVE IdShape'
    OBVIOUS
  <1>1. ASSUME NEW r \in inflight', NEW s \in inflight', SameRequestId(IdOf[r], IdOf[s])
        PROVE  r = s
    <2>1. CASE inflight' \subseteq inflight
      BY <1>1, <2>1 DEF IdShape
    <2>2. ASSUME NEW q \in Requests, ReceiveCall(q) PROVE r = s
      <3>1. inflight' = inflight \cup {q} /\ ~Known(q)
        BY <2>2 DEF ReceiveCall
      <3> QED  BY <1>1, <3>1, SameIsSymmetric DEF Known, IdShape
    <2> QED  BY <2>1, <2>2, HistoryMoves
  <1>2. ASSUME pc'[Reader] = "cancel"
        PROVE  /\ handling' \in cancelled'
               /\ \A s \in inflight' :
                    SameRequestId(IdOf[s], IdOf[handling']) => s = handling'
    <2>1. ASSUME NEW r \in Requests, NotifyCancelled(r), handling' = r
          PROVE  handling' \in cancelled' /\ inflight' = inflight /\ r \in inflight
      BY <2>1 DEF NotifyCancelled
    <2>2. CASE pc[Reader] = "cancel" /\ handling' = handling
                 /\ \A r \in Requests : ~ReceiveCall(r)
      BY <2>2, HistoryMoves DEF IdShape
    <2>3. CASE \E r \in Requests : NotifyCancelled(r) /\ handling' = r
      BY <2>1, <2>3 DEF IdShape
    <2> QED  BY <1>2, <2>2, <2>3, CancelMoves
  <1> QED  BY <1>1, <1>2 DEF IdShape
\* Who is in one of the places is in flight.
LEMMA PlacesInFlight ==
    ASSUME CustodyTypes, CustodyShape
    PROVE  Waiting \cup Running \cup Offered \cup Destroyed \subseteq inflight
  <1>1. ASSUME NEW r \in {q \in Requests : "call" \in owners[q]} PROVE r \in inflight
    BY DEF CustodyShape
  <1> QED  BY <1>1 DEF CustodyShape

\* An executor that is stopped serves nobody.
LEMMA OverServesNobody == Over => ~Serving
  BY DEF Over, Serving

\* Every action keeps what a refusal means.
LEMMA RefusalShapeStep ==
    ASSUME IInv, StopShape, PlaceShape, CustodyShape, IdShape, RefusalShape, [Next]_vars
    PROVE  RefusalShape'
  <1> SUFFICES ASSUME NEW r \in Requests
               PROVE  /\ refusal'[r] # "duplicate"
                      /\ refusal'[r] = "closed" => exStopping' /\ answers'[r] = <<>>
    BY DEF RefusalShape
  <1>1. refusal[r] = "closed" => exStopping' /\ answers'[r] = <<>>
    <2>1. answers'[r] = answers[r] \/ Serving
      BY AnswerStep DEF FirstAnswer
    <2> QED  BY <2>1, HistoryMoves, OverServesNobody DEF StopShape, RefusalShape
  <1>2. CASE refusal' = refusal
    BY <1>1, <1>2 DEF RefusalShape
  <1>3. CASE Enqueue
    <2>1. /\ refusal' = [refusal EXCEPT ![handling] = EnqueueAnswer(handling)]
          /\ exStopping' = exStopping /\ answers' = answers
          /\ pc[Reader] = "enqueue"
      BY <1>3 DEF Enqueue, executorVars
    <2>2. /\ answers[handling] = <<>> /\ refusal \in [Requests -> Refusals]
          /\ Offered = {handling}
      BY <2>1 DEF IInv, AnswerShape, Offering, TypeOK, HistoryOK, Offered
    <2>3. EnqueueAnswer(handling) # "duplicate"
      <3>1. Waiting \cup Running \subseteq inflight /\ handling \in inflight
        BY <2>2, PlacesInFlight
        DEF IInv, TypeOK, ServerOK, ExecutorOK, LocalsOK, CustodyTypes
      <3>2. handling \notin Waiting \cup Running
        BY <2>2 DEF PlaceShape
      <3>3. ~\E other \in Waiting \cup Running : SameRequestId(IdOf[other], IdOf[handling])
        BY <3>1, <3>2 DEF IdShape
      <3> QED  BY <3>3 DEF EnqueueAnswer, Waiting, Running
    <2>4. EnqueueAnswer(handling) = "closed" => exStopping
      BY DEF EnqueueAnswer
    <2> QED  BY <1>1, <2>1, <2>2, <2>3, <2>4 DEF RefusalShape
  <1> QED  BY <1>2, <1>3, HistoryMoves

\* Once settled, an operation is settled for good.
LEMMA SettledStays ==
    ASSUME IInv, [Next]_vars, NEW r \in Requests, Settled(r)
    PROVE  Settled(r)'
  <1>1. answers[r] # <<>> => answers'[r] # <<>>
    BY AnswerStep DEF FirstAnswer
  <1>2. Over => Over'
    BY OverStays DEF IInv
  <1> QED  BY <1>1, <1>2, HistoryMoves DEF Settled

\* An answer that was sent settles the request.
LEMMA SentSettles ==
    ASSUME TypeOK, NEW r \in Requests, NEW answer, Sent(r, answer)
    PROVE  Settled(r)'
  <1>1. answers'[r] = Append(answers[r], answer) /\ answers[r] \in Seq(Replies)
    BY DEF Sent, TypeOK, HistoryOK
  <1>2. Append(answers[r], answer) # <<>>
    BY <1>1
  <1> QED  BY <1>1, <1>2 DEF Settled

\* The server serves the operations it has accepted until it is over.
LEMMA SettledOrServing ==
    ASSUME TypeOK, StopShape, NEW r \in accepted, r \in cancelled \/ ~Serving
    PROVE  Settled(r)
  BY DEF TypeOK, ServerOK, States, StopShape, Settled, Over, Serving

\* A refusal stays unreported until the request is answered or the server is over.
LEMMA UnreportedMoves ==
    ASSUME IInv, StopShape, LifeShape, [Next]_vars, NEW r \in Unreported
    PROVE  r \in Unreported' \/ Settled(r)'
  <1> DEFINE Goal == r \in Unreported' \/ Settled(r)'
  <1> SUFFICES Goal
    OBVIOUS
  <1> USE NamedThreads DEF serverVars, executorVars, transportVars, localVars, history
  <1>t. /\ pc \in [Threads -> Steps] /\ resume \in [Threads -> Steps]
        /\ ResumeShape /\ BirthShape
    BY DEF IInv, TypeOK, Control, ThreadsOK
  <1>d. Reader \notin {Owner, App, Writer, Worker}
    BY ThreadsAssumption
  <1>h. /\ r = handling
        /\ pc[Reader] = "refused" \/ (pc[Reader] = "stop" /\ resume[Reader] = "leave")
    BY DEF Unreported
  <1>k. ASSUME pc'[Reader] = pc[Reader], resume'[Reader] = resume[Reader],
               handling' = handling
        PROVE  Goal
    BY <1>h, <1>k DEF Unreported
  <1>1. ASSUME NEW t \in Threads, StopStep(t) PROVE Goal
    <2>1. CASE t = Reader
      <3>1. StopLocked(Reader)
        BY <1>1, <1>h, <2>1 DEF StopStep, StopExecutor, StopDiscard, StopTransport
      <3>2. Over'
        BY <3>1 DEF StopLocked, Over
      <3> QED  BY <3>2 DEF Settled
    <2>2. CASE t # Reader
      BY <1>1, <1>k, <1>t, <2>2
      DEF StopStep, StopLocked, StopExecutor, StopDiscard, StopTransport, Goto, Return
    <2> QED  BY <2>1, <2>2
  <1>2. ASSUME NEW t \in Threads, AppStop(t) \/ TransportExit(t) PROVE Goal
    BY <1>2, <1>h, <1>k, <1>t, <1>d, StoppersAssumption
    DEF AppStop, TransportExit, Goto, CallStop
  <1>3. CASE LoseConnection \/ Start \/ StartStep \/ BeginWait \/ WaitStep \/ WaitTimesOut
    <2>1. pc'[Reader] = pc[Reader] \/ (pc[Reader] = "unborn" /\ pc'[Reader] = "poll")
      BY <1>3, <1>t, <1>d
      DEF LoseConnection, Start, StartStep, StartExecutor, StartExecutorThrows, StartTransport,
          StartTransportFails, StartRunning, FailStart, BeginWait, WaitStep, WaitTransport,
          WaitExecutor, WaitMark, WaitTimesOut, Goto, CallStop, BirthShape
    <2>2. resume'[Reader] = resume[Reader] /\ handling' = handling
      BY <1>3, <1>t, <1>d
      DEF LoseConnection, Start, StartStep, StartExecutor, StartExecutorThrows, StartTransport,
          StartTransportFails, StartRunning, FailStart, BeginWait, WaitStep, WaitTransport,
          WaitExecutor, WaitMark, WaitTimesOut, Goto, CallStop
    <2> QED  BY <1>h, <1>k, <2>1, <2>2
  <1>4. ASSUME NEW q \in Requests, Receive(q) \/ NotifyCancelled(q) PROVE Goal
    BY <1>4, <1>h
    DEF Receive, ReceiveIgnored, ReceiveDuplicate, ReceivePing, ReceiveInitialize,
        ReceiveEarly, ReceiveCall, Deliver, Reading, NotifyCancelled
  <1>5. CASE AnswerRefused
    <2>1. handling \in accepted /\ handling \in Requests
      BY <1>5 DEF AnswerRefused, IInv, OperationShape, Offering, TypeOK, HistoryOK
    <2>2. CASE Sent(handling, "queue_full")
      BY <1>h, <2>1, <2>2, SentSettles DEF IInv
    <2>3. CASE handling \in cancelled \/ ~Serving
      BY <1>h, <2>1, <2>3, SettledOrServing, SettledStays DEF IInv
    <2>4. CASE CallStop(Reader, "leave") /\ handling' = handling
      BY <1>h, <1>t, <2>4 DEF CallStop, Unreported
    <2> QED  BY <1>5, <2>2, <2>3, <2>4 DEF AnswerRefused, EmitThen
  <1>6. CASE ReceiveMalformed \/ Enqueue \/ LeaveReceive \/ CancelInExecutor \/ CancelDiscard
    BY <1>6, <1>h
    DEF ReceiveMalformed, Reading, Enqueue, LeaveReceive, CancelInExecutor, CancelDiscard
  <1>7. CASE WorkerStep \/ ApplicationStops \/ NotifyInitialized
    BY <1>7, <1>k, <1>t, <1>d
    DEF WorkerStep, WorkerTake, Invoke, ApplicationReturns, ApplicationStops, Reply,
        WorkerClearActive, WorkerRelease, WorkerExit, NotifyInitialized, EmitThen, Goto, CallStop
  <1>8. CASE UNCHANGED vars
    BY <1>8, <1>k DEF vars
  <1> HIDE DEF Goal
  <1> QED  BY <1>1, <1>2, <1>3, <1>4, <1>5, <1>6, <1>7, <1>8 DEF Next, ReaderStep
\* When the invocation returns, the operation is answered, cancelled or over.
LEMMA ReturnSettles ==
    ASSUME IInv, StopShape, LifeShape, SettledShape, [Next]_vars, pc'[Worker] = "return"
    PROVE  Settled(active)' /\ active' = active
  <1> DEFINE Goal == Settled(active)' /\ active' = active
  <1> SUFFICES Goal
    OBVIOUS
  <1> USE NamedThreads DEF serverVars, executorVars, transportVars, localVars, history
  <1>t. /\ pc \in [Threads -> Steps] /\ resume \in [Threads -> Steps]
        /\ ResumeShape /\ BirthShape
    BY DEF IInv, TypeOK, Control, ThreadsOK
  <1>d. Worker \notin {Owner, App, Reader, Writer}
    BY ThreadsAssumption
  <1>a. Busy => active \in accepted /\ active \in Requests
    BY DEF IInv, OperationShape, TypeOK, HistoryOK
  <1>k. ASSUME pc[Worker] = "return", active' = active PROVE Goal
    <2>1. Settled(active)
      BY <1>k DEF SettledShape
    <2>2. active \in Requests
      BY <1>a, <1>k DEF Busy
    <2>3. \A r \in Requests : Settled(r) => Settled(r)'
      BY SettledStays
    <2> QED  BY <1>k, <2>1, <2>2, <2>3 DEF Settled
  <1>o. ASSUME Over', active' = active PROVE Goal
    BY <1>o DEF Settled
  <1>1. ASSUME NEW t \in Threads, StopStep(t) PROVE Goal
    <2>1. active' = active
      BY <1>1 DEF StopStep, StopLocked, StopExecutor, StopDiscard, StopTransport
    <2>2. pc[Worker] = "return" \/ Over'
      BY <1>1, <1>t
      DEF StopStep, StopLocked, StopExecutor, StopDiscard, StopTransport, Goto, Return,
          StopShape, StopSteps, Over
    <2> QED  BY <1>k, <1>o, <2>1, <2>2
  <1>2. ASSUME NEW t \in Threads, AppStop(t) \/ TransportExit(t) PROVE Goal
    BY <1>2, <1>k, <1>t DEF AppStop, TransportExit, Goto, CallStop
  <1>3. CASE LoseConnection \/ Start \/ StartStep \/ BeginWait \/ WaitStep \/ WaitTimesOut
    <2>1. pc[Worker] = "return"
      BY <1>3, <1>t, <1>d
      DEF LoseConnection, Start, StartStep, StartExecutor, StartExecutorThrows, StartTransport,
          StartTransportFails, StartRunning, FailStart, BeginWait, WaitStep, WaitTransport,
          WaitExecutor, WaitMark, WaitTimesOut, Goto, CallStop
    <2>2. active' = active
      BY <1>3
      DEF LoseConnection, Start, StartStep, StartExecutor, StartExecutorThrows, StartTransport,
          StartTransportFails, StartRunning, BeginWait, WaitStep, WaitTransport, WaitExecutor,
          WaitMark, WaitTimesOut
    <2> QED  BY <1>k, <2>1, <2>2
  <1>4. ASSUME NEW r \in Requests, Receive(r) \/ NotifyCancelled(r) PROVE Goal
    BY <1>4, <1>k, <1>t, <1>d
    DEF Receive, ReceiveIgnored, ReceiveDuplicate, ReceivePing, ReceiveInitialize,
        ReceiveEarly, ReceiveCall, NotifyCancelled, EmitThen, Goto, CallStop
  <1>5. CASE ReceiveMalformed \/ NotifyInitialized \/ ReaderStep
    BY <1>5, <1>k, <1>t, <1>d
    DEF ReceiveMalformed, NotifyInitialized, ReaderStep, Enqueue, AnswerRefused,
        LeaveReceive, CancelInExecutor, CancelDiscard, EmitThen, Goto, CallStop
  <1>6. CASE Invoke \/ Reply
    <2>1. Busy /\ active' = active
      BY <1>6 DEF Invoke, Reply, Busy, Undecided
    <2>2. CASE Sent(active, "result")
      BY <1>a, <2>1, <2>2, SentSettles DEF IInv, Settled
    <2>3. CASE active \in cancelled \/ ~Serving
      <3>1. Settled(active)
        BY <1>a, <2>1, <2>3, SettledOrServing DEF IInv
      <3>2. \A r \in Requests : Settled(r) => Settled(r)'
        BY SettledStays
      <3> QED  BY <1>a, <2>1, <3>1, <3>2 DEF Settled
    <2>4. Sent(active, "result") \/ active \in cancelled \/ ~Serving
      BY <1>6, <1>t DEF Invoke, Reply, EmitThen, Goto, CallStop
    <2> QED  BY <2>2, <2>3, <2>4
  <1>7. CASE \/ WorkerTake \/ ApplicationReturns \/ ApplicationStops \/ WorkerClearActive
             \/ WorkerRelease \/ WorkerExit
    BY <1>7, <1>t
    DEF WorkerTake, ApplicationReturns, ApplicationStops, WorkerClearActive, WorkerRelease,
        WorkerExit, Goto, CallStop
  <1>8. CASE UNCHANGED vars
    BY <1>8, <1>k DEF vars
  <1> HIDE DEF Goal
  <1> QED  BY <1>1, <1>2, <1>3, <1>4, <1>5, <1>6, <1>7, <1>8 DEF Next, WorkerStep

\* What a step takes from the captures of an operation, or gives to be destroyed, is
\* settled.
LEMMA CapturesGoSettled ==
    ASSUME CustodyInv, [Next]_vars
    PROVE  /\ \A r \in accepted : "call" \in owners[r] =>
                \/ "call" \in owners'[r] \/ r \in Unreported' \/ Settled(r)
           /\ \A r \in Destroyed' : r \in Destroyed \/ Settled(r)
  <1> DEFINE Goal == /\ \A r \in accepted : "call" \in owners[r] =>
                          \/ "call" \in owners'[r] \/ r \in Unreported' \/ Settled(r)
                     /\ \A r \in Destroyed' : r \in Destroyed \/ Settled(r)
  <1> SUFFICES Goal
    OBVIOUS
  <1> USE NamedThreads
      DEF CustodyInv, serverVars, executorVars, transportVars, localVars, history
  <1>t. CustodyTypes /\ pc \in [Threads -> Steps] /\ accepted \subseteq Requests
    BY DEF IInv, TypeOK, ServerOK, ExecutorOK, LocalsOK, ThreadsOK, HistoryOK, CustodyTypes
  <1>h. \A t \in Threads :
          pc[t] \notin {"stop_discard", "cancel_discard", "release"} => held[t] = {}
    BY DEF HandShape
  <1>p. Waiting \cup Running \cup Offered \cup Destroyed \subseteq inflight
    BY <1>t, PlacesInFlight
  <1>d. ASSUME NEW t \in Threads, Drop(held[t], "call"), held' = [held EXCEPT ![t] = {}]
        PROVE  Goal
    <2>1. Destroyed' = Destroyed \ held[t] /\ held[t] \subseteq Destroyed
      BY <1>d, <1>t, DestroyedDrops DEF CustodyTypes, PlaceShape
    <2>2. \A r \in Requests : r \notin held[t] => owners'[r] = owners[r]
      BY <1>d DEF Drop
    <2>3. \A r \in held[t] : Settled(r)
      BY <2>1 DEF SettledShape
    <2> QED  BY <1>t, <2>1, <2>2, <2>3
  <1>s. ASSUME NEW t \in Threads, NEW S, held' = [held EXCEPT ![t] = S], held[t] = {},
               S \cap Destroyed = {}, \A r \in S : Settled(r), UNCHANGED owners
        PROVE  Goal
    <2>1. Destroyed' = Destroyed \cup S
      BY <1>s, <1>t, DestroyedTakes DEF CustodyTypes, PlaceShape
    <2> QED  BY <1>s, <2>1
  <1>u. ASSUME UNCHANGED held, \A r \in accepted : "call" \in owners[r] =>
                                 "call" \in owners'[r] \/ r \in Unreported'
        PROVE  Goal
    BY <1>u DEF Destroyed
  <1>1. ASSUME NEW r \in Requests, Accepts(r) PROVE Goal
    BY <1>1, <1>t, <1>u DEF Accepts, ReceiveCall, CustodyTypes
  <1>2. ASSUME NEW t \in Threads, StopExecutor(t) PROVE Goal
    <2>1. held' = [held EXCEPT ![t] = Waiting] /\ UNCHANGED owners /\ pc[t] = "stop_executor"
      BY <1>2 DEF StopExecutor, Waiting
    <2>2. held[t] = {} /\ Waiting \cap Destroyed = {}
      BY <1>h, <2>1 DEF PlaceShape
    <2>3. Over
      BY <2>1 DEF StopShape, StopSteps
    <2> QED  BY <1>s, <2>1, <2>2, <2>3 DEF Settled
  <1>3. ASSUME NEW t \in Threads, StopDiscard(t) PROVE Goal
    BY <1>3, <1>d DEF StopDiscard
  <1>4. ASSUME Enqueues PROVE Goal
    <2>1. Enqueue /\ UNCHANGED <<held, handling>>
      BY <1>4 DEF Enqueues, Enqueue
    <2>2. CASE UNCHANGED owners
      BY <1>u, <2>1, <2>2
    <2>3. CASE Drop({handling}, "call") /\ Goto(Reader, "refused")
      <3>1. \A r \in Requests : r # handling => owners'[r] = owners[r]
        BY <2>3 DEF Drop
      <3>2. Unreported' = {handling}
        BY <1>t, <2>1, <2>3 DEF Goto, Unreported
      <3> QED  BY <1>t, <1>u, <2>1, <3>1, <3>2
    <2> QED  BY <2>1, <2>2, <2>3 DEF Enqueue
  <1>5. ASSUME Leaves PROVE Goal
    <2>1. Drop({handling}, "reader") /\ UNCHANGED held
      BY <1>5 DEF Leaves, LeaveReceive
    <2>2. \A r \in Requests : "call" \in owners[r] => "call" \in owners'[r]
      BY <2>1 DEF Drop
    <2> QED  BY <1>t, <1>u, <2>1, <2>2
  <1>6. ASSUME CancelInExecutor PROVE Goal
    <2>1. UNCHANGED owners
      BY <1>6 DEF CancelInExecutor
    <2>2. CASE UNCHANGED held
      BY <1>u, <2>1, <2>2
    <2>3. ASSUME NEW i \in 1..Len(queue), SameRequestId(IdOf[queue[i]], IdOf[handling]),
                 held' = [held EXCEPT ![Reader] = {queue[i]}]
          PROVE  Goal
      <3>1. queue[i] \in Waiting
        BY <1>t DEF Waiting, ToSet, CustodyTypes
      <3>2. held[Reader] = {} /\ {queue[i]} \cap Destroyed = {}
        BY <1>6, <1>h, <3>1 DEF CancelInExecutor, PlaceShape
      <3>3. queue[i] \in cancelled
        BY <1>6, <1>p, <2>3, <3>1 DEF CancelInExecutor, IdShape
      <3> QED  BY <1>s, <2>1, <2>3, <3>2, <3>3 DEF Settled
    <2> QED  BY <1>6, <2>2, <2>3 DEF CancelInExecutor
  <1>7. ASSUME CancelDiscard PROVE Goal
    BY <1>7, <1>d DEF CancelDiscard
  <1>8. ASSUME WorkerTake \/ Still PROVE Goal
    BY <1>8, <1>u DEF WorkerTake, Still
  <1>9. ASSUME WorkerClearActive PROVE Goal
    <2>1. /\ held' = [held EXCEPT ![Worker] = {active}] /\ UNCHANGED owners
          /\ pc[Worker] = "return"
      BY <1>9 DEF WorkerClearActive
    <2>2. active \in Requests /\ Settled(active)
      BY <2>1 DEF IInv, OperationShape, Busy, TypeOK, HistoryOK, SettledShape
    <2>3. held[Worker] = {} /\ {active} \cap Destroyed = {}
      BY <1>h, <2>1, <2>2, NoneAssumption DEF PlaceShape, Running
    <2> QED  BY <1>s, <2>1, <2>2, <2>3
  <1>10. ASSUME WorkerRelease PROVE Goal
    BY <1>10, <1>d DEF WorkerRelease
  <1> HIDE DEF Goal
  <1> QED
    BY <1>1, <1>2, <1>3, <1>4, <1>5, <1>6, <1>7, <1>8, <1>9, <1>10, ReaderMoves DEF CustodyInv

\* Every action keeps the debts of the server.
LEMMA SettledShapeStep == CustodyInv /\ CustodyShape' /\ [Next]_vars => SettledShape'
  <1> SUFFICES ASSUME CustodyInv, CustodyShape', [Next]_vars PROVE SettledShape'
    OBVIOUS
  <1>s. \A r \in Requests : Settled(r) => Settled(r)'
    BY SettledStays DEF CustodyInv
  <1>a. accepted \subseteq Requests /\ Destroyed \subseteq Requests
    BY DEF CustodyInv, IInv, TypeOK, HistoryOK, LocalsOK, Destroyed
  <1>1. ASSUME NEW r \in accepted' PROVE "call" \in owners'[r] \/ r \in Unreported' \/ Settled(r)'
    <2>1. CASE r \in accepted
      <3>1. \/ "call" \in owners'[r] \/ r \in Unreported' \/ Settled(r) \/ r \in Unreported
        BY <2>1, CapturesGoSettled DEF CustodyInv, SettledShape
      <3>2. r \in Unreported => r \in Unreported' \/ Settled(r)'
        BY UnreportedMoves DEF CustodyInv
      <3> QED  BY <1>a, <1>s, <2>1, <3>1, <3>2
    <2>2. CASE r \notin accepted
      <3>1. PICK q \in Requests : ReceiveCall(q)
        BY <1>1, <2>2, HistoryMoves
      <3>2. r = q /\ owners'[q] = {"call", "reader"}
        BY <1>1, <2>2, <3>1 DEF ReceiveCall, CustodyInv, IInv, TypeOK, ServerOK
      <3> QED  BY <3>2
    <2> QED  BY <2>1, <2>2
  <1>2. ASSUME NEW r \in Destroyed' PROVE Settled(r)'
    <2>1. Settled(r)
      BY CapturesGoSettled DEF CustodyInv, SettledShape
    <2>2. r \in Requests
      BY DEF CustodyShape
    <2> QED  BY <1>s, <2>1, <2>2
  <1>3. pc'[Worker] = "return" => Settled(active)'
    BY ReturnSettles DEF CustodyInv
  <1> QED  BY <1>1, <1>2, <1>3 DEF SettledShape
-----------------------------------------------------------------------------
(* The theorems. *)

\* The invariant holds before start.
LEMMA CustodyInit == Init => CustodyInv
  <1> SUFFICES ASSUME Init PROVE CustodyInv
    OBVIOUS
  <1> USE NamedThreads, ThreadsAssumption
  <1>1. IInv
    BY InvInit
  <1>2. StopShape /\ LifeShape /\ JoinShape
    BY DEF Init, StopShape, StopSteps, LifeShape, JoinShape
  <1>3. /\ Waiting = {} /\ Running = {} /\ Offered = {} /\ Destroyed = {} /\ Kept = {}
        /\ Unreported = {}
    <2>1. queue = <<>> /\ active = None /\ \A t \in Threads : held[t] = {}
      BY DEF Init
    <2>2. pc[Reader] = "unborn" /\ resume[Reader] = "idle"
      BY DEF Init
    <2> QED  BY <2>1, <2>2 DEF Waiting, Running, Offered, Destroyed, Kept, Unreported, ToSet
  <1>4. HandShape /\ PlaceShape
    BY <1>3 DEF Init, HandShape, PlaceShape, Apart
  <1>5. CustodyShape
    BY <1>3 DEF Init, CustodyShape
  <1>6. IdShape /\ RefusalShape
    BY DEF Init, IdShape, RefusalShape
  <1>7. SettledShape
    BY <1>3 DEF Init, SettledShape
  <1> QED  BY <1>1, <1>2, <1>4, <1>5, <1>6, <1>7 DEF CustodyInv

\* The invariant survives every step.
LEMMA CustodyStep == CustodyInv /\ [Next]_vars => CustodyInv'
  <1> SUFFICES ASSUME CustodyInv, [Next]_vars PROVE CustodyInv'
    OBVIOUS
  <1>1. IInv' /\ StopShape' /\ LifeShape' /\ JoinShape' /\ HandShape'
    BY InvStep, StopShapeStep, LifeShapeStep, JoinShapeStep, HandShapeStep DEF CustodyInv
  <1>2. PlaceShape' /\ CustodyShape'
    BY PlaceStep DEF CustodyInv
  <1>3. IdShape' /\ RefusalShape'
    BY IdShapeStep, RefusalShapeStep DEF CustodyInv
  <1>4. SettledShape'
    BY <1>2, SettledShapeStep
  <1> QED  BY <1>1, <1>2, <1>3, <1>4 DEF CustodyInv

\* The invariant holds in every reachable state.
LEMMA CustodyInvariance == Spec => []CustodyInv
  BY CustodyInit, CustodyStep, PTL DEF Spec

(* The ids in flight are apart and the executor knows none that is not in flight, so *)
(* enqueue can only refuse for want of room or because stop() came first.            *)
THEOREM ServerCoversExecutor == Spec => []InFlightCoversExecutor
  <1>1. CustodyInv => InFlightCoversExecutor
    <2> SUFFICES ASSUME CustodyInv PROVE InFlightCoversExecutor
      OBVIOUS
    <2>1. Waiting \cup Running \subseteq inflight
      BY PlacesInFlight
      DEF CustodyInv, IInv, TypeOK, ServerOK, ExecutorOK, LocalsOK, CustodyTypes
    <2> QED  BY <2>1 DEF CustodyInv, IdShape, RefusalShape, Waiting, Running,
                         InFlightCoversExecutor
  <1> QED  BY <1>1, CustodyInvariance, PTL

(* The host is told queue_full only when the queue was full: the other refusals of  *)
(* enqueue, which receive answers with the same code, are not answered at all.      *)
THEOREM ServerTellsFullness == Spec => []QueueFullMeansFull
  <1>1. CustodyInv => QueueFullMeansFull
    <2> SUFFICES ASSUME CustodyInv, NEW r \in Requests, answers[r] # <<>>, refusal[r] # "none"
                 PROVE  refusal[r] = "full"
      BY DEF QueueFullMeansFull
    <2>1. refusal[r] \in Refusals
      BY DEF CustodyInv, IInv, TypeOK, HistoryOK
    <2> QED  BY <2>1 DEF CustodyInv, RefusalShape, Refusals
  <1> QED  BY <1>1, CustodyInvariance, PTL

(* No operation disappears in silence: when the last reference to its completion is *)
(* gone it was answered or cancelled, or the session is over. A cancellation removes *)
(* only its own operation from the queue, and a refusal or a reply that cannot be    *)
(* sent stops the server.                                                            *)
THEOREM ServerLosesNothing == Spec => []NoSilentLoss
  <1>1. CustodyInv => NoSilentLoss
    <2> SUFFICES ASSUME CustodyInv, NEW r \in accepted \ inflight
                 PROVE  answers[r] # <<>> \/ r \in cancelled \/ state \in {"stopping", "stopped"}
      BY DEF NoSilentLoss
    <2>1. r \in Requests
      BY DEF CustodyInv, IInv, TypeOK, HistoryOK
    <2>2. owners[r] = {}
      BY <2>1 DEF CustodyInv, CustodyShape
    <2>3. r \notin Kept
      BY <2>1, <2>2 DEF CustodyInv, CustodyShape
    <2>4. Unreported \subseteq Kept
      BY DEF Unreported, Kept
    <2>5. Settled(r)
      BY <2>2, <2>3, <2>4 DEF CustodyInv, SettledShape
    <2> QED  BY <2>5 DEF Settled, Over
  <1> QED  BY <1>1, CustodyInvariance, PTL

(* When a wait has returned success no thread of the SDK runs, none will start, and  *)
(* an operation is in flight only while an application's thread inside stop() is     *)
(* destroying its captures.                                                          *)
THEOREM ServerJoinsAll == Spec => []JoinMeansQuiescent
  <1>1. CustodyInv => JoinMeansQuiescent
    <2> SUFFICES ASSUME CustodyInv, joined
                 PROVE  /\ pc[Reader] \in {"unborn", "exited"}
                        /\ pc[Writer] \in {"unborn", "exited"}
                        /\ pc[Worker] \in {"unborn", "exited"}
                        /\ state = "stopped"
                        /\ inflight \subseteq held[App] \cup held[Owner]
      BY DEF JoinMeansQuiescent
    <2> USE NamedThreads DEF CustodyInv
    <2>1. /\ pc[Reader] \in {"unborn", "exited"} /\ pc[Writer] \in {"unborn", "exited"}
          /\ pc[Worker] \in {"unborn", "exited"} /\ state = "stopped"
      BY DEF JoinShape
    <2>2. resume[Reader] = "idle" /\ resume[Worker] = "idle"
      BY <2>1 DEF IInv, Control, ResumeShape, StopSteps
    <2>3. held[Reader] = {} /\ held[Writer] = {} /\ held[Worker] = {}
      BY <2>1 DEF HandShape
    <2>4. Offered = {} /\ Kept = {}
      BY <2>1, <2>2 DEF Offered, Kept
    <2>5. Running = {}
      BY <2>1, <2>2 DEF HandShape, Busy, Undecided, Running
    <2>6. ASSUME NEW r \in inflight PROVE r \in held[App] \cup held[Owner]
      <3>1. r \in Requests /\ r \in accepted
        BY DEF IInv, TypeOK, ServerOK, OperationShape
      <3>2. pc[Reader] # "unborn"
        BY <3>1 DEF LifeShape
      <3>3. published
        BY <3>2 DEF LifeShape
      <3>4. exStopping
        BY <2>1, <3>3 DEF LifeShape
      <3>5. Waiting = {}
        BY <3>4 DEF StopShape, Waiting, ToSet
      <3>6. owners[r] # {} /\ "reader" \notin owners[r]
        BY <2>4, <3>1 DEF CustodyShape
      <3>7. "call" \in owners[r]
        BY <3>1, <3>6 DEF IInv, TypeOK, ServerOK
      <3>8. r \in Destroyed
        BY <2>4, <2>5, <3>1, <3>5, <3>7 DEF CustodyShape
      <3> QED  BY <2>3, <3>8 DEF Destroyed
    <2> QED  BY <2>1, <2>6
  <1> QED  BY <1>1, CustodyInvariance, PTL
-----------------------------------------------------------------------------
(* The executor as the server uses it. *)

\* The server asks the executor to stop before it comes to wait for it: a published
\* executor is behind an opened transport, or stopped, or about to be by a start that
\* failed; the worker that claims the transport's close callback stops it; and a server
\* that is stopped has joined it.
ReachShape ==
    /\ \/ ~published \/ exStopping \/ wire \in {"open", "closing"} \/ pc[Owner] = "open"
       \/ pc[Owner] \in {"stop", "stop_executor"} /\ resume[Owner] = "wait_transport"
    /\ claimed => \/ exStopping
                  \/ \E t \in {Reader, Writer} :
                       pc[t] \in {"stop", "stop_executor"} /\ resume[t] = "exited"
    /\ "exited" \in {pc[Reader], pc[Writer], resume[Reader], resume[Writer]} => claimed
    /\ state = "stopped" => pc[Owner] # "publish" /\ (published => exStopping)
    /\ pc[Owner] = "wait_executor" => exStopping

\* Every action keeps the order in which executor and transport are stopped.
LEMMA ReachStep ==
    IInv /\ LifeShape /\ JoinShape /\ ReachShape /\ [Next]_vars => ReachShape'
  <1> SUFFICES ASSUME IInv, LifeShape, JoinShape, ReachShape, [Next]_vars PROVE ReachShape'
    OBVIOUS
  <1> USE NamedThreads DEF serverVars, executorVars, transportVars, localVars, history
  <1>t. /\ pc \in [Threads -> Steps] /\ resume \in [Threads -> Steps]
        /\ ResumeShape /\ BirthShape
    BY DEF IInv, TypeOK, Control, ThreadsOK
  <1>w. /\ wire \in {"unstarted", "consumed", "open", "closing"} /\ published \in BOOLEAN
        /\ exStopping \in BOOLEAN /\ claimed \in BOOLEAN
    BY DEF IInv, TypeOK, ServerOK, TransportOK, ExecutorOK
  <1>d. /\ Owner \notin {App, Reader, Writer, Worker} /\ App \notin {Reader, Writer, Worker}
        /\ Reader \notin {Writer, Worker} /\ Writer # Worker
    BY ThreadsAssumption
  <1>1. ASSUME NEW t \in Threads, StopStep(t) PROVE ReachShape'
    <2>1. CASE StopLocked(t)
      BY <2>1, <1>t, <1>w, <1>d
      DEF StopLocked, Goto, Return, ResumeShape, BirthShape, LifeShape, ReachShape, StopSteps
    <2>2. CASE StopExecutor(t)
      BY <2>2, <1>t, <1>w, <1>d DEF StopExecutor, Goto, ReachShape
    <2>3. CASE StopDiscard(t)
      BY <2>3, <1>t, <1>w, <1>d DEF StopDiscard, Goto, ReachShape
    <2>4. CASE StopTransport(t)
      BY <2>4, <1>t, <1>w, <1>d
      DEF StopTransport, Return, ResumeShape, BirthShape, LifeShape, ReachShape, StopSteps
    <2> QED  BY <1>1, <2>1, <2>2, <2>3, <2>4 DEF StopStep
  <1>2. ASSUME NEW t \in Threads, AppStop(t) PROVE ReachShape'
    BY <1>2, <1>t, <1>w, <1>d, StoppersAssumption DEF AppStop, CallStop, ReachShape
  <1>3. ASSUME NEW t \in Threads, TransportExit(t) PROVE ReachShape'
    BY <1>3, <1>t, <1>w, <1>d DEF TransportExit, Goto, CallStop, ReachShape
  <1>4. CASE LoseConnection \/ Start
    BY <1>4, <1>t, <1>w, <1>d DEF LoseConnection, Start, Goto, BirthShape, ReachShape
  <1>5. CASE StartStep
    BY <1>5, <1>t, <1>w, <1>d
    DEF StartStep, StartExecutor, StartExecutorThrows, StartTransport, StartTransportFails,
        StartRunning, FailStart, Goto, CallStop, BirthShape, LifeShape, ReachShape
  <1>6. CASE BeginWait \/ WaitStep \/ WaitTimesOut
    BY <1>6, <1>t, <1>w, <1>d
    DEF BeginWait, WaitStep, WaitTransport, WaitExecutor, WaitMark, WaitTimesOut, Goto,
        TransportDone, LifeShape, JoinShape, ReachShape
  <1>7. ASSUME NEW r \in Requests, Receive(r) \/ NotifyCancelled(r) PROVE ReachShape'
    BY <1>7, <1>t, <1>w, <1>d
    DEF Receive, ReceiveIgnored, ReceiveDuplicate, ReceivePing, ReceiveInitialize,
        ReceiveEarly, ReceiveCall, Deliver, Reading, NotifyCancelled, EmitThen, Goto, CallStop,
        ReachShape
  <1>8. CASE ReceiveMalformed \/ NotifyInitialized \/ ReaderStep
    BY <1>8, <1>t, <1>w, <1>d
    DEF ReceiveMalformed, NotifyInitialized, Reading, ReaderStep, Enqueue, AnswerRefused,
        LeaveReceive, CancelInExecutor, CancelDiscard, EmitThen, Goto, CallStop, ReachShape
  <1>9. CASE WorkerStep \/ ApplicationStops
    BY <1>9, <1>t, <1>w, <1>d
    DEF WorkerStep, WorkerTake, Invoke, ApplicationReturns, ApplicationStops, Reply,
        WorkerClearActive, WorkerRelease, WorkerExit, EmitThen, Goto, CallStop, ReachShape
  <1>10. CASE UNCHANGED vars
    BY <1>10 DEF vars, ReachShape
  <1> QED  BY <1>1, <1>2, <1>3, <1>4, <1>5, <1>6, <1>7, <1>8, <1>9, <1>10 DEF Next

\* Before start neither has begun.
LEMMA ReachInit == Init => ReachShape
  BY ThreadsAssumption, NamedThreads DEF Init, ReachShape

(* The server waits for the executor's thread only once it has asked it to stop, on every *)
(* way to the wait: a failed start, a lost connection, a stop of any thread.               *)
ExecutorJoinedOnlyWhenStopped == pc[Owner] = "wait_executor" => exStopping

THEOREM ServerStopsBeforeJoin == Spec => []ExecutorJoinedOnlyWhenStopped
  <1>1. CustodyInv /\ ReachShape /\ [Next]_vars => ReachShape'
    BY ReachStep DEF CustodyInv
  <1>2. ReachShape => ExecutorJoinedOnlyWhenStopped
    BY DEF ReachShape, ExecutorJoinedOnlyWhenStopped
  <1> QED  BY <1>1, <1>2, ReachInit, CustodyInvariance, PTL DEF Spec
-----------------------------------------------------------------------------
(* The executor the server is verified with promises what SerialQueue promises: the same *)
(* promise that OwnedExecutor is shown to keep.                                          *)

\* The operations the executor has taken: not those it refused, nor the one it is offered.
Admitted == {r \in accepted : refusal[r] = "none"} \ Offered

Exec == INSTANCE SerialQueue WITH Work <- Requests, Capacity <- MaxPending, UntilClosed <- {},
            waiting <- queue, running <- active, admitted <- Admitted, closed <- exStopping

\* What the types say of the executor.
LEMMA ExecTypes ==
    ASSUME CustodyInv
    PROVE  /\ queue \in Seq(Requests) /\ refusal \in [Requests -> Refusals]
           /\ accepted \subseteq received /\ accepted \subseteq Requests
           /\ Busy => active \in Requests /\ active # None
           /\ pc \in [Threads -> Steps] /\ ResumeShape
  BY NoneAssumption
  DEF CustodyInv, IInv, TypeOK, ServerOK, ExecutorOK, HistoryOK, Control, ThreadsOK,
      OperationShape

\* Nothing but enqueue admits, and a refusal admits nothing.
LEMMA AdmittedMoves ==
    ASSUME CustodyInv, [Next]_vars
    PROVE  \/ /\ Enqueue /\ EnqueueAnswer(handling) = "none"
              /\ handling \in Requests \ Admitted
              /\ Admitted' = Admitted \cup {handling}
           \/ /\ ~Enqueue \/ EnqueueAnswer(handling) # "none"
              /\ Admitted' = Admitted
  <1>1. /\ refusal \in [Requests -> Refusals]
        /\ accepted \subseteq received /\ accepted \subseteq Requests
    BY ExecTypes
  <1>2. CASE Enqueue
    <2>1. Offered = {handling} /\ Offered' = {} /\ accepted' = accepted
      BY <1>2, ExecTypes, NamedThreads DEF Enqueue, Offered, Goto
    <2>2. handling \in accepted
      BY <1>2 DEF Enqueue, CustodyInv, IInv, OperationShape, Offering
    <2>3. refusal' = [refusal EXCEPT ![handling] = EnqueueAnswer(handling)]
      BY <1>2 DEF Enqueue
    <2>4. \A r \in accepted : refusal'[r] = IF r = handling THEN EnqueueAnswer(handling)
                                            ELSE refusal[r]
      BY <1>1, <2>3
    <2> QED  BY <1>1, <1>2, <2>1, <2>2, <2>4 DEF Admitted
  <1>3. CASE ~Enqueue
    <2>1. refusal' = refusal
      BY <1>3
      DEF Next, StopStep, StopLocked, StopExecutor, StopDiscard, StopTransport, AppStop,
          TransportExit, LoseConnection, Start, StartStep, StartExecutor, StartExecutorThrows,
          StartTransport, StartTransportFails, StartRunning, BeginWait, WaitStep,
          WaitTransport, WaitExecutor, WaitMark, WaitTimesOut, Receive, ReceiveIgnored,
          ReceiveDuplicate, ReceivePing, ReceiveInitialize, ReceiveEarly, ReceiveCall,
          NotifyCancelled, ReceiveMalformed, NotifyInitialized, ReaderStep, AnswerRefused,
          LeaveReceive, CancelInExecutor, CancelDiscard, WorkerStep, WorkerTake, Invoke,
          ApplicationReturns, ApplicationStops, Reply, WorkerClearActive, WorkerRelease,
          WorkerExit, vars, history
    <2>2. CASE \E r \in Requests : Accepts(r)
      <3>1. PICK r \in Requests : Accepts(r)
        BY <2>2
      <3>2. r \notin received /\ accepted' = accepted \cup {r}
        BY <3>1 DEF Accepts, ReceiveCall, Deliver
      <3> QED  BY <1>1, <1>3, <2>1, <3>1, <3>2 DEF Accepts, Admitted
    <2>3. CASE Offered' = Offered /\ accepted' = accepted
      BY <1>3, <2>1, <2>3 DEF Admitted
    <2>4. Leaves => Offered' = Offered /\ accepted' = accepted
      BY DEF Leaves, LeaveReceive, history
    <2>5. ASSUME SameCall, NEW t \in Threads, StopExecutor(t) \/ StopDiscard(t)
          PROVE  Offered' = Offered /\ accepted' = accepted
      BY <2>5 DEF SameCall, StopExecutor, StopDiscard, history
    <2>6. ASSUME SameCall, \/ CancelInExecutor \/ CancelDiscard \/ WorkerTake
                           \/ WorkerClearActive \/ WorkerRelease \/ Still
          PROVE  Offered' = Offered /\ accepted' = accepted
      BY <2>6 DEF SameCall, CancelInExecutor, CancelDiscard, WorkerTake, WorkerClearActive,
                  WorkerRelease, Still, history
    <2> QED
      BY <1>3, <2>2, <2>3, <2>4, <2>5, <2>6, ReaderMoves DEF CustodyInv, Enqueues
  <1> QED  BY <1>2, <1>3

\* Every other step of the server leaves the executor's list, its running invocation and
\* its stop flag alone.
LEMMA ExecOthers ==
    ASSUME [Next]_vars
    PROVE  \/ Enqueue \/ CancelInExecutor \/ WorkerTake \/ WorkerClearActive
           \/ \E t \in Threads : StopExecutor(t)
           \/ UNCHANGED <<queue, active, exStopping>>
  BY DEF Next, StopStep, StopLocked, StopDiscard, StopTransport, AppStop,
         TransportExit, LoseConnection, Start, StartStep, StartExecutor, StartExecutorThrows,
         StartTransport, StartTransportFails, StartRunning, BeginWait, WaitStep,
         WaitTransport, WaitExecutor, WaitMark, WaitTimesOut, Receive, ReceiveIgnored,
         ReceiveDuplicate, ReceivePing, ReceiveInitialize, ReceiveEarly, ReceiveCall,
         NotifyCancelled, ReceiveMalformed, NotifyInitialized, ReaderStep, AnswerRefused,
         LeaveReceive, CancelDiscard, WorkerStep, Invoke, ApplicationReturns,
         ApplicationStops, Reply, WorkerRelease, WorkerExit, vars, executorVars

\* Every step of the server is a step of the queue or none.
LEMMA ExecStep == CustodyInv /\ [Next]_vars => [Exec!Next]_(Exec!vars)
  <1> SUFFICES ASSUME CustodyInv, [Next]_vars PROVE Exec!Next \/ UNCHANGED Exec!vars
    BY DEF Exec!vars
  <1> USE DEF serverVars, executorVars, transportVars, localVars, history
  <1>1. CASE Enqueue /\ EnqueueAnswer(handling) = "none"
    <2>1. ~exStopping /\ ~(Len(queue) >= MaxPending)
      BY <1>1 DEF EnqueueAnswer
    <2>2. Len(queue) < MaxPending
      BY <2>1, ExecTypes, PendingAssumption
    <2>3. /\ handling \in Requests \ Admitted /\ Admitted' = Admitted \cup {handling}
          /\ queue' = Append(queue, handling) /\ UNCHANGED <<active, exStopping>>
      BY <1>1, AdmittedMoves DEF Enqueue
    <2>4. Exec!Admit(handling)
      BY <2>1, <2>2, <2>3 DEF Exec!Admit
    <2> QED  BY <2>3, <2>4 DEF Exec!Next
  <1>2. ASSUME ~(Enqueue /\ EnqueueAnswer(handling) = "none")
        PROVE  Admitted' = Admitted
    BY <1>2, AdmittedMoves
  <1>3. CASE Enqueue /\ EnqueueAnswer(handling) # "none"
    <2>1. UNCHANGED <<queue, active, exStopping>>
      BY <1>3 DEF Enqueue
    <2> QED  BY <1>2, <1>3, <2>1 DEF Exec!vars
  <1>4. CASE WorkerTake
    <2>1. active = None
      BY <1>4, ExecTypes, NamedThreads
      DEF WorkerTake, CustodyInv, HandShape, Busy, Undecided, ResumeShape, StopSteps
    <2>2. ~exStopping /\ queue # <<>> /\ active' = Head(queue) /\ queue' = Tail(queue)
          /\ UNCHANGED exStopping /\ ~Enqueue
      BY <1>4, ExecTypes, NamedThreads DEF WorkerTake, Enqueue, Goto
    <2>3. Admitted' = Admitted
      BY <1>2, <2>2
    <2> QED  BY <2>1, <2>2, <2>3 DEF Exec!Begin, Exec!Next
  <1>5. CASE WorkerClearActive
    <2>1. active # None
      BY <1>5, ExecTypes DEF WorkerClearActive, Busy
    <2>2. active' = None /\ UNCHANGED <<queue, exStopping>> /\ ~Enqueue
      BY <1>5, <2>1 DEF WorkerClearActive, Enqueue
    <2>3. Admitted' = Admitted
      BY <1>2, <2>2
    <2> QED  BY <2>1, <2>2, <2>3 DEF Exec!End, Exec!Next
  <1>6. CASE CancelInExecutor
    <2>1. UNCHANGED <<active, exStopping>> /\ ~Enqueue
      BY <1>6 DEF CancelInExecutor, Enqueue
    <2>2. Admitted' = Admitted
      BY <1>2, <2>1
    <2>3. UNCHANGED queue \/ \E i \in 1..Len(queue) : queue' = RemoveAt(queue, i)
      BY <1>6 DEF CancelInExecutor
    <2>4. CASE UNCHANGED queue
      BY <2>1, <2>2, <2>4 DEF Exec!vars
    <2>5. CASE \E i \in 1..Len(queue) : queue' = RemoveAt(queue, i)
      BY <2>1, <2>2, <2>5 DEF Exec!Withdraw, Exec!Next, Exec!RemoveAt, RemoveAt
    <2> QED  BY <2>3, <2>4, <2>5
  <1>7. ASSUME NEW t \in Threads, StopExecutor(t)
        PROVE  Exec!Next
    <2>1. exStopping' = TRUE /\ queue' = <<>> /\ UNCHANGED <<active, refusal>>
      BY <1>7 DEF StopExecutor
    <2>2. ~Enqueue
      BY <1>7, ExecTypes, NamedThreads DEF StopExecutor, Enqueue, Goto
    <2>3. Admitted' = Admitted
      BY <1>2, <2>2
    <2> QED  BY <2>1, <2>3 DEF Exec!Close, Exec!Next
  <1>8. CASE UNCHANGED <<queue, active, exStopping>> /\ ~Enqueue
    BY <1>2, <1>8 DEF Exec!vars
  <1> QED  BY <1>1, <1>3, <1>4, <1>5, <1>6, <1>7, <1>8, ExecOthers

(* What the server does with its executor, and what the executor does for the server, is   *)
(* a serial queue's behaviour: at most max_pending_requests wait, one runs at a time and in *)
(* order, a cancellation withdraws one, and a stop takes all back and admits no more.       *)
THEOREM ServerRunsASerialQueue == Spec => Exec!Spec
  <1>1. Init => Exec!Init
    BY DEF Init, Exec!Init, Admitted, Offered
  <1>2. CustodyInv /\ [Next]_vars => [Exec!Next]_(Exec!vars)
    BY ExecStep
  <1> QED  BY <1>1, <1>2, CustodyInvariance, PTL DEF Spec, Exec!Spec
=============================================================================
