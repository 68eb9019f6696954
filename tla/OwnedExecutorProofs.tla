------------------------ MODULE OwnedExecutorProofs ------------------------
(* Proofs about OwnedExecutor, for every set of threads and of invocations. *)
EXTENDS OwnedExecutor, SequenceTheorems, SharedLemmas, TLAPS

-----------------------------------------------------------------------------
(* The inductive invariant. *)

\* What run() and active_ refer to at each point of the loop.
LoopShape ==
    /\ loop \in {"calling", "called"} => current \in Work /\ active = current
    /\ loop = "releasing" => current \in Work /\ active = None
    /\ loop \notin {"calling", "called", "releasing"} => current = None /\ active = None

\* stopping_ and finished_ against the loop, which leaves only once it is stopped.
ShutdownShape ==
    /\ stopping => pending = <<>>
    /\ loop \in {"leaving", "announcing", "exited"} => stopping
    /\ finished <=> loop \in {"announcing", "exited"}
    /\ joined # {} => loop = "exited"

\* A source copied under the mutex is used by the same call, which is not over.
TargetShape ==
    \A t \in Threads :
        /\ target[t] # None => op[t] \in {"notify_all", "request_stop"}
        /\ target[t] # None => target[t] \in asked

\* The worker calls in only from a callback or a destructor, and never to wait.
WorkerShape ==
    op[Worker] # "idle" => /\ loop \in {"calling", "releasing"}
                           /\ op[Worker] \notin {"wait", "wait_for", "join"}

\* Only the idle worker and the threads inside a wait are parked.
ParkShape ==
    /\ Worker \in parked => loop = "waiting"
    /\ \A t \in parked \ {Worker} : op[t] \in {"wait", "wait_for"}

\* With the owners' discipline nobody waits for an executor that still runs.
WaitDiscipline ==
    EarlyJoins = {} => \A t \in Threads : op[t] \in {"wait", "wait_for", "join"} => stopping


-----------------------------------------------------------------------------
(* Type correctness. *)

\* One step per action, so that later proofs can split Next the same way.
LEMMA TypeStep == TypeOK /\ LoopShape /\ [Next]_vars => TypeOK'
  <1> SUFFICES ASSUME TypeOK, LoopShape, [Next]_vars PROVE TypeOK'
    OBVIOUS
  <1> USE DEF TypeOK, OpSteps, LoopSteps, Goto, Enter, Threads,
              workerVars, callVars, history
  <1>1. ASSUME NEW t \in Threads, NEW w \in Work, Enqueue(t, w) PROVE TypeOK'
    <2>1. EnqueueAnswer(w) \in Verdicts
      BY DEF EnqueueAnswer, Verdicts
    <2>2. CASE EnqueueAnswer(w) = "admitted"
      <3>1. pending' = Append(pending, w)
        BY <1>1, <2>2 DEF Enqueue
      <3>2. op' \in [Threads -> OpSteps] /\ verdict' \in [Work -> Verdicts]
        BY <1>1, <2>1, <2>2 DEF Enqueue
      <3>3. UNCHANGED <<held, active, stopping, finished, workerVars, parked, target,
                        stopRequested, released, history>>
        BY <1>1, <2>2 DEF Enqueue
      <3>4. pending' \in Seq(Work)
        BY <3>1, AppendProperties
      <3> QED  BY <3>2, <3>3, <3>4
    <2>3. CASE EnqueueAnswer(w) # "admitted"
      <3>1. op' \in [Threads -> OpSteps] /\ held' \in [Threads -> SUBSET Work]
        BY <1>1, <2>3 DEF Enqueue
      <3>2. verdict' \in [Work -> Verdicts]
        BY <1>1, <2>1 DEF Enqueue
      <3>3. UNCHANGED <<pending, active, stopping, finished, workerVars, parked, target,
                        stopRequested, released, history>>
        BY <1>1, <2>3 DEF Enqueue
      <3> QED  BY <3>1, <3>2, <3>3
    <2> QED  BY <2>2, <2>3
  <1>2. ASSUME NEW t \in Threads, NotifyOne(t) PROVE TypeOK'
    BY <1>2 DEF NotifyOne
  <1>3. ASSUME NEW t \in Threads, NEW w \in Work, Cancel(t, IdOf[w]) PROVE TypeOK'
    <2>1. CASE active # None /\ SameRequestId(IdOf[active], IdOf[w])
      BY <1>3, <2>1 DEF Cancel
    <2>2. CASE ~(active # None /\ SameRequestId(IdOf[active], IdOf[w]))
      <3>1. PICK i \in 1..Len(pending) :
              /\ pending' = RemoveAt(pending, i)
              /\ held' = [held EXCEPT ![t] = {pending[i]}]
        BY <1>3, <2>2 DEF Cancel
      <3>2. pending' \in Seq(Work)
        BY <3>1, RemoveAtType
      <3>3. pending[i] \in Work
        OBVIOUS
      <3> QED  BY <1>3, <2>2, <3>1, <3>2, <3>3 DEF Cancel
    <2> QED  BY <2>1, <2>2
  <1>4. ASSUME NEW t \in Threads, Stop(t) PROVE TypeOK'
    <2>1. ToSet(pending) \subseteq Work
      BY DEF ToSet
    <2> QED  BY <1>4, <2>1 DEF Stop, StopWith
  <1>5. ASSUME NEW t \in Threads, NotifyAll(t) PROVE TypeOK'
    BY <1>5 DEF NotifyAll
  <1>6. ASSUME NEW t \in Threads, RequestStop(t) PROVE TypeOK'
    BY <1>6 DEF RequestStop, RequestStopOf
  <1>7. ASSUME NEW t \in Threads, Unwind(t) PROVE TypeOK'
    BY <1>7 DEF Unwind
  <1>8. ASSUME NEW t \in Threads, BeginWait(t) PROVE TypeOK'
    BY <1>8 DEF BeginWait
  <1>9. ASSUME NEW t \in Threads, CheckFinished(t) PROVE TypeOK'
    BY <1>9 DEF CheckFinished
  <1>10. ASSUME NEW t \in Threads, TimeOut(t) PROVE TypeOK'
    BY <1>10 DEF TimeOut
  <1>11. ASSUME NEW t \in Threads, Join(t) PROVE TypeOK'
    BY <1>11 DEF Join
  <1>12. CASE WorkerStart
    BY <1>12 DEF WorkerStart
  <1>13. CASE WorkerPark
    BY <1>13 DEF WorkerPark
  <1>14. CASE WorkerTake
    BY <1>14 DEF WorkerTake
  <1>15. CASE CallReturns
    BY <1>15 DEF CallReturns
  <1>16. CASE WorkerClearActive
    BY <1>16 DEF WorkerClearActive
  <1>17. CASE WorkerRelease
    BY <1>17 DEF WorkerRelease, LoopShape
  <1>18. CASE WorkerBreak
    BY <1>18 DEF WorkerBreak
  <1>19. CASE WorkerFinish
    BY <1>19 DEF WorkerFinish
  <1>20. CASE WorkerAnnounce
    BY <1>20 DEF WorkerAnnounce
  <1>21. ASSUME NEW t \in Threads, WakeSpuriously(t) PROVE TypeOK'
    BY <1>21 DEF WakeSpuriously
  <1>22. CASE UNCHANGED vars
    BY <1>22 DEF vars
  <1> QED
    BY <1>1, <1>2, <1>3, <1>4, <1>5, <1>6, <1>7, <1>8, <1>9, <1>10, <1>11, <1>12,
       <1>13, <1>14, <1>15, <1>16, <1>17, <1>18, <1>19, <1>20, <1>21, <1>22
    DEF Next, WorkerNext, Continue, Call

\* Calls and wake-ups leave what the loop and active_ refer to alone.
LEMMA LoopFrame ==
    ASSUME NEW t \in Threads, Call(t) \/ Continue(t) \/ TimeOut(t) \/ WakeSpuriously(t)
    PROVE  UNCHANGED <<loop, current, active>>
  BY DEF Call, Continue, Enqueue, Cancel, Stop, StopWith, BeginWait, NotifyOne, NotifyAll,
         RequestStop, RequestStopOf, Unwind, CheckFinished, Join, TimeOut, WakeSpuriously, workerVars

\* The worker's locals and active_ stay in step with where run() is.
LEMMA LoopStep == TypeOK /\ LoopShape /\ [Next]_vars => LoopShape'
  <1> SUFFICES ASSUME TypeOK, LoopShape, [Next]_vars PROVE LoopShape'
    OBVIOUS
  <1> USE DEF LoopShape, Enter
  <1>1. ASSUME NEW t \in Threads, Call(t) \/ Continue(t) \/ TimeOut(t) \/ WakeSpuriously(t)
        PROVE  LoopShape'
    BY <1>1, LoopFrame
  <1>2. CASE WorkerTake
    <2>1. Head(pending) \in Work
      BY <1>2 DEF WorkerTake, TypeOK
    <2> QED  BY <1>2, <2>1 DEF WorkerTake
  <1>3. CASE WorkerNext /\ ~WorkerTake
    BY <1>3 DEF WorkerNext, WorkerStart, WorkerPark, CallReturns, WorkerClearActive,
         WorkerRelease, WorkerBreak, WorkerFinish, WorkerAnnounce, workerVars
  <1>4. CASE UNCHANGED vars
    BY <1>4 DEF vars, workerVars
  <1> QED  BY <1>1, <1>2, <1>3, <1>4 DEF Next

\* Closing is permanent, takes back what waits, and comes before the worker's end.
LEMMA ShutdownStep ==
    TypeOK /\ LoopShape /\ ShutdownShape /\ [Next]_vars => ShutdownShape'
  <1> SUFFICES ASSUME TypeOK, LoopShape, ShutdownShape, [Next]_vars PROVE ShutdownShape'
    OBVIOUS
  <1> USE DEF ShutdownShape, workerVars, callVars, history
  <1>1. ASSUME NEW t \in Threads, NEW w \in Work, Enqueue(t, w) PROVE ShutdownShape'
    BY <1>1 DEF Enqueue, EnqueueAnswer
  <1>2. ASSUME NEW t \in Threads, NEW w \in Work, Cancel(t, IdOf[w])
        PROVE  ShutdownShape'
    <2>1. stopping => pending' = <<>>
      BY <1>2 DEF Cancel
    <2> QED  BY <1>2, <2>1 DEF Cancel
  <1>3. ASSUME NEW t \in Threads, Stop(t) PROVE ShutdownShape'
    BY <1>3 DEF Stop, StopWith
  <1>4. ASSUME NEW t \in Threads, Join(t) PROVE ShutdownShape'
    BY <1>4 DEF Join
  <1>5. ASSUME NEW t \in Threads,
               BeginWait(t) \/ (Continue(t) /\ ~Join(t)) \/ TimeOut(t) \/ WakeSpuriously(t)
        PROVE  UNCHANGED <<stopping, finished, pending, loop, joined>>
    BY <1>5 DEF BeginWait, Continue, NotifyOne, NotifyAll, RequestStop, RequestStopOf, Unwind,
         CheckFinished, TimeOut, WakeSpuriously
  <1>6. CASE WorkerNext
    <2> USE DEF Enter, LoopShape
    <2>1. CASE WorkerStart     BY <2>1 DEF WorkerStart
    <2>2. CASE WorkerPark      BY <2>2 DEF WorkerPark
    <2>3. CASE WorkerTake      BY <2>3 DEF WorkerTake
    <2>4. CASE CallReturns     BY <2>4 DEF CallReturns
    <2>5. CASE WorkerClearActive  BY <2>5 DEF WorkerClearActive
    <2>6. CASE WorkerRelease   BY <2>6 DEF WorkerRelease
    <2>7. CASE WorkerBreak     BY <2>7 DEF WorkerBreak
    <2>8. CASE WorkerFinish    BY <2>8 DEF WorkerFinish, TypeOK
    <2>9. CASE WorkerAnnounce  BY <2>9 DEF WorkerAnnounce
    <2> QED  BY <1>6, <2>1, <2>2, <2>3, <2>4, <2>5, <2>6, <2>7, <2>8, <2>9 DEF WorkerNext
  <1>7. CASE UNCHANGED vars
    BY <1>7 DEF vars
  <1> QED  BY <1>1, <1>2, <1>3, <1>4, <1>5, <1>6, <1>7 DEF Next, Call

\* A stop source a call still holds belongs to an invocation it asked for.
LEMMA TargetStep == TypeOK /\ LoopShape /\ TargetShape /\ [Next]_vars => TargetShape'
  <1> SUFFICES ASSUME TypeOK, LoopShape, TargetShape, [Next]_vars PROVE TargetShape'
    OBVIOUS
  <1> USE DEF TypeOK, TargetShape, Goto, workerVars, callVars, history
  <1>1. ASSUME NEW t \in Threads, NEW w \in Work, Enqueue(t, w) PROVE TargetShape'
    BY <1>1 DEF Enqueue, CanCall
  <1>2. ASSUME NEW t \in Threads, NEW w \in Work, Cancel(t, IdOf[w]) PROVE TargetShape'
    BY <1>2 DEF Cancel, CanCall
  <1>3. ASSUME NEW t \in Threads, Stop(t) PROVE TargetShape'
    BY <1>3 DEF Stop, StopWith, CanCall
  <1>4. ASSUME NEW t \in Threads, BeginWait(t) PROVE TargetShape'
    BY <1>4 DEF BeginWait, CanCall
  <1>5. ASSUME NEW t \in Threads, NotifyOne(t) PROVE TargetShape'
    BY <1>5 DEF NotifyOne
  <1>6. ASSUME NEW t \in Threads, NotifyAll(t) PROVE TargetShape'
    BY <1>6 DEF NotifyAll
  <1>7. ASSUME NEW t \in Threads, RequestStop(t) PROVE TargetShape'
    BY <1>7 DEF RequestStop, RequestStopOf
  <1>8. ASSUME NEW t \in Threads, Unwind(t) PROVE TargetShape'
    BY <1>8 DEF Unwind
  <1>9. ASSUME NEW t \in Threads, CheckFinished(t) PROVE TargetShape'
    BY <1>9 DEF CheckFinished
  <1>10. ASSUME NEW t \in Threads, Join(t) PROVE TargetShape'
    BY <1>10 DEF Join
  <1>11. ASSUME NEW t \in Threads, TimeOut(t) PROVE TargetShape'
    BY <1>11 DEF TimeOut
  <1>12. ASSUME NEW t \in Threads, WakeSpuriously(t) PROVE TargetShape'
    BY <1>12 DEF WakeSpuriously
  <1>13. CASE WorkerNext
    BY <1>13 DEF WorkerNext, WorkerStart, WorkerPark, WorkerTake, CallReturns,
         WorkerClearActive, WorkerRelease, WorkerBreak, WorkerFinish, WorkerAnnounce
  <1>14. CASE UNCHANGED vars
    BY <1>14 DEF vars
  <1> QED
    BY <1>1, <1>2, <1>3, <1>4, <1>5, <1>6, <1>7, <1>8, <1>9, <1>10, <1>11, <1>12,
       <1>13, <1>14 DEF Next, Call, Continue

\* Where each thread is, what the worker may do and who is parked go together.
CallShape == WorkerShape /\ ParkShape /\ WaitDiscipline

\* Each thread's place in its call agrees with the worker's loop and the parked set.
LEMMA CallStep ==
    TypeOK /\ LoopShape /\ ShutdownShape /\ CallShape /\ [Next]_vars => CallShape'
  <1> SUFFICES ASSUME TypeOK, LoopShape, ShutdownShape, CallShape, [Next]_vars
               PROVE  CallShape'
    OBVIOUS
  <1> USE DEF TypeOK, CallShape, WorkerShape, ParkShape, WaitDiscipline, Goto, Threads,
              workerVars, callVars, history
  <1>1. ASSUME NEW t \in Threads, NEW w \in Work, Enqueue(t, w) PROVE CallShape'
    BY <1>1 DEF Enqueue, CanCall
  <1>2. ASSUME NEW t \in Threads, NEW w \in Work, Cancel(t, IdOf[w]) PROVE CallShape'
    BY <1>2 DEF Cancel, CanCall
  <1>3. ASSUME NEW t \in Threads, Stop(t) PROVE CallShape'
    BY <1>3 DEF Stop, StopWith, CanCall
  <1>4. ASSUME NEW t \in Threads, BeginWait(t) PROVE CallShape'
    BY <1>4 DEF BeginWait, CanCall, OnWorker, ShutdownShape
  <1>5. ASSUME NEW t \in Threads, NotifyOne(t) PROVE CallShape'
    BY <1>5 DEF NotifyOne
  <1>6. ASSUME NEW t \in Threads, NotifyAll(t) PROVE CallShape'
    BY <1>6 DEF NotifyAll
  <1>7. ASSUME NEW t \in Threads, RequestStop(t) PROVE CallShape'
    BY <1>7 DEF RequestStop, RequestStopOf
  <1>8. ASSUME NEW t \in Threads, Unwind(t) PROVE CallShape'
    BY <1>8 DEF Unwind
  <1>9. ASSUME NEW t \in Threads, CheckFinished(t) PROVE CallShape'
    <2>1. t # Worker
      BY <1>9 DEF CheckFinished
    <2> QED  BY <1>9, <2>1 DEF CheckFinished
  <1>10. ASSUME NEW t \in Threads, Join(t) PROVE CallShape'
    BY <1>10 DEF Join
  <1>11. ASSUME NEW t \in Threads, TimeOut(t) PROVE CallShape'
    BY <1>11 DEF TimeOut
  <1>12. ASSUME NEW t \in Threads, WakeSpuriously(t) PROVE CallShape'
    BY <1>12 DEF WakeSpuriously
  <1>13. CASE WorkerNext
    <2> USE DEF Enter
    <2>1. CASE WorkerStart     BY <2>1 DEF WorkerStart
    <2>2. CASE WorkerPark      BY <2>2 DEF WorkerPark
    <2>3. CASE WorkerTake      BY <2>3 DEF WorkerTake
    <2>4. CASE CallReturns     BY <2>4 DEF CallReturns
    <2>5. CASE WorkerClearActive  BY <2>5 DEF WorkerClearActive
    <2>6. CASE WorkerRelease   BY <2>6 DEF WorkerRelease
    <2>7. CASE WorkerBreak     BY <2>7 DEF WorkerBreak
    <2>8. CASE WorkerFinish    BY <2>8 DEF WorkerFinish
    <2>9. CASE WorkerAnnounce  BY <2>9 DEF WorkerAnnounce
    <2> QED  BY <1>13, <2>1, <2>2, <2>3, <2>4, <2>5, <2>6, <2>7, <2>8, <2>9
             DEF WorkerNext
  <1>14. CASE UNCHANGED vars
    BY <1>14 DEF vars
  <1> QED
    BY <1>1, <1>2, <1>3, <1>4, <1>5, <1>6, <1>7, <1>8, <1>9, <1>10, <1>11, <1>12,
       <1>13, <1>14 DEF Next, Call, Continue

-----------------------------------------------------------------------------
(* The theorems. *)

IInv == TypeOK /\ LoopShape /\ ShutdownShape /\ TargetShape /\ CallShape

\* The inductive invariant holds initially and through every step of the executor.
LEMMA Invariance == Spec => []IInv
  <1>1. Init => IInv
    <2> SUFFICES ASSUME Init PROVE IInv
      OBVIOUS
    <2>1. TypeOK
      <3>1. stopping \in BOOLEAN /\ finished \in BOOLEAN
        BY DEF Init
      <3> QED  BY <3>1 DEF Init, TypeOK, OpSteps, LoopSteps, Verdicts, Threads
    <2>2. LoopShape
      BY DEF Init, LoopShape
    <2>3. ShutdownShape
      <3>1. CASE MaxPending = 0  BY <3>1 DEF Init, ShutdownShape
      <3>2. CASE MaxPending # 0  BY <3>2 DEF Init, ShutdownShape
      <3> QED  BY <3>1, <3>2
    <2>4. TargetShape
      BY DEF Init, TargetShape
    <2>5. CallShape
      BY DEF Init, CallShape, WorkerShape, ParkShape, WaitDiscipline, Threads
    <2> QED  BY <2>1, <2>2, <2>3, <2>4, <2>5 DEF IInv
  <1>2. IInv /\ [Next]_vars => IInv'
    BY TypeStep, LoopStep, ShutdownStep, TargetStep, CallStep DEF IInv
  <1> QED  BY <1>1, <1>2, PTL DEF Spec

\* The state of the executor's members and locals is what their types say.
THEOREM TypeCorrect == Spec => []TypeOK
  BY Invariance, PTL DEF IInv

\* A wait that returned success left nothing running, waiting or kept alive.
THEOREM JoinIsQuiescent == Spec => []JoinMeansQuiescent
  <1>1. IInv => JoinMeansQuiescent
    BY DEF IInv, JoinMeansQuiescent, ShutdownShape, LoopShape
  <1> QED  BY <1>1, Invariance, PTL

\* A stop token is set only for an invocation that was active when some cancel or
\* stop looked, whatever the worker has gone on to since.
THEOREM StopsAreAsked == Spec => []StopsOnlyWhatWasAsked
  <1>1. Init => StopsOnlyWhatWasAsked
    BY DEF Init, StopsOnlyWhatWasAsked
  <1>2. IInv /\ StopsOnlyWhatWasAsked /\ [Next]_vars => StopsOnlyWhatWasAsked'
    <2> SUFFICES ASSUME IInv, StopsOnlyWhatWasAsked, [Next]_vars
                 PROVE  StopsOnlyWhatWasAsked'
      OBVIOUS
    <2> USE DEF StopsOnlyWhatWasAsked, history
    <2>1. ASSUME NEW t \in Threads, RequestStop(t) PROVE StopsOnlyWhatWasAsked'
      BY <2>1 DEF RequestStop, RequestStopOf, IInv, TargetShape
    <2>2. ASSUME NEW t \in Threads,
                 Call(t) \/ (Continue(t) /\ ~RequestStop(t)) \/ TimeOut(t)
                 \/ WakeSpuriously(t)
          PROVE  stopRequested' = stopRequested /\ asked \subseteq asked'
      BY <2>2 DEF Call, Continue, Enqueue, Cancel, Stop, StopWith, BeginWait, NotifyOne, NotifyAll,
           Unwind, CheckFinished, Join, TimeOut, WakeSpuriously
    <2>3. CASE WorkerNext
      BY <2>3 DEF WorkerNext, WorkerStart, WorkerPark, WorkerTake, CallReturns,
           WorkerClearActive, WorkerRelease, WorkerBreak, WorkerFinish, WorkerAnnounce
    <2>4. CASE UNCHANGED vars
      BY <2>4 DEF vars
    <2> QED  BY <2>1, <2>2, <2>3, <2>4 DEF Next, Continue
  <1> QED  BY <1>1, <1>2, Invariance, PTL DEF Spec

-----------------------------------------------------------------------------
(* No wake-up is lost under the owners' discipline: whoever joins has stopped  *)
(* the executor first, so that a thread notify_one may pick instead of the     *)
(* worker is never parked while work is pending.                               *)

\* No step leaves a parked thread with a reason to run and nobody to notify it.
LEMMA WakeupStep ==
    ASSUME EarlyJoins = {}
    PROVE  IInv /\ NoLostWakeup /\ [Next]_vars => NoLostWakeup'
  <1> SUFFICES ASSUME IInv, NoLostWakeup, [Next]_vars PROVE NoLostWakeup'
    OBVIOUS
  <1> USE DEF IInv, TypeOK, NoLostWakeup, Goto, Threads, workerVars, callVars, history
  <1>1. ASSUME NEW t \in Threads, NEW w \in Work, Enqueue(t, w) PROVE NoLostWakeup'
    BY <1>1 DEF Enqueue, CanCall
  <1>2. ASSUME NEW t \in Threads, NEW w \in Work, Cancel(t, IdOf[w]) PROVE NoLostWakeup'
    <2>1. pending' # <<>> => pending # <<>>
      BY <1>2 DEF Cancel
    <2> QED  BY <1>2, <2>1 DEF Cancel, CanCall
  <1>3. ASSUME NEW t \in Threads, Stop(t) PROVE NoLostWakeup'
    BY <1>3 DEF Stop, StopWith, CanCall, ShutdownShape
  <1>4. ASSUME NEW t \in Threads, BeginWait(t) PROVE NoLostWakeup'
    BY <1>4 DEF BeginWait, CanCall
  <1>5. ASSUME NEW t \in Threads, NotifyOne(t) PROVE NoLostWakeup'
    <2>1. pending # <<>> => parked \subseteq {Worker}
      BY DEF ShutdownShape, CallShape, ParkShape, WaitDiscipline
    <2>2. pending # <<>> => Worker \notin parked'
      BY <1>5, <2>1 DEF NotifyOne
    <2> QED  BY <1>5, <2>2 DEF NotifyOne
  <1>6. ASSUME NEW t \in Threads, NotifyAll(t) PROVE NoLostWakeup'
    BY <1>6 DEF NotifyAll
  <1>7. ASSUME NEW t \in Threads, RequestStop(t) PROVE NoLostWakeup'
    BY <1>7 DEF RequestStop, RequestStopOf
  <1>8. ASSUME NEW t \in Threads, Unwind(t) PROVE NoLostWakeup'
    BY <1>8 DEF Unwind
  <1>9. ASSUME NEW t \in Threads, CheckFinished(t) PROVE NoLostWakeup'
    <2>1. t # Worker
      BY <1>9 DEF CheckFinished, CallShape, WorkerShape
    <2> QED  BY <1>9, <2>1 DEF CheckFinished
  <1>10. ASSUME NEW t \in Threads, Join(t) PROVE NoLostWakeup'
    BY <1>10 DEF Join
  <1>11. ASSUME NEW t \in Threads, TimeOut(t) PROVE NoLostWakeup'
    BY <1>11 DEF TimeOut
  <1>12. ASSUME NEW t \in Threads, WakeSpuriously(t) PROVE NoLostWakeup'
    BY <1>12 DEF WakeSpuriously
  <1>13. CASE WorkerNext
    <2> USE DEF Enter, ShutdownShape, CallShape, ParkShape
    <2>1. CASE WorkerStart     BY <2>1 DEF WorkerStart
    <2>2. CASE WorkerPark      BY <2>2 DEF WorkerPark
    <2>3. CASE WorkerTake      BY <2>3 DEF WorkerTake
    <2>4. CASE CallReturns     BY <2>4 DEF CallReturns
    <2>5. CASE WorkerClearActive  BY <2>5 DEF WorkerClearActive
    <2>6. CASE WorkerRelease   BY <2>6 DEF WorkerRelease
    <2>7. CASE WorkerBreak     BY <2>7 DEF WorkerBreak
    <2>8. CASE WorkerFinish    BY <2>8 DEF WorkerFinish
    <2>9. CASE WorkerAnnounce  BY <2>9 DEF WorkerAnnounce
    <2> QED  BY <1>13, <2>1, <2>2, <2>3, <2>4, <2>5, <2>6, <2>7, <2>8, <2>9
             DEF WorkerNext
  <1>14. CASE UNCHANGED vars
    BY <1>14 DEF vars
  <1> QED
    BY <1>1, <1>2, <1>3, <1>4, <1>5, <1>6, <1>7, <1>8, <1>9, <1>10, <1>11, <1>12,
       <1>13, <1>14 DEF Next, Call, Continue

\* When every joiner stops the executor first, a parked thread with a reason to
\* run always has a notification on its way.
THEOREM WakeupsArrive ==
    ASSUME EarlyJoins = {}
    PROVE  Spec => []NoLostWakeup
  <1>1. Init => NoLostWakeup
    BY DEF Init, NoLostWakeup
  <1>2. IInv /\ NoLostWakeup /\ [Next]_vars => NoLostWakeup'
    BY WakeupStep
  <1> QED  BY <1>1, <1>2, Invariance, PTL DEF Spec

-----------------------------------------------------------------------------
(* Ids in flight. *)

\* Wire identity does not depend on which of the two ids was there first.
LEMMA SameIsSymmetric ==
    ASSUME NEW v, NEW w PROVE Same(v, w) <=> Same(w, v)
  BY DEF Same, SameRequestId, IsInteger

\* Every step, a splice out of the middle of the list included, keeps the ids apart.
LEMMA DistinctStep ==
    IInv /\ InFlightIdsDistinct /\ [Next]_vars => InFlightIdsDistinct'
  <1> SUFFICES ASSUME IInv, InFlightIdsDistinct, [Next]_vars PROVE InFlightIdsDistinct'
    OBVIOUS
  <1> USE DEF InFlightIdsDistinct
  <1>1. pending \in Seq(Work) /\ active \in Work \cup {None}
    BY DEF IInv, TypeOK
  <1>2. ASSUME NEW t \in Threads, NEW w \in Work, Enqueue(t, w), pending' = Append(pending, w),
               ~DuplicateId(w)
        PROVE  InFlightIdsDistinct'
    <2>1. active' = active
      BY <1>2 DEF Enqueue
    <2>2. /\ Len(pending') = Len(pending) + 1
          /\ pending'[Len(pending) + 1] = w
          /\ \A i \in 1..Len(pending) : pending'[i] = pending[i]
      BY <1>1, <1>2
    <2>3. \A i \in 1..Len(pending) : ~Same(pending[i], w) /\ ~Same(w, pending[i])
      BY <1>2, SameIsSymmetric DEF DuplicateId
    <2>4. active # None => ~Same(active, w)
      BY <1>2 DEF DuplicateId
    <2>5. ASSUME NEW i \in 1..Len(pending'), NEW j \in 1..Len(pending'), i # j
          PROVE  ~Same(pending'[i], pending'[j])
      <3>1. CASE i = Len(pending) + 1
        BY <1>1, <2>2, <2>3, <2>5, <3>1
      <3>2. CASE j = Len(pending) + 1
        BY <1>1, <2>2, <2>3, <2>5, <3>2
      <3>3. CASE i # Len(pending) + 1 /\ j # Len(pending) + 1
        <4>1. i \in 1..Len(pending) /\ j \in 1..Len(pending)
          BY <1>1, <2>2, <3>3
        <4> QED  BY <2>2, <2>5, <4>1
      <3> QED  BY <3>1, <3>2, <3>3
    <2>6. ASSUME active # None, NEW i \in 1..Len(pending')
          PROVE  ~Same(active, pending'[i])
      <3>1. i \in 1..Len(pending) \/ i = Len(pending) + 1
        BY <1>1, <2>2
      <3> QED  BY <2>2, <2>4, <2>6, <3>1
    <2>7. \A i, j \in 1..Len(pending') : i # j => ~Same(pending'[i], pending'[j])
      BY <2>5
    <2>8. active # None => \A i \in 1..Len(pending') : ~Same(active, pending'[i])
      BY <2>6
    <2> QED  BY <2>1, <2>7, <2>8 DEF Same
  <1>3. ASSUME NEW i \in 1..Len(pending), pending' = RemoveAt(pending, i), active' = active
        PROVE  InFlightIdsDistinct'
    <2> DEFINE From(j) == IF j < i THEN j ELSE j + 1
    <2>1. /\ Len(pending') = Len(pending) - 1
          /\ \A j \in 1..(Len(pending) - 1) : pending'[j] = pending[From(j)]
      BY <1>1, <1>3, RemoveAtElements
    <2>2. \A j \in 1..(Len(pending) - 1) : From(j) \in 1..Len(pending)
      BY <1>1
    <2>3. \A j, k \in 1..(Len(pending) - 1) : j # k => From(j) # From(k)
      BY <1>1
    <2> HIDE DEF From
    <2>4. \A j, k \in 1..Len(pending') : j # k => ~Same(pending'[j], pending'[k])
      BY <2>1, <2>2, <2>3
    <2>5. active # None => \A j \in 1..Len(pending') : ~Same(active, pending'[j])
      BY <2>1, <2>2
    <2> QED  BY <1>3, <2>4, <2>5 DEF Same
  <1>4. CASE WorkerTake
    <2>1. /\ pending # <<>>
          /\ active' = pending[1]
          /\ pending' = Tail(pending)
      BY <1>1, <1>4 DEF WorkerTake
    <2>2. /\ Len(pending') = Len(pending) - 1
          /\ \A j \in 1..(Len(pending) - 1) : pending'[j] = pending[j + 1]
      BY <1>1, <2>1
    <2>3. \A j \in 1..(Len(pending) - 1) : j + 1 \in 1..Len(pending) /\ j + 1 # 1
      BY <1>1
    <2>4. 1 \in 1..Len(pending)
      BY <1>1, <2>1
    <2>5. \A j, k \in 1..Len(pending') : j # k => ~Same(pending'[j], pending'[k])
      BY <1>1, <2>2, <2>3
    <2>6. \A j \in 1..Len(pending') : ~Same(pending[1], pending'[j])
      BY <2>2, <2>3, <2>4
    <2> QED  BY <2>1, <2>5, <2>6 DEF Same
  <1>5. ASSUME pending' = <<>> PROVE InFlightIdsDistinct'
    BY <1>5
  <1>6. ASSUME pending' = pending, active' = active \/ active' = None
        PROVE  InFlightIdsDistinct'
    BY <1>6 DEF Same
  <1>7. ASSUME NEW t \in Threads, Call(t) \/ Continue(t) \/ TimeOut(t) \/ WakeSpuriously(t)
        PROVE  InFlightIdsDistinct'
    <2>1. ASSUME NEW w \in Work, Enqueue(t, w) PROVE InFlightIdsDistinct'
      <3>1. CASE EnqueueAnswer(w) = "admitted"
        BY <1>2, <2>1, <3>1 DEF Enqueue, EnqueueAnswer
      <3>2. CASE EnqueueAnswer(w) # "admitted"
        BY <1>6, <2>1, <3>2 DEF Enqueue
      <3> QED  BY <3>1, <3>2
    <2>2. ASSUME NEW w \in Work, Cancel(t, IdOf[w]) PROVE InFlightIdsDistinct'
      BY <1>3, <1>6, <2>2 DEF Cancel
    <2>3. CASE Stop(t)
      BY <1>5, <2>3 DEF Stop, StopWith
    <2>4. CASE BeginWait(t) \/ Continue(t) \/ TimeOut(t) \/ WakeSpuriously(t)
      BY <1>6, <2>4 DEF BeginWait, Continue, NotifyOne, NotifyAll, RequestStop, RequestStopOf, Unwind,
           CheckFinished, Join, TimeOut, WakeSpuriously
    <2> QED  BY <1>7, <2>1, <2>2, <2>3, <2>4 DEF Call
  <1>8. CASE WorkerNext /\ ~WorkerTake
    BY <1>6, <1>8 DEF WorkerNext, WorkerStart, WorkerPark, CallReturns, WorkerClearActive,
         WorkerRelease, WorkerBreak, WorkerFinish, WorkerAnnounce
  <1>9. CASE UNCHANGED vars
    BY <1>6, <1>9 DEF vars
  <1> QED  BY <1>4, <1>7, <1>8, <1>9 DEF Next

\* A cancellation by id means at most one invocation in flight.
THEOREM IdsDistinct == Spec => []InFlightIdsDistinct
  <1>1. Init => InFlightIdsDistinct
    BY DEF Init, InFlightIdsDistinct
  <1> QED  BY <1>1, DistinctStep, Invariance, PTL DEF Spec

-----------------------------------------------------------------------------
(* A stop finds the active invocation. *)

\* No step loses the stop source of the invocation that a stop found active.
LEMMA ReachStep == IInv /\ StopReachesActive /\ [Next]_vars => StopReachesActive'
  <1> SUFFICES ASSUME IInv, StopReachesActive, [Next]_vars PROVE StopReachesActive'
    OBVIOUS
  <1> USE DEF IInv, TypeOK, StopReachesActive, workerVars, callVars, history
  <1>1. ASSUME NEW t \in Threads, NEW w \in Work, Cancel(t, IdOf[w])
        PROVE  StopReachesActive'
    <2>1. target[t] = None
      BY <1>1 DEF Cancel, CanCall, TargetShape
    <2>2. \A u \in Threads : u # t => target'[u] = target[u]
      BY <1>1 DEF Cancel
    <2> QED  BY <1>1, <2>1, <2>2 DEF Cancel
  <1>2. ASSUME NEW t \in Threads, Stop(t) PROVE StopReachesActive'
    BY <1>2 DEF Stop, StopWith
  <1>3. ASSUME NEW t \in Threads, RequestStop(t) PROVE StopReachesActive'
    BY <1>3 DEF RequestStop, RequestStopOf
  <1>4. ASSUME NEW t \in Threads,
               (\E w \in Work : Enqueue(t, w)) \/ BeginWait(t)
               \/ (Continue(t) /\ ~RequestStop(t)) \/ TimeOut(t) \/ WakeSpuriously(t)
        PROVE  StopReachesActive'
    <2>1. UNCHANGED <<active, stopping, target, stopRequested>>
      BY <1>4 DEF Enqueue, BeginWait, Continue, NotifyOne, NotifyAll, Unwind,
           CheckFinished, Join, TimeOut, WakeSpuriously
    <2> QED  BY <2>1
  <1>5. CASE WorkerTake
    BY <1>5 DEF WorkerTake
  <1>6. CASE WorkerNext /\ ~WorkerTake
    BY <1>6 DEF WorkerNext, WorkerStart, WorkerPark, CallReturns, WorkerClearActive,
         WorkerRelease, WorkerBreak, WorkerFinish, WorkerAnnounce
  <1>7. CASE UNCHANGED vars
    BY <1>7 DEF vars
  <1> QED  BY <1>1, <1>2, <1>3, <1>4, <1>5, <1>6, <1>7 DEF Next, Call, Continue

\* The invocation active at a stop has its token set, or is about to.
THEOREM StopIsNotMissed == Spec => []StopReachesActive
  <1>1. Init => StopReachesActive
    BY DEF Init, StopReachesActive
  <1> QED  BY <1>1, ReachStep, Invariance, PTL DEF Spec

-----------------------------------------------------------------------------
(* Refinement. *)

\* Every step of the executor is a step of the serial queue or leaves it as it was.
LEMMA StepRefines == IInv /\ IInv' /\ [Next]_vars => [Promise!Next]_(Promise!vars)
  <1> SUFFICES ASSUME IInv, IInv', [Next]_vars PROVE [Promise!Next]_(Promise!vars)
    OBVIOUS
  <1> USE DEF IInv, TypeOK, Admitted, Promise!vars
  <1>1. ASSUME NEW t \in Threads, NEW w \in Work, Enqueue(t, w)
        PROVE  [Promise!Next]_(Promise!vars)
    <2>1. CASE EnqueueAnswer(w) = "admitted"
      <3>1. /\ ~stopping /\ Len(pending) < MaxPending /\ w \notin Admitted
            /\ pending' = Append(pending, w)
            /\ UNCHANGED <<active, stopping>>
        BY <1>1, <2>1, MaxPendingAssumption DEF Enqueue, EnqueueAnswer
      <3>2. Admitted' = Admitted \cup {w}
        BY <1>1, <2>1 DEF Enqueue
      <3>3. Promise!Admit(w)
        BY <3>1, <3>2 DEF Promise!Admit
      <3> QED  BY <3>3 DEF Promise!Next
    <2>2. CASE EnqueueAnswer(w) # "admitted"
      <3>1. Admitted' = Admitted
        BY <1>1, <2>2 DEF Enqueue
      <3> QED  BY <1>1, <2>2, <3>1 DEF Enqueue
    <2> QED  BY <2>1, <2>2
  <1>2. ASSUME NEW t \in Threads, NEW w \in Work, Cancel(t, IdOf[w])
        PROVE  [Promise!Next]_(Promise!vars)
    <2>1. UNCHANGED <<active, stopping, verdict>>
      BY <1>2 DEF Cancel
    <2>2. CASE pending' = pending
      BY <2>1, <2>2
    <2>3. CASE pending' # pending
      <3>1. PICK i \in 1..Len(pending) : pending' = RemoveAt(pending, i)
        BY <1>2, <2>3 DEF Cancel
      <3>2. Promise!Withdraw(i)
        BY <2>1, <3>1 DEF Promise!Withdraw, Promise!RemoveAt, RemoveAt
      <3> QED  BY <3>2 DEF Promise!Next
    <2> QED  BY <2>2, <2>3
  <1>3. ASSUME NEW t \in Threads, Stop(t) PROVE Promise!Next
    <2>1. Promise!Close
      BY <1>3 DEF Stop, StopWith, Promise!Close
    <2> QED  BY <2>1 DEF Promise!Next
  <1>4. ASSUME NEW t \in Threads,
               BeginWait(t) \/ Continue(t) \/ TimeOut(t) \/ WakeSpuriously(t)
        PROVE  UNCHANGED <<pending, active, verdict, stopping>>
    BY <1>4 DEF BeginWait, Continue, NotifyOne, NotifyAll, RequestStop, RequestStopOf, Unwind,
         CheckFinished, Join, TimeOut, WakeSpuriously
  <1>5. CASE WorkerTake
    <2>1. Promise!Begin
      BY <1>5 DEF WorkerTake, LoopShape, Promise!Begin
    <2> QED  BY <2>1 DEF Promise!Next
  <1>6. CASE WorkerClearActive
    <2>1. Promise!End
      BY <1>6, NoneAssumption DEF WorkerClearActive, LoopShape, Promise!End
    <2> QED  BY <2>1 DEF Promise!Next
  <1>7. CASE WorkerNext /\ ~WorkerTake /\ ~WorkerClearActive
    BY <1>7 DEF WorkerNext, WorkerStart, WorkerPark, CallReturns, WorkerRelease,
         WorkerBreak, WorkerFinish, WorkerAnnounce
  <1>8. CASE UNCHANGED vars
    BY <1>8 DEF vars
  <1> QED  BY <1>1, <1>2, <1>3, <1>4, <1>5, <1>6, <1>7, <1>8 DEF Next, Call

\* owned_executor implements the serial queue: bounded, in order of admission,
\* one at a time, each at most once, and nothing begins after it is closed.
THEOREM Refinement == Spec => ImplementsQueue
  <1>1. Init => Promise!Init
    BY DEF Init, Promise!Init, Admitted
  <1>2. IInv /\ IInv' /\ [Next]_vars => [Promise!Next]_(Promise!vars)
    BY StepRefines
  <1> QED  BY <1>1, <1>2, Invariance, PTL DEF Spec, ImplementsQueue, Promise!Spec

-----------------------------------------------------------------------------
(* Captured state. *)

\* Invocations that enqueue has seen. Every place for captures holds only such.
Submitted == {w \in Work : verdict[w] # "none"}

\* An invocation is pending once, and not while the worker has it.
HomeShape ==
    /\ \A i, j \in 1..Len(pending) : i # j => pending[i] # pending[j]
    /\ current \notin ToSet(pending)
    /\ ToSet(pending) \cup released \cup ({current} \ {None}) \subseteq Submitted
    /\ \A t \in Threads : held[t] \subseteq Submitted

\* The lists keep their entries apart.
LEMMA DistinctEntries ==
    ASSUME TypeOK, LoopShape, HomeShape, [Next]_vars
    PROVE  (\A i, j \in 1..Len(pending) : i # j => pending[i] # pending[j])'
  <1> DEFINE Goal == \A i, j \in 1..Len(pending') : i # j => pending'[i] # pending'[j]
  <1> SUFFICES Goal
    OBVIOUS
  <1>t. pending \in Seq(Work)
    BY DEF TypeOK
  <1>u. ASSUME pending' = pending \/ pending' = <<>> PROVE Goal
    BY <1>u DEF HomeShape
  <1>1. ASSUME NEW t \in Threads, NEW w \in Work, Enqueue(t, w) PROVE Goal
    <2>1. CASE pending' = Append(pending, w)
      <3>1. \A i \in 1..Len(pending) : pending[i] # w
        BY <1>1, <1>t DEF Enqueue, HomeShape, Submitted, ToSet
      <3>2. /\ Len(pending') = Len(pending) + 1 /\ Len(pending) \in Nat
            /\ \A i \in 1..Len(pending') :
                 pending'[i] = IF i = Len(pending) + 1 THEN w ELSE pending[i]
        BY <1>t, <2>1
      <3>3. SUFFICES ASSUME NEW i \in 1..Len(pending'), NEW j \in 1..Len(pending'), i # j
                     PROVE  pending'[i] # pending'[j]
        OBVIOUS
      <3> QED  BY <3>1, <3>2, <3>3 DEF HomeShape
    <2> QED  BY <1>1, <1>u, <2>1 DEF Enqueue
  <1>2. ASSUME NEW t \in Threads, NEW w \in Work, Cancel(t, IdOf[w]) PROVE Goal
    <2>1. ASSUME NEW i \in 1..Len(pending), pending' = RemoveAt(pending, i) PROVE Goal
      <3>1. /\ Len(pending') = Len(pending) - 1 /\ Len(pending) \in Nat
            /\ \A j \in 1..Len(pending') : pending'[j] = pending[IF j < i THEN j ELSE j + 1]
        <4>1. /\ Len(RemoveAt(pending, i)) = Len(pending) - 1
              /\ \A j \in 1..(Len(pending) - 1) :
                   RemoveAt(pending, i)[j] = pending[IF j < i THEN j ELSE j + 1]
          BY <1>t, RemoveAtElements
        <4>2. Len(pending) \in Nat
          BY <1>t
        <4> QED  BY <2>1, <4>1, <4>2
      <3>2. SUFFICES ASSUME NEW j \in 1..Len(pending'), NEW k \in 1..Len(pending'), j # k
                     PROVE  pending'[j] # pending'[k]
        OBVIOUS
      <3> DEFINE from(l) == IF l < i THEN l ELSE l + 1
      <3>3. /\ from(j) \in 1..Len(pending) /\ from(k) \in 1..Len(pending)
            /\ from(j) # from(k)
        BY <3>1, <3>2
      <3>4. pending'[j] = pending[from(j)] /\ pending'[k] = pending[from(k)]
        BY <3>1
      <3> HIDE DEF from
      <3> QED  BY <3>3, <3>4 DEF HomeShape
    <2> QED  BY <1>2, <1>u, <2>1 DEF Cancel
  <1>3. CASE WorkerTake
    <2>1. /\ Len(pending') = Len(pending) - 1 /\ Len(pending) \in Nat
          /\ \A i \in 1..Len(pending') : pending'[i] = pending[i + 1]
      BY <1>3, <1>t DEF WorkerTake
    <2> QED  BY <2>1 DEF HomeShape
  <1>4. ASSUME NEW t \in Threads, Stop(t) PROVE Goal
    BY <1>4, <1>u DEF Stop, StopWith
  <1>5. ASSUME NEW t \in Threads,
               BeginWait(t) \/ Continue(t) \/ TimeOut(t) \/ WakeSpuriously(t)
        PROVE  Goal
    BY <1>5, <1>u DEF BeginWait, Continue, NotifyOne, NotifyAll, RequestStop, RequestStopOf,
         Unwind, CheckFinished, Join, TimeOut, WakeSpuriously
  <1>6. CASE WorkerNext /\ ~WorkerTake
    BY <1>6, <1>u DEF WorkerNext, WorkerStart, WorkerPark, CallReturns, WorkerClearActive,
         WorkerRelease, WorkerBreak, WorkerFinish, WorkerAnnounce
  <1>7. CASE UNCHANGED vars
    BY <1>7, <1>u DEF vars
  <1> HIDE DEF Goal
  <1> QED  BY <1>1, <1>2, <1>3, <1>4, <1>5, <1>6, <1>7 DEF Next, Call

\* Every action moves captures from one place to the next, or destroys what its own call
\* holds.
LEMMA CapturesStep ==
    ASSUME TypeOK, LoopShape, HomeShape, CapturesOutliveTheirCall, [Next]_vars
    PROVE  HomeShape' /\ CapturesOutliveTheirCall'
  <1> DEFINE Seat == current \notin ToSet(pending)
             Seen == /\ ToSet(pending) \cup released \cup ({current} \ {None}) \subseteq Submitted
                     /\ \A t \in Threads : held[t] \subseteq Submitted
             Safe == /\ released \cap (ToSet(pending) \cup {current}) = {}
                     /\ \A t \in Threads :
                          held[t] \cap (released \cup ToSet(pending) \cup {current}) = {}
                     /\ \A t, u \in Threads : t # u => held[t] \cap held[u] = {}
             Goal == Seat' /\ Seen' /\ Safe'
  <1>t. /\ pending \in Seq(Work) /\ held \in [Threads -> SUBSET Work]
        /\ verdict \in [Work -> Verdicts] /\ current \in Work \cup {None}
        /\ released \subseteq Work
    BY DEF TypeOK
  <1>h. Seat /\ Seen /\ Safe
    BY DEF HomeShape, CapturesOutliveTheirCall
  <1>n. ToSet(<<>>) = {}
    BY DEF ToSet
  <1>w. None \notin ToSet(pending) /\ None \notin released /\ \A t \in Threads : None \notin held[t]
    BY <1>t, NoneAssumption DEF ToSet
  <1>k. ASSUME UNCHANGED <<pending, held, released, current, verdict>> PROVE Goal
    BY <1>h, <1>k DEF Submitted
  <1>s. verdict' = verdict => Submitted' = Submitted
    BY DEF Submitted
  <1>1. ASSUME NEW t \in Threads, NEW w \in Work, Enqueue(t, w) PROVE Goal
    <2>1. EnqueueAnswer(w) # "none"
      BY DEF EnqueueAnswer
    <2>2. Submitted' = Submitted \cup {w} /\ w \notin Submitted
      BY <1>1, <1>t, <2>1 DEF Enqueue, Submitted
    <2>3. UNCHANGED <<released, current>>
      BY <1>1 DEF Enqueue, workerVars
    <2>4. w # None /\ w \notin ToSet(pending) \cup released \cup {current}
            /\ \A u \in Threads : w \notin held[u]
      BY <1>h, <2>2, NoneAssumption
    <2>5. CASE pending' = Append(pending, w) /\ UNCHANGED held
      <3>1. ToSet(pending') = ToSet(pending) \cup {w}
        BY <1>t, <2>5, AppendSet
      <3> QED  BY <1>h, <1>w, <2>2, <2>3, <2>4, <2>5, <3>1
    <2>6. CASE held' = [held EXCEPT ![t] = {w}] /\ UNCHANGED pending
      <3>1. \A u \in Threads : held'[u] = IF u = t THEN {w} ELSE held[u]
        BY <1>t, <2>6
      <3> QED  BY <1>h, <1>w, <2>2, <2>3, <2>4, <2>6, <3>1
    <2> QED  BY <1>1, <2>5, <2>6 DEF Enqueue
  <1>2. ASSUME NEW t \in Threads, NEW w \in Work, Cancel(t, IdOf[w]) PROVE Goal
    <2>1. UNCHANGED <<released, current, verdict>>
      BY <1>2 DEF Cancel, workerVars
    <2>2. CASE UNCHANGED <<pending, held>>
      BY <1>k, <2>1, <2>2
    <2>3. ASSUME NEW i \in 1..Len(pending), pending' = RemoveAt(pending, i),
                 held' = [held EXCEPT ![t] = {pending[i]}]
          PROVE  Goal
      <3>1. ToSet(pending) = {pending[i]} \cup ToSet(pending') /\ pending[i] \notin ToSet(pending')
        BY <1>t, <2>3, RemoveSet DEF HomeShape
      <3>2. \A u \in Threads : held'[u] = IF u = t THEN {pending[i]} ELSE held[u]
        BY <1>t, <2>3
      <3> QED  BY <1>h, <1>w, <1>s, <2>1, <3>1, <3>2
    <2> QED  BY <1>2, <2>2, <2>3 DEF Cancel
  <1>3. ASSUME NEW t \in Threads, Stop(t) PROVE Goal
    <2>1. /\ ToSet(pending') = {} /\ held' = [held EXCEPT ![t] = ToSet(pending)]
          /\ UNCHANGED <<released, current, verdict>>
      BY <1>3, <1>n DEF Stop, StopWith, workerVars
    <2>2. \A u \in Threads : held'[u] = IF u = t THEN ToSet(pending) ELSE held[u]
      BY <1>t, <2>1
    <2> QED  BY <1>h, <1>w, <1>s, <2>1, <2>2
  <1>4. ASSUME NEW t \in Threads, Unwind(t) PROVE Goal
    <2>1. /\ released' = released \cup held[t] /\ held' = [held EXCEPT ![t] = {}]
          /\ UNCHANGED <<pending, current, verdict>>
      BY <1>4 DEF Unwind, workerVars
    <2>2. \A u \in Threads : held'[u] = IF u = t THEN {} ELSE held[u]
      BY <1>t, <2>1
    <2> QED  BY <1>h, <1>s, <2>1, <2>2
  <1>5. ASSUME WorkerTake PROVE Goal
    <2>1. /\ ToSet(pending) = {current'} \cup ToSet(pending') /\ current' \notin ToSet(pending')
          /\ UNCHANGED <<released, held, verdict>>
      BY <1>5, <1>t, TailSet DEF WorkerTake, callVars, HomeShape
    <2>2. current = None
      BY <1>5 DEF WorkerTake, LoopShape
    <2> QED  BY <1>h, <1>s, <2>1, <2>2
  <1>6. ASSUME WorkerRelease PROVE Goal
    <2>1. /\ released' = released \cup {current} /\ current' = None /\ current \in Work
          /\ UNCHANGED <<pending, held, verdict>>
      BY <1>6 DEF WorkerRelease, LoopShape, callVars
    <2>2. current # None
      BY <2>1, NoneAssumption
    <2> QED  BY <1>h, <1>w, <1>s, <2>1, <2>2
  <1>7. ASSUME NEW t \in Threads,
               \/ BeginWait(t) \/ NotifyOne(t) \/ NotifyAll(t) \/ RequestStop(t)
               \/ CheckFinished(t) \/ Join(t) \/ TimeOut(t) \/ WakeSpuriously(t)
        PROVE  Goal
    <2>1. UNCHANGED <<pending, held, released, current, verdict>>
      BY <1>7 DEF BeginWait, NotifyOne, NotifyAll, RequestStop, RequestStopOf, CheckFinished,
           Join, TimeOut, WakeSpuriously, workerVars, callVars
    <2> QED  BY <1>k, <2>1
  <1>8. ASSUME WorkerNext /\ ~WorkerTake /\ ~WorkerRelease PROVE Goal
    <2>1. UNCHANGED <<pending, held, released, current, verdict>>
      BY <1>8 DEF WorkerNext, WorkerStart, WorkerPark, CallReturns, WorkerClearActive,
           WorkerBreak, WorkerFinish, WorkerAnnounce, workerVars, callVars
    <2> QED  BY <1>k, <2>1
  <1>9. ASSUME UNCHANGED vars PROVE Goal
    <2>1. UNCHANGED <<pending, held, released, current, verdict>>
      BY <1>9 DEF vars, workerVars, callVars
    <2> QED  BY <1>k, <2>1
  <1>g. Goal => HomeShape' /\ CapturesOutliveTheirCall'
    <2>1. LoopShape' /\ TypeOK'
      BY LoopStep, TypeStep
    <2>2. active' \in {current', None} /\ None \notin released'
      BY <2>1, NoneAssumption DEF LoopShape, TypeOK
    <2>3. Goal => CapturesOutliveTheirCall'
      BY <2>2 DEF CapturesOutliveTheirCall
    <2>4. Goal => HomeShape'
      BY DistinctEntries DEF HomeShape
    <2> QED  BY <2>3, <2>4
  <1>10. Goal
    <2> HIDE DEF Goal
    <2> QED
      BY <1>1, <1>2, <1>3, <1>4, <1>5, <1>6, <1>7, <1>8, <1>9 DEF Next, Call, Continue
  <1> QED  BY <1>g, <1>10

(* What an invocation has captured is destroyed once, by the worker after the call *)
(* or by the call that took it back or was refused it, and never while it may yet   *)
(* be called.                                                                       *)
THEOREM CapturesAreSafe == Spec => []CapturesOutliveTheirCall
  <1>1. Init => HomeShape /\ CapturesOutliveTheirCall
    <2> SUFFICES ASSUME Init PROVE HomeShape /\ CapturesOutliveTheirCall
      OBVIOUS
    <2>1. ToSet(pending) = {} /\ pending = <<>>
      BY DEF Init, ToSet
    <2> QED  BY <2>1 DEF Init, HomeShape, CapturesOutliveTheirCall
  <1>2. IInv /\ HomeShape /\ CapturesOutliveTheirCall /\ [Next]_vars
          => HomeShape' /\ CapturesOutliveTheirCall'
    BY CapturesStep DEF IInv
  <1> QED  BY <1>1, <1>2, Invariance, PTL DEF Spec
=============================================================================
