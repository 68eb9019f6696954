--------------------------- MODULE OwnedExecutor ---------------------------
(***************************************************************************)
(* synapse::detail::owned_executor: one worker thread, a bounded list of   *)
(* pending invocations, and a single condition variable on which the       *)
(* worker and every thread that joins it are parked.                       *)
(*                                                                         *)
(* A critical section of mutex_ is one step. What a call does after it has *)
(* left the mutex (notify, request_stop, destroy what it holds) is a step  *)
(* of its own, because other threads run in between. A callback and a      *)
(* destructor of captured state run on the worker and may call back in:    *)
(* Worker is a thread like the others while it is inside one.              *)
(***************************************************************************)
EXTENDS Naturals, FiniteSets, Sequences, SequencesExt, RequestId

CONSTANTS Work,           \* invocations the program ever submits
          IdOf,           \* the request id of each
          Callers,        \* application threads
          Worker,         \* the executor's thread
          None,           \* no invocation
          MaxPending,     \* max_pending_
          UntilStopped,   \* invocations that return only once asked to stop
          EarlyJoins      \* which of wait and wait_for are called before stop

ASSUME NoneAssumption == None \notin Work
ASSUME WorkerAssumption == Worker \notin Callers
ASSUME MaxPendingAssumption == MaxPending \in Nat
ASSUME JoinAssumption == EarlyJoins \subseteq {"wait", "wait_for"}

VARIABLES
    pending,        \* pending_
    active,         \* active_
    stopping,       \* stopping_
    finished,       \* finished_
    loop,           \* where run() is
    current,        \* run()'s local shared_ptr
    parked,         \* threads blocked on changed_
    op,             \* what each thread has still to do of its call
    target,         \* the stop source a call copied under the mutex
    held,           \* the work a call owns and destroys when it returns
    verdict,        \* what enqueue answered for each invocation
    asked,          \* history: invocations whose stop was asked for
    stopRequested,  \* invocations whose stop token is set
    released,       \* invocations whose captures are destroyed
    joined          \* history: threads whose wait has returned success

workerVars == <<loop, current>>
callVars == <<op, target, held>>
history == <<asked, joined>>
vars == <<pending, active, stopping, finished, workerVars, parked, callVars,
          verdict, stopRequested, released, history>>

Threads == Callers \cup {Worker}
Admitted == {w \in Work : verdict[w] = "admitted"}
Same(w, v) == SameRequestId(IdOf[w], IdOf[v])

\* max_pending 0 makes an inert executor: closed, finished and without a worker.
Init == /\ pending = <<>>
        /\ active = None
        /\ stopping = (MaxPending = 0)
        /\ finished = (MaxPending = 0)
        /\ loop = IF MaxPending = 0 THEN "exited" ELSE "born"
        /\ current = None
        /\ parked = {}
        /\ op = [t \in Threads |-> "idle"]
        /\ target = [t \in Threads |-> None]
        /\ held = [t \in Threads |-> {}]
        /\ verdict = [w \in Work |-> "none"]
        /\ asked = {}
        /\ stopRequested = {}
        /\ released = {}
        /\ joined = {}

\* A thread is free to call; the worker only from a callback or a destructor.
CanCall(t) == /\ op[t] = "idle"
              /\ t = Worker => loop \in {"calling", "releasing"}

Goto(t, step) == op' = [op EXCEPT ![t] = step]

-----------------------------------------------------------------------------
(* enqueue *)

\* Variant: the active invocation is not compared.
DuplicateIdPendingOnly(w) == \E i \in 1..Len(pending) : Same(pending[i], w)

DuplicateId(w) ==
    \/ active # None /\ Same(active, w)
    \/ \E i \in 1..Len(pending) : Same(pending[i], w)

\* The order of the tests decides which error the caller sees.
EnqueueAnswer(w) ==
    IF IdOf[w].form = "null" \/ stopping \/ DuplicateId(w) THEN "invalid_state"
    ELSE IF Len(pending) >= MaxPending THEN "resource_exhausted"
    ELSE "admitted"

\* The prepared work outlives the mutex: a rejected one is destroyed at return.
Enqueue(t, w) ==
    /\ CanCall(t)
    /\ verdict[w] = "none"
    /\ verdict' = [verdict EXCEPT ![w] = EnqueueAnswer(w)]
    /\ IF EnqueueAnswer(w) = "admitted"
       THEN /\ pending' = Append(pending, w)
            /\ Goto(t, "notify_one")
            /\ UNCHANGED held
       ELSE /\ held' = [held EXCEPT ![t] = {w}]
            /\ Goto(t, "unwind")
            /\ UNCHANGED pending
    /\ UNCHANGED <<active, stopping, finished, workerVars, parked, target,
                   stopRequested, released, history>>

\* Variant: nobody is notified.
NotifyOneMissing(t) ==
    /\ op[t] = "notify_one"
    /\ Goto(t, "idle")
    /\ UNCHANGED <<pending, active, stopping, finished, workerVars, parked, target, held,
                   verdict, stopRequested, released, history>>

\* One parked thread, whichever the implementation picks: worker or joiner.
NotifyOne(t) ==
    /\ op[t] = "notify_one"
    /\ IF parked = {} THEN UNCHANGED parked
       ELSE \E p \in parked : parked' = parked \ {p}
    /\ Goto(t, "idle")
    /\ UNCHANGED <<pending, active, stopping, finished, workerVars, target, held,
                   verdict, stopRequested, released, history>>

-----------------------------------------------------------------------------
(* cancel and stop *)

\* Active work is asked to stop; else the first pending match is spliced out.
Cancel(t, id) ==
    /\ CanCall(t)
    /\ \/ /\ active # None /\ SameRequestId(IdOf[active], id)
          /\ target' = [target EXCEPT ![t] = active]
          /\ asked' = asked \cup {active}
          /\ Goto(t, "request_stop")
          /\ UNCHANGED <<pending, held>>
       \/ /\ ~(active # None /\ SameRequestId(IdOf[active], id))
          /\ \E i \in 1..Len(pending) :
                /\ SameRequestId(IdOf[pending[i]], id)
                /\ \A j \in 1..(i-1) : ~SameRequestId(IdOf[pending[j]], id)
                /\ pending' = RemoveAt(pending, i)
                /\ held' = [held EXCEPT ![t] = {pending[i]}]
          /\ Goto(t, "unwind")
          /\ UNCHANGED <<target, asked>>
    /\ UNCHANGED <<active, stopping, finished, workerVars, parked, verdict,
                   stopRequested, released, joined>>

StopWith(t, discarded, left, source) ==
    /\ CanCall(t)
    /\ stopping' = TRUE
    /\ held' = [held EXCEPT ![t] = discarded]
    /\ pending' = left
    /\ target' = [target EXCEPT ![t] = source]
    /\ asked' = asked \cup ({active} \ {None})
    /\ Goto(t, "notify_all")
    /\ UNCHANGED <<active, finished, workerVars, parked, verdict, stopRequested,
                   released, joined>>

\* Variants: pending_ is copied and not swapped, or the active invocation's stop
\* source is not taken.
StopCopies(t) == StopWith(t, ToSet(pending), pending, active)
StopForgetsActive(t) == StopWith(t, ToSet(pending), <<>>, None)

\* The discarded invocations are destroyed when the call returns.
Stop(t) == StopWith(t, ToSet(pending), <<>>, active)

NotifyAll(t) ==
    /\ op[t] = "notify_all"
    /\ parked' = {}
    /\ Goto(t, "request_stop")
    /\ UNCHANGED <<pending, active, stopping, finished, workerVars, target, held,
                   verdict, stopRequested, released, history>>

RequestStopOf(t, source) ==
    /\ op[t] = "request_stop"
    /\ stopRequested' = stopRequested \cup source
    /\ target' = [target EXCEPT ![t] = None]
    /\ Goto(t, "unwind")
    /\ UNCHANGED <<pending, active, stopping, finished, workerVars, parked, held,
                   verdict, released, history>>

\* Variant: active_ is read again.
RequestStopRereads(t) == RequestStopOf(t, {active} \ {None})

\* The copied source: the worker may be at another invocation by now.
RequestStop(t) == RequestStopOf(t, {target[t]} \ {None})

\* The call returns and its locals go: captures are destroyed outside the mutex.
Unwind(t) ==
    /\ op[t] = "unwind"
    /\ released' = released \cup held[t]
    /\ held' = [held EXCEPT ![t] = {}]
    /\ Goto(t, "idle")
    /\ UNCHANGED <<pending, active, stopping, finished, workerVars, parked, target,
                   verdict, stopRequested, history>>

-----------------------------------------------------------------------------
(* wait, wait_for and join *)

\* worker_id_ is set by run()'s first critical section.
OnWorker(t) == ~finished /\ t = Worker /\ loop # "born"

\* On the worker both calls return an error at once and change nothing.
BeginWait(t) ==
    /\ CanCall(t)
    /\ ~OnWorker(t)
    /\ \E call \in {"wait", "wait_for"} : (stopping \/ call \in EarlyJoins) /\ Goto(t, call)
    /\ UNCHANGED <<pending, active, stopping, finished, workerVars, parked, target,
                   held, verdict, stopRequested, released, history>>

CheckFinished(t) ==
    /\ op[t] \in {"wait", "wait_for"}
    /\ t \notin parked
    /\ IF finished
       THEN Goto(t, "join") /\ UNCHANGED parked
       ELSE parked' = parked \cup {t} /\ UNCHANGED op
    /\ UNCHANGED <<pending, active, stopping, finished, workerVars, target, held,
                   verdict, stopRequested, released, history>>

\* The deadline of wait_for passes: the predicate has the last word.
TimeOut(t) ==
    /\ op[t] = "wait_for"
    /\ parked' = parked \ {t}
    /\ Goto(t, IF finished THEN "join" ELSE "idle")
    /\ UNCHANGED <<pending, active, stopping, finished, workerVars, target, held,
                   verdict, stopRequested, released, history>>

\* Variant: the thread is not joined.
JoinMissing(t) ==
    /\ op[t] = "join"
    /\ joined' = joined \cup {t}
    /\ Goto(t, "idle")
    /\ UNCHANGED <<pending, active, stopping, finished, workerVars, parked, target,
                   held, verdict, stopRequested, released, asked>>

\* worker_.join() returns when run() has; without a worker it is not joinable.
Join(t) ==
    /\ op[t] = "join"
    /\ loop = "exited"
    /\ joined' = joined \cup {t}
    /\ Goto(t, "idle")
    /\ UNCHANGED <<pending, active, stopping, finished, workerVars, parked, target,
                   held, verdict, stopRequested, released, asked>>

-----------------------------------------------------------------------------
(* run *)

Enter(step) == loop' = step

WorkerStart ==
    /\ loop = "born"
    /\ Enter("waiting")
    /\ UNCHANGED <<pending, active, stopping, finished, current, parked, callVars,
                   verdict, stopRequested, released, history>>

WorkerPark ==
    /\ loop = "waiting" /\ Worker \notin parked
    /\ ~stopping /\ pending = <<>>
    /\ parked' = parked \cup {Worker}
    /\ UNCHANGED <<pending, active, stopping, finished, workerVars, callVars,
                   verdict, stopRequested, released, history>>

\* Variant: the newest invocation goes first.
WorkerTakeNewest ==
    /\ loop = "waiting" /\ Worker \notin parked
    /\ ~stopping /\ pending # <<>>
    /\ current' = Last(pending)
    /\ active' = Last(pending)
    /\ pending' = Front(pending)
    /\ Enter("calling")
    /\ UNCHANGED <<stopping, finished, parked, callVars, verdict, stopRequested,
                   released, history>>

WorkerTake ==
    /\ loop = "waiting" /\ Worker \notin parked
    /\ ~stopping /\ pending # <<>>
    /\ current' = Head(pending)
    /\ active' = Head(pending)
    /\ pending' = Tail(pending)
    /\ Enter("calling")
    /\ UNCHANGED <<stopping, finished, parked, callVars, verdict, stopRequested,
                   released, history>>

\* The callback returns or throws; either way the loop goes on.
CallReturns ==
    /\ loop = "calling"
    /\ op[Worker] = "idle"
    /\ current \in UntilStopped => current \in stopRequested
    /\ Enter("called")
    /\ UNCHANGED <<pending, active, stopping, finished, current, parked, callVars,
                   verdict, stopRequested, released, history>>

WorkerClearActive ==
    /\ loop = "called"
    /\ active' = None
    /\ Enter("releasing")
    /\ UNCHANGED <<pending, stopping, finished, current, parked, callVars, verdict,
                   stopRequested, released, history>>

\* current.reset(): the captures are destroyed, and may have called back in.
WorkerRelease ==
    /\ loop = "releasing"
    /\ op[Worker] = "idle"
    /\ released' = released \cup {current}
    /\ current' = None
    /\ Enter("waiting")
    /\ UNCHANGED <<pending, active, stopping, finished, parked, callVars, verdict,
                   stopRequested, history>>

WorkerBreak ==
    /\ loop = "waiting" /\ Worker \notin parked
    /\ stopping
    /\ Enter("leaving")
    /\ UNCHANGED <<pending, active, stopping, finished, current, parked, callVars,
                   verdict, stopRequested, released, history>>

WorkerFinish ==
    /\ loop = "leaving"
    /\ finished' = TRUE
    /\ Enter("announcing")
    /\ UNCHANGED <<pending, active, stopping, current, parked, callVars, verdict,
                   stopRequested, released, history>>

WorkerAnnounce ==
    /\ loop = "announcing"
    /\ parked' = {}
    /\ Enter("exited")
    /\ UNCHANGED <<pending, active, stopping, finished, current, callVars, verdict,
                   stopRequested, released, history>>

\* A condition variable may wake a thread nobody notified.
WakeSpuriously(t) ==
    /\ t \in parked
    /\ parked' = parked \ {t}
    /\ UNCHANGED <<pending, active, stopping, finished, workerVars, callVars,
                   verdict, stopRequested, released, history>>

-----------------------------------------------------------------------------

WorkerNext == \/ WorkerStart \/ WorkerPark \/ WorkerTake \/ CallReturns
              \/ WorkerClearActive \/ WorkerRelease \/ WorkerBreak
              \/ WorkerFinish \/ WorkerAnnounce

\* What a thread does once it is inside a call.
Continue(t) == \/ NotifyOne(t) \/ NotifyAll(t) \/ RequestStop(t) \/ Unwind(t)
               \/ CheckFinished(t) \/ Join(t)

Call(t) == \/ \E w \in Work : Enqueue(t, w)
           \/ \E w \in Work : Cancel(t, IdOf[w])
           \/ Stop(t)
           \/ BeginWait(t)

Next == \/ WorkerNext
        \/ \E t \in Threads : Call(t) \/ Continue(t) \/ TimeOut(t) \/ WakeSpuriously(t)

Spec == Init /\ [][Next]_vars

\* Runnable threads run. A callback or a destructor makes finitely many calls and
\* then returns, which is strong fairness because each call takes it away from
\* returning. A deadline passes. Nothing makes a thread call in or wake spuriously.
Fairness == /\ WF_vars(WorkerNext)
            /\ SF_vars(CallReturns \/ WorkerRelease)
            /\ \A t \in Threads : WF_vars(Continue(t)) /\ WF_vars(TimeOut(t))

FairSpec == Spec /\ Fairness

-----------------------------------------------------------------------------
(* Properties *)

OpSteps == {"idle", "notify_one", "notify_all", "request_stop", "unwind", "wait",
            "wait_for", "join"}
LoopSteps == {"born", "waiting", "calling", "called", "releasing", "leaving",
              "announcing", "exited"}
Verdicts == {"none", "admitted", "invalid_state", "resource_exhausted"}

(* The state owned_executor's members and its calls' locals may be in. *)
TypeOK ==
    /\ pending \in Seq(Work)
    /\ active \in Work \cup {None}
    /\ stopping \in BOOLEAN
    /\ finished \in BOOLEAN
    /\ loop \in LoopSteps
    /\ current \in Work \cup {None}
    /\ parked \subseteq Threads
    /\ op \in [Threads -> OpSteps]
    /\ target \in [Threads -> Work \cup {None}]
    /\ held \in [Threads -> SUBSET Work]
    /\ verdict \in [Work -> Verdicts]
    /\ asked \subseteq Work
    /\ stopRequested \subseteq Work
    /\ released \subseteq Work
    /\ joined \subseteq Threads

(* No two invocations in flight share a wire id, so that a cancellation means one *)
(* of them: enqueue compares with active_ and with all of pending_.              *)
InFlightIdsDistinct ==
    /\ \A i, j \in 1..Len(pending) : i # j => ~Same(pending[i], pending[j])
    /\ active # None => \A i \in 1..Len(pending) : ~Same(active, pending[i])

(* Once a wait has returned success nothing runs, waits or is kept alive by the *)
(* worker, and nothing ever will.                                               *)
JoinMeansQuiescent ==
    joined # {} => /\ stopping /\ finished /\ loop = "exited"
                   /\ pending = <<>> /\ active = None /\ current = None

(* A stop token is set only for an invocation that was active when some cancel or *)
(* stop looked, however late request_stop is called.                             *)
StopsOnlyWhatWasAsked == stopRequested \subseteq asked

(* The invocation that stop() finds active has its token set, or a thread inside *)
(* stop() is about to set it.                                                    *)
StopReachesActive ==
    stopping /\ active # None =>
        \/ active \in stopRequested
        \/ \E t \in Threads : target[t] = active

(* No captured state is destroyed while its callback may still run or start, and *)
(* none is destroyed by two owners.                                              *)
CapturesOutliveTheirCall ==
    /\ released \cap (ToSet(pending) \cup {current, active}) = {}
    /\ \A t \in Threads : held[t] \cap (released \cup ToSet(pending) \cup {current}) = {}
    /\ \A t, u \in Threads : t # u => held[t] \cap held[u] = {}

(* A parked thread that has a reason to run has somebody on the way to wake it. *)
NoLostWakeup ==
    /\ Worker \in parked /\ pending # <<>> => \E t \in Threads : op[t] = "notify_one"
    /\ Worker \in parked /\ stopping => \E t \in Threads : op[t] = "notify_all"
    /\ finished /\ parked # {} => loop = "announcing"

\* The promise of SerialQueue, kept by the executor.
Promise == INSTANCE SerialQueue WITH
    waiting <- pending, running <- active, admitted <- Admitted,
    closed <- stopping, Capacity <- MaxPending, UntilClosed <- UntilStopped

(* owned_executor implements the serial queue, step by step. *)
ImplementsQueue == Promise!Spec

(* Whatever waits is begun or taken back, and whatever runs ends, at the latest when *)
(* stop() asks it to.                                                               *)
ImplementsLiveQueue == Promise!Live

(* owned_executor.hpp:43, "wait_for() never stops work": while threads are in and *)
(* out of wait_for, whatever enqueue admitted still runs or is taken back.         *)
WaitingNeverStopsWork ==
    \A w \in Work : verdict[w] = "admitted" ~> w \in released

=============================================================================
