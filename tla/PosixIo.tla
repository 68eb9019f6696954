------------------------------ MODULE PosixIo ------------------------------
(***************************************************************************)
(* posix_stdio: poll on the endpoint and on a wake pipe per direction,     *)
(* level-triggered cancellation, and what the object borrows of the        *)
(* process: O_NONBLOCK of the endpoints and, for a write, the thread's     *)
(* SIGPIPE. A step is a system call and the code up to the next one.       *)
(*                                                                         *)
(* The reader and the writer are one thread each. A wake is asked for by   *)
(* request_stop, by cancel_pending or by the callback of a call's token.   *)
(***************************************************************************)
EXTENDS Naturals, FiniteSets

CONSTANTS Reader, Writer,
          Owners,        \* threads that call request_stop and cancel_pending
          WakeCapacity,  \* bytes that a wake pipe takes
          ShareOutput,   \* input and output are one open file description
          Environments   \* how a program may find its descriptors and its SIGPIPE

ASSUME CallersAssumption == Reader # Writer
ASSUME WakeAssumption == WakeCapacity \in Nat \ {0}
ASSUME EnvironmentsAssumption ==
    \A e \in Environments : e.pending => e.masked

Callers == {Reader, Writer}

VARIABLES life,      \* "closed" before open and after the destructor, "open"
          stopped,   \* state::stopped
          wake,      \* bytes in read_wake and write_wake
          nonblock,  \* open file descriptions with O_NONBLOCK set
          changed,   \* input_changed and output_changed, as the set of their callers
          pc, seen, how,       \* a call: where it is, what poll reported, how it ends
          token, callback,     \* its token, and the stop_callback registered on it
          waking,    \* directions each owner has still to wake
          masked, pending, before, killed,  \* SIGPIPE: blocked, pending, pending_before_,
                                            \* delivered
          found, ended         \* history: the process as it was; how the last calls ended

object == <<life, stopped, wake, nonblock, changed>>
call == <<pc, seen, how, token, callback>>
signal == <<masked, pending, before, killed>>
vars == <<object, call, waking, signal, found, ended>>

Description(c) == IF ShareOutput THEN Reader ELSE c

\* Descriptors may be nonblocking already, and SIGPIPE blocked or even pending.
Init ==
    /\ life = "closed" /\ stopped = FALSE /\ changed = {}
    /\ wake = [c \in Callers |-> 0]
    /\ found \in Environments
    /\ nonblock = found.nonblock /\ masked = found.masked /\ pending = found.pending
    /\ pc = [c \in Callers |-> "idle"]
    /\ seen = [c \in Callers |-> FALSE]
    /\ how = [c \in Callers |-> "done"]
    /\ token = [c \in Callers |-> FALSE]
    /\ callback = [c \in Callers |-> "none"]
    /\ waking = [o \in Owners |-> {}]
    /\ before = FALSE /\ killed = FALSE
    /\ ended = [c \in Callers |-> "done"]

Asked(c) == stopped \/ token[c]
Goto(c, step) == pc' = [pc EXCEPT ![c] = step]
Finish(c, result) == Goto(c, "leave") /\ how' = [how EXCEPT ![c] = result]

\* A full wake pipe is readable already.
Woken(c) == wake' = [wake EXCEPT ![c] = IF @ < WakeCapacity THEN @ + 1 ELSE @]

-----------------------------------------------------------------------------
(* open and the destructor *)

Unset == {c \in Callers : Description(c) \notin nonblock}

\* Both sets of flags are read before either is changed.
OpenSucceeds ==
    /\ life = "closed" /\ ~stopped
    /\ life' = "open"
    /\ changed' = Unset
    /\ nonblock' = nonblock \cup {Description(c) : c \in Unset}
    /\ UNCHANGED <<stopped, wake, call, waking, signal, found, ended>>

\* A failure anywhere destroys the state, which restores the flags it has set.
OpenFails == life = "closed" /\ UNCHANGED vars

\* The owner has joined both directions. The object is not opened again.
Destroy ==
    /\ life = "open"
    /\ \A c \in Callers : pc[c] = "idle"
    /\ \A o \in Owners : waking[o] = {}
    /\ life' = "closed" /\ stopped' = TRUE
    /\ changed' = {}
    /\ nonblock' = nonblock \ {Description(c) : c \in changed}
    /\ UNCHANGED <<wake, call, waking, signal, found, ended>>

-----------------------------------------------------------------------------
(* read_some and write_some *)

\* A token that is already requested runs its callback where it is registered.
Begin(c, requested) ==
    /\ life = "open" /\ pc[c] = "idle"
    /\ token' = [token EXCEPT ![c] = requested]
    /\ IF requested THEN Woken(c) /\ UNCHANGED callback
                    ELSE callback' = [callback EXCEPT ![c] = "armed"] /\ UNCHANGED wake
    /\ Goto(c, IF c = Writer THEN "guard" ELSE "look")
    /\ UNCHANGED <<life, stopped, nonblock, changed, seen, how, waking, signal,
                   found, ended>>

Guard ==
    /\ pc[Writer] = "guard"
    /\ \/ /\ masked' = TRUE /\ before' = pending
          /\ Goto(Writer, "look") /\ UNCHANGED how
       \/ Finish(Writer, "done") /\ UNCHANGED <<masked, before>>
    /\ UNCHANGED <<object, seen, token, callback, waking, pending, killed, found, ended>>

Look(c) ==
    /\ pc[c] = "look"
    /\ IF Asked(c) THEN Finish(c, "cancelled") ELSE Goto(c, "poll") /\ UNCHANGED how
    /\ UNCHANGED <<object, seen, token, callback, waking, signal, found, ended>>

\* The wake pipe is readable; the endpoint may be ready, hung up or in error, too.
PollWoken(c) ==
    /\ pc[c] = "poll" /\ wake[c] > 0
    /\ \E ready \in BOOLEAN : seen' = [seen EXCEPT ![c] = ready]
    /\ Goto(c, "drain")
    /\ UNCHANGED <<object, how, token, callback, waking, signal, found, ended>>

\* Only the endpoint is ready, which is up to the peer.
PollReady(c) ==
    /\ pc[c] = "poll" /\ wake[c] = 0
    /\ seen' = [seen EXCEPT ![c] = TRUE]
    /\ Goto(c, "recheck")
    /\ UNCHANGED <<object, how, token, callback, waking, signal, found, ended>>

\* EINTR looks again; another error ends the call.
PollFails(c) ==
    /\ pc[c] = "poll"
    /\ (Goto(c, "look") /\ UNCHANGED how) \/ Finish(c, "done")
    /\ UNCHANGED <<object, seen, token, callback, waking, signal, found, ended>>

\* Variant: after a drain the wait goes back to poll without a look.
DrainBlind(c) ==
    /\ pc[c] = "drain"
    /\ wake' = [wake EXCEPT ![c] = 0]
    /\ Goto(c, "poll")
    /\ UNCHANGED <<life, stopped, nonblock, changed, seen, how, token, callback, waking,
                   signal, found, ended>>

Drain(c) ==
    /\ pc[c] = "drain"
    /\ wake' = [wake EXCEPT ![c] = 0]
    /\ Goto(c, "recheck")
    /\ UNCHANGED <<life, stopped, nonblock, changed, seen, how, token, callback, waking,
                   signal, found, ended>>

\* Variant: a wake that finds nothing else ready is taken for a cancellation.
RecheckTrusting(c) ==
    /\ pc[c] = "recheck"
    /\ IF Asked(c) \/ ~seen[c] THEN Finish(c, "cancelled") ELSE Goto(c, "io") /\ UNCHANGED how
    /\ seen' = [seen EXCEPT ![c] = FALSE]
    /\ UNCHANGED <<object, token, callback, waking, signal, found, ended>>

\* A wake without a cause goes round again.
Recheck(c) ==
    /\ pc[c] = "recheck"
    /\ IF Asked(c) THEN Finish(c, "cancelled")
       ELSE Goto(c, IF seen[c] THEN "io" ELSE "look") /\ UNCHANGED how
    /\ seen' = [seen EXCEPT ![c] = FALSE]
    /\ UNCHANGED <<object, token, callback, waking, signal, found, ended>>

\* EINTR and EAGAIN, whatever poll said.
Retry(c) ==
    /\ pc[c] = "io"
    /\ Goto(c, "look")
    /\ UNCHANGED <<object, seen, how, token, callback, waking, signal, found, ended>>

\* Some bytes, perhaps the last there were or there was room for; the end; an error.
Transfer(c) ==
    /\ pc[c] = "io"
    /\ Finish(c, "done")
    /\ UNCHANGED <<object, seen, token, callback, waking, signal, found, ended>>

\* Variant: consume_new_signal takes a signal that was pending before the call, too.
WriteBrokenGreedy ==
    /\ pc[Writer] = "io"
    /\ pending' = FALSE
    /\ Finish(Writer, "done")
    /\ UNCHANGED <<object, seen, token, callback, waking, masked, before, killed,
                   found, ended>>

\* EPIPE raises the signal in this thread; consume_new_signal takes it back.
WriteBroken ==
    /\ pc[Writer] = "io"
    /\ pending' = before
    /\ Finish(Writer, "done")
    /\ UNCHANGED <<object, seen, token, callback, waking, masked, before, killed,
                   found, ended>>

\* The guard gives the mask back, which delivers what is pending, and the
\* stop_callback's destructor waits for a callback that is running.
Leave(c) ==
    /\ pc[c] = "leave" /\ callback[c] # "running"
    /\ callback' = [callback EXCEPT ![c] = "none"]
    /\ token' = [token EXCEPT ![c] = FALSE]
    /\ ended' = [ended EXCEPT ![c] = how[c]]
    /\ IF c = Writer
       THEN masked' = found.masked /\ killed' = (killed \/ (pending /\ ~found.masked))
       ELSE UNCHANGED <<masked, killed>>
    /\ Goto(c, "idle")
    /\ how' = [how EXCEPT ![c] = "done"]
    /\ before' = IF c = Writer THEN FALSE ELSE before
    /\ UNCHANGED <<object, seen, waking, pending, found>>

CallStep(c) ==
    \/ Look(c) \/ PollWoken(c) \/ Drain(c) \/ Recheck(c) \/ Retry(c)
    \/ Transfer(c) \/ Leave(c)
    \/ c = Writer /\ (Guard \/ WriteBroken)

-----------------------------------------------------------------------------
(* cancellation *)

RequestStop(o) ==
    /\ life = "open" /\ waking[o] = {}
    /\ stopped' = TRUE
    /\ waking' = [waking EXCEPT ![o] = Callers]
    /\ UNCHANGED <<life, wake, nonblock, changed, call, signal, found, ended>>

CancelPending(o) ==
    /\ life = "open" /\ waking[o] = {}
    /\ waking' = [waking EXCEPT ![o] = Callers]
    /\ UNCHANGED <<object, call, signal, found, ended>>

\* The reader is woken first.
Wake(o, c) ==
    /\ c \in waking[o]
    /\ c = Writer => Reader \notin waking[o]
    /\ Woken(c)
    /\ waking' = [waking EXCEPT ![o] = @ \ {c}]
    /\ UNCHANGED <<life, stopped, nonblock, changed, call, signal, found, ended>>

RequestToken(c) ==
    /\ pc[c] # "idle" /\ ~token[c]
    /\ token' = [token EXCEPT ![c] = TRUE]
    /\ UNCHANGED <<object, pc, seen, how, callback, waking, signal, found, ended>>

RunCallback(c) ==
    /\ token[c] /\ callback[c] = "armed"
    /\ callback' = [callback EXCEPT ![c] = "running"]
    /\ UNCHANGED <<object, pc, seen, how, token, waking, signal, found, ended>>

Notify(c) ==
    /\ callback[c] = "running"
    /\ Woken(c)
    /\ callback' = [callback EXCEPT ![c] = "none"]
    /\ UNCHANGED <<life, stopped, nonblock, changed, pc, seen, how, token, waking, signal,
                   found, ended>>

-----------------------------------------------------------------------------

Next == \/ OpenSucceeds \/ OpenFails \/ Destroy
        \/ \E c \in Callers :
              \/ CallStep(c) \/ PollReady(c) \/ PollFails(c) \/ RequestToken(c) \/ RunCallback(c) \/ Notify(c)
              \/ \E requested \in BOOLEAN : Begin(c, requested)
        \/ \E o \in Owners :
              \/ RequestStop(o) \/ CancelPending(o)
              \/ \E c \in Callers : Wake(o, c)

Spec == Init /\ [][Next]_vars

\* Threads inside a call or a wake go on; the peer and the owners need do nothing: poll alone may
\* block for good, unless its wake pipe is readable.
Fairness == /\ \A c \in Callers : /\ WF_vars(CallStep(c))
                                  /\ WF_vars(RunCallback(c)) /\ WF_vars(Notify(c))
            /\ \A o \in Owners, c \in Callers : WF_vars(Wake(o, c))

FairSpec == Spec /\ Fairness

-----------------------------------------------------------------------------
(* Properties *)

Native == INSTANCE NativeIo WITH
    busy <- {c \in Callers : pc[c] # "idle"},
    tokens <- {c \in Callers : token[c]}

(* The object implements what the transports rely on: a stop or a token ends a call *)
(* blocked in poll without any help of the peer, once, whatever wakes and drains     *)
(* came before, and a wake without a cause cancels nothing.                          *)
ImplementsNativeIo == Native!Spec

(* A thread that sleeps in poll although it is asked to leave has a wake byte in its *)
(* pipe, or somebody about to write one.                                             *)
WakeIsPending ==
    \A c \in Callers :
        pc[c] = "poll" /\ Asked(c) =>
            \/ wake[c] > 0
            \/ \E o \in Owners : c \in waking[o]
            \/ token[c] /\ callback[c] \in {"armed", "running"}

(* The process is left as it was found: between writes its SIGPIPE is blocked and    *)
(* pending as before and was never delivered, whoever broke the pipe, and without     *)
(* the object its descriptors block as before, shared ones included.                  *)
LeavesNoTrace ==
    /\ ~killed
    /\ pc[Writer] = "idle" => masked = found.masked /\ pending = found.pending
    /\ life = "closed" => nonblock = found.nonblock
=============================================================================
