----------------------------- MODULE WindowsIo -----------------------------
(***************************************************************************)
(* windows_stdio: synchronous pipe I/O that is cancelled through a handle  *)
(* of the calling thread. A cancellation reaches a call only while it is   *)
(* inside ReadFile or WriteFile, so whoever joins repeats cancel_pending,  *)
(* and a direction keeps in `cancelled' that its token asked for it.       *)
(* A step is a critical section of the mutex, or a call made outside it.   *)
(***************************************************************************)
EXTENDS Naturals

CONSTANTS Callers,      \* threads that call transfer
          Directions,
          DirectionOf,  \* the direction each caller transfers in, a function
          None          \* not a caller

\* A module that instantiates this one chooses them so.
WellPlaced == None \notin Callers /\ DirectionOf \in [Callers -> Directions]

VARIABLES life,       \* "closed", "open", "destroying" in the destructor's loop
          stopped,    \* state::stopped
          thread,     \* operation::thread: whose handle each direction holds
          cancelled,  \* operation::cancelled, as the set of its directions
          pc, how,    \* a call: where it is and how it ends
          token, callback,  \* its token, and the stop_callback registered on it
          aborted,    \* callers whose native call was reached by a cancellation
          ended       \* history: how the last calls ended

object == <<life, stopped, thread, cancelled>>
vars == <<object, pc, how, token, callback, aborted, ended>>

Init == /\ life = "closed" /\ stopped = FALSE
        /\ thread = [d \in Directions |-> None] /\ cancelled = {}
        /\ pc = [c \in Callers |-> "idle"] /\ how = [c \in Callers |-> "done"]
        /\ token = [c \in Callers |-> FALSE] /\ callback = [c \in Callers |-> "none"]
        /\ aborted = {}
        /\ ended = [c \in Callers |-> "done"]

Direction(c) == DirectionOf[c]
Asked(c) == stopped \/ token[c]
Goto(c, step) == pc' = [pc EXCEPT ![c] = step]
Finish(c, step, result) == Goto(c, step) /\ how' = [how EXCEPT ![c] = result]

\* CancelSynchronousIo does nothing to a thread that is in no native call.
Reached(handles) == {c \in handles : pc[c] = "native"}

\* cancel_locked, with what the critical section has made of stopped.
CancelLocked(stop) ==
    aborted' = aborted \cup
        Reached({thread[d] : d \in IF stop THEN Directions ELSE cancelled} \ {None})

-----------------------------------------------------------------------------
(* open *)

\* Only pipes are taken; a handle that cannot be duplicated leaves nothing behind.
Open == /\ life = "closed" /\ ~stopped
        /\ life' = "open"
        /\ UNCHANGED <<stopped, thread, cancelled, pc, how, token, callback, aborted, ended>>

OpenFails == life = "closed" /\ UNCHANGED vars

-----------------------------------------------------------------------------
(* transfer *)

\* A second call in a direction is the other caller's mistake to make.
Begin(c, requested) ==
    /\ life = "open" /\ pc[c] = "idle"
    /\ token' = [token EXCEPT ![c] = requested]
    /\ Goto(c, "register")
    /\ UNCHANGED <<object, how, callback, aborted, ended>>

\* No handle is left behind by a call that ends here; DuplicateHandle may fail.
Register(c) ==
    /\ pc[c] = "register"
    /\ LET refused == Asked(c) \/ thread[Direction(c)] # None IN
       \/ /\ refused
          /\ Finish(c, "return", IF Asked(c) THEN "cancelled" ELSE "done")
          /\ UNCHANGED thread
       \/ ~refused /\ Finish(c, "return", "done") /\ UNCHANGED thread
       \/ /\ ~refused
          /\ thread' = [thread EXCEPT ![Direction(c)] = c]
          /\ Goto(c, "arm") /\ UNCHANGED how
    /\ UNCHANGED <<life, stopped, cancelled, token, callback, aborted, ended>>

\* A token that is requested by now runs its callback here.
Arm(c) ==
    /\ pc[c] = "arm"
    /\ IF token[c]
       THEN cancelled' = cancelled \cup {Direction(c)} /\ UNCHANGED callback
       ELSE callback' = [callback EXCEPT ![c] = "armed"] /\ UNCHANGED cancelled
    /\ Goto(c, "check")
    /\ UNCHANGED <<life, stopped, thread, how, token, aborted, ended>>

Check(c) ==
    /\ pc[c] = "check"
    /\ IF Asked(c) \/ Direction(c) \in cancelled
       THEN Finish(c, "leave", "cancelled") ELSE Goto(c, "enter") /\ UNCHANGED how
    /\ UNCHANGED <<object, token, callback, aborted, ended>>

Enter(c) ==
    /\ pc[c] = "enter"
    /\ Goto(c, "native")
    /\ UNCHANGED <<object, how, token, callback, aborted, ended>>

\* Bytes, the end of the input or an error, when the peer likes.
Complete(c) ==
    /\ pc[c] = "native"
    /\ Finish(c, "leave", "done")
    /\ aborted' = aborted \ {c}
    /\ UNCHANGED <<object, token, callback, ended>>

\* ERROR_OPERATION_ABORTED
Abort(c) ==
    /\ pc[c] = "native" /\ c \in aborted
    /\ Finish(c, "leave", "cancelled")
    /\ aborted' = aborted \ {c}
    /\ UNCHANGED <<object, token, callback, ended>>

\* Variant: complete is destroyed first, and a callback may run on after it.
LeaveFirst(c) ==
    /\ pc[c] = "leave"
    /\ callback' = [callback EXCEPT ![c] = IF @ = "running" THEN @ ELSE "none"]
    /\ Goto(c, "release")
    /\ UNCHANGED <<object, how, token, aborted, ended>>

\* The stop_callback's destructor waits for a callback that is running.
Leave(c) ==
    /\ pc[c] = "leave" /\ callback[c] # "running"
    /\ callback' = [callback EXCEPT ![c] = "none"]
    /\ Goto(c, "release")
    /\ UNCHANGED <<object, how, token, aborted, ended>>

\* ~complete_operation
Release(c) ==
    /\ pc[c] = "release"
    /\ thread' = [thread EXCEPT ![Direction(c)] = None]
    /\ cancelled' = cancelled \ {Direction(c)}
    /\ Goto(c, "return")
    /\ UNCHANGED <<life, stopped, how, token, callback, aborted, ended>>

Return(c) ==
    /\ pc[c] = "return"
    /\ token' = [token EXCEPT ![c] = FALSE]
    /\ ended' = [ended EXCEPT ![c] = how[c]]
    /\ Finish(c, "idle", "done")
    /\ UNCHANGED <<object, callback, aborted>>

\* Everything but the native call's completion is up to the caller itself.
CallStep(c) == \/ Register(c) \/ Arm(c) \/ Check(c) \/ Enter(c) \/ Abort(c)
               \/ Leave(c) \/ Release(c) \/ Return(c)

-----------------------------------------------------------------------------
(* cancellation and the destructor *)

RequestToken(c) ==
    /\ pc[c] \notin {"idle", "return"} /\ ~token[c]
    /\ token' = [token EXCEPT ![c] = TRUE]
    /\ UNCHANGED <<object, pc, how, callback, aborted, ended>>

RunCallback(c) ==
    /\ token[c] /\ callback[c] = "armed"
    /\ callback' = [callback EXCEPT ![c] = "running"]
    /\ UNCHANGED <<object, pc, how, token, aborted, ended>>

Notify(c) ==
    /\ callback[c] = "running"
    /\ cancelled' = cancelled \cup {Direction(c)}
    /\ aborted' = aborted \cup Reached({thread[Direction(c)]} \ {None})
    /\ callback' = [callback EXCEPT ![c] = "none"]
    /\ UNCHANGED <<life, stopped, thread, pc, how, token, ended>>

RequestStop ==
    /\ life = "open"
    /\ stopped' = TRUE
    /\ CancelLocked(TRUE)
    /\ UNCHANGED <<life, thread, cancelled, pc, how, token, callback, ended>>

CancelPending ==
    /\ life = "open"
    /\ CancelLocked(stopped)
    /\ UNCHANGED <<object, pc, how, token, callback, ended>>

\* A call that has not registered yet must not race the destructor: its thread is
\* one the owner has not begun to join.
Destroy ==
    /\ life = "open"
    /\ \A c \in Callers : pc[c] # "register"
    /\ life' = "destroying" /\ stopped' = TRUE
    /\ UNCHANGED <<thread, cancelled, pc, how, token, callback, aborted, ended>>

Quiet == \A d \in Directions : thread[d] = None

\* Variant: the destructor cancels once and closes.
CloseAtOnce ==
    /\ life = "destroying"
    /\ life' = "closed"
    /\ UNCHANGED <<stopped, thread, cancelled, pc, how, token, callback, aborted, ended>>

CancelAgain ==
    /\ life = "destroying" /\ ~Quiet
    /\ CancelLocked(TRUE)
    /\ UNCHANGED <<object, pc, how, token, callback, ended>>

Close ==
    /\ life = "destroying" /\ Quiet
    /\ life' = "closed"
    /\ UNCHANGED <<stopped, thread, cancelled, pc, how, token, callback, aborted, ended>>

-----------------------------------------------------------------------------

Next == \/ \E c \in Callers :
              \/ CallStep(c) \/ Complete(c) \/ RequestToken(c) \/ RunCallback(c) \/ Notify(c)
              \/ \E requested \in BOOLEAN : Begin(c, requested)
        \/ Open \/ OpenFails \/ RequestStop \/ CancelPending \/ Destroy \/ CancelAgain \/ Close

Spec == Init /\ [][Next]_vars

\* Threads go on, and who joins, transport or destructor, cancels again and again.
Fairness == /\ \A c \in Callers : /\ WF_vars(CallStep(c))
                                  /\ WF_vars(RunCallback(c)) /\ WF_vars(Notify(c))
            /\ WF_vars(CancelPending) /\ WF_vars(CancelAgain) /\ WF_vars(Close)

FairSpec == Spec /\ Fairness

-----------------------------------------------------------------------------
(* Properties *)

Native == INSTANCE NativeIo WITH
    busy <- {c \in Callers : pc[c] # "idle"},
    tokens <- {c \in Callers : token[c]}

(* The object implements what the transports rely on although a cancellation that *)
(* comes between the second check and the native call is lost: the next one finds *)
(* the flag. No call is cancelled for one that came before it in its direction.   *)
ImplementsNativeIo == Native!Spec

(* When the destructor has closed the pipes' handles no call is inside or on its *)
(* way into native I/O, and none has its own handle to release.                  *)
ClosedMeansReleased ==
    life = "closed" => \A c \in Callers : pc[c] \in {"idle", "return"}
=============================================================================
