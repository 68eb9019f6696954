--------------------------- MODULE NativeIoProofs ---------------------------
(* Proofs about PosixIo, for every wake pipe, set of owners and environment. *)
EXTENDS NativePlatforms, TLAPS

-----------------------------------------------------------------------------
(* The inductive invariant. *)

Steps == {"idle", "guard", "look", "poll", "drain", "recheck", "io", "leave"}
Results == {"done", "cancelled"}

TypeOK ==
    /\ life \in {"closed", "open"} /\ stopped \in BOOLEAN
    /\ wake \in [Callers -> Nat]
    /\ changed \subseteq Callers
    /\ pc \in [Callers -> Steps] /\ how \in [Callers -> Results]
    /\ seen \in [Callers -> BOOLEAN]
    /\ token \in [Callers -> BOOLEAN]
    /\ callback \in [Callers -> {"none", "armed", "running"}]
    /\ waking \in [Owners -> SUBSET Callers]
    /\ found \in Environments

\* A call's token and its registration end with it, and while the token is not
\* requested its callback is registered.
TokenShape ==
    \A c \in Callers :
        /\ pc[c] = "idle" => ~token[c] /\ callback[c] = "none"
        /\ pc[c] # "idle" /\ ~token[c] => callback[c] = "armed"
        /\ callback[c] = "running" => token[c]

\* Who is on the way out with a cancellation was asked to be.
ResultShape ==
    \A c \in Callers :
        /\ how[c] = "cancelled" => pc[c] = "leave" /\ Asked(c)
        /\ pc[Reader] # "guard"

\* The guard of a write takes back what it has raised, and the mask with it.
SignalShape ==
    /\ ~killed
    /\ pending = found.pending
    /\ pc[Writer] \in {"idle", "guard"} => masked = found.masked
    /\ pc[Writer] \notin {"idle", "guard", "leave"} => before = found.pending

\* open has changed what it found blocking, and nothing else.
FlagShape ==
    /\ life = "closed" => changed = {} /\ nonblock = found.nonblock
    /\ nonblock = found.nonblock \cup {Description(c) : c \in changed}
    /\ \A c \in changed : Description(c) \notin found.nonblock

IInv == /\ TypeOK /\ TokenShape /\ ResultShape /\ SignalShape /\ FlagShape
        /\ WakeIsPending
-----------------------------------------------------------------------------
(* Each conjunct is preserved. *)

\* Types are kept.
LEMMA TypeStep ==
    ASSUME TypeOK, ResultShape, [Next]_vars
    PROVE  TypeOK'
  <1> USE CallersAssumption, WakeAssumption, EnvironmentsAssumption
          DEF TypeOK, Steps, Results, object, call, signal, Callers, Goto
  <1>1. CASE UNCHANGED vars
    BY <1>1 DEF vars
  <1>2. ASSUME OpenSucceeds \/ OpenFails \/ Destroy PROVE TypeOK'
    BY <1>2 DEF OpenSucceeds, OpenFails, Destroy, Unset, vars
  <1>3. ASSUME NEW c \in Callers, NEW requested \in BOOLEAN, Begin(c, requested)
        PROVE  TypeOK'
    BY <1>3 DEF Begin, Woken
  <1>4. ASSUME NEW c \in Callers, Look(c) \/ PollFails(c) PROVE TypeOK'
    BY <1>4 DEF Look, PollFails, Finish
  <1>5. ASSUME NEW c \in Callers, PollReady(c) \/ PollWoken(c) PROVE TypeOK'
    <2>1. PICK ready \in BOOLEAN : seen' = [seen EXCEPT ![c] = ready]
      BY <1>5, Zenon DEF PollReady, PollWoken
    <2>2. pc' \in [Callers -> Steps]
      BY <1>5 DEF PollReady, PollWoken
    <2>3. UNCHANGED <<object, how, token, callback, waking, signal, found, ended>>
      BY <1>5 DEF PollReady, PollWoken
    <2> QED  BY <2>1, <2>2, <2>3
  <1>11. ASSUME NEW c \in Callers, Drain(c) \/ Retry(c) PROVE TypeOK'
    BY <1>11 DEF Drain, Retry
  <1>12. ASSUME NEW c \in Callers, Recheck(c) \/ Transfer(c) PROVE TypeOK'
    <2>1. seen' \in [Callers -> BOOLEAN]
      BY <1>12, Zenon DEF Recheck, Transfer
    <2>2. pc' \in [Callers -> Steps] /\ how' \in [Callers -> Results]
      BY <1>12 DEF Recheck, Transfer, Finish
    <2> QED  BY <1>12, <2>1, <2>2, Zenon DEF Recheck, Transfer
  <1>6. ASSUME NEW c \in Callers, Leave(c) PROVE TypeOK'
    BY <1>6 DEF Leave
  <1>7. ASSUME Guard \/ WriteBroken PROVE TypeOK'
    BY <1>7 DEF Guard, WriteBroken, Finish
  <1>8. ASSUME NEW c \in Callers, RequestToken(c) \/ RunCallback(c) PROVE TypeOK'
    BY <1>8 DEF RequestToken, RunCallback
  <1>13. ASSUME NEW c \in Callers, Notify(c) PROVE TypeOK'
    BY <1>13 DEF Notify, Woken
  <1>9. ASSUME NEW o \in Owners, RequestStop(o) \/ CancelPending(o) PROVE TypeOK'
    BY <1>9 DEF RequestStop, CancelPending
  <1>10. ASSUME NEW o \in Owners, NEW c \in Callers, Wake(o, c) PROVE TypeOK'
    BY <1>10 DEF Wake, Woken
  <1> QED
    BY <1>1, <1>2, <1>3, <1>4, <1>5, <1>6, <1>7, <1>8, <1>9, <1>10,
       <1>11, <1>12, <1>13 DEF Next, CallStep

\* A token goes with its call.
LEMMA TokenStep ==
    ASSUME TypeOK, TokenShape, [Next]_vars
    PROVE  TokenShape'
  <1> USE CallersAssumption, WakeAssumption, EnvironmentsAssumption
          DEF TypeOK, TokenShape, object, call, signal, Callers, Goto
  <1>1. CASE UNCHANGED vars
    BY <1>1 DEF vars
  <1>2. ASSUME OpenSucceeds \/ OpenFails \/ Destroy PROVE TokenShape'
    BY <1>2 DEF OpenSucceeds, OpenFails, Destroy, Unset, vars
  <1>3. ASSUME NEW c \in Callers, NEW requested \in BOOLEAN, Begin(c, requested)
        PROVE  TokenShape'
    BY <1>3 DEF Begin, Woken
  <1>4. ASSUME NEW c \in Callers, Look(c) \/ PollReady(c) \/ PollFails(c) \/ PollWoken(c)
        PROVE  TokenShape'
    BY <1>4 DEF Look, PollReady, PollFails, PollWoken, Finish
  <1>5. ASSUME NEW c \in Callers, Drain(c) \/ Recheck(c) \/ Retry(c) \/ Transfer(c)
        PROVE  TokenShape'
    BY <1>5 DEF Drain, Recheck, Retry, Transfer, Finish
  <1>6. ASSUME NEW c \in Callers, Leave(c) PROVE TokenShape'
    BY <1>6 DEF Leave
  <1>7. ASSUME Guard \/ WriteBroken PROVE TokenShape'
    BY <1>7 DEF Guard, WriteBroken, Finish
  <1>8. ASSUME NEW c \in Callers, RequestToken(c) \/ RunCallback(c) \/ Notify(c)
        PROVE  TokenShape'
    BY <1>8 DEF RequestToken, RunCallback, Notify, Woken
  <1>9. ASSUME NEW o \in Owners, RequestStop(o) \/ CancelPending(o) PROVE TokenShape'
    BY <1>9 DEF RequestStop, CancelPending
  <1>10. ASSUME NEW o \in Owners, NEW c \in Callers, Wake(o, c) PROVE TokenShape'
    BY <1>10 DEF Wake, Woken
  <1> QED
    BY <1>1, <1>2, <1>3, <1>4, <1>5, <1>6, <1>7, <1>8, <1>9, <1>10 DEF Next, CallStep

\* A request to end is not taken back while the call lasts.
LEMMA ResultStep ==
    ASSUME TypeOK, TokenShape, ResultShape, [Next]_vars
    PROVE  ResultShape'
  <1> USE CallersAssumption, WakeAssumption, EnvironmentsAssumption
          DEF TypeOK, TokenShape, ResultShape, Asked, object, call, signal, Callers, Goto
  <1>1. CASE UNCHANGED vars
    BY <1>1 DEF vars
  <1>2. ASSUME OpenSucceeds \/ OpenFails \/ Destroy PROVE ResultShape'
    BY <1>2 DEF OpenSucceeds, OpenFails, Destroy, Unset, vars
  <1>3. ASSUME NEW c \in Callers, NEW requested \in BOOLEAN, Begin(c, requested)
        PROVE  ResultShape'
    BY <1>3 DEF Begin, Woken
  <1>4. ASSUME NEW c \in Callers, Look(c) \/ PollReady(c) \/ PollFails(c) \/ PollWoken(c)
        PROVE  ResultShape'
    BY <1>4 DEF Look, PollReady, PollFails, PollWoken, Finish
  <1>5. ASSUME NEW c \in Callers, Drain(c) \/ Recheck(c) \/ Retry(c) \/ Transfer(c)
        PROVE  ResultShape'
    BY <1>5 DEF Drain, Recheck, Retry, Transfer, Finish
  <1>6. ASSUME NEW c \in Callers, Leave(c) PROVE ResultShape'
    BY <1>6 DEF Leave
  <1>7. ASSUME Guard \/ WriteBroken PROVE ResultShape'
    BY <1>7 DEF Guard, WriteBroken, Finish
  <1>8. ASSUME NEW c \in Callers, RequestToken(c) \/ RunCallback(c) \/ Notify(c)
        PROVE  ResultShape'
    BY <1>8 DEF RequestToken, RunCallback, Notify, Woken
  <1>9. ASSUME NEW o \in Owners, RequestStop(o) \/ CancelPending(o) PROVE ResultShape'
    BY <1>9 DEF RequestStop, CancelPending
  <1>10. ASSUME NEW o \in Owners, NEW c \in Callers, Wake(o, c) PROVE ResultShape'
    BY <1>10 DEF Wake, Woken
  <1> QED
    BY <1>1, <1>2, <1>3, <1>4, <1>5, <1>6, <1>7, <1>8, <1>9, <1>10 DEF Next, CallStep

\* The signal is back where it was.
LEMMA SignalStep ==
    ASSUME TypeOK, ResultShape, SignalShape, [Next]_vars
    PROVE  SignalShape'
  <1> USE CallersAssumption, WakeAssumption, EnvironmentsAssumption
          DEF TypeOK, ResultShape, SignalShape, object, call, signal, Callers, Goto
  <1>1. CASE UNCHANGED vars
    BY <1>1 DEF vars
  <1>2. ASSUME OpenSucceeds \/ OpenFails \/ Destroy PROVE SignalShape'
    BY <1>2 DEF OpenSucceeds, OpenFails, Destroy, Unset, vars
  <1>3. ASSUME NEW c \in Callers, NEW requested \in BOOLEAN, Begin(c, requested)
        PROVE  SignalShape'
    BY <1>3 DEF Begin, Woken
  <1>4. ASSUME NEW c \in Callers, Look(c) \/ PollReady(c) \/ PollFails(c) \/ PollWoken(c)
        PROVE  SignalShape'
    BY <1>4 DEF Look, PollReady, PollFails, PollWoken, Finish
  <1>5. ASSUME NEW c \in Callers, Drain(c) \/ Recheck(c) \/ Retry(c) \/ Transfer(c)
        PROVE  SignalShape'
    BY <1>5 DEF Drain, Recheck, Retry, Transfer, Finish
  <1>6. ASSUME NEW c \in Callers, Leave(c) PROVE SignalShape'
    BY <1>6 DEF Leave
  <1>7. ASSUME Guard \/ WriteBroken PROVE SignalShape'
    BY <1>7 DEF Guard, WriteBroken, Finish
  <1>8. ASSUME NEW c \in Callers, RequestToken(c) \/ RunCallback(c) \/ Notify(c)
        PROVE  SignalShape'
    BY <1>8 DEF RequestToken, RunCallback, Notify, Woken
  <1>9. ASSUME NEW o \in Owners, RequestStop(o) \/ CancelPending(o) PROVE SignalShape'
    BY <1>9 DEF RequestStop, CancelPending
  <1>10. ASSUME NEW o \in Owners, NEW c \in Callers, Wake(o, c) PROVE SignalShape'
    BY <1>10 DEF Wake, Woken
  <1> QED
    BY <1>1, <1>2, <1>3, <1>4, <1>5, <1>6, <1>7, <1>8, <1>9, <1>10 DEF Next, CallStep

\* Open and the destructor undo each other.
LEMMA FlagStep ==
    ASSUME TypeOK, FlagShape, [Next]_vars
    PROVE  FlagShape'
  <1> USE CallersAssumption, WakeAssumption, EnvironmentsAssumption
          DEF TypeOK, FlagShape, Description, object, call, signal, Callers, Goto
  <1>1. CASE UNCHANGED vars
    BY <1>1 DEF vars
  <1>2. ASSUME OpenSucceeds \/ OpenFails \/ Destroy PROVE FlagShape'
    <2>1. CASE OpenSucceeds
      BY <2>1 DEF OpenSucceeds, Unset
    <2>2. CASE OpenFails
      BY <2>2 DEF OpenFails, vars
    <2>3. CASE Destroy
      BY <2>3 DEF Destroy
    <2> QED  BY <1>2, <2>1, <2>2, <2>3
  <1>3. ASSUME NEW c \in Callers, NEW requested \in BOOLEAN, Begin(c, requested)
        PROVE  FlagShape'
    BY <1>3 DEF Begin, Woken
  <1>4. ASSUME NEW c \in Callers, Look(c) \/ PollReady(c) \/ PollFails(c) \/ PollWoken(c)
        PROVE  FlagShape'
    BY <1>4 DEF Look, PollReady, PollFails, PollWoken, Finish
  <1>5. ASSUME NEW c \in Callers, Drain(c) \/ Recheck(c) \/ Retry(c) \/ Transfer(c)
        PROVE  FlagShape'
    BY <1>5 DEF Drain, Recheck, Retry, Transfer, Finish
  <1>6. ASSUME NEW c \in Callers, Leave(c) PROVE FlagShape'
    BY <1>6 DEF Leave
  <1>7. ASSUME Guard \/ WriteBroken PROVE FlagShape'
    BY <1>7 DEF Guard, WriteBroken, Finish
  <1>8. ASSUME NEW c \in Callers, RequestToken(c) \/ RunCallback(c) \/ Notify(c)
        PROVE  FlagShape'
    BY <1>8 DEF RequestToken, RunCallback, Notify, Woken
  <1>9. ASSUME NEW o \in Owners, RequestStop(o) \/ CancelPending(o) PROVE FlagShape'
    BY <1>9 DEF RequestStop, CancelPending
  <1>10. ASSUME NEW o \in Owners, NEW c \in Callers, Wake(o, c) PROVE FlagShape'
    BY <1>10 DEF Wake, Woken
  <1> QED
    BY <1>1, <1>2, <1>3, <1>4, <1>5, <1>6, <1>7, <1>8, <1>9, <1>10 DEF Next, CallStep

\* Whoever asks a sleeper to leave also wakes it.
LEMMA WakeStep ==
    ASSUME TypeOK, TokenShape, WakeIsPending, [Next]_vars
    PROVE  WakeIsPending'
  <1> USE CallersAssumption, WakeAssumption, EnvironmentsAssumption
          DEF TypeOK, TokenShape, WakeIsPending, Asked, object, call, signal, Callers, Goto
  <1>1. CASE UNCHANGED vars
    BY <1>1 DEF vars
  <1>2. ASSUME OpenSucceeds \/ OpenFails \/ Destroy PROVE WakeIsPending'
    BY <1>2 DEF OpenSucceeds, OpenFails, Destroy, Unset, vars
  <1>3. ASSUME NEW c \in Callers, NEW requested \in BOOLEAN, Begin(c, requested)
        PROVE  WakeIsPending'
    BY <1>3 DEF Begin, Woken
  <1>4. ASSUME NEW c \in Callers, Look(c) \/ PollReady(c) \/ PollFails(c) \/ PollWoken(c)
        PROVE  WakeIsPending'
    BY <1>4 DEF Look, PollReady, PollFails, PollWoken, Finish
  <1>5. ASSUME NEW c \in Callers, Drain(c) \/ Recheck(c) \/ Retry(c) \/ Transfer(c)
        PROVE  WakeIsPending'
    BY <1>5 DEF Drain, Recheck, Retry, Transfer, Finish
  <1>6. ASSUME NEW c \in Callers, Leave(c) PROVE WakeIsPending'
    BY <1>6 DEF Leave
  <1>7. ASSUME Guard \/ WriteBroken PROVE WakeIsPending'
    BY <1>7 DEF Guard, WriteBroken, Finish
  <1>8. ASSUME NEW c \in Callers, RequestToken(c) \/ RunCallback(c) \/ Notify(c)
        PROVE  WakeIsPending'
    BY <1>8 DEF RequestToken, RunCallback, Notify, Woken
  <1>9. ASSUME NEW o \in Owners, RequestStop(o) \/ CancelPending(o) PROVE WakeIsPending'
    BY <1>9 DEF RequestStop, CancelPending
  <1>10. ASSUME NEW o \in Owners, NEW c \in Callers, Wake(o, c) PROVE WakeIsPending'
    BY <1>10 DEF Wake, Woken
  <1> QED
    BY <1>1, <1>2, <1>3, <1>4, <1>5, <1>6, <1>7, <1>8, <1>9, <1>10 DEF Next, CallStep
-----------------------------------------------------------------------------
(* The theorems. *)

\* A program that has found its descriptors and its signal anyhow starts in the invariant.
LEMMA InvInit == Init => IInv
  <1> SUFFICES ASSUME Init PROVE IInv
    OBVIOUS
  <1>1. TypeOK
    BY DEF Init, TypeOK, Steps, Results
  <1>2. TokenShape /\ ResultShape /\ SignalShape /\ WakeIsPending
    BY CallersAssumption
    DEF Init, TokenShape, ResultShape, SignalShape, WakeIsPending, Callers
  <1>3. FlagShape
    BY DEF Init, FlagShape
  <1> QED  BY <1>1, <1>2, <1>3 DEF IInv

\* Every step keeps it.
LEMMA InvStep == IInv /\ [Next]_vars => IInv'
  BY TypeStep, TokenStep, ResultStep, SignalStep, FlagStep, WakeStep DEF IInv

\* The invariant holds in every state that a program can reach.
THEOREM PosixInvariant == Spec => []IInv
  BY InvInit, InvStep, PTL DEF Spec

(* A request_stop, a cancel_pending or a token never leaves a thread asleep in poll  *)
(* with an empty wake pipe and nobody about to write to it, however the drain of an  *)
(* earlier wake, the registration of the callback and the look at the flag fall.     *)
THEOREM SleepersAreWoken == Spec => []WakeIsPending
  BY PosixInvariant, PTL DEF IInv

(* The destructor and the end of every write give the process back what open and the *)
(* guard took: O_NONBLOCK where it was clear, the mask, and a SIGPIPE that was        *)
(* pending; the one that a broken pipe raised is never delivered.                     *)
THEOREM NoTraceIsLeft == Spec => []LeavesNoTrace
  <1>1. IInv => LeavesNoTrace
    BY DEF IInv, SignalShape, FlagShape, LeavesNoTrace
  <1> QED  BY PosixInvariant, <1>1, PTL

-----------------------------------------------------------------------------
(* Refinement: each step is a step of NativeIo or leaves all that NativeIo     *)
(* sees of it as it is.                                                        *)

Busy == {c \in Callers : pc[c] # "idle"}
Tokens == {c \in Callers : token[c]}

\* No call is under way at first.
LEMMA NativeInit == Init => Native!Init
  BY DEF Init, Native!Init

\* A step that begins no call, ends none and asks for nothing.
Unseen == \/ OpenSucceeds \/ OpenFails \/ Guard \/ WriteBroken
          \/ \E c \in Callers : \/ Look(c) \/ PollWoken(c) \/ PollReady(c) \/ PollFails(c)
                                \/ Drain(c) \/ Recheck(c) \/ Retry(c) \/ Transfer(c)
                                \/ RunCallback(c) \/ Notify(c)
          \/ \E o \in Owners : CancelPending(o) \/ \E c \in Callers : Wake(o, c)

\* Polls, drains, retries, wakes and what is borrowed stay inside the object.
LEMMA UnseenStep ==
    ASSUME IInv, Unseen
    PROVE  UNCHANGED Native!vars
  <1> USE DEF IInv, TypeOK, object, call, Goto, Finish
  <1>1. pc' \in [Callers -> Steps] /\ \A d \in Callers : (pc'[d] = "idle" <=> pc[d] = "idle")
    BY CallersAssumption
    DEF Unseen, OpenSucceeds, OpenFails, vars, Guard, WriteBroken, Look, PollWoken,
        PollReady,
        PollFails, Drain, Recheck, Retry, Transfer, RunCallback, Notify, CancelPending, Wake,
        Steps, Callers
  <1>2. UNCHANGED <<stopped, token, ended>>
    BY DEF Unseen, OpenSucceeds, OpenFails, vars, Guard, WriteBroken, Look, PollWoken, PollReady,
        PollFails, Drain, Recheck, Retry, Transfer, RunCallback, Notify, CancelPending, Wake
  <1> QED  BY <1>1, <1>2 DEF Native!vars

\* The other steps are the four of NativeIo; the destructor stops.
LEMMA NativeStep ==
    ASSUME IInv, [Next]_vars
    PROVE  [Native!Next]_(Native!vars)
  <1> USE DEF IInv, TypeOK, object, call, Goto
  <1>1. CASE UNCHANGED vars
    BY <1>1 DEF vars, Native!vars
  <1>2. CASE Unseen
    BY <1>2, UnseenStep
  <1>3. CASE Destroy
    <2>1. Native!RequestStop
      BY <1>3 DEF Destroy, Native!RequestStop
    <2> QED  BY <2>1 DEF Native!Next
  <1>4. ASSUME NEW o \in Owners, RequestStop(o) PROVE Native!RequestStop
    BY <1>4 DEF RequestStop, Native!RequestStop
  <1>5. ASSUME NEW c \in Callers, RequestToken(c) PROVE Native!RequestToken(c)
    BY <1>5 DEF RequestToken, Native!RequestToken
  <1>6. ASSUME NEW c \in Callers, NEW requested \in BOOLEAN, Begin(c, requested)
        PROVE  Native!Begin(c)
    <2>1. pc[c] = "idle" /\ ~token[c]
      BY <1>6 DEF Begin, TokenShape
    <2>2. Busy' = Busy \cup {c}
      BY <1>6 DEF Begin, Busy
    <2>3. Tokens' = IF requested THEN Tokens \cup {c} ELSE Tokens
      BY <1>6, <2>1 DEF Begin, Tokens
    <2> QED  BY <1>6, <2>1, <2>2, <2>3 DEF Begin, Busy, Tokens, Native!Begin
  <1>7. ASSUME NEW c \in Callers, Leave(c) PROVE Native!Return(c)
    <2>1. pc[c] = "leave" /\ how[c] \in {"done", "cancelled"}
      BY <1>7 DEF Leave, Results
    <2>2. how[c] = "cancelled" => Native!Asked(c)
      BY DEF ResultShape, Asked, Native!Asked
    <2>3. Busy' = Busy \ {c} /\ Tokens' = Tokens \ {c}
      BY <1>7 DEF Leave, Busy, Tokens
    <2>4. PICK result \in {"done", "cancelled"} : how[c] = result
      BY <2>1
    <2>5. Native!End(c, result)
      BY <1>7, <2>1, <2>2, <2>3, <2>4 DEF Leave, Busy, Tokens, Native!End
    <2> QED  BY <2>5 DEF Native!Return
  <1> QED
    BY <1>1, <1>2, <1>3, <1>4, <1>5, <1>6, <1>7
    DEF Next, CallStep, Unseen, Native!Next

(* What a transport may rely on without any fairness: one call per direction at a     *)
(* time, and none is reported cancelled unless the object was stopped or that call's   *)
(* own token was requested, whatever wakes, drains and retries there were.             *)
THEOREM PosixRefinement == Spec => Native!SafeSpec
  BY NativeInit, NativeStep, PosixInvariant, PTL DEF Spec, Native!SafeSpec

-----------------------------------------------------------------------------
(* windows_stdio. *)

(* The inductive invariant. *)

\* Where a call's own handle is the one that its direction holds.
Registered == {"arm", "check", "enter", "native", "leave", "release"}
WSteps == {"idle", "register", "return"} \cup Registered
WResults == {"done", "cancelled"}

WTypeOK ==
    /\ wLife \in {"closed", "open", "destroying"} /\ wStopped \in BOOLEAN
    /\ wThread \in [Directions -> Users \cup {None}]
    /\ wCancelled \subseteq Directions
    /\ wPc \in [Users -> WSteps] /\ wHow \in [Users -> WResults]
    /\ wToken \in [Users -> BOOLEAN]
    /\ wCallback \in [Users -> {"none", "armed", "running"}]
    /\ wAborted \subseteq Users

\* A direction holds the handle of the call that has registered there, and of no other.
HandleShape ==
    /\ \A c \in Users : wPc[c] \in Registered => wThread[Win!Direction(c)] = c
    /\ \A d \in Directions : wThread[d] # None =>
          wPc[wThread[d]] \in Registered /\ Win!Direction(wThread[d]) = d

\* What a call leaves behind when it returns: nothing of its token, none of its callback.
WTokenShape ==
    \A c \in Users :
        /\ wPc[c] = "idle" => ~wToken[c]
        /\ wCallback[c] # "none" => wPc[c] \in {"check", "enter", "native", "leave"}
        /\ wCallback[c] = "running" => wToken[c]

\* A cancellation is one of this call: the direction's flag, the native call it
\* aborts, and the result.
CancelShape ==
    /\ \A d \in wCancelled : wThread[d] # None /\ Win!Asked(wThread[d])
    /\ \A c \in wAborted : wPc[c] = "native" /\ Win!Asked(c)
    /\ \A c \in Users :
          wHow[c] = "cancelled" => wPc[c] \in {"leave", "release", "return"} /\ Win!Asked(c)

\* The destructor's loop has no call to wait for that could still register.
LifeShape ==
    /\ wLife = "destroying" => wStopped
    /\ wLife # "open" => \A c \in Users : wPc[c] # "register"

WInv == /\ WTypeOK /\ HandleShape /\ WTokenShape /\ CancelShape /\ LifeShape
        /\ Win!ClosedMeansReleased
-----------------------------------------------------------------------------
(* Each conjunct is preserved. *)

\* Types are kept.
LEMMA WTypeStep ==
    ASSUME WTypeOK, [Win!Next]_(Win!vars)
    PROVE  WTypeOK'
  <1> USE PlacementAssumption
          DEF Win!WellPlaced, WTypeOK, WSteps, Registered, WResults, Win!object, Win!Goto,
              Win!Finish, Win!Direction
  <1>1. CASE UNCHANGED Win!vars
    BY <1>1 DEF Win!vars
  <1>2. ASSUME Win!Open \/ Win!OpenFails \/ Win!Destroy \/ Win!Close PROVE WTypeOK'
    BY <1>2 DEF Win!Open, Win!OpenFails, Win!Destroy, Win!Close, Win!Quiet, Win!vars
  <1>3. ASSUME Win!RequestStop \/ Win!CancelPending \/ Win!CancelAgain PROVE WTypeOK'
    <2>1. ASSUME NEW stop, Win!CancelLocked(stop) PROVE wAborted' \subseteq Users
      BY <2>1 DEF Win!CancelLocked, Win!Reached
    <2>2. wAborted' \subseteq Users
      BY <1>3, <2>1 DEF Win!RequestStop, Win!CancelPending, Win!CancelAgain
    <2> QED  BY <1>3, <2>2 DEF Win!RequestStop, Win!CancelPending, Win!CancelAgain
  <1>4. ASSUME NEW c \in Users, NEW requested \in BOOLEAN, Win!Begin(c, requested)
        PROVE  WTypeOK'
    BY <1>4 DEF Win!Begin
  <1>5. ASSUME NEW c \in Users, Win!Register(c) PROVE WTypeOK'
    BY <1>5 DEF Win!Register
  <1>6. ASSUME NEW c \in Users, Win!Arm(c) PROVE WTypeOK'
    BY <1>6 DEF Win!Arm
  <1>7. ASSUME NEW c \in Users, Win!Check(c) \/ Win!Enter(c) PROVE WTypeOK'
    BY <1>7 DEF Win!Check, Win!Enter
  <1>8. ASSUME NEW c \in Users, Win!Complete(c) \/ Win!Abort(c) PROVE WTypeOK'
    BY <1>8 DEF Win!Complete, Win!Abort
  <1>9. ASSUME NEW c \in Users, Win!Leave(c) PROVE WTypeOK'
    BY <1>9 DEF Win!Leave
  <1>10. ASSUME NEW c \in Users, Win!Release(c) PROVE WTypeOK'
    BY <1>10 DEF Win!Release
  <1>11. ASSUME NEW c \in Users, Win!Return(c) PROVE WTypeOK'
    BY <1>11 DEF Win!Return
  <1>12. ASSUME NEW c \in Users, Win!RequestToken(c) \/ Win!RunCallback(c) PROVE WTypeOK'
    BY <1>12 DEF Win!RequestToken, Win!RunCallback
  <1>13. ASSUME NEW c \in Users, Win!Notify(c) PROVE WTypeOK'
    BY <1>13 DEF Win!Notify, Win!Reached
  <1> QED
    BY <1>1, <1>2, <1>3, <1>4, <1>5, <1>6, <1>7, <1>8, <1>9, <1>10, <1>11, <1>12, <1>13
    DEF Win!Next, Win!CallStep

\* A handle is set by the call that finds none, and cleared by the same call.
LEMMA HandleStep ==
    ASSUME WTypeOK, HandleShape, [Win!Next]_(Win!vars)
    PROVE  HandleShape'
  <1> USE PlacementAssumption
          DEF Win!WellPlaced, WTypeOK, HandleShape, Registered, Win!object, Win!Goto,
              Win!Finish, Win!Direction
  <1>1. CASE UNCHANGED Win!vars
    BY <1>1 DEF Win!vars
  <1>2. ASSUME Win!Open \/ Win!OpenFails \/ Win!Destroy \/ Win!Close PROVE HandleShape'
    BY <1>2 DEF Win!Open, Win!OpenFails, Win!Destroy, Win!Close, Win!Quiet, Win!vars
  <1>3. ASSUME Win!RequestStop \/ Win!CancelPending \/ Win!CancelAgain PROVE HandleShape'
    BY <1>3 DEF Win!RequestStop, Win!CancelPending, Win!CancelAgain, Win!CancelLocked,
                Win!Reached
  <1>4. ASSUME NEW c \in Users, NEW requested \in BOOLEAN, Win!Begin(c, requested)
        PROVE  HandleShape'
    BY <1>4 DEF Win!Begin
  <1>5. ASSUME NEW c \in Users, Win!Register(c) PROVE HandleShape'
    BY <1>5 DEF Win!Register
  <1>6. ASSUME NEW c \in Users, Win!Arm(c) PROVE HandleShape'
    BY <1>6 DEF Win!Arm
  <1>7. ASSUME NEW c \in Users, Win!Check(c) \/ Win!Enter(c) PROVE HandleShape'
    BY <1>7 DEF Win!Check, Win!Enter
  <1>8. ASSUME NEW c \in Users, Win!Complete(c) \/ Win!Abort(c) PROVE HandleShape'
    BY <1>8 DEF Win!Complete, Win!Abort
  <1>9. ASSUME NEW c \in Users, Win!Leave(c) PROVE HandleShape'
    BY <1>9 DEF Win!Leave
  <1>10. ASSUME NEW c \in Users, Win!Release(c) PROVE HandleShape'
    BY <1>10 DEF Win!Release
  <1>11. ASSUME NEW c \in Users, Win!Return(c) PROVE HandleShape'
    BY <1>11 DEF Win!Return
  <1>12. ASSUME NEW c \in Users, Win!RequestToken(c) \/ Win!RunCallback(c)
         PROVE  HandleShape'
    BY <1>12 DEF Win!RequestToken, Win!RunCallback
  <1>13. ASSUME NEW c \in Users, Win!Notify(c) PROVE HandleShape'
    BY <1>13 DEF Win!Notify, Win!Reached
  <1> QED
    BY <1>1, <1>2, <1>3, <1>4, <1>5, <1>6, <1>7, <1>8, <1>9, <1>10, <1>11, <1>12, <1>13
    DEF Win!Next, Win!CallStep

\* Callbacks are registered after the handle and gone before it.
LEMMA WTokenStep ==
    ASSUME WTypeOK, WTokenShape, [Win!Next]_(Win!vars)
    PROVE  WTokenShape'
  <1> USE PlacementAssumption
          DEF Win!WellPlaced, WTypeOK, WTokenShape, Win!object, Win!Goto, Win!Finish,
              Win!Direction
  <1>1. CASE UNCHANGED Win!vars
    BY <1>1 DEF Win!vars
  <1>2. ASSUME Win!Open \/ Win!OpenFails \/ Win!Destroy \/ Win!Close PROVE WTokenShape'
    BY <1>2 DEF Win!Open, Win!OpenFails, Win!Destroy, Win!Close, Win!Quiet, Win!vars
  <1>3. ASSUME Win!RequestStop \/ Win!CancelPending \/ Win!CancelAgain PROVE WTokenShape'
    BY <1>3 DEF Win!RequestStop, Win!CancelPending, Win!CancelAgain, Win!CancelLocked,
                Win!Reached
  <1>4. ASSUME NEW c \in Users, NEW requested \in BOOLEAN, Win!Begin(c, requested)
        PROVE  WTokenShape'
    BY <1>4 DEF Win!Begin
  <1>5. ASSUME NEW c \in Users, Win!Register(c) PROVE WTokenShape'
    BY <1>5 DEF Win!Register
  <1>6. ASSUME NEW c \in Users, Win!Arm(c) PROVE WTokenShape'
    BY <1>6 DEF Win!Arm
  <1>7. ASSUME NEW c \in Users, Win!Check(c) \/ Win!Enter(c) PROVE WTokenShape'
    BY <1>7 DEF Win!Check, Win!Enter
  <1>8. ASSUME NEW c \in Users, Win!Complete(c) \/ Win!Abort(c) PROVE WTokenShape'
    BY <1>8 DEF Win!Complete, Win!Abort
  <1>9. ASSUME NEW c \in Users, Win!Leave(c) PROVE WTokenShape'
    BY <1>9 DEF Win!Leave
  <1>10. ASSUME NEW c \in Users, Win!Release(c) PROVE WTokenShape'
    BY <1>10 DEF Win!Release
  <1>11. ASSUME NEW c \in Users, Win!Return(c) PROVE WTokenShape'
    BY <1>11 DEF Win!Return
  <1>12. ASSUME NEW c \in Users, Win!RequestToken(c) \/ Win!RunCallback(c)
         PROVE  WTokenShape'
    BY <1>12 DEF Win!RequestToken, Win!RunCallback
  <1>13. ASSUME NEW c \in Users, Win!Notify(c) PROVE WTokenShape'
    BY <1>13 DEF Win!Notify, Win!Reached
  <1> QED
    BY <1>1, <1>2, <1>3, <1>4, <1>5, <1>6, <1>7, <1>8, <1>9, <1>10, <1>11, <1>12, <1>13
    DEF Win!Next, Win!CallStep

\* A cancellation reaches the call it was asked for.
LEMMA CancelStep ==
    ASSUME WTypeOK, HandleShape, WTokenShape, CancelShape, LifeShape,
           [Win!Next]_(Win!vars)
    PROVE  CancelShape'
  <1> USE PlacementAssumption
          DEF Win!WellPlaced, WTypeOK, HandleShape, Registered, WTokenShape, CancelShape,
              LifeShape, Win!Asked, Win!object, Win!Goto, Win!Finish, Win!Direction
  <1>1. CASE UNCHANGED Win!vars
    BY <1>1 DEF Win!vars
  <1>2. ASSUME Win!Open \/ Win!OpenFails \/ Win!Destroy \/ Win!Close PROVE CancelShape'
    BY <1>2 DEF Win!Open, Win!OpenFails, Win!Destroy, Win!Close, Win!Quiet, Win!vars
  <1>3. ASSUME Win!RequestStop \/ Win!CancelPending \/ Win!CancelAgain PROVE CancelShape'
    BY <1>3 DEF Win!RequestStop, Win!CancelPending, Win!CancelAgain, Win!CancelLocked,
                Win!Reached
  <1>4. ASSUME NEW c \in Users, NEW requested \in BOOLEAN, Win!Begin(c, requested)
        PROVE  CancelShape'
    BY <1>4 DEF Win!Begin
  <1>5. ASSUME NEW c \in Users, Win!Register(c) PROVE CancelShape'
    BY <1>5 DEF Win!Register
  <1>6. ASSUME NEW c \in Users, Win!Arm(c) PROVE CancelShape'
    BY <1>6 DEF Win!Arm
  <1>7. ASSUME NEW c \in Users, Win!Check(c) \/ Win!Enter(c) PROVE CancelShape'
    BY <1>7 DEF Win!Check, Win!Enter
  <1>8. ASSUME NEW c \in Users, Win!Complete(c) \/ Win!Abort(c) PROVE CancelShape'
    BY <1>8 DEF Win!Complete, Win!Abort
  <1>9. ASSUME NEW c \in Users, Win!Leave(c) PROVE CancelShape'
    BY <1>9 DEF Win!Leave
  <1>10. ASSUME NEW c \in Users, Win!Release(c) PROVE CancelShape'
    BY <1>10 DEF Win!Release
  <1>11. ASSUME NEW c \in Users, Win!Return(c) PROVE CancelShape'
    BY <1>11 DEF Win!Return
  <1>12. ASSUME NEW c \in Users, Win!RequestToken(c) \/ Win!RunCallback(c)
         PROVE  CancelShape'
    BY <1>12 DEF Win!RequestToken, Win!RunCallback
  <1>13. ASSUME NEW c \in Users, Win!Notify(c) PROVE CancelShape'
    BY <1>13 DEF Win!Notify, Win!Reached
  <1> QED
    BY <1>1, <1>2, <1>3, <1>4, <1>5, <1>6, <1>7, <1>8, <1>9, <1>10, <1>11, <1>12, <1>13
    DEF Win!Next, Win!CallStep

\* No call begins once the destructor does.
LEMMA LifeStep ==
    ASSUME WTypeOK, LifeShape,
           [Win!Next]_(Win!vars)
    PROVE  LifeShape'
  <1> USE PlacementAssumption
          DEF Win!WellPlaced, WTypeOK, LifeShape, Win!object, Win!Goto, Win!Finish,
              Win!Direction
  <1>1. CASE UNCHANGED Win!vars
    BY <1>1 DEF Win!vars
  <1>2. ASSUME Win!Open \/ Win!OpenFails \/ Win!Destroy \/ Win!Close PROVE LifeShape'
    BY <1>2 DEF Win!Open, Win!OpenFails, Win!Destroy, Win!Close, Win!Quiet, Win!vars
  <1>3. ASSUME Win!RequestStop \/ Win!CancelPending \/ Win!CancelAgain PROVE LifeShape'
    BY <1>3 DEF Win!RequestStop, Win!CancelPending, Win!CancelAgain, Win!CancelLocked,
                Win!Reached
  <1>4. ASSUME NEW c \in Users, NEW requested \in BOOLEAN, Win!Begin(c, requested)
        PROVE  LifeShape'
    BY <1>4 DEF Win!Begin
  <1>5. ASSUME NEW c \in Users, Win!Register(c) PROVE LifeShape'
    BY <1>5 DEF Win!Register
  <1>6. ASSUME NEW c \in Users, Win!Arm(c) PROVE LifeShape'
    BY <1>6 DEF Win!Arm
  <1>7. ASSUME NEW c \in Users, Win!Check(c) \/ Win!Enter(c) PROVE LifeShape'
    BY <1>7 DEF Win!Check, Win!Enter
  <1>8. ASSUME NEW c \in Users, Win!Complete(c) \/ Win!Abort(c) PROVE LifeShape'
    BY <1>8 DEF Win!Complete, Win!Abort
  <1>9. ASSUME NEW c \in Users, Win!Leave(c) PROVE LifeShape'
    BY <1>9 DEF Win!Leave
  <1>10. ASSUME NEW c \in Users, Win!Release(c) PROVE LifeShape'
    BY <1>10 DEF Win!Release
  <1>11. ASSUME NEW c \in Users, Win!Return(c) PROVE LifeShape'
    BY <1>11 DEF Win!Return
  <1>12. ASSUME NEW c \in Users, Win!RequestToken(c) \/ Win!RunCallback(c) PROVE LifeShape'
    BY <1>12 DEF Win!RequestToken, Win!RunCallback
  <1>13. ASSUME NEW c \in Users, Win!Notify(c) PROVE LifeShape'
    BY <1>13 DEF Win!Notify, Win!Reached
  <1> QED
    BY <1>1, <1>2, <1>3, <1>4, <1>5, <1>6, <1>7, <1>8, <1>9, <1>10, <1>11, <1>12, <1>13
    DEF Win!Next, Win!CallStep

\* The destructor closes when no direction holds a handle.
LEMMA CloseStep ==
    ASSUME WTypeOK, HandleShape, LifeShape, Win!ClosedMeansReleased,
           [Win!Next]_(Win!vars)
    PROVE  Win!ClosedMeansReleased'
  <1> USE PlacementAssumption
          DEF Win!WellPlaced, WTypeOK, WSteps, HandleShape, Registered, LifeShape,
              Win!ClosedMeansReleased, Win!object, Win!Goto, Win!Finish, Win!Direction
  <1>1. CASE UNCHANGED Win!vars
    BY <1>1 DEF Win!vars
  <1>2. ASSUME Win!Open \/ Win!OpenFails \/ Win!Destroy \/ Win!Close
        PROVE  Win!ClosedMeansReleased'
    BY <1>2 DEF Win!Open, Win!OpenFails, Win!Destroy, Win!Close, Win!Quiet, Win!vars
  <1>3. ASSUME Win!RequestStop \/ Win!CancelPending \/ Win!CancelAgain
        PROVE  Win!ClosedMeansReleased'
    BY <1>3 DEF Win!RequestStop, Win!CancelPending, Win!CancelAgain, Win!CancelLocked,
                Win!Reached
  <1>4. ASSUME NEW c \in Users, NEW requested \in BOOLEAN, Win!Begin(c, requested)
        PROVE  Win!ClosedMeansReleased'
    BY <1>4 DEF Win!Begin
  <1>5. ASSUME NEW c \in Users, Win!Register(c) PROVE Win!ClosedMeansReleased'
    BY <1>5 DEF Win!Register
  <1>6. ASSUME NEW c \in Users, Win!Arm(c) PROVE Win!ClosedMeansReleased'
    BY <1>6 DEF Win!Arm
  <1>7. ASSUME NEW c \in Users, Win!Check(c) \/ Win!Enter(c) PROVE Win!ClosedMeansReleased'
    BY <1>7 DEF Win!Check, Win!Enter
  <1>8. ASSUME NEW c \in Users, Win!Complete(c) \/ Win!Abort(c)
        PROVE  Win!ClosedMeansReleased'
    BY <1>8 DEF Win!Complete, Win!Abort
  <1>9. ASSUME NEW c \in Users, Win!Leave(c) PROVE Win!ClosedMeansReleased'
    BY <1>9 DEF Win!Leave
  <1>10. ASSUME NEW c \in Users, Win!Release(c) PROVE Win!ClosedMeansReleased'
    BY <1>10 DEF Win!Release
  <1>11. ASSUME NEW c \in Users, Win!Return(c) PROVE Win!ClosedMeansReleased'
    BY <1>11 DEF Win!Return
  <1>12. ASSUME NEW c \in Users, Win!RequestToken(c) \/ Win!RunCallback(c)
         PROVE  Win!ClosedMeansReleased'
    BY <1>12 DEF Win!RequestToken, Win!RunCallback
  <1>13. ASSUME NEW c \in Users, Win!Notify(c) PROVE Win!ClosedMeansReleased'
    BY <1>13 DEF Win!Notify, Win!Reached
  <1> QED
    BY <1>1, <1>2, <1>3, <1>4, <1>5, <1>6, <1>7, <1>8, <1>9, <1>10, <1>11, <1>12, <1>13
    DEF Win!Next, Win!CallStep
-----------------------------------------------------------------------------
(* The theorems. *)

\* Nothing is open, registered or asked for at first.
LEMMA WInvInit == Win!Init => WInv
  <1> SUFFICES ASSUME Win!Init PROVE WInv
    OBVIOUS
  <1>1. WTypeOK
    BY DEF Win!Init, WTypeOK, WSteps, WResults
  <1>2. HandleShape /\ WTokenShape /\ CancelShape /\ LifeShape /\ Win!ClosedMeansReleased
    BY DEF Win!Init, HandleShape, Registered, WTokenShape, CancelShape, LifeShape,
           Win!ClosedMeansReleased
  <1> QED  BY <1>1, <1>2 DEF WInv

\* Every step keeps the invariant.
LEMMA WInvStep == WInv /\ [Win!Next]_(Win!vars) => WInv'
  BY WTypeStep, HandleStep, WTokenStep, CancelStep, LifeStep, CloseStep DEF WInv

\* The invariant holds in every state that a program can reach.
THEOREM WindowsInvariant == Win!Spec => []WInv
  BY WInvInit, WInvStep, PTL DEF Win!Spec

(* The destructor closes the pipes' handles only when no thread is inside a native   *)
(* call, on its way into one, or still has its own handle to give back: its loop      *)
(* over the registered handles misses nobody.                                         *)
THEOREM ClosedIsReleased == Win!Spec => []ClosedMeansReleased
  <1>1. WInv => ClosedMeansReleased
    BY DEF WInv, ClosedMeansReleased
  <1> QED  BY WindowsInvariant, <1>1, PTL

-----------------------------------------------------------------------------
(* Refinement: each step is a step of NativeIo or leaves all that NativeIo     *)
(* sees of it as it is.                                                        *)

WBusy == {c \in Users : wPc[c] # "idle"}
WTokens == {c \in Users : wToken[c]}

\* No call is under way at first.
LEMMA WNativeInit == Win!Init => Win!Native!Init
  BY DEF Win!Init, Win!Native!Init

\* A step that begins no call, ends none and asks for nothing.
WUnseen == \/ Win!Open \/ Win!OpenFails \/ Win!Close \/ Win!CancelPending \/ Win!CancelAgain
           \/ \E c \in Users :
                 \/ Win!Register(c) \/ Win!Arm(c) \/ Win!Check(c) \/ Win!Enter(c)
                 \/ Win!Abort(c) \/ Win!Leave(c) \/ Win!Release(c) \/ Win!Complete(c)
                 \/ Win!RunCallback(c) \/ Win!Notify(c)

\* Registration, flags, handles and lost cancellations stay inside the object.
LEMMA WUnseenStep ==
    ASSUME WInv, WUnseen
    PROVE  UNCHANGED Win!Native!vars
  <1> USE DEF WInv, WTypeOK, Win!object, Win!Goto, Win!Finish
  <1>1. \A d \in Users : (wPc'[d] = "idle" <=> wPc[d] = "idle")
    BY DEF WUnseen, Win!Open, Win!OpenFails, Win!vars, Win!Close, Win!CancelPending,
           Win!CancelAgain, Win!Register, Win!Arm, Win!Check, Win!Enter, Win!Abort, Win!Leave,
           Win!Release, Win!Complete, Win!RunCallback, Win!Notify
  <1>2. UNCHANGED <<wStopped, wToken, wEnded>>
    BY DEF WUnseen, Win!Open, Win!OpenFails, Win!vars, Win!Close, Win!CancelPending,
           Win!CancelAgain, Win!Register, Win!Arm, Win!Check, Win!Enter, Win!Abort, Win!Leave,
           Win!Release, Win!Complete, Win!RunCallback, Win!Notify
  <1> QED  BY <1>1, <1>2 DEF Win!Native!vars

\* The other steps are the four of NativeIo; the destructor stops.
LEMMA WNativeStep ==
    ASSUME WInv, [Win!Next]_(Win!vars)
    PROVE  [Win!Native!Next]_(Win!Native!vars)
  <1> USE DEF WInv, WTypeOK, Win!object, Win!Goto, Win!Finish
  <1>1. CASE UNCHANGED Win!vars
    BY <1>1 DEF Win!vars, Win!Native!vars
  <1>2. CASE WUnseen
    BY <1>2, WUnseenStep
  <1>3. CASE Win!Destroy \/ Win!RequestStop
    <2>1. Win!Native!RequestStop
      BY <1>3 DEF Win!Destroy, Win!RequestStop, Win!Native!RequestStop
    <2> QED  BY <2>1 DEF Win!Native!Next
  <1>4. ASSUME NEW c \in Users, Win!RequestToken(c) PROVE Win!Native!RequestToken(c)
    BY <1>4 DEF Win!RequestToken, Win!Native!RequestToken
  <1>5. ASSUME NEW c \in Users, NEW requested \in BOOLEAN, Win!Begin(c, requested)
        PROVE  Win!Native!Begin(c)
    <2>1. wPc[c] = "idle" /\ ~wToken[c]
      BY <1>5 DEF Win!Begin, WTokenShape
    <2>2. WBusy' = WBusy \cup {c}
      BY <1>5 DEF Win!Begin, WBusy
    <2>3. WTokens' = IF requested THEN WTokens \cup {c} ELSE WTokens
      BY <1>5, <2>1 DEF Win!Begin, WTokens
    <2> QED  BY <1>5, <2>1, <2>2, <2>3 DEF Win!Begin, WBusy, WTokens, Win!Native!Begin
  <1>6. ASSUME NEW c \in Users, Win!Return(c) PROVE Win!Native!Return(c)
    <2>1. wPc[c] = "return"
      BY <1>6 DEF Win!Return
    <2>2. wHow[c] = "cancelled" => Win!Native!Asked(c)
      BY DEF CancelShape, Win!Asked, Win!Native!Asked
    <2>3. WBusy' = WBusy \ {c} /\ WTokens' = WTokens \ {c}
      BY <1>6 DEF Win!Return, WBusy, WTokens
    <2>4. PICK result \in {"done", "cancelled"} : wHow[c] = result
      BY DEF WResults
    <2>5. Win!Native!End(c, result)
      BY <1>6, <2>1, <2>2, <2>3, <2>4 DEF Win!Return, WBusy, WTokens, Win!Native!End
    <2> QED  BY <2>5 DEF Win!Native!Return
  <1> QED
    BY <1>1, <1>2, <1>3, <1>4, <1>5, <1>6 DEF Win!Next, Win!CallStep, WUnseen,
          Win!Native!Next

(* What a transport may rely on without any fairness: no call is reported cancelled   *)
(* for a flag or an abort that was meant for the call before it in its direction, nor  *)
(* for one in the other direction.                                                     *)
THEOREM WindowsRefinement == Win!Spec => Win!Native!SafeSpec
  BY WNativeInit, WNativeStep, WindowsInvariant, PTL DEF Win!Spec, Win!Native!SafeSpec

-----------------------------------------------------------------------------
(* Either platform. *)

\* A step of one class is none of the other.
LEMMA PlatformStep ==
    [PlatformNext]_<<vars, wVars>> => [Next]_vars /\ [Win!Next]_(Win!vars)
  BY DEF PlatformNext, wVars, Win!vars, Win!object

(* What holds of each class holds of a program that may open either of them.            *)
THEOREM PlatformsAreApart == PlatformSpec => Spec /\ Win!Spec
  BY PlatformStep, PTL DEF PlatformSpec, PlatformInit, Spec, Win!Spec
=============================================================================
