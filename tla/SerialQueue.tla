---------------------------- MODULE SerialQueue ----------------------------
(***************************************************************************)
(* What an executor promises to the invocations it admits: at most         *)
(* Capacity wait, one runs at a time, in the order of admission and at     *)
(* most once; closing is permanent and takes back everything that waits;   *)
(* and, under Live, whatever waits is eventually run or taken back.        *)
(***************************************************************************)
EXTENDS Naturals, Sequences, SequencesExt

CONSTANTS Work,        \* the invocations
          None,        \* no invocation
          Capacity,    \* how many may wait
          UntilClosed  \* invocations that may run until the queue is closed

VARIABLES waiting,   \* admitted and not yet begun, oldest first
          running,   \* the one that runs, or None
          admitted,  \* every invocation ever admitted
          closed     \* admission is over for good

vars == <<waiting, running, admitted, closed>>

Init == /\ waiting = <<>>
        /\ running = None
        /\ admitted = {}
        /\ closed \in BOOLEAN

Admit(w) == /\ ~closed
            /\ w \notin admitted
            /\ Len(waiting) < Capacity
            /\ waiting' = Append(waiting, w)
            /\ admitted' = admitted \cup {w}
            /\ UNCHANGED <<running, closed>>

Begin == /\ ~closed
         /\ running = None
         /\ waiting # <<>>
         /\ running' = Head(waiting)
         /\ waiting' = Tail(waiting)
         /\ UNCHANGED <<admitted, closed>>

End == /\ running # None
       /\ running' = None
       /\ UNCHANGED <<waiting, admitted, closed>>

Withdraw(i) == /\ i \in 1..Len(waiting)
               /\ waiting' = RemoveAt(waiting, i)
               /\ UNCHANGED <<running, admitted, closed>>

Close == /\ closed' = TRUE
         /\ waiting' = <<>>
         /\ UNCHANGED <<running, admitted>>

Next == \/ \E w \in Work : Admit(w)
        \/ Begin
        \/ End
        \/ \E i \in 1..Len(waiting) : Withdraw(i)
        \/ Close

Spec == Init /\ [][Next]_vars

Live == /\ WF_vars(Begin)
        /\ WF_vars((closed \/ running \notin UntilClosed) /\ End)

LiveSpec == Spec /\ Live
=============================================================================
