------------------------------ MODULE NativeIo ------------------------------
(***************************************************************************)
(* What a transport relies on of native I/O, whichever the platform: each  *)
(* caller has one call at a time; a call is cancelled only if the object   *)
(* was stopped or the call's own token was; and a call so asked returns,   *)
(* whatever the peer does. PosixIo and WindowsIo implement it.             *)
(***************************************************************************)
CONSTANT Callers   \* threads that read and write

VARIABLES busy,     \* callers that are inside read_some or write_some
          stopped,  \* request_stop was called
          tokens,   \* callers whose call's token has its stop requested
          ended     \* how each caller's last call ended

vars == <<busy, stopped, tokens, ended>>

Init == /\ busy = {} /\ stopped = FALSE /\ tokens = {}
        /\ ended = [c \in Callers |-> "done"]

Asked(c) == stopped \/ c \in tokens

\* A token may have been requested before the call.
Begin(c) ==
    /\ c \notin busy
    /\ busy' = busy \cup {c}
    /\ tokens' \in {tokens, tokens \cup {c}}
    /\ UNCHANGED <<stopped, ended>>

\* Bytes, the end of the stream and errors are all ways of being done.
End(c, how) ==
    /\ c \in busy
    /\ how = "cancelled" => Asked(c)
    /\ busy' = busy \ {c}
    /\ tokens' = tokens \ {c}
    /\ ended' = [ended EXCEPT ![c] = how]
    /\ UNCHANGED stopped

Return(c) == \E how \in {"done", "cancelled"} : End(c, how)

RequestStop == stopped' = TRUE /\ UNCHANGED <<busy, tokens, ended>>

RequestToken(c) ==
    /\ c \in busy
    /\ tokens' = tokens \cup {c}
    /\ UNCHANGED <<busy, stopped, ended>>

Next == \/ \E c \in Callers : Begin(c) \/ Return(c) \/ RequestToken(c)
        \/ RequestStop

\* A call that is asked to end does not wait for the peer.
Live == \A c \in Callers : WF_vars(Asked(c) /\ Return(c))

\* What needs no fairness of the threads.
SafeSpec == Init /\ [][Next]_vars

Spec == SafeSpec /\ Live
=============================================================================
