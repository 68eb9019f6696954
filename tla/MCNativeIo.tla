----------------------------- MODULE MCNativeIo -----------------------------
(* An instance of NativePlatforms for TLC: one owner, two threads that take turns in *)
(* reading on Windows and one that writes.                                           *)
EXTENDS NativePlatforms, TLC

CONSTANTS first, second, third, owner

MCOwners == {owner}
MCUsers == {first, second, third}
MCDirections == {"read", "write"}
MCDirectionOf == first :> "read" @@ second :> "read" @@ third :> "write"

\* Blocking descriptors and a SIGPIPE that would kill; or one endpoint nonblocking
\* and a signal already pending behind the mask.
MCEnvironments ==
    {[nonblock |-> {}, masked |-> FALSE, pending |-> FALSE],
     [nonblock |-> {Reader}, masked |-> TRUE, pending |-> TRUE]}
=============================================================================
