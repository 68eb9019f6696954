------------------------------ MODULE MCServer ------------------------------
(* Small instances of Server. *)
EXTENDS Server

CONSTANTS init, ping, c1, c2

MCMethodOf == init :> "initialize" @@ ping :> "ping" @@ c1 :> "call" @@ c2 :> "call"

\* Calls with ids of their own.
MCDistinctIds == init :> Text(0) @@ ping :> Text(1) @@ c1 :> Signed(1)
                 @@ c2 :> Unsigned(2)
\* The host uses an integer id again, in its other representation.
MCReusedIds == init :> Text(0) @@ ping :> Text(1) @@ c1 :> Signed(1)
               @@ c2 :> Unsigned(1)

TwoCalls == {init, c1, c2}
Everything == {init, ping, c1, c2}
OnlyApp == {App}
OnlyOwner == {Owner}
=============================================================================
