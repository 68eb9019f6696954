--------------------------- MODULE MCStdioTransport ---------------------------
(* Instances of StdioTransport for TLC: frames of one and two bytes against a *)
(* bound that two of them fill.                                               *)
EXTENDS StdioTransport

CONSTANTS short, long, longer

MCSizeOf == (short :> 1) @@ (long :> 2) @@ (longer :> 2)
AllFrames == {short, long, longer}
=============================================================================
