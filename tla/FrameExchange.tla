---------------------------- MODULE FrameExchange ----------------------------
(* The reader is given an input, or the server a reply, and what they make of *)
(* it is held against the limits.                                              *)
EXTENDS FrameScan, FrameBuffers

CONSTANTS Inputs,  \* what a host sends, to its end
          Replies  \* what the server has to say, under which limits, behind what is queued

ASSUME InputsAssumption == Inputs \subseteq Seq(Bytes)
\* start refuses limits of 0; what is queued is within max_outbound_bytes.
ASSUME RepliesAssumption ==
    \A reply \in Replies :
        /\ reply.opt.frame \in Nat \ {0} /\ reply.opt.outbound \in Nat \ {0}
        /\ reply.queued \in 0 .. reply.opt.outbound
        /\ reply.pieces \in Seq(Nat) /\ reply.substitute \in Seq(Nat)

VARIABLES side,   \* "in" or "out"
          given,  \* the input, or the reply
          outcome    \* once it is over: the events, or what became of the reply

frameVars == <<side, given, outcome>>

FrameInit == /\ outcome = {}
             /\ \/ side = "in" /\ given \in Inputs
                \/ side = "out" /\ given \in Replies

ReadInput == /\ outcome = {} /\ side = "in"
             /\ outcome' = {ReadAll(given)}
             /\ UNCHANGED <<side, given>>

EmitReply == /\ outcome = {} /\ side = "out"
             /\ outcome' = {Emit(given.opt, given.queued, given.pieces, given.substitute)}
             /\ UNCHANGED <<side, given>>

FrameNext == ReadInput \/ EmitReply

FrameSpec == FrameInit /\ [][FrameNext]_frameVars

(* The limits of a frame hold both ways. The reader hands over exactly the lines that  *)
(* are JSON within both limits, in order, up to the first that breaks one: the scan     *)
(* before the parse is right about the depth of every text that parses, brackets in     *)
(* strings and escaped quotes included. emit and send agree on what a frame may take:   *)
(* the server replaces exactly the replies that the transport could never take, and     *)
(* what it lets through is refused only while the queue is too full for it.              *)
FramesWithinLimits ==
    \A m \in outcome : IF side = "in" THEN EventsAreDue(given, m) ELSE EmitsWhatFits(given, m)
=============================================================================
