---------------------------- MODULE FrameBuffers ----------------------------
(***************************************************************************)
(* The limit of a frame on its way out, which is computed three times: by   *)
(* the server, which counts what a reply would take; by stdio_transport's   *)
(* send, which encodes it; and by send again, for what the queue has left.  *)
(*                                                                          *)
(* An encoding is the sequence of the sizes in which the JSON serializer    *)
(* gives it to a stream: 0 for a single character that is put, n > 0 for n  *)
(* bytes that are written. A stream whose buffer takes less throws.         *)
(***************************************************************************)
EXTENDS Naturals, Sequences, Iteration

Smaller(a, b) == IF a < b THEN a ELSE b

Requested(piece) == IF piece = 0 THEN 1 ELSE piece

\* What a buffer has taken, and whether it has taken everything so far.
Taken == [size : Nat, ok : BOOLEAN]
Nothing == [size |-> 0, ok |-> TRUE]

\* counting_buffer takes as much of a piece as it can.
Count(st, piece, limit) ==
    LET room == limit - st.size IN
    IF ~st.ok THEN st
    ELSE [size |-> st.size + Smaller(room, Requested(piece)), ok |-> Requested(piece) <= room]

Counted(pieces, limit) ==
    Iterate(Nothing, [i \in 1 .. Len(pieces) |-> [st \in Taken |-> Count(st, pieces[i], limit)]])

FrameFits(pieces, limit) == Counted(pieces, limit)[Len(pieces)].ok

\* bounded_buffer takes a piece or nothing of it.
Bound(st, piece, limit) ==
    IF ~st.ok \/ Requested(piece) > limit - st.size THEN [st EXCEPT !.ok = FALSE]
    ELSE [st EXCEPT !.size = @ + Requested(piece)]

Bounded(pieces, limit) ==
    Iterate(Nothing, [i \in 1 .. Len(pieces) |-> [st \in Taken |-> Bound(st, pieces[i], limit)]])

Encoded(pieces, limit) == Bounded(pieces, limit)[Len(pieces)]

-----------------------------------------------------------------------------
(* opt holds max_frame_bytes and max_outbound_bytes, which start wants positive. *)

\* Variant: no room is left for the newline.
MaxEncodedWhole(opt) == Smaller(opt.frame, opt.outbound)

\* Room is left for the newline.
MaxEncoded(opt) == Smaller(opt.frame, opt.outbound - 1)

Send(opt, queued, pieces) ==
    LET encoded == Encoded(pieces, MaxEncoded(opt)) IN
    IF ~encoded.ok THEN "limit"
    ELSE IF encoded.size + 1 > opt.outbound - queued THEN "full"
    ELSE "queued"

\* emit: an error stands in for what does not fit, if the error itself does. What
\* was replaced, and what send said.
Emit(opt, queued, pieces, substitute) ==
    LET replaced == ~FrameFits(pieces, MaxEncoded(opt)) IN
    [replaced |-> replaced,
     sent |-> IF ~replaced THEN Send(opt, queued, pieces)
              ELSE IF FrameFits(substitute, MaxEncoded(opt)) THEN Send(opt, queued, substitute)
              ELSE "given up"]

-----------------------------------------------------------------------------
(* What is to come of it. *)

\* The bytes of the first n pieces.
Sum(pieces) ==
    Iterate(0, [i \in 1 .. Len(pieces) |-> [n \in Nat |-> n + Requested(pieces[i])]])

Length(pieces) == Sum(pieces)[Len(pieces)]

Sendable(opt, pieces) == Length(pieces) <= opt.frame /\ Length(pieces) + 1 <= opt.outbound

\* A reply that can ever be sent is not replaced; what the server lets through never
\* fails to encode; and it is refused only while there is no room for it.
EmitsWhatFits(reply, emitted) ==
    LET opt == reply.opt
        frame == IF emitted.replaced THEN reply.substitute ELSE reply.pieces
    IN  /\ emitted.replaced <=> ~Sendable(opt, reply.pieces)
        /\ emitted.sent =
               IF ~Sendable(opt, frame) THEN "given up"
               ELSE IF reply.queued + Length(frame) + 1 > opt.outbound THEN "full"
               ELSE "queued"
=============================================================================
