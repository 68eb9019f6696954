--------------------------- MODULE StdioTransport ---------------------------
(***************************************************************************)
(* stdio_transport: one reader thread, one writer thread, an outbound      *)
(* queue bounded in bytes, a flush budget that begins when the transport   *)
(* closes, and one close event for the application.                        *)
(*                                                                         *)
(* A step is a critical section of mutex_, a native call that blocks or    *)
(* returns, or the begin or end of a callback. Owner is the thread that    *)
(* starts and joins; App is any other thread of the program; the message   *)
(* and close callbacks run on Reader or Writer.                            *)
(***************************************************************************)
EXTENDS Integers, Sequences, SequencesExt

\* The reasons a transport closes for.
Causes == {"eof", "requested_stop", "io_error", "protocol_limit"}

CONSTANTS Frames,        \* frames that may be sent, each at most once
          SizeOf,        \* SizeOf[f]: encoded bytes of f, the newline included
          MaxOutbound,   \* options_.max_outbound_bytes
          OneShotCancel, \* cancellation reaches only a native call in progress (Win32)
          Owner, App, Reader, Writer,
          None           \* no frame, no reason

ASSUME SizeAssumption == SizeOf \in [Frames -> Nat \ {0}]
ASSUME MaxOutboundAssumption == MaxOutbound \in Nat \ {0}
ASSUME NoneAssumption == None \notin Frames \union Causes
ASSUME ThreadsAssumption ==
    Owner \notin {App, Reader, Writer} /\ App \notin {Reader, Writer} /\ Reader # Writer

VARIABLES consumed, started, released, closing,  \* the flags of the same names
          reason,        \* reason_
          late,          \* now >= flush_deadline_
          closeDone,     \* close_done_
          closeClaimed,  \* close_claimed_
          done,          \* workers whose reader_done_ or writer_done_ is true
          readerStop,    \* reader_stop_ has been requested
          ioOpen,        \* io_ holds a native_stdio
          ioStop,        \* its request_stop has been called
          struck,        \* native calls a cancellation has reached
          queue,         \* queue_
          queuedBytes,   \* queued_bytes_
          pc,            \* pc[w]: where a worker is
          atEof,         \* the reader's last line is the one before end of input
          active,        \* the writer's frame
          offset,        \* bytes of it written
          owner,         \* where the owner is
          signalling,    \* threads between begin_close's unlock and request_stop
          admitted,      \* history: frames accepted by send, in order
          wire,          \* history: frames written out whole, in order
          events         \* history: reasons given to the close callback

Workers == {Reader, Writer}

lifecycle == <<consumed, started, released, closing, reason, late>>
closure == <<closeDone, closeClaimed, events>>
native == <<ioOpen, ioStop, struck>>
outbound == <<queue, queuedBytes, admitted>>
writing == <<active, offset, wire>>
vars == <<lifecycle, closure, done, readerStop, native, outbound, pc, atEof, writing,
          owner, signalling>>

Init == /\ consumed = FALSE /\ started = FALSE /\ released = FALSE /\ closing = FALSE
        /\ reason = None
        /\ late = TRUE
        /\ closeDone = TRUE /\ closeClaimed = FALSE /\ events = <<>>
        /\ done = Workers
        /\ readerStop = FALSE
        /\ ioOpen = FALSE /\ ioStop = FALSE /\ struck = {}
        /\ queue = <<>> /\ queuedBytes = 0 /\ admitted = <<>>
        /\ pc = [w \in Workers |-> "none"]
        /\ atEof = FALSE
        /\ active = None /\ offset = 0 /\ wire = <<>>
        /\ owner = "idle"
        /\ signalling = {}

-----------------------------------------------------------------------------
(* Closing *)

\* Under the lock: the first cause wins and starts the flush budget.
BeginClose(t, cause) ==
    /\ consumed' = TRUE
    /\ IF closing
       THEN UNCHANGED <<closing, reason, late, closeDone, signalling>>
       ELSE /\ closing' = TRUE
            /\ reason' = cause
            /\ late' = FALSE
            /\ closeDone' = ~started
            /\ signalling' = signalling \union {t}
    /\ UNCHANGED <<started, released, closeClaimed, events>>

\* What a native call needs to be cancelled: its token or the whole endpoint stopped.
Cancellable(w) == ioStop \/ (w = Reader /\ readerStop)

\* The native calls that cancellation reaches when the stop flags have these values.
\* A wake pipe holds the wake until the call looks; CancelSynchronousIo does not.
Struck(tokenStopped, stopped) ==
    {w \in Workers : pc[w] = "blocked" /\ (stopped \/ (w = Reader /\ tokenStopped))}

\* reader_stop_.request_stop() and the callback a native read has registered with it.
RequestReaderStop(t) ==
    /\ t \in signalling
    /\ readerStop' = TRUE
    /\ struck' = struck \union Struck(TRUE, FALSE)
    /\ signalling' = signalling \ {t}
    /\ UNCHANGED <<lifecycle, closure, done, ioOpen, ioStop, outbound, pc, atEof, writing, owner>>

FlushBudgetEnds ==
    /\ ~late
    /\ late' = TRUE
    /\ UNCHANGED <<consumed, started, released, closing, reason, closure, done, readerStop,
                   native, outbound, pc, atEof, writing, owner, signalling>>

-----------------------------------------------------------------------------
(* start *)

Run(workers) == [w \in Workers |-> IF w \in workers THEN "gate" ELSE pc[w]]

StartRunning ==
    /\ owner \in {"idle", "joined"} /\ ~consumed
    /\ owner' = "idle"
    /\ consumed' = TRUE /\ started' = TRUE /\ released' = TRUE
    /\ ioOpen' = TRUE
    /\ done' = {}
    /\ pc' = Run(Workers)
    /\ UNCHANGED <<closing, reason, late, closure, readerStop, ioStop, struck, outbound, atEof,
                   writing, signalling>>

\* Bad limits, or endpoints that do not open: the transport is used up.
StartRefused ==
    /\ owner \in {"idle", "joined"} /\ ~consumed
    /\ consumed' = TRUE
    /\ UNCHANGED <<started, released, closing, reason, late, closure, done, readerStop, native,
                   outbound, pc, atEof, writing, owner, signalling>>

\* A thread does not start: those that did are let through the gate and joined.
StartFails(created) ==
    /\ owner \in {"idle", "joined"} /\ ~consumed
    /\ consumed' = TRUE /\ closing' = TRUE /\ released' = TRUE
    /\ ioOpen' = TRUE /\ ioStop' = TRUE
    /\ done' = Workers \ created
    /\ pc' = Run(created)
    /\ owner' = "unwinding"
    /\ UNCHANGED <<started, reason, late, closure, readerStop, struck, outbound, atEof, writing,
                   signalling>>

StartUnwound ==
    /\ owner = "unwinding" /\ done = Workers
    /\ ioOpen' = FALSE
    /\ owner' = "idle"
    /\ UNCHANGED <<lifecycle, closure, done, readerStop, ioStop, struck, outbound, pc, atEof,
                   writing, signalling>>

-----------------------------------------------------------------------------
(* send *)

Fresh(f) == f \notin ToSet(admitted)

\* queued_bytes_ counts the frame being written, so this never underflows.
Fits(f) == SizeOf[f] <= MaxOutbound - queuedBytes

Admit(f) ==
    /\ Fresh(f)
    /\ started /\ ~closing /\ Fits(f)
    /\ queue' = Append(queue, f)
    /\ queuedBytes' = queuedBytes + SizeOf[f]
    /\ admitted' = Append(admitted, f)

AppSends(f) ==
    /\ Admit(f)
    /\ UNCHANGED <<lifecycle, closure, done, readerStop, native, pc, atEof, writing, owner,
                   signalling>>

-----------------------------------------------------------------------------
(* stop, wait and the destructor *)

\* From the program, or from a callback on a worker.
InCallback(w) == pc[w] = "message" \/ pc[w] = "closed"

Stop(t) ==
    /\ t = Owner => owner \in {"idle", "joined"}
    /\ t \in Workers => InCallback(t)
    /\ t \notin signalling
    /\ BeginClose(t, "requested_stop")
    /\ UNCHANGED <<done, readerStop, native, outbound, pc, atEof, writing, owner>>

\* join_until begins; the callbacks' own wait() returns invalid_state at once.
BeginJoin ==
    /\ owner = "idle" /\ Owner \notin signalling
    /\ owner' = "joining"
    /\ UNCHANGED <<lifecycle, closure, done, readerStop, native, outbound, pc, atEof, writing,
                   signalling>>

\* Variants: the budget is not waited for, or a cancellation is not repeated.
CancelEarly ==
    /\ ioStop' = (ioStop \/ (ioOpen /\ closing))
    /\ struck' = IF ioOpen /\ closing THEN struck \union Struck(readerStop, ioStop') ELSE struck
    /\ UNCHANGED ioOpen
CancelOnce ==
    /\ ioStop' = (ioStop \/ (ioOpen /\ closing /\ late))
    /\ struck' = IF ioStop' # ioStop THEN struck \union Struck(readerStop, TRUE) ELSE struck
    /\ UNCHANGED ioOpen

\* One turn of the loop: cut native I/O off once the budget is spent, and repeat
\* cancellations for calls that were only about to begin.
CancelWhileJoining ==
    /\ ioStop' = (ioStop \/ (ioOpen /\ closing /\ late))
    /\ struck' = IF ioOpen /\ closing THEN struck \union Struck(readerStop, ioStop') ELSE struck
    /\ UNCHANGED ioOpen

AllDone == done = Workers /\ closeDone

JoinTurn ==
    /\ owner = "joining"
    /\ CancelWhileJoining
    /\ owner' = IF AllDone THEN "joined" ELSE "joining"
    /\ UNCHANGED <<lifecycle, closure, done, readerStop, outbound, pc, atEof, writing, signalling>>

\* wait_for's deadline; its last turn still cancels.
JoinTimesOut ==
    /\ owner = "joining" /\ ~AllDone
    /\ CancelWhileJoining
    /\ owner' = "idle"
    /\ UNCHANGED <<lifecycle, closure, done, readerStop, outbound, pc, atEof, writing, signalling>>

-----------------------------------------------------------------------------
(* Both workers *)

Goto(w, place) == pc' = [pc EXCEPT ![w] = place]

Free(w) == w \notin signalling

\* Released by a start that failed, a worker leaves at once.
PassGate(w) ==
    /\ pc[w] = "gate" /\ released
    /\ IF started
       THEN Goto(w, "loop") /\ UNCHANGED done
       ELSE Goto(w, "gone") /\ done' = done \union {w}
    /\ UNCHANGED <<lifecycle, closure, readerStop, native, outbound, atEof, writing, owner,
                   signalling>>

\* The native call itself starts after its last look at the stop flags.
EnterNative(w) ==
    /\ pc[w] = "entering"
    /\ Goto(w, "blocked")
    /\ UNCHANGED <<lifecycle, closure, done, readerStop, native, outbound, atEof, writing,
                   owner, signalling>>

Interrupted(w) ==
    /\ pc[w] = "blocked"
    /\ IF OneShotCancel THEN w \in struck ELSE Cancellable(w)

\* Variant: every worker that leaves publishes.
PublishCloseEach(w) ==
    /\ pc[w] = "publish" /\ Free(w)
    /\ IF ~started \/ reason = None
       THEN Goto(w, "leaving") /\ UNCHANGED events
       ELSE Goto(w, "closed") /\ events' = Append(events, reason)
    /\ closeClaimed' = TRUE
    /\ UNCHANGED <<lifecycle, closeDone, done, readerStop, native, outbound, atEof, writing,
                   owner, signalling>>

\* publish_close: one worker claims the event and calls back without the lock.
PublishClose(w) ==
    /\ pc[w] = "publish" /\ Free(w)
    /\ IF ~started \/ reason = None \/ closeClaimed
       THEN /\ Goto(w, "leaving")
            /\ UNCHANGED <<closeClaimed, events>>
       ELSE /\ Goto(w, "closed")
            /\ closeClaimed' = TRUE
            /\ events' = Append(events, reason)
    /\ UNCHANGED <<lifecycle, closeDone, done, readerStop, native, outbound, atEof, writing,
                   owner, signalling>>

\* It returns or throws; either way the closure is done.
CloseCallbackEnds(w) ==
    /\ pc[w] = "closed" /\ Free(w)
    /\ Goto(w, "leaving")
    /\ closeDone' = TRUE
    /\ UNCHANGED <<lifecycle, closeClaimed, events, done, readerStop, native, outbound, atEof,
                   writing, owner, signalling>>

WorkerLeaves(w) ==
    /\ pc[w] = "leaving"
    /\ done' = done \union {w}
    /\ Goto(w, "gone")
    /\ UNCHANGED <<lifecycle, closure, readerStop, native, outbound, atEof, writing, owner,
                   signalling>>

-----------------------------------------------------------------------------
(* The reader *)

\* A worker that closes the transport leaves its loop for publish_close.
ReaderCloses(cause) ==
    /\ BeginClose(Reader, cause)
    /\ Goto(Reader, "publish")
    /\ UNCHANGED <<done, readerStop, outbound, atEof, writing, owner>>

ReaderLooks ==
    /\ pc[Reader] = "loop"
    /\ Goto(Reader, IF readerStop \/ ioStop THEN "publish" ELSE "entering")
    /\ UNCHANGED <<lifecycle, closure, done, readerStop, native, outbound, atEof, writing,
                   owner, signalling>>

ReadReturnsBytes ==
    /\ pc[Reader] = "blocked"
    /\ Goto(Reader, "bytes")
    /\ struck' = struck \ {Reader}
    /\ UNCHANGED <<lifecycle, closure, done, readerStop, ioOpen, ioStop, outbound, atEof,
                   writing, owner, signalling>>

\* End of input, with or without a last unterminated line.
ReadReturnsEof ==
    /\ pc[Reader] = "blocked"
    /\ struck' = struck \ {Reader}
    /\ \/ /\ atEof' = TRUE
          /\ Goto(Reader, "frame")
          /\ UNCHANGED <<lifecycle, closure, done, readerStop, outbound, writing, owner,
                         signalling>>
       \/ ReaderCloses("eof")
    /\ UNCHANGED <<ioOpen, ioStop>>

\* A failed or a cancelled read; only an unasked one closes the transport.
ReadReturnsError ==
    /\ pc[Reader] = "blocked"
    /\ struck' = struck \ {Reader}
    /\ \/ ~readerStop /\ ReaderCloses("io_error")
       \/ /\ readerStop
          /\ Goto(Reader, "publish")
          /\ UNCHANGED <<lifecycle, closure, done, readerStop, outbound, atEof, writing, owner,
                         signalling>>
    /\ UNCHANGED <<ioOpen, ioStop>>

\* Between two bytes of a chunk; the chunk ends, a line ends, or it grows too long.
ReaderScans ==
    /\ pc[Reader] = "bytes"
    /\ \/ /\ \/ readerStop /\ Goto(Reader, "publish")
             \/ Goto(Reader, "loop")
             \/ ~readerStop /\ Goto(Reader, "frame")
          /\ UNCHANGED <<lifecycle, closure, done, readerStop, outbound, atEof, writing, owner,
                         signalling>>
       \/ ~readerStop /\ \E cause \in {"protocol_limit", "io_error"} : ReaderCloses(cause)
    /\ UNCHANGED native

\* After a line: the next bytes, or the end of input it was found before.
AfterFrame ==
    IF atEof
    THEN ReaderCloses("eof")
    ELSE /\ Goto(Reader, "bytes")
         /\ UNCHANGED <<lifecycle, closure, done, readerStop, outbound, atEof, writing, owner,
                        signalling>>

FrameEmpty == pc[Reader] = "frame" /\ AfterFrame /\ UNCHANGED native

FrameTooDeep ==
    /\ pc[Reader] = "frame"
    /\ ReaderCloses("protocol_limit")
    /\ UNCHANGED native

\* A diagnostic answers a line that does not parse; its send has a step of its own.
FrameMalformed(f) ==
    /\ pc[Reader] = "frame"
    /\ \/ /\ Admit(f)
          /\ Goto(Reader, "answered")
          /\ UNCHANGED <<lifecycle, closure, done, readerStop, atEof, writing, owner, signalling>>
       \/ /\ ~(started /\ ~closing /\ Fits(f))
          /\ Goto(Reader, "refused")
          /\ UNCHANGED <<lifecycle, closure, done, readerStop, outbound, atEof, writing, owner,
                         signalling>>
    /\ UNCHANGED native

FrameAnswered == pc[Reader] = "answered" /\ AfterFrame /\ UNCHANGED native

FrameNotAnswered ==
    /\ pc[Reader] = "refused"
    /\ ReaderCloses("protocol_limit")
    /\ UNCHANGED native

FrameParses ==
    /\ pc[Reader] = "frame"
    /\ Goto(Reader, "message")
    /\ UNCHANGED <<lifecycle, closure, done, readerStop, native, outbound, atEof, writing,
                   owner, signalling>>

MessageSends(f) ==
    /\ pc[Reader] = "message" /\ Free(Reader)
    /\ Admit(f)
    /\ UNCHANGED <<lifecycle, closure, done, readerStop, native, pc, atEof, writing, owner,
                   signalling>>

MessageReturns ==
    /\ pc[Reader] = "message" /\ Free(Reader)
    /\ AfterFrame
    /\ UNCHANGED native

MessageThrows ==
    /\ pc[Reader] = "message" /\ Free(Reader)
    /\ ReaderCloses("io_error")
    /\ UNCHANGED native

-----------------------------------------------------------------------------
(* The writer *)

WriterEnds ==
    /\ Goto(Writer, "publish")
    /\ UNCHANGED <<outbound, active, offset>>

\* Variants: the close drops what is queued, or a frame's bytes are released when it
\* is taken.
WriterTakesUntilClose ==
    /\ pc[Writer] = "loop"
    /\ closing \/ queue # <<>>
    /\ IF closing
       THEN WriterEnds
       ELSE /\ active' = Head(queue)
            /\ offset' = 0
            /\ queue' = Tail(queue)
            /\ Goto(Writer, "writing")
            /\ UNCHANGED <<queuedBytes, admitted>>
    /\ UNCHANGED <<lifecycle, closure, done, readerStop, native, atEof, wire, owner, signalling>>
WriterTakesEarly ==
    /\ pc[Writer] = "loop"
    /\ closing \/ queue # <<>>
    /\ IF queue = <<>> \/ (closing /\ late)
       THEN WriterEnds
       ELSE /\ active' = Head(queue)
            /\ offset' = 0
            /\ queue' = Tail(queue)
            /\ queuedBytes' = queuedBytes - SizeOf[Head(queue)]
            /\ Goto(Writer, "writing")
            /\ UNCHANGED admitted
    /\ UNCHANGED <<lifecycle, closure, done, readerStop, native, atEof, wire, owner, signalling>>

\* Woken for a frame or for the close; what is queued is flushed within the budget.
WriterTakes ==
    /\ pc[Writer] = "loop"
    /\ closing \/ queue # <<>>
    /\ IF queue = <<>> \/ (closing /\ late)
       THEN WriterEnds
       ELSE /\ active' = Head(queue)
            /\ offset' = 0
            /\ queue' = Tail(queue)
            /\ Goto(Writer, "writing")
            /\ UNCHANGED <<queuedBytes, admitted>>
    /\ UNCHANGED <<lifecycle, closure, done, readerStop, native, atEof, wire, owner, signalling>>

WriterCloses ==
    /\ BeginClose(Writer, "io_error")
    /\ Goto(Writer, "publish")
    /\ UNCHANGED <<done, readerStop, outbound, atEof, writing, owner>>

\* write_some's first look at the stop flag; then the rest of the frame goes out.
WriterLooks ==
    /\ pc[Writer] = "writing"
    /\ IF ioStop
       THEN WriterCloses
       ELSE /\ Goto(Writer, "entering")
            /\ UNCHANGED <<lifecycle, closure, done, readerStop, outbound, atEof, writing, owner,
                           signalling>>
    /\ UNCHANGED native

WriteReturnsBytes(n) ==
    /\ pc[Writer] = "blocked"
    /\ n \in 1..(SizeOf[active] - offset)
    /\ offset' = offset + n
    /\ Goto(Writer, IF offset' = SizeOf[active] THEN "written" ELSE "writing")
    /\ wire' = IF offset' = SizeOf[active] THEN Append(wire, active) ELSE wire
    /\ struck' = struck \ {Writer}
    /\ UNCHANGED <<lifecycle, closure, done, readerStop, ioOpen, ioStop, outbound, atEof, active,
                   owner, signalling>>

\* Variant: the writer goes on with the next frame.
WriteErrorSkips ==
    /\ pc[Writer] = "blocked"
    /\ struck' = struck \ {Writer}
    /\ BeginClose(Writer, "io_error")
    /\ active' = None /\ offset' = 0
    /\ Goto(Writer, "loop")
    /\ UNCHANGED <<ioOpen, ioStop, done, readerStop, outbound, atEof, wire, owner>>

\* An error, no progress at all, or a cancellation.
WriteReturnsError ==
    /\ pc[Writer] = "blocked"
    /\ struck' = struck \ {Writer}
    /\ WriterCloses
    /\ UNCHANGED <<ioOpen, ioStop>>

WriterReleases ==
    /\ pc[Writer] = "written"
    /\ queuedBytes' = queuedBytes - SizeOf[active]
    /\ active' = None
    /\ offset' = 0
    /\ Goto(Writer, "loop")
    /\ UNCHANGED <<lifecycle, closure, done, readerStop, native, queue, admitted, atEof, wire,
                   owner, signalling>>

-----------------------------------------------------------------------------
(* The specification *)

OwnerStep == StartRunning \/ StartRefused \/ (\E created \in SUBSET Workers \ {Workers, {Reader}} :
                                                StartFails(created))
             \/ StartUnwound \/ BeginJoin \/ JoinTurn \/ JoinTimesOut

WorkerStep(w) ==
    PassGate(w) \/ EnterNative(w) \/ PublishClose(w) \/ CloseCallbackEnds(w) \/ WorkerLeaves(w)

ReaderStep ==
    \/ WorkerStep(Reader) \/ ReaderLooks \/ ReaderScans
    \/ FrameEmpty \/ FrameTooDeep \/ FrameParses \/ FrameAnswered \/ FrameNotAnswered
    \/ \E f \in Frames : FrameMalformed(f)
    \/ MessageReturns \/ MessageThrows

WriterStep == WorkerStep(Writer) \/ WriterTakes \/ WriterLooks \/ WriterReleases

NativeStep ==
    \/ ReadReturnsBytes \/ ReadReturnsEof \/ ReadReturnsError
    \/ \E n \in 1..MaxOutbound : active \in Frames /\ WriteReturnsBytes(n)
    \/ WriteReturnsError

Next ==
    \/ OwnerStep
    \/ \E t \in {Owner, App, Reader, Writer} : Stop(t) \/ RequestReaderStop(t)
    \/ FlushBudgetEnds
    \/ ReaderStep \/ WriterStep \/ NativeStep
    \/ \E f \in Frames : AppSends(f) \/ MessageSends(f)

Spec == Init /\ [][Next]_vars

\* Threads run, callbacks return, the budget runs out, and a native call that a
\* cancellation has reached returns. A peer need not send, nor read what we write.
Fairness ==
    /\ WF_vars(StartUnwound)
    /\ WF_vars(JoinTurn)
    /\ \A t \in {Owner, App, Reader, Writer} : WF_vars(RequestReaderStop(t))
    /\ WF_vars(FlushBudgetEnds)
    /\ WF_vars(ReaderStep)
    /\ WF_vars(WriterStep)
    /\ WF_vars(Interrupted(Reader) /\ ReadReturnsError)
    /\ WF_vars(Interrupted(Writer) /\ WriteReturnsError)

FairSpec == Spec /\ Fairness

-----------------------------------------------------------------------------
(* Properties *)

Exits == {"publish", "closed", "leaving", "gone"}
Places == {"none", "gate", "loop", "entering", "blocked", "bytes", "frame", "message",
           "answered", "refused", "writing", "written"} \union Exits

(* The state stdio_transport's members and its workers' locals may be in; the byte   *)
(* counter stays within max_outbound_bytes, which is what keeps send's subtraction  *)
(* from wrapping.                                                                   *)
TypeOK ==
    /\ consumed \in BOOLEAN /\ started \in BOOLEAN /\ released \in BOOLEAN
    /\ closing \in BOOLEAN /\ late \in BOOLEAN
    /\ closeDone \in BOOLEAN /\ closeClaimed \in BOOLEAN
    /\ readerStop \in BOOLEAN /\ ioOpen \in BOOLEAN /\ ioStop \in BOOLEAN
    /\ atEof \in BOOLEAN
    /\ reason \in Causes \union {None}
    /\ done \subseteq Workers /\ struck \subseteq Workers
    /\ queue \in Seq(Frames) /\ admitted \in Seq(Frames) /\ wire \in Seq(Frames)
    /\ queuedBytes \in 0..MaxOutbound
    /\ pc \in [Workers -> Places]
    /\ active \in Frames \union {None}
    /\ active \in Frames => offset \in 0..SizeOf[active]
    /\ owner \in {"idle", "unwinding", "joining", "joined"}
    /\ signalling \subseteq {Owner, App, Reader, Writer}
    /\ events \in Seq(Causes)

\* The frames are of n bytes: n go down to none, frame by frame.
Weighs(frames, n) ==
    \E rest \in [1..(Len(frames) + 1) -> 0..n] :
        /\ rest[1] = n /\ rest[Len(frames) + 1] = 0
        /\ \A i \in 1..Len(frames) : rest[i] = SizeOf[frames[i]] + rest[i + 1]

Held == IF active = None THEN 0 ELSE SizeOf[active]

(* The bytes the bound is checked against are the queued frames' and those of the frame *)
(* the writer still holds, through partial writes, failures and the close.              *)
AccountingExact == Weighs(queue, queuedBytes - Held)

(* What has gone out, the frame that is going out and the queue are exactly what send  *)
(* admitted, in its order: no frame is lost, repeated or overtaken before the writer    *)
(* gives up, and none starts after one that was cut off.                                *)
FramesInOrder ==
    LET going == IF active = None \/ pc[Writer] = "written" THEN <<>> ELSE <<active>>
    IN  admitted = wire \o going \o queue

(* A close flushes: the writer leaves frames behind only when the flush budget is spent *)
(* or its own write has failed.                                                         *)
CloseFlushes == pc[Writer] \in Exits /\ started => queue = <<>> \/ late \/ active # None

(* The writer is cut off by nothing but the end of the flush budget: not by the reader's *)
(* cancellation and not by an early wait.                                                *)
BudgetHonoured == started /\ (ioStop \/ Writer \in struck) => closing /\ late

(* There is at most one close event, it gives the first cause, and a transport whose *)
(* start failed has none.                                                            *)
OneCloseEvent == events # <<>> => events = <<reason>> /\ reason # None /\ started

(* Once the transport is closing, an owner that waits gets its threads back, however the *)
(* native calls and the cancellations interleave and even if the peer never reads again. *)
WaitReturns == (owner = "joining" /\ closing) ~> (owner # "joining")
=============================================================================
