------------------------ MODULE StdioTransportProofs ------------------------
(* Proofs about StdioTransport, for every set of frames, their sizes, the     *)
(* bound of the queue and both ways a cancellation reaches a native call.     *)
EXTENDS StdioTransport, FrameExchange, SharedLemmas, SequenceTheorems, TLAPS

-----------------------------------------------------------------------------
(* The inductive invariant. *)

\* A transport that was neither started nor stopped is as it was constructed; one that
\* is closing has a reason, unless its start has failed.
LifecycleShape ==
    /\ ~consumed => /\ ~started /\ ~closing /\ ~ioStop /\ struck = {}
                    /\ owner # "unwinding"
                    /\ \A w \in Workers : pc[w] = "none"
    /\ reason # None => closing
    /\ started /\ closing => reason # None
    /\ owner = "unwinding" => ~started

\* Workers run only after a start that succeeded, and the writer has a frame just
\* while it is writing, or left with it.
WorkerShape ==
    /\ ~started => /\ active = None
                   /\ \A w \in Workers : pc[w] \in {"none", "gate", "gone"}
    /\ pc[Writer] \in {"none", "gate", "loop"} => active = None
    /\ pc[Writer] \in {"writing", "entering", "blocked", "written"} => active # None

\* The writer leaves a transport that is closing, and an event has been claimed.
CloseShape ==
    /\ started /\ pc[Writer] \in Exits => closing
    /\ events # <<>> => closeClaimed

Shape == LifecycleShape /\ WorkerShape /\ CloseShape

\* As Weighs, with what is left never growing again.
Falls(frames, n) ==
    \E rest \in [1..(Len(frames) + 1) -> 0..n] :
        /\ rest[1] = n /\ rest[Len(frames) + 1] = 0
        /\ \A i \in 1..Len(frames) : rest[i] = SizeOf[frames[i]] + rest[i + 1]
        /\ \A i, j \in 1..(Len(frames) + 1) : i <= j => rest[j] <= rest[i]

Accounts == Falls(queue, queuedBytes - Held)

IInv == /\ TypeOK
        /\ LifecycleShape /\ WorkerShape /\ CloseShape
        /\ Accounts /\ FramesInOrder /\ CloseFlushes /\ BudgetHonoured /\ OneCloseEvent

-----------------------------------------------------------------------------
(* The weight of a list of frames. *)

\* Nothing weighs nothing.
LEMMA FallsNothing == Falls(<<>>, 0)
  <1> DEFINE rest == [i \in 1..1 |-> 0]
  <1>1. /\ rest \in [1..(Len(<<>>) + 1) -> 0..0]
        /\ rest[1] = 0 /\ rest[Len(<<>>) + 1] = 0
    OBVIOUS
  <1>2. /\ \A i \in 1..Len(<<>>) : rest[i] = SizeOf[<<>>[i]] + rest[i + 1]
        /\ \A i, j \in 1..(Len(<<>>) + 1) : i <= j => rest[j] <= rest[i]
    OBVIOUS
  <1> HIDE DEF rest
  <1> QED  BY <1>1, <1>2 DEF Falls

\* A frame that is admitted adds its size.
LEMMA FallsAppend ==
    ASSUME NEW q \in Seq(Frames), NEW n \in Int, Falls(q, n), NEW f \in Frames
    PROVE  Falls(Append(q, f), n + SizeOf[f])
  <1>1. PICK rest \in [1..(Len(q) + 1) -> 0..n] :
            /\ rest[1] = n /\ rest[Len(q) + 1] = 0
            /\ \A i \in 1..Len(q) : rest[i] = SizeOf[q[i]] + rest[i + 1]
            /\ \A i, j \in 1..(Len(q) + 1) : i <= j => rest[j] <= rest[i]
    BY DEF Falls
  <1>2. SizeOf[f] \in Nat
    BY SizeAssumption
  <1> DEFINE a == Append(q, f)
             more == [i \in 1..(Len(q) + 2) |->
                        IF i = Len(q) + 2 THEN 0 ELSE rest[i] + SizeOf[f]]
  <1>3. /\ a \in Seq(Frames) /\ Len(a) = Len(q) + 1 /\ a[Len(q) + 1] = f
        /\ \A i \in 1..Len(q) : a[i] = q[i]
    OBVIOUS
  <1> HIDE DEF a
  <1>4. more \in [1..(Len(a) + 1) -> 0..(n + SizeOf[f])]
    <2> SUFFICES ASSUME NEW i \in 1..(Len(q) + 2) PROVE more[i] \in 0..(n + SizeOf[f])
      BY <1>3
    <2>1. CASE i = Len(q) + 2
      <3>1. rest[1] \in 0..n
        BY <1>1
      <3> QED  BY <1>1, <1>2, <2>1, <3>1
    <2>2. CASE i # Len(q) + 2
      <3>1. i \in 1..(Len(q) + 1)
        BY <2>2
      <3>2. rest[i] \in 0..n
        BY <3>1, <1>1
      <3> QED  BY <1>2, <2>2, <3>2
    <2> QED  BY <2>1, <2>2
  <1>5. more[1] = n + SizeOf[f] /\ more[Len(a) + 1] = 0
    BY <1>1, <1>3
  <1>6. ASSUME NEW i \in 1..Len(a) PROVE more[i] = SizeOf[a[i]] + more[i + 1]
    <2>1. CASE i = Len(q) + 1
      BY <1>1, <1>2, <1>3, <2>1
    <2>2. CASE i # Len(q) + 1
      <3>1. i \in 1..Len(q) /\ i + 1 \in 1..(Len(q) + 1)
        BY <1>3, <2>2
      <3>2. a[i] = q[i] /\ rest[i] = SizeOf[q[i]] + rest[i + 1]
        BY <1>1, <1>3, <3>1
      <3>3. more[i] = rest[i] + SizeOf[f] /\ more[i + 1] = rest[i + 1] + SizeOf[f]
        BY <3>1
      <3>4. rest[i] \in Int /\ rest[i + 1] \in Int /\ SizeOf[q[i]] \in Int
        BY <1>1, <3>1, SizeAssumption
      <3> QED  BY <1>2, <3>2, <3>3, <3>4
    <2> QED  BY <2>1, <2>2
  <1>7. ASSUME NEW i \in 1..(Len(a) + 1), NEW j \in 1..(Len(a) + 1), i <= j
        PROVE  more[j] <= more[i]
    <2>1. CASE j = Len(q) + 2
      BY <1>3, <1>4, <2>1
    <2>2. CASE j # Len(q) + 2
      <3>1. i \in 1..(Len(q) + 1) /\ j \in 1..(Len(q) + 1)
        BY <1>3, <1>7, <2>2
      <3>2. rest[j] <= rest[i] /\ rest[j] \in Int /\ rest[i] \in Int
        BY <1>1, <1>7, <3>1
      <3>3. more[i] = rest[i] + SizeOf[f] /\ more[j] = rest[j] + SizeOf[f]
        BY <3>1
      <3> QED  BY <1>2, <3>2, <3>3
    <2> QED  BY <2>1, <2>2
  <1> HIDE DEF more
  <1>8. Falls(a, n + SizeOf[f])
    BY <1>4, <1>5, <1>6, <1>7 DEF Falls
  <1> QED  BY <1>8 DEF a

\* A frame that is taken off takes its size along.
LEMMA FallsTail ==
    ASSUME NEW q \in Seq(Frames), q # <<>>, NEW n \in Int, Falls(q, n)
    PROVE  Falls(Tail(q), n - SizeOf[Head(q)])
  <1>1. PICK rest \in [1..(Len(q) + 1) -> 0..n] :
            /\ rest[1] = n /\ rest[Len(q) + 1] = 0
            /\ \A i \in 1..Len(q) : rest[i] = SizeOf[q[i]] + rest[i + 1]
            /\ \A i, j \in 1..(Len(q) + 1) : i <= j => rest[j] <= rest[i]
    BY DEF Falls
  <1> DEFINE t == Tail(q)
             less == [i \in 1..Len(q) |-> rest[i + 1]]
             m == n - SizeOf[Head(q)]
  <1>2. /\ t \in Seq(Frames) /\ Len(t) + 1 = Len(q) /\ Head(q) = q[1] /\ Len(q) >= 1
        /\ \A i \in 1..Len(t) : t[i] = q[i + 1]
    OBVIOUS
  <1>3. rest[2] = m /\ m \in Int
    <2>1. SizeOf[q[1]] \in Nat /\ rest[1] = SizeOf[q[1]] + rest[2] /\ rest[2] \in Int
      BY <1>1, <1>2, SizeAssumption
    <2> QED  BY <1>1, <1>2, <2>1
  <1> HIDE DEF t, m
  <1>4. less \in [1..(Len(t) + 1) -> 0..m]
    <2> SUFFICES ASSUME NEW i \in 1..Len(q) PROVE less[i] \in 0..m
      BY <1>2
    <2>1. i + 1 \in 1..(Len(q) + 1) /\ 2 \in 1..(Len(q) + 1) /\ 2 <= i + 1
      BY <1>2
    <2>2. rest[i + 1] \in 0..n /\ rest[i + 1] <= rest[2]
      BY <1>1, <2>1
    <2> QED  BY <1>3, <2>2
  <1>5. less[1] = m /\ less[Len(t) + 1] = 0
    BY <1>1, <1>2, <1>3
  <1>6. ASSUME NEW i \in 1..Len(t) PROVE less[i] = SizeOf[t[i]] + less[i + 1]
    <2>1. i + 1 \in 1..Len(q) /\ i \in 1..Len(q)
      BY <1>2
    <2> QED  BY <1>1, <1>2, <2>1
  <1>7. ASSUME NEW i \in 1..(Len(t) + 1), NEW j \in 1..(Len(t) + 1), i <= j
        PROVE  less[j] <= less[i]
    <2>1. i + 1 \in 1..(Len(q) + 1) /\ j + 1 \in 1..(Len(q) + 1) /\ i + 1 <= j + 1
      BY <1>2, <1>7
    <2> QED  BY <1>1, <1>2, <2>1
  <1> HIDE DEF less
  <1>8. Falls(t, m)
    BY <1>4, <1>5, <1>6, <1>7 DEF Falls
  <1> QED  BY <1>8 DEF t, m

\* What falls to nothing weighs that much.
LEMMA FallsWeighs == ASSUME NEW q, NEW n, Falls(q, n) PROVE n \in Nat /\ Weighs(q, n)
  BY DEF Falls, Weighs

-----------------------------------------------------------------------------
(* What a step does to frames and bytes. *)

Kept == UNCHANGED <<outbound, writing>>

Admits == \E f \in Frames : Admit(f) /\ UNCHANGED <<writing, pc[Writer]>>

Takes == /\ pc[Writer] = "loop" /\ queue # <<>>
         /\ active' = Head(queue) /\ offset' = 0
         /\ queue' = Tail(queue)
         /\ pc' = [pc EXCEPT ![Writer] = "writing"]
         /\ UNCHANGED <<queuedBytes, admitted, wire>>

Writes == \E n \in 1..MaxOutbound :
              active \in Frames /\ WriteReturnsBytes(n)

\* Every step is one of these.
LEMMA OutboundStep ==
    ASSUME TypeOK, LifecycleShape, [Next]_vars
    PROVE  \/ Kept /\ (pc[Writer] = "written" <=> pc'[Writer] = "written")
           \/ Admits \/ Takes \/ Writes \/ WriterReleases
  <1>0. pc \in [Workers -> Places] /\ Reader \in Workers /\ Writer \in Workers
    BY DEF TypeOK, Workers
  <1> USE <1>0, ThreadsAssumption DEF Kept, outbound, writing
  <1>1. CASE UNCHANGED vars
    BY <1>1 DEF vars
  <1>2. CASE OwnerStep
    BY <1>2 DEF LifecycleShape, OwnerStep, StartRunning, StartRefused, StartFails, StartUnwound, BeginJoin,
                JoinTurn, JoinTimesOut, Run
  <1>3. CASE (\E t \in {Owner, App, Reader, Writer} : Stop(t) \/ RequestReaderStop(t))
             \/ FlushBudgetEnds
    BY <1>3 DEF Stop, RequestReaderStop, FlushBudgetEnds
  <1>4. CASE ReaderStep
    BY <1>4 DEF ReaderStep, WorkerStep, PassGate, EnterNative, PublishClose, CloseCallbackEnds,
                WorkerLeaves, ReaderLooks, ReaderScans, ReaderCloses, AfterFrame, FrameEmpty,
                FrameTooDeep, FrameParses, FrameAnswered, FrameNotAnswered, FrameMalformed,
                MessageReturns, MessageThrows, Goto, Admits
  <1>5. CASE WriterStep
    BY <1>5 DEF WriterStep, WorkerStep, PassGate, EnterNative, PublishClose, CloseCallbackEnds,
                WorkerLeaves, WriterTakes, WriterEnds, WriterLooks, WriterCloses, Goto, Takes
  <1>6. CASE NativeStep
    BY <1>6 DEF NativeStep, ReadReturnsBytes, ReadReturnsEof, ReadReturnsError, ReaderCloses,
                WriteReturnsError, WriterCloses, Goto, Writes
  <1>7. CASE \E f \in Frames : AppSends(f) \/ MessageSends(f)
    BY <1>7 DEF AppSends, MessageSends, Admits
  <1> QED  BY <1>1, <1>2, <1>3, <1>4, <1>5, <1>6, <1>7 DEF Next

-----------------------------------------------------------------------------
(* Each part of the invariant is kept by every step. *)

\* What TypeOK says of everything but frames and bytes.
FlagsOK ==
    /\ consumed \in BOOLEAN /\ started \in BOOLEAN /\ released \in BOOLEAN
    /\ closing \in BOOLEAN /\ late \in BOOLEAN
MoreFlagsOK ==
    /\ closeDone \in BOOLEAN /\ closeClaimed \in BOOLEAN
    /\ readerStop \in BOOLEAN /\ ioOpen \in BOOLEAN /\ ioStop \in BOOLEAN
    /\ atEof \in BOOLEAN
StagesOK ==
    /\ reason \in Causes \union {None}
    /\ owner \in {"idle", "unwinding", "joining", "joined"}
SetsOK ==
    /\ done \subseteq Workers /\ struck \subseteq Workers
    /\ signalling \subseteq {Owner, App, Reader, Writer}
PlacesOK == pc \in [Workers -> Places]
EventsOK == events \in Seq(Causes)

\* Flags keep their types.
LEMMA FlagsStep ==
    ASSUME IInv, [Next]_vars
    PROVE  FlagsOK'
  <1>0. Reader \in Workers /\ Writer \in Workers /\ pc \in [Workers -> Places]
    BY DEF IInv, TypeOK, Workers
  <1> USE <1>0, ThreadsAssumption, NoneAssumption DEF lifecycle, closure, native, outbound, writing, IInv, TypeOK, FlagsOK
  <1>1. CASE UNCHANGED vars
    BY <1>1 DEF vars, lifecycle, closure, native, outbound, writing
  <1>2. CASE OwnerStep
    BY <1>2 DEF OwnerStep, StartRunning, StartRefused, StartFails, StartUnwound, BeginJoin,
                JoinTurn, JoinTimesOut, CancelWhileJoining, Struck, Run
  <1>3. CASE (\E t \in {Owner, App, Reader, Writer} : Stop(t) \/ RequestReaderStop(t))
             \/ FlushBudgetEnds
    BY <1>3 DEF Stop, BeginClose, RequestReaderStop, FlushBudgetEnds, Struck
  <1>4. CASE ReaderStep
    BY <1>4 DEF ReaderStep, WorkerStep, PassGate, EnterNative, PublishClose, CloseCallbackEnds,
                WorkerLeaves, ReaderLooks, ReaderScans, ReaderCloses, BeginClose, AfterFrame,
                FrameEmpty, FrameTooDeep, FrameParses, FrameAnswered, FrameNotAnswered,
                FrameMalformed, MessageReturns, MessageThrows, Goto, Admit
  <1>5. CASE WriterStep
    BY <1>5 DEF WriterStep, WorkerStep, PassGate, EnterNative, PublishClose, CloseCallbackEnds,
                WorkerLeaves, WriterTakes, WriterEnds, WriterLooks, WriterCloses, BeginClose,
                WriterReleases, Goto
  <1>6. CASE NativeStep
    BY <1>6 DEF NativeStep, ReadReturnsBytes, ReadReturnsEof, ReadReturnsError, ReaderCloses,
                WriteReturnsBytes, WriteReturnsError, WriterCloses, BeginClose, Goto
  <1>7. CASE \E f \in Frames : AppSends(f) \/ MessageSends(f)
    BY <1>7 DEF AppSends, MessageSends, Admit
  <1> QED  BY <1>1, <1>2, <1>3, <1>4, <1>5, <1>6, <1>7 DEF Next

\* So do those of the endpoints and of the close event.
LEMMA MoreFlagsStep ==
    ASSUME IInv, [Next]_vars
    PROVE  MoreFlagsOK'
  <1>0. Reader \in Workers /\ Writer \in Workers /\ pc \in [Workers -> Places]
    BY DEF IInv, TypeOK, Workers
  <1> USE <1>0, ThreadsAssumption, NoneAssumption DEF lifecycle, closure, native, outbound, writing, IInv, TypeOK, MoreFlagsOK
  <1>1. CASE UNCHANGED vars
    BY <1>1 DEF vars, lifecycle, closure, native, outbound, writing
  <1>2. CASE OwnerStep
    BY <1>2 DEF OwnerStep, StartRunning, StartRefused, StartFails, StartUnwound, BeginJoin,
                JoinTurn, JoinTimesOut, CancelWhileJoining, Struck, Run
  <1>3. CASE (\E t \in {Owner, App, Reader, Writer} : Stop(t) \/ RequestReaderStop(t))
             \/ FlushBudgetEnds
    BY <1>3 DEF Stop, BeginClose, RequestReaderStop, FlushBudgetEnds, Struck
  <1>4. CASE ReaderStep
    BY <1>4 DEF ReaderStep, WorkerStep, PassGate, EnterNative, PublishClose, CloseCallbackEnds,
                WorkerLeaves, ReaderLooks, ReaderScans, ReaderCloses, BeginClose, AfterFrame,
                FrameEmpty, FrameTooDeep, FrameParses, FrameAnswered, FrameNotAnswered,
                FrameMalformed, MessageReturns, MessageThrows, Goto, Admit
  <1>5. CASE WriterStep
    BY <1>5 DEF WriterStep, WorkerStep, PassGate, EnterNative, PublishClose, CloseCallbackEnds,
                WorkerLeaves, WriterTakes, WriterEnds, WriterLooks, WriterCloses, BeginClose,
                WriterReleases, Goto
  <1>6. CASE NativeStep
    BY <1>6 DEF NativeStep, ReadReturnsBytes, ReadReturnsEof, ReadReturnsError, ReaderCloses,
                WriteReturnsBytes, WriteReturnsError, WriterCloses, BeginClose, Goto
  <1>7. CASE \E f \in Frames : AppSends(f) \/ MessageSends(f)
    BY <1>7 DEF AppSends, MessageSends, Admit
  <1> QED  BY <1>1, <1>2, <1>3, <1>4, <1>5, <1>6, <1>7 DEF Next

\* The reason and the owner.
LEMMA StagesStep ==
    ASSUME IInv, [Next]_vars
    PROVE  StagesOK'
  <1>0. Reader \in Workers /\ Writer \in Workers /\ pc \in [Workers -> Places]
    BY DEF IInv, TypeOK, Workers
  <1> USE <1>0, ThreadsAssumption, NoneAssumption DEF lifecycle, closure, native, outbound, writing, IInv, TypeOK, StagesOK, Causes
  <1>1. CASE UNCHANGED vars
    BY <1>1 DEF vars, lifecycle, closure, native, outbound, writing
  <1>2. CASE OwnerStep
    BY <1>2 DEF OwnerStep, StartRunning, StartRefused, StartFails, StartUnwound, BeginJoin,
                JoinTurn, JoinTimesOut, CancelWhileJoining, Struck, Run
  <1>3. CASE (\E t \in {Owner, App, Reader, Writer} : Stop(t) \/ RequestReaderStop(t))
             \/ FlushBudgetEnds
    BY <1>3 DEF Stop, BeginClose, RequestReaderStop, FlushBudgetEnds, Struck
  <1>4. CASE ReaderStep
    BY <1>4 DEF ReaderStep, WorkerStep, PassGate, EnterNative, PublishClose, CloseCallbackEnds,
                WorkerLeaves, ReaderLooks, ReaderScans, ReaderCloses, BeginClose, AfterFrame,
                FrameEmpty, FrameTooDeep, FrameParses, FrameAnswered, FrameNotAnswered,
                FrameMalformed, MessageReturns, MessageThrows, Goto, Admit
  <1>5. CASE WriterStep
    BY <1>5 DEF WriterStep, WorkerStep, PassGate, EnterNative, PublishClose, CloseCallbackEnds,
                WorkerLeaves, WriterTakes, WriterEnds, WriterLooks, WriterCloses, BeginClose,
                WriterReleases, Goto
  <1>6. CASE NativeStep
    BY <1>6 DEF NativeStep, ReadReturnsBytes, ReadReturnsEof, ReadReturnsError, ReaderCloses,
                WriteReturnsBytes, WriteReturnsError, WriterCloses, BeginClose, Goto
  <1>7. CASE \E f \in Frames : AppSends(f) \/ MessageSends(f)
    BY <1>7 DEF AppSends, MessageSends, Admit
  <1> QED  BY <1>1, <1>2, <1>3, <1>4, <1>5, <1>6, <1>7 DEF Next

\* Sets of threads keep theirs.
LEMMA SetsStep ==
    ASSUME IInv, [Next]_vars
    PROVE  SetsOK'
  <1>0. Reader \in Workers /\ Writer \in Workers /\ pc \in [Workers -> Places]
    BY DEF IInv, TypeOK, Workers
  <1> USE <1>0, ThreadsAssumption, NoneAssumption DEF lifecycle, closure, native, outbound, writing, IInv, TypeOK, SetsOK, Workers
  <1>1. CASE UNCHANGED vars
    BY <1>1 DEF vars, lifecycle, closure, native, outbound, writing
  <1>2. CASE OwnerStep
    BY <1>2 DEF OwnerStep, StartRunning, StartRefused, StartFails, StartUnwound, BeginJoin,
                JoinTurn, JoinTimesOut, CancelWhileJoining, Struck, Run
  <1>3. CASE (\E t \in {Owner, App, Reader, Writer} : Stop(t) \/ RequestReaderStop(t))
             \/ FlushBudgetEnds
    BY <1>3 DEF Stop, BeginClose, RequestReaderStop, FlushBudgetEnds, Struck
  <1>4. CASE ReaderStep
    BY <1>4 DEF ReaderStep, WorkerStep, PassGate, EnterNative, PublishClose, CloseCallbackEnds,
                WorkerLeaves, ReaderLooks, ReaderScans, ReaderCloses, BeginClose, AfterFrame,
                FrameEmpty, FrameTooDeep, FrameParses, FrameAnswered, FrameNotAnswered,
                FrameMalformed, MessageReturns, MessageThrows, Goto, Admit
  <1>5. CASE WriterStep
    BY <1>5 DEF WriterStep, WorkerStep, PassGate, EnterNative, PublishClose, CloseCallbackEnds,
                WorkerLeaves, WriterTakes, WriterEnds, WriterLooks, WriterCloses, BeginClose,
                WriterReleases, Goto
  <1>6. CASE NativeStep
    BY <1>6 DEF NativeStep, ReadReturnsBytes, ReadReturnsEof, ReadReturnsError, ReaderCloses,
                WriteReturnsBytes, WriteReturnsError, WriterCloses, BeginClose, Goto
  <1>7. CASE \E f \in Frames : AppSends(f) \/ MessageSends(f)
    BY <1>7 DEF AppSends, MessageSends, Admit
  <1> QED  BY <1>1, <1>2, <1>3, <1>4, <1>5, <1>6, <1>7 DEF Next

\* Workers go to places they know.
LEMMA PlacesStep ==
    ASSUME IInv, [Next]_vars
    PROVE  PlacesOK'
  <1>0. Reader \in Workers /\ Writer \in Workers /\ pc \in [Workers -> Places]
    BY DEF IInv, TypeOK, Workers
  <1> USE <1>0, ThreadsAssumption, NoneAssumption DEF lifecycle, closure, native, outbound, writing, IInv, TypeOK, PlacesOK, LifecycleShape,
             Places, Exits
  <1>1. CASE UNCHANGED vars
    BY <1>1 DEF vars, lifecycle, closure, native, outbound, writing
  <1>2. CASE OwnerStep
    BY <1>2 DEF OwnerStep, StartRunning, StartRefused, StartFails, StartUnwound, BeginJoin,
                JoinTurn, JoinTimesOut, CancelWhileJoining, Struck, Run
  <1>3. CASE (\E t \in {Owner, App, Reader, Writer} : Stop(t) \/ RequestReaderStop(t))
             \/ FlushBudgetEnds
    BY <1>3 DEF Stop, BeginClose, RequestReaderStop, FlushBudgetEnds, Struck
  <1>4. CASE ReaderStep
    BY <1>4 DEF ReaderStep, WorkerStep, PassGate, EnterNative, PublishClose, CloseCallbackEnds,
                WorkerLeaves, ReaderLooks, ReaderScans, ReaderCloses, BeginClose, AfterFrame,
                FrameEmpty, FrameTooDeep, FrameParses, FrameAnswered, FrameNotAnswered,
                FrameMalformed, MessageReturns, MessageThrows, Goto, Admit
  <1>5. CASE WriterStep
    BY <1>5 DEF WriterStep, WorkerStep, PassGate, EnterNative, PublishClose, CloseCallbackEnds,
                WorkerLeaves, WriterTakes, WriterEnds, WriterLooks, WriterCloses, BeginClose,
                WriterReleases, Goto
  <1>6. CASE NativeStep
    BY <1>6 DEF NativeStep, ReadReturnsBytes, ReadReturnsEof, ReadReturnsError, ReaderCloses,
                WriteReturnsBytes, WriteReturnsError, WriterCloses, BeginClose, Goto
  <1>7. CASE \E f \in Frames : AppSends(f) \/ MessageSends(f)
    BY <1>7 DEF AppSends, MessageSends, Admit
  <1> QED  BY <1>1, <1>2, <1>3, <1>4, <1>5, <1>6, <1>7 DEF Next

\* A reason that is published is one.
LEMMA EventsTypeStep ==
    ASSUME IInv, [Next]_vars
    PROVE  EventsOK'
  <1>0. Reader \in Workers /\ Writer \in Workers /\ pc \in [Workers -> Places]
    BY DEF IInv, TypeOK, Workers
  <1>a. \A r \in Causes : Append(events, r) \in Seq(Causes)
    BY DEF IInv, TypeOK
  <1> USE <1>0, <1>a, ThreadsAssumption, NoneAssumption DEF lifecycle, closure, native, outbound, writing, IInv, TypeOK, EventsOK
  <1>1. CASE UNCHANGED vars
    BY <1>1 DEF vars, lifecycle, closure, native, outbound, writing
  <1>2. CASE OwnerStep
    BY <1>2 DEF OwnerStep, StartRunning, StartRefused, StartFails, StartUnwound, BeginJoin,
                JoinTurn, JoinTimesOut, CancelWhileJoining, Struck, Run
  <1>3. CASE (\E t \in {Owner, App, Reader, Writer} : Stop(t) \/ RequestReaderStop(t))
             \/ FlushBudgetEnds
    BY <1>3 DEF Stop, BeginClose, RequestReaderStop, FlushBudgetEnds, Struck
  <1>4. CASE ReaderStep
    BY <1>4 DEF ReaderStep, WorkerStep, PassGate, EnterNative, PublishClose, CloseCallbackEnds,
                WorkerLeaves, ReaderLooks, ReaderScans, ReaderCloses, BeginClose, AfterFrame,
                FrameEmpty, FrameTooDeep, FrameParses, FrameAnswered, FrameNotAnswered,
                FrameMalformed, MessageReturns, MessageThrows, Goto, Admit
  <1>5. CASE WriterStep
    BY <1>5 DEF WriterStep, WorkerStep, PassGate, EnterNative, PublishClose, CloseCallbackEnds,
                WorkerLeaves, WriterTakes, WriterEnds, WriterLooks, WriterCloses, BeginClose,
                WriterReleases, Goto
  <1>6. CASE NativeStep
    BY <1>6 DEF NativeStep, ReadReturnsBytes, ReadReturnsEof, ReadReturnsError, ReaderCloses,
                WriteReturnsBytes, WriteReturnsError, WriterCloses, BeginClose, Goto
  <1>7. CASE \E f \in Frames : AppSends(f) \/ MessageSends(f)
    BY <1>7 DEF AppSends, MessageSends, Admit
  <1> QED  BY <1>1, <1>2, <1>3, <1>4, <1>5, <1>6, <1>7 DEF Next

\* The stages of a transport.
LEMMA LifecycleStep ==
    ASSUME IInv, [Next]_vars
    PROVE  LifecycleShape'
  <1>0. Reader \in Workers /\ Writer \in Workers /\ pc \in [Workers -> Places]
    BY DEF IInv, TypeOK, Workers
  <1> USE <1>0, ThreadsAssumption, NoneAssumption DEF lifecycle, closure, native, outbound, writing, IInv, TypeOK, LifecycleShape, WorkerShape,
             Causes
  <1>1. CASE UNCHANGED vars
    BY <1>1 DEF vars, lifecycle, closure, native, outbound, writing
  <1>2. CASE OwnerStep
    BY <1>2 DEF OwnerStep, StartRunning, StartRefused, StartFails, StartUnwound, BeginJoin,
                JoinTurn, JoinTimesOut, CancelWhileJoining, Struck, Run
  <1>3. CASE (\E t \in {Owner, App, Reader, Writer} : Stop(t) \/ RequestReaderStop(t))
             \/ FlushBudgetEnds
    BY <1>3 DEF Stop, BeginClose, RequestReaderStop, FlushBudgetEnds, Struck
  <1>4. CASE ReaderStep
    BY <1>4 DEF ReaderStep, WorkerStep, PassGate, EnterNative, PublishClose, CloseCallbackEnds,
                WorkerLeaves, ReaderLooks, ReaderScans, ReaderCloses, BeginClose, AfterFrame,
                FrameEmpty, FrameTooDeep, FrameParses, FrameAnswered, FrameNotAnswered,
                FrameMalformed, MessageReturns, MessageThrows, Goto, Admit
  <1>5. CASE WriterStep
    BY <1>5 DEF WriterStep, WorkerStep, PassGate, EnterNative, PublishClose, CloseCallbackEnds,
                WorkerLeaves, WriterTakes, WriterEnds, WriterLooks, WriterCloses, BeginClose,
                WriterReleases, Goto
  <1>6. CASE NativeStep
    BY <1>6 DEF NativeStep, ReadReturnsBytes, ReadReturnsEof, ReadReturnsError, ReaderCloses,
                WriteReturnsBytes, WriteReturnsError, WriterCloses, BeginClose, Goto
  <1>7. CASE \E f \in Frames : AppSends(f) \/ MessageSends(f)
    BY <1>7 DEF AppSends, MessageSends, Admit
  <1> QED  BY <1>1, <1>2, <1>3, <1>4, <1>5, <1>6, <1>7 DEF Next

\* Where the workers are.
LEMMA WorkerShapeStep ==
    ASSUME IInv, [Next]_vars
    PROVE  WorkerShape'
  <1>0. Reader \in Workers /\ Writer \in Workers /\ pc \in [Workers -> Places]
    BY DEF IInv, TypeOK, Workers
  <1>a. queue # <<>> => Head(queue) # None
    BY NoneAssumption DEF IInv, TypeOK
  <1> USE <1>0, <1>a, ThreadsAssumption, NoneAssumption DEF lifecycle, closure, native, outbound, writing, IInv, TypeOK, LifecycleShape, WorkerShape
  <1>1. CASE UNCHANGED vars
    BY <1>1 DEF vars, lifecycle, closure, native, outbound, writing
  <1>2. CASE OwnerStep
    BY <1>2 DEF OwnerStep, StartRunning, StartRefused, StartFails, StartUnwound, BeginJoin,
                JoinTurn, JoinTimesOut, CancelWhileJoining, Struck, Run
  <1>3. CASE (\E t \in {Owner, App, Reader, Writer} : Stop(t) \/ RequestReaderStop(t))
             \/ FlushBudgetEnds
    BY <1>3 DEF Stop, BeginClose, RequestReaderStop, FlushBudgetEnds, Struck
  <1>4. CASE ReaderStep
    BY <1>4 DEF ReaderStep, WorkerStep, PassGate, EnterNative, PublishClose, CloseCallbackEnds,
                WorkerLeaves, ReaderLooks, ReaderScans, ReaderCloses, BeginClose, AfterFrame,
                FrameEmpty, FrameTooDeep, FrameParses, FrameAnswered, FrameNotAnswered,
                FrameMalformed, MessageReturns, MessageThrows, Goto, Admit
  <1>5. CASE WriterStep
    BY <1>5 DEF WriterStep, WorkerStep, PassGate, EnterNative, PublishClose, CloseCallbackEnds,
                WorkerLeaves, WriterTakes, WriterEnds, WriterLooks, WriterCloses, BeginClose,
                WriterReleases, Goto
  <1>6. CASE NativeStep
    BY <1>6 DEF NativeStep, ReadReturnsBytes, ReadReturnsEof, ReadReturnsError, ReaderCloses,
                WriteReturnsBytes, WriteReturnsError, WriterCloses, BeginClose, Goto
  <1>7. CASE \E f \in Frames : AppSends(f) \/ MessageSends(f)
    BY <1>7 DEF AppSends, MessageSends, Admit
  <1> QED  BY <1>1, <1>2, <1>3, <1>4, <1>5, <1>6, <1>7 DEF Next

\* The end of the writer and the claim of the event.
LEMMA CloseStep ==
    ASSUME IInv, [Next]_vars
    PROVE  CloseShape'
  <1>0. Reader \in Workers /\ Writer \in Workers /\ pc \in [Workers -> Places]
    BY DEF IInv, TypeOK, Workers
  <1> USE <1>0, ThreadsAssumption, NoneAssumption DEF lifecycle, closure, native, outbound, writing, IInv, TypeOK, LifecycleShape, WorkerShape,
             CloseShape, Exits
  <1>1. CASE UNCHANGED vars
    BY <1>1 DEF vars, lifecycle, closure, native, outbound, writing
  <1>2. CASE OwnerStep
    BY <1>2 DEF OwnerStep, StartRunning, StartRefused, StartFails, StartUnwound, BeginJoin,
                JoinTurn, JoinTimesOut, CancelWhileJoining, Struck, Run
  <1>3. CASE (\E t \in {Owner, App, Reader, Writer} : Stop(t) \/ RequestReaderStop(t))
             \/ FlushBudgetEnds
    BY <1>3 DEF Stop, BeginClose, RequestReaderStop, FlushBudgetEnds, Struck
  <1>4. CASE ReaderStep
    BY <1>4 DEF ReaderStep, WorkerStep, PassGate, EnterNative, PublishClose, CloseCallbackEnds,
                WorkerLeaves, ReaderLooks, ReaderScans, ReaderCloses, BeginClose, AfterFrame,
                FrameEmpty, FrameTooDeep, FrameParses, FrameAnswered, FrameNotAnswered,
                FrameMalformed, MessageReturns, MessageThrows, Goto, Admit
  <1>5. CASE WriterStep
    BY <1>5 DEF WriterStep, WorkerStep, PassGate, EnterNative, PublishClose, CloseCallbackEnds,
                WorkerLeaves, WriterTakes, WriterEnds, WriterLooks, WriterCloses, BeginClose,
                WriterReleases, Goto
  <1>6. CASE NativeStep
    BY <1>6 DEF NativeStep, ReadReturnsBytes, ReadReturnsEof, ReadReturnsError, ReaderCloses,
                WriteReturnsBytes, WriteReturnsError, WriterCloses, BeginClose, Goto
  <1>7. CASE \E f \in Frames : AppSends(f) \/ MessageSends(f)
    BY <1>7 DEF AppSends, MessageSends, Admit
  <1> QED  BY <1>1, <1>2, <1>3, <1>4, <1>5, <1>6, <1>7 DEF Next

\* What a writer may leave behind.
LEMMA FlushStep ==
    ASSUME IInv, [Next]_vars
    PROVE  CloseFlushes'
  <1>0. Reader \in Workers /\ Writer \in Workers /\ pc \in [Workers -> Places]
    BY DEF IInv, TypeOK, Workers
  <1> USE <1>0, ThreadsAssumption, NoneAssumption DEF lifecycle, closure, native, outbound, writing, IInv, TypeOK, LifecycleShape, WorkerShape,
             CloseShape, CloseFlushes, Exits
  <1>1. CASE UNCHANGED vars
    BY <1>1 DEF vars, lifecycle, closure, native, outbound, writing
  <1>2. CASE OwnerStep
    BY <1>2 DEF OwnerStep, StartRunning, StartRefused, StartFails, StartUnwound, BeginJoin,
                JoinTurn, JoinTimesOut, CancelWhileJoining, Struck, Run
  <1>3. CASE (\E t \in {Owner, App, Reader, Writer} : Stop(t) \/ RequestReaderStop(t))
             \/ FlushBudgetEnds
    BY <1>3 DEF Stop, BeginClose, RequestReaderStop, FlushBudgetEnds, Struck
  <1>4. CASE ReaderStep
    BY <1>4 DEF ReaderStep, WorkerStep, PassGate, EnterNative, PublishClose, CloseCallbackEnds,
                WorkerLeaves, ReaderLooks, ReaderScans, ReaderCloses, BeginClose, AfterFrame,
                FrameEmpty, FrameTooDeep, FrameParses, FrameAnswered, FrameNotAnswered,
                FrameMalformed, MessageReturns, MessageThrows, Goto, Admit
  <1>5. CASE WriterStep
    BY <1>5 DEF WriterStep, WorkerStep, PassGate, EnterNative, PublishClose, CloseCallbackEnds,
                WorkerLeaves, WriterTakes, WriterEnds, WriterLooks, WriterCloses, BeginClose,
                WriterReleases, Goto
  <1>6. CASE NativeStep
    BY <1>6 DEF NativeStep, ReadReturnsBytes, ReadReturnsEof, ReadReturnsError, ReaderCloses,
                WriteReturnsBytes, WriteReturnsError, WriterCloses, BeginClose, Goto
  <1>7. CASE \E f \in Frames : AppSends(f) \/ MessageSends(f)
    BY <1>7 DEF AppSends, MessageSends, Admit
  <1> QED  BY <1>1, <1>2, <1>3, <1>4, <1>5, <1>6, <1>7 DEF Next

\* What cuts a writer off.
LEMMA BudgetStep ==
    ASSUME IInv, [Next]_vars
    PROVE  BudgetHonoured'
  <1>0. Reader \in Workers /\ Writer \in Workers /\ pc \in [Workers -> Places]
    BY DEF IInv, TypeOK, Workers
  <1> USE <1>0, ThreadsAssumption, NoneAssumption DEF lifecycle, closure, native, outbound, writing, IInv, TypeOK, LifecycleShape, WorkerShape,
             BudgetHonoured
  <1>1. CASE UNCHANGED vars
    BY <1>1 DEF vars, lifecycle, closure, native, outbound, writing
  <1>2. CASE OwnerStep
    BY <1>2 DEF OwnerStep, StartRunning, StartRefused, StartFails, StartUnwound, BeginJoin,
                JoinTurn, JoinTimesOut, CancelWhileJoining, Struck, Run
  <1>3. CASE (\E t \in {Owner, App, Reader, Writer} : Stop(t) \/ RequestReaderStop(t))
             \/ FlushBudgetEnds
    BY <1>3 DEF Stop, BeginClose, RequestReaderStop, FlushBudgetEnds, Struck
  <1>4. CASE ReaderStep
    BY <1>4 DEF ReaderStep, WorkerStep, PassGate, EnterNative, PublishClose, CloseCallbackEnds,
                WorkerLeaves, ReaderLooks, ReaderScans, ReaderCloses, BeginClose, AfterFrame,
                FrameEmpty, FrameTooDeep, FrameParses, FrameAnswered, FrameNotAnswered,
                FrameMalformed, MessageReturns, MessageThrows, Goto, Admit
  <1>5. CASE WriterStep
    BY <1>5 DEF WriterStep, WorkerStep, PassGate, EnterNative, PublishClose, CloseCallbackEnds,
                WorkerLeaves, WriterTakes, WriterEnds, WriterLooks, WriterCloses, BeginClose,
                WriterReleases, Goto
  <1>6. CASE NativeStep
    BY <1>6 DEF NativeStep, ReadReturnsBytes, ReadReturnsEof, ReadReturnsError, ReaderCloses,
                WriteReturnsBytes, WriteReturnsError, WriterCloses, BeginClose, Goto
  <1>7. CASE \E f \in Frames : AppSends(f) \/ MessageSends(f)
    BY <1>7 DEF AppSends, MessageSends, Admit
  <1> QED  BY <1>1, <1>2, <1>3, <1>4, <1>5, <1>6, <1>7 DEF Next

\* The close event.
LEMMA EventStep ==
    ASSUME IInv, [Next]_vars
    PROVE  OneCloseEvent'
  <1>0. Reader \in Workers /\ Writer \in Workers /\ pc \in [Workers -> Places]
    BY DEF IInv, TypeOK, Workers
  <1>a. \A r : Append(<<>>, r) = <<r>>
    OBVIOUS
  <1> USE <1>0, <1>a, ThreadsAssumption, NoneAssumption DEF lifecycle, closure, native, outbound, writing, IInv, TypeOK, LifecycleShape, WorkerShape,
             CloseShape, OneCloseEvent
  <1>1. CASE UNCHANGED vars
    BY <1>1 DEF vars, lifecycle, closure, native, outbound, writing
  <1>2. CASE OwnerStep
    BY <1>2 DEF OwnerStep, StartRunning, StartRefused, StartFails, StartUnwound, BeginJoin,
                JoinTurn, JoinTimesOut, CancelWhileJoining, Struck, Run
  <1>3. CASE (\E t \in {Owner, App, Reader, Writer} : Stop(t) \/ RequestReaderStop(t))
             \/ FlushBudgetEnds
    BY <1>3 DEF Stop, BeginClose, RequestReaderStop, FlushBudgetEnds, Struck
  <1>4. CASE ReaderStep
    BY <1>4 DEF ReaderStep, WorkerStep, PassGate, EnterNative, PublishClose, CloseCallbackEnds,
                WorkerLeaves, ReaderLooks, ReaderScans, ReaderCloses, BeginClose, AfterFrame,
                FrameEmpty, FrameTooDeep, FrameParses, FrameAnswered, FrameNotAnswered,
                FrameMalformed, MessageReturns, MessageThrows, Goto, Admit
  <1>5. CASE WriterStep
    BY <1>5 DEF WriterStep, WorkerStep, PassGate, EnterNative, PublishClose, CloseCallbackEnds,
                WorkerLeaves, WriterTakes, WriterEnds, WriterLooks, WriterCloses, BeginClose,
                WriterReleases, Goto
  <1>6. CASE NativeStep
    BY <1>6 DEF NativeStep, ReadReturnsBytes, ReadReturnsEof, ReadReturnsError, ReaderCloses,
                WriteReturnsBytes, WriteReturnsError, WriterCloses, BeginClose, Goto
  <1>7. CASE \E f \in Frames : AppSends(f) \/ MessageSends(f)
    BY <1>7 DEF AppSends, MessageSends, Admit
  <1> QED  BY <1>1, <1>2, <1>3, <1>4, <1>5, <1>6, <1>7 DEF Next

-----------------------------------------------------------------------------
(* Frames and bytes. *)

FramesOK ==
    /\ queue \in Seq(Frames) /\ admitted \in Seq(Frames) /\ wire \in Seq(Frames)
    /\ queuedBytes \in 0..MaxOutbound
    /\ active \in Frames \union {None}
    /\ active \in Frames => offset \in 0..SizeOf[active]

\* What the writer holds is a whole number of bytes.
LEMMA HeldType == ASSUME IInv PROVE Held \in Nat
  BY SizeAssumption DEF IInv, TypeOK, Held

\* Lists and counters keep their types, and the counter keeps within its bound.
LEMMA FramesStep ==
    ASSUME IInv, [Next]_vars
    PROVE  FramesOK'
  <1> USE SizeAssumption, NoneAssumption, MaxOutboundAssumption DEF FramesOK, outbound, writing
  <1>0. TypeOK /\ LifecycleShape /\ WorkerShape /\ Accounts /\ FramesOK
    BY DEF IInv, TypeOK
  <1>1. CASE Kept
    BY <1>0, <1>1 DEF Kept
  <1>2. CASE Admits
    <2>1. PICK f \in Frames : Admit(f) /\ UNCHANGED <<writing, pc[Writer]>>
      BY <1>2 DEF Admits
    <2>2. queue' \in Seq(Frames) /\ admitted' \in Seq(Frames)
      BY <1>0, <2>1 DEF Admit
    <2>3. queuedBytes' \in 0..MaxOutbound
      <3>1. /\ SizeOf[f] \in Nat /\ queuedBytes \in 0..MaxOutbound
            /\ SizeOf[f] <= MaxOutbound - queuedBytes
            /\ queuedBytes' = queuedBytes + SizeOf[f]
        BY <1>0, <2>1 DEF Admit, Fits
      <3> QED  BY <3>1
    <2> QED  BY <1>0, <2>1, <2>2, <2>3
  <1>3. CASE Takes
    <2>1. active' \in Frames /\ queue' \in Seq(Frames)
      BY <1>0, <1>3 DEF Takes
    <2>2. offset' = 0 /\ SizeOf[active'] \in Nat
      BY <1>3, <2>1 DEF Takes
    <2> QED  BY <1>0, <1>3, <2>1, <2>2 DEF Takes
  <1>4. CASE Writes
    <2>1. PICK n \in 1..MaxOutbound : active \in Frames /\ WriteReturnsBytes(n)
      BY <1>4 DEF Writes
    <2>2. offset' \in 0..SizeOf[active]
      BY <1>0, <2>1 DEF WriteReturnsBytes
    <2>3. wire' \in Seq(Frames)
      BY <1>0, <2>1 DEF WriteReturnsBytes
    <2> QED  BY <1>0, <2>1, <2>2, <2>3 DEF WriteReturnsBytes
  <1>5. CASE WriterReleases
    <2>1. active # None /\ active \in Frames
      BY <1>0, <1>5 DEF WriterReleases, WorkerShape
    <2>2. queuedBytes - SizeOf[active] \in Nat
      BY <1>0, <2>1, FallsWeighs DEF Accounts, Held
    <2>3. queuedBytes' \in 0..MaxOutbound
      BY <1>0, <1>5, <2>1, <2>2 DEF WriterReleases
    <2> QED  BY <1>0, <1>5, <2>3 DEF WriterReleases
  <1>6. Kept \/ Admits \/ Takes \/ Writes \/ WriterReleases
    BY <1>0, OutboundStep
  <1> QED  BY <1>1, <1>2, <1>3, <1>4, <1>5, <1>6, Zenon

\* The accounts stay in order.
LEMMA AccountsStep ==
    ASSUME IInv, [Next]_vars
    PROVE  Accounts'
  <1> USE SizeAssumption, NoneAssumption DEF Accounts, outbound, writing
  <1>0. TypeOK /\ LifecycleShape /\ WorkerShape /\ Accounts
    BY DEF IInv
  <1>a. queuedBytes \in Int /\ Held \in Int /\ queue \in Seq(Frames)
    BY <1>0, HeldType DEF TypeOK
  <1>1. CASE Kept
    BY <1>0, <1>1 DEF Kept, Held
  <1>2. CASE Admits
    <2>1. PICK f \in Frames : Admit(f) /\ UNCHANGED <<writing, pc[Writer]>>
      BY <1>2 DEF Admits
    <2>2. Falls(Append(queue, f), queuedBytes - Held + SizeOf[f])
      <3>1. queuedBytes - Held \in Int
        BY <1>a
      <3> QED  BY <1>0, <1>a, <3>1, FallsAppend
    <2>3. queuedBytes' - Held' = queuedBytes - Held + SizeOf[f]
      <3>1. queuedBytes' = queuedBytes + SizeOf[f] /\ SizeOf[f] \in Int
        BY <2>1 DEF Admit
      <3>2. Held' = Held
        BY <2>1 DEF Held
      <3> QED  BY <1>a, <3>1, <3>2
    <2> QED  BY <2>1, <2>2, <2>3 DEF Admit
  <1>3. CASE Takes
    <2>1. Held = 0
      BY <1>0, <1>3 DEF Takes, WorkerShape, Held
    <2>2. Held' = SizeOf[Head(queue)] /\ Head(queue) \in Frames
      BY <1>a, <1>3 DEF Takes, Held
    <2>3. Falls(Tail(queue), queuedBytes - SizeOf[Head(queue)])
      BY <1>0, <1>a, <1>3, <2>1, FallsTail DEF Takes
    <2> QED  BY <1>3, <2>2, <2>3 DEF Takes
  <1>4. CASE Writes
    BY <1>0, <1>4 DEF Writes, WriteReturnsBytes, Held
  <1>5. CASE WriterReleases
    <2>1. active # None
      BY <1>0, <1>5 DEF WriterReleases, WorkerShape
    <2>2. queuedBytes' - Held' = queuedBytes - Held /\ queue' = queue
      BY <1>0, <1>a, <1>5, <2>1 DEF WriterReleases, Held, TypeOK
    <2> QED  BY <1>0, <2>2
  <1>6. Kept \/ Admits \/ Takes \/ Writes \/ WriterReleases
    BY <1>0, OutboundStep
  <1> QED  BY <1>1, <1>2, <1>3, <1>4, <1>5, <1>6, Zenon

\* A frame that is admitted goes behind the queue.
LEMMA PassingIn ==
    ASSUME NEW w \in Seq(Frames), NEW g \in Seq(Frames), NEW q \in Seq(Frames),
           NEW f \in Frames
    PROVE  Append(w \o g \o q, f) = w \o g \o Append(q, f)
  <1>1. w \o g \in Seq(Frames) /\ w \o g \o q \in Seq(Frames) /\ <<f>> \in Seq(Frames)
    OBVIOUS
  <1>2. Append(w \o g \o q, f) = (w \o g \o q) \o <<f>> /\ Append(q, f) = q \o <<f>>
    BY <1>1, AppendIsConcat
  <1>3. (w \o g \o q) \o <<f>> = w \o g \o (q \o <<f>>)
    BY <1>1, ConcatAssociative
  <1> QED  BY <1>2, <1>3

\* The front of the queue goes to the writer.
LEMMA PassingOn ==
    ASSUME NEW w \in Seq(Frames), NEW q \in Seq(Frames), q # <<>>
    PROVE  w \o <<>> \o q = w \o <<Head(q)>> \o Tail(q)
  OBVIOUS

\* The writer's frame joins what has gone out.
LEMMA PassingOut ==
    ASSUME NEW w \in Seq(Frames), NEW q \in Seq(Frames), NEW f \in Frames
    PROVE  w \o <<f>> \o q = Append(w, f) \o <<>> \o q
  OBVIOUS

Going == IF active = None \/ pc[Writer] = "written" THEN <<>> ELSE <<active>>

\* No frame is lost, repeated or overtaken.
LEMMA OrderStep ==
    ASSUME IInv, [Next]_vars
    PROVE  FramesInOrder'
  <1> USE NoneAssumption DEF outbound, writing
  <1>0. /\ TypeOK /\ LifecycleShape /\ WorkerShape
        /\ admitted = wire \o Going \o queue
    BY DEF IInv, FramesInOrder, Going
  <1>a. /\ queue \in Seq(Frames) /\ admitted \in Seq(Frames) /\ wire \in Seq(Frames)
        /\ active \in Frames \union {None} /\ pc \in [Workers -> Places] /\ Writer \in Workers
    BY <1>0 DEF TypeOK, Workers
  <1>b. Going \in Seq(Frames)
    BY <1>a DEF Going
  <1> SUFFICES admitted' = wire' \o Going' \o queue'
    BY DEF FramesInOrder, Going
  <1>1. CASE Kept /\ (pc[Writer] = "written" <=> pc'[Writer] = "written")
    <2>1. Going' = Going
      BY <1>1 DEF Kept, Going
    <2> QED  BY <1>0, <1>1, <2>1 DEF Kept
  <1>2. CASE Admits
    <2>1. PICK f \in Frames : Admit(f) /\ UNCHANGED <<writing, pc[Writer]>>
      BY <1>2 DEF Admits
    <2>2. Going' = Going
      BY <2>1 DEF Going
    <2>3. Append(wire \o Going \o queue, f) = wire \o Going \o Append(queue, f)
      <3>1. f \in Frames /\ wire \in Seq(Frames) /\ queue \in Seq(Frames)
        BY <1>a, <2>1
      <3> QED  BY <1>b, <3>1, PassingIn, Zenon
    <2> QED  BY <1>0, <2>1, <2>2, <2>3 DEF Admit
  <1>3. CASE Takes
    <2>1. Going = <<>>
      BY <1>0, <1>3 DEF Takes, WorkerShape, Going
    <2>2. queue # <<>> /\ Head(queue) \in Frames
      BY <1>a, <1>3 DEF Takes
    <2>3. Going' = <<Head(queue)>>
      BY <1>a, <1>3, <2>2 DEF Takes, Going
    <2>4. wire \o <<>> \o queue = wire \o <<Head(queue)>> \o Tail(queue)
      BY <1>a, <2>2, PassingOn
    <2> QED  BY <1>0, <1>3, <2>1, <2>3, <2>4 DEF Takes
  <1>4. CASE Writes
    <2>1. PICK n \in 1..MaxOutbound : active \in Frames /\ WriteReturnsBytes(n)
      BY <1>4 DEF Writes
    <2>2. Going = <<active>> /\ active # None
      BY <2>1 DEF WriteReturnsBytes, Going
    <2>3. CASE offset' = SizeOf[active]
      <3>1. Going' = <<>> /\ wire' = Append(wire, active)
        BY <1>a, <2>1, <2>3 DEF WriteReturnsBytes, Goto, Going
      <3>2. wire \o <<active>> \o queue = Append(wire, active) \o <<>> \o queue
        BY <1>a, <2>1, PassingOut
      <3> QED  BY <1>0, <2>1, <2>2, <3>1, <3>2 DEF WriteReturnsBytes
    <2>4. CASE offset' # SizeOf[active]
      <3>1. Going' = <<active>> /\ wire' = wire
        BY <1>a, <2>1, <2>2, <2>4 DEF WriteReturnsBytes, Goto, Going
      <3> QED  BY <1>0, <2>1, <2>2, <3>1 DEF WriteReturnsBytes
    <2> QED  BY <2>3, <2>4
  <1>5. CASE WriterReleases
    <2>1. Going = <<>> /\ Going' = <<>>
      BY <1>5 DEF WriterReleases, Going
    <2> QED  BY <1>0, <1>5, <2>1 DEF WriterReleases
  <1>6. \/ Kept /\ (pc[Writer] = "written" <=> pc'[Writer] = "written")
        \/ Admits \/ Takes \/ Writes \/ WriterReleases
    BY <1>0, OutboundStep
  <1> QED  BY <1>1, <1>2, <1>3, <1>4, <1>5, <1>6, Zenon

-----------------------------------------------------------------------------
(* The theorems. *)

\* A transport starts out within the invariant and stays there.
LEMMA Invariance == Spec => []IInv
  <1>1. Init => IInv
    <2> SUFFICES ASSUME Init PROVE IInv
      OBVIOUS
    <2> USE ThreadsAssumption, NoneAssumption, MaxOutboundAssumption DEF Init
    <2>1. TypeOK
      <3>1. pc \in [Workers -> Places] /\ done \subseteq Workers
        BY DEF Places
      <3>2. 0 \in 0..MaxOutbound
        OBVIOUS
      <3>3. <<>> \in Seq(Frames) /\ <<>> \in Seq(Causes)
        OBVIOUS
      <3>4. active \notin Frames
        OBVIOUS
      <3> QED  BY <3>1, <3>2, <3>3, <3>4 DEF TypeOK
    <2>2. LifecycleShape /\ WorkerShape
      BY DEF LifecycleShape, WorkerShape, Workers
    <2>3. CloseShape /\ CloseFlushes /\ BudgetHonoured /\ OneCloseEvent
      BY DEF CloseShape, CloseFlushes, BudgetHonoured, OneCloseEvent
    <2>4. Accounts
      <3>1. queue = <<>> /\ queuedBytes - Held = 0
        BY DEF Held
      <3> QED  BY <3>1, FallsNothing DEF Accounts
    <2>5. FramesInOrder
      BY DEF FramesInOrder
    <2> QED  BY <2>1, <2>2, <2>3, <2>4, <2>5 DEF IInv
  <1>2. IInv /\ [Next]_vars => IInv'
    <2> SUFFICES ASSUME IInv, [Next]_vars PROVE IInv'
      OBVIOUS
    <2>1. TypeOK'
      BY FlagsStep, MoreFlagsStep, StagesStep, SetsStep, PlacesStep, EventsTypeStep, FramesStep
         DEF TypeOK, FlagsOK, MoreFlagsOK, StagesOK, SetsOK, PlacesOK, EventsOK, FramesOK
    <2> QED
      BY <2>1, LifecycleStep, WorkerShapeStep, CloseStep, AccountsStep, OrderStep, FlushStep,
         BudgetStep, EventStep DEF IInv
  <1> QED  BY <1>1, <1>2, PTL DEF Spec

(* The state of a stdio_transport keeps its type, and queued_bytes_ keeps within       *)
(* max_outbound_bytes, so that the subtraction in send never wraps.                     *)
THEOREM TransportTypeCorrect == Spec => []TypeOK
  <1>1. IInv => TypeOK
    BY DEF IInv
  <1> QED  BY <1>1, Invariance, PTL

(* The bytes send checks its bound against are those of the queue and of the frame the *)
(* writer holds, for frames of any size, through partial writes and failures.           *)
THEOREM AccountsAreExact == Spec => []AccountingExact
  <1>1. IInv => AccountingExact
    BY FallsWeighs DEF IInv, Accounts, AccountingExact
  <1> QED  BY <1>1, Invariance, PTL

(* Frames go out whole and in the order send admitted them: whatever the reader, the    *)
(* program and the callbacks send between the writer's steps, nothing is lost, repeated  *)
(* or overtaken.                                                                         *)
THEOREM OrderIsKept == Spec => []FramesInOrder
  <1>1. IInv => FramesInOrder
    BY DEF IInv
  <1> QED  BY <1>1, Invariance, PTL

(* A writer that leaves has flushed its queue, or its time was up, or its own write had *)
(* failed.                                                                               *)
THEOREM CloseIsFlushed == Spec => []CloseFlushes
  <1>1. IInv => CloseFlushes
    BY DEF IInv
  <1> QED  BY <1>1, Invariance, PTL

(* Neither stop nor wait cuts a write off before the flush budget is spent.             *)
THEOREM BudgetIsHonoured == Spec => []BudgetHonoured
  <1>1. IInv => BudgetHonoured
    BY DEF IInv
  <1> QED  BY <1>1, Invariance, PTL

(* However many threads close the transport at once, the program hears of it once, with *)
(* the cause that came first.                                                            *)
THEOREM CloseIsToldOnce == Spec => []OneCloseEvent
  <1>1. IInv => OneCloseEvent
    BY DEF IInv
  <1> QED  BY <1>1, Invariance, PTL
-----------------------------------------------------------------------------
(* What a frame may take: the count, the encoding and the queue agree. *)

LEMMA LengthAdds ==
    ASSUME NEW pieces \in Seq(Nat)
    PROVE  LET sum == Sum(pieces) IN
           \A n \in 0 .. Len(pieces) :
             /\ sum[n] \in Nat
             /\ sum[n] = IF n = 0 THEN 0 ELSE sum[n - 1] + Requested(pieces[n])
  <1> DEFINE N == Len(pieces)
             sum == Sum(pieces)
             step == [i \in 1 .. N |-> [n \in Nat |-> n + Requested(pieces[i])]]
             S == {n \in 0 .. N : sum[n] \in Nat}
  <1>1. \A n \in 0 .. N : sum[n] = IF n = 0 THEN 0 ELSE step[n][sum[n - 1]]
    <2>1. sum = Iterate(0, step)
      BY DEF Sum
    <2>2. \A n \in 0 .. N : n \in Nat
      OBVIOUS
    <2> HIDE DEF sum, step, N
    <2> QED  BY <2>1, <2>2, IterateUnfolds
  <1>2. N \in Nat /\ \A n \in 1 .. N : Requested(pieces[n]) \in Nat /\ pieces[n] \in Nat
    BY DEF Requested
  <1> HIDE DEF sum, N
  <1>3. \A n \in 1 .. N : sum[n - 1] \in Nat => sum[n] = sum[n - 1] + Requested(pieces[n])
    <2> SUFFICES ASSUME NEW n \in 1 .. N, sum[n - 1] \in Nat
                 PROVE  sum[n] = sum[n - 1] + Requested(pieces[n])
      OBVIOUS
    <2>1. n \in 0 .. N /\ n # 0
      BY <1>2
    <2>2. sum[n] = step[n][sum[n - 1]]
      <3> HIDE DEF step
      <3> QED  BY <1>1, <2>1
    <2>3. step[n] = [m \in Nat |-> m + Requested(pieces[n])]
      OBVIOUS
    <2> QED  BY <1>2, <2>2, <2>3
  <1>4. 0 \in S
    <2>1. 0 \in 0 .. N
      BY <1>2
    <2> HIDE DEF step
    <2> QED  BY <1>1, <2>1
  <1>5. \A n \in 0 .. N : n \in S /\ n < N => n + 1 \in S
    <2> SUFFICES ASSUME NEW n \in 0 .. N, sum[n] \in Nat, n < N
                 PROVE  n + 1 \in 0 .. N /\ sum[n + 1] \in Nat
      OBVIOUS
    <2>1. n + 1 \in 1 .. N /\ (n + 1) - 1 = n
      BY <1>2
    <2> QED  BY <1>2, <1>3, <2>1
  <1>6. \A n \in 0 .. N : sum[n] \in Nat
    <2> HIDE DEF S
    <2>1. 0 .. N \subseteq S
      BY <1>2, <1>4, <1>5, Counting
    <2> QED  BY <2>1 DEF S
  <1>7. \A n \in 1 .. N : n - 1 \in 0 .. N
    BY <1>2
  <1>8. \A n \in 0 .. N : n # 0 => n \in 1 .. N
    BY <1>2
  <1> QED  BY <1>1, <1>3, <1>6, <1>7, <1>8 DEF sum, N

\* What a buffer of limit has taken of encoded bytes: all of them, or it has failed.
Exact(st, bytes, limit) ==
    /\ st \in Taken
    /\ st.ok <=> bytes <= limit
    /\ st.ok => st.size = bytes

LEMMA CountStaysExact ==
    ASSUME NEW limit \in Nat, NEW bytes \in Nat, NEW piece \in Nat, NEW st, Exact(st, bytes, limit)
    PROVE  Exact(Count(st, piece, limit), bytes + Requested(piece), limit)
  <1> DEFINE more == Requested(piece)
  <1>1. more \in Nat \ {0}
    BY DEF Requested
  <1> HIDE DEF more
  <1>2. CASE ~st.ok
    BY <1>1, <1>2 DEF Exact, Count, more
  <1>3. CASE st.ok
    <2>1. st.size = bytes /\ bytes <= limit
      BY <1>3 DEF Exact
    <2>2. Count(st, piece, limit) =
            [size |-> bytes + Smaller(limit - bytes, more), ok |-> more <= limit - bytes]
      BY <1>3, <2>1 DEF Count, more
    <2>3. bytes + Smaller(limit - bytes, more) \in Nat
      BY <1>1, <2>1 DEF Smaller
    <2>4. more <= limit - bytes => bytes + Smaller(limit - bytes, more) = bytes + more
      BY <1>1, <2>1 DEF Smaller
    <2>5. more <= limit - bytes <=> bytes + more <= limit
      BY <1>1, <2>1
    <2> DEFINE c == Count(st, piece, limit)
    <2>6. c \in Taken
      BY <2>2, <2>3 DEF Taken
    <2>7. c.ok = (more <= limit - bytes) /\ c.size = bytes + Smaller(limit - bytes, more)
      BY <2>2
    <2> HIDE DEF c
    <2> QED  BY <1>1, <2>4, <2>5, <2>6, <2>7 DEF Exact, more, c
  <1> QED  BY <1>2, <1>3

LEMMA BoundStaysExact ==
    ASSUME NEW limit \in Nat, NEW bytes \in Nat, NEW piece \in Nat, NEW st, Exact(st, bytes, limit)
    PROVE  Exact(Bound(st, piece, limit), bytes + Requested(piece), limit)
  <1> DEFINE more == Requested(piece)
  <1>1. more \in Nat \ {0}
    BY DEF Requested
  <1> HIDE DEF more
  <1> DEFINE b == Bound(st, piece, limit)
  <1>2. CASE ~st.ok
    <2>1. st \in Taken /\ ~ (bytes <= limit)
      BY <1>2 DEF Exact
    <2>2. b = [st EXCEPT !.ok = FALSE]
      BY <1>2 DEF Bound
    <2>3. b \in Taken /\ b.ok = FALSE
      BY <2>1, <2>2 DEF Taken
    <2> HIDE DEF b
    <2>4. ~ (bytes + more <= limit)
      BY <1>1, <2>1
    <2> QED  BY <2>3, <2>4 DEF Exact, b, more
  <1>3. CASE st.ok
    <2>1. st.size = bytes /\ bytes <= limit
      BY <1>3 DEF Exact
    <2>2. more > limit - bytes <=> ~ (bytes + more <= limit)
      BY <1>1, <2>1
    <2>3. Bound(st, piece, limit) = IF more > limit - bytes THEN [st EXCEPT !.ok = FALSE]
                                    ELSE [st EXCEPT !.size = bytes + more]
      BY <1>3, <2>1 DEF Bound, more
    <2>4. st \in Taken
      BY DEF Exact
    <2>5. CASE more > limit - bytes
      <3>1. b \in Taken /\ b.ok = FALSE
        BY <2>3, <2>4, <2>5 DEF Taken
      <3> HIDE DEF b
      <3> QED  BY <2>2, <2>5, <3>1 DEF Exact, b, more
    <2>6. CASE ~ (more > limit - bytes)
      <3>1. b \in Taken /\ b.ok = st.ok /\ b.size = bytes + more
        BY <1>1, <2>3, <2>4, <2>6 DEF Taken
      <3> HIDE DEF b
      <3> QED  BY <1>3, <2>2, <2>6, <3>1 DEF Exact, b, more
    <2> QED  BY <2>5, <2>6
  <1> QED  BY <1>2, <1>3
\* Either buffer knows the length of the encoding, or that it is too long.
LEMMA CountIsExact ==
    ASSUME NEW pieces \in Seq(Nat), NEW limit \in Nat
    PROVE  Exact(Counted(pieces, limit)[Len(pieces)], Length(pieces), limit)
  <1> DEFINE N == Len(pieces)
             st == Counted(pieces, limit)
             sum == Sum(pieces)
             step == [i \in 1 .. N |-> [s \in Taken |-> Count(s, pieces[i], limit)]]
             S == {n \in 0 .. N : Exact(st[n], sum[n], limit)}
  <1>1. \A n \in 0 .. N : st[n] = IF n = 0 THEN Nothing ELSE step[n][st[n - 1]]
    BY IterateUnfolds DEF Counted
  <1>2. \A n \in 0 .. N : /\ sum[n] \in Nat
                          /\ sum[n] = IF n = 0 THEN 0 ELSE sum[n - 1] + Requested(pieces[n])
    BY LengthAdds
  <1>3. N \in Nat /\ \A n \in 1 .. N : pieces[n] \in Nat
    OBVIOUS
  <1> HIDE DEF st, sum, N
  <1>4. 0 \in S
    <2>1. 0 \in 0 .. N
      BY <1>3
    <2>2. st[0] = Nothing /\ sum[0] = 0
      <3> HIDE DEF step
      <3> QED  BY <1>1, <1>2, <2>1
    <2>3. Exact(Nothing, 0, limit)
      BY DEF Exact, Nothing, Taken
    <2> QED  BY <2>1, <2>2, <2>3
  <1>5. \A n \in 0 .. N : n \in S /\ n < N => n + 1 \in S
    <2> SUFFICES ASSUME NEW n \in 0 .. N, Exact(st[n], sum[n], limit), n < N
                 PROVE  n + 1 \in 0 .. N /\ Exact(st[n + 1], sum[n + 1], limit)
      <3> HIDE DEF step
      <3> QED  OBVIOUS
    <2>1. n + 1 \in 0 .. N /\ n + 1 # 0 /\ (n + 1) - 1 = n /\ pieces[n + 1] \in Nat /\ sum[n] \in Nat
      BY <1>2, <1>3
    <2>2. st[n + 1] = step[n + 1][st[n]] /\ sum[n + 1] = sum[n] + Requested(pieces[n + 1])
      <3> HIDE DEF step
      <3> QED  BY <1>1, <1>2, <2>1
    <2>3. st[n] \in Taken
      BY DEF Exact
    <2>4. step[n + 1][st[n]] = Count(st[n], pieces[n + 1], limit)
      BY <2>1, <2>3
    <2> HIDE DEF step
    <2> QED  BY <2>1, <2>2, <2>4, CountStaysExact
  <1>6. 0 .. N \subseteq S
    <2> HIDE DEF S
    <2> QED  BY <1>3, <1>4, <1>5, Counting
  <1>7. Exact(st[N], sum[N], limit)
    BY <1>3, <1>6
  <1> QED  BY <1>7 DEF st, sum, N, Length

LEMMA BoundIsExact ==
    ASSUME NEW pieces \in Seq(Nat), NEW limit \in Nat
    PROVE  Exact(Bounded(pieces, limit)[Len(pieces)], Length(pieces), limit)
  <1> DEFINE N == Len(pieces)
             st == Bounded(pieces, limit)
             sum == Sum(pieces)
             step == [i \in 1 .. N |-> [s \in Taken |-> Bound(s, pieces[i], limit)]]
             S == {n \in 0 .. N : Exact(st[n], sum[n], limit)}
  <1>1. \A n \in 0 .. N : st[n] = IF n = 0 THEN Nothing ELSE step[n][st[n - 1]]
    BY IterateUnfolds DEF Bounded
  <1>2. \A n \in 0 .. N : /\ sum[n] \in Nat
                          /\ sum[n] = IF n = 0 THEN 0 ELSE sum[n - 1] + Requested(pieces[n])
    BY LengthAdds
  <1>3. N \in Nat /\ \A n \in 1 .. N : pieces[n] \in Nat
    OBVIOUS
  <1> HIDE DEF st, sum, N
  <1>4. 0 \in S
    <2>1. 0 \in 0 .. N
      BY <1>3
    <2>2. st[0] = Nothing /\ sum[0] = 0
      <3> HIDE DEF step
      <3> QED  BY <1>1, <1>2, <2>1
    <2>3. Exact(Nothing, 0, limit)
      BY DEF Exact, Nothing, Taken
    <2> QED  BY <2>1, <2>2, <2>3
  <1>5. \A n \in 0 .. N : n \in S /\ n < N => n + 1 \in S
    <2> SUFFICES ASSUME NEW n \in 0 .. N, Exact(st[n], sum[n], limit), n < N
                 PROVE  n + 1 \in 0 .. N /\ Exact(st[n + 1], sum[n + 1], limit)
      <3> HIDE DEF step
      <3> QED  OBVIOUS
    <2>1. n + 1 \in 0 .. N /\ n + 1 # 0 /\ (n + 1) - 1 = n /\ pieces[n + 1] \in Nat /\ sum[n] \in Nat
      BY <1>2, <1>3
    <2>2. st[n + 1] = step[n + 1][st[n]] /\ sum[n + 1] = sum[n] + Requested(pieces[n + 1])
      <3> HIDE DEF step
      <3> QED  BY <1>1, <1>2, <2>1
    <2>3. st[n] \in Taken
      BY DEF Exact
    <2>4. step[n + 1][st[n]] = Bound(st[n], pieces[n + 1], limit)
      BY <2>1, <2>3
    <2> HIDE DEF step
    <2> QED  BY <2>1, <2>2, <2>4, BoundStaysExact
  <1>6. 0 .. N \subseteq S
    <2> HIDE DEF S
    <2> QED  BY <1>3, <1>4, <1>5, Counting
  <1>7. Exact(st[N], sum[N], limit)
    BY <1>3, <1>6
  <1> QED  BY <1>7 DEF st, sum, N, Length

(* emit and send agree, for every encoding, every pair of limits and whatever is queued: *)
(* the server replaces exactly the replies that could never be sent, what it lets through *)
(* never fails to encode, and is refused only while the queue has no room for it.          *)
THEOREM RepliesWithinLimits ==
    ASSUME NEW reply,
           reply.opt.frame \in Nat \ {0}, reply.opt.outbound \in Nat \ {0},
           reply.queued \in 0 .. reply.opt.outbound,
           reply.pieces \in Seq(Nat), reply.substitute \in Seq(Nat)
    PROVE  EmitsWhatFits(reply, Emit(reply.opt, reply.queued, reply.pieces, reply.substitute))
  <1> DEFINE opt == reply.opt
             max == MaxEncoded(opt)
  <1>1. max \in Nat
    BY DEF MaxEncoded, Smaller
  <1>2. ASSUME NEW pieces \in Seq(Nat)
        PROVE  /\ Length(pieces) \in Nat
               /\ FrameFits(pieces, max) <=> Length(pieces) <= max
               /\ Exact(Encoded(pieces, max), Length(pieces), max)
    <2>1. Len(pieces) \in 0 .. Len(pieces)
      OBVIOUS
    <2> QED  BY <1>1, <2>1, LengthAdds, CountIsExact, BoundIsExact DEF Length, FrameFits, Encoded, Exact
  <1>3. ASSUME NEW pieces \in Seq(Nat)
        PROVE  FrameFits(pieces, max) <=> Sendable(opt, pieces)
    <2>1. Length(pieces) <= max <=> Length(pieces) <= opt.frame /\ Length(pieces) + 1 <= opt.outbound
      BY <1>2 DEF MaxEncoded, Smaller
    <2> QED  BY <1>2, <2>1 DEF Sendable
  <1>4. ASSUME NEW pieces \in Seq(Nat), Sendable(opt, pieces)
        PROVE  Send(opt, reply.queued, pieces) =
                 IF reply.queued + Length(pieces) + 1 > opt.outbound THEN "full" ELSE "queued"
    <2> DEFINE encoded == Encoded(pieces, max)
    <2>1. FrameFits(pieces, max)
      BY <1>3, <1>4
    <2>2. encoded.ok /\ encoded.size = Length(pieces) /\ Length(pieces) \in Nat
      BY <1>2, <2>1 DEF Exact
    <2>3. Send(opt, reply.queued, pieces) =
            IF ~encoded.ok THEN "limit"
            ELSE IF encoded.size + 1 > opt.outbound - reply.queued THEN "full" ELSE "queued"
      BY DEF Send
    <2> HIDE DEF encoded
    <2> QED  BY <2>2, <2>3
  <1> DEFINE emitted == Emit(opt, reply.queued, reply.pieces, reply.substitute)
  <1>5. /\ emitted.replaced = ~FrameFits(reply.pieces, max)
        /\ emitted.sent = IF FrameFits(reply.pieces, max) THEN Send(opt, reply.queued, reply.pieces)
                          ELSE IF FrameFits(reply.substitute, max)
                          THEN Send(opt, reply.queued, reply.substitute)
                          ELSE "given up"
    BY DEF Emit
  <1> HIDE DEF emitted, max
  <1> DEFINE frame == IF emitted.replaced THEN reply.substitute ELSE reply.pieces
  <1>6. EmitsWhatFits(reply, emitted) <=>
          /\ emitted.replaced <=> ~Sendable(opt, reply.pieces)
          /\ emitted.sent = IF ~Sendable(opt, frame) THEN "given up"
                            ELSE IF reply.queued + Length(frame) + 1 > opt.outbound
                            THEN "full" ELSE "queued"
    BY DEF EmitsWhatFits
  <1>7. CASE Sendable(opt, reply.pieces)
    <2>1. ~emitted.replaced /\ emitted.sent = Send(opt, reply.queued, reply.pieces)
      BY <1>3, <1>5, <1>7
    <2>2. frame = reply.pieces
      BY <2>1
    <2>3. emitted.sent = IF reply.queued + Length(reply.pieces) + 1 > opt.outbound
                         THEN "full" ELSE "queued"
      BY <1>4, <1>7, <2>1
    <2> HIDE DEF opt, frame
    <2>4. emitted.replaced <=> ~Sendable(opt, reply.pieces)
      BY <1>7, <2>1, Zenon
    <2>5. emitted.sent = IF ~Sendable(opt, frame) THEN "given up"
                         ELSE IF reply.queued + Length(frame) + 1 > opt.outbound
                         THEN "full" ELSE "queued"
      BY <1>7, <2>2, <2>3
    <2>6. EmitsWhatFits(reply, emitted)
      BY <1>6, <2>4, <2>5, Zenon
    <2> QED  BY <2>6 DEF emitted, opt
  <1>8. CASE ~Sendable(opt, reply.pieces)
    <2>1. emitted.replaced
          /\ emitted.sent = IF Sendable(opt, reply.substitute)
                            THEN Send(opt, reply.queued, reply.substitute) ELSE "given up"
      BY <1>3, <1>5, <1>8
    <2>2. frame = reply.substitute
      BY <2>1
    <2>3. emitted.sent = IF ~Sendable(opt, reply.substitute) THEN "given up"
                         ELSE IF reply.queued + Length(reply.substitute) + 1 > opt.outbound
                         THEN "full" ELSE "queued"
      BY <1>4, <2>1
    <2> HIDE DEF opt, frame
    <2>4. emitted.replaced <=> ~Sendable(opt, reply.pieces)
      BY <1>8, <2>1, Zenon
    <2>5. emitted.sent = IF ~Sendable(opt, frame) THEN "given up"
                         ELSE IF reply.queued + Length(frame) + 1 > opt.outbound
                         THEN "full" ELSE "queued"
      BY <1>8, <2>2, <2>3
    <2>6. EmitsWhatFits(reply, emitted)
      BY <1>6, <2>4, <2>5, Zenon
    <2> QED  BY <2>6 DEF emitted, opt
  <1> QED  BY <1>7, <1>8
-----------------------------------------------------------------------------
(* The scan of a line: what it counts is how deep the values are nested. *)

\* Where the scan is outside of strings, and inside of one.
Outside(k) == [depth |-> k, quoted |-> FALSE, escaped |-> FALSE, excess |-> FALSE]
Inside(k, escaped) == [depth |-> k, quoted |-> TRUE, escaped |-> escaped, excess |-> FALSE]

LEMMA ScanOutside ==
    ASSUME NEW k \in 0 .. MaxDepth, NEW ch
    PROVE  /\ Outside(k) \in Scans /\ \A e \in BOOLEAN : Inside(k, e) \in Scans
           /\ ch \in {"1", ","} => Scan(Outside(k), ch) = Outside(k)
           /\ ch = "\"" => Scan(Outside(k), ch) = Inside(k, FALSE)
           /\ ch = "[" /\ k < MaxDepth => Scan(Outside(k), ch) = Outside(k + 1)
           /\ ch = "[" /\ k = MaxDepth => Scan(Outside(k), ch).excess
           /\ ch = "]" /\ k > 0 => Scan(Outside(k), ch) = Outside(k - 1)
  <1> USE MaxDepthAssumption
  <1>1. Outside(k) \in Scans /\ \A e \in BOOLEAN : Inside(k, e) \in Scans
    BY DEF Outside, Inside, Scans
  <1>2. ASSUME ch \in {"1", ","} PROVE Scan(Outside(k), ch) = Outside(k)
    BY <1>2 DEF Scan, Outside
  <1>3. ASSUME ch = "\"" PROVE Scan(Outside(k), ch) = Inside(k, FALSE)
    BY <1>3 DEF Scan, Outside, Inside
  <1>4. ASSUME ch = "[", k < MaxDepth PROVE Scan(Outside(k), ch) = Outside(k + 1)
    <2>1. Scan(Outside(k), ch) = [Outside(k) EXCEPT !.depth = k + 1]
      BY <1>4 DEF Scan, Outside
    <2> QED  BY <1>4, <2>1 DEF Outside
  <1>5. ASSUME ch = "[", k = MaxDepth PROVE Scan(Outside(k), ch).excess
    BY <1>5 DEF Scan, Outside
  <1>6. ASSUME ch = "]", k > 0 PROVE Scan(Outside(k), ch) = Outside(k - 1)
    BY <1>6 DEF Scan, Outside
  <1> QED  BY <1>1, <1>2, <1>3, <1>4, <1>5, <1>6

LEMMA ScanInside ==
    ASSUME NEW k \in 0 .. MaxDepth, NEW ch
    PROVE  /\ Scan(Inside(k, TRUE), ch) = Inside(k, FALSE)
           /\ ch # "\"" => Scan(Inside(k, FALSE), ch) = Inside(k, ch = "\\")
           /\ ch = "\"" => Scan(Inside(k, FALSE), ch) = Outside(k)
  <1>1. Scan(Inside(k, TRUE), ch) = Inside(k, FALSE)
    BY DEF Scan, Inside
  <1>2. ASSUME ch # "\"", ch = "\\" PROVE Scan(Inside(k, FALSE), ch) = Inside(k, TRUE)
    BY <1>2 DEF Scan, Inside
  <1>3. ASSUME ch # "\"", ch # "\\" PROVE Scan(Inside(k, FALSE), ch) = Inside(k, FALSE)
    BY <1>3 DEF Scan, Inside
  <1>4. ASSUME ch = "\"" PROVE Scan(Inside(k, FALSE), ch) = Outside(k)
    BY <1>4 DEF Scan, Inside, Outside
  <1> QED  BY <1>1, <1>2, <1>3, <1>4

\* A scan stays one, and what is in excess stays in excess.
LEMMA ScanClosed ==
    ASSUME NEW s \in Scans, NEW ch
    PROVE  Scan(s, ch) \in Scans /\ (s.excess => Scan(s, ch).excess)
  <1> USE MaxDepthAssumption DEF Scans
  <1>1. CASE s.quoted /\ s.escaped
    <2>1. Scan(s, ch) = [s EXCEPT !.escaped = FALSE]
      BY <1>1 DEF Scan
    <2> QED  BY <2>1
  <1>2. CASE s.quoted /\ ~s.escaped
    <2>1. Scan(s, ch) = [s EXCEPT !.escaped = (ch = "\\"), !.quoted = (ch # "\"")]
      BY <1>2 DEF Scan
    <2> QED  BY <2>1
  <1>3. CASE ~s.quoted
    <2>1. CASE ch = "\""
      <3>1. Scan(s, ch) = [s EXCEPT !.quoted = TRUE]
        BY <1>3, <2>1 DEF Scan
      <3> QED  BY <3>1
    <2>2. CASE ch = "[" /\ s.depth = MaxDepth
      <3>1. Scan(s, ch) = [s EXCEPT !.excess = TRUE]
        BY <1>3, <2>2 DEF Scan
      <3> QED  BY <3>1
    <2>3. CASE ch = "[" /\ s.depth < MaxDepth
      <3>1. Scan(s, ch) = [s EXCEPT !.depth = s.depth + 1]
        BY <1>3, <2>3 DEF Scan
      <3> QED  BY <2>3, <3>1
    <2>4. CASE ch = "]" /\ s.depth > 0
      <3>1. Scan(s, ch) = [s EXCEPT !.depth = s.depth - 1]
        BY <1>3, <2>4 DEF Scan
      <3> QED  BY <2>4, <3>1
    <2>5. CASE ch \notin {"\"", "["} /\ ~ (ch = "]" /\ s.depth > 0)
      <3>1. Scan(s, ch) = s
        BY <1>3, <2>5 DEF Scan
      <3> QED  BY <3>1
    <2>6. s.depth = MaxDepth \/ s.depth < MaxDepth
      OBVIOUS
    <2> QED  BY <2>1, <2>2, <2>3, <2>4, <2>5, <2>6
  <1> QED  BY <1>1, <1>2, <1>3

\* The scan byte by byte.
LEMMA ScannedSteps ==
    ASSUME NEW text \in Seq(Bytes)
    PROVE  /\ Scanned(text)[0] = Outside(0)
           /\ \A i \in 0 .. Len(text) : Scanned(text)[i] \in Scans
           /\ \A i \in 1 .. Len(text) : Scanned(text)[i] = Scan(Scanned(text)[i - 1], text[i])
  <1> DEFINE N == Len(text)
             sc == Scanned(text)
             step == [i \in 1 .. N |-> [s \in Scans |-> Scan(s, text[i])]]
             S == {i \in 0 .. N : sc[i] \in Scans}
  <1>1. \A n \in Nat : sc[n] = IF n = 0 THEN Outside(0) ELSE step[n][sc[n - 1]]
    <2>1. sc = Iterate(Outside(0), step)
      BY DEF Scanned, Outside
    <2> HIDE DEF sc, step
    <2> QED  BY <2>1, IterateUnfolds
  <1>2. N \in Nat
    OBVIOUS
  <1>3. Outside(0) \in Scans
    BY MaxDepthAssumption DEF Outside, Scans
  <1> HIDE DEF sc, N
  <1>4. \A i \in 1 .. N : sc[i - 1] \in Scans => sc[i] = Scan(sc[i - 1], text[i])
    <2> SUFFICES ASSUME NEW i \in 1 .. N, sc[i - 1] \in Scans
                 PROVE  sc[i] = Scan(sc[i - 1], text[i])
      OBVIOUS
    <2>1. i \in Nat /\ i # 0
      BY <1>2
    <2>2. sc[i] = step[i][sc[i - 1]]
      <3> HIDE DEF step
      <3> QED  BY <1>1, <2>1
    <2>3. step[i] = [s \in Scans |-> Scan(s, text[i])]
      OBVIOUS
    <2> HIDE DEF step
    <2> QED  BY <2>2, <2>3
  <1>5. 0 \in S
    <2>1. 0 \in 0 .. N
      BY <1>2
    <2> HIDE DEF step
    <2> QED  BY <1>1, <1>3, <2>1
  <1>6. \A i \in 0 .. N : i \in S /\ i < N => i + 1 \in S
    <2> SUFFICES ASSUME NEW i \in 0 .. N, sc[i] \in Scans, i < N
                 PROVE  i + 1 \in 0 .. N /\ sc[i + 1] \in Scans
      <3> HIDE DEF step
      <3> QED  OBVIOUS
    <2>1. i + 1 \in 1 .. N /\ (i + 1) - 1 = i
      BY <1>2
    <2>2. sc[i + 1] = Scan(sc[i], text[i + 1])
      <3> HIDE DEF step
      <3> QED  BY <1>4, <2>1
    <2> HIDE DEF step
    <2> QED  BY <2>1, <2>2, ScanClosed
  <1>7. 0 .. N \subseteq S
    <2> HIDE DEF S
    <2> QED  BY <1>2, <1>5, <1>6, Counting
  <1>8. \A i \in 1 .. N : i - 1 \in 0 .. N
    BY <1>2
  <1>9. \A i \in 0 .. N : sc[i] \in Scans
    BY <1>7
  <1>10. sc[0] = Outside(0)
    <2> HIDE DEF step
    <2> QED  BY <1>1
  <1> HIDE DEF step, S
  <1> QED  BY <1>4, <1>8, <1>9, <1>10 DEF sc, N

LEMMA ExcessStays ==
    ASSUME NEW text \in Seq(Bytes), NEW i \in 0 .. Len(text), NEW j \in i .. Len(text),
           Scanned(text)[i].excess
    PROVE  Scanned(text)[j].excess
  <1> DEFINE sc == Scanned(text)
             S == {n \in i .. j : sc[n].excess}
  <1>1. i \in Nat /\ j \in Nat /\ i \in S
    OBVIOUS
  <1>2. \A n \in i .. j : n \in S /\ n < j => n + 1 \in S
    <2> SUFFICES ASSUME NEW n \in i .. j, sc[n].excess, n < j
                 PROVE  n + 1 \in i .. j /\ sc[n + 1].excess
      OBVIOUS
    <2>1. n + 1 \in 1 .. Len(text) /\ (n + 1) - 1 = n /\ n \in 0 .. Len(text)
      OBVIOUS
    <2>2. sc[n] \in Scans /\ sc[n + 1] = Scan(sc[n], text[n + 1])
      BY <2>1, ScannedSteps
    <2> HIDE DEF sc
    <2> QED  BY <2>2, ScanClosed
  <1>3. i .. j \subseteq S
    <2> HIDE DEF S
    <2> QED  BY <1>1, <1>2, CountingFrom
  <1> QED  BY <1>3

LEMMA ValuesUnfold ==
    ASSUME NEW text \in Seq(Bytes)
    PROVE  /\ Values(text)[0] = Atoms(text)
           /\ \A d \in Nat : /\ Values(text)[d] \subseteq Spans(text)
                             /\ Values(text)[d + 1] = Atoms(text) \cup Arrays(text, Values(text)[d])
  <1> DEFINE v == Values(text)
             step == [d \in Nat |-> [values \in SUBSET Spans(text) |->
                                       Atoms(text) \cup Arrays(text, values)]]
  <1>1. \A n \in Nat : v[n] = IF n = 0 THEN Atoms(text) ELSE step[n][v[n - 1]]
    <2>1. v = Iterate(Atoms(text), step)
      BY DEF Values
    <2> HIDE DEF v, step
    <2> QED  BY <2>1, IterateUnfolds
  <1>2. Atoms(text) \subseteq Spans(text) /\ \A x : Arrays(text, x) \subseteq Spans(text)
    BY DEF Atoms, Arrays
  <1> HIDE DEF v
  <1>3. ASSUME NEW d \in Nat, v[d] \subseteq Spans(text)
        PROVE  v[d + 1] = Atoms(text) \cup Arrays(text, v[d])
    <2>1. d + 1 \in Nat /\ d + 1 # 0 /\ (d + 1) - 1 = d
      OBVIOUS
    <2>2. v[d + 1] = step[d + 1][v[d]]
      <3> HIDE DEF step
      <3> QED  BY <1>1, <2>1
    <2>3. step[d + 1] = [values \in SUBSET Spans(text) |-> Atoms(text) \cup Arrays(text, values)]
      OBVIOUS
    <2> HIDE DEF step
    <2> QED  BY <1>3, <2>2, <2>3
  <1>4. ASSUME NEW D \in Nat
        PROVE  v[D] \subseteq Spans(text)
    <2> DEFINE S == {d \in 0 .. D : v[d] \subseteq Spans(text)}
    <2> HIDE DEF step
    <2>1. 0 \in S
      BY <1>1, <1>2
    <2>2. \A d \in 0 .. D : d \in S /\ d < D => d + 1 \in S
      <3> SUFFICES ASSUME NEW d \in 0 .. D, v[d] \subseteq Spans(text), d < D
                   PROVE  d + 1 \in 0 .. D /\ v[d + 1] \subseteq Spans(text)
        OBVIOUS
      <3>1. v[d + 1] = Atoms(text) \cup Arrays(text, v[d])
        BY <1>3
      <3> QED  BY <1>2, <3>1
    <2>3. 0 .. D \subseteq S
      <3> HIDE DEF S
      <3> QED  BY <2>1, <2>2, Counting
    <2> QED  BY <2>3
  <1> HIDE DEF step
  <1>5. v[0] = Atoms(text)
    BY <1>1
  <1> QED  BY <1>3, <1>4, <1>5 DEF v

\* The scan is outside of strings, k deep, after the first i bytes of a text; or inside.
At(text, i, k) == Scanned(text)[i] = Outside(k)
In(text, i, k, escaped) == Scanned(text)[i] = Inside(k, escaped)

LEMMA StepOutside ==
    ASSUME NEW text \in Seq(Bytes), NEW i \in 0 .. Len(text), i < Len(text),
           NEW k \in 0 .. MaxDepth, At(text, i, k)
    PROVE  /\ text[i + 1] \in {"1", ","} => At(text, i + 1, k)
           /\ text[i + 1] = "\"" => In(text, i + 1, k, FALSE)
           /\ text[i + 1] = "[" /\ k < MaxDepth => At(text, i + 1, k + 1)
           /\ text[i + 1] = "[" /\ k = MaxDepth => Scanned(text)[i + 1].excess
           /\ text[i + 1] = "]" /\ k > 0 => At(text, i + 1, k - 1)
  <1> DEFINE sc == Scanned(text)
  <1>1. i + 1 \in 1 .. Len(text) /\ (i + 1) - 1 = i
    OBVIOUS
  <1>2. sc[i + 1] = Scan(sc[i], text[i + 1])
    BY <1>1, ScannedSteps
  <1>3. sc[i + 1] = Scan(Outside(k), text[i + 1])
    BY <1>2 DEF At
  <1> HIDE DEF sc
  <1> QED  BY <1>3, ScanOutside DEF At, In, sc

LEMMA StepInside ==
    ASSUME NEW text \in Seq(Bytes), NEW i \in 0 .. Len(text), i < Len(text),
           NEW k \in 0 .. MaxDepth
    PROVE  /\ In(text, i, k, TRUE) => In(text, i + 1, k, FALSE)
           /\ In(text, i, k, FALSE) /\ text[i + 1] # "\"" => In(text, i + 1, k, text[i + 1] = "\\")
           /\ In(text, i, k, FALSE) /\ text[i + 1] = "\"" => At(text, i + 1, k)
  <1> DEFINE sc == Scanned(text)
  <1>1. i + 1 \in 1 .. Len(text) /\ (i + 1) - 1 = i
    OBVIOUS
  <1>2. sc[i + 1] = Scan(sc[i], text[i + 1])
    BY <1>1, ScannedSteps
  <1> HIDE DEF sc
  <1> QED  BY <1>2, ScanInside, Zenon DEF At, In, sc

\* A number or a string leaves the scan where it was.
LEMMA NumberScanned ==
    ASSUME NEW text \in Seq(Bytes), NEW a \in 1 .. Len(text), NEW b \in 1 .. Len(text),
           IsNumber(text, a, b), NEW k \in 0 .. MaxDepth, At(text, a - 1, k)
    PROVE  At(text, b, k)
  <1> DEFINE S == {i \in a - 1 .. b : At(text, i, k)}
  <1>1. a <= b /\ \A i \in a .. b : text[i] = "1"
    BY DEF IsNumber
  <1>2. a - 1 \in S /\ a - 1 \in Nat /\ b \in Nat
    BY <1>1
  <1>3. \A i \in a - 1 .. b : i \in S /\ i < b => i + 1 \in S
    <2> SUFFICES ASSUME NEW i \in a - 1 .. b, At(text, i, k), i < b
                 PROVE  i + 1 \in a - 1 .. b /\ At(text, i + 1, k)
      OBVIOUS
    <2>1. i \in 0 .. Len(text) /\ i < Len(text) /\ i + 1 \in a .. b
      OBVIOUS
    <2>2. text[i + 1] = "1"
      BY <1>1, <2>1
    <2>3. At(text, i + 1, k)
      BY <2>1, <2>2, StepOutside
    <2>4. i + 1 \in a - 1 .. b
      BY <2>1
    <2> QED  BY <2>3, <2>4
  <1>4. a - 1 .. b \subseteq S
    <2> HIDE DEF S
    <2> QED  BY <1>2, <1>3, CountingFrom
  <1>5. b \in a - 1 .. b
    BY <1>1
  <1> QED  BY <1>4, <1>5

LEMMA StringScanned ==
    ASSUME NEW text \in Seq(Bytes), NEW a \in 1 .. Len(text), NEW b \in 1 .. Len(text),
           IsString(text, a, b), NEW k \in 0 .. MaxDepth, At(text, a - 1, k)
    PROVE  At(text, b, k)
  <1>1. a < b /\ text[a] = "\"" /\ text[b] = "\""
    BY DEF IsString
  <1>2. PICK escapes :
           /\ \A i \in escapes : i \in a + 1 .. b - 2 /\ text[i] = "\\"
           /\ \A i \in a + 1 .. b - 1 :
                IF i - 1 \in escapes THEN i \notin escapes /\ text[i] \in {"\\", "\""}
                ELSE text[i] # "\"" /\ (text[i] = "\\" => i \in escapes)
    BY DEF IsString
  <1>3. a \in Nat /\ b \in Nat /\ b - 1 \in Nat /\ a <= b - 1
    <2>1. a < b
      BY <1>1
    <2> QED  BY <2>1
  <1>4. \A i \in escapes : i \in a + 1 .. b - 2
    BY <1>2
  <1>5. a \notin escapes /\ b - 1 \notin escapes
    BY <1>3, <1>4
  <1> DEFINE Within(i) == IF i \in escapes THEN In(text, i, k, TRUE) ELSE In(text, i, k, FALSE)
             S == {i \in a .. b - 1 : Within(i)}
  <1>6. a \in S
    <2>1. a - 1 \in 0 .. Len(text) /\ a - 1 < Len(text) /\ (a - 1) + 1 = a
      OBVIOUS
    <2>2. text[a] = "\""
      BY <1>1
    <2>3. In(text, a, k, FALSE)
      BY <2>1, <2>2, StepOutside
    <2>4. Within(a)
      BY <1>5, <2>3
    <2>5. a \in a .. b - 1
      BY <1>3
    <2> HIDE DEF Within
    <2> QED  BY <2>4, <2>5
  <1>7. \A i \in a .. b - 1 : i \in S /\ i < b - 1 => i + 1 \in S
    <2> SUFFICES ASSUME NEW i \in a .. b - 1, Within(i), i < b - 1
                 PROVE  i + 1 \in a .. b - 1 /\ Within(i + 1)
      BY Zenon
    <2>1. /\ i + 1 \in a + 1 .. b - 1 /\ i \in 0 .. Len(text) /\ i < Len(text)
          /\ (i + 1) - 1 = i /\ i + 1 \in a .. b - 1
      OBVIOUS
    <2>2. IF i \in escapes THEN i + 1 \notin escapes
          ELSE text[i + 1] # "\"" /\ (text[i + 1] = "\\" => i + 1 \in escapes)
      <3> DEFINE j == i + 1
      <3>1. j \in a + 1 .. b - 1 /\ j - 1 = i
        BY <2>1
      <3> HIDE DEF j
      <3>2. IF j - 1 \in escapes THEN j \notin escapes
            ELSE text[j] # "\"" /\ (text[j] = "\\" => j \in escapes)
        BY <1>2, <3>1
      <3> QED  BY <3>1, <3>2 DEF j
    <2>3. i + 1 \in escapes => text[i + 1] = "\\"
      BY <1>2
    <2>4. CASE i \in escapes
      <3>1. In(text, i + 1, k, FALSE)
        BY <2>1, <2>4, StepInside
      <3> QED  BY <2>1, <2>2, <2>4, <3>1
    <2>5. CASE i \notin escapes
      <3>1. In(text, i + 1, k, text[i + 1] = "\\")
        BY <2>1, <2>2, <2>5, StepInside
      <3>2. CASE text[i + 1] = "\\"
        <4>1. In(text, i + 1, k, TRUE)
          <5>1. (text[i + 1] = "\\") = TRUE
            BY <3>2
          <5> QED  BY <3>1, <5>1
        <4> QED  BY <2>1, <2>2, <2>5, <3>2, <4>1
      <3>3. CASE text[i + 1] # "\\"
        <4>1. In(text, i + 1, k, FALSE)
          <5>1. (text[i + 1] = "\\") = FALSE
            BY <3>3
          <5> QED  BY <3>1, <5>1
        <4> QED  BY <2>1, <2>3, <3>3, <4>1
      <3> QED  BY <3>2, <3>3
    <2> QED  BY <2>4, <2>5
  <1>8. a .. b - 1 \subseteq S
    <2> HIDE DEF S
    <2> QED  BY <1>3, <1>6, <1>7, CountingFrom
  <1>9. In(text, b - 1, k, FALSE)
    <2>1. b - 1 \in a .. b - 1
      BY <1>3
    <2> QED  BY <1>5, <1>8, <2>1
  <1>10. b - 1 \in 0 .. Len(text) /\ b - 1 < Len(text) /\ (b - 1) + 1 = b
    OBVIOUS
  <1>11. text[b] = "\""
    BY <1>1
  <1> QED  BY <1>9, <1>10, <1>11, StepInside

LEMMA AtomScanned ==
    ASSUME NEW text \in Seq(Bytes), NEW s \in Atoms(text), NEW k \in 0 .. MaxDepth,
           At(text, s[1] - 1, k)
    PROVE  At(text, s[2], k)
  <1>1. s[1] \in 1 .. Len(text) /\ s[2] \in 1 .. Len(text)
        /\ (IsNumber(text, s[1], s[2]) \/ IsString(text, s[1], s[2]))
    BY DEF Atoms, Spans
  <1> QED  BY <1>1, NumberScanned, StringScanned

\* Two places with no comma in between.
Adjacent(commas, i, j) == i < j /\ \A c \in commas : c <= i \/ j <= c

LEMMA Predecessor ==
    ASSUME NEW C, \A c \in C : c \in Nat, NEW o \in C, NEW j \in Nat, o < j
    PROVE  \E i \in C : Adjacent(C, i, j)
  <1> DEFINE S == {m \in o + 1 .. j : \E i \in C : Adjacent(C, i, m)}
  <1>1. o \in Nat /\ o + 1 \in Nat
    OBVIOUS
  <1>2. o + 1 \in S
    <2>1. Adjacent(C, o, o + 1)
      BY DEF Adjacent
    <2> QED  BY <2>1
  <1>3. \A m \in o + 1 .. j : m \in S /\ m < j => m + 1 \in S
    <2> SUFFICES ASSUME NEW m \in o + 1 .. j, m < j, NEW i \in C, Adjacent(C, i, m)
                 PROVE  \E n \in C : Adjacent(C, n, m + 1)
      OBVIOUS
    <2>1. CASE m \in C
      <3>1. Adjacent(C, m, m + 1)
        BY DEF Adjacent
      <3> QED  BY <2>1, <3>1
    <2>2. CASE m \notin C
      <3>1. Adjacent(C, i, m + 1)
        BY <2>2 DEF Adjacent
      <3> QED  BY <3>1
    <2> QED  BY <2>1, <2>2
  <1>4. o + 1 .. j \subseteq S
    <2> HIDE DEF S
    <2> QED  BY <1>1, <1>2, <1>3, CountingFrom
  <1> QED  BY <1>4

AreCommas(text, commas) == \A c \in commas : text[c] = ","

\* The commas are those of a list whose members are in W; and what the scan makes of the members:
\* they are in G and leave it where it was, or it is in excess, where it may be.
Members(commas, a, b, W) ==
    \A i \in commas \cup {a - 1}, j \in commas \cup {b + 1} :
        Adjacent(commas, i, j) => <<i + 1, j - 1>> \in W

Carries(text, W, G, Lost, k) ==
    \A s \in W :
        At(text, s[1] - 1, k) => \/ At(text, s[2], k) /\ s \in G
                                 \/ Lost /\ Scanned(text)[s[2]].excess

LEMMA ListScanned ==
    ASSUME NEW text \in Seq(Bytes), NEW a \in 1 .. Len(text), NEW b \in 1 .. Len(text), a <= b,
           NEW commas \in SUBSET (a .. b), AreCommas(text, commas),
           NEW W \in SUBSET Spans(text), NEW G, NEW Lost \in BOOLEAN, NEW k \in 0 .. MaxDepth,
           Members(commas, a, b, W), Carries(text, W, G, Lost, k), At(text, a - 1, k)
    PROVE  \/ At(text, b, k) /\ Members(commas, a, b, G)
           \/ Lost /\ Scanned(text)[b].excess
  <1> DEFINE From == commas \cup {a - 1}
             To == commas \cup {b + 1}
             Good(j) == \A i \in From, h \in To :
                           Adjacent(commas, i, h) /\ h <= j => <<i + 1, h - 1>> \in G
             Seen(j) == \/ At(text, j - 1, k) /\ Good(j)
                        \/ Lost /\ Scanned(text)[j - 1].excess
             S == {m \in a - 1 .. b + 1 : \A j \in To : j <= m => Seen(j)}
  <1>1. /\ a \in Nat /\ b \in Nat /\ a - 1 \in Nat /\ b + 1 \in Nat
        /\ \A i \in From : i \in a - 1 .. b
        /\ \A j \in To : j \in a .. b + 1
    OBVIOUS
  <1>2. a - 1 \in S
    <2>1. \A j \in To : ~ (j <= a - 1)
      BY <1>1
    <2>2. a - 1 \in a - 1 .. b + 1
      OBVIOUS
    <2> HIDE DEF Seen, To
    <2> QED  BY <2>1, <2>2
  <1>3. ASSUME NEW m \in a - 1 .. b + 1, m < b + 1, m + 1 \in To,
               \A j \in To : j <= m => Seen(j)
        PROVE  Seen(m + 1)
    <2> DEFINE j == m + 1
    <2>1. j \in To /\ j \in Nat /\ j \in a .. b + 1
      BY <1>1, <1>3
    <2> HIDE DEF j
    <2>2. PICK i \in From : Adjacent(From, i, j)
      <3>1. a - 1 \in From /\ a - 1 < j /\ \A c \in From : c \in Nat
        BY <1>1, <2>1
      <3> HIDE DEF From
      <3> QED  BY <2>1, <3>1, Predecessor
    <2>3. Adjacent(commas, i, j) /\ i < j /\ i \in a - 1 .. b
      BY <1>1, <2>2 DEF Adjacent
    <2> DEFINE s == <<i + 1, j - 1>>
    <2>4. s \in W
      BY <2>1, <2>3 DEF Members
    <2>5. /\ s \in Spans(text) /\ s[1] - 1 = i /\ s[2] = j - 1
          /\ j - 1 \in 1 .. Len(text) /\ i + 1 \in 1 .. Len(text)
      BY <2>3, <2>4 DEF Spans
    <2>6. At(text, i, k) => \/ At(text, j - 1, k) /\ s \in G
                            \/ Lost /\ Scanned(text)[j - 1].excess
      <3>1. At(text, s[1] - 1, k) => \/ At(text, s[2], k) /\ s \in G
                                     \/ Lost /\ Scanned(text)[s[2]].excess
        BY <2>4 DEF Carries
      <3> HIDE DEF s
      <3> QED  BY <2>5, <3>1
    <2> HIDE DEF s
    <2>7. ASSUME NEW i1 \in From, NEW j1 \in To, Adjacent(commas, i1, j1), j1 <= j, s \in G
          PROVE  <<i1 + 1, j1 - 1>> \in G \/ (i \in commas /\ j1 <= i)
      <3>1. CASE j1 = j
        <4>1. i1 <= i
          BY <2>2, <2>3, <2>7, <3>1, <1>1 DEF Adjacent
        <4>2. i <= i1
          BY <2>3, <2>7, <3>1, <1>1 DEF Adjacent
        <4>3. i1 = i
          BY <4>1, <4>2, <1>1, <2>3
        <4> QED  BY <2>7, <3>1, <4>3 DEF s
      <3>2. CASE j1 # j
        <4>1. j1 \in commas /\ j1 < j /\ j1 >= a
          BY <1>1, <2>1, <2>7, <3>2
        <4>2. j1 <= i
          BY <2>3, <4>1, <1>1, <2>1 DEF Adjacent
        <4> QED  BY <4>1, <4>2, <2>3, <1>1
      <3> QED  BY <3>1, <3>2
    <2>8. CASE i = a - 1
      <3>1. At(text, i, k)
        BY <2>8
      <3>2. s \in G => Good(j)
        <4> SUFFICES ASSUME s \in G, NEW i1 \in From, NEW j1 \in To,
                            Adjacent(commas, i1, j1), j1 <= j
                     PROVE  <<i1 + 1, j1 - 1>> \in G
          OBVIOUS
        <4>1. ~ (j1 <= i)
          BY <1>1, <2>8
        <4> QED  BY <2>7, <4>1
      <3> HIDE DEF Good
      <3> QED  BY <2>6, <3>1, <3>2 DEF j
    <2>9. CASE i \in commas
      <3>1. i \in To /\ i <= m /\ Seen(i)
        BY <1>1, <1>3, <2>3, <2>9 DEF j
      <3>2. CASE Lost /\ Scanned(text)[i - 1].excess
        <4>1. i - 1 \in 0 .. Len(text) /\ j - 1 \in i - 1 .. Len(text)
          BY <1>1, <2>1, <2>3, <2>5, <2>9
        <4>2. Scanned(text)[j - 1].excess
          BY <3>2, <4>1, ExcessStays
        <4> QED  BY <3>2, <4>2 DEF j
      <3>3. CASE At(text, i - 1, k) /\ Good(i)
        <4>1. At(text, i, k)
          <5>1. i - 1 \in 0 .. Len(text) /\ i - 1 < Len(text) /\ (i - 1) + 1 = i
            BY <1>1, <2>9
          <5>2. text[i] = ","
            BY <2>9 DEF AreCommas
          <5> QED  BY <3>3, <5>1, <5>2, StepOutside
        <4>2. s \in G => Good(j)
          <5> SUFFICES ASSUME s \in G, NEW i1 \in From, NEW j1 \in To,
                              Adjacent(commas, i1, j1), j1 <= j
                       PROVE  <<i1 + 1, j1 - 1>> \in G
            OBVIOUS
          <5> QED  BY <2>7, <3>3
        <4> HIDE DEF Good
        <4> QED  BY <2>6, <4>1, <4>2 DEF j
      <3> QED  BY <3>1, <3>2, <3>3
    <2> QED  BY <2>8, <2>9
  <1>4. \A m \in a - 1 .. b + 1 : m \in S /\ m < b + 1 => m + 1 \in S
    <2> SUFFICES ASSUME NEW m \in a - 1 .. b + 1, m < b + 1, \A j \in To : j <= m => Seen(j),
                        NEW j \in To, j <= m + 1
                 PROVE  Seen(j)
      <3>1. \A n \in a - 1 .. b + 1 : n < b + 1 => n + 1 \in a - 1 .. b + 1
        OBVIOUS
      <3> HIDE DEF Seen, To
      <3> QED  BY <3>1
    <2>1. CASE j <= m
      <3> HIDE DEF Seen, To
      <3> QED  BY <2>1
    <2>2. CASE ~ (j <= m)
      <3>1. j = m + 1
        BY <1>1, <2>2
      <3>2. Seen(m + 1)
        <4> HIDE DEF Seen, To
        <4> QED  BY <1>3, <3>1
      <3> HIDE DEF Seen
      <3> QED  BY <3>1, <3>2
    <2> QED  BY <2>1, <2>2
  <1>5. a - 1 .. b + 1 \subseteq S
    <2> HIDE DEF S
    <2> DEFINE first == a - 1
               last == b + 1
    <2>1. first \in Nat /\ last \in Nat /\ first \in S
      BY <1>1, <1>2
    <2>2. \A m \in first .. last : m \in S /\ m < last => m + 1 \in S
      BY <1>4
    <2> HIDE DEF first, last
    <2>3. first .. last \subseteq S
      BY <2>1, <2>2, CountingFrom
    <2> QED  BY <2>3 DEF first, last
  <1>6. Seen(b + 1)
    <2>1. b + 1 \in a - 1 .. b + 1 /\ b + 1 \in To /\ b + 1 <= b + 1
      OBVIOUS
    <2> HIDE DEF Seen, To
    <2> QED  BY <1>5, <2>1
  <1>7. (b + 1) - 1 = b /\ \A h \in To : h <= b + 1
    BY <1>1
  <1>8. Good(b + 1) => \A i \in From, j \in To : Adjacent(commas, i, j) => <<i + 1, j - 1>> \in G
    <2> HIDE DEF From, To
    <2> QED  BY <1>7
  <1>9. Good(b + 1) => Members(commas, a, b, G)
    BY <1>8 DEF Members
  <1> HIDE DEF Good
  <1> QED  BY <1>6, <1>7, <1>9
LEMMA ListOfMembers ==
    ASSUME NEW text, NEW a, NEW b, NEW W
    PROVE  IsList(text, a, b, W) <=>
               \E commas \in SUBSET (a .. b) : AreCommas(text, commas) /\ Members(commas, a, b, W)
  <1>1. ASSUME NEW commas
        PROVE  Members(commas, a, b, W) <=>
                 \A i \in commas \cup {a - 1}, j \in commas \cup {b + 1} :
                    i < j /\ (\A c \in commas : c <= i \/ j <= c) => <<i + 1, j - 1>> \in W
    BY DEF Members, Adjacent
  <1>2. ASSUME NEW commas
        PROVE  commas \in SUBSET {i \in a .. b : text[i] = ","} <=>
                 commas \in SUBSET (a .. b) /\ AreCommas(text, commas)
    BY DEF AreCommas
  <1> QED  BY <1>1, <1>2, Zenon DEF IsList

\* Over an array the scan is one deeper; one that is as deep as may be puts it in excess.
LEMMA ArrayScanned ==
    ASSUME NEW text \in Seq(Bytes), NEW W \in SUBSET Spans(text), NEW s \in Arrays(text, W),
           NEW k \in 0 .. MaxDepth, At(text, s[1] - 1, k)
    PROVE  /\ k = MaxDepth => Scanned(text)[s[2]].excess
           /\ \A G : \A Lost \in BOOLEAN :
                k < MaxDepth /\ Carries(text, W, G, Lost, k + 1) =>
                   \/ At(text, s[2], k) /\ s \in Arrays(text, G)
                   \/ Lost /\ Scanned(text)[s[2]].excess
  <1> DEFINE a == s[1]
             b == s[2]
  <1>1. s \in Spans(text) /\ a \in 1 .. Len(text) /\ b \in 1 .. Len(text) /\ a < b
    BY DEF Arrays, Spans
  <1>2. text[a] = "[" /\ text[b] = "]"
    BY DEF Arrays
  <1>3. b = a + 1 \/ IsList(text, a + 1, b - 1, W)
    BY DEF Arrays
  <1>4. At(text, a - 1, k)
    OBVIOUS
  <1>5. \A G : b = a + 1 \/ IsList(text, a + 1, b - 1, G) => s \in Arrays(text, G)
    BY <1>1, <1>2 DEF Arrays
  <1> HIDE DEF a, b
  <1>6. /\ a - 1 \in 0 .. Len(text) /\ a - 1 < Len(text) /\ (a - 1) + 1 = a
        /\ b - 1 \in 0 .. Len(text) /\ b - 1 < Len(text) /\ (b - 1) + 1 = b
        /\ a \in 0 .. Len(text) /\ b \in a .. Len(text) /\ b \in b - 1 .. Len(text)
    BY <1>1
  <1>7. ASSUME k = MaxDepth PROVE Scanned(text)[b].excess
    <2>1. Scanned(text)[a].excess
      BY <1>2, <1>4, <1>6, <1>7, StepOutside
    <2> QED  BY <1>6, <2>1, ExcessStays
  <1>8. ASSUME NEW G, NEW Lost \in BOOLEAN, k < MaxDepth, Carries(text, W, G, Lost, k + 1)
        PROVE  \/ At(text, b, k) /\ s \in Arrays(text, G)
               \/ Lost /\ Scanned(text)[b].excess
    <2>1. At(text, a, k + 1)
      BY <1>2, <1>4, <1>6, <1>8, StepOutside
    <2>2. k + 1 \in 0 .. MaxDepth /\ k + 1 > 0 /\ (k + 1) - 1 = k
      BY <1>8, MaxDepthAssumption
    <2>3. At(text, b - 1, k + 1) => At(text, b, k)
      <3> DEFINE m == k + 1
      <3>1. m \in 0 .. MaxDepth /\ m > 0 /\ m - 1 = k
        BY <2>2
      <3> HIDE DEF m
      <3>2. At(text, b - 1, m) => At(text, b, m - 1)
        BY <1>2, <1>6, <3>1, StepOutside
      <3>3. At(text, b - 1, m) => At(text, b, k)
        BY <3>1, <3>2
      <3> QED  BY <3>3 DEF m
    <2>4. CASE b = a + 1
      <3>1. b - 1 = a
        BY <2>4, <1>1
      <3> QED  BY <1>5, <2>1, <2>3, <2>4, <3>1
    <2>5. CASE b # a + 1
      <3> DEFINE first == a + 1
                 last == b - 1
      <3>1. /\ first \in 1 .. Len(text) /\ last \in 1 .. Len(text) /\ first <= last
            /\ first - 1 = a
        BY <1>1, <2>5
      <3>2. PICK commas \in SUBSET (first .. last) :
               AreCommas(text, commas) /\ Members(commas, first, last, W)
        BY <1>3, <2>5, ListOfMembers
      <3>3. At(text, first - 1, k + 1)
        BY <2>1, <3>1
      <3> HIDE DEF first, last
      <3>4. \/ At(text, last, k + 1) /\ Members(commas, first, last, G)
            \/ Lost /\ Scanned(text)[last].excess
        BY <1>8, <2>2, <3>1, <3>2, <3>3, ListScanned
      <3>5. CASE At(text, last, k + 1) /\ Members(commas, first, last, G)
        <4>1. IsList(text, first, last, G)
          BY <3>2, <3>5, ListOfMembers
        <4> QED  BY <1>5, <2>3, <3>5, <4>1 DEF first, last
      <3>6. CASE Lost /\ Scanned(text)[last].excess
        <4>1. Scanned(text)[b].excess
          BY <1>6, <3>6, ExcessStays DEF last
        <4> QED  BY <3>6, <4>1
      <3> QED  BY <3>4, <3>5, <3>6
    <2> QED  BY <2>4, <2>5
  <1> QED  BY <1>7, <1>8 DEF a, b

\* A value that is nested at most d deep: where the scan is k deep already it ends there,
\* and the value was nested at most as deep as there was room; or there was no room.
LEMMA DepthIsCounted ==
    ASSUME NEW text \in Seq(Bytes), NEW D \in Nat, NEW K \in 0 .. MaxDepth
    PROVE  Carries(text, Values(text)[D], Values(text)[MaxDepth - K], K + D > MaxDepth, K)
  <1> DEFINE V(d) == Values(text)[d]
             P(d) == \A k \in 0 .. MaxDepth : Carries(text, V(d), V(MaxDepth - k), k + d > MaxDepth, k)
             S == {d \in 0 .. D : P(d)}
  <1> USE MaxDepthAssumption
  <1>1. \A d \in Nat : Atoms(text) \subseteq V(d)
    <2> SUFFICES ASSUME NEW d \in Nat PROVE Atoms(text) \subseteq V(d)
      OBVIOUS
    <2>1. CASE d = 0
      BY <2>1, ValuesUnfold
    <2>2. CASE d # 0
      <3>1. d - 1 \in Nat /\ (d - 1) + 1 = d
        BY <2>2
      <3>2. V((d - 1) + 1) = Atoms(text) \cup Arrays(text, V(d - 1))
        BY <3>1, ValuesUnfold
      <3> HIDE DEF V
      <3>3. V(d) = Atoms(text) \cup Arrays(text, V(d - 1))
        BY <3>1, <3>2
      <3> QED  BY <3>3
    <2> QED  BY <2>1, <2>2
  <1>2. \A k \in 0 .. MaxDepth : MaxDepth - k \in Nat
    OBVIOUS
  <1>3. ASSUME NEW k \in 0 .. MaxDepth, NEW s \in Atoms(text), At(text, s[1] - 1, k)
        PROVE  At(text, s[2], k) /\ s \in V(MaxDepth - k)
    <2>1. At(text, s[2], k)
      BY <1>3, AtomScanned
    <2> QED  BY <1>1, <1>2, <2>1
  <1>4. 0 \in S
    <2>1. ASSUME NEW k \in 0 .. MaxDepth
          PROVE  Carries(text, V(0), V(MaxDepth - k), k + 0 > MaxDepth, k)
      <3>1. V(0) = Atoms(text)
        BY ValuesUnfold
      <3> HIDE DEF V
      <3>2. ASSUME NEW s \in V(0), At(text, s[1] - 1, k)
            PROVE  At(text, s[2], k) /\ s \in V(MaxDepth - k)
        BY <1>3, <3>1, <3>2
      <3> QED  BY <3>2, Zenon DEF Carries
    <2> HIDE DEF V
    <2> QED  BY <2>1
  <1>5. ASSUME NEW d \in 0 .. D, P(d), NEW k \in 0 .. MaxDepth, NEW s \in V(d + 1),
               At(text, s[1] - 1, k)
        PROVE  \/ At(text, s[2], k) /\ s \in V(MaxDepth - k)
               \/ k + (d + 1) > MaxDepth /\ Scanned(text)[s[2]].excess
    <2>1. s \in Atoms(text) \/ s \in Arrays(text, V(d))
      BY ValuesUnfold
    <2>2. V(d) \in SUBSET Spans(text)
      BY ValuesUnfold
    <2> HIDE DEF V, P
    <2>3. CASE s \in Atoms(text)
      BY <1>3, <1>5, <2>3
    <2>4. CASE s \in Arrays(text, V(d)) /\ k = MaxDepth
      <3>1. Scanned(text)[s[2]].excess
        BY <1>5, <2>2, <2>4, ArrayScanned
      <3>2. k + (d + 1) > MaxDepth
        BY <2>4
      <3> QED  BY <3>1, <3>2
    <2>5. CASE s \in Arrays(text, V(d)) /\ k # MaxDepth
      <3> DEFINE m == k + 1
                 Lost == m + d > MaxDepth
                 G == V(MaxDepth - m)
      <3>1. m \in 0 .. MaxDepth /\ k < MaxDepth
        BY <2>5
      <3>2. Carries(text, V(d), G, Lost, m)
        <4> HIDE DEF m
        <4> QED  BY <1>5, <3>1 DEF P
      <3>3. Lost \in BOOLEAN
        OBVIOUS
      <3>4. Lost = (k + (d + 1) > MaxDepth)
        OBVIOUS
      <3>5. MaxDepth - m \in Nat /\ (MaxDepth - m) + 1 = MaxDepth - k
        BY <3>1
      <3> HIDE DEF Lost, G
      <3>6. \/ At(text, s[2], k) /\ s \in Arrays(text, G)
            \/ Lost /\ Scanned(text)[s[2]].excess
        <4>1. \A G1 : \A Lost1 \in BOOLEAN :
                 Carries(text, V(d), G1, Lost1, m) =>
                    \/ At(text, s[2], k) /\ s \in Arrays(text, G1)
                    \/ Lost1 /\ Scanned(text)[s[2]].excess
          BY <1>5, <2>2, <2>5, <3>1, ArrayScanned
        <4> QED  BY <3>2, <3>3, <4>1, Zenon
      <3>7. Arrays(text, G) \subseteq V(MaxDepth - k)
        <4> HIDE DEF m
        <4>1. V((MaxDepth - m) + 1) = Atoms(text) \cup Arrays(text, V(MaxDepth - m))
          BY <3>5, ValuesUnfold DEF V
        <4>2. V((MaxDepth - m) + 1) = V(MaxDepth - k)
          BY <3>5
        <4> QED  BY <4>1, <4>2 DEF G
      <3> QED  BY <3>4, <3>6, <3>7
    <2> QED  BY <2>1, <2>3, <2>4, <2>5
  <1> HIDE DEF V
  <1>6. \A d \in 0 .. D : d \in S /\ d < D => d + 1 \in S
    <2> SUFFICES ASSUME NEW d \in 0 .. D, P(d), d < D
                 PROVE  d + 1 \in 0 .. D /\ P(d + 1)
      <3> HIDE DEF P
      <3> QED  OBVIOUS
    <2>1. d + 1 \in 0 .. D
      OBVIOUS
    <2>2. ASSUME NEW k \in 0 .. MaxDepth
          PROVE  Carries(text, V(d + 1), V(MaxDepth - k), k + (d + 1) > MaxDepth, k)
      <3> HIDE DEF P
      <3>1. ASSUME NEW s \in V(d + 1), At(text, s[1] - 1, k)
            PROVE  \/ At(text, s[2], k) /\ s \in V(MaxDepth - k)
                   \/ k + (d + 1) > MaxDepth /\ Scanned(text)[s[2]].excess
        BY <1>5, <2>2, <3>1, Zenon
      <3> QED  BY <3>1, Zenon DEF Carries
    <2>3. P(d + 1)
      BY <2>2
    <2> HIDE DEF P
    <2> QED  BY <2>1, <2>3
  <1>7. 0 .. D \subseteq S
    <2> HIDE DEF S
    <2> QED  BY <1>4, <1>6, Counting
  <1>8. P(D)
    <2> HIDE DEF P
    <2> QED  BY <1>7
  <1> QED  BY <1>8 DEF V
\* A value is nested at most as deep as it is long.
LEMMA ArrayOfInner ==
    ASSUME NEW text \in Seq(Bytes), NEW W, NEW G, NEW s \in Arrays(text, W),
           \A r \in W : s[1] < r[1] /\ r[2] < s[2] => r \in G
    PROVE  s \in Arrays(text, G)
  <1> DEFINE a == s[1]
             b == s[2]
  <1>1. s \in Spans(text) /\ a \in 1 .. Len(text) /\ b \in 1 .. Len(text) /\ a < b
    BY DEF Arrays, Spans
  <1>2. b = a + 1 \/ IsList(text, a + 1, b - 1, W)
    BY DEF Arrays
  <1>3. \A r \in W : a < r[1] /\ r[2] < b => r \in G
    OBVIOUS
  <1>4. b = a + 1 \/ IsList(text, a + 1, b - 1, G) => s \in Arrays(text, G)
    BY DEF Arrays
  <1> HIDE DEF a, b
  <1>5. ASSUME IsList(text, a + 1, b - 1, W) PROVE IsList(text, a + 1, b - 1, G)
    <2>1. PICK commas \in SUBSET (a + 1 .. b - 1) :
             AreCommas(text, commas) /\ Members(commas, a + 1, b - 1, W)
      BY <1>5, ListOfMembers
    <2>2. ASSUME NEW i \in commas \cup {(a + 1) - 1}, NEW j \in commas \cup {(b - 1) + 1},
                 Adjacent(commas, i, j)
          PROVE  <<i + 1, j - 1>> \in G
      <3>1. <<i + 1, j - 1>> \in W
        BY <2>1, <2>2 DEF Members
      <3>2. a < i + 1 /\ j - 1 < b
        BY <1>1
      <3> DEFINE r == <<i + 1, j - 1>>
      <3>3. r \in W /\ r[1] = i + 1 /\ r[2] = j - 1
        BY <3>1
      <3> HIDE DEF r
      <3>4. a < r[1] /\ r[2] < b
        BY <3>2, <3>3
      <3>5. r \in G
        BY <1>3, <3>3, <3>4
      <3> QED  BY <3>5 DEF r
    <2>3. Members(commas, a + 1, b - 1, G)
      BY <2>2 DEF Members
    <2> QED  BY <2>1, <2>3, ListOfMembers
  <1> QED  BY <1>2, <1>4, <1>5

LEMMA DepthWithinLength ==
    ASSUME NEW text \in Seq(Bytes), NEW D \in Nat, NEW s \in Values(text)[D],
           NEW e \in Nat, s[2] - s[1] <= e
    PROVE  s \in Values(text)[e]
  <1> DEFINE V(d) == Values(text)[d]
             P(d) == \A r \in V(d), n \in Nat : r[2] - r[1] <= n => r \in V(n)
             S == {d \in 0 .. D : P(d)}
  <1>1. \A d \in Nat : V(d) \subseteq Spans(text) /\ V(d + 1) = Atoms(text) \cup Arrays(text, V(d))
    BY ValuesUnfold
  <1>2. V(0) = Atoms(text)
    BY ValuesUnfold
  <1> HIDE DEF V
  <1>3. ASSUME NEW n \in Nat, NEW r \in Atoms(text) PROVE r \in V(n)
    <2>1. CASE n = 0
      BY <1>2, <1>3, <2>1
    <2>2. CASE n # 0
      <3>1. n - 1 \in Nat /\ (n - 1) + 1 = n
        BY <2>2
      <3>2. V((n - 1) + 1) = Atoms(text) \cup Arrays(text, V(n - 1))
        BY <1>1, <3>1
      <3> QED  BY <1>3, <3>1, <3>2
    <2> QED  BY <2>1, <2>2
  <1>4. 0 \in S
    <2>1. 0 \in 0 .. D /\ P(0)
      BY <1>2, <1>3
    <2> HIDE DEF P
    <2> QED  BY <2>1
  <1>5. ASSUME NEW d \in 0 .. D, P(d), NEW r \in V(d + 1), NEW n \in Nat, r[2] - r[1] <= n
        PROVE  r \in V(n)
    <2>1. r \in Atoms(text) \/ r \in Arrays(text, V(d))
      BY <1>1
    <2>2. CASE r \in Arrays(text, V(d))
      <3>1. r[1] \in 1 .. Len(text) /\ r[2] \in 1 .. Len(text) /\ r[1] < r[2]
        BY <2>2 DEF Arrays, Spans
      <3>2. n - 1 \in Nat /\ (n - 1) + 1 = n
        BY <1>5, <3>1
      <3>3. ASSUME NEW q \in V(d), r[1] < q[1], q[2] < r[2] PROVE q \in V(n - 1)
        <4>1. q \in Spans(text)
          BY <1>1, <3>3
        <4>2. q[1] \in 1 .. Len(text) /\ q[2] \in 1 .. Len(text)
          BY <4>1 DEF Spans
        <4>3. q[2] - q[1] <= n - 1
          BY <1>5, <3>1, <3>3, <4>2
        <4> QED  BY <1>5, <3>2, <4>3
      <3>4. r \in Arrays(text, V(n - 1))
        BY <2>2, <3>3, ArrayOfInner
      <3>5. V((n - 1) + 1) = Atoms(text) \cup Arrays(text, V(n - 1))
        BY <1>1, <3>2
      <3> QED  BY <3>2, <3>4, <3>5
    <2> QED  BY <1>3, <2>1, <2>2
  <1>6. \A d \in 0 .. D : d \in S /\ d < D => d + 1 \in S
    <2> SUFFICES ASSUME NEW d \in 0 .. D, P(d), d < D
                 PROVE  d + 1 \in 0 .. D /\ P(d + 1)
      <3> HIDE DEF P
      <3> QED  OBVIOUS
    <2>1. d + 1 \in 0 .. D
      OBVIOUS
    <2>2. P(d + 1)
      BY <1>5
    <2> HIDE DEF P
    <2> QED  BY <2>1, <2>2
  <1>7. 0 .. D \subseteq S
    <2> HIDE DEF S
    <2> QED  BY <1>4, <1>6, Counting
  <1>8. P(D)
    <2> HIDE DEF P
    <2> QED  BY <1>7
  <1> QED  BY <1>8 DEF V

\* A line that is not too long becomes one event, and the one that is due.
LEMMA FrameIsDue ==
    ASSUME NEW line \in Seq(Bytes), line # <<>>, Len(line) <= MaxFrame
    PROVE  \E event \in Due(line) : Frame(line) = <<event>>
  <1> DEFINE N == Len(line)
             s == <<1, N>>
             V(d) == Values(line)[d]
             Fate(d) == \/ At(line, N, 0) /\ s \in V(MaxDepth)
                        \/ 0 + d > MaxDepth /\ Scanned(line)[N].excess
  <1> USE MaxDepthAssumption
  <1>1. N \in Nat /\ N >= 1
    OBVIOUS
  <1>2. At(line, s[1] - 1, 0) /\ s[1] = 1 /\ s[2] = N /\ s[2] - s[1] <= N
    <2>1. s[1] = 1 /\ s[2] = N
      OBVIOUS
    <2>2. At(line, 0, 0)
      BY ScannedSteps DEF At
    <2> HIDE DEF s
    <2> QED  BY <1>1, <2>1, <2>2
  <1>3. ASSUME NEW d \in Nat, s \in V(d) PROVE Fate(d)
    <2>1. 0 \in 0 .. MaxDepth /\ MaxDepth - 0 = MaxDepth
      OBVIOUS
    <2>2. Carries(line, V(d), V(MaxDepth), 0 + d > MaxDepth, 0)
      <3>1. Carries(line, V(d), V(MaxDepth - 0), 0 + d > MaxDepth, 0)
        BY <2>1, DepthIsCounted
      <3> QED  BY <2>1, <3>1
    <2>3. \/ At(line, s[2], 0) /\ s \in V(MaxDepth)
          \/ 0 + d > MaxDepth /\ Scanned(line)[s[2]].excess
      <3> HIDE DEF V, s
      <3> QED  BY <1>2, <1>3, <2>2 DEF Carries
    <2> HIDE DEF s, V
    <2> QED  BY <1>2, <2>3
  <1>4. IsValue(line, MaxDepth) <=> s \in V(MaxDepth)
    BY DEF IsValue
  <1>5. Parses(line) <=> s \in V(N)
    BY DEF Parses, IsValue
  <1>6. ExcessiveDepth(line) <=> Scanned(line)[N].excess
    BY DEF ExcessiveDepth
  <1>7. At(line, N, 0) => ~Scanned(line)[N].excess
    BY DEF At, Outside
  <1> HIDE DEF s, N
  <1>8. IsValue(line, MaxDepth) => ~ExcessiveDepth(line) /\ Parses(line)
    <2> SUFFICES ASSUME s \in V(MaxDepth) PROVE ~Scanned(line)[N].excess /\ s \in V(N)
      BY <1>4, <1>5, <1>6
    <2>1. s \in V(N)
      BY <1>1, <1>2, DepthWithinLength
    <2>2. ~ (0 + MaxDepth > MaxDepth) /\ MaxDepth \in Nat
      OBVIOUS
    <2> HIDE DEF V
    <2>3. At(line, N, 0)
      BY <1>3, <2>2
    <2> QED  BY <1>7, <2>1, <2>3
  <1>9. Parses(line) /\ ~IsValue(line, MaxDepth) => ExcessiveDepth(line)
    <2> HIDE DEF V
    <2> QED  BY <1>1, <1>3, <1>4, <1>5, <1>6
  <1>10. CASE IsValue(line, MaxDepth)
    <2>1. Frame(line) = <<"message">>
      BY <1>8, <1>10 DEF Frame
    <2>2. "message" \in Due(line)
      BY <1>10, MaxFrameAssumption DEF Due
    <2> QED  BY <2>1, <2>2
  <1>11. CASE ~IsValue(line, MaxDepth) /\ Parses(line)
    <2>1. Frame(line) = <<"limit">>
      BY <1>9, <1>11 DEF Frame
    <2>2. "limit" \in Due(line)
      BY <1>11, MaxFrameAssumption DEF Due
    <2> QED  BY <2>1, <2>2
  <1>12. CASE ~IsValue(line, MaxDepth) /\ ~Parses(line)
    <2>1. Frame(line) = <<"limit">> \/ Frame(line) = <<"error">>
      BY <1>12 DEF Frame
    <2>2. "limit" \in Due(line) /\ "error" \in Due(line)
      BY <1>12, MaxFrameAssumption DEF Due
    <2> QED  BY <2>1, <2>2
  <1> QED  BY <1>10, <1>11, <1>12
-----------------------------------------------------------------------------
(* The reader: what it has told, after n bytes. *)

Events == {"limit", "message", "error"}

IsNewline(bytes, i) == bytes[i] = "n"

\* After n bytes the line that is being read began behind the place b.
Reading(bytes, b, n) ==
    /\ b \in 0 .. n
    /\ b # 0 => IsNewline(bytes, b)
    /\ \A i \in b + 1 .. n : ~IsNewline(bytes, i)

\* The events, none a limit, are those of the lines that end up to the place b.
Covers(bytes, told, b) ==
    \E end \in [1 .. Len(told) -> Ends(bytes)] :
        /\ \A i, j \in 1 .. Len(told) : i < j => end[i] < end[j]
        /\ \A i \in 1 .. Len(told) : /\ told[i] \in Due(LineAt(bytes, end[i]))
                                     /\ told[i] # "limit"
                                     /\ end[i] <= b
        /\ \A e \in Ends(bytes) : e <= b => \E i \in 1 .. Len(told) : end[i] = e

\* What holds of the reader: it is reading a line that is not yet too long, or is done.
Told(bytes, st, n) ==
    IF Limited(st) THEN EventsAreDue(bytes, st.events)
    ELSE \E b : /\ Reading(bytes, b, n)
                /\ st.line = SubSeq(bytes, b + 1, n)
                /\ n - b <= MaxFrame
                /\ Covers(bytes, st.events, b)

LEMMA EndsAre ==
    ASSUME NEW bytes, NEW e
    PROVE  e \in Ends(bytes) <=> /\ e \in 2 .. Len(bytes) + 1
                                 /\ ~IsNewline(bytes, e - 1)
                                 /\ e <= Len(bytes) => IsNewline(bytes, e)
  BY DEF Ends, IsNewline

\* A line that is not empty: where it is, and that no other ends while it is read.
LEMMA LineIs ==
    ASSUME NEW bytes \in Seq(Bytes), NEW e \in Ends(bytes), NEW b \in Nat, b + 1 < e,
           Reading(bytes, b, e - 1)
    PROVE  /\ LineAt(bytes, e) = SubSeq(bytes, b + 1, e - 1)
           /\ \A x \in Ends(bytes) : x < e => x <= b
  <1>1. e \in 2 .. Len(bytes) + 1 /\ Len(bytes) \in Nat
    BY EndsAre
  <1>2. \A i \in b + 1 .. e - 1 : ~IsNewline(bytes, i)
    BY DEF Reading
  <1>3. ASSUME NEW x \in Ends(bytes), x < e, x > b PROVE FALSE
    <2>1. x \in 2 .. Len(bytes) /\ x \in b + 1 .. e - 1
      BY <1>1, <1>3, EndsAre
    <2>2. IsNewline(bytes, x)
      BY <2>1, EndsAre
    <2> QED  BY <1>2, <2>1, <2>2
  <1>4. \A x \in Ends(bytes) : x < e => x <= b
    <2>1. \A x \in Ends(bytes) : x \in Int
      BY EndsAre
    <2> QED  BY <1>3, <2>1
  <1> DEFINE BeginsAt(c) == /\ \A i \in c .. e - 1 : ~IsNewline(bytes, i)
                            /\ c > 1 => IsNewline(bytes, c - 1)
  <1>5. b + 1 \in 1 .. e - 1 /\ BeginsAt(b + 1)
    <2>1. b + 1 \in 1 .. e - 1 /\ (b + 1) - 1 = b /\ (b + 1 > 1 => b # 0)
      BY <1>1
    <2>2. b # 0 => IsNewline(bytes, b)
      BY DEF Reading
    <2> QED  BY <1>2, <2>1, <2>2
  <1>6. ASSUME NEW c \in 1 .. e - 1, BeginsAt(c) PROVE c = b + 1
    <2>1. ~ (c < b + 1)
      <3> SUFFICES ASSUME c < b + 1 PROVE FALSE
        OBVIOUS
      <3>1. b \in c .. e - 1 /\ b # 0
        BY <1>1
      <3>2. IsNewline(bytes, b)
        BY <3>1 DEF Reading
      <3> QED  BY <1>6, <3>1, <3>2
    <2>2. ~ (c > b + 1)
      <3> SUFFICES ASSUME c > b + 1 PROVE FALSE
        OBVIOUS
      <3>1. c - 1 \in b + 1 .. e - 1 /\ c > 1
        BY <1>1
      <3> QED  BY <1>2, <1>6, <3>1
    <2> QED  BY <1>1, <2>1, <2>2
  <1>7. Begins(bytes, e) = CHOOSE c \in 1 .. e - 1 : BeginsAt(c)
    BY DEF Begins, IsNewline
  <1>8. Begins(bytes, e) = b + 1
    <2> HIDE DEF BeginsAt
    <2> QED  BY <1>5, <1>6, <1>7
  <1> QED  BY <1>4, <1>8 DEF LineAt

\* Where the line ends that a byte is part of.
LEMMA NextEnd ==
    ASSUME NEW bytes \in Seq(Bytes), NEW m \in 1 .. Len(bytes), ~IsNewline(bytes, m)
    PROVE  \E e \in Ends(bytes) : m < e /\ \A i \in m .. e - 1 : ~IsNewline(bytes, i)
  <1> DEFINE N == Len(bytes)
             S == {i \in m .. N : \A j \in m .. i : ~IsNewline(bytes, j)}
  <1>1. N \in Nat /\ m \in Nat /\ m <= N
    OBVIOUS
  <1>2. ASSUME NEW i \in S, i < N => IsNewline(bytes, i + 1)
        PROVE  \E e \in Ends(bytes) : m < e /\ \A j \in m .. e - 1 : ~IsNewline(bytes, j)
    <2>1. /\ i + 1 \in 2 .. N + 1 /\ (i + 1) - 1 = i /\ m < i + 1 /\ i \in m .. i
          /\ (i + 1 <= N => i < N)
      BY <1>1
    <2>2. \A j \in m .. i : ~IsNewline(bytes, j)
      OBVIOUS
    <2>3. i + 1 \in Ends(bytes)
      BY <1>2, <2>1, <2>2, EndsAre
    <2> QED  BY <2>1, <2>2, <2>3
  <1>3. CASE \A i \in m .. N : i \in S /\ i < N => i + 1 \in S
    <2>1. m \in S
      BY <1>1
    <2>2. m .. N \subseteq S
      <3> HIDE DEF S, N
      <3> QED  BY <1>1, <1>3, <2>1, CountingFrom
    <2>3. N \in S /\ ~ (N < N)
      BY <1>1, <2>2
    <2> QED  BY <1>2, <2>3
  <1>4. CASE \E i \in m .. N : i \in S /\ i < N /\ i + 1 \notin S
    <2>1. PICK i \in m .. N : i \in S /\ i < N /\ i + 1 \notin S
      BY <1>4
    <2>2. i + 1 \in m .. N /\ \A j \in m .. i + 1 : j \in m .. i \/ j = i + 1
      BY <1>1, <2>1
    <2>3. IsNewline(bytes, i + 1)
      BY <2>1, <2>2
    <2> QED  BY <1>2, <2>1, <2>3
  <1> QED  BY <1>3, <1>4

\* All lines are covered up to b, and the next ends at e: it is told.
LEMMA EventAdded ==
    ASSUME NEW bytes \in Seq(Bytes), NEW told \in Seq(Events), NEW b \in Nat,
           Covers(bytes, told, b), NEW e \in Ends(bytes), b < e,
           \A x \in Ends(bytes) : x < e => x <= b,
           NEW event \in Events, event \in Due(LineAt(bytes, e))
    PROVE  IF event = "limit" THEN EventsAreDue(bytes, Append(told, event))
           ELSE Covers(bytes, Append(told, event), e)
  <1> DEFINE n == Len(told)
             now == Append(told, event)
             IsDue(ev, x) == ev \in Due(LineAt(bytes, x))
             IsLimit(ev) == ev = "limit"
  <1>1. /\ n \in Nat /\ Len(now) = n + 1 /\ now[n + 1] = event
        /\ \A i \in 1 .. n : now[i] = told[i]
    BY AppendProperties
  <1>2. PICK end \in [1 .. n -> Ends(bytes)] :
           /\ \A i, j \in 1 .. n : i < j => end[i] < end[j]
           /\ \A i \in 1 .. n : IsDue(told[i], end[i]) /\ ~IsLimit(told[i]) /\ end[i] <= b
           /\ \A x \in Ends(bytes) : x <= b => \E i \in 1 .. n : end[i] = x
    BY DEF Covers
  <1>3. IsDue(event, e)
    OBVIOUS
  <1>4. \A x \in Ends(bytes) : x \in Nat
    BY EndsAre
  <1> DEFINE to == [i \in 1 .. n + 1 |-> IF i = n + 1 THEN e ELSE end[i]]
  <1> HIDE DEF n, now, IsDue, IsLimit
  <1>5. /\ \A i \in 1 .. n : i \in 1 .. n + 1 /\ i # n + 1 /\ i < n + 1
        /\ n + 1 \in 1 .. n + 1
        /\ \A i \in 1 .. n + 1 : i \in 1 .. n \/ i = n + 1
    BY <1>1
  <1>6. /\ to[n + 1] = e /\ \A i \in 1 .. n : to[i] = end[i]
        /\ to \in [1 .. n + 1 -> Ends(bytes)]
    BY <1>5
  <1> HIDE DEF to
  <1>7. \A i \in 1 .. n : end[i] \in Nat /\ end[i] < e
    BY <1>2, <1>4
  <1>8. ASSUME NEW i \in 1 .. n + 1, NEW j \in 1 .. n + 1, i < j PROVE to[i] < to[j]
    <2>1. i \in 1 .. n
      BY <1>1, <1>8
    <2>2. CASE j \in 1 .. n
      BY <1>2, <1>6, <1>8, <2>1, <2>2
    <2>3. CASE j = n + 1
      BY <1>6, <1>7, <2>1, <2>3
    <2> QED  BY <1>5, <2>2, <2>3
  <1>9. \A i \in 1 .. n + 1 : IsDue(now[i], to[i]) /\ to[i] <= e
    <2> SUFFICES ASSUME NEW i \in 1 .. n + 1 PROVE IsDue(now[i], to[i]) /\ to[i] <= e
      OBVIOUS
    <2>1. CASE i \in 1 .. n
      BY <1>1, <1>2, <1>4, <1>6, <1>7, <2>1
    <2>2. CASE i = n + 1
      BY <1>1, <1>3, <1>4, <1>6, <2>2
    <2> QED  BY <1>5, <2>1, <2>2
  <1>10. \A i \in 1 .. n : ~IsLimit(now[i])
    BY <1>1, <1>2
  <1>11. \A x \in Ends(bytes) : x <= e => \E i \in 1 .. n + 1 : to[i] = x
    <2> SUFFICES ASSUME NEW x \in Ends(bytes), x <= e PROVE \E i \in 1 .. n + 1 : to[i] = x
      OBVIOUS
    <2>1. CASE x = e
      BY <1>5, <1>6, <2>1
    <2>2. CASE x < e
      <3>1. PICK i \in 1 .. n : end[i] = x
        BY <1>2, <2>2
      <3> QED  BY <1>5, <1>6, <3>1
    <2> QED  BY <1>4, <2>1, <2>2
  <1>12. CASE IsLimit(event)
    <2>1. \A i \in 1 .. n + 1 : IsLimit(now[i]) => i = n + 1
      BY <1>5, <1>10
    <2>2. \A x \in Ends(bytes) : \/ \E i \in 1 .. n + 1 : to[i] = x
                                 \/ \E i \in 1 .. n + 1 : IsLimit(now[i]) /\ to[i] < x
      <3> SUFFICES ASSUME NEW x \in Ends(bytes), ~ (x <= e)
                   PROVE  \E i \in 1 .. n + 1 : IsLimit(now[i]) /\ to[i] < x
        BY <1>11
      <3>1. e < x
        BY <1>4
      <3> QED  BY <1>1, <1>5, <1>6, <1>12, <3>1
    <2>3. EventsAreDue(bytes, now)
      BY <1>1, <1>6, <1>8, <1>9, <2>1, <2>2 DEF EventsAreDue, IsDue, IsLimit
    <2> QED  BY <1>12, <2>3 DEF IsLimit, now
  <1>13. CASE ~IsLimit(event)
    <2>1. \A i \in 1 .. n + 1 : ~IsLimit(now[i])
      BY <1>1, <1>5, <1>10, <1>13
    <2>2. Covers(bytes, now, e)
      BY <1>1, <1>6, <1>8, <1>9, <1>11, <2>1 DEF Covers, IsDue, IsLimit
    <2> QED  BY <1>13, <2>2 DEF IsLimit, now
  <1> QED  BY <1>12, <1>13
\* A line ends: its event follows, and the reader is as it should be behind it.
LEMMA LineTold ==
    ASSUME NEW bytes \in Seq(Bytes), NEW told \in Seq(Events), NEW b \in Nat,
           Covers(bytes, told, b), NEW e \in Ends(bytes), b + 1 < e, e - 1 - b <= MaxFrame,
           Reading(bytes, b, e - 1)
    PROVE  \E event \in Events :
              /\ told \o Frame(SubSeq(bytes, b + 1, e - 1)) = Append(told, event)
              /\ IF event = "limit" THEN EventsAreDue(bytes, Append(told, event))
                 ELSE Covers(bytes, Append(told, event), e)
  <1> DEFINE line == SubSeq(bytes, b + 1, e - 1)
  <1>1. e \in 2 .. Len(bytes) + 1 /\ Len(bytes) \in Nat /\ b < e
    BY EndsAre
  <1>2. line \in Seq(Bytes) /\ Len(line) = e - 1 - b
    <2>1. \A i \in b + 1 .. e - 1 : bytes[i] \in Bytes
      BY <1>1
    <2>2. b + 1 \in Int /\ e - 1 \in Int /\ b + 1 <= e - 1 /\ e - 1 - (b + 1) + 1 = e - 1 - b
      BY <1>1
    <2> QED  BY <2>1, <2>2, SubSeqProperties
  <1>3. line # <<>>
    BY <1>1, <1>2
  <1>4. LineAt(bytes, e) = line /\ \A x \in Ends(bytes) : x < e => x <= b
    BY LineIs
  <1> HIDE DEF line
  <1>5. PICK event \in Due(line) : Frame(line) = <<event>>
    BY <1>2, <1>3, FrameIsDue
  <1>6. event \in Events
    BY DEF Due, Events
  <1>7. told \o <<event>> = Append(told, event)
    BY <1>6, AppendIsConcat
  <1>8. IF event = "limit" THEN EventsAreDue(bytes, Append(told, event))
        ELSE Covers(bytes, Append(told, event), e)
    BY <1>1, <1>4, <1>6, EventAdded
  <1> QED  BY <1>5, <1>6, <1>7, <1>8 DEF line

\* A line that is empty has no end, and no event.
LEMMA BlankTold ==
    ASSUME NEW bytes \in Seq(Bytes), NEW told, NEW b \in 0 .. Len(bytes), Covers(bytes, told, b),
           b # 0 => IsNewline(bytes, b)
    PROVE  Covers(bytes, told, b + 1)
  <1>1. \A e \in Ends(bytes) : e # b + 1
    <2> SUFFICES ASSUME NEW e \in Ends(bytes), e = b + 1 PROVE FALSE
      OBVIOUS
    <2>1. b # 0 /\ e - 1 = b
      BY EndsAre
    <2> QED  BY <2>1, EndsAre
  <1>2. \A e \in Ends(bytes) : e \in Nat
    BY EndsAre
  <1>3. \A e \in Ends(bytes) : /\ e <= b + 1 => e <= b
                               /\ e <= b => e <= b + 1
    BY <1>1, <1>2
  <1>4. PICK end \in [1 .. Len(told) -> Ends(bytes)] :
           /\ \A i, j \in 1 .. Len(told) : i < j => end[i] < end[j]
           /\ \A i \in 1 .. Len(told) : /\ told[i] \in Due(LineAt(bytes, end[i]))
                                        /\ told[i] # "limit"
                                        /\ end[i] <= b
           /\ \A e \in Ends(bytes) : e <= b => \E i \in 1 .. Len(told) : end[i] = e
    BY DEF Covers
  <1>5. \A i \in 1 .. Len(told) : end[i] <= b + 1
    BY <1>3, <1>4
  <1>6. \A e \in Ends(bytes) : e <= b + 1 => \E i \in 1 .. Len(told) : end[i] = e
    BY <1>3, <1>4
  <1> QED  BY <1>4, <1>5, <1>6 DEF Covers

\* Whether a reader is done shows in its last event.
LEMMA LimitedAt ==
    ASSUME NEW told \in Seq(Events), NEW event \in Events, NEW line
    PROVE  Limited([line |-> line, events |-> Append(told, event)]) <=> event = "limit"
  <1>1. /\ Append(told, event) # <<>>
        /\ Append(told, event)[Len(Append(told, event))] = event
    BY AppendProperties
  <1> QED  BY <1>1 DEF Limited

\* A reader that covers no limit is not done.
LEMMA CoversUnlimited ==
    ASSUME NEW bytes, NEW st \in Reads, NEW b, Covers(bytes, st.events, b)
    PROVE  ~Limited(st)
  <1>1. \A i \in 1 .. Len(st.events) : st.events[i] # "limit"
    BY DEF Covers
  <1>2. st.events # <<>> => Len(st.events) \in 1 .. Len(st.events)
    BY DEF Reads
  <1> QED  BY <1>1, <1>2 DEF Limited

\* Behind a newline a line begins.
LEMMA NewLineBegins ==
    ASSUME NEW bytes \in Seq(Bytes), NEW m \in 1 .. Len(bytes), IsNewline(bytes, m),
           NEW st \in Reads, st.line = <<>>, Covers(bytes, st.events, m)
    PROVE  Told(bytes, st, m)
  <1>1. Reading(bytes, m, m)
    BY DEF Reading
  <1>2. SubSeq(bytes, m + 1, m) = <<>>
    <2>1. m + 1 \in Int /\ m \in Int /\ m < m + 1
      OBVIOUS
    <2> QED  BY <2>1, SubSeqEmpty
  <1>3. m - m <= MaxFrame
    BY MaxFrameAssumption
  <1>4. ~Limited(st)
    BY CoversUnlimited
  <1> QED  BY <1>1, <1>2, <1>3, <1>4 DEF Told

\* A byte is read.
LEMMA ByteTold ==
    ASSUME NEW bytes \in Seq(Bytes), NEW n \in 0 .. Len(bytes), n < Len(bytes),
           NEW st \in Reads, Told(bytes, st, n)
    PROVE  LET now == ReadByte(st, bytes[n + 1])
           IN  now \in Reads /\ Told(bytes, now, n + 1)
  <1> DEFINE m == n + 1
             now == ReadByte(st, bytes[m])
             told == st.events
  <1> SUFFICES now \in Reads /\ Told(bytes, now, m)
    OBVIOUS
  <1>1. m \in 1 .. Len(bytes) /\ m - 1 = n /\ Len(bytes) \in Nat /\ m \in Nat
    OBVIOUS
  <1>2. bytes[m] \in Bytes
    BY <1>1
  <1>3. st = [line |-> st.line, events |-> told] /\ st.line \in Seq(Bytes) /\ told \in Seq(Events)
    BY DEF Reads, Events
  <1>4. ASSUME NEW line \in Seq(Bytes), NEW all \in Seq(Events),
               now = [line |-> line, events |-> all]
        PROVE  now \in Reads /\ now.line = line /\ now.events = all
    <2> HIDE DEF now
    <2>1. now.line = line /\ now.events = all
      BY <1>4
    <2> QED  BY <1>4, <2>1 DEF Reads, Events
  <1>5. CASE Limited(st)
    <2>1. now = st
      BY <1>5 DEF ReadByte
    <2> QED  BY <1>5, <2>1 DEF Told
  <1>6. CASE ~Limited(st)
    <2>1. PICK b : /\ Reading(bytes, b, n)
                   /\ st.line = SubSeq(bytes, b + 1, n)
                   /\ n - b <= MaxFrame
                   /\ Covers(bytes, told, b)
      BY <1>6 DEF Told
    <2>2. b \in 0 .. n /\ b \in Nat /\ b \in 0 .. Len(bytes)
      BY <1>1, <2>1 DEF Reading
    <2>3. Len(st.line) = n - b
      <3>1. \A i \in b + 1 .. n : bytes[i] \in Bytes
        BY <1>1, <2>2
      <3>2. b + 1 \in Int /\ n \in Int
        BY <2>2
      <3>3. Len(SubSeq(bytes, b + 1, n)) = IF b + 1 <= n THEN n - (b + 1) + 1 ELSE 0
        BY <3>1, <3>2, SubSeqProperties
      <3> QED  BY <2>1, <2>2, <3>3
    <2> HIDE DEF m
    <2>4. CASE IsNewline(bytes, m) /\ n = b
      <3>1. st.line = <<>>
        BY <1>3, <2>3, <2>4, <2>2
      <3>2. Frame(st.line) = <<>> /\ told \o <<>> = told
        BY <1>3, <3>1, ConcatEmptySeq DEF Frame
      <3>3. now = [line |-> <<>>, events |-> told]
        BY <1>6, <2>4, <3>2 DEF ReadByte, IsNewline
      <3>4. now \in Reads /\ now.events = told /\ now.line = <<>>
        <4> HIDE DEF now
        <4>1. <<>> \in Seq(Bytes)
          OBVIOUS
        <4> QED  BY <1>3, <1>4, <3>3, <4>1, Zenon
      <3>5. b + 1 = m
        BY <2>4, <1>1
      <3>6. Covers(bytes, told, m)
        BY <2>1, <2>2, <3>5, BlankTold DEF Reading
      <3> QED  BY <1>1, <2>4, <3>4, <3>6, NewLineBegins
    <2>5. CASE IsNewline(bytes, m) /\ n # b
      <3>1. /\ Reading(bytes, b, m - 1) /\ b + 1 < m /\ m - 1 - b <= MaxFrame
            /\ m \in 2 .. Len(bytes) + 1 /\ m - 1 \in b + 1 .. m - 1
        BY <1>1, <2>1, <2>2, <2>5
      <3>2. m \in Ends(bytes)
        <4>1. ~IsNewline(bytes, m - 1)
          BY <3>1 DEF Reading
        <4> QED  BY <2>5, <3>1, <4>1, EndsAre
      <3>3. PICK event \in Events :
               /\ told \o Frame(SubSeq(bytes, b + 1, m - 1)) = Append(told, event)
               /\ IF event = "limit" THEN EventsAreDue(bytes, Append(told, event))
                  ELSE Covers(bytes, Append(told, event), m)
        BY <1>3, <2>1, <2>2, <3>1, <3>2, LineTold
      <3>4. told \o Frame(st.line) = Append(told, event)
        BY <1>1, <2>1, <3>3
      <3>5. now = [line |-> <<>>, events |-> Append(told, event)]
        BY <1>6, <2>5, <3>4 DEF ReadByte, IsNewline
      <3>6. Append(told, event) \in Seq(Events)
        BY <1>3, AppendProperties
      <3>7. now \in Reads /\ now.events = Append(told, event) /\ now.line = <<>>
        <4> HIDE DEF now
        <4>1. <<>> \in Seq(Bytes)
          OBVIOUS
        <4> QED  BY <1>4, <3>5, <3>6, <4>1, Zenon
      <3>8. Limited(now) <=> event = "limit"
        BY <1>3, <3>5, LimitedAt
      <3>9. CASE event = "limit"
        BY <3>3, <3>7, <3>8, <3>9 DEF Told
      <3>10. CASE event # "limit"
        BY <1>1, <2>5, <3>3, <3>7, <3>10, NewLineBegins
      <3> QED  BY <3>9, <3>10
    <2>6. CASE ~IsNewline(bytes, m) /\ Len(st.line) = MaxFrame
      <3>1. now = [st EXCEPT !.events = Append(told, "limit")]
        BY <1>6, <2>6 DEF ReadByte, IsNewline
      <3>2. now = [line |-> st.line, events |-> Append(told, "limit")]
        BY <1>3, <3>1
      <3>3. "limit" \in Events
        BY DEF Events
      <3>4. now \in Reads /\ now.events = Append(told, "limit")
        <4>1. Append(told, "limit") \in Seq(Events)
          BY <1>3, <3>3, AppendProperties
        <4> HIDE DEF now
        <4> QED  BY <1>3, <1>4, <3>2, <4>1, Zenon
      <3>5. Limited(now)
        BY <1>3, <3>2, <3>3, LimitedAt
      <3>6. PICK e \in Ends(bytes) : m < e /\ \A i \in m .. e - 1 : ~IsNewline(bytes, i)
        BY <1>1, <2>6, NextEnd
      <3>7. e \in 2 .. Len(bytes) + 1
        BY EndsAre
      <3>8. Reading(bytes, b, e - 1)
        <4>1. b \in 0 .. e - 1
          BY <1>1, <2>2, <3>6, <3>7
        <4>2. \A i \in b + 1 .. e - 1 : i \in b + 1 .. n \/ i \in m .. e - 1
          BY <1>1, <2>2, <3>7
        <4>3. \A i \in b + 1 .. e - 1 : ~IsNewline(bytes, i)
          BY <2>1, <3>6, <4>2 DEF Reading
        <4> QED  BY <2>1, <4>1, <4>3 DEF Reading
      <3>9. b + 1 < e /\ b < e
        BY <1>1, <2>2, <3>6, <3>7
      <3>10. LineAt(bytes, e) = SubSeq(bytes, b + 1, e - 1) /\ \A x \in Ends(bytes) : x < e => x <= b
        BY <2>2, <3>8, <3>9, LineIs
      <3>11. Len(LineAt(bytes, e)) > MaxFrame
        <4>1. \A i \in b + 1 .. e - 1 : bytes[i] \in Bytes
          BY <2>2, <3>7
        <4>2. b + 1 \in Int /\ e - 1 \in Int /\ b + 1 <= e - 1
          BY <2>2, <3>7, <3>9
        <4>3. Len(SubSeq(bytes, b + 1, e - 1)) = e - 1 - (b + 1) + 1
          BY <4>1, <4>2, SubSeqProperties
        <4>4. n - b = MaxFrame /\ n < e - 1
          BY <1>1, <2>3, <2>6, <3>6, <3>7
        <4> QED  BY <2>2, <3>7, <3>10, <4>3, <4>4
      <3>12. "limit" \in Due(LineAt(bytes, e))
        BY <3>11 DEF Due
      <3>13. EventsAreDue(bytes, Append(told, "limit"))
        BY <1>3, <2>1, <2>2, <3>3, <3>9, <3>10, <3>12, EventAdded
      <3> QED  BY <3>4, <3>5, <3>13 DEF Told
    <2>7. CASE ~IsNewline(bytes, m) /\ Len(st.line) # MaxFrame
      <3>1. now = [st EXCEPT !.line = Append(st.line, bytes[m])]
        BY <1>6, <2>7 DEF ReadByte, IsNewline
      <3>2. now = [line |-> Append(st.line, bytes[m]), events |-> told]
        BY <1>3, <3>1
      <3>3. Append(st.line, bytes[m]) \in Seq(Bytes)
        BY <1>2, <1>3, AppendProperties
      <3>4. now \in Reads /\ now.events = told /\ now.line = Append(st.line, bytes[m])
        <4> HIDE DEF now
        <4> QED  BY <1>3, <1>4, <3>2, <3>3, Zenon
      <3>5. ~Limited(now)
        BY <1>6, <3>4 DEF Limited
      <3>6. Append(st.line, bytes[m]) = SubSeq(bytes, b + 1, m)
        <4>1. b + 1 \in 1 .. Len(bytes) /\ m \in b + 1 .. Len(bytes)
          BY <1>1, <2>2
        <4>2. SubSeq(bytes, b + 1, m) = SubSeq(bytes, b + 1, m - 1) \o <<bytes[m]>>
          BY <4>1, SubSeqRecursiveSecond
        <4>3. SubSeq(bytes, b + 1, m - 1) = st.line
          BY <1>1, <2>1
        <4>4. Append(st.line, bytes[m]) = st.line \o <<bytes[m]>>
          BY <1>2, <1>3, AppendIsConcat
        <4> QED  BY <4>2, <4>3, <4>4
      <3>7. Reading(bytes, b, m)
        <4>1. b \in 0 .. m
          BY <1>1, <2>2
        <4>2. \A i \in b + 1 .. m : i \in b + 1 .. n \/ i = m
          BY <1>1, <2>2
        <4>3. \A i \in b + 1 .. m : ~IsNewline(bytes, i)
          BY <2>1, <2>7, <4>2 DEF Reading
        <4> QED  BY <2>1, <4>1, <4>3 DEF Reading
      <3>8. m - b <= MaxFrame
        BY <1>1, <2>1, <2>2, <2>3, <2>7, MaxFrameAssumption
      <3> HIDE DEF now
      <3> QED  BY <2>1, <3>4, <3>5, <3>6, <3>7, <3>8 DEF Told
    <2> QED  BY <2>4, <2>5, <2>6, <2>7
  <1> QED  BY <1>5, <1>6
\* What HasRead holds.
LEMMA ReaderTold ==
    ASSUME NEW bytes \in Seq(Bytes)
    PROVE  LET st == HasRead(bytes)[Len(bytes)]
           IN  st \in Reads /\ Told(bytes, st, Len(bytes))
  <1> DEFINE N == Len(bytes)
             rd == HasRead(bytes)
             start == [line |-> <<>>, events |-> <<>>]
             step == [i \in 1 .. N |-> [st \in Reads |-> ReadByte(st, bytes[i])]]
             S == {i \in 0 .. N : rd[i] \in Reads /\ Told(bytes, rd[i], i)}
  <1>1. \A n \in Nat : rd[n] = IF n = 0 THEN start ELSE step[n][rd[n - 1]]
    <2>1. rd = Iterate(start, step)
      BY DEF HasRead
    <2> HIDE DEF rd, step, start
    <2> QED  BY <2>1, IterateUnfolds
  <1>2. N \in Nat
    OBVIOUS
  <1>3. start \in Reads
    BY DEF Reads
  <1>4. Told(bytes, start, 0)
    <2>1. ~Limited(start) /\ start.line = <<>> /\ start.events = <<>>
      BY DEF Limited
    <2>2. Reading(bytes, 0, 0)
      BY DEF Reading
    <2>3. SubSeq(bytes, 0 + 1, 0) = <<>>
      <3>1. 0 < 0 + 1
        OBVIOUS
      <3> QED  BY <3>1, SubSeqEmpty
    <2>4. Covers(bytes, <<>>, 0)
      <3> DEFINE end == [i \in 1 .. 0 |-> 2]
      <3>1. Len(<<>>) = 0 /\ 1 .. 0 = {}
        OBVIOUS
      <3>2. end \in [1 .. 0 -> Ends(bytes)]
        BY <3>1
      <3>3. \A e \in Ends(bytes) : ~ (e <= 0)
        BY EndsAre
      <3> HIDE DEF end
      <3> QED  BY <3>1, <3>2, <3>3 DEF Covers
    <2> HIDE DEF start
    <2>5. 0 - 0 <= MaxFrame
      BY MaxFrameAssumption
    <2> QED  BY <2>1, <2>2, <2>3, <2>4, <2>5 DEF Told
  <1> HIDE DEF rd, start
  <1>5. ASSUME NEW i \in 0 .. N, i \in S, i < N PROVE i + 1 \in S
    <2>1. rd[i] \in Reads /\ Told(bytes, rd[i], i)
      BY <1>5
    <2>2. i + 1 \in 1 .. N /\ (i + 1) - 1 = i /\ i + 1 \in Nat /\ i + 1 # 0 /\ i + 1 \in 0 .. N
      BY <1>2, <1>5
    <2>3. rd[i + 1] = step[i + 1][rd[i]]
      <3> HIDE DEF step
      <3> QED  BY <1>1, <2>2
    <2>4. step[i + 1] = [st \in Reads |-> ReadByte(st, bytes[i + 1])]
      BY <2>2
    <2>5. rd[i + 1] = ReadByte(rd[i], bytes[i + 1])
      <3> HIDE DEF step
      <3> QED  BY <2>1, <2>3, <2>4
    <2>6. rd[i + 1] \in Reads /\ Told(bytes, rd[i + 1], i + 1)
      <3>1. i \in 0 .. Len(bytes) /\ i < Len(bytes)
        BY <1>5
      <3> HIDE DEF step
      <3> QED  BY <2>1, <2>5, <3>1, ByteTold
    <2> QED  BY <2>2, <2>6
  <1>6. 0 \in S
    <2>1. 0 \in 0 .. N
      BY <1>2
    <2> HIDE DEF step
    <2> QED  BY <1>1, <1>3, <1>4, <2>1
  <1> HIDE DEF step
  <1>7. 0 .. N \subseteq S
    <2> HIDE DEF S, N
    <2> QED  BY <1>2, <1>5, <1>6, Counting
  <1>8. N \in 0 .. N
    BY <1>2
  <1>9. rd[N] \in Reads /\ Told(bytes, rd[N], N)
    BY <1>7, <1>8
  <1> QED  BY <1>9 DEF rd

\* When all lines are covered the events are those due.
LEMMA CoveredIsDue ==
    ASSUME NEW bytes, NEW told, NEW b, Covers(bytes, told, b), \A e \in Ends(bytes) : e <= b
    PROVE  EventsAreDue(bytes, told)
  <1>1. PICK end \in [1 .. Len(told) -> Ends(bytes)] :
           /\ \A i, j \in 1 .. Len(told) : i < j => end[i] < end[j]
           /\ \A i \in 1 .. Len(told) : /\ told[i] \in Due(LineAt(bytes, end[i]))
                                        /\ told[i] # "limit"
                                        /\ end[i] <= b
           /\ \A e \in Ends(bytes) : e <= b => \E i \in 1 .. Len(told) : end[i] = e
    BY DEF Covers
  <1> QED  BY <1>1, Zenon DEF EventsAreDue

\* Of every input read_loop tells what is due, by frame and excessive_depth: each line within
\* max_frame_bytes whose nesting is within max_json_depth is a message, the first line beyond
\* either ends it, and no line is told twice, out of order or not at all before that.
THEOREM InputsWithinLimits ==
    ASSUME NEW bytes \in Seq(Bytes)
    PROVE  EventsAreDue(bytes, ReadAll(bytes))
  <1> DEFINE N == Len(bytes)
             st == HasRead(bytes)[N]
             told == st.events
  <1>1. st \in Reads /\ Told(bytes, st, N) /\ N \in Nat
    BY ReaderTold
  <1>2. ReadAll(bytes) = IF Limited(st) THEN told ELSE told \o Frame(st.line)
    BY DEF ReadAll
  <1> HIDE DEF st
  <1>3. CASE Limited(st)
    BY <1>1, <1>2, <1>3 DEF Told
  <1>4. CASE ~Limited(st)
    <2>1. PICK b : /\ Reading(bytes, b, N)
                   /\ st.line = SubSeq(bytes, b + 1, N)
                   /\ N - b <= MaxFrame
                   /\ Covers(bytes, told, b)
      BY <1>1, <1>4 DEF Told
    <2>2. b \in 0 .. N /\ b \in Nat /\ (b # 0 => IsNewline(bytes, b))
      BY <1>1, <2>1 DEF Reading
    <2>3. told \in Seq(Events)
      BY <1>1 DEF Reads, Events
    <2>4. \A e \in Ends(bytes) : e <= N + 1
      BY <1>1, EndsAre
    <2>5. CASE b = N
      <3>1. st.line = <<>>
        <4>1. b + 1 \in Int /\ N \in Int /\ N < b + 1
          BY <2>2, <2>5
        <4> QED  BY <2>1, <4>1, SubSeqEmpty
      <3>2. told \o Frame(st.line) = told
        BY <2>3, <3>1, ConcatEmptySeq DEF Frame
      <3>3. Covers(bytes, told, N + 1)
        BY <2>1, <2>2, <2>5, BlankTold
      <3> QED  BY <1>2, <1>4, <2>4, <3>2, <3>3, CoveredIsDue
    <2>6. CASE b # N
      <3> DEFINE e == N + 1
      <3>1. /\ e - 1 = N /\ b + 1 < e /\ e \in 2 .. N + 1 /\ ~ (e <= N)
            /\ N \in b + 1 .. N
        BY <1>1, <2>2, <2>6
      <3> HIDE DEF e
      <3>2. Reading(bytes, b, e - 1) /\ e - 1 - b <= MaxFrame /\ st.line = SubSeq(bytes, b + 1, e - 1)
        BY <2>1, <3>1
      <3>3. e \in Ends(bytes)
        <4>1. ~IsNewline(bytes, N)
          BY <2>1, <3>1 DEF Reading
        <4> QED  BY <3>1, <4>1, EndsAre
      <3>4. PICK event \in Events :
               /\ told \o Frame(SubSeq(bytes, b + 1, e - 1)) = Append(told, event)
               /\ IF event = "limit" THEN EventsAreDue(bytes, Append(told, event))
                  ELSE Covers(bytes, Append(told, event), e)
        BY <2>1, <2>2, <2>3, <3>1, <3>2, <3>3, LineTold
      <3>5. ReadAll(bytes) = Append(told, event)
        BY <1>2, <1>4, <3>2, <3>4
      <3>6. EventsAreDue(bytes, Append(told, event))
        BY <2>4, <3>4, CoveredIsDue DEF e
      <3> QED  BY <3>5, <3>6
    <2> QED  BY <2>5, <2>6
  <1> QED  BY <1>3, <1>4
\* The limits of a frame, in both directions, for every set of inputs and of replies:
\* FramesWithinLimits of read_loop, frame, emit and send.
THEOREM LimitsHold == FrameSpec => []FramesWithinLimits
  <1> DEFINE Inv == /\ side = "in" => given \in Inputs
                    /\ side # "in" => given \in Replies
                    /\ FramesWithinLimits
  <1>1. FrameInit => Inv
    BY DEF FrameInit, FramesWithinLimits
  <1>2. Inv /\ [FrameNext]_frameVars => Inv'
    <2>1. CASE UNCHANGED frameVars
      BY <2>1 DEF frameVars, FramesWithinLimits
    <2>2. ASSUME Inv, ReadInput PROVE Inv'
      <3>1. EventsAreDue(given, ReadAll(given))
        BY <2>2, InputsAssumption, InputsWithinLimits DEF ReadInput
      <3> QED  BY <2>2, <3>1 DEF ReadInput, FramesWithinLimits
    <2>3. ASSUME Inv, EmitReply PROVE Inv'
      <3>1. EmitsWhatFits(given, Emit(given.opt, given.queued, given.pieces, given.substitute))
        BY <2>3, RepliesAssumption, RepliesWithinLimits DEF EmitReply
      <3> QED  BY <2>3, <3>1 DEF EmitReply, FramesWithinLimits
    <2> QED  BY <2>1, <2>2, <2>3 DEF FrameNext
  <1>3. Inv => FramesWithinLimits
    OBVIOUS
  <1> QED  BY <1>1, <1>2, <1>3, PTL DEF FrameSpec
=============================================================================
