----------------------- MODULE ProcessTransportProofs -----------------------
(* Proofs about ProcessTransport, for every child, and any number of starts     *)
(* and sends.                                                                   *)
EXTENDS ProcessTransport, TLAPS

-----------------------------------------------------------------------------
(* The inductive invariant. *)

OwnerSteps == {"idle", "spawn", "wait"}
ReaderSteps == {"none", "loop", "read", "blocked", "astray", "leave", "ended", "callback"}
SendSteps == {"lock", "write", "writing"}

PlacesOK ==
    /\ pc \in [Threads -> OwnerSteps \cup ReaderSteps \cup SendSteps \cup Stopping]
    /\ pc[Owner] \notin ReaderSteps /\ pc[Reader] \notin OwnerSteps

FlagsOK == /\ running \in BOOLEAN /\ stopped \in BOOLEAN /\ pid \in BOOLEAN
           /\ talking \in BOOLEAN
           /\ left \in BOOLEAN /\ interrupted \in BOOLEAN /\ asked \in BOOLEAN

NamesOK == /\ out \in {"pipe", "nothing", "stranger"} /\ in \in {"pipe", "nothing"}
           /\ child \in {"alive", "dying", "exited", "reaped"}
           /\ starts \in Nat

TypeOK == PlacesOK /\ FlagsOK /\ NamesOK

\* What a stop has closed and forgotten by each of its steps, and by every one of its steps
\* for good: a number is reused by others and not by the transport.
CloseShape ==
    /\ \A t \in Threads :
          /\ pc[t] \in {"forget_out", "close_in", "forget_in", "kill", "reap"} => out # "pipe"
          /\ pc[t] \in {"forget_in", "kill", "reap"} => in # "pipe"
    /\ pc[Reader] = "astray" => out # "pipe"
    /\ "out" \in forgotten => out # "pipe"
    /\ "in" \in forgotten => in # "pipe"
    /\ ~pid => child = "reaped" \/ interrupted
    /\ interrupted => ~pid /\ child \in {"dying", "exited"}

\* Everything is given back but a child whose end nobody waited for; or will be; or never
\* will: the reader has ended by itself.
Released == out # "pipe" /\ in # "pipe" /\ (child = "reaped" \/ interrupted)
BeingStopped == \E t \in Threads : pc[t] \in Stopping
Settled == Released \/ left \/ BeingStopped

\* The transport only rests once it is settled. While start waits for a reader before it,
\* that one has nothing left to lose: it was stopped, or it would have ended.
RestShape ==
    /\ pc[Owner] = "spawn" \/ pc[Reader] # "none" \/ running => starts > 0
    /\ starts > 0 /\ ~running => Settled
    /\ stopped => Settled \/ pc[Owner] = "spawn"
    /\ pc[Owner] = "spawn" /\ pc[Reader] \notin {"none", "ended"} => Released
    /\ pc[Owner] = "spawn" /\ ~running => Released
    /\ starts > 0 /\ ~running /\ pc[Reader] \notin {"none", "ended"} => Released \/ BeingStopped
    /\ pc[Reader] \in Stopping => running /\ pc[Owner] \notin Stopping

\* Who closes the descriptor has told the reader: a reader that has gone astray is not
\* to read again.
StrayShape ==
    /\ \A t \in Threads : pc[t] \in Stopping => stopped
    /\ out # "pipe" => "out" \in forgotten \/ \E t \in Threads : pc[t] = "forget_out"
    /\ pc[Reader] = "read" /\ out # "pipe" => stopped
    /\ pc[Reader] = "astray" => stopped /\ strange = 0
    /\ strange \in {0, 1}
    /\ strange = 1 => /\ stopped \/ pc[Reader] = "none"
                      /\ pc[Reader] \notin {"read", "blocked", "astray"}

IInv == TypeOK /\ CloseShape /\ RestShape /\ StrayShape /\ StopLeavesNothing

-----------------------------------------------------------------------------
(* Each conjunct is preserved. *)

\* A thread goes on to a step of its own.
LEMMA PlacesStep ==
    ASSUME TypeOK, [Next]_vars
    PROVE  PlacesOK'
  <1> USE ThreadsAssumption
          DEF TypeOK, PlacesOK, NamesOK, OwnerSteps, ReaderSteps, SendSteps, Stopping, Threads, Go, Home,
              fds, process, text, counts, history
  <1>1. CASE UNCHANGED vars
    BY <1>1 DEF vars
  <1>2. ASSUME Start \/ Spawn \/ Wait \/ Join
        PROVE  PlacesOK'
    BY <1>2 DEF Start, Spawn, Wait, Join
  <1>3. ASSUME Loop \/ Resolve \/ ReadEnd \/ ReadFails \/ End \/ Return
        PROVE  PlacesOK'
    BY <1>3 DEF Loop, Resolve, ReadEnd, ReadFails, End, Return
  <1>4. ASSUME ReadByte \/ ReadStranger
        PROVE  PlacesOK'
    BY <1>4 DEF ReadByte, ReadStranger, Take
  <1>5. ASSUME NEW t \in Threads, Stop(t)
        PROVE  PlacesOK'
    BY <1>5 DEF Stop
  <1>6. ASSUME NEW t \in Threads, Close(t)
        PROVE  PlacesOK'
    BY <1>6 DEF Close
  <1>7. ASSUME NEW t \in Threads, Kill(t) \/ Reap(t) \/ ReapFails(t)
        PROVE  PlacesOK'
    BY <1>7 DEF Kill, Reap, ReapFails
  <1>8. ASSUME NEW t \in Threads, Send(t) \/ Lock(t) \/ Write(t) \/ Writing(t) \/ WriteFails(t)
        PROVE  PlacesOK'
    BY <1>8 DEF Send, Lock, Write, Writing, WriteFails
  <1>9. ASSUME ChildWrites \/ ChildReads \/ ChildHangsUp \/ ChildExits \/ Reuse
        PROVE  PlacesOK'
    BY <1>9 DEF ChildWrites, ChildReads, ChildHangsUp, ChildExits, Reuse
  <1> HIDE DEF TypeOK, PlacesOK, NamesOK, OwnerSteps, ReaderSteps, SendSteps, Stopping
  <1> QED
    BY <1>1, <1>2, <1>3, <1>4, <1>5, <1>6, <1>7, <1>8, <1>9 DEF Next, ReaderStep, CallStep

\* Flags are flags.
LEMMA FlagsStep ==
    ASSUME TypeOK, [Next]_vars
    PROVE  FlagsOK'
  <1> USE ThreadsAssumption
          DEF TypeOK, FlagsOK, Threads, Go, Home,
              fds, process, text, counts, history
  <1>1. CASE UNCHANGED vars
    BY <1>1 DEF vars
  <1>2. ASSUME Start \/ Spawn \/ Wait \/ Join
        PROVE  FlagsOK'
    BY <1>2 DEF Start, Spawn, Wait, Join
  <1>3. ASSUME Loop \/ Resolve \/ ReadEnd \/ ReadFails \/ End \/ Return
        PROVE  FlagsOK'
    BY <1>3 DEF Loop, Resolve, ReadEnd, ReadFails, End, Return
  <1>4. ASSUME ReadByte \/ ReadStranger
        PROVE  FlagsOK'
    BY <1>4 DEF ReadByte, ReadStranger, Take
  <1>5. ASSUME NEW t \in Threads, Stop(t)
        PROVE  FlagsOK'
    BY <1>5 DEF Stop
  <1>6. ASSUME NEW t \in Threads, Close(t)
        PROVE  FlagsOK'
    BY <1>6 DEF Close
  <1>7. ASSUME NEW t \in Threads, Kill(t) \/ Reap(t) \/ ReapFails(t)
        PROVE  FlagsOK'
    BY <1>7 DEF Kill, Reap, ReapFails
  <1>8. ASSUME NEW t \in Threads, Send(t) \/ Lock(t) \/ Write(t) \/ Writing(t) \/ WriteFails(t)
        PROVE  FlagsOK'
    BY <1>8 DEF Send, Lock, Write, Writing, WriteFails
  <1>9. ASSUME ChildWrites \/ ChildReads \/ ChildHangsUp \/ ChildExits \/ Reuse
        PROVE  FlagsOK'
    BY <1>9 DEF ChildWrites, ChildReads, ChildHangsUp, ChildExits, Reuse
  <1> HIDE DEF TypeOK, FlagsOK
  <1> QED
    BY <1>1, <1>2, <1>3, <1>4, <1>5, <1>6, <1>7, <1>8, <1>9 DEF Next, ReaderStep, CallStep

\* Descriptors, the child and the starts keep their types.
LEMMA NamesStep ==
    ASSUME TypeOK, [Next]_vars
    PROVE  NamesOK'
  <1> USE ThreadsAssumption
          DEF TypeOK, NamesOK, Threads, Go, Home,
              fds, process, text, counts, history
  <1>1. CASE UNCHANGED vars
    BY <1>1 DEF vars
  <1>2. ASSUME Start \/ Spawn \/ Wait \/ Join
        PROVE  NamesOK'
    BY <1>2 DEF Start, Spawn, Wait, Join
  <1>3. ASSUME Loop \/ Resolve \/ ReadEnd \/ ReadFails \/ End \/ Return
        PROVE  NamesOK'
    BY <1>3 DEF Loop, Resolve, ReadEnd, ReadFails, End, Return
  <1>4. ASSUME ReadByte \/ ReadStranger
        PROVE  NamesOK'
    BY <1>4 DEF ReadByte, ReadStranger, Take
  <1>5. ASSUME NEW t \in Threads, Stop(t)
        PROVE  NamesOK'
    BY <1>5 DEF Stop
  <1>6. ASSUME NEW t \in Threads, Close(t)
        PROVE  NamesOK'
    BY <1>6 DEF Close
  <1>7. ASSUME NEW t \in Threads, Kill(t) \/ Reap(t) \/ ReapFails(t)
        PROVE  NamesOK'
    BY <1>7 DEF Kill, Reap, ReapFails
  <1>8. ASSUME NEW t \in Threads, Send(t) \/ Lock(t) \/ Write(t) \/ Writing(t) \/ WriteFails(t)
        PROVE  NamesOK'
    BY <1>8 DEF Send, Lock, Write, Writing, WriteFails
  <1>9. ASSUME ChildWrites \/ ChildReads \/ ChildHangsUp \/ ChildExits \/ Reuse
        PROVE  NamesOK'
    BY <1>9 DEF ChildWrites, ChildReads, ChildHangsUp, ChildExits, Reuse
  <1> HIDE DEF TypeOK, NamesOK
  <1> QED
    BY <1>1, <1>2, <1>3, <1>4, <1>5, <1>6, <1>7, <1>8, <1>9 DEF Next, ReaderStep, CallStep

\* A descriptor is forgotten after it is closed, and the child after it is reaped.
LEMMA CloseStep ==
    ASSUME TypeOK, CloseShape, [Next]_vars
    PROVE  CloseShape'
  <1> USE ThreadsAssumption
          DEF TypeOK, PlacesOK, FlagsOK, NamesOK, CloseShape, OwnerSteps, ReaderSteps, SendSteps, Stopping, Threads, Go, Home,
              fds, process, text, counts, history
  <1>1. CASE UNCHANGED vars
    BY <1>1 DEF vars
  <1>2. ASSUME Start \/ Spawn \/ Wait \/ Join
        PROVE  CloseShape'
    BY <1>2 DEF Start, Spawn, Wait, Join
  <1>3. ASSUME Loop \/ Resolve \/ ReadEnd \/ ReadFails \/ End \/ Return
        PROVE  CloseShape'
    BY <1>3 DEF Loop, Resolve, ReadEnd, ReadFails, End, Return
  <1>4. ASSUME ReadByte \/ ReadStranger
        PROVE  CloseShape'
    BY <1>4 DEF ReadByte, ReadStranger, Take
  <1>5. ASSUME NEW t \in Threads, Stop(t)
        PROVE  CloseShape'
    BY <1>5 DEF Stop
  <1>6. ASSUME NEW t \in Threads, Close(t)
        PROVE  CloseShape'
    BY <1>6 DEF Close
  <1>7. ASSUME NEW t \in Threads, Kill(t) \/ Reap(t) \/ ReapFails(t)
        PROVE  CloseShape'
    BY <1>7 DEF Kill, Reap, ReapFails
  <1>8. ASSUME NEW t \in Threads, Send(t) \/ Lock(t) \/ Write(t) \/ Writing(t) \/ WriteFails(t)
        PROVE  CloseShape'
    BY <1>8 DEF Send, Lock, Write, Writing, WriteFails
  <1>9. ASSUME ChildWrites \/ ChildReads \/ ChildHangsUp \/ ChildExits \/ Reuse
        PROVE  CloseShape'
    BY <1>9 DEF ChildWrites, ChildReads, ChildHangsUp, ChildExits, Reuse
  <1> HIDE DEF TypeOK, PlacesOK, FlagsOK, NamesOK, CloseShape, OwnerSteps, ReaderSteps, SendSteps, Stopping
  <1> QED
    BY <1>1, <1>2, <1>3, <1>4, <1>5, <1>6, <1>7, <1>8, <1>9 DEF Next, ReaderStep, CallStep

\* What is given back is not taken again,
LEMMA ReleasedStays ==
    ASSUME TypeOK, CloseShape, Released, [Next]_vars
    PROVE  Released'
  <1> USE ThreadsAssumption
          DEF TypeOK, NamesOK, CloseShape, Released,
              Threads, Go, Home, fds, process, text, counts, history
  <1>1. CASE UNCHANGED vars
    BY <1>1 DEF vars
  <1>2. ASSUME Start \/ Spawn \/ Wait \/ Join
        PROVE  Released'
    BY <1>2 DEF Start, Spawn, Wait, Join
  <1>3. ASSUME Loop \/ Resolve \/ ReadEnd \/ ReadFails \/ End \/ Return
        PROVE  Released'
    BY <1>3 DEF Loop, Resolve, ReadEnd, ReadFails, End, Return
  <1>4. ASSUME ReadByte \/ ReadStranger
        PROVE  Released'
    BY <1>4 DEF ReadByte, ReadStranger, Take
  <1>5. ASSUME NEW t \in Threads, Stop(t)
        PROVE  Released'
    BY <1>5 DEF Stop
  <1>6. ASSUME NEW t \in Threads, Close(t)
        PROVE  Released'
    BY <1>6 DEF Close
  <1>7. ASSUME NEW t \in Threads, Kill(t) \/ Reap(t) \/ ReapFails(t)
        PROVE  Released'
    BY <1>7 DEF Kill, Reap, ReapFails
  <1>8. ASSUME NEW t \in Threads, Send(t) \/ Lock(t) \/ Write(t) \/ Writing(t) \/ WriteFails(t)
        PROVE  Released'
    BY <1>8 DEF Send, Lock, Write, Writing, WriteFails
  <1>9. ASSUME ChildWrites \/ ChildReads \/ ChildHangsUp \/ ChildExits \/ Reuse
        PROVE  Released'
    BY <1>9 DEF ChildWrites, ChildReads, ChildHangsUp, ChildExits, Reuse
  <1> HIDE DEF TypeOK, NamesOK, CloseShape, Released
  <1> QED
    BY <1>1, <1>2, <1>3, <1>4, <1>5, <1>6, <1>7, <1>8, <1>9 DEF Next, ReaderStep, CallStep

\* and a stop gives everything back before it is over.
LEMMA StopGoesOn ==
    ASSUME TypeOK, CloseShape, BeingStopped, [Next]_vars
    PROVE  (Released \/ BeingStopped)'
  <1> USE ThreadsAssumption
          DEF TypeOK, PlacesOK, FlagsOK, NamesOK, OwnerSteps, ReaderSteps, SendSteps, Stopping, CloseShape, Released, BeingStopped,
              Threads, Go, Home, fds, process, text, counts, history
  <1>1. CASE UNCHANGED vars
    BY <1>1 DEF vars
  <1>2. ASSUME Start \/ Spawn \/ Wait \/ Join
        PROVE  (Released \/ BeingStopped)'
    BY <1>2 DEF Start, Spawn, Wait, Join
  <1>3. ASSUME Loop \/ Resolve \/ ReadEnd \/ ReadFails \/ End \/ Return
        PROVE  (Released \/ BeingStopped)'
    BY <1>3 DEF Loop, Resolve, ReadEnd, ReadFails, End, Return
  <1>4. ASSUME ReadByte \/ ReadStranger
        PROVE  (Released \/ BeingStopped)'
    BY <1>4 DEF ReadByte, ReadStranger, Take
  <1>5. ASSUME NEW t \in Threads, Stop(t)
        PROVE  (Released \/ BeingStopped)'
    BY <1>5 DEF Stop
  <1>6. ASSUME NEW t \in Threads, Close(t)
        PROVE  (Released \/ BeingStopped)'
    BY <1>6 DEF Close
  <1>7. ASSUME NEW t \in Threads, Kill(t) \/ Reap(t) \/ ReapFails(t)
        PROVE  (Released \/ BeingStopped)'
    BY <1>7 DEF Kill, Reap, ReapFails
  <1>8. ASSUME NEW t \in Threads, Send(t) \/ Lock(t) \/ Write(t) \/ Writing(t) \/ WriteFails(t)
        PROVE  (Released \/ BeingStopped)'
    BY <1>8 DEF Send, Lock, Write, Writing, WriteFails
  <1>9. ASSUME ChildWrites \/ ChildReads \/ ChildHangsUp \/ ChildExits \/ Reuse
        PROVE  (Released \/ BeingStopped)'
    BY <1>9 DEF ChildWrites, ChildReads, ChildHangsUp, ChildExits, Reuse
  <1> HIDE DEF TypeOK, PlacesOK, FlagsOK, NamesOK, OwnerSteps, ReaderSteps, SendSteps, Stopping, CloseShape, Released, BeingStopped
  <1> QED
    BY <1>1, <1>2, <1>3, <1>4, <1>5, <1>6, <1>7, <1>8, <1>9 DEF Next, ReaderStep, CallStep

\* The end of the reader, of a stop, and of a wait of start for the reader before.
LEMMA RestStep ==
    ASSUME TypeOK, CloseShape, RestShape, [Next]_vars
    PROVE  RestShape'
  <1>a. (Released => Released') /\ (BeingStopped => Released' \/ BeingStopped')
    BY ReleasedStays, StopGoesOn
  <1>b. /\ BeingStopped <=> \E t \in Threads : pc[t] \in Stopping
        /\ BeingStopped' <=> \E t \in Threads : pc'[t] \in Stopping
    BY DEF BeingStopped
  <1>c. /\ Settled <=> Released \/ left \/ BeingStopped
        /\ Settled' <=> Released' \/ left' \/ BeingStopped'
    BY DEF Settled
  <1> USE <1>a, <1>b, <1>c
  <1> USE ThreadsAssumption
          DEF TypeOK, PlacesOK, FlagsOK, NamesOK, OwnerSteps, ReaderSteps, SendSteps, Stopping, RestShape,
              Threads, Go, Home, fds, process, text, counts, history
  <1>1. CASE UNCHANGED vars
    BY <1>1 DEF vars
  <1>2. ASSUME Start \/ Spawn \/ Wait \/ Join
        PROVE  RestShape'
    BY <1>2 DEF Start, Spawn, Wait, Join
  <1>3. ASSUME Loop \/ Resolve \/ ReadEnd \/ ReadFails \/ End \/ Return
        PROVE  RestShape'
    BY <1>3 DEF Loop, Resolve, ReadEnd, ReadFails, End, Return
  <1>4. ASSUME ReadByte \/ ReadStranger
        PROVE  RestShape'
    BY <1>4 DEF ReadByte, ReadStranger, Take
  <1>5. ASSUME NEW t \in Threads, Stop(t)
        PROVE  RestShape'
    BY <1>5 DEF Stop
  <1>6. ASSUME NEW t \in Threads, Close(t)
        PROVE  RestShape'
    BY <1>6 DEF Close
  <1>7. ASSUME NEW t \in Threads, Kill(t) \/ Reap(t) \/ ReapFails(t)
        PROVE  RestShape'
    BY <1>7 DEF Kill, Reap, ReapFails
  <1>8. ASSUME NEW t \in Threads, Send(t) \/ Lock(t) \/ Write(t) \/ Writing(t) \/ WriteFails(t)
        PROVE  RestShape'
    BY <1>8 DEF Send, Lock, Write, Writing, WriteFails
  <1>9. ASSUME ChildWrites \/ ChildReads \/ ChildHangsUp \/ ChildExits \/ Reuse
        PROVE  RestShape'
    BY <1>9 DEF ChildWrites, ChildReads, ChildHangsUp, ChildExits, Reuse
  <1> HIDE DEF TypeOK, PlacesOK, FlagsOK, NamesOK, OwnerSteps, ReaderSteps, SendSteps, Stopping, RestShape
  <1> QED
    BY <1>1, <1>2, <1>3, <1>4, <1>5, <1>6, <1>7, <1>8, <1>9 DEF Next, ReaderStep, CallStep

\* The token is asked before every read, and told before the close.
LEMMA StrayStep ==
    ASSUME TypeOK, CloseShape, RestShape, StrayShape, [Next]_vars
    PROVE  StrayShape'
  <1> USE ThreadsAssumption
          DEF TypeOK, PlacesOK, FlagsOK, NamesOK, OwnerSteps, ReaderSteps, SendSteps, Stopping, StrayShape,
              Threads, Go, Home, fds, process, text, counts, history
  <1>1. CASE UNCHANGED vars
    BY <1>1 DEF vars
  <1>2. ASSUME Start \/ Spawn \/ Wait \/ Join
        PROVE  StrayShape'
    BY <1>2 DEF Start, Spawn, Wait, Join
  <1>3. ASSUME Loop \/ Resolve \/ ReadEnd \/ ReadFails \/ End \/ Return
        PROVE  StrayShape'
    BY <1>3 DEF Loop, Resolve, ReadEnd, ReadFails, End, Return
  <1>4. ASSUME ReadByte \/ ReadStranger
        PROVE  StrayShape'
    BY <1>4 DEF ReadByte, ReadStranger, Take
  <1>5. ASSUME NEW t \in Threads, Stop(t)
        PROVE  StrayShape'
    BY <1>5 DEF Stop
  <1>6. ASSUME NEW t \in Threads, Close(t)
        PROVE  StrayShape'
    BY <1>6 DEF Close
  <1>7. ASSUME NEW t \in Threads, Kill(t) \/ Reap(t) \/ ReapFails(t)
        PROVE  StrayShape'
    BY <1>7 DEF Kill, Reap, ReapFails
  <1>8. ASSUME NEW t \in Threads, Send(t) \/ Lock(t) \/ Write(t) \/ Writing(t) \/ WriteFails(t)
        PROVE  StrayShape'
    BY <1>8 DEF Send, Lock, Write, Writing, WriteFails
  <1>9. ASSUME ChildWrites \/ ChildReads \/ ChildHangsUp \/ ChildExits \/ Reuse
        PROVE  StrayShape'
    BY <1>9 DEF ChildWrites, ChildReads, ChildHangsUp, ChildExits, Reuse
  <1> HIDE DEF TypeOK, PlacesOK, FlagsOK, NamesOK, OwnerSteps, ReaderSteps, SendSteps, Stopping, StrayShape
  <1> QED
    BY <1>1, <1>2, <1>3, <1>4, <1>5, <1>6, <1>7, <1>8, <1>9 DEF Next, ReaderStep, CallStep

\* What the property says, in these terms.
LEMMA LeavesNothing ==
    ASSUME CloseShape
    PROVE  StopLeavesNothing <=> (asked => Settled \/ starts = 0)
  BY DEF CloseShape, StopLeavesNothing, Settled, Released, BeingStopped

\* Who has stopped has given everything back, or had nothing to give back.
LEMMA AskedStep ==
    ASSUME TypeOK, CloseShape, RestShape, asked => Settled \/ starts = 0, [Next]_vars
    PROVE  (asked => Settled \/ starts = 0)'
  <1>a. Released => Released'
    BY ReleasedStays
  <1>b. BeingStopped => Released' \/ BeingStopped'
    BY StopGoesOn
  <1>c. /\ BeingStopped <=> \E t \in Threads : pc[t] \in Stopping
        /\ BeingStopped' <=> \E t \in Threads : pc'[t] \in Stopping
    BY DEF BeingStopped
  <1>d. /\ Settled <=> Released \/ left \/ BeingStopped
        /\ Settled' <=> Released' \/ left' \/ BeingStopped'
    BY DEF Settled
  <1> USE <1>a, <1>b, <1>c, <1>d
  <1> USE ThreadsAssumption
          DEF TypeOK, PlacesOK, FlagsOK, NamesOK, OwnerSteps, ReaderSteps, SendSteps, Stopping, RestShape,
              Threads, Go, Home, fds, process, text, counts, history
  <1>1. CASE UNCHANGED vars
    BY <1>1 DEF vars
  <1>2. ASSUME Start \/ Spawn \/ Wait \/ Join
        PROVE  (asked => Settled \/ starts = 0)'
    BY <1>2 DEF Start, Spawn, Wait, Join
  <1>3. ASSUME Loop \/ Resolve \/ ReadEnd \/ ReadFails \/ End \/ Return
        PROVE  (asked => Settled \/ starts = 0)'
    BY <1>3 DEF Loop, Resolve, ReadEnd, ReadFails, End, Return
  <1>4. ASSUME ReadByte \/ ReadStranger
        PROVE  (asked => Settled \/ starts = 0)'
    BY <1>4 DEF ReadByte, ReadStranger, Take
  <1>5. ASSUME NEW t \in Threads, Stop(t)
        PROVE  (asked => Settled \/ starts = 0)'
    <2>1. UNCHANGED <<starts, left>>
      BY <1>5 DEF Stop
    <2>2. CASE running
      <3>1. asked' = asked
        BY <1>5, <2>2 DEF Stop
      <3> QED  BY <2>1, <3>1
    <2>3. CASE ~running
      <3>1. Settled \/ starts = 0
        <4>1. starts \in Nat /\ (starts > 0 => Settled)
          BY <2>3
        <4> QED  BY <4>1
      <3> QED  BY <2>1, <3>1
    <2> QED  BY <2>2, <2>3
  <1>6. ASSUME NEW t \in Threads, Close(t)
        PROVE  (asked => Settled \/ starts = 0)'
    BY <1>6 DEF Close
  <1>7. ASSUME NEW t \in Threads, Kill(t) \/ Reap(t) \/ ReapFails(t)
        PROVE  (asked => Settled \/ starts = 0)'
    BY <1>7 DEF Kill, Reap, ReapFails
  <1>8. ASSUME NEW t \in Threads, Send(t) \/ Lock(t) \/ Write(t) \/ Writing(t) \/ WriteFails(t)
        PROVE  (asked => Settled \/ starts = 0)'
    BY <1>8 DEF Send, Lock, Write, Writing, WriteFails
  <1>9. ASSUME ChildWrites \/ ChildReads \/ ChildHangsUp \/ ChildExits \/ Reuse
        PROVE  (asked => Settled \/ starts = 0)'
    BY <1>9 DEF ChildWrites, ChildReads, ChildHangsUp, ChildExits, Reuse
  <1> HIDE DEF TypeOK, PlacesOK, FlagsOK, NamesOK, OwnerSteps, ReaderSteps, SendSteps, Stopping, RestShape
  <1> QED
    BY <1>1, <1>2, <1>3, <1>4, <1>5, <1>6, <1>7, <1>8, <1>9 DEF Next, ReaderStep, CallStep

-----------------------------------------------------------------------------
(* The reader's text: facts about places in a text, and what a byte changes. *)

\* Places of lines are places of the text.
LEMMA LineBeforeRange ==
    ASSUME NEW r \in Seq(Chars), NEW i \in 1 .. Len(r) + 1
    PROVE  LineBefore(r, i) \subseteq 1 .. Len(r)
  BY DEF LineBefore

\* A byte at the end moves no line before it,
LEMMA LineBeforeKept ==
    ASSUME NEW r \in Seq(Chars), NEW b \in Chars, NEW i \in 1 .. Len(r) + 1
    PROVE  LineBefore(Append(r, b), i) = LineBefore(r, i)
  <1>1. \A j \in 1 .. Len(r) : Append(r, b)[j] = r[j]
    OBVIOUS
  <1>2. \A j \in 1 .. i - 1 : j \in 1 .. Len(r) /\ \A k \in j .. i - 1 : k \in 1 .. Len(r)
    OBVIOUS
  <1> QED  BY <1>1, <1>2 DEF LineBefore

\* and ends, leaves or lengthens the last one.
LEMMA LineBeforeNext ==
    ASSUME NEW r \in Seq(Chars), NEW b \in Chars
    PROVE  LineBefore(Append(r, b), Len(r) + 2) =
             IF b = "n" THEN {}
             ELSE LineBefore(r, Len(r) + 1) \cup (IF b = "r" THEN {} ELSE {Len(r) + 1})
  <1> DEFINE n == Len(r)
             a == Append(r, b)
  <1>1. n \in Nat /\ a[n + 1] = b /\ \A j \in 1 .. n : a[j] = r[j]
    OBVIOUS
  <1>2. \A j : j \in 1 .. n + 1 <=> j \in 1 .. n \/ j = n + 1
    BY <1>1
  <1>3. LineBefore(a, n + 2) = {j \in 1 .. n + 1 : a[j] # "r" /\ \A k \in j .. n + 1 : a[k] # "n"}
    BY <1>1 DEF LineBefore
  <1>4. LineBefore(r, n + 1) = {j \in 1 .. n : r[j] # "r" /\ \A k \in j .. n : r[k] # "n"}
    BY <1>1 DEF LineBefore
  <1> HIDE DEF n, a
  <1>5. \A j \in 1 .. n : (\A k \in j .. n + 1 : a[k] # "n")
                           <=> (\A k \in j .. n : r[k] # "n") /\ b # "n"
    <2> SUFFICES ASSUME NEW j \in 1 .. n
                 PROVE  (\A k \in j .. n + 1 : a[k] # "n")
                           <=> (\A k \in j .. n : r[k] # "n") /\ b # "n"
      OBVIOUS
    <2>1. n \in Nat /\ j \in Nat /\ 1 <= j /\ j <= n
      BY <1>1
    <2>2. \A k : k \in j .. n + 1 <=> k \in j .. n \/ k = n + 1
      BY <2>1
    <2>3. \A k \in j .. n : k \in 1 .. n
      BY <2>1
    <2> QED  BY <1>1, <2>2, <2>3
  <1>6. (\A k \in n + 1 .. n + 1 : a[k] # "n") <=> b # "n"
    BY <1>1
  <1>7. \A j : j \in LineBefore(a, n + 2) <=>
                 /\ b # "n"
                 /\ j \in LineBefore(r, n + 1) \/ (j = n + 1 /\ b # "r")
    BY <1>1, <1>2, <1>3, <1>4, <1>5, <1>6
  <1> QED  BY <1>7 DEF n, a

\* A newline after a line of JSON is one more of its kind; nothing else is.
LEMMA JsonEndsNext ==
    ASSUME NEW r \in Seq(Chars), NEW b \in Chars
    PROVE  JsonEnds(Append(r, b)) =
             JsonEnds(r) \cup
             (IF /\ b = "n" /\ LineBefore(r, Len(r) + 1) # {}
                 /\ \A j \in LineBefore(r, Len(r) + 1) : r[j] = "j"
              THEN {Len(r) + 1} ELSE {})
  <1> DEFINE n == Len(r)
             a == Append(r, b)
             Ends(t, i) == /\ t[i] = "n" /\ LineBefore(t, i) # {}
                           /\ \A j \in LineBefore(t, i) : t[j] = "j"
  <1>1. n \in Nat /\ Len(a) = n + 1 /\ a[n + 1] = b /\ \A j \in 1 .. n : a[j] = r[j]
    OBVIOUS
  <1>2. \A i \in 1 .. n + 1 : LineBefore(a, i) = LineBefore(r, i)
                               /\ LineBefore(r, i) \subseteq 1 .. n
    BY LineBeforeKept, LineBeforeRange
  <1>3. \A i : i \in JsonEnds(a) <=> i \in 1 .. n + 1 /\ Ends(a, i)
    BY <1>1 DEF JsonEnds
  <1>4. \A i : i \in JsonEnds(r) <=> i \in 1 .. n /\ Ends(r, i)
    BY DEF JsonEnds
  <1>5. \A i : i \in 1 .. n + 1 <=> i \in 1 .. n \/ i = n + 1
    BY <1>1
  <1> HIDE DEF n, a
  <1>6. \A i \in 1 .. n : Ends(a, i) <=> Ends(r, i)
    BY <1>1, <1>2, <1>5
  <1>7. Ends(a, n + 1) <=> /\ b = "n" /\ LineBefore(r, n + 1) # {}
                           /\ \A j \in LineBefore(r, n + 1) : r[j] = "j"
    BY <1>1, <1>2, <1>5
  <1> HIDE DEF Ends
  <1>8. \A i : i \in JsonEnds(a) <=> i \in JsonEnds(r) \/ (i = n + 1 /\ Ends(a, n + 1))
    BY <1>3, <1>4, <1>5, <1>6
  <1> QED  BY <1>7, <1>8 DEF n, a

\* A list in order is continued by what is greater than everything in it.
LEMMA ListsNext ==
    ASSUME NEW n \in Nat, NEW S, S \subseteq Nat, NEW f \in [1 .. n -> S], Lists(f, S),
           NEW m \in Nat, \A s \in S : s < m
    PROVE  LET g == [i \in 1 .. n + 1 |-> IF i = n + 1 THEN m ELSE f[i]]
           IN  g \in [1 .. n + 1 -> S \cup {m}] /\ Lists(g, S \cup {m})
  <1> DEFINE g == [i \in 1 .. n + 1 |-> IF i = n + 1 THEN m ELSE f[i]]
  <1>1. \A i : i \in 1 .. n + 1 <=> i \in 1 .. n \/ i = n + 1
    OBVIOUS
  <1>2. n + 1 \notin 1 .. n
    OBVIOUS
  <1>3. DOMAIN f = 1 .. n /\ \A i \in 1 .. n : f[i] \in S
    OBVIOUS
  <1>4. DOMAIN g = 1 .. n + 1 /\ g[n + 1] = m /\ \A i \in 1 .. n : g[i] = f[i]
    BY <1>1, <1>2
  <1>5. g \in [1 .. n + 1 -> S \cup {m}]
    BY <1>1, <1>3
  <1>6. ASSUME NEW i \in DOMAIN g, NEW j \in DOMAIN g, i < j
        PROVE  g[i] < g[j]
    <2>1. i \in 1 .. n
      BY <1>4, <1>6
    <2>2. CASE j = n + 1
      BY <1>3, <1>4, <2>1, <2>2
    <2>3. CASE j \in 1 .. n
      BY <1>3, <1>4, <1>6, <2>1, <2>3 DEF Lists
    <2> QED  BY <1>1, <1>4, <2>2, <2>3
  <1>7. ASSUME NEW s \in S \cup {m}
        PROVE  \E i \in DOMAIN g : g[i] = s
    <2>1. CASE s = m
      BY <1>1, <1>4, <2>1
    <2>2. CASE s \in S
      <3>1. PICK i \in 1 .. n : f[i] = s
        BY <1>3, <2>2 DEF Lists
      <3> QED  BY <1>1, <1>4, <3>1
    <2> QED  BY <2>1, <2>2
  <1> HIDE DEF g
  <1>8. Lists(g, S \cup {m})
    BY <1>6, <1>7 DEF Lists
  <1> QED  BY <1>5, <1>8 DEF g

\* What a text spells at some places it spells when it has grown,
LEMMA SpellsKept ==
    ASSUME NEW r \in Seq(Chars), NEW b \in Chars, NEW l \in Seq(Chars),
           NEW S, S \subseteq 1 .. Len(r), Spells(l, r, S)
    PROVE  Spells(l, Append(r, b), S)
  <1>1. PICK at \in [DOMAIN l -> S] : Lists(at, S) /\ \A m \in DOMAIN l : l[m] = r[at[m]]
    BY DEF Spells
  <1>2. \A m \in DOMAIN l : at[m] \in 1 .. Len(r)
    OBVIOUS
  <1>3. \A j \in 1 .. Len(r) : Append(r, b)[j] = r[j]
    OBVIOUS
  <1>4. \A m \in DOMAIN l : l[m] = Append(r, b)[at[m]]
    BY <1>1, <1>2, <1>3
  <1> QED  BY <1>1, <1>4 DEF Spells

\* and one byte more at one place more.
LEMMA SpellsNext ==
    ASSUME NEW r \in Seq(Chars), NEW b \in Chars, NEW l \in Seq(Chars),
           NEW S, S \subseteq 1 .. Len(r), Spells(l, r, S)
    PROVE  Spells(Append(l, b), Append(r, b), S \cup {Len(r) + 1})
  <1> DEFINE n == Len(l)
             a == Append(r, b)
  <1>1. PICK at \in [DOMAIN l -> S] : Lists(at, S) /\ \A m \in DOMAIN l : l[m] = r[at[m]]
    BY DEF Spells
  <1>2. n \in Nat /\ DOMAIN l = 1 .. n /\ Len(r) \in Nat
    OBVIOUS
  <1>3. at \in [1 .. n -> S]
    BY <1>2
  <1> DEFINE g == [i \in 1 .. n + 1 |-> IF i = n + 1 THEN Len(r) + 1 ELSE at[i]]
  <1>4. g \in [1 .. n + 1 -> S \cup {Len(r) + 1}] /\ Lists(g, S \cup {Len(r) + 1})
    <2>1. S \subseteq Nat /\ \A s \in S : s < Len(r) + 1
      BY <1>2
    <2>2. Len(r) + 1 \in Nat
      BY <1>2
    <2> HIDE DEF n
    <2> QED  BY <1>1, <1>2, <1>3, <2>1, <2>2, ListsNext
  <1>5. DOMAIN Append(l, b) = 1 .. n + 1
    OBVIOUS
  <1>7. n + 1 \notin 1 .. n /\ \A m : m \in 1 .. n + 1 <=> m \in 1 .. n \/ m = n + 1
    BY <1>2
  <1>8. g[n + 1] = Len(r) + 1 /\ \A m \in 1 .. n : g[m] = at[m]
    BY <1>7
  <1>9. a[Len(r) + 1] = b /\ \A j \in 1 .. Len(r) : a[j] = r[j]
    OBVIOUS
  <1>10. Append(l, b)[n + 1] = b /\ \A m \in 1 .. n : Append(l, b)[m] = l[m]
    OBVIOUS
  <1>11. \A m \in 1 .. n : at[m] \in 1 .. Len(r) /\ l[m] = r[at[m]]
    BY <1>1, <1>2, <1>3
  <1> HIDE DEF g, a, n
  <1>12. \A m \in 1 .. n + 1 : Append(l, b)[m] = a[g[m]]
    BY <1>7, <1>8, <1>9, <1>10, <1>11
  <1>13. Spells(Append(l, b), a, S \cup {Len(r) + 1})
    BY <1>4, <1>5, <1>12 DEF Spells
  <1> QED  BY <1>13 DEF a

\* It is as well formed as the bytes at its places.
LEMMA SpellsForm ==
    ASSUME NEW r \in Seq(Chars), NEW l \in Seq(Chars), NEW S, Spells(l, r, S)
    PROVE  /\ l # <<>> <=> S # {}
           /\ WellFormed(l) <=> \A j \in S : r[j] = "j"
  <1>1. PICK at \in [DOMAIN l -> S] : Lists(at, S) /\ \A m \in DOMAIN l : l[m] = r[at[m]]
    BY DEF Spells
  <1>2. \A s \in S : \E m \in DOMAIN l : at[m] = s
    BY <1>1 DEF Lists
  <1>3. l # <<>> <=> \E m : m \in DOMAIN l
    <2>1. l # <<>> => 1 \in DOMAIN l
      OBVIOUS
    <2>2. l = <<>> => DOMAIN l = {}
      OBVIOUS
    <2> QED  BY <2>1, <2>2
  <1>4. DOMAIN l = 1 .. Len(l)
    OBVIOUS
  <1> QED  BY <1>1, <1>2, <1>3, <1>4 DEF WellFormed

\* The lines of a text stay its lines when a byte ends no further one,
LEMMA GivesKept ==
    ASSUME NEW r \in Seq(Chars), NEW b \in Chars, NEW d \in Seq(Seq(Chars)), Gives(d, r),
           JsonEnds(Append(r, b)) = JsonEnds(r)
    PROVE  Gives(d, Append(r, b))
  <1>1. PICK end \in [DOMAIN d -> JsonEnds(r)] :
               /\ Lists(end, JsonEnds(r))
               /\ \A k \in DOMAIN d : Spells(d[k], r, LineBefore(r, end[k]))
    BY DEF Gives
  <1>2. ASSUME NEW k \in DOMAIN d
        PROVE  Spells(d[k], Append(r, b), LineBefore(Append(r, b), end[k]))
    <2>1. end[k] \in 1 .. Len(r) + 1 /\ d[k] \in Seq(Chars)
      BY DEF JsonEnds
    <2>2. LineBefore(r, end[k]) \subseteq 1 .. Len(r)
      BY <2>1, LineBeforeRange
    <2>3. Spells(d[k], Append(r, b), LineBefore(r, end[k]))
      BY <1>1, <2>1, <2>2, SpellsKept
    <2> QED  BY <2>1, <2>3, LineBeforeKept
  <1> QED  BY <1>1, <1>2 DEF Gives

\* and gain the last line when it does.
LEMMA GivesNext ==
    ASSUME NEW r \in Seq(Chars), NEW b \in Chars, NEW d \in Seq(Seq(Chars)), Gives(d, r),
           NEW l \in Seq(Chars), Spells(l, r, LineBefore(r, Len(r) + 1)),
           JsonEnds(Append(r, b)) = JsonEnds(r) \cup {Len(r) + 1}
    PROVE  Gives(Append(d, l), Append(r, b))
  <1> DEFINE n == Len(d)
             a == Append(r, b)
             e == Append(d, l)
  <1>1. n \in Nat /\ Len(r) \in Nat
    OBVIOUS
  <1>2. DOMAIN d = 1 .. n /\ \A k \in 1 .. n : d[k] \in Seq(Chars)
    OBVIOUS
  <1>3. \A i \in JsonEnds(r) : i \in 1 .. Len(r)
    BY DEF JsonEnds
  <1>4. PICK end \in [DOMAIN d -> JsonEnds(r)] :
               /\ Lists(end, JsonEnds(r))
               /\ \A k \in DOMAIN d : Spells(d[k], r, LineBefore(r, end[k]))
    BY DEF Gives
  <1>5. DOMAIN e = 1 .. n + 1 /\ e[n + 1] = l /\ \A k \in 1 .. n : e[k] = d[k]
    OBVIOUS
  <1>6. end \in [1 .. n -> JsonEnds(r)]
    BY <1>2
  <1> DEFINE g == [i \in 1 .. n + 1 |-> IF i = n + 1 THEN Len(r) + 1 ELSE end[i]]
  <1>7. g \in [1 .. n + 1 -> JsonEnds(a)] /\ Lists(g, JsonEnds(a))
    <2>1. JsonEnds(r) \subseteq Nat /\ (\A s \in JsonEnds(r) : s < Len(r) + 1) /\ Len(r) + 1 \in Nat
      BY <1>1, <1>3
    <2>2. Lists(end, JsonEnds(r))
      BY <1>4
    <2> DEFINE J == JsonEnds(r)
               m == Len(r) + 1
    <2>3. J \subseteq Nat /\ (\A s \in J : s < m) /\ m \in Nat /\ end \in [1 .. n -> J] /\ Lists(end, J)
      BY <1>6, <2>1, <2>2
    <2>4. g = [i \in 1 .. n + 1 |-> IF i = n + 1 THEN m ELSE end[i]] /\ JsonEnds(a) = J \cup {m}
      OBVIOUS
    <2> HIDE DEF n, e, J, m, g, a
    <2>5. g \in [1 .. n + 1 -> J \cup {m}] /\ Lists(g, J \cup {m})
      BY <1>1, <2>3, <2>4, ListsNext
    <2> QED  BY <2>4, <2>5
  <1>8. n + 1 \notin 1 .. n /\ \A m : m \in 1 .. n + 1 <=> m \in 1 .. n \/ m = n + 1
    BY <1>1
  <1>9. g[n + 1] = Len(r) + 1 /\ \A m \in 1 .. n : g[m] = end[m]
    BY <1>8
  <1>10. ASSUME NEW k \in 1 .. n
        PROVE  Spells(d[k], a, LineBefore(a, end[k]))
    <2>1. end[k] \in 1 .. Len(r) + 1 /\ d[k] \in Seq(Chars)
      <3>1. end[k] \in 1 .. Len(r) /\ d[k] \in Seq(Chars)
        BY <1>2, <1>3, <1>6
      <3> QED  BY <1>1, <3>1
    <2>2. LineBefore(r, end[k]) \subseteq 1 .. Len(r)
      BY <2>1, LineBeforeRange
    <2>3. Spells(d[k], r, LineBefore(r, end[k]))
      BY <1>4, <1>2
    <2>4. Spells(d[k], a, LineBefore(r, end[k]))
      BY <2>1, <2>2, <2>3, SpellsKept
    <2> QED  BY <2>1, <2>4, LineBeforeKept
  <1>11. Spells(l, a, LineBefore(a, Len(r) + 1))
    <2>1. Len(r) + 1 \in 1 .. Len(r) + 1
      BY <1>1
    <2>2. Spells(l, a, LineBefore(r, Len(r) + 1))
      BY <2>1, LineBeforeRange, SpellsKept
    <2> QED  BY <2>1, <2>2, LineBeforeKept
  <1> HIDE DEF g, a, e, n
  <1>12. \A k \in 1 .. n + 1 : Spells(e[k], a, LineBefore(a, g[k]))
    BY <1>5, <1>8, <1>9, <1>10, <1>11
  <1>13. Gives(e, a)
    BY <1>5, <1>7, <1>12 DEF Gives
  <1> QED  BY <1>13 DEF a, e

-----------------------------------------------------------------------------
(* The invariant of the reader's text. *)

TextOK == /\ pipe \in Seq(Chars) /\ read \in Seq(Chars)
          /\ line \in Seq(Chars) /\ delivered \in Seq(Seq(Chars))

\* The reader's line is what it has read since the last newline: were it kept over a line
\* that is no JSON, or cleared in the middle of one, the next line would be another.
LineShape == Spells(line, read, LineBefore(read, Len(read) + 1))

\* After a stranger's byte the reader reads no more, and its line no longer matters.
TextInv == TextOK /\ (strange = 0 => LineShape) /\ LinesDelivered

\* Of no text there is no line.
LEMMA NoText ==
    /\ Spells(<<>>, <<>>, LineBefore(<<>>, Len(<<>>) + 1))
    /\ Gives(<<>>, <<>>)
  <1> DEFINE f == [i \in {} |-> i]
  <1>1. LineBefore(<<>>, Len(<<>>) + 1) = {} /\ JsonEnds(<<>>) = {} /\ DOMAIN <<>> = {}
    BY DEF LineBefore, JsonEnds
  <1>2. f \in [{} -> {}] /\ Lists(f, {})
    BY DEF Lists
  <1> QED  BY <1>1, <1>2 DEF Spells, Gives

\* Nothing is spelt at no places.
LEMMA SpellsNothing == \A r : Spells(<<>>, r, {})
  <1> DEFINE f == [i \in {} |-> i]
  <1>1. f \in [{} -> {}] /\ Lists(f, {})
    BY DEF Lists
  <1>2. DOMAIN <<>> = {}
    OBVIOUS
  <1> QED  BY <1>1, <1>2 DEF Spells

\* A byte of the child keeps all three.
LEMMA TakeStep ==
    ASSUME TextInv, strange = 0, UNCHANGED strange, pipe' \in Seq(Chars),
           NEW byte \in Chars, read' = Append(read, byte), Take(byte)
    PROVE  TextInv'
  <1> DEFINE S == LineBefore(read, Len(read) + 1)
  <1>1. /\ read \in Seq(Chars) /\ line \in Seq(Chars) /\ delivered \in Seq(Seq(Chars))
        /\ Spells(line, read, S) /\ Gives(delivered, read)
    BY DEF TextInv, TextOK, LineShape, LinesDelivered
  <1>2. read' = Append(read, byte) /\ Len(read') = Len(read) + 1 /\ Len(read) \in Nat
    BY <1>1
  <1>3. S \subseteq 1 .. Len(read)
    <2>1. Len(read) + 1 \in 1 .. Len(read) + 1
      BY <1>2
    <2> QED  BY <1>1, <2>1, LineBeforeRange
  <1>4. (line # <<>> <=> S # {}) /\ (WellFormed(line) <=> \A j \in S : read[j] = "j")
    BY <1>1, SpellsForm
  <1>5. LineBefore(read', Len(read') + 1) =
          IF byte = "n" THEN {} ELSE S \cup (IF byte = "r" THEN {} ELSE {Len(read) + 1})
    <2>1. Len(read') + 1 = Len(read) + 2
      BY <1>2
    <2> QED  BY <1>1, <1>2, <2>1, LineBeforeNext
  <1>6. JsonEnds(read') = JsonEnds(read) \cup
          (IF byte = "n" /\ line # <<>> /\ WellFormed(line) THEN {Len(read) + 1} ELSE {})
    BY <1>1, <1>2, <1>4, JsonEndsNext
  <1> HIDE DEF S
  <1>7. read' \in Seq(Chars) /\ line' \in Seq(Chars) /\ delivered' \in Seq(Seq(Chars))
    <2>1. read' \in Seq(Chars)
      BY <1>1, <1>2
    <2>2. line' = <<>> \/ line' = line \/ line' = Append(line, byte)
      BY DEF Take
    <2>3. <<>> \in Seq(Chars) /\ Append(line, byte) \in Seq(Chars)
      BY <1>1
    <2>4. delivered' = delivered \/ delivered' = Append(delivered, line)
      BY DEF Take
    <2>5. Append(delivered, line) \in Seq(Seq(Chars))
      BY <1>1
    <2> QED  BY <1>1, <2>1, <2>2, <2>3, <2>4, <2>5
  <1>8. Spells(line', read', LineBefore(read', Len(read') + 1))
    <2>1. CASE byte = "n"
      <3>1. line' = <<>>
        BY <2>1 DEF Take
      <3> QED  BY <1>5, <2>1, <3>1, SpellsNothing
    <2>2. CASE byte = "r"
      <3>1. line' = line
        BY <2>2 DEF Take
      <3> QED  BY <1>1, <1>2, <1>3, <1>5, <2>2, <3>1, SpellsKept
    <2>3. CASE byte \notin {"n", "r"}
      <3>1. line' = Append(line, byte)
        BY <2>3 DEF Take
      <3>2. LineBefore(read', Len(read') + 1) = S \cup {Len(read) + 1}
        BY <1>5, <2>3
      <3>3. Spells(Append(line, byte), Append(read, byte), S \cup {Len(read) + 1})
        BY <1>1, <1>3, SpellsNext
      <3> QED  BY <1>2, <3>1, <3>2, <3>3
    <2> QED  BY <2>1, <2>2, <2>3
  <1>9. Gives(delivered', read')
    <2>1. CASE byte = "n" /\ line # <<>> /\ WellFormed(line)
      <3>1. delivered' = Append(delivered, line)
        BY <2>1 DEF Take
      <3>2. JsonEnds(Append(read, byte)) = JsonEnds(read) \cup {Len(read) + 1}
        BY <1>2, <1>6, <2>1
      <3> QED  BY <1>1, <1>2, <3>1, <3>2, GivesNext DEF S
    <2>2. CASE ~ (byte = "n" /\ line # <<>> /\ WellFormed(line))
      <3>1. delivered' = delivered
        BY <2>2 DEF Take
      <3>2. JsonEnds(Append(read, byte)) = JsonEnds(read)
        BY <1>2, <1>6, <2>2
      <3> QED  BY <1>1, <1>2, <3>1, <3>2, GivesKept
    <2> QED  BY <2>1, <2>2
  <1> QED  BY <1>7, <1>8, <1>9 DEF TextInv, TextOK, LineShape, LinesDelivered

\* A stranger's byte may end the line the child has begun.
LEMMA StrangeStep ==
    ASSUME TextInv, strange = 0, strange' = 1, UNCHANGED <<read, pipe>>,
           NEW byte \in Chars, Take(byte)
    PROVE  TextInv'
  <1> DEFINE S == LineBefore(read, Len(read) + 1)
  <1>1. /\ read \in Seq(Chars) /\ line \in Seq(Chars) /\ delivered \in Seq(Seq(Chars))
        /\ Spells(line, read, S) /\ Gives(delivered, read)
    BY DEF TextInv, TextOK, LineShape, LinesDelivered
  <1>2. line # <<>> <=> S # {}
    BY <1>1, SpellsForm
  <1>3. CASE byte = "n" /\ line # <<>> /\ WellFormed(line)
    <2> DEFINE e == Append(delivered, line)
    <2>1. delivered' = e /\ line' = <<>>
      BY <1>3 DEF Take
    <2>2. e \in Seq(Seq(Chars)) /\ e # <<>> /\ e[Len(e)] = line
      BY <1>1
    <2>3. SubSeq(e, 1, Len(e) - 1) = delivered
      BY <1>1
    <2> HIDE DEF e
    <2>4. GivesBegun(e, read)
      BY <1>1, <1>2, <1>3, <2>2, <2>3 DEF GivesBegun
    <2>5. TextOK'
      BY <2>1, <2>2 DEF TextInv, TextOK
    <2> QED  BY <2>1, <2>4, <2>5 DEF TextInv, LinesDelivered
  <1>4. CASE ~ (byte = "n" /\ line # <<>> /\ WellFormed(line))
    <2>1. delivered' = delivered /\ (line' = <<>> \/ line' = line \/ line' = Append(line, byte))
      BY <1>4 DEF Take
    <2>2. line' \in Seq(Chars)
      <3>1. <<>> \in Seq(Chars) /\ Append(line, byte) \in Seq(Chars)
        BY <1>1
      <3> QED  BY <1>1, <2>1, <3>1
    <2>3. TextOK'
      BY <2>1, <2>2 DEF TextInv, TextOK
    <2> QED  BY <1>1, <2>1, <2>3 DEF TextInv, LinesDelivered
  <1> QED  BY <1>3, <1>4

\* Only the reader's bytes and its start touch its text.
LEMMA TextStep == StrayShape /\ TextInv /\ [Next]_vars => TextInv'
  <1> SUFFICES ASSUME StrayShape, TextInv, [Next]_vars PROVE TextInv'
    OBVIOUS
  <1>1. TextOK
    BY DEF TextInv
  <1>2. ASSUME text' = text, pipe' \in Seq(Chars)
        PROVE  TextInv'
    BY <1>2 DEF TextInv, TextOK, LineShape, LinesDelivered, text
  <1>3. CASE UNCHANGED <<text, pipe>>
    BY <1>1, <1>2, <1>3 DEF TextOK
  <1>4. CASE Spawn
    <2>1. line' = <<>> /\ read' = <<>> /\ strange' = 0 /\ delivered' = <<>> /\ pipe' = pipe
      BY <1>4 DEF Spawn
    <2>2. TextOK'
      BY <1>1, <2>1 DEF TextOK
    <2>3. LineShape' /\ Gives(delivered', read')
      BY <2>1, NoText DEF LineShape
    <2> QED  BY <2>1, <2>2, <2>3 DEF TextInv, LinesDelivered
  <1>5. CASE ReadByte
    <2>1. Head(pipe) \in Chars /\ Tail(pipe) \in Seq(Chars)
      BY <1>1, <1>5 DEF TextOK, ReadByte
    <2>2. strange = 0
      BY <1>5 DEF StrayShape, ReadByte
    <2> QED  BY <1>5, <2>1, <2>2, TakeStep DEF ReadByte
  <1>6. CASE ReadStranger
    <2>1. UNCHANGED pipe
      BY <1>6 DEF ReadStranger
    <2>2. CASE strange' = strange + 1 /\ UNCHANGED read /\ \E byte \in Chars : Take(byte)
      <3>1. strange = 0
        BY <1>6 DEF StrayShape, ReadStranger
      <3> QED  BY <2>1, <2>2, <3>1, StrangeStep
    <2>3. CASE UNCHANGED text
      BY <1>3, <2>1, <2>3
    <2> QED  BY <1>6, <2>2, <2>3 DEF ReadStranger
  <1>7. CASE ChildWrites
    <2>1. pipe' \in Seq(Chars) /\ UNCHANGED text
      BY <1>1, <1>7 DEF ChildWrites, TextOK
    <2> QED  BY <1>2, <2>1
  <1>8. CASE UNCHANGED vars
    BY <1>3, <1>8 DEF vars
  <1>9. CASE Start \/ Wait \/ Join \/ Loop \/ Resolve \/ ReadEnd \/ ReadFails \/ End \/ Return
    BY <1>3, <1>9 DEF Start, Wait, Join, Loop, Resolve, ReadEnd, ReadFails, End, Return
  <1>10. ASSUME NEW t \in Threads,
               \/ Stop(t) \/ Send(t) \/ Close(t) \/ Kill(t) \/ Reap(t) \/ ReapFails(t)
               \/ Lock(t) \/ Write(t) \/ Writing(t) \/ WriteFails(t)
         PROVE  TextInv'
    BY <1>3, <1>10 DEF Stop, Send, Close, Kill, Reap, ReapFails, Lock, Write, Writing, WriteFails
  <1>11. CASE ChildReads \/ ChildHangsUp \/ ChildExits \/ Reuse
    BY <1>3, <1>11 DEF ChildReads, ChildHangsUp, ChildExits, Reuse
  <1> QED
    BY <1>4, <1>5, <1>6, <1>7, <1>8, <1>9, <1>10, <1>11 DEF Next, ReaderStep, CallStep

\* At first nothing has been read.
LEMMA TextInit == Init => TextInv
  <1> SUFFICES ASSUME Init PROVE TextInv
    OBVIOUS
  <1>1. read = <<>> /\ line = <<>> /\ strange = 0 /\ delivered = <<>> /\ pipe = <<>>
    BY DEF Init
  <1>2. TextOK
    BY <1>1 DEF TextOK
  <1>3. LineShape /\ Gives(delivered, read)
    BY <1>1, NoText DEF LineShape
  <1> QED  BY <1>1, <1>2, <1>3 DEF TextInv, LinesDelivered

-----------------------------------------------------------------------------
(* The theorems. *)

\* Before start nothing was stopped.
LEMMA InvInit == Init => IInv
  <1> SUFFICES ASSUME Init PROVE IInv
    OBVIOUS
  <1>1. pc[Owner] = "idle" /\ pc[Reader] = "none"
    BY ThreadsAssumption DEF Init, Threads
  <1>2. PlacesOK
    BY <1>1 DEF Init, PlacesOK, Threads, OwnerSteps, ReaderSteps, SendSteps, Stopping
  <1>3. FlagsOK /\ NamesOK
    BY DEF Init, FlagsOK, NamesOK
  <1>4. CloseShape /\ RestShape /\ StrayShape
    BY <1>1 DEF Init, CloseShape, RestShape, StrayShape, Threads, Stopping
  <1> QED  BY <1>2, <1>3, <1>4 DEF Init, IInv, TypeOK, StopLeavesNothing

\* Every step keeps the invariant.
LEMMA InvStep == IInv /\ [Next]_vars => IInv'
  <1> SUFFICES ASSUME IInv, [Next]_vars PROVE IInv'
    OBVIOUS
  <1>1. TypeOK'
    BY PlacesStep, FlagsStep, NamesStep DEF IInv, TypeOK
  <1>2. CloseShape' /\ RestShape' /\ StrayShape'
    BY CloseStep, RestStep, StrayStep DEF IInv
  <1>3. (asked => Settled \/ starts = 0)'
    BY LeavesNothing, AskedStep DEF IInv
  <1>4. StopLeavesNothing'
    BY <1>2, <1>3 DEF CloseShape, StopLeavesNothing, Settled, Released, BeingStopped
  <1> QED  BY <1>1, <1>2, <1>4 DEF IInv

\* The transport's members and both threads' places keep their types.
THEOREM ProcessTypeCorrect == Spec => []TypeOK
  BY InvInit, InvStep, PTL DEF Spec, IInv

(* After a stop, from any thread and however often, both pipes are closed and the child   *)
(* is reaped, when another part of the program is given the output's number, and whatever  *)
(* the child does meanwhile. Two things only can spoil it: a wait for the child that is     *)
(* interrupted leaves it told to end and not reaped, and a reader that ended by itself      *)
(* before the stop began, at the end of the output or at a read that failed, leaves all.    *)
THEOREM StopIsThorough == Spec => []StopLeavesNothing
  BY InvInit, InvStep, PTL DEF Spec, IInv

(* The callback is given exactly the lines of JSON among the child's bytes the reader has  *)
(* read, in their order, once and whole, however the child cuts its output into writes,     *)
(* and when the reader is started again. A reader on its way into read while stop closes    *)
(* the number takes one byte of somebody else's file at most, and at worst the line the     *)
(* child has begun is given as if that byte had ended it.                                   *)
THEOREM OnlyWholeLines == Spec => []LinesDelivered
  BY InvInit, InvStep, TextInit, TextStep, PTL DEF Spec, IInv, TextInv
=============================================================================
