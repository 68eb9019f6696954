-------------------------- MODULE ProcessTransport --------------------------
(***************************************************************************)
(* synapse::process_transport on POSIX: a child process between two pipes, *)
(* a thread that reads the child's lines byte by byte and runs the callback*)
(* on them, and an owner that starts, sends, stops and waits. The callback *)
(* may send and stop as well.                                              *)
(*                                                                         *)
(* read and write take a descriptor number and resolve it when they begin: *)
(* stop may have closed it in between, and another part of the program may *)
(* have been given the number since. A call that has begun keeps its pipe. *)
(* A signal handler may interrupt read, write and waitpid, and none of them*)
(* is tried again. Two threads never stop at once, and the owner destroys  *)
(* the transport by stop and wait.                                         *)
(***************************************************************************)
EXTENDS Naturals, Sequences

CONSTANTS Owner, Reader, None,
          Chars,      \* bytes: "j" of JSON, "x" of no JSON, "r" for \r, "n" for \n
          Capacity,   \* bytes the child's output pipe holds
          MaxBytes,   \* bytes the child ever writes
          MaxStarts   \* calls of start that create a thread

ASSUME ThreadsAssumption == Owner # Reader

Threads == {Owner, Reader}

VARIABLES running,    \* running_
          stopped,    \* the reader's stop token
          out,        \* what the number of stdout_fd_ names: the pipe, nothing, a stranger
          in,         \* what the number of stdin_fd_ names: the pipe or nothing
          forgotten,  \* which of the two members hold -1
          pid,        \* pid_ is positive
          child,      \* the process: alive, dying of SIGTERM, exited, or reaped
          talking,    \* the child holds its end of its output open
          pipe,       \* bytes written and not read
          stdin,      \* messages in the child's input pipe, which holds one
          alive,      \* no SIGPIPE has ended the program
          mutex,      \* who holds write_mutex_
          pc, \* where a thread is; where it goes on after a call
          line,       \* the reader's line
          read,       \* history: the child's bytes this reader has read
          strange,    \* history: how many bytes of another file it has read
          delivered,  \* history: lines it gave the callback
          written, starts,  \* counters behind the bounds
          left,       \* history: the reader ended by itself, no stop of it had begun
          interrupted,  \* history: a wait for the child was interrupted
          asked       \* history: a stop has returned

fds == <<out, in, forgotten, pid>>
process == <<child, talking, stdin>>
text == <<line, read, strange, delivered>>
counts == <<written, starts>>
history == <<left, interrupted, asked>>
vars == <<running, stopped, fds, process, pipe, alive, mutex, pc, text, counts, history>>

Go(t, to) == pc' = [pc EXCEPT ![t] = to]

\* The constructor has forked: the child runs between its pipes.
Init == /\ running = FALSE /\ stopped = FALSE
        /\ out = "pipe" /\ in = "pipe" /\ forgotten = {} /\ pid = TRUE
        /\ child = "alive" /\ talking = TRUE /\ pipe = <<>> /\ stdin = 0
        /\ alive = TRUE /\ mutex = None
        /\ pc = [t \in Threads |-> IF t = Owner THEN "idle" ELSE "none"]
        /\ line = <<>> /\ read = <<>> /\ strange = 0 /\ delivered = <<>>
        /\ written = 0 /\ starts = 0
        /\ left = FALSE /\ interrupted = FALSE /\ asked = FALSE

-----------------------------------------------------------------------------
(* start and wait, on the owner *)

Start ==
    /\ pc[Owner] = "idle" /\ ~running /\ starts < MaxStarts
    /\ running' = TRUE
    /\ starts' = starts + 1
    /\ stopped' = (pc[Reader] # "none")
    /\ left' = FALSE /\ asked' = FALSE
    /\ Go(Owner, "spawn")
    /\ UNCHANGED <<fds, process, pipe, alive, mutex, text, written, interrupted>>

\* The assignment to reader_thread_ joins a thread that ran before. The new one can
\* have run by then if that one was stopped; it would have found only -1 to read from.
\* After a read that failed it goes on in the middle of a line, with none of its bytes.
Spawn ==
    /\ pc[Owner] = "spawn" /\ pc[Reader] \in {"none", "ended"}
    /\ pc' = [pc EXCEPT ![Owner] = "idle", ![Reader] = "loop"]
    /\ stopped' = FALSE
    /\ line' = <<>> /\ read' = <<>> /\ strange' = 0 /\ delivered' = <<>>
    /\ UNCHANGED <<running, fds, process, pipe, alive, mutex, counts, history>>

Wait ==
    /\ pc[Owner] = "idle" /\ pc[Reader] # "none"
    /\ Go(Owner, "wait")
    /\ UNCHANGED <<running, stopped, fds, process, pipe, alive, mutex, text, counts, history>>

Join ==
    /\ pc[Owner] = "wait" /\ pc[Reader] = "ended"
    /\ pc' = [pc EXCEPT ![Owner] = "idle", ![Reader] = "none"]
    /\ UNCHANGED <<running, stopped, fds, process, pipe, alive, mutex, text, counts, history>>

-----------------------------------------------------------------------------
(* The reader *)

\* Variant: only the number tells of a stop.
LoopBlind ==
    /\ pc[Reader] = "loop"
    /\ Go(Reader, IF "out" \in forgotten THEN "leave" ELSE "read")
    /\ UNCHANGED <<running, stopped, fds, process, pipe, alive, mutex, text, counts, history>>

\* The loop asks for the token, then loads the number.
Loop ==
    /\ pc[Reader] = "loop"
    /\ Go(Reader, IF stopped \/ "out" \in forgotten THEN "leave" ELSE "read")
    /\ UNCHANGED <<running, stopped, fds, process, pipe, alive, mutex, text, counts, history>>

\* read resolves the number.
Resolve ==
    /\ pc[Reader] = "read"
    /\ Go(Reader, CASE out = "pipe" -> "blocked"
                    [] out = "nothing" -> "leave"
                    [] out = "stranger" -> "astray")
    /\ UNCHANGED <<running, stopped, fds, process, pipe, alive, mutex, text, counts, history>>

WellFormed(l) == \A i \in 1 .. Len(l) : l[i] = "j"

\* Variant: a line that is no JSON skips the clear.
TakeKeeping(byte) ==
    IF byte = "n" /\ line # <<>> /\ WellFormed(line)
    THEN delivered' = Append(delivered, line) /\ line' = <<>> /\ Go(Reader, "callback")
    ELSE /\ line' = IF byte \in {"n", "r"} THEN line ELSE Append(line, byte)
         /\ Go(Reader, "loop")
         /\ UNCHANGED delivered

\* A line that is no JSON is dropped in silence, an empty one without a parse.
Take(byte) ==
    IF byte = "n" /\ line # <<>> /\ WellFormed(line)
    THEN delivered' = Append(delivered, line) /\ line' = <<>> /\ Go(Reader, "callback")
    ELSE /\ line' = CASE byte = "n" -> <<>> [] byte = "r" -> line [] OTHER -> Append(line, byte)
         /\ Go(Reader, "loop")
         /\ UNCHANGED delivered

ReadByte ==
    /\ pc[Reader] = "blocked" /\ pipe # <<>>
    /\ pipe' = Tail(pipe)
    /\ read' = Append(read, Head(pipe))
    /\ Take(Head(pipe))
    /\ UNCHANGED <<running, stopped, fds, process, alive, mutex, strange, counts, history>>

\* No writer is left.
ReadEnd ==
    /\ pc[Reader] = "blocked" /\ pipe = <<>> /\ ~talking
    /\ Go(Reader, "leave")
    /\ UNCHANGED <<running, stopped, fds, process, pipe, alive, mutex, text, counts, history>>

\* A signal handler interrupts the read, or it fails otherwise: the same to the loop,
\* whatever the child does and still has to say.
ReadFails ==
    /\ pc[Reader] = "blocked"
    /\ Go(Reader, "leave")
    /\ UNCHANGED <<running, stopped, fds, process, pipe, alive, mutex, text, counts, history>>

\* Somebody else's file gives a byte or ends, or keeps the reader for good.
ReadStranger ==
    /\ pc[Reader] = "astray"
    /\ \/ /\ written < MaxBytes
          /\ written' = written + 1
          /\ strange' = strange + 1
          /\ \E byte \in Chars : Take(byte)
          /\ UNCHANGED read
       \/ Go(Reader, "leave") /\ UNCHANGED <<written, text>>
    /\ UNCHANGED <<running, stopped, fds, process, pipe, alive, mutex, starts, history>>

\* running_ = false, the reader's last act.
End ==
    /\ pc[Reader] = "leave"
    /\ running' = FALSE
    /\ left' = (left \/ ~stopped)
    /\ Go(Reader, "ended")
    /\ UNCHANGED <<stopped, fds, process, pipe, alive, mutex, text, counts, interrupted, asked>>

Return ==
    /\ pc[Reader] = "callback"
    /\ Go(Reader, "loop")
    /\ UNCHANGED <<running, stopped, fds, process, pipe, alive, mutex, text, counts, history>>

-----------------------------------------------------------------------------
(* stop, by the owner or in the callback *)

Home(t) == IF t = Owner THEN "idle" ELSE "callback"
Stopping == {"close_out", "forget_out", "close_in", "forget_in", "kill", "reap"}

\* Nothing is released of a transport whose reader has ended.
Stop(t) ==
    /\ pc[t] = Home(t)
    /\ \A u \in Threads : pc[u] \notin Stopping
    /\ IF running
       THEN stopped' = TRUE /\ Go(t, "close_out") /\ UNCHANGED asked
       ELSE asked' = TRUE /\ UNCHANGED <<stopped, pc>>
    /\ UNCHANGED <<running, fds, process, pipe, alive, mutex, text, counts, left, interrupted>>

Close(t) ==
    /\ \/ /\ pc[t] = "close_out"
          /\ IF "out" \in forgotten THEN Go(t, "close_in") /\ UNCHANGED out
             ELSE Go(t, "forget_out") /\ out' = "nothing"
          /\ UNCHANGED <<in, forgotten>>
       \/ /\ pc[t] = "forget_out"
          /\ forgotten' = forgotten \cup {"out"}
          /\ Go(t, "close_in")
          /\ UNCHANGED <<out, in>>
       \/ /\ pc[t] = "close_in"
          /\ IF "in" \in forgotten THEN Go(t, "kill") /\ UNCHANGED in
             ELSE Go(t, "forget_in") /\ in' = "nothing"
          /\ UNCHANGED <<out, forgotten>>
       \/ /\ pc[t] = "forget_in"
          /\ forgotten' = forgotten \cup {"in"}
          /\ Go(t, "kill")
          /\ UNCHANGED <<out, in>>
    /\ UNCHANGED <<running, stopped, pid, process, pipe, alive, mutex, text, counts, history>>

\* Variant: the closed pipes are trusted to end the child.
KillNot(t) ==
    /\ pc[t] = "kill"
    /\ Go(t, Home(t))
    /\ running' = FALSE
    /\ asked' = TRUE
    /\ UNCHANGED <<stopped, fds, process, pipe, alive, mutex, text, counts, left, interrupted>>

Kill(t) ==
    /\ pc[t] = "kill"
    /\ Go(t, "reap")
    /\ child' = IF pid /\ child = "alive" THEN "dying" ELSE child
    /\ UNCHANGED <<running, stopped, fds, talking, pipe, stdin, alive, mutex, text, counts, history>>

\* Variant: the child is not waited for.
ReapNot(t) ==
    /\ pc[t] = "reap"
    /\ pid' = FALSE
    /\ running' = FALSE
    /\ asked' = TRUE
    /\ Go(t, Home(t))
    /\ UNCHANGED <<stopped, out, in, forgotten, process, pipe, alive, mutex, text, counts, left, interrupted>>

\* waitpid blocks until the child is gone, or a signal handler interrupts it: nobody
\* looks at its result, and the child is forgotten without having been reaped.
ReapFails(t) ==
    /\ pc[t] = "reap" /\ pid /\ child = "dying"
    /\ interrupted' = TRUE
    /\ pid' = FALSE
    /\ running' = FALSE
    /\ asked' = TRUE
    /\ Go(t, Home(t))
    /\ UNCHANGED <<stopped, out, in, forgotten, process, pipe, alive, mutex, text, counts, left>>

Reap(t) ==
    /\ pc[t] = "reap"
    /\ pid => child = "exited"
    /\ child' = IF pid THEN "reaped" ELSE child
    /\ pid' = FALSE
    /\ running' = FALSE
    /\ asked' = TRUE
    /\ Go(t, Home(t))
    /\ UNCHANGED <<stopped, out, in, forgotten, talking, stdin, pipe, alive, mutex, text, counts, left, interrupted>>

-----------------------------------------------------------------------------
(* send, by the owner or in the callback *)

Send(t) ==
    /\ pc[t] = Home(t)
    /\ Go(t, "lock")
    /\ UNCHANGED <<running, stopped, fds, process, pipe, alive, mutex, text, counts, history>>

\* The number is loaded under the mutex, which stop does not take; -1 fails at once.
Lock(t) ==
    /\ pc[t] = "lock" /\ mutex = None
    /\ IF "in" \in forgotten THEN Go(t, Home(t)) /\ UNCHANGED mutex
       ELSE Go(t, "write") /\ mutex' = t
    /\ UNCHANGED <<running, stopped, fds, process, pipe, alive, text, counts, history>>

\* write resolves the number; nobody looks at what it returns.
Write(t) ==
    /\ pc[t] = "write"
    /\ IF in = "pipe" THEN Go(t, "writing") /\ UNCHANGED mutex
       ELSE Go(t, Home(t)) /\ mutex' = None
    /\ UNCHANGED <<running, stopped, fds, process, pipe, alive, text, counts, history>>

\* A full pipe blocks; one that nobody can read any more ends the program.
Writing(t) ==
    /\ pc[t] = "writing"
    /\ IF child \in {"exited", "reaped"} THEN alive' = FALSE /\ UNCHANGED stdin
       ELSE stdin = 0 /\ stdin' = 1 /\ UNCHANGED alive
    /\ Go(t, Home(t))
    /\ mutex' = None
    /\ UNCHANGED <<running, stopped, fds, child, talking, pipe, text, counts, history>>

\* Interrupted before a byte is written: the message is lost without a word.
WriteFails(t) ==
    /\ pc[t] = "writing"
    /\ Go(t, Home(t))
    /\ mutex' = None
    /\ UNCHANGED <<running, stopped, fds, process, pipe, alive, text, counts, history>>

-----------------------------------------------------------------------------
(* The child and the rest of the program *)

ChildWrites ==
    /\ child \in {"alive", "dying"} /\ talking /\ written < MaxBytes /\ Len(pipe) < Capacity
    /\ written' = written + 1
    /\ \E byte \in Chars : pipe' = Append(pipe, byte)
    /\ UNCHANGED <<running, stopped, fds, process, alive, mutex, pc, text, starts, history>>

ChildReads ==
    /\ child \in {"alive", "dying"} /\ stdin = 1
    /\ stdin' = 0
    /\ UNCHANGED <<running, stopped, fds, child, talking, pipe, alive, mutex, pc, text, counts, history>>

ChildHangsUp ==
    /\ child \in {"alive", "dying"} /\ talking
    /\ talking' = FALSE
    /\ UNCHANGED <<running, stopped, fds, child, pipe, stdin, alive, mutex, pc, text, counts, history>>

\* Of its own accord, or of SIGTERM.
ChildExits ==
    /\ child \in {"alive", "dying"}
    /\ child' = "exited"
    /\ talking' = FALSE
    /\ UNCHANGED <<running, stopped, fds, pipe, stdin, alive, mutex, pc, text, counts, history>>

\* Another part of the program opens a file and gets the number of the closed output. It
\* may get the input's as well: to the transport a write to it is like one that fails.
Reuse ==
    /\ out = "nothing" /\ out' = "stranger"
    /\ UNCHANGED <<running, stopped, in, forgotten, pid, process, pipe, alive, mutex, pc, text, counts, history>>

-----------------------------------------------------------------------------

ReaderStep == Loop \/ Resolve \/ ReadByte \/ ReadEnd \/ End \/ Return

CallStep(t) == Close(t) \/ Kill(t) \/ Reap(t) \/ Lock(t) \/ Write(t) \/ Writing(t)

Next == /\ alive
        /\ \/ Start \/ Spawn \/ Wait \/ Join
           \/ ReaderStep \/ ReadStranger
           \/ \E t \in Threads : Stop(t) \/ Send(t) \/ CallStep(t)
           \/ ReadFails \/ \E t \in Threads : ReapFails(t) \/ WriteFails(t)
           \/ ChildWrites \/ ChildReads \/ ChildHangsUp \/ ChildExits
           \/ Reuse

Spec == Init /\ [][Next]_vars

\* Threads run, the callback returns however often it sends, and SIGTERM ends the child.
\* Nothing needs to fail.
FairSpec ==
    /\ Spec
    /\ WF_vars(alive /\ (Spawn \/ Join))
    /\ WF_vars(alive /\ ReaderStep) /\ SF_vars(alive /\ Return)
    /\ \A t \in Threads : WF_vars(alive /\ CallStep(t))
    /\ WF_vars(alive /\ child = "dying" /\ ChildExits)

-----------------------------------------------------------------------------
(* Properties *)

\* The bytes of the line that place i would end or go on with: those after the last
\* newline before it, without carriage returns.
LineBefore(bytes, i) ==
    {j \in 1 .. i - 1 : bytes[j] # "r" /\ \A k \in j .. i - 1 : bytes[k] # "n"}

\* The newlines that end a line of JSON.
JsonEnds(bytes) ==
    {i \in 1 .. Len(bytes) :
        /\ bytes[i] = "n" /\ LineBefore(bytes, i) # {}
        /\ \A j \in LineBefore(bytes, i) : bytes[j] = "j"}

\* f lists all of S in order.
Lists(f, S) == /\ \A i, j \in DOMAIN f : i < j => f[i] < f[j]
               /\ \A s \in S : \E i \in DOMAIN f : f[i] = s

\* l consists of the bytes at the places in S, in order.
Spells(l, bytes, S) ==
    \E at \in [DOMAIN l -> S] : Lists(at, S) /\ \A m \in DOMAIN l : l[m] = bytes[at[m]]

\* The lines d are the lines of JSON of the bytes r, whole, in order and once.
Gives(d, r) ==
    \E end \in [DOMAIN d -> JsonEnds(r)] :
        /\ Lists(end, JsonEnds(r))
        /\ \A k \in DOMAIN d : Spells(d[k], r, LineBefore(r, end[k]))

\* Another file has ended the line the child had begun, and it was given too.
GivesBegun(d, r) ==
    LET begun == LineBefore(r, Len(r) + 1)
    IN  /\ d # <<>> /\ begun # {}
        /\ Gives(SubSeq(d, 1, Len(d) - 1), r)
        /\ Spells(d[Len(d)], r, begun)

(* The callback is given the child's lines that are JSON, whole, in order and once,    *)
(* whatever stands between them. The number of a closed descriptor, reused while the    *)
(* reader is on its way into read, costs one byte at most, since stop asks the reader   *)
(* to end before it closes: at worst the line the child has begun is taken for whole.   *)
LinesDelivered ==
    /\ strange <= 1
    /\ Gives(delivered, read) \/ (strange = 1 /\ GivesBegun(delivered, read))

(* After a stop no descriptor of the transport is open and the child is reaped. If the  *)
(* wait for the child was interrupted, it has been told to end, but stays a zombie.     *)
(* Nothing at all is promised of a reader that ended by itself, at the end of the        *)
(* output or at a read that failed, before a stop began, or that was never started.      *)
StopLeavesNothing ==
    asked => \/ /\ out # "pipe" /\ in # "pipe"
                /\ child = "reaped" \/ (interrupted /\ child \in {"dying", "exited"})
             \/ left
             \/ starts = 0
             \/ \E t \in Threads : pc[t] \in Stopping

(* The owner's wait comes back after a stop, although close wakes no reader: the        *)
(* child's end does, if no process of the child's own keeps its output open. Only a      *)
(* SIGPIPE may end the program first, or a reused number have sent the reader to         *)
(* somebody else's file.                                                                 *)
WaitReturnsAfterStop ==
    pc[Owner] = "wait" /\ asked
        ~> pc[Owner] # "wait" \/ ~alive \/ pc[Reader] = "astray"
=============================================================================
