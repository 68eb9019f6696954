# A TLA+ verification of synapse-mcp

synapse-mcp is a header-only C++23 library for the Model Context Protocol: a server, a client and
the transports that carry their JSON-RPC messages. Line numbers below are those of the headers in
`src/include/synapse/`.

The state of the library is small and its difficulty is in who touches it when. A server has
up to five threads in it: the owner that starts and joins it, other application threads that may
stop it, the transport's reader and writer, and the executor's worker on which handlers run. Three
mutexes, two condition variables, stop tokens and callbacks connect them. The models below keep
every critical section and every call made between two of them, and reduce messages to what tells
the properties apart.

## 1. The system

### Components

| Component | State | Operations | Modelled in |
|---|---|---|---|
| `detail/owned_executor.hpp` | bounded list `pending_`, `active_`, `stopping_`, `finished_`, one worker, one condition variable `changed_` | `enqueue`, `cancel`, `stop`, `wait`, `wait_for`, and the loop `run` | `OwnedExecutor`, abstractly `SerialQueue` |
| `server.hpp` | `state_` (configuring … stopped), `protocol_` (await_initialize … closing), `inflight_`, `executor_` | `start`, `stop`, `wait`, `wait_for`, destructor, `receive`, `notify`, `initialize`, `emit` | `Server` |
| `server.hpp`, the application | the registries `tools_`, `resources_`, `prompts_` | `register_*`, `application`, `initialize`'s capabilities | `Application`, which extends `ToolPolicy` |
| `server.hpp`, `valid_resource_uri` | none | `valid_resource_uri`, with its loops `component` and `count_groups` | `ResourceUri`, called by `UriCheck` |
| `detail/server_policy.hpp` | token bucket `tokens_`, `last_`, `clock_started_` | `consume`, `filter`; pure checks of text and frame size | `ToolPolicy`, `Application` |
| `transport.hpp` (stdio) | lifecycle flags, `reason_`, `flush_deadline_`, `queue_`, `queued_bytes_`, two workers | `start`, `send`, `stop`, `wait`, `wait_for`, `read_loop`, `frame`, `write_loop`, `publish_close` | `StdioTransport`; the scanners in `FrameScan`, the bound on a frame in `FrameBuffers` |
| `detail/stdio_posix.hpp` | descriptors and their flags, wake pipes, `stopped`, the thread's SIGPIPE | `open`, destructor, `read_some`, `write_some`, `request_stop`, `cancel_pending` | `PosixIo` |
| `detail/stdio_windows.hpp` | handles, a thread handle and a flag per direction, `stopped` | the same | `WindowsIo` |
| `client.hpp` | `next_id_`, `promises_`, `request_handler_`, detached threads | `send_request`, `handle_message`, `set_request_handler` | `Client` |
| `protocol.hpp` | none | conversions of messages, errors and identifiers | `RequestId`, `MessageDecoder`, `Carried` in `Client` |
| `detail/message_decoder.hpp` | none | classification of one JSON value | `MessageDecoder` |
| `detail/schema_validator.hpp` | resources, anchors, dialects and a work list while compiling | `compile_schema`, `validate` | `SchemaRegistration` (not `validate`) |
| `process_transport.hpp` | two descriptors, `pid_`, `running_`, one reader | `start`, `send`, `stop`, `wait`, destructor | `ProcessTransport` (POSIX) |
| `sse_transport.hpp` | none of its own | forwarding between two callbacks | not modelled |
| `server_options.hpp`, `handlers.hpp`, `errors.hpp`, `mcp.hpp`, `nlohmann/json.hpp` | — | plain types, vendored parser | not modelled |

### How they interact

* The transport's **reader** calls the server's `receive` for each message, and the first transport
  worker to leave calls the close callback, which calls `server::stop`.
* `receive` answers pings, initialization and errors itself, under the server's mutex, with `emit`,
  which calls `transport.send`. An application method becomes an *operation* in `inflight_` and an
  invocation of the **executor**, which is called outside the mutex.
* The invocation's captures share a *completion*; its destructor takes the operation out of
  `inflight_`, on whichever thread destroys the last owner.
* `stop` runs on any thread, callbacks included. It flags every operation, stops the executor
  (which gives back what was pending to the calling thread) and stops the transport.
* `wait` runs on the owner: transport first, then executor, then `stopped`.
* The executor's worker and every thread that joins it sleep on one condition variable;
  `enqueue` notifies one of them, `stop` and the end of the worker notify all.
* The transport's workers call **native I/O**, a `posix_stdio` or a `windows_stdio`, with a stop token
  each; `begin_close` and the joiner cancel it from other threads.
* The worker runs `application` on **registries** that are written only while the server is being
  configured, and passes whatever a handler produced through the **policy**.
* The **process transport** stands alone: one thread reads the child's lines and runs the client's
  callback on them.

### What is hard

Cancellation, stop and reply racing for one operation; stop during start; a close callback that
re-enters stop; objects destroyed on unexpected threads; an identifier with two integer
representations; a writer that must flush within a budget while the peer does not read; a
cancellation that comes before the native call it is meant for; a wake byte that is drained while
another is on its way; a thread handle that outlives its call; a descriptor that is closed and reused
under the reader; a work list that grows while it is worked off; a clock the program supplies. The
full list, at its lines, is `hazards` in `PROJECT.json`.

### What makes each component correct

* **Executor**: it is a bounded serial queue; ids in flight are distinct; a stop request goes to the
  invocation it was meant for and reaches the one that is active; captures outlive their call and die
  once; nobody sleeps through a reason to run; a successful wait means nothing runs.
* **Server**: every accepted call is answered at most once and, unless it is cancelled or the session
  ends, at least once; nothing is answered after a cancellation; the lifecycle never goes back;
  handlers run only in a session the host was told of; executor and server agree on what is in
  flight; lost connections stop it; a wait after a stop returns and means quiescence.
* **Policy**: no window of the clock sees more handler calls than a burst and what the rate earned.
* **Transport**: the byte bound is exact; frames go out whole, in order, once; a close flushes within
  its budget and publishes one event; a wait on a closing transport returns.
* **Native I/O**: a call that is asked to end does so without the peer, none is cancelled that was not
  asked, and the process is left as it was found.
* **Client**: a future gets the answer to its own request, and gets it when there is one.
* **Application**: what a handler produced leaves whole and filtered, or not at all; what the host was
  told of the server stays true.
* **Conversions**: what is accepted is what the format's own definition accepts, and it survives a round
  trip.
* **Process transport**: the callback gets the child's lines once and in order; a stop leaves neither
  descriptors nor a child behind, or at least what it leaves behind and when is known; a wait after it
  returns.

## 2. Plan

Order of work, the behaviour with most interleavings first:

1. `RequestId`, `SerialQueue`, `OwnedExecutor` and its proofs — done.
2. `Server` over the executor's critical sections and an abstract transport, and its proofs — done.
3. `ToolPolicy` — done.
4. `StdioTransport`, with native I/O as a call that blocks, and its proofs — done.
5. `Client` and its proofs — done.
6. `NativeIo`, the promise of native I/O, `PosixIo` and `WindowsIo`, which implement it, and
   `NativePlatforms`, which chooses one; the safety part of both refinements proved — done.
7. `Application` over `ToolPolicy`, and the proofs of both — done.
8. `MessageDecoder`, `ResourceUri`, `FrameScan`, `FrameBuffers` against reference definitions, and their
   proofs — done. `SchemaRegistration`, call by call, against a condition on the graph of schemas, and
   its proofs — done.
9. `ProcessTransport` for POSIX and its proofs — done.

Every safety property that a run checks is proved; section 5 names the liveness that is left to TLC.

Abstract specifications: `SerialQueue`, implemented by `OwnedExecutor` and by what `Server` sees of it, and `NativeIo`, implemented by
`PosixIo` and `WindowsIo`. The reference definitions of the conversions play the same part for code
without state.

## 3. The modules

Conventions. A variable keeps the name of the member it stands for, without the underscore; the
module's header says what a step is. Variables commented *history* are not in the code: they record
what happened for the properties to speak of. A definition introduced by a comment that begins
*Variant* is a plausible mistake in the code it stands before; it is not part of the specification,
and each property has at least one variant that it refutes.

**RequestId** — the identifier variant `json_rpc_id` (null, string, `int64_t`, `uint64_t`) and
`same_request_id`, which compares integers by value across the two integer alternatives. A string is
a number that names it.

**SerialQueue** — what an executor promises: bounded waiting list, one runs, order of admission, at
most once, permanent closing that takes back what waits; with `Live`, whatever waits begins or is
taken back and whatever runs ends, at the latest after closing for an invocation that returns only
when it is asked to.

**OwnedExecutor** — each critical section of `mutex_` is an action, and so is what a call does after
it (`NotifyOne`, `NotifyAll`, `RequestStop`, `Unwind`), because other threads run in between. `op[t]`
is what a thread has left to do of its call, `target[t]` the stop source it copied, `held[t]` the
invocations it owns and destroys when the call returns. `parked` is the set of threads on `changed_`,
worker and joiners together. Notifying one picks any of them; spurious wake-ups and deadlines of
`wait_for` are actions of their own. The worker calls back in from a callback or a destructor.
`EarlyJoins` says which of `wait` and `wait_for` are called before `stop`.

**Server** — `pc[t]` for the five threads. `stop` is four actions (`StopLocked`, `StopExecutor`,
`StopDiscard`, `StopTransport`) that any thread may be inside and returns to `resume[t]`; `start` is
executor, transport and the final check, each of which may fail into stop and wait. `receive` is one
action per branch up to its unlock, and `Enqueue`, `AnswerRefused`, `LeaveReceive` after it.
`owners[r]` are the owners of the completion: the invocation's captures and the reader's local.
The executor appears by the critical sections the server can observe, which is what `SerialQueue`
allows (`ServerRunsASerialQueue` proves it). The transport appears by its callbacks and results: it accepts a frame or not, loses the
connection, and lets its workers leave one by one. The limit of a frame, of the writer's queue and of
text are choices of outcome in `EmitThen`.

**ToolPolicy** — the bucket in whole parts of a token (`Token` parts make one, a tick earns `Rate`),
and the order hook, bucket, schema, handler, filter of tools/call. Everything runs on one worker, so a
call is one step. `BeginWindow` is an observer that starts to count.

**StdioTransport** — flags and counters by name; what a list of frames weighs is stated by its running
totals (`Weighs`) and not by a fold, so that proofs can speak of it; `late` stands for `now >= flush_deadline_`. A native
call has three places: a last look at the stop flags, `entering`, and `blocked`; with `OneShotCancel`
a cancellation reaches only what is `blocked` (`CancelSynchronousIo`), without it the call stays
cancellable (a byte in a wake pipe). `signalling` holds the threads between `begin_close`'s unlock and
`reader_stop_.request_stop()`. A line ends in one of the outcomes of `frame`.

**Client** — one caller per `send_request`; the reader handles one message at a time; the peer's
requests run on detached threads. `TextWire` says whether messages cross as text or as JSON values.
The peer (`PeerAnswers`, `PeerCalls`) is outside the library: it answers any request it has seen, once
or again, in any order.

**NativeIo** — a caller is inside a call or not, the object is stopped or not, a call's token is requested
or not. A call ends as cancelled only if one of the two asked for it, and one that was asked ends.

**PosixIo** — a step is a system call and the code up to the next one. `wake[c]` counts the bytes in a
direction's wake pipe; `Woken` writes one, or none into a full pipe, `PollWoken`/`PollReady` return from
`poll`, `Drain` empties, `Recheck` looks at the stop flags again. `callback[c]` is the `stop_callback` of a
call: armed, running on the requesting thread, or gone; `Leave` waits for a running one. `nonblock` is the set of open file
descriptions with O_NONBLOCK, which input and output may share; `masked`, `pending` and `before` are the
writing thread's SIGPIPE, `killed` its delivery. `found` remembers how the process was.

**WindowsIo** — `thread[d]` is the caller whose duplicated handle a direction holds, `cancelled` the
directions whose token asked. `CancelSynchronousIo` reaches what is inside the native call and nothing
else (`Reached`); whoever joins repeats `CancelPending`, the destructor `CancelAgain`.

**Application** — extends `ToolPolicy` with the lifecycle as far as registration depends on it, the
session, and the registries as sets of names. A text is plain or holds a control character; the filter
may pass it, change it, reject it or throw. `produced` holds the texts of the handler that ran last and `reply` what
the host was sent. Requests are one step each, because one worker runs them.

**SchemaRegistration** — the methods of `registration` call each other and change its members under way.
A step is one call up to the next one it makes, and `agenda` is what the calls in progress have left to do,
the innermost first: `check_dialect` leaves `ToSpeak` behind when it loads a dialect and `ToPass` when it
checks that dialect's own, `inspect` leaves `ToNote` for what it reads after `$schema` and `ToInspect` for every keyword.
`resources`, `anchors`, `inspected`, `checked`, `active`, `references` and `index` are the members and the loop's
index. A world is what a program may compile: JSON objects by identity, what is written in each, which
contains which, and the catalog. Beside it stands what should be accepted, a condition on the graph of the world that
knows no order: `Closed`, everything the root leads to is there, valid, supported and of a dialect that is
`Grounded`, in the draft after finitely many dialects.

**MessageDecoder**, **ResourceUri**, **FrameScan**, **FrameBuffers** — algorithms as operators, each
beside what it should compute: `Faithful` and `AnswersWhatAsks` for the decoder; the grammar of RFC 3986, appendix A, parsed by its
alternatives with no rule on where to cut, for the URI validator, which cuts; `EventsAreDue`, lines that
are values nested at most so deep (`Values`: the places of a text that hold a value, by depth), for the reader, which counts brackets;
`EmitsWhatFits`, the length of the frame against the two limits, for `emit` and `send`, which see an
encoding piece by piece in two kinds of buffer. `MCConversions` chooses an input and calls the code once, or
chooses a world and lets the registration take its steps.

**ProcessTransport** — `pc` of the owner and the reader; `out` and `in` are what the numbers of the two
descriptors name in the kernel, `forgotten` which members say -1, so that closing and forgetting are two
steps and another part of the program may get the number in between (`Reuse`). Which lines are due is said by
places in the child's bytes that were read (`JsonEnds`, `LineBefore`, `Spells`) and not by a fold; bytes of
another file are counted apart (`strange`). A read or write that has begun keeps its pipe. The child writes,
reads, hangs up and exits as it likes, and dies of SIGTERM. `read`, `write` and `waitpid` may be interrupted by
a signal handler or fail otherwise (`ReadFails`, `WriteFails`, `ReapFails`), and the code tries none of them
again: the reader leaves its loop, the message is lost, `pid_` becomes -1 and the child is never reaped. A message
written to a number that was reused is not followed into the other file, and a write that was cut short
counts as one that was not made or as one that was.

**NativePlatforms** — `native_stdio` is one of the two classes (`native_stdio.hpp`): a behaviour opens
objects of one platform and leaves the other's variables alone, so that one run and one module of proofs
answer for both.

**MessageExchange**, **FrameExchange**, **UriCheck** — one step each around an algorithm: a peer writes a
value and `receive` decodes it; the reader is given an input, or the server a reply to emit; a resource is
called something. They carry the properties
of the algorithms as invariants, of which the theorems speak for all inputs and TLC for the bounded ones.

**Iteration** — a state taken through a sequence of steps, as a recursive function and not as an operator,
so that proofs can unfold it: the loops of `excessive_depth`, of `read_loop`, of the two buffers, and of
`component` and `count_groups`.

`MCOwnedExecutor`, `MCServer`, `MCStdioTransport`, `MCClient`, `MCApplication`, `MCNativeIo` and `MCConversions` give the constants of the runs. A module `...Proofs` holds the theorems about the
component it is named for (`StdioTransportProofs` also those about frames, `ApplicationProofs` those about
URIs; `InputProofs` is about the client, the decoder and the registration of schemas); `SharedLemmas` holds what several of them need to know of
lists, counting and loops.

### Discipline of the callers

The models take the rules that `docs/decisions/0002-runtime-ownership.md:44-59` puts on the program:
one owner starts, waits for and destroys the server; callbacks may stop but not wait or destroy;
captured state outlives the joined work. `set_request_handler` of the client may come at any time. Of
native I/O they take that a direction has one call at a time, except that on Windows a second thread
may try and is turned away, and that both are joined before the object is destroyed
(`stdio_posix.hpp:24`, `stdio_windows.hpp:29-32`). In the process transport two threads do not stop at once.

## 4. What is checked

| Run | Question | Instance |
|---|---|---|
| `OwnedExecutorSafety` | safety and the refinement of `SerialQueue`, step by step | 4 invocations (1, "1", 1u, 2), 2 callers and the worker, bound 2, one invocation that ends only when stopped |
| `OwnedExecutorLive` | liveness refinement | 2 invocations, bound 1, one that ends only when stopped |
| `OwnedExecutorEarlyJoin` | "`wait_for()` never stops work" — **violated**, see findings | 2 invocations, `wait_for` before stop |
| `ServerSafety` | protocol and lifecycle are safe | initialize, ping and two calls, bound 1, stops by another thread, by handlers, by failures |
| `ServerLive` | agreement on what is in flight; calls settle; a wait comes back | two calls, one id used again as `uint64_t`; stops by the owner, by handlers, by failures and by lost connections |
| `StdioTransport` | accounting, order, flush, one close event, a wait that returns | 3 frames of 1, 2, 2 bytes against a bound of 4, one-shot cancellation |
| `ClientValues` | pairing of futures and answers, and their resolution | 2 callers, 2 requests of the peer, JSON values |
| `ClientText` | "a response to a request we sent" — **violated**, see findings | the same over text |
| `Application` | the rate of handler calls, texts out, what the host was told | burst 2, three parts a token, two parts a tick, five ticks; prompts of two texts; with and without a filter |
| `NativeIo` | both platforms implement `NativeIo` and clean up | wake pipes of one byte, one owner, shared descriptors, two states of SIGPIPE; on Windows three threads, two of them in one direction |
| `Conversions` | five algorithms against their definitions | a root, one or two documents, an object that may name itself and one that only a pointer reaches, references and dialects among them; every wire value over codes around the width of `int`; texts of up to 5 characters and authorities of up to 8; inputs of up to 7 bytes, frames of 6, depth 1; encodings of up to four pieces of 1 to 3 bytes, limits of 1 to 5 bytes, every fill of the queue |
| `ProcessTransport` | lines, what stop leaves, waits | a child that writes 4 bytes through a pipe of one, 2 starts, any number of sends and of failing calls |

The deeper ones of the properties:

* `ImplementsQueue`, `ImplementsLiveQueue`: every interleaving of calls, notifications and spurious
  wake-ups is a behaviour of a bounded serial queue, cancellation from the middle of the list included.
* `CapturesOutliveTheirCall`: captures are owned by the list, the worker or one call, never by two.
* `NoLostWakeup`: a parked thread with a reason to run has a notification on its way.
* `InFlightCoversExecutor`, `QueueFullMeansFull`: `receive` reports every refusal of the executor as a
  full queue, which is right because the server's own list always covers the executor's ids and because
  it looks for a stop before it answers.
* `NoSilentLoss`: an operation that is gone was answered, cancelled or lost with its session.
* `JoinMeansQuiescent` (server): once the owner's wait has succeeded no thread of the library runs; what
  may remain are operations whose captures another application thread is still destroying inside stop.
* `FramesInOrder`, `CloseFlushes`, `BudgetHonoured`: what was admitted goes out whole and in order, until
  the flush budget ends or a write fails, and nothing but these cuts the writer off.
* `WaitReturns`: one cancellation may miss the native call it was meant for; the joiner repeats it.
* `ImplementsNativeIo` (POSIX) and `WindowsImplementsNativeIo`: a stop ends a call that is blocked although
  the wake is drained by one look, written to a full pipe, or comes a moment before the native call; and
  no later call is cancelled for it.
* `LeavesNoTrace`: SIGPIPE is masked and pending between writes as it was before, never delivered, and
  descriptors block again without the object, also when input and output are the same description.
* `OutputVettedWhole`, `ToldStaysTrue`: no reply carries an unfiltered text or a part of a prompt; the
  capabilities and lists stay true although registration takes a lock that the worker does not.
* `CompilesOnlyClosed`: `compile_schema` accepts a schema only if everything it leads to is there, valid and
  of a dialect that ends in the draft, and refuses none such that is `Plain`. Schemas that name themselves
  or choose a dialect inside a document may be refused depending on the order of the references, which
  the second half leaves open.
* `ReceivesWhatWasSent`: a message that was accepted is written as the text it was read from; a code that
  no `int` holds is refused and not cut; a value that was refused is answered where JSON-RPC wants an answer.
* `StopLeavesNothing`: the exceptions it names are the point. When the reader has ended by itself before
  stop began, the child is neither told to end nor reaped nor are its descriptors closed, because `stop` looks
  at `running_`, which the reader has cleared (`process_transport.hpp:159-164`): at the end of the child's output,
  and also at a read that failed, with the child alive (line 140). When the `waitpid` of line 174 is interrupted,
  the descriptors are closed and the child has been told to end, but nobody will ever reap it.
* `LinesDelivered`: over the child's own bytes. The reader loads the number, stop closes it and another file is
  given it before `read` resolves it: then one byte of that file gets into the text, and if it is a newline, the
  line the child had begun is given as whole. The property says that this is all that can happen, because
  `stop` tells the reader's token before it closes and the loop asks the token before it reads
  (`LoopBlind`, the mutant that does not, takes two).

### Bounds, and why they are enough

Requests, frames, callers and ticks are finite sets; nothing else is cut. Executor: with a bound of 2 the
list is empty, partial and full, an element can be spliced out of its middle, and four ids are enough for
every pair of representations to collide or not. Server: a bound of 1 and two calls make the queue
empty, full and refusing while one call is active; a third call adds a repetition of these cases
only. Transport: frames of 1 and 2 bytes against 4 make the bound exact, missed by one and passed, and
a frame of 2 bytes can be written in parts. Client: two callers are
enough to confuse two identifiers. Policy: three parts a token and two a tick make refills that do not
divide a token; five ticks refill the bucket from empty and overfill it. Prompts of two texts have a
first and a last. Native I/O: a pipe of one byte is full after one wake, so that a second cause finds it
full; two Windows callers in a direction make one call follow on another's unfinished clean-up. Schemas:
a root and two documents give cycles through references, dialects, embedded identifiers and pointers; a chain of
three would repeat them. Decoder: an `int` of three bits (`MaxCode` = 3) and codes on both sides of
its range. URIs: addresses of three groups (`Groups`) in place of eight keep every rule about counting and
compression. Frames: six bytes and depth 1 pass both limits by one. Process: four bytes make two lines,
or one and a begun one, or a dropped one between.

`CHECK_DEADLOCK FALSE` is set where the system may stop: a stdio transport whose frames are all
sent and whose peer is silent, or that has closed and been joined; a client with nothing left to send or
whose process has ended; an algorithm that has returned; a process transport whose program was ended by a SIGPIPE
or has done all it was given to do; a registration that has accepted or refused.

### Fairness, and why the code justifies it

* A runnable thread takes its next step: weak fairness of the worker's loop, of what a call does after its
  critical section, of the stages of start, stop and wait. Mutexes are held briefly and never across a
  blocking call.
* A callback or a destructor makes finitely many calls and returns: strong fairness of the return in
  `OwnedExecutor`, since each call takes the worker away from it and back. Invocations in `UntilStopped`
  return only once their token is set. In `Server` handlers return.
* A deadline passes (`TimeOut`, `FlushBudgetEnds`). A native call that a cancellation has reached returns.
* In `PosixIo` `poll` must return only when the wake pipe is readable; in `WindowsIo` a native call must
  return only when it was reached, and `cancel_pending` is called again and again, as
  `stdio_transport::join_until` does every millisecond and the destructor does itself.
* In `ProcessTransport` threads go on, the callback returns however often it sends (strong fairness of the
  return, since each send takes the reader away from it and back), and SIGTERM ends the child, as `waitpid` in `stop`
  relies on. Nothing has to fail. The end of the child is the end of its output: a process that the child has
  started and that keeps the output open would keep the reader as well. `WaitReturnsAfterStop` excepts what the
  code cannot prevent: the program's end by SIGPIPE, and a reader that a reused number has sent to another
  file.
* In `ServerLive` the owner stops the server or not; stops by other application threads are in
  `ServerSafety`, since they multiply the states and add no fairness of their own.
* No call, message, stop, notification without cause, lost connection or failure has to happen, and a peer
  need neither read nor write. Only in `ClientValues` does the peer answer, since nothing else could
  resolve a future.

## 5. What is proved

TLAPS proofs hold for every value of the constants that satisfies the assumptions of the modules.

**OwnedExecutorProofs.** The invariant `IInv` is

* `TypeOK`;
* `LoopShape` — what `current` and `active_` are at each point of `run`;
* `ShutdownShape` — `stopping_` empties the list, comes before the worker leaves, and `finished_` says
  that it has;
* `TargetShape` — a stop source held by a call belongs to an invocation whose stop was asked for;
* `CallShape` — the worker is inside a call only in a callback or a destructor, parked only in its wait or in a
  join, and threads that join have stopped the executor unless `EarlyJoins` says otherwise.

None of the properties is inductive alone: quiescence after a join needs that `finished_` implies the
end of the loop and an empty list, and a reached stop needs that a call still holds the source it copied.
From `IInv`: `TypeCorrect`, `JoinIsQuiescent`, `StopsAreAsked`. With one more step lemma each:
`IdsDistinct`, `StopIsNotMissed`, and `WakeupsArrive`, which assumes that no thread joins before stop
(without the assumption it is false, as the run `OwnedExecutorEarlyJoin` shows). `CapturesAreSafe` adds
`HomeShape`: the list has an invocation once and never the one the worker has, and every place holds
only what `enqueue` has seen, so that a new invocation cannot be in one already. `Refinement` proves
`ImplementsQueue`: every step maps to a step of `SerialQueue` or to a stutter; `RemoveAtElements` of
`SharedLemmas` says what the splice out of the list does.

**ServerProofs.** The invariant `IInv` is

* `TypeOK`, in parts: server, executor, transport, threads, locals, history;
* `Control` — `ResumeShape`: only a thread inside `stop` has a place to return to, and the owner, the
  reader and the worker return to few; `BirthShape`: the SDK's threads do not exist before `start` made
  them, and it makes them once;
* `OperationShape` — what is in flight, cancelled, queued, invoked or offered to the executor was accepted,
  and what was accepted was received;
* `AnswerShape` — an operation without an answer is in one place only: in the queue once, at the worker,
  or with the reader that offers it.

`AnsweredAtMostOnce` is not inductive: that the worker's reply is the first answer needs that neither the
queue nor the reader still has the operation. `ControlMove` and `PlaceMove` say once what a single
thread's move means for the whole, and `QuietKeeps` what a step must leave alone, so that each action
needs only its own case. `AnswerStep` concludes that an answer is the first, for an operation not
cancelled, from a server that serves; `ServerAnswersOnce` and `ServerNeverLate` follow. `ServerLifecycle`
follows step by step. `ServerSessionAnswered` adds `SessionShape`: between initialize and its
notification the host has the result, or the reader is about to stop the server, or it is stopped.

The rest of the server's invariants are one argument about custody, `CustodyInv`, which adds to `IInv`

* `StopShape`, `LifeShape`, `JoinShape` — what is closed when a thread is past each stage of `stop`,
  `start` and `wait`;
* `HandShape`, `PlaceShape` — a thread that destroys captures holds some, and what is queued, running,
  offered or being destroyed is in one of these places;
* `CustodyShape` — an operation is in flight exactly while its completion has an owner: the invocation's
  captures where the invocation is, and the reader's local where the reader is;
* `IdShape` — ids in flight are apart, also while the reader is between flagging a cancellation and
  asking the executor for it, where the id could otherwise mean another invocation (`server.hpp:433`);
* `RefusalShape` — why the executor refused, as long as the reader has not reported it;
* `SettledShape` — an accepted operation still has its captures, or a refusal to report, or was answered,
  cancelled or lost with the session.

`ServerCoversExecutor`, `ServerTellsFullness`, `ServerLosesNothing` and `ServerJoinsAll` are read off it.
None stands without the others: a refusal means a full queue only because ids in flight cover the
executor's, they cover them only because captures keep their completion, and a wait finds nobody inside
the library only because `stop` has emptied the queue before the worker leaves.

`ServerStopsBeforeJoin` says that the owner waits for the executor's thread only once the server has asked it
to stop, the discipline without which `wait` of the executor would never come back. It is not inductive:
`ReachShape` adds that an executor that runs has an open transport before it, or a start that is about to
stop it, or a worker of the transport that has claimed the close and is on its way into `stop`.

`ServerRunsASerialQueue` closes the gap between the two modules: with `waiting` the server's `queue`,
`running` its `active` and as admitted what `accepted` has and no refusal names, less what the reader still
offers, every step of the server is a step of `SerialQueue` or a stutter, over `CustodyInv`. So the executor
that `Server` is verified with promises what `OwnedExecutor` is proved to keep.

**ApplicationProofs.** For the bucket, `BucketInv` adds two facts to `TypeOK`: the clock the bucket
remembers is the latest it ever saw, and `handled * Token + tokens <= Full + (latest - since) * Rate`,
which is the rate bound with the tokens that are left. `BucketTypeCorrect` and `RateIsBounded` follow, for every burst, rate
and clock. `ApplicationKeepsPolicy` proves `AppSpec => Spec`, that the application is an implementation
of the policy, and `ApplicationRateIsBounded` carries the bound over. `AppInv` is `SessionShape` — the
registries are frozen before a session begins, and lists are read only in one —
with `ToldStaysTrue` and `OutputVettedWhole`; the first is not inductive without it, because
registration writes what `ToldStaysTrue` compares.

The second half of the module is about URIs. The validator cuts a text where a delimiter first occurs, the
grammar anywhere, and the argument is why that makes no difference.

* `ComponentIs`: the loop over characters accepts a text exactly if each character is allowed or opens an
  escape. Its invariant is that the characters to be skipped are the place inside an escape.
* `FirstCut`: if no text that may stand before a delimiter contains it, only the first one can be the cut.
  It is used for `:`, `#`, `?` and `@`, and for the `.` of a future address, each time with a lemma that what comes before
  has other characters only (`IpV6Tidy`, `HostPortTidy`, ...). `HierarchyIs` is the same for the slash after the authority.
* `CountIs`: `count_groups` finds the number of groups for which there is a reading. `CountSound` is the
  loop's invariant: the groups so far end where the next one begins, and every reading of the whole goes on
  from there.
* `IpV6Is`: two colons in a row are where the compression is, because no reading of groups holds a pair
  of them or ends in a colon (`PiecesTidy`).
* `AcceptsAbsoluteUris` puts the parts together and states `UriIsRfc3986` for texts of any length and any
  number of groups.

**StdioTransportProofs.** `IInv` is `TypeOK` with

* `LifecycleShape`, `WorkerShape`, `CloseShape` — a transport that was neither started nor stopped is
  untouched, a closing one that runs has a reason, workers move only after a start that succeeded, the writer holds a frame
  exactly while it writes, and nobody leaves a transport that is open;
* `Accounts` — `AccountingExact` with running totals that never rise, from which the first frame of the
  queue is seen to fit into what is counted;
* the properties `FramesInOrder`, `CloseFlushes`, `BudgetHonoured` and `OneCloseEvent` themselves.

Each conjunct has one lemma about a step. `outbound` and `writing` change in few ways (`Admits`, `Takes`,
`Writes`, ...), so that one fact deals with most of the actions. `TransportTypeCorrect`
includes that `queued_bytes_` never passes its bound, so that `max_outbound - queued_bytes_` in `send` does
not wrap.

The second half of the module is about frames. A loop is an `Iterate`; `IterateUnfolds` of `SharedLemmas` gives its steps; it is proved by joining the
finite beginnings of the loop. `Counting` and `CountingFrom`, also there, stand in for an induction rule: a set of
numbers that has the first and with each the next has all, because its complement would have a least.

* `RepliesWithinLimits`: `counting_buffer`, which takes a part of a piece, and `bounded_buffer`, which takes
  none of it, both say after every piece whether the sum so far is within the limit (`CountStaysExact`,
  `BoundStaysExact`).
* `InputsWithinLimits`, first the scan: `DepthIsCounted` says by induction on d that over a value nested
  at most d deep the scan goes from k back to k and the value was nested at most `MaxDepth - k` deep, or that
  k + d is too much and the scan is in excess. Its parts are a lemma each for numbers, strings (whose
  invariant is which backslashes escape), lists (value by value, from comma to comma) and arrays.
  `DepthWithinLength` adds that a text that parses at all is nested at most as deep as it is long.
  `FrameIsDue` puts them together: within both limits a message, beyond the depth a limit.
* then the reader: `Told` is the invariant of `read_loop` after n bytes. The line that is kept begins behind
  the last newline and is not too long, and the events so far are those of the lines that end before it
  (`Covers`); or the limit has been told, and then everything that is due has been.
* `LimitsHold` is `FramesWithinLimits` for every set of inputs and replies.

**NativeIoProofs.** POSIX: `IInv` is `TypeOK`, `TokenShape` (a token and its callback end with their call, and a
token that is not requested has its callback armed), `ResultShape` (a call that reports a cancellation was asked), `SignalShape` (what the writer's
SIGPIPE is between the guard's steps), `FlagShape` (which descriptions have O_NONBLOCK while the object is
open) and `WakeIsPending`. Windows: `WInv` is `WTypeOK`, `HandleShape` (a direction holds the handle of the call that
registered it), `WTokenShape`, `CancelShape` (a flag or an abort belongs to the call it was meant for),
`LifeShape` (once the destructor has begun no call can still register) and `ClosedMeansReleased`. From them the
four invariants of the run and `PosixRefinement` and `WindowsRefinement`: each step of the class is a step
of `NativeIo` or leaves its variables alone, so that `NativeIo`'s `SafeSpec` holds. The fair half of
`NativeIo`'s `Spec` is TLC's. `PlatformsAreApart` says that the theorems, each about one class, hold of
the composition that the run checks.

**InputProofs, the client.** `IInv` is `TypeShape`, `NumberShape` (each request that has begun has a number of its
own, below `next_id_`), `PromiseShape` (a promise is in the map under its request's number), `WireShape` (a
message about a request carries that number, whatever its representation), `AnswerShape` (the promise the reader
has taken belongs to the request that the answer is for) and `OwnAnswer`. It holds over text as well as over values. `ClientTypeCorrect` adds
that `next_id_` counts the requests that have begun, which is why the set of requests is finite there.

**InputProofs, the decoder.** `DecoderIsFaithful` is about `MessageExchange`: for all ids, codes and contents a peer may use, also
integers no width holds, a value that `decode_message` accepts is written back member by member as it came, and one
it refuses is answered as `AnswersWhatAsks` says. It assumes that integers in unsigned form are not
negative (`IdsAssumption`, `CodesAssumption`) and that the marks for a member that is absent or of a wrong
type are no values (`AbsentAssumption`).

**InputProofs, the schemas.** For every set of worlds that is well-formed and every number of documents,
objects and names. What makes the invariants hold is the agenda: what is not known yet is due, and what
is due comes in the right order.

* `RegInv`: `ResourceShape` (a name stands for what it may mean, its base is a name of the same object, and
  the object has been looked into or is due), `PlaceShape` and `KeyShape` (what the tasks are about is there), `ObjectShape` (an
  object that was looked into is valid, and its keywords, its dialect, its anchors and references are known or due),
  `AnchorShape` (a known anchor is written within the resource of its base), `DialectShape` (a dialect that has passed
  comes to the draft, and one that is about to pass waits behind its own), `ReferenceShape` (references
  that the loop has come past lead somewhere). Once the agenda is empty nothing is due, and the objects
  looked into are the closed set that `Closed` asks for: `AcceptedIsClosed`, the first half.
* `AcceptsPlain`: in a plain world, for every reading of its names and every closed set that contains the
  root, the registration has met only what is in that set and has not refused. The hard case is a cycle of dialects: `Chain` says
  that what is due before a dialect goes on comes after it on its way to the draft (`After`), so that one
  that is active cannot come again: `NoCycle`, else the dialects on the way from it back to itself would be a set that
  goes on without the draft, and none of them would be `Grounded`.
* `AliasShape`: every object with a name is within the root or within a document that was loaded under its own name
  (`Housed`), and documents are apart. So a document is new when it is loaded and takes no other name's
  base, and `$id` moves all names of an object at once.

`CompilesExactlyClosed` is `CompilesOnlyClosed` from the first two, `AliasesShare` is `AliasesShareNamespace` from
the first and the third: an object that was met as a document before its `$id` was read keeps no base of its own under
the older name (`schema_validator.hpp:125`), so that its anchors are found under either. That the registration ends, though following a
reference extends the list that is followed, is not stated. The worlds are assumed to be JSON (`WorldsAssumption`: objects contain objects, the root and
the documents of the catalog are apart, and the metaschema passes no object whose keywords hold one it would not) and the
names to be what they are (`NamesAssumption`: the default base is no document's).

**ProcessTransportProofs.** `IInv` is `TypeOK`, `CloseShape` (what `stop` has closed and forgotten at
each of its steps stays so, although others may reuse the number; a child that is forgotten was reaped, or its
`waitpid` was interrupted), `RestShape` (a transport at rest that was started is settled: it was released, or its
reader has ended by itself, or somebody is stopping it; and while `start` waits for a reader before it, that one
was stopped), `StrayShape` (who closes the descriptor has told the reader's token, so that a reader that has gone
astray reads once) and `StopLeavesNothing`. What is released stays so (`ReleasedStays`) and a stop in progress ends
in a release (`StopGoesOn`); only another `start` forgets that a reader had ended by itself.

`OnlyWholeLines` proves `LinesDelivered` from `IInv` and an invariant of the text, `TextInv`: the types of
the texts, `LineShape` — as long as every byte was the child's, the reader's line is what it has read since the last
newline, carriage returns left out — and the property itself, which is not inductive without it: were the line
kept over one that is no JSON, the next would be another. `TakeStep` is the child's byte, `StrangeStep` the one of
another file.

Assumptions beyond those on numbers: the SDK's and the program's threads are different
(`ThreadsAssumption`), `None` is no frame, cause, request, invocation or caller, a direction is assigned to every
caller (`PlacementAssumption`), inputs are texts and replies encodings under limits that `start` accepts
(`InputsAssumption`, `RepliesAssumption`), worlds are JSON (`WorldsAssumption`, `NamesAssumption`), what a resource may be called is a text (`UrisAssumption`) and an
address has a group at least (`GroupsAssumption`), and the requests of one side of the client's connection are not those of the
other (`RequestsAssumption`). TLC evaluates all of them in the runs.

Proved and not run as properties of their own: the type invariants, `LifecycleForward`, `AliasesShareNamespace`, and the
safety halves of the native refinements, which the runs check together with their liveness.

Only model-checked: `ImplementsLiveQueue`, `EveryCallSettles`, both `WaitReturnsAfterStop`, `WaitReturns`,
`AnsweredRequestsResolve`, and the liveness in `ImplementsNativeIo` and
`WindowsImplementsNativeIo`. Liveness under fairness is out of the prover's reach.

## 6. Findings

1. **A `wait_for` of a running executor can stop work** (`owned_executor.hpp:98`, run
   `OwnedExecutorEarlyJoin`). `enqueue` calls `notify_one`, and joiners sleep on the same condition
   variable. A thread in `wait_for` may be the one woken; it finds `finished_` false and sleeps again or
   times out, and the worker sleeps on with work pending. Line 43 says that `wait_for()` never stops work. The
   server is not affected: its `wait` joins the transport first, whose close event has stopped the executor by then.
2. **Over a text transport no future of the client is resolved** (`client.hpp:146`, run `ClientText`). A
   parsed non-negative integer is `uint64_t` (`protocol.hpp:63`), and `handle_message` looks up only
   `int64_t`. `examples/simple_client.cpp:24` waits on such a future.

## 7. What is not modelled

* The vendored `nlohmann/json.hpp` is nine tenths of the lines under `src/include` (24765 of about 27700).
  It is a third-party library and external to every model, so that a share of all lines says little; of
  the library's own 2968 lines the models map about three in five, and most of the rest are
  declarations, includes and plain data types.
* Bytes: UTF-8, and whether a text has control characters, appear as outcomes. `FrameBuffers` has the
  buffers of `frame_fits` and `send`; in `Server` and `StdioTransport` what they say is a choice.
* The evaluator behind `compile_schema` and `validate` (jsoncons), and the conversion between the two JSON
  libraries in front of it.
* The Windows branch of `process_transport`, which keeps no handle of its child and waits for nothing; two
  threads that stop it at once, and a program that destroys it without waiting for a callback, are
  data races that the model leaves to the program.
* `sse_transport`: two callbacks and no state.
* Binary rounding of the bucket's `double`; exact parts stand in its place.
* `int64_t` exhaustion of `next_id_`.
* Memory exhaustion except where the code turns it into an outcome (a thread that cannot be created).
* The destructors' behaviour when the owner breaks its discipline.
* The components that section 1 marks as not modelled; `PROJECT.json` gives the reason for each.
