# liboctopipes in TLA+

liboctopipes lets processes exchange messages through named pipes. A server owns one
FIFO that everybody knows, the Common Access Pipe (CAP). A client subscribes over the
CAP, is assigned two FIFOs of its own, and from then on sends and receives messages
over those; the server forwards each message to the clients subscribed to its remote.

This directory holds TLA+ modules translated from the C sources (`src/src/*.c`,
`src/include/octopipes/*.h`, `src/clients/*.c`, `src/liboctopipespp/src/message.cpp`), the TLC configurations that check them on small instances,
and theorems about them that TLAPS checks for every value of the constants.

## The system

| Part | State it keeps | Operations | Source |
|---|---|---|---|
| CAP of the server | `state`, `workers`, `cap_inbox`, `cap_lock`, listener thread | init, cleanup, start/stop_cap_listener, process_cap_once/all, subscription, unsubscription, lock/unlock/write_cap, cap_loop | `server.c` |
| Inbox | array of messages or errors | push (listener), dequeue (main thread) | `server.c` |
| Workers and dispatch | per client: subscriptions, FIFO names, `active`, inbox, listener thread | start/stop_worker, worker_loop, process_first/once/all, dispatch_message, worker_send | `server.c` |
| Client, CAP side | client state, pipe names | subscribe, unsubscribe | `client.c` |
| Client, life cycle | client state, pipe names, callback, loop thread | init, cleanup, loop_start, loop_stop, send, set_received_cb, octopipes_loop | `client.c` |
| Command line clients | where main is, messages counted, signal | main, on_received, handleSigterm | `clients/octopipes_sub.c`, `octopipes_send.c` |
| Unix pipes | per call: bytes written or read, time waited | pipe_create, pipe_delete, pipe_receive, pipe_send | `pipes_unix.c` |
| CAP payloads, serializer | none | encode, decode, checksum, prepare and parse of three payloads | `cap.c`, `serializer.c` |
| C++ class Message | a message | encodeData, decodeData | `liboctopipespp/src/message.cpp` |
| Windows pipes, C++ Client and Server, getters | - | not modelled, see below | `pipes_windows.c`, `liboctopipespp/` |

**How they interact.** The server process has a main thread, which makes every public
call, one listener thread for the CAP and one per worker. Each listener shares an inbox
and a mutex with the main thread. Two plain variables are shared without a mutex: the
server's `state` (the main thread sets `BLOCK` to keep the listener off the CAP while it
writes an assignment, and `STOPPED` to end it) and a worker's `active` flag. A client has
the thread of its owner and, after `loop_start`, a loop thread; they share the client
structure with no mutex at all. Processes meet in the FIFOs only.

**What is hard here.**

* The CAP is *one* FIFO for both directions and all clients: requests and assignments
  pass through it, and whoever reads first takes everything.
* A receive takes all that is in the FIFO and decodes the first frame of it; and a FIFO
  loses what it holds at the last close. Frames disappear silently.
* A frame larger than PIPE_BUF enters a FIFO in pieces, and a pause of the writer ends a
  receive in the middle of it; several writers share the CAP, and a client's loop thread
  and its owner share a FIFO when the one acknowledges and the other sends.
* Lengths are kept in one byte, and nothing but an end byte and a checksum, which may be
  left out, says that a frame is whole.
* Sleeps stand in for synchronisation: 500 ms in `lock_cap`, 100 ms in `subscribe`.
* A writer whose last reader closes is ended by SIGPIPE.
* A handler of a request has five ways to fail half way, each with its own undoing.
* Threads are stopped by flags they look at between two receives.
* The server can be killed and started again in the same directory.

**What makes each part correct.**

* CAP server: one worker per client, whose FIFOs exist; a worker exactly for those who
  were told so; nobody loses a worker to somebody else's request; a request is handled
  without the inbox changing underneath; calls return.
* Client and server together: a client that believes it is subscribed is.
* Pipes: a send that reports success wrote the frame, once and in order, and one that
  fails left nothing; a receive reports what was sent, cuts nothing, waits its time.
* Codec: what is decoded and parsed is what was asked to send, and a part of a frame is
  never taken for another message.
* Programs: they end when told to and leave nothing behind.
* Client: no freed name or structure is used; RUNNING means a loop is running; a stop ends.
* Dispatch: messages of one sender arrive in order, at most once, only at those they were
  sent to; processed means written to every subscriber; listener threads and workers
  come and go together.

## The modules

| Module | Models |
|---|---|
| `Inbox` | an inbox and its entries: what a failing decode leaves (`Dangling`), an entry with an error (`ReadError`), a slot never written (`Junk`), what the shift of `message_inbox_dequeue` leaves (`Dequeued`) |
| `CapServer` | the CAP FIFO, the CAP listener, the main thread's CAP calls, the end and restart of the process; clients as general as the operating system allows |
| `Registry` | abstract: a set of members, each admitted on its request, told once, a member until it leaves or the server ends |
| `CapRegistry` | CapServer implements Registry: `members <- Registered`, `informed <- told` |
| `CapProtocol` | CapServer composed with clients that run `octopipes_subscribe` and `octopipes_unsubscribe`; every FIFO step of a client is one of CapServer's client steps |
| `ClientLife` | the public calls of one client's owner and its loop threads over the shared structure |
| `CommandLine` | `octopipes_sub` and `octopipes_send` line by line as owners of the client of ClientLife, beside an owner that makes calls of its own accord |
| `Dispatch` | workers, their listeners, the process calls, and the clients' ends of their two FIFOs |
| `PipeTransfer` | calls of `pipe_send` and `pipe_receive` byte by byte on one FIFO |
| `FrameFifo` | abstract: a FIFO that small frames enter as units and bytes leave from the front, as CapServer and Dispatch use it |
| `Codec` | messages, frames and payloads as bytes, from what a caller asks to send to what a receiver makes of it |
| `CapServerProofs` | theorems about CapServer and CapRegistry |
| `CapProtocolProofs` | CapProtocol implements CapServer, and what follows; a client that takes itself for subscribed is served |
| `ClientLifeProofs` | theorems about ClientLife and CommandLine |
| `PipeTransferProofs` | theorems about PipeTransfer; it implements FrameFifo |
| `FrameProofs` | PipeTransfer keeps frames whole: what a send and a receive report |
| `DispatchProofs` | theorems about Dispatch |
| `OrderProofs` | Dispatch keeps the order of messages |
| `CodecProofs` | theorems about Codec, from recursion on numbers up to what a receiver parses |
| `MC*` | identities, symmetry, subscriptions, sizes and inputs for TLC |

### CapServer and the code

Each action is one step between two points where another thread or process can be seen.
`mpc` is where the main thread is: `idle` between calls, `lock` before the mutex in
`process_cap_once`, `handle` with an entry dequeued and the mutex held, `blocking` in the
sleep of `lock_cap`, `open`/`write`/`sent` in `pipe_send`, `join`/`joinfree` in the
`pthread_join` of `stop_cap_listener` and of `cleanup`, `freed` after cleanup and `dead`
after the end of the process. `lpc` is where the listener is: `check` and `gate` are the
two loop conditions of `cap_loop`, `open`, `receive`, `close` are `pipe_receive`, `push`
waits for the mutex. `cio` says what each client has the CAP open for, `capBuf` holds
whole frames; `Kept` is the rule that the last close empties a FIFO.

`workers` is the array of the server by client id. A worker's FIFOs are in `fifos`; its
thread appears in `Dispatch` only, where the join of `stop_worker` takes its time.
`told` is a history variable: the clients whose assignment with a worker was written and whose worker was not stopped since.

Undefined behaviour is a choice of outcomes. Reading or freeing freed memory
(`HandleDangling`, `HandleReadError`, `HandleJunk`, `DequeueCrashes`,
`SubscriptionNoWorker`, `SubscriptionBadAlloc`, `HandleMalformed`, `JoinFails`) ends the
process (`Crash`) or goes on with the outcome the code's next lines give. A read past
the array without a match and a `memcpy` of `SIZE_MAX` bytes end it
(`UnsubscriptionUnknown`, `SubscriptionDuplicate`). A decode whose first `malloc` fails
pushes an entry without a message, the same entry as a failing read.

`Faults` selects what may fail:

| Class | Meaning |
|---|---|
| `noise` | frames that do not decode, or are no request |
| `resources` | `malloc`, `mkdir`, `mkfifo`, `pthread_create` fail |
| `refusal` | the one `malloc` at `server.c:488` fails, for a name that is taken |
| `io` | `open`, `poll` or `read` fails in the listener |
| `kill` | the server process is killed at any point |

`refusal` is apart because of what it does: its failure path (`server.c:495`) calls
`stop_worker` with the taken name and so removes the worker of the name's present
owner. `told` then forgets the owner, too: `OnlyOwnerLeaves` names this as one of the
ways to lose a worker, and what the client still believes is outside `Served`, whose
theorem assumes that this allocation does not fail.

`Timed` TRUE assumes that the sleeps are long enough: that at the end of the 500 ms of
`lock_cap` the listener has ended the receive it was in, 200 ms of it without data, and
that at the end of the 100 ms of `subscribe` whoever has the CAP open has read it. The
code has no other means to this end. Everything is checked with `Timed` FALSE except
what needs it.

### CapProtocol and the code

`cpc` follows a client's thread through `pipe_send` (open, write, close) and the
`pipe_receive` of 5 seconds. `Subscribe` has no guard, as the code has none. The frame a
client decodes is the first it read; a remote that is not its own is `BAD_PACKET`; an
assignment for it, whatever error it carries, is a success. `Strangers` are programs that
have the CAP open and write frames that are no request; `MaxCalls` bounds the calls of
subscribe of each client.

`stale` is a history variable: the clients an ended server has left with something and
that were not informed anew since; what they believe cannot be true and `Served` does not
ask it of them. A client of which nothing remained (`Remains`: it does not take itself
for subscribed, no unsubscription and no assignment of it is on its way) leaves `stale`
with the next assignment written to it. The condition is needed: an assignment carries
nothing that ties it to a request, so a client that still believes in the old server may
subscribe, give up, unsubscribe and subscribe a third time, take the late answer to its
first request for its own, and then be unsubscribed by the request it sent in between.
Within the life of one server this cannot happen, which is what `Served` says.

### ClientLife and the code

What arrives is left open, so each call may succeed or fail. `pipes` is `valid`, or
`freed` when the names were freed and the pointers kept. `misused` records that freed
memory was used. With `Careful` the owner keeps to an order of calls the library needs
and does not enforce: subscribe only when not subscribed and with no loop thread left,
start one loop and only after an accepted assignment, let it come up before the next
call, stop it after unsubscribe, set the callback when no loop thread runs, clean up when
it has ended. `owner` is who makes the calls: `careful`, `any`, or one of the programs.

A loop thread tests `on_received` (`LoopDelivers`) and calls what it reads then
(`LoopCalls`); it acknowledges (`LoopAcknowledges`) by the state and the pipe
name the owner may change meanwhile.

### CommandLine and the code

`line` is the call main makes next; each is an action of ClientLife with its result:
an error goes to `exit`, which frees the client. `hurried` records that the wait of
`octopipes_sub` was over before the loop thread had run: main then unsubscribes and
stops a thread that is still to come. That the programs end (`ProgramsEnd`) is asked
outside that case only. `ProgramsUseNoFreed` says when freed memory is used at all: on
the way out after an error, with an assignment that did not parse or with the loop
thread left running. Both are listed below.

### PipeTransfer and the code

`stream` is every byte that ever entered the FIFO, `front` how many have left. A send is
in `open`, `poll`, `write` or `close`; `total` is its `total_bytes_written`, a `size_t`
(`Wrap` stands for SIZE_MAX + 1), to which a failing write adds -1. With a time-out of 0
it never opens: it returns OPEN_FAILED, polls for ever (`spin`) or writes to another
file (`astray`). `Atomic` is PIPE_BUF, `Chunk` the 2048 bytes of a read. A receive counts
`idle` polls; `waited` is a history of those that did wait: after a writer has come and
gone (`met`) POLLHUP ends every poll at once.

### Codec and the code

A byte is a number below `Base` and a data size takes `Digits` bytes. A behaviour builds
a message from what is asked (`asked`, `built`), puts its frame into `wire`, perhaps a
second one behind it, receives some first part of the bytes (`taken`) and makes of it
what the code makes (`heard`: the message, its payload parsed, the C++ object). A read
past the end of the buffer finds any byte of `Fill` and is counted (`over`). The loops of
the code that carry something from one turn to the next (the checksum, the groups of a
payload and their parse, the bytes of a size) are recursive functions of the turn. `ByteXor` is a
constant, any operation on two bytes: MCCodec gives it the exclusive or, and the proofs
need nothing of it.

### Dispatch and the code

`order` is the array of workers, `active` their flags, `inbox`, `lpc`, `held` one
listener each. `tx` and `rx` are the two FIFOs by client. `at` is the worker whose inbox
is looked at, `target` the worker the entry is sent to next. Each of the three process
calls is the same walk with its own rule for going on (`EntryDone`, `RoundEnds`).
`heard` is what `on_received` was called with. One failing `worker_send` ends the call.

## The runs

Symmetry of the clients is used for safety only, never where a liveness property is
checked.

| Run | Asks | Bounds |
|---|---|---|
| `CapFaults` | Do the workers, FIFOs, announcements and inbox stay consistent, does only its owner lose a worker, and does the server implement the registry, when anything fails at any point? | 2 clients that do anything, 2 requests on their way, not `Timed` |
| `CapLive` | Do subscribe, unsubscribe, stop, cleanup and a handler come back? | 1 client and 1 stranger, 3 frames on their way; noise, io; not `Timed` |
| `CapProtocol` | Is a client that was told so served; does the listener keep off while an assignment is written? | 2 clients, 2 calls of one and 1 of the other, `Timed` |
| `CommandLine` | Do the programs and a careful owner use no freed memory; is RUNNING a loop; do they end and leave nothing? | 4 owners, 2 loop threads, 3 messages, counts -1, 0 and 2 |
| `Dispatch` | Order, no duplicates, addressing, what processed means, threads and workers | 2 clients, 1 group, 2 messages |
| `DispatchLive` | Do the join of a worker and the process calls return, when frames, reads and pushes fail? | 1 client, 2 messages |
| `PipeTransfer` | Do a send and a receive report the truth, is the FIFO one of frames, and do the calls return? | frames of 4 and 2 bytes, a FIFO of 3, PIPE_BUF 2, reads of 2; a receive in a loop and one made once, 2 polls and 1; a `size_t` of 3 bits |
| `Codec` | Is what is heard what was asked to send? | bytes of 3 bits, names of 0, 1, 2, 7 and 8 characters, 0 to 2 groups and 9, data of 0 to 3 bytes, every part of one or two frames |
| `CapBadCallsReturn` | shows: no, not every call returns (below) | 1 client |
| `CapProtocolBadRefused` | shows: a refused client is told SUCCESS | 2 clients, resources |
| `ClientLifeBadStop` | shows: a loop that comes up late is joined for ever | any owner |
| `PipeBadTimeOut` | shows: a send whose poll times out polls for ever | as `PipeTransfer` |

**Why the bounds are enough to meet the cases.** Two clients are needed for one to take
another's frame, to remove the wrong worker, or to be behind a failing one in the
array. Two requests on their way give a FIFO with two frames of which one is lost, an
inbox with two entries and so a shift in the dequeue. Two calls of one client make a
retry and a resubscription (a third call of it was checked too, 15 million states). Two
messages can overtake each other. Two loop threads are an old one not yet gone and its
successor. A frame of 4 bytes is larger than PIPE_BUF and than the FIFO, so its send is
cut at both, and than a read; the frame of 2 is the largest that enters whole. A receive
in a loop meets a FIFO that was closed and one that was cut. A name of 7 is the longest a
byte of 3 bits can count and one of 8 wraps to none, as 256 does. `Fill` has a byte that
is ETX, one that is not and 0. `MostHeard`, `MaxErrors`, `MaxMessages` and `MaxPending`
bound what would be counted for ever. Every action of every module fires in some passing
run. The theorems do not depend on the bounds.

**Deadlock** is checked in `CapFaults`, where some call is always possible. It is not
checked in the others: there the clients, the owner or the programs come to the end of
their calls or of the messages, a server may be dead for good, a client freed.

### Fairness

`FairSpec` of CapServer, of Dispatch and `FairProtocolSpec` assume that a thread that can
go on does (weak fairness per thread, since the operating system runs them all), and
that a receive finds its FIFO idle again and again (strong fairness of the time-out).
The latter is a condition on the environment: `pipe_receive` counts no time while data
arrives, so a writer that never pauses keeps it in its loop. Nothing obliges anybody to make a
call, to write or to read. In ClientLife only the calls under way and the loop threads
are fair. `ProgramSpec` of CommandLine adds main of the two programs, which goes on line
by line (its `sleep(1)` ends); no message and no signal has to come. In PipeTransfer a
send and a receive under way go on; none has to be made. `SendReturnsWhenRead` has as its
condition that somebody polls the FIFO again and again, since without one a send does not
return (`PipeBadTimeOut`). No strong fairness is assumed there: the sends are finitely
many, so the FIFO falls idle.

`StopReturns` has the condition that the mutex is free when the call is made; what
happens otherwise is the run `CapBadCallsReturn`.

## What is proved

All by TLAPS, for every set of clients, threads and calls, every size and every bound, and
every combination of faults unless stated.

`CapServerProofs`:

* `Invariance`: `Spec => []Inductive`.
* `TypeCorrect`, `WorkersAreUnique`, `WorkersKeepPipes`, `SuccessReleases`: the
  invariants of the same meaning, from `Invariance`.
* `AnnouncedAreServed`: `AnnouncedServed`.
* `ListenerPauses`: `ListenerPausedDuringWrite`, assuming `Timed`.
* `InboxIsStable`: the action property `InboxStableWhileHandling`.
* `OnlyOwnersLeave` and `Refinement`: `OnlyOwnerLeaves` and that CapServer implements
  `Registry` (initial states map to initial states, every step to a step or a
  stutter).

`CapProtocolProofs`: `ProtocolIsCapServer` (the clients of `client.c`, and strangers, do
only what CapServer allows a client), with it `ProtocolListenerPauses` and
`ProtocolOnlyOwnersLeave`; `ProtocolTypes`; `SubscribedIsServed`, that is `Served`,
assuming that allocations do not fail (`resources`, `refusal`). It needs neither `Timed`
nor the absence of noise, read errors and kills.

`ClientLifeProofs`: `ClientTypes`; for a careful owner `CarefulIsSafe` (no freed memory is
used) and `RunningIsLooping`; of the programs `ProgramsAreOwners` (CommandLine implements
ClientLife), `ProgramTypes`, `SuccessIsClean` and `ProgramsAreSafe`.

`PipeTransferProofs`: `TransferTypes`; `TransferRefinesFifo` (PipeTransfer implements
FrameFifo); `TimeOutIsWaited`.

`FrameProofs`: `SendsAreAllOrNothing` and `ReceivesAreWhole`.

`DispatchProofs`: `DispatchTypes`, `ThreadsAreJoined`, `OnlyAddressedIsHeard`,
`ProcessedIsWritten`.

`OrderProofs`: `OrderIsKept`: each client hears the messages of a sender in the order they
were sent, none twice.

`CodecProofs`: `CodecInvariantHolds`; `CodecTypes`; `DecodeInvertsEncode` (`WholeHeard`);
`AcceptedAsSent` (no part of a frame is taken for another message, unless the decoder reads
beyond it); `HeardAsAsked`; `ObjectsAreKept` (the C++ class); `ParsedIsAsked` (what the
parsers of the CAP find is what was prepared).

With these every invariant, action property and refinement that a passing run checks is a
theorem.

**From which assumptions.** Those named in the modules, which TLC evaluates in the runs:
`ConstantsAssumption`, `ProtocolAssumption`, `ClientAssumption`, `CommandLineAssumption`,
`PipeAssumption` (a call is a send or a receive, not both; the bounds are positive,
PIPE_BUF is within the capacity, and no `size_t` wraps over a frame), that of Dispatch, and
three of Codec: `CodecAssumption` (a byte is large enough for the control characters,
`ByteXor` makes a byte of two), `RequestsAssumption` (what callers ask has the C types of
the calls, and an assignment that is refused names no pipes, as in `server.c`) and
`SizesAssumption` (the length of a payload fits the bytes of a `data_size`).

**The argument for the CAP server.** None of the invariants is inductive alone; `Inductive` joins them to
what the main thread's place in its call says about the rest.
`WorkersHavePipes` survives a failing `write_cap`, which deletes the FIFOs of one client,
only if that client has one worker (`UniqueWorkers`) and it goes too.
`AnnouncedServed` survives the same step only if the worker removed was not announced
before: an answer under way is either of a new worker, or an FS error, and an FS error is
only sent to a client without a worker (`RefusedHasNone`). `SuccessReleasesLock` and
`InboxStableWhileHandling` rest on the mutex being held from the dequeue to the return
(`HandlerLocks`). `StateFollowsMain` says that the state is `BLOCK` exactly from
`lock_cap` to `unlock_cap`; from it, `PausedStep` shows under `Timed` that the listener
cannot pass its gate after the sleep has seen it outside the receive. `EntryInHand` gives
the types of what is passed on. The lemmas about `WithoutWorker` (what is left of a list
without duplicates when a worker is taken from it) and about the shift of the dequeue
carry the data. The step lemma is split by the calls and the steps of the main thread,
the listener and the clients; the constants are used through `ConstantsAssumption` only.

**The argument for `Served`.** Of a client that a server informed there is one token: its
assignment on the way to it (`Coming`), or its own opinion (`Settled`), or its
unsubscription on the way to the handler (`Going`). `Tied` says that the token is in one
place and that the server serves the client while there is one. A step moves it: writing an
assignment makes it, for a client that was not told and so had none; accepting turns the
assignment into the opinion; writing an unsubscription turns the opinion into a frame; the
handler destroys it together with the worker. Reads by others and the last close may lose
it, which does no harm. `NoRefusals` is needed because a refusal is accepted like an
assignment, and `AnnouncedServed` of the server because no second assignment must be
written while a token is about.

**The argument for the client.** `CarefulState`: only the thread `client->loop` names may
touch the client (`loopPc[t] \notin {"none", "done"} => loop = t`), and the calls that free
something are made when no thread may (`Calm`). It is inductive because a careful owner
starts a loop only with none about and joins it after the state stopped being RUNNING; and
RUNNING is written by the one thread that then is in its loop. For the programs the
invariant follows the lines of main: which state and which thread each line finds.

**The argument for the pipes.** `Remaining`: a send that still writes has not written
everything, and nothing yet if its frame is small, so that a small frame enters at once,
once; `HeldFits` bounds what is in the FIFO. `AloneInv` ties `waited` to the polls counted,
as long as POLLHUP cannot have come and no other receive was under way.

For what a frame is in the stream, `AllFramed` (`FrameProofs`) follows one send: what it has
written is in the stream once and in order (`Tidy`) or another frame has come between
(`Interrupted`). The delicate case is a write that fails, which takes one from the count
and so writes a byte again: there was room when the FIFO was polled, only another send can
have taken it, and so the frame is interrupted already. For a receive, `Drained` and
`InOnePiece` say that what it has is one piece of the stream, and that the front of the FIFO
is within a small frame only while a receive is going on.

**The argument for the dispatch.** `MainState` and `WorkerState` say that the workers the
main thread is at exist; `WriteState`, that every subscriber before the target has the
message; `WorkersKnown`, that a listener thread runs for exactly the workers in the array;
`Addressed`, of every place a message can be, that its remote fits whoever has it.

The order (`OrderKept`) is an invariant over all places. A message passes two lines of one
form (`Line`): arrived, in a hand, in a FIFO. `LinesSorted` orders each line by sender,
`SentBy` and `Known` say that a client's own line up holds its messages only, and none
newer than its last. `Downhill` puts what is in a line up behind what is in any line down
and behind the message in the hands of the main thread, and `WrittenBefore` says which
clients that message has reached: those before the target. So the write puts it last in a
line where it is not yet.

**The argument for the programs.** `ProgramHolds` follows the lines of main: which state,
which loop thread and which names each line finds, and `Uncounted` that a message
a loop hands over is not counted yet. The callback of `octopipes_sub` is there from
the first line on and its client until main returns, so only freed names and a client
freed on the way out, with its loop left running, are misused, and both come with an error.

**The argument for the codec.** `CodecInvariant` has the three stages of a behaviour: what is
asked is built and on the wire as a sequence of frames (`Asking`, `Waiting`), or a first part
was received and `heard` is what the receiver makes of it (`Hearing`). The rest is about
data. `Placed` gives the position of each part of a frame among the bytes, whatever
follows it; from it `FieldsFound` and `DataFound` compute what the decoder reads,
`SizeIsKept` that a size put together from its bytes is the size, `ChecksumIsByte` that the
checksum is a byte, and `WholeDecoded` and `PartHeard` the result for a whole frame and for
a part of it. `PreparedPayload`, `GroupRead` and `AssignParsed` do the same for the payloads
of the CAP. These are inductions over data. The induction theorems of the library take an
operator, which the provers here cannot instantiate; the lemmas `LeastElement`, `UpTo` and
`Recursion` take a *set* in place of a predicate, from the well-foundedness of the numbers,
and give both the induction up to a length and the existence of the recursive functions.

**Only model-checked:** what is under fairness, that is every liveness property
(`SubscribeReturns` and the like): liveness and ENABLED are outside what TLAPS can do.
And the four departures, of which a run shows a counterexample.

## Where the code departs from what it says

Four departures have a run each:

* `server.c:344` returns without releasing the mutex when a handler failed. The next
  `process_cap_once`, the listener's next push and a stop's join wait for ever, although
  `README.md:206-221` goes on after an error (`CapBadCallsReturn`).
* `client.c:266`: a refusal parses (`cap.c:202`), so `subscribe` returns SUCCESS and
  the state is SUBSCRIBED, against `README.md:638` (`CapProtocolBadRefused`).
* `client.c:567`: the loop thread sets RUNNING whatever the state is; one that comes up
  after a `loop_stop` is joined for ever, against `README.md:611` (`ClientLifeBadStop`).
* `pipes_unix.c:224`: a poll that times out is noted and repeated; with a full FIFO that
  nobody reads `pipe_send` does not return, against `README.md:1061` (`PipeBadTimeOut`).

Others are in the model as the code does them, with no property that says otherwise:

| Where | What the code does | What is said |
|---|---|---|
| `server.c:367` | `process_cap_all` answers UNINITIALIZED when the inbox is *not* NULL, that is, always (`ProcessCapAll`) | `README.md:827` |
| `server.c:488` | a second subscription of a name ends the process (`SubscriptionDuplicate`) | `README.md:813`: WORKER_EXISTS is returned |
| `server.c:531` | an unsubscription of an unknown name runs past the array (`UnsubscriptionUnknown`) | `README.md:802` |
| `server.c:1169` | the dequeue shifts `inbox[i]`, not `inbox->messages[i]` (`Dequeued`) | the comment at 1166 |
| `server.c:1306` | the pointer left by a failing decode is pushed (`Dangling`) | `README.md:508` |
| `server.c:150` | cleanup leaves the workers when the listener was stopped before (`CleanupNotRunning`) | the comment at 140 |
| `server.c:1388` | the client directory is not cleaned (`StartCapListener`) | the comment at 175 |
| `client.c:246` | a well-formed frame for another client is BAD_PACKET (`AssignmentRefused`) | `README.md:635` |
| `client.c:342` | unsubscribe calls `loop_stop` too early for it to join (`UnsubscribeSent`) | `README.md:469`: ready to be freed |
| `cap.c:213`, `226` | a parse that fails leaves freed names in the client (`AssignmentParsed`) | `README.md:581` |
| `server.c:636`, `713` | the first failing worker ends a dispatch and a round (`SendFails`) | the comments at 617 and 690 |
| `client.c:246` | an assignment that comes late is taken for the answer to a later request (`AddressedTo`) | - |
| `client.c:411` | the end is written to `origin[remote_size]`: the origin is cut, or the byte behind it is written (`Codec`) | - |
| `serializer.c:125` | the data size is compared with the whole length: a part of a frame is read beyond its end | - |
| `serializer.c:54` | of frames received together only the first is decoded | - |
| `cap.c:53` | lengths and the number of groups wrap at 256 | - |
| `cap.c:154` | SUCCESS with fewer groups than announced, the others unset | - |
| `pipes_unix.c:138` | after a writer has gone the time-out passes without waiting | `README.md`: timeout in milliseconds |
| `pipes_unix.c:196` | with a time-out of 0 the descriptor is never opened (`SendUnopened`) | - |
| `message.cpp:64` | the payload pointer of an empty Message is never set | - |
| `message.cpp:122` | a frame without origin or remote makes a string of NULL (`ObjectHeard`) | - |
| `octopipes_sub.c:70` | the message that completes the count is not printed | - |
| `octopipes_sub.c:182` | the groups are stored from an index that was never set | - |
| `octopipes_sub.c:225` | a refused subscription is not noticed (`MainSubscribes`) | - |
| `octopipes_sub.c:241` | a wait that is over at once stops a thread that has not run (`hurried`) | - |
| `octopipes_sub.c:247` | an error after `loop_start` frees the client under its loop (`MainExits`) | - |
| `client.cpp:118`, `server.cpp:118` | the index into the array of names never moves | - |
| `client.cpp:132` | Client::subscribe reports CapError SUCCESS whatever the assignment said | - |

## What is not modelled

* In CapServer, CapProtocol and Dispatch a frame is written and read as a unit. PipeTransfer
  shows for which frames that is right (`ImplementsFrameFifo`: those of at most PIPE_BUF
  bytes) and Codec what the bytes do; larger frames are followed in PipeTransfer only.
* An acknowledgement as a message on its way through the server: the loop thread's use of the
  client for it is in ClientLife, its frame is a message like any other in Dispatch.
* A `realloc` that fails: its loss of the array is an outcome of `SubscriptionNoWorker`
  and of the lost push. The heap of a client whose CAP frame does not decode.
* Callbacks that call the API themselves; several threads that share one client's owner
  calls or one server's main calls, which the library does not support.
* A client that still has a deleted CAP open is treated as having it closed: nobody else
  will find that FIFO again.
* The options and the output of the command line clients.
* The Windows pipes, the C++ classes Client and Server, the getters, the other callback
  setters and the error descriptions, for the reasons `PROJECT.json` gives.

## Plan

Done: `Inbox`, `CapServer`, `Registry`, `CapRegistry`, `CapProtocol`, `ClientLife`,
`CommandLine`, `Dispatch`, `PipeTransfer`, `FrameFifo`, `Codec`, their runs, and the eight
proof modules, which state every safety property and refinement of the runs.

Next, in this order:

1. `Server`: CapServer and Dispatch composed, so that a worker's thread, its join in the
   handler of an unsubscription and the dispatch of messages interleave with the CAP; that
   it implements both, so that their theorems hold of the two together.
2. Acknowledgements as messages of Dispatch.
3. The C++ class Server, whose process calls and start of workers wrap those of Dispatch.
