# A TLA+ development of klibmsg

klibmsg is a small C++ messaging library over TCP, after nanomsg's worker,
context and state-machine design: a device hands messages to sockets, every
socket is a state machine fed by one of four worker threads, and every worker
sits in epoll. This directory holds TLA+ modules of its core, TLC
configurations that check them on small instances, and theorems that TLAPS
checks for every instance. All file references are to `src/`. The repository
has no tests, and includes two headers it does not contain (`msg.h`,
`eventfd.h`), so the code itself, read as a whole, is the only reference.

## 1. Inventory

| component | state | operations | talks to |
|---|---|---|---|
| `NetDevice` (device.*) | listening socket, `token2sock_`, `token2callback_`, `sock_sets_`, completion queue | `Init`, `SendData`, `ReadData`, `SendMsg`, `ParseNetMsg`, `PairListenSocket`, owner of all sockets (`NetDeviceFsmHandler`), `AsyncStop` of all in the destructor | sockets (calls), their events (callbacks, on worker threads) |
| `NetSocket` (socket.*) | `state_`, descriptor, `wfd_`, six tasks, four events, `msg_buffer_queue_`, buffers and offsets, `asock_` | `Start`, `Connect`, `Listen`, `Accept`, `Activate`, `AsyncSendMsg`, `AsyncStop`, the handlers, `SendRaw`, `RecvRaw` | its worker (tasks, poller), its owner (events), the listener or accepted socket |
| `NetFsm`, `NetFsmEvent` (fsm.*) | Idle, Active or Stopping; an event's type and payload | `Start`, `Stop`, `Stopped`, `Action`, `Feed`, `Raise`, `RaiseTo`, `Process` | handler functions, `NetCtx` |
| `NetCtx` (ctx.*) | a mutex, `events_`, `eventsto_` | `ExecuteCriticalSection`, `Raise`, `RaiseTo` | runs handlers; other contexts, after leaving its own |
| `NetWorker` (worker.*) | `tasks_` under `sync_`, `stop_`, eventfd, poller, thread | `Execute`, `Cancel`, `Terminate`, `NetWorkerRoutine` | feeds sockets in their contexts |
| `NetPoller` (poller.*) | epoll descriptor, batch `events_`, `index_`, `nevents_`; per descriptor a handle | `Add`, `Rm`, `SetIn/Out`, `ResetIn/Out`, `Wait`, `Event` | the kernel |
| `NetQueue`, `NetQueueItem`, `NetEventFd`, `NetPool` (utils.*) | an intrusive list with an in-queue mark; a counter; a round-robin index | `Push`, `Pop`, `Remove`; `Signal`, `Unsignal`; `ChooseWorker` | used by all of the above |
| `Channel` (channel.h) | a queue, two closed flags | `Send`, `Receive`, `Close...End` | device's completion callbacks |

What is hard here, and what should hold in spite of it:

* **The queue that is popped without its lock.** `NetWorkerRoutine` copies
  `tasks_` under `sync_` and pops the copy outside it, while `Push` on other
  threads reads the mark of the same items and drops a request for an item that
  seems queued. No request's work may be lost, no item be linked twice, no
  wake-up be missed, and `Unsignal` must find a signal.
* **Callers drive the state machine without a lock.** `SendMsg` tests, starts
  and connects a socket from any thread; its worker feeds the socket under the
  context. Tasks handed out during this may run at once, or before others.
* **Fall-through dispatch.** The handler's `default:` branches only print
  (utils.h:105-126): an unforeseen input runs on into the clauses of later
  states. So one asks that no input is unforeseen.
* **Two copies of the interest** in a descriptor, the handle's and the
  kernel's, and epoll calls that are skipped when the handle says nothing
  changes.
* **Level-triggered polling against a queue**: polling for OUT stops when the
  queue is found empty, while another thread fills it.
* **Re-arming the listener** after each connection, by the owner, on the
  listener's thread, inside another socket's context.
* **Failures**: connect, accept, reset, orderly close, no descriptors; an owner
  that answers an error with `LOG(FATAL)`.

`PROJECT.json` lists each hazard at its line with the properties that cover it.

## 2. Modules

| module | models |
|---|---|
| `TaskBox` | what a worker promises: one FIFO of tasks without duplicates, closed once |
| `NetWorker` | `Execute`, `Cancel`, `Terminate`, `NetWorkerRoutine` (task side), eventfd, item marks |
| `NetSocketFsm` | the socket's state machine, its poller handle, tasks and events, as operators on a record |
| `NetOutbound` | `SendMsg` callers, the socket's worker, the owner, the connection: one outbound socket |
| `NetAccept` | the listener, the sockets paired with it, their workers, incoming connections |
| `PollerPromise` | what a worker relies on in its poller |
| `NetPoller` | `NetPoller`: the handles, the kernel's entries, the batch of events and how it is worked off |
| `MessageFifo` | what two connected sockets are to the device: a FIFO of whole messages |
| `NetStream` | `AsyncSendMsg`, `DequeueNetMsgToBuf`, `SendRaw`, `RecvRaw` over a stream cut anywhere |
| `Channel` | `Channel<T>`, with the threads that wait in it |
| `NetDevice` | extends `Channel`: `ReadData`, `SendData`, `SendMsg`'s map of sockets, `ParseNetMsg`, callbacks, polling |
| `MCNetWorker`, `MCNetOutbound`, `MCNetAccept`, `MCNetPoller`, `MCNetStream`, `MCNetDevice` | the modules the configurations run |
| `ListLemmas`, `NetWorkerProofs` | facts about sequences; the invariant and the theorems of `NetWorker` |
| `NetPollerProofs`, `NetStreamProofs` | the invariants and the theorems of `NetPoller` and `NetStream` |
| `NetSocketLemmas` | what the state machine does with its inputs, for the two proofs that follow |
| `NetAcceptProofs`, `NetOutboundProofs` | the invariants and the theorems of `NetAccept` and `NetOutbound` |
| `NetDeviceProofs` | the theorems of `NetDevice`: those that hold with any tokens; those about reads and their callbacks |

How they fit together: `NetDevice` takes a socket for a FIFO of messages that
moves on by itself. `NetStream` shows that the bytes of two connected sockets are
such a FIFO if the workers keep polling for what there is to send and to read,
and `NetOutbound` and `NetAccept` show that they do. Those two take the poller
for one interest per descriptor and one list of tasks per socket; `NetPoller` and
`NetWorker` show that the batch of events and the two lists of the worker come to
that.

### NetWorker

`tasks_` and the worker's local copy are sequences of items; `linked` is the set
of items whose `next_` is not `NETQUEUE_NOT_INQUEUE`, kept apart from the lists
because the code keeps it apart too: the two can disagree if something is wrong.
`Push` tests `linked`; `PopTask` removes the item from the copy and clears the
mark without the lock; `Snapshot` is the critical section of worker.cpp:90-95.
`work[t]` is what a task is to find (for `task_send_` the message queue): a
thread publishes work (`Publish`, the push under `msq_sync_`), then calls
`Execute`. The race on `next_` between `Push` and `Pop` is a race on one word, of
which either value is possible; the interleavings of `PopTask` and `Execute` are
these outcomes. A mark that is seen late is still seen before the handler's
critical section takes the mutex, which is the order `NoLostWork` needs.

### NetSocketFsm

A socket is a record: `state_`, the `NetFsm` state, the descriptor, interest in
the handle (`hevents`) and in the kernel (`epoll`), waiting tasks, queued events.
`Clauses` lists the handler's clauses in the order of the text, with the source
and types each takes. `Dispatch` computes where an input ends, fall-through
included; this is a table computed from `Clauses`, with the numbers of utils.h,
because sources and types share numbers (action Accept and "readable" are
both 1). `Effect` says what each clause does. `Foreseen` are the inputs nothing
is printed for. A queued event that is raised again is overwritten where it
stands, as fsm.cpp:115-123 does. `Cancels` are the inputs of the clause of Cancelling,
which also feeds the paired socket (socket.cpp:622): that is left to the module that
follows both, as nobody in the repository cancels an accept.

Tasks waiting at the worker are one duplicate-free list per socket here; that
the worker's two lists amount to this is what `NetWorker` and its refinement of
`TaskBox` establish.

### NetOutbound

One action per step of `SendMsg` that another thread can come between: the socket made
and put in the map (`NewSocket`), which shows it to the others, the `CHECK(IsIdle())` of
the thread that made it (`CheckNew`, device.cpp:189), the test of `IsIdle` everybody
makes (`TestIdle`), `socket()` with `InitFromFd`, `fsm().Start()`, the Connect action,
`connect()`, the raising of its event, `task_connecting`, the push under `msq_sync_`,
`Execute`. The worker runs a task or a descriptor event, then drains the socket's events
through `NetDeviceFsmHandler` before it leaves the context. The kernel's side is
external: the connection comes up, breaks, and drains a send buffer of `Room` pieces; a
message is `Parts` pieces, so that partial writes happen. A handler call by a caller is
one step, and `NetFsm::Raise` (which pushes on `events_` without the context's lock) is
one step too; the torn event that two overlapping raises could produce is not modelled.
`AsyncStop` is called as `~NetDevice` does, at any time once there is a socket, in the
states the constant `Stopping` names; after the owner deleted the socket the behaviour
ends (`fate`).

### NetAccept

`NetDevice::Init` opens the listener and pairs it with a first socket. The
listener's worker accepts into the paired socket (`AcceptOne`: `InitFromFd`,
`RaiseTo`, the two sockets part), leaves its context with a copy of `eventsto_`,
and enters the accepted socket's context (`HandOver`: `Activate`, `task_recv`,
`PairListenSocket`). `HandOver` is one step: the accepted socket's worker waits
for its context meanwhile, and nobody else touches the listener. `accept4` may
find the connection gone, no descriptors left, or report any other error, for which the
code has only `CHECK_GT(s, 0)` (socket.cpp:570): `fate` is then `accept_failed`. A CHECK
in the state machine of the listener or of an accepted socket makes it `check_failed`
(`Check`). Accepted sockets
have workers of their own, which is the case with most interleavings. `RecvRaw`
reads up to the end of a message in any number of pieces.

### NetPoller

`s` is the descriptor a socket has open, `hfd` and `hevents` are the fields of its
handle, `epoll` is the kernel's entry for a descriptor (the handle it points to
and the interest), `events` and `index` are the batch. Every operation of the
poller is an action; between two calls of `Event` any of them may happen to any
handle, which is more than a handler does and takes in the handlers and tasks of
all sockets of the worker. A descriptor is closed only when it is out of the
poller, then used again by any socket, and the handle of a new socket holds
whatever its memory held. Nothing in the poller asks whether a handle was added: the
constant `Early` names the operations that are also called before `Add` or after `Rm`.
A second thread may ask for `task_send` before the first asks for `task_connecting`
(`SetOut`), `task_stop` may come before any `Add` (`Rm`); the passing run allows all five.

The batch's `epoll_wait` reports any non-empty choice of what is polled for and
errors, of up to `MaxEvents` descriptors. `PollerPromise` has no handles, no batch
and no kernel: a set of pairs (handle, kind) that changes of interest take pairs
out of. `NetPoller` implements it when `pending` is what the rest of the batch
would tell.

### NetStream

A byte is named by its message and its place in it, so that wrong addresses and
offsets show as wrong names; `MemSize` is the largest size `Token2DptrSize` gives and
`IntMax` what an `int` holds. `SendRaw` writes what the kernel takes of the header
and, once that is complete, of the data, in one call; `RecvRaw` likewise, and
stores the data straight at the destination. `Cut` is `write()` and `read()`: at
least one unit if there is room or something to read, nothing (`EAGAIN`)
otherwise. Offsets are kept as the `int` they are (`Narrow`). The size `-1` of
`Token2DptrSize` is left out: `ParseNetMsg` checks for it, and `SendData` has
found the token's memory before it asks for the size. A reply of no data at all
(size 0) is in.

### Channel and NetDevice

Every operation of `Channel` holds its mutex throughout, so it is one step, but for
`Receive`, which blocks (`Block`) and is woken by `NotifyOne` or `NotifyAll`.

`NetDevice` has two hosts in one behaviour. A thread in `SendMsg` goes through five
steps, between which others come: the `find` (`FindSocket`), the loop over the map for a
socket with the same address (`SearchSockets`), the `emplace` of the one it found
(`EmplaceSocket`) or of a new one (`OpenSocket`), the push of the message (`PushMsg`); a
worker in `ParseNetMsg` sends the callback and then erases it. The CHECK, the start and
the connection of a new socket (device.cpp:189-195) are `NetOutbound`'s. `SendData` is
called on any host and returns -1 where the host does not know the token's data. Data
are versions: `mem[t]` is what is stored at a token, read when `SendRaw` comes to it
(`Transmit`) and stored by `RecvRaw` before `Received` is raised. The users keep to one
operation at a time per destination token (`Free`): with a put and a read into one token
at once, either completes the other's callback, which no user of `ReadData` could want.

`ReadData` puts the destination's token in `msg.src` and the source's in
`msg.dst`, and `SendMsg` routes by `msg.dst`. So `Token2Ip` of the reader's token
must be the peer on the reader's host and the reader on the peer's: `PeerOf` in
`MCNetDevice`. A table from tokens to the machines that hold them, which
device.h:20 suggests, makes the reader send the request to itself, where
`CHECK_NE(out_msg.extra.data_len, -1)` (device.cpp:213) fails; `NoCheckFails` is
what tells the two apart.

`Routed` states this of the constants, for all reads and puts. `OneSource` says that
the data for a token that is read into come from one host, `SourcesKept` that what is
read is not written by messages. Some theorems have them as hypotheses; `MCNetDevice`
assumes all three, so that TLC finds them true of the instance the run checks.

## 3. Runs

| run | instance | shows |
|---|---|---|
| `NetWorker` | 2 tasks, 2 threads, eventfd up to 3 | types, marks, wake-ups, kept work; published work is done; implements `TaskBox` (with its fairness) |
| `NetOutbound` | 2 callers, 3 messages of 2 pieces, buffer of 2 | stream in order, no send forgotten; all is sent, and the socket goes quiet |
| `NetOutboundFaults` | the same with failures and `AsyncStop` in any state | the descriptor is always watched; a living connection is kept; a CHECK fails only where a socket is opened again after `socket()` failed; an input is unforeseen only after `AsyncStop` or without a descriptor; a break, or giving up, reaches the owner |
| `NetAccept` | 2 connections, 4 pieces, 2 per message, failures of all kinds | no CHECK fails on either side but the one on `accept4`'s result; nothing unforeseen; pairing, arming, no message lost, all parsed, resets noticed |
| `NetPoller` | 2 handles, 2 descriptors, batches of up to 2, every operation also `Early` | handle and kernel agree, the rest of the batch is wanted, the poller's promise |
| `NetStream` | 4 messages, header of 3, data of 0, 1 or 4 units, 5 between the ends | offsets inside the message, both ends in step, FIFO of whole messages |
| `NetDevice` | 2 hosts, 3 tokens, 2 users, 2 polling threads; 2 reads, 2 puts, 1 change of memory | routing, sockets matched, callbacks once, fresh data, reads complete, pollers return |
| `NetOutboundTwoOpeners` | 2 callers, 2 calls | **violated**: the second caller starts a new socket before its maker's `CHECK(IsIdle())`, which fails |
| `NetOutboundLostSend` | 2 callers, 3 calls | **violated**: a message stays in an active socket nobody polls for |
| `NetOutboundShutdown` | 1 call, `AsyncStop` of an active socket only | **violated**: stopping an active socket ends the process |
| `NetDeviceLostCallback` | as `NetDevice`, 1 put | **violated**: a read's callback is erased with its predecessor's |
| `NetPollerEarlySend` | as `NetPoller`, `Early` is `SetOut` alone, an uninitialised handle may name another descriptor | **violated**: `SetOut` before `Add` takes over another socket's entry |

The two passing outbound runs set `Serialised`: nobody calls `SendMsg` while
another call is still opening the socket. That is what the code needs of its
users; the runs `TwoOpeners` and `LostSend` drop it and show what happens.
`LostSend` takes three calls: the first caller's connect succeeds at once; the
second one's `task_send` is queued ahead of `task_connected`; the owner's own
request for `task_send` is dropped as a duplicate; then `AddFd` clears the
interest `task_send` has set. In `NetPoller` the same threads meet one step
earlier: the passing run has `Garbage = {Nobody}`, an uninitialised handle that
names no descriptor of this poller, so that the early `EPOLL_CTL_MOD` fails and
`Add` puts things right; `NetPollerEarlySend` lets the handle name any.

`NetOutboundFaults` leaves out `NoUnexpectedRun`: with failures it does not hold,
as `NetDeviceFsmHandler` ends the process on every error (device.cpp:45), where
src/README.md:3 promises automatic re-connection. What is asked there instead is which
failures may do it: `ConnectionKept` is that the owner has no error to answer while the
kernel keeps the connection and nobody stops the socket, `OnlyReopenedFails` and
`NothingUnforeseen` say what has gone wrong before when a CHECK fails or control falls
through. `OtherChecksHold` does so for the accept path.

Bounds. Two items and two threads suffice for every order of request, copy and pop: an
item is in `tasks_`, in the copy, or popped, and the second shows the order. The eventfd
bound of 3 only holds threads back (`Execute` is strongly fair for that reason); `2^64 -
2` in the kernel. Three messages give one in the buffer, one queued, and one on its way;
two pieces give a message that is partly written, and a buffer of two can hold a whole
message or a part of two. Two connections make the listener re-arm, and three sockets.
`Garbage` (NetAccept) are two values an uninitialised handle may have; in NetOutbound
all four are tried. Two handles and two descriptors let a descriptor move from one
handle to the other and a handle get another descriptor, while either is in the batch; a
batch of one is the case of more ready descriptors than `kNetPollerMaxEvents`. In
`NetStream` a header of three units can be cut at its ends and in the middle, 3 + 4 is
`IntMax`, the largest number an `int` of 4 bits holds (the code's `int` has 32), and 5
units between the ends can hold the end of one message, a whole command and the start of
the next. In `NetDevice` two reads of one token are what a callback can be confused
with, the two puts go either way over the same sockets, and four sockets are as many as
two users and two workers can make at once. No configuration checks deadlock: the
systems come to rest when nobody has anything to send, or when the process ends;
liveness properties say what must have happened by then.

Fairness. A worker never blocks but in `epoll_wait`, so its steps are weakly
fair; a round of the poller serves each waiting task and each ready descriptor,
so these are strongly fair where the worker may be busy in between. A caller
inside `SendMsg` goes on. `Event` is called again after each event; handlers do
not block. A thread in `PollCompletionQueue` waits for nothing but `cond_`, and
`Channel`'s notifications end that. The peer's answer and reading are assumed of the
environment. Nobody has to call, connect, close or stop.

## 4. Proofs

`NetWorkerProofs` proves, for any sets of tasks and threads and any bound of the
eventfd, from `WorkerAssumption` only (the stop item and `None` are not tasks):

* `TypeCorrect`, `MarksAgree`, `WakeUps`, `UnsignalSafe`, `WorkIsKept`: the run's invariants;
* `Refinement`: every step of `NetWorker` is a step of `TaskBox`, or a stutter,
  when `queue` is the local copy followed by `tasks_`.

None of the invariants is inductive alone. `IInv` is their conjunction with
`Phase`, which says in which phases of the worker the copy is empty and a task is
current, and where `stop_` can be: without it, a step from an arbitrary state
with a signal but a non-empty copy would break `MarkedWhileQueued` (the copy
would be overwritten) and an exit of the worker with tasks left would break
`NoLostWork`. There is a lemma per action, with a step per conjunct, and `NextInv`
puts them together. `Refinement` uses `IInv` for the step where a request is
dropped (the item is in one of the two lists, hence a stutter), and the facts on
concatenation and `RemoveAt` of `ListLemmas`.

`NetPollerProofs` proves, for any sets of handles and descriptors and batches of
any size, `TypeCorrect`, `HandlesAgree` (`KernelAgrees`) and `BatchIsCurrent`
(`BatchCurrent`). It assumes `PollerAssumption` and, in each theorem,
`Garbage \subseteq {Nobody}`: an uninitialised `hndl->fd` (nothing initialises a
handle before `Add`, poller.h:11) happens to name no descriptor of this poller. The code
does not ensure that, and the run `NetPollerEarlySend` shows what happens without it.

The two invariants are not inductive alone. `OneOwner` (no descriptor is open in
two sockets) is needed because `Add` would otherwise find the kernel's entry of
another handle and leave it there; `FreshOrOwn` (the handle of an open socket names
its descriptor, or none before `Add`) because a `SetOut` before `Add` would
otherwise rewrite another handle's entry. With them and `TypeOK`, `KernelAgrees` is
inductive without a word about the batch (`HandlesInv`); `BatchCurrent` then follows
from `BatchKept`: an operation only takes events from the batch, and a handle loses
its place or its interest only when `Drop` has taken what the batch still held for it.

`Refinement` has the same hypothesis and shows that every step of `NetPoller` is a step
of `PollerPromise`, or a stutter: `Event` takes the first pair of what the batch would
still tell, a change of interest takes pairs out, and `Wait` only finds the batch used up.

`NetStreamProofs` proves, for any header, any set of data lengths and any room between
the ends, `TypeCorrect`, `OffsetsStayInside`, `SidesInStep` and `Refinement`, the steps of
`MessageFifo`. It assumes only `StreamAssumption`, of which one part is about the code:
the total size of a message fits an `int`. `SendRaw` and `RecvRaw` compute offsets in
`int` and check nothing; with a longer message they would narrow. `InStep` (what was
written but not read is what is between the ends) is not inductive alone: to know that the
unit `RecvRaw` reads is the next one of its message one needs `RunsOn` (units follow each
other up to the end of a message) and `UnitsFit` (they are units of loaded messages).
`Filled` (what was read so far is in its place in the header and the memory) is what turns
the last `read()` into `Deliver` of the whole message.

`NetAcceptProofs` proves all six invariants of the run `NetAccept` - `TypeCorrect`,
`PathChecksHold` (`OtherChecksHold`), `AllForeseen`, `PairedAlways`, `ArmedAlways`,
`NothingLost` - for any number of connections, pieces and parts and any contents of an
uninitialised handle, from `AcceptAssumption` alone, and with `accept4` failing in every
way. `NetSocketLemmas` first shows where `Dispatch` sends the inputs of the accept path
in the states it gives them in (`DispatchOwn`: the first clause of the state that is
about the source, if it takes the type) and what each does to a socket's record.
`Paired` and `AcceptArmed` say little about an arbitrary state. `IInv` says where
everything is:

* the listener (`ListenerPhase`) opens, `Waits` with `task_accept` queued or polled,
  `Hands` over the socket made last, or has `Failed`, which only the end of the process
  follows;
* each socket (`SockPhase`) is `Fresh` exactly if the listener points at it, `Taken` while
  it is handed over, then `Reads` or is `Over`. `Reads` has `event_received` queued only
  while the context is being left: so it is never raised twice, which is `NoMessageLost`;
* connections are accepted `InTurn`, so no two sockets have one connection. A socket's
  connection is at least its number, hence there is a slot for the next socket whenever
  one is made;
* `Unread`: nothing was read or parsed of a connection before a socket has it.

The bound `MaxPieces` is on the sum of what all peers send, a fold; that it bounds `sent`
and `parsed` of each connection is not part of `TypeOK`.

`NetOutboundProofs` proves all invariants of the two passing outbound runs, for any
callers, number of calls, message lengths and room in the kernel, from `OutboundAssumption`
and, where the table says so, from what the runs set:

| theorem | hypotheses | invariant |
|---|---|---|
| `TypeCorrect` (`TypeOK`) | none | `TypeInv`: with `Counted` |
| `SentInOrder` (`InOrder`) | none | itself, with `TypeInv` |
| `ConnectionWatched` (`Watched`), `SendRemembered` (`SendNotForgotten`) | `Serialised` | `SerialInv`: `LifeInv`, `EventsInv`, `Unborn`, `SendNotForgotten` |
| `ChecksHoldUnlessReopened` (`OnlyReopenedFails`), `ConnectionsKept` (`ConnectionKept`), `AllForeseen` (`NothingUnforeseen`) | `Serialised` | `HealthInv`, with `SerialInv` |

So the order on the wire depends on nobody's good behaviour, and everything else holds
through failures and `AsyncStop`, as long as nobody calls `SendMsg` while another call
opens the socket. That is needed: `NetOutboundLostSend` refutes `SendNotForgotten` without
it, and in `NetOutboundTwoOpeners` the CHECK that fails is not on a socket that is opened
again. No theorem says that the owner is never told an error: `NetOutboundShutdown` refutes
it for a socket that is stopped, and a connection that breaks is one.

* `TypeInv` needs no word on who calls when, hence a lemma for every clause of the handler,
  also those only a fall-through reaches: `NetSocketLemmas` shows that each keeps the
  socket's record `Tidy` (typed, nothing in a list twice). `Counted` says that every pushed
  message was in a call, which bounds `pushed`.
* `Watched` is no invariant of an arbitrary state: a socket that is Connecting, unpolled,
  with no task waiting, would satisfy nothing that brings one. `LifeInv` gives the phases
  of a connection: `Closed` (no descriptor), `Opened` (one caller is opening it, nothing
  was asked for yet), `Dialled` (a caller is about to ask for `task_connecting`, or it
  waits, or the descriptor is polled), `Established`. `OneOpener` is what `Serialised`
  gives, and what keeps a second caller from taking a phase backwards.
* `SendNotForgotten` needs `ConnectedFirst`: in an established socket that is not polled yet,
  `task_connected` waits ahead of any `task_send`; otherwise its `AddFd` would clear the
  interest `task_send` set, as in `NetOutboundLostSend`. `EventsInv` follows the Connected
  event from `Raise` through the context's queue to the owner, who then asks for `task_send`.
* `Unborn` says that before the first call there is no socket to open, poll or stop.
* `HealthInv` separates what may go wrong from what may not. `Good` is the part of a socket's
  life in which nobody has stopped it, its connection has not broken and `socket()` has not
  failed: then it is `Sound`, no Error is raised or about to be, and the owner has answered
  nothing with UNEXPECTED_RUN. As long as nobody stops the socket no `task_stop` waits; for
  the other inputs `NetSocketLemmas` knows the clause `Dispatch` takes (`DispatchOwn`), and
  that it is one of `Foreseen`, unless there is no descriptor: `complained` and the one
  failing CHECK come from there. `DispatchAt` gives the clause for inputs that fall through,
  as `task_stop` does to the one of RemovingFd, for the layer below.

`NetDeviceProofs` proves the five invariants of the run `NetDevice`, for any hosts, tokens,
users, polling threads, and any bounds. They come in layers, each with the hypotheses it
needs and no other:

| theorem | hypotheses | invariant |
|---|---|---|
| `BaseInvariance`, `TokensMatch` | none | `BaseInv` |
| `MessagesFindTheirHost` | `Routed` | `RoutedInv`: `BaseInv`, `MessagesRouted`, `NoCheckFails` |
| `CallbacksRunOnce`, `TypeCorrect` | `Routed`, `OneSource` | `CallbackInv`, with `RoutedInv` |
| `ReadsAreFresh` | `Routed`, `OneSource`, `SourcesKept` | `FreshInv`: both, and `Fresh` |

* `SocketsMatch` breaks, in an arbitrary state, when two threads open sockets for one
  token and both emplace. `OneMessage` (one message at most for a token, on a socket's
  queue, on the wire, arrived or in a thread's hands) excludes it, because users keep to
  one operation per destination. `OneSocket` ties the message to the socket of the map: a thread
  that has searched (`Beyond`) still finds its token unmapped when it emplaces, and what the
  loop found still leads to the token's address (`Leads`), whatever others did to the map in
  between.
* `NoCheckFails` needs to know of every message on its way who sent it
  (`MessagesRouted`); the socket's address then says where it arrives.
* `ParseNetMsg` queues a callback and erases it in two steps. `CallbackOnce` holds because
  only one worker is between the two: the data of one token arrive on one socket
  (`OneEraser`). `OnlyInMap`, `OneQueued` and `OneRun` follow a callback through the map, the
  completion queue and the threads that run it. Without `OneSource` the theorem is false:
  with data for one token from two hosts TLC finds, in a run of 14 states, a second worker that queues
  the callback before the first has erased it.
* `ReadFresh` needs `Fresh`, which bounds from below the version of the data in each
  message by the `since` of the reads it could complete: at the source before it is
  transmitted (`FreshSource`), in the message on the wire, and in memory after it was stored.
  Without `SourcesKept` a put could take the source back to an older version.

No theorem says that the callback of every read is kept: it is not (`NetDeviceLostCallback`).

Only model-checked: liveness (`WorkIsDone`, `ReadsComplete`, `PollersReturn` and the others)
and the fairness parts of the three refinements, which are beyond the prover. Every
invariant of a passing run is a theorem.

## 5. Plan

In this order; a run and the proofs named come with each module.

1. *done*: `NetWorker` with `TaskBox` and proofs; `NetSocketFsm`; `NetOutbound`;
   `NetAccept`.
2. *done*: `NetPoller` with `PollerPromise`; `NetDevice` with `Channel`;
   `NetStream` with `MessageFifo`.
3. *done*: proofs of the invariants of all passing runs, and of the steps of the three
   refinements.
4. The pointers of `NetQueue`: the intrusive list implements the sequence and its
   mark, and what two overlapping `Raise` do to it.

## 6. Not modelled

Socket options, addresses and `Bind`; logging, allocation and the singletons; the
contents of messages and the user's token functions; `NetSocket::Terminate`, `Stop` and
cancelling an accept have their operators in `NetSocketFsm` or `NetWorker` but no caller
in the repository, hence no action in the composed modules. `NetPool::ChooseWorker`
assigns a worker once per socket, in turn: every module gives a socket its worker from
the start. The mutexes of several contexts (ctx.cpp:43-51) are not followed: `NetAccept`
has the order of their critical sections. The destructor of the device is one socket's
`AsyncStop` (`NetOutbound`); that it does not wait for the workers, and a failing
`NetDevice::Init`, have no outcome in the code that a property could ask for. What a
test would look for and the code does not have is not asked for: opening a failed
connection again, an accept that is tried again once there are descriptors, a callback
for a reply that comes after the completion queue was closed. Left out by an assumption:
a second `ReadData` into a token whose first reply is outstanding (`Free`), messages of
2 GiB and more (`StreamAssumption`). Accesses to `token2sock_`, `token2callback_` and
`sock_sets_` that overlap in time and the pointers of `NetQueue` under an unlocked
`Raise` (ctx.cpp:58) are data races on containers, below what is modelled. Use of memory
after the owner's `delete` (device.cpp:64), torn event fields and other undefined
behaviour beyond the mark of a queue item are listed as hazards and end or lie outside
the behaviours here.
