# Psychosynth: a TLA+ model of its engines, its patcher and its sessions

This directory specifies parts of Psychosynth's `libpsynth` in TLA+, checks small
instances with TLC and proves theorems for instances of any size with TLAPS. Paths
below are relative to `src/src/psynth/` unless they begin with `doc/` or `test/`.

Contents: [the system](#the-system) - [the modules](#the-modules) -
[runs](#runs-bounds-and-fairness) - [proofs](#proofs) - [what the model
found](#what-the-model-found) - [abstractions](#abstractions-and-limits) -
[plan](#plan).

## The system

Psychosynth is a modular software synthesizer. The 2011 rewrite, `new_graph/`, is its
core: a graph of sound nodes that a *real time (RT) thread* computes block by block
while a *user thread* edits it and an *async thread* does whatever the RT thread may
not do (allocate, block). The RT thread may never wait for the others
(`doc/pfc/04-graph.tex`, section on threads). Around it there are the device and file
input and output, an OSC network layer that keeps several instances in step, the
"world" that links nodes by their position on a table, and user interfaces that still
run on the older engine in `graph/`.

| component | state it keeps | operations | what is hard, and what makes it correct |
|---|---|---|---|
| Event passing (`new_graph/processor.*`, `triple_buffer.*`, `base/threads.hpp`) | two triple buffers of event deques, five mutexes, a condition variable, the running and the flip-request flags | `push_rt_event`, `push_async_event` for each of three contexts, `rt_request_process`, `_async_loop`, `start`, `stop` | Interleavings of three kinds of threads with try-locks. Blocks are serialised; the RT thread never waits; a push never hits a buffer in use; events run once and in order; no wake-up is lost; `stop` returns and drains |
| Heterogeneous deque (`base/hetero_deque.*`) | a memory block with a linked list of objects of different sizes | `push_back`, `push_front`, `pop_*`, `clear`, iteration | Pointer arithmetic at the ends of the block, wrapping, being full |
| Graph (`new_graph/node.*`, `port.*`, `control.*`, `core/patch.*`) | every child list, connection and control value twice, for the user and for the RT thread | `set`, `connect`, `disconnect`, `add`, `remove`, `rt_process`, `rt_advance` | The two copies agree once the events are executed, although a flip can cut an operation's events in two; blocks never pull from a removed node; intrusive hooks are linked once; `rt_is_updated` lasts one block |
| Soft ports (`soft_buffer_port.*`) | source borrowed by the RT thread, request flag | `connect`, `disconnect`, `rt_process` | A flag shared without a lock; a stale source |
| Asynchronous output (`io/thread_async.*`, `core/async_output.*`) | a thread and its state | `start`, `stop`, the loop | Start races, joining |
| Cached file input (`io/caching_file_input.*`, `sound/ring_buffer*`) | a ring buffer, a reader thread, the position in the file, a finished flag | `take`, `seek`, `set_backwards`, `set_input`, `start`, `stop` | The reader tests for room and writes later; both sides wait; the direction changes with a block under way. Frames come in order, none is overwritten, `take` and `stop` return |
| OSC session and controller (`net/`) | who is connected, time since the last message, the identifiers that a session gives to nodes, which changes came from the net | connect, accept, alive, drop; add, delete, parameter, activate | Lost, late and repeated UDP messages, time-outs, hosts that die, echoes of remote changes. Hosts agree on identifiers and, when nothing is under way, on the nodes; no end stays half open |
| World and patcher (`world/world.*`, `world/patcher_dynamic.*`) | nodes, their positions, links in the order of their lengths | add, delete, move, activate, deactivate, update | Links displace each other; stale lengths, destinations and sockets. A patch is the nearest one |
| Legacy graph (`graph/`) | nodes with sockets, references, envelopes, parameters | connect, update a block, delete | The user connects and deletes while the audio thread computes, with almost no lock. Both ends of a connection agree; a node in use is not destroyed; a position that was set arrives |
| Drivers, sound and synthesis algorithms, configuration, logging, applications, interfaces | - | - | Library calls, pure arithmetic or start-up wiring; not modelled |

How they interact. A device output owns a thread whose callback calls
`processor::rt_request_process`. That takes `_rt_mutex` with a try-lock (a second
device waits for the block the first one computes), swaps in the events that the user
and async threads pushed, executes them, pulls sound through the sinks, executes the
events the RT thread sent to itself, and hands its events for the async thread over if
that has asked for them. Graph operations in the user thread change their own copy at
once and push RT events if the processor is running, or else change the RT copy
directly. The applications still run on the older engine: `world` is the user's door to
it, and its patcher decides which sockets to connect; an audio thread asks
`node_manager` for blocks, and a sampler node takes its sound from a
`caching_file_input`. Every change of the world also reaches an OSC controller, which
tells the peers of the session, and what the peers tell it becomes a change of the
world. The complete list of components is in `PROJECT.json`, with the hazards that
the properties are aimed at, each at its line.

## The modules

| module | models |
|---|---|
| `TripleBuffer` | `triple_buffer`: pure operators on three deques and three pointers |
| `Processor` | the threads, locks and flags around two triple buffers; one action per stretch of code between two points where another thread can interfere |
| `EventLanes` | what event passing promises: four FIFO lanes |
| `ProcessorProofs` | theorems about `Processor` |
| `LanesProofs` | the proof that `Processor` implements `EventLanes` |
| `HeteroDeque` | the deque's memory block, pointers and headers |
| `DequeProofs` | theorems about `HeteroDeque`, and that it implements the push of `TripleBuffer` |
| `GraphSync` | the two copies of the graph and the events between them |
| `GraphProofs` | theorems about `GraphSync` |
| `RingBuffer` | `ring_buffer_range` with positions that count: pure operators on the cells, the write position and a reader |
| `CachingInput` | `caching_file_input`: the reader thread, the audio thread in a sampler, and the thread that owns the sampler |
| `StreamProofs` | theorems about `CachingInput` |
| `OscController` | the controller of a host and its world as the controller sees it: handlers, callbacks, the two tables of identifiers; pure operators |
| `OscSession` | `osc_client`, `osc_server` and `osc_broadcast` on a network that loses, swaps and repeats messages, with hosts that die; composes one `OscController` per host |
| `SessionProofs` | theorems about `OscSession` |
| `NodeSockets` | the sockets of the legacy nodes at both ends and their envelopes; pure operators |
| `PatcherDynamic` | the dynamic patcher over them; pure operators |
| `Patch` | the world, the patcher, the parameters and the audio thread; composes the two above |
| `PatchProofs` | theorems about `Patch` and the operators it composes |
| `Induction` | induction over numbers and sequences, recursion and folds, for the proofs |
| `MCProcessor`, `MCHeteroDeque`, `MCGraphSync`, `MCCachingInput`, `MCOscSession`, `MCPatch` | values for TLC |

**Processor and the code.** `rtPc` and `asyncPc` name the places in `_rt_process_once`
and `_async_loop`: `runBack` is the head of the first event loop, `inBack` its body
(where the event may push new events), and `runLocal`, `inLocal` the second one.
A user or async push is two steps, `LockRtBack` / `LockAsyncLocal` (take the guard, look
the buffer up) and `PushRt` / `PushAsync` (write, release), so a flip can fall in
between; `pushing` keeps the deque that was looked up. `RtHandoff` is one action
because it runs under `_async_mutex`, which it only tries to lock. Sections of the async
thread that hold the mutex and touch only the front buffer, which is then its own, are
one action each. `fate` is a history variable: what became of every event. Operators
whose comment says "Mutant" are deliberate mistakes used to show that the properties
can fail; no specification uses them.

**EventLanes.** `Processor` maps its buffers to four lanes, by sender and executor. The
front deque belongs to the lane whose loop runs over it. `LanesSpec` says that every
step of the processor appends to a lane, executes the head of a lane, overflows a lane or
leaves the lanes alone: exactly once execution, first in first out, and no loss except
by overflow. A lane that overflows keeps a prefix: a full deque is *replaced* by the
pushed event (see below).

**HeteroDeque** derives what a full deque does from the pointer arithmetic, on
`Size` cells, and shows that `TripleBuffer`'s `DequePush` says the same.

**GraphSync** takes the lane from the user to the RT thread for granted (FIFO, cut
anywhere by a flip) and models the operations above it. `user` and `rt` are the two
copies; `Send` is the pattern "change mine; if running push, else change theirs" that
`in_control::set`, `node::execute_rt`, the ports and `_explore_node_add/remove` share.

**CachingInput and the code.** `rpc` names the places of `run()`: `read` (the block is
fetched from the file, under the file's mutex), `write` (stored in the ring, under the
buffer's), `test` (is there room?), `towait` (the test said no, the mutex is still held,
and `stop()` does not need it), `waiting`, `outer` (the test of `_finished`), `ended`, and
`broken`, which the code forbids by an assertion. `tpc` is the audio thread: idle, in
`take`, or waiting in it. Each critical section is one action. The file is what the
reader sees of it, its length; a frame is its place. `RingBuffer` keeps cells, so that
what backwards writing and reading do to the order of frames is computed, not assumed.
`steady`, `starved`, `raced` and `missed` are history: they say what a property must
leave out, and nothing else is left out.

**OscSession and the code.** Messages from one host to another are a sequence; a fault
drops, swaps or repeats. `update(1)` is a step of each host's own clock. `host[h]` is
what `OscController` keeps: nodes with a value and an active flag, `netId` and `localId`
(`m_net_id`, `m_local_id`), the identifier of the session and the targets of
`osc_broadcast`. `client` and `server` are the state machines of `osc_client` and
`osc_server`. An action handles one message with everything the handler calls: a
callback changes the world, the world tells the controller, and `m_skip` is why the
controller does not send (so it needs no variable). `_delete_cb` reads an iterator it has
erased: the model takes both outcomes.

**Patch and the code.** The user's operations are atomic; the audio thread is not: `rt`
holds the stack of nodes that `node0::update` is in and the input that each has come to,
and the thread may be overtaken between any two of: taking parameters, descending
into a source, giving parameters back, moving the envelopes, testing a socket, connecting
it. `sock` has, per socket, the source the user asked for (`wanted`, `src_obj`), the
one in use (`actual`, `m_src`), the pending mark and the envelope, and per node the references
at its output (`refs`). `patch` has the links in the patcher's order, with the length each
had when it was measured, and the marks of `pnode`. Update runs through the links with a
fold, in one step of the user. `broken` means that the audio thread has entered a node
that was destroyed; what follows is undefined.

## Runs, bounds and fairness

| run | shows | bounds |
|---|---|---|
| `blocks` | `OneBlockAtATime`; `BlocksEnd`: a begun block ends even if every other thread stops forever at any point, holding any lock | a device and a second RT caller, one event, all kinds of pushes |
| `lanes` | refinement of `EventLanes`, exclusion of pushers from the buffers in use, the postponed hand-off, draining at stop, types | one device, three events in deques of two: overflow, events in both loops, an event behind another |
| `delivery` | every event runs while the processor runs; `stop` returns | one device, two events, deques of one |
| `userlost`, `userwake` | expected violations, findings 1 and 2 | two events, one event |
| `events` | deque: memory stays inside the block, links agree, pushes do what `TripleBuffer` says | 11 cells, objects of one and two cells |
| `full` | expected violation, finding 3 | as `events` |
| `catchup` | graph: the RT copy becomes the user's, removed nodes are never pulled from, hooks are linked once, update marks end with the block | a sink and another node with a control, two values, five events under way (removing a connected node takes four) |
| `stale` | expected violation, finding 4 | as `catchup`, with an impatient user |
| `stream` | cached input: types and how far the reader may run ahead, no frame overwritten, frames in order, `take` and `stop` return | a ring of four frames, blocks of two, files of three, takes of one and two, two files, one change of direction |
| `session` | identifiers, names, targets, no echo, agreement of the nodes, half open connections end | two clients and a server; three commands or faults, or four when one client does nothing; one fault; delays of one unit; one value |
| `patch` | the patch is the nearest one, marks and sockets and references agree, nodes in use exist, positions arrive, deleted nodes go | output, mixer with one input, a generator with two places, a filter with one place; two moves, deactivations or deletions; additions are free |

Three events in deques of two are enough for a deque to be full, non-empty when
flipped, and pushed while another is executed; longer sequences repeat these
situations since no action looks behind the head and the tail of a deque. Events are
interchangeable, and so are values, hence the symmetry sets in the safety runs.

In `stream` the ring of two blocks is the smallest the assumptions allow; a file of three
frames and blocks of two make every second block a short one and put the ends of the file
at every place of the ring. With one file and two changes of direction (921,511 states, by
hand) the same properties hold. In `session` three commands are enough to have two clients
connected and a node passed on from one to the other, or a client connected, gone and
connected again; four, with one client, to change a node at both ends at once, or to
delete one that is being changed. When both clients act one of them has a single event,
which is no restriction as they are alike. Larger instances were run by hand: one client
with five commands and a fault (574,242 states), two clients with four commands in a
network without faults (907,312 states up to symmetry). In `patch` the generator and the
filter compete for the mixer's one input, the filter and the mixer may read one another,
and the generator can be moved from one side of the filter to the other; a second filter
(347,653 states, by hand) adds nothing new. The three runs stop when their bounds are used
up: their deadlock check is off.

*Fairness.* Weak fairness on each RT thread's steps inside a block is all that `BlocksEnd`
assumes: it says that the block needs nobody else. For delivery every thread that can take
a step in the middle of an operation does so (an operating system schedules runnable
threads), devices keep asking for blocks (a sound card does), and `StopDevice` is strongly
fair: a device's thread tests its state between two callbacks, so a join is not postponed
forever by further blocks. Spurious wake-ups of the condition variable happen, but not
forever. Nothing is assumed of the user: no call is fair. In `stream` the reader and the
audio thread go on when they can, and so does an owner who has begun to stop; in `session`
each host goes on updating its clock and receiving, which its main loop does, and no user
and no fault is fair; in `patch` the audio device keeps asking for blocks.
`rt_request_process` of the *second* caller, which blocks on `_rt_mutex`, gets no promise,
since `std::mutex` gives none.

`UserAsync = FALSE` in `lanes` and `delivery` keeps the user thread from calling
`push_async_event`. With it the properties fail, for the two reasons that `userlost`
and `userwake` isolate; nothing in `new_graph/` but a unit test calls it.
`Patient = TRUE` in `catchup` makes the user wait until no event is under way before
`stop()` or a direct change; `stale` shows what happens otherwise.

## Proofs

All theorems hold for any values of the constants that satisfy the named assumptions.
`ProcessorProofs` and `LanesProofs` hold for any sets of threads, devices and events
and any queue size; the only assumptions are the named ones of the modules (`QueueSizeAssumption`,
`ThreadAssumption`).

* `TypeCorrect`: types, and every deque within its size. Inductive by itself; lemmas on
  the buffer operators (`PushAtType`, `PopFrontType`, `FlipBackType`, ...) carry it.
* `BlocksSerialised`: `OneBlockAtATime`. Inductive.
* `PushesExcluded`: `PushesGoToTheBack`. Inductive: the flip is the only step that moves
  the back pointer, and it does nothing while the lock is held.
* `AsyncDrained`: `StopDrainsAsyncEvents`, even with a user who pushes async events. Not
  inductive: it needs to know that no push is under way when `stop` has begun and
  that the async thread pushes only while it executes an event. `ThreadInv` (how the
  flag and the two program counters go together) and `DrainInv` say so.
* `HandoffPostponed`: `HandoffWaitsForAsync`, if the user does not push async
  events. `AsyncInv` ties the request flag to the front being empty and the program
  counter to the mutex.
* `LanesImplemented` (`LanesProofs`): `Spec => LanesSpec`, if the user does not push async
  events. Initial states map to empty lanes (`LanesInit`), every step maps to a step of
  one lane or to a stutter (`LanesStep`), under `LanesInv`, which joins the invariants
  above to two more: `EventInv` (an event is stored in one place at most, and only while
  it is waiting to run; an event whose push is under way is stored nowhere, so it is
  fresh to the lanes when the push ends) and `RtFrontInv` (outside of the loops over it
  the RT front is empty, so a flip moves events between two parts of the same lane).
  `LanesPush` and `LanesExecute` are the sequence facts: appending to the deque behind
  a prefix is `Accept` or `Overflow`, taking from the prefix is `Execute`.

`StreamProofs`, from `CachingAssumption` (a block is smaller than the ring, two fit in
it, files are longer than a block):

* `StreamTypes`: types, with the reader of the ring at most a ring and a block behind.
  Inductive with `Room` (below), by one lemma per action.
* `FramesAreKept`: `NothingOverwritten`. Not inductive: that the ring has room
  when the block is written follows from `Room`, which says it of every place of the
  reader thread between its test and its write, unless the direction changed there.
* `FramesAlwaysInOrder`: `FramesInOrder`, through changes of direction. `OrderInv` relates
  every cell of the ring to a place in the file: the frames not read yet follow the last one
  heard (`LastHeard`, `Unread`), the frame behind the newest is the next the reader fetches
  (`Follows`), also while a block lies in its buffer, part of it written (`Fetched`,
  `Unwritten`). After a change of direction the frames already heard become the ones to be
  heard, so the cells behind the reader matter as well (`Placed`, `Mark`). The
  facts about remainders that the index arithmetic needs are proved from the quotient.

`SessionProofs`, for any number of clients, any delays, any bounds and any faults, from
`HostsAssumption` (the server is no client) and `TimesAssumption` (the delays are numbers):

* `SessionTypes`: types. `TypesInv` adds that a host's targets are hosts at the other end
  of a link, that all clocks stay within their delays (a clock that has run out closes the
  connection in the step that finds it), and the two invariants that follow.
* `NothingComesBack`: `NoEcho`. `RightLinks` says what a link may carry: towards the
  server, what its sender did itself; towards a client, what others did. Only a user makes
  an operation (`RightCommand`), only the server passes one on (`RightReceive`), and
  faults make none (`RightFailure`).
* `ClientsKeptTwice`: `SlotsAreTargets`. `SlotsInv` adds that the next identifier is above
  all that are in use, and that a server that does not listen has no slots.
* `IdentifiersAgree`: `IdsAgree`. Not inductive: `IdsInv` adds that the *last* ACCEPT on
  the way to a client is that of its slot, and that a connected client that is not `hasty`
  has no CONNECT and no ACCEPT under way. Most steps are calm (`CalmStep`): they change no
  slot and put no new kind of message on a link.
* `NamesStaySound`: `NamesAreSound`. `NamesInv` says, of a session that nothing disturbs
  (`Undisturbed`: no host
  died, nothing came twice, every session was over before the server listened again), that the
  tables of each host are inverse (`NamesOk`), that identifiers differ between clients,
  also those still on their way (`IdsApart`), that every name in use has been given before,
  so that none is given again (`Past`), and that an ADD comes once to a host that does not
  know its name (`AddsNew`). Most steps only take names away (`FewerStep`).
* `HostsConverge`: `Converged`, in a network without faults. `SessionInv` joins the
  invariants above to two more. `OpsInv`: an ADD comes before everything else about its
  node, on every link, and nothing about the node is anywhere it has not been. `AgreeInv`:
  each current client and the server agree on each node (`Pair`, of two `Half`s), reading
  what one knows of it (`View`, by session names) together with what is under way to it; to a
  client only what comes after its last ACCEPT counts (`Heard`), because what was sent
  before belongs to a connection given up. A host that knows a node the other does not has
  something under way to it that ends the disagreement, or the node is one of those nobody
  was told of. When nothing is under way nothing but agreement is left.

`GraphProofs`, for any finite set of nodes, any controls, values and bounds (`GraphAssumption`):

* `GraphTypes`, `UpdatesEnd`: `TypeOK` and `UpdatesEndWithBlock`, by `GraphInv`: the user's
  copy is tidy, the flipped events are executed when the events phase ends, and a control that is
  updated is listed once in what the block still has to do.
* `RtAlwaysCatchesUp`, `PullsFromChilds`, `HooksAlwaysLinkedOnce`: `RtCatchesUp`,
  `SourcesAreChilds`, `HooksLinkedOnce`, for a `Patient` user (`stale` shows what becomes of
  the first with another). `CatchUpInv` says that the RT copy, after all events under way,
  is the user's copy, and that it is a sound graph after *each* of them (`Safe`), so that a flip may cut
  anywhere. What a list of events does to a graph is a path of graphs (`Path`); two lists
  one after the other make one path (`AppliedConcat`, `SafeConcat`), so an
  operation of the user is dealt with alone: `Proper` says that its events take the user's
  old copy to his new one by sound graphs. For the removal of a node, whose
  events are one for each reference, this is an induction over the references.

`DequeProofs`, for any objects, widths and size of the block that `DequeAssumption` allows:

* `DequeTypes`, `LinksAlwaysSound`: `TypeOK` and `LinksAreSound`, by `DequeInv`: from the
  start of the block there is a chain of headers (`Chain`), each followed by an object and
  by the next header, that ends with the terminating one; `_back` is its last element.
* `PushesAlwaysBySpace`, `PushesAreDequePush`: a push makes the chain longer (`Longer`) or
  leaves one of a single element (`Alone`), by the space behind the last; and with objects of
  one size that is `DequePush` of `TripleBuffer`: the abstract deque that
  `Processor` is built on is implemented by the pointer arithmetic.

`PatchProofs`, for any finite set of nodes, any places and any table of the patcher
(`NodesAssumption`, `WorldAssumption`, `TableAssumption`) whose entries for a destination are
for any of its inputs from all sources or from none (`EntriesAssumption`, used by
`PatchAlwaysNearest` only). The audio entries of `PATCHER_TABLE` are such: those of a mixer
are all `PATCHER_ANY`, those of other nodes all for one input.

* `PositionsAlwaysArrive`: `PositionsArrive`. Not inductive: `ParamInv` adds that a node
  the audio thread is inside has no position waiting to be taken (so giving the
  parameters back loses nothing), that a node which does not exist has none at all, and
  what the thread's stack looks like (`RtShape`).
* `PatchAlwaysSound`: `PatchIsSound`, whatever links compete and in whatever order they
  displace one another. `WorldInv` joins `NodesSound` (the nodes and their identifiers) to
  `PatchSound`, of the links in the patcher and the sockets. Its core is `Sound`: an
  input that asks for a node has a link that made it ask (`Sourced`), no two inputs ask for the
  same node (`SingleOut`), and a made link is noted at its source (`Noted`). `update` goes
  through the links with a fold; `Tried` is one turn of it, and `Rewired` says
  what connecting may do to the sockets.
* `PatchAlwaysNearest`: `PatchIsNearest`, an action property: from any patch, an update of links
  measured now makes what the definition `Nearest` says, link by link in their order.
  `Tidy`, an invariant of its own, says what the multiset of links keeps: they are sorted
  (`InOrder`), no two have the same ends (`OneForPair`), and a link with a socket has one that
  its entry allows (`Fits`). From it and `Sourced`, each turn does what is wanted
  (`TurnMakes`): the marks and destinations that the loop tests say the same as the links made
  so far (`MayOpen`); a socket that is found is held by no link before this one
  (`TakenBehind`), so the rivals made before it, which have sockets of their own, leave room
  (`RoomLeft`); and where none is found each socket has a rival before it
  (`NonePicked`, `NoRoom`). The turns after it do not touch what was decided (`TurnBefore`), so
  the links up to the last one tried stay as they should be (`Decided`).
* `RefsAlwaysAgree`: `RefsAgree`, part of `WorldInv`: the references at an output are kept by each
  primitive on the sockets, and every step is made of those.
* `PatchTypes`: `TypeOK`. That the stack is never deeper than there are
  nodes follows from `ThreadInv`: the nodes on it are different.
* `SocketsAlwaysAgree`, `NodesInUseAlwaysExist`: what the sockets read and where the audio
  thread goes while the user connects and destroys. `ThreadInv`: the nodes on the stack are
  different and were updated in this block (`Ordered`); the thread is in a
  node through a socket that reads it still, or is silent (`Through`); the source it is about to
  connect is the one that is asked for, unless the socket is torn (`Taken`). `ReadsInv`:
  a socket that is not torn reads what was asked for or waits (`Settled`), one of a node
  that is gone reads nothing (`Bare`), and one that reads a node that is gone is torn
  and silent, and the thread has passed it in this block or comes to it before it could raise it (`Lost`).
  One lemma serves all steps of the user (`UserReads`); each step of the audio
  thread has its own. The three invariants were checked with TLC in all states of the run
  `patch` before they were proved.

`Induction` replaces the library's induction theorems, whose operator parameter the provers
cannot instantiate. What holds of every number, or sequence, is stated as a set that
has them all (`NumbersUpTo`, `SeqsByAppend`, from the minimal elements of a well-founded
relation); `RecursionExists` gives the recursive functions, and `FoldingExists` and
`FoldingSteps` say that `FoldLeft` is the last value of a function over the positions of the
sequence, each made from the one before. That is what the loops of the code (`update`,
`clear_connections`, the events of a removal) need.

Only model-checked: all liveness properties, among them `BlocksEnd` and `StopReturns`, which are
about fairness. Every safety invariant and every action property of a passing run has its
theorem.

Three proof attempts changed a model. `Converged` did not
hold beyond the bounds of its run: a client that acts on an old ACCEPT (`hasty`) may be told
of a node and never of its end. And the exception for a server that listens again was
wider than the code needs: a new session is only mixed up with the last if that is not
over (`Over`), that is, if a client is not idle or something is under way. `FindInSock` had a
`CASE` with two guards that could hold at once, of which TLC takes the first and TLA+ either;
a turn of `update` could not be followed until the guards were made exclusive, as the
code's are. `PatchIsNearest` also does not hold for every table, hence `EntriesAssumption`:
where a destination has an entry for any input beside one for a fixed input, an output may
compete for an input under one entry that is taken under the other.

## What the model found

1. `lock_guard` (`base/threads.hpp:112-122`) has two mutexes named `_mutex`: its
   `guard()` is inherited and locks the base's, its `default_guard()` locks its own. The
   async local buffer is not protected against the flip (run `userlost`).
2. `user_process_context::push_async_event` returns before it notifies
   (`new_graph/processor.tpp:75-77`), so the waiting async thread sleeps on
   (run `userwake`).
3. `hetero_deque::push_back` into a full, never popped deque overwrites its first
   element and returns true (run `full`).
4. A control that is set by an event and then directly ends up, on the RT side, with
   the older value (run `stale`).

An observation on the graph has no statement in the repository to set it against and is kept as
a hazard: a sink that is removed while a flip cuts its removal in two is processed once
more without being advanced, and is skipped for one block when it is added again.

What the later modules show appears as exceptions in their properties, named by history
variables, and has no run of its own: most of it has no statement in the repository to be
set against, or the code admits it ("TODO: Thread synch!"). The cached input:

* `set_backwards` notifies nobody, although it changes what is available: a reader that
  sleeps and a `take` that waits may wait for each other (`starved`).
* `stop` changes its flag and notifies without the mutex: between the reader's test and
  its wait the notification is lost (`missed`).
* Turned half way, the stream is not continuous, the reader's next position may fail the
  assertion at `io/caching_file_input.tpp:211`, and a block that was tested for before
  may overwrite frames not read yet (`raced`). After `seek(0)` the reader goes on
  where it was: what is heard is not the start of the file.

The session:

* An ACCEPT of an attempt given up is taken for the answer to the next one
  (`net/osc_client.cpp:184`, FIXME at 193), so two hosts use different identifiers (`hasty`).
  Such a client may also be told of a node and never of its end.
* A client that dies and returns before the server has missed it gets the same identifier
  and numbers its nodes from the start, so that names collide (`reborn`); a repeated ADD
  makes two nodes of one name.
* A server that stops and listens once more before the last session is over counts
  identifiers from 1 again (`net/osc_server.cpp:106`), while the old ones are still in use (`again`).
  TLC finds it on a larger instance than the run's, and `NamesStaySound` needs the exception.
* Nothing decides between two changes at the same time (`conflicts`), and a late joiner is
  not told what exists (TODO, `net/osc_server.cpp:234`).
* `osc_server::update` passes an address that is freed meanwhile to `delete_target`.

The world and the legacy engine:

* `delete_node` destroys a node at once while its sockets are still silent: in the first
  block of a connection the audio thread may be inside it (`graph/node_manager.cpp:90-99`).
* A socket connected while the audio thread is between reading `src_obj` and connecting it
  keeps the old source for good (`graph/node.cpp:286-290`; `torn`).
* `node_param::update_out` overwrites a position set in the middle of a block
  (`graph/node_param.cpp:60-79`; `late`).
* The patcher measures the links of a moved node before the engine takes its position
  (`world/patcher_dynamic.cpp:367`): after a drag the patch is that of the position before.
* What blocks do not reach never gets its new position, its connection or its deletion.
  `world::clear` starts again from a node whose deletion is deferred, and does not end.

## Abstractions and limits

* One user thread. The contexts' pushes by several user threads would serialise on the
  same mutexes, but graph operations are not thread safe in the code either.
* `try_lock` does not fail spuriously (the standard allows it); a spurious failure would
  look like a longer contention: a postponed flip.
* Deques are measured in events. `DequePush` is what `HeteroDeque` shows for events of
  one size and deques that hold at least three; for smaller deques the code's wrap
  also writes into the header of the last element. The real deques hold 1 MiB, so the
  small `QueueSize` of the runs stands for "nearly full".
* Exceptions thrown by a process node's `start()` or by event constructors, and the
  start and stop of nodes added while running, are left out; `set_block_size` and
  `set_frame_rate` are `assert(false)` in the code.
* `GraphSync`: one patch, no nested patches or patch ports, no output controls, no
  destruction of nodes. The order of the references that `disconnect` visits is
  arbitrary but fixed. A flip is modelled where it matters, after any prefix of the
  events, by the commuting of user steps with the flip.
* `CachingInput`: files longer than a block, blocks not longer than half the ring, `seek`
  to the start only (the sampler does no other); `soft_seek` has no callers.
* `OscSession`: nodes with one parameter; a client keeps its port. The early returns of
  `_param_cb`, which would leave `m_skip` set, need a parameter that the sender does not
  have. A port that cannot be bound and `osc_passive` are left out.
* `Patch`: operations of the user are atomic, fades take one block, audio links of
  first outputs only, no muting, no `set_info`, no change of the patcher after
  the start. Positions are on a line, so a distance is one coordinate.

### Not modelled

Device drivers, files and buffered adapters (calls of libraries); the sound ranges and
sample algorithms, which are most of the repository's lines, and the synthesis algorithms
(pure arithmetic on samples, templates); configuration, logging, applications and
interfaces (start-up wiring). Soft ports and `thread_async` remain in the plan. Exceptions,
object life time outside `Patch`, and memory order weaker than the locks give are in no
module.

## Plan

Done: event passing (`TripleBuffer`, `Processor`, `EventLanes`, `ProcessorProofs`,
`LanesProofs`), the deque (`HeteroDeque`, `DequeProofs`), the graph's two copies
(`GraphSync`, `GraphProofs`), the cached input over its ring
(`RingBuffer`, `CachingInput`, `StreamProofs`), sessions (`OscController`, `OscSession`,
`SessionProofs`), the world over the legacy engine (`NodeSockets`, `PatcherDynamic`,
`Patch`, `PatchProofs`); theorems about all of them, with what they share in
`Induction`. What is left:

1. `SoftPort`: the user writes a source and a request flag without a lock, the RT thread
   tests, connects and clears them in separate steps; an abstract "the latest request is
   honoured" specification, with the two hazards of `PROJECT.json` as its exceptions.
2. `ThreadAsync` beside `Processor`'s devices: start, the loop, join.
3. Output controls and nested patches in `GraphSync`.
4. `Patch`: patchers that are taken away; second outputs and control links.
