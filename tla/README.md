# Verification of rembrain_robotframework

TLA+ models of the framework's core, the TLC runs that check them and the
theorems TLAPS proves about them. All paths below are under
`src/rembrain_robot_framework/`. `PROJECT.json` holds the same inventory for
tools: components, runs, mutants, the source lines of every definition, hazards
and theorems.

## 1. The system

A robot program is a set of `RobotProcess`es, each an operating system process
with a user-written `run()`, connected by named queues. `RobotDispatcher` reads
the configuration, creates one `multiprocessing.Queue` for each consumer of a
name, hands the queues out and starts the processes. A process reaches the
outside world through `WsRobotProcess`, logs leave through `LogHandler`.

| Component | State | Operations | Interacts with | Hard parts |
|---|---|---|---|---|
| `RobotProcess` queues (`process.py`) | its consume and publish queues | `publish` (with and without `clear_on_overflow`), `consume` (with and without `clear_all_messages`), `clear_queues`, `free_resources` | other processes, through shared queues | publishers that also read; `full`, `empty`, `get`, `put` are separate steps; feeder threads; termination with a lock held |
| `RobotProcess` requests (`process.py`) | stash of answers, system queue | `send_request`, `get_request`, `wait_response`, `respond_to` | services, through request and system queues | answers in any order, of earlier lives, from several services; the stash overflows; requests evicted, drained or dropped; both sides block on full queues |
| `RobotProcess.heartbeat`, `Watcher` (`services/watcher.py`) | heartbeat queue, shared by all processes | put with a timeout; connect, take, send | a gate | a heartbeat taken and not sent; the watcher's thread ends on an unexpected exception and the queue stays full |
| `keep_alive`, `start_process` (`utils.py`) | none | the loop of restarts | every process | restart while queues keep their content |
| `RobotDispatcher` configuration (`dispatcher.py`) | configuration, queues, sizes | `__init__`, `get_queue_max_size` | hands the wiring to all processes | strings and lists, names nobody consumes |
| `RobotDispatcher` processes (`dispatcher.py`) | `processes`, `process_pool` | `start_processes`, `add_process`, `stop_process`, `run`, `check_queues_overflow` | the operating system; two threads of the host | a dictionary changed while it is iterated; processes that end by themselves, are started again or fail to start |
| shared objects (`dispatcher.py`, `utils.py`) | a dictionary | `add_shared_object`, `del_shared_object` | none | none |
| `LogHandler` (`logger/handler.py`) | bounded queue of records | `emit`; a thread that sends | a websocket gate | senders of closed connections live on beside the new one |
| logging set-up (`logger/utils.py`, ...) | none | set-up | `logging` | none |
| `WsRobotProcess` (`processes/ws.py`) | session | `run` for pull, push loop, bidirectional | a websocket gate; its queues | several tasks in one event loop that `publish` blocks |
| `StackMonitor` (`services/stack_monitor.py`) | counts of samples, a lock, a flag | start, stop; a thread that samples and one that prints | all threads of the process; `free_resources` waits for its lock | a thread that starts between two look-ups; printing and resetting in two threads; monitors of failed constructors |
| `Packer`, `Unpacker` (`pack/`) | `pack_type`, `_frame_index` | `pack`, `unpack` | image codecs | lengths in four bytes; the first packet fixes the type |
| `VideoPacker`, `VideoUnpacker` (`processes/`) | a packer, an unpacker, the shared camera | `run` | queues, a gate on the way, the host program's `shared.camera` | the camera is copied before the image is waited for; strays and restarts with another type |
| timer, ping, stub and camera processes | little | `run` | queues | none of their own |

What makes each correct:

- queues: messages of one publisher reach each queue's readers in order, none
  twice; every consumer of a name gets its copy; nothing arrives that was not
  published under that name; a publish returns;
- requests: `wait_response` blocks for something that is on its way, unless the
  request was thrown away; an answer that was given stays until the client has
  it, or has another service's in its place; the stash is bounded; calls return;
- configuration: an accepted one gives every publisher one queue per consumer
  and every consumer a publisher; a refused one deserves it;
- processes: none runs outside the pool but those a second `start_processes`
  replaces; the two dictionaries agree; a queue that stays full is reported;
- senders (`LogHandler`, push loop): order, no doubles, a closed connection
  costs at most one message; the queue moves on and sessions are renewed;
- services: samples are counted and printed once; neither monitor nor heartbeat
  holds the process up, whatever became of their threads; a monitor told to stop
  ends;
- video: `unpack` after `pack` gives the parts back, and nothing else is taken
  for a packet; the camera data belongs to the image it comes with.

## 2. Modules

| Module | Models | Uses |
|---|---|---|
| `MpQueue` | `multiprocessing.Queue`, as the framework relies on it (external): slots, feeder buffers, pipe, reader lock | |
| `QueueWiring` | the dictionaries of queues a process is handed, as it relies on them | |
| `ProcessQueues` | `publish`, `consume`, `clear_queues`, `keep_alive`, termination | extends `MpQueue`, `QueueWiring` |
| `PersonalMessages` | requests and answers | |
| `DispatcherConfig` | `RobotDispatcher.__init__` | extends `QueueWiring` |
| `DispatcherLifecycle` | the dispatcher at run time | |
| `LossyChannel` | abstract: what the senders promise | |
| `LogHandler` | `emit` and the sending thread | implements `LossyChannel` |
| `WsRobotProcess` | sessions of the websocket process | implements `LossyChannel` |
| `StackMonitor` | the two threads of the stack monitor and its stop | |
| `Heartbeats` | `heartbeat` and `Watcher` | |
| `ProcessServices` | one process with both, through construction, `run`, `free_resources` and `keep_alive` | composes `StackMonitor` and `Heartbeats` |
| `Packing` | the layout of packets: `pack` and `unpack` as operators | |
| `VideoStream` | `VideoPacker` and `VideoUnpacker`, with the way between them | extends `Packing` |
| `SequenceFacts` | lemmas about sequences | |
| `RobotProcessProofs` | theorems about a process | `ProcessQueues`, `ProcessServices` |
| `DispatcherProofs` | theorems about the dispatcher | `DispatcherConfig`, `DispatcherLifecycle` |
| `PersonalMessagesProofs`, `LossyChannelProofs`, `LogHandlerProofs`, `WsRobotProcessProofs`, `VideoStreamProofs` | theorems | the module each is named for |
| `MC...` | small instances for TLC | the module each is named for |

Definitions named after `\* Fault:` are wrong variants of the definition that
follows. No specification uses them; each serves to see that a property would
catch that mistake.

### Queues: `MpQueue`, `ProcessQueues`

A queue is `buffer` (put, not yet written by the feeder thread of the putting
process), `pipe` (readable) and `reader` (holder of the reader lock). `full()`
counts both parts, `empty()` sees the pipe alone; this is why a cleared queue may
still deliver old messages. A process is at a location `pc`: `publish` is a loop
over `todo`, the queues of the name, with one step each for `full()`, the
evicting `get()` and `put()`; `consume` is a `get()` and, with
`clear_all_messages`, the loop of `empty()` and `get()`. Every `get()` is two
steps, lock and read. `Leave`, `ClearNext`, `ClearCheck`, `ClearGet`,
`ClearTimeout` and `Again` are `free_resources` and `keep_alive`. `Stop` is
`terminate()`: what the process had not fed stays in its slots, a lock it holds
is never released. A message is its publisher and number. `run()` is the user's:
it makes any call at any time, within `Flags`, `CanLeave` and the bound
`MaxSent`.

### Requests: `PersonalMessages`

`put` and `get` are single steps here; the detour over a feeder thread can only
reorder messages of different producers, which the order of their puts does as
well. A uid is client, life and number, unique like `uuid4`; an answer is a uid
and the service that gave it. The client's calls are `SendRequest` and
`WaitResponse`. `send_request` serves one listener after the other with
`PutRequest`; with `clear_on_overflow` each put follows the loop of `LookFull` and
`Evict`, where `Turn` says which. `wait_response` looks the stash up once and then
receives (`Receive`). The stash is the code's dictionary, one service per uid: the
answer of a second listener replaces that of the first. `Overflow` is the
exception of a full stash, which `run()` catches, keeping the stash, or which ends
the life; `Reborn` is the new process object: an empty stash beside the old system
queue. A service takes a request (`GetRequest`), with `clear_all_messages` through
the loop of `LookEmpty` and `GetLater` that keeps the last one, answers those in
hand in any order (`RespondTo`) or fails. `lost` is history: which copies of
requests were evicted, drained or dropped by a failing service. `Stuck` names the
two calls that then block for good: an eviction whose message the service has
taken, and a wait for a request every copy of which is lost.

### Configuration: `DispatcherConfig`

The state machine follows `__init__` round by round of its loops: `Compare`,
`CheckProcess` (with Python's `set` of an entry: the letters of a bare string),
`CollectSizes`, `CollectConsumed` and `CollectPublished` (one name of one
process), `Collected`, `CreateQueue` (one consumer of one name), `GiveQueue` (one
publisher), `Finish`. `at`, `item` and `giving` count the rounds of a loop and of
the two inside it. All configurations over the given entries are initial states,
so the run is an exhaustive test of the constructor. A configuration without a
dictionary `processes` is no input: `dispatcher.py:86-89` refuses it before the
first step. The module and
`ProcessServices` name their specification `ConfigSpec` and `ServicesSpec`, and
their type invariants likewise, because a proof module joins each with another
module of its component.

### Processes: `DispatcherLifecycle`

One thread of the host program calls `start_processes`, `add_process` and
`stop_process`, in any order and again; another is in `run()`. `_run_process` puts
what it starts into the pool (`RunProcess`), in the place of what was there; where
`start()` raises, the call ends (`RunFails`) and leaves registered names without a
process. Three histories say what became of the calls: `started`, a
`start_processes` has come to its end; `failed`, the names whose last start raised;
`replaced`, the processes a `start_processes` put others in the place of.
`spawned` lists the operating system
processes, `pool` and `processes` are the two dictionaries. The check reads one
process (`CheckNext`, in the order of insertion) and one queue (`CheckRead`) at a
time and crashes, like the code, when the dictionary's size has changed under its
iterator. Keys that changed while their number stayed (one process stopped and one
added) leave it open, as Python does, whether the iterator raises, ends early or
goes on; `stayed`, what is left of the keys it began with, tells. A check that ends
or crashes drops what it had in hand (`CheckOver`). `Traffic` moves
queue levels among `Levels`. `since` is history: the queues full all along.

### Senders: `LossyChannel`, `LogHandler`, `WsRobotProcess`

`LossyChannel` numbers messages as they are accepted and keeps `waiting`,
`delivered` and `lost`, one place of `lost` per closed connection. A connection
closes with a message under way (`BreakUnderWay`) or without (`Break`), in which
case its sender may still cost one message (`Lose`), and not necessarily the
first one waiting. `LogHandler` keeps the task `_send_log_record` of *every*
connection, because `gather()` does not cancel the other tasks when one fails.
In `WsRobotProcess` the tasks of an ended session are cancelled at `Finish`;
`publishing # 0` says that a task sits in a blocking `publish` or `respond_to`
and the event loop with it. The process is the only reader of its inbox, so its
`is_empty()` and `consume()` are one step (`Take`); that a publisher with
`clear_on_overflow` could come in between is a hazard left to `ProcessQueues`. Both
map `waiting` to the message in the hand of the open connection followed by the
queue.

### Services: `StackMonitor`, `Heartbeats`, `ProcessServices`

`thread` is what Python's `threading` knows of each thread; a thread that has
started and is not in the list yet, or has left it and still runs, is what
`_get_frames` stumbles over. Each process object has its own monitor, lock and
counts, in the one operating system process, so the monitor of an earlier life
samples the threads of the next. `_monitor_fn` is `Check`, `List` (under the
lock, `threading.enumerate()`) and then `Sample` or `SampleFails`, as the frames
found match the list or not; `__print` is `PrintCounts` and `Clear`, by the
printing thread or by `stop_monitoring`. A printing thread that has looked at its
flag just before `stop_monitoring` sets it prints once more (`flagged` is `late`
then). A round of stacks counts as one.

`Heartbeats` counts heartbeats. The watcher opens a connection, looks at the
queue once, takes a heartbeat and sends it; a closed connection costs it.
`send()` is given the request object where its JSON is meant, so the send ends
the thread with a `TypeError` (`SendFails`) unless the connection is closed
already: the watcher is no lossy channel, it delivers nothing. What remains to
check is that the processes do not suffer.

`ProcessServices` follows the main thread of one process through
`start_process`: the monitor's two threads are started by the constructor, the
constructor may fail afterwards, `run()` beats the heart at any time (the first
put starts a feeder thread, which the monitor may meet), `free_resources` prints
and stops, `keep_alive` constructs again or closes.

### Video: `Packing`, `VideoStream`

A packet is a sequence of bytes and `Packing` computes it as the code does, with
lengths of four bytes, the lowest first; what the image codecs and `json` make
of an image is a constant. `Unpack` returns the parts, three Nones, or raises.
In `VideoStream` a packet travels beside a history of what was packed into it.
The way loses packets and brings empty frames and packets of others, of which
`VideoAssumption` says that no packer made them. `Replaced` is the host program
that adds the packer with another `pack_type`; `PackFails` a restart by
`keep_alive`.

## 3. Runs

| Run | Instance | Shows |
|---|---|---|
| `queues_mix` | two publishers, one restarting consumer, three queues of 1 or 2 slots; evicting and clearing on both sides; each of the three terminated at any point; a name with a queue nobody reads | types and bounds, order, copies, provenance, the inductive invariant `OrderInv` |
| `queues_live` | two publishers of one name, two consumers, one of which leaves again and again | plain publishes return, every message reaches every consumer |
| `overflow_stuck` | one evicting publisher, one consumer | **violation**, see 6 |
| `config` | all configurations of 3 processes, each consuming and publishing nothing, a bare string or a list, over 2 names of which one is a letter of the other, and right and wrong process sets | wiring, feeding, justified refusals, self loops of lists refused |
| `config_publish_only` | 2 processes, one name as string or list | **violation**, see 6 |
| `personal` | one client, two lives, two services on its requests, one failing; eviction and draining | kept answers, waits for something, stash |
| `personal_live` | two clients, one failing service, queues of one slot; eviction and draining | calls and requests end but for those that are stuck, at the limit of what the queues hold |
| `lifecycle` | two configured processes, one added at run time, 4 spawns, two names whose start may fail; a queue of 3 slots, full or empty | pool, registration, overflow reports, calls return |
| `logs` | queue of 3, 6 records, 4 connections | refinement of `LossyChannel`, accounting, notices, records leave |
| `ws` | all three commands, 4 messages, 4 frames, 2 closes from outside | refinement of `LossyChannel`, forwarding, renewal, messages leave |
| `services` | two lives of a monitored process, a queue of one heartbeat shared with others, a watcher that may end at any send | samples counted once, the process goes on, monitors end |
| `video` | 3 images, both types, one change of the camera, of the type and one stray; each side with and without the shared camera | packets unpacked as packed, in order, none of another type; fresh camera data |

### Bounds, and why they are enough

- `MaxSent` 1 or 2 messages per publisher, queues of 1 and 2 slots: the smallest
  numbers with which a queue is empty, partly full and full, two messages of one
  publisher can be swapped, and two publishers compete for a slot.
  `overflow_stuck` needs 3 messages to fill a queue of 2.
- One name with two queues and one with one queue: a call that stops between two
  queues, and a `clear_queues` of several names, one of them unknown.
- `MaxRecords` 6 with `MaxLogSize` 3: two overloads with a recovery in between.
  `MaxConnections` 4: three senders of closed connections beside the newest. The
  last connection does not close, otherwise nothing would have to be delivered.
- `MaxCloses` 2: a second session ends like the first. Sessions the process ends
  itself are not bounded.
- `MaxRequests` 2 with `MaxLives` 2 (3 and 1 in the live run), `MaxStash` 1 (50 in
  the code): a stash below, at and above its limit, and answers of an earlier
  life. `RequestSize` 1 (a second request finds the queue full and evicts, or is
  drained with the first) and `SystemSize` 2.
- in the live run, `MaxAsked` 2 with `RequestSize` = `SystemSize` = `MaxInHand` = 1: the
  most requests a client may leave open without the deadlock of `send_request`
  against `respond_to` and without an overflow of the stash. Both are hazards of
  their own, with which `CallsReturn` and `EveryRequestReturns` fail in the model as in
  the code; the properties say that below that limit only `Stuck` calls stay.
- `MaxSpawns` 4: two processes started twice, or one added and all three started,
  or one of three stopped and added again. The queue is empty or full: the
  property speaks of full queues, so the levels between, and queues that hide
  their size, are the theorem's alone.
- `MaxLives` 2 with `MaxPolls` 1: the monitor of one life, stopped or orphaned,
  beside that of the next; a round may be counted before, between or after
  two prints. More rounds only repeat this. `WatcherSize` 1: empty and full.
- `MaxImages` 3 with `MaxReplaced` 1: two packets of one type with one of the other
  before, between or after. Images of one and two bytes and an empty depth image
  make the three lengths differ; strays have an unknown type, a cut header and
  a byte too many. Longer images and lengths are the proofs' (`RoundTrip`).

`CHECK_DEADLOCK FALSE` stands in every configuration: all of these systems may
stop, when their bounds are used up, when everything ended, or when `__init__`
is done.

### Fairness

Weak fairness on the steps of a thread that is not blocked: the operating system
schedules threads and the event loop schedules tasks. Beyond that:

- `ProcessQueues`: strong fairness on `Construct` and on `Consume`. A process
  whose constructor may fail does not fail for ever, and a `run()` that consumes
  comes back to its consume call even if it is restarted again and again. No
  fairness makes a user publish, leave or be stopped.
- `PersonalMessages`: a service takes requests and answers each one it holds,
  unless it fails; a client waits for what it asked; the loops of eviction and
  draining go on where they are not blocked. The docstring leaves it to the
  service to answer (`process.py:327-328`).
- `LogHandler`, `WsRobotProcess`: connecting succeeds eventually (both retry for
  ever); nothing makes a connection close or a message arrive.
- `DispatcherLifecycle`: a process told to terminate does.
- `ProcessServices`: threads start and end and monitors take their steps. Strong
  fairness on `List`, `StopPrints` and `Stops`, which wait for the lock: whoever
  holds it sleeps for seconds between two holds, so that it is free again and
  again and does not escape them for ever. A printing thread told to stop prints
  what it had begun, and ends. Nothing is assumed of the watcher, of
  the gate or of the user's `run()`.

## 4. Proofs

All of them hold for every value of the constants within the `ASSUME`s of the
modules, so for any number of processes, queues, records and connections. The
bounds are arbitrary numbers there. Every safety invariant and every refinement
that a passing run checks is also the statement of a theorem.

A proof module that joins two modules has the assumptions of both in scope; each
theorem speaks of one of the two specifications and its leaves cite the
assumption of that one. The assumptions say what a constant is: natural bounds,
names and queues from their sets, at most one queue of a name per consumer. The
configuration's (`ConfigAssumption`) are that it is a dictionary (no process
twice), that sizes are natural numbers and that names consist of letters.

| Theorem | Statement |
|---|---|
| `RobotProcessProofs!TypeCorrect` | `Spec => []TypeOK`, with the slots of every queue |
| `RobotProcessProofs!OrderInvariant` | `Spec => []OrderInv` |
| `RobotProcessProofs!InOrder` | `Spec => []DeliveryOrder` |
| `RobotProcessProofs!NothingElse`, `CopyForEveryone` | `Spec => []OnlyPublished`, `Spec => []EveryoneGetsACopy` |
| `RobotProcessProofs!OnlyTerminateLeavesLock` | `Spec => []ReaderHeld` |
| `RobotProcessProofs!ServicesTypeCorrect` | `ServicesSpec => []ServicesTypeOK`, with the queue of heartbeats |
| `RobotProcessProofs!NoSampleLost` | `ServicesSpec => []SamplesCounted` |
| `RobotProcessProofs!LockNeverLeft` | `ServicesSpec => []LockHeld` |
| `PersonalMessagesProofs!TypeCorrect` | `Spec => []TypeOK`, with the sizes of request and system queues |
| `PersonalMessagesProofs!AnswersKept` | `Spec => []AnswerKept`: an answer given is in the system queue until its client has it, or another service's answer to the same request |
| `PersonalMessagesProofs!WaitIsForSomething` | `Spec => []AnswerComing`: who waits has a request or an answer on its way, or lost every copy of the request |
| `PersonalMessagesProofs!StashBounded`, `NeverMissed` | `Spec => []StashBound`, `Spec => []WaitedNotStashed` |
| `DispatcherProofs!ConfigTypeCorrect` | `ConfigSpec => []ConfigTypeOK` |
| `DispatcherProofs!NoSelfLoops`, `ComplaintsJustified` | `ConfigSpec => []SelfLoopsRefused`, `ConfigSpec => []RefusedForCause` |
| `DispatcherProofs!ConsumersFed` | `ConfigSpec => []ConsumersAreFed` |
| `DispatcherProofs!QueuePerConsumer` | `ConfigSpec => []OneQueuePerConsumer`, if no list names a queue twice |
| `DispatcherProofs!HandedOver` | `ConfigSpec => []HandedIsWired`, if no list names a queue twice |
| `DispatcherProofs!TypeCorrect` | `Spec => []TypeOK` of `DispatcherLifecycle`, with the sizes of the queues |
| `DispatcherProofs!NoneEscapes` | `Spec => []AliveInPool`: in any order of the calls, only `start_processes` takes a running process out of the pool |
| `DispatcherProofs!DictionariesAgree` | `Spec => []PoolRegistered`, also where starts raise |
| `DispatcherProofs!NoticesFullQueues` | `Spec => []FullQueueReported` |
| `LossyChannelProofs!ChannelInOrder`, `ChannelAccounted` | the abstract channel keeps order and accounts for everything |
| `LogHandlerProofs!TypeCorrect` | `Spec => []TypeOK`, with the bound of the log queue |
| `LogHandlerProofs!NoticedOnce` | `Spec => []OneNoticePerOverload` |
| `LogHandlerProofs!ImplementsChannel` | `Spec => LossyChannelSpec` |
| `LogHandlerProofs!RecordsAccounted` | `Spec => []Accounted` |
| `WsRobotProcessProofs!TypeCorrect`, `PulledIsForwarded` | `Spec => []TypeOK`, `Spec => []PulledForwarded` |
| `WsRobotProcessProofs!ImplementsChannel` | `Spec => LossyChannelSpec` |
| `VideoStreamProofs!RoundTrip` | `Unpack` of `Packet` gives the parts, for any bytes of any length below 2^32 |
| `VideoStreamProofs!OnlyPackets` | what `Unpack` turns into parts is a `Packet` of them |
| `VideoStreamProofs!Fresh` | `Spec => []CameraFresh` |
| `VideoStreamProofs!Delivered` | every tuple published is three Nones or the parts of a packet of `VideoPacker` that arrived |
| `VideoStreamProofs!UnpackedInOrder` | `Spec => []Unpacked`: what is published are the parts of the packets that arrived, in their order, none left out |

**Order of delivery.** `DeliveryOrder` speaks of what was taken only, and a step
that takes a message preserves it only if the message is younger than all those
of its publisher taken before. `OrderInv` adds what that needs: taken, pipe and
buffer of a queue precede each other (`FlowOrder`); a running publish owes a queue
a message younger than all that are there (`IdsBounded`); and owes it once
(`TodoOK`, from the assumption that no queue is bound twice, which
`HandedOver` proves of the dispatcher). The feeder step is the
interesting one: it takes a message out of the middle of the buffer, but the
oldest of its producer. The proof has one lemma per action, resting on the
lemmas of `SequenceFacts`.

**Reader locks.** `ReaderHeld` says who may hold the lock of a queue: a process
inside a `get()` of that queue, or one terminated there. So a `get()` that hangs
does so on an empty queue, behind another process in `get()` of the same queue
(the evicting publisher of `overflow_stuck`) or behind a terminated one, never
on a lock that a call, an exception or a restart left behind. It is inductive
with the types alone.

**What reaches which queue.** `EveryoneGetsACopy` and `OnlyPublished` speak of
the queues of a name; the step that may break them is a put, and whether it goes
to a right queue was decided when the call began. `SpreadInv` keeps what was
decided: a running publish owes its last message to queues of its name only
(`OwedToRecipients`), and each recipient of each message has seen it or is owed
it (`AllReached`), also by a publisher that was terminated in the middle.

**Kept answers.** `AnswerKept` speaks of the present life of a client, so the
step that may break it is `Reborn`, which empties the stash: an answer whose life
is the one that begins would be lost. `Begun` says that there is none, because no
uid of a life not yet begun is anywhere: not asked for, queued, in hand or
answered. It rests on `WhereFrom` and `AnswerFrom`, which say where requests and
answers come from; `AnswerTo` says where an answer goes that leaves the system
queue: into the stash under its uid, where it may replace that of another
service, or to the caller. Nothing is assumed of the order in which services
answer or the client waits.

**Waiting for something.** `AnswerComing` follows the request: `Placed` says that
each listener's copy of what nobody has waited for yet is `Accounted` for, in its
queue, in its hands, answered or lost, but for the listeners a running
`send_request` comes to. If not all copies are lost and none is with a service,
one was answered; by `AnswerKept` the client has an answer or it is in the system
queue; it is not in the stash, which was looked up (`StashFits`), and it was not
returned, because `Untold` says that what is asked for was not.

**The stash.** `StashFits` is a property of a single client: `StashStep`, `AskStep`
and `HasStep` list what a step may do to its stash, to what it has asked for and to
what it has been given, `ClientSteps` shows of each action that it does one of
these, and `StashKept` that none of them breaks the bound or stashes the answer
waited for.

**The monitor's lock.** `SamplesCounted` compares what was sampled with what was
printed and what is counted while nobody is in the middle of printing.
`SampleInv` says it at every point: whoever prints reports what is counted until
he has cleared it, which holds because the sampling thread counts only while it
has the lock itself (`at[l] = "frames"` exactly while `lock[l] = "monitor"`), and
because a round that is begun is within the bound. One lemma per action of
`StackMonitor` for the monitor it moves, one (`SampledOthers`) for the monitors of the other
lives; the main thread, the heartbeats and the watcher keep their part of the
types (`HostTyped`) and leave the samples alone. `LockHeld` is the safety core of
`ProcessGoesOn` and `MonitorsEnd`, which wait for the lock: a thread of a monitor holds it
only while it is listed, so it does not take it along when it ends, and the main
thread only in the print of its present life. The fairness TLC then needs is that
whoever holds the lock takes its next step.

**The configuration.** Five invariants, each resting on the ones before.
`ConfigTyped` bounds the rounds by the loops. `ConfigChecked` says what the
checks have established so far: of the processes before `at`, and after the loop
of all. `CollectInv` relates the collected lists to a set, the pairs of process
and name taken up so far (`TakenUpTo`), which a round extends by one; that the
names of the outer loop are distinct is what lets a round of one name leave the
others alone. `BindInv` does the same for the queues: who has one (`bound`), that
its number leads to a queue of that name and size, and that no two have the same
number; a name whose first queue was made has a publisher. These give what is
accepted and what is refused. `OneQueuePerConsumer` needs two more: `SortInv`, the
collected processes are in the order of the configuration, hence none twice; and
`GiveInv`, a publisher has exactly the queues of the consumers bound so far, short
of the newest while the loop over the publishers has not come to it. Both are
false of a list that names a queue twice: its process is then twice among the consumers,
gets two queues and keeps the second, and nobody reads the first. That is the one
hypothesis (`NoRepeats`) of `QueuePerConsumer`; the run has no such list either.
`HandedOver` closes the circle: `Wired`, which `ProcessQueues` assumes of the
queues of its processes (`WiringAssumption`), holds of the dictionaries that
an accepted configuration ends with. What it does not give is the sizes: a
configured size of 0 makes a queue without a bound in Python, and `ProcessQueues`
has bounded queues only.

**The two dictionaries.** `PoolInv` says of the pool what the code takes for
granted: its entries are processes of their name that are registered (`PoolEntries`);
what a running `start_processes` or `add_process` has still to start is
registered, what `add_process` has still to start is not in the pool either, and
what `stop_process` works on is in it (`Pending`); a running `start_processes` has put
into the pool what it has come to, and after the first that came to its end, what
is registered is in the pool, about to be added, or failed to start last
(`Started`). `start_processes` alone finds an entry where it makes one, and that one
goes to `replaced`. The overflow check needs the other thread: `CheckInv` says
that a registered process already visited has had its full queues noticed, as
far as both stayed so all along; `FullQueueReported` then asks that the dictionary
is the one the check began with, because otherwise visited are not all.

**The lossy channel.** `Inv` of `LossyChannelProofs` is that delivered followed
by waiting is increasing (`Chain`) and that every accepted number is somewhere
(`Kept`). The step to watch is `Lose`: `lost[k] = 0` makes sure that no earlier
loss is forgotten.

**The log handler.** The invariant `Tasks` of `LogHandlerProofs` relates the
connections to the history: each closed connection has its place in `lost`; an
idle sender of a closed connection has cost nothing yet, which is what the guard
of `Lose` asks; a task without a record holds none; a thread that is about to
connect has no open connection. With it each action maps to a step of the
channel or to a stutter, one lemma each. `RecordsAccounted` then follows from
`ChannelAccounted` through `INSTANCE`, without another induction. `NoticedOnce`
needs that the flag says whether the last record was dropped.

**The push loop.** `Session` plays the part of `Tasks`: before the tasks start
there is no sender, only a sender holds a message, and a sender that is idle
when its connection has closed has cost nothing yet, so what it takes before
it is cancelled maps to `Lose`. A poll of the queue, a ping and everything of
pulling commands map to stutters.

**Packets.** `RoundTrip` rests on the arithmetic of four bytes (`WordNumber`) and
on two facts about slices of joined sequences: a slice within the first part is
a slice of it (`SliceKept`), the slice behind it is the second (`SliceEnd`).
`OnlyPackets` is the converse: four bytes are the word of their number
(`NumberWord`) and the slices join to the whole. `Carries` takes both along the
stream: whatever travels is a packet of a `VideoPacker` or a stray, and what
`Unpack` makes of it for an unpacker of either type is its parts or nothing.
`Unpacked` asks for an increasing map from what was published onto the packets to
show (`Kept`). It is inductive with `Knows`, that the unpacker's type is the
first packet's: a packet that arrives then joins `Kept` exactly if `FrameShown`
says that its parts are published, and the map goes on with it.

## 5. Only model-checked, and not modelled

Model-checked only:

- liveness under fairness (`PublishReturns`, `Delivered`, `CallsReturn`,
  `EveryRequestReturns`, `RecordsLeave`, `SessionsRenewed`, `MessagesLeave`,
  `ProcessGoesOn`, `MonitorsEnd`): beyond the prover, which has no rule for
  `ENABLED`.

Nothing else that a passing run checks is without a theorem. `LockHeld`,
`ReaderHeld` and `HandedIsWired` are proved and in no run; TLC found them to hold on
the instances of `services`, `queues_mix` and `config`, and a terminated process
that holds a lock to be reachable in the second.

Not modelled: the timer, ping, stub and camera processes, each a loop of consume
and publish without state, which `ProcessQueues` has in every order and with
every failure; shared objects, which belong to `multiprocessing`; the logging
set-up (`logger/utils.py` and the formatters), which chooses handlers once; models
and enums, which are data. Within the modelled parts: logging calls, the content
of messages, the parsers, image codecs and `json`, environment variables,
`generate`, exceptions of user code other than ending `run()`, exceptions of
`close_objects` and the `Darwin` branch of the overflow check.

What the models show not to hold, and no document rules out in so many words, is
listed with the hazards instead of being run: a publisher that clears on overflow still
blocks if another takes the slot it freed; eviction stops at the first free slot
(the docstring's wording, "will empty the queue", says more); clearing a queue
misses messages still in feeder buffers (`process.py:84`, "Clear all messages",
says more, too); a request evicted or drained is never answered, and nobody tells
the client that waits for it; a service's answer replaces another's to the same
request in the stash; two bare strings sharing a letter are
refused, while a queue named by a bare string on one side and in a list on the
other escapes the check against consuming what one publishes; a name repeated in
one list leaves a queue nobody reads; a queue that hides its size and is handed to
`add_process` is measured against the default size; a check that runs into a
change of the dictionary ends `run()`; a second `start_processes`, or one after
`add_process`, loses the processes that run from the pool; a start that raises
leaves names registered that can neither be added nor stopped; a process added
at run time has no system queue and gets no answers; the watcher never sends a
heartbeat; the monitor of a process whose constructor failed samples on for ever.

## 6. Findings

- `overflow_stuck` (`process.py:147`): `publish` with `clear_on_overflow` decides
  with `full()` and then calls a blocking `get()`. If the consumer takes the
  messages in between, the publisher waits for a message only it would publish,
  and holds the reader lock, so that the consumer is stuck as well.
- `config_publish_only` (`dispatcher.py:145`): `docs/config.rst` promises an
  error for queues without a consumer; only the publishers are checked, and the
  first `publish` raises: `KeyError`, or `ConfigurationError` if the process has no
  publish queue at all (`process.py:128-132`).

## 7. Plan

Done, in the order of importance: queues, configuration, requests, senders,
processes, services, video. Every component with state and concurrency of its
own is modelled, and every safety property of a passing run is proved.

Left:

1. System queues of processes added at run time: `PersonalMessages` composed with
   `DispatcherLifecycle`, once the code gives added processes a system queue.
2. The safety cores of the other liveness properties, as `LockHeld` and `ReaderHeld`
   are: who holds what when a call cannot go on.
