# Verification of gst_pipeline

`gst_pipeline` is a small video streaming service on GStreamer and gRPC
(`clang/`), with a set of GStreamer exercises (`tutorials/`). A server
(`ex_server.cpp`) accepts `bind` calls, gives each client a block of three UDP
ports and streams a test video to it; a client (`ex_client.cpp`) binds, waits
two seconds and shows what arrives. This directory holds TLA+ models of it, TLC
configurations and TLAPS proofs.

## The system

| component | state | operations | talks to |
|---|---|---|---|
| ServerBinder (`grpc_server.*`, `binder.proto`) | `service_table` (vector), `service_table_mutex`, `port_base`, `timestamp` | `bind`, `send_heartbeat`, `check_node_failure`, `update_timestamp` | clients over gRPC; workers and clock thread through shared memory |
| Streaming server (`ex_server.cpp`) | one loop index and one `ServiceInfo*` per worker, ten workers | `run_streamer`, `create_streamer`, `update_timestamp` thread | ServerBinder's fields, Streamer |
| Streamer (`streamer.*`) | pipeline, main loop, session | constructor, `make_video_session`, `setup_rtp_sender...`, `run`, destructor | GStreamer bus callbacks, RTP to the client |
| Viewer (`viewer.*`) | pipeline, main loop, session | the same for receiving, `rtp_pad_added_handler` | RTP from the server |
| Stream session (`stream_session.h`) | reference count, bin, rtp_bin, caps | create, ref, unref | closures of rtpbin's signals |
| Bus callbacks (`cb_basic.h`, `gst_common.hpp`) | pointer to the common data | eos, state, warning, error | quit the main loop |
| Client (`ex_client.cpp`, `grpc_client.*`) | `bind_info` | `bind_request`, then a Viewer | ServerBinder |
| RTP helpers (`aux.h`, `gst_wrapper.h`) | none | build rtx bins, pt-map lookup | rtpbin |
| `creator.h` | - | legacy; includes headers that no longer exist | nothing |
| `tutorials/` | one `CustomData` per program | appsrc feeding, playback control, buffering, dynamic linking, bus loops, discovery | GStreamer |

How they interact. gRPC runs `bind` and `send_heartbeat` on threads of its own.
`bind` reads `port_base` for the reply (line 58) and again for the table entry
(64), pushes the entry under `service_table_mutex` (68-70) and bumps
`port_base` without a lock (72). Ten worker threads scan the vector without the
lock; a worker that meets a NON_ACTIVATED entry locks, checks again, unlocks,
and then marks the entry, keeps a pointer to it and runs a streamer until its
main loop quits. Then it unlocks the mutex a second time (`ex_server.cpp:84`).
The clock thread refreshes `timestamp` once a second. Nothing in the repository
calls `check_node_failure` and `ex_client` sends no heartbeats; both are part of
the service's interface and are modelled as written. (`send_heartbeat` calls a
setter through a `const` reference, which protobuf's generated class does not
allow; the model reads it as the reference without `const`.)

What is hard here:

* several `bind` calls on one unprotected counter, and two reads of it in a call;
* unlocked reads and writes of vector elements while `push_back` may be copying
  them to a new buffer;
* a recheck under the lock whose conclusion is recorded after the unlock;
* an unlock by a thread that does not own the mutex;
* a pointer into the vector kept across the set-up of a pipeline;
* workers as a limited resource that is only given back when a stream ends;
* time stamps taken from a lagging clock, outside the lock;
* one default main context for all streamers, so that one worker's thread
  handles the errors of another worker's pipeline;
* a session whose creator gives up its reference before streaming threads use it,
  and RTP pads that appear twice;
* in the tutorials, callbacks of the main loop against those of streaming
  threads, and cached state, duration and counts against messages that lag.

What makes each component correct: a bind is registered once, on ports of its
own, before it is answered; the mutex protects what it is taken for; a
registered service gets one streamer, which sends where the client listens; no
bind hangs and no service waits while a worker is free; failure detection
reports the dead and only them; a session is freed once and not used after;
a main loop that was told to quit ends; a pad is linked once.

`PROJECT.json` lists every hazard at its line with the properties that cover it.

## Modules

| module | models | extends |
|---|---|---|
| `ServerBinder` | `bind` in six steps, one for each access to shared state; the table, the mutex, the counter | |
| `Server` | the worker loop of `run_streamer`, `create_streamer`; composition with the handlers; all server properties | `ServerBinder` |
| `PortRegistry` | abstract: a client gets a service on three ports of its own and is told of it afterwards | |
| `ServerRefinement` | the refinement mapping of `Server` to `PortRegistry` | `Server` |
| `NodeFailure` | clock thread, `last_seen`, heartbeats, `check_node_failure` | |
| `StreamerLoop` | main loops of the server's streamers on the one default context, `cb_error`, `~Streamer` | |
| `Viewer` | `ex_client`, `Viewer`, session references, the handlers on rtpbin's streaming threads | |
| `StreamingService` | the server and the viewer of one client, composed | `Server`, instance of `Viewer` |
| `AppSrcFeed` | the need-data / enough-data protocol of `app_src_sink.c` and `appsrc_playbin.c` | |
| `GtkPlayer` | all callbacks of `gtk_player.c` | |
| `TimeManagement` | the message loop of `time_management.c` | |
| `CustomPlaybin` | messages and keyboard of `custom_playbin.c` | |
| `Streaming` | `cb_msg` of `streaming.c` and `progressive_streaming.c`, the queue they play from, the graph of the second | |
| `PadLinker` | `pad_added_handler` of `dynamic_pipeline.c` and `transcoder.c` on several streaming threads, and their main loops | |
| `TeeBranches` | tee, queues and prerolling sinks of `multithread.c` and `app_src_sink.c`, release and teardown | |
| `RateControl` | the keys of `playback_basic.c` and the seek each sends | |
| `Discoverer` | `print_topology` of `discoverer.c` and the callbacks and loop around it | |
| `PadCapabilities` | caps negotiation and message loop of `pad_capabilities.c` | |
| `MCServer`, `MCNodeFailure`, `MCStreamerLoop`, `MCStreamingService`, `MCGtkPlayer` | TLC instances | |
| `MCTutorials` | TLC instance of the seven small tutorial programs, one of them per behaviour | instances of `TimeManagement` and the six above |
| `ServerProofs` | types, port lattice, who holds the mutex, marked entries | `ServerRefinement` |
| `RegistryProofs` | registration exactly once, which entry each worker serves and streams for, refinement of `PortRegistry` | `ServerProofs` |
| `NodeFailureProofs` | failure detection, with own and with shared addresses | `NodeFailure` |
| `AppSrcProofs` | one idle source, a bounded queue, no lost wake-up | `AppSrcFeed` |
| `StreamerLoopProofs` | who quits which loop, when it is freed, who owns the context, where an error goes | `StreamerLoop` |
| `ServiceProofs` | session, pipeline and streams of a viewer with its server | `StreamingService`, `RegistryProofs` |
| `GtkPlayerProofs` | cached state, slider and tags of the player | `GtkPlayer` |
| `TutorialProofs` | the seven small tutorial programs, each with an invariant of its own | `MCTutorials` |

GStreamer, GLib and GTK are external: each module says in its head what it takes
them to do. Definitions that begin with "Mutated form" are variants of the
definition after them, as a plausible mistake would make it; no specification
uses them.

### ServerBinder and Server

A thread is a program counter. A handler goes `idle -> fill -> lock -> push ->
load -> store -> idle`: `BindReply` (line 58), `BindFill` (60-66), `BindLock`
(68), `BindPush` (69-70), `BindLoad` and `BindStore` (the load and the store of
line 72, and the return). A worker goes `scan -> spotted -> locked -> set ->
take -> create -> run -> scan`: the unlocked check of line 69
(`SkipActivated`, `SpotNonActivated`), `LockTable` (71), `LoseRace` or `WinRace`
(73-76 and 84), `SetActivated` (78), `TakeInfo` (80), `CreateStreamer` (81, with
the dereferences at 52-54) and `StreamerEnds` (57, then the fall-through unlock
at 84). `NextRound` is the end of the for loop and `sleep(1)`.

Undefined behaviour is a choice among what the build does.

* A `push_back` that moves the vector copies it at `BindLock` and installs the
  copy at `BindPush`. A mark made in between is lost, which is the write to the
  old buffer after that element was copied; a write before the copy is the same
  as one before `BindLock`. In between, and past the end, an unlocked
  `status()` may return either status (`StatusReads`).
* `TakeInfo` records which buffer the pointer points into. If the vector has
  moved since, `CreateStreamer` reads `Stray`, a value that is nobody's address;
  reading the old bytes intact is the same as reading before the move.
* `std::mutex` on glibc lets any thread unlock: `StreamerEnds` frees the mutex
  whoever holds it, and two push_backs may then overlap.
* Crashes of the process, which end every property, are left out.

Left out: `server_ip` (constant), wording of messages, GStreamer elements.
`last_seen` and `timestamp` are in `NodeFailure`. A client stands for a bind
call; the code never compares addresses in `bind`. A table index is one more
than in the code.

### NodeFailure

`bind` reads `timestamp` (`BindFill`) before it holds the mutex (`BindPush`).
`send_heartbeat` and `check_node_failure` hold it, so they are one step. The
environment is a client that is heard at least once in `Period` seconds until it
dies, and a clock thread at most `Lag` seconds late; `Tick` waits for them.

### StreamerLoop

A streamer's thread goes `new -> built -> start -> wait/iterate -> returned ->
null -> gone`: constructor (`NewStreamer`, with `make_common_data`),
`set_state(PLAYING)` (`SetPlaying`), `g_main_loop_run` (`EnterRun`, `TakeOver`,
`LeaveRun`), then `set_state(NULL)` and `g_main_loop_unref` of the destructor.
`g_main_loop_new(NULL)` puts every loop on the default context, which one thread
owns at a time (`owner`); whoever owns it takes an error off any pipeline's bus
(`Dispatch`) and runs `cb_error`, which quits that pipeline's loop. Warnings and
state changes are printed only.

### Viewer and StreamingService

The client's main thread goes through `bind_request`, `NewViewer`,
`make_video_session`, `ConnectSignals`, `LinkRtpPads`, `UnrefAndRun`,
`Teardown`; each sender that reaches the port has a streaming thread of its own
(`FirstPacket`, which is external, then `request_pt_map`, `AddSessionBin` and
`LinkPad`, the last two being `rtp_pad_added_handler`). `StreamingService` takes the reply of `Server`'s bind
for `bind_request` and the server's running workers for senders. All programs
use 0.0.0.0, so the port alone decides who receives.

### AppSrcFeed

`source_id` is shared without a lock by `start_feed`, on the streaming thread,
and `stop_feed`, called from `push_data` on the main thread: `NeedData` is the
check of line 74, `StartFeedAdd` is `g_idle_add`, `StartFeedStore` the
assignment of its result; `StopFeed` removes the source, `StopFeedReset` sets the
id to 0. The idle source may run before its id is stored.

### GtkPlayer, TimeManagement, CustomPlaybin

One callback of the main loop is one action; `analyze_streams` of the player is
one action per kind of stream, since tags may change in between. playbin changes
state first and posts the message afterwards. The positions the player sees are
unknown, the start and the end of the stream, never one past the duration: GTK
would clamp such a one to the slider's range like any other.
`TimeManagement` has one action
per kind of message and `Timeout` for the branch without one. `CustomPlaybin`
keeps an int of `Width` bits and an unset `n_audio`.

### Streaming

`Download`, `Consume` and `Post` are the queue and the bus; `HandleBuffering`,
`HandleClockLost` and `HandleEnd` are the cases of `cb_msg`; `Start` covers the
three results of `set_state(PLAYING)`, live sources and the failure after which
`streaming.c` goes on with a freed pipeline (the model stops there, `loop =
"undefined"`). `progressive` says which of the two programs runs. `refresh_ui`
draws one downloaded range, any two naturals in parts per million, with the
arithmetic of the code: `To` divides by `stop - start` after start has been
scaled already (`From`), which may be zero or negative (`DividesByZero`, `Div`),
and `Mark` is one past the cell. A division by zero makes the loop `undefined`; a
dash or a mark outside the graph may.

### PadLinker

`pad_added_handler` is the handler up to `gst_pad_is_linked`, `LinkPad` is
`gst_pad_link`, so that handlers of two pads can pass the question before either
links. A pad may come without caps or with caps the sink refuses, and may come
while the main thread has already left its message loop (`HandleMessage`).

### TeeBranches

The thread of the tee (`TeePush`) serves the branches in turn and blocks on a full
queue; a branch (`BranchPull`) collects `need` buffers for one output, as
wavescope does, and blocks in its sink until all sinks have one (`Preroll`).
`Popped`, `Release` and `SetNull` are the end of `main`, with the threads where
they happen to be.

### RateControl

`RateKey` changes the rate and makes the query; `SendSeek` is the rest of
`send_seek_event`. The query may fail and the sink may be missing, with the rate
changed already. `typed` and `passed` remember what the keys asked for and where
the pipeline has been since.

### Discoverer

A topology is a tree of up to `MaxInfos` infos; an info may have a `next` and,
being a container, a list of streams, whose order is any (`Lists`). An info with
both shows only its `next`, as in the code (`Shown`). `print_topology` is one call of the recursion: it prints an info and
puts the calls it makes in front of `calls`, those that it and its callers have
still to make. `on_discovered_cb` makes the first call, and `on_finished_cb` is
dispatched when the last one has returned.

### PadCapabilities

`SourceUp`, `Negotiate` and `PipelineUp` are the pipeline, whose state changes are
posted on one bus with those of its elements; `HandleMessage` prints the caps of
the sink pad when a message of the pipeline says so.

### MCTutorials

The seven small programs have no state in common. One run checks them all:
`program` says which one a behaviour is of, the variables of the others keep
their initial values, and fairness is that of the program that runs. What is
proved of a program in `TutorialProofs` is therefore proved of its module: the
first lemma there says that each program takes its own steps or none.

## Runs

| run | instance | what it shows |
|---|---|---|
| `server_core` | 2 handlers, 2 workers, 4 clients, no stream ends | `CriticalSections`, `EachBindRegisteredOnce`, `ActivatedHasStreamer`, `PortBlocksDisjoint` |
| `server_serial` | 1 handler, 2 workers, 3 clients, streams end | `TypeOK`, `StreamsReachTheirClient`, `RegistrySpec` |
| `server_live` | 2 handlers, 2 workers, 2 clients, fair | `BindReturns`, `WorkConserving` |
| `node_failure` | 2 clients on own addresses | `NoFalseAlarm`, `DeadDetected` |
| `node_failure_shared` | 2 clients on one address | violated: `LastSeenIsTrue` |
| `streamer_loop` | 3 streams, 2 workers, 2 errors each, fair | `NobodyElseQuits`, `LoopUsedAlive`, `ErrorEndsStream` |
| `service_serial` | 1 handler, 3 workers, 2 clients and the viewer of one, fair | `ServiceTypeOK`, `NoCrossTalk`, `SessionOutlivesHandlers`, `PipelineOutlivesHandlers`, `ClientIsServed` |
| `service_double` | 1 handler, 2 workers, 1 client and its viewer | violated: `ViewerAssertion` |
| `appsrc` | 3 source ids, queue limit 4, fair | `OneFeeder`, `QueueBounded`, `NeverStarves`, `BackPressure`, `ErrorEnds` |
| `gtk_player` | 2 kinds of streams, 2 tags, 2 messages on the bus | `TypeOK`, `StateCoherent`, `OnlyUserSeeks`, `TagsShown` |
| `tutorials` | the seven small programs, fair | `TypeOK`; `DurationCoherent`, `PlayingCoherent` (time_management); `BufferingCoherent`, `FullQueuePlays`, `GraphInBounds` (streaming); `RawPadsPlaced` (pads); `Prerolls` (tee); `RateFollowsKeys` (rate); `TopologyPrinted` (discoverer); `CapsNegotiated` (pad_capabilities); `FailureEnds` (all that wait for an end) |
| `custom_playbin` | 3 streams, ints of 4 bits | violated: `SelectsExisting` |

Bounds.

* `Clients` bounds the number of binds. `ReallocAt = {0, 1, 2, 4}` are the
  lengths at which libstdc++'s vector grows: three clients meet every relocation
  with earlier entries in the table, the fourth a `push_back` in place. In the
  runs of the server alone two handlers and two workers give every pair of racing
  threads, and their properties compare one worker with another, or ask for
  progress unless all workers stream. `service_serial` has three workers: one that
  reads a freed entry, one that serves the other client, and one that is idle
  while the first client's stream is lost. With two workers this does not happen,
  because no worker is left idle.
* `NodeFailure` scales time: the limit is 4 units instead of 10 seconds, with
  `Period + Lag` exactly at the limit, and `MaxTime` lets a client die, and be
  overdue, after every other event.
* `StreamerLoop`: `MaxErrors = 2` errors of a pipeline are the least that hit a
  loop twice; three streams make a worker start a second one while another runs.
* `AppSrcFeed`: `MaxBuffers = 4` stands for the limit of the queue, and
  `Overshoot = 2` bounds how many buffers the idle source pushes before
  `start_feed`, which has attached it, stores its id; `SourceIds` are reused.
* `GtkPlayer`: playbin and the user act while fewer than `MaxBus = 2` messages
  wait. A second is 10 units and the duration 52 seconds, as the trailer's, so
  that a value in the wrong unit leaves the slider's range.
* `TimeManagement`: `MaxPosts = 3` changes of duration, elements and failures;
  state changes are not counted, since each seek causes them.
* `Streaming`: a queue of `Full = 3` levels that rebuffers at `Low = 1` is the least
  that can play between the marks; `MaxBus = 2` messages keep an old level on the
  bus while a newer one, a lost clock or the end comes. `Positions` are the last
  three of a hundred: before the last cell, in it, and the end. `RangeEnds` give
  empty ranges, which divide by zero, the range from 3081 to 6162, which is one
  part shorter than `ShortRange` and passes the end of the graph, and long ones,
  which do not.
  `MaxBus` is the same in `PadLinker` and `PadCapabilities`.
* `PadLinker`: three pads, so that two race for a sink pad while the third is of
  the other kind.
* `TeeBranches`: three branches as in `app_src_sink.c`, queues of two buffers, and
  branches that need one buffer or three. `TeeAssumption`, that what a branch
  collects fits the queues of the others, is what the programs rely on;
  `Prerolls` is false without it.
* `RateControl`: one doubling either way and a stream of four positions.
* `Discoverer`: every topology of up to five infos, each with any `next` and any
  list, in every order.

Runs whose clients have been served, whose programs have ended or whose bounds
are used up stop there and do not check deadlock; `server_serial` does check it.
Symmetry of clients, handlers and workers is used only for invariants.

Fairness. In the server and the service it is weak fairness of each handler's
next step once a call has begun, of each worker's loop, and of the
client's main thread: the scheduler runs every thread. Of the streaming threads of
the viewer it is that of all of them together: not all of them stand still. In
`StreamerLoop`, `AppSrcFeed` and the tutorials it is weak fairness of each
thread's step and of the delivery of what has been posted: the main threads, what
playbin has changed and not posted yet, handlers that have begun, and the
threads that move buffers. No fairness makes a
client call, a stream end, an error happen or a consumer consume. Weak fairness
of taking the mutex is enough because a finite number of calls and activations
takes it only finitely often; the properties say nothing of a mutex under
endless contention.

### What the violations are

* `service_double`: `ex_server.cpp:71-78` rechecks the status under the lock, "still
  non-actiavte after getting the lock... let's activate", but releases the lock
  (76) before the mark (78). A second worker passes the recheck in between; both
  stream the same service to the same port. rtpbin then adds a second pad in the
  viewer, which `rtp_pad_added_handler` cannot link to the one bin, and
  `g_assert_cmpint` (`viewer.hpp:50`) aborts the client.
* `node_failure_shared`: `grpc_server.cpp:83` finds the entry by IP and stops at
  the first match. Every `ex_client` binds as `0.0.0.0`, so only the first entry
  is ever refreshed, and the line printed for the second, "was last seen N
  seconds ago" (25), is wrong.
* `custom_playbin`: `custom_playbin.c:197` compares the number typed with
  `n_audio`, which is uninitialised until playbin has reached PLAYING.

### What does not hold, and is therefore stated with an assumption

* With overlapping binds (two handlers) two clients can be told the same port,
  and a reply and its entry can differ: `RegistrySpec`,
  `StreamsReachTheirClient` and `NoCrossTalk` need one handler.
* With streams that end, the second unlock of `run_streamer` breaks mutual
  exclusion, and a relocation can then drop another bind's entry:
  `CriticalSections` and `EachBindRegisteredOnce` need `~StreamsFail`, and so
  does `ActivatedHasStreamer`, because an ended stream leaves its entry
  ACTIVATED. `TypeOK`, `PortBlocksDisjoint`, and in `ServerProofs`
  `HolderReleases` are proved without it, for overlapping binds as well.
* A worker keeps a pointer into the vector (`ex_server.cpp:80`) over the set-up of
  its pipeline. If a later bind moves the vector in between, the worker reads a
  freed entry and streams to nobody known (`Stray`), while the entry is marked and
  no other worker looks at it again; and a mark made while the vector is copied
  is lost. `ActivatedHasStreamer` and `StreamsReachTheirClient` except the entries
  a later bind has moved (`Moved`), and no others; `ClientIsServed` excepts the
  client whose worker has read a freed entry (`Misread`). With `ReallocAt = {}`, a
  vector reserved in advance, nothing moves and every stream is that of its entry
  (`StreamsFollowEntries`).
* With one address for all, `send_heartbeat` refreshes one entry only, and
  clients behind the first are reported while they live: `NoFalseAlarm` and
  `DeadDetected` need own addresses. For shared ones `NodeFailureProofs` proves
  that the first client of an address is not reported, and that an address
  nobody is heard from is.
* A quit that another thread dispatches between `set_state(PLAYING)` and
  `g_main_loop_run` is lost, and the stream of a failed pipeline keeps its worker
  for good: `ErrorEndsStream` speaks of errors that are on the bus while the
  loop runs.
* A pipeline that posts a second error has its loop quit by another thread after
  it was freed: `LoopUsedAlive` says that nothing less does this.
* With two workers a viewer may be sent its stream twice, see `service_double`.
* In `progressive_streaming.c` the mark overwrites the terminator of the graph as
  soon as the position is in the last cell, and is past the array when the
  position is the duration. `GraphInBounds` says that it happens then, and then
  only. A range shorter than 3082 parts per million that does not begin at the
  start of the file may be scaled to dashes beyond the graph, and an empty one
  divides by zero (some short ones do too); `GraphInBounds` says that longer ones
  and those from the start do neither.
* A clock lost while the queue buffers resumes playing, and the program then
  plays an emptying queue until the next level on the bus pauses it again;
  `BufferingCoherent` excepts just this case.
* In `gtk_player.c` an end of stream that was posted before the user pressed
  stop and play stops the new run; no property is about it.

## Proofs

All theorems are for arbitrary sets of clients, handlers and workers, any
`FirstPort` and any `ReallocAt`, from the named assumptions on the constants
(`BinderAssumption`, `ServerAssumption`: threads are distinct and differ from
`Unlocked`; `None` and `Stray` are not services; `NodeFailureAssumption`: times
are naturals; `AppSrcAssumption`: limits are naturals, 0 is no id;
`GtkAssumption`: a stream of a second or more, which the slider's range needs;
`TutorialsAssumption`: the assumptions of the seven modules it names, of which
the proofs use that levels and the ends of ranges are naturals, that the stream
has a length and positions do not exceed it, that no pad is `NoPad`, that `MaxInfos` is a natural number, and that a branch of
the tee collects no more than the queues of the others hold and one).

| theorem | statement | argument |
|---|---|---|
| `TypeCorrect` | `Spec => []TypeOK` | `TypeInv` adds that a handler past `idle` has a reply, past `fill` an entry; `PushedFrom`: a push_back invents no entry, even with a stolen mutex |
| `PortBlocksNeverOverlap` | `Spec => []PortBlocksDisjoint` | `PortInv`: every port anywhere (counter, registers, locals, copies, table, replies) is `FirstPort + 3k`; a lost update only repeats a lattice point |
| `MutualExclusion` | `~StreamsFail`: `[]CriticalSections` | `MutexInv`: the mutex names the thread in the section; the only foreign unlock needs a stream that ends |
| `ActivatedIsServed` | `~StreamsFail`: `[]ActivatedHasStreamer` | `BackedInv` holds of the table and of every copy a push_back is making, since a copy may be installed later; a committed worker stays; `PickedInv`: a worker's pointer is into the current buffer, or its entry has been moved |
| `RegisteredOnce` | `~StreamsFail`: `[]EachBindRegisteredOnce` | `CopyInv`: push_backs exclude each other, so a copy differs from the table only in statuses; `OnceInv`: where a client's call stands and how many entries it has |
| `StreamsAreAddressed` | one handler, finite `Clients`: `[]StreamsReachTheirClient`, which excepts moved entries | `PickedInv` as before; `SerialInv`: what is registered was told or is being told |
| `ImplementsRegistry` | one handler, finite `Clients`: `Spec => RegistrySpec` | `SerialInv`: the counter is `FirstPort + 3 *` the number of calls, every registered port lies below it; `push_back` is `Register`, the return is `Answer`, the rest stutters |
| `StreamsFollowEntries` | `~StreamsFail`, any number of handlers: a stream has the client and the port of the entry its worker picked, unless that entry has been moved; always, if `ReallocAt = {}` | `BackedInv`, `PickedInv` and the types of the table |
| `MutexNeverOrphaned` | `Spec => []HolderReleases`: the mutex is free or held by a thread whose next step releases it | inductive with `TypeInv`; a stolen mutex does not break it, since stealing leaves it free or with another thread in its section |
| `FirstNeverReported` | `Period + Lag <= FAILURE_TIMELIMIT`: `[]FirstNotReported` | `SeenOK`: the first entry of an address is older than the last contact of its client by no more than the lag, because each heartbeat from there refreshes it |
| `SilentAddressDetected` | `Spec => []SilentDetected` | `SeenOK` again: no entry is newer than the last contact of somebody with its address |
| `NoFalseAlarmEver` | own addresses, `Period + Lag <= FAILURE_TIMELIMIT`: `[]NoFalseAlarm` | from `FirstNeverReported`: with own addresses and one entry per client (`OneEntry`) every entry is the first of its address |
| `DeadAlwaysDetected` | own addresses: `[]DeadDetected` | from `SilentAddressDetected`: nobody else is heard from a dead client's address |
| `AtMostOneFeeder` | `Spec => []OneFeeder` | `ProtocolInv`, by where the two threads are: inside `start_feed` the main thread finds 0 and changes nothing; otherwise a non-zero id is the attached source and the streaming thread leaves it alone |
| `QueueStaysBounded` | `Spec => []QueueBounded` | `LevelInv`: how far the queue is past its limit, by what the main thread has still to remove |
| `FeedNeverStuck` | `Spec => []FeedGoesOn`: a waiting streaming thread has an empty queue and a feeder on its way | `WakeInv` says the same of a thread that is about to wait, together with `ProtocolInv`: a `start_feed` that is ignored found an id whose source is attached or being removed by `stop_feed`, which then appends its buffer |
| `FeedTypes` | `Spec => []TypeOK` | the type part of it |
| `FailureTypes` | `Spec => []TypeOK` | the type part of `IInv` of `NodeFailureProofs` |
| `OnlyOwnFailureQuits` | `Spec => []NobodyElseQuits` | `ContextInv`: only the owner of the context has an error in hand; `ErrorInv`: a pipeline without errors is neither told to quit nor past its run |
| `FreedLoopFailedTwice` | `Spec => []LoopUsedAlive` | `ErrorInv`: the first error is on the bus or in one thread's hands, not both, and until it is handled the loop goes on and is allocated |
| `ContextNeverOrphaned` | `Spec => []ContextGoesOn` | `ContextInv`: a thread that owns the context iterates it, and one that waits has no error in hand |
| `FailureKept` | `Spec => [][FailureOnItsWay]_vars` | with `IInv` at the first state of the step: an error on the bus, in a thread's hands, and a loop told to quit follow on each other |
| `LoopTypes` | `Spec => []TypeOK` | needs that no more errors are pending than were posted |
| `SessionIsAlive` | `ServiceSpec => []SessionOutlivesHandlers` | `SessionInv`: references by phase of the main thread; `HandlerInv`: handlers run only between the start of the loop and NULL |
| `PipelineIsAlive` | `ServiceSpec => []PipelineOutlivesHandlers` | the same invariant |
| `NobodyElsesStream` | one handler, finite `Clients`: `ServiceSpec => []NoCrossTalk` | `ServerKept`: the service implements the server, so its invariants hold; `PortsDistinct` follows from `PortRegistry` by the refinement; `TalkInv`: who has been heard streams for `Me` and goes on |
| `ServiceTypes` | `ServiceSpec => []ServiceTypeOK` | `TypeCorrect` and `ViewerInv` |
| `CachedStateCoherent` | `Spec => []StateCoherent` | `CoherentOwn`: what playbin does to its state it posts, and is then the newest message; `CoherentTail`: taking the only message about playbin caches what it says, taking an older one changes nothing |
| `OnlyTheUserSeeks` | `Spec => []OnlyUserSeeks` | `SliderInv`: untouched, the slider has never been past the last second of the stream, so the range `refresh_ui` learns does not clamp it |
| `NoTagsLost` | `Spec => []TagsShown` | inductive as it stands with `TypeOK`: a message for tags is only taken together with `listing` set to all kinds, and tags change only together with `announcing` |
| `PlayerTypes` | `Spec => []TypeOK` | the slider stays inside its range because GtkRange clamps what it is set to |
| `DurationTrueOrForgotten` | `Spec => []DurationCoherent` | `TimeInv`: both properties of `time_management.c` are about the sequence bus, then unposted; playbin adds its last message (`PostedLast`), the loop takes the first (`TakenFirst`) |
| `PlayingTrueOrCorrected` | `Spec => []PlayingCoherent` | the same: a state message that is added says the new state, one that is taken was the newest only if no other is left; the seek in `Timeout` posts the PAUSED it causes |
| `PausedWhileBuffering` | `Spec => []BufferingCoherent` | `LevelInv`: the newest level on the bus says whether the queue buffers, because a level that crosses a mark, and every level while the queue buffers, is posted; older ones do not matter |
| `DrawnInBounds` | `Spec => []GraphInBounds`, for ranges of any natural numbers | `MarkBounds`: exactly when the mark leaves the graph; `StartScaled`, `LongRanges`, `DashesInGraph`: bounds of the integer divisions of `refresh_ui` for ranges that are long or from the start, from `Quotient` |
| `NoPadLeftOut` | `Spec => []RawPadsPlaced` | `PlaceInv`: a handler between question and link has a raw pad; a linked pad is one whose handler has returned, so no handler takes a link back |
| `TeeNeverDeadlocks` | `Spec => []StreamGoesOn`: until all sinks have prerolled, the tee or a branch can move a buffer | `ServedInTurn`: until the pipeline plays, all branches have been given equally many buffers, or one more; if the tee is blocked on a prerolled branch, the others have more than they can have collected, so theirs are not empty |
| `SeeksFollowKeys` | `Spec => RateFollowsKeys` | `KeysInv`: the rate kept is the one typed, and the position a seek names is one the pipeline has passed since |
| `PrintedCapsNegotiated` | `Spec => []CapsNegotiated` | `NegotiatedInv`: a message that says PAUSED or PLAYING is posted after negotiation, which is not undone |
| `TopologyReadable` | `Spec => []TopologyPrinted` | `LinesInv` is about what is printed followed by the calls still to be made (`Lines`): the root is first, no info comes twice, no line between one and the info it hangs from is indented less, and what hangs below a printed info and is shown is among the lines; `InsertedKeeps`: putting the calls of an info right behind its line keeps that |
| `TutorialTypes` | `Spec => []TypeOK` of `MCTutorials` | the type parts of the six invariants |

Five of these theorems are the safety half of a liveness property that a run
checks: `StreamGoesOn` of `Prerolls`, `FeedGoesOn` of `NeverStarves`,
`HolderReleases` of `BindReturns`, `ContextGoesOn` and `FailureOnItsWay` of
`ErrorEndsStream`. They say that what is owed is not forgotten and that somebody
can take the next step; that fairness makes them take it is left to TLC.
These predicates, and `EachStreamsForItsEntry` (of `StreamsFollowEntries`),
`FirstNotReported` and `SilentDetected`, are in no run; they are stated and proved in the proof modules.

Every safety invariant and every safety action property of the passing runs is
proved. Model-checked only: everything temporal beyond safety (`BindReturns`,
`WorkConserving`, `ClientIsServed`, `ErrorEndsStream`, `NeverStarves`,
`BackPressure`, `ErrorEnds`, `FullQueuePlays`, `Prerolls`, `FailureEnds`), which
liveness under fairness puts beyond the proof system, and the three violations.

## Plan

Done: the server with its refinement and proofs, failure detection, streamer
loops and the composed service with proofs, appsrc feeding and the player with
proofs, all tutorials that keep state with proofs, and the safety halves of the
liveness properties of the server, the loops, appsrc and the tee.

Left: liveness itself, which needs reasoning about fairness that the provers do
not do.

## Not modelled

GStreamer, GLib, gRPC and protobuf themselves; element and caps construction;
`creator.h` (dead); `hello_gstreamer.c`, `pipeline_basic.c`, `playbin_sink.c`, the
meson samples and build files (straight-line: set up, wait for one message, end).
A retry of `bind` by one client, which the server does not recognise: to the
models it is another client. Ports past 65535, which some 20000 binds reach.
