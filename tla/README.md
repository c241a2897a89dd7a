# A TLA+ verification of the Rust Playground

The Rust Playground lets a browser compile and run Rust programs on a shared server.
The server keeps Docker containers; a *coordinator* in the server talks to a *worker*
process inside each container over the container's stdin and stdout; a *WebSocket
session* per browser streams a program's input and output. Everything is asynchronous
tokio code: bounded channels, `select!` loops, futures that are dropped half way,
cancellation tokens and permits that return on drop. Those are what this project models.

## 1. Inventory

| Component | State | Operations | What makes it correct |
|---|---|---|---|
| Resource limits (`coordinator/limits.rs`, `main.rs` metrics) | three semaphores, an id counter, gauges | `next_container`, `next_process`, `container_requested`, drops and aborts | permits conserved, gauges exact, names unique |
| Commander, demultiplexer (`coordinator.rs` 2372-2692) | job id counter, listener tables, io queues | `one`, `many`, `demultiplex`, garbage collection | a message reaches the call it is for, in order; calls end; listeners are collected |
| Streaming execution (`spawn_cargo_task`, `handle_execute_inner`) | stdin/stdout/stderr channels, cancellation | forwarding in both directions, kill, end, drain | stdin in order and closed last; output complete before the end; a kill ends it |
| WebSocket session (`websocket.rs`) | `active_executions`, `CoordinatorManager`, response channel, timers | messages, task ends, garbage collection, idling, shutdown | one execution at a time, which can be stopped; containers given back; the session ends |
| Container reclaim (`limits.rs` + `websocket.rs`) | container and request semaphores, idle connections | request, idle, give up | no container lost, waiting connections served |
| Worker (`worker.rs`) | process table, stdin senders, kill tokens | start, stdin, kill, output copy, end, file operations | one response per job, after its output; one job's end does not disturb another |
| Container and coordinator lifecycle (`coordinator.rs` 1080-1350, 2695-2870) | `OnceCell` of containers per channel, `TRACKED_CONTAINERS`, Docker's own state | `select_channel`, `Container::new`, `idle`, `shutdown`, drop at any await, `TerminateContainer` | a live container has a permit and somebody who will kill it; all end; calls return |
| Requests to cargo (`LowerRequest`, `do_request`, `begin_*`, modify-cargo-toml, the worker's file requests) | the crate's files, its manifest and `target/` in the worker | write, delete, modify the manifest, run cargo or `cargo-wasm`, read back | a request sees its own files and answers with its own output |
| Request database and handlers (`request_database.rs`, `server_axum.rs`) | rows, the database thread, `EndGuard`, soft timeout | start, end, drop | the row says what happened, once |
| Cache (`cache.rs`, meta handlers) | cached value with creation time, timer, generation, queue of readers | expire, generate, combine, serve, conditional response | refreshes for ever; a 304 is true; becomes fresh |
| Gist (`gist.rs`), asm-cleanup, top-crates | - | encode and decode; filter; walk over the registry | round trip; result closed under labels; result closed under dependencies |
| Message protocol (`message.rs`, `bincode_input_closed.rs`) | - | framing | a message is what was sent (taken for granted) |
| Frontend (`websocketMiddleware.ts`, reducers) | socket, sequence number, execute slice | connect, reconnect, actions | messages of an old execution are ignored |
| Metrics (`metrics.rs`) | counters | labels | nothing in the program reads them |

How they meet: a session's execution task asks the `Coordinator` for a container, which
takes a container permit from the limits; the container has a commander, whose calls are
answered by the worker through the demultiplexer. `spawn_cargo_task` is one `many` call.
Idle sessions watch the limits' request semaphore and give their container up. The
handlers of one-shot HTTP requests use a coordinator of their own for each request, and the
cache uses one for all channels at once.

The hard behaviours: futures dropped at any `await` (permits, guards), bounded channels in
a ring (a task that waits for room in a channel it should be reading), a kill that must
overtake queued input, a worker that dies, events seen in the random order of `select!`,
programs whose descendants outlive them, and garbage collection that decides from indirect evidence. `PROJECT.json` lists each one
at its line under `hazards`.

## 2. Modules

| Module | Models | State and actions |
|---|---|---|
| `Semaphore` | tokio's fair semaphore (external) | `permits`, FIFO `queue`, and `granted`: futures that were given a permit and not polled since. `Cancel` is the drop of a waiting future, which passes a granted permit on. |
| `ResourcePool` | abstract pool of `Limit` permits | `owners`; `Acquire` and `Return` |
| `Limits` | `limits.rs` | per task, the stage of its container and its process acquisition; one action per await point, abort and drop; the four gauges of `LifecycleMetrics` |
| `Commander` | `Commander`, demultiplexer, coordinator io queues | per call its stage; `commands`, `toWorker`, `fromWorker`, `inbox`; the listener tables `waiting`, `waitingOnce`; the further messages of a streaming call (stdin, its end, kills) take the same queue, and the worker's intake may wait for a program to read; the worker replies in any order or dies |
| `Execution` | consumer, cargo task, worker and child of one streaming execution | four bounded channels and the three tasks that wait on them |
| `Session` | `handle_core`, `handle_msg`, `CoordinatorManager` | `loop` (where the main loop is, its waits for the socket, for stdin and for its own channel included), `rx`, the tasks, `entry` (`active_executions`), `holders` (the tasks with a handle on the coordinator), the idle, session and overall timeouts |
| `Reclaim` | container and request semaphores among connections | two instances of `Semaphore`, `work`, `has` |
| `Worker` | `worker.rs` without file requests | the command channel, `manage_processes` with `stdin_senders` and `kill_tokens`, and per job the child, `held` (which of its pipes its processes, descendants included, keep open), its stdio tasks, the statistics thread and `process_end` |
| `Requests` | `attempt_record_request`, `with_coordinator`, `request_database.rs` | per HTTP request its handler's await point, its `EndGuard` and its row; the database thread |
| `Container` | `Coordinator`, `Container`, `TerminateContainer` | per slot the position of a container (being made, in a cell, closing, joining, dropped), Docker's view of it, its permit, whether it is tracked and whether its kill was issued; per coordinator its calls and whether it idles |
| `Lowering` | `LowerRequest`, `CargoTomlModifier`, `Code`, modify-cargo-toml | operators only: the files, manifest edits and command line of a request |
| `Files` | `do_request`, `begin_*`, the worker's file requests, `cargo-wasm` | per request its stage and its cargo, whose descendants may outlive a kill; `ops`, the file operations under way in the worker; `sources`, `manifest`, the compiler's output and the WebAssembly `modules` in `target/` as they are on disk |
| `Cache` | `cache_task`, `CacheTx`, `apply_timestamped_caching` | the timer, the generation, the cached value with its time, the queue; per browser its request and its copy |
| `AsmFilter` | `filter_asm` | the scan line by line, the label graph, the search |
| `Gist` | `create_future`, `load_future` | what is shared, file by file, what is stored and what is loaded |
| `TopCrates` | `generate_info` | the registry, the crates found so far, cargo's resolver round by round (`on`), the walk over dependencies, and what cargo resolves in the end from the manifest on offer, older versions and their features included (`built`) |
| `SemaphoreProofs`, `LimitsProofs`, `ContainerProofs`, `SessionProofs`, `ServerProofs`, `WorkerProofs`, `CommanderProofs`, `ExecutionProofs` | proofs, see section 4 | |

`Limits` and `Reclaim` compose three and two instances of `Semaphore`; `Limits` implements
`ResourcePool` twice. `Files` builds on `Lowering`. `MCAlgorithms` puts `AsmFilter`, `Gist` and
`TopCrates` side by side, as they share nothing. Every other `MC` module gives one module
its constants. Where one module is a coarser view of what another details
(`Reclaim` of `Limits` and `Session`, `Session` of `Execution`, `Execution` of `Worker`,
`Container` of `Semaphore` and `Limits`), the header says so.
Definitions whose comment starts with "Variant" are wrong on purpose: each is a plausible
slip in the code, and the property named with it in `PROJECT.json` fails when the
definition after it is replaced by it.

Data are abstracted to what the properties tell apart: a packet is its number, a message
its kind and its job, a timer is armed or has fired. A file is who wrote it and whether
it is raw, half written or formatted; a compiler's output is what it was made from; an
assembly line is its class and the names in it; a file name is its slashes and escapes.

Most state machines have a `TypeOK`, which no run is spent on. What
the proofs need of the types is part of the inductive invariants and proved with them: `TypeOK` itself, or,
for `Container`, `Files` and `Cache`, what the argument uses (`InPlace`, `FilesType`,
`CacheShape`).

## 3. Runs

| Run | Checks | Shows |
|---|---|---|
| `limits` | `ContainerConservation`, `ProcessConservation`, `GaugesExact`, `UniqueNames`, `ContainerPoolSpec`, `ProcessPoolSpec` | three tasks, two container permits and one process permit: a waiter is aborted before, while and after it is handed a permit |
| `execution` | `StdinInOrder`, `OutputBeforeEnd`, `CancelEnds` | two packets of stdin and two of output, on either stream, through channels of one, with kill, abort and the worker's death anywhere |
| `commander` | `NothingLost`, `OwnAnswer`, `OneReturns`, `ListenersCollected` | a `one` call beside a `many` call whose caller sends stdin, its end and kills over the same queue, to a program that need not read; channels of one message, so that the demultiplexer blocks |
| `session` | `OneExecution`, `ParallelismConserved`, `Killable`, `UnusedContainerTimed`, `NeverOutstanding`, `ClosedReleases`, `SessionReleases` | two executions, the second replacing the first; the loop may hang in `socket.send`, in a full stdin channel or in its own response channel |
| `reclaim` | `ContainersAccounted`, `WaiterServed` | three connections and one container |
| `worker` | `OutputComplete`, `AnsweredJobInert`, `KillStops`, `EndReported` | one program with more stdin and output than the channels and the output limit hold, killed or exiting at any time, with late stdin and descendants that go on writing |
| `requests` | `RowHonest`, `OpenRowExplained`, `HandlerReturns` | two requests dropped, timed out or failing at any await, with failing SQL statements and the end of the server |
| `containers` | `LiveContainersAccounted`, `ContainersEnd`, `CallsReturn` | two coordinators, two channels, two permits: containers are made, used, crash, shut down or dropped at every await, with `docker run` and `docker kill` lagging behind |
| `files` | `SourcesAreOwn`, `ResponseIsOwn` | two out of eight requests of five kinds (execute, compile, format, Miri, macro expansion) after each other in one container, the first perhaps being aborted or leaving descendants of its cargo behind; file operations in any order and failing; programs that write over the files of the project |
| `cache` | `TimerOrGeneration`, `NotModifiedIsTrue`, `EventuallyFresh` | two browsers, an origin that changes and changes back, failing generations |
| `algorithms` | `FilteredAsmClosed`, `GistRoundTrip`, `OfferedCratesClosed` | assembly listings, shared gists and crate registries up to a bound |
| `execution_death` | `WorkerDeathNoticed` | expects a violation: the cargo task's `UnexpectedEndOfMessages` branch is unreachable, so a dead worker leaves it waiting; see `findings` |

Eight more configurations give a counterexample each. All but the last are remarks on
the design rather than disagreements with something the repository says; they are kept
beside the runs:

- `MCExecutionKill.cfg` (`KillEnds`): stdin the program does not read fills the channels and the kill
  waits behind it. `CancelEnds` is what does hold: a kill with no stdin under way ends
  the execution.
- `MCCommanderHeld.cfg` (`OneReturnsAnyway`): stdin that a program does not read stops the worker's
  intake, and a `one` call of the same container waits behind it. That it does not is the premise of `OneReturns` and `ListenersCollected`.
- `MCSessionStuck.cfg` (`LoopNotStuck`): the main loop sends an error on the channel that only it
  reads; if the channel is full, it waits for itself and the session timeout is missed.
  `SessionReleases` is what does hold: the overall timeout ends such a session too.
- `MCSessionGc.cfg` (`CancelledForAReason`): the garbage collection takes a closed stdin for the end
  of the execution and kills the program.
- `MCWorkerHeirs.cfg` (`EndReportedAnyway`): the worker kills and waits for the direct child only. A descendant
  that keeps stdout open keeps `process_end` waiting, and the end is not reported.
- `MCFilesWasm.cfg` (`NoOtherModule`): `cargo-wasm` succeeds without an output if the build made no
  module, and copies any module it finds in `target/`. A procedural macro compiled for WebAssembly is
  answered with the module of the request before it.
- `MCReclaimRequest.cfg` (`RequestKept`): an idle connection without a container consumes the request
  for one. `WaiterServed` still holds, since the idle timer gives containers back too: the
  cost is a wait of up to the idle timeout.
- `MCOffer.cfg` (`EveryDependencyOffered`): the scratch manifest has one entry per name (`top-crates/src/lib.rs` 441), so an older
  version of a crate is resolved without the features of its metadata; it is offered with them, and the
  dependencies they switch on are built and not offered. The repository's README says "all of their dependencies are
  available". `OfferedCratesClosed` is what does hold.

**What the properties leave out, on purpose.** Some properties name the one case the code
does not cover; each such case is a fact about the code a reader should know.

- `SourcesAreOwn`, `ResponseIsOwn`: a request that was aborted or failed may still have file
  operations, a cargo or descendants of one under way in the worker when the next one begins. Those are
  the strays; the sources and the manifest of a request are its own but for them. Files a program left
  elsewhere in the project are not covered.
- `ResponseIsOwn`: a request for WebAssembly that makes no module, or that finds one in another place of
  `target/`, may be answered with that of an earlier request (`MayTakeAnother`); the property says that no other
  request can.
- `OneReturns`, `ListenersCollected`: the worker's intake does not wait for ever for a program to read (`IntakeMoves`).
  `KillStops`: the same of `manage_processes` (`StdinMoves`).
- `EndReported`: moreover, it is about programs whose descendants have let go of the pipes.
- `CallsReturn`: coordinators that hold all the permits and each want one more channel wait for
  one another (`Ring`); only a timeout of the caller ends that.
- `LiveContainersAccounted`: a dropped container gives its permit back before Docker has removed it,
  so that for a moment more containers than the limit may live.
- `FilteredAsmClosed`: a demangled path in an operand is not recognised as a label.
- `GistRoundTrip`: names with a percent escape, and the name of a single file, do not survive.
- `OfferedCratesClosed`: the walk follows the dependencies of older versions too, but the scratch manifest
  that cargo resolves has the newest ones only. Features which an older version is offered with, from its
  metadata or from an earlier pass, may therefore never have been resolved; the second half of the property is about offers
  without such a version (`KeptUp`), and `MCOffer.cfg` shows one with it. Crates whose libraries have one name
  replace one another in the specifications (`Crowded`). One more thing shows in the
  model that no property is about: `crates.insert` replaces the features of a top crate by those its
  dependents ask for.

**Bounds.** Channels have capacity one (`Cap`, `StdinCap`, `CacheCap`) or two (`RxCap`) where the code
has eight and three; a smaller channel blocks
earlier, which is when senders, readers and kills get into one another's way.
`MCSessionStuck.cfg` uses the code's own capacities. `MaxIn`, `MaxOut`, `MaxReplies`, `MaxJobs` and
`MaxId` bound what a user, a program or a client may ever do; each is large enough to fill
a channel and leave one message over. `commander` has one call of each kind: calls meet only in the
demultiplexer and its queues, where one of each is enough to block them, and the proofs are about any number. `MaxRequests` is the number of connections. `worker` has one job: two
multiply its states beyond what TLC finishes, and the jobs of a worker meet only in
`manage_processes` and its channels. What a second job adds there is known: it waits while
`manage_processes` waits for the first one's stdin, which `StdinMoves` assumes away.

`containers` has two coordinators with two channels each and a limit of two: enough for each to
hold one container and want the other's, for a coordinator to idle while another waits, and
for a slot to be used again while the command to kill its last container is late.
`files` has two requests: its properties relate a request to the ones before it, and what two
earlier requests leave on the disk is what one of them leaves. The eight requests differ in crate
type, edition, kind, target, profile, manifest edits and number of files, so that every pair of primary files,
every pair of edits and every pair of places of a module meets. `MaxScribbles` bounds, as a
constraint on states, what programs have left on the disk at a time to one file: the files are looked at
one by one. The proofs have no such bound.
`cache` has two changes, which lets the origin come back to an old value, the case a tag
could get wrong, and a queue of one. `algorithms` has
listings of three lines out of eighteen, alone or after a chain of five lines that needs several
steps of the search; gists of up to two files (`MaxFiles`) with six names; registries of five packages, one in two
versions, with any kind of dependency on each of six edges, one of them from the older version. What these bounds leave out, the proofs cover:
listings, gists and registries of any size.

**Fairness.** Tasks and threads that can run do (weak fairness). Branches of `select!` are
polled in a random order, so one that is ready again and again is taken in the end
(strong fairness). Timers fire, the overall timeout of a session among them (`OverallTimeout`), and nothing else
ends a loop that hangs in a send. Nothing is assumed of the browser, of the user's program and its
descendants, of aborts and of deaths; where the code relies on a program to read or to let go of a pipe, the
property has it as a premise (`StdinMoves`, `IntakeMoves`, and `held[j] = {}` in `EndReported`). In `Reclaim` a program ends: the session timeout ends it at the
latest. In `Commander` the reader of a streaming call reads or drops its receiver, which
the `Coordinator`'s "Liveness concerns" asks of its callers. In `Requests` the shutdown of a
coordinator ends; the code puts no timeout on it. In `Container` Docker carries out its commands,
a worker whose stdin is closed returns, a job ends, an idle coordinator is idled in the end (by its timer or by
the request a waiting call leaves) and the semaphore is first come, first served. That a
kill succeeds or an abort happens is not assumed. In `Cache` timers elapse and tasks run, and the wall clock advances
with them and is not set back (`TimePasses`; `SystemTime` does not promise it); that a
generation ever succeeds is a premise of `EventuallyFresh`, not fairness. `Files` and
`algorithms` state safety only.

**Deadlock** is not checked where the system may stop: a finished execution, a closed
connection, a container all of whose calls are over, the last request of a container.

## 4. Proofs

Every safety property that a run checks is a theorem. For each component there is an inductive
invariant; a lemma per action or per conjunct shows that it is kept, and the listed theorems
follow from it. Three of the proof modules are about more than one component: `ContainerProofs` about `Reclaim` and
`Container`, `ServerProofs` about `Requests`, `Cache`, `AsmFilter`, `Gist` and `TopCrates`, `WorkerProofs` about
`Worker` and `Files`. They extend all of them, which is why the later ones of those have names of their own
for `Init`, `Next` and `Spec` (`ConInit`, `CacheInit`, ...). None of the properties is inductive as
it stands; what had to be added says why the code is right, so it is given here. The proofs
need the assumptions the modules state of their constants (`LimitsAssumption`, `ExecutionAssumption`,
...) and no others; TLC evaluates them in the runs. They say that
sets are finite where something is counted,
capacities are positive, bounds are naturals, "compilation" is not a path of the crate,
a request is for the debug or the release profile, a package is known by its name and version.

| Module | Theorems | For every |
|---|---|---|
| `LimitsProofs` | `TypeCorrect`, `Conservation`, `ProcessesConserved`, `GaugesAreExact`, `NamesAreUnique`, `ContainerRefinement`, `ProcessRefinement` | set of tasks, pair of limits, number of ids |
| `ContainerProofs` | `Accounting` | set of connections, positive limit |
| | `ContainersInPlace`, `ContainersAccountedFor`, `LimitKept` | set of coordinators, channels and slots, limit |
| `SessionProofs` | `OneExecutionAtATime`, `PermitsReturned`, `AlwaysKillable`, `UnusedContainersTimed`, `CoordinatorReturned` | number of executions, capacity, parallelism |
| `ServerProofs` | `RowsAreHonest`, `OpenRowsExplained` | set of requests, capacity |
| | `TimerAndGenerationAlternate`, `NotModifiedMeansSame`, `CacheNeverForgets` | set of browsers, number of changes, queue |
| | `AsmIsClosed` | listing, set of paths |
| | `GistsComeBack` | set of names and contents, number of files |
| | `OfferIsClosed` | registry, metadata, exclusions, choice of top crates |
| `WorkerProofs` | `ReportedOutputComplete`, `ReportedJobInert` | set of jobs, capacity, amount of stdin and output, output limit |
| | `CargoSeesOwnSources`, `ResponsesOwn` | sequence of requests, set of paths |
| `CommanderProofs` | `NoReplyLost`, `AnswersAreOwn`, `IdsNeverCollide` | sets of calls (finite or not), capacity, number of replies |
| `ExecutionProofs` | `StdinArrivesInOrder`, `OutputPrecedesEnd` | capacity, amount of stdin and output |

**Limits, Reclaim.** For each semaphore, whoever is queued or was handed a permit is at the stage
"waiting", nobody is both, nobody is queued twice; ids in use are below the counter. Without it
conservation is not inductive: an abort would have to know whether the permit it cancels was
already handed over. In `Reclaim` a connection that waits has no container. `SemaphoreProofs` proves
the facts about one semaphore once (what each operation does to
`permits + Cardinality(granted)`), and the two other modules use them for each of their instances.
The refinements map the semaphore to the set of its owners; every step acquires, returns or stutters.

**Container.** `InPlace` is a table: for each place of a container (being made, in its cell, closing, joining, dropped)
whether it holds its permit, is tracked, and had its kill issued. `LiveContainersAccounted` only speaks of
containers that Docker runs, and a drop must know what there is to drop. `LimitKept` is what the
permits are for: of the containers that were not dropped, Docker never has more than `container_limit`;
it follows because all of those hold a permit and permits are only taken below the limit.

**Session.** `NewestKept`: the one handle in `abort_handles` is that of the newest task, later
jobs do not exist yet, and every other live task was told to abort. `NothingBefore`: before the handshake
there is neither an execution nor a container. `HoldersLive`: only a task that still
lives has a handle on the coordinator, so that `Arc::get_mut` succeeds when there is nothing left to join, whether
the tasks ended, failed or were aborted.

**Requests.** `RowHonest` speaks of rows only; `EndsHonest` says the same of the ends that still
wait for room in the channel or are in it. `StartedOnce`: a handler sends one `StartRequest`, which is answered
once, and there is a guard only if the answer was an id; so no start is carried out after the end
of the same request.

**Cache.** A 304 compares times, not values. `Older` says that no copy and no answer is later than the cached
value and that equal times are equal values; `Stamped`, that a cached value is from an earlier second once the
timer has elapsed, so that its replacement gets a time of its own (the timer is longer than the
resolution of HTTP dates). `CacheNeverForgets` is the action property behind it: a value is replaced only by a different and later
one.

**AsmFilter.** `Scanned` relates the notes, operands and graph to the lines read so far, in both directions; `Searched`
is the invariant of the search: what a used label leads to is used too, or the label is
still to be visited, and nothing is used without a reason.

**Gist.** The request for a gist holds the encoded names of the files shared so far (`StoredOwn`); encoding is
injective on names without an escape, so no file replaces another, and decoding undoes it.

**TopCrates.** The loop stops when a pass finds no new crate, by which time that pass may have changed features, so
that cargo finally builds other features than the ones the walk saw, and builds the older versions as well. The walk
leaves out nothing that was resolved (`Reached`). What it merges into a crate was asked for in
the resolved graph (`WalkRight`), metadata are never lost (`MetadataKept`), and a settled resolution
(`Settled`) that includes what is asked for includes all that follows from it; so, if the last pass kept up with
the features of the older versions, `built` stays below `on` (`OfferRight`), round by round.

**Worker.** Per job: where each packet its program wrote is (`JobOutput`), that the stdin task ends well only
when nothing can come after it (`JobStdin`), and what `process_end` has joined when it reaches its
verdict (`JobEnd`); a job is started once.

**Files.** Of all earlier requests only the strays of the last one can still change anything (`Succession`). So every file
and the manifest of the last request is, from its start, still to be written by it, or as it says, or a
stray's (`SourcesComing`); when cargo runs, nothing is still to be written. From there on
`OutcomeOwn` follows the output of cargo and what has been read back of it. `ModulesLeft` says that a module in
`target/` was left there by a request that could leave one; a request for WebAssembly that finds none but its own
therefore copies its own.

**Commander.** Ids are unique; every listener, request and message carries the id of the call it belongs to
(`RefsRight`); a call sends one command, and until the demultiplexer has taken it there is neither an ack nor a
listener (`CommandsOnce`); a call that was acknowledged keeps its listener until its one answer is in its
inbox (`Heard`). The replies of a call are numbered; what it received, what is in its inbox, in the
demultiplexer's hand and in `fromWorker` are then consecutive numbers (`Delivered`, `OnTheWay`), and
each step moves a number across one of the borders.

**Execution.** The same argument for a chain of four tasks. On the way in, the packets the child has read, those in
`toWorker`, in the cargo task's hand, in `stdinCh`, in the consumer's hand and in `userIn` are
`1 .. nIn` (`StdinFlow`); `StdinEnd` says that the close travels behind the last of them, and `Ends` who
still holds which end of a channel. On the way out, what was delivered, what is in the channel of a
stream, in the cargo task's hand and in `fromWorker` is what was written to the stream (`OutFlow`,
`Trail`); the streams share `fromWorker`, so there the packets of one stream are found among the others.
`Reported` says that the report is the last message, so that a cargo task that ended well has
passed everything on, and what is left to do is the drain.

**Only model-checked.** All liveness (`CancelEnds`, `OneReturns`, `ListenersCollected`, `ClosedReleases`,
`SessionReleases`, `WaiterServed`, `KillStops`, `EndReported`, `HandlerReturns`, `ContainersEnd`,
`CallsReturn`, `EventuallyFresh`): the prover does not do fairness or `ENABLED`. What an algorithm computes from
its whole input would be an induction over data, which the installed provers cannot do either;
`AsmFilter`, `Gist` and `TopCrates` therefore take their input step by step, as the loops in the code do, and
the induction is the one over steps. Nothing is said of the termination of the loops.

## 5. Not modelled

- Metrics: labels and counters that nothing reads back. The gauges that have to be exact are in
  `Limits`.
- Frontend: a browser program of its own. What it may send and when is what `Session`
  and `Execution` let a user do.
- The conversions between the types of the HTTP interface, the WebSocket messages and the
  orchestrator: maps from one enumeration to another, without state.
- bincode framing, environment variables, the writing of the files of `top-crates`: pure I/O. What its manifest
  asks of cargo is in `TopCrates` (`Wanted`).
- `demangle_asm`: a regular expression over `rustc_demangle`.
- The downloads of `top-crates` and cargo's resolver are external. The model has one dependency per
  pair of packages, and no cycles.
- Tokio's cooperative budget: a drain with `now_or_never` that uses the budget up ends early,
  and `OutputBeforeEnd` assumes it does not.
- A program that ends before the statistics thread looks it up is in `Worker`, without a property: nothing
  says how such a job should be reported.

## 6. What is left

The components that a model can say something about are modelled, every safety property is proved and
every liveness property is checked on an instance. What could be added:

1. The frontend's `websocketMiddleware.ts` as the other side of `Session`, with its reconnects and sequence
   numbers.
2. A liveness proof for `WaiterServed` and `CallsReturn`, with a prover that supports `ENABLED` and
   fairness.
3. A refinement between the coarse and the detailed views that the headers name (`Execution` of
   `Worker`, `Reclaim` of `Limits` and `Session`).
