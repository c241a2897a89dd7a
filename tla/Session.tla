------------------------------ MODULE Session -------------------------------
(***************************************************************************)
(* ui/src/server_axum/websocket.rs: one WebSocket connection.  The main    *)
(* loop (handle_core, handle_msg) takes the browser's messages, sends the  *)
(* responses and keeps active_executions; CoordinatorManager runs one task *)
(* per execution beside it.                                                *)
(*                                                                         *)
(*   browser --> main loop -- stdin[j] --> task j --> program              *)
(*   browser <-- main loop <----- rx ----- task j <-- program              *)
(*                                                                         *)
(* The main loop is the only reader of `rx` and also writes to it.         *)
(* Execution.tla looks inside a task.  Executions are numbered as the      *)
(* frontend numbers them: a sequence number is never used again.           *)
(***************************************************************************)
EXTENDS Naturals, FiniteSets

CONSTANTS MaxJobs,    \* bound on the ExecuteRequests of a connection
          StdinUsed,  \* whether the browser sends stdin
          Faults,     \* whether executions and idling may fail
          RxCap,      \* capacity of the response channel (3 in the code)
          StdinCap,   \* capacity of an execution's stdin channel (8)
          NParallel   \* CoordinatorManager::N_PARALLEL (2)

ASSUME SessionAssumption ==
    /\ MaxJobs \in Nat
    /\ StdinUsed \in BOOLEAN /\ Faults \in BOOLEAN
    /\ RxCap \in Nat \ {0} /\ StdinCap \in Nat \ {0} /\ NParallel \in Nat \ {0}

Job == 1 .. MaxJobs

VARIABLES
    phase,      \* "handshake", "open", "shutdown", "closed"
    loop,       \* the main loop: "select", "socket" (sends a response to the
                \* browser), "report" (sends an error on its own channel) or
                \* "stdin" (sends to an execution)
    loopJob,    \* that execution; 0 when there is none
    rx,         \* the number of responses in the response channel
    task,       \* each job's task, see Stage
    aborting,   \* tasks told to abort
    latest,     \* abort_handles[KIND_EXECUTE]; 0 is None
    permits,    \* CoordinatorManager::semaphore
    entry,      \* active_executions: "absent", or the sender is "open" / "closed"
    cancelled,  \* jobs whose program is told to stop
    stdin,      \* packets in each job's stdin channel
    nJobs,      \* the number of ExecuteRequests so far
    container,  \* whether the coordinator has a container
    holders,    \* the jobs whose future owns a clone of the Arc of the coordinator
    idleTimer,  \* idle_timeout: "off" (terminated) or "armed"
    expired,    \* session_timeout has elapsed
    killed      \* jobs the browser sent ExecuteKill for

loopVars == <<phase, loop, loopJob>>
taskVars == <<task, aborting, latest, permits>>
inputVars == <<nJobs, killed>>
vars == <<loopVars, rx, taskVars, entry, cancelled, stdin, inputVars, container, holders,
          idleTimer, expired>>

(***************************************************************************)
(*   none      no such task            feeding  waits to pass stdin on     *)
(*   queued    waits for the semaphore ended    returned Ok                *)
(*   running   in its select!          failed   returned Err               *)
(*   sending   waits for room in rx    aborted  its future was dropped     *)
(*                                     joined   taken out of the JoinSet   *)
(***************************************************************************)
Working == {"running", "sending", "feeding"}
Live == Working \cup {"queued"}
Over == {"ended", "failed", "aborted"}
Stage == Live \cup Over \cup {"none", "joined"}

ManagerEmpty == \A j \in Job : task[j] \in {"none", "joined"}

TypeOK ==
    /\ phase \in {"handshake", "open", "shutdown", "closed"}
    /\ loop \in {"select", "socket", "report", "stdin"} /\ loopJob \in 0 .. MaxJobs
    /\ loop = "stdin" <=> loopJob # 0
    /\ rx \in 0 .. RxCap
    /\ task \in [Job -> Stage] /\ aborting \subseteq Job /\ latest \in 0 .. MaxJobs
    /\ permits \in 0 .. NParallel
    /\ entry \in [Job -> {"absent", "open", "closed"}]
    /\ cancelled \subseteq Job /\ killed \subseteq Job
    /\ stdin \in [Job -> 0 .. StdinCap]
    /\ nJobs \in 0 .. MaxJobs
    /\ container \in BOOLEAN /\ holders \subseteq Job /\ idleTimer \in {"off", "armed"} /\ expired \in BOOLEAN

Init ==
    /\ phase = "handshake" /\ loop = "select" /\ loopJob = 0 /\ rx = 0
    /\ task = [j \in Job |-> "none"] /\ aborting = {} /\ latest = 0
    /\ permits = NParallel
    /\ entry = [j \in Job |-> "absent"] /\ cancelled = {}
    /\ stdin = [j \in Job |-> 0]
    /\ nJobs = 0 /\ killed = {}
    /\ container = FALSE /\ holders = {} /\ idleTimer = "off" /\ expired = FALSE

-----------------------------------------------------------------------------
(* handle_core up to its loop *)
Handshake ==
    /\ phase = "handshake"
    /\ \/ phase' = "open" /\ rx' = 1         \* the feature flags
       \/ phase' = "closed" /\ UNCHANGED rx  \* refused, or timed out
    /\ UNCHANGED <<loop, loopJob, taskVars, entry, cancelled, stdin, inputVars, container, holders,
                   idleTimer, expired>>

-----------------------------------------------------------------------------
(* handle_msg, called when the select! yields Request *)
AtSelect == phase = "open" /\ loop = "select"

\* Variant: a new execution does not abort the one before it.
PoliteExecuteRequest ==
    /\ AtSelect /\ nJobs < MaxJobs
    /\ LET j == nJobs + 1 IN
         /\ nJobs' = j
         /\ entry' = [entry EXCEPT ![j] = "open"]
         /\ task' = [task EXCEPT ![j] = "queued"]
         /\ latest' = j
         /\ holders' = holders \cup {j}
    /\ UNCHANGED <<loopVars, rx, aborting, permits, cancelled, stdin, killed,
                   container, idleTimer, expired>>

\* ExecuteRequest, with CoordinatorManager::spawn: the task gets a clone of the
\* coordinator's Arc, and the previous task is aborted.
ExecuteRequest ==
    /\ AtSelect /\ nJobs < MaxJobs
    /\ LET j == nJobs + 1 IN
         /\ nJobs' = j
         /\ entry' = [entry EXCEPT ![j] = "open"]
         /\ task' = [task EXCEPT ![j] = "queued"]
         /\ latest' = j
         /\ holders' = holders \cup {j}
         /\ aborting' = aborting \cup ({latest} \ {0})
    /\ UNCHANGED <<loopVars, rx, permits, cancelled, stdin, killed, container,
                   idleTimer, expired>>

ExecuteStdin(j) ==
    /\ AtSelect /\ StdinUsed /\ entry[j] = "open"
    /\ loop' = "stdin" /\ loopJob' = j
    /\ UNCHANGED <<phase, rx, taskVars, entry, cancelled, stdin, inputVars, container, holders,
                   idleTimer, expired>>

\* `execution_tx.send`: room, or an error once the task dropped its receiver.
SendStdin ==
    /\ loop = "stdin"
    /\ \/ /\ task[loopJob] \in Live /\ stdin[loopJob] < StdinCap
          /\ stdin' = [stdin EXCEPT ![loopJob] = @ + 1]
          /\ loop' = "select"
       \/ /\ task[loopJob] \notin Live
          /\ loop' = "report"
          /\ UNCHANGED stdin
    /\ loopJob' = 0
    /\ UNCHANGED <<phase, rx, taskVars, entry, cancelled, inputVars, container, holders,
                   idleTimer, expired>>

ExecuteStdinClose(j) ==
    /\ AtSelect /\ entry[j] = "open"
    /\ entry' = [entry EXCEPT ![j] = "closed"]
    /\ UNCHANGED <<loopVars, rx, taskVars, cancelled, stdin, inputVars, container, holders,
                   idleTimer, expired>>

\* The entry, its token's DropGuard included, is removed.
ExecuteKill(j) ==
    /\ AtSelect /\ entry[j] # "absent"
    /\ entry' = [entry EXCEPT ![j] = "absent"]
    /\ cancelled' = cancelled \cup {j} /\ killed' = killed \cup {j}
    /\ UNCHANGED <<loopVars, rx, taskVars, stdin, nJobs, container, holders, idleTimer, expired>>

BadMessage ==
    /\ AtSelect
    /\ loop' = "report"
    /\ UNCHANGED <<phase, loopJob, rx, taskVars, entry, cancelled, stdin, inputVars,
                   container, holders, idleTimer, expired>>

\* `tx.send(Err(..))` by the main loop itself.
Report ==
    /\ loop = "report" /\ rx < RxCap
    /\ rx' = rx + 1
    /\ loop' = "select"
    /\ UNCHANGED <<phase, loopJob, taskVars, entry, cancelled, stdin, inputVars, container, holders,
                   idleTimer, expired>>

-----------------------------------------------------------------------------
(* The other branches of the select! *)
\* break: the loop is left, the channel and the socket are dropped, and
\* manager.shutdown aborts every task.
Leave == /\ phase' = "shutdown" /\ rx' = 0
         /\ aborting' = aborting \cup {j \in Job : task[j] \in Live}

\* Response: nothing else is looked at until the browser's side takes it,
Response ==
    /\ AtSelect /\ rx > 0
    /\ rx' = rx - 1 /\ loop' = "socket"
    /\ UNCHANGED <<phase, loopJob, taskVars, entry, cancelled, stdin, inputVars, container,
                   holders, idleTimer, expired>>

\* or refuses it.
SendToSocket ==
    /\ loop = "socket" /\ loop' = "select"
    /\ Leave \/ UNCHANGED <<phase, rx, aborting>>
    /\ UNCHANGED <<loopJob, task, latest, permits, entry, cancelled, stdin, inputVars,
                   container, holders, idleTimer, expired>>

Disconnect ==
    /\ AtSelect
    /\ Leave
    /\ UNCHANGED <<loop, loopJob, task, latest, permits, entry, cancelled, stdin,
                   inputVars, container, holders, idleTimer, expired>>

\* Variant: a task that failed is reported before idling is considered.
ForgetfulTaskDone(j) ==
    /\ AtSelect /\ task[j] \in Over
    /\ task' = [task EXCEPT ![j] = "joined"]
    /\ idleTimer' = IF task[j] = "ended" /\ \A k \in Job \ {j} : task[k] \in {"none", "joined"}
                      THEN "armed" ELSE idleTimer
    /\ loop' = IF task[j] = "failed" THEN "report" ELSE loop
    /\ UNCHANGED <<phase, loopJob, rx, aborting, latest, permits, entry, cancelled,
                   stdin, inputVars, container, holders, expired>>

\* manager.join_next
TaskDone(j) ==
    /\ AtSelect /\ task[j] \in Over
    /\ task' = [task EXCEPT ![j] = "joined"]
    /\ idleTimer' = IF \A k \in Job \ {j} : task[k] \in {"none", "joined"}
                      THEN "armed" ELSE idleTimer
    /\ loop' = IF task[j] = "failed" THEN "report" ELSE loop
    /\ UNCHANGED <<phase, loopJob, rx, aborting, latest, permits, entry, cancelled,
                   stdin, inputVars, container, holders, expired>>

\* Entries without an open sender to a live receiver go, DropGuard and all.
Collectable == {j \in Job : \/ entry[j] = "closed"
                            \/ entry[j] = "open" /\ task[j] \notin Live}

\* Variant: the token of a collected entry is forgotten instead of cancelled.
QuietGarbageCollection ==
    /\ AtSelect
    /\ entry' = [j \in Job |-> IF j \in Collectable THEN "absent" ELSE entry[j]]
    /\ UNCHANGED <<loopVars, rx, taskVars, cancelled, stdin, inputVars, container, holders, idleTimer,
                   expired>>

GarbageCollection ==
    /\ AtSelect
    /\ entry' = [j \in Job |-> IF j \in Collectable THEN "absent" ELSE entry[j]]
    /\ cancelled' = cancelled \cup Collectable
    /\ UNCHANGED <<loopVars, rx, taskVars, stdin, inputVars, container, holders, idleTimer, expired>>

\* manager.idle: while another handle on the coordinator exists, Arc::get_mut
\* refuses, which is reported.  Otherwise it works, fails (reported too) or
\* takes too long (break); the container is out of its OnceCell in each case.
Idle ==
    /\ container' = (container /\ holders # {})
    /\ \/ /\ loop' \in (IF holders = {} THEN {"select"} ELSE {"report"})
          /\ UNCHANGED <<phase, rx, aborting>>
       \/ /\ Faults /\ container /\ loop' = "report"
          /\ UNCHANGED <<phase, rx, aborting>>
       \/ /\ Faults /\ container /\ holders = {} /\ Leave
          /\ UNCHANGED loop
    /\ UNCHANGED <<loopJob, task, latest, permits, entry, cancelled, stdin, inputVars,
                   holders, expired>>

IdleTimeout == /\ AtSelect /\ ManagerEmpty
               /\ idleTimer = "armed" /\ idleTimer' = "off"
               /\ Idle

\* Somebody is waiting for a container (container_requested).
IdleRequest == /\ AtSelect /\ ManagerEmpty
               /\ Idle
               /\ UNCHANGED idleTimer

SessionExpires ==
    /\ phase = "open" /\ ~expired
    /\ expired' = TRUE
    /\ UNCHANGED <<loopVars, rx, taskVars, entry, cancelled, stdin, inputVars, container, holders,
                   idleTimer>>

SessionTimeout ==
    /\ AtSelect /\ expired
    /\ Leave
    /\ UNCHANGED <<loop, loopJob, task, latest, permits, entry, cancelled, stdin,
                   inputVars, container, holders, idleTimer, expired>>

-----------------------------------------------------------------------------
(* The end of handle_core: manager.shutdown under shutdown_timeout *)
ShutdownJoin(j) ==
    /\ phase = "shutdown" /\ task[j] \in Over
    /\ task' = [task EXCEPT ![j] = "joined"]
    /\ UNCHANGED <<loopVars, rx, aborting, latest, permits, entry, cancelled, stdin,
                   inputVars, container, holders, idleTimer, expired>>

\* The entries of active_executions go with the stack frame.
DropEntries == /\ entry' = [j \in Job |-> "absent"]
               /\ cancelled' = cancelled \cup {j \in Job : entry[j] # "absent"}

\* Once the tasks are joined, Arc::into_inner gives the coordinator if this is
\* its last handle, and the container is shut down.
ShutdownDone ==
    /\ phase = "shutdown" /\ ManagerEmpty
    /\ phase' = "closed" /\ container' = (container /\ holders # {})
    /\ DropEntries
    /\ UNCHANGED <<loop, loopJob, rx, taskVars, stdin, inputVars, holders, idleTimer, expired>>

\* shutdown_timeout: the manager is dropped and with it what it can drop.
ShutdownTimeout ==
    /\ phase = "shutdown"
    /\ phase' = "closed" /\ container' = (container /\ holders # {})
    /\ DropEntries
    /\ UNCHANGED <<loop, loopJob, rx, taskVars, stdin, inputVars, holders, idleTimer, expired>>

\* Variant: the overall timeout is one more branch of the loop's select!.
InLoopOverallTimeout ==
    /\ AtSelect /\ expired
    /\ phase' = "closed" /\ rx' = 0
    /\ DropEntries
    /\ aborting' = aborting \cup {j \in Job : task[j] \in Live}
    /\ container' = (container /\ holders # {})
    /\ UNCHANGED <<loop, loopJob, task, latest, permits, stdin, inputVars, holders, idleTimer,
                   expired>>

\* overall_timeout, which is longer than session_timeout: wherever handle_core
\* waits, its future is dropped, and dropping the JoinSet aborts the tasks.  In
\* the phase of the shutdown this is what ShutdownTimeout does.
OverallTimeout ==
    /\ phase = "open" /\ expired
    /\ phase' = "closed" /\ loop' = "select" /\ loopJob' = 0 /\ rx' = 0
    /\ DropEntries
    /\ aborting' = aborting \cup {j \in Job : task[j] \in Live}
    /\ container' = (container /\ holders # {})
    /\ UNCHANGED <<task, latest, permits, stdin, inputVars, holders, idleTimer, expired>>

-----------------------------------------------------------------------------
(* The task of an execution *)
SetTask(j, from, to) == task[j] \in from /\ task' = [task EXCEPT ![j] = to]

\* Variant: a task's handle on the coordinator outlives the task.
LeakyDropCoordinator(j) == UNCHANGED <<container, holders>>

\* The future is gone and with it its handle; after the connection the container
\* goes with the last of them.
DropCoordinator(j) ==
    /\ holders' = holders \ {j}
    /\ container' = (container /\ (phase # "closed" \/ holders' # {}))

TaskStart(j) ==
    /\ SetTask(j, {"queued"}, "running")
    /\ permits > 0 /\ permits' = permits - 1
    /\ container' = TRUE
    /\ UNCHANGED <<loopVars, rx, aborting, latest, entry, cancelled, stdin, inputVars,
                   holders, idleTimer, expired>>

TaskOutput(j) ==
    /\ SetTask(j, {"running"}, "sending")
    /\ UNCHANGED <<loopVars, rx, aborting, latest, permits, entry, cancelled, stdin, inputVars,
                   container, holders, idleTimer, expired>>

\* `tx.send`: room, or the receiver is gone and the task gives up.
TaskSend(j) ==
    /\ \/ /\ phase = "open" /\ rx < RxCap
          /\ SetTask(j, {"sending"}, "running")
          /\ rx' = rx + 1
          /\ UNCHANGED <<permits, container, holders>>
       \/ /\ phase # "open"
          /\ SetTask(j, {"sending"}, "ended")
          /\ permits' = permits + 1
          /\ DropCoordinator(j)
          /\ UNCHANGED rx
    /\ UNCHANGED <<loopVars, aborting, latest, entry, cancelled, stdin, inputVars,
                   idleTimer, expired>>

TaskStdin(j) ==
    /\ stdin[j] > 0 /\ stdin' = [stdin EXCEPT ![j] = @ - 1]
    /\ SetTask(j, {"running"}, "feeding")
    /\ UNCHANGED <<loopVars, rx, aborting, latest, permits, entry, cancelled, inputVars,
                   container, holders, idleTimer, expired>>

\* The program's side took the packet, which it may never do.
TaskFed(j) ==
    /\ SetTask(j, {"feeding"}, "running")
    /\ UNCHANGED <<loopVars, rx, aborting, latest, permits, entry, cancelled, stdin,
                   inputVars, container, holders, idleTimer, expired>>

TaskEnds(j) ==
    /\ \/ SetTask(j, {"running"}, "ended")
       \/ Faults /\ SetTask(j, {"running", "feeding"}, "failed")
    /\ permits' = permits + 1
    /\ DropCoordinator(j)
    /\ UNCHANGED <<loopVars, rx, aborting, latest, entry, cancelled, stdin, inputVars,
                   idleTimer, expired>>

\* Variant: an aborted task keeps its place among the parallel ones.
GreedyTaskAborted(j) ==
    /\ j \in aborting
    /\ SetTask(j, Live, "aborted")
    /\ cancelled' = cancelled \cup {j}
    /\ DropCoordinator(j)
    /\ UNCHANGED <<loopVars, rx, aborting, latest, permits, entry, stdin, inputVars,
                   idleTimer, expired>>

\* The runtime drops the future: the permit comes back, and the guard inside
\* it tells the program to stop.
TaskAborted(j) ==
    /\ j \in aborting
    /\ SetTask(j, Live, "aborted")
    /\ permits' = IF task[j] \in Working THEN permits + 1 ELSE permits
    /\ cancelled' = cancelled \cup {j}
    /\ DropCoordinator(j)
    /\ UNCHANGED <<loopVars, rx, aborting, latest, entry, stdin, inputVars,
                   idleTimer, expired>>

-----------------------------------------------------------------------------
Request == \/ ExecuteRequest \/ BadMessage \/ Disconnect
           \/ \E j \in Job : ExecuteStdin(j) \/ ExecuteStdinClose(j) \/ ExecuteKill(j)

Loop == \/ SendStdin \/ Report \/ Response \/ SendToSocket \/ GarbageCollection \/ IdleTimeout
        \/ IdleRequest \/ SessionTimeout \/ OverallTimeout
        \/ ShutdownDone \/ ShutdownTimeout \/ \E j \in Job : TaskDone(j) \/ ShutdownJoin(j)

Task(j) == \/ TaskStart(j) \/ TaskOutput(j) \/ TaskSend(j) \/ TaskStdin(j) \/ TaskFed(j)
           \/ TaskEnds(j) \/ TaskAborted(j)

Next == Handshake \/ Request \/ Loop \/ SessionExpires \/ \E j \in Job : Task(j)

Spec == Init /\ [][Next]_vars

\* The main loop and the tasks run, and the random order in which select!
\* polls its branches overlooks none of them for ever.  Nothing obliges the
\* browser to act, to read from its socket or a program to write, read or end.
Fairness ==
    /\ SF_vars(SessionTimeout) /\ SF_vars(Response)
    /\ WF_vars(SendStdin) /\ WF_vars(Report) /\ WF_vars(ShutdownTimeout)
    /\ WF_vars(SessionExpires) /\ WF_vars(OverallTimeout)
    /\ \A j \in Job : /\ SF_vars(TaskDone(j)) /\ WF_vars(TaskAborted(j))
                      /\ WF_vars(TaskSend(j))

FairSpec == Spec /\ Fairness

-----------------------------------------------------------------------------
\* "Only allows one job of a certain kind at a time ... Older jobs will be
\* cancelled": of two tasks that are still alive, the older is being aborted.
OneExecution ==
    \A i, j \in Job : i < j /\ task[i] \in Live /\ task[j] \in Live => i \in aborting

\* The semaphore that limits the tasks gets every permit back, on each of the
\* ways a task can go.
ParallelismConserved ==
    permits + Cardinality({j \in Job : task[j] \in Working}) = NParallel

\* An execution that runs can be stopped by the browser: it is in
\* active_executions until it is cancelled, aborted or over.
Killable ==
    \A j \in Job : phase = "open" /\ task[j] \in Live
        => entry[j] # "absent" \/ j \in cancelled \cup aborting

\* A container that no execution uses any more is always about to be given back:
\* whichever way the last task ended, the idle timer runs.
UnusedContainerTimed == phase = "open" /\ container /\ ManagerEmpty => idleTimer = "armed"

\* "The coordinator is still referenced and cannot be idled", "... shut down":
\* neither happens.  When no task is left to join, however the tasks went,
\* the manager's handle on the coordinator is the only one.
NeverOutstanding == ManagerEmpty => holders = {}

\* "How long the user can be connected to the WebSocket": once session_timeout
\* has elapsed the connection ends and no container is left of it, even if
\* the loop waits for a browser that does not read, for a program that takes no
\* input or for room in the channel that only it could empty.
SessionReleases == expired ~> phase = "closed" /\ ~container

\* A closed connection keeps no container.
ClosedReleases == phase = "closed" ~> ~container

\* A program that runs is told to stop for one of these reasons only: the
\* browser asked, a newer execution replaced it, or the connection ended.
CancelledForAReason ==
    \A j \in cancelled :
        task[j] \in Live => j \in killed \cup aborting \/ phase # "open"
=============================================================================
