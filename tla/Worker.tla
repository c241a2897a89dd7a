------------------------------- MODULE Worker -------------------------------
(***************************************************************************)
(* worker.rs: the process in the container that runs the jobs' programs.   *)
(*                                                                         *)
(*   cmds ---> manage_processes -- stdinCh[j] --> stdin task --> child     *)
(*                  ^   shutdownCh                                         *)
(*                  +------------- process task (process_end)              *)
(*   out <--- stdout task <-- pipe[j] <-- child;  statistics thread        *)
(*                                                                         *)
(* cmds stands for the coordinator's messages from the pipe to             *)
(* process_rx: the reading thread and handle_coordinator_message pass them *)
(* on one by one and in order.  The task for stderr is the one for stdout  *)
(* over again and is left out, as are the file requests.                   *)
(***************************************************************************)
EXTENDS Naturals, Sequences, FiniteSets

CONSTANTS Job,       \* the jobs the coordinator starts
          Cap,       \* capacity of every channel (8 in the code)
          MaxIn,     \* bound on the stdin packets sent to a job
          MaxOut,    \* bound on the packets a program writes
          OutLimit   \* the packets that make up OUTPUT_BYTE_LIMIT

ASSUME WorkerAssumption == /\ IsFiniteSet(Job) /\ Cap \in Nat \ {0}
                           /\ MaxIn \in Nat /\ MaxOut \in Nat /\ OutLimit \in Nat

VARIABLES
    sent,        \* per job, what the coordinator sent so far
    cmds,        \* its commands on the way to manage_processes
    manager,     \* manage_processes: "select", "stdin" (waits for room in a
                 \* stdin channel), "refuse" (reports a failed spawn), "failed"
    current,     \* the job of that wait, as a set of at most one
    senders,     \* stdin_senders
    tokens,      \* kill_tokens
    shutdownCh,  \* stdin_shutdown: a sequence of jobs
    child,       \* "none", "running", "exited", "reaped"
    held,        \* the pipes of the job that a process of it has open: the
                 \* child, or a descendant, which may outlive it
    pipe,        \* packets written to its stdout that were not read yet
    wrote,       \* packets written to it
    copied,      \* packets of it that were sent to the coordinator
    stdinCh,     \* packets in the job's stdin channel
    task,        \* the stdio tasks of each job, see Stage
    dropped,     \* jobs whose stdio tasks are being aborted
    stats,       \* the statistics thread: "none", "starting", "reading",
                 \* "ok", "failed"
    cancelled,   \* jobs whose kill token is cancelled
    proc,        \* process_end: "none", "select", "shutdown", "join", "stats",
                 \* "respond", "done"
    verdict,     \* what it is about to respond or responded
    out,         \* worker_msg: <<job, kind>>
    worker       \* "up" or "ended"

managerVars == <<manager, current, senders, tokens, shutdownCh>>
childVars == <<child, held, pipe, wrote>>
taskVars == <<copied, stdinCh, task, dropped>>
procVars == <<cancelled, proc, verdict>>
vars == <<sent, cmds, managerVars, childVars, taskVars, stats, procVars, out, worker>>

(***************************************************************************)
(* Stages of a stdio task: "none", "idle" (in recv or read), "busy" (the   *)
(* packet in hand waits to be written or sent), "ok", "failed", "joined",  *)
(* "aborted".                                                              *)
(***************************************************************************)
Stdio == {"stdin", "stdout"}
Over == {"ok", "failed", "joined", "aborted"}
Stage == Over \cup {"none", "idle", "busy"}

Command == [type : {"Start", "Stdin", "StdinClose", "Kill"}, job : Job]
Message == Job \X {"Packet", "Statistics", "Response", "Error"}

TypeOK ==
    /\ sent \in [Job -> [start : BOOLEAN, stdin : 0 .. MaxIn, close : BOOLEAN, kill : BOOLEAN]]
    /\ cmds \in Seq(Command) /\ Len(cmds) <= Cap
    /\ manager \in {"select", "stdin", "refuse", "failed"}
    /\ current \in SUBSET Job /\ Cardinality(current) <= 1
    /\ senders \subseteq Job /\ tokens \subseteq Job /\ cancelled \subseteq Job
    /\ shutdownCh \in Seq(Job) /\ Len(shutdownCh) <= Cap
    /\ child \in [Job -> {"none", "running", "exited", "reaped"}]
    /\ held \in [Job -> SUBSET Stdio] /\ pipe \in [Job -> 0 .. 1] /\ wrote \in [Job -> 0 .. MaxOut]
    /\ copied \in [Job -> 0 .. MaxOut] /\ stdinCh \in [Job -> 0 .. Cap]
    /\ task \in [Job -> [Stdio -> Stage]] /\ dropped \subseteq Job
    /\ stats \in [Job -> {"none", "starting", "reading", "ok", "failed"}]
    /\ proc \in [Job -> {"none", "select", "shutdown", "join", "stats", "respond", "done"}]
    /\ verdict \in [Job -> {"none", "Response", "Error"}]
    /\ out \in Seq(Message) /\ Len(out) <= Cap
    /\ worker \in {"up", "ended"}

Init ==
    /\ sent = [j \in Job |-> [start |-> FALSE, stdin |-> 0, close |-> FALSE, kill |-> FALSE]]
    /\ cmds = <<>> /\ manager = "select" /\ current = {}
    /\ senders = {} /\ tokens = {} /\ cancelled = {} /\ shutdownCh = <<>>
    /\ child = [j \in Job |-> "none"]
    /\ held = [j \in Job |-> {}] /\ pipe = [j \in Job |-> 0] /\ wrote = [j \in Job |-> 0]
    /\ copied = [j \in Job |-> 0] /\ stdinCh = [j \in Job |-> 0]
    /\ task = [j \in Job |-> [s \in Stdio |-> "none"]] /\ dropped = {}
    /\ stats = [j \in Job |-> "none"]
    /\ proc = [j \in Job |-> "none"] /\ verdict = [j \in Job |-> "none"]
    /\ out = <<>> /\ worker = "up"

-----------------------------------------------------------------------------
(* The coordinator's messages.  It learns of a job's end some time after the *)
(* response was sent, so that it may send stdin or a kill after it.          *)
Queue(t, j) == cmds' = Append(cmds, [type |-> t, job |-> j])

CoordinatorSends(j) ==
    /\ worker = "up" /\ Len(cmds) < Cap
    /\ \/ /\ ~sent[j].start
          /\ sent' = [sent EXCEPT ![j].start = TRUE] /\ Queue("Start", j)
       \/ /\ sent[j].start /\ ~sent[j].close /\ sent[j].stdin < MaxIn
          /\ sent' = [sent EXCEPT ![j].stdin = @ + 1] /\ Queue("Stdin", j)
       \/ /\ sent[j].start /\ ~sent[j].close
          /\ sent' = [sent EXCEPT ![j].close = TRUE] /\ Queue("StdinClose", j)
       \/ /\ sent[j].start /\ ~sent[j].kill
          /\ sent' = [sent EXCEPT ![j].kill = TRUE] /\ Queue("Kill", j)
    /\ UNCHANGED <<managerVars, childVars, taskVars, stats, procVars, out, worker>>

\* The thread that writes the worker's stdout.
WriteMessage ==
    /\ worker = "up" /\ out # <<>> /\ out' = Tail(out)
    /\ UNCHANGED <<sent, cmds, managerVars, childVars, taskVars, stats, procVars, worker>>

Post(j, kind) == /\ worker = "up" /\ Len(out) < Cap /\ out' = Append(out, <<j, kind>>)

-----------------------------------------------------------------------------
(* manage_processes *)
Take(t, j) == /\ worker = "up" /\ manager = "select" /\ cmds # <<>>
               /\ Head(cmds) = [type |-> t, job |-> j]
               /\ cmds' = Tail(cmds)

\* ProcessState::start, when process_begin succeeds.
Start(j) ==
    /\ Take("Start", j)
    /\ child' = [child EXCEPT ![j] = "running"] /\ held' = [held EXCEPT ![j] = Stdio]
    /\ senders' = senders \cup {j} /\ tokens' = tokens \cup {j}
    /\ task' = [task EXCEPT ![j] = [s \in Stdio |-> "idle"]]
    /\ stats' = [stats EXCEPT ![j] = "starting"]
    /\ proc' = [proc EXCEPT ![j] = "select"]
    /\ UNCHANGED <<sent, manager, current, shutdownCh, pipe, wrote, copied, stdinCh,
                   dropped, cancelled, verdict, out, worker>>

\* The command cannot be spawned: manage_processes itself sends the error.
StartFails(j) ==
    /\ Take("Start", j)
    /\ manager' = "refuse" /\ current' = {j}
    /\ UNCHANGED <<sent, senders, tokens, shutdownCh, childVars, taskVars, stats, procVars,
                   out, worker>>

Refuse ==
    /\ manager = "refuse"
    /\ \E j \in current : Post(j, "Error") /\ verdict' = [verdict EXCEPT ![j] = "Error"]
    /\ manager' = "select" /\ current' = {}
    /\ UNCHANGED <<sent, cmds, senders, tokens, shutdownCh, childVars, taskVars, stats,
                   cancelled, proc, worker>>

\* ProcessState::stdin: a packet for a job without a sender is ignored.
Stdin(j) ==
    /\ Take("Stdin", j)
    /\ IF j \in senders THEN manager' = "stdin" /\ current' = {j}
                        ELSE UNCHANGED <<manager, current>>
    /\ UNCHANGED <<sent, senders, tokens, shutdownCh, childVars, taskVars, stats, procVars,
                   out, worker>>

\* stdin_tx.send: there is room, or the task that held the receiver is gone
\* and the error ends manage_processes.
PutStdin ==
    /\ worker = "up" /\ manager = "stdin"
    /\ \E j \in current :
          \/ /\ task[j]["stdin"] \notin Over /\ stdinCh[j] < Cap
             /\ stdinCh' = [stdinCh EXCEPT ![j] = @ + 1]
             /\ manager' = "select" /\ current' = {}
          \/ /\ task[j]["stdin"] \in Over
             /\ manager' = "failed"
             /\ UNCHANGED <<stdinCh, current>>
    /\ UNCHANGED <<sent, cmds, senders, tokens, shutdownCh, childVars, copied, task, dropped,
                   stats, procVars, out, worker>>

StdinClose(j) ==
    /\ Take("StdinClose", j)
    /\ senders' = senders \ {j}
    /\ UNCHANGED <<sent, manager, current, tokens, shutdownCh, childVars, taskVars, stats,
                   procVars, out, worker>>

\* Variant: the guard is forgotten, not dropped.
ForgottenKill(j) ==
    /\ Take("Kill", j)
    /\ tokens' = tokens \ {j}
    /\ UNCHANGED <<sent, manager, current, senders, shutdownCh, childVars, taskVars, stats,
                   procVars, out, worker>>

\* ProcessState::kill: dropping the guard cancels the token.
Kill(j) ==
    /\ Take("Kill", j)
    /\ tokens' = tokens \ {j} /\ cancelled' = cancelled \cup (tokens \cap {j})
    /\ UNCHANGED <<sent, manager, current, senders, shutdownCh, childVars, taskVars, stats,
                   proc, verdict, out, worker>>

\* stdin_shutdown_rx.recv
StdinShutdown ==
    /\ worker = "up" /\ manager = "select" /\ shutdownCh # <<>>
    /\ senders' = senders \ {Head(shutdownCh)} /\ shutdownCh' = Tail(shutdownCh)
    /\ UNCHANGED <<sent, cmds, manager, current, tokens, childVars, taskVars, stats, procVars,
                   out, worker>>

\* listen: the coordinator closed the pipe, or manage_processes failed; all
\* the tasks and their channels are dropped with it, and the programs die with
\* the container.
End ==
    /\ worker = "up" /\ worker' = "ended"
    /\ child' = [j \in Job |-> IF child[j] = "running" THEN "exited" ELSE child[j]]
    /\ held' = [j \in Job |-> {}]
    /\ cmds' = <<>> /\ shutdownCh' = <<>> /\ out' = <<>>
    /\ UNCHANGED <<sent, manager, current, senders, tokens, pipe, wrote, taskVars, stats, procVars>>

-----------------------------------------------------------------------------
(* The program: the child and its descendants.  The stdout pipe holds one   *)
(* packet.                                                                   *)
ProgramWrites(j) ==
    /\ "stdout" \in held[j] /\ pipe[j] = 0 /\ wrote[j] < MaxOut
    /\ pipe' = [pipe EXCEPT ![j] = 1] /\ wrote' = [wrote EXCEPT ![j] = @ + 1]
    /\ UNCHANGED <<sent, cmds, managerVars, child, held, taskVars, stats, procVars, out,
                   worker>>

\* The end of the child closes the pipes that nothing else holds: LetGo.
ChildExits(j) ==
    /\ child[j] = "running"
    /\ child' = [child EXCEPT ![j] = "exited"]
    /\ UNCHANGED <<sent, cmds, managerVars, held, pipe, wrote, taskVars, stats, procVars, out,
                   worker>>

\* The last process that has a pipe open closes it or ends.
LetGo(j, s) ==
    /\ s \in held[j] /\ held' = [held EXCEPT ![j] = @ \ {s}]
    /\ UNCHANGED <<sent, cmds, managerVars, child, pipe, wrote, taskVars, stats, procVars,
                   out, worker>>

-----------------------------------------------------------------------------
(* stream_stdio *)
MoveTask(j, s, from, to) == /\ worker = "up" /\ task[j][s] = from
                            /\ task' = [task EXCEPT ![j][s] = to]

\* Variant: the task takes an empty channel for a closed one.
ImpatientStdinRecv(j) ==
    /\ \/ /\ stdinCh[j] > 0 /\ MoveTask(j, "stdin", "idle", "busy")
          /\ stdinCh' = [stdinCh EXCEPT ![j] = @ - 1]
       \/ /\ stdinCh[j] = 0
          /\ MoveTask(j, "stdin", "idle", "ok")
          /\ UNCHANGED stdinCh
    /\ UNCHANGED <<sent, cmds, managerVars, childVars, copied, dropped, stats, procVars, out, worker>>

\* stdin_rx.recv: a packet, or the end once the sender is gone.
StdinRecv(j) ==
    /\ \/ /\ stdinCh[j] > 0 /\ MoveTask(j, "stdin", "idle", "busy")
          /\ stdinCh' = [stdinCh EXCEPT ![j] = @ - 1]
       \/ /\ stdinCh[j] = 0 /\ j \notin senders
          /\ MoveTask(j, "stdin", "idle", "ok")
          /\ UNCHANGED stdinCh
    /\ UNCHANGED <<sent, cmds, managerVars, childVars, copied, dropped, stats, procVars, out, worker>>

\* The program reads what is written for it, or nobody has the pipe open.
StdinWrite(j) ==
    /\ \/ "stdin" \in held[j] /\ MoveTask(j, "stdin", "busy", "idle")
       \/ "stdin" \notin held[j] /\ MoveTask(j, "stdin", "busy", "failed")
    /\ UNCHANGED <<sent, cmds, managerVars, childVars, copied, stdinCh, dropped, stats, procVars,
                   out, worker>>

\* copy_child_output reads text, bytes that are not UTF-8, or the end, which
\* comes when nobody has the pipe open.
OutputRead(j) ==
    /\ \/ /\ pipe[j] > 0
          /\ \E to \in {"busy", "failed"} : MoveTask(j, "stdout", "idle", to)
       \/ /\ pipe[j] = 0 /\ "stdout" \notin held[j]
          /\ MoveTask(j, "stdout", "idle", "ok")
    /\ pipe' = [pipe EXCEPT ![j] = 0]
    /\ UNCHANGED <<sent, cmds, managerVars, child, held, wrote, copied, stdinCh, dropped,
                   stats, procVars, out, worker>>

\* Sends the packet first and then looks at the limit.
OutputSend(j) ==
    /\ Post(j, "Packet")
    /\ copied' = [copied EXCEPT ![j] = @ + 1]
    /\ MoveTask(j, "stdout", "busy", IF copied[j] + 1 <= OutLimit THEN "idle" ELSE "failed")
    /\ UNCHANGED <<sent, cmds, managerVars, childVars, stdinCh, dropped, stats, procVars, worker>>

\* The runtime gets round to a task that was aborted with its JoinSet.
TaskAborted(j, s) ==
    /\ j \in dropped /\ task[j][s] \in {"idle", "busy"}
    /\ MoveTask(j, s, task[j][s], "aborted")
    /\ UNCHANGED <<sent, cmds, managerVars, childVars, copied, stdinCh, dropped, stats, procVars,
                   out, worker>>

-----------------------------------------------------------------------------
(* stream_command_statistics: /proc has the process until it is reaped. *)
MoveStats(j, from, to) == /\ worker = "up" /\ stats[j] = from
                          /\ stats' = [stats EXCEPT ![j] = to]

StatsStart(j) ==
    /\ MoveStats(j, "starting", IF child[j] = "reaped" THEN "failed" ELSE "reading")
    /\ UNCHANGED <<sent, cmds, managerVars, childVars, taskVars, procVars, out, worker>>

\* Statistics are read and sent, until there are none.
StatsRead(j) ==
    /\ \/ child[j] # "reaped" /\ MoveStats(j, "reading", "reading") /\ Post(j, "Statistics")
       \/ child[j] = "reaped" /\ MoveStats(j, "reading", "ok") /\ UNCHANGED out
    /\ UNCHANGED <<sent, cmds, managerVars, childVars, taskVars, procVars, worker>>

-----------------------------------------------------------------------------
(* process_end and the task around it *)
MoveProc(j, from, to) == /\ worker = "up" /\ proc[j] = from
                         /\ proc' = [proc EXCEPT ![j] = to]

Reap(j) == child' = [child EXCEPT ![j] = "reaped"]

\* The token was cancelled: child.kill() kills and reaps the child, and nothing
\* but the child; wait() returns next.
EndKill(j) ==
    /\ j \in cancelled /\ child[j] # "reaped"
    /\ MoveProc(j, "select", "select")
    /\ Reap(j)
    /\ UNCHANGED <<sent, cmds, managerVars, held, pipe, wrote, taskVars, stats, cancelled,
                   verdict, out, worker>>

EndWait(j) ==
    /\ child[j] \in {"exited", "reaped"}
    /\ MoveProc(j, "select", "shutdown")
    /\ Reap(j)
    /\ UNCHANGED <<sent, cmds, managerVars, held, pipe, wrote, taskVars, stats, cancelled,
                   verdict, out, worker>>

\* task_set.join_next, in the loop and after it: a task that failed makes
\* process_end return, which drops the child (kill_on_drop; the runtime reaps
\* it) and the other task.
EndTask(j, s) ==
    /\ proc[j] \in {"select", "join"}
    /\ \/ MoveTask(j, s, "ok", "joined") /\ UNCHANGED <<dropped, proc, verdict, child>>
       \/ /\ MoveTask(j, s, "failed", "joined")
          /\ dropped' = dropped \cup {j}
          /\ proc' = [proc EXCEPT ![j] = "respond"]
          /\ verdict' = [verdict EXCEPT ![j] = "Error"]
          /\ Reap(j)
    /\ UNCHANGED <<sent, cmds, managerVars, held, pipe, wrote, copied, stdinCh, stats,
                   cancelled, out, worker>>

\* Variant: the stdin channel is shut down after the tasks were joined.
LateEndShutdown(j) ==
    /\ \A s \in Stdio : task[j][s] = "joined"
    /\ Len(shutdownCh) < Cap /\ shutdownCh' = Append(shutdownCh, j)
    /\ MoveProc(j, "shutdown", "join")
    /\ UNCHANGED <<sent, cmds, manager, current, senders, tokens, childVars, taskVars, stats,
                   cancelled, verdict, out, worker>>

EndShutdown(j) ==
    /\ Len(shutdownCh) < Cap /\ shutdownCh' = Append(shutdownCh, j)
    /\ MoveProc(j, "shutdown", "join")
    /\ UNCHANGED <<sent, cmds, manager, current, senders, tokens, childVars, taskVars, stats,
                   cancelled, verdict, out, worker>>

\* Variant: only the stdin task is waited for.
HastyEndJoin(j) ==
    /\ task[j]["stdin"] = "joined"
    /\ MoveProc(j, "join", "stats")
    /\ UNCHANGED <<sent, cmds, managerVars, childVars, taskVars, stats, cancelled, verdict, out,
                   worker>>

EndJoin(j) ==
    /\ \A s \in Stdio : task[j][s] = "joined"
    /\ MoveProc(j, "join", "stats")
    /\ UNCHANGED <<sent, cmds, managerVars, childVars, taskVars, stats, cancelled, verdict, out,
                   worker>>

EndStats(j) ==
    /\ stats[j] \in {"ok", "failed"}
    /\ MoveProc(j, "stats", "respond")
    /\ verdict' = [verdict EXCEPT ![j] = IF stats[j] = "ok" THEN "Response" ELSE "Error"]
    /\ UNCHANGED <<sent, cmds, managerVars, childVars, taskVars, stats, cancelled, out, worker>>

Respond(j) ==
    /\ MoveProc(j, "respond", "done") /\ Post(j, verdict[j])
    /\ UNCHANGED <<sent, cmds, managerVars, childVars, taskVars, stats, cancelled, verdict, worker>>

-----------------------------------------------------------------------------
Manage == \/ Refuse \/ PutStdin \/ StdinShutdown
          \/ \E j \in Job : \/ Start(j) \/ StartFails(j) \/ Stdin(j) \/ StdinClose(j) \/ Kill(j)
StdioTask(j) == StdinRecv(j) \/ StdinWrite(j) \/ OutputRead(j) \/ OutputSend(j)
                \/ \E s \in Stdio : TaskAborted(j, s)
Statistics(j) == StatsStart(j) \/ StatsRead(j)
ProcessEnd(j) == \/ EndKill(j) \/ EndWait(j) \/ EndShutdown(j) \/ EndJoin(j) \/ EndStats(j)
                 \/ Respond(j) \/ \E s \in Stdio : EndTask(j, s)
Program(j) == ProgramWrites(j) \/ ChildExits(j) \/ \E s \in Stdio : LetGo(j, s)

Next == \/ Manage \/ WriteMessage \/ End
        \/ \E j \in Job : \/ CoordinatorSends(j) \/ StdioTask(j) \/ Statistics(j)
                          \/ ProcessEnd(j) \/ Program(j)

Spec == Init /\ [][Next]_vars

\* The tasks and threads of the worker run and select! overlooks no ready
\* branch for ever; the coordinator reads the worker's messages.  A program
\* need not read, write, exit or let go of a pipe, and the coordinator need not send anything.
Fairness ==
    /\ WF_vars(Manage) /\ WF_vars(WriteMessage) /\ WF_vars(manager = "failed" /\ End)
    /\ \A j \in Job :
          /\ WF_vars(StdinRecv(j) \/ ("stdin" \notin held[j] /\ StdinWrite(j)))
          /\ SF_vars(OutputRead(j) \/ OutputSend(j))
          /\ SF_vars(Statistics(j)) /\ SF_vars(ProcessEnd(j))

FairSpec == Spec /\ Fairness

-----------------------------------------------------------------------------
Answered(j) == proc[j] = "done" /\ verdict[j] = "Response"

\* A job that is reported as executed has had all of its program's output sent
\* before the report.
OutputComplete == \A j \in Job : Answered(j) => copied[j] = wrote[j]

\* Nothing of such a job is left: the coordinator may still send it stdin, and
\* that cannot make manage_processes wait for it or fail.
AnsweredJobInert ==
    \A j \in Job : Answered(j) => j \notin senders \cup current /\ stdinCh[j] = 0

\* manage_processes does not wait for ever for a program to read its stdin.
StdinMoves == []<>(manager # "stdin")

\* Then a kill stops the program, also while its output is held up.
KillStops == StdinMoves => \A j \in Job : sent[j].kill ~> child[j] # "running"

\* And a program's end is reported, by a response or an error, once its
\* descendants too have let go of its stdin and stdout, unless the worker ends
\* first.
EndReported ==
    StdinMoves => \A j \in Job :
        child[j] \in {"exited", "reaped"} /\ held[j] = {} ~> proc[j] = "done" \/ worker = "ended"
=============================================================================
