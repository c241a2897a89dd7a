---------------------------- MODULE WorkerProofs ----------------------------
(***************************************************************************)
(* Proofs about Worker for any finite set of jobs and any bounds, and      *)
(* about the file requests it serves (Files) for any requests.             *)
(*                                                                         *)
(* OutputComplete and AnsweredJobInert speak of a job that was reported.   *)
(* Inv says of every job, from the start, where each packet its program    *)
(* wrote is (JobOutput), why its stdin task could end (JobStdin) and what  *)
(* process_end has joined when it comes to its verdict (JobEnd); and that  *)
(* a job is started once, so that none of it is overwritten (StartedOnce). *)
(*                                                                         *)
(* SourcesAreOwn looks at the disk when cargo runs.  SourcesInv says of    *)
(* the last request, from its start, that each of its files is still to    *)
(* be written, or as it says, or a stray's (SourcesComing), because of all *)
(* earlier requests only its strays can still act (Succession).  FilesInv  *)
(* goes on from the end of cargo: what is there to be read back, and what  *)
(* has been read so far, is the request's own (OutcomeOwn); the modules    *)
(* that cargo-wasm may find in target/ are accounted for by ModulesLeft.   *)
(***************************************************************************)
EXTENDS Worker, Files, FiniteSetTheorems, TLAPS

\* A job that process_begin has not set up has nothing.
JobFresh(j) ==
    proc[j] = "none" =>
        /\ child[j] = "none" /\ held[j] = {} /\ pipe[j] = 0 /\ wrote[j] = 0 /\ copied[j] = 0
        /\ stdinCh[j] = 0 /\ j \notin senders /\ \A s \in Stdio : task[j][s] = "none"

\* A packet was sent to the coordinator, is in the pipe or in the hand of the
\* task, until that task fails or is aborted.
JobOutput(j) ==
    /\ task[j]["stdout"] = "idle" => wrote[j] = copied[j] + pipe[j]
    /\ task[j]["stdout"] = "busy" => wrote[j] = copied[j] + pipe[j] + 1
    /\ task[j]["stdout"] = "ok" \/ (task[j]["stdout"] = "joined" /\ j \notin dropped)
          => wrote[j] = copied[j] /\ pipe[j] = 0 /\ "stdout" \notin held[j]

\* The stdin task ends well only if nothing can come or has come after it.
JobStdin(j) ==
    task[j]["stdin"] = "ok" \/ (task[j]["stdin"] = "joined" /\ j \notin dropped)
        => j \notin senders /\ stdinCh[j] = 0

\* What process_end knows when it is past its loop.
JobEnd(j) ==
    /\ j \in dropped => proc[j] \in {"respond", "done"} /\ verdict[j] = "Error"
    /\ verdict[j] = "Response" => proc[j] \in {"respond", "done"}
    /\ proc[j] = "stats" \/ verdict[j] = "Response" => \A s \in Stdio : task[j][s] = "joined"
    /\ proc[j] = "respond" => verdict[j] # "none"

JobInv(j) == JobFresh(j) /\ JobOutput(j) /\ JobStdin(j) /\ JobEnd(j)

\* What manage_processes waits for concerns a job it knows of.
ManagerWaits ==
    /\ manager = "select" => current = {}
    /\ manager = "refuse" => \A j \in current : proc[j] = "none"
    /\ manager \in {"stdin", "failed"} => current \subseteq senders

StartCommand(j) == [type |-> "Start", job |-> j]

\* The coordinator asks for a job to be started once.
StartedOnce ==
    /\ \A i \in 1 .. Len(cmds), j \in Job : cmds[i] = StartCommand(j) =>
          /\ sent[j].start /\ proc[j] = "none"
          /\ \A k \in 1 .. Len(cmds) : cmds[k] = StartCommand(j) => k = i
    /\ \A j \in Job : ~sent[j].start => proc[j] = "none"

Inv == TypeOK /\ StartedOnce /\ ManagerWaits /\ \A j \in Job : JobInv(j)

-----------------------------------------------------------------------------
\* What is in a channel after a send ...
LEMMA Appended ==
    ASSUME NEW S, NEW q \in Seq(S), NEW m \in S, NEW r, r = Append(q, m)
    PROVE  /\ r \in Seq(S) /\ Len(r) = Len(q) + 1 /\ Len(q) \in Nat
           /\ \A i \in 1 .. Len(r) :
                 \/ i \in 1 .. Len(q) /\ r[i] = q[i]
                 \/ i = Len(q) + 1 /\ r[i] = m
  OBVIOUS

\* ... and after a receive.
LEMMA Received ==
    ASSUME NEW S, NEW q \in Seq(S), q # <<>>, NEW r, r = Tail(q)
    PROVE  /\ r \in Seq(S) /\ Len(r) = Len(q) - 1 /\ Len(q) \in Nat
           /\ Head(q) = q[1] /\ 1 \in 1 .. Len(q) /\ q[1] \in S
           /\ \A i \in 1 .. Len(r) : i + 1 \in 1 .. Len(q) /\ r[i] = q[i + 1]
  OBVIOUS

\* The stdio tasks are counted one by one.
LEMMA AtMostOne ==
    Cardinality({}) <= 1 /\ \A j \in Job : Cardinality({j}) <= 1
  <1>1. Cardinality({}) = 0 /\ \A j \in Job : Cardinality({j}) = 1
    BY FS_EmptySet, FS_Singleton
  <1> QED
    BY <1>1

\* Every step keeps the types; that a task never sends more packets than the
\* program wrote is JobOutput.
LEMMA TypeStep ==
    ASSUME Inv, Next
    PROVE  TypeOK'
  <1> USE WorkerAssumption
      DEF Inv, TypeOK, managerVars, childVars, taskVars, procVars
  <1>1. ASSUME NEW j \in Job, CoordinatorSends(j) PROVE TypeOK'
    <2>1. sent' \in [Job -> [start : BOOLEAN, stdin : 0 .. MaxIn, close : BOOLEAN, kill : BOOLEAN]]
      <3>1. CASE sent' = [sent EXCEPT ![j].start = TRUE]
        BY <3>1
      <3>2. CASE sent[j].stdin < MaxIn /\ sent' = [sent EXCEPT ![j].stdin = @ + 1]
        <4>1. sent[j].stdin + 1 \in 0 .. MaxIn
          BY <3>2
        <4>2. sent' = [sent EXCEPT ![j].stdin = sent[j].stdin + 1]
          BY <3>2
        <4> QED
          BY <4>1, <4>2
      <3>3. CASE sent' = [sent EXCEPT ![j].close = TRUE]
        BY <3>3
      <3>4. CASE sent' = [sent EXCEPT ![j].kill = TRUE]
        BY <3>4
      <3> QED
        BY <1>1, <3>1, <3>2, <3>3, <3>4 DEF CoordinatorSends
    <2>2. PICK t \in {"Start", "Stdin", "StdinClose", "Kill"} : Queue(t, j)
      BY <1>1 DEF CoordinatorSends
    <2>3. [type |-> t, job |-> j] \in Command
      BY DEF Command
    <2>4. cmds' \in Seq(Command) /\ Len(cmds') <= Cap
      BY <1>1, <2>2, <2>3 DEF CoordinatorSends, Queue
    <2> QED
      BY <1>1, <2>1, <2>4 DEF CoordinatorSends
  <1>2. CASE WriteMessage
    BY <1>2, Received DEF WriteMessage
  <1>3. ASSUME NEW t, NEW j \in Job, Take(t, j) PROVE cmds' \in Seq(Command) /\ Len(cmds') <= Cap
    BY <1>3, Received DEF Take
  <1>4. ASSUME NEW j \in Job, Start(j) PROVE TypeOK'
    BY <1>3, <1>4 DEF Start, Stage
  <1>5. ASSUME NEW j \in Job, StartFails(j) PROVE TypeOK'
    <2>1. current' \in SUBSET Job /\ Cardinality(current') <= 1
      BY <1>5, AtMostOne DEF StartFails
    <2> QED
      BY <1>3, <1>5, <2>1 DEF StartFails
  <1>6. CASE Refuse
    <2>1. out' \in Seq(Message) /\ Len(out') <= Cap
      BY <1>6, Appended DEF Refuse, Post, Message
    <2>2. current' \in SUBSET Job /\ Cardinality(current') <= 1
      BY <1>6, FS_EmptySet DEF Refuse
    <2> QED
      BY <1>6, <2>1, <2>2 DEF Refuse
  <1>7. ASSUME NEW j \in Job, Stdin(j) PROVE TypeOK'
    <2>1. current' \in SUBSET Job /\ Cardinality(current') <= 1
      BY <1>7, AtMostOne DEF Stdin
    <2> QED
      BY <1>3, <1>7, <2>1 DEF Stdin
  <1>8. CASE PutStdin
    <2>1. current' \in SUBSET Job /\ Cardinality(current') <= 1
      BY <1>8, AtMostOne DEF PutStdin
    <2>2. stdinCh' \in [Job -> 0 .. Cap]
      <3>1. CASE UNCHANGED stdinCh
        BY <3>1
      <3>2. ASSUME NEW j \in Job, stdinCh[j] < Cap, stdinCh' = [stdinCh EXCEPT ![j] = @ + 1]
            PROVE  stdinCh' \in [Job -> 0 .. Cap]
        BY <3>2
      <3> QED
        BY <1>8, <3>1, <3>2 DEF PutStdin
    <2> QED
      BY <1>8, <2>1, <2>2 DEF PutStdin
  <1>9. ASSUME NEW j \in Job, StdinClose(j) \/ Kill(j) PROVE TypeOK'
    BY <1>3, <1>9 DEF StdinClose, Kill
  <1>10. CASE StdinShutdown
    <2>1. shutdownCh' \in Seq(Job) /\ Len(shutdownCh') <= Cap
      BY <1>10, Received DEF StdinShutdown
    <2> QED
      BY <1>10, <2>1 DEF StdinShutdown
  <1>11. CASE End
    BY <1>11 DEF End
  <1>12. ASSUME NEW j \in Job, Program(j) PROVE TypeOK'
    <2>1. CASE ProgramWrites(j)
      <3>1. pipe' \in [Job -> 0 .. 1] /\ wrote' \in [Job -> 0 .. MaxOut]
        BY <2>1 DEF ProgramWrites
      <3> QED
        BY <2>1, <3>1 DEF ProgramWrites
    <2>2. CASE ChildExits(j)
      BY <2>2 DEF ChildExits
    <2>3. ASSUME NEW s \in Stdio, LetGo(j, s) PROVE TypeOK'
      BY <2>3 DEF LetGo
    <2> QED
      BY <1>12, <2>1, <2>2, <2>3 DEF Program
  <1>13. ASSUME NEW j \in Job, NEW s \in Stdio, NEW from, NEW to \in Stage, MoveTask(j, s, from, to)
         PROVE  task' \in [Job -> [Stdio -> Stage]]
    BY <1>13 DEF MoveTask
  <1>14. {"idle", "busy", "ok", "failed", "joined", "aborted"} \subseteq Stage /\ "stdin" \in Stdio
         /\ "stdout" \in Stdio
    BY DEF Stage, Over, Stdio
  <1>15. ASSUME NEW j \in Job, StdinRecv(j) PROVE TypeOK'
    <2>1. stdinCh' \in [Job -> 0 .. Cap]
      <3>1. stdinCh[j] > 0 => stdinCh[j] - 1 \in 0 .. Cap
        OBVIOUS
      <3> QED
        BY <1>15, <3>1 DEF StdinRecv
    <2>2. task' \in [Job -> [Stdio -> Stage]]
      BY <1>13, <1>14, <1>15 DEF StdinRecv
    <2> QED
      BY <1>15, <2>1, <2>2 DEF StdinRecv
  <1>16. ASSUME NEW j \in Job, StdinWrite(j) PROVE TypeOK'
    BY <1>13, <1>14, <1>16 DEF StdinWrite
  <1>17. ASSUME NEW j \in Job, OutputRead(j) PROVE TypeOK'
    <2>1. task' \in [Job -> [Stdio -> Stage]]
      BY <1>13, <1>14, <1>17 DEF OutputRead
    <2>2. pipe' \in [Job -> 0 .. 1]
      BY <1>17 DEF OutputRead
    <2> QED
      BY <1>17, <2>1, <2>2 DEF OutputRead
  <1>18. ASSUME NEW j \in Job, OutputSend(j) PROVE TypeOK'
    <2>1. task' \in [Job -> [Stdio -> Stage]] /\ task[j]["stdout"] = "busy"
      BY <1>13, <1>14, <1>18 DEF OutputSend, MoveTask
    <2>2. copied' \in [Job -> 0 .. MaxOut]
      <3>1. copied[j] + 1 \in 0 .. MaxOut
        <4>1. wrote[j] = copied[j] + pipe[j] + 1
          BY <2>1 DEF JobInv, JobOutput
        <4>2. copied[j] \in 0 .. MaxOut /\ pipe[j] \in 0 .. 1 /\ wrote[j] \in 0 .. MaxOut
          OBVIOUS
        <4> QED
          BY <4>1, <4>2
      <3> QED
        BY <1>18, <3>1 DEF OutputSend
    <2>3. out' \in Seq(Message) /\ Len(out') <= Cap
      BY <1>18, Appended DEF OutputSend, Post, Message
    <2> QED
      BY <1>18, <2>1, <2>2, <2>3 DEF OutputSend
  <1>19. ASSUME NEW j \in Job, NEW s \in Stdio, TaskAborted(j, s) PROVE TypeOK'
    BY <1>13, <1>14, <1>19 DEF TaskAborted
  <1>20. ASSUME NEW j \in Job, StatsStart(j) PROVE TypeOK'
    BY <1>20 DEF StatsStart, MoveStats
  <1>21. ASSUME NEW j \in Job, StatsRead(j) PROVE TypeOK'
    <2>1. out' \in Seq(Message) /\ Len(out') <= Cap
      <3>1. <<j, "Statistics">> \in Message
        BY DEF Message
      <3>2. CASE Post(j, "Statistics")
        BY <3>1, <3>2 DEF Post
      <3> QED
        BY <1>21, <3>2 DEF StatsRead
    <2> QED
      BY <1>21, <2>1 DEF StatsRead, MoveStats
  <1>22. ASSUME NEW j \in Job, EndKill(j) \/ EndWait(j) PROVE TypeOK'
    BY <1>22 DEF EndKill, EndWait, MoveProc, Reap
  <1>23. ASSUME NEW j \in Job, EndShutdown(j) PROVE TypeOK'
    BY <1>23, Appended DEF EndShutdown, MoveProc
  <1>24. ASSUME NEW j \in Job, EndJoin(j) \/ EndStats(j) PROVE TypeOK'
    BY <1>24 DEF EndJoin, EndStats, MoveProc
  <1>25. ASSUME NEW j \in Job, Respond(j) PROVE TypeOK'
    <2>1. verdict[j] \in {"Response", "Error"}
      BY <1>25 DEF Respond, MoveProc, JobInv, JobEnd
    <2> QED
      <3>1. out' \in Seq(Message) /\ Len(out') <= Cap
        BY <1>25, <2>1 DEF Respond, Post, Message
      <3> QED
        BY <1>25, <3>1 DEF Respond, MoveProc
  <1>26. ASSUME NEW j \in Job, NEW s \in Stdio, EndTask(j, s) PROVE TypeOK'
    BY <1>13, <1>14, <1>26 DEF EndTask, Reap
  <1> HIDE DEF TypeOK, Inv
  <1> QED
    BY <1>1, <1>2, <1>4, <1>5, <1>6, <1>7, <1>8, <1>9, <1>10, <1>11, <1>12, <1>15, <1>16, <1>17,
       <1>18, <1>19, <1>20, <1>21, <1>22, <1>23, <1>24, <1>25, <1>26
       DEF Next, Manage, StdioTask, Statistics, ProcessEnd

-----------------------------------------------------------------------------
\* What a step does to a job it is not about: the program may die with the
\* worker, and the stdin channel and the pipes may be closed.
Same(j) ==
    /\ child'[j] = child[j] \/ (child[j] = "running" /\ child'[j] = "exited")
    /\ held'[j] \subseteq held[j] /\ pipe'[j] = pipe[j] /\ wrote'[j] = wrote[j]
    /\ copied'[j] = copied[j] /\ stdinCh'[j] = stdinCh[j] /\ task'[j] = task[j]
    /\ proc'[j] = proc[j] /\ verdict'[j] = verdict[j]
    /\ (j \in senders' => j \in senders) /\ (j \in dropped' <=> j \in dropped)

\* A step that leaves a job alone keeps what is known of it.
LEMMA SameKeeps ==
    ASSUME NEW j \in Job, JobInv(j), Same(j)
    PROVE  JobInv(j)'
  <1>1. JobFresh(j)'
    BY DEF JobInv, JobFresh, Same
  <1>2. JobOutput(j)'
    BY DEF JobInv, JobOutput, Same
  <1>3. JobStdin(j)'
    BY DEF JobInv, JobStdin, Same
  <1>4. JobEnd(j)'
    BY DEF JobInv, JobEnd, Same
  <1> QED
    BY <1>1, <1>2, <1>3, <1>4 DEF JobInv

\* A step of one job is none of another, and what the coordinator, the
\* statistics thread and most of manage_processes do is none of any.
LEMMA OthersSame ==
    ASSUME TypeOK, NEW j \in Job
    PROVE  /\ WriteMessage \/ StdinShutdown \/ End => Same(j)
           /\ \A k \in Job :
                 /\ CoordinatorSends(k) \/ StartFails(k) \/ Stdin(k) \/ StdinClose(k) \/ Kill(k)
                       => Same(j)
                 /\ Statistics(k) => Same(j)
                 /\ k # j /\ (Start(k) \/ StdioTask(k) \/ ProcessEnd(k) \/ Program(k)) => Same(j)
  <1> USE DEF TypeOK, managerVars, childVars, taskVars, procVars, Same
  <1>1. WriteMessage \/ StdinShutdown => Same(j)
    BY DEF WriteMessage, StdinShutdown
  <1>2. End => Same(j)
    BY DEF End
  <1>3. ASSUME NEW k \in Job
        PROVE  CoordinatorSends(k) \/ StartFails(k) \/ Stdin(k) \/ StdinClose(k) \/ Kill(k) => Same(j)
    BY DEF CoordinatorSends, StartFails, Stdin, StdinClose, Kill
  <1>4. ASSUME NEW k \in Job PROVE Statistics(k) => Same(j)
    BY DEF Statistics, StatsStart, StatsRead
  <1>5. ASSUME NEW k \in Job, k # j, Start(k) PROVE Same(j)
    BY <1>5 DEF Start
  <1>6. ASSUME NEW k \in Job, k # j, Program(k) PROVE Same(j)
    BY <1>6 DEF Program, LetGo, ProgramWrites, ChildExits
  <1>7. ASSUME NEW k \in Job, k # j, StdioTask(k) PROVE Same(j)
    <2>1. CASE StdinRecv(k)
      BY <1>7, <2>1 DEF StdinRecv, MoveTask
    <2>2. CASE StdinWrite(k) \/ OutputRead(k)
      BY <1>7, <2>2 DEF StdinWrite, OutputRead, MoveTask
    <2>3. CASE OutputSend(k)
      BY <1>7, <2>3 DEF OutputSend, MoveTask
    <2>4. ASSUME NEW s \in Stdio, TaskAborted(k, s) PROVE Same(j)
      BY <1>7, <2>4 DEF TaskAborted, MoveTask
    <2> QED
      BY <1>7, <2>1, <2>2, <2>3, <2>4 DEF StdioTask
  <1>8. ASSUME NEW k \in Job, k # j, ProcessEnd(k) PROVE Same(j)
    <2>1. CASE EndKill(k) \/ EndWait(k)
      BY <1>8, <2>1 DEF EndKill, EndWait, MoveProc, Reap
    <2>2. CASE EndShutdown(k) \/ EndJoin(k) \/ EndStats(k) \/ Respond(k)
      BY <1>8, <2>2 DEF EndShutdown, EndJoin, EndStats, Respond, MoveProc
    <2>3. ASSUME NEW s \in Stdio, EndTask(k, s) PROVE Same(j)
      BY <1>8, <2>3 DEF EndTask, MoveTask, Reap
    <2> QED
      BY <1>8, <2>1, <2>2, <2>3 DEF ProcessEnd
  <1> HIDE DEF Same
  <1> QED
    BY <1>1, <1>2, <1>3, <1>4, <1>5, <1>6, <1>7, <1>8

\* The steps of the job's own program and of the tasks that serve it.
LEMMA StdioStep ==
    ASSUME TypeOK, NEW j \in Job, JobInv(j), StdioTask(j) \/ Program(j)
    PROVE  JobInv(j)'
  <1> USE DEF TypeOK, managerVars, childVars, taskVars, procVars
  <1>1. ASSUME NEW s \in Stdio, NEW from, NEW to, MoveTask(j, s, from, to)
        PROVE  /\ task[j][s] = from /\ task'[j][s] = to
               /\ \A r \in Stdio : r # s => task'[j][r] = task[j][r]
    BY <1>1 DEF MoveTask
  <1>2. "stdin" \in Stdio /\ "stdout" \in Stdio /\ Stdio = {"stdin", "stdout"}
    BY DEF Stdio
  <1>3. wrote[j] \in Nat /\ copied[j] \in Nat /\ pipe[j] \in 0 .. 1 /\ stdinCh[j] \in Nat
    BY WorkerAssumption
  <1>4. CASE StdinRecv(j)
    <2>1. /\ UNCHANGED <<senders, child, held, pipe, wrote, copied, dropped, proc, verdict>>
          /\ task'[j]["stdout"] = task[j]["stdout"] /\ task[j]["stdin"] = "idle"
      BY <1>1, <1>2, <1>4 DEF StdinRecv
    <2>2. \/ task'[j]["stdin"] = "busy"
          \/ task'[j]["stdin"] = "ok" /\ stdinCh'[j] = 0 /\ j \notin senders
      BY <1>1, <1>2, <1>4 DEF StdinRecv
    <2>3. JobFresh(j)' /\ JobEnd(j)'
      BY <1>2, <2>1 DEF JobInv, JobFresh, JobEnd
    <2>4. JobOutput(j)'
      BY <2>1 DEF JobInv, JobOutput
    <2>5. JobStdin(j)'
      BY <2>1, <2>2 DEF JobStdin
    <2> QED
      BY <2>3, <2>4, <2>5 DEF JobInv
  <1>5. CASE StdinWrite(j)
    <2>1. /\ UNCHANGED <<senders, child, held, pipe, wrote, copied, stdinCh, dropped, proc, verdict>>
          /\ task'[j]["stdout"] = task[j]["stdout"] /\ task[j]["stdin"] = "busy"
          /\ task'[j]["stdin"] \in {"idle", "failed"}
      BY <1>1, <1>2, <1>5 DEF StdinWrite
    <2> QED
      BY <1>2, <2>1 DEF JobInv, JobFresh, JobEnd, JobOutput, JobStdin
  <1>6. CASE OutputRead(j)
    <2>1. /\ UNCHANGED <<senders, child, held, wrote, copied, stdinCh, dropped, proc, verdict>>
          /\ task'[j]["stdin"] = task[j]["stdin"] /\ task[j]["stdout"] = "idle" /\ pipe'[j] = 0
      BY <1>1, <1>2, <1>6 DEF OutputRead
    <2>2. \/ pipe[j] = 1 /\ task'[j]["stdout"] \in {"busy", "failed"}
          \/ pipe[j] = 0 /\ "stdout" \notin held[j] /\ task'[j]["stdout"] = "ok"
      BY <1>1, <1>2, <1>3, <1>6 DEF OutputRead
    <2>3. JobFresh(j)' /\ JobEnd(j)' /\ JobStdin(j)'
      BY <1>2, <2>1 DEF JobInv, JobFresh, JobEnd, JobStdin
    <2>4. JobOutput(j)'
      BY <1>3, <2>1, <2>2 DEF JobInv, JobOutput
    <2> QED
      BY <2>3, <2>4 DEF JobInv
  <1>7. CASE OutputSend(j)
    <2>1. /\ UNCHANGED <<senders, child, held, wrote, pipe, stdinCh, dropped, proc, verdict>>
          /\ task'[j]["stdin"] = task[j]["stdin"] /\ task[j]["stdout"] = "busy"
          /\ task'[j]["stdout"] \in {"idle", "failed"} /\ copied'[j] = copied[j] + 1
      BY <1>1, <1>2, <1>7 DEF OutputSend
    <2>2. JobFresh(j)' /\ JobEnd(j)' /\ JobStdin(j)'
      BY <1>2, <2>1 DEF JobInv, JobFresh, JobEnd, JobStdin
    <2>3. JobOutput(j)'
      BY <1>3, <2>1 DEF JobInv, JobOutput
    <2> QED
      BY <2>2, <2>3 DEF JobInv
  <1>8. ASSUME NEW s \in Stdio, TaskAborted(j, s) PROVE JobInv(j)'
    <2>1. /\ UNCHANGED <<senders, child, held, wrote, pipe, copied, stdinCh, dropped, proc, verdict>>
          /\ task[j][s] \in {"idle", "busy"} /\ task'[j][s] = "aborted"
          /\ \A r \in Stdio : r # s => task'[j][r] = task[j][r]
      BY <1>1, <1>8 DEF TaskAborted
    <2> QED
      BY <1>2, <2>1 DEF JobInv, JobFresh, JobEnd, JobOutput, JobStdin
  <1>9. CASE ProgramWrites(j)
    <2>1. /\ UNCHANGED <<senders, child, held, copied, stdinCh, task, dropped, proc, verdict>>
          /\ "stdout" \in held[j] /\ pipe[j] = 0 /\ pipe'[j] = 1 /\ wrote'[j] = wrote[j] + 1
      BY <1>9 DEF ProgramWrites
    <2>2. JobFresh(j)' /\ JobEnd(j)' /\ JobStdin(j)'
      BY <1>2, <2>1 DEF JobInv, JobFresh, JobEnd, JobStdin
    <2>3. JobOutput(j)'
      BY <1>3, <2>1 DEF JobInv, JobOutput
    <2> QED
      BY <2>2, <2>3 DEF JobInv
  <1>10. CASE ChildExits(j)
    <2>1. Same(j)
      BY <1>10 DEF ChildExits, Same
    <2> QED
      BY <2>1, SameKeeps
  <1>11. ASSUME NEW s \in Stdio, LetGo(j, s) PROVE JobInv(j)'
    <2>1. Same(j)
      BY <1>11 DEF LetGo, Same
    <2> QED
      BY <2>1, SameKeeps
  <1> QED
    BY <1>4, <1>5, <1>6, <1>7, <1>8, <1>9, <1>10, <1>11 DEF StdioTask, Program

\* The steps of process_end.
LEMMA EndStep ==
    ASSUME TypeOK, NEW j \in Job, JobInv(j), ProcessEnd(j)
    PROVE  JobInv(j)'
  <1> USE DEF TypeOK, managerVars, childVars, taskVars, procVars
  <1>1. Stdio = {"stdin", "stdout"}
    BY DEF Stdio
  <1>2. CASE EndKill(j) \/ EndWait(j)
    <2>1. /\ UNCHANGED <<senders, held, wrote, pipe, copied, stdinCh, task, dropped, verdict>>
          /\ proc[j] = "select" /\ proc'[j] \in {"select", "shutdown"} /\ child'[j] = "reaped"
      BY <1>2 DEF EndKill, EndWait, MoveProc, Reap
    <2> QED
      BY <1>1, <2>1 DEF JobInv, JobFresh, JobEnd, JobOutput, JobStdin
  <1>3. CASE EndShutdown(j) \/ EndJoin(j)
    <2>1. /\ UNCHANGED <<senders, child, held, wrote, pipe, copied, stdinCh, task, dropped, verdict>>
          /\ proc[j] \in {"shutdown", "join"} /\ proc'[j] \in {"join", "stats"}
          /\ proc'[j] = "stats" => \A s \in Stdio : task[j][s] = "joined"
      BY <1>3 DEF EndShutdown, EndJoin, MoveProc
    <2> QED
      BY <1>1, <2>1 DEF JobInv, JobFresh, JobEnd, JobOutput, JobStdin
  <1>4. CASE EndStats(j)
    <2>1. /\ UNCHANGED <<senders, child, held, wrote, pipe, copied, stdinCh, task, dropped>>
          /\ proc[j] = "stats" /\ proc'[j] = "respond" /\ verdict'[j] \in {"Response", "Error"}
      BY <1>4 DEF EndStats, MoveProc
    <2> QED
      BY <1>1, <2>1 DEF JobInv, JobFresh, JobEnd, JobOutput, JobStdin
  <1>5. CASE Respond(j)
    <2>1. /\ UNCHANGED <<senders, child, held, wrote, pipe, copied, stdinCh, task, dropped, verdict>>
          /\ proc[j] = "respond" /\ proc'[j] = "done"
      BY <1>5 DEF Respond, MoveProc
    <2> QED
      BY <1>1, <2>1 DEF JobInv, JobFresh, JobEnd, JobOutput, JobStdin
  <1>6. ASSUME NEW s \in Stdio, EndTask(j, s) PROVE JobInv(j)'
    <2>1. /\ UNCHANGED <<senders, held, wrote, pipe, copied, stdinCh>>
          /\ proc[j] \in {"select", "join"} /\ task'[j][s] = "joined"
          /\ \A r \in Stdio : r # s => task'[j][r] = task[j][r]
      BY <1>6 DEF EndTask, MoveTask
    <2>2. CASE task[j][s] = "ok" /\ UNCHANGED <<dropped, proc, verdict, child>>
      BY <1>1, <2>1, <2>2 DEF JobInv, JobFresh, JobEnd, JobOutput, JobStdin
    <2>3. CASE /\ task[j][s] = "failed" /\ dropped' = dropped \cup {j}
               /\ proc'[j] = "respond" /\ verdict'[j] = "Error" /\ child'[j] = "reaped"
      <3>1. JobFresh(j)' /\ JobEnd(j)' /\ JobStdin(j)'
        BY <1>1, <2>1, <2>3 DEF JobInv, JobFresh, JobEnd, JobStdin
      <3>2. JobOutput(j)'
        BY <1>1, <2>1, <2>3 DEF JobInv, JobOutput
      <3> QED
        BY <3>1, <3>2 DEF JobInv
    <2>4. \/ task[j][s] = "ok" /\ UNCHANGED <<dropped, proc, verdict, child>>
          \/ /\ task[j][s] = "failed" /\ dropped' = dropped \cup {j}
             /\ proc'[j] = "respond" /\ verdict'[j] = "Error" /\ child'[j] = "reaped"
      BY <1>6 DEF EndTask, MoveTask, Reap
    <2> QED
      BY <2>2, <2>3, <2>4
  <1> QED
    BY <1>2, <1>3, <1>4, <1>5, <1>6 DEF ProcessEnd

\* Every step keeps what is known of each job.
LEMMA JobStep ==
    ASSUME Inv, Next, NEW j \in Job
    PROVE  JobInv(j)'
  <1>1. TypeOK /\ JobInv(j)
    BY DEF Inv
  <1>2. CASE Same(j)
    BY <1>1, <1>2, SameKeeps
  <1>3. CASE Start(j)
    <2>1. proc[j] = "none"
      <3>1. cmds # <<>> /\ cmds \in Seq(Command) /\ Head(cmds) = StartCommand(j)
        BY <1>1, <1>3 DEF Start, Take, StartCommand, TypeOK
      <3>2. 1 \in 1 .. Len(cmds) /\ cmds[1] = StartCommand(j)
        BY <3>1
      <3> QED
        BY <3>2 DEF Inv, StartedOnce
    <2>2. /\ UNCHANGED <<pipe, wrote, copied, stdinCh, dropped, verdict>>
          /\ child'[j] = "running" /\ proc'[j] = "select"
          /\ task'[j]["stdin"] = "idle" /\ task'[j]["stdout"] = "idle"
      BY <1>1, <1>3 DEF Start, TypeOK, Stdio
    <2>3. wrote[j] = 0 /\ copied[j] = 0 /\ pipe[j] = 0 /\ j \notin dropped /\ verdict[j] # "Response"
      BY <1>1, <2>1 DEF JobInv, JobFresh, JobEnd
    <2> QED
      BY <2>2, <2>3 DEF JobInv, JobFresh, JobEnd, JobOutput, JobStdin
  <1>4. CASE Refuse
    <2>1. PICK k \in current : /\ verdict' = [verdict EXCEPT ![k] = "Error"]
                               /\ proc[k] = "none"
      BY <1>4 DEF Refuse, Inv, ManagerWaits
    <2>2. CASE k # j
      <3>1. Same(j)
        BY <1>1, <1>4, <2>1, <2>2 DEF Refuse, Same, TypeOK, childVars, taskVars
      <3> QED
        BY <1>1, <3>1, SameKeeps
    <2>3. CASE k = j
      <3>1. /\ UNCHANGED <<senders, child, held, pipe, wrote, copied, stdinCh, task, dropped, proc>>
            /\ verdict'[j] = "Error" /\ proc[j] = "none"
        BY <1>1, <1>4, <2>1, <2>3 DEF Refuse, TypeOK, childVars, taskVars
      <3> QED
        BY <1>1, <3>1 DEF JobInv, JobFresh, JobEnd, JobOutput, JobStdin
    <2> QED
      BY <2>2, <2>3
  <1>5. CASE PutStdin
    <2>1. /\ UNCHANGED <<senders, child, held, pipe, wrote, copied, task, dropped, proc, verdict>>
          /\ stdinCh'[j] # stdinCh[j] => j \in senders /\ task[j]["stdin"] \notin Over
      BY <1>1, <1>5 DEF PutStdin, TypeOK, Inv, ManagerWaits, childVars, procVars
    <2>2. CASE stdinCh'[j] = stdinCh[j]
      <3>1. Same(j)
        BY <2>1, <2>2 DEF Same
      <3> QED
        BY <1>1, <3>1, SameKeeps
    <2>3. CASE j \in senders /\ task[j]["stdin"] \notin Over
      BY <1>1, <2>1, <2>3 DEF JobInv, JobFresh, JobEnd, JobOutput, JobStdin, Over
    <2> QED
      BY <2>1, <2>2, <2>3
  <1>6. CASE StdioTask(j) \/ Program(j)
    BY <1>1, <1>6, StdioStep
  <1>7. CASE ProcessEnd(j)
    BY <1>1, <1>7, EndStep
  <1> QED
    BY <1>1, <1>2, <1>3, <1>4, <1>5, <1>6, <1>7, OthersSame DEF Next, Manage

-----------------------------------------------------------------------------
\* process_end moves only jobs that were started.
LEMMA ProcSteps ==
    ASSUME TypeOK, NEW k \in Job, ProcessEnd(k), NEW j \in Job
    PROVE  /\ proc[j] = "none" => proc'[j] = "none"
           /\ UNCHANGED <<sent, cmds, manager, current, senders>>
  <1> USE DEF TypeOK, managerVars, childVars, taskVars, procVars
  <1>1. CASE EndKill(k) \/ EndWait(k) \/ EndShutdown(k) \/ EndJoin(k) \/ EndStats(k) \/ Respond(k)
    BY <1>1 DEF EndKill, EndWait, EndShutdown, EndJoin, EndStats, Respond, MoveProc
  <1>2. ASSUME NEW s \in Stdio, EndTask(k, s)
        PROVE  /\ proc[j] = "none" => proc'[j] = "none"
               /\ UNCHANGED <<sent, cmds, manager, current, senders>>
    BY <1>2 DEF EndTask
  <1> QED
    BY <1>1, <1>2 DEF ProcessEnd

\* What manage_processes starts was not started before, nor will it be again.
LEMMA TakenStart ==
    ASSUME TypeOK, StartedOnce, NEW j \in Job, Take("Start", j)
    PROVE  /\ proc[j] = "none" /\ sent[j].start
           /\ \A i \in 1 .. Len(cmds') : cmds'[i] # StartCommand(j)
  <1>1. cmds # <<>> /\ cmds \in Seq(Command) /\ Head(cmds) = StartCommand(j) /\ cmds' = Tail(cmds)
    BY DEF Take, StartCommand, TypeOK
  <1>2. 1 \in 1 .. Len(cmds) /\ cmds[1] = StartCommand(j)
    BY <1>1, Received
  <1>3. \A i \in 1 .. Len(cmds') : i + 1 \in 1 .. Len(cmds) /\ cmds'[i] = cmds[i + 1] /\ i + 1 # 1
    BY <1>1, Received
  <1> QED
    BY <1>2, <1>3 DEF StartedOnce

\* What manage_processes waits for stays as it is while it waits.
LEMMA ManagerStep ==
    ASSUME TypeOK, StartedOnce, ManagerWaits, Next
    PROVE  ManagerWaits'
  <1> USE DEF TypeOK, ManagerWaits, managerVars, childVars, taskVars, procVars
  <1>1. ASSUME NEW k \in Job,
               CoordinatorSends(k) \/ StdioTask(k) \/ Statistics(k) \/ Program(k)
        PROVE  ManagerWaits'
    <2>1. UNCHANGED <<manager, current, senders, proc>>
      BY <1>1 DEF CoordinatorSends, StdioTask, StdinRecv, StdinWrite, OutputRead, OutputSend,
                  TaskAborted, Statistics, StatsStart, StatsRead, Program, LetGo, ProgramWrites, ChildExits
    <2> QED
      BY <2>1
  <1>2. ASSUME NEW k \in Job, ProcessEnd(k) PROVE ManagerWaits'
    BY <1>2, ProcSteps
  <1>3. CASE WriteMessage \/ End
    BY <1>3 DEF WriteMessage, End
  <1>4. CASE Refuse \/ PutStdin \/ StdinShutdown
    BY <1>4 DEF Refuse, PutStdin, StdinShutdown
  <1>5. ASSUME NEW k \in Job, Start(k) \/ StdinClose(k) \/ Kill(k) PROVE ManagerWaits'
    BY <1>5 DEF Start, StdinClose, Kill, Take
  <1>6. ASSUME NEW k \in Job, Stdin(k) PROVE ManagerWaits'
    BY <1>6 DEF Stdin, Take
  <1>7. ASSUME NEW k \in Job, StartFails(k) PROVE ManagerWaits'
    <2>1. proc[k] = "none"
      BY <1>7, TakenStart DEF StartFails
    <2> QED
      BY <1>7, <2>1 DEF StartFails
  <1> HIDE DEF ManagerWaits
  <1> QED
    BY <1>1, <1>2, <1>3, <1>4, <1>5, <1>6, <1>7 DEF Next, Manage

\* Nobody starts a job twice.
LEMMA StartedStep ==
    ASSUME TypeOK, StartedOnce, Next
    PROVE  StartedOnce'
  <1> USE DEF TypeOK, managerVars, childVars, taskVars, procVars
  \* Steps that leave the commands alone and start nothing.
  <1>1. ASSUME UNCHANGED <<sent, cmds>>, \A j \in Job : proc[j] = "none" => proc'[j] = "none"
        PROVE  StartedOnce'
    BY <1>1 DEF StartedOnce, StartCommand
  <1>2. ASSUME NEW k \in Job, StdioTask(k) \/ Statistics(k) \/ Program(k) PROVE StartedOnce'
    <2>1. UNCHANGED <<sent, cmds, proc>>
      BY <1>2 DEF StdioTask, StdinRecv, StdinWrite, OutputRead, OutputSend,
                  TaskAborted, Statistics, StatsStart, StatsRead, Program, LetGo, ProgramWrites, ChildExits
    <2> QED
      BY <1>1, <2>1
  <1>3. ASSUME NEW k \in Job, ProcessEnd(k) PROVE StartedOnce'
    BY <1>1, <1>3, ProcSteps
  <1>4. CASE WriteMessage \/ Refuse \/ PutStdin \/ StdinShutdown
    <2>1. UNCHANGED <<sent, cmds, proc>>
      BY <1>4 DEF WriteMessage, Refuse, PutStdin, StdinShutdown
    <2> QED
      BY <1>1, <2>1
  <1>9. CASE End
    <2>1. UNCHANGED <<sent, proc>> /\ cmds' = <<>>
      BY <1>9 DEF End
    <2> QED
      BY <2>1 DEF StartedOnce
  \* Commands that are taken.
  <1>5. ASSUME NEW t, NEW k \in Job, Take(t, k), UNCHANGED sent,
               \A j \in Job : proc[j] = "none" => proc'[j] = "none" \/ (j = k /\ t = "Start")
        PROVE  StartedOnce'
    <2>1. /\ Len(cmds) \in Nat
          /\ \A i \in 1 .. Len(cmds') : i + 1 \in 1 .. Len(cmds) /\ cmds'[i] = cmds[i + 1]
      BY <1>5, Received DEF Take
    <2> HIDE DEF TypeOK
    <2>2. ASSUME NEW i \in 1 .. Len(cmds'), NEW j \in Job, cmds'[i] = StartCommand(j)
          PROVE  /\ sent[j].start /\ proc'[j] = "none"
                 /\ \A n \in 1 .. Len(cmds') : cmds'[n] = StartCommand(j) => n = i
      <3>1. /\ i + 1 \in 1 .. Len(cmds) /\ cmds[i + 1] = StartCommand(j)
            /\ sent[j].start /\ proc[j] = "none"
            /\ \A n \in 1 .. Len(cmds) : cmds[n] = StartCommand(j) => n = i + 1
        <4>1. i + 1 \in 1 .. Len(cmds) /\ cmds[i + 1] = StartCommand(j)
          BY <2>1, <2>2
        <4> QED
          BY <4>1 DEF StartedOnce
      <3>2. proc'[j] = "none"
        BY <1>5, <2>2, <3>1, TakenStart
      <3>3. ASSUME NEW n \in 1 .. Len(cmds'), cmds'[n] = StartCommand(j) PROVE n = i
        <4>1. n + 1 = i + 1
          BY <2>1, <3>1, <3>3
        <4> QED
          BY <4>1
      <3> QED
        BY <3>1, <3>2, <3>3
    <2>3. \A j \in Job : ~sent[j].start => proc'[j] = "none"
      BY <1>5, TakenStart DEF StartedOnce
    <2> QED
      BY <1>5, <2>2, <2>3 DEF StartedOnce, StartCommand
  <1>6. ASSUME NEW k \in Job, Start(k) PROVE StartedOnce'
    BY <1>5, <1>6 DEF Start
  <1>7. ASSUME NEW k \in Job, StartFails(k) \/ Stdin(k) \/ StdinClose(k) \/ Kill(k)
        PROVE  StartedOnce'
    <2>1. UNCHANGED <<sent, proc>>
      BY <1>7 DEF StartFails, Stdin, StdinClose, Kill
    <2>2. PICK t : Take(t, k)
      BY <1>7 DEF StartFails, Stdin, StdinClose, Kill
    <2> QED
      BY <1>5, <2>1, <2>2
  \* Commands that are sent.
  <1>8. ASSUME NEW k \in Job, CoordinatorSends(k) PROVE StartedOnce'
    <2>1. PICK t \in {"Start", "Stdin", "StdinClose", "Kill"} :
             /\ Queue(t, k) /\ (t = "Start" => ~sent[k].start)
             /\ \A j \in Job : sent'[j].start <=> sent[j].start \/ (j = k /\ t = "Start")
      <3>1. CASE ~sent[k].start /\ sent' = [sent EXCEPT ![k].start = TRUE] /\ Queue("Start", k)
        BY <3>1
      <3>2. CASE sent[k].start /\ sent' = [sent EXCEPT ![k].stdin = @ + 1] /\ Queue("Stdin", k)
        BY <3>2
      <3>3. CASE sent[k].start /\ sent' = [sent EXCEPT ![k].close = TRUE] /\ Queue("StdinClose", k)
        BY <3>3
      <3>4. CASE sent[k].start /\ sent' = [sent EXCEPT ![k].kill = TRUE] /\ Queue("Kill", k)
        BY <3>4
      <3> QED
        BY <1>8, <3>1, <3>2, <3>3, <3>4 DEF CoordinatorSends
    <2>2. UNCHANGED proc
      BY <1>8 DEF CoordinatorSends
    <2> DEFINE m == [type |-> t, job |-> k]
    <2>3. m \in Command /\ \A j \in Job : m = StartCommand(j) => t = "Start" /\ j = k
      BY DEF Command, StartCommand
    <2>4. \A i \in 1 .. Len(cmds') :
                 \/ i \in 1 .. Len(cmds) /\ cmds'[i] = cmds[i]
                 \/ i = Len(cmds) + 1 /\ cmds'[i] = m
      <3>1. cmds \in Seq(Command) /\ cmds' = Append(cmds, m)
        BY <2>1 DEF Queue
      <3> HIDE DEF m, TypeOK
      <3> QED
        BY <2>3, <3>1, Appended
    <2>7. Len(cmds) \in Nat
      OBVIOUS
    <2> HIDE DEF m, TypeOK
    <2>5. ASSUME NEW i \in 1 .. Len(cmds'), NEW j \in Job, cmds'[i] = StartCommand(j)
          PROVE  /\ sent'[j].start /\ proc[j] = "none"
                 /\ \A n \in 1 .. Len(cmds') : cmds'[n] = StartCommand(j) => n = i
      <3>1. CASE i \in 1 .. Len(cmds) /\ cmds'[i] = cmds[i]
        <4>1. /\ sent[j].start /\ proc[j] = "none"
              /\ \A n \in 1 .. Len(cmds) : cmds[n] = StartCommand(j) => n = i
          BY <2>5, <3>1 DEF StartedOnce
        <4>2. m # StartCommand(j)
          BY <2>1, <2>3, <4>1
        <4> QED
          BY <2>1, <2>4, <4>1, <4>2
      <3>2. CASE i = Len(cmds) + 1 /\ cmds'[i] = m
        <4>1. t = "Start" /\ j = k /\ ~sent[j].start
          BY <2>1, <2>3, <2>5, <3>2
        <4>2. proc[j] = "none" /\ \A n \in 1 .. Len(cmds) : cmds[n] # StartCommand(j)
          BY <4>1 DEF StartedOnce
        <4> QED
          BY <2>1, <2>4, <3>2, <4>1, <4>2
      <3> QED
        BY <2>4, <3>1, <3>2
    <2>6. \A j \in Job : ~sent'[j].start => proc[j] = "none"
      BY <2>1 DEF StartedOnce
    <2> QED
      BY <2>2, <2>5, <2>6 DEF StartedOnce, StartCommand
  <1> QED
    BY <1>2, <1>3, <1>4, <1>6, <1>7, <1>8, <1>9 DEF Next, Manage

\* No job was started yet.
LEMMA InitInv == Init => Inv
  <1> SUFFICES ASSUME Init PROVE Inv
    OBVIOUS
  <1>1. TypeOK
    BY WorkerAssumption, AtMostOne DEF Init, TypeOK, Stage, Over
  <1>2. StartedOnce /\ ManagerWaits
    BY DEF Init, StartedOnce, ManagerWaits
  <1>3. \A j \in Job : JobInv(j)
    BY DEF Init, JobInv, JobFresh, JobOutput, JobStdin, JobEnd, Stdio
  <1> QED
    BY <1>1, <1>2, <1>3 DEF Inv

\* Every reachable state satisfies Inv.
THEOREM Invariance == Spec => []Inv
  <1>1. Inv /\ [Next]_vars => Inv'
    <2> SUFFICES ASSUME Inv, [Next]_vars PROVE Inv'
      OBVIOUS
    <2>1. CASE Next
      <3>1. TypeOK'
        BY <2>1, TypeStep
      <3>2. StartedOnce' /\ ManagerWaits'
        BY <2>1, StartedStep, ManagerStep DEF Inv
      <3>3. \A j \in Job : JobInv(j)'
        BY <2>1, JobStep
      <3> QED
        BY <3>1, <3>2, <3>3 DEF Inv
    <2>2. CASE UNCHANGED vars
      <3> USE <2>2 DEF vars, managerVars, childVars, taskVars, procVars, Inv
      <3>1. TypeOK'
        BY DEF TypeOK
      <3>2. StartedOnce' /\ ManagerWaits'
        BY DEF StartedOnce, ManagerWaits, StartCommand
      <3>3. ASSUME NEW j \in Job PROVE JobInv(j)'
        <4>1. Same(j)
          BY DEF Same
        <4> QED
          BY <4>1, SameKeeps
      <3> QED
        BY <3>1, <3>2, <3>3
    <2> QED
      BY <2>1, <2>2
  <1> QED
    BY InitInv, <1>1, PTL DEF Spec

\* A job that is reported as executed had both its tasks joined while neither
\* had failed, so that all its output was sent before.
THEOREM ReportedOutputComplete == Spec => []OutputComplete
  <1>1. Inv => OutputComplete
    <2> SUFFICES ASSUME Inv, NEW j \in Job, Answered(j) PROVE copied[j] = wrote[j]
      BY DEF OutputComplete
    <2>1. JobInv(j) /\ verdict[j] = "Response"
      BY DEF Inv, Answered
    <2>2. task[j]["stdout"] = "joined" /\ j \notin dropped
      BY <2>1 DEF JobInv, JobEnd, Stdio
    <2> QED
      BY <2>1, <2>2 DEF JobInv, JobOutput
  <1> QED
    BY Invariance, <1>1, PTL

\* What the coordinator still sends to such a job finds no sender, so that
\* manage_processes neither waits for it nor fails.
THEOREM ReportedJobInert == Spec => []AnsweredJobInert
  <1>1. Inv => AnsweredJobInert
    <2> SUFFICES ASSUME Inv, NEW j \in Job, Answered(j)
                 PROVE  j \notin senders \cup current /\ stdinCh[j] = 0
      BY DEF AnsweredJobInert
    <2>1. JobInv(j) /\ verdict[j] = "Response" /\ proc[j] = "done"
      BY DEF Inv, Answered
    <2>2. task[j]["stdin"] = "joined" /\ j \notin dropped
      BY <2>1 DEF JobInv, JobEnd, Stdio
    <2>3. j \notin senders /\ stdinCh[j] = 0
      BY <2>1, <2>2 DEF JobInv, JobStdin
    <2>4. j \notin current
      BY <2>1, <2>3 DEF Inv, TypeOK, ManagerWaits
    <2> QED
      BY <2>3, <2>4
  <1> QED
    BY Invariance, <1>1, PTL

-----------------------------------------------------------------------------
(* The requests and their files *)

FilesType ==
    /\ req \in Seq(Request)
    /\ stage \in [Id -> {"files", "cargo", "exited", "done", "failed", "dropped"}]
    /\ cargo \in [Id -> {"none", "running", "orphaned", "ended"}]
    /\ cargoSuccess \in [Id -> BOOLEAN]
    /\ response = [i \in Id |-> response[i]] /\ strays = [i \in Id |-> strays[i]]
    /\ \A op \in ops : op[1] \in Id /\ op \in FileOps(op[1], req[op[1]])
    /\ sources = [p \in Path |-> sources[p]]
    /\ modules = [l \in Places |-> modules[l]]

\* What each stage of a request says of its cargo, its answers and its operations.
Stages ==
    \A i \in Id :
      /\ stage[i] = "files" => cargo[i] = "none" /\ response[i] = {}
      /\ stage[i] = "cargo" => cargo[i] = "running" /\ response[i] = {}
      /\ stage[i] \in {"exited", "done"} =>
           cargo[i] = "ended" \/ (cargo[i] = "orphaned" /\ RunsCode(req[i]))
      /\ stage[i] \in {"cargo", "exited", "done"} => OpsOf(i) = {}

\* Request j does nothing any more.
Quiet(j) == j \notin Active /\ OpsOf(j) = {} /\ cargo[j] \notin {"running", "orphaned"}

\* Only the last request is active and not told to abort; beside it only its
\* strays and itself can still do something.
Succession ==
    \A i \in Id :
      /\ i \in Active => i = Len(req) \/ i \in aborting
      /\ \A j \in Id : j < i => j \in strays[i] \/ Quiet(j)

Pending(i, p) == \E kind \in {"write", "delete"} : <<i, kind, p>> \in ops

\* A file of request i is still to be written or deleted, or is as the request
\* says, or a stray has touched it; likewise the manifest.
FileComing(i, p) == \/ Pending(i, p) \/ sources[p] = OwnFile(i, p)
                    \/ \E j \in strays[i] : FileBy(j, p)
ManifestComing(i) ==
    \/ <<i, "manifest", "Cargo.toml">> \in ops
    \/ manifest = ModifyCargoToml(req[i], Original)
    \/ \E j \in strays[i] : manifest \in {ModifyCargoToml(req[j], Original), HalfManifest}

\* That is so for the last request, up to the end of its cargo.
SourcesComing ==
    \A i \in Id : i = Len(req) /\ stage[i] \in {"files", "cargo"} =>
      ManifestComing(i) /\ \A p \in OwnPaths(i) : FileComing(i, p)

\* c was made by the cargo of request i, from its files.
Made(i, c) ==
    /\ c.command = ExecuteCargoRequest(req[i])
    /\ c.manifest = ModifyCargoToml(req[i], Original)
    /\ \A p \in OwnPaths(i) : c.from[p] = OwnFile(i, p)

\* f is file p of request i after its cargo fmt.
Shown(i, p, f) ==
    /\ f[1] = FilesOf(req[i])[p]
    /\ f[2] = "fmt" \/ (~cargoSuccess[i] /\ f[2] = "raw")

\* When the cargo of the last request is over and there were no strays, what is
\* read back, and what was read so far, is its own.
OutcomeOwn ==
    \A i \in Id : i = Len(req) /\ stage[i] = "exited" /\ strays[i] = {} =>
      /\ req[i].kind = "compile" /\ ~cargoSuccess[i] => response[i] = {}
      /\ req[i].kind = "compile" /\ cargoSuccess[i] /\ ~MayTakeAnother(i) =>
           /\ compilation # <<>> /\ Made(i, compilation[1])
           /\ \A x \in response[i] : Made(i, x[2])
      /\ req[i].kind = "format" =>
           /\ \A p \in DOMAIN FilesOf(req[i]) : Shown(i, p, sources[p])
           /\ \A x \in response[i] : Shown(i, x[1], x[2])

\* A module in target/ was left by one of the requests.
ModulesLeft ==
    \A l \in Places : modules[l] # <<>> => \E j \in Id : LeavesModule(req[j], l)

SourcesInv == FilesType /\ Stages /\ Succession /\ SourcesComing
FilesInv == SourcesInv /\ ModulesLeft /\ OutcomeOwn /\ ResponseIsOwn

\* A function on 1 .. n that is appended to.
LEMMA AppendToFunction ==
    ASSUME NEW n \in Nat, NEW f, f = [i \in 1 .. n |-> f[i]], NEW v
    PROVE  /\ Append(f, v) = [i \in 1 .. n + 1 |-> IF i = n + 1 THEN v ELSE f[i]]
  <1>1. PICK S : S = {f[i] : i \in 1 .. n} \cup {v}
    OBVIOUS
  <1>2. f \in Seq(S) /\ Len(f) = n
    <2>1. f \in [1 .. n -> S]
      BY <1>1
    <2> QED
      BY <2>1
  <1>3. v \in S
    BY <1>1
  <1> QED
    BY <1>2, <1>3

\* The requests so far are numbered from 1.
LEMMA Numbers ==
    ASSUME FilesType
    PROVE  Len(req) \in Nat /\ Id = 1 .. Len(req)
  BY DEF FilesType, Id

\* The requests that still do something.
Restless == {j \in Id : j \in Active \/ OpsOf(j) # {} \/ cargo[j] \in {"running", "orphaned"}}

\* What a new request changes: it is the last one, and it alone.
LEMMA Begun ==
    ASSUME FilesType, NEW r \in Request, BeginRequest(r), NEW n, n = Len(req) + 1
    PROVE  /\ req' \in Seq(Request) /\ Len(req') = n /\ Id' = 1 .. n /\ Id = 1 .. n - 1
           /\ n \in Nat /\ n \in Id' /\ n \notin Id
           /\ req'[n] = r /\ \A i \in Id : req'[i] = req[i]
           /\ stage' = [i \in 1 .. n |-> IF i = n THEN "files" ELSE stage[i]]
           /\ cargo' = [i \in 1 .. n |-> IF i = n THEN "none" ELSE cargo[i]]
           /\ response' = [i \in 1 .. n |-> IF i = n THEN {} ELSE response[i]]
           /\ strays' = [i \in 1 .. n |-> IF i = n THEN Restless ELSE strays[i]]
  <1>1. PICK m \in Nat : m = Len(req)
    BY Numbers
  <1>2. n = m + 1 /\ Id = 1 .. m
    BY <1>1, Numbers
  <1>3. req' = Append(req, r) /\ req \in Seq(Request)
    BY DEF BeginRequest, FilesType
  <1>4. req' \in Seq(Request) /\ Len(req') = n /\ req'[n] = r /\ \A i \in 1 .. m : req'[i] = req[i]
    BY <1>1, <1>2, <1>3
  <1>5. Id' = 1 .. n
    BY <1>4 DEF Id
  <1>6. /\ stage = [i \in 1 .. m |-> stage[i]] /\ cargo = [i \in 1 .. m |-> cargo[i]]
        /\ response = [i \in 1 .. m |-> response[i]] /\ strays = [i \in 1 .. m |-> strays[i]]
    BY <1>2 DEF FilesType
  <1>7. /\ stage' = Append(stage, "files") /\ cargo' = Append(cargo, "none")
        /\ response' = Append(response, {}) /\ strays' = Append(strays, Restless)
    BY DEF BeginRequest, Restless
  <1>8. /\ stage' = [i \in 1 .. n |-> IF i = n THEN "files" ELSE stage[i]]
        /\ cargo' = [i \in 1 .. n |-> IF i = n THEN "none" ELSE cargo[i]]
    BY <1>2, <1>6, <1>7, AppendToFunction
  <1>9. /\ response' = [i \in 1 .. n |-> IF i = n THEN {} ELSE response[i]]
        /\ strays' = [i \in 1 .. n |-> IF i = n THEN Restless ELSE strays[i]]
    BY <1>2, <1>6, <1>7, AppendToFunction
  <1>10. n \in Nat /\ n \in Id' /\ n \notin Id /\ Id = 1 .. n - 1
    BY <1>2, <1>5
  <1> QED
    BY <1>2, <1>4, <1>5, <1>8, <1>9, <1>10

\* The same for cargo's success.
LEMMA BegunSuccess ==
    ASSUME FilesType, NEW r \in Request, BeginRequest(r), NEW n, n = Len(req) + 1
    PROVE  cargoSuccess' = [i \in 1 .. n |-> IF i = n THEN FALSE ELSE cargoSuccess[i]]
  <1>1. PICK m \in Nat : m = Len(req)
    BY Numbers
  <1>2. n = m + 1 /\ Id = 1 .. m
    BY <1>1, Numbers
  <1>3. PICK v, f : v = FALSE /\ f = cargoSuccess
    OBVIOUS
  <1>4. f = [i \in 1 .. m |-> f[i]]
    BY <1>2, <1>3 DEF FilesType
  <1>5. Append(f, v) = [i \in 1 .. n |-> IF i = n THEN v ELSE f[i]]
    BY <1>2, <1>4, AppendToFunction
  <1> QED
    BY <1>3, <1>5, Zenon DEF BeginRequest

\* A step of request i.
Step(i) == \/ DropRequest(i) \/ StartCargo(i) \/ ReturnResponse(i)
           \/ CargoRuns(i) \/ KillCargo(i) \/ OrphanWrites(i) \/ OrphanEnds(i)
           \/ \E p \in Path \cup {"compilation"} : ReadBack(i, p)
           \/ \E op \in ops : op[1] = i /\ (FileOpDone(op) \/ FileOpFails(op))

\* Every step but the start of a request is one of some request.
LEMMA Actors ==
    ASSUME FilesType, FilesNext
    PROVE  (\E r \in Request : BeginRequest(r)) \/ (\E i \in Id : Step(i))
  BY DEF FilesNext, Step, FilesType

\* The operations of a request are on its files, or on the manifest.
LEMMA Operation ==
    ASSUME FilesType, NEW op \in ops, NEW i, i = op[1]
    PROVE  /\ i \in Id
           /\ \/ op = <<i, "delete", op[3]>> /\ op[3] \in DeleteRequests(req[i])
              \/ op = <<i, "write", op[3]>> /\ op[3] \in WriteRequests(req[i])
              \/ op = <<i, "manifest", "Cargo.toml">>
           /\ op[2] # "manifest" => op[3] \in OwnPaths(i) /\ op[3] \in Path
  <1>1. i \in Id /\ op \in FileOps(i, req[i])
    BY DEF FilesType
  <1>2. req[i] \in Request
    BY <1>1 DEF FilesType, Id
  <1>3. \/ op = <<i, "delete", op[3]>> /\ op[3] \in DeleteRequests(req[i])
        \/ op = <<i, "write", op[3]>> /\ op[3] \in WriteRequests(req[i])
        \/ op = <<i, "manifest", "Cargo.toml">>
    BY <1>1 DEF FileOps
  <1> QED
    BY <1>1, <1>2, <1>3 DEF DeleteRequests, WriteRequests, OwnPaths, Path

\* Cargo and the program leave a file alone, format it or overwrite it; they
\* overwrite the manifest only with something of their own, and they put a module
\* only where LeavesModule says.
LEMMA EffectsOnDisk ==
    ASSUME FilesType, NEW a \in Id, NEW ok \in BOOLEAN, Effects(a, ok)
    PROVE  /\ sources' = [p \in Path |-> sources'[p]]
           /\ \A p \in Path : \/ sources'[p] = sources[p]
                              \/ sources'[p][2] = "fmt" \/ sources'[p][1] = "junk"
           /\ manifest' \in {manifest, HalfManifest}
           /\ modules' = [l \in Places |-> modules'[l]]
           /\ \A l \in Places : modules'[l] = modules[l] \/ LeavesModule(req[a], l)
  <1>1. CASE /\ req[a].kind = "compile"
             /\ IF req[a].target = "wasm" THEN CargoWasm(a, ok) ELSE CargoRustc(a, ok)
             /\ UNCHANGED <<sources, manifest>>
    <2>1. CASE UNCHANGED modules
      BY <1>1, <2>1 DEF FilesType
    <2>2. CASE CargoWasm(a, ok) /\ ~UNCHANGED modules
      <3>1. PICK made : /\ MakesModule(req[a])
                        /\ modules' = [modules EXCEPT ![req[a].mode] = <<made>>]
        BY <2>2 DEF CargoWasm
      <3>2. modules' = [l \in Places |-> modules'[l]]
        BY <3>1 DEF FilesType
      <3>3. \A l \in Places : modules'[l] = modules[l] \/ l = req[a].mode
        BY <3>1 DEF FilesType
      <3>4. ForWasm(req[a]) \/ UNCHANGED modules
        BY <1>1 DEF ForWasm, CargoRustc
      <3> QED
        BY <1>1, <2>2, <3>1, <3>2, <3>3, <3>4 DEF LeavesModule, FilesType
    <2> QED
      BY <1>1, <2>1, <2>2 DEF CargoRustc
  <1>2. CASE req[a].kind = "format" /\ CargoFmt(ok)
    BY <1>2 DEF CargoFmt, FilesType
  <1>3. CASE UNCHANGED diskVars
    BY <1>3 DEF diskVars, FilesType
  <1>4. CASE RunsCode(req[a]) /\ ProgramScribbles
    BY <1>4 DEF ProgramScribbles, FilesType, LeavesModule
  <1> QED
    BY <1>1, <1>2, <1>3, <1>4 DEF Effects

\* A step of request a changes nothing of the others, sends nothing, and a
\* request that is quiet has none.
LEMMA Acted ==
    ASSUME FilesType, NEW a \in Id, Step(a)
    PROVE  /\ UNCHANGED <<req, strays, aborting>> /\ ~Quiet(a)
           /\ ops' \subseteq ops /\ \A op \in ops : op[1] # a => op \in ops'
           /\ \A i \in Id \ {a} : stage'[i] = stage[i] /\ cargo'[i] = cargo[i]
           /\ \A i \in Id \ {a} : response'[i] = response[i]
           /\ \A i \in Id \ {a} : cargoSuccess'[i] = cargoSuccess[i]
           /\ stage' \in [Id -> {"files", "cargo", "exited", "done", "failed", "dropped"}]
           /\ cargo' \in [Id -> {"none", "running", "orphaned", "ended"}]
           /\ stage'[a] \in {"files", "cargo", "exited"} => stage[a] \in {"files", "cargo", "exited"}
  <1> USE DEF FilesType
  <1>1. CASE \/ DropRequest(a) \/ StartCargo(a) \/ ReturnResponse(a) \/ KillCargo(a)
             \/ OrphanWrites(a) \/ OrphanEnds(a)
    BY <1>1 DEF DropRequest, StartCargo, ReturnResponse, KillCargo, OrphanWrites, OrphanEnds,
       Forsake, OpsOf, Active, Quiet
  <1>2. CASE CargoRuns(a)
    <2>1. PICK ok : cargoSuccess' = [cargoSuccess EXCEPT ![a] = ok]
      BY <1>2 DEF CargoRuns
    <2>2. /\ cargo[a] = "running" /\ UNCHANGED <<req, aborting, ops, response, strays>>
          /\ \/ cargo' = [cargo EXCEPT ![a] = "ended"]
             \/ cargo' = [cargo EXCEPT ![a] = "orphaned"]
          /\ stage' = IF stage[a] = "cargo" THEN [stage EXCEPT ![a] = "exited"] ELSE stage
      BY <1>2 DEF CargoRuns
    <2> QED
      BY <2>1, <2>2 DEF Quiet
  <1>3. ASSUME NEW p \in Path \cup {"compilation"}, ReadBack(a, p)
        PROVE  /\ UNCHANGED <<req, strays, aborting, ops, cargo, cargoSuccess>> /\ stage[a] = "exited"
               /\ \A i \in Id \ {a} : stage'[i] = stage[i]
               /\ \A i \in Id \ {a} : response'[i] = response[i]
               /\ stage' \in [Id -> {"files", "cargo", "exited", "done", "failed", "dropped"}]
    BY <1>3 DEF ReadBack
  <1>4. CASE \E p \in Path \cup {"compilation"} : ReadBack(a, p)
    BY <1>3, <1>4 DEF Quiet, Active
  <1>5. ASSUME NEW op \in ops, op[1] = a, FileOpDone(op)
        PROVE  /\ UNCHANGED <<req, stage, aborting, cargo, cargoSuccess, compilation, response, strays>>
               /\ ops' = ops \ {op}
    BY <1>5 DEF FileOpDone
  <1>6. ASSUME NEW op \in ops, op[1] = a, FileOpFails(op)
        PROVE  /\ UNCHANGED <<req, aborting, cargo, cargoSuccess, compilation, response, strays>>
               /\ \/ stage' = [stage EXCEPT ![a] = "failed"] /\ stage[a] = "files"
                  \/ stage' = stage /\ stage[a] # "files"
               /\ ops' \subseteq ops /\ \A o \in ops : o[1] # a => o \in ops'
    BY <1>6 DEF FileOpFails, OpsOf
  <1>7. CASE \E op \in ops : op[1] = a /\ (FileOpDone(op) \/ FileOpFails(op))
    <2>1. PICK op \in ops : op[1] = a /\ (FileOpDone(op) \/ FileOpFails(op))
      BY <1>7
    <2>2. ~Quiet(a)
      BY <2>1 DEF Quiet, OpsOf
    <2> QED
      BY <1>5, <1>6, <2>1, <2>2
  <1> QED
    BY <1>1, <1>2, <1>4, <1>7 DEF Step

\* The types are kept by the start of a request ...
LEMMA BeginType ==
    ASSUME FilesType, NEW r \in Request, BeginRequest(r)
    PROVE  FilesType'
  <1>1. PICK n : n = Len(req) + 1
    OBVIOUS
  <1>2. /\ req' \in Seq(Request) /\ Len(req') = n /\ Id' = 1 .. n /\ Id = 1 .. n - 1
        /\ n \in Nat /\ n \in Id' /\ n \notin Id
        /\ req'[n] = r /\ \A i \in Id : req'[i] = req[i]
    BY <1>1, Begun
  <1>2a. /\ stage' = [i \in 1 .. n |-> IF i = n THEN "files" ELSE stage[i]]
         /\ cargo' = [i \in 1 .. n |-> IF i = n THEN "none" ELSE cargo[i]]
         /\ response' = [i \in 1 .. n |-> IF i = n THEN {} ELSE response[i]]
    BY <1>1, Begun
  <1>3. \A i \in 1 .. n : i # n => i \in Id
    BY <1>2
  <1>4. /\ stage' \in [Id' -> {"files", "cargo", "exited", "done", "failed", "dropped"}]
        /\ cargo' \in [Id' -> {"none", "running", "orphaned", "ended"}]
        /\ response' = [i \in Id' |-> response'[i]]
    BY <1>2a, <1>2, <1>3 DEF FilesType
  <1>5. strays' = [i \in Id' |-> strays'[i]]
    BY <1>1, <1>2, Begun
  <1>6. cargoSuccess' \in [Id' -> BOOLEAN]
    <2>1. cargoSuccess' = [i \in 1 .. n |-> IF i = n THEN FALSE ELSE cargoSuccess[i]]
      BY <1>1, BegunSuccess
    <2>2. \A i \in Id : cargoSuccess[i] \in BOOLEAN
      BY DEF FilesType
    <2> QED
      BY <1>2, <1>3, <2>1, <2>2
  <1>7. \A op \in ops' : op[1] \in Id' /\ op \in FileOps(op[1], req[op[1]])'
    <2>1. ops' = ops \cup FileOps(n, r)
      BY <1>1 DEF BeginRequest
    <2>2. ASSUME NEW op \in ops PROVE op[1] \in Id' /\ op \in FileOps(op[1], req[op[1]])'
      <3>1. op[1] \in Id /\ op \in FileOps(op[1], req[op[1]])
        BY DEF FilesType
      <3>2. req'[op[1]] = req[op[1]] /\ op[1] \in Id'
        BY <1>2, <3>1
      <3> QED
        BY <3>1, <3>2 DEF FileOps
    <2>3. ASSUME NEW op \in FileOps(n, r) PROVE op[1] \in Id' /\ op \in FileOps(op[1], req[op[1]])'
      <3>1. op[1] = n
        BY DEF FileOps
      <3> QED
        BY <1>2, <3>1 DEF FileOps
    <2> QED
      BY <2>1, <2>2, <2>3
  <1>8. sources' = [p \in Path |-> sources'[p]] /\ modules' = [l \in Places |-> modules'[l]]
    BY DEF BeginRequest, diskVars, FilesType
  <1> QED
    BY <1>2, <1>4, <1>5, <1>6, <1>7, <1>8 DEF FilesType

\* ... and by the steps of the requests.
LEMMA StepType ==
    ASSUME FilesType, NEW a \in Id, Step(a)
    PROVE  FilesType' /\ Id' = Id
  <1>1. Id' = Id /\ UNCHANGED <<req, strays>>
    BY Acted DEF Id
  <1>2. \A op \in ops' : op[1] \in Id' /\ op \in FileOps(op[1], req[op[1]])'
    <2> SUFFICES ASSUME NEW op \in ops' PROVE op[1] \in Id' /\ op \in FileOps(op[1], req[op[1]])'
      OBVIOUS
    <2>1. op[1] \in Id /\ op \in FileOps(op[1], req[op[1]])
      BY Acted DEF FilesType
    <2> QED
      BY <1>1, <2>1 DEF FileOps
  <1>3. cargoSuccess' \in [Id -> BOOLEAN]
    <2>1. CASE CargoRuns(a)
      <3>1. PICK ok \in BOOLEAN : cargoSuccess' = [cargoSuccess EXCEPT ![a] = ok]
        BY <2>1 DEF CargoRuns
      <3> QED
        BY <3>1 DEF FilesType
    <2>2. CASE UNCHANGED cargoSuccess
      BY <2>2 DEF FilesType
    <2> QED
      BY <2>1, <2>2 DEF Step, DropRequest, StartCargo, ReturnResponse, KillCargo, OrphanWrites,
         OrphanEnds, ReadBack, FileOpDone, FileOpFails
  <1>4. response' = [i \in Id |-> response'[i]]
    BY DEF FilesType, Step, DropRequest, StartCargo, ReturnResponse, KillCargo, OrphanWrites,
       OrphanEnds, ReadBack, FileOpDone, FileOpFails, CargoRuns
  <1>5. sources' = [p \in Path |-> sources'[p]] /\ modules' = [l \in Places |-> modules'[l]]
    <2>1. CASE UNCHANGED <<sources, modules>>
      BY <2>1 DEF FilesType
    <2>2. CASE CargoRuns(a) \/ OrphanWrites(a)
      <3>1. \E ok \in BOOLEAN : Effects(a, ok)
        BY <2>2 DEF CargoRuns, OrphanWrites
      <3> QED
        BY <3>1, EffectsOnDisk
    <2>3. ASSUME NEW op \in ops, FileOpDone(op) \/ FileOpFails(op)
          PROVE  sources' = [p \in Path |-> sources'[p]] /\ modules' = [l \in Places |-> modules'[l]]
      <3>1. op[2] \in {"delete", "write", "manifest"}
        BY Operation
      <3> QED
        BY <2>3, <3>1 DEF FileOpDone, FileOpFails, FilesType
    <2> QED
      BY <2>1, <2>2, <2>3 DEF Step, DropRequest, StartCargo, ReturnResponse, KillCargo,
         OrphanEnds, ReadBack, diskVars
  <1>6. /\ stage' \in [Id -> {"files", "cargo", "exited", "done", "failed", "dropped"}]
        /\ cargo' \in [Id -> {"none", "running", "orphaned", "ended"}]
    BY Acted
  <1> QED
    BY <1>1, <1>2, <1>3, <1>4, <1>5, <1>6 DEF FilesType

\* A new request adds operations of its own only; the others are as they were.
LEMMA BegunOthers ==
    ASSUME FilesType, NEW r \in Request, BeginRequest(r), NEW i \in Id
    PROVE  /\ i \in Id' /\ i # Len(req') /\ i \in Nat /\ Len(req') \in Nat /\ i < Len(req')
           /\ req'[i] = req[i] /\ stage'[i] = stage[i] /\ cargo'[i] = cargo[i]
           /\ response'[i] = response[i] /\ strays'[i] = strays[i]
           /\ \A op : op \in ops' /\ op[1] = i => op \in ops
           /\ \A op \in ops : op \in ops'
  <1>1. PICK n : n = Len(req) + 1
    OBVIOUS
  <1>2. /\ Len(req') = n /\ Id' = 1 .. n /\ Id = 1 .. n - 1 /\ n \in Nat
        /\ req'[i] = req[i]
        /\ stage' = [k \in 1 .. n |-> IF k = n THEN "files" ELSE stage[k]]
        /\ cargo' = [k \in 1 .. n |-> IF k = n THEN "none" ELSE cargo[k]]
        /\ response' = [k \in 1 .. n |-> IF k = n THEN {} ELSE response[k]]
        /\ strays' = [k \in 1 .. n |-> IF k = n THEN Restless ELSE strays[k]]
    <2>1. Len(req') = n /\ Id' = 1 .. n /\ Id = 1 .. n - 1 /\ n \in Nat /\ req'[i] = req[i]
      BY <1>1, Begun
    <2>2. /\ stage' = [k \in 1 .. n |-> IF k = n THEN "files" ELSE stage[k]]
          /\ cargo' = [k \in 1 .. n |-> IF k = n THEN "none" ELSE cargo[k]]
      BY <1>1, Begun
    <2>3. /\ response' = [k \in 1 .. n |-> IF k = n THEN {} ELSE response[k]]
          /\ strays' = [k \in 1 .. n |-> IF k = n THEN Restless ELSE strays[k]]
      BY <1>1, Begun
    <2> QED
      BY <2>1, <2>2, <2>3
  <1>3. i \in 1 .. n /\ i # n /\ i < n /\ i \in Nat
    BY <1>2
  <1>4. ops' = ops \cup FileOps(n, r)
    BY <1>1 DEF BeginRequest
  <1>5. \A op \in FileOps(n, r) : op[1] = n
    BY DEF FileOps
  <1> QED
    BY <1>2, <1>3, <1>4, <1>5

\* ... and of the new one.
LEMMA BegunLast ==
    ASSUME FilesType, NEW r \in Request, BeginRequest(r), NEW n, n = Len(req')
    PROVE  /\ n \in Id' /\ n \notin Id /\ \A i \in Id' : i = n \/ i \in Id
           /\ n \in Nat /\ req'[n] = r /\ stage'[n] = "files" /\ cargo'[n] = "none"
           /\ response'[n] = {} /\ strays'[n] = Restless
           /\ ops' = ops \cup FileOps(n, r)
  <1>1. n = Len(req) + 1
    <2>1. PICK m : m = Len(req) + 1
      OBVIOUS
    <2> QED
      BY <2>1, Begun
  <1>2. /\ Id' = 1 .. n /\ Id = 1 .. n - 1 /\ n \in Nat /\ req'[n] = r
        /\ stage' = [k \in 1 .. n |-> IF k = n THEN "files" ELSE stage[k]]
        /\ cargo' = [k \in 1 .. n |-> IF k = n THEN "none" ELSE cargo[k]]
        /\ response' = [k \in 1 .. n |-> IF k = n THEN {} ELSE response[k]]
        /\ strays' = [k \in 1 .. n |-> IF k = n THEN Restless ELSE strays[k]]
        /\ n \in Id' /\ n \notin Id
    BY <1>1, Begun
  <1>3. n \in 1 .. n /\ \A i \in 1 .. n : i = n \/ i \in 1 .. n - 1
    BY <1>2
  <1>4. ops' = ops \cup FileOps(n, r)
    BY <1>1 DEF BeginRequest
  <1> QED
    BY <1>2, <1>3, <1>4

\* What a stage says stays true when a request starts ...
LEMMA BeginStages ==
    ASSUME FilesType, Stages, NEW r \in Request, BeginRequest(r)
    PROVE  Stages'
  <1>1. PICK n : n = Len(req')
    OBVIOUS
  <1>2. ASSUME NEW i \in Id
        PROVE  /\ stage'[i] = stage[i] /\ cargo'[i] = cargo[i] /\ response'[i] = response[i]
               /\ OpsOf(i)' = OpsOf(i) /\ req'[i] = req[i]
    <2>1. /\ stage'[i] = stage[i] /\ cargo'[i] = cargo[i] /\ response'[i] = response[i]
          /\ req'[i] = req[i]
          /\ \A op : op \in ops' /\ op[1] = i => op \in ops
          /\ \A op \in ops : op \in ops'
      BY BegunOthers
    <2> QED
      BY <2>1 DEF OpsOf
  <1>3. /\ \A i \in Id' : i = n \/ i \in Id
        /\ stage'[n] = "files" /\ cargo'[n] = "none" /\ response'[n] = {}
    BY <1>1, BegunLast
  <1> QED
    BY <1>2, <1>3 DEF Stages, RunsCode

\* ... and when a request takes a step.
LEMMA StepStages ==
    ASSUME FilesType, Stages, NEW a \in Id, Step(a)
    PROVE  Stages'
  <1>1. /\ Id' = Id /\ ops' \subseteq ops /\ UNCHANGED req
        /\ \A i \in Id \ {a} : /\ stage'[i] = stage[i] /\ cargo'[i] = cargo[i]
                                  /\ response'[i] = response[i]
    BY Acted, StepType
  <1>2. ASSUME NEW i \in Id, i # a
        PROVE  /\ stage'[i] = "files" => cargo'[i] = "none" /\ response'[i] = {}
               /\ stage'[i] = "cargo" => cargo'[i] = "running" /\ response'[i] = {}
               /\ stage'[i] \in {"exited", "done"} =>
                    cargo'[i] = "ended" \/ (cargo'[i] = "orphaned" /\ RunsCode(req[i]))
               /\ stage'[i] \in {"cargo", "exited", "done"} => OpsOf(i)' = {}
    BY <1>1, <1>2 DEF Stages, OpsOf
  <1>3. /\ stage'[a] = "files" => cargo'[a] = "none" /\ response'[a] = {}
        /\ stage'[a] = "cargo" => cargo'[a] = "running" /\ response'[a] = {}
        /\ stage'[a] \in {"exited", "done"} =>
             cargo'[a] = "ended" \/ (cargo'[a] = "orphaned" /\ RunsCode(req[a]))
        /\ stage'[a] \in {"cargo", "exited", "done"} => OpsOf(a)' = {}
    <2> USE DEF FilesType, Stages, OpsOf
    <2>0. CASE OrphanWrites(a) \/ OrphanEnds(a)
      <3>1. /\ cargo[a] = "orphaned" /\ UNCHANGED <<stage, ops, response>>
            /\ cargo' = cargo \/ cargo' = [cargo EXCEPT ![a] = "ended"]
        BY <2>0 DEF OrphanWrites, OrphanEnds
      <3> QED
        BY <3>1
    <2>1. CASE DropRequest(a) \/ StartCargo(a) \/ ReturnResponse(a) \/ KillCargo(a)
      BY <1>1, <2>1 DEF DropRequest, StartCargo, ReturnResponse, KillCargo, Forsake
    <2>2. CASE CargoRuns(a)
      <3>1. /\ cargo[a] = "running" /\ UNCHANGED <<ops, response>>
            /\ \/ cargo' = [cargo EXCEPT ![a] = "ended"]
               \/ RunsCode(req[a]) /\ cargo' = [cargo EXCEPT ![a] = "orphaned"]
            /\ stage' = IF stage[a] = "cargo" THEN [stage EXCEPT ![a] = "exited"] ELSE stage
        BY <2>2 DEF CargoRuns
      <3> QED
        BY <3>1
    <2>3. ASSUME NEW p \in Path \cup {"compilation"}, ReadBack(a, p)
          PROVE  /\ stage[a] = "exited" /\ stage'[a] \in {"exited", "failed"}
                 /\ UNCHANGED <<ops, cargo>>
      BY <2>3 DEF ReadBack
    <2>4. CASE \E p \in Path \cup {"compilation"} : ReadBack(a, p)
      BY <2>3, <2>4
    <2>5. ASSUME NEW op \in ops, op[1] = a, FileOpDone(op) \/ FileOpFails(op)
          PROVE  UNCHANGED <<cargo, response>> /\ stage'[a] \in {stage[a], "failed"}
      BY <2>5 DEF FileOpDone, FileOpFails
    <2>6. CASE \E op \in ops : op[1] = a /\ (FileOpDone(op) \/ FileOpFails(op))
      BY <1>1, <2>5, <2>6
    <2> QED
      BY <2>0, <2>1, <2>2, <2>4, <2>6 DEF Step
  <1> QED
    BY <1>1, <1>2, <1>3 DEF Stages, RunsCode

\* A request that is quiet stays so, and only the last one is new.
LEMMA BeginSuccession ==
    ASSUME FilesType, Succession, NEW r \in Request, BeginRequest(r)
    PROVE  Succession'
  <1>1. PICK n : n = Len(req')
    OBVIOUS
  <1>2. aborting' = aborting \cup Active
    BY DEF BeginRequest
  <1>3. ASSUME NEW i \in Id
        PROVE  /\ i \in Active' <=> i \in Active
               /\ Quiet(i)' <=> Quiet(i)
               /\ i < n /\ strays'[i] = strays[i]
    <2>1. /\ i \in Id' /\ i < Len(req') /\ stage'[i] = stage[i] /\ cargo'[i] = cargo[i]
          /\ strays'[i] = strays[i]
          /\ \A op : op \in ops' /\ op[1] = i => op \in ops
          /\ \A op \in ops : op \in ops'
      BY BegunOthers
    <2>2. i \in Active' <=> i \in Active
      BY <2>1 DEF Active
    <2>3. OpsOf(i)' = OpsOf(i)
      BY <2>1 DEF OpsOf
    <2> QED
      BY <1>1, <2>1, <2>2, <2>3 DEF Quiet
  <1>4. /\ \A i \in Id' : i = n \/ i \in Id
        /\ n \in Nat /\ n \notin Id /\ strays'[n] = Restless
    BY <1>1, BegunLast
  <1>5. ASSUME NEW i \in Id' PROVE i \in Active' => i = n \/ i \in aborting'
    BY <1>2, <1>3, <1>4
  <1>6. ASSUME NEW i \in Id', NEW j \in Id', j < i PROVE j \in strays'[i] \/ Quiet(j)'
    <2>1. CASE i \in Id /\ j \in Id
      BY <1>3, <1>6, <2>1 DEF Succession
    <2>2. CASE i = n /\ j \in Id
      BY <1>3, <1>4, <2>2 DEF Restless, Quiet
    <2>3. ~(i \in Id /\ j = n) /\ ~(i = n /\ j = n)
      BY <1>3, <1>4, <1>6, Numbers
    <2> QED
      BY <1>4, <2>1, <2>2, <2>3
  <1> QED
    BY <1>1, <1>5, <1>6 DEF Succession

\* No step makes a request active again, or sends anything.
LEMMA StepSuccession ==
    ASSUME FilesType, Succession, NEW a \in Id, Step(a)
    PROVE  Succession'
  <1>1. /\ Id' = Id /\ UNCHANGED <<req, strays, aborting>> /\ ops' \subseteq ops /\ ~Quiet(a)
        /\ \A i \in Id \ {a} : stage'[i] = stage[i] /\ cargo'[i] = cargo[i]
        /\ stage'[a] \in {"files", "cargo", "exited"} => stage[a] \in {"files", "cargo", "exited"}
    BY Acted, StepType
  <1>2. Active' \subseteq Active
    BY <1>1 DEF Active
  <1>3. ASSUME NEW j \in Id, Quiet(j) PROVE Quiet(j)'
    BY <1>1, <1>2, <1>3 DEF Quiet, OpsOf
  <1> QED
    BY <1>1, <1>2, <1>3 DEF Succession

\* All files of a new request, and its manifest, are still to come.
LEMMA BeginSources ==
    ASSUME FilesType, NEW r \in Request, BeginRequest(r)
    PROVE  SourcesComing'
  <1>1. PICK n : n = Len(req')
    OBVIOUS
  <1>2. req'[n] = r /\ FileOps(n, r) \subseteq ops'
    BY <1>1, BegunLast
  <1>3. ASSUME NEW p \in OwnPaths(n)' PROVE Pending(n, p)'
    <2>1. p \in Candidates \cup DOMAIN FilesOf(r)
      BY <1>2 DEF OwnPaths, FilesOf, PrimaryPath
    <2>2. <<n, "write", p>> \in FileOps(n, r) \/ <<n, "delete", p>> \in FileOps(n, r)
      BY <2>1 DEF FileOps, DeleteRequests, WriteRequests
    <2> QED
      BY <1>2, <2>2 DEF Pending
  <1>4. <<n, "manifest", "Cargo.toml">> \in ops'
    BY <1>2 DEF FileOps
  <1> QED
    BY <1>1, <1>3, <1>4 DEF SourcesComing, FileComing, ManifestComing

\* A step while request i is the last is its own or that of a stray.
LEMMA StrayOrOwn ==
    ASSUME FilesType, Succession, NEW a \in Id, Step(a), NEW i \in Id, i = Len(req)
    PROVE  a = i \/ a \in strays[i]
  <1>1. ~Quiet(a)
    BY Acted
  <1>2. a = i \/ a < i
    BY Numbers
  <1> QED
    BY <1>1, <1>2 DEF Succession

\* The parts of the definitions that depend on req only.
LEMMA SameRequest ==
    ASSUME req' = req, NEW i, NEW p
    PROVE  /\ OwnFile(i, p)' = OwnFile(i, p) /\ OwnPaths(i)' = OwnPaths(i)
           /\ ModifyCargoToml(req[i], Original)' = ModifyCargoToml(req[i], Original)
           /\ FilesOf(req[i])' = FilesOf(req[i]) /\ HalfManifest' = HalfManifest
           /\ ExecuteCargoRequest(req[i])' = ExecuteCargoRequest(req[i])
  <1>1. FilesOf(req[i])' = FilesOf(req[i])
    OBVIOUS
  <1>2. ModifyCargoToml(req[i], Original)' = ModifyCargoToml(req[i], Original)
    OBVIOUS
  <1>3. ExecuteCargoRequest(req[i])' = ExecuteCargoRequest(req[i])
    OBVIOUS
  <1>4. HalfManifest' = HalfManifest
    OBVIOUS
  <1>5. OwnFile(i, p)' = OwnFile(i, p)
    BY <1>1 DEF OwnFile
  <1>6. OwnPaths(i)' = OwnPaths(i)
    BY <1>1 DEF OwnPaths
  <1> QED
    BY <1>1, <1>2, <1>3, <1>4, <1>5, <1>6

\* As long as a file and the operations of request i are left alone, it is so.
LEMMA FileKept ==
    ASSUME NEW i, NEW p, FileComing(i, p), UNCHANGED <<req, strays>>, sources'[p] = sources[p],
           \A op \in ops : op[1] = i /\ op[3] = p => op \in ops'
    PROVE  FileComing(i, p)'
  <1>1. Pending(i, p) => Pending(i, p)'
    BY DEF Pending
  <1>2. OwnFile(i, p)' = OwnFile(i, p)
    BY SameRequest
  <1>3. ASSUME NEW j \in strays[i], FileBy(j, p) PROVE FileBy(j, p)'
    <2>1. OwnFile(j, p)' = OwnFile(j, p)
      BY SameRequest
    <2> QED
      BY <1>3, <2>1 DEF FileBy
  <1> QED
    BY <1>1, <1>2, <1>3 DEF FileComing

\* Likewise for the manifest.
LEMMA ManifestKept ==
    ASSUME NEW i, ManifestComing(i), UNCHANGED <<req, strays, manifest>>,
           \A op \in ops : op[1] = i /\ op[2] = "manifest" => op \in ops'
    PROVE  ManifestComing(i)'
  BY SameRequest DEF ManifestComing

\* An operation that succeeds makes a file what its request says it is.
LEMMA FileDone ==
    ASSUME FilesType, NEW op \in ops, FileOpDone(op)
    PROVE  /\ op[2] = "manifest" => /\ manifest' = ModifyCargoToml(req[op[1]], Original)
                                    /\ UNCHANGED sources
           /\ op[2] # "manifest" => /\ op[3] \in Path
                                    /\ sources'[op[3]] = OwnFile(op[1], op[3])
                                    /\ \A p \in Path \ {op[3]} : sources'[p] = sources[p]
                                    /\ UNCHANGED manifest
           /\ ops' = ops \ {op} /\ UNCHANGED <<req, strays, stage>>
  <1>1. PICK i : i = op[1]
    OBVIOUS
  <1>2. /\ \/ op = <<i, "delete", op[3]>> /\ op[3] \in DeleteRequests(req[i])
           \/ op = <<i, "write", op[3]>> /\ op[3] \in WriteRequests(req[i])
           \/ op = <<i, "manifest", "Cargo.toml">>
        /\ op[2] # "manifest" => op[3] \in Path
    BY <1>1, Operation
  <1>3. CASE op[2] = "manifest"
    BY <1>1, <1>3 DEF FileOpDone, ModifyFor
  <1>4. CASE op[2] = "write"
    BY <1>1, <1>2, <1>4 DEF FileOpDone, WriteRequests, OwnFile, FilesType
  <1>5. CASE op[2] = "delete"
    BY <1>1, <1>2, <1>5 DEF FileOpDone, DeleteRequests, OwnFile, FilesType
  <1> QED
    BY <1>2, <1>3, <1>4, <1>5

\* One that fails leaves everything, or half a file, or half a manifest.
LEMMA FileFailed ==
    ASSUME FilesType, NEW op \in ops, FileOpFails(op)
    PROVE  /\ \/ UNCHANGED <<sources, manifest>>
              \/ /\ sources'[op[3]][2] = "torn" /\ UNCHANGED manifest
                 /\ \A p \in Path \ {op[3]} : sources'[p] = sources[p]
              \/ manifest' = HalfManifest /\ UNCHANGED sources
           /\ stage[op[1]] = "files" => stage'[op[1]] = "failed"
  <1>1. op[1] \in Id /\ (op[2] = "write" => op[3] \in Path)
    BY Operation
  <1> QED
    BY <1>1 DEF FileOpFails, FilesType

\* The files of the last request keep coming, whoever takes a step.
LEMMA StepSources ==
    ASSUME FilesType, Stages, Succession, SourcesComing, NEW a \in Id, Step(a)
    PROVE  SourcesComing'
  <1>1. /\ Id' = Id /\ UNCHANGED <<req, strays>>
        /\ \A op \in ops : op[1] # a => op \in ops'
        /\ \A i \in Id \ {a} : stage'[i] = stage[i]
    BY Acted, StepType
  <1> SUFFICES ASSUME NEW i \in Id, i = Len(req), stage'[i] \in {"files", "cargo"}
               PROVE  ManifestComing(i)' /\ \A p \in OwnPaths(i) : FileComing(i, p)'
    <2>1. OwnPaths(Len(req))' = OwnPaths(Len(req))
      BY <1>1, SameRequest
    <2> QED
      BY <1>1, <2>1 DEF SourcesComing
  <1>2. a = i \/ a \in strays[i]
    BY StrayOrOwn
  <1>3. req[i] \in Request /\ OwnPaths(i) \subseteq Path
    BY DEF FilesType, Id, OwnPaths, Path
  <1>4. ASSUME stage[i] \in {"files", "cargo"}
        PROVE  ManifestComing(i) /\ \A p \in OwnPaths(i) : FileComing(i, p)
    BY <1>4 DEF SourcesComing
  <1>5. ASSUME stage[i] \in {"files", "cargo"}, UNCHANGED <<sources, manifest>>,
               \A op \in ops : op[1] = i => op \in ops'
        PROVE  ManifestComing(i)' /\ \A p \in OwnPaths(i) : FileComing(i, p)'
    BY <1>1, <1>4, <1>5, FileKept, ManifestKept
  <1>6. CASE DropRequest(a) \/ StartCargo(a) \/ ReturnResponse(a) \/ KillCargo(a) \/ OrphanEnds(a)
    <2>1. UNCHANGED <<sources, manifest>>
      BY <1>6 DEF DropRequest, StartCargo, ReturnResponse, KillCargo, OrphanEnds, diskVars
    <2>2. stage[i] \in {"files", "cargo"} /\ \A op \in ops : op[1] = i => op \in ops'
      BY <1>1, <1>6 DEF DropRequest, StartCargo, ReturnResponse, KillCargo, OrphanEnds, Forsake,
         FilesType
    <2> QED
      BY <1>5, <2>1, <2>2
  <1>7. ASSUME NEW q \in Path \cup {"compilation"}, ReadBack(a, q)
        PROVE  ManifestComing(i)' /\ \A p \in OwnPaths(i) : FileComing(i, p)'
    <2>1. UNCHANGED <<sources, manifest, ops>>
      BY <1>7 DEF ReadBack, diskVars
    <2>2. stage[i] \in {"files", "cargo"}
      BY <1>1, <1>7 DEF ReadBack, FilesType
    <2> QED
      BY <1>5, <2>1, <2>2
  <1>8. ASSUME NEW op \in ops, op[1] = a, FileOpDone(op)
        PROVE  ManifestComing(i)' /\ \A p \in OwnPaths(i) : FileComing(i, p)'
    <2>1. /\ op[2] = "manifest" => /\ manifest' = ModifyCargoToml(req[a], Original)
                                   /\ UNCHANGED sources
          /\ op[2] # "manifest" => /\ sources'[op[3]] = OwnFile(a, op[3])
                                   /\ \A p \in Path \ {op[3]} : sources'[p] = sources[p]
                                   /\ UNCHANGED manifest
          /\ ops' = ops \ {op} /\ UNCHANGED stage
      BY <1>8, FileDone
    <2>2. ManifestComing(i) /\ \A p \in OwnPaths(i) : FileComing(i, p)
      BY <1>4, <2>1
    <2>3. CASE op[2] = "manifest"
      <3>1. ManifestComing(i)'
        BY <1>1, <1>2, <2>1, <2>3, SameRequest DEF ManifestComing
      <3>2. op = <<a, "manifest", "Cargo.toml">>
        BY <1>8, <2>3, Operation
      <3>3. ASSUME NEW p \in OwnPaths(i) PROVE FileComing(i, p)'
        <4>1. Pending(i, p) => Pending(i, p)'
          BY <2>1, <3>2 DEF Pending
        <4>2. OwnFile(i, p)' = OwnFile(i, p) /\ \A j : OwnFile(j, p)' = OwnFile(j, p)
          BY <1>1, SameRequest
        <4> QED
          BY <1>1, <2>1, <2>2, <2>3, <4>1, <4>2 DEF FileComing, FileBy
      <3> QED
        BY <3>1, <3>3
    <2>4. CASE op[2] # "manifest"
      <3>1. ManifestComing(i)'
        BY <1>1, <2>1, <2>2, <2>4, ManifestKept
      <3>2. ASSUME NEW p \in OwnPaths(i), p # op[3] PROVE FileComing(i, p)'
        BY <1>1, <1>3, <2>1, <2>2, <2>4, <3>2, FileKept
      <3>3. ASSUME NEW p, p = op[3] PROVE FileComing(i, p)'
        <4>1. sources'[p] = OwnFile(a, p)'
          BY <1>1, <2>1, <2>4, <3>3, SameRequest
        <4> QED
          BY <1>1, <1>2, <4>1 DEF FileComing, FileBy
      <3> QED
        BY <3>1, <3>2, <3>3
    <2> QED
      BY <2>3, <2>4
  <1>9. ASSUME NEW op \in ops, op[1] = a, FileOpFails(op)
        PROVE  ManifestComing(i)' /\ \A p \in OwnPaths(i) : FileComing(i, p)'
    <2>1. /\ \/ UNCHANGED <<sources, manifest>>
             \/ /\ sources'[op[3]][2] = "torn" /\ UNCHANGED manifest
                /\ \A p \in Path \ {op[3]} : sources'[p] = sources[p]
             \/ manifest' = HalfManifest /\ UNCHANGED sources
          /\ stage[a] = "files" => stage'[a] = "failed"
      BY <1>9, FileFailed
    <2>2. a # i
      <3> SUFFICES ASSUME a = i PROVE FALSE
        OBVIOUS
      <3>1. stage'[i] \in {stage[i], "failed"}
        BY <1>9 DEF FileOpFails, FilesType
      <3>2. stage[i] = "cargo"
        BY <2>1, <3>1
      <3> QED
        BY <1>9, <3>2 DEF Stages, OpsOf
    <2>3. a \in strays[i] /\ stage[i] \in {"files", "cargo"} /\ \A o \in ops : o[1] = i => o \in ops'
      BY <1>1, <1>2, <2>2
    <2>4. ManifestComing(i) /\ \A p \in OwnPaths(i) : FileComing(i, p)
      BY <1>4, <2>3
    <2>5. ManifestComing(i)'
      <3>1. CASE UNCHANGED manifest
        BY <1>1, <2>3, <2>4, <3>1, ManifestKept
      <3>2. CASE manifest' = HalfManifest
        BY <1>1, <2>3, <3>2 DEF ManifestComing
      <3> QED
        BY <2>1, <3>1, <3>2
    <2>6. ASSUME NEW p \in OwnPaths(i) PROVE FileComing(i, p)'
      <3>1. CASE sources'[p] = sources[p]
        BY <1>1, <2>3, <2>4, <3>1, FileKept
      <3>2. CASE sources'[p][2] = "torn"
        BY <1>1, <2>3, <3>2 DEF FileComing, FileBy
      <3> QED
        BY <1>3, <2>1, <3>1, <3>2
    <2> QED
      BY <2>5, <2>6
  <1>10. CASE CargoRuns(a) \/ OrphanWrites(a)
    <2>1. UNCHANGED ops /\ \E ok \in BOOLEAN : Effects(a, ok)
      BY <1>10 DEF CargoRuns, OrphanWrites
    <2>2. a # i
      BY <1>10 DEF CargoRuns, OrphanWrites, Stages, FilesType
    <2>3. a \in strays[i] /\ stage[i] \in {"files", "cargo"}
      BY <1>1, <1>2, <2>2
    <2>4. /\ manifest' \in {manifest, HalfManifest}
          /\ \A p \in Path : \/ sources'[p] = sources[p]
                             \/ sources'[p][2] = "fmt" \/ sources'[p][1] = "junk"
      BY <2>1, EffectsOnDisk
    <2>5. ManifestComing(i)'
      <3>1. CASE UNCHANGED manifest
        BY <1>1, <1>4, <2>1, <2>3, <3>1, ManifestKept
      <3>2. CASE manifest' = HalfManifest
        BY <1>1, <2>3, <3>2 DEF ManifestComing
      <3> QED
        BY <2>4, <3>1, <3>2
    <2>6. ASSUME NEW p \in OwnPaths(i) PROVE FileComing(i, p)'
      <3>1. CASE sources'[p] = sources[p]
        BY <1>1, <1>4, <2>1, <2>3, <3>1, FileKept
      <3>2. CASE sources'[p][2] = "fmt" \/ sources'[p][1] = "junk"
        BY <1>1, <2>3, <3>2 DEF FileComing, FileBy
      <3> QED
        BY <1>3, <2>4, <3>1, <3>2
    <2> QED
      BY <2>5, <2>6
  <1> QED
    BY <1>6, <1>7, <1>8, <1>9, <1>10 DEF Step

\* The modules in target/ stay explained.
LEMMA BeginModules ==
    ASSUME FilesType, ModulesLeft, NEW r \in Request, BeginRequest(r)
    PROVE  ModulesLeft'
  <1>1. UNCHANGED modules
    BY DEF BeginRequest, diskVars
  <1>2. ASSUME NEW j \in Id PROVE j \in Id' /\ req'[j] = req[j]
    BY BegunOthers
  <1>3. ASSUME NEW l \in Places, modules[l] # <<>>
        PROVE  \E j \in Id' : LeavesModule(req'[j], l)
    BY <1>2, <1>3 DEF ModulesLeft
  <1> QED
    BY <1>1, <1>3 DEF ModulesLeft

LEMMA StepModules ==
    ASSUME FilesType, ModulesLeft, NEW a \in Id, Step(a)
    PROVE  ModulesLeft'
  <1>1. Id' = Id /\ UNCHANGED req
    BY Acted, StepType
  <1>2. CASE CargoRuns(a) \/ OrphanWrites(a)
    <2>1. \E ok \in BOOLEAN : Effects(a, ok)
      BY <1>2 DEF CargoRuns, OrphanWrites
    <2>2. \A l \in Places : modules'[l] = modules[l] \/ LeavesModule(req[a], l)
      BY <2>1, EffectsOnDisk
    <2>3. ASSUME NEW l \in Places, modules'[l] # <<>> PROVE \E j \in Id : LeavesModule(req[j], l)
      BY <2>2, <2>3 DEF ModulesLeft
    <2> QED
      BY <1>1, <2>3 DEF ModulesLeft
  <1>3. CASE UNCHANGED modules
    BY <1>1, <1>3 DEF ModulesLeft
  <1> QED
    BY <1>2, <1>3 DEF Step, DropRequest, StartCargo, ReturnResponse, KillCargo, OrphanEnds,
       ReadBack, FileOpDone, FileOpFails, diskVars

\* What was made for a request stays so.
LEMMA MadeKept ==
    ASSUME req' = req, NEW i, NEW c
    PROVE  Made(i, c)' <=> Made(i, c)
  <1>1. OwnPaths(i)' = OwnPaths(i) /\ \A p : OwnFile(i, p)' = OwnFile(i, p)
    BY SameRequest
  <1>2. /\ ModifyCargoToml(req[i], Original)' = ModifyCargoToml(req[i], Original)
        /\ ExecuteCargoRequest(req[i])' = ExecuteCargoRequest(req[i])
    BY SameRequest
  <1> QED
    BY <1>1, <1>2 DEF Made

\* The cargo of a new request is not over.
LEMMA BeginOutcome ==
    ASSUME FilesType, NEW r \in Request, BeginRequest(r)
    PROVE  OutcomeOwn'
  <1>1. stage'[Len(req')] = "files"
    BY Begun
  <1> QED
    BY <1>1 DEF OutcomeOwn

\* The last request, without strays, comes to the end of its cargo by its own
\* cargo, with all its files in place; after it nothing but its own reads follows,
\* and what a program left running.
LEMMA OwnEnd ==
    ASSUME FilesType, Stages, Succession, NEW a \in Id, Step(a),
           NEW i \in Id, i = Len(req), stage'[i] = "exited", strays[i] = {}
    PROVE  \/ CargoRuns(i) /\ stage[i] = "cargo"
           \/ \E q \in Path \cup {"compilation"} : ReadBack(i, q)
           \/ RunsCode(req[i])
  <1>1. a = i
    BY StrayOrOwn
  <1>2. CASE DropRequest(i) \/ StartCargo(i) \/ ReturnResponse(i) \/ KillCargo(i)
    BY <1>2 DEF DropRequest, StartCargo, ReturnResponse, KillCargo, Forsake, FilesType
  <1>3. CASE CargoRuns(i)
    <2>1. cargo[i] = "running" /\ (stage[i] = "cargo" \/ stage' = stage)
      BY <1>3 DEF CargoRuns
    <2> QED
      BY <1>3, <2>1 DEF Stages
  <1>4. ASSUME NEW op \in ops, op[1] = i, FileOpDone(op) \/ FileOpFails(op) PROVE FALSE
    <2>1. stage'[i] \in {stage[i], "failed"}
      BY <1>4 DEF FileOpDone, FileOpFails, FilesType
    <2> QED
      BY <1>4, <2>1 DEF Stages, OpsOf
  <1>5. CASE OrphanWrites(i) \/ OrphanEnds(i)
    BY <1>5 DEF OrphanWrites, OrphanEnds, Stages
  <1> QED
    BY <1>1, <1>2, <1>3, <1>4, <1>5 DEF Step

\* Then the manifest and the files are those of the request.
LEMMA OwnDisk ==
    ASSUME FilesType, Stages, SourcesComing, NEW i \in Id, i = Len(req), stage[i] = "cargo",
           strays[i] = {}
    PROVE  /\ manifest = ModifyCargoToml(req[i], Original)
           /\ \A p \in OwnPaths(i) : sources[p] = OwnFile(i, p)
  <1>1. ManifestComing(i) /\ \A p \in OwnPaths(i) : FileComing(i, p)
    BY DEF SourcesComing
  <1>2. \A op \in ops : op[1] # i
    BY DEF Stages, OpsOf
  <1>3. manifest = ModifyCargoToml(req[i], Original)
    BY <1>1, <1>2 DEF ManifestComing
  <1>4. ASSUME NEW p \in OwnPaths(i) PROVE sources[p] = OwnFile(i, p)
    BY <1>1, <1>2 DEF FileComing, Pending
  <1> QED
    BY <1>3, <1>4

\* A compile that succeeds and can take no other module has written its own output.
LEMMA CompileOutcome ==
    ASSUME FilesType, ModulesLeft, \A r \in Request : r.mode \in {"debug", "release"},
           NEW i \in Id, i = Len(req), req[i].kind = "compile", ~MayTakeAnother(i),
           Effects(i, TRUE)
    PROVE  compilation' = <<MadeNow(i)>>
  <1>1. ~RunsCode(req[i])
    BY DEF RunsCode
  <1>2. IF req[i].target = "wasm" THEN CargoWasm(i, TRUE) ELSE CargoRustc(i, TRUE)
    BY <1>1 DEF Effects
  <1>3. CASE req[i].target # "wasm"
    BY <1>2, <1>3 DEF CargoRustc
  <1>4. CASE req[i].target = "wasm"
    <2>1. PICK m : m = req[i].mode /\ m \in Places
      BY DEF FilesType, Id, Places
    <2>2. PICK made : made = <<MadeNow(i)>>
      OBVIOUS
    <2>3. MakesModule(req[i]) /\ \A j \in Id, l \in Places : j < i /\ l # m => ~LeavesModule(req[j], l)
      BY <1>4, <2>1 DEF MayTakeAnother, ForWasm
    <2>4. modules' = [modules EXCEPT ![m] = made]
      BY <1>2, <1>4, <2>1, <2>2, <2>3 DEF CargoWasm
    <2>5. modules'[m] = made /\ made # <<>>
      BY <2>1, <2>2, <2>4 DEF FilesType
    <2>6. ASSUME NEW l \in Places, l # m PROVE modules'[l] = <<>>
      <3>1. modules'[l] = modules[l]
        BY <2>4, <2>6 DEF FilesType
      <3>2. ASSUME NEW j \in Id PROVE ~LeavesModule(req[j], l)
        <4>1. j < i \/ j = i
          BY Numbers
        <4> QED
          BY <1>1, <2>1, <2>3, <2>6, <4>1 DEF LeavesModule
      <3> QED
        BY <3>1, <3>2 DEF ModulesLeft
    <2>7. PICK last \in Places : modules'[last] # <<>> /\ compilation' = modules'[last]
      <3>1. {l \in Places : modules'[l] # <<>>} # {}
        BY <2>1, <2>5
      <3> QED
        BY <1>2, <1>4, <3>1 DEF CargoWasm
    <2> QED
      BY <2>2, <2>5, <2>6, <2>7
  <1> QED
    BY <1>3, <1>4

\* What cargo leaves is made from the files of the request, and formatted if it
\* succeeds in that.
LEMMA CargoOutcome ==
    ASSUME FilesType, Stages, SourcesComing, ModulesLeft,
           \A r \in Request : r.mode \in {"debug", "release"},
           NEW i \in Id, i = Len(req), stage[i] = "cargo", strays[i] = {}, CargoRuns(i)
    PROVE  /\ response'[i] = {}
           /\ req[i].kind = "compile" /\ cargoSuccess'[i] /\ ~MayTakeAnother(i) =>
                compilation' # <<>> /\ Made(i, compilation'[1])
           /\ req[i].kind = "format" => \A p \in DOMAIN FilesOf(req[i]) :
                /\ sources'[p][1] = FilesOf(req[i])[p]
                /\ sources'[p][2] = "fmt" \/ (~cargoSuccess'[i] /\ sources'[p][2] = "raw")
  <1>1. /\ manifest = ModifyCargoToml(req[i], Original)
        /\ \A p \in OwnPaths(i) : sources[p] = OwnFile(i, p)
    BY OwnDisk
  <1>2. response'[i] = {}
    BY DEF CargoRuns, Stages
  <1>3. PICK ok \in BOOLEAN : cargoSuccess' = [cargoSuccess EXCEPT ![i] = ok] /\ Effects(i, ok)
    BY DEF CargoRuns
  <1>4. cargoSuccess'[i] = ok
    BY <1>3 DEF FilesType
  <1>5. ASSUME req[i].kind = "compile", ok, ~MayTakeAnother(i)
        PROVE  compilation' # <<>> /\ Made(i, compilation'[1])
    <2>0. Effects(i, TRUE)
      BY <1>3, <1>5
    <2>1. compilation' = <<MadeNow(i)>>
      BY <1>5, <2>0, CompileOutcome
    <2>2. PICK command : command = ExecuteCargoRequest(req[i])
      OBVIOUS
    <2>3. compilation' = <<[from |-> sources, manifest |-> manifest, command |-> command]>>
      BY <2>1, <2>2 DEF MadeNow
    <2> QED
      BY <1>1, <2>2, <2>3 DEF Made
  <1>6. ASSUME req[i].kind = "format", NEW p \in DOMAIN FilesOf(req[i])
        PROVE  /\ sources'[p][1] = FilesOf(req[i])[p]
               /\ sources'[p][2] = "fmt" \/ (~ok /\ sources'[p][2] = "raw")
    <2>1. req[i] \in Request
      BY DEF FilesType, Id
    <2>2. p \in Path
      BY <1>6, <2>1 DEF Path
    <2>3. sources[p] = <<FilesOf(req[i])[p], "raw">>
      BY <1>1, <1>6 DEF OwnPaths, OwnFile, Written
    <2>4. CargoFmt(ok)
      BY <1>3, <1>6 DEF Effects, RunsCode
    <2>5. PICK skipped \in SUBSET (IF ok THEN {} ELSE Path) :
            sources' = [f \in Path |-> IF sources[f][2] = "raw" /\ f \notin skipped
                                         THEN <<sources[f][1], "fmt">> ELSE sources[f]]
      BY <2>4 DEF CargoFmt
    <2> QED
      BY <2>2, <2>3, <2>5
  <1> QED
    BY <1>2, <1>4, <1>5, <1>6

\* An answer to a read adds what the file holds, which is the request's own.
LEMMA ReadOutcome ==
    ASSUME FilesType, OutcomeOwn, "compilation" \notin Path, NEW i \in Id, i = Len(req),
           strays[i] = {}, NEW q, ReadBack(i, q), stage'[i] = "exited"
    PROVE  /\ UNCHANGED <<req, cargoSuccess, sources, compilation>> /\ stage[i] = "exited"
           /\ req[i].kind = "compile" => cargoSuccess[i]
           /\ req[i].kind = "compile" /\ ~MayTakeAnother(i) =>
                \A x \in response'[i] : Made(i, x[2])
           /\ req[i].kind = "format" => \A x \in response'[i] : Shown(i, x[1], x[2])
  <1>1. UNCHANGED <<req, cargoSuccess, sources, compilation>> /\ stage[i] = "exited"
    BY DEF ReadBack, diskVars
  <1>2. ASSUME req[i].kind = "compile"
        PROVE  cargoSuccess[i] /\ (~MayTakeAnother(i) => \A x \in response'[i] : Made(i, x[2]))
    <2>1. cargoSuccess[i] /\ q = "compilation"
      BY <1>2 DEF ReadBack, ReadsBack
    <2> SUFFICES ASSUME ~MayTakeAnother(i) PROVE \A x \in response'[i] : Made(i, x[2])
      BY <2>1
    <2>2. Made(i, compilation[1]) /\ \A x \in response[i] : Made(i, x[2])
      BY <1>1, <1>2, <2>1 DEF OutcomeOwn
    <2>3. PICK c, post : c = compilation[1] /\ post = PostprocessResult(req[i])
      OBVIOUS
    <2>4. compilation # <<>>
      BY <2>1 DEF ReadBack, FilesType
    <2>5. response' = [response EXCEPT ![i] = @ \cup {<<q, c, post>>}]
      BY <2>1, <2>3, <2>4 DEF ReadBack
    <2>6. response'[i] = response[i] \cup {<<q, c, post>>}
      BY <2>5 DEF FilesType
    <2>7. Made(i, c)
      BY <2>2, <2>3
    <2>8. ASSUME NEW x \in response'[i] PROVE Made(i, x[2])
      <3>1. x \in response[i] \/ x[2] = c
        BY <2>6
      <3> QED
        BY <2>2, <2>7, <3>1
    <2> QED
      BY <2>8
  <1>3. ASSUME req[i].kind = "format"
        PROVE  \A x \in response'[i] : Shown(i, x[1], x[2])
    <2>1. q \in DOMAIN FilesOf(req[i])
      BY <1>3 DEF ReadBack, ReadsBack
    <2>2. req[i] \in Request
      BY DEF FilesType, Id
    <2>3. q # "compilation"
      BY <2>1, <2>2 DEF Path
    <2>4. Shown(i, q, sources[q]) /\ \A x \in response[i] : Shown(i, x[1], x[2])
      BY <1>1, <1>3, <2>1 DEF OutcomeOwn
    <2>5. PICK s : s = sources[q]
      OBVIOUS
    <2>6. response' = [response EXCEPT ![i] = @ \cup {<<q, s>>}]
      BY <2>3, <2>5 DEF ReadBack, FilesType
    <2>7. response'[i] = response[i] \cup {<<q, s>>}
      BY <2>6 DEF FilesType
    <2>8. ASSUME NEW x \in response'[i] PROVE Shown(i, x[1], x[2])
      <3>1. x \in response[i] \/ (x[1] = q /\ x[2] = s)
        BY <2>7
      <3> QED
        BY <2>4, <2>5, <3>1
    <2> QED
      BY <2>8
  <1> QED
    BY <1>1, <1>2, <1>3

\* So what a request without strays has read, and is to read, is its own.
LEMMA StepOutcome ==
    ASSUME FilesType, Stages, Succession, SourcesComing, ModulesLeft, OutcomeOwn,
           "compilation" \notin Path, \A r \in Request : r.mode \in {"debug", "release"},
           NEW a \in Id, Step(a)
    PROVE  OutcomeOwn'
  <1>1. Id' = Id /\ UNCHANGED <<req, strays>>
    BY Acted, StepType
  <1> DEFINE Outcome(i) ==
        /\ req[i].kind = "compile" /\ ~cargoSuccess'[i] => response'[i] = {}
        /\ req[i].kind = "compile" /\ cargoSuccess'[i] /\ ~MayTakeAnother(i) =>
             /\ compilation' # <<>> /\ Made(i, compilation'[1])
             /\ \A x \in response'[i] : Made(i, x[2])
        /\ req[i].kind = "format" =>
             /\ \A p \in DOMAIN FilesOf(req[i]) : Shown(i, p, sources[p])'
             /\ \A x \in response'[i] : Shown(i, x[1], x[2])'
  <1>2. ASSUME NEW i PROVE MayTakeAnother(i)' <=> MayTakeAnother(i)
    BY <1>1 DEF MayTakeAnother
  <1>3. ASSUME NEW i PROVE Made(i, compilation[1])' <=> Made(i, compilation'[1])
    BY <1>1, SameRequest DEF Made
  <1>4. ASSUME NEW i, NEW x PROVE Made(i, x[2])' <=> Made(i, x[2])
    BY <1>1, MadeKept
  <1> SUFFICES ASSUME NEW i \in Id, i = Len(req), stage'[i] = "exited", strays[i] = {}
               PROVE  Outcome(i)
    <2> HIDE DEF Made, Shown, MayTakeAnother
    <2> QED
      BY <1>1, <1>2, <1>3, <1>4 DEF OutcomeOwn
  <1>5. CASE CargoRuns(i) /\ stage[i] = "cargo"
    <2>1. /\ response'[i] = {}
          /\ req[i].kind = "compile" /\ cargoSuccess'[i] /\ ~MayTakeAnother(i) =>
               compilation' # <<>> /\ Made(i, compilation'[1])
          /\ req[i].kind = "format" => \A p \in DOMAIN FilesOf(req[i]) :
               /\ sources'[p][1] = FilesOf(req[i])[p]
               /\ sources'[p][2] = "fmt" \/ (~cargoSuccess'[i] /\ sources'[p][2] = "raw")
      BY <1>5, CargoOutcome
    <2>2. req[i].kind = "format" => \A p \in DOMAIN FilesOf(req[i]) : Shown(i, p, sources[p])'
      BY <1>1, <2>1 DEF Shown
    <2> QED
      BY <2>1, <2>2
  <1>6. ASSUME NEW q, ReadBack(i, q) PROVE Outcome(i)
    <2>1. /\ UNCHANGED <<req, cargoSuccess, sources, compilation>> /\ stage[i] = "exited"
          /\ req[i].kind = "compile" => cargoSuccess[i]
          /\ req[i].kind = "compile" /\ ~MayTakeAnother(i) =>
               \A x \in response'[i] : Made(i, x[2])
          /\ req[i].kind = "format" => \A x \in response'[i] : Shown(i, x[1], x[2])
      BY <1>6, ReadOutcome
    <2>2. ASSUME NEW p, NEW f PROVE Shown(i, p, f)' <=> Shown(i, p, f)
      BY <2>1 DEF Shown
    <2>3. ASSUME NEW p PROVE Shown(i, p, sources[p])' <=> Shown(i, p, sources[p])
      BY <2>1 DEF Shown
    <2>4. req[i].kind = "compile" /\ cargoSuccess'[i] /\ ~MayTakeAnother(i) =>
            compilation' # <<>> /\ Made(i, compilation'[1])
      BY <2>1 DEF OutcomeOwn
    <2>5. req[i].kind = "format" =>
            \A p \in DOMAIN FilesOf(req[i]) : Shown(i, p, sources[p])
      BY <2>1 DEF OutcomeOwn
    <2>6. ASSUME NEW x PROVE Shown(i, x[1], x[2])' <=> Shown(i, x[1], x[2])
      BY <2>1 DEF Shown
    <2> QED
      BY <2>1, <2>3, <2>4, <2>5, <2>6
  <1>7. CASE RunsCode(req[i])
    BY <1>7 DEF RunsCode
  <1> QED
    BY <1>5, <1>6, <1>7, OwnEnd

\* The answer of request i is its own, as Files says.
OwnAnswer(i) ==
    /\ req[i].kind = "compile" /\ ~cargoSuccess[i] => response[i] = {}
    /\ req[i].kind = "compile" /\ cargoSuccess[i] /\ ~MayTakeAnother(i) =>
         \E x \in response[i] : Made(i, x[2])
    /\ req[i].kind = "format" => /\ {x[1] : x \in response[i]} = DOMAIN FilesOf(req[i])
                                 /\ \A x \in response[i] : Shown(i, x[1], x[2])

\* ResponseIsOwn with the names used here.
LEMMA OwnAnswers ==
    ResponseIsOwn <=>
      \A i \in Id : stage[i] = "done" /\ i \notin aborting /\ strays[i] = {} => OwnAnswer(i)
  BY DEF ResponseIsOwn, OwnAnswer, Made, Shown

\* An answer is not touched by what leaves the requests so far and its reads alone.
LEMMA AnswerKept ==
    ASSUME NEW i \in Id, OwnAnswer(i), Id \subseteq Id', \A j \in Id : req'[j] = req[j],
           response'[i] = response[i], cargoSuccess'[i] = cargoSuccess[i]
    PROVE  OwnAnswer(i)'
  <1>1. PICK r : r = req[i]
    OBVIOUS
  <1>2. r = req'[i]
    BY <1>1
  <1>3. \A p : OwnFile(i, p)' = OwnFile(i, p)
    BY <1>1, <1>2 DEF OwnFile
  <1>4. OwnPaths(i)' = OwnPaths(i)
    BY <1>1, <1>2 DEF OwnPaths
  <1>5. \A x : Made(i, x[2])' <=> Made(i, x[2])
    BY <1>1, <1>2, <1>3, <1>4 DEF Made
  <1>6. \A x : Shown(i, x[1], x[2])' <=> Shown(i, x[1], x[2])
    BY <1>1, <1>2 DEF Shown
  <1>7. MayTakeAnother(i) => MayTakeAnother(i)'
    <2> SUFFICES ASSUME MayTakeAnother(i) PROVE MayTakeAnother(i)'
      OBVIOUS
    <2>1. CASE ~MakesModule(req[i])
      BY <1>1, <1>2, <2>1 DEF MayTakeAnother
    <2>2. CASE \E j \in Id, l \in Places : j < i /\ l # req[i].mode /\ LeavesModule(req[j], l)
      <3>1. PICK j \in Id, l \in Places : j < i /\ l # req[i].mode /\ LeavesModule(req[j], l)
        BY <2>2
      <3>2. LeavesModule(req'[j], l)
        BY <3>1
      <3> QED
        BY <1>1, <1>2, <3>1, <3>2 DEF MayTakeAnother
    <2> QED
      BY <2>1, <2>2 DEF MayTakeAnother
  <1> QED
    BY <1>1, <1>2, <1>5, <1>6, <1>7 DEF OwnAnswer

\* A new request leaves the answers of the others alone.
LEMMA BeginResponse ==
    ASSUME FilesType, ResponseIsOwn, NEW r \in Request, BeginRequest(r)
    PROVE  ResponseIsOwn'
  <1>1. PICK n : n = Len(req) + 1
    OBVIOUS
  <1>2. n \in Nat /\ Id' = 1 .. n /\ Id = 1 .. n - 1 /\ \A i \in Id : req'[i] = req[i]
    BY <1>1, Begun
  <1>2a. /\ stage' = [i \in 1 .. n |-> IF i = n THEN "files" ELSE stage[i]]
         /\ response' = [i \in 1 .. n |-> IF i = n THEN {} ELSE response[i]]
         /\ strays' = [i \in 1 .. n |-> IF i = n THEN Restless ELSE strays[i]]
    BY <1>1, Begun
  <1>3. cargoSuccess' = [i \in 1 .. n |-> IF i = n THEN FALSE ELSE cargoSuccess[i]]
    BY <1>1, BegunSuccess
  <1>4. aborting \subseteq aborting'
    BY DEF BeginRequest
  <1>5. ASSUME NEW i \in Id', stage'[i] = "done", i \notin aborting', strays'[i] = {}
        PROVE  OwnAnswer(i)'
    <2>1. i \in Id /\ i # n
      BY <1>2, <1>2a, <1>5
    <2>2. /\ stage[i] = "done" /\ i \notin aborting /\ strays[i] = {}
          /\ response'[i] = response[i]
      BY <1>2, <1>2a, <1>4, <1>5, <2>1
    <2>3. cargoSuccess'[i] = cargoSuccess[i]
      BY <1>2, <1>3, <1>5, <2>1, Zenon
    <2>4. OwnAnswer(i)
      BY <2>1, <2>2, OwnAnswers
    <2>5. Id \subseteq Id'
      BY <1>2
    <2> QED
      BY <1>2, <2>1, <2>2, <2>3, <2>4, <2>5, AnswerKept
  <1> QED
    BY <1>5 DEF ResponseIsOwn, OwnAnswer, Made, Shown

\* A request answers once it has read everything, when its outcome is its own,
\* and nothing is added to its answer after that.
LEMMA StepResponse ==
    ASSUME FilesType, Stages, Succession, OutcomeOwn, ResponseIsOwn, NEW a \in Id, Step(a)
    PROVE  ResponseIsOwn'
  <1>1. /\ Id' = Id /\ UNCHANGED <<req, strays, aborting>> /\ ~Quiet(a)
        /\ \A i \in Id \ {a} : stage'[i] = stage[i]
        /\ \A i \in Id \ {a} : response'[i] = response[i]
        /\ \A i \in Id \ {a} : cargoSuccess'[i] = cargoSuccess[i]
    BY Acted, StepType
  <1> SUFFICES ASSUME NEW i \in Id, stage'[i] = "done", i \notin aborting, strays[i] = {}
               PROVE  OwnAnswer(i)'
    BY <1>1 DEF ResponseIsOwn, OwnAnswer, Made, Shown
  <1>2. ASSUME stage[i] = "done", response'[i] = response[i], cargoSuccess'[i] = cargoSuccess[i]
        PROVE  OwnAnswer(i)'
    <2>1. OwnAnswer(i)
      BY <1>2, OwnAnswers
    <2> QED
      BY <1>1, <1>2, <2>1, AnswerKept
  <1>3. CASE a # i
    BY <1>1, <1>2, <1>3
  <1>4. CASE a = i
    <2>1. CASE OrphanWrites(i) \/ OrphanEnds(i)
      BY <1>2, <2>1 DEF OrphanWrites, OrphanEnds
    <2>2. CASE DropRequest(i) \/ StartCargo(i) \/ KillCargo(i)
      BY <2>2 DEF DropRequest, StartCargo, KillCargo, Forsake, FilesType
    <2>3. CASE CargoRuns(i)
      <3>1. cargo[i] = "running" /\ stage'[i] \in {stage[i], "exited"}
        BY <2>3 DEF CargoRuns, FilesType
      <3> QED
        BY <3>1 DEF Stages
    <2>4. ASSUME NEW q \in Path \cup {"compilation"}, ReadBack(i, q) PROVE FALSE
      BY <2>4 DEF ReadBack, FilesType
    <2>5. ASSUME NEW op \in ops, op[1] = i, FileOpDone(op) \/ FileOpFails(op) PROVE FALSE
      <3>1. stage'[i] \in {stage[i], "failed"}
        BY <2>5 DEF FileOpDone, FileOpFails, FilesType
      <3> QED
        BY <2>5, <3>1 DEF Stages, OpsOf
    <2>6. CASE ReturnResponse(i)
      <3>1. /\ UNCHANGED <<req, response, cargoSuccess>> /\ stage[i] = "exited"
            /\ {x[1] : x \in response[i]} = ReadsBack(i)
        BY <2>6 DEF ReturnResponse
      <3>2. i = Len(req)
        BY <3>1 DEF Succession, Active
      <3>3. OwnAnswer(i)
        <4>1. CASE req[i].kind = "compile"
          <5>1. /\ ~cargoSuccess[i] => response[i] = {}
                /\ cargoSuccess[i] /\ ~MayTakeAnother(i) => \A x \in response[i] : Made(i, x[2])
            BY <3>1, <3>2, <4>1 DEF OutcomeOwn
          <5>2. cargoSuccess[i] => \E x \in response[i] : x[1] = "compilation"
            BY <3>1, <4>1 DEF ReadsBack
          <5> QED
            BY <4>1, <5>1, <5>2 DEF OwnAnswer
        <4>2. CASE req[i].kind = "format"
          <5>1. \A x \in response[i] : Shown(i, x[1], x[2])
            BY <3>1, <3>2, <4>2 DEF OutcomeOwn
          <5>2. {x[1] : x \in response[i]} = DOMAIN FilesOf(req[i])
            BY <3>1, <4>2 DEF ReadsBack
          <5> QED
            BY <4>2, <5>1, <5>2 DEF OwnAnswer
        <4> QED
          BY <4>1, <4>2 DEF OwnAnswer
      <3> QED
        BY <1>1, <3>1, <3>3, AnswerKept
    <2> QED
      BY <1>4, <2>1, <2>2, <2>3, <2>4, <2>5, <2>6 DEF Step
  <1> QED
    BY <1>3, <1>4

\* At the start there is no request.
LEMMA InitFiles == FilesInit => FilesInv
  <1> SUFFICES ASSUME FilesInit PROVE FilesInv
    OBVIOUS
  <1>1. Id = {}
    BY DEF FilesInit, Id
  <1>2. FilesType
    BY <1>1 DEF FilesInit, FilesType
  <1>3. Stages /\ Succession /\ SourcesComing /\ OutcomeOwn /\ ResponseIsOwn
    BY <1>1 DEF Stages, Succession, SourcesComing, OutcomeOwn, ResponseIsOwn
  <1>4. ModulesLeft
    BY DEF FilesInit, ModulesLeft
  <1> QED
    BY <1>2, <1>3, <1>4 DEF SourcesInv, FilesInv

\* Every step keeps SourcesInv.
LEMMA NextSources == SourcesInv /\ [FilesNext]_filesVars => SourcesInv'
  <1> SUFFICES ASSUME SourcesInv, [FilesNext]_filesVars PROVE SourcesInv'
    OBVIOUS
  <1> USE DEF SourcesInv
  <1>1. ASSUME NEW r \in Request, BeginRequest(r) PROVE SourcesInv'
    BY <1>1, BeginType, BeginStages, BeginSuccession, BeginSources
  <1>2. ASSUME NEW a \in Id, Step(a) PROVE SourcesInv'
    BY <1>2, StepType, StepStages, StepSuccession, StepSources
  <1>3. CASE UNCHANGED filesVars
    <2>1. UNCHANGED <<req, stage, aborting, ops, cargo, cargoSuccess, sources, manifest, modules,
                      response, strays>>
      BY <1>3 DEF filesVars, diskVars
    <2>2. FilesType' /\ Stages' /\ Succession'
      BY <2>1 DEF FilesType, Stages, Succession, Quiet, Id, Active, OpsOf
    <2>3. SourcesComing'
      BY <2>1 DEF SourcesComing, FileComing, ManifestComing, Pending, Id, OwnPaths, OwnFile,
         FileBy
    <2> QED
      BY <2>2, <2>3
  <1> QED
    BY <1>1, <1>2, <1>3, Actors

\* Every step keeps FilesInv.
LEMMA NextFiles ==
    ASSUME "compilation" \notin Path, \A r \in Request : r.mode \in {"debug", "release"},
           FilesInv, [FilesNext]_filesVars
    PROVE  FilesInv'
  <1> USE DEF SourcesInv, FilesInv
  <1>1. SourcesInv'
    BY NextSources
  <1>2. ASSUME NEW r \in Request, BeginRequest(r)
        PROVE  ModulesLeft' /\ OutcomeOwn' /\ ResponseIsOwn'
    BY <1>2, BeginModules, BeginOutcome, BeginResponse
  <1>3. ASSUME NEW a \in Id, Step(a)
        PROVE  ModulesLeft' /\ OutcomeOwn' /\ ResponseIsOwn'
    BY <1>3, StepModules, StepOutcome, StepResponse
  <1>4. CASE UNCHANGED filesVars
    <2>1. UNCHANGED <<req, stage, aborting, cargoSuccess, sources, compilation, modules, response,
                      strays>>
      BY <1>4 DEF filesVars, diskVars
    <2>2. OutcomeOwn'
      BY <2>1 DEF OutcomeOwn, Made, Shown, MayTakeAnother, Id, OwnPaths, OwnFile
    <2>3. ResponseIsOwn'
      BY <2>1 DEF ResponseIsOwn, MayTakeAnother, Id, OwnPaths, OwnFile
    <2>4. ModulesLeft'
      BY <2>1 DEF ModulesLeft, Id
    <2> QED
      BY <1>1, <2>2, <2>3, <2>4
  <1> QED
    BY <1>1, <1>2, <1>3, <1>4, Actors

\* Cargo runs on the files and the manifest of its own request: do_request waits
\* for the answers to all its deletions and writes, and between these and cargo
\* only a stray can touch a file again.
THEOREM CargoSeesOwnSources == FilesSpec => []SourcesAreOwn
  <1>1. SourcesInv => SourcesAreOwn
    <2> SUFFICES ASSUME SourcesInv, NEW i \in Id, stage[i] = "cargo", i \notin aborting
                 PROVE  /\ \A p \in OwnPaths(i) : \/ sources[p] = OwnFile(i, p)
                                                     \/ \E j \in strays[i] : FileBy(j, p)
                        /\ \/ manifest = ModifyCargoToml(req[i], Original)
                           \/ \E j \in strays[i] :
                                manifest \in {ModifyCargoToml(req[j], Original), HalfManifest}
      BY DEF SourcesAreOwn
    <2>1. i = Len(req)
      BY DEF SourcesInv, Succession, Active
    <2>2. ManifestComing(i) /\ \A p \in OwnPaths(i) : FileComing(i, p)
      BY <2>1 DEF SourcesInv, SourcesComing
    <2>3. \A op \in ops : op[1] # i
      BY DEF SourcesInv, Stages, OpsOf
    <2>4. ASSUME NEW p PROVE ~Pending(i, p)
      BY <2>3 DEF Pending
    <2>5. <<i, "manifest", "Cargo.toml">> \notin ops
      BY <2>3
    <2> QED
      BY <2>2, <2>4, <2>5 DEF FileComing, ManifestComing
  <1>2. FilesInit => SourcesInv
    BY InitFiles DEF FilesInv
  <1> QED
    BY <1>1, <1>2, NextSources, PTL DEF FilesSpec

\* What begin_compile and begin_format return was made by the request's own
\* cargo from its own files; a compile that failed returns no code, although
\* the output of an earlier one may still be there.  For WebAssembly this is so
\* when the crate makes a module and no earlier request can have left one
\* elsewhere in target/, where cargo-wasm would find it.  No file of a request has
\* the name of the output (PathAssumption).
THEOREM ResponsesOwn == FilesSpec => []ResponseIsOwn
  <1>1. FilesInv => ResponseIsOwn
    BY DEF FilesInv
  <1>2. FilesInv /\ [FilesNext]_filesVars => FilesInv'
    BY NextFiles, PathAssumption, FilesAssumption
  <1> QED
    BY <1>1, <1>2, InitFiles, PTL DEF FilesSpec
=============================================================================
