--------------------------- MODULE SessionProofs ----------------------------
(***************************************************************************)
(* Proofs about Session for any number of executions, any capacities and   *)
(* any parallelism.                                                        *)
(*                                                                         *)
(* None of the properties is inductive.  OneExecution needs to know that   *)
(* the handle kept in abort_handles is that of the newest task and that    *)
(* every older one that is alive was told to abort; Killable and           *)
(* UnusedContainerTimed need to know that nothing happens before the       *)
(* handshake; the permits stay in their range only because each of the     *)
(* missing ones belongs to a task; NeverOutstanding holds because a future *)
(* lets go of the coordinator in the very step in which its task is over.  *)
(***************************************************************************)
EXTENDS Session, FiniteSetTheorems, TLAPS

\* abort_handles has the newest task; older ones that live are being aborted.
NewestKept ==
    /\ latest = nJobs
    /\ \A j \in Job : j > nJobs => task[j] = "none"
    /\ \A j \in Job : task[j] \in Live /\ j # latest => j \in aborting

\* Before the handshake there are no executions and no container.
NothingBefore == phase = "handshake" => nJobs = 0 /\ ~container

\* The coordinator is held by tasks that live.
HoldersLive == \A j \in holders : task[j] \in Live

Inv == /\ TypeOK /\ ParallelismConserved /\ NewestKept /\ NothingBefore
       /\ Killable /\ UnusedContainerTimed /\ HoldersLive

WorkingTasks(t) == {j \in Job : t[j] \in Working}

-----------------------------------------------------------------------------
\* Moving one task from stage to stage changes the number of working tasks as
\* it should.
LEMMA CountMove ==
    ASSUME NEW t \in [Job -> Stage], NEW j \in Job, NEW to \in Stage
    PROVE  /\ Cardinality(WorkingTasks(t)) \in Nat
           /\ t[j] \in Working => Cardinality(WorkingTasks(t)) > 0
           /\ Cardinality(WorkingTasks([t EXCEPT ![j] = to])) =
                IF to \in Working
                  THEN IF t[j] \in Working THEN Cardinality(WorkingTasks(t))
                                           ELSE Cardinality(WorkingTasks(t)) + 1
                  ELSE IF t[j] \in Working THEN Cardinality(WorkingTasks(t)) - 1
                                           ELSE Cardinality(WorkingTasks(t))
  <1>1. IsFiniteSet(WorkingTasks(t)) /\ (t[j] \in Working <=> j \in WorkingTasks(t))
    <2>1. IsFiniteSet(Job)
      BY SessionAssumption, FS_Interval DEF Job
    <2> QED
      BY <2>1, FS_Subset DEF WorkingTasks
  <1>2. Cardinality(WorkingTasks(t)) \in Nat
    BY <1>1, FS_CardinalityType
  <1>3. t[j] \in Working => Cardinality(WorkingTasks(t)) > 0
    BY <1>1, <1>2, FS_EmptySet
  <1>4. CASE to \in Working
    <2>1. WorkingTasks([t EXCEPT ![j] = to]) = WorkingTasks(t) \cup {j}
      BY <1>4 DEF WorkingTasks
    <2> QED
      BY <1>1, <1>2, <1>3, <1>4, <2>1, FS_AddElement
  <1>5. CASE to \notin Working
    <2>1. WorkingTasks([t EXCEPT ![j] = to]) = WorkingTasks(t) \ {j}
      BY <1>5 DEF WorkingTasks
    <2> QED
      BY <1>1, <1>2, <1>3, <1>5, <2>1, FS_RemoveElement
  <1> QED
    BY <1>2, <1>3, <1>4, <1>5

\* What a step may do to the tasks and the semaphore: nothing, or move one task,
\* which takes a permit when it starts to work and returns it when it stops.
TaskMove(j, to) ==
    /\ task' = [task EXCEPT ![j] = to]
    /\ \/ task[j] \notin Working /\ to \in Working /\ permits > 0 /\ permits' = permits - 1
       \/ task[j] \in Working /\ to \notin Working /\ permits' = permits + 1
       \/ (task[j] \in Working <=> to \in Working) /\ permits' = permits

\* Every step moves at most one task, and the permits with it.
LEMMA StepMovesTask ==
    ASSUME TypeOK, NewestKept, Next
    PROVE  \/ \E j \in Job, to \in Stage : TaskMove(j, to)
           \/ UNCHANGED <<task, permits>>
  <1> USE DEF Stage, Live, Over, Working, SetTask, TaskMove
  <1>1. CASE ExecuteRequest
    <2>1. nJobs + 1 \in Job /\ task[nJobs + 1] = "none"
      BY <1>1, SessionAssumption DEF ExecuteRequest, NewestKept, Job, TypeOK
    <2>2. TaskMove(nJobs + 1, "queued")
      BY <1>1, <2>1 DEF ExecuteRequest
    <2> QED
      BY <2>1, <2>2
  <1>2. ASSUME NEW j \in Job, TaskDone(j) \/ ShutdownJoin(j) PROVE TaskMove(j, "joined")
    BY <1>2 DEF TaskDone, ShutdownJoin
  <1>3. ASSUME NEW j \in Job, TaskStart(j) PROVE TaskMove(j, "running")
    BY <1>3 DEF TaskStart
  <1>4. ASSUME NEW j \in Job, TaskOutput(j) \/ TaskStdin(j) \/ TaskFed(j)
        PROVE  \E to \in Stage : TaskMove(j, to)
    <2>1. TaskMove(j, "sending") \/ TaskMove(j, "feeding") \/ TaskMove(j, "running")
      BY <1>4 DEF TaskOutput, TaskStdin, TaskFed
    <2> QED
      BY <2>1
  <1>5. ASSUME NEW j \in Job, TaskSend(j) PROVE \E to \in Stage : TaskMove(j, to)
    <2>1. TaskMove(j, "running") \/ TaskMove(j, "ended")
      BY <1>5 DEF TaskSend
    <2> QED
      BY <2>1
  <1>6. ASSUME NEW j \in Job, TaskEnds(j) PROVE \E to \in Stage : TaskMove(j, to)
    <2>1. TaskMove(j, "ended") \/ TaskMove(j, "failed")
      BY <1>6 DEF TaskEnds
    <2> QED
      BY <2>1
  <1>7. ASSUME NEW j \in Job, TaskAborted(j) PROVE TaskMove(j, "aborted")
    BY <1>7 DEF TaskAborted
  <1>8. ASSUME NEW j \in Job, ExecuteStdin(j) \/ ExecuteStdinClose(j) \/ ExecuteKill(j)
        PROVE  UNCHANGED <<task, permits>>
    BY <1>8 DEF ExecuteStdin, ExecuteStdinClose, ExecuteKill, taskVars
  <1>9. CASE \/ Handshake \/ BadMessage \/ Disconnect \/ SendStdin \/ Report \/ Response
             \/ SendToSocket \/ GarbageCollection \/ IdleTimeout \/ IdleRequest \/ SessionTimeout
             \/ ShutdownDone \/ ShutdownTimeout \/ OverallTimeout \/ SessionExpires
    BY <1>9 DEF Handshake, BadMessage, Disconnect, SendStdin, Report, Response,
                SendToSocket, GarbageCollection, IdleTimeout, IdleRequest, Idle, SessionTimeout,
                ShutdownDone, ShutdownTimeout, OverallTimeout, SessionExpires, taskVars
  <1>10. "joined" \in Stage /\ "running" \in Stage /\ "aborted" \in Stage
    OBVIOUS
  <1> HIDE DEF TaskMove, Stage
  <1> QED
    BY <1>1, <1>2, <1>3, <1>4, <1>5, <1>6, <1>7, <1>8, <1>9, <1>10
    DEF Next, Request, Loop, Task

\* The semaphore gets its permits back, however a task goes.
LEMMA PermitsStep ==
    ASSUME TypeOK, NewestKept, ParallelismConserved, Next
    PROVE  ParallelismConserved' /\ permits' \in 0 .. NParallel
  <1> DEFINE n == Cardinality(WorkingTasks(task))
  <1>0. /\ permits + n = NParallel /\ task \in [Job -> Stage] /\ permits \in 0 .. NParallel
        /\ NParallel \in Nat
    BY SessionAssumption DEF ParallelismConserved, WorkingTasks, TypeOK
  <1>1. CASE UNCHANGED <<task, permits>>
    BY <1>0, <1>1 DEF ParallelismConserved
  <1>2. ASSUME NEW j \in Job, NEW to \in Stage, TaskMove(j, to)
        PROVE  permits' + Cardinality(WorkingTasks(task')) = NParallel
               /\ permits' \in 0 .. NParallel
    <2>1. task' = [task EXCEPT ![j] = to]
      BY <1>2 DEF TaskMove
    <2>2. /\ n \in Nat /\ (task[j] \in Working => n > 0)
          /\ Cardinality(WorkingTasks(task')) =
                IF to \in Working THEN IF task[j] \in Working THEN n ELSE n + 1
                                  ELSE IF task[j] \in Working THEN n - 1 ELSE n
      BY <1>0, <2>1, CountMove
    <2> HIDE DEF n
    <2> QED
      BY <1>0, <1>2, <2>2 DEF TaskMove
  <1>3. WorkingTasks(task') = {j \in Job : task'[j] \in Working}
    BY DEF WorkingTasks
  <1> QED
    BY <1>1, <1>2, <1>3, StepMovesTask DEF ParallelismConserved

\* Every step keeps the types.
LEMMA TypeStep ==
    ASSUME TypeOK, NewestKept, Next, permits' \in 0 .. NParallel
    PROVE  TypeOK'
  <1> USE SessionAssumption DEF TypeOK, Stage, Live, Over, Working, SetTask, AtSelect,
                                taskVars, loopVars, inputVars
  <1>1. CASE Handshake
    BY <1>1 DEF Handshake
  <1>2. CASE ExecuteRequest
    BY <1>2 DEF ExecuteRequest, Job
  <1>3. CASE BadMessage
    BY <1>3 DEF BadMessage
  <1>4. CASE Report
    BY <1>4 DEF Report
  <1>5. CASE SessionExpires
    BY <1>5 DEF SessionExpires
  <1>6. CASE SendStdin
    BY <1>6 DEF SendStdin, Job
  <1>7. CASE Response
    BY <1>7 DEF Response
  <1>27. CASE SendToSocket
    BY <1>27 DEF SendToSocket, Leave
  <1>8. CASE Disconnect
    BY <1>8 DEF Disconnect, Leave
  <1>9. CASE SessionTimeout
    BY <1>9 DEF SessionTimeout, Leave
  <1>10. CASE GarbageCollection
    BY <1>10 DEF GarbageCollection, Collectable
  <1>11. CASE IdleTimeout
    <2>1. /\ container' \in BOOLEAN /\ idleTimer' \in {"off", "armed"}
          /\ UNCHANGED <<loopJob, task, latest, permits, entry, cancelled, stdin, nJobs, killed,
                         holders, expired>>
      BY <1>11 DEF IdleTimeout, Idle
    <2>2. \/ loop' \in {"select", "report"} /\ UNCHANGED <<phase, rx, aborting>>
          \/ Leave /\ UNCHANGED loop
      BY <1>11 DEF IdleTimeout, Idle
    <2>3. /\ phase' \in {"handshake", "open", "shutdown", "closed"} /\ rx' \in 0 .. RxCap
          /\ aborting' \subseteq Job /\ loop' \in {"select", "report"} /\ loopJob = 0
      BY <1>11, <2>2 DEF IdleTimeout, Leave
    <2> QED
      BY <2>1, <2>3
  <1>12. CASE IdleRequest
    <2>1. /\ container' \in BOOLEAN /\ idleTimer' \in {"off", "armed"}
          /\ UNCHANGED <<loopJob, task, latest, permits, entry, cancelled, stdin, nJobs, killed,
                         holders, expired>>
      BY <1>12 DEF IdleRequest, Idle
    <2>2. \/ loop' \in {"select", "report"} /\ UNCHANGED <<phase, rx, aborting>>
          \/ Leave /\ UNCHANGED loop
      BY <1>12 DEF IdleRequest, Idle
    <2>3. /\ phase' \in {"handshake", "open", "shutdown", "closed"} /\ rx' \in 0 .. RxCap
          /\ aborting' \subseteq Job /\ loop' \in {"select", "report"} /\ loopJob = 0
      BY <1>12, <2>2 DEF IdleRequest, Leave
    <2> QED
      BY <2>1, <2>3
  <1>13. CASE ShutdownDone
    BY <1>13 DEF ShutdownDone, DropEntries
  <1>14. CASE ShutdownTimeout
    BY <1>14 DEF ShutdownTimeout, DropEntries
  <1>28. CASE OverallTimeout
    BY <1>28 DEF OverallTimeout, DropEntries
  <1>15. ASSUME NEW j \in Job, ExecuteStdin(j) PROVE TypeOK'
    BY <1>15 DEF ExecuteStdin, Job
  <1>16. ASSUME NEW j \in Job, ExecuteStdinClose(j) PROVE TypeOK'
    BY <1>16 DEF ExecuteStdinClose
  <1>17. ASSUME NEW j \in Job, ExecuteKill(j) PROVE TypeOK'
    BY <1>17 DEF ExecuteKill
  <1>18. ASSUME NEW j \in Job, TaskDone(j) PROVE TypeOK'
    BY <1>18 DEF TaskDone
  <1>19. ASSUME NEW j \in Job, ShutdownJoin(j) PROVE TypeOK'
    BY <1>19 DEF ShutdownJoin
  <1>20. ASSUME NEW j \in Job, TaskStart(j) PROVE TypeOK'
    BY <1>20 DEF TaskStart
  <1>21. ASSUME NEW j \in Job, TaskOutput(j) PROVE TypeOK'
    BY <1>21 DEF TaskOutput
  <1>22. ASSUME NEW j \in Job, TaskStdin(j) PROVE TypeOK'
    BY <1>22 DEF TaskStdin
  <1>23. ASSUME NEW j \in Job, TaskFed(j) PROVE TypeOK'
    BY <1>23 DEF TaskFed
  <1>24. ASSUME NEW j \in Job, TaskSend(j) PROVE TypeOK'
    <2>1. container' \in BOOLEAN
      BY <1>24, Zenon DEF TaskSend, DropCoordinator
    <2>2. rx' \in 0 .. RxCap /\ task' \in [Job -> Stage] /\ holders' \subseteq Job
      BY <1>24 DEF TaskSend, DropCoordinator
    <2> QED
      BY <1>24, <2>1, <2>2 DEF TaskSend
  <1>25. ASSUME NEW j \in Job, TaskEnds(j) PROVE TypeOK'
    BY <1>25 DEF TaskEnds, DropCoordinator
  <1>26. ASSUME NEW j \in Job, TaskAborted(j) PROVE TypeOK'
    BY <1>26 DEF TaskAborted, DropCoordinator
  <1> HIDE DEF TypeOK
  <1> QED
    BY <1>1, <1>2, <1>3, <1>4, <1>5, <1>6, <1>7, <1>8, <1>9, <1>10, <1>11, <1>12, <1>13,
       <1>14, <1>15, <1>16, <1>17, <1>18, <1>19, <1>20, <1>21, <1>22, <1>23, <1>24, <1>25, <1>26,
       <1>27, <1>28 DEF Next, Request, Loop, Task

\* What every step but a new ExecuteRequest leaves true: no task comes to life,
\* nothing is taken back from those told to abort or to stop, and an entry only
\* goes when its job is told to stop.
Calm ==
    /\ UNCHANGED <<nJobs, latest>>
    /\ aborting \subseteq aborting' /\ cancelled \subseteq cancelled'
    /\ \A j \in Job : /\ task'[j] \in Live => task[j] \in Live
                      /\ task[j] = "none" => task'[j] = "none"
                      /\ entry'[j] = "absent" => entry[j] = "absent" \/ j \in cancelled'

\* Every step but a new execution is of this kind.
LEMMA CalmSteps ==
    ASSUME TypeOK, Next, ~ExecuteRequest
    PROVE  Calm
  <1> USE DEF TypeOK, Calm, Stage, Live, Over, Working, SetTask, taskVars, loopVars, inputVars
  <1>1. CASE Handshake
    BY <1>1 DEF Handshake
  <1>2. CASE BadMessage
    BY <1>2 DEF BadMessage
  <1>3. CASE Report
    BY <1>3 DEF Report
  <1>4. CASE SessionExpires
    BY <1>4 DEF SessionExpires
  <1>5. CASE SendStdin
    BY <1>5 DEF SendStdin
  <1>6. CASE Response \/ SendToSocket
    BY <1>6 DEF Response, SendToSocket, Leave
  <1>7. CASE Disconnect
    BY <1>7 DEF Disconnect, Leave
  <1>8. CASE SessionTimeout
    BY <1>8 DEF SessionTimeout, Leave
  <1>9. CASE GarbageCollection
    BY <1>9 DEF GarbageCollection, Collectable
  <1>10. CASE IdleTimeout
    BY <1>10 DEF IdleTimeout, Idle, Leave
  <1>11. CASE IdleRequest
    BY <1>11 DEF IdleRequest, Idle, Leave
  <1>12. CASE ShutdownDone
    BY <1>12 DEF ShutdownDone, DropEntries
  <1>13. CASE ShutdownTimeout \/ OverallTimeout
    BY <1>13 DEF ShutdownTimeout, OverallTimeout, DropEntries
  <1>14. ASSUME NEW j \in Job, ExecuteStdin(j) PROVE Calm
    BY <1>14 DEF ExecuteStdin
  <1>15. ASSUME NEW j \in Job, ExecuteStdinClose(j) PROVE Calm
    BY <1>15 DEF ExecuteStdinClose
  <1>16. ASSUME NEW j \in Job, ExecuteKill(j) PROVE Calm
    BY <1>16 DEF ExecuteKill
  <1>17. ASSUME NEW j \in Job, TaskDone(j) PROVE Calm
    BY <1>17 DEF TaskDone
  <1>18. ASSUME NEW j \in Job, ShutdownJoin(j) PROVE Calm
    BY <1>18 DEF ShutdownJoin
  <1>19. ASSUME NEW j \in Job, TaskStart(j) PROVE Calm
    BY <1>19 DEF TaskStart
  <1>20. ASSUME NEW j \in Job, TaskOutput(j) PROVE Calm
    BY <1>20 DEF TaskOutput
  <1>21. ASSUME NEW j \in Job, TaskStdin(j) PROVE Calm
    BY <1>21 DEF TaskStdin
  <1>22. ASSUME NEW j \in Job, TaskFed(j) PROVE Calm
    BY <1>22 DEF TaskFed
  <1>23. ASSUME NEW j \in Job, TaskSend(j) PROVE Calm
    BY <1>23 DEF TaskSend
  <1>24. ASSUME NEW j \in Job, TaskEnds(j) PROVE Calm
    BY <1>24 DEF TaskEnds
  <1>25. ASSUME NEW j \in Job, TaskAborted(j) PROVE Calm
    BY <1>25 DEF TaskAborted
  <1> HIDE DEF TypeOK, Calm
  <1> QED
    BY <1>1, <1>2, <1>3, <1>4, <1>5, <1>6, <1>7, <1>8, <1>9, <1>10, <1>11, <1>12, <1>13,
       <1>14, <1>15, <1>16, <1>17, <1>18, <1>19, <1>20, <1>21, <1>22, <1>23, <1>24, <1>25
    DEF Next, Request, Loop, Task

\* The handle in abort_handles stays that of the newest task.
LEMMA NewestStep ==
    ASSUME TypeOK, NewestKept, Next
    PROVE  NewestKept'
  <1>1. CASE ExecuteRequest
    <2>1. nJobs + 1 \in Job /\ nJobs \in Nat /\ \A j \in Job : j \in Nat
      BY <1>1, SessionAssumption DEF ExecuteRequest, TypeOK, Job
    <2>2. /\ nJobs' = nJobs + 1 /\ latest' = nJobs + 1
          /\ task' = [task EXCEPT ![nJobs + 1] = "queued"]
          /\ aborting' = aborting \cup ({latest} \ {0})
      BY <1>1 DEF ExecuteRequest
    <2>3. ASSUME NEW j \in Job, j > nJobs' PROVE task'[j] = "none"
      BY <2>1, <2>2, <2>3 DEF NewestKept, TypeOK
    <2>4. ASSUME NEW j \in Job, task'[j] \in Live, j # latest' PROVE j \in aborting'
      <3>1. task[j] \in Live /\ j # 0
        BY <2>1, <2>2, <2>4, SessionAssumption DEF TypeOK, Job
      <3> QED
        BY <2>2, <3>1 DEF NewestKept
    <2> QED
      BY <2>2, <2>3, <2>4 DEF NewestKept
  <1>2. CASE ~ExecuteRequest
    BY <1>2, CalmSteps DEF NewestKept, Calm
  <1> QED
    BY <1>1, <1>2

\* Before the handshake no task exists that could do anything.
LEMMA BeforeStep ==
    ASSUME TypeOK, NewestKept, NothingBefore, Next
    PROVE  NothingBefore' /\ (phase' = "open" => phase = "open" \/ Handshake)
  <1>1. CASE phase = "handshake"
    <2>1. \A j \in Job : task[j] = "none"
      BY <1>1, SessionAssumption DEF NothingBefore, NewestKept, Job
    <2>2. CASE Handshake
      BY <1>1, <2>2 DEF Handshake, NothingBefore, inputVars
    <2>3. ASSUME NEW j \in Job PROVE ~Task(j) /\ ~TaskDone(j) /\ ~ShutdownJoin(j)
      BY <2>1 DEF Task, TaskStart, TaskOutput, TaskSend, TaskStdin, TaskFed, TaskEnds,
                  TaskAborted, SetTask, TaskDone, ShutdownJoin, Live, Working, Over
    <2>4. /\ ~Request /\ ~Response /\ ~GarbageCollection /\ ~IdleTimeout /\ ~IdleRequest
          /\ ~SessionTimeout /\ ~OverallTimeout /\ ~ShutdownDone /\ ~ShutdownTimeout
          /\ ~SessionExpires
      BY <1>1 DEF Request, ExecuteRequest, BadMessage, Disconnect, ExecuteStdin,
                  ExecuteStdinClose, ExecuteKill, Response, GarbageCollection, IdleTimeout,
                  IdleRequest, SessionTimeout, OverallTimeout, ShutdownDone, ShutdownTimeout,
                  SessionExpires, AtSelect
    <2>5. CASE SendStdin \/ Report \/ SendToSocket
      BY <1>1, <2>5 DEF SendStdin, Report, SendToSocket, Leave, NothingBefore, inputVars
    <2> QED
      BY <2>2, <2>3, <2>4, <2>5 DEF Next, Loop
  <1>2. CASE phase # "handshake"
    <2>1. phase' # "handshake" /\ (phase' = "open" => phase = "open")
      <3> USE DEF loopVars
      <3>1. ASSUME NEW j \in Job, Task(j) PROVE UNCHANGED phase
        BY <3>1 DEF Task, TaskStart, TaskOutput, TaskSend, TaskStdin, TaskFed, TaskEnds,
                    TaskAborted
      <3>2. CASE Request
        BY <1>2, <3>2 DEF Request, ExecuteRequest, BadMessage, Disconnect, ExecuteStdin,
                          ExecuteStdinClose, ExecuteKill, Leave
      <3>3. CASE Loop
        BY <1>2, <3>3 DEF Loop, SendStdin, Report, Response, SendToSocket, GarbageCollection, IdleTimeout,
                          IdleRequest, Idle, SessionTimeout, OverallTimeout, ShutdownDone,
                          ShutdownTimeout, TaskDone, ShutdownJoin, Leave
      <3>4. CASE Handshake \/ SessionExpires
        BY <1>2, <3>4 DEF Handshake, SessionExpires
      <3> QED
        BY <1>2, <3>1, <3>2, <3>3, <3>4 DEF Next
    <2> QED
      BY <2>1 DEF NothingBefore
  <1> QED
    BY <1>1, <1>2

\* An execution is in active_executions until it is told to stop.
LEMMA KillableStep ==
    ASSUME TypeOK, NewestKept, NothingBefore, Killable, Next
    PROVE  Killable'
  <1>1. CASE ExecuteRequest
    BY <1>1, SessionAssumption
    DEF ExecuteRequest, Killable, TypeOK, AtSelect, loopVars, Live, Working, Job
  <1>2. CASE ~ExecuteRequest
    <2>1. CASE Handshake
      <3>1. \A j \in Job : task[j] = "none" /\ task' = task
        BY <2>1, SessionAssumption DEF Handshake, NothingBefore, NewestKept, Job, taskVars
      <3> QED
        BY <3>1 DEF Killable, Live, Working
    <2>2. CASE ~Handshake
      BY <1>2, <2>2, CalmSteps, BeforeStep DEF Killable, Calm
    <2> QED
      BY <2>1, <2>2
  <1> QED
    BY <1>1, <1>2

\* When every task is joined, none is left to hold the coordinator.
LEMMA OnlyHandle ==
    ASSUME TypeOK, HoldersLive
    PROVE  NeverOutstanding
  BY DEF TypeOK, HoldersLive, NeverOutstanding, ManagerEmpty, Live, Working

\* A task that is over has let go of the coordinator.
LEMMA HoldersStep ==
    ASSUME TypeOK, HoldersLive, Next
    PROVE  HoldersLive'
  <1> USE DEF TypeOK, HoldersLive, Stage, Live, Over, Working, SetTask, taskVars
  <1>1. CASE ExecuteRequest
    BY <1>1, SessionAssumption DEF ExecuteRequest, Job
  <1>2. ASSUME NEW j \in Job, TaskDone(j) \/ ShutdownJoin(j) PROVE HoldersLive'
    BY <1>2 DEF TaskDone, ShutdownJoin
  <1>3. ASSUME NEW j \in Job, TaskStart(j) \/ TaskOutput(j) \/ TaskStdin(j) \/ TaskFed(j)
        PROVE  HoldersLive'
    BY <1>3 DEF TaskStart, TaskOutput, TaskStdin, TaskFed
  <1>4. ASSUME NEW j \in Job, TaskSend(j) PROVE HoldersLive'
    BY <1>4 DEF TaskSend, DropCoordinator
  <1>5. ASSUME NEW j \in Job, TaskEnds(j) PROVE HoldersLive'
    BY <1>5 DEF TaskEnds, DropCoordinator
  <1>6. ASSUME NEW j \in Job, TaskAborted(j) PROVE HoldersLive'
    BY <1>6 DEF TaskAborted, DropCoordinator
  <1>7. ASSUME NEW j \in Job, ExecuteStdin(j) \/ ExecuteStdinClose(j) \/ ExecuteKill(j)
        PROVE  HoldersLive'
    BY <1>7 DEF ExecuteStdin, ExecuteStdinClose, ExecuteKill
  <1>8. CASE \/ Handshake \/ BadMessage \/ Disconnect \/ SendStdin \/ Report \/ Response
             \/ SendToSocket \/ GarbageCollection \/ IdleTimeout \/ IdleRequest \/ SessionTimeout
             \/ ShutdownDone \/ ShutdownTimeout \/ OverallTimeout \/ SessionExpires
    <2>1. UNCHANGED <<holders, task>>
      BY <1>8 DEF Handshake, BadMessage, Disconnect, SendStdin, Report, Response, SendToSocket,
                  GarbageCollection, IdleTimeout, IdleRequest, Idle, SessionTimeout,
                  ShutdownDone, ShutdownTimeout, OverallTimeout, SessionExpires
    <2> QED
      BY <2>1
  <1> HIDE DEF TypeOK, HoldersLive
  <1> QED
    BY <1>1, <1>2, <1>3, <1>4, <1>5, <1>6, <1>7, <1>8 DEF Next, Request, Loop, Task

\* The last task to be joined arms the idle timer, and only a task that is not
\* joined yet gets a container.
LEMMA TimedStep ==
    ASSUME TypeOK, NewestKept, NothingBefore, UnusedContainerTimed, HoldersLive, Next
    PROVE  UnusedContainerTimed'
  <1> USE DEF UnusedContainerTimed, ManagerEmpty
  <1>1. CASE ExecuteRequest
    <2>1. nJobs + 1 \in Job
      BY <1>1, SessionAssumption DEF ExecuteRequest, TypeOK, Job
    <2>2. task'[nJobs + 1] = "queued"
      BY <1>1, <2>1 DEF ExecuteRequest, TypeOK
    <2> QED
      BY <2>1, <2>2
  <1>2. CASE Handshake
    BY <1>2 DEF Handshake, NothingBefore
  <1>3. ASSUME NEW j \in Job, TaskDone(j) PROVE UnusedContainerTimed'
    BY <1>3 DEF TaskDone, TypeOK, AtSelect
  <1>4. ASSUME NEW j \in Job, ShutdownJoin(j) PROVE UnusedContainerTimed'
    BY <1>4 DEF ShutdownJoin, loopVars
  <1>5. ASSUME NEW j \in Job, Task(j) PROVE UnusedContainerTimed'
    <2>1. task'[j] \notin {"none", "joined"}
      BY <1>5 DEF Task, TaskStart, TaskOutput, TaskSend, TaskStdin, TaskFed, TaskEnds,
                  TaskAborted, SetTask, TypeOK
    <2> QED
      BY <2>1
  <1>6. CASE IdleTimeout \/ IdleRequest
    <2>1. holders = {}
      BY <1>6, OnlyHandle DEF IdleTimeout, IdleRequest, NeverOutstanding
    <2>2. container' = FALSE
      BY <1>6, <2>1 DEF IdleTimeout, IdleRequest, Idle
    <2> QED
      BY <2>2
  <1>7. CASE \/ ShutdownDone \/ ShutdownTimeout \/ OverallTimeout
             \/ Disconnect \/ SessionTimeout
    BY <1>7 DEF ShutdownDone, OverallTimeout, ShutdownTimeout, Disconnect, SessionTimeout, Leave
  <1>8. CASE \/ BadMessage \/ SendStdin \/ Report \/ Response \/ SendToSocket
             \/ GarbageCollection \/ SessionExpires
    BY <1>8 DEF BadMessage, SendStdin, Report, Response, SendToSocket, GarbageCollection,
                SessionExpires, Leave, taskVars, loopVars
  <1>9. ASSUME NEW j \in Job, ExecuteStdin(j) \/ ExecuteStdinClose(j) \/ ExecuteKill(j)
        PROVE  UnusedContainerTimed'
    BY <1>9 DEF ExecuteStdin, ExecuteStdinClose, ExecuteKill, taskVars, loopVars
  <1> HIDE DEF UnusedContainerTimed
  <1> QED
    BY <1>1, <1>2, <1>3, <1>4, <1>5, <1>6, <1>7, <1>8, <1>9 DEF Next, Request, Loop

-----------------------------------------------------------------------------
\* The initial state satisfies the invariant.
LEMMA InitInv == Init => Inv
  <1> SUFFICES ASSUME Init PROVE Inv
    OBVIOUS
  <1>1. TypeOK
    <2>1. task \in [Job -> Stage] /\ stdin \in [Job -> 0 .. StdinCap] /\ permits \in 0 .. NParallel
      BY SessionAssumption DEF Init, Stage
    <2>2. /\ rx \in 0 .. RxCap /\ loopJob \in 0 .. MaxJobs /\ latest \in 0 .. MaxJobs
          /\ nJobs \in 0 .. MaxJobs
      BY SessionAssumption DEF Init
    <2> QED
      BY <2>1, <2>2 DEF Init, TypeOK
  <1>2. ParallelismConserved
    <2>1. {j \in Job : task[j] \in Working} = {}
      BY DEF Init, Working
    <2> QED
      BY <2>1, FS_EmptySet, SessionAssumption DEF Init, ParallelismConserved
  <1>3. NewestKept /\ NothingBefore
    BY DEF Init, NewestKept, NothingBefore, Live, Working
  <1>4. Killable /\ UnusedContainerTimed /\ HoldersLive
    BY DEF Init, Killable, UnusedContainerTimed, HoldersLive
  <1> QED
    BY <1>1, <1>2, <1>3, <1>4 DEF Inv

\* The invariant holds of every behaviour.
THEOREM Invariance == Spec => []Inv
  <1>1. Inv /\ [Next]_vars => Inv'
    <2> SUFFICES ASSUME Inv, [Next]_vars PROVE Inv'
      OBVIOUS
    <2>1. CASE Next
      <3>1. ParallelismConserved' /\ permits' \in 0 .. NParallel
        BY <2>1, PermitsStep DEF Inv
      <3>2. TypeOK' /\ NewestKept'
        BY <2>1, <3>1, TypeStep, NewestStep DEF Inv
      <3>3. NothingBefore' /\ Killable' /\ UnusedContainerTimed' /\ HoldersLive'
        BY <2>1, BeforeStep, KillableStep, TimedStep, HoldersStep DEF Inv
      <3> QED
        BY <3>1, <3>2, <3>3 DEF Inv
    <2>2. CASE UNCHANGED vars
      <3> USE <2>2 DEF vars, loopVars, taskVars, inputVars
      <3>1. TypeOK' /\ ParallelismConserved' /\ NewestKept' /\ NothingBefore'
        BY DEF Inv, TypeOK, ParallelismConserved, NewestKept, NothingBefore
      <3>2. Killable' /\ UnusedContainerTimed' /\ HoldersLive'
        BY DEF Inv, Killable, UnusedContainerTimed, ManagerEmpty, HoldersLive
      <3> QED
        BY <3>1, <3>2 DEF Inv
    <2> QED
      BY <2>1, <2>2
  <1> QED
    BY <1>1, InitInv, PTL DEF Spec

\* Of two executions that are alive, the older was told to abort, for any number
\* of executions (CoordinatorManager::spawn).
THEOREM OneExecutionAtATime == Spec => []OneExecution
  <1>1. Inv => OneExecution
    <2> SUFFICES ASSUME Inv, NEW i \in Job, NEW j \in Job, i < j,
                        task[i] \in Live, task[j] \in Live
                 PROVE  i \in aborting
      BY DEF OneExecution
    <2>1. j <= nJobs /\ i # latest
      BY SessionAssumption DEF Inv, NewestKept, Job, Live, Working, TypeOK
    <2> QED
      BY <2>1 DEF Inv, NewestKept
  <1> QED
    BY <1>1, Invariance, PTL

\* The semaphore of CoordinatorManager loses no permit and makes none up: a task
\* that ends, fails, is aborted while it works or while it waits, or gives up
\* because the connection is gone returns what it took.
THEOREM PermitsReturned == Spec => []ParallelismConserved
  BY Invariance, PTL DEF Inv

\* While the connection is open the browser can stop every execution that has
\* not been stopped: garbage collection and a closed stdin take no entry of
\* active_executions away without cancelling its token.
THEOREM AlwaysKillable == Spec => []Killable
  BY Invariance, PTL DEF Inv

\* A container that no execution uses has the idle timer running against it
\* (the TaskDone and Idle branches of handle_core).
THEOREM UnusedContainersTimed == Spec => []UnusedContainerTimed
  BY Invariance, PTL DEF Inv

\* CoordinatorManager::idle and ::shutdown never find the coordinator "still
\* referenced": whichever way its tasks ended, once they are joined no clone of
\* its Arc is left.
THEOREM CoordinatorReturned == Spec => []NeverOutstanding
  <1>1. Inv => NeverOutstanding
    BY OnlyHandle DEF Inv
  <1> QED
    BY <1>1, Invariance, PTL
=============================================================================
