------------------------------ MODULE Container -----------------------------
(***************************************************************************)
(* orchestrator/src/coordinator.rs: Coordinators, the containers in their  *)
(* OnceCells (one per channel), and how a container ends: shut down by     *)
(* `idle`, dropped with its Coordinator, dropped half made, or dead by     *)
(* itself.  `docker` is Docker's view of a container, which follows the    *)
(* commands `docker run` and `docker kill` with a delay.                   *)
(*                                                                         *)
(* A container is a slot that is used again once nothing is left of it;    *)
(* names are never used again (Limits.tla).  Requests for a permit are     *)
(* served from a semaphore, see Semaphore.tla.  A coordinator is used for  *)
(* one call at a time here; `versions` uses all channels at once.  The     *)
(* next user of a dropped coordinator's place builds a new one.            *)
(***************************************************************************)
EXTENDS Naturals, FiniteSets

CONSTANTS Coordinator, Channel,
          Slot,   \* bound on the containers not yet gone
          Limit   \* the number of container permits

ASSUME ContainerAssumption ==
    /\ IsFiniteSet(Coordinator) /\ IsFiniteSet(Channel) /\ IsFiniteSet(Slot)
    /\ Limit \in Nat \ {0}

VARIABLES
    call,     \* per coordinator and channel: "none", "select" (waits for a
              \* permit), "init" (makes the container), "using"
    idling,   \* coordinators in `idle`
    con       \* the containers, see Record

conVars == <<call, idling, con>>

(***************************************************************************)
(* pos     "free", "init" (in Container::new), "cell", "closing" and       *)
(*         "joining" (in Container::shutdown), "undone" (an unfinished one *)
(*         being dropped), "dropped"                                       *)
(* home    its coordinator and channel, as long as it has one              *)
(* docker  "creating", "alive", "gone"                                     *)
(* kill    the docker kill command: "unissued", "running", "done"          *)
(* permit  whether it has its ContainerPermit                              *)
(* tracked whether it is in TRACKED_CONTAINERS                             *)
(***************************************************************************)
Record == [pos : {"free", "init", "cell", "closing", "joining", "undone", "dropped"},
           home : (Coordinator \X Channel) \cup {<<>>},
           docker : {"creating", "alive", "gone"},
           kill : {"unissued", "running", "done"},
           permit : BOOLEAN, tracked : BOOLEAN]

Free == [pos |-> "free", home |-> <<>>, docker |-> "gone", kill |-> "unissued",
         permit |-> FALSE, tracked |-> FALSE]

\* Nothing is left of a container: its slot is free.
Settle(x) == IF x.pos = "dropped" /\ x.docker = "gone" /\ x.kill # "running" THEN Free ELSE x

At(c, where) == {k \in Slot : con[k].pos \in where /\ con[k].home[1] = c}
InCell(c, ch) == {k \in At(c, {"cell"}) : con[k].home[2] = ch}
Held == {k \in Slot : con[k].permit}
Busy(c) == \E ch \in Channel : call[c][ch] # "none"

ConTypeOK ==
    /\ call \in [Coordinator -> [Channel -> {"none", "select", "init", "using"}]]
    /\ idling \subseteq Coordinator
    /\ con \in [Slot -> Record]

NoCall == [ch \in Channel |-> "none"]

ConInit ==
    /\ call = [c \in Coordinator |-> NoCall] /\ idling = {}
    /\ con = [k \in Slot |-> Free]

-----------------------------------------------------------------------------
(* Calls *)

\* A method of Coordinator is called, for one channel or (versions) for all.
Call(c) ==
    /\ ~Busy(c) /\ c \notin idling
    /\ \E S \in {{ch} : ch \in Channel} \cup {Channel} :
         call' = [call EXCEPT ![c] = [ch \in Channel |-> IF ch \in S THEN "select" ELSE "none"]]
    /\ UNCHANGED <<idling, con>>

\* get_or_try_init finds a container, dead or alive.
SelectReady(c, ch) ==
    /\ call[c][ch] = "select" /\ InCell(c, ch) # {}
    /\ call' = [call EXCEPT ![c][ch] = "using"]
    /\ UNCHANGED <<idling, con>>

\* The cell is empty and the semaphore has a permit.
CanStart(c, ch) ==
    /\ call[c][ch] = "select" /\ InCell(c, ch) = {}
    /\ Cardinality(Held) < Limit

\* Container::new up to its second await: the permit, run_worker_in_background
\* and, in prepare_worker_command, start_tracking.
StartContainer(c, ch) ==
    /\ CanStart(c, ch)
    /\ \E k \in Slot :
         /\ con[k] = Free
         /\ con' = [con EXCEPT ![k] = [pos |-> "init", home |-> <<c, ch>>, docker |-> "creating",
                                       kill |-> "unissued", permit |-> TRUE, tracked |-> TRUE]]
    /\ call' = [call EXCEPT ![c][ch] = "init"]
    /\ UNCHANGED idling

\* TerminateContainer's drop, first part: untracked, and the command issued
\* unless it was before.
Terminate(x) == [x EXCEPT !.tracked = FALSE, !.kill = IF @ = "unissued" THEN "running" ELSE @]

\* The locals of an unfinished Container::new are dropped last to first: the
\* container is killed before its permit is given back.
Undo(x) == [Terminate(x) EXCEPT !.pos = "undone", !.home = <<>>]

\* A Container, or the future of its shutdown, is dropped.  The permit is the
\* first field of a Container: it goes before the container is killed.
Discard(x) == Settle([Terminate(x) EXCEPT !.pos = "dropped", !.home = <<>>, !.permit = FALSE])

\* The call's future is done or dropped, with all its branches (try_join!).
EndCall(c) ==
    /\ call' = [call EXCEPT ![c] = NoCall]
    /\ con' = [k \in Slot |-> IF k \in At(c, {"init"}) THEN Undo(con[k]) ELSE con[k]]
    /\ UNCHANGED idling

\* `docker run` cannot be spawned: what was tracked is killed and untracked again.
SpawnFails(c, ch) == CanStart(c, ch) /\ EndCall(c)

\* ModifyCargoToml::new has read the manifest; the cell is filled.
Loaded(k) ==
    /\ con[k].pos = "init" /\ con[k].docker = "alive"
    /\ con' = [con EXCEPT ![k].pos = "cell"]
    /\ call' = [call EXCEPT ![con[k].home[1]][con[k].home[2]] = "using"]
    /\ UNCHANGED idling

\* It has not: the worker is gone or its answer is bad.
LoadFails(k) ==
    /\ con[k].pos = "init" /\ con[k].docker # "creating"
    /\ EndCall(con[k].home[1])

\* The job on one channel succeeds; on a dead container it cannot.
CallDone(c, ch) ==
    /\ call[c][ch] = "using"
    /\ \E k \in InCell(c, ch) : con[k].docker = "alive"
    /\ call' = [call EXCEPT ![c][ch] = "none"]
    /\ UNCHANGED <<idling, con>>

CallFails(c, ch) == call[c][ch] = "using" /\ EndCall(c)

\* The caller goes away, times out or starts another execution.
Abort(c) == Busy(c) /\ EndCall(c)

-----------------------------------------------------------------------------
(* Docker *)
DockerStarts(k) ==
    /\ con[k].docker = "creating"
    /\ \E d \in {"alive", "gone"} : con' = [con EXCEPT ![k] = Settle([@ EXCEPT !.docker = d])]
    /\ UNCHANGED <<call, idling>>

\* The worker or its container ends by itself.
Crash(k) ==
    /\ con[k].docker = "alive"
    /\ con' = [con EXCEPT ![k] = Settle([@ EXCEPT !.docker = "gone"])]
    /\ UNCHANGED <<call, idling>>

\* Variant: what is left of an abandoned container keeps the worker's stdin open.
DeafWorkerExits(k) ==
    /\ con[k].docker = "alive" /\ con[k].pos \in {"closing", "joining"}
    /\ con' = [con EXCEPT ![k] = Settle([@ EXCEPT !.docker = "gone"])]
    /\ UNCHANGED <<call, idling>>

\* Its stdin is closed (the token is cancelled or the senders are dropped), so
\* the worker returns and --rm removes the container.
WorkerExits(k) ==
    /\ con[k].docker = "alive" /\ con[k].pos \notin {"init", "cell"}
    /\ con' = [con EXCEPT ![k] = Settle([@ EXCEPT !.docker = "gone"])]
    /\ UNCHANGED <<call, idling>>

-----------------------------------------------------------------------------
(* The end of a container *)

\* idle: cancels the token, empties the cells and shuts all containers down.
Idle(c) ==
    /\ ~Busy(c) /\ c \notin idling /\ At(c, {"cell"}) # {}
    /\ idling' = idling \cup {c}
    /\ con' = [k \in Slot |-> IF k \in At(c, {"cell"})
                                 THEN [Terminate(con[k]) EXCEPT !.pos = "closing"] ELSE con[k]]
    /\ UNCHANGED call

\* Docker finds the container only when it is there, and may refuse.
KillOutcomes(d) == IF d = "alive" THEN {"alive", "gone"} ELSE {d}

\* The kill command returns, successful or not (report_failure only logs).
KillReturns(k) ==
    /\ con[k].kill = "running"
    /\ \E d \in KillOutcomes(con[k].docker) :
         LET x == [con[k] EXCEPT !.kill = "done", !.docker = d] IN
         con' = [con EXCEPT ![k] = IF x.pos = "closing" THEN [x EXCEPT !.pos = "joining"]
                                                       ELSE Discard(x)]
    /\ UNCHANGED <<call, idling>>

\* A shutdown fails: its kill command cannot be run, or the container's task
\* has ended with an error (the demultiplexer, an I/O queue), at the latest now
\* that nobody takes the worker's messages.  idle's try_join! then drops the
\* other shutdowns where they are.
ShutdownFails(k) ==
    /\ \/ con[k].pos = "closing" /\ con[k].kill = "running"
       \/ con[k].pos = "joining"
    /\ LET c == con[k].home[1] IN
         /\ con' = [l \in Slot |->
                      CASE l = k -> Discard([con[l] EXCEPT !.kill = "done"])
                        [] l # k /\ l \in At(c, {"closing", "joining"}) -> Discard(con[l])
                        [] OTHER -> con[l]]
         /\ idling' = idling \ {c}
    /\ UNCHANGED call

\* Variant: the permit is given back without waiting for the container's task.
HastyJoin(k) ==
    /\ con[k].pos = "joining"
    /\ con' = [con EXCEPT ![k].permit = FALSE]
    /\ UNCHANGED <<call, idling>>

\* Variant: the slot is done with and its permit is kept.
LeakyJoin(k) ==
    /\ con[k].pos = "joining" /\ con[k].docker = "gone"
    /\ con' = [con EXCEPT ![k].pos = "dropped", ![k].home = <<>>]
    /\ UNCHANGED <<call, idling>>

\* shutdown awaits the container's task, which ends with the child if nothing fails.
Join(k) ==
    /\ con[k].pos = "joining" /\ con[k].docker = "gone"
    /\ con' = [con EXCEPT ![k] = Discard(@)]
    /\ UNCHANGED <<call, idling>>

IdleDone(c) ==
    /\ c \in idling /\ At(c, {"closing", "joining"}) = {}
    /\ idling' = idling \ {c}
    /\ UNCHANGED <<call, con>>

\* The Coordinator is dropped, with a call or an idle under way or without: a
\* connection is over, or its shutdown took too long.
DropCoordinator(c) ==
    /\ At(c, {"init", "cell", "closing", "joining"}) # {}
    /\ call' = [call EXCEPT ![c] = NoCall]
    /\ idling' = idling \ {c}
    /\ con' = [k \in Slot |->
                 CASE k \in At(c, {"init"}) -> Undo(con[k])
                   [] k \in At(c, {"cell", "closing", "joining"}) -> Discard(con[k])
                   [] OTHER -> con[k]]

ConNext ==
    \/ \E c \in Coordinator :
         \/ Call(c) \/ Abort(c) \/ Idle(c) \/ IdleDone(c) \/ DropCoordinator(c)
         \/ \E ch \in Channel : \/ SelectReady(c, ch) \/ StartContainer(c, ch)
                                \/ SpawnFails(c, ch) \/ CallDone(c, ch) \/ CallFails(c, ch)
    \/ \E k \in Slot : \/ Loaded(k) \/ LoadFails(k) \/ DockerStarts(k) \/ Crash(k)
                       \/ WorkerExits(k) \/ KillReturns(k) \/ ShutdownFails(k) \/ Join(k)

(***************************************************************************)
(* Fairness.  Docker carries out its commands, a worker without stdin      *)
(* returns and a job ends (its timeout).  A connection at rest again and   *)
(* again is idled sooner or later: by its timer, or by the request every   *)
(* waiting call leaves (Reclaim.tla).  The semaphore is first come, first  *)
(* served, so a waiting call is not passed over for ever.                  *)
(***************************************************************************)
ConFairness ==
    /\ \A k \in Slot : /\ WF_conVars(Loaded(k) \/ LoadFails(k)) /\ WF_conVars(DockerStarts(k))
                       /\ WF_conVars(WorkerExits(k)) /\ WF_conVars(Join(k))
                       /\ WF_conVars(KillReturns(k))
    /\ \A c \in Coordinator :
         /\ SF_conVars(Idle(c)) /\ WF_conVars(IdleDone(c))
         /\ \A ch \in Channel : /\ WF_conVars(SelectReady(c, ch))
                                /\ SF_conVars(StartContainer(c, ch))
                                /\ WF_conVars(CallDone(c, ch) \/ CallFails(c, ch))

ConSpec == ConInit /\ [][ConNext]_conVars /\ ConFairness

-----------------------------------------------------------------------------
\* A container that Docker runs or is about to run holds a permit as long as
\* it is made, used or shut down; the limit can be exceeded only by containers
\* that were dropped, or whose shutdown failed.  And a live container is listed in
\* TRACKED_CONTAINERS or the command to kill it was given (Container::shutdown,
\* the order in which Container's parts are dropped, TerminateContainer).
LiveContainersAccounted ==
    \A k \in Slot : con[k].docker # "gone" =>
      /\ con[k].permit \/ con[k].pos = "dropped"
      /\ con[k].tracked \/ con[k].kill # "unissued"

\* A container that is shut down or dropped comes to its end, also when docker
\* kill ran before Docker had created it, or failed: closing the worker's stdin
\* is enough (spawn_io_queue, CancelOnDrop).
ContainersEnd ==
    \A k \in Slot : (con[k].pos \in {"undone", "closing", "joining", "dropped"})
                      ~> (con[k].docker = "gone")

\* All permits are held by coordinators that wait for one more themselves.
Ring ==
    /\ Cardinality(Held) = Limit
    /\ \A k \in Held : /\ con[k].pos = "cell"
                       /\ \E ch \in Channel : /\ call[con[k].home[1]][ch] = "select"
                                              /\ InCell(con[k].home[1], ch) = {}

\* Every call comes to an end, on a dead container and after failures too,
\* unless the coordinators that hold all the permits each wait for one more
\* channel: select_channel keeps the containers of the other channels while it
\* waits, and nothing but a timeout of the caller breaks that ring.
CallsReturn ==
    \A c \in Coordinator, ch \in Channel :
      (call[c][ch] # "none") ~> (call[c][ch] = "none" \/ Ring)
=============================================================================
