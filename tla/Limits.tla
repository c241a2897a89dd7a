------------------------------- MODULE Limits -------------------------------
(***************************************************************************)
(* coordinator/limits.rs, `Global`: the server-wide limits on containers   *)
(* and on processes, the request semaphore that asks idle connections to   *)
(* give their container up, and the lifecycle hooks behind the gauges of   *)
(* ui/src/main.rs (`LifecycleMetrics`).                                    *)
(*                                                                         *)
(* A client is a task of the server.  It has at most one container future  *)
(* or container, at most one process future or process, and at most one    *)
(* `container_requested` future.  Each await point, and each atomic        *)
(* operation on shared state between two of them, is a step, so futures of *)
(* different clients interleave as the multi-threaded runtime lets them.   *)
(***************************************************************************)
EXTENDS Integers, Sequences, FiniteSets

CONSTANTS Client,          \* tasks that use the limits
          ContainerLimit,  \* `container_limit`
          ProcessLimit,    \* `process_limit`
          MaxId            \* bound on the number of next_container calls

ASSUME LimitsAssumption == /\ IsFiniteSet(Client)
                           /\ ContainerLimit \in Nat
                           /\ ProcessLimit \in Nat

VARIABLES
    containerPermits, containerQueue, containerGranted,  \* container_semaphore
    processPermits, processQueue, processGranted,        \* process_semaphore
    requestPermits, requestQueue, requestGranted,        \* container_request_semaphore
    id,             \* `Global::id`
    name,           \* the id each client's last container future captured
    container,      \* where each client's container future or token is
    process,        \* where each client's process future or token is
    gauge           \* the four lifecycle gauges

containerVars == <<containerPermits, containerQueue, containerGranted>>
processVars   == <<processPermits, processQueue, processGranted>>
requestVars   == <<requestPermits, requestQueue, requestGranted>>
vars == <<containerVars, processVars, requestVars, id, name, container, process, gauge>>

CS == INSTANCE Semaphore WITH permits <- containerPermits,
                              queue <- containerQueue, granted <- containerGranted
PS == INSTANCE Semaphore WITH permits <- processPermits,
                              queue <- processQueue, granted <- processGranted
RS == INSTANCE Semaphore WITH permits <- requestPermits,
                              queue <- requestQueue, granted <- requestGranted

(***************************************************************************)
(* The stages of an acquisition, in the order the code passes them:        *)
(*   none      no future and no token                                      *)
(*   started   the guard reported *_start; nothing is acquired             *)
(*   refused   try_acquire_owned said NoPermits (containers only)          *)
(*   asking    the request semaphore was told; acquire_owned comes next    *)
(*   waiting   acquire_owned is pending                                    *)
(*   acquired  the permit is ours; the guard has not been completed        *)
(*   held      the TrackContainer / TrackProcess token exists              *)
(*   dropping  its Drop has run; the permit field is dropped next          *)
(***************************************************************************)
Stage == {"none", "started", "refused", "asking", "waiting",
          "acquired", "held", "dropping"}
Queued == {"started", "refused", "asking", "waiting", "acquired"}
Owning == {"acquired", "held", "dropping"}

Gauges == {"containerQueue", "containerActive", "processQueue", "processActive"}

TypeOK == /\ CS!TypeOK /\ PS!TypeOK /\ RS!TypeOK
          /\ id \in Nat
          /\ name \in [Client -> Nat]
          /\ container \in [Client -> Stage]
          /\ process \in [Client -> Stage \ {"refused", "asking"}]
          /\ gauge \in [Gauges -> Int]

Init == /\ CS!Init(ContainerLimit)
        /\ PS!Init(ProcessLimit)
        /\ RS!Init(0)
        /\ id = 0
        /\ name = [c \in Client |-> 0]
        /\ container = [c \in Client |-> "none"]
        /\ process = [c \in Client |-> "none"]
        /\ gauge = [g \in Gauges |-> 0]

-----------------------------------------------------------------------------
(* LifecycleMetrics *)
ContainerStart    == gauge' = [gauge EXCEPT !["containerQueue"] = @ + 1]
ContainerAcquired == gauge' = [gauge EXCEPT !["containerQueue"] = @ - 1,
                                            !["containerActive"] = @ + 1]
ContainerAborted  == gauge' = [gauge EXCEPT !["containerQueue"] = @ - 1]
ContainerRelease  == gauge' = [gauge EXCEPT !["containerActive"] = @ - 1]
ProcessStart      == gauge' = [gauge EXCEPT !["processQueue"] = @ + 1]
ProcessAcquired   == gauge' = [gauge EXCEPT !["processQueue"] = @ - 1,
                                            !["processActive"] = @ + 1]
ProcessAborted    == gauge' = [gauge EXCEPT !["processQueue"] = @ - 1]
ProcessRelease    == gauge' = [gauge EXCEPT !["processActive"] = @ - 1]

-----------------------------------------------------------------------------
(* Global::next_container *)
MoveC(c, from, to) == /\ container[c] = from
                      /\ container' = [container EXCEPT ![c] = to]

\* Variant: the id of a container is read and only advanced when nobody else
\* is queued.
SharedIdNextContainer(c) ==
    /\ id < MaxId
    /\ MoveC(c, "none", "started")
    /\ id' = IF gauge["containerQueue"] = 0 THEN id + 1 ELSE id
    /\ name' = [name EXCEPT ![c] = id]
    /\ ContainerStart
    /\ UNCHANGED <<containerVars, processVars, requestVars, process>>

\* The id is taken when the function is called, the guard when it is polled.
NextContainer(c) == /\ id < MaxId
                    /\ MoveC(c, "none", "started")
                    /\ id' = id + 1
                    /\ name' = [name EXCEPT ![c] = id]
                    /\ ContainerStart
                    /\ UNCHANGED <<containerVars, processVars, requestVars, process>>

\* Variant: a permit is taken whether or not one is free.
UncheckedTryAcquireContainer(c) ==
    /\ MoveC(c, "started", "acquired")
    /\ containerPermits' = containerPermits - 1
    /\ UNCHANGED <<containerQueue, containerGranted>>
    /\ UNCHANGED <<processVars, requestVars, id, name, process, gauge>>

TryAcquireContainer(c) ==
    /\ \/ MoveC(c, "started", "acquired") /\ CS!TryAcquire
       \/ MoveC(c, "started", "refused") /\ containerPermits = 0 /\ UNCHANGED containerVars
    /\ UNCHANGED <<processVars, requestVars, id, name, process, gauge>>

NotifyIdle(c) == /\ MoveC(c, "refused", "asking")
                 /\ RS!Release
                 /\ UNCHANGED <<containerVars, processVars, id, name, process, gauge>>

AcquireContainer(c) ==
    /\ \/ MoveC(c, "asking", "acquired") /\ CS!TryAcquire
       \/ MoveC(c, "asking", "waiting") /\ CS!Enqueue(c)
    /\ UNCHANGED <<processVars, requestVars, id, name, process, gauge>>

ContainerHandedOver(c) ==
    /\ MoveC(c, "waiting", "acquired") /\ CS!Take(c)
    /\ UNCHANGED <<processVars, requestVars, id, name, process, gauge>>

\* `guard.complete`, the guard's Drop and the TrackContainer token.
CompleteContainer(c) ==
    /\ MoveC(c, "acquired", "held")
    /\ ContainerAcquired
    /\ UNCHANGED <<containerVars, processVars, requestVars, id, name, process>>

\* Variant: the permit of a future that was already handed one is lost when
\* that future is dropped.
LeakyAbortContainer(c) ==
    /\ MoveC(c, "waiting", "none")
    /\ \/ CS!Take(c)
       \/ c \notin containerGranted /\ CS!Cancel(c)
    /\ ContainerAborted
    /\ UNCHANGED <<processVars, requestVars, id, name, process>>

\* The waiting future is dropped: the task was aborted or timed out.  The
\* acquire_owned future goes first, then the guard, still set to Aborted.
AbortContainer(c) ==
    /\ MoveC(c, "waiting", "none")
    /\ CS!Cancel(c)
    /\ ContainerAborted
    /\ UNCHANGED <<processVars, requestVars, id, name, process>>

\* Drop of the token: first Drop::drop, then its permit field.
DropContainer(c) ==
    /\ MoveC(c, "held", "dropping")
    /\ ContainerRelease
    /\ UNCHANGED <<containerVars, processVars, requestVars, id, name, process>>

ReturnContainerPermit(c) ==
    /\ MoveC(c, "dropping", "none")
    /\ CS!Release
    /\ UNCHANGED <<processVars, requestVars, id, name, process, gauge>>

-----------------------------------------------------------------------------
(* TrackContainer::next_process *)
MoveP(c, from, to) == /\ process[c] = from
                      /\ process' = [process EXCEPT ![c] = to]

NextProcess(c) == /\ container[c] = "held"
                  /\ MoveP(c, "none", "started")
                  /\ ProcessStart
                  /\ UNCHANGED <<containerVars, processVars, requestVars, id, name, container>>

\* Variant: a permit is taken whether or not one is free.
UncheckedAcquireProcess(c) ==
    /\ MoveP(c, "started", "acquired")
    /\ processPermits' = processPermits - 1
    /\ UNCHANGED <<processQueue, processGranted>>
    /\ UNCHANGED <<containerVars, requestVars, id, name, container, gauge>>

AcquireProcess(c) ==
    /\ \/ MoveP(c, "started", "acquired") /\ PS!TryAcquire
       \/ MoveP(c, "started", "waiting") /\ PS!Enqueue(c)
    /\ UNCHANGED <<containerVars, requestVars, id, name, container, gauge>>

ProcessHandedOver(c) ==
    /\ MoveP(c, "waiting", "acquired") /\ PS!Take(c)
    /\ UNCHANGED <<containerVars, requestVars, id, name, container, gauge>>

\* Variant: the guard of an aborted process acquisition reports nothing.
SilentAbortProcess(c) ==
    /\ MoveP(c, "waiting", "none")
    /\ PS!Cancel(c)
    /\ UNCHANGED <<gauge, containerVars, requestVars, id, name, container>>

\* Variant: the permit is back before the process token is gone.
EarlyDropProcess(c) ==
    /\ MoveP(c, "held", "dropping")
    /\ ProcessRelease
    /\ PS!Release
    /\ UNCHANGED <<containerVars, requestVars, id, name, container>>

CompleteProcess(c) ==
    /\ MoveP(c, "acquired", "held")
    /\ ProcessAcquired
    /\ UNCHANGED <<containerVars, processVars, requestVars, id, name, container>>

AbortProcess(c) ==
    /\ MoveP(c, "waiting", "none")
    /\ PS!Cancel(c)
    /\ ProcessAborted
    /\ UNCHANGED <<containerVars, requestVars, id, name, container>>

DropProcess(c) ==
    /\ MoveP(c, "held", "dropping")
    /\ ProcessRelease
    /\ UNCHANGED <<containerVars, processVars, requestVars, id, name, container>>

ReturnProcessPermit(c) ==
    /\ MoveP(c, "dropping", "none")
    /\ PS!Release
    /\ UNCHANGED <<containerVars, requestVars, id, name, container, gauge>>

-----------------------------------------------------------------------------
(* Global::container_requested.  The permit is forgotten, so a request is
   answered by one client only.  The callers poll the future inside a
   select!, which drops it whenever another branch wins. *)
Watching(c) == c \in requestGranted \/ \E i \in 1 .. Len(requestQueue) : requestQueue[i] = c

ContainerRequested(c) ==
    /\ \/ ~Watching(c) /\ (RS!TryAcquire \/ RS!Enqueue(c))
       \/ RS!Take(c)
    /\ UNCHANGED <<containerVars, processVars, id, name, container, process, gauge>>

StopWatching(c) ==
    /\ Watching(c)
    /\ RS!Cancel(c)
    /\ UNCHANGED <<containerVars, processVars, id, name, container, process, gauge>>

-----------------------------------------------------------------------------
ContainerStep(c) == \/ NextContainer(c) \/ TryAcquireContainer(c) \/ NotifyIdle(c)
                    \/ AcquireContainer(c) \/ ContainerHandedOver(c)
                    \/ CompleteContainer(c) \/ AbortContainer(c)
                    \/ DropContainer(c) \/ ReturnContainerPermit(c)

ProcessStep(c) == \/ NextProcess(c) \/ AcquireProcess(c) \/ ProcessHandedOver(c)
                  \/ CompleteProcess(c) \/ AbortProcess(c)
                  \/ DropProcess(c) \/ ReturnProcessPermit(c)

RequestStep(c) == ContainerRequested(c) \/ StopWatching(c)

Next == \E c \in Client : ContainerStep(c) \/ ProcessStep(c) \/ RequestStep(c)

Spec == Init /\ [][Next]_vars

-----------------------------------------------------------------------------
At(stage, S) == {c \in Client : stage[c] \in S}
Count(stage, S) == Cardinality(At(stage, S))

ContainerOwners == At(container, Owning)
ProcessOwners   == At(process, Owning)

\* No container permit is lost or made up: the free permits, the ones handed
\* to futures that were not polled since and the ones owned by a future or a
\* TrackContainer add up to `container_limit`, whatever is aborted and when.
ContainerConservation ==
    containerPermits + Cardinality(containerGranted) + Cardinality(ContainerOwners)
        = ContainerLimit

\* The same for process permits and `process_limit`.
ProcessConservation ==
    processPermits + Cardinality(processGranted) + Cardinality(ProcessOwners)
        = ProcessLimit

\* The gauges of LifecycleMetrics tell the truth at every step: the queue
\* gauges count the acquisitions under way, on all of the paths (acquired at
\* once, after waiting, aborted), and the active ones count the live tokens.
GaugesExact ==
    /\ gauge["containerQueue"]  = Count(container, Queued)
    /\ gauge["containerActive"] = Count(container, {"held"})
    /\ gauge["processQueue"]    = Count(process, Queued)
    /\ gauge["processActive"]   = Count(process, {"held"})

\* Two container acquisitions that are both under way or alive never carry the
\* same id, which names the Docker container ("playground-{start}-{id}").
UniqueNames ==
    \A c, d \in Client :
        c # d /\ container[c] # "none" /\ container[d] # "none" => name[c] # name[d]

\* What the two semaphores promise their callers.
ContainerPool == INSTANCE ResourcePool WITH Limit <- ContainerLimit, owners <- ContainerOwners
ProcessPool   == INSTANCE ResourcePool WITH Limit <- ProcessLimit, owners <- ProcessOwners

\* next_container, its abort and the drop of its token implement a pool of
\* `container_limit` permits in which nobody owns a permit the pool has not got.
ContainerPoolSpec == ContainerPool!Spec

\* next_process and the drop of its token implement a pool of `process_limit`.
ProcessPoolSpec == ProcessPool!Spec
=============================================================================
