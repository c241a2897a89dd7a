------------------------------ MODULE Reclaim -------------------------------
(***************************************************************************)
(* How connections share the containers: Global::next_container and        *)
(* Global::container_requested of limits.rs on one side, the IdleTimeout   *)
(* and IdleRequest branches of the WebSocket main loop on the other.       *)
(*                                                                         *)
(* A connection that runs its first program takes a container and keeps it *)
(* when the program is over.  When all are taken it adds a permit to the   *)
(* request semaphore; idle connections wait for that permit in their       *)
(* select! and the one that gets it gives its container up.                *)
(*                                                                         *)
(* Limits.tla has the acquisition step by step, Session.tla the main loop; *)
(* here each is as coarse as the other can tell.                           *)
(***************************************************************************)
EXTENDS Naturals, Sequences, FiniteSets

CONSTANTS Conn,           \* the connections
          ContainerLimit, \* `container_limit`
          MaxRequests     \* bound on the requests nobody has taken

ASSUME ReclaimAssumption == /\ IsFiniteSet(Conn)
                            /\ ContainerLimit \in Nat \ {0} /\ MaxRequests \in Nat

VARIABLES
    containerPermits, containerQueue, containerGranted,  \* container_semaphore
    requestPermits, requestQueue, requestGranted,        \* container_request_semaphore
    work,  \* "idle" (no task), "waiting" (for a container), "busy"
    has    \* connections whose coordinator holds a container

containerVars == <<containerPermits, containerQueue, containerGranted>>
requestVars == <<requestPermits, requestQueue, requestGranted>>
vars == <<containerVars, requestVars, work, has>>

CS == INSTANCE Semaphore WITH Client <- Conn, permits <- containerPermits,
                              queue <- containerQueue, granted <- containerGranted
RS == INSTANCE Semaphore WITH Client <- Conn, permits <- requestPermits,
                              queue <- requestQueue, granted <- requestGranted

TypeOK == /\ CS!TypeOK /\ RS!TypeOK
          /\ work \in [Conn -> {"idle", "waiting", "busy"}]
          /\ has \subseteq Conn

Init == /\ CS!Init(ContainerLimit) /\ RS!Init(0)
        /\ work = [c \in Conn |-> "idle"]
        /\ has = {}

Watching(c) == c \in requestGranted \/ \E i \in 1 .. Len(requestQueue) : requestQueue[i] = c

\* Requests that no connection has acted on.
Requests == requestPermits + Cardinality(requestGranted)

MoveTo(c, w) == work' = [work EXCEPT ![c] = w]

-----------------------------------------------------------------------------
\* manager.idle(): the coordinator's container, if it has one, is shut down
\* and its permit comes back.
IdleCoordinator(c) ==
    /\ has' = has \ {c}
    /\ IF c \in has THEN CS!Release ELSE UNCHANGED containerVars
    /\ UNCHANGED work

\* The select! of an idle connection polls container_requested for the first
\* time: a request is waiting, or the future joins the queue.
Watch(c) ==
    /\ work[c] = "idle" /\ ~Watching(c)
    /\ \/ RS!TryAcquire /\ IdleCoordinator(c)
       \/ RS!Enqueue(c) /\ UNCHANGED <<containerVars, work, has>>

\* IdleRequest: the future is ready; the permit is forgotten.
IdleRequest(c) ==
    /\ work[c] = "idle" /\ RS!Take(c)
    /\ IdleCoordinator(c)

\* The future that watches for requests, if there is one, is dropped.
StopWatching(c) == IF Watching(c) THEN RS!Cancel(c) ELSE UNCHANGED requestVars

\* Another branch of the select! wins, and the future is dropped.
OtherEvent(c) ==
    /\ Watching(c)
    /\ RS!Cancel(c)
    /\ UNCHANGED <<containerVars, work, has>>

\* Variant: the idle timer is only looked at while a request is pending.
LazyIdleTimeout(c) ==
    /\ work[c] = "idle" /\ c \in has /\ Requests > 0
    /\ IdleCoordinator(c)
    /\ StopWatching(c)

\* The timer wins the race; the future is dropped with the select!.
IdleTimeout(c) ==
    /\ work[c] = "idle" /\ c \in has
    /\ IdleCoordinator(c)
    /\ StopWatching(c)

\* A program is run: in the container at hand, in a new one, or the request
\* semaphore is told and the connection waits.
Run(c) ==
    /\ work[c] = "idle" /\ ~Watching(c)
    /\ \/ /\ c \in has /\ MoveTo(c, "busy")
          /\ UNCHANGED <<containerVars, requestVars, has>>
       \/ /\ c \notin has /\ CS!TryAcquire /\ has' = has \cup {c} /\ MoveTo(c, "busy")
          /\ UNCHANGED requestVars
       \/ /\ c \notin has /\ Requests < MaxRequests
          /\ CS!Enqueue(c) /\ RS!Release /\ MoveTo(c, "waiting")
          /\ UNCHANGED has

HandedOver(c) ==
    /\ work[c] = "waiting" /\ CS!Take(c)
    /\ has' = has \cup {c} /\ MoveTo(c, "busy")
    /\ UNCHANGED requestVars

\* The task that waits is aborted; its request stays where it is.
GiveUp(c) ==
    /\ work[c] = "waiting" /\ CS!Cancel(c)
    /\ MoveTo(c, "idle")
    /\ UNCHANGED <<requestVars, has>>

ProgramEnds(c) ==
    /\ work[c] = "busy" /\ MoveTo(c, "idle")
    /\ UNCHANGED <<containerVars, requestVars, has>>

\* Variant: the container of a closed connection is lost.
LeakyDisconnect(c) ==
    /\ work[c] # "waiting"
    /\ has' = has \ {c} /\ MoveTo(c, "idle")
    /\ UNCHANGED containerVars
    /\ StopWatching(c)

\* The connection ends and a new one takes its place.
Disconnect(c) ==
    /\ work[c] # "waiting"
    /\ has' = has \ {c} /\ MoveTo(c, "idle")
    /\ IF c \in has THEN CS!Release ELSE UNCHANGED containerVars
    /\ StopWatching(c)

-----------------------------------------------------------------------------
Step(c) == \/ Watch(c) \/ IdleRequest(c) \/ OtherEvent(c) \/ IdleTimeout(c) \/ Run(c)
           \/ HandedOver(c) \/ GiveUp(c) \/ ProgramEnds(c) \/ Disconnect(c)

Next == \E c \in Conn : Step(c)

Spec == Init /\ [][Next]_vars

\* Idle connections poll their select!, whose branches are not overlooked for
\* ever; the idle timer fires; a program ends (session_timeout at the latest).
Fairness ==
    \A c \in Conn : /\ WF_vars(Watch(c)) /\ WF_vars(IdleRequest(c)) /\ WF_vars(HandedOver(c))
                    /\ SF_vars(IdleTimeout(c)) /\ WF_vars(ProgramEnds(c))

FairSpec == Spec /\ Fairness

-----------------------------------------------------------------------------
\* Containers held, handed over and free add up to the limit, however requests,
\* idling, aborts and disconnections interleave.
ContainersAccounted ==
    containerPermits + Cardinality(containerGranted) + Cardinality(has) = ContainerLimit

\* A connection that waits for a container gets one or gives up.
WaiterServed == \A c \in Conn : work[c] = "waiting" ~> work[c] # "waiting"

\* "Any idle-but-not-yet-exited connections should watch that semaphore to see
\* if they should give up their container": as long as somebody waits, a
\* request is there for the next idle connection with a container to find.
RequestKept ==
    Len(containerQueue) > 0 => Requests > 0
=============================================================================
