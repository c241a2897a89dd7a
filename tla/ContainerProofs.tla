-------------------------- MODULE ContainerProofs --------------------------
(***************************************************************************)
(* Proofs about Reclaim for any finite set of connections and any limit,   *)
(* and about Container for any coordinators, channels and limit.           *)
(*                                                                         *)
(* ContainersAccounted is not inductive by itself: a connection that is    *)
(* handed a container must not have one already, and a waiter that gives   *)
(* up must know whether it was handed one.  Inv adds that the connections  *)
(* queued for a container or handed one are waiting, once each, and that   *)
(* who waits has none.                                                     *)
(*                                                                         *)
(* LiveContainersAccounted speaks of containers that Docker runs; a step   *)
(* that drops one must know more.  InPlace says for each place of a        *)
(* container, from its making to its removal, whether it has its permit,   *)
(* is tracked, and whether docker kill was issued for it.                  *)
(***************************************************************************)
EXTENDS Reclaim, Container, FiniteSetTheorems, TLAPS

CSP == INSTANCE SemaphoreProofs WITH Client <- Conn, permits <- containerPermits,
                              queue <- containerQueue, granted <- containerGranted
RSP == INSTANCE SemaphoreProofs WITH Client <- Conn, permits <- requestPermits,
                              queue <- requestQueue, granted <- requestGranted

Waiting == {c \in Conn : work[c] = "waiting"}

Inv == /\ TypeOK
       /\ CSP!Good(Waiting)
       /\ CSP!Supply + Cardinality(has) = ContainerLimit
       /\ Waiting \cap has = {}

-----------------------------------------------------------------------------
\* The semaphore operations named by Reclaim and by the lemmas are the same.
LEMMA SameOperations ==
    ASSUME NEW c
    PROVE  /\ CS!TypeOK = CSP!TypeOK /\ CS!TryAcquire = CSP!TryAcquire
           /\ CS!Enqueue(c) = CSP!Enqueue(c) /\ CS!Take(c) = CSP!Take(c)
           /\ CS!Release = CSP!Release /\ CS!Cancel(c) = CSP!Cancel(c)
           /\ RS!TypeOK = RSP!TypeOK /\ RS!TryAcquire = RSP!TryAcquire
           /\ RS!Enqueue(c) = RSP!Enqueue(c) /\ RS!Take(c) = RSP!Take(c)
           /\ RS!Release = RSP!Release /\ RS!Cancel(c) = RSP!Cancel(c)
  BY DEF CS!TypeOK, CSP!TypeOK, CS!TryAcquire, CSP!TryAcquire,
         CS!Enqueue, CSP!Enqueue, CS!Take, CSP!Take, CS!Release, CSP!Release,
         CS!HandOver, CSP!HandOver, CS!Cancel, CSP!Cancel, CS!Without, CSP!Without,
         RS!TypeOK, RSP!TypeOK, RS!TryAcquire, RSP!TryAcquire,
         RS!Enqueue, RSP!Enqueue, RS!Take, RSP!Take, RS!Release, RSP!Release,
         RS!HandOver, RSP!HandOver, RS!Cancel, RSP!Cancel, RS!Without, RSP!Without

\* Cardinality and finiteness are the same in both modules.
LEMMA SameCardinality ==
    ASSUME NEW S
    PROVE  /\ CSP!Cardinality(S) = Cardinality(S) /\ CSP!IsFiniteSet(S) = IsFiniteSet(S)
  BY Zenon DEF CSP!Cardinality, Cardinality, CSP!IsFiniteSet, IsFiniteSet

\* The request semaphore keeps its type, whoever uses it and however.
LEMMA RequestType ==
    ASSUME RS!TypeOK, NEW c \in Conn,
           \/ RS!TryAcquire \/ RS!Enqueue(c) \/ RS!Take(c) \/ RS!Release \/ RS!Cancel(c)
           \/ UNCHANGED requestVars
    PROVE  RS!TypeOK'
  <1>1. CASE UNCHANGED requestVars
    BY <1>1 DEF requestVars, RS!TypeOK
  <1>2. CASE RS!TryAcquire \/ RS!Enqueue(c) \/ RS!Take(c) \/ RS!Release \/ RS!Cancel(c)
    <2>1. RSP!TypeOK'
      BY <1>2, SameOperations, RSP!StepType
    <2> QED
      BY <2>1 DEF RS!TypeOK, RSP!TypeOK
  <1> QED
    BY <1>1, <1>2

\* What is known of the state before a step.
LEMMA Known ==
    ASSUME Inv
    PROVE  /\ CSP!Good(Waiting) /\ CSP!Supply \in Nat /\ Waiting \subseteq Conn
           /\ CSP!Supply + Cardinality(has) = ContainerLimit
           /\ IsFiniteSet(has) /\ Cardinality(has) \in Nat /\ has \subseteq Conn
           /\ Waiting \cap has = {} /\ RS!TypeOK
           /\ work \in [Conn -> {"idle", "waiting", "busy"}]
           /\ CSP!IsFiniteSet(Conn)
  <1>1. CSP!IsFiniteSet(Conn) /\ CSP!TypeOK
    BY DEF Inv, CSP!Good
  <1>2. IsFiniteSet(has) /\ Cardinality(has) \in Nat
    BY ReclaimAssumption, FS_Subset, FS_CardinalityType DEF Inv, TypeOK
  <1> QED
    BY <1>1, <1>2, CSP!SupplyType DEF Inv, TypeOK, Waiting

\* The invariant after a step, from what it says of each of the parts.
LEMMA Reassemble ==
    ASSUME Inv, RS!TypeOK', CSP!TypeOK', CSP!Waiters(containerQueue', containerGranted', Waiting'),
           has' \subseteq Conn, work' \in [Conn -> {"idle", "waiting", "busy"}],
           CSP!Supply' + Cardinality(has') = ContainerLimit, Waiting' \cap has' = {}
    PROVE  Inv'
  <1>1. CSP!Good(Waiting)'
    BY Known DEF CSP!Good, Waiting
  <1>2. CS!TypeOK'
    BY DEF CS!TypeOK, CSP!TypeOK
  <1> QED
    BY <1>1, <1>2 DEF Inv, TypeOK

\* A step that leaves the container semaphore and the holders alone.
LEMMA QuietStep ==
    ASSUME Inv, UNCHANGED <<containerVars, has>>, RS!TypeOK',
           work' \in [Conn -> {"idle", "waiting", "busy"}], Waiting' = Waiting
    PROVE  Inv'
  <1>1. CSP!TypeOK' /\ CSP!Supply' = CSP!Supply
    BY Known DEF CSP!Good, CSP!TypeOK, CSP!Supply, containerVars
  <1>2. CSP!Waiters(containerQueue', containerGranted', Waiting')
    BY Known DEF CSP!Good, containerVars
  <1> QED
    BY <1>1, <1>2, Known, Reassemble

\* A connection that does not wait gives its container back, if it has one:
\* idling and disconnecting.
LEMMA ReturnStep ==
    ASSUME Inv, NEW c \in Conn, has' = has \ {c},
           IF c \in has THEN CS!Release ELSE UNCHANGED containerVars,
           RS!TypeOK', work' \in [Conn -> {"idle", "waiting", "busy"}], Waiting' = Waiting
    PROVE  Inv'
  <1>1. CASE c \in has
    <2>0. CSP!Release /\ CSP!Good(Waiting)
      <3>1. CS!Release
        BY <1>1
      <3>2. CSP!Good(Waiting)
        BY Known
      <3> QED
        BY <3>1, <3>2, SameOperations
    <2>1. /\ CSP!TypeOK' /\ CSP!Waiters(containerQueue', containerGranted', Waiting)
          /\ CSP!Supply' = CSP!Supply + 1
      BY <2>0, CSP!ReleaseStep
    <2>2. Cardinality(has') = Cardinality(has) - 1
      BY <1>1, Known, FS_RemoveElement
    <2>3. CSP!Supply' + Cardinality(has') = ContainerLimit
      BY <2>1, <2>2, Known
    <2> QED
      BY <2>1, <2>3, Known, Reassemble
  <1>2. CASE c \notin has
    BY <1>2, Known, QuietStep
  <1> QED
    BY <1>1, <1>2

-----------------------------------------------------------------------------
\* The initial states satisfy the invariant.
LEMMA InitInv == Init => Inv
  <1> SUFFICES ASSUME Init PROVE Inv
    OBVIOUS
  <1>1. TypeOK
    BY ReclaimAssumption DEF Init, TypeOK, CS!Init, RS!Init, CS!TypeOK, RS!TypeOK
  <1>2. Waiting = {}
    BY DEF Init, Waiting
  <1>3. CSP!Good(Waiting)
    <2>1. CSP!TypeOK
      BY <1>1 DEF TypeOK, CS!TypeOK, CSP!TypeOK
    <2>2. CSP!IsFiniteSet(Conn)
      BY SameCardinality, ReclaimAssumption
    <2>3. containerQueue = << >> /\ containerGranted = {}
      BY DEF Init, CS!Init
    <2>4. CSP!Waiters(containerQueue, containerGranted, Waiting)
      BY <2>3 DEF CSP!Waiters
    <2> QED
      BY <1>2, <2>1, <2>2, <2>4 DEF CSP!Good
  <1>4. CSP!Cardinality({}) = 0 /\ Cardinality({}) = 0
    BY FS_EmptySet, SameCardinality
  <1>5. CSP!Supply = ContainerLimit /\ has = {}
    BY <1>4, ReclaimAssumption DEF CSP!Supply, Init, CS!Init
  <1> QED
    BY <1>1, <1>2, <1>3, <1>4, <1>5, ReclaimAssumption DEF Inv

\* Every step of a connection preserves the invariant.
LEMMA StepInv ==
    ASSUME Inv, NEW c \in Conn, Step(c)
    PROVE  Inv'
  <1>0. ASSUME UNCHANGED work PROVE /\ Waiting' = Waiting
                                    /\ work' \in [Conn -> {"idle", "waiting", "busy"}]
    BY <1>0, Known DEF Waiting
  <1>1. ASSUME NEW a \in {"idle", "busy"}, NEW b \in {"idle", "busy"},
               work[c] = a, MoveTo(c, b)
        PROVE  Waiting' = Waiting /\ work' \in [Conn -> {"idle", "waiting", "busy"}]
    BY <1>1, Known DEF Waiting, MoveTo
  <1>2. CASE Watch(c)
    <2>1. RS!TypeOK'
      BY <1>2, Known, RequestType DEF Watch
    <2>2. CASE RS!TryAcquire /\ IdleCoordinator(c)
      BY <1>0, <2>1, <2>2, ReturnStep DEF IdleCoordinator
    <2>3. CASE RS!Enqueue(c) /\ UNCHANGED <<containerVars, work, has>>
      BY <1>0, <2>1, <2>3, QuietStep
    <2> QED
      BY <1>2, <2>2, <2>3 DEF Watch
  <1>3. CASE IdleRequest(c)
    <2>1. RS!TypeOK'
      BY <1>3, Known, RequestType DEF IdleRequest
    <2> QED
      BY <1>0, <1>3, <2>1, ReturnStep DEF IdleRequest, IdleCoordinator
  <1>4. CASE OtherEvent(c)
    <2>1. RS!TypeOK'
      BY <1>4, Known, RequestType DEF OtherEvent
    <2> QED
      BY <1>0, <1>4, <2>1, QuietStep DEF OtherEvent
  <1>5. CASE IdleTimeout(c)
    <2>1. RS!TypeOK'
      BY <1>5, Known, RequestType DEF IdleTimeout, StopWatching
    <2> QED
      BY <1>0, <1>5, <2>1, ReturnStep DEF IdleTimeout, IdleCoordinator
  <1>6. CASE Run(c)
    <2>1. RS!TypeOK'
      BY <1>6, Known, RequestType DEF Run
    <2>2. work[c] = "idle"
      BY <1>6 DEF Run
    <2>3. CASE c \in has /\ MoveTo(c, "busy") /\ UNCHANGED <<containerVars, requestVars, has>>
      BY <1>1, <2>1, <2>2, <2>3, QuietStep
    <2>4. CASE c \notin has /\ CS!TryAcquire /\ has' = has \cup {c} /\ MoveTo(c, "busy")
      <3>1. Waiting' = Waiting /\ work' \in [Conn -> {"idle", "waiting", "busy"}] /\ c \notin Waiting
        BY <1>1, <2>2, <2>4 DEF Waiting
      <3>2. /\ CSP!TypeOK' /\ CSP!Waiters(containerQueue', containerGranted', Waiting)
            /\ CSP!Supply' = CSP!Supply - 1
        BY <2>4, Known, SameOperations, CSP!TryAcquireStep
      <3>3. Cardinality(has') = Cardinality(has) + 1
        BY <2>4, Known, FS_AddElement
      <3>4. CSP!Supply' + Cardinality(has') = ContainerLimit
        BY <3>2, <3>3, Known
      <3> QED
        BY <2>1, <2>4, <3>1, <3>2, <3>4, Known, Reassemble
    <2>5. CASE c \notin has /\ CS!Enqueue(c) /\ MoveTo(c, "waiting") /\ UNCHANGED has
      <3>1. /\ Waiting' = Waiting \cup {c} /\ c \notin Waiting
            /\ work' \in [Conn -> {"idle", "waiting", "busy"}]
        BY <2>2, <2>5, Known DEF Waiting, MoveTo
      <3>2. /\ CSP!TypeOK' /\ CSP!Waiters(containerQueue', containerGranted', Waiting \cup {c})
            /\ CSP!Supply' = CSP!Supply
        BY <2>5, <3>1, Known, SameOperations, CSP!EnqueueStep
      <3> QED
        BY <2>1, <2>5, <3>1, <3>2, Known, Reassemble
    <2> QED
      BY <1>6, <2>3, <2>4, <2>5 DEF Run
  <1>7. CASE HandedOver(c)
    <2>1. /\ Waiting' = Waiting \ {c} /\ c \in Waiting /\ c \notin has
          /\ work' \in [Conn -> {"idle", "waiting", "busy"}] /\ has' = has \cup {c}
      BY <1>7, Known DEF HandedOver, Waiting, MoveTo
    <2>2. /\ CSP!TypeOK' /\ CSP!Waiters(containerQueue', containerGranted', Waiting \ {c})
          /\ CSP!Supply' = CSP!Supply - 1
      BY <1>7, Known, SameOperations, CSP!TakeStep DEF HandedOver
    <2>3. Cardinality(has') = Cardinality(has) + 1
      BY <2>1, Known, FS_AddElement
    <2>4. CSP!Supply' + Cardinality(has') = ContainerLimit
      BY <2>2, <2>3, Known
    <2>5. RS!TypeOK'
      BY <1>7, Known, RequestType DEF HandedOver
    <2> QED
      BY <2>1, <2>2, <2>4, <2>5, Known, Reassemble
  <1>8. CASE GiveUp(c)
    <2>1. /\ Waiting' = Waiting \ {c} /\ c \in Waiting
          /\ work' \in [Conn -> {"idle", "waiting", "busy"}] /\ has' = has
      BY <1>8, Known DEF GiveUp, Waiting, MoveTo
    <2>2. /\ CSP!TypeOK' /\ CSP!Waiters(containerQueue', containerGranted', Waiting \ {c})
          /\ CSP!Supply' = CSP!Supply
      BY <1>8, <2>1, Known, SameOperations, CSP!CancelStep DEF GiveUp
    <2>3. RS!TypeOK'
      BY <1>8, Known, RequestType DEF GiveUp
    <2> QED
      BY <2>1, <2>2, <2>3, Known, Reassemble
  <1>9. CASE ProgramEnds(c)
    <2>1. RS!TypeOK'
      BY <1>9, Known, RequestType DEF ProgramEnds
    <2> QED
      BY <1>1, <1>9, <2>1, QuietStep DEF ProgramEnds
  <1>10. CASE Disconnect(c)
    <2>1. RS!TypeOK'
      BY <1>10, Known, RequestType DEF Disconnect, StopWatching
    <2>2. work[c] \in {"idle", "busy"} /\ MoveTo(c, "idle")
      BY <1>10, Known DEF Disconnect
    <2>3. Waiting' = Waiting /\ work' \in [Conn -> {"idle", "waiting", "busy"}]
      BY <1>1, <2>2
    <2> QED
      BY <1>10, <2>1, <2>3, ReturnStep DEF Disconnect
  <1> QED
    BY <1>2, <1>3, <1>4, <1>5, <1>6, <1>7, <1>8, <1>9, <1>10 DEF Step

\* The invariant holds of every behaviour.
THEOREM Invariance == Spec => []Inv
  <1>1. Inv /\ [Next]_vars => Inv'
    <2> SUFFICES ASSUME Inv, [Next]_vars PROVE Inv'
      OBVIOUS
    <2>1. CASE Next
      BY <2>1, StepInv DEF Next
    <2>2. CASE UNCHANGED vars
      <3>1. UNCHANGED <<containerVars, has, work, requestVars>>
        BY <2>2 DEF vars
      <3>2. RS!TypeOK' /\ Waiting' = Waiting /\ work' \in [Conn -> {"idle", "waiting", "busy"}]
        BY <3>1, Known DEF requestVars, RS!TypeOK, Waiting
      <3> QED
        BY <3>1, <3>2, QuietStep
    <2> QED
      BY <2>1, <2>2
  <1> QED
    BY <1>1, InitInv, PTL DEF Spec

\* Whatever connections request, idle, abort and disconnect, the containers that
\* are free, handed over and held add up to the limit (Global::next_container and
\* Coordinator::idle lose none and start none too many).
THEOREM Accounting == Spec => []ContainersAccounted
  <1>1. Inv => ContainersAccounted
    <2> SUFFICES ASSUME Inv PROVE ContainersAccounted
      OBVIOUS
    <2>1. CSP!Supply = containerPermits + Cardinality(containerGranted)
      BY SameCardinality DEF CSP!Supply
    <2> QED
      BY <2>1, Known DEF ContainersAccounted
  <1> QED
    BY <1>1, Invariance, PTL

-----------------------------------------------------------------------------
(* The containers themselves *)

\* What the place of a container says of it: one that is made, used, shut down
\* or undone has its permit; one that is made or used is tracked; for any other
\* docker kill was issued.
InPlace(x) ==
    /\ x \in Record
    /\ x.pos = "free" => x = Free
    /\ x.pos \notin {"free", "dropped"} => x.permit
    /\ x.pos \in {"init", "cell"} => x.tracked
    /\ x.pos \in {"closing", "joining", "undone", "dropped"} => x.kill # "unissued"

ContainerInv == con \in [Slot -> Record] /\ \A k \in Slot : InPlace(con[k])

\* Settle frees a slot of which nothing is left, or does nothing.
LEMMA SettleInPlace ==
    ASSUME NEW x, InPlace(x)
    PROVE  InPlace(Settle(x))
  BY DEF InPlace, Settle, Free, Record

\* An unfinished container that is dropped is in place, and keeps its permit.
LEMMA UndoInPlace ==
    ASSUME NEW x, InPlace(x), x.pos = "init"
    PROVE  InPlace(Undo(x)) /\ Undo(x).permit
  BY DEF InPlace, Undo, Terminate, Record

\* A container that is dropped is in place and has no permit.
LEMMA DiscardInPlace ==
    ASSUME NEW x \in Record
    PROVE  InPlace(Discard(x)) /\ ~Discard(x).permit
  <1> DEFINE y == [Terminate(x) EXCEPT !.pos = "dropped", !.home = <<>>, !.permit = FALSE]
  <1>1. InPlace(y) /\ ~y.permit
    BY DEF InPlace, Terminate, Record
  <1>2. InPlace(Settle(y))
    BY <1>1, SettleInPlace
  <1> QED
    BY <1>1, <1>2 DEF Discard, Settle, Free

\* Every container stays in place, and none gets a permit.
Kept == /\ con' \in [Slot -> Record]
        /\ \A k \in Slot : InPlace(con'[k]) /\ (con'[k].permit => con[k].permit)

\* One container changes.
LEMMA OneChanges ==
    ASSUME ContainerInv, NEW k \in Slot, NEW x, InPlace(x), x.permit => con[k].permit,
           con' = [con EXCEPT ![k] = x]
    PROVE  Kept
  BY DEF ContainerInv, Kept, InPlace

\* A call ends or is dropped, and with it the containers it was making.
LEMMA EndCallKept ==
    ASSUME ContainerInv, NEW c, EndCall(c)
    PROVE  Kept
  <1>1. ASSUME NEW k \in Slot
        PROVE  InPlace(con'[k]) /\ (con'[k].permit => con[k].permit)
    <2>1. CASE k \in At(c, {"init"})
      <3>1. con'[k] = Undo(con[k]) /\ con[k].pos = "init" /\ InPlace(con[k])
        BY <2>1 DEF EndCall, At, ContainerInv
      <3> QED
        BY <3>1, UndoInPlace DEF InPlace
    <2>2. CASE k \notin At(c, {"init"})
      BY <2>2 DEF EndCall, ContainerInv
    <2> QED
      BY <2>1, <2>2
  <1>2. con' = [k \in Slot |-> con'[k]]
    BY DEF EndCall
  <1> QED
    BY <1>1, <1>2 DEF Kept, InPlace

\* Docker's view of a container changes.
LEMMA DockerKept ==
    ASSUME ContainerInv, NEW k \in Slot, con[k].pos # "free", NEW d \in {"alive", "gone"},
           con' = [con EXCEPT ![k] = Settle([con[k] EXCEPT !.docker = d])]
    PROVE  Kept
  <1>1. InPlace([con[k] EXCEPT !.docker = d])
    BY DEF ContainerInv, InPlace, Record
  <1>2. InPlace(Settle([con[k] EXCEPT !.docker = d]))
    BY <1>1, SettleInPlace
  <1>3. Settle([con[k] EXCEPT !.docker = d]).permit => con[k].permit
    BY DEF Settle, Free, ContainerInv, Record
  <1> QED
    BY <1>2, <1>3, OneChanges

\* What the steps of Docker and of a shutdown do to the containers.
LEMMA SlotKept ==
    ASSUME ContainerInv, NEW k \in Slot,
           \/ Loaded(k) \/ LoadFails(k) \/ DockerStarts(k) \/ Crash(k)
           \/ WorkerExits(k) \/ KillReturns(k) \/ ShutdownFails(k) \/ Join(k)
    PROVE  Kept
  <1>0. InPlace(con[k]) /\ con[k] \in Record
    BY DEF ContainerInv
  <1>1. CASE Loaded(k)
    <2>1. InPlace([con[k] EXCEPT !.pos = "cell"])
      BY <1>0, <1>1 DEF Loaded, InPlace, Record
    <2>2. con' = [con EXCEPT ![k] = [con[k] EXCEPT !.pos = "cell"]]
      BY <1>1 DEF Loaded, ContainerInv
    <2>3. [con[k] EXCEPT !.pos = "cell"].permit = con[k].permit
      BY <1>0 DEF Record
    <2> QED
      BY <2>1, <2>2, <2>3, OneChanges
  <1>2. CASE LoadFails(k)
    BY <1>2, EndCallKept DEF LoadFails
  <1>3. CASE DockerStarts(k) \/ Crash(k) \/ WorkerExits(k)
    <2>1. con[k].pos # "free"
      BY <1>0, <1>3 DEF DockerStarts, Crash, WorkerExits, InPlace, Free
    <2>2. PICK d \in {"alive", "gone"} :
            con' = [con EXCEPT ![k] = Settle([con[k] EXCEPT !.docker = d])]
      BY <1>3 DEF DockerStarts, Crash, WorkerExits
    <2> QED
      BY <2>1, <2>2, DockerKept
  <1>4. CASE KillReturns(k)
    <2>1. PICK d \in KillOutcomes(con[k].docker) :
            con' = [con EXCEPT ![k] = LET x == [con[k] EXCEPT !.kill = "done", !.docker = d] IN
                      IF x.pos = "closing" THEN [x EXCEPT !.pos = "joining"] ELSE Discard(x)]
      BY <1>4 DEF KillReturns
    <2>2. PICK x \in Record : x = [con[k] EXCEPT !.kill = "done", !.docker = d]
      BY <1>0, <2>1 DEF KillOutcomes, Record
    <2>3. CASE x.pos = "closing"
      <3>1. con' = [con EXCEPT ![k] = [x EXCEPT !.pos = "joining"]]
        BY <2>1, <2>2, <2>3
      <3>2. InPlace([x EXCEPT !.pos = "joining"]) /\ [x EXCEPT !.pos = "joining"].permit = con[k].permit
        BY <1>0, <2>2, <2>3 DEF InPlace, Record
      <3> QED
        BY <3>1, <3>2, OneChanges
    <2>4. CASE x.pos # "closing"
      <3>1. con' = [con EXCEPT ![k] = Discard(x)]
        BY <2>1, <2>2, <2>4
      <3> QED
        BY <2>2, <3>1, DiscardInPlace, OneChanges
    <2> QED
      BY <2>3, <2>4
  <1>5. CASE ShutdownFails(k)
    <2>1. ASSUME NEW l \in Slot
          PROVE  InPlace(con'[l]) /\ (con'[l].permit => con[l].permit)
      <3>1. \/ l = k /\ con'[l] = Discard([con[l] EXCEPT !.kill = "done"])
            \/ con'[l] = Discard(con[l])
            \/ con'[l] = con[l]
        BY <1>5 DEF ShutdownFails
      <3>2. con[l] \in Record /\ InPlace(con[l]) /\ [con[l] EXCEPT !.kill = "done"] \in Record
        BY DEF ContainerInv, Record
      <3> QED
        BY <3>1, <3>2, DiscardInPlace
    <2>2. con' = [l \in Slot |-> con'[l]]
      BY <1>5 DEF ShutdownFails
    <2> QED
      BY <2>1, <2>2 DEF Kept, InPlace
  <1>6. CASE Join(k)
    BY <1>0, <1>6, DiscardInPlace, OneChanges DEF Join
  <1> QED
    BY <1>1, <1>2, <1>3, <1>4, <1>5, <1>6

\* What the steps of a coordinator do to the containers, but for StartContainer.
LEMMA CoordinatorKept ==
    ASSUME ContainerInv, NEW c \in Coordinator,
           \/ Call(c) \/ Abort(c) \/ Idle(c) \/ IdleDone(c) \/ DropCoordinator(c)
           \/ \E ch \in Channel : \/ SelectReady(c, ch) \/ SpawnFails(c, ch)
                                  \/ CallDone(c, ch) \/ CallFails(c, ch)
    PROVE  Kept
  <1>1. CASE UNCHANGED con
    BY <1>1 DEF ContainerInv, Kept
  <1>2. CASE EndCall(c)
    BY <1>2, EndCallKept
  <1>3. CASE Idle(c)
    <2>1. ASSUME NEW k \in Slot
          PROVE  InPlace(con'[k]) /\ (con'[k].permit => con[k].permit)
      <3>1. CASE k \in At(c, {"cell"})
        <4>1. con'[k] = [Terminate(con[k]) EXCEPT !.pos = "closing"]
              /\ con[k].pos = "cell" /\ InPlace(con[k])
          BY <1>3, <3>1 DEF Idle, At, ContainerInv
        <4> QED
          BY <4>1 DEF InPlace, Terminate, Record
      <3>2. CASE k \notin At(c, {"cell"})
        BY <1>3, <3>2 DEF Idle, ContainerInv
      <3> QED
        BY <3>1, <3>2
    <2>2. con' = [k \in Slot |-> con'[k]]
      BY <1>3 DEF Idle
    <2> QED
      BY <2>1, <2>2 DEF Kept, InPlace
  <1>4. CASE DropCoordinator(c)
    <2>1. ASSUME NEW k \in Slot
          PROVE  InPlace(con'[k]) /\ (con'[k].permit => con[k].permit)
      <3>1. \/ con[k].pos = "init" /\ con'[k] = Undo(con[k])
            \/ con'[k] = Discard(con[k])
            \/ con'[k] = con[k]
        BY <1>4 DEF DropCoordinator, At
      <3>2. con[k] \in Record /\ InPlace(con[k])
        BY DEF ContainerInv
      <3> QED
        BY <3>1, <3>2, UndoInPlace, DiscardInPlace DEF InPlace
    <2>2. con' = [k \in Slot |-> con'[k]]
      BY <1>4 DEF DropCoordinator
    <2> QED
      BY <2>1, <2>2 DEF Kept, InPlace
  <1> QED
    BY <1>1, <1>2, <1>3, <1>4 DEF Call, Abort, IdleDone, SelectReady, SpawnFails,
       CallDone, CallFails

\* StartContainer fills a free slot with a container that is in place.
LEMMA StartInPlace ==
    ASSUME ContainerInv, NEW c \in Coordinator, NEW ch \in Channel, StartContainer(c, ch)
    PROVE  ContainerInv' /\ \E k \in Slot : \A l \in Slot \ {k} : con'[l] = con[l]
  <1> DEFINE x == [pos |-> "init", home |-> <<c, ch>>, docker |-> "creating",
                   kill |-> "unissued", permit |-> TRUE, tracked |-> TRUE]
  <1>1. PICK k \in Slot : con' = [con EXCEPT ![k] = x]
    BY DEF StartContainer
  <1>2. InPlace(x)
    BY DEF InPlace, Record
  <1>3. x \in Record
    BY <1>2 DEF InPlace
  <1> HIDE DEF x
  <1> QED
    BY <1>1, <1>2, <1>3 DEF ContainerInv

\* Every step keeps all containers in place; only StartContainer takes a permit.
LEMMA ContainerStep ==
    ASSUME ContainerInv, [ConNext]_conVars
    PROVE  /\ ContainerInv'
           /\ Kept \/ \E c \in Coordinator, ch \in Channel : StartContainer(c, ch)
  <1>1. CASE UNCHANGED conVars
    BY <1>1 DEF conVars, ContainerInv, Kept
  <1>2. ASSUME Kept PROVE ContainerInv'
    BY <1>2 DEF Kept, ContainerInv
  <1>3. ASSUME NEW c \in Coordinator, NEW ch \in Channel, StartContainer(c, ch)
        PROVE  ContainerInv'
    BY <1>3, StartInPlace
  <1>4. CASE ConNext
    BY <1>2, <1>3, <1>4, CoordinatorKept, SlotKept DEF ConNext
  <1> QED
    BY <1>1, <1>4

\* All containers are in place, always.
THEOREM ContainersInPlace == ConSpec => []ContainerInv
  <1>1. ConInit => ContainerInv
    BY DEF ConInit, ContainerInv, InPlace, Free, Record
  <1>2. ContainerInv /\ [ConNext]_conVars => ContainerInv'
    BY ContainerStep
  <1> QED
    BY <1>1, <1>2, PTL DEF ConSpec

\* A container that Docker runs or is about to run has a permit unless it was
\* dropped, and it is tracked or docker kill was issued for it, for any number of
\* coordinators, channels and containers (Container::new, shutdown, the order in
\* which the parts of a Container are dropped).
THEOREM ContainersAccountedFor == ConSpec => []LiveContainersAccounted
  <1>1. ContainerInv => LiveContainersAccounted
    BY DEF ContainerInv, InPlace, Free, Record, LiveContainersAccounted
  <1> QED
    BY <1>1, ContainersInPlace, PTL

\* The containers that Docker runs or is about to run and that nobody dropped.
Counted == {k \in Slot : con[k].docker # "gone" /\ con[k].pos # "dropped"}

\* At most `container_limit` containers are made, used, shut down or undone at
\* once, however calls, failures, idling and Docker's delays interleave; beyond
\* it are only those that were dropped and that their docker kill has not yet
\* reached (Global::next_container, Container::new, Container::shutdown).
THEOREM LimitKept == ConSpec => [](Cardinality(Counted) <= Limit)
  <1> DEFINE Few == Cardinality(Held) <= Limit
  <1>0. ASSUME NEW S, S \subseteq Slot
        PROVE  IsFiniteSet(S) /\ Cardinality(S) \in Nat
    BY <1>0, FS_Subset, FS_CardinalityType, ContainerAssumption
  <1> USE ContainerAssumption
  <1>1. ConInit => Few
    <2> SUFFICES ASSUME ConInit PROVE Few
      OBVIOUS
    <2>1. Held = {}
      BY DEF ConInit, Held, Free
    <2> QED
      BY <2>1, FS_EmptySet
  <1>2. ContainerInv /\ Few /\ [ConNext]_conVars => Few'
    <2> SUFFICES ASSUME ContainerInv, Few, [ConNext]_conVars PROVE Few'
      OBVIOUS
    <2>1. IsFiniteSet(Held) /\ Cardinality(Held) \in Nat
          /\ IsFiniteSet(Held') /\ Cardinality(Held') \in Nat
      BY <1>0 DEF Held
    <2>2. CASE Kept
      <3>1. Held' \subseteq Held
        BY <2>2 DEF Kept, Held
      <3>2. Cardinality(Held') <= Cardinality(Held)
        BY <2>1, <3>1, FS_Subset
      <3> QED
        BY <2>1, <3>2
    <2>3. ASSUME NEW c \in Coordinator, NEW ch \in Channel, StartContainer(c, ch)
          PROVE  Few'
      <3>1. Cardinality(Held) < Limit
        BY <2>3 DEF StartContainer, CanStart
      <3>2. PICK k \in Slot : \A l \in Slot \ {k} : con'[l] = con[l]
        BY <2>3, StartInPlace
      <3>3. Held' \subseteq Held \cup {k}
        BY <3>2 DEF Held
      <3>4. /\ IsFiniteSet(Held \cup {k})
            /\ Cardinality(Held \cup {k}) \in Nat
            /\ Cardinality(Held \cup {k}) <= Cardinality(Held) + 1
        <4>1. /\ IsFiniteSet(Held \cup {k})
              /\ Cardinality(Held \cup {k}) \in {Cardinality(Held), Cardinality(Held) + 1}
          BY <2>1, FS_AddElement, Zenon
        <4> QED
          BY <2>1, <4>1
      <3>5. Cardinality(Held') <= Cardinality(Held \cup {k})
        BY <3>3, <3>4, FS_Subset
      <3> QED
        BY <2>1, <3>1, <3>4, <3>5
    <2> QED
      BY <2>2, <2>3, ContainerStep
  <1>3. ContainerInv /\ Few => Cardinality(Counted) <= Limit
    <2> SUFFICES ASSUME ContainerInv, Few PROVE Cardinality(Counted) <= Limit
      OBVIOUS
    <2>1. Counted \subseteq Held
      BY DEF Counted, Held, ContainerInv, InPlace, Free, Record
    <2>2. Cardinality(Counted) <= Cardinality(Held)
      BY <1>0, <2>1, FS_Subset DEF Held
    <2> QED
      BY <1>0, <2>2 DEF Counted, Held
  <1> HIDE DEF Few
  <1> QED
    BY <1>1, <1>2, <1>3, ContainersInPlace, PTL DEF ConSpec
=============================================================================
