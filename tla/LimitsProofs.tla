---------------------------- MODULE LimitsProofs ----------------------------
(***************************************************************************)
(* Proofs about Limits for any finite set of clients and any limits.       *)
(*                                                                         *)
(* The counting invariants are not inductive by themselves: a permit can   *)
(* only be handed to the head of a queue because everybody in the queue    *)
(* waits and nobody in it was handed a permit before.  Inv adds this for   *)
(* both semaphores, and that ids in use are below the counter.             *)
(***************************************************************************)
EXTENDS Limits, FiniteSetTheorems, TLAPS

CSP == INSTANCE SemaphoreProofs WITH permits <- containerPermits,
                              queue <- containerQueue, granted <- containerGranted
PSP == INSTANCE SemaphoreProofs WITH permits <- processPermits,
                              queue <- processQueue, granted <- processGranted
RSP == INSTANCE SemaphoreProofs WITH permits <- requestPermits,
                              queue <- requestQueue, granted <- requestGranted

ContainerInv ==
    /\ CSP!Good(At(container, {"waiting"}))
    /\ CSP!Supply + Count(container, Owning) = ContainerLimit

ProcessInv ==
    /\ PSP!Good(At(process, {"waiting"}))
    /\ PSP!Supply + Count(process, Owning) = ProcessLimit

NameInv ==
    /\ \A c \in Client : container[c] # "none" => name[c] < id
    /\ UniqueNames

Inv == TypeOK /\ ContainerInv /\ ProcessInv /\ NameInv /\ GaugesExact

-----------------------------------------------------------------------------
\* Moving one client to another stage adds it to, or takes it from, the
\* clients counted at a set of stages.
LEMMA CountMove ==
    ASSUME NEW f \in [Client -> Stage], NEW c \in Client, NEW to \in Stage, NEW S
    PROVE  /\ Count(f, S) \in Nat
           /\ Count([f EXCEPT ![c] = to], S) =
                IF to \in S THEN IF f[c] \in S THEN Count(f, S) ELSE Count(f, S) + 1
                            ELSE IF f[c] \in S THEN Count(f, S) - 1 ELSE Count(f, S)
  <1>1. IsFiniteSet(At(f, S)) /\ (f[c] \in S <=> c \in At(f, S))
    BY LimitsAssumption, FS_Subset DEF At
  <1>2. Count(f, S) \in Nat
    BY <1>1, FS_CardinalityType DEF Count
  <1>3. CASE to \in S
    <2>1. At([f EXCEPT ![c] = to], S) = At(f, S) \cup {c}
      BY <1>3 DEF At
    <2> QED
      BY <1>1, <1>2, <1>3, <2>1, FS_AddElement DEF Count
  <1>4. CASE to \notin S
    <2>1. At([f EXCEPT ![c] = to], S) = At(f, S) \ {c}
      BY <1>4 DEF At
    <2> QED
      BY <1>1, <1>2, <1>4, <2>1, FS_RemoveElement DEF Count
  <1> QED
    BY <1>3, <1>4

\* The semaphore operations named by Limits and by the lemmas are the same.
LEMMA SameOperations ==
    ASSUME NEW c
    PROVE  /\ CS!TypeOK = CSP!TypeOK /\ CS!TryAcquire = CSP!TryAcquire
           /\ CS!Enqueue(c) = CSP!Enqueue(c) /\ CS!Take(c) = CSP!Take(c)
           /\ CS!Release = CSP!Release /\ CS!Cancel(c) = CSP!Cancel(c)
           /\ PS!TypeOK = PSP!TypeOK /\ PS!TryAcquire = PSP!TryAcquire
           /\ PS!Enqueue(c) = PSP!Enqueue(c) /\ PS!Take(c) = PSP!Take(c)
           /\ PS!Release = PSP!Release /\ PS!Cancel(c) = PSP!Cancel(c)
           /\ RS!TypeOK = RSP!TypeOK /\ RS!TryAcquire = RSP!TryAcquire
           /\ RS!Enqueue(c) = RSP!Enqueue(c) /\ RS!Take(c) = RSP!Take(c)
           /\ RS!Release = RSP!Release /\ RS!Cancel(c) = RSP!Cancel(c)
  BY DEF CS!TypeOK, CSP!TypeOK, CS!TryAcquire, CSP!TryAcquire,
         CS!Enqueue, CSP!Enqueue, CS!Take, CSP!Take, CS!Release, CSP!Release,
         CS!HandOver, CSP!HandOver, CS!Cancel, CSP!Cancel, CS!Without, CSP!Without,
         PS!TypeOK, PSP!TypeOK, PS!TryAcquire, PSP!TryAcquire,
         PS!Enqueue, PSP!Enqueue, PS!Take, PSP!Take, PS!Release, PSP!Release,
         PS!HandOver, PSP!HandOver, PS!Cancel, PSP!Cancel, PS!Without, PSP!Without,
         RS!TypeOK, RSP!TypeOK, RS!TryAcquire, RSP!TryAcquire,
         RS!Enqueue, RSP!Enqueue, RS!Take, RSP!Take, RS!Release, RSP!Release,
         RS!HandOver, RSP!HandOver, RS!Cancel, RSP!Cancel, RS!Without, RSP!Without

\* Cardinality and finiteness are the same in both modules.
LEMMA SameCardinality ==
    ASSUME NEW S
    PROVE  /\ CSP!Cardinality(S) = Cardinality(S) /\ CSP!IsFiniteSet(S) = IsFiniteSet(S)
           /\ PSP!Cardinality(S) = Cardinality(S) /\ PSP!IsFiniteSet(S) = IsFiniteSet(S)
  BY Zenon DEF CSP!Cardinality, PSP!Cardinality, Cardinality,
               CSP!IsFiniteSet, PSP!IsFiniteSet, IsFiniteSet

\* What the container invariant says after a step, from what the step does to
\* the semaphore and to the stage of one client.
LEMMA ContainerMove ==
    ASSUME Inv, NEW c \in Client, NEW from \in Stage, NEW to \in Stage, MoveC(c, from, to)
    PROVE  /\ At(container', {"waiting"}) =
                IF to = "waiting" THEN At(container, {"waiting"}) \cup {c}
                                  ELSE At(container, {"waiting"}) \ {c}
           /\ Count(container, Owning) \in Nat
           /\ Count(container', Owning) =
                IF to \in Owning
                  THEN IF from \in Owning THEN Count(container, Owning)
                                          ELSE Count(container, Owning) + 1
                  ELSE IF from \in Owning THEN Count(container, Owning) - 1
                                          ELSE Count(container, Owning)
           /\ container' \in [Client -> Stage]
           /\ from = "waiting" <=> c \in At(container, {"waiting"})
  <1>1. container \in [Client -> Stage] /\ container[c] = from
        /\ container' = [container EXCEPT ![c] = to]
    BY DEF Inv, TypeOK, MoveC
  <1>2. At(container', {"waiting"}) =
                IF to = "waiting" THEN At(container, {"waiting"}) \cup {c}
                                  ELSE At(container, {"waiting"}) \ {c}
    BY <1>1 DEF At
  <1>3. from = "waiting" <=> c \in At(container, {"waiting"})
    BY <1>1 DEF At
  <1> QED
    BY <1>1, <1>2, <1>3, CountMove

\* Every container step keeps the container semaphore's books.
LEMMA ContainerStepInv ==
    ASSUME Inv, NEW c \in Client, ContainerStep(c)
    PROVE  ContainerInv'
  <1> DEFINE w == At(container, {"waiting"})
             w1 == At(container', {"waiting"})
  <1>0. /\ CSP!Good(w) /\ CSP!Supply \in Nat /\ w \subseteq Client
        /\ CSP!Supply + Count(container, Owning) = ContainerLimit
        /\ IsFiniteSet(Client) /\ w1 \subseteq Client
    BY CSP!SupplyType, LimitsAssumption DEF Inv, ContainerInv, CSP!Good, At
  <1> SUFFICES /\ CSP!TypeOK' /\ CSP!Waiters(containerQueue', containerGranted', w1)
               /\ CSP!Supply' + Count(container', Owning) = ContainerLimit
    BY <1>0 DEF ContainerInv, CSP!Good
  <1>1. ASSUME NEW from \in Stage, NEW to \in Stage, MoveC(c, from, to),
               UNCHANGED containerVars, from # "waiting", to # "waiting",
               from \in Owning <=> to \in Owning
        PROVE  /\ CSP!TypeOK' /\ CSP!Waiters(containerQueue', containerGranted', w1)
               /\ CSP!Supply' + Count(container', Owning) = ContainerLimit
    <2>1. w1 = w /\ Count(container', Owning) = Count(container, Owning)
      BY <1>1, ContainerMove
    <2>2. CSP!TypeOK' = CSP!TypeOK /\ CSP!Supply' = CSP!Supply
      BY <1>1 DEF containerVars, CSP!TypeOK, CSP!Supply
    <2> QED
      BY <1>0, <1>1, <2>1, <2>2 DEF containerVars, CSP!Good
  <1>2. ASSUME NEW from \in Stage \ Owning, from # "waiting",
               MoveC(c, from, "acquired"), CS!TryAcquire
        PROVE  /\ CSP!TypeOK' /\ CSP!Waiters(containerQueue', containerGranted', w1)
               /\ CSP!Supply' + Count(container', Owning) = ContainerLimit
    <2>1. w1 = w /\ Count(container', Owning) = Count(container, Owning) + 1
          /\ Count(container, Owning) \in Nat
      <3>1. from \in Stage /\ "acquired" \in Stage /\ "acquired" \in Owning /\ from \notin Owning
        BY <1>2 DEF Stage, Owning
      <3>2. c \notin w
        BY <1>2, <3>1, ContainerMove
      <3> QED
        BY <1>2, <3>1, <3>2, ContainerMove
    <2>2. CSP!TypeOK' /\ CSP!Waiters(containerQueue', containerGranted', w)
          /\ CSP!Supply' = CSP!Supply - 1
      BY <1>0, <1>2, SameOperations, CSP!TryAcquireStep
    <2> HIDE DEF w, w1
    <2> QED
      BY <1>0, <2>1, <2>2
  <1>3. CASE NextContainer(c)
    BY <1>1, <1>3 DEF NextContainer, Stage, Owning
  <1>4. CASE TryAcquireContainer(c)
    BY <1>1, <1>2, <1>4 DEF TryAcquireContainer, Stage, Owning
  <1>5. CASE NotifyIdle(c)
    BY <1>1, <1>5 DEF NotifyIdle, Stage, Owning
  <1>6. CASE AcquireContainer(c)
    <2>1. CASE MoveC(c, "asking", "acquired") /\ CS!TryAcquire
      BY <1>2, <2>1 DEF Stage, Owning
    <2>2. CASE MoveC(c, "asking", "waiting") /\ CS!Enqueue(c)
      <3>1. w1 = w \cup {c} /\ c \notin w
            /\ Count(container', Owning) = Count(container, Owning)
        BY <2>2, ContainerMove DEF Stage, Owning
      <3> QED
        BY <1>0, <2>2, <3>1, SameOperations, CSP!EnqueueStep
    <2> QED
      BY <1>6, <2>1, <2>2 DEF AcquireContainer
  <1>7. CASE ContainerHandedOver(c)
    <2>1. w1 = w \ {c} /\ Count(container', Owning) = Count(container, Owning) + 1
          /\ Count(container, Owning) \in Nat
      BY <1>7, ContainerMove DEF ContainerHandedOver, Stage, Owning
    <2>2. CS!Take(c)
      BY <1>7 DEF ContainerHandedOver
    <2>3. CSP!TypeOK' /\ CSP!Waiters(containerQueue', containerGranted', w \ {c})
          /\ CSP!Supply' = CSP!Supply - 1
      BY <1>0, <2>2, SameOperations, CSP!TakeStep
    <2> HIDE DEF w, w1
    <2> QED
      BY <1>0, <2>1, <2>3
  <1>8. CASE CompleteContainer(c)
    BY <1>1, <1>8 DEF CompleteContainer, Stage, Owning
  <1>9. CASE AbortContainer(c)
    <2>1. w1 = w \ {c} /\ c \in w /\ Count(container', Owning) = Count(container, Owning)
      BY <1>9, ContainerMove DEF AbortContainer, Stage, Owning
    <2>2. CS!Cancel(c)
      BY <1>9 DEF AbortContainer
    <2> QED
      BY <1>0, <2>1, <2>2, SameOperations, CSP!CancelStep
  <1>10. CASE DropContainer(c)
    BY <1>1, <1>10 DEF DropContainer, Stage, Owning
  <1>11. CASE ReturnContainerPermit(c)
    <2>1. w1 = w /\ Count(container', Owning) = Count(container, Owning) - 1
          /\ Count(container, Owning) \in Nat
      BY <1>11, ContainerMove DEF ReturnContainerPermit, Stage, Owning
    <2>2. CS!Release
      BY <1>11 DEF ReturnContainerPermit
    <2>3. CSP!TypeOK' /\ CSP!Waiters(containerQueue', containerGranted', w)
          /\ CSP!Supply' = CSP!Supply + 1
      BY <1>0, <2>2, SameOperations, CSP!ReleaseStep
    <2> HIDE DEF w, w1
    <2> QED
      BY <1>0, <2>1, <2>3
  <1> QED
    BY <1>3, <1>4, <1>5, <1>6, <1>7, <1>8, <1>9, <1>10, <1>11 DEF ContainerStep

\* What the process invariant says after a step, from what the step does to
\* the semaphore and to the stage of one client.
LEMMA ProcessMove ==
    ASSUME Inv, NEW c \in Client, NEW from \in Stage, NEW to \in Stage, MoveP(c, from, to)
    PROVE  /\ At(process', {"waiting"}) =
                IF to = "waiting" THEN At(process, {"waiting"}) \cup {c}
                                  ELSE At(process, {"waiting"}) \ {c}
           /\ Count(process, Owning) \in Nat
           /\ Count(process', Owning) =
                IF to \in Owning
                  THEN IF from \in Owning THEN Count(process, Owning)
                                          ELSE Count(process, Owning) + 1
                  ELSE IF from \in Owning THEN Count(process, Owning) - 1
                                          ELSE Count(process, Owning)
           /\ process' \in [Client -> Stage]
           /\ from = "waiting" <=> c \in At(process, {"waiting"})
  <1>1. process \in [Client -> Stage] /\ process[c] = from
        /\ process' = [process EXCEPT ![c] = to]
    BY DEF Inv, TypeOK, MoveP, Stage
  <1>2. At(process', {"waiting"}) =
                IF to = "waiting" THEN At(process, {"waiting"}) \cup {c}
                                  ELSE At(process, {"waiting"}) \ {c}
    BY <1>1 DEF At
  <1>3. from = "waiting" <=> c \in At(process, {"waiting"})
    BY <1>1 DEF At
  <1> QED
    BY <1>1, <1>2, <1>3, CountMove

\* Every process step keeps the process semaphore's books.
LEMMA ProcessStepInv ==
    ASSUME Inv, NEW c \in Client, ProcessStep(c)
    PROVE  ProcessInv'
  <1> DEFINE w == At(process, {"waiting"})
             w1 == At(process', {"waiting"})
  <1>0. /\ PSP!Good(w) /\ PSP!Supply \in Nat /\ w \subseteq Client
        /\ PSP!Supply + Count(process, Owning) = ProcessLimit
        /\ IsFiniteSet(Client) /\ w1 \subseteq Client
    BY PSP!SupplyType, LimitsAssumption DEF Inv, ProcessInv, PSP!Good, At
  <1> SUFFICES /\ PSP!TypeOK' /\ PSP!Waiters(processQueue', processGranted', w1)
               /\ PSP!Supply' + Count(process', Owning) = ProcessLimit
    BY <1>0 DEF ProcessInv, PSP!Good
  <1>1. ASSUME NEW from \in Stage, NEW to \in Stage, MoveP(c, from, to),
               UNCHANGED processVars, from # "waiting", to # "waiting",
               from \in Owning <=> to \in Owning
        PROVE  /\ PSP!TypeOK' /\ PSP!Waiters(processQueue', processGranted', w1)
               /\ PSP!Supply' + Count(process', Owning) = ProcessLimit
    <2>1. w1 = w /\ Count(process', Owning) = Count(process, Owning)
      BY <1>1, ProcessMove
    <2>2. PSP!TypeOK' = PSP!TypeOK /\ PSP!Supply' = PSP!Supply
      BY <1>1 DEF processVars, PSP!TypeOK, PSP!Supply
    <2> QED
      BY <1>0, <1>1, <2>1, <2>2 DEF processVars, PSP!Good
  <1>2. CASE NextProcess(c)
    BY <1>1, <1>2 DEF NextProcess, Stage, Owning
  <1>3. CASE AcquireProcess(c)
    <2>1. CASE MoveP(c, "started", "acquired") /\ PS!TryAcquire
      <3>1. w1 = w /\ Count(process', Owning) = Count(process, Owning) + 1
            /\ Count(process, Owning) \in Nat
        BY <2>1, ProcessMove DEF Stage, Owning
      <3>2. PSP!TypeOK' /\ PSP!Waiters(processQueue', processGranted', w)
            /\ PSP!Supply' = PSP!Supply - 1
        BY <1>0, <2>1, SameOperations, PSP!TryAcquireStep
      <3> HIDE DEF w, w1
      <3> QED
        BY <1>0, <3>1, <3>2
    <2>2. CASE MoveP(c, "started", "waiting") /\ PS!Enqueue(c)
      <3>1. w1 = w \cup {c} /\ c \notin w
            /\ Count(process', Owning) = Count(process, Owning)
        BY <2>2, ProcessMove DEF Stage, Owning
      <3> QED
        BY <1>0, <2>2, <3>1, SameOperations, PSP!EnqueueStep
    <2> QED
      BY <1>3, <2>1, <2>2 DEF AcquireProcess
  <1>4. CASE ProcessHandedOver(c)
    <2>1. w1 = w \ {c} /\ Count(process', Owning) = Count(process, Owning) + 1
          /\ Count(process, Owning) \in Nat
      BY <1>4, ProcessMove DEF ProcessHandedOver, Stage, Owning
    <2>2. PS!Take(c)
      BY <1>4 DEF ProcessHandedOver
    <2>3. PSP!TypeOK' /\ PSP!Waiters(processQueue', processGranted', w \ {c})
          /\ PSP!Supply' = PSP!Supply - 1
      BY <1>0, <2>2, SameOperations, PSP!TakeStep
    <2> HIDE DEF w, w1
    <2> QED
      BY <1>0, <2>1, <2>3
  <1>5. CASE CompleteProcess(c)
    BY <1>1, <1>5 DEF CompleteProcess, Stage, Owning
  <1>6. CASE AbortProcess(c)
    <2>1. w1 = w \ {c} /\ c \in w /\ Count(process', Owning) = Count(process, Owning)
      BY <1>6, ProcessMove DEF AbortProcess, Stage, Owning
    <2>2. PS!Cancel(c)
      BY <1>6 DEF AbortProcess
    <2> QED
      BY <1>0, <2>1, <2>2, SameOperations, PSP!CancelStep
  <1>7. CASE DropProcess(c)
    BY <1>1, <1>7 DEF DropProcess, Stage, Owning
  <1>8. CASE ReturnProcessPermit(c)
    <2>1. w1 = w /\ Count(process', Owning) = Count(process, Owning) - 1
          /\ Count(process, Owning) \in Nat
      BY <1>8, ProcessMove DEF ReturnProcessPermit, Stage, Owning
    <2>2. PS!Release
      BY <1>8 DEF ReturnProcessPermit
    <2>3. PSP!TypeOK' /\ PSP!Waiters(processQueue', processGranted', w)
          /\ PSP!Supply' = PSP!Supply + 1
      BY <1>0, <2>2, SameOperations, PSP!ReleaseStep
    <2> HIDE DEF w, w1
    <2> QED
      BY <1>0, <2>1, <2>3
  <1> QED
    BY <1>2, <1>3, <1>4, <1>5, <1>6, <1>7, <1>8 DEF ProcessStep

-----------------------------------------------------------------------------
\* The part of a step that leaves the stages of one kind alone leaves what is
\* known about its semaphore alone.
LEMMA Unchanged ==
    ASSUME Inv
    PROVE  /\ UNCHANGED <<containerVars, container>> => ContainerInv'
           /\ UNCHANGED <<processVars, process>> => ProcessInv'
  <1>1. ASSUME UNCHANGED <<containerVars, container>> PROVE ContainerInv'
    BY <1>1 DEF Inv, ContainerInv, containerVars, CSP!Good, CSP!TypeOK, CSP!Supply,
                CSP!Waiters, At, Count
  <1>2. ASSUME UNCHANGED <<processVars, process>> PROVE ProcessInv'
    BY <1>2 DEF Inv, ProcessInv, processVars, PSP!Good, PSP!TypeOK, PSP!Supply,
                PSP!Waiters, At, Count
  <1> QED
    BY <1>1, <1>2

\* Every step keeps the types.
LEMMA TypeStep ==
    ASSUME Inv, NEW c \in Client, ContainerStep(c) \/ ProcessStep(c) \/ RequestStep(c),
           ContainerInv', ProcessInv'
    PROVE  TypeOK'
  <1>1. CS!TypeOK' /\ PS!TypeOK'
    BY DEF ContainerInv, ProcessInv, CSP!Good, PSP!Good, CS!TypeOK, CSP!TypeOK,
           PS!TypeOK, PSP!TypeOK
  <1>2. RS!TypeOK'
    <2>1. RSP!TypeOK
      BY SameOperations DEF Inv, TypeOK
    <2>2. CASE UNCHANGED requestVars
      BY <2>2 DEF Inv, TypeOK, RS!TypeOK, requestVars
    <2>3. CASE RSP!TryAcquire \/ RSP!Enqueue(c) \/ RSP!Take(c) \/ RSP!Release \/ RSP!Cancel(c)
      <3>1. RSP!TypeOK'
        BY <2>1, <2>3, RSP!StepType
      <3> QED
        BY <3>1 DEF RS!TypeOK, RSP!TypeOK
    <2>4. \/ UNCHANGED requestVars
          \/ RS!TryAcquire \/ RS!Enqueue(c) \/ RS!Take(c) \/ RS!Release \/ RS!Cancel(c)
      BY DEF ContainerStep, ProcessStep, RequestStep, NextContainer, TryAcquireContainer,
             NotifyIdle, AcquireContainer, ContainerHandedOver, CompleteContainer,
             AbortContainer, DropContainer, ReturnContainerPermit, NextProcess,
             AcquireProcess, ProcessHandedOver, CompleteProcess, AbortProcess,
             DropProcess, ReturnProcessPermit, ContainerRequested, StopWatching
    <2> QED
      BY <2>2, <2>3, <2>4, SameOperations
  <1>3. /\ id' \in Nat /\ name' \in [Client -> Nat] /\ container' \in [Client -> Stage]
        /\ process' \in [Client -> Stage \ {"refused", "asking"}]
        /\ gauge' \in [Gauges -> Int]
    <2> USE DEF Inv, TypeOK, Stage, Gauges, MoveC, MoveP
    <2>1. CASE ContainerStep(c)
      BY <2>1 DEF ContainerStep, NextContainer, TryAcquireContainer,
             NotifyIdle, AcquireContainer, ContainerHandedOver, CompleteContainer,
             AbortContainer, DropContainer, ReturnContainerPermit,
             ContainerStart, ContainerAcquired, ContainerAborted, ContainerRelease
    <2>2. CASE ProcessStep(c)
      BY <2>2 DEF ProcessStep, NextProcess,
             AcquireProcess, ProcessHandedOver, CompleteProcess, AbortProcess,
             DropProcess, ReturnProcessPermit,
             ProcessStart, ProcessAcquired, ProcessAborted, ProcessRelease
    <2>3. CASE RequestStep(c)
      BY <2>3 DEF RequestStep, ContainerRequested, StopWatching
    <2> QED
      BY <2>1, <2>2, <2>3
  <1> QED
    BY <1>1, <1>2, <1>3 DEF TypeOK

\* An id is given out once.
LEMMA NameStep ==
    ASSUME Inv, NEW c \in Client, ContainerStep(c) \/ ProcessStep(c) \/ RequestStep(c)
    PROVE  NameInv'
  <1> USE DEF Inv, TypeOK, NameInv, UniqueNames
  <1>1. CASE NextContainer(c)
    BY <1>1 DEF NextContainer, MoveC
  <1>2. CASE UNCHANGED <<id, name, container>>
    BY <1>2
  <1>3. CASE UNCHANGED <<id, name>> /\ \E from \in Stage \ {"none"}, to \in Stage : MoveC(c, from, to)
    BY <1>3 DEF MoveC
  <1>4. \/ NextContainer(c) \/ UNCHANGED <<id, name, container>>
        \/ UNCHANGED <<id, name>> /\ \E from \in Stage \ {"none"}, to \in Stage : MoveC(c, from, to)
    BY DEF ContainerStep, ProcessStep, RequestStep, TryAcquireContainer, Stage,
           NotifyIdle, AcquireContainer, ContainerHandedOver, CompleteContainer,
           AbortContainer, DropContainer, ReturnContainerPermit, NextProcess,
           AcquireProcess, ProcessHandedOver, CompleteProcess, AbortProcess,
           DropProcess, ReturnProcessPermit, ContainerRequested, StopWatching
  <1> QED
    BY <1>1, <1>2, <1>3, <1>4

\* Every step moves the gauges by what it moves the stages.
LEMMA GaugeStep ==
    ASSUME Inv, NEW c \in Client, ContainerStep(c) \/ ProcessStep(c) \/ RequestStep(c)
    PROVE  GaugesExact'
  <1> DEFINE d(from, to, S) == (IF to \in S THEN 1 ELSE 0) - (IF from \in S THEN 1 ELSE 0)
  <1>0. /\ container \in [Client -> Stage] /\ process \in [Client -> Stage]
        /\ gauge \in [Gauges -> Int] /\ GaugesExact
    BY DEF Inv, TypeOK, Stage
  <1>1. ASSUME NEW from \in Stage, NEW to \in Stage, MoveC(c, from, to), UNCHANGED process,
               gauge' = [gauge EXCEPT !["containerQueue"] = @ + d(from, to, Queued),
                                      !["containerActive"] = @ + d(from, to, {"held"})]
        PROVE  GaugesExact'
    <2>1. container' = [container EXCEPT ![c] = to] /\ container[c] = from
      BY <1>1 DEF MoveC
    <2>2. ASSUME NEW S
          PROVE  /\ Count(container, S) \in Nat
                 /\ Count(container', S) = Count(container, S) + d(from, to, S)
      <3>1. /\ Count(container, S) \in Nat
            /\ Count(container', S) =
                 IF to \in S THEN IF from \in S THEN Count(container, S) ELSE Count(container, S) + 1
                             ELSE IF from \in S THEN Count(container, S) - 1 ELSE Count(container, S)
        BY <1>0, <2>1, CountMove
      <3> QED
        BY <3>1
    <2>3. Count(process', Queued) = Count(process, Queued)
          /\ Count(process', {"held"}) = Count(process, {"held"})
      BY <1>1
    <2> HIDE DEF d
    <2> QED
      BY <1>0, <1>1, <2>2, <2>3 DEF GaugesExact, Gauges
  <1>2. ASSUME NEW from \in Stage, NEW to \in Stage, MoveP(c, from, to), UNCHANGED container,
               gauge' = [gauge EXCEPT !["processQueue"] = @ + d(from, to, Queued),
                                      !["processActive"] = @ + d(from, to, {"held"})]
        PROVE  GaugesExact'
    <2>1. process' = [process EXCEPT ![c] = to] /\ process[c] = from
      BY <1>2 DEF MoveP
    <2>2. ASSUME NEW S
          PROVE  /\ Count(process, S) \in Nat
                 /\ Count(process', S) = Count(process, S) + d(from, to, S)
      <3>1. /\ Count(process, S) \in Nat
            /\ Count(process', S) =
                 IF to \in S THEN IF from \in S THEN Count(process, S) ELSE Count(process, S) + 1
                             ELSE IF from \in S THEN Count(process, S) - 1 ELSE Count(process, S)
        BY <1>0, <2>1, CountMove
      <3> QED
        BY <3>1
    <2>3. Count(container', Queued) = Count(container, Queued)
          /\ Count(container', {"held"}) = Count(container, {"held"})
      BY <1>2
    <2> HIDE DEF d
    <2> QED
      BY <1>0, <1>2, <2>2, <2>3 DEF GaugesExact, Gauges
  <1>3. CASE ContainerStep(c)
    BY <1>0, <1>1, <1>3 DEF ContainerStep, NextContainer, TryAcquireContainer,
             NotifyIdle, AcquireContainer, ContainerHandedOver, CompleteContainer,
             AbortContainer, DropContainer, ReturnContainerPermit, Stage, Queued, Gauges,
             ContainerStart, ContainerAcquired, ContainerAborted, ContainerRelease
  <1>4. CASE ProcessStep(c)
    BY <1>0, <1>2, <1>4 DEF ProcessStep, NextProcess,
             AcquireProcess, ProcessHandedOver, CompleteProcess, AbortProcess,
             DropProcess, ReturnProcessPermit, Stage, Queued, Gauges,
             ProcessStart, ProcessAcquired, ProcessAborted, ProcessRelease
  <1>5. CASE RequestStep(c)
    BY <1>0, <1>5 DEF RequestStep, ContainerRequested, StopWatching, GaugesExact
  <1> QED
    BY <1>3, <1>4, <1>5

-----------------------------------------------------------------------------
\* Nothing is acquired at the start: all permits are free.
LEMMA InitInv == Init => Inv
  <1> SUFFICES ASSUME Init PROVE Inv
    OBVIOUS
  <1>1. \A S : "none" \notin S => At(container, S) = {} /\ At(process, S) = {}
    BY DEF Init, At
  <1>2. \A S : "none" \notin S => Count(container, S) = 0 /\ Count(process, S) = 0
    BY <1>1, FS_EmptySet DEF Count
  <1>3. TypeOK
    BY LimitsAssumption DEF Init, TypeOK, CS!Init, PS!Init, RS!Init,
           CS!TypeOK, PS!TypeOK, RS!TypeOK, Stage, Gauges
  <1>4. GaugesExact
    BY <1>2 DEF Init, GaugesExact, Queued, Gauges
  <1>5. ContainerInv
    BY <1>2, SameCardinality, LimitsAssumption, FS_EmptySet DEF Init, CS!Init, ContainerInv, CSP!Good,
           CSP!TypeOK, CSP!Waiters, CSP!Supply, At, Owning
  <1>6. ProcessInv
    BY <1>2, SameCardinality, LimitsAssumption, FS_EmptySet DEF Init, PS!Init, ProcessInv, PSP!Good,
           PSP!TypeOK, PSP!Waiters, PSP!Supply, At, Owning
  <1>7. NameInv
    BY DEF Init, NameInv, UniqueNames
  <1> QED
    BY <1>3, <1>4, <1>5, <1>6, <1>7 DEF Inv

\* Every step keeps the inductive invariant.
LEMMA StepInv == Inv /\ [Next]_vars => Inv'
  <1> SUFFICES ASSUME Inv, [Next]_vars PROVE Inv'
    OBVIOUS
  <1>1. CASE UNCHANGED vars
    <2>1. ContainerInv' /\ ProcessInv'
      BY <1>1, Unchanged DEF vars
    <2> QED
      BY <1>1, <2>1 DEF vars, containerVars, processVars, requestVars, Inv, TypeOK,
             CS!TypeOK, PS!TypeOK, RS!TypeOK, NameInv, UniqueNames, GaugesExact
  <1>2. ASSUME NEW c \in Client, ContainerStep(c) \/ ProcessStep(c) \/ RequestStep(c)
        PROVE  Inv'
    <2>1. ContainerInv'
      <3>1. CASE ContainerStep(c)
        BY <3>1, ContainerStepInv
      <3>2. CASE ProcessStep(c) \/ RequestStep(c)
        BY <3>2, Unchanged DEF ProcessStep, NextProcess,
             AcquireProcess, ProcessHandedOver, CompleteProcess, AbortProcess,
             DropProcess, ReturnProcessPermit, RequestStep, ContainerRequested, StopWatching
      <3> QED
        BY <1>2, <3>1, <3>2
    <2>2. ProcessInv'
      <3>1. CASE ProcessStep(c)
        BY <3>1, ProcessStepInv
      <3>2. CASE ContainerStep(c) \/ RequestStep(c)
        BY <3>2, Unchanged DEF ContainerStep, NextContainer, TryAcquireContainer,
             NotifyIdle, AcquireContainer, ContainerHandedOver, CompleteContainer,
             AbortContainer, DropContainer, ReturnContainerPermit,
             RequestStep, ContainerRequested, StopWatching
      <3> QED
        BY <1>2, <3>1, <3>2
    <2> QED
      BY <1>2, <2>1, <2>2, TypeStep, NameStep, GaugeStep DEF Inv
  <1> QED
    BY <1>1, <1>2 DEF Next

\* Limits keeps its inductive invariant.
THEOREM Invariance == Spec => []Inv
  BY InitInv, StepInv, PTL DEF Spec

\* Every reachable state of the limits is well typed.
THEOREM TypeCorrect == Spec => []TypeOK
  <1>1. Inv => TypeOK
    BY DEF Inv
  <1> QED
    BY <1>1, Invariance, PTL

\* For any number of clients and any limits, no container permit is ever lost or
\* made up, whichever futures are aborted and when,
THEOREM Conservation == Spec => []ContainerConservation
  <1>1. Inv => ContainerConservation
    BY SameCardinality DEF Inv, ContainerInv, ContainerConservation, CSP!Supply, ContainerOwners, Count
  <1> QED
    BY <1>1, Invariance, PTL

\* and no process permit.
THEOREM ProcessesConserved == Spec => []ProcessConservation
  <1>1. Inv => ProcessConservation
    BY SameCardinality DEF Inv, ProcessInv, ProcessConservation, PSP!Supply, ProcessOwners, Count
  <1> QED
    BY <1>1, Invariance, PTL

\* The lifecycle gauges are exact in every reachable state.
THEOREM GaugesAreExact == Spec => []GaugesExact
  <1>1. Inv => GaugesExact
    BY DEF Inv
  <1> QED
    BY <1>1, Invariance, PTL

\* No two containers under way or alive ever share a name.
THEOREM NamesAreUnique == Spec => []UniqueNames
  <1>1. Inv => UniqueNames
    BY DEF Inv, NameInv
  <1> QED
    BY <1>1, Invariance, PTL

\* next_container and its guards implement a pool of permits that is never
\* overdrawn: each step acquires for one client while a permit is left, returns
\* one permit, or leaves the owners alone.
THEOREM ContainerRefinement == Spec => ContainerPoolSpec
  <1>1. Init => ContainerPool!Init
    BY DEF Init, ContainerPool!Init, ContainerOwners, At, Owning
  <1>2. Inv /\ [Next]_vars => [ContainerPool!Next]_ContainerOwners
    <2> SUFFICES ASSUME Inv, NEW c \in Client, ContainerStep(c) \/ ProcessStep(c) \/ RequestStep(c)
                 PROVE  ContainerPool!Next \/ UNCHANGED ContainerOwners
      BY DEF Next, vars, ContainerOwners, At
    <2>0. container \in [Client -> Stage]
      BY DEF Inv, TypeOK, Stage
    <2>1. CASE ProcessStep(c) \/ RequestStep(c)
      BY <2>1 DEF ProcessStep, NextProcess,
             AcquireProcess, ProcessHandedOver, CompleteProcess, AbortProcess,
             DropProcess, ReturnProcessPermit,
             RequestStep, ContainerRequested, StopWatching, ContainerOwners, At
    <2>2. ASSUME NEW from \in Stage, NEW to \in Stage, MoveC(c, from, to),
                 from \in Owning <=> to \in Owning
          PROVE  UNCHANGED ContainerOwners
      BY <2>0, <2>2 DEF MoveC, ContainerOwners, At
    <2>3. ASSUME NEW from \in Stage \ Owning, MoveC(c, from, "acquired"),
                 containerPermits > 0 \/ c \in containerGranted
          PROVE  ContainerPool!Acquire(c)
      <3>1. /\ ContainerOwners' = ContainerOwners \cup {c} /\ c \notin ContainerOwners
            /\ Cardinality(ContainerOwners) = Count(container, Owning) /\ Count(container, Owning) \in Nat
        <4>1. ContainerOwners' = ContainerOwners \cup {c} /\ c \notin ContainerOwners
          BY <2>0, <2>3 DEF MoveC, ContainerOwners, At, Owning
        <4>2. Cardinality(ContainerOwners) = Count(container, Owning)
          BY DEF ContainerOwners, Count
        <4>3. Count(container, Owning) \in Nat
          BY <2>0, CountMove DEF Stage
        <4> QED
          BY <4>1, <4>2, <4>3
      <3>2. containerPermits + Cardinality(containerGranted) > 0 /\ containerPermits \in Nat
            /\ Cardinality(containerGranted) \in Nat
        <4>1. containerPermits \in Nat /\ IsFiniteSet(containerGranted)
          BY FS_Subset, LimitsAssumption DEF Inv, TypeOK, CS!TypeOK
        <4>2. Cardinality(containerGranted) \in Nat
              /\ (containerGranted # {} => Cardinality(containerGranted) # 0)
          BY <4>1, FS_EmptySet, FS_CardinalityType
        <4> QED
          BY <2>3, <4>1, <4>2
      <3>3. containerPermits + Cardinality(containerGranted) + Count(container, Owning) = ContainerLimit
        BY SameCardinality DEF Inv, ContainerInv, CSP!Supply
      <3>4. Cardinality(ContainerOwners) < ContainerLimit
        BY <3>1, <3>2, <3>3
      <3>5. ContainerPool!Cardinality(ContainerOwners) = Cardinality(ContainerOwners)
        BY Zenon DEF ContainerPool!Cardinality, Cardinality
      <3> QED
        BY <3>1, <3>4, <3>5 DEF ContainerPool!Acquire
    <2>4. ASSUME MoveC(c, "dropping", "none") PROVE ContainerPool!Return(c)
      BY <2>0, <2>4 DEF MoveC, ContainerOwners, At, Owning, ContainerPool!Return
    <2>5. CASE ContainerStep(c)
      BY <2>2, <2>3, <2>4, <2>5 DEF ContainerStep, NextContainer, TryAcquireContainer,
             NotifyIdle, AcquireContainer, ContainerHandedOver, CompleteContainer,
             AbortContainer, DropContainer, ReturnContainerPermit,
             CS!TryAcquire, CS!Take, Stage, Owning, ContainerPool!Next
    <2> QED
      BY <2>1, <2>5
  <1> QED
    BY <1>1, <1>2, Invariance, PTL DEF Spec, ContainerPoolSpec, ContainerPool!Spec

\* next_process and its guards implement a pool of permits that is never
\* overdrawn: each step acquires for one client while a permit is left, returns
\* one permit, or leaves the owners alone.
THEOREM ProcessRefinement == Spec => ProcessPoolSpec
  <1>1. Init => ProcessPool!Init
    BY DEF Init, ProcessPool!Init, ProcessOwners, At, Owning
  <1>2. Inv /\ [Next]_vars => [ProcessPool!Next]_ProcessOwners
    <2> SUFFICES ASSUME Inv, NEW c \in Client, ContainerStep(c) \/ ProcessStep(c) \/ RequestStep(c)
                 PROVE  ProcessPool!Next \/ UNCHANGED ProcessOwners
      BY DEF Next, vars, ProcessOwners, At
    <2>0. process \in [Client -> Stage]
      BY DEF Inv, TypeOK, Stage
    <2>1. CASE ContainerStep(c) \/ RequestStep(c)
      BY <2>1 DEF ContainerStep, NextContainer, TryAcquireContainer,
             NotifyIdle, AcquireContainer, ContainerHandedOver, CompleteContainer,
             AbortContainer, DropContainer, ReturnContainerPermit,
             RequestStep, ContainerRequested, StopWatching, ProcessOwners, At
    <2>2. ASSUME NEW from \in Stage, NEW to \in Stage, MoveP(c, from, to),
                 from \in Owning <=> to \in Owning
          PROVE  UNCHANGED ProcessOwners
      BY <2>0, <2>2 DEF MoveP, ProcessOwners, At
    <2>3. ASSUME NEW from \in Stage \ Owning, MoveP(c, from, "acquired"),
                 processPermits > 0 \/ c \in processGranted
          PROVE  ProcessPool!Acquire(c)
      <3>1. /\ ProcessOwners' = ProcessOwners \cup {c} /\ c \notin ProcessOwners
            /\ Cardinality(ProcessOwners) = Count(process, Owning) /\ Count(process, Owning) \in Nat
        <4>1. ProcessOwners' = ProcessOwners \cup {c} /\ c \notin ProcessOwners
          BY <2>0, <2>3 DEF MoveP, ProcessOwners, At, Owning
        <4>2. Cardinality(ProcessOwners) = Count(process, Owning)
          BY DEF ProcessOwners, Count
        <4>3. Count(process, Owning) \in Nat
          BY <2>0, CountMove DEF Stage
        <4> QED
          BY <4>1, <4>2, <4>3
      <3>2. processPermits + Cardinality(processGranted) > 0 /\ processPermits \in Nat
            /\ Cardinality(processGranted) \in Nat
        <4>1. processPermits \in Nat /\ IsFiniteSet(processGranted)
          BY FS_Subset, LimitsAssumption DEF Inv, TypeOK, PS!TypeOK
        <4>2. Cardinality(processGranted) \in Nat
              /\ (processGranted # {} => Cardinality(processGranted) # 0)
          BY <4>1, FS_EmptySet, FS_CardinalityType
        <4> QED
          BY <2>3, <4>1, <4>2
      <3>3. processPermits + Cardinality(processGranted) + Count(process, Owning) = ProcessLimit
        BY SameCardinality DEF Inv, ProcessInv, PSP!Supply
      <3>4. Cardinality(ProcessOwners) < ProcessLimit
        BY <3>1, <3>2, <3>3
      <3>5. ProcessPool!Cardinality(ProcessOwners) = Cardinality(ProcessOwners)
        BY Zenon DEF ProcessPool!Cardinality, Cardinality
      <3> QED
        BY <3>1, <3>4, <3>5 DEF ProcessPool!Acquire
    <2>4. ASSUME MoveP(c, "dropping", "none") PROVE ProcessPool!Return(c)
      BY <2>0, <2>4 DEF MoveP, ProcessOwners, At, Owning, ProcessPool!Return
    <2>5. CASE ProcessStep(c)
      BY <2>2, <2>3, <2>4, <2>5 DEF ProcessStep, NextProcess,
             AcquireProcess, ProcessHandedOver, CompleteProcess, AbortProcess,
             DropProcess, ReturnProcessPermit,
             PS!TryAcquire, PS!Take, Stage, Owning, ProcessPool!Next
    <2> QED
      BY <2>1, <2>5
  <1> QED
    BY <1>1, <1>2, Invariance, PTL DEF Spec, ProcessPoolSpec, ProcessPool!Spec
=============================================================================
