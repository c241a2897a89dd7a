-------------------------- MODULE SemaphoreProofs ---------------------------
(***************************************************************************)
(* What one step of a semaphore does to the permits it can give out and to *)
(* its queue, for any number of clients.  LimitsProofs and ContainerProofs *)
(* use the lemmas for each of their semaphores.                            *)
(***************************************************************************)
EXTENDS Semaphore, FiniteSetTheorems, TLAPS

\* The permits that are not owned by anybody.
Supply == permits + Cardinality(granted)

\* With w the tasks that wait: whoever is queued or was handed a permit waits,
\* nobody is both, nobody is queued twice.
Waiters(q, g, w) ==
    /\ g \subseteq w
    /\ \A i \in 1 .. Len(q) : q[i] \in w /\ q[i] \notin g
    /\ \A i, j \in 1 .. Len(q) : q[i] = q[j] => i = j

Good(w) == TypeOK /\ IsFiniteSet(Client) /\ w \subseteq Client /\ Waiters(queue, granted, w)

\* The permits that nobody owns are a natural number.
LEMMA SupplyType ==
    ASSUME TypeOK, IsFiniteSet(Client)
    PROVE  Supply \in Nat /\ IsFiniteSet(granted) /\ Cardinality(granted) \in Nat
  BY FS_Subset, FS_CardinalityType DEF TypeOK, Supply

\* try_acquire takes one permit and touches no waiter.
LEMMA TryAcquireStep ==
    ASSUME NEW w, Good(w), TryAcquire
    PROVE  TypeOK' /\ Waiters(queue', granted', w) /\ Supply' = Supply - 1
  <1>1. Cardinality(granted) \in Nat
    BY SupplyType DEF Good
  <1> QED
    BY <1>1 DEF Good, TypeOK, TryAcquire, Supply, Waiters

\* A task that starts to wait takes no permit.
LEMMA EnqueueStep ==
    ASSUME NEW w, Good(w), NEW c \in Client, c \notin w, Enqueue(c)
    PROVE  TypeOK' /\ Waiters(queue', granted', w \cup {c}) /\ Supply' = Supply
  <1>1. /\ queue' = Append(queue, c) /\ granted' = granted /\ permits' = permits
        /\ queue \in Seq(Client) /\ queue' \in Seq(Client)
    BY DEF Good, TypeOK, Enqueue
  <1>2. Len(queue') = Len(queue) + 1 /\ Len(queue) \in Nat
    BY <1>1
  <1>3. \A i \in 1 .. Len(queue') :
           queue'[i] = IF i = Len(queue) + 1 THEN c ELSE queue[i]
    BY <1>1, <1>2
  <1> QED
    BY <1>1, <1>2, <1>3 DEF Good, TypeOK, Supply, Waiters

\* A waiter that is polled after the hand-over owns the permit and no longer waits.
LEMMA TakeStep ==
    ASSUME NEW w, Good(w), NEW c \in Client, Take(c)
    PROVE  TypeOK' /\ Waiters(queue', granted', w \ {c}) /\ Supply' = Supply - 1
  <1>1. /\ queue' = queue /\ permits' = permits /\ granted' = granted \ {c} /\ c \in granted
    BY DEF Take
  <1>2. Cardinality(granted') = Cardinality(granted) - 1 /\ Cardinality(granted) \in Nat
    BY <1>1, SupplyType, FS_RemoveElement DEF Good
  <1> QED
    BY <1>1, <1>2 DEF Good, TypeOK, Supply, Waiters

\* A permit that comes back is free or handed to one waiter, never both.
LEMMA HandOverStep ==
    ASSUME NEW w, TypeOK, IsFiniteSet(Client), w \subseteq Client,
           NEW g \in SUBSET Client, Waiters(queue, g, w), HandOver(g)
    PROVE  /\ TypeOK' /\ Waiters(queue', granted', w)
           /\ Supply' = permits + Cardinality(g) + 1
  <1>0. IsFiniteSet(g) /\ Cardinality(g) \in Nat
    BY FS_Subset, FS_CardinalityType
  <1>1. CASE queue = <<>>
    BY <1>0, <1>1 DEF HandOver, TypeOK, Waiters, Supply
  <1>2. CASE queue # <<>>
    <2>1. /\ granted' = g \cup {Head(queue)} /\ queue' = Tail(queue) /\ permits' = permits
      BY <1>2 DEF HandOver
    <2>2. /\ queue \in Seq(Client) /\ Head(queue) = queue[1] /\ Len(queue) \in Nat \ {0}
          /\ queue' \in Seq(Client) /\ Len(queue') = Len(queue) - 1
          /\ \A i \in 1 .. Len(queue') : queue'[i] = queue[i + 1]
      BY <1>2, <2>1 DEF TypeOK
    <2>3. Head(queue) \in w /\ Head(queue) \notin g
      BY <2>2 DEF Waiters
    <2>4. Cardinality(granted') = Cardinality(g) + 1
      BY <1>0, <2>1, <2>3, FS_AddElement
    <2>5. TypeOK'
      BY <2>1, <2>2, <2>3 DEF TypeOK
    <2>6. Waiters(queue', granted', w)
      BY <2>1, <2>2, <2>3 DEF Waiters
    <2> QED
      BY <1>0, <2>1, <2>4, <2>5, <2>6 DEF Supply, TypeOK
  <1> QED
    BY <1>1, <1>2

\* Steps of a semaphore keep its type, whatever its clients do with it.
LEMMA StepType ==
    ASSUME TypeOK, NEW c \in Client,
           TryAcquire \/ Enqueue(c) \/ Take(c) \/ Release \/ Cancel(c)
    PROVE  TypeOK'
  <1>1. ASSUME NEW g \in SUBSET Client, HandOver(g) PROVE TypeOK'
    <2>1. CASE queue = <<>>
      BY <1>1, <2>1 DEF HandOver, TypeOK
    <2>2. CASE queue # <<>>
      <3>1. Head(queue) \in Client /\ Tail(queue) \in Seq(Client)
        BY <2>2 DEF TypeOK
      <3> QED
        BY <1>1, <2>2, <3>1 DEF HandOver, TypeOK
    <2> QED
      BY <2>1, <2>2
  <1>2. CASE Release
    BY <1>1, <1>2 DEF Release, TypeOK
  <1>3. CASE Cancel(c)
    <2>1. CASE c \in granted
      BY <1>1, <1>3, <2>1 DEF Cancel, TypeOK
    <2>2. CASE c \notin granted
      <3>1. PICK k \in 1 .. Len(queue) : queue' = Without(queue, k)
        BY <1>3, <2>2 DEF Cancel
      <3>2. \A j \in 1 .. Len(queue) - 1 : queue[j] \in Client /\ queue[j + 1] \in Client
        BY DEF TypeOK
      <3>3. queue' \in [1 .. Len(queue) - 1 -> Client] /\ Len(queue) \in Nat \ {0}
        BY <3>1, <3>2 DEF Without, TypeOK
      <3>4. queue' \in Seq(Client)
        BY <3>3
      <3> QED
        BY <1>3, <2>2, <3>4 DEF Cancel, TypeOK
    <2> QED
      BY <2>1, <2>2
  <1>4. CASE TryAcquire \/ Enqueue(c) \/ Take(c)
    BY <1>4 DEF TryAcquire, Enqueue, Take, TypeOK
  <1> QED
    BY <1>2, <1>3, <1>4

\* Returning a permit, or adding one, makes one more available.
LEMMA ReleaseStep ==
    ASSUME NEW w, Good(w), Release
    PROVE  TypeOK' /\ Waiters(queue', granted', w) /\ Supply' = Supply + 1
  BY HandOverStep DEF Good, TypeOK, Release, Supply

\* A future dropped while it waits neither keeps nor makes up a permit.
LEMMA CancelStep ==
    ASSUME NEW w, Good(w), NEW c \in w, Cancel(c)
    PROVE  TypeOK' /\ Waiters(queue', granted', w \ {c}) /\ Supply' = Supply
  <1>1. CASE c \in granted /\ HandOver(granted \ {c})
    <2>1. Waiters(queue, granted \ {c}, w \ {c})
      BY <1>1 DEF Good, Waiters
    <2>2. /\ Cardinality(granted \ {c}) = Cardinality(granted) - 1
          /\ Cardinality(granted) \in Nat
      BY <1>1, SupplyType, FS_RemoveElement DEF Good
    <2>3. /\ TypeOK' /\ Waiters(queue', granted', w \ {c})
          /\ Supply' = permits + Cardinality(granted \ {c}) + 1
      BY <1>1, <2>1, HandOverStep DEF Good, TypeOK
    <2> QED
      BY <2>2, <2>3 DEF Supply, Good, TypeOK
  <1>2. CASE c \notin granted /\ ~(c \in granted /\ HandOver(granted \ {c}))
    <2>1. PICK k \in 1 .. Len(queue) : queue[k] = c /\ queue' = Without(queue, k)
      BY <1>2 DEF Cancel
    <2>2. permits' = permits /\ granted' = granted
      BY <1>2 DEF Cancel
    <2>3. queue \in Seq(Client) /\ Len(queue) \in Nat \ {0} /\ k \in Nat
      BY <2>1 DEF Good, TypeOK
    <2>4. \A j \in 1 .. Len(queue) - 1 : queue[j] \in Client /\ queue[j + 1] \in Client
      BY <2>3
    <2>5. queue' \in [1 .. Len(queue) - 1 -> Client]
      BY <2>1, <2>4 DEF Without
    <2>6. queue' \in Seq(Client) /\ Len(queue') = Len(queue) - 1
      BY <2>3, <2>5
    <2>7. \A j \in 1 .. Len(queue') :
             queue'[j] = IF j < k THEN queue[j] ELSE queue[j + 1]
      BY <2>1, <2>6 DEF Without
    <2>8. Waiters(queue', granted', w \ {c})
      <3> DEFINE old(j) == IF j < k THEN j ELSE j + 1
      <3>1. \A j \in 1 .. Len(queue') :
               /\ queue'[j] = queue[old(j)]
               /\ old(j) \in 1 .. Len(queue) /\ old(j) # k
        BY <2>1, <2>3, <2>6, <2>7
      <3>2. \A i, j \in 1 .. Len(queue') : old(i) = old(j) => i = j
        BY <2>3, <2>6
      <3> HIDE DEF old
      <3>3. \A j \in 1 .. Len(queue') : queue'[j] \in w \ {c} /\ queue'[j] \notin granted'
        BY <2>1, <2>2, <3>1 DEF Good, Waiters
      <3>4. \A i, j \in 1 .. Len(queue') : queue'[i] = queue'[j] => i = j
        BY <3>1, <3>2 DEF Good, Waiters
      <3> QED
        BY <1>2, <2>2, <3>3, <3>4 DEF Good, Waiters
    <2> QED
      BY <2>2, <2>6, <2>8 DEF Good, TypeOK, Supply
  <1> QED
    BY <1>1, <1>2 DEF Cancel
=============================================================================
