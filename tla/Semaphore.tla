----------------------------- MODULE Semaphore ------------------------------
(***************************************************************************)
(* tokio::sync::Semaphore, as the playground uses it: one permit at a      *)
(* time, never closed.  Tokio is outside this repository, so this module   *)
(* is written from how limits.rs and websocket.rs rely on it.              *)
(*                                                                         *)
(* The semaphore is fair: a returned permit is handed to the longest       *)
(* waiting `acquire` future at once, before that future is polled again    *)
(* and before any `try_acquire` may see it.  Such a future is in `granted` *)
(* until it is polled (Take) or dropped (Cancel).                          *)
(***************************************************************************)
EXTENDS Naturals, Sequences, FiniteSets

CONSTANT Client         \* the tasks that use the semaphore

VARIABLES permits,      \* permits nobody owns and nobody was handed
          queue,        \* tasks whose `acquire` future waits, oldest first
          granted       \* tasks handed a permit they have not picked up yet

vars == <<permits, queue, granted>>

TypeOK == /\ permits \in Nat
          /\ queue \in Seq(Client)
          /\ granted \subseteq Client

\* `Semaphore::new(n)`
Init(n) == permits = n /\ queue = <<>> /\ granted = {}

\* `try_acquire`, and the first poll of `acquire`, when a permit is free.
TryAcquire == /\ permits > 0
              /\ permits' = permits - 1
              /\ UNCHANGED <<queue, granted>>

\* The first poll of `acquire` when no permit is free.
Enqueue(c) == /\ permits = 0
              /\ queue' = Append(queue, c)
              /\ UNCHANGED <<permits, granted>>

\* A later poll of `acquire`, after a permit was handed over.
Take(c) == /\ c \in granted
           /\ granted' = granted \ {c}
           /\ UNCHANGED <<permits, queue>>

\* A permit comes back (or `add_permits(1)`), with g the tasks that keep
\* what they were handed: the oldest waiter gets it, if there is one.
HandOver(g) ==
    IF queue = <<>>
      THEN permits' = permits + 1 /\ granted' = g /\ UNCHANGED queue
      ELSE /\ granted' = g \cup {Head(queue)}
           /\ queue' = Tail(queue)
           /\ UNCHANGED permits

Release == HandOver(granted)

\* `acquire` is dropped while it waits.  A permit it was already handed goes
\* back to the semaphore.
Without(s, i) == [j \in 1 .. Len(s) - 1 |-> IF j < i THEN s[j] ELSE s[j + 1]]

Cancel(c) ==
    \/ /\ c \in granted
       /\ HandOver(granted \ {c})
    \/ /\ c \notin granted
       /\ \E i \in 1 .. Len(queue) :
             queue[i] = c /\ queue' = Without(queue, i)
       /\ UNCHANGED <<permits, granted>>
=============================================================================
