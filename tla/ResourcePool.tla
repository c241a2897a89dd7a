---------------------------- MODULE ResourcePool ----------------------------
(***************************************************************************)
(* What `ResourceLimits` promises its callers: a pool of Limit identical   *)
(* permits, of which a caller owns at most one.                            *)
(***************************************************************************)
EXTENDS Naturals, FiniteSets

CONSTANTS Client, Limit
VARIABLE owners

Init == owners = {}

Acquire(c) == /\ c \notin owners
              /\ Cardinality(owners) < Limit
              /\ owners' = owners \cup {c}

Return(c) == /\ c \in owners
             /\ owners' = owners \ {c}

Next == \E c \in Client : Acquire(c) \/ Return(c)

Spec == Init /\ [][Next]_owners
=============================================================================
