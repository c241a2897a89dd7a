---------------------------- MODULE MCCommander -----------------------------
(* Instances of Commander for TLC. *)
EXTENDS Commander, TLC

\* Without the premise of OneReturns: a call of `one` ends even if a program
\* never reads its stdin.  It does not, MCCommanderHeld.cfg.
OneReturnsAnyway == \A c \in One : stage[c] = "listen" ~> stage[c] \notin Live
=============================================================================
