----------------------------- MODULE MCSession ------------------------------
(* Instances of Session for TLC. *)
EXTENDS Session, TLC

\* The loop never waits for room in the channel of which it is the reader.  It
\* does: only overall_timeout ends that (MCSessionStuck.cfg).
LoopNotStuck == ~(phase = "open" /\ loop = "report" /\ rx = RxCap)
=============================================================================
