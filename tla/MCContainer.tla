---------------------------- MODULE MCContainer -----------------------------
(* Two coordinators that may each want two of two permits. *)
EXTENDS Container
=============================================================================
