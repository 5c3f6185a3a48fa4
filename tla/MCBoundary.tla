----------------------------- MODULE MCBoundary -----------------------------
(* The boundary on a small instance.                                       *)
EXTENDS Boundary
=============================================================================
