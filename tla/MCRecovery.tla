----------------------------- MODULE MCRecovery -----------------------------
(* The recovery of one scope on a small instance.                          *)
EXTENDS Recovery
=============================================================================
