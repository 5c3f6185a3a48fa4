------------------------------ MODULE MCClient ------------------------------
(***************************************************************************)
(* Model checking of the contract's clients (module Client).               *)
(***************************************************************************)
EXTENDS Client
=============================================================================
