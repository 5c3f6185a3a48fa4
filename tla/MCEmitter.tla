----------------------------- MODULE MCEmitter -----------------------------
(***************************************************************************)
(* Model-checking instances of module Emitter.                             *)
(***************************************************************************)
EXTENDS Emitter
=============================================================================
