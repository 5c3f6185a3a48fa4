--------------------------- MODULE MCDecisionLog ---------------------------
(***************************************************************************)
(* Model-checking instances of module DecisionLog: which of its calls may  *)
(* fail is what tells the configurations apart.                            *)
(***************************************************************************)
EXTENDS DecisionLog
=============================================================================
