---------------------------- MODULE MCDecisions ----------------------------
(***************************************************************************)
(* The model-checking instance of module Decisions.  Requests and people   *)
(* are interchangeable.                                                    *)
(***************************************************************************)
EXTENDS Decisions, TLC

Symmetry == Permutations(Asks) \cup Permutations(Acts)

\* Bound: a held connection sweeps in the first life of the process.  Later
\* the requests' own sweeps, which do the same, are the only ones.
SweptOnce == restarts > 0 => \A h \in Holders : sweep[h].pc = "idle"
=============================================================================
