------------------------------ MODULE MCGrants ------------------------------
(***************************************************************************)
(* Model-checking instances of module Grants: every request comes from one *)
(* account.                                                                *)
(***************************************************************************)
EXTENDS Grants, TLC

OneAccount == [a \in Asks |-> 0]

Symmetry == Permutations(Asks) \cup Permutations(Versions)

(* Bound: one incident where there is room for one request only.           *)
OneAtTheLimit == per_principal = 1 => incidents <= 1
=============================================================================
