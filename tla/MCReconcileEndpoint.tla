------------------------- MODULE MCReconcileEndpoint -------------------------
(* ReconcileEndpoint on small instances: the cfg files choose the bounds.  *)
EXTENDS ReconcileEndpoint, TLC

(* Calls, tenants and the bodies that can be hashed are alike.             *)
Symmetry ==
    Permutations(Requests) \cup Permutations(Tenants) \cup Permutations(Bodies \ DatedBodies)
==============================================================================
