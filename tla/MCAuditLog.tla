------------------------------ MODULE MCAuditLog ------------------------------
(* AuditLog with the names of sessions, tenants and actions interchangeable. *)
EXTENDS AuditLog, TLC

Symmetry == Permutations(Sessions) \cup Permutations(Tenants) \cup Permutations(Actions)
==============================================================================
