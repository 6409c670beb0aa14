----------------------------- MODULE MCAuditLog -----------------------------
(* AuditLog for TLC: jobs are interchangeable.                              *)
EXTENDS AuditLog

JobSymmetry == Permutations(Jobs)
=============================================================================
