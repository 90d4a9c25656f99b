---------------------------- MODULE MCAuditBackup ----------------------------
(***************************************************************************)
(* Two backups of one tower, and two processes that verify them.           *)
(***************************************************************************)
EXTENDS AuditBackup

CONSTANTS p1, v1, v2

Symmetry == Permutations(Verifiers)
=============================================================================
