---------------------------- MODULE MCAuditAppend ----------------------------
(***************************************************************************)
(* Small instances of AuditAppend; the writers are interchangeable.        *)
(***************************************************************************)
EXTENDS AuditAppend, TLC

WriterSymmetry == Permutations(Writers)

=============================================================================
