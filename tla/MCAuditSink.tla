----------------------------- MODULE MCAuditSink -----------------------------
(***************************************************************************)
(* Instances of AuditSink for TLC.  The replicas are interchangeable.      *)
(***************************************************************************)
EXTENDS AuditSink, TLC

Interchangeable == Permutations(Replicas)
=============================================================================
