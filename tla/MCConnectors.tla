---------------------------- MODULE MCConnectors ----------------------------
(* Small instances of Connectors. *)
EXTENDS Connectors, TLC

CONSTANTS r1, r2, q1, q2, c1, c2
=============================================================================
