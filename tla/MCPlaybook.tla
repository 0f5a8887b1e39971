----------------------------- MODULE MCPlaybook -----------------------------
(* Small instances of Playbook. *)
EXTENDS Playbook, TLC

\* One gate, never further back than where a paused run may wait.
OneGate == { <<"action", "approval", "action">>,
             <<"action", "approval", "condition", "action">>,
             <<"condition", "action">> }

TwoGates == { <<"approval", "action", "approval", "action", "action">> }

Interchangeable == Permutations(Runs) \cup Permutations(Deciders)
=============================================================================
