------------------------------ MODULE WorkQueue ------------------------------
(***************************************************************************)
(* What the detection queue promises, without leases, threads or SQL:      *)
(* an at-least-once work queue.  An item is added once, served one or more *)
(* times, and is done exactly when it has been served; nothing takes an    *)
(* item back out of `done`.  (dashboard_api/detection_pool.py, lines 14-16,*)
(* and event_queue.py, lines 3-16, state this contract in prose.)          *)
(***************************************************************************)
EXTENDS Naturals

CONSTANT Items

VARIABLES state,   \* "absent", "todo" or "done", for each item
          served   \* how many times each item has been served

vars == <<state, served>>

Init == /\ state = [i \in Items |-> "absent"]
        /\ served = [i \in Items |-> 0]

\* New items arrive, and some of the known ones, new or old, are served in the
\* same step: a producer may hand over work and do some of it at once.
AddAndServe(S, B) ==
  /\ \A i \in S : state[i] = "absent"
  /\ \A i \in B : i \in S \/ state[i] # "absent"
  /\ state' = [i \in Items |-> IF i \in B THEN "done"
                               ELSE IF i \in S THEN "todo"
                               ELSE state[i]]
  /\ served' = [i \in Items |-> IF i \in B THEN served[i] + 1 ELSE served[i]]

Next == \E S, B \in SUBSET Items : AddAndServe(S, B)

Spec == Init /\ [][Next]_vars
=============================================================================
