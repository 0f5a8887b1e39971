------------------------------- MODULE Outbox -------------------------------
(***************************************************************************)
(* What the external audit sink promises of each committed audit row,      *)
(* without replicas, leases, batches or cursors: it is delivered at least  *)
(* once, never before a row that was committed with a smaller id has been  *)
(* delivered, and never without being committed (dashboard_api/            *)
(* audit_sink.py, lines 9-20, state this in prose).                        *)
(***************************************************************************)
EXTENDS Naturals

CONSTANT Ids

VARIABLES committed,  \* the ids of the committed rows
          times       \* how often each id has been delivered

vars == <<committed, times>>

Init == /\ committed = {}
        /\ times = [i \in Ids |-> 0]

\* A row is committed, behind every row already there.
Commit(i) ==
  /\ \A j \in committed : j < i
  /\ committed' = committed \cup {i}
  /\ UNCHANGED times

Deliver(i) ==
  /\ i \in committed
  /\ \A j \in committed : j < i => times[j] > 0
  /\ times' = [times EXCEPT ![i] = @ + 1]
  /\ UNCHANGED committed

Next == \E i \in Ids : Commit(i) \/ Deliver(i)

Spec == Init /\ [][Next]_vars
=============================================================================
