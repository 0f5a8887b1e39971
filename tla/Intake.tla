------------------------------- MODULE Intake -------------------------------
(***************************************************************************)
(* What each way of taking in logs from outside promises of the items of   *)
(* its source (lines of a file, objects of a bucket), without offsets,     *)
(* cursors, batches, processes or leases.  Its records go past an item     *)
(* only when the item has been taken in or is excused, and an item is      *)
(* taken in once, and once more at most for each thing that has gone       *)
(* wrong.  (The collector's docstring, lines 4-9, that of dashboard_api/   *)
(* s3_pull.py, lines 1-18, and the comments of _watch_loop,                *)
(* log_listeners.py, lines 215-230, state this in prose.)                  *)
(***************************************************************************)
EXTENDS Naturals

CONSTANT Items

VARIABLES taken,    \* how often each item has been taken in
          passed,   \* the items the records say are dealt with
          excused,  \* those they may pass without taking them in
          mishaps   \* what has gone wrong so far

vars == <<taken, passed, excused, mishaps>>

Init == /\ taken = [i \in Items |-> 0]
        /\ passed = {}
        /\ excused = {}
        /\ mishaps = 0

\* One thing goes wrong, or nothing does.
Account == mishaps' \in {mishaps, mishaps + 1}

\* Items are taken in that were never taken in, or no oftener than mishaps explain.
TakeIn(B) ==
  /\ \A i \in B : taken[i] <= mishaps'
  /\ taken' = [i \in Items |-> IF i \in B THEN taken[i] + 1 ELSE taken[i]]

\* Where the records stand afterwards, which may be further back (a restart, another
\* leader): never past an item left out.  What is excused stays excused.
Record ==
  /\ excused' \in SUBSET Items /\ excused \subseteq excused'
  /\ passed' \in SUBSET Items
  /\ \A i \in passed' \ excused' : taken'[i] > 0

Next == /\ Account
        /\ \E B \in SUBSET Items : TakeIn(B)
        /\ Record

Spec == Init /\ [][Next]_vars
=============================================================================
