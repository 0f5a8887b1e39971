------------------------------- MODULE SignOff -------------------------------
(***************************************************************************)
(* What a playbook with approval steps promises of each of its runs,       *)
(* without step lists, results, rows that are written back or threads.  A  *)
(* run is started once.  Where it waits it takes no effect until it is     *)
(* signed, then only such effects as it has not had, and refused it takes  *)
(* none.  A decided run stands.  Of a run on which two decisions were      *)
(* under way at once less is promised: it does not begin again.            *)
(* (README.md, line 455, the docstring of dashboard_api/playbook_engine.py *)
(* and those of _exec_from and resolve_approval state this in prose.)      *)
(***************************************************************************)
EXTENDS Naturals

CONSTANTS Runs, Steps

VARIABLES status,   \* of each run
          effects,  \* how often each step of each run has taken effect
          loose     \* the runs that two decisions were under way on at once

vars == <<status, effects, loose>>

\* What execution comes to, with no decision against it.
Reached == {"awaiting-approval", "success", "failed"}

Init == /\ status = [r \in Runs |-> "none"]
        /\ effects = [r \in Runs |-> [i \in Steps |-> 0]]
        /\ loose = {}

\* The steps of S take effect, and the run is then at st.
Act(r, S, st) ==
  /\ effects' = [effects EXCEPT ![r] = [i \in Steps |-> IF i \in S THEN @[i] + 1 ELSE @[i]]]
  /\ status' = [status EXCEPT ![r] = st]
  /\ UNCHANGED loose

Fresh(r, S) == \A i \in S : effects[r][i] = 0

Start(r, S, st) == status[r] = "none" /\ st \in Reached /\ Fresh(r, S) /\ Act(r, S, st)

Sign(r, S, st) ==
  status[r] = "awaiting-approval" /\ st \in Reached /\ Fresh(r, S) /\ Act(r, S, st)

Refuse(r) == status[r] = "awaiting-approval" /\ Act(r, {}, "rejected")

\* A second decision begins before the first is written.
Overlap(r) == /\ status[r] = "awaiting-approval"
              /\ loose' = loose \cup {r}
              /\ UNCHANGED <<status, effects>>

\* It is written over whatever the first one made of the run.
DecideAgain(r, S, st) ==
  /\ r \in loose
  /\ status[r] # "none"
  /\ \/ st \in Reached
     \/ st = "rejected" /\ S = {}
  /\ Act(r, S, st)

Next == \E r \in Runs : \/ Refuse(r) \/ Overlap(r)
                        \/ \E S \in SUBSET Steps, st \in Reached \cup {"rejected"} :
                             Start(r, S, st) \/ Sign(r, S, st) \/ DecideAgain(r, S, st)

Spec == Init /\ [][Next]_vars
=============================================================================
