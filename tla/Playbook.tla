------------------------------ MODULE Playbook ------------------------------
(***************************************************************************)
(* The runs of one SOAR playbook (dashboard_api/playbook_engine.py and its *)
(* endpoints in routers/soar.py): manual and automatic starts, the pause   *)
(* at an approval step, the approve and reject requests that resume a run, *)
(* and edits of the playbook while runs are paused.                        *)
(*                                                                         *)
(* An endpoint that decides on a run reads the run and the playbook on a   *)
(* connection that holds no lock yet, and everything it writes, its steps' *)
(* effects included, commits later in one transaction.  So a decision is   *)
(* two actions.  A start writes a run nobody knows yet and is one.         *)
(*                                                                         *)
(* A step is its kind: "action" stands for every kind with an effect,      *)
(* "condition" for the one that may gate the run, "approval" for the one   *)
(* that pauses it.  What a step does to the other stores is a count.  The  *)
(* step indices of the code start at 0 and here at 1.                      *)
(*                                                                         *)
(* A definition whose comment begins with (slip) is a mistake the code     *)
(* could have made in the definition that follows it, and not part of the  *)
(* model.                                                                  *)
(***************************************************************************)
EXTENDS Naturals, Sequences, FiniteSets, FiniteSetsExt

CONSTANTS Runs,         \* run ids
          Alerts,
          NoAlert,      \* a manual run without a triggering alert
          Deciders,     \* request threads of the approve and reject endpoints
          Definitions,  \* the step lists a playbook is given
          MaxEdits      \* bound on the edits of the playbook

Kinds    == {"action", "condition", "approval"}
MaxSteps == Max({Len(def) : def \in Definitions})

ASSUME PlaybookAssumption ==
  /\ Definitions # {} /\ IsFiniteSet(Definitions)
  /\ \A def \in Definitions : def \in Seq(Kinds)
  /\ NoAlert \notin Alerts
  /\ MaxEdits \in Nat

VARIABLES
  playbook,  \* the row of `playbooks`: its steps, enabled, status
  run,       \* the rows of `playbook_runs`
  decider,   \* each decision under way: what it has read, and what it will do
  edits,
  \* What the properties below remember of the past:
  acted,     \* how often each step of each run has taken effect
  raced      \* runs that two decisions were under way on at once

vars == <<playbook, run, decider, edits, acted, raced>>

Terminal == {"success", "failed", "rejected"}

Result == [idx    : 1 .. MaxSteps,
           kind   : Kinds,
           status : {"success", "skipped", "failed", "gated", "pending-approval"}]

NoRun == [status |-> "none", trigger |-> "manual", alert |-> NoAlert,
          current |-> 0, steps |-> <<>>, finished |-> FALSE]

Row == [status   : {"none", "awaiting-approval"} \cup Terminal,
        trigger  : {"manual", "auto"},
        alert    : Alerts \cup {NoAlert},
        current  : Nat,
        steps    : Seq(Result),
        finished : BOOLEAN]

Idle == [pc |-> "idle", run |-> NoRun, steps |-> <<>>, approve |-> FALSE, id |-> NoAlert]

TypeOK ==
  /\ playbook \in [steps : Definitions, enabled : BOOLEAN, status : {"idle", "running"}]
  /\ run \in [Runs -> Row]
  /\ \A d \in Deciders :
       \/ decider[d] = Idle
       \/ decider[d] \in [pc : {"deciding"}, run : Row, steps : Definitions,
                          approve : BOOLEAN, id : Runs]
  /\ edits \in 0 .. MaxEdits
  /\ acted \in [Runs -> [1 .. MaxSteps -> Nat]]
  /\ raced \in SUBSET Runs

Init ==
  /\ playbook \in [steps : Definitions, enabled : {TRUE}, status : {"idle"}]
  /\ run = [r \in Runs |-> NoRun]
  /\ decider = [d \in Deciders |-> Idle]
  /\ edits = 0
  /\ acted = [r \in Runs |-> [i \in 1 .. MaxSteps |-> 0]]
  /\ raced = {}

-----------------------------------------------------------------------------
(* _exec_from *)

\* What the step functions may answer.  A condition that is not met is recorded as a
\* success whose detail says "run gated": "gated" here.
Answers(kind) == CASE kind = "action"    -> {"success", "skipped", "failed"}
                   [] kind = "condition" -> {"success", "gated", "failed"}
                   [] kind = "approval"  -> {"success"}

Outcomes(def) == {o \in [1 .. Len(def) -> {"success", "skipped", "failed", "gated"}] :
                    \A i \in 1 .. Len(def) : o[i] \in Answers(def[i])}

\* (slip) A condition that is not met stops nothing.
StopsUngated(def, o, i) == def[i] = "approval" \/ o[i] = "failed"

\* The step that pauses, gates or fails the run.
Stops(def, o, i) == def[i] = "approval" \/ o[i] \in {"failed", "gated"}

\* The first step from start on that stops the run; one past the end if none does.
Stop(def, start, o) ==
  Min({i \in start .. Len(def) : Stops(def, o, i)} \cup {Len(def) + 1})

Pauses(def, start, o) ==
  LET h == Stop(def, start, o) IN h <= Len(def) /\ def[h] = "approval"

\* The results _exec_from appends: a paused run records nothing behind its pause, a
\* gated or failed one records every step behind as skipped.
Executed(def, start, o) ==
  LET h == Stop(def, start, o)
      status(i) == CASE i < h -> o[i]
                     [] i = h -> IF def[i] = "approval" THEN "pending-approval" ELSE o[i]
                     [] i > h -> "skipped"
      last == IF Pauses(def, start, o) THEN h ELSE Len(def)
  IN  [k \in 1 .. (last + 1 - start) |->
         [idx |-> start + k - 1, kind |-> def[start + k - 1], status |-> status(start + k - 1)]]

StatusAfter(def, start, o) ==
  LET h == Stop(def, start, o)
  IN  IF Pauses(def, start, o) THEN "awaiting-approval"
      ELSE IF h <= Len(def) /\ o[h] = "failed" THEN "failed" ELSE "success"

\* The steps of def that take effect when it is executed from start.
Effects(def, start, o) ==
  {i \in start .. Len(def) : i < Stop(def, start, o) /\ def[i] = "action" /\ o[i] = "success"}

Count(r, S) ==
  acted' = [acted EXCEPT ![r] = [i \in 1 .. MaxSteps |-> IF i \in S THEN @[i] + 1 ELSE @[i]]]

-----------------------------------------------------------------------------
(* Starting a run *)

\* execute_playbook, with the first current_step: the approval it paused at, or the
\* number of results.
Execute(r, trigger, a) ==
  LET def == playbook.steps
  IN  \E o \in Outcomes(def) :
        LET results == Executed(def, 1, o)
            paused  == Pauses(def, 1, o)
        IN  /\ run' = [run EXCEPT ![r] =
                         [status   |-> StatusAfter(def, 1, o),
                          trigger  |-> trigger,
                          alert    |-> a,
                          current  |-> IF paused THEN Len(results) ELSE Len(results) + 1,
                          steps    |-> results,
                          finished |-> ~paused]]
            /\ playbook' = [playbook EXCEPT !.status = IF paused THEN "running" ELSE "idle"]
            /\ Count(r, Effects(def, 1, o))

\* POST /playbooks/{id}/run; a disabled playbook answers 409.
RunPlaybook(r, a) ==
  /\ run[r].status = "none"
  /\ playbook.enabled
  /\ Execute(r, "manual", a)
  /\ UNCHANGED <<decider, edits, raced>>

\* auto_trigger_playbooks: the engine starts a run for a fresh, open, matching alert
\* that has none.  process_tick has written before, so it holds the write lock.
AutoTrigger(r, a) ==
  /\ run[r].status = "none"
  /\ playbook.enabled
  /\ \A s \in Runs : run[s].status # "none" => run[s].alert # a
  /\ Execute(r, "auto", a)
  /\ UNCHANGED <<decider, edits, raced>>

-----------------------------------------------------------------------------
(* Deciding on a paused run *)

\* (slip) A decision on a run that does not wait for one is let through.
ReadAnyRun(d, r, approve) ==
  /\ decider[d] = Idle
  /\ run[r].status # "none"
  /\ decider' = [decider EXCEPT ![d] = [pc |-> "deciding", run |-> run[r],
                                        steps |-> playbook.steps,
                                        approve |-> approve, id |-> r]]
  /\ raced' = IF \E e \in Deciders : decider[e].pc = "deciding" /\ decider[e].id = r
              THEN raced \cup {r} ELSE raced
  /\ UNCHANGED <<playbook, run, edits, acted>>

\* resolve_approval up to its first write: the run awaits approval, and its row and
\* the playbook's present steps are in memory.
ReadRun(d, r, approve) ==
  /\ decider[d] = Idle
  /\ run[r].status = "awaiting-approval"
  /\ decider' = [decider EXCEPT ![d] = [pc |-> "deciding", run |-> run[r],
                                        steps |-> playbook.steps,
                                        approve |-> approve, id |-> r]]
  /\ raced' = IF \E e \in Deciders : decider[e].pc = "deciding" /\ decider[e].id = r
              THEN raced \cup {r} ELSE raced
  /\ UNCHANGED <<playbook, run, edits, acted>>

\* The decision is stamped on the result at current_step, if that one is pending.
Stamped(row, approve) ==
  [k \in 1 .. Len(row.steps) |->
     IF row.steps[k].idx = row.current /\ row.steps[k].status = "pending-approval"
     THEN [row.steps[k] EXCEPT !.status = IF approve THEN "success" ELSE "failed"]
     ELSE row.steps[k]]

SkippedFrom(def, start) ==
  [k \in 1 .. (Len(def) + 1 - start) |->
     [idx |-> start + k - 1, kind |-> def[start + k - 1], status |-> "skipped"]]

\* (slip) The run is resumed at the approval step instead of behind it.
ResumeAtGate(row) == row.current

\* (slip) The run is started over.
ResumeAtStart(row) == 1

\* Where an approved run goes on.
ResumeAt(row) == row.current + 1

\* (slip) A status that nothing else knows.
SavedAsFinished(row, status, results) ==
  [row EXCEPT !.status = "finished", !.steps = results, !.current = Len(results) + 1,
              !.finished = TRUE]

\* _save_run after a decision: the row as it was read, with the new results.
Saved(row, status, results) ==
  [row EXCEPT !.status = status, !.steps = results, !.current = Len(results) + 1,
              !.finished = TRUE]

\* The rest of resolve_approval when approved: steps, INSERT OR REPLACE, commit.
Approve(d) ==
  LET row == decider[d].run
      def == decider[d].steps
      at  == ResumeAt(row)
      r   == decider[d].id
  IN  /\ decider[d].pc = "deciding"
      /\ decider[d].approve
      /\ \E o \in Outcomes(def) :
           /\ run' = [run EXCEPT ![r] =
                        Saved(row, StatusAfter(def, at, o),
                              Stamped(row, TRUE) \o Executed(def, at, o))]
           /\ Count(r, Effects(def, at, o))
      /\ playbook' = [playbook EXCEPT !.status = "idle"]
      /\ decider' = [decider EXCEPT ![d] = Idle]
      /\ UNCHANGED <<edits, raced>>

\* (slip) A rejected run keeps going, to record what was left undone.
RejectAndRun(d) ==
  LET row == decider[d].run
      def == decider[d].steps
      at  == ResumeAt(row)
      r   == decider[d].id
  IN  /\ decider[d].pc = "deciding"
      /\ ~decider[d].approve
      /\ \E o \in Outcomes(def) :
           /\ run' = [run EXCEPT ![r] =
                        Saved(row, "rejected", Stamped(row, FALSE) \o Executed(def, at, o))]
           /\ Count(r, Effects(def, at, o))
      /\ playbook' = [playbook EXCEPT !.status = "idle"]
      /\ decider' = [decider EXCEPT ![d] = Idle]
      /\ UNCHANGED <<edits, raced>>

Reject(d) ==
  LET row == decider[d].run
      r   == decider[d].id
  IN  /\ decider[d].pc = "deciding"
      /\ ~decider[d].approve
      /\ run' = [run EXCEPT ![r] =
                   Saved(row, "rejected",
                         Stamped(row, FALSE) \o SkippedFrom(decider[d].steps, ResumeAt(row)))]
      /\ playbook' = [playbook EXCEPT !.status = "idle"]
      /\ decider' = [decider EXCEPT ![d] = Idle]
      /\ UNCHANGED <<edits, acted, raced>>

\* PATCH /playbooks/{id} and POST /playbooks/{id}/revert/{version}.
Edit(def, enabled) ==
  /\ edits < MaxEdits
  /\ edits' = edits + 1
  /\ playbook' = [playbook EXCEPT !.steps = def, !.enabled = enabled]
  /\ UNCHANGED <<run, decider, acted, raced>>

-----------------------------------------------------------------------------
Next ==
  \/ \E r \in Runs : \/ \E a \in Alerts \cup {NoAlert} : RunPlaybook(r, a)
                     \/ \E a \in Alerts : AutoTrigger(r, a)
  \/ \E d \in Deciders : \/ \E r \in Runs, approve \in BOOLEAN : ReadRun(d, r, approve)
                         \/ Approve(d)
                         \/ Reject(d)
  \/ \E def \in Definitions, enabled \in BOOLEAN : Edit(def, enabled)

Spec == Init /\ [][Next]_vars

-----------------------------------------------------------------------------
(* Properties *)

\* Nothing runs behind a gate that nobody has signed: "`approval` steps pause for
\* sign-off" (README.md, line 455).  Of each saved run, every step recorded as run
\* behind an approval step has the approval recorded as given.
SignedBeforeActing ==
  \A r \in Runs : LET results == run[r].steps IN
    \A j, k \in 1 .. Len(results) :
      (j < k /\ results[j].kind = "approval" /\ results[k].status \notin {"skipped", "pending-approval"})
      => results[j].status = "success"

\* A run that has ended has one result for each step it reached, in order, and none
\* that waits: the pause, the resumption and the skipped tail together leave no step
\* out and do none twice (resolve_approval, playbook_engine.py, lines 538-557).
NoStepLost ==
  \A r \in Runs : run[r].status \in Terminal =>
    \A k \in 1 .. Len(run[r].steps) :
      run[r].steps[k].idx = k /\ run[r].steps[k].status # "pending-approval"

\* Behind a step that failed, a condition that was not met or a rejected approval
\* everything is recorded as skipped, across pauses (playbook_engine.py, lines 427-431).
HaltIsFinal ==
  \A r \in Runs : LET results == run[r].steps IN
    \A j, k \in 1 .. Len(results) :
      (j < k /\ results[j].status \in {"failed", "gated"}) => results[k].status = "skipped"

\* A step of a run takes effect once, unless two decisions on the run overlapped: the
\* status is tested when the row is read and never again.
ActsOnce ==
  \A r \in Runs : (\E i \in 1 .. MaxSteps : acted[r][i] > 1) => r \in raced

\* A rejected run takes no effect any more and a run that has ended keeps its verdict,
\* unless two decisions overlapped: the second replaces the row of the first.
VerdictIsFinal ==
  [][\A r \in Runs : (run[r].status \in Terminal /\ r \notin raced)
       => (run'[r] = run[r] /\ acted'[r] = acted[r])]_vars

\* An alert starts the playbook automatically once: "a fresh open alert that has no
\* run yet" (playbook_engine.py, lines 583-584).
AutoOnce ==
  \A r, s \in Runs : (r # s /\ run[r].trigger = "auto" /\ run[s].trigger = "auto")
                     => run[r].alert # run[s].alert

Gate == INSTANCE SignOff WITH Steps   <- 1 .. MaxSteps,
                              status  <- [r \in Runs |-> run[r].status],
                              effects <- acted,
                              loose   <- raced

\* Rows that are read, decided on and replaced whole keep what SignOff promises of a run:
\* "pause for a human approve/reject (resumable run)" (playbook_engine.py, line 17).
SignedOff == Gate!Spec
=============================================================================
