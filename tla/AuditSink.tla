------------------------------ MODULE AuditSink ------------------------------
(***************************************************************************)
(* The external audit sink (dashboard_api/audit_sink.py): every replica's  *)
(* worker drains the committed rows of `audit_log` beyond a persisted      *)
(* cursor to an HTTP endpoint, under the shared lease "audit-sink".        *)
(*                                                                         *)
(* The lease (leader.py) is modelled by its holder: it may run out at any  *)
(* moment, also under a holder that is still draining (one pass may take   *)
(* 200 posts of 5 s each, the lease lasts 60 s and nothing renews it       *)
(* during a pass).  Every action is one committed write, one read, or one  *)
(* HTTP exchange.                                                          *)
(*                                                                         *)
(* A definition whose comment begins with (slip) is a mistake the code     *)
(* could have made in the definition that follows it, and not part of the  *)
(* model.                                                                  *)
(***************************************************************************)
EXTENDS Integers, FiniteSets

CONSTANTS Replicas,
          Nobody,     \* the holder of a lease that is free or has run out
          Gone,       \* a holder whose process has died
          OneWriter,  \* TRUE on SQLite: one write transaction at a time
          MaxId,      \* bound on the audit rows ever inserted
          Batch,      \* _BATCH
          MaxFaults   \* bound on failed posts, failed saves and crashes

Ids == 1 .. MaxId

ASSUME SinkAssumption ==
  /\ Nobody \notin Replicas
  /\ Gone \notin Replicas
  /\ Nobody # Gone
  /\ OneWriter \in BOOLEAN
  /\ MaxId \in Nat
  /\ Batch \in Nat \ {0}
  /\ MaxFaults \in Nat

VARIABLES
  next,       \* the id the next INSERT INTO audit_log takes
  open,       \* rows inserted and not committed: the replica writing each, or Nobody
  committed,  \* the committed audit_log
  cursor,     \* audit_sink_cursor.last_id, 0 when there is no row
  lease,      \* leader_lease.holder of "audit-sink", Nobody once it has run out
  started,    \* replicas whose worker thread has been started
  drainer,    \* each worker: where it is in drain_once, and its local variables
  sent,       \* how often the endpoint has received each row
  faults,
  disturbed   \* a fault happened, or the lease ran out in the middle of a pass

vars == <<next, open, committed, cursor, lease, started, drainer, sent, faults,
          disturbed>>

\* (slip) -1 for a cursor that was never saved.
BeforeFirst == -1

\* _get_cursor when audit_sink_cursor has no row.
NoCursor == 0

\* cursor, last_ok and the rows still to post, as drain_once holds them.
Waiting == [pc |-> "waiting", cursor |-> 0, last |-> 0, rows |-> {}]

TypeOK ==
  /\ next \in 1 .. MaxId + 1
  /\ open \in [Ids -> Replicas \cup {Nobody}]
  /\ committed \in SUBSET Ids
  /\ cursor \in 0 .. MaxId
  /\ lease \in Replicas \cup {Nobody, Gone}
  /\ started \in SUBSET Replicas
  /\ drainer \in [Replicas -> [pc     : {"waiting", "leading", "reading", "posting", "saving"},
                               cursor : 0 .. MaxId,
                               last   : 0 .. MaxId,
                               rows   : SUBSET Ids]]
  /\ sent \in [Ids -> Nat]
  /\ faults \in Nat
  /\ disturbed \in BOOLEAN

Init ==
  /\ next = 1
  /\ open = [i \in Ids |-> Nobody]
  /\ committed = {}
  /\ cursor = NoCursor
  /\ lease = Nobody
  /\ started = {}
  /\ drainer = [r \in Replicas |-> Waiting]
  /\ sent = [i \in Ids |-> 0]
  /\ faults = 0
  /\ disturbed = FALSE

Fault == /\ faults < MaxFaults
         /\ faults' = faults + 1
         /\ disturbed' = TRUE

-----------------------------------------------------------------------------
(* The audited transactions *)

\* audit(): the INSERT of an open transaction, and ship(), which starts the worker
\* of this process.  A transaction that writes audits once here.
Audit(r) ==
  /\ next <= MaxId
  /\ OneWriter => \A i \in Ids : open[i] = Nobody
  /\ open' = [open EXCEPT ![next] = r]
  /\ next' = next + 1
  /\ started' = started \cup {r}
  /\ UNCHANGED <<committed, cursor, lease, drainer, sent, faults, disturbed>>

CommitAudit(i) ==
  /\ open[i] # Nobody
  /\ open' = [open EXCEPT ![i] = Nobody]
  /\ committed' = committed \cup {i}
  /\ UNCHANGED <<next, cursor, lease, started, drainer, sent, faults, disturbed>>

RollbackAudit(i) ==
  /\ open[i] # Nobody
  /\ open' = [open EXCEPT ![i] = Nobody]
  /\ UNCHANGED <<next, committed, cursor, lease, started, drainer, sent, faults, disturbed>>

-----------------------------------------------------------------------------
(* The worker *)

\* (slip) A worker drains whether it holds the lease or not.
AcquireAnyway(r) ==
  /\ r \in started
  /\ drainer[r].pc = "waiting"
  /\ lease' = r
  /\ drainer' = [drainer EXCEPT ![r].pc = "leading"]
  /\ UNCHANGED <<next, open, committed, cursor, started, sent, faults, disturbed>>

\* _worker wakes up and acquire() gives it the lease; if another replica holds it
\* the worker goes back to sleep and nothing changes.
Acquire(r) ==
  /\ r \in started
  /\ drainer[r].pc = "waiting"
  /\ lease \in {r, Nobody}
  /\ lease' = r
  /\ drainer' = [drainer EXCEPT ![r].pc = "leading"]
  /\ UNCHANGED <<next, open, committed, cursor, started, sent, faults, disturbed>>

\* drain_once: _get_cursor.
ReadCursor(r) ==
  /\ drainer[r].pc = "leading"
  /\ drainer' = [drainer EXCEPT ![r] = [pc |-> "reading", cursor |-> cursor,
                                        last |-> cursor, rows |-> {}]]
  /\ UNCHANGED <<next, open, committed, cursor, lease, started, sent, faults, disturbed>>

\* (slip) Without the ORDER BY, LIMIT keeps any of the rows.
SomeRows(c, B) ==
  LET Beyond == {i \in committed : i > c}
  IN  /\ B \subseteq Beyond
      /\ Cardinality(B) = IF Cardinality(Beyond) < Batch THEN Cardinality(Beyond) ELSE Batch

\* ORDER BY id LIMIT _BATCH over the rows beyond c.
FirstRows(c, B) ==
  LET Beyond == {i \in committed : i > c}
  IN  /\ B \subseteq Beyond
      /\ Cardinality(B) = IF Cardinality(Beyond) < Batch THEN Cardinality(Beyond) ELSE Batch
      /\ \A i \in B, j \in Beyond \ B : i < j

ReadRows(r) ==
  /\ drainer[r].pc = "reading"
  /\ \E B \in SUBSET Ids :
       /\ FirstRows(drainer[r].cursor, B)
       /\ drainer' = [drainer EXCEPT ![r].pc = IF B = {} THEN "waiting" ELSE "posting",
                                     ![r].rows = B]
  /\ UNCHANGED <<next, open, committed, cursor, lease, started, sent, faults, disturbed>>

IsFirst(i, S) == i \in S /\ \A j \in S : i <= j

\* _post answers below 400: the row is delivered, and last_ok moves to it.
PostOk(r) ==
  /\ drainer[r].pc = "posting"
  /\ \E i \in Ids :
       /\ IsFirst(i, drainer[r].rows)
       /\ sent' = [sent EXCEPT ![i] = @ + 1]
       /\ drainer' = [drainer EXCEPT
                        ![r].pc = IF drainer[r].rows = {i} THEN "saving" ELSE "posting",
                        ![r].last = i,
                        ![r].rows = @ \ {i}]
  /\ UNCHANGED <<next, open, committed, cursor, lease, started, faults, disturbed>>

\* (slip) last_ok moves on before the answer is looked at.
PostFailsMovesOn(r) ==
  /\ drainer[r].pc = "posting"
  /\ Fault
  /\ \E i \in Ids :
       /\ IsFirst(i, drainer[r].rows)
       /\ drainer' = [drainer EXCEPT ![r].pc = "saving", ![r].last = i, ![r].rows = {}]
  /\ UNCHANGED <<next, open, committed, cursor, lease, started, sent>>

\* _post returns False: an error status or a timeout, and after a timeout the
\* endpoint may well have the row.  The pass stops there.
PostFails(r) ==
  /\ drainer[r].pc = "posting"
  /\ Fault
  /\ \E i \in Ids :
       /\ IsFirst(i, drainer[r].rows)
       /\ sent' \in {sent, [sent EXCEPT ![i] = @ + 1]}
  /\ drainer' = [drainer EXCEPT ![r].pc = "saving", ![r].rows = {}]
  /\ UNCHANGED <<next, open, committed, cursor, lease, started>>

\* (slip) The cursor moves to the head of the log whatever was delivered.
SaveHead(r) ==
  /\ drainer[r].pc = "saving"
  /\ cursor' = next - 1
  /\ drainer' = [drainer EXCEPT ![r] = Waiting]
  /\ UNCHANGED <<next, open, committed, lease, started, sent, faults, disturbed>>

\* _set_cursor, unless nothing was delivered.  It is unconditional: a worker that
\* has lost its lease may move the cursor back.
Save(r) ==
  /\ drainer[r].pc = "saving"
  /\ cursor' = IF drainer[r].last # drainer[r].cursor THEN drainer[r].last ELSE cursor
  /\ drainer' = [drainer EXCEPT ![r] = Waiting]
  /\ UNCHANGED <<next, open, committed, lease, started, sent, faults, disturbed>>

\* An exception anywhere in the pass (a locked database, an error of a post that is no
\* HTTPError) is caught by _worker: what was posted is not saved.
PassRaises(r) ==
  /\ drainer[r].pc # "waiting"
  /\ Fault
  /\ drainer' = [drainer EXCEPT ![r] = Waiting]
  /\ UNCHANGED <<next, open, committed, cursor, lease, started, sent>>

-----------------------------------------------------------------------------
(* The world *)

\* More than the lease's TTL has passed since the last acquire.
LeaseRunsOut ==
  /\ lease # Nobody
  /\ lease' = Nobody
  /\ disturbed' = (disturbed \/ \E r \in Replicas : lease = r /\ drainer[r].pc # "waiting")
  /\ UNCHANGED <<next, open, committed, cursor, started, drainer, sent, faults>>

\* A replica is killed and started again: its transactions roll back, its worker is
\* gone and main.py starts no new one.  Its lease stays in the table under its old
\* host:pid, which a container may well get again.
Restart(r) ==
  /\ Fault
  /\ open' = [i \in Ids |-> IF open[i] = r THEN Nobody ELSE open[i]]
  /\ started' = started \ {r}
  /\ drainer' = [drainer EXCEPT ![r] = Waiting]
  /\ lease' \in IF lease = r THEN {r, Gone} ELSE {lease}
  /\ UNCHANGED <<next, committed, cursor, sent>>

-----------------------------------------------------------------------------
Next ==
  \/ \E i \in Ids : CommitAudit(i) \/ RollbackAudit(i)
  \/ \E r \in Replicas : \/ Audit(r) \/ Acquire(r) \/ ReadCursor(r) \/ ReadRows(r)
                         \/ PostOk(r) \/ PostFails(r) \/ Save(r) \/ PassRaises(r)
                         \/ Restart(r)
  \/ LeaseRunsOut

Spec == Init /\ [][Next]_vars

\* A worker that has been started keeps polling (_POLL_SECONDS) and is scheduled;
\* a transaction ends; a lease nobody renews runs out.
LeaseAbandoned == lease \notin started /\ LeaseRunsOut

FairSpec ==
  /\ Spec
  /\ WF_vars(LeaseAbandoned)
  /\ \A i \in Ids : WF_vars(CommitAudit(i) \/ RollbackAudit(i))
  /\ \A r \in Replicas : /\ WF_vars(Acquire(r))
                         /\ WF_vars(ReadCursor(r))
                         /\ WF_vars(ReadRows(r))
                         /\ WF_vars(PostOk(r))
                         /\ WF_vars(Save(r))

-----------------------------------------------------------------------------
(* Properties *)

Delivered == {i \in Ids : sent[i] > 0}

\* The cursor never passes a committed row the endpoint has not received: "a
\* failover overlap can re-deliver, never drop" (audit_sink.py, lines 17-18).  The
\* cursor is saved by whichever worker comes last, also one without the lease.
NeverDropped == \A i \in committed : i <= cursor => i \in Delivered

\* A row is received twice only after a fault or a pass that outlasted its lease:
\* while neither happens the lease keeps the replicas' passes apart.
RepeatHasCause == (\E i \in Ids : sent[i] > 1) => disturbed

\* At least once, in order, and committed rows only.
Log == INSTANCE Outbox WITH times <- sent

InOrder == Log!Spec

\* A committed row is delivered once the endpoint answers (audit_sink.py, lines
\* 11-15).  The second disjunct is the gap after a restart: only ship() starts a
\* worker, so while no replica has written an audit row since its start the rows
\* left over from before wait (lines 141-160).
EventuallyDelivered ==
  \A i \in Ids : i \in committed ~> (i \in Delivered \/ started = {})
=============================================================================
