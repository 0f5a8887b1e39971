--------------------------- MODULE AuditSinkProofs ---------------------------
(***************************************************************************)
(* Proofs about AuditSink, which is also shown to implement Outbox.        *)
(***************************************************************************)
EXTENDS AuditSink, TLAPS

-----------------------------------------------------------------------------
(***************************************************************************)
(* AuditSink. The inductive invariant says of every number that may become *)
(* the cursor, the cursor itself and the last_ok of every worker, lease or *)
(* no lease, that all committed rows up to it have been delivered, and     *)
(* that it is 0 or the id of a committed row. The second half is what a    *)
(* commit needs: with one writer at a time a new row is committed behind   *)
(* every committed one, so behind every such number.                       *)
(***************************************************************************)

LEMMA TypeInit == Init => TypeOK
<1> SUFFICES ASSUME Init PROVE TypeOK
  OBVIOUS
<1>1. next \in 1 .. MaxId + 1 /\ cursor \in 0 .. MaxId
  BY SinkAssumption DEF Init, NoCursor
<1>2. Waiting \in [pc     : {"waiting", "leading", "reading", "posting", "saving"},
                   cursor : 0 .. MaxId,
                   last   : 0 .. MaxId,
                   rows   : SUBSET Ids]
  BY SinkAssumption DEF Waiting
<1> QED BY <1>1, <1>2, SinkAssumption DEF Init, TypeOK

\* The local variables of a worker.
WorkerState == [pc     : {"waiting", "leading", "reading", "posting", "saving"},
                cursor : 0 .. MaxId,
                last   : 0 .. MaxId,
                rows   : SUBSET Ids]

LEMMA SinkRanges == Ids \subseteq 0 .. MaxId /\ Ids \subseteq 1 .. MaxId /\ Waiting \in WorkerState
  BY SinkAssumption DEF Ids, Waiting, WorkerState

\* A step of one worker changes its local variables only.
LEMMA Update ==
  ASSUME drainer \in [Replicas -> WorkerState], NEW r \in Replicas, NEW now \in WorkerState,
         drainer' = [drainer EXCEPT ![r] = now]
  PROVE  drainer' \in [Replicas -> WorkerState]
  OBVIOUS

LEMMA Bump ==
  ASSUME sent \in [Ids -> Nat], NEW i \in Ids, sent' = [sent EXCEPT ![i] = @ + 1]
  PROVE  /\ sent' \in [Ids -> Nat]
         /\ sent'[i] > 0
         /\ \A j \in Ids : sent[j] > 0 => sent'[j] > 0
<1>1. sent[i] \in Nat /\ sent'[i] = sent[i] + 1
  OBVIOUS
<1>2. \A j \in Ids \ {i} : sent'[j] = sent[j]
  OBVIOUS
<1>3. sent'[i] \in Nat /\ sent'[i] > 0
  BY <1>1
<1>4. \A j \in Ids : sent'[j] \in Nat
  BY <1>2, <1>3
<1> QED BY <1>2, <1>3, <1>4

LEMMA TypeStep == TypeOK /\ [Next]_vars => TypeOK'
<1> SUFFICES ASSUME TypeOK, [Next]_vars PROVE TypeOK'
  OBVIOUS
<1>0. drainer \in [Replicas -> WorkerState]
  BY DEF TypeOK, WorkerState
<1>1. ASSUME NEW i \in Ids, CommitAudit(i) \/ RollbackAudit(i) PROVE TypeOK'
  BY <1>1 DEF CommitAudit, RollbackAudit, TypeOK
<1>2. ASSUME NEW r \in Replicas, Audit(r) PROVE TypeOK'
  <2>1. next' \in 1 .. MaxId + 1
    BY <1>2, SinkAssumption DEF Audit, TypeOK
  <2> QED BY <1>2, <2>1 DEF Audit, TypeOK
<1>3. ASSUME NEW r \in Replicas, Acquire(r) PROVE TypeOK'
  BY <1>3 DEF Acquire, TypeOK
<1>4. ASSUME NEW r \in Replicas, ReadCursor(r) PROVE TypeOK'
  BY <1>4 DEF ReadCursor, TypeOK
<1>5. ASSUME NEW r \in Replicas, ReadRows(r) PROVE TypeOK'
  <2>1. PICK B \in SUBSET Ids :
          drainer' = [drainer EXCEPT ![r].pc = IF B = {} THEN "waiting" ELSE "posting",
                                     ![r].rows = B]
    BY <1>5 DEF ReadRows
  <2> DEFINE now == [drainer[r] EXCEPT !.pc = IF B = {} THEN "waiting" ELSE "posting",
                                       !.rows = B]
  <2>2. now \in WorkerState
    BY <1>0 DEF WorkerState
  <2>3. drainer' = [drainer EXCEPT ![r] = now]
    BY <2>1
  <2>4. drainer' \in [Replicas -> WorkerState]
    BY <1>0, <2>2, <2>3, Update
  <2> QED BY <1>5, <2>4 DEF ReadRows, TypeOK, WorkerState
<1>6. ASSUME NEW r \in Replicas, PostOk(r) PROVE TypeOK'
  <2>1. PICK i \in Ids :
          /\ sent' = [sent EXCEPT ![i] = @ + 1]
          /\ drainer' = [drainer EXCEPT
                           ![r].pc = IF drainer[r].rows = {i} THEN "saving" ELSE "posting",
                           ![r].last = i,
                           ![r].rows = @ \ {i}]
    BY <1>6 DEF PostOk
  <2>2. sent' \in [Ids -> Nat]
    BY <2>1, Bump DEF TypeOK
  <2>3. i \in 0 .. MaxId
    BY SinkRanges
  <2> DEFINE now == [drainer[r] EXCEPT
                       !.pc = IF drainer[r].rows = {i} THEN "saving" ELSE "posting",
                       !.last = i,
                       !.rows = @ \ {i}]
  <2>4. now \in WorkerState
    BY <1>0, <2>3 DEF WorkerState
  <2>5. drainer' = [drainer EXCEPT ![r] = now]
    BY <2>1
  <2>6. drainer' \in [Replicas -> WorkerState]
    BY <1>0, <2>4, <2>5, Update
  <2> QED BY <1>6, <2>2, <2>6 DEF PostOk, TypeOK, WorkerState
<1>7. ASSUME NEW r \in Replicas, PostFails(r) PROVE TypeOK'
  <2>1. PICK i \in Ids : sent' \in {sent, [sent EXCEPT ![i] = @ + 1]}
    BY <1>7 DEF PostFails
  <2>2. sent' \in [Ids -> Nat]
    <3>1. CASE sent' = sent
      BY <3>1 DEF TypeOK
    <3>2. CASE sent' = [sent EXCEPT ![i] = @ + 1]
      BY <3>2, Bump DEF TypeOK
    <3> QED BY <2>1, <3>1, <3>2
  <2> DEFINE now == [drainer[r] EXCEPT !.pc = "saving", !.rows = {}]
  <2>3. now \in WorkerState
    BY <1>0 DEF WorkerState
  <2>4. drainer' = [drainer EXCEPT ![r] = now]
    BY <1>7 DEF PostFails
  <2>5. drainer' \in [Replicas -> WorkerState]
    BY <1>0, <2>3, <2>4, Update
  <2> QED BY <1>7, <2>2, <2>5 DEF PostFails, Fault, TypeOK, WorkerState
<1>8. ASSUME NEW r \in Replicas, Save(r) PROVE TypeOK'
  <2>1. drainer' \in [Replicas -> WorkerState]
    BY <1>0, <1>8, SinkRanges DEF Save
  <2>2. cursor' \in 0 .. MaxId
    BY <1>8 DEF Save, TypeOK
  <2> QED BY <1>8, <2>1, <2>2 DEF Save, TypeOK, WorkerState
<1>9. ASSUME NEW r \in Replicas, PassRaises(r) PROVE TypeOK'
  <2>1. drainer' \in [Replicas -> WorkerState]
    BY <1>0, <1>9, SinkRanges DEF PassRaises
  <2> QED BY <1>9, <2>1 DEF PassRaises, Fault, TypeOK, WorkerState
<1>10. ASSUME NEW r \in Replicas, Restart(r) PROVE TypeOK'
  <2>1. drainer' \in [Replicas -> WorkerState]
    BY <1>0, <1>10, SinkRanges DEF Restart
  <2> QED BY <1>10, <2>1 DEF Restart, Fault, TypeOK, WorkerState
<1>11. CASE LeaseRunsOut \/ UNCHANGED vars
  BY <1>11 DEF LeaseRunsOut, vars, TypeOK
<1> QED
  BY <1>1, <1>2, <1>3, <1>4, <1>5, <1>6, <1>7, <1>8, <1>9, <1>10, <1>11 DEF Next

\* Every variable keeps its type.
THEOREM TypeCorrect == Spec => []TypeOK
  BY TypeInit, TypeStep, PTL DEF Spec

-----------------------------------------------------------------------------
(* The inductive invariant *)

\* Ids are handed out in order, and with one writer at a time committed in order.
Numbered ==
  /\ \A i \in committed : i < next
  /\ \A i \in Ids : open[i] # Nobody =>
       /\ i < next
       /\ \A j \in committed : j < i
       /\ \A j \in Ids : open[j] # Nobody => j = i

\* All committed rows up to x are delivered, and x is 0 or one of them.
SafeMark(x) ==
  /\ x = 0 \/ x \in committed
  /\ \A i \in committed : i <= x => sent[i] > 0

\* What a worker still has to post are committed rows with no gap before them.
SafePass(d) ==
  /\ SafeMark(d.last)
  /\ d.pc = "reading" => d.last = d.cursor
  /\ d.rows \subseteq committed
  /\ \A j \in d.rows : d.last < j
  /\ \A j \in d.rows, i \in committed : i < j => i \in d.rows \/ i <= d.last

IInv == /\ TypeOK
        /\ Numbered
        /\ SafeMark(cursor)
        /\ \A r \in Replicas : SafePass(drainer[r])

LEMMA InvInit == Init => IInv
  BY TypeInit DEF Init, NoCursor, IInv, Numbered, SafeMark, SafePass, Waiting

\* More rows delivered: a safe mark stays one, and so does a safe pass.
LEMMA MarksKeep ==
  ASSUME TypeOK, committed' = committed,
         \A i \in Ids : sent[i] > 0 => sent'[i] > 0
  PROVE  /\ \A x \in 0 .. MaxId : SafeMark(x) => SafeMark(x)'
         /\ \A r \in Replicas : SafePass(drainer[r]) /\ drainer'[r] = drainer[r]
                                => SafePass(drainer[r])'
  BY DEF SafeMark, SafePass, TypeOK

\* A row committed behind all others moves no mark past an undelivered row.
LEMMA CommitKeeps ==
  ASSUME TypeOK, NEW k \in Ids, \A j \in committed : j < k,
         committed' = committed \cup {k}, UNCHANGED <<sent, drainer, cursor>>
  PROVE  /\ SafeMark(cursor) => SafeMark(cursor)'
         /\ \A r \in Replicas : SafePass(drainer[r]) => SafePass(drainer[r])'
<1>1. \A x \in 0 .. MaxId : SafeMark(x) => x < k
  BY SinkAssumption DEF SafeMark, Ids
<1>2. ASSUME NEW x \in 0 .. MaxId, SafeMark(x), NEW i \in committed', i <= x
      PROVE  i \in committed
  BY <1>1, <1>2, SinkAssumption DEF TypeOK, Ids
<1>3. \A x \in 0 .. MaxId : SafeMark(x) =>
        /\ x = 0 \/ x \in committed'
        /\ \A i \in committed' : i <= x => sent'[i] > 0
  BY <1>2 DEF SafeMark
<1>4. SafeMark(cursor) => SafeMark(cursor)'
  BY <1>3 DEF SafeMark, TypeOK
<1>5. ASSUME NEW r \in Replicas, SafePass(drainer[r]) PROVE SafePass(drainer[r])'
  <2>1. drainer[r].last \in 0 .. MaxId /\ SafeMark(drainer[r].last)
    BY <1>5 DEF SafePass, TypeOK
  <2>2. SafeMark(drainer[r].last)'
    BY <1>3, <2>1 DEF SafeMark
  <2>3. drainer[r].rows \subseteq committed'
    BY <1>5 DEF SafePass
  <2>4. ASSUME NEW j \in drainer[r].rows, NEW i \in committed', i < j
        PROVE  i \in drainer[r].rows \/ i <= drainer[r].last
    <3>1. j \in committed /\ j < k
      BY <1>5 DEF SafePass
    <3>2. i \in committed
      BY <2>4, <3>1, SinkAssumption DEF TypeOK, Ids
    <3> QED BY <1>5, <2>4, <3>2 DEF SafePass
  <2> QED BY <1>5, <2>2, <2>3, <2>4 DEF SafePass
<1> QED BY <1>4, <1>5

LEMMA InvStep == OneWriter /\ IInv /\ [Next]_vars => IInv'
<1> SUFFICES ASSUME OneWriter, IInv, [Next]_vars PROVE IInv'
  OBVIOUS
<1>0. TypeOK /\ TypeOK' /\ Numbered /\ SafeMark(cursor)
      /\ \A r \in Replicas : SafePass(drainer[r])
  BY TypeStep DEF IInv
<1>1. ASSUME NEW i \in Ids, CommitAudit(i) PROVE IInv'
  <2>1. /\ \A j \in committed : j < i
        /\ committed' = committed \cup {i}
        /\ UNCHANGED <<next, cursor, drainer, sent>>
    BY <1>0, <1>1 DEF CommitAudit, Numbered
  <2>2. Numbered'
    BY <1>0, <1>1 DEF CommitAudit, Numbered, TypeOK
  <2> QED BY <1>0, <2>1, <2>2, CommitKeeps DEF IInv
<1>2. ASSUME NEW i \in Ids, RollbackAudit(i) PROVE IInv'
  <2>1. Numbered'
    BY <1>0, <1>2 DEF RollbackAudit, Numbered, TypeOK
  <2> QED BY <1>0, <1>2, <2>1 DEF RollbackAudit, IInv, SafeMark, SafePass
<1>3. ASSUME NEW r \in Replicas, Audit(r) PROVE IInv'
  <2>1. Numbered'
    BY <1>0, <1>3, SinkAssumption DEF Audit, Numbered, TypeOK, Ids
  <2> QED BY <1>0, <1>3, <2>1 DEF Audit, IInv, SafeMark, SafePass
<1>4. ASSUME NEW r \in Replicas,
             UNCHANGED <<next, open, committed>>,
             \A i \in Ids : sent[i] > 0 => sent'[i] > 0,
             \A s \in Replicas \ {r} : drainer'[s] = drainer[s],
             SafePass(drainer[r])',
             SafeMark(cursor)'
      PROVE  IInv'
  <2>1. Numbered'
    BY <1>0, <1>4 DEF Numbered
  <2>2. ASSUME NEW s \in Replicas \ {r} PROVE SafePass(drainer[s])'
    BY <1>0, <1>4, MarksKeep
  <2> QED BY <1>0, <1>4, <2>1, <2>2 DEF IInv
\* A pass that is over holds nothing.
<1>5. SafePass(Waiting)'
  <2>1. \A i \in committed' : i \in Int /\ ~ (i <= 0)
    BY <1>0, SinkRanges, SinkAssumption DEF TypeOK
  <2> QED BY <2>1 DEF SafePass, SafeMark, Waiting
<1>6. ASSUME NEW r \in Replicas, Acquire(r) PROVE IInv'
  <2>1. SafePass(drainer[r])'
    BY <1>0, <1>6 DEF Acquire, SafePass, SafeMark, TypeOK
  <2> QED BY <1>0, <1>4, <1>6, <2>1 DEF Acquire, SafeMark, TypeOK
<1>7. ASSUME NEW r \in Replicas, ReadCursor(r) PROVE IInv'
  <2>1. SafePass(drainer[r])'
    BY <1>0, <1>7 DEF ReadCursor, SafePass, SafeMark, TypeOK
  <2> QED BY <1>0, <1>4, <1>7, <2>1 DEF ReadCursor, SafeMark, TypeOK
<1>8. ASSUME NEW r \in Replicas, ReadRows(r) PROVE IInv'
  <2>1. PICK B \in SUBSET Ids :
          /\ FirstRows(drainer[r].cursor, B)
          /\ drainer' = [drainer EXCEPT ![r].pc = IF B = {} THEN "waiting" ELSE "posting",
                                        ![r].rows = B]
    BY <1>8 DEF ReadRows
  <2>2. drainer[r].last = drainer[r].cursor
    BY <1>0, <1>8 DEF ReadRows, SafePass
  <2>3. /\ drainer'[r].rows = B
        /\ drainer'[r].last = drainer[r].last
        /\ drainer'[r].pc # "reading"
    BY <1>0, <2>1 DEF TypeOK
  <2>4. /\ B \subseteq committed
        /\ \A j \in B : drainer[r].last < j
        /\ \A j \in B, i \in committed : i < j => i \in B \/ i <= drainer[r].last
    <3> DEFINE Beyond == {i \in committed : i > drainer[r].cursor}
    <3>1. B \subseteq Beyond /\ \A i \in B, j \in Beyond \ B : i < j
      BY <2>1 DEF FirstRows
    <3>2. /\ \A i \in committed : i \in Int
          /\ drainer[r].cursor \in Int
      BY <1>0, SinkAssumption DEF TypeOK, Ids
    <3>3. ASSUME NEW j \in B, NEW i \in committed, i < j, i \notin B
          PROVE  i <= drainer[r].last
      <4>1. i \notin Beyond
        BY <3>1, <3>2, <3>3
      <4> QED BY <2>2, <3>2, <4>1
    <3> QED BY <2>2, <3>1, <3>2, <3>3
  <2>5. SafePass(drainer[r])'
    BY <1>0, <1>8, <2>3, <2>4 DEF ReadRows, SafePass, SafeMark
  <2> QED BY <1>0, <1>4, <1>8, <2>1, <2>5 DEF ReadRows, SafeMark, TypeOK
<1>9. ASSUME NEW r \in Replicas, PostOk(r) PROVE IInv'
  <2>1. PICK i \in Ids :
          /\ IsFirst(i, drainer[r].rows)
          /\ sent' = [sent EXCEPT ![i] = @ + 1]
          /\ drainer' = [drainer EXCEPT
                           ![r].pc = IF drainer[r].rows = {i} THEN "saving" ELSE "posting",
                           ![r].last = i,
                           ![r].rows = @ \ {i}]
    BY <1>9 DEF PostOk
  <2>2. \A j \in drainer[r].rows : i <= j
    BY <2>1 DEF IsFirst
  <2>3. UNCHANGED <<next, open, committed, cursor>>
    BY <1>9 DEF PostOk
  <2>4. /\ drainer'[r].rows = drainer[r].rows \ {i}
        /\ drainer'[r].last = i
        /\ drainer'[r].pc # "reading"
    BY <1>0, <2>1 DEF TypeOK
  <2>5. \A j \in Ids : sent[j] > 0 => sent'[j] > 0
    BY <1>0, <2>1, Bump DEF TypeOK
  <2>6. sent'[i] > 0
    BY <1>0, <2>1, Bump DEF TypeOK
  <2>7. i \in drainer[r].rows /\ i \in committed
    BY <1>0, <2>1 DEF IsFirst, SafePass
  <2>8. ASSUME NEW j \in committed, j <= i PROVE sent'[j] > 0
    <3>1. j \in Ids /\ j \in Int /\ i \in Int
      BY <1>0 DEF TypeOK, Ids
    <3>2. CASE j < i
      <4>1. j \in drainer[r].rows \/ j <= drainer[r].last
        BY <1>0, <2>7, <3>2 DEF SafePass
      <4>2. j \notin drainer[r].rows
        BY <2>2, <3>1, <3>2
      <4>3. sent[j] > 0
        BY <1>0, <4>1, <4>2 DEF SafePass, SafeMark
      <4> QED BY <2>5, <3>1, <4>3
    <3>3. CASE j = i
      BY <2>6, <3>3
    <3> QED BY <2>8, <3>1, <3>2, <3>3
  <2>9. SafeMark(i)'
    BY <2>3, <2>7, <2>8 DEF SafeMark
  <2>10. ASSUME NEW k \in drainer[r].rows \ {i}, NEW j \in committed, j < k
        PROVE  j \in drainer[r].rows \ {i} \/ j <= i
    <3>1. drainer[r].last \in Int /\ i \in Int /\ j \in Int
      BY <1>0 DEF TypeOK, Ids
    <3>2. j \in drainer[r].rows \/ j <= drainer[r].last
      BY <1>0, <2>10 DEF SafePass
    <3>3. CASE j <= drainer[r].last
      BY <1>0, <2>7, <3>1, <3>3 DEF SafePass
    <3>4. CASE j \in drainer[r].rows
      BY <3>1, <3>4
    <3> QED BY <3>2, <3>3, <3>4
  <2>11. \A k \in drainer[r].rows \ {i} : i < k
    <3>1. i \in Int /\ \A k \in drainer[r].rows : k \in Int
      BY <1>0 DEF TypeOK, Ids
    <3> QED BY <2>2, <3>1
  <2>12. SafePass(drainer[r])'
    BY <1>0, <2>3, <2>4, <2>9, <2>10, <2>11 DEF SafePass
  <2>13. SafeMark(cursor)'
    BY <1>0, <2>3, <2>5 DEF SafeMark, TypeOK
  <2> QED BY <1>0, <1>4, <2>1, <2>3, <2>5, <2>12, <2>13 DEF TypeOK
<1>10. ASSUME NEW r \in Replicas, PostFails(r) PROVE IInv'
  <2>1. PICK i \in Ids : sent' \in {sent, [sent EXCEPT ![i] = @ + 1]}
    BY <1>10 DEF PostFails
  <2>2. \A j \in Ids : sent[j] > 0 => sent'[j] > 0
    <3>1. CASE sent' = sent
      BY <3>1
    <3>2. CASE sent' = [sent EXCEPT ![i] = @ + 1]
      BY <1>0, <3>2, Bump DEF TypeOK
    <3> QED BY <2>1, <3>1, <3>2
  <2>3. drainer' = [drainer EXCEPT ![r].pc = "saving", ![r].rows = {}]
    BY <1>10 DEF PostFails
  <2>4. UNCHANGED <<next, open, committed, cursor>>
    BY <1>10 DEF PostFails
  <2>5. SafePass(drainer[r])'
    BY <1>0, <2>2, <2>3, <2>4 DEF SafePass, SafeMark, TypeOK
  <2>6. SafeMark(cursor)'
    BY <1>0, <2>2, <2>4 DEF SafeMark, TypeOK
  <2> QED BY <1>0, <1>4, <2>2, <2>3, <2>4, <2>5, <2>6 DEF TypeOK
<1>11. ASSUME NEW r \in Replicas, Save(r) PROVE IInv'
  <2>1. drainer' = [drainer EXCEPT ![r] = Waiting]
    BY <1>11 DEF Save
  <2>2. UNCHANGED <<next, open, committed, sent>>
    BY <1>11 DEF Save
  <2>3. SafePass(drainer[r])'
    BY <1>0, <1>5, <2>1 DEF TypeOK
  <2>4. SafeMark(cursor)'
    BY <1>0, <1>11, <2>2 DEF Save, SafePass, SafeMark
  <2> QED BY <1>0, <1>4, <2>1, <2>2, <2>3, <2>4 DEF TypeOK
<1>12. ASSUME NEW r \in Replicas, PassRaises(r) \/ Restart(r) PROVE IInv'
  <2>1. drainer' = [drainer EXCEPT ![r] = Waiting] /\ UNCHANGED <<next, committed, cursor, sent>>
    BY <1>12 DEF PassRaises, Restart
  <2>2. SafePass(drainer[r])'
    BY <1>0, <1>5, <2>1 DEF TypeOK
  <2>3. \A i \in Ids : open'[i] = open[i] \/ open'[i] = Nobody
    BY <1>0, <1>12 DEF PassRaises, Restart, TypeOK
  <2>4. Numbered'
    BY <1>0, <2>1, <2>3 DEF Numbered
  <2>5. SafeMark(cursor)'
    BY <1>0, <2>1 DEF SafeMark
  <2>6. ASSUME NEW s \in Replicas \ {r} PROVE SafePass(drainer[s])'
    BY <1>0, <2>1, <2>6, MarksKeep DEF TypeOK
  <2> QED BY <1>0, <2>2, <2>4, <2>5, <2>6 DEF IInv
<1>13. CASE LeaseRunsOut \/ UNCHANGED vars
  BY <1>0, <1>13 DEF LeaseRunsOut, vars, IInv, Numbered, SafeMark, SafePass
<1> QED
  BY <1>1, <1>2, <1>3, <1>6, <1>7, <1>8, <1>9, <1>10, <1>11, <1>12, <1>13 DEF Next

\* The inductive invariant, on a database with one writer at a time.
THEOREM InvCorrect == ASSUME OneWriter PROVE Spec => []IInv
  BY InvInit, InvStep, PTL DEF Spec

\* Overlapping workers, lost leases, failed posts, caught exceptions and restarts
\* together never move the cursor past a row that was not delivered.
THEOREM CursorIsSafe == ASSUME OneWriter PROVE Spec => []NeverDropped
<1>1. IInv => NeverDropped
  BY DEF IInv, NeverDropped, SafeMark, Delivered, TypeOK
<1> QED BY <1>1, InvCorrect, PTL

-----------------------------------------------------------------------------
(* AuditSink implements Outbox *)

LEMMA OutboxStep == IInv /\ [Next]_vars => [Log!Next]_(Log!vars)
<1> SUFFICES ASSUME IInv, [Next]_vars PROVE Log!Next \/ UNCHANGED Log!vars
  OBVIOUS
<1>0. TypeOK /\ Numbered /\ \A r \in Replicas : SafePass(drainer[r])
  BY DEF IInv
<1>1. ASSUME NEW i \in Ids, CommitAudit(i) PROVE Log!Next
  <2>1. Log!Commit(i)
    BY <1>0, <1>1 DEF CommitAudit, Numbered, Log!Commit
  <2> QED BY <2>1 DEF Log!Next
<1>2. ASSUME NEW r \in Replicas, NEW i \in Ids, IsFirst(i, drainer[r].rows),
             committed' = committed, sent' = [sent EXCEPT ![i] = @ + 1]
      PROVE  Log!Next
  <2>1. i \in committed
    BY <1>0, <1>2 DEF IsFirst, SafePass
  <2>2. ASSUME NEW j \in committed, j < i PROVE sent[j] > 0
    <3>1. j \in drainer[r].rows \/ j <= drainer[r].last
      BY <1>0, <1>2, <2>2 DEF IsFirst, SafePass
    <3>2. j \notin drainer[r].rows
      BY <1>0, <1>2, <2>2 DEF IsFirst, TypeOK, Ids
    <3> QED BY <1>0, <3>1, <3>2 DEF SafePass, SafeMark
  <2>3. Log!Deliver(i)
    BY <1>2, <2>1, <2>2 DEF Log!Deliver
  <2> QED BY <2>3 DEF Log!Next
<1>3. ASSUME NEW r \in Replicas, PostOk(r) PROVE Log!Next
  BY <1>2, <1>3 DEF PostOk
<1>4. ASSUME NEW r \in Replicas, PostFails(r) PROVE Log!Next \/ UNCHANGED Log!vars
  BY <1>2, <1>4 DEF PostFails, Log!vars
<1>5. CASE UNCHANGED <<committed, sent>>
  BY <1>5 DEF Log!vars
<1>6. \/ \E i \in Ids : CommitAudit(i)
      \/ \E r \in Replicas : PostOk(r) \/ PostFails(r)
      \/ UNCHANGED <<committed, sent>>
  BY DEF Next, RollbackAudit, Audit, Acquire, ReadCursor, ReadRows, Save, PassRaises,
         Restart, LeaseRunsOut, vars
<1> QED BY <1>1, <1>3, <1>4, <1>5, <1>6

\* Each row is delivered at least once, in order and only after its commit: the
\* workers and their leases implement the Outbox.
THEOREM ImplementsOutbox == ASSUME OneWriter PROVE Spec => InOrder
<1>1. Init => Log!Init
  BY DEF Init, Log!Init
<1> QED BY <1>1, InvCorrect, OutboxStep, PTL DEF Spec, InOrder, Log!Spec

-----------------------------------------------------------------------------
(* While nothing is disturbed the passes do not overlap *)

Busy(r) == drainer[r].pc # "waiting"

\* What a worker has delivered and not saved yet ends at its last_ok.
Carries(r) == drainer[r].pc \in {"posting", "saving"}

\* What a worker still has to post lies beyond its last_ok.
AheadOfLast ==
  \A r \in Replicas :
    /\ drainer[r].pc = "reading" => drainer[r].last = drainer[r].cursor
    /\ \A j \in drainer[r].rows : drainer[r].last < j

\* The busy worker holds the lease, works from the cursor as it stands, and beyond it
\* nothing is delivered but what this worker delivered in this pass.
OnePass ==
  disturbed \/
    /\ \A r \in Replicas : Busy(r) => lease = r
    /\ \A r \in Replicas : drainer[r].pc \in {"reading", "posting", "saving"} =>
         drainer[r].cursor = cursor /\ cursor <= drainer[r].last
    /\ \A i \in Ids : sent[i] <= 1
    /\ \A i \in Ids : sent[i] > 0 =>
         i <= cursor \/ \E r \in Replicas : Carries(r) /\ i <= drainer[r].last

CauseInv == TypeOK /\ AheadOfLast /\ OnePass

LEMMA CauseInit == Init => CauseInv
<1> SUFFICES ASSUME Init PROVE CauseInv
  OBVIOUS
<1> QED BY TypeInit DEF Init, CauseInv, AheadOfLast, OnePass, Waiting, Busy

\* The numbers of a worker.
LEMMA SinkNums ==
  TypeOK => /\ cursor \in Nat
            /\ \A i \in Ids : i \in Nat /\ sent[i] \in Nat
            /\ \A r \in Replicas : /\ drainer[r].cursor \in Nat /\ drainer[r].last \in Nat
                                   /\ drainer[r].rows \subseteq Ids
  BY SinkAssumption DEF TypeOK, Ids

LEMMA CauseStep == CauseInv /\ [Next]_vars => CauseInv'
<1> SUFFICES ASSUME CauseInv, [Next]_vars PROVE AheadOfLast' /\ OnePass'
  BY TypeStep DEF CauseInv
<1>0. TypeOK /\ AheadOfLast /\ OnePass
  BY DEF CauseInv
<1>n. /\ cursor \in Nat
      /\ \A i \in Ids : i \in Nat /\ sent[i] \in Nat
      /\ \A r \in Replicas : /\ drainer[r].cursor \in Nat /\ drainer[r].last \in Nat
                             /\ drainer[r].rows \subseteq Ids
  BY <1>0, SinkNums
<1>w. /\ drainer \in [Replicas -> WorkerState]
      /\ Waiting.pc = "waiting" /\ Waiting.rows = {}
  BY <1>0 DEF TypeOK, WorkerState, Waiting
\* A step that leaves the workers and the deliveries alone.
<1>1. ASSUME UNCHANGED <<drainer, sent, cursor, lease, disturbed>>
      PROVE  AheadOfLast' /\ OnePass'
  BY <1>0, <1>1 DEF AheadOfLast, OnePass, Busy, Carries
<1>2. ASSUME NEW i \in Ids, CommitAudit(i) \/ RollbackAudit(i) PROVE AheadOfLast' /\ OnePass'
  BY <1>1, <1>2 DEF CommitAudit, RollbackAudit
<1>3. ASSUME NEW r \in Replicas, Audit(r) PROVE AheadOfLast' /\ OnePass'
  BY <1>1, <1>3 DEF Audit
<1>4. ASSUME NEW r \in Replicas, Acquire(r) PROVE AheadOfLast' /\ OnePass'
  <2>1. /\ drainer'[r].pc = "leading" /\ drainer'[r].rows = drainer[r].rows
        /\ drainer'[r].last = drainer[r].last
        /\ \A s \in Replicas \ {r} : drainer'[s] = drainer[s]
        /\ drainer[r].pc = "waiting" /\ lease \in {r, Nobody} /\ lease' = r
        /\ cursor' = cursor /\ sent' = sent /\ disturbed' = disturbed
    BY <1>4, <1>w DEF Acquire, WorkerState
  <2>2. AheadOfLast'
    BY <1>0, <2>1 DEF AheadOfLast
  <2>3. CASE disturbed
    BY <2>1, <2>2, <2>3 DEF OnePass
  <2>4. CASE ~disturbed
    <3>1. \A s \in Replicas \ {r} : drainer[s].pc = "waiting"
      BY <1>0, <2>1, <2>4, SinkAssumption DEF OnePass, Busy
    <3>2. \A i \in Ids : sent[i] <= 1 /\ (sent[i] > 0 => i <= cursor)
      BY <1>0, <2>1, <2>4, <3>1 DEF OnePass, Carries
    <3> QED BY <2>1, <2>2, <3>1, <3>2 DEF OnePass, Busy
  <2> QED BY <2>3, <2>4
<1>5. ASSUME NEW r \in Replicas, ReadCursor(r) PROVE AheadOfLast' /\ OnePass'
  <2>1. /\ drainer'[r].pc = "reading" /\ drainer'[r].rows = {}
        /\ drainer'[r].cursor = cursor /\ drainer'[r].last = cursor
        /\ \A s \in Replicas \ {r} : drainer'[s] = drainer[s]
        /\ drainer[r].pc = "leading" /\ lease' = lease
        /\ cursor' = cursor /\ sent' = sent /\ disturbed' = disturbed
    BY <1>5, <1>w DEF ReadCursor
  <2>2. AheadOfLast'
    BY <1>0, <2>1 DEF AheadOfLast
  <2>3. CASE disturbed
    BY <2>1, <2>2, <2>3 DEF OnePass
  <2>4. CASE ~disturbed
    <3>1. \A s \in Replicas : Busy(s)' => lease' = s
      BY <1>0, <2>1, <2>4 DEF OnePass, Busy
    <3>2. \A s \in Replicas : drainer'[s].pc \in {"reading", "posting", "saving"} =>
            drainer'[s].cursor = cursor' /\ cursor' <= drainer'[s].last
      BY <1>0, <1>n, <2>1, <2>4 DEF OnePass
    <3>3. \A i \in Ids : sent'[i] <= 1
      BY <1>0, <2>1, <2>4 DEF OnePass
    <3>4. ASSUME NEW i \in Ids, sent'[i] > 0
          PROVE  i <= cursor' \/ \E s \in Replicas : Carries(s)' /\ i <= drainer'[s].last
      <4>1. i <= cursor \/ \E s \in Replicas : Carries(s) /\ i <= drainer[s].last
        BY <1>0, <2>1, <2>4, <3>4 DEF OnePass
      <4> QED BY <2>1, <4>1 DEF Carries
    <3> QED BY <2>2, <3>1, <3>2, <3>3, <3>4 DEF OnePass
  <2> QED BY <2>3, <2>4
<1>6. ASSUME NEW r \in Replicas, ReadRows(r) PROVE AheadOfLast' /\ OnePass'
  <2>1. PICK B \in SUBSET Ids :
          /\ FirstRows(drainer[r].cursor, B)
          /\ drainer' = [drainer EXCEPT ![r].pc = IF B = {} THEN "waiting" ELSE "posting",
                                        ![r].rows = B]
    BY <1>6 DEF ReadRows
  <2>2. /\ drainer'[r].pc = IF B = {} THEN "waiting" ELSE "posting"
        /\ drainer'[r].rows = B
        /\ drainer'[r].cursor = drainer[r].cursor /\ drainer'[r].last = drainer[r].last
        /\ \A s \in Replicas \ {r} : drainer'[s] = drainer[s]
        /\ drainer[r].pc = "reading" /\ lease' = lease
        /\ cursor' = cursor /\ sent' = sent /\ disturbed' = disturbed
    BY <1>6, <1>w, <2>1 DEF ReadRows, WorkerState
  <2>3. \A j \in B : drainer[r].last < j
    BY <1>0, <1>n, <2>1, <2>2 DEF FirstRows, AheadOfLast
  <2>4. AheadOfLast'
    BY <1>0, <2>2, <2>3 DEF AheadOfLast
  <2>5. CASE disturbed
    BY <2>2, <2>4, <2>5 DEF OnePass
  <2>6. CASE ~disturbed
    <3>1. \A s \in Replicas : Busy(s)' => lease' = s
      BY <1>0, <2>2, <2>6 DEF OnePass, Busy
    <3>2. \A s \in Replicas : drainer'[s].pc \in {"reading", "posting", "saving"} =>
            drainer'[s].cursor = cursor' /\ cursor' <= drainer'[s].last
      BY <1>0, <2>2, <2>6 DEF OnePass
    <3>3. \A i \in Ids : sent'[i] <= 1
      BY <1>0, <2>2, <2>6 DEF OnePass
    <3>4. ASSUME NEW i \in Ids, sent'[i] > 0
          PROVE  i <= cursor' \/ \E s \in Replicas : Carries(s)' /\ i <= drainer'[s].last
      <4>1. i <= cursor \/ \E s \in Replicas : Carries(s) /\ i <= drainer[s].last
        BY <1>0, <2>2, <2>6, <3>4 DEF OnePass
      <4> QED BY <2>2, <4>1 DEF Carries
    <3> QED BY <2>4, <3>1, <3>2, <3>3, <3>4 DEF OnePass
  <2> QED BY <2>5, <2>6
<1>7. ASSUME NEW r \in Replicas, PostOk(r) PROVE AheadOfLast' /\ OnePass'
  <2>1. PICK i \in Ids :
          /\ IsFirst(i, drainer[r].rows)
          /\ sent' = [sent EXCEPT ![i] = @ + 1]
          /\ drainer' = [drainer EXCEPT
                           ![r].pc = IF drainer[r].rows = {i} THEN "saving" ELSE "posting",
                           ![r].last = i,
                           ![r].rows = @ \ {i}]
    BY <1>7 DEF PostOk
  <2>2. /\ drainer'[r].pc \in {"posting", "saving"}
        /\ drainer'[r].rows = drainer[r].rows \ {i}
        /\ drainer'[r].cursor = drainer[r].cursor /\ drainer'[r].last = i
        /\ \A s \in Replicas \ {r} : drainer'[s] = drainer[s]
        /\ drainer[r].pc = "posting" /\ lease' = lease
        /\ cursor' = cursor /\ disturbed' = disturbed
    <3> DEFINE now == [drainer[r] EXCEPT
                         !.pc = IF drainer[r].rows = {i} THEN "saving" ELSE "posting",
                         !.last = i,
                         !.rows = @ \ {i}]
    <3>1. drainer[r] \in WorkerState
      BY <1>w
    <3>2. /\ now.pc \in {"posting", "saving"} /\ now.rows = drainer[r].rows \ {i}
          /\ now.cursor = drainer[r].cursor /\ now.last = i
      BY <3>1 DEF WorkerState
    <3>3. drainer' = [drainer EXCEPT ![r] = now]
      BY <2>1
    <3> HIDE DEF now
    <3>4. drainer'[r] = now /\ \A s \in Replicas \ {r} : drainer'[s] = drainer[s]
      BY <1>w, <3>3
    <3>5. /\ drainer[r].pc = "posting" /\ lease' = lease
          /\ cursor' = cursor /\ disturbed' = disturbed
      BY <1>7 DEF PostOk
    <3> QED BY <3>2, <3>4, <3>5
  <2>3. i \in drainer[r].rows /\ drainer[r].last < i /\ \A j \in drainer[r].rows : i <= j
    BY <1>0, <2>1 DEF IsFirst, AheadOfLast
  <2>4. \A j \in drainer[r].rows \ {i} : i < j
    BY <1>n, <2>3
  <2>5. AheadOfLast'
    BY <1>0, <2>2, <2>4 DEF AheadOfLast
  <2>6. CASE disturbed
    BY <2>2, <2>5, <2>6 DEF OnePass
  <2>7. CASE ~disturbed
    <3>1. lease = r /\ \A s \in Replicas \ {r} : drainer[s].pc = "waiting"
      BY <1>0, <2>2, <2>7 DEF OnePass, Busy
    <3>2. \A s \in Replicas : Busy(s)' => lease' = s
      BY <2>2, <3>1 DEF Busy
    <3>3. drainer[r].cursor = cursor /\ cursor <= drainer[r].last
      BY <1>0, <2>2, <2>7 DEF OnePass
    <3>4. cursor < i
      BY <1>n, <2>3, <3>3
    <3>5. \A s \in Replicas : drainer'[s].pc \in {"reading", "posting", "saving"} =>
            drainer'[s].cursor = cursor' /\ cursor' <= drainer'[s].last
      BY <1>n, <2>2, <3>1, <3>3, <3>4
    <3>6. \A j \in Ids : sent[j] > 0 => j <= drainer[r].last
      <4>1. ASSUME NEW j \in Ids, sent[j] > 0 PROVE j <= drainer[r].last
        <5>1. j <= cursor \/ \E s \in Replicas : Carries(s) /\ j <= drainer[s].last
          BY <1>0, <2>7, <4>1 DEF OnePass
        <5>2. j <= cursor \/ j <= drainer[r].last
          BY <3>1, <5>1 DEF Carries
        <5> QED BY <1>n, <3>3, <5>2
      <4> QED BY <4>1
    <3>7. ~ (sent[i] > 0)
      BY <1>n, <2>3, <3>6
    <3>8. sent'[i] = sent[i] + 1 /\ \A j \in Ids \ {i} : sent'[j] = sent[j]
      BY <1>0, <2>1 DEF TypeOK
    <3>9. \A j \in Ids : sent'[j] <= 1
      BY <1>0, <1>n, <2>7, <3>7, <3>8 DEF OnePass
    <3>10. \A j \in Ids : sent'[j] > 0 => j <= i
      BY <1>n, <2>3, <3>6, <3>8
    <3>11. Carries(r)'
      BY <2>2 DEF Carries
    <3> QED BY <2>2, <2>5, <3>2, <3>5, <3>9, <3>10, <3>11 DEF OnePass
  <2> QED BY <2>6, <2>7
<1>8. ASSUME NEW r \in Replicas, PostFails(r) PROVE AheadOfLast' /\ OnePass'
  <2>1. /\ drainer'[r].rows = {} /\ drainer'[r].pc = "saving"
        /\ \A s \in Replicas \ {r} : drainer'[s] = drainer[s]
        /\ disturbed'
    BY <1>8, <1>w DEF PostFails, Fault, WorkerState
  <2> QED BY <1>0, <2>1 DEF AheadOfLast, OnePass
<1>9. ASSUME NEW r \in Replicas, Save(r) PROVE AheadOfLast' /\ OnePass'
  <2>1. /\ drainer'[r].pc = "waiting" /\ drainer'[r].rows = {}
        /\ \A s \in Replicas \ {r} : drainer'[s] = drainer[s]
        /\ drainer[r].pc = "saving" /\ lease' = lease
        /\ cursor' = IF drainer[r].last # drainer[r].cursor THEN drainer[r].last ELSE cursor
        /\ sent' = sent /\ disturbed' = disturbed
    BY <1>9, <1>w DEF Save
  <2>2. AheadOfLast'
    BY <1>0, <2>1 DEF AheadOfLast
  <2>3. CASE disturbed
    BY <2>1, <2>2, <2>3 DEF OnePass
  <2>4. CASE ~disturbed
    <3>1. lease = r /\ \A s \in Replicas \ {r} : drainer[s].pc = "waiting"
      BY <1>0, <2>1, <2>4 DEF OnePass, Busy
    <3>2. drainer[r].cursor = cursor /\ cursor <= drainer[r].last
      BY <1>0, <2>1, <2>4 DEF OnePass
    <3>3. cursor' = drainer[r].last
      BY <2>1, <3>2
    <3>4. ASSUME NEW j \in Ids, sent[j] > 0 PROVE j <= cursor'
      <4>1. j <= cursor \/ \E s \in Replicas : Carries(s) /\ j <= drainer[s].last
        BY <1>0, <2>4, <3>4 DEF OnePass
      <4>2. j <= cursor \/ j <= drainer[r].last
        BY <3>1, <4>1 DEF Carries
      <4> QED BY <1>n, <3>2, <3>3, <4>2
    <3>5. \A j \in Ids : sent[j] <= 1
      BY <1>0, <2>4 DEF OnePass
    <3>6. \A s \in Replicas : drainer'[s].pc = "waiting"
      BY <2>1, <3>1
    <3> QED BY <2>1, <2>2, <3>4, <3>5, <3>6 DEF OnePass, Busy
  <2> QED BY <2>3, <2>4
<1>10. ASSUME NEW r \in Replicas, PassRaises(r) \/ Restart(r) PROVE AheadOfLast' /\ OnePass'
  <2>1. /\ drainer'[r] = Waiting
        /\ \A s \in Replicas \ {r} : drainer'[s] = drainer[s]
        /\ disturbed'
    BY <1>10, <1>w DEF PassRaises, Restart, Fault
  <2> QED BY <1>0, <1>w, <2>1 DEF AheadOfLast, OnePass
<1>11. CASE LeaseRunsOut
  <2>1. /\ drainer' = drainer /\ sent' = sent /\ cursor' = cursor
        /\ disturbed' = (disturbed \/ \E r \in Replicas : lease = r /\ drainer[r].pc # "waiting")
    BY <1>11 DEF LeaseRunsOut
  <2>2. AheadOfLast'
    BY <1>0, <2>1 DEF AheadOfLast
  <2>3. CASE disturbed'
    BY <2>2, <2>3 DEF OnePass
  <2>4. CASE ~disturbed'
    <3>1. ~disturbed /\ \A r \in Replicas : drainer[r].pc = "waiting"
      BY <1>0, <2>1, <2>4 DEF OnePass, Busy
    <3>2. \A i \in Ids : sent[i] <= 1 /\ (sent[i] > 0 => i <= cursor)
      BY <1>0, <3>1 DEF OnePass, Carries
    <3> QED BY <2>1, <2>2, <3>1, <3>2 DEF OnePass, Busy
  <2> QED BY <2>3, <2>4
<1>12. CASE UNCHANGED vars
  BY <1>1, <1>12 DEF vars
<1> QED
  BY <1>2, <1>3, <1>4, <1>5, <1>6, <1>7, <1>8, <1>9, <1>10, <1>11, <1>12 DEF Next

\* A row reaches the endpoint twice only after a failed post, a caught exception, a
\* restart or a lease that ran out under a busy worker: otherwise the lease keeps the
\* replicas' passes apart and the cursor they start from is the last one saved.  This
\* holds on either database.
THEOREM RepeatHasCauseTheorem == Spec => []RepeatHasCause
<1>1. CauseInv => RepeatHasCause
  <2> SUFFICES ASSUME CauseInv, ~disturbed, NEW i \in Ids PROVE ~ (sent[i] > 1)
    BY DEF RepeatHasCause
  <2>1. sent[i] <= 1 /\ sent[i] \in Nat
    BY SinkNums DEF CauseInv, OnePass
  <2> QED BY <2>1
<1> QED BY <1>1, CauseInit, CauseStep, PTL DEF Spec
=============================================================================
