-------------------------- MODULE DetectionProofs ---------------------------
(***************************************************************************)
(* Proofs about Detection for every number of events, drains, threads,     *)
(* producers and failures, every lease, batch size and backlog limit.      *)
(*                                                                         *)
(* The safety invariants are not inductive by themselves.  What is missing *)
(* is who owns a batch that a pool thread holds in memory (BatchOwned),    *)
(* that a batch an ingest thread holds was read outside the write lock     *)
(* (SelectedUnlocked), what a thread that found nothing leaves behind      *)
(* (DoneCovered) and the lines that requests already let in may still add  *)
(* (BacklogInv).                                                           *)
(***************************************************************************)
EXTENDS Detection, FiniteSetTheorems, TLAPS

\* An event a pool thread holds is still pending under that thread's claim, or its
\* lease ran out, or an unlocked inline claim processed it meanwhile.
BatchOwned ==
  \A t \in Threads : \A e \in thread[t].batch :
    \/ e \in outlived
    \/ queue[e].status = "processed" /\ e \in unlocked
    \/ queue[e].status = "pending" /\ queue[e].by = t

SelectedUnlocked == \A p \in Producers : producer[p].batch \subseteq unlocked

IInv == /\ TypeOK
        /\ DetectedIffProcessed
        /\ BatchOwned
        /\ SelectedUnlocked
        /\ BatchesDisjoint
        /\ RepeatHasCause

-----------------------------------------------------------------------------
(* The queue's statements keep a table of rows a table of rows. *)

LEMMA RowOps ==
  ASSUME NEW q \in [Events -> Row], NEW B \in SUBSET Events, NEW w \in Workers,
         NEW now \in Nat
  PROVE  /\ ClaimRows(q, B, w, now) \in [Events -> Row]
         /\ CompleteRows(q, B) \in [Events -> Row]
         /\ RequeueStale(q, now) \in [Events -> Row]
         /\ InsertRows(q, B, now) \in [Events -> Row]
  BY DEF Row, ClaimRows, CompleteRows, RequeueStale, InsertRows

LEMMA CompleteKeepsRows ==
  ASSUME NEW q \in [Events -> Row], NEW B
  PROVE  CompleteRows(q, B) \in [Events -> Row]
<1>1. ASSUME NEW e \in Events
      PROVE  (IF e \in B
              THEN [q[e] EXCEPT !.status = "processed", !.by = NoWorker]
              ELSE q[e]) \in Row
  BY DEF Row
<1> DEFINE r(e) == IF e \in B
                   THEN [q[e] EXCEPT !.status = "processed", !.by = NoWorker]
                   ELSE q[e]
<1>2. [e \in Events |-> r(e)] \in [Events -> Row]
  <2> HIDE DEF r
  <2>1. \A e \in Events : r(e) \in Row
    BY <1>1 DEF r
  <2> QED BY <2>1
<1> QED BY <1>2 DEF CompleteRows

\* What a SELECT of `claim` may return: pending rows that nobody holds or whose
\* lease has run out.
LEMMA BatchClaimable ==
  ASSUME NEW q, NEW now, NEW limit, NEW B, IsBatch(q, now, limit, B)
  PROVE  \A e \in B : /\ e \in Events
                      /\ q[e].status = "pending"
                      /\ q[e].by # NoWorker => LeaseExpired(q, e, now)
  BY DEF IsBatch, Claimable, Pending

LEMMA ThreadsAreWorkers == Threads \subseteq Workers /\ NoWorker \notin Threads
  BY DetectionAssumption, QueueAssumption

-----------------------------------------------------------------------------
(* Type correctness *)

LEMMA TypeInit == Init => TypeOK
  BY DEF Init, TypeOK, AbsentRow, Row, OffThread, IdleProducer

LEMMA TypeStep == TypeOK /\ [Next]_vars => TypeOK'
<1> SUFFICES ASSUME TypeOK, [Next]_vars PROVE TypeOK'
  OBVIOUS
<1> USE DEF TypeOK
<1>1. ASSUME NEW d \in Drains, StartDrain(d) PROVE TypeOK'
  <2>1. RequeueStale(queue, clock) \in [Events -> Row]
    BY DEF Row, RequeueStale
  <2>2. Expired(queue) \subseteq Events /\ Claimable(queue, clock) \subseteq Events
    BY DEF Expired, Pending, Claimable
  <2> QED BY <1>1, <2>1, <2>2 DEF StartDrain
<1>2. ASSUME NEW d \in Drains, EndDrain(d) PROVE TypeOK'
  BY <1>2 DEF EndDrain, OffThread
<1>3. ASSUME NEW t \in Threads, ThreadClaim(t) PROVE TypeOK'
  <2>1. PICK B \in (SUBSET Events) \ {{}} :
          /\ queue' = ClaimRows(queue, B, t, clock)
          /\ outlived' = outlived \cup (B \cap Expired(queue))
          /\ thread' = [thread EXCEPT ![t] = [pc |-> "detecting", batch |-> B]]
    BY <1>3 DEF ThreadClaim
  <2>2. queue' \in [Events -> Row]
    BY <2>1, RowOps, ThreadsAreWorkers
  <2> QED BY <1>3, <2>1, <2>2 DEF ThreadClaim
<1>4. ASSUME NEW t \in Threads, ThreadExit(t) PROVE TypeOK'
  BY <1>4 DEF ThreadExit
<1>5. ASSUME NEW t \in Threads, ThreadCommit(t) PROVE TypeOK'
  <2>1. queue' \in [Events -> Row]
    BY <1>5, CompleteKeepsRows DEF ThreadCommit, Detect
  <2>2. fired' \in [Events -> Nat] /\ burst' \in Nat
    BY <1>5 DEF ThreadCommit, Detect
  <2> QED BY <1>5, <2>1, <2>2 DEF ThreadCommit
<1>6. ASSUME NEW t \in Threads, ThreadFail(t) PROVE TypeOK'
  BY <1>6 DEF ThreadFail
<1>7. ASSUME NEW p \in Producers, Admit(p) PROVE TypeOK'
  BY <1>7 DEF Admit
<1>8. ASSUME NEW p \in Producers, NEW S \in SUBSET Events, IngestLines(p, S)
      PROVE  TypeOK'
  <2> DEFINE q == InsertRows(queue, S, clock)
  <2>1. q \in [Events -> Row]
    BY RowOps, DetectionAssumption
  <2>2. PICK B \in SUBSET Events : /\ Detect(ClaimRows(q, B, Engine, clock), B)
                                   /\ outlived' = outlived \cup (B \cap Expired(q))
    BY <1>8 DEF IngestLines
  <2>3. ClaimRows(q, B, Engine, clock) \in [Events -> Row]
    BY <2>1, RowOps, DetectionAssumption
  <2>4. queue' \in [Events -> Row]
    BY <2>2, <2>3, CompleteKeepsRows DEF Detect
  <2>5. fired' \in [Events -> Nat] /\ burst' \in Nat
    BY <2>2 DEF Detect
  <2> QED BY <1>8, <2>2, <2>4, <2>5 DEF IngestLines, IdleProducer
<1>9. ASSUME NEW p \in Producers, SelectUnlocked(p) PROVE TypeOK'
  BY <1>9 DEF SelectUnlocked
<1>10. ASSUME NEW p \in Producers, CommitUnlocked(p) PROVE TypeOK'
  <2> DEFINE B == producer[p].batch
  <2>1. ClaimRows(queue, B, Engine, clock) \in [Events -> Row]
    BY RowOps, DetectionAssumption
  <2>2. queue' \in [Events -> Row]
    BY <1>10, <2>1, CompleteKeepsRows DEF CommitUnlocked, Detect
  <2>3. fired' \in [Events -> Nat] /\ burst' \in Nat
    BY <1>10 DEF CommitUnlocked, Detect
  <2> QED BY <1>10, <2>2, <2>3 DEF CommitUnlocked, IdleProducer
<1>11. CASE Tick
  BY <1>11 DEF Tick
<1>12. CASE UNCHANGED vars
  BY <1>12 DEF vars
<1> QED BY <1>1, <1>2, <1>3, <1>4, <1>5, <1>6, <1>7, <1>8, <1>9, <1>10, <1>11, <1>12
        DEF Next, PoolStep, IngestStep

\* Every variable keeps its type.
THEOREM TypeCorrect == Spec => []TypeOK
  BY TypeInit, TypeStep, PTL DEF Spec

-----------------------------------------------------------------------------
(* The safety invariants *)

LEMMA InvInit == Init => IInv
<1> SUFFICES ASSUME Init PROVE IInv
  OBVIOUS
<1>1. TypeOK
  BY TypeInit
<1>2. DetectedIffProcessed /\ RepeatHasCause
  BY DEF Init, AbsentRow, DetectedIffProcessed, RepeatHasCause
<1>3. BatchOwned /\ BatchesDisjoint
  BY DEF Init, OffThread, BatchOwned, BatchesDisjoint
<1>4. SelectedUnlocked
  BY DEF Init, IdleProducer, SelectedUnlocked
<1> QED BY <1>1, <1>2, <1>3, <1>4 DEF IInv

\* A transaction that ends in `Detect` over a batch whose events are each either
\* undetected so far or excused keeps both facts about detection passes.
LEMMA DetectKeeps ==
  ASSUME TypeOK, DetectedIffProcessed, RepeatHasCause,
         NEW q \in [Events -> Row], NEW B \in SUBSET Events, Detect(q, B),
         outlived \subseteq outlived', unlocked \subseteq unlocked',
         \A e \in Events \ B : q[e].status = "processed" <=> queue[e].status = "processed",
         \A e \in B : fired[e] = 0 \/ e \in outlived' \cup unlocked'
  PROVE  DetectedIffProcessed' /\ RepeatHasCause'
<1>1. DetectedIffProcessed'
  <2> SUFFICES ASSUME NEW e \in Events
               PROVE  queue'[e].status = "processed" <=> fired'[e] > 0
    BY DEF DetectedIffProcessed
  <2>1. CASE e \in B
    <3>1. queue'[e].status = "processed"
      BY <2>1 DEF Detect, CompleteRows, Row
    <3>2. fired'[e] = fired[e] + 1 /\ fired[e] \in Nat
      BY <2>1 DEF Detect, TypeOK
    <3> QED BY <3>1, <3>2
  <2>2. CASE e \notin B
    <3>1. queue'[e] = q[e] /\ fired'[e] = fired[e]
      BY <2>2 DEF Detect, CompleteRows
    <3> QED BY <2>2, <3>1 DEF DetectedIffProcessed
  <2> QED BY <2>1, <2>2
<1>2. RepeatHasCause'
  <2> SUFFICES ASSUME NEW e \in Events, fired'[e] > 1
               PROVE  e \in outlived' \cup unlocked'
    BY DEF RepeatHasCause
  <2>1. CASE e \in B
    <3>1. fired'[e] = fired[e] + 1 /\ fired[e] \in Nat
      BY <2>1 DEF Detect, TypeOK
    <3> QED BY <2>1, <3>1
  <2>2. CASE e \notin B
    <3>1. fired'[e] = fired[e]
      BY <2>2 DEF Detect
    <3> QED BY <3>1 DEF RepeatHasCause
  <2> QED BY <2>1, <2>2
<1> QED BY <1>1, <1>2

\* A step that runs no detection pass and changes no row's status.
LEMMA NoDetectKeeps ==
  ASSUME DetectedIffProcessed, RepeatHasCause,
         fired' = fired,
         \A e \in Events : queue'[e].status = queue[e].status,
         outlived \subseteq outlived', unlocked \subseteq unlocked'
  PROVE  DetectedIffProcessed' /\ RepeatHasCause'
  BY DEF DetectedIffProcessed, RepeatHasCause

LEMMA InvStep == IInv /\ [Next]_vars => IInv'
<1> SUFFICES ASSUME IInv, [Next]_vars PROVE IInv'
  OBVIOUS
<1>0. TypeOK' /\ TypeOK
  BY TypeStep DEF IInv
<1> USE DEF IInv
<1>1. ASSUME NEW d \in Drains, StartDrain(d) PROVE IInv'
  <2>1. \A e \in Events :
          /\ queue'[e].status = queue[e].status
          /\ e \in outlived' \/ queue'[e] = queue[e]
    BY <1>0, <1>1 DEF StartDrain, RequeueStale, Expired, TypeOK, Row
  <2>2. DetectedIffProcessed' /\ RepeatHasCause'
    BY <1>1, <2>1, NoDetectKeeps DEF StartDrain
  <2>3. \A t \in Threads : thread'[t].batch \subseteq thread[t].batch
    BY <1>0, <1>1 DEF StartDrain, TypeOK
  <2>4. BatchOwned'
    BY <1>0, <1>1, <2>1, <2>3 DEF StartDrain, BatchOwned, TypeOK
  <2>5. BatchesDisjoint'
    BY <1>1, <2>3 DEF StartDrain, BatchesDisjoint
  <2>6. SelectedUnlocked'
    BY <1>1 DEF StartDrain, SelectedUnlocked
  <2> QED BY <1>0, <2>2, <2>4, <2>5, <2>6
<1>2. ASSUME NEW d \in Drains, EndDrain(d) PROVE IInv'
  <2>1. \A t \in Threads : thread'[t].batch \subseteq thread[t].batch
    BY <1>0, <1>2 DEF EndDrain, OffThread, TypeOK
  <2>2. DetectedIffProcessed' /\ RepeatHasCause'
    BY <1>2, NoDetectKeeps DEF EndDrain
  <2>3. BatchOwned' /\ BatchesDisjoint'
    BY <1>2, <2>1 DEF EndDrain, BatchOwned, BatchesDisjoint
  <2>4. SelectedUnlocked'
    BY <1>2 DEF EndDrain, SelectedUnlocked
  <2> QED BY <1>0, <2>2, <2>3, <2>4
<1>3. ASSUME NEW t \in Threads, ThreadClaim(t) PROVE IInv'
  <2>1. PICK B \in (SUBSET Events) \ {{}} :
          /\ IsBatch(queue, clock, PoolBatch, B)
          /\ queue' = ClaimRows(queue, B, t, clock)
          /\ outlived' = outlived \cup (B \cap Expired(queue))
          /\ thread' = [thread EXCEPT ![t] = [pc |-> "detecting", batch |-> B]]
    BY <1>3 DEF ThreadClaim
  <2>2. \A e \in Events :
          /\ queue'[e].status = queue[e].status
          /\ e \in B => queue'[e].by = t
          /\ e \notin B => queue'[e] = queue[e]
    <3> SUFFICES ASSUME NEW e \in Events
                 PROVE  /\ queue'[e].status = queue[e].status
                        /\ e \in B => queue'[e].by = t
                        /\ e \notin B => queue'[e] = queue[e]
      OBVIOUS
    <3>1. queue[e] \in Row
      BY <1>0 DEF TypeOK
    <3> QED BY <2>1, <3>1 DEF ClaimRows, Row
  <2>3. \A e \in B : queue[e].status = "pending"
                     /\ (queue[e].by # NoWorker => e \in outlived')
    BY <2>1, BatchClaimable DEF Expired, Pending
  <2>4. DetectedIffProcessed' /\ RepeatHasCause'
    BY <1>3, <2>1, <2>2, NoDetectKeeps DEF ThreadClaim
  <2>5. /\ thread'[t].batch = B
        /\ \A u \in Threads \ {t} : thread'[u] = thread[u]
    BY <1>0, <2>1 DEF TypeOK
  \* Another thread's event that lands in B was its own, so its lease ran out.
  <2>6. ASSUME NEW u \in Threads \ {t}, NEW e \in thread[u].batch \cap B
        PROVE  e \in outlived'
    <3>1. e \in outlived \/ queue[e].by = u
      BY <2>3, <2>6 DEF BatchOwned
    <3> QED BY <2>1, <2>3, <2>6, <3>1, ThreadsAreWorkers
  <2>7. BatchOwned'
    <3> SUFFICES ASSUME NEW u \in Threads, NEW e \in thread'[u].batch
                 PROVE  \/ e \in outlived'
                        \/ queue'[e].status = "processed" /\ e \in unlocked'
                        \/ queue'[e].status = "pending" /\ queue'[e].by = u
      BY DEF BatchOwned
    <3>1. e \in Events
      BY <1>0 DEF TypeOK
    <3>2. CASE u = t
      BY <2>2, <2>3, <2>5, <3>1, <3>2
    <3>3. CASE u # t /\ e \in B
      BY <2>5, <2>6, <3>3
    <3>4. CASE u # t /\ e \notin B
      BY <1>3, <2>1, <2>2, <2>5, <3>1, <3>4 DEF BatchOwned, ThreadClaim
    <3> QED BY <3>2, <3>3, <3>4
  <2>8. BatchesDisjoint'
    <3> SUFFICES ASSUME NEW u \in Threads, NEW v \in Threads, u # v,
                        NEW e \in thread'[u].batch \cap thread'[v].batch
                 PROVE  e \in outlived'
      BY DEF BatchesDisjoint
    <3>1. CASE u = t
      BY <2>5, <2>6, <3>1
    <3>2. CASE v = t
      BY <2>5, <2>6, <3>2
    <3>3. CASE u # t /\ v # t
      BY <2>1, <2>5, <3>3 DEF BatchesDisjoint
    <3> QED BY <3>1, <3>2, <3>3
  <2>9. SelectedUnlocked'
    BY <1>3 DEF ThreadClaim, SelectedUnlocked
  <2> QED BY <1>0, <2>4, <2>7, <2>8, <2>9
<1>4. ASSUME NEW t \in Threads, ThreadExit(t) \/ ThreadFail(t) PROVE IInv'
  <2>1. \A u \in Threads : thread'[u].batch \subseteq thread[u].batch
    BY <1>0, <1>4 DEF ThreadExit, ThreadFail, TypeOK
  <2>2. /\ UNCHANGED <<queue, fired, outlived, unlocked, producer>>
    BY <1>4 DEF ThreadExit, ThreadFail
  <2>3. DetectedIffProcessed' /\ RepeatHasCause'
    BY <2>2, NoDetectKeeps
  <2>4. BatchOwned' /\ BatchesDisjoint' /\ SelectedUnlocked'
    BY <2>1, <2>2 DEF BatchOwned, BatchesDisjoint, SelectedUnlocked
  <2> QED BY <1>0, <2>3, <2>4
<1>5. ASSUME NEW t \in Threads, ThreadCommit(t) PROVE IInv'
  <2> DEFINE B == thread[t].batch
  <2>1. B \in SUBSET Events /\ queue \in [Events -> Row]
    BY <1>0 DEF TypeOK
  <2>2. \A e \in B : fired[e] = 0 \/ e \in outlived \cup unlocked
    <3> TAKE e \in B
    <3>1. e \in outlived \/ e \in unlocked \/ queue[e].status = "pending"
      BY <1>0 DEF BatchOwned
    <3>2. e \in Events
      BY <2>1
    <3>3. fired \in [Events -> Nat]
      BY <1>0 DEF TypeOK
    <3>4. queue[e].status = "pending" => fired[e] = 0
      BY <1>0, <3>2, <3>3 DEF DetectedIffProcessed
    <3> QED BY <3>1, <3>4
  <2>3. DetectedIffProcessed' /\ RepeatHasCause'
    <3>1. Detect(queue, B) /\ UNCHANGED <<outlived, unlocked>>
      BY <1>5 DEF ThreadCommit
    <3> QED BY <1>0, <2>1, <2>2, <3>1, DetectKeeps
  <2>4. /\ thread'[t].batch = {}
        /\ \A u \in Threads \ {t} : thread'[u] = thread[u]
        /\ UNCHANGED <<outlived, unlocked, producer>>
        /\ \A e \in Events \ B : queue'[e] = queue[e]
    BY <1>0, <1>5 DEF ThreadCommit, Detect, CompleteRows, TypeOK
  <2>5. BatchOwned'
    <3> SUFFICES ASSUME NEW u \in Threads \ {t}, NEW e \in thread[u].batch
                 PROVE  \/ e \in outlived
                        \/ queue'[e].status = "processed" /\ e \in unlocked
                        \/ queue'[e].status = "pending" /\ queue'[e].by = u
      BY <2>4 DEF BatchOwned
    <3>1. CASE e \in B
      BY <3>1 DEF BatchesDisjoint
    <3>2. CASE e \notin B
      BY <1>0, <2>4, <3>2 DEF BatchOwned, TypeOK
    <3> QED BY <3>1, <3>2
  <2>6. BatchesDisjoint' /\ SelectedUnlocked'
    BY <2>4 DEF BatchesDisjoint, SelectedUnlocked
  <2> QED BY <1>0, <2>3, <2>5, <2>6
<1>6. ASSUME NEW p \in Producers, Admit(p) PROVE IInv'
  <2>1. /\ UNCHANGED <<queue, fired, outlived, unlocked, thread>>
        /\ \A r \in Producers : producer'[r].batch = producer[r].batch
    BY <1>0, <1>6 DEF Admit, TypeOK
  <2>2. DetectedIffProcessed' /\ RepeatHasCause'
    BY <2>1, NoDetectKeeps
  <2>3. BatchOwned' /\ BatchesDisjoint' /\ SelectedUnlocked'
    BY <2>1 DEF BatchOwned, BatchesDisjoint, SelectedUnlocked
  <2> QED BY <1>0, <2>2, <2>3
<1>7. ASSUME NEW p \in Producers, NEW S \in SUBSET Events, IngestLines(p, S)
      PROVE  IInv'
  <2> DEFINE q == InsertRows(queue, S, clock)
  <2>1. PICK B \in SUBSET Events :
          /\ IsBatch(q, clock, InlineLimit, B)
          /\ Detect(ClaimRows(q, B, Engine, clock), B)
          /\ outlived' = outlived \cup (B \cap Expired(q))
    BY <1>7 DEF IngestLines
  <2>2. /\ q \in [Events -> Row]
        /\ ClaimRows(q, B, Engine, clock) \in [Events -> Row]
    BY <1>0, RowOps, DetectionAssumption DEF TypeOK
  <2>3. \A e \in Events : \/ q[e] = queue[e]
                          \/ /\ queue[e].status = "absent"
                             /\ q[e].status = "pending"
    BY <1>7 DEF IngestLines, InsertRows, Present
  <2>4. \A e \in B : q[e].status = "pending"
                     /\ (q[e].by # NoWorker => e \in outlived')
    BY <2>1, BatchClaimable DEF Expired, Pending
  <2>5. \A e \in B : fired[e] = 0
    <3> TAKE e \in B
    <3>1. e \in Events /\ queue[e].status \in {"pending", "absent"}
      BY <2>1, <2>3, <2>4
    <3>2. fired \in [Events -> Nat]
      BY <1>0 DEF TypeOK
    <3> QED BY <1>0, <3>1, <3>2 DEF DetectedIffProcessed
  <2>6. DetectedIffProcessed' /\ RepeatHasCause'
    <3>1. \A e \in Events \ B : ClaimRows(q, B, Engine, clock)[e] = q[e]
      BY DEF ClaimRows
    <3>2. outlived \subseteq outlived' /\ unlocked \subseteq unlocked'
      BY <1>7, <2>1 DEF IngestLines
    <3> HIDE DEF q
    <3> QED BY <1>0, <2>1, <2>2, <2>3, <2>5, <3>1, <3>2, DetectKeeps
  <2>7. /\ UNCHANGED <<thread, unlocked>>
        /\ \A e \in Events \ B : queue'[e] = q[e]
    BY <1>7, <2>1 DEF IngestLines, Detect, CompleteRows, ClaimRows
  <2>8. BatchOwned'
    <3> SUFFICES ASSUME NEW t \in Threads, NEW e \in thread[t].batch
                 PROVE  \/ e \in outlived'
                        \/ queue'[e].status = "processed" /\ e \in unlocked
                        \/ queue'[e].status = "pending" /\ queue'[e].by = t
      BY <2>7 DEF BatchOwned
    <3>1. e \in Events
      BY <1>0 DEF TypeOK
    <3>2. \/ e \in outlived
          \/ queue[e].status = "processed" /\ e \in unlocked
          \/ queue[e].status = "pending" /\ queue[e].by = t
      BY DEF BatchOwned
    <3>3. CASE e \in outlived
      BY <2>1, <3>3
    <3>4. CASE e \notin outlived /\ e \notin B
      <4>1. queue'[e] = queue[e]
        BY <2>3, <2>7, <3>1, <3>2, <3>4
      <4> QED BY <3>2, <3>4, <4>1
    <3>5. CASE e \notin outlived /\ e \in B
      \* Its claim is t's, so it can be in B only because the lease ran out.
      <4>1. q[e] = queue[e] /\ queue[e].by = t
        BY <2>3, <2>4, <3>1, <3>2, <3>5
      <4> QED BY <2>4, <3>5, <4>1, ThreadsAreWorkers
    <3> QED BY <3>3, <3>4, <3>5
  <2>9. BatchesDisjoint' /\ SelectedUnlocked'
    BY <1>0, <1>7, <2>1, <2>7
       DEF IngestLines, IdleProducer, BatchesDisjoint, SelectedUnlocked, TypeOK
  <2> QED BY <1>0, <2>6, <2>8, <2>9
<1>8. ASSUME NEW p \in Producers, SelectUnlocked(p) PROVE IInv'
  <2>1. PICK B \in SUBSET Events :
          /\ producer' = [producer EXCEPT ![p] = [pc |-> "selected", batch |-> B]]
          /\ unlocked' = unlocked \cup B
          /\ outlived' = outlived \cup (B \cap Expired(queue))
    BY <1>8 DEF SelectUnlocked
  <2>2. UNCHANGED <<queue, fired, thread>>
    BY <1>8 DEF SelectUnlocked
  <2>3. DetectedIffProcessed' /\ RepeatHasCause'
    BY <2>1, <2>2, NoDetectKeeps
  <2>4. BatchOwned' /\ BatchesDisjoint'
    BY <2>1, <2>2 DEF BatchOwned, BatchesDisjoint
  <2>5. SelectedUnlocked'
    BY <1>0, <2>1 DEF SelectedUnlocked, TypeOK
  <2> QED BY <1>0, <2>3, <2>4, <2>5
<1>9. ASSUME NEW p \in Producers, CommitUnlocked(p) PROVE IInv'
  <2> DEFINE B == producer[p].batch
             q == ClaimRows(queue, B, Engine, clock)
  <2>1. /\ Detect(q, B)
        /\ producer' = [producer EXCEPT ![p] = IdleProducer]
        /\ UNCHANGED <<thread, outlived, unlocked>>
    BY <1>9 DEF CommitUnlocked
  <2>2. B \in SUBSET Events /\ B \subseteq unlocked
    BY <1>0 DEF SelectedUnlocked, TypeOK
  <2>3. q \in [Events -> Row]
    BY <1>0, <2>2, RowOps, DetectionAssumption DEF TypeOK
  <2>4. \A e \in Events \ B : q[e] = queue[e] /\ queue'[e] = queue[e]
    BY <2>1 DEF Detect, CompleteRows, ClaimRows
  <2>5. \A e \in B : queue'[e].status = "processed"
    BY <2>1, <2>2, <2>3 DEF Detect, CompleteRows, Row
  <2>6. DetectedIffProcessed' /\ RepeatHasCause'
    <3> HIDE DEF q
    <3> QED BY <1>0, <2>1, <2>2, <2>3, <2>4, DetectKeeps
  <2>7. BatchOwned'
    <3> SUFFICES ASSUME NEW t \in Threads, NEW e \in thread[t].batch
                 PROVE  \/ e \in outlived
                        \/ queue'[e].status = "processed" /\ e \in unlocked
                        \/ queue'[e].status = "pending" /\ queue'[e].by = t
      BY <2>1 DEF BatchOwned
    <3>1. CASE e \in B
      BY <2>2, <2>5, <3>1
    <3>2. CASE e \notin B
      BY <1>0, <2>4, <3>2 DEF BatchOwned, TypeOK
    <3> QED BY <3>1, <3>2
  <2>8. BatchesDisjoint' /\ SelectedUnlocked'
    BY <1>0, <2>1 DEF IdleProducer, BatchesDisjoint, SelectedUnlocked, TypeOK
  <2> QED BY <1>0, <2>6, <2>7, <2>8
<1>10. CASE Tick \/ UNCHANGED vars
  <2>1. UNCHANGED <<queue, fired, outlived, unlocked, thread, producer>>
    BY <1>10 DEF Tick, vars
  <2>2. DetectedIffProcessed' /\ RepeatHasCause'
    BY <2>1, NoDetectKeeps
  <2>3. BatchOwned' /\ BatchesDisjoint' /\ SelectedUnlocked'
    BY <2>1 DEF BatchOwned, BatchesDisjoint, SelectedUnlocked
  <2> QED BY <1>0, <2>2, <2>3
<1> QED
  BY <1>1, <1>2, <1>3, <1>4, <1>5, <1>6, <1>7, <1>8, <1>9, <1>10
     DEF Next, PoolStep, IngestStep

\* The inductive invariant.
THEOREM InvCorrect == Spec => []IInv
  BY InvInit, InvStep, PTL DEF Spec

\* A row is marked processed exactly when the alerts of a detection pass over it
\* have been committed: complete and the alerts share a transaction.
THEOREM NothingLost == Spec => []DetectedIffProcessed
<1>1. IInv => DetectedIffProcessed
  BY DEF IInv
<1> QED BY <1>1, InvCorrect, PTL

\* An event is detected twice only if a lease ran out under the thread that held it
\* or an inline claim read it outside the write lock.
THEOREM RepeatsExplained == Spec => []RepeatHasCause
<1>1. IInv => RepeatHasCause
  BY DEF IInv
<1> QED BY <1>1, InvCorrect, PTL

\* Two pool threads never hold an event at once while its lease lasts.
THEOREM ClaimsExclusive == Spec => []BatchesDisjoint
<1>1. IInv => BatchesDisjoint
  BY DEF IInv
<1> QED BY <1>1, InvCorrect, PTL

-----------------------------------------------------------------------------
(* Detection implements the at-least-once queue of WorkQueue *)

\* Whoever holds a batch holds rows that exist.
HeldPresent == /\ \A t \in Threads : thread[t].batch \subseteq Present(queue)
               /\ \A p \in Producers : producer[p].batch \subseteq Present(queue)

LEMMA HeldInit == Init => HeldPresent
  BY DEF Init, HeldPresent, OffThread, IdleProducer

LEMMA HeldStep == TypeOK /\ HeldPresent /\ [Next]_vars => HeldPresent'
<1> SUFFICES ASSUME TypeOK, HeldPresent, [Next]_vars PROVE HeldPresent'
  OBVIOUS
<1> USE DEF TypeOK, HeldPresent, Present
<1>1. ASSUME NEW d \in Drains, StartDrain(d) PROVE HeldPresent'
  <2>1. \A e \in Events : queue'[e].status = queue[e].status
    BY <1>1 DEF StartDrain, RequeueStale, Row
  <2> QED BY <1>1, <2>1 DEF StartDrain
<1>2. ASSUME NEW d \in Drains, EndDrain(d) PROVE HeldPresent'
  BY <1>2 DEF EndDrain, OffThread
<1>3. ASSUME NEW t \in Threads, ThreadClaim(t) PROVE HeldPresent'
  <2>1. PICK B \in (SUBSET Events) \ {{}} :
          /\ IsBatch(queue, clock, PoolBatch, B)
          /\ queue' = ClaimRows(queue, B, t, clock)
          /\ thread' = [thread EXCEPT ![t] = [pc |-> "detecting", batch |-> B]]
    BY <1>3 DEF ThreadClaim
  <2>2. ASSUME NEW e \in Events PROVE queue'[e].status = queue[e].status
    <3>1. queue[e] \in Row
      OBVIOUS
    <3> QED BY <2>1, <3>1 DEF ClaimRows, Row
  <2>3. B \subseteq Present(queue)
    BY <2>1, BatchClaimable
  <2>4. Present(queue)' = Present(queue)
    BY <2>2
  <2>5. thread'[t].batch \subseteq Present(queue)
    BY <2>1, <2>3
  <2>6. \A u \in Threads \ {t} : thread'[u].batch \subseteq Present(queue)
    BY <2>1
  <2>7. producer' = producer
    BY <1>3 DEF ThreadClaim
  <2> QED BY <2>4, <2>5, <2>6, <2>7
<1>4. ASSUME NEW t \in Threads, ThreadExit(t) \/ ThreadFail(t) PROVE HeldPresent'
  <2>1. /\ queue' = queue
        /\ producer' = producer
        /\ \E x \in {"done", "failed"} : thread' = [thread EXCEPT ![t] = [pc |-> x, batch |-> {}]]
    BY <1>4 DEF ThreadExit, ThreadFail
  <2> QED BY <2>1
<1>5. ASSUME NEW t \in Threads, ThreadCommit(t) PROVE HeldPresent'
  <2>1. \A e \in Events : queue[e].status # "absent" => queue'[e].status # "absent"
    <3>1. queue' = CompleteRows(queue, thread[t].batch)
      BY <1>5 DEF ThreadCommit, Detect
    <3>2. \A e \in Events : queue[e] \in Row
      OBVIOUS
    <3> QED BY <3>1, <3>2 DEF CompleteRows, Row
  <2> QED BY <1>5, <2>1 DEF ThreadCommit
<1>6. ASSUME NEW p \in Producers, Admit(p) PROVE HeldPresent'
  BY <1>6 DEF Admit
<1>7. ASSUME NEW p \in Producers, NEW S \in SUBSET Events, IngestLines(p, S)
      PROVE  HeldPresent'
  <2>1. PICK B \in SUBSET Events :
          Detect(ClaimRows(InsertRows(queue, S, clock), B, Engine, clock), B)
    BY <1>7 DEF IngestLines
  <2>2. ASSUME NEW e \in Events, queue[e].status # "absent"
        PROVE  queue'[e].status # "absent"
    <3>1. e \notin S /\ queue[e] \in Row
      BY <1>7, <2>2 DEF IngestLines
    <3> QED BY <2>1, <2>2, <3>1 DEF Detect, CompleteRows, ClaimRows, InsertRows, Row
  <2> QED BY <1>7, <2>2 DEF IngestLines, IdleProducer
<1>8. ASSUME NEW p \in Producers, SelectUnlocked(p) PROVE HeldPresent'
  <2>1. PICK B \in SUBSET Events :
          /\ IsBatch(queue, clock, InlineLimit, B)
          /\ producer' = [producer EXCEPT ![p] = [pc |-> "selected", batch |-> B]]
    BY <1>8 DEF SelectUnlocked
  <2>2. B \subseteq Present(queue)
    BY <2>1, BatchClaimable
  <2> QED BY <1>8, <2>1, <2>2 DEF SelectUnlocked
<1>9. ASSUME NEW p \in Producers, CommitUnlocked(p) PROVE HeldPresent'
  <2>1. ASSUME NEW e \in Events, queue[e].status # "absent"
        PROVE  queue'[e].status # "absent"
    <3>1. queue[e] \in Row
      OBVIOUS
    <3> QED BY <1>9, <2>1, <3>1 DEF CommitUnlocked, Detect, CompleteRows, ClaimRows, Row
  <2> QED BY <1>9, <2>1 DEF CommitUnlocked, IdleProducer
<1>10. CASE Tick \/ UNCHANGED vars
  BY <1>10 DEF Tick, vars
<1> QED
  BY <1>1, <1>2, <1>3, <1>4, <1>5, <1>6, <1>7, <1>8, <1>9, <1>10
     DEF Next, PoolStep, IngestStep

\* A step that leaves every status and every count alone is a stutter of the queue.
LEMMA StatusStutter ==
  ASSUME \A e \in Events : queue'[e].status = queue[e].status, fired' = fired
  PROVE  UNCHANGED Queue!vars
  BY DEF Queue!vars, ItemState

\* A detection pass over B, with the rows of S inserted first, is one AddAndServe.
LEMMA DetectServes ==
  ASSUME TypeOK, NEW S \in SUBSET Events, NEW B \in SUBSET Events,
         NEW q \in [Events -> Row], Detect(q, B),
         S \cap Present(queue) = {}, B \subseteq S \cup Present(queue),
         \A e \in Events \ B : q[e].status = IF e \in S THEN "pending" ELSE queue[e].status
  PROVE  Queue!Next
<1>1. \A e \in Events :
        ItemState(queue'[e]) = IF e \in B THEN "done"
                               ELSE IF e \in S THEN "todo" ELSE ItemState(queue[e])
  BY DEF Detect, CompleteRows, ItemState, Row
<1>2. \A e \in Events : fired'[e] = IF e \in B THEN fired[e] + 1 ELSE fired[e]
  BY DEF Detect
<1>3. \A e \in Events : ItemState(queue[e]) = "absent" <=> e \notin Present(queue)
  BY DEF ItemState, Present, TypeOK, Row
<1>4. fired' = [e \in Events |-> IF e \in B THEN fired[e] + 1 ELSE fired[e]]
  BY DEF Detect
<1>5. Queue!AddAndServe(S, B)
  BY <1>1, <1>3, <1>4 DEF Queue!AddAndServe
<1> QED BY <1>5 DEF Queue!Next

LEMMA QueueStep ==
  TypeOK /\ HeldPresent /\ [Next]_vars => Queue!Next \/ UNCHANGED Queue!vars
<1> SUFFICES ASSUME TypeOK, HeldPresent, [Next]_vars
             PROVE  Queue!Next \/ UNCHANGED Queue!vars
  OBVIOUS
<1>1. ASSUME NEW d \in Drains, StartDrain(d) PROVE UNCHANGED Queue!vars
  <2>1. \A e \in Events : queue'[e].status = queue[e].status
    BY <1>1 DEF StartDrain, RequeueStale, Row, TypeOK
  <2>2. fired' = fired
    BY <1>1 DEF StartDrain
  <2> QED BY <2>1, <2>2, StatusStutter
<1>2. ASSUME NEW t \in Threads, ThreadClaim(t) PROVE UNCHANGED Queue!vars
  <2>1. PICK B \in (SUBSET Events) \ {{}} : queue' = ClaimRows(queue, B, t, clock)
    BY <1>2 DEF ThreadClaim
  <2>2. ASSUME NEW e \in Events PROVE queue'[e].status = queue[e].status
    <3>1. queue[e] \in Row
      BY DEF TypeOK
    <3> QED BY <2>1, <3>1 DEF ClaimRows, Row
  <2>3. fired' = fired
    BY <1>2 DEF ThreadClaim
  <2> QED BY <2>2, <2>3, StatusStutter
<1>3. ASSUME NEW t \in Threads, ThreadCommit(t) PROVE Queue!Next
  <2>1. /\ thread[t].batch \in SUBSET Events
        /\ thread[t].batch \subseteq Present(queue)
        /\ queue \in [Events -> Row]
    BY DEF TypeOK, HeldPresent
  <2>2. Detect(queue, thread[t].batch)
    BY <1>3 DEF ThreadCommit
  <2>3. \A e \in Events : queue[e].status = IF e \in {} THEN "pending" ELSE queue[e].status
    OBVIOUS
  <2>4. {} \in SUBSET Events /\ {} \cap Present(queue) = {}
    OBVIOUS
  <2>5. \A S \in SUBSET Events :
          /\ S \cap Present(queue) = {}
          /\ thread[t].batch \subseteq S \cup Present(queue)
          /\ \A e \in Events \ thread[t].batch :
               queue[e].status = IF e \in S THEN "pending" ELSE queue[e].status
          => Queue!Next
    BY <2>1, <2>2, DetectServes
  <2> QED BY <2>1, <2>3, <2>4, <2>5
<1>4. ASSUME NEW p \in Producers, NEW S \in SUBSET Events, IngestLines(p, S)
      PROVE  Queue!Next
  <2> DEFINE q == InsertRows(queue, S, clock)
  <2>1. PICK B \in SUBSET Events : /\ IsBatch(q, clock, InlineLimit, B)
                                   /\ Detect(ClaimRows(q, B, Engine, clock), B)
    BY <1>4 DEF IngestLines
  <2>2. /\ q \in [Events -> Row]
        /\ ClaimRows(q, B, Engine, clock) \in [Events -> Row]
    BY RowOps, DetectionAssumption DEF TypeOK
  <2>3. S \cap Present(queue) = {}
    BY <1>4 DEF IngestLines
  <2>4. B \subseteq S \cup Present(queue)
    BY <2>1, BatchClaimable DEF InsertRows, Present
  <2>5. \A e \in Events \ B :
          ClaimRows(q, B, Engine, clock)[e].status
            = IF e \in S THEN "pending" ELSE queue[e].status
    BY DEF ClaimRows, InsertRows
  <2> HIDE DEF q
  <2> QED BY <2>1, <2>2, <2>3, <2>4, <2>5, DetectServes
<1>5. ASSUME NEW p \in Producers, CommitUnlocked(p) PROVE Queue!Next
  <2> DEFINE B == producer[p].batch
             q == ClaimRows(queue, B, Engine, clock)
  <2>1. B \in SUBSET Events /\ B \subseteq Present(queue)
    BY DEF TypeOK, HeldPresent
  <2>2. q \in [Events -> Row]
    BY <2>1, RowOps, DetectionAssumption DEF TypeOK
  <2>3. Detect(q, B)
    BY <1>5 DEF CommitUnlocked
  <2>4. \A e \in Events \ B :
          q[e].status = IF e \in {} THEN "pending" ELSE queue[e].status
    BY DEF ClaimRows
  <2>5. {} \in SUBSET Events /\ {} \cap Present(queue) = {}
    OBVIOUS
  <2> HIDE DEF B, q
  <2>6. \A S \in SUBSET Events :
          /\ S \cap Present(queue) = {}
          /\ B \subseteq S \cup Present(queue)
          /\ \A e \in Events \ B :
               q[e].status = IF e \in S THEN "pending" ELSE queue[e].status
          => Queue!Next
    BY <2>1, <2>2, <2>3, DetectServes
  <2> QED BY <2>1, <2>4, <2>5, <2>6
<1>6. CASE /\ fired' = fired
           /\ queue' = queue
  BY <1>6, StatusStutter
<1>7. \/ \E d \in Drains : StartDrain(d)
      \/ \E t \in Threads : ThreadClaim(t) \/ ThreadCommit(t)
      \/ \E p \in Producers : \/ \E S \in SUBSET Events : IngestLines(p, S)
                              \/ CommitUnlocked(p)
      \/ fired' = fired /\ queue' = queue
  BY DEF Next, PoolStep, IngestStep, EndDrain, ThreadExit, ThreadFail, Admit,
         SelectUnlocked, Tick, vars
<1> QED BY <1>1, <1>2, <1>3, <1>4, <1>5, <1>6, <1>7

LEMMA QueueInit == Init => Queue!Init
  BY DEF Init, Queue!Init, AbsentRow, ItemState

\* The pool, the inline path and the leases together are an at-least-once queue:
\* each step of the code maps to a step of WorkQueue or to a stutter of it.
THEOREM ImplementsQueue == Spec => AtLeastOnce
<1>1. Spec => [](TypeOK /\ HeldPresent)
  BY TypeInit, TypeStep, HeldInit, HeldStep, PTL DEF Spec
<1>2. TypeOK /\ HeldPresent /\ [Next]_vars => [Queue!Next]_(Queue!vars)
  BY QueueStep
<1> QED BY <1>1, <1>2, QueueInit, PTL DEF Spec, AtLeastOnce, Queue!Spec

-----------------------------------------------------------------------------
(* What a drain that ran to its end has done *)

\* A row a drain has no more to do with.
Covered(e) == \/ queue[e].status = "processed"
              \/ queue[e].by # NoWorker
              \/ e \in outlived

\* A thread ends when it finds nothing to claim: by then every event its drain was
\* called for is covered, and it stays so whatever the others do.
DoneCovered ==
  \A d \in Drains :
    /\ todo[d] \subseteq Present(queue)
    /\ \A t \in ThreadsOf(d) : thread[t].pc = "done" => \A e \in todo[d] : Covered(e)

\* A row that exists is never removed here, and it is uncovered only by dropping a
\* claim whose lease has run out.
LEMMA CoveredStays ==
  ASSUME TypeOK, [Next]_vars, NEW e \in Present(queue)
  PROVE  e \in Present(queue)' /\ (Covered(e) => Covered(e)')
<1> USE DEF Present, Covered
<1>0. e \in Events /\ queue[e].status # "absent" /\ \A f \in Events : queue[f] \in Row
  BY DEF TypeOK
<1>1. ASSUME NEW d \in Drains, StartDrain(d)
      PROVE  e \in Present(queue)' /\ (Covered(e) => Covered(e)')
  <2>1. queue'[e].status = queue[e].status /\ outlived \subseteq outlived'
    BY <1>0, <1>1 DEF StartDrain, RequeueStale, Row
  <2>2. e \in outlived' \/ queue'[e] = queue[e]
    BY <1>0, <1>1 DEF StartDrain, RequeueStale, Expired
  <2> QED BY <1>0, <2>1, <2>2
<1>2. ASSUME NEW t \in Threads, ThreadClaim(t)
      PROVE  e \in Present(queue)' /\ (Covered(e) => Covered(e)')
  <2>1. PICK B \in (SUBSET Events) \ {{}} :
          /\ queue' = ClaimRows(queue, B, t, clock)
          /\ outlived' = outlived \cup (B \cap Expired(queue))
    BY <1>2 DEF ThreadClaim
  <2>2. queue'[e].status = queue[e].status
        /\ (queue[e].by # NoWorker => queue'[e].by # NoWorker)
    BY <1>0, <2>1, ThreadsAreWorkers DEF ClaimRows, Row
  <2> QED BY <1>0, <2>1, <2>2
<1>3. ASSUME NEW t \in Threads, ThreadCommit(t)
      PROVE  e \in Present(queue)' /\ (Covered(e) => Covered(e)')
  <2>1. queue' = CompleteRows(queue, thread[t].batch) /\ outlived' = outlived
    BY <1>3 DEF ThreadCommit, Detect
  <2>2. queue'[e] = queue[e] \/ queue'[e].status = "processed"
    BY <1>0, <2>1 DEF CompleteRows, Row
  <2> QED BY <1>0, <2>1, <2>2
<1>4. ASSUME NEW p \in Producers, NEW S \in SUBSET Events, IngestLines(p, S)
      PROVE  e \in Present(queue)' /\ (Covered(e) => Covered(e)')
  <2>1. PICK B \in SUBSET Events :
          /\ Detect(ClaimRows(InsertRows(queue, S, clock), B, Engine, clock), B)
          /\ outlived' = outlived \cup (B \cap Expired(InsertRows(queue, S, clock)))
    BY <1>4 DEF IngestLines
  <2>2. e \notin S
    BY <1>0, <1>4 DEF IngestLines
  <2>3. queue'[e] = queue[e] \/ queue'[e].status = "processed"
    BY <1>0, <2>1, <2>2 DEF Detect, CompleteRows, ClaimRows, InsertRows, Row
  <2> QED BY <1>0, <2>1, <2>3
<1>5. ASSUME NEW p \in Producers, CommitUnlocked(p)
      PROVE  e \in Present(queue)' /\ (Covered(e) => Covered(e)')
  <2>1. queue'[e] = queue[e] \/ queue'[e].status = "processed"
    BY <1>0, <1>5 DEF CommitUnlocked, Detect, CompleteRows, ClaimRows, Row
  <2> QED BY <1>0, <1>5, <2>1 DEF CommitUnlocked
<1>6. ASSUME queue' = queue, outlived \subseteq outlived'
      PROVE  e \in Present(queue)' /\ (Covered(e) => Covered(e)')
  BY <1>0, <1>6
<1>7. \/ \E d \in Drains : StartDrain(d)
      \/ \E t \in Threads : ThreadClaim(t) \/ ThreadCommit(t)
      \/ \E p \in Producers : \/ \E S \in SUBSET Events : IngestLines(p, S)
                              \/ CommitUnlocked(p)
      \/ queue' = queue /\ outlived \subseteq outlived'
  BY DEF Next, PoolStep, IngestStep, EndDrain, ThreadExit, ThreadFail, Admit,
         SelectUnlocked, Tick, vars
<1> QED BY <1>1, <1>2, <1>3, <1>4, <1>5, <1>6, <1>7

\* An empty answer to a claim that asks for at least one row: nothing is claimable.
LEMMA NothingClaimable ==
  ASSUME TypeOK, IsBatch(queue, clock, PoolBatch, {})
  PROVE  Claimable(queue, clock) = {}
<1> DEFINE C == Claimable(queue, clock)
<1>1. C \subseteq Events
  BY DEF Claimable, Pending
<1>2. IsFiniteSet(C) /\ Cardinality(C) \in Nat
  BY <1>1, QueueAssumption, FS_Subset, FS_CardinalityType
<1>3. Cardinality({}) = 0
  BY FS_EmptySet
<1>4. Cardinality({}) = IF Cardinality(C) < PoolBatch THEN Cardinality(C) ELSE PoolBatch
  BY DEF IsBatch
<1>5. Cardinality(C) = 0
  BY <1>2, <1>3, <1>4, DetectionAssumption
<1> QED BY <1>2, <1>5, FS_EmptySet

LEMMA DoneInit == Init => DoneCovered
  BY DEF Init, DoneCovered, ThreadsOf, OffThread

LEMMA DoneStep == TypeOK /\ DoneCovered /\ [Next]_vars => DoneCovered'
<1> SUFFICES ASSUME TypeOK, DoneCovered, [Next]_vars PROVE DoneCovered'
  OBVIOUS
<1>0. \A d \in Drains : \A t \in ThreadsOf(d) : t \in Threads /\ t[1] = d
  BY DEF ThreadsOf
\* A step that ends no thread and starts no drain keeps what was covered.
<1>1. ASSUME todo' = todo,
             \A t \in Threads : thread'[t].pc = "done" => thread[t].pc = "done"
      PROVE  DoneCovered'
  <2> SUFFICES ASSUME NEW d \in Drains
               PROVE  /\ todo[d] \subseteq Present(queue)'
                      /\ \A t \in ThreadsOf(d) :
                           thread'[t].pc = "done" => \A e \in todo[d] : Covered(e)'
    BY <1>1 DEF DoneCovered, ThreadsOf
  <2>1. \A e \in todo[d] : /\ e \in Present(queue)'
                           /\ Covered(e) => Covered(e)'
    BY CoveredStays DEF DoneCovered
  <2> QED BY <1>0, <1>1, <2>1 DEF DoneCovered
<1>2. ASSUME NEW d \in Drains, StartDrain(d) PROVE DoneCovered'
  <2>1. /\ todo'[d] = Claimable(queue, clock)
        /\ \A c \in Drains \ {d} : todo'[c] = todo[c]
    BY <1>2 DEF StartDrain, TypeOK
  <2>2. \A t \in Threads : thread'[t].pc = "done" => t[1] # d /\ thread[t].pc = "done"
    BY <1>2 DEF StartDrain, ThreadsOf
  <2> SUFFICES ASSUME NEW c \in Drains
               PROVE  /\ todo'[c] \subseteq Present(queue)'
                      /\ \A t \in ThreadsOf(c) :
                           thread'[t].pc = "done" => \A e \in todo'[c] : Covered(e)'
    BY DEF DoneCovered, ThreadsOf
  <2>3. CASE c = d
    <3>1. Claimable(queue, clock) \subseteq Present(queue)
      BY DEF Claimable, Pending, Present
    <3> QED BY <1>0, <2>1, <2>2, <2>3, <3>1, CoveredStays
  <2>4. CASE c # d
    <3>1. \A e \in todo[c] : /\ e \in Present(queue)'
                             /\ Covered(e) => Covered(e)'
      BY CoveredStays DEF DoneCovered
    <3> QED BY <1>0, <2>1, <2>2, <2>4, <3>1 DEF DoneCovered
  <2> QED BY <2>3, <2>4
<1>3. ASSUME NEW t \in Threads, ThreadExit(t) PROVE DoneCovered'
  <2>1. /\ UNCHANGED <<queue, outlived, todo>>
        /\ \A u \in Threads \ {t} : thread'[u] = thread[u]
    BY <1>3 DEF ThreadExit, TypeOK
  <2>2. Claimable(queue, clock) = {}
    BY <1>3, NothingClaimable DEF ThreadExit
  <2>3. \A e \in Present(queue) : Covered(e)
    BY <2>2 DEF Claimable, Pending, Present, Covered, TypeOK, Row
  <2> QED BY <1>0, <2>1, <2>3 DEF DoneCovered, ThreadsOf, Present, Covered
<1>4. \/ \E d \in Drains : StartDrain(d)
      \/ \E t \in Threads : ThreadExit(t)
      \/ /\ todo' = todo
         /\ \A t \in Threads : thread'[t].pc = "done" => thread[t].pc = "done"
  <2>1. ASSUME NEW d \in Drains, EndDrain(d)
        PROVE  \A t \in Threads : thread'[t].pc = "done" => thread[t].pc = "done"
    BY <2>1 DEF EndDrain, OffThread
  <2>2. ASSUME NEW t \in Threads, ThreadClaim(t) \/ ThreadCommit(t) \/ ThreadFail(t)
        PROVE  \A u \in Threads : thread'[u].pc = "done" => thread[u].pc = "done"
    BY <2>2 DEF ThreadClaim, ThreadCommit, ThreadFail, TypeOK
  <2> QED BY <2>1, <2>2 DEF Next, PoolStep, IngestStep, EndDrain, ThreadClaim, ThreadCommit,
             ThreadFail, Admit, IngestLines, SelectUnlocked, CommitUnlocked, Tick, vars
<1> QED BY <1>1, <1>2, <1>3, <1>4

\* A drain whose threads have all ended, none of them by dying, leaves nothing
\* behind that it could have claimed when it was called: each such event is
\* processed, in another worker's hands, or was given up by its lease (run_pool).
THEOREM DrainIsComplete == Spec => []DrainComplete
<1>1. Spec => [](TypeOK /\ DoneCovered)
  BY TypeInit, TypeStep, DoneInit, DoneStep, PTL DEF Spec
<1>2. TypeOK /\ DoneCovered => DrainComplete
  <2> SUFFICES ASSUME DoneCovered, NEW d \in Drains,
                      \A t \in ThreadsOf(d) : thread[t].pc = "done"
               PROVE  \A e \in todo[d] : Covered(e)
    BY DEF DrainComplete, Covered
  <2>1. <<d, 1>> \in ThreadsOf(d)
    BY DetectionAssumption DEF ThreadsOf, Threads
  <2> QED BY <2>1 DEF DoneCovered
<1> QED BY <1>1, <1>2, PTL

-----------------------------------------------------------------------------
(* How far the backlog goes past its limit *)

\* Clients whose request has been let in and has not been answered.
Active == {p \in Clients \ Listeners : producer[p].pc # "idle"}

\* Every request let in may still add Surplus rows; what it was let in on is a depth
\* below the limit.
BacklogInv ==
  /\ heard \subseteq Present(queue)
  /\ MaxBacklog > 0 =>
       Depth(queue) + Cardinality(Active) * Surplus
         <= MaxBacklog - 1 + Cardinality(Clients) * Surplus + Cardinality(heard)

LEMMA SurplusType == Surplus \in Nat /\ MaxLines <= InlineLimit + Surplus
  BY DetectionAssumption DEF Surplus

\* Any set of events is finite, and so is any set of clients.
LEMMA FiniteEvents ==
  ASSUME NEW S \in SUBSET Events
  PROVE  IsFiniteSet(S) /\ Cardinality(S) \in Nat
  BY QueueAssumption, FS_Subset, FS_CardinalityType

LEMMA FiniteActive ==
  /\ IsFiniteSet(Active)
  /\ Cardinality(Active) \in Nat
  /\ Cardinality(Clients) \in Nat
  /\ Cardinality(Active) <= Cardinality(Clients)
<1>1. IsFiniteSet(Clients) /\ Cardinality(Clients) \in Nat
  BY DetectionAssumption, FS_CardinalityType
<1>2. Active \in SUBSET Clients
  BY DEF Active
<1>3. IsFiniteSet(Active) /\ Cardinality(Active) <= Cardinality(Clients)
  BY <1>1, <1>2, FS_Subset
<1> QED BY <1>1, <1>3, FS_CardinalityType

LEMMA Scaled ==
  ASSUME NEW m \in Nat, NEW n \in Nat, NEW k \in Nat
  PROVE  /\ m * k \in Nat
         /\ (m + 1) * k = m * k + k
         /\ m <= n => m * k <= n * k
<1>1. m * k \in Nat /\ (m + 1) * k = m * k + k
  OBVIOUS
<1>2. ASSUME m <= n PROVE m * k <= n * k
  <2>1. (n - m) \in Nat /\ n = m + (n - m)
    BY <1>2
  <2>2. \A d \in Nat : (m + d) * k = m * k + d * k /\ d * k >= 0
    OBVIOUS
  <2> QED BY <2>1, <2>2
<1> QED BY <1>1, <1>2

\* A step that adds no pending row, lets no request in and has no line heard.
LEMMA NoNewBacklog ==
  ASSUME TypeOK, TypeOK', BacklogInv, Pending(queue)' \subseteq Pending(queue),
         Active' \subseteq Active, heard' = heard, Present(queue) \subseteq Present(queue)'
  PROVE  BacklogInv'
<1>1. Pending(queue) \in SUBSET Events /\ heard \in SUBSET Events
  BY DEF Pending, TypeOK
<1>2. Depth(queue)' <= Depth(queue) /\ Depth(queue)' \in Nat /\ Depth(queue) \in Nat
  <2>1. Pending(queue)' \in SUBSET Pending(queue) /\ Pending(queue)' \in SUBSET Events
    BY <1>1
  <2> QED BY <1>1, <2>1, FiniteEvents, FS_Subset DEF Depth
<1>3. Cardinality(Active)' <= Cardinality(Active) /\ Cardinality(Active)' \in Nat
  BY FiniteActive, FS_Subset, FS_CardinalityType
<1>4. /\ Cardinality(Active)' * Surplus <= Cardinality(Active) * Surplus
      /\ Cardinality(Active)' * Surplus \in Nat
      /\ Cardinality(Active) * Surplus \in Nat
      /\ Cardinality(Clients) * Surplus \in Nat
  BY <1>3, FiniteActive, SurplusType, Scaled
<1>5. Cardinality(heard) \in Nat /\ MaxBacklog \in Nat
  BY <1>1, FiniteEvents, DetectionAssumption
<1> QED BY <1>2, <1>4, <1>5 DEF BacklogInv

\* What one request does to the depth: the lines it adds, less the batch its own
\* detection pass takes off the queue.
LEMMA IngestDepth ==
  ASSUME TypeOK, NEW S \in SUBSET Events, NEW B \in SUBSET Events,
         S \cap Present(queue) = {}, Cardinality(S) <= MaxLines,
         IsBatch(InsertRows(queue, S, clock), clock, InlineLimit, B),
         Detect(ClaimRows(InsertRows(queue, S, clock), B, Engine, clock), B)
  PROVE  /\ Depth(queue)' <= Depth(queue) + Surplus
         /\ Depth(queue)' <= Depth(queue) + Cardinality(S)
         /\ Depth(queue)' \in Nat /\ Depth(queue) \in Nat
<1> DEFINE q == InsertRows(queue, S, clock)
           P == Pending(queue)
           C == Claimable(q, clock)
<1>1. \A e \in Events : queue[e] \in Row
  BY DEF TypeOK
<1>2. P \in SUBSET Events /\ S \cap P = {} /\ Pending(q) = P \cup S
  BY <1>1 DEF Pending, Present, InsertRows
<1>3. C \in SUBSET (P \cup S) /\ S \in SUBSET C /\ B \in SUBSET C
  BY <1>2 DEF IsBatch, Claimable, Pending, InsertRows
<1>4. Pending(queue)' = (P \cup S) \ B
  <2>1. queue' = CompleteRows(ClaimRows(q, B, Engine, clock), B)
    BY DEF Detect
  <2>2. \A e \in Events : q[e] \in Row
    <3>1. q \in [Events -> Row]
      BY RowOps, DetectionAssumption DEF TypeOK
    <3> QED BY <3>1
  <2>3. \A e \in Events \ B : queue'[e] = q[e]
    BY <2>1 DEF CompleteRows, ClaimRows
  <2>4. \A e \in B : queue'[e].status = "processed"
    BY <2>1, <2>2 DEF CompleteRows, ClaimRows, Row
  <2> HIDE DEF q
  <2>5. \A e \in Events : queue'[e].status = "pending" <=> e \notin B /\ q[e].status = "pending"
    BY <2>3, <2>4
  <2>6. Pending(queue)' = Pending(q) \ B
    BY <2>5 DEF Pending
  <2> QED BY <1>2, <2>6
<1> HIDE DEF q, P, C
<1>5. /\ IsFiniteSet(P) /\ IsFiniteSet(S) /\ IsFiniteSet(C) /\ IsFiniteSet(B)
      /\ Cardinality(P) \in Nat /\ Cardinality(S) \in Nat
      /\ Cardinality(C) \in Nat /\ Cardinality(B) \in Nat
  BY <1>2, <1>3, FiniteEvents
<1>6. IsFiniteSet(P \cup S) /\ Cardinality(P \cup S) = Cardinality(P) + Cardinality(S)
  <2>1. Cardinality(P \cap S) = 0
    BY <1>2, FS_EmptySet
  <2>2. /\ IsFiniteSet(P \cup S)
        /\ Cardinality(P \cup S) = Cardinality(P) + Cardinality(S) - Cardinality(P \cap S)
    BY <1>5, FS_Union
  <2> QED BY <1>5, <2>1, <2>2
<1>7. Cardinality((P \cup S) \ B) = Cardinality(P) + Cardinality(S) - Cardinality(B)
  <2>1. (P \cup S) \cap B = B
    BY <1>3
  <2>2. Cardinality((P \cup S) \ B)
          = Cardinality(P \cup S) - Cardinality((P \cup S) \cap B)
    BY <1>6, FS_Difference
  <2>3. Cardinality((P \cup S) \cap B) = Cardinality(B)
    BY <2>1, Zenon
  <2> QED BY <1>5, <1>6, <2>2, <2>3
<1>8. Cardinality(S) <= Cardinality(C)
  BY <1>3, <1>5, FS_Subset
<1>9. Cardinality(B) = IF Cardinality(C) < InlineLimit THEN Cardinality(C) ELSE InlineLimit
  BY DEF IsBatch, C, q
<1>10. Depth(queue)' = Cardinality(P) + Cardinality(S) - Cardinality(B)
       /\ Depth(queue) = Cardinality(P) /\ Depth(queue)' \in Nat
  <2>1. (P \cup S) \ B \in SUBSET Events
    BY <1>2
  <2> QED BY <1>4, <1>7, <2>1, FiniteEvents DEF Depth, P
<1> QED BY <1>5, <1>8, <1>9, <1>10, SurplusType, DetectionAssumption

LEMMA BacklogInit == Init => BacklogInv
<1> SUFFICES ASSUME Init PROVE BacklogInv
  OBVIOUS
<1>1. Pending(queue) = {} /\ heard = {} /\ Active = {}
  BY DEF Init, Pending, AbsentRow, Active, IdleProducer, Producers
<1>2. Depth(queue) = 0 /\ Cardinality(heard) = 0 /\ Cardinality(Active) = 0
  BY <1>1, FS_EmptySet DEF Depth
<1>3. Cardinality(Clients) * Surplus \in Nat /\ 0 * Surplus = 0 /\ MaxBacklog \in Nat
  BY FiniteActive, SurplusType, Scaled, DetectionAssumption
<1> QED BY <1>1, <1>2, <1>3 DEF BacklogInv

LEMMA BacklogStep == TypeOK /\ BacklogInv /\ [Next]_vars => BacklogInv'
<1> SUFFICES ASSUME TypeOK, BacklogInv, [Next]_vars PROVE BacklogInv'
  OBVIOUS
<1>0. /\ TypeOK'
      /\ \A e \in Events : queue[e] \in Row
      /\ Present(queue) \subseteq Present(queue)'
  BY TypeStep, CoveredStays DEF TypeOK
<1>n. /\ Depth(queue) \in Nat
      /\ Cardinality(heard) \in Nat /\ IsFiniteSet(heard) /\ heard \in SUBSET Events
      /\ Cardinality(Clients) * Surplus \in Nat
      /\ Cardinality(Active) * Surplus \in Nat
      /\ MaxBacklog \in Nat
  <2>1. Pending(queue) \in SUBSET Events /\ heard \in SUBSET Events
    BY DEF Pending, TypeOK
  <2> QED BY <2>1, FiniteEvents, FiniteActive, SurplusType, Scaled, DetectionAssumption
             DEF Depth
\* Steps after which no row is newly pending, no request newly let in.
<1>1. ASSUME \A e \in Events : queue'[e].status = "pending" => queue[e].status = "pending",
             \A p \in Clients : producer'[p].pc # "idle" => producer[p].pc # "idle",
             heard' = heard
      PROVE  BacklogInv'
  <2>1. Pending(queue)' \subseteq Pending(queue) /\ Active' \subseteq Active
    BY <1>1 DEF Pending, Active
  <2> QED BY <1>0, <1>1, <2>1, NoNewBacklog
<1>2. ASSUME NEW p \in Producers, Admit(p) PROVE BacklogInv'
  <2>1. /\ queue' = queue /\ heard' = heard /\ producer[p].pc = "idle"
        /\ \A r \in Producers \ {p} : producer'[r] = producer[r]
        /\ producer'[p].pc = "admitted"
    BY <1>2 DEF Admit, TypeOK
  <2>2. CASE p \in Listeners
    <3>1. Active' = Active
      BY <2>1, <2>2 DEF Active, Producers
    <3> QED BY <2>1, <3>1 DEF BacklogInv, Depth, Pending, Present
  <2>3. CASE p \notin Listeners
    <3> SUFFICES ASSUME MaxBacklog > 0
                 PROVE  Depth(queue)' + Cardinality(Active)' * Surplus
                          <= MaxBacklog - 1 + Cardinality(Clients) * Surplus
                             + Cardinality(heard)'
      BY <2>1 DEF BacklogInv, Present
    <3>1. Depth(queue) < MaxBacklog
      BY <1>2, <2>3 DEF Admit
    <3>2. Depth(queue)' = Depth(queue) /\ Cardinality(heard)' = Cardinality(heard)
      BY <2>1 DEF Depth, Pending
    <3>3. Active' \in SUBSET Clients
      BY DEF Active
    <3>4. Cardinality(Active)' \in Nat /\ Cardinality(Active)' <= Cardinality(Clients)
      BY <3>3, DetectionAssumption, FS_Subset, FS_CardinalityType
    <3>5. /\ Cardinality(Active)' * Surplus <= Cardinality(Clients) * Surplus
          /\ Cardinality(Active)' * Surplus \in Nat
      BY <3>4, FiniteActive, SurplusType, Scaled
    <3> QED BY <1>n, <3>1, <3>2, <3>5
  <2> QED BY <2>2, <2>3
<1>3. ASSUME NEW p \in Producers, NEW S \in SUBSET Events, IngestLines(p, S)
      PROVE  BacklogInv'
  <2>1. /\ S \cap Present(queue) = {}
        /\ Cardinality(S) <= MaxLines
        /\ producer[p].pc = "admitted"
        /\ producer' = [producer EXCEPT ![p] = IdleProducer]
        /\ heard' = IF p \in Listeners THEN heard \cup S ELSE heard
    BY <1>3 DEF IngestLines
  <2>2. PICK B \in SUBSET Events :
          /\ IsBatch(InsertRows(queue, S, clock), clock, InlineLimit, B)
          /\ Detect(ClaimRows(InsertRows(queue, S, clock), B, Engine, clock), B)
    BY <1>3 DEF IngestLines
  <2>3. /\ Depth(queue)' <= Depth(queue) + Surplus
        /\ Depth(queue)' <= Depth(queue) + Cardinality(S)
        /\ Depth(queue)' \in Nat
    BY <2>1, <2>2, IngestDepth
  <2>4. \A e \in S : queue'[e].status # "absent"
    <3>1. InsertRows(queue, S, clock) \in [Events -> Row]
      BY RowOps, DetectionAssumption DEF TypeOK
    <3>2. \A e \in S : InsertRows(queue, S, clock)[e].status = "pending"
      BY DEF InsertRows
    <3> QED BY <2>2, <3>1, <3>2 DEF Detect, CompleteRows, ClaimRows, Row
  <2>5. heard' \subseteq Present(queue)'
    BY <1>0, <2>1, <2>4 DEF BacklogInv, Present
  <2>6. CASE p \in Listeners
    <3>1. Active' = Active
      BY <2>1, <2>6 DEF Active, Producers, TypeOK
    <3>2. Cardinality(heard)' = Cardinality(heard) + Cardinality(S) /\ Cardinality(S) \in Nat
      <4>1. heard \cap S = {}
        BY <2>1 DEF BacklogInv
      <4>2. IsFiniteSet(S) /\ Cardinality(S) \in Nat /\ Cardinality(heard \cap S) = 0
        BY <4>1, FiniteEvents, FS_EmptySet
      <4>3. heard' = heard \cup S
        BY <2>1, <2>6
      <4> QED BY <1>n, <4>2, <4>3, FS_Union
    <3> QED BY <1>n, <2>3, <2>5, <3>1, <3>2 DEF BacklogInv
  <2>7. CASE p \notin Listeners
    <3>1. p \in Active /\ Active' = Active \ {p}
      BY <2>1, <2>7 DEF Active, Producers, TypeOK, IdleProducer
    <3>2. Cardinality(Active)' = Cardinality(Active) - 1 /\ Cardinality(Active)' \in Nat
      BY <3>1, FiniteActive, FS_RemoveElement, FS_Subset, FS_CardinalityType
    <3>3. /\ Cardinality(Active) * Surplus = Cardinality(Active)' * Surplus + Surplus
          /\ Cardinality(Active)' * Surplus \in Nat
      <4>1. Cardinality(Active) = Cardinality(Active)' + 1
        BY <3>2, FiniteActive
      <4> QED BY <3>2, <4>1, SurplusType, Scaled
    <3>4. heard' = heard
      BY <2>1, <2>7
    <3> QED BY <1>n, <2>3, <2>5, <3>3, <3>4, SurplusType DEF BacklogInv
  <2> QED BY <2>6, <2>7
<1>4. \/ \E p \in Producers : Admit(p) \/ \E S \in SUBSET Events : IngestLines(p, S)
      \/ /\ \A e \in Events : queue'[e].status = "pending" => queue[e].status = "pending"
         /\ \A p \in Clients : producer'[p].pc # "idle" => producer[p].pc # "idle"
         /\ heard' = heard
  <2>1. ASSUME NEW d \in Drains, StartDrain(d)
        PROVE  \A e \in Events : queue'[e].status = queue[e].status
    BY <1>0, <2>1 DEF StartDrain, RequeueStale, Row
  <2>2. ASSUME NEW t \in Threads, ThreadClaim(t)
        PROVE  \A e \in Events : queue'[e].status = queue[e].status
    <3>1. PICK B \in (SUBSET Events) \ {{}} : queue' = ClaimRows(queue, B, t, clock)
      BY <2>2 DEF ThreadClaim
    <3> QED BY <1>0, <3>1 DEF ClaimRows, Row
  <2>3. ASSUME NEW t \in Threads, ThreadCommit(t)
        PROVE  \A e \in Events : queue'[e].status = "pending" => queue[e].status = "pending"
    BY <1>0, <2>3 DEF ThreadCommit, Detect, CompleteRows, Row
  <2>4. ASSUME NEW p \in Producers, SelectUnlocked(p)
        PROVE  \A r \in Clients : producer'[r].pc # "idle" => producer[r].pc # "idle"
    BY <2>4 DEF SelectUnlocked, TypeOK, Producers
  <2>5. ASSUME NEW p \in Producers, CommitUnlocked(p)
        PROVE  /\ \A e \in Events : queue'[e].status = "pending" => queue[e].status = "pending"
               /\ \A r \in Clients : producer'[r].pc # "idle" => producer[r].pc # "idle"
    <3>1. \A r \in Clients : producer'[r].pc # "idle" => producer[r].pc # "idle"
      BY <2>5 DEF CommitUnlocked, IdleProducer, TypeOK, Producers
    <3>2. \A e \in Events : queue'[e].status = "pending" => queue[e].status = "pending"
      BY <1>0, <2>5 DEF CommitUnlocked, Detect, CompleteRows, ClaimRows, Row
    <3> QED BY <3>1, <3>2
  <2> QED BY <2>1, <2>2, <2>3, <2>4, <2>5
          DEF Next, PoolStep, IngestStep, StartDrain, EndDrain, ThreadClaim, ThreadExit,
              ThreadCommit, ThreadFail, SelectUnlocked, CommitUnlocked, Tick, vars
<1> QED BY <1>1, <1>2, <1>3, <1>4

\* The depth is read before the lines are inserted, so requests let in together pass
\* the limit; by Surplus each at most, and by what listeners add without asking
\* (_ingest_core), however many clients there are.
THEOREM BacklogIsBounded == Spec => []BacklogBounded
<1>1. Spec => [](TypeOK /\ BacklogInv)
  BY TypeInit, TypeStep, BacklogInit, BacklogStep, PTL DEF Spec
<1>2. TypeOK /\ BacklogInv => BacklogBounded
  <2> SUFFICES ASSUME TypeOK, BacklogInv, MaxBacklog > 0
               PROVE  Depth(queue) <= MaxBacklog - 1 + Cardinality(Clients) * Surplus
                                      + Cardinality(heard)
    BY DEF BacklogBounded
  <2>1. Pending(queue) \in SUBSET Events /\ heard \in SUBSET Events
    BY DEF Pending, TypeOK
  <2>2. /\ Depth(queue) \in Nat /\ Cardinality(heard) \in Nat /\ MaxBacklog \in Nat
        /\ Cardinality(Active) * Surplus \in Nat /\ Cardinality(Clients) * Surplus \in Nat
    BY <2>1, FiniteEvents, FiniteActive, SurplusType, Scaled, DetectionAssumption DEF Depth
  <2> QED BY <2>2 DEF BacklogInv
<1> QED BY <1>1, <1>2, PTL
=============================================================================
