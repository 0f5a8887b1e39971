----------------------------- MODULE Detection ------------------------------
(***************************************************************************)
(* Detection over the event queue: the worker pool that drains a backlog   *)
(* (dashboard_api/detection_pool.py), the inline detection every ingest    *)
(* runs (ingest.py, engine.py) and the backpressure check in front of the  *)
(* ingest endpoint (routers/siem.py), sharing one `events` table.          *)
(*                                                                         *)
(* Every action is one committed database transaction or one read that     *)
(* another transaction can follow.  SQLite has a single writer: from the   *)
(* first INSERT or UPDATE of a transaction to its commit nobody else       *)
(* writes, so such a transaction is one action.  A SELECT that runs before *)
(* the transaction's first write takes no lock, so there the read and the  *)
(* transaction are two actions and anything may happen in between.         *)
(***************************************************************************)
EXTENDS EventQueue

CONSTANTS Engine,       \* "engine-0", the identity of every inline claim
          Drains,       \* concurrent calls of run_pool
          NThreads,     \* worker threads of one call (DETECTION_WORKERS)
          Clients,      \* request threads of the ingest endpoint
          Listeners,    \* syslog and file collectors: they call ingest_lines
          Burst,        \* the events one aggregated rule groups together
          Threshold,    \* and the number of them at which it alerts
          Window,       \* within this long before the evaluation
          PoolBatch,    \* run_pool's batch
          InlineLimit,  \* run_detection's limit
          MaxLines,     \* lines of one ingest request
          MaxBacklog,   \* INGEST_MAX_BACKLOG
          MaxTime,      \* bound on the clock
          MaxFails      \* bound on the worker threads that die

Threads   == Drains \X (1 .. NThreads)
Producers == Clients \cup Listeners

ASSUME DetectionAssumption ==
  /\ Threads \subseteq Workers
  /\ Engine \in Workers
  /\ Burst \subseteq Events
  /\ IsFiniteSet(Clients)
  /\ NThreads > 0 /\ PoolBatch > 0     \* run_pool: max(1, ...), batch=100
  /\ {NThreads, Window, Threshold, PoolBatch, InlineLimit, MaxLines, MaxBacklog,
      MaxTime, MaxFails} \subseteq Nat

VARIABLES
  queue,     \* the events table
  clock,     \* _now(), in whole units
  drain,     \* whether each call of run_pool is "idle" or "running"
  thread,    \* each worker thread: its pc and the batch it holds in memory
  producer,  \* each ingest thread: its pc and the batch it has read
  fired,     \* committed detection passes over each event
  burst,     \* alerts the aggregated rule has raised
  fails,     \* worker threads that have died
  \* What the properties below remember of the past:
  outlived,  \* events whose claim was dropped or taken over after its lease
  unlocked,  \* events read for an inline claim outside any write lock
  heard,     \* events ingested by a listener, which checks no backlog
  todo       \* events each running drain found claimable when it started

vars == <<queue, clock, drain, thread, producer, fired, burst, fails,
          outlived, unlocked, heard, todo>>

TypeOK ==
  /\ queue \in [Events -> Row]
  /\ clock \in Nat
  /\ drain \in [Drains -> {"idle", "running"}]
  /\ thread \in [Threads -> [pc : {"off", "looping", "detecting", "done", "failed"},
                             batch : SUBSET Events]]
  /\ producer \in [Producers -> [pc : {"idle", "admitted", "selected"},
                                 batch : SUBSET Events]]
  /\ fired \in [Events -> Nat]
  /\ burst \in Nat
  /\ fails \in Nat
  /\ outlived \in SUBSET Events
  /\ unlocked \in SUBSET Events
  /\ heard \in SUBSET Events
  /\ todo \in [Drains -> SUBSET Events]

OffThread    == [pc |-> "off", batch |-> {}]
IdleProducer == [pc |-> "idle", batch |-> {}]

Init ==
  /\ queue = [e \in Events |-> AbsentRow]
  /\ clock = 1
  /\ drain = [d \in Drains |-> "idle"]
  /\ thread = [t \in Threads |-> OffThread]
  /\ producer = [p \in Producers |-> IdleProducer]
  /\ fired = [e \in Events |-> 0]
  /\ burst = 0
  /\ fails = 0
  /\ outlived = {}
  /\ unlocked = {}
  /\ heard = {}
  /\ todo = [d \in Drains |-> {}]

(***************************************************************************)
(* run_detection over a batch: every event alerts its own rules, and the   *)
(* aggregated rule alerts when the batch holds Threshold of its events     *)
(* that are no older than the window.  The alerts and `complete` are one   *)
(* transaction.                                                            *)
(***************************************************************************)
InWindow(q, B) == {e \in B \cap Burst : clock - q[e].ts <= Window}

Detect(q, B) ==
  /\ queue' = CompleteRows(q, B)
  /\ fired' = [e \in Events |-> IF e \in B THEN fired[e] + 1 ELSE fired[e]]
  /\ burst' = IF Cardinality(InWindow(q, B)) >= Threshold THEN burst + 1 ELSE burst

Expired(q) == {e \in Pending(q) : LeaseExpired(q, e, clock)}

-----------------------------------------------------------------------------
(* The worker pool *)

ThreadsOf(d) == {t \in Threads : t[1] = d}

\* run_pool: put abandoned claims back, commit, start the threads.
StartDrain(d) ==
  /\ drain[d] = "idle"
  /\ queue' = RequeueStale(queue, clock)
  /\ outlived' = outlived \cup Expired(queue)
  /\ todo' = [todo EXCEPT ![d] = Claimable(queue, clock)]
  /\ drain' = [drain EXCEPT ![d] = "running"]
  /\ thread' = [t \in Threads |->
                  IF t \in ThreadsOf(d) THEN [pc |-> "looping", batch |-> {}] ELSE thread[t]]
  /\ UNCHANGED <<clock, producer, fired, burst, fails, unlocked, heard>>

\* claim_locked under BEGIN IMMEDIATE, when it returns rows.
ThreadClaim(t) ==
  /\ thread[t].pc = "looping"
  /\ \E B \in (SUBSET Events) \ {{}} :
       /\ IsBatch(queue, clock, PoolBatch, B)
       /\ queue' = ClaimRows(queue, B, t, clock)
       /\ outlived' = outlived \cup (B \cap Expired(queue))
       /\ thread' = [thread EXCEPT ![t] = [pc |-> "detecting", batch |-> B]]
  /\ UNCHANGED <<clock, drain, producer, fired, burst, fails, unlocked, heard, todo>>

\* (slip) A thread ends when less than a full batch is left.
ThreadExitEarly(t) ==
  /\ thread[t].pc = "looping"
  /\ Cardinality(Claimable(queue, clock)) < PoolBatch
  /\ thread' = [thread EXCEPT ![t] = [pc |-> "done", batch |-> {}]]
  /\ UNCHANGED <<queue, clock, drain, producer, fired, burst, fails, outlived,
                 unlocked, heard, todo>>

\* claim_locked when nothing is left: the thread ends.
ThreadExit(t) ==
  /\ thread[t].pc = "looping"
  /\ IsBatch(queue, clock, PoolBatch, {})
  /\ thread' = [thread EXCEPT ![t] = [pc |-> "done", batch |-> {}]]
  /\ UNCHANGED <<queue, clock, drain, producer, fired, burst, fails, outlived,
                 unlocked, heard, todo>>

\* run_detection(claimed=batch) and commit, however long after the claim.
ThreadCommit(t) ==
  /\ thread[t].pc = "detecting"
  /\ Detect(queue, thread[t].batch)
  /\ thread' = [thread EXCEPT ![t] = [pc |-> "looping", batch |-> {}]]
  /\ UNCHANGED <<clock, drain, producer, fails, outlived, unlocked, heard, todo>>

\* (slip) `complete` in a finally clause: a failed batch is marked done.
ThreadFailCompletes(t) ==
  /\ thread[t].pc = "detecting"
  /\ fails < MaxFails
  /\ fails' = fails + 1
  /\ queue' = CompleteRows(queue, thread[t].batch)
  /\ thread' = [thread EXCEPT ![t] = [pc |-> "failed", batch |-> {}]]
  /\ UNCHANGED <<clock, drain, producer, fired, burst, outlived, unlocked, heard, todo>>

\* An exception or the death of the process ends the thread: its uncommitted
\* alerts are gone and the batch it held, if any, stays claimed.  The last guard
\* leaves the bounded clock room for the claim to expire.
ThreadFail(t) ==
  /\ thread[t].pc \in {"looping", "detecting"}
  /\ fails < MaxFails
  /\ clock + Lease < MaxTime
  /\ fails' = fails + 1
  /\ thread' = [thread EXCEPT ![t] = [pc |-> "failed", batch |-> {}]]
  /\ UNCHANGED <<queue, clock, drain, producer, fired, burst, outlived, unlocked,
                 heard, todo>>

\* run_pool joins its threads and returns.
EndDrain(d) ==
  /\ drain[d] = "running"
  /\ \A t \in ThreadsOf(d) : thread[t].pc \in {"done", "failed"}
  /\ drain' = [drain EXCEPT ![d] = "idle"]
  /\ thread' = [t \in Threads |-> IF t \in ThreadsOf(d) THEN OffThread ELSE thread[t]]
  /\ UNCHANGED <<queue, clock, producer, fired, burst, fails, outlived, unlocked,
                 heard, todo>>

-----------------------------------------------------------------------------
(* Ingest with inline detection *)

\* _ingest_core reads the depth on a connection of its own and lets the request
\* go on; at MaxBacklog it answers 429 and nothing changes.  A listener calls
\* ingest_lines without asking.
Admit(p) ==
  /\ producer[p].pc = "idle"
  /\ p \in Listeners \/ MaxBacklog = 0 \/ Depth(queue) < MaxBacklog
  /\ producer' = [producer EXCEPT ![p].pc = "admitted"]
  /\ UNCHANGED <<queue, clock, drain, thread, fired, burst, fails, outlived,
                 unlocked, heard, todo>>

\* (slip) The request leaves its lines to somebody else's detection pass.
IngestLinesUndetected(p, S) ==
  /\ producer[p].pc = "admitted"
  /\ S # {}
  /\ S \cap Present(queue) = {}
  /\ Cardinality(S) <= MaxLines
  /\ queue' = InsertRows(queue, S, clock)
  /\ heard' = IF p \in Listeners THEN heard \cup S ELSE heard
  /\ producer' = [producer EXCEPT ![p] = IdleProducer]
  /\ UNCHANGED <<clock, drain, thread, fired, burst, fails, outlived, unlocked, todo>>

\* ingest_lines with at least one parsed line.  The INSERT comes first and takes
\* the write lock, so the claim, the detection pass and the commit follow with
\* nobody in between.
IngestLines(p, S) ==
  LET q == InsertRows(queue, S, clock)
  IN  /\ producer[p].pc = "admitted"
      /\ S # {}
      /\ S \cap Present(queue) = {}
      /\ Cardinality(S) <= MaxLines
      /\ \E B \in SUBSET Events :
           /\ IsBatch(q, clock, InlineLimit, B)
           /\ Detect(ClaimRows(q, B, Engine, clock), B)
           /\ outlived' = outlived \cup (B \cap Expired(q))
      /\ heard' = IF p \in Listeners THEN heard \cup S ELSE heard
      /\ producer' = [producer EXCEPT ![p] = IdleProducer]
      /\ UNCHANGED <<clock, drain, thread, fails, unlocked, todo>>

\* ingest_lines when no line survives parsing (blank lines, # comments): nothing
\* was inserted, so the SELECT of `claim` runs outside any transaction.
SelectUnlocked(p) ==
  /\ producer[p].pc = "admitted"
  /\ \E B \in SUBSET Events :
       /\ IsBatch(queue, clock, InlineLimit, B)
       /\ producer' = [producer EXCEPT ![p] = [pc |-> "selected", batch |-> B]]
       /\ unlocked' = unlocked \cup B
       /\ outlived' = outlived \cup (B \cap Expired(queue))
  /\ UNCHANGED <<queue, clock, drain, thread, fired, burst, fails, heard, todo>>

\* Its UPDATE takes the write lock, names the rows by id, and the transaction runs
\* through to its commit.
CommitUnlocked(p) ==
  LET B == producer[p].batch
  IN  /\ producer[p].pc = "selected"
      /\ Detect(ClaimRows(queue, B, Engine, clock), B)
      /\ producer' = [producer EXCEPT ![p] = IdleProducer]
      /\ UNCHANGED <<clock, drain, thread, fails, outlived, unlocked, heard, todo>>

Tick ==
  /\ clock < MaxTime
  /\ clock' = clock + 1
  /\ UNCHANGED <<queue, drain, thread, producer, fired, burst, fails, outlived,
                 unlocked, heard, todo>>

-----------------------------------------------------------------------------
PoolStep   == \/ \E d \in Drains : StartDrain(d) \/ EndDrain(d)
              \/ \E t \in Threads : \/ ThreadClaim(t) \/ ThreadExit(t)
                                    \/ ThreadCommit(t) \/ ThreadFail(t)

IngestStep == \E p \in Producers : \/ Admit(p)
                                   \/ \E S \in SUBSET Events : IngestLines(p, S)
                                   \/ SelectUnlocked(p)
                                   \/ CommitUnlocked(p)

Next == PoolStep \/ IngestStep \/ Tick

Spec == Init /\ [][Next]_vars

\* A live thread of the pool is scheduled, time passes, and somebody calls
\* POST /siem/detection/drain again and again.  Nothing is assumed of producers.
DrainFairness ==
  /\ \A d \in Drains : WF_vars(StartDrain(d)) /\ WF_vars(EndDrain(d))
  /\ \A t \in Threads : /\ WF_vars(ThreadClaim(t) \/ ThreadExit(t))
                         /\ WF_vars(ThreadCommit(t))
  /\ WF_vars(Tick)

FairSpec == Spec /\ DrainFairness

\* A client that is refused or answered asks again, and an admitted request runs
\* to its end.
ProducerFairness ==
  \A p \in Producers : /\ WF_vars(Admit(p))
                        /\ WF_vars(\E S \in SUBSET Events : IngestLines(p, S))
                        /\ WF_vars(CommitUnlocked(p))

RetrySpec == Spec /\ ProducerFairness /\ WF_vars(Tick)

-----------------------------------------------------------------------------
(* Properties *)

\* Every event marked processed went through a detection pass whose alerts were
\* committed with the mark, and no pass commits its alerts without the mark:
\* `complete` shares run_detection's transaction (engine.py, lines 472-500).
DetectedIffProcessed ==
  \A e \in Events : queue[e].status = "processed" <=> fired[e] > 0

\* An event is detected twice, and so alerts twice, only if some claim on it
\* outlived its lease or an inline claim read it outside the write lock:
\* "without two workers ever grabbing the same event" (event_queue.py, line 5),
\* with the two ways around it that the code leaves open.
RepeatHasCause ==
  \A e \in Events : fired[e] > 1 => e \in outlived \cup unlocked

\* Two pool threads hold one event at a time only after its lease ran out under
\* the first of them (claim_locked, detection_pool.py, lines 39-71).
BatchesDisjoint ==
  \A t, u \in Threads : t # u => thread[t].batch \cap thread[u].batch \subseteq outlived

\* When every thread of a drain has ended and none of them died, each event the
\* drain could have claimed at its start is processed, unless another drain holds
\* it or its lease ran out ("nothing left pending", tests/test_detection_pool.py,
\* line 47).  The last also excepts events whose lease ran out before: those the drain
\* requeued at its start.
DrainComplete ==
  \A d \in Drains :
    (drain[d] = "running" /\ \A t \in ThreadsOf(d) : thread[t].pc = "done")
    => \A e \in todo[d] : \/ queue[e].status = "processed"
                           \/ queue[e].by # NoWorker
                           \/ e \in outlived

\* The depth is read before the lines are inserted, so requests admitted together
\* overshoot MaxBacklog.  By no more than this: each adds at most the lines its own
\* inline detection does not consume, and a listener's lines come on top
\* (_ingest_core, routers/siem.py, lines 1011-1025).
Surplus == IF MaxLines > InlineLimit THEN MaxLines - InlineLimit ELSE 0

BacklogBounded ==
  MaxBacklog > 0 =>
    Depth(queue) <= MaxBacklog - 1 + Cardinality(Clients) * Surplus + Cardinality(heard)

\* Every event ingested is detected in the end, whichever threads die with a claim
\* on it, as long as drains keep being called (detection_pool.py, lines 14-16).
BacklogDrains ==
  \A e \in Events : queue[e].status = "pending" ~> queue[e].status = "processed"

\* What the rest of the system may rely on: an at-least-once work queue.
ItemState(row) == IF row.status = "pending" THEN "todo"
                  ELSE IF row.status = "processed" THEN "done" ELSE "absent"

Queue == INSTANCE WorkQueue WITH
  Items  <- Events,
  state  <- [e \in Events |-> ItemState(queue[e])],
  served <- fired

AtLeastOnce == Queue!Spec

\* "a group whose matching event count reaches the threshold inside the window
\* raises one alert" (rule_engine.py, lines 13-14): once Threshold events of the
\* group, all within one window, have been through detection, it has alerted.
BurstAlerts ==
  \A B \in SUBSET (Burst \cap Processed(queue)) :
    (/\ Cardinality(B) >= Threshold
     /\ \A e, f \in B : queue[e].ts - queue[f].ts <= Window)
    => burst > 0

\* A client told 429 "Retry shortly" (routers/siem.py, lines 1018-1022) that does
\* retry is let in again.
SheddingEnds ==
  Depth(queue) >= MaxBacklog ~> Depth(queue) < MaxBacklog
=============================================================================
