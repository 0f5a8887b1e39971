----------------------------- MODULE EventQueue -----------------------------
(***************************************************************************)
(* The durable work queue kept in the `events` table, as the functions of  *)
(* dashboard_api/event_queue.py use it.  A table is a function from event  *)
(* ids to rows; each operator below takes the table as its first argument  *)
(* and is the effect of one SQL statement on it.                           *)
(*                                                                         *)
(* A row keeps the columns the queue reads or writes: `processed` (here    *)
(* the status of a row that exists), `claimed_by`, `claimed_at` and `ts`.  *)
(* An event not ingested yet has status "absent".  A claimed_at of 0 stands*)
(* for NULL: the clock of the modules that use this one starts at 1.       *)
(*                                                                         *)
(* A definition whose comment begins with (slip) is not part of the model: *)
(* it is a mistake the code could have made in the definition that follows *)
(* it, kept to show that the properties tell the two apart.                *)
(***************************************************************************)
EXTENDS Naturals, FiniteSets

CONSTANTS Events,      \* the events that may ever be ingested
          Workers,     \* the identities a claim is made under
          NoWorker,    \* claimed_by IS NULL
          Lease        \* DEFAULT_LEASE, in clock units

ASSUME QueueAssumption ==
  /\ IsFiniteSet(Events)
  /\ NoWorker \notin Workers
  /\ Lease \in Nat

Row == [status : {"absent", "pending", "processed"},
        by     : Workers \cup {NoWorker},
        at     : Nat,
        ts     : Nat]

AbsentRow == [status |-> "absent", by |-> NoWorker, at |-> 0, ts |-> 0]

Present(q)   == {e \in Events : q[e].status # "absent"}
Pending(q)   == {e \in Events : q[e].status = "pending"}
Processed(q) == {e \in Events : q[e].status = "processed"}

\* `depth`: the detection backlog.
Depth(q) == Cardinality(Pending(q))

\* (slip) A claim is never given up.
LeaseNeverExpires(q, e, now) == FALSE

\* A claim older than the lease window: claimed_at < now - lease.
LeaseExpired(q, e, now) == q[e].by # NoWorker /\ q[e].at + Lease < now

\* (slip) `claim` looks at `processed` only.
ClaimableIgnoringClaims(q, now) == Pending(q)

\* The WHERE clause of `claim`.
Claimable(q, now) ==
  {e \in Pending(q) : q[e].by = NoWorker \/ LeaseExpired(q, e, now)}

\* ORDER BY ts DESC LIMIT limit: B is one of the answers the SELECT of `claim`
\* may return (rows of one second come back in any order).
IsBatch(q, now, limit, B) ==
  LET C == Claimable(q, now)
  IN  /\ B \subseteq C
      /\ Cardinality(B) = IF Cardinality(C) < limit THEN Cardinality(C) ELSE limit
      /\ \A e \in B, f \in C \ B : q[e].ts >= q[f].ts

\* The UPDATE of `claim`: it names the rows by id and tests nothing again.
ClaimRows(q, B, w, now) ==
  [e \in Events |-> IF e \in B THEN [q[e] EXCEPT !.by = w, !.at = now] ELSE q[e]]

\* (slip) `complete` drops the claim and forgets processed=1.
ReleaseRows(q, B) ==
  [e \in Events |-> IF e \in B THEN [q[e] EXCEPT !.by = NoWorker] ELSE q[e]]

\* `complete`: by id too, whoever holds the claim by now.
CompleteRows(q, B) ==
  [e \in Events |-> IF e \in B
                    THEN [q[e] EXCEPT !.status = "processed", !.by = NoWorker]
                    ELSE q[e]]

\* `requeue_stale`: drop the claims of dead workers.
RequeueStale(q, now) ==
  [e \in Events |-> IF e \in Pending(q) /\ LeaseExpired(q, e, now)
                    THEN [q[e] EXCEPT !.by = NoWorker]
                    ELSE q[e]]

\* (slip) An INSERT that writes a status the queue does not know.
InsertNewRows(q, S, now) ==
  [e \in Events |-> IF e \in S
                    THEN [status |-> "new", by |-> NoWorker, at |-> 0, ts |-> now]
                    ELSE q[e]]

\* The INSERT of `ingest_lines`: a new row is pending and unclaimed.
InsertRows(q, S, now) ==
  [e \in Events |-> IF e \in S
                    THEN [status |-> "pending", by |-> NoWorker, at |-> 0, ts |-> now]
                    ELSE q[e]]
=============================================================================
