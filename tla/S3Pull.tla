-------------------------------- MODULE S3Pull --------------------------------
(***************************************************************************)
(* The agentless S3 pull (dashboard_api/s3_pull.py): the scheduler thread  *)
(* of the leader lists the objects of a bucket after a persisted key,      *)
(* ingests them in the order of their keys, and stores the last key at the *)
(* end of the pass.                                                        *)
(*                                                                         *)
(* Keys are numbers.  An object may be put at any time and at any free key *)
(* (a producer that names objects by host, or a slow upload, puts small    *)
(* keys late), and some objects can never be fetched.  A replica enters a  *)
(* pass because it led when its scheduler tick began; by then it may lead  *)
(* no longer (the connectors of the tick ran in between), so two passes    *)
(* may overlap.  ingest_lines is one transaction: it ingests all or        *)
(* nothing.                                                                *)
(*                                                                         *)
(* A definition whose comment begins with (slip) is a mistake the code     *)
(* could have made in the definition that follows it.                      *)
(***************************************************************************)
EXTENDS Integers, FiniteSets

CONSTANTS Pullers,        \* replicas
          MaxKey,         \* bound on the keys of the bucket
          MaxObjects,     \* max_objects: how many objects a pass takes
          MaxPullFaults,  \* bound on failed fetches, failed saves and crashes
          MaxTakeovers    \* bound on changes of the leader

Keys == 1 .. MaxKey

ASSUME S3Assumption ==
  /\ Pullers # {}
  /\ MaxKey \in Nat
  /\ MaxObjects \in Nat \ {0}
  /\ MaxPullFaults \in Nat
  /\ MaxTakeovers \in Nat

VARIABLES
  bucket,      \* the objects that exist
  poison,      \* those whose fetch or ingest always fails
  s3cursor,    \* settings 's3_pull_cursor:...', 0 when there is no row
  puller,      \* poll() of each replica: where it is, and its local variables
  leads,       \* the replica that holds the lease "background"
  pulled,      \* how often each object has been ingested
  late,        \* objects put below a key some pass had already gone beyond
  pullFaults,
  aborted,     \* passes cut short before they could store the cursor
  takeovers

s3Vars == <<bucket, poison, s3cursor, puller, leads, pulled, late, pullFaults, aborted, takeovers>>

Resting == [pc |-> "resting", start |-> 0, todo |-> {}, last |-> 0]

S3TypeOK ==
  /\ bucket \in SUBSET Keys
  /\ poison \in SUBSET Keys
  /\ s3cursor \in 0 .. MaxKey
  /\ puller \in [Pullers -> [pc    : {"resting", "ticking", "listing", "pulling", "saving"},
                             start : 0 .. MaxKey,
                             todo  : SUBSET Keys,
                             last  : 0 .. MaxKey]]
  /\ leads \in Pullers
  /\ pulled \in [Keys -> Nat]
  /\ late \in SUBSET Keys
  /\ pullFaults \in Nat
  /\ aborted \in Nat
  /\ takeovers \in Nat

S3Init ==
  /\ bucket = {}
  /\ poison = {}
  /\ s3cursor = 0
  /\ puller = [r \in Pullers |-> Resting]
  /\ leads \in Pullers
  /\ pulled = [k \in Keys |-> 0]
  /\ late = {}
  /\ pullFaults = 0
  /\ aborted = 0
  /\ takeovers = 0

PullFault == pullFaults < MaxPullFaults /\ pullFaults' = pullFaults + 1

-----------------------------------------------------------------------------
(* The bucket and the lease *)

\* A pass has gone beyond k: the cursor, or the listing some replica works on.
Beyond(k) == \/ k < s3cursor
             \/ \E r \in Pullers : \E j \in puller[r].todo \cup {puller[r].last} : k < j

Put(k, bad) ==
  /\ k \notin bucket
  /\ bucket' = bucket \cup {k}
  /\ poison' = IF bad THEN poison \cup {k} ELSE poison
  /\ late' = IF Beyond(k) THEN late \cup {k} ELSE late
  /\ UNCHANGED <<s3cursor, puller, leads, pulled, pullFaults, aborted, takeovers>>

Takeover(r) ==
  /\ r # leads
  /\ takeovers < MaxTakeovers
  /\ takeovers' = takeovers + 1
  /\ leads' = r
  /\ UNCHANGED <<bucket, poison, s3cursor, puller, pulled, late, pullFaults, aborted>>

-----------------------------------------------------------------------------
(* poll *)

\* The scheduler tick that will poll: is_leader is read once, at its beginning.
BeginTick(r) ==
  /\ puller[r].pc = "resting"
  /\ leads = r
  /\ puller' = [puller EXCEPT ![r] = [Resting EXCEPT !.pc = "ticking"]]
  /\ UNCHANGED <<bucket, poison, s3cursor, leads, pulled, late, pullFaults, aborted, takeovers>>

\* SELECT the cursor from settings.
ReadPullCursor(r) ==
  /\ puller[r].pc = "ticking"
  /\ puller' = [puller EXCEPT ![r] = [pc |-> "listing", start |-> s3cursor,
                                      todo |-> {}, last |-> s3cursor]]
  /\ UNCHANGED <<bucket, poison, s3cursor, leads, pulled, late, pullFaults, aborted, takeovers>>

\* (slip) The listing does not start after the cursor.
FromTheTop(after) ==
  {k \in bucket : Cardinality({j \in bucket : j <= k}) <= MaxObjects}

\* (slip) The first page of the bucket is listed and filtered afterwards.
FirstPage(after) == {k \in FromTheTop(after) : k > after}

\* list_objects after a key, the smallest keys first, cut at max_objects.
NextObjects(after) ==
  {k \in bucket : k > after /\ Cardinality({j \in bucket : after < j /\ j <= k}) <= MaxObjects}

ListObjects(r) ==
  /\ puller[r].pc = "listing"
  /\ puller' = [puller EXCEPT ![r].pc = "pulling", ![r].todo = NextObjects(puller[r].start)]
  /\ UNCHANGED <<bucket, poison, s3cursor, leads, pulled, late, pullFaults, aborted, takeovers>>

\* What ends the loop over the keys: the cursor is stored if it has moved.
Stop(r) == [puller[r] EXCEPT !.todo = {},
                             !.pc = IF puller[r].last # puller[r].start THEN "saving" ELSE "resting"]

\* The smallest key left.
IsFirst(r, k) == k \in puller[r].todo /\ \A j \in puller[r].todo : k <= j

\* get_object and ingest_lines.
PullObject(r, k) ==
  /\ puller[r].pc = "pulling"
  /\ IsFirst(r, k)
  /\ k \notin poison
  /\ pulled' = [pulled EXCEPT ![k] = @ + 1]
  /\ puller' = [puller EXCEPT ![r].todo = @ \ {k}, ![r].last = k]
  /\ UNCHANGED <<bucket, poison, s3cursor, leads, late, pullFaults, aborted, takeovers>>

\* (slip) An object that fails is stepped over.
StepOver(r, k) ==
  /\ puller[r].pc = "pulling"
  /\ IsFirst(r, k)
  /\ \/ k \in poison /\ UNCHANGED pullFaults
     \/ PullFault
  /\ puller' = [puller EXCEPT ![r].todo = @ \ {k}, ![r].last = k]
  /\ UNCHANGED <<bucket, poison, s3cursor, leads, pulled, late, aborted, takeovers>>

\* The object cannot be fetched or ingested: the pass stops before it.
ObjectFails(r, k) ==
  /\ puller[r].pc = "pulling"
  /\ IsFirst(r, k)
  /\ \/ k \in poison /\ UNCHANGED pullFaults
     \/ PullFault
  /\ puller' = [puller EXCEPT ![r] = Stop(r)]
  /\ UNCHANGED <<bucket, poison, s3cursor, leads, pulled, late, aborted, takeovers>>

EndOfList(r) ==
  /\ puller[r].pc = "pulling"
  /\ puller[r].todo = {}
  /\ puller' = [puller EXCEPT ![r] = Stop(r)]
  /\ UNCHANGED <<bucket, poison, s3cursor, leads, pulled, late, pullFaults, aborted, takeovers>>

\* INSERT OR REPLACE of the cursor, whatever it is by now.
SavePullCursor(r) ==
  /\ puller[r].pc = "saving"
  /\ s3cursor' = puller[r].last
  /\ puller' = [puller EXCEPT ![r] = Resting]
  /\ UNCHANGED <<bucket, poison, leads, pulled, late, pullFaults, aborted, takeovers>>

\* The process dies, or an exception leaves poll (the listing or the save failed).
PollAborted(r) ==
  /\ puller[r].pc # "resting"
  /\ PullFault
  /\ aborted' = aborted + 1
  /\ puller' = [puller EXCEPT ![r] = Resting]
  /\ UNCHANGED <<bucket, poison, s3cursor, leads, pulled, late, takeovers>>

Poll(r) == \/ BeginTick(r) \/ ReadPullCursor(r) \/ ListObjects(r)
           \/ \E k \in Keys : PullObject(r, k) \/ ObjectFails(r, k)
           \/ EndOfList(r) \/ SavePullCursor(r)

S3Next ==
  \/ \E k \in Keys, bad \in BOOLEAN : Put(k, bad)
  \/ \E r \in Pullers : Takeover(r) \/ Poll(r) \/ PollAborted(r)

S3Spec == S3Init /\ [][S3Next]_s3Vars

S3Fair == WF_s3Vars(\E r \in Pullers : Poll(r))

-----------------------------------------------------------------------------
(* Properties *)

\* The cursor never passes an object that has not been ingested, except one that was
\* put below keys already listed: through failed fetches, aborted passes, overlapping
\* passes and a cursor stored by a replica that no longer leads.
NothingOvertaken ==
  \A k \in bucket \ late : k <= s3cursor => pulled[k] > 0

\* "The objects already ingested this poll are never re-ingested on retry": an object
\* is ingested again only if a pass was cut short before its cursor was stored or the
\* leader changed, and a fetch that fails costs nothing.
RepeatsAreExplained ==
  \A k \in Keys : pulled[k] <= 1 + aborted + takeovers

\* The pull catches up, again and again: every object has been ingested, unless it was
\* put too late or an object no pass can get through stands before it.
BucketDrained ==
  []<>(\A k \in bucket \ late : pulled[k] > 0 \/ \E j \in poison : j <= k)

FromBucket == INSTANCE Intake WITH Items   <- Keys,
                                   taken   <- pulled,
                                   passed  <- {k \in bucket : k <= s3cursor},
                                   excused <- late,
                                   mishaps <- aborted + takeovers

\* One cursor and as many passes as replicas are an intake of objects: "a restart never
\* re-ingests or skips" (docstring, lines 10-11).
PullTakesIn == FromBucket!Spec
=============================================================================
