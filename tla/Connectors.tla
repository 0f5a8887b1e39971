------------------------------ MODULE Connectors -----------------------------
(***************************************************************************)
(* Threat-intel connectors: the scheduler thread of every replica          *)
(* (main.py, connectors.py), the "sync now", pause and reset-state         *)
(* endpoints (routers/connectors.py), and the lease "background" that is   *)
(* to keep the scheduled work on one replica (leader.py).                  *)
(*                                                                         *)
(* The code compares times only by their distance from now, so a row keeps *)
(* the age of its last_run and the rest of its back-off, which are bounded *)
(* without bounding time.  No code tells the statuses idle, ok and error   *)
(* apart: all three are "rest" here.  The lease is modelled by its holder. *)
(* The connectors are of one kind and read one feed, whose content has a   *)
(* version; an HTTP validator (ETag) stands for the version it was served  *)
(* with, and 0 for none (a provider that gives two versions the same       *)
(* validator is not modelled).  A version may be oversized: a fetch reads  *)
(* a bounded body and its parser keeps a bounded number of entries, so an  *)
(* import stores a part of it.  Every action is one committed write, one   *)
(* read or one fetch.                                                      *)
(*                                                                         *)
(* A definition whose comment begins with (slip) is a mistake the code     *)
(* could have made in the definition that follows it, and not part of the  *)
(* model.                                                                  *)
(***************************************************************************)
EXTENDS Integers

CONSTANTS Replicas,
          Requests,    \* request threads that run POST /connectors/{id}/run
          Connectors,
          Nobody,      \* no replica, and the holder of a lease that has run out
          Gone,        \* a holder whose process has come back under another id
          NoConnector,
          Interval,    \* connector_interval_seconds
          StuckAfter,  \* STUCK_RUNNING_AFTER
          MaxWait,     \* the longest back-off a 429 asks for
          RunAge,      \* bound on the age of a sync, StuckAfter where it matters
          MaxVersion,  \* bound on the versions of the feed
          MaxFaults    \* bound on crashes, stalls, failed bookkeeping and versions
                       \* of the feed that are more than a fetch keeps

Versions == 1 .. MaxVersion
Runners  == Replicas \cup Requests    \* a replica's scheduler runs one sync at a time

\* An age of Old is also that of a connector that never ran: it is due, and its
\* run is stuck, all the same.
Old == IF Interval > StuckAfter THEN Interval ELSE StuckAfter

ASSUME ConnectorsAssumption ==
  /\ Nobody \notin Replicas /\ Gone \notin Replicas /\ Nobody # Gone
  /\ NoConnector \notin Connectors
  /\ Replicas \cap Requests = {}
  /\ {Interval, StuckAfter, MaxWait, RunAge, MaxVersion, MaxFaults} \subseteq Nat

VARIABLES
  conn,      \* the connectors table
  feed,      \* the version the provider serves
  oversized, \* versions that exceed the limit on the body or on the entries
  stored,    \* versions whose indicators have all been imported
  lease,     \* leader_lease.holder of "background", Nobody once it has run out
  loop,      \* each scheduler: where it is, and the rows of this tick still to run
  run,       \* each sync under way
  faults,
  \* What the properties below remember of the past:
  lapsed,    \* replicas whose lease ran out in the middle of a scheduler tick
  crossed    \* connectors whose sync had its last_state replaced by another sync

vars == <<conn, feed, oversized, stored, lease, loop, run, faults, lapsed, crossed>>

NoRun == [pc |-> "idle", c |-> NoConnector, at |-> Nobody, tag |-> 0, got |-> 0,
          age |-> 0]

TypeOK ==
  /\ conn \in [Connectors -> [on     : BOOLEAN,
                              status : {"rest", "running"},
                              age    : 0 .. Old,
                              wait   : 0 .. MaxWait,
                              state  : 0 .. MaxVersion]]
  /\ feed \in 0 .. MaxVersion
  /\ oversized \in SUBSET Versions
  /\ stored \in SUBSET Versions
  /\ lease \in Replicas \cup {Nobody, Gone}
  /\ loop \in [Replicas -> [pc   : {"down", "waiting", "leading", "looping"},
                            todo : SUBSET (Connectors \X (0 .. MaxVersion))]]
  /\ run \in [Runners -> [pc   : {"idle", "asked", "fetching", "fetched", "imported",
                                  "limited", "failing"},
                          c    : Connectors \cup {NoConnector},
                          at   : Replicas \cup {Nobody},
                          tag  : 0 .. MaxVersion,
                          got  : 0 .. MaxVersion,
                          age  : 0 .. RunAge]]
  /\ faults \in Nat
  /\ lapsed \in SUBSET Replicas
  /\ crossed \in SUBSET Connectors

Init ==
  /\ conn = [c \in Connectors |-> [on |-> TRUE, status |-> "rest", age |-> Old,
                                   wait |-> 0, state |-> 0]]
  /\ feed = 0
  /\ oversized = {}
  /\ stored = {}
  /\ lease = Nobody
  /\ loop = [r \in Replicas |-> [pc |-> "waiting", todo |-> {}]]
  /\ run = [x \in Runners |-> NoRun]
  /\ faults = 0
  /\ lapsed = {}
  /\ crossed = {}

Up(r) == loop[r].pc # "down"

Fault == faults < MaxFaults /\ faults' = faults + 1

-----------------------------------------------------------------------------
(* The lease *)

\* (slip) is_leader asks whether somebody leads.
SomebodyLeads(r) == lease # Nobody

IsLeader(r) == lease = r

\* acquire, by the engine loop of a replica, which takes or renews the lease.
Acquire(r) ==
  /\ Up(r)
  /\ lease \in {r, Nobody}
  /\ lease' = r
  /\ UNCHANGED <<conn, feed, oversized, stored, loop, run, faults, lapsed, crossed>>

\* The lease runs out.  The engine loop renews it several times in its time to live,
\* so that happens under a live holder only when that loop stalls.
LeaseRunsOut ==
  /\ lease # Nobody
  /\ lease' = Nobody
  /\ IF lease # Gone /\ Up(lease)
     THEN /\ Fault
          /\ lapsed' = IF loop[lease].pc \in {"leading", "looping"}
                       THEN lapsed \cup {lease} ELSE lapsed
     ELSE UNCHANGED <<faults, lapsed>>
  /\ UNCHANGED <<conn, feed, oversized, stored, loop, run, crossed>>

-----------------------------------------------------------------------------
(* The scheduler *)

CheckLease(r) ==
  /\ loop[r].pc = "waiting"
  /\ IsLeader(r)
  /\ loop' = [loop EXCEPT ![r].pc = "leading"]
  /\ UNCHANGED <<conn, feed, oversized, stored, lease, run, faults, lapsed, crossed>>

\* (slip) A connector that is running is left alone for ever.
DueUnlessRunning(c) ==
  conn[c].on /\ conn[c].wait = 0 /\ conn[c].age >= Interval /\ conn[c].status # "running"

\* Enabled, no back-off left, the interval over since the last run ENDED, and not
\* running unless that end is StuckAfter ago.
Due(c) ==
  /\ conn[c].on
  /\ conn[c].wait = 0
  /\ conn[c].age >= Interval
  /\ conn[c].status # "running" \/ conn[c].age >= StuckAfter

\* run_due_connectors reads every row once, and decides by what it read then.
ReadDue(r) ==
  /\ loop[r].pc = "leading"
  /\ loop' = [loop EXCEPT ![r] =
                [pc |-> "looping", todo |-> {<<c, conn[c].state>> : c \in {d \in Connectors : Due(d)}}]]
  /\ UNCHANGED <<conn, feed, oversized, stored, lease, run, faults, lapsed, crossed>>

\* The sleep at the end of the tick.
EndTick(r) ==
  /\ loop[r] = [pc |-> "looping", todo |-> {}]
  /\ run[r].pc = "idle"
  /\ loop' = [loop EXCEPT ![r].pc = "waiting"]
  /\ lapsed' = lapsed \ {r}
  /\ UNCHANGED <<conn, feed, oversized, stored, lease, run, faults, crossed>>

\* The next row of the loop goes to run_connector, which writes status='running'.
RunNext(r) ==
  /\ loop[r].pc = "looping"
  /\ run[r].pc = "idle"
  /\ \E item \in loop[r].todo :
       /\ loop' = [loop EXCEPT ![r].todo = @ \ {item}]
       /\ conn' = [conn EXCEPT ![item[1]].status = "running"]
       /\ run' = [run EXCEPT ![r] = [NoRun EXCEPT !.pc = "fetching", !.c = item[1],
                                                  !.at = r, !.tag = item[2]]]
  /\ UNCHANGED <<feed, oversized, stored, lease, faults, lapsed, crossed>>

\* That write raises: the loop's own handler writes status='error', or fails too.
RunNextRaises(r) ==
  /\ loop[r].pc = "looping"
  /\ run[r].pc = "idle"
  /\ Fault
  /\ \E item \in loop[r].todo :
       /\ loop' = [loop EXCEPT ![r].todo = @ \ {item}]
       /\ conn' \in {conn, [conn EXCEPT ![item[1]].status = "rest"]}
  /\ UNCHANGED <<feed, oversized, stored, lease, run, lapsed, crossed>>

-----------------------------------------------------------------------------
(* The endpoints *)

\* run_now reads the row on some replica; it looks at neither status nor back-off.
Ask(q, c) ==
  /\ run[q].pc = "idle"
  /\ \E r \in {s \in Replicas : Up(s)} :
       run' = [run EXCEPT ![q] = [NoRun EXCEPT !.pc = "asked", !.c = c, !.at = r,
                                               !.tag = conn[c].state]]
  /\ UNCHANGED <<conn, feed, oversized, stored, lease, loop, faults, lapsed, crossed>>

RunNow(q) ==
  /\ run[q].pc = "asked"
  /\ conn' = [conn EXCEPT ![run[q].c].status = "running"]
  /\ run' = [run EXCEPT ![q].pc = "fetching"]
  /\ UNCHANGED <<feed, oversized, stored, lease, loop, faults, lapsed, crossed>>

\* pause_connector, which also resumes; either way the row becomes idle.
Pause(c, on) ==
  /\ conn' = [conn EXCEPT ![c].on = on, ![c].status = "rest"]
  /\ UNCHANGED <<feed, oversized, stored, lease, loop, run, faults, lapsed, crossed>>

ResetState(c) ==
  /\ conn' = [conn EXCEPT ![c].state = 0, ![c].wait = 0]
  /\ UNCHANGED <<feed, oversized, stored, lease, loop, run, faults, lapsed, crossed>>

-----------------------------------------------------------------------------
(* run_connector, from the fetch on *)

\* Syncs whose process is x's, with last_state set and not read yet.
AwaitingState(x) ==
  {y \in Runners \ {x} : run[y].at = run[x].at /\ run[y].pc \in {"fetched", "imported"}}

\* The fetcher returns the indicators, none after a 304 or a failure of the feed and
\* those that fit of an oversized version, whose validator it takes all the same.  It
\* leaves the validators in last_state: the one the feed answered with, or the one it
\* was sent when it failed.  last_state is an attribute of the function, one for all
\* syncs of the process, so this sets the tag of those that have not read it as well.
FetchAnswers(x, v) ==
  run' = [y \in Runners |->
            IF y = x THEN [run[x] EXCEPT !.pc = "fetched", !.tag = v,
                                         !.got = IF v = run[x].tag THEN 0 ELSE v]
            ELSE IF y \in AwaitingState(x) THEN [run[y] EXCEPT !.tag = v]
            ELSE run[y]]

\* (slip) The validators are saved with the fetch.
FetchSaves(x) ==
  /\ run[x].pc = "fetching"
  /\ \E v \in {feed, run[x].tag} :
       /\ FetchAnswers(x, v)
       /\ conn' = [conn EXCEPT ![run[x].c].state = v]
  /\ crossed' = crossed \cup {run[y].c : y \in AwaitingState(x)}
  /\ UNCHANGED <<feed, oversized, stored, lease, loop, faults, lapsed>>

Fetch(x) ==
  /\ run[x].pc = "fetching"
  /\ \E v \in {feed, run[x].tag} : FetchAnswers(x, v)
  /\ crossed' = crossed \cup {run[y].c : y \in AwaitingState(x)}
  /\ UNCHANGED <<conn, feed, oversized, stored, lease, loop, faults, lapsed>>

\* The fetch raises, with a 429 or otherwise.
FetchFails(x) ==
  /\ run[x].pc = "fetching"
  /\ \E pc \in {"limited", "failing"} :
       run' = [run EXCEPT ![x].pc = pc, ![x].tag = 0]
  /\ UNCHANGED <<conn, feed, oversized, stored, lease, loop, faults, lapsed, crossed>>

\* All that was fetched is imported, which of an oversized version is a part.
Import(x) ==
  /\ run[x].pc = "fetched"
  /\ stored' = stored \cup ({run[x].got} \ ({0} \cup oversized))
  /\ run' = [run EXCEPT ![x].pc = "imported", ![x].got = 0]
  /\ UNCHANGED <<conn, feed, oversized, lease, loop, faults, lapsed, crossed>>

\* The import raises halfway, or the transaction that was to record it does.
ImportFails(x) ==
  /\ run[x].pc \in {"fetched", "imported"}
  /\ run' = [run EXCEPT ![x].pc = "failing", ![x].got = 0, ![x].tag = 0]
  /\ UNCHANGED <<conn, feed, oversized, stored, lease, loop, faults, lapsed, crossed>>

\* status='error' and last_run.
Error(x) ==
  /\ run[x].pc = "failing"
  /\ conn' = [conn EXCEPT ![run[x].c].status = "rest", ![run[x].c].age = 0]
  /\ run' = [run EXCEPT ![x] = NoRun]
  /\ UNCHANGED <<feed, oversized, stored, lease, loop, faults, lapsed, crossed>>

\* status='ok', last_run, and the validators found in last_state by now.
Finish(x) ==
  /\ run[x].pc = "imported"
  /\ conn' = [conn EXCEPT ![run[x].c].status = "rest", ![run[x].c].age = 0,
                          ![run[x].c].state = run[x].tag]
  /\ run' = [run EXCEPT ![x] = NoRun]
  /\ UNCHANGED <<feed, oversized, stored, lease, loop, faults, lapsed, crossed>>

\* next_allowed_at after a 429, in a transaction of its own whose failure is logged.
BackOff(x) ==
  /\ run[x].pc = "limited"
  /\ \E w \in 0 .. MaxWait : conn' = [conn EXCEPT ![run[x].c].wait = IF w = 0 THEN @ ELSE w]
  /\ run' = [run EXCEPT ![x].pc = "failing"]
  /\ UNCHANGED <<feed, oversized, stored, lease, loop, faults, lapsed, crossed>>

\* The write of the error raises: the loop's handler may still write it, without
\* last_run; a request answers 500 and the row stays as it is.
Raise(x) ==
  /\ run[x].pc = "failing"
  /\ Fault
  /\ \/ conn' = conn
     \/ x \in Replicas /\ conn' = [conn EXCEPT ![run[x].c].status = "rest"]
  /\ run' = [run EXCEPT ![x] = NoRun]
  /\ UNCHANGED <<feed, oversized, stored, lease, loop, lapsed, crossed>>

-----------------------------------------------------------------------------
(* The environment *)

\* A new version, which may be more than a fetch keeps.
Publish ==
  /\ feed < MaxVersion
  /\ feed' = feed + 1
  /\ \/ UNCHANGED <<oversized, faults>>
     \/ Fault /\ oversized' = oversized \cup {feed'}
  /\ UNCHANGED <<conn, stored, lease, loop, run, lapsed, crossed>>

\* A process dies, and the syncs it ran with it.
Crash(r) ==
  /\ Up(r)
  /\ Fault
  /\ loop' = [loop EXCEPT ![r] = [pc |-> "down", todo |-> {}]]
  /\ run' = [x \in Runners |-> IF run[x].at = r THEN NoRun ELSE run[x]]
  /\ lapsed' = lapsed \ {r}
  /\ UNCHANGED <<conn, feed, oversized, stored, lease, crossed>>

\* (slip) The reset writes a status of its own.
ResetToInterrupted(row) ==
  IF row.status = "running" THEN [row EXCEPT !.status = "interrupted"] ELSE row

\* reset_stuck_connectors
Reset(row) == IF row.status = "running" THEN [row EXCEPT !.status = "rest"] ELSE row

\* It comes back, under the holder id it had or another (hostname:pid), and the
\* scheduler thread resets every connector that is running, anybody's.
Boot(r) ==
  /\ loop[r].pc = "down"
  /\ loop' = [loop EXCEPT ![r].pc = "waiting"]
  /\ conn' = [c \in Connectors |-> Reset(conn[c])]
  /\ lease' \in {lease, IF lease = r THEN Gone ELSE lease}
  /\ UNCHANGED <<feed, oversized, stored, run, faults, lapsed, crossed>>

AgeBy1(age, cap) == IF age < cap THEN age + 1 ELSE cap

Tick ==
  /\ conn' = [c \in Connectors |->
                [conn[c] EXCEPT !.age  = AgeBy1(@, Old),
                                !.wait = IF @ > 0 THEN @ - 1 ELSE 0]]
  /\ run' = [x \in Runners |-> IF run[x].pc = "idle" THEN NoRun
                               ELSE [run[x] EXCEPT !.age = AgeBy1(@, RunAge)]]
  /\ UNCHANGED <<feed, oversized, stored, lease, loop, faults, lapsed, crossed>>

-----------------------------------------------------------------------------
Scheduler(r) == CheckLease(r) \/ ReadDue(r) \/ RunNext(r) \/ EndTick(r)

Sync(x) == \/ Fetch(x) \/ FetchFails(x) \/ Import(x) \/ ImportFails(x)
           \/ Finish(x) \/ BackOff(x) \/ Error(x)

Operator == \/ \E q \in Requests : RunNow(q) \/ \E c \in Connectors : Ask(q, c)
            \/ \E c \in Connectors : ResetState(c) \/ \E on \in BOOLEAN : Pause(c, on)

Next ==
  \/ \E r \in Replicas : \/ Acquire(r) \/ Scheduler(r) \/ RunNextRaises(r)
                         \/ Crash(r) \/ Boot(r)
  \/ \E x \in Runners : Sync(x) \/ Raise(x)
  \/ LeaseRunsOut
  \/ Operator
  \/ Publish
  \/ Tick

Spec == Init /\ [][Next]_vars

\* The two loops of a live replica and every sync under way are scheduled, and time
\* passes.  No restart and no operator is relied on.
FairSpec ==
  /\ Spec
  /\ \A r \in Replicas : WF_vars(Acquire(r)) /\ WF_vars(Scheduler(r))
  /\ \A x \in Runners : WF_vars(Sync(x))
  /\ WF_vars(LeaseRunsOut /\ faults' = faults)
  /\ WF_vars(Tick)

-----------------------------------------------------------------------------
(* Properties *)

\* Two schedulers are in a tick at one time only if the lease ran out under one of
\* them in the middle of it: the scheduler "must run on exactly one node"
\* (leader.py, lines 3-5), but a tick checks the lease once, at its start.
TurnsHaveCause ==
  \A r, s \in Replicas :
    (/\ r # s
     /\ loop[r].pc \in {"leading", "looping"}
     /\ loop[s].pc \in {"leading", "looping"}) => r \in lapsed \/ s \in lapsed

\* A saved validator stands for data that was imported, or that some sync has in hand
\* to import.  Otherwise the feed answers "not modified" for data nobody has, and it
\* is not fetched again until it changes
\* (connectors.py, lines 1911-1916).
ValidatorHasData ==
  \A c \in Connectors : \/ conn[c].state \in stored \cup {0}
                        \/ \E x \in Runners : run[x].got = conn[c].state

\* It comes to lie in two ways only: another sync of the same process set last_state
\* between this sync's fetch and its result, or the version was cut at the limit on
\* the body or the entries and its validator saved all the same.  reset-state names
\* the second, "a truncated import that recorded a validator for data we never
\* actually stored" (routers/connectors.py, lines 272-273).
LiesHaveCause ==
  \A c \in Connectors : \/ conn[c].state \in stored \cup {0}
                        \/ conn[c].state \in oversized
                        \/ c \in crossed

Syncing(c) == \E x \in Runners : run[x].c = c /\ run[x].pc # "asked"

\* A connector that stays enabled is synced again and again as long as some replica
\* stays up, whatever died or failed in the middle of a sync: "a wedged one recovers
\* on its own instead of needing a restart" (connectors.py, lines 2392-2393).
KeepsSyncing ==
  (\E r \in Replicas : <>[]Up(r)) =>
    \A c \in Connectors : <>[](conn[c].on) => []<>Syncing(c)

\* "a healthy long sync is never pre-empted" (connectors.py, line 2392): the
\* scheduler never picks a connector whose sync began less than StuckAfter ago and
\* still shows as running.
NeverPreempted ==
  [][\A r \in Replicas, x \in Runners :
       (/\ ReadDue(r)
        /\ run[x].pc \notin {"idle", "asked"}
        /\ run[x].age < StuckAfter
        /\ conn[run[x].c].status = "running")
       => \A item \in loop'[r].todo : item[1] # run[x].c]_vars
=============================================================================
