--------------------------------- MODULE Hunts ---------------------------------
(***************************************************************************)
(* Scheduled hunts (dashboard_api/hunting.py, main._hunt_loop): the leader *)
(* runs a saved query when it is due and alerts on the matching events     *)
(* that are newer than its previous look, saved_hunts.last_scheduled.      *)
(*                                                                         *)
(* One hunt that lists events, and events that match it.  The clock counts *)
(* seconds, as the timestamps do: an event is dated when its ingest begins *)
(* and appears when that transaction commits; a run dates itself when it   *)
(* begins and searches later, over the last 24 hours of then, whatever the *)
(* schedule is.  The loop of a replica begins a run because the replica    *)
(* led, and the lease may move before it ends; POST /hunts/run-scheduled   *)
(* begins one on any replica, whoever leads.                               *)
(*                                                                         *)
(* A definition whose comment begins with (slip) is a mistake the code     *)
(* could have made in the definition that follows it.                      *)
(***************************************************************************)
EXTENDS Integers, FiniteSets

CONSTANTS Clues,          \* events that match the query
          Hunters,        \* threads that run hunts: a loop of each replica, requests
          Requests,       \* those that are POST /hunts/run-scheduled
          MaxSecond,      \* bound on the clock
          Every,          \* schedule_minutes, in the clock's unit
          Window,         \* the time_range of a scheduled search (24 hours)
          PageSize,       \* LIMIT of event_search (5000 in the code)
          MaxStrays       \* bound on changes of the leader and runs the API asks for

ASSUME HuntAssumption ==
  /\ MaxSecond \in Nat
  /\ Every \in Nat \ {0}
  /\ Window \in Nat \ {0}
  /\ PageSize \in Nat \ {0}
  /\ MaxStrays \in Nat

Never == -1   \* last_scheduled IS NULL

VARIABLES
  second,      \* the clock
  clue,        \* events: where each is, and its ts
  lastLook,    \* saved_hunts.last_scheduled
  hunter,      \* run_due_scheduled_hunts of each thread
  huntLead,    \* the loop whose replica holds the lease "background"
  counted,     \* in how many alerts each event has been counted as new
  belated,     \* events committed after a look that claims to cover their second
  crowded,     \* new events a search left out because its page was full
  aged,        \* new events a search left out because they were before its window
  strays       \* changes of the leader, and runs the API asked for

huntVars == <<second, clue, lastLook, hunter, huntLead, counted, belated, crowded, aged,
             strays>>

NoRun == [pc |-> "idle", now |-> 0, last |-> Never, found |-> {}]

HuntTypeOK ==
  /\ second \in 0 .. MaxSecond
  /\ clue \in [Clues -> [at : {"nowhere", "ingest", "stored"}, ts : 0 .. MaxSecond]]
  /\ lastLook \in Never .. MaxSecond
  /\ hunter \in [Hunters -> [pc    : {"idle", "begun", "due", "searched"},
                             now   : 0 .. MaxSecond,
                             last  : Never .. MaxSecond,
                             found : SUBSET Clues]]
  /\ huntLead \in Hunters
  /\ counted \in [Clues -> Nat]
  /\ belated \in SUBSET Clues
  /\ crowded \in SUBSET Clues
  /\ aged \in SUBSET Clues
  /\ strays \in Nat

HuntInit ==
  /\ second = 0
  /\ clue = [e \in Clues |-> [at |-> "nowhere", ts |-> 0]]
  /\ lastLook = Never
  /\ hunter = [r \in Hunters |-> NoRun]
  /\ huntLead \in Hunters \ Requests
  /\ counted = [e \in Clues |-> 0]
  /\ belated = {}
  /\ crowded = {}
  /\ aged = {}
  /\ strays = 0

-----------------------------------------------------------------------------
(* Time, events and the lease *)

Second ==
  /\ second < MaxSecond
  /\ second' = second + 1
  /\ UNCHANGED <<clue, lastLook, hunter, huntLead, counted, belated, crowded, aged, strays>>

\* ingest_lines dates its events when it begins.
DateClue(e) ==
  /\ clue[e].at = "nowhere"
  /\ clue' = [clue EXCEPT ![e] = [at |-> "ingest", ts |-> second]]
  /\ UNCHANGED <<second, lastLook, hunter, huntLead, counted, belated, crowded, aged, strays>>

\* The second t counts as seen: in the table, for a run that has read the table, or
\* for one whose search is over.
Covered(t) ==
  \/ t <= lastLook
  \/ \E r \in Hunters : \/ hunter[r].pc \in {"due", "searched"} /\ t <= hunter[r].last
                        \/ hunter[r].pc = "searched" /\ t <= hunter[r].now

StoreClue(e) ==
  /\ clue[e].at = "ingest"
  /\ clue' = [clue EXCEPT ![e].at = "stored"]
  /\ belated' = IF Covered(clue[e].ts) THEN belated \cup {e} ELSE belated
  /\ UNCHANGED <<second, lastLook, hunter, huntLead, counted, crowded, aged, strays>>

HuntMove(r) ==
  /\ r \notin Requests \cup {huntLead}
  /\ strays < MaxStrays
  /\ strays' = strays + 1
  /\ huntLead' = r
  /\ UNCHANGED <<second, clue, lastLook, hunter, counted, belated, crowded, aged>>

-----------------------------------------------------------------------------
(* A run *)

\* _hunt_loop: leader.is_leader(), and `now`.
BeginRun(r) ==
  /\ hunter[r].pc = "idle"
  /\ huntLead = r
  /\ hunter' = [hunter EXCEPT ![r] = [NoRun EXCEPT !.pc = "begun", !.now = second]]
  /\ UNCHANGED <<second, clue, lastLook, huntLead, counted, belated, crowded, aged, strays>>

\* run_scheduled_hunts_now: no is_leader().
AskRun(r) ==
  /\ hunter[r].pc = "idle"
  /\ r \in Requests
  /\ strays < MaxStrays
  /\ strays' = strays + 1
  /\ hunter' = [hunter EXCEPT ![r] = [NoRun EXCEPT !.pc = "begun", !.now = second]]
  /\ UNCHANGED <<second, clue, lastLook, huntLead, counted, belated, crowded, aged>>

Due(last, now) == last = Never \/ now - last >= Every

\* SELECT the saved hunts; one that is not due is skipped.
ReadHunt(r) ==
  /\ hunter[r].pc = "begun"
  /\ hunter' = [hunter EXCEPT ![r] =
                  IF Due(lastLook, hunter[r].now) THEN [@ EXCEPT !.pc = "due", !.last = lastLook]
                                                  ELSE NoRun]
  /\ UNCHANGED <<second, clue, lastLook, huntLead, counted, belated, crowded, aged, strays>>

Stored == {e \in Clues : clue[e].at = "stored"}

\* ts >= since, which is counted back from the time of the search.
InWindow == {e \in Stored : clue[e].ts >= second - Window}

\* ORDER BY ts DESC LIMIT: a page of the newest events of the window.  It is filled by
\* all events, those that do not match the query too, so it may hold few of these.
IsPage(page) ==
  /\ page \subseteq InWindow
  /\ \A e \in page, f \in InWindow \ page : clue[f].ts <= clue[e].ts
  /\ Cardinality(page) <= PageSize

\* ts > since_iso, and everything on the first run.
IsNew(e, last) == clue[e].ts > last

\* event_search, on a connection of its own.
Search(r) ==
  /\ hunter[r].pc = "due"
  /\ LET new == {e \in Stored : IsNew(e, hunter[r].last)}
     IN  \E page \in SUBSET Stored :
           /\ IsPage(page)
           /\ hunter' = [hunter EXCEPT ![r].pc = "searched", ![r].found = new \cap page]
           /\ crowded' = crowded \cup ((new \cap InWindow) \ page)
           /\ aged' = aged \cup (new \ InWindow)
  /\ UNCHANGED <<second, clue, lastLook, huntLead, counted, belated, strays>>

\* (slip) The look is dated when it is stored.
StampLate(r) == second

\* (slip) Only last_run is stored, and last_scheduled stays.
StampKept(r) == lastLook

\* The look is dated when the run began.
Stamp(r) == hunter[r].now

\* last_scheduled and the alert, committed together.
FinishRun(r) ==
  /\ hunter[r].pc = "searched"
  /\ lastLook' = Stamp(r)
  /\ counted' = [e \in Clues |-> IF e \in hunter[r].found THEN counted[e] + 1 ELSE counted[e]]
  /\ hunter' = [hunter EXCEPT ![r] = NoRun]
  /\ UNCHANGED <<second, clue, huntLead, belated, crowded, aged, strays>>

\* An error or a crash: nothing of the run is committed.
AbortRun(r) ==
  /\ hunter[r].pc # "idle"
  /\ hunter' = [hunter EXCEPT ![r] = NoRun]
  /\ UNCHANGED <<second, clue, lastLook, huntLead, counted, belated, crowded, aged, strays>>

HuntNext ==
  \/ Second
  \/ \E e \in Clues : DateClue(e) \/ StoreClue(e)
  \/ \E r \in Hunters : HuntMove(r) \/ BeginRun(r) \/ AskRun(r) \/ ReadHunt(r)
                          \/ Search(r) \/ FinishRun(r) \/ AbortRun(r)

HuntSpec == HuntInit /\ [][HuntNext]_huntVars

-----------------------------------------------------------------------------
(* Properties *)

\* "The alert fires on matches newer than the last scheduled run" (hunting.py, lines
\* 373-374): an event whose second the hunt counts as looked at has been reported,
\* except one committed after that look (its ingest took longer, or fell into the same
\* second), crowded out of the search's page, or older than the search's window.  The
\* last is every event of the time by which the schedule, up to a week, or a gap
\* without a leader exceeds 24 hours: no search ever sees it.
NewsReported ==
  \A e \in Stored \ (belated \cup crowded \cup aged) :
    clue[e].ts <= lastLook => counted[e] > 0

\* "The alert fires on matches newer than the last scheduled run": an event is
\* reported twice at most (found by a search that ran in a later second than its run
\* is dated), and twice more for each run beside the leader's: one the lease has moved
\* away from, or one the API asked for (the overtaken run reports the event too, and
\* sets last_scheduled back to its own date).
RepeatsBounded ==
  \A e \in Clues : counted[e] <= 2 + 2 * strays
=============================================================================
