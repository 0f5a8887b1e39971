----------------------------- MODULE IocLifecycle -----------------------------
(***************************************************************************)
(* One indicator of the intel store and the local events that carry its    *)
(* value: the decay passes (ioc_lifecycle.py), the threat-intel matching   *)
(* passes (ingest.py), sightings and the analyst's known-good mark         *)
(* (routers/cti.py).                                                       *)
(*                                                                         *)
(* Transactions are Postgres's, the weaker of the two backends: every      *)
(* statement reads what is committed when it runs, writes show at the      *)
(* commit, and an UPDATE of the indicator holds its row until then.  On    *)
(* SQLite the first write of a transaction excludes every other writer.    *)
(*                                                                         *)
(* The indicator's severity is one that alerts (_ti_alertable), and its    *)
(* value is in one row of the store.  A pass looks for it in four columns  *)
(* of an event, and an event may have it in several.                       *)
(*                                                                         *)
(* The decay arithmetic is reduced to `fresh`: whether the indicator was   *)
(* seen recently enough to be above its rule's revoke score.  A sighting   *)
(* adds 8 to the confidence and dates it anew; the indicator is one whose  *)
(* confidence is then above that score.                                    *)
(*                                                                         *)
(* A definition whose comment begins with (slip) is a mistake the code     *)
(* could have made in the definition that follows it.                      *)
(***************************************************************************)
EXTENDS Integers, FiniteSets

CONSTANTS Observations,  \* events that carry the indicator's value
          SrcIp, DestIp, DestHost, Url,   \* those that carry it in each column
          Matchers,      \* the scheduler's matching pass, those of ingest calls
          Decayers,      \* the scheduler's decay pass, those of the API
          NoPass,        \* holds the row while no transaction does
          MaxActs        \* bound on what the analyst does: marks, their removals, sightings

ASSUME LifecycleAssumption ==
  /\ SrcIp \cup DestIp \cup DestHost \cup Url = Observations
  /\ NoPass \notin Matchers
  /\ MaxActs \in Nat

VARIABLES
  ioc,         \* the row of iocs
  rowLock,     \* the matching pass whose open transaction has updated the row
  unchecked,   \* committed events with ti_checked = 0
  checked,     \* and with ti_checked = 1
  sighted,     \* how many rows of ioc_sightings each event has led to
  standing,    \* R-TIMATCH alerts for the value
  matcher,     \* match_threat_intel of each pass
  decayer,     \* decay_iocs of each pass
  good,        \* the analyst's last word
  overtaken,   \* it was spoken while a decay pass held an older status
  shared,      \* events that two passes held at once
  acts

iocVars == <<ioc, rowLock, unchecked, checked, sighted, standing, matcher, decayer,
             good, overtaken, shared, acts>>

IdleMatch == [pc |-> "idle", batch |-> {}, raise |-> FALSE]
IdleDecay == [pc |-> "idle", was |-> "active", target |-> "active"]

IocTypeOK ==
  /\ ioc \in [status : {"active", "expired", "known-good"}, fresh : BOOLEAN]
  /\ rowLock \in Matchers \cup {NoPass}
  /\ unchecked \in SUBSET Observations
  /\ checked \in SUBSET Observations
  /\ sighted \in [Observations -> Nat]
  /\ standing \in Nat
  /\ matcher \in [Matchers -> [pc    : {"idle", "read", "hit", "locked", "ready"},
                               batch : SUBSET Observations,
                               raise : BOOLEAN]]
  /\ decayer \in [Decayers -> [pc     : {"idle", "scored"},
                               was    : {"active", "expired"},
                               target : {"active", "expired"}]]
  /\ good \in BOOLEAN
  /\ overtaken \in BOOLEAN
  /\ shared \in SUBSET Observations
  /\ acts \in Nat

IocInit ==
  /\ ioc = [status |-> "active", fresh |-> TRUE]
  /\ rowLock = NoPass
  /\ unchecked = {}
  /\ checked = {}
  /\ sighted = [e \in Observations |-> 0]
  /\ standing = 0
  /\ matcher = [m \in Matchers |-> IdleMatch]
  /\ decayer = [d \in Decayers |-> IdleDecay]
  /\ good = FALSE
  /\ overtaken = FALSE
  /\ shared = {}
  /\ acts = 0

-----------------------------------------------------------------------------
(* Events, time and the analyst *)

\* An event with the value is committed.
Observe(e) ==
  /\ e \notin unchecked \cup checked
  /\ unchecked' = unchecked \cup {e}
  /\ UNCHANGED <<ioc, rowLock, checked, sighted, standing, matcher, decayer,
                 good, overtaken, shared, acts>>

\* Time passes until the effective confidence is below the revoke score.
Age ==
  /\ ioc' = [ioc EXCEPT !.fresh = FALSE]
  /\ ioc.fresh
  /\ UNCHANGED <<rowLock, unchecked, checked, sighted, standing, matcher, decayer,
                 good, overtaken, shared, acts>>

\* set_known_good(TRUE).
MarkKnownGood ==
  /\ acts < MaxActs
  /\ rowLock = NoPass
  /\ ioc' = [ioc EXCEPT !.status = "known-good"]
  /\ good' = TRUE
  /\ overtaken' = \E d \in Decayers : decayer[d].pc = "scored"
                                        /\ decayer[d].was # decayer[d].target
  /\ acts' = acts + 1
  /\ UNCHANGED <<rowLock, unchecked, checked, sighted, standing, matcher, decayer,
                 shared>>

\* set_known_good(FALSE): both of its UPDATEs leave the indicator active.
UnmarkKnownGood ==
  /\ acts < MaxActs
  /\ rowLock = NoPass
  /\ ioc' = [ioc EXCEPT !.status = "active"]
  /\ good' = FALSE
  /\ acts' = acts + 1
  /\ UNCHANGED <<rowLock, unchecked, checked, sighted, standing, matcher, decayer,
                 overtaken, shared>>

\* (slip) A sighting reactivates whatever the status is.
AlwaysActive == [status |-> "active", fresh |-> TRUE]

\* The UPDATE of record_sighting: it dates the indicator anew and reactivates it, and
\* a known-good one stays known-good.
SightedRow ==
  [status |-> IF ioc.status = "known-good" THEN "known-good" ELSE "active", fresh |-> TRUE]

\* POST /cti/iocs/{id}/sighting.
ReportSighting ==
  /\ acts < MaxActs
  /\ rowLock = NoPass
  /\ ioc' = SightedRow
  /\ acts' = acts + 1
  /\ UNCHANGED <<rowLock, unchecked, checked, sighted, standing, matcher, decayer,
                 good, overtaken, shared>>

-----------------------------------------------------------------------------
(* match_threat_intel *)

\* SELECT the events with ti_checked = 0.
ReadUnchecked(m) ==
  /\ matcher[m].pc = "idle"
  /\ unchecked # {}
  /\ matcher' = [matcher EXCEPT ![m] = [pc |-> "read", batch |-> unchecked, raise |-> FALSE]]
  /\ shared' = shared \cup {e \in unchecked : \E n \in Matchers : e \in matcher[n].batch}
  /\ UNCHANGED <<ioc, rowLock, unchecked, checked, sighted, standing, decayer,
                 good, overtaken, acts>>

\* SELECT the active indicators among their values.
LookUp(m) ==
  /\ matcher[m].pc = "read"
  /\ matcher' = [matcher EXCEPT ![m].pc = IF ioc.status = "active" THEN "hit" ELSE "ready"]
  /\ UNCHANGED <<ioc, rowLock, unchecked, checked, sighted, standing, decayer,
                 good, overtaken, shared, acts>>

\* (slip) The sightings are recorded in transactions of their own.
NoRowLock(m) ==
  /\ matcher[m].pc = "hit"
  /\ matcher' = [matcher EXCEPT ![m].pc = "locked"]
  /\ UNCHANGED <<ioc, rowLock, unchecked, checked, sighted, standing, decayer,
                 good, overtaken, shared, acts>>

\* record_sighting for each event: the first UPDATE takes the row, or waits for it.
TakeRow(m) ==
  /\ matcher[m].pc = "hit"
  /\ rowLock = NoPass
  /\ rowLock' = m
  /\ matcher' = [matcher EXCEPT ![m].pc = "locked"]
  /\ UNCHANGED <<ioc, unchecked, checked, sighted, standing, decayer,
                 good, overtaken, shared, acts>>

\* SELECT the standing alert of the value; without one, alert_from_intel raises it.
TestStanding(m) ==
  /\ matcher[m].pc = "locked"
  /\ matcher' = [matcher EXCEPT ![m].pc = "ready", ![m].raise = (standing = 0)]
  /\ UNCHANGED <<ioc, rowLock, unchecked, checked, sighted, standing, decayer,
                 good, overtaken, shared, acts>>

\* An event is a candidate once for every column that has the value.
Places(e) ==
  LET In(column) == IF e \in column THEN 1 ELSE 0
  IN  In(SrcIp) + In(DestIp) + In(DestHost) + In(Url)

\* (slip) The events are not marked.
LeaveUnmarked(batch) == UNCHANGED <<unchecked, checked>>

\* UPDATE events SET ti_checked = 1.
MarkChecked(batch) == /\ unchecked' = unchecked \ batch
                      /\ checked' = checked \cup batch

\* The commit: a sighting for each place, the alert and the marks appear together.
CommitMatch(m) ==
  /\ matcher[m].pc = "ready"
  /\ MarkChecked(matcher[m].batch)
  /\ standing' = IF matcher[m].raise THEN standing + 1 ELSE standing
  /\ IF rowLock = m
     THEN /\ sighted' = [e \in Observations |->
                           IF e \in matcher[m].batch THEN sighted[e] + Places(e)
                                                    ELSE sighted[e]]
          /\ ioc' = SightedRow
          /\ rowLock' = NoPass
     ELSE UNCHANGED <<sighted, ioc, rowLock>>
  /\ matcher' = [matcher EXCEPT ![m] = IdleMatch]
  /\ UNCHANGED <<decayer, good, overtaken, shared, acts>>

\* An error or a crash: the transaction is rolled back.
AbortMatch(m) ==
  /\ matcher[m].pc # "idle"
  /\ rowLock' = IF rowLock = m THEN NoPass ELSE rowLock
  /\ matcher' = [matcher EXCEPT ![m] = IdleMatch]
  /\ UNCHANGED <<ioc, unchecked, checked, sighted, standing, decayer,
                 good, overtaken, shared, acts>>

-----------------------------------------------------------------------------
(* decay_iocs *)

\* (slip) A pass only expires.
OnlyExpire == IF ioc.fresh THEN ioc.status ELSE "expired"

\* The status the indicator should have.
Target == IF ioc.fresh THEN "active" ELSE "expired"

\* SELECT the indicators that are not known-good, and score them.
ScoreIoc(d) ==
  /\ decayer[d].pc = "idle"
  /\ ioc.status # "known-good"
  /\ decayer' = [decayer EXCEPT ![d] = [pc |-> "scored", was |-> ioc.status, target |-> Target]]
  /\ UNCHANGED <<ioc, rowLock, unchecked, checked, sighted, standing, matcher,
                 good, overtaken, shared, acts>>

\* UPDATE iocs SET status=? WHERE id=?, for those whose status was to change.
WriteStatus(d) ==
  /\ decayer[d].pc = "scored"
  /\ IF decayer[d].target # decayer[d].was
     THEN rowLock = NoPass /\ ioc' = [ioc EXCEPT !.status = decayer[d].target]
     ELSE UNCHANGED ioc
  /\ decayer' = [decayer EXCEPT ![d] = IdleDecay]
  /\ UNCHANGED <<rowLock, unchecked, checked, sighted, standing, matcher,
                 good, overtaken, shared, acts>>

Match(m) == ReadUnchecked(m) \/ LookUp(m) \/ TakeRow(m) \/ TestStanding(m) \/ CommitMatch(m)
Decay(d) == ScoreIoc(d) \/ WriteStatus(d)

IocNext ==
  \/ \E e \in Observations : Observe(e)
  \/ Age \/ MarkKnownGood \/ UnmarkKnownGood \/ ReportSighting
  \/ \E m \in Matchers : Match(m) \/ AbortMatch(m)
  \/ \E d \in Decayers : Decay(d)

IocSpec == IocInit /\ [][IocNext]_iocVars

\* The scheduler repeats its passes; a row is released by a commit or a rollback.
IocFair == /\ \A m \in Matchers : WF_iocVars(Match(m) \/ AbortMatch(m))
           /\ \A d \in Decayers : SF_iocVars(Decay(d))

-----------------------------------------------------------------------------
(* Properties *)

\* "Known-good is left untouched": what the analyst marked stays marked through
\* sightings, matching and decay, except where a decay pass had read the indicator
\* before the mark and wrote its status after it.
KnownGoodKept == good => ioc.status = "known-good" \/ overtaken

\* "A batch is examined exactly once, the count means what it says" (ingest.py, lines
\* 1270-1271): an event leads to one sighting for each column that has the value, two
\* where src_ip = dest_ip, and to more only where two passes (a scheduler tick and an
\* ingest call) held it at the same time.
SightedOncePerPlace == \A e \in Observations \ shared : sighted[e] <= Places(e)

\* One standing alert per value, however the passes overlap: the test comes after the
\* update of the indicator, and the row it holds orders the passes.
OneStandingAlert == standing <= 1

\* An indicator seen again becomes active again, whatever stale pass expired it.
SightingRevives == []<>(ioc.fresh /\ ~good => ioc.status = "active")
=============================================================================
