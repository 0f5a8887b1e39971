------------------------------- MODULE LogWatch -------------------------------
(***************************************************************************)
(* The directory watcher (dashboard_api/log_listeners.py): a thread in     *)
(* every replica that remembers, in memory, how far each file has been     *)
(* read, and ingests what was appended while its replica leads.            *)
(*                                                                         *)
(* One watched file on a shared directory; sizes count lines.  A line that *)
(* is read before its newline is written is ingested as two events by the  *)
(* code; the model writes lines whole.  The file is replaced by a shorter  *)
(* one (rotation or truncation: the watcher knows no inodes).  `gen` tells *)
(* contents apart and decides nothing.                                     *)
(*                                                                         *)
(* A definition whose comment begins with (slip) is a mistake the code     *)
(* could have made in the definition that follows it.                      *)
(***************************************************************************)
EXTENDS Integers, FiniteSets

CONSTANTS Watchers,         \* replicas
          WatchGen,         \* bound on how often the content is replaced
          WatchLen,         \* bound on the lines of one content
          MaxWatchFaults,   \* bound on failed ingests and on crashes
          MaxHandovers      \* bound on changes of the leader

ASSUME WatchAssumption ==
  /\ Watchers # {}
  /\ WatchGen \in Nat
  /\ WatchLen \in Nat
  /\ MaxWatchFaults \in Nat
  /\ MaxHandovers \in Nat

VARIABLES
  watched,      \* the file: its content and its lines
  watcher,      \* _watch_loop of each replica: where it is, offsets[path], the lines read
  inCharge,     \* the replica that holds the lease "background"
  seen,         \* how often each line has been ingested
  dropped,      \* lines read and forgotten: their ingest failed or their process died
  hidden,       \* contents that grew past an offset remembered for another content
  watchFaults, handovers

watchVars == <<watched, watcher, inCharge, seen, dropped, hidden, watchFaults, handovers>>

WGens == 0 .. WatchGen
WLines == WGens \X (1 .. WatchLen)

\* gen: the content `off` counts; primed: the size found when the thread started.
Off == [pc |-> "off", gen |-> 0, off |-> 0, start |-> 0, lines |-> {}, primed |-> <<0, 0>>]

WatchTypeOK ==
  /\ watched \in [gen : WGens, len : 0 .. WatchLen]
  /\ watcher \in [Watchers -> [pc     : {"off", "waiting", "leading", "sized", "holding"},
                               gen    : WGens,
                               off    : 0 .. WatchLen,
                               start  : 0 .. WatchLen,
                               lines  : SUBSET WLines,
                               primed : WGens \X (0 .. WatchLen)]]
  /\ inCharge \in Watchers
  /\ seen \in [WLines -> Nat]
  /\ dropped \in SUBSET WLines
  /\ hidden \in SUBSET WGens
  /\ watchFaults \in Nat
  /\ handovers \in Nat

WatchInit ==
  /\ watched = [gen |-> 0, len |-> 0]
  /\ watcher = [w \in Watchers |-> Off]
  /\ inCharge \in Watchers
  /\ seen = [l \in WLines |-> 0]
  /\ dropped = {}
  /\ hidden = {}
  /\ watchFaults = 0
  /\ handovers = 0

WatchFault == watchFaults < MaxWatchFaults /\ watchFaults' = watchFaults + 1

-----------------------------------------------------------------------------
(* The file and the lease *)

\* An offset that counts another content and that the length of f does not betray:
\* the one remembered, or the one a scan is about to read from.
Hides(w, f) == \/ watcher[w].gen # f.gen /\ 0 < watcher[w].off /\ watcher[w].off <= f.len
               \/ watcher[w].pc = "sized" /\ watcher[w].gen # f.gen
                    /\ 0 < watcher[w].start /\ watcher[w].start <= f.len

Change(f) ==
  /\ watched' = f
  /\ hidden' = IF \E w \in Watchers : Hides(w, f) THEN hidden \cup {f.gen} ELSE hidden
  /\ UNCHANGED <<watcher, inCharge, seen, dropped, watchFaults, handovers>>

AppendLine == /\ watched.len < WatchLen
              /\ Change([watched EXCEPT !.len = watched.len + 1])

Replace == /\ watched.gen < WatchGen
           /\ Change([gen |-> watched.gen + 1, len |-> 0])

Handover(w) ==
  /\ w # inCharge
  /\ handovers < MaxHandovers
  /\ handovers' = handovers + 1
  /\ inCharge' = w
  /\ UNCHANGED <<watched, watcher, seen, dropped, hidden, watchFaults>>

-----------------------------------------------------------------------------
(* _watch_loop and scan_log_dir *)

\* Offsets are primed to the end of each file: only what is appended later is new.
EndOfFile == watched.len

StartWatch(w) ==
  /\ watcher[w].pc = "off"
  /\ watcher' = [watcher EXCEPT ![w] =
       [Off EXCEPT !.pc = "waiting", !.gen = watched.gen, !.off = EndOfFile,
                   !.primed = <<watched.gen, watched.len>>]]
  /\ UNCHANGED <<watched, inCharge, seen, dropped, hidden, watchFaults, handovers>>

\* (slip) Every replica scans.
AllLead(w) == TRUE

MayScan(w) == inCharge = w

\* leader.is_leader(), then the scan.
BeginScan(w) ==
  /\ watcher[w].pc = "waiting"
  /\ MayScan(w)
  /\ watcher' = [watcher EXCEPT ![w].pc = "leading"]
  /\ UNCHANGED <<watched, inCharge, seen, dropped, hidden, watchFaults, handovers>>

\* getsize: a shorter file is read from its beginning, an unchanged one not at all.
SizeFile(w) ==
  /\ watcher[w].pc = "leading"
  /\ LET start == IF watched.len < watcher[w].off THEN 0 ELSE watcher[w].off IN
       watcher' = IF watched.len = start
                  THEN [watcher EXCEPT ![w].pc = "waiting"]
                  ELSE [watcher EXCEPT ![w].pc = "sized", ![w].start = start]
  /\ UNCHANGED <<watched, inCharge, seen, dropped, hidden, watchFaults, handovers>>

\* (slip) A bounded read, after which the offset goes to the end of the file.
OneChunk(w) == {<<watched.gen, k>> : k \in {k \in 1 .. watched.len : k = watcher[w].start + 1}}

\* What seek(start) and read return from the file as it is now.
NewLines(w) == {<<watched.gen, k>> : k \in watcher[w].start + 1 .. watched.len}

\* open, seek, read: the offset moves before anything is ingested.  A file that became
\* shorter meanwhile leaves the offset beyond its end and yields nothing.
ReadFile(w) ==
  /\ watcher[w].pc = "sized"
  /\ watcher' = [watcher EXCEPT
       ![w].pc    = IF NewLines(w) = {} THEN "waiting" ELSE "holding",
       ![w].gen   = IF NewLines(w) = {} THEN @ ELSE watched.gen,
       ![w].off   = IF NewLines(w) = {} THEN watcher[w].start ELSE watched.len,
       ![w].lines = NewLines(w),
       ![w].start = 0]
  /\ UNCHANGED <<watched, inCharge, seen, dropped, hidden, watchFaults, handovers>>

\* ingest_lines.
IngestLines(w) ==
  /\ watcher[w].pc = "holding"
  /\ seen' = [l \in WLines |-> IF l \in watcher[w].lines THEN seen[l] + 1 ELSE seen[l]]
  /\ watcher' = [watcher EXCEPT ![w].pc = "waiting", ![w].lines = {}]
  /\ UNCHANGED <<watched, inCharge, dropped, hidden, watchFaults, handovers>>

\* ingest_lines raises: logged, and the offset has moved already.
IngestFails(w) ==
  /\ watcher[w].pc = "holding"
  /\ WatchFault
  /\ dropped' = dropped \cup watcher[w].lines
  /\ watcher' = [watcher EXCEPT ![w].pc = "waiting", ![w].lines = {}]
  /\ UNCHANGED <<watched, inCharge, seen, hidden, handovers>>

WatcherDies(w) ==
  /\ watcher[w].pc # "off"
  /\ WatchFault
  /\ dropped' = dropped \cup watcher[w].lines
  /\ watcher' = [watcher EXCEPT ![w] = Off]
  /\ UNCHANGED <<watched, inCharge, seen, hidden, handovers>>

Watch(w) == StartWatch(w) \/ BeginScan(w) \/ SizeFile(w) \/ ReadFile(w) \/ IngestLines(w)

WatchNext ==
  \/ AppendLine \/ Replace
  \/ \E w \in Watchers : Handover(w) \/ Watch(w) \/ IngestFails(w) \/ WatcherDies(w)

WatchSpec == WatchInit /\ [][WatchNext]_watchVars

-----------------------------------------------------------------------------
(* Properties *)

\* A line some watcher has gone past was ingested, or is in that watcher's hands, or
\* was there before the watcher started, or was lost with a failed ingest or a crash,
\* or its content grew unnoticed past the offset of the one it replaced.
PassedLineAccounted ==
  \A w \in Watchers :
    watcher[w].pc # "off" /\ watcher[w].gen = watched.gen /\ watched.gen \notin hidden =>
      \A k \in 1 .. watcher[w].off :
        LET l == <<watched.gen, k>> IN
          \/ seen[l] > 0
          \/ l \in watcher[w].lines \cup dropped
          \/ watcher[w].primed[1] = watched.gen /\ k <= watcher[w].primed[2]

\* "Only the leader ingests, or every appended line would be ingested N times": a line
\* is ingested once, and once more for each change of the leader at most, however the
\* file is replaced meanwhile.
RepeatsFollowHandover ==
  \A l \in WLines : seen[l] <= 1 + handovers

\* The lines watcher w has gone past, those apart that it holds or that were there when it
\* started.
GonePast(w) ==
  {l \in WLines \ watcher[w].lines :
     /\ watcher[w].pc # "off"
     /\ l[1] = watched.gen /\ l[1] = watcher[w].gen
     /\ l[2] <= watcher[w].off
     /\ ~ (l[1] = watcher[w].primed[1] /\ l[2] <= watcher[w].primed[2])}

FromDirectory == INSTANCE Intake WITH Items   <- WLines,
                                      taken   <- seen,
                                      passed  <- UNION {GonePast(w) : w \in Watchers},
                                      excused <- dropped \cup {l \in WLines : l[1] \in hidden},
                                      mishaps <- handovers

\* The offsets of all replicas together are an intake of lines: they ingest what is
\* appended, the leader alone, or it "would be ingested N times" (_watch_loop, lines
\* 215-230).
WatchTakesIn == FromDirectory!Spec
=============================================================================
