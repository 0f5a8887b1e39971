--------------------------- MODULE MatchingProofs ---------------------------
(***************************************************************************)
(* Proofs about the loops that look for known things in stored events: the *)
(* scheduled hunts (Hunts) and the IOC matching with its decay             *)
(* (IocLifecycle).                                                         *)
(***************************************************************************)
EXTENDS Hunts, IocLifecycle, TLAPS, Counting

-----------------------------------------------------------------------------
(***************************************************************************)
(* Hunts. A run carries two claims besides the one in the table: its       *)
(* `last` (what the table claimed when it was read) and, once the search   *)
(* is over, its `now`, whose events are counted or in `found`. LooksCover  *)
(* says what holds of all three; the history variables take out the events *)
(* a claim came too early for.                                             *)
(***************************************************************************)

Seconds == 0 .. MaxSecond

\* The local variables of a run.
Run == [pc    : {"idle", "begun", "due", "searched"},
        now   : Seconds,
        last  : Never .. MaxSecond,
        found : SUBSET Clues]

-----------------------------------------------------------------------------
(* Types *)

LEMMA HuntRanges ==
  /\ 0 \in Seconds /\ Never \in Never .. MaxSecond
  /\ Seconds \subseteq Never .. MaxSecond
  /\ Seconds \subseteq Nat
  /\ Never .. MaxSecond \subseteq Int
  /\ NoRun \in Run
  BY HuntAssumption DEF Seconds, Never, NoRun, Run

LEMMA HuntTypeInit == HuntInit => HuntTypeOK
  BY HuntRanges, HuntAssumption DEF HuntInit, HuntTypeOK, Seconds, Run

\* A step of one run changes its local variables only.
LEMMA RunStep ==
  ASSUME hunter \in [Hunters -> Run], NEW r \in Hunters, NEW x \in Run,
         hunter' = [hunter EXCEPT ![r] = x]
  PROVE  /\ hunter' \in [Hunters -> Run]
         /\ hunter'[r] = x
         /\ \A s \in Hunters \ {r} : hunter'[s] = hunter[s]
  OBVIOUS

\* A search finds what is new in its page; what is new and not found is in crowded or
\* aged from then on.
LEMMA SearchStep ==
  ASSUME HuntTypeOK, NEW r \in Hunters, Search(r)
  PROVE  \E page \in SUBSET Stored :
           LET new == {e \in Stored : IsNew(e, hunter[r].last)}
               x   == [hunter[r] EXCEPT !.pc = "searched", !.found = new \cap page]
           IN  /\ x \in Run
               /\ x.pc = "searched" /\ x.found = new \cap page
               /\ x.now = hunter[r].now /\ x.last = hunter[r].last
               /\ hunter' = [hunter EXCEPT ![r] = x]
               /\ crowded' = crowded \cup ((new \cap InWindow) \ page)
               /\ aged' = aged \cup (new \ InWindow)
<1> DEFINE new == {e \in Stored : IsNew(e, hunter[r].last)}
<1>1. PICK page \in SUBSET Stored :
        /\ hunter' = [hunter EXCEPT ![r].pc = "searched", ![r].found = new \cap page]
        /\ crowded' = crowded \cup ((new \cap InWindow) \ page)
        /\ aged' = aged \cup (new \ InWindow)
  BY DEF Search
<1> DEFINE x == [hunter[r] EXCEPT !.pc = "searched", !.found = new \cap page]
<1>2. new \cap page \in SUBSET Clues
  BY DEF Stored
<1>3. hunter[r] \in Run
  BY DEF HuntTypeOK, Run, Seconds
<1>4. /\ x \in Run /\ x.pc = "searched" /\ x.found = new \cap page
      /\ x.now = hunter[r].now /\ x.last = hunter[r].last
  <2> HIDE DEF new
  <2> QED BY <1>2, <1>3 DEF Run
<1>5. hunter' = [hunter EXCEPT ![r] = x]
  BY <1>1
<1> QED BY <1>1, <1>4, <1>5

LEMMA HuntTypeStep == HuntTypeOK /\ [HuntNext]_huntVars => HuntTypeOK'
<1> SUFFICES ASSUME HuntTypeOK, [HuntNext]_huntVars PROVE HuntTypeOK'
  OBVIOUS
<1>a. hunter \in [Hunters -> Run] /\ second \in Seconds /\ lastLook \in Never .. MaxSecond
  BY DEF HuntTypeOK, Run, Seconds
<1>1. CASE Second
  <2>1. second' \in Seconds
    BY <1>1, <1>a, HuntAssumption DEF Second, Seconds
  <2> QED BY <1>1, <2>1 DEF Second, HuntTypeOK, Seconds
<1>2. ASSUME NEW e \in Clues, DateClue(e) \/ StoreClue(e) PROVE HuntTypeOK'
  BY <1>2 DEF DateClue, StoreClue, HuntTypeOK
<1>3. ASSUME NEW r \in Hunters, HuntMove(r) PROVE HuntTypeOK'
  BY <1>3 DEF HuntMove, HuntTypeOK
<1>4. ASSUME NEW r \in Hunters, BeginRun(r) \/ AskRun(r) \/ ReadHunt(r) \/ AbortRun(r)
      PROVE  HuntTypeOK'
  <2>1. [NoRun EXCEPT !.pc = "begun", !.now = second] \in Run
    BY <1>a, HuntRanges DEF NoRun, Run
  <2>2. [hunter[r] EXCEPT !.pc = "due", !.last = lastLook] \in Run
    BY <1>a DEF Run
  <2>3. \E x \in Run : hunter' = [hunter EXCEPT ![r] = x]
    <3>1. CASE BeginRun(r) \/ AskRun(r)
      BY <2>1, <3>1 DEF BeginRun, AskRun
    <3>2. CASE ReadHunt(r)
      BY <2>2, <3>2, HuntRanges DEF ReadHunt
    <3>3. CASE AbortRun(r)
      BY <3>3, HuntRanges DEF AbortRun
    <3> QED BY <1>4, <3>1, <3>2, <3>3
  <2>4. hunter' \in [Hunters -> Run]
    BY <1>a, <2>3, RunStep
  <2>5. strays' \in Nat
    BY <1>4 DEF BeginRun, AskRun, ReadHunt, AbortRun, HuntTypeOK
  <2> QED BY <1>4, <2>4, <2>5 DEF BeginRun, AskRun, ReadHunt, AbortRun, HuntTypeOK, Run, Seconds
<1>5. ASSUME NEW r \in Hunters, Search(r) PROVE HuntTypeOK'
  <2> DEFINE new == {e \in Stored : IsNew(e, hunter[r].last)}
  <2>1. hunter' \in [Hunters -> Run] /\ crowded' \in SUBSET Clues /\ aged' \in SUBSET Clues
    <3>1. PICK x \in Run, page \in SUBSET Stored :
            /\ hunter' = [hunter EXCEPT ![r] = x]
            /\ crowded' = crowded \cup ((new \cap InWindow) \ page)
            /\ aged' = aged \cup (new \ InWindow)
      BY <1>5, SearchStep
    <3>2. crowded' \in SUBSET Clues /\ aged' \in SUBSET Clues
      BY <3>1 DEF HuntTypeOK, Stored
    <3> QED BY <1>a, <3>1, <3>2, RunStep
  <2> QED BY <1>5, <2>1 DEF Search, HuntTypeOK, Run, Seconds
<1>6. ASSUME NEW r \in Hunters, FinishRun(r) PROVE HuntTypeOK'
  <2>1. hunter' \in [Hunters -> Run]
    BY <1>a, <1>6, HuntRanges, RunStep DEF FinishRun
  <2>2. lastLook' \in Never .. MaxSecond
    BY <1>a, <1>6, HuntRanges DEF FinishRun, Stamp, Run
  <2>3. counted' \in [Clues -> Nat]
    BY <1>6 DEF FinishRun, HuntTypeOK
  <2> QED BY <1>6, <2>1, <2>2, <2>3 DEF FinishRun, HuntTypeOK, Run, Seconds
<1>7. CASE UNCHANGED huntVars
  BY <1>7 DEF huntVars, HuntTypeOK
<1> QED BY <1>1, <1>2, <1>3, <1>4, <1>5, <1>6, <1>7 DEF HuntNext

\* Type correctness of the hunts' state.
THEOREM HuntTypes == HuntSpec => []HuntTypeOK
<1> QED BY HuntTypeInit, HuntTypeStep, PTL DEF HuntSpec

-----------------------------------------------------------------------------
(* NewsReported *)

\* The stored events a claim is about.
OwedNews == Stored \ (belated \cup crowded \cup aged)

\* What a run that has read the table believes, and what its search adds to it.
LooksCover ==
  \A r \in Hunters, e \in OwedNews :
    /\ hunter[r].pc \in {"due", "searched"} /\ clue[e].ts <= hunter[r].last => counted[e] > 0
    /\ hunter[r].pc = "searched" /\ clue[e].ts <= hunter[r].now
         => counted[e] > 0 \/ e \in hunter[r].found

HuntIInv == NewsReported /\ LooksCover

LEMMA NewsInit == HuntInit => HuntIInv
  BY DEF HuntInit, HuntIInv, NewsReported, LooksCover, OwedNews, Stored

\* The claims of one run may change; the events and the table do not.
LEMMA OneRun ==
  ASSUME HuntTypeOK, HuntIInv, NEW r \in Hunters, NEW x \in Run,
         hunter' = [hunter EXCEPT ![r] = x],
         \A e \in OwedNews : /\ x.pc \in {"due", "searched"} /\ clue[e].ts <= x.last => counted[e] > 0
                             /\ x.pc # "searched",
         UNCHANGED <<clue, lastLook, counted, belated, crowded, aged>>
  PROVE  HuntIInv'
<1>1. OwedNews' = OwedNews /\ Stored' = Stored
  BY DEF OwedNews, Stored
<1>2. NewsReported'
  BY <1>1 DEF HuntIInv, NewsReported, OwedNews
<1>3. hunter'[r] = x /\ \A s \in Hunters \ {r} : hunter'[s] = hunter[s]
  BY RunStep DEF HuntTypeOK, Run, Seconds
<1>4. LooksCover'
  <2> SUFFICES ASSUME NEW s \in Hunters, NEW e \in OwedNews
               PROVE  /\ hunter'[s].pc \in {"due", "searched"} /\ clue[e].ts <= hunter'[s].last
                           => counted[e] > 0
                      /\ hunter'[s].pc = "searched" /\ clue[e].ts <= hunter'[s].now
                           => counted[e] > 0 \/ e \in hunter'[s].found
    BY <1>1 DEF LooksCover
  <2>1. CASE s = r
    BY <1>3, <2>1
  <2>2. CASE s # r
    BY <1>3, <2>2 DEF HuntIInv, LooksCover
  <2> QED BY <2>1, <2>2
<1> QED BY <1>2, <1>4 DEF HuntIInv

LEMMA NewsStep == HuntTypeOK /\ HuntIInv /\ [HuntNext]_huntVars => HuntIInv'
<1> SUFFICES ASSUME HuntTypeOK, HuntIInv, [HuntNext]_huntVars PROVE HuntIInv'
  OBVIOUS
<1>a. /\ hunter \in [Hunters -> Run] /\ lastLook \in Int
      /\ \A e \in Clues : clue[e].ts \in Nat
      /\ \A e \in Clues : counted[e] \in Nat
  BY HuntRanges DEF HuntTypeOK, Run, Seconds
<1>b. \A r \in Hunters : hunter[r] \in Run
  BY <1>a
<1>1. CASE Second \/ UNCHANGED huntVars \/ (\E r \in Hunters : HuntMove(r))
  <2>1. UNCHANGED <<clue, lastLook, hunter, counted, belated, crowded, aged>>
    BY <1>1 DEF Second, huntVars, HuntMove
  <2> QED BY <2>1 DEF HuntIInv, NewsReported, LooksCover, OwedNews, Stored
<1>2. ASSUME NEW e \in Clues, DateClue(e) PROVE HuntIInv'
  <2>1. \A f \in Clues \ {e} : clue'[f] = clue[f]
    BY <1>2 DEF DateClue, HuntTypeOK
  <2>2. clue[e].at = "nowhere" /\ clue'[e].at = "ingest"
    BY <1>2 DEF DateClue, HuntTypeOK
  <2>3. UNCHANGED <<lastLook, hunter, counted, belated, crowded, aged>>
    BY <1>2 DEF DateClue
  <2>4. OwedNews' = OwedNews /\ Stored' = Stored /\ \A f \in Stored : clue'[f].ts = clue[f].ts
    BY <2>1, <2>2, <2>3 DEF OwedNews, Stored
  <2> QED BY <2>3, <2>4 DEF HuntIInv, NewsReported, LooksCover, OwedNews
<1>3. ASSUME NEW e \in Clues, StoreClue(e) PROVE HuntIInv'
  <2>1. /\ \A f \in Clues : clue'[f].ts = clue[f].ts
        /\ \A f \in Clues \ {e} : clue'[f] = clue[f]
    BY <1>3 DEF StoreClue, HuntTypeOK
  <2>2. UNCHANGED <<lastLook, hunter, counted, crowded, aged>> /\ belated \subseteq belated'
    BY <1>3 DEF StoreClue
  <2>3. \A f \in OwedNews' : f \in OwedNews \/ (f = e /\ ~Covered(clue[e].ts))
    BY <1>3, <2>1, <2>2 DEF StoreClue, OwedNews, Stored
  <2>4. NewsReported'
    <3> SUFFICES ASSUME NEW f \in OwedNews', clue[f].ts <= lastLook PROVE counted[f] > 0
      BY <2>1, <2>2 DEF NewsReported, OwedNews, Stored
    <3>1. f \in OwedNews
      BY <2>3 DEF Covered
    <3> QED BY <3>1 DEF HuntIInv, NewsReported, OwedNews
  <2>5. LooksCover'
    <3> SUFFICES ASSUME NEW s \in Hunters, NEW f \in OwedNews'
                 PROVE  /\ hunter[s].pc \in {"due", "searched"} /\ clue[f].ts <= hunter[s].last
                             => counted[f] > 0
                        /\ hunter[s].pc = "searched" /\ clue[f].ts <= hunter[s].now
                             => counted[f] > 0 \/ f \in hunter[s].found
      BY <2>1, <2>2 DEF LooksCover, OwedNews, Stored
    <3>1. CASE f \in OwedNews
      BY <3>1 DEF HuntIInv, LooksCover
    <3>2. CASE f = e /\ ~Covered(clue[e].ts)
      BY <3>2 DEF Covered
    <3> QED BY <2>3, <3>1, <3>2
  <2> QED BY <2>4, <2>5 DEF HuntIInv
<1>4. ASSUME NEW r \in Hunters, BeginRun(r) \/ AskRun(r) PROVE HuntIInv'
  <2> DEFINE x == [NoRun EXCEPT !.pc = "begun", !.now = second]
  <2>1. x \in Run /\ x.pc = "begun"
    BY HuntRanges DEF NoRun, Run, HuntTypeOK, Seconds
  <2>2. hunter' = [hunter EXCEPT ![r] = x] /\ UNCHANGED <<clue, lastLook, counted, belated, crowded, aged>>
    BY <1>4 DEF BeginRun, AskRun
  <2> HIDE DEF x
  <2> QED BY <2>1, <2>2, OneRun
<1>5. ASSUME NEW r \in Hunters, ReadHunt(r) PROVE HuntIInv'
  <2>0. UNCHANGED <<clue, lastLook, counted, belated, crowded, aged>>
    BY <1>5 DEF ReadHunt
  <2>1. CASE hunter' = [hunter EXCEPT ![r] = NoRun]
    BY <2>0, <2>1, HuntRanges, OneRun DEF NoRun
  <2>2. CASE hunter' = [hunter EXCEPT ![r] = [@ EXCEPT !.pc = "due", !.last = lastLook]]
    <3> DEFINE x == [hunter[r] EXCEPT !.pc = "due", !.last = lastLook]
    <3>1. x \in Run /\ x.pc = "due" /\ x.last = lastLook
      BY <1>b DEF HuntTypeOK, Run
    <3>2. hunter' = [hunter EXCEPT ![r] = x]
      BY <2>2
    <3>3. \A e \in OwedNews : clue[e].ts <= lastLook => counted[e] > 0
      BY DEF HuntIInv, NewsReported, OwedNews
    <3> HIDE DEF x
    <3> QED BY <2>0, <3>1, <3>2, <3>3, OneRun
  <2> QED BY <1>5, <2>1, <2>2 DEF ReadHunt
<1>6. ASSUME NEW r \in Hunters, AbortRun(r) PROVE HuntIInv'
  <2>1. NoRun.pc = "idle"
    BY DEF NoRun
  <2>2. hunter' = [hunter EXCEPT ![r] = NoRun] /\ UNCHANGED <<clue, lastLook, counted, belated, crowded, aged>>
    BY <1>6 DEF AbortRun
  <2> QED BY <2>1, <2>2, HuntRanges, OneRun
<1>7. ASSUME NEW r \in Hunters, Search(r) PROVE HuntIInv'
  <2> DEFINE new == {e \in Stored : IsNew(e, hunter[r].last)}
  <2>1. PICK x \in Run, page \in SUBSET Stored :
          /\ x.pc = "searched" /\ x.found = new \cap page
          /\ x.now = hunter[r].now /\ x.last = hunter[r].last
          /\ hunter' = [hunter EXCEPT ![r] = x]
          /\ crowded' = crowded \cup ((new \cap InWindow) \ page)
          /\ aged' = aged \cup (new \ InWindow)
    BY <1>7, SearchStep
  <2>2. hunter[r].pc = "due" /\ UNCHANGED <<clue, lastLook, counted, belated>>
    BY <1>7 DEF Search
  <2>3. Stored' = Stored /\ OwedNews' \subseteq OwedNews
    BY <2>1, <2>2 DEF OwedNews, Stored
  <2>4. hunter'[r] = x /\ \A s \in Hunters \ {r} : hunter'[s] = hunter[s]
    BY <1>a, <2>1, RunStep
  <2>5. NewsReported'
    BY <2>2, <2>3 DEF HuntIInv, NewsReported, OwedNews
  <2>6. \A e \in OwedNews' : clue[e].ts <= x.last => counted[e] > 0
    BY <2>1, <2>2, <2>3 DEF HuntIInv, LooksCover
  <2>7. \A e \in OwedNews' : e \in x.found \/ clue[e].ts <= x.last
    <3> SUFFICES ASSUME NEW e \in OwedNews', ~(clue[e].ts <= x.last) PROVE e \in x.found
      OBVIOUS
    <3>1. clue[e].ts \in Nat /\ x.last \in Int
      BY <1>a, HuntRanges DEF OwedNews, Stored, Run
    <3>2. IsNew(e, hunter[r].last)
      BY <2>1, <3>1 DEF IsNew
    <3>3. e \in Stored /\ e \notin crowded' /\ e \notin aged'
      BY <2>3 DEF OwedNews
    <3> QED BY <2>1, <3>2, <3>3
  <2>8. LooksCover'
    <3> SUFFICES ASSUME NEW s \in Hunters, NEW e \in OwedNews'
                 PROVE  /\ hunter'[s].pc \in {"due", "searched"} /\ clue[e].ts <= hunter'[s].last
                             => counted[e] > 0
                        /\ hunter'[s].pc = "searched" /\ clue[e].ts <= hunter'[s].now
                             => counted[e] > 0 \/ e \in hunter'[s].found
      BY <2>2 DEF LooksCover
    <3>1. CASE s = r
      BY <2>4, <2>6, <2>7, <3>1
    <3>2. CASE s # r
      BY <2>3, <2>4, <3>2 DEF HuntIInv, LooksCover
    <3> QED BY <3>1, <3>2
  <2> QED BY <2>5, <2>8 DEF HuntIInv
<1>8. ASSUME NEW r \in Hunters, FinishRun(r) PROVE HuntIInv'
  <2>1. /\ hunter[r].pc = "searched" /\ lastLook' = hunter[r].now
        /\ UNCHANGED <<clue, belated, crowded, aged>>
    BY <1>8 DEF FinishRun, Stamp
  <2>2. \A e \in Clues : /\ counted[e] > 0 => counted'[e] > 0
                         /\ e \in hunter[r].found => counted'[e] > 0
    BY <1>8, <1>a DEF FinishRun
  <2>3. hunter'[r] = NoRun /\ \A s \in Hunters \ {r} : hunter'[s] = hunter[s]
    BY <1>8, <1>a, HuntRanges, RunStep DEF FinishRun
  <2>4. Stored' = Stored /\ OwedNews' = OwedNews /\ OwedNews \subseteq Clues
    BY <2>1 DEF OwedNews, Stored
  <2>5. NewsReported'
    <3> SUFFICES ASSUME NEW e \in OwedNews, clue[e].ts <= hunter[r].now PROVE counted'[e] > 0
      BY <2>1, <2>4 DEF NewsReported, OwedNews
    <3>1. counted[e] > 0 \/ e \in hunter[r].found
      BY <2>1 DEF HuntIInv, LooksCover
    <3> QED BY <2>2, <2>4, <3>1
  <2>6. LooksCover'
    <3> SUFFICES ASSUME NEW s \in Hunters, NEW e \in OwedNews
                 PROVE  /\ hunter'[s].pc \in {"due", "searched"} /\ clue[e].ts <= hunter'[s].last
                             => counted'[e] > 0
                        /\ hunter'[s].pc = "searched" /\ clue[e].ts <= hunter'[s].now
                             => counted'[e] > 0 \/ e \in hunter'[s].found
      BY <2>1, <2>4 DEF LooksCover
    <3>1. CASE s = r
      BY <2>3, <3>1 DEF NoRun
    <3>2. CASE s # r
      BY <2>2, <2>3, <2>4, <3>2 DEF HuntIInv, LooksCover
    <3> QED BY <3>1, <3>2
  <2> QED BY <2>5, <2>6 DEF HuntIInv
<1> QED BY <1>1, <1>2, <1>3, <1>4, <1>5, <1>6, <1>7, <1>8 DEF HuntNext

\* Every event of a second a scheduled hunt counts as looked at has been in an alert,
\* except those committed after that look, left out of a full page, or older than the
\* window of a search: for any number of loops and requests whose runs overlap, wherever
\* a run is cut short, and for every schedule, shorter than the window or longer.
THEOREM NewsTheorem == HuntSpec => []NewsReported
<1>1. HuntIInv => NewsReported
  BY DEF HuntIInv
<1> QED BY <1>1, NewsInit, NewsStep, HuntTypes, PTL DEF HuntSpec

-----------------------------------------------------------------------------
(* RepeatsBounded *)

\* Runs under way beside the leader's.
Beside == {r \in Hunters \ {huntLead} : hunter[r].pc # "idle"}

\* Nothing is dated later than the clock, and an event is found after it is dated.
Dated ==
  /\ \A r \in Hunters : hunter[r].now <= second
  /\ \A e \in Clues : clue[e].ts <= second
  /\ \A e \in Clues : clue[e].at = "nowhere" =>
       counted[e] = 0 /\ \A r \in Hunters : e \notin hunter[r].found

\* A run begun before e was dated: when it ends, the table says again that e is new.
Early(r, e) == hunter[r].pc # "idle" /\ hunter[r].now < clue[e].ts

\* A run that has read the table and will count e, for all it knows.
Owing(r, e) == \/ hunter[r].pc = "due" /\ hunter[r].last < clue[e].ts
               \/ hunter[r].pc = "searched" /\ e \in hunter[r].found

\* r may count e before anybody writes the table again; the leader, also with a run it
\* has not begun.
MayCount(r, e) ==
  IF Early(r, e) THEN hunter[r].pc \in {"begun", "due"} \/ e \in hunter[r].found
  ELSE \/ Owing(r, e)
       \/ r # huntLead /\ hunter[r].pc = "begun"
       \/ r = huntLead /\ lastLook < clue[e].ts

Resetters(e) == {r \in Hunters : Early(r, e)}
Counters(e)  == {r \in Hunters : MayCount(r, e)}

\* A run beside the leader's is paid for by a stray, and so is every count of e: those
\* made, those a run may still make, and those a run may call for when it ends.
RunsPaid == IsFiniteSet(Beside) /\ Cardinality(Beside) <= strays
CountsPaid ==
  \A e \in Clues : clue[e].at # "nowhere" =>
    counted[e] + Cardinality(Counters(e)) + Cardinality(Resetters(e)) <= 2 + 2 * strays

HuntCountInv == HuntTypeOK /\ Dated /\ RunsPaid /\ CountsPaid

LEMMA HuntNums ==
  HuntTypeOK => /\ second \in Nat /\ lastLook \in Int /\ strays \in Nat
                /\ \A e \in Clues : clue[e].ts \in Nat /\ counted[e] \in Nat
                /\ \A r \in Hunters : hunter[r].now \in Nat /\ hunter[r].last \in Int
  BY HuntRanges DEF HuntTypeOK, Seconds

LEMMA NoRunFields == NoRun.pc = "idle" /\ NoRun.now = 0 /\ NoRun.found = {}
  BY DEF NoRun

\* What each step of a run changes, field by field.
LEMMA RunEffects ==
  ASSUME HuntTypeOK, NEW r \in Hunters
  PROVE  /\ BeginRun(r) \/ AskRun(r) =>
              /\ hunter[r].pc = "idle"
              /\ hunter'[r].pc = "begun" /\ hunter'[r].now = second /\ hunter'[r].found = {}
              /\ \A s \in Hunters \ {r} : hunter'[s] = hunter[s]
         /\ ReadHunt(r) =>
              /\ hunter[r].pc = "begun"
              /\ \/ hunter'[r] = NoRun
                 \/ /\ hunter'[r].pc = "due" /\ hunter'[r].last = lastLook
                    /\ hunter'[r].now = hunter[r].now /\ hunter'[r].found = hunter[r].found
              /\ \A s \in Hunters \ {r} : hunter'[s] = hunter[s]
         /\ Search(r) =>
              /\ hunter[r].pc = "due"
              /\ hunter'[r].pc = "searched"
              /\ hunter'[r].now = hunter[r].now /\ hunter'[r].last = hunter[r].last
              /\ \A e \in hunter'[r].found : /\ e \in Clues /\ clue[e].at = "stored"
                                             /\ hunter[r].last < clue[e].ts
              /\ \A s \in Hunters \ {r} : hunter'[s] = hunter[s]
         /\ FinishRun(r) \/ AbortRun(r) =>
              /\ hunter'[r] = NoRun
              /\ \A s \in Hunters \ {r} : hunter'[s] = hunter[s]
<1>a. hunter \in [Hunters -> Run]
  BY DEF HuntTypeOK, Run, Seconds
<1>b. hunter[r] \in Run /\ second \in Seconds /\ lastLook \in Never .. MaxSecond
  BY <1>a DEF HuntTypeOK, Seconds
<1>1. ASSUME BeginRun(r) \/ AskRun(r)
      PROVE  /\ hunter[r].pc = "idle"
             /\ hunter'[r].pc = "begun" /\ hunter'[r].now = second /\ hunter'[r].found = {}
             /\ \A s \in Hunters \ {r} : hunter'[s] = hunter[s]
  <2> DEFINE x == [NoRun EXCEPT !.pc = "begun", !.now = second]
  <2>1. x \in Run /\ x.pc = "begun" /\ x.now = second /\ x.found = {}
    BY <1>b, HuntRanges DEF NoRun, Run
  <2>2. hunter' = [hunter EXCEPT ![r] = x] /\ hunter[r].pc = "idle"
    BY <1>1 DEF BeginRun, AskRun
  <2> HIDE DEF x
  <2> QED BY <1>a, <2>1, <2>2, RunStep
<1>2. ASSUME ReadHunt(r)
      PROVE  /\ hunter[r].pc = "begun"
             /\ \/ hunter'[r] = NoRun
                \/ /\ hunter'[r].pc = "due" /\ hunter'[r].last = lastLook
                   /\ hunter'[r].now = hunter[r].now /\ hunter'[r].found = hunter[r].found
             /\ \A s \in Hunters \ {r} : hunter'[s] = hunter[s]
  <2> DEFINE x == [hunter[r] EXCEPT !.pc = "due", !.last = lastLook]
  <2>1. /\ x \in Run /\ x.pc = "due" /\ x.last = lastLook
        /\ x.now = hunter[r].now /\ x.found = hunter[r].found
    BY <1>b DEF Run
  <2>2. /\ hunter[r].pc = "begun"
        /\ hunter' = [hunter EXCEPT ![r] = x] \/ hunter' = [hunter EXCEPT ![r] = NoRun]
    BY <1>2 DEF ReadHunt
  <2> HIDE DEF x
  <2> QED BY <1>a, <2>1, <2>2, RunStep, HuntRanges
<1>3. ASSUME Search(r)
      PROVE  /\ hunter[r].pc = "due"
             /\ hunter'[r].pc = "searched"
             /\ hunter'[r].now = hunter[r].now /\ hunter'[r].last = hunter[r].last
             /\ \A e \in hunter'[r].found : /\ e \in Clues /\ clue[e].at = "stored"
                                            /\ hunter[r].last < clue[e].ts
             /\ \A s \in Hunters \ {r} : hunter'[s] = hunter[s]
  <2>1. PICK page \in SUBSET Stored, x \in Run :
          /\ x.pc = "searched"
          /\ x.found = {e \in Stored : IsNew(e, hunter[r].last)} \cap page
          /\ x.now = hunter[r].now /\ x.last = hunter[r].last
          /\ hunter' = [hunter EXCEPT ![r] = x]
    BY <1>3, SearchStep
  <2>2. hunter'[r] = x /\ \A s \in Hunters \ {r} : hunter'[s] = hunter[s]
    BY <1>a, <2>1, RunStep
  <2>3. ASSUME NEW e \in x.found
        PROVE  e \in Clues /\ clue[e].at = "stored" /\ hunter[r].last < clue[e].ts
    <3>1. e \in Clues /\ clue[e].at = "stored" /\ clue[e].ts > hunter[r].last
      BY <2>1, <2>3 DEF Stored, IsNew
    <3> QED BY <3>1, HuntNums
  <2>4. hunter[r].pc = "due"
    BY <1>3 DEF Search
  <2> QED BY <2>1, <2>2, <2>3, <2>4
<1>4. ASSUME FinishRun(r) \/ AbortRun(r)
      PROVE  /\ hunter'[r] = NoRun
             /\ \A s \in Hunters \ {r} : hunter'[s] = hunter[s]
  BY <1>a, <1>4 DEF FinishRun, AbortRun
<1> QED BY <1>1, <1>2, <1>3, <1>4

LEMMA DatedStep == HuntTypeOK /\ Dated /\ [HuntNext]_huntVars => Dated'
<1> SUFFICES ASSUME HuntTypeOK, Dated, [HuntNext]_huntVars PROVE Dated'
  OBVIOUS
<1>n. /\ second \in Nat
      /\ \A e \in Clues : clue[e].ts \in Nat
      /\ \A r \in Hunters : hunter[r].now \in Nat
  BY HuntNums
<1>1. CASE Second
  <2>1. second' = second + 1 /\ hunter' = hunter /\ clue' = clue /\ counted' = counted
    BY <1>1 DEF Second
  <2> QED BY <1>n, <2>1 DEF Dated
<1>2. ASSUME NEW f \in Clues, DateClue(f) PROVE Dated'
  <2>1. /\ clue'[f].at = "ingest" /\ clue'[f].ts = second
        /\ \A e \in Clues \ {f} : clue'[e] = clue[e]
        /\ hunter' = hunter /\ counted' = counted /\ second' = second
    BY <1>2 DEF DateClue, HuntTypeOK
  <2> QED BY <1>n, <2>1 DEF Dated
<1>3. ASSUME NEW f \in Clues, StoreClue(f) PROVE Dated'
  <2>1. /\ \A e \in Clues : clue'[e].ts = clue[e].ts
        /\ \A e \in Clues : clue'[e].at = "nowhere" => clue[e].at = "nowhere"
        /\ hunter' = hunter /\ counted' = counted /\ second' = second
    BY <1>3 DEF StoreClue, HuntTypeOK
  <2> QED BY <2>1 DEF Dated
<1>4. CASE UNCHANGED huntVars \/ \E r \in Hunters : HuntMove(r)
  <2>1. UNCHANGED <<hunter, clue, counted, second>>
    BY <1>4 DEF huntVars, HuntMove
  <2> QED BY <2>1 DEF Dated
\* A run finds nothing but dated events, and is dated now.
<1>5. ASSUME NEW r \in Hunters, second' = second, clue' = clue,
             \A s \in Hunters \ {r} : hunter'[s] = hunter[s],
             hunter'[r].now \in {0, second, hunter[r].now},
             \A e \in Clues : clue[e].at = "nowhere" =>
               counted'[e] = 0 /\ e \notin hunter'[r].found
      PROVE  Dated'
  BY <1>n, <1>5 DEF Dated
<1>6. ASSUME NEW r \in Hunters, BeginRun(r) \/ AskRun(r) PROVE Dated'
  <2>1. second' = second /\ clue' = clue /\ counted' = counted
    BY <1>6 DEF BeginRun, AskRun
  <2>2. /\ hunter'[r].now = second /\ hunter'[r].found = {}
        /\ \A s \in Hunters \ {r} : hunter'[s] = hunter[s]
    BY <1>6, RunEffects
  <2> QED BY <1>5, <2>1, <2>2 DEF Dated
<1>7. ASSUME NEW r \in Hunters, ReadHunt(r) PROVE Dated'
  <2>1. second' = second /\ clue' = clue /\ counted' = counted
    BY <1>7 DEF ReadHunt
  <2>2. /\ hunter'[r].now \in {0, hunter[r].now}
        /\ hunter'[r].found \in {{}, hunter[r].found}
        /\ \A s \in Hunters \ {r} : hunter'[s] = hunter[s]
    BY <1>7, RunEffects, NoRunFields
  <2> QED BY <1>5, <2>1, <2>2 DEF Dated
<1>8. ASSUME NEW r \in Hunters, Search(r) PROVE Dated'
  <2>1. second' = second /\ clue' = clue /\ counted' = counted
    BY <1>8 DEF Search
  <2>2. /\ hunter'[r].now = hunter[r].now
        /\ \A e \in hunter'[r].found : clue[e].at = "stored"
        /\ \A s \in Hunters \ {r} : hunter'[s] = hunter[s]
    BY <1>8, RunEffects
  <2> QED BY <1>5, <2>1, <2>2 DEF Dated
<1>9. ASSUME NEW r \in Hunters, FinishRun(r) \/ AbortRun(r) PROVE Dated'
  <2>1. second' = second /\ clue' = clue
    BY <1>9 DEF FinishRun, AbortRun
  <2>2. /\ hunter'[r].now = 0 /\ hunter'[r].found = {}
        /\ \A s \in Hunters \ {r} : hunter'[s] = hunter[s]
    BY <1>9, RunEffects, NoRunFields
  <2>3. \A e \in Clues : e \notin hunter[r].found => counted'[e] = counted[e]
    BY <1>9 DEF FinishRun, AbortRun
  <2> QED BY <1>5, <2>1, <2>2, <2>3 DEF Dated
<1> QED BY <1>1, <1>2, <1>3, <1>4, <1>6, <1>7, <1>8, <1>9 DEF HuntNext

\* A run beside the leader's begins with a stray.
LEMMA RunsPaidStep == HuntTypeOK /\ RunsPaid /\ [HuntNext]_huntVars => RunsPaid'
<1> SUFFICES ASSUME HuntTypeOK, RunsPaid, [HuntNext]_huntVars PROVE RunsPaid'
  OBVIOUS
<1>0. IsFiniteSet(Beside) /\ Cardinality(Beside) <= strays /\ strays \in Nat
  BY HuntNums DEF RunsPaid
<1>1. ASSUME Beside' \subseteq Beside, strays' = strays PROVE RunsPaid'
  BY <1>0, <1>1, CountNoMore DEF RunsPaid
<1>2. ASSUME NEW r, Beside' \subseteq Beside \cup {r}, strays' = strays + 1 PROVE RunsPaid'
  <2>1. /\ IsFiniteSet(Beside') /\ Cardinality(Beside') \in Nat /\ Cardinality(Beside) \in Nat
        /\ Cardinality(Beside') <= Cardinality(Beside) + 1
    BY <1>0, <1>2, CountOneMore
  <2>2. Cardinality(Beside') <= strays'
    BY <1>0, <1>2, <2>1
  <2> QED BY <2>1, <2>2 DEF RunsPaid
<1>3. CASE \/ Second \/ UNCHANGED huntVars
           \/ \E e \in Clues : DateClue(e) \/ StoreClue(e)
  <2>1. UNCHANGED <<hunter, huntLead, strays>>
    BY <1>3 DEF Second, huntVars, DateClue, StoreClue
  <2> QED BY <1>1, <2>1 DEF Beside
<1>4. ASSUME NEW r \in Hunters, HuntMove(r) PROVE RunsPaid'
  <2>1. hunter' = hunter /\ strays' = strays + 1
    BY <1>4 DEF HuntMove
  <2>2. Beside' \subseteq Beside \cup {huntLead}
    BY <2>1 DEF Beside
  <2> QED BY <1>2, <2>1, <2>2
<1>5. ASSUME NEW r \in Hunters, AskRun(r) PROVE RunsPaid'
  <2>1. huntLead' = huntLead /\ strays' = strays + 1
    BY <1>5 DEF AskRun
  <2>2. Beside' \subseteq Beside \cup {r}
    BY <1>5, <2>1, RunEffects DEF Beside
  <2> QED BY <1>2, <2>1, <2>2
<1>6. ASSUME NEW r \in Hunters, BeginRun(r) PROVE RunsPaid'
  <2>1. huntLead' = huntLead /\ strays' = strays /\ huntLead = r
    BY <1>6 DEF BeginRun
  <2>2. Beside' \subseteq Beside
    BY <1>6, <2>1, RunEffects DEF Beside
  <2> QED BY <1>1, <2>1, <2>2
<1>7. ASSUME NEW r \in Hunters, ReadHunt(r) \/ Search(r) \/ FinishRun(r) \/ AbortRun(r)
      PROVE  RunsPaid'
  <2>1. huntLead' = huntLead /\ strays' = strays /\ hunter[r].pc # "idle"
    BY <1>7 DEF ReadHunt, Search, FinishRun, AbortRun
  <2>2. \A s \in Hunters \ {r} : hunter'[s] = hunter[s]
    BY <1>7, RunEffects
  <2>3. Beside' \subseteq Beside
    BY <2>1, <2>2 DEF Beside
  <2> QED BY <1>1, <2>1, <2>3
<1> QED BY <1>3, <1>4, <1>5, <1>6, <1>7 DEF HuntNext

\* Only the leader and the runs beside it can count or call for a count.
LEMMA HuntFinite ==
  ASSUME HuntTypeOK, RunsPaid, NEW e \in Clues
  PROVE  /\ IsFiniteSet(Counters(e)) /\ IsFiniteSet(Resetters(e))
         /\ Cardinality(Counters(e)) \in Nat /\ Cardinality(Resetters(e)) \in Nat
         /\ Cardinality(Counters(e)) <= strays + 1
         /\ Cardinality(Resetters(e)) <= strays + 1
<1>1. IsFiniteSet(Beside) /\ Cardinality(Beside) <= strays /\ strays \in Nat
  BY HuntNums DEF RunsPaid
<1>2. Counters(e) \subseteq Beside \cup {huntLead}
  BY DEF Counters, MayCount, Owing, Early, Beside
<1>3. Resetters(e) \subseteq Beside \cup {huntLead}
  BY DEF Resetters, Early, Beside
<1>4. /\ IsFiniteSet(Counters(e)) /\ Cardinality(Counters(e)) \in Nat
      /\ Cardinality(Counters(e)) <= Cardinality(Beside) + 1 /\ Cardinality(Beside) \in Nat
  BY <1>1, <1>2, CountOneMore
<1>5. /\ IsFiniteSet(Resetters(e)) /\ Cardinality(Resetters(e)) \in Nat
      /\ Cardinality(Resetters(e)) <= Cardinality(Beside) + 1
  BY <1>1, <1>3, CountOneMore
<1> QED BY <1>1, <1>4, <1>5

FewRuns == \A e \in Clues : /\ Cardinality(Counters(e)) \in Nat
                            /\ Cardinality(Resetters(e)) \in Nat
                            /\ Cardinality(Counters(e)) <= strays + 1
                            /\ Cardinality(Resetters(e)) <= strays + 1

LEMMA FewRunsNow == HuntTypeOK /\ RunsPaid => FewRuns
  BY HuntFinite DEF FewRuns

LEMMA FewRunsNext == HuntTypeOK' /\ RunsPaid' => FewRuns'
  BY FewRunsNow, PTL

\* What the invariant says of one event.
CluePaid(e) == counted[e] + Cardinality(Counters(e)) + Cardinality(Resetters(e)) <= 2 + 2 * strays

\* A step after which no run may count or call for more.
LEMMA PaidQuietly ==
  ASSUME HuntTypeOK, RunsPaid, NEW e \in Clues, CluePaid(e),
         \A s \in Hunters : /\ Early(s, e)' => Early(s, e)
                            /\ MayCount(s, e)' => MayCount(s, e),
         counted'[e] = counted[e], strays' = strays
  PROVE  CluePaid(e)'
<1>1. Counters(e)' \subseteq Counters(e) /\ Resetters(e)' \subseteq Resetters(e)
  BY DEF Counters, Resetters
<1>2. IsFiniteSet(Counters(e)) /\ IsFiniteSet(Resetters(e))
  BY HuntFinite
<1>3. /\ Cardinality(Counters(e)') <= Cardinality(Counters(e))
      /\ Cardinality(Counters(e)') \in Nat /\ Cardinality(Counters(e)) \in Nat
  BY <1>1, <1>2, CountNoMore
<1>4. /\ Cardinality(Resetters(e)') <= Cardinality(Resetters(e))
      /\ Cardinality(Resetters(e)') \in Nat /\ Cardinality(Resetters(e)) \in Nat
  BY <1>1, <1>2, CountNoMore
<1>5. strays \in Nat /\ counted[e] \in Nat
  BY HuntNums
<1> QED BY <1>3, <1>4, <1>5 DEF CluePaid

\* Nothing of the others' changes with a step of r, unless it writes the table, and then
\* only what the leader may count.
LEMMA OtherRuns ==
  ASSUME HuntTypeOK, NEW e \in Clues, NEW s \in Hunters, hunter'[s] = hunter[s],
         clue'[e].ts = clue[e].ts, huntLead' = huntLead,
         lastLook' = lastLook \/ s # huntLead
  PROVE  (Early(s, e)' <=> Early(s, e)) /\ (MayCount(s, e)' <=> MayCount(s, e))
  BY DEF Early, MayCount, Owing

LEMMA CountsPaidStep == HuntCountInv /\ [HuntNext]_huntVars => CountsPaid'
<1> SUFFICES ASSUME HuntCountInv, [HuntNext]_huntVars,
                    NEW e \in Clues, clue'[e].at # "nowhere"
             PROVE  CluePaid(e)'
  BY DEF CountsPaid, CluePaid
<1>0. HuntTypeOK /\ Dated /\ RunsPaid /\ (clue[e].at # "nowhere" => CluePaid(e))
  BY DEF HuntCountInv, CountsPaid, CluePaid
<1>n. /\ second \in Nat /\ lastLook \in Int /\ strays \in Nat
      /\ clue[e].ts \in Nat /\ counted[e] \in Nat /\ clue[e].ts <= second
      /\ \A r \in Hunters : hunter[r].now \in Nat /\ hunter[r].last \in Int
  BY <1>0, HuntNums DEF Dated
<1>f. /\ IsFiniteSet(Counters(e)) /\ IsFiniteSet(Resetters(e))
      /\ Cardinality(Counters(e)) \in Nat /\ Cardinality(Resetters(e)) \in Nat
  BY <1>0, HuntFinite
<1>1. CASE Second \/ UNCHANGED huntVars
  <2>1. /\ UNCHANGED <<hunter, clue, lastLook, huntLead, counted, strays>>
        /\ clue[e].at # "nowhere"
    BY <1>1 DEF Second, huntVars
  <2>2. \A s \in Hunters : (Early(s, e)' <=> Early(s, e)) /\ (MayCount(s, e)' <=> MayCount(s, e))
    BY <2>1 DEF Early, MayCount, Owing
  <2> QED BY <1>0, <2>1, <2>2, PaidQuietly
<1>2. ASSUME NEW f \in Clues, StoreClue(f) \/ (DateClue(f) /\ f # e) PROVE CluePaid(e)'
  <2>1. /\ UNCHANGED <<hunter, lastLook, huntLead, counted, strays>>
        /\ clue'[e].ts = clue[e].ts /\ clue[e].at # "nowhere"
    BY <1>0, <1>2 DEF StoreClue, DateClue, HuntTypeOK
  <2>2. \A s \in Hunters : (Early(s, e)' <=> Early(s, e)) /\ (MayCount(s, e)' <=> MayCount(s, e))
    BY <2>1 DEF Early, MayCount, Owing
  <2> QED BY <1>0, <2>1, <2>2, PaidQuietly
\* A new event: as much as there are runs.
<1>3. CASE DateClue(e)
  <2>1. /\ counted' = counted /\ strays' = strays /\ clue[e].at = "nowhere"
        /\ hunter' = hunter /\ huntLead' = huntLead
    BY <1>3 DEF DateClue
  <2>2. counted'[e] = 0
    BY <1>0, <2>1 DEF Dated
  <2>3. HuntTypeOK' /\ RunsPaid'
    BY <1>0, HuntTypeStep, RunsPaidStep
  <2>4. /\ Cardinality(Counters(e)') \in Nat /\ Cardinality(Resetters(e)') \in Nat
        /\ Cardinality(Counters(e)') <= strays' + 1
        /\ Cardinality(Resetters(e)') <= strays' + 1
    BY <2>3, FewRunsNext DEF FewRuns
  <2> QED BY <1>n, <2>1, <2>2, <2>4 DEF CluePaid
<1>4. ASSUME NEW r \in Hunters, HuntMove(r) PROVE CluePaid(e)'
  <2>1. /\ UNCHANGED <<hunter, clue, lastLook, counted>>
        /\ huntLead' = r /\ strays' = strays + 1 /\ clue[e].at # "nowhere"
    BY <1>4 DEF HuntMove
  <2>2. Resetters(e)' = Resetters(e)
    BY <2>1 DEF Resetters, Early
  <2>3. Counters(e)' \subseteq (Counters(e) \cup {huntLead}) \cup {r}
    BY <2>1 DEF Counters, MayCount, Early, Owing
  <2>4. /\ IsFiniteSet(Counters(e) \cup {huntLead})
        /\ Cardinality(Counters(e) \cup {huntLead}) \in Nat
        /\ Cardinality(Counters(e) \cup {huntLead}) <= Cardinality(Counters(e)) + 1
    BY <1>f, CountOneMore
  <2>5. /\ Cardinality(Counters(e)') \in Nat
        /\ Cardinality(Counters(e)') <= Cardinality(Counters(e) \cup {huntLead}) + 1
    BY <2>3, <2>4, CountOneMore
  <2>6. counted'[e] = counted[e] /\ CluePaid(e)
    BY <1>0, <2>1
  <2> QED BY <1>n, <1>f, <2>1, <2>2, <2>4, <2>5, <2>6 DEF CluePaid
<1>5. ASSUME NEW r \in Hunters, BeginRun(r) PROVE CluePaid(e)'
  <2>1. /\ UNCHANGED <<clue, lastLook, huntLead, counted, strays>>
        /\ huntLead = r /\ clue[e].at # "nowhere"
    BY <1>5 DEF BeginRun
  <2>2. /\ hunter[r].pc = "idle" /\ hunter'[r].pc = "begun" /\ hunter'[r].now = second
        /\ \A s \in Hunters \ {r} : hunter'[s] = hunter[s]
    BY <1>0, <1>5, RunEffects
  <2>3. ~Early(r, e)'
    BY <1>n, <2>1, <2>2 DEF Early
  <2>4. MayCount(r, e)' => MayCount(r, e)
    BY <2>1, <2>2, <2>3 DEF MayCount, Owing, Early
  <2>5. ASSUME NEW s \in Hunters \ {r}
        PROVE  (Early(s, e)' <=> Early(s, e)) /\ (MayCount(s, e)' <=> MayCount(s, e))
    BY <1>0, <2>1, <2>2, OtherRuns
  <2> QED BY <1>0, <2>1, <2>3, <2>4, <2>5, PaidQuietly
<1>6. ASSUME NEW r \in Hunters, AskRun(r) PROVE CluePaid(e)'
  <2>1. /\ UNCHANGED <<clue, lastLook, huntLead, counted>>
        /\ strays' = strays + 1 /\ clue[e].at # "nowhere"
    BY <1>6 DEF AskRun
  <2>2. /\ hunter'[r].pc = "begun" /\ hunter'[r].now = second
        /\ \A s \in Hunters \ {r} : hunter'[s] = hunter[s]
    BY <1>0, <1>6, RunEffects
  <2>3. ~Early(r, e)'
    BY <1>n, <2>1, <2>2 DEF Early
  <2>4. ASSUME NEW s \in Hunters \ {r}
        PROVE  (Early(s, e)' <=> Early(s, e)) /\ (MayCount(s, e)' <=> MayCount(s, e))
    BY <1>0, <2>1, <2>2, OtherRuns
  <2>5. Counters(e)' \subseteq Counters(e) \cup {r} /\ Resetters(e)' \subseteq Resetters(e)
    BY <2>3, <2>4 DEF Counters, Resetters
  <2>6. /\ Cardinality(Counters(e)') \in Nat
        /\ Cardinality(Counters(e)') <= Cardinality(Counters(e)) + 1
    BY <1>f, <2>5, CountOneMore
  <2>7. /\ Cardinality(Resetters(e)') \in Nat
        /\ Cardinality(Resetters(e)') <= Cardinality(Resetters(e))
    BY <1>f, <2>5, CountNoMore
  <2>8. counted'[e] = counted[e] /\ CluePaid(e)
    BY <1>0, <2>1
  <2> QED BY <1>n, <1>f, <2>1, <2>6, <2>7, <2>8 DEF CluePaid
<1>7. ASSUME NEW r \in Hunters, ReadHunt(r) \/ Search(r) PROVE CluePaid(e)'
  <2>1. /\ UNCHANGED <<clue, lastLook, huntLead, counted, strays>>
        /\ clue[e].at # "nowhere"
    BY <1>7 DEF ReadHunt, Search
  <2>2. \A s \in Hunters \ {r} : hunter'[s] = hunter[s]
    BY <1>0, <1>7, RunEffects
  <2>3. (Early(r, e)' => Early(r, e)) /\ (MayCount(r, e)' => MayCount(r, e))
    <3>1. CASE ReadHunt(r) /\ hunter'[r] = NoRun
      <4>1. hunter[r].pc = "begun"
        BY <1>0, <3>1, RunEffects
      <4>2. ~Early(r, e)'
        BY <3>1, NoRunFields DEF Early
      <4> QED BY <2>1, <3>1, <4>1, <4>2, NoRunFields DEF MayCount, Owing
    <3>2. CASE ReadHunt(r) /\ hunter'[r] # NoRun
      <4>1. /\ hunter[r].pc = "begun" /\ hunter'[r].pc = "due" /\ hunter'[r].last = lastLook
            /\ hunter'[r].now = hunter[r].now
        BY <1>0, <3>2, RunEffects
      <4>2. Early(r, e)' <=> Early(r, e)
        BY <2>1, <4>1 DEF Early
      <4> QED BY <2>1, <4>1, <4>2 DEF MayCount, Owing
    <3>3. CASE Search(r)
      <4>1. /\ hunter[r].pc = "due" /\ hunter'[r].pc = "searched"
            /\ hunter'[r].now = hunter[r].now /\ hunter'[r].last = hunter[r].last
            /\ e \in hunter'[r].found => hunter[r].last < clue[e].ts
        BY <1>0, <3>3, RunEffects
      <4>2. Early(r, e)' <=> Early(r, e)
        BY <2>1, <4>1 DEF Early
      <4> QED BY <2>1, <4>1, <4>2 DEF MayCount, Owing
    <3> QED BY <1>7, <3>1, <3>2, <3>3
  <2>4. ASSUME NEW s \in Hunters \ {r}
        PROVE  (Early(s, e)' <=> Early(s, e)) /\ (MayCount(s, e)' <=> MayCount(s, e))
    BY <1>0, <2>1, <2>2, OtherRuns
  <2> QED BY <1>0, <2>1, <2>3, <2>4, PaidQuietly
\* An early run that is cut short leaves the leader where it stood.
<1>8. ASSUME NEW r \in Hunters, AbortRun(r) PROVE CluePaid(e)'
  <2>1. /\ UNCHANGED <<clue, lastLook, huntLead, counted, strays>>
        /\ clue[e].at # "nowhere" /\ hunter[r].pc # "idle"
    BY <1>8 DEF AbortRun
  <2>2. hunter'[r] = NoRun /\ \A s \in Hunters \ {r} : hunter'[s] = hunter[s]
    BY <1>0, <1>8, RunEffects
  <2>3. ASSUME NEW s \in Hunters \ {r}
        PROVE  (Early(s, e)' <=> Early(s, e)) /\ (MayCount(s, e)' <=> MayCount(s, e))
    BY <1>0, <2>1, <2>2, OtherRuns
  <2>4. ~Early(r, e)'
    BY <2>2, NoRunFields DEF Early
  <2>5. CASE ~Early(r, e)
    <3>1. MayCount(r, e)' => MayCount(r, e)
      BY <2>1, <2>2, <2>4, <2>5, NoRunFields DEF MayCount, Owing
    <3> QED BY <1>0, <2>1, <2>3, <2>4, <3>1, PaidQuietly
  <2>6. CASE Early(r, e)
    <3>1. /\ r \in Resetters(e) /\ Resetters(e)' \subseteq Resetters(e) \ {r}
          /\ Counters(e)' \subseteq Counters(e) \cup {r}
      BY <2>3, <2>4, <2>6 DEF Resetters, Counters
    <3>2. /\ Cardinality(Counters(e)') \in Nat
          /\ Cardinality(Counters(e)') <= Cardinality(Counters(e)) + 1
      BY <1>f, <3>1, CountOneMore
    <3>3. /\ Cardinality(Resetters(e)') \in Nat
          /\ Cardinality(Resetters(e)') + 1 <= Cardinality(Resetters(e))
      BY <1>f, <3>1, CountOneLess
    <3>4. counted'[e] = counted[e] /\ CluePaid(e)
      BY <1>0, <2>1
    <3> QED BY <1>n, <1>f, <2>1, <3>2, <3>3, <3>4 DEF CluePaid
  <2> QED BY <2>5, <2>6
\* A run that ends counts what it found; an early one calls for a count by the leader.
<1>9. ASSUME NEW r \in Hunters, FinishRun(r) PROVE CluePaid(e)'
  <2>1. /\ UNCHANGED <<clue, huntLead, strays>> /\ lastLook' = hunter[r].now
        /\ clue[e].at # "nowhere" /\ hunter[r].pc = "searched"
        /\ counted'[e] = IF e \in hunter[r].found THEN counted[e] + 1 ELSE counted[e]
    BY <1>9 DEF FinishRun, Stamp
  <2>2. hunter'[r] = NoRun /\ \A s \in Hunters \ {r} : hunter'[s] = hunter[s]
    BY <1>0, <1>9, RunEffects
  <2>3. ~Early(r, e)' /\ (MayCount(r, e)' => r = huntLead /\ hunter[r].now < clue[e].ts)
    BY <2>1, <2>2, NoRunFields DEF Early, MayCount, Owing
  <2>4. ASSUME NEW s \in Hunters \ {r}
        PROVE  /\ Early(s, e)' <=> Early(s, e)
               /\ MayCount(s, e)' => \/ MayCount(s, e)
                                     \/ s = huntLead /\ hunter[r].now < clue[e].ts
    BY <2>1, <2>2 DEF Early, MayCount, Owing
  <2>5. Resetters(e)' \subseteq Resetters(e) \ {r}
    BY <2>3, <2>4 DEF Resetters
  <2>6. e \in hunter[r].found => r \in Counters(e)
    BY <2>1 DEF Counters, MayCount, Owing
  <2>7. CluePaid(e)
    BY <1>0, <2>1
  <2>8. CASE Early(r, e)
    <3>1. r \in Resetters(e) /\ Counters(e)' \subseteq (Counters(e) \ {r}) \cup {huntLead}
      BY <2>3, <2>4, <2>8 DEF Resetters, Counters
    <3>2. /\ Cardinality(Resetters(e)') \in Nat
          /\ Cardinality(Resetters(e)') + 1 <= Cardinality(Resetters(e))
      BY <1>f, <2>5, <3>1, CountOneLess
    <3>3. CASE e \in hunter[r].found
      <4>1. /\ Cardinality(Counters(e)') \in Nat
            /\ Cardinality(Counters(e)') <= Cardinality(Counters(e))
        BY <1>f, <2>6, <3>1, <3>3, CountSwap
      <4> QED BY <1>n, <1>f, <2>1, <2>7, <3>2, <3>3, <4>1 DEF CluePaid
    <3>4. CASE e \notin hunter[r].found
      <4>1. Counters(e)' \subseteq Counters(e) \cup {huntLead}
        BY <3>1
      <4>2. /\ Cardinality(Counters(e)') \in Nat
            /\ Cardinality(Counters(e)') <= Cardinality(Counters(e)) + 1
        BY <1>f, <4>1, CountOneMore
      <4> QED BY <1>n, <1>f, <2>1, <2>7, <3>2, <3>4, <4>2 DEF CluePaid
    <3> QED BY <3>3, <3>4
  <2>9. CASE ~Early(r, e)
    <3>1. ~(hunter[r].now < clue[e].ts)
      BY <2>1, <2>9 DEF Early
    <3>2. Counters(e)' \subseteq Counters(e) \ {r}
      BY <2>3, <2>4, <3>1 DEF Counters
    <3>3. /\ Cardinality(Resetters(e)') \in Nat
          /\ Cardinality(Resetters(e)') <= Cardinality(Resetters(e))
      BY <1>f, <2>5, CountNoMore
    <3>4. CASE e \in hunter[r].found
      <4>1. /\ Cardinality(Counters(e)') \in Nat
            /\ Cardinality(Counters(e)') + 1 <= Cardinality(Counters(e))
        BY <1>f, <2>6, <3>2, <3>4, CountOneLess
      <4> QED BY <1>n, <1>f, <2>1, <2>7, <3>3, <3>4, <4>1 DEF CluePaid
    <3>5. CASE e \notin hunter[r].found
      <4>1. /\ Cardinality(Counters(e)') \in Nat
            /\ Cardinality(Counters(e)') <= Cardinality(Counters(e))
        BY <1>f, <3>2, CountNoMore
      <4> QED BY <1>n, <1>f, <2>1, <2>7, <3>3, <3>5, <4>1 DEF CluePaid
    <3> QED BY <3>4, <3>5
  <2> QED BY <2>8, <2>9
<1> QED BY <1>1, <1>2, <1>3, <1>4, <1>5, <1>6, <1>7, <1>8, <1>9 DEF HuntNext

LEMMA HuntCountInit == HuntInit => HuntCountInv
<1> SUFFICES ASSUME HuntInit PROVE HuntCountInv
  OBVIOUS
<1>1. HuntTypeOK
  BY HuntTypeInit
<1>2. \A r \in Hunters : hunter[r] = NoRun
  BY DEF HuntInit
<1>3. Dated /\ CountsPaid
  BY <1>2, NoRunFields DEF HuntInit, Dated, CountsPaid
<1>4. Beside = {} /\ strays = 0
  BY <1>2, NoRunFields DEF HuntInit, Beside
<1>5. RunsPaid
  BY <1>4, FS_EmptySet DEF RunsPaid
<1> QED BY <1>1, <1>3, <1>5 DEF HuntCountInv

\* The strays pay for what may be counted twice, in every reachable state.
THEOREM HuntCountInvariant == HuntSpec => []HuntCountInv
<1>1. HuntCountInv /\ [HuntNext]_huntVars => HuntCountInv'
  BY HuntTypeStep, DatedStep, RunsPaidStep, CountsPaidStep DEF HuntCountInv
<1> QED BY <1>1, HuntCountInit, PTL DEF HuntSpec

\* An event is reported twice at most, and twice more for each change of the leader and
\* each run the API asked for: for any number of replicas, requests and events, a clock
\* of any length and any schedule.
THEOREM RepeatsBoundedTheorem == HuntSpec => []RepeatsBounded
<1>1. HuntCountInv => RepeatsBounded
  <2> SUFFICES ASSUME HuntCountInv, NEW e \in Clues PROVE counted[e] <= 2 + 2 * strays
    BY DEF RepeatsBounded
  <2>1. /\ counted[e] \in Nat /\ strays \in Nat
        /\ Cardinality(Counters(e)) \in Nat /\ Cardinality(Resetters(e)) \in Nat
    BY HuntNums, HuntFinite DEF HuntCountInv
  <2>2. CASE clue[e].at = "nowhere"
    <3>1. counted[e] = 0
      BY <2>2 DEF HuntCountInv, Dated
    <3> QED BY <2>1, <3>1
  <2>3. CASE clue[e].at # "nowhere"
    <3>1. counted[e] + Cardinality(Counters(e)) + Cardinality(Resetters(e)) <= 2 + 2 * strays
      BY <2>3 DEF HuntCountInv, CountsPaid
    <3> QED BY <2>1, <3>1
  <2> QED BY <2>2, <2>3
<1> QED BY <1>1, HuntCountInvariant, PTL

-----------------------------------------------------------------------------
(***************************************************************************)
(* IocLifecycle. OneStandingAlert rests on the row lock: the passes that   *)
(* have tested for the standing alert hold it, so at most one of them can  *)
(* be about to raise one. SightedOncePerPlace rests on the marks that a    *)
(* commit leaves: an event in the hands of one pass only is unmarked, and  *)
(* has led to no sighting, until that pass commits. KnownGoodKept rests on *)
(* the decay passes that began before the mark.                            *)
(***************************************************************************)

Pass == [pc    : {"idle", "read", "hit", "locked", "ready"},
         batch : SUBSET Observations,
         raise : BOOLEAN]

Scoring == [pc     : {"idle", "scored"},
            was    : {"active", "expired"},
            target : {"active", "expired"}]

\* The number of columns of an event that have the value.
LEMMA PlacesNat == \A e : Places(e) \in Nat
  BY DEF Places

\* A step of one matching pass changes its local variables only.
LEMMA PassStep ==
  ASSUME matcher \in [Matchers -> Pass], NEW m \in Matchers, NEW x \in Pass,
         matcher' = [matcher EXCEPT ![m] = x]
  PROVE  /\ matcher' \in [Matchers -> Pass]
         /\ matcher'[m] = x
         /\ \A n \in Matchers \ {m} : matcher'[n] = matcher[n]
  OBVIOUS

After(m, x) == matcher' = [matcher EXCEPT ![m] = x]

\* What each step of a pass makes of its local variables.
LEMMA Steps ==
  ASSUME IocTypeOK, NEW m \in Matchers
  PROVE  /\ ReadUnchecked(m) =>
              \E x \in Pass : After(m, x) /\ x.pc = "read" /\ x.batch = unchecked /\ x.raise = FALSE
         /\ LookUp(m) =>
              \E x \in Pass : After(m, x) /\ x.pc \in {"hit", "ready"}
                              /\ x.batch = matcher[m].batch /\ x.raise = matcher[m].raise
         /\ TakeRow(m) =>
              \E x \in Pass : After(m, x) /\ x.pc = "locked"
                              /\ x.batch = matcher[m].batch /\ x.raise = matcher[m].raise
         /\ TestStanding(m) =>
              \E x \in Pass : After(m, x) /\ x.pc = "ready"
                              /\ x.batch = matcher[m].batch /\ x.raise = (standing = 0)
         /\ CommitMatch(m) \/ AbortMatch(m) => After(m, IdleMatch)
         /\ IdleMatch \in Pass
<1>0. matcher[m] \in Pass /\ unchecked \in SUBSET Observations
  BY DEF IocTypeOK, Pass
<1>1. ASSUME ReadUnchecked(m)
      PROVE  \E x \in Pass : After(m, x) /\ x.pc = "read" /\ x.batch = unchecked /\ x.raise = FALSE
  <2> DEFINE x == [pc |-> "read", batch |-> unchecked, raise |-> FALSE]
  <2>1. After(m, x)
    BY <1>1 DEF ReadUnchecked, After
  <2>2. x \in Pass
    BY <1>0 DEF Pass
  <2>3. x.pc = "read" /\ x.batch = unchecked /\ x.raise = FALSE
    OBVIOUS
  <2> HIDE DEF x
  <2> QED BY <2>1, <2>2, <2>3
<1>2. ASSUME LookUp(m)
      PROVE  \E x \in Pass : After(m, x) /\ x.pc \in {"hit", "ready"}
                             /\ x.batch = matcher[m].batch /\ x.raise = matcher[m].raise
  <2> DEFINE x == [matcher[m] EXCEPT !.pc = IF ioc.status = "active" THEN "hit" ELSE "ready"]
  <2>1. After(m, x)
    BY <1>2 DEF LookUp, After
  <2>2. /\ x \in Pass /\ x.pc \in {"hit", "ready"}
        /\ x.batch = matcher[m].batch /\ x.raise = matcher[m].raise
    BY <1>0 DEF Pass
  <2> HIDE DEF x
  <2> QED BY <2>1, <2>2
<1>3. ASSUME TakeRow(m)
      PROVE  \E x \in Pass : After(m, x) /\ x.pc = "locked"
                             /\ x.batch = matcher[m].batch /\ x.raise = matcher[m].raise
  <2> DEFINE x == [matcher[m] EXCEPT !.pc = "locked"]
  <2>1. After(m, x)
    BY <1>3 DEF TakeRow, After
  <2>2. /\ x \in Pass /\ x.pc = "locked"
        /\ x.batch = matcher[m].batch /\ x.raise = matcher[m].raise
    BY <1>0 DEF Pass
  <2> HIDE DEF x
  <2> QED BY <2>1, <2>2
<1>4. ASSUME TestStanding(m)
      PROVE  \E x \in Pass : After(m, x) /\ x.pc = "ready"
                             /\ x.batch = matcher[m].batch /\ x.raise = (standing = 0)
  <2> DEFINE x == [matcher[m] EXCEPT !.pc = "ready", !.raise = (standing = 0)]
  <2>1. After(m, x)
    BY <1>4 DEF TestStanding, After
  <2>2. /\ x \in Pass /\ x.pc = "ready"
        /\ x.batch = matcher[m].batch /\ x.raise = (standing = 0)
    BY <1>0 DEF Pass
  <2> HIDE DEF x
  <2> QED BY <2>1, <2>2
<1>5. CommitMatch(m) \/ AbortMatch(m) => After(m, IdleMatch)
  BY DEF CommitMatch, AbortMatch, After
<1>6. IdleMatch \in Pass
  BY DEF IdleMatch, Pass
<1> QED BY <1>1, <1>2, <1>3, <1>4, <1>5, <1>6

-----------------------------------------------------------------------------
(* Types *)

LEMMA IocTypeInit == IocInit => IocTypeOK
<1> SUFFICES ASSUME IocInit PROVE IocTypeOK
  OBVIOUS
<1>1. IdleMatch \in Pass
  BY DEF IdleMatch, Pass
<1>2. IdleDecay \in Scoring
  BY DEF IdleDecay, Scoring
<1>3. matcher \in [Matchers -> Pass] /\ decayer \in [Decayers -> Scoring]
  BY <1>1, <1>2 DEF IocInit
<1>4. sighted \in [Observations -> Nat]
  BY DEF IocInit
<1>5. good \in BOOLEAN /\ overtaken \in BOOLEAN
  BY DEF IocInit
<1>6. ioc \in [status : {"active", "expired", "known-good"}, fresh : BOOLEAN]
  BY DEF IocInit
<1>7. /\ rowLock \in Matchers \cup {NoPass} /\ unchecked \in SUBSET Observations
      /\ checked \in SUBSET Observations /\ standing \in Nat
      /\ shared \in SUBSET Observations /\ acts \in Nat
  BY DEF IocInit
<1> QED BY <1>3, <1>4, <1>5, <1>6, <1>7 DEF IocTypeOK, Pass, Scoring

\* The row after any of the steps that write it.
Row == [status : {"active", "expired", "known-good"}, fresh : BOOLEAN]

LEMMA Rows == IocTypeOK => /\ ioc \in Row /\ SightedRow \in Row
                           /\ \A s \in {"active", "expired", "known-good"} : [ioc EXCEPT !.status = s] \in Row
                           /\ [ioc EXCEPT !.fresh = FALSE] \in Row
                           /\ Target \in {"active", "expired"}
  BY DEF IocTypeOK, SightedRow, Row, Target

LEMMA IocTypeStep == IocTypeOK /\ [IocNext]_iocVars => IocTypeOK'
<1> SUFFICES ASSUME IocTypeOK, [IocNext]_iocVars PROVE IocTypeOK'
  OBVIOUS
<1>0. matcher \in [Matchers -> Pass]
  BY DEF IocTypeOK, Pass
<1>1. ASSUME NEW e \in Observations, Observe(e) PROVE IocTypeOK'
  BY <1>1 DEF Observe, IocTypeOK
<1>2. CASE Age \/ ReportSighting
  <2>1. ioc' \in Row
    BY <1>2, Rows DEF Age, ReportSighting
  <2> QED BY <1>2, <2>1 DEF Age, ReportSighting, IocTypeOK, Row
<1>3. CASE MarkKnownGood \/ UnmarkKnownGood
  <2>1. ioc' \in Row
    BY <1>3, Rows DEF MarkKnownGood, UnmarkKnownGood
  <2>2. overtaken' \in BOOLEAN /\ good' \in BOOLEAN
    <3>1. CASE MarkKnownGood
      <4> DEFINE B == \E d \in Decayers : decayer[d].pc = "scored"
                                            /\ decayer[d].was # decayer[d].target
      <4>1. B \in BOOLEAN
        OBVIOUS
      <4>2. overtaken' = B /\ good' = TRUE
        BY <3>1 DEF MarkKnownGood
      <4> HIDE DEF B
      <4> QED BY <4>1, <4>2
    <3>2. CASE UnmarkKnownGood
      <4>1. good' = FALSE /\ overtaken' = overtaken
        BY <3>2 DEF UnmarkKnownGood
      <4>2. overtaken \in BOOLEAN
        BY DEF IocTypeOK
      <4> QED BY <4>1, <4>2
    <3> QED BY <1>3, <3>1, <3>2
  <2>3. acts' \in Nat
    <3>1. acts' = acts + 1
      BY <1>3, Zenon DEF MarkKnownGood, UnmarkKnownGood
    <3>2. acts \in Nat
      BY DEF IocTypeOK
    <3> QED BY <3>1, <3>2
  <2>4. UNCHANGED <<rowLock, unchecked, checked, sighted, standing, matcher, decayer, shared>>
    BY <1>3 DEF MarkKnownGood, UnmarkKnownGood
  <2> QED BY <2>1, <2>2, <2>3, <2>4 DEF IocTypeOK, Row
<1>4. ASSUME NEW m \in Matchers, Match(m) \/ AbortMatch(m) PROVE IocTypeOK'
  <2>0. matcher' \in [Matchers -> Pass]
    <3>1. \E x \in Pass : After(m, x)
      BY <1>4, Steps DEF Match
    <3> QED BY <1>0, <3>1, PassStep DEF After
  <2>1. CASE ReadUnchecked(m)
    BY <2>0, <2>1 DEF ReadUnchecked, IocTypeOK, Pass
  <2>2. CASE LookUp(m) \/ TestStanding(m) \/ TakeRow(m)
    BY <2>0, <2>2 DEF LookUp, TestStanding, TakeRow, IocTypeOK, Pass
  <2>3. CASE CommitMatch(m)
    <3>1. ioc' \in Row /\ rowLock' \in Matchers \cup {NoPass} /\ sighted' \in [Observations -> Nat]
      <4>1. CASE rowLock = m
        <5>1. ioc' \in Row /\ rowLock' = NoPass
          BY <2>3, <4>1, Rows DEF CommitMatch
        <5>2. sighted' = [e \in Observations |->
                            IF e \in matcher[m].batch THEN sighted[e] + Places(e)
                                                       ELSE sighted[e]]
          BY <2>3, <4>1 DEF CommitMatch
        <5>3. sighted' \in [Observations -> Nat]
          BY <5>2, PlacesNat DEF IocTypeOK
        <5> QED BY <5>1, <5>3
      <4>2. CASE rowLock # m
        BY <2>3, <4>2, Rows DEF CommitMatch, IocTypeOK
      <4> QED BY <4>1, <4>2
    <3>2. unchecked' \in SUBSET Observations /\ checked' \in SUBSET Observations
      BY <2>3 DEF CommitMatch, MarkChecked, IocTypeOK
    <3>3. standing' \in Nat
      BY <2>3 DEF CommitMatch, IocTypeOK
    <3> QED BY <2>0, <2>3, <3>1, <3>2, <3>3 DEF CommitMatch, IocTypeOK, Pass, Row
  <2>4. CASE AbortMatch(m)
    BY <2>0, <2>4 DEF AbortMatch, IocTypeOK, Pass
  <2> QED BY <1>4, <2>1, <2>2, <2>3, <2>4 DEF Match
<1>5. ASSUME NEW d \in Decayers, Decay(d) PROVE IocTypeOK'
  <2>0. decayer \in [Decayers -> Scoring] /\ decayer[d] \in Scoring
    BY DEF IocTypeOK, Scoring
  <2>1. CASE ScoreIoc(d)
    <3>1. [pc |-> "scored", was |-> ioc.status, target |-> Target] \in Scoring
      BY <2>1, Rows DEF ScoreIoc, Scoring, Row
    <3>2. decayer' \in [Decayers -> Scoring]
      BY <2>0, <2>1, <3>1 DEF ScoreIoc
    <3> QED BY <2>1, <3>2 DEF ScoreIoc, IocTypeOK, Scoring
  <2>2. CASE WriteStatus(d)
    <3>1. decayer' \in [Decayers -> Scoring]
      BY <2>0, <2>2 DEF WriteStatus, IdleDecay, Scoring
    <3>2. ioc' \in Row
      BY <2>0, <2>2, Rows DEF WriteStatus, Scoring
    <3> QED BY <2>2, <3>1, <3>2 DEF WriteStatus, IocTypeOK, Scoring, Row
  <2> QED BY <1>5, <2>1, <2>2 DEF Decay
<1>6. CASE UNCHANGED iocVars
  BY <1>6 DEF iocVars, IocTypeOK
<1> QED BY <1>1, <1>2, <1>3, <1>4, <1>5, <1>6 DEF IocNext

\* Type correctness of the lifecycle's state.
THEOREM IocTypes == IocSpec => []IocTypeOK
<1> QED BY IocTypeInit, IocTypeStep, PTL DEF IocSpec

-----------------------------------------------------------------------------
(* OneStandingAlert *)

\* A pass past its first update holds the row, and one that will raise the alert has
\* seen that there is none.
RaiseUnderLock ==
  \A m \in Matchers :
    /\ matcher[m].pc = "locked" => rowLock = m
    /\ matcher[m].raise => matcher[m].pc = "ready" /\ rowLock = m /\ standing = 0

AlertInv == OneStandingAlert /\ RaiseUnderLock

LEMMA AlertInit == IocInit => AlertInv
  BY DEF IocInit, AlertInv, OneStandingAlert, RaiseUnderLock, IdleMatch

LEMMA AlertStep == IocTypeOK /\ AlertInv /\ [IocNext]_iocVars => AlertInv'
<1> SUFFICES ASSUME IocTypeOK, AlertInv, [IocNext]_iocVars PROVE AlertInv'
  OBVIOUS
<1>0. matcher \in [Matchers -> Pass] /\ standing \in Nat
  BY DEF IocTypeOK, Pass
<1>a. \A m \in Matchers : m # NoPass
  BY LifecycleAssumption
<1>1. ASSUME UNCHANGED <<matcher, rowLock, standing>> PROVE AlertInv'
  BY <1>1 DEF AlertInv, OneStandingAlert, RaiseUnderLock
<1>2. CASE \/ \E e \in Observations : Observe(e)
           \/ Age \/ MarkKnownGood \/ UnmarkKnownGood \/ ReportSighting
           \/ \E d \in Decayers : Decay(d)
           \/ UNCHANGED iocVars
  <2>1. UNCHANGED <<matcher, rowLock, standing>>
    BY <1>2 DEF Observe, Age, MarkKnownGood, UnmarkKnownGood, ReportSighting, Decay,
                ScoreIoc, WriteStatus, iocVars
  <2> QED BY <1>1, <2>1
<1>3. ASSUME NEW m \in Matchers, NEW x \in Pass, After(m, x), rowLock' = rowLock, standing' = standing,
             x.pc = "locked" => rowLock = m,
             x.raise => x.pc = "ready" /\ rowLock = m /\ standing = 0
      PROVE  AlertInv'
  <2>1. matcher'[m] = x /\ \A n \in Matchers \ {m} : matcher'[n] = matcher[n]
    BY <1>0, <1>3, PassStep DEF After
  <2>2. RaiseUnderLock'
    BY <1>3, <2>1 DEF AlertInv, RaiseUnderLock
  <2> QED BY <1>3, <2>2 DEF AlertInv, OneStandingAlert
<1>4. ASSUME NEW m \in Matchers, ReadUnchecked(m) PROVE AlertInv'
  <2>1. PICK x \in Pass : After(m, x) /\ x.pc = "read" /\ x.raise = FALSE
    BY <1>4, Steps
  <2>2. rowLock' = rowLock /\ standing' = standing
    BY <1>4 DEF ReadUnchecked
  <2> QED BY <1>3, <2>1, <2>2
<1>5. ASSUME NEW m \in Matchers, LookUp(m) PROVE AlertInv'
  <2>1. PICK x \in Pass : After(m, x) /\ x.pc \in {"hit", "ready"} /\ x.raise = matcher[m].raise
    BY <1>5, Steps
  <2>2. rowLock' = rowLock /\ standing' = standing /\ matcher[m].pc = "read"
    BY <1>5 DEF LookUp
  <2>3. ~matcher[m].raise
    BY <2>2 DEF AlertInv, RaiseUnderLock
  <2> QED BY <1>3, <2>1, <2>2, <2>3
<1>6. ASSUME NEW m \in Matchers, TakeRow(m) PROVE AlertInv'
  <2>1. PICK x \in Pass : After(m, x) /\ x.pc = "locked" /\ x.raise = matcher[m].raise
    BY <1>6, Steps
  <2>2. rowLock = NoPass /\ rowLock' = m /\ standing' = standing
    BY <1>6 DEF TakeRow
  <2>3. \A n \in Matchers : matcher[n].pc # "locked" /\ ~matcher[n].raise
    BY <1>a, <2>2 DEF AlertInv, RaiseUnderLock
  <2>4. matcher'[m] = x /\ \A n \in Matchers \ {m} : matcher'[n] = matcher[n]
    BY <1>0, <2>1, PassStep DEF After
  <2>5. RaiseUnderLock'
    BY <2>1, <2>2, <2>3, <2>4 DEF RaiseUnderLock
  <2> QED BY <2>2, <2>5 DEF AlertInv, OneStandingAlert
<1>7. ASSUME NEW m \in Matchers, TestStanding(m) PROVE AlertInv'
  <2>1. PICK x \in Pass : After(m, x) /\ x.pc = "ready" /\ x.raise = (standing = 0)
    BY <1>7, Steps
  <2>2. rowLock' = rowLock /\ standing' = standing /\ matcher[m].pc = "locked"
    BY <1>7 DEF TestStanding
  <2>3. rowLock = m
    BY <2>2 DEF AlertInv, RaiseUnderLock
  <2> QED BY <1>3, <2>1, <2>2, <2>3
<1>8. ASSUME NEW m \in Matchers, CommitMatch(m) PROVE AlertInv'
  <2>1. /\ rowLock' = IF rowLock = m THEN NoPass ELSE rowLock
        /\ standing' = IF matcher[m].raise THEN standing + 1 ELSE standing
    BY <1>8 DEF CommitMatch
  <2>2. /\ matcher'[m].pc = "idle" /\ ~matcher'[m].raise
        /\ \A n \in Matchers \ {m} : matcher'[n] = matcher[n]
    <3>1. IdleMatch.pc = "idle" /\ ~IdleMatch.raise
      BY DEF IdleMatch
    <3>2. After(m, IdleMatch) /\ IdleMatch \in Pass
      BY <1>8, Steps
    <3>3. matcher'[m] = IdleMatch /\ \A n \in Matchers \ {m} : matcher'[n] = matcher[n]
      BY <1>0, <3>2, PassStep DEF After
    <3> QED BY <3>1, <3>3
  <2>3. \A n \in Matchers \ {m} : rowLock = n => rowLock' = n
    BY <2>1
  <2>4. CASE matcher[m].raise
    <3>1. rowLock = m /\ standing = 0 /\ standing' = 1
      BY <2>1, <2>4 DEF AlertInv, RaiseUnderLock
    <3>2. \A n \in Matchers \ {m} : matcher[n].pc # "locked" /\ ~matcher[n].raise
      BY <3>1 DEF AlertInv, RaiseUnderLock
    <3> QED BY <2>2, <3>1, <3>2 DEF AlertInv, OneStandingAlert, RaiseUnderLock
  <2>5. CASE ~matcher[m].raise
    <3>1. standing' = standing
      BY <2>1, <2>5
    <3>2. RaiseUnderLock'
      BY <2>2, <2>3, <3>1 DEF AlertInv, RaiseUnderLock
    <3> QED BY <3>1, <3>2 DEF AlertInv, OneStandingAlert
  <2> QED BY <2>4, <2>5
<1>9. ASSUME NEW m \in Matchers, AbortMatch(m) PROVE AlertInv'
  <2>1. rowLock' = (IF rowLock = m THEN NoPass ELSE rowLock) /\ standing' = standing
    BY <1>9 DEF AbortMatch
  <2>2. /\ matcher'[m].pc = "idle" /\ ~matcher'[m].raise
        /\ \A n \in Matchers \ {m} : matcher'[n] = matcher[n]
    <3>1. IdleMatch.pc = "idle" /\ ~IdleMatch.raise
      BY DEF IdleMatch
    <3>2. After(m, IdleMatch) /\ IdleMatch \in Pass
      BY <1>9, Steps
    <3>3. matcher'[m] = IdleMatch /\ \A n \in Matchers \ {m} : matcher'[n] = matcher[n]
      BY <1>0, <3>2, PassStep DEF After
    <3> QED BY <3>1, <3>3
  <2>3. \A n \in Matchers \ {m} : rowLock = n => rowLock' = n
    BY <2>1
  <2>4. RaiseUnderLock'
    BY <2>1, <2>2, <2>3 DEF AlertInv, RaiseUnderLock
  <2> QED BY <2>1, <2>4 DEF AlertInv, OneStandingAlert
<1> QED BY <1>2, <1>4, <1>5, <1>6, <1>7, <1>8, <1>9 DEF IocNext, Match

\* One standing alert for a value, for any number of matching passes, on Postgres: the
\* update of the indicator comes before the test for the alert (ingest.py,
\* match_threat_intel), and the row it holds orders the passes.
THEOREM StandingAlert == IocSpec => []OneStandingAlert
<1>1. AlertInv => OneStandingAlert
  BY DEF AlertInv
<1> QED BY <1>1, AlertInit, AlertStep, IocTypes, PTL DEF IocSpec

-----------------------------------------------------------------------------
(* KnownGoodKept *)

\* A mark that no decay pass overtook is not in danger from any under way.
NoneWillUndo ==
  good /\ ~overtaken => \A d \in Decayers :
                          decayer[d].pc = "scored" => decayer[d].was = decayer[d].target

GoodInv == KnownGoodKept /\ NoneWillUndo

LEMMA GoodInit == IocInit => GoodInv
  BY DEF IocInit, GoodInv, KnownGoodKept, NoneWillUndo

LEMMA GoodStep == IocTypeOK /\ GoodInv /\ [IocNext]_iocVars => GoodInv'
<1> SUFFICES ASSUME IocTypeOK, GoodInv, [IocNext]_iocVars PROVE GoodInv'
  OBVIOUS
<1>1. ASSUME UNCHANGED <<decayer, good, overtaken>>,
             ioc.status = "known-good" => ioc'.status = "known-good"
      PROVE  GoodInv'
  BY <1>1 DEF GoodInv, KnownGoodKept, NoneWillUndo
<1>2. SightedRow.status = "known-good" \/ ioc.status # "known-good"
  BY DEF SightedRow
<1>3. CASE (\E e \in Observations : Observe(e)) \/ Age \/ ReportSighting
  <2>1. UNCHANGED <<decayer, good, overtaken>>
    BY <1>3 DEF Observe, Age, ReportSighting
  <2>2. ioc.status = "known-good" => ioc'.status = "known-good"
    BY <1>2, <1>3 DEF Observe, Age, ReportSighting, IocTypeOK
  <2> QED BY <1>1, <2>1, <2>2
<1>4. ASSUME NEW m \in Matchers, Match(m) \/ AbortMatch(m) PROVE GoodInv'
  <2>1. UNCHANGED <<decayer, good, overtaken>> /\ ioc' \in {ioc, SightedRow}
    BY <1>4 DEF Match, AbortMatch, ReadUnchecked, LookUp, TakeRow, TestStanding, CommitMatch
  <2> QED BY <1>1, <1>2, <2>1
<1>5. CASE MarkKnownGood
  <2>1. ioc'.status = "known-good" /\ decayer' = decayer
    BY <1>5 DEF MarkKnownGood, IocTypeOK
  <2>2. overtaken' = \E d \in Decayers : decayer[d].pc = "scored"
                                           /\ decayer[d].was # decayer[d].target
    BY <1>5 DEF MarkKnownGood
  <2>3. NoneWillUndo'
    BY <2>1, <2>2 DEF NoneWillUndo
  <2> QED BY <2>1, <2>3 DEF GoodInv, KnownGoodKept
<1>6. CASE UnmarkKnownGood
  <2>1. ~good'
    BY <1>6 DEF UnmarkKnownGood
  <2> QED BY <2>1 DEF GoodInv, KnownGoodKept, NoneWillUndo
<1>7. ASSUME NEW d \in Decayers, ScoreIoc(d) PROVE GoodInv'
  <2>1. ioc.status # "known-good" /\ UNCHANGED <<ioc, good, overtaken>>
    BY <1>7 DEF ScoreIoc
  <2>2. good => overtaken
    BY <2>1 DEF GoodInv, KnownGoodKept
  <2> QED BY <2>1, <2>2 DEF GoodInv, KnownGoodKept, NoneWillUndo
<1>8. ASSUME NEW d \in Decayers, WriteStatus(d) PROVE GoodInv'
  <2>1. /\ decayer[d].pc = "scored" /\ UNCHANGED <<good, overtaken>>
        /\ decayer[d].was = decayer[d].target => ioc' = ioc
    BY <1>8 DEF WriteStatus
  <2>2. \A e \in Decayers : decayer'[e] = IF e = d THEN IdleDecay ELSE decayer[e]
    BY <1>8 DEF WriteStatus, IocTypeOK
  <2>3. good /\ ~overtaken => ioc' = ioc
    BY <2>1 DEF GoodInv, NoneWillUndo
  <2>4. NoneWillUndo'
    BY <2>1, <2>2 DEF GoodInv, NoneWillUndo, IdleDecay
  <2>5. KnownGoodKept'
    BY <2>1, <2>3 DEF GoodInv, KnownGoodKept
  <2> QED BY <2>4, <2>5 DEF GoodInv
<1>9. CASE UNCHANGED iocVars
  BY <1>1, <1>9 DEF iocVars
<1> QED BY <1>3, <1>4, <1>5, <1>6, <1>7, <1>8, <1>9 DEF IocNext, Decay

\* What the analyst marked known-good stays marked, except where a decay pass had read
\* the indicator before the mark: decay_iocs writes by id, whatever the status is then.
THEOREM KnownGood == IocSpec => []KnownGoodKept
<1>1. GoodInv => KnownGoodKept
  BY DEF GoodInv
<1> QED BY <1>1, GoodInit, GoodStep, IocTypes, PTL DEF IocSpec

-----------------------------------------------------------------------------
(* SightedOncePerPlace *)

\* Two passes that hold an event share it; one that does not share it holds an event
\* still unmarked; and no event has led to a sighting before it was marked.
HeldBatches ==
  /\ \A m, n \in Matchers : m # n => matcher[m].batch \cap matcher[n].batch \subseteq shared
  /\ \A m \in Matchers : matcher[m].batch \subseteq unchecked \cup shared
  /\ unchecked \cap checked = {}
  /\ \A e \in Observations : sighted[e] > 0 => e \in checked

SightInv == SightedOncePerPlace /\ HeldBatches

LEMMA SightInit == IocInit => SightInv
<1> SUFFICES ASSUME IocInit PROVE SightInv
  OBVIOUS
<1>1. \A m \in Matchers : matcher[m].batch = {}
  BY DEF IocInit, IdleMatch
<1>2. unchecked = {} /\ \A e \in Observations : sighted[e] = 0
  BY DEF IocInit
<1> QED BY <1>1, <1>2, PlacesNat DEF SightInv, SightedOncePerPlace, HeldBatches

\* The steps of a pass in which its events stay the same.
LEMMA SameBatch ==
  ASSUME IocTypeOK, SightInv, NEW m \in Matchers, NEW x \in Pass, After(m, x),
         x.batch \subseteq matcher[m].batch,
         UNCHANGED <<unchecked, checked, sighted, shared>>
  PROVE  SightInv'
<1>1. matcher'[m] = x /\ \A n \in Matchers \ {m} : matcher'[n] = matcher[n]
  BY PassStep DEF After, IocTypeOK, Pass
<1>2. \A n \in Matchers : matcher'[n].batch \subseteq matcher[n].batch
  BY <1>1
<1> QED BY <1>2 DEF SightInv, SightedOncePerPlace, HeldBatches

LEMMA SightStep == IocTypeOK /\ SightInv /\ [IocNext]_iocVars => SightInv'
<1> SUFFICES ASSUME IocTypeOK, SightInv, [IocNext]_iocVars PROVE SightInv'
  OBVIOUS
<1>0. /\ matcher \in [Matchers -> Pass] /\ unchecked \in SUBSET Observations
      /\ \A e \in Observations : sighted[e] \in Nat
  BY DEF IocTypeOK, Pass
<1>1. CASE \/ Age \/ MarkKnownGood \/ UnmarkKnownGood \/ ReportSighting
           \/ \E d \in Decayers : Decay(d)
           \/ UNCHANGED iocVars
  <2>1. UNCHANGED <<matcher, unchecked, checked, sighted, shared>>
    BY <1>1 DEF Age, MarkKnownGood, UnmarkKnownGood, ReportSighting, Decay,
                ScoreIoc, WriteStatus, iocVars
  <2> QED BY <2>1 DEF SightInv, SightedOncePerPlace, HeldBatches
<1>2. ASSUME NEW e \in Observations, Observe(e) PROVE SightInv'
  <2>1. /\ e \notin checked /\ unchecked' = unchecked \cup {e}
        /\ UNCHANGED <<matcher, checked, sighted, shared>>
    BY <1>2 DEF Observe
  <2> QED BY <2>1 DEF SightInv, SightedOncePerPlace, HeldBatches
<1>3. ASSUME NEW m \in Matchers, ReadUnchecked(m) PROVE SightInv'
  <2>1. PICK x \in Pass : After(m, x) /\ x.batch = unchecked
    BY <1>3, Steps
  <2>2. matcher'[m] = x /\ \A n \in Matchers \ {m} : matcher'[n] = matcher[n]
    BY <1>0, <2>1, PassStep DEF After
  <2>3. /\ UNCHANGED <<unchecked, checked, sighted>>
        /\ shared' = shared \cup {e \in unchecked : \E n \in Matchers : e \in matcher[n].batch}
    BY <1>3 DEF ReadUnchecked
  <2>4. SightedOncePerPlace'
    BY <2>3 DEF SightInv, SightedOncePerPlace
  <2>5. \A k, n \in Matchers : k # n => matcher'[k].batch \cap matcher'[n].batch \subseteq shared'
    <3>1. \A n \in Matchers : unchecked \cap matcher[n].batch \subseteq shared'
      BY <2>3
    <3>2. \A k, n \in Matchers : k # n => matcher[k].batch \cap matcher[n].batch \subseteq shared'
      BY <2>3 DEF SightInv, HeldBatches
    <3> QED BY <2>1, <2>2, <3>1, <3>2
  <2>6. \A n \in Matchers : matcher'[n].batch \subseteq unchecked \cup shared'
    BY <2>1, <2>2, <2>3 DEF SightInv, HeldBatches
  <2>7. HeldBatches'
    BY <2>3, <2>5, <2>6 DEF SightInv, HeldBatches
  <2> QED BY <2>4, <2>7 DEF SightInv
<1>4. ASSUME NEW m \in Matchers, LookUp(m) \/ TakeRow(m) \/ TestStanding(m) PROVE SightInv'
  <2>1. PICK x \in Pass : After(m, x) /\ x.batch = matcher[m].batch
    BY <1>4, Steps
  <2>2. UNCHANGED <<unchecked, checked, sighted, shared>>
    BY <1>4 DEF LookUp, TakeRow, TestStanding
  <2> QED BY <2>1, <2>2, SameBatch
<1>5. ASSUME NEW m \in Matchers, AbortMatch(m) PROVE SightInv'
  <2>1. After(m, IdleMatch) /\ IdleMatch \in Pass /\ IdleMatch.batch = {}
    BY <1>5, Steps DEF IdleMatch
  <2>2. UNCHANGED <<unchecked, checked, sighted, shared>>
    BY <1>5 DEF AbortMatch
  <2> QED BY <2>1, <2>2, SameBatch
<1>6. ASSUME NEW m \in Matchers, CommitMatch(m) PROVE SightInv'
  <2> DEFINE B == matcher[m].batch
  <2>1. After(m, IdleMatch) /\ IdleMatch \in Pass /\ IdleMatch.batch = {}
    BY <1>6, Steps DEF IdleMatch
  <2>2. matcher'[m].batch = {} /\ \A n \in Matchers \ {m} : matcher'[n] = matcher[n]
    BY <1>0, <2>1, PassStep DEF After
  <2>3. unchecked' = unchecked \ B /\ checked' = checked \cup B /\ shared' = shared
    BY <1>6 DEF CommitMatch, MarkChecked
  <2>4. \A e \in Observations :
          sighted'[e] \in {sighted[e], IF e \in B THEN sighted[e] + Places(e) ELSE sighted[e]}
    BY <1>6 DEF CommitMatch
  <2>5. SightedOncePerPlace'
    <3> SUFFICES ASSUME NEW e \in Observations \ shared PROVE sighted'[e] <= Places(e)
      BY <2>3 DEF SightedOncePerPlace
    <3>1. CASE e \in B
      <4>1. e \in unchecked /\ e \notin checked
        BY <3>1 DEF SightInv, HeldBatches
      <4>2. sighted[e] = 0
        BY <1>0, <4>1 DEF SightInv, HeldBatches
      <4> QED BY <2>4, <4>2, PlacesNat
    <3>2. CASE e \notin B
      BY <2>4, <3>2 DEF SightInv, SightedOncePerPlace
    <3> QED BY <3>1, <3>2
  <2>6. \A e \in Observations : sighted'[e] > 0 => e \in checked'
    BY <2>3, <2>4, PlacesNat DEF SightInv, HeldBatches
  <2>7. \A n \in Matchers : matcher'[n].batch \subseteq unchecked' \cup shared
    BY <2>2, <2>3 DEF SightInv, HeldBatches
  <2>8. \A k, n \in Matchers : k # n => matcher'[k].batch \cap matcher'[n].batch \subseteq shared
    BY <2>2 DEF SightInv, HeldBatches
  <2>9. unchecked' \cap checked' = {}
    BY <2>3 DEF SightInv, HeldBatches
  <2> QED BY <2>3, <2>5, <2>6, <2>7, <2>8, <2>9 DEF SightInv, HeldBatches
<1> QED BY <1>1, <1>2, <1>3, <1>4, <1>5, <1>6 DEF IocNext, Match

\* An event leads to one sighting for each of its columns that has the value, for any
\* number of passes and wherever they are cut short, unless two of them held it at once.
THEOREM Sightings == IocSpec => []SightedOncePerPlace
<1>1. SightInv => SightedOncePerPlace
  BY DEF SightInv
<1> QED BY <1>1, SightInit, SightStep, IocTypes, PTL DEF IocSpec
=============================================================================
