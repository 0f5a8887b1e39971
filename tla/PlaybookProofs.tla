---------------------------- MODULE PlaybookProofs ----------------------------
(***************************************************************************)
(* Proofs about Playbook, about Cases and about their union MCSoar.  A     *)
(* decision on a run writes back the row it read, and a request on a case  *)
(* the lists it read, so what can go wrong lies between the read and the   *)
(* write.                                                                  *)
(*                                                                         *)
(* The invariants say what a decision under way still knows about its run: *)
(* that the run exists and keeps its trigger and alert (AutoOnce), and     *)
(* that, unless two decisions are on it at once, it awaits approval still  *)
(* and has had none of the steps the decision will run (VerdictIsFinal,    *)
(* ActsOnce); and of a request on a case, that it has read all that is     *)
(* owed on the lists it will write (RecordKept).                           *)
(*                                                                         *)
(* That every index of a result lies within MaxSteps takes the maximum of  *)
(* a finite set of numbers (MaxIsGreatest): the one with the fewest        *)
(* numbers above it, for which a minimum is enough.                        *)
(***************************************************************************)
EXTENDS MCSoar, TLAPS, SequenceTheorems, WellFoundedInduction, FiniteSetTheorems

Decision == [pc : {"deciding"}, run : Row, steps : Definitions, approve : BOOLEAN, id : Runs]

Shaped == /\ playbook \in [steps : Definitions, enabled : BOOLEAN, status : {"idle", "running"}]
          /\ run \in [Runs -> Row]
          /\ acted \in [Runs -> [1 .. MaxSteps -> Nat]]
          /\ decider \in [Deciders -> {Idle} \cup Decision]

-----------------------------------------------------------------------------
(* _exec_from *)

LEMMA MinIsLeast ==
  ASSUME NEW S \in SUBSET Nat, S # {}
  PROVE  Min(S) \in S /\ \A y \in S : Min(S) <= y
<1>1. PICK x \in S : \A y \in S : ~ (<<y, x>> \in OpToRel(<, Nat))
  BY NatLessThanWellFounded, WFMin
<1>2. ASSUME NEW y \in S PROVE x <= y
  <2>1. ~ (<<y, x>> \in OpToRel(<, Nat))
    BY <1>1
  <2>2. x \in Nat /\ y \in Nat
    OBVIOUS
  <2>3. ~ (y < x)
    BY <2>1, <2>2 DEF OpToRel
  <2> QED BY <2>2, <2>3
<1> QED BY <1>2 DEF Min

LEMMA MaxIsGreatest ==
  ASSUME NEW S \in SUBSET Nat, S # {}, IsFiniteSet(S)
  PROVE  Max(S) \in S /\ \A y \in S : y <= Max(S)
<1> DEFINE Above(a) == {z \in S : z > a}
           N == {Cardinality(Above(x)) : x \in S}
<1>1. ASSUME NEW x \in S
      PROVE  IsFiniteSet(Above(x)) /\ Cardinality(Above(x)) \in Nat
  <2>1. Above(x) \in SUBSET S
    OBVIOUS
  <2> HIDE DEF Above
  <2>2. IsFiniteSet(Above(x))
    BY <2>1, FS_Subset
  <2> QED BY <2>2, FS_CardinalityType
<1>2. N \in SUBSET Nat /\ N # {}
  BY <1>1
<1>3. Min(N) \in N /\ \A n \in N : Min(N) <= n
  <2> HIDE DEF N
  <2> QED BY <1>2, MinIsLeast
<1>4. PICK x \in S : Min(N) = Cardinality(Above(x))
  BY <1>3
<1>5. ASSUME NEW y \in S, y > x PROVE FALSE
  <2>1. Above(y) \in SUBSET Above(x) /\ y \in Above(x) /\ y \notin Above(y)
    <3>1. \A z \in S : z \in Nat /\ (z > y => z > x)
      BY <1>5
    <3>2. ~ (y > y)
      BY <3>1
    <3>3. Above(y) \subseteq Above(x)
      BY <3>1
    <3> QED BY <1>5, <3>2, <3>3
  <2>2. Cardinality(Above(x)) <= Cardinality(Above(y))
    BY <1>3, <1>4
  <2> HIDE DEF Above, N
  <2>3. /\ Cardinality(Above(y)) <= Cardinality(Above(x))
        /\ Cardinality(Above(x)) = Cardinality(Above(y)) => Above(x) = Above(y)
    BY <1>1, <2>1, FS_Subset
  <2> QED BY <1>1, <2>1, <2>2, <2>3
<1>6. \A y \in S : x >= y
  BY <1>5
<1> QED BY <1>6 DEF Max

\* No definition of the playbook is longer than MaxSteps.
LEMMA StepsBounded == MaxSteps \in Nat /\ \A def \in Definitions : Len(def) <= MaxSteps
<1> DEFINE L == {Len(def) : def \in Definitions}
           len == [def \in Definitions |-> Len(def)]
<1>1. L \in SUBSET Nat /\ L # {}
  BY PlaybookAssumption, LenProperties
<1>2. IsFiniteSet(L)
  <2>1. len \in Surjection(Definitions, L)
    BY DEF Surjection
  <2> HIDE DEF len, L
  <2> QED BY <2>1, PlaybookAssumption, FS_Surjection
<1>3. Max(L) \in L /\ \A n \in L : n <= Max(L)
  <2> HIDE DEF L
  <2> QED BY <1>1, <1>2, MaxIsGreatest
<1> QED BY <1>1, <1>3 DEF MaxSteps

LEMMA KindsOfSteps ==
  ASSUME NEW def \in Definitions
  PROVE  Len(def) \in Nat /\ \A i \in 1 .. Len(def) : def[i] \in Kinds
<1>1. def \in Seq(Kinds)
  BY PlaybookAssumption
<1> QED BY <1>1, LenProperties, ElementOfSeq

LEMMA StopRange ==
  ASSUME NEW def \in Definitions, NEW start \in Nat \ {0}, NEW o
  PROVE  LET h == Stop(def, start, o)
         IN  h \in Nat /\ (h \in start .. Len(def) \/ h = Len(def) + 1)
<1> DEFINE S == {i \in start .. Len(def) : Stops(def, o, i)} \cup {Len(def) + 1}
<1>1. Len(def) \in Nat
  BY KindsOfSteps
<1>2. S \in SUBSET Nat /\ S # {}
  BY <1>1
<1>3. Min(S) \in S
  <2> HIDE DEF S
  <2> QED BY <1>2, MinIsLeast
<1>4. Stop(def, start, o) = Min(S)
  BY DEF Stop
<1> QED BY <1>1, <1>2, <1>3, <1>4

LEMMA SameInterval == ASSUME NEW m \in Nat, NEW n \in Nat, 1 .. m = 1 .. n PROVE m = n
<1>1. m <= n
  <2>1. CASE m = 0
    BY <2>1
  <2>2. CASE m # 0
    <3>1. m \in 1 .. m
      BY <2>2
    <3> QED BY <3>1
  <2> QED BY <2>1, <2>2
<1>2. n <= m
  <2>1. CASE n = 0
    BY <2>1
  <2>2. CASE n # 0
    <3>1. n \in 1 .. n
      BY <2>2
    <3> QED BY <3>1
  <2> QED BY <2>1, <2>2
<1> QED BY <1>1, <1>2

LEMMA SeqOfResults ==
  ASSUME NEW n \in Nat, NEW f \in [1 .. n -> Result]
  PROVE  f \in Seq(Result) /\ Len(f) = n
<1>1. f \in Seq(Result)
  BY SeqDef
<1>2. DOMAIN f = 1 .. Len(f) /\ Len(f) \in Nat
  BY <1>1, LenProperties
<1>3. 1 .. Len(f) = 1 .. n
  BY <1>2
<1> QED BY <1>1, <1>2, <1>3, SameInterval

\* A sequence of as many results as there are numbers from 1 to n, n negative or not.
LEMMA Results ==
  ASSUME NEW n \in Int, NEW f \in [1 .. n -> Result]
  PROVE  f \in Seq(Result) /\ (n >= 0 => Len(f) = n)
<1>1. CASE n >= 0
  BY <1>1, SeqOfResults
<1>2. CASE n < 0
  <2>1. 1 .. n = 1 .. 0
    BY <1>2
  <2>2. f \in [1 .. 0 -> Result]
    BY <2>1
  <2> QED BY <1>2, <2>2, SeqOfResults
<1> QED BY <1>1, <1>2

Outcome == {"success", "skipped", "failed", "gated"}

LEMMA OutcomeRange ==
  ASSUME NEW def \in Definitions, NEW o \in Outcomes(def), NEW i \in 1 .. Len(def)
  PROVE  o[i] \in Outcome
  BY DEF Outcomes, Outcome

\* What _exec_from appends; a run that pauses records everything up to its pause.
LEMMA ExecutedType ==
  ASSUME NEW def \in Definitions, NEW start \in Nat \ {0}, NEW o \in Outcomes(def)
  PROVE  /\ Executed(def, start, o) \in Seq(Result)
         /\ Pauses(def, start, o) =>
              Len(Executed(def, start, o)) = Stop(def, start, o) + 1 - start
<1> DEFINE h == Stop(def, start, o)
           status(i) == CASE i < h -> o[i]
                          [] i = h -> IF def[i] = "approval" THEN "pending-approval" ELSE o[i]
                          [] i > h -> "skipped"
           last == IF Pauses(def, start, o) THEN h ELSE Len(def)
           n == last + 1 - start
           f == [k \in 1 .. n |-> [idx |-> start + k - 1, kind |-> def[start + k - 1],
                                   status |-> status(start + k - 1)]]
<1>1. h \in Nat /\ Len(def) \in Nat
  BY StopRange, KindsOfSteps
<1>2. last \in Nat /\ last <= Len(def)
  BY <1>1 DEF Pauses
<1>3. n \in Int
  BY <1>2
<1>4. ASSUME NEW k \in 1 .. n PROVE f[k] \in Result
  <2>1. k \in Nat /\ start + k - 1 \in 1 .. Len(def)
    BY <1>2
  <2>2. def[start + k - 1] \in Kinds /\ o[start + k - 1] \in Outcome
    BY <2>1, KindsOfSteps, OutcomeRange
  <2>3. status(start + k - 1) \in {"success", "skipped", "failed", "gated", "pending-approval"}
    <3> DEFINE i == start + k - 1
    <3>1. i \in Nat /\ (i < h \/ i = h \/ i > h)
      BY <1>1, <2>1
    <3> HIDE DEF i, h
    <3> QED BY <1>1, <2>2, <3>1 DEF Outcome, i
  <2>4. start + k - 1 \in 1 .. MaxSteps
    BY <1>1, <2>1, StepsBounded
  <2>5. f[k] = [idx |-> start + k - 1, kind |-> def[start + k - 1], status |-> status(start + k - 1)]
    <3> HIDE DEF n, status
    <3> QED OBVIOUS
  <2> HIDE DEF f, status, h, n
  <2> QED BY <2>2, <2>3, <2>4, <2>5 DEF Result
<1>5. f \in [1 .. n -> Result]
  <2>1. f = [k \in 1 .. n |-> f[k]]
    <3> HIDE DEF n, status
    <3> QED OBVIOUS
  <2> HIDE DEF f, n
  <2> QED BY <1>4, <2>1
<1>6. Executed(def, start, o) = f
  BY DEF Executed
<1>7. Pauses(def, start, o) => n = h + 1 - start /\ n >= 0
  <2>1. h \in start .. Len(def) \/ h = Len(def) + 1
    BY StopRange
  <2> QED BY <1>1, <2>1 DEF Pauses
<1> HIDE DEF f, n
<1> QED BY <1>3, <1>5, <1>6, <1>7, Results

LEMMA StampedType ==
  ASSUME NEW row \in Row, NEW approve \in BOOLEAN
  PROVE  /\ Stamped(row, approve) \in Seq(Result)
         /\ Len(Stamped(row, approve)) = Len(row.steps)
<1> DEFINE n == Len(row.steps)
           f == Stamped(row, approve)
<1>1. row.steps \in Seq(Result)
  BY DEF Row, Terminal
<1>2. n \in Nat /\ \A k \in 1 .. n : row.steps[k] \in Result
  BY <1>1, LenProperties, ElementOfSeq
<1>3. f = [k \in 1 .. n |->
             IF row.steps[k].idx = row.current /\ row.steps[k].status = "pending-approval"
             THEN [row.steps[k] EXCEPT !.status = IF approve THEN "success" ELSE "failed"]
             ELSE row.steps[k]]
  BY DEF Stamped
<1>4. ASSUME NEW k \in 1 .. n
      PROVE  [row.steps[k] EXCEPT !.status = IF approve THEN "success" ELSE "failed"] \in Result
  <2>1. row.steps[k] \in Result
    BY <1>2
  <2> QED BY <2>1 DEF Result
<1>5. f \in [1 .. n -> Result]
  BY <1>2, <1>3, <1>4
<1> HIDE DEF f, n
<1>6. f \in Seq(Result) /\ Len(f) = n
  BY <1>2, <1>5, SeqOfResults
<1> QED BY <1>6 DEF f, n

LEMMA SkippedType ==
  ASSUME NEW def \in Definitions, NEW start \in Nat \ {0}
  PROVE  SkippedFrom(def, start) \in Seq(Result)
<1> DEFINE n == Len(def) + 1 - start
           f == SkippedFrom(def, start)
<1>1. n \in Int
  BY KindsOfSteps
<1>2. f = [k \in 1 .. n |->
             [idx |-> start + k - 1, kind |-> def[start + k - 1], status |-> "skipped"]]
  BY DEF SkippedFrom
<1>3. ASSUME NEW k \in 1 .. n
      PROVE  [idx |-> start + k - 1, kind |-> def[start + k - 1], status |-> "skipped"] \in Result
  <2>1. start + k - 1 \in 1 .. Len(def) /\ start + k - 1 \in 1 .. MaxSteps
    BY KindsOfSteps, StepsBounded
  <2>2. def[start + k - 1] \in Kinds
    BY <2>1, KindsOfSteps
  <2> QED BY <2>1, <2>2 DEF Result
<1>4. f \in [1 .. n -> Result]
  BY <1>2, <1>3
<1> HIDE DEF f, n
<1> QED BY <1>1, <1>4, Results DEF f

Live == {"awaiting-approval", "success", "failed", "rejected"}

\* The row a decision writes.
LEMMA SavedType ==
  ASSUME NEW row \in Row, NEW status \in Live,
         NEW results \in Seq(Result)
  PROVE  LET new == Saved(row, status, results)
         IN  /\ new \in Row
             /\ new.status = status /\ new.trigger = row.trigger /\ new.alert = row.alert
             /\ new.steps = results /\ new.current = Len(results) + 1
<1>1. Len(results) + 1 \in Nat
  BY LenProperties
<1> QED BY <1>1 DEF Saved, Row, Terminal, Live

LEMMA StatusAfterRange ==
  ASSUME NEW def \in Definitions, NEW start \in Nat \ {0}, NEW o \in Outcomes(def)
  PROVE  /\ StatusAfter(def, start, o) \in {"awaiting-approval", "success", "failed"}
         /\ StatusAfter(def, start, o) = "awaiting-approval" <=> Pauses(def, start, o)
<1> QED BY Zenon DEF StatusAfter

\* The effects lie between where the execution starts and where it stops.
LEMMA EffectsRange ==
  ASSUME NEW def \in Definitions, NEW start \in Nat \ {0}, NEW o, NEW i \in Effects(def, start, o)
  PROVE  i \in Nat /\ start <= i /\ i < Stop(def, start, o)
<1>1. i \in start .. Len(def) /\ i < Stop(def, start, o)
  BY DEF Effects
<1> QED BY <1>1, KindsOfSteps

-----------------------------------------------------------------------------
(* The writes of a start and of a decision *)

Written(r, new, S) ==
  /\ run' = [run EXCEPT ![r] = new]
  /\ Count(r, S)

LEMMA ExecuteWrites ==
  ASSUME Shaped, NEW r \in Runs, NEW trigger \in {"manual", "auto"},
         NEW a \in Alerts \cup {NoAlert}, Execute(r, trigger, a)
  PROVE  /\ playbook' \in [steps : Definitions, enabled : BOOLEAN, status : {"idle", "running"}]
         /\ \E new \in Row, S \in SUBSET Nat :
              /\ Written(r, new, S)
              /\ new.status \in Live /\ new.trigger = trigger /\ new.alert = a
              /\ new.current <= Len(new.steps) + 1
              /\ new.status = "awaiting-approval" => S \subseteq 1 .. new.current
<1> DEFINE def == playbook.steps
<1>0. def \in Definitions
  BY DEF Shaped
<1>1. PICK o \in Outcomes(def) :
        /\ run' = [run EXCEPT ![r] =
                     [status   |-> StatusAfter(def, 1, o),
                      trigger  |-> trigger,
                      alert    |-> a,
                      current  |-> IF Pauses(def, 1, o) THEN Len(Executed(def, 1, o))
                                   ELSE Len(Executed(def, 1, o)) + 1,
                      steps    |-> Executed(def, 1, o),
                      finished |-> ~ Pauses(def, 1, o)]]
        /\ playbook' = [playbook EXCEPT !.status = IF Pauses(def, 1, o) THEN "running" ELSE "idle"]
        /\ Count(r, Effects(def, 1, o))
  BY Zenon DEF Execute
<1> DEFINE results == Executed(def, 1, o)
           paused == Pauses(def, 1, o)
           status == StatusAfter(def, 1, o)
           S == Effects(def, 1, o)
           h == Stop(def, 1, o)
           cur == IF paused THEN Len(results) ELSE Len(results) + 1
           new == [status   |-> status, trigger  |-> trigger, alert |-> a, current |-> cur,
                   steps |-> results, finished |-> ~ paused]
<1>2. results \in Seq(Result) /\ (paused => Len(results) = h + 1 - 1)
  BY <1>0, ExecutedType
<1>3. h \in Nat
  BY <1>0, StopRange
<1>4. status \in {"awaiting-approval", "success", "failed"} /\ (status = "awaiting-approval" <=> paused)
  BY <1>0, StatusAfterRange
<1>5. \A i \in S : i \in Nat /\ 1 <= i /\ i < h
  BY <1>0, EffectsRange
<1>6. paused \in BOOLEAN
  BY DEF Pauses
<1>7. Len(results) \in Nat
  BY <1>2, LenProperties
<1> HIDE DEF results, paused, status, S, h, def
<1>8. cur \in Nat /\ cur <= Len(results) + 1 /\ (paused => cur = h)
  BY <1>2, <1>3, <1>7
<1> HIDE DEF cur
<1>9. new \in Row
  BY <1>2, <1>4, <1>6, <1>8 DEF Row, Terminal
<1>10. new.status = "awaiting-approval" => S \subseteq 1 .. new.current
  BY <1>3, <1>4, <1>5, <1>8
<1>11. new.status \in Live /\ new.trigger = trigger /\ new.alert = a /\ new.current <= Len(new.steps) + 1
  BY <1>4, <1>8 DEF Live
<1>12. run' = [run EXCEPT ![r] = new] /\ Count(r, S)
  BY <1>1, Zenon DEF new, cur, results, paused, status, S, def
<1>13. playbook' \in [steps : Definitions, enabled : BOOLEAN, status : {"idle", "running"}]
  BY <1>1 DEF Shaped
<1> HIDE DEF new
<1>14. S \in SUBSET Nat
  BY <1>5
<1> QED BY <1>9, <1>10, <1>11, <1>12, <1>13, <1>14 DEF Written

\* What a decision under way read, and what is known of its run by now.
Known(d) ==
  LET row == decider[d].run
      r   == decider[d].id
  IN  /\ row.status = "awaiting-approval"
      /\ row.current <= Len(row.steps) + 1
      /\ run[r].status # "none"
      /\ run[r].trigger = row.trigger /\ run[r].alert = row.alert
      /\ r \notin raced => run[r] = row

Decides(d) == Approve(d) \/ Reject(d)

\* A row that keeps the trigger and the alert of the old one and, where it waits again,
\* covers what has been done.
Follows(new, old, S) ==
  /\ new.status \in Live /\ new.trigger = old.trigger /\ new.alert = old.alert
  /\ new.current <= Len(new.steps) + 1
  /\ \A i \in S : old.current < i
  /\ new.status = "awaiting-approval" =>
       S \subseteq 1 .. new.current /\ old.current <= new.current

LEMMA DecisionShape ==
  ASSUME Shaped, NEW d \in Deciders, decider[d].pc = "deciding"
  PROVE  /\ decider[d].id \in Runs /\ decider[d].steps \in Definitions
         /\ decider[d].run \in Row /\ decider[d].approve \in BOOLEAN
<1>1. decider[d] \in {Idle} \cup Decision
  BY DEF Shaped
<1>2. decider[d] # Idle
  BY DEF Idle
<1> QED BY <1>1, <1>2 DEF Decision

LEMMA ResumeRange ==
  ASSUME NEW row \in Row PROVE ResumeAt(row) \in Nat \ {0} /\ ResumeAt(row) = row.current + 1
BY DEF ResumeAt, Row, Terminal

LEMMA ApproveWrites ==
  ASSUME Shaped, NEW d \in Deciders, Approve(d), Known(d)
  PROVE  \E new \in Row, S \in SUBSET Nat :
           Written(decider[d].id, new, S) /\ Follows(new, decider[d].run, S)
<1> DEFINE def == decider[d].steps
           row == decider[d].run
           r == decider[d].id
           at == ResumeAt(row)
<1>0. def \in Definitions /\ row \in Row /\ at \in Nat \ {0} /\ at = row.current + 1
  <2>1. decider[d].pc = "deciding"
    BY DEF Approve
  <2> QED BY <2>1, DecisionShape, ResumeRange
<1>1. PICK o \in Outcomes(def) :
        /\ run' = [run EXCEPT ![r] = Saved(row, StatusAfter(def, at, o),
                                           Stamped(row, TRUE) \o Executed(def, at, o))]
        /\ Count(r, Effects(def, at, o))
  BY Zenon DEF Approve
<1> DEFINE stamped == Stamped(row, TRUE)
           executed == Executed(def, at, o)
           paused == Pauses(def, at, o)
           status == StatusAfter(def, at, o)
           S == Effects(def, at, o)
           h == Stop(def, at, o)
           results == stamped \o executed
           new == Saved(row, status, results)
<1>2. executed \in Seq(Result) /\ (paused => Len(executed) = h + 1 - at)
  BY <1>0, ExecutedType
<1>3. stamped \in Seq(Result) /\ Len(stamped) = Len(row.steps)
  BY <1>0, StampedType
<1>4. h \in Nat
  BY <1>0, StopRange
<1>5. status \in {"awaiting-approval", "success", "failed"} /\ (status = "awaiting-approval" <=> paused)
  BY <1>0, StatusAfterRange
<1>6. \A i \in S : i \in Nat /\ at <= i /\ i < h
  BY <1>0, EffectsRange
<1>7. Len(executed) \in Nat /\ Len(stamped) \in Nat
  BY <1>2, <1>3, LenProperties
<1> HIDE DEF stamped, executed, paused, status, S, h, def, at
<1>8. results \in Seq(Result) /\ Len(results) = Len(stamped) + Len(executed)
  BY <1>2, <1>3, ConcatProperties
<1>9. row.current <= Len(stamped) + 1 /\ row.current \in Nat
  BY <1>0, <1>3 DEF Known, Row, Terminal
<1> HIDE DEF results, row
<1>10. /\ new \in Row
       /\ new.status = status /\ new.trigger = row.trigger /\ new.alert = row.alert
       /\ new.steps = results /\ new.current = Len(results) + 1
  <2>1. status \in Live
    BY <1>5 DEF Live
  <2>2. row \in Row
    BY <1>0
  <2>3. results \in Seq(Result)
    BY <1>8
  <2> QED BY <2>1, <2>2, <2>3, SavedType
<1> HIDE DEF new
<1>11. S \in SUBSET Nat
  BY <1>6
<1>12. \A i \in S : row.current < i
  BY <1>0, <1>6, <1>9
<1>13. Len(results) \in Nat
  BY <1>7, <1>8
<1>14. ASSUME status = "awaiting-approval" PROVE h <= new.current + 1 /\ row.current <= new.current
  <2>1. Len(executed) = h + 1 - at /\ at = row.current + 1
    BY <1>0, <1>2, <1>5, <1>14
  <2>2. new.current = Len(stamped) + Len(executed) + 1
    BY <1>8, <1>10
  <2> HIDE DEF at
  <2> DEFINE a == Len(stamped)
             b == Len(executed)
             c == row.current
  <2>3. a \in Nat /\ b \in Nat /\ c \in Nat /\ c <= a + 1 /\ b = h + 1 - (c + 1) /\ new.current = a + b + 1
    BY <1>7, <1>9, <2>1, <2>2
  <2> HIDE DEF a, b, c
  <2>4. h <= new.current + 1 /\ c <= new.current
    BY <1>4, <2>3
  <2> QED BY <2>4 DEF c
<1>15. status = "awaiting-approval" => S \subseteq 1 .. new.current /\ row.current <= new.current
  <2> SUFFICES ASSUME status = "awaiting-approval"
               PROVE  S \subseteq 1 .. new.current /\ row.current <= new.current
    OBVIOUS
  <2>1. row.current <= new.current
    BY <1>5, <1>14
  <2>2. ASSUME NEW i \in S PROVE i \in 1 .. new.current
    BY <1>0, <1>4, <1>6, <1>10, <1>13, <1>14, <2>2
  <2> QED BY <2>1, <2>2
<1>16. Follows(new, row, S)
  BY <1>5, <1>10, <1>12, <1>13, <1>15 DEF Follows, Live
<1>17. run' = [run EXCEPT ![r] = new] /\ Count(r, S)
  BY <1>1, Zenon DEF new, results, stamped, executed, status, S, def, at, row
<1> QED BY <1>10, <1>11, <1>16, <1>17 DEF Written, row

LEMMA RejectWrites ==
  ASSUME Shaped, NEW d \in Deciders, Reject(d), Known(d)
  PROVE  \E new \in Row, S \in SUBSET Nat :
           Written(decider[d].id, new, S) /\ Follows(new, decider[d].run, S)
<1> DEFINE def == decider[d].steps
           row == decider[d].run
           r == decider[d].id
           results == Stamped(row, FALSE) \o SkippedFrom(def, ResumeAt(row))
           new == Saved(row, "rejected", results)
<1>0. def \in Definitions /\ row \in Row /\ r \in Runs /\ ResumeAt(row) \in Nat \ {0}
  <2>1. decider[d].pc = "deciding"
    BY DEF Reject
  <2> QED BY <2>1, DecisionShape, ResumeRange
<1>1. run' = [run EXCEPT ![r] = new] /\ acted' = acted
  BY Zenon DEF Reject
<1>2. results \in Seq(Result)
  BY <1>0, StampedType, SkippedType, ConcatProperties
<1> HIDE DEF results
<1>3. /\ new \in Row
      /\ new.status = "rejected" /\ new.trigger = row.trigger /\ new.alert = row.alert
      /\ new.steps = results /\ new.current = Len(results) + 1
  <2> HIDE DEF row
  <2>1. "rejected" \in Live
    BY DEF Live
  <2> QED BY <1>0, <1>2, <2>1, SavedType
<1>4. Len(results) \in Nat
  BY <1>2, LenProperties
<1>5. Follows(new, row, {})
  <2> HIDE DEF row, new
  <2> QED BY <1>3, <1>4 DEF Follows, Live
<1>6. Count(r, {})
  <2>1. acted[r] = [i \in 1 .. MaxSteps |-> acted[r][i]]
    BY <1>0 DEF Shaped
  <2>2. acted' = [acted EXCEPT ![r] = acted[r]]
    BY <1>0, <1>1 DEF Shaped
  <2>3. [i \in 1 .. MaxSteps |-> IF i \in {} THEN acted[r][i] + 1 ELSE acted[r][i]] = acted[r]
    BY <2>1
  <2> HIDE DEF r
  <2> QED BY <2>2, <2>3, Zenon DEF Count
<1> HIDE DEF new
<1> QED BY <1>1, <1>3, <1>5, <1>6 DEF Written

LEMMA WrittenShape ==
  ASSUME Shaped, NEW r \in Runs, NEW new \in Row, NEW S \in SUBSET Nat, Written(r, new, S)
  PROVE  /\ run' \in [Runs -> Row] /\ acted' \in [Runs -> [1 .. MaxSteps -> Nat]]
         /\ run'[r] = new
         /\ \A i \in 1 .. MaxSteps :
              acted'[r][i] = IF i \in S THEN acted[r][i] + 1 ELSE acted[r][i]
         /\ \A s \in Runs \ {r} : run'[s] = run[s] /\ acted'[s] = acted[s]
<1> DEFINE D == 1 .. MaxSteps
           counts == [i \in D |-> IF i \in S THEN acted[r][i] + 1 ELSE acted[r][i]]
<1>1. run \in [Runs -> Row] /\ acted \in [Runs -> [D -> Nat]]
  BY DEF Shaped
<1>2. run' = [run EXCEPT ![r] = new] /\ acted' = [acted EXCEPT ![r] = counts]
  BY Zenon DEF Written, Count
<1> HIDE DEF D
<1>3. counts \in [D -> Nat]
  BY <1>1
<1>4. \A i \in D : counts[i] = IF i \in S THEN acted[r][i] + 1 ELSE acted[r][i]
  OBVIOUS
<1> HIDE DEF counts
<1>5. acted'[r] = counts /\ acted' \in [Runs -> [D -> Nat]] /\ \A s \in Runs \ {r} : acted'[s] = acted[s]
  BY <1>1, <1>2, <1>3
<1>6. run'[r] = new /\ run' \in [Runs -> Row] /\ \A s \in Runs \ {r} : run'[s] = run[s]
  BY <1>1, <1>2
<1> QED BY <1>4, <1>5, <1>6 DEF D

-----------------------------------------------------------------------------
(* The inductive invariant *)

\* A run nobody has started has no trigger and has done nothing.
RowsKnown ==
  \A r \in Runs : run[r].status = "none" =>
    run[r].trigger = "manual" /\ \A i \in 1 .. MaxSteps : acted[r][i] = 0

RowsBounded == \A r \in Runs : run[r].current <= Len(run[r].steps) + 1

DecisionsKnow == \A d \in Deciders : decider[d].pc = "deciding" => Known(d)

Overlapped ==
  \A d, e \in Deciders :
    (d # e /\ decider[d].pc = "deciding" /\ decider[e].pc = "deciding" /\ decider[d].id = decider[e].id)
    => decider[d].id \in raced

\* What a run has done it has done once, and all of it before the step it waits at.
DoneOnce ==
  \A r \in Runs : r \notin raced =>
    \A i \in 1 .. MaxSteps :
      /\ acted[r][i] <= 1
      /\ (run[r].status = "awaiting-approval" /\ acted[r][i] # 0) => i \in 1 .. run[r].current

IInv == Shaped /\ RowsKnown /\ RowsBounded /\ DecisionsKnow /\ Overlapped /\ DoneOnce /\ AutoOnce

LEMMA InitIInv == Init => IInv
<1> SUFFICES ASSUME Init PROVE IInv
  OBVIOUS
<1>1. NoRun \in Row /\ NoRun.status = "none" /\ NoRun.trigger = "manual" /\ NoRun.current <= Len(NoRun.steps) + 1
  BY DEF NoRun, Row, Terminal
<1>2. run \in [Runs -> Row] /\ \A r \in Runs : run[r] = NoRun
  BY <1>1 DEF Init
<1>3. \A d \in Deciders : decider[d] = Idle
  BY DEF Init
<1>4. \A r \in Runs, i \in 1 .. MaxSteps : acted[r][i] = 0
  <2> DEFINE D == 1 .. MaxSteps
  <2>1. acted = [r \in Runs |-> [i \in D |-> 0]]
    BY DEF Init
  <2> HIDE DEF D
  <2>2. \A r \in Runs, i \in D : acted[r][i] = 0
    BY <2>1
  <2> QED BY <2>2 DEF D
<1>5. Idle.pc # "deciding"
  BY DEF Idle
<1>6. Shaped
  <2>1. playbook \in [steps : Definitions, enabled : BOOLEAN, status : {"idle", "running"}]
    BY DEF Init
  <2>2. acted \in [Runs -> [1 .. MaxSteps -> Nat]]
    BY DEF Init
  <2>3. decider \in [Deciders -> {Idle} \cup Decision]
    BY DEF Init
  <2> QED BY <1>2, <2>1, <2>2, <2>3 DEF Shaped
<1>7. RowsKnown /\ RowsBounded
  BY <1>1, <1>2, <1>4 DEF RowsKnown, RowsBounded
<1>8. DecisionsKnow /\ Overlapped
  BY <1>3, <1>5, Zenon DEF DecisionsKnow, Overlapped
<1>9. DoneOnce
  BY <1>4 DEF DoneOnce
<1>10. AutoOnce
  BY <1>1, <1>2 DEF AutoOnce
<1> QED BY <1>6, <1>7, <1>8, <1>9, <1>10 DEF IInv

\* Run r begins.
LEMMA StartKeeps ==
  ASSUME IInv, NEW r \in Runs, NEW trigger \in {"manual", "auto"}, NEW a \in Alerts \cup {NoAlert},
         run[r].status = "none", Execute(r, trigger, a), UNCHANGED <<decider, raced>>,
         trigger = "auto" => \A s \in Runs : run[s].status # "none" => run[s].alert # a
  PROVE  IInv'
<1>1. Shaped
  BY DEF IInv
<1>2. PICK new \in Row, S \in SUBSET Nat :
        /\ Written(r, new, S)
        /\ new.status \in Live /\ new.trigger = trigger /\ new.alert = a
        /\ new.current <= Len(new.steps) + 1
        /\ new.status = "awaiting-approval" => S \subseteq 1 .. new.current
  BY <1>1, ExecuteWrites
<1>3. /\ run' \in [Runs -> Row] /\ acted' \in [Runs -> [1 .. MaxSteps -> Nat]]
      /\ run'[r] = new
      /\ \A i \in 1 .. MaxSteps : acted'[r][i] = IF i \in S THEN acted[r][i] + 1 ELSE acted[r][i]
      /\ \A s \in Runs \ {r} : run'[s] = run[s] /\ acted'[s] = acted[s]
  <2>1. Written(r, new, S)
    BY <1>2
  <2> QED BY <1>1, <2>1, WrittenShape
<1>4. Shaped'
  <2>1. playbook' \in [steps : Definitions, enabled : BOOLEAN, status : {"idle", "running"}]
    BY <1>1, ExecuteWrites
  <2>2. decider' \in [Deciders -> {Idle} \cup Decision]
    BY <1>1 DEF Shaped
  <2> QED BY <1>3, <2>1, <2>2 DEF Shaped
<1>5. \A i \in 1 .. MaxSteps : acted[r][i] = 0
  BY DEF IInv, RowsKnown
<1>6. new.status # "none"
  BY <1>2 DEF Live
<1>7. RowsKnown'
  <2> SUFFICES ASSUME NEW s \in Runs, run'[s].status = "none"
               PROVE  run'[s].trigger = "manual" /\ \A i \in 1 .. MaxSteps : acted'[s][i] = 0
    BY DEF RowsKnown
  <2>1. s # r
    BY <1>3, <1>6
  <2>2. run'[s] = run[s] /\ acted'[s] = acted[s]
    BY <1>3, <2>1
  <2> QED BY <2>2 DEF IInv, RowsKnown
<1>8. RowsBounded'
  BY <1>2, <1>3 DEF IInv, RowsBounded
<1>9. DecisionsKnow'
  <2> SUFFICES ASSUME NEW d \in Deciders, decider[d].pc = "deciding" PROVE Known(d)'
    BY DEF DecisionsKnow
  <2>1. Known(d) /\ decider[d].id \in Runs
    BY <1>1, DecisionShape DEF IInv, DecisionsKnow
  <2>2. decider[d].id # r
    BY <2>1 DEF Known
  <2>3. run'[decider[d].id] = run[decider[d].id]
    BY <1>3, <2>1, <2>2
  <2> QED BY <2>1, <2>3 DEF Known
<1>10. Overlapped'
  BY DEF IInv, Overlapped
<1>11. DoneOnce'
  <2> SUFFICES ASSUME NEW s \in Runs, s \notin raced, NEW i \in 1 .. MaxSteps
               PROVE  /\ acted'[s][i] <= 1
                      /\ (run'[s].status = "awaiting-approval" /\ acted'[s][i] # 0) => i \in 1 .. run'[s].current
    BY DEF DoneOnce
  <2>1. CASE s = r
    <3>1. acted'[r][i] = IF i \in S THEN 1 ELSE 0
      BY <1>3, <1>5
    <3> QED BY <1>2, <1>3, <2>1, <3>1
  <2>2. CASE s # r
    <3>1. run'[s] = run[s] /\ acted'[s] = acted[s]
      BY <1>3, <2>2
    <3> QED BY <3>1 DEF IInv, DoneOnce
  <2> QED BY <2>1, <2>2
<1>12. AutoOnce'
  <2> SUFFICES ASSUME NEW s \in Runs, NEW t \in Runs, s # t,
                      run'[s].trigger = "auto", run'[t].trigger = "auto"
               PROVE  run'[s].alert # run'[t].alert
    BY DEF AutoOnce
  <2>1. ASSUME NEW u \in Runs, u # r, run'[u].trigger = "auto", run'[r].trigger = "auto"
        PROVE  run'[u].alert # run'[r].alert
    <3>1. run'[u] = run[u] /\ run'[r] = new
      BY <1>3, <2>1
    <3>2. run[u].status # "none"
      BY <2>1, <3>1 DEF IInv, RowsKnown
    <3> QED BY <1>2, <2>1, <3>1, <3>2
  <2>2. CASE s # r /\ t # r
    <3>1. run'[s] = run[s] /\ run'[t] = run[t]
      BY <1>3, <2>2
    <3> QED BY <3>1 DEF IInv, AutoOnce
  <2> QED BY <2>1, <2>2
<1> QED BY <1>4, <1>7, <1>8, <1>9, <1>10, <1>11, <1>12 DEF IInv

\* A person opens run r: a second one is what raced remembers.
LEMMA ReadKeeps ==
  ASSUME IInv, NEW d \in Deciders, NEW r \in Runs, NEW approve \in BOOLEAN, ReadRun(d, r, approve)
  PROVE  IInv'
<1> DEFINE busy == \E e \in Deciders : decider[e].pc = "deciding" /\ decider[e].id = r
           taken == [pc |-> "deciding", run |-> run[r], steps |-> playbook.steps,
                     approve |-> approve, id |-> r]
<1>0. Shaped
  BY DEF IInv
<1>1. /\ decider[d] = Idle /\ run[r].status = "awaiting-approval"
      /\ decider' = [decider EXCEPT ![d] = taken]
      /\ UNCHANGED <<playbook, run, edits, acted>>
  BY DEF ReadRun
<1>2. raced' = IF busy THEN raced \cup {r} ELSE raced
  BY Zenon DEF ReadRun
<1>3. taken \in Decision
  BY <1>0 DEF Shaped, Decision
<1>4. taken.pc = "deciding" /\ taken.id = r /\ taken.run = run[r]
  OBVIOUS
<1>5. \A s \in raced : s \in raced'
  <2> HIDE DEF busy
  <2> QED BY <1>2
<1>6. busy => r \in raced'
  <2> HIDE DEF busy
  <2> QED BY <1>2
<1>7. decider[d].pc # "deciding"
  BY <1>1 DEF Idle
<1> HIDE DEF taken
<1>8. decider'[d] = taken /\ \A e \in Deciders \ {d} : decider'[e] = decider[e]
  BY <1>0, <1>1 DEF Shaped
<1>9. Shaped'
  <2>1. decider' \in [Deciders -> {Idle} \cup Decision]
    BY <1>0, <1>1, <1>3 DEF Shaped
  <2> QED BY <1>0, <1>1, <2>1 DEF Shaped
<1>10. RowsKnown' /\ RowsBounded' /\ AutoOnce'
  BY <1>1 DEF IInv, RowsKnown, RowsBounded, AutoOnce
<1>11. DecisionsKnow'
  <2> SUFFICES ASSUME NEW e \in Deciders, decider'[e].pc = "deciding" PROVE Known(e)'
    BY DEF DecisionsKnow
  <2>1. CASE e = d
    <3>1. run[r].current <= Len(run[r].steps) + 1
      BY DEF IInv, RowsBounded
    <3> QED BY <1>1, <1>4, <1>8, <2>1, <3>1 DEF Known
  <2>2. CASE e # d
    <3>1. decider'[e] = decider[e]
      BY <1>8, <2>2
    <3>2. Known(e)
      BY <3>1 DEF IInv, DecisionsKnow
    <3> QED BY <1>1, <1>5, <3>1, <3>2 DEF Known
  <2> QED BY <2>1, <2>2
<1>12. Overlapped'
  <2> SUFFICES ASSUME NEW e \in Deciders, NEW f \in Deciders, e # f,
                      decider'[e].pc = "deciding", decider'[f].pc = "deciding",
                      decider'[e].id = decider'[f].id
               PROVE  decider'[e].id \in raced'
    BY DEF Overlapped
  <2>1. ASSUME NEW g \in Deciders, g # d, decider'[g].pc = "deciding", decider'[g].id = r
        PROVE  r \in raced'
    <3>1. decider'[g] = decider[g]
      BY <1>8, <2>1
    <3> QED BY <1>6, <2>1, <3>1
  <2>2. CASE e = d \/ f = d
    BY <1>4, <1>8, <2>1, <2>2
  <2>3. CASE e # d /\ f # d
    <3>1. decider'[e] = decider[e] /\ decider'[f] = decider[f]
      BY <1>8, <2>3
    <3>2. decider[e].id \in raced
      BY <3>1 DEF IInv, Overlapped
    <3> QED BY <1>5, <3>1, <3>2
  <2> QED BY <2>2, <2>3
<1>13. DoneOnce'
  BY <1>1, <1>5 DEF IInv, DoneOnce
<1> QED BY <1>9, <1>10, <1>11, <1>12, <1>13 DEF IInv

LEMMA DecideWrites ==
  ASSUME IInv, NEW d \in Deciders, Decides(d)
  PROVE  /\ decider[d].pc = "deciding" /\ Known(d) /\ decider[d].id \in Runs
         /\ decider' = [decider EXCEPT ![d] = Idle] /\ raced' = raced
         /\ playbook' = [playbook EXCEPT !.status = "idle"]
         /\ \E new \in Row, S \in SUBSET Nat :
              Written(decider[d].id, new, S) /\ Follows(new, decider[d].run, S)
<1>0. Shaped
  BY DEF IInv
<1>1. decider[d].pc = "deciding"
  BY DEF Decides, Approve, Reject
<1>2. Known(d) /\ decider[d].id \in Runs
  BY <1>0, <1>1, DecisionShape DEF IInv, DecisionsKnow
<1>3. \E new \in Row, S \in SUBSET Nat :
        Written(decider[d].id, new, S) /\ Follows(new, decider[d].run, S)
  BY <1>0, <1>2, ApproveWrites, RejectWrites, Zenon DEF Decides
<1>4. decider' = [decider EXCEPT ![d] = Idle] /\ raced' = raced
      /\ playbook' = [playbook EXCEPT !.status = "idle"]
  BY Zenon DEF Decides, Approve, Reject
<1> QED BY <1>1, <1>2, <1>3, <1>4, Zenon

\* The decision of d is written.
LEMMA DecideKeeps ==
  ASSUME IInv, NEW d \in Deciders, Decides(d)
  PROVE  IInv'
<1> DEFINE r == decider[d].id
           row == decider[d].run
<1>0. Shaped
  BY DEF IInv
<1>1. /\ decider[d].pc = "deciding" /\ Known(d) /\ r \in Runs
      /\ decider' = [decider EXCEPT ![d] = Idle] /\ raced' = raced
      /\ playbook' = [playbook EXCEPT !.status = "idle"]
  BY DecideWrites, Zenon
<1>2. PICK new \in Row, S \in SUBSET Nat : Written(r, new, S) /\ Follows(new, row, S)
  BY DecideWrites, Zenon
<1>3. /\ run' \in [Runs -> Row] /\ acted' \in [Runs -> [1 .. MaxSteps -> Nat]]
      /\ run'[r] = new
      /\ \A i \in 1 .. MaxSteps : acted'[r][i] = IF i \in S THEN acted[r][i] + 1 ELSE acted[r][i]
      /\ \A s \in Runs \ {r} : run'[s] = run[s] /\ acted'[s] = acted[s]
  <2> HIDE DEF r
  <2> QED BY <1>0, <1>1, <1>2, WrittenShape
<1>4. decider'[d] = Idle /\ \A e \in Deciders \ {d} : decider'[e] = decider[e]
  BY <1>0, <1>1 DEF Shaped
<1>5. Idle.pc # "deciding"
  BY DEF Idle
<1>6. /\ run[r].status # "none" /\ run[r].trigger = new.trigger /\ run[r].alert = new.alert
      /\ new.status # "none"
  BY <1>1, <1>2 DEF Known, Follows, Live
<1>7. Shaped'
  <2>1. decider' \in [Deciders -> {Idle} \cup Decision]
    BY <1>0, <1>1 DEF Shaped
  <2>2. playbook' \in [steps : Definitions, enabled : BOOLEAN, status : {"idle", "running"}]
    BY <1>0, <1>1 DEF Shaped
  <2> QED BY <1>3, <2>1, <2>2 DEF Shaped
<1> HIDE DEF r, row
<1>8. RowsKnown'
  <2> SUFFICES ASSUME NEW s \in Runs, run'[s].status = "none"
               PROVE  run'[s].trigger = "manual" /\ \A i \in 1 .. MaxSteps : acted'[s][i] = 0
    BY DEF RowsKnown
  <2>1. run'[s] = run[s] /\ acted'[s] = acted[s]
    BY <1>3, <1>6
  <2> QED BY <2>1 DEF IInv, RowsKnown
<1>9. RowsBounded'
  <2>1. new.current <= Len(new.steps) + 1
    BY <1>2 DEF Follows
  <2> QED BY <1>3, <2>1 DEF IInv, RowsBounded
<1>10. ASSUME NEW e \in Deciders, decider'[e].pc = "deciding"
       PROVE  e # d /\ decider'[e] = decider[e] /\ decider[e].pc = "deciding" /\ (decider[e].id = r => r \in raced)
  <2>1. e # d /\ decider'[e] = decider[e] /\ decider[e].pc = "deciding"
    BY <1>4, <1>5, <1>10
  <2> QED BY <1>1, <2>1 DEF IInv, Overlapped, r
<1>11. DecisionsKnow'
  <2> SUFFICES ASSUME NEW e \in Deciders, decider'[e].pc = "deciding" PROVE Known(e)'
    BY DEF DecisionsKnow
  <2> DEFINE q == decider[e].id
  <2>1. decider'[e] = decider[e] /\ decider[e].pc = "deciding" /\ (q = r => r \in raced)
    BY <1>10
  <2>2. Known(e) /\ q \in Runs
    BY <1>0, <2>1, DecisionShape DEF IInv, DecisionsKnow
  <2>3. CASE q = r
    <3>1. run'[q].status # "none" /\ run'[q].trigger = run[q].trigger /\ run'[q].alert = run[q].alert
      BY <1>3, <1>6, <2>3
    <3>2. q \in raced'
      BY <1>1, <2>1, <2>3
    <3> QED BY <2>1, <2>2, <3>1, <3>2 DEF Known
  <2>4. CASE q # r
    <3>1. run'[q] = run[q]
      BY <1>3, <2>2, <2>4
    <3> QED BY <1>1, <2>1, <2>2, <3>1 DEF Known
  <2> QED BY <2>3, <2>4
<1>12. Overlapped'
  <2> SUFFICES ASSUME NEW e \in Deciders, NEW f \in Deciders, e # f,
                      decider'[e].pc = "deciding", decider'[f].pc = "deciding",
                      decider'[e].id = decider'[f].id
               PROVE  decider'[e].id \in raced'
    BY DEF Overlapped
  <2>1. decider'[e] = decider[e] /\ decider'[f] = decider[f]
    BY <1>10
  <2> QED BY <1>1, <2>1 DEF IInv, Overlapped
<1>13. DoneOnce'
  <2> SUFFICES ASSUME NEW s \in Runs, s \notin raced, NEW i \in 1 .. MaxSteps
               PROVE  /\ acted'[s][i] <= 1
                      /\ (run'[s].status = "awaiting-approval" /\ acted'[s][i] # 0) => i \in 1 .. run'[s].current
    BY <1>1 DEF DoneOnce
  <2>1. CASE s # r
    <3>1. run'[s] = run[s] /\ acted'[s] = acted[s]
      BY <1>3, <2>1
    <3> QED BY <3>1 DEF IInv, DoneOnce
  <2>2. CASE s = r
    <3>1. run[r] = row /\ row.status = "awaiting-approval"
      BY <1>1, <2>2 DEF Known, r, row
    <3>2. acted[r][i] <= 1 /\ acted[r][i] \in Nat /\ (acted[r][i] # 0 => i \in 1 .. row.current)
      <4>1. acted[r][i] \in Nat
        <5> DEFINE D == 1 .. MaxSteps
        <5>1. acted \in [Runs -> [D -> Nat]] /\ i \in D
          BY <1>0 DEF Shaped
        <5> HIDE DEF D
        <5> QED BY <1>1, <5>1
      <4> QED BY <1>1, <2>2, <3>1, <4>1 DEF IInv, DoneOnce
    <3>3. row.current \in Nat /\ new.current \in Nat
      <4>1. row \in Row
        BY <1>0, <1>1, DecisionShape DEF row
      <4> QED BY <4>1 DEF Row, Terminal
    <3>4. ASSUME i \in S
          PROVE  acted'[r][i] = 1 /\ (new.status = "awaiting-approval" => i \in 1 .. new.current)
      <4>1. row.current < i /\ i \in Nat
        BY <1>2, <3>4 DEF Follows
      <4>2. acted[r][i] = 0
        BY <3>2, <3>3, <4>1
      <4>3. acted'[r][i] = acted[r][i] + 1
        BY <1>3, <3>4
      <4> QED BY <1>2, <3>4, <4>2, <4>3 DEF Follows
    <3>5. ASSUME i \notin S
          PROVE  acted'[r][i] = acted[r][i]
                 /\ (new.status = "awaiting-approval" /\ acted[r][i] # 0 => i \in 1 .. new.current)
      <4>1. new.status = "awaiting-approval" => row.current <= new.current
        BY <1>2 DEF Follows
      <4>2. acted'[r][i] = acted[r][i]
        BY <1>3, <3>5
      <4> QED BY <3>2, <3>3, <4>1, <4>2
    <3> QED BY <1>3, <2>2, <3>2, <3>4, <3>5
  <2> QED BY <2>1, <2>2
<1>14. AutoOnce'
  <2>1. \A s \in Runs : run'[s].trigger = run[s].trigger /\ run'[s].alert = run[s].alert
    BY <1>3, <1>6
  <2> QED BY <2>1 DEF IInv, AutoOnce
<1> QED BY <1>7, <1>8, <1>9, <1>11, <1>12, <1>13, <1>14 DEF IInv

LEMMA EditKeeps ==
  ASSUME IInv, NEW def \in Definitions, NEW enabled \in BOOLEAN, Edit(def, enabled)
  PROVE  IInv'
<1>1. playbook' = [playbook EXCEPT !.steps = def, !.enabled = enabled] /\ UNCHANGED <<run, decider, acted, raced>>
  BY DEF Edit
<1>2. Shaped'
  BY <1>1 DEF IInv, Shaped
<1>3. RowsKnown' /\ RowsBounded' /\ AutoOnce' /\ DoneOnce'
  BY <1>1 DEF IInv, RowsKnown, RowsBounded, AutoOnce, DoneOnce
<1>4. DecisionsKnow' /\ Overlapped'
  BY <1>1 DEF IInv, DecisionsKnow, Known, Overlapped
<1> QED BY <1>2, <1>3, <1>4 DEF IInv

LEMMA NextIInv == IInv /\ [Next]_vars => IInv'
<1> SUFFICES ASSUME IInv, [Next]_vars PROVE IInv'
  OBVIOUS
<1>1. ASSUME NEW r \in Runs, NEW a \in Alerts \cup {NoAlert}, RunPlaybook(r, a) PROVE IInv'
  <2>1. /\ run[r].status = "none" /\ Execute(r, "manual", a) /\ UNCHANGED <<decider, raced>>
    BY <1>1 DEF RunPlaybook
  <2> QED BY <2>1, StartKeeps
<1>2. ASSUME NEW r \in Runs, NEW a \in Alerts, AutoTrigger(r, a) PROVE IInv'
  <2>1. /\ run[r].status = "none" /\ Execute(r, "auto", a) /\ UNCHANGED <<decider, raced>>
        /\ \A s \in Runs : run[s].status # "none" => run[s].alert # a
    BY <1>2 DEF AutoTrigger
  <2> QED BY <2>1, StartKeeps
<1>3. ASSUME NEW d \in Deciders, NEW r \in Runs, NEW approve \in BOOLEAN, ReadRun(d, r, approve) PROVE IInv'
  BY <1>3, ReadKeeps
<1>4. ASSUME NEW d \in Deciders, Decides(d) PROVE IInv'
  BY <1>4, DecideKeeps
<1>5. ASSUME NEW def \in Definitions, NEW enabled \in BOOLEAN, Edit(def, enabled) PROVE IInv'
  BY <1>5, EditKeeps
<1>6. CASE UNCHANGED vars
  <2>1. UNCHANGED <<playbook, run, decider, acted, raced>>
    BY <1>6 DEF vars
  <2>2. Shaped' /\ RowsKnown' /\ RowsBounded' /\ AutoOnce' /\ DoneOnce'
    BY <2>1 DEF IInv, Shaped, RowsKnown, RowsBounded, AutoOnce, DoneOnce
  <2>3. DecisionsKnow' /\ Overlapped'
    BY <2>1 DEF IInv, DecisionsKnow, Known, Overlapped
  <2> QED BY <2>2, <2>3 DEF IInv
<1> QED BY <1>1, <1>2, <1>3, <1>4, <1>5, <1>6, Zenon DEF Next, Decides

LEMMA AlwaysIInv == Spec => []IInv
BY InitIInv, NextIInv, PTL DEF Spec

-----------------------------------------------------------------------------
(* The rows are in order *)

\* All definitions have their approval step, if any, at the same place: a run pauses once.
SingleGate ==
  \A d, e \in Definitions : \A i \in 1 .. Len(d), j \in 1 .. Len(e) :
    d[i] = "approval" /\ e[j] = "approval" => i = j

\* A run that waits has run everything before the approval it waits for.
Waits(row) ==
  /\ row.current = Len(row.steps) /\ row.current # 0
  /\ \A k \in 1 .. Len(row.steps) : row.steps[k].idx = k
  /\ \A k \in 1 .. Len(row.steps) : k # Len(row.steps) =>
       row.steps[k].kind # "approval" /\ row.steps[k].status \in {"success", "skipped"}
  /\ row.steps[Len(row.steps)].status = "pending-approval"
  /\ \E def \in Definitions : row.current \in 1 .. Len(def) /\ def[row.current] = "approval"

\* The results of a run that has ended.
Complete(results) ==
  \A j \in 1 .. Len(results) : results[j].idx = j /\ results[j].status # "pending-approval"

Halted(results) ==
  \A j, k \in 1 .. Len(results) :
    (j < k /\ results[j].status \in {"failed", "gated"}) => results[k].status = "skipped"

Signed(results) ==
  \A j, k \in 1 .. Len(results) :
    (j < k /\ results[j].kind = "approval"
       /\ results[k].status \notin {"skipped", "pending-approval"})
    => results[j].status = "success"

Ended(results) == Complete(results) /\ Halted(results) /\ Signed(results)

RowOrdered(row) ==
  /\ row.status = "none" => row.steps = <<>>
  /\ row.status = "awaiting-approval" => Waits(row)
  /\ row.status \in Terminal => Ended(row.steps)

RowsOrdered ==
  /\ \A r \in Runs : RowOrdered(run[r])
  /\ \A d \in Deciders : decider[d].pc = "deciding" => Waits(decider[d].run)


\* What _exec_from appends, result by result: before the stop, at it, and behind it.
LEMMA ExecutedResults ==
  ASSUME NEW def \in Definitions, NEW start \in Nat \ {0}, NEW o \in Outcomes(def)
  PROVE  LET h   == Stop(def, start, o)
             res == Executed(def, start, o)
         IN  /\ h \in Nat /\ Len(def) \in Nat /\ Len(res) \in Nat
             /\ Pauses(def, start, o) =>
                  /\ Len(res) = h + 1 - start
                  /\ h \in start .. Len(def) /\ def[h] = "approval"
             /\ \A k \in 1 .. Len(res) : LET i == start + k - 1 IN
                  /\ i \in start .. Len(def)
                  /\ res[k].idx = i /\ res[k].kind = def[i]
                  /\ i < h => def[i] # "approval" /\ res[k].status \in {"success", "skipped"}
                  /\ i > h => res[k].status = "skipped"
                  /\ i = h => /\ def[i] = "approval" => res[k].status = "pending-approval"
                              /\ def[i] # "approval" => res[k].status = o[i]
<1> DEFINE h == Stop(def, start, o)
           status(i) == CASE i < h -> o[i]
                          [] i = h -> IF def[i] = "approval" THEN "pending-approval" ELSE o[i]
                          [] i > h -> "skipped"
           last == IF Pauses(def, start, o) THEN h ELSE Len(def)
           n == last + 1 - start
           f == [k \in 1 .. n |-> [idx |-> start + k - 1, kind |-> def[start + k - 1],
                                   status |-> status(start + k - 1)]]
           res == Executed(def, start, o)
<1>1. h \in Nat /\ Len(def) \in Nat /\ (h \in start .. Len(def) \/ h = Len(def) + 1)
  BY StopRange, KindsOfSteps
<1>2. last \in Nat /\ last <= Len(def) /\ n \in Int
  BY <1>1 DEF Pauses
<1>3. res = f
  BY DEF Executed
<1>4. res \in Seq(Result) /\ (Pauses(def, start, o) => Len(res) = h + 1 - start)
  BY ExecutedType
<1>5. Len(res) \in Nat /\ DOMAIN res = 1 .. Len(res)
  BY <1>4, LenProperties
<1>6. 1 .. Len(res) = 1 .. n
  <2>1. DOMAIN f = 1 .. n
    <3> HIDE DEF n, status
    <3> QED OBVIOUS
  <2> HIDE DEF f, n, res
  <2> QED BY <1>3, <1>5, <2>1
<1>7. Pauses(def, start, o) => h \in start .. Len(def) /\ def[h] = "approval"
  BY <1>1 DEF Pauses
\* A step before the stop does not stop the run.
<1>8. ASSUME NEW i \in start .. Len(def), i < h
      PROVE  def[i] # "approval" /\ o[i] \in {"success", "skipped"}
  <2> DEFINE S == {m \in start .. Len(def) : Stops(def, o, m)} \cup {Len(def) + 1}
  <2>1. S \in SUBSET Nat /\ S # {} /\ h = Min(S)
    BY <1>1 DEF Stop
  <2>2. \A y \in S : h <= y
    <3> HIDE DEF S, h
    <3> QED BY <2>1, MinIsLeast
  <2>3. i \in Nat /\ i \in 1 .. Len(def)
    BY <1>1
  <2>4. i \notin S
    <3> HIDE DEF S, h
    <3> QED BY <1>1, <1>8, <2>2, <2>3
  <2>5. ~ Stops(def, o, i)
    BY <2>4
  <2>6. o[i] \in Outcome
    BY <2>3, OutcomeRange
  <2> QED BY <2>5, <2>6 DEF Stops, Outcome
<1>9. ASSUME NEW k \in 1 .. Len(res)
      PROVE  LET i == start + k - 1 IN
               /\ i \in start .. Len(def)
               /\ res[k].idx = i /\ res[k].kind = def[i]
               /\ i < h => def[i] # "approval" /\ res[k].status \in {"success", "skipped"}
               /\ i > h => res[k].status = "skipped"
               /\ i = h => /\ def[i] = "approval" => res[k].status = "pending-approval"
                           /\ def[i] # "approval" => res[k].status = o[i]
  <2> DEFINE i == start + k - 1
  <2>1. k \in 1 .. n
    BY <1>6
  <2>2. i \in start .. Len(def) /\ i \in Nat
    BY <1>1, <1>2, <2>1
  <2>3. f[k] = [idx |-> i, kind |-> def[i], status |-> status(i)]
    <3> HIDE DEF n, status, i
    <3> QED BY <2>1 DEF i
  <2>4. res[k].idx = i /\ res[k].kind = def[i] /\ res[k].status = status(i)
    <3> HIDE DEF f, i, status, res
    <3> QED BY <1>3, <2>3
  <2>5. /\ i < h => status(i) = o[i]
        /\ i > h => status(i) = "skipped"
        /\ i = h => /\ def[i] = "approval" => status(i) = "pending-approval"
                    /\ def[i] # "approval" => status(i) = o[i]
    <3>1. i \in Nat /\ h \in Nat
      BY <1>1, <2>2
    <3> HIDE DEF i, h
    <3> QED BY <3>1
  <2>6. i < h => def[i] # "approval" /\ o[i] \in {"success", "skipped"}
    BY <1>8, <2>2
  <2> HIDE DEF i, status, h, f, res
  <2> QED BY <2>2, <2>4, <2>5, <2>6 DEF i
<1> HIDE DEF f, n, last, status
<1> QED BY <1>1, <1>4, <1>5, <1>7, <1>9

\* What is appended behind the pause of a run, or by a run that never paused: b results
\* stand before it.
Appended(tail, b) ==
  \A k \in 1 .. Len(tail) :
    /\ tail[k].idx = b + k /\ tail[k].status # "pending-approval"
    /\ (tail[k].kind = "approval" \/ tail[k].status \in {"failed", "gated"}) =>
         \A m \in 1 .. Len(tail) : k < m => tail[m].status = "skipped"

LEMMA ExecutedAppended ==
  ASSUME NEW def \in Definitions, NEW b \in Nat, NEW o \in Outcomes(def),
         ~ Pauses(def, b + 1, o)
  PROVE  Appended(Executed(def, b + 1, o), b)
<1> DEFINE h   == Stop(def, b + 1, o)
           res == Executed(def, b + 1, o)
<1>0. b + 1 \in Nat \ {0}
  OBVIOUS
<1>1. /\ h \in Nat /\ Len(def) \in Nat /\ Len(res) \in Nat
      /\ \A k \in 1 .. Len(res) : LET i == (b + 1) + k - 1 IN
           /\ i \in (b + 1) .. Len(def)
           /\ res[k].idx = i /\ res[k].kind = def[i]
           /\ i < h => def[i] # "approval" /\ res[k].status \in {"success", "skipped"}
           /\ i > h => res[k].status = "skipped"
           /\ i = h => /\ def[i] = "approval" => res[k].status = "pending-approval"
                       /\ def[i] # "approval" => res[k].status = o[i]
  BY <1>0, ExecutedResults
<1>2. ASSUME NEW k \in 1 .. Len(res)
      PROVE  /\ b + k \in 1 .. Len(def) /\ b + k \in Nat
             /\ res[k].idx = b + k /\ res[k].kind = def[b + k]
             /\ b + k < h => res[k].kind # "approval" /\ res[k].status \in {"success", "skipped"}
             /\ b + k > h => res[k].status = "skipped"
             /\ b + k = h => /\ def[b + k] = "approval" => res[k].status = "pending-approval"
                             /\ def[b + k] # "approval" => res[k].status = o[b + k]
  <2>1. (b + 1) + k - 1 = b + k /\ b + k \in Nat
    BY <1>1
  <2> DEFINE i == (b + 1) + k - 1
  <2> HIDE DEF h, res
  <2>2. /\ i \in (b + 1) .. Len(def)
        /\ res[k].idx = i /\ res[k].kind = def[i]
        /\ i < h => def[i] # "approval" /\ res[k].status \in {"success", "skipped"}
        /\ i > h => res[k].status = "skipped"
        /\ i = h => /\ def[i] = "approval" => res[k].status = "pending-approval"
                    /\ def[i] # "approval" => res[k].status = o[i]
    BY <1>1, Zenon
  <2>3. i = b + k
    BY <2>1
  <2>4. b + k \in 1 .. Len(def)
    BY <1>1, <2>2, <2>3
  <2> HIDE DEF i
  <2> QED BY <2>1, <2>2, <2>3, <2>4
<1>3. h <= Len(def) => def[h] # "approval"
  BY DEF Pauses
<1> HIDE DEF h, res
<1>4. ASSUME NEW k \in 1 .. Len(res), b + k = h
      PROVE  res[k].kind # "approval" /\ res[k].status = o[b + k] /\ o[b + k] \in Outcome
  <2>1. b + k \in 1 .. Len(def) /\ h <= Len(def)
    BY <1>1, <1>2, <1>4
  <2> QED BY <1>2, <1>3, <1>4, <2>1, OutcomeRange
<1>5. ASSUME NEW k \in 1 .. Len(res) PROVE res[k].status # "pending-approval"
  <2>1. b + k < h \/ b + k = h \/ b + k > h
    BY <1>1, <1>2
  <2> QED BY <1>2, <1>4, <2>1 DEF Outcome
<1>6. ASSUME NEW k \in 1 .. Len(res), NEW m \in 1 .. Len(res), k < m,
             res[k].kind = "approval" \/ res[k].status \in {"failed", "gated"}
      PROVE  res[m].status = "skipped"
  <2>1. ~ (b + k < h)
    BY <1>2, <1>6
  <2>2. b + m > h
    BY <1>1, <1>2, <1>6, <2>1
  <2> QED BY <1>2, <2>2
<1> QED BY <1>2, <1>5, <1>6 DEF Appended, res

LEMMA SkippedAppended ==
  ASSUME NEW def \in Definitions, NEW b \in Nat
  PROVE  /\ Appended(SkippedFrom(def, b + 1), b)
         /\ \A k \in 1 .. Len(SkippedFrom(def, b + 1)) :
              SkippedFrom(def, b + 1)[k].status = "skipped"
<1> DEFINE n == Len(def) + 1 - (b + 1)
           f == SkippedFrom(def, b + 1)
<1>1. f = [k \in 1 .. n |-> [idx |-> (b + 1) + k - 1, kind |-> def[(b + 1) + k - 1],
                             status |-> "skipped"]]
  BY DEF SkippedFrom
<1>2. f \in Seq(Result)
  BY SkippedType
<1>3. DOMAIN f = 1 .. Len(f)
  BY <1>2, LenProperties
<1>4. DOMAIN f = 1 .. n
  <2> HIDE DEF n
  <2> QED BY <1>1
<1>5. ASSUME NEW k \in 1 .. Len(f) PROVE f[k].idx = b + k /\ f[k].status = "skipped"
  <2>1. k \in 1 .. n /\ k \in Int
    BY <1>3, <1>4
  <2>2. (b + 1) + k - 1 = b + k
    BY <2>1
  <2> HIDE DEF n, f
  <2> QED BY <1>1, <2>1, <2>2
<1> HIDE DEF f, n
<1> QED BY <1>5 DEF Appended, f

\* The pause and what follows it make one list.
LEMMA JoinedEnds ==
  ASSUME NEW head \in Seq(Result), NEW tail \in Seq(Result),
         Appended(tail, Len(head)),
         \A k \in 1 .. Len(head) :
           /\ head[k].idx = k /\ head[k].status # "pending-approval"
           /\ k # Len(head) => head[k].kind # "approval" /\ head[k].status \in {"success", "skipped"},
         \/ Len(head) = 0
         \/ head[Len(head)].status = "success"
         \/ \A k \in 1 .. Len(tail) : tail[k].status = "skipped"
  PROVE  Ended(head \o tail)
<1> DEFINE a == Len(head)
           res == head \o tail
<1>1. a \in Nat /\ Len(tail) \in Nat
  BY LenProperties
<1>2. /\ Len(res) = a + Len(tail)
      /\ \A k \in 1 .. Len(res) : res[k] = IF k <= a THEN head[k] ELSE tail[k - a]
  BY ConcatProperties
<1> HIDE DEF res
<1>3. ASSUME NEW k \in 1 .. Len(res)
      PROVE  /\ k \in Nat
             /\ \/ k \in 1 .. a /\ res[k] = head[k]
                \/ k > a /\ k - a \in 1 .. Len(tail) /\ res[k] = tail[k - a]
  BY <1>1, <1>2
<1> HIDE DEF a
<1>4. Complete(res)
  <2> SUFFICES ASSUME NEW k \in 1 .. Len(res)
               PROVE  res[k].idx = k /\ res[k].status # "pending-approval"
    BY DEF Complete
  <2>1. CASE k \in 1 .. a /\ res[k] = head[k]
    BY <2>1 DEF a
  <2>2. CASE k > a /\ k - a \in 1 .. Len(tail) /\ res[k] = tail[k - a]
    <3>1. tail[k - a].idx = a + (k - a) /\ tail[k - a].status # "pending-approval"
      BY <2>2 DEF Appended, a
    <3>2. a + (k - a) = k
      BY <1>1, <1>3
    <3> QED BY <2>2, <3>1, <3>2
  <2> QED BY <1>3, <2>1, <2>2
\* Two results, the first of which stops the run or waits for a decision.
<1>5. ASSUME NEW j \in 1 .. Len(res), NEW k \in 1 .. Len(res), j < k,
             res[j].kind = "approval" \/ res[j].status \in {"failed", "gated"},
             res[j].status # "success" \/ res[j].status \in {"failed", "gated"}
      PROVE  res[k].status = "skipped"
  <2>1. CASE j \in 1 .. a /\ res[j] = head[j]
    <3>1. j = a
      BY <1>5, <2>1 DEF a
    <3>2. head[a].status # "success" /\ a # 0
      BY <1>1, <1>5, <2>1, <3>1
    <3>3. k > a /\ k - a \in 1 .. Len(tail) /\ res[k] = tail[k - a]
      BY <1>1, <1>3, <1>5, <3>1
    <3> QED BY <3>2, <3>3 DEF a
  <2>2. CASE j > a /\ j - a \in 1 .. Len(tail) /\ res[j] = tail[j - a]
    <3>1. k > a /\ k - a \in 1 .. Len(tail) /\ res[k] = tail[k - a] /\ j - a < k - a
      <4>1. j \in Nat /\ k \in Nat
        BY <1>3
      <4>2. k > a /\ j - a < k - a
        BY <1>1, <1>5, <2>2, <4>1
      <4>3. ~ (k \in 1 .. a)
        BY <1>1, <4>1, <4>2
      <4> QED BY <1>3, <4>2, <4>3
    <3> QED BY <1>5, <2>2, <3>1 DEF Appended
  <2> QED BY <1>3, <1>5, <2>1, <2>2
<1>6. Halted(res) /\ Signed(res)
  BY <1>5 DEF Halted, Signed
<1> QED BY <1>4, <1>6 DEF Ended, res

\* The stamp settles the step the run waits at, and touches no other.
LEMMA StampedWaits ==
  ASSUME NEW row \in Row, NEW approve \in BOOLEAN, Waits(row)
  PROVE  LET head == Stamped(row, approve)
         IN  /\ head \in Seq(Result) /\ Len(head) = row.current
             /\ \A k \in 1 .. Len(head) :
                  /\ head[k].idx = k /\ head[k].status # "pending-approval"
                  /\ k # Len(head) =>
                       head[k].kind # "approval" /\ head[k].status \in {"success", "skipped"}
             /\ head[Len(head)].status = IF approve THEN "success" ELSE "failed"
<1> DEFINE n == Len(row.steps)
           head == Stamped(row, approve)
           verdict == IF approve THEN "success" ELSE "failed"
<1>1. row.steps \in Seq(Result) /\ row.current = n /\ row.current # 0
  BY DEF Row, Terminal, Waits
<1>2. n \in Nat /\ n \in 1 .. n /\ \A k \in 1 .. n : row.steps[k] \in Result
  BY <1>1, LenProperties, ElementOfSeq
<1>3. head \in Seq(Result) /\ Len(head) = n
  BY StampedType
<1>4. ASSUME NEW k \in 1 .. n
      PROVE  head[k] = IF k = n THEN [row.steps[k] EXCEPT !.status = verdict] ELSE row.steps[k]
  <2>1. row.steps[k].idx = k /\ row.steps[n].status = "pending-approval"
    BY <1>2 DEF Waits
  <2>2. head[k] = IF row.steps[k].idx = row.current /\ row.steps[k].status = "pending-approval"
                  THEN [row.steps[k] EXCEPT !.status = verdict] ELSE row.steps[k]
    BY DEF Stamped
  <2> HIDE DEF head, verdict
  <2> QED BY <1>1, <2>1, <2>2
<1>5. ASSUME NEW k \in 1 .. n, k # n
      PROVE  head[k].idx = k /\ head[k].kind # "approval" /\ head[k].status \in {"success", "skipped"}
  <2> HIDE DEF head
  <2> QED BY <1>4, <1>5 DEF Waits
<1>6. head[n].idx = n /\ head[n].status = verdict
  <2>1. row.steps[n] \in Result /\ row.steps[n].idx = n
    BY <1>2 DEF Waits
  <2>2. head[n] = [row.steps[n] EXCEPT !.status = verdict]
    BY <1>2, <1>4
  <2> HIDE DEF head, verdict
  <2> QED BY <2>1, <2>2 DEF Result
<1>7. ASSUME NEW k \in 1 .. n PROVE head[k].idx = k /\ head[k].status # "pending-approval"
  <2>1. CASE k = n
    BY <1>6, <2>1
  <2>2. CASE k # n
    <3> HIDE DEF head
    <3> QED BY <1>5, <2>2
  <2> QED BY <2>1, <2>2
<1> HIDE DEF head, n, verdict
<1> QED BY <1>1, <1>3, <1>5, <1>6, <1>7 DEF head, verdict

\* A start leaves a run that waits at its first approval, or one that has ended.
LEMMA ExecuteOrdered ==
  ASSUME Shaped, NEW r \in Runs, NEW trigger, NEW a, Execute(r, trigger, a)
  PROVE  \E new : run' = [run EXCEPT ![r] = new] /\ RowOrdered(new)
<1> DEFINE def == playbook.steps
<1>0. def \in Definitions
  BY DEF Shaped
<1>1. PICK o \in Outcomes(def) :
        run' = [run EXCEPT ![r] =
                  [status   |-> StatusAfter(def, 1, o),
                   trigger  |-> trigger,
                   alert    |-> a,
                   current  |-> IF Pauses(def, 1, o) THEN Len(Executed(def, 1, o))
                                ELSE Len(Executed(def, 1, o)) + 1,
                   steps    |-> Executed(def, 1, o),
                   finished |-> ~ Pauses(def, 1, o)]]
  BY Zenon DEF Execute
<1> DEFINE results == Executed(def, 1, o)
           paused == Pauses(def, 1, o)
           status == StatusAfter(def, 1, o)
           h == Stop(def, 1, o)
           cur == IF paused THEN Len(results) ELSE Len(results) + 1
           new == [status   |-> status, trigger  |-> trigger, alert |-> a, current |-> cur,
                   steps |-> results, finished |-> ~ paused]
<1>2. results \in Seq(Result)
  BY <1>0, ExecutedType
<1>3. /\ h \in Nat /\ Len(def) \in Nat /\ Len(results) \in Nat
      /\ paused => Len(results) = h + 1 - 1 /\ h \in 1 .. Len(def) /\ def[h] = "approval"
      /\ \A k \in 1 .. Len(results) : LET i == 1 + k - 1 IN
           /\ i \in 1 .. Len(def)
           /\ results[k].idx = i /\ results[k].kind = def[i]
           /\ i < h => def[i] # "approval" /\ results[k].status \in {"success", "skipped"}
           /\ i > h => results[k].status = "skipped"
           /\ i = h => /\ def[i] = "approval" => results[k].status = "pending-approval"
                       /\ def[i] # "approval" => results[k].status = o[i]
  <2> HIDE DEF def
  <2>1. 1 \in Nat \ {0}
    OBVIOUS
  <2> QED BY <1>0, <2>1, ExecutedResults
<1>4. status \in {"awaiting-approval", "success", "failed"} /\ (status = "awaiting-approval" <=> paused)
  BY <1>0, StatusAfterRange
<1>5. paused => cur = Len(results)
  OBVIOUS
<1>6. new.status = status /\ new.current = cur /\ new.steps = results
  OBVIOUS
<1>7. ASSUME paused PROVE RowOrdered(new)
  <2> HIDE DEF results, paused, status, h, cur, new
  <2>1. Len(results) = h /\ h \in 1 .. Len(def) /\ def[h] = "approval" /\ cur = h
    BY <1>3, <1>5, <1>7
  <2>2. ASSUME NEW k \in 1 .. h
        PROVE  /\ results[k].idx = k
               /\ k # h => results[k].kind # "approval" /\ results[k].status \in {"success", "skipped"}
               /\ k = h => results[k].status = "pending-approval"
    <3>1. k \in Nat /\ 1 + k - 1 = k /\ (k # h => k < h)
      BY <1>3
    <3> HIDE DEF def
    <3> QED BY <1>3, <2>1, <3>1
  <2>3. Waits(new)
    <3>1. h # 0 /\ h \in 1 .. h
      BY <1>3, <2>1
    <3> HIDE DEF def
    <3> QED BY <1>0, <1>6, <2>1, <2>2, <3>1 DEF Waits
  <2>4. new.status = "awaiting-approval"
    BY <1>4, <1>6, <1>7
  <2> QED BY <2>3, <2>4 DEF RowOrdered, Terminal
<1>8. ASSUME ~ paused PROVE RowOrdered(new)
  <2>1. Appended(Executed(def, 0 + 1, o), 0)
    <3>1. ~ Pauses(def, 0 + 1, o)
      BY <1>8
    <3> HIDE DEF def, results, paused
    <3> QED BY <1>0, <3>1, ExecutedAppended
  <2>2. Appended(results, 0)
    BY <2>1
  <2> HIDE DEF results, paused, status, h, cur, new, def
  <2> DEFINE head == <<>>
  <2>3. head \in Seq(Result) /\ Len(head) = 0 /\ head \o results = results
    BY <1>2, EmptySeq, ConcatEmptySeq
  <2> HIDE DEF head
  <2>4. Ended(head \o results)
    <3>1. 1 .. Len(head) = {}
      BY <2>3
    <3> QED BY <1>2, <2>2, <2>3, <3>1, JoinedEnds
  <2>5. Ended(results)
    BY <2>3, <2>4
  <2> QED BY <1>4, <1>6, <1>8, <2>5 DEF RowOrdered
<1>9. RowOrdered(new)
  BY <1>7, <1>8
<1>10. run' = [run EXCEPT ![r] = new]
  BY <1>1, Zenon DEF new, cur, results, paused, status
<1> HIDE DEF new
<1> QED BY <1>9, <1>10

\* A decision ends the run, and ends it in order, whatever the playbook looks like by now.
LEMMA DecideOrdered ==
  ASSUME SingleGate, Shaped, NEW d \in Deciders, Decides(d), Waits(decider[d].run)
  PROVE  \E new : run' = [run EXCEPT ![decider[d].id] = new] /\ RowOrdered(new)
<1> DEFINE def == decider[d].steps
           row == decider[d].run
           r == decider[d].id
           c == row.current
<1>0. def \in Definitions /\ row \in Row /\ ResumeAt(row) = c + 1 /\ c \in Nat /\ c + 1 \in Nat \ {0}
  <2>1. decider[d].pc = "deciding"
    BY DEF Decides, Approve, Reject
  <2>2. row \in Row /\ def \in Definitions
    BY <2>1, DecisionShape
  <2>3. c \in Nat
    BY <2>2 DEF Row, Terminal
  <2> QED BY <2>2, <2>3, ResumeRange
\* The row that is saved.
<1>1. ASSUME NEW status \in {"success", "failed", "rejected"},
             NEW head \in Seq(Result), NEW tail \in Seq(Result), Ended(head \o tail)
      PROVE  RowOrdered(Saved(row, status, head \o tail))
  <2> HIDE DEF row
  <2> DEFINE results == head \o tail
             new == Saved(row, status, results)
  <2>0. row \in Row
    BY <1>0
  <2>1. results \in Seq(Result)
    BY ConcatProperties
  <2>2. status \in Live
    BY DEF Live
  <2> HIDE DEF results
  <2>3. new.status = status /\ new.steps = results
    BY <2>0, <2>1, <2>2, SavedType
  <2>4. new.status = status /\ Ended(new.steps)
    BY <1>1, <2>3 DEF results
  <2> HIDE DEF new
  <2>5. RowOrdered(new)
    <3>1. new.status # "none" /\ new.status # "awaiting-approval"
      BY <2>4
    <3> QED BY <2>4, <3>1, Zenon DEF RowOrdered
  <2> QED BY <2>5 DEF new, results
<1>2. CASE Approve(d)
  <2>1. PICK o \in Outcomes(def) :
          run' = [run EXCEPT ![r] = Saved(row, StatusAfter(def, ResumeAt(row), o),
                                          Stamped(row, TRUE) \o Executed(def, ResumeAt(row), o))]
    BY <1>2, Zenon DEF Approve
  <2> DEFINE head == Stamped(row, TRUE)
             tail == Executed(def, c + 1, o)
             status == StatusAfter(def, c + 1, o)
             h == Stop(def, c + 1, o)
  \* A second pause would be at a second gate.
  <2>2. ~ Pauses(def, c + 1, o)
    <3> SUFFICES ASSUME Pauses(def, c + 1, o) PROVE FALSE
      OBVIOUS
    <3> HIDE DEF def, row, c
    <3>1. h \in (c + 1) .. Len(def) /\ def[h] = "approval"
      BY <1>0, ExecutedResults
    <3>2. PICK e \in Definitions : c \in 1 .. Len(e) /\ e[c] = "approval"
      BY DEF Waits, c, row
    <3>3. Len(def) \in Nat
      BY <1>0, KindsOfSteps
    <3> HIDE DEF h
    <3>4. h \in 1 .. Len(def) /\ h # c
      BY <1>0, <3>1, <3>3
    <3> QED BY <1>0, <3>1, <3>2, <3>4 DEF SingleGate
  <2>3. status \in {"success", "failed"}
    <3> HIDE DEF def, row, c
    <3> QED BY <1>0, <2>2, StatusAfterRange
  <2>4. tail \in Seq(Result) /\ Appended(tail, c)
    <3> HIDE DEF def, row, c
    <3> QED BY <1>0, <2>2, ExecutedType, ExecutedAppended
  <2>5. /\ head \in Seq(Result) /\ Len(head) = c
        /\ \A k \in 1 .. Len(head) :
             /\ head[k].idx = k /\ head[k].status # "pending-approval"
             /\ k # Len(head) =>
                  head[k].kind # "approval" /\ head[k].status \in {"success", "skipped"}
        /\ head[Len(head)].status = "success"
    <3>1. TRUE \in BOOLEAN /\ Waits(row)
      OBVIOUS
    <3> HIDE DEF row
    <3> QED BY <1>0, <3>1, StampedWaits DEF c
  <2>6. run' = [run EXCEPT ![r] = Saved(row, status, head \o tail)]
    BY <1>0, <2>1, Zenon
  <2> HIDE DEF head, tail, status, h, def, row, r, c
  <2>7. Ended(head \o tail)
    BY <2>4, <2>5, JoinedEnds
  <2>8. RowOrdered(Saved(row, status, head \o tail))
    BY <1>1, <2>3, <2>4, <2>5, <2>7
  <2> QED BY <2>6, <2>8 DEF r
<1>3. CASE Reject(d)
  <2> DEFINE head == Stamped(row, FALSE)
             tail == SkippedFrom(def, c + 1)
  <2>1. run' = [run EXCEPT ![r] = Saved(row, "rejected", head \o tail)]
    <3>1. run' = [run EXCEPT ![r] = Saved(row, "rejected",
                                          Stamped(row, FALSE) \o SkippedFrom(def, ResumeAt(row)))]
      BY <1>3, Zenon DEF Reject
    <3> QED BY <1>0, <3>1, Zenon
  <2>2. /\ tail \in Seq(Result) /\ Appended(tail, c)
        /\ \A k \in 1 .. Len(tail) : tail[k].status = "skipped"
    <3> HIDE DEF def, row, c
    <3> QED BY <1>0, SkippedType, SkippedAppended
  <2>3. /\ head \in Seq(Result) /\ Len(head) = c
        /\ \A k \in 1 .. Len(head) :
             /\ head[k].idx = k /\ head[k].status # "pending-approval"
             /\ k # Len(head) =>
                  head[k].kind # "approval" /\ head[k].status \in {"success", "skipped"}
    <3>1. FALSE \in BOOLEAN /\ Waits(row)
      OBVIOUS
    <3> HIDE DEF row
    <3> QED BY <1>0, <3>1, StampedWaits DEF c
  <2> HIDE DEF head, tail, def, row, r, c
  <2>4. Ended(head \o tail)
    BY <2>2, <2>3, JoinedEnds
  <2>5. RowOrdered(Saved(row, "rejected", head \o tail))
    BY <1>1, <2>2, <2>3, <2>4
  <2> QED BY <2>1, <2>5 DEF r
<1> QED BY <1>2, <1>3 DEF Decides

LEMMA OrderedInit == Init => RowsOrdered
<1> SUFFICES ASSUME Init PROVE RowsOrdered
  OBVIOUS
<1>1. NoRun.status = "none" /\ NoRun.steps = <<>> /\ Idle.pc # "deciding"
  BY DEF NoRun, Idle
<1>2. (\A r \in Runs : run[r] = NoRun) /\ \A d \in Deciders : decider[d] = Idle
  BY DEF Init
<1>3. RowOrdered(NoRun)
  BY <1>1 DEF RowOrdered, Terminal
<1> QED BY <1>1, <1>2, <1>3 DEF RowsOrdered

LEMMA OrderedStep == SingleGate /\ Shaped /\ RowsOrdered /\ [Next]_vars => RowsOrdered'
<1> SUFFICES ASSUME SingleGate, Shaped, RowsOrdered, [Next]_vars PROVE RowsOrdered'
  OBVIOUS
\* A run is written, and no decision begins.
<1>1. ASSUME NEW r, NEW new, run' = [run EXCEPT ![r] = new], RowOrdered(new),
             \A d \in Deciders : decider'[d] \in {decider[d], Idle}
      PROVE  RowsOrdered'
  <2>1. \A q \in Runs : run'[q] = run[q] \/ run'[q] = new
    BY <1>1 DEF Shaped
  <2>2. \A q \in Runs : RowOrdered(run'[q])
    BY <1>1, <2>1 DEF RowsOrdered
  <2>3. Idle.pc # "deciding"
    BY DEF Idle
  <2>4. \A d \in Deciders : decider'[d].pc = "deciding" => Waits(decider'[d].run)
    BY <1>1, <2>3 DEF RowsOrdered
  <2> QED BY <2>2, <2>4 DEF RowsOrdered, RowOrdered, Waits
<1>2. ASSUME NEW r \in Runs, NEW trigger, NEW a, Execute(r, trigger, a), decider' = decider
      PROVE  RowsOrdered'
  <2>1. PICK new : run' = [run EXCEPT ![r] = new] /\ RowOrdered(new)
    BY <1>2, ExecuteOrdered
  <2> QED BY <1>1, <1>2, <2>1
<1>3. ASSUME NEW r \in Runs, NEW a \in Alerts \cup {NoAlert}, RunPlaybook(r, a) PROVE RowsOrdered'
  BY <1>2, <1>3 DEF RunPlaybook
<1>4. ASSUME NEW r \in Runs, NEW a \in Alerts, AutoTrigger(r, a) PROVE RowsOrdered'
  BY <1>2, <1>4 DEF AutoTrigger
<1>5. ASSUME NEW d \in Deciders, Decides(d) PROVE RowsOrdered'
  <2>1. /\ decider[d].pc = "deciding" /\ decider' = [decider EXCEPT ![d] = Idle]
    BY <1>5, Zenon DEF Decides, Approve, Reject
  <2>2. Waits(decider[d].run)
    BY <2>1 DEF RowsOrdered
  <2>3. PICK new : run' = [run EXCEPT ![decider[d].id] = new] /\ RowOrdered(new)
    BY <1>5, <2>2, DecideOrdered
  <2>4. \A e \in Deciders : decider'[e] \in {decider[e], Idle}
    BY <2>1 DEF Shaped
  <2> QED BY <1>1, <2>3, <2>4
<1>6. ASSUME NEW d \in Deciders, NEW r \in Runs, NEW approve \in BOOLEAN, ReadRun(d, r, approve)
      PROVE  RowsOrdered'
  <2>1. /\ run[r].status = "awaiting-approval" /\ run' = run
        /\ decider' = [decider EXCEPT ![d] = [pc |-> "deciding", run |-> run[r],
                                              steps |-> playbook.steps,
                                              approve |-> approve, id |-> r]]
    BY <1>6 DEF ReadRun
  <2>2. Waits(run[r])
    BY <2>1 DEF RowsOrdered, RowOrdered
  <2>3. decider'[d].run = run[r] /\ \A e \in Deciders \ {d} : decider'[e] = decider[e]
    BY <2>1 DEF Shaped
  <2>4. \A e \in Deciders : decider'[e].pc = "deciding" => Waits(decider'[e].run)
    BY <2>2, <2>3 DEF RowsOrdered
  <2> QED BY <2>1, <2>4 DEF RowsOrdered, RowOrdered, Waits
<1>7. ASSUME NEW def \in Definitions, NEW enabled \in BOOLEAN, Edit(def, enabled) PROVE RowsOrdered'
  BY <1>7 DEF Edit, RowsOrdered, RowOrdered, Waits
<1>8. CASE UNCHANGED vars
  BY <1>8 DEF vars, RowsOrdered, RowOrdered, Waits
<1> QED BY <1>3, <1>4, <1>5, <1>6, <1>7, <1>8, Zenon DEF Next, Decides

-----------------------------------------------------------------------------
(* The theorems *)

LEMMA AlwaysShaped == Spec => []Shaped
<1>1. IInv => Shaped
  BY DEF IInv
<1> QED BY AlwaysIInv, <1>1, PTL

\* Edits stay within their bound, and only runs are raced for.
Bounded == edits \in 0 .. MaxEdits /\ raced \in SUBSET Runs

LEMMA BoundedStep == Bounded /\ [Next]_vars => Bounded'
<1> SUFFICES ASSUME Bounded, [Next]_vars PROVE Bounded'
  OBVIOUS
<1>1. ASSUME NEW def, NEW enabled, Edit(def, enabled) PROVE Bounded'
  BY <1>1, PlaybookAssumption DEF Bounded, Edit
<1>2. ASSUME NEW d \in Deciders, NEW r \in Runs, NEW approve, ReadRun(d, r, approve)
      PROVE  Bounded'
  <2>1. edits' = edits /\ (raced' = raced \cup {r} \/ raced' = raced)
    BY <1>2, Zenon DEF ReadRun
  <2> QED BY <2>1 DEF Bounded
<1>3. ASSUME UNCHANGED <<edits, raced>> PROVE Bounded'
  BY <1>3 DEF Bounded
<1> QED BY <1>1, <1>2, <1>3, Zenon DEF Next, RunPlaybook, AutoTrigger, Approve, Reject, vars

\* Rows, decisions and counts keep their shape in every behaviour of Playbook, and
\* every result is of a step that some definition has: the step lists that decisions
\* read before an edit and results saved under an older list included.
THEOREM PlaybookTypes == Spec => []TypeOK
<1>1. Init => Bounded
  BY PlaybookAssumption DEF Init, Bounded
<1>2. IInv /\ Bounded => TypeOK
  <2> SUFFICES ASSUME Shaped, Bounded PROVE TypeOK
    BY DEF IInv
  <2>1. \A d \in Deciders :
          \/ decider[d] = Idle
          \/ decider[d] \in [pc : {"deciding"}, run : Row, steps : Definitions,
                             approve : BOOLEAN, id : Runs]
    BY Zenon DEF Shaped, Decision
  <2> QED BY <2>1, Zenon DEF Shaped, Bounded, TypeOK
<1> QED BY AlwaysIInv, BoundedStep, <1>1, <1>2, PTL DEF Spec

\* However many people decide, a step acts twice only in a run that two decisions
\* were under way on at once (resolve_approval tests the status when it reads the row).
THEOREM StepsActOnce == Spec => []ActsOnce
<1>1. IInv => ActsOnce
  <2> SUFFICES ASSUME IInv, NEW r \in Runs, r \notin raced, NEW i \in 1 .. MaxSteps
               PROVE  ~ (acted[r][i] > 1)
    BY Zenon DEF ActsOnce
  <2>1. acted[r][i] <= 1
    BY DEF IInv, DoneOnce
  <2>2. acted[r][i] \in Nat
    <3> DEFINE D == 1 .. MaxSteps
    <3>1. acted \in [Runs -> [D -> Nat]] /\ i \in D
      BY DEF IInv, Shaped
    <3> HIDE DEF D
    <3> QED BY <3>1
  <2> QED BY <2>1, <2>2
<1> QED BY AlwaysIInv, <1>1, PTL

\* An alert never has two automatic runs (auto_trigger_playbooks), though the rows that
\* decisions write back in the meantime are copies read earlier.
THEOREM AutomaticRunsOnce == Spec => []AutoOnce
<1>1. IInv => AutoOnce
  BY DEF IInv
<1> QED BY AlwaysIInv, <1>1, PTL

LEMMA FinalStep ==
  ASSUME IInv, [Next]_vars, NEW r \in Runs, run[r].status \in Terminal, r \notin raced
  PROVE  run'[r] = run[r] /\ acted'[r] = acted[r]
<1>0. Shaped /\ run[r].status # "none" /\ run[r].status # "awaiting-approval"
  BY DEF IInv, Terminal
<1>1. ASSUME NEW q \in Runs, q # r, NEW new \in Row, NEW S \in SUBSET Nat, Written(q, new, S)
      PROVE  run'[r] = run[r] /\ acted'[r] = acted[r]
  BY <1>0, <1>1, WrittenShape
<1>2. ASSUME NEW q \in Runs, NEW trigger \in {"manual", "auto"}, NEW a \in Alerts \cup {NoAlert},
             run[q].status = "none", Execute(q, trigger, a)
      PROVE  run'[r] = run[r] /\ acted'[r] = acted[r]
  <2>1. q # r
    BY <1>0, <1>2
  <2>3. Shaped /\ Execute(q, trigger, a)
    BY <1>0, <1>2
  <2>4. \E new \in Row, S \in SUBSET Nat :
          /\ Written(q, new, S)
          /\ new.status \in Live /\ new.trigger = trigger /\ new.alert = a
          /\ new.current <= Len(new.steps) + 1
          /\ new.status = "awaiting-approval" => S \subseteq 1 .. new.current
    BY <2>3, ExecuteWrites
  <2>2. PICK new \in Row, S \in SUBSET Nat : Written(q, new, S)
    BY <2>4, Zenon
  <2> QED BY <1>1, <2>1, <2>2
<1>3. ASSUME NEW q \in Runs, NEW a \in Alerts \cup {NoAlert}, RunPlaybook(q, a)
      PROVE  run'[r] = run[r] /\ acted'[r] = acted[r]
  <2>1. run[q].status = "none" /\ Execute(q, "manual", a)
    BY <1>3 DEF RunPlaybook
  <2> QED BY <1>2, <2>1
<1>4. ASSUME NEW q \in Runs, NEW a \in Alerts, AutoTrigger(q, a)
      PROVE  run'[r] = run[r] /\ acted'[r] = acted[r]
  <2>1. run[q].status = "none" /\ Execute(q, "auto", a)
    BY <1>4 DEF AutoTrigger
  <2> QED BY <1>2, <2>1
<1>5. ASSUME NEW d \in Deciders, Decides(d)
      PROVE  run'[r] = run[r] /\ acted'[r] = acted[r]
  <2>1. Known(d) /\ decider[d].id \in Runs
    BY <1>5, DecideWrites, Zenon
  <2>2. decider[d].id # r
    BY <1>0, <2>1 DEF Known
  <2>3. PICK new \in Row, S \in SUBSET Nat : Written(decider[d].id, new, S)
    BY <1>5, DecideWrites, Zenon
  <2> QED BY <1>1, <2>1, <2>2, <2>3
<1>6. ASSUME NEW d \in Deciders, NEW q \in Runs, NEW approve \in BOOLEAN, ReadRun(d, q, approve)
      PROVE  run'[r] = run[r] /\ acted'[r] = acted[r]
  BY <1>6, Zenon DEF ReadRun
<1>7. ASSUME NEW def \in Definitions, NEW enabled \in BOOLEAN, Edit(def, enabled)
      PROVE  run'[r] = run[r] /\ acted'[r] = acted[r]
  BY <1>7 DEF Edit
<1>8. CASE UNCHANGED vars
  BY <1>8 DEF vars
<1> QED BY <1>3, <1>4, <1>5, <1>6, <1>7, <1>8, Zenon DEF Next, Decides

\* A run that has ended keeps its verdict and acts no more, unless two decisions on it
\* overlapped (_save_run replaces the row without a test).
THEOREM VerdictsAreFinal == Spec => VerdictIsFinal
<1>1. IInv /\ [Next]_vars =>
        [\A r \in Runs : (run[r].status \in Terminal /\ r \notin raced)
           => (run'[r] = run[r] /\ acted'[r] = acted[r])]_vars
  BY FinalStep
<1> QED BY AlwaysIInv, <1>1, PTL DEF Spec, VerdictIsFinal

\* With one place for the approval step, a run that waits has run everything before that
\* step and a run that has ended has its results in order, also when two people decide at
\* once and when the playbook is edited between the pause and the decision.
THEOREM RowsStayOrdered == ASSUME SingleGate PROVE Spec => []RowsOrdered
<1>1. Shaped /\ RowsOrdered /\ [Next]_vars => RowsOrdered'
  BY OrderedStep
<1> QED BY <1>1, OrderedInit, AlwaysShaped, PTL DEF Spec

LEMMA OrderedRows ==
  ASSUME Shaped, RowsOrdered, NEW r \in Runs
  PROVE  /\ Halted(run[r].steps) /\ Signed(run[r].steps)
         /\ run[r].status \in Terminal => Complete(run[r].steps)
<1>1. /\ run[r].status \in {"none", "awaiting-approval"} \cup Terminal
      /\ run[r].steps \in Seq(Result) /\ Len(run[r].steps) \in Nat
  <2>1. run[r] \in Row
    BY DEF Shaped
  <2>2. run[r].steps \in Seq(Result)
    BY <2>1 DEF Row, Terminal
  <2> QED BY <2>1, <2>2, LenProperties DEF Row, Terminal
<1>2. CASE run[r].status = "none"
  <2>1. run[r].steps = <<>>
    BY <1>2 DEF RowsOrdered, RowOrdered
  <2>2. 1 .. Len(run[r].steps) = {}
    BY <2>1
  <2> QED BY <1>2, <2>2 DEF Halted, Signed, Terminal
<1>3. CASE run[r].status = "awaiting-approval"
  <2> DEFINE n == Len(run[r].steps)
  <2>1. \A k \in 1 .. n : k # n => /\ run[r].steps[k].kind # "approval"
                                   /\ run[r].steps[k].status \in {"success", "skipped"}
    BY <1>3 DEF RowsOrdered, RowOrdered, Waits
  <2>2. \A j, k \in 1 .. n : j < k => j # n
    BY <1>1
  <2> QED BY <1>3, <2>1, <2>2 DEF Halted, Signed, Terminal
<1>4. CASE run[r].status \in Terminal
  BY <1>4 DEF RowsOrdered, RowOrdered, Ended
<1> QED BY <1>1, <1>2, <1>3, <1>4

\* No step is recorded as run behind an approval that is not recorded as given, with one
\* place for the approval step (with two the code breaks it).
THEOREM ActsAfterSignature == ASSUME SingleGate PROVE Spec => []SignedBeforeActing
<1>1. Shaped /\ RowsOrdered => SignedBeforeActing
  BY OrderedRows DEF SignedBeforeActing, Signed
<1> QED BY <1>1, RowsStayOrdered, AlwaysShaped, PTL

\* The pause, the resumption of an edited playbook and the skipped tail leave no step of
\* a run out and do none twice, with one place for the approval step.
THEOREM StepsAccountedFor == ASSUME SingleGate PROVE Spec => []NoStepLost
<1>1. Shaped /\ RowsOrdered => NoStepLost
  BY OrderedRows DEF NoStepLost, Complete
<1> QED BY <1>1, RowsStayOrdered, AlwaysShaped, PTL

\* Behind a failed step, an unmet condition or a refusal everything is recorded as
\* skipped, across the pause, with one place for the approval step.
THEOREM HaltsAreFinal == ASSUME SingleGate PROVE Spec => []HaltIsFinal
<1>1. Shaped /\ RowsOrdered => HaltIsFinal
  BY OrderedRows DEF HaltIsFinal, Halted
<1> QED BY <1>1, RowsStayOrdered, AlwaysShaped, PTL

-----------------------------------------------------------------------------
(* Cases *)

Record == [Lists -> SUBSET Items]

Request == [pc      : {"idle", "half", "ready"},
            op      : Ops,
            number  : 0 .. MaxCalls,
            case    : CaseIds \cup {NoCase},
            other   : CaseIds \cup {NoCase},
            columns : SUBSET Lists,
            mine    : Record,
            theirs  : Record,
            alone   : BOOLEAN]

Under(a) == call[a].pc # "idle"

\* What a request is about stays fixed, and its first case exists.
Framed ==
  \A a \in Analysts : Under(a) =>
    /\ call[a].number \in Numbers
    /\ call[a].case \in opened
    /\ call[a].other # call[a].case
    /\ call[a].op \in {"link", "split"} => call[a].columns = {"linked_cases"}
    /\ call[a].op = "merge" => call[a].columns = {"linked_cases", "war_room", "evidence"}
    /\ call[a].op \in {"link", "merge"} <=> call[a].other # NoCase
    /\ call[a].pc = "ready" /\ call[a].other # NoCase => call[a].other \in opened

\* What is owed is in the memory of every request that will write the list.
MineOwed ==
  \A a \in Analysts, k \in Lists :
    Under(a) /\ k \in call[a].columns => owed[call[a].case][k] \subseteq call[a].mine[k]

TheirsOwed ==
  \A a \in Analysts, k \in Lists :
    call[a].pc = "ready" /\ call[a].other # NoCase /\ k \in call[a].columns
      => owed[call[a].other][k] \subseteq call[a].theirs[k]

\* A request that is alone shares no list with another one.
Apart ==
  \A a, b \in Analysts, c \in CaseIds, k \in Lists :
    /\ a # b /\ Under(a) /\ Under(b) /\ call[a].alone
    /\ k \in call[a].columns \cap call[b].columns
    => ~ (c \in {call[a].case, call[a].other} /\ c \in {call[b].case, call[b].other})

NothingBefore == \A c \in CaseIds \ opened : owed[c] = Empty

CInv == CaseTypeOK /\ Framed /\ MineOwed /\ TheirsOwed /\ Apart /\ NothingBefore /\ RecordKept

LEMMA RecordShapes ==
  /\ Empty \in Record
  /\ \A c \in CaseIds : Linked(c) \in Record
  /\ \A row, more \in Record : Also(row, more) \in Record
  /\ \A row, read, more \in Record, columns \in SUBSET Lists :
       Update(row, columns, read, more) \in Record
  /\ \A r \in Analysts, c \in CaseIds, columns \in SUBSET Lists :
       CaseTypeOK => Read(c, columns) \in Record
<1>1. Empty \in Record
  BY DEF Empty, Record
<1>2. \A c \in CaseIds : Linked(c) \in Record
  BY DEF Empty, Record, Linked, Items
<1>3. \A row, more \in Record : Also(row, more) \in Record
  BY DEF Record, Also
<1>4. \A row, read, more \in Record, columns \in SUBSET Lists :
       Update(row, columns, read, more) \in Record
  BY DEF Record, Update
<1>5. \A c \in CaseIds, columns \in SUBSET Lists : CaseTypeOK => Read(c, columns) \in Record
  BY DEF Record, Read, CaseTypeOK
<1> QED BY <1>1, <1>2, <1>3, <1>4, <1>5

LEMMA CaseShape ==
  CaseTypeOK <=> /\ opened \in SUBSET CaseIds
                 /\ lists \in [CaseIds -> Record]
                 /\ call \in [Analysts -> Request]
                 /\ owed \in [CaseIds -> Record]
                 /\ calls \in 0 .. MaxCalls
BY DEF CaseTypeOK, Record, Request

LEMMA IdleRequest == NoCall \in Request /\ NoCall.pc = "idle"
BY RecordShapes, CaseAssumption DEF NoCall, Request, Ops

LEMMA CasesStart == CasesInit => CInv
<1> SUFFICES ASSUME CasesInit PROVE CInv
  OBVIOUS
<1>1. CaseTypeOK
  BY CaseShape, RecordShapes, IdleRequest, CaseAssumption DEF CasesInit
<1>2. \A a \in Analysts : ~Under(a) /\ call[a].pc # "ready"
  BY IdleRequest DEF CasesInit, Under
<1>3. NothingBefore /\ RecordKept
  BY DEF CasesInit, NothingBefore, RecordKept
<1> QED BY <1>1, <1>2, <1>3 DEF CInv, Framed, MineOwed, TheirsOwed, Apart

\* A commit keeps the invariant if what it adds to what is owed is on lists it has to
\* itself, or belongs to a case that did not exist.
LEMMA CommitStep ==
  ASSUME CInv, NEW a \in Analysts, call[a].pc = "ready",
         call' = [call EXCEPT ![a] = NoCall],
         opened \subseteq opened', opened' \subseteq CaseIds, calls' = calls,
         lists' \in [CaseIds -> Record], owed' \in [CaseIds -> Record],
         \A c \in CaseIds, k \in Lists : owed'[c][k] \subseteq lists'[c][k],
         \A c \in CaseIds \ opened' : owed'[c] = Empty,
         \A c \in opened, k \in Lists :
           owed'[c][k] # owed[c][k] => /\ call[a].alone
                                       /\ c \in {call[a].case, call[a].other}
                                       /\ k \in call[a].columns
  PROVE  CInv'
<1>0. call \in [Analysts -> Request] /\ opened \in SUBSET CaseIds
  BY CaseShape DEF CInv
<1>1. CaseTypeOK'
  <2>1. call' \in [Analysts -> Request]
    BY <1>0, IdleRequest
  <2>2. calls' \in 0 .. MaxCalls
    BY DEF CInv, CaseTypeOK
  <2> QED BY <2>1, <2>2 DEF CaseTypeOK, Record, Request
<1>2. /\ call'[a].pc = "idle"
      /\ \A b \in Analysts : b # a => call'[b] = call[b]
  BY <1>0, IdleRequest
<1>3. Framed'
  BY <1>2 DEF CInv, Framed, Under
<1>4. ASSUME NEW b \in Analysts, b # a, Under(b), NEW k \in call[b].columns,
             NEW c \in opened, c \in {call[b].case, call[b].other}
      PROVE  owed'[c][k] = owed[c][k]
  <2>1. k \in Lists /\ c \in CaseIds
    BY <1>0 DEF Request
  <2>2. Under(a)
    BY DEF Under
  <2> QED BY <1>4, <2>1, <2>2 DEF CInv, Apart
<1>5. MineOwed'
  <2> SUFFICES ASSUME NEW b \in Analysts, NEW k \in Lists, Under(b)', k \in call'[b].columns
               PROVE  owed'[call'[b].case][k] \subseteq call'[b].mine[k]
    BY DEF MineOwed
  <2>1. b # a /\ call'[b] = call[b] /\ Under(b)
    BY <1>2 DEF Under
  <2>2. call[b].case \in opened
    BY <2>1 DEF CInv, Framed
  <2>3. owed'[call[b].case][k] = owed[call[b].case][k]
    BY <1>4, <2>1, <2>2
  <2> QED BY <2>1, <2>3 DEF CInv, MineOwed
<1>6. TheirsOwed'
  <2> SUFFICES ASSUME NEW b \in Analysts, NEW k \in Lists,
                      call'[b].pc = "ready", call'[b].other # NoCase, k \in call'[b].columns
               PROVE  owed'[call'[b].other][k] \subseteq call'[b].theirs[k]
    BY DEF TheirsOwed
  <2>1. b # a /\ call'[b] = call[b] /\ Under(b)
    BY <1>2 DEF Under
  <2>2. call[b].other \in opened
    BY <2>1 DEF CInv, Framed
  <2>3. owed'[call[b].other][k] = owed[call[b].other][k]
    BY <1>4, <2>1, <2>2
  <2> QED BY <2>1, <2>3 DEF CInv, TheirsOwed
<1>7. Apart'
  BY <1>2 DEF CInv, Apart, Under
<1>8. NothingBefore' /\ RecordKept'
  BY DEF NothingBefore, RecordKept
<1> QED BY <1>1, <1>3, <1>5, <1>6, <1>7, <1>8 DEF CInv

\* A request begins: it reads what is owed, and stops being alone with all that it meets.
LEMMA BeginStep ==
  ASSUME CInv, NEW a \in Analysts, NEW op \in Ops, NEW c \in CaseIds,
         NEW d \in CaseIds \cup {NoCase}, NEW columns \in SUBSET Lists, c # d,
         op \in {"link", "split"} => columns = {"linked_cases"},
         op = "merge" => columns = {"linked_cases", "war_room", "evidence"},
         op \in {"link", "merge"} <=> d # NoCase,
         Begin(a, op, c, d, columns)
  PROVE  CInv'
<1> DEFINE about == {c, d} \ {NoCase}
           new == [pc |-> IF d = NoCase THEN "ready" ELSE "half",
                   op |-> op, number |-> calls + 1, case |-> c, other |-> d, columns |-> columns,
                   mine |-> Read(c, columns), theirs |-> Empty,
                   alone |-> \A x \in Analysts : ~Meets(x, about, columns)]
           old(b) == [call[b] EXCEPT !.alone = @ /\ ~Meets(b, about, columns)]
<1>0. /\ call \in [Analysts -> Request] /\ opened \in SUBSET CaseIds
      /\ lists \in [CaseIds -> Record] /\ owed \in [CaseIds -> Record] /\ calls \in 0 .. MaxCalls
  BY CaseShape DEF CInv
<1>1. /\ call[a].pc = "idle" /\ c \in opened /\ calls < MaxCalls /\ calls' = calls + 1
      /\ opened' = opened /\ lists' = lists /\ owed' = owed
      /\ call' = [b \in Analysts |-> IF b = a THEN new ELSE old(b)]
  BY DEF Begin
<1>2. calls' \in 0 .. MaxCalls /\ calls + 1 \in Numbers /\ calls + 1 \in 0 .. MaxCalls
  BY <1>0, <1>1, CaseAssumption DEF Numbers
<1>3. new \in Request
  <2>1. Read(c, columns) \in Record /\ Empty \in Record
    BY RecordShapes DEF CInv
  <2> HIDE DEF about
  <2> QED BY <2>1, <1>2 DEF Request
<1>4. \A b \in Analysts : /\ old(b) \in Request
                          /\ old(b) = [call[b] EXCEPT !.alone = old(b).alone]
                          /\ old(b).alone <=> call[b].alone /\ ~Meets(b, about, columns)
  <2> SUFFICES ASSUME NEW b \in Analysts
               PROVE  /\ old(b) \in Request
                      /\ old(b) = [call[b] EXCEPT !.alone = old(b).alone]
                      /\ old(b).alone <=> call[b].alone /\ ~Meets(b, about, columns)
    OBVIOUS
  <2>1. call[b] \in Request
    BY <1>0
  <2>2. Meets(b, about, columns) \in BOOLEAN
    BY DEF Meets
  <2>3. (call[b].alone /\ ~Meets(b, about, columns)) \in BOOLEAN
    BY <2>1, <2>2 DEF Request
  <2> HIDE DEF about
  <2> QED BY <2>1, <2>3 DEF Request
<1>5. /\ call'[a] = new
      /\ \A b \in Analysts \ {a} : call'[b] = old(b)
  <2> HIDE DEF new, old
  <2> QED BY <1>1
<1>6. CaseTypeOK'
  <2>1. call' \in [Analysts -> Request]
    <3> HIDE DEF new, old
    <3> QED BY <1>1, <1>3, <1>4
  <2> HIDE DEF new, old
  <2> QED BY <1>0, <1>1, <1>2, <2>1 DEF CaseTypeOK, Record, Request
\* All that a request held before is as it was, but for alone.
<1>7. ASSUME NEW b \in Analysts, b # a
      PROVE  /\ call'[b].pc = call[b].pc /\ call'[b].op = call[b].op
             /\ call'[b].number = call[b].number /\ call'[b].case = call[b].case
             /\ call'[b].other = call[b].other /\ call'[b].columns = call[b].columns
             /\ call'[b].mine = call[b].mine /\ call'[b].theirs = call[b].theirs
             /\ call'[b].alone => call[b].alone /\ ~Meets(b, about, columns)
  <2>1. call'[b] = [call[b] EXCEPT !.alone = old(b).alone] /\ call[b] \in Request
    BY <1>0, <1>4, <1>5, <1>7
  <2>2. call'[b].alone = old(b).alone
    BY <1>5, <1>7
  <2>3. call'[b].alone => call[b].alone /\ ~Meets(b, about, columns)
    <3> HIDE DEF old, about
    <3> QED BY <2>2, <1>4
  <2> HIDE DEF old, about
  <2> QED BY <2>1, <2>3 DEF Request
<1>8. /\ call'[a].pc = (IF d = NoCase THEN "ready" ELSE "half")
      /\ call'[a].op = op /\ call'[a].number = calls + 1 /\ call'[a].case = c
      /\ call'[a].other = d /\ call'[a].columns = columns /\ call'[a].mine = Read(c, columns)
      /\ call'[a].alone => \A x \in Analysts : ~Meets(x, about, columns)
  <2> HIDE DEF about
  <2> QED BY <1>5
<1> HIDE DEF new, old
<1>9. Framed'
  BY <1>1, <1>2, <1>7, <1>8 DEF CInv, Framed, Under
<1>10. MineOwed'
  <2> SUFFICES ASSUME NEW b \in Analysts, NEW k \in Lists, Under(b)', k \in call'[b].columns
               PROVE  owed[call'[b].case][k] \subseteq call'[b].mine[k]
    BY <1>1 DEF MineOwed
  <2>1. CASE b = a
    <3>1. owed[c][k] \subseteq lists[c][k]
      BY DEF CInv, RecordKept
    <3> QED BY <2>1, <3>1, <1>8 DEF Read
  <2>2. CASE b # a
    BY <2>2, <1>7 DEF CInv, MineOwed, Under
  <2> QED BY <2>1, <2>2
<1>11. TheirsOwed'
  <2> SUFFICES ASSUME NEW b \in Analysts, NEW k \in Lists,
                      call'[b].pc = "ready", call'[b].other # NoCase, k \in call'[b].columns
               PROVE  owed[call'[b].other][k] \subseteq call'[b].theirs[k]
    BY <1>1 DEF TheirsOwed
  <2>1. b # a
    BY <1>8
  <2> QED BY <2>1, <1>7 DEF CInv, TheirsOwed
<1>12. Apart'
  <2> SUFFICES ASSUME NEW b \in Analysts, NEW e \in Analysts, NEW f \in CaseIds, NEW k \in Lists,
                      b # e, Under(b)', Under(e)', call'[b].alone,
                      k \in call'[b].columns, k \in call'[e].columns,
                      f \in {call'[b].case, call'[b].other}, f \in {call'[e].case, call'[e].other}
               PROVE  FALSE
    BY DEF Apart
  <2>0. f # NoCase
    BY CaseAssumption
  <2>1. CASE b = a
    <3>1. ~Meets(e, about, columns) /\ e # a
      BY <2>1, <1>8
    <3>2. f \in about /\ k \in columns
      BY <2>0, <2>1, <1>8
    <3> QED BY <3>1, <3>2, <1>7 DEF Meets, Under
  <2>2. CASE e = a
    <3>1. ~Meets(b, about, columns) /\ b # a
      BY <2>2, <1>7
    <3>2. f \in about /\ k \in columns
      BY <2>0, <2>2, <1>8
    <3> QED BY <3>1, <3>2, <1>7 DEF Meets, Under
  <2>3. CASE b # a /\ e # a
    BY <2>3, <1>7 DEF CInv, Apart, Under
  <2> QED BY <2>1, <2>2, <2>3
<1>13. NothingBefore' /\ RecordKept'
  BY <1>1 DEF CInv, NothingBefore, RecordKept
<1> QED BY <1>6, <1>9, <1>10, <1>11, <1>12, <1>13 DEF CInv

LEMMA AskStep ==
  ASSUME CInv, NEW a \in Analysts, NEW c \in CaseIds
  PROVE  /\ \A k \in Lists \ {"linked_cases"} : Add(a, c, k) => CInv'
         /\ \A d \in CaseIds : Link(a, c, d) \/ Merge(a, c, d) => CInv'
         /\ Split(a, c) => CInv'
<1>0. c # NoCase
  BY CaseAssumption
<1>1. ASSUME NEW k \in Lists \ {"linked_cases"}, Add(a, c, k)
      PROVE  CInv'
  <2>1. Begin(a, "add", c, NoCase, {k})
    BY <1>1 DEF Add
  <2> QED BY <1>0, <2>1, BeginStep DEF Ops
<1>2. ASSUME NEW d \in CaseIds, Link(a, c, d)
      PROVE  CInv'
  <2>1. c # d /\ Begin(a, "link", c, d, {"linked_cases"})
    BY <1>2 DEF Link
  <2>2. d # NoCase /\ {"linked_cases"} \in SUBSET Lists
    BY CaseAssumption DEF Lists
  <2> QED BY <2>1, <2>2, BeginStep DEF Ops
<1>3. ASSUME NEW d \in CaseIds, Merge(a, c, d)
      PROVE  CInv'
  <2>1. c # d /\ Begin(a, "merge", c, d, {"linked_cases", "war_room", "evidence"})
    BY <1>3 DEF Merge
  <2>2. d # NoCase /\ {"linked_cases", "war_room", "evidence"} \in SUBSET Lists
    BY CaseAssumption DEF Lists
  <2> QED BY <2>1, <2>2, BeginStep DEF Ops
<1>4. ASSUME Split(a, c)
      PROVE  CInv'
  <2>1. Begin(a, "split", c, NoCase, {"linked_cases"})
    BY <1>4 DEF Split
  <2>2. {"linked_cases"} \in SUBSET Lists
    BY DEF Lists
  <2> QED BY <1>0, <2>1, <2>2, BeginStep DEF Ops
<1> QED BY <1>1, <1>2, <1>3, <1>4

LEMMA ReadOtherStep ==
  ASSUME CInv, NEW a \in Analysts, ReadOther(a)
  PROVE  CInv'
<1>0. /\ call \in [Analysts -> Request] /\ opened \in SUBSET CaseIds
      /\ lists \in [CaseIds -> Record] /\ owed \in [CaseIds -> Record]
  BY CaseShape DEF CInv
<1> DEFINE read == Read(call[a].other, call[a].columns)
<1>1. /\ call[a].pc = "half" /\ call[a].other \in opened /\ call[a] \in Request
      /\ call' = [call EXCEPT ![a].pc = "ready", ![a].theirs = read]
      /\ opened' = opened /\ lists' = lists /\ owed' = owed /\ calls' = calls
  BY <1>0 DEF ReadOther
<1>2. read \in Record
  <2>1. call[a].other \in CaseIds /\ call[a].columns \in SUBSET Lists
    BY <1>0, <1>1 DEF Request
  <2> QED BY <2>1, RecordShapes DEF CInv
<1>3. /\ call'[a] \in Request
      /\ call'[a].pc = "ready" /\ call'[a].op = call[a].op /\ call'[a].number = call[a].number
      /\ call'[a].case = call[a].case /\ call'[a].other = call[a].other
      /\ call'[a].columns = call[a].columns /\ call'[a].mine = call[a].mine
      /\ call'[a].theirs = read /\ call'[a].alone = call[a].alone
      /\ \A b \in Analysts \ {a} : call'[b] = call[b]
  <2> HIDE DEF read
  <2> QED BY <1>0, <1>1, <1>2 DEF Request
<1> HIDE DEF read
<1>4. CaseTypeOK'
  <2>1. call' \in [Analysts -> Request]
    BY <1>0, <1>1, <1>3
  <2> QED BY <1>1, <2>1 DEF CInv, CaseTypeOK, Record, Request
<1>a. ASSUME NEW b \in Analysts
      PROVE  /\ Under(b)' <=> Under(b)
             /\ call'[b].op = call[b].op /\ call'[b].number = call[b].number
             /\ call'[b].case = call[b].case /\ call'[b].other = call[b].other
             /\ call'[b].columns = call[b].columns /\ call'[b].mine = call[b].mine
             /\ call'[b].alone = call[b].alone
             /\ b # a => call'[b].pc = call[b].pc
  BY <1>1, <1>3 DEF Under
<1>5. Framed'
  <2> SUFFICES ASSUME NEW b \in Analysts, Under(b)'
               PROVE  /\ call'[b].number \in Numbers
                      /\ call'[b].case \in opened'
                      /\ call'[b].other # call'[b].case
                      /\ call'[b].op \in {"link", "split"} => call'[b].columns = {"linked_cases"}
                      /\ call'[b].op = "merge"
                           => call'[b].columns = {"linked_cases", "war_room", "evidence"}
                      /\ call'[b].op \in {"link", "merge"} <=> call'[b].other # NoCase
                      /\ call'[b].pc = "ready" /\ call'[b].other # NoCase
                           => call'[b].other \in opened'
    BY DEF Framed, Numbers
  <2>1. Under(b)
    BY <1>a
  <2>2. b = a => call[b].other \in opened
    BY <1>1
  <2>3. /\ call'[b].op = call[b].op /\ call'[b].number = call[b].number
        /\ call'[b].case = call[b].case /\ call'[b].other = call[b].other
        /\ call'[b].columns = call[b].columns /\ (b # a => call'[b].pc = call[b].pc)
    BY <1>a
  <2>4. /\ call[b].number \in Numbers
        /\ call[b].case \in opened
        /\ call[b].other # call[b].case
        /\ call[b].op \in {"link", "split"} => call[b].columns = {"linked_cases"}
        /\ call[b].op = "merge" => call[b].columns = {"linked_cases", "war_room", "evidence"}
        /\ call[b].op \in {"link", "merge"} <=> call[b].other # NoCase
        /\ call[b].pc = "ready" /\ call[b].other # NoCase => call[b].other \in opened
    BY <2>1 DEF CInv, Framed
  <2>5. call'[b].pc = "ready" /\ call'[b].other # NoCase => call'[b].other \in opened'
    BY <1>1, <2>2, <2>3, <2>4
  <2>6. opened' = opened
    BY <1>1
  <2> QED BY <2>3, <2>4, <2>5, <2>6
<1>6. MineOwed'
  BY <1>1, <1>a DEF CInv, MineOwed
<1>7. TheirsOwed'
  <2> SUFFICES ASSUME NEW b \in Analysts, NEW k \in Lists,
                      call'[b].pc = "ready", call'[b].other # NoCase, k \in call'[b].columns
               PROVE  owed[call'[b].other][k] \subseteq call'[b].theirs[k]
    BY <1>1 DEF TheirsOwed
  <2>1. CASE b = a
    <3>1. owed[call[a].other][k] \subseteq lists[call[a].other][k]
      BY <1>0, <1>1 DEF CInv, RecordKept
    <3> QED BY <2>1, <3>1, <1>3 DEF read, Read
  <2>2. CASE b # a
    BY <2>2, <1>3 DEF CInv, TheirsOwed
  <2> QED BY <2>1, <2>2
<1>8. Apart'
  BY <1>a DEF CInv, Apart
<1>9. NothingBefore' /\ RecordKept'
  BY <1>1 DEF CInv, NothingBefore, RecordKept
<1> QED BY <1>4, <1>5, <1>6, <1>7, <1>8, <1>9 DEF CInv

LEMMA DropStep ==
  ASSUME CInv, NEW a \in Analysts, DropCall(a)
  PROVE  CInv'
<1>0. call \in [Analysts -> Request]
  BY CaseShape DEF CInv
<1>1. /\ call' = [call EXCEPT ![a] = NoCall]
      /\ opened' = opened /\ lists' = lists /\ owed' = owed /\ calls' = calls
  BY DEF DropCall
<1>2. call'[a].pc = "idle" /\ \A b \in Analysts : b # a => call'[b] = call[b]
  BY <1>0, <1>1, IdleRequest
<1>3. CaseTypeOK'
  <2>1. call' \in [Analysts -> Request]
    BY <1>0, <1>1, IdleRequest
  <2> QED BY <1>1, <2>1 DEF CInv, CaseTypeOK, Record, Request
<1>4. Framed' /\ MineOwed' /\ TheirsOwed' /\ Apart'
  BY <1>1, <1>2 DEF CInv, Framed, MineOwed, TheirsOwed, Apart, Under
<1>5. NothingBefore' /\ RecordKept'
  BY <1>1 DEF CInv, NothingBefore, RecordKept
<1> QED BY <1>3, <1>4, <1>5 DEF CInv

LEMMA CreateStep ==
  ASSUME CInv, NEW d \in CaseIds, CreateCase(d)
  PROVE  CInv'
<1>1. /\ opened' = opened \cup {d}
      /\ lists' = lists /\ call' = call /\ owed' = owed /\ calls' = calls
  BY DEF CreateCase
<1>2. CaseTypeOK'
  BY <1>1 DEF CInv, CaseTypeOK
<1>3. Framed' /\ MineOwed' /\ TheirsOwed' /\ Apart'
  BY <1>1 DEF CInv, Framed, MineOwed, TheirsOwed, Apart, Under
<1>4. NothingBefore' /\ RecordKept'
  BY <1>1 DEF CInv, NothingBefore, RecordKept
<1> QED BY <1>2, <1>3, <1>4 DEF CInv

LEMMA AddStep ==
  ASSUME CInv, NEW a \in Analysts, CommitAdd(a)
  PROVE  CInv'
<1> DEFINE c == call[a].case
           columns == call[a].columns
           more == [k \in Lists |-> IF k \in columns THEN {call[a].number} ELSE {}]
<1>0. /\ call \in [Analysts -> Request] /\ opened \in SUBSET CaseIds
      /\ lists \in [CaseIds -> Record] /\ owed \in [CaseIds -> Record]
  BY CaseShape DEF CInv
<1>1. /\ call[a].pc = "ready" /\ call' = [call EXCEPT ![a] = NoCall]
      /\ lists' = [lists EXCEPT ![c] = Update(@, columns, call[a].mine, more)]
      /\ owed' = IF call[a].alone THEN [owed EXCEPT ![c] = Also(@, more)] ELSE owed
      /\ opened' = opened /\ calls' = calls
  BY DEF CommitAdd, Ready
<1>2. call[a] \in Request /\ c \in opened /\ c \in CaseIds /\ call[a].number \in Items
  BY <1>0, <1>1 DEF CInv, Framed, Under, Items
<1>3. columns \in SUBSET Lists /\ call[a].mine \in Record
  BY <1>2 DEF Request
<1>4. more \in Record
  BY <1>2 DEF Record
<1>5. \A k \in columns : owed[c][k] \subseteq call[a].mine[k]
  BY <1>1, <1>3 DEF CInv, MineOwed, Under
<1>6. \A k \in Lists \ columns : more[k] = {}
  OBVIOUS
<1> HIDE DEF more, c, columns
<1>7. lists[c] \in Record /\ owed[c] \in Record
  BY <1>0, <1>2
<1>8. Update(lists[c], columns, call[a].mine, more) \in Record /\ Also(owed[c], more) \in Record
  BY <1>3, <1>4, <1>7, RecordShapes
<1>9. lists' \in [CaseIds -> Record] /\ owed' \in [CaseIds -> Record]
  BY <1>0, <1>1, <1>2, <1>8
<1>10. \A k \in Lists : owed[c][k] \subseteq lists[c][k]
  BY <1>2 DEF CInv, RecordKept
<1>11. ASSUME NEW e \in CaseIds, NEW k \in Lists
       PROVE  owed'[e][k] \subseteq lists'[e][k]
  <2>1. CASE e = c
    <3>1. lists'[e][k] = IF k \in columns THEN call[a].mine[k] \cup more[k] ELSE lists[c][k]
      BY <2>1, <1>0, <1>1, <1>2 DEF Update
    <3>2. owed'[e][k] \subseteq owed[c][k] \cup more[k]
      BY <2>1, <1>0, <1>1, <1>2 DEF Also
    <3> QED BY <3>1, <3>2, <1>5, <1>6, <1>10
  <2>2. CASE e # c
    BY <2>2, <1>0, <1>1 DEF CInv, RecordKept
  <2> QED BY <2>1, <2>2
<1>12. \A e \in CaseIds \ opened' : owed'[e] = Empty
  BY <1>0, <1>1, <1>2 DEF CInv, NothingBefore
<1>13. ASSUME NEW e \in opened, NEW k \in Lists, owed'[e][k] # owed[e][k]
       PROVE  call[a].alone /\ e = c /\ k \in columns
  <2>1. call[a].alone /\ e = c
    BY <1>13, <1>0, <1>1
  <2>2. owed'[e][k] = owed[e][k] \cup more[k]
    BY <2>1, <1>0, <1>1, <1>2 DEF Also
  <2> QED BY <2>1, <2>2, <1>6, <1>13
<1> QED
  <2>1. opened \subseteq opened' /\ opened' \subseteq CaseIds
    BY <1>0, <1>1
  <2>2. call[a].pc = "ready" /\ call' = [call EXCEPT ![a] = NoCall] /\ calls' = calls
    BY <1>1
  <2>3. \A e \in opened, k \in Lists :
          owed'[e][k] # owed[e][k] => /\ call[a].alone
                                      /\ e \in {call[a].case, call[a].other}
                                      /\ k \in call[a].columns
    BY <1>13 DEF c, columns
  <2> QED BY <1>9, <1>11, <1>12, <2>1, <2>2, <2>3, CommitStep

LEMMA SaveStep ==
  ASSUME CInv, NEW a \in Analysts, call[a].pc = "ready", call' = [call EXCEPT ![a] = NoCall],
         call[a].other # NoCase, NEW more \in Record,
         \A k \in Lists \ call[a].columns : more[k] = {},
         SaveBoth(a, more)
  PROVE  CInv'
<1> DEFINE c == call[a].case
           d == call[a].other
           columns == call[a].columns
<1>0. /\ call \in [Analysts -> Request] /\ opened \in SUBSET CaseIds
      /\ lists \in [CaseIds -> Record] /\ owed \in [CaseIds -> Record]
  BY CaseShape DEF CInv
<1>1. /\ lists' = [lists EXCEPT ![c] = Update(@, columns, call[a].mine, more),
                                ![d] = Update(@, {"linked_cases"}, call[a].theirs, Linked(c))]
      /\ owed' = IF call[a].alone
                 THEN [owed EXCEPT ![c] = Also(@, more), ![d] = Also(@, Linked(c))] ELSE owed
      /\ opened' = opened /\ calls' = calls
  BY DEF SaveBoth
<1>2. /\ call[a] \in Request /\ c \in opened /\ c \in CaseIds /\ d \in opened /\ d \in CaseIds
      /\ c # d
  BY <1>0 DEF CInv, Framed, Under
<1>3. "linked_cases" \in columns
  <2>1. call[a].op \in {"link", "merge"}
    BY <1>2 DEF CInv, Framed, Under
  <2> QED BY <2>1 DEF CInv, Framed, Under
<1>4. columns \in SUBSET Lists /\ call[a].mine \in Record /\ call[a].theirs \in Record
  BY <1>2 DEF Request
<1>5. \A k \in columns : owed[c][k] \subseteq call[a].mine[k] /\ owed[d][k] \subseteq call[a].theirs[k]
  BY <1>4 DEF CInv, MineOwed, TheirsOwed, Under
<1>6. /\ Linked(c) \in Record
      /\ \A k \in Lists \ {"linked_cases"} : Linked(c)[k] = {}
  BY <1>2, RecordShapes DEF Linked, Empty
<1> HIDE DEF c, d, columns
<1>7. /\ Update(lists[c], columns, call[a].mine, more) \in Record
      /\ Update(lists[d], {"linked_cases"}, call[a].theirs, Linked(c)) \in Record
      /\ Also(owed[c], more) \in Record /\ Also(owed[d], Linked(c)) \in Record
  BY <1>0, <1>2, <1>3, <1>4, <1>6, RecordShapes
<1>8. lists' \in [CaseIds -> Record] /\ owed' \in [CaseIds -> Record]
  BY <1>0, <1>1, <1>2, <1>7
<1>9. \A e \in CaseIds, k \in Lists : owed[e][k] \subseteq lists[e][k]
  BY DEF CInv, RecordKept
<1>10. ASSUME NEW e \in CaseIds, NEW k \in Lists
       PROVE  owed'[e][k] \subseteq lists'[e][k]
  <2>1. CASE e = c
    <3>1. lists'[e][k] = IF k \in columns THEN call[a].mine[k] \cup more[k] ELSE lists[c][k]
      BY <2>1, <1>0, <1>1, <1>2 DEF Update
    <3>2. owed'[e][k] \subseteq owed[c][k] \cup more[k]
      BY <2>1, <1>0, <1>1, <1>2 DEF Also
    <3>3. k \notin columns => more[k] = {}
      BY DEF columns
    <3> QED BY <3>1, <3>2, <3>3, <1>2, <1>5, <1>9
  <2>2. CASE e = d
    <3>1. lists'[e][k] = IF k = "linked_cases" THEN call[a].theirs[k] \cup Linked(c)[k] ELSE lists[d][k]
      BY <2>2, <1>0, <1>1, <1>2 DEF Update
    <3>2. owed'[e][k] \subseteq owed[d][k] \cup Linked(c)[k]
      BY <2>2, <1>0, <1>1, <1>2 DEF Also
    <3> QED BY <3>1, <3>2, <1>2, <1>3, <1>5, <1>6, <1>9
  <2>3. CASE e # c /\ e # d
    BY <2>3, <1>0, <1>1, <1>9
  <2> QED BY <2>1, <2>2, <2>3
<1>11. \A e \in CaseIds \ opened' : owed'[e] = Empty
  BY <1>0, <1>1, <1>2 DEF CInv, NothingBefore
<1>12. ASSUME NEW e \in opened, NEW k \in Lists, owed'[e][k] # owed[e][k]
       PROVE  call[a].alone /\ e \in {c, d} /\ k \in columns
  <2>1. call[a].alone /\ e \in {c, d}
    BY <1>12, <1>0, <1>1
  <2>2. e = c => owed'[e][k] = owed[e][k] \cup more[k]
    BY <2>1, <1>0, <1>1, <1>2 DEF Also
  <2>3. e = d => owed'[e][k] = owed[e][k] \cup Linked(c)[k]
    BY <2>1, <1>0, <1>1, <1>2 DEF Also
  <2>4. k \notin columns => more[k] = {}
    BY DEF columns
  <2> QED BY <2>1, <2>2, <2>3, <2>4, <1>3, <1>6, <1>12
<1> QED
  <2>1. opened \subseteq opened' /\ opened' \subseteq CaseIds
    BY <1>0, <1>1
  <2>2. call[a].pc = "ready" /\ call' = [call EXCEPT ![a] = NoCall] /\ calls' = calls
    BY <1>1
  <2>3. \A e \in opened, k \in Lists :
          owed'[e][k] # owed[e][k] => /\ call[a].alone
                                      /\ e \in {call[a].case, call[a].other}
                                      /\ k \in call[a].columns
    BY <1>12 DEF c, d, columns
  <2> QED BY <1>8, <1>10, <1>11, <2>1, <2>2, <2>3, CommitStep

LEMMA LinkStep ==
  ASSUME CInv, NEW a \in Analysts, CommitLink(a)
  PROVE  CInv'
<1>1. /\ call[a].pc = "ready" /\ call[a].op = "link" /\ call' = [call EXCEPT ![a] = NoCall]
      /\ SaveBoth(a, Linked(call[a].other))
  BY DEF CommitLink, Ready
<1>2. call[a].other # NoCase /\ call[a].other \in CaseIds /\ call[a].columns = {"linked_cases"}
  BY <1>1 DEF CInv, Framed, Under, CaseTypeOK
<1>3. /\ Linked(call[a].other) \in Record
      /\ \A k \in Lists \ call[a].columns : Linked(call[a].other)[k] = {}
  BY <1>2, RecordShapes DEF Linked, Empty
<1> QED BY <1>1, <1>2, <1>3, SaveStep

LEMMA MergeStep ==
  ASSUME CInv, NEW a \in Analysts, CommitMerge(a)
  PROVE  CInv'
<1> DEFINE more == [Linked(call[a].other) EXCEPT
                      !["war_room"] = call[a].theirs["war_room"] \cup {call[a].number},
                      !["evidence"] = call[a].theirs["evidence"]]
<1>1. /\ call[a].pc = "ready" /\ call[a].op = "merge" /\ call' = [call EXCEPT ![a] = NoCall]
      /\ SaveBoth(a, more)
  BY DEF CommitMerge, Ready
<1>2. /\ call[a].other # NoCase /\ call[a].other \in CaseIds
      /\ call[a].columns = {"linked_cases", "war_room", "evidence"}
      /\ call[a].number \in Items /\ call[a].theirs \in Record
  BY <1>1, CaseShape DEF CInv, Framed, Under, Request, Items
<1>3. /\ Linked(call[a].other) \in Record
      /\ \A k \in Lists \ {"linked_cases"} : Linked(call[a].other)[k] = {}
  BY <1>2, RecordShapes DEF Linked, Empty
<1>4. /\ call[a].theirs["war_room"] \cup {call[a].number} \in SUBSET Items
      /\ call[a].theirs["evidence"] \in SUBSET Items
  BY <1>2 DEF Record, Lists
<1>5. more \in Record
  BY <1>3, <1>4 DEF Record
<1>6. \A k \in Lists \ call[a].columns : more[k] = {}
  BY <1>2, <1>3 DEF Record
<1> HIDE DEF more
<1> QED BY <1>1, <1>2, <1>5, <1>6, SaveStep

LEMMA SplitStep ==
  ASSUME CInv, NEW a \in Analysts, NEW d \in CaseIds, CommitSplit(a, d)
  PROVE  CInv'
<1> DEFINE c == call[a].case
           columns == call[a].columns
<1>0. /\ call \in [Analysts -> Request] /\ opened \in SUBSET CaseIds
      /\ lists \in [CaseIds -> Record] /\ owed \in [CaseIds -> Record]
  BY CaseShape DEF CInv
<1>1. /\ call[a].pc = "ready" /\ call[a].op = "split" /\ call' = [call EXCEPT ![a] = NoCall]
      /\ d \notin opened /\ opened' = opened \cup {d} /\ calls' = calls
      /\ lists' = [lists EXCEPT ![c] = Update(@, columns, call[a].mine, Linked(d)), ![d] = Linked(c)]
      /\ owed' = IF call[a].alone
                 THEN [owed EXCEPT ![c] = Also(@, Linked(d)), ![d] = Linked(c)] ELSE owed
  BY DEF CommitSplit, Ready
<1>2. call[a] \in Request /\ c \in opened /\ c \in CaseIds /\ c # d /\ columns = {"linked_cases"}
  BY <1>0, <1>1 DEF CInv, Framed, Under
<1>3. call[a].mine \in Record /\ columns \in SUBSET Lists
  BY <1>2 DEF Request
<1>4. \A k \in columns : owed[c][k] \subseteq call[a].mine[k]
  BY <1>1, <1>3 DEF CInv, MineOwed, Under
<1>5. /\ Linked(c) \in Record /\ Linked(d) \in Record
      /\ \A k \in Lists \ {"linked_cases"} : Linked(d)[k] = {}
  BY <1>2, RecordShapes DEF Linked, Empty
<1>6. \A k \in Lists : owed[d][k] = {}
  BY <1>1 DEF CInv, NothingBefore, Empty
<1> HIDE DEF c, columns
<1>7. /\ Update(lists[c], columns, call[a].mine, Linked(d)) \in Record
      /\ Also(owed[c], Linked(d)) \in Record
  BY <1>0, <1>2, <1>3, <1>5, RecordShapes
<1>8. lists' \in [CaseIds -> Record] /\ owed' \in [CaseIds -> Record]
  BY <1>0, <1>1, <1>2, <1>5, <1>7
<1>9. \A e \in CaseIds, k \in Lists : owed[e][k] \subseteq lists[e][k]
  BY DEF CInv, RecordKept
<1>10. ASSUME NEW e \in CaseIds, NEW k \in Lists
       PROVE  owed'[e][k] \subseteq lists'[e][k]
  <2>1. CASE e = c
    <3>1. lists'[e][k] = IF k \in columns THEN call[a].mine[k] \cup Linked(d)[k] ELSE lists[c][k]
      BY <2>1, <1>0, <1>1, <1>2 DEF Update
    <3>2. owed'[e][k] \subseteq owed[c][k] \cup Linked(d)[k]
      BY <2>1, <1>0, <1>1, <1>2 DEF Also
    <3> QED BY <3>1, <3>2, <1>2, <1>4, <1>5, <1>9
  <2>2. CASE e = d
    BY <2>2, <1>0, <1>1, <1>2, <1>6
  <2>3. CASE e # c /\ e # d
    BY <2>3, <1>0, <1>1, <1>9
  <2> QED BY <2>1, <2>2, <2>3
<1>11. \A e \in CaseIds \ opened' : owed'[e] = Empty
  BY <1>0, <1>1, <1>2 DEF CInv, NothingBefore
<1>12. ASSUME NEW e \in opened, NEW k \in Lists, owed'[e][k] # owed[e][k]
       PROVE  call[a].alone /\ e = c /\ k \in columns
  <2>1. call[a].alone /\ e = c
    BY <1>12, <1>0, <1>1
  <2>2. owed'[e][k] = owed[e][k] \cup Linked(d)[k]
    BY <2>1, <1>0, <1>1, <1>2 DEF Also
  <2> QED BY <2>1, <2>2, <1>2, <1>5, <1>12
<1> QED
  <2>1. opened \subseteq opened' /\ opened' \subseteq CaseIds
    BY <1>0, <1>1
  <2>2. call[a].pc = "ready" /\ call' = [call EXCEPT ![a] = NoCall] /\ calls' = calls
    BY <1>1
  <2>3. \A e \in opened, k \in Lists :
          owed'[e][k] # owed[e][k] => /\ call[a].alone
                                      /\ e \in {call[a].case, call[a].other}
                                      /\ k \in call[a].columns
    BY <1>12 DEF c, columns
  <2> QED BY <1>8, <1>10, <1>11, <2>1, <2>2, <2>3, CommitStep

LEMMA CaseStep == CInv /\ [CasesNext]_caseVars => CInv'
<1> SUFFICES ASSUME CInv, [CasesNext]_caseVars
             PROVE  CInv'
  OBVIOUS
<1>1. CASE UNCHANGED caseVars
  BY <1>1 DEF caseVars, CInv, CaseTypeOK, Framed, MineOwed, TheirsOwed, Apart, Under,
              NothingBefore, RecordKept
<1>2. ASSUME NEW d \in CaseIds, CreateCase(d)
      PROVE  CInv'
  BY <1>2, CreateStep
<1>3. ASSUME NEW a \in Analysts, NEW c \in CaseIds,
             \/ \E k \in Lists \ {"linked_cases"} : Add(a, c, k)
             \/ \E d \in CaseIds : Link(a, c, d) \/ Merge(a, c, d)
             \/ Split(a, c)
      PROVE  CInv'
  BY <1>3, AskStep
<1>4. ASSUME NEW a \in Analysts, NEW c \in CaseIds, CommitSplit(a, c)
      PROVE  CInv'
  BY <1>4, SplitStep
<1>5. ASSUME NEW a \in Analysts,
             \/ ReadOther(a) \/ DropCall(a)
             \/ CommitAdd(a) \/ CommitLink(a) \/ CommitMerge(a)
      PROVE  CInv'
  BY <1>5, ReadOtherStep, DropStep, AddStep, LinkStep, MergeStep
<1> QED BY <1>1, <1>2, <1>3, <1>4, <1>5 DEF CasesNext

\* Cases, requests and what is owed keep their shape however requests overlap.
THEOREM CaseTypes == CasesSpec => []CaseTypeOK
<1>1. CInv => CaseTypeOK
  BY DEF CInv
<1> QED BY CasesStart, CaseStep, <1>1, PTL DEF CasesSpec

\* However requests overlap, what one of them added to the record of a case while it
\* had the column to itself is never lost again (routers/soar.py, lines 359-632).
THEOREM CaseRecordKept == CasesSpec => []RecordKept
<1>1. CInv => RecordKept
  BY DEF CInv
<1> QED BY CasesStart, CaseStep, <1>1, PTL DEF CasesSpec

-----------------------------------------------------------------------------
(***************************************************************************)
(* Playbook implements SignOff. Every write of a run is an Act of the      *)
(* abstract machine; that a decision acts on a run which waits still, and  *)
(* on steps which have not taken effect, is what DecisionsKnow and         *)
(* DoneOnce say of it when it is written.                                  *)
(***************************************************************************)

\* A written run is an Act on it.
LEMMA WrittenActs ==
  ASSUME Shaped, NEW r \in Runs, NEW new \in Row, NEW S \in SUBSET Nat, Written(r, new, S),
         raced' = raced
  PROVE  \E T \in SUBSET (1 .. MaxSteps) : T \subseteq S /\ Gate!Act(r, T, new.status)
<1> DEFINE D == 1 .. MaxSteps
           T == S \cap D
           old == [q \in Runs |-> run[q].status]
<1>1. run \in [Runs -> Row] /\ acted \in [Runs -> [D -> Nat]]
  BY DEF Shaped
<1>2. run' = [run EXCEPT ![r] = new]
  BY DEF Written
<1>3. acted' = [acted EXCEPT ![r] = [i \in D |-> IF i \in S THEN acted[r][i] + 1 ELSE acted[r][i]]]
  BY Zenon DEF Written, Count
<1>4. [i \in D |-> IF i \in S THEN acted[r][i] + 1 ELSE acted[r][i]]
        = [i \in D |-> IF i \in T THEN acted[r][i] + 1 ELSE acted[r][i]]
  OBVIOUS
<1>5. acted' = [acted EXCEPT ![r] = [i \in D |-> IF i \in T THEN acted[r][i] + 1 ELSE acted[r][i]]]
  BY <1>3, <1>4, Zenon
<1>6. [q \in Runs |-> run'[q].status] = [old EXCEPT ![r] = new.status]
  BY <1>1, <1>2
<1>7. Gate!Act(r, T, new.status)
  BY <1>5, <1>6, Zenon DEF Gate!Act
<1> QED BY <1>7

\* What a start, an approval and a rejection make of a run.
LEMMA ExecuteReaches ==
  ASSUME Shaped, NEW r \in Runs, NEW trigger \in {"manual", "auto"},
         NEW a \in Alerts \cup {NoAlert}, Execute(r, trigger, a)
  PROVE  run'[r].status \in Gate!Reached
<1> DEFINE def == playbook.steps
<1>0. def \in Definitions
  BY DEF Shaped
<1>1. PICK o \in Outcomes(def) :
        run' = [run EXCEPT ![r] =
                  [status   |-> StatusAfter(def, 1, o),
                   trigger  |-> trigger,
                   alert    |-> a,
                   current  |-> IF Pauses(def, 1, o) THEN Len(Executed(def, 1, o))
                                ELSE Len(Executed(def, 1, o)) + 1,
                   steps    |-> Executed(def, 1, o),
                   finished |-> ~ Pauses(def, 1, o)]]
  BY Zenon DEF Execute
<1>2. StatusAfter(def, 1, o) \in {"awaiting-approval", "success", "failed"}
  BY <1>0, StatusAfterRange
<1> DEFINE status == StatusAfter(def, 1, o)
           results == Executed(def, 1, o)
           paused == Pauses(def, 1, o)
           cur == IF paused THEN Len(results) ELSE Len(results) + 1
           new == [status |-> status, trigger |-> trigger, alert |-> a, current |-> cur,
                   steps |-> results, finished |-> ~ paused]
<1>3. run' = [run EXCEPT ![r] = new]
  BY <1>1, Zenon
<1>4. new.status = status
  OBVIOUS
<1> HIDE DEF new
<1>5. run'[r] = new
  BY <1>3 DEF Shaped
<1> QED BY <1>2, <1>4, <1>5 DEF Gate!Reached

LEMMA ApproveReaches ==
  ASSUME Shaped, NEW d \in Deciders, Approve(d)
  PROVE  run'[decider[d].id].status \in Gate!Reached
<1> DEFINE def == decider[d].steps
           row == decider[d].run
           r == decider[d].id
           at == ResumeAt(row)
<1>0. def \in Definitions /\ row \in Row /\ r \in Runs /\ at \in Nat \ {0}
  <2>1. decider[d].pc = "deciding"
    BY DEF Approve
  <2> QED BY <2>1, DecisionShape, ResumeRange
<1>1. PICK o \in Outcomes(def) :
        run' = [run EXCEPT ![r] = Saved(row, StatusAfter(def, at, o),
                                        Stamped(row, TRUE) \o Executed(def, at, o))]
  BY Zenon DEF Approve
<1>2. StatusAfter(def, at, o) \in {"awaiting-approval", "success", "failed"}
  BY <1>0, StatusAfterRange
<1> DEFINE status == StatusAfter(def, at, o)
           results == Stamped(row, TRUE) \o Executed(def, at, o)
<1> HIDE DEF status, results, def, at
<1>3. Saved(row, status, results).status = status
  BY <1>0 DEF Saved, Row
<1>4. run'[r] = Saved(row, status, results)
  BY <1>0, <1>1 DEF Shaped, status, results
<1> QED BY <1>2, <1>3, <1>4 DEF Gate!Reached, status

LEMMA RejectRefuses ==
  ASSUME Shaped, NEW d \in Deciders, Reject(d)
  PROVE  Gate!Act(decider[d].id, {}, "rejected")
<1> DEFINE row == decider[d].run
           r == decider[d].id
           results == Stamped(row, FALSE) \o SkippedFrom(decider[d].steps, ResumeAt(row))
           old == [q \in Runs |-> run[q].status]
           D == 1 .. MaxSteps
<1>0. row \in Row /\ r \in Runs
  <2>1. decider[d].pc = "deciding"
    BY DEF Reject
  <2> QED BY <2>1, DecisionShape
<1>1. run' = [run EXCEPT ![r] = Saved(row, "rejected", results)] /\ acted' = acted
      /\ raced' = raced
  BY Zenon DEF Reject
<1> HIDE DEF results
<1>2. Saved(row, "rejected", results).status = "rejected"
  BY <1>0 DEF Saved, Row
<1>3. [q \in Runs |-> run'[q].status] = [old EXCEPT ![r] = "rejected"]
  BY <1>0, <1>1, <1>2 DEF Shaped
<1>4. acted[r] = [i \in D |-> acted[r][i]] /\ acted' = [acted EXCEPT ![r] = acted[r]]
  BY <1>0, <1>1 DEF Shaped
<1>5. [i \in D |-> IF i \in {} THEN acted[r][i] + 1 ELSE acted[r][i]] = acted[r]
  BY <1>4
<1> HIDE DEF r
<1>6. acted' = [acted EXCEPT ![r] = [i \in D |-> IF i \in {} THEN acted[r][i] + 1
                                                             ELSE acted[r][i]]]
  BY <1>4, <1>5, Zenon
<1> QED BY <1>1, <1>3, <1>6, Zenon DEF Gate!Act, r

\* The ways a run of SignOff moves.
LEMMA SignOffMoves ==
  ASSUME NEW r \in Runs, NEW T \in SUBSET (1 .. MaxSteps), NEW st \in Gate!Reached \cup {"rejected"},
         Gate!Start(r, T, st) \/ Gate!Sign(r, T, st) \/ Gate!DecideAgain(r, T, st) \/ Gate!Refuse(r)
  PROVE  Gate!Next
BY Zenon DEF Gate!Next

\* A start is one of SignOff.
LEMMA StartIsStart ==
  ASSUME IInv, NEW r \in Runs, NEW trigger \in {"manual", "auto"}, NEW a \in Alerts \cup {NoAlert},
         run[r].status = "none", Execute(r, trigger, a), raced' = raced
  PROVE  Gate!Next
<1>1. Shaped
  BY DEF IInv
<1>2. PICK new \in Row, S \in SUBSET Nat : Written(r, new, S)
  <2>1. PICK new \in Row, S \in SUBSET Nat :
          /\ Written(r, new, S)
          /\ new.status \in Live /\ new.trigger = trigger /\ new.alert = a
          /\ new.current <= Len(new.steps) + 1
          /\ new.status = "awaiting-approval" => S \subseteq 1 .. new.current
    BY <1>1, ExecuteWrites
  <2> QED BY <2>1, Zenon
<1>3. PICK T \in SUBSET (1 .. MaxSteps) : T \subseteq S /\ Gate!Act(r, T, new.status)
  BY <1>1, <1>2, WrittenActs, Zenon
<1>4. new.status \in Gate!Reached
  <2>1. run'[r] = new
    BY <1>1, <1>2, WrittenShape, Zenon
  <2>2. run'[r].status \in Gate!Reached
    BY <1>1, ExecuteReaches, Zenon
  <2> QED BY <2>1, <2>2, Zenon
<1>5. Gate!Fresh(r, T)
  <2>1. RowsKnown
    BY Zenon DEF IInv
  <2>2. \A i \in 1 .. MaxSteps : acted[r][i] = 0
    BY <2>1, Zenon DEF RowsKnown
  <2> QED BY <2>2 DEF Gate!Fresh
<1>6. Gate!Start(r, T, new.status)
  BY <1>3, <1>4, <1>5 DEF Gate!Start
<1> QED BY <1>4, <1>6, SignOffMoves

\* A decision is a signature or a refusal, or a second decision on a run.
LEMMA DecisionIsSigned ==
  ASSUME IInv, NEW d \in Deciders, Decides(d)
  PROVE  Gate!Next
<1> DEFINE row == decider[d].run
<1>0. Shaped
  BY DEF IInv
<1>1. Known(d) /\ decider[d].id \in Runs /\ raced' = raced
  BY DecideWrites, Zenon
<1> PICK r \in Runs : r = decider[d].id
  BY <1>1
<1>2. PICK new \in Row, S \in SUBSET Nat : Written(r, new, S) /\ Follows(new, row, S)
  <2>1. PICK new \in Row, S \in SUBSET Nat :
          Written(decider[d].id, new, S) /\ Follows(new, row, S)
    BY DecideWrites, Zenon
  <2>2. Written(r, new, S)
    BY <2>1 DEF Written
  <2> QED BY <2>1, <2>2
<1>3. CASE Approve(d)
  <2>1. PICK T \in SUBSET (1 .. MaxSteps) : T \subseteq S /\ Gate!Act(r, T, new.status)
    BY <1>0, <1>1, <1>2, WrittenActs, Zenon
  <2>2. new.status \in Gate!Reached
    BY <1>0, <1>1, <1>2, <1>3, ApproveReaches, WrittenShape
  <2>3. CASE r \in raced
    <3>1. Gate!DecideAgain(r, T, new.status)
      BY <1>1, <2>1, <2>2, <2>3 DEF Known, Gate!DecideAgain
    <3> QED BY <1>1, <2>2, <3>1, SignOffMoves
  <2>4. CASE r \notin raced
    <3>1. run[r] = row /\ row.status = "awaiting-approval"
      BY <1>1, <2>4 DEF Known
    <3>2. ASSUME NEW i \in T PROVE acted[r][i] = 0
      <4>1. row.current < i /\ i \in 1 .. MaxSteps
        BY <1>2, <2>1, <3>2 DEF Follows
      <4>2. row.current \in Nat /\ i \in Nat
        BY <1>0, <1>1, <3>1, <4>1, StepsBounded DEF Shaped, Row
      <4>3. i \notin 1 .. run[r].current
        BY <3>1, <4>1, <4>2
      <4> QED BY <1>1, <2>4, <3>1, <4>1, <4>3 DEF IInv, DoneOnce
    <3>3. Gate!Sign(r, T, new.status)
      BY <1>1, <2>1, <2>2, <3>1, <3>2 DEF Gate!Sign, Gate!Fresh
    <3> QED BY <1>1, <2>2, <3>3, SignOffMoves
  <2> QED BY <2>3, <2>4
<1>4. CASE Reject(d)
  <2>1. Gate!Act(r, {}, "rejected")
    BY <1>0, <1>4, RejectRefuses DEF Gate!Act
  <2>2. CASE r \in raced
    <3>1. Gate!DecideAgain(r, {}, "rejected")
      BY <1>1, <2>1, <2>2 DEF Known, Gate!DecideAgain
    <3> QED BY <1>1, <3>1, SignOffMoves
  <2>3. CASE r \notin raced
    <3>1. Gate!Refuse(r)
      BY <1>1, <2>1, <2>3 DEF Known, Gate!Refuse
    <3> QED BY <1>1, <3>1, SignOffMoves
  <2> QED BY <2>2, <2>3
<1> QED BY <1>3, <1>4 DEF Decides

LEMMA SignOffStep == IInv /\ [Next]_vars => [Gate!Next]_(Gate!vars)
<1> SUFFICES ASSUME IInv, [Next]_vars PROVE Gate!Next \/ UNCHANGED Gate!vars
  OBVIOUS
<1>1. ASSUME NEW r \in Runs, NEW a \in Alerts \cup {NoAlert}, RunPlaybook(r, a)
      PROVE  Gate!Next
  <2>1. run[r].status = "none" /\ Execute(r, "manual", a) /\ raced' = raced
    BY <1>1 DEF RunPlaybook
  <2> QED BY <2>1, StartIsStart
<1>2. ASSUME NEW r \in Runs, NEW a \in Alerts, AutoTrigger(r, a)
      PROVE  Gate!Next
  <2>1. run[r].status = "none" /\ Execute(r, "auto", a) /\ raced' = raced
    BY <1>2 DEF AutoTrigger
  <2> QED BY <2>1, StartIsStart
<1>3. ASSUME NEW d \in Deciders, Decides(d)
      PROVE  Gate!Next
  BY <1>3, DecisionIsSigned
<1>4. ASSUME NEW d \in Deciders, NEW r \in Runs, NEW approve \in BOOLEAN, ReadRun(d, r, approve)
      PROVE  Gate!Next \/ UNCHANGED Gate!vars
  <2>1. /\ run[r].status = "awaiting-approval" /\ run' = run /\ acted' = acted
        /\ raced' = raced \/ raced' = raced \cup {r}
    BY <1>4, Zenon DEF ReadRun
  <2>2. CASE raced' = raced
    BY <2>1, <2>2 DEF Gate!vars
  <2>3. CASE raced' = raced \cup {r}
    <3>1. Gate!Overlap(r)
      BY <2>1, <2>3 DEF Gate!Overlap
    <3> QED BY <3>1, Zenon DEF Gate!Next
  <2> QED BY <2>1, <2>2, <2>3
<1>5. ASSUME NEW def \in Definitions, NEW enabled \in BOOLEAN, Edit(def, enabled)
      PROVE  UNCHANGED Gate!vars
  BY <1>5 DEF Edit, Gate!vars
<1>6. CASE UNCHANGED vars
  BY <1>6 DEF vars, Gate!vars
<1> QED BY <1>1, <1>2, <1>3, <1>4, <1>5, <1>6, Zenon DEF Next, Decides

\* The requests and the engine together implement SignOff, whatever the definitions of the
\* playbook and however it is edited while runs wait: a waiting run takes effects only by
\* being signed, each of them once, and a refused one takes none.
THEOREM ImplementsSignOff == Spec => SignedOff
<1>1. Init => Gate!Init
  BY DEF Init, Gate!Init, NoRun
<1> QED BY <1>1, AlwaysIInv, SignOffStep, PTL DEF Spec, SignedOff, Gate!Spec

-----------------------------------------------------------------------------
(***************************************************************************)
(* MCSoar. The run explores runs of a playbook and requests on cases side  *)
(* by side, one of the two per behaviour. A behaviour it explores is one   *)
(* of Playbook and one of Cases, so what is proved of them holds of it.    *)
(***************************************************************************)

LEMMA EitherMoves ==
  [PlaybookPart \/ CasesPart]_<<part, vars, caseVars>> => [Next]_vars /\ [CasesNext]_caseVars
  BY DEF PlaybookPart, CasesPart

LEMMA BothStart == SoarInit => Init /\ CasesInit
  BY DEF SoarInit

\* The union implements both of its components.
THEOREM SoarComposes == SoarSpec => Spec /\ CasesSpec
<1> QED BY BothStart, EitherMoves, PTL DEF SoarSpec, Spec, CasesSpec

\* The rows of playbook_runs, the decisions under way, the cases and the requests on them
\* keep their shape, whichever of the two a behaviour is about.
THEOREM SoarTypes == SoarSpec => []SoarTypeOK
<1> QED BY SoarComposes, PlaybookTypes, CaseTypes, PTL DEF SoarTypeOK

\* The definitions of the playbook run meet the condition of the theorems about the order
\* of results (SingleGate), so those speak of the instance the run checks; TwoGates, whose
\* run finds a gate overrun, does not.
LEMMA OneGateIsSingle == ASSUME Definitions = OneGate PROVE SingleGate
<1>1. \A d \in OneGate : \A i \in 1 .. Len(d) : d[i] = "approval" => i = 2
  BY DEF OneGate
<1> QED BY <1>1 DEF SingleGate

SoarSafe ==
  /\ SignedBeforeActing /\ NoStepLost /\ HaltIsFinal
  /\ ActsOnce /\ AutoOnce
  /\ RecordKept

\* Every safety invariant of the run holds of the union, for every value of the constants
\* whose definitions have one gate: no gate is overrun, no step lost or done twice and no
\* list of a case written over, and a verdict is final.
THEOREM SoarIsSafe == ASSUME SingleGate PROVE SoarSpec => []SoarSafe /\ VerdictIsFinal
<1>1. SoarSpec => []SignedBeforeActing /\ []NoStepLost /\ []HaltIsFinal
  BY SoarComposes, ActsAfterSignature, StepsAccountedFor, HaltsAreFinal
<1>2. SoarSpec => []ActsOnce /\ []AutoOnce /\ []RecordKept
  BY SoarComposes, StepsActOnce, AutomaticRunsOnce, CaseRecordKept
<1>3. SoarSpec => VerdictIsFinal
  BY SoarComposes, VerdictsAreFinal
<1> QED BY <1>1, <1>2, <1>3, PTL DEF SoarSafe
=============================================================================
