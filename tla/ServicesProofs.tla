---------------------------- MODULE ServicesProofs ----------------------------
(***************************************************************************)
(* Proofs about the webhooks (Webhooks) and about MCServices, which puts   *)
(* them beside the log sources (LogSourcesProofs), the hunts and the IOC   *)
(* lifecycle (MatchingProofs).                                             *)
(***************************************************************************)
EXTENDS MCServices, LogSourcesProofs, MatchingProofs

-----------------------------------------------------------------------------
(***************************************************************************)
(* Webhooks. PauseHolds is inductive beside the type invariant: it speaks  *)
(* of the status and of what every delivery has read, which is all a later *)
(* step of a delivery acts on. The type invariant needs AttemptsLeft: the  *)
(* bound on the attempts is kept by the guard of the attempt before.       *)
(***************************************************************************)

\* A delivery that is about to post has attempts left.
AttemptsLeft == \A d \in Deliveries :
                  delivery[d].pc = "posting" => delivery[d].attempts < MaxAttempts

HookIInv == HookTypeOK /\ AttemptsLeft

-----------------------------------------------------------------------------
(* Types *)

\* The local variables of a delivery.
DeliveryState == [pc       : {"none", "picking", "posting", "saving", "over"},
                  left     : SUBSET Hooks,
                  to       : Hooks \cup {NoHook},
                  attempts : 0 .. MaxAttempts,
                  ok       : BOOLEAN]

LEMMA HookInitInv == HookInit => HookIInv
<1> SUFFICES ASSUME HookInit PROVE HookIInv
  OBVIOUS
<1>1. 0 \in 0 .. MaxAttempts /\ 0 \in 0 .. MaxSwitches
  BY WebhookAssumption
<1> QED BY <1>1 DEF HookInit, HookIInv, HookTypeOK, AttemptsLeft

\* A step of one delivery changes its local variables only, and keeps attempts in hand
\* if it goes on posting.
LEMMA DeliveryStep ==
  ASSUME HookIInv, NEW d \in Deliveries, NEW now \in DeliveryState,
         delivery' = [delivery EXCEPT ![d] = now],
         now.pc = "posting" => now.attempts < MaxAttempts,
         hook' \in [Hooks -> {"active", "failing", "paused", "deleted"}],
         inFlight' \in SUBSET Hooks,
         UNCHANGED <<paused, switches>>
  PROVE  HookIInv'
<1>1. delivery \in [Deliveries -> DeliveryState]
  BY DEF HookIInv, HookTypeOK, DeliveryState
<1>2. delivery' \in [Deliveries -> DeliveryState]
  BY <1>1
<1>3. HookTypeOK'
  BY <1>2 DEF HookIInv, HookTypeOK, DeliveryState
<1>4. \A e \in Deliveries : delivery'[e] = IF e = d THEN now ELSE delivery[e]
  BY <1>1
<1>5. AttemptsLeft'
  BY <1>4 DEF HookIInv, AttemptsLeft
<1> QED BY <1>3, <1>5 DEF HookIInv

LEMMA HookStepInv == HookIInv /\ [HookNext]_hookVars => HookIInv'
<1> SUFFICES ASSUME HookIInv, [HookNext]_hookVars PROVE HookIInv'
  OBVIOUS
<1>a. /\ delivery \in [Deliveries -> DeliveryState]
      /\ hook \in [Hooks -> {"active", "failing", "paused", "deleted"}]
      /\ inFlight \in SUBSET Hooks
  BY DEF HookIInv, HookTypeOK, DeliveryState
<1>1. ASSUME NEW w \in Hooks, Pause(w) \/ Resume(w) \/ Delete(w) PROVE HookIInv'
  <2>1. hook' \in [Hooks -> {"active", "failing", "paused", "deleted"}]
    BY <1>a, <1>1 DEF Pause, Resume, Delete
  <2>2. switches' \in 0 .. MaxSwitches
    BY <1>1, WebhookAssumption DEF Pause, Resume, Delete, Switch, HookIInv, HookTypeOK
  <2>3. paused' \in SUBSET Hooks /\ inFlight' \in SUBSET Hooks
    BY <1>1 DEF Pause, Resume, Delete, HookIInv, HookTypeOK
  <2>4. delivery' = delivery
    BY <1>1 DEF Pause, Resume, Delete
  <2>5. HookTypeOK'
    BY <1>a, <2>1, <2>2, <2>3, <2>4 DEF HookTypeOK, DeliveryState
  <2> QED BY <2>4, <2>5 DEF HookIInv, AttemptsLeft
<1>2. ASSUME NEW d \in Deliveries, Dispatch(d) PROVE HookIInv'
  <2> DEFINE now == [delivery[d] EXCEPT !.pc = "picking", !.left = Subscribers]
  <2>1. now \in DeliveryState /\ now.pc = "picking"
    BY <1>a DEF DeliveryState, Subscribers
  <2>2. delivery' = [delivery EXCEPT ![d] = now]
    BY <1>2 DEF Dispatch
  <2>3. UNCHANGED <<hook, paused, inFlight, switches>>
    BY <1>2 DEF Dispatch
  <2> HIDE DEF now
  <2> QED BY <1>a, <2>1, <2>2, <2>3, DeliveryStep
<1>3. ASSUME NEW d \in Deliveries, NEW w \in Hooks, Test(d, w) PROVE HookIInv'
  <2> DEFINE now == [delivery[d] EXCEPT !.pc = "picking", !.left = {w}]
  <2>1. now \in DeliveryState /\ now.pc = "picking"
    BY <1>a DEF DeliveryState
  <2>2. inFlight' \in SUBSET Hooks
    BY <1>a, <1>3 DEF Test
  <2>3. delivery' = [delivery EXCEPT ![d] = now]
    BY <1>3 DEF Test
  <2>4. UNCHANGED <<hook, paused, switches>>
    BY <1>3 DEF Test
  <2> HIDE DEF now
  <2> QED BY <1>a, <2>1, <2>2, <2>3, <2>4, DeliveryStep
<1>4. ASSUME NEW d \in Deliveries, NEW w \in Hooks, PickNext(d, w) PROVE HookIInv'
  <2> DEFINE now == [pc |-> "posting", left |-> delivery[d].left \ {w}, to |-> w,
                     attempts |-> 0, ok |-> FALSE]
  <2>1. now \in DeliveryState /\ now.attempts < MaxAttempts
    BY <1>a, WebhookAssumption DEF DeliveryState
  <2>2. delivery' = [delivery EXCEPT ![d] = now]
    BY <1>4 DEF PickNext
  <2>3. UNCHANGED <<hook, paused, inFlight, switches>>
    BY <1>4 DEF PickNext
  <2> HIDE DEF now
  <2> QED BY <1>a, <2>1, <2>2, <2>3, DeliveryStep
<1>5. ASSUME NEW d \in Deliveries, NEW answered \in BOOLEAN, Attempt(d, answered)
      PROVE  HookIInv'
  <2> DEFINE n == delivery[d].attempts + 1
             now == [delivery[d] EXCEPT
                       !.attempts = n, !.ok = answered,
                       !.pc = IF answered \/ LastAttempt(n) THEN "saving" ELSE "posting"]
  <2>1. delivery[d].attempts \in 0 .. MaxAttempts
    BY <1>a DEF DeliveryState
  <2>2. delivery[d].attempts < MaxAttempts
    BY <1>5 DEF Attempt, HookIInv, AttemptsLeft
  <2>3. n \in 0 .. MaxAttempts
    BY <2>1, <2>2, WebhookAssumption
  <2>4. now \in DeliveryState /\ now.attempts = n
    BY <1>a, <2>3 DEF DeliveryState
  <2>5. now.pc = "posting" => n # MaxAttempts
    BY <1>a DEF LastAttempt, DeliveryState
  <2>6. now.pc = "posting" => now.attempts < MaxAttempts
    BY <2>3, <2>4, <2>5, WebhookAssumption
  <2>7. delivery' = [delivery EXCEPT ![d] = now]
    BY <1>5 DEF Attempt
  <2>8. UNCHANGED <<hook, paused, inFlight, switches>>
    BY <1>5 DEF Attempt
  <2> HIDE DEF n, now
  <2> QED BY <1>a, <2>4, <2>6, <2>7, <2>8, DeliveryStep
<1>6. ASSUME NEW d \in Deliveries, Blocked(d) PROVE HookIInv'
  <2> DEFINE now == [delivery[d] EXCEPT !.pc = "saving", !.ok = FALSE]
  <2>1. now \in DeliveryState /\ now.pc = "saving"
    BY <1>a DEF DeliveryState
  <2>2. delivery' = [delivery EXCEPT ![d] = now]
    BY <1>6 DEF Blocked
  <2>3. UNCHANGED <<hook, paused, inFlight, switches>>
    BY <1>6 DEF Blocked
  <2> HIDE DEF now
  <2> QED BY <1>a, <2>1, <2>2, <2>3, DeliveryStep
<1>7. ASSUME NEW d \in Deliveries, SaveOutcome(d) PROVE HookIInv'
  <2> DEFINE now == [delivery[d] EXCEPT
                       !.to = NoHook,
                       !.pc = IF delivery[d].left = {} THEN "over" ELSE "picking"]
  <2>1. now \in DeliveryState /\ now.pc # "posting"
    BY <1>a DEF DeliveryState
  <2>2. hook' \in [Hooks -> {"active", "failing", "paused", "deleted"}]
    BY <1>a, <1>7 DEF SaveOutcome
  <2>3. delivery' = [delivery EXCEPT ![d] = now]
    BY <1>7 DEF SaveOutcome
  <2>4. UNCHANGED <<paused, inFlight, switches>>
    BY <1>7 DEF SaveOutcome
  <2> HIDE DEF now
  <2> QED BY <1>a, <2>1, <2>2, <2>3, <2>4, DeliveryStep
<1>8. ASSUME NEW d \in Deliveries, DeliveryDies(d) PROVE HookIInv'
  <2> DEFINE now == [delivery[d] EXCEPT !.pc = "over", !.left = {}, !.to = NoHook]
  <2>1. now \in DeliveryState /\ now.pc = "over"
    BY <1>a DEF DeliveryState
  <2>2. delivery' = [delivery EXCEPT ![d] = now]
    BY <1>8 DEF DeliveryDies
  <2>3. UNCHANGED <<hook, paused, inFlight, switches>>
    BY <1>8 DEF DeliveryDies
  <2> HIDE DEF now
  <2> QED BY <1>a, <2>1, <2>2, <2>3, DeliveryStep
<1>9. CASE UNCHANGED hookVars
  BY <1>9 DEF hookVars, HookIInv, HookTypeOK, AttemptsLeft
<1> QED BY <1>1, <1>2, <1>3, <1>4, <1>5, <1>6, <1>7, <1>8, <1>9 DEF HookNext

\* Type correctness of the webhooks' state; with it, no webhook is sent an event more
\* than _MAX_ATTEMPTS times by one delivery.
THEOREM WebhookTypes == HookSpec => []HookTypeOK
<1>1. HookIInv => HookTypeOK
  BY DEF HookIInv
<1> QED BY <1>1, HookInitInv, HookStepInv, PTL DEF HookSpec

-----------------------------------------------------------------------------
(* PauseHolds *)

\* A delivery that holds no more webhooks than before leaves PauseHolds alone.
LEMMA HoldsLess ==
  ASSUME HookTypeOK, PauseHolds, NEW d \in Deliveries,
         \A e \in Deliveries \ {d} : delivery'[e] = delivery[e],
         delivery'[d].left \cup {delivery'[d].to} \subseteq
           delivery[d].left \cup {delivery[d].to, NoHook},
         UNCHANGED <<hook, paused, inFlight>>
  PROVE  PauseHolds'
<1> SUFFICES ASSUME NEW w \in paused \ inFlight
             PROVE  /\ hook[w] = "paused"
                    /\ \A e \in Deliveries : w \notin delivery'[e].left \cup {delivery'[e].to}
  BY DEF PauseHolds
<1>1. w # NoHook
  BY WebhookAssumption DEF HookTypeOK
<1>2. w \notin delivery'[d].left \cup {delivery'[d].to}
  BY <1>1 DEF PauseHolds
<1> QED BY <1>2 DEF PauseHolds

LEMMA PauseInit == HookInit => PauseHolds
  BY DEF HookInit, PauseHolds

LEMMA PauseStep == HookTypeOK /\ PauseHolds /\ [HookNext]_hookVars => PauseHolds'
<1> SUFFICES ASSUME HookTypeOK, PauseHolds, [HookNext]_hookVars PROVE PauseHolds'
  OBVIOUS
<1>a. DOMAIN delivery = Deliveries /\ delivery = [d \in Deliveries |-> delivery[d]]
  BY DEF HookTypeOK
<1>b. delivery \in [Deliveries -> DeliveryState] /\ hook = [w \in Hooks |-> hook[w]]
  BY DEF HookTypeOK, DeliveryState
<1>1. ASSUME NEW w \in Hooks, Pause(w) PROVE PauseHolds'
  <2> SUFFICES ASSUME NEW v \in paused' \ inFlight'
               PROVE  /\ hook'[v] = "paused"
                      /\ \A d \in Deliveries : v \notin delivery'[d].left \cup {delivery'[d].to}
    BY DEF PauseHolds
  <2>1. CASE v = w
    <3>1. hook'[w] = "paused"
      BY <1>1, <1>b DEF Pause
    <3>2. ~Pending(w)
      BY <1>1, <2>1 DEF Pause
    <3> QED BY <1>1, <2>1, <3>1, <3>2 DEF Pause, Pending
  <2>2. CASE v # w
    <3>1. v \in paused \ inFlight
      BY <1>1, <2>2 DEF Pause
    <3>2. hook'[v] = hook[v]
      BY <1>1, <1>b, <2>2, <3>1 DEF Pause, HookTypeOK
    <3> QED BY <1>1, <3>1, <3>2 DEF Pause, PauseHolds
  <2> QED BY <2>1, <2>2
<1>2. ASSUME NEW w \in Hooks, Resume(w) \/ Delete(w) PROVE PauseHolds'
  <2> SUFFICES ASSUME NEW v \in paused' \ inFlight'
               PROVE  /\ hook'[v] = "paused"
                      /\ \A d \in Deliveries : v \notin delivery'[d].left \cup {delivery'[d].to}
    BY DEF PauseHolds
  <2>1. v # w /\ v \in paused \ inFlight
    BY <1>2 DEF Resume, Delete
  <2>2. hook'[v] = hook[v]
    BY <1>2, <1>b, <2>1 DEF Resume, Delete, HookTypeOK
  <2> QED BY <1>2, <2>1, <2>2 DEF Resume, Delete, PauseHolds
<1>3. ASSUME NEW d \in Deliveries, Dispatch(d) PROVE PauseHolds'
  <2> SUFFICES ASSUME NEW w \in paused \ inFlight
               PROVE  /\ hook'[w] = "paused"
                      /\ \A e \in Deliveries : w \notin delivery'[e].left \cup {delivery'[e].to}
    BY <1>3 DEF PauseHolds, Dispatch
  <2>1. hook[w] = "paused"
    BY DEF PauseHolds
  <2>2. w \notin Subscribers
    BY <2>1 DEF Subscribers
  <2>3. \A e \in Deliveries : /\ delivery'[e].to = delivery[e].to
                              /\ delivery'[e].left \in {delivery[e].left, Subscribers}
    BY <1>3, <1>b DEF Dispatch, DeliveryState
  <2> QED BY <1>3, <2>1, <2>2, <2>3 DEF Dispatch, PauseHolds
<1>4. ASSUME NEW d \in Deliveries, NEW w \in Hooks, Test(d, w) PROVE PauseHolds'
  <2> SUFFICES ASSUME NEW v \in paused \ inFlight'
               PROVE  /\ hook'[v] = "paused"
                      /\ \A e \in Deliveries : v \notin delivery'[e].left \cup {delivery'[e].to}
    BY <1>4 DEF PauseHolds, Test
  <2>1. v # w /\ v \in paused \ inFlight
    BY <1>4 DEF Test
  <2>2. \A e \in Deliveries : /\ delivery'[e].to = delivery[e].to
                              /\ delivery'[e].left \in {delivery[e].left, {w}}
    BY <1>4, <1>b DEF Test, DeliveryState
  <2>3. UNCHANGED <<hook, paused>>
    BY <1>4 DEF Test
  <2> QED BY <2>1, <2>2, <2>3 DEF PauseHolds
<1>5. ASSUME NEW d \in Deliveries, NEW w \in Hooks, PickNext(d, w) PROVE PauseHolds'
  <2>1. /\ \A e \in Deliveries \ {d} : delivery'[e] = delivery[e]
        /\ delivery'[d].left = delivery[d].left \ {w} /\ delivery'[d].to = w
    BY <1>5, <1>b DEF PickNext
  <2> QED BY <1>5, <2>1, HoldsLess DEF PickNext
<1>6. ASSUME NEW d \in Deliveries, (\E answered \in BOOLEAN : Attempt(d, answered)) \/ Blocked(d)
      PROVE  PauseHolds'
  <2>1. PICK pc, n, ok : delivery' = [delivery EXCEPT ![d].pc = pc, ![d].attempts = n, ![d].ok = ok]
    <3>1. CASE Blocked(d)
      <4>1. delivery' = [delivery EXCEPT ![d].pc = "saving",
                                         ![d].attempts = delivery[d].attempts, ![d].ok = FALSE]
        BY <1>b, <3>1 DEF Blocked, DeliveryState
      <4> QED BY <4>1
    <3>2. ASSUME NEW answered \in BOOLEAN, Attempt(d, answered)
          PROVE  \E pc, n, ok :
                   delivery' = [delivery EXCEPT ![d].pc = pc, ![d].attempts = n, ![d].ok = ok]
      <4> DEFINE n == delivery[d].attempts + 1
                 pc == IF answered \/ LastAttempt(n) THEN "saving" ELSE "posting"
      <4>1. delivery' = [delivery EXCEPT ![d].pc = pc, ![d].attempts = n, ![d].ok = answered]
        BY <1>b, <3>2 DEF Attempt, DeliveryState
      <4> HIDE DEF n, pc
      <4> QED BY <4>1
    <3> QED BY <1>6, <3>1, <3>2
  <2>2. \A e \in Deliveries \ {d} : delivery'[e] = delivery[e]
    BY <1>b, <2>1
  <2>3. delivery'[d].left = delivery[d].left /\ delivery'[d].to = delivery[d].to
    BY <1>b, <2>1 DEF DeliveryState
  <2>4. UNCHANGED <<hook, paused, inFlight>>
    BY <1>6 DEF Attempt, Blocked
  <2> QED BY <2>2, <2>3, <2>4, HoldsLess
<1>7. ASSUME NEW d \in Deliveries, SaveOutcome(d) PROVE PauseHolds'
  <2> SUFFICES ASSUME NEW w \in paused \ inFlight
               PROVE  /\ hook'[w] = "paused"
                      /\ \A e \in Deliveries : w \notin delivery'[e].left \cup {delivery'[e].to}
    BY <1>7 DEF PauseHolds, SaveOutcome
  <2>1. w # NoHook /\ w \in Hooks
    BY WebhookAssumption DEF HookTypeOK
  <2>2. w # delivery[d].to
    BY DEF PauseHolds
  <2>3. hook'[w] = hook[w]
    BY <1>7, <1>b, <2>1, <2>2 DEF SaveOutcome
  <2>4. \A e \in Deliveries : /\ delivery'[e].left = delivery[e].left
                              /\ delivery'[e].to \in {delivery[e].to, NoHook}
    BY <1>7, <1>b DEF SaveOutcome, DeliveryState
  <2> QED BY <2>1, <2>3, <2>4 DEF PauseHolds
<1>8. ASSUME NEW d \in Deliveries, DeliveryDies(d) PROVE PauseHolds'
  <2>1. delivery' = [delivery EXCEPT ![d] =
                       [delivery[d] EXCEPT !.pc = "over", !.left = {}, !.to = NoHook]]
    BY <1>8 DEF DeliveryDies
  <2>2. /\ \A e \in Deliveries \ {d} : delivery'[e] = delivery[e]
        /\ delivery'[d].left = {} /\ delivery'[d].to = NoHook
    BY <1>b, <2>1 DEF DeliveryState
  <2> QED BY <1>8, <2>2, HoldsLess DEF DeliveryDies
<1>9. CASE UNCHANGED hookVars
  BY <1>9 DEF hookVars, PauseHolds
<1> QED BY <1>1, <1>2, <1>3, <1>4, <1>5, <1>6, <1>7, <1>8, <1>9 DEF HookNext

\* A paused webhook stays paused and out of every later delivery, unless a delivery had
\* read it before the pause or a test was sent to it: SaveOutcome writes the status of
\* such a webhook without looking.
THEOREM PausedWebhooks == HookSpec => []PauseHolds
<1>1. HookTypeOK /\ HookTypeOK' /\ PauseHolds /\ [HookNext]_hookVars => PauseHolds'
  BY PauseStep
<1> QED BY <1>1, PauseInit, WebhookTypes, PTL DEF HookSpec

-----------------------------------------------------------------------------
(***************************************************************************)
(* MCServices. The run explores the components side by side, one per       *)
(* behaviour. What it explores are behaviours of each component's own      *)
(* specification: the initial states are initial states of every           *)
(* component, and a step is a step of one component and leaves the         *)
(* variables of the others alone. So what is proved of a component holds   *)
(* of the run's specification.                                             *)
(***************************************************************************)

LEMMA EveryoneStarts ==
  Init => /\ CollectorInit /\ S3Init /\ WatchInit /\ IocInit /\ HookInit /\ HuntInit
  BY DEF Init

\* A step of the union is a step of a component or leaves it as it is.
LEMMA OneMoves ==
  [Next]_vars => /\ [CollectorNext]_collectorVars
                 /\ [S3Next]_s3Vars
                 /\ [WatchNext]_watchVars
                 /\ [IocNext]_iocVars
                 /\ [HookNext]_hookVars
                 /\ [HuntNext]_huntVars
<1> SUFFICES ASSUME [Next]_vars
             PROVE  /\ [CollectorNext]_collectorVars
                    /\ [S3Next]_s3Vars
                    /\ [WatchNext]_watchVars
                    /\ [IocNext]_iocVars
                    /\ [HookNext]_hookVars
                    /\ [HuntNext]_huntVars
  OBVIOUS
<1>1. CASE CollectorPart
  BY <1>1 DEF CollectorPart, OnlyCollector
<1>2. CASE S3Part
  BY <1>2 DEF S3Part, OnlyS3
<1>3. CASE WatchPart
  BY <1>3 DEF WatchPart, OnlyWatch
<1>4. CASE IocPart
  BY <1>4 DEF IocPart, OnlyIoc
<1>5. CASE HookPart
  BY <1>5 DEF HookPart, OnlyHook
<1>6. CASE HuntPart
  BY <1>6 DEF HuntPart, OnlyHunt
<1>7. CASE UNCHANGED vars
  BY <1>7 DEF vars
<1> QED BY <1>1, <1>2, <1>3, <1>4, <1>5, <1>6, <1>7 DEF Next

\* The union implements every component: a behaviour of MCServices is a behaviour of the
\* collector, the S3 pull, the watcher, the lifecycle, the webhooks and the hunts at once.
THEOREM ServicesCompose ==
  Spec => /\ CollectorSpec
          /\ S3Spec
          /\ WatchSpec
          /\ IocSpec
          /\ HookSpec
          /\ HuntSpec
<1> QED BY EveryoneStarts, OneMoves, PTL
        DEF Spec, CollectorSpec, S3Spec, WatchSpec, IocSpec, HookSpec, HuntSpec

\* The variables of every component hold the kinds of values the code gives them,
\* whichever of them a behaviour is about.
THEOREM ServicesTypes == Spec => []TypeOK
<1> QED BY ServicesCompose, CollectorTypes, S3Types, WatchTypes, IocTypes, WebhookTypes,
           HuntTypes, PTL
        DEF TypeOK

\* What is proved of each component, said of the specification the run checks: no log
\* line or object is passed over and none is taken in again without a cause, on the three
\* ways in; the analyst's word, the sightings and the one standing alert survive the
\* passes beside them; a paused webhook rests; a hunt reports the news its searches can
\* see, and no oftener than its stray runs explain.
ServicesSafe ==
  /\ NoLineSkipped /\ RepeatsArePaidFor
  /\ NothingOvertaken /\ RepeatsAreExplained
  /\ PassedLineAccounted /\ RepeatsFollowHandover
  /\ KnownGoodKept /\ SightedOncePerPlace /\ OneStandingAlert
  /\ PauseHolds
  /\ NewsReported /\ RepeatsBounded

\* Every safety invariant of the run holds of the union of the six components, for every
\* value of the constants.
THEOREM ServicesAreSafe == Spec => []ServicesSafe
<1>1. Spec => []NoLineSkipped /\ []RepeatsArePaidFor
  BY ServicesCompose, NoLineSkippedTheorem, RepeatsArePaidForTheorem
<1>2. Spec => []NothingOvertaken /\ []RepeatsAreExplained
  BY ServicesCompose, NothingOvertakenTheorem, RepeatsAreExplainedTheorem
<1>3. Spec => []PassedLineAccounted /\ []RepeatsFollowHandover
  BY ServicesCompose, PassedLineTheorem, RepeatsFollowHandoverTheorem
<1>4. Spec => []KnownGoodKept /\ []SightedOncePerPlace /\ []OneStandingAlert
  BY ServicesCompose, KnownGood, Sightings, StandingAlert
<1>5. Spec => []PauseHolds
  BY ServicesCompose, PausedWebhooks
<1>6. Spec => []NewsReported /\ []RepeatsBounded
  BY ServicesCompose, NewsTheorem, RepeatsBoundedTheorem
<1> QED BY <1>1, <1>2, <1>3, <1>4, <1>5, <1>6, PTL DEF ServicesSafe
=============================================================================
