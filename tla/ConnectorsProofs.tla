--------------------------- MODULE ConnectorsProofs --------------------------
(***************************************************************************)
(* Proofs about Connectors.                                                *)
(*                                                                         *)
(* A replica in a tick holds the lease or is in lapsed (TurnHeld), which   *)
(* says more than TurnsHaveCause because it speaks of one replica.         *)
(*                                                                         *)
(* A validator is sound for a connector if its version was imported whole, *)
(* was cut because it is oversized, or the connector was crossed.  The     *)
(* saved one stays sound because every copy on its way back to the table   *)
(* is: the one a tick has read (TodoSound), the one a sync was started     *)
(* with and the one it has after its import, and between fetch and import  *)
(* the one exception is the version in hand (RunSound).                    *)
(***************************************************************************)
EXTENDS Connectors, TLAPS

\* A sync that is not idle is of a connector.
RunHasConnector == \A x \in Runners : run[x].pc # "idle" => run[x].c \in Connectors

\* A scheduler in a tick holds the lease, or has lost it in that tick.
TurnHeld ==
  \A r \in Replicas : loop[r].pc \in {"leading", "looping"} => lease = r \/ r \in lapsed

Sound(v, c) == v \in stored \cup {0} \/ v \in oversized \/ c \in crossed

StateSound == \A c \in Connectors : Sound(conn[c].state, c)

TodoSound == \A r \in Replicas : \A item \in loop[r].todo : Sound(item[2], item[1])

RunSound ==
  \A x \in Runners :
    /\ run[x].pc \in {"asked", "fetching", "imported"} => Sound(run[x].tag, run[x].c)
    /\ run[x].pc = "fetched" => \/ run[x].tag = run[x].got
                                \/ Sound(run[x].tag, run[x].c)

TInv == TypeOK /\ RunHasConnector
VInv == StateSound /\ TodoSound /\ RunSound

-----------------------------------------------------------------------------
(* Types *)

Row  == [on : BOOLEAN, status : {"rest", "running"}, age : 0 .. Old,
         wait : 0 .. MaxWait, state : 0 .. MaxVersion]
Loop == [pc   : {"down", "waiting", "leading", "looping"},
         todo : SUBSET (Connectors \X (0 .. MaxVersion))]
Run  == [pc  : {"idle", "asked", "fetching", "fetched", "imported", "limited", "failing"},
         c   : Connectors \cup {NoConnector},
         at  : Replicas \cup {Nobody},
         tag : 0 .. MaxVersion,
         got : 0 .. MaxVersion,
         age : 0 .. RunAge]

\* The bounds are natural numbers, and what the code writes is within them.
LEMMA Ranges ==
  /\ Old \in Nat /\ MaxWait \in Nat /\ RunAge \in Nat /\ MaxVersion \in Nat
  /\ 0 \in 0 .. Old /\ 0 \in 0 .. MaxWait /\ 0 \in 0 .. MaxVersion /\ 0 \in 0 .. RunAge
  /\ NoRun \in Run /\ NoRun.pc = "idle"
<1>1. {Interval, StuckAfter, MaxWait, RunAge, MaxVersion} \subseteq Nat
  BY ConnectorsAssumption
<1>2. Old \in Nat
  BY <1>1 DEF Old
<1> QED BY <1>1, <1>2 DEF NoRun, Run

\* One more unit of age stays under the cap.
LEMMA Aging ==
  ASSUME NEW cap \in Nat, NEW age \in 0 .. cap PROVE AgeBy1(age, cap) \in 0 .. cap
  BY DEF AgeBy1

\* A function that changes in one place stays within its range.
LEMMA FunUpdate ==
  ASSUME NEW S, NEW T, NEW f \in [S -> T], NEW a, NEW v, a \in S => v \in T
  PROVE  [f EXCEPT ![a] = v] \in [S -> T]
  OBVIOUS

LEMMA TypeInit == Init => TInv
<1> SUFFICES ASSUME Init PROVE TInv
  OBVIOUS
<1>1. conn \in [Connectors -> Row]
  BY Ranges DEF Init, Row
<1>2. run \in [Runners -> Run] /\ RunHasConnector
  BY Ranges DEF Init, RunHasConnector
<1>3. loop \in [Replicas -> Loop]
  BY DEF Init, Loop
<1> QED BY <1>1, <1>2, <1>3, Ranges DEF Init, TypeOK, TInv, Row, Run, Loop

\* A step that writes records of the right types keeps the type invariant.
LEMMA TypeParts ==
  ASSUME conn' \in [Connectors -> Row], run' \in [Runners -> Run],
         loop' \in [Replicas -> Loop], RunHasConnector',
         feed' \in 0 .. MaxVersion, oversized' \in SUBSET Versions,
         stored' \in SUBSET Versions,
         lease' \in Replicas \cup {Nobody, Gone}, faults' \in Nat,
         lapsed' \in SUBSET Replicas, crossed' \in SUBSET Connectors
  PROVE  TInv'
  BY DEF TInv, TypeOK, Row, Run, Loop

LEMMA TypeStep == TInv /\ [Next]_vars => TInv'
<1> SUFFICES ASSUME TInv, [Next]_vars PROVE TInv'
  OBVIOUS
<1> USE DEF TInv
<1>a. conn \in [Connectors -> Row] /\ run \in [Runners -> Run] /\ loop \in [Replicas -> Loop]
  BY DEF TypeOK, Row, Run, Loop
<1>b. /\ feed \in 0 .. MaxVersion /\ oversized \in SUBSET Versions
      /\ stored \in SUBSET Versions
      /\ lease \in Replicas \cup {Nobody, Gone} /\ faults \in Nat
      /\ lapsed \in SUBSET Replicas /\ crossed \in SUBSET Connectors
  BY DEF TypeOK
<1>c. Fault => faults' \in Nat
  BY <1>b DEF Fault
<1>1. ASSUME NEW r \in Replicas, Acquire(r) PROVE TInv'
  <2>1. RunHasConnector'
    BY <1>1 DEF Acquire, RunHasConnector
  <2> QED BY <1>1, <1>a, <1>b, <2>1, TypeParts DEF Acquire
<1>2. ASSUME NEW r \in Replicas, CheckLease(r) \/ EndTick(r) PROVE TInv'
  <2>1. RunHasConnector'
    BY <1>2 DEF CheckLease, EndTick, RunHasConnector
  <2>2. loop' \in [Replicas -> Loop]
    <3> PICK p \in {"leading", "waiting"} : loop' = [loop EXCEPT ![r].pc = p]
      BY <1>2 DEF CheckLease, EndTick
    <3> DEFINE now == [loop[r] EXCEPT !.pc = p]
    <3>1. now \in Loop
      BY <1>a DEF Loop
    <3>2. loop' = [loop EXCEPT ![r] = now]
      OBVIOUS
    <3> HIDE DEF now
    <3> QED BY <3>1, <3>2, <1>a
  <2> QED BY <1>2, <1>a, <1>b, <2>1, <2>2, TypeParts DEF CheckLease, EndTick
<1>3. ASSUME NEW r \in Replicas, ReadDue(r) PROVE TInv'
  <2>1. RunHasConnector'
    BY <1>3 DEF ReadDue, RunHasConnector
  <2>2. {<<c, conn[c].state>> : c \in {d \in Connectors : Due(d)}}
          \in SUBSET (Connectors \X (0 .. MaxVersion))
    BY <1>a DEF Row
  <2>3. loop' \in [Replicas -> Loop]
    BY <1>3, <1>a, <2>2 DEF ReadDue, Loop
  <2> QED BY <1>3, <1>a, <1>b, <2>1, <2>3, TypeParts DEF ReadDue
<1>4. ASSUME NEW r \in Replicas, RunNext(r) PROVE TInv'
  <2>1. PICK item \in loop[r].todo :
          /\ loop' = [loop EXCEPT ![r].todo = @ \ {item}]
          /\ conn' = [conn EXCEPT ![item[1]].status = "running"]
          /\ run' = [run EXCEPT ![r] = [NoRun EXCEPT !.pc = "fetching", !.c = item[1],
                                                     !.at = r, !.tag = item[2]]]
    BY <1>4 DEF RunNext
  <2>2. item[1] \in Connectors /\ item[2] \in 0 .. MaxVersion
    BY <1>a DEF Loop
  <2>3. loop' \in [Replicas -> Loop] /\ conn' \in [Connectors -> Row]
    <3>1. [loop[r] EXCEPT !.todo = @ \ {item}] \in Loop
      BY <1>a DEF Loop
    <3>2. [conn[item[1]] EXCEPT !.status = "running"] \in Row
      BY <2>2, <1>a DEF Row
    <3> QED BY <2>1, <3>1, <3>2, <1>a
  <2>4. [NoRun EXCEPT !.pc = "fetching", !.c = item[1], !.at = r, !.tag = item[2]] \in Run
    BY <2>2, Ranges DEF Run
  <2>5. run' \in [Runners -> Run]
    BY <2>1, <2>4, <1>a DEF Run
  <2>6. RunHasConnector'
    BY <2>1, <2>2, <1>a, Ranges DEF RunHasConnector, NoRun, Runners
  <2> QED BY <1>4, <1>b, <2>3, <2>5, <2>6, TypeParts DEF RunNext
<1>5. ASSUME NEW r \in Replicas, RunNextRaises(r) PROVE TInv'
  <2>1. PICK item \in loop[r].todo :
          /\ loop' = [loop EXCEPT ![r].todo = @ \ {item}]
          /\ conn' \in {conn, [conn EXCEPT ![item[1]].status = "rest"]}
    BY <1>5 DEF RunNextRaises
  <2>2. loop' \in [Replicas -> Loop] /\ conn' \in [Connectors -> Row]
    <3>1. [loop[r] EXCEPT !.todo = @ \ {item}] \in Loop
      BY <1>a DEF Loop
    <3>2. loop' \in [Replicas -> Loop]
      BY <2>1, <3>1, <1>a
    <3>3. item[1] \in Connectors
      BY <1>a DEF Loop
    <3> DEFINE v == [conn[item[1]] EXCEPT !.status = "rest"]
    <3>4. v \in Row
      <4>1. conn[item[1]] \in Row
        BY <3>3, <1>a
      <4> QED BY <4>1 DEF Row
    <3>5. conn' = conn \/ conn' = [conn EXCEPT ![item[1]] = v]
      BY <2>1
    <3> HIDE DEF v
    <3>6. [conn EXCEPT ![item[1]] = v] \in [Connectors -> Row]
      BY <3>4, <1>a
    <3>7. conn' \in [Connectors -> Row]
      BY <3>5, <3>6, <1>a
    <3> QED BY <3>2, <3>7
  <2>3. RunHasConnector'
    BY <1>5 DEF RunNextRaises, RunHasConnector
  <2> QED BY <1>5, <1>a, <1>b, <1>c, <2>2, <2>3, TypeParts DEF RunNextRaises
<1>6. ASSUME NEW r \in Replicas, Crash(r) PROVE TInv'
  <2>1. run' \in [Runners -> Run] /\ RunHasConnector'
    BY <1>6, <1>a, Ranges DEF Crash, RunHasConnector
  <2>2. loop' \in [Replicas -> Loop]
    BY <1>6, <1>a DEF Crash, Loop
  <2> QED BY <1>6, <1>a, <1>b, <1>c, <2>1, <2>2, TypeParts DEF Crash
<1>7. ASSUME NEW r \in Replicas, Boot(r) PROVE TInv'
  <2>1. \A c \in Connectors : Reset(conn[c]) \in Row
    BY <1>a DEF Reset, Row
  <2>2. conn' \in [Connectors -> Row] /\ loop' \in [Replicas -> Loop]
    BY <1>7, <1>a, <2>1 DEF Boot, Loop
  <2>3. RunHasConnector'
    BY <1>7 DEF Boot, RunHasConnector
  <2>4. lease' \in Replicas \cup {Nobody, Gone}
    BY <1>7, <1>b DEF Boot
  <2> QED BY <1>7, <1>a, <1>b, <2>2, <2>3, <2>4, TypeParts DEF Boot
<1>8. ASSUME NEW x \in Runners, Fetch(x) PROVE TInv'
  <2>1. PICK v \in {feed, run[x].tag} : FetchAnswers(x, v)
    BY <1>8 DEF Fetch
  <2>2. v \in 0 .. MaxVersion
    BY <1>a, <1>b DEF Run
  <2>3. run' \in [Runners -> Run]
    <3>1. [run[x] EXCEPT !.pc = "fetched", !.tag = v,
                         !.got = IF v = run[x].tag THEN 0 ELSE v] \in Run
      BY <2>2, <1>a, Ranges DEF Run
    <3>2. \A y \in Runners : [run[y] EXCEPT !.tag = v] \in Run
      BY <2>2, <1>a DEF Run
    <3> QED BY <2>1, <3>1, <3>2, <1>a DEF FetchAnswers
  <2>4. RunHasConnector'
    BY <1>8, <2>1, <1>a DEF FetchAnswers, RunHasConnector, AwaitingState, Fetch, Run
  <2>5. {run[y].c : y \in AwaitingState(x)} \subseteq Connectors
    BY DEF AwaitingState, RunHasConnector
  <2> QED BY <1>8, <1>a, <1>b, <2>3, <2>4, <2>5, TypeParts DEF Fetch
<1>9. ASSUME NEW x \in Runners, FetchFails(x) \/ ImportFails(x) PROVE TInv'
  <2>1. run' \in [Runners -> Run]
    <3>1. CASE FetchFails(x)
      <4>1. PICK pc \in {"limited", "failing"} : run' = [run EXCEPT ![x].pc = pc, ![x].tag = 0]
        BY <3>1 DEF FetchFails
      <4>2. [run[x] EXCEPT !.pc = pc, !.tag = 0] \in Run
        BY <1>a, Ranges DEF Run
      <4>3. run' = [run EXCEPT ![x] = [run[x] EXCEPT !.pc = pc, !.tag = 0]]
        BY <4>1
      <4> QED BY <4>2, <4>3, <1>a, FunUpdate
    <3>2. CASE ImportFails(x)
      <4>1. [run[x] EXCEPT !.pc = "failing", !.got = 0, !.tag = 0] \in Run
        BY <1>a, Ranges DEF Run
      <4>2. run' = [run EXCEPT ![x] = [run[x] EXCEPT !.pc = "failing", !.got = 0, !.tag = 0]]
        BY <3>2 DEF ImportFails
      <4> QED BY <4>1, <4>2, <1>a, FunUpdate
    <3> QED BY <1>9, <3>1, <3>2
  <2>2. RunHasConnector'
    BY <1>9, <1>a DEF FetchFails, ImportFails, Run, RunHasConnector
  <2> QED BY <1>9, <1>a, <1>b, <2>1, <2>2, TypeParts DEF FetchFails, ImportFails
<1>10. ASSUME NEW x \in Runners, Import(x) PROVE TInv'
  <2>1. run' \in [Runners -> Run]
    <3>1. [run[x] EXCEPT !.pc = "imported", !.got = 0] \in Run
      BY <1>a, Ranges DEF Run
    <3>2. run' = [run EXCEPT ![x] = [run[x] EXCEPT !.pc = "imported", !.got = 0]]
      BY <1>10 DEF Import
    <3> QED BY <3>1, <3>2, <1>a, FunUpdate
  <2>2. RunHasConnector'
    BY <1>10, <1>a DEF Import, Run, RunHasConnector
  <2>3. run[x].got \in 0 .. MaxVersion
    BY <1>a DEF Run
  <2>4. stored' \in SUBSET Versions
    BY <1>10, <1>b, <2>3, Ranges DEF Import, Versions
  <2> QED BY <1>10, <1>a, <1>b, <2>1, <2>2, <2>4, TypeParts DEF Import
<1>11. ASSUME NEW x \in Runners, Error(x) \/ Finish(x) \/ Raise(x) PROVE TInv'
  <2>1. run' = [run EXCEPT ![x] = NoRun]
    BY <1>11 DEF Error, Finish, Raise
  <2>2. run' \in [Runners -> Run] /\ RunHasConnector'
    BY <2>1, <1>a, Ranges DEF RunHasConnector
  <2>3. conn' \in [Connectors -> Row]
    <3>1. run[x].tag \in 0 .. MaxVersion
      BY <1>a DEF Run
    <3> DEFINE v == [conn[run[x].c] EXCEPT !.status = "rest"]
               w == [conn[run[x].c] EXCEPT !.status = "rest", !.age = 0]
               u == [conn[run[x].c] EXCEPT !.status = "rest", !.age = 0, !.state = run[x].tag]
    <3>2. ASSUME run[x].c \in Connectors PROVE v \in Row /\ w \in Row /\ u \in Row
      <4>0. conn[run[x].c] \in Row
        BY <3>2, <1>a
      <4>1. v \in Row
        BY <4>0 DEF Row
      <4>2. w \in Row
        BY <4>0, Ranges DEF Row
      <4>3. u \in Row
        BY <4>0, <3>1, Ranges DEF Row
      <4> QED BY <4>1, <4>2, <4>3
    <3>3. \/ conn' = conn
          \/ conn' = [conn EXCEPT ![run[x].c] = v]
          \/ conn' = [conn EXCEPT ![run[x].c] = w]
          \/ conn' = [conn EXCEPT ![run[x].c] = u]
      <4>1. CASE Error(x)
        BY <4>1 DEF Error
      <4>2. CASE Finish(x)
        BY <4>2 DEF Finish
      <4>3. CASE Raise(x)
        BY <4>3 DEF Raise
      <4> QED BY <1>11, <4>1, <4>2, <4>3
    <3> HIDE DEF v, w, u
    <3> QED BY <3>2, <3>3, <1>a, FunUpdate
  <2> QED BY <1>11, <1>a, <1>b, <1>c, <2>2, <2>3, TypeParts DEF Error, Finish, Raise
<1>12. ASSUME NEW x \in Runners, BackOff(x) PROVE TInv'
  <2>1. run' \in [Runners -> Run] /\ RunHasConnector'
    <3>1. [run[x] EXCEPT !.pc = "failing"] \in Run
      BY <1>a DEF Run
    <3>2. run' = [run EXCEPT ![x] = [run[x] EXCEPT !.pc = "failing"]]
      BY <1>12 DEF BackOff
    <3> QED BY <1>12, <3>1, <3>2, <1>a DEF BackOff, RunHasConnector, Run
  <2>2. PICK w \in 0 .. MaxWait :
          conn' = [conn EXCEPT ![run[x].c].wait = IF w = 0 THEN @ ELSE w]
    BY <1>12 DEF BackOff
  <2>3. conn' \in [Connectors -> Row]
    <3> DEFINE v == [conn[run[x].c] EXCEPT !.wait = IF w = 0 THEN @ ELSE w]
    <3>1. run[x].c \in Connectors => v \in Row
      BY <1>a DEF Row
    <3>2. conn' = [conn EXCEPT ![run[x].c] = v]
      BY <2>2
    <3> HIDE DEF v
    <3> QED BY <3>1, <3>2, <1>a, FunUpdate
  <2> QED BY <1>12, <1>a, <1>b, <2>1, <2>3, TypeParts DEF BackOff
<1>13. ASSUME LeaseRunsOut PROVE TInv'
  <2>1. RunHasConnector'
    BY <1>13 DEF LeaseRunsOut, RunHasConnector
  <2>2. lapsed' \in SUBSET Replicas /\ faults' \in Nat
    BY <1>13, <1>b, <1>c DEF LeaseRunsOut
  <2> QED BY <1>13, <1>a, <1>b, <2>1, <2>2, TypeParts DEF LeaseRunsOut
<1>14. ASSUME NEW q \in Requests, NEW c \in Connectors, Ask(q, c) PROVE TInv'
  <2>1. PICK r \in Replicas :
          run' = [run EXCEPT ![q] = [NoRun EXCEPT !.pc = "asked", !.c = c, !.at = r,
                                                  !.tag = conn[c].state]]
    BY <1>14 DEF Ask
  <2>2. conn[c].state \in 0 .. MaxVersion
    BY <1>a DEF Row
  <2>3. run' \in [Runners -> Run]
    BY <2>1, <2>2, <1>a, Ranges DEF Run
  <2>4. RunHasConnector'
    BY <2>1, <1>a DEF RunHasConnector, NoRun, Runners
  <2> QED BY <1>14, <1>a, <1>b, <2>3, <2>4, TypeParts DEF Ask
<1>15. ASSUME NEW q \in Requests, RunNow(q) PROVE TInv'
  <2>1. run' \in [Runners -> Run] /\ RunHasConnector'
    BY <1>15, <1>a DEF RunNow, Run, RunHasConnector, Runners
  <2>2. conn' \in [Connectors -> Row]
    BY <1>15, <1>a DEF RunNow, Row
  <2> QED BY <1>15, <1>a, <1>b, <2>1, <2>2, TypeParts DEF RunNow
<1>16. ASSUME NEW c \in Connectors, ResetState(c) \/ \E on \in BOOLEAN : Pause(c, on)
       PROVE  TInv'
  <2>1. conn' \in [Connectors -> Row]
    <3>1. CASE ResetState(c)
      BY <3>1, <1>a, Ranges DEF ResetState, Row
    <3>2. ASSUME NEW on \in BOOLEAN, Pause(c, on) PROVE conn' \in [Connectors -> Row]
      BY <3>2, <1>a DEF Pause, Row
    <3> QED BY <1>16, <3>1, <3>2
  <2>2. RunHasConnector'
    BY <1>16 DEF ResetState, Pause, RunHasConnector
  <2> QED BY <1>16, <1>a, <1>b, <2>1, <2>2, TypeParts DEF ResetState, Pause
<1>17. ASSUME Publish PROVE TInv'
  <2>1. RunHasConnector'
    BY <1>17 DEF Publish, RunHasConnector
  <2>2. feed' \in 0 .. MaxVersion
    BY <1>17, <1>b, Ranges DEF Publish
  <2>3. feed' \in Versions
    BY <1>17, <1>b, Ranges DEF Publish, Versions
  <2>4. oversized' \in SUBSET Versions /\ faults' \in Nat
    BY <1>17, <1>b, <1>c, <2>3 DEF Publish
  <2> QED BY <1>17, <1>a, <1>b, <2>1, <2>2, <2>4, TypeParts DEF Publish
<1>18. ASSUME Tick PROVE TInv'
  <2>1. \A c \in Connectors : [conn[c] EXCEPT !.age  = AgeBy1(@, Old),
                                             !.wait = IF @ > 0 THEN @ - 1 ELSE 0] \in Row
    <3> TAKE c \in Connectors
    <3>1. AgeBy1(conn[c].age, Old) \in 0 .. Old
      BY <1>a, Ranges, Aging DEF Row
    <3>2. (IF conn[c].wait > 0 THEN conn[c].wait - 1 ELSE 0) \in 0 .. MaxWait
      BY <1>a, Ranges DEF Row
    <3> QED BY <1>a, <3>1, <3>2 DEF Row
  <2>2. conn' \in [Connectors -> Row]
    BY <1>18, <2>1 DEF Tick
  <2>3. \A x \in Runners : [run[x] EXCEPT !.age = AgeBy1(@, RunAge)] \in Run
    <3> TAKE x \in Runners
    <3>1. AgeBy1(run[x].age, RunAge) \in 0 .. RunAge
      BY <1>a, Ranges, Aging DEF Run
    <3> QED BY <1>a, <3>1 DEF Run
  <2>4. run' \in [Runners -> Run]
    BY <1>18, <2>3, Ranges DEF Tick
  <2>5. RunHasConnector'
    BY <1>18, <1>a, Ranges DEF Tick, RunHasConnector, Run
  <2> QED BY <1>18, <1>a, <1>b, <2>2, <2>4, <2>5, TypeParts DEF Tick
<1>19. ASSUME UNCHANGED vars PROVE TInv'
  <2>1. RunHasConnector'
    BY <1>19 DEF vars, RunHasConnector
  <2> QED BY <1>19, <1>a, <1>b, <2>1, TypeParts DEF vars
<1> QED
  BY <1>1, <1>2, <1>3, <1>4, <1>5, <1>6, <1>7, <1>8, <1>9, <1>10, <1>11, <1>12, <1>13,
     <1>14, <1>15, <1>16, <1>17, <1>18, <1>19
  DEF Next, Scheduler, Sync, Operator

\* Every variable keeps its type: the scheduler, the endpoints and the startup reset
\* write only rows that the readers of the table expect.
THEOREM TypeCorrect == Spec => []TypeOK
<1>1. Spec => []TInv
  BY TypeInit, TypeStep, PTL DEF Spec
<1>2. TInv => TypeOK
  BY DEF TInv
<1> QED BY <1>1, <1>2, PTL
-----------------------------------------------------------------------------
(* Turns *)

LEMMA TurnInit == Init => TurnHeld
  BY DEF Init, TurnHeld

LEMMA TurnStep == TInv /\ TurnHeld /\ [Next]_vars => TurnHeld'
<1> SUFFICES ASSUME TInv, TurnHeld, [Next]_vars PROVE TurnHeld'
  OBVIOUS
<1>a. loop \in [Replicas -> Loop] /\ Nobody \notin Replicas /\ Gone \notin Replicas
  BY ConnectorsAssumption DEF TInv, TypeOK, Loop
<1>1. ASSUME NEW r \in Replicas, Acquire(r) PROVE TurnHeld'
  BY <1>1, <1>a DEF Acquire, TurnHeld
<1>2. ASSUME NEW r \in Replicas, Scheduler(r) \/ RunNextRaises(r) PROVE TurnHeld'
  <2>1. CASE CheckLease(r)
    BY <2>1, <1>a DEF CheckLease, IsLeader, TurnHeld, Loop
  <2>2. CASE ReadDue(r)
    BY <2>2, <1>a DEF ReadDue, TurnHeld, Loop
  <2>3. CASE RunNext(r) \/ RunNextRaises(r)
    BY <2>3, <1>a DEF RunNext, RunNextRaises, TurnHeld, Loop
  <2>4. CASE EndTick(r)
    <3>1. loop'[r].pc = "waiting"
      BY <2>4, <1>a DEF EndTick, Loop
    <3>2. \A s \in Replicas \ {r} : loop'[s] = loop[s] /\ (s \in lapsed => s \in lapsed')
      BY <2>4, <1>a DEF EndTick
    <3> QED BY <2>4, <3>1, <3>2 DEF EndTick, TurnHeld
  <2> QED BY <1>2, <2>1, <2>2, <2>3, <2>4 DEF Scheduler
<1>3. ASSUME NEW r \in Replicas, Crash(r) \/ Boot(r) PROVE TurnHeld'
  <2>1. loop'[r].pc \in {"down", "waiting"}
    BY <1>3, <1>a DEF Crash, Boot, Loop
  <2>2. \A s \in Replicas \ {r} : /\ loop'[s] = loop[s]
                                  /\ lease = s => lease' = s
                                  /\ s \in lapsed => s \in lapsed'
    BY <1>3, <1>a DEF Crash, Boot
  <2>3. ASSUME NEW s \in Replicas, loop'[s].pc \in {"leading", "looping"}
        PROVE  lease' = s \/ s \in lapsed'
    <3>1. s # r
      BY <2>1, <2>3
    <3> QED BY <2>2, <2>3, <3>1 DEF TurnHeld
  <2> QED BY <2>3 DEF TurnHeld
<1>4. ASSUME LeaseRunsOut PROVE TurnHeld'
  <2> SUFFICES ASSUME NEW r \in Replicas, loop[r].pc \in {"leading", "looping"}
               PROVE  r \in lapsed'
    BY <1>4 DEF LeaseRunsOut, TurnHeld
  <2>1. CASE lease = r
    BY <1>4, <2>1, <1>a DEF LeaseRunsOut, Up
  <2>2. CASE r \in lapsed
    BY <1>4, <2>2 DEF LeaseRunsOut
  <2> QED BY <2>1, <2>2 DEF TurnHeld
<1>5. ASSUME UNCHANGED <<loop, lease, lapsed>> PROVE TurnHeld'
  BY <1>5 DEF TurnHeld
<1>6. ASSUME NEW x \in Runners, Sync(x) \/ Raise(x) PROVE TurnHeld'
  BY <1>5, <1>6
  DEF Sync, Fetch, FetchFails, Import, ImportFails, Finish, BackOff, Error, Raise
<1>7. ASSUME Operator \/ Publish \/ Tick \/ UNCHANGED vars PROVE TurnHeld'
  BY <1>5, <1>7 DEF Operator, RunNow, Ask, ResetState, Pause, Publish, Tick, vars
<1> QED BY <1>1, <1>2, <1>3, <1>4, <1>6, <1>7 DEF Next

\* Two schedulers are in a tick at one time only if the lease ran out under one of
\* them in the middle of it: the check at the start of a tick suffices but for that.
THEOREM TurnsCorrect == Spec => []TurnsHaveCause
<1>1. Spec => [](TInv /\ TurnHeld)
  BY TypeInit, TypeStep, TurnInit, TurnStep, PTL DEF Spec
<1>2. TInv /\ TurnHeld => TurnsHaveCause
  BY DEF TurnHeld, TurnsHaveCause
<1> QED BY <1>1, <1>2, PTL
-----------------------------------------------------------------------------
(* Validators *)

\* What is sound stays sound while stored, oversized and crossed grow.
LEMMA SoundStays ==
  ASSUME stored \subseteq stored', oversized \subseteq oversized',
         crossed \subseteq crossed', NEW v, NEW c, Sound(v, c)
  PROVE  Sound(v, c)'
  BY DEF Sound

\* So a step that touches none of the copies keeps them all sound.
LEMMA SoundKept ==
  ASSUME VInv, stored \subseteq stored', oversized \subseteq oversized',
         crossed \subseteq crossed'
  PROVE  /\ (\A c \in Connectors : conn'[c].state = conn[c].state) => StateSound'
         /\ (\A r \in Replicas : loop'[r].todo \subseteq loop[r].todo) => TodoSound'
         /\ run' = run => RunSound'
<1> USE SoundStays DEF VInv, Sound
<1>1. (\A c \in Connectors : conn'[c].state = conn[c].state) => StateSound'
  BY DEF StateSound
<1>2. (\A r \in Replicas : loop'[r].todo \subseteq loop[r].todo) => TodoSound'
  BY DEF TodoSound
<1>3. run' = run => RunSound'
  BY DEF RunSound
<1> QED BY <1>1, <1>2, <1>3

\* A sync that changes need only be sound itself.
LEMMA RunSoundAt ==
  ASSUME VInv, stored \subseteq stored', oversized \subseteq oversized',
         crossed \subseteq crossed', NEW x \in Runners,
         \A y \in Runners \ {x} : run'[y] = run[y],
         run'[x].pc \in {"asked", "fetching", "imported"} => Sound(run[x].tag, run[x].c)',
         run'[x].pc # "fetched"
  PROVE  RunSound'
  BY DEF RunSound, VInv, Sound

LEMMA SoundInit == Init => VInv
  BY DEF Init, VInv, StateSound, TodoSound, RunSound, Sound, NoRun
LEMMA SoundStep == TInv /\ VInv /\ [Next]_vars => VInv'
<1> SUFFICES ASSUME TInv, VInv, [Next]_vars PROVE VInv'
  OBVIOUS
<1>a. conn \in [Connectors -> Row] /\ run \in [Runners -> Run] /\ loop \in [Replicas -> Loop]
  BY DEF TInv, TypeOK, Row, Run, Loop
<1>b. /\ stored \subseteq stored' /\ oversized \subseteq oversized'
      /\ crossed \subseteq crossed'
  BY DEF Next, Scheduler, Sync, Operator, Acquire, CheckLease, ReadDue, RunNext, EndTick,
         RunNextRaises, Crash, Boot, Fetch, FetchFails, Import, ImportFails, Finish, BackOff,
         Error, Raise, LeaseRunsOut, RunNow, Ask, ResetState, Pause, Publish, Tick, vars
<1>1. ASSUME NEW r \in Replicas, Acquire(r) \/ CheckLease(r) \/ EndTick(r) PROVE VInv'
  <2>1. /\ conn' = conn /\ run' = run
        /\ \A s \in Replicas : loop'[s].todo = loop[s].todo
    BY <1>1, <1>a DEF Acquire, CheckLease, EndTick, Loop
  <2> QED BY <1>b, <2>1, SoundKept DEF VInv
<1>2. ASSUME NEW r \in Replicas, ReadDue(r) PROVE VInv'
  <2>1. \A s \in Replicas : \A item \in loop'[s].todo :
          \/ s # r /\ item \in loop[s].todo
          \/ \E c \in Connectors : item = <<c, conn[c].state>>
    BY <1>2, <1>a DEF ReadDue, Loop
  <2>2. TodoSound'
    BY <2>1, <1>b DEF TodoSound, StateSound, Sound, VInv
  <2> QED BY <1>2, <1>b, <2>2, SoundKept DEF ReadDue, VInv
<1>3. ASSUME NEW r \in Replicas, RunNext(r) PROVE VInv'
  <2>1. PICK item \in loop[r].todo :
          /\ loop' = [loop EXCEPT ![r].todo = @ \ {item}]
          /\ conn' = [conn EXCEPT ![item[1]].status = "running"]
          /\ run' = [run EXCEPT ![r] = [NoRun EXCEPT !.pc = "fetching", !.c = item[1],
                                                     !.at = r, !.tag = item[2]]]
    BY <1>3 DEF RunNext
  <2>2. \A c \in Connectors : conn'[c].state = conn[c].state
    BY <2>1, <1>a DEF Row
  <2>3. \A s \in Replicas : loop'[s].todo \subseteq loop[s].todo
    BY <2>1, <1>a DEF Loop
  <2>4. /\ run'[r].pc = "fetching" /\ run'[r].tag = item[2] /\ run'[r].c = item[1]
        /\ \A y \in Runners \ {r} : run'[y] = run[y]
    BY <2>1, <1>a DEF NoRun, Runners
  <2>5. Sound(item[2], item[1])'
    BY <1>b DEF TodoSound, Sound, VInv
  <2>6. RunSound'
    BY <1>b, <2>4, <2>5, RunSoundAt DEF Runners, Sound
  <2> QED BY <1>b, <2>2, <2>3, <2>6, SoundKept DEF VInv
<1>4. ASSUME NEW r \in Replicas, RunNextRaises(r) PROVE VInv'
  <2>1. PICK item \in loop[r].todo :
          /\ loop' = [loop EXCEPT ![r].todo = @ \ {item}]
          /\ conn' \in {conn, [conn EXCEPT ![item[1]].status = "rest"]}
    BY <1>4 DEF RunNextRaises
  <2>2. \A c \in Connectors : conn'[c].state = conn[c].state
    BY <2>1, <1>a DEF Row
  <2>3. \A s \in Replicas : loop'[s].todo \subseteq loop[s].todo
    BY <2>1, <1>a DEF Loop
  <2> QED BY <1>4, <1>b, <2>2, <2>3, SoundKept DEF VInv, RunNextRaises
<1>5. ASSUME NEW r \in Replicas, Crash(r) PROVE VInv'
  <2>1. \A s \in Replicas : loop'[s].todo \subseteq loop[s].todo
    BY <1>5, <1>a DEF Crash, Loop
  <2>2. RunSound'
    BY <1>5, <1>b DEF Crash, RunSound, Sound, VInv, NoRun
  <2> QED BY <1>5, <1>b, <2>1, <2>2, SoundKept DEF Crash, VInv
<1>6. ASSUME NEW r \in Replicas, Boot(r) PROVE VInv'
  <2>1. \A c \in Connectors : conn'[c].state = conn[c].state
    BY <1>6, <1>a DEF Boot, Reset, Row
  <2>2. \A s \in Replicas : loop'[s].todo = loop[s].todo
    BY <1>6, <1>a DEF Boot, Loop
  <2> QED BY <1>6, <1>b, <2>1, <2>2, SoundKept DEF Boot, VInv
<1>7. ASSUME NEW x \in Runners, Fetch(x) PROVE VInv'
  <2>1. PICK v \in {feed, run[x].tag} : FetchAnswers(x, v)
    BY <1>7 DEF Fetch
  <2>2. ASSUME NEW y \in Runners
        PROVE  /\ run'[y].pc \in {"asked", "fetching", "imported"}
                    => Sound(run[y].tag, run[y].c)'
               /\ run'[y].pc = "fetched" => \/ run'[y].tag = run'[y].got
                                            \/ Sound(run[y].tag, run[y].c)'
    <3>1. CASE y = x
      <4>1. /\ run'[x].pc = "fetched" /\ run'[x].tag = v /\ run'[x].c = run[x].c
            /\ v # run[x].tag => run'[x].got = v
        BY <2>1, <1>a DEF FetchAnswers, Run
      <4>2. Sound(run[x].tag, run[x].c)
        BY <1>7 DEF Fetch, VInv, RunSound
      <4> QED BY <1>b, <3>1, <4>1, <4>2 DEF Sound
    <3>2. CASE y # x /\ y \in AwaitingState(x)
      <4>1. run[y].c \in crossed'
        BY <1>7, <3>2 DEF Fetch
      <4>2. run'[y].c = run[y].c
        BY <2>1, <3>2, <1>a DEF FetchAnswers, Run
      <4> QED BY <4>1, <4>2 DEF Sound
    <3>3. CASE y # x /\ y \notin AwaitingState(x)
      <4>1. run'[y] = run[y]
        BY <2>1, <3>3 DEF FetchAnswers
      <4> QED BY <1>b, <4>1 DEF VInv, RunSound, Sound
    <3> QED BY <3>1, <3>2, <3>3
  <2>3. RunSound'
    BY <2>2 DEF RunSound
  <2> QED BY <1>7, <1>b, <2>3, SoundKept DEF Fetch, VInv
<1>8. ASSUME NEW x \in Runners, FetchFails(x) \/ ImportFails(x) PROVE VInv'
  <2>1. /\ run'[x].pc \in {"limited", "failing"}
        /\ \A y \in Runners \ {x} : run'[y] = run[y]
    BY <1>8, <1>a DEF FetchFails, ImportFails, Run
  <2>2. RunSound'
    BY <1>b, <2>1, RunSoundAt
  <2> QED BY <1>8, <1>b, <2>2, SoundKept DEF FetchFails, ImportFails, VInv
<1>9. ASSUME NEW x \in Runners, Import(x) PROVE VInv'
  <2>1. /\ run'[x].pc = "imported" /\ run'[x].tag = run[x].tag /\ run'[x].c = run[x].c
        /\ \A y \in Runners \ {x} : run'[y] = run[y]
    BY <1>9, <1>a DEF Import, Run
  <2>2. run[x].tag = run[x].got \/ Sound(run[x].tag, run[x].c)
    BY <1>9 DEF Import, VInv, RunSound
  <2>3. Sound(run[x].tag, run[x].c)'
    BY <1>9, <1>b, <2>1, <2>2 DEF Import, Sound
  <2>4. RunSound'
    BY <1>b, <2>1, <2>3, RunSoundAt
  <2> QED BY <1>9, <1>b, <2>4, SoundKept DEF Import, VInv
<1>10. ASSUME NEW x \in Runners, Error(x) \/ Finish(x) \/ Raise(x) PROVE VInv'
  <2>1. run' = [run EXCEPT ![x] = NoRun]
    BY <1>10 DEF Error, Finish, Raise
  <2>2. run'[x].pc = "idle" /\ \A y \in Runners \ {x} : run'[y] = run[y]
    BY <2>1, <1>a DEF NoRun
  <2>3. RunSound'
    BY <1>b, <2>2, RunSoundAt
  <2>4. StateSound'
    <3>1. CASE Error(x) \/ Raise(x)
      <4>1. \A c \in Connectors : conn'[c].state = conn[c].state
        BY <3>1, <1>a DEF Error, Raise, Row
      <4> QED BY <1>b, <4>1, SoundKept
    <3>2. CASE Finish(x)
      <4>1. Sound(run[x].tag, run[x].c)
        BY <3>2 DEF Finish, VInv, RunSound
      <4>2. \A c \in Connectors :
              conn'[c].state = IF c = run[x].c THEN run[x].tag ELSE conn[c].state
        BY <3>2, <1>a DEF Finish, Row
      <4> QED BY <1>b, <4>1, <4>2 DEF StateSound, Sound, VInv
    <3> QED BY <1>10, <3>1, <3>2
  <2>5. loop' = loop
    BY <1>10 DEF Error, Finish, Raise
  <2> QED BY <1>b, <2>3, <2>4, <2>5, SoundKept DEF VInv
<1>11. ASSUME NEW x \in Runners, BackOff(x) PROVE VInv'
  <2>1. run'[x].pc = "failing" /\ \A y \in Runners \ {x} : run'[y] = run[y]
    BY <1>11, <1>a DEF BackOff, Run
  <2>2. RunSound'
    BY <1>b, <2>1, RunSoundAt
  <2>3. \A c \in Connectors : conn'[c].state = conn[c].state
    BY <1>11, <1>a DEF BackOff, Row
  <2> QED BY <1>11, <1>b, <2>2, <2>3, SoundKept DEF BackOff, VInv
<1>12. ASSUME NEW q \in Requests, NEW c \in Connectors, Ask(q, c) PROVE VInv'
  <2>1. /\ run'[q].pc = "asked" /\ run'[q].c = c /\ run'[q].tag = conn[c].state
        /\ \A y \in Runners \ {q} : run'[y] = run[y]
    BY <1>12, <1>a DEF Ask, NoRun, Runners
  <2>2. Sound(conn[c].state, c)
    BY DEF VInv, StateSound
  <2>3. Sound(run[q].tag, run[q].c)'
    BY <1>b, <2>1, <2>2 DEF Sound
  <2>4. RunSound'
    BY <1>b, <2>1, <2>3, RunSoundAt DEF Runners
  <2> QED BY <1>12, <1>b, <2>4, SoundKept DEF Ask, VInv
<1>13. ASSUME NEW q \in Requests, RunNow(q) PROVE VInv'
  <2>1. /\ run'[q].pc = "fetching" /\ run'[q].c = run[q].c /\ run'[q].tag = run[q].tag
        /\ \A y \in Runners \ {q} : run'[y] = run[y]
    BY <1>13, <1>a DEF RunNow, Run, Runners
  <2>2. Sound(run[q].tag, run[q].c)
    BY <1>13 DEF RunNow, VInv, RunSound, Runners
  <2>3. RunSound'
    BY <1>b, <2>1, <2>2, RunSoundAt DEF Runners, Sound
  <2>4. \A c \in Connectors : conn'[c].state = conn[c].state
    BY <1>13, <1>a DEF RunNow, Row
  <2> QED BY <1>13, <1>b, <2>3, <2>4, SoundKept DEF RunNow, VInv
<1>14. ASSUME NEW c \in Connectors, ResetState(c) PROVE VInv'
  <2>1. \A d \in Connectors : conn'[d].state = 0 \/ conn'[d].state = conn[d].state
    BY <1>14, <1>a DEF ResetState, Row
  <2>2. StateSound'
    BY <1>b, <2>1 DEF StateSound, Sound, VInv
  <2> QED BY <1>14, <1>b, <2>2, SoundKept DEF ResetState, VInv
<1>15. ASSUME NEW c \in Connectors, NEW on \in BOOLEAN, Pause(c, on) PROVE VInv'
  <2>1. \A d \in Connectors : conn'[d].state = conn[d].state
    BY <1>15, <1>a DEF Pause, Row
  <2> QED BY <1>15, <1>b, <2>1, SoundKept DEF Pause, VInv
<1>16. ASSUME Tick PROVE VInv'
  <2>1. \A c \in Connectors : conn'[c].state = conn[c].state
    BY <1>16, <1>a DEF Tick, Row
  <2>2. \A x \in Runners : /\ run'[x].pc = run[x].pc
                           /\ run[x].pc # "idle" => /\ run'[x].tag = run[x].tag
                                                    /\ run'[x].got = run[x].got
                                                    /\ run'[x].c = run[x].c
    BY <1>16, <1>a, Ranges DEF Tick, Run
  <2>3. RunSound'
    BY <1>b, <2>2 DEF RunSound, Sound, VInv
  <2> QED BY <1>16, <1>b, <2>1, <2>3, SoundKept DEF Tick, VInv
<1>17. ASSUME LeaseRunsOut \/ Publish \/ UNCHANGED vars PROVE VInv'
  BY <1>17, <1>b, SoundKept DEF LeaseRunsOut, Publish, vars, VInv
<1> QED
  BY <1>1, <1>2, <1>3, <1>4, <1>5, <1>6, <1>7, <1>8, <1>9, <1>10, <1>11, <1>12, <1>13,
     <1>14, <1>15, <1>16, <1>17
  DEF Next, Scheduler, Sync, Operator

\* A saved validator comes to stand for data nobody imported in two ways only: the sync
\* had its last_state set by another sync of its process between its fetch and its
\* result, or the version was more than a fetch keeps and was imported in part.
THEOREM LiesCorrect == Spec => []LiesHaveCause
<1>1. Spec => [](TInv /\ VInv)
  BY TypeInit, TypeStep, SoundInit, SoundStep, PTL DEF Spec
<1>2. TInv /\ VInv => LiesHaveCause
  BY DEF VInv, StateSound, Sound, LiesHaveCause
<1> QED BY <1>1, <1>2, PTL
=============================================================================
