-------------------------- MODULE LogSourcesProofs --------------------------
(***************************************************************************)
(* Proofs about the three ways logs reach the store from outside: the      *)
(* collector on another host (Collector), the S3 pull (S3Pull) and the     *)
(* directory watcher (LogWatch). Each keeps a number that says how far it  *)
(* has come; the number moves before, after or apart from the ingest it    *)
(* speaks of, and the last two are read by every replica in turn, under a  *)
(* lease that may run out in the middle of a pass.                         *)
(***************************************************************************)
EXTENDS Collector, S3Pull, LogWatch, TLAPS, Counting

-----------------------------------------------------------------------------
(***************************************************************************)
(* Collector. Every number the collector keeps (in memory, in the state    *)
(* file, in the hands of a pass) claims that the lines of a content up to  *)
(* it were received.  The claims are true, and a claim about another       *)
(* content that could pass for one about this content is recorded in       *)
(* `spliced`.  The deliveries are counted against what went wrong: a line  *)
(* that has used up its account is one every number is already past.       *)
(***************************************************************************)

\* What run_pass holds is used in these places.
Passing == agent.pc \in {"opened", "statted", "read", "taken"}
Shipping == agent.pc \in {"read", "taken"}

\* An unfinished line leaves room for itself.
HalfFits == logfile.half => logfile.len < MaxLen

\* An offset of this content counts lines that exist.
Counts(g, off) == g <= logfile.gen /\ (g = logfile.gen => off <= logfile.len)

OffsetsReal ==
  /\ Counts(mem.gen, mem.off)
  /\ Counts(disk.gen, disk.off)
  /\ agent.gen <= logfile.gen
  /\ (Passing => Counts(agent.gen, agent.off))
  /\ (Shipping => Counts(agent.gen, agent.to) /\ agent.off < agent.to)
  /\ \A l \in Lines : l[1] > logfile.gen => received[l] = 0

\* The lines of g up to off were received.
Claims(g, off) ==
  g = logfile.gen /\ g \notin spliced => \A k \in 1 .. off : received[<<g, k>>] > 0

ClaimsTrue ==
  /\ Claims(mem.gen, mem.off)
  /\ Claims(disk.gen, disk.off)
  /\ (Passing => Claims(agent.gen, agent.off))
  /\ (agent.pc = "taken" => Claims(agent.gen, agent.to))

SpliceKnown == Misleading(logfile) => logfile.gen \in spliced

\* What a line may have been received at most.
Allowed == 1 + agentFaults + logfile.gen

\* run_pass looked at the inode of another file than the one it reads.
Stale == agent.pc \in {"statted", "read", "taken"} /\ agent.inode # logfile.inode

\* Then this content replaced another since, and its lines have something to spare: for
\* the batch in hand, and for the pass that finds no offset under the inode.
StaleLook ==
  Stale => \A l \in Lines : l[1] = logfile.gen =>
             received[l] + (IF agent.pc = "taken" THEN 1 ELSE 2) <= Allowed

\* A pass that starts from c does not ship line k of this content.
Covers(c, k) == c.inode = logfile.inode /\ c.gen = logfile.gen /\ k <= c.off

\* Nobody ships line l again unless something else goes wrong.
BehindOffsets(l) ==
  IF l[1] = logfile.gen
  THEN /\ agent.pc # "taken" => Covers(mem, l[2]) /\ Covers(disk, l[2])
       /\ agent.pc \in {"opened", "statted", "read"} =>
            agent.gen = logfile.gen /\ l[2] <= agent.off
       /\ agent.pc = "taken" =>
            agent.inode = logfile.inode /\ agent.gen = logfile.gen /\ l[2] <= agent.to
  ELSE agent.pc = "read" => l \notin Batch

\* A line that has used up what is allowed.
Heavy(l) == received[l] >= Allowed

HeavyCovered == \A l \in Lines : Heavy(l) => BehindOffsets(l)

CollectorIInv == /\ OffsetsReal /\ ClaimsTrue /\ SpliceKnown
                 /\ StaleLook /\ HeavyCovered /\ RepeatsArePaidFor

-----------------------------------------------------------------------------
(* Types *)

Agents == [pc    : {"down", "idle", "opened", "statted", "read", "taken"},
           inode : Inodes, gen : Gens, off : 0 .. MaxLen, to : 0 .. MaxLen]

LEMMA CollectorRanges ==
  /\ Gens \subseteq Nat /\ 0 .. MaxLen \subseteq Nat /\ 0 \in Gens /\ 0 \in 0 .. MaxLen
  /\ MaxGen \in Nat /\ MaxLen \in Nat /\ ShipBatch \in Nat \ {0}
  /\ \A l \in Lines : l[1] \in Gens /\ l[2] \in 1 .. MaxLen /\ l = <<l[1], l[2]>>
  /\ \A g \in Gens, k \in 1 .. MaxLen : <<g, k>> \in Lines
  BY CollectorAssumption DEF Gens, Lines

\* The numbers of a state, as the proofs use them.
CollectorNums ==
  /\ logfile.inode \in Inodes /\ logfile.gen \in Nat /\ logfile.len \in Nat
  /\ logfile.gen \in Gens /\ logfile.len <= MaxLen
  /\ \A c \in {mem, disk} : c.gen \in Nat /\ c.off \in Nat /\ c.inode \in Inodes
  /\ agent.inode \in Inodes /\ agent.gen \in Nat /\ agent.off \in Nat /\ agent.to \in Nat
  /\ agent.gen \in Gens /\ agent.off <= MaxLen /\ agent.to <= MaxLen
  /\ \A l \in Lines : received[l] \in Nat
  /\ agentFaults \in Nat

LEMMA NumsHold == CollectorTypeOK => CollectorNums
  BY CollectorRanges, CollectorAssumption DEF CollectorTypeOK, Offset, CollectorNums

\* The local variables of run_pass after a step, field by field.
Looks(pc, inode, gen, off, to) ==
  /\ agent'.pc = pc /\ agent'.inode = inode /\ agent'.gen = gen
  /\ agent'.off = off /\ agent'.to = to

\* Where a batch ends.
End == IF agent.off + ShipBatch < logfile.len THEN agent.off + ShipBatch ELSE logfile.len

LEMMA AgentSteps ==
  ASSUME CollectorTypeOK
  PROVE  /\ StartAgent => Looks("idle", agent.inode, agent.gen, agent.off, agent.to)
         /\ OpenPass =>
              \/ /\ mem.inode = logfile.inode
                 /\ Looks("opened", logfile.inode, mem.gen, mem.off, agent.to)
              \/ /\ mem.inode # logfile.inode
                 /\ Looks("opened", logfile.inode, logfile.gen, 0, agent.to)
         /\ StatFile =>
              \/ /\ agent.off > logfile.len
                 /\ Looks("statted", logfile.inode, agent.gen, 0, agent.to)
              \/ /\ ~(agent.off > logfile.len)
                 /\ Looks("statted", logfile.inode, agent.gen, agent.off, agent.to)
         /\ ReadLines =>
              \/ End > agent.off /\ Looks("read", agent.inode, logfile.gen, agent.off, End)
              \/ Looks("idle", agent.inode, agent.gen, agent.off, agent.to)
         /\ ShipAccepted => Looks("taken", agent.inode, agent.gen, agent.off, agent.to)
         /\ AnswerLost \/ ShipRefused \/ SaveFails =>
              Looks("idle", agent.inode, agent.gen, agent.off, agent.to)
         /\ SaveCheckpoint =>
              \/ GoesOn /\ Looks("opened", agent.inode, agent.gen, agent.to, agent.to)
              \/ ~GoesOn /\ Looks("idle", agent.inode, agent.gen, agent.off, agent.to)
         /\ AgentDies => Looks("down", agent.inode, agent.gen, agent.off, agent.to)
<1>0. agent \in Agents /\ mem \in Offset
  BY DEF CollectorTypeOK, Agents
<1>1. StartAgent => Looks("idle", agent.inode, agent.gen, agent.off, agent.to)
  BY <1>0 DEF StartAgent, Looks, Agents
<1>2. ASSUME OpenPass
      PROVE  \/ /\ mem.inode = logfile.inode
                /\ Looks("opened", logfile.inode, mem.gen, mem.off, agent.to)
             \/ /\ mem.inode # logfile.inode
                /\ Looks("opened", logfile.inode, logfile.gen, 0, agent.to)
  BY <1>0, <1>2 DEF OpenPass, OffsetFor, Looks, Agents, Offset
<1>3. ASSUME StatFile
      PROVE  \/ /\ agent.off > logfile.len
                /\ Looks("statted", logfile.inode, agent.gen, 0, agent.to)
             \/ /\ ~(agent.off > logfile.len)
                /\ Looks("statted", logfile.inode, agent.gen, agent.off, agent.to)
  BY <1>0, <1>3 DEF StatFile, StartOffset, Looks, Agents
<1>4. ASSUME ReadLines
      PROVE  \/ End > agent.off /\ Looks("read", agent.inode, logfile.gen, agent.off, End)
             \/ Looks("idle", agent.inode, agent.gen, agent.off, agent.to)
  BY <1>0, <1>4 DEF ReadLines, Complete, End, Looks, Agents
<1>5. ShipAccepted => Looks("taken", agent.inode, agent.gen, agent.off, agent.to)
  BY <1>0 DEF ShipAccepted, Looks, Agents
<1>6. AnswerLost \/ ShipRefused \/ SaveFails =>
        Looks("idle", agent.inode, agent.gen, agent.off, agent.to)
  BY <1>0 DEF AnswerLost, ShipRefused, SaveFails, Looks, Agents
<1>7. ASSUME SaveCheckpoint
      PROVE  \/ GoesOn /\ Looks("opened", agent.inode, agent.gen, agent.to, agent.to)
             \/ ~GoesOn /\ Looks("idle", agent.inode, agent.gen, agent.off, agent.to)
  BY <1>0, <1>7 DEF SaveCheckpoint, AfterBatch, Looks, Agents
<1>8. AgentDies => Looks("down", agent.inode, agent.gen, agent.off, agent.to)
  BY <1>0 DEF AgentDies, Looks, Agents
<1> QED BY <1>1, <1>2, <1>3, <1>4, <1>5, <1>6, <1>7, <1>8

LEMMA CollectorTypeInit == CollectorInit => CollectorTypeOK /\ HalfFits
  BY CollectorRanges, CollectorAssumption DEF CollectorInit, CollectorTypeOK, HalfFits, Offset

\* What the writer does to the file.
LEMMA WriterSteps ==
  ASSUME CollectorTypeOK, HalfFits,
         BeginLine \/ EndLine \/ Truncate \/ \E i \in Inodes : Rotate(i)
  PROVE  /\ logfile' \in [inode : Inodes, gen : Gens, len : 0 .. MaxLen, half : BOOLEAN]
         /\ HalfFits'
         /\ Write(logfile')
         /\ \/ /\ logfile'.inode = logfile.inode /\ logfile'.gen = logfile.gen
               /\ logfile.len <= logfile'.len
            \/ logfile'.gen = logfile.gen + 1
<1>0. logfile \in [inode : Inodes, gen : Gens, len : 0 .. MaxLen, half : BOOLEAN]
  BY DEF CollectorTypeOK
<1>1. CASE BeginLine
  <2> DEFINE f == [logfile EXCEPT !.half = TRUE]
  <2>1. f \in [inode : Inodes, gen : Gens, len : 0 .. MaxLen, half : BOOLEAN]
        /\ f.half /\ f.len = logfile.len /\ f.gen = logfile.gen /\ f.inode = logfile.inode
    BY <1>0
  <2>2. Write(f) /\ logfile' = f /\ logfile.len < MaxLen
    BY <1>1 DEF BeginLine, Write
  <2> HIDE DEF f
  <2> QED BY <1>0, <2>1, <2>2, CollectorRanges DEF HalfFits
<1>2. CASE EndLine
  <2> DEFINE f == [logfile EXCEPT !.half = FALSE, !.len = logfile.len + 1]
  <2>0. logfile.len + 1 \in 0 .. MaxLen /\ logfile.len \in Nat
    BY <1>0, <1>2, CollectorRanges DEF EndLine, HalfFits
  <2>1. f \in [inode : Inodes, gen : Gens, len : 0 .. MaxLen, half : BOOLEAN]
        /\ ~f.half /\ f.len = logfile.len + 1 /\ f.gen = logfile.gen /\ f.inode = logfile.inode
    BY <1>0, <2>0
  <2>2. Write(f) /\ logfile' = f
    BY <1>2 DEF EndLine, Write
  <2> HIDE DEF f
  <2> QED BY <2>0, <2>1, <2>2 DEF HalfFits
<1>3. CASE Truncate
  <2> DEFINE f == [logfile EXCEPT !.gen = logfile.gen + 1, !.len = 0, !.half = FALSE]
  <2>0. logfile.gen + 1 \in Gens
    BY <1>0, <1>3, CollectorAssumption DEF Truncate, Gens
  <2>1. f \in [inode : Inodes, gen : Gens, len : 0 .. MaxLen, half : BOOLEAN]
        /\ ~f.half /\ f.gen = logfile.gen + 1
    BY <1>0, <2>0, CollectorRanges
  <2>2. Write(f) /\ logfile' = f
    BY <1>3 DEF Truncate, Write
  <2> HIDE DEF f
  <2> QED BY <2>1, <2>2 DEF HalfFits
<1>4. ASSUME NEW i \in Inodes, Rotate(i)
      PROVE  /\ logfile' \in [inode : Inodes, gen : Gens, len : 0 .. MaxLen, half : BOOLEAN]
             /\ HalfFits' /\ Write(logfile') /\ logfile'.gen = logfile.gen + 1
  <2> DEFINE f == [inode |-> i, gen |-> logfile.gen + 1, len |-> 0, half |-> FALSE]
  <2>0. logfile.gen + 1 \in Gens
    BY <1>0, <1>4, CollectorAssumption DEF Rotate, Gens
  <2>1. f \in [inode : Inodes, gen : Gens, len : 0 .. MaxLen, half : BOOLEAN]
        /\ ~f.half /\ f.gen = logfile.gen + 1
    BY <2>0, CollectorRanges
  <2>2. Write(f) /\ logfile' = f
    BY <1>4 DEF Rotate, Write
  <2> HIDE DEF f
  <2> QED BY <2>1, <2>2 DEF HalfFits
<1> QED BY <1>1, <1>2, <1>3, <1>4

LEMMA CollectorTypeStep ==
  CollectorTypeOK /\ HalfFits /\ [CollectorNext]_collectorVars => CollectorTypeOK' /\ HalfFits'
<1> SUFFICES ASSUME CollectorTypeOK, HalfFits, [CollectorNext]_collectorVars
             PROVE  CollectorTypeOK' /\ HalfFits'
  OBVIOUS
<1>0. /\ agent \in Agents /\ mem \in Offset /\ disk \in Offset /\ CollectorNums
      /\ logfile.gen \in Gens /\ logfile.len \in 0 .. MaxLen /\ logfile.inode \in Inodes
  BY NumsHold DEF CollectorTypeOK, Agents
<1>1. CASE BeginLine \/ EndLine \/ Truncate \/ \E i \in Inodes : Rotate(i)
  <2>1. logfile' \in [inode : Inodes, gen : Gens, len : 0 .. MaxLen, half : BOOLEAN]
        /\ HalfFits' /\ Write(logfile') /\ logfile'.gen \in Gens
    BY <1>1, WriterSteps
  <2>2. spliced' \in SUBSET Gens
    BY <2>1 DEF Write, CollectorTypeOK
  <2> QED BY <2>1, <2>2 DEF Write, CollectorTypeOK
<1>2. AgentFault => agentFaults' \in 0 .. MaxAgentFaults
  BY CollectorAssumption DEF AgentFault, CollectorTypeOK
<1>3. Ingested => received' \in [Lines -> Nat]
  BY DEF Ingested, CollectorTypeOK
<1>4. ASSUME Agent \/ AgentDies PROVE agent' \in Agents
  <2>1. CASE StartAgent
    BY <1>0, <2>1 DEF StartAgent, Agents
  <2>2. CASE OpenPass
    BY <1>0, <2>2, CollectorRanges DEF OpenPass, OffsetFor, Agents, Offset
  <2>3. CASE StatFile
    BY <1>0, <2>3, CollectorRanges DEF StatFile, StartOffset, Agents
  <2>4. CASE ReadLines
    <3>1. End \in 0 .. MaxLen
      BY <1>0, CollectorRanges DEF End, Agents
    <3>2. agent' \in {[agent EXCEPT !.pc = "read", !.gen = logfile.gen, !.to = End],
                      [agent EXCEPT !.pc = "idle"]}
      BY <2>4 DEF ReadLines, Complete, End
    <3> HIDE DEF End
    <3> QED BY <1>0, <3>1, <3>2 DEF Agents
  <2>5. CASE ShipAccepted \/ AnswerLost \/ ShipRefused \/ SaveFails \/ AgentDies
    BY <1>0, <2>5 DEF ShipAccepted, AnswerLost, ShipRefused, SaveFails, AgentDies, Agents
  <2>6. CASE SaveCheckpoint
    BY <1>0, <2>6 DEF SaveCheckpoint, AfterBatch, Agents
  <2> QED BY <1>4, <2>1, <2>2, <2>3, <2>4, <2>5, <2>6 DEF Agent
<1>5. [inode |-> agent.inode, gen |-> agent.gen, off |-> agent.to] \in Offset
  BY <1>0 DEF Agents, Offset
<1>6. CASE Agent \/ AgentDies
  <2>1. agent' \in Agents /\ logfile' = logfile /\ spliced' = spliced
    BY <1>4, <1>6 DEF Agent, StartAgent, OpenPass, StatFile, ReadLines, ShipAccepted, AnswerLost,
                      ShipRefused, SaveCheckpoint, SaveFails, AgentDies
  <2>2. mem' \in Offset /\ disk' \in Offset
    BY <1>0, <1>5, <1>6 DEF Agent, StartAgent, OpenPass, StatFile, ReadLines, ShipAccepted,
                      AnswerLost, ShipRefused, SaveCheckpoint, SaveFails, AgentDies
  <2>3. received' \in [Lines -> Nat]
    BY <1>3, <1>6 DEF Agent, StartAgent, OpenPass, StatFile, ReadLines, ShipAccepted, AnswerLost,
                      ShipRefused, SaveCheckpoint, SaveFails, AgentDies, CollectorTypeOK
  <2>4. agentFaults' \in 0 .. MaxAgentFaults
    BY <1>2, <1>6 DEF Agent, StartAgent, OpenPass, StatFile, ReadLines, ShipAccepted, AnswerLost,
                      ShipRefused, SaveCheckpoint, SaveFails, AgentDies, CollectorTypeOK
  <2> QED BY <2>1, <2>2, <2>3, <2>4 DEF CollectorTypeOK, Agents, HalfFits
<1>7. CASE UNCHANGED collectorVars
  BY <1>7 DEF collectorVars, CollectorTypeOK, HalfFits
<1> QED BY <1>1, <1>6, <1>7 DEF CollectorNext

\* Type correctness of the collector's state, and of the line its writer has begun.
THEOREM CollectorTypes == CollectorSpec => [](CollectorTypeOK /\ HalfFits)
<1> QED BY CollectorTypeInit, CollectorTypeStep, PTL DEF CollectorSpec

-----------------------------------------------------------------------------
(* What the steps of the agent do to the rest *)

Writer == BeginLine \/ EndLine \/ Truncate \/ \E i \in Inodes : Rotate(i)

LEMMA AgentEffects ==
  /\ Agent \/ AgentDies => logfile' = logfile /\ spliced' = spliced
  /\ StartAgent => mem' = disk /\ UNCHANGED <<disk, received, agentFaults>>
  /\ OpenPass \/ StatFile \/ ReadLines => UNCHANGED <<mem, disk, received, agentFaults>>
  /\ ShipAccepted => Ingested /\ UNCHANGED <<mem, disk, agentFaults>>
  /\ AnswerLost => Ingested /\ agentFaults' = agentFaults + 1 /\ UNCHANGED <<mem, disk>>
  /\ ShipRefused \/ AgentDies =>
       agentFaults' = agentFaults + 1 /\ UNCHANGED <<mem, disk, received>>
  /\ SaveCheckpoint =>
       /\ mem' = [inode |-> agent.inode, gen |-> agent.gen, off |-> agent.to]
       /\ disk' = mem' /\ UNCHANGED <<received, agentFaults>>
  /\ SaveFails =>
       /\ mem' = [inode |-> agent.inode, gen |-> agent.gen, off |-> agent.to]
       /\ agentFaults' = agentFaults + 1 /\ UNCHANGED <<disk, received>>
  BY DEF Agent, AgentFault, StartAgent, OpenPass, StatFile, ReadLines, ShipAccepted, AnswerLost,
         ShipRefused, SaveCheckpoint, SaveFails, AgentDies

LEMMA AgentBefore ==
  /\ StartAgent => agent.pc = "down"
  /\ OpenPass => agent.pc = "idle"
  /\ StatFile => agent.pc = "opened"
  /\ ReadLines => agent.pc = "statted"
  /\ ShipAccepted \/ AnswerLost \/ ShipRefused => agent.pc = "read"
  /\ SaveCheckpoint \/ SaveFails => agent.pc = "taken"
  BY DEF StartAgent, OpenPass, StatFile, ReadLines, ShipAccepted, AnswerLost, ShipRefused,
         SaveCheckpoint, SaveFails

\* The lines that arrive.
LEMMA BatchIs ==
  ASSUME CollectorNums, OffsetsReal, Shipping, NEW l \in Lines
  PROVE  l \in Batch <=> l[1] = agent.gen /\ agent.off < l[2] /\ l[2] <= agent.to
<1>1. l[2] \in Nat /\ l = <<l[1], l[2]>>
  BY CollectorRanges
<1>2. agent.gen = logfile.gen => agent.to <= logfile.len
  BY DEF OffsetsReal, Counts
<1>3. agent.off \in Nat /\ agent.to \in Nat /\ logfile.len \in Nat
  BY DEF CollectorNums
<1>4. ASSUME l \in Batch PROVE l[1] = agent.gen /\ agent.off < l[2] /\ l[2] <= agent.to
  BY <1>3, <1>4 DEF Batch
<1>5. ASSUME l[1] = agent.gen, agent.off < l[2], l[2] <= agent.to PROVE l \in Batch
  BY <1>1, <1>2, <1>3, <1>5 DEF Batch
<1> QED BY <1>4, <1>5

LEMMA IngestedIs ==
  ASSUME CollectorTypeOK, Ingested, NEW l \in Lines
  PROVE  received'[l] = IF l \in Batch THEN received[l] + 1 ELSE received[l]
  BY DEF Ingested

\* An agent step that leaves `received` alone, or that ships the batch.
LEMMA ReceivedGrows ==
  ASSUME CollectorTypeOK, Agent \/ AgentDies, NEW l \in Lines
  PROVE  received[l] > 0 => received'[l] > 0
<1>1. received[l] \in Nat
  BY NumsHold DEF CollectorNums
<1> QED BY <1>1, AgentEffects, IngestedIs DEF Agent

-----------------------------------------------------------------------------
(* OffsetsReal *)

LEMMA OffsetsInit == CollectorInit => OffsetsReal
  BY CollectorRanges DEF CollectorInit, OffsetsReal, Counts, Passing, Shipping

LEMMA OffsetsWriter ==
  ASSUME CollectorTypeOK, HalfFits, OffsetsReal, Writer
  PROVE  OffsetsReal'
<1>1. /\ CollectorNums /\ mem' = mem /\ disk' = disk /\ agent' = agent /\ received' = received
      /\ logfile'.len \in Nat
      /\ \/ logfile'.gen = logfile.gen /\ logfile.len <= logfile'.len
         \/ logfile'.gen = logfile.gen + 1
  BY NumsHold, WriterSteps, CollectorRanges DEF Writer, Write
<1>2. \A l \in Lines : l[1] \in Nat
  BY CollectorRanges
<1>3. \A g, off \in Nat : Counts(g, off) => Counts(g, off)'
  BY <1>1 DEF Counts, CollectorNums
<1> QED BY <1>1, <1>2, <1>3 DEF OffsetsReal, CollectorNums, Passing, Shipping

LEMMA OffsetsAgent ==
  ASSUME CollectorTypeOK, OffsetsReal, Agent \/ AgentDies
  PROVE  OffsetsReal'
<1>0. CollectorNums /\ logfile' = logfile
  BY NumsHold, AgentEffects
<1>1. \A g, off : Counts(g, off)' <=> Counts(g, off)
  BY <1>0 DEF Counts
<1>2. ASSUME NEW l \in Lines, l[1] > logfile.gen PROVE received'[l] = 0
  <2>1. received[l] = 0 /\ l[1] # agent.gen
    BY <1>0, <1>2, CollectorRanges DEF OffsetsReal, CollectorNums
  <2>2. agent.pc = "read" => l \notin Batch
    BY <1>0, <2>1, BatchIs DEF Shipping
  <2> QED BY <2>1, <2>2, AgentEffects, AgentBefore, IngestedIs DEF Agent
<1>3. Counts(mem.gen, mem.off)' /\ Counts(disk.gen, disk.off)'
  <2>1. CASE SaveCheckpoint \/ SaveFails
    <3>1. Counts(agent.gen, agent.to)
      BY <2>1, AgentBefore DEF OffsetsReal, Shipping
    <3>2. mem'.gen = agent.gen /\ mem'.off = agent.to /\ (disk' = mem' \/ disk' = disk)
      BY <2>1, AgentEffects
    <3> QED BY <1>1, <3>1, <3>2 DEF OffsetsReal
  <2>2. CASE ~(SaveCheckpoint \/ SaveFails)
    <3>1. (mem' = mem \/ mem' = disk) /\ disk' = disk
      BY <2>2, AgentEffects DEF Agent
    <3> QED BY <1>1, <3>1 DEF OffsetsReal
  <2> QED BY <2>1, <2>2
<1>4. /\ agent'.gen <= logfile.gen
      /\ (Passing' => Counts(agent'.gen, agent'.off))
      /\ (Shipping' => Counts(agent'.gen, agent'.to) /\ agent'.off < agent'.to)
  <2>1. CASE OpenPass
    BY <1>0, <2>1, AgentSteps DEF Looks, OffsetsReal, Counts, Passing, Shipping, CollectorNums
  <2>2. CASE StatFile
    BY <1>0, <2>2, AgentSteps, AgentBefore DEF Looks, OffsetsReal, Counts, Passing, Shipping, CollectorNums
  <2>3. CASE ReadLines
    <3>1. End <= logfile.len /\ End \in Nat
      BY <1>0, CollectorRanges DEF End, CollectorNums
    <3> QED BY <1>0, <2>3, <3>1, AgentSteps, AgentBefore
            DEF Looks, OffsetsReal, Counts, Passing, Shipping, CollectorNums
  <2>4. CASE ShipAccepted
    BY <1>0, <2>4, AgentSteps, AgentBefore DEF Looks, OffsetsReal, Passing, Shipping
  <2>5. CASE SaveCheckpoint
    BY <1>0, <2>5, AgentSteps, AgentBefore DEF Looks, OffsetsReal, Passing, Shipping
  <2>6. CASE StartAgent \/ AnswerLost \/ ShipRefused \/ SaveFails \/ AgentDies
    BY <1>0, <2>6, AgentSteps DEF Looks, OffsetsReal, Passing, Shipping
  <2> QED BY <2>1, <2>2, <2>3, <2>4, <2>5, <2>6 DEF Agent
<1> QED BY <1>0, <1>1, <1>2, <1>3, <1>4 DEF OffsetsReal

-----------------------------------------------------------------------------
(* SpliceKnown *)

\* An offset of content g under inode i, in a file of another content and length len.
Hidden(i, g, off, f) == g # f.gen /\ i = f.inode /\ 0 < off /\ off <= f.len

\* Misleading, number by number.
MisleadingAt(f) ==
  \/ Hidden(mem.inode, mem.gen, mem.off, f)
  \/ Hidden(disk.inode, disk.gen, disk.off, f)
  \/ agent.pc \in {"opened", "statted"} /\ Hidden(f.inode, agent.gen, agent.off, f)
  \/ Shipping /\ GoesOn /\ Hidden(f.inode, agent.gen, agent.to, f)
  \/ Shipping /\ Hidden(agent.inode, agent.gen, agent.to, f)

LEMMA MisleadingIs ==
  ASSUME NEW f
  PROVE  Misleading(f) <=> MisleadingAt(f)
<1> DEFINE M(c) == c.gen # f.gen /\ c.inode = f.inode /\ 0 < c.off /\ c.off <= f.len
<1>1. Misleading(f) <=> M(mem) \/ M(disk) \/ \E c \in Held(f) : M(c)
  BY DEF Misleading
<1>2. M(mem) <=> Hidden(mem.inode, mem.gen, mem.off, f)
  BY DEF Hidden
<1>3. M(disk) <=> Hidden(disk.inode, disk.gen, disk.off, f)
  BY DEF Hidden
<1>4. CASE agent.pc \in {"opened", "statted"}
  <2>1. Held(f) = {[inode |-> f.inode, gen |-> agent.gen, off |-> agent.off]}
    BY <1>4 DEF Held
  <2>2. (\E c \in Held(f) : M(c)) <=> Hidden(f.inode, agent.gen, agent.off, f)
    BY <2>1 DEF Hidden
  <2> QED BY <1>1, <1>2, <1>3, <1>4, <2>2 DEF MisleadingAt, Shipping
<1>5. CASE Shipping
  <2>1. Held(f) = {[inode |-> IF GoesOn THEN f.inode ELSE agent.inode,
                    gen |-> agent.gen, off |-> agent.to]}
    BY <1>5 DEF Held, Shipping
  <2>2. (\E c \in Held(f) : M(c)) <=>
          Hidden(IF GoesOn THEN f.inode ELSE agent.inode, agent.gen, agent.to, f)
    BY <2>1 DEF Hidden
  <2> QED BY <1>1, <1>2, <1>3, <1>5, <2>2 DEF MisleadingAt, Shipping, Hidden
<1>6. CASE agent.pc \notin {"opened", "statted", "read", "taken"}
  <2>1. Held(f) = {}
    BY <1>6 DEF Held
  <2> QED BY <1>1, <1>2, <1>3, <1>6, <2>1 DEF MisleadingAt, Shipping
<1> QED BY <1>4, <1>5, <1>6 DEF Shipping

SpliceSeen == MisleadingAt(logfile) => logfile.gen \in spliced

LEMMA SpliceIs == SpliceKnown <=> SpliceSeen
  BY MisleadingIs DEF SpliceKnown, SpliceSeen

LEMMA SpliceWriter ==
  ASSUME CollectorTypeOK, HalfFits, Writer
  PROVE  SpliceSeen'
<1>1. Write(logfile')
  BY WriterSteps DEF Writer
<1>2. MisleadingAt(logfile)' => MisleadingAt(logfile')
  BY <1>1 DEF Write, MisleadingAt, Hidden, Shipping, GoesOn
<1>3. MisleadingAt(logfile') => Misleading(logfile')
  BY MisleadingIs
<1> QED BY <1>1, <1>2, <1>3 DEF Write, SpliceSeen

LEMMA SpliceAgent ==
  ASSUME CollectorTypeOK, OffsetsReal, SpliceSeen, Agent \/ AgentDies
  PROVE  SpliceSeen'
<1>0. CollectorNums /\ logfile' = logfile /\ spliced' = spliced
  BY NumsHold, AgentEffects
<1> SUFFICES ASSUME MisleadingAt(logfile)' PROVE MisleadingAt(logfile)
  BY <1>0 DEF SpliceSeen
<1>1. CASE StartAgent
  BY <1>0, <1>1, AgentEffects, AgentSteps DEF Looks, MisleadingAt, Shipping
<1>2. CASE OpenPass
  BY <1>0, <1>2, AgentEffects, AgentSteps DEF Looks, MisleadingAt, Shipping, Hidden
<1>3. CASE StatFile
  BY <1>0, <1>3, AgentEffects, AgentSteps, AgentBefore DEF Looks, MisleadingAt, Shipping, Hidden
<1>4. CASE ReadLines
  BY <1>0, <1>4, AgentEffects, AgentSteps DEF Looks, MisleadingAt, Shipping, Hidden
<1>5. CASE ShipAccepted
  <2>1. Shipping /\ (GoesOn' => GoesOn)
    BY <1>5, AgentSteps, AgentBefore DEF Looks, Shipping, GoesOn
  <2> QED BY <1>0, <1>5, <2>1, AgentEffects, AgentSteps DEF Looks, MisleadingAt, Shipping, Hidden
<1>6. CASE AnswerLost \/ ShipRefused \/ AgentDies
  BY <1>0, <1>6, AgentEffects, AgentSteps DEF Looks, MisleadingAt, Shipping, Hidden
<1>7. CASE SaveCheckpoint \/ SaveFails
  <2>1. Shipping
    BY <1>7, AgentBefore DEF Shipping
  <2>2. /\ mem'.inode = agent.inode /\ mem'.gen = agent.gen /\ mem'.off = agent.to
        /\ disk' = mem' \/ disk' = disk
    BY <1>7, AgentEffects
  <2>3. \/ GoesOn /\ agent'.pc = "opened" /\ agent'.gen = agent.gen /\ agent'.off = agent.to
        \/ agent'.pc = "idle"
    BY <1>7, AgentSteps DEF Looks
  <2> QED BY <1>0, <2>1, <2>2, <2>3 DEF MisleadingAt, Shipping, Hidden
<1> QED BY <1>1, <1>2, <1>3, <1>4, <1>5, <1>6, <1>7 DEF Agent

-----------------------------------------------------------------------------
(* ClaimsTrue *)

LEMMA ClaimsInit == CollectorInit => ClaimsTrue
  BY DEF CollectorInit, ClaimsTrue, Claims, Passing

LEMMA ClaimsWriter ==
  ASSUME CollectorTypeOK, HalfFits, OffsetsReal, ClaimsTrue, Writer
  PROVE  ClaimsTrue'
<1>1. /\ CollectorNums /\ mem' = mem /\ disk' = disk /\ agent' = agent /\ received' = received
      /\ spliced \subseteq spliced'
      /\ logfile'.gen = logfile.gen \/ logfile'.gen = logfile.gen + 1
  BY NumsHold, WriterSteps DEF Writer, Write, CollectorTypeOK
<1>2. ASSUME NEW g \in Nat, g <= logfile.gen, NEW off \in Nat, Claims(g, off)
      PROVE  Claims(g, off)'
  <2>1. g = logfile'.gen => logfile'.gen = logfile.gen
    BY <1>1, <1>2 DEF CollectorNums
  <2>2. \A k : received'[<<g, k>>] = received[<<g, k>>]
    BY <1>1
  <2> QED BY <1>1, <1>2, <2>1, <2>2 DEF Claims
<1> QED BY <1>1, <1>2 DEF ClaimsTrue, OffsetsReal, Counts, CollectorNums, Passing

LEMMA ClaimsAgent ==
  ASSUME CollectorTypeOK, OffsetsReal, ClaimsTrue, SpliceSeen, Agent \/ AgentDies
  PROVE  ClaimsTrue'
<1>0. CollectorNums /\ logfile' = logfile /\ spliced' = spliced
  BY NumsHold, AgentEffects
<1>1. ASSUME NEW g \in Gens, NEW off \in Nat, off <= MaxLen, Claims(g, off) PROVE Claims(g, off)'
  <2> SUFFICES ASSUME g = logfile.gen, g \notin spliced, NEW k \in 1 .. off
               PROVE  received'[<<g, k>>] > 0
    BY <1>0 DEF Claims
  <2>1. <<g, k>> \in Lines
    BY <1>1, CollectorRanges
  <2> QED BY <1>1, <2>1, ReceivedGrows DEF Claims
<1>2. \A g : Claims(g, 0)'
  BY DEF Claims
<1>a. /\ mem.gen \in Gens /\ disk.gen \in Gens /\ mem.off <= MaxLen /\ disk.off <= MaxLen
      /\ mem.off \in Nat /\ disk.off \in Nat
  BY CollectorRanges DEF CollectorTypeOK, Offset
<1>3. \A c \in {mem, disk} : c.gen \in Gens /\ c.off \in Nat /\ c.off <= MaxLen
        /\ Claims(c.gen, c.off)
  BY <1>a DEF ClaimsTrue
<1>4. CASE StartAgent \/ OpenPass \/ StatFile \/ ReadLines \/ ShipAccepted \/ AnswerLost
           \/ ShipRefused \/ AgentDies
  <2>1. (mem' = mem \/ mem' = disk) /\ disk' = disk
    BY <1>4, AgentEffects
  <2>2. Claims(mem.gen, mem.off)' /\ Claims(disk.gen, disk.off)'
    <3>1. \A c \in {mem, disk} : c.gen = logfile.gen /\ c.gen \notin spliced =>
            \A k \in 1 .. c.off : received'[<<c.gen, k>>] > 0
      <4> SUFFICES ASSUME NEW c \in {mem, disk}
                   PROVE  c.gen = logfile.gen /\ c.gen \notin spliced =>
                            \A k \in 1 .. c.off : received'[<<c.gen, k>>] > 0
        OBVIOUS
      <4> DEFINE g == c.gen
                 off == c.off
      <4>1. g \in Gens /\ off \in Nat /\ off <= MaxLen /\ Claims(g, off)
        BY <1>3
      <4> HIDE DEF g, off
      <4>2. g = logfile.gen /\ g \notin spliced => \A k \in 1 .. off : received'[<<g, k>>] > 0
        BY <1>0, <1>1, <4>1 DEF Claims
      <4> QED BY <4>2 DEF g, off
    <3> QED BY <1>0, <2>1, <3>1 DEF Claims
  <2>3. CASE OpenPass
    <3>1. \/ agent'.gen = mem.gen /\ agent'.off = mem.off
          \/ agent'.off = 0
      BY <2>3, AgentSteps DEF Looks
    <3>2. mem' = mem /\ agent'.pc = "opened"
      BY <2>3, AgentEffects, AgentSteps DEF Looks
    <3> QED BY <1>2, <2>2, <3>1, <3>2 DEF ClaimsTrue, Passing, Claims
  <2>4. CASE StatFile
    <3>1. /\ (agent'.gen = agent.gen /\ agent'.off = agent.off) \/ agent'.off = 0
          /\ agent'.pc = "statted"
      BY <2>4, AgentSteps DEF Looks
    <3>2. Claims(agent.gen, agent.off)
      BY <2>4, AgentBefore DEF ClaimsTrue, Passing
    <3>3. agent.gen = logfile.gen /\ agent.gen \notin spliced =>
            \A k \in 1 .. agent.off : received'[<<agent.gen, k>>] > 0
      BY <1>0, <1>1, <3>2 DEF Claims, CollectorNums
    <3> QED BY <1>0, <1>2, <2>2, <3>1, <3>3 DEF ClaimsTrue, Passing, Claims
  <2>5. CASE ReadLines
    <3>1. \/ /\ agent'.pc = "read" /\ agent'.gen = logfile.gen /\ agent'.off = agent.off
             /\ agent.off < logfile.len
          \/ agent'.pc = "idle"
      <4>1. End <= logfile.len /\ End \in Nat
        BY <1>0, CollectorRanges DEF End, CollectorNums
      <4> QED BY <1>0, <2>5, <4>1, AgentSteps DEF Looks, CollectorNums
    <3>2. agent.pc = "statted" /\ Claims(agent.gen, agent.off) /\ received' = received
      BY <2>5, AgentBefore, AgentEffects DEF ClaimsTrue, Passing
    <3>3. ASSUME agent'.pc = "read" PROVE Claims(logfile.gen, agent.off)
      <4>1. CASE agent.gen = logfile.gen
        BY <3>2, <4>1
      <4>2. CASE agent.gen # logfile.gen /\ agent.off # 0
        <5>1. MisleadingAt(logfile)
          BY <1>0, <3>1, <3>2, <3>3, <4>2 DEF MisleadingAt, Hidden, CollectorNums
        <5> QED BY <5>1 DEF SpliceSeen, Claims
      <4>3. CASE agent.off = 0
        BY <4>3 DEF Claims
      <4> QED BY <4>1, <4>2, <4>3
    <3> QED BY <1>0, <2>2, <3>1, <3>2, <3>3 DEF ClaimsTrue, Passing, Claims
  <2>6. CASE ShipAccepted
    <3>1. agent'.pc = "taken" /\ agent'.gen = agent.gen /\ agent'.off = agent.off
          /\ agent'.to = agent.to
      BY <2>6, AgentSteps DEF Looks
    <3>2. agent.pc = "read" /\ Claims(agent.gen, agent.off) /\ Ingested
      BY <2>6, AgentBefore, AgentEffects DEF ClaimsTrue, Passing
    <3>3. Claims(agent.gen, agent.off) =>
            (agent.gen = logfile.gen /\ agent.gen \notin spliced =>
               \A k \in 1 .. agent.off : received'[<<agent.gen, k>>] > 0)
      BY <1>0, <1>1 DEF Claims, CollectorNums
    <3>4. ASSUME NEW k \in 1 .. agent.to, ~(k <= agent.off)
          PROVE  received'[<<agent.gen, k>>] > 0
      <4> DEFINE l == <<agent.gen, k>>
      <4>1. l \in Lines /\ l[1] = agent.gen /\ l[2] = k
        BY <1>0, CollectorRanges DEF CollectorNums
      <4> HIDE DEF l
      <4>2. l \in Batch
        BY <1>0, <3>2, <3>4, <4>1, BatchIs DEF Shipping, CollectorNums
      <4>3. received'[l] > 0
        BY <1>0, <3>2, <4>1, <4>2, IngestedIs DEF CollectorNums
      <4> QED BY <4>3 DEF l
    <3>5. agent.gen = logfile.gen /\ agent.gen \notin spliced =>
            \A k \in 1 .. agent.to : received'[<<agent.gen, k>>] > 0
      BY <1>0, <3>2, <3>3, <3>4 DEF CollectorNums
    <3> QED BY <1>0, <2>2, <3>1, <3>2, <3>3, <3>5 DEF ClaimsTrue, Passing, Claims
  <2>7. CASE StartAgent \/ AnswerLost \/ ShipRefused \/ AgentDies
    <3>1. agent'.pc \in {"idle", "down"}
      BY <2>7, AgentSteps DEF Looks
    <3> QED BY <2>2, <3>1 DEF ClaimsTrue, Passing
  <2> QED BY <1>4, <2>3, <2>4, <2>5, <2>6, <2>7
<1>5. CASE SaveCheckpoint \/ SaveFails
  <2>1. /\ Claims(agent.gen, agent.to) /\ Claims(disk.gen, disk.off) /\ received' = received
    BY <1>5, AgentBefore, AgentEffects DEF ClaimsTrue
  <2>2. /\ mem'.gen = agent.gen /\ mem'.off = agent.to
        /\ disk' = mem' \/ disk' = disk
    BY <1>5, AgentEffects
  <2>3. \/ agent'.pc = "opened" /\ agent'.gen = agent.gen /\ agent'.off = agent.to
        \/ agent'.pc = "idle"
    BY <1>5, AgentSteps DEF Looks
  <2> QED BY <1>0, <2>1, <2>2, <2>3 DEF ClaimsTrue, Passing, Claims
<1> QED BY <1>4, <1>5 DEF Agent

-----------------------------------------------------------------------------
(* What the deliveries may cost *)

Budget == StaleLook /\ HeavyCovered /\ RepeatsArePaidFor

LEMMA BudgetInit == CollectorInit => Budget
<1> SUFFICES ASSUME CollectorInit PROVE Budget
  OBVIOUS
<1>1. agent.pc = "down" /\ agentFaults = 0 /\ logfile.gen = 0 /\ \A l \in Lines : received[l] = 0
  BY DEF CollectorInit
<1>2. Allowed = 1
  BY <1>1 DEF Allowed
<1> QED BY <1>1, <1>2 DEF Budget, StaleLook, Stale, HeavyCovered, Heavy, RepeatsArePaidFor

\* A replaced content allows every line one delivery more, and has received none.
LEMMA BudgetWriter ==
  ASSUME CollectorTypeOK, HalfFits, OffsetsReal, Budget, Writer
  PROVE  Budget'
<1>1. /\ CollectorNums /\ mem' = mem /\ disk' = disk /\ agent' = agent /\ received' = received
      /\ agentFaults' = agentFaults
  BY NumsHold, WriterSteps DEF Writer, Write
<1>2. \A l \in Lines : received[l] <= Allowed /\ received[l] \in Nat /\ l[1] \in Nat
  BY <1>1, CollectorRanges DEF Budget, RepeatsArePaidFor, Allowed, CollectorNums
<1>3. CASE logfile'.inode = logfile.inode /\ logfile'.gen = logfile.gen
  <2>1. Allowed' = Allowed /\ Stale' = Stale
    BY <1>1, <1>3 DEF Allowed, Stale
  <2>2. StaleLook'
    BY <1>1, <1>3, <2>1 DEF Budget, StaleLook
  <2>3. ASSUME NEW l \in Lines, Heavy(l)' PROVE BehindOffsets(l)'
    <3>1. BehindOffsets(l)
      BY <1>1, <2>1, <2>3 DEF Budget, HeavyCovered, Heavy
    <3>2. ASSUME l[1] # logfile.gen, l \in Batch' PROVE l \in Batch
      BY <1>1, <1>3, <3>2 DEF Batch
    <3> QED BY <1>1, <1>3, <3>1, <3>2 DEF BehindOffsets, Covers
  <2> QED BY <1>1, <1>2, <1>3, <2>1, <2>2, <2>3
          DEF Budget, HeavyCovered, RepeatsArePaidFor
<1>4. CASE logfile'.gen = logfile.gen + 1
  <2>1. Allowed \in Nat /\ Allowed >= 1 /\ Allowed' = Allowed + 1
    BY <1>1, <1>4 DEF Allowed, CollectorNums
  <2>2. \A l \in Lines : l[1] = logfile'.gen => received[l] = 0
    BY <1>1, <1>2, <1>4 DEF OffsetsReal, CollectorNums
  <2>3. StaleLook'
    BY <1>1, <2>1, <2>2 DEF StaleLook
  <2>4. \A l \in Lines : received'[l] < Allowed'
    BY <1>1, <1>2, <2>1
  <2>5. \A l \in Lines : ~Heavy(l)' /\ received'[l] <= Allowed'
    BY <1>1, <1>2, <2>1, <2>4 DEF Heavy
  <2> QED BY <2>3, <2>5 DEF Budget, HeavyCovered, RepeatsArePaidFor, Allowed
<1> QED BY <1>3, <1>4, WriterSteps DEF Writer

\* The batch holds no line that has used up what is allowed.
LEMMA BatchLight ==
  ASSUME CollectorTypeOK, OffsetsReal, Budget, agent.pc = "read", NEW l \in Lines, l \in Batch
  PROVE  received[l] + 1 <= Allowed
<1>1. CollectorNums /\ l[2] \in Nat
  BY NumsHold, CollectorRanges
<1>2. l[1] = agent.gen /\ agent.off < l[2]
  BY <1>1, BatchIs DEF Shipping
<1>3. ~BehindOffsets(l)
  BY <1>1, <1>2 DEF BehindOffsets, CollectorNums
<1>4. ~(received[l] >= Allowed)
  BY <1>3 DEF Budget, HeavyCovered, Heavy
<1> QED BY <1>1, <1>4 DEF Allowed, CollectorNums

LEMMA BudgetAgent ==
  ASSUME CollectorTypeOK, OffsetsReal, Budget, Agent \/ AgentDies
  PROVE  Budget'
<1>0. /\ CollectorNums /\ logfile' = logfile /\ Allowed \in Nat
      /\ \A l \in Lines : received[l] \in Nat /\ received[l] <= Allowed /\ l[2] \in Nat
  BY NumsHold, AgentEffects, CollectorRanges DEF Budget, RepeatsArePaidFor, Allowed, CollectorNums
<1>1. ASSUME Ingested, agent.pc = "read", NEW l \in Lines
      PROVE  received'[l] <= Allowed /\ received'[l] \in Nat /\ received'[l] <= received[l] + 1
  BY <1>0, <1>1, IngestedIs, BatchLight
<1>2. CASE AnswerLost \/ ShipRefused \/ SaveFails \/ AgentDies
  <2>1. Allowed' = Allowed + 1 /\ agent'.pc \in {"idle", "down"}
    BY <1>0, <1>2, AgentEffects, AgentSteps DEF Allowed, Looks, CollectorNums
  <2>2. \A l \in Lines : received'[l] <= Allowed /\ received'[l] \in Nat
    BY <1>0, <1>1, <1>2, AgentEffects, AgentBefore
  <2>3. \A l \in Lines : ~Heavy(l)' /\ received'[l] <= Allowed'
    BY <1>0, <2>1, <2>2 DEF Heavy
  <2> QED BY <2>1, <2>3 DEF Budget, StaleLook, Stale, HeavyCovered, RepeatsArePaidFor, Allowed
<1>3. CASE StartAgent \/ OpenPass \/ StatFile \/ ReadLines \/ ShipAccepted \/ SaveCheckpoint
  <2>0. Allowed' = Allowed
    BY <1>0, <1>3, AgentEffects DEF Allowed
  <2>1. RepeatsArePaidFor'
    <3>1. \A l \in Lines : received'[l] <= Allowed
      BY <1>0, <1>1, <1>3, AgentEffects, AgentBefore
    <3> QED BY <2>0, <3>1 DEF RepeatsArePaidFor, Allowed
  <2>2. ASSUME received' = received, \A l \in Lines : Heavy(l) /\ BehindOffsets(l) => BehindOffsets(l)'
        PROVE  HeavyCovered'
    BY <2>0, <2>2 DEF Budget, HeavyCovered, Heavy
  <2>3. CASE StartAgent
    <3>1. /\ agent'.pc = "idle" /\ agent.pc = "down" /\ mem' = disk /\ disk' = disk
          /\ received' = received
      BY <2>3, AgentSteps, AgentBefore, AgentEffects DEF Looks
    <3>2. \A l \in Lines : BehindOffsets(l) => BehindOffsets(l)'
      BY <1>0, <3>1 DEF BehindOffsets, Covers
    <3> QED BY <2>1, <2>2, <3>1, <3>2 DEF Budget, StaleLook, Stale
  <2>4. CASE OpenPass
    <3>1. /\ agent'.pc = "opened" /\ agent.pc = "idle" /\ mem' = mem /\ disk' = disk
          /\ received' = received
          /\ mem.inode = logfile.inode => agent'.gen = mem.gen /\ agent'.off = mem.off
      BY <2>4, AgentSteps, AgentBefore, AgentEffects DEF Looks
    <3>2. \A l \in Lines : BehindOffsets(l) => BehindOffsets(l)'
      BY <1>0, <3>1 DEF BehindOffsets, Covers
    <3> QED BY <2>1, <2>2, <3>1, <3>2 DEF Budget, StaleLook, Stale
  <2>5. CASE StatFile
    <3>1. /\ agent'.pc = "statted" /\ agent.pc = "opened" /\ mem' = mem /\ disk' = disk
          /\ received' = received /\ agent'.gen = agent.gen /\ agent'.inode = logfile.inode
          /\ agent'.off = agent.off \/ agent.off > logfile.len
      BY <2>5, AgentSteps, AgentBefore, AgentEffects DEF Looks
    <3>2. agent.gen = logfile.gen => agent'.off = agent.off
      BY <1>0, <3>1 DEF OffsetsReal, Passing, Counts, CollectorNums
    <3>3. \A l \in Lines : BehindOffsets(l) => BehindOffsets(l)'
      BY <1>0, <3>1, <3>2 DEF BehindOffsets, Covers
    <3> QED BY <1>0, <2>1, <2>2, <3>1, <3>3 DEF Budget, StaleLook, Stale
  <2>6. CASE ReadLines
    <3>1. /\ agent.pc = "statted" /\ mem' = mem /\ disk' = disk /\ received' = received
          /\ agent'.inode = agent.inode
          /\ \/ agent'.pc = "read" /\ agent'.gen = logfile.gen /\ agent'.off = agent.off
             \/ agent'.pc = "idle"
      BY <2>6, AgentSteps, AgentBefore, AgentEffects DEF Looks
    <3>2. ASSUME NEW l \in Lines, agent'.pc = "read", l \in Batch' PROVE l[1] = logfile.gen
      BY <3>1, <3>2 DEF Batch
    <3>3. \A l \in Lines : BehindOffsets(l) => BehindOffsets(l)'
      BY <1>0, <3>1, <3>2 DEF BehindOffsets, Covers
    <3>4. StaleLook'
      BY <1>0, <2>0, <3>1 DEF Budget, StaleLook, Stale
    <3> QED BY <2>1, <2>2, <3>1, <3>3, <3>4 DEF Budget
  <2>7. CASE ShipAccepted
    <3>1. /\ agent'.pc = "taken" /\ agent.pc = "read" /\ mem' = mem /\ disk' = disk
          /\ agent'.inode = agent.inode /\ agent'.gen = agent.gen /\ agent'.to = agent.to
          /\ Ingested
      BY <2>7, AgentSteps, AgentBefore, AgentEffects DEF Looks
    <3>2. agent.off < agent.to
      BY <3>1 DEF OffsetsReal, Shipping
    <3>3. \A l \in Lines : /\ received'[l] <= received[l] + 1 /\ received'[l] \in Nat
                           /\ l \notin Batch => received'[l] = received[l]
      BY <1>1, <3>1, IngestedIs
    <3>4. StaleLook'
      <4> SUFFICES ASSUME Stale', NEW l \in Lines, l[1] = logfile.gen
                   PROVE  received'[l] + 1 <= Allowed
        BY <1>0, <2>0, <3>1 DEF StaleLook
      <4>1. received[l] + 2 <= Allowed
        BY <1>0, <3>1 DEF Budget, StaleLook, Stale
      <4> QED BY <1>0, <3>3, <4>1
    <3>5. ASSUME NEW l \in Lines, Heavy(l)', l[1] = logfile.gen
          PROVE  agent.inode = logfile.inode /\ agent.gen = logfile.gen /\ l[2] <= agent.to
      <4>1. received'[l] >= Allowed
        BY <2>0, <3>5 DEF Heavy
      <4>2. agent.inode = logfile.inode
        <5>1. Stale => received[l] + 2 <= Allowed
          BY <3>1, <3>5 DEF Budget, StaleLook
        <5>2. ~Stale
          BY <1>0, <3>3, <4>1, <5>1
        <5> QED BY <3>1, <5>2 DEF Stale
      <4>3. CASE l \in Batch
        BY <1>0, <3>1, <3>5, <4>2, <4>3, BatchIs DEF Shipping
      <4>4. CASE l \notin Batch
        <5>1. Heavy(l)
          BY <3>3, <4>1, <4>4 DEF Heavy
        <5>2. agent.gen = logfile.gen /\ l[2] <= agent.off
          BY <3>1, <3>5, <5>1 DEF Budget, HeavyCovered, BehindOffsets
        <5> QED BY <1>0, <3>2, <4>2, <5>2 DEF CollectorNums
      <4> QED BY <4>3, <4>4
    <3>6. HeavyCovered'
      BY <1>0, <3>1, <3>5 DEF HeavyCovered, BehindOffsets
    <3> QED BY <2>1, <3>4, <3>6 DEF Budget
  <2>8. CASE SaveCheckpoint
    <3>1. /\ agent.pc = "taken" /\ mem'.inode = agent.inode /\ mem'.gen = agent.gen
          /\ mem'.off = agent.to /\ disk' = mem' /\ received' = received
          /\ \/ agent'.pc = "opened" /\ agent'.gen = agent.gen /\ agent'.off = agent.to
             \/ agent'.pc = "idle"
      BY <2>8, AgentSteps, AgentBefore, AgentEffects DEF Looks
    <3>2. \A l \in Lines : BehindOffsets(l) => BehindOffsets(l)'
      BY <1>0, <3>1 DEF BehindOffsets, Covers
    <3> QED BY <2>1, <2>2, <3>1, <3>2 DEF Budget, StaleLook, Stale
  <2> QED BY <1>3, <2>3, <2>4, <2>5, <2>6, <2>7, <2>8
<1> QED BY <1>2, <1>3 DEF Agent

-----------------------------------------------------------------------------
(* The invariant and what follows from it *)

\* run_pass, Checkpoint and Shipper: the inductive invariant.  Offsets count lines that
\* exist, what they claim was received was received, an offset of another content that
\* could be used on this one is known, and no line is shipped beyond its account.
THEOREM CollectorInvariant == CollectorSpec => []CollectorIInv
<1> DEFINE I == OffsetsReal /\ ClaimsTrue /\ SpliceSeen /\ Budget
<1>1. CollectorInit => I
  <2>1. CollectorInit => SpliceSeen
    BY DEF CollectorInit, SpliceSeen, MisleadingAt, Hidden, Shipping
  <2> QED BY <2>1, OffsetsInit, ClaimsInit, BudgetInit
<1>2. CollectorTypeOK /\ HalfFits /\ I /\ [CollectorNext]_collectorVars => I'
  <2> SUFFICES ASSUME CollectorTypeOK, HalfFits, I, [CollectorNext]_collectorVars PROVE I'
    OBVIOUS
  <2>1. CASE Writer
    BY <2>1, OffsetsWriter, ClaimsWriter, SpliceWriter, BudgetWriter
  <2>2. CASE Agent \/ AgentDies
    BY <2>2, OffsetsAgent, ClaimsAgent, SpliceAgent, BudgetAgent
  <2>3. CASE UNCHANGED collectorVars
    <3> USE <2>3 DEF collectorVars
    <3>1. OffsetsReal'
      BY DEF OffsetsReal, Counts, Passing, Shipping
    <3>2. ClaimsTrue'
      BY DEF ClaimsTrue, Claims, Passing
    <3>3. SpliceSeen'
      BY DEF SpliceSeen, MisleadingAt, Hidden, Shipping, GoesOn
    <3>4. Allowed' = Allowed /\ Stale' = Stale /\ Batch' = Batch
      BY DEF Allowed, Stale, Batch
    <3>5. Budget'
      BY <3>4 DEF Budget, StaleLook, HeavyCovered, Heavy, BehindOffsets, Covers, RepeatsArePaidFor
    <3> QED BY <3>1, <3>2, <3>3, <3>5
  <2> QED BY <2>1, <2>2, <2>3 DEF CollectorNext, Writer
<1>3. I => CollectorIInv
  BY SpliceIs DEF CollectorIInv, Budget
<1> QED BY <1>1, <1>2, <1>3, CollectorTypes, PTL DEF CollectorSpec

\* "Advance only after a successful ship": through crashes, refusals, lost answers, failed
\* saves and a file replaced at any point of a pass, neither offset is past a line the
\* server has not received, unless the content is known to be spliced.
THEOREM NoLineSkippedTheorem == CollectorSpec => []NoLineSkipped
<1>1. ASSUME CollectorTypeOK, CollectorIInv PROVE NoLineSkipped
  <2> SUFFICES ASSUME NEW c \in {mem, disk}, c.inode = logfile.inode, c.off <= logfile.len,
                      logfile.gen \notin spliced, NEW k \in 1 .. c.off
               PROVE  received[<<logfile.gen, k>>] > 0
    BY DEF NoLineSkipped
  <2>1. ~Misleading(logfile) /\ CollectorNums /\ Claims(c.gen, c.off)
    BY <1>1, NumsHold DEF CollectorIInv, SpliceKnown, ClaimsTrue
  <2>2. c.off \in Nat /\ k \in Nat /\ k <= c.off /\ 1 <= k
    BY <2>1 DEF CollectorNums
  <2>3. c.gen = logfile.gen
    BY <2>1, <2>2 DEF Misleading
  <2> QED BY <2>1, <2>3 DEF Claims
<1> QED BY <1>1, CollectorTypes, CollectorInvariant, PTL

\* At least once and no oftener than something went wrong: no line is received more often
\* than once, once per crash, refusal, lost answer or failed save, and once per content
\* that was replaced.
THEOREM RepeatsArePaidForTheorem == CollectorSpec => []RepeatsArePaidFor
<1>1. CollectorIInv => RepeatsArePaidFor
  BY DEF CollectorIInv
<1> QED BY <1>1, CollectorInvariant, PTL

-----------------------------------------------------------------------------
(* The collector is an Intake *)

\* The counts of a step that takes nothing in.
LEMMA NoneTaken ==
  ASSUME NEW S, NEW f \in [S -> Nat]
  PROVE  \E B \in SUBSET S : f = [x \in S |-> IF x \in B THEN f[x] + 1 ELSE f[x]]
<1>1. PICK B \in SUBSET S : B = {}
  OBVIOUS
<1> DEFINE g == [x \in S |-> IF x \in B THEN f[x] + 1 ELSE f[x]]
<1>2. \A x \in S : g[x] = f[x]
  BY <1>1
<1>3. DOMAIN g = S /\ g = [x \in S |-> g[x]]
  OBVIOUS
<1>4. f = g
  <2> HIDE DEF g
  <2> QED BY <1>2, <1>3
<1> QED BY <1>4

\* Every step of the file's writer or of the agent is one of an Intake.
LEMMA CollectorIntakeStep ==
  /\ CollectorTypeOK /\ CollectorTypeOK' /\ NoLineSkipped' /\ RepeatsArePaidFor'
  /\ [CollectorNext]_collectorVars
  => FromAgent!Next
<1> SUFFICES ASSUME CollectorTypeOK, CollectorTypeOK', NoLineSkipped', RepeatsArePaidFor',
                    [CollectorNext]_collectorVars
             PROVE  FromAgent!Next
  OBVIOUS
<1> DEFINE mishaps == agentFaults + logfile.gen
<1>0. /\ agentFaults \in Nat /\ logfile.gen \in Nat
      /\ agentFaults' \in Nat /\ logfile'.gen \in Nat
      /\ received \in [Lines -> Nat] /\ received' \in [Lines -> Nat]
  BY CollectorAssumption DEF CollectorTypeOK, Gens
<1>1. \/ Agent \/ AgentDies
      \/ Writer
      \/ UNCHANGED collectorVars
  BY DEF CollectorNext, Writer
<1>2. mishaps' \in {mishaps, mishaps + 1} /\ spliced \subseteq spliced'
  <2>1. CASE Agent \/ AgentDies
    <3>1. logfile' = logfile /\ spliced' = spliced
      BY <2>1, AgentEffects
    <3>2. agentFaults' \in {agentFaults, agentFaults + 1}
      BY <2>1, AgentEffects DEF Agent
    <3> QED BY <1>0, <3>1, <3>2
  <2>2. CASE Writer
    <3>1. agentFaults' = agentFaults /\ spliced \subseteq spliced'
      BY <2>2 DEF Writer, BeginLine, EndLine, Truncate, Rotate, Write
    <3>2. logfile'.gen \in {logfile.gen, logfile.gen + 1}
      <4>1. logfile \in [inode : Inodes, gen : Gens, len : 0 .. MaxLen, half : BOOLEAN]
        BY DEF CollectorTypeOK
      <4>2. CASE BeginLine \/ EndLine
        BY <4>1, <4>2 DEF BeginLine, EndLine, Write
      <4>3. CASE Truncate
        BY <4>1, <4>3 DEF Truncate, Write
      <4>4. ASSUME NEW i \in Inodes, Rotate(i)
            PROVE  logfile'.gen \in {logfile.gen, logfile.gen + 1}
        BY <4>4 DEF Rotate, Write
      <4> QED BY <2>2, <4>2, <4>3, <4>4 DEF Writer
    <3> QED BY <1>0, <3>1, <3>2
  <2>3. CASE UNCHANGED collectorVars
    BY <1>0, <2>3 DEF collectorVars
  <2> QED BY <1>1, <2>1, <2>2, <2>3
<1>3. \E B \in SUBSET Lines :
        received' = [l \in Lines |-> IF l \in B THEN received[l] + 1 ELSE received[l]]
  <2>1. CASE received' = received
    BY <1>0, <2>1, NoneTaken
  <2>2. CASE Ingested
    <3>1. received' = [l \in Lines |-> IF l \in Batch \cap Lines THEN received[l] + 1
                                                              ELSE received[l]]
      BY <2>2 DEF Ingested
    <3> QED BY <3>1
  <2>3. received' = received \/ Ingested
    <3>1. CASE Agent \/ AgentDies
      BY <3>1, AgentEffects DEF Agent
    <3>2. CASE Writer
      BY <3>2 DEF Writer, BeginLine, EndLine, Truncate, Rotate, Write
    <3> QED BY <1>1, <3>1, <3>2 DEF collectorVars
  <2> QED BY <2>1, <2>2, <2>3
<1>4. \E B \in SUBSET Lines : FromAgent!TakeIn(B)
  <2>1. PICK B \in SUBSET Lines :
          received' = [l \in Lines |-> IF l \in B THEN received[l] + 1 ELSE received[l]]
    BY <1>3
  <2>2. ASSUME NEW l \in B PROVE received[l] <= mishaps'
    <3>1. received'[l] = received[l] + 1 /\ received[l] \in Nat
      BY <1>0, <2>1
    <3>2. received'[l] <= 1 + agentFaults' + logfile'.gen
      BY DEF RepeatsArePaidFor
    <3> QED BY <1>0, <3>1, <3>2
  <2> QED BY <2>1, <2>2 DEF FromAgent!TakeIn
<1>5. FromAgent!Record
  <2>1. \A l \in Shipped' : l[1] \notin spliced' => received'[l] > 0
    <3> SUFFICES ASSUME NEW l \in Lines, l[1] = logfile'.gen,
                        NEW c \in {mem', disk'}, c.inode = logfile'.inode,
                        c.off <= logfile'.len, l[2] <= c.off, l[1] \notin spliced'
                 PROVE  received'[l] > 0
      BY DEF Shipped
    <3>1. l = <<logfile'.gen, l[2]>> /\ l[2] \in 1 .. MaxLen
      BY DEF Lines
    <3>2. c.off \in 0 .. MaxLen
      BY DEF CollectorTypeOK, Offset
    <3>3. l[2] \in 1 .. c.off
      BY <3>1, <3>2, CollectorAssumption
    <3> QED BY <3>1, <3>3 DEF NoLineSkipped
  <2>2. Shipped' \in SUBSET Lines
    BY DEF Shipped
  <2> QED BY <1>2, <2>1, <2>2 DEF FromAgent!Record
<1> QED BY <1>2, <1>4, <1>5 DEF FromAgent!Next, FromAgent!Account

\* The agent neither leaves out a line that its checkpoint goes past nor ships one again
\* without a cause, at every single step: it implements the Intake.
THEOREM CollectorIsIntake == CollectorSpec => CollectorTakesIn
<1>1. CollectorInit => FromAgent!Init
  BY CollectorAssumption DEF CollectorInit, FromAgent!Init, Shipped, Lines
<1> QED BY <1>1, CollectorTypes, NoLineSkippedTheorem, RepeatsArePaidForTheorem,
           CollectorIntakeStep, PTL
        DEF CollectorSpec, CollectorTakesIn, FromAgent!Spec
-----------------------------------------------------------------------------
(***************************************************************************)
(* S3Pull. The cursor is one of several numbers that claim "all before me  *)
(* is ingested": a pass carries two more, the key it ended at (`last`)     *)
(* and, for the keys it still has to fetch, everything before them that is *)
(* not itself still to be fetched. Whatever replica stores its `last` over *)
(* whatever cursor, the claim it stores is true.                           *)
(***************************************************************************)

\* A number a claim may be about: 0, or an object.  An object put at such a number would
\* be behind the claim without anybody noticing.
Marks == bucket \cup {0}

\* The local variables of a pass.
PullState == [pc    : {"resting", "ticking", "listing", "pulling", "saving"},
              start : 0 .. MaxKey,
              todo  : SUBSET Keys,
              last  : 0 .. MaxKey]

MarksExist ==
  /\ s3cursor \in Marks
  /\ \A r \in Pullers : /\ puller[r].todo \subseteq bucket
                        /\ puller[r].last \in Marks

\* A pass that has not listed yet stands where it read the cursor.
StandsAtStart == \A r \in Pullers : puller[r].pc = "listing" => puller[r].last = puller[r].start

Awaited == bucket \ late

\* Everything before the key a pass ended at is ingested; everything before a key it has
\* still to fetch is ingested or to be fetched.
PassesTrue ==
  \A r \in Pullers, k \in Awaited :
    /\ k <= puller[r].last => pulled[k] > 0
    /\ \A j \in puller[r].todo : k < j => pulled[k] > 0 \/ k \in puller[r].todo

S3IInv == MarksExist /\ StandsAtStart /\ PassesTrue /\ NothingOvertaken

-----------------------------------------------------------------------------
(* Types *)

LEMMA KeyRanges == Keys \subseteq 0 .. MaxKey /\ 0 \in 0 .. MaxKey /\ Keys \subseteq Nat \ {0}
                   /\ Resting \in PullState
  BY S3Assumption DEF Keys, Resting, PullState

\* A step of one pass changes its local variables only.
LEMMA PollStepTypes ==
  ASSUME puller \in [Pullers -> PullState], NEW r \in Pullers, NEW x \in PullState,
         puller' = [puller EXCEPT ![r] = x]
  PROVE  /\ puller' \in [Pullers -> PullState]
         /\ puller'[r] = x
         /\ \A s \in Pullers \ {r} : puller'[s] = puller[s]
  OBVIOUS

LEMMA S3TypeInit == S3Init => S3TypeOK
  BY KeyRanges DEF S3Init, S3TypeOK, PullState

\* What each step of a pass makes of its local variables.
PollBecame(r, x) == puller' = [puller EXCEPT ![r] = x]

\* The pass of r is over and its cursor is to be stored if it has moved.
Ended(r, x) ==
  /\ x.pc = IF puller[r].last # puller[r].start THEN "saving" ELSE "resting"
  /\ x.last = puller[r].last /\ x.start = puller[r].start /\ x.todo = {}

LEMMA PollSteps ==
  ASSUME S3TypeOK, NEW r \in Pullers
  PROVE  /\ BeginTick(r) => \E x \in PullState : PollBecame(r, x) /\ x = [Resting EXCEPT !.pc = "ticking"]
         /\ ReadPullCursor(r) =>
              \E x \in PullState : PollBecame(r, x) /\ x = [pc |-> "listing", start |-> s3cursor,
                                                            todo |-> {}, last |-> s3cursor]
         /\ ListObjects(r) =>
              \E x \in PullState : PollBecame(r, x) /\ x.pc = "pulling" /\ x.last = puller[r].last
                                                    /\ x.todo = NextObjects(puller[r].start)
                                                    /\ x.start = puller[r].start
         /\ \A k \in Keys : PullObject(r, k) =>
              \E x \in PullState : PollBecame(r, x) /\ x.pc = "pulling" /\ x.last = k
                                                    /\ x.todo = puller[r].todo \ {k} /\ x.start = puller[r].start
         /\ (EndOfList(r) \/ \E k \in Keys : ObjectFails(r, k)) =>
              \E x \in PullState : PollBecame(r, x) /\ Ended(r, x)
         /\ SavePullCursor(r) \/ PollAborted(r) => PollBecame(r, Resting)
<1>0. puller[r] \in PullState /\ s3cursor \in 0 .. MaxKey /\ bucket \in SUBSET Keys
  BY DEF S3TypeOK, PullState
<1>1. ASSUME BeginTick(r)
      PROVE  \E x \in PullState : PollBecame(r, x) /\ x = [Resting EXCEPT !.pc = "ticking"]
  BY <1>1, KeyRanges DEF BeginTick, PollBecame, Resting, PullState
<1>2. ASSUME ReadPullCursor(r)
      PROVE  \E x \in PullState : PollBecame(r, x) /\ x = [pc |-> "listing", start |-> s3cursor,
                                                           todo |-> {}, last |-> s3cursor]
  BY <1>0, <1>2 DEF ReadPullCursor, PollBecame, PullState
<1>3. ASSUME ListObjects(r)
      PROVE  \E x \in PullState : PollBecame(r, x) /\ x.pc = "pulling" /\ x.last = puller[r].last
                              /\ x.todo = NextObjects(puller[r].start)
                              /\ x.start = puller[r].start
  <2> DEFINE N == NextObjects(puller[r].start)
             x == [puller[r] EXCEPT !.pc = "pulling", !.todo = N]
  <2>1. N \in SUBSET Keys
    BY <1>0 DEF NextObjects
  <2>2. PollBecame(r, x)
    BY <1>3 DEF ListObjects, PollBecame
  <2> HIDE DEF N
  <2>3. x \in PullState /\ x.pc = "pulling" /\ x.last = puller[r].last /\ x.todo = N
        /\ x.start = puller[r].start
    BY <1>0, <2>1 DEF PullState
  <2> QED BY <2>2, <2>3 DEF N
<1>4. ASSUME NEW k \in Keys, PullObject(r, k)
      PROVE  \E x \in PullState : PollBecame(r, x) /\ x.pc = "pulling" /\ x.last = k
                              /\ x.todo = puller[r].todo \ {k} /\ x.start = puller[r].start
  <2> DEFINE x == [puller[r] EXCEPT !.todo = @ \ {k}, !.last = k]
  <2>1. puller[r].pc = "pulling" /\ PollBecame(r, x)
    BY <1>4 DEF PullObject, PollBecame
  <2>2. x \in PullState /\ x.pc = puller[r].pc /\ x.last = k /\ x.todo = puller[r].todo \ {k}
        /\ x.start = puller[r].start
    BY <1>0, KeyRanges DEF PullState
  <2> HIDE DEF x
  <2> QED BY <2>1, <2>2
<1>5. ASSUME EndOfList(r) \/ \E k \in Keys : ObjectFails(r, k)
      PROVE  \E x \in PullState : PollBecame(r, x) /\ Ended(r, x)
  <2>1. PollBecame(r, Stop(r))
    BY <1>5 DEF EndOfList, ObjectFails, PollBecame
  <2>2. Stop(r) \in PullState /\ Ended(r, Stop(r))
    BY <1>0 DEF Stop, PullState, Ended
  <2> QED BY <2>1, <2>2
<1>6. SavePullCursor(r) \/ PollAborted(r) => PollBecame(r, Resting)
  BY DEF SavePullCursor, PollAborted, PollBecame
<1> QED BY <1>1, <1>2, <1>3, <1>4, <1>5, <1>6

LEMMA S3TypeStep == S3TypeOK /\ [S3Next]_s3Vars => S3TypeOK'
<1> SUFFICES ASSUME S3TypeOK, [S3Next]_s3Vars PROVE S3TypeOK'
  OBVIOUS
<1>0. puller \in [Pullers -> PullState]
  BY DEF S3TypeOK, PullState
<1>1. ASSUME NEW k \in Keys, NEW bad \in BOOLEAN, Put(k, bad) PROVE S3TypeOK'
  BY <1>1 DEF Put, S3TypeOK
<1>2. ASSUME NEW r \in Pullers, Takeover(r) PROVE S3TypeOK'
  BY <1>2 DEF Takeover, S3TypeOK
<1>3. ASSUME NEW r \in Pullers, Poll(r) \/ PollAborted(r) PROVE puller' \in [Pullers -> PullState]
  <2>1. \E x \in PullState : PollBecame(r, x)
    BY <1>3, PollSteps, KeyRanges DEF Poll
  <2> QED BY <1>0, <2>1, PollStepTypes DEF PollBecame
<1>4. ASSUME NEW r \in Pullers, Poll(r) \/ PollAborted(r) PROVE S3TypeOK'
  <2>0. puller' \in [Pullers -> PullState]
    BY <1>3, <1>4
  <2>1. CASE BeginTick(r) \/ ReadPullCursor(r) \/ ListObjects(r) \/ EndOfList(r)
    BY <2>0, <2>1 DEF BeginTick, ReadPullCursor, ListObjects, EndOfList, S3TypeOK, PullState
  <2>2. ASSUME NEW k \in Keys, PullObject(r, k) PROVE S3TypeOK'
    <3>1. pulled' \in [Keys -> Nat]
      BY <2>2 DEF PullObject, S3TypeOK
    <3> QED BY <2>0, <2>2, <3>1 DEF PullObject, S3TypeOK, PullState
  <2>3. ASSUME NEW k \in Keys, ObjectFails(r, k) PROVE S3TypeOK'
    BY <2>0, <2>3 DEF ObjectFails, PullFault, S3TypeOK, PullState
  <2>4. CASE SavePullCursor(r)
    <3>1. s3cursor' \in 0 .. MaxKey
      BY <2>4 DEF SavePullCursor, S3TypeOK
    <3> QED BY <2>0, <2>4, <3>1 DEF SavePullCursor, S3TypeOK, PullState
  <2>5. CASE PollAborted(r)
    BY <2>0, <2>5 DEF PollAborted, PullFault, S3TypeOK, PullState
  <2> QED BY <1>4, <2>1, <2>2, <2>3, <2>4, <2>5 DEF Poll
<1>5. CASE UNCHANGED s3Vars
  BY <1>5 DEF s3Vars, S3TypeOK
<1> QED BY <1>1, <1>2, <1>4, <1>5 DEF S3Next

\* Type correctness of the state of the pull.
THEOREM S3Types == S3Spec => []S3TypeOK
<1> QED BY S3TypeInit, S3TypeStep, PTL DEF S3Spec

-----------------------------------------------------------------------------
(* NothingOvertaken *)

LEMMA MarkInit == S3Init => S3IInv
<1> SUFFICES ASSUME S3Init PROVE S3IInv
  OBVIOUS
<1>1. \A r \in Pullers : puller[r] = Resting
  BY DEF S3Init
<1>2. MarksExist
  BY <1>1 DEF S3Init, MarksExist, Marks, Resting
<1>3. StandsAtStart
  BY <1>1 DEF StandsAtStart, Resting
<1>4. \A k : k \notin Awaited
  BY DEF S3Init, Awaited
<1>5. PassesTrue
  BY <1>4 DEF PassesTrue
<1>6. NothingOvertaken
  BY DEF S3Init, NothingOvertaken
<1> QED BY <1>2, <1>3, <1>5, <1>6 DEF S3IInv

\* A listing is a prefix of what comes after the cursor.
LEMMA ListingIsPrefix ==
  ASSUME S3TypeOK, NEW after \in 0 .. MaxKey, NEW j \in NextObjects(after),
         NEW k \in bucket, after < k, k < j
  PROVE  k \in NextObjects(after)
<1> DEFINE A == {i \in bucket : after < i /\ i <= j}
           B == {i \in bucket : after < i /\ i <= k}
<1>1. bucket \in SUBSET Keys /\ IsFiniteSet(Keys)
  BY S3Assumption, FS_Interval DEF S3TypeOK, Keys
<1>2. k \in Nat /\ j \in Nat /\ \A i \in bucket : i \in Nat
  BY <1>1, KeyRanges DEF NextObjects
<1>3. A \in SUBSET Keys /\ B \in SUBSET A
  <2>1. \A i \in bucket : i <= k => i <= j
    BY <1>2
  <2>2. A \in SUBSET Keys
    BY <1>1
  <2>3. B \in SUBSET A
    BY <2>1
  <2> QED BY <2>2, <2>3
<1>4. Cardinality(A) <= MaxObjects
  BY DEF NextObjects
<1>5. Cardinality(B) <= MaxObjects => k \in NextObjects(after)
  BY DEF NextObjects
<1> HIDE DEF A, B
<1>6. IsFiniteSet(A)
  BY <1>1, <1>3, FS_Subset
<1>7. Cardinality(B) <= Cardinality(A) /\ IsFiniteSet(B)
  BY <1>3, <1>6, FS_Subset
<1>8. Cardinality(A) \in Nat /\ Cardinality(B) \in Nat
  BY <1>6, <1>7, FS_CardinalityType
<1> QED BY <1>4, <1>5, <1>7, <1>8, S3Assumption

\* A pass takes a step that leaves the objects and the cursor alone: what it claims
\* afterwards has to be true.
LEMMA OnePoll ==
  ASSUME S3TypeOK, S3IInv, NEW r \in Pullers, NEW x \in PullState, PollBecame(r, x),
         UNCHANGED <<bucket, late, s3cursor>>,
         \A k \in Awaited : pulled[k] > 0 => pulled'[k] > 0,
         x.todo \subseteq bucket, x.last \in Marks,
         x.pc = "listing" => x.last = x.start,
         \A k \in Awaited : /\ k <= x.last => pulled'[k] > 0
                            /\ \A j \in x.todo : k < j => pulled'[k] > 0 \/ k \in x.todo
  PROVE  S3IInv'
<1>1. puller'[r] = x /\ \A s \in Pullers \ {r} : puller'[s] = puller[s]
  BY PollStepTypes DEF PollBecame, S3TypeOK, PullState
<1>2. Awaited' = Awaited /\ Marks' = Marks
  BY DEF Awaited, Marks
<1>3. MarksExist'
  BY <1>1, <1>2 DEF S3IInv, MarksExist
<1>4. StandsAtStart'
  BY <1>1 DEF S3IInv, StandsAtStart
<1>5. PassesTrue'
  <2> SUFFICES ASSUME NEW s \in Pullers, NEW k \in Awaited
               PROVE  /\ k <= puller'[s].last => pulled'[k] > 0
                      /\ \A j \in puller'[s].todo :
                           k < j => pulled'[k] > 0 \/ k \in puller'[s].todo
    BY <1>2 DEF PassesTrue
  <2>1. CASE s = r
    BY <1>1, <2>1
  <2>2. CASE s # r
    BY <1>1, <2>2 DEF S3IInv, PassesTrue
  <2> QED BY <2>1, <2>2
<1>6. NothingOvertaken'
  BY <1>2 DEF S3IInv, NothingOvertaken, Awaited
<1> QED BY <1>3, <1>4, <1>5, <1>6 DEF S3IInv

LEMMA PutStep ==
  ASSUME S3TypeOK, S3IInv, NEW k \in Keys, NEW bad \in BOOLEAN, Put(k, bad)
  PROVE  S3IInv'
<1>1. k \notin bucket /\ bucket' = bucket \cup {k} /\ late \subseteq late'
      /\ (Beyond(k) => k \in late') /\ UNCHANGED <<s3cursor, puller, pulled>>
  BY DEF Put
<1>2. k \in Nat \ {0} /\ s3cursor \in Nat
  BY KeyRanges, S3Assumption DEF S3TypeOK
<1>3. \A n \in Awaited' : n \in Awaited \/ (n = k /\ ~Beyond(k))
  BY <1>1 DEF Awaited
<1>4. \A m \in Marks : m \in Nat /\ m # k
  BY <1>1, <1>2, KeyRanges DEF Marks, S3TypeOK
<1>5. \A m \in Marks : k <= m => k < m
  BY <1>2, <1>4
<1>6. Marks \subseteq Marks'
  BY <1>1 DEF Marks
<1>7. MarksExist' /\ StandsAtStart'
  BY <1>1, <1>6 DEF S3IInv, MarksExist, StandsAtStart
<1>8. PassesTrue'
  <2> SUFFICES ASSUME NEW r \in Pullers, NEW n \in Awaited'
               PROVE  /\ n <= puller[r].last => pulled[n] > 0
                      /\ \A j \in puller[r].todo :
                           n < j => pulled[n] > 0 \/ n \in puller[r].todo
    BY <1>1 DEF PassesTrue
  <2>1. CASE n \in Awaited
    BY <2>1 DEF S3IInv, PassesTrue
  <2>2. CASE n = k /\ ~Beyond(k)
    <3>1. puller[r].last \in Marks
      BY DEF S3IInv, MarksExist
    <3>2. ~(k <= puller[r].last)
      BY <1>5, <2>2, <3>1 DEF Beyond
    <3>3. \A j \in puller[r].todo : ~(k < j)
      BY <2>2 DEF Beyond
    <3> QED BY <2>2, <3>2, <3>3
  <2> QED BY <1>3, <2>1, <2>2
<1>9. NothingOvertaken'
  <2> SUFFICES ASSUME NEW n \in Awaited', n <= s3cursor PROVE pulled[n] > 0
    BY <1>1 DEF NothingOvertaken, Awaited
  <2>1. CASE n \in Awaited
    BY <2>1 DEF S3IInv, NothingOvertaken, Awaited
  <2>2. CASE n = k /\ ~Beyond(k)
    BY <1>5, <2>2 DEF Beyond, S3IInv, MarksExist
  <2> QED BY <1>3, <2>1, <2>2
<1> QED BY <1>7, <1>8, <1>9 DEF S3IInv

LEMMA PollStep ==
  ASSUME S3TypeOK, S3IInv, NEW r \in Pullers, Poll(r) \/ PollAborted(r)
  PROVE  S3IInv'
<1>a. /\ puller[r] \in PullState /\ s3cursor \in Nat
      /\ \A k \in Awaited : k \in Nat \ {0} /\ pulled[k] \in Nat
  BY KeyRanges, S3Assumption DEF S3TypeOK, PullState, Awaited
<1>b. /\ puller[r].todo \subseteq bucket /\ puller[r].last \in Marks /\ s3cursor \in Marks
      /\ 0 \in Marks
  BY DEF S3IInv, MarksExist, Marks
<1>c. \A k \in Awaited : /\ ~(k <= 0)
                         /\ k <= s3cursor => pulled[k] > 0
                         /\ k <= puller[r].last => pulled[k] > 0
                         /\ \A j \in puller[r].todo : k < j => pulled[k] > 0 \/ k \in puller[r].todo
  BY <1>a DEF S3IInv, PassesTrue, NothingOvertaken, Awaited
<1>1. CASE BeginTick(r)
  <2>1. PICK x \in PullState : PollBecame(r, x) /\ x = [Resting EXCEPT !.pc = "ticking"]
    BY <1>1, PollSteps
  <2>2. x.todo = {} /\ x.last = 0 /\ x.pc = "ticking"
    BY <2>1 DEF Resting
  <2>3. UNCHANGED <<bucket, late, s3cursor, pulled>>
    BY <1>1 DEF BeginTick
  <2>4. PollBecame(r, x)
    BY <2>1
  <2> QED BY <1>b, <1>c, <2>2, <2>3, <2>4, OnePoll
<1>2. CASE ReadPullCursor(r)
  <2>1. PICK x \in PullState : PollBecame(r, x) /\ x = [pc |-> "listing", start |-> s3cursor,
                                                        todo |-> {}, last |-> s3cursor]
    BY <1>2, PollSteps
  <2>2. x.todo = {} /\ x.last = s3cursor /\ x.start = s3cursor
    BY <2>1
  <2>3. UNCHANGED <<bucket, late, s3cursor, pulled>>
    BY <1>2 DEF ReadPullCursor
  <2>4. PollBecame(r, x)
    BY <2>1
  <2> QED BY <1>b, <1>c, <2>2, <2>3, <2>4, OnePoll
<1>3. CASE ListObjects(r)
  <2>1. PICK x \in PullState : PollBecame(r, x) /\ x.pc = "pulling" /\ x.last = puller[r].last
                                                /\ x.todo = NextObjects(puller[r].start)
    BY <1>3, PollSteps
  <2>2. puller[r].last = puller[r].start
    BY <1>3 DEF ListObjects, S3IInv, StandsAtStart
  <2>3. UNCHANGED <<bucket, late, s3cursor, pulled>>
    BY <1>3 DEF ListObjects
  <2>4. x.todo \subseteq bucket
    BY <2>1 DEF NextObjects
  <2>5. ASSUME NEW k \in Awaited, NEW j \in x.todo, k < j PROVE pulled[k] > 0 \/ k \in x.todo
    <3>1. puller[r].start \in 0 .. MaxKey
      BY <1>a DEF PullState
    <3>2. puller[r].start \in Nat /\ k \in bucket
      BY <3>1, S3Assumption DEF Awaited
    <3>3. CASE k <= puller[r].start
      BY <1>c, <2>2, <3>3
    <3>4. CASE puller[r].start < k
      BY <2>1, <2>5, <3>1, <3>2, <3>4, ListingIsPrefix
    <3> QED BY <1>a, <3>2, <3>3, <3>4
  <2>6. PollBecame(r, x)
    BY <2>1
  <2> QED BY <1>b, <1>c, <2>1, <2>3, <2>4, <2>5, <2>6, OnePoll
<1>4. ASSUME NEW i \in Keys, PullObject(r, i) PROVE S3IInv'
  <2>1. PICK x \in PullState : PollBecame(r, x) /\ x.pc = "pulling" /\ x.last = i
                                                /\ x.todo = puller[r].todo \ {i}
    BY <1>4, PollSteps
  <2>2. UNCHANGED <<bucket, late, s3cursor>> /\ pulled' = [pulled EXCEPT ![i] = @ + 1]
    BY <1>4 DEF PullObject
  <2>3. i \in puller[r].todo /\ \A j \in puller[r].todo : i <= j
    BY <1>4 DEF PullObject, IsFirst
  <2>4. \A k \in Awaited : /\ pulled[k] > 0 => pulled'[k] > 0
                           /\ k = i => pulled'[k] > 0
    <3> SUFFICES ASSUME NEW k \in Awaited
                 PROVE  (pulled[k] > 0 => pulled'[k] > 0) /\ (k = i => pulled'[k] > 0)
      OBVIOUS
    <3>1. k \in Keys /\ pulled[k] \in Nat
      BY DEF Awaited, S3TypeOK
    <3>2. pulled'[k] = IF k = i THEN pulled[k] + 1 ELSE pulled[k]
      BY <2>2, <3>1 DEF S3TypeOK
    <3> QED BY <3>1, <3>2
  <2>5. x.todo \subseteq bucket /\ x.last \in Marks
    BY <1>b, <2>1, <2>3 DEF Marks
  <2>6. ASSUME NEW k \in Awaited, k <= i PROVE pulled'[k] > 0
    <3>1. CASE k = i
      BY <2>4, <3>1
    <3>2. CASE k < i
      <4>1. k \notin puller[r].todo
        <5>1. i \in Int /\ k \in Int
          BY KeyRanges DEF Awaited, S3TypeOK
        <5>2. ~(i <= k)
          BY <3>2, <5>1
        <5> QED BY <2>3, <5>2
      <4> QED BY <1>c, <2>3, <2>4, <3>2, <4>1
    <3> QED BY <1>a, <2>6, <3>1, <3>2, KeyRanges
  <2>7. ASSUME NEW k \in Awaited, NEW j \in x.todo, k < j PROVE pulled'[k] > 0 \/ k \in x.todo
    <3>1. pulled[k] > 0 \/ k \in puller[r].todo
      BY <1>c, <2>1, <2>7
    <3> QED BY <2>1, <2>4, <3>1
  <2>8. PollBecame(r, x)
    BY <2>1
  <2> QED BY <2>1, <2>2, <2>4, <2>5, <2>6, <2>7, <2>8, OnePoll
<1>5. CASE EndOfList(r) \/ \E k \in Keys : ObjectFails(r, k)
  <2>1. PICK x \in PullState : PollBecame(r, x) /\ x.pc # "listing" /\ x.last = puller[r].last
                                                /\ x.todo = {}
    BY <1>5, PollSteps DEF Ended
  <2>2. UNCHANGED <<bucket, late, s3cursor, pulled>>
    BY <1>5 DEF EndOfList, ObjectFails
  <2>3. PollBecame(r, x)
    BY <2>1
  <2> QED BY <1>b, <1>c, <2>1, <2>2, <2>3, OnePoll
<1>6. CASE SavePullCursor(r)
  <2>1. puller' = [puller EXCEPT ![r] = Resting] /\ s3cursor' = puller[r].last
        /\ UNCHANGED <<bucket, late, pulled>>
    BY <1>6 DEF SavePullCursor
  <2>2. puller'[r] = Resting /\ \A s \in Pullers \ {r} : puller'[s] = puller[s]
    BY <2>1 DEF S3TypeOK
  <2>3. Awaited' = Awaited /\ Marks' = Marks
    BY <2>1 DEF Awaited, Marks
  <2>4. MarksExist' /\ StandsAtStart'
    BY <1>b, <2>1, <2>2, <2>3 DEF S3IInv, MarksExist, StandsAtStart, Resting
  <2>5. PassesTrue'
    <3> SUFFICES ASSUME NEW s \in Pullers, NEW k \in Awaited
                 PROVE  /\ k <= puller'[s].last => pulled[k] > 0
                        /\ \A j \in puller'[s].todo :
                             k < j => pulled[k] > 0 \/ k \in puller'[s].todo
      BY <2>1, <2>3 DEF PassesTrue
    <3>1. CASE s = r
      BY <1>c, <2>2, <3>1 DEF Resting
    <3>2. CASE s # r
      BY <2>2, <3>2 DEF S3IInv, PassesTrue
    <3> QED BY <3>1, <3>2
  <2>6. NothingOvertaken'
    BY <1>c, <2>1, <2>3 DEF NothingOvertaken, Awaited
  <2> QED BY <2>4, <2>5, <2>6 DEF S3IInv
<1>7. CASE PollAborted(r)
  <2>1. PollBecame(r, Resting) /\ Resting.todo = {} /\ Resting.last = 0 /\ Resting.pc = "resting"
    BY <1>7, PollSteps DEF Resting
  <2>2. UNCHANGED <<bucket, late, s3cursor, pulled>>
    BY <1>7 DEF PollAborted
  <2> QED BY <1>b, <1>c, <2>1, <2>2, KeyRanges, OnePoll
<1> QED BY <1>1, <1>2, <1>3, <1>4, <1>5, <1>6, <1>7 DEF Poll

LEMMA MarkStep == S3TypeOK /\ S3IInv /\ [S3Next]_s3Vars => S3IInv'
<1> SUFFICES ASSUME S3TypeOK, S3IInv, [S3Next]_s3Vars PROVE S3IInv'
  OBVIOUS
<1>1. ASSUME NEW r \in Pullers, Takeover(r) PROVE S3IInv'
  <2>1. UNCHANGED <<bucket, late, s3cursor, puller, pulled>>
    BY <1>1 DEF Takeover
  <2> QED BY <2>1 DEF S3IInv, MarksExist, Marks, StandsAtStart, PassesTrue, Awaited, NothingOvertaken
<1>2. CASE UNCHANGED s3Vars
  BY <1>2 DEF s3Vars, S3IInv, MarksExist, Marks, StandsAtStart, PassesTrue, Awaited, NothingOvertaken
<1> QED BY <1>1, <1>2, PutStep, PollStep DEF S3Next

\* The stored cursor passes no object that has not been ingested, except one put too
\* late: for any number of replicas whose passes overlap, whichever of them stores its
\* cursor last, and wherever a pass is cut short.
THEOREM NothingOvertakenTheorem == S3Spec => []NothingOvertaken
<1>1. S3IInv => NothingOvertaken
  BY DEF S3IInv
<1> QED BY <1>1, MarkInit, MarkStep, S3Types, PTL DEF S3Spec

-----------------------------------------------------------------------------
(* RepeatsAreExplained *)

\* What a pass has still to fetch lies after what it fetched, and only a pass that has
\* moved stores a cursor.
InOrder ==
  \A r \in Pullers :
    /\ puller[r].start <= puller[r].last
    /\ \A j \in puller[r].todo : puller[r].last < j
    /\ puller[r].pc = "listing" => puller[r].last = puller[r].start
    /\ puller[r].pc = "saving" => puller[r].last # puller[r].start

\* Under way, and k is not behind it.
Coming(r, k) == puller[r].pc \in {"listing", "pulling", "saving"} /\ puller[r].last < k

\* Replica r may lead to one more fetch of object k: its pass is not past k yet (or
\* stores a cursor before k for the leader to start from), it is about to read a cursor
\* another replica may set back, or it leads and its next pass starts before k.
Owes(r, k) ==
  \/ Coming(r, k)
  \/ puller[r].pc = "ticking" /\ r # leads
  \/ /\ r = leads
     /\ s3cursor < k
     /\ puller[r].pc \in {"resting", "ticking"} \/ puller[r].last = puller[r].start

Fetchers(k) == {r \in Pullers : Owes(r, k)}

\* Each fetch of k, made or possible, is the first one or has its cause.
FetchPaid(k) == /\ IsFiniteSet(Fetchers(k))
                /\ pulled[k] + Cardinality(Fetchers(k)) <= 1 + aborted + takeovers

FetchesPaid == \A k \in Keys : FetchPaid(k)

LEMMA InOrderStep == S3TypeOK /\ InOrder /\ [S3Next]_s3Vars => InOrder'
<1> SUFFICES ASSUME S3TypeOK, InOrder, [S3Next]_s3Vars PROVE InOrder'
  OBVIOUS
<1>0. /\ puller \in [Pullers -> PullState] /\ s3cursor \in Nat /\ Resting \in PullState
      /\ \A r \in Pullers : /\ puller[r].last \in Nat /\ puller[r].start \in Nat
                            /\ \A j \in puller[r].todo : j \in Nat
  BY KeyRanges, S3Assumption DEF S3TypeOK, PullState
<1>1. CASE puller' = puller
  BY <1>1 DEF InOrder
<1>2. ASSUME NEW r \in Pullers, NEW x \in PullState, PollBecame(r, x),
             x.start <= x.last, \A j \in x.todo : x.last < j,
             x.pc = "listing" => x.last = x.start,
             x.pc = "saving" => x.last # x.start
      PROVE  InOrder'
  <2>1. puller'[r] = x /\ \A s \in Pullers \ {r} : puller'[s] = puller[s]
    BY <1>0, <1>2, PollStepTypes DEF PollBecame
  <2> QED BY <1>2, <2>1 DEF InOrder
<1>3. ASSUME NEW r \in Pullers, Poll(r) \/ PollAborted(r) PROVE InOrder'
  <2>1. CASE BeginTick(r)
    <3>1. PICK x \in PullState : PollBecame(r, x) /\ x = [Resting EXCEPT !.pc = "ticking"]
      BY <2>1, PollSteps
    <3>2. x.start = 0 /\ x.last = 0 /\ x.todo = {} /\ x.pc = "ticking" /\ PollBecame(r, x)
      BY <3>1 DEF Resting
    <3> QED BY <1>2, <3>2
  <2>2. CASE ReadPullCursor(r)
    <3>1. PICK x \in PullState : PollBecame(r, x) /\ x = [pc |-> "listing", start |-> s3cursor,
                                                          todo |-> {}, last |-> s3cursor]
      BY <2>2, PollSteps
    <3>2. x.start = s3cursor /\ x.last = s3cursor /\ x.todo = {} /\ x.pc = "listing"
          /\ PollBecame(r, x)
      BY <3>1
    <3> QED BY <1>0, <1>2, <3>2
  <2>3. CASE ListObjects(r)
    <3>1. PICK x \in PullState : /\ PollBecame(r, x) /\ x.pc = "pulling" /\ x.last = puller[r].last
                                 /\ x.todo = NextObjects(puller[r].start)
                                 /\ x.start = puller[r].start
      BY <2>3, PollSteps
    <3>2. puller[r].last = puller[r].start
      BY <2>3 DEF ListObjects, InOrder
    <3>3. \A j \in x.todo : x.last < j
      BY <3>1, <3>2 DEF NextObjects
    <3> QED BY <1>0, <1>2, <3>1, <3>2, <3>3
  <2>4. ASSUME NEW k \in Keys, PullObject(r, k) PROVE InOrder'
    <3>1. PICK x \in PullState : /\ PollBecame(r, x) /\ x.pc = "pulling" /\ x.last = k
                                 /\ x.todo = puller[r].todo \ {k} /\ x.start = puller[r].start
      BY <2>4, PollSteps
    <3>2. k \in puller[r].todo /\ \A j \in puller[r].todo : k <= j
      BY <2>4 DEF PullObject, IsFirst
    <3>3. puller[r].start <= k /\ \A j \in puller[r].todo \ {k} : k < j
      BY <1>0, <3>2 DEF InOrder
    <3> QED BY <1>2, <3>1, <3>3
  <2>5. CASE EndOfList(r) \/ \E k \in Keys : ObjectFails(r, k)
    <3>1. PICK x \in PullState : PollBecame(r, x) /\ Ended(r, x)
      BY <2>5, PollSteps
    <3>2. PollBecame(r, x) /\ x.todo = {} /\ x.start <= x.last /\ x.pc # "listing"
          /\ (x.pc = "saving" => x.last # x.start)
      BY <3>1 DEF Ended, InOrder
    <3> QED BY <1>2, <3>2
  <2>6. CASE SavePullCursor(r) \/ PollAborted(r)
    <3>1. PollBecame(r, Resting) /\ Resting.start = 0 /\ Resting.last = 0 /\ Resting.todo = {}
          /\ Resting.pc = "resting"
      BY <2>6, PollSteps DEF Resting
    <3> QED BY <1>0, <1>2, <3>1
  <2> QED BY <1>3, <2>1, <2>2, <2>3, <2>4, <2>5, <2>6 DEF Poll
<1> QED BY <1>1, <1>3 DEF S3Next, s3Vars, Put, Takeover

\* A step that fetches nothing and lets nobody else fetch leaves the account as it is.
LEMMA FetchStays ==
  ASSUME S3TypeOK, NEW k \in Keys, FetchPaid(k), pulled' = pulled,
         aborted' = aborted, takeovers' = takeovers, Fetchers(k)' \subseteq Fetchers(k)
  PROVE  FetchPaid(k)'
<1>1. /\ IsFiniteSet(Fetchers(k)') /\ Cardinality(Fetchers(k)') \in Nat /\ Cardinality(Fetchers(k)) \in Nat
      /\ Cardinality(Fetchers(k)') <= Cardinality(Fetchers(k))
  BY CountNoMore DEF FetchPaid
<1>2. pulled[k] \in Nat /\ aborted \in Nat /\ takeovers \in Nat
  BY DEF S3TypeOK
<1> QED BY <1>1, <1>2 DEF FetchPaid

LEMMA FetchStep ==
  S3TypeOK /\ InOrder /\ FetchesPaid /\ [S3Next]_s3Vars => FetchesPaid'
<1> SUFFICES ASSUME S3TypeOK, InOrder, FetchesPaid, [S3Next]_s3Vars, NEW k \in Keys
             PROVE  FetchPaid(k)'
  BY DEF FetchesPaid
<1>0. /\ puller \in [Pullers -> PullState] /\ s3cursor \in Nat /\ k \in Nat /\ leads \in Pullers
      /\ pulled[k] \in Nat /\ aborted \in Nat /\ takeovers \in Nat /\ FetchPaid(k)
      /\ \A r \in Pullers : puller[r].last \in Nat /\ puller[r].start \in Nat
  BY KeyRanges, S3Assumption DEF S3TypeOK, PullState, FetchesPaid
<1>1. ASSUME NEW j \in Keys, NEW bad \in BOOLEAN, Put(j, bad) PROVE FetchPaid(k)'
  <2>1. /\ Fetchers(k)' \subseteq Fetchers(k) /\ pulled' = pulled /\ aborted' = aborted
        /\ takeovers' = takeovers
    BY <1>1 DEF Put, Fetchers, Owes, Coming
  <2> QED BY <1>0, <2>1, FetchStays
<1>2. ASSUME NEW r \in Pullers, Takeover(r) PROVE FetchPaid(k)'
  <2>1. /\ puller' = puller /\ s3cursor' = s3cursor /\ pulled' = pulled
        /\ leads' = r /\ aborted' = aborted /\ takeovers' = takeovers + 1
    BY <1>2 DEF Takeover
  <2>2. CASE s3cursor < k
    <3>1. ASSUME NEW s \in Pullers \ {r}, Owes(s, k)' PROVE Owes(s, k)
      BY <2>1, <2>2, <3>1 DEF Owes, Coming
    <3>2. Fetchers(k)' \subseteq Fetchers(k) \cup {r}
      BY <3>1 DEF Fetchers
    <3>3. /\ IsFiniteSet(Fetchers(k)') /\ Cardinality(Fetchers(k)') \in Nat /\ Cardinality(Fetchers(k)) \in Nat
          /\ Cardinality(Fetchers(k)') <= Cardinality(Fetchers(k)) + 1
      BY <1>0, <3>2, CountOneMore DEF FetchPaid
    <3> QED BY <1>0, <2>1, <3>3 DEF FetchPaid
  <2>3. CASE ~(s3cursor < k)
    <3>1. ASSUME NEW s \in Pullers \ {leads}, Owes(s, k)' PROVE Owes(s, k)
      BY <2>1, <2>3, <3>1 DEF Owes, Coming
    <3>2. Fetchers(k)' \subseteq Fetchers(k) \cup {leads}
      BY <3>1 DEF Fetchers
    <3>3. /\ IsFiniteSet(Fetchers(k)') /\ Cardinality(Fetchers(k)') \in Nat /\ Cardinality(Fetchers(k)) \in Nat
          /\ Cardinality(Fetchers(k)') <= Cardinality(Fetchers(k)) + 1
      BY <1>0, <3>2, CountOneMore DEF FetchPaid
    <3> QED BY <1>0, <2>1, <3>3 DEF FetchPaid
  <2> QED BY <2>2, <2>3
<1>3. ASSUME NEW r \in Pullers, Poll(r) \/ PollAborted(r) PROVE FetchPaid(k)'
  <2>1. leads' = leads /\ takeovers' = takeovers
    BY <1>3 DEF Poll, BeginTick, ReadPullCursor, ListObjects, PullObject, ObjectFails,
                EndOfList, SavePullCursor, PollAborted
  <2>2. \E x \in PullState : PollBecame(r, x)
    BY <1>3, PollSteps, KeyRanges DEF Poll
  <2>3. \A s \in Pullers \ {r} : puller'[s] = puller[s]
    BY <1>0, <2>2, PollStepTypes DEF PollBecame
  <2>4. ASSUME s3cursor' = s3cursor, NEW s \in Pullers \ {r}, Owes(s, k)' PROVE Owes(s, k)
    BY <2>1, <2>3, <2>4 DEF Owes, Coming
  <2>a. ASSUME s3cursor' = s3cursor, pulled' = pulled, aborted' = aborted,
               Owes(r, k)' => Owes(r, k)
        PROVE  FetchPaid(k)'
    <3>1. Fetchers(k)' \subseteq Fetchers(k)
      BY <2>4, <2>a DEF Fetchers
    <3> QED BY <1>0, <2>1, <2>a, <3>1, FetchStays
  <2>5. CASE BeginTick(r)
    <3>1. PICK x \in PullState : PollBecame(r, x) /\ x = [Resting EXCEPT !.pc = "ticking"]
      BY <2>5, PollSteps
    <3>2. puller'[r].pc = "ticking"
      BY <1>0, <3>1, PollStepTypes DEF PollBecame, Resting
    <3>3. /\ puller[r].pc = "resting" /\ leads = r /\ s3cursor' = s3cursor /\ pulled' = pulled
          /\ aborted' = aborted
      BY <2>5 DEF BeginTick
    <3>4. Owes(r, k)' => Owes(r, k)
      BY <2>1, <3>2, <3>3 DEF Owes, Coming
    <3> QED BY <2>a, <3>3, <3>4
  <2>6. CASE ReadPullCursor(r)
    <3>1. PICK x \in PullState : PollBecame(r, x) /\ x = [pc |-> "listing", start |-> s3cursor,
                                                          todo |-> {}, last |-> s3cursor]
      BY <2>6, PollSteps
    <3>2. puller'[r].pc = "listing" /\ puller'[r].last = s3cursor
      BY <1>0, <3>1, PollStepTypes DEF PollBecame
    <3>3. puller[r].pc = "ticking" /\ s3cursor' = s3cursor /\ pulled' = pulled
          /\ aborted' = aborted
      BY <2>6 DEF ReadPullCursor
    <3>4. Owes(r, k)' => Owes(r, k)
      BY <2>1, <3>2, <3>3 DEF Owes, Coming
    <3> QED BY <2>a, <3>3, <3>4
  <2>7. CASE ListObjects(r)
    <3>1. PICK x \in PullState : /\ PollBecame(r, x) /\ x.pc = "pulling" /\ x.last = puller[r].last
                                 /\ x.start = puller[r].start
      BY <2>7, PollSteps
    <3>2. /\ puller'[r].pc = "pulling" /\ puller'[r].last = puller[r].last
          /\ puller'[r].start = puller[r].start
      BY <1>0, <3>1, PollStepTypes DEF PollBecame
    <3>3. puller[r].pc = "listing" /\ s3cursor' = s3cursor /\ pulled' = pulled
          /\ aborted' = aborted
      BY <2>7 DEF ListObjects
    <3>4. Owes(r, k)' => Owes(r, k)
      BY <2>1, <3>2, <3>3 DEF Owes, Coming
    <3> QED BY <2>a, <3>3, <3>4
  <2>8. ASSUME NEW i \in Keys, PullObject(r, i) PROVE FetchPaid(k)'
    <3>1. PICK x \in PullState : /\ PollBecame(r, x) /\ x.pc = "pulling" /\ x.last = i
                                 /\ x.start = puller[r].start
      BY <2>8, PollSteps
    <3>2. /\ puller'[r].pc = "pulling" /\ puller'[r].last = i
          /\ puller'[r].start = puller[r].start
      BY <1>0, <3>1, PollStepTypes DEF PollBecame
    <3>3. /\ puller[r].pc = "pulling" /\ s3cursor' = s3cursor /\ aborted' = aborted
          /\ i \in puller[r].todo /\ pulled' = [pulled EXCEPT ![i] = @ + 1]
      BY <2>8 DEF PullObject, IsFirst
    <3>4. pulled'[k] = IF k = i THEN pulled[k] + 1 ELSE pulled[k]
      BY <3>3 DEF S3TypeOK
    <3>5. i \in Nat /\ puller[r].last < i /\ puller[r].start < i
      BY <1>0, <3>3, KeyRanges DEF InOrder
    <3>6. Owes(r, k)' => i < k
      BY <1>0, <2>1, <3>2, <3>5 DEF Owes, Coming
    <3>7. i <= k => Owes(r, k)
      BY <1>0, <3>3, <3>5 DEF Owes, Coming
    <3>8. Owes(r, k)' => Owes(r, k)
      BY <1>0, <3>5, <3>6, <3>7
    <3>9. Fetchers(k)' \subseteq Fetchers(k)
      BY <2>4, <3>3, <3>8 DEF Fetchers
    <3>10. CASE k = i
      <4>1. Fetchers(k)' \subseteq Fetchers(k) \ {r} /\ r \in Fetchers(k)
        BY <1>0, <3>6, <3>7, <3>9, <3>10 DEF Fetchers
      <4>2. /\ IsFiniteSet(Fetchers(k)') /\ Cardinality(Fetchers(k)') \in Nat /\ Cardinality(Fetchers(k)) \in Nat
            /\ Cardinality(Fetchers(k)') + 1 <= Cardinality(Fetchers(k))
        BY <1>0, <4>1, CountOneLess DEF FetchPaid
      <4> QED BY <1>0, <2>1, <3>3, <3>4, <3>10, <4>2 DEF FetchPaid
    <3>11. CASE k # i
      <4>1. /\ IsFiniteSet(Fetchers(k)') /\ Cardinality(Fetchers(k)') \in Nat /\ Cardinality(Fetchers(k)) \in Nat
            /\ Cardinality(Fetchers(k)') <= Cardinality(Fetchers(k))
        BY <1>0, <3>9, CountNoMore DEF FetchPaid
      <4> QED BY <1>0, <2>1, <3>3, <3>4, <3>11, <4>1 DEF FetchPaid
    <3> QED BY <3>10, <3>11
  <2>9. CASE EndOfList(r) \/ \E i \in Keys : ObjectFails(r, i)
    <3>1. PICK x \in PullState : PollBecame(r, x) /\ Ended(r, x)
      BY <2>9, PollSteps
    <3>2. Ended(r, puller'[r])
      BY <1>0, <3>1, PollStepTypes DEF PollBecame
    <3>3. puller[r].pc = "pulling" /\ s3cursor' = s3cursor /\ pulled' = pulled
          /\ aborted' = aborted
      BY <2>9 DEF EndOfList, ObjectFails
    <3>4. Owes(r, k)' => Owes(r, k)
      BY <2>1, <3>2, <3>3 DEF Owes, Coming, Ended
    <3> QED BY <2>a, <3>3, <3>4
  <2>10. CASE SavePullCursor(r)
    <3>1. puller'[r].pc = "resting"
      BY <1>0, <2>10, PollSteps, KeyRanges, PollStepTypes DEF PollBecame, Resting
    <3>2. /\ puller[r].pc = "saving" /\ s3cursor' = puller[r].last /\ pulled' = pulled
          /\ aborted' = aborted
      BY <2>10 DEF SavePullCursor
    <3>3. CASE puller[r].last < k
      <4>1. r \in Fetchers(k)
        BY <3>2, <3>3 DEF Fetchers, Owes, Coming
      <4>2. ASSUME NEW s \in Pullers, s # leads, Owes(s, k)' PROVE Owes(s, k) /\ s # r
        BY <2>1, <2>3, <3>1, <4>2 DEF Owes, Coming
      <4>3. Fetchers(k)' \subseteq (Fetchers(k) \ {r}) \cup {leads}
        BY <4>2 DEF Fetchers
      <4>4. /\ IsFiniteSet(Fetchers(k)') /\ Cardinality(Fetchers(k)') \in Nat /\ Cardinality(Fetchers(k)) \in Nat
            /\ Cardinality(Fetchers(k)') <= Cardinality(Fetchers(k))
        BY <1>0, <4>1, <4>3, CountSwap DEF FetchPaid
      <4> QED BY <1>0, <2>1, <3>2, <4>4 DEF FetchPaid
    <3>4. CASE ~(puller[r].last < k)
      <4>1. ASSUME NEW s \in Pullers, Owes(s, k)' PROVE Owes(s, k)
        BY <2>1, <2>3, <3>1, <3>2, <3>4, <4>1 DEF Owes, Coming
      <4>2. Fetchers(k)' \subseteq Fetchers(k)
        BY <4>1 DEF Fetchers
      <4> QED BY <1>0, <2>1, <3>2, <4>2, FetchStays
    <3> QED BY <3>3, <3>4
  <2>11. CASE PollAborted(r)
    <3>1. s3cursor' = s3cursor /\ pulled' = pulled /\ aborted' = aborted + 1
      BY <2>11 DEF PollAborted
    <3>2. Fetchers(k)' \subseteq Fetchers(k) \cup {r}
      BY <2>4, <3>1 DEF Fetchers
    <3>3. /\ IsFiniteSet(Fetchers(k)') /\ Cardinality(Fetchers(k)') \in Nat /\ Cardinality(Fetchers(k)) \in Nat
          /\ Cardinality(Fetchers(k)') <= Cardinality(Fetchers(k)) + 1
      BY <1>0, <3>2, CountOneMore DEF FetchPaid
    <3> QED BY <1>0, <2>1, <3>1, <3>3 DEF FetchPaid
  <2> QED BY <1>3, <2>5, <2>6, <2>7, <2>8, <2>9, <2>10, <2>11 DEF Poll
<1>4. CASE UNCHANGED s3Vars
  <2>1. /\ Fetchers(k)' \subseteq Fetchers(k) /\ pulled' = pulled /\ aborted' = aborted
        /\ takeovers' = takeovers
    BY <1>4 DEF s3Vars, Fetchers, Owes, Coming
  <2> QED BY <1>0, <2>1, FetchStays
<1> QED BY <1>1, <1>2, <1>3, <1>4 DEF S3Next

LEMMA FetchInit == S3Init => InOrder /\ FetchesPaid
<1> SUFFICES ASSUME S3Init PROVE InOrder /\ FetchesPaid
  OBVIOUS
<1>1. InOrder
  BY DEF S3Init, InOrder, Resting
<1>2. ASSUME NEW k \in Keys PROVE FetchPaid(k)
  <2>1. Fetchers(k) \subseteq {leads}
    BY DEF S3Init, Fetchers, Owes, Coming, Resting
  <2>2. IsFiniteSet(Fetchers(k)) /\ Cardinality(Fetchers(k)) \in Nat /\ Cardinality(Fetchers(k)) <= 1
    BY <2>1, CountAtMostOne
  <2> QED BY <2>2 DEF S3Init, FetchPaid
<1> QED BY <1>1, <1>2 DEF FetchesPaid

\* s3_pull.poll stores its cursor at the end of a pass: no object is ingested more often
\* than once, once per pass cut short before that and once per change of the leader,
\* however the passes of the replicas overlap and set the cursor back.
THEOREM RepeatsAreExplainedTheorem == S3Spec => []RepeatsAreExplained
<1>1. ASSUME S3TypeOK, FetchesPaid PROVE RepeatsAreExplained
  <2> SUFFICES ASSUME NEW k \in Keys PROVE pulled[k] <= 1 + aborted + takeovers
    BY DEF RepeatsAreExplained
  <2>1. FetchPaid(k) /\ pulled[k] \in Nat /\ aborted \in Nat /\ takeovers \in Nat
    BY <1>1 DEF FetchesPaid, S3TypeOK
  <2>2. Cardinality(Fetchers(k)) \in Nat
    BY <2>1, FS_CardinalityType DEF FetchPaid
  <2> QED BY <2>1, <2>2 DEF FetchPaid
<1>2. S3Init => InOrder /\ FetchesPaid
  BY FetchInit
<1>3. S3TypeOK /\ InOrder /\ FetchesPaid /\ [S3Next]_s3Vars => InOrder' /\ FetchesPaid'
  BY InOrderStep, FetchStep
<1> QED BY <1>1, <1>2, <1>3, S3Types, PTL DEF S3Spec

-----------------------------------------------------------------------------
(* The S3 pull is an Intake *)

\* Every step of a producer, of the lease or of a pass is one of an Intake.
LEMMA PullIntakeStep ==
  /\ S3TypeOK /\ S3TypeOK' /\ NothingOvertaken' /\ RepeatsAreExplained'
  /\ [S3Next]_s3Vars
  => FromBucket!Next
<1> SUFFICES ASSUME S3TypeOK, S3TypeOK', NothingOvertaken', RepeatsAreExplained',
                    [S3Next]_s3Vars
             PROVE  FromBucket!Next
  OBVIOUS
<1> DEFINE mishaps == aborted + takeovers
<1>0. /\ aborted \in Nat /\ takeovers \in Nat /\ aborted' \in Nat /\ takeovers' \in Nat
      /\ pulled \in [Keys -> Nat] /\ pulled' \in [Keys -> Nat] /\ late \subseteq Keys
      /\ late' \subseteq Keys /\ bucket' \subseteq Keys
  BY DEF S3TypeOK
<1>1. /\ mishaps' \in {mishaps, mishaps + 1} /\ late \subseteq late'
      /\ pulled' = pulled \/ \E k \in Keys : pulled' = [pulled EXCEPT ![k] = @ + 1]
  <2>1. ASSUME NEW k \in Keys, NEW bad \in BOOLEAN, Put(k, bad)
        PROVE  UNCHANGED <<aborted, takeovers, pulled>> /\ late \subseteq late'
    BY <2>1 DEF Put
  <2>2. ASSUME NEW r \in Pullers, Takeover(r)
        PROVE  UNCHANGED <<aborted, pulled, late>> /\ takeovers' = takeovers + 1
    BY <2>2 DEF Takeover
  <2>3. ASSUME NEW r \in Pullers, PollAborted(r)
        PROVE  UNCHANGED <<takeovers, pulled, late>> /\ aborted' = aborted + 1
    BY <2>3 DEF PollAborted
  <2>4. ASSUME NEW r \in Pullers, NEW k \in Keys, PullObject(r, k)
        PROVE  UNCHANGED <<aborted, takeovers, late>> /\ pulled' = [pulled EXCEPT ![k] = @ + 1]
    BY <2>4 DEF PullObject
  <2>5. ASSUME NEW r \in Pullers,
               \/ BeginTick(r) \/ ReadPullCursor(r) \/ ListObjects(r)
               \/ \E k \in Keys : ObjectFails(r, k)
               \/ EndOfList(r) \/ SavePullCursor(r)
        PROVE  UNCHANGED <<aborted, takeovers, pulled, late>>
    BY <2>5 DEF BeginTick, ReadPullCursor, ListObjects, ObjectFails, EndOfList, SavePullCursor
  <2>6. CASE UNCHANGED s3Vars
    BY <1>0, <2>6 DEF s3Vars
  <2>7. \/ \E k \in Keys, bad \in BOOLEAN : Put(k, bad)
        \/ \E r \in Pullers : Takeover(r)
        \/ \E r \in Pullers : PollAborted(r)
        \/ \E r \in Pullers, k \in Keys : PullObject(r, k)
        \/ \E r \in Pullers : \/ BeginTick(r) \/ ReadPullCursor(r) \/ ListObjects(r)
                              \/ \E k \in Keys : ObjectFails(r, k)
                              \/ EndOfList(r) \/ SavePullCursor(r)
        \/ UNCHANGED s3Vars
    BY DEF S3Next, Poll
  <2>8. /\ \/ aborted' = aborted /\ takeovers' = takeovers
           \/ aborted' = aborted + 1 /\ takeovers' = takeovers
           \/ aborted' = aborted /\ takeovers' = takeovers + 1
        /\ late \subseteq late'
        /\ pulled' = pulled \/ \E k \in Keys : pulled' = [pulled EXCEPT ![k] = @ + 1]
    BY <2>1, <2>2, <2>3, <2>4, <2>5, <2>6, <2>7, Zenon DEF s3Vars
  <2>9. mishaps' \in {mishaps, mishaps + 1}
    <3>1. CASE aborted' = aborted /\ takeovers' = takeovers
      BY <3>1
    <3>2. CASE aborted' = aborted + 1 /\ takeovers' = takeovers
      BY <1>0, <3>2
    <3>3. CASE aborted' = aborted /\ takeovers' = takeovers + 1
      BY <1>0, <3>3
    <3> QED BY <2>8, <3>1, <3>2, <3>3
  <2> QED BY <2>8, <2>9, Zenon
<1>2. \E B \in SUBSET Keys : FromBucket!TakeIn(B)
  <2>1. PICK B \in SUBSET Keys :
          pulled' = [k \in Keys |-> IF k \in B THEN pulled[k] + 1 ELSE pulled[k]]
    <3>1. CASE pulled' = pulled
      <4>1. pulled \in [Keys -> Nat]
        BY <1>0
      <4> QED BY <3>1, <4>1, NoneTaken
    <3>2. ASSUME NEW i \in Keys, pulled' = [pulled EXCEPT ![i] = @ + 1]
          PROVE  \E B \in SUBSET Keys :
                   pulled' = [k \in Keys |-> IF k \in B THEN pulled[k] + 1 ELSE pulled[k]]
      <4> DEFINE g == [k \in Keys |-> IF k \in {i} THEN pulled[k] + 1 ELSE pulled[k]]
      <4>1. \A k \in Keys : g[k] = pulled'[k]
        BY <1>0, <3>2
      <4>2. DOMAIN g = Keys /\ g = [k \in Keys |-> g[k]]
        OBVIOUS
      <4>3. pulled' = g
        <5> HIDE DEF g
        <5> QED BY <1>0, <4>1, <4>2
      <4> QED BY <4>3
    <3> QED BY <1>1, <3>1, <3>2
  <2>2. ASSUME NEW k \in B PROVE pulled[k] <= mishaps'
    <3>1. pulled'[k] = pulled[k] + 1 /\ pulled[k] \in Nat
      BY <1>0, <2>1
    <3>2. pulled'[k] <= 1 + aborted' + takeovers'
      BY DEF RepeatsAreExplained
    <3> QED BY <1>0, <3>1, <3>2
  <2> QED BY <2>1, <2>2 DEF FromBucket!TakeIn
<1>3. FromBucket!Record
  <2>1. {k \in bucket' : k <= s3cursor'} \in SUBSET Keys
    BY <1>0
  <2>2. \A k \in {k \in bucket' : k <= s3cursor'} \ late' : pulled'[k] > 0
    BY DEF NothingOvertaken
  <2> QED BY <1>0, <1>1, <2>1, <2>2 DEF FromBucket!Record
<1> QED BY <1>1, <1>2, <1>3 DEF FromBucket!Next, FromBucket!Account

\* Whatever replicas poll at once and whatever cursor each of them stores, the bucket is
\* pulled as an Intake.
THEOREM PullIsIntake == S3Spec => PullTakesIn
<1>1. S3Init => FromBucket!Init
  BY DEF S3Init, FromBucket!Init
<1> QED BY <1>1, S3Types, NothingOvertakenTheorem, RepeatsAreExplainedTheorem,
           PullIntakeStep, PTL
        DEF S3Spec, PullTakesIn, FromBucket!Spec

-----------------------------------------------------------------------------
(***************************************************************************)
(* LogWatch. What a watcher remembers of the file is compared with the     *)
(* file as it stands now: with the lines it is past, it holds or will      *)
(* still reach. A line that no watcher is past was not read; a line that   *)
(* two are past was paid for by a change of the leader.                    *)
(***************************************************************************)

\* The content at the path.
Content == watched.gen

\* What a watcher remembers counts lines that exist, it starts to read where it stopped,
\* and it is past what it holds.
Real(w) ==
  /\ watcher[w].gen <= Content
  /\ (watcher[w].gen = Content => watcher[w].off <= watched.len)
  /\ (watcher[w].pc = "sized" =>
        /\ watcher[w].start \in {0, watcher[w].off}
        /\ (watcher[w].gen = Content => watcher[w].start = watcher[w].off))
  /\ (watcher[w].pc # "holding" => watcher[w].lines = {})
  /\ \A l \in watcher[w].lines : l[1] = watcher[w].gen /\ l[2] <= watcher[w].off
  /\ (Hides(w, watched) => Content \in hidden)

WatchersReal == \A w \in Watchers : Real(w)

\* A scan of w will not read line l: it is past it, or will start past it.
PastIt(w, l) ==
  l[1] = Content /\ IF watcher[w].pc = "off" THEN l[2] <= watched.len
                    ELSE watcher[w].gen = Content /\ l[2] <= watcher[w].off

\* A scan has begun and has not read yet.
Scanning(w) == watcher[w].pc \in {"leading", "sized"}

\* w may still ingest line l, of this content or of one to come, without a change of the
\* leader.
Able(w, l) == \/ l \in watcher[w].lines
              \/ l[1] >= Content /\ (w = inCharge \/ Scanning(w)) /\ ~PastIt(w, l)

MayIngest(l) == {w \in Watchers : Able(w, l)}

\* Each delivery of a line, made or possible, is the first one or has its handover.
LinePaid(l) == /\ IsFiniteSet(MayIngest(l))
               /\ seen[l] + Cardinality(MayIngest(l)) <= 1 + handovers

DeliveriesPaid == \A l \in WLines : LinePaid(l)

WatchIInv == WatchersReal /\ PassedLineAccounted /\ DeliveriesPaid

-----------------------------------------------------------------------------
(* Types *)

Keeper == [pc     : {"off", "waiting", "leading", "sized", "holding"},
           gen    : WGens,
           off    : 0 .. WatchLen,
           start  : 0 .. WatchLen,
           lines  : SUBSET WLines,
           primed : WGens \X (0 .. WatchLen)]

LEMMA WatchRanges ==
  /\ 0 \in WGens /\ 0 \in 0 .. WatchLen /\ WGens \subseteq Nat /\ 0 .. WatchLen \subseteq Nat
  /\ Off \in Keeper /\ WatchGen \in Nat /\ WatchLen \in Nat
  /\ \A l \in WLines : l[1] \in WGens /\ l[2] \in 1 .. WatchLen /\ l = <<l[1], l[2]>>
  BY WatchAssumption DEF WGens, Off, Keeper, WLines

LEMMA WatchTypeInit == WatchInit => WatchTypeOK
  BY WatchRanges DEF WatchInit, WatchTypeOK, Keeper

\* A step of one watcher changes what it remembers only.
Became(w, x) == watcher' = [watcher EXCEPT ![w] = x]

LEMMA OneWatcher ==
  ASSUME WatchTypeOK, NEW w \in Watchers, NEW x \in Keeper, Became(w, x)
  PROVE  /\ watcher' \in [Watchers -> Keeper]
         /\ watcher'[w] = x
         /\ \A v \in Watchers \ {w} : watcher'[v] = watcher[v]
  BY DEF WatchTypeOK, Keeper, Became

LEMMA WatchSteps ==
  ASSUME WatchTypeOK, NEW w \in Watchers
  PROVE  /\ StartWatch(w) =>
              \E x \in Keeper : /\ Became(w, x) /\ x.pc = "waiting" /\ x.lines = {}
                                /\ x.gen = watched.gen /\ x.off = watched.len
                                /\ x.primed = <<watched.gen, watched.len>>
         /\ BeginScan(w) =>
              \E x \in Keeper : /\ Became(w, x) /\ x.pc = "leading" /\ x.lines = watcher[w].lines
                                /\ x.gen = watcher[w].gen /\ x.off = watcher[w].off
                                /\ x.primed = watcher[w].primed
         /\ SizeFile(w) =>
              \E x \in Keeper : /\ Became(w, x) /\ x.lines = watcher[w].lines
                                /\ x.gen = watcher[w].gen /\ x.off = watcher[w].off
                                /\ x.primed = watcher[w].primed
                                /\ \/ x.pc = "waiting"
                                   \/ /\ x.pc = "sized"
                                      /\ x.start = IF watched.len < watcher[w].off
                                                   THEN 0 ELSE watcher[w].off
         /\ ReadFile(w) =>
              \E x \in Keeper : /\ Became(w, x) /\ x.lines = NewLines(w)
                                /\ x.primed = watcher[w].primed
                                /\ \/ /\ NewLines(w) = {} /\ x.pc = "waiting"
                                      /\ x.gen = watcher[w].gen /\ x.off = watcher[w].start
                                   \/ /\ NewLines(w) # {} /\ x.pc = "holding"
                                      /\ x.gen = watched.gen /\ x.off = watched.len
         /\ IngestLines(w) \/ IngestFails(w) =>
              \E x \in Keeper : /\ Became(w, x) /\ x.pc = "waiting" /\ x.lines = {}
                                /\ x.gen = watcher[w].gen /\ x.off = watcher[w].off
                                /\ x.primed = watcher[w].primed
         /\ WatcherDies(w) => Became(w, Off)
<1>0. /\ watcher[w] \in Keeper /\ watched.gen \in WGens /\ watched.len \in 0 .. WatchLen
  BY DEF WatchTypeOK, Keeper
<1>1. ASSUME StartWatch(w)
      PROVE  \E x \in Keeper : /\ Became(w, x) /\ x.pc = "waiting" /\ x.lines = {}
                               /\ x.gen = watched.gen /\ x.off = watched.len
                               /\ x.primed = <<watched.gen, watched.len>>
  <2> DEFINE x == [Off EXCEPT !.pc = "waiting", !.gen = watched.gen, !.off = EndOfFile,
                              !.primed = <<watched.gen, watched.len>>]
  <2>1. Became(w, x)
    BY <1>1 DEF StartWatch, Became
  <2>2. x \in Keeper /\ x.pc = "waiting" /\ x.lines = {} /\ x.gen = watched.gen
        /\ x.off = watched.len /\ x.primed = <<watched.gen, watched.len>>
    BY <1>0, WatchRanges DEF Off, Keeper, EndOfFile
  <2> HIDE DEF x
  <2> QED BY <2>1, <2>2
<1>2. ASSUME BeginScan(w)
      PROVE  \E x \in Keeper : /\ Became(w, x) /\ x.pc = "leading" /\ x.lines = watcher[w].lines
                               /\ x.gen = watcher[w].gen /\ x.off = watcher[w].off
                               /\ x.primed = watcher[w].primed
  <2> DEFINE x == [watcher[w] EXCEPT !.pc = "leading"]
  <2>1. Became(w, x)
    BY <1>2 DEF BeginScan, Became
  <2>2. x \in Keeper /\ x.pc = "leading" /\ x.lines = watcher[w].lines
        /\ x.gen = watcher[w].gen /\ x.off = watcher[w].off /\ x.primed = watcher[w].primed
    BY <1>0 DEF Keeper
  <2> HIDE DEF x
  <2> QED BY <2>1, <2>2
<1>3. ASSUME SizeFile(w)
      PROVE  \E x \in Keeper : /\ Became(w, x) /\ x.lines = watcher[w].lines
                               /\ x.gen = watcher[w].gen /\ x.off = watcher[w].off
                               /\ x.primed = watcher[w].primed
                               /\ \/ x.pc = "waiting"
                                  \/ /\ x.pc = "sized"
                                     /\ x.start = IF watched.len < watcher[w].off
                                                  THEN 0 ELSE watcher[w].off
  <2> DEFINE start == IF watched.len < watcher[w].off THEN 0 ELSE watcher[w].off
             x == [watcher[w] EXCEPT !.pc = "waiting"]
             y == [watcher[w] EXCEPT !.pc = "sized", !.start = start]
  <2>1. Became(w, x) \/ Became(w, y)
    BY <1>3 DEF SizeFile, Became
  <2>2. start \in 0 .. WatchLen
    BY <1>0, WatchRanges DEF Keeper
  <2>3. x \in Keeper /\ x.pc = "waiting" /\ x.lines = watcher[w].lines
        /\ x.gen = watcher[w].gen /\ x.off = watcher[w].off /\ x.primed = watcher[w].primed
    BY <1>0 DEF Keeper
  <2> HIDE DEF start
  <2>4. y \in Keeper /\ y.pc = "sized" /\ y.lines = watcher[w].lines /\ y.start = start
        /\ y.gen = watcher[w].gen /\ y.off = watcher[w].off /\ y.primed = watcher[w].primed
    BY <1>0, <2>2 DEF Keeper
  <2> HIDE DEF x, y
  <2> QED BY <2>1, <2>3, <2>4 DEF start
<1>4. ASSUME ReadFile(w)
      PROVE  \E x \in Keeper : /\ Became(w, x) /\ x.lines = NewLines(w)
                               /\ x.primed = watcher[w].primed
                               /\ \/ /\ NewLines(w) = {} /\ x.pc = "waiting"
                                     /\ x.gen = watcher[w].gen /\ x.off = watcher[w].start
                                  \/ /\ NewLines(w) # {} /\ x.pc = "holding"
                                     /\ x.gen = watched.gen /\ x.off = watched.len
  <2> DEFINE N == NewLines(w)
             p == IF N = {} THEN "waiting" ELSE "holding"
             g == IF N = {} THEN watcher[w].gen ELSE watched.gen
             o == IF N = {} THEN watcher[w].start ELSE watched.len
             x == [watcher[w] EXCEPT !.pc = p, !.gen = g, !.off = o, !.lines = N, !.start = 0]
  <2>1. Became(w, x)
    BY <1>4 DEF ReadFile, Became
  <2>2. N \in SUBSET WLines
    <3>1. watcher[w].start \in Nat /\ watched.len \in Nat
      BY <1>0, WatchRanges DEF Keeper
    <3>2. \A k \in watcher[w].start + 1 .. watched.len : k \in 1 .. WatchLen
      BY <1>0, <3>1, WatchRanges
    <3> QED BY <1>0, <3>2 DEF NewLines, WLines
  <2>3. p \in {"waiting", "holding"} /\ g \in WGens /\ o \in 0 .. WatchLen
    BY <1>0 DEF Keeper
  <2>4. \/ N = {} /\ p = "waiting" /\ g = watcher[w].gen /\ o = watcher[w].start
        \/ N # {} /\ p = "holding" /\ g = watched.gen /\ o = watched.len
    OBVIOUS
  <2> HIDE DEF N, p, g, o
  <2>5. x \in Keeper /\ x.pc = p /\ x.gen = g /\ x.off = o /\ x.lines = N
        /\ x.primed = watcher[w].primed
    BY <1>0, <2>2, <2>3, WatchRanges DEF Keeper
  <2> HIDE DEF x
  <2> QED BY <2>1, <2>4, <2>5 DEF N
<1>5. ASSUME IngestLines(w) \/ IngestFails(w)
      PROVE  \E x \in Keeper : /\ Became(w, x) /\ x.pc = "waiting" /\ x.lines = {}
                               /\ x.gen = watcher[w].gen /\ x.off = watcher[w].off
                               /\ x.primed = watcher[w].primed
  <2> DEFINE x == [watcher[w] EXCEPT !.pc = "waiting", !.lines = {}]
  <2>1. Became(w, x)
    BY <1>5 DEF IngestLines, IngestFails, Became
  <2>2. x \in Keeper /\ x.pc = "waiting" /\ x.lines = {}
        /\ x.gen = watcher[w].gen /\ x.off = watcher[w].off /\ x.primed = watcher[w].primed
    BY <1>0 DEF Keeper
  <2> HIDE DEF x
  <2> QED BY <2>1, <2>2
<1>6. WatcherDies(w) => Became(w, Off)
  BY DEF WatcherDies, Became
<1> QED BY <1>1, <1>2, <1>3, <1>4, <1>5, <1>6

LEMMA WatchTypeStep == WatchTypeOK /\ [WatchNext]_watchVars => WatchTypeOK'
<1> SUFFICES ASSUME WatchTypeOK, [WatchNext]_watchVars PROVE WatchTypeOK'
  OBVIOUS
<1>1. CASE AppendLine
  <2>1. watched' \in [gen : WGens, len : 0 .. WatchLen] /\ watched'.gen \in WGens
    BY <1>1, WatchRanges DEF AppendLine, Change, WatchTypeOK
  <2>2. hidden' \in SUBSET WGens
    BY <1>1, <2>1 DEF AppendLine, Change, WatchTypeOK
  <2> QED BY <1>1, <2>1, <2>2 DEF AppendLine, Change, WatchTypeOK
<1>2. CASE Replace
  <2>1. watched' \in [gen : WGens, len : 0 .. WatchLen] /\ watched'.gen \in WGens
    BY <1>2, WatchRanges DEF Replace, Change, WatchTypeOK, WGens
  <2>2. hidden' \in SUBSET WGens
    BY <1>2, <2>1 DEF Replace, Change, WatchTypeOK
  <2> QED BY <1>2, <2>1, <2>2 DEF Replace, Change, WatchTypeOK
<1>3. ASSUME NEW w \in Watchers, Handover(w) PROVE WatchTypeOK'
  BY <1>3 DEF Handover, WatchTypeOK
<1>4. ASSUME NEW w \in Watchers, Watch(w) \/ IngestFails(w) \/ WatcherDies(w)
      PROVE  watcher' \in [Watchers -> Keeper]
  <2>1. \E x \in Keeper : Became(w, x)
    BY <1>4, WatchSteps, WatchRanges DEF Watch
  <2> QED BY <2>1, OneWatcher
<1>5. ASSUME NEW w \in Watchers, Watch(w) \/ IngestFails(w) \/ WatcherDies(w)
      PROVE  WatchTypeOK'
  <2>0. watcher' \in [Watchers -> Keeper] /\ watcher[w].lines \in SUBSET WLines
    BY <1>4, <1>5 DEF WatchTypeOK
  <2>1. CASE StartWatch(w) \/ BeginScan(w) \/ SizeFile(w) \/ ReadFile(w)
    BY <2>0, <2>1 DEF StartWatch, BeginScan, SizeFile, ReadFile, WatchTypeOK, Keeper
  <2>2. CASE IngestLines(w)
    <3>1. seen' \in [WLines -> Nat]
      BY <2>2 DEF IngestLines, WatchTypeOK
    <3> QED BY <2>0, <2>2, <3>1 DEF IngestLines, WatchTypeOK, Keeper
  <2>3. CASE IngestFails(w) \/ WatcherDies(w)
    BY <2>0, <2>3 DEF IngestFails, WatcherDies, WatchFault, WatchTypeOK, Keeper
  <2> QED BY <1>5, <2>1, <2>2, <2>3 DEF Watch
<1>6. CASE UNCHANGED watchVars
  BY <1>6 DEF watchVars, WatchTypeOK
<1> QED BY <1>1, <1>2, <1>3, <1>5, <1>6 DEF WatchNext

\* Type correctness of the watchers' state.
THEOREM WatchTypes == WatchSpec => []WatchTypeOK
<1> QED BY WatchTypeInit, WatchTypeStep, PTL DEF WatchSpec

-----------------------------------------------------------------------------
(* What the watchers remember *)

LEMMA RealAtStart == WatchInit => WatchersReal
  BY WatchRanges, WatchAssumption DEF WatchInit, WatchersReal, Real, Off, Content, Hides

\* A watcher that neither moves nor sees another file is as it was.
LEMMA RealStays ==
  ASSUME NEW w \in Watchers, Real(w), watcher'[w] = watcher[w], watched' = watched,
         hidden' = hidden
  PROVE  Real(w)'
  BY DEF Real, Content, Hides

LEMMA RealWhenFileChanges ==
  ASSUME WatchTypeOK, WatchersReal, AppendLine \/ Replace
  PROVE  WatchersReal'
<1> SUFFICES ASSUME NEW w \in Watchers PROVE Real(w)'
  BY DEF WatchersReal
<1>0. /\ watcher[w] \in Keeper /\ watched.gen \in Nat /\ watched.len \in Nat
      /\ watcher[w].off \in Nat /\ watcher[w].gen \in Nat /\ Real(w) /\ watcher' = watcher
  BY WatchRanges DEF WatchTypeOK, Keeper, WatchersReal, AppendLine, Replace, Change
<1>1. CASE AppendLine
  <2>1. watched'.gen = watched.gen /\ watched'.len = watched.len + 1
    BY <1>1 DEF AppendLine, Change, WatchTypeOK
  <2>2. Hides(w, watched') => watched'.gen \in hidden'
    BY <1>1 DEF AppendLine, Change
  <2> QED BY <1>0, <2>1, <2>2 DEF Real, Content, Hides
<1>2. CASE Replace
  <2>1. watched'.gen = watched.gen + 1
    BY <1>2 DEF Replace, Change
  <2>2. Hides(w, watched') => watched'.gen \in hidden'
    BY <1>2 DEF Replace, Change
  <2> QED BY <1>0, <2>1, <2>2 DEF Real, Content, Hides
<1> QED BY <1>1, <1>2

LEMMA RealWhenWatcherMoves ==
  ASSUME WatchTypeOK, WatchersReal, NEW w \in Watchers,
         Watch(w) \/ IngestFails(w) \/ WatcherDies(w)
  PROVE  WatchersReal'
<1>0. /\ watcher[w] \in Keeper /\ watched.gen \in Nat /\ watched.len \in Nat
      /\ watcher[w].off \in Nat /\ watcher[w].gen \in Nat /\ watcher[w].start \in Nat /\ Real(w)
  BY WatchRanges DEF WatchTypeOK, Keeper, WatchersReal
<1>1. watched' = watched /\ hidden' = hidden
  BY DEF Watch, StartWatch, BeginScan, SizeFile, ReadFile, IngestLines, IngestFails, WatcherDies
<1>2. \E x \in Keeper : Became(w, x)
  BY WatchSteps, WatchRanges DEF Watch
<1>3. ASSUME NEW v \in Watchers \ {w} PROVE Real(v)'
  BY <1>1, <1>2, <1>3, OneWatcher, RealStays DEF WatchersReal
<1>4. Real(w)'
  <2>1. CASE StartWatch(w)
    <3>1. /\ watcher'[w].pc = "waiting" /\ watcher'[w].lines = {}
          /\ watcher'[w].gen = watched.gen /\ watcher'[w].off = watched.len
      BY <2>1, WatchSteps, OneWatcher
    <3> QED BY <1>0, <1>1, <3>1 DEF Real, Content, Hides
  <2>2. CASE BeginScan(w)
    <3>1. /\ watcher'[w].pc = "leading" /\ watcher'[w].lines = watcher[w].lines
          /\ watcher'[w].gen = watcher[w].gen /\ watcher'[w].off = watcher[w].off
      BY <2>2, WatchSteps, OneWatcher
    <3>2. watcher[w].pc = "waiting"
      BY <2>2 DEF BeginScan
    <3> QED BY <1>0, <1>1, <3>1, <3>2 DEF Real, Content, Hides
  <2>3. CASE SizeFile(w)
    <3>1. /\ watcher'[w].lines = watcher[w].lines
          /\ watcher'[w].gen = watcher[w].gen /\ watcher'[w].off = watcher[w].off
          /\ \/ watcher'[w].pc = "waiting"
             \/ /\ watcher'[w].pc = "sized"
                /\ watcher'[w].start = IF watched.len < watcher[w].off
                                       THEN 0 ELSE watcher[w].off
      BY <2>3, WatchSteps, OneWatcher
    <3>2. watcher[w].pc = "leading"
      BY <2>3 DEF SizeFile
    <3> QED BY <1>0, <1>1, <3>1, <3>2 DEF Real, Content, Hides
  <2>4. CASE ReadFile(w)
    <3>1. /\ watcher'[w].lines = NewLines(w)
          /\ \/ /\ NewLines(w) = {} /\ watcher'[w].pc = "waiting"
                /\ watcher'[w].gen = watcher[w].gen /\ watcher'[w].off = watcher[w].start
             \/ /\ NewLines(w) # {} /\ watcher'[w].pc = "holding"
                /\ watcher'[w].gen = watched.gen /\ watcher'[w].off = watched.len
      BY <2>4, WatchSteps, OneWatcher
    <3>2. watcher[w].pc = "sized"
      BY <2>4 DEF ReadFile
    <3>3. \A l \in NewLines(w) : l[1] = watched.gen /\ l[2] <= watched.len
      BY <1>0 DEF NewLines
    <3> QED BY <1>0, <1>1, <3>1, <3>2, <3>3 DEF Real, Content, Hides
  <2>5. CASE IngestLines(w) \/ IngestFails(w)
    <3>1. /\ watcher'[w].pc = "waiting" /\ watcher'[w].lines = {}
          /\ watcher'[w].gen = watcher[w].gen /\ watcher'[w].off = watcher[w].off
      BY <2>5, WatchSteps, OneWatcher
    <3>2. watcher[w].pc = "holding"
      BY <2>5 DEF IngestLines, IngestFails
    <3> QED BY <1>0, <1>1, <3>1, <3>2 DEF Real, Content, Hides
  <2>6. CASE WatcherDies(w)
    <3>1. watcher'[w] = Off
      BY <2>6, WatchSteps, OneWatcher, WatchRanges
    <3> QED BY <1>0, <1>1, <3>1 DEF Real, Content, Hides, Off
  <2> QED BY <2>1, <2>2, <2>3, <2>4, <2>5, <2>6 DEF Watch
<1> QED BY <1>3, <1>4 DEF WatchersReal

LEMMA RealStep ==
  WatchTypeOK /\ WatchersReal /\ [WatchNext]_watchVars => WatchersReal'
<1> SUFFICES ASSUME WatchTypeOK, WatchersReal, [WatchNext]_watchVars PROVE WatchersReal'
  OBVIOUS
<1>1. CASE AppendLine \/ Replace
  BY <1>1, RealWhenFileChanges
<1>2. ASSUME NEW w \in Watchers, Handover(w) PROVE WatchersReal'
  BY <1>2, RealStays DEF Handover, WatchersReal
<1>3. ASSUME NEW w \in Watchers, Watch(w) \/ IngestFails(w) \/ WatcherDies(w)
      PROVE  WatchersReal'
  BY <1>3, RealWhenWatcherMoves
<1>4. CASE UNCHANGED watchVars
  BY <1>4, RealStays DEF watchVars, WatchersReal
<1> QED BY <1>1, <1>2, <1>3, <1>4 DEF WatchNext

-----------------------------------------------------------------------------
(* No line is passed over *)

\* Where line k of the present content went, as far as watcher w goes.
Accounted(w, k) ==
  \/ seen[<<Content, k>>] > 0
  \/ <<Content, k>> \in watcher[w].lines \cup dropped
  \/ watcher[w].primed[1] = Content /\ k <= watcher[w].primed[2]

CoveredUpTo(w) ==
  watcher[w].pc # "off" /\ watcher[w].gen = Content /\ Content \notin hidden =>
    \A k \in 1 .. watcher[w].off : Accounted(w, k)

LEMMA PassedIsCovered == PassedLineAccounted <=> \A w \in Watchers : CoveredUpTo(w)
  BY DEF PassedLineAccounted, CoveredUpTo, Accounted, Content

\* A watcher that does not move stays covered when lines are ingested or dropped.
LEMMA CoveredStays ==
  ASSUME NEW w \in Watchers, CoveredUpTo(w), watcher'[w] = watcher[w], watched' = watched,
         hidden' = hidden, dropped \subseteq dropped',
         \A l \in WLines : seen[l] > 0 => seen'[l] > 0,
         \A k \in 1 .. watcher[w].off : <<watched.gen, k>> \in WLines
  PROVE  CoveredUpTo(w)'
  BY DEF CoveredUpTo, Accounted, Content

LEMMA CoveredStep ==
  ASSUME WatchTypeOK, WatchersReal, \A w \in Watchers : CoveredUpTo(w), [WatchNext]_watchVars
  PROVE  (\A w \in Watchers : CoveredUpTo(w))'
<1> SUFFICES ASSUME NEW w \in Watchers PROVE CoveredUpTo(w)'
  OBVIOUS
<1>0. /\ watcher[w] \in Keeper /\ watched.gen \in WGens /\ watched.gen \in Nat
      /\ watched.len \in Nat /\ watched.len <= WatchLen /\ watcher[w].off \in Nat
      /\ watcher[w].off <= WatchLen /\ watcher[w].gen \in Nat /\ watcher[w].start \in Nat
      /\ Real(w) /\ CoveredUpTo(w)
  BY WatchRanges DEF WatchTypeOK, Keeper, WatchersReal
<1>a. \A k \in 1 .. watcher[w].off : <<watched.gen, k>> \in WLines
  BY <1>0, WatchRanges DEF WLines
<1>1. CASE AppendLine
  <2>1. /\ watched'.gen = watched.gen /\ watcher' = watcher /\ seen' = seen
        /\ dropped' = dropped /\ hidden \subseteq hidden'
    BY <1>1 DEF AppendLine, Change, WatchTypeOK
  <2> QED BY <1>0, <2>1 DEF CoveredUpTo, Accounted, Content
<1>2. CASE Replace
  <2>1. watched'.gen = watched.gen + 1 /\ watcher' = watcher
    BY <1>2 DEF Replace, Change
  <2> QED BY <1>0, <2>1 DEF CoveredUpTo, Content, Real
<1>3. ASSUME NEW v \in Watchers, Handover(v) PROVE CoveredUpTo(w)'
  BY <1>0, <1>3, <1>a, CoveredStays DEF Handover
<1>4. ASSUME NEW v \in Watchers, Watch(v) \/ IngestFails(v) \/ WatcherDies(v), v # w
      PROVE  CoveredUpTo(w)'
  <2>1. /\ watched' = watched /\ hidden' = hidden /\ dropped \subseteq dropped'
    BY <1>4 DEF Watch, StartWatch, BeginScan, SizeFile, ReadFile, IngestLines, IngestFails,
                WatcherDies
  <2>2. \A l \in WLines : seen[l] > 0 => seen'[l] > 0
    <3>1. CASE IngestLines(v)
      BY <3>1 DEF IngestLines, WatchTypeOK
    <3>2. CASE ~IngestLines(v)
      BY <1>4, <3>2 DEF Watch, StartWatch, BeginScan, SizeFile, ReadFile, IngestFails,
                        WatcherDies
    <3> QED BY <3>1, <3>2
  <2>3. \E x \in Keeper : Became(v, x)
    BY <1>4, WatchSteps, WatchRanges DEF Watch
  <2>4. watcher'[w] = watcher[w]
    BY <1>4, <2>3, OneWatcher
  <2> QED BY <1>0, <1>a, <2>1, <2>2, <2>4, CoveredStays
<1>5. CASE StartWatch(w)
  <2>1. /\ watcher'[w].off = watched.len
        /\ watcher'[w].primed = <<watched.gen, watched.len>>
    BY <1>5, WatchSteps, OneWatcher
  <2>2. watched' = watched
    BY <1>5 DEF StartWatch
  <2> QED BY <1>0, <2>1, <2>2 DEF CoveredUpTo, Accounted, Content
<1>6. CASE BeginScan(w) \/ SizeFile(w)
  <2>1. /\ watcher'[w].gen = watcher[w].gen /\ watcher'[w].off = watcher[w].off
        /\ watcher'[w].lines = watcher[w].lines /\ watcher'[w].primed = watcher[w].primed
    BY <1>6, WatchSteps, OneWatcher
  <2>2. /\ watcher[w].pc # "off" /\ watched' = watched /\ hidden' = hidden
        /\ dropped' = dropped /\ seen' = seen
    BY <1>6 DEF BeginScan, SizeFile
  <2> QED BY <1>0, <2>1, <2>2 DEF CoveredUpTo, Accounted, Content
<1>7. CASE ReadFile(w)
  <2>1. /\ watcher'[w].lines = NewLines(w) /\ watcher'[w].primed = watcher[w].primed
        /\ \/ /\ NewLines(w) = {}
              /\ watcher'[w].gen = watcher[w].gen /\ watcher'[w].off = watcher[w].start
           \/ /\ NewLines(w) # {}
              /\ watcher'[w].gen = watched.gen /\ watcher'[w].off = watched.len
    BY <1>7, WatchSteps, OneWatcher
  <2>2. /\ watcher[w].pc = "sized" /\ watched' = watched /\ hidden' = hidden
        /\ dropped' = dropped /\ seen' = seen
    BY <1>7 DEF ReadFile
  <2>3. watcher[w].lines = {}
    BY <1>0, <2>2 DEF Real
  <2>4. CASE watcher[w].gen = watched.gen
    <3>1. watcher[w].start = watcher[w].off
      BY <1>0, <2>2, <2>4 DEF Real, Content
    <3>2. \A k \in 1 .. watched.len : k <= watcher[w].start \/ <<watched.gen, k>> \in NewLines(w)
      BY <1>0 DEF NewLines
    <3>3. Content \notin hidden => \A k \in 1 .. watcher[w].start : Accounted(w, k)
      BY <1>0, <2>2, <2>4, <3>1 DEF CoveredUpTo, Content
    <3>4. ASSUME Content \notin hidden, NEW k \in 1 .. watcher[w].start PROVE Accounted(w, k)'
      BY <2>1, <2>2, <2>3, <3>3, <3>4 DEF Accounted, Content
    <3>5. ASSUME NEW k \in 1 .. watched.len, k > watcher[w].start PROVE Accounted(w, k)'
      BY <1>0, <2>1, <2>2, <3>2, <3>5 DEF Accounted, Content
    <3> QED BY <1>0, <2>1, <2>2, <3>4, <3>5 DEF CoveredUpTo, Content
  <2>5. CASE watcher[w].gen # watched.gen
    <3>1. CASE NewLines(w) = {}
      BY <2>1, <2>2, <2>5, <3>1 DEF CoveredUpTo, Content
    <3>2. CASE NewLines(w) # {} /\ watcher[w].start = 0
      <4>1. \A k \in 1 .. watched.len : <<watched.gen, k>> \in NewLines(w)
        BY <1>0, <3>2 DEF NewLines
      <4> QED BY <1>0, <2>1, <2>2, <3>2, <4>1 DEF CoveredUpTo, Accounted, Content
    <3>3. CASE NewLines(w) # {} /\ watcher[w].start # 0
      <4>1. watcher[w].start + 1 <= watched.len
        BY <1>0, <3>3 DEF NewLines
      <4>2. Content \in hidden
        BY <1>0, <2>2, <2>5, <3>3, <4>1 DEF Real, Hides, Content
      <4> QED BY <2>2, <4>2 DEF CoveredUpTo, Content
    <3> QED BY <3>1, <3>2, <3>3
  <2> QED BY <2>4, <2>5
<1>8. CASE IngestLines(w)
  <2>1. /\ watcher'[w].gen = watcher[w].gen /\ watcher'[w].off = watcher[w].off
        /\ watcher'[w].primed = watcher[w].primed
    BY <1>8, WatchSteps, OneWatcher
  <2>2. /\ watcher[w].pc # "off" /\ watched' = watched /\ hidden' = hidden /\ dropped' = dropped
        /\ seen' = [l \in WLines |-> IF l \in watcher[w].lines THEN seen[l] + 1 ELSE seen[l]]
    BY <1>8 DEF IngestLines
  <2>3. \A l \in WLines : seen[l] > 0 \/ l \in watcher[w].lines => seen'[l] > 0
    BY <2>2 DEF WatchTypeOK
  <2> QED BY <1>0, <1>a, <2>1, <2>2, <2>3 DEF CoveredUpTo, Accounted, Content
<1>9. CASE IngestFails(w)
  <2>1. /\ watcher'[w].gen = watcher[w].gen /\ watcher'[w].off = watcher[w].off
        /\ watcher'[w].primed = watcher[w].primed
    BY <1>9, WatchSteps, OneWatcher
  <2>2. /\ watcher[w].pc # "off" /\ watched' = watched /\ hidden' = hidden
        /\ dropped' = dropped \cup watcher[w].lines /\ seen' = seen
    BY <1>9 DEF IngestFails
  <2> QED BY <1>0, <2>1, <2>2 DEF CoveredUpTo, Accounted, Content
<1>10. CASE WatcherDies(w)
  <2>1. watcher'[w].pc = "off"
    BY <1>10, WatchSteps, OneWatcher, WatchRanges DEF Off
  <2> QED BY <2>1 DEF CoveredUpTo
<1>11. CASE UNCHANGED watchVars
  BY <1>0, <1>11, <1>a, CoveredStays DEF watchVars
<1> QED BY <1>1, <1>2, <1>3, <1>4, <1>5, <1>6, <1>7, <1>8, <1>9, <1>10, <1>11
        DEF WatchNext, Watch

LEMMA PassedStep ==
  WatchTypeOK /\ WatchersReal /\ PassedLineAccounted /\ [WatchNext]_watchVars
    => PassedLineAccounted'
  BY PassedIsCovered, CoveredStep, PTL

LEMMA PassedAtStart == WatchInit => PassedLineAccounted
  BY DEF WatchInit, PassedLineAccounted, Off

-----------------------------------------------------------------------------
(* Every delivery is paid for *)

LEMMA DeliveriesAtStart == WatchInit => DeliveriesPaid
<1> SUFFICES ASSUME WatchInit, NEW l \in WLines PROVE LinePaid(l)
  BY DEF DeliveriesPaid
<1>1. MayIngest(l) \subseteq {inCharge}
  BY DEF WatchInit, MayIngest, Able, Scanning, Off
<1>2. IsFiniteSet(MayIngest(l)) /\ Cardinality(MayIngest(l)) \in Nat
      /\ Cardinality(MayIngest(l)) <= 1
  BY <1>1, CountAtMostOne
<1> QED BY <1>2 DEF WatchInit, LinePaid

\* A step that ingests nothing and lets nobody else ingest leaves the account as it is.
LEMMA PaidStays ==
  ASSUME WatchTypeOK, NEW l \in WLines, LinePaid(l), seen' = seen, handovers' = handovers,
         MayIngest(l)' \subseteq MayIngest(l)
  PROVE  LinePaid(l)'
<1>1. /\ IsFiniteSet(MayIngest(l)') /\ Cardinality(MayIngest(l)') \in Nat
      /\ Cardinality(MayIngest(l)) \in Nat
      /\ Cardinality(MayIngest(l)') <= Cardinality(MayIngest(l))
  BY CountNoMore DEF LinePaid
<1>2. seen[l] \in Nat /\ handovers \in Nat
  BY DEF WatchTypeOK
<1> QED BY <1>1, <1>2 DEF LinePaid

LEMMA DeliveriesStep ==
  WatchTypeOK /\ WatchersReal /\ DeliveriesPaid /\ [WatchNext]_watchVars => DeliveriesPaid'
<1> SUFFICES ASSUME WatchTypeOK, WatchersReal, DeliveriesPaid, [WatchNext]_watchVars,
                    NEW l \in WLines
             PROVE  LinePaid(l)'
  BY DEF DeliveriesPaid
<1>0. /\ watched.gen \in Nat /\ watched.len \in Nat /\ LinePaid(l) /\ seen[l] \in Nat
      /\ handovers \in Nat /\ l[1] \in Nat /\ l[2] \in Nat
  BY WatchRanges DEF WatchTypeOK, DeliveriesPaid
<1>a. \A w \in Watchers : /\ watcher[w] \in Keeper /\ Real(w) /\ watcher[w].gen \in Nat
                          /\ watcher[w].off \in Nat
  BY WatchRanges DEF WatchTypeOK, Keeper, WatchersReal
<1>1. CASE AppendLine
  <2>1. /\ watched'.gen = watched.gen /\ watched'.len = watched.len + 1 /\ watcher' = watcher
        /\ inCharge' = inCharge /\ seen' = seen /\ handovers' = handovers
    BY <1>1 DEF AppendLine, Change, WatchTypeOK
  <2>2. ASSUME NEW w \in Watchers, Able(w, l)' PROVE Able(w, l)
    BY <1>0, <2>1, <2>2 DEF Able, PastIt, Scanning, Content
  <2>3. MayIngest(l)' \subseteq MayIngest(l)
    BY <2>2 DEF MayIngest
  <2> QED BY <1>0, <2>1, <2>3, PaidStays
<1>2. CASE Replace
  <2>1. /\ watched'.gen = watched.gen + 1 /\ watcher' = watcher
        /\ inCharge' = inCharge /\ seen' = seen /\ handovers' = handovers
    BY <1>2 DEF Replace, Change, WatchTypeOK
  <2>2. ASSUME NEW w \in Watchers, Able(w, l)' PROVE Able(w, l)
    BY <1>0, <2>1, <2>2 DEF Able, PastIt, Scanning, Content
  <2>3. MayIngest(l)' \subseteq MayIngest(l)
    BY <2>2 DEF MayIngest
  <2> QED BY <1>0, <2>1, <2>3, PaidStays
<1>3. ASSUME NEW w \in Watchers, Handover(w) PROVE LinePaid(l)'
  <2>1. /\ watched' = watched /\ watcher' = watcher /\ seen' = seen
        /\ inCharge' = w /\ handovers' = handovers + 1
    BY <1>3 DEF Handover
  <2>2. ASSUME NEW v \in Watchers \ {w}, Able(v, l)' PROVE Able(v, l)
    BY <2>1, <2>2 DEF Able, PastIt, Scanning, Content
  <2>3. MayIngest(l)' \subseteq MayIngest(l) \cup {w}
    BY <2>2 DEF MayIngest
  <2>4. /\ IsFiniteSet(MayIngest(l)') /\ Cardinality(MayIngest(l)') \in Nat
        /\ Cardinality(MayIngest(l)) \in Nat
        /\ Cardinality(MayIngest(l)') <= Cardinality(MayIngest(l)) + 1
    BY <1>0, <2>3, CountOneMore DEF LinePaid
  <2> QED BY <1>0, <2>1, <2>4 DEF LinePaid
<1>4. ASSUME NEW w \in Watchers, Watch(w) \/ IngestFails(w) \/ WatcherDies(w)
      PROVE  LinePaid(l)'
  <2>1. watched' = watched /\ inCharge' = inCharge /\ handovers' = handovers
    BY <1>4 DEF Watch, StartWatch, BeginScan, SizeFile, ReadFile, IngestLines, IngestFails,
                WatcherDies
  <2>2. \E x \in Keeper : Became(w, x)
    BY <1>4, WatchSteps, WatchRanges DEF Watch
  <2>3. ASSUME NEW v \in Watchers \ {w}, Able(v, l)' PROVE Able(v, l)
    <3>1. watcher'[v] = watcher[v]
      BY <2>2, <2>3, OneWatcher
    <3> QED BY <2>1, <2>3, <3>1 DEF Able, PastIt, Scanning, Content
  <2>a. ASSUME Able(w, l)' => Able(w, l), seen' = seen PROVE LinePaid(l)'
    <3>1. MayIngest(l)' \subseteq MayIngest(l)
      BY <2>3, <2>a DEF MayIngest
    <3> QED BY <1>0, <2>1, <2>a, <3>1, PaidStays
  <2>4. CASE StartWatch(w)
    <3>1. /\ watcher'[w].pc = "waiting" /\ watcher'[w].lines = {}
          /\ watcher'[w].gen = watched.gen /\ watcher'[w].off = watched.len
      BY <2>4, WatchSteps, OneWatcher
    <3>2. watcher[w].pc = "off" /\ seen' = seen
      BY <2>4 DEF StartWatch
    <3>3. Able(w, l)' => Able(w, l)
      BY <2>1, <3>1, <3>2 DEF Able, PastIt, Scanning, Content
    <3> QED BY <2>a, <3>2, <3>3
  <2>5. CASE BeginScan(w)
    <3>1. /\ watcher'[w].pc = "leading" /\ watcher'[w].lines = watcher[w].lines
          /\ watcher'[w].gen = watcher[w].gen /\ watcher'[w].off = watcher[w].off
      BY <2>5, WatchSteps, OneWatcher
    <3>2. watcher[w].pc = "waiting" /\ inCharge = w /\ seen' = seen
      BY <2>5 DEF BeginScan, MayScan
    <3>3. Able(w, l)' => Able(w, l)
      BY <2>1, <3>1, <3>2 DEF Able, PastIt, Scanning, Content
    <3> QED BY <2>a, <3>2, <3>3
  <2>6. CASE SizeFile(w)
    <3>1. /\ watcher'[w].lines = watcher[w].lines /\ watcher'[w].pc \in {"waiting", "sized"}
          /\ watcher'[w].gen = watcher[w].gen /\ watcher'[w].off = watcher[w].off
      BY <2>6, WatchSteps, OneWatcher
    <3>2. watcher[w].pc = "leading" /\ seen' = seen
      BY <2>6 DEF SizeFile
    <3>3. Able(w, l)' => Able(w, l)
      BY <2>1, <3>1, <3>2 DEF Able, PastIt, Scanning, Content
    <3> QED BY <2>a, <3>2, <3>3
  <2>7. CASE ReadFile(w)
    <3>1. /\ watcher'[w].lines = NewLines(w)
          /\ \/ /\ NewLines(w) = {} /\ watcher'[w].pc = "waiting"
                /\ watcher'[w].gen = watcher[w].gen /\ watcher'[w].off = watcher[w].start
             \/ /\ NewLines(w) # {} /\ watcher'[w].pc = "holding"
                /\ watcher'[w].gen = watched.gen /\ watcher'[w].off = watched.len
      BY <2>7, WatchSteps, OneWatcher
    <3>2. watcher[w].pc = "sized" /\ seen' = seen
      BY <2>7 DEF ReadFile
    <3>3. /\ watcher[w].gen = Content => watcher[w].start = watcher[w].off
          /\ watcher[w].start \in Nat
      BY <1>a, <3>2, WatchRanges DEF Real, Keeper
    <3>4. l \in NewLines(w) => l[1] = Content /\ watcher[w].start < l[2]
      BY <1>0, <3>3 DEF NewLines, Content
    <3>5. l \in NewLines(w) => Able(w, l)
      BY <1>0, <1>a, <3>2, <3>3, <3>4 DEF Able, PastIt, Scanning, Content
    <3>6. Able(w, l)' => Able(w, l)
      <4>1. CASE NewLines(w) = {}
        BY <1>a, <2>1, <3>1, <3>2, <3>3, <4>1 DEF Able, PastIt, Scanning, Content
      <4>2. CASE NewLines(w) # {}
        <5>1. l[1] = Content /\ l[2] > watched.len => ~PastIt(w, l)
          BY <1>0, <1>a, <3>2 DEF PastIt, Real, Content
        <5>2. l[1] # Content => ~PastIt(w, l)
          BY DEF PastIt
        <5> QED BY <1>0, <2>1, <3>1, <3>2, <3>5, <4>2, <5>1, <5>2 DEF Able, PastIt, Scanning, Content
      <4> QED BY <4>1, <4>2
    <3> QED BY <2>a, <3>2, <3>6
  <2>8. CASE IngestFails(w)
    <3>1. /\ watcher'[w].pc = "waiting" /\ watcher'[w].lines = {}
          /\ watcher'[w].gen = watcher[w].gen /\ watcher'[w].off = watcher[w].off
      BY <2>8, WatchSteps, OneWatcher
    <3>2. watcher[w].pc = "holding" /\ seen' = seen
      BY <2>8 DEF IngestFails
    <3>3. Able(w, l)' => Able(w, l)
      BY <2>1, <3>1, <3>2 DEF Able, PastIt, Scanning, Content
    <3> QED BY <2>a, <3>2, <3>3
  <2>9. CASE WatcherDies(w)
    <3>1. watcher'[w].pc = "off" /\ watcher'[w].lines = {}
      BY <2>9, WatchSteps, OneWatcher, WatchRanges DEF Off
    <3>2. watcher[w].pc # "off" /\ seen' = seen
      BY <2>9 DEF WatcherDies
    <3>3. PastIt(w, l) => PastIt(w, l)'
      BY <1>0, <1>a, <2>1, <3>1, <3>2 DEF PastIt, Real, Content
    <3>4. Able(w, l)' => Able(w, l)
      BY <2>1, <3>1, <3>3 DEF Able, Scanning, Content
    <3> QED BY <2>a, <3>2, <3>4
  <2>10. CASE IngestLines(w)
    <3>1. /\ watcher'[w].pc = "waiting" /\ watcher'[w].lines = {}
          /\ watcher'[w].gen = watcher[w].gen /\ watcher'[w].off = watcher[w].off
      BY <2>10, WatchSteps, OneWatcher
    <3>2. watcher[w].pc = "holding"
      BY <2>10 DEF IngestLines
    <3>3. seen'[l] = IF l \in watcher[w].lines THEN seen[l] + 1 ELSE seen[l]
      BY <2>10 DEF IngestLines
    <3>4. Able(w, l)' => Able(w, l)
      BY <2>1, <3>1, <3>2 DEF Able, PastIt, Scanning, Content
    <3>5. MayIngest(l)' \subseteq MayIngest(l)
      BY <2>3, <3>4 DEF MayIngest
    <3>6. CASE l \in watcher[w].lines
      <4>1. l[1] = watcher[w].gen /\ l[2] <= watcher[w].off /\ watcher[w].gen <= Content
        BY <1>a, <3>6 DEF Real
      <4>2. ~Able(w, l)'
        BY <1>0, <1>a, <2>1, <3>1, <4>1 DEF Able, PastIt, Content
      <4>3. MayIngest(l)' \subseteq MayIngest(l) \ {w} /\ w \in MayIngest(l)
        BY <3>5, <3>6, <4>2 DEF MayIngest, Able
      <4>4. /\ IsFiniteSet(MayIngest(l)') /\ Cardinality(MayIngest(l)') \in Nat
            /\ Cardinality(MayIngest(l)) \in Nat
            /\ Cardinality(MayIngest(l)') + 1 <= Cardinality(MayIngest(l))
        BY <1>0, <4>3, CountOneLess DEF LinePaid
      <4> QED BY <1>0, <2>1, <3>3, <3>6, <4>4 DEF LinePaid
    <3>7. CASE l \notin watcher[w].lines
      <4>1. /\ IsFiniteSet(MayIngest(l)') /\ Cardinality(MayIngest(l)') \in Nat
            /\ Cardinality(MayIngest(l)) \in Nat
            /\ Cardinality(MayIngest(l)') <= Cardinality(MayIngest(l))
        BY <1>0, <3>5, CountNoMore DEF LinePaid
      <4> QED BY <1>0, <2>1, <3>3, <3>7, <4>1 DEF LinePaid
    <3> QED BY <3>6, <3>7
  <2> QED BY <1>4, <2>4, <2>5, <2>6, <2>7, <2>8, <2>9, <2>10 DEF Watch
<1>5. CASE UNCHANGED watchVars
  <2>1. MayIngest(l)' \subseteq MayIngest(l) /\ seen' = seen /\ handovers' = handovers
    BY <1>5 DEF watchVars, MayIngest, Able, PastIt, Scanning, Content
  <2> QED BY <1>0, <2>1, PaidStays
<1> QED BY <1>1, <1>2, <1>3, <1>4, <1>5 DEF WatchNext

\* log_listeners.scan_log_dir: the inductive invariant.  Offsets count lines that exist,
\* every line a watcher is past is accounted for, and each line's deliveries, made or
\* still possible, are paid for by the changes of the leader.
THEOREM WatchInvariant == WatchSpec => []WatchIInv
<1>1. WatchInit => WatchIInv
  BY RealAtStart, PassedAtStart, DeliveriesAtStart DEF WatchIInv
<1>2. WatchTypeOK /\ WatchIInv /\ [WatchNext]_watchVars => WatchIInv'
  BY RealStep, PassedStep, DeliveriesStep DEF WatchIInv
<1> QED BY <1>1, <1>2, WatchTypes, PTL DEF WatchSpec

\* scan_log_dir moves the offset before it ingests: a line a watcher has gone past was
\* ingested, is in its hands, was there when it started, was lost with a failed ingest or
\* a crash, or belongs to a content that grew unnoticed past another content's offset.
THEOREM PassedLineTheorem == WatchSpec => []PassedLineAccounted
<1>1. WatchIInv => PassedLineAccounted
  BY DEF WatchIInv
<1> QED BY <1>1, WatchInvariant, PTL

\* _watch_loop scans on the leader only: no line is ingested more often than once and once
\* per change of the leader, whatever fails, dies or is replaced in between.
THEOREM RepeatsFollowHandoverTheorem == WatchSpec => []RepeatsFollowHandover
<1>1. ASSUME WatchTypeOK, WatchIInv PROVE RepeatsFollowHandover
  <2> SUFFICES ASSUME NEW l \in WLines PROVE seen[l] <= 1 + handovers
    BY DEF RepeatsFollowHandover
  <2>1. LinePaid(l) /\ seen[l] \in Nat /\ handovers \in Nat
    BY <1>1 DEF WatchIInv, DeliveriesPaid, WatchTypeOK
  <2>2. Cardinality(MayIngest(l)) \in Nat
    BY <2>1, FS_CardinalityType DEF LinePaid
  <2> QED BY <2>1, <2>2 DEF LinePaid
<1> QED BY <1>1, WatchTypes, WatchInvariant, PTL

-----------------------------------------------------------------------------
(* The directory watchers are an Intake *)

\* Every step of the file's writer, of the lease or of a watcher is one of an Intake.
LEMMA WatchIntakeStep ==
  /\ WatchTypeOK /\ WatchTypeOK' /\ PassedLineAccounted' /\ RepeatsFollowHandover'
  /\ [WatchNext]_watchVars
  => FromDirectory!Next
<1> SUFFICES ASSUME WatchTypeOK, WatchTypeOK', PassedLineAccounted', RepeatsFollowHandover',
                    [WatchNext]_watchVars
             PROVE  FromDirectory!Next
  OBVIOUS
<1> DEFINE Arrive(L) == seen' = [l \in WLines |-> IF l \in L THEN seen[l] + 1 ELSE seen[l]]
<1>0. /\ handovers \in Nat /\ handovers' \in Nat
      /\ seen \in [WLines -> Nat] /\ seen' \in [WLines -> Nat]
      /\ dropped \subseteq WLines /\ dropped' \subseteq WLines
      /\ \A w \in Watchers : watcher[w].lines \in SUBSET WLines
  BY DEF WatchTypeOK
<1>1. /\ handovers' \in {handovers, handovers + 1}
      /\ dropped \subseteq dropped' /\ hidden \subseteq hidden'
      /\ seen' = seen \/ \E w \in Watchers : Arrive(watcher[w].lines)
  <2>1. CASE AppendLine \/ Replace
    BY <2>1 DEF AppendLine, Replace, Change
  <2>2. ASSUME NEW w \in Watchers, Handover(w)
        PROVE  UNCHANGED <<dropped, hidden, seen>> /\ handovers' = handovers + 1
    BY <2>2 DEF Handover
  <2>3. ASSUME NEW w \in Watchers, StartWatch(w) \/ BeginScan(w) \/ SizeFile(w) \/ ReadFile(w)
        PROVE  UNCHANGED <<dropped, hidden, seen, handovers>>
    BY <2>3 DEF StartWatch, BeginScan, SizeFile, ReadFile
  <2>4. ASSUME NEW w \in Watchers, IngestLines(w)
        PROVE  UNCHANGED <<dropped, hidden, handovers>> /\ Arrive(watcher[w].lines)
    BY <2>4 DEF IngestLines
  <2>5. ASSUME NEW w \in Watchers, IngestFails(w) \/ WatcherDies(w)
        PROVE  UNCHANGED <<hidden, seen, handovers>> /\ dropped \subseteq dropped'
    BY <2>5 DEF IngestFails, WatcherDies
  <2>6. CASE UNCHANGED watchVars
    BY <2>6 DEF watchVars
  <2> HIDE DEF Arrive
  <2> QED BY <2>1, <2>2, <2>3, <2>4, <2>5, <2>6 DEF WatchNext, Watch
<1>2. \E B \in SUBSET WLines : FromDirectory!TakeIn(B)
  <2>1. \E B \in SUBSET WLines : Arrive(B)
    <3>1. CASE seen' = seen
      <4>1. seen \in [WLines -> Nat]
        BY <1>0
      <4> QED BY <3>1, <4>1, NoneTaken
    <3>2. CASE \E w \in Watchers : Arrive(watcher[w].lines)
      <4> HIDE DEF Arrive
      <4> QED BY <1>0, <3>2
    <3> QED BY <1>1, <3>1, <3>2
  <2>2. PICK B \in SUBSET WLines : Arrive(B)
    BY <2>1
  <2>3. ASSUME NEW l \in B PROVE seen[l] <= handovers'
    <3>1. seen'[l] = seen[l] + 1 /\ seen[l] \in Nat
      BY <1>0, <2>2
    <3>2. seen'[l] <= 1 + handovers'
      BY DEF RepeatsFollowHandover
    <3> QED BY <1>0, <3>1, <3>2
  <2> QED BY <2>2, <2>3 DEF FromDirectory!TakeIn
<1>3. FromDirectory!Record
  <2>1. ASSUME NEW w \in Watchers, NEW l \in GonePast(w)', l \notin dropped', l[1] \notin hidden'
        PROVE  seen'[l] > 0
    <3>1. /\ l \in WLines /\ l \notin watcher'[w].lines /\ watcher'[w].pc # "off"
          /\ l[1] = watched'.gen /\ watcher'[w].gen = watched'.gen
          /\ l[2] <= watcher'[w].off
          /\ ~ (l[1] = watcher'[w].primed[1] /\ l[2] <= watcher'[w].primed[2])
      BY DEF GonePast
    <3>2. l = <<watched'.gen, l[2]>> /\ l[2] \in 1 .. WatchLen /\ watcher'[w].off \in 0 .. WatchLen
      BY <3>1 DEF WLines, WatchTypeOK
    <3>3. l[2] \in 1 .. watcher'[w].off
      BY <3>1, <3>2, WatchAssumption
    <3> QED BY <2>1, <3>1, <3>2, <3>3 DEF PassedLineAccounted
  <2>2. UNION {GonePast(w)' : w \in Watchers} \in SUBSET WLines
    BY DEF GonePast
  <2>3. UNION {GonePast(w) : w \in Watchers}' = UNION {GonePast(w)' : w \in Watchers}
    OBVIOUS
  <2> QED BY <1>0, <1>1, <2>1, <2>2, <2>3 DEF FromDirectory!Record
<1> QED BY <1>1, <1>2, <1>3 DEF FromDirectory!Next, FromDirectory!Account

\* However the lease wanders between the replicas and the file is replaced under them, the
\* watchers together are an Intake.
THEOREM WatchIsIntake == WatchSpec => WatchTakesIn
<1>1. WatchInit => FromDirectory!Init
  BY DEF WatchInit, FromDirectory!Init, GonePast, Off
<1> QED BY <1>1, WatchTypes, PassedLineTheorem, RepeatsFollowHandoverTheorem,
           WatchIntakeStep, PTL
        DEF WatchSpec, WatchTakesIn, FromDirectory!Spec
=============================================================================
