------------------------------ MODULE Collector ------------------------------
(***************************************************************************)
(* The log collector (collector/threatorbit_collector.py): an agent on     *)
(* another host that tails a file, ships complete lines to POST            *)
(* /siem/ingest, and remembers {inode, offset} in a state file.            *)
(*                                                                         *)
(* One tailed file, whose writer appends, rotates by renaming, or          *)
(* truncates in place.  Offsets count complete lines.  run_pass looks at   *)
(* the file three times (its own os.stat, the os.stat of read_new_lines,   *)
(* its open), and the writer may act between any two of them: each look is *)
(* an action.  `gen` tells contents of the file apart that the code cannot *)
(* (it knows inodes only) and decides nothing in the model.                *)
(*                                                                         *)
(* A definition whose comment begins with (slip) is a mistake the code     *)
(* could have made in the definition that follows it.                      *)
(***************************************************************************)
EXTENDS Integers, FiniteSets

CONSTANTS Inodes,          \* inode numbers the path has in turn; they are reused
          MaxGen,          \* bound on how often the content is replaced
          MaxLen,          \* bound on the lines of one content
          ShipBatch,       \* --batch
          MaxAgentFaults   \* bound on crashes, refusals, lost answers, failed saves

ASSUME CollectorAssumption ==
  /\ Inodes # {}
  /\ MaxGen \in Nat
  /\ MaxLen \in Nat
  /\ ShipBatch \in Nat \ {0}
  /\ MaxAgentFaults \in Nat

VARIABLES
  logfile,      \* the file at the path: inode, content, complete lines, an unfinished line
  mem,          \* Checkpoint.data[path]
  disk,         \* the state file
  agent,        \* run_pass: where it is, and its local variables
  received,     \* how often the server has ingested each line
  spliced,      \* contents that grew past an offset remembered for another content
  agentFaults

collectorVars == <<logfile, mem, disk, agent, received, spliced, agentFaults>>

Gens == 0 .. MaxGen
Lines == Gens \X (1 .. MaxLen)

Offset == [inode : Inodes, gen : Gens, off : 0 .. MaxLen]

CollectorTypeOK ==
  /\ logfile \in [inode : Inodes, gen : Gens, len : 0 .. MaxLen, half : BOOLEAN]
  /\ mem \in Offset
  /\ disk \in Offset
  /\ agent \in [pc    : {"down", "idle", "opened", "statted", "read", "taken"},
                inode : Inodes, gen : Gens, off : 0 .. MaxLen, to : 0 .. MaxLen]
  /\ received \in [Lines -> Nat]
  /\ spliced \in SUBSET Gens
  /\ agentFaults \in 0 .. MaxAgentFaults

\* An offset of 0 stands for a missing record as well: offset_for returns 0 for both.
CollectorInit ==
  \E i \in Inodes :
    /\ logfile = [inode |-> i, gen |-> 0, len |-> 0, half |-> FALSE]
    /\ mem = [inode |-> i, gen |-> 0, off |-> 0]
    /\ disk = mem
    /\ agent = [pc |-> "down", inode |-> i, gen |-> 0, off |-> 0, to |-> 0]
    /\ received = [l \in Lines |-> 0]
    /\ spliced = {}
    /\ agentFaults = 0

AgentFault == agentFaults < MaxAgentFaults /\ agentFaults' = agentFaults + 1

-----------------------------------------------------------------------------
(* The writer of the file *)

\* After a full batch run_pass goes on with the offset in hand, whatever the path
\* holds by then.
GoesOn == agent.pc \in {"read", "taken"} /\ agent.to - agent.off = ShipBatch

\* What run_pass holds that will be used as an offset into the file f.  From the moment
\* it has looked the offset up, no inode stands between the offset and the file.
Held(f) ==
  CASE agent.pc \in {"opened", "statted"} ->
         {[inode |-> f.inode, gen |-> agent.gen, off |-> agent.off]}
    [] agent.pc \in {"read", "taken"} ->
         {[inode |-> IF GoesOn THEN f.inode ELSE agent.inode, gen |-> agent.gen, off |-> agent.to]}
    [] OTHER -> {}

\* An offset counts lines of another content, and f is long enough to hide it.
Misleading(f) == \E c \in {mem, disk} \cup Held(f) :
                   c.gen # f.gen /\ c.inode = f.inode /\ 0 < c.off /\ c.off <= f.len

Write(f) ==
  /\ logfile' = f
  /\ spliced' = IF Misleading(f) THEN spliced \cup {f.gen} ELSE spliced
  /\ UNCHANGED <<mem, disk, agent, received, agentFaults>>

BeginLine == /\ ~logfile.half
             /\ logfile.len < MaxLen
             /\ Write([logfile EXCEPT !.half = TRUE])

EndLine == /\ logfile.half
           /\ Write([logfile EXCEPT !.half = FALSE, !.len = logfile.len + 1])

\* logrotate: rename and create, or copytruncate.
Rotate(i) == /\ logfile.gen < MaxGen
             /\ i # logfile.inode
             /\ Write([inode |-> i, gen |-> logfile.gen + 1, len |-> 0, half |-> FALSE])

Truncate == /\ logfile.gen < MaxGen
            /\ Write([logfile EXCEPT !.gen = logfile.gen + 1, !.len = 0, !.half = FALSE])

-----------------------------------------------------------------------------
(* The agent *)

\* (slip) The offset is looked up by path alone.
OffsetForPath(inode) == mem

\* Checkpoint.offset_for: an offset for another inode is void.
OffsetFor(inode) ==
  IF mem.inode = inode THEN mem ELSE [inode |-> inode, gen |-> logfile.gen, off |-> 0]

\* How far read_new_lines may read: a line without a newline stays unread.
Complete(f) == f.len

\* Checkpoint.__init__: a process reads the state file once, when it starts.
StartAgent ==
  /\ agent.pc = "down"
  /\ mem' = disk
  /\ agent' = [agent EXCEPT !.pc = "idle"]
  /\ UNCHANGED <<logfile, disk, received, spliced, agentFaults>>

\* run_pass: os.stat and offset_for.
OpenPass ==
  /\ agent.pc = "idle"
  /\ LET o == OffsetFor(logfile.inode) IN
       agent' = [agent EXCEPT !.pc = "opened", !.inode = logfile.inode,
                              !.gen = o.gen, !.off = o.off]
  /\ UNCHANGED <<logfile, mem, disk, received, spliced, agentFaults>>

\* (slip) An offset beyond the end is kept.
AnyOffset(off) == off

\* An offset beyond the end of the file starts over: the file was truncated.
StartOffset(off) == IF off > logfile.len THEN 0 ELSE off

\* read_new_lines: os.stat.
StatFile ==
  /\ agent.pc = "opened"
  /\ agent' = [agent EXCEPT !.pc = "statted", !.inode = logfile.inode,
                            !.off = StartOffset(agent.off)]
  /\ UNCHANGED <<logfile, mem, disk, received, spliced, agentFaults>>

\* open, seek and read: what is there now.  Nothing new ends the pass.
ReadLines ==
  /\ agent.pc = "statted"
  /\ LET end == IF agent.off + ShipBatch < Complete(logfile)
                THEN agent.off + ShipBatch ELSE Complete(logfile)
     IN  agent' = IF end > agent.off
                  THEN [agent EXCEPT !.pc = "read", !.gen = logfile.gen, !.to = end]
                  ELSE [agent EXCEPT !.pc = "idle"]
  /\ UNCHANGED <<logfile, mem, disk, received, spliced, agentFaults>>

\* The lines the agent holds that the server can take in whole.
Batch == {<<agent.gen, k>> : k \in {k \in agent.off + 1 .. agent.to :
                                      agent.gen = logfile.gen => k <= logfile.len}}

Ingested == received' = [l \in Lines |-> IF l \in Batch THEN received[l] + 1 ELSE received[l]]

\* Shipper.ship returns.
ShipAccepted ==
  /\ agent.pc = "read"
  /\ Ingested
  /\ agent' = [agent EXCEPT !.pc = "taken"]
  /\ UNCHANGED <<logfile, mem, disk, spliced, agentFaults>>

\* The server took the batch, and its answer was lost or came after the timeout.
AnswerLost ==
  /\ agent.pc = "read"
  /\ AgentFault
  /\ Ingested
  /\ agent' = [agent EXCEPT !.pc = "idle"]
  /\ UNCHANGED <<logfile, mem, disk, spliced>>

\* 429 (Backpressure) or an error: the pass ends, the checkpoint stays.
ShipRefused ==
  /\ agent.pc = "read"
  /\ AgentFault
  /\ agent' = [agent EXCEPT !.pc = "idle"]
  /\ UNCHANGED <<logfile, mem, disk, received, spliced>>

\* What follows a batch: the next one with the offset in hand, or the end of the pass.
AfterBatch ==
  IF GoesOn THEN [agent EXCEPT !.pc = "opened", !.off = agent.to]
            ELSE [agent EXCEPT !.pc = "idle"]

\* (slip) The state file is written, the checkpoint in memory is not set.
SaveUnset ==
  /\ agent.pc = "taken"
  /\ agent' = AfterBatch
  /\ UNCHANGED <<logfile, mem, disk, received, spliced, agentFaults>>

\* checkpoint.set and save.
SaveCheckpoint ==
  /\ agent.pc = "taken"
  /\ mem' = [inode |-> agent.inode, gen |-> agent.gen, off |-> agent.to]
  /\ disk' = mem'
  /\ agent' = AfterBatch
  /\ UNCHANGED <<logfile, received, spliced, agentFaults>>

\* save raises (OSError, caught as an error on the path): only the memory has moved.
SaveFails ==
  /\ agent.pc = "taken"
  /\ AgentFault
  /\ mem' = [inode |-> agent.inode, gen |-> agent.gen, off |-> agent.to]
  /\ agent' = [agent EXCEPT !.pc = "idle"]
  /\ UNCHANGED <<logfile, disk, received, spliced>>

AgentDies ==
  /\ agent.pc # "down"
  /\ AgentFault
  /\ agent' = [agent EXCEPT !.pc = "down"]
  /\ UNCHANGED <<logfile, mem, disk, received, spliced>>

Agent == \/ StartAgent \/ OpenPass \/ StatFile \/ ReadLines
         \/ ShipAccepted \/ AnswerLost \/ ShipRefused
         \/ SaveCheckpoint \/ SaveFails

CollectorNext ==
  \/ BeginLine \/ EndLine \/ Truncate
  \/ \E i \in Inodes : Rotate(i)
  \/ Agent \/ AgentDies

CollectorSpec == CollectorInit /\ [][CollectorNext]_collectorVars

CollectorFair == WF_collectorVars(Agent)

-----------------------------------------------------------------------------
(* Properties *)

\* "Advance only after a successful ship": no line before a remembered offset was
\* left out, in memory or in the state file, through crashes, refusals, lost answers
\* and failed saves.  The one way to skip a line is a content that grew past the
\* offset of the content it replaced without the inode or the length giving it away.
\* (Lines still unread when the file is rotated or truncated are before no offset of the
\* file that follows; the code does not look for them.)
NoLineSkipped ==
  \A c \in {mem, disk} :
    c.inode = logfile.inode /\ c.off <= logfile.len /\ logfile.gen \notin spliced =>
      \A k \in 1 .. c.off : received[<<logfile.gen, k>>] > 0

\* At least once, and no more often than something went wrong: every crash, lost
\* answer, failed save or replaced file costs a line one more delivery at most.
\* (Checkpoint's own comment says a line is never shipped again.)
RepeatsArePaidFor ==
  \A l \in Lines : received[l] <= 1 + agentFaults + logfile.gen

\* The agent catches up, again and again: every complete line of the file has been
\* received, unless the content is spliced.
CatchesUp ==
  []<>(\/ logfile.gen \in spliced
       \/ \A k \in 1 .. logfile.len : received[<<logfile.gen, k>>] > 0)

\* The lines the checkpoint gives as shipped, in memory or in the state file.
Shipped ==
  {l \in Lines : /\ l[1] = logfile.gen
                 /\ \E c \in {mem, disk} : /\ c.inode = logfile.inode
                                           /\ c.off <= logfile.len
                                           /\ l[2] <= c.off}

FromAgent == INSTANCE Intake WITH Items   <- Lines,
                                  taken   <- received,
                                  passed  <- Shipped,
                                  excused <- {l \in Lines : l[1] \in spliced},
                                  mishaps <- agentFaults + logfile.gen

\* The agent's checkpoint, kept in two places and read at three, is an intake of lines:
\* "a restart neither re-ships nor drops lines (at-least-once)" (docstring, lines 5-6).
CollectorTakesIn == FromAgent!Spec
=============================================================================
