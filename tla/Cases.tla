--------------------------------- MODULE Cases ---------------------------------
(***************************************************************************)
(* The record of a case (dashboard_api/routers/soar.py): notes, tasks,     *)
(* evidence and links are JSON lists in columns of its row.  Every request *)
(* reads the list, adds to it in memory and writes it back, and nothing is *)
(* locked in between.                                                      *)
(*                                                                         *)
(* An entry of a list is the number of the request that adds it, and a     *)
(* task update counts as an entry of `tasks`.  The entries a case is born  *)
(* with, its owner, tier, status, entities and alert count are left out.   *)
(* The add_note step of a playbook is one more request that adds a note,   *)
(* its create_case step and the engine's automatic cases are CreateCase.   *)
(*                                                                         *)
(* A definition whose comment begins with (slip) is a mistake the code     *)
(* could have made in the definition that follows it.                      *)
(***************************************************************************)
EXTENDS Naturals

CONSTANTS CaseIds,    \* ids of cases
          NoCase,     \* no second case
          Analysts,   \* request threads and playbook runs
          MaxCalls    \* bound on the requests that change a case

ASSUME CaseAssumption ==
  /\ NoCase \notin CaseIds
  /\ MaxCalls \in Nat

Numbers == 1 .. MaxCalls

\* The JSON columns.  linked_cases holds cases, the others entries.
Lists == {"war_room", "evidence", "tasks", "linked_cases"}

Items == Numbers \cup CaseIds

VARIABLES
  opened,     \* the cases that exist
  lists,      \* their JSON columns
  call,       \* what each request has read
  owed,       \* what was put on each list by requests that had it to themselves
  calls

caseVars == <<opened, lists, call, owed, calls>>

Empty == [k \in Lists |-> {}]

NoCall == [pc |-> "idle", op |-> "add", number |-> 0, case |-> NoCase, other |-> NoCase,
           columns |-> {}, mine |-> Empty, theirs |-> Empty, alone |-> TRUE]

Ops == {"add", "link", "merge", "split"}

CaseTypeOK ==
  /\ opened \in SUBSET CaseIds
  /\ lists \in [CaseIds -> [Lists -> SUBSET Items]]
  /\ call \in [Analysts -> [pc      : {"idle", "half", "ready"},
                            op      : Ops,
                            number  : 0 .. MaxCalls,
                            case    : CaseIds \cup {NoCase},
                            other   : CaseIds \cup {NoCase},
                            columns : SUBSET Lists,
                            mine    : [Lists -> SUBSET Items],
                            theirs  : [Lists -> SUBSET Items],
                            alone   : BOOLEAN]]
  /\ owed \in [CaseIds -> [Lists -> SUBSET Items]]
  /\ calls \in 0 .. MaxCalls

CasesInit ==
  /\ opened \in SUBSET CaseIds
  /\ lists = [c \in CaseIds |-> Empty]
  /\ call = [a \in Analysts |-> NoCall]
  /\ owed = [c \in CaseIds |-> Empty]
  /\ calls = 0

-----------------------------------------------------------------------------
(* A request begins: SELECT from the case in its path *)

\* The lists a request reads in order to write them.
Read(c, columns) == [k \in Lists |-> IF k \in columns THEN lists[c][k] ELSE {}]

\* a is in the middle of a request about one of these cases and one of these columns.
Meets(a, about, columns) ==
  /\ call[a].pc # "idle"
  /\ call[a].columns \cap columns # {}
  /\ {call[a].case, call[a].other} \cap about # {}

\* Requests that meet are not alone.
Begin(a, op, c, d, columns) ==
  LET about == {c, d} \ {NoCase} IN
  /\ call[a].pc = "idle"
  /\ c \in opened
  /\ calls < MaxCalls
  /\ calls' = calls + 1
  /\ call' = [b \in Analysts |->
       IF b = a
       THEN [pc |-> IF d = NoCase THEN "ready" ELSE "half",
             op |-> op, number |-> calls + 1, case |-> c, other |-> d, columns |-> columns,
             mine |-> Read(c, columns), theirs |-> Empty,
             alone |-> \A x \in Analysts : ~Meets(x, about, columns)]
       ELSE [call[b] EXCEPT !.alone = @ /\ ~Meets(b, about, columns)]]
  /\ UNCHANGED <<opened, lists, owed>>

\* add_case_note, add_evidence and update_case_task.
Add(a, c, k) == Begin(a, "add", c, NoCase, {k})

Link(a, c, d) == c # d /\ Begin(a, "link", c, d, {"linked_cases"})

Merge(a, c, d) == c # d /\ Begin(a, "merge", c, d, {"linked_cases", "war_room", "evidence"})

Split(a, c) == Begin(a, "split", c, NoCase, {"linked_cases"})

\* link_case and merge_case: the SELECT of the second case, a statement of its own.
ReadOther(a) ==
  /\ call[a].pc = "half"
  /\ call[a].other \in opened
  /\ call' = [call EXCEPT ![a].pc = "ready", ![a].theirs = Read(call[a].other, call[a].columns)]
  /\ UNCHANGED <<opened, lists, owed, calls>>

\* 404, an error, a death, or the loser of a deadlock between two links.
DropCall(a) ==
  /\ call[a].pc # "idle"
  /\ call' = [call EXCEPT ![a] = NoCall]
  /\ UNCHANGED <<opened, lists, owed, calls>>

-----------------------------------------------------------------------------
(* A request ends: its UPDATEs and its commit *)

Ready(a, op) ==
  /\ call[a].pc = "ready"
  /\ call[a].op = op
  /\ call' = [call EXCEPT ![a] = NoCall]

\* (slip) INSERT OR REPLACE: the columns it does not name are set to their default.
Replace(row, columns, read, more) ==
  [k \in Lists |-> IF k \in columns THEN read[k] \cup more[k] ELSE {}]

\* UPDATE cases: the columns that were read, with more on their lists.
Update(row, columns, read, more) ==
  [k \in Lists |-> IF k \in columns THEN read[k] \cup more[k] ELSE row[k]]

Also(row, more) == [k \in Lists |-> row[k] \cup more[k]]

Linked(c) == [Empty EXCEPT !["linked_cases"] = {c}]

CommitAdd(a) ==
  /\ Ready(a, "add")
  /\ LET c == call[a].case
         more == [k \in Lists |-> IF k \in call[a].columns THEN {call[a].number} ELSE {}]
     IN  /\ lists' = [lists EXCEPT ![c] = Update(@, call[a].columns, call[a].mine, more)]
         /\ owed' = IF call[a].alone THEN [owed EXCEPT ![c] = Also(@, more)] ELSE owed
  /\ UNCHANGED <<opened, calls>>

\* Both rows get more; the second one gets a link to the first.
SaveBoth(a, more) ==
  LET c == call[a].case
      d == call[a].other
  IN  /\ lists' = [lists EXCEPT ![c] = Update(@, call[a].columns, call[a].mine, more),
                                ![d] = Update(@, {"linked_cases"}, call[a].theirs, Linked(c))]
      /\ owed' = IF call[a].alone
                 THEN [owed EXCEPT ![c] = Also(@, more), ![d] = Also(@, Linked(c))]
                 ELSE owed
      /\ UNCHANGED <<opened, calls>>

CommitLink(a) ==
  /\ Ready(a, "link")
  /\ SaveBoth(a, Linked(call[a].other))

\* The notes and the evidence of the second case, a note on the merge, and a link.
CommitMerge(a) ==
  /\ Ready(a, "merge")
  /\ SaveBoth(a, [Linked(call[a].other) EXCEPT
                    !["war_room"] = call[a].theirs["war_room"] \cup {call[a].number},
                    !["evidence"] = call[a].theirs["evidence"]])

\* INSERT of the child, whose id was free, and UPDATE of the parent.
CommitSplit(a, d) ==
  /\ Ready(a, "split")
  /\ d \notin opened
  /\ opened' = opened \cup {d}
  /\ LET c == call[a].case IN
       /\ lists' = [lists EXCEPT ![c] = Update(@, call[a].columns, call[a].mine, Linked(d)),
                                 ![d] = Linked(c)]
       /\ owed' = IF call[a].alone
                  THEN [owed EXCEPT ![c] = Also(@, Linked(d)), ![d] = Linked(c)]
                  ELSE owed
  /\ UNCHANGED calls

\* create_case, the create_case step, _maybe_escalate_case: one INSERT.
CreateCase(d) ==
  /\ d \notin opened
  /\ opened' = opened \cup {d}
  /\ UNCHANGED <<lists, call, owed, calls>>

CasesNext ==
  \/ \E d \in CaseIds : CreateCase(d)
  \/ \E a \in Analysts :
       \/ \E c \in CaseIds : \/ \E k \in Lists \ {"linked_cases"} : Add(a, c, k)
                            \/ \E d \in CaseIds : Link(a, c, d) \/ Merge(a, c, d)
                            \/ Split(a, c)
                            \/ CommitSplit(a, c)
       \/ ReadOther(a) \/ DropCall(a)
       \/ CommitAdd(a) \/ CommitLink(a) \/ CommitMerge(a)

CasesSpec == CasesInit /\ [][CasesNext]_caseVars

-----------------------------------------------------------------------------
(* Properties *)

\* What a request has added while no other was under way on the same column of the same
\* cases stays there: notes, evidence and task updates, links on both sides, and all
\* that a merge has carried over.  Requests on different columns of one case may
\* overlap, and later overlaps may only cost what they add themselves.
RecordKept == \A c \in CaseIds, k \in Lists : owed[c][k] \subseteq lists[c][k]
=============================================================================
