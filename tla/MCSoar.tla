-------------------------------- MODULE MCSoar --------------------------------
(* Playbook runs and cases in one run of the model checker.  The two share *)
(* nothing but what a playbook's own steps do to a case, which Cases has   *)
(* as requests of their own: `part` says which of them a behaviour is      *)
(* about, and the other stays as it began.                                 *)
EXTENDS MCPlaybook, Cases

VARIABLE part

SoarTypeOK == TypeOK /\ CaseTypeOK

SoarInit ==
  /\ Init
  /\ CasesInit
  /\ \/ part = "playbook" /\ opened = {}
     \/ /\ part = "cases"
        /\ opened = CaseIds \ {CHOOSE c \in CaseIds : TRUE}
        /\ playbook.steps = CHOOSE def \in Definitions : TRUE

PlaybookPart == part = "playbook" /\ Next /\ UNCHANGED <<part, caseVars>>

CasesPart == part = "cases" /\ CasesNext /\ UNCHANGED <<part, vars>>

SoarSpec == SoarInit /\ [][PlaybookPart \/ CasesPart]_<<part, vars, caseVars>>
=============================================================================
