----------------------------- MODULE MCServices -----------------------------
(***************************************************************************)
(* The collectors, lifecycle, hunts and webhooks, model-checked in one     *)
(* run.  They share no state but the lease "background", whose holder each *)
(* module lets change at any step, so their state spaces are explored side *)
(* by side: `part` says which component a behaviour is about, and the      *)
(* others rest in their initial states.                                    *)
(***************************************************************************)
EXTENDS Collector, S3Pull, LogWatch, IocLifecycle, Webhooks, Hunts

VARIABLE part

vars == <<part, collectorVars, s3Vars, watchVars, iocVars, hookVars, huntVars>>

\* Inodes and replicas are only ever compared, so which of them comes first is
\* immaterial.
First(S) == CHOOSE x \in S : TRUE

Init ==
  /\ part \in {"collector", "s3", "watch", "ioc", "hooks", "hunts"}
  /\ CollectorInit /\ logfile.inode = First(Inodes)
  /\ S3Init        /\ leads = First(Pullers)
  /\ WatchInit     /\ inCharge = First(Watchers)
  /\ IocInit
  /\ HookInit
  /\ HuntInit      /\ huntLead = First(Hunters \ Requests)

\* A behaviour about one component leaves the variables of the others alone.
OnlyCollector == part = "collector" /\ UNCHANGED <<part, s3Vars, watchVars, iocVars, hookVars, huntVars>>
OnlyS3 == part = "s3" /\ UNCHANGED <<part, collectorVars, watchVars, iocVars, hookVars, huntVars>>
OnlyWatch == part = "watch" /\ UNCHANGED <<part, collectorVars, s3Vars, iocVars, hookVars, huntVars>>
OnlyIoc == part = "ioc" /\ UNCHANGED <<part, collectorVars, s3Vars, watchVars, hookVars, huntVars>>
OnlyHook == part = "hooks" /\ UNCHANGED <<part, collectorVars, s3Vars, watchVars, iocVars, huntVars>>
OnlyHunt == part = "hunts" /\ UNCHANGED <<part, collectorVars, s3Vars, watchVars, iocVars, hookVars>>

CollectorPart == OnlyCollector /\ CollectorNext
S3Part == OnlyS3 /\ S3Next
WatchPart == OnlyWatch /\ WatchNext
IocPart == OnlyIoc /\ IocNext
HookPart == OnlyHook /\ HookNext
HuntPart == OnlyHunt /\ HuntNext

Next == CollectorPart \/ S3Part \/ WatchPart \/ IocPart \/ HookPart \/ HuntPart

\* The fairness of each component, while the behaviour is about it.
Fairness ==
  /\ WF_vars(OnlyCollector /\ Agent)
  /\ WF_vars(OnlyS3 /\ \E r \in Pullers : Poll(r))
  /\ \A m \in Matchers : WF_vars(OnlyIoc /\ (Match(m) \/ AbortMatch(m)))
  /\ \A d \in Decayers : SF_vars(OnlyIoc /\ Decay(d))

Spec == Init /\ [][Next]_vars /\ Fairness

\* Every component's variables hold the kinds of values the code gives them.
TypeOK ==
  /\ CollectorTypeOK
  /\ S3TypeOK
  /\ WatchTypeOK
  /\ IocTypeOK
  /\ HookTypeOK
  /\ HuntTypeOK
=============================================================================
