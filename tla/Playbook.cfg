\* Two deciders on two runs of a playbook with one approval step, edited once; and
\* three requests on three cases.
SPECIFICATION SoarSpec
SYMMETRY Interchangeable
CONSTANTS
  Runs = {r1, r2}
  Alerts = {a1}
  NoAlert = NoAlert
  Deciders = {d1, d2}
  Definitions <- OneGate
  MaxEdits = 1
  CaseIds = {A, B, C}
  NoCase = NoCase
  Analysts = {u1, u2}
  MaxCalls = 3
INVARIANTS
  SoarTypeOK
  SignedBeforeActing
  NoStepLost
  HaltIsFinal
  ActsOnce
  RecordKept
PROPERTY
  VerdictIsFinal
CHECK_DEADLOCK FALSE
