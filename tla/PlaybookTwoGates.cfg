\* One run of a playbook with two approval steps.
SPECIFICATION Spec
CONSTANTS
  Runs = {r1}
  Alerts = {}
  NoAlert = NoAlert
  Deciders = {d1}
  Definitions <- TwoGates
  MaxEdits = 0
INVARIANT
  SignedBeforeActing
CHECK_DEADLOCK FALSE
