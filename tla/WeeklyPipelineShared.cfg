\* An execution whose label an operator uses for a phase at any time
SPECIFICATION Spec
CONSTANTS
  e1 = e1
  o1 = o1
  l1 = l1
  Execution = {e1}
  Operator = {o1}
  HandPhase = {"processing-er"}
  Label = {l1}
  LabelOf <- OneLabel
  Together = TRUE
  MaxAttempts = 2
INVARIANTS
  SuccessIsComplete
  OnlyKilledRunsHang
\* Executions come to an end
CHECK_DEADLOCK FALSE
