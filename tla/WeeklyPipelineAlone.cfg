\* An execution and the single-process coordinator, one job at a time
SPECIFICATION FairSpec
CONSTANTS
  e1 = e1
  o1 = o1
  l1 = l1
  Execution = {e1}
  Operator = {o1}
  HandPhase = {"all", "plots"}
  Label = {l1}
  LabelOf <- OneLabel
  Together = FALSE
  MaxAttempts = 2
INVARIANTS
  LedgerIsTrue
PROPERTIES
  ExecutionEnds
\* Executions come to an end
CHECK_DEADLOCK FALSE
