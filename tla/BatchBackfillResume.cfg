\* One coordinator, started up to twice, with a crash between any two steps
SPECIFICATION Spec
CONSTANTS
  c1 = c1
  c2 = c2
  l1 = l1
  op = op
  Coordinator = {c1}
  Operator = {}
  Label = {l1}
  LabelOf <- OneLabel
  NumEpisodes = 2
  BatchSize = 1
  MaxFirstPass <- AllTwice
  NewEpisodesOnly = TRUE
  MaxBatches = 9
  MaxStarts = 2
  MaxFaults = 2
INVARIANT
  NothingLeftRunning
CHECK_DEADLOCK FALSE
