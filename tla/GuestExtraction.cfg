\* A coordinator, an operator, a submitting and a direct command on one table
SPECIFICATION ExtractionSpec
CONSTANTS
  c1 = c1
  c2 = c2
  op = op
  w1 = w1
  d1 = d1
  l1 = l1
  first = first
  second = second
  rerun = rerun
  manual = manual
  Coordinator = {c1, c2}
  Operator = {op, w1}
  Submitter = {w1}
  Direct = {d1}
  Label = {l1, first, second, rerun, manual}
  LabelOf <- OneLabel
  LabelOfKind <- OwnLabels
  NumEpisodes = 2
  BatchSize = 1
  WaveSize = 2
  MaxFirstPass <- Once
  NewEpisodesOnly = TRUE
  DirectBatches = 1
  MaxBatches = 3
  MaxStarts = 1
  MaxSubmitters = 2
  MaxDirect = 1
  Cost <- Costs
  Budget = 6
  MaxFaults = 1
  MaxTrouble = 1
INVARIANTS
  EverySuccessIsTraceable
  WavesDoNotOverlap
CHECK_DEADLOCK FALSE
