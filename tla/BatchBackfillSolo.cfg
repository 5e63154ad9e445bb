\* One coordinator: a first start for one batch, a second one until nothing is left,
\* with a crash between any two steps
SPECIFICATION FairSpec
CONSTANTS
  c1 = c1
  c2 = c2
  l1 = l1
  op = op
  Coordinator = {c1}
  Operator = {}
  Label = {l1}
  LabelOf <- OneLabel
  NumEpisodes = 2
  BatchSize = 1
  MaxFirstPass <- OneThenAll
  NewEpisodesOnly = TRUE
  MaxBatches = 9
  MaxStarts = 2
  MaxFaults = 2
INVARIANTS
  TypeOK
  OneRunningRunPerPass
  FinishedRunIsSynced
  ExhaustedMeansExtracted
PROPERTIES
  ImplementsLedger
  SuccessIsKept
  InvocationEnds
CHECK_DEADLOCK FALSE
