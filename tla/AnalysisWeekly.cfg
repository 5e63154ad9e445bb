\* A weekly job and an operator on the same tables, the job killed at any step,
\* while an episode is still to be linked
SPECIFICATION Spec
CONSTANTS
  p1 = p1
  p2 = p2
  w1 = w1
  Process = {p1, p2}
  Episode = {1, 2, 3, 4, 5}
  Podcast = {1, 2, 3}
  Person = {1, 2, 3, 4, 5, 6, 7}
  PodcastOf <- ThreePodcasts
  Published <- Dates
  GuestsOf <- SomeGuests
  HostsOf <- SomeHosts
  MaxDegree = 3
  ExcludeHosts = TRUE
  MinGuests = 1
  MinShared = 2
  TopPerPodcast = 3
  AlwaysKeep = 0
  Windows = {3}
  Jobs <- WeeklyCommands
  MaxJobs <- OnceAndTwice
  EvolutionOptions <- SomeOptions
  RunId = {w1}
  Cutoffs = {5}
  Week = 4
  MidnightOffset = 1
  LastWeek = 2
  Horizon = 4
  TopN = 3
  TrackLimit = 1
  TopLimit = 1
  Model <- Linear
  SampleScore <- ScoreOf
  SplitBucket <- BucketOf
  TestPercent = 20
  NegativeRatio = 1
  Day = 2
  CutFrequency = 2
  MinHistory = 2
  LabelGap = 0
  KnownAtFirst <- OneLate
  MayCrash = {p1}
INVARIANTS
  MetricsReadAreWhole
  NoWeekIsSkipped
  GrowthAddsUp
  BestAreKept
  ScoredAsTrained
  AuditFollowsPredictions
  EveryPositiveIsAccounted
CHECK_DEADLOCK FALSE
