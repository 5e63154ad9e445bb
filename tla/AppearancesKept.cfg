\* Two episodes of one podcast over two weeks, phases over the week's label or
\* over all episodes, each adding its promotions to the earlier ones
SPECIFICATION Spec
CONSTANTS
  e1 = e1
  e2 = e2
  p1 = p1
  ann = ann
  cher = cher
  Episode = {e1, e2}
  Podcast = {p1}
  PodcastOf <- OnePodcast
  Person = {ann, cher}
  SingleName = {cher}
  Threshold = 1
  ShareNum = 1
  ShareDen = 2
  Modes <- Additive
  Guests <- SomeNames
  Hosts <- SomeNames
  MaxWeek = 2
SYMMETRY EpisodeSymmetry
INVARIANTS
  TypeOK
  AcceptedGuestsAppear
  AppearancesAreExtracted
PROPERTIES
  HostsAreNotPromoted
