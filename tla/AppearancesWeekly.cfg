\* The options of the weekly pipeline: the label of the week, and
\* earlier promotions cleared
SPECIFICATION Spec
CONSTANTS
  e1 = e1
  e2 = e2
  p1 = p1
  ann = ann
  cher = cher
  Episode = {e1, e2}
  Podcast = {p1}
  PodcastOf <- OnePodcast
  Person = {ann, cher}
  SingleName = {cher}
  Threshold = 1
  ShareNum = 1
  ShareDen = 2
  Modes <- Weekly
  Guests <- SomeNames
  Hosts <- SomeNames
  MaxWeek = 2
SYMMETRY EpisodeSymmetry
INVARIANTS
  AcceptedGuestsAppear
