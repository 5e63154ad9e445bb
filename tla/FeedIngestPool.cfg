\* Two runs that may overlap, each with a pool of two threads, on the two feeds
\* of one podcast, one of whose servers publishes while they fetch
SPECIFICATION Spec
CONSTANTS
  f1 = f1
  f2 = f2
  p1 = p1
  r1 = r1
  r2 = r2
  a = a
  b = b
  c = c
  Feed = {f1, f2}
  Podcast = {p1}
  PodcastOf <- OnePodcast
  NonEnglish = {}
  Run = {r1, r2}
  Pooled = {r1, r2}
  Workers = 2
  Overlap = TRUE
  IncludeInactive = FALSE
  Threshold = 1
  Limit <- LimitTwo
  Entry = {a, b, c}
  Listing <- Listings
  Publishing = {f1}
  MaxVersion = 2
SYMMETRY RunSymmetry
INVARIANTS
  TypeOK
  PodcastWithoutFeedIsInactive
  PodcastOutlivesItsFeeds
  FinishedRunAccounts
  UnchangedIsIngested
\* Every run may be over and every server may have nothing more to publish
CHECK_DEADLOCK FALSE
