\* Two runs one after the other, one of them with a pool, after any failures that
\* were recorded before them; a server publishes and the second feed is not English
SPECIFICATION FairSpec
CONSTANTS
  f1 = f1
  f2 = f2
  p1 = p1
  r1 = r1
  r2 = r2
  a = a
  b = b
  c = c
  Feed = {f1, f2}
  Podcast = {p1}
  PodcastOf <- OnePodcast
  NonEnglish = {f2}
  Run = {r1, r2}
  Pooled = {r2}
  Workers = 2
  Overlap = FALSE
  IncludeInactive = FALSE
  Threshold = 2
  Limit <- NoLimit
  Entry = {a, b, c}
  Listing <- Listings
  Publishing = {f1}
  MaxVersion = 2
PROPERTIES
  DeactivationIsEarned
  RunEnds
\* Every run may be over and every server may have nothing more to publish
CHECK_DEADLOCK FALSE
