--------------------------- MODULE FeedIngestProofs ---------------------------
(***************************************************************************)
(* Theorems of FeedIngest, for any number of feeds, podcasts, runs and     *)
(* workers, wherever a statement fails or a process is killed.             *)
(***************************************************************************)
EXTENDS FeedIngest, FiniteSetTheorems, SequenceTheorems, TLAPS

----------------------------------------------------------------------------
(* Types *)

LEMMA CopyType ==
  /\ Blank \in Copy
  /\ \A row \in FeedRow : CopyOf(row) \in Copy
  BY IngestAssumption DEF Blank, Copy, CopyOf, FeedRow, Version, NoVersion

LEMMA KeptType ==
  ASSUME NEW f \in Feed, NEW v \in Version, NEW limit
  PROVE  Kept(f, v, limit) \in SUBSET Entry
  <1>1. CASE v = NoVersion
    BY <1>1 DEF Kept
  <1>2. CASE v # NoVersion
    <2>1. v \in 1..MaxVersion
      BY <1>2, IngestAssumption DEF Version, NoVersion
    <2>2. Listing[f][v] \in Seq(Entry)
      BY <2>1, IngestAssumption
    <2> QED
      BY <1>2, <2>2, ElementOfSeq, LenProperties DEF Kept
  <1> QED
    BY <1>1, <1>2

LEMMA CountType ==
  ASSUME NEW r \in Run, NEW states
  PROVE  Cardinality(JobsIn(r, states)) \in Nat
  BY FS_Subset, FS_CardinalityType, IngestAssumption DEF JobsIn

LEMMA TypeInit == Init => TypeOK
  <1> SUFFICES ASSUME Init PROVE TypeOK
    OBVIOUS
  <1>1. streak \in [Feed -> Nat]
    BY IngestAssumption DEF Init
  <1>2. feeds \in [Feed -> FeedRow]
    <2>1. NoVersion \in Version
      BY IngestAssumption DEF Version, NoVersion
    <2> QED
      BY <1>1, <2>1 DEF Init, FeedRow
  <1>3. Nothing \in [Feed -> Copy]
    BY CopyType DEF Nothing
  <1>4. version \in [Feed -> Version] /\ catalog \in [Feed -> SUBSET Entry]
    BY IngestAssumption DEF Init, Version, NoVersion
  <1>5. scrapes \in [Run -> ScrapeRow]
    BY DEF Init, ScrapeRow
  <1>6. job \in [Run -> [Feed -> JobState]] /\ copy \in [Run -> [Feed -> Copy]]
    BY <1>3 DEF Init, JobState
  <1> QED
    BY <1>1, <1>2, <1>4, <1>5, <1>6 DEF Init, TypeOK

\* A step of one feed in one run
LEMMA FeedStepType ==
  ASSUME TypeOK, NEW r \in Run, NEW f \in Feed, FeedStep(r, f)
  PROVE  TypeOK'
  <1> USE DEF TypeOK
  <1>0. /\ copy[r] \in [Feed -> Copy] /\ copy[r][f] \in Copy
        /\ job[r] \in [Feed -> JobState]
        /\ feeds[f] \in FeedRow
    OBVIOUS
  <1>1. CASE BeginFeed(r, f)
    <2>1. CopyOf(feeds[f]) \in Copy
      BY CopyType
    <2> QED
      BY <1>0, <1>1, <2>1 DEF BeginFeed, Move, tables, ghosts, JobState, InPool
  <1>2. CASE FetchUnchanged(r, f)
    BY <1>0, <1>2 DEF FetchUnchanged, Move, tables, ghosts, JobState, InPool
  <1>3. CASE FetchContent(r, f)
    BY <1>0, <1>3 DEF FetchContent, Move, tables, ghosts, JobState, InPool, Copy
  <1>4. CASE FetchFails(r, f)
    <2>1. PICK permanent \in BOOLEAN : copy' = [copy EXCEPT ![r][f].permanent = permanent]
      BY <1>4 DEF FetchFails
    <2>2. copy' \in [Run -> [Feed -> Copy]]
      BY <1>0, <2>1 DEF Copy
    <2> QED
      BY <1>0, <1>4, <2>2 DEF FetchFails, Move, tables, ghosts, JobState, InPool
  <1>5. CASE RecordUnchanged(r, f)
    BY <1>0, <1>5 DEF RecordUnchanged, Move, JobState, InPool, Copy, FeedRow
  <1>6. CASE Persist(r, f)
    <2>1. [feeds EXCEPT ![f].etag = copy[r][f].got, ![f].failures = 0,
                        ![f].active = @ /\ f \notin NonEnglish] \in [Feed -> FeedRow]
      BY <1>0 DEF Copy, FeedRow
    <2>2. [podcasts EXCEPT ![PodcastOf[f]] = @ /\ f \notin NonEnglish] \in [Podcast -> BOOLEAN]
      BY IngestAssumption
    <2>3. Kept(f, copy[r][f].got, Limit[r]) \in SUBSET Entry
      BY <1>0, KeptType DEF Copy
    <2>4. catalog' \in [Feed -> SUBSET Entry]
      BY <1>6, <2>3 DEF Persist
    <2> QED
      BY <1>0, <1>6, <2>1, <2>2, <2>4 DEF Persist, Move, JobState, InPool, Copy
  <1>7. CASE SaveFails(r, f)
    <2>1. copy' \in [Run -> [Feed -> Copy]]
      <3>1. CASE copy' = [copy EXCEPT ![r][f].failures = 0]
        BY <1>0, <3>1 DEF Copy
      <3>2. CASE copy' = copy
        BY <3>2
      <3>3. ASSUME NEW metadata \in BOOLEAN, NEW row \in BOOLEAN,
                   copy' = [copy EXCEPT ![r][f].failures = IF row THEN 0 ELSE @,
                                        ![r][f].active = @ /\ (metadata => f \notin NonEnglish)]
            PROVE  copy' \in [Run -> [Feed -> Copy]]
        BY <1>0, <3>3 DEF Copy
      <3> QED
        BY <1>7, <3>1, <3>2, <3>3 DEF SaveFails
    <2>2. job' \in [Run -> [Feed -> JobState]]
      BY <1>0, <1>7 DEF SaveFails, Move, JobState, InPool
    <2> QED
      BY <1>7, <2>1, <2>2 DEF SaveFails, tables, ghosts
  <1>8. CASE FinishFeed(r, f)
    <2>1. scrapes' \in [Run -> ScrapeRow]
      <3>1. [scrapes[r] EXCEPT !.status = "succeeded", !.succeeded = 1] \in ScrapeRow
        BY ZenonT(60) DEF ScrapeRow
      <3>2. CASE scrapes' = [scrapes EXCEPT ![r].status = "succeeded", ![r].succeeded = 1]
        <4>1. scrapes' = [scrapes EXCEPT ![r] = [scrapes[r] EXCEPT !.status = "succeeded",
                                                                  !.succeeded = 1]]
          BY <3>2
        <4> QED
          BY <3>1, <4>1
      <3>3. CASE scrapes' = scrapes
        BY <3>3
      <3> QED
        BY <1>8, <3>2, <3>3 DEF FinishFeed
    <2>2. job' \in [Run -> [Feed -> JobState]] /\ copy' \in [Run -> [Feed -> Copy]]
      BY <1>0, <1>8, CopyType DEF FinishFeed, Leave, Move, JobState, Done
    <2> QED
      BY <1>8, <2>1, <2>2 DEF FinishFeed, ghosts
  <1>9. CASE CatchFailure(r, f)
    BY <1>0, <1>9 DEF CatchFailure, Move, tables, ghosts, JobState, InPool, Copy, FeedRow
  <1>10. CASE RecordFailure(r, f)
    <2>1. copy[r][f].failures + 1 \in Nat /\ streak[f] + 1 \in Nat
      BY <1>0 DEF Copy
    <2>2. [feeds EXCEPT ![f].failures = copy[r][f].failures + 1,
                        ![f].active = @ /\ ~GivesUp(r, f)] \in [Feed -> FeedRow]
      BY <1>0, <2>1 DEF FeedRow
    <2> QED
      BY <1>0, <1>10, <2>1, <2>2 DEF RecordFailure, Move, JobState, InPool
  <1>11. CASE CheckOtherFeeds(r, f)
    BY <1>0, <1>11 DEF CheckOtherFeeds, Move, tables, ghosts, JobState, InPool
  <1>12. CASE DeactivatePodcast(r, f)
    BY <1>0, <1>12 DEF DeactivatePodcast, Move, ghosts, JobState, InPool
  <1>13. CASE LogError(r, f)
    BY <1>0, <1>13, CopyType DEF LogError, Leave, Move, ghosts, JobState, Done
  <1>14. CASE NetFails(r, f)
    BY <1>0, <1>14, CopyType, IngestAssumption
       DEF NetFails, Leave, Move, tables, JobState, Done
  <1> QED
    BY <1>1, <1>2, <1>3, <1>4, <1>5, <1>6, <1>7, <1>8, <1>9, <1>10, <1>11, <1>12, <1>13, <1>14
       DEF FeedStep, IngestFeed, RecordFeedFailure

LEMMA TypeStep == TypeOK /\ [Next]_vars => TypeOK'
  <1> SUFFICES ASSUME TypeOK, [Next]_vars PROVE TypeOK'
    OBVIOUS
  <1> USE DEF TypeOK
  <1>1. ASSUME NEW r \in Run, StartRun(r) PROVE TypeOK'
    <2>1. [f \in Feed |-> IF f \in SelectedFeeds THEN "queued" ELSE "none"] \in [Feed -> JobState]
      BY DEF JobState
    <2>2. [f \in Feed |-> CopyOf(feeds[f])] \in [Feed -> Copy] /\ Nothing \in [Feed -> Copy]
      BY CopyType DEF Nothing
    <2>3. Cardinality(SelectedFeeds) \in Nat
      BY FS_Subset, FS_CardinalityType, IngestAssumption DEF SelectedFeeds
    <2> QED
      BY <1>1, <2>1, <2>2, <2>3, ZenonT(60) DEF StartRun, ghosts, ScrapeRow
  <1>2. ASSUME NEW r \in Run, FinishRun(r) PROVE TypeOK'
    <2> DEFINE succeeded == Cardinality(JobsIn(r, {"succeeded"}))
               failed == Cardinality(JobsIn(r, {"failed"}))
    <2>1. succeeded \in Nat /\ failed \in Nat
      BY CountType
    <2>2. FinalStatus(succeeded, failed) \in {"succeeded", "partial", "failed"}
      BY DEF FinalStatus
    <2> HIDE DEF succeeded, failed
    <2>3. [scrapes EXCEPT ![r].status = FinalStatus(succeeded, failed),
                          ![r].succeeded = succeeded, ![r].failed = failed] \in [Run -> ScrapeRow]
      <3>1. [scrapes[r] EXCEPT !.status = FinalStatus(succeeded, failed),
                               !.succeeded = succeeded, !.failed = failed] \in ScrapeRow
        BY <2>1, <2>2, ZenonT(60) DEF ScrapeRow
      <3>2. [scrapes EXCEPT ![r].status = FinalStatus(succeeded, failed),
                            ![r].succeeded = succeeded, ![r].failed = failed]
            = [scrapes EXCEPT ![r] = [scrapes[r] EXCEPT !.status = FinalStatus(succeeded, failed),
                                        !.succeeded = succeeded, !.failed = failed]]
        OBVIOUS
      <3> QED
        BY <3>1, <3>2
    <2> QED
      BY <1>2, <2>3 DEF FinishRun, ghosts, succeeded, failed
  <1>3. ASSUME NEW r \in Run, Die(r) PROVE TypeOK'
    <2>1. [f \in Feed |-> "none"] \in [Feed -> JobState] /\ Nothing \in [Feed -> Copy]
      BY CopyType DEF JobState, Nothing
    <2>2. {PodcastOf[f] : f \in Undecided(r)} \subseteq Podcast
      BY IngestAssumption DEF Undecided, JobsIn
    <2> QED
      BY <1>3, <2>1, <2>2 DEF Die, tables
  <1>4. ASSUME NEW f \in Feed, Publish(f) PROVE TypeOK'
    BY <1>4, IngestAssumption DEF Publish, tables, ghosts, Version
  <1>5. CASE UNCHANGED vars
    BY <1>5 DEF vars, tables, ghosts
  <1> QED
    BY <1>1, <1>2, <1>3, <1>4, <1>5, FeedStepType DEF Next, RunStep, AbortRun, Crash

\* TypeOK in every reachable state
THEOREM TypeCorrect == Spec => []TypeOK
  BY TypeInit, TypeStep, PTL DEF Spec

----------------------------------------------------------------------------
(* What the steps leave alone *)

\* Three steps of a feed write its row, one of them the catalog
LEMMA FeedStepKeeps ==
  ASSUME NEW r \in Run, NEW f \in Feed, FeedStep(r, f),
         ~Persist(r, f), ~RecordUnchanged(r, f), ~RecordFailure(r, f)
  PROVE  feeds' = feeds /\ catalog' = catalog
  <1>1. CASE BeginFeed(r, f) \/ FetchUnchanged(r, f) \/ FetchContent(r, f) \/ FetchFails(r, f)
    BY <1>1 DEF BeginFeed, FetchUnchanged, FetchContent, FetchFails, tables
  <1>2. CASE SaveFails(r, f) \/ FinishFeed(r, f) \/ CatchFailure(r, f)
    BY <1>2 DEF SaveFails, FinishFeed, CatchFailure, tables
  <1>3. CASE CheckOtherFeeds(r, f) \/ DeactivatePodcast(r, f) \/ LogError(r, f) \/ NetFails(r, f)
    BY <1>3 DEF CheckOtherFeeds, DeactivatePodcast, LogError, NetFails, tables
  <1> QED
    BY <1>1, <1>2, <1>3 DEF FeedStep, IngestFeed, RecordFeedFailure

\* Two steps of a feed write a podcast
LEMMA FeedStepKeepsPodcasts ==
  ASSUME NEW r \in Run, NEW f \in Feed, FeedStep(r, f),
         ~Persist(r, f), ~DeactivatePodcast(r, f)
  PROVE  podcasts' = podcasts
  <1>1. CASE BeginFeed(r, f) \/ FetchUnchanged(r, f) \/ FetchContent(r, f) \/ FetchFails(r, f)
    BY <1>1 DEF BeginFeed, FetchUnchanged, FetchContent, FetchFails, tables
  <1>2. CASE SaveFails(r, f) \/ FinishFeed(r, f) \/ CatchFailure(r, f) \/ RecordUnchanged(r, f)
    BY <1>2 DEF SaveFails, FinishFeed, CatchFailure, RecordUnchanged, tables
  <1>3. CASE CheckOtherFeeds(r, f) \/ RecordFailure(r, f) \/ LogError(r, f) \/ NetFails(r, f)
    BY <1>3 DEF CheckOtherFeeds, RecordFailure, LogError, NetFails, tables
  <1> QED
    BY <1>1, <1>2, <1>3 DEF FeedStep, IngestFeed, RecordFeedFailure

\* A step of a feed moves that feed only, while its run is running
LEMMA FeedStepMoves ==
  ASSUME TypeOK, NEW r \in Run, NEW f \in Feed, FeedStep(r, f)
  PROVE  /\ pc[r] = "running" /\ pc' = pc
         /\ \E to : job' = [job EXCEPT ![r][f] = to]
         /\ \A s \in Run \ {r} : job'[s] = job[s]
         /\ \A s \in Run, g \in Feed : s # r \/ g # f => job'[s][g] = job[s][g]
  <1>1. pc[r] = "running" /\ pc' = pc /\ \E to : job' = [job EXCEPT ![r][f] = to]
    <2>1. CASE BeginFeed(r, f) \/ FetchUnchanged(r, f) \/ FetchContent(r, f) \/ FetchFails(r, f)
      BY <2>1 DEF BeginFeed, FetchUnchanged, FetchContent, FetchFails, At, Move
    <2>2. CASE RecordUnchanged(r, f) \/ Persist(r, f) \/ SaveFails(r, f)
      BY <2>2 DEF RecordUnchanged, Persist, SaveFails, At, Move
    <2>3. CASE FinishFeed(r, f) \/ CatchFailure(r, f) \/ RecordFailure(r, f)
      BY <2>3 DEF FinishFeed, CatchFailure, RecordFailure, At, Move, Leave
    <2>4. CASE CheckOtherFeeds(r, f) \/ DeactivatePodcast(r, f)
      BY <2>4 DEF CheckOtherFeeds, DeactivatePodcast, At, Move
    <2>5. CASE LogError(r, f) \/ NetFails(r, f)
      BY <2>5 DEF LogError, NetFails, At, Move, Leave
    <2> QED
      BY <2>1, <2>2, <2>3, <2>4, <2>5 DEF FeedStep, IngestFeed, RecordFeedFailure
  <1>2. PICK to : job' = [job EXCEPT ![r][f] = to]
    BY <1>1
  <1> QED
    BY <1>1, <1>2 DEF TypeOK

\* A step of a feed touches the object of that feed only
LEMMA FeedStepCopies ==
  ASSUME TypeOK, NEW r \in Run, NEW f \in Feed, FeedStep(r, f),
         NEW s \in Run, NEW g \in Feed, s # r \/ g # f
  PROVE  copy'[s][g] = copy[s][g]
  <1> USE DEF TypeOK
  <1>1. ASSUME copy' = copy \/ \E c : copy' = [copy EXCEPT ![r][f] = c]
        PROVE  copy'[s][g] = copy[s][g]
    BY <1>1
  <1>2. CASE BeginFeed(r, f) \/ CatchFailure(r, f)
    <2>1. CASE copy' = [copy EXCEPT ![r][f] = CopyOf(feeds[f])]
      BY <2>1
    <2>2. CASE copy' = copy
      BY <2>2
    <2>3. CASE copy' = [copy EXCEPT ![r][f].active = feeds[f].active,
                                    ![r][f].failures = feeds[f].failures]
      BY <2>3
    <2> QED
      BY <1>2, <2>1, <2>2, <2>3 DEF BeginFeed, CatchFailure
  <1>3. CASE \/ FetchUnchanged(r, f) \/ RecordFailure(r, f) \/ CheckOtherFeeds(r, f)
             \/ DeactivatePodcast(r, f)
    BY <1>3 DEF FetchUnchanged, RecordFailure, CheckOtherFeeds, DeactivatePodcast
  <1>4. CASE FetchContent(r, f)
    BY <1>4 DEF FetchContent
  <1>5. CASE FetchFails(r, f)
    BY <1>5 DEF FetchFails
  <1>6. CASE RecordUnchanged(r, f)
    BY <1>6 DEF RecordUnchanged
  <1>7. CASE Persist(r, f)
    BY <1>7 DEF Persist
  <1>8. CASE SaveFails(r, f)
    <2>1. CASE copy' = [copy EXCEPT ![r][f].failures = 0]
      BY <2>1
    <2>2. CASE copy' = copy
      BY <2>2
    <2>3. ASSUME NEW metadata \in BOOLEAN, NEW row \in BOOLEAN,
                 copy' = [copy EXCEPT ![r][f].failures = IF row THEN 0 ELSE @,
                                      ![r][f].active = @ /\ (metadata => f \notin NonEnglish)]
          PROVE  copy'[s][g] = copy[s][g]
      BY <2>3
    <2> QED
      BY <1>8, <2>1, <2>2, <2>3 DEF SaveFails
  <1>9. CASE FinishFeed(r, f) \/ LogError(r, f) \/ NetFails(r, f)
    BY <1>1, <1>9 DEF FinishFeed, LogError, NetFails, Leave
  <1> QED
    BY <1>2, <1>3, <1>4, <1>5, <1>6, <1>7, <1>8, <1>9
       DEF FeedStep, IngestFeed, RecordFeedFailure

\* Runs and servers write no row of a feed, a podcast or the catalog
LEMMA RunKeeps ==
  ASSUME (\E r \in Run : RunStep(r)) \/ (\E f \in Feed : Publish(f)) \/ UNCHANGED vars
  PROVE  feeds' = feeds /\ catalog' = catalog /\ podcasts' = podcasts
  <1>1. ASSUME NEW r \in Run, StartRun(r) PROVE feeds' = feeds /\ catalog' = catalog /\ podcasts' = podcasts
    BY <1>1 DEF StartRun
  <1>2. ASSUME NEW r \in Run, FinishRun(r) PROVE feeds' = feeds /\ catalog' = catalog /\ podcasts' = podcasts
    BY <1>2 DEF FinishRun
  <1>3. ASSUME NEW r \in Run, AbortRun(r) \/ Crash(r) PROVE feeds' = feeds /\ catalog' = catalog /\ podcasts' = podcasts
    BY <1>3 DEF AbortRun, Crash, Die, tables
  <1>4. ASSUME NEW f \in Feed, Publish(f) PROVE feeds' = feeds /\ catalog' = catalog /\ podcasts' = podcasts
    BY <1>4 DEF Publish, tables
  <1>5. CASE UNCHANGED vars
    BY <1>5 DEF vars, tables
  <1> QED
    BY <1>1, <1>2, <1>3, <1>4, <1>5 DEF RunStep

----------------------------------------------------------------------------
(* Validators *)

\* Some run has kept its part of the version that the validators stand for
Vouched(f, v) == v # NoVersion => \E s \in Run : Kept(f, v, Limit[s]) \subseteq catalog[f]

\* The rows have validators of versions that were ingested, and so have the
\* objects in memory, however long ago they were read
VouchInv ==
  \A f \in Feed : /\ Vouched(f, feeds[f].etag)
                  /\ \A r \in Run : Vouched(f, copy[r][f].etag)

\* A limit that reaches further keeps more
LEMMA ReachesKeeps ==
  ASSUME NEW f \in Feed, NEW v \in Version, NEW a \in Nat, NEW b \in Nat, Reaches(a, b)
  PROVE  Kept(f, v, b) \subseteq Kept(f, v, a)
  <1>1. CASE v = NoVersion
    BY <1>1 DEF Kept
  <1>2. CASE v # NoVersion
    <2> DEFINE Upto(l) == {j \in DOMAIN Listing[f][v] : l = 0 \/ j <= l}
    <2>1. SUFFICES ASSUME NEW x \in Kept(f, v, b) PROVE x \in Kept(f, v, a)
      OBVIOUS
    <2>2. PICK i \in Upto(b) : x = Listing[f][v][i]
      BY <1>2, <2>1 DEF Kept
    <2>3. i \in Nat
      <3>1. v \in 1..MaxVersion
        BY <1>2, IngestAssumption DEF Version, NoVersion
      <3>2. Listing[f][v] \in Seq(Entry)
        BY <3>1, IngestAssumption
      <3> QED
        BY <3>2, <2>2, LenProperties
    <2>4. CASE a = 0
      BY <1>2, <2>2, <2>4 DEF Kept
    <2>5. CASE b # 0 /\ a >= b
      BY <1>2, <2>2, <2>3, <2>5 DEF Kept
    <2> QED
      BY <2>4, <2>5 DEF Reaches
  <1> QED
    BY <1>1, <1>2

\* A step takes the validators of an object from the row, if it changes them
LEMMA StepTakesEtags ==
  ASSUME TypeOK, [Next]_vars, NEW r \in Run, NEW f \in Feed
  PROVE  copy'[r][f].etag \in {copy[r][f].etag, feeds[f].etag, NoVersion}
  <1> DEFINE E == copy'[r][f].etag \in {copy[r][f].etag, feeds[f].etag, NoVersion}
  <1>0. /\ copy \in [Run -> [Feed -> Copy]] /\ feeds \in [Feed -> FeedRow]
        /\ copy[r] \in [Feed -> Copy] /\ copy[r][f] \in Copy
        /\ Blank.etag = NoVersion /\ CopyOf(feeds[f]).etag = feeds[f].etag
        /\ Nothing[f].etag = NoVersion
    BY DEF TypeOK, Blank, CopyOf, Nothing
  <1>1. ASSUME FeedStep(r, f) PROVE E
    <2>1. CASE BeginFeed(r, f)
      BY <1>0, <2>1 DEF BeginFeed
    <2>2. CASE FetchUnchanged(r, f) \/ RecordFailure(r, f) \/ CheckOtherFeeds(r, f) \/ DeactivatePodcast(r, f)
      BY <1>0, <2>2 DEF FetchUnchanged, RecordFailure, CheckOtherFeeds, DeactivatePodcast
    <2>3. CASE FetchContent(r, f) \/ FetchFails(r, f)
      BY <1>0, <2>3 DEF FetchContent, FetchFails, Copy
    <2>4. CASE RecordUnchanged(r, f) \/ Persist(r, f)
      BY <1>0, <2>4 DEF RecordUnchanged, Persist, Copy
    <2>5. CASE SaveFails(r, f)
      <3>1. CASE copy' = [copy EXCEPT ![r][f].failures = 0] \/ copy' = copy
        BY <1>0, <3>1 DEF Copy
      <3>2. ASSUME NEW metadata \in BOOLEAN, NEW row \in BOOLEAN,
                   copy' = [copy EXCEPT ![r][f].failures = IF row THEN 0 ELSE @,
                                        ![r][f].active = @ /\ (metadata => f \notin NonEnglish)]
            PROVE  E
        BY <1>0, <3>2 DEF Copy
      <3> QED
        BY <2>5, <3>1, <3>2 DEF SaveFails
    <2>6. CASE CatchFailure(r, f)
      BY <1>0, <2>6 DEF CatchFailure, Copy
    <2>7. CASE FinishFeed(r, f) \/ LogError(r, f) \/ NetFails(r, f)
      BY <1>0, <2>7 DEF FinishFeed, LogError, NetFails, Leave
    <2> QED
      BY <1>1, <2>1, <2>2, <2>3, <2>4, <2>5, <2>6, <2>7
         DEF FeedStep, IngestFeed, RecordFeedFailure
  <1>2. ASSUME NEW s \in Run, NEW g \in Feed, FeedStep(s, g), s # r \/ g # f PROVE E
    BY <1>2, FeedStepCopies
  <1>3. ASSUME NEW s \in Run, RunStep(s) PROVE E
    <2>1. CASE StartRun(s)
      BY <1>0, <2>1 DEF StartRun
    <2>2. CASE FinishRun(s)
      BY <1>0, <2>2 DEF FinishRun
    <2>3. CASE AbortRun(s) \/ Crash(s)
      BY <1>0, <2>3 DEF AbortRun, Crash, Die
    <2> QED
      BY <1>3, <2>1, <2>2, <2>3 DEF RunStep
  <1>4. ASSUME NEW g \in Feed, Publish(g) PROVE E
    BY <1>0, <1>4 DEF Publish
  <1>5. CASE UNCHANGED vars
    BY <1>5 DEF vars
  <1> QED
    BY <1>1, <1>2, <1>3, <1>4, <1>5 DEF Next

\* No step takes an episode away, and the validators of a row only change with a
\* transaction that keeps its part of that version
LEMMA StepSavesEtags ==
  ASSUME TypeOK, [Next]_vars, NEW f \in Feed
  PROVE  /\ catalog[f] \subseteq catalog'[f]
         /\ \/ feeds'[f].etag = feeds[f].etag
            \/ \E r \in Run : Kept(f, feeds'[f].etag, Limit[r]) \subseteq catalog'[f]
  <1> DEFINE E == /\ catalog[f] \subseteq catalog'[f]
                  /\ \/ feeds'[f].etag = feeds[f].etag
                     \/ \E r \in Run : Kept(f, feeds'[f].etag, Limit[r]) \subseteq catalog'[f]
  <1>0. feeds \in [Feed -> FeedRow] /\ catalog \in [Feed -> SUBSET Entry]
    BY DEF TypeOK
  <1>1. ASSUME feeds' = feeds, catalog' = catalog PROVE E
    BY <1>1
  <1>2. ASSUME NEW r \in Run, NEW g \in Feed, Persist(r, g) PROVE E
    <2>1. catalog' = [catalog EXCEPT ![g] = @ \cup Kept(g, copy[r][g].got, Limit[r])]
      BY <1>2 DEF Persist
    <2>2. feeds'[f].etag = IF f = g THEN copy[r][g].got ELSE feeds[f].etag
      BY <1>0, <1>2 DEF Persist, FeedRow
    <2> QED
      BY <1>0, <2>1, <2>2
  <1>3. ASSUME NEW r \in Run, NEW g \in Feed, RecordUnchanged(r, g) \/ RecordFailure(r, g)
        PROVE  E
    <2>1. catalog' = catalog
      BY <1>3 DEF RecordUnchanged, RecordFailure
    <2>2. feeds'[f].etag = feeds[f].etag
      <3>1. CASE RecordUnchanged(r, g)
        BY <1>0, <3>1 DEF RecordUnchanged, FeedRow
      <3>2. CASE RecordFailure(r, g)
        BY <1>0, <3>2 DEF RecordFailure, FeedRow
      <3> QED
        BY <1>3, <3>1, <3>2
    <2> QED
      BY <2>1, <2>2
  <1>4. ASSUME NEW r \in Run, NEW g \in Feed, FeedStep(r, g) PROVE E
    BY <1>1, <1>2, <1>3, <1>4, FeedStepKeeps
  <1> QED
    BY <1>1, <1>4, RunKeeps DEF Next

LEMMA VouchAlways == Spec => []VouchInv
  <1>1. Init => VouchInv
    BY DEF Init, VouchInv, Vouched, Nothing, Blank
  <1>2. ASSUME TypeOK, VouchInv, [Next]_vars PROVE VouchInv'
    <2> SUFFICES ASSUME NEW f \in Feed
                 PROVE  /\ Vouched(f, feeds[f].etag)'
                        /\ \A r \in Run : Vouched(f, copy[r][f].etag)'
      BY DEF VouchInv
    <2>1. catalog[f] \subseteq catalog'[f]
      BY <1>2, StepSavesEtags
    <2>2. ASSUME NEW v, Vouched(f, v)
          PROVE  v # NoVersion => \E s \in Run : Kept(f, v, Limit[s]) \subseteq catalog'[f]
      BY <2>1, <2>2 DEF Vouched
    <2>3. Vouched(f, feeds[f].etag)'
      BY <1>2, <2>2, StepSavesEtags DEF VouchInv, Vouched
    <2>4. ASSUME NEW r \in Run PROVE Vouched(f, copy[r][f].etag)'
      <3>1. copy'[r][f].etag \in {copy[r][f].etag, feeds[f].etag, NoVersion}
        BY <1>2, StepTakesEtags
      <3>2. copy'[r][f].etag # NoVersion =>
              \E s \in Run : Kept(f, copy'[r][f].etag, Limit[s]) \subseteq catalog'[f]
        BY <1>2, <2>2, <3>1 DEF VouchInv
      <3> QED
        BY <3>2 DEF Vouched
    <2> QED
      BY <2>3, <2>4
  <1> QED
    BY <1>1, <1>2, TypeCorrect, PTL DEF Spec

\* What a run reports unchanged has been ingested as far as that run would go,
\* for any limits, listings and overlapping runs, wherever a transaction fails
THEOREM UnchangedAlways == Spec => []UnchangedIsIngested
  <1>1. TypeOK /\ VouchInv => UnchangedIsIngested
    <2> SUFFICES ASSUME TypeOK, VouchInv, NEW r \in Run, NEW f \in Feed,
                        \A s \in Run : Reaches(Limit[s], Limit[r])
                 PROVE  Kept(f, copy[r][f].etag, Limit[r]) \subseteq catalog[f]
      BY DEF UnchangedIsIngested
    <2> DEFINE v == copy[r][f].etag
    <2>1. v \in Version
      BY DEF TypeOK, Copy
    <2>2. CASE v = NoVersion
      BY <2>2 DEF Kept
    <2>3. CASE v # NoVersion
      <3>1. PICK s \in Run : Kept(f, v, Limit[s]) \subseteq catalog[f]
        BY <2>3 DEF VouchInv, Vouched
      <3>2. Kept(f, v, Limit[r]) \subseteq Kept(f, v, Limit[s])
        BY <2>1, ReachesKeeps, IngestAssumption
      <3> QED
        BY <3>1, <3>2
    <2> QED
      BY <2>2, <2>3
  <1> QED
    BY <1>1, TypeCorrect, VouchAlways, PTL

----------------------------------------------------------------------------
(* Podcasts and their feeds *)

\* A run that has not started has no jobs to lose
IdleHasNoJobs == \A r \in Run : pc[r] = "idle" => \A f \in Feed : job[r][f] = "none"

\* Nothing gives a feed or a podcast its active back
LEMMA NothingReactivates ==
  ASSUME TypeOK, [Next]_vars
  PROVE  /\ \A f \in Feed : feeds'[f].active => feeds[f].active
         /\ \A p \in Podcast : podcasts'[p] => podcasts[p]
  <1>1. ASSUME NEW r \in Run, NEW f \in Feed, Persist(r, f)
        PROVE  /\ \A g \in Feed : feeds'[g].active => feeds[g].active
               /\ \A p \in Podcast : podcasts'[p] => podcasts[p]
    BY <1>1, IngestAssumption DEF Persist, TypeOK, FeedRow
  <1>2. ASSUME NEW r \in Run, NEW f \in Feed, RecordUnchanged(r, f)
        PROVE  \A g \in Feed : feeds'[g].active => feeds[g].active
    BY <1>2 DEF RecordUnchanged, TypeOK, FeedRow
  <1>3. ASSUME NEW r \in Run, NEW f \in Feed, RecordFailure(r, f)
        PROVE  \A g \in Feed : feeds'[g].active => feeds[g].active
    BY <1>3 DEF RecordFailure, TypeOK, FeedRow
  <1>4. ASSUME NEW r \in Run, NEW f \in Feed, DeactivatePodcast(r, f)
        PROVE  \A p \in Podcast : podcasts'[p] => podcasts[p]
    BY <1>4 DEF DeactivatePodcast, TypeOK
  <1>5. ASSUME NEW r \in Run, NEW f \in Feed, FeedStep(r, f)
        PROVE  /\ \A g \in Feed : feeds'[g].active => feeds[g].active
               /\ \A p \in Podcast : podcasts'[p] => podcasts[p]
    <2>1. \A g \in Feed : feeds'[g].active => feeds[g].active
      BY <1>1, <1>2, <1>3, <1>5, FeedStepKeeps
    <2>2. \A p \in Podcast : podcasts'[p] => podcasts[p]
      BY <1>1, <1>4, <1>5, FeedStepKeepsPodcasts
    <2> QED
      BY <2>1, <2>2
  <1> QED
    BY <1>5, RunKeeps DEF Next

\* The threads that are about to deactivate a podcast, of all runs
Deciding(p) == \E r \in Run, f \in FeedsOf(p) : job[r][f] \in {"check", "deactivate"}

LEMMA DecidingIsUndecided ==
  ASSUME NEW p \in Podcast
  PROVE  Deciding(p) <=> \E r \in Run : FeedsOf(p) \cap Undecided(r) # {}
  BY DEF Deciding, FeedsOf, Undecided, JobsIn

\* What an inactive podcast waits for
Settled(p) ==
  podcasts[p] /\ FeedsOf(p) # {} /\ (\A f \in FeedsOf(p) : ~feeds[f].active) =>
    p \in lost \/ Deciding(p)

SettledInv == IdleHasNoJobs /\ \A p \in Podcast : Settled(p)

LEMMA SettledStep ==
  ASSUME TypeOK, SettledInv, [Next]_vars
  PROVE  SettledInv'
  <1> USE DEF SettledInv
  <1>0. \A p \in Podcast : FeedsOf(p) \subseteq Feed /\ \A f \in FeedsOf(p) : PodcastOf[f] = p
    BY DEF FeedsOf
  <1>1. IdleHasNoJobs'
    <2>1. ASSUME NEW r \in Run, NEW f \in Feed, FeedStep(r, f) PROVE IdleHasNoJobs'
      <3>1. /\ pc[r] = "running" /\ pc' = pc
            /\ \A s \in Run \ {r} : job'[s] = job[s]
        BY <2>1, FeedStepMoves
      <3> QED
        BY <3>1 DEF IdleHasNoJobs
    <2>2. ASSUME NEW r \in Run, RunStep(r) PROVE IdleHasNoJobs'
      <3>1. CASE StartRun(r)
        BY <3>1 DEF StartRun, IdleHasNoJobs, TypeOK
      <3>2. CASE FinishRun(r)
        BY <3>2 DEF FinishRun, IdleHasNoJobs, TypeOK
      <3>3. CASE Die(r)
        BY <3>3 DEF Die, IdleHasNoJobs, TypeOK
      <3> QED
        BY <2>2, <3>1, <3>2, <3>3 DEF RunStep, AbortRun, Crash
    <2> QED
      BY <2>1, <2>2 DEF Next, Publish, vars, IdleHasNoJobs
  <1> SUFFICES ASSUME NEW p \in Podcast,
                      podcasts'[p], FeedsOf(p) # {}, \A f \in FeedsOf(p) : ~feeds'[f].active
               PROVE  p \in lost' \/ Deciding(p)'
    BY <1>1 DEF Settled
  <1>2. podcasts[p]
    BY NothingReactivates
  \* As long as all feeds were inactive before, somebody was deciding, or it was lost
  <1>3. (\A f \in FeedsOf(p) : ~feeds[f].active) => p \in lost \/ Deciding(p)
    BY <1>2 DEF Settled
  <1>4. lost \subseteq lost'
    <2>1. ASSUME NEW r \in Run, NEW f \in Feed, FeedStep(r, f) PROVE lost \subseteq lost'
      <3>1. CASE BeginFeed(r, f) \/ FetchUnchanged(r, f) \/ FetchContent(r, f) \/ FetchFails(r, f)
        BY <3>1 DEF BeginFeed, FetchUnchanged, FetchContent, FetchFails, ghosts
      <3>2. CASE RecordUnchanged(r, f) \/ Persist(r, f) \/ SaveFails(r, f) \/ FinishFeed(r, f)
        BY <3>2 DEF RecordUnchanged, Persist, SaveFails, FinishFeed, ghosts
      <3>3. CASE CatchFailure(r, f) \/ RecordFailure(r, f) \/ CheckOtherFeeds(r, f)
        BY <3>3 DEF CatchFailure, RecordFailure, CheckOtherFeeds, ghosts
      <3>4. CASE DeactivatePodcast(r, f) \/ LogError(r, f) \/ NetFails(r, f)
        BY <3>4 DEF DeactivatePodcast, LogError, NetFails, ghosts
      <3> QED
        BY <2>1, <3>1, <3>2, <3>3, <3>4 DEF FeedStep, IngestFeed, RecordFeedFailure
    <2>2. ASSUME NEW r \in Run, RunStep(r) PROVE lost \subseteq lost'
      BY <2>2 DEF RunStep, StartRun, FinishRun, AbortRun, Crash, Die, ghosts
    <2>3. ASSUME NEW f \in Feed, Publish(f) PROVE lost \subseteq lost'
      BY <2>3 DEF Publish, ghosts
    <2> QED
      BY <2>1, <2>2, <2>3 DEF Next, vars, ghosts
  <1>5. ASSUME NEW r \in Run, NEW f \in Feed, FeedStep(r, f) PROVE p \in lost' \/ Deciding(p)'
    <2>0. \A s \in Run, g \in Feed : s # r \/ g # f => job'[s][g] = job[s][g]
      BY <1>5, FeedStepMoves
    <2>1. CASE CheckOtherFeeds(r, f)
      <3>1. feeds' = feeds
        BY <2>1 DEF CheckOtherFeeds, tables
      <3>2. p \in lost \/ Deciding(p)
        BY <1>3, <3>1
      <3>3. PodcastOf[f] = p => NoOtherActiveFeed(f)
        BY <3>1 DEF NoOtherActiveFeed
      <3>4. PodcastOf[f] = p => f \in FeedsOf(p) /\ job'[r][f] = "deactivate"
        BY <2>1, <3>3 DEF CheckOtherFeeds, Move, TypeOK, FeedsOf
      <3> QED
        BY <1>0, <1>4, <2>0, <3>2, <3>4 DEF Deciding
    <2>2. CASE DeactivatePodcast(r, f)
      <3>1. PodcastOf[f] # p /\ feeds' = feeds
        BY <2>2 DEF DeactivatePodcast, TypeOK
      <3> QED
        BY <1>0, <1>3, <1>4, <2>0, <3>1 DEF Deciding
    <2>3. CASE NetFails(r, f)
      <3>1. feeds' = feeds /\ lost' = lost \cup {PodcastOf[g] : g \in {f} \cap Undecided(r)}
        BY <2>3 DEF NetFails, tables
      <3>2. f \in FeedsOf(p) /\ job[r][f] \in {"check", "deactivate"} => p \in lost'
        BY <1>0, <3>1 DEF Undecided, JobsIn
      <3> QED
        BY <1>0, <1>3, <1>4, <2>0, <3>1, <3>2 DEF Deciding
    <2>4. CASE RecordFailure(r, f)
      <3>1. job[r][f] = "record" /\ \A g \in Feed \ {f} : feeds'[g] = feeds[g]
        BY <2>4 DEF RecordFailure, At, TypeOK
      <3>2. CASE GivesUp(r, f) /\ f \in FeedsOf(p)
        <4>1. job'[r][f] = "check"
          BY <2>4, <3>2 DEF RecordFailure, Move, TypeOK
        <4> QED
          BY <3>2, <4>1 DEF Deciding
      <3>3. CASE ~(GivesUp(r, f) /\ f \in FeedsOf(p))
        <4>1. f \in FeedsOf(p) => feeds'[f].active = feeds[f].active
          BY <2>4, <3>3 DEF RecordFailure, TypeOK, FeedRow
        <4>2. \A g \in FeedsOf(p) : ~feeds[g].active
          BY <1>0, <3>1, <4>1
        <4> QED
          BY <1>0, <1>3, <1>4, <2>0, <3>1, <4>2 DEF Deciding
      <3> QED
        BY <3>2, <3>3
    <2>5. CASE Persist(r, f)
      <3>1. job[r][f] = "persist" /\ \A g \in Feed \ {f} : feeds'[g] = feeds[g]
        BY <2>5 DEF Persist, At, TypeOK
      <3>2. f \in FeedsOf(p) => f \notin NonEnglish
        BY <1>0, <2>5, IngestAssumption DEF Persist, TypeOK
      <3>3. f \in FeedsOf(p) => feeds'[f].active = feeds[f].active
        BY <2>5, <3>2 DEF Persist, TypeOK, FeedRow
      <3>4. \A g \in FeedsOf(p) : ~feeds[g].active
        BY <1>0, <3>1, <3>3
      <3> QED
        BY <1>0, <1>3, <1>4, <2>0, <3>1, <3>4 DEF Deciding
    <2>6. CASE RecordUnchanged(r, f)
      <3>1. job[r][f] = "unchanged" /\ \A g \in Feed : feeds'[g].active = feeds[g].active
        BY <2>6 DEF RecordUnchanged, At, TypeOK, FeedRow
      <3> QED
        BY <1>0, <1>3, <1>4, <2>0, <3>1 DEF Deciding
    <2>7. CASE \/ BeginFeed(r, f) \/ FetchUnchanged(r, f) \/ FetchContent(r, f)
               \/ FetchFails(r, f) \/ SaveFails(r, f) \/ FinishFeed(r, f)
               \/ CatchFailure(r, f) \/ LogError(r, f)
      <3>1. feeds' = feeds /\ job[r][f] \notin {"check", "deactivate"}
        BY <2>7 DEF BeginFeed, FetchUnchanged, FetchContent, FetchFails, SaveFails, FinishFeed,
             CatchFailure, LogError, At, tables
      <3> QED
        BY <1>0, <1>3, <1>4, <2>0, <3>1 DEF Deciding
    <2> QED
      BY <1>5, <2>1, <2>2, <2>3, <2>4, <2>5, <2>6, <2>7
         DEF FeedStep, IngestFeed, RecordFeedFailure
  <1>6. ASSUME NEW r \in Run, StartRun(r) PROVE p \in lost' \/ Deciding(p)'
    <2>1. \A f \in Feed : job[r][f] = "none"
      BY <1>6 DEF StartRun, IdleHasNoJobs
    <2>2. feeds' = feeds /\ \A s \in Run \ {r} : job'[s] = job[s]
      BY <1>6 DEF StartRun, TypeOK
    <2> QED
      BY <1>0, <1>3, <1>4, <2>1, <2>2 DEF Deciding
  <1>7. ASSUME NEW r \in Run, Die(r) PROVE p \in lost' \/ Deciding(p)'
    <2>1. feeds' = feeds /\ \A s \in Run \ {r} : job'[s] = job[s]
      BY <1>7 DEF Die, tables, TypeOK
    <2>2. \A f \in FeedsOf(p) : job[r][f] \in {"check", "deactivate"} => p \in lost'
      BY <1>0, <1>7 DEF Die, Undecided, JobsIn
    <2> QED
      BY <1>0, <1>3, <1>4, <2>1, <2>2 DEF Deciding
  <1>8. ASSUME feeds' = feeds, job' = job PROVE p \in lost' \/ Deciding(p)'
    BY <1>3, <1>4, <1>8 DEF Deciding
  <1> QED
    BY <1>5, <1>6, <1>7, <1>8 DEF Next, RunStep, FinishRun, AbortRun, Crash, Publish, tables, vars

\* A podcast without an active feed is inactive, or some thread is about to see to
\* it, or the thread that was about to died
THEOREM SettledAlways == Spec => []PodcastWithoutFeedIsInactive
  <1>1. Init => SettledInv
    <2>1. Init /\ TypeOK => \A f \in Feed : feeds[f].active
      BY DEF Init
    <2> QED
      BY <2>1, TypeInit DEF Init, SettledInv, IdleHasNoJobs, Settled, FeedsOf
  <1>2. TypeOK /\ SettledInv /\ [Next]_vars => SettledInv'
    BY SettledStep
  <1>3. SettledInv => PodcastWithoutFeedIsInactive
    BY DecidingIsUndecided DEF SettledInv, Settled, PodcastWithoutFeedIsInactive
  <1> QED
    BY <1>1, <1>2, <1>3, TypeCorrect, PTL DEF Spec

----------------------------------------------------------------------------
(* A podcast and its feeds, with a pool *)

\* What a thread has decided about the feeds it reported
DecidedInv ==
  \A r \in Run, f \in Feed :
    /\ job[r][f] = "record" /\ ~copy[r][f].active => ~feeds[f].active
    /\ job[r][f] \in {"check", "deactivate"} => ~feeds[f].active
    /\ job[r][f] = "deactivate" => NoOtherActiveFeed(f)

OutlivesInv == DecidedInv /\ PodcastOutlivesItsFeeds

\* The threads' decisions hold as long as no feed comes back
LEMMA DecidedStep ==
  ASSUME Pooled = Run, TypeOK, DecidedInv, [Next]_vars
  PROVE  DecidedInv'
  <1>1. \A f \in Feed : feeds'[f].active => feeds[f].active
    BY NothingReactivates
  <1>2. \A f \in Feed : NoOtherActiveFeed(f) => NoOtherActiveFeed(f)'
    BY <1>1 DEF NoOtherActiveFeed, FeedsOf
  <1>3. ASSUME NEW r \in Run, NEW f \in Feed, FeedStep(r, f) PROVE DecidedInv'
    <2> USE DEF TypeOK
    <2>1. ASSUME NEW s \in Run, NEW g \in Feed, s # r \/ g # f
          PROVE  job'[s][g] = job[s][g] /\ copy'[s][g] = copy[s][g]
      BY <1>3, <2>1, FeedStepMoves, FeedStepCopies
    <2> DEFINE D == /\ job'[r][f] = "record" /\ ~copy'[r][f].active => ~feeds'[f].active
                    /\ job'[r][f] \in {"check", "deactivate"} => ~feeds'[f].active
                    /\ job'[r][f] = "deactivate" => NoOtherActiveFeed(f)'
    <2>2. D
      <3>1. CASE \/ BeginFeed(r, f) \/ FetchUnchanged(r, f) \/ FetchContent(r, f)
                 \/ FetchFails(r, f) \/ RecordUnchanged(r, f) \/ Persist(r, f) \/ SaveFails(r, f)
                 \/ FinishFeed(r, f) \/ LogError(r, f) \/ NetFails(r, f) \/ DeactivatePodcast(r, f)
        <4>1. job'[r][f] \notin {"record", "check", "deactivate"}
          BY <3>1 DEF BeginFeed, FetchUnchanged, FetchContent, FetchFails, RecordUnchanged,
               Persist, SaveFails, FinishFeed, LogError, NetFails, DeactivatePodcast, Move, Leave
        <4> QED
          BY <4>1
      <3>2. CASE CatchFailure(r, f)
        <4>1. job'[r][f] = "record" /\ copy'[r][f].active = feeds[f].active /\ feeds' = feeds
          BY <3>2, Pooled = Run DEF CatchFailure, Move, tables, Copy
        <4> QED
          BY <4>1
      <3>3. CASE RecordFailure(r, f)
        <4>1. job'[r][f] \in {"log", "check"} /\ job[r][f] = "record"
          BY <3>3 DEF RecordFailure, Move, At
        <4>2. feeds'[f].active = (feeds[f].active /\ ~GivesUp(r, f))
          BY <3>3 DEF RecordFailure, FeedRow
        <4>3. job'[r][f] = "check" => ~copy[r][f].active \/ GivesUp(r, f)
          BY <3>3 DEF RecordFailure, Move
        <4> QED
          BY <4>1, <4>2, <4>3 DEF DecidedInv
      <3>4. CASE CheckOtherFeeds(r, f)
        <4>1. /\ job[r][f] = "check" /\ feeds' = feeds
              /\ job'[r][f] \in {"log", "deactivate"}
              /\ job'[r][f] = "deactivate" => NoOtherActiveFeed(f)
          BY <3>4 DEF CheckOtherFeeds, Move, At, tables
        <4> QED
          BY <1>2, <4>1 DEF DecidedInv
      <3> QED
        BY <1>3, <3>1, <3>2, <3>3, <3>4 DEF FeedStep, IngestFeed, RecordFeedFailure
    <2> HIDE DEF D
    <2>3. ASSUME NEW s \in Run, NEW g \in Feed
          PROVE  /\ job'[s][g] = "record" /\ ~copy'[s][g].active => ~feeds'[g].active
                 /\ job'[s][g] \in {"check", "deactivate"} => ~feeds'[g].active
                 /\ job'[s][g] = "deactivate" => NoOtherActiveFeed(g)'
      <3>1. CASE s = r /\ g = f
        BY <2>2, <3>1 DEF D
      <3>2. CASE s # r \/ g # f
        <4>1. job'[s][g] = job[s][g] /\ copy'[s][g] = copy[s][g]
          BY <2>1, <3>2
        <4>2. /\ job[s][g] = "record" /\ ~copy[s][g].active => ~feeds[g].active
              /\ job[s][g] \in {"check", "deactivate"} => ~feeds[g].active
              /\ job[s][g] = "deactivate" => NoOtherActiveFeed(g)
          BY DEF DecidedInv
        <4> HIDE DEF TypeOK
        <4> QED
          BY <1>1, <1>2, <4>1, <4>2
      <3> QED
        BY <3>1, <3>2
    <2> QED
      BY <2>3 DEF DecidedInv
  <1>4. ASSUME NEW r \in Run, StartRun(r) \/ Die(r) PROVE DecidedInv'
    <2>1. feeds' = feeds
      BY <1>4 DEF StartRun, Die, tables
    <2>2. \A s \in Run \ {r} : job'[s] = job[s] /\ copy'[s] = copy[s]
      BY <1>4 DEF StartRun, Die, TypeOK
    <2>3. \A f \in Feed : job'[r][f] \in {"none", "queued"}
      BY <1>4 DEF StartRun, Die, TypeOK
    <2> QED
      BY <1>2, <2>1, <2>2, <2>3 DEF DecidedInv
  <1>5. ASSUME feeds' = feeds, job' = job, copy' = copy PROVE DecidedInv'
    BY <1>2, <1>5 DEF DecidedInv
  <1> QED
    BY <1>3, <1>4, <1>5 DEF Next, RunStep, FinishRun, AbortRun, Crash, Publish, tables, vars

\* Where every run has a pool, a podcast is given up for its failures only when
\* all its feeds are, and it stays so
THEOREM OutlivesAlways ==
  ASSUME Pooled = Run
  PROVE  Spec => []PodcastOutlivesItsFeeds
  <1>1. Init => OutlivesInv
    BY DEF Init, OutlivesInv, DecidedInv, PodcastOutlivesItsFeeds
  <1>2. ASSUME TypeOK, OutlivesInv, [Next]_vars PROVE OutlivesInv'
    <2>1. DecidedInv'
      BY <1>2, DecidedStep, Pooled = Run DEF OutlivesInv
    <2>2. \A f \in Feed : feeds'[f].active => feeds[f].active
      BY <1>2, NothingReactivates
    <2> SUFFICES ASSUME NEW p \in Podcast, ~podcasts'[p]
                 PROVE  \/ \A f \in FeedsOf(p) : ~feeds'[f].active
                        \/ \E f \in FeedsOf(p) \cap NonEnglish : ~feeds'[f].active
      BY <2>1 DEF OutlivesInv, PodcastOutlivesItsFeeds
    <2>3. CASE ~podcasts[p]
      BY <1>2, <2>2, <2>3 DEF OutlivesInv, PodcastOutlivesItsFeeds, FeedsOf
    <2>4. ASSUME NEW r \in Run, NEW f \in Feed, DeactivatePodcast(r, f), podcasts[p]
          PROVE  \A g \in FeedsOf(p) : ~feeds'[g].active
      <3>1. PodcastOf[f] = p /\ feeds' = feeds /\ job[r][f] = "deactivate"
        BY <1>2, <2>4 DEF DeactivatePodcast, At, TypeOK
      <3>2. ~feeds[f].active /\ NoOtherActiveFeed(f)
        BY <1>2, <3>1 DEF OutlivesInv, DecidedInv
      <3> QED
        BY <3>1, <3>2 DEF NoOtherActiveFeed
    <2>5. ASSUME NEW r \in Run, NEW f \in Feed, Persist(r, f), podcasts[p]
          PROVE  \E g \in FeedsOf(p) \cap NonEnglish : ~feeds'[g].active
      <3>1. PodcastOf[f] = p /\ f \in NonEnglish
        BY <1>2, <2>5, IngestAssumption DEF Persist, TypeOK
      <3>2. ~feeds'[f].active
        BY <1>2, <2>5, <3>1 DEF Persist, TypeOK, FeedRow
      <3> QED
        BY <3>1, <3>2 DEF FeedsOf
    <2>6. ASSUME NEW r \in Run, NEW f \in Feed, FeedStep(r, f), podcasts[p]
          PROVE  \/ \A g \in FeedsOf(p) : ~feeds'[g].active
                 \/ \E g \in FeedsOf(p) \cap NonEnglish : ~feeds'[g].active
      BY <2>4, <2>5, <2>6, FeedStepKeepsPodcasts
    <2> QED
      BY <1>2, <2>3, <2>6, RunKeeps DEF Next
  <1>3. OutlivesInv => PodcastOutlivesItsFeeds
    BY DEF OutlivesInv
  <1> QED
    BY <1>1, <1>2, <1>3, TypeCorrect, PTL DEF Spec

----------------------------------------------------------------------------
(* Deactivation, one run at a time *)

\* No counter runs ahead of the failures that were recorded
EarnedInv ==
  /\ \A r, s \in Run : pc[r] = "running" /\ pc[s] = "running" => r = s
  /\ \A f \in Feed : feeds[f].failures <= streak[f]
  /\ \A r \in Run : pc[r] = "running" => \A f \in Feed : copy[r][f].failures <= streak[f]

\* A step of a feed keeps the counters behind the history
LEMMA EarnedFeedStep ==
  ASSUME TypeOK, EarnedInv, NEW r \in Run, NEW f \in Feed, FeedStep(r, f)
  PROVE  EarnedInv'
  <1> USE DEF TypeOK
  <1>0. /\ pc[r] = "running" /\ pc' = pc
        /\ \A s \in Run : pc'[s] = "running" => s = r
    BY FeedStepMoves DEF EarnedInv
  <1>1. /\ feeds[f].failures \in Nat /\ copy[r][f].failures \in Nat /\ streak[f] \in Nat
        /\ feeds[f].failures <= streak[f] /\ copy[r][f].failures <= streak[f]
    BY <1>0 DEF EarnedInv, FeedRow, Copy
  \* It is enough to look at the feed that moved
  <1>2. SUFFICES /\ \A g \in Feed \ {f} : /\ feeds'[g] = feeds[g] /\ streak'[g] = streak[g]
                                          /\ copy'[r][g] = copy[r][g]
                 /\ feeds'[f].failures <= streak'[f]
                 /\ copy'[r][f].failures <= streak'[f]
    BY <1>0 DEF EarnedInv
  <1>3. CASE BeginFeed(r, f)
    BY <1>1, <1>3 DEF BeginFeed, tables, ghosts, CopyOf
  <1>4. CASE FetchUnchanged(r, f) \/ CheckOtherFeeds(r, f) \/ DeactivatePodcast(r, f)
    BY <1>1, <1>4 DEF FetchUnchanged, CheckOtherFeeds, DeactivatePodcast, tables, ghosts
  <1>5. CASE FetchContent(r, f) \/ FetchFails(r, f)
    <2>1. copy'[r][f].failures = copy[r][f].failures
      <3>1. CASE FetchContent(r, f)
        BY <3>1 DEF FetchContent, Copy
      <3>2. CASE FetchFails(r, f)
        BY <3>2 DEF FetchFails, Copy
      <3> QED
        BY <1>5, <3>1, <3>2
    <2>2. \A g \in Feed \ {f} : copy'[r][g] = copy[r][g]
      BY FeedStepCopies
    <2>3. feeds' = feeds /\ streak' = streak
      BY <1>5 DEF FetchContent, FetchFails, tables, ghosts
    <2> QED
      BY <1>1, <2>1, <2>2, <2>3
  <1>6. CASE RecordUnchanged(r, f)
    BY <1>1, <1>6 DEF RecordUnchanged, Copy, FeedRow
  <1>7. CASE Persist(r, f)
    BY <1>1, <1>7 DEF Persist, Copy, FeedRow
  <1>8. CASE SaveFails(r, f)
    <2>1. copy'[r][f].failures \in {0, copy[r][f].failures}
      <3>1. CASE copy' = [copy EXCEPT ![r][f].failures = 0]
        BY <3>1 DEF Copy
      <3>2. CASE copy' = copy
        BY <3>2
      <3>3. ASSUME NEW metadata \in BOOLEAN, NEW row \in BOOLEAN,
                   copy' = [copy EXCEPT ![r][f].failures = IF row THEN 0 ELSE @,
                                        ![r][f].active = @ /\ (metadata => f \notin NonEnglish)]
            PROVE  copy'[r][f].failures \in {0, copy[r][f].failures}
        BY <3>3 DEF Copy
      <3> QED
        BY <1>8, <3>1, <3>2, <3>3 DEF SaveFails
    <2>2. \A g \in Feed \ {f} : copy'[r][g] = copy[r][g]
      BY FeedStepCopies
    <2>3. feeds' = feeds /\ streak' = streak
      BY <1>8 DEF SaveFails, tables, ghosts
    <2> QED
      BY <1>1, <2>1, <2>2, <2>3
  <1>9. CASE FinishFeed(r, f) \/ LogError(r, f) \/ NetFails(r, f)
    BY <1>1, <1>9 DEF FinishFeed, LogError, NetFails, Leave, Blank, tables, ghosts
  <1>10. CASE CatchFailure(r, f)
    BY <1>1, <1>10 DEF CatchFailure, tables, ghosts, Copy
  <1>11. CASE RecordFailure(r, f)
    <2>1. feeds'[f].failures = copy[r][f].failures + 1 /\ streak'[f] = streak[f] + 1 /\ copy' = copy
      BY <1>11 DEF RecordFailure, FeedRow
    <2>2. \A g \in Feed \ {f} : feeds'[g] = feeds[g] /\ streak'[g] = streak[g]
      BY <1>11 DEF RecordFailure
    <2> QED
      BY <1>1, <2>1, <2>2
  <1> QED
    BY <1>3, <1>4, <1>5, <1>6, <1>7, <1>8, <1>9, <1>10, <1>11
       DEF FeedStep, IngestFeed, RecordFeedFailure

\* So does every step
LEMMA EarnedStep ==
  ASSUME ~Overlap, TypeOK, EarnedInv, [Next]_vars
  PROVE  EarnedInv'
  <1>1. ASSUME NEW r \in Run, StartRun(r) PROVE EarnedInv'
    <2>1. \A s \in Run : pc'[s] = "running" => s = r
      BY <1>1, ~Overlap DEF StartRun, TypeOK
    <2>2. \A f \in Feed : copy'[r][f].failures \in {0, feeds[f].failures}
      BY <1>1 DEF StartRun, TypeOK, Nothing, Blank, CopyOf
    <2>3. \A f \in Feed : 0 <= streak[f]
      BY DEF TypeOK
    <2> QED
      BY <1>1, <2>1, <2>2, <2>3 DEF StartRun, ghosts, EarnedInv
  <1>2. ASSUME NEW r \in Run, FinishRun(r) \/ Die(r) PROVE EarnedInv'
    <2>1. feeds' = feeds /\ streak' = streak
      BY <1>2 DEF FinishRun, Die, tables, ghosts
    <2>2. \A s \in Run : pc'[s] = "running" => pc[s] = "running" /\ copy'[s] = copy[s]
      BY <1>2 DEF FinishRun, Die, TypeOK
    <2> QED
      BY <2>1, <2>2 DEF EarnedInv
  <1>3. ASSUME NEW f \in Feed, Publish(f) PROVE EarnedInv'
    BY <1>3 DEF Publish, tables, ghosts, EarnedInv
  <1>4. CASE UNCHANGED vars
    BY <1>4 DEF vars, tables, ghosts, EarnedInv
  <1> QED
    BY <1>1, <1>2, <1>3, <1>4, EarnedFeedStep DEF Next, RunStep, AbortRun, Crash

\* As long as runs do not overlap, a feed is deactivated for its content or after
\* Threshold failures in a row, the last of them permanent
THEOREM EarnedAlways ==
  ASSUME ~Overlap
  PROVE  Spec => DeactivationIsEarned
  <1>1. Init => EarnedInv
    <2> SUFFICES ASSUME Init PROVE EarnedInv
      OBVIOUS
    <2>1. \A f \in Feed : streak[f] \in Nat /\ feeds[f].failures = streak[f]
      BY IngestAssumption DEF Init
    <2> QED
      BY <2>1 DEF Init, EarnedInv
  <1>2. TypeOK /\ EarnedInv /\ [Next]_vars => EarnedInv'
    BY EarnedStep, ~Overlap
  <1> DEFINE Earned == \A f \in Feed :
       feeds[f].active /\ ~feeds'[f].active =>
         \/ f \in NonEnglish
         \/ /\ streak'[f] >= Threshold
            /\ \E r \in Run : At(r, f, "record") /\ copy[r][f].permanent
  <1>3. TypeOK /\ EarnedInv /\ [Next]_vars => [Earned]_vars
    <2> SUFFICES ASSUME TypeOK, EarnedInv, [Next]_vars, NEW f \in Feed,
                        feeds[f].active, ~feeds'[f].active, f \notin NonEnglish
                 PROVE  /\ streak'[f] >= Threshold
                        /\ \E r \in Run : At(r, f, "record") /\ copy[r][f].permanent
      OBVIOUS
    <2>1. PICK r \in Run, g \in Feed : FeedStep(r, g)
      BY RunKeeps DEF Next
    <2>0. feeds \in [Feed -> FeedRow] /\ feeds[f] \in FeedRow /\ feeds[g] \in FeedRow
      BY DEF TypeOK
    <2>2. ~Persist(r, g)
      <3> SUFFICES ASSUME Persist(r, g) PROVE FALSE
        OBVIOUS
      <3>1. feeds' = [feeds EXCEPT ![g].etag = copy[r][g].got, ![g].failures = 0,
                                   ![g].active = @ /\ g \notin NonEnglish]
        BY DEF Persist
      <3>2. CASE g = f
        <4>1. feeds'[f].active = (feeds[f].active /\ f \notin NonEnglish)
          BY <2>0, <3>1, <3>2 DEF FeedRow
        <4> QED
          BY <4>1
      <3>3. CASE g # f
        BY <2>0, <3>1, <3>3
      <3> QED
        BY <3>2, <3>3
    <2>3. ~RecordUnchanged(r, g)
      <3> SUFFICES ASSUME RecordUnchanged(r, g) PROVE FALSE
        OBVIOUS
      <3>1. feeds'[f].active = feeds[f].active
        BY <2>0 DEF RecordUnchanged, FeedRow
      <3> QED
        BY <3>1
    <2>4. RecordFailure(r, g)
      BY <2>1, <2>2, <2>3, FeedStepKeeps
    <2>5. g = f /\ GivesUp(r, f)
      BY <2>4 DEF RecordFailure, TypeOK, FeedRow
    <2>6. At(r, f, "record") /\ pc[r] = "running" /\ streak'[f] = streak[f] + 1
      BY <2>4, <2>5 DEF RecordFailure, At, TypeOK
    <2>7. copy[r][f].failures \in Nat /\ streak[f] \in Nat /\ Threshold \in Nat
      BY IngestAssumption DEF TypeOK, Copy
    <2>8. copy[r][f].failures <= streak[f]
      BY <2>6 DEF EarnedInv
    <2> QED
      BY <2>5, <2>6, <2>7, <2>8 DEF GivesUp
  <1> QED
    BY <1>1, <1>2, <1>3, TypeCorrect, PTL DEF Spec, DeactivationIsEarned
----------------------------------------------------------------------------
(* The report of a run *)

\* FinishedRunAccounts of one run
Accounts(r) ==
  scrapes[r].status \in {"succeeded", "partial", "failed"} =>
    /\ scrapes[r].succeeded + scrapes[r].failed = scrapes[r].requested
    /\ scrapes[r].failed = Cardinality({f \in Feed : <<r, f>> \in errors})
    /\ scrapes[r].status = FinalStatus(scrapes[r].succeeded, scrapes[r].failed)
    /\ \A f \in Requested(r) : job[r][f] = "succeeded" \/ <<r, f>> \in errors

\* What a run that goes on has written so far
Going(r) ==
  /\ scrapes[r].requested = Cardinality(Requested(r))
  /\ scrapes[r].failed = 0
  /\ scrapes[r].status \in {"running", "succeeded"}
  /\ \A f \in Feed : <<r, f>> \in errors <=> job[r][f] = "failed"
  /\ scrapes[r].status = "succeeded" =>
       /\ scrapes[r].requested = 1 /\ scrapes[r].succeeded = 1
       /\ \A f \in Requested(r) : job[r][f] = "succeeded"

Unstarted(r) ==
  /\ scrapes[r].status = "none" /\ scrapes[r].failed = 0
  /\ \A f \in Feed : job[r][f] = "none" /\ <<r, f>> \notin errors

AccountInv ==
  \A r \in Run :
    /\ pc[r] = "idle" => Unstarted(r)
    /\ pc[r] = "running" => Going(r)
    /\ pc[r] \in {"ended", "dead"} => Accounts(r)

\* A run of one feed that its worker has finished already accounts for it
LEMMA GoingAccounts ==
  ASSUME NEW r \in Run, Going(r)
  PROVE  Accounts(r)
  <1> SUFFICES ASSUME scrapes[r].status = "succeeded" PROVE Accounts(r)
    BY DEF Going, Accounts
  <1>1. {f \in Feed : <<r, f>> \in errors} = {}
    BY DEF Going, Requested
  <1>2. Cardinality({f \in Feed : <<r, f>> \in errors}) = 0
    BY <1>1, FS_EmptySet
  <1>3. FinalStatus(1, 0) = "succeeded"
    BY DEF FinalStatus
  <1>4. /\ scrapes[r].succeeded = 1 /\ scrapes[r].failed = 0 /\ scrapes[r].requested = 1
        /\ \A f \in Requested(r) : job[r][f] = "succeeded"
    BY DEF Going
  <1>5. scrapes[r].succeeded + scrapes[r].failed = scrapes[r].requested
    BY <1>4
  <1> QED
    BY <1>2, <1>3, <1>4, <1>5 DEF Accounts

\* A step of a feed starts from a feed that is not done and leaves none unrequested
LEMMA FeedStepFrom ==
  ASSUME TypeOK, NEW r \in Run, NEW f \in Feed, FeedStep(r, f)
  PROVE  /\ job[r][f] \in {"queued"} \cup InPool
         /\ job'[r][f] \in InPool \cup Done
         /\ ~FinishFeed(r, f) => scrapes' = scrapes /\ job'[r][f] # "succeeded"
         /\ ~LogError(r, f) => errors' = errors /\ job'[r][f] # "failed"
  <1> USE DEF TypeOK, InPool, Done, At, Move
  <1>1. CASE BeginFeed(r, f) \/ FetchUnchanged(r, f) \/ FetchContent(r, f) \/ FetchFails(r, f)
    BY <1>1 DEF BeginFeed, FetchUnchanged, FetchContent, FetchFails, tables
  <1>2. CASE RecordUnchanged(r, f) \/ Persist(r, f)
    BY <1>2 DEF RecordUnchanged, Persist
  <1>3. CASE SaveFails(r, f)
    BY <1>3 DEF SaveFails, tables
  <1>4. CASE FinishFeed(r, f)
    BY <1>4 DEF FinishFeed, Leave
  <1>5. CASE CatchFailure(r, f) \/ RecordFailure(r, f)
    BY <1>5 DEF CatchFailure, RecordFailure, tables
  <1>6. CASE CheckOtherFeeds(r, f) \/ DeactivatePodcast(r, f)
    BY <1>6 DEF CheckOtherFeeds, DeactivatePodcast, tables
  <1>7. CASE LogError(r, f)
    BY <1>7 DEF LogError, Leave
  <1>8. CASE NetFails(r, f)
    BY <1>8 DEF NetFails, Leave, tables
  <1> QED
    BY <1>1, <1>2, <1>3, <1>4, <1>5, <1>6, <1>7, <1>8
       DEF FeedStep, IngestFeed, RecordFeedFailure

\* Nothing that is not this run's changes its report
LEMMA OthersAccount ==
  ASSUME NEW r \in Run, pc'[r] = pc[r], scrapes'[r] = scrapes[r], job'[r] = job[r],
         \A f \in Feed : <<r, f>> \in errors' <=> <<r, f>> \in errors,
         /\ pc[r] = "idle" => Unstarted(r)
         /\ pc[r] = "running" => Going(r)
         /\ pc[r] \in {"ended", "dead"} => Accounts(r)
  PROVE  /\ pc'[r] = "idle" => Unstarted(r)'
         /\ pc'[r] = "running" => Going(r)'
         /\ pc'[r] \in {"ended", "dead"} => Accounts(r)'
  <1>1. Requested(r)' = Requested(r)
    BY DEF Requested
  <1>2. {f \in Feed : <<r, f>> \in errors'} = {f \in Feed : <<r, f>> \in errors}
    OBVIOUS
  <1>3. CASE pc[r] = "idle"
    BY <1>3 DEF Unstarted
  <1>4. CASE pc[r] = "running"
    BY <1>1, <1>4 DEF Going
  <1>5. CASE pc[r] \in {"ended", "dead"}
    <2>1. Accounts(r)
      BY <1>5
    <2>2. Cardinality({f \in Feed : <<r, f>> \in errors'})
            = Cardinality({f \in Feed : <<r, f>> \in errors})
      BY <1>2
    <2>3. \A f \in Requested(r) : <<r, f>> \in errors => <<r, f>> \in errors'
      BY DEF Requested
    <2>4. Accounts(r)'
      BY <1>1, <2>1, <2>2, <2>3 DEF Accounts
    <2> QED
      BY <1>5, <2>4
  <1> QED
    BY <1>3, <1>4, <1>5

LEMMA AccountFeedStep ==
  ASSUME TypeOK, AccountInv, NEW r \in Run, NEW f \in Feed, FeedStep(r, f)
  PROVE  AccountInv'
  <1>0. /\ pc[r] = "running" /\ pc' = pc
        /\ \A s \in Run \ {r} : job'[s] = job[s]
        /\ \A g \in Feed \ {f} : job'[r][g] = job[r][g]
    BY FeedStepMoves
  <1>1. /\ job[r][f] \in {"queued"} \cup InPool
        /\ job'[r][f] \in InPool \cup Done
        /\ ~FinishFeed(r, f) => scrapes' = scrapes /\ job'[r][f] # "succeeded"
        /\ ~LogError(r, f) => errors' = errors /\ job'[r][f] # "failed"
    BY FeedStepFrom
  <1>2. Requested(r)' = Requested(r) /\ f \in Requested(r)
    BY <1>0, <1>1 DEF Requested, InPool, Done
  <1>3. \A g \in Feed : <<r, g>> \in errors <=> job[r][g] = "failed"
    BY <1>0 DEF AccountInv, Going
  \* The worker of the only feed of a run has not finished it before
  <1>4. /\ scrapes[r].status = "running" /\ scrapes[r].failed = 0
        /\ scrapes[r].requested = Cardinality(Requested(r))
    BY <1>0, <1>1, <1>2 DEF AccountInv, Going, InPool
  <1>5. \A g \in Feed : <<r, g>> \in errors' <=> job'[r][g] = "failed"
    <2>1. CASE LogError(r, f)
      <3>1. errors' = errors \cup {<<r, f>>} /\ job'[r][f] = "failed"
        BY <2>1 DEF LogError, Leave, Move, TypeOK
      <3> QED
        BY <1>0, <1>3, <3>1
    <2>2. CASE ~LogError(r, f)
      BY <1>0, <1>1, <1>3, <2>2 DEF InPool
    <2> QED
      BY <2>1, <2>2
  <1>6. Going(r)'
    <2>1. CASE FinishFeed(r, f) /\ scrapes[r].requested = 1
      <3>1. PICK x : Requested(r) = {x}
        <4>1. IsFiniteSet(Requested(r))
          BY FS_Subset, IngestAssumption DEF Requested
        <4> QED
          BY <1>4, <2>1, <4>1, FS_Singleton
      <3>2. Requested(r) = {f}
        BY <1>2, <3>1
      <3>3. scrapes' = [scrapes EXCEPT ![r].status = "succeeded", ![r].succeeded = 1]
        BY <2>1 DEF FinishFeed
      <3>4. job'[r][f] = "succeeded"
        BY <2>1 DEF FinishFeed, Leave, Move, TypeOK
      <3>5. /\ scrapes'[r].requested = 1 /\ scrapes'[r].failed = 0
            /\ scrapes'[r].status = "succeeded" /\ scrapes'[r].succeeded = 1
        BY <1>4, <2>1, <3>3 DEF TypeOK, ScrapeRow
      <3> QED
        BY <1>2, <1>4, <1>5, <2>1, <3>2, <3>4, <3>5 DEF Going
    <2>2. CASE ~(FinishFeed(r, f) /\ scrapes[r].requested = 1)
      <3>1. scrapes' = scrapes
        BY <1>1, <2>2 DEF FinishFeed
      <3> QED
        BY <1>2, <1>4, <1>5, <3>1 DEF Going
    <2> QED
      BY <2>1, <2>2
  <1>7. ASSUME NEW s \in Run, s # r
        PROVE  /\ pc'[s] = "idle" => Unstarted(s)'
               /\ pc'[s] = "running" => Going(s)'
               /\ pc'[s] \in {"ended", "dead"} => Accounts(s)'
    <2>1. scrapes'[s] = scrapes[s]
      BY <1>1, <1>7 DEF FinishFeed, TypeOK
    <2>2. \A g \in Feed : <<s, g>> \in errors' <=> <<s, g>> \in errors
      BY <1>1, <1>7 DEF LogError
    <2> QED
      BY <1>0, <1>7, <2>1, <2>2, OthersAccount DEF AccountInv
  <1> QED
    BY <1>0, <1>6, <1>7 DEF AccountInv

LEMMA AccountStep ==
  ASSUME TypeOK, AccountInv, [Next]_vars
  PROVE  AccountInv'
  \* A step of a run concerns that run only
  <1>0. ASSUME NEW r \in Run, errors' = errors,
               \A s \in Run \ {r} : pc'[s] = pc[s] /\ scrapes'[s] = scrapes[s] /\ job'[s] = job[s],
               /\ pc'[r] = "idle" => Unstarted(r)'
               /\ pc'[r] = "running" => Going(r)'
               /\ pc'[r] \in {"ended", "dead"} => Accounts(r)'
        PROVE  AccountInv'
    <2>1. ASSUME NEW s \in Run, s # r
          PROVE  /\ pc'[s] = "idle" => Unstarted(s)'
                 /\ pc'[s] = "running" => Going(s)'
                 /\ pc'[s] \in {"ended", "dead"} => Accounts(s)'
      BY <1>0, <2>1, OthersAccount DEF AccountInv
    <2> QED
      BY <1>0, <2>1 DEF AccountInv
  <1>1. ASSUME NEW r \in Run, StartRun(r) PROVE AccountInv'
    <2>1. /\ errors' = errors /\ pc[r] = "idle" /\ pc'[r] = "running"
          /\ \A s \in Run \ {r} : pc'[s] = pc[s] /\ scrapes'[s] = scrapes[s] /\ job'[s] = job[s]
      BY <1>1 DEF StartRun, TypeOK
    <2>2. \A f \in Feed : job'[r][f] = IF f \in SelectedFeeds THEN "queued" ELSE "none"
      BY <1>1 DEF StartRun, TypeOK
    <2>3. Requested(r)' = SelectedFeeds
      BY <2>2 DEF Requested, SelectedFeeds
    <2>4. /\ scrapes'[r].status = "running" /\ scrapes'[r].failed = scrapes[r].failed
          /\ scrapes'[r].requested = Cardinality(SelectedFeeds)
      BY <1>1 DEF StartRun, TypeOK, ScrapeRow
    <2>5. Unstarted(r)
      BY <2>1 DEF AccountInv
    <2>6. Going(r)'
      BY <2>1, <2>2, <2>3, <2>4, <2>5 DEF Going, Unstarted
    <2> QED
      BY <1>0, <2>1, <2>6
  <1>2. ASSUME NEW r \in Run, FinishRun(r) PROVE AccountInv'
    <2> DEFINE S == JobsIn(r, {"succeeded"})
               F == JobsIn(r, {"failed"})
    <2>1. /\ errors' = errors /\ pc[r] = "running" /\ pc'[r] = "ended" /\ job' = job
          /\ \A s \in Run \ {r} : pc'[s] = pc[s] /\ scrapes'[s] = scrapes[s]
      BY <1>2 DEF FinishRun, TypeOK
    <2>2. /\ scrapes'[r].status = FinalStatus(Cardinality(S), Cardinality(F))
          /\ scrapes'[r].succeeded = Cardinality(S) /\ scrapes'[r].failed = Cardinality(F)
          /\ scrapes'[r].requested = scrapes[r].requested
      BY <1>2 DEF FinishRun, TypeOK, ScrapeRow
    <2>3. IsFiniteSet(S) /\ IsFiniteSet(F) /\ S \cap F = {}
      BY FS_Subset, IngestAssumption DEF JobsIn
    <2>4. Requested(r) = S \cup F
      <3>1. \A f \in Feed : job[r][f] \in JobState
        BY DEF TypeOK
      <3>2. \A f \in Feed : job[r][f] \notin {"queued", "raised"} \cup InPool
        BY <1>2 DEF FinishRun, AllDone, JobsIn
      <3> QED
        BY <3>1, <3>2 DEF Requested, JobsIn, JobState, Done
    <2>5. Cardinality(S \cup F) = Cardinality(S) + Cardinality(F)
      <3> HIDE DEF S, F
      <3>1. Cardinality(S) \in Nat /\ Cardinality(F) \in Nat
        BY <2>3, FS_CardinalityType
      <3>2. Cardinality(S \cup F) = Cardinality(S) + Cardinality(F) - Cardinality(S \cap F)
        BY <2>3, FS_Union
      <3>3. Cardinality(S \cap F) = 0
        BY <2>3, FS_EmptySet
      <3> QED
        BY <3>1, <3>2, <3>3
    <2>6. Going(r)
      BY <2>1 DEF AccountInv
    <2>7. {f \in Feed : <<r, f>> \in errors'} = F
      BY <2>1, <2>6 DEF Going, JobsIn
    <2>8. Requested(r)' = Requested(r) /\ \A f \in Requested(r) : f \in S \/ <<r, f>> \in errors
      BY <2>1, <2>4, <2>6 DEF Going, Requested, JobsIn
    <2>9. \A f \in S : job[r][f] = "succeeded"
      BY DEF JobsIn
    <2> HIDE DEF S, F
    <2>10. Accounts(r)'
      <3>1. scrapes'[r].succeeded + scrapes'[r].failed = scrapes'[r].requested
        BY <2>2, <2>4, <2>5, <2>6 DEF Going
      <3> QED
        BY <2>1, <2>2, <2>7, <2>8, <2>9, <3>1 DEF Accounts
    <2> QED
      BY <1>0, <2>1, <2>10
  <1>3. ASSUME NEW r \in Run, pc[r] = "running", Die(r) PROVE AccountInv'
    <2>1. /\ errors' = errors /\ scrapes' = scrapes /\ pc'[r] = "dead"
          /\ \A s \in Run \ {r} : pc'[s] = pc[s] /\ job'[s] = job[s]
          /\ \A f \in Feed : job'[r][f] = "none"
      BY <1>3 DEF Die, tables, TypeOK
    <2>2. Accounts(r)
      BY <1>3, GoingAccounts DEF AccountInv
    <2>3. Requested(r)' = {}
      BY <2>1 DEF Requested
    <2>4. Accounts(r)'
      BY <2>1, <2>2, <2>3 DEF Accounts
    <2> QED
      BY <1>0, <2>1, <2>4
  <1>4. ASSUME errors' = errors, scrapes' = scrapes, pc' = pc, job' = job PROVE AccountInv'
    BY <1>4, OthersAccount DEF AccountInv
  <1> QED
    BY <1>1, <1>2, <1>3, <1>4, AccountFeedStep
       DEF Next, RunStep, AbortRun, Crash, Publish, tables, vars

\* A run that is reported finished accounts for every feed it requested
THEOREM AccountsAlways == Spec => []FinishedRunAccounts
  <1>1. Init => AccountInv
    BY DEF Init, AccountInv, Unstarted
  <1>2. TypeOK /\ AccountInv /\ [Next]_vars => AccountInv'
    BY AccountStep
  <1>3. TypeOK /\ AccountInv => FinishedRunAccounts
    <2> SUFFICES ASSUME TypeOK, AccountInv, NEW r \in Run PROVE Accounts(r)
      BY DEF FinishedRunAccounts, Accounts
    <2>1. pc[r] \in {"idle", "running", "ended", "dead"}
      BY DEF TypeOK
    <2> QED
      BY <2>1, GoingAccounts DEF AccountInv, Unstarted, Accounts
  <1> QED
    BY <1>1, <1>2, <1>3, TypeCorrect, PTL DEF Spec

===============================================================================
