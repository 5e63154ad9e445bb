----------------------------- MODULE FeedIngest -----------------------------
(***************************************************************************)
(* The scrape: ingest_feeds and the pool of threads it ingests with, the   *)
(* Feed, Podcast, ScrapeRun and ScrapeError tables, and the conditional    *)
(* requests to the feeds' servers.                                         *)
(*                                                                         *)
(* A step is one statement of one thread, or one transaction where the     *)
(* code opens one; between two of them any other thread, any other run     *)
(* and the end of the process may fall.                                    *)
(***************************************************************************)
EXTENDS Naturals, FiniteSets, Sequences

CONSTANTS
  Feed,
  Podcast,
  PodcastOf,       \* the podcast of each feed
  NonEnglish,      \* feeds whose content sync_podcast_metadata rejects
  Run,             \* invocations of ingest_feeds, each started once
  Pooled,          \* the runs with --concurrency > 1
  Workers,         \* their --concurrency
  Overlap,         \* whether a run may start while another one is going on
  IncludeInactive, \* --inactive
  Threshold,       \* PERMANENT_FAILURE_DEACTIVATION_THRESHOLD
  Limit,           \* --max-episodes-per-feed of each run, 0 for no limit
  Entry,           \* entries of the feeds, by their guid
  Listing,         \* the entries a feed's server lists in each version, in its order
  Publishing,      \* bound: feeds whose servers publish anything new
  MaxVersion       \* bound: versions a feed's server ever publishes

ASSUME IngestAssumption ==
  /\ PodcastOf \in [Feed -> Podcast]
  /\ NonEnglish \subseteq Feed
  /\ Publishing \subseteq Feed
  /\ Pooled \subseteq Run
  /\ {Overlap, IncludeInactive} \subseteq BOOLEAN
  /\ {Threshold, MaxVersion} \subseteq Nat \ {0}
  /\ Workers \in Nat \ {0, 1}
  /\ Limit \in [Run -> Nat]
  /\ Listing \in [Feed -> [1..MaxVersion -> Seq(Entry)]]
  /\ IsFiniteSet(Feed)

VARIABLES
  feeds,     \* Feed rows
  podcasts,  \* Podcast.active
  catalog,   \* the entries of each feed that are episodes in the database
  scrapes,   \* ScrapeRun rows
  errors,    \* ScrapeError rows: the run and the feed
  pc,        \* where each invocation stands
  job,       \* where each feed of each invocation stands
  copy,      \* the Feed object in the memory of each invocation
  version,   \* what the feeds' servers have
  streak,    \* history: failures recorded since the last success recorded
  lost       \* history: podcasts whose deactivation died with its thread

tables == <<feeds, podcasts, catalog, scrapes, errors>>
ghosts == <<streak, lost>>
vars == <<tables, pc, job, copy, version, ghosts>>

----------------------------------------------------------------------------
(* Data *)

NoVersion == 0
Version == 0..MaxVersion

\* etag stands for etag and last_modified, which are saved together
FeedRow == [active : BOOLEAN, failures : Nat, etag : Version]
ScrapeRow == [status : {"none", "running", "succeeded", "partial", "failed"},
              requested : Nat, succeeded : Nat, failed : Nat]

\* A Feed object with what its fetch returned: a version, or an error that is
\* an HTTP status of PERMANENT_HTTP_FAILURE_STATUSES or another one.
Copy == [active : BOOLEAN, failures : Nat, etag : Version,
         got : Version, permanent : BOOLEAN]

InPool == {"fetch", "unchanged", "persist", "finish", "caught", "record",
           "check", "deactivate", "log"}
Done == {"succeeded", "failed", "raised"}
JobState == {"none", "queued"} \cup InPool \cup Done

\* What parse_feed keeps of a version: its first entries, up to the limit
Kept(f, v, limit) ==
  IF v = NoVersion THEN {}
  ELSE {Listing[f][v][i] : i \in {j \in DOMAIN Listing[f][v] : limit = 0 \/ j <= limit}}

CopyOf(row) == [active |-> row.active, failures |-> row.failures, etag |-> row.etag,
                got |-> NoVersion, permanent |-> FALSE]

Requested(r) == {f \in Feed : job[r][f] # "none"}
FeedsOf(p) == {f \in Feed : PodcastOf[f] = p}

Blank == [active |-> FALSE, failures |-> 0, etag |-> NoVersion,
          got |-> NoVersion, permanent |-> FALSE]
Nothing == [f \in Feed |-> Blank]

Move(r, f, to) == job' = [job EXCEPT ![r][f] = to]

\* The thread is done with the feed and lets its object go
Leave(r, f, to) ==
  /\ Move(r, f, to)
  /\ copy' = [copy EXCEPT ![r][f] = Blank]

----------------------------------------------------------------------------
(* The command *)

\* Feeds of active podcasts, the inactive feeds only when asked for
SelectedFeeds == {f \in Feed : /\ podcasts[PodcastOf[f]]
                               /\ IncludeInactive \/ feeds[f].active}

\* ScrapeRun.objects.create; a serial run ingests the objects it selected, the
\* pool is given their ids
StartRun(r) ==
  /\ pc[r] = "idle"
  /\ Overlap \/ \A s \in Run : pc[s] # "running"
  /\ SelectedFeeds # {}
  /\ pc' = [pc EXCEPT ![r] = "running"]
  /\ scrapes' = [scrapes EXCEPT ![r].status = "running",
                                ![r].requested = Cardinality(SelectedFeeds)]
  /\ job' = [job EXCEPT ![r] = [f \in Feed |-> IF f \in SelectedFeeds THEN "queued" ELSE "none"]]
  /\ copy' = [copy EXCEPT ![r] = IF r \in Pooled THEN Nothing
                                 ELSE [f \in Feed |-> CopyOf(feeds[f])]]
  /\ UNCHANGED <<feeds, podcasts, catalog, errors, version, ghosts>>

JobsIn(r, states) == {f \in Feed : job[r][f] \in states}
PoolSize(r) == IF r \in Pooled THEN Workers ELSE 1

FreeWorker(r) ==
  /\ Cardinality(JobsIn(r, InPool)) < PoolSize(r)
  /\ r \notin Pooled => JobsIn(r, {"raised"}) = {}

\* Mutant: a status the table does not know
FinalStatusDone(succeeded, failed) == IF failed = 0 THEN "done" ELSE "failed"

\* The status follows from the results that were collected
FinalStatus(succeeded, failed) ==
  IF failed = 0 THEN "succeeded" ELSE IF succeeded = 0 THEN "failed" ELSE "partial"

\* Mutant: waits for the feeds that failed
AllSucceeded(r) == JobsIn(r, {"queued", "failed"} \cup InPool) = {}

\* Mutant: finishes once every feed was handed to the pool
AllSubmitted(r) == JobsIn(r, {"queued"}) = {}

AllDone(r) == JobsIn(r, {"queued"} \cup InPool) = {}

\* finish_feed_run, once no worker is left and none raised
FinishRun(r) ==
  LET succeeded == Cardinality(JobsIn(r, {"succeeded"}))
      failed == Cardinality(JobsIn(r, {"failed"}))
  IN
  /\ pc[r] = "running"
  /\ AllDone(r)
  /\ JobsIn(r, {"raised"}) = {}
  /\ scrapes' = [scrapes EXCEPT ![r].status = FinalStatus(succeeded, failed),
                                ![r].succeeded = succeeded,
                                ![r].failed = failed]
  /\ pc' = [pc EXCEPT ![r] = "ended"]
  /\ UNCHANGED <<feeds, podcasts, catalog, errors, job, copy, version, ghosts>>

Undecided(r) == JobsIn(r, {"check", "deactivate"})

\* The process ends: its threads and their objects are gone
Die(r) ==
  /\ pc' = [pc EXCEPT ![r] = "dead"]
  /\ job' = [job EXCEPT ![r] = [f \in Feed |-> "none"]]
  /\ copy' = [copy EXCEPT ![r] = Nothing]
  /\ lost' = lost \cup {PodcastOf[f] : f \in Undecided(r)}
  /\ UNCHANGED <<tables, version, streak>>

\* What a worker raised comes out of future.result() (the pool is still drained)
\* or out of the serial loop: the ScrapeRun stays RUNNING.
AbortRun(r) ==
  /\ pc[r] = "running"
  /\ JobsIn(r, {"raised"}) # {}
  /\ JobsIn(r, InPool) = {}
  /\ r \in Pooled => JobsIn(r, {"queued"}) = {}
  /\ Die(r)

\* The process is killed
Crash(r) ==
  /\ pc[r] = "running"
  /\ Die(r)

----------------------------------------------------------------------------
(* One feed: ingest_feed *)

At(r, f, state) == pc[r] = "running" /\ job[r][f] = state

\* A thread takes the feed; in the pool it reads the row again
BeginFeed(r, f) ==
  /\ At(r, f, "queued")
  /\ FreeWorker(r)
  /\ Move(r, f, "fetch")
  /\ copy' = IF r \in Pooled THEN [copy EXCEPT ![r][f] = CopyOf(feeds[f])] ELSE copy
  /\ UNCHANGED <<tables, pc, version, ghosts>>

\* The server answers 304 when the validators sent are those of its version
FetchUnchanged(r, f) ==
  /\ At(r, f, "fetch")
  /\ copy[r][f].etag = version[f]
  /\ Move(r, f, "unchanged")
  /\ UNCHANGED <<tables, pc, copy, version, ghosts>>

\* Mutant: the validators are saved before the transaction
FetchContentSavesEtag(r, f) ==
  /\ At(r, f, "fetch")
  /\ version[f] # NoVersion
  /\ Move(r, f, "persist")
  /\ copy' = [copy EXCEPT ![r][f].got = version[f]]
  /\ feeds' = [feeds EXCEPT ![f].etag = version[f]]
  /\ UNCHANGED <<podcasts, catalog, scrapes, errors, pc, version, ghosts>>

FetchContent(r, f) ==
  /\ At(r, f, "fetch")
  /\ version[f] # NoVersion
  /\ Move(r, f, "persist")
  /\ copy' = [copy EXCEPT ![r][f].got = version[f]]
  /\ UNCHANGED <<tables, pc, version, ghosts>>

\* The request, the snapshot or the parser raises
FetchFails(r, f) ==
  /\ At(r, f, "fetch")
  /\ \E permanent \in BOOLEAN : copy' = [copy EXCEPT ![r][f].permanent = permanent]
  /\ Move(r, f, "caught")
  /\ UNCHANGED <<tables, pc, version, ghosts>>

RecordUnchanged(r, f) ==
  /\ At(r, f, "unchanged")
  /\ feeds' = [feeds EXCEPT ![f].failures = 0]
  /\ streak' = [streak EXCEPT ![f] = 0]
  /\ Move(r, f, "finish")
  /\ copy' = [copy EXCEPT ![r][f].failures = 0]
  /\ UNCHANGED <<podcasts, catalog, scrapes, errors, pc, version, lost>>

\* The transaction: sync_podcast_metadata, upsert_episodes and the feed's row.
\* The entries beyond the limit are left out, and no episode is ever deleted; the
\* validators saved are those of the whole response.
Persist(r, f) ==
  /\ At(r, f, "persist")
  /\ feeds' = [feeds EXCEPT ![f].etag = copy[r][f].got, ![f].failures = 0,
                            ![f].active = @ /\ f \notin NonEnglish]
  /\ podcasts' = [podcasts EXCEPT ![PodcastOf[f]] = @ /\ f \notin NonEnglish]
  /\ catalog' = [catalog EXCEPT ![f] = @ \cup Kept(f, copy[r][f].got, Limit[r])]
  /\ streak' = [streak EXCEPT ![f] = 0]
  /\ Move(r, f, "finish")
  /\ copy' = [copy EXCEPT ![r][f].failures = 0,
                          ![r][f].active = @ /\ f \notin NonEnglish]
  /\ UNCHANGED <<scrapes, errors, pc, version, lost>>

\* A statement raises: the database forgets the transaction, the object in
\* memory does not.  The error is no HTTP error, so it is never permanent.  The
\* row of the run is only written for a run of one feed.
SaveFails(r, f) ==
  /\ \/ At(r, f, "unchanged") /\ copy' = [copy EXCEPT ![r][f].failures = 0]
     \/ At(r, f, "finish") /\ scrapes[r].requested = 1 /\ copy' = copy
     \/ /\ At(r, f, "persist")
        /\ \E metadata, row \in BOOLEAN :   \* how far it came
             /\ row => metadata
             /\ copy' = [copy EXCEPT ![r][f].failures = IF row THEN 0 ELSE @,
                                     ![r][f].active = @ /\ (metadata => f \notin NonEnglish)]
  /\ Move(r, f, "caught")
  /\ UNCHANGED <<tables, pc, version, ghosts>>

\* finish_single_feed_run: a run of one feed is finished by its worker
FinishFeed(r, f) ==
  /\ At(r, f, "finish")
  /\ scrapes' = IF scrapes[r].requested = 1
                THEN [scrapes EXCEPT ![r].status = "succeeded", ![r].succeeded = 1]
                ELSE scrapes
  /\ Leave(r, f, "succeeded")
  /\ UNCHANGED <<feeds, podcasts, catalog, errors, pc, version, ghosts>>

----------------------------------------------------------------------------
(* The safety net around ingest_feed: record_feed_failure and the ScrapeError *)

\* Feed.objects.get in the pool; the serial loop goes on with its object
CatchFailure(r, f) ==
  /\ At(r, f, "caught")
  /\ Move(r, f, "record")
  /\ copy' = IF r \in Pooled
             THEN [copy EXCEPT ![r][f].active = feeds[f].active,
                               ![r][f].failures = feeds[f].failures]
             ELSE copy
  /\ UNCHANGED <<tables, pc, version, ghosts>>

\* Mutant: any failure deactivates
GivesUpOnAny(r, f) == copy[r][f].failures + 1 >= Threshold

GivesUp(r, f) ==
  /\ copy[r][f].permanent
  /\ copy[r][f].failures + 1 >= Threshold

RecordFailure(r, f) ==
  /\ At(r, f, "record")
  /\ feeds' = [feeds EXCEPT ![f].failures = copy[r][f].failures + 1,
                            ![f].active = @ /\ ~GivesUp(r, f)]
  /\ streak' = [streak EXCEPT ![f] = @ + 1]
  /\ Move(r, f, IF copy[r][f].active /\ ~GivesUp(r, f) THEN "log" ELSE "check")
  /\ UNCHANGED <<podcasts, catalog, scrapes, errors, pc, copy, version, lost>>

\* Mutant: the other feeds of the podcast are not looked at
NoOtherFeed(f) == TRUE

\* Mutant: inactive feeds of the podcast count as well
NoFeedBeside(f) == FeedsOf(PodcastOf[f]) = {f}

NoOtherActiveFeed(f) == \A g \in FeedsOf(PodcastOf[f]) \ {f} : ~feeds[g].active

CheckOtherFeeds(r, f) ==
  /\ At(r, f, "check")
  /\ Move(r, f, IF NoOtherActiveFeed(f) THEN "deactivate" ELSE "log")
  /\ UNCHANGED <<tables, pc, copy, version, ghosts>>

DeactivatePodcast(r, f) ==
  /\ At(r, f, "deactivate")
  /\ podcasts' = [podcasts EXCEPT ![PodcastOf[f]] = FALSE]
  /\ Move(r, f, "log")
  /\ UNCHANGED <<feeds, catalog, scrapes, errors, pc, copy, version, ghosts>>

LogError(r, f) ==
  /\ At(r, f, "log")
  /\ errors' = errors \cup {<<r, f>>}
  /\ Leave(r, f, "failed")
  /\ UNCHANGED <<feeds, podcasts, catalog, scrapes, pc, version, ghosts>>

\* A statement of the safety net raises
NetFails(r, f) ==
  /\ pc[r] = "running"
  /\ job[r][f] \in {"caught", "record", "check", "deactivate", "log"}
  /\ Leave(r, f, "raised")
  /\ lost' = lost \cup {PodcastOf[g] : g \in {f} \cap Undecided(r)}
  /\ UNCHANGED <<tables, pc, version, streak>>

----------------------------------------------------------------------------
(* The servers (external) *)

Publish(f) ==
  /\ f \in Publishing
  /\ version[f] < MaxVersion
  /\ version' = [version EXCEPT ![f] = @ + 1]
  /\ UNCHANGED <<tables, pc, job, copy, ghosts>>

----------------------------------------------------------------------------
(* Specification *)

Init ==
  /\ streak \in [Feed -> 0..Threshold - 1]
  /\ feeds = [f \in Feed |-> [active |-> TRUE, failures |-> streak[f], etag |-> NoVersion]]
  /\ podcasts = [p \in Podcast |-> TRUE]
  /\ catalog = [f \in Feed |-> {}]
  /\ scrapes = [r \in Run |-> [status |-> "none", requested |-> 0,
                               succeeded |-> 0, failed |-> 0]]
  /\ errors = {}
  /\ pc = [r \in Run |-> "idle"]
  /\ job = [r \in Run |-> [f \in Feed |-> "none"]]
  /\ copy = [r \in Run |-> Nothing]
  /\ version = [f \in Feed |-> 1]
  /\ lost = {}

IngestFeed(r, f) ==
  \/ BeginFeed(r, f)
  \/ FetchUnchanged(r, f)
  \/ FetchContent(r, f)
  \/ FetchFails(r, f)
  \/ RecordUnchanged(r, f)
  \/ Persist(r, f)
  \/ SaveFails(r, f)
  \/ FinishFeed(r, f)

RecordFeedFailure(r, f) ==
  \/ CatchFailure(r, f)
  \/ RecordFailure(r, f)
  \/ CheckOtherFeeds(r, f)
  \/ DeactivatePodcast(r, f)
  \/ LogError(r, f)
  \/ NetFails(r, f)

FeedStep(r, f) == IngestFeed(r, f) \/ RecordFeedFailure(r, f)

RunStep(r) == StartRun(r) \/ FinishRun(r) \/ AbortRun(r) \/ Crash(r)

Next ==
  \/ \E r \in Run : RunStep(r)
  \/ \E r \in Run, f \in Feed : FeedStep(r, f)
  \/ \E f \in Feed : Publish(f)

Spec == Init /\ [][Next]_vars

\* Requests time out and statements return, so every thread goes on; nobody has
\* to start a run, and a server need not publish.
Fairness ==
  /\ \A r \in Run : WF_vars(FinishRun(r) \/ AbortRun(r))
  /\ \A r \in Run, f \in Feed : WF_vars(FeedStep(r, f))

FairSpec == Spec /\ Fairness

----------------------------------------------------------------------------
(* Properties *)

\* A limit that keeps all that the other one keeps
Reaches(a, b) == a = 0 \/ (b # 0 /\ a >= b)

\* Every variable has its type
TypeOK ==
  /\ feeds \in [Feed -> FeedRow]
  /\ podcasts \in [Podcast -> BOOLEAN]
  /\ catalog \in [Feed -> SUBSET Entry]
  /\ scrapes \in [Run -> ScrapeRow]
  /\ errors \subseteq Run \X Feed
  /\ pc \in [Run -> {"idle", "running", "ended", "dead"}]
  /\ job \in [Run -> [Feed -> JobState]]
  /\ copy \in [Run -> [Feed -> Copy]]
  /\ version \in [Feed -> Version]
  /\ streak \in [Feed -> Nat]
  /\ lost \subseteq Podcast

\* A podcast that lost its last active feed is inactive, even when its feeds
\* fail in two threads or two runs at once, unless the thread that was about to
\* deactivate it died between the two saves of record_feed_failure.
PodcastWithoutFeedIsInactive ==
  \A p \in Podcast :
    podcasts[p] /\ FeedsOf(p) # {} /\ (\A f \in FeedsOf(p) : ~feeds[f].active) =>
      p \in lost \/ \E r \in Run : FeedsOf(p) \cap Undecided(r) # {}

\* Where every run has a pool, a podcast is given up for its failures only when
\* all its feeds are: one that is inactive has no active feed, or has a feed that
\* was found not to be English.  (The serial loop reports a feed whose transaction
\* failed with the object of that transaction, whose active it believes.)
PodcastOutlivesItsFeeds ==
  \A p \in Podcast :
    ~podcasts[p] => \/ \A f \in FeedsOf(p) : ~feeds[f].active
                    \/ \E f \in FeedsOf(p) \cap NonEnglish : ~feeds[f].active

\* A run that reports a feed unchanged would have found nothing new in it: each
\* entry that it would have kept of the version its validators stand for is in the
\* database, whichever thread saved them and whatever was lost with a transaction
\* or a process, as long as no run has a lower limit than its own.  (The validators
\* vouch for the whole response: what a lower limit cut off stays out until the
\* server publishes again.)
UnchangedIsIngested ==
  \A r \in Run, f \in Feed :
    At(r, f, "unchanged") /\ (\A s \in Run : Reaches(Limit[s], Limit[r])) =>
      Kept(f, copy[r][f].etag, Limit[r]) \subseteq catalog[f]

\* A scrape run that is reported finished accounts for every feed it requested:
\* each succeeded or left a ScrapeError, and the status says which.
FinishedRunAccounts ==
  \A r \in Run :
    scrapes[r].status \in {"succeeded", "partial", "failed"} =>
      /\ scrapes[r].succeeded + scrapes[r].failed = scrapes[r].requested
      /\ scrapes[r].failed = Cardinality({f \in Feed : <<r, f>> \in errors})
      /\ scrapes[r].status = FinalStatus(scrapes[r].succeeded, scrapes[r].failed)
      /\ \A f \in Requested(r) : job[r][f] = "succeeded" \/ <<r, f>> \in errors

\* As long as runs do not overlap, a feed is deactivated for its content or
\* after Threshold failures with no success between them, the last of them
\* permanent.
DeactivationIsEarned ==
  [][\A f \in Feed :
       feeds[f].active /\ ~feeds'[f].active =>
         \/ f \in NonEnglish
         \/ /\ streak'[f] >= Threshold
            /\ \E r \in Run : At(r, f, "record") /\ copy[r][f].permanent]_vars

\* A run that was started is finished, or it died
RunEnds == \A r \in Run : pc[r] = "running" ~> pc[r] \in {"ended", "dead"}

=============================================================================
