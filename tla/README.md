# podcast_network, modelled in TLA+

podcast_network collects podcast feeds, extracts the guests of their episodes
with a language model, resolves the guests to people and analyses the network of
people who talked to each other. One command, `run_weekly_update_pipeline`, does
all of it once a week, as the jobs of a Cloud Workflow or in one process; every
part can also be run by hand. A web site, the explorer, answers how two people are
connected.

This directory holds TLA+ modules of that system, the TLC configurations that
check them on small instances, and proofs for instances of any size. Paths below
are relative to `src/src/podcast_network/`; `commands/` stands for
`web/catalog/management/commands/`. `PROJECT.json` has the line-by-line map of
definitions to code, the hazards and the list of theorems.

## 1. Inventory

### What runs, and how its parts meet

There is no message bus and almost no shared memory. Commands are processes that
meet in the tables of one database, often without a transaction around more than
one statement, and in services outside of it: OpenAI's Batch API, which keeps
a batch for up to a day, the servers of the feeds, with their validators, and a
bucket of artifacts. Threads share memory in two places, the worker pool of the
scrape and the cache of the six-degrees graph in the web server. What is hard,
therefore, is what a process still believes when another one has changed its rows,
what is left when a process dies between two statements, and what a second
invocation makes of it.

| component | state | operations | who it meets |
|---|---|---|---|
| Guest extraction by batches (`commands/run_guest_extraction_batch_backfill.py`, `sync_guest_extraction_batch*.py`, `batch_guest_extraction_status.py`, `extraction/`) | `ExtractionRun`, `EpisodeGuestExtraction`, batches at the service | find or submit a run, record it, poll, persist an output file line by line, finalize, review in a second pass; sync, mark failed and mark duplicate by hand | the service; other invocations of one label; operators |
| Submitting without a coordinator (`commands/submit_guest_extraction_batch*.py`, `run_guest_extraction_*cloud_backfill.py`, `rerun_guest_extraction_review_band_cloud.py`) | the same | submit one batch, a series, or waves with rounds of checks between them | the same |
| Extraction by direct calls (`commands/extract_guests.py`, `backfill_guest_extractions.py`) | the same tables | select episodes, call, persist each, finalize | the model; all of the above |
| Weekly pipeline (`commands/run_weekly_update_pipeline.py`, `weekly_update_status.py`, `send_weekly_update_alert.py`, `cloud/workflows/weekly_update.yaml`) | `PipelineRun`, `PipelineStepRun`; the execution of the workflow | start a run, replace its steps, run each command, finish or fail it; retry a job, check the ledger, alert | every other command; other processes that use its label |
| Feed ingest (`commands/ingest_feeds.py`, `ingest/`) | `Feed`, `Podcast.active`, `Episode`, `ScrapeRun`, `ScrapeError` | fetch with validators, save in a transaction, count failures, deactivate, finish the run | its own threads; overlapping runs; the feeds' servers |
| Appearances (`commands/sync_guest_appearances.py`, `promote_frequent_guests_to_cohosts.py`) | `Person`, `Appearance` | turn candidates into appearances, promote frequent guests | extraction before, entities after |
| Person entities (`commands/*person_entit*.py`, `entities/`) | observations, canonical entities, links, candidate pairs | synchronise, generate, score, match, apply aliases | appearances before, metrics after |
| Entity model (`entities/model.py`, ...) | artifacts | features, training | scores of candidates |
| Network metrics (`network/metrics.py`) | `NetworkMetricRun` and its rows | compute and store | entities; evolution, which tracks its people |
| Network evolution (`network/evolution.py`) | a snapshot per week | find the next weeks, compute them, reset | appearances of any age |
| Six-degrees search (`graph/six_degrees.py`) | none | edges, shortest paths | the graph cache |
| Graph cache and artifact (`web/explorer/graph_service.py`, `graph_artifact.py`) | one graph per worker, its age and lock; a file the workers share | publish; download, load or build under the lock | threads and workers of the web server; the pipeline |
| Future links (`future_links/`, `commands/*future_link*.py`) | prediction and audit runs and rows; training files | candidates, features, scores, the best kept; weekly audit; datasets | links written meanwhile |
| Host extraction (`commands/extract_podcast_hosts.py`) | host rows | a call and an upsert for each podcast | the model |
| Explorer (`web/explorer/`) | none | read-only views | the graph cache |
| Plots (`plots/`) | files | render | none |
| Catalog imports, one-off preparation | catalog rows | upserts by hand | none |
| Operational safety (`operational_safety.py`, ...) | none | checks of the configuration, reports | none |

### What makes each of them correct

- **Guest extraction.** Work that was paid for is neither submitted twice by one
  coordinator or by one series of waves, nor lost to a crash, nor overwritten by a
  failure; a success says what its run was answered, whoever wrote it; a run that
  is over says what became of its batch; the coordinator comes to an end, and when
  it says that nothing is left, nothing is.
- **Weekly pipeline.** A success is announced only for a week in which every
  command completed; the ledger tells what happened; no run hangs unless its
  process was killed; every execution comes to a verdict.
- **Feed ingest.** A feed is given up only after failures it really had in a row,
  a podcast exactly when its last feed is; a feed that is reported unchanged has nothing
  that the run would have kept and the database lacks; a finished run accounts for
  every feed; the pool drains.
- **Appearances.** Running the week again changes nothing; a promotion does not
  lose the appearances it was computed from.
- **Person entities.** Every appearance has one live entity whatever the order of
  the matches and wherever the command stopped; groups and persons stay apart;
  what was matched stays matched, and passes do not undo each other.
- **Metrics and evolution.** What is read is of a run that is whole; one snapshot
  per week, no week forgotten; what a week adds explains its size.
- **Future links.** The rows of a run are the best of what was scored, scored as
  the model was trained; an audit judges what could have been predicted; every
  future link is counted once.
- **Graph.** A reader gets the path that the rows imply, whatever their order; the
  graph is no older than the artifacts the bucket held while it was downloaded, a worker
  loads it once at a time, and every request is answered.

## 2. Plan

| order | modules | status |
|---|---|---|
| 1 | `BatchBackfill`, with the abstract specification `ExtractionLedger`; `BatchBackfillProofs` | done |
| 2 | `FeedIngest`; `FeedIngestProofs` | done |
| 3 | `WeeklyPipeline`; `WeeklyPipelineProofs` | done |
| 4 | `Appearances`: sync and promotion, week after week; `AppearancesProofs` | done |
| 5 | `EntityResolution`: observations, entities, links and pairs; `EntityResolutionProofs` | done |
| 6 | `Analysis` over `FutureLinks`: metrics, evolution, predictions, audits, training data; `AnalysisProofs` | done |
| 7 | `GraphCache` over `SixDegrees`; `GraphCacheProofs` | done |
| 8 | `GuestExtraction` over `BatchBackfill`: the submitting and direct commands beside the coordinator; `GuestExtractionProofs` | done |
| 9 | the labels the weekly coordinator makes up; a host extraction in the middle of a processing phase; the cleaning of names; two refreshes of the entities at once | open |
| 10 | a theorem for `AnswersArePaths`, in `GraphCacheProofs` | done |

The order is that of what a mistake costs: extraction spends money and cannot be
repeated for free, the scrape decides what is collected at all, the pipeline says
whether the week can be believed, and the rest can be computed again from the
tables. Each command is a set of actions of its own, because crashes and manual runs
fall between them.

## 3. The modules

A step of every model is one interaction of one process with the database or a
service, or one transaction where the code opens one. Between two steps any other
process may act, and a process may die. Definitions that begin with `\* Mutant:`
are wrong variants of the definition below them; the specification never uses
them. They are what shows that a property can fail. The modules whose names begin
with MC give the constants values; those that end in Proofs hold the theorems.

### BatchBackfill

`run_guest_extraction_batch_backfill` and what touches the same rows. `batches`
is the service, `runs` the `ExtractionRun` table in the order of `started_at`,
`extraction` the `EpisodeGuestExtraction` row of each pass (the passes use
different models, and model and episode are the key of a row). A coordinator is a
program counter: `loop` decides on the next first pass, `submit` and `record` are
`batches.create` and `ExtractionRun.objects.create`, apart because a crash between
them leaves a batch no row knows; `poll` waits, `sync` persists one line of the
output file at a time, `review` decides on a second pass. `held` is the run it
works on, `plan` what it is about to submit, `todo` the lines it has not persisted.

- An answer is `none` (the request is in the error file only), `error`, `review`
  (parsed, in the band that a second pass looks at) or `settled`: all that the
  code's decisions distinguish.
- `failed` stands for the states failed, expired and cancelled of a batch.
- Operators sync a run that need not be RUNNING, mark failed batches, and mark
  duplicates.
- Not modelled: token counts and the artifacts in the bucket.

`ExtractionLedger` is what this promises: runs open, results accumulate while
a run is open, runs close, once. `BatchBackfill!Ledger` is the refinement mapping.

### GuestExtraction

Extends `BatchBackfill` by all other commands that write the same rows. The
submitting commands are Operators of `BatchBackfill`, so that they share its `pc`,
`held`, `plan`, `todo` and its steps that submit a batch and persist its output; what
they keep besides is `wave`. A round lists the RUNNING runs of the label, checks
each, sleeps while batches are pending, counts what remains, and submits a wave of
chunks, one after the other. The runtime limit is a choice at each of the two places
that look at the clock, and once it has passed it stays so. `manual` is
`submit_guest_extraction_batch`, its series and `--review-band-run-id`, which do
not wait. The direct commands have their own table of runs, `calls`, whose ids lie
above those of the batches, and look up each episode (`CheckEpisode`) some time
before they call and persist (`CallModel`).

- One process at a time submits the waves of a label, and the labels of the kinds
  differ from each other and from the coordinators'. Two wave commands of one label
  would submit the same episodes, as two coordinators of one label do: nothing in
  the code excludes it and nothing promises otherwise.
- Which runs have the effort that a rerun looks for follows from their label, since
  only the manual submissions default to it and direct runs record none.
- Call and persistence are one step, as nothing is read in between.
- Not modelled: the rate limiter, the number of concurrent calls, pauses,
  `--episode-id`, `--skip-episodes`, `--dry-run`.

### FeedIngest

`ingest_feeds`: an invocation (`pc`), the thread that has each of its feeds (`job`)
and the `Feed` object it holds (`copy`), which is stale as soon as another thread
writes. A worker fetches with the validators of its copy (200, 304 or an error of
one of two kinds), saves episodes and validators in one transaction that may fail,
and finishes; a failure is caught, the feed is read again, its count is
incremented and saved, and when that deactivates the feed, the podcast is checked
and deactivated in two more statements. The serial loop differs: it reports with
the object of the transaction that failed. A server lists the entries of a feed in each
of its versions (`Listing`); a run keeps the first ones, up to its `Limit`
(`--max-episodes-per-feed`), and `catalog` has those that are episodes. `etag` stands
for the two validators of a response, which are saved together and are those of the
whole response, whatever was cut off. `streak` and `lost` are history
that properties refer to. Not modelled: the parser and the snapshot storage (steps
that may raise) and `--feed-url`.

### WeeklyPipeline

`run` and `steps` are the two tables. A `job` is one `run_weekly_update_pipeline`:
`start`, `delete` and `create` are the three statements of `start_pipeline_run`,
`next` to `fail` the loop over steps and rows, `warm` to `abort` the end. Rows have
an owner, because a job keeps the objects it listed and its saves raise when the
rows are gone. All phases of a week use one label, and so one row of `PipelineRun`
whose steps each phase replaces; nothing keeps two processes from using a label at
once. `stage` is where an execution of the workflow stands; `RunJob` to `JobFailed`
are Cloud Run as the workflow uses it, with the retries of a task, and `CheckRun`,
`CheckSteps` and the alerts are the two reads of `weekly_update_status` and the two
alerts. `Cancel` leaves the job running. Operators start phases by hand.
Not modelled: the skip flags, the progress a command writes into the metadata of
its step, the labels made up when none is given (there the label is resolved twice,
and steps and run may get different ones), and the commands themselves, which
return or raise.

### Appearances

`sync_guest_appearances` and `promote_frequent_guests_to_cohosts`, the processing
phase of a week. The table of appearances is three sets of pairs of episode and
person, one for each role and source; a `Person` is a normalized name and a guest a
candidate of enough confidence, so cleaning, normalizing and merging of spellings
are outside (they are deterministic and done before anything is decided). The
phase is one process: `StartSync` selects the episodes, with a label those that the
run of the week has extracted; `SyncHostAppearances` is one podcast,
`SyncGuestChunk` one chunk, each committed by itself; `PruneSingleNamePeople`
deletes the people of one token with their rows; `PromoteFrequentGuests` counts and
then replaces rows in one transaction. `Crash` falls between any two. `mode` holds
the two arguments that matter, `--extraction-run-label` and `--clear-existing`.
`Extract` writes the row of an episode with its candidates, also over an earlier
extraction (a rerun, `--force`, a new prompt), and `ExtractFails` takes an earlier success
away. `ExtractHosts` is what a host extraction leaves: new candidates, or none.
Episodes, extractions and hosts come from the phases before, which is why they only
change while the phase is not running. That is a real restriction: the hosts of all
podcasts are read once and those of each podcast again at its turn, and an extraction
of hosts in between leaves a former host who is skipped as a guest without a row.
`settled` is history: the episodes a finished phase has covered since they
were last extracted; `named` is whom a successful extraction of an episode ever named.
Not modelled: `--clear`, `--limit`, `--dry-run`, the two skip
flags, and two promotions at once.

### EntityResolution

`refresh_person_entity_resolution`, five commands in one process: `pc` is the command
and `todo` what is left of its loop. The sync writes observations and links in chunks,
here of one, that are committed one by one; the candidates of a refresh are generated in
one step, since they are read and upserted with nothing of another process in between;
scores are chunks again; matches and aliases are one transaction each, whose
uncommitted rows are `draft`. The tables grow from week to week: appearances come and
some go with their observation and link, entities and pairs never go.

- Names are given by their tokens, and the rules that generate candidates and guard
  scores are computed from them: blocking keys, viable pairs, the limit of a block,
  the ranking by which the pairs are cut at `--limit-pairs`, groups against persons.
  What the model says of two names is any score.
- The pairs that are scored are not those just generated but the first of all in the
  order of a hash, as in the code.
- Left out: options the refresh does not pass (`--limit`, `--clear`, `--auto-status`,
  `--dry-run`), the limit of the pool that pairs are ranked from, names without a
  token, two refreshes at once. Appearances do not change while the refresh runs, since
  the pipeline runs one after the other. Without a model no score is written,
  which a killed refresh covers.

### FutureLinks and Analysis

`FutureLinks` holds the operators of `future_links/`: link data before a cutoff,
distances in the graph of podcasts and people, both ways of choosing the candidates and
the comparison of them, the features of a pair twice, once as `feature_row` sums them
and once as the tables prepared for scoring give them. `Analysis` is the commands on
top: metrics, evolution, predictions, audits, the comparison and two kinds of training
data. Processes run them side by side while episodes are ingested and linked, early
and late ones; a step is one read of the tables or one transaction, so that a
command may combine reads of different moments (`seen`, `context`, `future` in its
locals). A killed command leaves what it committed.

- Degree stands for the centralities of a person, which are stored and ranked alike.
  A classifier is any function of the features; features are kept as fractions.
- A date is a tick; a week is several, and midnight of the time zone is one tick after
  midnight UTC, which is how `week_floor` and `week_cutoff` differ.
- What the code sorts is put in order by counting what comes first (`InOrder`), a sum is
  one over the library's fold (`SumOver`), a heap is the sequence of what it holds after
  each item (`HeapOf`).
- An evolution run remembers the week it began with and whether it was a bootstrap, as its
  row does; `NoWeek` stands for the week the code leaves empty.
- Rows of equal score come in the order of arrival; the code leaves them in the order of
  the heap's array.
- A matrix that is killed while it is written leaves empty arrays beside the metadata of
  the matrix before: `matrix` has both parts.
- A default cutoff ends its horizon exactly at the latest link, which it so excludes.
- Left out: `--start-week`, `--through-week`, `--dry-run`, categories, inactive podcasts,
  sampling and the other centralities, clustering and path lengths, parquet shards,
  fitting and grid search.

### SixDegrees and GraphCache

`SixDegrees` translates the graph and the search: edges from rows, the merging of the
edges of a pair, windows of dates, breadth-first search, names. Beside it stand
definitions that speak of the rows alone: who is one hop away, who is how far,
and what a right path is. A graph is its merged edges, a search `[seen, queue, answer]`;
one round of it takes a path off the queue, and a search has as many rounds as there can be
nodes, the last of which may have nothing left to do. A text that reads as nothing (`NoWords`)
stands for no name, and no name without a letter or a digit is found by another text.

`GraphCache` is where a worker of the web server gets the graph from: a command reads the
database and some time later uploads an artifact to the bucket; a thread that finds the graph
of its worker missing or too old takes the lock, looks again, downloads over the one file
all workers share, reads it, and builds from four reads of the database (whether there are
links, the episodes of podcasts, those of guests, the rows) when there is no artifact or an
error. A graph is remembered by the versions of the database these reads met. `file.bytes`
are the artifacts whose bytes may be in the file; a download that breaks off beside another
one leaves a hole (`file.torn`).

- A file that several have written is read as one of their artifacts, or the load fails.
  That the bytes of two of them mixed, or of one with a hole, never read as a graph is an
  assumption: `pickle.load` stops at the end of the pickle, before the trailer with gzip's
  checksum.
- Any number of publishing commands are on their way, each as slow as it likes, so that an
  upload is any graph that can have been read so far. An older one can land on a newer one.
- `floor` is the oldest artifact that may still come to be read by a load: of those the
  bucket has held since its download began, and those another worker was then writing over
  the same file. That a worker may so get the older of two is what the code allows. A
  build after a download that failed reads the database itself, and has no floor.
- The lock and the second look under it are one step. A thread that finds a fresh graph
  without the lock answers with what the worker keeps, and is no step of its own.
- Times to live are positive; the fallback to the database is what the deployment guide
  describes, and two workers are the default of the entry point.
- `DatabaseAssumption` says what the proofs need of the constants: every version has its rows,
  each with a role and a date or none, an order is an order of just those rows, the names
  are among the sorted ones, and a window is two dates or none.
- Names of people and podcasts differ in the run; the theorem does not ask for it. Left
  out: wording, suggestions (without any name, `suggest_name` raises: the answer is "every
  name" there), and `cache_clear`, which the pipeline calls in its own process only.

## 4. What the runs show

| run | instance | distinct states |
|---|---|---|
| `BatchBackfillSolo` | one coordinator started twice, the second time until nothing is left; two episodes, batches of one | 9 334 |
| `BatchBackfillResume` | the same, until the violation | |
| `GuestExtraction` | two coordinators, or a coordinator and one other command, or up to three others | 1 053 051 |
| `FeedIngestPool` | two overlapping runs, two threads each, two feeds of one podcast, three entries | 1 477 729 |
| `FeedIngestSeries` | a pooled and a serial run in any order, two feeds, one not English | 114 971 |
| `WeeklyPipelineShared` | an execution, and an operator who uses its label at any time | 829 566 |
| `WeeklyPipelineAlone` | an execution and an operator, one job at a time | 140 980 |
| `AppearancesKept` | two episodes of a podcast, two weeks, promotions added, episodes extracted again | 2 097 875 |
| `AppearancesWeekly` | the same with the options of the pipeline, until the violation | |
| `EntitiesWeekly` | four names, five appearances, one rule for an alias | 1 553 549 |
| `AnalysisWeekly` | a weekly job and an operator, five episodes, three weeks, one late episode, eight candidates | 398 912 |
| `Explorer` | two workers, three threads, two versions of the database, a graph of each to upload | 371 956 |

**BatchBackfillSolo.** However often a lone coordinator dies and is started again,
it never has two RUNNING runs of one pass (`OneRunningRunPerPass`), a finished run has
every answer persisted (`FinishedRunIsSynced`), no success becomes a failure
(`SuccessIsKept`, although the upsert would), "no remaining episodes" is true
(`ExhaustedMeansExtracted`), it implements the ledger (`ImplementsLedger`) and comes to
an end though it runs until nothing is left (`InvocationEnds`). Beside types, `TypeOK`
says that the references between tables and processes hold: every run names a batch of its
pass, and whoever polls, syncs or reviews holds a run of the table. What these do not
exclude: a batch whose coordinator died before it recorded the run is paid for and asked for
again, and a completed batch without output wedges its label, whose every later invocation
ends with the same error.

**BatchBackfillResume** is a finding. The command calls itself resumable and
reports the resumption of second passes, but looks a second pass up only beside a
first pass that the same invocation has just finished. A crash while a second pass
is polled leaves its run RUNNING for ever and its answers undownloaded; the next
invocation may even report that nothing remains.

**GuestExtraction.** Most of what holds for a lone coordinator does not hold for several
commands: two coordinators of one label both find no RUNNING run and submit, and a
rerun whose request fails turns a first-pass success into a failure, so that the
episode is extracted again. Nothing in the code prevents that, and nothing promises
otherwise. What survives, with coordinators, waves, reruns, manual submissions, direct calls and
manual syncs on the same rows: a row that says succeeded repeats what the run it names was
answered for that episode, though rows are overwritten (`EverySuccessIsTraceable`), and a command that submits in
waves never asks for an episode that a RUNNING batch of its label asks for, killed
within a wave or late (`WavesDoNotOverlap`). Both are also proved, below.

**FeedIngestPool.** When both feeds of a podcast fail in two threads, each sees the
other as active or not; whatever the order, the podcast is deactivated when its
last feed is (`PodcastWithoutFeedIsInactive`) and not before
(`PodcastOutlivesItsFeeds`), and a finished run adds up (`FinishedRunAccounts`).
The first has an exception, a thread that dies between the two saves (`lost`); the
second is stated for runs with a pool, since the serial loop can deactivate a
podcast for a feed whose own deactivation was rolled back. One of the servers publishes
while the runs fetch and keep two entries of three: a feed that a run reports unchanged has
every entry in the database that the run would have kept of it (`UnchangedIsIngested`),
whichever thread saved the validators and whatever was lost with a transaction. This is
stated for runs none of which has a lower limit than the one that gets the 304: the
validators are those of the whole response, so that the entries a lower limit cut off stay
out, for a later run with a higher limit too, until the server publishes again.

**FeedIngestSeries.** A feed is deactivated only after enough failures in a row,
the last one permanent, or because it is not English (`DeactivationIsEarned`). Runs that
overlap can lose a success between the reading and the writing of a count; the property is
stated for runs that do not. Every run ends, serial or with a pool, even when the handler
of a failure raises (`RunEnds`); it is the serial run in which one feed waits for the other.

**WeeklyPipelineShared.** Another process may delete or replace the rows of an
execution at any statement. Still no success is announced unless the execution's
own jobs completed all commands (`SuccessIsComplete`: `zip(strict=True)`, the saves
of vanished rows and the exit codes of the jobs see to it, not the status check,
which reads the last phase only), and no race leaves a RUNNING run behind
(`OnlyKilledRunsHang`: the `bulk_create` that violates the unique constraint raises
outside of the `try`, but then another job has the run).

**WeeklyPipelineAlone.** With one job of a label at a time, killed and retried,
the ledger can be believed (`LedgerIsTrue`) and every execution comes to a verdict
(`ExecutionEnds`).

**AppearancesKept.** As long as promotions are added to the earlier ones, an accepted
guest of an episode that a phase has covered appears on it ever after
(`AcceptedGuestsAppear`), though guest rows are exchanged for host rows, the phase
dies between any two statements, later phases cover other episodes, and the guest
becomes a host of the podcast; nobody appears as a guest or co-host on an episode
of which no successful extraction ever named them (`AppearancesAreExtracted`; a later
extraction that does not name them leaves the row, since the sync deletes none); and a person the
host extraction names gets no derived row on the episodes a phase covers
(`HostsAreNotPromoted`), however often a guest before.

**AppearancesWeekly** is a finding. `run_weekly_update_pipeline` passes the label
of the week and `clear_existing`. The frequent pairs are counted from guest rows,
the earlier promotions have turned theirs into derived rows and deleted the guest
rows, and the sync with a label writes no guest row of an earlier week again: so
clearing the derived rows deletes every earlier appearance of a co-host, in the
first later week, even one without any new episode. The property is the one of
`AppearancesKept`. (Without the label, `--clear-existing` still loses a co-host whom
a host extraction names later: the metadata row is not written beside the derived
one, the guest is skipped as a host, and the derived row is cleared. The same run
with the single mode `<<FALSE, TRUE>>` shows it.)

**EntitiesWeekly.** Whatever the scores and wherever a refresh dies: once it
generates candidates, every appearance has an observation and a link, and links lead to
entities that exist (`AppearancesAreLinked`); no chain of matches and aliases puts a
group under one entity with a person or another group, provided no rule says so
(`KindsStayApart`); what was matched stays matched when the appearances are synced again
(`MatchesArePreserved`); and a pass moves an observation only to entities that outrank
the one it had, so that a pass does not undo itself (`MatchesMoveUp`).

**AnalysisWeekly.** Commands run beside each other, die and read at different moments. The
metrics that the site reads are of a run whose rows are all there, with ranks without a gap
(`MetricsReadAreWhole`: one run of metrics, so that which of several is read rests on
`MetricsAreWhole` below); a stored week with a gap before it is where a bootstrap on record
began (`NoWeekIsSkipped`; weeks before the first of a bootstrap are left out on purpose) and,
unless an episode of an earlier week was linked late, what a week adds is the difference to
the week before (`GrowthAddsUp`).

Eight candidates have three different scores and the predictions are limited to three; among
the links published in the week behind the cutoff are one of the best candidates, links that
existed and links of hosts, and there are more negatives than a dataset samples. Bounded heaps
lose nothing that belongs in them, neither predictions nor sampled negatives (`BestAreKept`);
a pair is scored by the features it would have in the training set (`ScoredAsTrained`); a
predicted pair that was published is in the audit of its week, as eligible, with the same
distance and score, when both commands read the same history and context
(`AuditFollowsPredictions`); every link of a horizon is found, missed or excluded, once, the
cheaper candidates are some of the complete ones and the comparison says what they lose
(`EveryPositiveIsAccounted`). These seven are also proved, below.

**Explorer.** Two workers answer thirteen kinds of query while the database moves on, also
between the reads of a build, artifacts are uploaded in any order, downloads tear each other's
file, and a worker is restarted. A graph that is kept gives right answers from whichever rows
and in whichever order it was built, with the co-hosts as they were read: a path that is shown
is a shortest one inside of the window, is shown when there is one, starts at a podcast the
source hosts if a shortest one can, and shows the right dates (`AnswersArePaths`). When a
thread stores a graph, it is no older than its load promised (`AnswersAreRecent`: than every
artifact the bucket held since the download began, and every one that was then being written
over the file). Two threads of a worker never load at a time, nor one for a graph that was
fresh when it looked (`OneLoadAtATime`), and every request ends, whatever the load it waits
for fails with (`EveryRequestIsAnswered`).

`CHECK_DEADLOCK FALSE` is in the configurations whose processes are all started a limited
number of times and end; that none of them stops too early is what the liveness
properties say. The phases of `Appearances` and the refresh of `EntityResolution` may
always run again, and are checked for deadlock. A publisher of `GraphCache` may always upload
again, so that deadlock says nothing of its threads; `EveryRequestIsAnswered` does.

### Bounds, and why they are enough

- `BatchBackfill`: two episodes and batches of one: a batch while episodes are left and a
  batch when none is; the second selection sees the results of the first. The
  first start has a limit of one first pass, the second goes on until nothing is left
  (`MaxFirstPass`), after whatever the first one left. `MaxStarts = 2`: everything a crash can leave is met by one later
  invocation. `MaxFaults = 2`: a request and its repetition fail, or a batch and a request.
  `MaxBatches = 9` is never reached with those.
- `GuestExtraction`: `Cost` and `Budget` choose how many commands run, not which: a
  coordinator costs 3 of 6 and any other command 2, hence pairs of coordinators, a
  coordinator with one of any other kind, or three of the others. `MaxBatches = 3` are a
  wave of two and a batch beside or after it; `MaxTrouble = 1`: one process is killed or
  one request fails. A coordinator
  is started once, for one first pass.
- `FeedIngest`: two feeds of one podcast and two threads are what the check for another
  active feed needs. `Threshold` is 1 where the order of two deactivations matters and 2
  where the count does; the code has a larger constant and compares it once. One server
  publishes a second version, whose new entry pushes the oldest one over the limit of two.
- `WeeklyPipeline`: `MaxAttempts = 2`: what a first attempt leaves, the second meets. (The
  repository does not fix how often Cloud Run retries.) By hand, the three-step phase
  `processing-er` interferes with phases of one, three and three steps, longer and shorter;
  alone, `all` and `plots` cover the single process and the phase the workflow does not have.
- `Appearances`: two episodes of one podcast: a guest on one of two is not frequent with a
  share of one half, a guest of both, or of the only one yet, is; `Threshold = 1` is
  exceeded by two. Two weeks are what an earlier promotion and a later one take. `Guests`
  and `Hosts` are nobody, one person, or that person beside one of a single name.
- `EntityResolution`: two spellings of a name, a longer name, and a group that shares two
  tokens with them: six pairs, of which some are in blocks, one is guarded and
  three are scored. Three levels of score: under the limit, at it and above. One appearance
  may go; a rule moves the names of one podcast.
- `Analysis`: three podcasts and seven people over three weeks, one of whose five episodes is
  linked after a later one; one command of the job, which may be killed (metrics, evolution or
  a feature matrix), beside two of the operator (evolution, a reset, predictions, audits, the
  comparison of candidates, training data). Eight candidates with scores 2, 3
  and 5, so that the limit of three lies within a level of score with better ones above it.
- `Explorer`: a time to live of one tick and one tick: a graph is fresh and then not. `Uploads`
  are a graph of each version, in the bucket in any order and any number of times; one fault of
  any kind; three orders of the rows of the second version.
- `EpisodeSymmetry` permutes the two episodes of `AppearancesKept`, alike in everything.
  `RunSymmetry` permutes the runs of `FeedIngestPool`, all alike there, and is used with
  invariants only.

### Fairness

Weak fairness of the steps of running processes: statements return, requests have
timeouts, a command that hangs is killed by the timeout of its task. `BatchBackfill`:
of each coordinator's `Advance` and of each batch at the service, which has a
completion window of 24 hours. `FeedIngest`: of each thread's step with a feed, as a thread
pool serves each of its workers, and of the end of each run. `WeeklyPipeline`: of each job,
of the retries of Cloud Run and of the workflow. `GraphCache`: of each thread's `Step`. Nobody
has to start a command, send a request, kill a process, cancel an execution or publish an
episode: those actions have no fairness. The faults of the service are finitely many
(`MaxFaults`), which `InvocationEnds` needs: a request that fails for ever is selected
for ever.

## 5. What is proved

All proofs are checked by TLAPS with SMT, Zenon and LS4 and hold for every value
of the constants that satisfies the named assumption of the module, hence for any number of
processes, episodes, feeds, names, labels and attempts. TLC evaluates the assumptions in the
runs. Where a theorem needs more, it says so: `Sole`, `OneSubmitter`,
`~Together`, `Pooled = Run`, `~Overlap`, `Additive`, `ModelIsNumeric`, `SampleIsNumeric`. Most invariants are not inductive as a run checks them; what is added to
each is the argument.

**BatchBackfillProofs**: any coordinators and operators. `TypeCorrect`: types are not
inductive alone, since a step looks up the run a process holds and the batch of that run;
`TypeOK` therefore has that runs name batches of their own phase, that who polls, syncs or
reviews holds a run, that what is left to persist was answered and that a draft's batch
exists. `EndedStaysEnded`: no step of anybody
makes a run RUNNING again.

The same module for one coordinator, no operator (`Sole`), with crashes and
restarts at any step. `SoleInv` says at each program counter what has become of the
tables. Roles: at most one first pass is RUNNING, each first pass is reviewed at most
once and after it ended, and while a plan waits to be submitted nobody has taken its
place. Freshness: what is planned is not extracted yet, and what is there of a RUNNING
first pass, or of the run held, came from its own batch; without this a later failure
could overwrite a success. Synchronisation: the lines no longer to do are in the table.
A crash loses the locals, so the invariant speaks of RUNNING first passes whether or
not a process holds them. A second pass nobody holds is never resumed (the finding
above), and needs no such clause. From it:
`SoleRunsOnce`, `SoleHoldsRunning`, `SoleStatusFollowsBatch`, `SoleFinishesSynced`,
`SoleKeepsSuccess`, `SoleExtractsAll` (`ExhaustedMeansExtracted`: a selection that is not
empty for a size above zero, because the catalog is finite, so that an empty one means
that no episode is left, and no RUNNING first pass means that no plan is), and
`SoleImplementsLedger`: initial states map to initial states
of `ExtractionLedger` and every step to one of its steps or to a stutter. (That the run
held is RUNNING and that a status follows its batch are stated beside the proofs and by no
run.)

**GuestExtractionProofs**: any coordinators, operators, submitting and direct commands,
extending `BatchBackfillProofs`, with nothing assumed of who runs alone. `ExtractionInvariant` has the types of both halves of the run table and
of every process; that each batch is named by at most one run or draft, so that there
are never more runs than batches and a direct run's id is its own; and that a row that says succeeded
names a batch, or a call, that was answered so. From it `SuccessIsTraceableEverywhere`
proves `EverySuccessIsTraceable`. `WavesNeverOverlap` proves `WavesDoNotOverlap` where one
submitting command works at a time (`OneSubmitter`), beside any coordinators, operators
and direct commands. That the RUNNING runs of a label are disjoint is not inductive:
what is submitted next was selected rounds ago. `WaveInOrder` adds that in a round every
RUNNING run of the label is still to be checked, in hand or seen pending; that after a
round none is left unless the time is up, and then nothing is submitted; and that the
chunks a wave has still to submit are disjoint from what is RUNNING and from each
other. A crash forgets the chunks, and the next command begins with a round.

**WeeklyPipelineProofs**: any executions and operators, on any labels, at once.
`TypesAlways` and `TypeCorrect` with `AtInPlan`: a job that runs a step is inside of
its plan. `RunsAttended` proves `OnlyKilledRunsHang`. It is not inductive: that some
job uses the label says nothing when that job is about to fail at `bulk_create`.
`Attended` adds that once a RUNNING run has rows, one of its jobs is past creating its
own, so that the rows cannot stop it. `SuccessesComplete` proves
`SuccessIsComplete`. `Complete` says that an execution's job runs the phase of its
stage, that the commands a job has behind it, by its place in the plan, were completed
by this execution, and that so were those of all earlier phases; `PhasesAddUp` shows
that the five phases leave nothing of the weekly update out. `LedgerBelieved` proves
`LedgerIsTrue` where jobs use a label one at a time (`~Together`), whoever starts them,
killed and retried: `Progress` says what the job that is alone with a label has made of its
rows, statement by statement, and `TrueOf` what the rows of a label must show when nobody
works on it; a job that starts takes over whatever a killed one left.

**FeedIngestProofs**: any feeds, podcasts, runs and workers, failing statements and
killed processes. `TypeCorrect`. `UnchangedAlways` proves `UnchangedIsIngested`, which speaks
of a moment only: the argument is that whatever validators there are, in the table or in an
object a thread still holds, stand for a version whose first entries, up to the limit of some
run, are episodes; they are saved in one transaction with these, and no episode is ever
deleted. `SettledAlways` proves
`PodcastWithoutFeedIsInactive`: a thread that deactivates a feed goes on to `check`, and
who finds another active feed there leaves the podcast to the thread that has yet to
deactivate that one; `SettledInv` names the threads of all runs that still decide.
`OutlivesAlways`, with a pool in every run: `DecidedInv` keeps what a thread found when
it looked, which stays true because no step of a run reactivates a feed. `EarnedAlways`,
with no two runs at once: no counter, in the table or in an object that a thread holds,
is ahead of the failures in a row. `AccountsAlways` proves `FinishedRunAccounts`: a run's
numbers are those of its jobs by where each stands, with the special case of a run of one
feed, which its worker finishes.

**AppearancesProofs**: any episodes, people and weeks, a phase that dies anywhere.
`TypesAlways` with `TypeCorrect`; `ExtractedAlways` proves `AppearancesAreExtracted`: what an
episode's extractions name now, and so what a sync can write, they ever named;
`HostsFirstAlways` keeps that host rows are written before guests are looked at and that
single names are pruned before promotions, from which `HostsNotPromoted` follows for
whatever arguments. `GuestsAlwaysAppear`, provided no mode clears (`Additive`): the
episodes the loop has behind it are like those of a phase that has ended, and no step of
an additive phase takes a person from an episode, though rows change their role. The
assumption is what the finding of `AppearancesWeekly` violates.

**EntityResolutionProofs**: any names, appearances, rules and scores. `RefreshInv` is the
types, what each pass still has to write before the next one begins (`PassInv`) and where
links lead, those of the open transaction included (`LinkedInv`): a refresh that is killed
leaves links of the last one, and these must lead to entities too. `RefreshAlways` gives
`TypeCorrect` and `LinkedAlways`. `KindsAlways`: scores that reach the limit passed the
guards, so that a pass moves links within one kind only, in the open transaction as well.
`MatchesMoveUpAlways`: what a pass has moved so far it has moved up, since outranking is
total and transitive and the counts do not change in a pass. `MatchesPreserved`.

**AnalysisProofs**: any catalog, dates, processes, options and weeks, commands killed
anywhere.

- `AnalysisShapes`: types, and that a command in the middle of a metric or evolution run
  has a row of its own table and weeks still to come.
- `NothingIsSkipped` (`NoWeekIsSkipped`). What is stored does not say where the run in
  progress will go on: `GapInv` adds, of every such run, that the weeks it has left follow
  each other, and that the first of them is the one after a stored week or the first one of
  a bootstrap whose row it is. `--reset` deletes rows and snapshots together, and a run
  that overlaps it goes on with a row that is marked deleted and stores nothing.
- `MetricsAreWhole` (`MetricsReadAreWhole`): `MetricsInv` has what each run in progress has
  written by where it stands, that two commands never work on one row, and that no two
  finishes are the same, so that one of them is the latest. That the ranks are 1..n is a
  lemma about counting what comes before a person in an order that is total.
- `GrowthIsExplained` (`GrowthAddsUp`): every snapshot is computed from what its run saw
  (`SnapshotsAreComputed`); the rest is arithmetic of dates and disjoint unions.
- `FilesAreComputed`: every prediction run, audit, report, dataset and matrix is a function
  of the links its command read, at however many moments. `AuditsFollow`, `PositivesAddUp`,
  `HeapsKeepTheBest` and `TablesAndRowsAgree` follow for the properties of the same runs.
  They rest on lemmas about the operators: sorting by counting sorts (`PlacedIsSorted`); a
  bounded heap holds the best of the items so far; distances grow with the bound and are
  found below it; the sum of a relation's weights by columns is that by rows
  (`SummedBothWays`), which is why the tables of scoring and the rows of training agree.
- Two hypotheses: the classifier answers a number for a row of features
  (`ModelIsNumeric`; a probability, in the code) and so does the score that samples
  negatives (`SampleIsNumeric`; an integer made of a digest). They are stated in the proof
  module because TLC cannot enumerate the numbers they range over; the run gives both
  constants numeric definitions.

None of this needs an induction rule: a recursive function on numbers that had a wrong value
would have a smallest argument with one, and its step says it has not.

**GraphCacheProofs**: any workers, threads and versions. `ShapesAlways` has the types and
which threads are writing the file. `OneLoadAlways`: a thread that loads holds its lock and
found the graph too old, and nobody else writes that cache meanwhile. `RecentAlways`:
whatever may still come to be read, in the file, in another download or in the bucket,
is not older than the floor of the thread that may read it; an older upload lowers the floors
of the loads under way, since a download that begins now writes it over their file.

`AnswersAlways` proves `AnswersArePaths`, for any rows in any order and any queries:

- A state invariant, `GraphsExist`: whatever a thread has read or is writing, and whatever is in
  the file, in the bucket or in a cache, is a graph of versions that the database has had. So it
  is enough that each of these graphs answers rightly.
- Edges and rows (`MergedHoldRows`). After the first n edges there is one merged edge per pair
  that came up, and it tells of its pair exactly the dates of the rows and whether one is a
  host's: a guest keeps the dates, and of a host the first and the last are enough, also when
  they were merged before (`SpanGrows`). Hence an edge is inside of a window just when its rows
  say that the two are one hop apart (`EdgeIsHop`), whatever the order of the edges.
- The loop (`RoundKeeps`, with `Searched` as its invariant; `SearchAnswers`). Every path in the
  queue is a shortest one to its end, and leaves from a podcast the source hosts if a shortest
  one to there can. Their lengths are in order and differ by one at most; among equal lengths
  those that a hosted podcast leads come first, and what they lead to is led. Whoever was seen
  is still in the queue or has all its neighbours seen; everybody within one hop less than the
  head is long was seen; and what was seen and is not in the queue are as many as there were
  rounds. The last two are what bounds the rounds: no round is missing when the loop of the
  model ends, because the nodes are at most two per edge (`NodesCounted`).
- The reference (`AnsweredIsRight`). The levels of the search from the source and those from the
  target meet (`LedMeets`), so that "a shortest path leaves from a podcast the source hosts"
  means the same in both.

The tables of recursive functions (`Filtered`, `MergeEdges`, `ShortestPath`, `Within`) exist
because each step stays in a set (`SolutionExists`), which the smallest number without a table
shows.

**Model-checked only.** Liveness (`InvocationEnds`, `RunEnds`, `ExecutionEnds`,
`EveryRequestIsAnswered`) is out of the prover's reach, as is ENABLED. The library's
induction theorems take an operator as a parameter, which no prover here can instantiate;
where the data are numbered, the smallest counterexample does as well, and is used here for
sums, traversals and searches. No invariant of a passing run is without a theorem.

## 6. What is not modelled, and why

- **Plots, the views of the explorer, operational safety** keep no state that anything
  else relies on: rendering, read-only queries, checks of the configuration. The graph the
  views share is in `GraphCache`.
- **Catalog imports and one-off preparation** are sequential upserts by an operator.
- **Fitting of models, grid search, feature arithmetic of names** are arithmetic without
  control; their scores enter as arbitrary values or functions where decisions use them.
- **Host extraction** is a loop of calls and upserts; what it leaves is an action of
  `Appearances`. Its selection, pool and counts are left out.
- Options and branches left out of a modelled component are listed with the module above
  and in `PROJECT.json`.

Behaviours of the code that the models show or leave out, and that no property judges,
because nothing in the repository promises otherwise:

- requests that are in the error file only do not count as failed: such a run is SUCCEEDED;
- two coordinators of one label, or two of different labels, submit the same episodes;
- a rerun that fails turns a first-pass success into a failure;
- two scrapes that overlap can lose a success between reading and writing a count;
- entries that `--max-episodes-per-feed` cut off are not ingested by a later run with a higher
  limit before the server publishes again, since the validators are saved all the same;
- an appearance of a guest whom a later extraction of the episode no longer names stays;
- a slow publisher of the graph artifact can land an older one on a newer one;
- co-hosts can be counted in another version of the database than the rows of the graph;
- a coordinator without a label resolves it twice, for its steps and for its run;
- hosts that are extracted in the middle of a processing phase can leave a guest without a row.
