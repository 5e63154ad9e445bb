------------------------------ MODULE Analysis -------------------------------
(***************************************************************************)
(* What the pipeline computes from the linked appearances: network metrics *)
(* (network/metrics.py), weekly evolution snapshots (network/evolution.py),*)
(* future-link predictions and weekly audits, and the comparison of the    *)
(* candidate strategies (FutureLinks holds their operators).               *)
(*                                                                         *)
(* Weekly jobs, reruns and operators run these commands beside each other  *)
(* while episodes are still ingested and linked; a step is one read of     *)
(* the tables or one transaction, and a killed command leaves what it has  *)
(* committed.  Degree stands for the six centralities of a person, which   *)
(* are stored and ranked alike.                                            *)
(***************************************************************************)
EXTENDS FutureLinks

CONSTANTS
  Process,          \* processes that run the commands
  Jobs,             \* commands each of them may start
  MaxJobs,          \* bound: commands each of them starts
  EvolutionOptions, \* --bootstrap, --recompute and --max-weeks (0 for none)
  RunId,            \* --run-id of the prediction and audit commands
  Cutoffs,          \* --cutoff-at or the time of the command, and --cutoff
  Week,             \* ticks of a week
  MidnightOffset,   \* ticks from midnight UTC to midnight of the time zone
  LastWeek,         \* bound: weeks of the published dates, counted from 0
  Horizon,          \* --horizon-days, in ticks
  TopN,             \* --top-n
  TrackLimit,       \* --person-metric-limit
  TopLimit,         \* max(10, limit // 4)
  Model(_),         \* the trained classifier: a score for a row of features
  SampleScore(_, _),\* deterministic_sample_score of a cutoff and a pair
  SplitBucket(_, _),\* split_bucket of a cutoff and a pair
  TestPercent,      \* --test-percent
  NegativeRatio,    \* --negative-ratio
  Day,              \* ticks of a day
  CutFrequency,     \* --cut-frequency-days, in ticks
  MinHistory,       \* --min-history-days, in ticks
  LabelGap,         \* --label-gap-days, in ticks
  KnownAtFirst,     \* sets of episodes that may be linked at first
  MayCrash          \* processes that may be killed

ASSUME AnalysisAssumption ==
  /\ MaxJobs \in [Process -> Nat]
  /\ Jobs \in [Process -> SUBSET {"metrics", "evolution", "reset", "predictions",
                                  "audit", "candidates", "dataset", "matrix"}]
  /\ EvolutionOptions \subseteq [bootstrap : BOOLEAN, recompute : BOOLEAN, max : Nat]
  /\ {Week, TopN, NegativeRatio, Day, CutFrequency} \subseteq Nat \ {0}
  /\ {MinHistory, LabelGap} \subseteq Nat
  /\ TestPercent \in 1..99
  /\ MidnightOffset \in 0..(Week - 1)
  /\ {LastWeek, Horizon, TrackLimit, TopLimit} \subseteq Nat
  /\ Cutoffs \subseteq Nat
  /\ KnownAtFirst \subseteq SUBSET Episode
  /\ \A e \in Episode : Published[e] \div Week <= LastWeek

VARIABLES
  ingested,      \* episodes in the catalog
  linked,        \* episodes whose appearances are linked
  metricRuns,    \* NetworkMetricRun rows with their metrics, in started_at order
  finishes,      \* metric runs that have a finished_at, for its order
  evolutionRuns, \* NetworkEvolutionRun rows
  snapshots,     \* NetworkEvolutionSnapshot of each week
  predictions,   \* FutureLinkPredictionRun of each run_id
  audits,        \* FutureLinkWeeklyAuditRun of each run_id
  report,        \* what the last candidate comparison printed
  dataset,       \* file of the balanced experiment dataset
  matrix,        \* files of the full feature matrix
  pc, job,       \* where each process stands, and its locals
  started        \* commands each process has started

metrics == <<metricRuns, finishes>>
evolution == <<evolutionRuns, snapshots>>
training == <<dataset, matrix>>
links == <<predictions, audits, report, training>>
vars == <<ingested, linked, metrics, evolution, links, pc, job, started>>

None == [kind |-> "none"]
NoOption == [bootstrap |-> FALSE, recompute |-> FALSE, max |-> 0]
NoJob == [run |-> 0, option |-> NoOption, weeks |-> <<>>, calculated |-> 0,
          id |-> "none", cutoff |-> 0, seen |-> {}, context |-> {}, future |-> {},
          due |-> 0]

Goto(p, label) == pc' = [pc EXCEPT ![p] = label]
Idle(p) == Goto(p, "idle") /\ job' = [job EXCEPT ![p] = NoJob]

\* A command starts: a new process, with no memory of an earlier one
Begin(p, kind, label, locals) ==
  /\ pc[p] = "idle"
  /\ kind \in Jobs[p]
  /\ started[p] < MaxJobs[p]
  /\ started' = [started EXCEPT ![p] = @ + 1]
  /\ job' = [job EXCEPT ![p] = locals]
  /\ Goto(p, label)

\* The process is killed, or the database is gone
Crash(p) ==
  /\ p \in MayCrash
  /\ pc[p] # "idle"
  /\ Idle(p)
  /\ UNCHANGED <<ingested, linked, metrics, evolution, links, started>>

----------------------------------------------------------------------------
(* People, edges and ranks, which metrics.py and evolution.py build alike *)

PeopleOf(E) == UNION {GuestsOf[e] \cup HostsOf[e] : e \in E}
PodcastsOf(E) == {PodcastOf[e] : e \in {d \in E : GuestsOf[d] \cup HostsOf[d] # {}}}

\* add_episode_edges: every guest with every other host of the episode
EpisodeEdges(e) ==
  {{l[1], l[2]} : l \in {k \in GuestsOf[e] \X HostsOf[e] : k[1] # k[2]}}

EdgesOf(E) == UNION {EpisodeEdges(e) : e \in E}

Degree(edges, x) == Cardinality({f \in edges : x \in f})

\* ranks: by value, then by id
Ranks(value) ==
  [x \in DOMAIN value |->
     Cardinality({y \in DOMAIN value :
                    value[y] > value[x] \/ (value[y] = value[x] /\ y < x)}) + 1]

Top(value, n) == {x \in DOMAIN value : Ranks(value)[x] <= n}

\* A row per person of a graph
PersonRows(E, people) ==
  LET value == [x \in PeopleOf(E) |-> Degree(EdgesOf(E), x)]
      rank == Ranks(value)
  IN [x \in people |->
        [degree |-> value[x], rank |-> rank[x],
         guest |-> Cardinality({e \in E : x \in GuestsOf[e]}),
         host |-> Cardinality({e \in E : x \in HostsOf[e]}),
         podcasts |-> Cardinality(PodcastsOf({e \in E : x \in GuestsOf[e] \cup HostsOf[e]})),
         latest |-> Max({Published[e] : e \in {d \in E : x \in GuestsOf[d] \cup HostsOf[d]}})]]

\* Podcasts joined by shared guests, all podcasts with a linked person
PodcastRows(E) ==
  [p \in PodcastsOf(E) |->
     Cardinality({q \in PodcastsOf(E) \ {p} :
       \E x \in Person : \A r \in {p, q} : \E e \in E : PodcastOf[e] = r /\ x \in GuestsOf[e]})]

----------------------------------------------------------------------------
(* calculate_and_store_network_metrics *)

Unwritten == <<>>

CreateMetricRun(p) ==
  /\ Begin(p, "metrics", "metric_graphs", [NoJob EXCEPT !.run = Len(metricRuns) + 1])
  /\ metricRuns' = Append(metricRuns, [status |-> "running", finished |-> 0, seen |-> {},
                                       people |-> Unwritten, podcasts |-> Unwritten])
  /\ UNCHANGED <<ingested, linked, finishes, evolution, links>>

BuildMetricGraphs(p) ==
  /\ pc[p] = "metric_graphs"
  /\ job' = [job EXCEPT ![p].seen = linked]
  /\ Goto(p, "person_metrics")
  /\ UNCHANGED <<ingested, linked, metrics, evolution, links, started>>

\* bulk_create is a transaction of its own
StorePersonMetrics(p) ==
  /\ pc[p] = "person_metrics"
  /\ metricRuns' = [metricRuns EXCEPT
       ![job[p].run].people = PersonRows(job[p].seen, PeopleOf(job[p].seen)),
       ![job[p].run].seen = job[p].seen]
  /\ Goto(p, "podcast_metrics")
  /\ UNCHANGED <<ingested, linked, finishes, evolution, links, job, started>>

StorePodcastMetrics(p) ==
  /\ pc[p] = "podcast_metrics"
  /\ metricRuns' = [metricRuns EXCEPT ![job[p].run].podcasts = PodcastRows(job[p].seen)]
  /\ Goto(p, "metric_status")
  /\ UNCHANGED <<ingested, linked, finishes, evolution, links, job, started>>

MetricPhases == {"metric_graphs", "person_metrics", "podcast_metrics", "metric_status"}

FinishMetricRun(p, status) ==
  /\ metricRuns' = [metricRuns EXCEPT ![job[p].run].status = status,
                                      ![job[p].run].finished = finishes + 1]
  /\ finishes' = finishes + 1
  /\ Idle(p)
  /\ UNCHANGED <<ingested, linked, evolution, links, started>>

\* Mutant: an error while the podcast rows are written is only logged
SucceedMetricsEarly(p) ==
  /\ pc[p] \in {"podcast_metrics", "metric_status"}
  /\ FinishMetricRun(p, "succeeded")

SucceedMetrics(p) == pc[p] = "metric_status" /\ FinishMetricRun(p, "succeeded")

\* An exception: a statement timeout, a person deleted meanwhile, a solver
FailMetrics(p) == pc[p] \in MetricPhases /\ FinishMetricRun(p, "failed")

FinishedBefore(r, s) == metricRuns[r].finished < metricRuns[s].finished

\* latest_succeeded_metric_run, 0 when there is none
LatestSucceededMetricRun ==
  LET done == {r \in DOMAIN metricRuns : metricRuns[r].status = "succeeded"}
  IN IF done = {} THEN 0 ELSE CHOOSE r \in done : \A s \in done \ {r} : FinishedBefore(s, r)

\* tracked_person_ids: of the runs with rows, an unfinished one (NULL comes
\* first in a descending order) before the last finished one, then the newest
TrackedPersonIds ==
  LET written == {r \in DOMAIN metricRuns : DOMAIN metricRuns[r].people # {}}
      open == {r \in written : metricRuns[r].finished = 0}
      latest == IF open # {} THEN Max(open)
                ELSE CHOOSE r \in written : \A s \in written \ {r} : FinishedBefore(s, r)
      rows == metricRuns[latest].people
  IN IF written = {} THEN {} ELSE {x \in DOMAIN rows : rows[x].rank <= TrackLimit}

----------------------------------------------------------------------------
(* calculate_network_evolution *)

\* week_floor takes the date in UTC, week_cutoff midnight in the time zone
WeekFloor(t) == t \div Week
WeekStartAt(w) == w * Week + MidnightOffset
WeekCutoff(w) == WeekStartAt(w + 1)

Weeks == 0..LastWeek
NoWeek == LastWeek + 1
Stored == {w \in Weeks : snapshots[w] # None}
EpisodeWeeks == {WeekFloor(Published[e]) : e \in ingested}

\* Mutant: the job of a week computes that week, whatever is stored
StartAtLatestEpisode(o) ==
  IF EpisodeWeeks = {} THEN NoWeek
  ELSE IF Stored # {} /\ ~o.recompute THEN Max(EpisodeWeeks)
  ELSE IF o.bootstrap THEN Min(EpisodeWeeks)
  ELSE NoWeek

\* NoWeek where the code returns none
EvolutionStart(o) ==
  IF EpisodeWeeks = {} THEN NoWeek
  ELSE IF Stored # {} /\ ~o.recompute THEN Max(Stored) + 1
  ELSE IF o.bootstrap THEN Min(EpisodeWeeks)
  ELSE NoWeek

MissingEvolutionWeeks(o) ==
  LET through == IF EpisodeWeeks = {} THEN 0 ELSE Max(EpisodeWeeks)
      wanted == {w \in Weeks : /\ EvolutionStart(o) <= w
                               /\ w <= through
                               /\ o.recompute \/ w \notin Stored}
      weeks == InOrder(wanted, <)
  IN IF o.max > 0 /\ o.max < Len(weeks) THEN SubSeq(weeks, 1, o.max) ELSE weeks

\* add_evolution_episode_edges: the edges of each episode, dated by the first one
EdgesSeen(past) == [e \in past |-> EpisodeEdges(e)]

\* What is shown by no episode before a date, of the episodes before the cutoff
NewSince(shown, past, all, from) ==
  {x \in all : \A e \in past : x \in shown[e] => Published[e] >= from}

\* Largest connected component
ComponentOf(edges, x) ==
  LET near[n \in 0..Cardinality(Person)] ==
        IF n = 0 THEN {x}
        ELSE LET inner == near[n - 1] IN inner \cup UNION {f \in edges : f \cap inner # {}}
  IN near[Cardinality(Person)]

LargestComponent(people, edges) ==
  Max({0} \cup {Cardinality(ComponentOf(edges, x)) : x \in people})

\* Mutant: what is new is counted from midnight UTC
SnapshotFromUtc(E, w, tracked) ==
  LET past == Before(E, WeekCutoff(w))
      new(shown, all) == Cardinality(NewSince(shown, past, all, w * Week))
  IN [kind |-> "snapshot", seen |-> past,
      people |-> Cardinality(PeopleOf(past)), edges |-> Cardinality(EdgesOf(past)),
      podcasts |-> Cardinality(PodcastsOf(past)),
      episodes |-> Cardinality(past),
      appearances |-> MapThenSumSet(LAMBDA e : Cardinality(GuestsOf[e]), past),
      newPeople |-> new([e \in past |-> PeopleOf({e})], PeopleOf(past)),
      newEdges |-> new(EdgesSeen(past), EdgesOf(past)),
      newPodcasts |-> new([e \in past |-> PodcastsOf({e})], PodcastsOf(past)),
      component |-> LargestComponent(PeopleOf(past), EdgesOf(past)),
      rows |-> PersonRows(past, tracked)]

Snapshot(E, w, tracked) ==
  LET past == Before(E, WeekCutoff(w))
      new(shown, all) == Cardinality(NewSince(shown, past, all, WeekStartAt(w)))
  IN [kind |-> "snapshot", seen |-> past,
      people |-> Cardinality(PeopleOf(past)), edges |-> Cardinality(EdgesOf(past)),
      podcasts |-> Cardinality(PodcastsOf(past)),
      episodes |-> Cardinality(past),
      appearances |-> MapThenSumSet(LAMBDA e : Cardinality(GuestsOf[e]), past),
      newPeople |-> new([e \in past |-> PeopleOf({e})], PeopleOf(past)),
      newEdges |-> new(EdgesSeen(past), EdgesOf(past)),
      newPodcasts |-> new([e \in past |-> PodcastsOf({e})], PodcastsOf(past)),
      component |-> LargestComponent(PeopleOf(past), EdgesOf(past)),
      rows |-> PersonRows(past, tracked)]

\* People of the graph that get a row: the tracked ones and the week's best
RowsFor(E, w) ==
  LET past == Before(E, WeekCutoff(w))
      value == [x \in PeopleOf(past) |-> Degree(EdgesOf(past), x)]
      limit == IF TrackedPersonIds = {} THEN TrackLimit ELSE TopLimit
  IN (TrackedPersonIds \cap PeopleOf(past)) \cup Top(value, limit)

CreateEvolutionRun(p) ==
  /\ \E o \in EvolutionOptions :
       Begin(p, "evolution", "missing_weeks",
             [NoJob EXCEPT !.run = Len(evolutionRuns) + 1, !.option = o])
  /\ evolutionRuns' = Append(evolutionRuns, [status |-> "running", calculated |-> 0,
                                             start |-> NoWeek, bootstrap |-> FALSE])
  /\ UNCHANGED <<ingested, linked, metrics, snapshots, links>>

\* finish_run saves every column: a row that was deleted is inserted again
FinishRun(p, status, bootstrap) ==
  /\ evolutionRuns' = [evolutionRuns EXCEPT ![job[p].run].status = status,
                                            ![job[p].run].calculated = job[p].calculated,
                                            ![job[p].run].bootstrap = bootstrap]
  /\ Idle(p)
  /\ UNCHANGED <<ingested, linked, metrics, snapshots, links, started>>

SkipEvolution(p) ==
  /\ pc[p] = "missing_weeks"
  /\ MissingEvolutionWeeks(job[p].option) = <<>>
  /\ FinishRun(p, "skipped", job[p].option.bootstrap)

Deleted(p) == evolutionRuns[job[p].run].status = "deleted"

RequestWeeks(p) ==
  LET weeks == MissingEvolutionWeeks(job[p].option) IN
  /\ pc[p] = "missing_weeks"
  /\ weeks # <<>>
  /\ ~Deleted(p)
  /\ job' = [job EXCEPT ![p].weeks = weeks]
  /\ evolutionRuns' = [evolutionRuns EXCEPT ![job[p].run].start = weeks[1],
                                            ![job[p].run].bootstrap = job[p].option.bootstrap]
  /\ Goto(p, "week")
  /\ UNCHANGED <<ingested, linked, metrics, snapshots, links, started>>

\* calculate_week_snapshot in its transaction: a week that is stored is left
\* alone without --recompute, and replaced with it
CalculateWeek(p) ==
  LET w == job[p].weeks[1] IN
  /\ pc[p] = "week"
  /\ job[p].weeks # <<>>
  /\ \/ /\ ~job[p].option.recompute
        /\ w \in Stored
        /\ UNCHANGED <<snapshots, job>>
     \/ /\ job[p].option.recompute \/ w \notin Stored
        /\ ~Deleted(p)
        /\ snapshots' = [snapshots EXCEPT ![w] = Snapshot(linked, w, RowsFor(linked, w))]
        /\ job' = [job EXCEPT ![p].calculated = @ + 1]
  /\ Goto(p, "week_saved")
  /\ UNCHANGED <<ingested, linked, metrics, evolutionRuns, links, started>>

\* run.save(update_fields = ["weeks_calculated"]) raises when the row is gone
SaveWeeksCalculated(p) ==
  /\ pc[p] = "week_saved"
  /\ ~Deleted(p)
  /\ evolutionRuns' = [evolutionRuns EXCEPT ![job[p].run].calculated = job[p].calculated]
  /\ job' = [job EXCEPT ![p].weeks = Tail(@)]
  /\ Goto(p, "week")
  /\ UNCHANGED <<ingested, linked, metrics, snapshots, links, started>>

SucceedEvolution(p) ==
  /\ pc[p] = "week"
  /\ job[p].weeks = <<>>
  /\ FinishRun(p, "succeeded", job[p].option.bootstrap)

\* Any exception, among them the writes of a run that was deleted
FailEvolution(p) ==
  /\ pc[p] \in {"missing_weeks", "week", "week_saved"}
  /\ FinishRun(p, "failed", evolutionRuns[job[p].run].bootstrap)

\* --reset and --reset-only: the snapshots go with the runs
ResetNetworkEvolutionTables(p) ==
  /\ Begin(p, "reset", "idle", NoJob)
  /\ evolutionRuns' = [r \in DOMAIN evolutionRuns |->
                         [evolutionRuns[r] EXCEPT !.status = "deleted"]]
  /\ snapshots' = [w \in Weeks |-> None]
  /\ UNCHANGED <<ingested, linked, metrics, links>>

----------------------------------------------------------------------------
(* score_future_link_predictions *)

\* A heap item: a score, the order of arrival, and the row
Less(a, b) == a.score < b.score \/ (a.score = b.score /\ a.sequence < b.sequence)

\* Mutant: a full heap takes what is better than nothing
HeapAddAny(heap, item, limit) ==
  IF Cardinality(heap) < limit THEN heap \cup {item}
  ELSE LET root == CHOOSE a \in heap : \A b \in heap \ {a} : Less(a, b)
       IN (heap \ {root}) \cup {item}

HeapAdd(heap, item, limit) ==
  IF Cardinality(heap) < limit THEN heap \cup {item}
  ELSE LET root == CHOOSE a \in heap : \A b \in heap \ {a} : Less(a, b)
       IN IF Less(root, item) THEN (heap \ {root}) \cup {item} ELSE heap

\* The heap after all the items
HeapOf(items, limit) ==
  LET heap[i \in 0..Len(items)] ==
        IF i = 0 THEN {} ELSE HeapAdd(heap[i - 1], items[i], limit)
  IN heap[Len(items)]

\* Candidates podcast by podcast, nearest people first
ScoringOrder(h, candidates) ==
  LET reached == {[pair |-> c, distance |-> Distance(h, c[1], c[2])] : c \in candidates} IN
  InOrder(reached,
    LAMBDA a, b : \/ a.pair[1] < b.pair[1]
                  \/ a.pair[1] = b.pair[1] /\ a.distance < b.distance
                  \/ /\ a.pair[1] = b.pair[1] /\ a.distance = b.distance
                     /\ a.pair[2] < b.pair[2])

\* The rows of the heap in descending order of score; equal scores, which the
\* code leaves in the order of the heap's array, in the order of arrival
PredictionRows(h, c, candidates) ==
  LET order == ScoringOrder(h, candidates)
      item(i) == LET pair == order[i].pair
                     features == SelectedFeatureMap(h, c, pair[1], pair[2])
                 IN [score |-> Model(features), sequence |-> i, pair |-> pair,
                     distance |-> order[i].distance, features |-> features]
  IN InOrder(HeapOf([i \in DOMAIN order |-> item(i)], TopN),
             LAMBDA a, b : a.score > b.score \/ (a.score = b.score /\ a.sequence < b.sequence))

\* build_historical_link_data and podcasts_to_score
ReadHistory(p) ==
  /\ \E id \in RunId, cutoff \in Cutoffs :
       Begin(p, "predictions", "context",
             [NoJob EXCEPT !.id = id, !.cutoff = cutoff, !.seen = linked])
  /\ UNCHANGED <<ingested, linked, metrics, evolution, links>>

\* build_feature_context reads the guest rows a second time
ReadContext(p) ==
  /\ pc[p] = "context"
  /\ job' = [job EXCEPT ![p].context = linked]
  /\ Goto(p, "save_predictions")
  /\ UNCHANGED <<ingested, linked, metrics, evolution, links, started>>

\* The link data a process read; every podcast is active
History(j) == HistoricalLinkData(j.seen, j.cutoff)

\* save_prediction_run replaces the run and its rows in one transaction
SavePredictionRun(p) ==
  LET j == job[p]
      h == History(j)
      candidates == DegreeLimitedCandidates(h, PodcastsToScore(h, Podcast))
  IN /\ pc[p] = "save_predictions"
     /\ predictions' = [predictions EXCEPT ![j.id] =
          [kind |-> "predictions", cutoff |-> j.cutoff, seen |-> j.seen,
           context |-> j.context,
           rows |-> PredictionRows(h, FeatureContext(j.context, j.cutoff), candidates)]]
     /\ Idle(p)
     /\ UNCHANGED <<ingested, linked, metrics, evolution, audits, report, training, started>>

----------------------------------------------------------------------------
(* audit_future_link_weekly_new_links, over the week before the latest link *)

\* latest_link_published_at is a microsecond behind the latest link
AuditWindow(p) ==
  /\ \E id \in RunId :
       LET dated == {e \in linked : GuestsOf[e] # {}}
           end == Max({Published[e] : e \in dated} \cup {0}) + 1
       IN /\ dated # {}
          /\ Begin(p, "audit", "audit_history",
                   [NoJob EXCEPT !.id = id, !.cutoff = end - Week])
  /\ UNCHANGED <<ingested, linked, metrics, evolution, links>>

ReadAuditHistory(p) ==
  /\ pc[p] = "audit_history"
  /\ job' = [job EXCEPT ![p].seen = linked]
  /\ Goto(p, "audit_context")
  /\ UNCHANGED <<ingested, linked, metrics, evolution, links, started>>

ReadAuditContext(p) ==
  /\ pc[p] = "audit_context"
  /\ job' = [job EXCEPT ![p].context = linked]
  /\ Goto(p, "save_audit")
  /\ UNCHANGED <<ingested, linked, metrics, evolution, links, started>>

NoScore == -1

\* Mutant: pairs at --max-degree itself are not eligible
AuditRowNearer(h, c, pair) ==
  LET distance == IF pair[1] \in PodcastIds(h) THEN Distance(h, pair[1], pair[2])
                  ELSE NoDistance
      eligible == /\ distance \notin {NoDistance, MaxDegree}
                  /\ pair[2] \in GuestIds(h)
                  /\ ~Excluded(h, pair)
  IN [pair |-> pair, distance |-> distance, eligible |-> eligible,
      score |-> IF eligible THEN Model(SelectedFeatureMap(h, c, pair[1], pair[2]))
                ELSE NoScore]

\* A published link that is new, and its score when it could have been predicted
AuditRow(h, c, pair) ==
  LET distance == IF pair[1] \in PodcastIds(h) THEN Distance(h, pair[1], pair[2])
                  ELSE NoDistance
      eligible == /\ distance # NoDistance
                  /\ pair[2] \in GuestIds(h)
                  /\ ~Excluded(h, pair)
  IN [pair |-> pair, distance |-> distance, eligible |-> eligible,
      score |-> IF eligible THEN Model(SelectedFeatureMap(h, c, pair[1], pair[2]))
                ELSE NoScore]

AuditRows(h, c, published) == {AuditRow(h, c, pair) : pair \in published \ h.guest}

\* weekly_new_link_rows, the scores, and save_audit_run in one transaction; the
\* links of the week are read for the rows and not saved
SaveAuditRun(p) ==
  LET j == job[p]
      published == FutureGuestLinks(linked, j.cutoff, j.cutoff + Week)
  IN
  /\ pc[p] = "save_audit"
  /\ audits' = [audits EXCEPT ![j.id] =
       [kind |-> "audit", cutoff |-> j.cutoff, seen |-> j.seen, context |-> j.context,
        published |-> published,
        rows |-> AuditRows(History(j), FeatureContext(j.context, j.cutoff), published)]]
  /\ Idle(p)
  /\ UNCHANGED <<ingested, linked, metrics, evolution, predictions, report, training, started>>

----------------------------------------------------------------------------
(* build_future_link_candidates --compare-degree-baseline *)

CandidateSet(E, cutoff, strategy) ==
  LET h == HistoricalLinkData(E, cutoff)
      podcasts == PodcastsToScore(h, Podcast)
      pairs == IF strategy = "shared guests" THEN SharedGuestCandidates(h, podcasts)
               ELSE DegreeLimitedCandidates(h, podcasts)
      future == FutureGuestLinks(E, cutoff, cutoff + Horizon)
  IN [seen |-> E, pairs |-> pairs, positives |-> pairs \cap future,
      stats |-> CandidateStats(h, pairs, future)]

BuildHeuristic(p) ==
  /\ \E cutoff \in Cutoffs :
       Begin(p, "candidates", "baseline", [NoJob EXCEPT !.cutoff = cutoff, !.seen = linked])
  /\ UNCHANGED <<ingested, linked, metrics, evolution, links>>

BuildBaseline(p) ==
  LET heuristic == CandidateSet(job[p].seen, job[p].cutoff, "shared guests")
      baseline == CandidateSet(linked, job[p].cutoff, "degree")
  IN /\ pc[p] = "baseline"
     /\ report' = [kind |-> "report", heuristic |-> heuristic, baseline |-> baseline,
                   comparison |-> CompareCandidateSets(baseline, heuristic)]
     /\ Idle(p)
     /\ UNCHANGED <<ingested, linked, metrics, evolution, predictions, audits, training, started>>

----------------------------------------------------------------------------
(* Training data: build_cut_plans, build_balanced_experiment_dataset and      *)
(* build_full_feature_matrix                                                  *)

StartOfDay(t) == IF t < MidnightOffset THEN 0
                 ELSE ((t - MidnightOffset) \div Day) * Day + MidnightOffset

\* Cutoffs between the first and the latest one that leaves a whole horizon
CutPlans ==
  LET dates == {Published[e] : e \in ingested}
      first == StartOfDay(Min(dates) + MinHistory)
      latest == StartOfDay(Max(dates) - Horizon - LabelGap)
  IN IF dates = {} \/ Max(dates) < Horizon + LabelGap THEN {}
     ELSE {t \in first..latest : (t - first) % CutFrequency = 0}

\* latest_cutoff_for_labeling, where no --cutoff is given
LatestCutoff ==
  LET dates == {Published[e] : e \in linked}
  IN IF dates = {} \/ Max(dates) < Horizon THEN {} ELSE {Max(dates) - Horizon}

\* The horizon of a planned cut must be over by the time it is due
TrainingCutoffs ==
  {[at |-> t, due |-> 0] : t \in Cutoffs \cup LatestCutoff}
    \cup {[at |-> t, due |-> Max({Published[e] : e \in ingested})] : t \in CutPlans}

\* Both commands read the link data, then the links of the horizon
ReadTrainingHistory(p) ==
  /\ \E c \in TrainingCutoffs :
       LET locals == [NoJob EXCEPT !.cutoff = c.at, !.due = c.due, !.seen = linked]
       IN \/ Begin(p, "dataset", "labels_of_dataset", locals)
          \/ Begin(p, "matrix", "labels_of_matrix", locals)
  /\ UNCHANGED <<ingested, linked, metrics, evolution, links>>

HorizonLinks(j) == FutureGuestLinks(linked, j.cutoff, j.cutoff + Horizon)

TrainingCandidates(h) == DegreeLimitedCandidates(h, PodcastsToScore(h, Podcast))

ReadDatasetLabels(p) ==
  /\ pc[p] = "labels_of_dataset"
  /\ job' = [job EXCEPT ![p].future = HorizonLinks(job[p])]
  /\ Goto(p, "dataset")
  /\ UNCHANGED <<ingested, linked, metrics, evolution, links, started>>

\* The pairs of smallest score, at most size of them
SampleNegativeCandidates(h, cutoff, negatives, size) ==
  LET order == ScoringOrder(h, negatives)
      item(i) == [score |-> -SampleScore(cutoff, order[i].pair), sequence |-> i,
                  pair |-> order[i].pair]
  IN IF size = 0 THEN {}
     ELSE {one.pair : one \in HeapOf([i \in DOMAIN order |-> item(i)], size)}

SplitName(cutoff, pair) == IF SplitBucket(cutoff, pair) >= 100 - TestPercent THEN "test"
                           ELSE "train"

\* The feature context is the third read; the rows go to a file
WriteDataset(p) ==
  LET j == job[p]
      h == History(j)
      c == FeatureContext(linked, j.cutoff)
      candidates == TrainingCandidates(h)
      positives == candidates \cap j.future
      negatives == SampleNegativeCandidates(h, j.cutoff, candidates \ j.future,
                                            NegativeRatio * Cardinality(positives))
      row(pair) == [pair |-> pair, label |-> pair \in j.future,
                    split |-> SplitName(j.cutoff, pair),
                    distance |-> Distance(h, pair[1], pair[2]),
                    features |-> FeatureRow(h, c, pair[1], pair[2])]
  IN /\ pc[p] = "dataset"
     /\ dataset' = [kind |-> "dataset", cutoff |-> j.cutoff, due |-> j.due, seen |-> j.seen,
                    future |-> j.future, context |-> linked,
                    rows |-> {row(pair) : pair \in positives \cup negatives}]
     /\ Idle(p)
     /\ UNCHANGED <<ingested, linked, metrics, evolution, predictions, audits, report,
                    matrix, started>>

\* The rows are counted and the arrays opened, empty, before the context is read
OpenMatrix(p) ==
  /\ pc[p] = "labels_of_matrix"
  /\ job' = [job EXCEPT ![p].future = HorizonLinks(job[p])]
  /\ matrix' = [matrix EXCEPT !.rows = {}]
  /\ Goto(p, "matrix")
  /\ UNCHANGED <<ingested, linked, metrics, evolution, predictions, audits, report,
                 dataset, started>>

\* The candidates are enumerated once more, and metadata.json comes last
WriteMatrix(p) ==
  LET j == job[p]
      h == History(j)
      c == FeatureContext(linked, j.cutoff)
      row(pair) == [pair |-> pair, label |-> pair \in j.future,
                    split |-> SplitName(j.cutoff, pair),
                    features |-> SelectedFeatureMap(h, c, pair[1], pair[2])]
  IN /\ pc[p] = "matrix"
     /\ matrix' = [rows |-> {row(pair) : pair \in TrainingCandidates(h)},
                   metadata |-> [kind |-> "matrix", cutoff |-> j.cutoff, seen |-> j.seen,
                                 future |-> j.future, context |-> linked]]
     /\ Idle(p)
     /\ UNCHANGED <<ingested, linked, metrics, evolution, predictions, audits, report,
                    dataset, started>>

----------------------------------------------------------------------------
(* Specification *)

\* Feeds bring episodes in any order of their dates, late ones included
IngestEpisode(e) ==
  /\ e \notin ingested
  /\ ingested' = ingested \cup {e}
  /\ UNCHANGED <<linked, metrics, evolution, links, pc, job, started>>

\* Extraction, sync and entity resolution link what is ingested
LinkEpisode(e) ==
  /\ e \in ingested \ linked
  /\ linked' = linked \cup {e}
  /\ UNCHANGED <<ingested, metrics, evolution, links, pc, job, started>>

Init ==
  /\ ingested \in KnownAtFirst
  /\ linked = ingested
  /\ metricRuns = <<>> /\ finishes = 0
  /\ evolutionRuns = <<>>
  /\ snapshots = [w \in Weeks |-> None]
  /\ predictions = [id \in RunId |-> None]
  /\ audits = [id \in RunId |-> None]
  /\ report = None /\ dataset = None /\ matrix = [rows |-> {}, metadata |-> None]
  /\ pc = [p \in Process |-> "idle"]
  /\ job = [p \in Process |-> NoJob]
  /\ started = [p \in Process |-> 0]

Step(p) ==
  \/ CreateMetricRun(p) \/ BuildMetricGraphs(p)
  \/ StorePersonMetrics(p) \/ StorePodcastMetrics(p)
  \/ SucceedMetrics(p) \/ FailMetrics(p)
  \/ CreateEvolutionRun(p) \/ SkipEvolution(p) \/ RequestWeeks(p)
  \/ CalculateWeek(p) \/ SaveWeeksCalculated(p)
  \/ SucceedEvolution(p) \/ FailEvolution(p)
  \/ ResetNetworkEvolutionTables(p)
  \/ ReadHistory(p) \/ ReadContext(p) \/ SavePredictionRun(p)
  \/ AuditWindow(p) \/ ReadAuditHistory(p) \/ ReadAuditContext(p) \/ SaveAuditRun(p)
  \/ BuildHeuristic(p) \/ BuildBaseline(p)
  \/ ReadTrainingHistory(p) \/ ReadDatasetLabels(p) \/ WriteDataset(p)
  \/ OpenMatrix(p) \/ WriteMatrix(p)
  \/ Crash(p)

Next ==
  \/ \E p \in Process : Step(p)
  \/ \E e \in Episode : IngestEpisode(e) \/ LinkEpisode(e)

Spec == Init /\ [][Next]_vars

----------------------------------------------------------------------------
(* Properties *)

\* The metrics the site reads are whole: the rows of every person and podcast
\* that was linked when the run read the links, with ranks 1..n, although a run
\* can fail or be killed between its three transactions and others run beside it
\* (latest_succeeded_metric_run).
MetricsReadAreWhole ==
  LET r == LatestSucceededMetricRun
      rows == metricRuns[r].people
  IN r # 0 =>
       /\ DOMAIN rows = PeopleOf(metricRuns[r].seen)
       /\ DOMAIN metricRuns[r].podcasts = PodcastsOf(metricRuns[r].seen)
       /\ {rows[x].rank : x \in DOMAIN rows} = 1..Cardinality(DOMAIN rows)

\* The stored weeks have no gap but where a bootstrap was told to start: whatever
\* is reset, cut off by --max-weeks, fails or is killed, a week whose predecessor
\* is not stored is the first one of a bootstrap on record.  The next run starts
\* behind the latest week and would never come back to one left out
\* (missing_evolution_weeks).
NoWeekIsSkipped ==
  \A w \in Stored : w - 1 \notin Stored =>
    \E r \in DOMAIN evolutionRuns :
      /\ evolutionRuns[r].status # "deleted"
      /\ evolutionRuns[r].bootstrap
      /\ evolutionRuns[r].start = w

\* The growth of a week explains the size of the network at its end: as long as
\* no episode of an earlier week was linked in between, the people, edges and
\* podcasts of a week are those of the week before and the new ones.
GrowthAddsUp ==
  \A w \in Stored \ {0} :
    LET now == snapshots[w]
        then == snapshots[w - 1]
    IN w - 1 \in Stored /\ Before(now.seen, WeekCutoff(w - 1)) = then.seen =>
         /\ now.people = then.people + now.newPeople
         /\ now.edges = then.edges + now.newEdges
         /\ now.podcasts = then.podcasts + now.newPodcasts

Kept(rows) == {rows[i].pair : i \in DOMAIN rows}

\* The negatives of the dataset are the best sampled of all there were, as many
\* as the positives ask for.
NegativesAreSampled ==
  LET available == TrainingCandidates(History(dataset)) \ dataset.future
      negatives == {row.pair : row \in {r \in dataset.rows : ~r.label}}
      wanted == NegativeRatio * Cardinality(dataset.rows \ {r \in dataset.rows : ~r.label})
      score(pair) == SampleScore(dataset.cutoff, pair)
  IN dataset # None =>
       /\ negatives \subseteq available
       /\ Cardinality(negatives) = Min({wanted, Cardinality(available)})
       /\ \A kept \in negatives, left \in available \ negatives : score(kept) <= score(left)

\* The rows of a prediction run are the TopN best of all its candidates, each
\* once and in descending order, and none is a link that existed at the cutoff;
\* the sampled negatives are the first of all negatives: the bounded heaps lose
\* nothing that belongs in them.
BestAreKept ==
  /\ NegativesAreSampled
  /\ \A id \in RunId : predictions[id] # None =>
       LET rows == predictions[id].rows
           h == History(predictions[id])
           c == FeatureContext(predictions[id].context, predictions[id].cutoff)
           all == DegreeLimitedCandidates(h, PodcastsToScore(h, Podcast))
           value(pair) == Model(SelectedFeatureMap(h, c, pair[1], pair[2]))
       IN /\ Cardinality(Kept(rows)) = Len(rows)
          /\ Len(rows) = Min({TopN, Cardinality(all)})
          /\ \A i, j \in DOMAIN rows : i < j => rows[i].score >= rows[j].score
          /\ \A pair \in all \ Kept(rows) : \A i \in DOMAIN rows : value(pair) <= rows[i].score
          /\ Kept(rows) \cap h.guest = {}

\* A pair is scored by the features it would have as a row of the training set:
\* the tables prepared for scoring, which the full matrix takes too, and the sums
\* of feature_row agree.
ScoredAsTrained ==
  /\ \A row \in matrix.rows :
       row.features = FeatureRow(History(matrix.metadata),
         FeatureContext(matrix.metadata.context, matrix.metadata.cutoff),
         row.pair[1], row.pair[2])
  /\ \A id \in RunId : predictions[id] # None =>
       LET h == History(predictions[id])
           c == FeatureContext(predictions[id].context, predictions[id].cutoff)
       IN \A i \in DOMAIN predictions[id].rows :
            LET row == predictions[id].rows[i]
            IN row.features = FeatureRow(h, c, row.pair[1], row.pair[2])

\* An audit judges what the predictions of its week could have said: whenever both
\* commands read the same history and context, each in reads of its own while links
\* are written, every predicted pair that was published in that week is in the
\* audit, as eligible, with the distance and the score it was predicted with.
AuditFollowsPredictions ==
  \A i, k \in RunId :
    LET a == audits[i]
        r == predictions[k]
    IN a # None /\ r # None /\ a.cutoff = r.cutoff
         /\ Before(a.seen, a.cutoff) = Before(r.seen, r.cutoff)
         /\ Before(a.context, a.cutoff) = Before(r.context, r.cutoff)
         => \A n \in DOMAIN r.rows :
              LET row == r.rows[n] IN
              row.pair \in a.published =>
                \E x \in a.rows : /\ x.pair = row.pair /\ x.eligible
                                  /\ x.distance = row.distance /\ x.score = row.score

\* Every link of the horizon is found, missed or excluded, exactly one of them,
\* in both candidate sets; and the shared-guest pairs are "a scored subset of
\* degree-3 bipartite candidates" when both saw the same links, so that what the
\* comparison prints as lost is all that tells their counts apart.  A row of the
\* dataset, whatever its label, was no link before the cutoff, and the horizon of
\* a planned cut was over when it was planned.
EveryPositiveIsAccounted ==
  /\ dataset # None =>
       /\ {row.pair : row \in dataset.rows} \cap History(dataset).guest = {}
       /\ dataset.due # 0 => dataset.cutoff + LabelGap + Horizon <= dataset.due
  /\ report # None =>
       /\ \A s \in {report.heuristic.stats, report.baseline.stats} :
            s.future = s.positives + s.missed + s.existing + s.hosts
       /\ report.heuristic.seen = report.baseline.seen /\ MaxDegree >= 3 =>
            /\ report.heuristic.pairs \subseteq report.baseline.pairs
            /\ report.comparison.added = 0
            /\ report.baseline.stats.positives
                 = report.heuristic.stats.positives + report.comparison.lost

=============================================================================
