----------------------------- MODULE FutureLinks -----------------------------
(***************************************************************************)
(* The link data that future-link prediction works on: who has been on     *)
(* which podcast before a cutoff (future_links/prediction.py), the         *)
(* podcast/person pairs worth scoring, and the features of a pair          *)
(* (future_links/features.py).  Pure operators; E is always the set of     *)
(* episodes whose appearances are linked to canonical people when the      *)
(* rows are read.                                                          *)
(***************************************************************************)
EXTENDS Integers, Sequences, SequencesExt

CONSTANTS
  Episode,          \* episodes of the catalog
  Podcast,          \* podcasts, numbered as their ids
  Person,           \* canonical people, numbered in the order of their ids
  PodcastOf,        \* podcast of each episode
  Published,        \* published_at of each episode, in ticks
  GuestsOf,         \* canonical people linked as guests of each episode
  HostsOf,          \* canonical people linked as hosts of each episode
  MaxDegree,        \* --max-degree
  ExcludeHosts,     \* ~ --include-hosts
  MinGuests,        \* --min-podcast-guest-count
  MinShared,        \* --min-shared-guests
  TopPerPodcast,    \* --top-per-podcast, 0 for no cap
  AlwaysKeep,       \* --always-keep-score, 0 for never
  Windows           \* RECENT_WINDOWS, in ticks

ASSUME FutureLinksAssumption ==
  /\ Podcast \cup Person \subseteq Nat
  /\ IsFiniteSet(Person) /\ IsFiniteSet(Podcast) /\ IsFiniteSet(Episode)
  /\ PodcastOf \in [Episode -> Podcast]
  /\ Published \in [Episode -> Nat]
  /\ {GuestsOf, HostsOf} \subseteq [Episode -> SUBSET Person]
  /\ {MaxDegree, MinShared} \subseteq Nat \ {0}
  /\ {MinGuests, TopPerPodcast, AlwaysKeep} \subseteq Nat
  /\ ExcludeHosts \in BOOLEAN
  /\ Windows \subseteq Nat

----------------------------------------------------------------------------
(* Sorting and adding up *)

\* The members of a finite set, sorted by an order that is total on it
InOrder(S, Precedes(_, _)) ==
  LET placed == {<<Cardinality({y \in S : Precedes(y, x)}) + 1, x>> : x \in S}
  IN [i \in 1..Cardinality(S) |-> (CHOOSE entry \in placed : entry[1] = i)[2]]

SumOver(f, S) == MapThenSumSet(LAMBDA q : f[q], S)

----------------------------------------------------------------------------
(* Link data before a cutoff *)

Before(E, cutoff) == {e \in E : Published[e] < cutoff}
Within(E, from, to) == {e \in E : from <= Published[e] /\ Published[e] < to}

Pairs(E, people) == UNION {{PodcastOf[e]} \X people[e] : e \in E}

\* existing_guest_links and host_links; the graph and the maps follow from them
HistoricalLinkData(E, cutoff) ==
  LET past == Before(E, cutoff)
  IN [guest |-> Pairs(past, GuestsOf), host |-> Pairs(past, HostsOf)]

FutureGuestLinks(E, cutoff, end) == Pairs(Within(E, cutoff, end), GuestsOf)

GuestIds(h) == {l[2] : l \in h.guest}
PodcastIds(h) == {l[1] : l \in h.guest \cup h.host}
PodcastGuests(h, p) == {x \in Person : <<p, x>> \in h.guest}
GuestPodcasts(h, x) == {p \in Podcast : <<p, x>> \in h.guest}
PodcastHosts(h, p) == {x \in Person : <<p, x>> \in h.host}
PersonPodcasts(h, x) == {p \in Podcast : <<p, x>> \in h.guest \cup h.host}

PodcastsToScore(h, active) ==
  {p \in PodcastIds(h) \cap active : Cardinality(PodcastGuests(h, p)) >= MinGuests}

----------------------------------------------------------------------------
(* Pairs worth scoring *)

\* People within an odd number of hops of a podcast; single_source_shortest_
\* path_length of networkx, cut off at MaxDegree
PeopleWithin(h, p) ==
  LET people(ps) == {l[2] : l \in {k \in h.guest \cup h.host : k[1] \in ps}}
      near[d \in 0..MaxDegree] ==
        IF d = 0 THEN [podcasts |-> {p}, people |-> {}]
        ELSE LET inner == near[d - 1] IN
             [podcasts |-> inner.podcasts \cup UNION {PersonPodcasts(h, x) : x \in inner.people},
              people |-> people(inner.podcasts)]
  IN [d \in 0..MaxDegree |-> near[d].people]

NoDistance == 0

Distance(h, p, x) ==
  LET near == PeopleWithin(h, p)
  IN IF x \in near[MaxDegree]
     THEN CHOOSE d \in 1..MaxDegree : x \in near[d] /\ x \notin near[d - 1]
     ELSE NoDistance

\* What is left out of the pairs of a podcast
Excluded(h, pair) == pair \in h.guest \/ (ExcludeHosts /\ pair \in h.host)

\* iter_degree_limited_candidates, which build_degree_limited_link_candidates
\* repeats
DegreeLimitedCandidates(h, podcasts) ==
  {pair \in podcasts \X GuestIds(h) :
     /\ Distance(h, pair[1], pair[2]) # NoDistance
     /\ ~Excluded(h, pair)}

SharedGuests(h, p, q) == Cardinality(PodcastGuests(h, p) \cap PodcastGuests(h, q))

\* Score of a guest by the podcasts that share guests with p
RetrievalScore(h, p, x) ==
  SumOver([q \in Podcast |-> IF SharedGuests(h, p, q) >= MinShared
                             THEN SharedGuests(h, p, q) ELSE 0],
          GuestPodcasts(h, x) \ {p})

\* candidate_scores in (-score, id) order; known guests of p are ranked too
RankedByRetrieval(h, p) ==
  LET scored == {[guest |-> x, score |-> RetrievalScore(h, p, x)] : x \in GuestIds(h)}
  IN InOrder({s \in scored : s.score > 0},
             LAMBDA s, t : s.score > t.score \/ (s.score = t.score /\ s.guest < t.guest))

KeptByRetrieval(h, p) ==
  LET ranked == RankedByRetrieval(h, p) IN
  {ranked[i].guest : i \in {j \in DOMAIN ranked :
     \/ TopPerPodcast > 0 /\ j <= TopPerPodcast
     \/ AlwaysKeep > 0 /\ ranked[j].score >= AlwaysKeep
     \/ TopPerPodcast = 0 /\ AlwaysKeep = 0}}

SharedGuestCandidates(h, podcasts) ==
  {pair \in podcasts \X GuestIds(h) :
     /\ pair[2] \in KeptByRetrieval(h, pair[1])
     /\ ~Excluded(h, pair)}

\* Mutant: a positive that is a host link and an existing link is counted twice
CandidateStatsTwice(h, candidates, future) ==
  [positives |-> Cardinality(candidates \cap future),
   missed |-> Cardinality(future \ (candidates \cup {l \in future : Excluded(h, l)})),
   existing |-> Cardinality(future \cap h.guest),
   hosts |-> IF ExcludeHosts THEN Cardinality(future \cap h.host) ELSE 0,
   future |-> Cardinality(future)]

CandidateStats(h, candidates, future) ==
  [positives |-> Cardinality(candidates \cap future),
   missed |-> Cardinality(future \ (candidates \cup {l \in future : Excluded(h, l)})),
   existing |-> Cardinality(future \cap h.guest),
   hosts |-> IF ExcludeHosts THEN Cardinality((future \cap h.host) \ h.guest) ELSE 0,
   future |-> Cardinality(future)]

\* The positives that one strategy has and the other one has not
CompareCandidateSets(baseline, heuristic) ==
  [lost |-> Cardinality(baseline.positives \ heuristic.positives),
   added |-> Cardinality(heuristic.positives \ baseline.positives)]

----------------------------------------------------------------------------
(* Features of a pair *)

\* safe_ratio, as a pair of integers
SafeRatio(n, d) == IF d = 0 THEN <<0, 1>> ELSE <<n, d>>

\* days_since the earliest or the latest of some dates
SinceFirst(E, cutoff) == IF E = {} THEN 0 ELSE cutoff - Min({Published[e] : e \in E})
SinceLatest(E, cutoff) == IF E = {} THEN 0 ELSE cutoff - Max({Published[e] : e \in E})

\* What build_feature_context counts from the guest rows, read on its own
FeatureContext(E, cutoff) ==
  LET past == Before(E, cutoff)
      on(p) == {e \in past : PodcastOf[e] = p /\ GuestsOf[e] # {}}
      with(x) == {e \in past : x \in GuestsOf[e]}
      recent(S, w) == {e \in S : Published[e] >= cutoff - w}
      rows(S) == MapThenSumSet(LAMBDA e : Cardinality(GuestsOf[e]), S)
  IN [podcastRows |-> [p \in Podcast |-> rows(on(p))],
      guestRows |-> [x \in Person |-> Cardinality(with(x))],
      podcastAge |-> [p \in Podcast |-> SinceFirst(on(p), cutoff)],
      podcastSince |-> [p \in Podcast |-> SinceLatest(on(p), cutoff)],
      guestSince |-> [x \in Person |-> SinceLatest(with(x), cutoff)],
      guestRecent |-> [x \in Person |-> [w \in Windows |-> Cardinality(recent(with(x), w))]]]

\* Tables over podcasts that the context prepares for every candidate
SharedNeighborCounts(h, p) ==
  [q \in Podcast |-> IF q = p THEN 0 ELSE SharedGuests(h, p, q)]
HostBridgeCounts(h, p) ==
  [q \in Podcast |-> Cardinality({x \in PodcastHosts(h, p) : q \in PersonPodcasts(h, x)})]

\* Mutant: the weight of a bridge is counted once for all its hosts
HostBridgeWeightsOnce(h, p) ==
  [q \in Podcast |-> IF HostBridgeCounts(h, p)[q] = 0 THEN 0
                     ELSE 1 + Cardinality(PodcastGuests(h, q))]

HostBridgeWeights(h, p) ==
  [q \in Podcast |-> HostBridgeCounts(h, p)[q] * (1 + Cardinality(PodcastGuests(h, q)))]

\* The part of a row that both paths take from the context
ContextFeatures(h, c, p, x) ==
  [podcastAge |-> c.podcastAge[p],
   guestSince |-> c.guestSince[x],
   podcastSince |-> c.podcastSince[p],
   repeatRate |-> SafeRatio(c.podcastRows[p] - Cardinality(PodcastGuests(h, p)),
                            c.podcastRows[p]),
   degree |-> Cardinality(PodcastGuests(h, p) \cup PodcastHosts(h, p)),
   guestRows |-> c.guestRows[x],
   guestRecent |-> c.guestRecent[x]]

\* selected_feature_map: what is scored, from the prepared tables
SelectedFeatureMap(h, c, p, x) ==
  [neighborScore |-> SumOver(SharedNeighborCounts(h, p), GuestPodcasts(h, x)),
   pairCount |-> SumOver(SharedNeighborCounts(h, p), GuestPodcasts(h, x)),
   hostBridges |-> SumOver(HostBridgeCounts(h, p), GuestPodcasts(h, x)),
   hostWeight |-> SumOver(HostBridgeWeights(h, p), GuestPodcasts(h, x)),
   other |-> ContextFeatures(h, c, p, x)]

\* feature_row: what the model is trained on, guest by guest and host by host
FeatureRow(h, c, p, x) ==
  LET shared == [y \in Person |-> GuestPodcasts(h, x) \cap GuestPodcasts(h, y)]
      bridges == [y \in Person |-> GuestPodcasts(h, x) \cap PersonPodcasts(h, y)]
      weight == [q \in Podcast |-> 1 + Cardinality(PodcastGuests(h, q))]
  IN [neighborScore |-> SumOver([y \in Person |-> Cardinality(shared[y] \ {p})],
                                PodcastGuests(h, p)),
      pairCount |-> SumOver([y \in Person |-> Cardinality(shared[y])], PodcastGuests(h, p)),
      hostBridges |-> SumOver([y \in Person |-> Cardinality(bridges[y])], PodcastHosts(h, p)),
      hostWeight |-> SumOver([y \in Person |-> SumOver(weight, bridges[y])],
                             PodcastHosts(h, p)),
      other |-> ContextFeatures(h, c, p, x)]

=============================================================================
