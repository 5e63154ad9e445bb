---------------------------- MODULE Appearances ----------------------------
(* The processing phase of the weekly pipeline: sync_guest_appearances turns *)
(* the accepted guest candidates and the known hosts into Appearance rows,   *)
(* and promote_frequent_guests_to_cohosts then turns the guest rows of a     *)
(* podcast's regulars into derived host rows.                                *)
(*                                                                           *)
(* A Person stands for a normalized name that is not empty, and a guest of   *)
(* an extraction for a candidate at or over the minimum confidence. A row of *)
(* the table is <<episode, person>> in the set of its role and source.       *)
EXTENDS Naturals, FiniteSets

CONSTANTS
  Episode, Podcast, PodcastOf,
  Person,
  SingleName,   \* the people whose display name is one token
  Threshold,    \* --threshold
  ShareNum,     \* --episode-share-threshold is ShareNum / ShareDen
  ShareDen,
  Modes,        \* pairs <<labelled, clear>> a processing phase may be run with
  Guests,       \* the sets of accepted guests an extraction may find
  Hosts,        \* the sets of hosts a host extraction may find
  MaxWeek       \* bound: weeks

ASSUME ConstantsAssumption ==
  /\ PodcastOf \in [Episode -> Podcast]
  /\ SingleName \subseteq Person
  /\ Threshold \in Nat /\ ShareNum \in Nat /\ ShareDen \in Nat \ {0}
  /\ Modes \subseteq BOOLEAN \X BOOLEAN
  /\ Guests \subseteq SUBSET Person /\ Hosts \subseteq SUBSET Person
  /\ MaxWeek \in Nat \ {0}

Pass == {"first", "second"}

VARIABLES
  published,    \* Episode: the rows of ingested episodes
  extraction,   \* EpisodeGuestExtraction: SUCCEEDED row per episode and model
  hosts,        \* HostCandidate: host names found for a podcast
  guest,        \* Appearance rows of role guest
  metadata,     \* Appearance rows of role host, source podcast-metadata
  derived,      \* Appearance rows of role host, source DERIVED_COHOST_SOURCE
  week,         \* the week whose coordinator label the pipeline runs with
  pc,           \* the step of the processing phase
  mode,         \* the arguments of the processing phase
  selected,     \* sync's episode_ids
  todo,         \* the podcasts or episodes the current loop has not reached
  settled,      \* history: episodes a finished phase has processed as they are
  named         \* history: whom a successful extraction of an episode ever named

data == <<published, extraction, hosts>>
rows == <<guest, metadata, derived>>
local == <<mode, selected, todo>>
ghosts == <<settled, named>>
vars == <<data, rows, week, pc, local, ghosts>>

Pair == Episode \X Person

\* A row of EpisodeGuestExtraction; week 0 is no row
ExtractionRow == [week : 0 .. MaxWeek, guests : SUBSET Person]
NoExtraction == [week |-> 0, guests |-> {}]

EpisodesOf(p) == {e \in Episode : PodcastOf[e] = p}

\* The model priority of preferred_extractions_for_episodes: the second pass
\* answers for an episode it has an extraction of
Preferred(e) ==
  IF extraction[e]["second"].week # 0
  THEN extraction[e]["second"] ELSE extraction[e]["first"]

\* Any of its extractions selects an episode, with a label one of that label
SelectedEpisodes(labelled) ==
  {e \in Episode : \E m \in Pass :
     IF labelled THEN extraction[e][m].week = week ELSE extraction[e][m].week # 0}

----------------------------------------------------------------------------
(* The world around the phase: the ingestion, the extraction of the guests and
   of the hosts, and the calendar. The pipeline runs them before this phase. *)

PublishEpisode(e) ==
  /\ pc = "idle" /\ e \notin published
  /\ published' = published \cup {e}
  /\ UNCHANGED <<extraction, hosts, rows, week, pc, local, ghosts>>

\* The row of a pass is written with its candidates, over those of an earlier
\* extraction; a second pass reviews an episode of which the first pass succeeded
Extract(e, m, G) ==
  /\ pc = "idle" /\ e \in published
  /\ m = "second" => extraction[e]["first"].week # 0
  /\ extraction' = [extraction EXCEPT ![e][m] = [week |-> week, guests |-> G]]
  /\ settled' = settled \ {e}
  /\ named' = named \cup ({e} \X G)
  /\ UNCHANGED <<published, hosts, rows, week, pc, local>>

\* An extraction that fails takes the row of an earlier success with it
ExtractFails(e, m) ==
  /\ pc = "idle" /\ extraction[e][m].week # 0
  /\ extraction' = [extraction EXCEPT ![e][m] = NoExtraction]
  /\ settled' = settled \ {e}
  /\ UNCHANGED <<published, hosts, rows, week, pc, local, named>>

\* A host extraction replaces the candidates of the one before, and one that
\* fails takes them out of explicit_host_names. Single names come from
\* migrate_legacy_hosts, which does not filter them
ExtractHosts(p, H) ==
  /\ pc = "idle" /\ H # hosts[p]
  /\ hosts' = [hosts EXCEPT ![p] = H]
  /\ UNCHANGED <<published, extraction, rows, week, pc, local, ghosts>>

NextWeek ==
  /\ pc = "idle" /\ week < MaxWeek
  /\ week' = week + 1
  /\ UNCHANGED <<data, rows, pc, local, ghosts>>

----------------------------------------------------------------------------
(* sync_guest_appearances *)

NoMode == <<FALSE, FALSE>>

\* The process is over and its variables are gone
EndPhase ==
  /\ pc' = "idle"
  /\ mode' = NoMode /\ selected' = {} /\ todo' = {}

\* Mutant: a phase over a label leaves the host rows to the phases over everything
PodcastsToSyncOfAll(labelled) == IF labelled THEN {} ELSE Podcast

\* With a label only the podcasts of the selected episodes get host rows
PodcastsToSync(labelled) ==
  IF labelled THEN {PodcastOf[e] : e \in SelectedEpisodes(TRUE)} ELSE Podcast

StartSync(mo) ==
  /\ pc = "idle"
  /\ mode' = mo
  /\ selected' = SelectedEpisodes(mo[1])
  /\ todo' = PodcastsToSync(mo[1])
  /\ pc' = "sync_hosts"
  /\ UNCHANGED <<data, rows, week, ghosts>>

\* Mutant: host rows that exist are written again, with their new source
SyncHostAppearancesTwice(p) ==
  LET episodes == EpisodesOf(p) \cap (IF mode[1] THEN selected ELSE published)
  IN  /\ pc = "sync_hosts" /\ p \in todo
      /\ metadata' = metadata \cup (episodes \X hosts[p])
      /\ todo' = todo \ {p}
      /\ UNCHANGED <<data, guest, derived, week, pc, mode, selected, ghosts>>

\* A host row for every host and every episode of the podcast, with a label
\* for the selected ones only; rows that exist stay (ignore_conflicts), so a
\* derived row keeps its source
SyncHostAppearances(p) ==
  LET episodes == EpisodesOf(p) \cap (IF mode[1] THEN selected ELSE published)
  IN  /\ pc = "sync_hosts" /\ p \in todo
      /\ metadata' = metadata \cup ((episodes \X hosts[p]) \ derived)
      /\ todo' = todo \ {p}
      /\ UNCHANGED <<data, guest, derived, week, pc, mode, selected, ghosts>>

HostsSynced ==
  /\ pc = "sync_hosts" /\ todo = {}
  /\ pc' = "sync_guests"
  /\ todo' = selected
  /\ UNCHANGED <<data, rows, week, mode, selected, ghosts>>

\* materializable_guest_candidates: neither single names nor the podcast's hosts
Materializable(e) == (Preferred(e).guests \ SingleName) \ hosts[PodcastOf[e]]

\* Mutant: the candidates are keyed by their podcast, not by their episode
SyncGuestChunkByPodcast(e) ==
  /\ pc = "sync_guests" /\ e \in todo
  /\ guest' = guest \cup
       ((EpisodesOf(PodcastOf[e]) \cap published) \X Materializable(e))
  /\ todo' = todo \ {e}
  /\ UNCHANGED <<data, metadata, derived, week, pc, mode, selected, ghosts>>

\* The rows of bulk_upsert_guest_appearances
GuestRows(e) == {e} \X Materializable(e)

\* One chunk of extractions; an existing guest row is updated in place
SyncGuestChunk(e) ==
  /\ pc = "sync_guests" /\ e \in todo
  /\ guest' = guest \cup GuestRows(e)
  /\ todo' = todo \ {e}
  /\ UNCHANGED <<data, metadata, derived, week, pc, mode, selected, ghosts>>

\* Deleting a Person deletes its appearances
PruneSingleNamePeople ==
  LET Kept(R) == {r \in R : r[2] \notin SingleName}
  IN  /\ pc = "sync_guests" /\ todo = {}
      /\ guest' = Kept(guest) /\ metadata' = Kept(metadata) /\ derived' = Kept(derived)
      /\ pc' = "promote"
      /\ UNCHANGED <<data, week, local, ghosts>>

----------------------------------------------------------------------------
(* promote_frequent_guests_to_cohosts *)

GuestEpisodes(p, x) == {e \in EpisodesOf(p) : <<e, x>> \in guest}

\* More guest episodes than the threshold, or than the share of the episodes
Frequent(p, x) ==
  LET n == Cardinality(GuestEpisodes(p, x))
  IN  \/ n > Threshold
      \/ n * ShareDen > ShareNum * Cardinality(EpisodesOf(p) \cap published)

\* The guest rows of the frequent pairs
Promoted == {r \in guest : Frequent(PodcastOf[r[1]], r[2])}

\* Mutant: the promotions of earlier weeks are cleared whatever the arguments say
KeptNone == {}

\* The derived rows of earlier promotions that survive --clear-existing
KeptDerived == IF mode[2] THEN {} ELSE derived

\* One transaction. The frequent pairs are counted before it, from the guest
\* rows; a host row of the podcast's metadata stays as it is (ignore_conflicts)
PromoteFrequentGuests ==
  /\ pc = "promote"
  /\ derived' = KeptDerived \cup (Promoted \ metadata)
  /\ guest' = guest \ Promoted
  /\ settled' = settled \cup selected
  /\ EndPhase
  /\ UNCHANGED <<data, metadata, week, named>>

\* The process dies, or a step fails: the rows it has written are committed
Crash ==
  /\ pc # "idle"
  /\ EndPhase
  /\ UNCHANGED <<data, rows, week, ghosts>>

----------------------------------------------------------------------------
Init ==
  /\ published = {}
  /\ extraction = [e \in Episode |-> [m \in Pass |-> NoExtraction]]
  /\ hosts = [p \in Podcast |-> {}]
  /\ guest = {} /\ metadata = {} /\ derived = {}
  /\ week = 1
  /\ pc = "idle"
  /\ mode = NoMode /\ selected = {} /\ todo = {}
  /\ settled = {} /\ named = {}

World ==
  \/ \E e \in Episode : PublishEpisode(e)
  \/ \E e \in Episode, m \in Pass, G \in Guests : Extract(e, m, G)
  \/ \E e \in Episode, m \in Pass : ExtractFails(e, m)
  \/ \E p \in Podcast, H \in Hosts : ExtractHosts(p, H)
  \/ NextWeek

Process ==
  \/ \E mo \in Modes : StartSync(mo)
  \/ \E p \in Podcast : SyncHostAppearances(p)
  \/ HostsSynced
  \/ \E e \in Episode : SyncGuestChunk(e)
  \/ PruneSingleNamePeople
  \/ PromoteFrequentGuests
  \/ Crash

Next == World \/ Process

Spec == Init /\ [][Next]_vars

----------------------------------------------------------------------------
(* Properties *)

\* Every row is an appearance on an ingested episode, in one of the two sources
\* of host rows at most (unique_episode_person_role)
TypeOK ==
  /\ published \subseteq Episode
  /\ extraction \in [Episode -> [Pass -> ExtractionRow]]
  /\ hosts \in [Podcast -> SUBSET Person]
  /\ guest \cup metadata \cup derived \subseteq published \X Person
  /\ metadata \cap derived = {}
  /\ week \in 1 .. MaxWeek
  /\ pc \in {"idle", "sync_hosts", "sync_guests", "promote"}
  /\ mode \in BOOLEAN \X BOOLEAN
  /\ selected \subseteq published /\ settled \subseteq published
  /\ named \subseteq published \X Person
  /\ pc = "sync_hosts" => todo \subseteq Podcast
  /\ pc = "sync_guests" => todo \subseteq selected

Appears(e, x) == <<e, x>> \in guest \cup metadata \cup derived

\* Once a processing phase that covers an episode has finished, every accepted
\* guest of its preferred extraction appears on it, as a guest or as a host:
\* no later phase, promotion, week or crash makes the appearance vanish
AcceptedGuestsAppear ==
  \A e \in settled : \A x \in Preferred(e).guests \ SingleName : Appears(e, x)

\* Nobody appears on an episode as a guest, or as a co-host for having been a
\* guest, whom no successful extraction of that very episode ever named:
\* promotions are per podcast, the rows they write are not.  (A row may outlive
\* its extraction: a later one that names other guests, or fails, replaces the
\* candidates, and the sync deletes no appearance.)
AppearancesAreExtracted == guest \cup derived \subseteq named

\* Whom the podcast's host extraction names is not promoted: on the episodes a
\* phase selects, its hosts get no derived row, though they may well have been
\* guests of earlier weeks often enough
HostsAreNotPromoted ==
  [][\A r \in derived' \ derived : r[1] \in selected => r[2] \notin hosts[PodcastOf[r[1]]]]_vars

=============================================================================
