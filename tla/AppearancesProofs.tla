-------------------------- MODULE AppearancesProofs --------------------------
(***************************************************************************)
(* Theorems of Appearances, for any episodes, podcasts, people, thresholds *)
(* and weeks, and wherever a processing phase dies.                        *)
(***************************************************************************)
EXTENDS Appearances, TLAPS

----------------------------------------------------------------------------
(* Types, and what the rows come from *)

\* Only ingested episodes are extracted, and whom an extraction names is on record
Ingested ==
  \A e \in Episode, m \in Pass :
    /\ extraction[e][m].week # 0 => e \in published
    /\ {e} \X extraction[e][m].guests \subseteq named

TypeInv == TypeOK /\ Ingested /\ mode \in Modes \cup {NoMode}

\* Before the first week nothing is ingested, extracted or found
LEMMA InitTypes == Init => TypeInv
  <1> SUFFICES ASSUME Init PROVE TypeInv
    OBVIOUS
  <1>1. NoExtraction \in ExtractionRow /\ NoExtraction.week = 0 /\ NoExtraction.guests = {}
    BY ConstantsAssumption DEF NoExtraction, ExtractionRow
  <1>2. \A e \in Episode, m \in Pass : extraction[e][m] = NoExtraction
    BY DEF Init
  <1>3. extraction \in [Episode -> [Pass -> ExtractionRow]]
    BY <1>1 DEF Init
  <1>4. Ingested
    BY <1>1, <1>2 DEF Ingested
  <1>5. hosts \in [Podcast -> SUBSET Person] /\ week \in 1 .. MaxWeek
    BY ConstantsAssumption DEF Init
  <1> QED
    BY <1>3, <1>4, <1>5 DEF Init, TypeInv, TypeOK, NoMode

\* An episode is selected for an extraction it has
LEMMA SelectedArePublished ==
  ASSUME TypeInv, NEW labelled \in BOOLEAN
  PROVE  /\ SelectedEpisodes(labelled) \subseteq published
         /\ SelectedEpisodes(labelled) \subseteq Episode
  <1>1. week # 0
    BY ConstantsAssumption DEF TypeInv, TypeOK
  <1> QED
    BY <1>1 DEF TypeInv, TypeOK, Ingested, SelectedEpisodes

\* The guests that answer for an episode are those of one of its passes
LEMMA PreferredIsExtracted ==
  ASSUME TypeOK, NEW e \in Episode
  PROVE  \E m \in Pass : Preferred(e) = extraction[e][m] /\ Preferred(e).guests \subseteq Person
  <1>1. \A m \in Pass : extraction[e][m] \in ExtractionRow
    BY DEF TypeOK
  <1>2. /\ "first" \in Pass /\ "second" \in Pass
        /\ \A m \in Pass : extraction[e][m].guests \subseteq Person
    BY <1>1 DEF Pass, ExtractionRow
  <1> QED
    BY <1>2 DEF Preferred

\* Steps of the other commands
LEMMA WorldKeepsTypes ==
  ASSUME TypeInv, World PROVE TypeInv'
  <1> USE ConstantsAssumption DEF TypeInv, TypeOK, data, rows, local, ghosts
  <1>1. CASE \E e \in Episode : PublishEpisode(e)
    BY <1>1 DEF PublishEpisode, Ingested
  <1>2. ASSUME NEW e \in Episode, NEW m \in Pass, NEW G \in Guests, Extract(e, m, G)
        PROVE  TypeInv'
    <2>1. week \in 1 .. MaxWeek /\ week # 0
      OBVIOUS
    <2>2. [week |-> week, guests |-> G] \in ExtractionRow
      BY DEF ExtractionRow
    <2>3. extraction' \in [Episode -> [Pass -> ExtractionRow]]
      BY <1>2, <2>2 DEF Extract
    <2>4. \A d \in Episode, k \in Pass :
            extraction'[d][k] = IF d = e /\ k = m THEN [week |-> week, guests |-> G]
                                ELSE extraction[d][k]
      BY <1>2 DEF Extract
    <2>5. Ingested'
      BY <1>2, <2>1, <2>4 DEF Extract, Ingested
    <2> QED
      BY <1>2, <2>3, <2>5 DEF Extract
  <1>2a. ASSUME NEW e \in Episode, NEW m \in Pass, ExtractFails(e, m) PROVE TypeInv'
    <2>1. NoExtraction \in ExtractionRow /\ NoExtraction.week = 0 /\ NoExtraction.guests = {}
      BY DEF NoExtraction, ExtractionRow
    <2>2. extraction' \in [Episode -> [Pass -> ExtractionRow]]
      BY <1>2a, <2>1 DEF ExtractFails
    <2>3. \A d \in Episode, k \in Pass :
            extraction'[d][k] = IF d = e /\ k = m THEN NoExtraction ELSE extraction[d][k]
      BY <1>2a DEF ExtractFails
    <2>4. Ingested'
      BY <1>2a, <2>1, <2>3 DEF ExtractFails, Ingested
    <2> QED
      BY <1>2a, <2>2, <2>4 DEF ExtractFails
  <1>3. CASE \E p \in Podcast, H \in Hosts : ExtractHosts(p, H)
    BY <1>3 DEF ExtractHosts, Ingested
  <1>4. CASE NextWeek
    BY <1>4 DEF NextWeek, Ingested
  <1> QED
    BY <1>1, <1>2, <1>2a, <1>3, <1>4 DEF World

\* Steps of a phase
LEMMA ProcessKeepsTypes ==
  ASSUME TypeInv, Process PROVE TypeInv'
  <1> USE ConstantsAssumption DEF TypeInv, data, rows, local, ghosts
  <1>0. Process => UNCHANGED <<data, week, named>>
    BY DEF Process, StartSync, SyncHostAppearances, HostsSynced, SyncGuestChunk,
           PruneSingleNamePeople, PromoteFrequentGuests, Crash
  <1>0a. Ingested'
    BY <1>0 DEF Ingested
  <1>1. ASSUME NEW mo \in Modes, StartSync(mo) PROVE TypeInv'
    <2>1. mo[1] \in BOOLEAN /\ mo \in BOOLEAN \X BOOLEAN
      OBVIOUS
    <2>2. PodcastsToSync(mo[1]) \subseteq Podcast
      BY <2>1, SelectedArePublished DEF PodcastsToSync
    <2> QED
      BY <1>1, <1>0a, <2>1, <2>2, SelectedArePublished DEF StartSync, TypeOK
  <1>2. ASSUME NEW p \in Podcast, SyncHostAppearances(p) PROVE TypeInv'
    BY <1>2, <1>0a DEF SyncHostAppearances, EpisodesOf, TypeOK
  <1>3. CASE HostsSynced
    BY <1>3, <1>0a DEF HostsSynced, TypeOK
  <1>4. ASSUME NEW e \in Episode, SyncGuestChunk(e) PROVE TypeInv'
    <2>1. Materializable(e) \subseteq Person
      BY PreferredIsExtracted DEF Materializable
    <2> QED
      BY <1>4, <1>0a, <2>1 DEF SyncGuestChunk, GuestRows, TypeOK
  <1>5. CASE PruneSingleNamePeople
    BY <1>5, <1>0a DEF PruneSingleNamePeople, TypeOK
  <1>6. CASE PromoteFrequentGuests
    <2>1. Promoted \subseteq guest /\ KeptDerived \subseteq derived
      BY DEF Promoted, KeptDerived
    <2> QED
      BY <1>6, <1>0a, <2>1 DEF PromoteFrequentGuests, EndPhase, NoMode, TypeOK
  <1>7. CASE Crash
    BY <1>7, <1>0a DEF Crash, EndPhase, NoMode, TypeOK
  <1> QED
    BY <1>1, <1>2, <1>3, <1>4, <1>5, <1>6, <1>7 DEF Process

\* Types and what is ingested, together, are kept by every step
THEOREM TypesAlways == Spec => []TypeInv
  <1>1. TypeInv /\ [Next]_vars => TypeInv'
    <2> SUFFICES ASSUME TypeInv, [Next]_vars PROVE TypeInv'
      OBVIOUS
    <2>1. CASE UNCHANGED vars
      BY <2>1 DEF vars, data, rows, local, ghosts, TypeInv, TypeOK, Ingested
    <2> QED
      BY <2>1, WorldKeepsTypes, ProcessKeepsTypes DEF Next
  <1> QED
    BY <1>1, InitTypes, PTL DEF Spec

\* The type invariant: every row is on an ingested episode, and no host row is of
\* two sources
THEOREM TypeCorrect == Spec => []TypeOK
  <1>1. TypeInv => TypeOK
    BY DEF TypeInv
  <1> QED
    BY <1>1, TypesAlways, PTL

----------------------------------------------------------------------------
(* Nobody is invented *)

\* The record of names only grows
LEMMA NamedStayNamed ==
  ASSUME Next PROVE named \subseteq named'
  BY DEF Next, World, PublishEpisode, Extract, ExtractFails, ExtractHosts, NextWeek, Process,
         StartSync, SyncHostAppearances, HostsSynced, SyncGuestChunk, PruneSingleNamePeople,
         PromoteFrequentGuests, Crash, ghosts

\* A row of a guest, or of a former guest, is an old one or one of its extraction
LEMMA NewRowsAreExtracted ==
  ASSUME TypeInv, Next, NEW r \in guest' \cup derived'
  PROVE  r \in guest \cup derived \cup named
  <1>1. ASSUME NEW e \in Episode, SyncGuestChunk(e), r \notin guest \cup derived
        PROVE  r \in named
    <2>1. r \in {e} \X Preferred(e).guests
      BY <1>1 DEF SyncGuestChunk, GuestRows, Materializable
    <2> QED
      BY <2>1, PreferredIsExtracted DEF TypeInv, Ingested
  <1>2. CASE PromoteFrequentGuests
    BY <1>2 DEF PromoteFrequentGuests, Promoted, KeptDerived
  <1>3. CASE PruneSingleNamePeople
    BY <1>3 DEF PruneSingleNamePeople
  <1>4. \/ UNCHANGED <<guest, derived>> \/ PromoteFrequentGuests \/ PruneSingleNamePeople
        \/ \E e \in Episode : SyncGuestChunk(e)
    BY DEF Next, World, PublishEpisode, Extract, ExtractFails, ExtractHosts, NextWeek, Process,
           StartSync, SyncHostAppearances, HostsSynced, Crash, data, rows
  <1> QED
    BY <1>1, <1>2, <1>3, <1>4

\* Nobody appears on an episode as a guest, or as a co-host for having been one,
\* whom no extraction of that episode ever named, however often extractions are
\* repeated, fail or are answered by the second pass (sync_guest_candidate_chunk,
\* promote_frequent_guests_to_cohosts)
THEOREM ExtractedAlways == Spec => []AppearancesAreExtracted
  <1>1. Init => AppearancesAreExtracted
    BY DEF Init, AppearancesAreExtracted
  <1>2. TypeInv /\ AppearancesAreExtracted /\ [Next]_vars => AppearancesAreExtracted'
    <2>1. CASE UNCHANGED vars
      BY <2>1 DEF vars, rows, ghosts, AppearancesAreExtracted
    <2>2. ASSUME TypeInv, AppearancesAreExtracted, Next PROVE AppearancesAreExtracted'
      BY <2>2, NamedStayNamed, NewRowsAreExtracted DEF AppearancesAreExtracted
    <2> QED
      BY <2>1, <2>2
  <1> QED
    BY <1>1, <1>2, TypesAlways, PTL DEF Spec

----------------------------------------------------------------------------
(* Hosts before guests *)

\* Every host of the podcast has a host row on the episode, of either source
HostRowsWritten(e) ==
  \A x \in hosts[PodcastOf[e]] \ SingleName : <<e, x>> \in metadata \cup derived

\* Guests are looked at when the host rows of all selected episodes are there, and
\* promoted when nobody of a single name is left among them
HostsFirst ==
  /\ pc = "sync_hosts" =>
       \A e \in selected : PodcastOf[e] \in todo \/ HostRowsWritten(e)
  /\ pc \in {"sync_guests", "promote"} => \A e \in selected : HostRowsWritten(e)
  /\ pc = "promote" => \A r \in guest : r[2] \notin SingleName

\* Host rows survive until the phase ends: only single names are pruned
LEMMA HostsFirstKept ==
  ASSUME TypeInv, HostsFirst, [Next]_vars PROVE HostsFirst'
  <1> USE ConstantsAssumption DEF HostRowsWritten, data, rows, local, ghosts
  <1>1. ASSUME NEW mo \in Modes, StartSync(mo) PROVE HostsFirst'
    <2>1. mo[1] \in BOOLEAN
      OBVIOUS
    <2>2. \A e \in SelectedEpisodes(mo[1]) : PodcastOf[e] \in PodcastsToSync(mo[1])
      BY <2>1, SelectedArePublished DEF PodcastsToSync
    <2> QED
      BY <1>1, <2>2 DEF StartSync, HostsFirst
  <1>2. ASSUME NEW p \in Podcast, SyncHostAppearances(p) PROVE HostsFirst'
    <2>1. selected \subseteq published /\ published \subseteq Episode
      BY DEF TypeInv, TypeOK
    <2>2. ASSUME NEW e \in selected, PodcastOf[e] \notin todo', NEW x \in hosts[PodcastOf[e]] \ SingleName
          PROVE  <<e, x>> \in metadata' \cup derived'
      <3>1. CASE PodcastOf[e] = p
        BY <1>2, <2>1, <2>2, <3>1 DEF SyncHostAppearances, EpisodesOf
      <3>2. CASE PodcastOf[e] # p
        BY <1>2, <2>2, <3>2 DEF SyncHostAppearances, HostsFirst
      <3> QED
        BY <3>1, <3>2
    <2> QED
      BY <1>2, <2>2 DEF SyncHostAppearances, HostsFirst
  <1>3. CASE HostsSynced
    BY <1>3 DEF HostsSynced, HostsFirst
  <1>4. ASSUME NEW e \in Episode, SyncGuestChunk(e) PROVE HostsFirst'
    BY <1>4 DEF SyncGuestChunk, HostsFirst
  <1>5. CASE PruneSingleNamePeople
    BY <1>5 DEF PruneSingleNamePeople, HostsFirst
  <1>6. CASE PromoteFrequentGuests \/ Crash
    BY <1>6 DEF PromoteFrequentGuests, Crash, EndPhase, HostsFirst
  <1>7. CASE World
    BY <1>7 DEF World, PublishEpisode, Extract, ExtractFails, ExtractHosts, NextWeek, HostsFirst
  <1>8. CASE UNCHANGED vars
    BY <1>8 DEF vars, HostsFirst
  <1> QED
    BY <1>1, <1>2, <1>3, <1>4, <1>5, <1>6, <1>7, <1>8 DEF Next, Process

\* In every phase, whatever its mode, the host rows are there before the guests are
\* looked at (sync_guest_appearances)
THEOREM HostsFirstAlways == Spec => [](TypeInv /\ HostsFirst)
  <1>1. Init => HostsFirst
    BY DEF Init, HostsFirst
  <1> QED
    BY <1>1, HostsFirstKept, TypesAlways, PTL DEF Spec

\* A host whom the host extraction names is not promoted on an episode the phase
\* has selected, however often a guest before (sync_host_appearances, then
\* promote_frequent_guests_to_cohosts)
THEOREM HostsNotPromoted == Spec => HostsAreNotPromoted
  <1> DEFINE Fine == \A r \in derived' \ derived :
                       r[1] \in selected => r[2] \notin hosts[PodcastOf[r[1]]]
  <1>1. TypeInv /\ HostsFirst /\ [Next]_vars => [Fine]_vars
    <2> SUFFICES ASSUME TypeInv, HostsFirst, Next PROVE Fine
      BY DEF vars
    <2>1. CASE PromoteFrequentGuests
      <3> SUFFICES ASSUME NEW r \in derived' \ derived, r[1] \in selected,
                          r[2] \in hosts[PodcastOf[r[1]]]
                   PROVE  FALSE
        OBVIOUS
      <3>1. r \in guest /\ r \notin metadata /\ r \notin derived
        BY <2>1 DEF PromoteFrequentGuests, Promoted, KeptDerived
      <3>2. r[2] \notin SingleName /\ HostRowsWritten(r[1])
        BY <2>1, <3>1 DEF PromoteFrequentGuests, HostsFirst
      <3>3. r = <<r[1], r[2]>>
        BY <3>1 DEF TypeInv, TypeOK
      <3> QED
        BY <3>1, <3>2, <3>3 DEF HostRowsWritten
    <2>2. CASE derived' \subseteq derived
      BY <2>2
    <2>3. PromoteFrequentGuests \/ derived' \subseteq derived
      BY DEF Next, World, PublishEpisode, Extract, ExtractFails, ExtractHosts, NextWeek, Process, StartSync,
             SyncHostAppearances, HostsSynced, SyncGuestChunk, PruneSingleNamePeople, Crash, rows
    <2> QED
      BY <2>1, <2>2, <2>3
  <1> QED
    BY <1>1, HostsFirstAlways, PTL DEF Spec, HostsAreNotPromoted

----------------------------------------------------------------------------
(* No guest is lost while promotions are added to the earlier ones *)

Additive == \A mo \in Modes : ~mo[2]

GuestsShown(e) == \A x \in Preferred(e).guests \ SingleName : Appears(e, x)

\* The selected episodes the loop has behind it, and later all of them, are like
\* those of a phase that has ended
GuestsCovered ==
  /\ AcceptedGuestsAppear
  /\ pc = "sync_guests" => \A e \in selected \ todo : GuestsShown(e)
  /\ pc = "promote" => \A e \in selected : GuestsShown(e)

\* No step of an additive phase takes a person of two names from an episode
LEMMA AppearancesStay ==
  ASSUME Additive, TypeInv, [Next]_vars, NEW e, NEW x, x \notin SingleName, Appears(e, x)
  PROVE  Appears(e, x)'
  <1>1. CASE PromoteFrequentGuests
    <2>1. ~NoMode[2]
      BY DEF NoMode
    <2>2. ~mode[2]
      BY <2>1 DEF Additive, TypeInv
    <2>3. KeptDerived = derived
      BY <2>2 DEF KeptDerived
    <2> QED
      BY <1>1, <2>3 DEF PromoteFrequentGuests, Appears
  <1>2. CASE PruneSingleNamePeople
    BY <1>2 DEF PruneSingleNamePeople, Appears
  <1>3. \/ PromoteFrequentGuests \/ PruneSingleNamePeople
        \/ guest \subseteq guest' /\ metadata \subseteq metadata' /\ derived \subseteq derived'
    BY DEF Next, World, PublishEpisode, Extract, ExtractFails, ExtractHosts, NextWeek, Process, StartSync,
           SyncHostAppearances, HostsSynced, SyncGuestChunk, Crash, rows, vars
  <1> QED
    BY <1>1, <1>2, <1>3 DEF Appears

\* An episode whose extractions a step leaves alone keeps its guests
LEMMA ShownStay ==
  ASSUME Additive, TypeInv, [Next]_vars, NEW e, extraction'[e] = extraction[e], GuestsShown(e)
  PROVE  GuestsShown(e)'
  <1>1. Preferred(e)' = Preferred(e)
    BY DEF Preferred
  <1> QED
    BY <1>1, AppearancesStay DEF GuestsShown

\* A guest is shown by the chunk of the episode, or is a host who has a row already
LEMMA GuestsCoveredKept ==
  ASSUME Additive, TypeInv, HostsFirst, GuestsCovered, [Next]_vars PROVE GuestsCovered'
  <1> USE DEF data, rows, local, ghosts
  <1>0. AcceptedGuestsAppear <=> \A e \in settled : GuestsShown(e)
    BY DEF AcceptedGuestsAppear, GuestsShown
  <1>0a. AcceptedGuestsAppear' <=> \A e \in settled' : GuestsShown(e)'
    BY DEF AcceptedGuestsAppear, GuestsShown
  <1>1. ASSUME NEW d \in Episode, NEW m \in Pass, NEW G \in Guests, Extract(d, m, G)
        PROVE  GuestsCovered'
    <2>1. \A e \in settled' : e # d /\ e \in settled /\ extraction'[e] = extraction[e]
      BY <1>1 DEF Extract, TypeInv, TypeOK
    <2>2. \A e \in settled' : GuestsShown(e)'
      BY <1>0, <2>1, ShownStay DEF GuestsCovered
    <2> QED
      BY <1>1, <1>0a, <2>2 DEF Extract, GuestsCovered
  <1>1a. ASSUME NEW d \in Episode, NEW m \in Pass, ExtractFails(d, m) PROVE GuestsCovered'
    <2>1. \A e \in settled' : e # d /\ e \in settled /\ extraction'[e] = extraction[e]
      BY <1>1a DEF ExtractFails, TypeInv, TypeOK
    <2>2. \A e \in settled' : GuestsShown(e)'
      BY <1>0, <2>1, ShownStay DEF GuestsCovered
    <2> QED
      BY <1>1a, <1>0a, <2>2 DEF ExtractFails, GuestsCovered
  <1>2. CASE /\ UNCHANGED extraction
             /\ ~\E d \in Episode, m \in Pass, G \in Guests : Extract(d, m, G)
             /\ ~\E d \in Episode, m \in Pass : ExtractFails(d, m)
    <2>1. \A e : GuestsShown(e) => GuestsShown(e)'
      BY <1>2, ShownStay
    <2>2. settled' \subseteq settled => AcceptedGuestsAppear'
      BY <1>0, <1>0a, <2>1 DEF GuestsCovered
    <2>3. ASSUME NEW e \in Episode, SyncGuestChunk(e) PROVE GuestsCovered'
      <3>1. GuestsShown(e)'
        <4> SUFFICES ASSUME NEW x \in Preferred(e).guests \ SingleName PROVE Appears(e, x)'
          BY <1>2 DEF GuestsShown, Preferred
        <4>1. CASE x \in hosts[PodcastOf[e]]
          <5>1. Appears(e, x)
            BY <2>3, <4>1 DEF SyncGuestChunk, HostsFirst, HostRowsWritten, Appears, TypeInv, TypeOK
          <5> QED
            BY <5>1, AppearancesStay
        <4>2. CASE x \notin hosts[PodcastOf[e]]
          BY <2>3, <4>2 DEF SyncGuestChunk, GuestRows, Materializable, Appears
        <4> QED
          BY <4>1, <4>2
      <3> QED
        BY <2>3, <2>1, <2>2, <3>1 DEF SyncGuestChunk, GuestsCovered
    <2>4. CASE PruneSingleNamePeople
      BY <2>4, <2>1, <2>2 DEF PruneSingleNamePeople, GuestsCovered
    <2>5. CASE PromoteFrequentGuests
      <3>1. \A e \in settled' : GuestsShown(e)
        BY <2>5, <1>0 DEF PromoteFrequentGuests, GuestsCovered
      <3> QED
        BY <2>5, <1>0a, <2>1, <3>1 DEF PromoteFrequentGuests, EndPhase, GuestsCovered
    <2>6. CASE HostsSynced
      BY <2>6, <2>2 DEF HostsSynced, GuestsCovered
    <2>7. CASE \/ \E mo \in Modes : StartSync(mo)
               \/ \E p \in Podcast : SyncHostAppearances(p)
               \/ Crash
      BY <2>7, <2>2 DEF StartSync, SyncHostAppearances, Crash, EndPhase, GuestsCovered
    <2>8. CASE \/ \E e \in Episode : PublishEpisode(e)
               \/ \E p \in Podcast, H \in Hosts : ExtractHosts(p, H)
               \/ NextWeek
      BY <2>8, <2>2 DEF PublishEpisode, ExtractHosts, NextWeek, GuestsCovered
    <2>9. CASE UNCHANGED vars
      BY <2>9, <2>1, <2>2 DEF vars, GuestsCovered
    <2>10. \/ \E e \in Episode : SyncGuestChunk(e)
           \/ PruneSingleNamePeople \/ PromoteFrequentGuests \/ HostsSynced
           \/ \E mo \in Modes : StartSync(mo)
           \/ \E p \in Podcast : SyncHostAppearances(p)
           \/ Crash
           \/ \E e \in Episode : PublishEpisode(e)
           \/ \E p \in Podcast, H \in Hosts : ExtractHosts(p, H)
           \/ NextWeek \/ UNCHANGED vars
      BY <1>2 DEF Next, World, Process
    <2> QED
      BY <2>3, <2>4, <2>5, <2>6, <2>7, <2>8, <2>9, <2>10
  <1>3. \/ UNCHANGED extraction
        \/ \E d \in Episode, m \in Pass, G \in Guests : Extract(d, m, G)
        \/ \E d \in Episode, m \in Pass : ExtractFails(d, m)
    BY DEF Next, World, PublishEpisode, ExtractHosts, NextWeek, Process, StartSync,
           SyncHostAppearances, HostsSynced, SyncGuestChunk, PruneSingleNamePeople,
           PromoteFrequentGuests, Crash, vars
  <1> QED
    BY <1>1, <1>1a, <1>2, <1>3

\* With promotions that add to the earlier ones, every accepted guest of an episode
\* that a phase has covered appears on it ever after (sync_guest_appearances,
\* promote_frequent_guests_to_cohosts without --clear-existing)
THEOREM GuestsAlwaysAppear ==
  ASSUME Additive
  PROVE  Spec => []AcceptedGuestsAppear
  <1>1. Init => GuestsCovered
    BY DEF Init, GuestsCovered, AcceptedGuestsAppear
  <1>2. TypeInv /\ HostsFirst /\ GuestsCovered /\ [Next]_vars => GuestsCovered'
    BY GuestsCoveredKept
  <1>3. GuestsCovered => AcceptedGuestsAppear
    BY DEF GuestsCovered
  <1> QED
    BY <1>1, <1>2, <1>3, HostsFirstAlways, PTL DEF Spec

==============================================================================
