-------------------------- MODULE EntityResolution --------------------------
(***************************************************************************)
(* refresh_person_entity_resolution, the five commands it calls one after  *)
(* the other and the tables they keep: PersonObservation,                  *)
(* CanonicalPersonEntity, PersonEntityLink, PersonEntityCandidatePair.     *)
(*                                                                         *)
(* A step is one chunk or one transaction; the rows a transaction has not  *)
(* committed yet are in draft.  The command may die between any two steps. *)
(* Appearances only change while it does not run.  A command that finds no *)
(* model returns before it does anything, which is no step at all.         *)
(***************************************************************************)
EXTENDS Naturals, FiniteSets, Sequences

CONSTANTS
  Name,          \* normalized names; the entity of a name has its hash as key
  Tokens,        \* the tokens of each name
  Noise,         \* NAME_NOISE_TOKENS, and tokens of digits
  Article,       \* LEADING_GROUP_ARTICLES
  GroupToken,    \* GROUP_NAME_TOKENS
  NearToken,     \* pairs of tokens one or two edits apart
  Prefix,        \* the first four letters of each token
  Unsuffixed,    \* a last token that repeats the first: what is left without it
  Precedence,    \* the longer display name first, then the alphabet
  PairId,        \* the hash of a pair
  Appearance,    \* ids of the rows of Appearance that may exist
  NameOf,        \* the person's name on each
  PodcastOf,     \* and the podcast
  Passing,       \* bound: the appearances that may be deleted again
  Rules,         \* KNOWN_PERSON_ALIASES
  MaxBlockSize,  \* --max-block-size
  LimitPairs,    \* --limit-pairs
  MinScore,      \* --min-score
  MaxScore       \* bound: levels of probability

Pair == {p \in SUBSET Name : Cardinality(p) = 2}

NoScore == 0   \* match_probability is NULL
LowScore == 1  \* what the guards leave of a score
Score == LowScore..MaxScore

ASSUME ResolutionAssumption ==
  /\ IsFiniteSet(Name)
  /\ IsFiniteSet(Appearance) /\ Passing \subseteq Appearance /\ Appearance \subseteq Nat
  /\ PairId \in [Pair -> Nat]
  /\ \A p, q \in Pair : PairId[p] = PairId[q] => p = q
  /\ Precedence \in [Name -> Nat]
  /\ \A m, n \in Name : Precedence[m] = Precedence[n] => m = n
  /\ NameOf \in [Appearance -> Name]
  /\ \A i \in DOMAIN Rules : {Rules[i].alias, Rules[i].target} \subseteq Name
  /\ MinScore \in Score \ {LowScore}
  /\ MaxScore \in Nat

VARIABLES
  appearances,   \* Appearance rows
  observations,  \* the appearances that have a PersonObservation
  canonicals,    \* observation_count of the entity of each name, 0: no row
  links,         \* PersonEntityLink of each observation
  pairs,         \* PersonEntityCandidatePair rows
  pc,            \* where the refresh stands
  todo,          \* what is left of the loop it is in
  draft          \* links and pairs as the open transaction sees them

tables == <<appearances, observations, canonicals, links, pairs>>
vars == <<tables, pc, todo, draft>>

----------------------------------------------------------------------------
(* Names: entities/features.py *)

SetOf(s) == {s[i] : i \in DOMAIN s}
Last(s) == s[Len(s)]

CleanTokens ==
  LET Kept(t) == t \notin Noise IN [n \in Name |-> SelectSeq(Tokens[n], Kept)]

IsGroup(n) == SetOf(CleanTokens[n]) \cap GroupToken # {}

\* What the guards compare: nothing for a person, the tokens of a group
Kind == [n \in Name |-> IF IsGroup(n) THEN SetOf(CleanTokens[n]) \ Article ELSE {}]

WithoutSuffix(s) ==
  IF Len(s) >= 2 /\ <<s[1], Last(s)>> \in DOMAIN Unsuffixed
  THEN {s[i] : i \in 1..Len(s) - 1} \cup {Unsuffixed[<<s[1], Last(s)>>]}
  ELSE SetOf(s)

\* viable_candidate_pair
Viable(m, n) ==
  LET s == CleanTokens[m]
      t == CleanTokens[n]
  IN
  /\ s # <<>> /\ t # <<>>
  /\ \/ SetOf(s) = SetOf(t)
     \/ WithoutSuffix(s) = WithoutSuffix(t)
     \/ /\ Len(s) >= 2 /\ Len(t) >= 2
        /\ s[1] = t[1]
        /\ {Last(s), Last(t)} \in NearToken
     \/ Cardinality(SetOf(s) \cap SetOf(t)) >= 2

\* blocking_keys_for_profile
BlockingKeys == [n \in Name |->
  LET s == Tokens[n]
      t == CleanTokens[n]
  IN {<<"token-set", SetOf(s)>>}
     \cup (IF Len(s) >= 2 THEN {<<"first-last", s[1], Last(s)>>, <<"first-two", s[1], s[2]>>}
                          ELSE {})
     \cup (IF t # <<>> THEN {<<"clean-token-set", SetOf(t)>>} ELSE {})
     \cup (IF Len(t) >= 2 THEN {<<"clean-first-last", t[1], Last(t)>>,
                                <<"clean-first-two", t[1], t[2]>>,
                                <<"clean-first-last-prefix", t[1], Prefix[Last(t)]>>}
                          ELSE {})]

----------------------------------------------------------------------------
(* Rows *)

Link == [entity : Name, by : {"none", "exact", "match", "alias"}]
PairRow == [status : {"none", "candidate", "accepted"}, score : {NoScore} \cup Score]

NoLink(a) == [entity |-> NameOf[a], by |-> "none"]
NoPair == [status |-> "none", score |-> NoScore]

\* "none" stands for no row, in both tables
Draft == [links : [Appearance -> Link], pairs : [Pair -> PairRow]]
Nothing == [links |-> [a \in Appearance |-> NoLink(a)], pairs |-> [p \in Pair |-> NoPair]]

ObservedAs(n, obs) == {a \in obs : NameOf[a] = n}

\* merge_target_and_source: which of two entities takes the links of the other
Outranks(m, n) ==
  \/ canonicals[m] > canonicals[n]
  \/ canonicals[m] = canonicals[n] /\ Precedence[m] < Precedence[n]

\* Mutant: the two are returned in the other order
TargetSwapped(p) == CHOOSE m \in p : \A n \in p \ {m} : Outranks(n, m)

Target(p) == CHOOSE m \in p : \A n \in p \ {m} : Outranks(m, n)
Source(p) == CHOOSE n \in p : n # Target(p)

----------------------------------------------------------------------------
(* sync_person_entities *)

StartRefresh ==
  /\ pc = "idle"
  /\ pc' = "observe"
  /\ todo' = appearances
  /\ UNCHANGED <<tables, draft>>

\* bulk_upsert_observations, in the order of the ids; a chunk of one
SyncObservation(a) ==
  /\ pc = "observe"
  /\ a \in todo
  /\ \A b \in todo : a <= b
  /\ observations' = observations \cup {a}
  /\ todo' = todo \ {a}
  /\ UNCHANGED <<appearances, canonicals, links, pairs, pc, draft>>

\* Names that are not observed any more keep their entity and its count
SyncCanonicals ==
  /\ pc = "observe"
  /\ todo = {}
  /\ canonicals' = [n \in Name |-> IF ObservedAs(n, appearances) = {} THEN canonicals[n]
                                   ELSE Cardinality(ObservedAs(n, observations))]
  /\ pc' = "link"
  /\ todo' = observations
  /\ UNCHANGED <<appearances, observations, links, pairs, draft>>

ExactLink(a) == [entity |-> NameOf[a], by |-> "exact"]

\* Mutant: links are always made anew
SyncedLinkAnew(a) == ExactLink(a)

\* upsert_link_chunk keeps what was matched before
SyncedLink(a) == IF links[a].by \in {"match", "alias"} THEN links[a] ELSE ExactLink(a)

SyncLink(a) ==
  /\ pc = "link"
  /\ a \in todo
  /\ \A b \in todo : a <= b
  /\ links' = [links EXCEPT ![a] = SyncedLink(a)]
  /\ todo' = todo \ {a}
  /\ UNCHANGED <<appearances, observations, canonicals, pairs, pc, draft>>

----------------------------------------------------------------------------
(* generate_person_entity_candidates *)

\* load_profiles, with one observation at least
Profiles == {n \in Name : canonicals[n] >= 1}
Block(key) == {n \in Profiles : key \in BlockingKeys[n]}

\* The blocks a pair is found in
KeysOf(p) == {key \in UNION {BlockingKeys[n] : n \in p} :
                p \subseteq Block(key) /\ Cardinality(Block(key)) <= MaxBlockSize}

Found == {p \in Pair : /\ p \subseteq Profiles
                       /\ \A m, n \in p : m # n => Viable(m, n)
                       /\ KeysOf(p) # {}}

SharedTokens(p) == {t \in UNION {SetOf(Tokens[n]) : n \in p} :
                      \A n \in p : t \in SetOf(CleanTokens[n])}

\* candidate_sort_key
RankedHigher(p, q) ==
  LET keys(r) == Cardinality(KeysOf(r))
      shared(r) == Cardinality(SharedTokens(r))
      count(r) == canonicals[Source(r)]
  IN \/ keys(p) > keys(q)
     \/ keys(p) = keys(q) /\ shared(p) > shared(q)
     \/ keys(p) = keys(q) /\ shared(p) = shared(q) /\ count(p) > count(q)

\* ranked_candidate_pairs: the first LimitPairs; ties fall as they come
Ranked ==
  {S \in SUBSET Found :
     /\ Cardinality(S) = IF Cardinality(Found) < LimitPairs THEN Cardinality(Found) ELSE LimitPairs
     /\ \A p \in S, q \in Found \ S : ~RankedHigher(q, p)}

\* The pairs that are scored: not those just generated, but the first of all
ScoringBatch(rows) ==
  LET Existing == {p \in Pair : rows[p].status # "none"}
  IN {p \in Existing : Cardinality({q \in Existing : PairId[q] < PairId[p]}) < LimitPairs}

\* bulk_upsert_pairs resets the pairs it generates again; older ones stay
GenerateCandidates ==
  /\ pc = "link"
  /\ todo = {}
  /\ \E S \in Ranked :
       pairs' = [p \in Pair |-> IF p \in S THEN [status |-> "candidate", score |-> NoScore]
                                ELSE pairs[p]]
  /\ pc' = "score"
  /\ todo' = ScoringBatch(pairs')
  /\ UNCHANGED <<appearances, observations, canonicals, links, draft>>

----------------------------------------------------------------------------
(* score_person_entity_candidates *)

\* Mutant: the guards compare groups with groups only
GuardedBetweenGroups(p, score) ==
  IF (\A n \in p : IsGroup(n)) /\ (\E m, n \in p : Kind[m] # Kind[n]) THEN LowScore ELSE score

\* apply_entity_score_guards
Guarded(p, score) == IF \E m, n \in p : Kind[m] # Kind[n] THEN LowScore ELSE score

\* What the model says of the features of a pair is any score; a chunk of one
ScorePair(p) ==
  /\ pc = "score"
  /\ p \in todo
  /\ \A q \in todo : PairId[p] <= PairId[q]
  /\ \E score \in Score : pairs' = [pairs EXCEPT ![p].score = Guarded(p, score)]
  /\ todo' = todo \ {p}
  /\ UNCHANGED <<appearances, observations, canonicals, links, pc, draft>>

----------------------------------------------------------------------------
(* apply_person_entity_matches: one transaction *)

StartMatches ==
  /\ pc = "score"
  /\ todo = {}
  /\ pc' = "match"
  /\ todo' = {p \in Pair : pairs[p].score >= MinScore}
  /\ draft' = [links |-> links, pairs |-> pairs]
  /\ UNCHANGED tables

\* Order of probability, then of pair_id
Before(p, q) == \/ pairs[p].score > pairs[q].score
                \/ pairs[p].score = pairs[q].score /\ PairId[p] < PairId[q]

SourceLinks(p) == {a \in Appearance : /\ draft.links[a].by # "none"
                                      /\ draft.links[a].entity = Source(p)}

ApplyMatch(p) ==
  /\ pc = "match"
  /\ p \in todo
  /\ \A q \in todo \ {p} : Before(p, q)
  /\ draft' = IF SourceLinks(p) = {} THEN draft
              ELSE [links |-> [a \in Appearance |->
                                 IF a \in SourceLinks(p)
                                 THEN [entity |-> Target(p), by |-> "match"]
                                 ELSE draft.links[a]],
                    pairs |-> [draft.pairs EXCEPT ![p].status = "accepted"]]
  /\ todo' = todo \ {p}
  /\ UNCHANGED <<tables, pc>>

CommitMatches ==
  /\ pc = "match"
  /\ todo = {}
  /\ links' = draft.links
  /\ pairs' = draft.pairs
  /\ pc' = "alias"
  /\ todo' = DOMAIN Rules
  /\ UNCHANGED <<appearances, observations, canonicals, draft>>

----------------------------------------------------------------------------
(* apply_known_person_entity_aliases: one transaction *)

\* links_for_rule
RuleLinks(rule) == {a \in Appearance : /\ draft.links[a].by # "none"
                                       /\ NameOf[a] = rule.alias
                                       /\ rule.podcast # "" => PodcastOf[a] = rule.podcast}

\* Mutant: the target of a rule need not be an entity
TargetIsNamed(rule) == rule.target \in Name

TargetExists(rule) == canonicals[rule.target] >= 1

\* A rule without a target, or whose links are all there, writes nothing
RuleApplies(rule) ==
  /\ TargetExists(rule)
  /\ \E a \in RuleLinks(rule) : draft.links[a].entity # rule.target

ApplyAlias(i) ==
  LET rule == Rules[i] IN
  /\ pc = "alias"
  /\ i \in todo
  /\ \A j \in todo : i <= j
  /\ draft' = [draft EXCEPT !.links = [a \in Appearance |->
                 IF RuleApplies(rule) /\ a \in RuleLinks(rule)
                 THEN [entity |-> rule.target, by |-> "alias"]
                 ELSE draft.links[a]]]
  /\ todo' = todo \ {i}
  /\ UNCHANGED <<tables, pc>>

CommitAliases ==
  /\ pc = "alias"
  /\ todo = {}
  /\ links' = draft.links
  /\ pc' = "idle"
  /\ draft' = Nothing
  /\ UNCHANGED <<appearances, observations, canonicals, pairs, todo>>

----------------------------------------------------------------------------
(* The process dies; the database forgets what was not committed *)

Crash ==
  /\ pc # "idle"
  /\ pc' = "idle"
  /\ todo' = {}
  /\ draft' = Nothing
  /\ UNCHANGED tables

----------------------------------------------------------------------------
(* The appearances phase, before it *)

AddAppearance(a) ==
  /\ pc = "idle"
  /\ appearances' = appearances \cup {a}
  /\ UNCHANGED <<observations, canonicals, links, pairs, pc, todo, draft>>

\* Mutant: the observation outlives its appearance
DeleteAppearanceAlone(a) ==
  /\ pc = "idle"
  /\ a \in Passing
  /\ appearances' = appearances \ {a}
  /\ UNCHANGED <<observations, canonicals, links, pairs, pc, todo, draft>>

\* Guests that are promoted, and what --clear deletes: the observation and its
\* link go with the appearance
DeleteAppearance(a) ==
  /\ pc = "idle"
  /\ a \in Passing
  /\ appearances' = appearances \ {a}
  /\ observations' = observations \ {a}
  /\ links' = [links EXCEPT ![a] = NoLink(a)]
  /\ UNCHANGED <<canonicals, pairs, pc, todo, draft>>

----------------------------------------------------------------------------
(* Specification *)

Init ==
  /\ appearances = {}
  /\ observations = {}
  /\ canonicals = [n \in Name |-> 0]
  /\ links = Nothing.links
  /\ pairs = Nothing.pairs
  /\ pc = "idle"
  /\ todo = {}
  /\ draft = Nothing

SyncPersonEntities ==
  \/ StartRefresh
  \/ \E a \in Appearance : SyncObservation(a) \/ SyncLink(a)
  \/ SyncCanonicals

ApplyMatches == StartMatches \/ CommitMatches \/ \E p \in Pair : ApplyMatch(p)
ApplyAliases == CommitAliases \/ \E i \in DOMAIN Rules : ApplyAlias(i)

Next ==
  \/ SyncPersonEntities
  \/ GenerateCandidates
  \/ \E p \in Pair : ScorePair(p)
  \/ ApplyMatches
  \/ ApplyAliases
  \/ Crash
  \/ \E a \in Appearance : AddAppearance(a) \/ DeleteAppearance(a)

Spec == Init /\ [][Next]_vars

----------------------------------------------------------------------------
(* Properties *)

\* Every variable has its type, and only observed appearances have a link
TypeOK ==
  /\ observations \subseteq appearances
  /\ appearances \subseteq Appearance
  /\ canonicals \in [Name -> Nat]
  /\ links \in [Appearance -> Link]
  /\ \A a \in Appearance : links[a].by # "none" => a \in observations
  /\ pairs \in [Pair -> PairRow]
  /\ pc \in {"idle", "observe", "link", "score", "match", "alias"}
  /\ todo \subseteq (IF pc \in {"observe", "link"} THEN Appearance
                     ELSE IF pc = "alias" THEN DOMAIN Rules ELSE Pair)
  /\ draft \in Draft

\* From when candidates are generated, every appearance has an observation and a
\* link, and whatever has a link is linked to an entity that exists: however
\* often the refresh died before, and whatever merges were rolled back
AppearancesAreLinked ==
  /\ pc \in {"score", "match", "alias"} =>
       \A a \in appearances : a \in observations /\ links[a].by # "none"
  /\ \A a \in Appearance : links[a].by # "none" => canonicals[links[a].entity] >= 1

\* No chain of matches and aliases ever puts a group together with a person, or
\* with another group
KindsStayApart ==
  (\A i \in DOMAIN Rules : Kind[Rules[i].alias] = Kind[Rules[i].target]) =>
    \A a \in Appearance : Kind[links[a].entity] = Kind[NameOf[a]]

\* Nothing but the matches, the aliases and the end of its appearance takes an
\* observation away from the entity it was matched to
MatchesArePreserved ==
  [][\A a \in Appearance :
       /\ links[a].by \in {"match", "alias"}
       /\ links'[a] # links[a]
       => pc \in {"match", "alias"} \/ a \notin appearances']_vars

\* A pass of matches moves an observation only to entities that outrank the one it
\* was at, through however many pairs: passes cannot take it back and forth
MatchesMoveUp ==
  [][\A a \in Appearance :
       /\ pc = "match"
       /\ links'[a].entity # links[a].entity
       => Outranks(links'[a].entity, links[a].entity)]_vars

=============================================================================
