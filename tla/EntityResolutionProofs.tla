------------------------ MODULE EntityResolutionProofs ------------------------
(***************************************************************************)
(* Theorems of EntityResolution, for any names, appearances, rules and     *)
(* scores, and wherever the refresh dies.                                  *)
(***************************************************************************)
EXTENDS EntityResolution, FiniteSetTheorems, TLAPS

----------------------------------------------------------------------------
(* Pairs *)

\* A pair is two names
LEMMA PairIsTwo ==
  ASSUME NEW p \in Pair
  PROVE  \E m, n \in Name : m # n /\ p = {m, n}
  <1>1. p \subseteq Name /\ Cardinality(p) = 2
    BY DEF Pair
  <1>2. IsFiniteSet(p)
    BY <1>1, FS_Subset, ResolutionAssumption
  <1>3. PICK m : m \in p
    BY <1>1, <1>2, FS_EmptySet
  <1>4. IsFiniteSet(p \ {m}) /\ Cardinality(p \ {m}) = 1
    BY <1>1, <1>2, <1>3, FS_RemoveElement
  <1>5. PICK n : n \in p \ {m}
    BY <1>4, FS_EmptySet
  <1>6. IsFiniteSet((p \ {m}) \ {n}) /\ Cardinality((p \ {m}) \ {n}) = 0
    BY <1>4, <1>5, FS_RemoveElement
  <1>7. (p \ {m}) \ {n} = {}
    BY <1>6, FS_EmptySet
  <1> QED
    BY <1>1, <1>3, <1>5, <1>7

\* Of two entities one outranks the other, whatever their counts
LEMMA OutranksTotal ==
  ASSUME canonicals \in [Name -> Nat], NEW m \in Name, NEW n \in Name, m # n
  PROVE  /\ Outranks(m, n) \/ Outranks(n, m)
         /\ ~(Outranks(m, n) /\ Outranks(n, m))
  <1>1. Precedence[m] \in Nat /\ Precedence[n] \in Nat /\ Precedence[m] # Precedence[n]
    BY ResolutionAssumption
  <1>2. canonicals[m] \in Nat /\ canonicals[n] \in Nat
    OBVIOUS
  <1> QED
    BY <1>1, <1>2 DEF Outranks

LEMMA OutranksTransitive ==
  ASSUME canonicals \in [Name -> Nat], NEW k \in Name, NEW m \in Name, NEW n \in Name,
         Outranks(k, m), Outranks(m, n)
  PROVE  Outranks(k, n)
  <1>1. \A x \in {k, m, n} : Precedence[x] \in Nat /\ canonicals[x] \in Nat
    BY ResolutionAssumption
  <1> QED
    BY <1>1 DEF Outranks

\* merge_target_and_source returns both of a pair, the target outranks the source
LEMMA TargetAndSource ==
  ASSUME canonicals \in [Name -> Nat], NEW p \in Pair
  PROVE  /\ Target(p) \in p /\ Source(p) \in p /\ Target(p) # Source(p)
         /\ p \subseteq Name
         /\ Outranks(Target(p), Source(p))
  <1>1. PICK m \in Name, n \in Name : m # n /\ p = {m, n}
    BY PairIsTwo
  <1>2. \E t \in p : \A x \in p \ {t} : Outranks(t, x)
    BY <1>1, OutranksTotal
  <1>3. Target(p) \in p /\ \A x \in p \ {Target(p)} : Outranks(Target(p), x)
    BY <1>2 DEF Target
  <1>4. Source(p) \in p /\ Source(p) # Target(p)
    BY <1>1, <1>3 DEF Source
  <1> QED
    BY <1>1, <1>3, <1>4

----------------------------------------------------------------------------
(* Types *)

\* Guards leave a score or lower it
LEMMA ScoreType ==
  ASSUME NEW p \in Pair, NEW score \in Score
  PROVE  Guarded(p, score) \in Score
  BY ResolutionAssumption DEF Guarded, Score, LowScore

LEMMA NothingType == Nothing \in Draft
  BY ResolutionAssumption DEF Nothing, Draft, Link, PairRow, NoLink, NoPair, NoScore

\* How often a name is observed
LEMMA CountType ==
  ASSUME NEW n \in Name, observations \subseteq Appearance
  PROVE  /\ Cardinality(ObservedAs(n, observations)) \in Nat
         /\ ObservedAs(n, observations) # {} => Cardinality(ObservedAs(n, observations)) >= 1
  <1>1. IsFiniteSet(ObservedAs(n, observations))
    BY FS_Subset, ResolutionAssumption DEF ObservedAs
  <1> QED
    BY <1>1, FS_CardinalityType, FS_EmptySet

\* What a pass works on: whatever is left of its loop is done before the next one
\* begins, and nothing is linked that is not observed
PassInv ==
  /\ pc = "observe" => todo \subseteq appearances /\ appearances \subseteq observations \cup todo
  /\ pc = "link" => /\ todo \subseteq observations
                    /\ appearances \subseteq observations
                    /\ \A a \in observations : links[a].by # "none" \/ a \in todo
                    /\ \A a \in observations : canonicals[NameOf[a]] >= 1
  /\ pc \in {"score", "match", "alias"} =>
       appearances \subseteq observations /\ \A a \in observations : links[a].by # "none"
  /\ pc \in {"match", "alias"} =>
       \A a \in Appearance : draft.links[a].by # "none" <=> links[a].by # "none"

\* Links lead to entities that exist, those of an open transaction included
LinkedInv ==
  /\ \A a \in Appearance : links[a].by # "none" => canonicals[links[a].entity] >= 1
  /\ pc \in {"match", "alias"} =>
       \A a \in Appearance : draft.links[a].by # "none" => canonicals[draft.links[a].entity] >= 1

RefreshInv == TypeOK /\ PassInv /\ LinkedInv

LEMMA RefreshInit == Init => RefreshInv
  BY NothingType DEF Init, RefreshInv, TypeOK, PassInv, LinkedInv, Nothing, Draft, NoLink

LEMMA RefreshStep == RefreshInv /\ [Next]_vars => RefreshInv'
  <1> SUFFICES ASSUME RefreshInv, [Next]_vars PROVE RefreshInv'
    OBVIOUS
  <1> USE DEF RefreshInv
  <1>1. CASE StartRefresh
    <2>1. TypeOK'
      BY <1>1 DEF StartRefresh, tables, TypeOK, PassInv
    <2>2. PassInv'
      BY <1>1 DEF StartRefresh, tables, TypeOK, PassInv
    <2>3. LinkedInv'
      BY <1>1 DEF StartRefresh, tables, TypeOK, PassInv, LinkedInv
    <2> QED
      BY <2>1, <2>2, <2>3
  <1>2. ASSUME NEW a \in Appearance, SyncObservation(a) PROVE RefreshInv'
    <2>1. TypeOK'
      BY <1>2 DEF SyncObservation, TypeOK, PassInv
    <2>2. PassInv'
      BY <1>2 DEF SyncObservation, TypeOK, PassInv
    <2>3. LinkedInv'
      BY <1>2 DEF SyncObservation, TypeOK, PassInv, LinkedInv
    <2> QED
      BY <2>1, <2>2, <2>3
  <1>3. CASE SyncCanonicals
    <2>1. TypeOK'
      BY <1>3, CountType DEF SyncCanonicals, TypeOK, PassInv
    <2>2. appearances = observations /\ observations \subseteq Appearance
      BY <1>3 DEF SyncCanonicals, TypeOK, PassInv
    <2>3. \A n \in Name : ObservedAs(n, appearances) # {} => canonicals'[n] >= 1
      <3> SUFFICES ASSUME NEW n \in Name, ObservedAs(n, appearances) # {}
                   PROVE  canonicals'[n] >= 1
        OBVIOUS
      <3>1. canonicals'[n] = Cardinality(ObservedAs(n, observations))
        BY <1>3 DEF SyncCanonicals
      <3> QED
        BY <3>1, <2>2, CountType
    <2>4. \A n \in Name : canonicals[n] >= 1 => canonicals'[n] >= 1
      BY <1>3, <2>3 DEF SyncCanonicals, TypeOK
    <2>5. \A a \in observations : canonicals'[NameOf[a]] >= 1
      BY <2>2, <2>3, ResolutionAssumption DEF ObservedAs, TypeOK
    <2>6. PassInv'
      BY <1>3, <2>2, <2>5 DEF SyncCanonicals, TypeOK, PassInv
    <2>7. LinkedInv'
      BY <1>3, <2>4 DEF SyncCanonicals, TypeOK, LinkedInv, Link
    <2> QED
      BY <2>1, <2>6, <2>7
  <1>4. ASSUME NEW a \in Appearance, SyncLink(a) PROVE RefreshInv'
    <2>1. TypeOK'
      BY <1>4, ResolutionAssumption DEF SyncLink, SyncedLink, ExactLink, TypeOK, PassInv, Link
    <2>2. PassInv'
      BY <1>4 DEF SyncLink, SyncedLink, ExactLink, TypeOK, PassInv, Link
    <2>3. LinkedInv'
      BY <1>4 DEF SyncLink, SyncedLink, ExactLink, TypeOK, PassInv, LinkedInv, Link
    <2> QED
      BY <2>1, <2>2, <2>3
  <1>5. CASE GenerateCandidates
    <2>1. TypeOK'
      BY <1>5 DEF GenerateCandidates, ScoringBatch, TypeOK, PassInv, PairRow, NoScore
    <2>2. PassInv'
      BY <1>5 DEF GenerateCandidates, ScoringBatch, TypeOK, PassInv, PairRow, NoScore
    <2>3. LinkedInv'
      BY <1>5 DEF GenerateCandidates, ScoringBatch, TypeOK, PassInv, LinkedInv, PairRow, NoScore
    <2> QED
      BY <2>1, <2>2, <2>3
  <1>6. ASSUME NEW p \in Pair, ScorePair(p) PROVE RefreshInv'
    <2>1. TypeOK'
      BY <1>6, ScoreType DEF ScorePair, TypeOK, PassInv, PairRow
    <2>2. PassInv'
      BY <1>6 DEF ScorePair, TypeOK, PassInv, PairRow
    <2>3. LinkedInv'
      BY <1>6 DEF ScorePair, TypeOK, PassInv, LinkedInv, PairRow
    <2> QED
      BY <2>1, <2>2, <2>3
  <1>7. CASE StartMatches
    <2>1. TypeOK'
      BY <1>7 DEF StartMatches, tables, TypeOK, PassInv, Draft
    <2>2. PassInv'
      BY <1>7 DEF StartMatches, tables, TypeOK, PassInv, Draft
    <2>3. LinkedInv'
      BY <1>7 DEF StartMatches, tables, TypeOK, PassInv, LinkedInv, Draft
    <2> QED
      BY <2>1, <2>2, <2>3
  <1>8. ASSUME NEW p \in Pair, ApplyMatch(p) PROVE RefreshInv'
    <2>1. Target(p) \in Name /\ Source(p) \in Name /\ Outranks(Target(p), Source(p))
      BY TargetAndSource DEF TypeOK
    <2>2. canonicals[Source(p)] >= 1 => canonicals[Target(p)] >= 1
      BY <2>1 DEF Outranks, TypeOK
    <2>3. TypeOK'
      <3>1. [entity |-> Target(p), by |-> "match"] \in Link
        BY <2>1 DEF Link
      <3>2. draft'.links \in [Appearance -> Link]
        BY <1>8, <3>1 DEF ApplyMatch, TypeOK, Draft
      <3>3. draft'.pairs \in [Pair -> PairRow]
        BY <1>8 DEF ApplyMatch, TypeOK, Draft, PairRow
      <3>4. draft' = [links |-> draft'.links, pairs |-> draft'.pairs]
        BY <1>8 DEF ApplyMatch, TypeOK, Draft
      <3>5. draft' \in Draft
        BY <3>2, <3>3, <3>4 DEF Draft
      <3> QED
        BY <1>8, <3>5 DEF ApplyMatch, tables, TypeOK
    <2>6. \A a \in Appearance : draft'.links[a].by # "none" <=> draft.links[a].by # "none"
      <3>1. CASE SourceLinks(p) = {}
        BY <1>8, <3>1 DEF ApplyMatch
      <3>2. CASE SourceLinks(p) # {}
        <4>1. draft'.links = [a \in Appearance |-> IF a \in SourceLinks(p)
                                                   THEN [entity |-> Target(p), by |-> "match"]
                                                   ELSE draft.links[a]]
          BY <1>8, <3>2 DEF ApplyMatch
        <4>2. \A a \in SourceLinks(p) : a \in Appearance /\ draft.links[a].by # "none"
          BY DEF SourceLinks
        <4> QED
          BY <4>1, <4>2
      <3> QED
        BY <3>1, <3>2
    <2>4. PassInv'
      BY <1>8, <2>6 DEF ApplyMatch, tables, TypeOK, PassInv
    <2>5. LinkedInv'
      BY <1>8, <2>2 DEF ApplyMatch, tables, TypeOK, LinkedInv, Draft, SourceLinks
    <2> QED
      BY <2>3, <2>4, <2>5
  <1>9. CASE CommitMatches
    <2>1. TypeOK'
      BY <1>9 DEF CommitMatches, TypeOK, PassInv, Draft
    <2>2. PassInv'
      BY <1>9 DEF CommitMatches, TypeOK, PassInv, Draft
    <2>3. LinkedInv'
      BY <1>9 DEF CommitMatches, TypeOK, PassInv, LinkedInv, Draft
    <2> QED
      BY <2>1, <2>2, <2>3
  <1>10. ASSUME NEW i \in DOMAIN Rules, ApplyAlias(i) PROVE RefreshInv'
    <2>1. TypeOK'
      BY <1>10, ResolutionAssumption DEF ApplyAlias, tables, RuleApplies, RuleLinks, TargetExists, TypeOK, PassInv, Draft, Link
    <2>2. PassInv'
      BY <1>10 DEF ApplyAlias, tables, RuleApplies, RuleLinks, TargetExists, TypeOK, PassInv, Draft, Link
    <2>3. LinkedInv'
      BY <1>10 DEF ApplyAlias, tables, RuleApplies, RuleLinks, TargetExists, TypeOK, PassInv, LinkedInv, Draft, Link
    <2> QED
      BY <2>1, <2>2, <2>3
  <1>11. CASE CommitAliases
    <2>1. TypeOK'
      BY <1>11, NothingType DEF CommitAliases, TypeOK, PassInv, Draft
    <2>2. PassInv'
      BY <1>11 DEF CommitAliases, TypeOK, PassInv, Draft
    <2>3. LinkedInv'
      BY <1>11 DEF CommitAliases, TypeOK, PassInv, LinkedInv, Draft
    <2> QED
      BY <2>1, <2>2, <2>3
  <1>12. CASE Crash
    <2>1. TypeOK'
      BY <1>12, NothingType DEF Crash, tables, TypeOK, PassInv
    <2>2. PassInv'
      BY <1>12 DEF Crash, tables, TypeOK, PassInv
    <2>3. LinkedInv'
      BY <1>12 DEF Crash, tables, TypeOK, PassInv, LinkedInv
    <2> QED
      BY <2>1, <2>2, <2>3
  <1>13. ASSUME NEW a \in Appearance, AddAppearance(a) PROVE RefreshInv'
    <2>1. TypeOK'
      BY <1>13 DEF AddAppearance, TypeOK, PassInv
    <2>2. PassInv'
      BY <1>13 DEF AddAppearance, TypeOK, PassInv
    <2>3. LinkedInv'
      BY <1>13 DEF AddAppearance, TypeOK, PassInv, LinkedInv
    <2> QED
      BY <2>1, <2>2, <2>3
  <1>14. ASSUME NEW a \in Appearance, DeleteAppearance(a) PROVE RefreshInv'
    <2>1. TypeOK'
      BY <1>14, ResolutionAssumption DEF DeleteAppearance, NoLink, TypeOK, PassInv, Link
    <2>2. PassInv'
      BY <1>14 DEF DeleteAppearance, NoLink, TypeOK, PassInv, Link
    <2>3. LinkedInv'
      BY <1>14 DEF DeleteAppearance, NoLink, TypeOK, PassInv, LinkedInv, Link
    <2> QED
      BY <2>1, <2>2, <2>3
  <1>15. CASE UNCHANGED vars
    <2>1. TypeOK'
      BY <1>15 DEF vars, tables, TypeOK, PassInv
    <2>2. PassInv'
      BY <1>15 DEF vars, tables, TypeOK, PassInv
    <2>3. LinkedInv'
      BY <1>15 DEF vars, tables, TypeOK, PassInv, LinkedInv
    <2> QED
      BY <2>1, <2>2, <2>3
  <1> QED
    BY <1>1, <1>2, <1>3, <1>4, <1>5, <1>6, <1>7, <1>8, <1>9, <1>10, <1>11, <1>12, <1>13,
       <1>14, <1>15 DEF Next, SyncPersonEntities, ApplyMatches, ApplyAliases

THEOREM RefreshAlways == Spec => []RefreshInv
  <1>1. Init => RefreshInv
    BY RefreshInit
  <1>2. RefreshInv /\ [Next]_vars => RefreshInv'
    BY RefreshStep
  <1> QED
    BY <1>1, <1>2, PTL DEF Spec

\* TypeOK in every reachable state
THEOREM TypeCorrect == Spec => []TypeOK
  BY RefreshAlways, PTL DEF RefreshInv

\* Whatever a refresh leaves behind when it dies, the next one links every
\* appearance, and no link leads to an entity that does not exist
THEOREM LinkedAlways == Spec => []AppearancesAreLinked
  <1>1. RefreshInv => AppearancesAreLinked
    BY DEF RefreshInv, TypeOK, PassInv, LinkedInv, AppearancesAreLinked
  <1> QED
    BY <1>1, RefreshAlways, PTL

----------------------------------------------------------------------------
(* Groups and people *)

RulesAgree == \A i \in DOMAIN Rules : Kind[Rules[i].alias] = Kind[Rules[i].target]

\* A score that reaches the threshold passed the guards, and an open transaction
\* works on such pairs alone
KindsInv ==
  /\ \A a \in Appearance : Kind[links[a].entity] = Kind[NameOf[a]]
  /\ \A p \in Pair : pairs[p].score >= MinScore => \A m, n \in p : Kind[m] = Kind[n]
  /\ pc = "match" => /\ \A p \in todo : \A m, n \in p : Kind[m] = Kind[n]
                     /\ \A p \in Pair : draft.pairs[p].score = pairs[p].score
  /\ pc \in {"match", "alias"} => \A a \in Appearance : Kind[draft.links[a].entity] = Kind[NameOf[a]]

LEMMA KindsInit == Init => KindsInv
  <1>1. MinScore \in Nat /\ ~(NoScore >= MinScore)
    BY ResolutionAssumption DEF Score, NoScore, LowScore
  <1>2. Init => \A a \in Appearance : links[a].entity = NameOf[a]
    BY DEF Init, Nothing, NoLink
  <1>3. Init => \A p \in Pair : pairs[p].score = NoScore
    BY DEF Init, Nothing, NoPair
  <1> QED
    BY <1>1, <1>2, <1>3 DEF Init, KindsInv

LEMMA KindsStep ==
  ASSUME RulesAgree, RefreshInv, KindsInv, [Next]_vars
  PROVE  KindsInv'
  <1> USE DEF RefreshInv
  <1>0. MinScore \in Nat /\ MinScore > LowScore
    BY ResolutionAssumption DEF Score, LowScore
  <1>1. CASE StartRefresh
    BY <1>1 DEF StartRefresh, tables, KindsInv
  <1>2. ASSUME NEW a \in Appearance, SyncObservation(a) PROVE KindsInv'
    BY <1>2 DEF SyncObservation, KindsInv
  <1>3. CASE SyncCanonicals
    BY <1>3 DEF SyncCanonicals, KindsInv
  <1>4. ASSUME NEW a \in Appearance, SyncLink(a) PROVE KindsInv'
    BY <1>4 DEF SyncLink, SyncedLink, ExactLink, KindsInv, TypeOK
  <1>5. CASE GenerateCandidates
    BY <1>0, <1>5 DEF GenerateCandidates, KindsInv, NoScore, LowScore
  <1>6. ASSUME NEW p \in Pair, ScorePair(p) PROVE KindsInv'
    <2>1. PICK score \in Score : pairs' = [pairs EXCEPT ![p].score = Guarded(p, score)]
      BY <1>6 DEF ScorePair
    <2>2. Guarded(p, score) >= MinScore => \A m, n \in p : Kind[m] = Kind[n]
      BY <1>0 DEF Guarded, LowScore
    <2>3. \A q \in Pair : pairs'[q].score >= MinScore => \A m, n \in q : Kind[m] = Kind[n]
      BY <2>1, <2>2 DEF KindsInv, TypeOK, PairRow
    <2> QED
      BY <1>6, <2>3 DEF ScorePair, KindsInv
  <1>7. CASE StartMatches
    BY <1>7 DEF StartMatches, tables, KindsInv
  <1>8. ASSUME NEW p \in Pair, ApplyMatch(p) PROVE KindsInv'
    <2>1. Target(p) \in p /\ Source(p) \in p
      BY TargetAndSource DEF TypeOK
    <2>2. Kind[Target(p)] = Kind[Source(p)]
      BY <1>8, <2>1 DEF ApplyMatch, KindsInv
    <2>3. \A a \in Appearance : Kind[draft'.links[a].entity] = Kind[NameOf[a]]
      <3>1. CASE SourceLinks(p) = {}
        BY <1>8, <3>1 DEF ApplyMatch, KindsInv
      <3>2. CASE SourceLinks(p) # {}
        <4>1. draft'.links = [a \in Appearance |-> IF a \in SourceLinks(p)
                                                   THEN [entity |-> Target(p), by |-> "match"]
                                                   ELSE draft.links[a]]
          BY <1>8, <3>2 DEF ApplyMatch
        <4>2. \A a \in SourceLinks(p) : a \in Appearance /\ draft.links[a].entity = Source(p)
          BY DEF SourceLinks
        <4>3. \A a \in Appearance : Kind[draft.links[a].entity] = Kind[NameOf[a]]
          BY <1>8 DEF ApplyMatch, KindsInv
        <4> QED
          BY <2>2, <4>1, <4>2, <4>3
      <3> QED
        BY <3>1, <3>2
    <2>4. \A q \in Pair : draft'.pairs[q].score = pairs[q].score
      BY <1>8 DEF ApplyMatch, KindsInv, TypeOK, Draft, PairRow
    <2> QED
      BY <1>8, <2>3, <2>4 DEF ApplyMatch, tables, KindsInv
  <1>9. CASE CommitMatches
    BY <1>9 DEF CommitMatches, KindsInv
  <1>10. ASSUME NEW i \in DOMAIN Rules, ApplyAlias(i) PROVE KindsInv'
    <2>1. \A a \in RuleLinks(Rules[i]) : Kind[Rules[i].target] = Kind[NameOf[a]]
      BY DEF RulesAgree, RuleLinks
    <2>2. \A a \in Appearance : Kind[draft'.links[a].entity] = Kind[NameOf[a]]
      BY <1>10, <2>1 DEF ApplyAlias, KindsInv, TypeOK, Draft
    <2> QED
      BY <1>10, <2>2 DEF ApplyAlias, tables, KindsInv
  <1>11. CASE CommitAliases
    BY <1>11 DEF CommitAliases, KindsInv
  <1>12. CASE Crash
    BY <1>12 DEF Crash, tables, KindsInv
  <1>13. ASSUME NEW a \in Appearance, AddAppearance(a) PROVE KindsInv'
    BY <1>13 DEF AddAppearance, KindsInv
  <1>14. ASSUME NEW a \in Appearance, DeleteAppearance(a) PROVE KindsInv'
    BY <1>14 DEF DeleteAppearance, NoLink, KindsInv, TypeOK
  <1>15. CASE UNCHANGED vars
    BY <1>15 DEF vars, tables, KindsInv
  <1> QED
    BY <1>1, <1>2, <1>3, <1>4, <1>5, <1>6, <1>7, <1>8, <1>9, <1>10, <1>11, <1>12, <1>13,
       <1>14, <1>15 DEF Next, SyncPersonEntities, ApplyMatches, ApplyAliases

\* No chain of matches and aliases puts a group together with a person or with
\* another group, whatever the model's scores
THEOREM KindsAlways == Spec => []KindsStayApart
  <1>1. CASE RulesAgree
    <2>1. Init => KindsInv
      BY KindsInit
    <2>2. RefreshInv /\ KindsInv /\ [Next]_vars => KindsInv'
      BY <1>1, KindsStep
    <2>3. KindsInv => KindsStayApart
      BY DEF KindsInv, KindsStayApart
    <2> QED
      BY <2>1, <2>2, <2>3, RefreshAlways, PTL DEF Spec
  <1>2. CASE ~RulesAgree
    <2>1. KindsStayApart
      BY <1>2 DEF RulesAgree, KindsStayApart
    <2> QED
      BY <2>1, PTL
  <1> QED
    BY <1>1, <1>2

----------------------------------------------------------------------------
(* Matches *)

\* What a pass has moved so far, it has moved up
UpInv ==
  pc = "match" =>
    \A a \in Appearance : \/ draft.links[a].entity = links[a].entity
                          \/ Outranks(draft.links[a].entity, links[a].entity)

LEMMA UpStep ==
  ASSUME RefreshInv, RefreshInv', UpInv, [Next]_vars
  PROVE  UpInv'
  <1> USE DEF RefreshInv
  <1>1. ASSUME NEW p \in Pair, ApplyMatch(p) PROVE UpInv'
    <2>1. Target(p) \in Name /\ Source(p) \in Name /\ Outranks(Target(p), Source(p))
      BY TargetAndSource DEF TypeOK
    <2> SUFFICES ASSUME NEW a \in Appearance
                 PROVE  \/ draft'.links[a].entity = links[a].entity
                        \/ Outranks(draft'.links[a].entity, links[a].entity)
      BY <1>1 DEF ApplyMatch, tables, UpInv, Outranks
    <2>2. draft.links[a].entity \in Name /\ links[a].entity \in Name
      BY DEF TypeOK, Draft, Link
    <2>3. \/ draft.links[a].entity = links[a].entity
          \/ Outranks(draft.links[a].entity, links[a].entity)
      BY <1>1 DEF ApplyMatch, UpInv
    <2>4. \/ draft'.links[a].entity = draft.links[a].entity
          \/ draft'.links[a].entity = Target(p) /\ draft.links[a].entity = Source(p)
      <3>1. CASE SourceLinks(p) = {}
        BY <1>1, <3>1 DEF ApplyMatch
      <3>2. CASE SourceLinks(p) # {}
        <4>1. draft'.links = [b \in Appearance |-> IF b \in SourceLinks(p)
                                                   THEN [entity |-> Target(p), by |-> "match"]
                                                   ELSE draft.links[b]]
          BY <1>1, <3>2 DEF ApplyMatch
        <4> QED
          BY <4>1 DEF SourceLinks
      <3> QED
        BY <3>1, <3>2
    <2> QED
      BY <2>1, <2>2, <2>3, <2>4, OutranksTransitive DEF TypeOK
  <1>2. CASE StartMatches
    BY <1>2 DEF StartMatches, tables, UpInv
  <1>3. CASE UNCHANGED vars
    BY <1>3 DEF vars, tables, UpInv, Outranks
  <1>4. ASSUME NEW a \in Appearance,
               \/ SyncObservation(a) \/ SyncLink(a) \/ AddAppearance(a) \/ DeleteAppearance(a)
        PROVE  UpInv'
    BY <1>4 DEF SyncObservation, SyncLink, AddAppearance, DeleteAppearance, UpInv
  <1>5. CASE StartRefresh \/ SyncCanonicals \/ GenerateCandidates \/ CommitMatches
             \/ CommitAliases \/ Crash
    BY <1>5 DEF StartRefresh, SyncCanonicals, GenerateCandidates, CommitMatches, CommitAliases,
                Crash, UpInv
  <1>6. ASSUME NEW p \in Pair, ScorePair(p) PROVE UpInv'
    BY <1>6 DEF ScorePair, UpInv
  <1>7. ASSUME NEW i \in DOMAIN Rules, ApplyAlias(i) PROVE UpInv'
    BY <1>7 DEF ApplyAlias, tables, UpInv
  <1> QED
    BY <1>1, <1>2, <1>3, <1>4, <1>5, <1>6, <1>7
       DEF Next, SyncPersonEntities, ApplyMatches, ApplyAliases

\* No pass of matches moves an observation to an entity that its own entity
\* outranks, through however many pairs
THEOREM MatchesMoveUpAlways == Spec => MatchesMoveUp
  <1>1. Init => UpInv
    BY DEF Init, UpInv
  <1>2. RefreshInv /\ RefreshInv' /\ UpInv /\ [Next]_vars => UpInv'
    BY UpStep
  <1>3. ASSUME RefreshInv, UpInv, [Next]_vars, pc = "match", NEW a \in Appearance,
               links'[a].entity # links[a].entity
        PROVE  Outranks(links'[a].entity, links[a].entity)
    <2>1. \/ CommitMatches \/ (\E p \in Pair : ApplyMatch(p)) \/ Crash \/ UNCHANGED vars
      BY <1>3 DEF Next, SyncPersonEntities, ApplyMatches, ApplyAliases, StartRefresh,
           SyncObservation, SyncLink, SyncCanonicals, GenerateCandidates, ScorePair, StartMatches,
           CommitAliases, ApplyAlias, AddAppearance, DeleteAppearance
    <2>2. CommitMatches
      BY <1>3, <2>1 DEF ApplyMatch, Crash, vars, tables
    <2> QED
      BY <1>3, <2>2 DEF CommitMatches, UpInv
  <1>4. RefreshInv /\ UpInv /\ [Next]_vars =>
          [\A a \in Appearance :
             /\ pc = "match"
             /\ links'[a].entity # links[a].entity
             => Outranks(links'[a].entity, links[a].entity)]_vars
    BY <1>3
  <1> QED
    BY <1>1, <1>2, <1>4, RefreshAlways, PTL DEF Spec, MatchesMoveUp

\* A link that was matched stays where it is, also when the appearances are
\* synced again
THEOREM MatchesPreserved == Spec => MatchesArePreserved
  <1>1. ASSUME TypeOK, [Next]_vars, NEW a \in Appearance, links[a].by \in {"match", "alias"},
               links'[a] # links[a]
        PROVE  pc \in {"match", "alias"} \/ a \notin appearances'
    <2>1. ASSUME NEW b \in Appearance, SyncLink(b) PROVE FALSE
      BY <1>1, <2>1 DEF SyncLink, SyncedLink, TypeOK
    <2>2. ASSUME NEW b \in Appearance, DeleteAppearance(b) PROVE a \notin appearances'
      BY <1>1, <2>2 DEF DeleteAppearance, TypeOK
    <2> QED
      BY <1>1, <2>1, <2>2 DEF Next, SyncPersonEntities, ApplyMatches, ApplyAliases, StartRefresh,
           SyncObservation, SyncCanonicals, GenerateCandidates, ScorePair, StartMatches,
           ApplyMatch, CommitMatches, CommitAliases, ApplyAlias, AddAppearance, Crash, vars, tables
  <1>2. TypeOK /\ [Next]_vars =>
          [\A a \in Appearance :
             /\ links[a].by \in {"match", "alias"}
             /\ links'[a] # links[a]
             => pc \in {"match", "alias"} \/ a \notin appearances']_vars
    BY <1>1
  <1> QED
    BY <1>2, TypeCorrect, PTL DEF Spec, MatchesArePreserved

===============================================================================
