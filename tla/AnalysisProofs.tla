--------------------------- MODULE AnalysisProofs ---------------------------
(***************************************************************************)
(* Theorems of Analysis, for any catalog, any number of processes, options *)
(* and weeks, and wherever a command is killed: weeks without gaps, whole  *)
(* metrics, growth that adds up, and what the files of the future-link     *)
(* commands hold.  Sums, sorted sequences, distances and heaps are reasoned*)
(* about through the smallest counterexample.                              *)
(***************************************************************************)
EXTENDS Analysis, FiniteSetTheorems, WellFoundedInduction, TLAPS

----------------------------------------------------------------------------
(* Numbers, orders and weeks *)

\* A set of numbers that is not empty has a least one
LEMMA LeastNatural ==
  ASSUME NEW S \in SUBSET Nat, S # {}
  PROVE  \E n \in S : \A m \in S : n <= m
  <1> DEFINE R == OpToRel(<, Nat)
  <1>1. IsWellFoundedOn(R, Nat)
    BY NatLessThanWellFounded
  <1>2. \A m, n \in Nat : m < n => <<m, n>> \in R
    BY DEF OpToRel
  <1> HIDE DEF R
  <1>3. PICK n \in S : \A m \in S : ~ (<<m, n>> \in R)
    BY <1>1, WFMin
  <1>4. \A m \in S : ~ (m < n)
    BY <1>2, <1>3, Zenon
  <1> QED
    BY <1>4

\* ... and a finite one has a greatest one
LEMMA GreatestOfFinite ==
  ASSUME NEW S \in SUBSET Nat, S # {}, IsFiniteSet(S)
  PROVE  \E n \in S : \A m \in S : n >= m
  <1> DEFINE Topless(T) == T # {} /\ ~ \E n \in T : \A m \in T : n >= m
             K == {k \in Nat : \E T \in SUBSET S : Topless(T) /\ Cardinality(T) = k}
  <1>1. SUFFICES ASSUME Topless(S) PROVE FALSE
    OBVIOUS
  <1>2. Cardinality(S) \in K
    BY <1>1, FS_CardinalityType
  <1> HIDE DEF K
  <1>3. PICK k \in K : \A j \in K : k <= j
    <2>1. K \in SUBSET Nat
      BY DEF K
    <2> QED
      BY <1>2, <2>1, LeastNatural
  <1>4. PICK T \in SUBSET S : Topless(T) /\ Cardinality(T) = k
    BY DEF K
  <1>5. PICK x \in T : TRUE
    BY <1>4
  <1>6. /\ IsFiniteSet(T) /\ IsFiniteSet(T \ {x}) /\ k \in Nat
        /\ Cardinality(T \ {x}) = k - 1
    BY <1>4, <1>5, FS_Subset, FS_RemoveElement, FS_CardinalityType
  <1>7. T \ {x} # {}
    BY <1>4, <1>5
  <1>8. ~ Topless(T \ {x})
    <2>1. SUFFICES ASSUME Topless(T \ {x}) PROVE k - 1 \in K
      BY <1>3, <1>6
    <2>2. k - 1 \in Nat
      BY <1>6, FS_CardinalityType
    <2> QED
      BY <1>6, <2>1, <2>2 DEF K
  <1>9. PICK y \in T \ {x} : \A m \in T \ {x} : y >= m
    BY <1>7, <1>8
  <1>10. x \in Nat /\ y \in Nat
    OBVIOUS
  <1> QED
    BY <1>4, <1>5, <1>9, <1>10

LEMMA MaxIsGreatest ==
  ASSUME NEW S \in SUBSET Nat, S # {}, IsFiniteSet(S)
  PROVE  Max(S) \in S /\ \A m \in S : Max(S) >= m
  BY GreatestOfFinite DEF Max

LEMMA MinIsLeast ==
  ASSUME NEW S \in SUBSET Nat, S # {}
  PROVE  Min(S) \in S /\ \A m \in S : Min(S) <= m
  BY LeastNatural DEF Min

\* R orders the members of S one after another
IsOrder(R, S) ==
  /\ \A x, y \in S : x # y => <<x, y>> \in R \/ <<y, x>> \in R
  /\ \A x, y, z \in S : <<x, y>> \in R /\ <<y, z>> \in R => <<x, z>> \in R
  /\ \A x \in S : <<x, x>> \notin R

\* The place of x in S: as many come first, and it
Ahead(R, S, x) == {y \in S : <<y, x>> \in R}
Place(R, S, x) == Cardinality(Ahead(R, S, x)) + 1

LEMMA PlacesFollowOrder ==
  ASSUME NEW S, NEW R, IsFiniteSet(S), IsOrder(R, S), NEW x \in S, NEW y \in S
  PROVE  /\ Place(R, S, x) \in 1..Cardinality(S)
         /\ <<x, y>> \in R <=> Place(R, S, x) < Place(R, S, y)
  <1>1. ASSUME NEW z \in S
        PROVE  /\ IsFiniteSet(Ahead(R, S, z))
               /\ Cardinality(Ahead(R, S, z)) \in Nat
               /\ Cardinality(Ahead(R, S, z)) < Cardinality(S)
    <2>1. Ahead(R, S, z) \subseteq S \ {z}
      BY <1>1 DEF Ahead, IsOrder
    <2>2. IsFiniteSet(S \ {z}) /\ Cardinality(S \ {z}) = Cardinality(S) - 1
      BY <1>1, FS_RemoveElement
    <2>3. IsFiniteSet(Ahead(R, S, z)) /\ Cardinality(Ahead(R, S, z)) <= Cardinality(S \ {z})
      BY <2>1, <2>2, FS_Subset
    <2> QED
      BY <2>2, <2>3, FS_CardinalityType
  <1>2. ASSUME NEW a \in S, NEW b \in S, <<a, b>> \in R
        PROVE  Cardinality(Ahead(R, S, a)) < Cardinality(Ahead(R, S, b))
    <2>1. Ahead(R, S, a) \subseteq Ahead(R, S, b)
      BY <1>2 DEF Ahead, IsOrder
    <2>2. a \in Ahead(R, S, b) /\ a \notin Ahead(R, S, a)
      BY <1>2 DEF Ahead, IsOrder
    <2>3. /\ Cardinality(Ahead(R, S, a)) <= Cardinality(Ahead(R, S, b))
          /\ Cardinality(Ahead(R, S, b)) # Cardinality(Ahead(R, S, a))
      BY <1>1, <2>1, <2>2, FS_Subset
    <2> QED
      BY <1>1, <2>3
  <1>3. CASE x = y
    BY <1>1, <1>3, FS_CardinalityType DEF Place, IsOrder
  <1>4. CASE x # y
    <2>1. <<x, y>> \in R \/ <<y, x>> \in R
      BY <1>4 DEF IsOrder
    <2>2. ~ (<<x, y>> \in R /\ <<y, x>> \in R)
      BY DEF IsOrder
    <2> QED
      BY <1>1, <1>2, <2>1, <2>2, FS_CardinalityType DEF Place
  <1> QED
    BY <1>3, <1>4

LEMMA EveryPlaceIsTaken ==
  ASSUME NEW S, NEW R, IsFiniteSet(S), IsOrder(R, S), NEW i \in 1..Cardinality(S)
  PROVE  \E x \in S : Place(R, S, x) = i
  <1> DEFINE place == [x \in S |-> Place(R, S, x)]
             T == 1..Cardinality(S)
  <1>1. Cardinality(S) \in Nat
    BY FS_CardinalityType
  <1>2. IsFiniteSet(T) /\ Cardinality(T) = Cardinality(S)
    BY <1>1, FS_Interval
  <1>3. place \in [S -> T]
    BY PlacesFollowOrder
  <1>4. \A x, y \in S : place[x] = place[y] => x = y
    <2>1. SUFFICES ASSUME NEW x \in S, NEW y \in S, x # y, Place(R, S, x) = Place(R, S, y)
                   PROVE  FALSE
      OBVIOUS
    <2>2. <<x, y>> \in R \/ <<y, x>> \in R
      BY <2>1 DEF IsOrder
    <2> QED
      BY <1>1, <2>1, <2>2, PlacesFollowOrder
  <1>5. place \in Injection(S, T)
    BY <1>3, <1>4 DEF Injection, IsInjective
  <1>6. place \in Surjection(S, T)
    BY <1>2, <1>5, FS_Injection
  <1>7. \E x \in S : place[x] = i
    BY <1>6 DEF Surjection
  <1> QED
    BY <1>7

Places(R, S) == {<<Place(R, S, x), x>> : x \in S}

\* s is the members of S in the order R
SortedBy(s, S, R) ==
  /\ s \in [1..Cardinality(S) -> S]
  /\ \A x \in S : \E i \in 1..Cardinality(S) : s[i] = x
  /\ \A i, j \in 1..Cardinality(S) : i < j <=> <<s[i], s[j]>> \in R

\* InOrder sorts
LEMMA PlacedIsSorted ==
  ASSUME NEW S, NEW R, IsFiniteSet(S), IsOrder(R, S),
         NEW placed, placed = Places(R, S)
  PROVE  SortedBy([i \in 1..Cardinality(S) |->
                     (CHOOSE entry \in placed : entry[1] = i)[2]], S, R)
  <1> DEFINE n == Cardinality(S)
             at(i) == CHOOSE entry \in placed : entry[1] = i
             s == [i \in 1..n |-> at(i)[2]]
  <1>0. n \in Nat
    BY FS_CardinalityType
  <1>1. placed = {<<Place(R, S, x), x>> : x \in S}
    BY DEF Places
  <1>2. ASSUME NEW i \in 1..n
        PROVE  at(i)[2] \in S /\ Place(R, S, at(i)[2]) = i
    <2>1. PICK x \in S : Place(R, S, x) = i
      BY EveryPlaceIsTaken
    <2>2. <<Place(R, S, x), x>> \in placed
      BY <1>1
    <2>3. <<Place(R, S, x), x>>[1] = i
      BY <2>1
    <2>4. at(i) \in placed /\ at(i)[1] = i
      BY <2>2, <2>3
    <2> HIDE DEF at
    <2>5. PICK z \in S : at(i) = <<Place(R, S, z), z>>
      BY <1>1, <2>4
    <2> QED
      BY <2>4, <2>5
  <1>3. ASSUME NEW x \in S, NEW y \in S, Place(R, S, x) = Place(R, S, y)
        PROVE  x = y
    <2>1. x # y => <<x, y>> \in R \/ <<y, x>> \in R
      BY DEF IsOrder
    <2> QED
      BY <1>0, <1>3, <2>1, PlacesFollowOrder
  <1>4. s \in [1..n -> S] /\ \A i \in 1..n : Place(R, S, s[i]) = i
    BY <1>2
  <1> HIDE DEF s, at
  <1>5. ASSUME NEW x \in S PROVE \E i \in 1..n : s[i] = x
    <2>1. Place(R, S, x) \in 1..n
      BY PlacesFollowOrder
    <2> QED
      BY <1>3, <1>4, <2>1
  <1>6. ASSUME NEW i \in 1..n, NEW j \in 1..n
        PROVE  i < j <=> <<s[i], s[j]>> \in R
    <2>1. s[i] \in S /\ s[j] \in S
      BY <1>4
    <2> QED
      BY <1>4, <2>1, PlacesFollowOrder
  <1>7. SortedBy(s, S, R)
    BY <1>4, <1>5, <1>6 DEF SortedBy
  <1> QED
    BY <1>7 DEF s, at

\* The numbers of an interval in their order
LEMMA SortedInterval ==
  ASSUME NEW a \in Int, NEW b \in Int, NEW S, S = a..b, NEW R,
         \A x, y \in S : <<x, y>> \in R <=> x < y,
         NEW s, SortedBy(s, S, R), NEW i \in 1..Cardinality(S)
  PROVE  s[i] = a + i - 1
  <1> DEFINE n == Cardinality(S)
             Wrong == {j \in 1..n : s[j] # a + j - 1}
  <1>1. n \in Nat /\ (n > 0 => n = b - a + 1)
    <2>1. n = IF a > b THEN 0 ELSE b - a + 1
      BY FS_Interval
    <2> HIDE DEF n
    <2> QED
      BY <2>1
  <1>2. SUFFICES ASSUME Wrong # {} PROVE FALSE
    OBVIOUS
  <1>3. PICK k \in Wrong : \A m \in Wrong : k <= m
    <2>1. Wrong \in SUBSET Nat
      BY <1>1
    <2> HIDE DEF Wrong
    <2> QED
      BY <1>2, <2>1, LeastNatural
  <1>4. k \in 1..n /\ s[k] # a + k - 1 /\ \A j \in 1..n : j < k => s[j] = a + j - 1
    BY <1>1, <1>3
  <1>5. a + k - 1 \in S
    BY <1>1, <1>4
  <1>6. PICK m \in 1..n : s[m] = a + k - 1
    BY <1>5 DEF SortedBy
  <1>7. k < m
    BY <1>1, <1>4, <1>6
  <1>8. s[k] \in a..b /\ s[k] < a + k - 1
    <2>1. s[k] \in S /\ s[m] \in S /\ <<s[k], s[m]>> \in R
      BY <1>4, <1>7 DEF SortedBy
    <2>2. s[k] < s[m]
      BY <2>1
    <2> QED
      BY <1>6, <2>1, <2>2
  <1>9. s[k] - a + 1 \in 1..n /\ s[k] - a + 1 < k
    BY <1>1, <1>4, <1>8
  <1>10. s[s[k] - a + 1] = s[k]
    BY <1>4, <1>8, <1>9
  <1>11. s[s[k] - a + 1] < s[k]
    <2> DEFINE j == s[k] - a + 1
    <2>1. j \in 1..n /\ j < k
      BY <1>9
    <2> HIDE DEF j
    <2>2. s[j] \in S /\ s[k] \in S /\ <<s[j], s[k]>> \in R
      BY <1>4, <2>1 DEF SortedBy
    <2>3. s[j] < s[k]
      BY <2>2
    <2> QED
      BY <2>3 DEF j
  <1> QED
    BY <1>8, <1>10, <1>11

---------------------------------------------------------------------------

LEMMA EpisodeWeekIsWeek ==
  ASSUME ingested \subseteq Episode
  PROVE  EpisodeWeeks \subseteq Weeks
  <1>1. \A n \in Nat, k \in Nat \ {0} : n \div k \in Nat
    OBVIOUS
  <1>2. \A e \in Episode : Published[e] \in Nat
    BY FutureLinksAssumption
  <1>3. \A e \in Episode : Published[e] \div Week \in Nat /\ Published[e] \div Week <= LastWeek
    BY <1>1, <1>2, AnalysisAssumption
  <1> QED
    BY <1>3, AnalysisAssumption DEF EpisodeWeeks, WeekFloor, Weeks

LEMMA WeeksAreFinite ==
  ASSUME NEW S \in SUBSET Weeks
  PROVE  IsFiniteSet(S) /\ S \in SUBSET Nat
  <1>1. S \in SUBSET Nat /\ LastWeek \in Nat /\ \A s \in S : s <= LastWeek
    BY AnalysisAssumption DEF Weeks
  <1> QED
    BY <1>1, FS_BoundedSetOfNaturals

\* The week a run begins with
LEMMA StartOfRun ==
  ASSUME ingested \subseteq Episode, NEW o
  PROVE  /\ EvolutionStart(o) \in 0..NoWeek
         /\ \/ EvolutionStart(o) = NoWeek
            \/ o.bootstrap
            \/ EvolutionStart(o) - 1 \in Stored
         /\ o.recompute \/ EvolutionStart(o) = NoWeek
              \/ \A w \in Stored : w < EvolutionStart(o)
  <1>1. LastWeek \in Nat /\ Weeks = 0..LastWeek /\ NoWeek = LastWeek + 1
    BY AnalysisAssumption DEF Weeks, NoWeek
  <1>2. Stored # {} => Max(Stored) \in Stored /\ Max(Stored) \in Weeks /\ \A w \in Stored : w <= Max(Stored)
    <2>1. Stored \in SUBSET Weeks
      BY DEF Stored
    <2>2. IsFiniteSet(Stored) /\ Stored \in SUBSET Nat
      BY <2>1, WeeksAreFinite
    <2> HIDE DEF Stored
    <2>3. Stored # {} => Max(Stored) \in Stored /\ \A w \in Stored : Max(Stored) >= w
      BY <2>2, MaxIsGreatest
    <2> QED
      BY <2>1, <2>2, <2>3
  <1>3. EpisodeWeeks # {} => Min(EpisodeWeeks) \in Weeks
    <2>1. EpisodeWeeks \in SUBSET Weeks
      BY EpisodeWeekIsWeek
    <2>2. EpisodeWeeks \in SUBSET Nat
      BY <2>1, WeeksAreFinite
    <2>3. EpisodeWeeks # {} => Min(EpisodeWeeks) \in EpisodeWeeks
      BY <2>2, MinIsLeast
    <2> QED
      BY <2>1, <2>3
  <1>4. \A w \in Stored : w \in Weeks
    BY DEF Stored
  <1> QED
    BY <1>1, <1>2, <1>3, <1>4 DEF EvolutionStart

\* The weeks of a run are an interval
LEMMA WeeksOfRun ==
  ASSUME ingested \subseteq Episode, NEW o \in [bootstrap : BOOLEAN, recompute : BOOLEAN, max : Nat],
         NEW ws, ws = MissingEvolutionWeeks(o)
  PROVE  /\ ws \in Seq(Weeks)
         /\ \A i \in 1..Len(ws) : ws[i] = EvolutionStart(o) + i - 1
         /\ ws # <<>> => /\ EvolutionStart(o) \in Weeks
                         /\ o.bootstrap \/ EvolutionStart(o) - 1 \in Stored
  <1> DEFINE start == EvolutionStart(o)
             through == IF EpisodeWeeks = {} THEN 0 ELSE Max(EpisodeWeeks)
             wanted == {w \in Weeks : /\ start <= w
                                      /\ w <= through
                                      /\ o.recompute \/ w \notin Stored}
             R == {xy \in wanted \X wanted : xy[1] < xy[2]}
             placed == {<<Cardinality({y \in wanted : y < x}) + 1, x>> : x \in wanted}
             n == Cardinality(wanted)
             order == [i \in 1..n |-> (CHOOSE entry \in placed : entry[1] = i)[2]]
  <1>1. LastWeek \in Nat /\ Weeks = 0..LastWeek /\ NoWeek = LastWeek + 1
    BY AnalysisAssumption DEF Weeks, NoWeek
  <1>2. start \in 0..NoWeek /\ (start = NoWeek \/ o.bootstrap \/ start - 1 \in Stored)
        /\ (o.recompute \/ start = NoWeek \/ \A w \in Stored : w < start)
    BY StartOfRun
  <1>3. through \in 0..LastWeek
    <2>1. EpisodeWeeks \in SUBSET Weeks
      BY EpisodeWeekIsWeek
    <2>2. EpisodeWeeks \in SUBSET Nat /\ IsFiniteSet(EpisodeWeeks)
      BY <2>1, WeeksAreFinite
    <2>3. EpisodeWeeks # {} => Max(EpisodeWeeks) \in EpisodeWeeks
      BY <2>2, MaxIsGreatest
    <2>4. CASE EpisodeWeeks = {}
      BY <1>1, <2>4
    <2>5. CASE EpisodeWeeks # {}
      BY <1>1, <2>1, <2>3, <2>5
    <2> QED
      BY <2>4, <2>5
  <1>4. Stored \subseteq Weeks
    BY DEF Stored
  <1> HIDE DEF start, through
  <1>5. wanted = start..through
    BY <1>1, <1>2, <1>3, <1>4
  <1>6. ws = IF o.max > 0 /\ o.max < Len(order) THEN SubSeq(order, 1, o.max) ELSE order
    BY DEF MissingEvolutionWeeks, InOrder, start, through
  <1>7. SortedBy(order, wanted, R)
    <2>1. IsFiniteSet(wanted) /\ wanted \in SUBSET Nat
      BY WeeksAreFinite
    <2>2. \A x, y \in wanted : <<x, y>> \in R <=> x < y
      OBVIOUS
    <2>3. IsOrder(R, wanted)
      BY <2>1, <2>2 DEF IsOrder
    <2>4. placed = Places(R, wanted)
      <3>1. \A x \in wanted : {y \in wanted : y < x} = Ahead(R, wanted, x)
        BY <2>2 DEF Ahead
      <3> HIDE DEF R, wanted
      <3> QED
        BY <3>1 DEF Places, Place
    <2> HIDE DEF placed, R, wanted
    <2>5. SortedBy([i \in 1..Cardinality(wanted) |->
                      (CHOOSE entry \in placed : entry[1] = i)[2]], wanted, R)
      BY <2>1, <2>3, <2>4, PlacedIsSorted
    <2> QED
      BY <2>5
  <1>8. \A x, y \in wanted : <<x, y>> \in R <=> x < y
    OBVIOUS
  <1>9. n \in Nat
    <2>1. IsFiniteSet(wanted)
      BY WeeksAreFinite
    <2> HIDE DEF wanted
    <2> QED
      BY <2>1, FS_CardinalityType
  <1> HIDE DEF wanted, R, order
  <1>10. \A i \in 1..n : order[i] = start + i - 1
    BY <1>1, <1>2, <1>3, <1>5, <1>7, <1>8, SortedInterval
  <1>11. order \in [1..n -> wanted]
    BY <1>7 DEF SortedBy
  <1>12. wanted \subseteq Weeks
    BY DEF wanted
  <1>13. order \in Seq(Weeks) /\ Len(order) = n
    BY <1>9, <1>11, <1>12
  <1>14. o.max \in Nat
    OBVIOUS
  <1>15. ws \in Seq(Weeks) /\ Len(ws) <= n /\ Len(ws) \in Nat
         /\ \A i \in 1..Len(ws) : ws[i] = order[i]
    BY <1>6, <1>9, <1>13, <1>14
  <1>16. ws # <<>> => start \in wanted
    <2>1. ws # <<>> => 1 \in 1..Len(ws)
      BY <1>15
    <2>2. ws # <<>> => order[1] = start /\ order[1] \in wanted
      BY <1>1, <1>2, <1>9, <1>10, <1>11, <1>15, <2>1, SMTT(30)
    <2> QED
      BY <2>2
  <1>17. start \in wanted => start # NoWeek /\ start \in Weeks
    BY <1>1, <1>12
  <1> QED
    BY <1>2, <1>9, <1>10, <1>15, <1>16, <1>17 DEF start

----------------------------------------------------------------------------
(* Shapes *)

Labels ==
  {"idle", "metric_graphs", "person_metrics", "podcast_metrics", "metric_status",
   "missing_weeks", "week", "week_saved", "context", "save_predictions",
   "audit_history", "audit_context", "save_audit", "baseline",
   "labels_of_dataset", "dataset", "labels_of_matrix", "matrix"}

Status == {"running", "succeeded", "failed", "skipped", "deleted"}

Locals ==
  [run : Nat, option : [bootstrap : BOOLEAN, recompute : BOOLEAN, max : Nat],
   weeks : Seq(Weeks), calculated : Nat, id : RunId \cup {"none"}, cutoff : Int,
   seen : SUBSET Episode, context : SUBSET Episode,
   future : SUBSET (Podcast \X Person), due : Int]

EvolutionRow == [status : Status, calculated : Nat, start : 0..NoWeek, bootstrap : BOOLEAN]

MetricRow ==
  [status : Status, finished : Nat, seen : SUBSET Episode,
   people : {Unwritten} \cup {PersonRows(E, PeopleOf(E)) : E \in SUBSET Episode},
   podcasts : {Unwritten} \cup {PodcastRows(E) : E \in SUBSET Episode}]

\* Labels between which a command stands, with a row of its table
MetricsAt == MetricPhases
EvolutionAt == {"missing_weeks", "week", "week_saved"}

\* Every variable has its type, and a command in the middle of a run has a row
\* of its table and the weeks still to come
Shapes ==
  /\ ingested \subseteq Episode /\ linked \subseteq ingested
  /\ pc \in [Process -> Labels]
  /\ job \in [Process -> Locals]
  /\ started \in [Process -> Nat]
  /\ metricRuns \in Seq(MetricRow)
  /\ finishes \in Nat
  /\ evolutionRuns \in Seq(EvolutionRow)
  /\ snapshots = [w \in Weeks |-> snapshots[w]]
  /\ predictions = [id \in RunId |-> predictions[id]]
  /\ audits = [id \in RunId |-> audits[id]]
  /\ \A p \in Process : pc[p] \in MetricsAt => job[p].run \in DOMAIN metricRuns
  /\ \A p \in Process : pc[p] \in EvolutionAt => job[p].run \in DOMAIN evolutionRuns
  /\ \A p \in Process : pc[p] = "week_saved" => job[p].weeks # <<>>

LEMMA NoJobShape == NoJob \in Locals
  BY DEF NoJob, NoOption, Locals, Weeks

LEMMA LocalsRead ==
  ASSUME NEW l \in Locals
  PROVE  /\ \A E \in SUBSET Episode : /\ [l EXCEPT !.seen = E] \in Locals
                                       /\ [l EXCEPT !.context = E] \in Locals
         /\ \A F \in SUBSET (Podcast \X Person) : [l EXCEPT !.future = F] \in Locals
         /\ \A id \in RunId, c \in Int : [l EXCEPT !.id = id, !.cutoff = c] \in Locals
         /\ \A c \in Int, E \in SUBSET Episode : [l EXCEPT !.cutoff = c, !.seen = E] \in Locals
         /\ \A id \in RunId, c \in Int, E \in SUBSET Episode :
              [l EXCEPT !.id = id, !.cutoff = c, !.seen = E] \in Locals
         /\ \A c, d \in Int, E \in SUBSET Episode :
              [l EXCEPT !.cutoff = c, !.due = d, !.seen = E] \in Locals
  BY DEF Locals

LEMMA ShapesInit == Init => Shapes
  <1> SUFFICES ASSUME Init PROVE Shapes
    OBVIOUS
  <1>1. ingested \subseteq Episode
    BY AnalysisAssumption DEF Init
  <1>2. metricRuns \in Seq(MetricRow) /\ evolutionRuns \in Seq(EvolutionRow)
    <2>1. \A S : <<>> \in Seq(S)
      OBVIOUS
    <2>2. metricRuns = <<>> /\ evolutionRuns = <<>>
      BY DEF Init
    <2> QED
      BY <2>1, <2>2, Zenon
  <1>3. /\ snapshots = [w \in Weeks |-> snapshots[w]]
        /\ predictions = [id \in RunId |-> predictions[id]]
        /\ audits = [id \in RunId |-> audits[id]]
    BY DEF Init
  <1>4. job \in [Process -> Locals]
    BY NoJobShape, Zenon DEF Init
  <1>5. pc \in [Process -> Labels] /\ started \in [Process -> Nat]
        /\ \A p \in Process : pc[p] = "idle"
    BY DEF Init, Labels
  <1>6. linked = ingested /\ finishes = 0
    BY DEF Init
  <1> QED
    BY <1>1, <1>2, <1>3, <1>4, <1>5, <1>6 DEF Shapes, MetricsAt, MetricPhases, EvolutionAt

\* What a step of p leaves alone
Apart(p) == \A q \in Process \ {p} : pc'[q] = pc[q] /\ job'[q] = job[q]

\* What Begin, Goto and Idle do to the processes
LEMMA BeginsAt ==
  ASSUME Shapes, NEW p \in Process, NEW kind, NEW label \in Labels, NEW locals \in Locals,
         Begin(p, kind, label, locals)
  PROVE  /\ pc' \in [Process -> Labels] /\ job' \in [Process -> Locals]
         /\ started' \in [Process -> Nat]
         /\ pc[p] = "idle" /\ kind \in Jobs[p]
         /\ pc'[p] = label /\ job'[p] = locals /\ Apart(p)
  BY DEF Shapes, Begin, Goto, Apart

LEMMA GoesTo ==
  ASSUME Shapes, NEW p \in Process, NEW label \in Labels, Goto(p, label)
  PROVE  pc' \in [Process -> Labels] /\ pc'[p] = label
         /\ \A q \in Process \ {p} : pc'[q] = pc[q]
  BY DEF Shapes, Goto, Apart

\* job' = [job EXCEPT ![p].seen = linked] and the like
LEMMA JobRead ==
  ASSUME Shapes, NEW p \in Process, NEW l \in Locals, job' = [job EXCEPT ![p] = l]
  PROVE  /\ job' \in [Process -> Locals] /\ job'[p] = l
         /\ \A q \in Process \ {p} : job'[q] = job[q]
  BY DEF Shapes

LEMMA IdlesAt ==
  ASSUME Shapes, NEW p \in Process, Idle(p)
  PROVE  /\ pc' \in [Process -> Labels] /\ job' \in [Process -> Locals]
         /\ pc'[p] = "idle" /\ job'[p] = NoJob /\ Apart(p)
  <1>0. "idle" \in Labels
    BY DEF Labels
  <1>1. Goto(p, "idle") /\ job' = [job EXCEPT ![p] = NoJob]
    BY DEF Idle
  <1>2. /\ pc' \in [Process -> Labels] /\ pc'[p] = "idle"
        /\ \A q \in Process \ {p} : pc'[q] = pc[q]
    BY <1>0, <1>1, GoesTo
  <1> QED
    BY <1>1, <1>2, JobRead, NoJobShape DEF Apart

\* What a step of p must show of itself for the shapes to stay
LEMMA ShapesKept ==
  ASSUME Shapes, NEW p \in Process, UNCHANGED <<ingested, linked>>,
         pc' \in [Process -> Labels], job' \in [Process -> Locals],
         started' \in [Process -> Nat], Apart(p),
         metricRuns' \in Seq(MetricRow), Len(metricRuns') >= Len(metricRuns), finishes' \in Nat,
         evolutionRuns' \in Seq(EvolutionRow), Len(evolutionRuns') >= Len(evolutionRuns),
         snapshots' = [w \in Weeks |-> snapshots'[w]],
         predictions' = [id \in RunId |-> predictions'[id]],
         audits' = [id \in RunId |-> audits'[id]],
         pc'[p] \in MetricsAt => job'[p].run \in DOMAIN metricRuns',
         pc'[p] \in EvolutionAt => job'[p].run \in DOMAIN evolutionRuns',
         pc'[p] = "week_saved" => job'[p].weeks # <<>>
  PROVE  Shapes'
  <1>1. ASSUME NEW q \in Process
        PROVE  /\ pc'[q] \in MetricsAt => job'[q].run \in DOMAIN metricRuns'
               /\ pc'[q] \in EvolutionAt => job'[q].run \in DOMAIN evolutionRuns'
               /\ pc'[q] = "week_saved" => job'[q].weeks # <<>>
    <2>1. CASE q = p
      BY <2>1
    <2>2. CASE q # p
      <3>1. pc'[q] = pc[q] /\ job'[q] = job[q]
        BY <2>2 DEF Apart
      <3>2. /\ pc[q] \in MetricsAt => job[q].run \in DOMAIN metricRuns
            /\ pc[q] \in EvolutionAt => job[q].run \in DOMAIN evolutionRuns
            /\ pc[q] = "week_saved" => job[q].weeks # <<>>
        BY DEF Shapes
      <3>3. /\ DOMAIN metricRuns \subseteq DOMAIN metricRuns'
            /\ DOMAIN evolutionRuns \subseteq DOMAIN evolutionRuns'
        BY DEF Shapes
      <3> QED
        BY <3>1, <3>2, <3>3
    <2> QED
      BY <2>1, <2>2
  <1>2. ingested' \subseteq Episode /\ linked' \subseteq ingested'
    BY DEF Shapes
  <1> QED
    BY <1>1, <1>2 DEF Shapes

\* Steps that read, and steps that write the tables of future links
ReadsOrPredicts(p) ==
  \/ BuildMetricGraphs(p)
  \/ ReadHistory(p) \/ ReadContext(p) \/ SavePredictionRun(p)
  \/ AuditWindow(p) \/ ReadAuditHistory(p) \/ ReadAuditContext(p) \/ SaveAuditRun(p)
  \/ BuildHeuristic(p) \/ BuildBaseline(p)
  \/ ReadTrainingHistory(p) \/ ReadDatasetLabels(p) \/ WriteDataset(p)
  \/ OpenMatrix(p) \/ WriteMatrix(p)
  \/ Crash(p)

MetricsStep(p) ==
  \/ CreateMetricRun(p) \/ StorePersonMetrics(p) \/ StorePodcastMetrics(p)
  \/ SucceedMetrics(p) \/ FailMetrics(p)

EvolutionStep(p) ==
  \/ CreateEvolutionRun(p) \/ SkipEvolution(p) \/ RequestWeeks(p)
  \/ CalculateWeek(p) \/ SaveWeeksCalculated(p)
  \/ SucceedEvolution(p) \/ FailEvolution(p)
  \/ ResetNetworkEvolutionTables(p)

CatalogStep == \E e \in Episode : IngestEpisode(e) \/ LinkEpisode(e)

LEMMA StepsOfNext ==
  ASSUME Next
  PROVE  \/ \E p \in Process : ReadsOrPredicts(p) \/ MetricsStep(p) \/ EvolutionStep(p)
         \/ CatalogStep
  BY DEF Next, Step, ReadsOrPredicts, MetricsStep, EvolutionStep, CatalogStep


LEMMA DatesAreFinite ==
  ASSUME NEW E \in SUBSET Episode
  PROVE  /\ {Published[e] : e \in E} \in SUBSET Nat
         /\ IsFiniteSet({Published[e] : e \in E})
  <1> DEFINE dates == {Published[e] : e \in E}
             date == [e \in E |-> Published[e]]
  <1>1. \A e \in Episode : Published[e] \in Nat
    BY FutureLinksAssumption
  <1>2. IsFiniteSet(E)
    BY FutureLinksAssumption, FS_Subset
  <1>3. date \in Surjection(E, dates)
    BY DEF Surjection
  <1>4. IsFiniteSet(dates)
    BY <1>2, <1>3, FS_Surjection
  <1> QED
    BY <1>1, <1>4

LEMMA LatestDate ==
  ASSUME NEW E \in SUBSET Episode, E # {}
  PROVE  Max({Published[e] : e \in E}) \in Nat
  <1>1. /\ {Published[e] : e \in E} \in SUBSET Nat
        /\ IsFiniteSet({Published[e] : e \in E})
    BY DatesAreFinite
  <1>2. {Published[e] : e \in E} # {}
    OBVIOUS
  <1> QED
    BY <1>1, <1>2, MaxIsGreatest

LEMMA CutoffShapes ==
  ASSUME Shapes, NEW c \in TrainingCutoffs
  PROVE  c.at \in Int /\ c.due \in Int
  <1>1. CASE c \in {[at |-> t, due |-> 0] : t \in Cutoffs}
    BY <1>1, AnalysisAssumption
  <1>2. CASE c \in {[at |-> t, due |-> 0] : t \in LatestCutoff}
    <2>1. linked \in SUBSET Episode
      BY DEF Shapes
    <2>2. PICK t \in LatestCutoff : c = [at |-> t, due |-> 0]
      BY <1>2
    <2>3. linked # {} /\ t = Max({Published[e] : e \in linked}) - Horizon
      BY <2>2 DEF LatestCutoff
    <2>4. t \in Int
      BY <2>1, <2>3, LatestDate, AnalysisAssumption
    <2> QED
      BY <2>2, <2>4
  <1>3. CASE c \in {[at |-> t, due |-> Max({Published[e] : e \in ingested})] : t \in CutPlans}
    <2>1. ingested \in SUBSET Episode
      BY DEF Shapes
    <2>2. PICK t \in CutPlans : c = [at |-> t, due |-> Max({Published[e] : e \in ingested})]
      BY <1>3
    <2>3. ingested # {} /\ t \in Int
      BY <2>2 DEF CutPlans
    <2>4. Max({Published[e] : e \in ingested}) \in Nat
      BY <2>1, <2>3, LatestDate
    <2> QED
      BY <2>2, <2>3, <2>4
  <1> QED
    BY <1>1, <1>2, <1>3 DEF TrainingCutoffs

LEMMA LinksOfHorizon ==
  ASSUME Shapes, NEW from, NEW to
  PROVE  FutureGuestLinks(linked, from, to) \in SUBSET (Podcast \X Person)
  <1>1. \A e \in linked : PodcastOf[e] \in Podcast /\ GuestsOf[e] \in SUBSET Person
    BY FutureLinksAssumption DEF Shapes
  <1> QED
    BY <1>1 DEF FutureGuestLinks, Pairs, Within

\* What these steps leave to the other tables and processes
LEMMA ReadsOrPredictsFrame ==
  ASSUME Shapes, NEW p \in Process, ReadsOrPredicts(p)
  PROVE  /\ UNCHANGED <<ingested, linked, metrics, evolution>>
         /\ pc' \in [Process -> Labels] /\ job' \in [Process -> Locals]
         /\ started' \in [Process -> Nat] /\ Apart(p)
         /\ pc'[p] \notin EvolutionAt
         /\ \/ pc'[p] \notin MetricsAt
            \/ /\ pc[p] = "metric_graphs" /\ pc'[p] = "person_metrics"
               /\ job' = [job EXCEPT ![p].seen = linked]
         /\ predictions' = [id \in RunId |-> predictions'[id]]
         /\ audits' = [id \in RunId |-> audits'[id]]
  <1>00. \A label \in {"idle", "person_metrics", "context", "save_predictions", "audit_history",
              "audit_context", "save_audit", "baseline", "labels_of_dataset", "dataset",
              "labels_of_matrix", "matrix"} : label \in Labels
    BY DEF Labels
  <1>0. /\ linked \in SUBSET Episode /\ NoJob \in Locals /\ job[p] \in Locals
        /\ \A c \in Cutoffs : c \in Int
        /\ predictions = [id \in RunId |-> predictions[id]]
        /\ audits = [id \in RunId |-> audits[id]]
        /\ started \in [Process -> Nat]
    BY NoJobShape, AnalysisAssumption, SMTT(30) DEF Shapes
  <1>1. CASE BuildMetricGraphs(p)
    <2>0. pc[p] = "metric_graphs"
      BY <1>1 DEF BuildMetricGraphs
    <2>1. /\ job' = [job EXCEPT ![p].seen = linked]
          /\ Goto(p, "person_metrics")
          /\ UNCHANGED <<ingested, linked, metrics, evolution, predictions, audits, started>>
      BY <1>1 DEF BuildMetricGraphs, links
    <2>2. [job[p] EXCEPT !.seen = linked] \in Locals
      BY <1>0, LocalsRead
    <2>3. job' = [job EXCEPT ![p] = [job[p] EXCEPT !.seen = linked]]
      BY <2>1
    <2>4. /\ job' \in [Process -> Locals]
          /\ \A q \in Process \ {p} : job'[q] = job[q]
      BY <2>2, <2>3, JobRead
    <2>5. pc' \in [Process -> Labels] /\ pc'[p] = "person_metrics"
          /\ \A q \in Process \ {p} : pc'[q] = pc[q]
      BY <1>00, <2>1, GoesTo
    <2>6. Apart(p)
      BY <2>4, <2>5 DEF Apart
    <2> QED
      BY <1>0, <2>0, <2>1, <2>4, <2>5, <2>6 DEF EvolutionAt, MetricsAt, MetricPhases
  <1>2. CASE ReadHistory(p)
    <2>1. PICK id \in RunId, cutoff \in Cutoffs :
            Begin(p, "predictions", "context", [NoJob EXCEPT !.id = id, !.cutoff = cutoff, !.seen = linked])
      BY <1>2 DEF ReadHistory
    <2> DEFINE locals == [NoJob EXCEPT !.id = id, !.cutoff = cutoff, !.seen = linked]
    <2>2. locals \in Locals /\ Begin(p, "predictions", "context", locals)
      BY <1>0, <2>1, LocalsRead
    <2> HIDE DEF locals
    <2>3. UNCHANGED <<ingested, linked, metrics, evolution, predictions, audits>>
      BY <1>2 DEF ReadHistory, links
    <2>7. pc' \in [Process -> Labels] /\ job' \in [Process -> Locals]
          /\ started' \in [Process -> Nat] /\ Apart(p) /\ pc'[p] = "context"
      BY <1>00, <2>2, BeginsAt
    <2> QED
      BY <1>0, <2>3, <2>7 DEF EvolutionAt, MetricsAt, MetricPhases
  <1>3. CASE AuditWindow(p)
    <2> DEFINE dates == {Published[e] : e \in {d \in linked : GuestsOf[d] # {}}} \cup {0}
    <2>1. PICK id \in RunId :
            Begin(p, "audit", "audit_history",
                  [NoJob EXCEPT !.id = id, !.cutoff = (Max(dates) + 1) - Week])
      BY <1>3, Zenon DEF AuditWindow
    <2>2. Max(dates) \in Nat
      <3> DEFINE dated == {d \in linked : GuestsOf[d] # {}}
      <3>1. dated \in SUBSET Episode
        BY <1>0
      <3> HIDE DEF dated
      <3>2. {Published[e] : e \in dated} \in SUBSET Nat /\ IsFiniteSet({Published[e] : e \in dated})
        BY <3>1, DatesAreFinite
      <3>3. dates \in SUBSET Nat /\ IsFiniteSet(dates) /\ dates # {}
        BY <3>2, FS_AddElement DEF dated
      <3> HIDE DEF dates
      <3> QED
        BY <3>3, MaxIsGreatest
    <2> HIDE DEF dates
    <2>3. (Max(dates) + 1) - Week \in Int
      BY <2>2, AnalysisAssumption
    <2> DEFINE locals == [NoJob EXCEPT !.id = id, !.cutoff = (Max(dates) + 1) - Week]
    <2>4. locals \in Locals /\ Begin(p, "audit", "audit_history", locals)
      BY <1>0, <2>1, <2>3, LocalsRead
    <2> HIDE DEF locals
    <2>5. UNCHANGED <<ingested, linked, metrics, evolution, predictions, audits>>
      BY <1>3 DEF AuditWindow, links
    <2>7. pc' \in [Process -> Labels] /\ job' \in [Process -> Locals]
          /\ started' \in [Process -> Nat] /\ Apart(p) /\ pc'[p] = "audit_history"
      BY <1>00, <2>4, BeginsAt
    <2> QED
      BY <1>0, <2>5, <2>7 DEF EvolutionAt, MetricsAt, MetricPhases
  <1>4. CASE BuildHeuristic(p)
    <2>1. PICK cutoff \in Cutoffs :
            Begin(p, "candidates", "baseline", [NoJob EXCEPT !.cutoff = cutoff, !.seen = linked])
      BY <1>4 DEF BuildHeuristic
    <2> DEFINE locals == [NoJob EXCEPT !.cutoff = cutoff, !.seen = linked]
    <2>2. locals \in Locals /\ Begin(p, "candidates", "baseline", locals)
      BY <1>0, <2>1, LocalsRead
    <2> HIDE DEF locals
    <2>3. UNCHANGED <<ingested, linked, metrics, evolution, predictions, audits>>
      BY <1>4 DEF BuildHeuristic, links
    <2>7. pc' \in [Process -> Labels] /\ job' \in [Process -> Locals]
          /\ started' \in [Process -> Nat] /\ Apart(p) /\ pc'[p] = "baseline"
      BY <1>00, <2>2, BeginsAt
    <2> QED
      BY <1>0, <2>3, <2>7 DEF EvolutionAt, MetricsAt, MetricPhases
  <1>5. CASE ReadTrainingHistory(p)
    <2>1. PICK c \in TrainingCutoffs :
            LET locals == [NoJob EXCEPT !.cutoff = c.at, !.due = c.due, !.seen = linked]
            IN \/ Begin(p, "dataset", "labels_of_dataset", locals)
               \/ Begin(p, "matrix", "labels_of_matrix", locals)
      BY <1>5 DEF ReadTrainingHistory
    <2> DEFINE locals == [NoJob EXCEPT !.cutoff = c.at, !.due = c.due, !.seen = linked]
    <2>2. locals \in Locals
      BY <1>0, CutoffShapes, LocalsRead
    <2>3. UNCHANGED <<ingested, linked, metrics, evolution, predictions, audits>>
      BY <1>5 DEF ReadTrainingHistory, links
    <2>4. \/ Begin(p, "dataset", "labels_of_dataset", locals)
          \/ Begin(p, "matrix", "labels_of_matrix", locals)
      BY <2>1
    <2> HIDE DEF locals
    <2>7. pc' \in [Process -> Labels] /\ job' \in [Process -> Locals]
          /\ started' \in [Process -> Nat] /\ Apart(p) /\ pc'[p] \in {"labels_of_dataset", "labels_of_matrix"}
      BY <1>00, <2>2, <2>4, BeginsAt
    <2> QED
      BY <1>0, <2>3, <2>7 DEF EvolutionAt, MetricsAt, MetricPhases
  <1>6. CASE ReadContext(p)
    <2>1. /\ job' = [job EXCEPT ![p].context = linked]
          /\ Goto(p, "save_predictions")
          /\ UNCHANGED <<ingested, linked, metrics, evolution, predictions, audits, started>>
      BY <1>6 DEF ReadContext, links
    <2>2. [job[p] EXCEPT !.context = linked] \in Locals
      BY <1>0, LocalsRead
    <2>3. job' = [job EXCEPT ![p] = [job[p] EXCEPT !.context = linked]]
      BY <2>1
    <2>4. /\ job' \in [Process -> Locals]
          /\ \A q \in Process \ {p} : job'[q] = job[q]
      BY <2>2, <2>3, JobRead
    <2>5. pc' \in [Process -> Labels] /\ pc'[p] = "save_predictions"
          /\ \A q \in Process \ {p} : pc'[q] = pc[q]
      BY <1>00, <2>1, GoesTo
    <2>6. Apart(p)
      BY <2>4, <2>5 DEF Apart
    <2> QED
      BY <1>0, <2>1, <2>4, <2>5, <2>6 DEF EvolutionAt, MetricsAt, MetricPhases
  <1>7. CASE ReadAuditHistory(p)
    <2>1. /\ job' = [job EXCEPT ![p].seen = linked]
          /\ Goto(p, "audit_context")
          /\ UNCHANGED <<ingested, linked, metrics, evolution, predictions, audits, started>>
      BY <1>7 DEF ReadAuditHistory, links
    <2>2. [job[p] EXCEPT !.seen = linked] \in Locals
      BY <1>0, LocalsRead
    <2>3. job' = [job EXCEPT ![p] = [job[p] EXCEPT !.seen = linked]]
      BY <2>1
    <2>4. /\ job' \in [Process -> Locals]
          /\ \A q \in Process \ {p} : job'[q] = job[q]
      BY <2>2, <2>3, JobRead
    <2>5. pc' \in [Process -> Labels] /\ pc'[p] = "audit_context"
          /\ \A q \in Process \ {p} : pc'[q] = pc[q]
      BY <1>00, <2>1, GoesTo
    <2>6. Apart(p)
      BY <2>4, <2>5 DEF Apart
    <2> QED
      BY <1>0, <2>1, <2>4, <2>5, <2>6 DEF EvolutionAt, MetricsAt, MetricPhases
  <1>8. CASE ReadAuditContext(p)
    <2>1. /\ job' = [job EXCEPT ![p].context = linked]
          /\ Goto(p, "save_audit")
          /\ UNCHANGED <<ingested, linked, metrics, evolution, predictions, audits, started>>
      BY <1>8 DEF ReadAuditContext, links
    <2>2. [job[p] EXCEPT !.context = linked] \in Locals
      BY <1>0, LocalsRead
    <2>3. job' = [job EXCEPT ![p] = [job[p] EXCEPT !.context = linked]]
      BY <2>1
    <2>4. /\ job' \in [Process -> Locals]
          /\ \A q \in Process \ {p} : job'[q] = job[q]
      BY <2>2, <2>3, JobRead
    <2>5. pc' \in [Process -> Labels] /\ pc'[p] = "save_audit"
          /\ \A q \in Process \ {p} : pc'[q] = pc[q]
      BY <1>00, <2>1, GoesTo
    <2>6. Apart(p)
      BY <2>4, <2>5 DEF Apart
    <2> QED
      BY <1>0, <2>1, <2>4, <2>5, <2>6 DEF EvolutionAt, MetricsAt, MetricPhases
  <1>9. CASE ReadDatasetLabels(p)
    <2>1. /\ job' = [job EXCEPT ![p].future = HorizonLinks(job[p])]
          /\ Goto(p, "dataset")
          /\ UNCHANGED <<ingested, linked, metrics, evolution, predictions, audits, started>>
      BY <1>9 DEF ReadDatasetLabels, links
    <2>2. [job[p] EXCEPT !.future = HorizonLinks(job[p])] \in Locals
      BY <1>0, LocalsRead, LinksOfHorizon DEF HorizonLinks
    <2>3. job' = [job EXCEPT ![p] = [job[p] EXCEPT !.future = HorizonLinks(job[p])]]
      BY <2>1
    <2>4. /\ job' \in [Process -> Locals]
          /\ \A q \in Process \ {p} : job'[q] = job[q]
      BY <2>2, <2>3, JobRead
    <2>5. pc' \in [Process -> Labels] /\ pc'[p] = "dataset"
          /\ \A q \in Process \ {p} : pc'[q] = pc[q]
      BY <1>00, <2>1, GoesTo
    <2>6. Apart(p)
      BY <2>4, <2>5 DEF Apart
    <2> QED
      BY <1>0, <2>1, <2>4, <2>5, <2>6 DEF EvolutionAt, MetricsAt, MetricPhases
  <1>10. CASE OpenMatrix(p)
    <2>1. /\ job' = [job EXCEPT ![p].future = HorizonLinks(job[p])]
          /\ Goto(p, "matrix")
          /\ UNCHANGED <<ingested, linked, metrics, evolution, predictions, audits, started>>
      BY <1>10 DEF OpenMatrix, links
    <2>2. [job[p] EXCEPT !.future = HorizonLinks(job[p])] \in Locals
      BY <1>0, LocalsRead, LinksOfHorizon DEF HorizonLinks
    <2>3. job' = [job EXCEPT ![p] = [job[p] EXCEPT !.future = HorizonLinks(job[p])]]
      BY <2>1
    <2>4. /\ job' \in [Process -> Locals]
          /\ \A q \in Process \ {p} : job'[q] = job[q]
      BY <2>2, <2>3, JobRead
    <2>5. pc' \in [Process -> Labels] /\ pc'[p] = "matrix"
          /\ \A q \in Process \ {p} : pc'[q] = pc[q]
      BY <1>00, <2>1, GoesTo
    <2>6. Apart(p)
      BY <2>4, <2>5 DEF Apart
    <2> QED
      BY <1>0, <2>1, <2>4, <2>5, <2>6 DEF EvolutionAt, MetricsAt, MetricPhases
  <1>11. CASE SavePredictionRun(p)
    <2>1. /\ Idle(p)
          /\ UNCHANGED <<ingested, linked, metrics, evolution, started>>
          /\ predictions' = [id \in RunId |-> predictions'[id]]
          /\ audits' = [id \in RunId |-> audits'[id]]
      BY <1>11, Zenon DEF SavePredictionRun, links, Shapes
    <2> QED
      BY <2>1, <1>0, IdlesAt DEF EvolutionAt, MetricsAt, MetricPhases
  <1>12. CASE SaveAuditRun(p)
    <2>1. /\ Idle(p)
          /\ UNCHANGED <<ingested, linked, metrics, evolution, started>>
          /\ predictions' = [id \in RunId |-> predictions'[id]]
          /\ audits' = [id \in RunId |-> audits'[id]]
      BY <1>12, Zenon DEF SaveAuditRun, links, Shapes
    <2> QED
      BY <2>1, <1>0, IdlesAt DEF EvolutionAt, MetricsAt, MetricPhases
  <1>13. CASE BuildBaseline(p)
    <2>1. /\ Idle(p)
          /\ UNCHANGED <<ingested, linked, metrics, evolution, started>>
          /\ predictions' = [id \in RunId |-> predictions'[id]]
          /\ audits' = [id \in RunId |-> audits'[id]]
      BY <1>13, Zenon DEF BuildBaseline, links, Shapes
    <2> QED
      BY <2>1, <1>0, IdlesAt DEF EvolutionAt, MetricsAt, MetricPhases
  <1>14. CASE WriteDataset(p)
    <2>1. /\ Idle(p)
          /\ UNCHANGED <<ingested, linked, metrics, evolution, started>>
          /\ predictions' = [id \in RunId |-> predictions'[id]]
          /\ audits' = [id \in RunId |-> audits'[id]]
      BY <1>14, Zenon DEF WriteDataset, links, Shapes
    <2> QED
      BY <2>1, <1>0, IdlesAt DEF EvolutionAt, MetricsAt, MetricPhases
  <1>15. CASE WriteMatrix(p)
    <2>1. /\ Idle(p)
          /\ UNCHANGED <<ingested, linked, metrics, evolution, started>>
          /\ predictions' = [id \in RunId |-> predictions'[id]]
          /\ audits' = [id \in RunId |-> audits'[id]]
      BY <1>15, Zenon DEF WriteMatrix, links, Shapes
    <2> QED
      BY <2>1, <1>0, IdlesAt DEF EvolutionAt, MetricsAt, MetricPhases
  <1>16. CASE Crash(p)
    <2>1. /\ Idle(p)
          /\ UNCHANGED <<ingested, linked, metrics, evolution, started>>
          /\ predictions' = [id \in RunId |-> predictions'[id]]
          /\ audits' = [id \in RunId |-> audits'[id]]
      BY <1>16, Zenon DEF Crash, links, Shapes
    <2> QED
      BY <2>1, <1>0, IdlesAt DEF EvolutionAt, MetricsAt, MetricPhases
  <1> QED
    BY <1>1, <1>2, <1>3, <1>4, <1>5, <1>6, <1>7, <1>8, <1>9, <1>10, <1>11, <1>12, <1>13,
       <1>14, <1>15, <1>16 DEF ReadsOrPredicts

\* Steps of the metric runs and of the evolution runs keep the shapes
LEMMA RowReplaced ==
  ASSUME NEW S, NEW s \in Seq(S), NEW i \in DOMAIN s, NEW row \in S
  PROVE  /\ [s EXCEPT ![i] = row] \in Seq(S)
         /\ Len([s EXCEPT ![i] = row]) = Len(s)
         /\ DOMAIN [s EXCEPT ![i] = row] = DOMAIN s
         /\ [s EXCEPT ![i] = row][i] = row
         /\ \A j \in DOMAIN s \ {i} : [s EXCEPT ![i] = row][j] = s[j]
  OBVIOUS

LEMMA MetricRowWritten ==
  ASSUME NEW row \in MetricRow
  PROVE  /\ \A E \in SUBSET Episode :
              /\ [row EXCEPT !.people = PersonRows(E, PeopleOf(E)), !.seen = E] \in MetricRow
              /\ [row EXCEPT !.podcasts = PodcastRows(E)] \in MetricRow
         /\ \A status \in Status, n \in Nat :
              [row EXCEPT !.status = status, !.finished = n] \in MetricRow
  BY DEF MetricRow

LEMMA MetricsFrame ==
  ASSUME Shapes, NEW p \in Process, MetricsStep(p)
  PROVE  /\ UNCHANGED <<ingested, linked, evolution, predictions, audits>>
         /\ pc' \in [Process -> Labels] /\ job' \in [Process -> Locals]
         /\ started' \in [Process -> Nat] /\ Apart(p)
         /\ pc'[p] \notin EvolutionAt
         /\ metricRuns' \in Seq(MetricRow) /\ Len(metricRuns') >= Len(metricRuns)
         /\ finishes' \in Nat
         /\ pc'[p] \in MetricsAt => job'[p].run \in DOMAIN metricRuns'
  <1>00. \A label \in {"idle", "metric_graphs", "podcast_metrics", "metric_status"} : label \in Labels
    BY DEF Labels
  <1>0. /\ linked \in SUBSET Episode /\ NoJob \in Locals /\ job[p] \in Locals
        /\ metricRuns \in Seq(MetricRow) /\ finishes \in Nat
        /\ pc[p] \in MetricsAt => job[p].run \in DOMAIN metricRuns
    BY NoJobShape DEF Shapes
  <1>1. CASE CreateMetricRun(p)
    <2> DEFINE row == [status |-> "running", finished |-> 0, seen |-> {},
                       people |-> Unwritten, podcasts |-> Unwritten]
               locals == [NoJob EXCEPT !.run = Len(metricRuns) + 1]
    <2>1. /\ Begin(p, "metrics", "metric_graphs", locals)
          /\ metricRuns' = Append(metricRuns, row)
          /\ UNCHANGED <<ingested, linked, finishes, evolution, predictions, audits>>
      BY <1>1 DEF CreateMetricRun, links
    <2>2. row \in MetricRow
      BY DEF MetricRow, Status
    <2>3. locals \in Locals /\ locals.run = Len(metricRuns) + 1
      <3>1. Len(metricRuns) + 1 \in Nat
        BY <1>0
      <3> QED
        BY <1>0, <3>1 DEF Locals
    <2> HIDE DEF row, locals
    <2>4. metricRuns' \in Seq(MetricRow) /\ Len(metricRuns') = Len(metricRuns) + 1
      BY <1>0, <2>1, <2>2
    <2>5. pc' \in [Process -> Labels] /\ job' \in [Process -> Locals]
          /\ started' \in [Process -> Nat] /\ Apart(p)
          /\ pc'[p] = "metric_graphs" /\ job'[p] = locals
      BY <1>00, <2>1, <2>3, BeginsAt
    <2>6. job'[p].run \in DOMAIN metricRuns'
      BY <1>0, <2>3, <2>4, <2>5
    <2> QED
      BY <1>0, <2>1, <2>4, <2>5, <2>6 DEF EvolutionAt
  <1>2. CASE StorePersonMetrics(p)
    <2>1. /\ pc[p] = "person_metrics"
          /\ metricRuns' = [metricRuns EXCEPT
               ![job[p].run].people = PersonRows(job[p].seen, PeopleOf(job[p].seen)),
               ![job[p].run].seen = job[p].seen]
          /\ Goto(p, "podcast_metrics")
          /\ UNCHANGED <<ingested, linked, finishes, evolution, predictions, audits, job, started>>
      BY <1>2 DEF StorePersonMetrics, links
    <2>2. job[p].run \in DOMAIN metricRuns /\ job[p].seen \in SUBSET Episode
      BY <1>0, <2>1 DEF MetricsAt, MetricPhases, Locals
    <2> DEFINE row == [metricRuns[job[p].run] EXCEPT
                        !.people = PersonRows(job[p].seen, PeopleOf(job[p].seen)), !.seen = job[p].seen]
    <2>5. row \in MetricRow
      <3>1. metricRuns[job[p].run] \in MetricRow /\ finishes + 1 \in Nat
        BY <1>0, <2>2
      <3> QED
        BY <2>2, <3>1, MetricRowWritten
    <2>6. metricRuns' = [metricRuns EXCEPT ![job[p].run] = row]
      BY <2>1
    <2> HIDE DEF row
    <2>3. metricRuns' \in Seq(MetricRow) /\ Len(metricRuns') = Len(metricRuns)
          /\ DOMAIN metricRuns' = DOMAIN metricRuns
      BY <1>0, <2>2, <2>5, <2>6, RowReplaced
    <2>4. pc' \in [Process -> Labels] /\ pc'[p] = "podcast_metrics"
          /\ \A q \in Process \ {p} : pc'[q] = pc[q]
      BY <1>00, <2>1, GoesTo
    <2> QED
      BY <1>0, <2>1, <2>2, <2>3, <2>4 DEF EvolutionAt, Apart, Shapes
  <1>3. CASE StorePodcastMetrics(p)
    <2>1. /\ pc[p] = "podcast_metrics"
          /\ metricRuns' = [metricRuns EXCEPT ![job[p].run].podcasts = PodcastRows(job[p].seen)]
          /\ Goto(p, "metric_status")
          /\ UNCHANGED <<ingested, linked, finishes, evolution, predictions, audits, job, started>>
      BY <1>3 DEF StorePodcastMetrics, links
    <2>2. job[p].run \in DOMAIN metricRuns /\ job[p].seen \in SUBSET Episode
      BY <1>0, <2>1 DEF MetricsAt, MetricPhases, Locals
    <2> DEFINE row == [metricRuns[job[p].run] EXCEPT !.podcasts = PodcastRows(job[p].seen)]
    <2>5. row \in MetricRow
      <3>1. metricRuns[job[p].run] \in MetricRow /\ finishes + 1 \in Nat
        BY <1>0, <2>2
      <3> QED
        BY <2>2, <3>1, MetricRowWritten
    <2>6. metricRuns' = [metricRuns EXCEPT ![job[p].run] = row]
      BY <2>1
    <2> HIDE DEF row
    <2>3. metricRuns' \in Seq(MetricRow) /\ Len(metricRuns') = Len(metricRuns)
          /\ DOMAIN metricRuns' = DOMAIN metricRuns
      BY <1>0, <2>2, <2>5, <2>6, RowReplaced
    <2>4. pc' \in [Process -> Labels] /\ pc'[p] = "metric_status"
          /\ \A q \in Process \ {p} : pc'[q] = pc[q]
      BY <1>00, <2>1, GoesTo
    <2> QED
      BY <1>0, <2>1, <2>2, <2>3, <2>4 DEF EvolutionAt, Apart, Shapes
  <1>4. ASSUME NEW status \in Status, FinishMetricRun(p, status), pc[p] \in MetricPhases
        PROVE  /\ UNCHANGED <<ingested, linked, evolution, predictions, audits>>
               /\ pc' \in [Process -> Labels] /\ job' \in [Process -> Locals]
               /\ started' \in [Process -> Nat] /\ Apart(p)
               /\ pc'[p] = "idle"
               /\ metricRuns' \in Seq(MetricRow) /\ Len(metricRuns') >= Len(metricRuns)
               /\ finishes' \in Nat
    <2>1. /\ metricRuns' = [metricRuns EXCEPT ![job[p].run].status = status,
                                              ![job[p].run].finished = finishes + 1]
          /\ finishes' = finishes + 1
          /\ Idle(p)
          /\ UNCHANGED <<ingested, linked, evolution, predictions, audits, started>>
      BY <1>4 DEF FinishMetricRun, links
    <2>2. job[p].run \in DOMAIN metricRuns
      BY <1>0, <1>4 DEF MetricsAt
    <2> DEFINE row == [metricRuns[job[p].run] EXCEPT !.status = status, !.finished = finishes + 1]
    <2>5. row \in MetricRow
      <3>1. metricRuns[job[p].run] \in MetricRow /\ finishes + 1 \in Nat
        BY <1>0, <2>2
      <3> QED
        BY <2>2, <3>1, MetricRowWritten
    <2>6. metricRuns' = [metricRuns EXCEPT ![job[p].run] = row]
      BY <2>1
    <2> HIDE DEF row
    <2>3. metricRuns' \in Seq(MetricRow) /\ Len(metricRuns') = Len(metricRuns)
          /\ DOMAIN metricRuns' = DOMAIN metricRuns
      BY <1>0, <2>2, <2>5, <2>6, RowReplaced
    <2> QED
      BY <1>0, <2>1, <2>3, IdlesAt DEF Shapes
  <1>5. CASE SucceedMetrics(p)
    <2>1. FinishMetricRun(p, "succeeded") /\ pc[p] \in MetricPhases /\ "succeeded" \in Status
      BY <1>5 DEF SucceedMetrics, MetricPhases, Status
    <2> QED
      BY <2>1, <1>4 DEF EvolutionAt, MetricsAt, MetricPhases
  <1>6. CASE FailMetrics(p)
    <2>1. FinishMetricRun(p, "failed") /\ pc[p] \in MetricPhases /\ "failed" \in Status
      BY <1>6 DEF FailMetrics, Status
    <2> QED
      BY <2>1, <1>4 DEF EvolutionAt, MetricsAt, MetricPhases
  <1> QED
    BY <1>1, <1>2, <1>3, <1>5, <1>6 DEF MetricsStep

LEMMA EvolutionRowWritten ==
  ASSUME NEW row \in EvolutionRow
  PROVE  /\ \A status \in Status, n \in Nat, b \in BOOLEAN :
              [row EXCEPT !.status = status, !.calculated = n, !.bootstrap = b] \in EvolutionRow
         /\ \A n \in Nat : [row EXCEPT !.calculated = n] \in EvolutionRow
         /\ \A w \in 0..NoWeek, b \in BOOLEAN : [row EXCEPT !.start = w, !.bootstrap = b] \in EvolutionRow
         /\ \A status \in Status : [row EXCEPT !.status = status] \in EvolutionRow
  BY DEF EvolutionRow

LEMMA LocalsOfRun ==
  ASSUME NEW l \in Locals
  PROVE  /\ \A n \in Nat, o \in EvolutionOptions : [l EXCEPT !.run = n, !.option = o] \in Locals
         /\ \A ws \in Seq(Weeks) : [l EXCEPT !.weeks = ws] \in Locals
         /\ \A n \in Nat : [l EXCEPT !.calculated = n] \in Locals
  <1>1. \A o \in EvolutionOptions : o \in [bootstrap : BOOLEAN, recompute : BOOLEAN, max : Nat]
    BY AnalysisAssumption
  <1> QED
    BY <1>1 DEF Locals

\* A run that ends: its row is saved whole, and its process is gone
LEMMA FinishRunFrame ==
  ASSUME Shapes, NEW p \in Process, pc[p] \in EvolutionAt,
         NEW status \in Status, NEW bootstrap \in BOOLEAN, FinishRun(p, status, bootstrap)
  PROVE  /\ UNCHANGED <<ingested, linked, metrics, snapshots, predictions, audits, started>>
         /\ pc' \in [Process -> Labels] /\ job' \in [Process -> Locals] /\ Apart(p)
         /\ pc'[p] = "idle" /\ job'[p] = NoJob
         /\ evolutionRuns' = [evolutionRuns EXCEPT ![job[p].run] =
              [evolutionRuns[job[p].run] EXCEPT
                 !.status = status, !.calculated = job[p].calculated, !.bootstrap = bootstrap]]
         /\ evolutionRuns' \in Seq(EvolutionRow) /\ Len(evolutionRuns') = Len(evolutionRuns)
  <1> DEFINE r == job[p].run
             row == [evolutionRuns[r] EXCEPT
                 !.status = status, !.calculated = job[p].calculated, !.bootstrap = bootstrap]
  <1>1. r \in DOMAIN evolutionRuns /\ evolutionRuns \in Seq(EvolutionRow)
        /\ evolutionRuns[r] \in EvolutionRow /\ job[p].calculated \in Nat
    BY DEF Shapes, Locals
  <1>2. row \in EvolutionRow
    BY <1>1, EvolutionRowWritten
  <1>3. Idle(p) /\ UNCHANGED <<ingested, linked, metrics, snapshots, predictions, audits, started>>
        /\ evolutionRuns' = [evolutionRuns EXCEPT ![r] = row]
    BY DEF FinishRun, links
  <1> HIDE DEF row, r
  <1>4. evolutionRuns' \in Seq(EvolutionRow) /\ Len(evolutionRuns') = Len(evolutionRuns)
    BY <1>1, <1>2, <1>3, RowReplaced
  <1> QED
    BY <1>3, <1>4, IdlesAt DEF row, r

LEMMA EvolutionFrame ==
  ASSUME Shapes, NEW p \in Process, EvolutionStep(p)
  PROVE  /\ UNCHANGED <<ingested, linked, metrics, predictions, audits>>
         /\ pc' \in [Process -> Labels] /\ job' \in [Process -> Locals]
         /\ started' \in [Process -> Nat] /\ Apart(p)
         /\ pc'[p] \notin MetricsAt
         /\ evolutionRuns' \in Seq(EvolutionRow) /\ Len(evolutionRuns') >= Len(evolutionRuns)
         /\ snapshots' = [w \in Weeks |-> snapshots'[w]]
         /\ pc'[p] \in EvolutionAt => job'[p].run \in DOMAIN evolutionRuns'
         /\ pc'[p] = "week_saved" => job'[p].weeks # <<>>
  <1>00. \A label \in {"idle", "missing_weeks", "week", "week_saved"} : label \in Labels
    BY DEF Labels
  <1>0. /\ linked \in SUBSET Episode /\ NoJob \in Locals /\ job[p] \in Locals
        /\ evolutionRuns \in Seq(EvolutionRow) /\ ingested \subseteq Episode
        /\ pc[p] \in EvolutionAt => job[p].run \in DOMAIN evolutionRuns
        /\ pc[p] = "week_saved" => job[p].weeks # <<>>
        /\ snapshots = [w \in Weeks |-> snapshots[w]] /\ started \in [Process -> Nat]
    BY NoJobShape DEF Shapes
  <1>1. CASE CreateEvolutionRun(p)
    <2> DEFINE row == [status |-> "running", calculated |-> 0, start |-> NoWeek, bootstrap |-> FALSE]
               n == Len(evolutionRuns) + 1
    <2>1. PICK o \in EvolutionOptions :
            Begin(p, "evolution", "missing_weeks", [NoJob EXCEPT !.run = n, !.option = o])
      BY <1>1 DEF CreateEvolutionRun
    <2>2. /\ evolutionRuns' = Append(evolutionRuns, row)
          /\ UNCHANGED <<ingested, linked, metrics, snapshots, predictions, audits>>
      BY <1>1 DEF CreateEvolutionRun, links
    <2>3. row \in EvolutionRow
      BY AnalysisAssumption DEF EvolutionRow, Status, NoWeek
    <2> DEFINE locals == [NoJob EXCEPT !.run = n, !.option = o]
    <2>4. n \in Nat
      BY <1>0
    <2> HIDE DEF n, row
    <2>5. locals \in Locals /\ locals.run = n
      BY <1>0, <2>4, LocalsOfRun DEF Locals
    <2>6. Begin(p, "evolution", "missing_weeks", locals)
      BY <2>1
    <2> HIDE DEF locals
    <2>7. evolutionRuns' \in Seq(EvolutionRow) /\ Len(evolutionRuns') = n /\ n > Len(evolutionRuns)
      BY <1>0, <2>2, <2>3 DEF n
    <2>8. pc' \in [Process -> Labels] /\ job' \in [Process -> Locals]
          /\ started' \in [Process -> Nat] /\ Apart(p)
          /\ pc'[p] = "missing_weeks" /\ job'[p] = locals
      BY <1>00, <2>5, <2>6, BeginsAt
    <2>9. job'[p].run \in DOMAIN evolutionRuns'
      BY <1>0, <2>5, <2>7, <2>8
    <2> QED
      BY <1>0, <2>2, <2>7, <2>8, <2>9 DEF MetricsAt, MetricPhases
  <1>2. CASE RequestWeeks(p)
    <2> DEFINE weeks == MissingEvolutionWeeks(job[p].option)
               row == [evolutionRuns[job[p].run] EXCEPT
                         !.start = weeks[1], !.bootstrap = job[p].option.bootstrap]
               locals == [job[p] EXCEPT !.weeks = weeks]
    <2>1. /\ pc[p] = "missing_weeks" /\ weeks # <<>>
          /\ job' = [job EXCEPT ![p] = locals]
          /\ evolutionRuns' = [evolutionRuns EXCEPT ![job[p].run] = row]
          /\ Goto(p, "week")
          /\ UNCHANGED <<ingested, linked, metrics, snapshots, predictions, audits, started>>
      BY <1>2 DEF RequestWeeks, links
    <2>2. job[p].option \in [bootstrap : BOOLEAN, recompute : BOOLEAN, max : Nat]
          /\ job[p].option.bootstrap \in BOOLEAN
      BY <1>0 DEF Locals
    <2>3. weeks \in Seq(Weeks) /\ weeks[1] \in 0..NoWeek
      <3>1. weeks \in Seq(Weeks)
        BY <1>0, <2>2, WeeksOfRun
      <3>2. 1 \in DOMAIN weeks
        BY <2>1, <3>1
      <3>3. weeks[1] \in Weeks
        BY <3>1, <3>2
      <3>4. \A w \in Weeks : w \in 0..NoWeek
        BY AnalysisAssumption DEF Weeks, NoWeek
      <3> QED
        BY <3>1, <3>3, <3>4
    <2>4. job[p].run \in DOMAIN evolutionRuns /\ evolutionRuns[job[p].run] \in EvolutionRow
      BY <1>0, <2>1 DEF EvolutionAt
    <2> HIDE DEF weeks
    <2>5. row \in EvolutionRow
      BY <2>2, <2>3, <2>4, EvolutionRowWritten
    <2>6. locals \in Locals /\ locals.run = job[p].run
      BY <1>0, <2>3, LocalsOfRun DEF Locals
    <2> HIDE DEF row, locals
    <2>7. evolutionRuns' \in Seq(EvolutionRow) /\ Len(evolutionRuns') = Len(evolutionRuns)
          /\ DOMAIN evolutionRuns' = DOMAIN evolutionRuns
      BY <1>0, <2>1, <2>4, <2>5, RowReplaced
    <2>8. /\ job' \in [Process -> Locals] /\ job'[p] = locals
          /\ \A q \in Process \ {p} : job'[q] = job[q]
      BY <2>1, <2>6, JobRead
    <2>9. pc' \in [Process -> Labels] /\ pc'[p] = "week"
          /\ \A q \in Process \ {p} : pc'[q] = pc[q]
      BY <1>00, <2>1, GoesTo
    <2> QED
      BY <1>0, <2>1, <2>4, <2>6, <2>7, <2>8, <2>9
         DEF MetricsAt, MetricPhases, Apart, Shapes
  <1>3. CASE CalculateWeek(p)
    <2>1. /\ pc[p] = "week" /\ job[p].weeks # <<>> /\ Goto(p, "week_saved")
          /\ UNCHANGED <<ingested, linked, metrics, evolutionRuns, predictions, audits, started>>
          /\ \/ UNCHANGED <<snapshots, job>>
             \/ /\ \E w, s : snapshots' = [snapshots EXCEPT ![w] = s]
                /\ job' = [job EXCEPT ![p].calculated = @ + 1]
      BY <1>3 DEF CalculateWeek, links
    <2>2. snapshots' = [w \in Weeks |-> snapshots'[w]]
      BY <1>0, <2>1
    <2>3. /\ job' \in [Process -> Locals] /\ job'[p].run = job[p].run
          /\ job'[p].weeks = job[p].weeks
          /\ \A q \in Process \ {p} : job'[q] = job[q]
      <3>1. CASE UNCHANGED job
        BY <3>1 DEF Shapes
      <3>2. CASE job' = [job EXCEPT ![p].calculated = @ + 1]
        <4> DEFINE locals == [job[p] EXCEPT !.calculated = job[p].calculated + 1]
        <4>1. locals \in Locals /\ locals.run = job[p].run /\ locals.weeks = job[p].weeks
          <5>1. job[p].calculated + 1 \in Nat
            BY <1>0, SMTT(30) DEF Locals
          <5> QED
            BY <1>0, <5>1, LocalsOfRun DEF Locals
        <4>2. job' = [job EXCEPT ![p] = locals]
          BY <3>2
        <4> HIDE DEF locals
        <4> QED
          BY <4>1, <4>2, JobRead
      <3> QED
        BY <2>1, <3>1, <3>2
    <2>4. pc' \in [Process -> Labels] /\ pc'[p] = "week_saved"
          /\ \A q \in Process \ {p} : pc'[q] = pc[q]
      BY <1>00, <2>1, GoesTo
    <2>5. job[p].run \in DOMAIN evolutionRuns
      BY <1>0, <2>1 DEF EvolutionAt
    <2> QED
      BY <1>0, <2>1, <2>2, <2>3, <2>4, <2>5 DEF MetricsAt, MetricPhases, Apart, Shapes
  <1>4. CASE SaveWeeksCalculated(p)
    <2> DEFINE row == [evolutionRuns[job[p].run] EXCEPT !.calculated = job[p].calculated]
               locals == [job[p] EXCEPT !.weeks = Tail(job[p].weeks)]
    <2>1. /\ pc[p] = "week_saved"
          /\ job' = [job EXCEPT ![p] = locals]
          /\ evolutionRuns' = [evolutionRuns EXCEPT ![job[p].run] = row]
          /\ Goto(p, "week")
          /\ UNCHANGED <<ingested, linked, metrics, snapshots, predictions, audits, started>>
      BY <1>4 DEF SaveWeeksCalculated, links
    <2>2. job[p].run \in DOMAIN evolutionRuns /\ evolutionRuns[job[p].run] \in EvolutionRow
          /\ job[p].calculated \in Nat /\ job[p].weeks \in Seq(Weeks)
      BY <1>0, <2>1, SMTT(30) DEF EvolutionAt, Locals
    <2>3. row \in EvolutionRow
      BY <2>2, EvolutionRowWritten
    <2>4. Tail(job[p].weeks) \in Seq(Weeks)
      BY <1>0, <2>1, <2>2
    <2>5. locals \in Locals /\ locals.run = job[p].run
      BY <1>0, <2>4, LocalsOfRun DEF Locals
    <2> HIDE DEF row, locals
    <2>6. evolutionRuns' \in Seq(EvolutionRow) /\ Len(evolutionRuns') = Len(evolutionRuns)
          /\ DOMAIN evolutionRuns' = DOMAIN evolutionRuns
      BY <1>0, <2>1, <2>2, <2>3, RowReplaced
    <2>7. /\ job' \in [Process -> Locals] /\ job'[p] = locals
          /\ \A q \in Process \ {p} : job'[q] = job[q]
      BY <2>1, <2>5, JobRead
    <2>8. pc' \in [Process -> Labels] /\ pc'[p] = "week"
          /\ \A q \in Process \ {p} : pc'[q] = pc[q]
      BY <1>00, <2>1, GoesTo
    <2> QED
      BY <1>0, <2>1, <2>2, <2>5, <2>6, <2>7, <2>8
         DEF MetricsAt, MetricPhases, Apart, Shapes
  <1>5. CASE SkipEvolution(p)
    <2>1. /\ FinishRun(p, "skipped", job[p].option.bootstrap) /\ pc[p] \in EvolutionAt
          /\ "skipped" \in Status /\ job[p].option.bootstrap \in BOOLEAN
      BY <1>0, <1>5 DEF SkipEvolution, Status, EvolutionAt, Locals
    <2>2. /\ UNCHANGED <<ingested, linked, metrics, snapshots, predictions, audits, started>>
          /\ pc' \in [Process -> Labels] /\ job' \in [Process -> Locals] /\ Apart(p)
          /\ pc'[p] = "idle" /\ job'[p] = NoJob
          /\ evolutionRuns' \in Seq(EvolutionRow) /\ Len(evolutionRuns') = Len(evolutionRuns)
      BY <2>1, FinishRunFrame, ZenonT(40)
    <2> QED
      BY <1>0, <2>2 DEF EvolutionAt, MetricsAt, MetricPhases
  <1>6. CASE SucceedEvolution(p)
    <2>1. /\ FinishRun(p, "succeeded", job[p].option.bootstrap) /\ pc[p] \in EvolutionAt
          /\ "succeeded" \in Status /\ job[p].option.bootstrap \in BOOLEAN
      BY <1>0, <1>6 DEF SucceedEvolution, Status, EvolutionAt, Locals
    <2>2. /\ UNCHANGED <<ingested, linked, metrics, snapshots, predictions, audits, started>>
          /\ pc' \in [Process -> Labels] /\ job' \in [Process -> Locals] /\ Apart(p)
          /\ pc'[p] = "idle" /\ job'[p] = NoJob
          /\ evolutionRuns' \in Seq(EvolutionRow) /\ Len(evolutionRuns') = Len(evolutionRuns)
      BY <2>1, FinishRunFrame, ZenonT(40)
    <2> QED
      BY <1>0, <2>2 DEF EvolutionAt, MetricsAt, MetricPhases
  <1>7. CASE FailEvolution(p)
    <2>1. /\ FinishRun(p, "failed", evolutionRuns[job[p].run].bootstrap) /\ pc[p] \in EvolutionAt
          /\ "failed" \in Status
      BY <1>7 DEF FailEvolution, Status, EvolutionAt
    <2>2. evolutionRuns[job[p].run].bootstrap \in BOOLEAN
      <3>1. evolutionRuns[job[p].run] \in EvolutionRow
        BY <1>0, <2>1
      <3> QED
        BY <3>1 DEF EvolutionRow
    <2>3. /\ UNCHANGED <<ingested, linked, metrics, snapshots, predictions, audits, started>>
          /\ pc' \in [Process -> Labels] /\ job' \in [Process -> Locals] /\ Apart(p)
          /\ pc'[p] = "idle" /\ job'[p] = NoJob
          /\ evolutionRuns' \in Seq(EvolutionRow) /\ Len(evolutionRuns') = Len(evolutionRuns)
      BY <2>1, <2>2, FinishRunFrame, ZenonT(40)
    <2> QED
      BY <1>0, <2>3 DEF EvolutionAt, MetricsAt, MetricPhases
  <1>8. CASE ResetNetworkEvolutionTables(p)
    <2>1. /\ Begin(p, "reset", "idle", NoJob)
          /\ evolutionRuns' = [r \in DOMAIN evolutionRuns |->
                                 [evolutionRuns[r] EXCEPT !.status = "deleted"]]
          /\ snapshots' = [w \in Weeks |-> None]
          /\ UNCHANGED <<ingested, linked, metrics, predictions, audits>>
      BY <1>8 DEF ResetNetworkEvolutionTables, links
    <2>2. \A r \in DOMAIN evolutionRuns :
            [evolutionRuns[r] EXCEPT !.status = "deleted"] \in EvolutionRow
      <3>1. "deleted" \in Status
        BY DEF Status
      <3>2. \A r \in DOMAIN evolutionRuns : evolutionRuns[r] \in EvolutionRow
        BY <1>0
      <3> QED
        BY <3>1, <3>2, EvolutionRowWritten
    <2>3. evolutionRuns' \in Seq(EvolutionRow) /\ Len(evolutionRuns') = Len(evolutionRuns)
      BY <1>0, <2>1, <2>2
    <2>4. pc' \in [Process -> Labels] /\ job' \in [Process -> Locals]
          /\ started' \in [Process -> Nat] /\ Apart(p)
          /\ pc'[p] = "idle"
      BY <1>00, <1>0, <2>1, BeginsAt
    <2> QED
      BY <1>0, <2>1, <2>3, <2>4 DEF EvolutionAt, MetricsAt, MetricPhases
  <1> QED
    BY <1>1, <1>2, <1>3, <1>4, <1>5, <1>6, <1>7, <1>8 DEF EvolutionStep

LEMMA ShapesStep == Shapes /\ [Next]_vars => Shapes'
  <1> SUFFICES ASSUME Shapes, [Next]_vars PROVE Shapes'
    OBVIOUS
  <1>1. CASE UNCHANGED vars
    BY <1>1 DEF vars, metrics, evolution, links, Shapes
  <1>2. CASE CatalogStep
    <2>1. /\ ingested' \subseteq Episode /\ linked' \subseteq ingested'
          /\ UNCHANGED <<metricRuns, finishes, evolutionRuns, snapshots, predictions, audits,
                         pc, job, started>>
      BY <1>2 DEF CatalogStep, IngestEpisode, LinkEpisode, metrics, evolution, links, Shapes
    <2> QED
      BY <2>1 DEF Shapes
  <1>3. ASSUME NEW p \in Process, ReadsOrPredicts(p) PROVE Shapes'
    <2>1. /\ UNCHANGED <<ingested, linked, metricRuns, finishes, evolutionRuns, snapshots>>
          /\ pc' \in [Process -> Labels] /\ job' \in [Process -> Locals]
          /\ started' \in [Process -> Nat] /\ Apart(p)
          /\ pc'[p] \notin EvolutionAt
          /\ \/ pc'[p] \notin MetricsAt
             \/ /\ pc[p] = "metric_graphs" /\ pc'[p] = "person_metrics"
                /\ job' = [job EXCEPT ![p].seen = linked]
          /\ predictions' = [id \in RunId |-> predictions'[id]]
          /\ audits' = [id \in RunId |-> audits'[id]]
      BY <1>3, ReadsOrPredictsFrame DEF metrics, evolution
    <2>2. /\ metricRuns \in Seq(MetricRow) /\ Len(metricRuns) \in Nat /\ finishes \in Nat
          /\ evolutionRuns \in Seq(EvolutionRow) /\ Len(evolutionRuns) \in Nat
          /\ snapshots = [w \in Weeks |-> snapshots[w]]
      BY DEF Shapes
    <2>3. pc'[p] \in MetricsAt => job'[p].run \in DOMAIN metricRuns
      <3>1. pc'[p] \in MetricsAt => pc[p] \in MetricsAt /\ job'[p].run = job[p].run
        BY <2>1, SMTT(30) DEF MetricsAt, MetricPhases, Shapes, Locals
      <3> QED
        BY <3>1 DEF Shapes
    <2>4. pc'[p] # "week_saved"
      BY <2>1 DEF EvolutionAt
    <2> QED
      BY <2>1, <2>2, <2>3, <2>4, ShapesKept, SMTT(30)
  <1>4. ASSUME NEW p \in Process, MetricsStep(p) PROVE Shapes'
    <2>1. /\ UNCHANGED <<ingested, linked, evolutionRuns, snapshots, predictions, audits>>
          /\ pc' \in [Process -> Labels] /\ job' \in [Process -> Locals]
          /\ started' \in [Process -> Nat] /\ Apart(p)
          /\ pc'[p] \notin EvolutionAt
          /\ metricRuns' \in Seq(MetricRow) /\ Len(metricRuns') >= Len(metricRuns)
          /\ finishes' \in Nat
          /\ pc'[p] \in MetricsAt => job'[p].run \in DOMAIN metricRuns'
      BY <1>4, MetricsFrame DEF evolution
    <2>2. /\ evolutionRuns \in Seq(EvolutionRow) /\ Len(evolutionRuns) \in Nat
          /\ snapshots = [w \in Weeks |-> snapshots[w]]
          /\ predictions = [id \in RunId |-> predictions[id]]
          /\ audits = [id \in RunId |-> audits[id]]
      BY DEF Shapes
    <2>3. pc'[p] # "week_saved"
      BY <2>1 DEF EvolutionAt
    <2>4. /\ evolutionRuns' \in Seq(EvolutionRow) /\ Len(evolutionRuns') >= Len(evolutionRuns)
          /\ snapshots' = [w \in Weeks |-> snapshots'[w]]
          /\ predictions' = [id \in RunId |-> predictions'[id]]
          /\ audits' = [id \in RunId |-> audits'[id]]
      BY <2>1, <2>2
    <2> QED
      BY <2>1, <2>3, <2>4, ShapesKept
  <1>5. ASSUME NEW p \in Process, EvolutionStep(p) PROVE Shapes'
    <2>1. /\ UNCHANGED <<ingested, linked, metricRuns, finishes, predictions, audits>>
          /\ pc' \in [Process -> Labels] /\ job' \in [Process -> Locals]
          /\ started' \in [Process -> Nat] /\ Apart(p)
          /\ pc'[p] \notin MetricsAt
          /\ evolutionRuns' \in Seq(EvolutionRow) /\ Len(evolutionRuns') >= Len(evolutionRuns)
          /\ snapshots' = [w \in Weeks |-> snapshots'[w]]
          /\ pc'[p] \in EvolutionAt => job'[p].run \in DOMAIN evolutionRuns'
          /\ pc'[p] = "week_saved" => job'[p].weeks # <<>>
      BY <1>5, EvolutionFrame DEF metrics
    <2>2. /\ metricRuns \in Seq(MetricRow) /\ Len(metricRuns) \in Nat /\ finishes \in Nat
          /\ predictions = [id \in RunId |-> predictions[id]]
          /\ audits = [id \in RunId |-> audits[id]]
      BY DEF Shapes
    <2>3. /\ metricRuns' \in Seq(MetricRow) /\ Len(metricRuns') >= Len(metricRuns)
          /\ finishes' \in Nat
          /\ predictions' = [id \in RunId |-> predictions'[id]]
          /\ audits' = [id \in RunId |-> audits'[id]]
      BY <2>1, <2>2
    <2> QED
      BY <2>1, <2>3, ShapesKept
  <1> QED
    BY <1>1, <1>2, <1>3, <1>4, <1>5, StepsOfNext

\* Every variable keeps its type, and a command in the middle of a metric or
\* evolution run has a row of its own table, whatever other commands append,
\* reset or save meanwhile.
THEOREM AnalysisShapes == Spec => []Shapes
  BY ShapesInit, ShapesStep, PTL DEF Spec

----------------------------------------------------------------------------
(* No week is skipped *)

\* A run takes its weeks one after another
InARow(weeks) == \A i \in 1..Len(weeks) : weeks[i] = weeks[1] + i - 1

\* Run r is on record, and it is a bootstrap that began with week w
Begun(r, w) ==
  /\ evolutionRuns[r].status # "deleted"
  /\ evolutionRuns[r].bootstrap
  /\ evolutionRuns[r].start = w

\* What a run in progress has to say of its weeks and of its row
RunStands(p) ==
  LET row == evolutionRuns[job[p].run]
      weeks == job[p].weeks
  IN /\ pc[p] = "missing_weeks" => row.start = NoWeek
     /\ pc[p] \in {"week", "week_saved"} =>
          InARow(weeks) /\ row.bootstrap = job[p].option.bootstrap
     /\ pc[p] = "week" /\ weeks # <<>> /\ row.status # "deleted" =>
          weeks[1] - 1 \in Stored \/ Begun(job[p].run, weeks[1])
     /\ pc[p] = "week_saved" /\ row.status # "deleted" => weeks[1] \in Stored

\* No two commands work on the same row
RunsApart ==
  \A p, q \in Process :
    p # q /\ pc[p] \in EvolutionAt /\ pc[q] \in EvolutionAt => job[p].run # job[q].run

\* NoWeekIsSkipped needs more than what is stored: of every run in progress, that
\* its weeks follow each other and where its first one came from
GapInv ==
  /\ NoWeekIsSkipped
  /\ RunsApart
  /\ \A p \in Process : RunStands(p)

LEMMA GapInit == Init => GapInv
  BY DEF Init, GapInv, NoWeekIsSkipped, RunsApart, RunStands, Stored, EvolutionAt

LEMMA OthersStand ==
  ASSUME NEW q \in Process, RunStands(q), pc'[q] = pc[q], job'[q] = job[q],
         pc[q] \in EvolutionAt => evolutionRuns'[job[q].run] = evolutionRuns[job[q].run],
         Stored \subseteq Stored'
  PROVE  RunStands(q)'
  BY DEF RunStands, Begun, EvolutionAt

LEMMA IdleStands ==
  ASSUME NEW q \in Process, pc'[q] \notin EvolutionAt
  PROVE  RunStands(q)'
  BY DEF RunStands, EvolutionAt

LEMMA ApartKept ==
  ASSUME Shapes, RunsApart, NEW p \in Process, Apart(p),
         \/ pc'[p] \notin EvolutionAt
         \/ pc[p] \in EvolutionAt /\ job'[p].run = job[p].run
         \/ job'[p].run = Len(evolutionRuns) + 1
  PROVE  RunsApart'
  <1>1. \A q \in Process : pc[q] \in EvolutionAt => job[q].run # Len(evolutionRuns) + 1
    BY DEF Shapes
  <1> QED
    BY <1>1 DEF RunsApart, Apart

LEMMA GapsKept ==
  ASSUME NoWeekIsSkipped, Stored \subseteq Stored',
         \A r \in DOMAIN evolutionRuns, w \in Weeks :
           Begun(r, w) => r \in DOMAIN evolutionRuns' /\ Begun(r, w)',
         \A w \in Stored' \ Stored :
           w - 1 \in Stored \/ \E r \in DOMAIN evolutionRuns' : Begun(r, w)'
  PROVE  NoWeekIsSkipped'
  <1> SUFFICES ASSUME NEW w \in Stored', w - 1 \notin Stored'
               PROVE  \E r \in DOMAIN evolutionRuns' : Begun(r, w)'
    BY DEF NoWeekIsSkipped, Begun
  <1>1. CASE w \in Stored
    <2>1. PICK r \in DOMAIN evolutionRuns : Begun(r, w)
      BY <1>1 DEF NoWeekIsSkipped, Begun
    <2>2. w \in Weeks
      BY <1>1 DEF Stored
    <2> QED
      BY <2>1, <2>2
  <1>2. CASE w \notin Stored
    BY <1>2
  <1> QED
    BY <1>1, <1>2

\* Steps that leave the runs and the snapshots alone
LEMMA GapBeside ==
  ASSUME Shapes, GapInv, UNCHANGED <<evolutionRuns, snapshots>>,
         NEW p \in Process, Apart(p), pc'[p] \notin EvolutionAt
  PROVE  GapInv'
  <1>1. Stored' = Stored
    BY DEF Stored
  <1>2. NoWeekIsSkipped'
    BY <1>1 DEF GapInv, NoWeekIsSkipped
  <1>3. RunsApart'
    BY ApartKept DEF GapInv
  <1>4. ASSUME NEW q \in Process PROVE RunStands(q)'
    <2>1. CASE q = p
      BY <2>1, IdleStands
    <2>2. CASE q # p
      BY <1>1, <2>2, OthersStand DEF Apart, GapInv
    <2> QED
      BY <2>1, <2>2
  <1> QED
    BY <1>2, <1>3, <1>4 DEF GapInv

\* A step of a run on its own row
LEMMA GapOwnRow ==
  ASSUME Shapes, GapInv, NEW p \in Process, Apart(p), pc[p] \in EvolutionAt,
         DOMAIN evolutionRuns' = DOMAIN evolutionRuns,
         \A r \in DOMAIN evolutionRuns \ {job[p].run} : evolutionRuns'[r] = evolutionRuns[r],
         \A w \in Weeks : Begun(job[p].run, w) => (evolutionRuns'[job[p].run].status # "deleted"
                            /\ evolutionRuns'[job[p].run].bootstrap
                            /\ evolutionRuns'[job[p].run].start = w),
         Stored \subseteq Stored',
         \A w \in Stored' \ Stored :
           w - 1 \in Stored \/ \E r \in DOMAIN evolutionRuns' : Begun(r, w)',
         pc'[p] \in EvolutionAt => job'[p].run = job[p].run,
         RunStands(p)'
  PROVE  GapInv'
  <1>1. NoWeekIsSkipped'
    BY GapsKept DEF GapInv, Begun
  <1>2. RunsApart'
    BY ApartKept DEF GapInv
  <1>3. ASSUME NEW q \in Process PROVE RunStands(q)'
    <2>1. CASE q = p
      BY <2>1
    <2>2. CASE q # p
      <3>1. pc'[q] = pc[q] /\ job'[q] = job[q]
        BY <2>2 DEF Apart
      <3>2. pc[q] \in EvolutionAt => job[q].run # job[p].run /\ job[q].run \in DOMAIN evolutionRuns
        BY <2>2 DEF GapInv, RunsApart, Shapes
      <3> QED
        BY <3>1, <3>2, OthersStand DEF GapInv
    <2> QED
      BY <2>1, <2>2
  <1> QED
    BY <1>1, <1>2, <1>3 DEF GapInv

LEMMA GapCreate ==
  ASSUME Shapes, GapInv, NEW p \in Process, CreateEvolutionRun(p)
  PROVE  GapInv'
  <1> DEFINE row == [status |-> "running", calculated |-> 0, start |-> NoWeek, bootstrap |-> FALSE]
             n == Len(evolutionRuns) + 1
  <1>1. PICK o \in EvolutionOptions :
          Begin(p, "evolution", "missing_weeks", [NoJob EXCEPT !.run = n, !.option = o])
    BY DEF CreateEvolutionRun
  <1>2. evolutionRuns' = Append(evolutionRuns, row) /\ snapshots' = snapshots
    BY DEF CreateEvolutionRun
  <1>3. n \in Nat /\ evolutionRuns \in Seq(EvolutionRow)
    BY DEF Shapes
  <1> DEFINE locals == [NoJob EXCEPT !.run = n, !.option = o]
  <1> HIDE DEF n
  <1>4. locals \in Locals /\ locals.run = n
    BY <1>3, LocalsOfRun, NoJobShape DEF Locals
  <1> HIDE DEF locals
  <1>5. Apart(p) /\ pc'[p] = "missing_weeks" /\ job'[p] = locals /\ pc[p] = "idle"
    <2>1. "missing_weeks" \in Labels /\ Begin(p, "evolution", "missing_weeks", locals)
      BY <1>1 DEF Labels, locals
    <2> QED
      BY <1>4, <2>1, BeginsAt
  <1>6. /\ DOMAIN evolutionRuns' = 1..n /\ evolutionRuns'[n] = row
        /\ DOMAIN evolutionRuns = 1..(n - 1)
        /\ \A r \in DOMAIN evolutionRuns : evolutionRuns'[r] = evolutionRuns[r]
    BY <1>2, <1>3 DEF n
  <1>7. Stored' = Stored
    BY <1>2 DEF Stored
  <1>8. NoWeekIsSkipped'
    BY <1>3, <1>6, <1>7, GapsKept DEF GapInv, Begun
  <1>9. RunsApart'
    BY <1>4, <1>5, ApartKept DEF GapInv, n
  <1>10. ASSUME NEW q \in Process PROVE RunStands(q)'
    <2>1. CASE q = p
      BY <1>4, <1>5, <1>6, <2>1 DEF RunStands
    <2>2. CASE q # p
      <3>1. pc'[q] = pc[q] /\ job'[q] = job[q]
        BY <1>5, <2>2 DEF Apart
      <3>2. pc[q] \in EvolutionAt => job[q].run \in DOMAIN evolutionRuns
        BY DEF Shapes
      <3> QED
        BY <1>6, <1>7, <3>1, <3>2, OthersStand DEF GapInv
    <2> QED
      BY <2>1, <2>2
  <1> QED
    BY <1>8, <1>9, <1>10 DEF GapInv

LEMMA GapFinish ==
  ASSUME Shapes, GapInv, NEW p \in Process,
         SkipEvolution(p) \/ SucceedEvolution(p) \/ FailEvolution(p)
  PROVE  GapInv'
  <1> DEFINE r == job[p].run
  <1>0. /\ job[p].option.bootstrap \in BOOLEAN /\ r \in DOMAIN evolutionRuns
        /\ evolutionRuns[r] \in EvolutionRow /\ evolutionRuns[r].bootstrap \in BOOLEAN
        /\ pc[p] \in EvolutionAt /\ evolutionRuns \in Seq(EvolutionRow)
    <2>1. pc[p] \in EvolutionAt
      BY DEF SkipEvolution, SucceedEvolution, FailEvolution, EvolutionAt
    <2>2. /\ job[p] \in Locals /\ r \in DOMAIN evolutionRuns /\ evolutionRuns \in Seq(EvolutionRow)
      BY <2>1 DEF Shapes
    <2>3. evolutionRuns[r] \in EvolutionRow
      BY <2>2
    <2> QED
      BY <2>1, <2>2, <2>3 DEF Locals, EvolutionRow
  <1>1. PICK status \in {"skipped", "succeeded", "failed"}, b \in BOOLEAN :
          /\ FinishRun(p, status, b)
          /\ b = evolutionRuns[r].bootstrap \/ evolutionRuns[r].start = NoWeek
    <2>1. CASE SkipEvolution(p)
      <3>1. pc[p] = "missing_weeks" /\ FinishRun(p, "skipped", job[p].option.bootstrap)
        BY <2>1 DEF SkipEvolution
      <3>2. evolutionRuns[r].start = NoWeek
        BY <3>1 DEF GapInv, RunStands
      <3> QED
        BY <1>0, <3>1, <3>2
    <2>2. CASE SucceedEvolution(p)
      <3>1. pc[p] = "week" /\ FinishRun(p, "succeeded", job[p].option.bootstrap)
        BY <2>2 DEF SucceedEvolution
      <3>2. evolutionRuns[r].bootstrap = job[p].option.bootstrap
        BY <3>1 DEF GapInv, RunStands
      <3> QED
        BY <1>0, <3>1, <3>2
    <2>3. CASE FailEvolution(p)
      BY <1>0, <2>3 DEF FailEvolution
    <2> QED
      BY <2>1, <2>2, <2>3
  <1>2. status \in Status /\ status # "deleted"
    BY DEF Status
  <1>3. /\ snapshots' = snapshots /\ Apart(p) /\ pc'[p] = "idle"
        /\ evolutionRuns' = [evolutionRuns EXCEPT ![r] =
             [evolutionRuns[r] EXCEPT
                !.status = status, !.calculated = job[p].calculated, !.bootstrap = b]]
    <2>1. FinishRun(p, status, b) /\ status \in Status /\ b \in BOOLEAN /\ pc[p] \in EvolutionAt
      BY <1>0, <1>1, <1>2
    <2> HIDE DEF r
    <2>2. /\ UNCHANGED <<ingested, linked, metrics, snapshots, predictions, audits, started>>
          /\ Apart(p) /\ pc'[p] = "idle"
          /\ evolutionRuns' = [evolutionRuns EXCEPT ![job[p].run] =
               [evolutionRuns[job[p].run] EXCEPT
                  !.status = status, !.calculated = job[p].calculated, !.bootstrap = b]]
      BY <2>1, FinishRunFrame, ZenonT(40)
    <2> QED
      BY <2>2 DEF r
  <1>4. /\ DOMAIN evolutionRuns' = DOMAIN evolutionRuns
        /\ \A s \in DOMAIN evolutionRuns \ {r} : evolutionRuns'[s] = evolutionRuns[s]
        /\ evolutionRuns'[r].status = status /\ evolutionRuns'[r].bootstrap = b
        /\ evolutionRuns'[r].start = evolutionRuns[r].start
    BY <1>0, <1>3 DEF EvolutionRow
  <1>5. \A w \in Weeks : Begun(r, w) =>
          evolutionRuns'[r].status # "deleted" /\ evolutionRuns'[r].bootstrap
          /\ evolutionRuns'[r].start = w
    <2>1. \A w \in Weeks : w # NoWeek
      BY AnalysisAssumption DEF Weeks, NoWeek
    <2> QED
      BY <1>1, <1>2, <1>4, <2>1 DEF Begun
  <1>6. Stored' = Stored
    BY <1>3 DEF Stored
  <1>7. pc'[p] \notin EvolutionAt
    BY <1>3 DEF EvolutionAt
  <1>8. RunStands(p)'
    BY <1>7, IdleStands
  <1> QED
    BY <1>0, <1>3, <1>4, <1>5, <1>6, <1>7, <1>8, GapOwnRow

\* What a command that stands in a run has, and what its steps do to its process
LEMMA InRun ==
  ASSUME Shapes, NEW p \in Process, pc[p] \in EvolutionAt
  PROVE  /\ job[p] \in Locals /\ job[p].run \in DOMAIN evolutionRuns
         /\ evolutionRuns \in Seq(EvolutionRow) /\ evolutionRuns[job[p].run] \in EvolutionRow
         /\ job[p].weeks \in Seq(Weeks) /\ job[p].calculated \in Nat
         /\ job[p].option \in [bootstrap : BOOLEAN, recompute : BOOLEAN, max : Nat]
         /\ job[p].option.bootstrap \in BOOLEAN
  BY DEF Shapes, Locals

LEMMA MovesOn ==
  ASSUME Shapes, NEW p \in Process, NEW label \in Labels, NEW locals \in Locals,
         Goto(p, label), job' = [job EXCEPT ![p] = locals]
  PROVE  Apart(p) /\ pc'[p] = label /\ job'[p] = locals
  BY GoesTo, JobRead DEF Apart

LEMMA GapRequest ==
  ASSUME Shapes, GapInv, NEW p \in Process, RequestWeeks(p)
  PROVE  GapInv'
  <1> DEFINE r == job[p].run
             option == job[p].option
             weeks == MissingEvolutionWeeks(option)
             locals == [job[p] EXCEPT !.weeks = weeks]
             row == [evolutionRuns[r] EXCEPT !.start = weeks[1], !.bootstrap = option.bootstrap]
  <1>1. /\ pc[p] = "missing_weeks" /\ weeks # <<>>
        /\ job' = [job EXCEPT ![p] = locals]
        /\ evolutionRuns' = [evolutionRuns EXCEPT ![r] = row]
        /\ Goto(p, "week") /\ snapshots' = snapshots
    BY DEF RequestWeeks
  <1>2. pc[p] \in EvolutionAt /\ "week" \in Labels
    BY <1>1 DEF EvolutionAt, Labels
  <1>3. /\ job[p] \in Locals /\ r \in DOMAIN evolutionRuns
        /\ evolutionRuns \in Seq(EvolutionRow) /\ evolutionRuns[r] \in EvolutionRow
        /\ option \in [bootstrap : BOOLEAN, recompute : BOOLEAN, max : Nat]
        /\ option.bootstrap \in BOOLEAN
    BY <1>2, InRun
  <1>4. /\ weeks \in Seq(Weeks) /\ weeks[1] \in Weeks /\ InARow(weeks)
        /\ option.bootstrap \/ weeks[1] - 1 \in Stored
    <2>1. ingested \subseteq Episode
      BY DEF Shapes
    <2>2. /\ weeks \in Seq(Weeks)
          /\ \A i \in 1..Len(weeks) : weeks[i] = EvolutionStart(option) + i - 1
          /\ EvolutionStart(option) \in Weeks
          /\ option.bootstrap \/ EvolutionStart(option) - 1 \in Stored
      BY <1>1, <1>3, <2>1, WeeksOfRun
    <2> HIDE DEF weeks
    <2>3. 1 \in 1..Len(weeks) /\ EvolutionStart(option) \in Nat
      BY <1>1, <2>2 DEF Weeks
    <2>4. weeks[1] = EvolutionStart(option)
      BY <2>2, <2>3
    <2> QED
      BY <2>2, <2>4 DEF InARow
  <1> HIDE DEF weeks
  <1>5. row \in EvolutionRow /\ row.start = weeks[1] /\ row.bootstrap = option.bootstrap
        /\ row.status = evolutionRuns[r].status
    <2>1. \A w \in Weeks : w \in 0..NoWeek
      BY AnalysisAssumption DEF Weeks, NoWeek
    <2> DEFINE first == weeks[1]
    <2>2. first \in 0..NoWeek
      BY <1>4, <2>1
    <2> HIDE DEF first
    <2> QED
      BY <1>3, <2>2 DEF EvolutionRow, first
  <1>6. locals \in Locals /\ locals.run = r /\ locals.weeks = weeks
        /\ locals.option = option
    BY <1>3, <1>4 DEF Locals
  <1> HIDE DEF row, locals
  <1>7. Apart(p) /\ pc'[p] = "week" /\ job'[p] = locals
    BY <1>1, <1>2, <1>6, MovesOn
  <1>8. /\ DOMAIN evolutionRuns' = DOMAIN evolutionRuns /\ evolutionRuns'[r] = row
        /\ \A s \in DOMAIN evolutionRuns \ {r} : evolutionRuns'[s] = evolutionRuns[s]
    BY <1>1, <1>3, <1>5, RowReplaced
  <1>9. \A w \in Weeks : ~Begun(r, w)
    <2>1. evolutionRuns[r].start = NoWeek
      BY <1>1 DEF GapInv, RunStands
    <2>2. \A w \in Weeks : w # NoWeek
      BY AnalysisAssumption DEF Weeks, NoWeek
    <2> QED
      BY <2>1, <2>2 DEF Begun
  <1>10. Stored' = Stored
    BY <1>1 DEF Stored
  <1>11. RunStands(p)'
    <2>1. row.status # "deleted" =>
            \/ weeks[1] - 1 \in Stored
            \/ row.bootstrap /\ row.start = weeks[1]
      BY <1>4, <1>5
    <2> QED
      BY <1>4, <1>5, <1>6, <1>7, <1>8, <1>10, <2>1 DEF RunStands, Begun
  <1> QED
    BY <1>2, <1>6, <1>7, <1>8, <1>9, <1>10, <1>11, GapOwnRow

LEMMA GapCalculate ==
  ASSUME Shapes, GapInv, NEW p \in Process, CalculateWeek(p)
  PROVE  GapInv'
  <1> DEFINE r == job[p].run
             weeks == job[p].weeks
             w == weeks[1]
  <1>1. /\ pc[p] = "week" /\ weeks # <<>> /\ Goto(p, "week_saved")
        /\ evolutionRuns' = evolutionRuns
        /\ \/ w \in Stored /\ UNCHANGED <<snapshots, job>>
           \/ /\ evolutionRuns[r].status # "deleted"
              /\ snapshots' = [snapshots EXCEPT ![w] = Snapshot(linked, w, RowsFor(linked, w))]
              /\ job' = [job EXCEPT ![p].calculated = @ + 1]
    BY DEF CalculateWeek, Deleted
  <1>2. pc[p] \in EvolutionAt /\ "week_saved" \in Labels
    BY <1>1 DEF EvolutionAt, Labels
  <1>3. /\ job[p] \in Locals /\ r \in DOMAIN evolutionRuns
        /\ weeks \in Seq(Weeks) /\ job[p].calculated \in Nat
    BY <1>2, InRun
  <1>4. w \in Weeks
    <2>1. 1 \in DOMAIN weeks
      BY <1>1, <1>3
    <2> QED
      BY <1>3, <2>1
  <1> HIDE DEF w
  <1>5. PICK locals \in Locals :
          /\ job' = [job EXCEPT ![p] = locals]
          /\ locals.run = r /\ locals.weeks = weeks /\ locals.option = job[p].option
    <2>1. CASE UNCHANGED job
      <3>1. job' = [job EXCEPT ![p] = job[p]]
        BY <2>1 DEF Shapes
      <3> QED
        BY <1>3, <3>1
    <2>2. CASE job' = [job EXCEPT ![p].calculated = @ + 1]
      <3> DEFINE l == [job[p] EXCEPT !.calculated = job[p].calculated + 1]
      <3>1. l \in Locals /\ l.run = r /\ l.weeks = weeks /\ l.option = job[p].option
        <4>1. job[p].calculated + 1 \in Nat
          BY <1>3
        <4> QED
          BY <1>3, <4>1, LocalsOfRun DEF Locals
      <3>2. job' = [job EXCEPT ![p] = l]
        BY <2>2
      <3> QED
        BY <3>1, <3>2
    <2> QED
      BY <1>1, <2>1, <2>2
  <1>6. Apart(p) /\ pc'[p] = "week_saved" /\ job'[p] = locals
    BY <1>1, <1>2, <1>5, MovesOn, ZenonT(40)
  <1>7. InARow(weeks) /\ evolutionRuns[r].bootstrap = job[p].option.bootstrap
        /\ (evolutionRuns[r].status # "deleted" => w - 1 \in Stored \/ Begun(r, w))
    BY <1>1 DEF GapInv, RunStands, w
  <1>8. /\ Stored \subseteq Stored' /\ w \in Stored'
        /\ \A v \in Stored' \ Stored : v = w /\ evolutionRuns[r].status # "deleted"
    <2>1. CASE w \in Stored /\ UNCHANGED <<snapshots, job>>
      BY <2>1 DEF Stored
    <2>2. CASE /\ evolutionRuns[r].status # "deleted"
               /\ snapshots' = [snapshots EXCEPT ![w] = Snapshot(linked, w, RowsFor(linked, w))]
      <3>1. Snapshot(linked, w, RowsFor(linked, w)) # None
        <4>1. Snapshot(linked, w, RowsFor(linked, w)).kind = "snapshot"
          BY DEF Snapshot
        <4> QED
          BY <4>1 DEF None
      <3>2. w \in DOMAIN snapshots
        BY <1>4 DEF Shapes
      <3>3. /\ snapshots'[w] # None
            /\ \A v \in Weeks \ {w} : snapshots'[v] = snapshots[v]
        BY <2>2, <3>1, <3>2
      <3> QED
        BY <1>4, <2>2, <3>3 DEF Stored
    <2> QED
      BY <1>1, <2>1, <2>2
  <1>9. \A s \in DOMAIN evolutionRuns, v \in Weeks : Begun(s, v) => Begun(s, v)'
    BY <1>1 DEF Begun
  <1>10. \A v \in Stored' \ Stored :
           v - 1 \in Stored \/ \E s \in DOMAIN evolutionRuns' : Begun(s, v)'
    <2> SUFFICES ASSUME NEW v \in Stored' \ Stored, v - 1 \notin Stored
                 PROVE  \E s \in DOMAIN evolutionRuns' : Begun(s, v)'
      OBVIOUS
    <2>1. v = w /\ Begun(r, v)
      BY <1>7, <1>8
    <2>2. \E s \in DOMAIN evolutionRuns : Begun(s, v)
      BY <1>3, <2>1
    <2> QED
      BY <1>1, <1>4, <1>9, <2>1, <2>2
  <1>11. RunStands(p)'
    BY <1>1, <1>5, <1>6, <1>7, <1>8 DEF RunStands, w
  <1> QED
    BY <1>1, <1>2, <1>3, <1>5, <1>6, <1>8, <1>10, <1>11, GapOwnRow DEF Begun

LEMMA GapSave ==
  ASSUME Shapes, GapInv, NEW p \in Process, SaveWeeksCalculated(p)
  PROVE  GapInv'
  <1> DEFINE r == job[p].run
             weeks == job[p].weeks
             locals == [job[p] EXCEPT !.weeks = Tail(weeks)]
             row == [evolutionRuns[r] EXCEPT !.calculated = job[p].calculated]
  <1>1. /\ pc[p] = "week_saved" /\ evolutionRuns[r].status # "deleted"
        /\ job' = [job EXCEPT ![p] = locals]
        /\ evolutionRuns' = [evolutionRuns EXCEPT ![r] = row]
        /\ Goto(p, "week") /\ snapshots' = snapshots
    BY DEF SaveWeeksCalculated, Deleted
  <1>2. pc[p] \in EvolutionAt /\ "week" \in Labels
    BY <1>1 DEF EvolutionAt, Labels
  <1>3. /\ job[p] \in Locals /\ r \in DOMAIN evolutionRuns
        /\ evolutionRuns \in Seq(EvolutionRow) /\ evolutionRuns[r] \in EvolutionRow
        /\ weeks \in Seq(Weeks) /\ job[p].calculated \in Nat
    BY <1>2, InRun
  <1>4. weeks # <<>> /\ InARow(weeks) /\ weeks[1] \in Stored
        /\ evolutionRuns[r].bootstrap = job[p].option.bootstrap
    BY <1>1 DEF Shapes, GapInv, RunStands
  <1>5. /\ Tail(weeks) \in Seq(Weeks) /\ InARow(Tail(weeks))
        /\ Tail(weeks) # <<>> => Tail(weeks)[1] - 1 = weeks[1]
    <2>1. /\ Tail(weeks) \in Seq(Weeks) /\ Len(Tail(weeks)) = Len(weeks) - 1
          /\ Len(weeks) \in Nat /\ Len(weeks) > 0
          /\ \A i \in 1..(Len(weeks) - 1) : Tail(weeks)[i] = weeks[i + 1]
      BY <1>3, <1>4
    <2>2. weeks[1] \in Int
      <3>1. 1 \in 1..Len(weeks)
        BY <2>1
      <3>2. weeks[1] \in Weeks
        BY <1>3, <3>1
      <3> QED
        BY <3>2 DEF Weeks
    <2>3. \A i \in 1..(Len(weeks) - 1) : Tail(weeks)[i] = weeks[1] + i
      BY <1>4, <2>1, <2>2 DEF InARow
    <2> HIDE DEF weeks
    <2>4. Len(weeks) - 1 > 0 => Tail(weeks)[1] = weeks[1] + 1
      BY <2>1, <2>3
    <2>5. Tail(weeks) # <<>> => Len(weeks) - 1 > 0
      BY <2>1
    <2>6. InARow(Tail(weeks))
      BY <2>1, <2>2, <2>3, <2>4 DEF InARow
    <2> QED
      BY <2>1, <2>2, <2>4, <2>5, <2>6
  <1>6. locals \in Locals /\ locals.run = r /\ locals.weeks = Tail(weeks)
        /\ locals.option = job[p].option
    BY <1>3, <1>5 DEF Locals
  <1>7. row \in EvolutionRow /\ row.start = evolutionRuns[r].start
        /\ row.bootstrap = evolutionRuns[r].bootstrap
        /\ row.status = evolutionRuns[r].status
    BY <1>3 DEF EvolutionRow
  <1> HIDE DEF row, locals, weeks
  <1>8. Apart(p) /\ pc'[p] = "week" /\ job'[p] = locals
    BY <1>1, <1>2, <1>6, MovesOn
  <1>9. /\ DOMAIN evolutionRuns' = DOMAIN evolutionRuns /\ evolutionRuns'[r] = row
        /\ \A s \in DOMAIN evolutionRuns \ {r} : evolutionRuns'[s] = evolutionRuns[s]
    BY <1>1, <1>3, <1>7, RowReplaced
  <1>10. Stored' = Stored
    BY <1>1 DEF Stored
  <1>11. RunStands(p)'
    BY <1>4, <1>5, <1>6, <1>7, <1>8, <1>9, <1>10 DEF RunStands
  <1>12. \A v \in Weeks : Begun(r, v) => (evolutionRuns'[r].status # "deleted"
                 /\ evolutionRuns'[r].bootstrap /\ evolutionRuns'[r].start = v)
    BY <1>7, <1>9 DEF Begun
  <1> QED
    BY <1>2, <1>6, <1>8, <1>9, <1>10, <1>11, <1>12, GapOwnRow

LEMMA GapReset ==
  ASSUME Shapes, GapInv, NEW p \in Process, ResetNetworkEvolutionTables(p)
  PROVE  GapInv'
  <1>1. /\ Begin(p, "reset", "idle", NoJob)
        /\ evolutionRuns' = [r \in DOMAIN evolutionRuns |->
                               [evolutionRuns[r] EXCEPT !.status = "deleted"]]
        /\ snapshots' = [w \in Weeks |-> None]
    BY DEF ResetNetworkEvolutionTables
  <1>2. Apart(p) /\ pc'[p] = "idle"
    <2>1. "idle" \in Labels
      BY DEF Labels
    <2> QED
      BY <1>1, <2>1, BeginsAt, NoJobShape
  <1>3. Stored' = {}
    BY <1>1 DEF Stored
  <1>4. NoWeekIsSkipped'
    BY <1>3 DEF NoWeekIsSkipped
  <1>5. RunsApart'
    BY <1>2, ApartKept DEF GapInv, EvolutionAt
  <1>6. ASSUME NEW q \in Process PROVE RunStands(q)'
    <2>1. CASE q = p
      BY <1>2, <2>1, IdleStands DEF EvolutionAt
    <2>2. CASE q # p
      <3>1. pc'[q] = pc[q] /\ job'[q] = job[q]
        BY <1>2, <2>2 DEF Apart
      <3>2. CASE pc[q] \in EvolutionAt
        <4> DEFINE r == job[q].run
        <4>1. r \in DOMAIN evolutionRuns /\ evolutionRuns[r] \in EvolutionRow
          BY <3>2, InRun
        <4>2. /\ evolutionRuns'[r].status = "deleted"
              /\ evolutionRuns'[r].start = evolutionRuns[r].start
              /\ evolutionRuns'[r].bootstrap = evolutionRuns[r].bootstrap
          BY <1>1, <4>1 DEF EvolutionRow
        <4> QED
          BY <3>1, <4>2 DEF GapInv, RunStands
      <3>3. CASE pc[q] \notin EvolutionAt
        BY <3>1, <3>3, IdleStands
      <3> QED
        BY <3>2, <3>3
    <2> QED
      BY <2>1, <2>2
  <1> QED
    BY <1>4, <1>5, <1>6 DEF GapInv

LEMMA GapStep == Shapes /\ GapInv /\ [Next]_vars => GapInv'
  <1> SUFFICES ASSUME Shapes, GapInv, [Next]_vars PROVE GapInv'
    OBVIOUS
  <1>1. CASE UNCHANGED <<evolutionRuns, snapshots, pc, job>>
    BY <1>1 DEF GapInv, NoWeekIsSkipped, RunsApart, RunStands, Stored, Begun
  <1>2. CASE UNCHANGED vars \/ CatalogStep
    BY <1>1, <1>2 DEF vars, evolution, CatalogStep, IngestEpisode, LinkEpisode
  <1>3. ASSUME NEW p \in Process, ReadsOrPredicts(p) \/ MetricsStep(p) PROVE GapInv'
    <2>1. UNCHANGED <<evolutionRuns, snapshots>> /\ Apart(p) /\ pc'[p] \notin EvolutionAt
      BY <1>3, ReadsOrPredictsFrame, MetricsFrame DEF evolution
    <2> QED
      BY <2>1, GapBeside
  <1>4. ASSUME NEW p \in Process, EvolutionStep(p) PROVE GapInv'
    BY <1>4, GapCreate, GapRequest, GapCalculate, GapSave, GapFinish, GapReset DEF EvolutionStep
  <1> QED
    BY <1>2, <1>3, <1>4, StepsOfNext

\* A week whose predecessor is not stored is where a bootstrap on record began,
\* although runs overlap, are cut off by --max-weeks, fail between two weeks, are
\* killed, or see their rows deleted by --reset (calculate_network_evolution).
THEOREM NothingIsSkipped == Spec => []NoWeekIsSkipped
  <1>1. GapInv => NoWeekIsSkipped
    BY DEF GapInv
  <1> QED
    BY <1>1, GapInit, GapStep, AnalysisShapes, PTL DEF Spec

----------------------------------------------------------------------------
(* The metrics that are read are whole *)

\* The graph of some episodes is a finite one
LEMMA GraphIsFinite ==
  ASSUME NEW E \in SUBSET Episode
  PROVE  /\ PeopleOf(E) \subseteq Person /\ IsFiniteSet(PeopleOf(E))
         /\ PodcastsOf(E) \subseteq Podcast /\ IsFiniteSet(PodcastsOf(E))
         /\ EdgesOf(E) \subseteq SUBSET Person /\ IsFiniteSet(EdgesOf(E))
  <1>1. \A e \in E : /\ GuestsOf[e] \in SUBSET Person /\ HostsOf[e] \in SUBSET Person
                     /\ PodcastOf[e] \in Podcast
    BY FutureLinksAssumption
  <1>2. PeopleOf(E) \subseteq Person
    BY <1>1 DEF PeopleOf
  <1>3. PodcastsOf(E) \subseteq Podcast
    BY <1>1 DEF PodcastsOf
  <1>4. EdgesOf(E) \subseteq SUBSET Person
    <2> SUFFICES ASSUME NEW f \in EdgesOf(E) PROVE f \in SUBSET Person
      OBVIOUS
    <2>1. PICK e \in E : f \in EpisodeEdges(e)
      BY DEF EdgesOf
    <2>2. PICK g \in GuestsOf[e], x \in HostsOf[e] : f = {g, x}
      BY <2>1 DEF EpisodeEdges
    <2> QED
      BY <1>1, <2>2
  <1>5. IsFiniteSet(Person) /\ IsFiniteSet(Podcast) /\ IsFiniteSet(SUBSET Person)
    BY FutureLinksAssumption, FS_SUBSET
  <1> QED
    BY <1>2, <1>3, <1>4, <1>5, FS_Subset

LEMMA DegreeIsNatural ==
  ASSUME NEW E \in SUBSET Episode, NEW x
  PROVE  Degree(EdgesOf(E), x) \in Nat
  <1>1. {f \in EdgesOf(E) : x \in f} \subseteq EdgesOf(E)
    OBVIOUS
  <1>2. IsFiniteSet({f \in EdgesOf(E) : x \in f})
    BY <1>1, GraphIsFinite, FS_Subset
  <1> QED
    BY <1>2, FS_CardinalityType DEF Degree

\* Ranks of some people by a number are the places of an order
LEMMA RanksAreFull ==
  ASSUME NEW S \in SUBSET Person, NEW value, value = [x \in S |-> value[x]],
         \A x \in S : value[x] \in Nat
  PROVE  {Ranks(value)[x] : x \in S} = 1..Cardinality(S)
  <1> DEFINE R == {yx \in S \X S : \/ value[yx[1]] > value[yx[2]]
                                   \/ value[yx[1]] = value[yx[2]] /\ yx[1] < yx[2]}
  <1>1. \A x \in S : x \in Nat
    BY FutureLinksAssumption
  <1>2. IsFiniteSet(S)
    BY FutureLinksAssumption, FS_Subset
  <1>3. \A x, y \in S : <<y, x>> \in R <=> \/ value[y] > value[x]
                                           \/ value[y] = value[x] /\ y < x
    OBVIOUS
  <1> HIDE DEF R
  <1>4. IsOrder(R, S)
    BY <1>1, <1>3 DEF IsOrder
  <1>5. DOMAIN value = S
    OBVIOUS
  <1>6. ASSUME NEW x \in S PROVE Ranks(value)[x] = Place(R, S, x)
    <2>1. {y \in S : value[y] > value[x] \/ (value[y] = value[x] /\ y < x)} = Ahead(R, S, x)
      BY <1>3 DEF Ahead
    <2> QED
      BY <1>5, <2>1 DEF Ranks, Place
  <1>7. \A x \in S : Place(R, S, x) \in 1..Cardinality(S)
    BY <1>2, <1>4, PlacesFollowOrder
  <1>8. \A i \in 1..Cardinality(S) : \E x \in S : Place(R, S, x) = i
    BY <1>2, <1>4, EveryPlaceIsTaken
  <1> HIDE DEF R
  <1> QED
    BY <1>6, <1>7, <1>8

\* The rows of everybody in the graph: ranks 1..n
LEMMA RowsAreRanked ==
  ASSUME NEW E \in SUBSET Episode
  PROVE  LET rows == PersonRows(E, PeopleOf(E))
         IN /\ DOMAIN rows = PeopleOf(E)
            /\ {rows[x].rank : x \in DOMAIN rows} = 1..Cardinality(DOMAIN rows)
  <1> DEFINE S == PeopleOf(E)
             value == [x \in S |-> Degree(EdgesOf(E), x)]
             rows == PersonRows(E, S)
  <1>1. S \in SUBSET Person
    BY GraphIsFinite
  <1>2. \A x \in S : value[x] \in Nat
    BY DegreeIsNatural
  <1>3. value = [x \in S |-> value[x]]
    OBVIOUS
  <1>4. DOMAIN rows = S /\ \A x \in S : rows[x].rank = Ranks(value)[x]
    BY DEF PersonRows
  <1> HIDE DEF S, value, rows
  <1>5. {Ranks(value)[x] : x \in S} = 1..Cardinality(S)
    BY <1>1, <1>2, <1>3, RanksAreFull
  <1>6. {rows[x].rank : x \in S} = {Ranks(value)[x] : x \in S}
    BY <1>4
  <1> QED
    BY <1>4, <1>5, <1>6 DEF S, rows

LEMMA PodcastRowsDomain == \A E : DOMAIN PodcastRows(E) = PodcastsOf(E)
  BY DEF PodcastRows

WholePeople(row) == row.people = PersonRows(row.seen, PeopleOf(row.seen))
WholePodcasts(row) == row.podcasts = PodcastRows(row.seen)

\* What a metric run in progress has written
MetricsStand(p) ==
  LET row == metricRuns[job[p].run]
  IN /\ pc[p] \in MetricsAt => row.status = "running" /\ row.finished = 0
     /\ pc[p] \in {"podcast_metrics", "metric_status"} => row.seen = job[p].seen /\ WholePeople(row)
     /\ pc[p] = "metric_status" => WholePodcasts(row)

MetricRunsApart ==
  \A p, q \in Process :
    p # q /\ pc[p] \in MetricsAt /\ pc[q] \in MetricsAt => job[p].run # job[q].run

\* Finishes are numbered one by one, and what succeeded is whole
FinishesAreOrdered ==
  /\ \A r \in DOMAIN metricRuns : metricRuns[r].finished <= finishes
  /\ \A r, s \in DOMAIN metricRuns :
       r # s /\ metricRuns[r].finished = metricRuns[s].finished => metricRuns[r].finished = 0

SucceededAreWhole ==
  \A r \in DOMAIN metricRuns : metricRuns[r].status = "succeeded" =>
    metricRuns[r].finished # 0 /\ WholePeople(metricRuns[r]) /\ WholePodcasts(metricRuns[r])

\* MetricsReadAreWhole needs what each run in progress has written so far, and
\* that no two finishes are the same, so that one of them is the latest
MetricsInv ==
  /\ MetricRunsApart
  /\ FinishesAreOrdered
  /\ SucceededAreWhole
  /\ \A p \in Process : MetricsStand(p)

LEMMA MetricsInit == Init => MetricsInv
  BY DEF Init, MetricsInv, MetricRunsApart, FinishesAreOrdered, SucceededAreWhole, MetricsStand,
         MetricsAt, MetricPhases

LEMMA LatestIsDone ==
  ASSUME Shapes, MetricsInv, LatestSucceededMetricRun # 0
  PROVE  /\ LatestSucceededMetricRun \in DOMAIN metricRuns
         /\ metricRuns[LatestSucceededMetricRun].status = "succeeded"
  <1> DEFINE done == {r \in DOMAIN metricRuns : metricRuns[r].status = "succeeded"}
             late(r) == finishes - metricRuns[r].finished
  <1>1. done # {} /\ LatestSucceededMetricRun
                       = CHOOSE r \in done : \A s \in done \ {r} : FinishedBefore(s, r)
    BY DEF LatestSucceededMetricRun
  <1>2. \A r \in DOMAIN metricRuns : metricRuns[r].finished \in Nat /\ metricRuns[r].finished <= finishes
    <2>1. \A r \in DOMAIN metricRuns : metricRuns[r] \in MetricRow
      BY DEF Shapes
    <2> QED
      BY <2>1 DEF MetricRow, MetricsInv, FinishesAreOrdered
  <1>3. {late(r) : r \in done} \in SUBSET Nat /\ {late(r) : r \in done} # {}
    <2>1. finishes \in Nat
      BY DEF Shapes
    <2>2. \A r \in done : late(r) \in Nat
      BY <1>2, <2>1
    <2> HIDE DEF late
    <2> QED
      BY <1>1, <2>2
  <1>4. PICK n \in {late(r) : r \in done} : \A m \in {late(r) : r \in done} : n <= m
    BY <1>3, LeastNatural
  <1>5. PICK r \in done : n = late(r)
    BY <1>4
  <1>6. ASSUME NEW s \in done \ {r} PROVE FinishedBefore(s, r)
    <2>1. late(r) <= late(s)
      BY <1>4, <1>5
    <2>2. metricRuns[r].finished # metricRuns[s].finished
      BY DEF MetricsInv, FinishesAreOrdered, SucceededAreWhole
    <2> QED
      BY <1>2, <2>1, <2>2 DEF FinishedBefore, Shapes
  <1>7. LatestSucceededMetricRun \in done
    BY <1>1, <1>6
  <1> QED
    BY <1>7

LEMMA WholeIsRead == Shapes /\ MetricsInv => MetricsReadAreWhole
  <1> SUFFICES ASSUME Shapes, MetricsInv, LatestSucceededMetricRun # 0
               PROVE  LET r == LatestSucceededMetricRun
                          rows == metricRuns[r].people
                      IN /\ DOMAIN rows = PeopleOf(metricRuns[r].seen)
                         /\ DOMAIN metricRuns[r].podcasts = PodcastsOf(metricRuns[r].seen)
                         /\ {rows[x].rank : x \in DOMAIN rows} = 1..Cardinality(DOMAIN rows)
    BY DEF MetricsReadAreWhole
  <1> DEFINE r == LatestSucceededMetricRun
             E == metricRuns[r].seen
  <1>1. r \in DOMAIN metricRuns /\ metricRuns[r].status = "succeeded"
    BY LatestIsDone
  <1>2. metricRuns[r].people = PersonRows(E, PeopleOf(E)) /\ metricRuns[r].podcasts = PodcastRows(E)
    BY <1>1 DEF MetricsInv, SucceededAreWhole, WholePeople, WholePodcasts
  <1>3. E \in SUBSET Episode
    <2>1. metricRuns[r] \in MetricRow
      BY <1>1 DEF Shapes
    <2> QED
      BY <2>1 DEF MetricRow
  <1> HIDE DEF r, E
  <1>4. DOMAIN metricRuns[r].podcasts = PodcastsOf(E)
    BY <1>2, PodcastRowsDomain
  <1> QED
    BY <1>2, <1>3, <1>4, RowsAreRanked DEF r, E

LEMMA InMetrics ==
  ASSUME Shapes, NEW p \in Process, pc[p] \in MetricsAt
  PROVE  /\ job[p] \in Locals /\ job[p].run \in DOMAIN metricRuns
         /\ metricRuns \in Seq(MetricRow) /\ metricRuns[job[p].run] \in MetricRow
         /\ job[p].seen \in SUBSET Episode
         /\ finishes \in Nat
  BY DEF Shapes, Locals

LEMMA OthersMeasure ==
  ASSUME NEW q \in Process, MetricsStand(q), pc'[q] = pc[q], job'[q] = job[q],
         pc[q] \in MetricsAt => metricRuns'[job[q].run] = metricRuns[job[q].run]
  PROVE  MetricsStand(q)'
  BY DEF MetricsStand, MetricsAt, MetricPhases, WholePeople, WholePodcasts

LEMMA IdleMeasures ==
  ASSUME NEW q \in Process, pc'[q] \notin MetricsAt
  PROVE  MetricsStand(q)'
  BY DEF MetricsStand, MetricsAt, MetricPhases

\* Steps that leave the metric runs alone: a read, a command of another kind,
\* a process that is killed
LEMMA MetricsBeside ==
  ASSUME Shapes, MetricsInv, UNCHANGED <<metricRuns, finishes>>, NEW p \in Process, Apart(p),
         \/ pc'[p] \notin MetricsAt
         \/ /\ pc[p] = "metric_graphs" /\ pc'[p] = "person_metrics"
            /\ job' = [job EXCEPT ![p].seen = linked]
  PROVE  MetricsInv'
  <1>1. pc'[p] \in MetricsAt => /\ pc[p] \in MetricsAt /\ pc'[p] = "person_metrics"
                                /\ job'[p].run = job[p].run
    <2>1. CASE pc'[p] \notin MetricsAt
      BY <2>1
    <2>2. CASE /\ pc[p] = "metric_graphs" /\ pc'[p] = "person_metrics"
               /\ job' = [job EXCEPT ![p].seen = linked]
      <3>1. job[p] \in Locals /\ job'[p] = [job[p] EXCEPT !.seen = linked]
        BY <2>2 DEF Shapes
      <3> QED
        BY <2>2, <3>1 DEF MetricsAt, MetricPhases, Locals
    <2> QED
      BY <2>1, <2>2
  <1>2. FinishesAreOrdered' /\ SucceededAreWhole'
    BY DEF MetricsInv, FinishesAreOrdered, SucceededAreWhole, WholePeople, WholePodcasts
  <1>3. MetricRunsApart'
    BY <1>1 DEF MetricsInv, MetricRunsApart, Apart
  <1>4. ASSUME NEW q \in Process PROVE MetricsStand(q)'
    <2>1. CASE q = p
      <3>1. CASE pc'[p] \notin MetricsAt
        BY <2>1, <3>1, IdleMeasures
      <3>2. CASE pc'[p] \in MetricsAt
        <4>1. metricRuns[job[p].run].status = "running" /\ metricRuns[job[p].run].finished = 0
          BY <1>1, <3>2 DEF MetricsInv, MetricsStand
        <4> QED
          BY <1>1, <2>1, <3>2, <4>1 DEF MetricsStand
      <3> QED
        BY <3>1, <3>2
    <2>2. CASE q # p
      BY <2>2, OthersMeasure DEF Apart, MetricsInv
    <2> QED
      BY <2>1, <2>2
  <1> QED
    BY <1>2, <1>3, <1>4 DEF MetricsInv

\* A step of a run on its own row
LEMMA MetricsOwnRow ==
  ASSUME Shapes, MetricsInv, NEW p \in Process, Apart(p), pc[p] \in MetricsAt,
         NEW row, metricRuns' = [metricRuns EXCEPT ![job[p].run] = row],
         pc'[p] \in MetricsAt => job'[p].run = job[p].run,
         MetricsStand(p)',
         finishes' \in Nat, finishes' >= finishes,
         \/ row.finished = 0
         \/ row.finished = finishes + 1 /\ finishes' = finishes + 1,
         row.status = "succeeded" =>
           row.finished # 0 /\ WholePeople(row) /\ WholePodcasts(row)
  PROVE  MetricsInv'
  <1> DEFINE r == job[p].run
  <1>0. r \in DOMAIN metricRuns /\ finishes \in Nat
        /\ \A s \in DOMAIN metricRuns : metricRuns[s].finished \in Nat
    <2>1. \A s \in DOMAIN metricRuns : metricRuns[s] \in MetricRow
      BY DEF Shapes
    <2> QED
      BY <2>1, InMetrics DEF MetricRow
  <1> HIDE DEF r
  <1>1. /\ DOMAIN metricRuns' = DOMAIN metricRuns /\ metricRuns'[r] = row
        /\ \A s \in DOMAIN metricRuns \ {r} : metricRuns'[s] = metricRuns[s]
    BY <1>0 DEF r
  <1>2. FinishesAreOrdered'
    <2>1. \A s \in DOMAIN metricRuns' : metricRuns'[s].finished <= finishes'
      BY <1>0, <1>1 DEF MetricsInv, FinishesAreOrdered
    <2>2. ASSUME NEW s \in DOMAIN metricRuns', NEW t \in DOMAIN metricRuns', s # t,
                 metricRuns'[s].finished = metricRuns'[t].finished
          PROVE  metricRuns'[s].finished = 0
      <3>1. CASE s # r /\ t # r
        BY <1>1, <2>2, <3>1 DEF MetricsInv, FinishesAreOrdered
      <3>2. CASE s = r \/ t = r
        BY <1>0, <1>1, <2>2, <3>2 DEF MetricsInv, FinishesAreOrdered
      <3> QED
        BY <3>1, <3>2
    <2> QED
      BY <2>1, <2>2 DEF FinishesAreOrdered
  <1>3. SucceededAreWhole'
    <2> SUFFICES ASSUME NEW s \in DOMAIN metricRuns', metricRuns'[s].status = "succeeded"
                 PROVE  /\ metricRuns'[s].finished # 0
                        /\ WholePeople(metricRuns'[s]) /\ WholePodcasts(metricRuns'[s])
      BY DEF SucceededAreWhole, WholePeople, WholePodcasts
    <2>1. CASE s = r
      BY <1>1, <2>1
    <2>2. CASE s # r
      BY <1>1, <2>2 DEF MetricsInv, SucceededAreWhole
    <2> QED
      BY <2>1, <2>2
  <1>4. MetricRunsApart'
    BY DEF MetricsInv, MetricRunsApart, Apart
  <1>5. ASSUME NEW q \in Process PROVE MetricsStand(q)'
    <2>1. CASE q = p
      BY <2>1
    <2>2. CASE q # p
      <3>1. pc'[q] = pc[q] /\ job'[q] = job[q]
        BY <2>2 DEF Apart
      <3>2. pc[q] \in MetricsAt => job[q].run # r /\ job[q].run \in DOMAIN metricRuns
        BY <2>2, InMetrics DEF MetricsInv, MetricRunsApart, r
      <3> QED
        BY <1>1, <3>1, <3>2, OthersMeasure DEF MetricsInv
    <2> QED
      BY <2>1, <2>2
  <1> QED
    BY <1>2, <1>3, <1>4, <1>5 DEF MetricsInv

LEMMA MetricsCreated ==
  ASSUME Shapes, MetricsInv, NEW p \in Process, CreateMetricRun(p)
  PROVE  MetricsInv'
  <1> DEFINE row == [status |-> "running", finished |-> 0, seen |-> {},
                     people |-> Unwritten, podcasts |-> Unwritten]
             n == Len(metricRuns) + 1
             locals == [NoJob EXCEPT !.run = n]
  <1>1. /\ Begin(p, "metrics", "metric_graphs", locals)
        /\ metricRuns' = Append(metricRuns, row) /\ finishes' = finishes
    BY DEF CreateMetricRun
  <1>2. n \in Nat /\ metricRuns \in Seq(MetricRow)
    BY DEF Shapes
  <1> HIDE DEF n
  <1>3. locals \in Locals /\ locals.run = n /\ "metric_graphs" \in Labels
    BY <1>2, NoJobShape DEF Locals, Labels
  <1> HIDE DEF locals
  <1>4. Apart(p) /\ pc'[p] = "metric_graphs" /\ job'[p] = locals
    BY <1>1, <1>3, BeginsAt
  <1>5. /\ DOMAIN metricRuns' = 1..n /\ metricRuns'[n] = row
        /\ DOMAIN metricRuns = 1..(n - 1)
        /\ \A r \in DOMAIN metricRuns : metricRuns'[r] = metricRuns[r]
    BY <1>1, <1>2 DEF n
  <1>6. row.status = "running" /\ row.finished = 0
    OBVIOUS
  <1>7. \A q \in Process : pc[q] \in MetricsAt => job[q].run \in DOMAIN metricRuns
    BY InMetrics
  <1> HIDE DEF row
  <1>8. FinishesAreOrdered'
    <2>1. finishes \in Nat
      BY DEF Shapes
    <2>2. \A r \in 1..n : r = n \/ r \in DOMAIN metricRuns
      BY <1>2, <1>5
    <2>3. \A s \in DOMAIN metricRuns' : metricRuns'[s].finished <= finishes'
      <3> TAKE s \in DOMAIN metricRuns'
      <3>1. CASE s = n
        BY <1>1, <1>5, <1>6, <2>1, <3>1
      <3>2. CASE s # n
        <4>1. s \in DOMAIN metricRuns
          BY <1>5, <2>2, <3>2
        <4> QED
          BY <1>1, <1>5, <4>1 DEF MetricsInv, FinishesAreOrdered
      <3> QED
        BY <3>1, <3>2
    <2>4. ASSUME NEW s \in DOMAIN metricRuns', NEW t \in DOMAIN metricRuns', s # t,
                 metricRuns'[s].finished = metricRuns'[t].finished
          PROVE  metricRuns'[s].finished = 0
      <3>1. CASE s = n \/ t = n
        BY <1>5, <1>6, <2>4, <3>1
      <3>2. CASE s # n /\ t # n
        <4>1. s \in DOMAIN metricRuns /\ t \in DOMAIN metricRuns
          BY <1>5, <2>2, <3>2
        <4> QED
          BY <1>5, <2>4, <4>1 DEF MetricsInv, FinishesAreOrdered
      <3> QED
        BY <3>1, <3>2
    <2> QED
      BY <2>3, <2>4 DEF FinishesAreOrdered
  <1>9. SucceededAreWhole'
    <2> SUFFICES ASSUME NEW s \in DOMAIN metricRuns', metricRuns'[s].status = "succeeded"
                 PROVE  /\ metricRuns'[s].finished # 0
                        /\ WholePeople(metricRuns'[s]) /\ WholePodcasts(metricRuns'[s])
      BY DEF SucceededAreWhole, WholePeople, WholePodcasts
    <2>1. s # n /\ s \in DOMAIN metricRuns
      BY <1>2, <1>5, <1>6
    <2> QED
      BY <1>5, <2>1 DEF MetricsInv, SucceededAreWhole
  <1>10. MetricRunsApart'
    <2>1. \A q \in Process : pc[q] \in MetricsAt => job[q].run # n
      BY <1>2, <1>5, <1>7
    <2> QED
      BY <1>3, <1>4, <2>1 DEF MetricsInv, MetricRunsApart, Apart
  <1>11. ASSUME NEW q \in Process PROVE MetricsStand(q)'
    <2>1. CASE q = p
      BY <1>3, <1>4, <1>5, <1>6, <2>1 DEF MetricsStand
    <2>2. CASE q # p
      <3>1. pc'[q] = pc[q] /\ job'[q] = job[q]
        BY <1>4, <2>2 DEF Apart
      <3> QED
        BY <1>5, <1>7, <3>1, OthersMeasure DEF MetricsInv
    <2> QED
      BY <2>1, <2>2
  <1> QED
    BY <1>8, <1>9, <1>10, <1>11 DEF MetricsInv

LEMMA MetricsWritten ==
  ASSUME Shapes, MetricsInv, NEW p \in Process,
         StorePersonMetrics(p) \/ StorePodcastMetrics(p)
  PROVE  MetricsInv'
  <1> DEFINE r == job[p].run
             E == job[p].seen
  <1>0. pc[p] \in MetricsAt
    BY DEF StorePersonMetrics, StorePodcastMetrics, MetricsAt, MetricPhases
  <1>1. /\ r \in DOMAIN metricRuns /\ metricRuns[r] \in MetricRow
        /\ metricRuns \in Seq(MetricRow) /\ E \in SUBSET Episode /\ finishes \in Nat
        /\ metricRuns[r].status = "running" /\ metricRuns[r].finished = 0
    BY <1>0, InMetrics DEF MetricsInv, MetricsStand
  <1>2. CASE StorePersonMetrics(p)
    <2> DEFINE row == [metricRuns[r] EXCEPT !.people = PersonRows(E, PeopleOf(E)), !.seen = E]
    <2>1. /\ metricRuns' = [metricRuns EXCEPT ![r] = row]
          /\ Goto(p, "podcast_metrics") /\ job' = job /\ finishes' = finishes
          /\ "podcast_metrics" \in Labels
      BY <1>2 DEF StorePersonMetrics, Labels
    <2>2. row.status = "running" /\ row.finished = 0 /\ row.seen = E /\ WholePeople(row)
      BY <1>1 DEF MetricRow, WholePeople
    <2>3. row \in MetricRow
      BY <1>1, MetricRowWritten
    <2> HIDE DEF row
    <2>4. pc'[p] = "podcast_metrics" /\ Apart(p)
      BY <2>1, GoesTo DEF Apart
    <2>5. metricRuns'[r] = row
      BY <1>1, <2>1, <2>3, RowReplaced
    <2>6. MetricsStand(p)'
      BY <2>1, <2>2, <2>4, <2>5 DEF MetricsStand, WholePeople, WholePodcasts
    <2>8. /\ Apart(p) /\ pc[p] \in MetricsAt
          /\ metricRuns' = [metricRuns EXCEPT ![job[p].run] = row]
          /\ pc'[p] \in MetricsAt => job'[p].run = job[p].run
          /\ MetricsStand(p)' /\ finishes' \in Nat /\ finishes' >= finishes
          /\ row.finished = 0 /\ row.status # "succeeded"
      BY <1>0, <1>1, <2>1, <2>2, <2>4, <2>6
    <2> HIDE DEF r, E
    <2> QED
      BY <2>8, MetricsOwnRow
  <1>3. CASE StorePodcastMetrics(p)
    <2> DEFINE row == [metricRuns[r] EXCEPT !.podcasts = PodcastRows(E)]
    <2>0. pc[p] = "podcast_metrics"
      BY <1>3 DEF StorePodcastMetrics
    <2>1. /\ metricRuns' = [metricRuns EXCEPT ![r] = row]
          /\ Goto(p, "metric_status") /\ job' = job /\ finishes' = finishes
          /\ "metric_status" \in Labels
      BY <1>3 DEF StorePodcastMetrics, Labels
    <2>7. metricRuns[r].seen = E /\ WholePeople(metricRuns[r])
      BY <2>0 DEF MetricsInv, MetricsStand
    <2>2. row.status = "running" /\ row.finished = 0 /\ row.seen = E
          /\ WholePeople(row) /\ WholePodcasts(row)
      BY <1>1, <2>7 DEF MetricRow, WholePeople, WholePodcasts
    <2>3. row \in MetricRow
      BY <1>1, MetricRowWritten
    <2> HIDE DEF row
    <2>4. pc'[p] = "metric_status" /\ Apart(p)
      BY <2>1, GoesTo DEF Apart
    <2>5. metricRuns'[r] = row
      BY <1>1, <2>1, <2>3, RowReplaced
    <2>6. MetricsStand(p)'
      BY <2>1, <2>2, <2>4, <2>5 DEF MetricsStand, WholePeople, WholePodcasts
    <2>8. /\ Apart(p) /\ pc[p] \in MetricsAt
          /\ metricRuns' = [metricRuns EXCEPT ![job[p].run] = row]
          /\ pc'[p] \in MetricsAt => job'[p].run = job[p].run
          /\ MetricsStand(p)' /\ finishes' \in Nat /\ finishes' >= finishes
          /\ row.finished = 0 /\ row.status # "succeeded"
      BY <1>0, <1>1, <2>1, <2>2, <2>4, <2>6
    <2> HIDE DEF r, E
    <2> QED
      BY <2>8, MetricsOwnRow
  <1> QED
    BY <1>2, <1>3

LEMMA MetricsFinished ==
  ASSUME Shapes, MetricsInv, NEW p \in Process, SucceedMetrics(p) \/ FailMetrics(p)
  PROVE  MetricsInv'
  <1> DEFINE r == job[p].run
  <1>0. pc[p] \in MetricsAt
    BY DEF SucceedMetrics, FailMetrics, MetricsAt, MetricPhases
  <1>1. /\ r \in DOMAIN metricRuns /\ metricRuns[r] \in MetricRow
        /\ metricRuns \in Seq(MetricRow) /\ finishes \in Nat
    BY <1>0, InMetrics
  <1>2. PICK status \in {"succeeded", "failed"} :
          /\ FinishMetricRun(p, status)
          /\ status = "succeeded" => WholePeople(metricRuns[r]) /\ WholePodcasts(metricRuns[r])
    <2>1. CASE SucceedMetrics(p)
      BY <2>1 DEF SucceedMetrics, MetricsInv, MetricsStand
    <2>2. CASE FailMetrics(p)
      BY <2>2 DEF FailMetrics
    <2> QED
      BY <2>1, <2>2
  <1> DEFINE row == [metricRuns[r] EXCEPT !.status = status, !.finished = finishes + 1]
  <1>3. /\ metricRuns' = [metricRuns EXCEPT ![r] = row]
        /\ finishes' = finishes + 1 /\ Idle(p)
    BY <1>2 DEF FinishMetricRun
  <1>4. /\ row.status = status /\ row.finished = finishes + 1
        /\ row.seen = metricRuns[r].seen /\ row.people = metricRuns[r].people
        /\ row.podcasts = metricRuns[r].podcasts
    BY <1>1 DEF MetricRow
  <1> HIDE DEF row
  <1>5. Apart(p) /\ pc'[p] = "idle"
    BY <1>3, IdlesAt
  <1>6. MetricsStand(p)' /\ pc'[p] \notin MetricsAt
    BY <1>5, IdleMeasures DEF MetricsAt, MetricPhases
  <1>7. row.status = "succeeded" =>
          row.finished # 0 /\ WholePeople(row) /\ WholePodcasts(row)
    BY <1>1, <1>2, <1>4 DEF WholePeople, WholePodcasts
  <1>8. /\ metricRuns' = [metricRuns EXCEPT ![job[p].run] = row]
        /\ finishes' \in Nat /\ finishes' >= finishes
        /\ row.finished = finishes + 1 /\ finishes' = finishes + 1
    BY <1>1, <1>3, <1>4
  <1> HIDE DEF r
  <1> QED
    BY <1>0, <1>5, <1>6, <1>7, <1>8, MetricsOwnRow

LEMMA MetricsStepKept == Shapes /\ MetricsInv /\ [Next]_vars => MetricsInv'
  <1> SUFFICES ASSUME Shapes, MetricsInv, [Next]_vars PROVE MetricsInv'
    OBVIOUS
  <1>1. CASE UNCHANGED <<metricRuns, finishes, pc, job>>
    BY <1>1 DEF MetricsInv, MetricRunsApart, FinishesAreOrdered, SucceededAreWhole,
                MetricsStand, WholePeople, WholePodcasts
  <1>2. CASE UNCHANGED vars \/ CatalogStep
    BY <1>1, <1>2 DEF vars, metrics, CatalogStep, IngestEpisode, LinkEpisode
  <1>3. ASSUME NEW p \in Process, ReadsOrPredicts(p) PROVE MetricsInv'
    BY <1>3, ReadsOrPredictsFrame, MetricsBeside DEF metrics
  <1>4. ASSUME NEW p \in Process, EvolutionStep(p) PROVE MetricsInv'
    BY <1>4, EvolutionFrame, MetricsBeside DEF metrics
  <1>5. ASSUME NEW p \in Process, MetricsStep(p) PROVE MetricsInv'
    BY <1>5, MetricsCreated, MetricsWritten, MetricsFinished DEF MetricsStep
  <1> QED
    BY <1>2, <1>3, <1>4, <1>5, StepsOfNext

\* The latest succeeded metric run has a row for every person and podcast that was
\* linked when it read the links, with ranks 1..n: a run that fails or is killed
\* between its transactions is never the one that is read
\* (latest_succeeded_metric_run).
THEOREM MetricsAreWhole == Spec => []MetricsReadAreWhole
  BY MetricsInit, MetricsStepKept, WholeIsRead, AnalysisShapes, PTL DEF Spec

----------------------------------------------------------------------------
(* Growth adds up *)

\* What each episode shows, from a date on and before it
LEMMA OldAndNew ==
  ASSUME NEW past, NEW from \in Int, NEW shown,
         \A e \in past : Published[e] \in Int,
         NEW all, \A x : x \in all <=> \E e \in past : x \in shown[e],
         NEW old, \A x : x \in old <=> \E e \in past : Published[e] < from /\ x \in shown[e],
         IsFiniteSet(all)
  PROVE  Cardinality(all) = Cardinality(old) + Cardinality(NewSince(shown, past, all, from))
  <1> DEFINE new == NewSince(shown, past, all, from)
  <1>1. \A x : x \in all <=> x \in old \/ x \in new
    BY DEF NewSince
  <1>2. \A x : ~ (x \in old /\ x \in new)
    BY DEF NewSince
  <1> HIDE DEF new
  <1>3. all = old \cup new /\ old \cap new = {} /\ old \subseteq all /\ new \subseteq all
    BY <1>1, <1>2
  <1>4. IsFiniteSet(old) /\ IsFiniteSet(new)
    BY <1>3, FS_Subset
  <1>5. Cardinality(old \cup new) = Cardinality(old) + Cardinality(new) - Cardinality(old \cap new)
    BY <1>4, FS_Union
  <1>6. Cardinality(old \cap new) = 0 /\ Cardinality(old) \in Nat /\ Cardinality(new) \in Nat
    BY <1>3, <1>4, FS_EmptySet, FS_CardinalityType
  <1>7. Cardinality(all) = Cardinality(old) + Cardinality(new)
    BY <1>3, <1>5, <1>6
  <1> QED
    BY <1>7 DEF new

\* The graph of some episodes is made of the graphs of each
LEMMA GraphByEpisode ==
  ASSUME NEW E, NEW x
  PROVE  /\ x \in PeopleOf(E) <=> \E e \in E : x \in PeopleOf({e})
         /\ x \in PodcastsOf(E) <=> \E e \in E : x \in PodcastsOf({e})
         /\ x \in EdgesOf(E) <=> \E e \in E : x \in EpisodeEdges(e)
  <1>1. \A F : x \in PeopleOf(F) <=> \E e \in F : x \in GuestsOf[e] \cup HostsOf[e]
    BY DEF PeopleOf
  <1>2. \A F : x \in PodcastsOf(F) <=>
          \E e \in F : GuestsOf[e] \cup HostsOf[e] # {} /\ x = PodcastOf[e]
    BY DEF PodcastsOf
  <1>3. x \in EdgesOf(E) <=> \E e \in E : x \in EpisodeEdges(e)
    BY DEF EdgesOf
  <1>4. x \in PeopleOf(E) <=> \E e \in E : x \in PeopleOf({e})
    BY <1>1
  <1>5. x \in PodcastsOf(E) <=> \E e \in E : x \in PodcastsOf({e})
    BY <1>2
  <1> QED
    BY <1>3, <1>4, <1>5

\* Of a snapshot: the week's people, edges and podcasts, and those before it
LEMMA SnapshotGrows ==
  ASSUME NEW E \in SUBSET Episode, NEW w \in Nat, NEW tracked
  PROVE  LET now == Snapshot(E, w, tracked)
             old == Before(now.seen, WeekStartAt(w))
         IN /\ now.people = Cardinality(PeopleOf(old)) + now.newPeople
            /\ now.edges = Cardinality(EdgesOf(old)) + now.newEdges
            /\ now.podcasts = Cardinality(PodcastsOf(old)) + now.newPodcasts
  <1> DEFINE past == Before(E, WeekCutoff(w))
             from == WeekStartAt(w)
             old == {d \in past : Published[d] < from}
             now == Snapshot(E, w, tracked)
             people == [e \in past |-> PeopleOf({e})]
             podcasts == [e \in past |-> PodcastsOf({e})]
  <1>1. /\ now.seen = past
        /\ now.people = Cardinality(PeopleOf(past))
        /\ now.edges = Cardinality(EdgesOf(past))
        /\ now.podcasts = Cardinality(PodcastsOf(past))
        /\ now.newPeople = Cardinality(NewSince(people, past, PeopleOf(past), from))
        /\ now.newEdges = Cardinality(NewSince(EdgesSeen(past), past, EdgesOf(past), from))
        /\ now.newPodcasts = Cardinality(NewSince(podcasts, past, PodcastsOf(past), from))
    BY DEF Snapshot
  <1>2. past \in SUBSET Episode /\ from \in Int /\ Before(past, from) = old
    BY AnalysisAssumption DEF Before, WeekStartAt
  <1> HIDE DEF past, from, now
  <1>3. \A e \in past : Published[e] \in Int
    BY <1>2, FutureLinksAssumption
  <1>4. /\ IsFiniteSet(PeopleOf(past)) /\ IsFiniteSet(EdgesOf(past))
        /\ IsFiniteSet(PodcastsOf(past))
    BY <1>2, GraphIsFinite
  <1>5. Cardinality(PeopleOf(past)) = Cardinality(PeopleOf(old))
          + Cardinality(NewSince(people, past, PeopleOf(past), from))
    <2>1. \A x : x \in PeopleOf(past) <=> \E e \in past : x \in people[e]
      BY GraphByEpisode
    <2>2. \A x : x \in PeopleOf(old) <=> \E e \in past : Published[e] < from /\ x \in people[e]
      <3>1. \A e : e \in old <=> e \in past /\ Published[e] < from
        OBVIOUS
      <3>2. \A e \in past : people[e] = PeopleOf({e})
        BY DEF people
      <3> HIDE DEF old, people
      <3>3. \A x : x \in PeopleOf(old) <=> \E e \in old : x \in PeopleOf({e})
        BY GraphByEpisode
      <3> QED
        BY <3>1, <3>2, <3>3, ZenonT(40)
    <2> HIDE DEF people, old
    <2> QED
      BY <1>2, <1>3, <1>4, <2>1, <2>2, OldAndNew, ZenonT(40)
  <1>6. Cardinality(EdgesOf(past)) = Cardinality(EdgesOf(old))
          + Cardinality(NewSince(EdgesSeen(past), past, EdgesOf(past), from))
    <2> DEFINE shown == EdgesSeen(past)
    <2>1. \A x : x \in EdgesOf(past) <=> \E e \in past : x \in shown[e]
      BY GraphByEpisode DEF EdgesSeen
    <2>2. \A x : x \in EdgesOf(old) <=> \E e \in past : Published[e] < from /\ x \in shown[e]
      <3>1. \A e : e \in old <=> e \in past /\ Published[e] < from
        OBVIOUS
      <3>2. \A e \in past : shown[e] = EpisodeEdges(e)
        BY DEF EdgesSeen
      <3> HIDE DEF old, shown
      <3>3. \A x : x \in EdgesOf(old) <=> \E e \in old : x \in EpisodeEdges(e)
        BY GraphByEpisode
      <3> QED
        BY <3>1, <3>2, <3>3
    <2> HIDE DEF old
    <2> QED
      BY <1>2, <1>3, <1>4, <2>1, <2>2, OldAndNew, ZenonT(40)
  <1>7. Cardinality(PodcastsOf(past)) = Cardinality(PodcastsOf(old))
          + Cardinality(NewSince(podcasts, past, PodcastsOf(past), from))
    <2>1. \A x : x \in PodcastsOf(past) <=> \E e \in past : x \in podcasts[e]
      BY GraphByEpisode
    <2>2. \A x : x \in PodcastsOf(old) <=> \E e \in past : Published[e] < from /\ x \in podcasts[e]
      <3>1. \A e : e \in old <=> e \in past /\ Published[e] < from
        OBVIOUS
      <3>2. \A e \in past : podcasts[e] = PodcastsOf({e})
        BY DEF podcasts
      <3> HIDE DEF old, podcasts
      <3>3. \A x : x \in PodcastsOf(old) <=> \E e \in old : x \in PodcastsOf({e})
        BY GraphByEpisode
      <3> QED
        BY <3>1, <3>2, <3>3, ZenonT(40)
    <2> HIDE DEF podcasts, old
    <2> QED
      BY <1>2, <1>3, <1>4, <2>1, <2>2, OldAndNew, ZenonT(40)
  <1> QED
    BY <1>1, <1>2, <1>5, <1>6, <1>7 DEF now, from

\* A stored snapshot is the one of its week, from some episodes
SnapshotsAreComputed ==
  \A w \in Stored : \E E \in SUBSET Episode, tracked \in SUBSET Person :
    snapshots[w] = Snapshot(E, w, tracked)

LEMMA ComputedAddUp == SnapshotsAreComputed => GrowthAddsUp
  <1> SUFFICES ASSUME SnapshotsAreComputed, NEW w \in Stored \ {0}, w - 1 \in Stored,
                      Before(snapshots[w].seen, WeekCutoff(w - 1)) = snapshots[w - 1].seen
               PROVE  LET now == snapshots[w]
                          then == snapshots[w - 1]
                      IN /\ now.people = then.people + now.newPeople
                         /\ now.edges = then.edges + now.newEdges
                         /\ now.podcasts = then.podcasts + now.newPodcasts
    BY DEF GrowthAddsUp
  <1>1. PICK E \in SUBSET Episode, T \in SUBSET Person : snapshots[w] = Snapshot(E, w, T)
    BY DEF SnapshotsAreComputed
  <1>2. PICK D \in SUBSET Episode, U \in SUBSET Person :
          snapshots[w - 1] = Snapshot(D, w - 1, U)
    BY DEF SnapshotsAreComputed
  <1> DEFINE now == snapshots[w]
             then == snapshots[w - 1]
             old == Before(now.seen, WeekStartAt(w))
  <1>3. w \in Nat /\ (w - 1) + 1 = w
    BY DEF Stored, Weeks
  <1>4. WeekCutoff(w - 1) = WeekStartAt(w)
    BY <1>3 DEF WeekCutoff
  <1>5. then.seen = old
    BY <1>4
  <1>6. /\ then.people = Cardinality(PeopleOf(then.seen))
        /\ then.edges = Cardinality(EdgesOf(then.seen))
        /\ then.podcasts = Cardinality(PodcastsOf(then.seen))
    BY <1>2 DEF Snapshot
  <1>7. /\ now.people = Cardinality(PeopleOf(old)) + now.newPeople
        /\ now.edges = Cardinality(EdgesOf(old)) + now.newEdges
        /\ now.podcasts = Cardinality(PodcastsOf(old)) + now.newPodcasts
    BY <1>1, <1>3, SnapshotGrows
  <1> QED
    BY <1>5, <1>6, <1>7

LEMMA RowsForPeople ==
  ASSUME NEW E \in SUBSET Episode, NEW w
  PROVE  RowsFor(E, w) \in SUBSET Person
  <1>1. Before(E, WeekCutoff(w)) \in SUBSET Episode
    BY DEF Before
  <1>2. PeopleOf(Before(E, WeekCutoff(w))) \subseteq Person
    BY <1>1, GraphIsFinite
  <1> QED
    BY <1>2 DEF RowsFor, Top

LEMMA ComputedStep == Shapes /\ SnapshotsAreComputed /\ [Next]_vars => SnapshotsAreComputed'
  <1> SUFFICES ASSUME Shapes, SnapshotsAreComputed, [Next]_vars PROVE SnapshotsAreComputed'
    OBVIOUS
  <1>1. CASE UNCHANGED snapshots
    BY <1>1 DEF SnapshotsAreComputed, Stored
  <1>2. CASE UNCHANGED vars \/ CatalogStep
    BY <1>1, <1>2 DEF vars, evolution, CatalogStep, IngestEpisode, LinkEpisode
  <1>3. ASSUME NEW p \in Process, ReadsOrPredicts(p) \/ MetricsStep(p) PROVE SnapshotsAreComputed'
    BY <1>1, <1>3, ReadsOrPredictsFrame, MetricsFrame DEF evolution
  <1>4. ASSUME NEW p \in Process, CalculateWeek(p) PROVE SnapshotsAreComputed'
    <2> DEFINE v == job[p].weeks[1]
    <2>1. CASE snapshots' = [snapshots EXCEPT ![v] = Snapshot(linked, v, RowsFor(linked, v))]
      <3>1. linked \in SUBSET Episode /\ snapshots = [w \in Weeks |-> snapshots[w]]
        BY DEF Shapes
      <3>2. RowsFor(linked, v) \in SUBSET Person
        BY <3>1, RowsForPeople
      <3> HIDE DEF v
      <3> SUFFICES ASSUME NEW w \in Stored'
                   PROVE  \E E \in SUBSET Episode, tracked \in SUBSET Person :
                            snapshots'[w] = Snapshot(E, w, tracked)
        BY DEF SnapshotsAreComputed
      <3>3. CASE w = v
        <4>1. w \in Weeks
          BY DEF Stored
        <4>2. snapshots'[w] = Snapshot(linked, w, RowsFor(linked, w))
          BY <2>1, <3>1, <3>3, <4>1
        <4> QED
          BY <3>1, <3>2, <3>3, <4>2
      <3>4. CASE w # v
        <4>1. w \in Weeks /\ snapshots'[w] # None
          BY DEF Stored
        <4>2. snapshots'[w] = snapshots[w]
          BY <2>1, <3>1, <3>4, <4>1
        <4>3. w \in Stored
          BY <4>1, <4>2 DEF Stored
        <4> QED
          BY <4>2, <4>3 DEF SnapshotsAreComputed
      <3> QED
        BY <3>3, <3>4
    <2> QED
      BY <1>1, <1>4, <2>1 DEF CalculateWeek
  <1>5. ASSUME NEW p \in Process, ResetNetworkEvolutionTables(p) PROVE SnapshotsAreComputed'
    BY <1>5 DEF ResetNetworkEvolutionTables, SnapshotsAreComputed, Stored
  <1>6. ASSUME NEW p \in Process, EvolutionStep(p) PROVE SnapshotsAreComputed'
    BY <1>1, <1>4, <1>5, <1>6 DEF EvolutionStep, CreateEvolutionRun, SkipEvolution, RequestWeeks,
       SaveWeeksCalculated, SucceedEvolution, FailEvolution, FinishRun
  <1> QED
    BY <1>2, <1>3, <1>6, StepsOfNext

\* People, edges and podcasts of a stored week are those of the week before and
\* the new ones, unless an episode of an earlier week was linked in between
\* (calculate_week_snapshot).
THEOREM GrowthIsExplained == Spec => []GrowthAddsUp
  <1>1. Init => SnapshotsAreComputed
    BY DEF Init, SnapshotsAreComputed, Stored
  <1> QED
    BY <1>1, ComputedStep, ComputedAddUp, AnalysisShapes, PTL DEF Spec

----------------------------------------------------------------------------
(* Sums over finite sets *)

\* Induction over the subsets of a finite set: a smallest one of some
LEMMA SmallestSubset ==
  ASSUME NEW U, IsFiniteSet(U), NEW C, \A T \in C : T \in SUBSET U, C # {}
  PROVE  \E S \in C : \A T \in SUBSET U : Cardinality(T) < Cardinality(S) => T \notin C
  <1>1. \A S \in SUBSET U : IsFiniteSet(S) /\ Cardinality(S) \in Nat
    BY FS_Subset, FS_CardinalityType
  <1> DEFINE sizes == {Cardinality(S) : S \in C}
  <1>2. sizes \in SUBSET Nat /\ sizes # {}
    BY <1>1
  <1>3. PICK n \in sizes : \A m \in sizes : n <= m
    BY <1>2, LeastNatural
  <1>4. PICK S \in C : Cardinality(S) = n
    BY <1>3
  <1>5. ASSUME NEW T \in C, Cardinality(T) < Cardinality(S) PROVE FALSE
    BY <1>1, <1>3, <1>4, <1>5
  <1> QED
    BY <1>5

One(s) == CHOOSE x \in s : TRUE

\* The function MapThenSumSet chooses
Sums(f, S, iter) ==
  iter = [s \in SUBSET S |-> IF s = {} THEN 0 ELSE f[One(s)] + iter[s \ {One(s)}]]

LEMMA SumUnfold ==
  ASSUME NEW f, NEW S
  PROVE  SumOver(f, S) = (CHOOSE iter : Sums(f, S, iter))[S]
  BY DEF SumOver, MapThenSumSet, MapThenFoldSet, Sums, One

LEMMA OneLess ==
  ASSUME NEW U, IsFiniteSet(U), NEW S \in SUBSET U, NEW x \in S
  PROVE  /\ S \ {x} \in SUBSET U
         /\ IsFiniteSet(S) /\ IsFiniteSet(S \ {x})
         /\ Cardinality(S) \in Nat /\ Cardinality(S \ {x}) \in Nat
         /\ Cardinality(S \ {x}) = Cardinality(S) - 1
  BY FS_Subset, FS_CardinalityType, FS_RemoveElement

LEMMA OneIsIn ==
  ASSUME NEW S, S # {}
  PROVE  One(S) \in S
  BY DEF One

LEMMA WithoutOne ==
  ASSUME NEW U, IsFiniteSet(U), NEW T \in SUBSET U, T # {}
  PROVE  /\ One(T) \in T /\ IsFiniteSet(T)
         /\ T \ {One(T)} \in SUBSET U
         /\ Cardinality(T \ {One(T)}) < Cardinality(T)
  <1> DEFINE z == One(T)
  <1>1. z \in T /\ T \in SUBSET U
    BY OneIsIn
  <1> HIDE DEF z
  <1>2. /\ T \ {z} \in SUBSET U /\ IsFiniteSet(T)
        /\ Cardinality(T \ {z}) = Cardinality(T) - 1
        /\ Cardinality(T) \in Nat
    BY <1>1, OneLess
  <1>3. Cardinality(T \ {z}) < Cardinality(T)
    BY <1>2
  <1> QED
    BY <1>1, <1>2, <1>3 DEF z

\* The recursion of the fold has a solution
LEMMA SumsExist ==
  ASSUME NEW f, NEW S, IsFiniteSet(S)
  PROVE  \E iter : Sums(f, S, iter)
  <1> DEFINE small(k) == {s \in SUBSET S : Cardinality(s) <= k}
             value(g, s) == IF s = {} THEN 0 ELSE f[One(s)] + g[s \ {One(s)}]
             Partly(k) == \E g : g = [s \in small(k) |-> value(g, s)]
             Never == {k \in Nat : ~ Partly(k)}
  <1>1. \A s \in SUBSET S : IsFiniteSet(s) /\ Cardinality(s) \in Nat
    BY FS_Subset, FS_CardinalityType
  <1>2. \A s \in SUBSET S : s # {} =>
          /\ s \ {One(s)} \in SUBSET S
          /\ Cardinality(s \ {One(s)}) = Cardinality(s) - 1
    <2> TAKE s \in SUBSET S
    <2> HAVE s # {}
    <2>1. One(s) \in s
      BY OneIsIn
    <2> QED
      BY <2>1, OneLess
  <1>3. Partly(0)
    <2> DEFINE g == [s \in small(0) |-> 0]
    <2>1. \A s \in small(0) : s = {}
      <3> TAKE s \in small(0)
      <3>1. s \in SUBSET S /\ Cardinality(s) = 0
        BY <1>1
      <3> SUFFICES ASSUME s # {} PROVE FALSE
        OBVIOUS
      <3>2. s \ {One(s)} \in SUBSET S /\ Cardinality(s \ {One(s)}) = 0 - 1
        BY <1>2, <3>1
      <3>3. Cardinality(s \ {One(s)}) \in Nat
        BY <1>1, <3>2
      <3> QED
        BY <3>2, <3>3
    <2>2. g = [s \in small(0) |-> value(g, s)]
      BY <2>1
    <2> QED
      BY <2>2
  <1>4. ASSUME NEW k \in Nat, Partly(k) PROVE Partly(k + 1)
    <2>1. PICK g : g = [s \in small(k) |-> value(g, s)]
      BY <1>4
    <2> DEFINE more == [s \in small(k + 1) |-> value(g, s)]
    <2>2. \A s \in small(k) : s \in small(k + 1) /\ more[s] = g[s]
      <3> TAKE s \in small(k)
      <3>1. s \in small(k + 1)
        BY <1>1
      <3>2. more[s] = value(g, s)
        BY <3>1
      <3>3. g[s] = value(g, s)
        <4> HIDE DEF value
        <4> QED
          BY <2>1
      <3> QED
        BY <3>1, <3>2, <3>3
    <2>3. \A s \in small(k + 1) : s # {} => s \ {One(s)} \in small(k)
      <3> TAKE s \in small(k + 1)
      <3> HAVE s # {}
      <3>1. s \in SUBSET S /\ Cardinality(s) <= k + 1 /\ Cardinality(s) \in Nat
        BY <1>1
      <3>2. s \ {One(s)} \in SUBSET S /\ Cardinality(s \ {One(s)}) <= k
        BY <1>2, <3>1
      <3> QED
        BY <3>2
    <2>4. \A s \in small(k + 1) : value(g, s) = value(more, s)
      BY <2>2, <2>3
    <2>5. more = [s \in small(k + 1) |-> value(more, s)]
      BY <2>4
    <2> QED
      BY <2>5
  <1> HIDE DEF Partly
  <1>5. Never = {}
    <2> SUFFICES ASSUME Never # {} PROVE FALSE
      OBVIOUS
    <2>1. PICK k \in Never : \A m \in Never : k <= m
      BY LeastNatural
    <2>2. k # 0
      BY <1>3
    <2>3. k - 1 \in Nat /\ ~ (k <= k - 1)
      BY <2>2
    <2>4. Partly(k - 1)
      BY <2>1, <2>3
    <2>5. Partly((k - 1) + 1)
      BY <1>4, <2>3, <2>4
    <2>6. (k - 1) + 1 = k
      BY <2>1
    <2> QED
      BY <2>1, <2>5, <2>6
  <1>6. Cardinality(S) \in Nat /\ Partly(Cardinality(S))
    BY <1>1, <1>5
  <1>7. small(Cardinality(S)) = SUBSET S
    <2>1. \A s \in SUBSET S : Cardinality(s) <= Cardinality(S)
      BY FS_Subset
    <2> QED
      BY <2>1
  <1>8. PICK g : g = [s \in small(Cardinality(S)) |-> value(g, s)]
    BY <1>6 DEF Partly
  <1>9. Sums(f, S, g)
    BY <1>7, <1>8 DEF Sums
  <1> QED
    BY <1>9

\* ... and only one, where f and g have the same values
Agree(f, g, S) == \A q \in S : f[q] = g[q]

LEMMA SumsAgree ==
  ASSUME NEW f, NEW g, NEW S, NEW R, IsFiniteSet(S \cap R), NEW iter, Sums(f, S, iter), NEW jter, Sums(g, R, jter),
         Agree(f, g, S \cap R)
  PROVE  \A T \in SUBSET (S \cap R) : iter[T] = jter[T]
  <1> DEFINE U == S \cap R
         C == {T \in SUBSET (S \cap R) : iter[T] # jter[T]}
  <1> SUFFICES ASSUME C # {} PROVE FALSE
    OBVIOUS
  <1>1. \A T \in C : T \in SUBSET U /\ T \in SUBSET S /\ T \in SUBSET R /\ iter[T] # jter[T]
    OBVIOUS
  <1>0. \A L \in SUBSET (S \cap R) : L \notin C => iter[L] = jter[L]
    OBVIOUS
  <1>9. \A X \in SUBSET U : X \in SUBSET S /\ X \in SUBSET R
    OBVIOUS
  <1> HIDE DEF C
  <1>2. PICK T \in C : \A X \in SUBSET U : Cardinality(X) < Cardinality(T) => X \notin C
    BY <1>1, SmallestSubset
  <1>3. T \in SUBSET S /\ T \in SUBSET R /\ T \in SUBSET U /\ iter[T] # jter[T]
    BY <1>1
  <1>4. /\ iter[T] = IF T = {} THEN 0 ELSE f[One(T)] + iter[T \ {One(T)}]
        /\ jter[T] = IF T = {} THEN 0 ELSE g[One(T)] + jter[T \ {One(T)}]
    BY <1>3 DEF Sums
  <1>5. CASE T = {}
    BY <1>3, <1>4, <1>5
  <1>6. CASE T # {}
    <2>1. One(T) \in T
      BY <1>6, OneIsIn
    <2> DEFINE L == T \ {One(T)}
    <2>3. L \in SUBSET U /\ Cardinality(L) < Cardinality(T)
      BY <1>3, <1>6, WithoutOne
    <2>4. L \notin C
      BY <1>2, <2>3
    <2>5. iter[L] = jter[L]
      BY <1>0, <2>3, <2>4
    <2>6. f[One(T)] = g[One(T)]
      <3>1. One(T) \in S \cap R
        BY <1>3, <2>1
      <3> QED
        BY <3>1 DEF Agree
    <2> QED
      BY <1>3, <1>4, <1>6, <2>5, <2>6
  <1> QED
    BY <1>5, <1>6

LEMMA SumOfNothing ==
  ASSUME NEW f
  PROVE  SumOver(f, {}) = 0
  <1>1. IsFiniteSet({})
    BY FS_EmptySet
  <1>2. PICK iter : iter = (CHOOSE i : Sums(f, {}, i)) /\ Sums(f, {}, iter)
    BY <1>1, SumsExist
  <1>3. iter[{}] = 0
    BY <1>2 DEF Sums
  <1> QED
    BY <1>2, <1>3, SumUnfold

LEMMA SumByOne ==
  ASSUME NEW f, NEW S, IsFiniteSet(S), S # {}
  PROVE  SumOver(f, S) = f[One(S)] + SumOver(f, S \ {One(S)})
  <1> DEFINE L == S \ {One(S)}
  <1>1. One(S) \in S /\ S \in SUBSET S
    BY OneIsIn
  <1>2. L \in SUBSET S /\ IsFiniteSet(L)
    BY <1>1, OneLess
  <1>3. PICK iter : iter = (CHOOSE i : Sums(f, S, i)) /\ Sums(f, S, iter)
    BY SumsExist
  <1>4. PICK jter : jter = (CHOOSE i : Sums(f, L, i)) /\ Sums(f, L, jter)
    BY <1>2, SumsExist
  <1>5. iter[S] = f[One(S)] + iter[L]
    BY <1>1, <1>3 DEF Sums
  <1>6. L \in SUBSET (S \cap L)
    OBVIOUS
  <1> HIDE DEF L
  <1>7. iter[L] = jter[L]
    <2>1. IsFiniteSet(S \cap L) /\ Sums(f, S, iter) /\ Sums(f, L, jter)
      BY <1>2, <1>3, <1>4, FS_Intersection
    <2>2. Agree(f, f, S \cap L)
      BY DEF Agree
    <2>3. \A T \in SUBSET (S \cap L) : iter[T] = jter[T]
      BY <2>1, <2>2, SumsAgree
    <2> QED
      BY <1>6, <2>3
  <1>8. SumOver(f, S) = iter[S] /\ SumOver(f, L) = jter[L]
    BY <1>3, <1>4, SumUnfold
  <1> QED
    BY <1>5, <1>7, <1>8 DEF L

LEMMA SumIsNatural ==
  ASSUME NEW f, NEW U, IsFiniteSet(U), \A q \in U : f[q] \in Nat, NEW S \in SUBSET U
  PROVE  SumOver(f, S) \in Nat
  <1> DEFINE C == {T \in SUBSET U : SumOver(f, T) \notin Nat}
  <1> SUFFICES ASSUME C # {} PROVE FALSE
    OBVIOUS
  <1>0. \A T \in SUBSET U : (T \in C) <=> (SumOver(f, T) \notin Nat)
    OBVIOUS
  <1>20. \A T \in C : T \in SUBSET U
    OBVIOUS
  <1> HIDE DEF C
  <1>1. PICK T \in C : \A X \in SUBSET U : Cardinality(X) < Cardinality(T) => X \notin C
    BY <1>20, SmallestSubset
  <1>21. T \in SUBSET U /\ SumOver(f, T) \notin Nat
    BY <1>0, <1>20
  <1>2. T # {}
    BY <1>21, SumOfNothing
  <1>3. One(T) \in T /\ IsFiniteSet(T)
    BY <1>21, <1>2, WithoutOne
  <1>4. T \ {One(T)} \in SUBSET U /\ Cardinality(T \ {One(T)}) < Cardinality(T)
    BY <1>21, <1>2, WithoutOne
  <1>5. SumOver(f, T \ {One(T)}) \in Nat
    BY <1>0, <1>1, <1>4
  <1>6. SumOver(f, T) = f[One(T)] + SumOver(f, T \ {One(T)})
    BY <1>2, <1>3, SumByOne
  <1>7. f[One(T)] \in Nat
    BY <1>21, <1>3
  <1> QED
    BY <1>21, <1>5, <1>6, <1>7

\* Any member can be taken out first
LEMMA SumWithout ==
  ASSUME NEW f, NEW U, IsFiniteSet(U), \A q \in U : f[q] \in Nat,
         NEW S \in SUBSET U, NEW x \in S
  PROVE  SumOver(f, S) = f[x] + SumOver(f, S \ {x})
  <1> DEFINE C == {T \in SUBSET U : \E y \in T : SumOver(f, T) # f[y] + SumOver(f, T \ {y})}
  <1> SUFFICES ASSUME C # {} PROVE FALSE
    OBVIOUS
  <1>0. \A T \in SUBSET U : (T \in C) <=> (\E y \in T : SumOver(f, T) # f[y] + SumOver(f, T \ {y}))
    OBVIOUS
  <1>20. \A T \in C : T \in SUBSET U
    OBVIOUS
  <1> HIDE DEF C
  <1>1. PICK T \in C : \A X \in SUBSET U : Cardinality(X) < Cardinality(T) => X \notin C
    BY <1>20, SmallestSubset
  <1>2. PICK y \in T : SumOver(f, T) # f[y] + SumOver(f, T \ {y})
    BY <1>0, <1>20
  <1> DEFINE z == One(T)
  <1>3. T # {} /\ T \in SUBSET U /\ IsFiniteSet(T)
    BY <1>2, <1>20, FS_Subset
  <1>4. z \in T
    BY <1>3, OneIsIn
  <1>5. SumOver(f, T) = f[z] + SumOver(f, T \ {z})
    BY <1>3, SumByOne
  <1> HIDE DEF z
  <1>6. y # z
    BY <1>2, <1>5
  <1>7. /\ T \ {z} \in SUBSET U /\ Cardinality(T \ {z}) < Cardinality(T)
        /\ T \ {y} \in SUBSET U /\ Cardinality(T \ {y}) < Cardinality(T)
    <2>1. ASSUME NEW v \in T PROVE T \ {v} \in SUBSET U /\ Cardinality(T \ {v}) < Cardinality(T)
      <3>1. /\ T \ {v} \in SUBSET U /\ Cardinality(T \ {v}) = Cardinality(T) - 1
            /\ Cardinality(T) \in Nat
        BY <1>3, <2>1, OneLess
      <3> QED
        BY <3>1
    <2> QED
      BY <1>2, <1>4, <2>1
  <1>8. T \ {z} \notin C /\ T \ {y} \notin C
    BY <1>1, <1>7
  <1>9. SumOver(f, T \ {z}) = f[y] + SumOver(f, (T \ {z}) \ {y})
    <2> DEFINE X == T \ {z}
    <2>1. X \in SUBSET U /\ X \notin C /\ y \in X
      BY <1>2, <1>6, <1>7, <1>8
    <2> HIDE DEF X
    <2>2. SumOver(f, X) = f[y] + SumOver(f, X \ {y})
      BY <1>0, <2>1
    <2> QED
      BY <2>2 DEF X
  <1>10. SumOver(f, T \ {y}) = f[z] + SumOver(f, (T \ {y}) \ {z})
    <2> DEFINE X == T \ {y}
    <2>1. X \in SUBSET U /\ X \notin C /\ z \in X
      BY <1>4, <1>6, <1>7, <1>8
    <2> HIDE DEF X
    <2>2. SumOver(f, X) = f[z] + SumOver(f, X \ {z})
      BY <1>0, <2>1
    <2> QED
      BY <2>2 DEF X
  <1>11. (T \ {z}) \ {y} = (T \ {y}) \ {z} /\ (T \ {z}) \ {y} \in SUBSET U
    BY <1>3
  <1>12. SumOver(f, (T \ {z}) \ {y}) \in Nat /\ f[y] \in Nat /\ f[z] \in Nat
    BY <1>2, <1>3, <1>4, <1>11, SumIsNatural
  <1>13. /\ SumOver(f, T) = f[z] + (f[y] + SumOver(f, (T \ {z}) \ {y}))
         /\ SumOver(f, T \ {y}) = f[z] + SumOver(f, (T \ {z}) \ {y})
    BY <1>5, <1>9, <1>10, <1>11
  <1> DEFINE rest == SumOver(f, (T \ {z}) \ {y})
             less == SumOver(f, T \ {y})
             all == SumOver(f, T)
  <1>14. /\ all = f[z] + (f[y] + rest) /\ less = f[z] + rest /\ all # f[y] + less
         /\ rest \in Nat /\ f[y] \in Nat /\ f[z] \in Nat
    BY <1>2, <1>12, <1>13
  <1> HIDE DEF rest, less, all
  <1> QED
    BY <1>14

----------------------------------------------------------------------------
(* Functions defined by recursion on 0..n, as networkx's search by levels and *)
(* the pushes of a heap are                                                   *)

StepsIn(step, n, V) == \A i \in 1..n : \A u \in V : step[<<i, u>>] \in V

\* The recursion from v by step has a solution
LEMMA RecursionExists ==
  ASSUME NEW V, NEW v \in V, NEW n \in Nat, NEW step, StepsIn(step, n, V)
  PROVE  \E g \in [0..n -> V] : g[0] = v /\ \A i \in 1..n : g[i] = step[<<i, g[i - 1]>>]
  <1> DEFINE Solves(g, k) == g[0] = v /\ \A i \in 1..k : g[i] = step[<<i, g[i - 1]>>]
             Never == {k \in 0..n : ~ \E g \in [0..k -> V] : Solves(g, k)}
  <1> SUFFICES ASSUME Never # {} PROVE FALSE
    <2>1. n \in 0..n
      OBVIOUS
    <2> QED
      BY <2>1
  <1>0. Never \in SUBSET Nat /\ \A k \in Never : k \in 0..n
    OBVIOUS
  <1>1. PICK k \in Never : \A m \in Never : k <= m
    <2> HIDE DEF Never
    <2> QED
      BY <1>0, LeastNatural
  <1>2. k # 0
    <2> DEFINE g == [i \in 0..0 |-> v]
    <2>1. g \in [0..0 -> V] /\ Solves(g, 0)
      OBVIOUS
    <2> QED
      BY <2>1
  <1>3. k \in 1..n /\ k - 1 \in 0..n /\ k - 1 \notin Never
    <2>1. k \in 1..n /\ k - 1 \in 0..n /\ ~ (k <= k - 1)
      BY <1>0, <1>2
    <2> HIDE DEF Never
    <2> QED
      BY <1>1, <2>1
  <1>4. PICK g \in [0..(k - 1) -> V] : Solves(g, k - 1)
    BY <1>3
  <1> DEFINE more == [i \in 0..k |-> IF i = k THEN step[<<k, g[k - 1]>>] ELSE g[i]]
  <1>5. more \in [0..k -> V]
    <2>1. step[<<k, g[k - 1]>>] \in V
      BY <1>3, <1>4 DEF StepsIn
    <2> QED
      BY <1>3, <1>4, <2>1
  <1>6. \A i \in 0..(k - 1) : more[i] = g[i]
    BY <1>3
  <1>7. more[k] = step[<<k, g[k - 1]>>]
    BY <1>3
  <1> HIDE DEF more
  <1>8. Solves(more, k)
    <2>1. more[0] = v
      BY <1>3, <1>4, <1>6
    <2>2. ASSUME NEW i \in 1..k PROVE more[i] = step[<<i, more[i - 1]>>]
      <3>1. more[i - 1] = g[i - 1]
        BY <1>3, <1>6
      <3>2. CASE i = k
        BY <1>7, <3>1, <3>2
      <3>3. CASE i # k
        <4>1. i \in 1..(k - 1)
          BY <1>3, <3>3
        <4> QED
          BY <1>3, <1>4, <1>6, <3>1, <4>1
      <3> QED
        BY <3>2, <3>3
    <2> QED
      BY <2>1, <2>2
  <1> QED
    BY <1>1, <1>5, <1>8

----------------------------------------------------------------------------
(* Link data and distances *)

Links == SUBSET (Podcast \X Person)
LinkData == [guest : Links, host : Links]

LEMMA HistoryIsLinkData ==
  ASSUME NEW E \in SUBSET Episode, NEW cutoff
  PROVE  HistoricalLinkData(E, cutoff) \in LinkData
  <1>1. \A e \in E : PodcastOf[e] \in Podcast /\ GuestsOf[e] \in SUBSET Person
                     /\ HostsOf[e] \in SUBSET Person
    BY FutureLinksAssumption
  <1>2. Pairs(Before(E, cutoff), GuestsOf) \in Links /\ Pairs(Before(E, cutoff), HostsOf) \in Links
    BY <1>1 DEF Pairs, Before, Links
  <1> QED
    BY <1>2 DEF HistoricalLinkData, LinkData

Level == [podcasts : SUBSET Podcast, people : SUBSET Person]

Reached(h, podcasts) == {l[2] : l \in {k \in h.guest \cup h.host : k[1] \in podcasts}}

FromLevel(h, inner) ==
  [podcasts |-> inner.podcasts \cup UNION {PersonPodcasts(h, x) : x \in inner.people},
   people |-> Reached(h, inner.podcasts)]

Levels(h, p, near) ==
  near = [d \in 0..MaxDegree |->
            IF d = 0 THEN [podcasts |-> {p}, people |-> {}] ELSE FromLevel(h, near[d - 1])]

LEMMA LevelsUnfold ==
  ASSUME NEW h, NEW p
  PROVE  PeopleWithin(h, p)
           = [d \in 0..MaxDegree |-> (CHOOSE near : Levels(h, p, near))[d].people]
  BY DEF PeopleWithin, Levels, FromLevel, Reached

LEMMA ReachedIs ==
  ASSUME NEW h \in LinkData, NEW podcasts
  PROVE  /\ Reached(h, podcasts) \in SUBSET Person
         /\ \A x \in Person : x \in Reached(h, podcasts) <=>
              \E q \in podcasts : <<q, x>> \in h.guest \cup h.host
  <1> DEFINE all == h.guest \cup h.host
  <1>1. all \in SUBSET (Podcast \X Person)
    BY DEF LinkData, Links
  <1>2. Reached(h, podcasts) = {l[2] : l \in {k \in all : k[1] \in podcasts}}
    BY DEF Reached
  <1> HIDE DEF all
  <1>3. \A k \in all : k = <<k[1], k[2]>> /\ k[2] \in Person
    BY <1>1
  <1>4. ASSUME NEW x \in Reached(h, podcasts)
        PROVE  x \in Person /\ \E q \in podcasts : <<q, x>> \in all
    <2>1. PICK k \in all : k[1] \in podcasts /\ x = k[2]
      BY <1>2, <1>4
    <2> QED
      BY <1>3, <2>1
  <1>5. ASSUME NEW x \in Person, NEW q \in podcasts, <<q, x>> \in all
        PROVE  x \in Reached(h, podcasts)
    <2> DEFINE k == <<q, x>>
    <2>1. k \in all /\ k[1] \in podcasts /\ k[2] = x
      BY <1>5
    <2> HIDE DEF k
    <2> QED
      BY <1>2, <2>1
  <1> QED
    BY <1>4, <1>5 DEF all

LEMMA LevelsExist ==
  ASSUME NEW h \in LinkData, NEW p \in Podcast
  PROVE  \E near : Levels(h, p, near)
  <1> DEFINE first == [podcasts |-> {p}, people |-> {}]
             step == [iv \in (1..MaxDegree) \X Level |-> FromLevel(h, iv[2])]
  <1>1. MaxDegree \in Nat
    BY FutureLinksAssumption
  <1>2. first \in Level
    BY DEF Level
  <1>3. ASSUME NEW v \in Level PROVE FromLevel(h, v) \in Level
    <2>1. Reached(h, v.podcasts) \in SUBSET Person
      BY ReachedIs
    <2>2. v.podcasts \cup UNION {PersonPodcasts(h, x) : x \in v.people} \in SUBSET Podcast
      BY <1>3 DEF Level, PersonPodcasts
    <2> QED
      BY <2>1, <2>2 DEF FromLevel, Level
  <1>5. ASSUME NEW i \in 1..MaxDegree, NEW v \in Level
        PROVE  step[<<i, v>>] = FromLevel(h, v)
    <2>1. <<i, v>> \in (1..MaxDegree) \X Level /\ <<i, v>>[2] = v
      OBVIOUS
    <2> QED
      BY <2>1
  <1> HIDE DEF step, first
  <1>4. StepsIn(step, MaxDegree, Level)
    BY <1>3, <1>5 DEF StepsIn
  <1>6. PICK near \in [0..MaxDegree -> Level] :
          /\ near[0] = first
          /\ \A i \in 1..MaxDegree : near[i] = step[<<i, near[i - 1]>>]
    BY <1>1, <1>2, <1>4, RecursionExists
  <1>7. \A d \in 0..MaxDegree : near[d] = IF d = 0 THEN first ELSE FromLevel(h, near[d - 1])
    <2> TAKE d \in 0..MaxDegree
    <2>1. CASE d # 0
      <3>1. d \in 1..MaxDegree /\ near[d - 1] \in Level
        BY <1>1, <2>1
      <3> QED
        BY <1>5, <1>6, <2>1, <3>1
    <2> QED
      BY <1>6, <2>1
  <1>8. Levels(h, p, near)
    BY <1>6, <1>7 DEF Levels, first
  <1> QED
    BY <1>8

\* The levels of the search from a podcast
LEMMA LevelByLevel ==
  ASSUME NEW h \in LinkData, NEW p \in Podcast
  PROVE  \E near : /\ \A d \in 0..MaxDegree : PeopleWithin(h, p)[d] = near[d].people
                   /\ near[0] = [podcasts |-> {p}, people |-> {}]
                   /\ \A d \in 1..MaxDegree : near[d] = FromLevel(h, near[d - 1])
  <1>1. PICK near : near = (CHOOSE n : Levels(h, p, n)) /\ Levels(h, p, near)
    BY LevelsExist
  <1>2. MaxDegree \in Nat
    BY FutureLinksAssumption
  <1>3. \A d \in 0..MaxDegree :
          near[d] = IF d = 0 THEN [podcasts |-> {p}, people |-> {}] ELSE FromLevel(h, near[d - 1])
    BY <1>1, Zenon DEF Levels
  <1>4. \A d \in 0..MaxDegree : PeopleWithin(h, p)[d] = near[d].people
    BY <1>1, LevelsUnfold
  <1>5. near[0] = [podcasts |-> {p}, people |-> {}]
    BY <1>2, <1>3
  <1>6. \A d \in 1..MaxDegree : near[d] = FromLevel(h, near[d - 1])
    BY <1>2, <1>3
  <1> QED
    BY <1>4, <1>5, <1>6

\* A distance that is known is one of the search
LEMMA DistanceIs ==
  ASSUME NEW h \in LinkData, NEW p \in Podcast, NEW x
  PROVE  /\ Distance(h, p, x) \in 0..MaxDegree
         /\ Distance(h, p, x) # NoDistance <=> x \in PeopleWithin(h, p)[MaxDegree]
  <1> DEFINE within == PeopleWithin(h, p)
             D == {d \in 0..MaxDegree : x \in within[d]}
  <1>1. MaxDegree \in Nat
    BY FutureLinksAssumption
  <1>2. within[0] = {}
    <2>1. PICK near : /\ \A d \in 0..MaxDegree : PeopleWithin(h, p)[d] = near[d].people
                      /\ near[0] = [podcasts |-> {p}, people |-> {}]
      BY LevelByLevel
    <2>2. 0 \in 0..MaxDegree /\ near[0].people = {}
      BY <1>1, <2>1
    <2> QED
      BY <2>1, <2>2
  <1> HIDE DEF within
  <1>3. CASE x \in within[MaxDegree]
    <2>1. D \in SUBSET Nat /\ D # {}
      BY <1>1, <1>3
    <2>2. PICK d \in D : \A c \in D : d <= c
      <3> HIDE DEF D
      <3> QED
        BY <2>1, LeastNatural
    <2>3. d \in 1..MaxDegree /\ x \in within[d] /\ x \notin within[d - 1]
      BY <1>1, <1>2, <2>2
    <2>4. (CHOOSE c \in 1..MaxDegree : x \in within[c] /\ x \notin within[c - 1]) \in 1..MaxDegree
      BY <2>3
    <2>5. Distance(h, p, x) = (CHOOSE c \in 1..MaxDegree : x \in within[c] /\ x \notin within[c - 1])
      BY <1>3 DEF Distance, within
    <2>6. Distance(h, p, x) \in 1..MaxDegree
      BY <2>4, <2>5, Zenon
    <2> QED
      BY <1>1, <1>3, <2>6 DEF NoDistance, within
  <1>4. CASE x \notin within[MaxDegree]
    BY <1>1, <1>4 DEF Distance, NoDistance, within
  <1> QED
    BY <1>3, <1>4

\* Two podcasts with a common guest have each other's guests within 3 hops
LEMMA GuestsOfNeighbors ==
  ASSUME NEW h \in LinkData, NEW p \in Podcast, NEW q \in Podcast, NEW x \in Person, NEW y \in Person,
         <<p, y>> \in h.guest, <<q, y>> \in h.guest, <<q, x>> \in h.guest, MaxDegree >= 3
  PROVE  Distance(h, p, x) # NoDistance
  <1>1. MaxDegree \in Nat
    BY FutureLinksAssumption
  <1>2. PICK near : /\ \A d \in 0..MaxDegree : PeopleWithin(h, p)[d] = near[d].people
                    /\ near[0] = [podcasts |-> {p}, people |-> {}]
                    /\ \A d \in 1..MaxDegree : near[d] = FromLevel(h, near[d - 1])
    BY LevelByLevel
  <1>3. \A d \in 1..MaxDegree :
          /\ \A r \in near[d - 1].podcasts : r \in near[d].podcasts
          /\ \A z \in near[d - 1].people : \A r \in PersonPodcasts(h, z) : r \in near[d].podcasts
          /\ near[d].people = Reached(h, near[d - 1].podcasts)
    <2> TAKE d \in 1..MaxDegree
    <2> DEFINE inner == near[d - 1]
               far == UNION {PersonPodcasts(h, z) : z \in inner.people}
    <2>1. near[d] = [podcasts |-> inner.podcasts \cup far, people |-> Reached(h, inner.podcasts)]
      BY <1>2 DEF FromLevel
    <2>2. \A z \in inner.people : \A r \in PersonPodcasts(h, z) : r \in far
      OBVIOUS
    <2> HIDE DEF inner, far
    <2>3. near[d].podcasts = inner.podcasts \cup far /\ near[d].people = Reached(h, inner.podcasts)
      BY <2>1
    <2> QED
      BY <2>2, <2>3 DEF inner
  <1>4. p \in near[0].podcasts
    BY <1>2
  <1>5. p \in near[1].podcasts /\ y \in near[1].people
    <2>1. 1 \in 1..MaxDegree
      BY <1>1
    <2>2. near[1].people = Reached(h, near[0].podcasts) /\ p \in near[1].podcasts
      BY <1>3, <1>4, <2>1
    <2>3. near[0].podcasts = {p} /\ <<p, y>> \in h.guest \cup h.host
      BY <1>2
    <2>4. y \in Reached(h, near[0].podcasts) <=>
            \E r \in near[0].podcasts : <<r, y>> \in h.guest \cup h.host
      BY ReachedIs
    <2> QED
      BY <2>2, <2>3, <2>4
  <1>6. q \in near[2].podcasts
    <2>1. 2 \in 1..MaxDegree
      BY <1>1
    <2>2. q \in PersonPodcasts(h, y)
      BY DEF PersonPodcasts
    <2> QED
      BY <1>3, <1>5, <2>1, <2>2
  <1> DEFINE Lost == {d \in 2..MaxDegree : q \notin near[d].podcasts}
  <1>7. Lost = {}
    <2> SUFFICES ASSUME Lost # {} PROVE FALSE
      OBVIOUS
    <2>1. Lost \in SUBSET Nat
      BY <1>1
    <2>2. PICK d \in Lost : \A c \in Lost : d <= c
      <3> HIDE DEF Lost
      <3> QED
        BY <2>1, LeastNatural
    <2>3. d \in 3..MaxDegree /\ d - 1 \in 2..MaxDegree /\ d - 1 \notin Lost
      BY <1>1, <1>6, <2>2
    <2>4. q \in near[d - 1].podcasts /\ d \in 1..MaxDegree
      BY <2>3
    <2> QED
      BY <1>3, <2>2, <2>4
  <1>8. q \in near[MaxDegree - 1].podcasts /\ MaxDegree \in 1..MaxDegree
    BY <1>1, <1>7
  <1>9. x \in near[MaxDegree].people
    <2>1. x \in Reached(h, near[MaxDegree - 1].podcasts) <=>
            \E r \in near[MaxDegree - 1].podcasts : <<r, x>> \in h.guest \cup h.host
      BY ReachedIs
    <2>2. <<q, x>> \in h.guest \cup h.host
      OBVIOUS
    <2> QED
      BY <1>3, <1>8, <2>1, <2>2
  <1> QED
    <2>1. PeopleWithin(h, p)[MaxDegree] = near[MaxDegree].people
      BY <1>1, <1>2
    <2> QED
      BY <1>9, <2>1, DistanceIs

----------------------------------------------------------------------------
(* What a bounded heap keeps *)

\* A set counted from 1 to n has n members
LEMMA CountedOnce ==
  ASSUME NEW n \in Nat, NEW S, NEW f, f \in [1..n -> S],
         \A x \in S : \E i \in 1..n : f[i] = x,
         \A i, j \in 1..n : f[i] = f[j] => i = j
  PROVE  IsFiniteSet(S) /\ Cardinality(S) = n
  <1>1. IsFiniteSet(1..n) /\ Cardinality(1..n) = n
    BY FS_Interval
  <1>2. f \in Bijection(1..n, S)
    BY DEF Bijection, Injection, Surjection, IsInjective
  <1> QED
    BY <1>1, <1>2, FS_Bijection, FS_Surjection DEF Bijection

\* An order on a finite set has a least member
LEMMA FirstInOrder ==
  ASSUME NEW S, NEW R, IsFiniteSet(S), S # {}, IsOrder(R, S)
  PROVE  \E x \in S : \A y \in S \ {x} : <<x, y>> \in R
  <1>1. Cardinality(S) \in Nat /\ Cardinality(S) # 0
    BY FS_CardinalityType, FS_EmptySet
  <1>2. 1 \in 1..Cardinality(S)
    BY <1>1
  <1>3. PICK x \in S : Place(R, S, x) = 1
    BY <1>2, EveryPlaceIsTaken
  <1>4. ASSUME NEW y \in S \ {x}, <<y, x>> \in R PROVE FALSE
    <2>1. Place(R, S, y) \in 1..Cardinality(S) /\ Place(R, S, y) < Place(R, S, x)
      BY <1>4, PlacesFollowOrder
    <2> QED
      BY <1>1, <1>3, <2>1
  <1> QED
    BY <1>4 DEF IsOrder

\* Items as they are pushed: numbered by their arrival, with a score each
Pushed(items, n) ==
  /\ Len(items) = n
  /\ \A i \in 1..n : items[i].score \in Int /\ items[i].sequence = i

HeapStep(items, limit, heap, i) ==
  IF i = 0 THEN {} ELSE HeapAdd(heap[i - 1], items[i], limit)

Heaps(items, limit, heap) ==
  heap = [i \in 0..Len(items) |-> HeapStep(items, limit, heap, i)]

LEMMA HeapUnfold ==
  ASSUME NEW items, NEW limit
  PROVE  HeapOf(items, limit) = (CHOOSE heap : Heaps(items, limit, heap))[Len(items)]
  BY DEF HeapOf, Heaps, HeapStep

LEMMA HeapsExist ==
  ASSUME NEW n \in Nat, NEW items, Pushed(items, n), NEW limit
  PROVE  \E heap : Heaps(items, limit, heap)
  <1> DEFINE V == SUBSET {items[i] : i \in 1..n}
             step == [iv \in (1..n) \X V |-> HeapAdd(iv[2], items[iv[1]], limit)]
  <1>1. {} \in V
    OBVIOUS
  <1>2. ASSUME NEW i \in 1..n, NEW v \in V
        PROVE  step[<<i, v>>] = HeapAdd(v, items[i], limit)
    <2>1. /\ <<i, v>> \in (1..n) \X V
          /\ <<i, v>>[1] = i /\ <<i, v>>[2] = v
      OBVIOUS
    <2> HIDE DEF V
    <2> QED
      BY <2>1
  <1>3. ASSUME NEW i \in 1..n, NEW v \in V
        PROVE  HeapAdd(v, items[i], limit) \in V
    BY DEF HeapAdd
  <1> HIDE DEF step, V
  <1>4. StepsIn(step, n, V)
    BY <1>2, <1>3 DEF StepsIn
  <1>5. PICK heap \in [0..n -> V] :
          /\ heap[0] = {}
          /\ \A i \in 1..n : heap[i] = step[<<i, heap[i - 1]>>]
    BY <1>1, <1>4, RecursionExists
  <1>6. \A i \in 0..n : heap[i] = HeapStep(items, limit, heap, i)
    <2> TAKE i \in 0..n
    <2>1. CASE i # 0
      <3>1. i \in 1..n /\ heap[i - 1] \in V
        BY <2>1
      <3> QED
        BY <1>2, <1>5, <2>1, <3>1 DEF HeapStep
    <2> QED
      BY <1>5, <2>1 DEF HeapStep
  <1>7. Heaps(items, limit, heap)
    BY <1>5, <1>6 DEF Heaps, Pushed
  <1> QED
    BY <1>7

\* What a heap holds after i items: as many as it may, and the best of them
Holds(items, limit, i, heap) ==
  /\ \A a \in heap : \E j \in 1..i : a = items[j]
  /\ IsFiniteSet(heap)
  /\ Cardinality(heap) = IF i < limit THEN i ELSE limit
  /\ i <= limit => \A j \in 1..i : items[j] \in heap
  /\ \A a \in heap : \A j \in 1..i : items[j] \notin heap => Less(items[j], a)

LEMMA LessIsOrder ==
  ASSUME NEW n \in Nat, NEW items, Pushed(items, n)
  PROVE  /\ \A i, j \in 1..n : i # j => Less(items[i], items[j]) \/ Less(items[j], items[i])
         /\ \A i, j, k \in 1..n :
              Less(items[i], items[j]) /\ Less(items[j], items[k]) => Less(items[i], items[k])
         /\ \A i \in 1..n : ~ Less(items[i], items[i])
         /\ \A i, j \in 1..n : items[i] = items[j] => i = j
  BY DEF Pushed, Less

LEMMA HeapStepHolds ==
  ASSUME NEW n \in Nat, NEW items, Pushed(items, n), NEW limit \in Nat \ {0},
         NEW i \in 1..n, NEW heap, Holds(items, limit, i - 1, heap)
  PROVE  Holds(items, limit, i, HeapAdd(heap, items[i], limit))
  <1> DEFINE item == items[i]
  <1>0. /\ \A j \in 1..(i - 1) : j \in 1..i /\ j \in 1..n /\ j # i
        /\ \A j \in 1..i : j = i \/ j \in 1..(i - 1)
        /\ \A j \in 1..i : j \in 1..n
        /\ i \in 1..i /\ i - 1 \in Nat
    OBVIOUS
  <1>1. \A a \in heap : \E j \in 1..(i - 1) : a = items[j]
    BY DEF Holds
  <1>2. item \notin heap
    BY <1>0, <1>1, LessIsOrder
  <1>3. /\ IsFiniteSet(heap) /\ Cardinality(heap) = IF i - 1 < limit THEN i - 1 ELSE limit
        /\ i - 1 <= limit => \A j \in 1..(i - 1) : items[j] \in heap
        /\ \A a \in heap : \A j \in 1..(i - 1) : items[j] \notin heap => Less(items[j], a)
    BY DEF Holds
  <1>4. CASE Cardinality(heap) < limit
    <2> DEFINE more == heap \cup {item}
    <2>1. HeapAdd(heap, item, limit) = more
      BY <1>4 DEF HeapAdd
    <2>2. i - 1 < limit /\ Cardinality(heap) = i - 1
      BY <1>0, <1>3, <1>4
    <2>3. IsFiniteSet(more) /\ Cardinality(more) = i
      BY <1>2, <1>3, <2>2, FS_AddElement
    <2>4. \A j \in 1..i : items[j] \in more
      BY <1>0, <1>3, <2>2
    <2>5. \A a \in more : \E j \in 1..i : a = items[j]
      BY <1>0, <1>1
    <2> HIDE DEF more
    <2>6. Holds(items, limit, i, more)
      BY <2>2, <2>3, <2>4, <2>5 DEF Holds
    <2> QED
      BY <2>1, <2>6
  <1>5. CASE ~ (Cardinality(heap) < limit)
    <2> DEFINE root == CHOOSE a \in heap : \A b \in heap \ {a} : Less(a, b)
    <2>1. Cardinality(heap) = limit /\ i - 1 >= limit
      BY <1>0, <1>3, <1>5
    <2>2. root \in heap /\ \A b \in heap \ {root} : Less(root, b)
      <3> DEFINE R == {ab \in heap \X heap : Less(ab[1], ab[2])}
      <3>1. \A a, b \in heap : <<a, b>> \in R <=> Less(a, b)
        OBVIOUS
      <3>2. IsOrder(R, heap)
        <4> HIDE DEF R
        <4>1. \A a, b \in heap : a # b => Less(a, b) \/ Less(b, a)
          BY <1>0, <1>1, LessIsOrder
        <4>2. \A a, b, c \in heap : Less(a, b) /\ Less(b, c) => Less(a, c)
          BY <1>0, <1>1, LessIsOrder
        <4>3. \A a \in heap : ~ Less(a, a)
          BY <1>0, <1>1, LessIsOrder
        <4> QED
          BY <3>1, <4>1, <4>2, <4>3 DEF IsOrder
      <3>3. heap # {}
        BY <2>1, FS_EmptySet
      <3> HIDE DEF R
      <3>4. \E a \in heap : \A b \in heap \ {a} : <<a, b>> \in R
        BY <1>3, <3>2, <3>3, FirstInOrder
      <3> QED
        BY <3>1, <3>4
    <2>3. HeapAdd(heap, item, limit) = IF Less(root, item) THEN (heap \ {root}) \cup {item} ELSE heap
      BY <1>5 DEF HeapAdd
    <2> HIDE DEF root
    <2>4. PICK r \in 1..(i - 1) : root = items[r]
      BY <1>1, <2>2
    <2>5. CASE Less(root, item)
      <3> DEFINE less == heap \ {root}
                 more == less \cup {item}
      <3>1. IsFiniteSet(less) /\ Cardinality(less) = limit - 1
        BY <1>3, <2>1, <2>2, FS_RemoveElement
      <3>2. IsFiniteSet(more) /\ Cardinality(more) = limit
        <4>1. item \notin less
          BY <1>2
        <4> HIDE DEF less
        <4>2. IsFiniteSet(more) /\ Cardinality(more) = Cardinality(less) + 1
          BY <3>1, <4>1, FS_AddElement
        <4> QED
          BY <3>1, <4>2
      <3>3. \A a \in more : \E j \in 1..i : a = items[j]
        BY <1>0, <1>1
      <3>4. ASSUME NEW a \in more, NEW j \in 1..i, items[j] \notin more
            PROVE  Less(items[j], a)
        <4>1. j \in 1..(i - 1)
          BY <1>0, <3>4
        <4>2. items[j] = root \/ items[j] \notin heap
          BY <3>4
        <4>3. Less(items[j], root) \/ items[j] = root
          BY <1>3, <2>2, <4>1, <4>2
        <4>4. Less(root, a)
          BY <2>2, <2>5
        <4>5. PICK k \in 1..i : a = items[k]
          BY <3>3
        <4> QED
          BY <1>0, <2>4, <4>3, <4>4, <4>5, LessIsOrder
      <3> HIDE DEF more
      <3>5. Holds(items, limit, i, more)
        BY <1>0, <2>1, <3>2, <3>3, <3>4 DEF Holds
      <3> QED
        BY <2>3, <2>5, <3>5 DEF more
    <2>6. CASE ~ Less(root, item)
      <3>1. Less(item, root)
        BY <1>0, <2>4, <2>6, LessIsOrder
      <3>2. \A a \in heap : Less(item, a)
        <4> TAKE a \in heap
        <4>1. PICK k \in 1..(i - 1) : a = items[k]
          BY <1>1
        <4> QED
          BY <1>0, <2>2, <2>4, <3>1, <4>1, LessIsOrder
      <3>3. \A a \in heap : \A j \in 1..i : items[j] \notin heap => Less(items[j], a)
        BY <1>0, <1>3, <3>2
      <3>4. \A a \in heap : \E j \in 1..i : a = items[j]
        BY <1>0, <1>1
      <3>5. Holds(items, limit, i, heap)
        BY <1>0, <1>3, <2>1, <3>3, <3>4 DEF Holds
      <3> QED
        BY <2>3, <2>6, <3>5
    <2> QED
      BY <2>5, <2>6
  <1> QED
    BY <1>4, <1>5

LEMMA HeapHolds ==
  ASSUME NEW n \in Nat, NEW items, Pushed(items, n), NEW limit \in Nat \ {0}
  PROVE  Holds(items, limit, n, HeapOf(items, limit))
  <1>1. PICK heap : heap = (CHOOSE g : Heaps(items, limit, g)) /\ Heaps(items, limit, heap)
    BY HeapsExist
  <1>2. heap[0] = {} /\ \A i \in 1..n : heap[i] = HeapAdd(heap[i - 1], items[i], limit)
    <2>1. \A i \in 0..n : heap[i] = HeapStep(items, limit, heap, i)
      BY <1>1, ZenonT(30) DEF Heaps, Pushed
    <2> QED
      BY <2>1 DEF HeapStep
  <1> DEFINE Fails == {i \in 0..n : ~ Holds(items, limit, i, heap[i])}
  <1>3. Fails = {}
    <2> SUFFICES ASSUME Fails # {} PROVE FALSE
      OBVIOUS
    <2>1. Fails \in SUBSET Nat
      OBVIOUS
    <2>2. PICK i \in Fails : \A j \in Fails : i <= j
      <3> HIDE DEF Fails
      <3> QED
        BY <2>1, LeastNatural
    <2>3. Holds(items, limit, 0, heap[0])
      BY <1>2, FS_EmptySet DEF Holds
    <2>4. i \in 1..n /\ i - 1 \in 0..n /\ ~ (i <= i - 1)
      BY <2>2, <2>3
    <2>5. Holds(items, limit, i - 1, heap[i - 1])
      BY <2>2, <2>4
    <2>6. Holds(items, limit, i, heap[i])
      BY <1>2, <2>4, <2>5, HeapStepHolds
    <2> QED
      BY <2>2, <2>6
  <1>4. HeapOf(items, limit) = heap[n]
    BY <1>1, HeapUnfold DEF Pushed
  <1> QED
    BY <1>3, <1>4

----------------------------------------------------------------------------
(* The order of scoring, and the rows that are kept *)

\* Sets of pairs of a podcast and a person
Candidates == SUBSET (Podcast \X Person)

LEMMA CandidatesAreFinite ==
  ASSUME NEW C \in Candidates
  PROVE  /\ IsFiniteSet(C) /\ Cardinality(C) \in Nat
         /\ \A c \in C : c[1] \in Podcast /\ c[2] \in Person /\ c = <<c[1], c[2]>>
         /\ \A x \in Podcast \cup Person : x \in Nat
  <1>1. IsFiniteSet(Podcast \X Person)
    BY FutureLinksAssumption, FS_Product
  <1>2. IsFiniteSet(C)
    BY <1>1, FS_Subset DEF Candidates
  <1> QED
    BY <1>2, FS_CardinalityType, FutureLinksAssumption DEF Candidates

\* Candidate pairs in the order they are scored, each once
Ordered(order, h, C) ==
  /\ DOMAIN order = 1..Cardinality(C) /\ Len(order) = Cardinality(C)
  /\ \A i \in DOMAIN order :
       /\ order[i].pair \in C
       /\ order[i].distance = Distance(h, order[i].pair[1], order[i].pair[2])
  /\ \A c \in C : \E i \in DOMAIN order : order[i].pair = c
  /\ \A i, j \in DOMAIN order : order[i].pair = order[j].pair => i = j

LEMMA ScoringOrderIs ==
  ASSUME NEW h \in LinkData, NEW C \in Candidates
  PROVE  Ordered(ScoringOrder(h, C), h, C)
  <1> DEFINE reach(c) == [pair |-> c, distance |-> Distance(h, c[1], c[2])]
             reached == {reach(c) : c \in C}
             Prec(a, b) == \/ a.pair[1] < b.pair[1]
                           \/ a.pair[1] = b.pair[1] /\ a.distance < b.distance
                           \/ /\ a.pair[1] = b.pair[1] /\ a.distance = b.distance
                              /\ a.pair[2] < b.pair[2]
             R == {ab \in reached \X reached : Prec(ab[1], ab[2])}
             placed == {<<Cardinality({y \in reached : Prec(y, x)}) + 1, x>> : x \in reached}
             n == Cardinality(reached)
             order == [i \in 1..n |-> (CHOOSE entry \in placed : entry[1] = i)[2]]
  <1>1. ScoringOrder(h, C) = order
    BY DEF ScoringOrder, InOrder
  <1>2. /\ IsFiniteSet(C) /\ Cardinality(C) \in Nat
        /\ \A c \in C : c[1] \in Podcast /\ c[2] \in Person /\ c = <<c[1], c[2]>>
        /\ \A x \in Podcast \cup Person : x \in Nat
    BY CandidatesAreFinite
  <1>3. \A a \in reached : /\ a.pair \in C /\ a = reach(a.pair)
                           /\ a.distance = Distance(h, a.pair[1], a.pair[2])
    OBVIOUS
  <1>4. \A a \in reached : a.pair[1] \in Nat /\ a.pair[2] \in Nat /\ a.distance \in Nat
    <2> TAKE a \in reached
    <2>1. a.pair[1] \in Podcast /\ a.pair[2] \in Person /\ a.distance = Distance(h, a.pair[1], a.pair[2])
      BY <1>2, <1>3
    <2>2. Distance(h, a.pair[1], a.pair[2]) \in 0..MaxDegree
      BY <2>1, DistanceIs
    <2>3. MaxDegree \in Nat
      BY FutureLinksAssumption
    <2> QED
      BY <1>2, <2>1, <2>2, <2>3
  <1>5. \A c \in C : reach(c) \in reached /\ reach(c).pair = c
    OBVIOUS
  <1>6. \A a, b \in reached : a.pair = b.pair => a = b
    BY <1>3
  <1>7. \A a, b \in reached : a.pair[1] = b.pair[1] /\ a.pair[2] = b.pair[2] => a.pair = b.pair
    BY <1>2, <1>3
  <1>8. IsFiniteSet(reached)
    <2> DEFINE f == [c \in C |-> reach(c)]
    <2>1. f \in Surjection(C, reached)
      BY DEF Surjection
    <2> HIDE DEF f, reached
    <2> QED
      BY <1>2, <2>1, FS_Surjection
  <1>9. \A a, b \in reached : <<a, b>> \in R <=> Prec(a, b)
    OBVIOUS
  <1> HIDE DEF reach, reached, R
  <1>10. IsOrder(R, reached)
    <2>1. \A a, b \in reached : a # b => Prec(a, b) \/ Prec(b, a)
      BY <1>4, <1>6, <1>7
    <2>2. \A a, b, c \in reached : Prec(a, b) /\ Prec(b, c) => Prec(a, c)
      BY <1>4
    <2>3. \A a \in reached : ~ Prec(a, a)
      BY <1>4
    <2> HIDE DEF Prec
    <2> QED
      BY <1>9, <2>1, <2>2, <2>3 DEF IsOrder
  <1> HIDE DEF Prec
  <1>11. placed = Places(R, reached)
    <2>1. \A x \in reached : {y \in reached : Prec(y, x)} = Ahead(R, reached, x)
      BY <1>9 DEF Ahead
    <2> QED
      BY <2>1 DEF Places, Place
  <1> HIDE DEF placed
  <1>12. SortedBy(order, reached, R)
    BY <1>8, <1>10, <1>11, PlacedIsSorted
  <1>13. n \in Nat
    BY <1>8, FS_CardinalityType
  <1> HIDE DEF order
  <1>14. /\ order \in [1..n -> reached]
         /\ \A x \in reached : \E i \in 1..n : order[i] = x
         /\ \A i, j \in 1..n : i < j <=> <<order[i], order[j]>> \in R
    BY <1>12 DEF SortedBy
  <1>15. \A i, j \in 1..n : order[i] = order[j] => i = j
    <2> TAKE i, j \in 1..n
    <2> HAVE order[i] = order[j]
    <2>1. ~ (i < j) /\ ~ (j < i)
      BY <1>14, <1>10 DEF IsOrder
    <2> QED
      BY <1>13, <2>1
  <1> DEFINE pairs == [i \in 1..n |-> order[i].pair]
  <1>16. /\ pairs \in [1..n -> C]
         /\ \A c \in C : \E i \in 1..n : pairs[i] = c
         /\ \A i, j \in 1..n : pairs[i] = pairs[j] => i = j
    BY <1>3, <1>5, <1>6, <1>14, <1>15
  <1>17. Cardinality(C) = n
    <2> HIDE DEF pairs
    <2> QED
      BY <1>13, <1>16, CountedOnce
  <1>18. Len(order) = n /\ DOMAIN order = 1..n
    BY <1>13, <1>14
  <1>19. Ordered(order, h, C)
    BY <1>3, <1>14, <1>16, <1>17, <1>18 DEF Ordered
  <1> QED
    BY <1>1, <1>19

\* The scores of a run are numbers
Scores(h, c, C) == \A pair \in C : Model(SelectedFeatureMap(h, c, pair[1], pair[2])) \in Int

\* A row of a prediction run is a candidate with its distance, features and score
RowIs(row, h, c, C) ==
  /\ row.pair \in C
  /\ row.distance = Distance(h, row.pair[1], row.pair[2])
  /\ row.features = SelectedFeatureMap(h, c, row.pair[1], row.pair[2])
  /\ row.score = Model(row.features)

\* The rows of a prediction run are the best of all its candidates
BestRows(rows, h, c, C) ==
  /\ Len(rows) = IF TopN < Cardinality(C) THEN TopN ELSE Cardinality(C)
  /\ DOMAIN rows = 1..Len(rows)
  /\ \A i \in DOMAIN rows : RowIs(rows[i], h, c, C)
  /\ \A i, j \in DOMAIN rows : rows[i].pair = rows[j].pair => i = j
  /\ \A i, j \in DOMAIN rows : i < j => rows[i].score >= rows[j].score
  /\ \A pair \in C : (\A i \in DOMAIN rows : rows[i].pair # pair) =>
       \A i \in DOMAIN rows : Model(SelectedFeatureMap(h, c, pair[1], pair[2])) <= rows[i].score

LEMMA RowsAreBest ==
  ASSUME NEW h \in LinkData, NEW c, NEW C \in Candidates, Scores(h, c, C)
  PROVE  BestRows(PredictionRows(h, c, C), h, c, C)
  <1> DEFINE order == ScoringOrder(h, C)
             features(i) == SelectedFeatureMap(h, c, order[i].pair[1], order[i].pair[2])
             item(i) == [score |-> Model(features(i)), sequence |-> i, pair |-> order[i].pair,
                         distance |-> order[i].distance, features |-> features(i)]
             items == [i \in DOMAIN order |-> item(i)]
             heap == HeapOf(items, TopN)
             Prec(a, b) == a.score > b.score \/ (a.score = b.score /\ a.sequence < b.sequence)
             R == {ab \in heap \X heap : Prec(ab[1], ab[2])}
             placed == {<<Cardinality({y \in heap : Prec(y, x)}) + 1, x>> : x \in heap}
             m == Cardinality(heap)
             n == Cardinality(C)
             rows == [i \in 1..m |-> (CHOOSE entry \in placed : entry[1] = i)[2]]
  <1>1. PredictionRows(h, c, C) = rows
    BY DEF PredictionRows, InOrder
  <1>2. IsFiniteSet(C) /\ n \in Nat
    BY CandidatesAreFinite
  <1>3. Ordered(order, h, C)
    BY ScoringOrderIs
  <1> HIDE DEF order
  <1>4. /\ DOMAIN order = 1..n
        /\ \A i \in 1..n : /\ order[i].pair \in C
                           /\ order[i].distance = Distance(h, order[i].pair[1], order[i].pair[2])
        /\ \A pair \in C : \E i \in 1..n : order[i].pair = pair
        /\ \A i, j \in 1..n : order[i].pair = order[j].pair => i = j
    BY <1>3 DEF Ordered
  <1>5. \A i \in 1..n : /\ items[i].score \in Int /\ items[i].sequence = i
                        /\ items[i].pair = order[i].pair
                        /\ items[i].score = Model(features(i))
                        /\ RowIs(items[i], h, c, C)
    <2> TAKE i \in 1..n
    <2>1. items[i] = item(i)
      BY <1>4
    <2>2. Model(features(i)) \in Int
      BY <1>4 DEF Scores
    <2> HIDE DEF items
    <2> QED
      BY <1>4, <2>1, <2>2 DEF RowIs
  <1>6. Pushed(items, n)
    <2>1. Len(items) = n
      BY <1>2, <1>4
    <2> HIDE DEF items
    <2> QED
      BY <1>5, <2>1 DEF Pushed
  <1>7. TopN \in Nat \ {0}
    BY AnalysisAssumption
  <1> HIDE DEF items
  <1>8. Holds(items, TopN, n, heap)
    BY <1>2, <1>6, <1>7, HeapHolds
  <1> HIDE DEF heap
  <1>9. /\ \A a \in heap : \E j \in 1..n : a = items[j]
        /\ IsFiniteSet(heap)
        /\ m = IF n < TopN THEN n ELSE TopN
        /\ \A a \in heap : \A j \in 1..n : items[j] \notin heap => Less(items[j], a)
    BY <1>8 DEF Holds
  <1>10. \A a, b \in heap : <<a, b>> \in R <=> Prec(a, b)
    OBVIOUS
  <1>11. \A a \in heap : \E j \in 1..n : a = items[j] /\ a.score \in Int /\ a.sequence = j
    BY <1>5, <1>9
  <1> HIDE DEF R
  <1>12. IsOrder(R, heap)
    <2>1. \A a, b \in heap : a # b => Prec(a, b) \/ Prec(b, a)
      <3> TAKE a, b \in heap
      <3>1. PICK i \in 1..n : a = items[i] /\ a.score \in Int /\ a.sequence = i
        BY <1>11
      <3>2. PICK j \in 1..n : b = items[j] /\ b.score \in Int /\ b.sequence = j
        BY <1>11
      <3> QED
        BY <1>2, <3>1, <3>2
    <2>2. \A a, b, d \in heap : Prec(a, b) /\ Prec(b, d) => Prec(a, d)
      BY <1>2, <1>11
    <2>3. \A a \in heap : ~ Prec(a, a)
      BY <1>2, <1>11
    <2> HIDE DEF Prec
    <2> QED
      BY <1>10, <2>1, <2>2, <2>3 DEF IsOrder
  <1>13. placed = Places(R, heap)
    <2> HIDE DEF Prec
    <2>1. \A x \in heap : {y \in heap : Prec(y, x)} = Ahead(R, heap, x)
      BY <1>10 DEF Ahead
    <2> QED
      BY <2>1 DEF Places, Place
  <1>14. SortedBy(rows, heap, R)
    <2> HIDE DEF placed, Prec
    <2> QED
      BY <1>9, <1>12, <1>13, PlacedIsSorted
  <1>15. m \in Nat
    BY <1>9, FS_CardinalityType
  <1> HIDE DEF rows
  <1>16. /\ rows \in [1..m -> heap]
         /\ \A x \in heap : \E i \in 1..m : rows[i] = x
         /\ \A i, j \in 1..m : i < j <=> <<rows[i], rows[j]>> \in R
    BY <1>14 DEF SortedBy
  <1>17. DOMAIN rows = 1..m /\ Len(rows) = m
    BY <1>15, <1>16
  <1>18. \A i \in 1..m : RowIs(rows[i], h, c, C) /\ rows[i].score \in Int
    <2> TAKE i \in 1..m
    <2>1. PICK j \in 1..n : rows[i] = items[j]
      BY <1>9, <1>16
    <2> QED
      BY <1>5, <2>1
  <1>19. \A i, j \in 1..m : i < j => rows[i].score >= rows[j].score
    <2> TAKE i, j \in 1..m
    <2> HAVE i < j
    <2>1. Prec(rows[i], rows[j])
      BY <1>10, <1>16
    <2> QED
      BY <1>18, <2>1
  <1>20. \A i, j \in 1..m : rows[i].pair = rows[j].pair => i = j
    <2> TAKE i, j \in 1..m
    <2> HAVE rows[i].pair = rows[j].pair
    <2>1. PICK k \in 1..n : rows[i] = items[k]
      BY <1>9, <1>16
    <2>2. PICK l \in 1..n : rows[j] = items[l]
      BY <1>9, <1>16
    <2>3. order[k].pair = order[l].pair
      BY <1>5, <2>1, <2>2
    <2>4. rows[i] = rows[j]
      BY <1>4, <2>1, <2>2, <2>3
    <2>5. ~ (i < j) /\ ~ (j < i)
      BY <1>12, <1>16, <2>4 DEF IsOrder
    <2> QED
      BY <1>15, <2>5
  <1>21. ASSUME NEW pair \in C, \A i \in 1..m : rows[i].pair # pair, NEW i \in 1..m
         PROVE  Model(SelectedFeatureMap(h, c, pair[1], pair[2])) <= rows[i].score
    <2>1. PICK j \in 1..n : order[j].pair = pair
      BY <1>4
    <2>2. items[j].pair = pair
      BY <1>5, <2>1
    <2>3. items[j] \notin heap
      BY <1>16, <1>21, <2>2
    <2>4. Less(items[j], rows[i])
      BY <1>9, <1>16, <2>3
    <2>5. items[j].score \in Int /\ rows[i].score \in Int
      BY <1>5, <1>18
    <2>6. items[j].score <= rows[i].score
      BY <2>4, <2>5 DEF Less
    <2>7. items[j].score = Model(SelectedFeatureMap(h, c, pair[1], pair[2]))
      BY <1>5, <2>1
    <2> QED
      BY <2>6, <2>7
  <1>22. m = IF TopN < n THEN TopN ELSE n
    BY <1>2, <1>7, <1>9
  <1>23. BestRows(rows, h, c, C)
    BY <1>17, <1>18, <1>19, <1>20, <1>21, <1>22 DEF BestRows
  <1> QED
    BY <1>1, <1>23

----------------------------------------------------------------------------
(* Candidate sets and their statistics *)

\* A sum that is not 0 has a term that is not 0
LEMMA SumHasTerm ==
  ASSUME NEW f, NEW U, IsFiniteSet(U), \A q \in U : f[q] \in Nat,
         NEW S \in SUBSET U, SumOver(f, S) # 0
  PROVE  \E q \in S : f[q] # 0
  <1> DEFINE C == {T \in SUBSET U : SumOver(f, T) # 0 /\ \A q \in T : f[q] = 0}
  <1> SUFFICES ASSUME C # {} PROVE FALSE
    OBVIOUS
  <1>1. \A T \in SUBSET U : (T \in C) <=> SumOver(f, T) # 0 /\ \A q \in T : f[q] = 0
    OBVIOUS
  <1>2. \A T \in C : T \in SUBSET U
    OBVIOUS
  <1> HIDE DEF C
  <1>3. PICK T \in C : \A X \in SUBSET U : Cardinality(X) < Cardinality(T) => X \notin C
    BY <1>2, SmallestSubset
  <1>4. T \in SUBSET U /\ SumOver(f, T) # 0 /\ \A q \in T : f[q] = 0
    BY <1>1, <1>2
  <1>5. T # {}
    BY <1>4, SumOfNothing
  <1>6. One(T) \in T /\ IsFiniteSet(T)
    BY <1>4, <1>5, WithoutOne
  <1>7. T \ {One(T)} \in SUBSET U /\ Cardinality(T \ {One(T)}) < Cardinality(T)
    BY <1>4, <1>5, WithoutOne
  <1>8. SumOver(f, T \ {One(T)}) = 0
    BY <1>1, <1>3, <1>4, <1>7
  <1>9. SumOver(f, T) = f[One(T)] + SumOver(f, T \ {One(T)}) /\ f[One(T)] = 0
    BY <1>4, <1>5, <1>6, SumByOne
  <1> QED
    BY <1>4, <1>8, <1>9

LEMMA PeopleOfLinks ==
  ASSUME NEW h \in LinkData
  PROVE  /\ GuestIds(h) \in SUBSET Person
         /\ \A p : /\ PodcastGuests(h, p) \in SUBSET Person /\ IsFiniteSet(PodcastGuests(h, p))
                   /\ PodcastHosts(h, p) \in SUBSET Person /\ IsFiniteSet(PodcastHosts(h, p))
         /\ \A p, q : IsFiniteSet(PodcastGuests(h, p) \cap PodcastGuests(h, q))
         /\ \A p, q : SharedGuests(h, p, q) \in Nat
         /\ \A x : /\ GuestPodcasts(h, x) \in SUBSET Podcast /\ IsFiniteSet(GuestPodcasts(h, x))
                   /\ PersonPodcasts(h, x) \in SUBSET Podcast /\ IsFiniteSet(PersonPodcasts(h, x))
  <1>1. GuestIds(h) \in SUBSET Person
    <2>1. \A l \in h.guest : l[2] \in Person
      BY DEF LinkData, Links
    <2> QED
      BY <2>1 DEF GuestIds
  <1>2. IsFiniteSet(Person) /\ IsFiniteSet(Podcast)
    BY FutureLinksAssumption
  <1>3. ASSUME NEW p
        PROVE  /\ PodcastGuests(h, p) \in SUBSET Person /\ IsFiniteSet(PodcastGuests(h, p))
               /\ PodcastHosts(h, p) \in SUBSET Person /\ IsFiniteSet(PodcastHosts(h, p))
    <2>1. PodcastGuests(h, p) \subseteq Person /\ PodcastHosts(h, p) \subseteq Person
      BY DEF PodcastGuests, PodcastHosts
    <2> QED
      BY <1>2, <2>1, FS_Subset
  <1>4. ASSUME NEW x
        PROVE  /\ GuestPodcasts(h, x) \in SUBSET Podcast /\ IsFiniteSet(GuestPodcasts(h, x))
               /\ PersonPodcasts(h, x) \in SUBSET Podcast /\ IsFiniteSet(PersonPodcasts(h, x))
    <2>1. GuestPodcasts(h, x) \subseteq Podcast /\ PersonPodcasts(h, x) \subseteq Podcast
      BY DEF GuestPodcasts, PersonPodcasts
    <2> QED
      BY <1>2, <2>1, FS_Subset
  <1>5. ASSUME NEW p, NEW q
        PROVE  /\ IsFiniteSet(PodcastGuests(h, p) \cap PodcastGuests(h, q))
               /\ SharedGuests(h, p, q) \in Nat
    BY <1>3, FS_Intersection, FS_CardinalityType DEF SharedGuests
  <1> QED
    BY <1>1, <1>3, <1>4, <1>5

LEMMA PodcastsScored ==
  ASSUME NEW h
  PROVE  PodcastsToScore(h, Podcast) \in SUBSET Podcast
  BY DEF PodcastsToScore

LEMMA DegreeCandidatesAre ==
  ASSUME NEW h \in LinkData, NEW podcasts \in SUBSET Podcast
  PROVE  /\ DegreeLimitedCandidates(h, podcasts) \in Candidates
         /\ \A p \in podcasts, x \in GuestIds(h) :
              <<p, x>> \in DegreeLimitedCandidates(h, podcasts)
                <=> Distance(h, p, x) # NoDistance /\ ~Excluded(h, <<p, x>>)
         /\ \A c \in DegreeLimitedCandidates(h, podcasts) :
              /\ c[1] \in podcasts /\ c[2] \in GuestIds(h)
              /\ Distance(h, c[1], c[2]) # NoDistance /\ ~Excluded(h, c)
  <1>1. GuestIds(h) \in SUBSET Person
    BY PeopleOfLinks
  <1> QED
    BY <1>1 DEF DegreeLimitedCandidates, Candidates

\* A guest who is ranked for a podcast shares a guest with one they were on
LEMMA RetrievalIsShared ==
  ASSUME NEW h \in LinkData, NEW p \in Podcast, NEW x, RetrievalScore(h, p, x) # 0
  PROVE  \E q \in GuestPodcasts(h, x), y \in Person : <<p, y>> \in h.guest /\ <<q, y>> \in h.guest
  <1> DEFINE f == [q \in Podcast |-> IF SharedGuests(h, p, q) >= MinShared
                                     THEN SharedGuests(h, p, q) ELSE 0]
             S == GuestPodcasts(h, x) \ {p}
  <1>1. IsFiniteSet(Podcast) /\ MinShared \in Nat
    BY FutureLinksAssumption
  <1>2. \A q \in Podcast : f[q] \in Nat
    BY PeopleOfLinks
  <1>3. S \in SUBSET Podcast /\ SumOver(f, S) # 0
    BY DEF RetrievalScore, GuestPodcasts
  <1>4. \A q \in Podcast : f[q] # 0 => SharedGuests(h, p, q) # 0
    OBVIOUS
  <1>5. \A q \in S : q \in GuestPodcasts(h, x)
    OBVIOUS
  <1> HIDE DEF f, S
  <1>6. PICK q \in S : f[q] # 0
    BY <1>1, <1>2, <1>3, SumHasTerm
  <1>7. SharedGuests(h, p, q) # 0
    BY <1>3, <1>4, <1>6
  <1>8. PodcastGuests(h, p) \cap PodcastGuests(h, q) # {}
    BY <1>7, FS_EmptySet DEF SharedGuests
  <1>9. PICK y \in PodcastGuests(h, p) \cap PodcastGuests(h, q) : TRUE
    BY <1>8
  <1> QED
    BY <1>5, <1>6, <1>9 DEF PodcastGuests

LEMMA RetrievalIsNatural ==
  ASSUME NEW h \in LinkData, NEW p, NEW x
  PROVE  RetrievalScore(h, p, x) \in Nat
  <1> DEFINE f == [q \in Podcast |-> IF SharedGuests(h, p, q) >= MinShared
                                     THEN SharedGuests(h, p, q) ELSE 0]
             S == GuestPodcasts(h, x) \ {p}
  <1>1. IsFiniteSet(Podcast)
    BY FutureLinksAssumption
  <1>2. \A q \in Podcast : f[q] \in Nat
    BY PeopleOfLinks
  <1>3. S \in SUBSET Podcast
    BY DEF GuestPodcasts
  <1>4. RetrievalScore(h, p, x) = SumOver(f, S)
    BY DEF RetrievalScore
  <1> HIDE DEF f, S
  <1> QED
    BY <1>1, <1>2, <1>3, <1>4, SumIsNatural

LEMMA KeptIsRetrieved ==
  ASSUME NEW h \in LinkData, NEW p, NEW x \in KeptByRetrieval(h, p)
  PROVE  x \in Person /\ RetrievalScore(h, p, x) # 0
  <1> DEFINE entry(y) == [guest |-> y, score |-> RetrievalScore(h, p, y)]
             scored == {entry(y) : y \in GuestIds(h)}
             S == {s \in scored : s.score > 0}
             Prec(s, t) == s.score > t.score \/ (s.score = t.score /\ s.guest < t.guest)
             R == {st \in S \X S : Prec(st[1], st[2])}
             placed == {<<Cardinality({y \in S : Prec(y, s)}) + 1, s>> : s \in S}
             n == Cardinality(S)
             ranked == [i \in 1..n |-> (CHOOSE e \in placed : e[1] = i)[2]]
  <1>1. RankedByRetrieval(h, p) = ranked
    BY DEF RankedByRetrieval, InOrder
  <1>2. PICK i \in DOMAIN ranked : x = ranked[i].guest
    <2> HIDE DEF ranked
    <2> QED
      BY <1>1 DEF KeptByRetrieval
  <1>3. GuestIds(h) \in SUBSET Person /\ IsFiniteSet(Person) /\ \A y \in Person : y \in Nat
    BY PeopleOfLinks, FutureLinksAssumption
  <1>4. \A s \in S : /\ s.guest \in Person /\ s = entry(s.guest) /\ s.score > 0
                     /\ s.score = RetrievalScore(h, p, s.guest)
    BY <1>3
  <1>5. \A s \in S : s.score \in Nat /\ s.guest \in Nat
    BY <1>3, <1>4, RetrievalIsNatural
  <1>6. IsFiniteSet(S)
    <2> DEFINE f == [y \in GuestIds(h) |-> entry(y)]
    <2>1. f \in Surjection(GuestIds(h), scored)
      BY DEF Surjection
    <2>2. IsFiniteSet(GuestIds(h))
      BY <1>3, FS_Subset
    <2> HIDE DEF f, scored
    <2>3. IsFiniteSet(scored)
      BY <2>1, <2>2, FS_Surjection
    <2>4. S \subseteq scored
      OBVIOUS
    <2> QED
      BY <2>3, <2>4, FS_Subset
  <1>7. \A s, t \in S : <<s, t>> \in R <=> Prec(s, t)
    OBVIOUS
  <1>8. \A s, t \in S : s.guest = t.guest => s = t
    BY <1>4
  <1> HIDE DEF S, R
  <1>9. IsOrder(R, S)
    <2>1. \A s, t \in S : s # t => Prec(s, t) \/ Prec(t, s)
      BY <1>5, <1>8
    <2>2. \A s, t, u \in S : Prec(s, t) /\ Prec(t, u) => Prec(s, u)
      BY <1>5
    <2>3. \A s \in S : ~ Prec(s, s)
      BY <1>5
    <2> HIDE DEF Prec
    <2> QED
      BY <1>7, <2>1, <2>2, <2>3 DEF IsOrder
  <1> HIDE DEF Prec
  <1>10. placed = Places(R, S)
    <2>1. \A s \in S : {y \in S : Prec(y, s)} = Ahead(R, S, s)
      BY <1>7 DEF Ahead
    <2> QED
      BY <2>1 DEF Places, Place
  <1> HIDE DEF placed
  <1>11. SortedBy(ranked, S, R)
    BY <1>6, <1>9, <1>10, PlacedIsSorted
  <1> HIDE DEF ranked
  <1>12. ranked[i] \in S
    BY <1>2, <1>11 DEF SortedBy
  <1> QED
    BY <1>2, <1>4, <1>5, <1>12

\* The pairs of the shared-guest strategy are within 3 hops
LEMMA SharedGuestsAreNear ==
  ASSUME NEW h \in LinkData, NEW podcasts \in SUBSET Podcast, MaxDegree >= 3
  PROVE  SharedGuestCandidates(h, podcasts) \subseteq DegreeLimitedCandidates(h, podcasts)
  <1>1. ASSUME NEW c \in SharedGuestCandidates(h, podcasts)
        PROVE  c \in DegreeLimitedCandidates(h, podcasts)
    <2>1. /\ c[1] \in podcasts /\ c[2] \in GuestIds(h) /\ c = <<c[1], c[2]>>
          /\ c[2] \in KeptByRetrieval(h, c[1]) /\ ~Excluded(h, c)
      BY DEF SharedGuestCandidates
    <2>2. c[1] \in Podcast /\ c[2] \in Person /\ RetrievalScore(h, c[1], c[2]) # 0
      BY <2>1, KeptIsRetrieved
    <2>3. PICK q \in GuestPodcasts(h, c[2]), y \in Person :
            <<c[1], y>> \in h.guest /\ <<q, y>> \in h.guest
      BY <2>2, RetrievalIsShared
    <2>4. q \in Podcast /\ <<q, c[2]>> \in h.guest
      BY DEF GuestPodcasts
    <2>5. Distance(h, c[1], c[2]) # NoDistance
      BY <2>2, <2>3, <2>4, GuestsOfNeighbors
    <2> QED
      BY <2>1, <2>5, DegreeCandidatesAre
  <1> QED
    BY <1>1

LEMMA TwoParts ==
  ASSUME NEW S, IsFiniteSet(S), NEW A, NEW B, A \cup B = S, A \cap B = {}
  PROVE  /\ IsFiniteSet(A) /\ IsFiniteSet(B)
         /\ Cardinality(A) \in Nat /\ Cardinality(B) \in Nat
         /\ Cardinality(S) = Cardinality(A) + Cardinality(B)
  <1>1. IsFiniteSet(A) /\ IsFiniteSet(B)
    BY FS_Subset
  <1>2. Cardinality(S) = Cardinality(A) + Cardinality(B) - Cardinality(A \cap B)
    BY <1>1, FS_Union
  <1>3. Cardinality(A \cap B) = 0 /\ Cardinality(A) \in Nat /\ Cardinality(B) \in Nat
    BY <1>1, FS_EmptySet, FS_CardinalityType
  <1> QED
    BY <1>1, <1>2, <1>3

\* Every link of the horizon is counted once
LEMMA StatsAddUp ==
  ASSUME NEW h, NEW C, \A c \in C : ~Excluded(h, c), NEW future, IsFiniteSet(future),
         NEW s, s = CandidateStats(h, C, future)
  PROVE  s.future = s.positives + s.missed + s.existing + s.hosts
  <1> DEFINE found == C \cap future
             left == future \ found
             excluded == {l \in future : Excluded(h, l)}
             missed == future \ (C \cup excluded)
             existing == future \cap h.guest
             hosts == IF ExcludeHosts THEN (future \cap h.host) \ h.guest ELSE {}
  <1>1. /\ found \cup left = future /\ found \cap left = {}
        /\ missed \cup excluded = left /\ missed \cap excluded = {}
    OBVIOUS
  <1>2. existing \cup hosts = excluded /\ existing \cap hosts = {}
    BY FutureLinksAssumption DEF Excluded
  <1>3. /\ s.future = Cardinality(future) /\ s.positives = Cardinality(found)
        /\ s.missed = Cardinality(missed) /\ s.existing = Cardinality(existing)
        /\ s.hosts = Cardinality(hosts)
    BY FS_EmptySet DEF CandidateStats
  <1> HIDE DEF found, left, excluded, missed, existing, hosts
  <1>4. /\ Cardinality(found) \in Nat /\ IsFiniteSet(left)
        /\ Cardinality(future) = Cardinality(found) + Cardinality(left)
    BY <1>1, TwoParts, ZenonT(40)
  <1>5. /\ Cardinality(missed) \in Nat /\ IsFiniteSet(excluded)
        /\ Cardinality(left) = Cardinality(missed) + Cardinality(excluded)
    BY <1>1, <1>4, TwoParts
  <1>6. /\ Cardinality(existing) \in Nat /\ Cardinality(hosts) \in Nat
        /\ Cardinality(excluded) = Cardinality(existing) + Cardinality(hosts)
    <2>1. IsFiniteSet(excluded)
      BY <1>5
    <2> QED
      BY <1>2, <2>1, TwoParts
  <1> QED
    BY <1>3, <1>4, <1>5, <1>6

----------------------------------------------------------------------------
(* The sampled negatives *)

\* The negatives of a dataset are the ones of smallest score
Sampled(cutoff, C) == \A c \in C : SampleScore(cutoff, c) \in Int

LEMMA NegativesAre ==
  ASSUME NEW h \in LinkData, NEW cutoff, NEW C \in Candidates, Sampled(cutoff, C), NEW size \in Nat,
         NEW kept, kept = SampleNegativeCandidates(h, cutoff, C, size)
  PROVE  /\ kept \subseteq C /\ IsFiniteSet(kept)
         /\ Cardinality(kept) = IF size < Cardinality(C) THEN size ELSE Cardinality(C)
         /\ \A c \in kept, d \in C \ kept : SampleScore(cutoff, c) <= SampleScore(cutoff, d)
  <1> DEFINE order == ScoringOrder(h, C)
             item(i) == [score |-> -SampleScore(cutoff, order[i].pair), sequence |-> i,
                         pair |-> order[i].pair]
             items == [i \in DOMAIN order |-> item(i)]
             heap == HeapOf(items, size)
             n == Cardinality(C)
  <1>1. IsFiniteSet(C) /\ n \in Nat
    BY CandidatesAreFinite
  <1>2. CASE size = 0
    <2>1. kept = {}
      BY <1>2 DEF SampleNegativeCandidates
    <2> QED
      BY <1>1, <1>2, <2>1, FS_EmptySet
  <1>3. CASE size # 0
    <2>1. kept = {one.pair : one \in heap}
      BY <1>3 DEF SampleNegativeCandidates
    <2>2. Ordered(order, h, C)
      BY ScoringOrderIs
    <2> HIDE DEF order
    <2>3. /\ DOMAIN order = 1..n
          /\ \A i \in 1..n : order[i].pair \in C
          /\ \A c \in C : \E i \in 1..n : order[i].pair = c
          /\ \A i, j \in 1..n : order[i].pair = order[j].pair => i = j
      BY <2>2 DEF Ordered
    <2>4. \A i \in 1..n : /\ items[i].score \in Int /\ items[i].sequence = i
                          /\ items[i].pair = order[i].pair
                          /\ items[i].score = -SampleScore(cutoff, order[i].pair)
                          /\ SampleScore(cutoff, order[i].pair) \in Int
      <3> TAKE i \in 1..n
      <3>1. items[i] = item(i) /\ SampleScore(cutoff, order[i].pair) \in Int
        BY <2>3 DEF Sampled
      <3> HIDE DEF items
      <3> QED
        BY <3>1
    <2>5. Pushed(items, n)
      <3>1. Len(items) = n
        BY <1>1, <2>3
      <3> HIDE DEF items
      <3> QED
        BY <2>4, <3>1 DEF Pushed
    <2>6. size \in Nat \ {0}
      BY <1>3
    <2> HIDE DEF items
    <2>7. Holds(items, size, n, heap)
      BY <1>1, <2>5, <2>6, HeapHolds
    <2> HIDE DEF heap
    <2>8. /\ \A a \in heap : \E j \in 1..n : a = items[j]
          /\ IsFiniteSet(heap)
          /\ Cardinality(heap) = IF n < size THEN n ELSE size
          /\ \A a \in heap : \A j \in 1..n : items[j] \notin heap => Less(items[j], a)
      BY <2>7 DEF Holds
    <2>9. \A a \in heap : a.pair \in C
      BY <2>3, <2>4, <2>8
    <2>10. \A a, b \in heap : a.pair = b.pair => a = b
      <3> TAKE a, b \in heap
      <3>1. PICK i \in 1..n : a = items[i]
        BY <2>8
      <3>2. PICK j \in 1..n : b = items[j]
        BY <2>8
      <3> QED
        BY <2>3, <2>4, <3>1, <3>2
    <2>11. IsFiniteSet(kept) /\ Cardinality(kept) = Cardinality(heap)
      <3> DEFINE f == [a \in heap |-> a.pair]
      <3>1. f \in Bijection(heap, kept)
        BY <2>1, <2>10 DEF Bijection, Injection, Surjection, IsInjective
      <3> HIDE DEF f
      <3> QED
        BY <2>8, <3>1, FS_Bijection DEF ExistsBijection
    <2>12. ASSUME NEW c \in kept, NEW d \in C \ kept
           PROVE  SampleScore(cutoff, c) <= SampleScore(cutoff, d)
      <3>1. PICK a \in heap : a.pair = c
        BY <2>1
      <3>2. PICK i \in 1..n : a = items[i]
        BY <2>8
      <3>3. PICK j \in 1..n : order[j].pair = d
        BY <2>3
      <3>4. items[j] \notin heap
        <4>1. items[j].pair = d
          BY <2>4, <3>3
        <4> QED
          BY <2>1, <4>1
      <3>5. Less(items[j], a)
        BY <2>8, <3>4
      <3>6. /\ a.score = -SampleScore(cutoff, c) /\ SampleScore(cutoff, c) \in Int
            /\ items[j].score = -SampleScore(cutoff, d) /\ SampleScore(cutoff, d) \in Int
        BY <2>4, <3>1, <3>2, <3>3
      <3> QED
        BY <3>5, <3>6 DEF Less
    <2>13. kept \subseteq C
      BY <2>1, <2>9
    <2> QED
      BY <1>1, <2>8, <2>11, <2>12, <2>13
  <1> QED
    BY <1>2, <1>3

----------------------------------------------------------------------------
(* What the files of the commands hold *)

\* Each is a function of the links that its command read
PredictionIs(r) ==
  /\ r.seen \in SUBSET Episode /\ r.context \in SUBSET Episode /\ r.cutoff \in Int
  /\ r.rows = PredictionRows(History(r), FeatureContext(r.context, r.cutoff),
                             TrainingCandidates(History(r)))

AuditIs(a) ==
  /\ a.seen \in SUBSET Episode /\ a.context \in SUBSET Episode /\ a.cutoff \in Int
  /\ a.published \in Links
  /\ a.rows = AuditRows(History(a), FeatureContext(a.context, a.cutoff), a.published)

ReportIs(r) ==
  \E E, D \in SUBSET Episode, cutoff \in Int :
    /\ r.heuristic = CandidateSet(E, cutoff, "shared guests")
    /\ r.baseline = CandidateSet(D, cutoff, "degree")
    /\ r.comparison = CompareCandidateSets(r.baseline, r.heuristic)

Negatives(d) ==
  LET all == TrainingCandidates(History(d))
  IN SampleNegativeCandidates(History(d), d.cutoff, all \ d.future,
                              NegativeRatio * Cardinality(all \cap d.future))

\* The horizon that a planned cut labels is over
IsOver(d) == d.due # 0 => d.cutoff + LabelGap + Horizon <= d.due

DatasetIs(d) ==
  /\ d.seen \in SUBSET Episode /\ d.cutoff \in Int /\ d.future \in Links
  /\ IsOver(d)
  /\ LET pairs == (TrainingCandidates(History(d)) \cap d.future) \cup Negatives(d)
     IN \E row : /\ d.rows = {row[pair] : pair \in pairs}
                 /\ \A pair \in pairs : /\ row[pair].pair = pair
                                        /\ row[pair].label <=> pair \in d.future

MatrixIs(m) ==
  \A row \in m.rows :
    /\ m.metadata.seen \in SUBSET Episode /\ m.metadata.context \in SUBSET Episode
    /\ m.metadata.cutoff \in Int
    /\ row.pair \in TrainingCandidates(History(m.metadata))
    /\ row.features = SelectedFeatureMap(History(m.metadata),
                        FeatureContext(m.metadata.context, m.metadata.cutoff),
                        row.pair[1], row.pair[2])

ForDataset == {"labels_of_dataset", "dataset"}

\* The invariant that AuditFollowsPredictions, EveryPositiveIsAccounted,
\* BestAreKept and ScoredAsTrained follow from
FilesInv ==
  /\ \A id \in RunId : predictions[id] # None => PredictionIs(predictions[id])
  /\ \A id \in RunId : audits[id] # None => AuditIs(audits[id])
  /\ report # None => ReportIs(report)
  /\ dataset # None => DatasetIs(dataset)
  /\ MatrixIs(matrix)
  /\ \A p \in Process : pc[p] \in ForDataset => IsOver(job[p])

LEMMA FilesInit == Init => FilesInv
  BY DEF Init, FilesInv, MatrixIs, ForDataset

\* What a step that writes no file must show
LEMMA FilesKept ==
  ASSUME FilesInv, NEW p \in Process, Apart(p), UNCHANGED links,
         pc'[p] \in ForDataset => IsOver(job'[p])
  PROVE  FilesInv'
  <1>1. \A q \in Process : pc'[q] \in ForDataset => IsOver(job'[q])
    BY DEF FilesInv, Apart
  <1>2. UNCHANGED <<predictions, audits, report, dataset, matrix>>
    BY DEF links, training
  <1>3. /\ \A id \in RunId : predictions'[id] # None => PredictionIs(predictions'[id])
        /\ \A id \in RunId : audits'[id] # None => AuditIs(audits'[id])
        /\ report' # None => ReportIs(report')
        /\ dataset' # None => DatasetIs(dataset')
        /\ MatrixIs(matrix')
    BY <1>2 DEF FilesInv
  <1> QED
    BY <1>1, <1>3 DEF FilesInv

\* A cut is planned when its horizon is over
LEMMA StartsOfDays ==
  ASSUME NEW t \in Nat
  PROVE  StartOfDay(t) <= t /\ StartOfDay(t) \in Nat
  <1>1. Day \in Nat \ {0} /\ MidnightOffset \in Nat
    BY AnalysisAssumption
  <1>2. CASE t < MidnightOffset
    BY <1>2 DEF StartOfDay
  <1>3. CASE ~ (t < MidnightOffset)
    <2> DEFINE s == t - MidnightOffset
    <2>1. s \in Nat
      BY <1>1, <1>3
    <2> HIDE DEF s
    <2>2. s \div Day \in Nat /\ (s \div Day) * Day <= s /\ (s \div Day) * Day \in Nat
      BY <1>1, <2>1, Z3
    <2>3. StartOfDay(t) = (s \div Day) * Day + MidnightOffset
      BY <1>3 DEF StartOfDay, s
    <2>4. s = t - MidnightOffset
      BY DEF s
    <2> DEFINE d == (s \div Day) * Day
    <2> HIDE DEF d
    <2>5. d \in Nat /\ d <= s /\ StartOfDay(t) = d + MidnightOffset
      BY <2>2, <2>3 DEF d
    <2> QED
      BY <1>1, <2>1, <2>4, <2>5
  <1> QED
    BY <1>2, <1>3

LEMMA CutsAreOver ==
  ASSUME Shapes, NEW c \in TrainingCutoffs
  PROVE  c.due # 0 => c.at + LabelGap + Horizon <= c.due
  <1> SUFFICES ASSUME c.due # 0 PROVE c.at + LabelGap + Horizon <= c.due
    OBVIOUS
  <1> DEFINE dates == {Published[e] : e \in ingested}
             last == Max(dates)
             room == last - Horizon - LabelGap
  <1>1. \E t \in CutPlans : c = [at |-> t, due |-> last]
    BY DEF TrainingCutoffs
  <1>2. PICK t \in CutPlans : c = [at |-> t, due |-> last]
    BY <1>1
  <1>3. ingested \in SUBSET Episode
    BY DEF Shapes
  <1>4. /\ dates # {} /\ ~ (last < Horizon + LabelGap)
        /\ t \in StartOfDay(Min(dates) + MinHistory)..StartOfDay(room)
    BY <1>2 DEF CutPlans
  <1>5. last \in Nat
    BY <1>3, <1>4, LatestDate
  <1>6. Horizon \in Nat /\ LabelGap \in Nat
    BY AnalysisAssumption
  <1> HIDE DEF last, dates
  <1>7. room \in Nat
    BY <1>4, <1>5, <1>6
  <1>8. StartOfDay(room) <= room /\ StartOfDay(room) \in Nat
    BY <1>7, StartsOfDays
  <1>9. t \in Int /\ t <= room
    BY <1>4, <1>7, <1>8
  <1>10. c.at = t /\ c.due = last
    BY <1>2
  <1> QED
    BY <1>5, <1>6, <1>9, <1>10

ReaderAt ==
  {"idle", "person_metrics", "context", "save_predictions", "audit_history", "audit_context",
   "save_audit", "baseline", "labels_of_matrix", "matrix"}

\* Steps of a command that reads, or of another command
LEMMA ReadersKeepFiles ==
  ASSUME Shapes, FilesInv, NEW p \in Process,
         \/ MetricsStep(p) \/ EvolutionStep(p)
         \/ BuildMetricGraphs(p) \/ ReadHistory(p) \/ ReadContext(p)
         \/ AuditWindow(p) \/ ReadAuditHistory(p) \/ ReadAuditContext(p)
         \/ BuildHeuristic(p) \/ Crash(p)
  PROVE  FilesInv'
  <1>0. Apart(p)
    BY ReadsOrPredictsFrame, MetricsFrame, EvolutionFrame DEF ReadsOrPredicts
  <1>1. UNCHANGED links
    <2>1. CASE MetricsStep(p)
      BY <2>1 DEF MetricsStep, CreateMetricRun, StorePersonMetrics, StorePodcastMetrics,
         SucceedMetrics, FailMetrics, FinishMetricRun
    <2>2. CASE EvolutionStep(p)
      BY <2>2 DEF EvolutionStep, CreateEvolutionRun, SkipEvolution, RequestWeeks, CalculateWeek,
         SaveWeeksCalculated, SucceedEvolution, FailEvolution, FinishRun,
         ResetNetworkEvolutionTables
    <2>3. CASE ~ MetricsStep(p) /\ ~ EvolutionStep(p)
      BY <2>3 DEF BuildMetricGraphs, ReadHistory, ReadContext,
         AuditWindow, ReadAuditHistory, ReadAuditContext, BuildHeuristic, Crash
    <2> QED
      BY <2>1, <2>2, <2>3
  <1>2. pc'[p] \notin ForDataset
    <2>1. CASE MetricsStep(p)
      <3>1. pc' \in [Process -> Labels] /\ pc \in [Process -> Labels]
        BY <2>1, MetricsFrame DEF Shapes
      <3> QED
        BY <2>1, <3>1 DEF MetricsStep, CreateMetricRun, StorePersonMetrics, StorePodcastMetrics,
           SucceedMetrics, FailMetrics, FinishMetricRun, Idle, Goto, Begin, ForDataset
    <2>2. CASE EvolutionStep(p)
      <3>1. pc' \in [Process -> Labels] /\ pc \in [Process -> Labels]
        BY <2>2, EvolutionFrame DEF Shapes
      <3> QED
        BY <2>2, <3>1 DEF EvolutionStep, CreateEvolutionRun, SkipEvolution, RequestWeeks, CalculateWeek,
           SaveWeeksCalculated, SucceedEvolution, FailEvolution, FinishRun,
           ResetNetworkEvolutionTables, Idle, Goto, Begin, ForDataset
    <2>3. CASE ~ MetricsStep(p) /\ ~ EvolutionStep(p)
      <3>1. pc \in [Process -> Labels]
        BY DEF Shapes
      <3> QED
        BY <2>3, <3>1 DEF BuildMetricGraphs, ReadHistory, ReadContext,
         AuditWindow, ReadAuditHistory, ReadAuditContext, BuildHeuristic, Crash,
         Idle, Goto, Begin, ForDataset
    <2> QED
      BY <2>1, <2>2, <2>3
  <1> QED
    BY <1>0, <1>1, <1>2, FilesKept

\* The commands that make training data carry a cutoff that is due
LEMMA TrainingKeepsFiles ==
  ASSUME Shapes, FilesInv, NEW p \in Process,
         ReadTrainingHistory(p) \/ ReadDatasetLabels(p)
  PROVE  FilesInv'
  <1>0. Apart(p)
    BY ReadsOrPredictsFrame DEF ReadsOrPredicts
  <1>1. UNCHANGED links
    BY DEF ReadTrainingHistory, ReadDatasetLabels
  <1>2. CASE ReadDatasetLabels(p)
    <2>1. pc[p] \in ForDataset /\ job' = [job EXCEPT ![p].future = HorizonLinks(job[p])]
          /\ job \in [Process -> Locals]
      BY <1>2 DEF ReadDatasetLabels, ForDataset, Shapes
    <2>2. IsOver(job[p])
      BY <2>1 DEF FilesInv
    <2>3. job'[p] = [job[p] EXCEPT !.future = HorizonLinks(job[p])] /\ job[p] \in Locals
      BY <2>1
    <2> DEFINE j == job[p]
               F == HorizonLinks(job[p])
               k == [j EXCEPT !.future = F]
    <2>4. k.due = j.due /\ k.cutoff = j.cutoff
      <3>1. j \in Locals
        BY <2>3
      <3> HIDE DEF j, F
      <3> QED
        BY <3>1 DEF Locals
    <2>5. job'[p] = k
      BY <2>3
    <2> HIDE DEF k
    <2>6. IsOver(job'[p])
      BY <2>2, <2>4, <2>5 DEF IsOver
    <2> QED
      BY <1>0, <1>1, <2>6, FilesKept
  <1>3. CASE ReadTrainingHistory(p)
    <2>1. PICK c \in TrainingCutoffs :
            LET locals == [NoJob EXCEPT !.cutoff = c.at, !.due = c.due, !.seen = linked]
            IN \/ Begin(p, "dataset", "labels_of_dataset", locals)
               \/ Begin(p, "matrix", "labels_of_matrix", locals)
      BY <1>3 DEF ReadTrainingHistory
    <2> DEFINE locals == [NoJob EXCEPT !.cutoff = c.at, !.due = c.due, !.seen = linked]
    <2>2. locals.cutoff = c.at /\ locals.due = c.due
      BY DEF NoJob
    <2>3. job'[p] = locals
      <3>1. Begin(p, "dataset", "labels_of_dataset", locals)
              \/ Begin(p, "matrix", "labels_of_matrix", locals)
        BY <2>1
      <3>2. job \in [Process -> Locals]
        BY DEF Shapes
      <3> HIDE DEF locals
      <3> QED
        BY <3>1, <3>2 DEF Begin
    <2> HIDE DEF locals
    <2>4. c.due # 0 => c.at + LabelGap + Horizon <= c.due
      BY CutsAreOver
    <2>5. IsOver(job'[p])
      BY <2>2, <2>3, <2>4 DEF IsOver
    <2> QED
      BY <1>0, <1>1, <2>5, FilesKept
  <1> QED
    BY <1>2, <1>3

\* A command that writes its file ends; what the others hold stays as it is
LEMMA WriterIsDone ==
  ASSUME Shapes, FilesInv, NEW p \in Process, Apart(p), pc'[p] \notin ForDataset
  PROVE  \A q \in Process : pc'[q] \in ForDataset => IsOver(job'[q])
  BY DEF FilesInv, Apart

LEMMA PredictionsWritten ==
  ASSUME Shapes, FilesInv, NEW p \in Process, SavePredictionRun(p)
  PROVE  FilesInv'
  <1> DEFINE j == job[p]
             rows == PredictionRows(History(j), FeatureContext(j.context, j.cutoff),
                                    TrainingCandidates(History(j)))
             r == [kind |-> "predictions", cutoff |-> j.cutoff, seen |-> j.seen,
                   context |-> j.context, rows |-> rows]
  <1>1. /\ predictions' = [predictions EXCEPT ![j.id] = r]
        /\ UNCHANGED <<audits, report, dataset, matrix>>
    BY DEF SavePredictionRun, TrainingCandidates, training
  <1>2. Apart(p) /\ pc'[p] = "idle"
    BY IdlesAt DEF SavePredictionRun
  <1>3. \A q \in Process : pc'[q] \in ForDataset => IsOver(job'[q])
    BY <1>2, WriterIsDone DEF ForDataset
  <1>4. j.seen \in SUBSET Episode /\ j.context \in SUBSET Episode /\ j.cutoff \in Int
        /\ predictions = [id \in RunId |-> predictions[id]]
    BY DEF Shapes, Locals
  <1>5. History(r) = History(j)
    BY DEF History
  <1>6. PredictionIs(r)
    <2>1. r.cutoff = j.cutoff /\ r.seen = j.seen /\ r.context = j.context /\ r.rows = rows
      OBVIOUS
    <2> HIDE DEF r
    <2> QED
      BY <1>4, <1>5, <2>1 DEF PredictionIs
  <1> HIDE DEF r
  <1>7. \A id \in RunId : predictions'[id] # None => PredictionIs(predictions'[id])
    BY <1>1, <1>4, <1>6 DEF FilesInv
  <1>8. /\ \A id \in RunId : audits'[id] # None => AuditIs(audits'[id])
        /\ report' # None => ReportIs(report')
        /\ dataset' # None => DatasetIs(dataset')
        /\ MatrixIs(matrix')
    BY <1>1 DEF FilesInv
  <1> QED
    BY <1>3, <1>7, <1>8 DEF FilesInv

LEMMA AuditWritten ==
  ASSUME Shapes, FilesInv, NEW p \in Process, SaveAuditRun(p)
  PROVE  FilesInv'
  <1> DEFINE j == job[p]
             published == FutureGuestLinks(linked, j.cutoff, j.cutoff + Week)
             rows == AuditRows(History(j), FeatureContext(j.context, j.cutoff), published)
             a == [kind |-> "audit", cutoff |-> j.cutoff, seen |-> j.seen,
                   context |-> j.context, published |-> published, rows |-> rows]
  <1>1. /\ audits' = [audits EXCEPT ![j.id] = a]
        /\ UNCHANGED <<predictions, report, dataset, matrix>>
    BY DEF SaveAuditRun, training
  <1>2. Apart(p) /\ pc'[p] = "idle"
    BY IdlesAt DEF SaveAuditRun
  <1>3. \A q \in Process : pc'[q] \in ForDataset => IsOver(job'[q])
    BY <1>2, WriterIsDone DEF ForDataset
  <1>4. j.seen \in SUBSET Episode /\ j.context \in SUBSET Episode /\ j.cutoff \in Int
        /\ audits = [id \in RunId |-> audits[id]]
    BY DEF Shapes, Locals
  <1>5. History(a) = History(j)
    BY DEF History
  <1>6. published \in Links
    BY LinksOfHorizon DEF Links
  <1>7. AuditIs(a)
    <2>1. /\ a.cutoff = j.cutoff /\ a.seen = j.seen /\ a.context = j.context
          /\ a.published = published /\ a.rows = rows
      OBVIOUS
    <2> HIDE DEF a, published
    <2> QED
      BY <1>4, <1>5, <1>6, <2>1 DEF AuditIs
  <1> HIDE DEF a
  <1>8. \A id \in RunId : audits'[id] # None => AuditIs(audits'[id])
    BY <1>1, <1>4, <1>7 DEF FilesInv
  <1>9. /\ \A id \in RunId : predictions'[id] # None => PredictionIs(predictions'[id])
        /\ report' # None => ReportIs(report')
        /\ dataset' # None => DatasetIs(dataset')
        /\ MatrixIs(matrix')
    BY <1>1 DEF FilesInv
  <1> QED
    BY <1>3, <1>8, <1>9 DEF FilesInv

LEMMA ReportWritten ==
  ASSUME Shapes, FilesInv, NEW p \in Process, BuildBaseline(p)
  PROVE  FilesInv'
  <1> DEFINE j == job[p]
             heuristic == CandidateSet(j.seen, j.cutoff, "shared guests")
             baseline == CandidateSet(linked, j.cutoff, "degree")
  <1>1. /\ report' = [kind |-> "report", heuristic |-> heuristic, baseline |-> baseline,
                      comparison |-> CompareCandidateSets(baseline, heuristic)]
        /\ UNCHANGED <<predictions, audits, dataset, matrix>>
    BY DEF BuildBaseline, training
  <1>2. Apart(p) /\ pc'[p] = "idle"
    BY IdlesAt DEF BuildBaseline
  <1>3. \A q \in Process : pc'[q] \in ForDataset => IsOver(job'[q])
    BY <1>2, WriterIsDone DEF ForDataset
  <1>4. j.seen \in SUBSET Episode /\ linked \in SUBSET Episode /\ j.cutoff \in Int
    BY DEF Shapes, Locals
  <1>5. ReportIs(report')
    <2>1. report'.heuristic = heuristic /\ report'.baseline = baseline
          /\ report'.comparison = CompareCandidateSets(baseline, heuristic)
      BY <1>1
    <2> QED
      BY <1>4, <2>1 DEF ReportIs
  <1>6. /\ \A id \in RunId : predictions'[id] # None => PredictionIs(predictions'[id])
        /\ \A id \in RunId : audits'[id] # None => AuditIs(audits'[id])
        /\ dataset' # None => DatasetIs(dataset')
        /\ MatrixIs(matrix')
    BY <1>1 DEF FilesInv
  <1> QED
    BY <1>3, <1>5, <1>6 DEF FilesInv

LEMMA DatasetWritten ==
  ASSUME Shapes, FilesInv, NEW p \in Process, WriteDataset(p)
  PROVE  FilesInv'
  <1> DEFINE j == job[p]
             h == History(j)
             c == FeatureContext(linked, j.cutoff)
             all == TrainingCandidates(h)
             pairs == (all \cap j.future) \cup
                      SampleNegativeCandidates(h, j.cutoff, all \ j.future,
                        NegativeRatio * Cardinality(all \cap j.future))
             row == [pair \in pairs |->
                      [pair |-> pair, label |-> pair \in j.future,
                       split |-> SplitName(j.cutoff, pair),
                       distance |-> Distance(h, pair[1], pair[2]),
                       features |-> FeatureRow(h, c, pair[1], pair[2])]]
             d == [kind |-> "dataset", cutoff |-> j.cutoff, due |-> j.due, seen |-> j.seen,
                   future |-> j.future, context |-> linked,
                   rows |-> {row[pair] : pair \in pairs}]
  <1>1. /\ dataset' = d
        /\ UNCHANGED <<predictions, audits, report, matrix>>
    BY DEF WriteDataset
  <1>2. Apart(p) /\ pc'[p] = "idle" /\ pc[p] = "dataset"
    BY IdlesAt DEF WriteDataset
  <1>3. \A q \in Process : pc'[q] \in ForDataset => IsOver(job'[q])
    BY <1>2, WriterIsDone DEF ForDataset
  <1>4. j.seen \in SUBSET Episode /\ j.cutoff \in Int /\ j.future \in Links
    BY DEF Shapes, Locals, Links
  <1>5. IsOver(j)
    BY <1>2 DEF FilesInv, ForDataset
  <1>6. \A pair \in pairs : row[pair].pair = pair /\ (row[pair].label <=> pair \in j.future)
    <2> HIDE DEF pairs
    <2> QED
      OBVIOUS
  <1> HIDE DEF row
  <1>7. /\ d.cutoff = j.cutoff /\ d.seen = j.seen /\ d.future = j.future /\ d.due = j.due
        /\ d.rows = {row[pair] : pair \in pairs}
    BY DEF d
  <1>8. History(d) = h
    BY <1>7 DEF History
  <1> HIDE DEF d
  <1>9. (TrainingCandidates(History(d)) \cap d.future) \cup Negatives(d) = pairs
    BY <1>7, <1>8 DEF Negatives
  <1>10. IsOver(d)
    BY <1>5, <1>7 DEF IsOver
  <1> HIDE DEF pairs
  <1>11. DatasetIs(d)
    BY <1>4, <1>6, <1>7, <1>9, <1>10 DEF DatasetIs
  <1>12. /\ \A id \in RunId : predictions'[id] # None => PredictionIs(predictions'[id])
         /\ \A id \in RunId : audits'[id] # None => AuditIs(audits'[id])
         /\ report' # None => ReportIs(report')
         /\ MatrixIs(matrix')
    BY <1>1 DEF FilesInv
  <1> QED
    BY <1>1, <1>3, <1>11, <1>12 DEF FilesInv

LEMMA MatrixWritten ==
  ASSUME Shapes, FilesInv, NEW p \in Process, OpenMatrix(p) \/ WriteMatrix(p)
  PROVE  FilesInv'
  <1>1. UNCHANGED <<predictions, audits, report, dataset>>
    BY DEF OpenMatrix, WriteMatrix
  <1>2. Apart(p) /\ pc'[p] \notin ForDataset
    <2>1. Apart(p)
      BY ReadsOrPredictsFrame DEF ReadsOrPredicts
    <2>2. pc'[p] \notin ForDataset
      BY DEF OpenMatrix, WriteMatrix, Idle, Goto, ForDataset, Shapes
    <2> QED
      BY <2>1, <2>2
  <1>3. \A q \in Process : pc'[q] \in ForDataset => IsOver(job'[q])
    BY <1>2, WriterIsDone
  <1>4. MatrixIs(matrix')
    <2>1. CASE OpenMatrix(p)
      <3>1. matrix' = [matrix EXCEPT !.rows = {}]
        BY <2>1 DEF OpenMatrix
      <3>2. \A row \in matrix'.rows : FALSE
        BY <3>1
      <3> QED
        BY <3>2 DEF MatrixIs
    <2>2. CASE WriteMatrix(p)
      <3> DEFINE j == job[p]
                 h == History(j)
                 c == FeatureContext(linked, j.cutoff)
                 row(pair) == [pair |-> pair, label |-> pair \in j.future,
                               split |-> SplitName(j.cutoff, pair),
                               features |-> SelectedFeatureMap(h, c, pair[1], pair[2])]
                 meta == [kind |-> "matrix", cutoff |-> j.cutoff, seen |-> j.seen,
                          future |-> j.future, context |-> linked]
                 m == [rows |-> {row(pair) : pair \in TrainingCandidates(h)}, metadata |-> meta]
      <3>1. matrix' = m
        BY <2>2 DEF WriteMatrix
      <3>2. j.seen \in SUBSET Episode /\ linked \in SUBSET Episode /\ j.cutoff \in Int
        BY DEF Shapes, Locals
      <3>3. /\ meta.seen = j.seen /\ meta.context = linked /\ meta.cutoff = j.cutoff
            /\ History(meta) = h
        BY DEF History
      <3>4. m.metadata = meta /\ m.rows = {row(pair) : pair \in TrainingCandidates(h)}
        OBVIOUS
      <3>5. \A pair : row(pair).pair = pair
                      /\ row(pair).features = SelectedFeatureMap(h, c, pair[1], pair[2])
        OBVIOUS
      <3> HIDE DEF row, meta, m, h
      <3>6. \A r \in m.rows : r.pair \in TrainingCandidates(h)
                              /\ r.features = SelectedFeatureMap(h, c, r.pair[1], r.pair[2])
        BY <3>4, <3>5
      <3>7. MatrixIs(m)
        BY <3>2, <3>3, <3>4, <3>6 DEF MatrixIs
      <3> QED
        BY <3>1, <3>7
    <2> QED
      BY <2>1, <2>2
  <1>5. /\ \A id \in RunId : predictions'[id] # None => PredictionIs(predictions'[id])
        /\ \A id \in RunId : audits'[id] # None => AuditIs(audits'[id])
        /\ report' # None => ReportIs(report')
        /\ dataset' # None => DatasetIs(dataset')
    BY <1>1 DEF FilesInv
  <1> QED
    BY <1>3, <1>4, <1>5 DEF FilesInv

LEMMA FilesStep == Shapes /\ FilesInv /\ [Next]_vars => FilesInv'
  <1> SUFFICES ASSUME Shapes, FilesInv, [Next]_vars PROVE FilesInv'
    OBVIOUS
  <1>1. CASE UNCHANGED <<links, pc, job>>
    <2>1. UNCHANGED <<predictions, audits, report, dataset, matrix, pc, job>>
      BY <1>1 DEF links, training
    <2> QED
      BY <2>1 DEF FilesInv
  <1>2. CASE UNCHANGED vars \/ CatalogStep
    BY <1>1, <1>2 DEF vars, CatalogStep, IngestEpisode, LinkEpisode
  <1>3. ASSUME NEW p \in Process, ReadsOrPredicts(p) PROVE FilesInv'
    BY <1>3, ReadersKeepFiles, TrainingKeepsFiles, PredictionsWritten, AuditWritten,
       ReportWritten, DatasetWritten, MatrixWritten DEF ReadsOrPredicts
  <1>4. ASSUME NEW p \in Process, MetricsStep(p) \/ EvolutionStep(p) PROVE FilesInv'
    BY <1>4, ReadersKeepFiles
  <1> QED
    BY <1>2, <1>3, <1>4, StepsOfNext

\* Predictions, audits, reports, datasets and matrices are what their command
\* computes from the links it read, whatever was linked meanwhile and wherever
\* other commands were killed.
THEOREM FilesAreComputed == Spec => []FilesInv
  BY FilesInit, FilesStep, AnalysisShapes, PTL DEF Spec

----------------------------------------------------------------------------
(* Sums that agree *)

LEMMA SumOfEquals ==
  ASSUME NEW f, NEW g, NEW S, IsFiniteSet(S), \A q \in S : f[q] = g[q]
  PROVE  SumOver(f, S) = SumOver(g, S)
  <1>1. PICK iter : iter = (CHOOSE i : Sums(f, S, i)) /\ Sums(f, S, iter)
    BY SumsExist
  <1>2. PICK jter : jter = (CHOOSE i : Sums(g, S, i)) /\ Sums(g, S, jter)
    BY SumsExist
  <1>3. S \cap S = S
    OBVIOUS
  <1>4. \A T \in SUBSET (S \cap S) : iter[T] = jter[T]
    <2>1. IsFiniteSet(S \cap S) /\ Sums(f, S, iter) /\ Sums(g, S, jter)
      BY <1>1, <1>2, <1>3
    <2>2. Agree(f, g, S \cap S)
      BY DEF Agree
    <2> QED
      BY <2>1, <2>2, SumsAgree
  <1>5. iter[S] = jter[S]
    BY <1>3, <1>4
  <1>6. SumOver(f, S) = iter[S] /\ SumOver(g, S) = jter[S]
    BY <1>1, <1>2, SumUnfold
  <1> QED
    BY <1>5, <1>6

\* What one member adds, and what is left
SumStep(T, z) == \A f : SumOver(f, T) = f[z] + SumOver(f, T \ {z})

LEMMA TakeOne ==
  ASSUME NEW U, IsFiniteSet(U), NEW T \in SUBSET U, T # {}, NEW z, z = One(T)
  PROVE  /\ z \in T /\ z \in U /\ IsFiniteSet(T)
         /\ T \ {z} \in SUBSET U /\ Cardinality(T \ {z}) < Cardinality(T)
         /\ SumStep(T, z)
  <1>1. /\ z \in T /\ IsFiniteSet(T)
        /\ T \ {z} \in SUBSET U /\ Cardinality(T \ {z}) < Cardinality(T)
    BY WithoutOne
  <1>3. SumStep(T, z)
    <2> SUFFICES ASSUME NEW f PROVE SumOver(f, T) = f[z] + SumOver(f, T \ {z})
      BY DEF SumStep
    <2> QED
      BY <1>1, SumByOne
  <1> QED
    BY <1>1, <1>3

LEMMA SumAdds ==
  ASSUME NEW U, IsFiniteSet(U), NEW f, NEW g, NEW k,
         \A q \in U : f[q] \in Nat /\ g[q] \in Nat /\ k[q] = f[q] + g[q], NEW S \in SUBSET U
  PROVE  SumOver(k, S) = SumOver(f, S) + SumOver(g, S)
  <1> DEFINE C == {T \in SUBSET U : SumOver(k, T) # SumOver(f, T) + SumOver(g, T)}
  <1> SUFFICES ASSUME C # {} PROVE FALSE
    OBVIOUS
  <1>1. \A T \in SUBSET U : (T \in C) <=> SumOver(k, T) # SumOver(f, T) + SumOver(g, T)
    OBVIOUS
  <1>2. \A T \in C : T \in SUBSET U
    OBVIOUS
  <1> HIDE DEF C
  <1>3. PICK T \in C : \A X \in SUBSET U : Cardinality(X) < Cardinality(T) => X \notin C
    BY <1>2, SmallestSubset
  <1>4. T \in SUBSET U /\ SumOver(k, T) # SumOver(f, T) + SumOver(g, T)
    BY <1>1, <1>2
  <1>5. T # {}
    <2>1. SumOver(k, {}) = 0
      BY SumOfNothing
    <2>2. SumOver(f, {}) = 0
      BY SumOfNothing
    <2>3. SumOver(g, {}) = 0
      BY SumOfNothing
    <2>4. SumOver(k, {}) = SumOver(f, {}) + SumOver(g, {})
      BY <2>1, <2>2, <2>3
    <2> QED
      BY <1>4, <2>4
  <1>6. PICK z : z = One(T)
    OBVIOUS
  <1> DEFINE L == T \ {z}
  <1>7. /\ z \in U /\ L \in SUBSET U /\ Cardinality(L) < Cardinality(T)
        /\ SumOver(f, T) = f[z] + SumOver(f, L)
        /\ SumOver(g, T) = g[z] + SumOver(g, L)
        /\ SumOver(k, T) = k[z] + SumOver(k, L)
    <2>1. /\ z \in U /\ L \in SUBSET U /\ Cardinality(L) < Cardinality(T)
          /\ SumStep(T, z)
      BY <1>4, <1>5, <1>6, TakeOne
    <2> QED
      BY <2>1 DEF SumStep
  <1> HIDE DEF L
  <1>8. SumOver(k, L) = SumOver(f, L) + SumOver(g, L)
    BY <1>1, <1>3, <1>7
  <1>9. /\ f[z] \in Nat /\ g[z] \in Nat /\ k[z] = f[z] + g[z]
        /\ SumOver(f, L) \in Nat /\ SumOver(g, L) \in Nat
    BY <1>7, SumIsNatural
  <1> QED
    BY <1>4, <1>7, <1>8, <1>9

\* f is n on D and 0 elsewhere
Weighs(f, U, D, n) == \A q \in U : f[q] = IF q \in D THEN n ELSE 0

\* n for each member of D
LEMMA SumOfMembers ==
  ASSUME NEW U, IsFiniteSet(U), NEW f, NEW D, NEW n \in Nat,
         Weighs(f, U, D, n), NEW S \in SUBSET U
  PROVE  SumOver(f, S) = n * Cardinality(S \cap D)
  <1> DEFINE C == {T \in SUBSET U : SumOver(f, T) # n * Cardinality(T \cap D)}
  <1> SUFFICES ASSUME C # {} PROVE FALSE
    OBVIOUS
  <1>1. \A T \in SUBSET U : (T \in C) <=> SumOver(f, T) # n * Cardinality(T \cap D)
    OBVIOUS
  <1>2. \A T \in C : T \in SUBSET U
    OBVIOUS
  <1> HIDE DEF C
  <1>3. PICK T \in C : \A X \in SUBSET U : Cardinality(X) < Cardinality(T) => X \notin C
    BY <1>2, SmallestSubset
  <1>4. T \in SUBSET U /\ SumOver(f, T) # n * Cardinality(T \cap D)
    BY <1>1, <1>2
  <1>5. T # {}
    <2>1. {} \cap D = {} /\ Cardinality({}) = 0 /\ n * 0 = 0
      BY FS_EmptySet
    <2> QED
      BY <1>4, <2>1, SumOfNothing
  <1>6. PICK z : z = One(T)
    OBVIOUS
  <1> DEFINE L == T \ {z}
             m == Cardinality(L \cap D)
  <1>7. /\ z \in U /\ z \in T /\ L \in SUBSET U /\ Cardinality(L) < Cardinality(T)
        /\ IsFiniteSet(T)
        /\ SumOver(f, T) = f[z] + SumOver(f, L)
    <2>1. /\ z \in U /\ z \in T /\ L \in SUBSET U /\ Cardinality(L) < Cardinality(T)
          /\ IsFiniteSet(T) /\ SumStep(T, z)
      BY <1>4, <1>5, <1>6, TakeOne
    <2> QED
      BY <2>1 DEF SumStep
  <1>8. IsFiniteSet(L \cap D) /\ m \in Nat
    BY <1>7, FS_Subset, FS_Intersection, FS_CardinalityType
  <1>9. SumOver(f, L) = n * m
    BY <1>1, <1>3, <1>7
  <1>10. CASE z \in D
    <2>1. T \cap D = (L \cap D) \cup {z} /\ z \notin L \cap D
      BY <1>7, <1>10
    <2>2. Cardinality(T \cap D) = m + 1
      <3> HIDE DEF L
      <3> QED
        BY <1>8, <2>1, FS_AddElement
    <2>3. n * (m + 1) = n + n * m
      BY <1>8
    <2>4. f[z] = n
      BY <1>7, <1>10 DEF Weighs
    <2> QED
      BY <1>4, <1>7, <1>9, <2>2, <2>3, <2>4
  <1>11. CASE z \notin D
    <2>1. T \cap D = L \cap D
      BY <1>11
    <2>2. f[z] = 0 /\ n * m \in Nat
      BY <1>7, <1>8, <1>11 DEF Weighs
    <2>3. SumOver(f, T) = n * m
      <3> DEFINE v == n * m
      <3>1. SumOver(f, T) = 0 + v /\ v \in Nat
        BY <1>7, <1>9, <2>2
      <3> HIDE DEF v
      <3>2. SumOver(f, T) = v
        BY <3>1
      <3> QED
        BY <3>2 DEF v
    <2> QED
      BY <1>4, <2>1, <2>3
  <1> QED
    BY <1>10, <1>11

\* Pairs of a relation, weighted by their first member
Weights(w, A) == \A q \in A : w[q] \in Nat
Columns(column, w, A, B, R) ==
  \A q \in A : column[q] = w[q] * Cardinality({y \in B : <<q, y>> \in R})
Rows(row, w, A, B, R) == \A y \in B : row[y] = SumOver(w, {q \in A : <<q, y>> \in R})

\* ... have the same sum by columns and by rows
LEMMA SummedBothWays ==
  ASSUME NEW A, IsFiniteSet(A), NEW B, IsFiniteSet(B), NEW R, NEW w, Weights(w, A),
         NEW column, Columns(column, w, A, B, R), NEW row, Rows(row, w, A, B, R)
  PROVE  SumOver(column, A) = SumOver(row, B)
  <1>20. /\ \A q \in A : w[q] \in Nat
         /\ \A q \in A : column[q] = w[q] * Cardinality({y \in B : <<q, y>> \in R})
         /\ \A y \in B : row[y] = SumOver(w, {q \in A : <<q, y>> \in R})
    BY DEF Weights, Columns, Rows
  <1> DEFINE with(T, y) == {q \in T : <<q, y>> \in R}
             part(T) == [y \in B |-> SumOver(w, with(T, y))]
             C == {T \in SUBSET A : SumOver(column, T) # SumOver(part(T), B)}
  <1>0. \A y \in B : part(A)[y] = row[y]
    BY <1>20
  <1>1. SumOver(part(A), B) = SumOver(row, B)
    <2> HIDE DEF part
    <2> QED
      BY <1>0, SumOfEquals
  <1> SUFFICES ASSUME C # {} PROVE FALSE
    <2>1. A \notin C
      OBVIOUS
    <2> QED
      BY <1>1, <2>1
  <1>2. \A T \in SUBSET A : (T \in C) <=> SumOver(column, T) # SumOver(part(T), B)
    OBVIOUS
  <1>3. \A T \in C : T \in SUBSET A
    OBVIOUS
  <1> HIDE DEF C
  <1>4. PICK T \in C : \A X \in SUBSET A : Cardinality(X) < Cardinality(T) => X \notin C
    BY <1>3, SmallestSubset
  <1>5. T \in SUBSET A /\ SumOver(column, T) # SumOver(part(T), B)
    BY <1>2, <1>3
  <1>6. T # {}
    <2> SUFFICES ASSUME T = {} PROVE FALSE
      OBVIOUS
    <2> DEFINE f == part({})
    <2>1. Weighs(f, B, {}, 0)
      <3> SUFFICES ASSUME NEW y \in B PROVE f[y] = 0
        BY DEF Weighs
      <3>1. with({}, y) = {}
        OBVIOUS
      <3> HIDE DEF with
      <3>2. f[y] = SumOver(w, {})
        BY <3>1
      <3> QED
        BY <3>2, SumOfNothing
    <2>2. B \in SUBSET B /\ 0 \in Nat
      OBVIOUS
    <2> HIDE DEF f
    <2>3. SumOver(f, B) = 0 * Cardinality(B \cap {})
      BY <2>1, <2>2, SumOfMembers
    <2>4. Cardinality(B \cap {}) = 0
      BY FS_EmptySet
    <2>5. SumOver(f, B) = 0
      BY <2>3, <2>4
    <2> QED
      BY <1>5, <2>5, SumOfNothing DEF f
  <1>7. PICK z : z = One(T)
    OBVIOUS
  <1> DEFINE L == T \ {z}
             D == {y \in B : <<z, y>> \in R}
             own == [y \in B |-> IF y \in D THEN w[z] ELSE 0]
  <1>8. /\ z \in A /\ z \in T /\ L \in SUBSET A /\ Cardinality(L) < Cardinality(T)
        /\ SumOver(column, T) = column[z] + SumOver(column, L)
    <2>1. /\ z \in A /\ z \in T /\ L \in SUBSET A /\ Cardinality(L) < Cardinality(T)
          /\ SumStep(T, z)
      BY <1>5, <1>6, <1>7, TakeOne
    <2> QED
      BY <2>1 DEF SumStep
  <1>9. SumOver(column, L) = SumOver(part(L), B)
    BY <1>2, <1>4, <1>8
  <1>10. \A y \in B : /\ part(L)[y] \in Nat /\ own[y] \in Nat
                      /\ part(T)[y] = part(L)[y] + own[y]
    <2> TAKE y \in B
    <2>1. with(L, y) \in SUBSET A /\ with(T, y) \in SUBSET A
      BY <1>5, <1>8
    <2>2. SumOver(w, with(L, y)) \in Nat /\ w[z] \in Nat
      <3> HIDE DEF with
      <3> QED
        BY <1>8, <1>20, <2>1, SumIsNatural
    <2>3. CASE <<z, y>> \in R
      <3>1. with(L, y) = with(T, y) \ {z} /\ z \in with(T, y)
        BY <1>8, <2>3
      <3>2. SumOver(w, with(T, y)) = w[z] + SumOver(w, with(L, y))
        <4> DEFINE S == with(T, y)
        <4>1. S \in SUBSET A /\ z \in S /\ with(L, y) = S \ {z}
          BY <2>1, <3>1
        <4> HIDE DEF S
        <4>2. SumOver(w, S) = w[z] + SumOver(w, S \ {z})
          BY <1>20, <4>1, SumWithout
        <4> QED
          BY <4>1, <4>2 DEF S
      <3>3. own[y] = w[z]
        BY <2>3
      <3> HIDE DEF with, own
      <3> QED
        BY <2>2, <3>2, <3>3
    <2>4. CASE <<z, y>> \notin R
      <3>1. with(L, y) = with(T, y)
        BY <2>4
      <3>2. own[y] = 0
        BY <2>4
      <3> HIDE DEF with, own
      <3> QED
        BY <2>2, <3>1, <3>2
    <2> QED
      BY <2>3, <2>4
  <1>11. SumOver(part(T), B) = SumOver(part(L), B) + SumOver(own, B)
    <2>1. B \in SUBSET B
      OBVIOUS
    <2> DEFINE f == part(L)
               k == part(T)
    <2>2. \A y \in B : f[y] \in Nat /\ own[y] \in Nat /\ k[y] = f[y] + own[y]
      BY <1>10
    <2> HIDE DEF f, k, own
    <2>3. SumOver(k, B) = SumOver(f, B) + SumOver(own, B)
      BY <2>1, <2>2, SumAdds
    <2> QED
      BY <2>3 DEF f, k
  <1>12. SumOver(own, B) = column[z]
    <2>1. B \in SUBSET B /\ w[z] \in Nat
      BY <1>8, <1>20
    <2>2. Weighs(own, B, D, w[z])
      BY DEF Weighs
    <2>3. B \cap D = D
      OBVIOUS
    <2>4. column[z] = w[z] * Cardinality(D)
      BY <1>8, <1>20
    <2> HIDE DEF own, D
    <2>5. SumOver(own, B) = w[z] * Cardinality(B \cap D)
      BY <2>1, <2>2, SumOfMembers
    <2> QED
      BY <2>3, <2>4, <2>5
  <1>13. SumOver(column, L) \in Nat /\ column[z] \in Nat
    <2>1. \A q \in A : column[q] \in Nat
      <3> TAKE q \in A
      <3> DEFINE E == {y \in B : <<q, y>> \in R}
      <3>1. Cardinality(E) \in Nat
        BY FS_Subset, FS_CardinalityType
      <3>2. column[q] = w[q] * Cardinality(E) /\ w[q] \in Nat
        BY <1>20
      <3> HIDE DEF E
      <3> QED
        BY <3>1, <3>2
    <2> QED
      BY <1>8, <2>1, SumIsNatural
  <1> HIDE DEF part, own, L
  <1> QED
    BY <1>5, <1>8, <1>9, <1>11, <1>12, <1>13

----------------------------------------------------------------------------
(* Audits and predictions *)

\* The trained classifier answers a number for every row of features
\* (score_future_link_predictions compares probabilities, Model stands for them)
ModelIsNumeric ==
  \A E, D \in SUBSET Episode, cutoff \in Int, p \in Podcast, x \in Person :
    Model(SelectedFeatureMap(HistoricalLinkData(E, cutoff), FeatureContext(D, cutoff), p, x)) \in Int

ContextOf(past, cutoff) ==
  LET on(p) == {e \in past : PodcastOf[e] = p /\ GuestsOf[e] # {}}
      with(x) == {e \in past : x \in GuestsOf[e]}
      recent(S, w) == {e \in S : Published[e] >= cutoff - w}
      rows(S) == MapThenSumSet(LAMBDA e : Cardinality(GuestsOf[e]), S)
  IN [podcastRows |-> [p \in Podcast |-> rows(on(p))],
      guestRows |-> [x \in Person |-> Cardinality(with(x))],
      podcastAge |-> [p \in Podcast |-> SinceFirst(on(p), cutoff)],
      podcastSince |-> [p \in Podcast |-> SinceLatest(on(p), cutoff)],
      guestSince |-> [x \in Person |-> SinceLatest(with(x), cutoff)],
      guestRecent |-> [x \in Person |-> [w \in Windows |-> Cardinality(recent(with(x), w))]]]

\* Features depend on the episodes before the cutoff only
LEMMA FeaturesOfPast ==
  ASSUME NEW E, NEW D, NEW cutoff, Before(E, cutoff) = Before(D, cutoff)
  PROVE  /\ HistoricalLinkData(E, cutoff) = HistoricalLinkData(D, cutoff)
         /\ FeatureContext(E, cutoff) = FeatureContext(D, cutoff)
  <1>1. HistoricalLinkData(E, cutoff) = HistoricalLinkData(D, cutoff)
    BY DEF HistoricalLinkData
  <1>2. FeatureContext(E, cutoff) = ContextOf(Before(E, cutoff), cutoff)
    BY DEF FeatureContext, ContextOf
  <1>3. FeatureContext(D, cutoff) = ContextOf(Before(D, cutoff), cutoff)
    BY DEF FeatureContext, ContextOf
  <1> QED
    BY <1>1, <1>2, <1>3

LEMMA TrainingPairs ==
  ASSUME NEW h \in LinkData
  PROVE  /\ TrainingCandidates(h) \in Candidates
         /\ TrainingCandidates(h) = DegreeLimitedCandidates(h, PodcastsToScore(h, Podcast))
         /\ \A c \in TrainingCandidates(h) :
              /\ c[1] \in Podcast /\ c[1] \in PodcastIds(h) /\ c[2] \in Person
              /\ c[2] \in GuestIds(h)
              /\ Distance(h, c[1], c[2]) # NoDistance /\ ~Excluded(h, c) /\ c \notin h.guest
  <1>1. PodcastsToScore(h, Podcast) \in SUBSET Podcast
    BY PodcastsScored
  <1>2. /\ DegreeLimitedCandidates(h, PodcastsToScore(h, Podcast)) \in Candidates
        /\ \A c \in DegreeLimitedCandidates(h, PodcastsToScore(h, Podcast)) :
             /\ c[1] \in PodcastsToScore(h, Podcast) /\ c[2] \in GuestIds(h)
             /\ Distance(h, c[1], c[2]) # NoDistance /\ ~Excluded(h, c)
    BY <1>1, DegreeCandidatesAre
  <1>3. \A p \in PodcastsToScore(h, Podcast) : p \in Podcast /\ p \in PodcastIds(h)
    BY DEF PodcastsToScore
  <1>4. GuestIds(h) \in SUBSET Person
    BY PeopleOfLinks
  <1> QED
    BY <1>2, <1>3, <1>4 DEF TrainingCandidates, Excluded

LEMMA PredictionsAreBest ==
  ASSUME ModelIsNumeric, NEW r, PredictionIs(r)
  PROVE  BestRows(r.rows, History(r), FeatureContext(r.context, r.cutoff),
                  TrainingCandidates(History(r)))
  <1> DEFINE h == History(r)
             c == FeatureContext(r.context, r.cutoff)
             C == TrainingCandidates(h)
  <1>1. /\ r.seen \in SUBSET Episode /\ r.context \in SUBSET Episode /\ r.cutoff \in Int
        /\ r.rows = PredictionRows(h, c, C)
    BY DEF PredictionIs
  <1>2. h = HistoricalLinkData(r.seen, r.cutoff)
    BY DEF History
  <1>3. h \in LinkData
    BY <1>1, <1>2, HistoryIsLinkData
  <1>4. Scores(h, c, C)
    <2> SUFFICES ASSUME NEW pair \in C
                 PROVE  Model(SelectedFeatureMap(h, c, pair[1], pair[2])) \in Int
      BY DEF Scores
    <2>1. pair[1] \in Podcast /\ pair[2] \in Person
      BY <1>3, TrainingPairs
    <2> HIDE DEF C, h
    <2> QED
      BY <1>1, <1>2, <2>1 DEF ModelIsNumeric
  <1>5. C \in Candidates
    BY <1>3, TrainingPairs
  <1> HIDE DEF h, c, C
  <1>6. BestRows(PredictionRows(h, c, C), h, c, C)
    BY <1>3, <1>4, <1>5, RowsAreBest
  <1> QED
    BY <1>1, <1>6 DEF h, c, C

LEMMA AuditFollows ==
  ASSUME ModelIsNumeric, NEW a, AuditIs(a), NEW r, PredictionIs(r),
         a.cutoff = r.cutoff,
         Before(a.seen, a.cutoff) = Before(r.seen, r.cutoff),
         Before(a.context, a.cutoff) = Before(r.context, r.cutoff),
         NEW n \in DOMAIN r.rows, r.rows[n].pair \in a.published
  PROVE  \E x \in a.rows : /\ x.pair = r.rows[n].pair /\ x.eligible
                           /\ x.distance = r.rows[n].distance /\ x.score = r.rows[n].score
  <1> DEFINE h == History(a)
             c == FeatureContext(a.context, a.cutoff)
             C == TrainingCandidates(h)
             pair == r.rows[n].pair
             x == AuditRow(h, c, pair)
  <1>1. a.seen \in SUBSET Episode /\ a.context \in SUBSET Episode /\ a.cutoff \in Int
    BY DEF AuditIs
  <1>2. h \in LinkData
    BY <1>1, HistoryIsLinkData DEF History
  <1>3. h = History(r) /\ c = FeatureContext(r.context, r.cutoff)
    BY <1>1, FeaturesOfPast DEF History
  <1>4. a.rows = AuditRows(h, c, a.published)
    BY DEF AuditIs
  <1> HIDE DEF h, c
  <1>5. RowIs(r.rows[n], h, c, C)
    BY <1>3, PredictionsAreBest DEF BestRows
  <1>6. /\ pair \in C
        /\ r.rows[n].distance = Distance(h, pair[1], pair[2])
        /\ r.rows[n].score = Model(SelectedFeatureMap(h, c, pair[1], pair[2]))
    BY <1>5 DEF RowIs
  <1>7. /\ pair[1] \in PodcastIds(h) /\ pair[2] \in GuestIds(h)
        /\ Distance(h, pair[1], pair[2]) # NoDistance /\ ~Excluded(h, pair)
    BY <1>2, <1>6, TrainingPairs
  <1>8. pair \in a.published \ h.guest
    BY <1>7 DEF Excluded
  <1> HIDE DEF pair
  <1>9. x \in a.rows
    BY <1>4, <1>8 DEF AuditRows
  <1>10. /\ x.pair = pair /\ x.eligible
         /\ x.distance = Distance(h, pair[1], pair[2])
         /\ x.score = Model(SelectedFeatureMap(h, c, pair[1], pair[2]))
    BY <1>7 DEF AuditRow
  <1> HIDE DEF x
  <1> QED
    BY <1>6, <1>9, <1>10 DEF pair

\* Where an audit has the history of a prediction run, every predicted pair that
\* was published in its week is in it, as eligible, at the same distance and with
\* the same score (weekly_new_link_rows, handle_with_timeout).
THEOREM AuditsFollow ==
  ASSUME ModelIsNumeric
  PROVE  Spec => []AuditFollowsPredictions
  <1>1. FilesInv => AuditFollowsPredictions
    <2> SUFFICES ASSUME FilesInv PROVE AuditFollowsPredictions
      OBVIOUS
    <2>1. \A id \in RunId : audits[id] # None => AuditIs(audits[id])
      BY DEF FilesInv
    <2>2. \A id \in RunId : predictions[id] # None => PredictionIs(predictions[id])
      BY DEF FilesInv
    <2> QED
      BY <2>1, <2>2, AuditFollows DEF AuditFollowsPredictions
  <1> QED
    BY <1>1, FilesAreComputed, PTL

----------------------------------------------------------------------------
(* The dataset, and the comparison of the candidate strategies *)

\* The scores that sample the negatives are numbers
SampleIsNumeric ==
  \A cutoff \in Int, pair \in Podcast \X Person : SampleScore(cutoff, pair) \in Int

\* What the negatives of a dataset are
LEMMA NegativesOfDataset ==
  ASSUME SampleIsNumeric, NEW d, DatasetIs(d), NEW all, all = TrainingCandidates(History(d)),
         NEW size, size = NegativeRatio * Cardinality(all \cap d.future)
  PROVE  /\ History(d) \in LinkData /\ all \in Candidates /\ size \in Nat
         /\ IsFiniteSet(all) /\ IsFiniteSet(all \ d.future) /\ IsFiniteSet(all \cap d.future)
         /\ Cardinality(all \ d.future) \in Nat /\ Cardinality(all \cap d.future) \in Nat
         /\ Negatives(d) \subseteq all \ d.future
         /\ IsFiniteSet(Negatives(d))
         /\ Cardinality(Negatives(d)) = IF size < Cardinality(all \ d.future) THEN size
                                        ELSE Cardinality(all \ d.future)
         /\ \A x \in Negatives(d), y \in (all \ d.future) \ Negatives(d) :
              SampleScore(d.cutoff, x) <= SampleScore(d.cutoff, y)
  <1> DEFINE h == History(d)
             C == all \ d.future
             P == all \cap d.future
             kept == SampleNegativeCandidates(h, d.cutoff, C, size)
  <1>1. d.seen \in SUBSET Episode /\ d.cutoff \in Int
    BY DEF DatasetIs
  <1>2. h \in LinkData
    BY <1>1, HistoryIsLinkData DEF History
  <1>3. all \in Candidates
    BY <1>2, TrainingPairs
  <1>4. C \in Candidates /\ P \in Candidates
    BY <1>3 DEF Candidates
  <1>5. /\ IsFiniteSet(all) /\ IsFiniteSet(C) /\ IsFiniteSet(P)
        /\ Cardinality(C) \in Nat /\ Cardinality(P) \in Nat
    BY <1>3, <1>4, CandidatesAreFinite
  <1>6. size \in Nat
    <2> DEFINE n == Cardinality(P)
    <2>1. n \in Nat /\ NegativeRatio \in Nat /\ size = NegativeRatio * n
      BY <1>5, AnalysisAssumption
    <2> HIDE DEF n
    <2> QED
      BY <2>1
  <1>7. Sampled(d.cutoff, C)
    BY <1>1, <1>4 DEF SampleIsNumeric, Candidates, Sampled
  <1>8. Negatives(d) = kept
    BY DEF Negatives
  <1> HIDE DEF h, C
  <1>9. /\ kept \subseteq C /\ IsFiniteSet(kept)
        /\ Cardinality(kept) = IF size < Cardinality(C) THEN size ELSE Cardinality(C)
        /\ \A x \in kept, y \in C \ kept : SampleScore(d.cutoff, x) <= SampleScore(d.cutoff, y)
    <2> HIDE DEF kept
    <2>1. kept = SampleNegativeCandidates(h, d.cutoff, C, size)
      BY DEF kept
    <2>2. C \in Candidates
      BY <1>4
    <2>3. kept \subseteq C /\ IsFiniteSet(kept)
      BY <1>2, <2>1, <2>2, <1>6, <1>7, NegativesAre
    <2>4. Cardinality(kept) = IF size < Cardinality(C) THEN size ELSE Cardinality(C)
      BY <1>2, <2>1, <2>2, <1>6, <1>7, NegativesAre
    <2>5. \A x \in kept, y \in C \ kept : SampleScore(d.cutoff, x) <= SampleScore(d.cutoff, y)
      BY <1>2, <2>1, <2>2, <1>6, <1>7, NegativesAre
    <2> QED
      BY <2>3, <2>4, <2>5
  <1> DEFINE N == Negatives(d)
  <1>10. /\ N \subseteq C /\ IsFiniteSet(N)
         /\ Cardinality(N) = IF size < Cardinality(C) THEN size ELSE Cardinality(C)
         /\ \A x \in N, y \in C \ N : SampleScore(d.cutoff, x) <= SampleScore(d.cutoff, y)
    <2> HIDE DEF kept
    <2> QED
      BY <1>8, <1>9
  <1> HIDE DEF N, P
  <1> QED
    BY <1>2, <1>3, <1>5, <1>6, <1>10 DEF h, C, N, P

\* The rows of a dataset are its positives and its negatives
RowsOf(d, positives, negatives) ==
  /\ {row.pair : row \in {r \in d.rows : ~r.label}} = negatives
  /\ {row.pair : row \in {r \in d.rows : r.label}} = positives
  /\ {row.pair : row \in d.rows} = positives \cup negatives
  /\ \A r, s \in d.rows : r.pair = s.pair => r = s

LEMMA RowsOfDataset ==
  ASSUME SampleIsNumeric, NEW d, DatasetIs(d)
  PROVE  RowsOf(d, TrainingCandidates(History(d)) \cap d.future, Negatives(d))
  <1> DEFINE all == TrainingCandidates(History(d))
             P == all \cap d.future
             N == Negatives(d)
             pairs == P \cup N
  <1>1. PICK row : /\ d.rows = {row[pair] : pair \in pairs}
                   /\ \A pair \in pairs : /\ row[pair].pair = pair
                                          /\ row[pair].label <=> pair \in d.future
    BY DEF DatasetIs
  <1>2. N \subseteq all \ d.future
    BY NegativesOfDataset
  <1> HIDE DEF N, all
  <1>3. \A pair \in pairs : row[pair] \in d.rows
    BY <1>1
  <1>4. \A r \in d.rows : \E pair \in pairs : r = row[pair]
    BY <1>1
  <1>5. \A pair \in P : row[pair].label
    BY <1>1
  <1>6. \A pair \in N : ~row[pair].label
    BY <1>1, <1>2
  <1>7. \A pair \in pairs : pair \in N \/ pair \in P
    OBVIOUS
  <1>8. P \subseteq pairs /\ N \subseteq pairs
    OBVIOUS
  <1>9. \A pair \in pairs : row[pair].pair = pair
    BY <1>1
  <1> HIDE DEF pairs, P
  <1>10. {r.pair : r \in {r \in d.rows : ~r.label}} = N
    <2>1. ASSUME NEW x \in N PROVE \E r \in {r \in d.rows : ~r.label} : x = r.pair
      BY <1>3, <1>6, <1>8, <1>9
    <2>2. ASSUME NEW r \in d.rows, ~r.label PROVE r.pair \in N
      BY <1>4, <1>5, <1>7, <1>9, <2>2
    <2> QED
      BY <2>1, <2>2
  <1>11. {r.pair : r \in {r \in d.rows : r.label}} = P
    <2>1. ASSUME NEW x \in P PROVE \E r \in {r \in d.rows : r.label} : x = r.pair
      BY <1>3, <1>5, <1>8, <1>9
    <2>2. ASSUME NEW r \in d.rows, r.label PROVE r.pair \in P
      BY <1>4, <1>6, <1>7, <1>9, <2>2
    <2> QED
      BY <2>1, <2>2
  <1>12. {r.pair : r \in d.rows} = P \cup N
    <2>1. {r.pair : r \in d.rows} = pairs
      BY <1>3, <1>4, <1>9
    <2> QED
      BY <2>1 DEF pairs
  <1>13. \A r, s \in d.rows : r.pair = s.pair => r = s
    BY <1>4, <1>9
  <1> QED
    BY <1>10, <1>11, <1>12, <1>13 DEF RowsOf, P, N, all

LEMMA DatasetIsNew ==
  ASSUME SampleIsNumeric, NEW d, DatasetIs(d)
  PROVE  /\ {row.pair : row \in d.rows} \cap History(d).guest = {}
         /\ d.due # 0 => d.cutoff + LabelGap + Horizon <= d.due
  <1> DEFINE h == History(d)
             all == TrainingCandidates(h)
  <1>1. h \in LinkData /\ Negatives(d) \subseteq all
    BY NegativesOfDataset
  <1>2. \A c \in all : c \notin h.guest
    BY <1>1, TrainingPairs
  <1>3. {row.pair : row \in d.rows} = (all \cap d.future) \cup Negatives(d)
    BY RowsOfDataset DEF RowsOf
  <1>4. d.due # 0 => d.cutoff + LabelGap + Horizon <= d.due
    BY DEF DatasetIs, IsOver
  <1> HIDE DEF h, all
  <1>5. {row.pair : row \in d.rows} \cap h.guest = {}
    BY <1>1, <1>2, <1>3
  <1> QED
    BY <1>4, <1>5 DEF h

LEMMA FutureLinksAre ==
  ASSUME NEW E \in SUBSET Episode, NEW from, NEW to
  PROVE  /\ FutureGuestLinks(E, from, to) \in Candidates
         /\ IsFiniteSet(FutureGuestLinks(E, from, to))
  <1>1. \A e \in E : PodcastOf[e] \in Podcast /\ GuestsOf[e] \in SUBSET Person
    BY FutureLinksAssumption
  <1>2. FutureGuestLinks(E, from, to) \in Candidates
    BY <1>1 DEF FutureGuestLinks, Pairs, Within, Candidates
  <1> QED
    BY <1>2, CandidatesAreFinite

\* A candidate set with its statistics
SetOf(E, C, h, future) ==
  [seen |-> E, pairs |-> C, positives |-> C \cap future, stats |-> CandidateStats(h, C, future)]

LEMMA CandidateSetIs ==
  ASSUME NEW E, NEW C, NEW h, \A c \in C : ~Excluded(h, c), NEW future, IsFiniteSet(future),
         NEW s, s = SetOf(E, C, h, future)
  PROVE  /\ s.seen = E /\ s.pairs = C /\ s.positives = C \cap future
         /\ s.stats.positives = Cardinality(s.positives)
         /\ s.stats.future = s.stats.positives + s.stats.missed + s.stats.existing + s.stats.hosts
  <1>1. s.seen = E /\ s.pairs = C /\ s.positives = C \cap future
    BY DEF SetOf
  <1>2. PICK t : t = CandidateStats(h, C, future)
    OBVIOUS
  <1>3. t.positives = Cardinality(C \cap future)
    BY <1>2 DEF CandidateStats
  <1>4. t.future = t.positives + t.missed + t.existing + t.hosts
    BY <1>2, StatsAddUp
  <1>5. s.stats = t
    BY <1>2 DEF SetOf
  <1> QED
    BY <1>1, <1>3, <1>4, <1>5

LEMMA ReportAddsUp ==
  ASSUME NEW r, ReportIs(r)
  PROVE  /\ \A s \in {r.heuristic.stats, r.baseline.stats} :
              s.future = s.positives + s.missed + s.existing + s.hosts
         /\ r.heuristic.seen = r.baseline.seen /\ MaxDegree >= 3 =>
              /\ r.heuristic.pairs \subseteq r.baseline.pairs
              /\ r.comparison.added = 0
              /\ r.baseline.stats.positives
                   = r.heuristic.stats.positives + r.comparison.lost
  <1>1. PICK E \in SUBSET Episode, D \in SUBSET Episode, cutoff \in Int :
          /\ r.heuristic = CandidateSet(E, cutoff, "shared guests")
          /\ r.baseline = CandidateSet(D, cutoff, "degree")
          /\ r.comparison = CompareCandidateSets(r.baseline, r.heuristic)
    BY DEF ReportIs
  <1> DEFINE g == HistoricalLinkData(E, cutoff)
             h == HistoricalLinkData(D, cutoff)
             ps == PodcastsToScore(g, Podcast)
             qs == PodcastsToScore(h, Podcast)
             a == r.heuristic
             b == r.baseline
  <1>2. /\ g \in LinkData /\ ps \in SUBSET Podcast /\ a.seen = E
        /\ a.pairs = SharedGuestCandidates(g, ps)
        /\ a.positives = a.pairs \cap FutureGuestLinks(E, cutoff, cutoff + Horizon)
        /\ a.stats.positives = Cardinality(a.positives)
        /\ a.stats.future = a.stats.positives + a.stats.missed + a.stats.existing + a.stats.hosts
    <2> DEFINE C == SharedGuestCandidates(g, ps)
               future == FutureGuestLinks(E, cutoff, cutoff + Horizon)
    <2>1. g \in LinkData /\ ps \in SUBSET Podcast /\ IsFiniteSet(future)
      BY HistoryIsLinkData, PodcastsScored, FutureLinksAre
    <2>2. \A c \in C : ~Excluded(g, c)
      BY DEF SharedGuestCandidates
    <2>3. a = SetOf(E, C, g, future)
      BY <1>1 DEF CandidateSet, SetOf
    <2> HIDE DEF C, future, g, ps, a
    <2>4. /\ a.seen = E /\ a.pairs = C /\ a.positives = C \cap future
          /\ a.stats.positives = Cardinality(a.positives)
          /\ a.stats.future
               = a.stats.positives + a.stats.missed + a.stats.existing + a.stats.hosts
      BY <2>1, <2>2, <2>3, CandidateSetIs
    <2> QED
      BY <2>1, <2>4 DEF C, future
  <1>3. /\ h \in LinkData /\ qs \in SUBSET Podcast /\ b.seen = D
        /\ b.pairs = DegreeLimitedCandidates(h, qs)
        /\ b.positives = b.pairs \cap FutureGuestLinks(D, cutoff, cutoff + Horizon)
        /\ b.stats.positives = Cardinality(b.positives)
        /\ b.stats.future = b.stats.positives + b.stats.missed + b.stats.existing + b.stats.hosts
    <2> DEFINE C == DegreeLimitedCandidates(h, qs)
               future == FutureGuestLinks(D, cutoff, cutoff + Horizon)
    <2>1. h \in LinkData /\ qs \in SUBSET Podcast /\ IsFiniteSet(future)
      BY HistoryIsLinkData, PodcastsScored, FutureLinksAre
    <2>2. \A c \in C : ~Excluded(h, c)
      BY DEF DegreeLimitedCandidates
    <2>3. b = SetOf(D, C, h, future)
      BY <1>1 DEF CandidateSet, SetOf
    <2> HIDE DEF C, future, h, qs, b
    <2>4. /\ b.seen = D /\ b.pairs = C /\ b.positives = C \cap future
          /\ b.stats.positives = Cardinality(b.positives)
          /\ b.stats.future
               = b.stats.positives + b.stats.missed + b.stats.existing + b.stats.hosts
      BY <2>1, <2>2, <2>3, CandidateSetIs
    <2> QED
      BY <2>1, <2>4 DEF C, future
  <1>4. ASSUME a.seen = b.seen, MaxDegree >= 3
        PROVE  /\ a.pairs \subseteq b.pairs
               /\ r.comparison.added = 0
               /\ b.stats.positives = a.stats.positives + r.comparison.lost
    <2>1. E = D
      BY <1>2, <1>3, <1>4
    <2>2. g = h /\ ps = qs
      BY <2>1
    <2>3. a.pairs \subseteq b.pairs
      <3> HIDE DEF g, h, ps, qs
      <3>1. SharedGuestCandidates(h, qs) \subseteq DegreeLimitedCandidates(h, qs)
        BY <1>3, <1>4, SharedGuestsAreNear
      <3> QED
        BY <1>2, <1>3, <2>2, <3>1
    <2> DEFINE future == FutureGuestLinks(D, cutoff, cutoff + Horizon)
    <2>4. a.positives = a.pairs \cap future /\ b.positives = b.pairs \cap future
      BY <1>2, <1>3, <2>1
    <2>5. IsFiniteSet(b.positives)
      BY <2>4, FutureLinksAre, FS_Subset
    <2> HIDE DEF a, b, future
    <2>6. /\ r.comparison.lost = Cardinality(b.positives \ a.positives)
          /\ r.comparison.added = Cardinality(a.positives \ b.positives)
      <3>1. r.comparison = CompareCandidateSets(b, a)
        BY <1>1 DEF a, b
      <3> QED
        BY <3>1 DEF CompareCandidateSets
    <2>7. a.positives \subseteq b.positives
      BY <2>3, <2>4
    <2>8. r.comparison.added = 0
      <3>1. a.positives \ b.positives = {}
        BY <2>7
      <3> QED
        BY <2>6, <3>1, FS_EmptySet
    <2>9. Cardinality(b.positives) = Cardinality(a.positives) + Cardinality(b.positives \ a.positives)
      <3> DEFINE A == a.positives
                 B == b.positives \ a.positives
                 S == b.positives
      <3>1. A \cup B = S /\ A \cap B = {} /\ IsFiniteSet(S)
        BY <2>5, <2>7
      <3> HIDE DEF A, B, S
      <3>2. Cardinality(S) = Cardinality(A) + Cardinality(B)
        BY <3>1, TwoParts
      <3> QED
        BY <3>2 DEF A, B, S
    <2> QED
      BY <1>2, <1>3, <2>3, <2>6, <2>8, <2>9
  <1> HIDE DEF a, b
  <1>5. \A s \in {a.stats, b.stats} : s.future = s.positives + s.missed + s.existing + s.hosts
    BY <1>2, <1>3
  <1> QED
    BY <1>4, <1>5 DEF a, b

\* The counts of both candidate strategies add up to the links of the horizon; the
\* shared-guest pairs are among those within three hops and the comparison counts
\* what is lost; no row of a dataset is an old link, and a planned horizon is over
\* (candidate_stats, compare_candidate_sets, build_cut_plans).
THEOREM PositivesAddUp ==
  ASSUME SampleIsNumeric
  PROVE  Spec => []EveryPositiveIsAccounted
  <1>1. FilesInv => EveryPositiveIsAccounted
    <2> SUFFICES ASSUME FilesInv PROVE EveryPositiveIsAccounted
      OBVIOUS
    <2>1. dataset # None => DatasetIs(dataset)
      BY DEF FilesInv
    <2>2. report # None => ReportIs(report)
      BY DEF FilesInv
    <2>3. dataset # None =>
            /\ {row.pair : row \in dataset.rows} \cap History(dataset).guest = {}
            /\ dataset.due # 0 => dataset.cutoff + LabelGap + Horizon <= dataset.due
      BY <2>1, DatasetIsNew
    <2>4. report # None =>
            /\ \A s \in {report.heuristic.stats, report.baseline.stats} :
                 s.future = s.positives + s.missed + s.existing + s.hosts
            /\ report.heuristic.seen = report.baseline.seen /\ MaxDegree >= 3 =>
                 /\ report.heuristic.pairs \subseteq report.baseline.pairs
                 /\ report.comparison.added = 0
                 /\ report.baseline.stats.positives
                      = report.heuristic.stats.positives + report.comparison.lost
      BY <2>2, ReportAddsUp
    <2> QED
      BY <2>3, <2>4 DEF EveryPositiveIsAccounted
  <1> QED
    BY <1>1, FilesAreComputed, PTL

----------------------------------------------------------------------------
(* The best are kept *)

LEMMA SmallerOf ==
  ASSUME NEW a \in Nat, NEW b \in Nat
  PROVE  Min({a, b}) = IF a < b THEN a ELSE b
  <1> DEFINE S == {a, b}
  <1>1. S \in SUBSET Nat /\ S # {}
    OBVIOUS
  <1>2. Min(S) \in S /\ \A m \in S : Min(S) <= m
    <2> HIDE DEF S
    <2> QED
      BY <1>1, MinIsLeast
  <1>3. a \in S /\ b \in S /\ (Min(S) = a \/ Min(S) = b)
    BY <1>2
  <1> QED
    BY <1>2, <1>3

LEMMA PairedRows ==
  ASSUME NEW rows, NEW P, IsFiniteSet(P), P = {r.pair : r \in rows},
         \A r, s \in rows : r.pair = s.pair => r = s
  PROVE  Cardinality(rows) = Cardinality(P)
  <1> DEFINE row == [x \in P |-> CHOOSE r \in rows : r.pair = x]
  <1>1. \A x \in P : row[x] \in rows /\ row[x].pair = x
    OBVIOUS
  <1>2. row \in [P -> rows]
    BY <1>1
  <1> HIDE DEF row
  <1>3. \A r \in rows : \E x \in P : row[x] = r
    BY <1>1
  <1>4. \A x, y \in P : row[x] = row[y] => x = y
    BY <1>1
  <1>5. row \in Bijection(P, rows)
    BY <1>2, <1>3, <1>4 DEF Bijection, Injection, Surjection, IsInjective
  <1> QED
    BY <1>5, FS_Bijection DEF ExistsBijection

\* NegativesAreSampled of a dataset d
IsSampled(d) ==
  LET available == TrainingCandidates(History(d)) \ d.future
      negatives == {row.pair : row \in {r \in d.rows : ~r.label}}
      wanted == NegativeRatio * Cardinality(d.rows \ {r \in d.rows : ~r.label})
  IN /\ negatives \subseteq available
     /\ Cardinality(negatives) = Min({wanted, Cardinality(available)})
     /\ \A kept \in negatives, left \in available \ negatives :
          SampleScore(d.cutoff, kept) <= SampleScore(d.cutoff, left)

LEMMA DatasetIsSampled ==
  ASSUME SampleIsNumeric, NEW d, DatasetIs(d)
  PROVE  IsSampled(d)
  <1> DEFINE available == TrainingCandidates(History(d)) \ d.future
             negatives == {row.pair : row \in {r \in d.rows : ~r.label}}
             wanted == NegativeRatio * Cardinality(d.rows \ {r \in d.rows : ~r.label})
  <1> SUFFICES
        /\ negatives \subseteq available
        /\ Cardinality(negatives) = Min({wanted, Cardinality(available)})
        /\ \A kept \in negatives, left \in available \ negatives :
             SampleScore(d.cutoff, kept) <= SampleScore(d.cutoff, left)
    BY DEF IsSampled
  <1> DEFINE all == TrainingCandidates(History(d))
             P == all \cap d.future
             N == Negatives(d)
             labelled == {r \in d.rows : r.label}
             size == NegativeRatio * Cardinality(P)
  <1>1. RowsOf(d, P, N)
    BY RowsOfDataset
  <1>2. negatives = N /\ {row.pair : row \in labelled} = P
    BY <1>1 DEF RowsOf
  <1>3. \A r, s \in labelled : r.pair = s.pair => r = s
    BY <1>1 DEF RowsOf
  <1>4. /\ IsFiniteSet(P) /\ Cardinality(available) \in Nat /\ size \in Nat
        /\ N \subseteq available
        /\ Cardinality(N) = IF size < Cardinality(available) THEN size
                            ELSE Cardinality(available)
        /\ \A x \in N, y \in available \ N : SampleScore(d.cutoff, x) <= SampleScore(d.cutoff, y)
    BY NegativesOfDataset
  <1>5. wanted = NegativeRatio * Cardinality(labelled)
    <2>1. d.rows \ {r \in d.rows : ~r.label} = labelled
      OBVIOUS
    <2> QED
      BY <2>1
  <1> HIDE DEF labelled, P, N, available, negatives, wanted
  <1>6. Cardinality(labelled) = Cardinality(P)
    BY <1>2, <1>3, <1>4, PairedRows
  <1>7. wanted = size
    BY <1>5, <1>6
  <1>8. Min({size, Cardinality(available)}) = IF size < Cardinality(available) THEN size
                                              ELSE Cardinality(available)
    BY <1>4, SmallerOf
  <1>9. Cardinality(negatives) = Min({wanted, Cardinality(available)})
    BY <1>2, <1>4, <1>7, <1>8
  <1> QED
    BY <1>2, <1>4, <1>9

LEMMA BestOfAll ==
  ASSUME ModelIsNumeric, NEW r, PredictionIs(r),
         NEW rows, rows = r.rows, NEW h, h = History(r),
         NEW c, c = FeatureContext(r.context, r.cutoff),
         NEW all, all = DegreeLimitedCandidates(h, PodcastsToScore(h, Podcast))
  PROVE  /\ Cardinality(Kept(rows)) = Len(rows)
         /\ Len(rows) = Min({TopN, Cardinality(all)})
         /\ \A i, j \in DOMAIN rows : i < j => rows[i].score >= rows[j].score
         /\ \A pair \in all \ Kept(rows) : \A i \in DOMAIN rows :
              Model(SelectedFeatureMap(h, c, pair[1], pair[2])) <= rows[i].score
         /\ Kept(rows) \cap h.guest = {}
  <1>1. h \in LinkData
    BY HistoryIsLinkData DEF PredictionIs, History
  <1>2. all = TrainingCandidates(h) /\ all \in Candidates /\ \A x \in all : x \notin h.guest
    BY <1>1, TrainingPairs
  <1>3. BestRows(rows, h, c, all)
    BY <1>2, PredictionsAreBest
  <1>4. TopN \in Nat /\ Cardinality(all) \in Nat
    BY <1>2, CandidatesAreFinite, AnalysisAssumption
  <1>5. /\ Len(rows) = IF TopN < Cardinality(all) THEN TopN ELSE Cardinality(all)
        /\ DOMAIN rows = 1..Len(rows)
        /\ \A i \in DOMAIN rows : rows[i].pair \in all
        /\ \A i, j \in DOMAIN rows : rows[i].pair = rows[j].pair => i = j
        /\ \A i, j \in DOMAIN rows : i < j => rows[i].score >= rows[j].score
    BY <1>3 DEF BestRows, RowIs
  <1>6. \A pair \in all : (\A i \in DOMAIN rows : rows[i].pair # pair) =>
          \A i \in DOMAIN rows : Model(SelectedFeatureMap(h, c, pair[1], pair[2])) <= rows[i].score
    BY <1>3 DEF BestRows
  <1>7. Len(rows) \in Nat
    BY <1>4, <1>5
  <1>8. Cardinality(Kept(rows)) = Len(rows)
    <2> DEFINE S == Kept(rows)
               f == [i \in 1..Len(rows) |-> rows[i].pair]
    <2>1. /\ f \in [1..Len(rows) -> S]
          /\ \A x \in S : \E i \in 1..Len(rows) : f[i] = x
          /\ \A i, j \in 1..Len(rows) : f[i] = f[j] => i = j
      BY <1>5 DEF Kept
    <2> HIDE DEF S, f
    <2>2. Cardinality(S) = Len(rows)
      BY <1>7, <2>1, CountedOnce
    <2> QED
      BY <2>2 DEF S
  <1>9. Min({TopN, Cardinality(all)}) = IF TopN < Cardinality(all) THEN TopN ELSE Cardinality(all)
    BY <1>4, SmallerOf
  <1>10. Kept(rows) \cap h.guest = {}
    BY <1>2, <1>5 DEF Kept
  <1>11. ASSUME NEW pair \in all \ Kept(rows), NEW i \in DOMAIN rows
         PROVE  Model(SelectedFeatureMap(h, c, pair[1], pair[2])) <= rows[i].score
    <2>1. \A n \in DOMAIN rows : rows[n].pair # pair
      BY <1>11 DEF Kept
    <2> QED
      BY <1>6, <1>11, <2>1
  <1> QED
    BY <1>5, <1>8, <1>9, <1>10, <1>11

\* The bounded heaps of the predictions and of the sampled negatives keep the best
\* of all candidates, as many as asked for, each once and in order
\* (score_batch, sample_negative_candidates).
THEOREM HeapsKeepTheBest ==
  ASSUME ModelIsNumeric, SampleIsNumeric
  PROVE  Spec => []BestAreKept
  <1>1. FilesInv => BestAreKept
    <2> SUFFICES ASSUME FilesInv PROVE BestAreKept
      OBVIOUS
    <2>1. dataset # None => DatasetIs(dataset)
      BY DEF FilesInv
    <2>2. NegativesAreSampled
      <3>1. dataset # None => IsSampled(dataset)
        BY <2>1, DatasetIsSampled
      <3> QED
        BY <3>1 DEF NegativesAreSampled, IsSampled
    <2>3. ASSUME NEW id \in RunId, predictions[id] # None
          PROVE  LET rows == predictions[id].rows
                     h == History(predictions[id])
                     c == FeatureContext(predictions[id].context, predictions[id].cutoff)
                     all == DegreeLimitedCandidates(h, PodcastsToScore(h, Podcast))
                     value(pair) == Model(SelectedFeatureMap(h, c, pair[1], pair[2]))
                 IN /\ Cardinality(Kept(rows)) = Len(rows)
                    /\ Len(rows) = Min({TopN, Cardinality(all)})
                    /\ \A i, j \in DOMAIN rows : i < j => rows[i].score >= rows[j].score
                    /\ \A pair \in all \ Kept(rows) : \A i \in DOMAIN rows : value(pair) <= rows[i].score
                    /\ Kept(rows) \cap h.guest = {}
      <3>1. PICK r : r = predictions[id]
        OBVIOUS
      <3>2. PredictionIs(r)
        BY <2>3, <3>1 DEF FilesInv
      <3> QED
        BY <3>1, <3>2, BestOfAll
    <2> QED
      BY <2>2, <2>3 DEF BestAreKept
  <1> QED
    BY <1>1, FilesAreComputed, PTL

----------------------------------------------------------------------------
(* Scoring and training *)

\* Pairs of a relation, counted both ways
Counts(column, A, B, R) == \A q \in A : column[q] = Cardinality({y \in B : <<q, y>> \in R})
CountsBack(row, A, B, R) == \A y \in B : row[y] = Cardinality({q \in A : <<q, y>> \in R})

LEMMA CountedBothWays ==
  ASSUME NEW A, IsFiniteSet(A), NEW B, IsFiniteSet(B), NEW R,
         NEW column, Counts(column, A, B, R), NEW row, CountsBack(row, A, B, R)
  PROVE  SumOver(column, A) = SumOver(row, B)
  <1> DEFINE w == [q \in A |-> 1]
  <1>1. Weights(w, A) /\ Weighs(w, A, A, 1)
    BY DEF Weights, Weighs
  <1>2. Columns(column, w, A, B, R)
    <2> SUFFICES ASSUME NEW q \in A
                 PROVE  column[q] = w[q] * Cardinality({y \in B : <<q, y>> \in R})
      BY DEF Columns
    <2> DEFINE n == Cardinality({y \in B : <<q, y>> \in R})
    <2>1. column[q] = n /\ n \in Nat /\ w[q] = 1
      BY FS_Subset, FS_CardinalityType DEF Counts
    <2> HIDE DEF n, w
    <2>2. column[q] = w[q] * n
      BY <2>1
    <2> QED
      BY <2>2 DEF n
  <1> HIDE DEF w
  <1>3. Rows(row, w, A, B, R)
    <2> SUFFICES ASSUME NEW y \in B
                 PROVE  row[y] = SumOver(w, {q \in A : <<q, y>> \in R})
      BY DEF Rows
    <2> DEFINE S == {q \in A : <<q, y>> \in R}
    <2>1. row[y] = Cardinality(S) /\ S \in SUBSET A /\ S \cap A = S
      BY DEF CountsBack
    <2> HIDE DEF S
    <2>2. SumOver(w, S) = 1 * Cardinality(S \cap A)
      BY <1>1, <2>1, SumOfMembers
    <2>3. Cardinality(S) \in Nat
      BY <2>1, FS_Subset, FS_CardinalityType
    <2> DEFINE n == Cardinality(S)
    <2>4. SumOver(w, S) = 1 * n
      BY <2>1, <2>2
    <2>5. n \in Nat /\ row[y] = n
      BY <2>1, <2>3
    <2> HIDE DEF n
    <2>6. SumOver(w, S) = row[y]
      BY <2>4, <2>5
    <2> QED
      BY <2>6 DEF S
  <1> QED
    BY <1>1, <1>2, <1>3, SummedBothWays

\* The tables that scoring prepares and the sums of feature_row
LEMMA TablesAgree ==
  ASSUME NEW h \in LinkData, NEW c, NEW p \in Podcast, NEW x \in Person, <<p, x>> \notin h.guest
  PROVE  SelectedFeatureMap(h, c, p, x) = FeatureRow(h, c, p, x)
  <1> DEFINE Q == GuestPodcasts(h, x)
             G == PodcastGuests(h, p)
             H == PodcastHosts(h, p)
             any == h.guest \cup h.host
             shared == [y \in Person |-> GuestPodcasts(h, x) \cap GuestPodcasts(h, y)]
             bridges == [y \in Person |-> GuestPodcasts(h, x) \cap PersonPodcasts(h, y)]
             weight == [q \in Podcast |-> 1 + Cardinality(PodcastGuests(h, q))]
             near == SharedNeighborCounts(h, p)
             across == HostBridgeCounts(h, p)
             weighed == HostBridgeWeights(h, p)
             others == [y \in Person |-> Cardinality(shared[y] \ {p})]
             pairs == [y \in Person |-> Cardinality(shared[y])]
             hosts == [y \in Person |-> Cardinality(bridges[y])]
             sums == [y \in Person |-> SumOver(weight, bridges[y])]
  <1>1. /\ Q \in SUBSET Podcast /\ IsFiniteSet(Q) /\ p \notin Q
        /\ G \in SUBSET Person /\ IsFiniteSet(G)
        /\ H \in SUBSET Person /\ IsFiniteSet(H)
    BY PeopleOfLinks DEF GuestPodcasts
  <1>2. /\ \A q \in Podcast, y \in Person : y \in PodcastGuests(h, q) <=> <<q, y>> \in h.guest
        /\ \A q \in Podcast, y \in Person : q \in GuestPodcasts(h, y) <=> <<q, y>> \in h.guest
        /\ \A q \in Podcast, y \in Person : q \in PersonPodcasts(h, y) <=> <<q, y>> \in any
    BY DEF PodcastGuests, GuestPodcasts, PersonPodcasts
  <1>3. \A y \in Person : /\ shared[y] \ {p} = {q \in Q : <<q, y>> \in h.guest}
                          /\ shared[y] = {q \in Q : <<q, y>> \in h.guest}
                          /\ bridges[y] = {q \in Q : <<q, y>> \in any}
    BY <1>1, <1>2
  <1>4. \A q \in Q : /\ near[q] = Cardinality({y \in G : <<q, y>> \in h.guest})
                     /\ across[q] = Cardinality({y \in H : <<q, y>> \in any})
                     /\ weighed[q] = across[q] * weight[q]
    <2> TAKE q \in Q
    <2>1. q \in Podcast /\ q # p
      BY <1>1
    <2>2. G \cap PodcastGuests(h, q) = {y \in G : <<q, y>> \in h.guest}
      BY <1>1, <1>2, <2>1
    <2>3. {y \in H : q \in PersonPodcasts(h, y)} = {y \in H : <<q, y>> \in any}
      BY <1>1, <1>2, <2>1
    <2>4. near[q] = Cardinality(G \cap PodcastGuests(h, q))
      BY <2>1 DEF SharedNeighborCounts, SharedGuests
    <2>5. across[q] = Cardinality({y \in H : q \in PersonPodcasts(h, y)})
      BY <2>1 DEF HostBridgeCounts
    <2>6. weighed[q] = across[q] * weight[q]
      BY <2>1 DEF HostBridgeWeights
    <2> HIDE DEF near, across, weighed, G, H, any, weight
    <2> QED
      BY <2>2, <2>3, <2>4, <2>5, <2>6
  <1>5. \A q \in Podcast : weight[q] \in Nat
    BY PeopleOfLinks, FS_CardinalityType
  <1>6. \A y \in Person : /\ others[y] = Cardinality({q \in Q : <<q, y>> \in h.guest})
                          /\ pairs[y] = Cardinality({q \in Q : <<q, y>> \in h.guest})
                          /\ hosts[y] = Cardinality({q \in Q : <<q, y>> \in any})
                          /\ sums[y] = SumOver(weight, {q \in Q : <<q, y>> \in any})
    <2> TAKE y \in Person
    <2> HIDE DEF shared, bridges, Q, any, weight
    <2> QED
      BY <1>3
  <1>7. SelectedFeatureMap(h, c, p, x)
          = [neighborScore |-> SumOver(near, Q), pairCount |-> SumOver(near, Q),
             hostBridges |-> SumOver(across, Q), hostWeight |-> SumOver(weighed, Q),
             other |-> ContextFeatures(h, c, p, x)]
    BY DEF SelectedFeatureMap
  <1>8. FeatureRow(h, c, p, x)
          = [neighborScore |-> SumOver(others, G), pairCount |-> SumOver(pairs, G),
             hostBridges |-> SumOver(hosts, H), hostWeight |-> SumOver(sums, H),
             other |-> ContextFeatures(h, c, p, x)]
    BY DEF FeatureRow
  <1> HIDE DEF near, across, weighed, others, pairs, hosts, sums, shared, bridges, weight,
               Q, G, H, any
  <1>9. SumOver(near, Q) = SumOver(others, G) /\ SumOver(near, Q) = SumOver(pairs, G)
    <2>1. Counts(near, Q, G, h.guest)
      BY <1>4 DEF Counts
    <2>2. CountsBack(others, Q, G, h.guest) /\ CountsBack(pairs, Q, G, h.guest)
      BY <1>1, <1>6 DEF CountsBack
    <2> QED
      BY <1>1, <2>1, <2>2, CountedBothWays
  <1>10. SumOver(across, Q) = SumOver(hosts, H)
    <2>1. Counts(across, Q, H, any)
      BY <1>4 DEF Counts
    <2>2. CountsBack(hosts, Q, H, any)
      BY <1>1, <1>6 DEF CountsBack
    <2> QED
      BY <1>1, <2>1, <2>2, CountedBothWays
  <1>11. SumOver(weighed, Q) = SumOver(sums, H)
    <2>1. Weights(weight, Q)
      BY <1>1, <1>5 DEF Weights
    <2>2. Columns(weighed, weight, Q, H, any)
      <3> SUFFICES ASSUME NEW q \in Q
                   PROVE  weighed[q] = weight[q] * Cardinality({y \in H : <<q, y>> \in any})
        BY DEF Columns
      <3> DEFINE n == Cardinality({y \in H : <<q, y>> \in any})
      <3>1. n \in Nat
        BY <1>1, FS_Subset, FS_CardinalityType
      <3>2. weighed[q] = across[q] * weight[q] /\ across[q] = n
        BY <1>4
      <3>3. weight[q] \in Nat
        BY <1>1, <1>5
      <3> HIDE DEF n
      <3>4. weighed[q] = weight[q] * n
        BY <3>1, <3>2, <3>3
      <3> QED
        BY <3>4 DEF n
    <2>3. Rows(sums, weight, Q, H, any)
      BY <1>1, <1>6 DEF Rows
    <2> QED
      BY <1>1, <2>1, <2>2, <2>3, SummedBothWays
  <1> QED
    BY <1>7, <1>8, <1>9, <1>10, <1>11

LEMMA MatrixAsTrained ==
  ASSUME NEW m, MatrixIs(m), NEW row \in m.rows
  PROVE  row.features = FeatureRow(History(m.metadata),
           FeatureContext(m.metadata.context, m.metadata.cutoff), row.pair[1], row.pair[2])
  <1> DEFINE h == History(m.metadata)
             c == FeatureContext(m.metadata.context, m.metadata.cutoff)
             p == row.pair[1]
             x == row.pair[2]
  <1>1. /\ m.metadata.seen \in SUBSET Episode
        /\ row.pair \in TrainingCandidates(h)
        /\ row.features = SelectedFeatureMap(h, c, p, x)
    BY DEF MatrixIs
  <1>2. h \in LinkData
    BY <1>1, HistoryIsLinkData DEF History
  <1>3. p \in Podcast /\ x \in Person /\ row.pair \notin h.guest
    BY <1>1, <1>2, TrainingPairs
  <1>4. row.pair = <<p, x>>
    BY <1>1, <1>2, TrainingPairs, CandidatesAreFinite
  <1> HIDE DEF h, c, p, x
  <1>5. SelectedFeatureMap(h, c, p, x) = FeatureRow(h, c, p, x)
    BY <1>2, <1>3, <1>4, TablesAgree
  <1> QED
    BY <1>1, <1>5 DEF h, c, p, x

LEMMA PredictionAsTrained ==
  ASSUME ModelIsNumeric, NEW r, PredictionIs(r), NEW i \in DOMAIN r.rows
  PROVE  r.rows[i].features = FeatureRow(History(r), FeatureContext(r.context, r.cutoff),
                                         r.rows[i].pair[1], r.rows[i].pair[2])
  <1> DEFINE h == History(r)
             c == FeatureContext(r.context, r.cutoff)
             C == TrainingCandidates(h)
             row == r.rows[i]
             p == row.pair[1]
             x == row.pair[2]
  <1>1. RowIs(row, h, c, C)
    BY PredictionsAreBest DEF BestRows
  <1>2. row.pair \in C /\ row.features = SelectedFeatureMap(h, c, p, x)
    BY <1>1 DEF RowIs
  <1>3. h \in LinkData
    BY HistoryIsLinkData DEF PredictionIs, History
  <1>4. p \in Podcast /\ x \in Person /\ row.pair \notin h.guest
    BY <1>2, <1>3, TrainingPairs
  <1>5. row.pair = <<p, x>>
    BY <1>2, <1>3, TrainingPairs, CandidatesAreFinite
  <1> HIDE DEF h, c, p, x, row
  <1>6. SelectedFeatureMap(h, c, p, x) = FeatureRow(h, c, p, x)
    BY <1>3, <1>4, <1>5, TablesAgree
  <1> QED
    BY <1>2, <1>6 DEF h, c, p, x, row

\* The tables prepared for scoring and the sums of feature_row make the same row
\* of features for every pair of a prediction run and of the full matrix, so that
\* a pair is scored by the features it would be trained with.
THEOREM TablesAndRowsAgree ==
  ASSUME ModelIsNumeric
  PROVE  Spec => []ScoredAsTrained
  <1>1. FilesInv => ScoredAsTrained
    <2> SUFFICES ASSUME FilesInv PROVE ScoredAsTrained
      OBVIOUS
    <2>1. MatrixIs(matrix)
      BY DEF FilesInv
    <2>2. \A row \in matrix.rows :
            row.features = FeatureRow(History(matrix.metadata),
              FeatureContext(matrix.metadata.context, matrix.metadata.cutoff),
              row.pair[1], row.pair[2])
      BY <2>1, MatrixAsTrained
    <2>3. \A id \in RunId : predictions[id] # None => PredictionIs(predictions[id])
      BY DEF FilesInv
    <2>4. ASSUME NEW id \in RunId, predictions[id] # None, NEW i \in DOMAIN predictions[id].rows
          PROVE  predictions[id].rows[i].features
                   = FeatureRow(History(predictions[id]),
                       FeatureContext(predictions[id].context, predictions[id].cutoff),
                       predictions[id].rows[i].pair[1], predictions[id].rows[i].pair[2])
      <3>1. PICK r : r = predictions[id]
        OBVIOUS
      <3>2. PredictionIs(r) /\ i \in DOMAIN r.rows
        BY <2>3, <2>4, <3>1
      <3> QED
        BY <3>1, <3>2, PredictionAsTrained
    <2> QED
      BY <2>2, <2>4 DEF ScoredAsTrained
  <1> QED
    BY <1>1, FilesAreComputed, PTL

=============================================================================
