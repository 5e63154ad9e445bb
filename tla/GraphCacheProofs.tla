--------------------------- MODULE GraphCacheProofs ---------------------------
(***************************************************************************)
(* Theorems of GraphCache, for any number of workers, threads, versions of *)
(* the database and artifacts, and wherever a worker is killed; and of the *)
(* graph and the search they answer with (SixDegrees), for any rows in any *)
(* order and any window.                                                   *)
(***************************************************************************)
EXTENDS GraphCache, FiniteSetTheorems, WellFoundedInduction, TLAPS

-----------------------------------------------------------------------------
(* Numbers *)

\* A set of numbers that is not empty has a least one
LEMMA LeastNumber ==
  ASSUME NEW S \in SUBSET Nat, S # {}
  PROVE  \E n \in S : \A m \in S : n <= m
  <1> DEFINE R == {ss \in Nat \X Nat : ss[1] < ss[2]}
  <1>1. IsWellFoundedOn(R, Nat)
    BY NatLessThanWellFounded, Zenon DEF OpToRel
  <1>2. \A m, n \in Nat : <<m, n>> \in R <=> m < n
    OBVIOUS
  <1> HIDE DEF R
  <1>3. PICK n \in S : \A m \in S : ~(<<m, n>> \in R)
    BY <1>1, WFMin, Zenon
  <1>4. ASSUME NEW m \in S PROVE n <= m
    <2>1. ~(m < n)
      BY <1>2, <1>3, Zenon
    <2> QED
      BY <2>1
  <1> QED
    BY <1>4

-----------------------------------------------------------------------------
(* Recursion over 0..n *)

\* What holds at the start and goes on from each number to the next holds throughout
LEMMA Onward ==
  ASSUME NEW n \in Nat, NEW B, 0 \in B, \A i \in 1..n : i - 1 \in B => i \in B
  PROVE  \A i \in 0..n : i \in B
  <1> DEFINE Never == {i \in 0..n : i \notin B}
  <1> SUFFICES ASSUME Never # {} PROVE FALSE
    OBVIOUS
  <1>1. Never \in SUBSET Nat
    OBVIOUS
  <1>2. PICK i \in Never : \A j \in Never : i <= j
    <2> HIDE DEF Never
    <2> QED
      BY <1>1, LeastNumber
  <1>3. i \in 1..n /\ i - 1 \in 0..n /\ ~ (i <= i - 1)
    BY <1>2
  <1>4. i - 1 \in B
    BY <1>2, <1>3
  <1> QED
    BY <1>2, <1>3, <1>4

StepsIn(step, n, V) == \A i \in 1..n : \A u \in V : step[<<i, u>>] \in V

\* The recursion from v by a step inside V has a solution
LEMMA SolutionExists ==
  ASSUME NEW V, NEW v \in V, NEW n \in Nat, NEW step, StepsIn(step, n, V)
  PROVE  \E g \in [0..n -> V] : g[0] = v /\ \A i \in 1..n : g[i] = step[<<i, g[i - 1]>>]
  <1> DEFINE Solves(g, k) == g[0] = v /\ \A i \in 1..k : g[i] = step[<<i, g[i - 1]>>]
             B == {k \in 0..n : \E g \in [0..k -> V] : Solves(g, k)}
  <1>1. 0 \in B
    <2> DEFINE g == [i \in 0..0 |-> v]
    <2>1. g \in [0..0 -> V] /\ Solves(g, 0)
      OBVIOUS
    <2> QED
      <3>1. 0 \in 0..n
        OBVIOUS
      <3> HIDE DEF g, Solves
      <3> QED
        BY <2>1, <3>1
  <1>2. ASSUME NEW k \in 1..n, k - 1 \in B PROVE k \in B
    <2>1. PICK g \in [0..(k - 1) -> V] : Solves(g, k - 1)
      BY <1>2
    <2> DEFINE more == [i \in 0..k |-> IF i = k THEN step[<<k, g[k - 1]>>] ELSE g[i]]
    <2>2. g[k - 1] \in V /\ step[<<k, g[k - 1]>>] \in V
      BY DEF StepsIn
    <2>3. more \in [0..k -> V]
      BY <2>2
    <2>4. \A i \in 0..(k - 1) : more[i] = g[i]
      OBVIOUS
    <2>5. more[k] = step[<<k, g[k - 1]>>]
      OBVIOUS
    <2> HIDE DEF more
    <2>6. \A i \in 1..k : more[i] = step[<<i, more[i - 1]>>]
      <3> TAKE i \in 1..k
      <3>1. more[i - 1] = g[i - 1]
        BY <2>4
      <3>2. CASE i = k
        BY <2>5, <3>1, <3>2
      <3>3. CASE i # k
        BY <2>1, <2>4, <3>1, <3>3
      <3> QED
        BY <3>2, <3>3
    <2>7. Solves(more, k)
      BY <2>1, <2>4, <2>6
    <2> QED
      BY <2>3, <2>7
  <1> HIDE DEF B
  <1>3. n \in B
    BY <1>1, <1>2, Onward
  <1> QED
    BY <1>3 DEF B

-----------------------------------------------------------------------------
(* Filtered sequences *)

Distinct(s) == \A i, j \in 1..Len(s) : s[i] = s[j] => i = j

\* The entries of u come as they do among the first n of s
InOrderOf(s, n, u) ==
  \A i, j \in 1..Len(u) : i < j => \E k, l \in 1..n : k < l /\ u[i] = s[k] /\ u[j] = s[l]

FilterStep(s, T, f, n) ==
  IF n = 0 THEN <<>> ELSE IF s[n] \in T THEN Append(f[n - 1], s[n]) ELSE f[n - 1]

\* A filtered sequence is the last of the sequences that Filtered goes through
LEMMA FilterUnfold ==
  ASSUME NEW s, NEW T
  PROVE  Filtered(s, T) = (CHOOSE f : f = [n \in 0..Len(s) |-> FilterStep(s, T, f, n)])[Len(s)]
  BY DEF Filtered, FilterStep

FilterRun(s, T, f) ==
  /\ f[0] = <<>>
  /\ \A n \in 1..Len(s) : f[n] = IF s[n] \in T THEN Append(f[n - 1], s[n]) ELSE f[n - 1]
  /\ Filtered(s, T) = f[Len(s)]

\* Those sequences exist: nothing at first, and each entry of s appended if it is in T
LEMMA FilterSteps ==
  ASSUME NEW X, NEW s \in Seq(X), NEW T
  PROVE  \E f \in [0..Len(s) -> Seq(X)] : FilterRun(s, T, f)
  <1> DEFINE V == Seq(X)
             step == [iv \in (1..Len(s)) \X V |->
                        IF s[iv[1]] \in T THEN Append(iv[2], s[iv[1]]) ELSE iv[2]]
  <1>0. Len(s) \in Nat /\ <<>> \in V
    OBVIOUS
  <1>1. ASSUME NEW i \in 1..Len(s), NEW v \in V
        PROVE  step[<<i, v>>] = IF s[i] \in T THEN Append(v, s[i]) ELSE v
    <2>1. <<i, v>> \in (1..Len(s)) \X V /\ <<i, v>>[1] = i /\ <<i, v>>[2] = v
      OBVIOUS
    <2> HIDE DEF V
    <2> QED
      BY <2>1
  <1>2. \A i \in 1..Len(s) : \A v \in V : (IF s[i] \in T THEN Append(v, s[i]) ELSE v) \in V
    OBVIOUS
  <1> HIDE DEF step, V
  <1>3. StepsIn(step, Len(s), V)
    <2>1. ASSUME NEW i \in 1..Len(s), NEW v \in V PROVE step[<<i, v>>] \in V
      BY <1>1, <1>2, Zenon
    <2> QED
      BY <2>1 DEF StepsIn
  <1>4. PICK f \in [0..Len(s) -> V] : f[0] = <<>> /\ \A i \in 1..Len(s) : f[i] = step[<<i, f[i - 1]>>]
    BY <1>0, <1>3, SolutionExists
  <1>5. ASSUME NEW i \in 1..Len(s)
        PROVE  f[i] = IF s[i] \in T THEN Append(f[i - 1], s[i]) ELSE f[i - 1]
    <2>1. i - 1 \in 0..Len(s) /\ f[i - 1] \in V
      BY <1>0
    <2> QED
      BY <1>1, <1>4, <2>1
  <1>6. f = [n \in 0..Len(s) |-> FilterStep(s, T, f, n)]
    <2>1. ASSUME NEW i \in 0..Len(s) PROVE f[i] = FilterStep(s, T, f, i)
      <3>1. CASE i = 0
        BY <1>4, <3>1 DEF FilterStep
      <3>2. CASE i # 0
        <4>1. i \in 1..Len(s)
          BY <1>0, <3>2
        <4> QED
          BY <1>5, <3>2, <4>1, Zenon DEF FilterStep
      <3> QED
        BY <3>1, <3>2
    <2> QED
      BY <2>1
  <1> DEFINE h == CHOOSE h : h = [n \in 0..Len(s) |-> FilterStep(s, T, h, n)]
  <1>7. h = [n \in 0..Len(s) |-> FilterStep(s, T, h, n)]
    BY <1>6
  <1>8. Filtered(s, T) = h[Len(s)]
    BY FilterUnfold
  <1> HIDE DEF h
  <1>9. \A i \in 0..Len(s) : i \in {j \in 0..Len(s) : h[j] = f[j]}
    <2> DEFINE B == {j \in 0..Len(s) : h[j] = f[j]}
    <2>1. 0 \in B
      BY <1>0, <1>4, <1>7 DEF FilterStep
    <2>2. ASSUME NEW i \in 1..Len(s), i - 1 \in B PROVE i \in B
      <3>1. i \in 0..Len(s) /\ i # 0 /\ h[i - 1] = f[i - 1]
        BY <1>0, <2>2
      <3>2. h[i] = FilterStep(s, T, h, i)
        BY <1>7, <3>1
      <3>3. h[i] = f[i]
        <4>1. h[i] = IF s[i] \in T THEN Append(f[i - 1], s[i]) ELSE f[i - 1]
          BY <3>1, <3>2, Zenon DEF FilterStep
        <4> QED
          BY <1>5, <4>1, Zenon
      <3> QED
        BY <3>1, <3>3
    <2> HIDE DEF B
    <2>3. \A i \in 0..Len(s) : i \in B
      BY <1>0, <2>1, <2>2, Onward
    <2> QED
      BY <2>3 DEF B
  <1>10. h[Len(s)] = f[Len(s)]
    BY <1>0, <1>9
  <1> QED
    BY <1>4, <1>5, <1>8, <1>10 DEF V, FilterRun

\* A filtered sequence has the entries that are in the set, none of them more often
LEMMA FilteredHas ==
  ASSUME NEW X, NEW s \in Seq(X), NEW T
  PROVE  /\ Filtered(s, T) \in Seq(X)
         /\ ToSet(Filtered(s, T)) = ToSet(s) \cap T
         /\ Distinct(s) => Distinct(Filtered(s, T))
         /\ InOrderOf(s, Len(s), Filtered(s, T))
  <1>0. PICK f \in [0..Len(s) -> Seq(X)] : FilterRun(s, T, f)
    BY FilterSteps
  <1>1. /\ f[0] = <<>>
        /\ \A n \in 1..Len(s) : f[n] = IF s[n] \in T THEN Append(f[n - 1], s[n]) ELSE f[n - 1]
        /\ Filtered(s, T) = f[Len(s)]
    BY <1>0 DEF FilterRun
  <1> DEFINE From(u, n) == \A x : (\E i \in 1..Len(u) : u[i] = x) <=> x \in T /\ \E j \in 1..n : s[j] = x
             B == {n \in 0..Len(s) : From(f[n], n) /\ (Distinct(s) => Distinct(f[n]))
                                       /\ InOrderOf(s, n, f[n])}
  <1>2. 0 \in B
    BY <1>1 DEF Distinct, InOrderOf
  <1>3. ASSUME NEW n \in 1..Len(s), n - 1 \in B PROVE n \in B
    <2>1. /\ f[n - 1] \in Seq(X) /\ From(f[n - 1], n - 1) /\ (Distinct(s) => Distinct(f[n - 1]))
          /\ InOrderOf(s, n - 1, f[n - 1])
      BY <1>3
    <2>2. CASE s[n] \notin T
      <3>1. f[n] = f[n - 1]
        BY <1>1, <2>2
      <3>2. From(f[n], n)
        <4>1. 1..n = (1..(n - 1)) \cup {n}
          OBVIOUS
        <4>2. From(f[n - 1], n)
          BY <2>1, <2>2, <4>1
        <4> HIDE DEF From
        <4> QED
          BY <3>1, <4>2
      <3>3. n \in 0..Len(s)
        OBVIOUS
      <3>4. InOrderOf(s, n, f[n])
        BY <2>1, <3>1 DEF InOrderOf
      <3> HIDE DEF From
      <3> QED
        BY <2>1, <3>1, <3>2, <3>3, <3>4
    <2>3. CASE s[n] \in T
      <3>1. f[n] = Append(f[n - 1], s[n])
        BY <1>1, <2>3
      <3> DEFINE u == f[n - 1]  w == f[n]
      <3>2. /\ Len(w) = Len(u) + 1 /\ Len(u) \in Nat
            /\ w[Len(w)] = s[n] /\ \A i \in 1..Len(u) : w[i] = u[i]
        BY <2>1, <3>1
      <3> HIDE DEF u, w
      <3>3. From(w, n)
        <4> TAKE x
        <4>1. (\E i \in 1..Len(w) : w[i] = x) <=> (\E i \in 1..Len(u) : u[i] = x) \/ x = s[n]
          <5>1. 1..Len(w) = (1..Len(u)) \cup {Len(w)}
            BY <3>2
          <5> QED
            BY <3>2, <5>1
        <4>2. (\E j \in 1..n : s[j] = x) <=> (\E j \in 1..(n - 1) : s[j] = x) \/ x = s[n]
          <5>1. 1..n = (1..(n - 1)) \cup {n}
            OBVIOUS
          <5> QED
            BY <5>1
        <4>3. (\E i \in 1..Len(u) : u[i] = x) <=> x \in T /\ \E j \in 1..(n - 1) : s[j] = x
          BY <2>1 DEF u
        <4> QED
          BY <2>3, <4>1, <4>2, <4>3
      <3>4. ASSUME Distinct(s) PROVE Distinct(w)
        <4>1. ASSUME NEW i \in 1..Len(u) PROVE u[i] # s[n]
          <5>1. \E j \in 1..(n - 1) : s[j] = u[i]
            BY <2>1 DEF u
          <5> QED
            BY <3>4, <5>1 DEF Distinct
        <4>2. Distinct(u)
          BY <2>1, <3>4 DEF u
        <4> QED
          BY <3>2, <4>1, <4>2 DEF Distinct
      <3>5. InOrderOf(s, n, w)
        <4> SUFFICES ASSUME NEW i \in 1..Len(w), NEW j \in 1..Len(w), i < j
                     PROVE  \E k, l \in 1..n : k < l /\ w[i] = s[k] /\ w[j] = s[l]
          BY DEF InOrderOf
        <4>1. i \in 1..Len(u) /\ w[i] = u[i]
          BY <3>2
        <4>2. CASE j \in 1..Len(u)
          <5>1. \E k, l \in 1..(n - 1) : k < l /\ u[i] = s[k] /\ u[j] = s[l]
            BY <2>1, <4>1, <4>2 DEF InOrderOf, u
          <5> QED
            BY <3>2, <4>1, <4>2, <5>1
        <4>3. CASE j = Len(w)
          <5>1. PICK k \in 1..(n - 1) : s[k] = u[i]
            BY <2>1, <4>1 DEF u
          <5>2. k \in 1..n /\ n \in 1..n /\ k < n /\ w[i] = s[k] /\ w[j] = s[n]
            BY <3>2, <4>1, <4>3, <5>1
          <5> QED
            BY <5>2
        <4>4. j \in 1..Len(u) \/ j = Len(w)
          <5>1. PICK l \in Nat : l = Len(u)
            BY <3>2
          <5>2. Len(w) = l + 1
            BY <3>2, <5>1
          <5>3. j \in 1..(l + 1) => j \in 1..l \/ j = l + 1
            OBVIOUS
          <5> QED
            BY <5>1, <5>2, <5>3
        <4> QED
          BY <4>2, <4>3, <4>4
      <3> QED
        BY <3>3, <3>4, <3>5 DEF w
    <2> QED
      BY <2>2, <2>3
  <1>4. Len(s) \in B
    <2>1. Len(s) \in Nat /\ Len(s) \in 0..Len(s)
      OBVIOUS
    <2> HIDE DEF B
    <2> QED
      BY <1>2, <1>3, <2>1, Onward
  <1>5. From(f[Len(s)], Len(s)) /\ f[Len(s)] \in Seq(X)
    BY <1>4
  <1>6. ToSet(f[Len(s)]) = ToSet(s) \cap T
    <2> DEFINE u == f[Len(s)]
    <2>1. DOMAIN u = 1..Len(u) /\ DOMAIN s = 1..Len(s)
      BY <1>5
    <2>2. \A x : x \in ToSet(u) <=> x \in T /\ \E j \in 1..Len(s) : s[j] = x
      BY <1>5, <2>1 DEF ToSet
    <2>3. \A x : x \in ToSet(s) <=> \E j \in 1..Len(s) : s[j] = x
      BY <2>1 DEF ToSet
    <2> HIDE DEF u
    <2>4. ToSet(u) = ToSet(s) \cap T
      BY <2>2, <2>3
    <2> QED
      BY <2>4 DEF u
  <1>7. (Distinct(s) => Distinct(f[Len(s)])) /\ InOrderOf(s, Len(s), f[Len(s)])
    BY <1>4
  <1> QED
    BY <1>1, <1>5, <1>6, <1>7

-----------------------------------------------------------------------------
(* Dates *)

Dates(D) == D \in SUBSET (Nat \ {NoDate}) /\ IsFiniteSet(D)

\* A finite set of numbers that is not empty has a greatest one
LEMMA GreatestNumber ==
  ASSUME NEW S \in SUBSET Nat, S # {}, IsFiniteSet(S)
  PROVE  \E n \in S : \A m \in S : m <= n
  <1> DEFINE Topless(T) == T # {} /\ ~ \E n \in T : \A m \in T : m <= n
             K == {k \in Nat : \E T \in SUBSET S : Topless(T) /\ Cardinality(T) = k}
  <1>1. SUFFICES ASSUME Topless(S) PROVE FALSE
    OBVIOUS
  <1>2. Cardinality(S) \in K
    BY <1>1, FS_CardinalityType
  <1> HIDE DEF K
  <1>3. PICK k \in K : \A j \in K : k <= j
    <2>1. K \in SUBSET Nat
      BY DEF K
    <2> QED
      BY <1>2, <2>1, LeastNumber
  <1>4. PICK T \in SUBSET S : Topless(T) /\ Cardinality(T) = k
    BY DEF K
  <1>5. PICK x \in T : TRUE
    BY <1>4
  <1>6. /\ IsFiniteSet(T) /\ IsFiniteSet(T \ {x}) /\ k \in Nat
        /\ Cardinality(T \ {x}) = k - 1
    BY <1>4, <1>5, FS_Subset, FS_RemoveElement, FS_CardinalityType
  <1>7. T \ {x} # {}
    BY <1>4, <1>5
  <1>8. ~ Topless(T \ {x})
    <2>1. SUFFICES ASSUME Topless(T \ {x}) PROVE k - 1 \in K
      BY <1>3, <1>6
    <2>2. k - 1 \in Nat
      BY <1>6, FS_CardinalityType
    <2> QED
      BY <1>6, <2>1, <2>2 DEF K
  <1>9. PICK n \in T \ {x} : \A m \in T \ {x} : m <= n
    BY <1>7, <1>8
  <1>10. n \in T /\ x \in T /\ n \in Nat /\ x \in Nat
    BY <1>5, <1>9
  <1>11. CASE x <= n
    BY <1>4, <1>9, <1>10, <1>11
  <1>12. CASE ~ (x <= n)
    <2>1. \A m \in T : m <= x
      BY <1>9, <1>10, <1>12
    <2> QED
      BY <1>4, <1>10, <2>1
  <1> QED
    BY <1>11, <1>12

\* Of some dates, LeastOf is the first
LEMMA LeastOfIs ==
  ASSUME NEW D, Dates(D), D # {}
  PROVE  LeastOf(D) \in D /\ \A d \in D : LeastOf(D) <= d
  <1>1. \E d \in D : \A e \in D : d <= e
    BY LeastNumber DEF Dates
  <1> QED
    BY <1>1, Zenon DEF LeastOf

\* Of some dates, LatestOf is the last
LEMMA LatestOfIs ==
  ASSUME NEW D, Dates(D), D # {}
  PROVE  LatestOf(D) \in D /\ \A d \in D : d <= LatestOf(D)
  <1>1. \E d \in D : \A e \in D : e <= d
    BY GreatestNumber DEF Dates
  <1> QED
    BY <1>1, Zenon DEF LatestOf

\* Of no dates, both are None
LEMMA NoneOfNone == LeastOf({}) = NoDate /\ LatestOf({}) = NoDate
  BY DEF LeastOf, LatestOf

\* The first and the last of some dates stand for them when others are added
LEMMA SpanGrows ==
  ASSUME NEW D, Dates(D), NEW X, Dates(X), NEW A,
         A = ({LeastOf(D), LatestOf(D)} \cup X) \ {NoDate}
  PROVE  LeastOf(A) = LeastOf(D \cup X) /\ LatestOf(A) = LatestOf(D \cup X)
  <1>1. CASE D = {}
    <2>1. A = X /\ D \cup X = X
      BY <1>1, NoneOfNone DEF Dates
    <2> QED
      BY <2>1
  <1>2. CASE D # {}
    <2> DEFINE U == D \cup X
    <2>1. /\ LeastOf(D) \in D /\ LatestOf(D) \in D
          /\ \A d \in D : LeastOf(D) <= d /\ d <= LatestOf(D)
      BY <1>2, LeastOfIs, LatestOfIs
    <2>2. A = {LeastOf(D), LatestOf(D)} \cup X
      BY <2>1 DEF Dates
    <2>3. A \subseteq U /\ A # {} /\ U # {} /\ Dates(U) /\ U \subseteq Nat
      BY <2>1, <2>2, FS_Union DEF Dates
    <2>4. Dates(A)
      BY <2>3, FS_Subset DEF Dates
    <2>5. \A d \in U : \E a, b \in A : a <= d /\ d <= b
      <3> TAKE d \in U
      <3>1. CASE d \in D
        BY <2>1, <2>2, <3>1
      <3>2. CASE d \in X
        BY <2>2, <2>3, <3>2
      <3> QED
        BY <3>1, <3>2
    <2>6. /\ LeastOf(A) \in A /\ \A d \in A : LeastOf(A) <= d
          /\ LatestOf(A) \in A /\ \A d \in A : d <= LatestOf(A)
          /\ LeastOf(U) \in U /\ \A d \in U : LeastOf(U) <= d
          /\ LatestOf(U) \in U /\ \A d \in U : d <= LatestOf(U)
      BY <2>3, <2>4, LeastOfIs, LatestOfIs
    <2> DEFINE la == LeastOf(A)  ta == LatestOf(A)  lu == LeastOf(U)  tu == LatestOf(U)
    <2>7. la \in U /\ ta \in U /\ lu \in U /\ tu \in U /\ lu <= la /\ ta <= tu
      BY <2>3, <2>6
    <2>8. la <= lu /\ tu <= ta
      <3>1. PICK a \in A : a <= lu
        BY <2>5, <2>7
      <3>2. PICK b \in A : tu <= b
        BY <2>5, <2>7
      <3>3. la <= a /\ b <= ta /\ a \in Nat /\ b \in Nat
        BY <2>3, <2>6
      <3>4. la \in Nat /\ ta \in Nat /\ lu \in Nat /\ tu \in Nat
        BY <2>3, <2>7
      <3> HIDE DEF la, ta, lu, tu
      <3> QED
        BY <3>1, <3>2, <3>3, <3>4
    <2>9. la \in Nat /\ ta \in Nat /\ lu \in Nat /\ tu \in Nat
      BY <2>3, <2>7
    <2> HIDE DEF la, ta, lu, tu
    <2>10. la = lu /\ ta = tu
      BY <2>7, <2>8, <2>9
    <2> QED
      BY <2>10 DEF la, ta, lu, tu
  <1> QED
    BY <1>1, <1>2

-----------------------------------------------------------------------------
(* Merged edges *)

\* Edges between nodes, as they are built and as they are merged
EdgesOf(nodes) == [left : nodes, right : nodes, kind : {"host", "guest"}, date : Nat,
                   dates : {D \in SUBSET Nat : IsFiniteSet(D)}, activeStart : Nat, activeEnd : Nat]
Plain(edge) == edge = Edge(edge.left, edge.right, edge.kind, edge.date)

\* An edge says of its pair what the dates D and the role of a host amount to
Tells(edge, D, hosted) ==
  /\ edge.kind = IF hosted THEN "host" ELSE "guest"
  /\ \/ EventDates(edge) = D /\ edge.activeStart = NoDate /\ edge.activeEnd = NoDate
     \/ /\ hosted /\ EventDates(edge) = {}
        /\ edge.activeStart = LeastOf(D) /\ edge.activeEnd = LatestOf(D)

\* An edge as it is built says of its pair its own date, and whether it is of a host
LEMMA PlainTells ==
  ASSUME NEW nodes, NEW edge \in EdgesOf(nodes), Plain(edge)
  PROVE  /\ EventDates(edge) = {edge.date} \ {NoDate}
         /\ edge.activeStart = NoDate /\ edge.activeEnd = NoDate
         /\ Tells(edge, {edge.date} \ {NoDate}, edge.kind = "host")
         /\ Dates({edge.date} \ {NoDate})
  <1>1. /\ edge.dates = {} /\ edge.activeStart = NoDate /\ edge.activeEnd = NoDate
        /\ edge.kind \in {"host", "guest"} /\ edge.date \in Nat
    BY DEF Plain, Edge, EdgesOf
  <1>2. EventDates(edge) = {edge.date} \ {NoDate}
    BY <1>1 DEF EventDates
  <1>3. IsFiniteSet({edge.date} \ {NoDate})
    BY FS_Singleton, FS_Difference
  <1> QED
    BY <1>1, <1>2, <1>3 DEF Tells, Dates

\* The first and the last of some dates are numbers, or None
LEMMA DatesOfSpan ==
  ASSUME NEW D, Dates(D)
  PROVE  LeastOf(D) \in Nat /\ LatestOf(D) \in Nat
  <1>1. CASE D = {}
    BY <1>1, NoneOfNone DEF NoDate
  <1>2. CASE D # {}
    BY <1>2, LeastOfIs, LatestOfIs DEF Dates
  <1> QED
    BY <1>1, <1>2

\* An edge merged into another is an edge between the same nodes
LEMMA MergedIsEdge ==
  ASSUME NEW nodes, NEW m \in EdgesOf(nodes), NEW edge \in EdgesOf(nodes)
  PROVE  /\ Merged(m, edge) \in EdgesOf(nodes)
         /\ Merged(m, edge).left = m.left /\ Merged(m, edge).right = m.right
  <1> DEFINE kind == IF "host" \in {m.kind, edge.kind} THEN "host" ELSE edge.kind
             events == EventDates(m) \cup EventDates(edge)
             ends == {m.activeStart, m.activeEnd, edge.activeStart, edge.activeEnd}
             active == (ends \cup (IF kind = "host" THEN events ELSE {})) \ {NoDate}
             e == Merged(m, edge)
  <1>1. \A f \in EdgesOf(nodes) : Dates(EventDates(f))
    <2> TAKE f \in EdgesOf(nodes)
    <2>1. f.dates \in SUBSET Nat /\ IsFiniteSet(f.dates) /\ f.date \in Nat
      BY DEF EdgesOf
    <2>2. IsFiniteSet(EventDates(f))
      BY <2>1, FS_AddElement, FS_Difference DEF EventDates
    <2> QED
      BY <2>1, <2>2 DEF EventDates, Dates
  <1>2. Dates(events)
    BY <1>1, FS_Union DEF Dates
  <1>3. ends \in SUBSET Nat /\ IsFiniteSet(ends)
    <2>1. IsFiniteSet({m.activeStart, m.activeEnd} \cup {edge.activeStart} \cup {edge.activeEnd})
      <3>1. IsFiniteSet({m.activeStart} \cup {m.activeEnd})
        BY FS_AddElement, FS_Singleton
      <3>2. {m.activeStart} \cup {m.activeEnd} = {m.activeStart, m.activeEnd}
        OBVIOUS
      <3>3. IsFiniteSet({m.activeStart, m.activeEnd} \cup {edge.activeStart})
        BY <3>1, <3>2, FS_AddElement
      <3> QED
        BY <3>3, FS_AddElement
    <2>2. ends = {m.activeStart, m.activeEnd} \cup {edge.activeStart} \cup {edge.activeEnd}
      OBVIOUS
    <2> QED
      BY <2>1, <2>2 DEF EdgesOf
  <1>4. Dates(active)
    <2>1. IsFiniteSet(ends \cup (IF kind = "host" THEN events ELSE {}))
      BY <1>2, <1>3, FS_Union, FS_EmptySet DEF Dates
    <2> HIDE DEF ends, events, kind
    <2>2. IsFiniteSet(active)
      BY <2>1, FS_Difference
    <2> QED
      BY <1>2, <1>3, <2>2 DEF Dates
  <1>5. LeastOf(active) \in Nat /\ LatestOf(active) \in Nat
    BY <1>4, DatesOfSpan
  <1>6. e = [left |-> m.left, right |-> m.right, kind |-> kind, date |-> NoDate,
             dates |-> IF kind = "guest" THEN events ELSE {},
             activeStart |-> LeastOf(active), activeEnd |-> LatestOf(active)]
    BY DEF Merged
  <1>7. kind \in {"host", "guest"} /\ m.left \in nodes /\ m.right \in nodes
    BY DEF EdgesOf
  <1>8. (IF kind = "guest" THEN events ELSE {}) \in {D \in SUBSET Nat : IsFiniteSet(D)}
    BY <1>2, FS_EmptySet DEF Dates
  <1> HIDE DEF kind, events, active, e
  <1>9. e \in EdgesOf(nodes) /\ e.left = m.left /\ e.right = m.right
    BY <1>5, <1>6, <1>7, <1>8 DEF EdgesOf, NoDate
  <1> QED
    BY <1>9 DEF e

\* A merged edge says of its pair what the two edges said, taken together
LEMMA MergedTells ==
  ASSUME NEW nodes, NEW m \in EdgesOf(nodes), NEW edge \in EdgesOf(nodes), Plain(edge),
         NEW D, Dates(D), NEW hosted \in BOOLEAN, Tells(m, D, hosted),
         NEW D2, D2 = D \cup ({edge.date} \ {NoDate}),
         NEW h2, h2 = (hosted \/ edge.kind = "host")
  PROVE  /\ Tells(Merged(m, edge), D2, h2)
         /\ Dates(D2)
  <1> DEFINE X == {edge.date} \ {NoDate}
             kind == IF "host" \in {m.kind, edge.kind} THEN "host" ELSE edge.kind
             events == EventDates(m) \cup EventDates(edge)
             active == ({m.activeStart, m.activeEnd, edge.activeStart, edge.activeEnd}
                          \cup (IF kind = "host" THEN events ELSE {})) \ {NoDate}
             e == Merged(m, edge)
  <1>1. /\ EventDates(edge) = X /\ Dates(X)
        /\ edge.activeStart = NoDate /\ edge.activeEnd = NoDate
    BY PlainTells
  <1>2. e = [left |-> m.left, right |-> m.right, kind |-> kind, date |-> NoDate,
             dates |-> IF kind = "guest" THEN events ELSE {},
             activeStart |-> LeastOf(active), activeEnd |-> LatestOf(active)]
    BY DEF Merged
  <1>3. kind = (IF h2 THEN "host" ELSE "guest") /\ kind \in {"host", "guest"}
    BY DEF Tells, EdgesOf
  <1>4. Dates(D2)
    BY <1>1, FS_Union DEF Dates
  <1>5. CASE ~ h2
    <2>1. EventDates(m) = D /\ m.activeStart = NoDate /\ m.activeEnd = NoDate /\ kind = "guest"
      BY <1>3, <1>5 DEF Tells
    <2>2. events = D2 /\ active = {}
      BY <1>1, <2>1
    <2>3. EventDates(e) = D2
      <3>1. e.dates = D2 /\ e.date = NoDate
        BY <1>2, <2>1, <2>2
      <3> HIDE DEF e
      <3> QED
        BY <1>4, <3>1 DEF EventDates, Dates
    <2>4. e.activeStart = NoDate /\ e.activeEnd = NoDate /\ e.kind = "guest"
      BY <1>2, <2>1, <2>2, NoneOfNone
    <2> QED
      BY <1>2, <1>4, <1>5, <2>3, <2>4 DEF Tells
  <1>6. CASE h2
    <2>1. kind = "host"
      BY <1>3, <1>6
    <2>2. LeastOf(active) = LeastOf(D2) /\ LatestOf(active) = LatestOf(D2)
      <3>1. CASE EventDates(m) = D /\ m.activeStart = NoDate /\ m.activeEnd = NoDate
        <4>1. active = D2
          BY <1>1, <1>4, <2>1, <3>1 DEF Dates
        <4> QED
          BY <4>1
      <3>2. CASE /\ EventDates(m) = {}
                 /\ m.activeStart = LeastOf(D) /\ m.activeEnd = LatestOf(D)
        <4>1. active = ({LeastOf(D), LatestOf(D)} \cup X) \ {NoDate}
          BY <1>1, <2>1, <3>2
        <4> HIDE DEF active, X
        <4> QED
          BY <1>1, <4>1, SpanGrows DEF X
      <3> QED
        BY <3>1, <3>2 DEF Tells
    <2>3. EventDates(e) = {}
      <3>1. e.dates = {} /\ e.date = NoDate
        BY <1>2, <2>1
      <3> HIDE DEF e
      <3> QED
        BY <3>1 DEF EventDates
    <2>4. e = [left |-> m.left, right |-> m.right, kind |-> "host", date |-> NoDate, dates |-> {},
               activeStart |-> LeastOf(D2), activeEnd |-> LatestOf(D2)]
      BY <1>2, <2>1, <2>2
    <2> HIDE DEF e
    <2>5. Tells(e, D2, h2)
      BY <1>6, <2>3, <2>4 DEF Tells
    <2> QED
      BY <1>4, <2>5 DEF e
  <1> QED
    BY <1>5, <1>6

\* What the first n edges say of the pair of an edge
DatesOfPair(edges, n, e) ==
  {edges[i].date : i \in {j \in 1..n : SamePair(edges[j], e)}} \ {NoDate}
HostsPair(edges, n, e) == \E i \in 1..n : SamePair(edges[i], e) /\ edges[i].kind = "host"

MergeStep(edges, f, n) == IF n = 0 THEN <<>> ELSE AddEdge(f[n - 1], edges[n])

MergeRun(edges, f) ==
  /\ f[0] = <<>>
  /\ \A n \in 1..Len(edges) : f[n] = AddEdge(f[n - 1], edges[n])
  /\ MergeEdges(edges) = f[Len(edges)]

\* The merged edges are the last of the sequences that merge_edges goes through
LEMMA MergeUnfold ==
  ASSUME NEW edges
  PROVE  MergeEdges(edges) = (CHOOSE f : f = [n \in 0..Len(edges) |-> MergeStep(edges, f, n)])[Len(edges)]
  BY DEF MergeEdges, MergeStep

\* One edge more leaves a sequence of edges
LEMMA AddEdgeType ==
  ASSUME NEW nodes, NEW M \in Seq(EdgesOf(nodes)), NEW e \in EdgesOf(nodes)
  PROVE  AddEdge(M, e) \in Seq(EdgesOf(nodes))
  <1>1. CASE \E i \in 1..Len(M) : SamePair(M[i], e)
    <2> DEFINE N == [i \in 1..Len(M) |-> IF SamePair(M[i], e) THEN Merged(M[i], e) ELSE M[i]]
    <2>1. \A i \in 1..Len(M) : N[i] \in EdgesOf(nodes)
      BY MergedIsEdge
    <2>2. N \in Seq(EdgesOf(nodes))
      BY <2>1
    <2>3. AddEdge(M, e) = N
      BY <1>1 DEF AddEdge
    <2> QED
      BY <2>2, <2>3
  <1>2. CASE ~ \E i \in 1..Len(M) : SamePair(M[i], e)
    BY <1>2 DEF AddEdge
  <1> QED
    BY <1>1, <1>2

\* Those sequences exist: no edge at first, and each edge added in its turn
LEMMA MergeSteps ==
  ASSUME NEW nodes, NEW edges \in Seq(EdgesOf(nodes))
  PROVE  \E f \in [0..Len(edges) -> Seq(EdgesOf(nodes))] : MergeRun(edges, f)
  <1> DEFINE n == Len(edges)
             V == Seq(EdgesOf(nodes))
             step == [iv \in (1..n) \X V |-> AddEdge(iv[2], edges[iv[1]])]
  <1>0. n \in Nat /\ <<>> \in V /\ \A i \in 1..n : edges[i] \in EdgesOf(nodes)
    OBVIOUS
  <1>1. ASSUME NEW i \in 1..n, NEW v \in V
        PROVE  step[<<i, v>>] = AddEdge(v, edges[i]) /\ AddEdge(v, edges[i]) \in V
    <2>1. <<i, v>> \in (1..n) \X V /\ <<i, v>>[1] = i /\ <<i, v>>[2] = v
      OBVIOUS
    <2>2. AddEdge(v, edges[i]) \in V
      BY AddEdgeType
    <2> HIDE DEF V
    <2> QED
      BY <2>1, <2>2
  <1> HIDE DEF step, V, n
  <1>2. StepsIn(step, n, V)
    BY <1>1 DEF StepsIn
  <1>3. PICK f \in [0..n -> V] : f[0] = <<>> /\ \A i \in 1..n : f[i] = step[<<i, f[i - 1]>>]
    <2>1. n \in Nat /\ <<>> \in V
      BY <1>0
    <2> QED
      BY <1>2, <2>1, SolutionExists
  <1>4. ASSUME NEW i \in 1..n PROVE f[i] = AddEdge(f[i - 1], edges[i])
    <2>1. i - 1 \in 0..n /\ f[i - 1] \in V
      BY <1>0
    <2> QED
      BY <1>1, <1>3, <2>1
  <1>5. f = [i \in 0..n |-> MergeStep(edges, f, i)]
    <2>1. \A i \in 0..n : f[i] = MergeStep(edges, f, i)
      BY <1>0, <1>3, <1>4 DEF MergeStep
    <2> QED
      BY <2>1
  <1> DEFINE h == CHOOSE h : h = [i \in 0..n |-> MergeStep(edges, h, i)]
  <1>6. h = [i \in 0..n |-> MergeStep(edges, h, i)]
    BY <1>5
  <1>7. MergeEdges(edges) = h[n]
    BY MergeUnfold DEF n
  <1> HIDE DEF h
  <1> DEFINE B == {j \in 0..n : h[j] = f[j]}
  <1>8. 0 \in B
    BY <1>0, <1>3, <1>6 DEF MergeStep
  <1>9. ASSUME NEW i \in 1..n, i - 1 \in B PROVE i \in B
    <2>1. i \in 0..n /\ i # 0 /\ h[i - 1] = f[i - 1]
      BY <1>0, <1>9
    <2>2. h[i] = MergeStep(edges, h, i)
      BY <1>6, <2>1
    <2>3. h[i] = AddEdge(f[i - 1], edges[i])
      BY <2>1, <2>2, Zenon DEF MergeStep
    <2> QED
      BY <1>4, <2>1, <2>3
  <1> HIDE DEF B
  <1>10. n \in B
    <2>1. n \in Nat /\ n \in 0..n
      BY <1>0
    <2>2. \A i \in 1..n : i - 1 \in B => i \in B
      BY <1>9
    <2> QED
      BY <1>8, <2>1, <2>2, Onward
  <1> QED
    BY <1>3, <1>4, <1>7, <1>10 DEF B, V, n, MergeRun

\* What is known of the merged edges after the first n
MergeInv(edges, n, M) ==
  /\ \A i, j \in 1..Len(M) : SamePair(M[i], M[j]) => i = j
  /\ \A j \in 1..n : \E i \in 1..Len(M) : SamePair(M[i], edges[j])
  /\ \A i \in 1..Len(M) :
        /\ \E j \in 1..n : SamePair(edges[j], M[i])
        /\ Dates(DatesOfPair(edges, n, M[i]))
        /\ Tells(M[i], DatesOfPair(edges, n, M[i]), HostsPair(edges, n, M[i]))

\* The next edge adds to what is said of its own pair only
LEMMA PairGrows ==
  ASSUME NEW edges, NEW n \in Nat \ {0}, NEW m
  PROVE  /\ ~ SamePair(edges[n], m) =>
              /\ DatesOfPair(edges, n, m) = DatesOfPair(edges, n - 1, m)
              /\ HostsPair(edges, n, m) = HostsPair(edges, n - 1, m)
         /\ SamePair(edges[n], m) =>
              /\ DatesOfPair(edges, n, m) = DatesOfPair(edges, n - 1, m) \cup ({edges[n].date} \ {NoDate})
              /\ HostsPair(edges, n, m) = (HostsPair(edges, n - 1, m) \/ edges[n].kind = "host")
  <1>1. 1..n = (1..(n - 1)) \cup {n}
    OBVIOUS
  <1> QED
    BY <1>1 DEF DatesOfPair, HostsPair

\* What is said of a pair does not depend on the edge that names it
LEMMA PairOnly ==
  ASSUME NEW edges, NEW n, NEW m, NEW k, SamePair(m, k)
  PROVE  /\ DatesOfPair(edges, n, m) = DatesOfPair(edges, n, k)
         /\ HostsPair(edges, n, m) = HostsPair(edges, n, k)
         /\ \A e : SamePair(e, m) <=> SamePair(e, k)
         /\ \A e : SamePair(m, e) <=> SamePair(k, e)
         /\ SamePair(k, m)
  <1>1. \A e : SamePair(e, m) <=> SamePair(e, k)
    BY DEF SamePair
  <1> QED
    BY <1>1 DEF SamePair, DatesOfPair, HostsPair

\* Adding the next edge keeps what is known of the merged edges
LEMMA MergeInvNext ==
  ASSUME NEW nodes, NEW edges \in Seq(EdgesOf(nodes)), \A i \in 1..Len(edges) : Plain(edges[i]),
         NEW n \in 1..Len(edges), NEW M \in Seq(EdgesOf(nodes)), MergeInv(edges, n - 1, M)
  PROVE  MergeInv(edges, n, AddEdge(M, edges[n]))
  <1> DEFINE e == edges[n]
             N == AddEdge(M, e)
  <1>0. /\ e \in EdgesOf(nodes) /\ Plain(e) /\ SamePair(e, e)
        /\ n \in Nat \ {0} /\ n - 1 \in Nat /\ 1..n = (1..(n - 1)) \cup {n}
        /\ \A i \in 1..Len(M) : M[i] \in EdgesOf(nodes)
    BY DEF SamePair
  <1>1. /\ \A i, j \in 1..Len(M) : SamePair(M[i], M[j]) => i = j
        /\ \A j \in 1..(n - 1) : \E i \in 1..Len(M) : SamePair(M[i], edges[j])
        /\ \A i \in 1..Len(M) :
              /\ \E j \in 1..(n - 1) : SamePair(edges[j], M[i])
              /\ Dates(DatesOfPair(edges, n - 1, M[i]))
              /\ Tells(M[i], DatesOfPair(edges, n - 1, M[i]), HostsPair(edges, n - 1, M[i]))
    BY DEF MergeInv
  <1>2. \A m : ~ SamePair(e, m) => /\ DatesOfPair(edges, n, m) = DatesOfPair(edges, n - 1, m)
                                   /\ HostsPair(edges, n, m) = HostsPair(edges, n - 1, m)
    BY <1>0, PairGrows
  <1>3. \A m : SamePair(e, m) =>
            /\ DatesOfPair(edges, n, m) = DatesOfPair(edges, n - 1, m) \cup ({e.date} \ {NoDate})
            /\ HostsPair(edges, n, m) = (HostsPair(edges, n - 1, m) \/ e.kind = "host")
    BY <1>0, PairGrows
  <1>4. CASE \E i \in 1..Len(M) : SamePair(M[i], e)
    <2>1. N = [i \in 1..Len(M) |-> IF SamePair(M[i], e) THEN Merged(M[i], e) ELSE M[i]]
      BY <1>4 DEF AddEdge
    <2>2. Len(N) = Len(M) /\ \A i \in 1..Len(M) : N[i] = IF SamePair(M[i], e) THEN Merged(M[i], e) ELSE M[i]
      BY <2>1
    <2> HIDE DEF N, e
    <2>3. \A i \in 1..Len(M) : N[i].left = M[i].left /\ N[i].right = M[i].right
      BY <1>0, <2>2, MergedIsEdge
    <2>4. \A i \in 1..Len(M) : SamePair(N[i], M[i]) /\ SamePair(M[i], N[i])
      BY <2>3 DEF SamePair
    <2>5. \A i, j \in 1..Len(N) : SamePair(N[i], N[j]) => i = j
      BY <1>1, <2>2, <2>3 DEF SamePair
    <2>6. \A j \in 1..n : \E i \in 1..Len(N) : SamePair(N[i], edges[j])
      <3>1. \A j \in 1..n : \E i \in 1..Len(M) : SamePair(M[i], edges[j])
        BY <1>0, <1>1, <1>4 DEF e
      <3> QED
        BY <2>2, <2>3, <3>1 DEF SamePair
    <2>7. ASSUME NEW i \in 1..Len(N)
          PROVE  /\ \E j \in 1..n : SamePair(edges[j], N[i])
                 /\ Dates(DatesOfPair(edges, n, N[i]))
                 /\ Tells(N[i], DatesOfPair(edges, n, N[i]), HostsPair(edges, n, N[i]))
      <3>0. i \in 1..Len(M) /\ M[i] \in EdgesOf(nodes)
        BY <1>0, <2>2
      <3>1. \E j \in 1..n : SamePair(edges[j], N[i])
        BY <1>0, <1>1, <2>4, <3>0, PairOnly
      <3>2. /\ DatesOfPair(edges, n, N[i]) = DatesOfPair(edges, n, M[i])
            /\ HostsPair(edges, n, N[i]) = HostsPair(edges, n, M[i])
        BY <2>4, <3>0, PairOnly
      <3>3. CASE SamePair(M[i], e)
        <4>1. N[i] = Merged(M[i], e) /\ SamePair(e, M[i])
          BY <2>2, <3>0, <3>3 DEF SamePair
        <4>2. HostsPair(edges, n - 1, M[i]) \in BOOLEAN
          BY DEF HostsPair
        <4> DEFINE D == DatesOfPair(edges, n - 1, M[i])   D2 == DatesOfPair(edges, n, M[i])
                   h == HostsPair(edges, n - 1, M[i])     h2 == HostsPair(edges, n, M[i])
        <4>3. D2 = D \cup ({e.date} \ {NoDate}) /\ h2 = (h \/ e.kind = "host")
          BY <1>3, <4>1
        <4>4. Dates(D) /\ Tells(M[i], D, h)
          BY <1>1, <3>0
        <4>5. h \in BOOLEAN
          BY <4>2
        <4> HIDE DEF D, D2, h, h2
        <4>6. Tells(Merged(M[i], e), D2, h2) /\ Dates(D2)
          BY <1>0, <3>0, <4>3, <4>4, <4>5, MergedTells
        <4> QED
          BY <3>1, <3>2, <4>1, <4>6 DEF D2, h2
      <3>4. CASE ~ SamePair(M[i], e)
        <4>1. N[i] = M[i] /\ ~ SamePair(e, M[i])
          BY <2>2, <3>0, <3>4 DEF SamePair
        <4> QED
          BY <1>1, <1>2, <3>0, <3>1, <4>1
      <3> QED
        BY <3>3, <3>4
    <2> QED
      BY <2>5, <2>6, <2>7 DEF MergeInv, N, e
  <1>5. CASE ~ \E i \in 1..Len(M) : SamePair(M[i], e)
    <2>1. N = Append(M, e)
      BY <1>5 DEF AddEdge
    <2>2. /\ Len(N) = Len(M) + 1 /\ N[Len(N)] = e /\ Len(M) \in Nat
          /\ \A i \in 1..Len(M) : N[i] = M[i]
          /\ 1..Len(N) = (1..Len(M)) \cup {Len(N)}
      BY <2>1
    <2>3. \A m : SamePair(m, e) <=> SamePair(e, m)
      BY DEF SamePair
    <2> HIDE DEF N, e
    <2>4. \A i, j \in 1..Len(N) : SamePair(N[i], N[j]) => i = j
      BY <1>1, <1>5, <2>2, <2>3
    <2>5. \A j \in 1..n : \E i \in 1..Len(N) : SamePair(N[i], edges[j])
      <3> TAKE j \in 1..n
      <3>1. CASE j = n
        BY <1>0, <2>2, <3>1 DEF e
      <3>2. CASE j # n
        <4>1. PICK i \in 1..Len(M) : SamePair(M[i], edges[j])
          BY <1>0, <1>1, <3>2
        <4> QED
          BY <2>2, <4>1
      <3> QED
        BY <3>1, <3>2
    <2>6. \A j \in 1..(n - 1) : ~ SamePair(edges[j], e)
      <3> SUFFICES ASSUME NEW j \in 1..(n - 1), SamePair(edges[j], e) PROVE FALSE
        OBVIOUS
      <3>1. PICK i \in 1..Len(M) : SamePair(M[i], edges[j])
        BY <1>1
      <3>2. SamePair(M[i], e)
        BY <3>1, PairOnly
      <3> QED
        BY <1>5, <3>2
    <2>7. ASSUME NEW i \in 1..Len(N)
          PROVE  /\ \E j \in 1..n : SamePair(edges[j], N[i])
                 /\ Dates(DatesOfPair(edges, n, N[i]))
                 /\ Tells(N[i], DatesOfPair(edges, n, N[i]), HostsPair(edges, n, N[i]))
      <3>1. CASE i \in 1..Len(M)
        BY <1>0, <1>1, <1>2, <1>5, <2>2, <2>3, <3>1
      <3>2. CASE i = Len(N)
        <4>1. DatesOfPair(edges, n - 1, e) = {} /\ ~ HostsPair(edges, n - 1, e)
          BY <2>6 DEF DatesOfPair, HostsPair
        <4>2. /\ DatesOfPair(edges, n, e) = {e.date} \ {NoDate}
              /\ HostsPair(edges, n, e) = (e.kind = "host")
          BY <1>0, <1>3, <4>1
        <4> QED
          BY <1>0, <2>2, <3>2, <4>2, PlainTells DEF e
      <3> QED
        BY <2>2, <3>1, <3>2
    <2> QED
      BY <2>4, <2>5, <2>7 DEF MergeInv, N, e
  <1> QED
    BY <1>4, <1>5

\* It is known of all the merged edges at the end
LEMMA MergeEdgesInv ==
  ASSUME NEW nodes, NEW edges \in Seq(EdgesOf(nodes)), \A i \in 1..Len(edges) : Plain(edges[i])
  PROVE  MergeEdges(edges) \in Seq(EdgesOf(nodes)) /\ MergeInv(edges, Len(edges), MergeEdges(edges))
  <1>0. PICK f \in [0..Len(edges) -> Seq(EdgesOf(nodes))] : MergeRun(edges, f)
    BY MergeSteps
  <1>1. /\ f[0] = <<>> /\ MergeEdges(edges) = f[Len(edges)]
        /\ \A n \in 1..Len(edges) : f[n] = AddEdge(f[n - 1], edges[n])
    BY <1>0 DEF MergeRun
  <1>2. Len(edges) \in Nat /\ Len(edges) \in 0..Len(edges)
    OBVIOUS
  <1> DEFINE B == {n \in 0..Len(edges) : MergeInv(edges, n, f[n])}
  <1>3. 0 \in B
    BY <1>1, <1>2 DEF MergeInv
  <1>4. ASSUME NEW n \in 1..Len(edges), n - 1 \in B PROVE n \in B
    <2>1. n - 1 \in 0..Len(edges) /\ f[n - 1] \in Seq(EdgesOf(nodes)) /\ MergeInv(edges, n - 1, f[n - 1])
      BY <1>4
    <2>2. MergeInv(edges, n, AddEdge(f[n - 1], edges[n]))
      BY <2>1, MergeInvNext
    <2> QED
      BY <1>1, <2>2
  <1> HIDE DEF B
  <1>5. Len(edges) \in B
    BY <1>2, <1>3, <1>4, Onward
  <1> QED
    BY <1>1, <1>2, <1>5 DEF B

-----------------------------------------------------------------------------
(* The graph against the rows *)

RowsOf(edges) == {[person |-> edges[i].left, podcast |-> edges[i].right, date |-> edges[i].date,
                   role |-> edges[i].kind] : i \in 1..Len(edges)}

Ends(e) == {e.left, e.right}

\* The merged edges of a graph hold the rows: one edge per pair that is together
Holds(edges, rows) ==
  /\ \A i, j \in 1..Len(edges) : Ends(edges[i]) = Ends(edges[j]) => i = j
  /\ \A a, b : Together(rows, a, b) # {} => \E i \in 1..Len(edges) : Ends(edges[i]) = {a, b}
  /\ \A i \in 1..Len(edges) : \A a, b : Ends(edges[i]) = {a, b} =>
        LET both == Together(rows, a, b)
        IN  both # {} /\ Dates(DatesOf(both)) /\ Tells(edges[i], DatesOf(both), Hosts(both))

\* The merged edges hold the rows that the edges were made of, whatever their
\* order: one edge per pair that is together, and of the pair its dates and whether
\* there is a host (merge_edges)
THEOREM MergedHoldRows ==
  ASSUME NEW nodes, NEW edges \in Seq(EdgesOf(nodes)), \A i \in 1..Len(edges) : Plain(edges[i])
  PROVE  Holds(MergeEdges(edges), RowsOf(edges))
  <1> DEFINE M == MergeEdges(edges)
             rows == RowsOf(edges)
             n == Len(edges)
  <1>1. MergeInv(edges, n, M) /\ M \in Seq(EdgesOf(nodes))
    BY MergeEdgesInv
  <1> DEFINE at(i) == [person |-> edges[i].left, podcast |-> edges[i].right, date |-> edges[i].date,
                       role |-> edges[i].kind]
  <1>2. \A i \in 1..n : at(i) \in rows
    BY DEF RowsOf
  <1>3. \A r \in rows : \E i \in 1..n : r = at(i)
    BY DEF RowsOf
  <1>4. \A i : /\ at(i).person = edges[i].left /\ at(i).podcast = edges[i].right
               /\ at(i).date = edges[i].date /\ at(i).role = edges[i].kind
    OBVIOUS
  <1> HIDE DEF at, rows, n, M
  <1>5. ASSUME NEW a, NEW b
        PROVE  /\ \A i \in 1..n : Ends(edges[i]) = {a, b} => at(i) \in Together(rows, a, b)
               /\ \A r \in Together(rows, a, b) : \E i \in 1..n : r = at(i) /\ Ends(edges[i]) = {a, b}
    <2>1. ASSUME NEW i \in 1..n, Ends(edges[i]) = {a, b} PROVE at(i) \in Together(rows, a, b)
      <3>1. {at(i).person, at(i).podcast} = {a, b}
        BY <1>4, <2>1 DEF Ends
      <3> QED
        BY <1>2, <3>1 DEF Together
    <2>2. ASSUME NEW r \in Together(rows, a, b)
          PROVE  \E i \in 1..n : r = at(i) /\ Ends(edges[i]) = {a, b}
      <3>1. r \in rows /\ {r.person, r.podcast} = {a, b}
        BY DEF Together
      <3>2. PICK i \in 1..n : r = at(i)
        BY <1>3, <3>1
      <3>3. Ends(edges[i]) = {a, b}
        BY <1>4, <3>1, <3>2 DEF Ends
      <3> QED
        BY <3>2, <3>3
    <2> QED
      BY <2>1, <2>2
  <1>6. \A e, f : SamePair(e, f) <=> Ends(e) = Ends(f)
    BY DEF SamePair, Ends
  <1>7. ASSUME NEW a, NEW b, NEW m, Ends(m) = {a, b}
        PROVE  /\ DatesOf(Together(rows, a, b)) = DatesOfPair(edges, n, m)
               /\ Hosts(Together(rows, a, b)) = HostsPair(edges, n, m)
    <2>1. \A i \in 1..n : SamePair(edges[i], m) <=> Ends(edges[i]) = {a, b}
      BY <1>6, <1>7
    <2>2. DatesOf(Together(rows, a, b)) \subseteq DatesOfPair(edges, n, m)
      <3> SUFFICES ASSUME NEW r \in Together(rows, a, b), r.date # NoDate
                   PROVE  r.date \in DatesOfPair(edges, n, m)
        BY DEF DatesOf
      <3>1. PICK i \in 1..n : r = at(i) /\ Ends(edges[i]) = {a, b}
        BY <1>5
      <3>2. r.date = edges[i].date /\ SamePair(edges[i], m)
        BY <1>4, <2>1, <3>1
      <3> QED
        BY <3>2 DEF DatesOfPair
    <2>3. DatesOfPair(edges, n, m) \subseteq DatesOf(Together(rows, a, b))
      <3> SUFFICES ASSUME NEW i \in 1..n, SamePair(edges[i], m), edges[i].date # NoDate
                   PROVE  edges[i].date \in DatesOf(Together(rows, a, b))
        BY DEF DatesOfPair
      <3>1. at(i) \in Together(rows, a, b) /\ at(i).date = edges[i].date
        BY <1>4, <1>5, <2>1
      <3> QED
        BY <3>1 DEF DatesOf
    <2>4. Hosts(Together(rows, a, b)) = HostsPair(edges, n, m)
      <3>1. ASSUME Hosts(Together(rows, a, b)) PROVE HostsPair(edges, n, m)
        <4>1. PICK r \in Together(rows, a, b) : r.role = "host"
          BY <3>1 DEF Hosts
        <4>2. PICK i \in 1..n : r = at(i) /\ Ends(edges[i]) = {a, b}
          BY <1>5
        <4>3. edges[i].kind = "host" /\ SamePair(edges[i], m)
          BY <1>4, <2>1, <4>1, <4>2
        <4> QED
          BY <4>3 DEF HostsPair
      <3>2. ASSUME HostsPair(edges, n, m) PROVE Hosts(Together(rows, a, b))
        <4>1. PICK i \in 1..n : SamePair(edges[i], m) /\ edges[i].kind = "host"
          BY <3>2 DEF HostsPair
        <4>2. at(i) \in Together(rows, a, b) /\ at(i).role = "host"
          BY <1>4, <1>5, <2>1, <4>1
        <4> QED
          BY <4>2 DEF Hosts
      <3> QED
        BY <3>1, <3>2 DEF Hosts, HostsPair
    <2> QED
      BY <2>2, <2>3, <2>4
  <1>8. \A i, j \in 1..Len(M) : Ends(M[i]) = Ends(M[j]) => i = j
    BY <1>1, <1>6 DEF MergeInv
  <1>9. ASSUME NEW a, NEW b, Together(rows, a, b) # {}
        PROVE  \E i \in 1..Len(M) : Ends(M[i]) = {a, b}
    <2>1. PICK j \in 1..n : Ends(edges[j]) = {a, b}
      BY <1>5, <1>9
    <2>2. PICK i \in 1..Len(M) : SamePair(M[i], edges[j])
      BY <1>1 DEF MergeInv
    <2> QED
      BY <1>6, <2>1, <2>2
  <1>10. ASSUME NEW i \in 1..Len(M), NEW a, NEW b, Ends(M[i]) = {a, b}
         PROVE  /\ Together(rows, a, b) # {} /\ Dates(DatesOf(Together(rows, a, b)))
                /\ Tells(M[i], DatesOf(Together(rows, a, b)), Hosts(Together(rows, a, b)))
    <2>1. PICK j \in 1..n : SamePair(edges[j], M[i])
      BY <1>1 DEF MergeInv
    <2>2. Together(rows, a, b) # {}
      BY <1>5, <1>6, <1>10, <2>1
    <2>3. /\ Dates(DatesOfPair(edges, n, M[i]))
          /\ Tells(M[i], DatesOfPair(edges, n, M[i]), HostsPair(edges, n, M[i]))
      BY <1>1 DEF MergeInv
    <2> QED
      BY <1>7, <1>10, <2>2, <2>3
  <1> QED
    BY <1>8, <1>9, <1>10, Zenon DEF Holds, M, rows

-----------------------------------------------------------------------------
(* Windows and neighbours *)

Windows == [start : Nat, end : Nat]

\* Who is one hop from a name does not depend on the side it is looked at from
LEMMA HopsBothWays ==
  ASSUME NEW rows, NEW a, NEW b, NEW w
  PROVE  /\ Together(rows, a, b) = Together(rows, b, a)
         /\ OneHop(rows, a, b, w) <=> OneHop(rows, b, a, w)
  <1>1. Together(rows, a, b) = Together(rows, b, a)
    BY DEF Together
  <1> QED
    BY <1>1 DEF OneHop

\* An edge of the graph is in a window when its rows say so, and shows their date
LEMMA EdgeIsHop ==
  ASSUME NEW rows, NEW edges, Holds(edges, rows), NEW i \in 1..Len(edges), NEW a, NEW b,
         Ends(edges[i]) = {a, b}, NEW w \in Windows
  PROVE  /\ EdgeMatchesWindow(edges[i], w) <=> OneHop(rows, a, b, w)
         /\ edges[i].kind = "host" <=> Hosts(Together(rows, a, b))
         /\ EdgeDateForWindow(edges[i], w) =
              IF Hosts(Together(rows, a, b)) THEN NoDate
              ELSE LatestOf(MatchingDates(DatesOf(Together(rows, a, b)), w))
  <1> DEFINE both == Together(rows, a, b)
             D == DatesOf(both)
             h == Hosts(both)
             e == edges[i]
  <1>1. both # {} /\ Dates(D) /\ Tells(e, D, h)
    BY DEF Holds
  <1>2. OneHop(rows, a, b, w) <=>
          \/ w = NoWindow
          \/ ~ h /\ MatchingDates(D, w) # {}
          \/ h /\ D # {} /\ DateRangesOverlap(LeastOf(D), LatestOf(D), w)
    BY <1>1 DEF OneHop
  <1> HIDE DEF both, D, h, e
  <1>3. e.kind = "host" <=> h
    BY <1>1 DEF Tells
  <1>4. CASE ~ h
    <2>1. EventDates(e) = D /\ e.kind = "guest"
      BY <1>1, <1>4 DEF Tells
    <2> QED
      BY <1>2, <1>3, <1>4, <2>1 DEF EdgeMatchesWindow, EdgeDateForWindow, both, D, h, e
  <1>5. CASE h
    <2> DEFINE start == IF e.activeStart # NoDate THEN e.activeStart ELSE LeastOf(EventDates(e))
               end == IF e.activeEnd # NoDate THEN e.activeEnd ELSE LatestOf(EventDates(e))
    <2>1. start = LeastOf(D) /\ end = LatestOf(D)
      <3>1. CASE EventDates(e) = D /\ e.activeStart = NoDate /\ e.activeEnd = NoDate
        BY <3>1
      <3>2. CASE /\ EventDates(e) = {}
                 /\ e.activeStart = LeastOf(D) /\ e.activeEnd = LatestOf(D)
        BY <3>2, NoneOfNone
      <3> QED
        BY <1>1, <3>1, <3>2 DEF Tells
    <2>2. LeastOf(D) # NoDate <=> D # {}
      BY <1>1, NoneOfNone, LeastOfIs DEF Dates
    <2>3. EdgeMatchesWindow(e, w) <=> w = NoWindow \/ (start # NoDate /\ DateRangesOverlap(start, end, w))
      BY <1>3, <1>5 DEF EdgeMatchesWindow
    <2>4. EdgeDateForWindow(e, w) = NoDate
      BY <1>3, <1>5 DEF EdgeDateForWindow
    <2> HIDE DEF start, end
    <2> QED
      BY <1>2, <1>3, <1>5, <2>1, <2>2, <2>3, <2>4 DEF both, D, h, e
  <1> QED
    BY <1>4, <1>5

\* The ends of an edge at a node are the node and the other end
LEMMA OtherEndIs ==
  ASSUME NEW e, NEW node, Joins(e, node)
  PROVE  Ends(e) = {node, OtherEnd(e, node)}
  BY DEF Joins, Ends, OtherEnd

\* The edges a node has inside a window, and where some edges lead from it
EdgesAt(edges, node, w) == {e \in ToSet(edges) : Joins(e, node) /\ EdgeMatchesWindow(e, w)}
Across(order, node) == [i \in 1..Len(order) |-> OtherEnd(order[i], node)]
HopsFrom(rows, nodes, node, w) == {b \in nodes : OneHop(rows, node, b, w)}

\* They lead to the nodes one hop apart, in whatever order they are
Crosses(rows, nodes, w, node, order, near) ==
  /\ near \in Seq(nodes) /\ Len(near) = Len(order)
  /\ Distinct(near)
  /\ ToSet(near) = HopsFrom(rows, nodes, node, w)
  /\ \A b : OneHop(rows, node, b, w) => b \in nodes
  /\ \A i \in 1..Len(near) : order[i].kind = "host" <=> Hosts(Together(rows, node, near[i]))

\* The edges at a node, in whatever order, lead to the nodes one hop from it
LEMMA NeighboursOfEdges ==
  ASSUME NEW nodes, NEW rows, NEW edges \in Seq(EdgesOf(nodes)), Holds(edges, rows),
         NEW w \in Windows, NEW node, NEW order \in Seq(EdgesOf(nodes)), Distinct(order),
         ToSet(order) = EdgesAt(edges, node, w)
  PROVE  Crosses(rows, nodes, w, node, order, Across(order, node))
  <1> DEFINE near == Across(order, node)
  <1>0. near = [i \in 1..Len(order) |-> OtherEnd(order[i], node)]
    BY DEF Across
  <1> HIDE DEF near
  <1>1. /\ Len(order) \in Nat /\ Len(edges) \in Nat
        /\ DOMAIN order = 1..Len(order) /\ DOMAIN edges = 1..Len(edges)
        /\ \A i \in 1..Len(order) : order[i] \in EdgesOf(nodes)
    OBVIOUS
  <1>2. ASSUME NEW i \in 1..Len(order)
        PROVE  /\ Joins(order[i], node) /\ EdgeMatchesWindow(order[i], w)
               /\ \E k \in 1..Len(edges) : order[i] = edges[k]
    <2>1. order[i] \in ToSet(order)
      BY <1>1 DEF ToSet
    <2>2. /\ order[i] \in ToSet(edges) /\ Joins(order[i], node) /\ EdgeMatchesWindow(order[i], w)
      BY <2>1 DEF EdgesAt
    <2> QED
      BY <1>1, <2>2 DEF ToSet
  <1>3. ASSUME NEW k \in 1..Len(edges), Joins(edges[k], node), EdgeMatchesWindow(edges[k], w)
        PROVE  \E i \in 1..Len(order) : order[i] = edges[k]
    <2>1. edges[k] \in ToSet(edges)
      BY <1>1 DEF ToSet
    <2>2. edges[k] \in ToSet(order)
      BY <1>3, <2>1 DEF EdgesAt
    <2> QED
      BY <1>1, <2>2 DEF ToSet
  <1>4. ASSUME NEW i \in 1..Len(order)
        PROVE  OtherEnd(order[i], node) \in nodes /\ Ends(order[i]) = {node, OtherEnd(order[i], node)}
    BY <1>1, <1>2, OtherEndIs DEF OtherEnd, EdgesOf
  <1>5. near \in Seq(nodes) /\ Len(near) = Len(order)
    BY <1>0, <1>1, <1>4
  <1>6. \A i \in 1..Len(order) : near[i] = OtherEnd(order[i], node) /\ Ends(order[i]) = {node, near[i]}
    BY <1>0, <1>4
  <1>7. Distinct(near)
    <2> SUFFICES ASSUME NEW i \in 1..Len(order), NEW j \in 1..Len(order), near[i] = near[j]
                 PROVE  i = j
      BY <1>5 DEF Distinct
    <2>1. PICK k \in 1..Len(edges) : order[i] = edges[k]
      BY <1>2
    <2>2. PICK l \in 1..Len(edges) : order[j] = edges[l]
      BY <1>2
    <2>3. Ends(edges[k]) = Ends(edges[l])
      BY <1>6, <2>1, <2>2
    <2>4. k = l
      BY <2>3 DEF Holds
    <2> QED
      BY <2>1, <2>2, <2>4 DEF Distinct
  <1>8. ASSUME NEW i \in 1..Len(order)
        PROVE  /\ OneHop(rows, node, near[i], w)
               /\ order[i].kind = "host" <=> Hosts(Together(rows, node, near[i]))
    <2>1. PICK k \in 1..Len(edges) : order[i] = edges[k]
      BY <1>2
    <2>2. Ends(edges[k]) = {node, near[i]} /\ EdgeMatchesWindow(edges[k], w)
      BY <1>2, <1>6, <2>1
    <2>3. \A b : Ends(edges[k]) = {node, b} =>
             /\ EdgeMatchesWindow(edges[k], w) <=> OneHop(rows, node, b, w)
             /\ edges[k].kind = "host" <=> Hosts(Together(rows, node, b))
      BY EdgeIsHop
    <2> QED
      BY <2>1, <2>2, <2>3, Zenon
  <1>9. ASSUME NEW b, OneHop(rows, node, b, w)
        PROVE  \E i \in 1..Len(order) : near[i] = b
    <2>1. PICK k \in 1..Len(edges) : Ends(edges[k]) = {node, b}
      BY <1>9 DEF OneHop, Holds
    <2>2. EdgeMatchesWindow(edges[k], w)
      BY <1>9, <2>1, EdgeIsHop
    <2>3. Joins(edges[k], node)
      BY <2>1 DEF Ends, Joins
    <2>4. PICK i \in 1..Len(order) : order[i] = edges[k]
      BY <1>3, <2>2, <2>3
    <2>5. {node, near[i]} = {node, b}
      BY <1>6, <2>1, <2>4
    <2>6. near[i] \in {node, b} /\ b \in {node, near[i]}
      BY <2>5
    <2> QED
      BY <2>6
  <1>10. \A b : OneHop(rows, node, b, w) => b \in nodes
    BY <1>4, <1>6, <1>9
  <1>11. ToSet(near) = HopsFrom(rows, nodes, node, w)
    <2>1. \A b : b \in ToSet(near) <=> \E i \in 1..Len(order) : near[i] = b
      BY <1>1, <1>5 DEF ToSet
    <2>2. \A i \in 1..Len(order) : near[i] \in nodes
      BY <1>4, <1>6
    <2> QED
      BY <1>8, <1>9, <2>1, <2>2 DEF HopsFrom
  <1> QED
    BY <1>5, <1>7, <1>8, <1>10, <1>11 DEF Crosses, near

\* The neighbours of a node inside a window, each once; from the source the
\* podcasts it hosts come first
NearIs(rows, nodes, w, node, first, near) ==
  /\ near \in Seq(nodes) /\ Distinct(near)
  /\ ToSet(near) = HopsFrom(rows, nodes, node, w)
  /\ first => \A i, j \in 1..Len(near) :
                 i < j /\ Hosts(Together(rows, node, near[j])) => Hosts(Together(rows, node, near[i]))

\* So do the neighbours that the search is given (ordered_neighbors)
LEMMA NeighboursAreHops ==
  ASSUME NEW nodes, NEW rows, NEW graph, graph.edges \in Seq(EdgesOf(nodes)), Holds(graph.edges, rows),
         NEW w \in Windows, NEW node, NEW isSource \in BOOLEAN
  PROVE  /\ NearIs(rows, nodes, w, node, isSource /\ node \in graph.names,
                   OrderedNeighbors(graph, node, isSource, w))
         /\ \A b : OneHop(rows, node, b, w) => b \in nodes
  <1> DEFINE edges == graph.edges
             E == EdgesOf(nodes)
             T == EdgesAt(edges, node, w)
             near == Filtered(edges, T)
             hosts == Filtered(near, {e \in ToSet(near) : e.kind = "host"})
             rest == Filtered(near, {e \in ToSet(near) : e.kind # "host"})
             order == IF isSource /\ node \in graph.names THEN hosts \o rest ELSE near
             result == OrderedNeighbors(graph, node, isSource, w)
  <1>1. result = [i \in 1..Len(order) |-> OtherEnd(order[i], node)]
    BY DEF OrderedNeighbors, EdgesAt
  <1>2. Distinct(edges)
    BY DEF Distinct, Holds
  <1>3. near \in Seq(E) /\ Distinct(near) /\ ToSet(near) = ToSet(edges) \cap T
    BY <1>2, FilteredHas
  <1>4. ToSet(near) = T
    BY <1>3 DEF EdgesAt
  <1> HIDE DEF near, T, E
  <1>5. /\ hosts \in Seq(E) /\ Distinct(hosts)
        /\ ToSet(hosts) = ToSet(near) \cap {e \in ToSet(near) : e.kind = "host"}
    BY <1>3, FilteredHas
  <1>6. /\ rest \in Seq(E) /\ Distinct(rest)
        /\ ToSet(rest) = ToSet(near) \cap {e \in ToSet(near) : e.kind # "host"}
    BY <1>3, FilteredHas
  <1> HIDE DEF hosts, rest, result
  <1>7. /\ \A e : (\E i \in 1..Len(hosts) : hosts[i] = e) <=> e \in T /\ e.kind = "host"
        /\ \A e : (\E i \in 1..Len(rest) : rest[i] = e) <=> e \in T /\ e.kind # "host"
    <2>1. DOMAIN hosts = 1..Len(hosts) /\ DOMAIN rest = 1..Len(rest)
      BY <1>5, <1>6
    <2>2. /\ \A e : e \in ToSet(hosts) <=> \E i \in 1..Len(hosts) : hosts[i] = e
          /\ \A e : e \in ToSet(rest) <=> \E i \in 1..Len(rest) : rest[i] = e
      BY <2>1 DEF ToSet
    <2>3. /\ \A e : e \in ToSet(hosts) <=> e \in T /\ e.kind = "host"
          /\ \A e : e \in ToSet(rest) <=> e \in T /\ e.kind # "host"
      BY <1>4, <1>5, <1>6
    <2> QED
      BY <2>2, <2>3
  <1> DEFINE both == hosts \o rest
  <1>8. /\ both \in Seq(E) /\ Len(both) = Len(hosts) + Len(rest)
        /\ Len(hosts) \in Nat /\ Len(rest) \in Nat
        /\ \A i \in 1..Len(hosts) : both[i] = hosts[i]
        /\ \A i \in 1..Len(rest) : both[Len(hosts) + i] = rest[i]
        /\ \A i \in 1..Len(both) : i > Len(hosts) =>
              i - Len(hosts) \in 1..Len(rest) /\ both[i] = rest[i - Len(hosts)]
    BY <1>5, <1>6
  <1> HIDE DEF both
  <1>9. \A i \in 1..Len(both) : both[i].kind = "host" <=> i <= Len(hosts)
    <2> TAKE i \in 1..Len(both)
    <2>1. CASE i <= Len(hosts)
      <3>1. i \in 1..Len(hosts) /\ both[i] = hosts[i]
        BY <1>8, <2>1
      <3> QED
        BY <1>7, <2>1, <3>1
    <2>2. CASE i > Len(hosts)
      <3>1. i - Len(hosts) \in 1..Len(rest) /\ both[i] = rest[i - Len(hosts)]
        BY <1>8, <2>2
      <3> QED
        BY <1>7, <1>8, <2>2, <3>1
    <2> QED
      BY <1>8, <2>1, <2>2
  <1>10. Distinct(both)
    <2> SUFFICES ASSUME NEW i \in 1..Len(both), NEW j \in 1..Len(both), both[i] = both[j] PROVE i = j
      BY DEF Distinct
    <2>1. i <= Len(hosts) <=> j <= Len(hosts)
      BY <1>9
    <2>2. CASE i <= Len(hosts)
      BY <1>5, <1>8, <2>1, <2>2 DEF Distinct
    <2>3. CASE i > Len(hosts)
      <3>1. /\ i - Len(hosts) \in 1..Len(rest) /\ both[i] = rest[i - Len(hosts)]
            /\ j - Len(hosts) \in 1..Len(rest) /\ both[j] = rest[j - Len(hosts)]
        BY <1>8, <2>1, <2>3
      <3>2. i - Len(hosts) = j - Len(hosts)
        BY <1>6, <3>1 DEF Distinct
      <3> QED
        BY <1>8, <3>2
    <2> QED
      BY <1>8, <2>2, <2>3
  <1>11. ToSet(both) = T
    <2>1. DOMAIN both = 1..Len(both)
      BY <1>8
    <2>2. \A e : e \in ToSet(both) <=> \E i \in 1..Len(both) : both[i] = e
      BY <2>1 DEF ToSet
    <2>3. ASSUME NEW e \in T PROVE \E i \in 1..Len(both) : both[i] = e
      <3>1. CASE e.kind = "host"
        <4>1. PICK i \in 1..Len(hosts) : hosts[i] = e
          BY <1>7, <2>3, <3>1
        <4>2. i \in 1..Len(both) /\ both[i] = e
          BY <1>8, <4>1
        <4> QED
          BY <4>2
      <3>2. CASE e.kind # "host"
        <4>1. PICK i \in 1..Len(rest) : rest[i] = e
          BY <1>7, <2>3, <3>2
        <4>2. Len(hosts) + i \in 1..Len(both) /\ both[Len(hosts) + i] = e
          BY <1>8, <4>1
        <4> QED
          BY <4>2
      <3> QED
        BY <3>1, <3>2
    <2>4. ASSUME NEW i \in 1..Len(both) PROVE both[i] \in T
      <3>1. CASE i <= Len(hosts)
        BY <1>7, <1>8, <3>1
      <3>2. CASE i > Len(hosts)
        BY <1>7, <1>8, <3>2
      <3> QED
        BY <1>8, <3>1, <3>2
    <2> QED
      BY <2>2, <2>3, <2>4
  <1>12. CASE isSource /\ node \in graph.names
    <2>1. order = both
      BY <1>12 DEF both
    <2>2. result = Across(both, node)
      BY <1>1, <2>1 DEF Across
    <2>3. Crosses(rows, nodes, w, node, both, result)
      BY <1>8, <1>10, <1>11, <2>2, NeighboursOfEdges DEF T, E
    <2>4. \A i, j \in 1..Len(result) :
             i < j /\ Hosts(Together(rows, node, result[j])) => Hosts(Together(rows, node, result[i]))
      <3> TAKE i, j \in 1..Len(result)
      <3> HAVE i < j /\ Hosts(Together(rows, node, result[j]))
      <3>1. j <= Len(hosts) /\ j \in 1..Len(both) /\ i \in 1..Len(both)
        BY <1>9, <2>3 DEF Crosses
      <3>2. i <= Len(hosts)
        BY <1>8, <3>1
      <3> QED
        BY <1>9, <2>3, <3>1, <3>2 DEF Crosses
    <2> QED
      BY <1>12, <2>3, <2>4 DEF Crosses, NearIs, result
  <1>13. CASE ~ (isSource /\ node \in graph.names)
    <2>1. order = near
      BY <1>13
    <2>2. result = Across(near, node)
      BY <1>1, <2>1 DEF Across
    <2>3. Crosses(rows, nodes, w, node, near, result)
      BY <1>3, <1>4, <2>2, NeighboursOfEdges DEF T, E
    <2> QED
      BY <1>13, <2>3 DEF Crosses, NearIs, result
  <1> QED
    BY <1>12, <1>13

-----------------------------------------------------------------------------
(* The search.  hop are the pairs one hop apart, led the nodes a path that  *)
(* leaves from a podcast its source hosts goes through first, L[n] the      *)
(* nodes at most n hops from the source, H[n] those of them at the end of   *)
(* such a path.                                                             *)

Levels(nodes, hop, source, K, L) ==
  /\ L \in [0..K -> SUBSET nodes] /\ L[0] = {source}
  /\ \A n \in 1..K : L[n] = L[n - 1] \cup {b \in nodes : \E a \in L[n - 1] : <<a, b>> \in hop}

LedLevels(nodes, hop, led, source, K, H) ==
  /\ H \in [0..K -> SUBSET nodes] /\ H[0] = {}
  /\ \A n \in 1..K : H[n] = H[n - 1] \cup
        {b \in nodes : \/ n = 1 /\ <<source, b>> \in hop /\ b \in led
                       \/ \E a \in H[n - 1] : <<a, b>> \in hop}

\* Whoever is within some hops is within more
LEMMA LevelsGrow ==
  ASSUME NEW nodes, NEW hop, NEW source, NEW K \in Nat, NEW L, Levels(nodes, hop, source, K, L),
         NEW m \in 0..K, NEW n \in 0..K, m <= n
  PROVE  L[m] \subseteq L[n]
  <1> DEFINE B == {i \in 0..K : m <= i => L[m] \subseteq L[i]}
  <1>1. 0 \in B
    OBVIOUS
  <1>2. ASSUME NEW i \in 1..K, i - 1 \in B PROVE i \in B
    <2>1. L[i - 1] \subseteq L[i]
      BY DEF Levels
    <2>2. CASE m <= i - 1
      BY <1>2, <2>1, <2>2
    <2>3. CASE ~ (m <= i - 1)
      <3>1. m <= i => m = i
        BY <2>3
      <3> QED
        BY <3>1
    <2> QED
      BY <2>2, <2>3
  <1> HIDE DEF B
  <1>3. n \in B
    BY <1>1, <1>2, Onward
  <1> QED
    BY <1>3 DEF B

\* A path that is led by a hosted podcast is a path
LEMMA LedIsWithin ==
  ASSUME NEW nodes, NEW hop, NEW led, NEW source, NEW K \in Nat,
         NEW L, Levels(nodes, hop, source, K, L), NEW H, LedLevels(nodes, hop, led, source, K, H),
         NEW n \in 0..K
  PROVE  H[n] \subseteq L[n]
  <1> DEFINE B == {i \in 0..K : H[i] \subseteq L[i]}
  <1>1. 0 \in B
    BY DEF LedLevels
  <1>2. ASSUME NEW i \in 1..K, i - 1 \in B PROVE i \in B
    <2>1. i - 1 \in 0..K /\ H[i - 1] \subseteq L[i - 1]
      BY <1>2
    <2>2. /\ L[0] = {source}
          /\ L[i] = L[i - 1] \cup {b \in nodes : \E a \in L[i - 1] : <<a, b>> \in hop}
          /\ H[i] = H[i - 1] \cup {b \in nodes : \/ i = 1 /\ <<source, b>> \in hop /\ b \in led
                                                \/ \E a \in H[i - 1] : <<a, b>> \in hop}
      BY DEF Levels, LedLevels
    <2>3. i = 1 => source \in L[i - 1]
      BY <2>2
    <2>4. H[i] \subseteq L[i]
      BY <2>1, <2>2, <2>3
    <2> QED
      BY <2>4
  <1> HIDE DEF B
  <1>3. n \in B
    BY <1>1, <1>2, Onward
  <1> QED
    BY <1>3 DEF B

\* A path along the hops
WayFrom(nodes, hop, source, p) ==
  /\ p \in Seq(nodes) /\ Len(p) > 0 /\ p[1] = source
  /\ \A m \in 1..(Len(p) - 1) : <<p[m], p[m + 1]>> \in hop

\* ... that is one of the shortest to its end
Shortest(K, L, p) ==
  /\ Len(p) - 1 \in 0..K
  /\ p[Len(p)] \in L[Len(p) - 1]
  /\ Len(p) > 1 => p[Len(p)] \notin L[Len(p) - 2]

\* ... and leaves from a hosted podcast if one to its end can
WellLed(led, H, p) == Len(p) > 1 /\ p[Len(p)] \in H[Len(p) - 1] => p[2] \in led

RightWay(nodes, hop, led, source, K, L, H, p) ==
  WayFrom(nodes, hop, source, p) /\ Shortest(K, L, p) /\ WellLed(led, H, p)

\* The queue and what was seen, after i rounds without an answer
QueueInOrder(Q) ==
  \A j, k \in 1..Len(Q) : j < k => Len(Q[j]) <= Len(Q[k]) /\ Len(Q[k]) <= Len(Q[j]) + 1

LedFirst(led, Q) ==
  /\ \A j, k \in 1..Len(Q) :
        j < k /\ Len(Q[j]) = Len(Q[k]) /\ Len(Q[j]) > 1 /\ Q[k][2] \in led => Q[j][2] \in led
  /\ \A j, k \in 1..Len(Q) :
        Len(Q[k]) = Len(Q[j]) + 1 /\ Len(Q[j]) > 1 /\ Q[j][2] \in led => Q[k][2] \in led

Closed(nodes, hop, S, Q) ==
  \A a \in S : \/ \E k \in 1..Len(Q) : Q[k][Len(Q[k])] = a
               \/ \A b \in nodes : <<a, b>> \in hop => b \in S

Searched(nodes, hop, led, source, target, K, L, H, i, S, Q) ==
  /\ Q \in Seq(Seq(nodes))
  /\ S \in SUBSET nodes /\ source \in S /\ target \notin S
  /\ \A k \in 1..Len(Q) : /\ RightWay(nodes, hop, led, source, K, L, H, Q[k])
                          /\ Len(Q[k]) <= i + 1
                          /\ Len(Q[k]) = 1 => Len(Q) = 1
  /\ QueueInOrder(Q) /\ LedFirst(led, Q)
  /\ Closed(nodes, hop, S, Q)
  /\ Q # <<>> => L[Len(Q[1]) - 1] \subseteq S /\ Cardinality(S) = i + Len(Q)

\* One hop more, to a node that no path as short as this one reaches
WentOn(nodes, hop, source, K, L, p, b, more) ==
  /\ WayFrom(nodes, hop, source, more) /\ Shortest(K, L, more)
  /\ Len(more) = Len(p) + 1 /\ more[Len(more)] = b
  /\ \A m \in 1..Len(p) : more[m] = p[m]

\* A shortest path, one hop further to a node no path as short reaches, is a shortest one
LEMMA WayGoesOn ==
  ASSUME NEW nodes, NEW hop, NEW source, NEW K \in Nat, NEW L, Levels(nodes, hop, source, K, L),
         NEW p, WayFrom(nodes, hop, source, p), Shortest(K, L, p), Len(p) <= K,
         NEW b \in nodes, <<p[Len(p)], b>> \in hop, b \notin L[Len(p) - 1],
         NEW more, more = Append(p, b)
  PROVE  WentOn(nodes, hop, source, K, L, p, b, more)
  <1>1. p \in Seq(nodes) /\ Len(p) \in Nat /\ Len(p) > 0
    BY DEF WayFrom
  <1>2. /\ more \in Seq(nodes) /\ Len(more) = Len(p) + 1 /\ more[Len(more)] = b
        /\ \A m \in 1..Len(p) : more[m] = p[m]
    BY <1>1
  <1>3. ASSUME NEW m \in 1..Len(p) PROVE <<more[m], more[m + 1]>> \in hop
    <2>1. CASE m = Len(p)
      BY <1>1, <1>2, <2>1
    <2>2. CASE m # Len(p)
      <3>1. m \in 1..(Len(p) - 1) /\ m + 1 \in 1..Len(p)
        BY <1>1, <2>2
      <3> QED
        BY <1>2, <3>1 DEF WayFrom
    <2> QED
      BY <2>1, <2>2
  <1>4. WayFrom(nodes, hop, source, more)
    <2>1. more[1] = source
      BY <1>1, <1>2 DEF WayFrom
    <2> QED
      BY <1>1, <1>2, <1>3, <2>1 DEF WayFrom
  <1>5. b \in L[Len(p)]
    <2>1. Len(p) \in 1..K
      BY <1>1
    <2> QED
      BY <2>1 DEF Levels, Shortest
  <1>6. Shortest(K, L, more)
    <2>1. Len(more) - 1 = Len(p) /\ Len(more) - 2 = Len(p) - 1 /\ Len(p) \in 0..K
      BY <1>1, <1>2
    <2> QED
      BY <1>2, <1>5, <2>1 DEF Shortest
  <1> QED
    BY <1>2, <1>4, <1>6 DEF WentOn

\* The path at the head of the queue, one hop further to a node not seen yet, is
\* a shortest one, and led as the shortest ones can be
LEMMA HeadGoesOn ==
  ASSUME NEW nodes, NEW hop, NEW led, NEW source, NEW target, NEW K \in Nat,
         NEW L, Levels(nodes, hop, source, K, L), NEW H, LedLevels(nodes, hop, led, source, K, H),
         NEW i \in Nat, NEW S, NEW Q, Q # <<>>,
         Searched(nodes, hop, led, source, target, K, L, H, i, S, Q),
         Len(Q[1]) <= K,
         NEW b \in nodes, b \notin S, <<Q[1][Len(Q[1])], b>> \in hop
  PROVE  RightWay(nodes, hop, led, source, K, L, H, Append(Q[1], b))
  <1> DEFINE p == Q[1]
             n == Len(p)
             more == Append(p, b)
  <1>1. /\ Q \in Seq(Seq(nodes)) /\ Len(Q) \in Nat \ {0} /\ 1 \in 1..Len(Q)
        /\ \A k \in 1..Len(Q) : Q[k] \in Seq(nodes) /\ Len(Q[k]) \in Nat
    BY DEF Searched
  <1>2. /\ RightWay(nodes, hop, led, source, K, L, H, p)
        /\ L[n - 1] \subseteq S /\ n \in Nat /\ n > 0
    BY <1>1 DEF Searched, RightWay, WayFrom
  <1>3. /\ WayFrom(nodes, hop, source, more) /\ Shortest(K, L, more)
        /\ Len(more) = n + 1 /\ more[Len(more)] = b
        /\ \A m \in 1..n : more[m] = p[m]
    <2>1. b \notin L[Len(p) - 1] /\ Len(p) <= K /\ <<p[Len(p)], b>> \in hop
      BY <1>2
    <2>2. WayFrom(nodes, hop, source, p) /\ Shortest(K, L, p)
      BY <1>2 DEF RightWay
    <2>3. \A q : q = Append(p, b) => WentOn(nodes, hop, source, K, L, p, b, q)
      <3> HIDE DEF p
      <3> QED
        BY <2>1, <2>2, WayGoesOn, Zenon
    <2> QED
      BY <2>3 DEF WentOn
  <1> HIDE DEF p, n, more
  <1>4. ASSUME b \in H[n] PROVE more[2] \in led
    <2>1. n \in 1..K /\ n - 1 \in 0..K
      BY <1>2 DEF n, p
    <2>2. /\ H[0] = {}
          /\ H[n] = H[n - 1] \cup {c \in nodes : \/ n = 1 /\ <<source, c>> \in hop /\ c \in led
                                                \/ \E a \in H[n - 1] : <<a, c>> \in hop}
      BY <2>1 DEF LedLevels
    <2>3. H[n - 1] \subseteq L[n - 1]
      <3>1. PICK r \in 0..K : r = n - 1
        BY <2>1
      <3>2. H[r] \subseteq L[r]
        BY LedIsWithin
      <3> QED
        BY <3>1, <3>2
    <2>4. b \notin H[n - 1]
      BY <1>2, <2>3
    <2>5. CASE n = 1
      <3>1. b \in led
        <4>1. H[n - 1] = {}
          BY <2>2, <2>5
        <4> QED
          BY <1>4, <2>2, <4>1
      <3>2. more[2] = b
        BY <1>3, <2>5
      <3> QED
        BY <3>1, <3>2
    <2>6. CASE n # 1
      <3>1. PICK a \in H[n - 1] : <<a, b>> \in hop
        BY <1>4, <2>2, <2>4, <2>6
      <3>2. a \in L[n - 1] /\ a \in S
        BY <1>2, <2>3
      <3>3. PICK k \in 1..Len(Q) : Q[k][Len(Q[k])] = a
        BY <3>1, <3>2 DEF Searched, Closed
      <3>4. RightWay(nodes, hop, led, source, K, L, H, Q[k])
        BY DEF Searched
      <3>5. Len(Q[k]) >= n
        <4>1. CASE k = 1
          BY <1>1, <4>1 DEF n, p
        <4>2. CASE k # 1
          <5>1. Len(Q[1]) <= Len(Q[k])
            BY <1>1, <4>2 DEF Searched, QueueInOrder
          <5> QED
            BY <1>1, <5>1 DEF n, p
        <4> QED
          BY <4>1, <4>2
      <3>6. Len(Q[k]) = n
        <4> SUFFICES ASSUME Len(Q[k]) > n PROVE FALSE
          BY <1>1, <1>2, <3>5
        <4>1. Len(Q[k]) > 1 /\ Len(Q[k]) - 2 \in 0..K /\ n - 1 <= Len(Q[k]) - 2
          <5>1. Len(Q[k]) \in Nat /\ Len(Q[k]) - 1 \in 0..K
            BY <1>1, <3>4 DEF RightWay, Shortest
          <5> QED
            BY <1>2, <5>1
        <4>2. a \notin L[Len(Q[k]) - 2]
          BY <3>3, <3>4, <4>1 DEF RightWay, Shortest
        <4>3. L[n - 1] \subseteq L[Len(Q[k]) - 2]
          <5>1. PICK r \in 0..K : r = n - 1
            BY <2>1
          <5>2. PICK q \in 0..K : q = Len(Q[k]) - 2
            BY <4>1
          <5>3. r <= q
            BY <4>1, <5>1, <5>2
          <5>4. L[r] \subseteq L[q]
            BY <5>3, LevelsGrow
          <5> QED
            BY <5>1, <5>2, <5>4
        <4> QED
          BY <3>2, <4>2, <4>3
      <3>7. n > 1
        BY <1>2, <2>6
      <3>8. Q[k][2] \in led
        BY <3>1, <3>3, <3>4, <3>6, <3>7 DEF RightWay, WellLed
      <3>9. p[2] \in led
        <4>1. CASE k = 1
          BY <3>8, <4>1 DEF p
        <4>2. CASE k # 1
          <5>1. 1 < k /\ Len(Q[1]) = Len(Q[k]) /\ Len(Q[1]) > 1
            BY <3>6, <3>7, <4>2 DEF n, p
          <5> QED
            BY <1>1, <3>8, <5>1 DEF Searched, LedFirst, p
        <4> QED
          BY <4>1, <4>2
      <3> QED
        BY <1>2, <1>3, <3>7, <3>9
    <2> QED
      BY <2>5, <2>6
  <1>5. WellLed(led, H, more)
    <2>1. Len(more) - 1 = n
      BY <1>2, <1>3
    <2> QED
      BY <1>3, <1>4, <2>1 DEF WellLed
  <1> QED
    BY <1>3, <1>5 DEF RightWay, more, p

-----------------------------------------------------------------------------
(* One round.  F are the nodes that the path at the head of the queue Q is  *)
(* extended by, R is the queue after the round.                             *)

Fresh(nodes, hop, led, S, p, F) ==
  /\ F \in Seq(nodes) /\ Distinct(F)
  /\ ToSet(F) = {b \in nodes : <<p[Len(p)], b>> \in hop} \ S
  /\ Len(p) = 1 => \A j, k \in 1..Len(F) : j < k /\ F[k] \in led => F[j] \in led

NextQueue(Q, F) == Tail(Q) \o [j \in 1..Len(F) |-> Append(Q[1], F[j])]

IsNextQueue(nodes, Q, F, R) ==
  /\ R \in Seq(Seq(nodes)) /\ Len(R) = Len(Q) - 1 + Len(F)
  /\ \A k \in 1..(Len(Q) - 1) : k \in 1..Len(R) /\ k + 1 \in 1..Len(Q) /\ R[k] = Q[k + 1]
  /\ \A j \in 1..Len(F) : /\ Len(Q) - 1 + j \in 1..Len(R)
                          /\ R[Len(Q) - 1 + j] = Append(Q[1], F[j])
  /\ \A k \in 1..Len(R) : k \in 1..(Len(Q) - 1) \/ \E j \in 1..Len(F) : k = Len(Q) - 1 + j

IsJoined(X, s, t, r) ==
  /\ r \in Seq(X) /\ Len(r) = Len(s) + Len(t)
  /\ \A k \in 1..Len(s) : r[k] = s[k]
  /\ \A j \in 1..Len(t) : r[Len(s) + j] = t[j]

\* The entries of two sequences joined
LEMMA Concatenated ==
  ASSUME NEW X, NEW s \in Seq(X), NEW t \in Seq(X)
  PROVE  IsJoined(X, s, t, s \o t)
  BY DEF IsJoined

\* The queue after a round: the entries that waited, and the head extended
LEMMA NextQueueIs ==
  ASSUME NEW nodes, NEW Q \in Seq(Seq(nodes)), Q # <<>>, NEW F \in Seq(nodes)
  PROVE  IsNextQueue(nodes, Q, F, NextQueue(Q, F))
  <1> DEFINE G == [j \in 1..Len(F) |-> Append(Q[1], F[j])]
             T == Tail(Q)
  <1>1. /\ Len(Q) \in Nat \ {0} /\ Len(F) \in Nat /\ Q[1] \in Seq(nodes)
        /\ \A j \in 1..Len(F) : F[j] \in nodes
    OBVIOUS
  <1>2. T \in Seq(Seq(nodes)) /\ Len(T) = Len(Q) - 1 /\ \A k \in 1..Len(T) : T[k] = Q[k + 1]
    BY <1>1
  <1>3. G \in Seq(Seq(nodes)) /\ Len(G) = Len(F) /\ \A j \in 1..Len(F) : G[j] = Append(Q[1], F[j])
    <2>1. \A j \in 1..Len(F) : Append(Q[1], F[j]) \in Seq(nodes)
      BY <1>1
    <2> QED
      BY <1>1, <2>1
  <1> HIDE DEF G, T
  <1>4. /\ T \o G \in Seq(Seq(nodes)) /\ Len(T \o G) = Len(T) + Len(G)
        /\ \A k \in 1..Len(T) : (T \o G)[k] = T[k]
        /\ \A j \in 1..Len(G) : (T \o G)[Len(T) + j] = G[j]
    <2>1. T \in Seq(Seq(nodes)) /\ G \in Seq(Seq(nodes))
      BY <1>2, <1>3
    <2>2. IsJoined(Seq(nodes), T, G, T \o G)
      BY <2>1, Concatenated, Zenon
    <2> QED
      BY <2>2 DEF IsJoined
  <1>5. NextQueue(Q, F) = T \o G
    BY DEF NextQueue, T, G
  <1> DEFINE R == NextQueue(Q, F)
  <1> HIDE DEF R
  <1>6. /\ R \in Seq(Seq(nodes)) /\ Len(R) = Len(Q) - 1 + Len(F)
        /\ \A k \in 1..(Len(Q) - 1) : R[k] = Q[k + 1]
        /\ \A j \in 1..Len(F) : R[Len(Q) - 1 + j] = Append(Q[1], F[j])
    <2>1. Len(T) = Len(Q) - 1 /\ Len(G) = Len(F) /\ R = T \o G
      BY <1>2, <1>3, <1>5 DEF R
    <2> QED
      BY <1>1, <1>2, <1>3, <1>4, <2>1
  <1>7. \A k \in 1..(Len(Q) - 1) : k \in 1..Len(R) /\ k + 1 \in 1..Len(Q)
    BY <1>1, <1>6
  <1>8. \A j \in 1..Len(F) : Len(Q) - 1 + j \in 1..Len(R)
    BY <1>1, <1>6
  <1>9. ASSUME NEW k \in 1..Len(R)
        PROVE  k \in 1..(Len(Q) - 1) \/ \E j \in 1..Len(F) : k = Len(Q) - 1 + j
    <2>1. CASE k > Len(Q) - 1
      <3>1. k - (Len(Q) - 1) \in 1..Len(F)
        BY <1>1, <1>6, <2>1
      <3>2. PICK j \in 1..Len(F) : j = k - (Len(Q) - 1)
        BY <3>1
      <3>3. k = Len(Q) - 1 + j
        BY <1>1, <3>2
      <3> QED
        BY <3>3
    <2>2. CASE ~ (k > Len(Q) - 1)
      BY <1>1, <2>2
    <2> QED
      BY <2>1, <2>2
  <1> QED
    BY <1>6, <1>7, <1>8, <1>9 DEF IsNextQueue, R

\* What the new entries of the queue are
LEMMA PathExtended ==
  ASSUME NEW nodes, NEW p \in Seq(nodes), Len(p) > 0, NEW b \in nodes, NEW q, q = Append(p, b)
  PROVE  /\ Len(q) = Len(p) + 1 /\ q[Len(q)] = b /\ Len(q) > 1
         /\ Len(p) = 1 => q[2] = b
         /\ Len(p) > 1 => q[2] = p[2]
  <1>1. Len(p) \in Nat /\ Len(q) = Len(p) + 1 /\ q[Len(p) + 1] = b
        /\ \A m \in 1..Len(p) : q[m] = p[m]
    OBVIOUS
  <1> QED
    BY <1>1

\* The entries of the next queue: one that waited, or the head extended
Stays(Q, R, k) ==
  k \in 1..(Len(Q) - 1) /\ k + 1 \in 1..Len(Q) /\ k + 1 > 1 /\ R[k] = Q[k + 1]

Comes(Q, F, R, k, j) ==
  /\ k = Len(Q) - 1 + j /\ R[k] = Append(Q[1], F[j])
  /\ Len(R[k]) = Len(Q[1]) + 1 /\ R[k][Len(R[k])] = F[j]
  /\ Len(Q[1]) = 1 => R[k][2] = F[j]
  /\ Len(Q[1]) > 1 => R[k][2] = Q[1][2]

\* Every entry of the next queue is of one of these kinds
LEMMA NextEntries ==
  ASSUME NEW nodes, NEW Q \in Seq(Seq(nodes)), Q # <<>>, Len(Q[1]) > 0, NEW F \in Seq(nodes),
         NEW R, IsNextQueue(nodes, Q, F, R), NEW k \in 1..Len(R)
  PROVE  Stays(Q, R, k) \/ \E j \in 1..Len(F) : Comes(Q, F, R, k, j)
  <1>1. CASE k \in 1..(Len(Q) - 1)
    <2>1. k + 1 \in 1..Len(Q) /\ R[k] = Q[k + 1]
      BY <1>1 DEF IsNextQueue
    <2>2. k + 1 > 1
      OBVIOUS
    <2> QED
      BY <1>1, <2>1, <2>2 DEF Stays
  <1>2. CASE ~ (k \in 1..(Len(Q) - 1))
    <2>1. PICK j \in 1..Len(F) : k = Len(Q) - 1 + j
      BY <1>2 DEF IsNextQueue
    <2>2. R[k] = Append(Q[1], F[j])
      BY <2>1 DEF IsNextQueue
    <2>3. Q[1] \in Seq(nodes) /\ F[j] \in nodes
      OBVIOUS
    <2> DEFINE q == R[k]
               p == Q[1]
    <2>4. /\ Len(q) = Len(p) + 1 /\ q[Len(q)] = F[j]
          /\ Len(p) = 1 => q[2] = F[j]
          /\ Len(p) > 1 => q[2] = p[2]
      <3> HIDE DEF q, p
      <3>1. p \in Seq(nodes) /\ Len(p) > 0 /\ q = Append(p, F[j])
        BY <2>2, <2>3 DEF p, q
      <3> QED
        BY <2>3, <3>1, PathExtended
    <2> QED
      BY <2>1, <2>2, <2>4 DEF Comes
  <1> QED
    BY <1>1, <1>2

\* The lengths stay in order
LEMMA OrderStays ==
  ASSUME NEW nodes, NEW Q \in Seq(Seq(nodes)), Q # <<>>, Len(Q[1]) > 0, NEW F \in Seq(nodes),
         NEW R, IsNextQueue(nodes, Q, F, R), QueueInOrder(Q)
  PROVE  QueueInOrder(R)
  <1> DEFINE n == Len(Q[1])
  <1>1. /\ Len(Q) \in Nat \ {0} /\ Len(F) \in Nat /\ 1 \in 1..Len(Q) /\ n \in Nat
        /\ \A k \in 1..Len(Q) : Len(Q[k]) \in Nat
    OBVIOUS
  <1>2. \A k \in 1..Len(Q) : k > 1 => n <= Len(Q[k]) /\ Len(Q[k]) <= n + 1
    BY <1>1 DEF QueueInOrder
  <1> HIDE DEF n
  <1> SUFFICES ASSUME NEW j \in 1..Len(R), NEW k \in 1..Len(R), j < k
               PROVE  Len(R[j]) <= Len(R[k]) /\ Len(R[k]) <= Len(R[j]) + 1
    BY DEF QueueInOrder
  <1>3. j \in Nat /\ k \in Nat
    OBVIOUS
  <1>4. \A m \in 1..Len(R) : Stays(Q, R, m) \/ \E i \in 1..Len(F) : Comes(Q, F, R, m, i)
    BY NextEntries, Zenon DEF n
  <1>5. ASSUME Stays(Q, R, j), Stays(Q, R, k)
        PROVE  Len(R[j]) <= Len(R[k]) /\ Len(R[k]) <= Len(R[j]) + 1
    <2>1. /\ R[j] = Q[j + 1] /\ R[k] = Q[k + 1]
          /\ j + 1 \in 1..Len(Q) /\ k + 1 \in 1..Len(Q) /\ j + 1 < k + 1
      BY <1>3, <1>5 DEF Stays
    <2>2. Len(Q[j + 1]) <= Len(Q[k + 1]) /\ Len(Q[k + 1]) <= Len(Q[j + 1]) + 1
      BY <2>1 DEF QueueInOrder
    <2> QED
      BY <2>1, <2>2
  <1>6. ASSUME Stays(Q, R, j), NEW i \in 1..Len(F), Comes(Q, F, R, k, i)
        PROVE  Len(R[j]) <= Len(R[k]) /\ Len(R[k]) <= Len(R[j]) + 1
    <2>1. Len(R[k]) = n + 1
      BY <1>6 DEF Comes, n
    <2>2. Len(R[j]) \in Nat /\ n <= Len(R[j]) /\ Len(R[j]) <= n + 1
      BY <1>1, <1>2, <1>6 DEF Stays
    <2> QED
      BY <1>1, <2>1, <2>2
  <1>7. ASSUME NEW h \in 1..Len(F), Comes(Q, F, R, j, h), Stays(Q, R, k) PROVE FALSE
    BY <1>1, <1>3, <1>7 DEF Comes, Stays
  <1>8. ASSUME NEW h \in 1..Len(F), Comes(Q, F, R, j, h), NEW i \in 1..Len(F), Comes(Q, F, R, k, i)
        PROVE  Len(R[j]) <= Len(R[k]) /\ Len(R[k]) <= Len(R[j]) + 1
    <2>1. Len(R[j]) = n + 1 /\ Len(R[k]) = n + 1
      BY <1>8 DEF Comes, n
    <2> QED
      BY <1>1, <2>1
  <1> QED
    BY <1>4, <1>5, <1>6, <1>7, <1>8

\* Paths that are led by a hosted podcast stay ahead of the others
LEMMA LedStaysFirst ==
  ASSUME NEW nodes, NEW hop, NEW led, NEW S, NEW Q \in Seq(Seq(nodes)), Q # <<>>, Len(Q[1]) > 0,
         NEW F, Fresh(nodes, hop, led, S, Q[1], F), NEW R, IsNextQueue(nodes, Q, F, R),
         QueueInOrder(Q), LedFirst(led, Q), Len(Q[1]) = 1 => Len(Q) = 1
  PROVE  LedFirst(led, R)
  <1> DEFINE n == Len(Q[1])
  <1>1. /\ Len(Q) \in Nat \ {0} /\ Len(F) \in Nat /\ 1 \in 1..Len(Q) /\ n \in Nat /\ n > 0
        /\ \A k \in 1..Len(Q) : Len(Q[k]) \in Nat
        /\ F \in Seq(nodes)
    BY DEF Fresh
  <1>2. \A m \in 1..Len(R) : Stays(Q, R, m) \/ \E i \in 1..Len(F) : Comes(Q, F, R, m, i)
    BY <1>1, NextEntries, Zenon
  <1>3. \A k \in 1..Len(Q) : k > 1 => n > 1 /\ n <= Len(Q[k]) /\ Len(Q[k]) <= n + 1
    <2>1. \A k \in 1..Len(Q) : k > 1 => n <= Len(Q[k]) /\ Len(Q[k]) <= n + 1
      BY <1>1 DEF QueueInOrder
    <2> SUFFICES ASSUME NEW k \in 1..Len(Q), k > 1
                 PROVE  n > 1 /\ n <= Len(Q[k]) /\ Len(Q[k]) <= n + 1
      OBVIOUS
    <2>2. Len(Q) # 1
      BY <1>1
    <2>3. n > 1
      <3>1. n # 1
        BY <2>2
      <3> HIDE DEF n
      <3> QED
        BY <1>1, <3>1
    <2>4. n <= Len(Q[k]) /\ Len(Q[k]) <= n + 1
      BY <2>1
    <2> QED
      BY <2>3, <2>4
  <1>4. /\ \A j, k \in 1..Len(Q) :
              j < k /\ Len(Q[j]) = Len(Q[k]) /\ Len(Q[j]) > 1 /\ Q[k][2] \in led => Q[j][2] \in led
        /\ \A j, k \in 1..Len(Q) :
              Len(Q[k]) = Len(Q[j]) + 1 /\ Len(Q[j]) > 1 /\ Q[j][2] \in led => Q[k][2] \in led
    BY DEF LedFirst
  <1> HIDE DEF n
  <1>5. ASSUME NEW j \in 1..Len(R), NEW k \in 1..Len(R), j < k, Len(R[j]) = Len(R[k]),
               Len(R[j]) > 1, R[k][2] \in led
        PROVE  R[j][2] \in led
    <2>1. CASE Stays(Q, R, j) /\ Stays(Q, R, k)
      <3>1. /\ j + 1 \in 1..Len(Q) /\ k + 1 \in 1..Len(Q) /\ j + 1 < k + 1
            /\ R[j] = Q[j + 1] /\ R[k] = Q[k + 1]
        BY <1>5, <2>1 DEF Stays
      <3> QED
        BY <1>4, <1>5, <3>1
    <2>2. ASSUME Stays(Q, R, j), NEW i \in 1..Len(F), Comes(Q, F, R, k, i) PROVE R[j][2] \in led
      <3>1. j + 1 \in 1..Len(Q) /\ j + 1 > 1 /\ R[j] = Q[j + 1]
        BY <2>2 DEF Stays
      <3>2. n > 1
        BY <1>3, <3>1
      <3>3. Q[1][2] \in led /\ Len(Q[j + 1]) = Len(Q[1]) + 1 /\ Len(Q[1]) > 1
        BY <1>5, <2>2, <3>1, <3>2 DEF n, Comes
      <3> QED
        BY <1>1, <1>4, <3>1, <3>3
    <2>3. ASSUME NEW h \in 1..Len(F), Comes(Q, F, R, j, h), Stays(Q, R, k) PROVE FALSE
      BY <1>1, <1>5, <2>3 DEF Comes, Stays
    <2>4. ASSUME NEW h \in 1..Len(F), Comes(Q, F, R, j, h), NEW i \in 1..Len(F), Comes(Q, F, R, k, i)
          PROVE  R[j][2] \in led
      <3>1. CASE n > 1
        BY <1>5, <2>4, <3>1 DEF Comes, n
      <3>2. CASE n = 1
        <4>1. h < i
          BY <1>1, <1>5, <2>4 DEF Comes
        <4>2. F[i] \in led
          BY <1>5, <2>4, <3>2 DEF Comes, n
        <4>3. \A x, y \in 1..Len(F) : x < y /\ F[y] \in led => F[x] \in led
          BY <3>2 DEF Fresh, n
        <4> QED
          BY <2>4, <3>2, <4>1, <4>2, <4>3 DEF Comes, n
      <3> QED
        BY <1>1, <3>1, <3>2
    <2> QED
      BY <1>2, <2>1, <2>2, <2>3, <2>4
  <1>6. ASSUME NEW j \in 1..Len(R), NEW k \in 1..Len(R), Len(R[k]) = Len(R[j]) + 1,
               Len(R[j]) > 1, R[j][2] \in led
        PROVE  R[k][2] \in led
    <2>1. CASE Stays(Q, R, j) /\ Stays(Q, R, k)
      BY <1>4, <1>6, <2>1 DEF Stays
    <2>2. ASSUME Stays(Q, R, j), NEW i \in 1..Len(F), Comes(Q, F, R, k, i) PROVE R[k][2] \in led
      <3>1. j + 1 \in 1..Len(Q) /\ 1 < j + 1 /\ R[j] = Q[j + 1]
        BY <2>2 DEF Stays
      <3>2. n > 1
        BY <1>3, <3>1
      <3>3. Len(R[k]) = n + 1 /\ R[k][2] = Q[1][2]
        BY <2>2, <3>2 DEF Comes, n
      <3>4. Len(Q[j + 1]) = n /\ Q[j + 1][2] \in led
        <4>1. Len(R[j]) \in Nat /\ Len(R[k]) = Len(R[j]) + 1
          BY <1>1, <1>6, <3>1
        <4>2. Len(R[j]) = n
          BY <1>1, <3>3, <4>1
        <4> QED
          BY <1>6, <3>1, <4>2
      <3>5. Q[1][2] \in led
        BY <1>1, <1>4, <3>1, <3>2, <3>4 DEF n
      <3> QED
        BY <3>3, <3>5
    <2>3. ASSUME NEW h \in 1..Len(F), Comes(Q, F, R, j, h), Stays(Q, R, k) PROVE FALSE
      <3>1. Len(R[k]) <= n + 1
        BY <1>3, <2>3 DEF Stays
      <3>2. Len(R[j]) = n + 1
        BY <2>3 DEF Comes, n
      <3> QED
        BY <1>1, <1>6, <3>1, <3>2
    <2>4. ASSUME NEW h \in 1..Len(F), Comes(Q, F, R, j, h), NEW i \in 1..Len(F), Comes(Q, F, R, k, i)
          PROVE  FALSE
      <3>1. Len(R[k]) = n + 1 /\ Len(R[j]) = n + 1
        BY <2>4 DEF Comes, n
      <3> QED
        BY <1>1, <1>6, <3>1
    <2> QED
      BY <1>2, <2>1, <2>2, <2>3, <2>4
  <1> QED
    BY <1>5, <1>6 DEF LedFirst

\* Whatever was seen still waits to be extended, or has been
LEMMA ClosedStays ==
  ASSUME NEW nodes, NEW hop, NEW led, NEW S, NEW Q \in Seq(Seq(nodes)), Q # <<>>, Len(Q[1]) > 0,
         NEW F, Fresh(nodes, hop, led, S, Q[1], F), NEW R, IsNextQueue(nodes, Q, F, R),
         Closed(nodes, hop, S, Q)
  PROVE  Closed(nodes, hop, S \cup ToSet(F), R)
  <1>1. /\ Len(Q) \in Nat \ {0} /\ Len(F) \in Nat /\ F \in Seq(nodes)
        /\ ToSet(F) = {b \in nodes : <<Q[1][Len(Q[1])], b>> \in hop} \ S
    BY DEF Fresh
  <1> SUFFICES ASSUME NEW a \in S \cup ToSet(F)
               PROVE  \/ \E k \in 1..Len(R) : R[k][Len(R[k])] = a
                      \/ \A b \in nodes : <<a, b>> \in hop => b \in S \cup ToSet(F)
    BY DEF Closed
  <1>2. CASE a \in S
    <2>1. CASE \A b \in nodes : <<a, b>> \in hop => b \in S
      BY <2>1
    <2>2. CASE \E k \in 1..Len(Q) : Q[k][Len(Q[k])] = a
      <3>1. PICK k \in 1..Len(Q) : Q[k][Len(Q[k])] = a
        BY <2>2
      <3>2. CASE k = 1
        BY <1>1, <3>1, <3>2
      <3>3. CASE k # 1
        <4>1. PICK m \in 1..(Len(Q) - 1) : k = m + 1
          <5>1. k - 1 \in 1..(Len(Q) - 1) /\ k = k - 1 + 1
            BY <1>1, <3>3
          <5> QED
            BY <5>1
        <4>2. m \in 1..Len(R) /\ R[m] = Q[k]
          BY <4>1 DEF IsNextQueue
        <4> QED
          BY <3>1, <4>2
      <3> QED
        BY <3>2, <3>3
    <2> QED
      BY <1>2, <2>1, <2>2 DEF Closed
  <1>3. CASE a \in ToSet(F)
    <2>1. PICK j \in 1..Len(F) : F[j] = a
      BY <1>1, <1>3 DEF ToSet
    <2>2. Len(Q) - 1 + j \in 1..Len(R)
      BY DEF IsNextQueue
    <2>3. PICK k \in 1..Len(R) : k = Len(Q) - 1 + j
      BY <2>2
    <2>4. R[k][Len(R[k])] = a
      <3>1. ~ (k \in 1..(Len(Q) - 1))
        BY <1>1, <2>3
      <3>2. Stays(Q, R, k) \/ \E i \in 1..Len(F) : Comes(Q, F, R, k, i)
        BY <1>1, NextEntries, Zenon
      <3>3. PICK i \in 1..Len(F) : Comes(Q, F, R, k, i)
        BY <3>1, <3>2 DEF Stays
      <3>4. i = j
        BY <1>1, <2>3, <3>3 DEF Comes
      <3> QED
        BY <2>1, <3>3, <3>4 DEF Comes
    <2> QED
      BY <2>4
  <1> QED
    BY <1>2, <1>3

\* The number of entries of a sequence without repetitions
LEMMA DistinctCount ==
  ASSUME NEW X, NEW s \in Seq(X), Distinct(s)
  PROVE  IsFiniteSet(ToSet(s)) /\ Cardinality(ToSet(s)) = Len(s)
  <1>1. Len(s) \in Nat /\ DOMAIN s = 1..Len(s)
    OBVIOUS
  <1>2. IsFiniteSet(1..Len(s)) /\ Cardinality(1..Len(s)) = Len(s)
    <2>1. PICK l \in Nat : l = Len(s)
      BY <1>1
    <2>2. 1 \in Int /\ l \in Int
      OBVIOUS
    <2>3. IsFiniteSet(1..l) /\ Cardinality(1..l) = IF 1 > l THEN 0 ELSE l - 1 + 1
      BY <2>2, FS_Interval, Zenon
    <2>4. Cardinality(1..l) = l
      BY <2>3
    <2> QED
      BY <2>1, <2>3, <2>4
  <1>3. s \in Bijection(1..Len(s), ToSet(s))
    <2>1. ToSet(s) = {s[i] : i \in 1..Len(s)}
      BY <1>1 DEF ToSet
    <2>2. s \in [1..Len(s) -> ToSet(s)]
      BY <1>1, <2>1
    <2>3. s \in Injection(1..Len(s), ToSet(s))
      BY <2>2 DEF Injection, IsInjective, Distinct
    <2>4. s \in Surjection(1..Len(s), ToSet(s))
      BY <2>1, <2>2 DEF Surjection
    <2> QED
      BY <2>3, <2>4 DEF Bijection
  <1> QED
    <2>1. s \in Surjection(1..Len(s), ToSet(s)) /\ s \in Injection(1..Len(s), ToSet(s))
      BY <1>3 DEF Bijection
    <2> QED
      BY <1>2, <2>1, FS_Surjection

\* One level more was seen once the head of the queue is of the next level
LEMMA LevelSeen ==
  ASSUME NEW nodes, NEW hop, NEW source, NEW K \in Nat, NEW L, Levels(nodes, hop, source, K, L),
         NEW S, NEW R \in Seq(Seq(nodes)), R # <<>>, QueueInOrder(R), Closed(nodes, hop, S, R),
         \A k \in 1..Len(R) : Len(R[k]) > 0 /\ Shortest(K, L, R[k]),
         NEW n \in Nat, Len(R[1]) = n + 1, n > 0, L[n - 1] \subseteq S
  PROVE  L[n] \subseteq S
  <1>1. /\ Len(R) \in Nat \ {0} /\ 1 \in 1..Len(R)
        /\ \A k \in 1..Len(R) : Len(R[k]) \in Nat
    OBVIOUS
  <1>2. n \in 1..K /\ n - 1 \in 0..K
    <2>1. Len(R[1]) - 1 \in 0..K
      BY <1>1 DEF Shortest
    <2> QED
      BY <2>1
  <1>3. L[n] = L[n - 1] \cup {b \in nodes : \E a \in L[n - 1] : <<a, b>> \in hop}
    BY <1>2 DEF Levels
  <1> SUFFICES ASSUME NEW b \in nodes, NEW a \in L[n - 1], <<a, b>> \in hop PROVE b \in S
    BY <1>3
  <1>4. a \in S
    OBVIOUS
  <1>5. ASSUME NEW k \in 1..Len(R), R[k][Len(R[k])] = a PROVE FALSE
    <2>1. Len(R[k]) >= n + 1
      <3>1. CASE k = 1
        BY <1>1, <3>1
      <3>2. CASE k # 1
        BY <1>1, <3>2 DEF QueueInOrder
      <3> QED
        BY <3>1, <3>2
    <2>2. Len(R[k]) - 1 \in 0..K /\ (Len(R[k]) > 1 => a \notin L[Len(R[k]) - 2])
      BY <1>5 DEF Shortest
    <2>3. PICK q \in 0..K : q = Len(R[k]) - 2
      <3>1. PICK l \in Nat : l = Len(R[k])
        BY <1>1
      <3>2. l >= 2 /\ l - 1 \in 0..K
        BY <2>1, <2>2, <3>1
      <3>3. l - 2 \in 0..K
        BY ONLY <3>2, l \in Nat, K \in Nat
      <3> QED
        BY <3>1, <3>3
    <2>4. PICK r \in 0..K : r = n - 1
      BY <1>2
    <2>5. r <= q
      BY <1>1, <2>1, <2>3, <2>4
    <2>6. L[r] \subseteq L[q]
      BY <2>5, LevelsGrow
    <2>7. Len(R[k]) > 1
      BY <1>1, <2>1
    <2> QED
      BY <2>2, <2>3, <2>4, <2>6, <2>7
  <1> QED
    BY <1>4, <1>5 DEF Closed

\* A queue that is not empty leaves room for one hop more
LEMMA HeadIsShort ==
  ASSUME NEW nodes, IsFiniteSet(nodes), NEW hop, NEW led, NEW source, NEW target,
         NEW K, K = Cardinality(nodes),
         NEW L, NEW H, NEW i \in Nat, NEW S, NEW Q, Q # <<>>, target \in nodes,
         Searched(nodes, hop, led, source, target, K, L, H, i, S, Q)
  PROVE  Len(Q[1]) <= K
  <1>1. /\ Q \in Seq(Seq(nodes)) /\ Len(Q) \in Nat \ {0} /\ 1 \in 1..Len(Q)
        /\ Len(Q[1]) \in Nat /\ K \in Nat
    BY FS_CardinalityType DEF Searched
  <1>2. /\ S \in SUBSET nodes /\ target \notin S
        /\ Cardinality(S) = i + Len(Q) /\ Len(Q[1]) <= i + 1
    BY <1>1 DEF Searched
  <1>3. Cardinality(S) < Cardinality(nodes)
    <2>1. S \subseteq nodes /\ S # nodes
      BY <1>2
    <2>2. IsFiniteSet(S) /\ Cardinality(S) <= Cardinality(nodes) /\ (Cardinality(S) = Cardinality(nodes) => S = nodes)
      BY <2>1, FS_Subset
    <2>3. Cardinality(S) \in Nat
      BY <2>2, FS_CardinalityType
    <2> QED
      BY <1>1, <2>1, <2>2, <2>3
  <1> QED
    BY <1>1, <1>2, <1>3

\* A round that finds no answer
LEMMA RoundGoesOn ==
  ASSUME NEW nodes, IsFiniteSet(nodes), NEW hop, NEW led, NEW source, NEW target,
         NEW K, K = Cardinality(nodes),
         NEW L, Levels(nodes, hop, source, K, L), NEW H, LedLevels(nodes, hop, led, source, K, H),
         NEW i \in Nat, NEW S, NEW Q, Q # <<>>, target \in nodes,
         Searched(nodes, hop, led, source, target, K, L, H, i, S, Q),
         NEW F, Fresh(nodes, hop, led, S, Q[1], F), target \notin ToSet(F),
         NEW R, IsNextQueue(nodes, Q, F, R)
  PROVE  Searched(nodes, hop, led, source, target, K, L, H, i + 1, S \cup ToSet(F), R)
  <1> DEFINE p == Q[1]
             n == Len(p)
             T == S \cup ToSet(F)
  <1>1. /\ Q \in Seq(Seq(nodes)) /\ Len(Q) \in Nat \ {0} /\ 1 \in 1..Len(Q)
        /\ \A k \in 1..Len(Q) : Q[k] \in Seq(nodes) /\ Len(Q[k]) \in Nat
        /\ K \in Nat
    BY FS_CardinalityType DEF Searched
  <1>2. /\ F \in Seq(nodes) /\ Len(F) \in Nat /\ Distinct(F)
        /\ ToSet(F) = {b \in nodes : <<p[n], b>> \in hop} \ S
        /\ \A j \in 1..Len(F) : F[j] \in ToSet(F) /\ F[j] \in nodes
    BY DEF Fresh, ToSet
  <1>3. /\ S \in SUBSET nodes /\ source \in S /\ target \notin S
        /\ QueueInOrder(Q) /\ LedFirst(led, Q) /\ Closed(nodes, hop, S, Q)
        /\ L[n - 1] \subseteq S /\ Cardinality(S) = i + Len(Q)
        /\ n > 0 /\ n <= i + 1 /\ (n = 1 => Len(Q) = 1)
    BY <1>1 DEF Searched, RightWay, WayFrom
  <1>4. \A k \in 1..Len(R) : Stays(Q, R, k) \/ \E j \in 1..Len(F) : Comes(Q, F, R, k, j)
    BY <1>1, <1>2, <1>3, NextEntries, Zenon DEF n, p
  <1>5. n <= K
    BY HeadIsShort, Zenon DEF n, p
  <1>6. ASSUME NEW j \in 1..Len(F) PROVE RightWay(nodes, hop, led, source, K, L, H, Append(Q[1], F[j]))
    <2>1. PICK b \in nodes : b = F[j]
      BY <1>2
    <2>2. b \notin S /\ <<Q[1][Len(Q[1])], b>> \in hop /\ Len(Q[1]) <= K
      BY <1>2, <1>5, <2>1 DEF p, n
    <2>3. RightWay(nodes, hop, led, source, K, L, H, Append(Q[1], b))
      BY <1>1, <2>2, HeadGoesOn, Zenon
    <2> QED
      BY <2>1, <2>3
  <1>7. ASSUME NEW k \in 1..Len(R)
        PROVE  /\ RightWay(nodes, hop, led, source, K, L, H, R[k])
               /\ Len(R[k]) \in Nat /\ Len(R[k]) > 1 /\ Len(R[k]) <= i + 2
    <2>1. CASE Stays(Q, R, k)
      <3>1. PICK m \in 1..Len(Q) : m > 1 /\ R[k] = Q[m]
        BY <2>1 DEF Stays
      <3>2. RightWay(nodes, hop, led, source, K, L, H, Q[m]) /\ Len(Q[m]) <= i + 1 /\ Len(Q[m]) # 1
        BY <1>1, <3>1 DEF Searched
      <3>3. Len(Q[m]) > 0
        BY <3>2 DEF RightWay, WayFrom
      <3>4. Len(Q[m]) \in Nat
        BY <1>1
      <3>5. Len(Q[m]) > 1 /\ Len(Q[m]) <= i + 2
        <4>1. PICK l \in Nat : l = Len(Q[m])
          BY <3>4
        <4>2. l <= i + 1 /\ l # 1 /\ l > 0
          BY <3>2, <3>3, <4>1
        <4>3. l > 1 /\ l <= i + 2
          BY <4>2
        <4> QED
          BY <4>1, <4>3
      <3> QED
        BY <3>1, <3>2, <3>4, <3>5
    <2>2. ASSUME NEW j \in 1..Len(F), Comes(Q, F, R, k, j)
          PROVE  /\ RightWay(nodes, hop, led, source, K, L, H, R[k])
                 /\ Len(R[k]) \in Nat /\ Len(R[k]) > 1 /\ Len(R[k]) <= i + 2
      <3>1. R[k] = Append(Q[1], F[j]) /\ Len(R[k]) = n + 1
        BY <2>2 DEF Comes
      <3>2. RightWay(nodes, hop, led, source, K, L, H, R[k])
        BY <1>6, <3>1
      <3>3. n \in Nat /\ n > 0 /\ n <= i + 1
        BY <1>1, <1>3
      <3>4. Len(R[k]) \in Nat /\ Len(R[k]) > 1 /\ Len(R[k]) <= i + 2
        <4> HIDE DEF n
        <4> QED
          BY <3>1, <3>3
      <3> QED
        BY <3>2, <3>4
    <2> QED
      BY <1>4, <2>1, <2>2
  <1>8. R \in Seq(Seq(nodes)) /\ Len(R) = Len(Q) - 1 + Len(F)
    BY DEF IsNextQueue
  <1>9. QueueInOrder(R) /\ LedFirst(led, R) /\ Closed(nodes, hop, T, R)
    <2>1. QueueInOrder(R)
      BY <1>1, <1>2, <1>3, OrderStays, Zenon DEF n, p
    <2>2. LedFirst(led, R)
      BY <1>1, <1>2, <1>3, LedStaysFirst, Zenon DEF n, p
    <2>3. Closed(nodes, hop, T, R)
      BY <1>1, <1>2, <1>3, ClosedStays, Zenon DEF n, p
    <2> QED
      BY <2>1, <2>2, <2>3
  <1>10. T \in SUBSET nodes /\ source \in T /\ target \notin T
    BY <1>2, <1>3
  <1>11. Cardinality(T) = i + 1 + Len(R)
    <2>1. IsFiniteSet(ToSet(F)) /\ Cardinality(ToSet(F)) = Len(F)
      BY <1>2, DistinctCount
    <2>2. IsFiniteSet(S)
      BY <1>3, FS_Subset
    <2>3. Cardinality(T) = Cardinality(S) + Cardinality(ToSet(F))
      <3>1. S \cap ToSet(F) = {}
        BY <1>2
      <3> QED
        <4>1. Cardinality(T) = Cardinality(S) + Cardinality(ToSet(F)) - Cardinality(S \cap ToSet(F))
          BY <2>1, <2>2, FS_Union
        <4>2. Cardinality(S \cap ToSet(F)) = 0
          BY <3>1, FS_EmptySet
        <4>3. Cardinality(S) \in Nat /\ Cardinality(ToSet(F)) \in Nat
          BY <2>1, <2>2, FS_CardinalityType
        <4> QED
          BY <4>1, <4>2, <4>3
    <2> QED
      <3>1. Len(Q) \in Nat /\ Len(F) \in Nat /\ Cardinality(S) = i + Len(Q) /\ Len(R) = Len(Q) - 1 + Len(F)
        BY <1>1, <1>2, <1>3, <1>8
      <3> HIDE DEF T
      <3> QED
        BY <2>1, <2>3, <3>1
  <1>12. ASSUME R # <<>> PROVE L[Len(R[1]) - 1] \subseteq T
    <2>1. 1 \in 1..Len(R)
      BY <1>8, <1>12
    <2>2. Len(R[1]) = n \/ Len(R[1]) = n + 1
      <3>1. CASE Stays(Q, R, 1)
        <4>1. PICK m \in 1..Len(Q) : m > 1 /\ R[1] = Q[m]
          BY <3>1 DEF Stays
        <4>2. n <= Len(Q[m]) /\ Len(Q[m]) <= n + 1
          BY <1>1, <1>3, <4>1 DEF QueueInOrder
        <4> QED
          BY <1>1, <4>1, <4>2
      <3>2. CASE \E j \in 1..Len(F) : Comes(Q, F, R, 1, j)
        BY <3>2 DEF Comes
      <3> QED
        BY <1>4, <2>1, <3>1, <3>2
    <2>3. CASE Len(R[1]) = n
      BY <1>3, <2>3
    <2>4. CASE Len(R[1]) = n + 1
      <3>1. \A k \in 1..Len(R) : Len(R[k]) > 0 /\ Shortest(K, L, R[k])
        BY <1>7 DEF RightWay
      <3>2. L[n] \subseteq T
        <4>1. L[n - 1] \subseteq T /\ n \in Nat /\ n > 0
          BY <1>1, <1>3
        <4> HIDE DEF n, T
        <4> QED
          BY <1>1, <1>8, <1>9, <1>12, <2>4, <3>1, <4>1, LevelSeen, Zenon
      <3>3. Len(R[1]) - 1 = n
        BY <1>1, <2>4
      <3> QED
        BY <3>2, <3>3
    <2> QED
      BY <2>2, <2>3, <2>4
  <1> HIDE DEF T
  <1>13. ASSUME NEW k \in 1..Len(R)
         PROVE  /\ RightWay(nodes, hop, led, source, K, L, H, R[k])
                /\ Len(R[k]) <= i + 1 + 1
                /\ Len(R[k]) = 1 => Len(R) = 1
    <2>1. i + 1 + 1 = i + 2
      OBVIOUS
    <2>2. PICK l \in Nat : l = Len(R[k])
      BY <1>7
    <2>3. l > 1 /\ l <= i + 2
      BY <1>7, <2>2
    <2> QED
      <3>1. l # 1 /\ l <= i + 1 + 1
        BY <2>3
      <3>2. Len(R[k]) # 1 /\ Len(R[k]) <= i + 1 + 1
        BY <2>2, <3>1
      <3> QED
        BY <1>7, <3>2
  <1> QED
    BY <1>8, <1>9, <1>10, <1>11, <1>12, <1>13 DEF Searched, T

-----------------------------------------------------------------------------
(* The search in a graph that holds a set of rows *)

Hops(rows, nodes, w) == {h \in nodes \X nodes : OneHop(rows, h[1], h[2], w)}
HostedBy(rows, nodes, source) == {b \in nodes : Hosts(Together(rows, source, b))}

GraphOf(graph, rows, nodes) ==
  /\ graph.edges \in Seq(EdgesOf(nodes)) /\ Holds(graph.edges, rows)
  /\ graph.names \subseteq nodes

\* The nodes a path is extended by: not yet seen, each once, from the source the
\* podcasts that it hosts before the others
LEMMA FilteredIsFresh ==
  ASSUME NEW nodes, NEW rows, NEW w, NEW source, NEW S, NEW p \in Seq(nodes), Len(p) > 0, p[1] = source,
         NEW near, NearIs(rows, nodes, w, p[Len(p)], p[Len(p)] = source, near)
  PROVE  Fresh(nodes, Hops(rows, nodes, w), HostedBy(rows, nodes, source), S, p,
               Filtered(near, ToSet(near) \ S))
  <1> DEFINE F == Filtered(near, ToSet(near) \ S)
  <1>1. /\ near \in Seq(nodes) /\ Distinct(near) /\ ToSet(near) = HopsFrom(rows, nodes, p[Len(p)], w)
        /\ Len(p) \in Nat /\ p[Len(p)] \in nodes
    BY DEF NearIs
  <1>2. /\ F \in Seq(nodes) /\ ToSet(F) = ToSet(near) \cap (ToSet(near) \ S) /\ Distinct(F)
        /\ InOrderOf(near, Len(near), F)
    BY <1>1, FilteredHas
  <1> HIDE DEF F
  <1>3. ToSet(F) = {b \in nodes : <<p[Len(p)], b>> \in Hops(rows, nodes, w)} \ S
    <2>1. \A b \in nodes : <<p[Len(p)], b>> \in Hops(rows, nodes, w) <=> OneHop(rows, p[Len(p)], b, w)
      BY <1>1 DEF Hops
    <2> QED
      BY <1>1, <1>2, <2>1 DEF HopsFrom
  <1>4. ASSUME Len(p) = 1, NEW j \in 1..Len(F), NEW k \in 1..Len(F), j < k,
               F[k] \in HostedBy(rows, nodes, source)
        PROVE  F[j] \in HostedBy(rows, nodes, source)
    <2>1. p[Len(p)] = source
      BY <1>4
    <2>2. PICK x, y \in 1..Len(near) : x < y /\ F[j] = near[x] /\ F[k] = near[y]
      BY <1>4, <1>2 DEF InOrderOf
    <2>3. Hosts(Together(rows, source, near[y]))
      BY <1>4, <2>2 DEF HostedBy
    <2>4. Hosts(Together(rows, source, near[x]))
      BY <2>1, <2>2, <2>3 DEF NearIs
    <2>5. near[x] \in nodes
      BY <1>1
    <2> QED
      BY <2>2, <2>4, <2>5 DEF HostedBy
  <1> QED
    BY <1>2, <1>3, <1>4 DEF Fresh, F

\* What the state of a search says after i rounds
Answered(nodes, hop, led, source, target, K, L, H, path) ==
  RightWay(nodes, hop, led, source, K, L, H, path) /\ path[Len(path)] = target

SearchInv(nodes, hop, led, source, target, K, L, H, i, s) ==
  IF s.answer = NoPath THEN Searched(nodes, hop, led, source, target, K, L, H, i, s.seen, s.queue)
  ELSE Answered(nodes, hop, led, source, target, K, L, H, s.answer)

SearchStates(nodes) == [seen : SUBSET nodes, queue : Seq(Seq(nodes)), answer : Seq(nodes)]

FreshOf(graph, source, w, s) ==
  LET p == Head(s.queue)
      near == OrderedNeighbors(graph, Last(p), Last(p) = source, w)
  IN  Filtered(near, ToSet(near) \ s.seen)

\* A round stays in the states of a search
LEMMA RoundType ==
  ASSUME NEW nodes, NEW rows, NEW graph, GraphOf(graph, rows, nodes), NEW w \in Windows,
         NEW source, NEW target, NEW s \in SearchStates(nodes)
  PROVE  SearchRound(graph, source, target, w, s) \in SearchStates(nodes)
  <1> DEFINE F == FreshOf(graph, source, w, s)
             next == SearchRound(graph, source, target, w, s)
  <1>1. next = IF s.answer # NoPath \/ s.queue = <<>> THEN s
               ELSE IF target \in ToSet(F) THEN [s EXCEPT !.answer = Append(Head(s.queue), target)]
               ELSE [s EXCEPT !.seen = @ \cup ToSet(F),
                              !.queue = Tail(@) \o [i \in 1..Len(F) |-> Append(Head(s.queue), F[i])]]
    BY DEF SearchRound, FreshOf
  <1> SUFFICES ASSUME s.queue # <<>> PROVE next \in SearchStates(nodes)
    BY <1>1
  <1>2. /\ s = [seen |-> s.seen, queue |-> s.queue, answer |-> s.answer]
        /\ s.seen \in SUBSET nodes /\ s.queue \in Seq(Seq(nodes)) /\ s.answer \in Seq(nodes)
    BY DEF SearchStates
  <1>3. Head(s.queue) \in Seq(nodes) /\ Head(s.queue) = s.queue[1]
    BY <1>2
  <1>4. F \in Seq(nodes)
    <2> DEFINE node == Last(Head(s.queue))
               near == OrderedNeighbors(graph, node, node = source, w)
    <2>1. \A x, y : y \in BOOLEAN => OrderedNeighbors(graph, x, y, w) \in Seq(nodes)
      BY NeighboursAreHops DEF NearIs, GraphOf
    <2>2. near \in Seq(nodes)
      BY <2>1
    <2> HIDE DEF near
    <2>3. Filtered(near, ToSet(near) \ s.seen) \in Seq(nodes)
      BY <2>2, FilteredHas
    <2> QED
      BY <2>3 DEF FreshOf, near
  <1> HIDE DEF F
  <1>5. ToSet(F) \subseteq nodes
    BY <1>4 DEF ToSet
  <1>6. NextQueue(s.queue, F) \in Seq(Seq(nodes))
    BY <1>2, <1>4, NextQueueIs DEF IsNextQueue
  <1>7. NextQueue(s.queue, F) = Tail(s.queue) \o [i \in 1..Len(F) |-> Append(Head(s.queue), F[i])]
    BY <1>3 DEF NextQueue
  <1>8. CASE s.answer # NoPath
    BY <1>1, <1>8
  <1>9. CASE s.answer = NoPath /\ target \in ToSet(F)
    <2>1. Append(Head(s.queue), target) \in Seq(nodes)
      BY <1>3, <1>5, <1>9
    <2>2. next = [seen |-> s.seen, queue |-> s.queue, answer |-> Append(Head(s.queue), target)]
      BY <1>1, <1>2, <1>9
    <2> QED
      BY <1>2, <2>1, <2>2 DEF SearchStates
  <1>10. CASE s.answer = NoPath /\ target \notin ToSet(F)
    <2>1. next = [seen |-> s.seen \cup ToSet(F), queue |-> NextQueue(s.queue, F), answer |-> s.answer]
      BY <1>1, <1>2, <1>7, <1>10
    <2> QED
      BY <1>2, <1>5, <1>6, <2>1 DEF SearchStates
  <1> QED
    BY <1>8, <1>9, <1>10

\* ... and keeps what they say
LEMMA RoundKeeps ==
  ASSUME NEW nodes, IsFiniteSet(nodes), NEW rows, NEW graph, GraphOf(graph, rows, nodes),
         NEW w \in Windows,
         NEW source \in graph.names, NEW target \in nodes, NEW K, K = Cardinality(nodes),
         NEW hop, hop = Hops(rows, nodes, w), NEW led, led = HostedBy(rows, nodes, source),
         NEW L, Levels(nodes, hop, source, K, L), NEW H, LedLevels(nodes, hop, led, source, K, H),
         NEW i \in Nat, NEW s \in SearchStates(nodes),
         SearchInv(nodes, hop, led, source, target, K, L, H, i, s)
  PROVE  SearchInv(nodes, hop, led, source, target, K, L, H, i + 1,
                   SearchRound(graph, source, target, w, s))
  <1> DEFINE F == FreshOf(graph, source, w, s)
             next == SearchRound(graph, source, target, w, s)
             Q == s.queue
             S == s.seen
  <1>1. next = IF s.answer # NoPath \/ s.queue = <<>> THEN s
               ELSE IF target \in ToSet(F) THEN [s EXCEPT !.answer = Append(Head(s.queue), target)]
               ELSE [s EXCEPT !.seen = @ \cup ToSet(F),
                              !.queue = Tail(@) \o [j \in 1..Len(F) |-> Append(Head(s.queue), F[j])]]
    BY DEF SearchRound, FreshOf
  <1>2. /\ s = [seen |-> s.seen, queue |-> s.queue, answer |-> s.answer]
        /\ S \in SUBSET nodes /\ Q \in Seq(Seq(nodes)) /\ s.answer \in Seq(nodes)
    BY DEF SearchStates
  <1>3. CASE s.answer # NoPath
    <2>1. next = s
      BY <1>1, <1>3
    <2> QED
      BY <1>3, <2>1 DEF SearchInv
  <1>4. CASE s.answer = NoPath /\ s.queue = <<>>
    <2>1. next = s
      BY <1>1, <1>4
    <2>2. Searched(nodes, hop, led, source, target, K, L, H, i, S, Q)
      BY <1>4 DEF SearchInv
    <2>3. Searched(nodes, hop, led, source, target, K, L, H, i + 1, S, Q)
      <3>1. Q = <<>> /\ Len(Q) = 0
        BY <1>4
      <3> HIDE DEF Q, S
      <3> QED
        BY <2>2, <3>1 DEF Searched
    <2> QED
      BY <1>4, <2>1, <2>3 DEF SearchInv
  <1>5. CASE s.answer = NoPath /\ s.queue # <<>>
    <2>1. Searched(nodes, hop, led, source, target, K, L, H, i, S, Q)
      BY <1>5 DEF SearchInv
    <2>2. /\ Q # <<>> /\ Len(Q) \in Nat \ {0} /\ 1 \in 1..Len(Q) /\ Q[1] \in Seq(nodes)
          /\ Head(Q) = Q[1]
      BY <1>2, <1>5
    <2>3. Len(Q[1]) > 0 /\ Len(Q[1]) \in Nat /\ Q[1][1] = source
      <3>1. RightWay(nodes, hop, led, source, K, L, H, Q[1])
        BY <2>1, <2>2 DEF Searched
      <3> QED
        BY <2>2, <3>1 DEF RightWay, WayFrom
    <2>4. Last(Q[1]) = Q[1][Len(Q[1])]
      BY DEF Last
    <2>5. Fresh(nodes, hop, led, S, Q[1], F)
      <3> DEFINE p == Q[1]
                 node == p[Len(p)]
                 near == OrderedNeighbors(graph, node, node = source, w)
      <3>1. \A x, y : y \in BOOLEAN => NearIs(rows, nodes, w, x, y /\ x \in graph.names, OrderedNeighbors(graph, x, y, w))
        BY NeighboursAreHops DEF GraphOf
      <3>2. NearIs(rows, nodes, w, node, (node = source) /\ node \in graph.names, near)
        BY <3>1
      <3>3. (node = source) /\ node \in graph.names <=> node = source
        OBVIOUS
      <3>4. NearIs(rows, nodes, w, node, node = source, near)
        <4> HIDE DEF near
        <4> QED
          BY <3>2, <3>3 DEF NearIs
      <3>5. F = Filtered(near, ToSet(near) \ S)
        BY <2>2, <2>4 DEF FreshOf
      <3> HIDE DEF near
      <3>6. p \in Seq(nodes) /\ Len(p) > 0 /\ p[1] = source
        BY <2>2, <2>3
      <3> HIDE DEF p, S
      <3>7. Fresh(nodes, Hops(rows, nodes, w), HostedBy(rows, nodes, source), S, p, Filtered(near, ToSet(near) \ S))
        BY <3>4, <3>6, FilteredIsFresh, Zenon
      <3> QED
        BY <3>5, <3>7 DEF p
    <2> HIDE DEF F
    <2>6. F \in Seq(nodes) /\ ToSet(F) = {b \in nodes : <<Q[1][Len(Q[1])], b>> \in hop} \ S
      BY <2>5 DEF Fresh
    <2>7. CASE target \in ToSet(F)
      <3>1. target \in nodes /\ target \notin S /\ <<Q[1][Len(Q[1])], target>> \in hop
        BY <2>6, <2>7
      <3>2. Len(Q[1]) <= K
        BY <2>1, <2>2, HeadIsShort, Zenon
      <3>3. K \in Nat
        BY FS_CardinalityType
      <3>4. RightWay(nodes, hop, led, source, K, L, H, Append(Q[1], target))
        BY <2>1, <2>2, <3>1, <3>2, <3>3, HeadGoesOn, Zenon
      <3>5. next = [seen |-> S, queue |-> Q, answer |-> Append(Q[1], target)]
        BY <1>1, <1>2, <1>5, <2>2, <2>7
      <3>6. next.answer = Append(Q[1], target)
        BY <3>5
      <3> DEFINE more == Append(Q[1], target)
      <3>7. Len(more) = Len(Q[1]) + 1 /\ more[Len(more)] = target /\ more # <<>>
        <4>1. Len(more) = Len(Q[1]) + 1 /\ more[Len(more)] = target /\ Len(more) > 1
          BY <2>2, <2>3, PathExtended
        <4> HIDE DEF more
        <4> QED
          BY <4>1
      <3>8. next.answer = more /\ next.answer # NoPath
        BY <3>6, <3>7 DEF NoPath
      <3> HIDE DEF more, next
      <3>9. Answered(nodes, hop, led, source, target, K, L, H, next.answer)
        BY <3>4, <3>7, <3>8 DEF Answered, more
      <3> QED
        BY <3>8, <3>9 DEF SearchInv, next
    <2>8. CASE target \notin ToSet(F)
      <3>1. IsNextQueue(nodes, Q, F, NextQueue(Q, F))
        BY <1>2, <2>2, <2>6, NextQueueIs
      <3>2. Searched(nodes, hop, led, source, target, K, L, H, i + 1, S \cup ToSet(F), NextQueue(Q, F))
        BY <2>1, <2>2, <2>5, <2>8, <3>1, RoundGoesOn, Zenon
      <3>3. NextQueue(Q, F) = Tail(Q) \o [j \in 1..Len(F) |-> Append(Head(Q), F[j])]
        BY <2>2 DEF NextQueue
      <3>4. next = [seen |-> S \cup ToSet(F), queue |-> NextQueue(Q, F), answer |-> NoPath]
        BY <1>1, <1>2, <1>5, <2>8, <3>3
      <3>5. next.answer = NoPath /\ next.seen = S \cup ToSet(F) /\ next.queue = NextQueue(Q, F)
        BY <3>4
      <3> QED
        BY <3>2, <3>5 DEF SearchInv
    <2> QED
      BY <2>7, <2>8
  <1> QED
    BY <1>3, <1>4, <1>5

-----------------------------------------------------------------------------
(* All the rounds *)

RoundsOf(graph) == 2 * Len(graph.edges) + 1

SearchStart(source) == [seen |-> {source}, queue |-> << <<source>> >>, answer |-> NoPath]

SearchStep(graph, source, target, w, f, n) ==
  IF n = 0 THEN SearchStart(source) ELSE SearchRound(graph, source, target, w, f[n - 1])

\* The path is the answer after the last of the rounds that ShortestPath goes through
LEMMA ShortestPathUnfold ==
  ASSUME NEW graph, NEW source, NEW target, NEW w, source # target
  PROVE  ShortestPath(graph, source, target, w) =
           (CHOOSE h : h = [n \in 0..RoundsOf(graph) |-> SearchStep(graph, source, target, w, h, n)])
              [RoundsOf(graph)].answer
  BY DEF ShortestPath, SearchStep, SearchStart, RoundsOf

SearchRun(graph, source, target, w, f) ==
  /\ f[0] = SearchStart(source)
  /\ \A n \in 1..RoundsOf(graph) : f[n] = SearchRound(graph, source, target, w, f[n - 1])
  /\ ShortestPath(graph, source, target, w) = f[RoundsOf(graph)].answer

\* The states of a search exist, from its start by one round after the other
LEMMA SearchSteps ==
  ASSUME NEW nodes, NEW rows, NEW graph, GraphOf(graph, rows, nodes), NEW w \in Windows,
         NEW source \in nodes, NEW target, source # target
  PROVE  \E f \in [0..RoundsOf(graph) -> SearchStates(nodes)] : SearchRun(graph, source, target, w, f)
  <1> DEFINE V == SearchStates(nodes)
             N == RoundsOf(graph)
             step == [iv \in (1..N) \X V |-> SearchRound(graph, source, target, w, iv[2])]
  <1>1. N \in Nat
    BY DEF GraphOf, RoundsOf
  <1>2. SearchStart(source) \in V
    BY DEF SearchStart, SearchStates, NoPath
  <1>3. \A v \in V : SearchRound(graph, source, target, w, v) \in V
    BY RoundType
  <1> HIDE DEF V, N
  <1>4. ASSUME NEW i \in 1..N, NEW v \in V
        PROVE  step[<<i, v>>] = SearchRound(graph, source, target, w, v)
    <2>1. <<i, v>> \in (1..N) \X V /\ <<i, v>>[2] = v
      OBVIOUS
    <2> QED
      BY <2>1
  <1> HIDE DEF step
  <1>5. StepsIn(step, N, V)
    BY <1>3, <1>4 DEF StepsIn
  <1>6. PICK f \in [0..N -> V] : f[0] = SearchStart(source) /\ \A i \in 1..N : f[i] = step[<<i, f[i - 1]>>]
    BY <1>1, <1>2, <1>5, SolutionExists
  <1>7. ASSUME NEW i \in 1..N PROVE f[i] = SearchRound(graph, source, target, w, f[i - 1])
    <2>1. i - 1 \in 0..N /\ f[i - 1] \in V
      BY <1>1
    <2> QED
      BY <1>4, <1>6, <2>1
  <1>8. f = [n \in 0..N |-> SearchStep(graph, source, target, w, f, n)]
    <2>1. \A i \in 0..N : f[i] = SearchStep(graph, source, target, w, f, i)
      BY <1>1, <1>6, <1>7 DEF SearchStep
    <2> QED
      BY <2>1
  <1> DEFINE h == CHOOSE h : h = [n \in 0..N |-> SearchStep(graph, source, target, w, h, n)]
  <1>9. h = [n \in 0..N |-> SearchStep(graph, source, target, w, h, n)]
    BY <1>8
  <1>10. ShortestPath(graph, source, target, w) = h[N].answer
    <2>1. ShortestPath(graph, source, target, w) =
            (CHOOSE c : c = [n \in 0..RoundsOf(graph) |-> SearchStep(graph, source, target, w, c, n)])
               [RoundsOf(graph)].answer
      BY ONLY source # target, ShortestPathUnfold, ZenonT(60)
    <2> QED
      BY ONLY <2>1, Zenon DEF N, h
  <1> HIDE DEF h
  <1>11. h[N] = f[N]
    <2> DEFINE B == {j \in 0..N : h[j] = f[j]}
    <2>1. 0 \in B
      BY <1>1, <1>6, <1>9 DEF SearchStep
    <2>2. ASSUME NEW i \in 1..N, i - 1 \in B PROVE i \in B
      <3>1. i \in 0..N /\ i # 0 /\ h[i - 1] = f[i - 1]
        BY <1>1, <2>2
      <3>2. h[i] = SearchStep(graph, source, target, w, h, i)
        BY <1>9, <3>1
      <3>3. h[i] = f[i]
        <4>1. h[i] = SearchRound(graph, source, target, w, f[i - 1])
          BY <3>1, <3>2, Zenon DEF SearchStep
        <4> QED
          BY <1>7, <4>1, Zenon
      <3> QED
        BY <3>1, <3>3
    <2>3. N \in 0..N
      BY <1>1
    <2> HIDE DEF B
    <2>4. N \in B
      BY <1>1, <2>1, <2>2, <2>3, Onward
    <2> QED
      BY <2>4 DEF B
  <1>12. SearchRun(graph, source, target, w, f)
    BY <1>6, <1>7, <1>10, <1>11 DEF SearchRun, N
  <1> QED
    BY <1>12 DEF V, N

\* The start of a search
LEMMA SearchStarts ==
  ASSUME NEW nodes, NEW hop, NEW led, NEW source \in nodes, NEW target, source # target, NEW K \in Nat,
         NEW L, Levels(nodes, hop, source, K, L), NEW H
  PROVE  SearchInv(nodes, hop, led, source, target, K, L, H, 0, SearchStart(source))
  <1>1. ASSUME NEW i, i = 0, NEW S, S = {source}, NEW p, p = <<source>>, NEW Q, Q = <<p>>
        PROVE  Searched(nodes, hop, led, source, target, K, L, H, i, S, Q)
    <2>1. /\ Q \in Seq(Seq(nodes)) /\ Len(Q) = 1 /\ Q[1] = p
          /\ p \in Seq(nodes) /\ Len(p) = 1 /\ p[1] = source
      BY <1>1
    <2>2. L[0] = S
      BY <1>1 DEF Levels
    <2>3. RightWay(nodes, hop, led, source, K, L, H, p)
      BY <1>1, <2>1, <2>2 DEF RightWay, WayFrom, Shortest, WellLed
    <2>4. QueueInOrder(Q) /\ LedFirst(led, Q)
      BY <2>1 DEF QueueInOrder, LedFirst
    <2>5. Closed(nodes, hop, S, Q)
      <3>1. 1 \in 1..Len(Q) /\ Q[1][Len(Q[1])] = source
        BY <2>1
      <3> QED
        BY <1>1, <3>1 DEF Closed
    <2>6. L[Len(Q[1]) - 1] \subseteq S /\ Cardinality(S) = i + Len(Q)
      <3>1. Cardinality({source}) = 1
        BY FS_Singleton
      <3> QED
        BY <1>1, <2>1, <2>2, <3>1
    <2>7. ASSUME NEW k \in 1..Len(Q)
          PROVE  /\ RightWay(nodes, hop, led, source, K, L, H, Q[k])
                 /\ Len(Q[k]) <= i + 1
                 /\ Len(Q[k]) = 1 => Len(Q) = 1
      <3>1. Q[k] = p
        BY <2>1
      <3> QED
        BY <1>1, <2>1, <2>3, <3>1
    <2>8. S \in SUBSET nodes /\ source \in S /\ target \notin S
      BY <1>1
    <2> QED
      BY <2>1, <2>4, <2>5, <2>6, <2>7, <2>8 DEF Searched
  <1>2. Searched(nodes, hop, led, source, target, K, L, H, 0, {source}, << <<source>> >>)
    BY <1>1
  <1> QED
    BY <1>2 DEF SearchInv, SearchStart

\* The end of a search that found nothing
LEMMA NothingLeft ==
  ASSUME NEW nodes, IsFiniteSet(nodes), NEW hop, NEW led, NEW source, NEW target \in nodes,
         NEW K, K = Cardinality(nodes), NEW L, Levels(nodes, hop, source, K, L), NEW H,
         NEW i \in Nat, i >= K, NEW S, NEW Q,
         Searched(nodes, hop, led, source, target, K, L, H, i, S, Q)
  PROVE  \A n \in 0..K : target \notin L[n]
  <1>1. Q \in Seq(Seq(nodes)) /\ Len(Q) \in Nat /\ K \in Nat /\ S \in SUBSET nodes /\ target \notin S /\ source \in S
    BY FS_CardinalityType DEF Searched
  <1>2. Q = <<>>
    <2> SUFFICES ASSUME Q # <<>> PROVE FALSE
      OBVIOUS
    <2>1. Len(Q) > 0 /\ Cardinality(S) = i + Len(Q)
      BY <1>1 DEF Searched
    <2>2. Cardinality(S) <= K
      BY <1>1, FS_Subset
    <2> QED
      BY <1>1, <2>1, <2>2
  <1>3. \A a \in S : \A b \in nodes : <<a, b>> \in hop => b \in S
    BY <1>1, <1>2 DEF Searched, Closed
  <1> DEFINE B == {n \in 0..K : L[n] \subseteq S}
  <1>4. 0 \in B
    BY <1>1 DEF Levels
  <1>5. ASSUME NEW n \in 1..K, n - 1 \in B PROVE n \in B
    <2>1. L[n] = L[n - 1] \cup {b \in nodes : \E a \in L[n - 1] : <<a, b>> \in hop}
      BY DEF Levels
    <2>2. L[n - 1] \subseteq S
      BY <1>5
    <2> QED
      <3>1. \A b \in L[n] : b \in S
        BY <1>3, <2>1, <2>2
      <3> QED
        BY <3>1
  <1> HIDE DEF B
  <1>6. \A n \in 0..K : n \in B
    BY <1>1, <1>4, <1>5, Onward
  <1> QED
    BY <1>1, <1>6 DEF B

\* What the search answers
LEMMA ShortestPathAnswers ==
  ASSUME NEW nodes, IsFiniteSet(nodes), NEW rows, NEW graph, GraphOf(graph, rows, nodes),
         NEW w \in Windows,
         NEW source \in graph.names, NEW target \in nodes, source # target,
         NEW K, K = Cardinality(nodes), K <= RoundsOf(graph),
         NEW hop, hop = Hops(rows, nodes, w), NEW led, led = HostedBy(rows, nodes, source),
         NEW L, Levels(nodes, hop, source, K, L), NEW H, LedLevels(nodes, hop, led, source, K, H),
         NEW path, path = ShortestPath(graph, source, target, w)
  PROVE  \/ path = NoPath /\ \A n \in 0..K : target \notin L[n]
         \/ Answered(nodes, hop, led, source, target, K, L, H, path) /\ path # NoPath
  <1> DEFINE N == RoundsOf(graph)
  <1>1. N \in Nat /\ K \in Nat /\ source \in nodes
    BY FS_CardinalityType DEF GraphOf, RoundsOf
  <1>2. PICK f \in [0..N -> SearchStates(nodes)] : SearchRun(graph, source, target, w, f)
    BY <1>1, SearchSteps
  <1> HIDE DEF N
  <1>3. /\ f[0] = SearchStart(source)
        /\ \A n \in 1..N : f[n] = SearchRound(graph, source, target, w, f[n - 1])
        /\ path = f[N].answer
    BY <1>2 DEF SearchRun, N
  <1> DEFINE Inv(n) == SearchInv(nodes, hop, led, source, target, K, L, H, n, f[n])
             B == {n \in 0..N : Inv(n)}
  <1>4. 0 \in B
    BY <1>1, <1>3, SearchStarts
  <1>5. ASSUME NEW n \in 1..N, n - 1 \in B PROVE n \in B
    <2>1. PICK m \in Nat : m = n - 1
      BY <1>1
    <2>2. m \in 0..N /\ n = m + 1 /\ Inv(m) /\ f[m] \in SearchStates(nodes)
      BY <1>1, <1>5, <2>1
    <2>3. SearchInv(nodes, hop, led, source, target, K, L, H, m + 1, SearchRound(graph, source, target, w, f[m]))
      BY <2>2, RoundKeeps, Zenon
    <2>4. f[n] = SearchRound(graph, source, target, w, f[m])
      BY <1>3, <2>1
    <2> QED
      BY <2>2, <2>3, <2>4
  <1>6. N \in 0..N
    BY <1>1
  <1> HIDE DEF B
  <1>7. N \in B
    BY <1>1, <1>4, <1>5, <1>6, Onward
  <1>8. SearchInv(nodes, hop, led, source, target, K, L, H, N, f[N])
    BY <1>7 DEF B
  <1>9. CASE path = NoPath
    <2>1. Searched(nodes, hop, led, source, target, K, L, H, N, f[N].seen, f[N].queue)
      BY <1>3, <1>8, <1>9 DEF SearchInv
    <2>2. N >= K
      BY <1>1 DEF N
    <2>3. \A n \in 0..K : target \notin L[n]
      BY <1>1, <2>1, <2>2, NothingLeft, Zenon
    <2> QED
      BY <1>9, <2>3
  <1>10. CASE path # NoPath
    BY <1>3, <1>8, <1>10 DEF SearchInv
  <1> QED
    BY <1>9, <1>10

-----------------------------------------------------------------------------
(* The reference: the names within n hops *)

ReachStep(rows, nodes, from, w, f, n) ==
  IF n = 0 THEN {from}
  ELSE f[n - 1] \cup {b \in nodes : \E a \in f[n - 1] : OneHop(rows, a, b, w)}

\* Within is the sequence of the names within 0, 1, 2, ... hops
LEMMA WithinUnfold ==
  ASSUME NEW rows, NEW from, NEW w, NEW nodes, nodes = NodesOf(rows) \cup {from}
  PROVE  Within(rows, from, w) =
           (CHOOSE f : f = [n \in 0..Cardinality(nodes) |-> ReachStep(rows, nodes, from, w, f, n)])
  BY DEF Within, ReachStep

\* They are the levels of the search from there
LEMMA WithinIsLevels ==
  ASSUME NEW rows, NEW nodes, nodes = NodesOf(rows), IsFiniteSet(nodes), NEW from \in nodes, NEW w
  PROVE  /\ DOMAIN Within(rows, from, w) = 0..Cardinality(nodes)
         /\ Levels(nodes, Hops(rows, nodes, w), from, Cardinality(nodes), Within(rows, from, w))
  <1> DEFINE K == Cardinality(nodes)
             V == SUBSET nodes
             next(u) == u \cup {b \in nodes : \E a \in u : OneHop(rows, a, b, w)}
             step == [iv \in (1..K) \X V |-> next(iv[2])]
             W == Within(rows, from, w)
  <1>1. K \in Nat /\ nodes = NodesOf(rows) \cup {from}
    BY FS_CardinalityType
  <1>2. {from} \in V
    OBVIOUS
  <1>3. \A v \in V : next(v) \in V
    OBVIOUS
  <1> HIDE DEF V, K
  <1>4. ASSUME NEW i \in 1..K, NEW v \in V PROVE step[<<i, v>>] = next(v)
    <2>1. <<i, v>> \in (1..K) \X V /\ <<i, v>>[2] = v
      OBVIOUS
    <2> HIDE DEF next
    <2> QED
      BY <2>1
  <1> HIDE DEF step, next
  <1>5. StepsIn(step, K, V)
    BY <1>3, <1>4 DEF StepsIn
  <1>6. PICK f \in [0..K -> V] : f[0] = {from} /\ \A i \in 1..K : f[i] = step[<<i, f[i - 1]>>]
    BY <1>1, <1>2, <1>5, SolutionExists
  <1>7. ASSUME NEW i \in 1..K PROVE f[i] = next(f[i - 1])
    <2>1. i - 1 \in 0..K /\ f[i - 1] \in V
      BY <1>1
    <2> QED
      BY <1>4, <1>6, <2>1
  <1>8. f = [n \in 0..K |-> ReachStep(rows, nodes, from, w, f, n)]
    <2>1. \A i \in 0..K : f[i] = ReachStep(rows, nodes, from, w, f, i)
      <3> TAKE i \in 0..K
      <3>1. CASE i = 0
        BY <1>6, <3>1 DEF ReachStep
      <3>2. CASE i # 0
        <4>1. i \in 1..K
          BY <1>1, <3>2
        <4> QED
          BY <1>7, <3>2, <4>1 DEF ReachStep, next
      <3> QED
        BY <3>1, <3>2
    <2> QED
      BY <2>1
  <1> DEFINE h == CHOOSE h : h = [n \in 0..K |-> ReachStep(rows, nodes, from, w, h, n)]
  <1>9. h = [n \in 0..K |-> ReachStep(rows, nodes, from, w, h, n)]
    BY <1>8
  <1>10. W = h
    BY <1>1, WithinUnfold DEF K
  <1> HIDE DEF h, W
  <1>11. DOMAIN W = 0..K /\ W = [n \in 0..K |-> ReachStep(rows, nodes, from, w, W, n)]
    BY <1>9, <1>10
  <1>12. \A n \in 0..K : W[n] \in V
    <2> DEFINE B == {j \in 0..K : W[j] \in V}
    <2>1. 0 \in B
      BY <1>1, <1>2, <1>11 DEF ReachStep
    <2>2. ASSUME NEW i \in 1..K, i - 1 \in B PROVE i \in B
      <3>1. i \in 0..K /\ i # 0 /\ W[i - 1] \in V
        BY <1>1, <2>2
      <3>2. W[i] = ReachStep(rows, nodes, from, w, W, i)
        BY <1>11, <3>1
      <3>3. W[i] = next(W[i - 1])
        BY <3>1, <3>2 DEF ReachStep, next
      <3> QED
        BY <1>3, <3>1, <3>3
    <2> HIDE DEF B
    <2>3. \A i \in 0..K : i \in B
      BY <1>1, <2>1, <2>2, Onward
    <2> QED
      BY <2>3 DEF B
  <1>13. W[0] = {from}
    BY <1>1, <1>11 DEF ReachStep
  <1>14. ASSUME NEW n \in 1..K
         PROVE  W[n] = W[n - 1] \cup {b \in nodes : \E a \in W[n - 1] : <<a, b>> \in Hops(rows, nodes, w)}
    <2>1. n \in 0..K /\ n # 0 /\ n - 1 \in 0..K
      BY <1>1
    <2>2. W[n] = W[n - 1] \cup {b \in nodes : \E a \in W[n - 1] : OneHop(rows, a, b, w)}
      BY <1>11, <2>1 DEF ReachStep
    <2>3. \A a \in W[n - 1] : a \in nodes
      BY <1>12, <2>1 DEF V
    <2>4. \A a \in nodes, b \in nodes : <<a, b>> \in Hops(rows, nodes, w) <=> OneHop(rows, a, b, w)
      BY DEF Hops
    <2> QED
      BY <2>2, <2>3, <2>4
  <1>15. Levels(nodes, Hops(rows, nodes, w), from, K, W)
    <2>1. W \in [0..K -> SUBSET nodes]
      BY <1>11, <1>12 DEF V
    <2> QED
      BY <1>13, <1>14, <2>1 DEF Levels
  <1> QED
    BY <1>11, <1>15 DEF K, W

\* There are led levels, for every set of nodes that leads
LEMMA LedLevelsExist ==
  ASSUME NEW nodes, NEW hop, NEW led, NEW source, NEW K \in Nat
  PROVE  \E H : LedLevels(nodes, hop, led, source, K, H)
  <1> DEFINE V == SUBSET nodes
             next(i, u) == u \cup {b \in nodes : \/ i = 1 /\ <<source, b>> \in hop /\ b \in led
                                                \/ \E a \in u : <<a, b>> \in hop}
             step == [iv \in (1..K) \X V |-> next(iv[1], iv[2])]
  <1>1. \A i \in 1..K : \A v \in V : next(i, v) \in V
    OBVIOUS
  <1>2. {} \in V
    OBVIOUS
  <1> HIDE DEF V
  <1>3. ASSUME NEW i \in 1..K, NEW v \in V PROVE step[<<i, v>>] = next(i, v)
    <2>1. <<i, v>> \in (1..K) \X V /\ <<i, v>>[1] = i /\ <<i, v>>[2] = v
      OBVIOUS
    <2> HIDE DEF next
    <2> QED
      BY <2>1
  <1> HIDE DEF step, next
  <1>4. StepsIn(step, K, V)
    BY <1>1, <1>3 DEF StepsIn
  <1>5. PICK H \in [0..K -> V] : H[0] = {} /\ \A i \in 1..K : H[i] = step[<<i, H[i - 1]>>]
    BY <1>2, <1>4, SolutionExists
  <1>6. ASSUME NEW n \in 1..K
        PROVE  H[n] = H[n - 1] \cup {b \in nodes : \/ n = 1 /\ <<source, b>> \in hop /\ b \in led
                                                  \/ \E a \in H[n - 1] : <<a, b>> \in hop}
    <2>1. H[n - 1] \in V
      OBVIOUS
    <2>2. H[n] = next(n, H[n - 1])
      BY <1>3, <1>5, <2>1
    <2> QED
      BY <2>2 DEF next
  <1>7. LedLevels(nodes, hop, led, source, K, H)
    BY <1>5, <1>6 DEF LedLevels, V
  <1> QED
    BY <1>7

Meets(nodes, target, K, H, B, m) ==
  \A n \in 1..K : n + m <= K => \A p \in nodes : p \in H[n] /\ p \in B[m] => target \in H[n + m]

\* A node that is led within n hops and m hops from the target leads to it within n + m
LEMMA LedMeets ==
  ASSUME NEW nodes, NEW hop, NEW led, NEW source, NEW target, NEW K \in Nat,
         \A a, b : <<a, b>> \in hop => <<b, a>> \in hop,
         NEW H, LedLevels(nodes, hop, led, source, K, H),
         NEW B, Levels(nodes, hop, target, K, B),
         NEW m \in 0..K
  PROVE  Meets(nodes, target, K, H, B, m)
  <1> DEFINE C == {k \in 0..K : \A n \in 1..K : n + k <= K =>
                     \A p \in nodes : p \in H[n] /\ p \in B[k] => target \in H[n + k]}
  <1>1. 0 \in C
    BY DEF Levels
  <1>2. ASSUME NEW k \in 1..K, k - 1 \in C PROVE k \in C
    <2> SUFFICES ASSUME NEW n \in 1..K, n + k <= K, NEW p \in nodes, p \in H[n], p \in B[k]
                 PROVE  target \in H[n + k]
      OBVIOUS
    <2>1. \A x \in 1..K : x + (k - 1) <= K =>
             \A q \in nodes : q \in H[x] /\ q \in B[k - 1] => target \in H[x + (k - 1)]
      BY <1>2
    <2>2. B[k] = B[k - 1] \cup {b \in nodes : \E a \in B[k - 1] : <<a, b>> \in hop}
      BY DEF Levels
    <2>3. CASE p \in B[k - 1]
      <3>1. target \in H[n + (k - 1)]
        BY <2>1, <2>3
      <3>2. PICK x \in 1..K : x = n + k /\ x - 1 = n + (k - 1)
        OBVIOUS
      <3>3. H[x] = H[x - 1] \cup {b \in nodes : \/ x = 1 /\ <<source, b>> \in hop /\ b \in led
                                               \/ \E a \in H[x - 1] : <<a, b>> \in hop}
        BY DEF LedLevels
      <3> QED
        BY <3>1, <3>2, <3>3
    <2>4. CASE p \notin B[k - 1]
      <3>1. PICK a \in B[k - 1] : <<a, p>> \in hop
        BY <2>2, <2>4
      <3>2. a \in nodes
        <4>1. k - 1 \in 0..K
          OBVIOUS
        <4>2. B[k - 1] \subseteq nodes
          BY <4>1 DEF Levels
        <4> QED
          BY <4>2
      <3>3. PICK x \in 1..K : x = n + 1 /\ x - 1 = n
        OBVIOUS
      <3>4. a \in H[x]
        <4>1. <<p, a>> \in hop
          BY <3>1
        <4>2. p \in H[x - 1]
          BY <3>3
        <4> QED
          BY <3>2, <4>1, <4>2 DEF LedLevels
      <3>5. x + (k - 1) = n + k /\ x + (k - 1) <= K
        BY <3>3
      <3>6. target \in H[x + (k - 1)]
        BY <2>1, <3>2, <3>4, <3>5
      <3> QED
        BY <3>5, <3>6
    <2> QED
      BY <2>3, <2>4
  <1> HIDE DEF C
  <1>3. m \in C
    BY <1>1, <1>2, Onward
  <1> QED
    BY <1>3 DEF C, Meets

\* The search finds a shortest path to every node that has one, led by a hosted
\* podcast if one can be, and nothing to the others; also from a name to itself
\* (SixDegreesGraph.shortest_path)
THEOREM SearchAnswers ==
  ASSUME NEW nodes, IsFiniteSet(nodes), NEW rows, NEW graph, GraphOf(graph, rows, nodes),
         NEW w \in Windows,
         NEW source \in graph.names, NEW target \in nodes,
         NEW K, K = Cardinality(nodes), K <= RoundsOf(graph),
         NEW hop, hop = Hops(rows, nodes, w), NEW led, led = HostedBy(rows, nodes, source),
         NEW L, Levels(nodes, hop, source, K, L), NEW H, LedLevels(nodes, hop, led, source, K, H),
         NEW path, path = ShortestPath(graph, source, target, w)
  PROVE  \/ path = NoPath /\ \A n \in 0..K : target \notin L[n]
         \/ Answered(nodes, hop, led, source, target, K, L, H, path) /\ path # NoPath
  <1>1. CASE source = target
    <2>1. path = <<source>>
      BY <1>1 DEF ShortestPath
    <2>2. K \in Nat /\ source \in nodes
      BY FS_CardinalityType DEF GraphOf
    <2>3. path \in Seq(nodes) /\ Len(path) = 1 /\ path[1] = source /\ path # NoPath
      BY <2>1, <2>2 DEF NoPath
    <2>4. L[0] = {source}
      BY DEF Levels
    <2>5. RightWay(nodes, hop, led, source, K, L, H, path)
      BY <2>2, <2>3, <2>4 DEF RightWay, WayFrom, Shortest, WellLed
    <2> QED
      BY <1>1, <2>3, <2>5 DEF Answered
  <1>2. CASE source # target
    BY <1>2, ShortestPathAnswers, Zenon
  <1> QED
    BY <1>1, <1>2

\* The number of hops to the target, as the reference finds it
FarOf(K, L, target) == CHOOSE n \in 0..K : target \in L[n] /\ (n = 0 \/ target \notin L[n - 1])

\* It is the level the target first comes up in
LEMMA FarIs ==
  ASSUME NEW nodes, NEW hop, NEW source, NEW target, NEW K \in Nat,
         NEW L, Levels(nodes, hop, source, K, L),
         NEW d \in 0..K, target \in L[d], d > 0 => target \notin L[d - 1]
  PROVE  FarOf(K, L, target) = d
  <1>1. target \in L[d] /\ (d = 0 \/ target \notin L[d - 1])
    OBVIOUS
  <1>2. ASSUME NEW n \in 0..K, target \in L[n], n = 0 \/ target \notin L[n - 1] PROVE n = d
    <2>1. ASSUME n < d PROVE FALSE
      <3>1. PICK e \in 0..K : e = d - 1
        BY <2>1
      <3>2. n <= e
        BY <2>1, <3>1
      <3>3. L[n] \subseteq L[e]
        BY <3>2, LevelsGrow
      <3> QED
        BY <1>2, <2>1, <3>1, <3>3
    <2>2. ASSUME d < n PROVE FALSE
      <3>1. PICK e \in 0..K : e = n - 1
        BY <2>2
      <3>2. d <= e
        BY <2>2, <3>1
      <3>3. L[d] \subseteq L[e]
        BY <3>2, LevelsGrow
      <3> QED
        BY <1>2, <2>2, <3>1, <3>3
    <2> QED
      BY <2>1, <2>2
  <1> QED
    BY <1>1, <1>2 DEF FarOf

\* An answer is a right path
LEMMA AnsweredIsRight ==
  ASSUME NEW rows, NEW nodes, nodes = NodesOf(rows), IsFiniteSet(nodes), NEW w,
         NEW source \in nodes, NEW target \in nodes,
         NEW K, K = Cardinality(nodes), NEW hop, hop = Hops(rows, nodes, w),
         NEW led, led = HostedBy(rows, nodes, source),
         NEW L, L = Within(rows, source, w), NEW H, LedLevels(nodes, hop, led, source, K, H),
         NEW path,
         \/ path = NoPath /\ \A n \in 0..K : target \notin L[n]
         \/ Answered(nodes, hop, led, source, target, K, L, H, path) /\ path # NoPath
  PROVE  RightPath(rows, source, target, w, path)
  <1> DEFINE far == FarOf(K, L, target)
             back == Within(rows, target, w)
             onward(p) == OneHop(rows, source, p, w) /\ p \in back[far - 1]
             hosted(p) == Hosts(Together(rows, source, p))
             right == /\ Len(path) = far + 1
                      /\ path[1] = source /\ path[Len(path)] = target
                      /\ \A i \in 1..far : OneHop(rows, path[i], path[i + 1], w)
                      /\ (far > 0 /\ \E p \in NodesOf(rows) : onward(p) /\ hosted(p)) => hosted(path[2])
  <1>1. K \in Nat /\ DOMAIN L = 0..K /\ Levels(nodes, hop, source, K, L) /\ Levels(nodes, hop, target, K, back)
    BY FS_CardinalityType, WithinIsLevels
  <1>2. RightPath(rows, source, target, w, path) <=>
           IF \A n \in 0..K : target \notin L[n] THEN path = NoPath ELSE right
    BY <1>1 DEF RightPath, FarOf
  <1>3. CASE path = NoPath /\ \A n \in 0..K : target \notin L[n]
    BY <1>2, <1>3
  <1>4. CASE Answered(nodes, hop, led, source, target, K, L, H, path)
    <2> DEFINE d == Len(path) - 1
    <2>1. /\ path \in Seq(nodes) /\ Len(path) \in Nat /\ Len(path) > 0 /\ path[1] = source
          /\ \A m \in 1..(Len(path) - 1) : <<path[m], path[m + 1]>> \in hop
          /\ path[Len(path)] = target
      BY <1>4 DEF Answered, RightWay, WayFrom
    <2>2. d \in 0..K /\ target \in L[d] /\ (d > 0 => target \notin L[d - 1])
      <3>1. d \in 0..K /\ target \in L[d] /\ (Len(path) > 1 => target \notin L[Len(path) - 2])
        BY <1>4, <2>1 DEF Answered, RightWay, Shortest
      <3>2. Len(path) - 2 = d - 1
        BY <2>1
      <3> QED
        BY <2>1, <3>1, <3>2
    <2>3. far = d
      <3>1. PICK e \in 0..K : e = d
        BY <2>2
      <3>2. target \in L[e] /\ (e > 0 => target \notin L[e - 1])
        BY <2>2, <3>1
      <3>3. FarOf(K, L, target) = e
        <4>1. K \in Nat /\ Levels(nodes, hop, source, K, L)
          BY <1>1
        <4>2. target \in L[e]
          BY <3>2
        <4>3. e > 0 => target \notin L[e - 1]
          BY <3>2
        <4> QED
          BY ONLY e \in 0..K, <4>1, <4>2, <4>3, FarIs, Zenon
      <3> QED
        BY <3>1, <3>3
    <2>4. Len(path) = far + 1
      <3> HIDE DEF far
      <3> QED
        BY <2>1, <2>3
    <2> HIDE DEF far, back, d
    <2>5. ASSUME NEW i \in 1..far PROVE OneHop(rows, path[i], path[i + 1], w)
      <3>1. <<path[i], path[i + 1]>> \in hop
        BY <2>1, <2>3 DEF d
      <3> QED
        BY <3>1 DEF Hops
    <2>6. ASSUME far > 0, NEW p \in nodes, OneHop(rows, source, p, w), p \in back[far - 1], hosted(p)
          PROVE  hosted(path[2])
      <3>1. PICK m \in 0..K : m = far - 1 /\ 1 + m = far /\ 1 \in 1..K /\ 0 \in 0..K
        BY <1>1, <2>2, <2>3, <2>6
      <3>2. p \in H[1]
        <4>1. <<source, p>> \in hop /\ p \in led
          BY <2>6 DEF Hops, HostedBy
        <4> QED
          BY <3>1, <4>1 DEF LedLevels
      <3>3. \A a, b : <<a, b>> \in hop => <<b, a>> \in hop
        BY HopsBothWays DEF Hops
      <3>4. target \in H[1 + m]
        <4>1. \A n \in 1..K : n + m <= K => \A q \in nodes : q \in H[n] /\ q \in back[m] => target \in H[n + m]
          <5>1. Meets(nodes, target, K, H, back, m)
            BY <1>1, <3>3, LedMeets, Zenon
          <5> QED
            BY <5>1 DEF Meets
        <4>2. 1 + m <= K
          BY <1>1, <2>2, <2>3, <3>1
        <4> QED
          BY <2>6, <3>1, <3>2, <4>1, <4>2
      <3>5. Len(path) > 1 /\ path[Len(path)] \in H[Len(path) - 1]
        <4>1. Len(path) - 1 = 1 + m
          BY <2>1, <2>3, <3>1 DEF d
        <4> QED
          BY <2>1, <2>6, <2>3, <3>4, <4>1 DEF d
      <3>6. path[2] \in led
        BY <1>4, <3>5 DEF Answered, RightWay, WellLed
      <3> QED
        BY <3>6 DEF HostedBy
    <2>7. right
      BY <2>1, <2>4, <2>5, <2>6
    <2>8. ~ \A n \in 0..K : target \notin L[n]
      BY <2>2
    <2> QED
      BY <1>2, <2>7, <2>8
  <1> QED
    BY <1>3, <1>4

-----------------------------------------------------------------------------
(* Shapes *)

Graph == [linksAt : Nat, episodesAt : Nat, guestsAt : Nat, rows : Nat]
Waiting == {"idle", "wait"}
ThreadState == [pc : Waiting \cup Loading, began : Nat, read : Graph, graph : Graph \cup {None},
                bytes : SUBSET Graph, whole : BOOLEAN, floor : Nat]
Kept == [stamp : Nat, graph : Graph]
FileState == [bytes : SUBSET Graph, writers : SUBSET Thread, torn : BOOLEAN]

\* What a thread has read of the database is of versions there were
ReadExists(s) ==
  /\ s.pc \in {"episodes", "guests", "rows"} => s.read.linksAt \in DOMAIN Versions
  /\ s.pc \in {"guests", "rows"} => s.read.episodesAt \in DOMAIN Versions
  /\ s.pc = "rows" => s.read.guestsAt \in DOMAIN Versions

\* Every variable has its type, as far as the theorems need it
ShapeOK ==
  /\ db \in Nat /\ now \in Nat
  /\ bucket \in Graph \cup {None}
  /\ file \in FileState
  /\ cache \in [Worker -> Kept \cup {None}]
  /\ lock \in [Worker -> Thread \cup {None}]
  /\ thread \in [Thread -> ThreadState]
  /\ \A t \in Thread : /\ t \in file.writers <=> thread[t].pc = "downloading"
                       /\ t \in file.writers => thread[t].graph \in Graph

\* The floor is the oldest of what may come to be read
LEMMA FloorIsLeast ==
  ASSUME ShapeOK, NEW built \in Graph
  PROVE  /\ FloorOf(built) \in Nat
         /\ FloorOf(built) <= built.rows
         /\ \A u \in file.writers : FloorOf(built) <= thread[u].graph.rows
  <1> DEFINE rows == {b.rows : b \in Downloads \cup {built}}
  <1>1. \A b \in Downloads \cup {built} : b \in Graph
    BY DEF Downloads, ShapeOK, FileState
  <1>2. rows \in SUBSET Nat /\ rows # {}
    BY <1>1 DEF Graph
  <1>3. \E n \in rows : \A m \in rows : n <= m
    <2> HIDE DEF rows
    <2> QED
      BY <1>2, LeastNumber
  <1>4. FloorOf(built) \in rows /\ \A m \in rows : FloorOf(built) <= m
    <2>1. FloorOf(built) = CHOOSE n \in rows : \A m \in rows : n <= m
      BY DEF FloorOf
    <2> HIDE DEF rows
    <2> QED
      BY <1>3, <2>1
  <1>5. built.rows \in rows /\ \A u \in file.writers : thread[u].graph.rows \in rows
    BY DEF Downloads
  <1> QED
    BY <1>2, <1>4, <1>5

\* A thread that has nothing to do
LEMMA IdleHasType ==
  /\ Idle \in ThreadState /\ Idle.pc = "idle"
  /\ Idle.floor = 0 /\ Idle.bytes = {}
  <1>1. Built(0, 0, 0, 0) \in Graph
    BY DEF Built, Graph
  <1> QED
    BY <1>1 DEF Idle, ThreadState, Waiting

\* The initial state has its types
LEMMA ShapeInit == Init => ShapeOK
  <1> SUFFICES ASSUME Init PROVE ShapeOK
    OBVIOUS
  <1>1. Built(1, 1, 1, 1) \in Graph
    BY DEF Built, Graph
  <1>2. Idle \in ThreadState /\ Idle.pc = "idle"
    BY IdleHasType
  <1>3. bucket \in Graph \cup {None}
    BY <1>1 DEF Init
  <1>4. /\ thread \in [Thread -> ThreadState]
        /\ \A t \in Thread : thread[t].pc = "idle" /\ t \notin file.writers
    BY <1>2 DEF Init
  <1> QED
    BY <1>3, <1>4 DEF Init, ShapeOK, FileState

\* A graph that was read comes into the cache, and its thread is done
LEMMA ShapeStored ==
  ASSUME ShapeOK, NEW t \in Thread, NEW built \in Graph, StoreInCache(t, built)
  PROVE  /\ cache' \in [Worker -> Kept \cup {None}]
         /\ lock' \in [Worker -> Thread \cup {None}]
         /\ thread' \in [Thread -> ThreadState]
  <1>1. [stamp |-> now, graph |-> built] \in Kept
    BY DEF ShapeOK, Kept
  <1>2. Idle \in ThreadState
    BY IdleHasType
  <1> QED
    BY <1>1, <1>2, GraphCacheAssumption DEF StoreInCache, Release, ShapeOK

\* What is left of the file when writers break off
LEMMA BrokenOff ==
  ASSUME ShapeOK, NEW writers, BreakOff(writers)
  PROVE  /\ file' \in FileState
         /\ file'.writers = file.writers \ writers
         /\ file'.bytes \subseteq file.bytes
  BY DEF BreakOff, ShapeOK, FileState

\* A read of the database: what a thread knows of it so far
LEMMA ThreadReads ==
  ASSUME ShapeOK, NEW t \in Thread, ReadLinks(t) \/ ReadEpisodes(t) \/ ReadGuests(t)
  PROVE  /\ UNCHANGED <<db, now, bucket, file, cache, lock>>
         /\ thread' \in [Thread -> ThreadState]
         /\ \A u \in Thread \ {t} : thread'[u] = thread[u]
         /\ thread[t].pc \in Reading /\ thread'[t].pc \in Reading
         /\ thread'[t].began = thread[t].began /\ thread'[t].floor = thread[t].floor
         /\ thread'[t].bytes = thread[t].bytes
         /\ db \in DOMAIN Versions /\ ReadExists(thread[t]) => ReadExists(thread'[t])
  <1> USE DEF ShapeOK
  <1>0. thread[t] \in ThreadState
    OBVIOUS
  <1> DEFINE read == thread[t].read
  <1>1. read \in Graph
    BY <1>0 DEF ThreadState
  <1>2. PICK pc, next, more :
          /\ ReadNext(t, pc, next, more)
          /\ \/ /\ pc = "links" /\ next = "episodes"
                /\ more = [read EXCEPT !.linksAt = db]
             \/ /\ pc = "episodes" /\ next = "guests"
                /\ more = [read EXCEPT !.episodesAt = db]
             \/ /\ pc = "guests" /\ next = "rows"
                /\ more = [read EXCEPT !.guestsAt = db]
    BY DEF ReadLinks, ReadEpisodes, ReadGuests
  <1>3. more \in Graph /\ pc \in Reading /\ next \in Reading /\ next \in Loading
    BY <1>1, <1>2 DEF Graph, Reading, Loading
  <1>4. thread' = [thread EXCEPT ![t] = [thread[t] EXCEPT !.pc = next, !.read = more]]
    BY <1>2 DEF ReadNext
  <1>5. /\ thread'[t] = [thread[t] EXCEPT !.pc = next, !.read = more]
        /\ \A u \in Thread \ {t} : thread'[u] = thread[u]
    BY <1>4
  <1>6. thread'[t] \in ThreadState
    BY <1>0, <1>3, <1>5 DEF ThreadState
  <1>7. /\ thread'[t].pc = next /\ thread'[t].read = more /\ thread[t].pc = pc
        /\ thread'[t].began = thread[t].began /\ thread'[t].floor = thread[t].floor
        /\ thread'[t].bytes = thread[t].bytes
    BY <1>0, <1>2, <1>5 DEF ThreadState, ReadNext
  <1>8. ASSUME db \in DOMAIN Versions, ReadExists(thread[t]) PROVE ReadExists(thread'[t])
    BY <1>1, <1>2, <1>7, <1>8 DEF ReadExists, Graph
  <1>9. thread' \in [Thread -> ThreadState]
    BY <1>4, <1>5, <1>6
  <1> QED
    BY <1>2, <1>3, <1>5, <1>7, <1>8, <1>9 DEF ReadNext

\* An upload: it may lower the floor of a load that is under way
LEMMA PublishKeeps ==
  ASSUME ShapeOK, PublishGraphArtifact
  PROVE  /\ bucket' \in Graph /\ bucket' \in ReadSoFar /\ bucket'.rows <= db
         /\ UNCHANGED <<db, now, file, cache, lock>>
         /\ thread' \in [Thread -> ThreadState]
         /\ \A u \in Thread :
               /\ thread'[u].pc = thread[u].pc /\ thread'[u].began = thread[u].began
               /\ thread'[u].read = thread[u].read /\ thread'[u].graph = thread[u].graph
               /\ thread'[u].bytes = thread[u].bytes
               /\ thread'[u].floor <= thread[u].floor
               /\ thread[u].pc \in Fetching => thread'[u].floor <= bucket'.rows
  <1> USE DEF ShapeOK
  <1>1. PICK built \in ReadSoFar \cap Uploads :
          /\ bucket' = built
          /\ thread' = [u \in Thread |->
                IF thread[u].pc \in Fetching /\ built.rows < thread[u].floor
                THEN [thread[u] EXCEPT !.floor = built.rows] ELSE thread[u]]
    BY DEF PublishGraphArtifact
  <1>2. built \in Graph /\ built.rows \in Nat /\ built.rows <= db
    BY DEF ReadSoFar, Graph
  <1>3. ASSUME NEW u \in Thread
        PROVE  /\ thread'[u] \in ThreadState
               /\ thread'[u].pc = thread[u].pc /\ thread'[u].began = thread[u].began
               /\ thread'[u].read = thread[u].read /\ thread'[u].graph = thread[u].graph
               /\ thread'[u].bytes = thread[u].bytes
               /\ thread'[u].floor <= thread[u].floor
               /\ thread[u].pc \in Fetching => thread'[u].floor <= built.rows
    <2>1. thread[u] \in ThreadState /\ thread[u].floor \in Nat
      BY DEF ThreadState
    <2>2. CASE thread[u].pc \in Fetching /\ built.rows < thread[u].floor
      <3>1. thread'[u] = [thread[u] EXCEPT !.floor = built.rows]
        BY <1>1, <2>2
      <3> QED
        BY <1>2, <2>1, <2>2, <3>1 DEF ThreadState
    <2>3. CASE ~(thread[u].pc \in Fetching /\ built.rows < thread[u].floor)
      <3>1. thread'[u] = thread[u]
        BY <1>1, <2>3
      <3> QED
        BY <1>2, <2>1, <2>3, <3>1
    <2> QED
      BY <2>2, <2>3
  <1>4. thread' \in [Thread -> ThreadState]
    BY <1>1, <1>3
  <1> QED
    BY <1>1, <1>2, <1>3, <1>4 DEF PublishGraphArtifact

\* Every step of a thread keeps the types
LEMMA ShapeThread ==
  ASSUME ShapeOK, NEW t \in Thread, Request(t) \/ Step(t)
  PROVE  ShapeOK'
  <1> USE DEF ShapeOK
  <1>0. /\ thread[t] \in ThreadState /\ WorkerOf[t] \in Worker
        /\ bucket # None => bucket \in Graph
    BY GraphCacheAssumption
  <1>1. CASE Request(t)
    <2>1. \A pc \in Waiting : [thread[t] EXCEPT !.pc = pc] \in ThreadState
      BY <1>0 DEF ThreadState
    <2>2. \E pc \in Waiting : thread' = [thread EXCEPT ![t] = [thread[t] EXCEPT !.pc = pc]]
      BY <1>1 DEF Request, Goto, Waiting
    <2>3. thread'[t].pc # "downloading" /\ \A u \in Thread \ {t} : thread'[u] = thread[u]
      BY <1>0, <2>2 DEF ThreadState, Waiting
    <2>4. thread' \in [Thread -> ThreadState]
      BY <2>1, <2>2
    <2> QED
      BY <1>1, <2>3, <2>4 DEF Request
  <1>2. CASE AcquireLock(t)
    <2>1. /\ [thread[t] EXCEPT !.pc = "idle"] \in ThreadState
          /\ [thread[t] EXCEPT !.pc = "download", !.began = now] \in ThreadState
      BY <1>0 DEF ThreadState, Waiting, Loading, Fetching, Reading
    <2>2. \/ thread' = [thread EXCEPT ![t] = [thread[t] EXCEPT !.pc = "idle"]] /\ lock' = lock
          \/ /\ thread' = [thread EXCEPT ![t] = [thread[t] EXCEPT !.pc = "download", !.began = now]]
             /\ lock' = [lock EXCEPT ![WorkerOf[t]] = t]
      BY <1>2 DEF AcquireLock, Goto
    <2>3. thread'[t].pc # "downloading" /\ \A u \in Thread \ {t} : thread'[u] = thread[u]
      <3>1. CASE thread' = [thread EXCEPT ![t] = [thread[t] EXCEPT !.pc = "idle"]]
        BY <1>0, <3>1 DEF ThreadState
      <3>2. CASE thread' = [thread EXCEPT ![t] = [thread[t] EXCEPT !.pc = "download", !.began = now]]
        BY <1>0, <3>2 DEF ThreadState
      <3> QED
        BY <2>2, <3>1, <3>2
    <2>4. thread' \in [Thread -> ThreadState] /\ lock' \in [Worker -> Thread \cup {None}]
      BY <1>0, <2>1, <2>2
    <2> QED
      BY <1>2, <2>3, <2>4 DEF AcquireLock
  <1>3. CASE BeginDownload(t)
    <2>1. bucket \in Graph /\ FloorOf(bucket) \in Nat
      BY <1>0, <1>3, FloorIsLeast DEF BeginDownload
    <2>2. Downloads \subseteq Graph
      BY DEF Downloads, FileState
    <2>3. [thread[t] EXCEPT !.pc = "downloading", !.graph = bucket, !.floor = FloorOf(bucket)]
            \in ThreadState
      BY <1>0, <2>1 DEF ThreadState, Loading, Fetching, Reading
    <2>4. \A u \in Thread : [thread[u] EXCEPT !.bytes = @ \cup {bucket}, !.whole = FALSE]
                              \in ThreadState
      <3>1. \A u \in Thread : thread[u] \in ThreadState
        OBVIOUS
      <3> QED
        BY ONLY <3>1, <2>1 DEF ThreadState
    <2>5. thread' \in [Thread -> ThreadState]
      BY <1>3, <2>3, <2>4 DEF BeginDownload
    <2>6. file' \in FileState
      BY <1>3, <2>1, <2>2 DEF BeginDownload, FileState
    <2>7. thread'[t].graph = bucket /\ thread'[t].pc = "downloading"
      BY <1>0, <1>3 DEF BeginDownload, ThreadState
    <2>8. \A u \in Thread \ {t} : /\ thread'[u].graph = thread[u].graph
                                /\ thread'[u].pc = thread[u].pc
      BY <1>3, ZenonT(60) DEF BeginDownload, ThreadState
    <2>9. file'.writers = file.writers \cup {t}
      BY <1>3 DEF BeginDownload
    <2> QED
      BY <1>3, <2>1, <2>5, <2>6, <2>7, <2>8, <2>9 DEF BeginDownload
  <1>4. CASE EndDownload(t)
    <2> DEFINE whole == /\ file.writers \subseteq {t} /\ ~file.torn
                      /\ Cardinality(file.bytes) = 1
    <2>1. [thread[t] EXCEPT !.pc = "load", !.graph = None, !.bytes = file.bytes, !.whole = whole]
            \in ThreadState
      <3> whole \in BOOLEAN
        OBVIOUS
      <3> HIDE DEF whole
      <3> QED
        BY <1>0 DEF ThreadState, FileState, Loading, Fetching, Reading
    <2>2. thread' = [thread EXCEPT ![t] = [thread[t] EXCEPT !.pc = "load", !.graph = None,
                                             !.bytes = file.bytes, !.whole = whole]]
      BY <1>4 DEF EndDownload
    <2> HIDE DEF whole
    <2>3. /\ thread' \in [Thread -> ThreadState] /\ thread'[t].pc # "downloading"
          /\ \A u \in Thread \ {t} : thread'[u] = thread[u]
      BY <1>0, <2>1, <2>2 DEF ThreadState
    <2>4. /\ file'.writers = file.writers \ {t}
          /\ file' \in FileState
      BY <1>4 DEF EndDownload, FileState
    <2> QED
      BY <1>4, <2>3, <2>4 DEF EndDownload
  <1>5. CASE DownloadFails(t)
    <2>1. [thread[t] EXCEPT !.pc = "links", !.floor = 0, !.graph = None] \in ThreadState
      BY <1>0 DEF ThreadState, Loading, Fetching, Reading
    <2>2. thread' = [thread EXCEPT ![t] = [thread[t] EXCEPT !.pc = "links", !.floor = 0, !.graph = None]]
      BY <1>5 DEF DownloadFails
    <2>3. /\ thread' \in [Thread -> ThreadState] /\ thread'[t].pc # "downloading"
          /\ \A u \in Thread \ {t} : thread'[u] = thread[u]
      BY <1>0, <2>1, <2>2 DEF ThreadState
    <2>4. /\ file'.writers = file.writers \ {t}
          /\ file' \in FileState
      BY <1>5, BrokenOff DEF DownloadFails
    <2> QED
      BY <1>5, <2>3, <2>4 DEF DownloadFails
  <1>6. CASE LoadGraphArtifact(t)
    <2>1. PICK built \in thread[t].bytes : StoreInCache(t, built)
      BY <1>6 DEF LoadGraphArtifact
    <2>2. built \in Graph
      BY <1>0 DEF ThreadState
    <2>3. thread'[t].pc = "idle" /\ \A u \in Thread \ {t} : thread'[u] = thread[u]
      BY <2>1 DEF StoreInCache, Idle
    <2> QED
      BY <1>6, <2>1, <2>2, <2>3, ShapeStored DEF LoadGraphArtifact
  <1>7. CASE LoadFails(t)
    <2>1. [thread[t] EXCEPT !.pc = "links", !.floor = 0, !.bytes = {}] \in ThreadState
      BY <1>0 DEF ThreadState, Loading, Fetching, Reading
    <2>2. thread' = [thread EXCEPT ![t] = [thread[t] EXCEPT !.pc = "links", !.floor = 0, !.bytes = {}]]
      BY <1>7 DEF LoadFails
    <2>3. /\ thread' \in [Thread -> ThreadState] /\ thread'[t].pc # "downloading"
          /\ \A u \in Thread \ {t} : thread'[u] = thread[u]
      BY <1>0, <2>1, <2>2 DEF ThreadState
    <2> QED
      BY <1>7, <2>3 DEF LoadFails
  <1>8. CASE ReadLinks(t) \/ ReadEpisodes(t) \/ ReadGuests(t)
    <2>1. /\ UNCHANGED <<db, now, bucket, file, cache, lock>>
          /\ thread' \in [Thread -> ThreadState]
          /\ \A u \in Thread \ {t} : thread'[u] = thread[u]
          /\ thread[t].pc # "downloading" /\ thread'[t].pc # "downloading"
      BY <1>8, ThreadReads DEF Reading
    <2> QED
      BY <2>1
  <1>9. CASE ReadGraphRows(t)
    <2> DEFINE built == [thread[t].read EXCEPT !.rows = db]
    <2>1. built \in Graph
      BY <1>0 DEF Graph, ThreadState
    <2>2. StoreInCache(t, built) /\ thread[t].pc = "rows"
      BY <1>9 DEF ReadGraphRows
    <2> HIDE DEF built
    <2>3. thread'[t].pc = "idle" /\ \A u \in Thread \ {t} : thread'[u] = thread[u]
      BY <2>2 DEF StoreInCache, Idle
    <2> QED
      BY <1>9, <2>1, <2>2, <2>3, ShapeStored DEF ReadGraphRows
  <1>10. CASE BuildFails(t)
    <2>1. Idle \in ThreadState
      BY IdleHasType
    <2>2. /\ thread' \in [Thread -> ThreadState] /\ thread'[t].pc = "idle"
          /\ \A u \in Thread \ {t} : thread'[u] = thread[u]
          /\ lock' \in [Worker -> Thread \cup {None}]
      BY <1>0, <1>10, <2>1 DEF BuildFails, Release, Idle, Reading
    <2> QED
      BY <1>10, <2>2 DEF BuildFails, Reading
  <1> QED
    BY <1>1, <1>2, <1>3, <1>4, <1>5, <1>6, <1>7, <1>8, <1>9, <1>10 DEF Step

\* Every step keeps the types
LEMMA ShapeStep == ShapeOK /\ [Next]_vars => ShapeOK'
  <1> SUFFICES ASSUME ShapeOK, [Next]_vars PROVE ShapeOK'
    OBVIOUS
  <1> USE DEF ShapeOK
  <1>1. CASE DatabaseGrows \/ Tick
    BY <1>1 DEF DatabaseGrows, Tick
  <1>2. CASE PublishGraphArtifact
    BY <1>2, PublishKeeps
  <1>3. ASSUME NEW w \in Worker, RestartWorker(w) PROVE ShapeOK'
    <2> DEFINE own == {t \in Thread : WorkerOf[t] = w}
    <2>1. Idle \in ThreadState
      BY IdleHasType
    <2>2. /\ thread' = [t \in Thread |-> IF t \in own THEN Idle ELSE thread[t]]
          /\ file' \in FileState
          /\ file'.writers = file.writers \ own
      BY <1>3, BrokenOff DEF RestartWorker
    <2>3. thread' \in [Thread -> ThreadState]
      BY <2>1, <2>2
    <2>4. \A t \in Thread : IF t \in own THEN thread'[t].pc = "idle" ELSE thread'[t] = thread[t]
      BY <2>2 DEF Idle
    <2> QED
      BY <1>3, <2>2, <2>3, <2>4 DEF RestartWorker
  <1>4. CASE UNCHANGED vars
    BY <1>4 DEF vars
  <1> QED
    BY <1>1, <1>2, <1>3, <1>4, ShapeThread DEF Next

\* Whatever the threads do, every variable has its type
THEOREM ShapesAlways == Spec => []ShapeOK
  BY ShapeInit, ShapeStep, PTL DEF Spec

-----------------------------------------------------------------------------
(* One load at a time *)

\* A thread that loads holds its worker's lock, and what the worker keeps has not
\* been written since the thread found it too old
LoadInv ==
  \A t \in Thread : thread[t].pc \in Loading =>
    /\ lock[WorkerOf[t]] = t
    /\ \/ cache[WorkerOf[t]] = None
       \/ thread[t].began - cache[WorkerOf[t]].stamp >= TTL

\* What a step of one thread leaves of the others
LEMMA ThreadKeeps ==
  ASSUME ShapeOK, NEW t \in Thread, Request(t) \/ Step(t), NEW u \in Thread \ {t}
  PROVE  thread'[u].pc = thread[u].pc /\ thread'[u].began = thread[u].began
  <1> USE DEF ShapeOK
  <1>1. CASE Request(t) \/ AcquireLock(t)
    BY <1>1 DEF Request, AcquireLock, Goto
  <1>2. CASE BeginDownload(t)
    BY <1>2 DEF BeginDownload, ThreadState
  <1>3. CASE EndDownload(t) \/ DownloadFails(t) \/ LoadFails(t)
    BY <1>3 DEF EndDownload, DownloadFails, LoadFails
  <1>4. CASE LoadGraphArtifact(t)
    BY <1>4 DEF LoadGraphArtifact, StoreInCache
  <1>5. CASE ReadGraphRows(t) \/ BuildFails(t)
    BY <1>5 DEF ReadGraphRows, BuildFails, StoreInCache
  <1>6. CASE ReadLinks(t) \/ ReadEpisodes(t) \/ ReadGuests(t)
    BY <1>6, ThreadReads
  <1> QED
    BY <1>1, <1>2, <1>3, <1>4, <1>5, <1>6 DEF Step

\* A thread that loads goes on loading, or ends its load with the lock released
LEMMA LoadThread ==
  ASSUME ShapeOK, LoadInv, NEW t \in Thread, Request(t) \/ Step(t)
  PROVE  LoadInv'
  <1> USE DEF ShapeOK
  <1>0. /\ thread[t] \in ThreadState /\ WorkerOf[t] \in Worker
        /\ \A u \in Thread : WorkerOf[u] \in Worker
        /\ t # None
        /\ \A u \in Thread \ {t} : thread'[u].pc = thread[u].pc /\ thread'[u].began = thread[u].began
    BY GraphCacheAssumption, ThreadKeeps
  <1>1. CASE Request(t)
    <2>1. thread'[t].pc = "wait" /\ lock' = lock /\ cache' = cache
      BY <1>0, <1>1 DEF Request, Goto, ThreadState
    <2> QED
      BY <1>0, <2>1 DEF LoadInv, Loading, Fetching, Reading
  <1>2. CASE AcquireLock(t)
    <2>1. CASE thread' = [thread EXCEPT ![t].pc = "idle"] /\ lock' = lock /\ cache' = cache
      <3>1. thread'[t].pc = "idle"
        BY <1>0, <2>1 DEF ThreadState
      <3> QED
        BY <1>0, <2>1, <3>1 DEF LoadInv, Loading, Fetching, Reading
    <2>2. CASE /\ thread' = [thread EXCEPT ![t].pc = "download", ![t].began = now]
               /\ lock' = [lock EXCEPT ![WorkerOf[t]] = t]
               /\ lock[WorkerOf[t]] = None /\ cache' = cache /\ ~CacheIsFresh(WorkerOf[t])
      <3>1. thread'[t].began = now
        BY <1>0, <2>2 DEF ThreadState
      <3>2. cache[WorkerOf[t]] = None \/ now - cache[WorkerOf[t]].stamp >= TTL
        <4>1. cache[WorkerOf[t]] = None \/ cache[WorkerOf[t]].stamp \in Nat
          BY <1>0 DEF Kept
        <4> QED
          BY <2>2, <4>1, GraphCacheAssumption DEF CacheIsFresh
      <3>3. \A u \in Thread \ {t} : thread[u].pc \in Loading =>
                                      WorkerOf[u] # WorkerOf[t] /\ lock'[WorkerOf[u]] = u
        BY <1>0, <2>2, GraphCacheAssumption DEF LoadInv
      <3>4. lock'[WorkerOf[t]] = t
        BY <1>0, <2>2
      <3> QED
        BY <1>0, <2>2, <3>1, <3>2, <3>3, <3>4 DEF LoadInv
    <2> QED
      BY <1>2, <2>1, <2>2 DEF AcquireLock, Goto
  <1>3. CASE BeginDownload(t) \/ EndDownload(t) \/ DownloadFails(t) \/ LoadFails(t)
    <2>1. thread[t].pc \in Loading /\ lock' = lock /\ cache' = cache
      BY <1>3 DEF BeginDownload, EndDownload, DownloadFails, LoadFails, Loading, Fetching, Reading
    <2>2. thread'[t].began = thread[t].began
      <3>1. CASE BeginDownload(t)
        BY <1>0, <3>1 DEF BeginDownload, ThreadState
      <3>2. CASE EndDownload(t)
        BY <1>0, <3>2 DEF EndDownload, ThreadState
      <3>3. CASE DownloadFails(t) \/ LoadFails(t)
        BY <1>0, <3>3 DEF DownloadFails, LoadFails, ThreadState
      <3> QED
        BY <1>3, <3>1, <3>2, <3>3
    <2> QED
      BY <1>0, <2>1, <2>2 DEF LoadInv
  <1>5. CASE ReadLinks(t) \/ ReadEpisodes(t) \/ ReadGuests(t)
    <2>1. /\ thread[t].pc \in Loading /\ lock' = lock /\ cache' = cache
          /\ thread'[t].began = thread[t].began
      BY <1>5, ThreadReads DEF Loading
    <2> QED
      BY <1>0, <2>1 DEF LoadInv
  <1>4. CASE LoadGraphArtifact(t) \/ ReadGraphRows(t) \/ BuildFails(t)
    <2>1. /\ thread[t].pc \in Loading /\ thread'[t].pc = "idle"
          /\ lock' = [lock EXCEPT ![WorkerOf[t]] = None]
          /\ \A w \in Worker \ {WorkerOf[t]} : cache'[w] = cache[w]
      <3>1. CASE LoadGraphArtifact(t)
        BY <1>0, <3>1 DEF LoadGraphArtifact, StoreInCache, Release, Loading, Fetching, Reading, Idle
      <3>2. CASE ReadGraphRows(t)
        BY <1>0, <3>2 DEF ReadGraphRows, StoreInCache, Release, Loading, Fetching, Reading, Idle
      <3>3. CASE BuildFails(t)
        BY <1>0, <3>3 DEF BuildFails, Release, Loading, Fetching, Reading, Idle
      <3> QED
        BY <1>4, <3>1, <3>2, <3>3
    <2>2. \A u \in Thread \ {t} : thread[u].pc \in Loading => WorkerOf[u] # WorkerOf[t]
      BY <2>1 DEF LoadInv
    <2> QED
      BY <1>0, <2>1, <2>2 DEF LoadInv, Loading, Fetching, Reading
  <1> QED
    BY <1>1, <1>2, <1>3, <1>4, <1>5 DEF Step

\* Loading threads hold their locks in every reachable state
LEMMA LoadsAlways == Spec => []LoadInv
  <1>1. Init => LoadInv
    BY DEF Init, Idle, LoadInv, Loading, Fetching, Reading
  <1>2. ASSUME ShapeOK, LoadInv, [Next]_vars PROVE LoadInv'
    <2>1. CASE thread' = thread /\ lock' = lock /\ cache' = cache
      BY <1>2, <2>1 DEF LoadInv
    <2>2. ASSUME NEW w \in Worker, RestartWorker(w) PROVE LoadInv'
      <3>1. \A t \in Thread : IF WorkerOf[t] = w THEN thread'[t].pc = "idle"
                                                  ELSE thread'[t] = thread[t]
        BY <2>2 DEF RestartWorker, Idle
      <3>2. \A v \in Worker \ {w} : lock'[v] = lock[v] /\ cache'[v] = cache[v]
        BY <1>2, <2>2 DEF RestartWorker, ShapeOK
      <3> QED
        BY <1>2, <3>1, <3>2, GraphCacheAssumption DEF LoadInv, Loading, Fetching, Reading
    <2>3. CASE PublishGraphArtifact
      BY <1>2, <2>3, PublishKeeps DEF LoadInv
    <2> QED
      BY <1>2, <2>1, <2>2, <2>3, LoadThread DEF Next, DatabaseGrows, Tick, vars
  <1> QED
    BY <1>1, <1>2, ShapesAlways, PTL DEF Spec

\* Two threads of a worker never load at a time, and what the worker keeps was too
\* old when the one that loads decided to
THEOREM OneLoadAlways == Spec => []OneLoadAtATime
  <1>1. LoadInv => OneLoadAtATime
    BY DEF LoadInv, OneLoadAtATime
  <1> QED
    BY <1>1, LoadsAlways, PTL

-----------------------------------------------------------------------------
(* No graph comes back *)

AtLeast(n, S) == \A b \in S : n <= b.rows

\* What may still come to be read is not older than the floor of who reads it
FloorInv ==
  /\ bucket \in Graph => bucket.rows <= db
  /\ \A t \in Thread :
       /\ thread[t].floor <= db
       /\ thread[t].pc \in Fetching => bucket \in Graph /\ thread[t].floor <= bucket.rows
       /\ thread[t].pc = "downloading" => /\ AtLeast(thread[t].floor, file.bytes)
                                          /\ AtLeast(thread[t].floor, Downloads)
       /\ thread[t].pc = "load" => AtLeast(thread[t].floor, thread[t].bytes)

\* What a step that writes neither the file nor the bucket leaves to show
LEMMA FloorThread ==
  ASSUME ShapeOK, FloorInv, NEW t \in Thread,
         bucket' = bucket, db' = db,
         file'.writers \subseteq file.writers,
         file'.bytes \subseteq file.bytes,
         \A u \in Thread \ {t} : thread'[u] = thread[u],
         t \notin file'.writers,
         thread'[t].floor = 0 \/ thread'[t].floor = thread[t].floor,
         thread'[t].pc # "downloading",
         thread'[t].pc = "load" => thread[t].pc \in Fetching /\ thread'[t].floor = thread[t].floor,
         thread'[t].pc = "load" => AtLeast(thread'[t].floor, thread'[t].bytes)
  PROVE  FloorInv'
  <1>1. Downloads' \subseteq Downloads
    BY DEF Downloads, ShapeOK, FileState
  <1>2. ASSUME NEW u \in Thread, u # t
        PROVE  /\ thread'[u].floor <= db'
               /\ thread'[u].pc \in Fetching => /\ bucket' \in Graph
                                                /\ thread'[u].floor <= bucket'.rows
               /\ thread'[u].pc = "downloading" => /\ AtLeast(thread'[u].floor, file'.bytes)
                                                   /\ AtLeast(thread'[u].floor, Downloads')
               /\ thread'[u].pc = "load" => AtLeast(thread'[u].floor, thread'[u].bytes)
    BY <1>1, <1>2 DEF FloorInv, AtLeast
  <1>3. /\ thread'[t].floor <= db'
        /\ thread'[t].pc \in Fetching => bucket' \in Graph /\ thread'[t].floor <= bucket'.rows
    BY DEF FloorInv, Fetching, ShapeOK
  <1> QED
    BY <1>2, <1>3 DEF FloorInv

\* The step that writes the file
LEMMA FloorBegin ==
  ASSUME ShapeOK, FloorInv, NEW t \in Thread, BeginDownload(t)
  PROVE  FloorInv'
  <1> USE DEF ShapeOK
  <1>1. /\ bucket \in Graph /\ bucket' = bucket /\ db' = db /\ cache' = cache
        /\ thread[t] \in ThreadState /\ thread[t].pc = "download"
        /\ \A u \in Thread : thread[u] \in ThreadState
    BY DEF BeginDownload
  <1>2. /\ FloorOf(bucket) \in Nat /\ FloorOf(bucket) <= bucket.rows
        /\ AtLeast(FloorOf(bucket), Downloads)
    BY <1>1, FloorIsLeast DEF AtLeast, Downloads
  <1>3. file'.bytes = Downloads \cup {bucket} /\ file'.writers = file.writers \cup {t}
    BY DEF BeginDownload
  <1>4. /\ thread'[t].pc = "downloading" /\ thread'[t].graph = bucket
        /\ thread'[t].floor = FloorOf(bucket)
    BY <1>1 DEF BeginDownload, ThreadState
  <1>5. \A u \in Thread \ {t} :
          /\ thread'[u].pc = thread[u].pc /\ thread'[u].graph = thread[u].graph
          /\ thread'[u].floor = thread[u].floor
          /\ thread'[u].bytes = IF thread[u].pc = "load" THEN thread[u].bytes \cup {bucket}
                                ELSE thread[u].bytes
    BY <1>1 DEF BeginDownload, ThreadState
  <1>6. Downloads' \subseteq Downloads \cup {bucket}
    <2>1. ASSUME NEW u \in file'.writers PROVE thread'[u].graph \in Downloads \cup {bucket}
      <3>1. CASE u = t
        BY <1>4, <3>1
      <3>2. CASE u # t
        <4>1. u \in file.writers /\ u \in Thread
          BY <1>3, <3>2 DEF FileState
        <4>2. thread'[u].graph = thread[u].graph
          BY <1>5, <3>2, <4>1
        <4> QED
          BY <4>1, <4>2 DEF Downloads
      <3> QED
        BY <3>1, <3>2
    <2> QED
      BY <2>1 DEF Downloads
  <1>7. \A u \in Thread : thread[u].pc \in Fetching => thread[u].floor <= bucket.rows
    BY DEF FloorInv
  <1>8. ASSUME NEW u \in Thread, u # t
        PROVE  /\ thread'[u].pc = "downloading" => /\ AtLeast(thread'[u].floor, file'.bytes)
                                                   /\ AtLeast(thread'[u].floor, Downloads')
               /\ thread'[u].pc = "load" => AtLeast(thread'[u].floor, thread'[u].bytes)
    <2>1. /\ thread'[u].pc = thread[u].pc /\ thread'[u].floor = thread[u].floor
          /\ thread[u].pc = "load" => thread'[u].bytes = thread[u].bytes \cup {bucket}
          /\ thread[u].pc \in Fetching => thread[u].floor <= bucket.rows
      BY <1>5, <1>7, <1>8
    <2>2. ASSUME thread[u].pc = "downloading"
          PROVE  AtLeast(thread[u].floor, Downloads \cup {bucket})
      BY <2>1, <2>2 DEF FloorInv, AtLeast, Fetching
    <2>3. ASSUME thread[u].pc = "load"
          PROVE  AtLeast(thread[u].floor, thread[u].bytes \cup {bucket})
      BY <2>1, <2>3 DEF FloorInv, AtLeast, Fetching
    <2> HIDE DEF ShapeOK
    <2>4. ASSUME thread[u].pc = "downloading"
          PROVE  AtLeast(thread[u].floor, file'.bytes) /\ AtLeast(thread[u].floor, Downloads')
      BY <1>3, <1>6, <2>2, <2>4 DEF AtLeast
    <2> QED
      BY <2>1, <2>3, <2>4
  <1>9. AtLeast(thread'[t].floor, file'.bytes) /\ AtLeast(thread'[t].floor, Downloads')
    BY <1>2, <1>3, <1>4, <1>6 DEF AtLeast
  <1>10. ASSUME NEW u \in Thread
         PROVE  /\ thread'[u].floor <= db'
                /\ thread'[u].pc \in Fetching => /\ bucket' \in Graph
                                                 /\ thread'[u].floor <= bucket'.rows
    <2>1. CASE u = t
      <3>1. bucket.rows \in Nat /\ bucket.rows <= db
        BY <1>1 DEF FloorInv, Graph
      <3> QED
        BY <1>1, <1>2, <1>4, <2>1, <3>1
    <2>2. CASE u # t
      BY <1>1, <1>5, <1>7, <2>2 DEF FloorInv
    <2> QED
      BY <2>1, <2>2
  <1>12. bucket' \in Graph => bucket'.rows <= db'
    BY <1>1 DEF FloorInv
  <1> QED
    BY <1>4, <1>8, <1>9, <1>10, <1>12 DEF FloorInv

\* Every step of a thread keeps the floors
LEMMA FloorThreadStep ==
  ASSUME ShapeOK, FloorInv, NEW t \in Thread, Request(t) \/ Step(t)
  PROVE  FloorInv'
  <1> USE DEF ShapeOK
  <1>0. thread[t] \in ThreadState /\ WorkerOf[t] \in Worker
    BY GraphCacheAssumption
  <1>1. CASE Request(t)
    <2>1. thread' = [thread EXCEPT ![t] = [thread[t] EXCEPT !.pc = "wait"]]
      BY <1>1 DEF Request, Goto
    <2>2. thread'[t].pc = "wait" /\ thread'[t].floor = thread[t].floor
      BY <1>0, <2>1 DEF ThreadState
    <2>3. /\ bucket' = bucket /\ db' = db /\ file' = file /\ cache' = cache
          /\ t \notin file.writers /\ \A u \in Thread \ {t} : thread'[u] = thread[u]
      BY <1>1, <2>1 DEF Request
    <2> QED
      BY <2>2, <2>3, FloorThread
  <1>2. CASE AcquireLock(t)
    <2>1. /\ thread'[t].pc \in {"idle", "download"}
          /\ thread'[t].floor = thread[t].floor
      <3>1. CASE thread' = [thread EXCEPT ![t].pc = "idle"]
        BY <1>0, <3>1 DEF ThreadState
      <3>2. CASE thread' = [thread EXCEPT ![t].pc = "download", ![t].began = now]
        BY <1>0, <3>2 DEF ThreadState
      <3> QED
        BY <1>2, <3>1, <3>2 DEF AcquireLock, Goto
    <2>2. /\ bucket' = bucket /\ db' = db /\ file' = file /\ cache' = cache
          /\ t \notin file.writers /\ \A u \in Thread \ {t} : thread'[u] = thread[u]
      BY <1>2 DEF AcquireLock, Goto
    <2> QED
      BY <2>1, <2>2, FloorThread
  <1>3. CASE EndDownload(t)
    <2>1. /\ thread'[t].pc = "load" /\ thread'[t].floor = thread[t].floor
          /\ thread'[t].bytes = file.bytes
      BY <1>0, <1>3 DEF EndDownload, ThreadState
    <2>2. /\ bucket' = bucket /\ db' = db /\ cache' = cache
          /\ file'.writers = file.writers \ {t} /\ file'.bytes = file.bytes
          /\ \A u \in Thread \ {t} : thread'[u] = thread[u]
      BY <1>3 DEF EndDownload
    <2>3. AtLeast(thread[t].floor, file.bytes)
      BY <1>3 DEF EndDownload, FloorInv
    <2>5. thread[t].pc \in Fetching
      BY <1>3 DEF EndDownload, Fetching
    <2> QED
      BY <2>1, <2>2, <2>3, <2>5, FloorThread
  <1>4. CASE DownloadFails(t)
    <2>1. thread'[t].pc = "links" /\ thread'[t].floor = 0
      BY <1>0, <1>4 DEF DownloadFails, ThreadState
    <2>2. /\ bucket' = bucket /\ db' = db /\ cache' = cache
          /\ file'.writers = file.writers \ {t} /\ file'.bytes \subseteq file.bytes
          /\ \A u \in Thread \ {t} : thread'[u] = thread[u]
      BY <1>4, BrokenOff DEF DownloadFails
    <2> QED
      BY <2>1, <2>2, FloorThread
  <1>5. CASE LoadGraphArtifact(t)
    <2>1. PICK built \in thread[t].bytes : StoreInCache(t, built)
      BY <1>5 DEF LoadGraphArtifact
    <2>2. built \in Graph /\ thread[t].floor <= built.rows
      BY <1>0, <1>5 DEF ThreadState, LoadGraphArtifact, FloorInv, AtLeast
    <2>3. /\ bucket' = bucket /\ db' = db /\ file' = file /\ t \notin file.writers
          /\ \A u \in Thread \ {t} : thread'[u] = thread[u]
          /\ thread'[t].pc = "idle" /\ thread'[t].floor = 0
      BY <1>5, <2>1 DEF LoadGraphArtifact, StoreInCache, Idle
    <2> QED
      BY <2>3, FloorThread
  <1>6. CASE LoadFails(t) \/ ReadLinks(t) \/ ReadEpisodes(t) \/ ReadGuests(t)
    <2>1. /\ thread'[t].pc \in Reading
          /\ thread'[t].floor = 0 \/ thread'[t].floor = thread[t].floor
      <3>1. CASE LoadFails(t)
        BY <1>0, <3>1 DEF LoadFails, ThreadState, Reading
      <3> QED
        BY <1>6, <3>1, ThreadReads
    <2>2. /\ bucket' = bucket /\ db' = db /\ file' = file /\ cache' = cache
          /\ t \notin file.writers /\ \A u \in Thread \ {t} : thread'[u] = thread[u]
      <3>1. CASE LoadFails(t)
        BY <3>1 DEF LoadFails
      <3>2. CASE ReadLinks(t) \/ ReadEpisodes(t) \/ ReadGuests(t)
        BY <3>2, ThreadReads DEF Reading
      <3> QED
        BY <1>6, <3>1, <3>2
    <2> QED
      BY <2>1, <2>2, FloorThread DEF Reading
  <1>7. CASE ReadGraphRows(t)
    <2> DEFINE built == [thread[t].read EXCEPT !.rows = db]
    <2>1. StoreInCache(t, built)
      BY <1>7 DEF ReadGraphRows
    <2>2. built \in Graph /\ built.rows = db
      BY <1>0 DEF Graph, ThreadState
    <2>3. thread[t].floor <= db
      BY DEF FloorInv
    <2>4. /\ bucket' = bucket /\ db' = db /\ file' = file /\ t \notin file.writers
          /\ \A u \in Thread \ {t} : thread'[u] = thread[u]
          /\ thread'[t].pc = "idle" /\ thread'[t].floor = 0
      BY <1>7, <2>1 DEF ReadGraphRows, StoreInCache, Idle
    <2> HIDE DEF built
    <2> QED
      BY <2>4, FloorThread
  <1>8. CASE BuildFails(t)
    <2>1. /\ bucket' = bucket /\ db' = db /\ file' = file /\ cache' = cache
          /\ t \notin file.writers /\ \A u \in Thread \ {t} : thread'[u] = thread[u]
          /\ thread'[t].pc = "idle" /\ thread'[t].floor = 0
      BY <1>8 DEF BuildFails, Idle, Reading
    <2> QED
      BY <2>1, FloorThread
  <1> QED
    BY <1>1, <1>2, <1>3, <1>4, <1>5, <1>6, <1>7, <1>8, FloorBegin DEF Step

\* Nothing that may still be read is older than the floor, however late uploads land
LEMMA FloorsAlways == Spec => []FloorInv
  <1>1. Init => FloorInv
    <2> SUFFICES ASSUME Init PROVE FloorInv
      OBVIOUS
    <2>1. \A t \in Thread : thread[t].floor = 0 /\ thread[t].pc = "idle"
      BY DEF Init, Idle
    <2>2. (bucket \in Graph => bucket.rows <= db) /\ db = 1
      BY GraphCacheAssumption DEF Init, Built, Graph
    <2> QED
      BY <2>1, <2>2 DEF FloorInv, Fetching
  <1>2. ASSUME ShapeOK, FloorInv, [Next]_vars PROVE FloorInv'
    <2>1. CASE Tick \/ UNCHANGED vars
      <3>1. /\ bucket' = bucket /\ db' = db /\ file' = file /\ cache' = cache /\ thread' = thread
        BY <2>1 DEF Tick, vars
      <3>2. Downloads' = Downloads
        BY <3>1 DEF Downloads
      <3> QED
        BY <1>2, <3>1, <3>2 DEF FloorInv, AtLeast
    <2>2. CASE DatabaseGrows
      <3>1. /\ bucket' = bucket /\ file' = file /\ cache' = cache /\ thread' = thread
            /\ db' = db + 1
        BY <2>2 DEF DatabaseGrows
      <3>2. Downloads' = Downloads
        BY <3>1 DEF Downloads
      <3>3. \A t \in Thread : thread[t].floor <= db'
        BY <1>2, <3>1 DEF FloorInv, ShapeOK, ThreadState
      <3>4. bucket \in Graph => bucket.rows <= db'
        BY <1>2, <3>1 DEF FloorInv, ShapeOK, Graph
      <3> QED
        BY <1>2, <3>1, <3>2, <3>3, <3>4 DEF FloorInv, AtLeast
    <2>4. CASE PublishGraphArtifact
      <3>1. /\ bucket' \in Graph /\ bucket'.rows <= db'
            /\ db' = db /\ file' = file /\ cache' = cache
        BY <1>2, <2>4, PublishKeeps
      <3>2. ASSUME NEW t \in Thread
            PROVE  /\ thread'[t].pc = thread[t].pc /\ thread'[t].graph = thread[t].graph
                   /\ thread'[t].bytes = thread[t].bytes
                   /\ thread'[t].floor \in Nat /\ thread[t].floor \in Nat
                   /\ thread'[t].floor <= thread[t].floor
                   /\ thread[t].pc \in Fetching => thread'[t].floor <= bucket'.rows
        BY <1>2, <2>4, PublishKeeps DEF ShapeOK, ThreadState
      <3>3. Downloads' = Downloads
        <4>1. file.writers \subseteq Thread
          BY <1>2 DEF ShapeOK, FileState
        <4> QED
          BY <3>1, <3>2, <4>1 DEF Downloads
      <3>4. ASSUME NEW t \in Thread, NEW B \in SUBSET Graph, AtLeast(thread[t].floor, B)
            PROVE  AtLeast(thread'[t].floor, B)
        BY <3>2, <3>4 DEF AtLeast, Graph
      <3>5. /\ file.bytes \in SUBSET Graph /\ Downloads \in SUBSET Graph
            /\ \A t \in Thread : thread[t].bytes \in SUBSET Graph
        BY <1>2 DEF ShapeOK, FileState, ThreadState, Downloads
      <3>6. ASSUME NEW t \in Thread
            PROVE  /\ thread'[t].floor <= db'
                   /\ thread'[t].pc \in Fetching => /\ bucket' \in Graph
                                                    /\ thread'[t].floor <= bucket'.rows
        <4>1. thread[t].floor <= db /\ db \in Nat
          BY <1>2 DEF FloorInv, ShapeOK
        <4> QED
          BY <3>1, <3>2, <4>1
      <3>7. ASSUME NEW t \in Thread
            PROVE  /\ thread'[t].pc = "downloading" => /\ AtLeast(thread'[t].floor, file'.bytes)
                                                       /\ AtLeast(thread'[t].floor, Downloads')
                   /\ thread'[t].pc = "load" => AtLeast(thread'[t].floor, thread'[t].bytes)
        BY <1>2, <3>1, <3>2, <3>3, <3>4, <3>5 DEF FloorInv
      <3> QED
        BY <3>1, <3>6, <3>7 DEF FloorInv
    <2>3. ASSUME NEW w \in Worker, RestartWorker(w) PROVE FloorInv'
      <3> DEFINE own == {t \in Thread : WorkerOf[t] = w}
      <3>1. \A t \in Thread : IF t \in own THEN thread'[t] = Idle ELSE thread'[t] = thread[t]
        BY <2>3 DEF RestartWorker
      <3>2. /\ bucket' = bucket /\ db' = db
            /\ file'.bytes \subseteq file.bytes /\ file'.writers = file.writers \ own
        BY <1>2, <2>3, BrokenOff DEF RestartWorker
      <3>4. Downloads' \subseteq Downloads
        BY <1>2, <3>1, <3>2 DEF Downloads, ShapeOK, FileState
      <3>5. Idle.floor = 0 /\ Idle.pc = "idle" /\ db \in Nat
        BY <1>2 DEF Idle, ShapeOK
      <3> HIDE DEF own
      <3>6. ASSUME NEW t \in Thread
            PROVE  /\ thread'[t].floor <= db'
                   /\ thread'[t].pc \in Fetching => /\ bucket' \in Graph
                                                    /\ thread'[t].floor <= bucket'.rows
                   /\ thread'[t].pc = "downloading" => /\ AtLeast(thread'[t].floor, file'.bytes)
                                                       /\ AtLeast(thread'[t].floor, Downloads')
                   /\ thread'[t].pc = "load" => AtLeast(thread'[t].floor, thread'[t].bytes)
        <4>1. CASE t \in own
          BY <3>1, <3>2, <3>5, <4>1 DEF Fetching
        <4>2. CASE t \notin own
          BY <1>2, <3>1, <3>2, <3>4, <4>2 DEF FloorInv, AtLeast
        <4> QED
          BY <4>1, <4>2
      <3> QED
        BY <1>2, <3>2, <3>6 DEF FloorInv
    <2> QED
      BY <1>2, <2>1, <2>2, <2>3, <2>4, FloorThreadStep DEF Next
  <1> QED
    BY <1>1, <1>2, ShapesAlways, PTL DEF Spec

\* Who writes the cache of a worker holds its lock and writes what it has read, which
\* is not older than its floor
LEMMA WrittenIsRecent ==
  ASSUME ShapeOK, LoadInv, FloorInv, NEW u \in Thread, Request(u) \/ Step(u),
         NEW t \in Thread, lock[WorkerOf[t]] = t,
         cache'[WorkerOf[t]] \notin {cache[WorkerOf[t]], None}
  PROVE  cache'[WorkerOf[t]].graph.rows >= thread[t].floor
  <1>0. /\ WorkerOf[t] \in Worker /\ WorkerOf[u] \in Worker
        /\ thread[u] \in ThreadState /\ thread[t] \in ThreadState /\ cache' # cache
    BY GraphCacheAssumption DEF ShapeOK
  <1>1. PICK built \in Graph : StoreInCache(u, built) /\ thread[u].floor <= built.rows
    <2>1. CASE LoadGraphArtifact(u)
      BY <1>0, <2>1 DEF ThreadState, LoadGraphArtifact, FloorInv, AtLeast
    <2>2. CASE ReadGraphRows(u)
      <3>1. [thread[u].read EXCEPT !.rows = db] \in Graph /\ thread[u].floor <= db
        BY <1>0 DEF Graph, ThreadState, ShapeOK, FloorInv
      <3> QED
        BY <1>0, <2>2, <3>1 DEF ReadGraphRows, Graph, ThreadState
    <2>3. CASE Request(u) \/ AcquireLock(u) \/ BeginDownload(u) \/ EndDownload(u) \/ DownloadFails(u)
      BY <1>0, <2>3 DEF Request, AcquireLock, BeginDownload, EndDownload, DownloadFails
    <2>4. CASE LoadFails(u) \/ BuildFails(u)
      BY <1>0, <2>4 DEF LoadFails, BuildFails
    <2>5. CASE ReadLinks(u) \/ ReadEpisodes(u) \/ ReadGuests(u)
      BY <1>0, <2>5, ThreadReads
    <2> QED
      BY <2>1, <2>2, <2>3, <2>4, <2>5 DEF Step
  <1>2. /\ cache' = [cache EXCEPT ![WorkerOf[u]] = [stamp |-> now, graph |-> built]]
        /\ thread[u].pc \in Loading
    <2>1. thread[u].pc \in Loading
      <3>1. ASSUME thread[u].pc \notin Loading PROVE FALSE
        <4>1. thread[u].pc \notin {"download", "downloading", "load", "links", "episodes", "guests", "rows"}
          BY <3>1 DEF Loading, Fetching, Reading
        <4>2. CASE LoadGraphArtifact(u) \/ ReadGraphRows(u)
          BY <4>1, <4>2 DEF LoadGraphArtifact, ReadGraphRows
        <4>3. CASE Request(u) \/ AcquireLock(u)
          BY <1>0, <4>3 DEF Request, AcquireLock
        <4>4. CASE BeginDownload(u) \/ EndDownload(u) \/ DownloadFails(u) \/ LoadFails(u) \/ BuildFails(u)
          BY <1>0, <4>4 DEF BeginDownload, EndDownload, DownloadFails, LoadFails, BuildFails
        <4>5. CASE ReadLinks(u) \/ ReadEpisodes(u) \/ ReadGuests(u)
          BY <1>0, <4>5, ThreadReads
        <4> QED
          BY <4>2, <4>3, <4>4, <4>5 DEF Step
      <3> QED
        BY <3>1
    <2> QED
      BY <1>1, <2>1 DEF StoreInCache
  <1>3. WorkerOf[u] = WorkerOf[t]
    BY <1>0, <1>2 DEF ShapeOK
  <1>4. u = t
    BY <1>2, <1>3 DEF LoadInv
  <1>5. cache'[WorkerOf[t]].graph = built
    BY <1>0, <1>2, <1>3 DEF ShapeOK
  <1> QED
    BY <1>0, <1>1, <1>4, <1>5 DEF Graph, ThreadState

\* A graph that a worker gets to keep is no older than everything that was to be had
\* since its load began, however late the uploads land
THEOREM RecentAlways == Spec => AnswersAreRecent
  <1> DEFINE recent(t) == LET kept == cache[WorkerOf[t]]' IN
                          lock[WorkerOf[t]] = t /\ kept \notin {cache[WorkerOf[t]], None} =>
                              kept.graph.rows >= thread[t].floor
  <1>1. ASSUME ShapeOK, LoadInv, FloorInv, [Next]_vars PROVE [\A t \in Thread : recent(t)]_vars
    <2> SUFFICES ASSUME NEW t \in Thread, lock[WorkerOf[t]] = t,
                        cache'[WorkerOf[t]] \notin {cache[WorkerOf[t]], None}
                 PROVE  cache'[WorkerOf[t]].graph.rows >= thread[t].floor
      OBVIOUS
    <2>1. cache' # cache
      OBVIOUS
    <2>2. CASE \E u \in Thread : Request(u) \/ Step(u)
      BY <1>1, <2>2, WrittenIsRecent
    <2>3. CASE DatabaseGrows \/ Tick \/ PublishGraphArtifact \/ UNCHANGED vars
      BY <2>1, <2>3 DEF DatabaseGrows, Tick, PublishGraphArtifact, vars
    <2>4. ASSUME NEW w \in Worker, RestartWorker(w) PROVE FALSE
      <3>1. cache' = [cache EXCEPT ![w] = None]
        BY <2>4 DEF RestartWorker
      <3>2. WorkerOf[t] \in Worker
        BY GraphCacheAssumption
      <3> QED
        BY <1>1, <3>1, <3>2 DEF ShapeOK
    <2> QED
      BY <1>1, <2>2, <2>3, <2>4 DEF Next
  <1> QED
    BY <1>1, ShapesAlways, LoadsAlways, FloorsAlways, PTL DEF Spec, AnswersAreRecent

-----------------------------------------------------------------------------
(* The graph that is built *)

\* Every node is at an edge, so that a round per node is no round too many
LEMMA NodesCounted ==
  ASSUME NEW rows, NEW nodes, nodes = NodesOf(rows), NEW graph, GraphOf(graph, rows, nodes)
  PROVE  IsFiniteSet(nodes) /\ Cardinality(nodes) <= RoundsOf(graph)
  <1> DEFINE M == graph.edges
             n == Len(M)
  <1>1. M \in Seq(EdgesOf(nodes)) /\ Holds(M, rows) /\ n \in Nat
    BY DEF GraphOf
  <1>2. \A i \in 1..n : M[i].left \in nodes /\ M[i].right \in nodes
    <2>1. \A i \in 1..n : M[i] \in EdgesOf(nodes)
      BY <1>1
    <2> QED
      BY <2>1 DEF EdgesOf
  <1>3. ASSUME NEW a \in nodes PROVE \E i \in 1..n : a = M[i].left \/ a = M[i].right
    <2>1. PICK r \in rows : a = r.person \/ a = r.podcast
      BY DEF NodesOf
    <2>2. r \in Together(rows, r.person, r.podcast)
      BY DEF Together
    <2>3. PICK i \in 1..n : Ends(M[i]) = {r.person, r.podcast}
      BY <1>1, <2>2 DEF Holds
    <2>4. a \in Ends(M[i])
      BY <2>1, <2>3
    <2> QED
      BY <2>4 DEF Ends
  <1> HIDE DEF n, M
  <1> DEFINE g == [i \in 1..(2 * n) |-> IF i <= n THEN M[i].left ELSE M[i - n].right]
  <1>4. g \in [1..(2 * n) -> nodes]
    <2>1. ASSUME NEW i \in 1..(2 * n) PROVE (IF i <= n THEN M[i].left ELSE M[i - n].right) \in nodes
      <3>1. CASE i <= n
        <4>1. i \in 1..n
          BY <1>1, <3>1
        <4> QED
          BY <1>2, <3>1, <4>1
      <3>2. CASE ~ (i <= n)
        <4>1. i - n \in 1..n
          BY <1>1, <3>2
        <4> QED
          BY <1>2, <3>2, <4>1
      <3> QED
        BY <3>1, <3>2
    <2> QED
      BY <2>1
  <1>5. ASSUME NEW a \in nodes PROVE \E i \in 1..(2 * n) : g[i] = a
    <2>1. PICK i \in 1..n : a = M[i].left \/ a = M[i].right
      BY <1>3
    <2>2. CASE a = M[i].left
      <3>1. i \in 1..(2 * n) /\ i <= n
        BY <1>1
      <3> QED
        BY <2>2, <3>1
    <2>3. CASE a = M[i].right
      <3>1. PICK j \in 1..(2 * n) : j = i + n
        BY <1>1
      <3>2. ~ (j <= n) /\ j - n = i
        BY <1>1, <3>1
      <3>3. g[j] = M[j - n].right
        BY <3>2
      <3> QED
        BY <2>3, <3>2, <3>3
    <2> QED
      BY <2>1, <2>2, <2>3
  <1>6. g \in Surjection(1..(2 * n), nodes)
    <2> HIDE DEF g
    <2> QED
      BY <1>4, <1>5 DEF Surjection
  <1>7. IsFiniteSet(1..(2 * n)) /\ Cardinality(1..(2 * n)) = 2 * n
    <2>1. 2 * n \in Nat
      BY <1>1
    <2>2. PICK k \in Nat : k = 2 * n
      BY <2>1
    <2>3. IsFiniteSet(1..k) /\ Cardinality(1..k) = k
      <3>1. 1 \in Int /\ k \in Int
        OBVIOUS
      <3>2. IsFiniteSet(1..k) /\ Cardinality(1..k) = IF 1 > k THEN 0 ELSE k - 1 + 1
        BY <3>1, FS_Interval
      <3> QED
        BY <3>2
    <2> QED
      BY <2>2, <2>3
  <1> HIDE DEF g
  <1>8. IsFiniteSet(nodes) /\ Cardinality(nodes) <= 2 * n
    BY <1>6, <1>7, FS_Surjection
  <1>9. RoundsOf(graph) = 2 * n + 1
    BY DEF RoundsOf, n, M
  <1> QED
    BY <1>1, <1>8, <1>9, FS_CardinalityType

\* The graph that is built of a version's rows, in whatever order, holds them
LEMMA GraphBuilt ==
  ASSUME NEW built \in PossibleGraphs, NEW order \in Versions[built.rows].orders
  PROVE  LET graph == BuildDatabaseSixDegreesGraph(built, order)
         IN  /\ GraphOf(graph, RowsIn(built), NodesOf(RowsIn(built)))
             /\ graph.names = Names(built)
             /\ Names(built) \subseteq ToSet(SortedNames)
  <1> DEFINE v == built.rows
             c == Canonical(built)
             X == Versions[v].rows
             T == {r \in GraphRows(v, c) : r.english}
             read == Filtered(order, T)
             role(r) == PromotedRole(r, c, KeysOf(built))
             id(r) == EntityId(r, c)
             edge(r) == Edge(id(r), r.podcast, role(r), r.date)
             row(r) == [person |-> id(r), podcast |-> r.podcast, date |-> r.date, role |-> role(r)]
             edges == [i \in 1..Len(read) |-> edge(read[i])]
             rows == RowsIn(built)
             nodes == NodesOf(rows)
             graph == BuildDatabaseSixDegreesGraph(built, order)
  <1>1. v \in DOMAIN Versions
    BY DEF PossibleGraphs, Built
  <1>2. /\ order \in Seq(X) /\ ToSet(order) = X
        /\ \A r \in X : /\ r.role \in {"host", "guest"} /\ r.date \in Nat
                        /\ r.person \in ToSet(SortedNames)
                        /\ r.link \in ToSet(SortedNames) \cup {None}
    BY <1>1, DatabaseAssumption
  <1>3. T \subseteq X
    BY DEF GraphRows
  <1>4. /\ graph.edges = MergeEdges(edges) /\ graph.names = {id(r) : r \in ToSet(read)}
    BY DEF BuildDatabaseSixDegreesGraph, SixDegreesGraph
  <1>5. \A r \in T : id(r) \in ToSet(SortedNames)
    BY <1>2, <1>3 DEF EntityId, GraphRows
  <1>6. \A r \in T : role(r) \in {"host", "guest"} /\ r.date \in Nat
    BY <1>2, <1>3 DEF PromotedRole
  <1>7. rows = {row(r) : r \in T}
    BY DEF RowsIn
  <1> HIDE DEF X, T, id, role, graph, rows
  <1>8. read \in Seq(X) /\ ToSet(read) = T
    <2>1. read \in Seq(X) /\ ToSet(read) = ToSet(order) \cap T
      BY <1>2, FilteredHas
    <2> QED
      BY <1>2, <1>3, <2>1
  <1> HIDE DEF read
  <1>9. /\ \A i \in 1..Len(read) : read[i] \in T
        /\ \A r \in T : \E i \in 1..Len(read) : read[i] = r
        /\ Len(read) \in Nat
    BY <1>8 DEF ToSet
  <1>10. /\ \A r \in T : id(r) \in nodes /\ r.podcast \in nodes
    <2>1. \A r \in T : row(r) \in rows /\ row(r).person = id(r) /\ row(r).podcast = r.podcast
      BY <1>7
    <2> HIDE DEF row
    <2> QED
      BY <2>1 DEF NodesOf
  <1>11. ASSUME NEW r \in T
         PROVE  /\ edge(r) \in EdgesOf(nodes) /\ Plain(edge(r))
                /\ edge(r).left = id(r) /\ edge(r).right = r.podcast
                /\ edge(r).kind = role(r) /\ edge(r).date = r.date
    <2>1. edge(r) = [left |-> id(r), right |-> r.podcast, kind |-> role(r), date |-> r.date,
                     dates |-> {}, activeStart |-> NoDate, activeEnd |-> NoDate]
      BY DEF Edge
    <2>2. {} \in {D \in SUBSET Nat : IsFiniteSet(D)} /\ NoDate \in Nat
      BY FS_EmptySet DEF NoDate
    <2> HIDE DEF edge, nodes
    <2>3. edge(r) \in EdgesOf(nodes)
      BY <1>6, <1>10, <2>1, <2>2 DEF EdgesOf
    <2>4. /\ edge(r).left = id(r) /\ edge(r).right = r.podcast
          /\ edge(r).kind = role(r) /\ edge(r).date = r.date
      BY <2>1
    <2>5. Plain(edge(r))
      BY <2>1, <2>4 DEF Plain, Edge
    <2> QED
      BY <2>3, <2>4, <2>5
  <1> HIDE DEF edge, nodes
  <1>12. edges \in Seq(EdgesOf(nodes)) /\ Len(edges) = Len(read)
    BY <1>9, <1>11
  <1>13. \A i \in 1..Len(edges) : edges[i] = edge(read[i]) /\ Plain(edges[i])
    BY <1>9, <1>11, <1>12
  <1>14. RowsOf(edges) = rows
    <2>1. \A i \in 1..Len(edges) : [person |-> edges[i].left, podcast |-> edges[i].right,
                                    date |-> edges[i].date, role |-> edges[i].kind] = row(read[i])
      BY <1>9, <1>11, <1>12, <1>13
    <2> HIDE DEF row, edges
    <2>2. RowsOf(edges) = {row(read[i]) : i \in 1..Len(edges)}
      BY <2>1 DEF RowsOf
    <2> QED
      BY <1>7, <1>9, <1>12, <2>2
  <1> HIDE DEF edges
  <1>15. /\ MergeEdges(edges) \in Seq(EdgesOf(nodes)) /\ Holds(MergeEdges(edges), rows)
    BY <1>12, <1>13, <1>14, MergeEdgesInv, MergedHoldRows
  <1>16. graph.names = Names(built)
    <2>1. Names(built) = {r.person : r \in {row(s) : s \in T}}
      BY <1>7 DEF Names, rows
    <2>2. \A s \in T : row(s).person = id(s)
      OBVIOUS
    <2> HIDE DEF row
    <2>3. Names(built) = {id(s) : s \in T}
      BY <2>1, <2>2
    <2> QED
      BY <1>4, <1>8, <2>3
  <1>17. graph.names \subseteq nodes /\ graph.names \subseteq ToSet(SortedNames)
    BY <1>4, <1>5, <1>8, <1>10
  <1> QED
    BY <1>4, <1>15, <1>16, <1>17 DEF GraphOf, nodes, rows, graph

\* The name a text stands for is one the visitor may have meant
LEMMA ResolvedIsMeant ==
  ASSUME NEW built, NEW graph, graph.names = Names(built), Names(built) \subseteq ToSet(SortedNames), NEW text
  PROVE  LET resolved == ResolveName(graph, text, SortedNames, Normal)
         IN  IF Meant(built, text) = {} THEN resolved = {}
             ELSE \E n \in Meant(built, text) : resolved = {n} /\ n \in graph.names
  <1> DEFINE T == {n \in graph.names : Normal[n] = Normal[text] /\ Normal[n] # NoWords}
             alike == Filtered(SortedNames, T)
             resolved == ResolveName(graph, text, SortedNames, Normal)
             X == ToSet(SortedNames)
  <1>1. resolved = IF text \in graph.names THEN {text} ELSE IF alike = <<>> THEN {} ELSE {Head(alike)}
    BY DEF ResolveName
  <1>2. Meant(built, text) = IF text \in graph.names THEN {text} ELSE T
    BY DEF Meant
  <1>3. T \subseteq X /\ T \subseteq graph.names
    OBVIOUS
  <1>4. SortedNames \in Seq(X)
    BY DatabaseAssumption
  <1> HIDE DEF T, X, resolved
  <1>5. alike \in Seq(X) /\ ToSet(alike) = X \cap T
    BY <1>4, FilteredHas DEF X
  <1>6. ToSet(alike) = T
    BY <1>3, <1>5
  <1> HIDE DEF alike
  <1>7. CASE text \in graph.names
    BY <1>1, <1>2, <1>7 DEF resolved
  <1>8. CASE text \notin graph.names /\ alike = <<>>
    <2>1. T = {}
      BY <1>6, <1>8 DEF ToSet
    <2> QED
      BY <1>1, <1>2, <1>8, <2>1 DEF resolved
  <1>9. CASE text \notin graph.names /\ alike # <<>>
    <2>1. Head(alike) = alike[1] /\ 1 \in DOMAIN alike
      BY <1>5, <1>9
    <2>2. Head(alike) \in T
      BY <1>6, <2>1 DEF ToSet
    <2>3. resolved = {Head(alike)} /\ Meant(built, text) = T /\ Head(alike) \in graph.names
      BY <1>1, <1>2, <1>3, <1>9, <2>2
    <2> QED
      BY <2>2, <2>3 DEF resolved
  <1> QED
    BY <1>7, <1>8, <1>9

\* The date that is shown of two names, if an edge joins them
ShownDate(edges, a, b, w) ==
  EdgeDateForWindow(CHOOSE e \in ToSet(edges) : {e.left, e.right} = {a, b}, w)

DateOfRows(rows, a, b, w) ==
  IF Hosts(Together(rows, a, b)) THEN NoDate
  ELSE LatestOf(MatchingDates(DatesOf(Together(rows, a, b)), w))

\* The date that is shown of two names one hop apart is the one of their rows
LEMMA ShownIsOfRows ==
  ASSUME NEW nodes, NEW edges \in Seq(EdgesOf(nodes)), NEW rows, Holds(edges, rows), NEW w \in Windows,
         NEW a, NEW b, OneHop(rows, a, b, w)
  PROVE  ShownDate(edges, a, b, w) = DateOfRows(rows, a, b, w)
  <1>1. Together(rows, a, b) # {}
    BY DEF OneHop
  <1>2. PICK i \in 1..Len(edges) : Ends(edges[i]) = {a, b}
    BY <1>1 DEF Holds
  <1>3. ToSet(edges) = {edges[j] : j \in 1..Len(edges)}
    BY DEF ToSet
  <1>4. edges[i] \in ToSet(edges) /\ {edges[i].left, edges[i].right} = {a, b}
    BY <1>2, <1>3 DEF Ends
  <1>5. ASSUME NEW e \in ToSet(edges), {e.left, e.right} = {a, b} PROVE e = edges[i]
    <2>1. PICK j \in 1..Len(edges) : e = edges[j]
      BY <1>3
    <2>2. Ends(edges[j]) = Ends(edges[i])
      BY <1>2, <1>5, <2>1 DEF Ends
    <2>3. j = i
      BY <2>2 DEF Holds
    <2> QED
      BY <2>1, <2>3
  <1>6. (CHOOSE e \in ToSet(edges) : {e.left, e.right} = {a, b}) = edges[i]
    BY <1>4, <1>5
  <1>7. EdgeDateForWindow(edges[i], w) = DateOfRows(rows, a, b, w)
    BY <1>2, EdgeIsHop DEF DateOfRows
  <1> QED
    BY <1>6, <1>7 DEF ShownDate

\* The path between two names of a graph, and the dates shown along it
LEMMA PathIsRight ==
  ASSUME NEW built \in PossibleGraphs, NEW order \in Versions[built.rows].orders,
         NEW graph, graph = BuildDatabaseSixDegreesGraph(built, order),
         NEW rows, rows = RowsIn(built), NEW w \in Windows,
         NEW a \in graph.names, NEW b \in graph.names,
         NEW path, path = ShortestPath(graph, a, b, w)
  PROVE  /\ RightPath(rows, a, b, w, path)
         /\ \A i \in 1..(Len(path) - 1) :
               ShownDate(graph.edges, path[i], path[i + 1], w) = DateOfRows(rows, path[i], path[i + 1], w)
  <1> DEFINE nodes == NodesOf(rows)
             K == Cardinality(nodes)
             hop == Hops(rows, nodes, w)
             led == HostedBy(rows, nodes, a)
             L == Within(rows, a, w)
  <1>1. GraphOf(graph, rows, nodes)
    BY GraphBuilt
  <1>2. IsFiniteSet(nodes) /\ K <= RoundsOf(graph) /\ K \in Nat
    BY <1>1, NodesCounted, FS_CardinalityType
  <1>3. a \in nodes /\ b \in nodes
    BY <1>1 DEF GraphOf
  <1>4. PICK H : LedLevels(nodes, hop, led, a, K, H)
    BY <1>2, LedLevelsExist
  <1>5. Levels(nodes, hop, a, K, L)
    BY <1>2, <1>3, WithinIsLevels
  <1> DEFINE found == Answered(nodes, hop, led, a, b, K, L, H, path)
  <1>6. \/ path = NoPath /\ \A n \in 0..K : b \notin L[n]
        \/ found /\ path # NoPath
    <2>1. \A k, h, ld, l : /\ k = Cardinality(nodes) /\ k <= RoundsOf(graph)
                           /\ h = Hops(rows, nodes, w) /\ ld = HostedBy(rows, nodes, a)
                           /\ Levels(nodes, h, a, k, l) /\ LedLevels(nodes, h, ld, a, k, H)
             => \/ path = NoPath /\ \A n \in 0..k : b \notin l[n]
                \/ Answered(nodes, h, ld, a, b, k, l, H, path) /\ path # NoPath
      <3> HIDE DEF nodes
      <3> QED
        BY <1>1, <1>2, <1>3, SearchAnswers
    <2> QED
      BY <1>2, <1>4, <1>5, <2>1
  <1>7. RightPath(rows, a, b, w, path)
    <2>1. \A k, h, ld, l : /\ k = Cardinality(nodes)
                           /\ h = Hops(rows, nodes, w) /\ ld = HostedBy(rows, nodes, a)
                           /\ l = Within(rows, a, w) /\ LedLevels(nodes, h, ld, a, k, H)
                           /\ \/ path = NoPath /\ \A n \in 0..k : b \notin l[n]
                              \/ Answered(nodes, h, ld, a, b, k, l, H, path) /\ path # NoPath
             => RightPath(rows, a, b, w, path)
      BY <1>2, <1>3, AnsweredIsRight
    <2> QED
      BY <1>4, <1>6, <2>1
  <1>8. ASSUME NEW i \in 1..(Len(path) - 1)
        PROVE  ShownDate(graph.edges, path[i], path[i + 1], w) = DateOfRows(rows, path[i], path[i + 1], w)
    <2>1. path # NoPath
      BY DEF NoPath
    <2>2. <<path[i], path[i + 1]>> \in hop
      <3>1. found
        BY <1>6, <2>1
      <3> HIDE DEF hop, nodes, K, L, led
      <3> QED
        BY <3>1 DEF Answered, RightWay, WayFrom
    <2>3. OneHop(rows, path[i], path[i + 1], w)
      BY <2>2 DEF Hops
    <2>4. graph.edges \in Seq(EdgesOf(nodes)) /\ Holds(graph.edges, rows)
      BY <1>1 DEF GraphOf
    <2> QED
      BY <2>3, <2>4, ShownIsOfRows
  <1> QED
    BY <1>7, <1>8

\* A query is answered rightly, whatever the order in which the rows came
LEMMA AnswerIsRight ==
  ASSUME NEW built \in PossibleGraphs, NEW order \in Versions[built.rows].orders, NEW query \in Query
  PROVE  RightAnswer(built, order, query)
  <1> DEFINE graph == BuildDatabaseSixDegreesGraph(built, order)
             rows == RowsIn(built)
             w == query.window
             source == ResolveName(graph, query.source, SortedNames, Normal)
             target == ResolveName(graph, query.target, SortedNames, Normal)
             path == IF source = {} \/ target = {} THEN NoPath
                     ELSE ShortestPath(graph, CHOOSE n \in source : TRUE, CHOOSE n \in target : TRUE, w)
             answer == Explain(graph, query, SortedNames, Normal)
             A == Meant(built, query.source)
             B == Meant(built, query.target)
  <1>1. /\ answer.missing = IF graph.names = {} THEN "every name"
                            ELSE IF source = {} THEN "source"
                            ELSE IF target = {} THEN "target" ELSE "none"
        /\ answer.found = (path # NoPath) /\ answer.path = path
    BY DEF Explain
  <1>2. w \in Windows
    BY DatabaseAssumption DEF Windows
  <1>3. graph.names = Names(built) /\ Names(built) \subseteq ToSet(SortedNames)
    BY GraphBuilt
  <1> DEFINE right == /\ \E a \in A, b \in B : RightPath(rows, a, b, w, answer.path)
                      /\ \A i \in 1..(Len(answer.path) - 1) :
                            ShownDate(graph.edges, answer.path[i], answer.path[i + 1], w) =
                              DateOfRows(rows, answer.path[i], answer.path[i + 1], w)
  <1>4. /\ Names(built) = {} /\ answer.missing = "every name" /\ ~ answer.found
             => RightAnswer(built, order, query)
        /\ Names(built) # {} /\ A = {} /\ answer.missing = "source" /\ ~ answer.found
             => RightAnswer(built, order, query)
        /\ Names(built) # {} /\ A # {} /\ B = {} /\ answer.missing = "target" /\ ~ answer.found
             => RightAnswer(built, order, query)
        /\ Names(built) # {} /\ A # {} /\ B # {} /\ answer.missing = "none" /\ right
             => RightAnswer(built, order, query)
    <2>1. ASSUME Names(built) = {}, answer.missing = "every name", ~ answer.found
          PROVE  RightAnswer(built, order, query)
      BY <2>1 DEF RightAnswer, AnswerHolds
    <2>2. ASSUME Names(built) # {}, A = {}, answer.missing = "source", ~ answer.found
          PROVE  RightAnswer(built, order, query)
      BY <2>2 DEF RightAnswer, AnswerHolds
    <2>3. ASSUME Names(built) # {}, A # {}, B = {}, answer.missing = "target", ~ answer.found
          PROVE  RightAnswer(built, order, query)
      BY <2>3 DEF RightAnswer, AnswerHolds
    <2>4. ASSUME Names(built) # {}, A # {}, B # {}, answer.missing = "none", right
          PROVE  RightAnswer(built, order, query)
      BY <2>4 DEF RightAnswer, AnswerHolds, ShownDate, DateOfRows
    <2> HIDE DEF answer, A, B, right
    <2> QED
      BY <2>1, <2>2, <2>3, <2>4
  <1> HIDE DEF graph, answer
  <1>5. /\ IF A = {} THEN source = {} ELSE \E n \in A : source = {n} /\ n \in graph.names
        /\ IF B = {} THEN target = {} ELSE \E n \in B : target = {n} /\ n \in graph.names
    <2> HIDE DEF A, B, source, target
    <2>1. IF A = {} THEN source = {} ELSE \E n \in A : source = {n} /\ n \in graph.names
      BY <1>3, ResolvedIsMeant DEF A, source
    <2>2. IF B = {} THEN target = {} ELSE \E n \in B : target = {n} /\ n \in graph.names
      BY <1>3, ResolvedIsMeant DEF B, target
    <2> QED
      BY <2>1, <2>2
  <1> HIDE DEF A, B, source, target
  <1>9. CASE Names(built) = {}
    <2>1. source = {}
      BY <1>3, <1>5, <1>9
    <2>2. path = NoPath
      BY <2>1
    <2> HIDE DEF path
    <2>3. answer.missing = "every name" /\ ~ answer.found
      BY <1>1, <1>3, <1>9, <2>2
    <2> HIDE DEF right
    <2> QED
      BY <1>4, <1>9, <2>3
  <1>6. CASE Names(built) # {} /\ A = {}
    <2>1. source = {}
      BY <1>5, <1>6
    <2>2. path = NoPath
      BY <2>1
    <2> HIDE DEF path
    <2>3. answer.missing = "source" /\ ~ answer.found
      BY <1>1, <1>3, <1>6, <2>1, <2>2
    <2> HIDE DEF right
    <2> QED
      BY <1>4, <1>6, <2>3
  <1>7. CASE Names(built) # {} /\ A # {} /\ B = {}
    <2>1. source # {} /\ target = {}
      BY <1>5, <1>7
    <2>2. path = NoPath
      BY <2>1
    <2> HIDE DEF path
    <2>3. answer.missing = "target" /\ ~ answer.found
      BY <1>1, <1>3, <1>7, <2>1, <2>2
    <2> HIDE DEF right
    <2> QED
      BY <1>4, <1>7, <2>3
  <1>8. CASE Names(built) # {} /\ A # {} /\ B # {}
    <2>1. PICK a \in A : source = {a} /\ a \in graph.names
      BY <1>5, <1>8
    <2>2. PICK b \in B : target = {b} /\ b \in graph.names
      BY <1>5, <1>8
    <2>3. path = ShortestPath(graph, a, b, w)
      <3>1. (CHOOSE n \in source : TRUE) = a /\ (CHOOSE n \in target : TRUE) = b
        BY <2>1, <2>2
      <3>2. source # {} /\ target # {}
        BY <2>1, <2>2
      <3> QED
        BY <3>1, <3>2
    <2>4. answer.missing = "none" /\ answer.path = path
      <3> HIDE DEF path
      <3> QED
        BY <1>1, <1>3, <1>8, <2>1, <2>2
    <2> HIDE DEF path, w, rows
    <2>5. /\ RightPath(rows, a, b, w, path)
          /\ \A i \in 1..(Len(path) - 1) :
                ShownDate(graph.edges, path[i], path[i + 1], w) = DateOfRows(rows, path[i], path[i + 1], w)
      BY <1>2, <2>1, <2>2, <2>3, PathIsRight DEF graph, rows
    <2>6. right
      BY <2>4, <2>5
    <2> HIDE DEF right
    <2> QED
      BY <1>4, <1>8, <2>4, <2>6
  <1> QED
    BY <1>6, <1>7, <1>8, <1>9

\* So no graph of the database answers a query wrongly
LEMMA NothingWrong ==
  ASSUME NEW built \in PossibleGraphs
  PROVE  WrongAnswers[built] = {}
  BY AnswerIsRight DEF WrongAnswers

-----------------------------------------------------------------------------
(* Where graphs come from *)

\* Every graph a worker, the bucket, the file or a thread has is of versions of
\* the database
GraphsExist ==
  /\ db \in DOMAIN Versions
  /\ bucket \in PossibleGraphs \cup {None}
  /\ file.bytes \subseteq PossibleGraphs
  /\ \A t \in Thread : /\ thread[t].bytes \subseteq PossibleGraphs
                       /\ t \in file.writers => thread[t].graph \in PossibleGraphs
                       /\ ReadExists(thread[t])
  /\ \A w \in Worker : cache[w] # None => cache[w].graph \in PossibleGraphs

CacheExists == \A w \in Worker : cache[w] # None => cache[w].graph \in PossibleGraphs

\* A step of one thread that writes neither the file nor the bucket
LEMMA GraphsThread ==
  ASSUME ShapeOK, GraphsExist, NEW t \in Thread,
         bucket' = bucket, db' = db,
         file'.writers \subseteq file.writers,
         file'.bytes \subseteq file.bytes,
         \A u \in Thread \ {t} : thread'[u] = thread[u],
         t \notin file'.writers,
         thread'[t].bytes \subseteq PossibleGraphs,
         ReadExists(thread'[t]),
         CacheExists'
  PROVE  GraphsExist'
  <1>1. PossibleGraphs' = PossibleGraphs
    BY DEF PossibleGraphs
  <1>2. ASSUME NEW u \in Thread
        PROVE  /\ thread'[u].bytes \subseteq PossibleGraphs
               /\ u \in file'.writers => thread'[u].graph \in PossibleGraphs
               /\ ReadExists(thread'[u])
    <2>1. CASE u = t
      BY <2>1
    <2>2. CASE u # t
      BY <2>2 DEF GraphsExist
    <2> QED
      BY <2>1, <2>2
  <1> QED
    BY <1>1, <1>2 DEF GraphsExist, CacheExists

\* What a thread stores is of versions of the database, if what it read is
LEMMA GraphsStored ==
  ASSUME ShapeOK, GraphsExist, NEW t \in Thread, NEW built \in PossibleGraphs, StoreInCache(t, built)
  PROVE  CacheExists'
  <1>1. WorkerOf[t] \in Worker
    BY GraphCacheAssumption
  <1>2. /\ cache'[WorkerOf[t]].graph = built
        /\ \A w \in Worker \ {WorkerOf[t]} : cache'[w] = cache[w]
    BY <1>1 DEF StoreInCache, ShapeOK
  <1>3. PossibleGraphs' = PossibleGraphs
    BY DEF PossibleGraphs
  <1> QED
    BY <1>2, <1>3 DEF GraphsExist, CacheExists

\* So is what a download puts in the file, also for those who read it meanwhile
LEMMA GraphsBegin ==
  ASSUME ShapeOK, GraphsExist, NEW t \in Thread, BeginDownload(t)
  PROVE  GraphsExist'
  <1> USE DEF ShapeOK
  <1>1. /\ bucket \in PossibleGraphs /\ bucket' = bucket /\ db' = db /\ cache' = cache
        /\ \A u \in Thread : thread[u] \in ThreadState
    BY DEF BeginDownload, GraphsExist
  <1>2. Downloads \subseteq PossibleGraphs
    BY DEF Downloads, GraphsExist, FileState
  <1>3. file'.bytes = Downloads \cup {bucket} /\ file'.writers = file.writers \cup {t}
    BY DEF BeginDownload
  <1>4. /\ thread'[t].pc = "downloading" /\ thread'[t].graph = bucket
        /\ thread'[t].bytes = thread[t].bytes
    BY <1>1 DEF BeginDownload, ThreadState
  <1>5. \A u \in Thread \ {t} :
          /\ thread'[u].pc = thread[u].pc /\ thread'[u].graph = thread[u].graph
          /\ thread'[u].read = thread[u].read
          /\ thread'[u].bytes = IF thread[u].pc = "load" THEN thread[u].bytes \cup {bucket}
                                ELSE thread[u].bytes
    BY <1>1 DEF BeginDownload, ThreadState
  <1>6. PossibleGraphs' = PossibleGraphs
    BY DEF PossibleGraphs
  <1>7. ASSUME NEW u \in Thread
        PROVE  /\ thread'[u].bytes \subseteq PossibleGraphs
               /\ u \in file'.writers => thread'[u].graph \in PossibleGraphs
               /\ ReadExists(thread'[u])
    <2>1. CASE u = t
      BY <1>1, <1>4, <2>1 DEF GraphsExist, ReadExists
    <2>2. CASE u # t
      <3>1. /\ thread[u].bytes \subseteq PossibleGraphs
            /\ u \in file.writers => thread[u].graph \in PossibleGraphs
            /\ ReadExists(thread[u])
        BY DEF GraphsExist
      <3>2. thread'[u].bytes \subseteq thread[u].bytes \cup {bucket}
        BY <1>5, <2>2
      <3>3. /\ u \in file'.writers => u \in file.writers
            /\ thread'[u].pc = thread[u].pc /\ thread'[u].graph = thread[u].graph
            /\ thread'[u].read = thread[u].read
        BY <1>3, <1>5, <2>2
      <3>4. bucket \in PossibleGraphs
        BY <1>1
      <3> HIDE DEF ShapeOK
      <3> QED
        BY ONLY <3>1, <3>2, <3>3, <3>4 DEF ReadExists
    <2> QED
      BY <2>1, <2>2
  <1> QED
    BY <1>1, <1>2, <1>3, <1>6, <1>7 DEF GraphsExist

\* Every step of a thread keeps this
LEMMA GraphsThreadStep ==
  ASSUME ShapeOK, GraphsExist, NEW t \in Thread, Request(t) \/ Step(t)
  PROVE  GraphsExist'
  <1> USE DEF ShapeOK
  <1>0. /\ thread[t] \in ThreadState /\ WorkerOf[t] \in Worker
        /\ thread[t].bytes \subseteq PossibleGraphs
        /\ PossibleGraphs' = PossibleGraphs
        /\ cache' = cache => CacheExists'
    BY GraphCacheAssumption DEF GraphsExist, CacheExists, PossibleGraphs
  <1>1. CASE Request(t) \/ AcquireLock(t)
    <2>1. /\ thread'[t].pc \in {"idle", "wait", "download"} /\ thread'[t].bytes = thread[t].bytes
      <3>1. \/ \E pc \in {"idle", "wait"} : thread' = [thread EXCEPT ![t] = [thread[t] EXCEPT !.pc = pc]]
            \/ thread' = [thread EXCEPT ![t] = [thread[t] EXCEPT !.pc = "download", !.began = now]]
        BY <1>1 DEF Request, AcquireLock, Goto
      <3>2. CASE \E pc \in {"idle", "wait"} : thread' = [thread EXCEPT ![t] = [thread[t] EXCEPT !.pc = pc]]
        <4>1. PICK pc \in {"idle", "wait"} : thread' = [thread EXCEPT ![t] = [thread[t] EXCEPT !.pc = pc]]
          BY <3>2
        <4>2. thread'[t] = [thread[t] EXCEPT !.pc = pc]
          BY <4>1
        <4> QED
          BY <1>0, <4>2 DEF ThreadState
      <3>3. CASE thread' = [thread EXCEPT ![t] = [thread[t] EXCEPT !.pc = "download", !.began = now]]
        <4>1. thread'[t] = [thread[t] EXCEPT !.pc = "download", !.began = now]
          BY <3>3
        <4> QED
          BY <1>0, <4>1 DEF ThreadState
      <3> QED
        BY <3>1, <3>2, <3>3
    <2>2. /\ bucket' = bucket /\ db' = db /\ file' = file /\ cache' = cache
          /\ t \notin file.writers /\ \A u \in Thread \ {t} : thread'[u] = thread[u]
      BY <1>1 DEF Request, AcquireLock, Goto
    <2> QED
      BY <1>0, <2>1, <2>2, GraphsThread DEF ReadExists
  <1>2. CASE EndDownload(t)
    <2>1. thread'[t].pc = "load" /\ thread'[t].bytes = file.bytes
      BY <1>0, <1>2 DEF EndDownload, ThreadState
    <2>2. /\ bucket' = bucket /\ db' = db /\ cache' = cache
          /\ file'.writers = file.writers \ {t} /\ file'.bytes = file.bytes
          /\ \A u \in Thread \ {t} : thread'[u] = thread[u]
      BY <1>2 DEF EndDownload
    <2>3. file.bytes \subseteq PossibleGraphs
      BY DEF GraphsExist
    <2> QED
      BY <1>0, <2>1, <2>2, <2>3, GraphsThread DEF ReadExists
  <1>3. CASE DownloadFails(t)
    <2>1. thread'[t].pc = "links" /\ thread'[t].bytes = thread[t].bytes
      BY <1>0, <1>3 DEF DownloadFails, ThreadState
    <2>2. /\ bucket' = bucket /\ db' = db /\ cache' = cache
          /\ file'.writers = file.writers \ {t} /\ file'.bytes \subseteq file.bytes
          /\ \A u \in Thread \ {t} : thread'[u] = thread[u]
      BY <1>3, BrokenOff DEF DownloadFails
    <2> QED
      BY <1>0, <2>1, <2>2, GraphsThread DEF ReadExists
  <1>4. CASE LoadGraphArtifact(t)
    <2>1. PICK built \in thread[t].bytes : StoreInCache(t, built)
      BY <1>4 DEF LoadGraphArtifact
    <2>2. /\ bucket' = bucket /\ db' = db /\ file' = file /\ t \notin file.writers
          /\ \A u \in Thread \ {t} : thread'[u] = thread[u]
          /\ thread'[t].pc = "idle" /\ thread'[t].bytes = {}
      BY <1>4, <2>1 DEF LoadGraphArtifact, StoreInCache, Idle
    <2>3. CacheExists'
      BY <1>0, <2>1, GraphsStored
    <2> QED
      BY <2>2, <2>3, GraphsThread DEF ReadExists
  <1>5. CASE LoadFails(t)
    <2>1. thread'[t].pc = "links" /\ thread'[t].bytes = {}
      BY <1>0, <1>5 DEF LoadFails, ThreadState
    <2>2. /\ bucket' = bucket /\ db' = db /\ file' = file /\ cache' = cache
          /\ t \notin file.writers /\ \A u \in Thread \ {t} : thread'[u] = thread[u]
      BY <1>5 DEF LoadFails
    <2> QED
      BY <1>0, <2>1, <2>2, GraphsThread DEF ReadExists
  <1>8. CASE ReadLinks(t) \/ ReadEpisodes(t) \/ ReadGuests(t)
    <2>1. /\ bucket' = bucket /\ db' = db /\ file' = file /\ cache' = cache
          /\ t \notin file.writers /\ \A u \in Thread \ {t} : thread'[u] = thread[u]
          /\ thread'[t].bytes = thread[t].bytes
      BY <1>8, ThreadReads DEF Reading
    <2>2. ReadExists(thread'[t])
      BY <1>8, ThreadReads DEF GraphsExist
    <2> QED
      BY <1>0, <2>1, <2>2, GraphsThread
  <1>6. CASE ReadGraphRows(t)
    <2> DEFINE read == thread[t].read
               built == [read EXCEPT !.rows = db]
    <2>1. StoreInCache(t, built)
      BY <1>6 DEF ReadGraphRows
    <2>2. built \in PossibleGraphs
      <3>1. read \in Graph
        BY <1>0 DEF ThreadState
      <3>2. built = Built(read.linksAt, read.episodesAt, read.guestsAt, db)
        BY <3>1 DEF Graph, Built
      <3>3. /\ read.linksAt \in DOMAIN Versions /\ read.episodesAt \in DOMAIN Versions
            /\ read.guestsAt \in DOMAIN Versions /\ db \in DOMAIN Versions
        BY <1>6 DEF ReadGraphRows, GraphsExist, ReadExists
      <3> QED
        BY <3>2, <3>3 DEF PossibleGraphs
    <2>3. /\ bucket' = bucket /\ db' = db /\ file' = file /\ t \notin file.writers
          /\ \A u \in Thread \ {t} : thread'[u] = thread[u]
          /\ thread'[t].pc = "idle" /\ thread'[t].bytes = {}
      BY <1>6, <2>1 DEF ReadGraphRows, StoreInCache, Idle
    <2> HIDE DEF built
    <2>4. CacheExists'
      BY <2>1, <2>2, GraphsStored
    <2> QED
      BY <2>3, <2>4, GraphsThread DEF ReadExists
  <1>7. CASE BuildFails(t)
    <2>1. /\ bucket' = bucket /\ db' = db /\ file' = file /\ cache' = cache
          /\ t \notin file.writers /\ \A u \in Thread \ {t} : thread'[u] = thread[u]
          /\ thread'[t].pc = "idle" /\ thread'[t].bytes = {}
      BY <1>7 DEF BuildFails, Idle, Reading
    <2> QED
      BY <1>0, <2>1, GraphsThread DEF ReadExists
  <1> QED
    BY <1>1, <1>2, <1>3, <1>4, <1>5, <1>6, <1>7, <1>8, GraphsBegin DEF Step

\* Whatever graph a worker keeps, however it came there: a path it shows is a shortest one
\* through appearances inside the window, and it shows one whenever there is one
THEOREM AnswersAlways == Spec => []AnswersArePaths
  <1>1. Init => GraphsExist
    <2> SUFFICES ASSUME Init PROVE GraphsExist
      OBVIOUS
    <2>1. 1 \in DOMAIN Versions
      BY DatabaseAssumption
    <2>2. bucket \in PossibleGraphs \cup {None} /\ db \in DOMAIN Versions
      BY <2>1 DEF Init, PossibleGraphs
    <2>3. \A t \in Thread : thread[t].pc = "idle" /\ thread[t].bytes = {} /\ t \notin file.writers
      BY DEF Init, Idle
    <2>4. file.bytes = {} /\ \A w \in Worker : cache[w] = None
      BY DEF Init
    <2> QED
      BY <2>2, <2>3, <2>4 DEF GraphsExist, ReadExists
  <1>2. ASSUME ShapeOK, GraphsExist, [Next]_vars PROVE GraphsExist'
    <2>0. PossibleGraphs' = PossibleGraphs
      BY DEF PossibleGraphs
    <2>1. CASE Tick \/ UNCHANGED vars
      BY <1>2, <2>0, <2>1 DEF Tick, vars, GraphsExist
    <2>2. CASE DatabaseGrows
      <3>1. db' \in DOMAIN Versions
        BY <1>2, <2>2, DatabaseAssumption DEF DatabaseGrows, GraphsExist
      <3> QED
        BY <1>2, <2>0, <2>2, <3>1 DEF DatabaseGrows, GraphsExist
    <2>3. CASE PublishGraphArtifact
      <3>1. /\ bucket' \in ReadSoFar /\ db' = db /\ file' = file /\ cache' = cache
            /\ \A t \in Thread :
                 /\ thread'[t].pc = thread[t].pc /\ thread'[t].read = thread[t].read
                 /\ thread'[t].graph = thread[t].graph /\ thread'[t].bytes = thread[t].bytes
        BY <1>2, <2>3, PublishKeeps
      <3>2. /\ db \in 1..Len(Versions) /\ Len(Versions) \in Nat
            /\ DOMAIN Versions = 1..Len(Versions)
        BY <1>2, DatabaseAssumption DEF GraphsExist
      <3>3. 1..db \subseteq DOMAIN Versions
        BY <3>2
      <3>4. bucket' \in PossibleGraphs
        <4>1. bucket' = Built(bucket'.linksAt, bucket'.episodesAt, bucket'.guestsAt, bucket'.rows)
          BY <3>1 DEF ReadSoFar, Built
        <4>2. /\ bucket'.linksAt \in 1..db /\ bucket'.episodesAt \in 1..db
              /\ bucket'.guestsAt \in 1..db /\ bucket'.rows \in 1..db
          BY <3>1 DEF ReadSoFar
        <4> QED
          BY <3>3, <4>1, <4>2 DEF PossibleGraphs
      <3> QED
        BY <1>2, <2>0, <3>1, <3>4 DEF GraphsExist, ReadExists
    <2>4. ASSUME NEW w \in Worker, RestartWorker(w) PROVE GraphsExist'
      <3> DEFINE own == {t \in Thread : WorkerOf[t] = w}
      <3>1. \A t \in Thread : IF t \in own THEN thread'[t] = Idle ELSE thread'[t] = thread[t]
        BY <2>4 DEF RestartWorker
      <3>2. /\ bucket' = bucket /\ db' = db
            /\ file'.bytes \subseteq file.bytes /\ file'.writers = file.writers \ own
        BY <1>2, <2>4, BrokenOff DEF RestartWorker
      <3>3. \A v \in Worker : cache'[v] = None \/ cache'[v] = cache[v]
        BY <1>2, <2>4 DEF RestartWorker, ShapeOK
      <3>4. Idle.bytes = {} /\ Idle.pc = "idle"
        BY DEF Idle
      <3> HIDE DEF own
      <3> QED
        BY <1>2, <2>0, <3>1, <3>2, <3>3, <3>4 DEF GraphsExist, ReadExists
    <2> QED
      BY <1>2, <2>1, <2>2, <2>3, <2>4, GraphsThreadStep DEF Next
  <1>3. GraphsExist => AnswersArePaths
    BY NothingWrong DEF GraphsExist, AnswersArePaths
  <1> QED
    BY <1>1, <1>2, <1>3, ShapesAlways, PTL DEF Spec

=============================================================================
