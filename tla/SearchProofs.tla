------------------------------ MODULE SearchProofs ------------------------------
(***************************************************************************)
(* Answers are ranked: sorting by an order that is total yields what it    *)
(* should, and every answer of search, get_context, log and save_decision  *)
(* is the beginning of something sorted.                                   *)
(***************************************************************************)
EXTENDS QueriesProofs

-------------------------------------------------------------------------------
(***************************************************************************)
(* Sorting.                                                                *)
(***************************************************************************)

\* The instance's operators of the library are the library's.
LEMMA SameOperators ==
  /\ \A S : Search!Cardinality(S) = Cardinality(S)
  /\ \A s : Search!ToSet(s) = ToSet(s)
<1>1. \A S : Search!Cardinality(S) = Cardinality(S)
  BY DEF Search!Cardinality, Cardinality
<1>2. \A s : Search!ToSet(s) = ToSet(s)
  BY DEF Search!ToSet, ToSet
<1>3. QED
  BY <1>1, <1>2

\* A sequence of members of a set is one of members of a larger set.
LEMMA SeqOfMore ==
  ASSUME NEW S, NEW T, S \subseteq T, NEW s \in Seq(S)
  PROVE  s \in Seq(T)
OBVIOUS

\* The pairs that order a set, of any two one way and never both.
IsStrictOrder(order, S) ==
  /\ \A d \in S : <<d, d>> \notin order
  /\ \A d, e, f \in S : <<d, e>> \in order /\ <<e, f>> \in order => <<d, f>> \in order
  /\ \A d, e \in S : d = e \/ <<d, e>> \in order \/ <<e, d>> \in order

\* All of a set, each after those that are before it.
IsSorting(s, S, order) ==
  /\ s \in [1..Cardinality(S) -> S]
  /\ \A i, j \in DOMAIN s : i < j => <<s[i], s[j]>> \in order

\* A finite set can be sorted: every member has its place, which is how many are
\* before it.
LEMMA SortingExists ==
  ASSUME NEW S, IsFiniteSet(S), NEW order, IsStrictOrder(order, S)
  PROVE  \E s : IsSorting(s, S, order)
<1> DEFINE n == Cardinality(S)
           below(d) == {e \in S : <<e, d>> \in order}
           rank == [d \in S |-> Cardinality(below(d))]
<1>1. n \in Nat
  BY FS_CardinalityType
<1>2. ASSUME NEW d \in S
      PROVE  IsFiniteSet(below(d)) /\ rank[d] \in 0..(n - 1)
  <2>1. /\ IsFiniteSet(below(d)) /\ Cardinality(below(d)) <= n
        /\ Cardinality(below(d)) = n => below(d) = S
    <3>1. below(d) \in SUBSET S
      OBVIOUS
    <3> HIDE DEF below
    <3>2. QED
      BY <3>1, FS_Subset
  <2>2. d \notin below(d)
    BY DEF IsStrictOrder
  <2>3. Cardinality(below(d)) \in Nat /\ rank[d] = Cardinality(below(d))
    BY <2>1, FS_CardinalityType
  <2> HIDE DEF below, rank
  <2>4. QED
    BY <1>1, <2>1, <2>2, <2>3
<1>3. ASSUME NEW d \in S, NEW e \in S, <<d, e>> \in order
      PROVE  rank[d] < rank[e]
  <2>1. below(d) \in SUBSET below(e) /\ d \in below(e) /\ d \notin below(d)
    BY <1>3 DEF IsStrictOrder
  <2>2. IsFiniteSet(below(e)) /\ rank[d] \in 0..(n - 1) /\ rank[e] \in 0..(n - 1)
    BY <1>2
  <2>3. rank[d] = Cardinality(below(d)) /\ rank[e] = Cardinality(below(e))
    OBVIOUS
  <2> HIDE DEF below, rank
  <2>4. rank[d] <= rank[e] /\ rank[d] # rank[e]
    <3>1. /\ Cardinality(below(d)) <= Cardinality(below(e))
          /\ Cardinality(below(d)) = Cardinality(below(e)) => below(d) = below(e)
      BY <2>1, <2>2, FS_Subset
    <3>2. QED
      BY <2>1, <2>3, <3>1
  <2>5. QED
    BY <1>1, <2>2, <2>4
<1>4. rank \in [S -> 0..(n - 1)]
  BY <1>2
<1> HIDE DEF rank
<1>5. \A k \in 0..(n - 1) : \E d \in S : rank[d] = k
  <2>1. ASSUME NEW d \in S, NEW e \in S, rank[d] = rank[e]  PROVE d = e
    <3>1. rank[d] \in 0..(n - 1) /\ rank[e] \in 0..(n - 1)
      BY <1>4
    <3>2. ~ (rank[d] < rank[e]) /\ ~ (rank[e] < rank[d])
      BY <1>1, <2>1, <3>1
    <3>3. QED
      BY <1>3, <3>2 DEF IsStrictOrder
  <2>2. rank \in Injection(S, 0..(n - 1))
    BY <1>4, <2>1 DEF Injection, IsInjective
  <2>3. IsFiniteSet(0..(n - 1)) /\ Cardinality(0..(n - 1)) = n
    BY <1>1, FS_Interval
  <2>4. rank \in Surjection(S, 0..(n - 1))
    BY <2>2, <2>3, FS_Injection
  <2>5. QED
    BY <2>4 DEF Surjection
<1> DEFINE s == [i \in 1..n |-> CHOOSE d \in S : rank[d] = i - 1]
<1>6. ASSUME NEW i \in 1..n  PROVE s[i] \in S /\ rank[s[i]] = i - 1
  <2>1. i - 1 \in 0..(n - 1)
    BY <1>1
  <2>2. \E d \in S : rank[d] = i - 1
    BY <1>5, <2>1
  <2>3. QED
    BY <2>2
<1>7. s \in [1..n -> S]
  BY <1>6
<1> HIDE DEF s
<1>8. ASSUME NEW i \in 1..n, NEW j \in 1..n, i < j  PROVE <<s[i], s[j]>> \in order
  <2>1. s[i] \in S /\ s[j] \in S /\ rank[s[i]] = i - 1 /\ rank[s[j]] = j - 1
    BY <1>6
  <2>2. ~ (rank[s[j]] < rank[s[i]]) /\ rank[s[i]] # rank[s[j]]
    BY <1>1, <1>8, <2>1
  <2>3. QED
    BY <1>3, <2>1, <2>2 DEF IsStrictOrder
<1>9. QED
  BY <1>7, <1>8 DEF IsSorting

\* No two places hold the same.
Distinct(s) == \A i, j \in DOMAIN s : s[i] = s[j] => i = j

\* What is sorted has every member once, in order.
LEMMA RankedIsSorted ==
  ASSUME NEW S, IsFiniteSet(S), NEW order, IsStrictOrder(order, S)
  PROVE  LET s == Search!Ranked(S, order) IN
         /\ s \in Seq(S) /\ Len(s) = Cardinality(S) /\ Len(s) \in Nat
         /\ DOMAIN s = 1..Len(s)
         /\ Distinct(s) /\ ToSet(s) = S
         /\ \A i, j \in DOMAIN s : i < j <=> <<s[i], s[j]>> \in order
<1> DEFINE s == Search!Ranked(S, order)
           n == Cardinality(S)
<1>1. IsSorting(s, S, order)
  <2> DEFINE Good(t) == \A i, j \in DOMAIN t : i < j => <<t[i], t[j]>> \in order
  <2>1. \E t \in [1..n -> S] : Good(t)
    BY SortingExists DEF IsSorting
  <2>2. s = CHOOSE t \in [1..n -> S] : Good(t)
    BY SameOperators DEF Search!Ranked
  <2> HIDE DEF Good
  <2>3. s \in [1..n -> S] /\ Good(s)
    BY <2>1, <2>2
  <2>4. QED
    BY <2>3 DEF IsSorting, Good
<1> HIDE DEF s
<1>2. n \in Nat
  BY FS_CardinalityType
<1>3. s \in [1..n -> S] /\ \A i, j \in 1..n : i < j => <<s[i], s[j]>> \in order
  BY <1>1 DEF IsSorting
<1>4. s \in Seq(S) /\ Len(s) = n /\ DOMAIN s = 1..n
  BY <1>2, <1>3
<1>5. ASSUME NEW i \in 1..n, NEW j \in 1..n  PROVE i < j <=> <<s[i], s[j]>> \in order
  <2>1. i < j \/ i = j \/ j < i
    BY <1>2
  <2>2. s[i] \in S /\ s[j] \in S
    BY <1>3
  <2>3. ASSUME j < i  PROVE <<s[i], s[j]>> \notin order
    <3>1. <<s[j], s[i]>> \in order
      BY <1>3, <2>3
    <3>2. QED
      BY <2>2, <3>1 DEF IsStrictOrder
  <2>4. i = j => <<s[i], s[j]>> \notin order
    BY <2>2 DEF IsStrictOrder
  <2>5. QED
    BY <1>2, <1>3, <2>1, <2>3, <2>4
<1>6. ASSUME NEW i \in 1..n, NEW j \in 1..n, s[i] = s[j]  PROVE i = j
  <2>1. ~ (i < j) /\ ~ (j < i)
    BY <1>3, <1>5, <1>6 DEF IsStrictOrder
  <2>2. QED
    BY <1>2, <2>1
<1>7. ToSet(s) = S
  <2>1. s \in Injection(1..n, S)
    BY <1>3, <1>6 DEF Injection, IsInjective
  <2>2. Cardinality(1..n) = n
    BY <1>2, FS_Interval
  <2>3. s \in Surjection(1..n, S)
    BY <2>1, <2>2, FS_Injection
  <2>4. QED
    BY <1>3, <1>4, <2>3 DEF Surjection, ToSet
<1>8. QED
  BY <1>2, <1>4, <1>5, <1>6, <1>7 DEF s, Distinct

-------------------------------------------------------------------------------
(***************************************************************************)
(* Rankings.                                                               *)
(***************************************************************************)

\* A ranking has each of its members at one place.
LEMMA Places ==
  ASSUME NEW S, NEW s \in Seq(S), Distinct(s)
  PROVE  /\ Len(s) \in Nat /\ DOMAIN s = 1..Len(s)
         /\ IsFiniteSet(ToSet(s)) /\ Cardinality(ToSet(s)) = Len(s)
         /\ \A d : Contains(s, d) <=> d \in ToSet(s)
         /\ \A i \in DOMAIN s : s[i] \in ToSet(s) /\ Search!Place(s, s[i]) = i
         /\ \A d \in ToSet(s) : /\ Search!Place(s, d) \in DOMAIN s
                                /\ Search!Place(s, d) \in Nat
                                /\ s[Search!Place(s, d)] = d
<1>1. Len(s) \in Nat /\ DOMAIN s = 1..Len(s)
  OBVIOUS
<1>2. \A i \in DOMAIN s : s[i] \in ToSet(s) /\ Search!Place(s, s[i]) = i
  <2>1. SUFFICES ASSUME NEW i \in DOMAIN s
                 PROVE  s[i] \in ToSet(s) /\ Search!Place(s, s[i]) = i
    OBVIOUS
  <2>2. \A j \in DOMAIN s : s[j] = s[i] <=> j = i
    BY DEF Distinct
  <2>3. Search!Place(s, s[i]) = CHOOSE j \in DOMAIN s : s[j] = s[i]
    BY DEF Search!Place
  <2>4. QED
    BY <2>2, <2>3 DEF ToSet
<1>3. \A d \in ToSet(s) : /\ Search!Place(s, d) \in DOMAIN s
                          /\ Search!Place(s, d) \in Nat
                          /\ s[Search!Place(s, d)] = d
  <2>1. SUFFICES ASSUME NEW d \in ToSet(s)
                 PROVE  /\ Search!Place(s, d) \in DOMAIN s
                        /\ Search!Place(s, d) \in Nat
                        /\ s[Search!Place(s, d)] = d
    OBVIOUS
  <2>2. PICK i \in DOMAIN s : s[i] = d
    BY DEF ToSet
  <2>3. QED
    BY <1>1, <1>2, <2>2
<1>4. \A d : Contains(s, d) <=> d \in ToSet(s)
  BY <1>1 DEF Contains, ToSet
<1>5. IsFiniteSet(ToSet(s)) /\ Cardinality(ToSet(s)) = Len(s)
  <2>1. s \in [1..Len(s) -> ToSet(s)]
    BY <1>1, <1>2
  <2>2. s \in Injection(1..Len(s), ToSet(s)) /\ s \in Surjection(1..Len(s), ToSet(s))
    BY <1>1, <1>3, <2>1 DEF Injection, Surjection, IsInjective, Distinct
  <2>3. IsFiniteSet(1..Len(s)) /\ Cardinality(1..Len(s)) = Len(s)
    BY <1>1, FS_Interval
  <2>4. QED
    BY <2>2, <2>3, FS_Surjection
<1>6. QED
  BY <1>1, <1>2, <1>3, <1>4, <1>5

\* The order of a ranking is one, on any part of it.
LEMMA AheadIsOrder ==
  ASSUME NEW S, NEW s \in Seq(S), Distinct(s), NEW T \in SUBSET ToSet(s)
  PROVE  IsStrictOrder(Ahead(s), T)
<1>1. \A d \in T : Search!Place(s, d) \in Nat /\ s[Search!Place(s, d)] = d
  BY Places
<1>2. \A d, e \in T : <<d, e>> \in Ahead(s) <=> Search!Place(s, d) < Search!Place(s, e)
  BY DEF Ahead
<1>3. \A d, e \in T : d = e \/ Search!Place(s, d) # Search!Place(s, e)
  BY <1>1
<1>4. QED
  BY <1>1, <1>2, <1>3 DEF IsStrictOrder

\* The first of a ranking are a ranking, with the same places.
LEMMA FirstAreFirst ==
  ASSUME NEW S, NEW s \in Seq(S), Distinct(s), NEW n \in Nat
  PROVE  LET t == Search!FirstOf(s, n) IN
         /\ t \in Seq(S) /\ Distinct(t)
         /\ Len(t) = LesserOf(Len(s), n)
         /\ \A d : d \in ToSet(t) <=> d \in ToSet(s) /\ Search!Place(s, d) <= n
         /\ \A d \in ToSet(t) : Search!Place(t, d) = Search!Place(s, d)
<1> DEFINE t == Search!FirstOf(s, n)
           m == LesserOf(Len(s), n)
<1>1. /\ Len(s) \in Nat /\ DOMAIN s = 1..Len(s)
      /\ \A i \in DOMAIN s : Search!Place(s, s[i]) = i
      /\ \A d \in ToSet(s) : Search!Place(s, d) \in DOMAIN s /\ s[Search!Place(s, d)] = d
  BY Places
<1>2. m \in Nat /\ m <= Len(s) /\ m <= n /\ \A i \in Nat : i <= Len(s) /\ i <= n => i <= m
  BY <1>1 DEF LesserOf
<1>3. t = SubSeq(s, 1, m)
  BY DEF Search!FirstOf, LesserOf
<1> HIDE DEF t, m
<1>4. t \in Seq(S) /\ Len(t) = m /\ DOMAIN t = 1..m /\ \A i \in 1..m : t[i] = s[i]
  BY <1>1, <1>2, <1>3
<1>5. DOMAIN t = 1..m /\ \A i \in 1..m : t[i] = s[i]
  BY <1>4
<1>6. \A i \in 1..m : i \in DOMAIN s /\ i <= n
  BY <1>1, <1>2
<1>7. Distinct(t)
  <2>1. ASSUME NEW i \in 1..m, NEW j \in 1..m, t[i] = t[j]  PROVE i = j
    <3>1. i \in DOMAIN s /\ j \in DOMAIN s /\ s[i] = s[j]
      BY <1>5, <1>6, <2>1, Zenon
    <3>2. QED
      BY <3>1, Zenon DEF Distinct
  <2>2. QED
    BY <1>5, <2>1, Zenon DEF Distinct
<1>8. \A i \in 1..m : Search!Place(t, t[i]) = i
  BY <1>4, <1>7, Places
<1>9. ASSUME NEW d \in ToSet(t)
      PROVE  /\ d \in ToSet(s) /\ Search!Place(s, d) <= n
             /\ Search!Place(t, d) = Search!Place(s, d)
  <2>1. PICK i \in 1..m : t[i] = d
    BY <1>5 DEF ToSet
  <2>2. i \in DOMAIN s /\ s[i] = d /\ i <= n
    BY <1>5, <1>6, <2>1
  <2>3. d \in ToSet(s)
    BY <2>2 DEF ToSet
  <2>4. Search!Place(s, d) = i /\ Search!Place(t, d) = i
    BY <1>1, <1>8, <2>1, <2>2
  <2>5. QED
    BY <2>2, <2>3, <2>4
<1>10. ASSUME NEW d \in ToSet(s), Search!Place(s, d) <= n  PROVE d \in ToSet(t)
  <2>1. Search!Place(s, d) \in 1..Len(s) /\ s[Search!Place(s, d)] = d
    BY <1>1
  <2>2. Search!Place(s, d) \in 1..m
    BY <1>1, <1>2, <1>10, <2>1
  <2>3. t[Search!Place(s, d)] = d
    BY <1>5, <2>1, <2>2, Zenon
  <2>4. QED
    BY <1>5, <2>2, <2>3, Zenon DEF ToSet
<1>11. QED
  BY <1>4, <1>7, <1>9, <1>10 DEF t, m

\* The first of what is sorted are the best, by any part of the order.
LEMMA FirstAreBest ==
  ASSUME NEW S, IsFiniteSet(S), NEW order, IsStrictOrder(order, S), NEW n \in Nat,
         NEW better, \A d, e \in S : <<d, e>> \in better => <<d, e>> \in order
  PROVE  AreBest(Search!FirstOf(Search!Ranked(S, order), n), S, n, better)
<1> DEFINE s == Search!Ranked(S, order)
           t == Search!FirstOf(s, n)
<1>1. /\ s \in Seq(S) /\ Len(s) = Cardinality(S) /\ Distinct(s) /\ ToSet(s) = S
      /\ \A i, j \in DOMAIN s : i < j <=> <<s[i], s[j]>> \in order
  BY RankedIsSorted
<1> HIDE DEF s
<1>2. /\ t \in Seq(S) /\ Distinct(t) /\ Len(t) = LesserOf(Len(s), n)
      /\ \A d : d \in ToSet(t) <=> d \in S /\ Search!Place(s, d) <= n
      /\ \A d \in ToSet(t) : Search!Place(t, d) = Search!Place(s, d)
  BY <1>1, FirstAreFirst
<1> HIDE DEF t
<1>3. Cardinality(ToSet(t)) = Len(t) /\ \A d : Contains(t, d) <=> d \in ToSet(t)
  BY <1>2, Places
<1>4. ASSUME NEW d \in S, NEW e \in S, <<d, e>> \in better, Contains(t, e)
      PROVE  Contains(t, d) /\ Search!Place(t, d) < Search!Place(t, e)
  <2>1. \A x \in S : Search!Place(s, x) \in DOMAIN s /\ s[Search!Place(s, x)] = x
                     /\ Search!Place(s, x) \in Nat
    BY <1>1, Places
  <2>2. Search!Place(s, d) < Search!Place(s, e)
    BY <1>1, <1>4, <2>1
  <2>3. Search!Place(s, e) <= n
    BY <1>2, <1>3, <1>4
  <2>4. Search!Place(s, d) <= n
    BY <2>1, <2>2, <2>3
  <2>5. QED
    BY <1>2, <1>3, <1>4, <2>2, <2>4
<1>5. QED
  BY <1>1, <1>2, <1>3, <1>4 DEF AreBest, AreRanked, s, t

\* What a filter lets through is in order, and is all there is to let through.
LEMMA AmongKeeps ==
  ASSUME NEW S, NEW s \in Seq(S), Distinct(s), NEW T
  PROVE  LET t == Search!Among(s, T) IN
         /\ t = Search!Ranked(ToSet(s) \intersect T, Ahead(s))
         /\ t \in Seq(S) /\ Distinct(t) /\ ToSet(t) = ToSet(s) \intersect T
         /\ \A d, e \in ToSet(t) :
              Search!Place(t, d) < Search!Place(t, e)
                <=> Search!Place(s, d) < Search!Place(s, e)
<1> DEFINE t == Search!Among(s, T)
           both == ToSet(s) \intersect T
<1>1. t = Search!Ranked(both, Ahead(s))
  BY SameOperators DEF Search!Among, Ahead
<1>2. IsFiniteSet(both) /\ IsStrictOrder(Ahead(s), both)
  <2>1. both \in SUBSET ToSet(s) /\ IsFiniteSet(ToSet(s))
    BY Places
  <2>2. QED
    BY <2>1, FS_Subset, AheadIsOrder
<1> HIDE DEF t
<1>3. /\ t \in Seq(both) /\ Distinct(t) /\ ToSet(t) = both
      /\ \A i, j \in DOMAIN t : i < j <=> <<t[i], t[j]>> \in Ahead(s)
  BY <1>1, <1>2, RankedIsSorted
<1>4. t \in Seq(S)
  <2>1. both \subseteq S
    BY DEF ToSet
  <2>2. QED
    BY <1>3, <2>1, SeqOfMore
<1>5. \A d, e \in both :
        Search!Place(t, d) < Search!Place(t, e) <=> Search!Place(s, d) < Search!Place(s, e)
  <2>1. \A d \in both : Search!Place(t, d) \in DOMAIN t /\ t[Search!Place(t, d)] = d
    BY <1>3, Places
  <2>2. \A d, e \in both : <<d, e>> \in Ahead(s) <=> Search!Place(s, d) < Search!Place(s, e)
    BY DEF Ahead
  <2> HIDE DEF both
  <2>3. QED
    BY <1>3, <2>1, <2>2
<1>6. QED
  BY <1>1, <1>3, <1>4, <1>5 DEF t

-------------------------------------------------------------------------------
(***************************************************************************)
(* What can be browsed.                                                    *)
(***************************************************************************)

\* What listActive selects.
Selected(store, module, since) ==
  {d \in Search!Shown(store) :
     /\ module # None => store[d].module = module
     /\ since # None => \E first \in Search!RecordedAt(store, since) : first <= d}

\* The order of ids, newest first.
NewestFirst(S) == {p \in S \X S : p[1] > p[2]}

\* Ids are in a total order.
LEMMA NewestFirstIsOrder ==
  ASSUME NEW S \in SUBSET Nat
  PROVE  IsStrictOrder(NewestFirst(S), S)
<1>1. \A d, e \in S : <<d, e>> \in NewestFirst(S) <=> d > e
  BY DEF NewestFirst
<1>2. QED
  BY <1>1 DEF IsStrictOrder

\* listActive has what it selects, newest first.
LEMMA ListIsRanked ==
  ASSUME NEW store, IsStore(store), NEW module, NEW since
  PROVE  LET S == Selected(store, module, since) IN
         /\ Search!ListActive(store, module, since) = Search!Ranked(S, NewestFirst(S))
         /\ IsFiniteSet(S) /\ S \subseteq Nat /\ IsStrictOrder(NewestFirst(S), S)
<1> DEFINE S == Selected(store, module, since)
<1>1. Search!ListActive(store, module, since) = Search!Ranked(S, NewestFirst(S))
  BY DEF Search!ListActive, Selected, NewestFirst
<1>2. S \in SUBSET DOMAIN store /\ DOMAIN store \subseteq Nat /\ IsFiniteSet(DOMAIN store)
  BY DEF Selected, Search!Shown, IsStore
<1> HIDE DEF S
<1>3. IsFiniteSet(S) /\ S \in SUBSET Nat
  BY <1>2, FS_Subset
<1>4. QED
  BY <1>1, <1>3, NewestFirstIsOrder DEF S

\* get_context without intent shows the newest of what it may show, and no
\* fewer than its limit allows.
LEMMA OverviewIsBest ==
  ASSUME NEW b, IsCommit(b), NEW m
  PROVE  LET shown == Search!Shown(b.store) IN
         AreBest(Search!OverviewContext(b.store, m, b.limit).decisions,
                 {d \in shown : m \in {None, b.store[d].module}}, b.limit,
                 {p \in shown \X shown : p[1] > p[2]})
<1> DEFINE S == Selected(b.store, m, None)
           shown == Search!Shown(b.store)
           newer == {p \in shown \X shown : p[1] > p[2]}
<1>1. IsStore(b.store) /\ b.limit \in Nat
  BY DEF IsCommit
<1>2. Search!OverviewContext(b.store, m, b.limit).decisions
        = Search!FirstOf(Search!ListActive(b.store, m, None), b.limit)
  BY DEF Search!OverviewContext
<1>3. S = {d \in shown : m \in {None, b.store[d].module}}
  BY DEF Selected
<1>4. \A d, e \in S : <<d, e>> \in newer => <<d, e>> \in NewestFirst(S)
  BY DEF NewestFirst
<1> HIDE DEF S, newer
<1>5. AreBest(Search!FirstOf(Search!ListActive(b.store, m, None), b.limit), S, b.limit, newer)
  BY <1>1, <1>4, ListIsRanked, FirstAreBest DEF S
<1>6. QED
  BY <1>2, <1>3, <1>5 DEF newer

\* What `log` lists is in order, and nothing newer is left out.
LEMMA LogIsRanked ==
  ASSUME NEW b, IsCommit(b)
  PROVE  LET log == Search!ListActive(b.store, None, b.since)
             shown == Search!Shown(b.store)
         IN  /\ log \in Seq(Nat)
             /\ {d \in shown : b.store[d].commit = b.since} \subseteq ToSet(log)
             /\ AreRanked(log, shown, {p \in shown \X shown : p[1] > p[2]})
<1> DEFINE log == Search!ListActive(b.store, None, b.since)
           shown == Search!Shown(b.store)
           newer == {p \in shown \X shown : p[1] > p[2]}
           S == Selected(b.store, None, b.since)
<1>1. /\ log = Search!Ranked(S, NewestFirst(S)) /\ IsFiniteSet(S) /\ S \subseteq Nat
      /\ IsStrictOrder(NewestFirst(S), S)
  BY ListIsRanked DEF IsCommit
<1>2. /\ S \subseteq shown /\ shown \subseteq Nat
      /\ {d \in shown : b.store[d].commit = b.since} \subseteq S
      /\ \A d \in shown, e \in S : d > e => d \in S
  <2>1. shown \subseteq DOMAIN b.store /\ DOMAIN b.store \subseteq Nat
    BY DEF Search!Shown, IsCommit, IsStore
  <2>2. \A d \in DOMAIN b.store : b.store[d].commit = b.since
                                    => d \in Search!RecordedAt(b.store, b.since)
    BY DEF Search!RecordedAt
  <2>3. Search!RecordedAt(b.store, b.since) \subseteq Nat
    BY <2>1 DEF Search!RecordedAt
  <2> HIDE DEF shown
  <2>4. S = {d \in shown : b.since # None =>
                             \E first \in Search!RecordedAt(b.store, b.since) : first <= d}
    BY DEF Selected, shown
  <2> HIDE DEF S
  <2>5. \A d \in shown, e \in S : d > e => d \in S
    <3>1. \A first, d, e \in Nat : first <= e /\ d > e => first <= d
      OBVIOUS
    <3>2. QED
      BY <2>1, <2>3, <2>4, <3>1
  <2>6. \A d \in Nat : d <= d
    OBVIOUS
  <2>7. {d \in shown : b.store[d].commit = b.since} \subseteq S
    BY <2>1, <2>2, <2>4, <2>6
  <2>8. QED
    BY <2>1, <2>4, <2>5, <2>7
<1> HIDE DEF S, shown, log
<1>3. /\ log \in Seq(S) /\ Distinct(log) /\ ToSet(log) = S
      /\ \A i, j \in DOMAIN log : i < j <=> <<log[i], log[j]>> \in NewestFirst(S)
  BY <1>1, RankedIsSorted
<1>4. /\ Cardinality(ToSet(log)) = Len(log)
      /\ \A d : Contains(log, d) <=> d \in ToSet(log)
      /\ \A d \in S : Search!Place(log, d) \in DOMAIN log /\ log[Search!Place(log, d)] = d
  BY <1>3, Places
<1>5. ASSUME NEW d \in shown, NEW e \in shown, <<d, e>> \in newer, Contains(log, e)
      PROVE  Contains(log, d) /\ Search!Place(log, d) < Search!Place(log, e)
  <2>1. e \in S /\ d > e
    BY <1>3, <1>4, <1>5
  <2>2. d \in S
    BY <1>2, <2>1
  <2>3. <<d, e>> \in NewestFirst(S)
    BY <2>1, <2>2 DEF NewestFirst
  <2>4. QED
    BY <1>3, <1>4, <2>1, <2>2, <2>3
<1>6. log \in Seq(Nat)
  <2>1. log \in Seq(S) /\ S \subseteq Nat
    BY <1>1, <1>3
  <2>2. QED
    BY <2>1, SeqOfMore
<1> HIDE DEF newer
<1>7. QED
  BY <1>2, <1>3, <1>4, <1>5, <1>6 DEF AreRanked, shown, log, newer

\* The overview and the log are complete, for any store, commit and limit.
LEMMA BrowsingComplete ==
  ASSUME NoneIsNoValue, NEW b, IsCommit(b)
  PROVE  BrowsingIsComplete(b)
<1> DEFINE overview(m) == Search!OverviewContext(b.store, m, b.limit)
           log == Search!RunLog(b.store, None, b.since)
           list == Search!ListActive(b.store, None, b.since)
           shown == Search!Shown(b.store)
           newer == {p \in shown \X shown : p[1] > p[2]}
           of(m) == {d \in shown : m \in {None, b.store[d].module}}
<1>1. IsFiniteSet(shown) /\ b.limit \in Nat \ {0} /\ b.since # None
  <2>1. shown \in SUBSET DOMAIN b.store /\ IsFiniteSet(DOMAIN b.store)
    BY DEF Search!Shown, IsCommit, IsStore
  <2> HIDE DEF shown
  <2>2. QED
    BY <2>1, FS_Subset DEF IsCommit
<1>2. \A m : AreBest(overview(m).decisions, of(m), b.limit, newer)
  BY OverviewIsBest
<1>3. ASSUME NEW m \in {b.store[d].module : d \in shown} \ {None}
      PROVE  m \in overview(None).modules /\ overview(m).decisions # <<>>
  <2>1. PICK d \in shown : b.store[d].module = m
    OBVIOUS
  <2>2. m \in overview(None).modules
    BY <2>1 DEF Search!OverviewContext, Search!ListModules, Search!Shown
  <2>3. of(m) # {} /\ of(m) \in SUBSET shown
    BY <2>1
  <2> HIDE DEF of, shown, overview
  <2>4. Cardinality(of(m)) \in Nat /\ Cardinality(of(m)) # 0
    BY <1>1, <2>3, FS_Subset, FS_CardinalityType, FS_EmptySet
  <2>5. Len(overview(m).decisions) # 0
    BY <1>1, <1>2, <2>4 DEF AreBest, LesserOf
  <2>6. Len(<<>>) = 0
    OBVIOUS
  <2>7. QED
    BY <2>2, <2>5, <2>6
<1>4. /\ list \in Seq(Nat)
      /\ {d \in shown : b.store[d].commit = b.since} \subseteq ToSet(list)
      /\ AreRanked(list, shown, newer)
  BY LogIsRanked
<1>5. list # None
  BY <1>4 DEF NoneIsNoValue
<1> HIDE DEF list
<1>6. log = IF Search!RecordedAt(b.store, b.since) = {} THEN None ELSE list
  BY <1>1 DEF Search!RunLog, list
<1> HIDE DEF log
<1>7. log = None <=> \A d \in DOMAIN b.store : b.store[d].commit # b.since
  BY <1>5, <1>6 DEF Search!RecordedAt
<1>8. log # None => log = list
  BY <1>6
<1> HIDE DEF overview, newer, shown, of
<1>9. QED
  BY <1>2, <1>3, <1>4, <1>7, <1>8, Zenon
     DEF BrowsingIsComplete, overview, log, shown, newer, of

-------------------------------------------------------------------------------
(***************************************************************************)
(* The candidates for a conflict.                                          *)
(***************************************************************************)

\* The full-text index answers with the best of what is shown.
LEMMA ExactIsBest ==
  ASSUME NEW store, NEW matching, IsRanking(matching), NEW n \in Nat
  PROVE  LET t == Search!SearchExact(store, matching, n)
             text == ToSet(matching) \intersect Search!Shown(store)
         IN  /\ t \in Seq(Nat) /\ Distinct(t) /\ ToSet(t) \subseteq text
             /\ AreBest(t, text, n, Ahead(matching))
<1> DEFINE shown == Search!Shown(store)
           text == ToSet(matching) \intersect shown
           a == Search!Among(matching, shown)
           t == Search!SearchExact(store, matching, n)
<1>1. matching \in Seq(Nat) /\ Distinct(matching)
  BY DEF IsRanking, Distinct
<1>2. /\ a = Search!Ranked(text, Ahead(matching))
      /\ a \in Seq(Nat) /\ Distinct(a) /\ ToSet(a) = text
  BY <1>1, AmongKeeps
<1>3. t = Search!FirstOf(a, n)
  BY DEF Search!SearchExact
<1>4. text \in SUBSET ToSet(matching) /\ IsFiniteSet(text)
  <2>1. text \in SUBSET ToSet(matching) /\ IsFiniteSet(ToSet(matching))
    BY <1>1, Places
  <2>2. QED
    BY <2>1, FS_Subset
<1>5. IsStrictOrder(Ahead(matching), text)
  BY <1>1, <1>4, AheadIsOrder
<1> HIDE DEF a, t, text
<1>6. t \in Seq(Nat) /\ Distinct(t) /\ ToSet(t) \subseteq text
  BY <1>2, <1>3, FirstAreFirst
<1>7. AreBest(t, text, n, Ahead(matching))
  BY <1>2, <1>3, <1>4, <1>5, FirstAreBest
<1>8. QED
  BY <1>6, <1>7 DEF t, text

\* The order in which save_decision offers its candidates.
Relevant(store, in, matching, S) ==
  {p \in S \X S : Search!ByRelevance(store, in, matching, p[1], p[2])}

\* The shared keywords are counted, of a draft of any kind.
LEMMA SharedIsNumber ==
  ASSUME NEW store, NEW in, NEW d, store[d].keywords \in Seq(STRING)
  PROVE  Search!SharedKeywords(store, in, d) \in Nat
<1> DEFINE shared == {i \in DOMAIN store[d].keywords :
                        store[d].keywords[i] \in ToSet(in.keywords)}
<1>1. Search!SharedKeywords(store, in, d) = Cardinality(shared)
  BY SameOperators DEF Search!SharedKeywords
<1>2. shared \in SUBSET (1..Len(store[d].keywords)) /\ Len(store[d].keywords) \in Nat
  OBVIOUS
<1> HIDE DEF shared
<1>3. IsFiniteSet(1..Len(store[d].keywords))
  BY <1>2, FS_Interval
<1>4. IsFiniteSet(shared)
  BY <1>2, <1>3, FS_Subset
<1>5. QED
  BY <1>1, <1>4, FS_CardinalityType

\* Among those that match, what the text says; after them, those that do not.
LEMMA FtsRankIs ==
  ASSUME NEW matching \in Seq(Nat), Distinct(matching), NEW d
  PROVE  /\ Search!FtsRank(matching, d) \in Int
         /\ d \in ToSet(matching) =>
              /\ Search!FtsRank(matching, d) = Search!Place(matching, d) - Len(matching) - 1
              /\ Search!FtsRank(matching, d) < 0
         /\ d \notin ToSet(matching) => Search!FtsRank(matching, d) = 0
<1>1. CASE d \in ToSet(matching)
  <2>1. /\ Len(matching) \in Nat /\ DOMAIN matching = 1..Len(matching)
        /\ Search!Place(matching, d) \in DOMAIN matching
    BY <1>1, Places
  <2>2. Search!FtsRank(matching, d) = Search!Place(matching, d) - Len(matching) - 1
    BY <1>1, SameOperators DEF Search!FtsRank
  <2>3. QED
    BY <1>1, <2>1, <2>2
<1>2. CASE d \notin ToSet(matching)
  BY <1>2, SameOperators DEF Search!FtsRank
<1>3. QED
  BY <1>1, <1>2

\* By relevance, of two candidates one is before the other: ids break ties.
LEMMA RelevanceIsOrder ==
  ASSUME NEW S \in SUBSET Nat, NEW store, NEW in, NEW matching \in Seq(Nat), Distinct(matching),
         \A d \in S : store[d].keywords \in Seq(STRING)
  PROVE  IsStrictOrder(Relevant(store, in, matching, S), S)
<1> DEFINE shared(d) == Search!SharedKeywords(store, in, d)
           rank(d) == Search!FtsRank(matching, d)
<1>1. \A d \in S : shared(d) \in Nat /\ rank(d) \in Int /\ d \in Nat
  BY SharedIsNumber, FtsRankIs
<1>2. \A d, e \in S : <<d, e>> \in Relevant(store, in, matching, S) <=>
        \/ shared(d) > shared(e)
        \/ shared(d) = shared(e) /\ (rank(d) < rank(e) \/ (rank(d) = rank(e) /\ d > e))
  BY DEF Relevant, Search!ByRelevance
<1> HIDE DEF shared, rank
<1>3. ASSUME NEW d \in S, NEW e \in S, NEW f \in S,
             <<d, e>> \in Relevant(store, in, matching, S),
             <<e, f>> \in Relevant(store, in, matching, S)
      PROVE  <<d, f>> \in Relevant(store, in, matching, S)
  <2>1. /\ shared(d) \in Nat /\ shared(e) \in Nat /\ shared(f) \in Nat
        /\ rank(d) \in Int /\ rank(e) \in Int /\ rank(f) \in Int
        /\ d \in Nat /\ e \in Nat /\ f \in Nat
    BY <1>1
  <2> HIDE DEF Relevant
  <2>2. /\ \/ shared(d) > shared(e)
           \/ shared(d) = shared(e) /\ (rank(d) < rank(e) \/ (rank(d) = rank(e) /\ d > e))
        /\ \/ shared(e) > shared(f)
           \/ shared(e) = shared(f) /\ (rank(e) < rank(f) \/ (rank(e) = rank(f) /\ e > f))
    BY <1>2, <1>3, Zenon
  <2>3. \/ shared(d) > shared(f)
        \/ shared(d) = shared(f) /\ (rank(d) < rank(f) \/ (rank(d) = rank(f) /\ d > f))
    BY <2>1, <2>2
  <2>4. QED
    BY <1>2, <2>3, Zenon
<1>4. \A d \in S : <<d, d>> \notin Relevant(store, in, matching, S)
  BY <1>1, <1>2
<1>5. ASSUME NEW d \in S, NEW e \in S, d # e
      PROVE  \/ <<d, e>> \in Relevant(store, in, matching, S)
             \/ <<e, d>> \in Relevant(store, in, matching, S)
  <2>1. /\ shared(d) \in Nat /\ shared(e) \in Nat /\ rank(d) \in Int /\ rank(e) \in Int
        /\ d \in Nat /\ e \in Nat
    BY <1>1
  <2>2. QED
    BY <1>2, <1>5, <2>1
<1>6. QED
  BY <1>3, <1>4, <1>5, Zenon DEF IsStrictOrder

\* What qualifies: not linked, of the module if one is given.
Qualified(store, in, hits) ==
  {d \in Search!Shown(store) \ Search!LinkedIds(in) :
     /\ in.module # None => store[d].module = in.module
     /\ Search!Qualifies(store, in, Search!SearchExact(store, hits, 20), d)}

\* The candidates are the first of what qualifies, sorted by relevance.
LEMMA CandidatesAreRanked ==
  ASSUME NEW store, IsStore(store), NEW hits, IsRanking(hits), NEW n \in Nat, NEW in,
         \A d \in DOMAIN store : store[d].keywords \in Seq(STRING)
  PROVE  LET pool == Qualified(store, in, hits)
             order == Relevant(store, in, Search!SearchExact(store, hits, 20), pool)
         IN  /\ Search!ConflictCandidates(store, in, hits, n)
                  = Search!FirstOf(Search!Ranked(pool, order), n)
             /\ IsFiniteSet(pool) /\ IsStrictOrder(order, pool)
<1> DEFINE matching == Search!SearchExact(store, hits, 20)
           pool == Qualified(store, in, hits)
           order == Relevant(store, in, matching, pool)
           list == Search!ListActive(store, in.module, None)
<1>1. matching \in Seq(Nat) /\ Distinct(matching)
  BY ExactIsBest
<1>2. ToSet(list) = Selected(store, in.module, None)
  BY ListIsRanked, RankedIsSorted
<1>3. Selected(store, in.module, None)
        = {d \in Search!Shown(store) : in.module # None => store[d].module = in.module}
  BY DEF Selected
<1>4. pool = {d \in ToSet(list) \ Search!LinkedIds(in) :
                Search!Qualifies(store, in, matching, d)}
  BY <1>2, <1>3 DEF Qualified
<1>5. Search!ConflictCandidates(store, in, hits, n) = Search!FirstOf(Search!Ranked(pool, order), n)
  <2>1. Search!ToSet(list) = ToSet(list)
    BY SameOperators
  <2> HIDE DEF pool
  <2>2. QED
    BY <1>4, <2>1 DEF Search!ConflictCandidates, Relevant
<1>6. /\ pool \in SUBSET DOMAIN store /\ DOMAIN store \subseteq Nat
      /\ IsFiniteSet(DOMAIN store)
  BY DEF Qualified, Search!Shown, IsStore
<1> HIDE DEF pool, matching
<1>7. IsFiniteSet(pool) /\ pool \in SUBSET Nat
  BY <1>6, FS_Subset
<1>8. IsStrictOrder(order, pool)
  BY <1>1, <1>6, <1>7, RelevanceIsOrder
<1>9. QED
  BY <1>5, <1>7, <1>8 DEF pool, matching

\* No candidate is left out for one that is further from the draft.
LEMMA CandidatesNearest ==
  ASSUME NEW s, IsSave(s)
  PROVE  CandidatesAreNearest(s)
<1> DEFINE matching == Search!SearchExact(s.store, s.hits, 20)
           shown == Search!Shown(s.store)
           pool == Qualified(s.store, s.input, s.hits)
           order == Relevant(s.store, s.input, matching, pool)
           named == s.input.dependsOn \union s.input.conflictsWith
                      \union {s.input.replaces, s.input.archives}
           qualified == {d \in shown \ named :
                           /\ s.input.module # None => s.store[d].module = s.input.module
                           /\ Search!Qualifies(s.store, s.input, matching, d)}
           nearer == {p \in qualified \X qualified : Nearer(s, matching, p[1], p[2])}
           candidates == Search!ConflictCandidates(s.store, s.input, s.hits, s.limit)
           open == [s.input EXCEPT !.module = None]
           unfenced == Search!ConflictCandidates(s.store, open, s.hits, 20)
<1>1. /\ IsStore(s.store) /\ IsRanking(s.hits) /\ s.limit \in Nat
      /\ \A d \in DOMAIN s.store : s.store[d].keywords \in Seq(STRING)
  BY DEF IsSave
<1>2. matching \in Seq(Nat) /\ Distinct(matching) /\ ToSet(matching) \subseteq shown
  BY <1>1, ExactIsBest
<1>3. qualified = pool
  <2>1. None \notin shown
    BY <1>1 DEF Search!Shown, IsStore
  <2>2. shown \ named = shown \ Search!LinkedIds(s.input)
    BY <2>1 DEF Search!LinkedIds
  <2>3. QED
    BY <2>2 DEF Qualified
<1>4. ASSUME NEW d \in pool, NEW e \in pool, Nearer(s, matching, d, e)
      PROVE  <<d, e>> \in order
  <2> DEFINE shared(x) == Search!SharedKeywords(s.store, s.input, x)
  <2>1. d \in shown /\ e \in shown
    BY DEF Qualified
  <2>2. \/ shared(d) > shared(e)
        \/ /\ shared(d) = shared(e) /\ d # e /\ Contains(matching, d)
           /\ Contains(matching, e) =>
                Search!Place(matching, d) <= Search!Place(matching, e)
    BY <1>4, <2>1 DEF Nearer, AheadIn
  <2>3. shared(d) = shared(e) /\ d # e /\ Contains(matching, d)
          /\ (Contains(matching, e) => Search!Place(matching, d) <= Search!Place(matching, e))
        => Search!FtsRank(matching, d) < Search!FtsRank(matching, e)
    <3>1. SUFFICES ASSUME d # e, Contains(matching, d),
                          Contains(matching, e) =>
                            Search!Place(matching, d) <= Search!Place(matching, e)
                   PROVE  Search!FtsRank(matching, d) < Search!FtsRank(matching, e)
      OBVIOUS
    <3> HIDE DEF matching, shown
    <3>2. d \in ToSet(matching) /\ (Contains(matching, e) <=> e \in ToSet(matching))
      BY <1>2, <3>1, Places
    <3>3. Len(matching) \in Nat
      BY <1>2, Places
    <3>4. CASE e \in ToSet(matching)
      <4>1. /\ Search!Place(matching, d) \in Nat /\ Search!Place(matching, e) \in Nat
            /\ matching[Search!Place(matching, d)] = d
            /\ matching[Search!Place(matching, e)] = e
        BY <1>2, <3>2, <3>4, Places
      <4>2. Search!Place(matching, d) # Search!Place(matching, e)
        BY <3>1, <4>1
      <4>3. /\ Search!FtsRank(matching, d) = Search!Place(matching, d) - Len(matching) - 1
            /\ Search!FtsRank(matching, e) = Search!Place(matching, e) - Len(matching) - 1
        BY <1>2, <3>2, <3>4, FtsRankIs
      <4>4. QED
        BY <3>1, <3>2, <3>3, <3>4, <4>1, <4>2, <4>3
    <3>5. CASE e \notin ToSet(matching)
      BY <1>2, <3>2, <3>5, FtsRankIs
    <3>6. QED
      BY <3>4, <3>5
  <2> HIDE DEF matching, pool
  <2>4. QED
    BY <2>2, <2>3 DEF Relevant, Search!ByRelevance
<1>5. AreBest(candidates, qualified, s.limit, nearer)
  <2>1. /\ candidates = Search!FirstOf(Search!Ranked(pool, order), s.limit)
        /\ IsFiniteSet(pool) /\ IsStrictOrder(order, pool)
    BY <1>1, CandidatesAreRanked
  <2> HIDE DEF pool, order, qualified, candidates, matching
  <2>2. \A d, e \in pool : <<d, e>> \in nearer => <<d, e>> \in order
    BY <1>4 DEF nearer
  <2> HIDE DEF nearer
  <2>3. AreBest(candidates, pool, s.limit, nearer)
    BY <1>1, <2>1, <2>2, FirstAreBest
  <2>4. QED
    BY <1>3, <2>3
<1>6. ASSUME NEW d \in ToSet(unfenced), s.input.module # None,
             s.store[d].module = s.input.module
      PROVE  d \in qualified
  <2> DEFINE all == Qualified(s.store, open, s.hits)
  <2>1. /\ unfenced = Search!FirstOf(
                        Search!Ranked(all, Relevant(s.store, open, matching, all)), 20)
        /\ IsFiniteSet(all) /\ IsStrictOrder(Relevant(s.store, open, matching, all), all)
    BY <1>1, CandidatesAreRanked
  <2>2. AreBest(unfenced, all, 20, Relevant(s.store, open, matching, all))
    <3> HIDE DEF all, unfenced, matching, open
    <3>1. QED
      BY <2>1, FirstAreBest
  <2>3. d \in all
    BY <2>2 DEF AreBest, AreRanked
  <2>4. /\ open.module = None /\ open.keywords = s.input.keywords
        /\ open.dependsOn = s.input.dependsOn /\ open.conflictsWith = s.input.conflictsWith
        /\ open.replaces = s.input.replaces /\ open.archives = s.input.archives
    BY DEF IsSave
  <2> HIDE DEF open, unfenced
  <2>5. Search!LinkedIds(open) = Search!LinkedIds(s.input)
    BY <2>4 DEF Search!LinkedIds
  <2>6. Search!SharedKeywords(s.store, open, d) = Search!SharedKeywords(s.store, s.input, d)
    BY <2>4 DEF Search!SharedKeywords
  <2>7. /\ d \in shown \ Search!LinkedIds(s.input)
        /\ Search!Qualifies(s.store, open, matching, d)
    BY <2>3, <2>5 DEF Qualified
  <2> HIDE DEF matching, shown
  <2>8. Search!Qualifies(s.store, s.input, matching, d)
    BY <1>6, <2>4, <2>6, <2>7 DEF Search!Qualifies
  <2>9. d \in pool
    BY <1>6, <2>7, <2>8 DEF Qualified, matching, shown
  <2>10. QED
    BY <1>3, <2>9
<1> HIDE DEF matching, qualified, nearer, candidates, unfenced
<1>7. QED
  BY <1>5, <1>6, Zenon
     DEF CandidatesAreNearest, matching, qualified, nearer, candidates, unfenced

-------------------------------------------------------------------------------
(***************************************************************************)
(* The terms of a prompt.                                                  *)
(***************************************************************************)

\* The loop's result after each of m tokens, as PromptTerms defines it.
AreTerms(f, prompt, maxTerms, m) ==
  f = [i \in 0..m |-> IF i = 0 THEN {}
                      ELSE IF Search!Cardinality(f[i - 1]) < maxTerms /\ prompt[i].says
                           THEN f[i - 1] \union {prompt[i].fold}
                           ELSE f[i - 1]]

\* The loop over the tokens has a result.
LEMMA TermsExist ==
  ASSUME NEW prompt, NEW maxTerms, NEW m \in Nat
  PROVE  \E f : AreTerms(f, prompt, maxTerms, m)
<1> DEFINE Terms(f, k) == AreTerms(f, prompt, maxTerms, k)
           Added(terms, i) ==
             IF Search!Cardinality(terms) < maxTerms /\ prompt[i].says
             THEN terms \union {prompt[i].fold} ELSE terms
           without == {k \in Nat : ~ \E f : Terms(f, k)}
<1>1. \A f, k : Terms(f, k) <=> f = [i \in 0..k |-> IF i = 0 THEN {} ELSE Added(f[i - 1], i)]
  BY DEF AreTerms
<1> HIDE DEF Terms, Added
<1>2. without = {}
  <2>1. SUFFICES ASSUME without # {} PROVE FALSE
    OBVIOUS
  <2>2. PICK k \in without : \A j \in without : k <= j
    <3>1. without \in SUBSET Nat
      OBVIOUS
    <3> HIDE DEF without
    <3>2. QED
      BY <2>1, <3>1, LeastExists
  <2>3. k \in Nat /\ ~ \E f : Terms(f, k)
    OBVIOUS
  <2>4. CASE k = 0
    <3> DEFINE f == [i \in 0..0 |-> {}]
    <3>1. f = [i \in 0..0 |-> IF i = 0 THEN {} ELSE Added(f[i - 1], i)]
      OBVIOUS
    <3> HIDE DEF f
    <3>2. QED
      BY <1>1, <2>3, <2>4, <3>1
  <2>5. CASE k # 0
    <3>1. k - 1 \in Nat /\ ~ (k <= k - 1)
      BY <2>3, <2>5
    <3>2. PICK g : Terms(g, k - 1)
      BY <2>2, <3>1
    <3>3. g = [i \in 0..(k - 1) |-> IF i = 0 THEN {} ELSE Added(g[i - 1], i)]
      BY <1>1, <3>2
    <3> DEFINE f == [i \in 0..k |-> IF i = 0 THEN {} ELSE Added(g[i - 1], i)]
    <3>4. ASSUME NEW i \in 0..k, i # 0  PROVE f[i - 1] = g[i - 1]
      <4>1. i - 1 \in 0..k /\ i - 1 \in 0..(k - 1)
        BY <2>3, <3>4
      <4>2. g[i - 1] = IF i - 1 = 0 THEN {} ELSE Added(g[(i - 1) - 1], i - 1)
        BY <3>3, <4>1
      <4>3. QED
        BY <4>1, <4>2
    <3>5. f = [i \in 0..k |-> IF i = 0 THEN {} ELSE Added(f[i - 1], i)]
      <4>1. \A i \in 0..k : f[i] = IF i = 0 THEN {} ELSE Added(f[i - 1], i)
        BY <3>4
      <4>2. f = [i \in 0..k |-> f[i]]
        OBVIOUS
      <4> HIDE DEF f
      <4>3. QED
        BY <4>1, <4>2
    <3> HIDE DEF f
    <3>6. QED
      BY <1>1, <2>3, <3>5
  <2>6. QED
    BY <2>4, <2>5
<1>3. QED
  BY <1>2 DEF Terms

\* What the first n tokens say, and those of them that were among the first
\* terms when they were said.
Said(prompt, n) == {prompt[j].fold : j \in {j \in 1..n : prompt[j].says}}

Early(prompt, maxTerms, n) ==
  {prompt[i].fold : i \in {i \in 1..n :
     /\ prompt[i].says
     /\ Cardinality(Said(prompt, i - 1) \ {prompt[i].fold}) < maxTerms}}

\* The terms are all that was said, or as many as there may be.
AreEarly(terms, prompt, maxTerms, n) ==
  /\ IsFiniteSet(Said(prompt, n))
  /\ terms = Early(prompt, maxTerms, n)
  /\ terms \subseteq Said(prompt, n)
  /\ terms = Said(prompt, n) \/ Cardinality(terms) = maxTerms
  /\ Cardinality(terms) <= maxTerms

\* One token more.
LEMMA OneMoreToken ==
  ASSUME NEW prompt, NEW maxTerms \in Nat, NEW n \in Nat \ {0}, NEW terms,
         AreEarly(terms, prompt, maxTerms, n - 1)
  PROVE  AreEarly(IF Cardinality(terms) < maxTerms /\ prompt[n].says
                  THEN terms \union {prompt[n].fold} ELSE terms, prompt, maxTerms, n)
<1> DEFINE fold == prompt[n].fold
           before == Said(prompt, n - 1)
           counts == prompt[n].says /\ Cardinality(before \ {fold}) < maxTerms
<1>1. /\ n - 1 \in Nat /\ n \in 1..n
      /\ \A j : j \in 1..n <=> j = n \/ j \in 1..(n - 1)
  OBVIOUS
<1>2. Said(prompt, n) = IF prompt[n].says THEN before \union {fold} ELSE before
  BY <1>1, Zenon DEF Said
<1>3. Early(prompt, maxTerms, n)
        = IF counts THEN Early(prompt, maxTerms, n - 1) \union {fold}
          ELSE Early(prompt, maxTerms, n - 1)
  BY <1>1, Zenon DEF Early
<1>4. /\ IsFiniteSet(before) /\ terms = Early(prompt, maxTerms, n - 1)
      /\ terms \subseteq before
      /\ terms = before \/ Cardinality(terms) = maxTerms
      /\ Cardinality(terms) <= maxTerms
  BY DEF AreEarly
<1> HIDE DEF before
<1>5. IsFiniteSet(terms) /\ Cardinality(terms) \in Nat
  BY <1>4, FS_Subset, FS_CardinalityType
<1>6. IsFiniteSet(Said(prompt, n))
  <2>1. IsFiniteSet(before \union {fold})
    BY <1>4, FS_AddElement
  <2>2. QED
    BY <1>2, <1>4, <2>1
<1>7. CASE ~ prompt[n].says
  BY <1>2, <1>3, <1>4, <1>7 DEF AreEarly
<1>8. CASE prompt[n].says /\ Cardinality(terms) < maxTerms
  <2>1. terms = before
    BY <1>4, <1>5, <1>8
  <2>2. counts
    <3>1. before \ {fold} \in SUBSET before
      OBVIOUS
    <3>2. Cardinality(before \ {fold}) <= Cardinality(before) /\ IsFiniteSet(before \ {fold})
      BY <1>4, <3>1, FS_Subset
    <3>3. Cardinality(before \ {fold}) \in Nat
      BY <3>2, FS_CardinalityType
    <3>4. QED
      BY <1>5, <1>8, <2>1, <3>2, <3>3
  <2>3. Cardinality(terms \union {fold}) <= maxTerms
    <3>1. Cardinality(terms \union {fold})
            = IF fold \in terms THEN Cardinality(terms) ELSE Cardinality(terms) + 1
      BY <1>5, FS_AddElement
    <3>2. QED
      BY <1>5, <1>8, <3>1
  <2>4. /\ Early(prompt, maxTerms, n) = terms \union {fold}
        /\ Said(prompt, n) = terms \union {fold}
    BY <1>2, <1>3, <1>4, <1>8, <2>1, <2>2
  <2>5. QED
    BY <1>6, <1>8, <2>3, <2>4 DEF AreEarly
<1>9. CASE prompt[n].says /\ ~ (Cardinality(terms) < maxTerms)
  <2>1. Cardinality(terms) = maxTerms
    BY <1>4, <1>5, <1>9
  <2>2. Early(prompt, maxTerms, n) = terms
    <3>1. CASE fold \in terms
      BY <1>3, <1>4, <3>1
    <3>2. CASE fold \notin terms
      <4>1. terms \in SUBSET (before \ {fold}) /\ before \ {fold} \in SUBSET before
        BY <1>4, <3>2
      <4>2. IsFiniteSet(before \ {fold})
        BY <1>4, <4>1, FS_Subset
      <4>3. Cardinality(terms) <= Cardinality(before \ {fold})
        BY <4>1, <4>2, FS_Subset
      <4>4. Cardinality(before \ {fold}) \in Nat
        BY <4>2, FS_CardinalityType
      <4>5. ~ counts
        BY <2>1, <4>3, <4>4
      <4>6. QED
        BY <1>3, <1>4, <4>5
    <3>3. QED
      BY <3>1, <3>2
  <2>3. terms \subseteq Said(prompt, n)
    BY <1>2, <1>4
  <2>4. QED
    BY <1>4, <1>6, <1>9, <2>1, <2>2, <2>3 DEF AreEarly
<1>10. QED
  BY <1>7, <1>8, <1>9

\* promptTerms keeps the terms that were among the first when they were said.
LEMMA TermsAreEarly ==
  ASSUME NEW prompt, NEW maxTerms \in Nat, Len(prompt) \in Nat
  PROVE  Search!PromptTerms(prompt, maxTerms) = Early(prompt, maxTerms, Len(prompt))
<1> DEFINE m == Len(prompt)
           Terms(g) == AreTerms(g, prompt, maxTerms, m)
           f == CHOOSE g : Terms(g)
           wrong == {i \in 0..m : ~ AreEarly(f[i], prompt, maxTerms, i)}
<1>1. Search!PromptTerms(prompt, maxTerms) = f[m]
  BY DEF Search!PromptTerms, AreTerms
<1>2. Terms(f)
  <2>1. \E g : Terms(g)
    BY TermsExist
  <2> HIDE DEF Terms
  <2>2. QED
    BY <2>1
<1> HIDE DEF f
<1>3. /\ f[0] = {}
      /\ \A i \in 0..m : i # 0 =>
           f[i] = IF Cardinality(f[i - 1]) < maxTerms /\ prompt[i].says
                  THEN f[i - 1] \union {prompt[i].fold} ELSE f[i - 1]
  <2>1. f = [i \in 0..m |-> IF i = 0 THEN {}
                            ELSE IF Search!Cardinality(f[i - 1]) < maxTerms /\ prompt[i].says
                                 THEN f[i - 1] \union {prompt[i].fold}
                                 ELSE f[i - 1]]
    BY <1>2 DEF AreTerms
  <2>2. 0 \in 0..m
    OBVIOUS
  <2>3. QED
    BY <2>1, <2>2, SameOperators
<1> HIDE DEF Terms
<1>4. wrong = {}
  <2>1. SUFFICES ASSUME wrong # {} PROVE FALSE
    OBVIOUS
  <2>2. PICK i \in wrong : \A j \in wrong : i <= j
    <3>1. wrong \in SUBSET Nat
      OBVIOUS
    <3> HIDE DEF wrong
    <3>2. QED
      BY <2>1, <3>1, LeastExists
  <2>3. i \in 0..m /\ ~ AreEarly(f[i], prompt, maxTerms, i)
    OBVIOUS
  <2>4. CASE i = 0
    <3>1. Said(prompt, 0) = {} /\ Early(prompt, maxTerms, 0) = {}
      BY DEF Said, Early
    <3>2. IsFiniteSet({}) /\ Cardinality({}) = 0
      BY FS_EmptySet
    <3>3. AreEarly({}, prompt, maxTerms, 0)
      <4>1. 0 <= maxTerms
        OBVIOUS
      <4>2. QED
        BY <3>1, <3>2, <4>1, Zenon DEF AreEarly
    <3>4. QED
      BY <1>3, <2>3, <2>4, <3>3
  <2>5. CASE i # 0
    <3>1. i - 1 \in 0..m /\ i \in Nat \ {0} /\ ~ (i <= i - 1)
      BY <2>3, <2>5
    <3>2. AreEarly(f[i - 1], prompt, maxTerms, i - 1)
      BY <2>2, <3>1
    <3>3. AreEarly(IF Cardinality(f[i - 1]) < maxTerms /\ prompt[i].says
                   THEN f[i - 1] \union {prompt[i].fold} ELSE f[i - 1], prompt, maxTerms, i)
      BY <3>1, <3>2, OneMoreToken
    <3>4. QED
      BY <1>3, <2>3, <2>5, <3>3
  <2>6. QED
    BY <2>4, <2>5
<1>5. AreEarly(f[m], prompt, maxTerms, m)
  <2>1. m \in 0..m
    OBVIOUS
  <2> HIDE DEF m
  <2>2. QED
    BY <1>4, <2>1
<1>6. QED
  BY <1>1, <1>5 DEF AreEarly

\* What the gate matches is what the prompt's first terms name.
LEMMA MatchingIsHits ==
  ASSUME NEW p, IsPrompt(p), NEW column \in {"keywords", "title"}
  PROVE  Search!Matching(p.store, column, Search!PromptTerms(p.prompt, p.maxTerms))
           = Hits(p, column)
<1> DEFINE terms == Search!PromptTerms(p.prompt, p.maxTerms)
           shown == Search!Shown(p.store)
<1>1. p.prompt \in Seq([fold : STRING, says : BOOLEAN]) /\ p.maxTerms \in Nat
  BY DEF IsPrompt
<1>2. Len(p.prompt) \in Nat /\ DOMAIN p.prompt = 1..Len(p.prompt)
  BY <1>1
<1>3. terms = Early(p.prompt, p.maxTerms, Len(p.prompt))
  BY <1>1, <1>2, TermsAreEarly
<1> HIDE DEF terms
<1>4. ASSUME NEW d \in shown
      PROVE  /\ Search!ToSet(p.store[d][column]) = ToSet(p.store[d][column])
             /\ \A w : Contains(p.store[d][column], w) <=> w \in ToSet(p.store[d][column])
  <2>1. p.store[d][column] \in Seq(STRING)
    BY DEF IsPrompt, Search!Shown
  <2>2. DOMAIN p.store[d][column] = 1..Len(p.store[d][column])
    BY <2>1
  <2>3. QED
    BY <2>2, SameOperators DEF Contains, ToSet
<1> HIDE DEF shown
<1>5. Search!Matching(p.store, column, terms)
        = {d \in shown : \E w \in terms : Contains(p.store[d][column], w)}
  <2>1. Search!Matching(p.store, column, terms)
          = {d \in shown : Search!ToSet(p.store[d][column]) \intersect terms # {}}
    BY DEF Search!Matching, shown
  <2>2. QED
    BY <1>4, <2>1
<1>6. ASSUME NEW d
      PROVE  (\E w \in terms : Contains(p.store[d][column], w)) <=>
             \E i \in DOMAIN p.prompt :
               LET before == {p.prompt[j].fold : j \in {j \in 1..(i - 1) : p.prompt[j].says}} IN
               /\ p.prompt[i].says /\ Contains(p.store[d][column], p.prompt[i].fold)
               /\ Cardinality(before \ {p.prompt[i].fold}) < p.maxTerms
  BY <1>2, <1>3, Zenon DEF Early, Said
<1>7. QED
  BY <1>5, <1>6, Zenon DEF Hits, terms, shown

\* The gate answers with what the prompt names, and with nothing else.
LEMMA GatePrecise ==
  ASSUME NEW p, IsPrompt(p)
  PROVE  GateIsPrecise(p)
<1> DEFINE terms == Search!PromptTerms(p.prompt, p.maxTerms)
<1>1. /\ Search!Matching(p.store, "keywords", terms) = Hits(p, "keywords")
      /\ Search!Matching(p.store, "title", terms) = Hits(p, "title")
  BY MatchingIsHits
<1> HIDE DEF terms
<1>2. Search!GatePrompt(p.store, p.prompt, p.maxTerms)
        = IF Hits(p, "keywords") # {}
          THEN [tier |-> "high", matching |-> Hits(p, "keywords")]
          ELSE IF Hits(p, "title") # {}
               THEN [tier |-> "medium", matching |-> Hits(p, "title")]
               ELSE [tier |-> "none", matching |-> {}]
  BY <1>1, Zenon DEF Search!GatePrompt, terms
<1>3. QED
  BY <1>2 DEF GateIsPrecise

-------------------------------------------------------------------------------
(***************************************************************************)
(* Scores.                                                                 *)
(***************************************************************************)

\* The scores of a fused ranking.
Fraction == [num : Nat, den : Nat \ {0}]

\* Multiplying keeps the order: the steps of cross multiplication.
LEMMA TimesKeepsOrder ==
  ASSUME NEW x \in Nat, NEW y \in Nat, NEW k \in Nat
  PROVE  /\ x <= y => x * k <= y * k
         /\ x < y /\ k # 0 => x * k < y * k
<1>1. x <= y => x * k <= y * k
  OBVIOUS
<1>2. x < y /\ k # 0 => x * k < y * k
  OBVIOUS
<1>3. QED
  BY <1>1, <1>2

\* Not to be exceeded is transitive.
LEMMA ExceedsIsOrder ==
  ASSUME NEW a \in Fraction, NEW b \in Fraction, NEW c \in Fraction
  PROVE  /\ Search!Exceeds(a, b) => ~ Search!Exceeds(b, a)
         /\ ~ Search!Exceeds(b, a) /\ ~ Search!Exceeds(c, b) => ~ Search!Exceeds(c, a)
<1>1. /\ a.num \in Nat /\ a.den \in Nat \ {0} /\ b.num \in Nat /\ b.den \in Nat \ {0}
      /\ c.num \in Nat /\ c.den \in Nat \ {0}
  BY DEF Fraction
<1>2. \A m, n \in Nat : m * n \in Nat
  OBVIOUS
<1>3. Search!Exceeds(a, b) => ~ Search!Exceeds(b, a)
  BY <1>1, <1>2 DEF Search!Exceeds
<1>4. ASSUME ~ Search!Exceeds(b, a), ~ Search!Exceeds(c, b), Search!Exceeds(c, a)
      PROVE  FALSE
  <2>1. /\ b.num * a.den <= a.num * b.den
        /\ c.num * b.den <= b.num * c.den
        /\ a.num * c.den < c.num * a.den
    BY <1>1, <1>2, <1>4 DEF Search!Exceeds
  <2>2. /\ (b.num * a.den) * c.den <= (a.num * b.den) * c.den
        /\ (c.num * b.den) * a.den <= (b.num * c.den) * a.den
        /\ (a.num * c.den) * b.den < (c.num * a.den) * b.den
    BY <1>1, <1>2, <2>1, TimesKeepsOrder
  <2>3. \A u, v, w \in Nat : (u * v) * w = (u * w) * v /\ (u * v) * w \in Nat
    OBVIOUS
  <2>4. /\ (b.num * a.den) * c.den = (b.num * c.den) * a.den
        /\ (a.num * c.den) * b.den = (a.num * b.den) * c.den
        /\ (c.num * b.den) * a.den = (c.num * a.den) * b.den
    BY <1>1, <2>3
  <2>5. /\ (b.num * a.den) * c.den \in Nat /\ (a.num * b.den) * c.den \in Nat
        /\ (c.num * b.den) * a.den \in Nat
    BY <1>1, <2>3
  <2>6. \A u, v, w \in Nat : ~ (u <= v /\ w <= u /\ v < w)
    OBVIOUS
  <2>7. QED
    BY <2>2, <2>4, <2>5, <2>6
<1>5. QED
  BY <1>3, <1>4

\* A sum of what is not less, and once more, is more.
LEMMA PlusExceeds ==
  ASSUME NEW a \in Fraction, NEW b \in Fraction, NEW c \in Fraction, NEW d \in Fraction,
         ~ Search!Exceeds(c, a), ~ Search!Exceeds(d, b),
         Search!Exceeds(a, c) \/ Search!Exceeds(b, d)
  PROVE  Search!Exceeds(Search!Plus(a, b), Search!Plus(c, d))
<1>1. /\ a.num \in Nat /\ a.den \in Nat \ {0} /\ b.num \in Nat /\ b.den \in Nat \ {0}
      /\ c.num \in Nat /\ c.den \in Nat \ {0} /\ d.num \in Nat /\ d.den \in Nat \ {0}
  BY DEF Fraction
<1>2. \A m, n \in Nat : m * n \in Nat
  OBVIOUS
<1>3. \A m, n \in Nat \ {0} : m * n \in Nat \ {0}
  OBVIOUS
<1> DEFINE left == a.num * c.den
           right == c.num * a.den
           left2 == b.num * d.den
           right2 == d.num * b.den
           k == b.den * d.den
           k2 == a.den * c.den
<1>4. /\ left \in Nat /\ right \in Nat /\ left2 \in Nat /\ right2 \in Nat
      /\ k \in Nat \ {0} /\ k2 \in Nat \ {0}
  BY <1>1, <1>2, <1>3
<1>5. right <= left /\ right2 <= left2 /\ (right < left \/ right2 < left2)
  BY <1>1, <1>4 DEF Search!Exceeds
<1> HIDE DEF left, right, left2, right2, k, k2
<1>6. /\ right * k <= left * k /\ right2 * k2 <= left2 * k2
      /\ right * k < left * k \/ right2 * k2 < left2 * k2
  BY <1>4, <1>5, TimesKeepsOrder
<1>7. right * k + right2 * k2 < left * k + left2 * k2
  <2>1. right * k \in Nat /\ left * k \in Nat /\ right2 * k2 \in Nat /\ left2 * k2 \in Nat
    BY <1>2, <1>4
  <2>2. \A u, v, w, x \in Nat : u <= v /\ w <= x /\ (u < v \/ w < x) => u + w < v + x
    OBVIOUS
  <2>3. QED
    BY <1>6, <2>1, <2>2
<1>8. /\ (a.num * b.den + b.num * a.den) * (c.den * d.den) = left * k + left2 * k2
      /\ (c.num * d.den + d.num * c.den) * (a.den * b.den) = right * k + right2 * k2
  <2>1. \A p, q, r, s, u, v \in Nat :
          (p * s + r * q) * (u * v) = (p * u) * (s * v) + (r * v) * (q * u)
    OBVIOUS
  <2>2. \A p, q, r, s, u, v \in Nat :
          (p * s + r * q) * (u * v) = (p * u) * (v * s) + (r * v) * (u * q)
    OBVIOUS
  <2>3. QED
    BY <1>1, <2>1, <2>2 DEF left, right, left2, right2, k, k2
<1>9. /\ Search!Plus(a, b).num = a.num * b.den + b.num * a.den
      /\ Search!Plus(a, b).den = a.den * b.den
      /\ Search!Plus(c, d).num = c.num * d.den + d.num * c.den
      /\ Search!Plus(c, d).den = c.den * d.den
  BY DEF Search!Plus
<1> DEFINE x == Search!Plus(a, b)
           y == Search!Plus(c, d)
<1> HIDE DEF x, y
<1>10. y.num * x.den < x.num * y.den
  BY <1>7, <1>8, <1>9 DEF x, y
<1>11. x.num * y.den \in Nat /\ y.num * x.den \in Nat
  <2>1. \A m, n \in Nat : m + n \in Nat
    OBVIOUS
  <2>2. /\ right * k + right2 * k2 \in Nat /\ left * k + left2 * k2 \in Nat
    BY <1>2, <1>4, <2>1
  <2>3. QED
    BY <1>8, <1>9, <2>2 DEF x, y
<1>12. QED
  BY <1>10, <1>11 DEF Search!Exceeds, x, y

-------------------------------------------------------------------------------
(***************************************************************************)
(* Fusion and search.                                                      *)
(***************************************************************************)

\* In ranking s, d does at least as well as e.
Leads(s, d, e) ==
  e \in ToSet(s) => d \in ToSet(s) /\ Search!Place(s, d) <= Search!Place(s, e)

\* A better place is worth more.
LEMMA WorthLeads ==
  ASSUME NEW s \in Seq(Nat), Distinct(s), NEW d, NEW e
  PROVE  /\ Search!Worth(s, d) \in Fraction
         /\ Leads(s, d, e) => ~ Search!Exceeds(Search!Worth(s, e), Search!Worth(s, d))
         /\ Leads(s, d, e) /\ d # e /\ e \in ToSet(s)
              => Search!Exceeds(Search!Worth(s, d), Search!Worth(s, e))
<1>1. ASSUME NEW x
      PROVE  /\ Search!Worth(s, x) \in Fraction
             /\ x \in ToSet(s) => /\ Search!Worth(s, x).num = 1
                                  /\ Search!Worth(s, x).den = 60 + Search!Place(s, x)
                                  /\ Search!Place(s, x) \in Nat /\ s[Search!Place(s, x)] = x
             /\ x \notin ToSet(s) => /\ Search!Worth(s, x).num = 0
                                     /\ Search!Worth(s, x).den = 1
  <2>1. CASE x \in ToSet(s)
    <3>1. Search!Place(s, x) \in Nat /\ s[Search!Place(s, x)] = x
      BY <2>1, Places
    <3>2. Search!Worth(s, x) = [num |-> 1, den |-> 60 + Search!Place(s, x)]
      BY <2>1, SameOperators DEF Search!Worth, Search!RRF_K
    <3>3. QED
      BY <2>1, <3>1, <3>2 DEF Fraction
  <2>2. CASE x \notin ToSet(s)
    <3>1. Search!Worth(s, x) = [num |-> 0, den |-> 1]
      BY <2>2, SameOperators DEF Search!Worth
    <3>2. QED
      BY <2>2, <3>1 DEF Fraction
  <2>3. QED
    BY <2>1, <2>2
<1> DEFINE a == Search!Worth(s, d)
           b == Search!Worth(s, e)
<1>2. /\ a.num \in Nat /\ a.den \in Nat \ {0} /\ b.num \in Nat /\ b.den \in Nat \ {0}
  BY <1>1 DEF Fraction
<1> HIDE DEF a, b
<1>3. ASSUME e \in ToSet(s), Leads(s, d, e)
      PROVE  ~ Search!Exceeds(b, a) /\ (d # e => Search!Exceeds(a, b))
  <2>1. d \in ToSet(s) /\ Search!Place(s, d) <= Search!Place(s, e)
    BY <1>3 DEF Leads
  <2>2. /\ a.num = 1 /\ a.den = 60 + Search!Place(s, d) /\ Search!Place(s, d) \in Nat
        /\ b.num = 1 /\ b.den = 60 + Search!Place(s, e) /\ Search!Place(s, e) \in Nat
        /\ d # e => Search!Place(s, d) # Search!Place(s, e)
    BY <1>1, <1>3, <2>1 DEF a, b
  <2>3. QED
    BY <2>1, <2>2 DEF Search!Exceeds
<1>4. ASSUME e \notin ToSet(s)
      PROVE  ~ Search!Exceeds(b, a)
  <2>1. b.num = 0 /\ b.den = 1
    BY <1>1, <1>4 DEF b
  <2>2. QED
    BY <1>2, <2>1 DEF Search!Exceeds
<1>5. QED
  BY <1>1, <1>3, <1>4 DEF a, b

\* What a decision scores in two rankings, and the order of a union by score.
Score(v, t, d) == Search!Plus(Search!Worth(v, d), Search!Worth(t, d))

Fused(v, t, S) ==
  {p \in S \X S :
     \/ Search!Exceeds(Score(v, t, p[1]), Score(v, t, p[2]))
     \/ ~Search!Exceeds(Score(v, t, p[2]), Score(v, t, p[1])) /\ p[1] < p[2]}

\* Every decision has a score, found or not.
LEMMA ScoreIsFraction ==
  ASSUME NEW v \in Seq(Nat), Distinct(v), NEW t \in Seq(Nat), Distinct(t), NEW d
  PROVE  Score(v, t, d) \in Fraction
<1> DEFINE a == Search!Worth(v, d)
           b == Search!Worth(t, d)
<1>1. a \in Fraction /\ b \in Fraction
  BY WorthLeads
<1> HIDE DEF a, b
<1>2. /\ a.num \in Nat /\ a.den \in Nat \ {0} /\ b.num \in Nat /\ b.den \in Nat \ {0}
  BY <1>1 DEF Fraction
<1>3. /\ \A i, j, k, l \in Nat : i * j + k * l \in Nat
      /\ \A i, j \in Nat \ {0} : i * j \in Nat \ {0}
  OBVIOUS
<1>4. Search!Plus(a, b) \in Fraction
  BY <1>2, <1>3 DEF Search!Plus, Fraction
<1>5. QED
  BY <1>4 DEF Score, a, b

\* Fusion sorts what either ranking names, by the score and then by the id.
LEMMA FusionIsRanked ==
  ASSUME NEW v \in Seq(Nat), Distinct(v), NEW t \in Seq(Nat), Distinct(t)
  PROVE  LET S == ToSet(v) \union ToSet(t) IN
         /\ Search!FuseRankings(v, t) = Search!Ranked(S, Fused(v, t, S))
         /\ IsFiniteSet(S) /\ S \subseteq Nat /\ IsStrictOrder(Fused(v, t, S), S)
<1> DEFINE S == ToSet(v) \union ToSet(t)
           score == [d \in S |-> Score(v, t, d)]
           order == {p \in S \X S :
                       \/ Search!Exceeds(score[p[1]], score[p[2]])
                       \/ ~Search!Exceeds(score[p[2]], score[p[1]]) /\ p[1] < p[2]}
           over(d, e) == Search!Exceeds(Score(v, t, d), Score(v, t, e))
<1>1. Search!FuseRankings(v, t) = Search!Ranked(S, order)
  BY SameOperators DEF Search!FuseRankings, Score
<1>2. order = Fused(v, t, S)
  <2>1. \A p \in S \X S : score[p[1]] = Score(v, t, p[1]) /\ score[p[2]] = Score(v, t, p[2])
    OBVIOUS
  <2> HIDE DEF score, S
  <2>2. QED
    BY <2>1, Zenon DEF Fused
<1>3. IsFiniteSet(S) /\ S \subseteq Nat
  <2>1. ToSet(v) \subseteq Nat /\ ToSet(t) \subseteq Nat
    BY DEF ToSet
  <2>2. IsFiniteSet(ToSet(v)) /\ IsFiniteSet(ToSet(t))
    BY Places
  <2>3. QED
    BY <2>1, <2>2, FS_Union
<1> HIDE DEF S, order
<1>4. /\ \A d, e \in S : over(d, e) => ~over(e, d)
      /\ \A d, e, f \in S : ~over(e, d) /\ ~over(f, e) => ~over(f, d)
  BY ScoreIsFraction, ExceedsIsOrder
<1>5. \A d, e \in S : <<d, e>> \in Fused(v, t, S) <=> over(d, e) \/ (~over(e, d) /\ d < e)
  BY DEF Fused
<1> HIDE DEF over
<1>6. IsStrictOrder(Fused(v, t, S), S)
  <2>1. \A d \in S : <<d, d>> \notin Fused(v, t, S)
    BY <1>3, <1>4, <1>5
  <2>2. ASSUME NEW d \in S, NEW e \in S, NEW f \in S,
               <<d, e>> \in Fused(v, t, S), <<e, f>> \in Fused(v, t, S)
        PROVE  <<d, f>> \in Fused(v, t, S)
    <3>1. ~over(e, d) /\ ~over(f, e)
      BY <1>4, <1>5, <2>2
    <3>2. ~over(f, d)
      BY <1>4, <3>1
    <3>3. over(d, f) \/ d < f
      <4>1. CASE over(d, e)
        BY <1>4, <3>1, <4>1
      <4>2. CASE over(e, f)
        BY <1>4, <3>1, <4>2
      <4>3. CASE d < e /\ e < f
        BY <1>3, <4>3
      <4>4. QED
        BY <1>5, <2>2, <4>1, <4>2, <4>3
    <3>4. QED
      BY <1>5, <3>2, <3>3
  <2>3. ASSUME NEW d \in S, NEW e \in S, d # e
        PROVE  <<d, e>> \in Fused(v, t, S) \/ <<e, d>> \in Fused(v, t, S)
    <3>1. d < e \/ e < d
      BY <1>3, <2>3
    <3>2. QED
      BY <1>5, <3>1
  <2>4. QED
    BY <2>1, <2>2, <2>3, Zenon DEF IsStrictOrder
<1>7. QED
  BY <1>1, <1>2, <1>3, <1>6 DEF S

\* What is ahead in both, and in one of them, is before in the fusion.
LEMMA LeadersFirst ==
  ASSUME NEW v \in Seq(Nat), Distinct(v), NEW t \in Seq(Nat), Distinct(t), NEW d, NEW e,
         d # e, Leads(v, d, e), Leads(t, d, e), e \in ToSet(v) \union ToSet(t)
  PROVE  <<d, e>> \in Fused(v, t, ToSet(v) \union ToSet(t))
<1>1. d \in ToSet(v) \union ToSet(t)
  BY DEF Leads
<1>2. Search!Exceeds(Score(v, t, d), Score(v, t, e))
  <2> DEFINE a == Search!Worth(v, d)
             b == Search!Worth(t, d)
             c == Search!Worth(v, e)
             f == Search!Worth(t, e)
  <2>1. /\ a \in Fraction /\ b \in Fraction /\ c \in Fraction /\ f \in Fraction
        /\ ~ Search!Exceeds(c, a) /\ ~ Search!Exceeds(f, b)
        /\ Search!Exceeds(a, c) \/ Search!Exceeds(b, f)
    BY WorthLeads
  <2> HIDE DEF a, b, c, f
  <2>2. Search!Exceeds(Search!Plus(a, b), Search!Plus(c, f))
    BY <2>1, PlusExceeds
  <2>3. QED
    BY <2>2 DEF Score, a, b, c, f
<1>3. QED
  BY <1>1, <1>2 DEF Fused

\* What leads in a ranking leads in its beginning, and in the part that counts
\* if it counts itself.
LEMMA FirstLeads ==
  ASSUME NEW S, NEW s \in Seq(S), Distinct(s), NEW n \in Nat, NEW d, NEW e, Leads(s, d, e)
  PROVE  Leads(Search!FirstOf(s, n), d, e)
<1> DEFINE t == Search!FirstOf(s, n)
<1>1. /\ \A x : x \in ToSet(t) <=> x \in ToSet(s) /\ Search!Place(s, x) <= n
      /\ \A x \in ToSet(t) : Search!Place(t, x) = Search!Place(s, x)
  BY FirstAreFirst
<1> HIDE DEF t
<1>2. \A x \in ToSet(s) : Search!Place(s, x) \in Nat
  BY Places
<1>3. SUFFICES ASSUME e \in ToSet(t)
               PROVE  d \in ToSet(t) /\ Search!Place(t, d) <= Search!Place(t, e)
  BY DEF Leads, t
<1>4. e \in ToSet(s) /\ Search!Place(s, e) <= n
  BY <1>1, <1>3
<1>5. d \in ToSet(s) /\ Search!Place(s, d) <= Search!Place(s, e)
  BY <1>4 DEF Leads
<1>6. Search!Place(s, d) <= n
  BY <1>2, <1>4, <1>5
<1>7. QED
  BY <1>1, <1>3, <1>5, <1>6

\* What is ahead among a set's members leads in the ranking cut down to them.
LEMMA LeadsOn ==
  ASSUME NEW s \in Seq(Nat), Distinct(s), NEW T, NEW d, NEW e, AheadIn(s, T, d, e)
  PROVE  Leads(Search!Among(s, T), d, e)
<1> DEFINE a == Search!Among(s, T)
<1>1. /\ a \in Seq(Nat) /\ Distinct(a) /\ ToSet(a) = ToSet(s) \intersect T
      /\ \A x, y \in ToSet(a) : Search!Place(a, x) < Search!Place(a, y)
                                  <=> Search!Place(s, x) < Search!Place(s, y)
  BY AmongKeeps
<1> HIDE DEF a
<1>2. /\ \A x \in ToSet(a) : Search!Place(a, x) \in Nat
      /\ \A x \in ToSet(s) : Search!Place(s, x) \in Nat
      /\ \A x : Contains(s, x) <=> x \in ToSet(s)
  BY <1>1, Places
<1>3. SUFFICES ASSUME e \in ToSet(a)
               PROVE  d \in ToSet(a) /\ Search!Place(a, d) <= Search!Place(a, e)
  BY DEF Leads, a
<1>4. /\ d \in ToSet(a) /\ d \in ToSet(s) /\ e \in ToSet(s)
      /\ Search!Place(s, d) <= Search!Place(s, e)
  BY <1>1, <1>2, <1>3 DEF AheadIn
<1>5. ~ (Search!Place(s, e) < Search!Place(s, d))
  BY <1>2, <1>4
<1>6. ~ (Search!Place(a, e) < Search!Place(a, d))
  BY <1>1, <1>3, <1>4, <1>5
<1>7. QED
  BY <1>2, <1>3, <1>4, <1>6

\* The search by vectors: the similar ones the cache has.
VectorLeg(q) == Search!Among(q.similar, q.cached)

\* The full-text search.
TextLeg(q) == Search!SearchExact(q.store, q.matching, q.topK)

\* What either of them found.
Legs(q) == ToSet(VectorLeg(q)) \union ToSet(TextLeg(q))

\* The fused ranking, cut to the answer's length.
Top(q) == Search!FirstOf(Search!FuseRankings(VectorLeg(q), TextLeg(q)), q.topK)

\* What the search returns.
Answer(q) == Search!SearchDecisions(q.store, q.cached, q.similar, q.matching, q.topK, FALSE)

\* The fused ranking is sorted by score and cut where the limit says.
LEMMA TopIsBest ==
  ASSUME NEW q, IsIntent(q)
  PROVE  /\ VectorLeg(q) \in Seq(Nat) /\ Distinct(VectorLeg(q))
         /\ TextLeg(q) \in Seq(Nat) /\ Distinct(TextLeg(q))
         /\ IsFiniteSet(Legs(q))
         /\ Top(q) \in Seq(Nat) /\ Distinct(Top(q))
         /\ AreBest(Top(q), Legs(q), q.topK, Fused(VectorLeg(q), TextLeg(q), Legs(q)))
<1>1. /\ q.similar \in Seq(Nat) /\ Distinct(q.similar) /\ IsRanking(q.matching)
      /\ q.topK \in Nat
  BY DEF IsIntent, IsRanking, Distinct
<1>2. VectorLeg(q) \in Seq(Nat) /\ Distinct(VectorLeg(q))
  BY <1>1, AmongKeeps DEF VectorLeg
<1>3. TextLeg(q) \in Seq(Nat) /\ Distinct(TextLeg(q))
  BY <1>1, ExactIsBest DEF TextLeg
<1> DEFINE v == VectorLeg(q)
           t == TextLeg(q)
           S == ToSet(v) \union ToSet(t)
           fused == Search!Ranked(S, Fused(v, t, S))
<1> HIDE DEF v, t
<1>4. v \in Seq(Nat) /\ Distinct(v) /\ t \in Seq(Nat) /\ Distinct(t)
  BY <1>2, <1>3 DEF v, t
<1>5. /\ Search!FuseRankings(v, t) = fused
      /\ IsFiniteSet(S) /\ S \subseteq Nat /\ IsStrictOrder(Fused(v, t, S), S)
  BY <1>4, FusionIsRanked
<1> HIDE DEF S
<1>6. fused \in Seq(S) /\ Distinct(fused)
  BY <1>5, RankedIsSorted
<1>7. AreBest(Search!FirstOf(fused, q.topK), S, q.topK, Fused(v, t, S))
  BY <1>1, <1>5, FirstAreBest
<1> HIDE DEF fused
<1>8. fused \in Seq(Nat)
  BY <1>5, <1>6, SeqOfMore
<1>9. Search!FirstOf(fused, q.topK) \in Seq(Nat) /\ Distinct(Search!FirstOf(fused, q.topK))
  BY <1>1, <1>6, <1>8, FirstAreFirst
<1>10. Top(q) = Search!FirstOf(fused, q.topK) /\ Legs(q) = S
  BY <1>5 DEF Top, Legs, v, t, S
<1>11. QED
  BY <1>2, <1>3, <1>5, <1>7, <1>9, <1>10 DEF v, t

\* The answer is what is shown of the top, in its order.
LEMMA AnswerIsTop ==
  ASSUME NEW q, IsIntent(q)
  PROVE  /\ Answer(q) \in Seq(Nat) /\ Distinct(Answer(q))
         /\ Len(Answer(q)) \in Nat /\ Cardinality(ToSet(Answer(q))) = Len(Answer(q))
         /\ ToSet(Answer(q)) = ToSet(Top(q)) \intersect Search!Shown(q.store)
         /\ Len(Answer(q)) <= q.topK
         /\ \A d, e \in ToSet(Answer(q)) :
              Search!Place(Answer(q), d) < Search!Place(Answer(q), e)
                <=> Search!Place(Top(q), d) < Search!Place(Top(q), e)
<1> DEFINE top == Top(q)
           answer == Answer(q)
<1>1. top \in Seq(Nat) /\ Distinct(top) /\ Len(top) <= q.topK /\ q.topK \in Nat
  <2>1. /\ top \in Seq(Nat) /\ Distinct(top)
        /\ Len(top) = LesserOf(Cardinality(Legs(q)), q.topK) /\ IsFiniteSet(Legs(q))
    BY TopIsBest DEF AreBest
  <2>2. Cardinality(Legs(q)) \in Nat /\ q.topK \in Nat
    BY <2>1, FS_CardinalityType DEF IsIntent
  <2>3. LesserOf(Cardinality(Legs(q)), q.topK) <= q.topK
    BY <2>2 DEF LesserOf
  <2>4. QED
    BY <2>1, <2>2, <2>3
<1>2. answer = Search!Among(top, Search!Shown(q.store))
  <2>1. answer = Search!SemanticSearch(q.store, q.cached, q.similar, q.matching, q.topK)
    BY DEF Answer, Search!SearchDecisions
  <2>2. QED
    BY <2>1, Zenon DEF Top, VectorLeg, TextLeg, Search!SemanticSearch
<1> HIDE DEF top, answer
<1>3. /\ answer \in Seq(Nat) /\ Distinct(answer)
      /\ ToSet(answer) = ToSet(top) \intersect Search!Shown(q.store)
      /\ \A d, e \in ToSet(answer) :
           Search!Place(answer, d) < Search!Place(answer, e)
             <=> Search!Place(top, d) < Search!Place(top, e)
  BY <1>1, <1>2, AmongKeeps
<1>4. /\ Len(answer) \in Nat /\ Cardinality(ToSet(answer)) = Len(answer)
      /\ Len(top) \in Nat /\ Cardinality(ToSet(top)) = Len(top) /\ IsFiniteSet(ToSet(top))
  BY <1>1, <1>3, Places
<1>5. Len(answer) <= Len(top)
  <2>1. ToSet(answer) \in SUBSET ToSet(top)
    BY <1>3
  <2>2. QED
    BY <1>4, <2>1, FS_Subset
<1>6. Len(answer) <= q.topK
  BY <1>1, <1>4, <1>5
<1>7. QED
  BY <1>3, <1>4, <1>6, Zenon DEF top, answer

\* What the two signals find, and what both have ahead of what.
FoundByVector(q) == ToSet(q.similar) \intersect q.cached

\* What the text finds and the store shows.
FoundByText(q) == ToSet(q.matching) \intersect Search!Shown(q.store)

\* Ahead, as far as each signal has found them.
Better(q) ==
  {p \in (FoundByVector(q) \union FoundByText(q)) \X (FoundByVector(q) \union FoundByText(q)) :
     /\ p[1] # p[2]
     /\ AheadIn(q.similar, q.cached, p[1], p[2])
     /\ AheadIn(q.matching, Search!Shown(q.store), p[1], p[2])}

\* The legs hold what the signals find, and the best of it.
LEMMA LegsAreFound ==
  ASSUME NEW q, IsIntent(q)
  PROVE  /\ ToSet(VectorLeg(q)) = FoundByVector(q)
         /\ ToSet(TextLeg(q)) \subseteq FoundByText(q)
         /\ AreBest(TextLeg(q), FoundByText(q), q.topK, Ahead(q.matching))
         /\ IsFiniteSet(FoundByVector(q)) /\ IsFiniteSet(FoundByText(q))
<1>1. /\ q.similar \in Seq(Nat) /\ Distinct(q.similar) /\ IsRanking(q.matching)
      /\ q.matching \in Seq(Nat) /\ Distinct(q.matching) /\ q.topK \in Nat
  BY DEF IsIntent, IsRanking, Distinct
<1>2. ToSet(VectorLeg(q)) = FoundByVector(q)
  BY <1>1, AmongKeeps DEF VectorLeg, FoundByVector
<1>3. /\ ToSet(TextLeg(q)) \subseteq FoundByText(q)
      /\ AreBest(TextLeg(q), FoundByText(q), q.topK, Ahead(q.matching))
  BY <1>1, ExactIsBest DEF TextLeg, FoundByText
<1>4. IsFiniteSet(FoundByVector(q)) /\ IsFiniteSet(FoundByText(q))
  <2>1. IsFiniteSet(ToSet(q.similar)) /\ IsFiniteSet(ToSet(q.matching))
    BY <1>1, Places
  <2>2. QED
    BY <2>1, FS_Intersection DEF FoundByVector, FoundByText
<1>5. QED
  BY <1>2, <1>3, <1>4

\* Nothing is placed before what both signals place higher.
LEMMA AnswerIsRanked ==
  ASSUME NEW q, IsIntent(q)
  PROVE  AreRanked(Answer(q), (FoundByVector(q) \union FoundByText(q)) \intersect Search!Shown(q.store),
                   Better(q))
<1> DEFINE answer == Answer(q)
           top == Top(q)
           shown == Search!Shown(q.store)
           v == VectorLeg(q)
           t == TextLeg(q)
           found == FoundByVector(q) \union FoundByText(q)
<1>1. /\ ToSet(answer) = ToSet(top) \intersect shown
      /\ answer \in Seq(Nat) /\ Distinct(answer)
      /\ Cardinality(ToSet(answer)) = Len(answer)
      /\ \A d, e \in ToSet(answer) : Search!Place(answer, d) < Search!Place(answer, e)
                                       <=> Search!Place(top, d) < Search!Place(top, e)
  BY AnswerIsTop
<1>2. /\ v \in Seq(Nat) /\ Distinct(v) /\ t \in Seq(Nat) /\ Distinct(t)
      /\ top \in Seq(Nat) /\ Distinct(top)
      /\ AreRanked(top, Legs(q), Fused(v, t, Legs(q)))
  BY TopIsBest DEF AreBest
<1>3. Legs(q) = ToSet(v) \union ToSet(t) /\ Legs(q) \subseteq found
  BY LegsAreFound DEF Legs
<1>4. /\ \A d : Contains(top, d) <=> d \in ToSet(top)
      /\ \A d : Contains(answer, d) <=> d \in ToSet(answer)
  BY <1>1, <1>2, Places
<1>5. ToSet(answer) \subseteq found \intersect shown
  BY <1>1, <1>2, <1>3 DEF AreRanked
<1>6. ASSUME NEW d \in found \intersect shown, NEW e \in found \intersect shown,
             <<d, e>> \in Better(q), Contains(answer, e)
      PROVE  Contains(answer, d) /\ Search!Place(answer, d) < Search!Place(answer, e)
  <2>1. /\ d # e /\ AheadIn(q.similar, q.cached, d, e)
        /\ AheadIn(q.matching, shown, d, e)
    BY <1>6 DEF Better
  <2>2. /\ q.similar \in Seq(Nat) /\ Distinct(q.similar)
        /\ q.matching \in Seq(Nat) /\ Distinct(q.matching) /\ q.topK \in Nat
    BY DEF IsIntent, IsRanking, Distinct
  <2>3. Leads(v, d, e) /\ Leads(t, d, e)
    <3> DEFINE a == Search!Among(q.matching, shown)
    <3>1. Leads(v, d, e)
      BY <2>1, <2>2, LeadsOn DEF VectorLeg
    <3>2. Leads(a, d, e)
      BY <2>1, <2>2, LeadsOn
    <3>3. a \in Seq(Nat) /\ Distinct(a)
      BY <2>2, AmongKeeps
    <3>4. t = Search!FirstOf(a, q.topK)
      BY DEF TextLeg, Search!SearchExact
    <3> HIDE DEF v, t, a
    <3>5. Leads(t, d, e)
      BY <2>2, <3>2, <3>3, <3>4, FirstLeads
    <3>6. QED
      BY <3>1, <3>5
  <2>4. e \in ToSet(answer) /\ e \in ToSet(top) /\ e \in Legs(q)
    BY <1>1, <1>2, <1>4, <1>6 DEF AreRanked
  <2> HIDE DEF v, t, top, answer, found, shown
  <2>5. <<d, e>> \in Fused(v, t, Legs(q))
    BY <1>2, <1>3, <2>1, <2>3, <2>4, LeadersFirst
  <2>6. d \in Legs(q)
    BY <1>3, <2>3, <2>4 DEF Leads
  <2>7. Contains(top, d) /\ Search!Place(top, d) < Search!Place(top, e)
    BY <1>2, <1>4, <2>4, <2>5, <2>6 DEF AreRanked
  <2>8. d \in ToSet(answer)
    BY <1>1, <1>4, <2>7
  <2>9. QED
    BY <1>1, <1>4, <2>4, <2>7, <2>8
<1> HIDE DEF answer, found, shown
<1>7. QED
  BY <1>1, <1>5, <1>6 DEF AreRanked, answer, found, shown

\* Unless something cached is no longer shown, the answer is as long as it may be.
LEMMA AnswerIsFull ==
  ASSUME NEW q, IsIntent(q), FoundByVector(q) \subseteq Search!Shown(q.store)
  PROVE  Len(Answer(q)) = LesserOf(Cardinality(FoundByVector(q) \union FoundByText(q)), q.topK)
<1> DEFINE answer == Answer(q)
           top == Top(q)
           found == FoundByVector(q) \union FoundByText(q)
           v == ToSet(VectorLeg(q))
           t == ToSet(TextLeg(q))
           k == q.topK
<1>1. /\ v = FoundByVector(q) /\ t \subseteq FoundByText(q)
      /\ IsFiniteSet(FoundByVector(q)) /\ IsFiniteSet(FoundByText(q))
      /\ Cardinality(t) = LesserOf(Cardinality(FoundByText(q)), k)
  BY LegsAreFound DEF AreBest, AreRanked
<1>2. /\ Cardinality(ToSet(top)) = LesserOf(Cardinality(Legs(q)), k)
      /\ ToSet(top) \subseteq Legs(q)
  BY TopIsBest DEF AreBest, AreRanked
<1>3. /\ ToSet(answer) = ToSet(top) \intersect Search!Shown(q.store)
      /\ Cardinality(ToSet(answer)) = Len(answer)
  BY AnswerIsTop
<1>4. Legs(q) = v \union t /\ k \in Nat
  BY DEF Legs, IsIntent
<1> HIDE DEF answer, top, v, t, k
<1>5. Legs(q) \subseteq Search!Shown(q.store)
  BY <1>1, <1>4 DEF FoundByText
<1>6. Len(answer) = LesserOf(Cardinality(Legs(q)), k)
  <2>1. ToSet(answer) = ToSet(top)
    BY <1>2, <1>3, <1>5
  <2>2. QED
    BY <1>2, <1>3, <2>1
<1>7. /\ IsFiniteSet(found) /\ Cardinality(found) \in Nat
      /\ IsFiniteSet(Legs(q)) /\ Cardinality(Legs(q)) \in Nat
      /\ IsFiniteSet(t) /\ Cardinality(t) \in Nat /\ Cardinality(FoundByText(q)) \in Nat
      /\ Cardinality(Legs(q)) <= Cardinality(found)
      /\ Cardinality(t) <= Cardinality(Legs(q))
  <2>1. IsFiniteSet(found)
    BY <1>1, FS_Union
  <2>2. Legs(q) \in SUBSET found /\ t \in SUBSET Legs(q)
    BY <1>1, <1>4
  <2> HIDE DEF found
  <2>3. IsFiniteSet(Legs(q)) /\ Cardinality(Legs(q)) <= Cardinality(found)
    BY <2>1, <2>2, FS_Subset
  <2>4. IsFiniteSet(t) /\ Cardinality(t) <= Cardinality(Legs(q))
    BY <2>2, <2>3, FS_Subset
  <2>5. QED
    BY <1>1, <2>1, <2>3, <2>4, FS_CardinalityType
<1>8. CASE Cardinality(FoundByText(q)) < k
  <2>1. Cardinality(t) = Cardinality(FoundByText(q))
    BY <1>1, <1>8 DEF LesserOf
  <2>2. t \in SUBSET FoundByText(q)
    BY <1>1
  <2>3. t = FoundByText(q)
    BY <1>1, <2>1, <2>2, FS_Subset
  <2>4. Legs(q) = found
    BY <1>1, <1>4, <2>3
  <2>5. QED
    BY <1>6, <2>4 DEF answer, k
<1>9. CASE ~ (Cardinality(FoundByText(q)) < k)
  <2>1. Cardinality(t) = k
    BY <1>1, <1>9 DEF LesserOf
  <2> HIDE DEF found
  <2>2. LesserOf(Cardinality(Legs(q)), k) = k /\ LesserOf(Cardinality(found), k) = k
    BY <1>4, <1>7, <2>1 DEF LesserOf
  <2>3. QED
    BY <1>6, <2>2 DEF answer, k, found
<1>10. QED
  BY <1>8, <1>9

\* A module narrows the answer to what it has of the module, in the same order.
LEMMA NarrowedIsBest ==
  ASSUME NEW q, IsIntent(q), NEW module, module # None
  PROVE  AreBest(Search!IntentContext(q.store, q.cached, q.similar, q.matching, q.topK, module),
                 {d \in ToSet(Answer(q)) : q.store[d].module = module},
                 q.topK, Ahead(Answer(q)))
<1> DEFINE answer == Answer(q)
           S == {d \in ToSet(answer) : q.store[d].module = module}
           T == {d \in DOMAIN q.store : q.store[d].module = module}
           narrowed ==
             Search!IntentContext(q.store, q.cached, q.similar, q.matching, q.topK, module)
<1>1. /\ answer \in Seq(Nat) /\ Distinct(answer) /\ Len(answer) \in Nat
      /\ ToSet(answer) \subseteq Search!Shown(q.store)
      /\ Len(answer) <= q.topK /\ q.topK \in Nat
  BY AnswerIsTop DEF IsIntent
<1>2. narrowed = Search!Among(answer, T)
  <2>1. T = {d \in DOMAIN q.store : module # None => q.store[d].module = module}
    OBVIOUS
  <2>2. answer = Search!SemanticSearch(q.store, q.cached, q.similar, q.matching, q.topK)
    BY DEF Answer, Search!SearchDecisions
  <2> HIDE DEF T, answer
  <2>3. QED
    BY <2>1, <2>2 DEF Search!IntentContext
<1> HIDE DEF narrowed, answer
<1>3. ToSet(answer) \intersect T = S
  BY <1>1 DEF Search!Shown
<1> HIDE DEF T
<1>4. /\ narrowed \in Seq(Nat) /\ Distinct(narrowed) /\ ToSet(narrowed) = S
      /\ \A d, e \in S : Search!Place(narrowed, d) < Search!Place(narrowed, e)
                           <=> Search!Place(answer, d) < Search!Place(answer, e)
  BY <1>1, <1>2, <1>3, AmongKeeps
<1>5. Cardinality(S) = Len(narrowed) /\ \A d : Contains(narrowed, d) <=> d \in S
  BY <1>4, Places
<1>6. Cardinality(S) \in Nat /\ Cardinality(S) <= q.topK
  <2>1. IsFiniteSet(ToSet(answer)) /\ Cardinality(ToSet(answer)) = Len(answer)
    BY <1>1, Places
  <2>2. S \in SUBSET ToSet(answer)
    OBVIOUS
  <2> HIDE DEF S
  <2>3. IsFiniteSet(S) /\ Cardinality(S) <= Len(answer)
    BY <2>1, <2>2, FS_Subset
  <2>4. Cardinality(S) \in Nat
    BY <2>3, FS_CardinalityType
  <2>5. QED
    BY <1>1, <2>3, <2>4
<1>7. \A d, e \in S : <<d, e>> \in Ahead(answer) <=>
                        Search!Place(answer, d) < Search!Place(answer, e)
  BY DEF Ahead
<1> HIDE DEF S
<1>8. AreRanked(narrowed, S, Ahead(answer))
  BY <1>4, <1>5, <1>7 DEF AreRanked
<1>9. LesserOf(Cardinality(S), q.topK) = Cardinality(S)
  BY <1>1, <1>6 DEF LesserOf
<1>10. QED
  BY <1>5, <1>8, <1>9 DEF AreBest, S, narrowed, answer

\* Search ranks as its signals do, without vectors and with a module too.
LEMMA SearchRanked ==
  ASSUME NEW q, IsIntent(q)
  PROVE  SearchIsRanked(q)
<1> DEFINE search(exact) == Search!SearchDecisions(
                              q.store, q.cached, q.similar, q.matching, q.topK, exact)
           narrowed(module) ==
             Search!IntentContext(q.store, q.cached, q.similar, q.matching, q.topK, module)
           shown == Search!Shown(q.store)
<1>1. search(FALSE) = Answer(q)
  BY DEF Answer
<1>2. AreRanked(Answer(q), (FoundByVector(q) \union FoundByText(q)) \intersect shown, Better(q))
  BY AnswerIsRanked
<1>3. FoundByVector(q) \subseteq shown =>
        Len(Answer(q)) = LesserOf(Cardinality(FoundByVector(q) \union FoundByText(q)), q.topK)
  BY AnswerIsFull
<1>4. AreBest(search(TRUE), FoundByText(q), 20, Ahead(q.matching))
  <2>1. search(TRUE) = Search!SearchExact(q.store, q.matching, 20)
    BY DEF Search!SearchDecisions
  <2>2. IsRanking(q.matching)
    BY DEF IsIntent
  <2>3. AreBest(Search!SearchExact(q.store, q.matching, 20),
                ToSet(q.matching) \intersect Search!Shown(q.store), 20, Ahead(q.matching))
    <3>1. 20 \in Nat
      OBVIOUS
    <3>2. QED
      BY <2>2, <3>1, ExactIsBest, Zenon
  <2>4. QED
    BY <2>1, <2>3, Zenon DEF FoundByText
<1>5. ASSUME FoundByVector(q) = {}
      PROVE  AreBest(Answer(q), FoundByText(q), q.topK, Ahead(q.matching))
  <2>1. FoundByText(q) \subseteq shown
    BY DEF FoundByText
  <2>2. /\ (FoundByVector(q) \union FoundByText(q)) \intersect shown = FoundByText(q)
        /\ FoundByVector(q) \union FoundByText(q) = FoundByText(q)
    BY <1>5, <2>1
  <2>3. AreRanked(Answer(q), FoundByText(q), Better(q))
    BY <1>2, <2>2
  <2>4. Len(Answer(q)) = LesserOf(Cardinality(FoundByText(q)), q.topK)
    BY <1>3, <1>5, <2>2
  <2>5. ASSUME NEW d \in FoundByText(q), NEW e \in FoundByText(q), <<d, e>> \in Ahead(q.matching)
        PROVE  <<d, e>> \in Better(q)
    <3>1. /\ q.matching \in Seq(Nat) /\ Distinct(q.matching)
          /\ q.similar \in Seq(Nat) /\ Distinct(q.similar)
      BY DEF IsIntent, IsRanking, Distinct
    <3>2. Search!Place(q.matching, d) < Search!Place(q.matching, e)
      BY <2>5 DEF Ahead
    <3>3. d \in ToSet(q.matching) /\ e \in ToSet(q.matching) /\ d \in shown
      BY DEF FoundByText
    <3>4. /\ Search!Place(q.matching, d) \in Nat /\ Search!Place(q.matching, e) \in Nat
          /\ Contains(q.matching, d)
      BY <3>1, <3>3, Places
    <3>5. AheadIn(q.matching, shown, d, e) /\ d # e
      BY <3>2, <3>3, <3>4 DEF AheadIn
    <3>6. AheadIn(q.similar, q.cached, d, e)
      <4>1. Contains(q.similar, e) <=> e \in ToSet(q.similar)
        BY <3>1, Places
      <4>2. QED
        BY <1>5, <4>1 DEF AheadIn, FoundByVector
    <3>7. QED
      BY <2>2, <3>5, <3>6 DEF Better
  <2>6. AreRanked(Answer(q), FoundByText(q), Ahead(q.matching))
    BY <2>3, <2>5 DEF AreRanked
  <2>7. QED
    BY <2>4, <2>6 DEF AreBest
<1>6. \A module \in {q.store[d].module : d \in DOMAIN q.store} \ {None} :
        AreBest(narrowed(module), {d \in ToSet(Answer(q)) : q.store[d].module = module},
                q.topK, Ahead(Answer(q)))
  BY NarrowedIsBest
<1> HIDE DEF search, narrowed, shown
<1>7. QED
  BY <1>1, <1>2, <1>3, <1>4, <1>5, <1>6, Zenon
     DEF SearchIsRanked, FoundByVector, FoundByText, Better, search, narrowed, shown

-------------------------------------------------------------------------------
\* For all stores, whatever is retired, absent or cached, all rankings of the
\* full-text index and of the vectors, all prompts and all decisions to be saved:
\* no answer ranks what both of its signals place lower, none holds a decision
\* that is not shown, none is shorter than it could be unless the cache is stale,
\* a prompt brings up what its first terms are keywords or titles of and nothing
\* else, and a save is compared with what is nearest to it.
THEOREM AnswersAreAlwaysRanked ==
  ASSUME NoneIsNoValue,
         \A q \in Intents : IsIntent(q), \A p \in Prompts : IsPrompt(p),
         \A s \in Saves : IsSave(s), \A b \in Commits : IsCommit(b)
  PROVE  Spec => []AnswersAreRanked
<1>1. Drawn => AnswersAreRanked
  BY SearchRanked, GatePrecise, CandidatesNearest, BrowsingComplete
     DEF Drawn, AnswersAreRanked, Is
<1>2. QED
  BY <1>1, DrawnStays, PTL

===============================================================================
