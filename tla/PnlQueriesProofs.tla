--------------------------- MODULE PnlQueriesProofs ---------------------------
(***************************************************************************)
(* Theorems about PnlQueries for any finite set of points, any cap and any *)
(* length of a day, and for every order in which Mongo may return points   *)
(* with the same ts.                                                       *)
(***************************************************************************)
EXTENDS PnlQueries, FiniteSetTheorems, TLAPS

LEMMA QueryTypes ==
    /\ Cap \in Nat \ {0} /\ Day \in Nat \ {0}
    /\ NotGiven \notin Int /\ Unparsable \notin Int
  BY QueryConstants

------------------------------------------------------------------------------
\* Sorting

\* A sorted answer has every record once.
LEMMA SortedShape ==
    ASSUME NEW S, IsFiniteSet(S), NEW field, NEW dir, NEW s \in Sorted(S, field, dir)
    PROVE  LET n == Cardinality(S)
           IN  /\ n \in Nat /\ s \in [1..n -> S] /\ Len(s) = n /\ DOMAIN s = 1..n
               /\ \A i, j \in 1..n : s[i] = s[j] => i = j
               /\ \A p \in S : \E i \in 1..n : s[i] = p
               /\ \A i, j \in 1..n : i < j => dir * s[i][field] <= dir * s[j][field]
<1>1. Cardinality(S) \in Nat
  BY FS_CardinalityType
<1>2. s \in [1..Cardinality(S) -> S]
  BY DEF Sorted, Bijection, Injection
<1>3. Len(s) = Cardinality(S)
  BY <1>1, <1>2
<1> QED
  BY <1>1, <1>2, <1>3 DEF Sorted, Bijection, Injection, Surjection, IsInjective

\* A set of naturals has a least element.
LEMMA LeastNatural ==
    ASSUME NEW T \in SUBSET Nat, T # {}
    PROVE  \E x \in T : \A y \in T : x <= y
<1>1. \E x \in T : \A y \in T : ~ (<<y, x>> \in OpToRel(<, Nat))
  BY NatLessThanWellFounded, WFMin
<1>2. \A x, y \in T : <<y, x>> \in OpToRel(<, Nat) <=> y < x
  BY DEF OpToRel
<1>3. PICK x \in T : \A y \in T : ~ (y < x)
  BY <1>1, <1>2
<1>4. \A y \in T : x <= y
  BY <1>3
<1> QED
  BY <1>4

------------------------------------------------------------------------------
\* getPnlHistory

LEMMA LimitedShape ==
    ASSUME NEW s, Len(s) \in Nat, s = [i \in 1..Len(s) |-> s[i]], NEW m \in Nat \ {0}
    PROVE  Limited(s, m) = [i \in 1..Lower(m, Len(s)) |-> s[i]]
  BY DEF Limited, Lower

\* The newest points of a descending order, reversed, are the chart.
LEMMA ChartOfSort ==
    ASSUME NEW S, IsFiniteSet(S), \A p \in S : p.ts \in Int,
           NEW limit \in Nat \ {0}, NEW s \in Sorted(S, "ts", -1)
    PROVE  IsChart(Reverse(Limited(s, Lower(limit, Cap))), S, limit)
<1> DEFINE n == Cardinality(S)
           m == Lower(limit, Cap)
           k == Lower(m, n)
           t == Limited(s, m)
           chart == Reverse(t)
<1>1. /\ n \in Nat /\ s \in [1..n -> S]
      /\ \A i, j \in 1..n : s[i] = s[j] => i = j
      /\ \A p \in S : \E i \in 1..n : s[i] = p
      /\ \A i, j \in 1..n : i < j => (-1) * s[i].ts <= (-1) * s[j].ts
  BY SortedShape
<1>2. \A i, j \in 1..n : i < j => s[j].ts <= s[i].ts
  BY <1>1
<1>3. m \in Nat \ {0}
  BY QueryTypes DEF Lower
<1> HIDE DEF n, m
<1>4. k \in Nat /\ k <= n /\ t \in [1..k -> S] /\ \A i \in 1..k : t[i] = s[i]
  <2>1. Len(s) = n /\ Len(s) \in Nat /\ s = [i \in 1..Len(s) |-> s[i]]
    BY <1>1
  <2>2. t = [i \in 1..k |-> s[i]]
    <3>1. Limited(s, m) = [i \in 1..Lower(m, Len(s)) |-> s[i]]
      BY <1>3, <2>1, LimitedShape, Zenon
    <3> QED
      BY <2>1, <3>1, Zenon
  <2>3. k \in Nat /\ k <= n
    BY <1>1, <1>3 DEF Lower
  <2> HIDE DEF k, t
  <2>4. \A i \in 1..k : i \in 1..n /\ s[i] \in S
    BY <1>1, <2>3
  <2> QED
    BY <2>2, <2>3, <2>4
<1>5. /\ chart \in [1..k -> S] /\ Len(chart) = k /\ DOMAIN chart = 1..k
      /\ \A i \in 1..k : chart[i] = s[k - i + 1]
  <2>1. Len(t) = k
    BY <1>4
  <2>2. chart = [i \in 1..k |-> t[(k - i) + 1]]
    BY <2>1 DEF Reverse
  <2>3. \A i \in 1..k : (k - i) + 1 \in 1..k
    BY <1>4
  <2>4. chart \in [1..k -> S] /\ \A i \in 1..k : chart[i] = s[k - i + 1]
    BY <1>4, <2>2, <2>3
  <2> QED
    BY <1>4, <2>4
<1> HIDE DEF chart, t, k
<1>6. ToSet(chart) \subseteq S
  BY <1>5 DEF ToSet
<1>7. Cardinality(ToSet(chart)) = k
  <2>1. chart \in Bijection(1..k, ToSet(chart))
    <3>1. \A i, j \in 1..k : chart[i] = chart[j] => i = j
      BY <1>1, <1>4, <1>5
    <3> QED
      BY <1>5, <3>1 DEF Bijection, Injection, Surjection, IsInjective, ToSet
  <2> QED
    BY <1>4, <2>1, FS_CountingElements DEF ExistsBijection
<1>8. \A i, j \in 1..k : i < j => chart[i].ts <= chart[j].ts
  <2> SUFFICES ASSUME NEW i \in 1..k, NEW j \in 1..k, i < j
               PROVE  chart[i].ts <= chart[j].ts
    OBVIOUS
  <2>1. k - j + 1 \in 1..n /\ k - i + 1 \in 1..n /\ k - j + 1 < k - i + 1
    BY <1>1, <1>4
  <2> QED
    BY <1>2, <1>5, <2>1
<1>9. \A p \in S \ ToSet(chart) : \A q \in ToSet(chart) : p.ts <= q.ts
  <2> SUFFICES ASSUME NEW p \in S \ ToSet(chart), NEW j \in 1..k
               PROVE  p.ts <= chart[j].ts
    BY <1>5 DEF ToSet
  <2>1. PICK i \in 1..n : s[i] = p
    BY <1>1
  <2>2. i > k
    <3> SUFFICES ASSUME i <= k PROVE FALSE
      BY <1>1, <1>4
    <3>1. k - i + 1 \in 1..k /\ k - (k - i + 1) + 1 = i
      BY <1>4
    <3>2. chart[k - i + 1] = p
      BY <1>5, <2>1, <3>1
    <3> QED
      BY <1>5, <3>1, <3>2 DEF ToSet
  <2>3. k - j + 1 \in 1..n /\ k - j + 1 < i
    BY <1>1, <1>4, <2>2
  <2> QED
    BY <1>2, <1>5, <2>1, <2>3
<1>10. k = Lower(Lower(limit, Cap), Cardinality(S))
  BY DEF k, m, n
<1>11. IsChart(chart, S, limit)
  BY <1>5, <1>6, <1>7, <1>8, <1>9, <1>10 DEF IsChart
<1> QED
  BY <1>11 DEF chart, t, m

\* Whatever the points are, getPnlHistory answers the newest of them in ascending
\* order, no more than it was asked for and no more than the cap.
THEOREM ChartIsRight ==
    ASSUME NEW S, IsFiniteSet(S), \A p \in S : p.ts \in Int,
           NEW limit \in Nat \ {0}, NEW chart \in getPnlHistory(S, limit)
    PROVE  IsChart(chart, S, limit)
  BY ChartOfSort DEF getPnlHistory

------------------------------------------------------------------------------
\* getPnlDailySummary

LEMMA DayType ==
    ASSUME NEW p, p.ts \in Int
    PROVE  DayOf(p) \in Int
  BY QueryTypes DEF DayOf

\* Every day of a sorted answer has a last point in it.
LEMMA LastOfDay ==
    ASSUME NEW n \in Nat, NEW s, NEW i \in 1..n
    PROVE  \E l \in 1..n : /\ DayOf(s[l]) = DayOf(s[i])
                           /\ \A j \in 1..n : DayOf(s[j]) = DayOf(s[l]) => j <= l
<1> DEFINE T == {n - j : j \in {j \in 1..n : DayOf(s[j]) = DayOf(s[i])}}
<1>1. T \in SUBSET Nat /\ n - i \in T
  OBVIOUS
<1>2. PICK x \in T : \A y \in T : x <= y
  BY <1>1, LeastNatural
<1>3. PICK l \in 1..n : x = n - l /\ DayOf(s[l]) = DayOf(s[i])
  BY <1>2
<1>4. \A j \in 1..n : DayOf(s[j]) = DayOf(s[l]) => n - l <= n - j
  BY <1>2, <1>3
<1>5. \A j \in 1..n : DayOf(s[j]) = DayOf(s[l]) => j <= l
  BY <1>4
<1> QED
  BY <1>3, <1>5

\* Grouping makes one row for each day, from a newest point of it.
LEMMA RowsOfSort ==
    ASSUME NEW S, IsFiniteSet(S), \A p \in S : p.ts \in Int, NEW s \in Sorted(S, "ts", 1)
    PROVE  /\ IsFiniteSet(Rows(s))
           /\ {r.date : r \in Rows(s)} = {DayOf(p) : p \in S}
           /\ \A r, q \in Rows(s) : r.date = q.date => r = q
           /\ \A r \in Rows(s) : /\ r.date \in Int
                                 /\ r.last \in S /\ DayOf(r.last) = r.date
                                 /\ \A p \in S : DayOf(p) = r.date => p.ts <= r.last.ts
<1> DEFINE n == Cardinality(S)
           L == {i \in 1..n : \A j \in 1..n : DayOf(s[j]) = DayOf(s[i]) => j <= i}
           Row(i) == [date |-> DayOf(s[i]), last |-> s[i]]
<1>1. /\ n \in Nat /\ s \in [1..n -> S] /\ DOMAIN s = 1..n
      /\ \A p \in S : \E i \in 1..n : s[i] = p
      /\ \A i, j \in 1..n : i < j => 1 * s[i].ts <= 1 * s[j].ts
  BY SortedShape
<1> HIDE DEF n
<1>2. \A i, j \in 1..n : i <= j => s[i].ts <= s[j].ts
  BY <1>1
<1>3. Rows(s) = {Row(i) : i \in L}
  BY <1>1 DEF Rows
<1>4. IsFiniteSet(Rows(s))
  <2>1. IsFiniteSet(L)
    <3>1. IsFiniteSet(1..n)
      BY <1>1, FS_Interval
    <3> QED
      BY <3>1, FS_Subset
  <2>2. [i \in L |-> Row(i)] \in Surjection(L, Rows(s))
    BY <1>3 DEF Surjection
  <2> QED
    BY <2>1, <2>2, FS_Surjection
<1>5. {r.date : r \in Rows(s)} = {DayOf(p) : p \in S}
  <2>1. ASSUME NEW p \in S PROVE \E r \in Rows(s) : r.date = DayOf(p)
    <3>1. PICK i \in 1..n : s[i] = p
      BY <1>1
    <3>2. PICK l \in 1..n :
             /\ DayOf(s[l]) = DayOf(s[i])
             /\ \A j \in 1..n : DayOf(s[j]) = DayOf(s[l]) => j <= l
      BY <1>1, LastOfDay
    <3>3. Row(l) \in Rows(s) /\ Row(l).date = DayOf(p)
      BY <1>3, <3>1, <3>2
    <3> QED
      BY <3>3
  <2>2. ASSUME NEW r \in Rows(s) PROVE \E p \in S : r.date = DayOf(p)
    <3>1. PICK l \in L : r = Row(l)
      BY <1>3
    <3>2. s[l] \in S /\ r.date = DayOf(s[l])
      BY <1>1, <3>1
    <3> QED
      BY <3>2
  <2> QED
    BY <2>1, <2>2
<1>6. ASSUME NEW r \in Rows(s), NEW q \in Rows(s), r.date = q.date PROVE r = q
  <2>1. PICK i \in L, j \in L : r = Row(i) /\ q = Row(j)
    BY <1>3
  <2>2. DayOf(s[i]) = DayOf(s[j])
    BY <1>6, <2>1
  <2>3. i <= j /\ j <= i
    BY <2>2
  <2>4. i = j
    BY <1>1, <2>3
  <2> QED
    BY <2>1, <2>4
<1>7. ASSUME NEW r \in Rows(s)
      PROVE  /\ r.date \in Int /\ r.last \in S /\ DayOf(r.last) = r.date
             /\ \A p \in S : DayOf(p) = r.date => p.ts <= r.last.ts
  <2>1. PICK l \in L : r = Row(l)
    BY <1>3
  <2>2. r.date = DayOf(s[l]) /\ r.last = s[l] /\ s[l] \in S
    BY <1>1, <2>1
  <2>3. ASSUME NEW p \in S, DayOf(p) = DayOf(s[l]) PROVE p.ts <= s[l].ts
    BY <1>1, <1>2, <2>3
  <2> QED
    BY <2>2, <2>3, DayType
<1> QED
  BY <1>4, <1>5, <1>6, <1>7

\* $match takes whole days, those that are wanted.
LEMMA MatchedDays ==
    ASSUME NEW S, NEW start, NEW end
    PROVE  Matched(S, start, end) = {p \in S : Wanted(DayOf(p), start, end)}
<1>1. CASE start = NotGiven /\ end = NotGiven
  BY <1>1, QueryTypes DEF Matched, Wanted
<1>2. CASE ~(start = NotGiven /\ end = NotGiven) /\ start \notin Int /\ end \notin Int
  BY <1>2 DEF Matched, Wanted
<1>3. CASE start \in Int \/ end \in Int
  <2>1. {start, end} \cap Int # {}
    BY <1>3
  <2>2. ~(start = NotGiven /\ end = NotGiven)
    BY <1>3, QueryTypes
  <2> QED
    BY <1>3, <2>1, <2>2 DEF Matched, Wanted
<1> QED
  BY <1>1, <1>2, <1>3

\* Whatever the points are, getPnlDailySummary answers one row for each wanted
\* day on which there are points, in ascending order, from a newest point of it.
THEOREM SummaryIsRight ==
    ASSUME NEW S, IsFiniteSet(S), \A p \in S : p.ts \in Int,
           NEW start, NEW end, NEW rows \in getPnlDailySummary(S, start, end)
    PROVE  IsSummary(rows, S, {d \in {DayOf(p) : p \in S} : Wanted(d, start, end)})
<1> DEFINE M == {p \in S : Wanted(DayOf(p), start, end)}
           W == {d \in {DayOf(p) : p \in S} : Wanted(d, start, end)}
<1>1. PICK s \in Sorted(M, "ts", 1) : rows \in Sorted(Rows(s), "date", 1)
  BY MatchedDays DEF getPnlDailySummary
<1>2. IsFiniteSet(M) /\ \A p \in M : p \in S /\ p.ts \in Int
  BY FS_Subset
<1>3. /\ {DayOf(p) : p \in M} = {DayOf(p) : p \in S} \cap W
      /\ \A p \in S : DayOf(p) \in {DayOf(q) : q \in M} => p \in M
  OBVIOUS
<1> HIDE DEF M, W
<1>4. /\ IsFiniteSet(Rows(s))
      /\ {r.date : r \in Rows(s)} = {DayOf(p) : p \in M}
      /\ \A r, q \in Rows(s) : r.date = q.date => r = q
      /\ \A r \in Rows(s) : /\ r.date \in Int
                            /\ r.last \in M /\ DayOf(r.last) = r.date
                            /\ \A p \in M : DayOf(p) = r.date => p.ts <= r.last.ts
  BY <1>1, <1>2, RowsOfSort
<1> DEFINE m == Cardinality(Rows(s))
<1>5. /\ m \in Nat /\ rows \in [1..m -> Rows(s)] /\ DOMAIN rows = 1..m
      /\ \A i, j \in 1..m : rows[i] = rows[j] => i = j
      /\ \A r \in Rows(s) : \E i \in 1..m : rows[i] = r
      /\ \A i, j \in 1..m : i < j => 1 * rows[i].date <= 1 * rows[j].date
  BY <1>1, <1>4, SortedShape
<1> HIDE DEF m
<1>6. {rows[i].date : i \in DOMAIN rows} = {r.date : r \in Rows(s)}
  BY <1>5
<1>7. ASSUME NEW i \in 1..m, NEW j \in 1..m, i < j PROVE rows[i].date < rows[j].date
  <2>1. rows[i].date <= rows[j].date /\ rows[i].date \in Int /\ rows[j].date \in Int
    BY <1>4, <1>5, <1>7
  <2>2. rows[i] # rows[j]
    BY <1>5, <1>7
  <2>3. rows[i].date # rows[j].date
    BY <1>4, <1>5, <2>2
  <2> QED
    BY <2>1, <2>3
<1>8. ASSUME NEW i \in 1..m
      PROVE  /\ rows[i].last \in S /\ DayOf(rows[i].last) = rows[i].date
             /\ \A p \in S : DayOf(p) = rows[i].date => p.ts <= rows[i].last.ts
  <2>1. rows[i] \in Rows(s)
    BY <1>5
  <2>2. rows[i].date \in {DayOf(q) : q \in M}
    BY <1>4, <2>1
  <2> QED
    BY <1>2, <1>3, <1>4, <2>1, <2>2
<1>9. IsSummary(rows, S, W)
  BY <1>3, <1>4, <1>5, <1>6, <1>7, <1>8 DEF IsSummary
<1> QED
  BY <1>9 DEF W

------------------------------------------------------------------------------
(***************************************************************************)
(* The theorems above speak of every answer.  There is one: each record    *)
(* has a rank, the number of records up to it, ties being broken by any    *)
(* numbering, and no two records have the same.                            *)
(***************************************************************************)
LEMMA SortExists ==
    ASSUME NEW S, IsFiniteSet(S), NEW field, \A p \in S : p[field] \in Int,
           NEW dir \in {1, -1}
    PROVE  Sorted(S, field, dir) # {}
<1> DEFINE n == Cardinality(S)
           key == [p \in S |-> dir * p[field]]
<1>1. n \in Nat /\ \E e \in [1..n -> S] : \A p \in S : \E i \in 1..n : e[i] = p
  BY FS_CardinalityType DEF ExistsBijection, Bijection, Injection, Surjection
<1>2. key \in [S -> Int]
  OBVIOUS
<1>3. PICK e \in [1..n -> S] : \A p \in S : \E i \in 1..n : e[i] = p
  BY <1>1
<1> DEFINE no == [p \in S |-> CHOOSE i \in 1..n : e[i] = p]
<1>4. no \in [S -> 1..n] /\ \A p, q \in S : no[p] = no[q] => p = q
  BY <1>3
<1> HIDE DEF n, key, no
<1> DEFINE Before(p, q) == key[p] < key[q] \/ (key[p] = key[q] /\ no[p] < no[q])
           UpTo(p) == {q \in S : q = p \/ Before(q, p)}
           rank == [p \in S |-> Cardinality(UpTo(p))]
<1>5. \A p \in S : key[p] \in Int /\ no[p] \in Nat
  BY <1>1, <1>2, <1>4
<1>6. \A p, q \in S : p # q => Before(p, q) \/ Before(q, p)
  BY <1>4, <1>5
<1>7. ASSUME NEW p \in S PROVE IsFiniteSet(UpTo(p)) /\ rank[p] \in 1..n
  <2>1. UpTo(p) \in SUBSET S /\ UpTo(p) # {}
    OBVIOUS
  <2>2. IsFiniteSet(UpTo(p)) /\ Cardinality(UpTo(p)) <= n
    BY <2>1, FS_Subset DEF n
  <2>3. Cardinality(UpTo(p)) \in Nat /\ Cardinality(UpTo(p)) # 0
    BY <2>1, <2>2, FS_CardinalityType, FS_EmptySet
  <2> HIDE DEF UpTo
  <2> QED
    BY <1>1, <2>2, <2>3
<1>8. ASSUME NEW p \in S, NEW q \in S, Before(p, q) PROVE rank[p] < rank[q]
  <2>1. UpTo(p) \in SUBSET UpTo(q)
    BY <1>5, <1>8
  <2>2. q \in UpTo(q) /\ q \notin UpTo(p)
    BY <1>5, <1>8
  <2>3. Cardinality(UpTo(p)) <= Cardinality(UpTo(q))
        /\ Cardinality(UpTo(p)) # Cardinality(UpTo(q))
    BY <1>7, <2>1, <2>2, FS_Subset
  <2> HIDE DEF UpTo
  <2>4. Cardinality(UpTo(p)) \in Nat /\ Cardinality(UpTo(q)) \in Nat
    BY <1>7, FS_CardinalityType
  <2> QED
    BY <2>3, <2>4
<1> HIDE DEF rank
<1>9. rank \in Injection(S, 1..n)
  <2>1. rank \in [S -> 1..n]
    BY <1>7 DEF rank
  <2>2. \A p, q \in S : rank[p] = rank[q] => p = q
    <3> SUFFICES ASSUME NEW p \in S, NEW q \in S, p # q PROVE rank[p] # rank[q]
      OBVIOUS
    <3>1. rank[p] < rank[q] \/ rank[q] < rank[p]
      BY <1>6, <1>8
    <3> QED
      BY <3>1, <2>1, <1>1
  <2> QED
    BY <2>1, <2>2 DEF Injection, IsInjective
<1>10. rank \in Surjection(S, 1..n)
  <2>1. IsFiniteSet(1..n) /\ Cardinality(1..n) = n
    BY <1>1, FS_Interval
  <2> QED
    BY <1>9, <2>1, FS_Injection DEF n
<1> DEFINE s == [i \in 1..n |-> CHOOSE p \in S : rank[p] = i]
<1>11. \A i \in 1..n : s[i] \in S /\ rank[s[i]] = i
  BY <1>10 DEF Surjection
<1>12. \A p \in S : rank[p] \in 1..n /\ s[rank[p]] = p
  BY <1>9 DEF Injection, IsInjective
<1>13. s \in [1..n -> S]
  BY <1>11
<1> HIDE DEF s
<1>14. s \in Bijection(1..n, S)
  BY <1>11, <1>12, <1>13 DEF Bijection, Injection, Surjection, IsInjective
<1>15. ASSUME NEW i \in 1..n, NEW j \in 1..n, i < j PROVE key[s[i]] <= key[s[j]]
  <2>1. s[i] \in S /\ s[j] \in S /\ rank[s[i]] < rank[s[j]]
    BY <1>11, <1>15
  <2>2. i \in Nat /\ j \in Nat
    OBVIOUS
  <2>3. ~Before(s[j], s[i])
    <3> SUFFICES ASSUME Before(s[j], s[i]) PROVE FALSE
      OBVIOUS
    <3>1. rank[s[j]] < rank[s[i]]
      BY <1>8, <2>1
    <3> QED
      BY <1>11, <1>15, <2>2, <3>1
  <2>4. key[s[i]] \in Int /\ key[s[j]] \in Int
    BY <1>5, <2>1
  <2> QED
    BY <2>3, <2>4
<1>16. \A i, j \in 1..n : i < j => dir * s[i][field] <= dir * s[j][field]
  BY <1>11, <1>15 DEF key
<1>17. s \in Sorted(S, field, dir)
  BY <1>14, <1>16 DEF Sorted, n
<1> QED
  BY <1>17

\* Both queries have an answer, whatever the points are.
THEOREM AnswersExist ==
    ASSUME NEW S, IsFiniteSet(S), \A p \in S : p.ts \in Int, NEW limit, NEW start, NEW end
    PROVE  getPnlHistory(S, limit) # {} /\ getPnlDailySummary(S, start, end) # {}
<1> DEFINE M == {p \in S : Wanted(DayOf(p), start, end)}
<1>1. getPnlHistory(S, limit) # {}
  <2>1. Sorted(S, "ts", -1) # {}
    BY SortExists
  <2> QED
    BY <2>1 DEF getPnlHistory
<1>2. PICK s : s \in Sorted(M, "ts", 1)
  <2>1. IsFiniteSet(M) /\ \A p \in M : p.ts \in Int
    BY FS_Subset
  <2> HIDE DEF M
  <2> QED
    BY <2>1, SortExists
<1>3. IsFiniteSet(Rows(s)) /\ \A r \in Rows(s) : r.date \in Int
  <2>1. IsFiniteSet(M) /\ \A p \in M : p.ts \in Int
    BY FS_Subset
  <2> HIDE DEF M
  <2> QED
    BY <1>2, <2>1, RowsOfSort
<1>4. Sorted(Rows(s), "date", 1) # {}
  BY <1>3, SortExists
<1>5. getPnlDailySummary(S, start, end) # {}
  BY <1>2, <1>4, MatchedDays DEF getPnlDailySummary
<1> QED
  BY <1>1, <1>5

==============================================================================
