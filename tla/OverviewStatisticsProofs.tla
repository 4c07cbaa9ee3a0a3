--------------------- MODULE OverviewStatisticsProofs ---------------------
(***************************************************************************)
(* The lists of the overview api, for any tables, and an invariant of the  *)
(* request that collects the attempts per hour and attack type.            *)
(***************************************************************************)
EXTENDS OverviewStatistics, ApiStatisticsProofs

----------------------------------------------------------------------------
\* Sorted lists

LEMMA Enumerated ==
    ASSUME NEW T, IsFiniteSet(T), NEW s \in Enumerations(T)
    PROVE  /\ s \in Seq(T) /\ Len(s) = Cardinality(T) /\ Len(s) \in Nat
           /\ DOMAIN s = 1..Len(s)
           /\ \A i, j \in DOMAIN s : s[i] = s[j] => i = j
           /\ \A x \in T : \E i \in DOMAIN s : s[i] = x
           /\ \A i \in DOMAIN s : s[i] \in T
<1>. DEFINE n == Cardinality(T)
<1>1. n \in Nat
  BY FS_CardinalityType
<1>2. /\ s \in [1..n -> T]
      /\ \A i, j \in 1..n : s[i] = s[j] => i = j
      /\ \A x \in T : \E i \in 1..n : s[i] = x
  BY DEF Enumerations, Bijection, Injection, Surjection, IsInjective
<1>. HIDE DEF n
<1>3. s \in Seq(T) /\ Len(s) = n /\ DOMAIN s = 1..n
  BY <1>1, <1>2
<1>. QED
  BY <1>1, <1>2, <1>3 DEF n

LEMMA InOrderSorts ==
    ASSUME NEW groups, IsFiniteSet(groups), \A g \in groups : g.key \in Int,
           \A g, h \in groups : g.key = h.key => g = h
    PROVE  /\ InOrder(groups) \in Enumerations(groups)
           /\ \A i, j \in DOMAIN InOrder(groups) : i < j =>
                InOrder(groups)[i].key < InOrder(groups)[j].key
<1>. DEFINE R == {x \in groups \X groups : x[1].key <= x[2].key}
            Right(s) == \A i, j \in DOMAIN s : i < j => s[i].key < s[j].key
<1>1. \A g, h \in groups : <<g, h>> \in R <=> g.key <= h.key
  OBVIOUS
<1>. HIDE DEF R
<1>2. PICK s : Sorted(s, groups, R)
  BY <1>1, Sorting
<1>3. s \in Enumerations(groups)
  BY <1>2 DEF Sorted, Enumerations
<1>4. Right(s)
  <2>. SUFFICES ASSUME NEW i \in DOMAIN s, NEW j \in DOMAIN s, i < j
                PROVE  s[i].key < s[j].key
    OBVIOUS
  <2>1. /\ s[i] \in groups /\ s[j] \in groups /\ DOMAIN s = 1..Len(s)
        /\ s[i] = s[j] => i = j
    BY <1>3, Enumerated
  <2>2. s[i].key <= s[j].key
    BY <1>1, <1>2, <2>1 DEF Sorted
  <2>3. s[i].key # s[j].key
    BY <2>1
  <2>. QED
    BY <2>1, <2>2, <2>3
<1>5. InOrder(groups) = CHOOSE t \in Enumerations(groups) : Right(t)
  BY DEF InOrder
<1>. HIDE DEF Right
<1>6. InOrder(groups) \in Enumerations(groups) /\ Right(InOrder(groups))
  BY <1>3, <1>4, <1>5
<1>. QED
  BY <1>6 DEF Right

LEMMA RankedSorts ==
    ASSUME NEW groups, IsFiniteSet(groups), \A g \in groups : g.attempts \in Int
    PROVE  /\ RankedAll(groups) \in Enumerations(groups)
           /\ \A i, j \in DOMAIN RankedAll(groups) : i < j =>
                RankedAll(groups)[i].attempts >= RankedAll(groups)[j].attempts
<1>. DEFINE R == {x \in groups \X groups : x[1].attempts >= x[2].attempts}
            Right(s) == \A i, j \in DOMAIN s : i < j => s[i].attempts >= s[j].attempts
<1>1. \A g, h \in groups : <<g, h>> \in R <=> g.attempts >= h.attempts
  OBVIOUS
<1>. HIDE DEF R
<1>2. PICK s : Sorted(s, groups, R)
  BY <1>1, Sorting
<1>3. s \in Enumerations(groups)
  BY <1>2 DEF Sorted, Enumerations
<1>4. Right(s)
  <2>. SUFFICES ASSUME NEW i \in DOMAIN s, NEW j \in DOMAIN s, i < j
                PROVE  s[i].attempts >= s[j].attempts
    OBVIOUS
  <2>1. s[i] \in groups /\ s[j] \in groups
    BY <1>3, Enumerated
  <2>. QED
    BY <1>1, <1>2, <2>1 DEF Sorted
<1>5. RankedAll(groups) = CHOOSE t \in Enumerations(groups) : Right(t)
  BY DEF RankedAll
<1>. HIDE DEF Right
<1>6. RankedAll(groups) \in Enumerations(groups) /\ Right(RankedAll(groups))
  BY <1>3, <1>4, <1>5
<1>. QED
  BY <1>6 DEF Right

\* The number of rows with a key.
Rows(rows, key, k) == Cardinality({i \in rows : key[i] = k})

\* The groups of some rows: one for each key, with the number of its rows.
LEMMA Groups ==
    ASSUME NEW rows, IsFiniteSet(rows), NEW key
    PROVE  LET G == GroupedBy(rows, key) IN
           /\ IsFiniteSet(G) /\ Cardinality(G) <= Cardinality(rows)
           /\ \A g \in G :
                /\ g = [key |-> g.key, attempts |-> Rows(rows, key, g.key)]
                /\ g.attempts \in Nat \ {0}
                /\ \E i \in rows : key[i] = g.key
           /\ \A i \in rows : \E g \in G : g.key = key[i]
           /\ \A g, h \in G : g.key = h.key => g = h
<1>. DEFINE G == GroupedBy(rows, key)
            Count(k) == Rows(rows, key, k)
            f == [i \in rows |-> [key |-> key[i], attempts |-> Count(key[i])]]
<1>1. \A k : IsFiniteSet({i \in rows : key[i] = k}) /\ Count(k) \in Nat
  <2>. USE DEF Rows
  <2>. TAKE k
  <2>1. {i \in rows : key[i] = k} \in SUBSET rows
    OBVIOUS
  <2>2. IsFiniteSet({i \in rows : key[i] = k})
    BY <2>1, FS_Subset
  <2>. QED
    BY <2>2, FS_CardinalityType
<1>2. \A i \in rows : Count(key[i]) # 0
  <2>. TAKE i \in rows
  <2>1. i \in {j \in rows : key[j] = key[i]}
    OBVIOUS
  <2>. QED
    BY <1>1, <2>1, FS_EmptySet DEF Rows
<1>3. G = {[key |-> k, attempts |-> Count(k)] : k \in {key[i] : i \in rows}}
  BY DEF GroupedBy, Rows
<1>. HIDE DEF Count
<1>4. \A i \in rows : [key |-> key[i], attempts |-> Count(key[i])] \in G
  BY <1>3
<1>5. \A g \in G : \E i \in rows : g = [key |-> key[i], attempts |-> Count(key[i])]
  BY <1>3
<1>. HIDE DEF G
<1>6. f \in Surjection(rows, G)
  BY <1>4, <1>5 DEF Surjection
<1>7. IsFiniteSet(G) /\ Cardinality(G) <= Cardinality(rows)
  BY <1>6, FS_Surjection
<1>8. \A g \in G :
        /\ g = [key |-> g.key, attempts |-> Count(g.key)]
        /\ g.attempts \in Nat \ {0}
        /\ \E i \in rows : key[i] = g.key
  <2>. TAKE g \in G
  <2>1. PICK i \in rows : g = [key |-> key[i], attempts |-> Count(key[i])]
    BY <1>5
  <2>2. g.key = key[i] /\ g.attempts = Count(key[i])
    BY <2>1
  <2>. QED
    BY <1>1, <1>2, <2>1, <2>2
<1>9. \A i \in rows : \E g \in G : g.key = key[i]
  BY <1>4
<1>10. \A g, h \in G : g.key = h.key => g = h
  BY <1>5
<1>. QED
  BY <1>7, <1>8, <1>9, <1>10 DEF G, Count

----------------------------------------------------------------------------
\* The hours of the day

HourGroup == [key : 0..(HoursPerDay - 1), attempts : Nat]

\* What FillHours computes, hour by hour.
LEMMA FillSteps ==
    ASSUME NEW stats
    PROVE  \E f : /\ f[0] = stats
                  /\ \A n \in 1..HoursPerDay : f[n] =
                        IF \E i \in DOMAIN f[n - 1] : f[n - 1][i].key = n - 1 THEN f[n - 1]
                        ELSE InsertAt(f[n - 1], n, [key |-> n - 1, attempts |-> 0])
                  /\ FillHours(stats) = f[HoursPerDay]
<1>. DEFINE D == 0..HoursPerDay
            Next1(f, n) == IF n = 0 THEN stats
                           ELSE IF \E i \in DOMAIN f[n - 1] : f[n - 1][i].key = n - 1 THEN f[n - 1]
                           ELSE InsertAt(f[n - 1], n, [key |-> n - 1, attempts |-> 0])
            Right(f, m) == \A n \in D : n <= m => f[n] = Next1(f, n)
            N == {m \in Nat : \E f : f = [n \in D |-> f[n]] /\ Right(f, m)}
<1>0. HoursPerDay \in Nat
  BY ClockAssumption
<1>1. 0 \in N
  <2>. DEFINE f == [n \in D |-> stats]
  <2>1. f = [n \in D |-> f[n]] /\ Right(f, 0)
    BY <1>0
  <2>2. \E g : g = [n \in D |-> g[n]] /\ Right(g, 0)
    <3>. HIDE DEF f, Right
    <3>. QED
      BY <2>1, Zenon
  <2>. HIDE DEF Right
  <2>. QED
    BY <2>2
<1>2. ASSUME NEW m \in Nat, m \in N PROVE m + 1 \in N
  <2>1. PICK f : f = [n \in D |-> f[n]] /\ Right(f, m)
    BY <1>2
  <2>. DEFINE h == [n \in D |-> Next1(f, n)]
  <2>2. \A n \in D : n <= m => h[n] = f[n]
    BY <2>1
  <2>3. ASSUME NEW n \in D, n <= m + 1 PROVE h[n] = Next1(h, n)
    <3>1. CASE n = 0
      BY <3>1
    <3>2. CASE n # 0
      <4>1. n - 1 \in D /\ n - 1 <= m
        BY <1>0, <2>3, <3>2
      <4>2. h[n - 1] = f[n - 1]
        BY <2>2, <4>1
      <4>3. h[n] = Next1(f, n)
        OBVIOUS
      <4>. HIDE DEF h
      <4>. QED
        BY <3>2, <4>2, <4>3
    <3>. QED
      BY <3>1, <3>2
  <2>4. h = [n \in D |-> h[n]] /\ Right(h, m + 1)
    BY <2>3
  <2>5. \E g : g = [n \in D |-> g[n]] /\ Right(g, m + 1)
    <3>. HIDE DEF h, Right
    <3>. QED
      BY <2>4, Zenon
  <2>6. m + 1 \in Nat
    OBVIOUS
  <2>. HIDE DEF Right, h
  <2>. QED
    BY <2>5, <2>6, Zenon
<1>3. HoursPerDay \in N
  <2>. HIDE DEF N
  <2>1. Nat \subseteq N
    BY <1>1, <1>2, NatInSet
  <2>. QED
    BY <1>0, <2>1
<1>4. PICK g : g = [n \in D |-> g[n]] /\ Right(g, HoursPerDay)
  BY <1>3
<1>5. \E f : f = [n \in D |-> Next1(f, n)]
  <2>. HIDE DEF Next1
  <2>0. \A n \in D : n <= HoursPerDay
    BY <1>0
  <2>1. \A n \in D : g[n] = Next1(g, n)
    BY <1>4, <2>0, Zenon
  <2>2. g = [n \in D |-> Next1(g, n)]
    BY <1>4, <2>1
  <2>. QED
    BY <2>2
<1>. DEFINE f == CHOOSE f : f = [n \in D |-> Next1(f, n)]
<1>6. FillHours(stats) = f[HoursPerDay]
  BY DEF FillHours
<1>7. f = [n \in D |-> Next1(f, n)]
  BY <1>5
<1>. HIDE DEF f
<1>8. \A n \in D : f[n] = Next1(f, n)
  <2>. HIDE DEF Next1
  <2>. QED
    BY <1>7, Zenon
<1>9. 0 \in D /\ \A n \in 1..HoursPerDay : n \in D /\ n # 0
  BY <1>0
<1>. HIDE DEF D
<1>. QED
  BY <1>6, <1>8, <1>9, Zenon

LEMMA Inserted ==
    ASSUME NEW S, NEW s \in Seq(S), NEW n \in 1..(Len(s) + 1), NEW e \in S
    PROVE  /\ InsertAt(s, n, e) \in Seq(S) /\ Len(InsertAt(s, n, e)) = Len(s) + 1
           /\ \A i \in 1..(n - 1) : InsertAt(s, n, e)[i] = s[i]
           /\ InsertAt(s, n, e)[n] = e
           /\ \A i \in (n + 1)..(Len(s) + 1) : InsertAt(s, n, e)[i] = s[i - 1]
<1>. DEFINE a == SubSeq(s, 1, n - 1)
            b == SubSeq(s, n, Len(s))
            ae == a \o <<e>>
<1>0. Len(s) \in Nat /\ n \in Int /\ n - 1 \in Nat /\ Len(s) - n + 1 \in Nat
      /\ n - 1 \in Int /\ Len(s) \in Int /\ 1 \in Int
  OBVIOUS
<1>1. a \in Seq(S) /\ Len(a) = n - 1 /\ \A i \in 1..(n - 1) : a[i] = s[i]
  <2>1. \A i \in 1..(n - 1) : s[i] \in S
    BY <1>0
  <2>2. /\ a \in Seq(S) /\ Len(a) = IF 1 <= n - 1 THEN (n - 1) - 1 + 1 ELSE 0
        /\ \A i \in 1..(n - 1) - 1 + 1 : a[i] = s[1 + i - 1]
    BY <1>0, <2>1, SubSeqProperties
  <2>3. /\ (n - 1) - 1 + 1 = n - 1 /\ (~(1 <= n - 1) => n - 1 = 0)
        /\ \A i \in 1..(n - 1) : 1 + i - 1 = i
    BY <1>0
  <2>. HIDE DEF a
  <2>. QED
    BY <2>2, <2>3
<1>2. b \in Seq(S) /\ Len(b) = Len(s) - n + 1 /\ \A i \in 1..(Len(s) - n + 1) : b[i] = s[n + i - 1]
  <2>1. \A i \in n..Len(s) : s[i] \in S
    BY <1>0
  <2>2. /\ b \in Seq(S) /\ Len(b) = IF n <= Len(s) THEN Len(s) - n + 1 ELSE 0
        /\ \A i \in 1..Len(s) - n + 1 : b[i] = s[n + i - 1]
    BY <1>0, <2>1, SubSeqProperties
  <2>3. ~(n <= Len(s)) => Len(s) - n + 1 = 0
    BY <1>0
  <2>. HIDE DEF b
  <2>. QED
    BY <2>2, <2>3
<1>3. InsertAt(s, n, e) = ae \o b
  BY DEF InsertAt
<1>. HIDE DEF a, b
<1>4. /\ ae \in Seq(S) /\ Len(ae) = n
      /\ \A i \in 1..n : ae[i] = IF i <= n - 1 THEN a[i] ELSE e
  <2>1. <<e>> \in Seq(S) /\ Len(<<e>>) = 1 /\ <<e>>[1] = e
    OBVIOUS
  <2>2. /\ ae \in Seq(S) /\ Len(ae) = Len(a) + Len(<<e>>)
        /\ \A i \in 1..Len(a) + Len(<<e>>) : ae[i] = IF i <= Len(a) THEN a[i] ELSE <<e>>[i - Len(a)]
    BY <1>1, <2>1, ConcatProperties
  <2>3. (n - 1) + 1 = n /\ \A i \in 1..n : ~(i <= n - 1) => i - (n - 1) = 1
    BY <1>0
  <2>. HIDE DEF ae
  <2>. QED
    BY <1>1, <2>1, <2>2, <2>3
<1>. HIDE DEF ae
<1>5. /\ ae \o b \in Seq(S) /\ Len(ae \o b) = n + (Len(s) - n + 1)
      /\ \A i \in 1..n + (Len(s) - n + 1) : (ae \o b)[i] = IF i <= n THEN ae[i] ELSE b[i - n]
  BY <1>2, <1>4, ConcatProperties
<1>6. n + (Len(s) - n + 1) = Len(s) + 1
  BY <1>0
<1>7. \A i \in 1..(n - 1) : (ae \o b)[i] = s[i]
  <2>. TAKE i \in 1..(n - 1)
  <2>1. i \in 1..n /\ i <= n /\ i <= n - 1 /\ i \in 1..n + (Len(s) - n + 1)
    BY <1>0
  <2>. QED
    BY <1>1, <1>4, <1>5, <2>1
<1>8. (ae \o b)[n] = e
  <2>1. n \in 1..n /\ ~(n <= n - 1) /\ n \in 1..n + (Len(s) - n + 1)
    BY <1>0
  <2>. QED
    BY <1>4, <1>5, <2>1
<1>9. \A i \in (n + 1)..(Len(s) + 1) : (ae \o b)[i] = s[i - 1]
  <2>. TAKE i \in (n + 1)..(Len(s) + 1)
  <2>1. /\ ~(i <= n) /\ i \in 1..n + (Len(s) - n + 1) /\ i - n \in 1..(Len(s) - n + 1)
        /\ n + (i - n) - 1 = i - 1
    BY <1>0
  <2>. QED
    BY <1>2, <1>5, <2>1
<1>. QED
  BY <1>3, <1>5, <1>6, <1>7, <1>8, <1>9

\* The list has the first n hours, and the other hours that have rows, in order.
FilledTo(s, n, rows, key) ==
    /\ s \in Seq(HourGroup) /\ n <= Len(s)
    /\ \A i \in 1..Len(s) : s[i].attempts = Rows(rows, key, s[i].key)
    /\ \A i \in 1..n : s[i].key = i - 1
    /\ \A i, j \in 1..Len(s) : i < j => s[i].key < s[j].key
    /\ \A r \in rows : \E i \in 1..Len(s) : s[i].key = key[r]

LEMMA FillStep ==
    ASSUME NEW rows, IsFiniteSet(rows), NEW key, NEW s,
           NEW n \in 0..(HoursPerDay - 1), FilledTo(s, n, rows, key)
    PROVE  LET t == IF \E i \in DOMAIN s : s[i].key = n THEN s
                    ELSE InsertAt(s, n + 1, [key |-> n, attempts |-> 0])
           IN  FilledTo(t, n + 1, rows, key)
<1>0. /\ HoursPerDay \in Nat /\ n \in Nat /\ Len(s) \in Nat /\ DOMAIN s = 1..Len(s)
      /\ \A i \in 1..Len(s) : s[i] \in HourGroup
  BY ClockAssumption DEF FilledTo
<1>1. \A i \in 1..Len(s) : s[i].key \in 0..(HoursPerDay - 1) /\ s[i].key \in Int
  BY <1>0 DEF HourGroup
<1>2. ASSUME NEW i \in 1..Len(s), i > n PROVE s[i].key >= n
  <2>1. CASE n = 0
    BY <1>1, <2>1
  <2>2. CASE n # 0
    <3>1. n \in 1..n /\ n \in 1..Len(s) /\ n < i
      BY <1>0, <1>2, <2>2 DEF FilledTo
    <3>2. s[n].key = n - 1 /\ s[n].key < s[i].key
      BY <3>1 DEF FilledTo
    <3>. QED
      BY <1>0, <1>1, <3>2
  <2>. QED
    BY <2>1, <2>2
<1>3. CASE \E i \in DOMAIN s : s[i].key = n
  <2>1. PICK i \in 1..Len(s) : s[i].key = n
    BY <1>0, <1>3
  <2>2. i > n
    <3>1. CASE i <= n
      <4>1. s[i].key = i - 1
        BY <1>0, <3>1 DEF FilledTo
      <4>. QED
        BY <1>0, <2>1, <3>1, <4>1
    <3>. QED
      BY <1>0, <3>1
  <2>3. i = n + 1
    <3>1. CASE i > n + 1
      <4>1. n + 1 \in 1..Len(s) /\ n + 1 > n /\ n + 1 < i
        BY <1>0, <3>1
      <4>2. s[n + 1].key >= n /\ s[n + 1].key < s[i].key
        BY <1>2, <4>1 DEF FilledTo
      <4>. QED
        BY <1>0, <1>1, <2>1, <4>1, <4>2
    <3>. QED
      BY <1>0, <2>2, <3>1
  <2>4. n + 1 <= Len(s) /\ \A j \in 1..(n + 1) : j \in 1..n \/ j = n + 1
    BY <1>0, <2>3
  <2>5. \A j \in 1..(n + 1) : s[j].key = j - 1
    BY <1>0, <2>1, <2>3, <2>4 DEF FilledTo
  <2>6. FilledTo(s, n + 1, rows, key)
    BY <2>4, <2>5 DEF FilledTo
  <2>. QED
    BY <1>3, <2>6
<1>4. CASE ~\E i \in DOMAIN s : s[i].key = n
  <2>. DEFINE e == [key |-> n, attempts |-> 0]
              t == InsertAt(s, n + 1, e)
  <2>1. e \in HourGroup /\ n + 1 \in 1..(Len(s) + 1) /\ (n + 1) - 1 = n /\ (n + 1) + 1 = n + 2
    BY <1>0 DEF HourGroup, FilledTo
  <2>2. e.key = n /\ e.attempts = 0
    OBVIOUS
  <2>. HIDE DEF e
  <2>3. /\ t \in Seq(HourGroup) /\ Len(t) = Len(s) + 1
        /\ \A i \in 1..n : t[i] = s[i]
        /\ t[n + 1] = e
        /\ \A i \in (n + 2)..(Len(s) + 1) : t[i] = s[i - 1]
    <3>1. s \in Seq(HourGroup)
      BY DEF FilledTo
    <3>2. ASSUME NEW m \in 1..(Len(s) + 1), NEW g \in HourGroup
          PROVE  /\ InsertAt(s, m, g) \in Seq(HourGroup) /\ Len(InsertAt(s, m, g)) = Len(s) + 1
                 /\ \A i \in 1..(m - 1) : InsertAt(s, m, g)[i] = s[i]
                 /\ InsertAt(s, m, g)[m] = g
                 /\ \A i \in (m + 1)..(Len(s) + 1) : InsertAt(s, m, g)[i] = s[i - 1]
      BY <3>1, Inserted
    <3>3. /\ t \in Seq(HourGroup) /\ Len(t) = Len(s) + 1
          /\ \A i \in 1..((n + 1) - 1) : t[i] = s[i]
          /\ t[n + 1] = e
          /\ \A i \in ((n + 1) + 1)..(Len(s) + 1) : t[i] = s[i - 1]
      BY <2>1, <3>2, Zenon
    <3>. QED
      BY <2>1, <3>3, Zenon
  <2>. HIDE DEF t
  <2>4. n <= Len(s)
    BY DEF FilledTo
  <2>5. \A i \in 1..Len(t) :
            \/ i \in 1..n /\ i \in 1..Len(s) /\ i <= n
            \/ i = n + 1
            \/ i \in (n + 2)..(Len(s) + 1) /\ i - 1 \in 1..Len(s) /\ i - 1 > n /\ i > n + 1
    BY <1>0, <2>3, <2>4
  <2>6. Rows(rows, key, n) = 0
    <3>1. \A r \in rows : key[r] # n
      BY <1>0, <1>4 DEF FilledTo
    <3>2. {r \in rows : key[r] = n} = {}
      BY <3>1
    <3>. QED
      BY <3>2, FS_EmptySet DEF Rows
  <2>7. \A i \in 1..Len(t) : t[i].attempts = Rows(rows, key, t[i].key)
    <3>. TAKE i \in 1..Len(t)
    <3>1. \A j \in 1..Len(s) : s[j].attempts = Rows(rows, key, s[j].key)
      BY DEF FilledTo
    <3>. QED
      BY <2>2, <2>3, <2>5, <2>6, <3>1
  <2>8. \A i \in 1..(n + 1) : t[i].key = i - 1
    <3>. TAKE i \in 1..(n + 1)
    <3>1. \A j \in 1..n : s[j].key = j - 1
      BY DEF FilledTo
    <3>2. i \in 1..n \/ i = n + 1
      BY <1>0
    <3>. QED
      BY <2>1, <2>2, <2>3, <3>1, <3>2
  <2>9. \A i, j \in 1..Len(t) : i < j => t[i].key < t[j].key
    <3>. SUFFICES ASSUME NEW i \in 1..Len(t), NEW j \in 1..Len(t), i < j
                  PROVE  t[i].key < t[j].key
      OBVIOUS
    <3>0. \A k, l \in 1..Len(s) : k < l => s[k].key < s[l].key
      BY DEF FilledTo
    <3>1. \A k \in 1..n : s[k].key = k - 1
      BY DEF FilledTo
    <3>2. \A k \in 1..Len(s) : k > n => s[k].key > n
      BY <1>0, <1>1, <1>2, <1>4
    <3>3. CASE i \in 1..n /\ i \in 1..Len(s)
      <4>1. t[i] = s[i] /\ s[i].key = i - 1 /\ i <= n
        BY <1>0, <2>3, <3>1, <3>3
      <4>2. CASE j \in 1..n /\ j \in 1..Len(s)
        BY <2>3, <3>0, <3>3, <4>1, <4>2
      <4>3. CASE j = n + 1
        BY <1>0, <2>2, <2>3, <4>1, <4>3
      <4>4. CASE j \in (n + 2)..(Len(s) + 1) /\ j - 1 \in 1..Len(s) /\ j - 1 > n
        <5>1. t[j] = s[j - 1] /\ s[j - 1].key > n /\ s[j - 1].key \in Int
          BY <1>1, <2>3, <3>2, <4>4
        <5>. QED
          BY <1>0, <4>1, <5>1
      <4>. QED
        BY <2>5, <4>2, <4>3, <4>4
    <3>4. CASE i = n + 1
      <4>1. j \in (n + 2)..(Len(s) + 1) /\ j - 1 \in 1..Len(s) /\ j - 1 > n
        BY <1>0, <2>5, <3>4
      <4>2. t[j] = s[j - 1] /\ s[j - 1].key > n
        BY <2>3, <3>2, <4>1
      <4>. QED
        BY <2>2, <2>3, <3>4, <4>2
    <3>5. CASE i \in (n + 2)..(Len(s) + 1) /\ i - 1 \in 1..Len(s) /\ i - 1 > n /\ i > n + 1
      <4>1. j \in (n + 2)..(Len(s) + 1) /\ j - 1 \in 1..Len(s) /\ i - 1 < j - 1
        BY <1>0, <2>3, <3>5
      <4>2. t[i] = s[i - 1] /\ t[j] = s[j - 1]
        BY <2>3, <3>5, <4>1
      <4>. QED
        BY <3>0, <3>5, <4>1, <4>2
    <3>. QED
      BY <2>5, <3>3, <3>4, <3>5
  <2>10. \A r \in rows : \E i \in 1..Len(t) : t[i].key = key[r]
    <3>. TAKE r \in rows
    <3>1. PICK i \in 1..Len(s) : s[i].key = key[r]
      BY DEF FilledTo
    <3>2. CASE i <= n
      <4>1. i \in 1..Len(t) /\ i \in 1..n
        BY <1>0, <2>3, <3>2
      <4>. QED
        BY <2>3, <3>1, <4>1
    <3>3. CASE i > n
      <4>1. i + 1 \in 1..Len(t) /\ i + 1 \in (n + 2)..(Len(s) + 1) /\ (i + 1) - 1 = i
        BY <1>0, <2>3, <3>3
      <4>2. t[i + 1] = s[i]
        BY <2>3, <4>1
      <4>. QED
        BY <3>1, <4>1, <4>2
    <3>. QED
      BY <1>0, <3>2, <3>3
  <2>11. FilledTo(t, n + 1, rows, key)
    <3>1. n + 1 <= Len(t)
      BY <1>0, <2>3, <2>4
    <3>. QED
      BY <2>3, <2>7, <2>8, <2>9, <2>10, <3>1 DEF FilledTo
  <2>. QED
    BY <1>4, <2>11 DEF t, e
<1>. QED
  BY <1>3, <1>4

\* The list of a day: every hour once, in order, with the number of its rows.
LEMMA HoursListed ==
    ASSUME NEW rows, IsFiniteSet(rows), NEW key,
           \A r \in rows : key[r] \in 0..(HoursPerDay - 1)
    PROVE  FillHours(InOrder(GroupedBy(rows, key))) =
                [h \in 1..HoursPerDay |-> [key |-> h - 1, attempts |-> Rows(rows, key, h - 1)]]
<1>. DEFINE G == GroupedBy(rows, key)
            stats == InOrder(G)
<1>0. HoursPerDay \in Nat \ {0}
  BY ClockAssumption
<1>1. /\ IsFiniteSet(G)
      /\ \A g \in G : /\ g = [key |-> g.key, attempts |-> Rows(rows, key, g.key)]
                      /\ g.attempts \in Nat \ {0}
                      /\ \E i \in rows : key[i] = g.key
      /\ \A i \in rows : \E g \in G : g.key = key[i]
      /\ \A g, h \in G : g.key = h.key => g = h
  BY Groups
<1>. HIDE DEF G
<1>2. \A g \in G : g.key \in 0..(HoursPerDay - 1) /\ g.key \in Int
  BY <1>1
<1>3. /\ stats \in Enumerations(G)
      /\ \A i, j \in DOMAIN stats : i < j => stats[i].key < stats[j].key
  BY <1>1, <1>2, InOrderSorts
<1>. HIDE DEF stats
<1>4. /\ stats \in Seq(G) /\ Len(stats) \in Nat
      /\ DOMAIN stats = 1..Len(stats)
      /\ \A g \in G : \E i \in DOMAIN stats : stats[i] = g
      /\ \A i \in DOMAIN stats : stats[i] \in G
  BY <1>1, <1>3, Enumerated
<1>5. FilledTo(stats, 0, rows, key)
  <2>1. \A g \in G : g \in HourGroup
    BY <1>1, <1>2 DEF HourGroup
  <2>2. stats \in Seq(HourGroup)
    BY <1>4, <2>1
  <2>3. \A i \in 1..Len(stats) : stats[i].attempts = Rows(rows, key, stats[i].key)
    BY <1>1, <1>4
  <2>4. \A r \in rows : \E i \in 1..Len(stats) : stats[i].key = key[r]
    BY <1>1, <1>4
  <2>. QED
    BY <1>3, <1>4, <2>2, <2>3, <2>4 DEF FilledTo
<1>6. PICK f : /\ f[0] = stats
               /\ \A n \in 1..HoursPerDay : f[n] =
                    IF \E i \in DOMAIN f[n - 1] : f[n - 1][i].key = n - 1 THEN f[n - 1]
                    ELSE InsertAt(f[n - 1], n, [key |-> n - 1, attempts |-> 0])
               /\ FillHours(stats) = f[HoursPerDay]
  BY FillSteps
<1>. DEFINE N == {n \in Nat : n <= HoursPerDay => FilledTo(f[n], n, rows, key)}
<1>7. 0 \in N
  BY <1>5, <1>6
<1>8. ASSUME NEW n \in Nat, n \in N PROVE n + 1 \in N
  <2>. SUFFICES ASSUME n + 1 <= HoursPerDay PROVE FilledTo(f[n + 1], n + 1, rows, key)
    OBVIOUS
  <2>1. n \in 0..(HoursPerDay - 1) /\ n + 1 \in 1..HoursPerDay /\ (n + 1) - 1 = n
        /\ n <= HoursPerDay
    BY <1>0
  <2>2. FilledTo(f[n], n, rows, key)
    BY <1>8, <2>1, Zenon
  <2>3. f[n + 1] = IF \E i \in DOMAIN f[n] : f[n][i].key = n THEN f[n]
                   ELSE InsertAt(f[n], n + 1, [key |-> n, attempts |-> 0])
    <3>1. f[n + 1] = IF \E i \in DOMAIN f[(n + 1) - 1] : f[(n + 1) - 1][i].key = (n + 1) - 1
                     THEN f[(n + 1) - 1]
                     ELSE InsertAt(f[(n + 1) - 1], n + 1, [key |-> (n + 1) - 1, attempts |-> 0])
      BY <1>6, <2>1, Zenon
    <3>. QED
      BY <2>1, <3>1, Zenon
  <2>4. FilledTo(IF \E i \in DOMAIN f[n] : f[n][i].key = n THEN f[n]
                 ELSE InsertAt(f[n], n + 1, [key |-> n, attempts |-> 0]), n + 1, rows, key)
    BY <2>1, <2>2, FillStep
  <2>. QED
    BY <2>3, <2>4, Zenon
<1>9. Nat \subseteq N
  <2>. HIDE DEF N
  <2>. QED
    BY <1>7, <1>8, NatInSet
<1>. DEFINE s == FillHours(stats)
<1>10. FilledTo(s, HoursPerDay, rows, key)
  BY <1>0, <1>6, <1>9
<1>. HIDE DEF N, s
<1>11. /\ s \in Seq(HourGroup) /\ Len(s) \in Nat /\ HoursPerDay <= Len(s)
       /\ \A i \in 1..HoursPerDay : s[i].key = i - 1
       /\ \A i \in 1..Len(s) : s[i] \in HourGroup /\ s[i].attempts = Rows(rows, key, s[i].key)
       /\ \A i, j \in 1..Len(s) : i < j => s[i].key < s[j].key
  BY <1>10 DEF FilledTo
<1>12. Len(s) = HoursPerDay
  <2>1. CASE Len(s) > HoursPerDay
    <3>1. HoursPerDay \in 1..Len(s) /\ HoursPerDay + 1 \in 1..Len(s)
          /\ HoursPerDay \in 1..HoursPerDay
      BY <1>0, <1>11, <2>1
    <3>2. s[HoursPerDay].key = HoursPerDay - 1 /\ s[HoursPerDay].key < s[HoursPerDay + 1].key
          /\ s[HoursPerDay + 1].key \in 0..(HoursPerDay - 1)
      BY <1>0, <1>11, <3>1 DEF HourGroup
    <3>. QED
      BY <1>0, <3>2
  <2>. QED
    BY <1>0, <1>11, <2>1
<1>13. s = [h \in 1..HoursPerDay |-> s[h]]
  BY <1>11, <1>12
<1>14. \A h \in 1..HoursPerDay : s[h] = [key |-> h - 1, attempts |-> Rows(rows, key, h - 1)]
  <2>. TAKE h \in 1..HoursPerDay
  <2>1. s[h] \in HourGroup /\ s[h].key = h - 1 /\ s[h].attempts = Rows(rows, key, h - 1)
    BY <1>11, <1>12
  <2>2. s[h] = [key |-> s[h].key, attempts |-> s[h].attempts]
    BY <2>1 DEF HourGroup
  <2>. QED
    BY <2>1, <2>2
<1>15. s = [h \in 1..HoursPerDay |-> [key |-> h - 1, attempts |-> Rows(rows, key, h - 1)]]
  BY <1>13, <1>14, Zenon
<1>. QED
  BY <1>15 DEF s, stats, G

----------------------------------------------------------------------------
\* The tables and the request

AttemptRow == [ip : {source.ip : source \in Sources}, type : AttackTypes, at : Int]

TablesInv ==
    /\ OverviewTypeOK
    /\ attempts \in Seq(AttemptRow)
    /\ blocked \in Seq(Nat)

Moments == [time : Int, rows : Nat]

\* A moment that has been.
Past(moment) == moment \in Moments /\ moment.time <= now /\ moment.rows <= Len(attempts)

\* A moment that is not before another.
NotBefore(moment, other) == other.time <= moment.time /\ other.rows <= moment.rows

Entry == [type : AttackTypes, seen : Moments, hours : Seq(HourGroup)]

Requests ==
    [pc : {"idle", "collecting"}, since : Int, begun : Moments, types : SUBSET AttackTypes,
     data : Seq(Entry)]

\* The attempts of a window that have a type and fall into an hour.
InHour(since, moment, type, h) ==
    {i \in Window(since, moment) : attempts[i].type = type /\ Hour(attempts[i].at) = h}

\* Each type is on the list or has its entry, never both, if the first query found
\* an attempt of it in the day before.
RequestInv ==
    /\ request \in Requests
    /\ request.pc = "idle" => request = NoRequest
    /\ request.pc = "collecting" => Past(request.begun) /\ request.since = request.begun.time - Day
    /\ \A n \in DOMAIN request.data :
        /\ Past(request.data[n].seen) /\ NotBefore(request.data[n].seen, request.begun)
        /\ request.data[n].type \notin request.types
    /\ \A m, n \in DOMAIN request.data : request.data[m].type = request.data[n].type => m = n
    /\ \A type \in request.types : \E i \in Window(request.since, Present) : attempts[i].type = type
    /\ request.pc = "collecting" => \A i \in Window(request.since, request.begun) :
            \/ attempts[i].type \in request.types
            \/ \E n \in DOMAIN request.data : request.data[n].type = attempts[i].type
    /\ HoursComplete
    /\ ListedTypesShow

OverviewInv == TablesInv /\ RequestInv

\* What the steps outside of a request do: attempts are added after those there
\* are, and the clock goes on.
Grown ==
    /\ now <= now'
    /\ DOMAIN attempts \subseteq DOMAIN attempts'
    /\ \A i \in DOMAIN attempts : attempts'[i] = attempts[i]

LEMMA Clock ==
    /\ TicksPerHour \in Nat \ {0} /\ HoursPerDay \in Nat \ {0} /\ DaysPerMonth \in Nat \ {0}
    /\ MonthsPerYear \in Nat \ {0} /\ MonthsPerYear > 1
    /\ Top \in Nat \ {0} /\ BlockDays \in Nat \ {0}
    /\ Day \in Nat \ {0} /\ Month \in Nat \ {0}
    /\ StartTime \in Nat /\ MaxTime \in Nat /\ StartTime <= MaxTime /\ MaxAttempts \in Nat
<1>1. /\ TicksPerHour \in Nat \ {0} /\ HoursPerDay \in Nat \ {0} /\ DaysPerMonth \in Nat \ {0}
      /\ MonthsPerYear \in Nat \ {0} /\ MonthsPerYear > 1
      /\ Top \in Nat \ {0} /\ BlockDays \in Nat \ {0}
      /\ StartTime \in Nat /\ MaxTime \in Nat /\ StartTime <= MaxTime /\ MaxAttempts \in Nat
  BY ClockAssumption
<1>2. \A a, b \in Nat \ {0} : a * b \in Nat \ {0}
  OBVIOUS
<1>3. Day \in Nat \ {0}
  BY <1>1, <1>2 DEF Day
<1>4. Month \in Nat \ {0}
  BY <1>1, <1>2, <1>3 DEF Month
<1>. QED
  BY <1>1, <1>3, <1>4

LEMMA HourType == \A t \in Int : Hour(t) \in 0..(HoursPerDay - 1)
<1>1. \A x \in Int, n \in Nat \ {0} : x \div n \in Int /\ x % n \in 0..(n - 1)
  OBVIOUS
<1>. QED
  BY <1>1, Clock DEF Hour

LEMMA Attempted ==
    ASSUME TablesInv
    PROVE  /\ now \in Int /\ now >= StartTime /\ Len(attempts) \in Nat
           /\ DOMAIN attempts = 1..Len(attempts) /\ IsFiniteSet(DOMAIN attempts)
           /\ Cardinality(DOMAIN attempts) = Len(attempts)
           /\ \A i \in DOMAIN attempts :
                /\ attempts[i] \in AttemptRow
                /\ attempts[i].at \in Int /\ attempts[i].at <= now
                /\ attempts[i].type \in AttackTypes
           /\ Past(Present)
           /\ \A since, moment : Past(moment) =>
                IsFiniteSet(Window(since, moment)) /\ Window(since, moment) \subseteq DOMAIN attempts
<1>1. now \in Int /\ now >= StartTime
  BY Clock DEF TablesInv, OverviewTypeOK
<1>2. /\ DOMAIN attempts = 1..Len(attempts) /\ Len(attempts) \in Nat
      /\ \A i \in DOMAIN attempts : attempts[i] \in AttemptRow
  BY DEF TablesInv
<1>3. IsFiniteSet(DOMAIN attempts) /\ Cardinality(DOMAIN attempts) = Len(attempts)
  BY <1>2, FS_Interval
<1>4. \A i \in DOMAIN attempts : attempts[i].at <= now
  <2>1. \A i \in DOMAIN attempts : attempts[i].at \in StartTime..now
    BY DEF TablesInv, OverviewTypeOK
  <2>2. StartTime \in Int
    BY Clock
  <2>3. \A t \in StartTime..now : t <= now
    BY <1>1, <2>2
  <2>. QED
    BY <2>1, <2>3, Zenon
<1>5. \A i \in DOMAIN attempts : attempts[i].at \in Int /\ attempts[i].type \in AttackTypes
  BY <1>2 DEF AttemptRow
<1>6. ASSUME NEW since, NEW moment, Past(moment)
      PROVE  Window(since, moment) \in SUBSET DOMAIN attempts
  <2>1. moment.rows \in Nat /\ moment.rows <= Len(attempts)
    BY <1>6 DEF Past, Moments
  <2>2. \A i \in 1..moment.rows : i \in DOMAIN attempts
    BY <1>2, <2>1
  <2>. QED
    BY <2>2 DEF Window
<1>7. Past(Present)
  BY <1>1, <1>2 DEF Past, Present, Moments
<1>. QED
  BY <1>1, <1>2, <1>3, <1>4, <1>5, <1>6, <1>7, FS_Subset

\* The window up to the present moment, after a step.
Later(since) == {i \in 1..Len(attempts') : attempts'[i].at > since /\ attempts'[i].at < now'}

\* What was found at a moment of the past is still found in the rows of then.
LEMMA WindowKept ==
    ASSUME TablesInv, TablesInv', Grown
    PROVE  /\ \A since, moment : Past(moment) =>
                /\ Past(moment)'
                /\ Window(since, moment)' = Window(since, moment)
                /\ \A type, h : InHour(since, moment, type, h)' = InHour(since, moment, type, h)
           /\ \A since \in Int : Window(since, Present) \subseteq Later(since)
<1>0. /\ now \in Int /\ now' \in Int /\ now <= now'
      /\ \A i \in DOMAIN attempts : attempts[i].at \in Int
      /\ DOMAIN attempts = 1..Len(attempts) /\ Len(attempts) \in Nat
      /\ DOMAIN attempts' = 1..Len(attempts') /\ Len(attempts') \in Nat
      /\ Past(Present)
  <2>1. now' \in Int
    BY Clock DEF TablesInv, OverviewTypeOK
  <2>2. DOMAIN attempts' = 1..Len(attempts') /\ Len(attempts') \in Nat
    BY DEF TablesInv
  <2>. QED
    BY <2>1, <2>2, Attempted DEF Grown
<1>1. Len(attempts) <= Len(attempts')
  <2>1. 1..Len(attempts) \subseteq 1..Len(attempts')
    BY <1>0 DEF Grown
  <2>2. \A l, m \in Nat : 1..l \subseteq 1..m => l <= m
    OBVIOUS
  <2>. QED
    BY <1>0, <2>1, <2>2
<1>2. ASSUME NEW since, NEW moment, Past(moment)
      PROVE  /\ Past(moment)'
             /\ Window(since, moment)' = Window(since, moment)
             /\ \A type, h : InHour(since, moment, type, h)' = InHour(since, moment, type, h)
  <2>1. moment \in Moments /\ moment.time <= now /\ moment.rows <= Len(attempts)
    BY <1>2 DEF Past
  <2>2. moment.rows \in Nat /\ moment.time \in Int
    BY <2>1 DEF Moments
  <2>3. moment.time <= now' /\ moment.rows <= Len(attempts')
    BY <1>0, <1>1, <2>1, <2>2
  <2>4. Past(moment)'
    BY <2>1, <2>3 DEF Past
  <2>5. \A i \in 1..moment.rows : attempts'[i] = attempts[i]
    BY <1>0, <2>1, <2>2 DEF Grown
  <2>6. Window(since, moment)' = Window(since, moment)
    BY <2>5 DEF Window
  <2>7. \A i \in Window(since, moment) : attempts'[i] = attempts[i]
    BY <2>5 DEF Window
  <2>. QED
    BY <2>4, <2>6, <2>7 DEF InHour
<1>3. ASSUME NEW since \in Int, NEW i \in Window(since, Present)
      PROVE  i \in Later(since)
  <2>1. /\ i \in 1..Len(attempts) /\ attempts[i].at > since /\ attempts[i].at < now
    BY <1>3 DEF Window, Present
  <2>2. i \in DOMAIN attempts' /\ attempts'[i] = attempts[i]
    BY <1>0, <2>1 DEF Grown
  <2>3. attempts[i].at < now'
    BY <1>0, <2>1
  <2>. QED
    BY <1>0, <2>1, <2>2, <2>3 DEF Later
<1>. QED
  BY <1>2, <1>3

\* A request is not disturbed.
LEMMA RequestKept ==
    ASSUME OverviewInv, TablesInv', Grown, request' = request
    PROVE  RequestInv'
<1>0. TablesInv /\ RequestInv /\ now \in Int /\ now' \in Int /\ now <= now'
  BY Attempted, Clock DEF OverviewInv, Grown, TablesInv, OverviewTypeOK
<1>1. /\ request \in Requests
      /\ request.since \in Int /\ request.data \in Seq(Entry) /\ request.begun \in Moments
  BY <1>0 DEF RequestInv, Requests
<1>2. \A n \in DOMAIN request.data :
        /\ Past(request.data[n].seen) /\ NotBefore(request.data[n].seen, request.begun)
        /\ request.data[n].type \notin request.types
  BY <1>0 DEF RequestInv
<1>3. HoursComplete'
  <2>1. \A n \in DOMAIN request.data :
            LET entry == request.data[n] IN
            /\ Len(entry.hours) = HoursPerDay
            /\ \A h \in 0..(HoursPerDay - 1) : entry.hours[h + 1] =
                [key |-> h, attempts |-> Cardinality(InHour(request.since, entry.seen, entry.type, h))]
    BY <1>0 DEF RequestInv, HoursComplete, InHour
  <2>2. ASSUME NEW n \in DOMAIN request.data, NEW h
        PROVE  InHour(request.since, request.data[n].seen, request.data[n].type, h)' =
                    InHour(request.since, request.data[n].seen, request.data[n].type, h)
    <3>1. PICK since : since = request.since
      OBVIOUS
    <3>2. PICK seen : seen = request.data[n].seen
      OBVIOUS
    <3>3. PICK type : type = request.data[n].type
      OBVIOUS
    <3>4. Past(seen)
      BY <1>2, <3>2
    <3>5. InHour(since, seen, type, h)' = InHour(since, seen, type, h)
      BY <1>0, <3>4, WindowKept
    <3>. QED
      BY <3>1, <3>2, <3>3, <3>5 DEF InHour, Window
  <2>3. \A n \in DOMAIN request.data :
            /\ Len(request.data[n].hours) = HoursPerDay
            /\ \A h \in 0..(HoursPerDay - 1) : request.data[n].hours[h + 1] =
                [key |-> h,
                 attempts |-> Cardinality(InHour(request.since, request.data[n].seen,
                                                 request.data[n].type, h)')]
    BY <2>1, <2>2
  <2>. QED
    BY <2>3 DEF HoursComplete, InHour
<1>4. \A type \in request.types : \E i \in Window(request.since, Present)' : attempts'[i].type = type
  <2>. SUFFICES ASSUME NEW type \in request.types
                PROVE  \E i \in Window(request.since, Present)' : attempts'[i].type = type
    OBVIOUS
  <2>1. PICK i \in Window(request.since, Present) : attempts[i].type = type
    BY <1>0 DEF RequestInv
  <2>2. PICK since \in Int : since = request.since
    BY <1>1
  <2>3. i \in Later(since)
    BY <1>0, <2>1, <2>2, WindowKept
  <2>4. i \in Window(request.since, Present)'
    BY <2>2, <2>3 DEF Window, Present, Later
  <2>5. attempts'[i] = attempts[i]
    <3>1. i \in DOMAIN attempts
      BY <1>0, Attempted
    <3>. QED
      BY <3>1 DEF Grown
  <2>. QED
    BY <2>1, <2>4, <2>5
<1>5. request.pc = "collecting" => \A i \in Window(request.since, request.begun)' :
            \/ attempts'[i].type \in request.types
            \/ \E n \in DOMAIN request.data : request.data[n].type = attempts'[i].type
  <2>. SUFFICES ASSUME request.pc = "collecting",
                       NEW i \in Window(request.since, request.begun)'
                PROVE  \/ attempts'[i].type \in request.types
                       \/ \E n \in DOMAIN request.data : request.data[n].type = attempts'[i].type
    OBVIOUS
  <2>1. PICK since : since = request.since
    OBVIOUS
  <2>2. PICK begun : begun = request.begun
    OBVIOUS
  <2>3. Past(begun)
    BY <1>0, <2>2 DEF RequestInv
  <2>4. Window(since, begun)' = Window(since, begun)
    BY <1>0, <2>3, WindowKept
  <2>5. i \in Window(since, begun)'
    BY <2>1, <2>2 DEF Window
  <2>6. i \in Window(since, begun) /\ i \in Window(request.since, request.begun)
    BY <2>1, <2>2, <2>4, <2>5
  <2>7. i \in DOMAIN attempts
    BY <1>0, <2>3, <2>6, Attempted
  <2>8. attempts'[i] = attempts[i]
    BY <2>7 DEF Grown
  <2>. QED
    BY <1>0, <2>6, <2>8 DEF RequestInv
<1>6. request.pc = "collecting" => Past(request.begun)' /\ request.since = request.begun.time - Day
  <2>. SUFFICES ASSUME request.pc = "collecting"
                PROVE  Past(request.begun)' /\ request.since = request.begun.time - Day
    OBVIOUS
  <2>1. PICK begun : begun = request.begun
    OBVIOUS
  <2>2. Past(begun) /\ request.since = request.begun.time - Day
    BY <1>0, <2>1 DEF RequestInv
  <2>3. Past(begun)'
    BY <1>0, <2>2, WindowKept
  <2>. QED
    BY <2>1, <2>2, <2>3 DEF Past
<1>7. \A n \in DOMAIN request.data : Past(request.data[n].seen)'
  <2>. SUFFICES ASSUME NEW n \in DOMAIN request.data
                PROVE  Past(request.data[n].seen)'
    OBVIOUS
  <2>1. PICK seen : seen = request.data[n].seen
    OBVIOUS
  <2>2. Past(seen)'
    BY <1>0, <1>2, <2>1, WindowKept
  <2>. QED
    BY <2>1, <2>2 DEF Past
<1>8. ListedTypesShow'
  BY <1>0 DEF RequestInv, ListedTypesShow
<1>9. /\ request' \in Requests
      /\ request'.pc = "idle" => request' = NoRequest
      /\ \A m, n \in DOMAIN request.data : request.data[m].type = request.data[n].type => m = n
  BY <1>0, <1>1 DEF RequestInv
<1>10. \A n \in DOMAIN request.data :
        /\ Past(request.data[n].seen)' /\ NotBefore(request.data[n].seen, request.begun)
        /\ request.data[n].type \notin request.types
  BY <1>2, <1>7
<1>11. NoRequest' = NoRequest
  BY DEF NoRequest
<1>. QED
  BY <1>3, <1>4, <1>5, <1>6, <1>8, <1>9, <1>10, <1>11 DEF RequestInv, NotBefore

LEMMA InitOverview == OverviewInit => OverviewInv
<1>. SUFFICES ASSUME OverviewInit PROVE OverviewInv
  OBVIOUS
<1>1. /\ now = StartTime /\ attempts = <<>> /\ blocked = <<>> /\ request = NoRequest
      /\ DOMAIN attempts = {} /\ DOMAIN blocked = {} /\ DOMAIN request.data = {}
      /\ request.types = {} /\ request.pc = "idle"
  BY DEF OverviewInit, NoRequest
<1>2. attempts \in Seq(AttemptRow) /\ blocked \in Seq(Nat) /\ Len(attempts) = 0
  BY <1>1
<1>3. Range(blocked) \subseteq DOMAIN attempts
  BY <1>1 DEF Range
<1>4. now \in StartTime..MaxTime /\ Len(attempts) <= MaxAttempts
  BY <1>1, <1>2, Clock
<1>5. TablesInv
  BY <1>1, <1>2, <1>3, <1>4 DEF TablesInv, OverviewTypeOK
<1>6. NoRequest \in Requests
  BY DEF NoRequest, Requests, Moments
<1>7. HoursComplete /\ ListedTypesShow
  BY <1>1 DEF HoursComplete, ListedTypesShow
<1>8. RequestInv
  BY <1>1, <1>6, <1>7 DEF RequestInv
<1>. QED
  BY <1>5, <1>8 DEF OverviewInv

----------------------------------------------------------------------------
\* The steps

LEMMA AttemptAdded ==
    ASSUME TablesInv, NEW source \in Sources, AddAttempt(source)
    PROVE  TablesInv' /\ Grown
<1>. PICK at \in StartTime..now :
        attempts' = Append(attempts, [ip |-> source.ip, type |-> source.type, at |-> at])
  BY DEF AddAttempt
<1>. DEFINE row == [ip |-> source.ip, type |-> source.type, at |-> at]
            n == Len(attempts)
<1>0. /\ now \in Int /\ now >= StartTime /\ n \in Nat /\ DOMAIN attempts = 1..n
      /\ attempts \in Seq(AttemptRow) /\ blocked \in Seq(Nat)
  BY Attempted DEF TablesInv
<1>1. /\ n < MaxAttempts /\ attempts' = Append(attempts, row)
      /\ now' = now /\ blocked' = blocked /\ request' = request
  BY DEF AddAttempt
<1>2. row \in AttemptRow
  <2>1. at \in Int
    BY <1>0, Clock
  <2>. QED
    BY <2>1 DEF AttemptRow, AttackTypes
<1>3. [ip |-> row.ip, type |-> row.type] \in Sources /\ row.at = at
  BY SourcesAssumption
<1>. HIDE DEF row
<1>4. /\ attempts' \in Seq(AttemptRow) /\ Len(attempts') = n + 1
      /\ DOMAIN attempts' = 1..(n + 1) /\ attempts'[n + 1] = row
      /\ \A i \in 1..n : attempts'[i] = attempts[i]
  BY <1>0, <1>1, <1>2
<1>5. \A i \in 1..(n + 1) : i \in 1..n \/ i = n + 1
  BY <1>0
<1>6. at \in StartTime..now
  OBVIOUS
<1>7. ASSUME NEW i \in DOMAIN attempts'
      PROVE  /\ [ip |-> attempts'[i].ip, type |-> attempts'[i].type] \in Sources
             /\ attempts'[i].at \in StartTime..now
  <2>1. CASE i \in 1..n
    BY <1>0, <1>4, <2>1 DEF TablesInv, OverviewTypeOK
  <2>2. CASE i = n + 1
    BY <1>3, <1>4, <1>6, <2>2
  <2>. QED
    BY <1>4, <1>5, <2>1, <2>2
<1>8. Len(attempts') <= MaxAttempts /\ DOMAIN attempts \subseteq DOMAIN attempts'
  BY <1>0, <1>1, <1>4, Clock
<1>9. OverviewTypeOK'
  BY <1>1, <1>7, <1>8 DEF TablesInv, OverviewTypeOK
<1>11. now <= now' /\ \A i \in DOMAIN attempts : attempts'[i] = attempts[i]
  BY <1>0, <1>1, <1>4
<1>. QED
  BY <1>0, <1>1, <1>4, <1>8, <1>9, <1>11 DEF TablesInv, Grown

LEMMA Ticked ==
    ASSUME TablesInv, Tick
    PROVE  TablesInv' /\ Grown
<1>0. /\ now \in Int /\ now >= StartTime
      /\ \A i \in DOMAIN attempts : attempts[i].at \in StartTime..now
  BY Attempted DEF TablesInv, OverviewTypeOK
<1>1. /\ now < MaxTime /\ now' = now + 1
      /\ attempts' = attempts /\ blocked' = blocked /\ request' = request
  BY DEF Tick
<1>2. now' \in StartTime..MaxTime /\ now <= now'
  BY <1>0, <1>1, Clock
<1>3. \A t \in StartTime..now : t \in StartTime..now'
  BY <1>0, <1>1, Clock
<1>4. \A i \in DOMAIN attempts' : attempts'[i].at \in StartTime..now'
  BY <1>0, <1>1, <1>3
<1>. QED
  BY <1>1, <1>2, <1>4 DEF TablesInv, OverviewTypeOK, Grown

LEMMA BlockAdded ==
    ASSUME TablesInv, NEW i \in DOMAIN attempts, AddBlock(i)
    PROVE  TablesInv' /\ Grown
<1>0. now \in Int /\ i \in Nat /\ blocked \in Seq(Nat) /\ Range(blocked) \subseteq DOMAIN attempts
  BY Attempted DEF TablesInv, OverviewTypeOK
<1>1. /\ blocked' = Append(blocked, i)
      /\ now' = now /\ attempts' = attempts /\ request' = request
  BY DEF AddBlock
<1>2. blocked' \in Seq(Nat) /\ DOMAIN blocked' = 1..(Len(blocked) + 1)
      /\ blocked'[Len(blocked) + 1] = i /\ \A n \in 1..Len(blocked) : blocked'[n] = blocked[n]
  BY <1>0, <1>1
<1>3. \A n \in DOMAIN blocked' : blocked'[n] \in DOMAIN attempts
  <2>1. DOMAIN blocked = 1..Len(blocked)
    BY <1>0
  <2>2. \A n \in 1..Len(blocked) : blocked[n] \in DOMAIN attempts
    BY <1>0, <2>1 DEF Range
  <2>3. \A n \in DOMAIN blocked' : n \in 1..Len(blocked) \/ n = Len(blocked) + 1
    BY <1>0, <1>2
  <2>. QED
    BY <1>2, <2>2, <2>3
<1>4. Range(blocked)' \subseteq DOMAIN attempts
  BY <1>3 DEF Range
<1>. QED
  BY <1>0, <1>1, <1>2, <1>4 DEF TablesInv, OverviewTypeOK, Grown

\* A request that changes nothing but itself leaves the tables as they are.
LEMMA TablesKept ==
    ASSUME TablesInv, UNCHANGED <<now, attempts, blocked>>,
           request'.pc \in {"idle", "collecting"}, request'.types \subseteq AttackTypes
    PROVE  TablesInv'
BY DEF TablesInv, OverviewTypeOK

LEMMA RequestEnded ==
    ASSUME OverviewInv, UNCHANGED <<now, attempts, blocked>>, request' = NoRequest
    PROVE  OverviewInv'
<1>1. /\ request'.pc = "idle" /\ request'.types = {} /\ DOMAIN request'.data = {}
  BY DEF NoRequest
<1>2. TablesInv'
  BY <1>1, TablesKept DEF OverviewInv
<1>3. NoRequest \in Requests
  BY DEF NoRequest, Requests, Moments
<1>4. HoursComplete' /\ ListedTypesShow'
  BY <1>1 DEF HoursComplete, ListedTypesShow
<1>5. RequestInv'
  BY <1>1, <1>3, <1>4 DEF RequestInv, NoRequest
<1>. QED
  BY <1>2, <1>5 DEF OverviewInv

LEMMA TypesListed ==
    ASSUME OverviewInv, ListAttackTypes
    PROVE  OverviewInv'
<1>0. /\ TablesInv /\ now \in Int /\ Day \in Int /\ Len(attempts) \in Nat /\ Past(Present)
      /\ \A i \in Window(now - Day, Present) : attempts[i].type \in AttackTypes
  BY Attempted, Clock DEF OverviewInv
<1>. DEFINE types == {attempts[i].type : i \in Window(now - Day, Present)}
<1>1. /\ request'.pc = "collecting" /\ request'.since = now - Day /\ request'.data = <<>>
      /\ request'.types = types /\ request'.begun = Present
      /\ request' = [pc |-> "collecting", since |-> now - Day, begun |-> Present, data |-> <<>>,
                     types |-> types]
      /\ now' = now /\ attempts' = attempts /\ blocked' = blocked
  <2>1. /\ request' = [pc |-> "collecting", since |-> now - Day, begun |-> Present, data |-> <<>>,
                       types |-> types]
        /\ now' = now /\ attempts' = attempts /\ blocked' = blocked
    <3>1. DaysAgo(1) = now - Day
      BY <1>0 DEF DaysAgo
    <3>. QED
      BY <3>1, Zenon DEF ListAttackTypes
  <2>. HIDE DEF types
  <2>. QED
    BY <2>1
<1>2. request'.types \subseteq AttackTypes /\ DOMAIN request'.data = {}
  BY <1>0, <1>1
<1>3. TablesInv'
  BY <1>0, <1>1, <1>2, TablesKept
<1>4. /\ now - Day \in Int /\ Present \in Moments /\ Present.time = now
      /\ Present' = Present /\ Past(Present)'
  <2>1. Present' = Present
    BY <1>1 DEF Present
  <2>2. Past(Present)'
    BY <1>0, <1>1, <2>1 DEF Past
  <2>. QED
    BY <1>0, <2>1, <2>2 DEF Past, Present
<1>5. request' \in Requests
  <2>1. PICK since \in Int : since = now - Day
    BY <1>4
  <2>2. PICK begun \in Moments : begun = Present
    BY <1>4
  <2>3. PICK listed \in SUBSET AttackTypes : listed = types
    BY <1>1, <1>2
  <2>4. request' = [pc |-> "collecting", since |-> since, begun |-> begun, data |-> <<>>,
                    types |-> listed]
    BY <1>1, <2>1, <2>2, <2>3
  <2>5. <<>> \in Seq(Entry)
    OBVIOUS
  <2>. HIDE DEF types
  <2>. QED
    BY <2>4, <2>5 DEF Requests
<1>6. HoursComplete' /\ ListedTypesShow'
  BY <1>2 DEF HoursComplete, ListedTypesShow
<1>7. Window(request.since, Present)' = Window(now - Day, Present)
  BY <1>1, <1>4 DEF Window
<1>8. Window(request.since, request.begun)' = Window(now - Day, Present)
  BY <1>1, <1>4 DEF Window
<1>9. \A type \in request'.types : \E i \in Window(request.since, Present)' : attempts'[i].type = type
  BY <1>1, <1>7
<1>10. \A i \in Window(request.since, request.begun)' : attempts'[i].type \in request'.types
  BY <1>1, <1>8
<1>11. Past(request.begun)' /\ request'.since = request'.begun.time - Day
  <2>1. Past(request.begun)'
    BY <1>1, <1>4 DEF Past
  <2>. QED
    BY <1>1, <1>4, <2>1
<1>12. request'.pc # "idle"
  BY <1>1
<1>. QED
  BY <1>2, <1>3, <1>5, <1>6, <1>9, <1>10, <1>11, <1>12 DEF OverviewInv, RequestInv

\* The hours that a query finds, and those of any window.
Found(since, type) == FillHours(Counted({i \in Window(since, Present) : attempts[i].type = type}))

Hours(since, moment, type) ==
    [h \in 1..HoursPerDay |->
        [key |-> h - 1, attempts |-> Cardinality(InHour(since, moment, type, h - 1))]]

\* A query finds every hour, and shows an attempt if there is one.
LEMMA Queried ==
    ASSUME TablesInv, NEW since \in Int, NEW type,
           \E i \in Window(since, Present) : attempts[i].type = type
    PROVE  /\ Found(since, type) = Hours(since, Present, type)
           /\ Found(since, type) \in Seq(HourGroup)
           /\ \E h \in DOMAIN Found(since, type) : Found(since, type)[h].attempts > 0
<1>. DEFINE rows == {i \in Window(since, Present) : attempts[i].type = type}
            key == [i \in DOMAIN attempts |-> Hour(attempts[i].at)]
            hours == Hours(since, Present, type)
<1>. USE DEF Hours
<1>0. /\ HoursPerDay \in Nat \ {0} /\ IsFiniteSet(Window(since, Present))
      /\ Window(since, Present) \subseteq DOMAIN attempts
      /\ \A i \in DOMAIN attempts : attempts[i].at \in Int
  BY Attempted, Clock
<1>1. rows \in SUBSET Window(since, Present) /\ rows \subseteq DOMAIN attempts
  BY <1>0
<1>2. IsFiniteSet(rows)
  BY <1>0, <1>1, FS_Subset
<1>3. \A i \in DOMAIN attempts : key[i] = Hour(attempts[i].at) /\ key[i] \in 0..(HoursPerDay - 1)
  BY <1>0, HourType
<1>4. ASSUME NEW h PROVE {i \in rows : key[i] = h} = InHour(since, Present, type, h)
  BY <1>1, <1>3 DEF InHour
<1>5. Counted(rows) = InOrder(GroupedBy(rows, key))
  BY DEF Counted
<1>6. \A i \in rows : key[i] \in 0..(HoursPerDay - 1)
  BY <1>1, <1>3
<1>7. \A h : Rows(rows, key, h) = Cardinality(InHour(since, Present, type, h))
  BY <1>4 DEF Rows
<1>8. PICK i \in rows : TRUE
  OBVIOUS
<1>. HIDE DEF rows, key
<1>9. FillHours(Counted(rows)) =
        [h \in 1..HoursPerDay |-> [key |-> h - 1, attempts |-> Rows(rows, key, h - 1)]]
  BY <1>2, <1>5, <1>6, HoursListed
<1>10. FillHours(Counted(rows)) = hours
  BY <1>7, <1>9
<1>11. \A h : InHour(since, Present, type, h) \in SUBSET Window(since, Present)
  BY DEF InHour
<1>12. \A h : IsFiniteSet(InHour(since, Present, type, h))
  BY <1>0, <1>11, FS_Subset
<1>13. \A h : Cardinality(InHour(since, Present, type, h)) \in Nat
  BY <1>12, FS_CardinalityType
<1>14. hours \in Seq(HourGroup)
  <2>1. \A h \in 1..HoursPerDay : h - 1 \in 0..(HoursPerDay - 1)
    BY <1>0
  <2>2. \A h \in 1..HoursPerDay : hours[h] \in HourGroup
    BY <1>13, <2>1 DEF HourGroup
  <2>3. hours \in [1..HoursPerDay -> HourGroup]
    BY <2>2
  <2>. HIDE DEF hours
  <2>. QED
    BY <1>0, <2>3
<1>15. \E h \in DOMAIN hours : hours[h].attempts > 0
  <2>1. i \in DOMAIN attempts /\ key[i] \in 0..(HoursPerDay - 1)
    BY <1>1, <1>6, <1>8
  <2>2. i \in InHour(since, Present, type, key[i])
    BY <1>4, <1>8
  <2>3. Cardinality(InHour(since, Present, type, key[i])) # 0
    BY <1>12, <2>2, FS_EmptySet
  <2>4. key[i] + 1 \in 1..HoursPerDay /\ (key[i] + 1) - 1 = key[i]
    BY <1>0, <2>1
  <2>5. hours[key[i] + 1].attempts = Cardinality(InHour(since, Present, type, key[i]))
    BY <2>4
  <2>6. hours[key[i] + 1].attempts > 0
    BY <1>13, <2>3, <2>5
  <2>. QED
    BY <2>4, <2>6
<1>16. Found(since, type) = hours
  BY <1>10 DEF Found, rows
<1>. HIDE DEF hours
<1>17. /\ Found(since, type) \in Seq(HourGroup)
       /\ \E h \in DOMAIN Found(since, type) : Found(since, type)[h].attempts > 0
  BY <1>14, <1>15, <1>16
<1>. QED
  BY <1>16, <1>17 DEF hours

LEMMA HoursCollected ==
    ASSUME OverviewInv, NEW type \in AttackTypes, CollectHours(type)
    PROVE  OverviewInv'
<1>. PICK since \in Int : since = request.since
  BY DEF OverviewInv, RequestInv, Requests
<1>. DEFINE hours == Found(since, type)
            entry == [type |-> type, seen |-> Present, hours |-> hours]
            n == Len(request.data)
<1>0. /\ TablesInv /\ RequestInv /\ now \in Int /\ Day \in Int
      /\ request.data \in Seq(Entry) /\ n \in Nat /\ DOMAIN request.data = 1..n
      /\ request.types \in SUBSET AttackTypes
      /\ request \in Requests /\ Past(Present)
  BY Attempted, Clock DEF OverviewInv, RequestInv, Requests
<1>1. /\ request.pc = "collecting" /\ type \in request.types
      /\ request' = [request EXCEPT !.types = @ \ {type}, !.data = Append(@, entry)]
      /\ now' = now /\ attempts' = attempts /\ blocked' = blocked
  BY DEF CollectHours, CollectFrom, Found
<1>2. /\ hours = Hours(since, Present, type)
      /\ hours \in Seq(HourGroup)
      /\ \E h \in DOMAIN hours : hours[h].attempts > 0
  <2>1. \E i \in Window(since, Present) : attempts[i].type = type
    BY <1>0, <1>1 DEF RequestInv
  <2>. QED
    BY <1>0, <2>1, Queried
<1>. HIDE DEF hours
<1>3. entry \in Entry /\ entry.type = type /\ entry.seen = Present /\ entry.hours = hours
  BY <1>0, <1>2 DEF Entry, Past
<1>. HIDE DEF entry
<1>4. /\ request'.pc = "collecting" /\ request'.since = since /\ request'.begun = request.begun
      /\ request'.types = request.types \ {type}
      /\ request'.data = Append(request.data, entry)
      /\ request' \in Requests
  <2>1. request = [pc |-> "collecting", since |-> since, begun |-> request.begun,
                   types |-> request.types, data |-> request.data]
    BY <1>0, <1>1 DEF Requests
  <2>2. request' = [pc |-> "collecting", since |-> since, begun |-> request.begun,
                    types |-> request.types \ {type}, data |-> Append(request.data, entry)]
    BY <1>1, <2>1
  <2>3. /\ Append(request.data, entry) \in Seq(Entry) /\ request.types \ {type} \in SUBSET AttackTypes
        /\ request.begun \in Moments
    BY <1>0, <1>3 DEF Requests
  <2>. QED
    BY <2>2, <2>3 DEF Requests
<1>. HIDE DEF n
<1>5. /\ DOMAIN request'.data = 1..(n + 1) /\ request'.data[n + 1] = entry
      /\ \A m \in 1..n : request'.data[m] = request.data[m]
      /\ \A m \in 1..(n + 1) : m \in 1..n \/ m = n + 1
  BY <1>0, <1>3, <1>4 DEF n
<1>6. TablesInv'
  BY <1>0, <1>1, <1>4, TablesKept
<1>7. /\ Past(request.begun) /\ request.since = request.begun.time - Day
      /\ NotBefore(Present, request.begun)
  <2>1. Past(request.begun) /\ request.since = request.begun.time - Day
    BY <1>0, <1>1 DEF RequestInv
  <2>. QED
    BY <2>1 DEF Past, NotBefore, Present
<1>8. /\ \A moment : Past(moment)' <=> Past(moment)
      /\ \A m \in DOMAIN request'.data :
            /\ Past(request'.data[m].seen) /\ NotBefore(request'.data[m].seen, request'.begun)
            /\ request'.data[m].type \notin request'.types
  <2>1. \A m \in 1..n : /\ Past(request.data[m].seen) /\ NotBefore(request.data[m].seen, request.begun)
                        /\ request.data[m].type \notin request.types
    BY <1>0 DEF RequestInv
  <2>2. \A moment : Past(moment)' <=> Past(moment)
    BY <1>1 DEF Past
  <2>. QED
    BY <1>0, <1>3, <1>4, <1>5, <1>7, <2>1, <2>2
<1>9. \A l, m \in DOMAIN request'.data : request'.data[l].type = request'.data[m].type => l = m
  <2>1. \A l, m \in 1..n : request.data[l].type = request.data[m].type => l = m
    BY <1>0 DEF RequestInv
  <2>2. \A m \in 1..n : request.data[m].type # type
    BY <1>0, <1>1 DEF RequestInv
  <2>. QED
    BY <1>3, <1>5, <2>1, <2>2
<1>10. \A t \in request'.types : \E i \in Window(request.since, Present)' : attempts'[i].type = t
  BY <1>0, <1>1, <1>4 DEF RequestInv, Window, Present
<1>11. ASSUME NEW i \in Window(request.since, request.begun)'
       PROVE  \/ attempts'[i].type \in request'.types
              \/ \E m \in DOMAIN request'.data : request'.data[m].type = attempts'[i].type
  <2>1. i \in Window(request.since, request.begun) /\ attempts'[i] = attempts[i]
    BY <1>1, <1>4 DEF Window
  <2>2. \/ attempts[i].type \in request.types
        \/ \E m \in 1..n : request.data[m].type = attempts[i].type
    BY <1>0, <1>1, <2>1 DEF RequestInv
  <2>3. n + 1 \in 1..(n + 1) /\ \A m \in 1..n : m \in 1..(n + 1)
    BY <1>0 DEF n
  <2>. QED
    BY <1>3, <1>4, <1>5, <2>1, <2>2, <2>3
<1>12. HoursComplete'
  <2>1. ASSUME NEW m \in 1..n
        PROVE  /\ Len(request.data[m].hours) = HoursPerDay
               /\ \A h \in 0..(HoursPerDay - 1) : request.data[m].hours[h + 1] =
                    [key |-> h, attempts |-> Cardinality(
                        InHour(since, request.data[m].seen, request.data[m].type, h))]
    BY <1>0 DEF RequestInv, HoursComplete, InHour
  <2>2. /\ Len(entry.hours) = HoursPerDay
        /\ \A h \in 0..(HoursPerDay - 1) : entry.hours[h + 1] =
            [key |-> h, attempts |-> Cardinality(InHour(since, entry.seen, entry.type, h))]
    <3>1. HoursPerDay \in Nat
      BY Clock
    <3>2. \A h \in 0..(HoursPerDay - 1) : h + 1 \in 1..HoursPerDay /\ (h + 1) - 1 = h
      BY <3>1
    <3>3. Len(hours) = HoursPerDay
      BY <1>2, <3>1 DEF Hours
    <3>4. \A h \in 0..(HoursPerDay - 1) : hours[h + 1] =
            [key |-> h, attempts |-> Cardinality(InHour(since, Present, type, h))]
      BY <1>2, <3>2 DEF Hours
    <3>. QED
      BY <1>3, <3>3, <3>4
  <2>3. \A s, u, t, h : InHour(s, u, t, h)' = InHour(s, u, t, h)
    BY <1>1 DEF InHour, Window
  <2>4. \A m \in DOMAIN request'.data :
            /\ Len(request'.data[m].hours) = HoursPerDay
            /\ \A h \in 0..(HoursPerDay - 1) : request'.data[m].hours[h + 1] =
                [key |-> h, attempts |-> Cardinality(
                    InHour(since, request'.data[m].seen, request'.data[m].type, h))]
    BY <1>5, <2>1, <2>2
  <2>5. ASSUME NEW m, NEW h
        PROVE  InHour(since, request'.data[m].seen, request'.data[m].type, h) =
                    InHour(request.since, request.data[m].seen, request.data[m].type, h)'
    <3>1. PICK seen : seen = request'.data[m].seen
      OBVIOUS
    <3>2. PICK t : t = request'.data[m].type
      OBVIOUS
    <3>3. InHour(since, seen, t, h)' = InHour(since, seen, t, h)
      BY <2>3
    <3>. QED
      BY <1>4, <3>1, <3>2, <3>3 DEF InHour, Window
  <2>6. \A m \in DOMAIN request'.data :
            /\ Len(request'.data[m].hours) = HoursPerDay
            /\ \A h \in 0..(HoursPerDay - 1) : request'.data[m].hours[h + 1] =
                [key |-> h, attempts |-> Cardinality(
                    InHour(request.since, request.data[m].seen, request.data[m].type, h)')]
    BY <2>4, <2>5
  <2>. QED
    BY <2>6 DEF HoursComplete, InHour
<1>13. ListedTypesShow'
  <2>1. \A m \in 1..n : \E h \in DOMAIN request.data[m].hours : request.data[m].hours[h].attempts > 0
    BY <1>0 DEF RequestInv, ListedTypesShow
  <2>2. \A m \in 1..(n + 1) : \E h \in DOMAIN request'.data[m].hours :
            request'.data[m].hours[h].attempts > 0
    BY <1>2, <1>3, <1>5, <2>1, Zenon
  <2>. QED
    BY <1>5, <2>2 DEF ListedTypesShow
<1>14. RequestInv'
  <2>1. request'.pc # "idle" /\ Past(request.begun)' /\ request'.since = request'.begun.time - Day
    BY <1>1, <1>4, <1>7 DEF Past
  <2>2. \A m \in DOMAIN request'.data :
            /\ Past(request.data[m].seen)' /\ NotBefore(request.data[m].seen, request.begun)'
            /\ request'.data[m].type \notin request'.types
    BY <1>1, <1>8 DEF Past, NotBefore
  <2>. QED
    BY <1>4, <2>2, <1>9, <1>10, <1>11, <1>12, <1>13, <2>1 DEF RequestInv
<1>. QED
  BY <1>6, <1>14 DEF OverviewInv

LEMMA OverviewGrows ==
    ASSUME OverviewInv, TablesInv', Grown, request' = request
    PROVE  OverviewInv'
BY RequestKept DEF OverviewInv

LEMMA OverviewStill ==
    ASSUME OverviewInv, UNCHANGED overviewVars
    PROVE  OverviewInv'
<1>1. UNCHANGED <<now, attempts, blocked, request>>
  BY DEF overviewVars
<1>2. TablesInv'
  BY <1>1 DEF OverviewInv, TablesInv, OverviewTypeOK
<1>3. now \in Int
  BY Attempted DEF OverviewInv
<1>4. Grown
  BY <1>1, <1>3 DEF Grown
<1>. QED
  BY <1>1, <1>2, <1>4, OverviewGrows

----------------------------------------------------------------------------
\* Rankings

LEMMA Taken ==
    ASSUME NEW S, NEW s \in Seq(S), NEW top \in Nat
    PROVE  /\ Take(s, top) \in Seq(S)
           /\ Len(Take(s, top)) = IF Len(s) < top THEN Len(s) ELSE top
           /\ \A i \in 1..Len(Take(s, top)) : i \in 1..Len(s) /\ Take(s, top)[i] = s[i]
<1>. DEFINE m == IF Len(s) < top THEN Len(s) ELSE top
            t == SubSeq(s, 1, m)
<1>1. Len(s) \in Nat /\ m \in Nat /\ m \in Int /\ 1 \in Int /\ m <= Len(s)
  OBVIOUS
<1>2. Take(s, top) = t
  BY DEF Take
<1>3. \A i \in 1..m : s[i] \in S /\ i \in 1..Len(s)
  BY <1>1
<1>4. (m - 1 + 1 = m) /\ (~(1 <= m) => m = 0) /\ \A i \in 1..m : 1 + i - 1 = i
  BY <1>1
<1>5. m = IF Len(s) < top THEN Len(s) ELSE top
  OBVIOUS
<1>. HIDE DEF m
<1>6. /\ t \in Seq(S) /\ Len(t) = IF 1 <= m THEN m - 1 + 1 ELSE 0
      /\ \A i \in 1..m - 1 + 1 : t[i] = s[1 + i - 1]
  BY <1>1, <1>3, SubSeqProperties
<1>. HIDE DEF t
<1>7. Len(t) = m /\ \A i \in 1..m : t[i] = s[i]
  BY <1>4, <1>6
<1>. QED
  BY <1>2, <1>3, <1>5, <1>6, <1>7

LEMMA RankedShows ==
    ASSUME NEW groups, IsFiniteSet(groups), \A g \in groups : g.attempts \in Int,
           NEW top \in Nat, NEW r, r = Ranked(groups, top)
    PROVE  /\ r \in Seq(groups) /\ Len(r) \in Nat /\ Len(r) <= top /\ DOMAIN r = 1..Len(r)
           /\ \A i \in DOMAIN r : r[i] \in groups
           /\ \A i, j \in DOMAIN r : r[i] = r[j] => i = j
           /\ \A g \in groups : \/ \E i \in DOMAIN r : r[i] = g
                                \/ \A i \in DOMAIN r : g.attempts <= r[i].attempts
           /\ groups # {} /\ top > 0 => Len(r) > 0
<1>1. PICK s : s = RankedAll(groups)
  OBVIOUS
<1>2. /\ s \in Enumerations(groups)
      /\ \A i, j \in DOMAIN s : i < j => s[i].attempts >= s[j].attempts
  BY <1>1, RankedSorts
<1>3. /\ s \in Seq(groups) /\ Len(s) \in Nat /\ DOMAIN s = 1..Len(s)
      /\ \A i, j \in DOMAIN s : s[i] = s[j] => i = j
      /\ \A g \in groups : \E i \in DOMAIN s : s[i] = g
      /\ \A i \in DOMAIN s : s[i] \in groups
  BY <1>2, Enumerated
<1>4. r = Take(s, top)
  BY <1>1 DEF Ranked
<1>5. /\ r \in Seq(groups) /\ Len(r) = IF Len(s) < top THEN Len(s) ELSE top
      /\ \A i \in 1..Len(r) : i \in 1..Len(s) /\ r[i] = s[i]
  BY <1>3, <1>4, Taken
<1>6. Len(r) \in Nat /\ DOMAIN r = 1..Len(r) /\ Len(r) <= top
  BY <1>3, <1>5
<1>7. \A i \in DOMAIN r : r[i] \in groups
  BY <1>3, <1>5, <1>6
<1>8. \A i, j \in DOMAIN r : r[i] = r[j] => i = j
  BY <1>3, <1>5, <1>6
<1>9. ASSUME NEW g \in groups
      PROVE  \/ \E i \in DOMAIN r : r[i] = g
             \/ \A i \in DOMAIN r : g.attempts <= r[i].attempts
  <2>1. PICK j \in DOMAIN s : s[j] = g
    BY <1>3
  <2>2. CASE j <= Len(r)
    <3>1. j \in 1..Len(r)
      BY <1>3, <1>6, <2>1, <2>2
    <3>. QED
      BY <1>5, <1>6, <2>1, <3>1
  <2>3. CASE ~(j <= Len(r))
    <3>. SUFFICES ASSUME NEW i \in DOMAIN r PROVE g.attempts <= r[i].attempts
      OBVIOUS
    <3>1. i < j /\ i \in DOMAIN s /\ r[i] = s[i]
      BY <1>3, <1>5, <1>6, <2>3
    <3>2. s[i].attempts >= s[j].attempts /\ s[i].attempts \in Int /\ s[j].attempts \in Int
      BY <1>2, <1>3, <2>1, <3>1
    <3>. QED
      BY <2>1, <3>1, <3>2
  <2>. QED
    BY <2>2, <2>3
<1>10. groups # {} /\ top > 0 => Len(r) > 0
  <2>. SUFFICES ASSUME groups # {}, top > 0 PROVE Len(r) > 0
    OBVIOUS
  <2>1. PICK i \in 1..Len(s) : TRUE
    BY <1>3
  <2>. QED
    BY <1>3, <1>5, <2>1
<1>. QED
  BY <1>5, <1>6, <1>7, <1>8, <1>9, <1>10

\* The rows of Statistics.Blocks by country or city.
LEMMA Columns ==
    ASSUME TableInv, NEW column
    PROVE  /\ IsFiniteSet(Grouped(column))
           /\ \A g \in Grouped(column) :
                /\ g.attempts \in Nat
                /\ \E i \in DOMAIN table : g.key = table[i].place[column] /\ g.key # None
           /\ \A g, h \in Grouped(column) : g.key = h.key => g = h
<1>. DEFINE All == {table[i].place[column] : i \in DOMAIN table}
            Sum(k) == SumFunctionOnSet(Counts, {i \in DOMAIN table : table[i].place[column] = k})
            f == [i \in DOMAIN table |-> table[i].place[column]]
            g == [k \in All \ {None} |-> [key |-> k, attempts |-> Sum(k)]]
<1>1. /\ DOMAIN table = 1..Len(table) /\ Len(table) \in Nat
      /\ \A S \in SUBSET DOMAIN table : SumFunctionOnSet(Counts, S) \in Nat
  BY RowsFinite
<1>2. IsFiniteSet(DOMAIN table)
  BY <1>1, FS_Interval
<1>3. \A k : Sum(k) \in Nat
  BY <1>1
<1>4. Grouped(column) = {[key |-> k, attempts |-> Sum(k)] : k \in All \ {None}}
  BY DEF Grouped
<1>. HIDE DEF Sum
<1>5. f \in Surjection(DOMAIN table, All)
  BY DEF Surjection
<1>6. IsFiniteSet(All)
  BY <1>2, <1>5, FS_Surjection
<1>7. IsFiniteSet(All \ {None})
  <2>1. All \ {None} \in SUBSET All
    OBVIOUS
  <2>. QED
    BY <1>6, <2>1, FS_Subset
<1>8. \A h \in Grouped(column) : \E k \in All \ {None} : h = [key |-> k, attempts |-> Sum(k)]
  BY <1>4
<1>9. g \in Surjection(All \ {None}, Grouped(column))
  BY <1>4 DEF Surjection
<1>10. IsFiniteSet(Grouped(column))
  BY <1>7, <1>9, FS_Surjection
<1>11. \A h \in Grouped(column) :
        /\ h.attempts \in Nat
        /\ h.key \in All \ {None} /\ h = [key |-> h.key, attempts |-> Sum(h.key)]
  BY <1>3, <1>8
<1>12. \A k \in All : \E i \in DOMAIN table : k = table[i].place[column]
  OBVIOUS
<1>. HIDE DEF All
<1>. QED
  BY <1>10, <1>11, <1>12

\* A list of groups in the order of their keys.
LEMMA OrderedGroups ==
    ASSUME NEW rows, IsFiniteSet(rows), NEW key, \A i \in rows : key[i] \in Int,
           NEW r, r = InOrder(GroupedBy(rows, key))
    PROVE  /\ DOMAIN r = 1..Len(r) /\ Len(r) \in Nat
           /\ \A i \in DOMAIN r : r[i] \in GroupedBy(rows, key)
<1>1. PICK G : G = GroupedBy(rows, key)
  OBVIOUS
<1>2. /\ IsFiniteSet(G)
      /\ \A g \in G : \E i \in rows : key[i] = g.key
      /\ \A g, h \in G : g.key = h.key => g = h
  BY <1>1, Groups
<1>3. \A g \in G : g.key \in Int
  BY <1>2
<1>4. InOrder(G) \in Enumerations(G)
  BY <1>2, <1>3, InOrderSorts
<1>. QED
  BY <1>1, <1>2, <1>4, Enumerated

\* Any list of a finite set.
LEMMA Listed ==
    ASSUME NEW S, IsFiniteSet(S), NEW r, r = SetToSeq(S)
    PROVE  /\ DOMAIN r = 1..Len(r) /\ Len(r) = Cardinality(S) /\ Len(r) \in Nat
           /\ \A i \in DOMAIN r : r[i] \in S
           /\ \A i, j \in DOMAIN r : r[i] = r[j] => i = j
<1>. DEFINE n == Cardinality(S)
<1>1. n \in Nat
  BY FS_CardinalityType
<1>2. PICK m \in Nat : ExistsBijection(1..m, S)
  BY FS_NatBijection
<1>3. m = n
  BY <1>2, FS_CountingElements
<1>4. PICK f : f \in Bijection(1..n, S)
  BY <1>2, <1>3 DEF ExistsBijection
<1>5. f \in [1..n -> S] /\ IsInjective(f)
  BY <1>4 DEF Bijection, Injection
<1>6. r = CHOOSE g \in [1..n -> S] : IsInjective(g)
  BY DEF SetToSeq
<1>. HIDE DEF n
<1>7. r \in [1..n -> S] /\ IsInjective(r)
  <2>. HIDE DEF IsInjective
  <2>. QED
    BY <1>5, <1>6
<1>8. DOMAIN r = 1..n /\ Len(r) = n
  BY <1>1, <1>7
<1>. QED
  BY <1>1, <1>7, <1>8 DEF IsInjective, n

----------------------------------------------------------------------------
\* The rankings and the blocks

RowsIn(places) == {i \in DOMAIN table : table[i].place \in places}

CountedAt(places) == SumFunctionOnSet(Counts, RowsIn(places))

SavedAt(places) == {b \in Blocks : call[b] = "saved" /\ place[b] \in places}

\* The rows of some locations count no more blocks than were saved for them, and
\* exactly those if no two calls overlapped.
LEMMA CountsAt ==
    ASSUME CountInv, NEW places
    PROVE  /\ CountedAt(places) \in Nat /\ Cardinality(SavedAt(places)) \in Nat
           /\ CountedAt(places) <= Cardinality(SavedAt(places))
           /\ overlapped = {} => CountedAt(places) = Cardinality(SavedAt(places))
<1>. DEFINE I == {i \in RowsIn(places) : FirstRow(table[i].place, i)}
            S == [i \in I |-> RowsOf(table[i].place)]
            V == [i \in I |-> Saved(table[i].place)]
            g == [i \in I |-> Total(table[i].place)]
            h == [i \in I |-> Cardinality(Saved(table[i].place))]
            rows == RowsIn(places)
            blocks == SavedAt(places)
<1>0. TableInv /\ SavedInv /\ CountsExactWhenSerial
  BY DEF CountInv, SerialInv
<1>1. /\ DOMAIN table \subseteq Nat
      /\ \A i \in DOMAIN table : table[i].place \in Places /\ Counts[i] \in Nat
      /\ \A T \in SUBSET DOMAIN table : IsFiniteSet(T) /\ SumFunctionOnSet(Counts, T) \in Nat
      /\ \A p : RowsOf(p) \in SUBSET DOMAIN table
  BY <1>0, RowsFinite DEF Row
<1>2. \A p \in Places : IsFiniteSet(Saved(p)) /\ Cardinality(Saved(p)) \in Nat
  BY SavedFinite
<1>3. I \in SUBSET DOMAIN table /\ RowsIn(places) \in SUBSET DOMAIN table
  BY DEF RowsIn
<1>4. \A p : RowsOf(p) # {} => \E i \in RowsOf(p) : FirstRow(p, i)
  <2>. SUFFICES ASSUME NEW p, RowsOf(p) # {}
                PROVE  \E i \in RowsOf(p) : FirstRow(p, i)
    OBVIOUS
  <2>1. RowsOf(p) \in SUBSET Nat
    BY <1>1
  <2>2. PICK i \in RowsOf(p) : \A j \in RowsOf(p) : i <= j
    BY <2>1, LeastElement
  <2>. QED
    BY <2>2 DEF FirstRow
<1>5. ASSUME NEW j \in rows PROVE \E i \in I : j \in S[i]
  <2>1. PICK p : p = table[j].place
    OBVIOUS
  <2>2. j \in RowsOf(p) /\ p \in places
    BY <1>5, <2>1 DEF RowsIn, RowsOf
  <2>3. PICK i \in RowsOf(p) : FirstRow(p, i)
    BY <1>4, <2>2
  <2>4. i \in I /\ table[i].place = p
    BY <2>2, <2>3 DEF RowsOf, RowsIn
  <2>5. S[i] = RowsOf(p)
    BY <2>4
  <2>. HIDE DEF I, S
  <2>. QED
    BY <2>2, <2>4, <2>5
<1>6. ASSUME NEW b \in blocks PROVE \E i \in I : b \in V[i]
  <2>1. PICK p : p = place[b]
    OBVIOUS
  <2>2. b \in Saved(p) /\ p \in places /\ p \in Places
    BY <1>0, <1>6, <2>1 DEF SavedAt, Saved, TableInv
  <2>3. RowsOf(p) # {}
    BY <1>0, <2>2 DEF SavedInv
  <2>4. PICK i \in RowsOf(p) : FirstRow(p, i)
    BY <1>4, <2>3
  <2>5. i \in I /\ table[i].place = p
    BY <2>2, <2>4 DEF RowsOf, RowsIn
  <2>6. V[i] = Saved(p)
    BY <2>5
  <2>. HIDE DEF I, V
  <2>. QED
    BY <2>2, <2>5, <2>6
<1>7. \A i, j \in I : i # j => table[i].place # table[j].place
  <2>. SUFFICES ASSUME NEW i \in I, NEW j \in I, table[i].place = table[j].place PROVE i = j
    OBVIOUS
  <2>1. i \in RowsOf(table[i].place) /\ j \in RowsOf(table[i].place) /\ i \in Nat /\ j \in Nat
    BY <1>1, <1>3 DEF RowsOf
  <2>2. i <= j /\ j <= i
    BY <2>1 DEF FirstRow
  <2>. QED
    BY <2>1, <2>2
<1>8. \A i, j \in I : i # j => S[i] \cap S[j] = {} /\ V[i] \cap V[j] = {}
  BY <1>7 DEF RowsOf, Saved
<1>9. \A i \in I : table[i].place \in Places
  BY <1>1, <1>3
<1>10. IsFiniteSet(I)
  BY <1>1, <1>3
<1>11. SumFunctionOnSet(g, I) = SumFunctionOnSet(Counts, rows)
  <2>1. \A i \in I : IsFiniteSet(S[i]) /\ \A x \in S[i] : Counts[x] \in Nat
    BY <1>1
  <2>2. \A i \in I : g[i] = SumFunctionOnSet(Counts, S[i])
    BY DEF Total
  <2>3. \A i, j \in I : i # j => S[i] \cap S[j] = {}
    BY <1>8
  <2>4. \A i \in I : S[i] \subseteq rows
    BY DEF RowsIn, RowsOf
  <2>. HIDE DEF I, S, g, rows
  <2>. QED
    <3>1. PICK f : f = Counts
      OBVIOUS
    <3>2. \A i \in I : IsFiniteSet(S[i]) /\ \A x \in S[i] : f[x] \in Nat
      BY <2>1, <3>1
    <3>3. \A i \in I : g[i] = SumFunctionOnSet(f, S[i])
      BY <2>2, <3>1
    <3>4. \A x \in rows : \E i \in I : x \in S[i]
      BY <1>5
    <3>5. SumFunctionOnSet(g, I) = SumFunctionOnSet(f, rows)
      BY <1>10, <2>3, <2>4, <3>2, <3>3, <3>4, SumOfSums
    <3>. QED
      BY <3>1, <3>5
<1>12. IsFiniteSet(blocks) /\ SumFunctionOnSet(h, I) = Cardinality(blocks)
  <2>1. \A i \in I : IsFiniteSet(V[i])
    BY <1>2, <1>9
  <2>2. \A i \in I : h[i] = Cardinality(V[i])
    OBVIOUS
  <2>3. \A i, j \in I : i # j => V[i] \cap V[j] = {}
    BY <1>8
  <2>4. \A i \in I : V[i] \subseteq blocks
    BY DEF RowsIn, Saved, SavedAt
  <2>. HIDE DEF I, V, h, blocks
  <2>. QED
    BY <1>6, <1>10, <2>1, <2>2, <2>3, <2>4, SumOfDisjoint
<1>13. \A i \in I : g[i] \in Nat /\ h[i] \in Nat /\ g[i] <= h[i]
  BY <1>0, <1>1, <1>2, <1>9 DEF SavedInv, Total
<1>14. overlapped = {} => \A i \in I : g[i] = h[i]
  BY <1>0, <1>9 DEF CountsExactWhenSerial
<1>. HIDE DEF I, g, h
<1>15. SumFunctionOnSet(g, I) <= SumFunctionOnSet(h, I)
  BY <1>10, <1>13, SumAtMost
<1>16. overlapped = {} => SumFunctionOnSet(g, I) = SumFunctionOnSet(h, I)
  BY <1>10, <1>14, SumAgree
<1>17. Cardinality(blocks) \in Nat
  BY <1>12, FS_CardinalityType
<1>18. SumFunctionOnSet(Counts, RowsIn(places)) \in Nat
  BY <1>1, <1>3
<1>. QED
  BY <1>11, <1>12, <1>15, <1>16, <1>17, <1>18 DEF CountedAt

\* The groups by country or city: each with the counts of its rows, and one for
\* each row that has a name.
LEMMA ColumnCounts ==
    ASSUME TableInv, NEW column
    PROVE  /\ \A g \in Grouped(column) : g.attempts =
                SumFunctionOnSet(Counts, {i \in DOMAIN table : table[i].place[column] = g.key})
           /\ \A i \in DOMAIN table : table[i].place[column] # None =>
                \E g \in Grouped(column) : g.key = table[i].place[column]
           /\ Cardinality(Grouped(column)) <= Len(table)
<1>. DEFINE All == {table[i].place[column] : i \in DOMAIN table}
            Sum(k) == SumFunctionOnSet(Counts, {i \in DOMAIN table : table[i].place[column] = k})
            f == [i \in DOMAIN table |-> table[i].place[column]]
            g == [k \in All \ {None} |-> [key |-> k, attempts |-> Sum(k)]]
<1>1. DOMAIN table = 1..Len(table) /\ Len(table) \in Nat
  BY RowsFinite
<1>2. IsFiniteSet(DOMAIN table) /\ Cardinality(DOMAIN table) = Len(table)
  <2>1. ASSUME NEW n \in Nat PROVE IsFiniteSet(1..n) /\ Cardinality(1..n) = n
    BY FS_Interval
  <2>. QED
    BY <1>1, <2>1
<1>3. Grouped(column) = {[key |-> k, attempts |-> Sum(k)] : k \in All \ {None}}
  BY DEF Grouped
<1>4. \A k : Sum(k) = SumFunctionOnSet(Counts, {i \in DOMAIN table : table[i].place[column] = k})
  OBVIOUS
<1>. HIDE DEF Sum
<1>5. f \in Surjection(DOMAIN table, All)
  BY DEF Surjection
<1>6. IsFiniteSet(All) /\ Cardinality(All) <= Cardinality(DOMAIN table)
  BY <1>2, <1>5, FS_Surjection
<1>7. All \ {None} \in SUBSET All
  OBVIOUS
<1>8. IsFiniteSet(All \ {None}) /\ Cardinality(All \ {None}) <= Cardinality(All)
  BY <1>6, <1>7, FS_Subset
<1>9. g \in Surjection(All \ {None}, Grouped(column))
  BY <1>3 DEF Surjection
<1>10. /\ IsFiniteSet(Grouped(column))
       /\ Cardinality(Grouped(column)) <= Cardinality(All \ {None})
  BY <1>8, <1>9, FS_Surjection
<1>11. Cardinality(Grouped(column)) <= Len(table)
  <2>1. /\ Cardinality(Grouped(column)) \in Nat /\ Cardinality(All \ {None}) \in Nat
        /\ Cardinality(All) \in Nat
    BY <1>6, <1>8, <1>10, FS_CardinalityType
  <2>. QED
    BY <1>1, <1>2, <1>6, <1>8, <1>10, <2>1
<1>12. \A x \in Grouped(column) : x.attempts = Sum(x.key)
  BY <1>3
<1>13. \A k \in All \ {None} : [key |-> k, attempts |-> Sum(k)] \in Grouped(column)
  BY <1>3
<1>14. ASSUME NEW i \in DOMAIN table, table[i].place[column] # None
       PROVE  \E x \in Grouped(column) : x.key = table[i].place[column]
  <2>1. PICK k : k = table[i].place[column]
    OBVIOUS
  <2>2. k \in All \ {None}
    BY <1>14, <2>1
  <2>3. [key |-> k, attempts |-> Sum(k)].key = k
    OBVIOUS
  <2>. QED
    BY <1>13, <2>1, <2>2, <2>3
<1>. QED
  BY <1>4, <1>11, <1>12, <1>14

\* A list that is long enough has all the groups.
LEMMA AllRanked ==
    ASSUME NEW groups, IsFiniteSet(groups), \A g \in groups : g.attempts \in Int,
           NEW top \in Nat, Cardinality(groups) <= top, NEW r, r = Ranked(groups, top)
    PROVE  \A g \in groups : \E i \in DOMAIN r : r[i] = g
<1>1. PICK s : s = RankedAll(groups)
  OBVIOUS
<1>2. s \in Enumerations(groups)
  BY <1>1, RankedSorts
<1>3. /\ s \in Seq(groups) /\ Len(s) \in Nat /\ DOMAIN s = 1..Len(s)
      /\ Len(s) = Cardinality(groups)
      /\ \A g \in groups : \E i \in DOMAIN s : s[i] = g
  BY <1>2, Enumerated
<1>4. r = Take(s, top)
  BY <1>1 DEF Ranked
<1>5. /\ r \in Seq(groups) /\ Len(r) = IF Len(s) < top THEN Len(s) ELSE top
      /\ \A i \in 1..Len(r) : i \in 1..Len(s) /\ r[i] = s[i]
  BY <1>3, <1>4, Taken
<1>6. DOMAIN r = 1..Len(s)
  BY <1>3, <1>5
<1>. QED
  BY <1>3, <1>5, <1>6

\* A complete ranking of the locations accounts for the rows that have a name.
LEMMA RankingCounts ==
    ASSUME TableInv, NEW column, NEW r, r = Ranked(Grouped(column), Len(table))
    PROVE  /\ DOMAIN r = 1..Len(r) /\ Len(r) \in Nat
           /\ SumOf(r) = SumFunctionOnSet(Counts,
                            {i \in DOMAIN table : table[i].place[column] # None})
<1>. DEFINE I == DOMAIN r
            S == [k \in I |-> {i \in DOMAIN table : table[i].place[column] = r[k].key}]
            g == [k \in I |-> r[k].attempts]
            all == {i \in DOMAIN table : table[i].place[column] # None}
<1>1. PICK groups : groups = Grouped(column)
  OBVIOUS
<1>2. /\ IsFiniteSet(groups) /\ \A x \in groups : x.attempts \in Int
      /\ \A x \in groups : x.key # None
      /\ \A x, y \in groups : x.key = y.key => x = y
  BY <1>1, Columns
<1>3. /\ \A x \in groups : x.attempts =
            SumFunctionOnSet(Counts, {i \in DOMAIN table : table[i].place[column] = x.key})
      /\ \A i \in DOMAIN table : table[i].place[column] # None =>
            \E x \in groups : x.key = table[i].place[column]
      /\ Cardinality(groups) <= Len(table) /\ Len(table) \in Nat
  BY <1>1, ColumnCounts, RowsFinite
<1>4. r = Ranked(groups, Len(table))
  BY <1>1
<1>5. /\ Len(r) \in Nat /\ DOMAIN r = 1..Len(r)
      /\ \A i \in DOMAIN r : r[i] \in groups
      /\ \A i, j \in DOMAIN r : r[i] = r[j] => i = j
  BY <1>2, <1>3, <1>4, RankedShows
<1>6. \A x \in groups : \E i \in DOMAIN r : r[i] = x
  BY <1>2, <1>3, <1>4, AllRanked
<1>7. IsFiniteSet(I)
  <2>1. ASSUME NEW n \in Nat PROVE IsFiniteSet(1..n)
    BY FS_Interval
  <2>. QED
    BY <1>5, <2>1
<1>8. PICK f : f = Counts
  OBVIOUS
<1>9. \A k \in I : IsFiniteSet(S[k]) /\ \A i \in S[k] : f[i] \in Nat
  <2>1. /\ \A i \in DOMAIN table : f[i] \in Nat
        /\ \A T \in SUBSET DOMAIN table : IsFiniteSet(T)
    BY <1>8, RowsFinite
  <2>2. \A k \in I : S[k] \in SUBSET DOMAIN table
    OBVIOUS
  <2>. HIDE DEF S
  <2>. QED
    BY <2>1, <2>2
<1>10. \A k, m \in I : k # m => S[k] \cap S[m] = {}
  BY <1>2, <1>5
<1>11. \A k \in I : g[k] = SumFunctionOnSet(f, S[k])
  BY <1>3, <1>5, <1>8
<1>12. \A k \in I : S[k] \subseteq all
  BY <1>2, <1>5
<1>13. ASSUME NEW i \in all PROVE \E k \in I : i \in S[k]
  <2>1. PICK x \in groups : x.key = table[i].place[column]
    BY <1>3
  <2>2. PICK k \in I : r[k] = x
    BY <1>6
  <2>. QED
    BY <2>1, <2>2
<1>14. SumOf(r) = SumFunctionOnSet(g, I)
  <2>1. DOMAIN g = I
    OBVIOUS
  <2>2. SumFunction(g) = SumFunctionOnSet(g, DOMAIN g)
    BY DEF SumFunction
  <2>3. SumOf(r) = SumFunction(g)
    BY DEF SumOf
  <2>. HIDE DEF g
  <2>. QED
    BY <2>1, <2>2, <2>3
<1>15. \A i \in all : \E k \in I : i \in S[k]
  BY <1>13
<1>. HIDE DEF I, S, g, all
<1>16. SumFunctionOnSet(g, I) = SumFunctionOnSet(f, all)
  <2>1. \A k \in I : IsFiniteSet(S[k])
    BY <1>9
  <2>2. \A k \in I : \A i \in S[k] : f[i] \in Nat
    BY <1>9
  <2>. QED
    BY <1>7, <1>10, <1>11, <1>12, <1>15, <2>1, <2>2, SumOfSums, SMTT(60)
<1>. QED
  BY <1>5, <1>8, <1>14, <1>16 DEF all

\* The rankings of countries and of cities are of the same rows: a location has
\* both names or none.
LEMMA RankingsSum == CountInv => RankingsAgree
<1>. SUFFICES ASSUME CountInv PROVE RankingsAgree
  OBVIOUS
<1>. DEFINE n == Len(table)
            named == {p \in Places : p.country # None}
            cities == Ranked(Grouped("city"), n)
            countries == Ranked(Grouped("country"), n)
<1>0. TableInv
  BY DEF CountInv
<1>1. \A p \in Places : p.city # None <=> p.country # None
  BY PlacesAssumption DEF Nowhere
<1>2. \A i \in DOMAIN table : table[i].place \in Places
  BY <1>0, RowsFinite DEF Row
<1>3. {i \in DOMAIN table : table[i].place["country"] # None} = RowsIn(named)
  BY <1>2 DEF RowsIn
<1>4. {i \in DOMAIN table : table[i].place["city"] # None} = RowsIn(named)
  BY <1>1, <1>2 DEF RowsIn
<1>5. SumOf(countries) = CountedAt(named)
  <2>1. SumOf(countries) = SumFunctionOnSet(Counts,
                                {i \in DOMAIN table : table[i].place["country"] # None})
    BY <1>0, RankingCounts
  <2>. QED
    BY <1>3, <2>1 DEF CountedAt
<1>6. SumOf(cities) = CountedAt(named)
  <2>1. SumOf(cities) = SumFunctionOnSet(Counts,
                                {i \in DOMAIN table : table[i].place["city"] # None})
    BY <1>0, RankingCounts
  <2>. QED
    BY <1>4, <2>1 DEF CountedAt
<1>7. SumOf(GetTopCities(n)) = SumOf(cities)
  <2>1. DOMAIN GetTopCities(n) = DOMAIN cities
    BY DEF GetTopCities
  <2>2. \A i \in DOMAIN cities : GetTopCities(n)[i].attempts = cities[i].attempts
    <3>1. \A i \in DOMAIN cities : GetTopCities(n)[i] =
            IF cities[i].key = "" THEN [cities[i] EXCEPT !.key = "Unknown"] ELSE cities[i]
      BY DEF GetTopCities
    <3>2. \A c : [c EXCEPT !.key = "Unknown"].attempts = c.attempts
      OBVIOUS
    <3>. HIDE DEF cities
    <3>. QED
      BY <3>1, <3>2
  <2>. HIDE DEF cities
  <2>3. [i \in DOMAIN GetTopCities(n) |-> GetTopCities(n)[i].attempts]
            = [i \in DOMAIN cities |-> cities[i].attempts]
    BY <2>1, <2>2
  <2>. QED
    BY <2>3 DEF SumOf
<1>8. SumOf(GetTopCountries(n)) = SumOf(countries)
  BY DEF GetTopCountries
<1>9. CountedAt(named) <= Cardinality(SavedAt(named))
  BY CountsAt
<1>10. SavedAt(named) = {b \in Blocks : call[b] = "saved" /\ place[b].country # None}
  BY <1>0 DEF SavedAt, TableInv
<1>. HIDE DEF cities, countries, named
<1>. QED
  BY <1>5, <1>6, <1>7, <1>8, <1>9, <1>10 DEF RankingsAgree

\* A group of the ranking of countries has the blocks of its country, as long as
\* calls do not overlap.
LEMMA CountryCounts ==
    ASSUME CountInv, overlapped = {}, NEW country
    PROVE  /\ \A g \in Grouped("country") : g.key = country =>
                g.attempts = Cardinality(SavedIn(country))
           /\ country # None /\ SavedIn(country) # {} =>
                \E g \in Grouped("country") : g.key = country
           /\ IsFiniteSet(SavedIn(country)) /\ Cardinality(SavedIn(country)) \in Nat
<1>. DEFINE places == {p \in Places : p.country = country}
<1>0. TableInv /\ SavedInv
  BY DEF CountInv
<1>1. \A i \in DOMAIN table : table[i].place \in Places
  BY <1>0, RowsFinite DEF Row
<1>2. {i \in DOMAIN table : table[i].place["country"] = country} = RowsIn(places)
  BY <1>1 DEF RowsIn
<1>3. SavedAt(places) = SavedIn(country)
  BY <1>0 DEF SavedAt, SavedIn, TableInv
<1>4. CountedAt(places) = Cardinality(SavedIn(country))
  BY <1>3, CountsAt
<1>5. ASSUME NEW g \in Grouped("country"), g.key = country
      PROVE  g.attempts = Cardinality(SavedIn(country))
  <2>1. g.attempts = SumFunctionOnSet(Counts,
                        {i \in DOMAIN table : table[i].place["country"] = g.key})
    BY <1>0, <1>5, ColumnCounts
  <2>. QED
    BY <1>2, <1>4, <1>5, <2>1 DEF CountedAt
<1>6. ASSUME country # None, NEW b \in SavedIn(country)
      PROVE  \E g \in Grouped("country") : g.key = country
  <2>1. PICK p : p = place[b]
    OBVIOUS
  <2>2. p \in Places /\ p.country = country /\ b \in Saved(p)
    BY <1>0, <1>6, <2>1 DEF SavedIn, Saved, TableInv
  <2>3. PICK i \in RowsOf(p) : TRUE
    BY <1>0, <2>2 DEF SavedInv
  <2>4. i \in DOMAIN table /\ table[i].place["country"] = country
    BY <2>2, <2>3 DEF RowsOf
  <2>. QED
    BY <1>0, <1>6, <2>4, ColumnCounts
<1>7. SavedIn(country) \in SUBSET Blocks
  BY DEF SavedIn
<1>8. IsFiniteSet(SavedIn(country)) /\ Cardinality(SavedIn(country)) \in Nat
  BY <1>7, BlocksAssumption, FS_Subset, FS_CardinalityType
<1>. QED
  BY <1>5, <1>6, <1>8

LEMMA TopCountryTold == CountInv => TopCountryIsTop
<1>. SUFFICES ASSUME CountInv, overlapped = {}, NEW r, r = GetTopCountries(1)
              PROVE  /\ \A i \in DOMAIN r :
                        /\ r[i].attempts = Cardinality(SavedIn(r[i].key))
                        /\ \A c \in Countries : Cardinality(SavedIn(c)) <= r[i].attempts
                     /\ \A c \in Countries : SavedIn(c) # {} => r # <<>>
  BY DEF TopCountryIsTop
<1>1. PICK groups : groups = Grouped("country")
  OBVIOUS
<1>2. IsFiniteSet(groups) /\ \A g \in groups : g.attempts \in Int
  BY <1>1, Columns DEF CountInv
<1>3. r = Ranked(groups, 1)
  BY <1>1 DEF GetTopCountries
<1>4. /\ Len(r) \in Nat /\ Len(r) <= 1 /\ DOMAIN r = 1..Len(r)
      /\ \A i \in DOMAIN r : r[i] \in groups
      /\ \A g \in groups : \/ \E i \in DOMAIN r : r[i] = g
                           \/ \A i \in DOMAIN r : g.attempts <= r[i].attempts
      /\ groups # {} => Len(r) > 0
  BY <1>2, <1>3, RankedShows
<1>5. \A c \in Countries : c # None
  BY PlacesAssumption DEF Countries
<1>6. ASSUME NEW i \in DOMAIN r PROVE r[i].attempts = Cardinality(SavedIn(r[i].key))
  BY <1>1, <1>4, CountryCounts
<1>7. ASSUME NEW i \in DOMAIN r, NEW c \in Countries
      PROVE  Cardinality(SavedIn(c)) <= r[i].attempts
  <2>0. r[i].attempts \in Nat
    <3>1. Cardinality(SavedIn(r[i].key)) \in Nat
      BY CountryCounts
    <3>. QED
      BY <1>6, <3>1
  <2>1. CASE SavedIn(c) = {}
    <3>1. Cardinality(SavedIn(c)) = 0
      BY <2>1, FS_EmptySet
    <3>. QED
      BY <2>0, <3>1
  <2>2. CASE SavedIn(c) # {}
    <3>1. PICK g \in groups : g.key = c
      BY <1>1, <1>5, <2>2, CountryCounts
    <3>2. g.attempts = Cardinality(SavedIn(c))
      BY <1>1, <3>1, CountryCounts
    <3>3. CASE \E k \in DOMAIN r : r[k] = g
      <4>1. PICK k \in DOMAIN r : r[k] = g
        BY <3>3
      <4>2. k = i
        BY <1>4
      <4>. QED
        BY <2>0, <3>2, <4>1, <4>2
    <3>4. CASE \A k \in DOMAIN r : g.attempts <= r[k].attempts
      BY <3>2, <3>4
    <3>. QED
      BY <1>4, <3>3, <3>4
  <2>. QED
    BY <2>1, <2>2
<1>8. ASSUME NEW c \in Countries, SavedIn(c) # {} PROVE r # <<>>
  <2>1. groups # {}
    BY <1>1, <1>5, <1>8, CountryCounts
  <2>2. Len(r) # 0
    BY <1>4, <2>1
  <2>. QED
    BY <2>2
<1>. QED
  BY <1>6, <1>7, <1>8

----------------------------------------------------------------------------
\* The calendar

LEMMA Quotient ==
    \A t \in Int, n \in Nat \ {0} :
        t \div n \in Int /\ n * (t \div n) <= t /\ t < n * (t \div n) + n
  OBVIOUS

LEMMA QuotientUnique ==
    ASSUME NEW t \in Int, NEW n \in Nat \ {0}, NEW q \in Int, n * q <= t, t < n * q + n
    PROVE  t \div n = q
  OBVIOUS

LEMMA QuotientGrows ==
    \A t, u \in Int, n \in Nat \ {0} : t <= u => t \div n <= u \div n
  OBVIOUS

LEMMA QuotientMoves ==
    \A t, k \in Int, n \in Nat \ {0} : (t + n * k) \div n = (t \div n) + k
  OBVIOUS

LEMMA Remainder ==
    ASSUME NEW t \in Int, NEW n \in Nat \ {0}, NEW q \in Int, q = t \div n
    PROVE  t % n = t - n * q
  OBVIOUS

LEMMA Product ==
    ASSUME NEW a \in Nat, NEW x \in Int, NEW y \in Int, x <= y
    PROVE  a * x <= a * y
  OBVIOUS

LEMMA RemainderTells ==
    ASSUME NEW a \in Int, NEW b \in Int, NEW n \in Nat \ {0}, a % n = b % n, a - b < n, b - a < n
    PROVE  a = b
<1>1. PICK p \in Int : p = a \div n
  BY Quotient
<1>2. PICK q \in Int : q = b \div n
  BY Quotient
<1>3. a - n * p = b - n * q
  BY <1>1, <1>2, Remainder
<1>4. PICK x \in Int : x = n * p
  OBVIOUS
<1>5. PICK y \in Int : y = n * q
  OBVIOUS
<1>6. x - y < n /\ y - x < n
  BY <1>3, <1>4, <1>5
<1>7. \A k \in Int : n * (k + 1) = n * k + n
  OBVIOUS
<1>8. ~(p + 1 <= q) /\ ~(q + 1 <= p)
  <2>1. p + 1 <= q => n * (p + 1) <= n * q
    BY Product
  <2>2. q + 1 <= p => n * (q + 1) <= n * p
    BY Product
  <2>3. n * (p + 1) = x + n /\ n * (q + 1) = y + n
    BY <1>4, <1>5, <1>7
  <2>. QED
    BY <1>4, <1>5, <1>6, <2>1, <2>2, <2>3
<1>9. p = q
  BY <1>8
<1>. QED
  BY <1>3, <1>4, <1>5, <1>9

LEMMA QuotientTwice ==
    ASSUME NEW t \in Int, NEW a \in Nat \ {0}, NEW b \in Nat \ {0}
    PROVE  (t \div a) \div b = t \div (a * b)
<1>1. PICK p \in Int : p = t \div a
  BY Quotient
<1>2. PICK q \in Int : q = p \div b
  BY Quotient
<1>3. a * p <= t /\ t < a * p + a
  BY <1>1, Quotient
<1>4. b * q <= p /\ p + 1 <= b * q + b
  BY <1>2, Quotient
<1>5. a * (b * q) <= a * p
  BY <1>4, Product
<1>6. a * p + a <= a * (b * q) + a * b
  <2>1. a * (p + 1) <= a * (b * q + b)
    <3>1. PICK x \in Int : x = b * q + b
      OBVIOUS
    <3>2. p + 1 \in Int /\ p + 1 <= x
      BY <1>4, <3>1
    <3>. QED
      BY <3>1, <3>2, Product
  <2>2. a * (p + 1) = a * p + a
    OBVIOUS
  <2>3. a * (b * q + b) = a * (b * q) + a * b
    OBVIOUS
  <2>. QED
    BY <2>1, <2>2, <2>3
<1>7. (a * b) * q <= t /\ t < (a * b) * q + (a * b)
  <2>1. (a * b) * q = a * (b * q)
    OBVIOUS
  <2>. QED
    BY <1>3, <1>5, <1>6, <2>1
<1>8. a * b \in Nat \ {0}
  OBVIOUS
<1>. QED
  BY <1>1, <1>2, <1>7, <1>8, QuotientUnique

\* The number of a day in the calendar: the month it is in, and the year.
LEMMA Calendar ==
    ASSUME NEW t \in Int
    PROVE  /\ t \div Day \in Int /\ t \div Month \in Int
           /\ (t \div Day) \div DaysPerMonth = t \div Month
           /\ (t \div Month) \div MonthsPerYear = YearOf(t)
           /\ (t \div Day) \div (DaysPerMonth * MonthsPerYear) = YearOf(t)
           /\ DaysPerMonth * MonthsPerYear \in Nat \ {0}
<1>1. /\ Day \in Nat \ {0} /\ Month \in Nat \ {0}
      /\ DaysPerMonth \in Nat \ {0} /\ MonthsPerYear \in Nat \ {0}
  BY Clock
<1>2. PICK d \in Nat \ {0} : d = Day
  BY <1>1
<1>3. PICK m \in Nat \ {0} : m = DaysPerMonth
  BY <1>1
<1>4. PICK y \in Nat \ {0} : y = MonthsPerYear
  BY <1>1
<1>5. Month = m * d
  BY <1>2, <1>3 DEF Month
<1>6. m * y \in Nat \ {0} /\ m * d \in Nat \ {0} /\ d * m = m * d
  OBVIOUS
<1>7. /\ (m * d) * y = y * (m * d) /\ d * (m * y) = y * (m * d)
  OBVIOUS
<1>8. YearOf(t) = t \div (y * (m * d))
  BY <1>4, <1>5 DEF YearOf
<1>9. (t \div d) \div m = t \div (m * d)
  <2>1. (t \div d) \div m = t \div (d * m)
    BY QuotientTwice
  <2>. QED
    BY <1>6, <2>1, Zenon
<1>10. (t \div (m * d)) \div y = t \div (y * (m * d))
  <2>1. PICK n \in Nat \ {0} : n = m * d
    BY <1>6
  <2>2. (t \div n) \div y = t \div (n * y)
    BY QuotientTwice
  <2>. QED
    BY <1>7, <2>1, <2>2, Zenon
<1>11. (t \div d) \div (m * y) = t \div (y * (m * d))
  <2>1. PICK n \in Nat \ {0} : n = m * y
    BY <1>6
  <2>2. (t \div d) \div n = t \div (d * n)
    BY QuotientTwice
  <2>. QED
    BY <1>7, <2>1, <2>2, Zenon
<1>12. t \div d \in Int /\ t \div (m * d) \in Int
  BY <1>6, Quotient
<1>. QED
  BY <1>2, <1>3, <1>4, <1>5, <1>6, <1>8, <1>9, <1>10, <1>11, <1>12

\* A month ago.
LEMMA MonthAgo ==
    ASSUME now \in Int
    PROVE  /\ LastMonth \in Int /\ LastMonth <= now
           /\ LastMonth \div Day = now \div Day - DaysPerMonth
           /\ LastMonth \div Month = now \div Month - 1
<1>1. Day \in Nat \ {0} /\ Month \in Nat \ {0} /\ DaysPerMonth \in Nat \ {0}
  BY Clock
<1>2. PICK d \in Nat \ {0} : d = Day
  BY <1>1
<1>3. PICK m \in Nat \ {0} : m = DaysPerMonth
  BY <1>1
<1>4. PICK mo \in Nat \ {0} : mo = Month
  BY <1>1
<1>5. Month = m * d
  BY <1>2, <1>3 DEF Month
<1>6. LastMonth = now + d * (-m)
  <2>1. m * d = -(d * (-m))
    OBVIOUS
  <2>. QED
    BY <1>5, <2>1 DEF LastMonth
<1>7. LastMonth = now + mo * (-1)
  BY <1>4 DEF LastMonth
<1>8. -m \in Int /\ -1 \in Int
  OBVIOUS
<1>9. (now + d * (-m)) \div d = (now \div d) + (-m)
  BY <1>8, QuotientMoves
<1>10. (now + mo * (-1)) \div mo = (now \div mo) + (-1)
  BY <1>8, QuotientMoves
<1>11. now \div d \in Int /\ now \div mo \in Int
  BY Quotient
<1>12. LastMonth \in Int /\ LastMonth <= now
  BY <1>4 DEF LastMonth
<1>13. LastMonth \div Day = now \div Day - DaysPerMonth
  BY <1>2, <1>3, <1>6, <1>9, <1>11
<1>14. LastMonth \div Month = now \div Month - 1
  BY <1>4, <1>7, <1>10, <1>11
<1>. QED
  BY <1>12, <1>13, <1>14

\* A row has the year and the month of a month ago just if it is of the month
\* before this one.
LEMMA SameMonth ==
    ASSUME now \in Int, NEW t \in Int
    PROVE  MonthOfYear(t) = MonthOfYear(LastMonth) /\ YearOf(t) = YearOf(LastMonth)
                <=> t \div Month = now \div Month - 1
<1>1. MonthsPerYear \in Nat \ {0}
  BY Clock
<1>2. PICK y \in Nat \ {0} : y = MonthsPerYear
  BY <1>1
<1>3. PICK a \in Int : a = t \div Month
  BY Calendar
<1>4. LastMonth \in Int
  BY MonthAgo
<1>5. PICK b \in Int : b = LastMonth \div Month
  BY <1>4, Calendar
<1>6. YearOf(t) = a \div y /\ YearOf(LastMonth) = b \div y
  BY <1>2, <1>3, <1>4, <1>5, Calendar
<1>7. MonthOfYear(t) = a % y /\ MonthOfYear(LastMonth) = b % y
  BY <1>2, <1>3, <1>5 DEF MonthOfYear
<1>8. a \div y = b \div y /\ a % y = b % y => a = b
  <2>1. PICK p \in Int : p = a \div y
    BY Quotient
  <2>2. a % y = a - y * p
    BY <2>1, Remainder
  <2>3. a \div y = b \div y => b % y = b - y * p
    BY <2>1, Remainder
  <2>4. y * p \in Int
    BY <2>1
  <2>. QED
    BY <2>2, <2>3, <2>4
<1>9. b = now \div Month - 1
  BY <1>5, MonthAgo
<1>. QED
  BY <1>3, <1>6, <1>7, <1>8, <1>9

----------------------------------------------------------------------------
\* Rows per day

\* Numbers in ascending order.
LEMMA Ascending ==
    ASSUME NEW D, IsFiniteSet(D), \A d \in D : d \in Int
    PROVE  \E s \in Enumerations(D) : \A i, j \in DOMAIN s : i < j => s[i] < s[j]
<1>. DEFINE R == {x \in D \X D : x[1] <= x[2]}
            Right(s) == \A i, j \in DOMAIN s : i < j => s[i] < s[j]
<1>0. \A d, e \in D : d <= e \/ e <= d
  OBVIOUS
<1>1. \A d, e \in D : <<d, e>> \in R <=> d <= e
  OBVIOUS
<1>. HIDE DEF R
<1>2. PICK s : Sorted(s, D, R)
  <2>1. \A d, e \in D : <<d, e>> \in R \/ <<e, d>> \in R
    BY <1>0, <1>1
  <2>2. \A d, e, f \in D : <<d, e>> \in R /\ <<e, f>> \in R => <<d, f>> \in R
    BY <1>0, <1>1
  <2>. QED
    BY <2>1, <2>2, Sorting
<1>3. s \in Enumerations(D)
  BY <1>2 DEF Sorted, Enumerations
<1>4. Right(s)
  <2>. SUFFICES ASSUME NEW i \in DOMAIN s, NEW j \in DOMAIN s, i < j PROVE s[i] < s[j]
    OBVIOUS
  <2>1. /\ s[i] \in D /\ s[j] \in D /\ DOMAIN s = 1..Len(s)
        /\ s[i] = s[j] => i = j
    BY <1>3, Enumerated
  <2>2. s[i] <= s[j]
    BY <1>1, <1>2, <2>1 DEF Sorted
  <2>3. i # j
    BY <2>1
  <2>. QED
    BY <1>0, <2>1, <2>2, <2>3
<1>. QED
  BY <1>3, <1>4

\* The dates of some rows, and their days.
Dates(rows, date) == {date[i] : i \in rows}
Days(rows, date) == {date[i] \div Day : i \in rows}

LEMMA DaysInOrder ==
    ASSUME NEW rows, IsFiniteSet(rows), NEW date, \A i \in rows : date[i] \in Int
    PROVE  /\ IsFiniteSet(Days(rows, date)) /\ \A d \in Days(rows, date) : d \in Int
           /\ DaysOf(Dates(rows, date)) \in Enumerations(Days(rows, date))
           /\ \A i, j \in DOMAIN DaysOf(Dates(rows, date)) : i < j =>
                DaysOf(Dates(rows, date))[i] < DaysOf(Dates(rows, date))[j]
<1>. DEFINE f == [i \in rows |-> date[i] \div Day]
            dates == {date[i] : i \in rows}
<1>0. PICK D : D = {date[i] \div Day : i \in rows}
  OBVIOUS
<1>1. f \in Surjection(rows, D)
  BY <1>0 DEF Surjection
<1>2. IsFiniteSet(D)
  BY <1>1, FS_Surjection
<1>3. \A d \in D : d \in Int
  BY <1>0, Calendar
<1>4. D = {t \div Day : t \in dates}
  BY <1>0
<1>. DEFINE Right(s) == \A i, j \in DOMAIN s : i < j => s[i] < s[j]
<1>5. PICK days : days = DaysOf(dates)
  OBVIOUS
<1>6. days = CHOOSE s \in Enumerations(D) : Right(s)
  BY <1>4, <1>5 DEF DaysOf
<1>7. \E s \in Enumerations(D) : Right(s)
  BY <1>2, <1>3, Ascending
<1>. HIDE DEF Right
<1>8. days \in Enumerations(D) /\ Right(days)
  BY <1>6, <1>7
<1>9. D = Days(rows, date) /\ days = DaysOf(Dates(rows, date))
  BY <1>0, <1>5 DEF Days, Dates
<1>10. \A i, j \in DOMAIN days : i < j => days[i] < days[j]
  BY <1>8 DEF Right
<1>. QED
  BY <1>2, <1>3, <1>8, <1>9, <1>10

\* No row is lost or counted twice when rows are grouped.
LEMMA GroupSum ==
    ASSUME NEW rows, IsFiniteSet(rows), NEW key, \A i \in rows : key[i] \in Int,
           NEW r, r = InOrder(GroupedBy(rows, key))
    PROVE  SumOf(r) = Cardinality(rows)
<1>. DEFINE I == DOMAIN r
            f == [n \in I |-> {i \in rows : key[i] = r[n].key}]
            g == [n \in I |-> r[n].attempts]
<1>1. PICK G : G = GroupedBy(rows, key)
  OBVIOUS
<1>2. /\ IsFiniteSet(G)
      /\ \A x \in G : /\ x = [key |-> x.key, attempts |-> Rows(rows, key, x.key)]
                       /\ \E i \in rows : key[i] = x.key
      /\ \A i \in rows : \E x \in G : x.key = key[i]
      /\ \A x, y \in G : x.key = y.key => x = y
  BY <1>1, Groups
<1>3. \A x \in G : x.key \in Int
  BY <1>2
<1>4. r \in Enumerations(G)
  BY <1>1, <1>2, <1>3, InOrderSorts
<1>5. /\ Len(r) \in Nat /\ I = 1..Len(r)
      /\ \A m, n \in I : r[m] = r[n] => m = n
      /\ \A x \in G : \E n \in I : r[n] = x
      /\ \A n \in I : r[n] \in G
  BY <1>2, <1>4, Enumerated
<1>6. IsFiniteSet(I)
  <2>1. ASSUME NEW n \in Nat PROVE IsFiniteSet(1..n)
    BY FS_Interval
  <2>. QED
    BY <1>5, <2>1
<1>7. \A n \in I : f[n] \in SUBSET rows
  OBVIOUS
<1>8. \A m, n \in I : m # n => f[m] \cap f[n] = {}
  BY <1>2, <1>5
<1>9. \A n \in I : g[n] = Cardinality(f[n])
  <2>. TAKE n \in I
  <2>1. r[n].attempts = Rows(rows, key, r[n].key)
    BY <1>2, <1>5
  <2>. QED
    BY <2>1 DEF Rows
<1>10. \A i \in rows : \E n \in I : i \in f[n]
  <2>. TAKE i \in rows
  <2>1. PICK x \in G : x.key = key[i]
    BY <1>2
  <2>2. PICK n \in I : r[n] = x
    BY <1>5
  <2>. QED
    BY <2>1, <2>2
<1>11. SumOf(r) = SumFunctionOnSet(g, I)
  <2>1. DOMAIN g = I
    OBVIOUS
  <2>2. SumFunction(g) = SumFunctionOnSet(g, DOMAIN g)
    BY DEF SumFunction
  <2>3. SumOf(r) = SumFunction(g)
    BY DEF SumOf
  <2>. HIDE DEF g
  <2>. QED
    BY <2>1, <2>2, <2>3
<1>. HIDE DEF I, f, g
<1>12. \A n \in I : IsFiniteSet(f[n])
  BY <1>7, FS_Subset
<1>13. SumFunctionOnSet(g, I) = Cardinality(rows)
  BY <1>6, <1>7, <1>8, <1>9, <1>10, <1>12, SumOfDisjoint, SMTT(60)
<1>. QED
  BY <1>11, <1>13

\* The days D of some rows, in order, and the number by which these are grouped:
\* it tells the days apart.
Numbered(rows, day, D, days, code, key) ==
    /\ IsFiniteSet(rows) /\ IsFiniteSet(D) /\ \A d \in D : d \in Int
    /\ \A i \in rows : day[i] \in D
    /\ \A d \in D : \E i \in rows : day[i] = d
    /\ days \in Enumerations(D) /\ \A i, j \in DOMAIN days : i < j => days[i] < days[j]
    /\ \A d \in D : code[d] \in Int
    /\ \A d, e \in D : code[d] = code[e] => d = e
    /\ \A i \in rows : key[i] = code[day[i]]

\* There is one group for each day; and if the number grows with the day, the
\* groups are in the order of the days.
LEMMA PerDay ==
    ASSUME NEW rows, NEW day, NEW D, NEW days, NEW code, NEW key,
           Numbered(rows, day, D, days, code, key),
           NEW r, r = InOrder(GroupedBy(rows, key))
    PROVE  /\ DOMAIN r = DOMAIN days /\ Len(r) = Len(days) /\ DOMAIN r = 1..Len(r)
           /\ r = [n \in DOMAIN r |-> r[n]]
           /\ (\A d, e \in D : d < e => code[d] < code[e]) =>
                \A n \in DOMAIN days :
                    r[n] = [key |-> code[days[n]], attempts |-> Rows(rows, day, days[n])]
<1>. DEFINE h == [d \in D |-> [key |-> code[d], attempts |-> Rows(rows, day, d)]]
<1>1. PICK G : G = GroupedBy(rows, key)
  OBVIOUS
<1>2. /\ IsFiniteSet(rows) /\ IsFiniteSet(D) /\ \A d \in D : d \in Int
      /\ \A i \in rows : day[i] \in D
      /\ \A d \in D : \E i \in rows : day[i] = d
      /\ days \in Enumerations(D) /\ \A i, j \in DOMAIN days : i < j => days[i] < days[j]
      /\ \A d \in D : code[d] \in Int
      /\ \A d, e \in D : code[d] = code[e] => d = e
      /\ \A i \in rows : key[i] = code[day[i]]
  BY DEF Numbered
<1>3. /\ Len(days) = Cardinality(D) /\ DOMAIN days = 1..Len(days) /\ Len(days) \in Nat
      /\ \A d \in D : \E n \in DOMAIN days : days[n] = d
      /\ \A n \in DOMAIN days : days[n] \in D
      /\ \A i, j \in DOMAIN days : days[i] = days[j] => i = j
  BY <1>2, Enumerated
<1>4. \A i \in rows : key[i] \in Int
  BY <1>2
<1>5. /\ IsFiniteSet(G)
      /\ \A x \in G : /\ x = [key |-> x.key, attempts |-> Rows(rows, key, x.key)]
                      /\ \E i \in rows : key[i] = x.key
      /\ \A i \in rows : \E x \in G : x.key = key[i]
      /\ \A x, y \in G : x.key = y.key => x = y
  BY <1>1, <1>2, Groups
<1>6. \A x \in G : x.key \in Int
  BY <1>4, <1>5
<1>7. /\ r \in Enumerations(G)
      /\ \A i, j \in DOMAIN r : i < j => r[i].key < r[j].key
  BY <1>1, <1>5, <1>6, InOrderSorts
<1>8. \A i \in rows : Rows(rows, key, key[i]) = Rows(rows, day, day[i])
  <2>. TAKE i \in rows
  <2>1. {j \in rows : key[j] = key[i]} = {j \in rows : day[j] = day[i]}
    BY <1>2
  <2>. QED
    BY <2>1 DEF Rows
<1>9. \A d \in D : h[d] \in G
  <2>. TAKE d \in D
  <2>1. PICK i \in rows : day[i] = d
    BY <1>2
  <2>2. PICK x \in G : x.key = key[i]
    BY <1>5
  <2>3. x = [key |-> key[i], attempts |-> Rows(rows, key, key[i])]
    BY <1>5, <2>2
  <2>4. key[i] = code[d]
    BY <1>2, <2>1
  <2>5. Rows(rows, key, key[i]) = Rows(rows, day, d)
    BY <1>8, <2>1
  <2>6. x = h[d]
    BY <2>3, <2>4, <2>5
  <2>. QED
    BY <2>6
<1>10. \A x \in G : \E d \in D : h[d] = x
  <2>. TAKE x \in G
  <2>1. PICK i \in rows : key[i] = x.key
    BY <1>5
  <2>2. PICK d \in D : d = day[i]
    BY <1>2
  <2>3. h[d] \in G /\ h[d].key = x.key
    BY <1>2, <1>9, <2>1, <2>2
  <2>. QED
    BY <1>5, <2>3
<1>11. \A d, e \in D : h[d] = h[e] => d = e
  <2>1. \A d \in D : h[d].key = code[d]
    OBVIOUS
  <2>. HIDE DEF h
  <2>. QED
    BY <1>2, <2>1
<1>12. Cardinality(D) = Cardinality(G)
  <2>1. h \in Bijection(D, G)
    <3>1. h \in [D -> G]
      BY <1>9
    <3>. HIDE DEF h
    <3>. QED
      BY <1>10, <1>11, <3>1 DEF Bijection, Injection, Surjection, IsInjective
  <2>2. ExistsBijection(D, G)
    BY <2>1 DEF ExistsBijection
  <2>. QED
    BY <1>2, <1>5, <2>2, FS_Bijection
<1>13. /\ Len(r) = Cardinality(G) /\ DOMAIN r = 1..Len(r)
       /\ \A x \in G : \E n \in DOMAIN r : r[n] = x
       /\ \A n \in DOMAIN r : r[n] \in G
       /\ \A m, n \in DOMAIN r : r[m] = r[n] => m = n
  BY <1>5, <1>7, Enumerated
<1>14. DOMAIN r = DOMAIN days /\ Len(r) = Len(days)
  BY <1>3, <1>12, <1>13
<1>15. ASSUME \A d, e \in D : d < e => code[d] < code[e], NEW m \in DOMAIN days
       PROVE  r[m] = [key |-> code[days[m]], attempts |-> Rows(rows, day, days[m])]
  <2>. DEFINE N == 1..Len(days)
              K == {x.key : x \in G}
              s == [n \in N |-> r[n].key]
              t == [n \in N |-> code[days[n]]]
  <2>1. /\ \A n \in N : r[n] \in G /\ days[n] \in D
        /\ \A x \in G : \E n \in N : r[n] = x
        /\ \A d \in D : \E n \in N : days[n] = d
    BY <1>3, <1>13, <1>14
  <2>2. \A d \in D : h[d] \in G /\ h[d].key = code[d]
    BY <1>9
  <2>3. \A x \in G : x.key \in K
    OBVIOUS
  <2>4. \A d \in D : code[d] \in K
    BY <2>2, <2>3
  <2>5. \A k \in K : \E x \in G : x.key = k
    OBVIOUS
  <2>6. \A k \in K : \E d \in D : code[d] = k
    <3>. TAKE k \in K
    <3>1. PICK x \in G : x.key = k
      BY <2>5
    <3>2. PICK d \in D : h[d] = x
      BY <1>10
    <3>. QED
      BY <2>2, <3>1, <3>2
  <2>7. K \in SUBSET Int
    BY <1>6
  <2>. HIDE DEF K, h
  <2>8. s \in Bijection(N, K)
    <3>1. s \in [N -> K]
      BY <2>1, <2>3
    <3>2. \A a, b \in N : s[a] = s[b] => a = b
      <4>1. \A a, b \in N : r[a].key = r[b].key => r[a] = r[b]
        BY <1>5, <2>1
      <4>2. \A a, b \in N : r[a] = r[b] => a = b
        BY <1>3, <1>13, <1>14
      <4>. QED
        BY <4>1, <4>2
    <3>3. \A k \in K : \E n \in N : s[n] = k
      <4>1. \A n \in N : s[n] = r[n].key
        OBVIOUS
      <4>. HIDE DEF s, N
      <4>. QED
        BY <2>1, <2>5, <4>1
    <3>. HIDE DEF s, N
    <3>. QED
      BY <3>1, <3>2, <3>3 DEF Bijection, Injection, Surjection, IsInjective
  <2>9. t \in Bijection(N, K)
    <3>1. t \in [N -> K]
      BY <2>1, <2>4
    <3>2. \A a, b \in N : t[a] = t[b] => a = b
      <4>1. \A a, b \in N : code[days[a]] = code[days[b]] => days[a] = days[b]
        BY <1>2, <2>1
      <4>2. \A a, b \in N : days[a] = days[b] => a = b
        BY <1>3
      <4>. QED
        BY <4>1, <4>2
    <3>3. \A k \in K : \E n \in N : t[n] = k
      <4>1. \A n \in N : t[n] = code[days[n]]
        OBVIOUS
      <4>. HIDE DEF t, N
      <4>. QED
        BY <2>1, <2>6, <4>1
    <3>. HIDE DEF t, N
    <3>. QED
      BY <3>1, <3>2, <3>3 DEF Bijection, Injection, Surjection, IsInjective
  <2>10. \A a, b \in N : a < b => s[a] < s[b]
    BY <1>3, <1>7, <1>14
  <2>11. \A a, b \in N : a < b => t[a] < t[b]
    BY <1>2, <1>3, <1>15, <2>1
  <2>12. s = t
    <3>1. PICK n \in Nat : n = Len(days)
      BY <1>3
    <3>2. N = 1..n
      BY <3>1
    <3>. HIDE DEF s, t, N
    <3>3. /\ s \in Bijection(1..n, K) /\ \A a, b \in 1..n : a < b => s[a] < s[b]
          /\ t \in Bijection(1..n, K) /\ \A a, b \in 1..n : a < b => t[a] < t[b]
      BY <2>8, <2>9, <2>10, <2>11, <3>2
    <3>. QED
      BY <2>7, <3>3, OneOrder
  <2>13. m \in N
    BY <1>3
  <2>14. r[m].key = code[days[m]]
    <3>1. s[m] = r[m].key /\ t[m] = code[days[m]]
      BY <2>13
    <3>. HIDE DEF s, t
    <3>. QED
      BY <2>12, <3>1
  <2>15. h[days[m]] = r[m]
    BY <1>5, <2>1, <2>2, <2>13, <2>14
  <2>. QED
    BY <2>1, <2>13, <2>15 DEF h
<1>16. r = [n \in DOMAIN r |-> r[n]]
  <2>1. r \in Seq(G)
    BY <1>5, <1>7, Enumerated
  <2>. QED
    BY <2>1
<1>. QED
  BY <1>13, <1>14, <1>15, <1>16

\* The blocks of the calendar month before this one, and no others.
LEMMA LastMonthTold == TablesInv => LastMonthShown
<1>. SUFFICES ASSUME TablesInv PROVE LastMonthShown
  OBVIOUS
<1>. DEFINE lastMonth == {n \in DOMAIN blocked : BlockRow(n).at \div Month = now \div Month - 1}
            theDays == DaysOf({BlockRow(n).at : n \in lastMonth})
            Shown(rows, days) ==
                GetBlocksPerDay = [n \in DOMAIN days |->
                    [key |-> days[n] % DaysPerMonth,
                     attempts |-> Cardinality({i \in rows : BlockRow(i).at \div Day = days[n]})]]
<1>1. LastMonthShown <=> Shown(lastMonth, theDays)
  BY Zenon DEF LastMonthShown
<1>. HIDE DEF lastMonth, theDays, Shown
<1>. SUFFICES ASSUME NEW rows, rows = lastMonth, NEW days, days = theDays
              PROVE  Shown(rows, days)
  BY <1>1
<1>. USE DEF lastMonth, theDays, Shown
<1>. DEFINE key == [n \in DOMAIN blocked |-> DayOfMonth(BlockRow(n).at)]
<1>2. PICK date : date = [i \in rows |-> BlockRow(i).at]
  OBVIOUS
<1>3. PICK D : D = Days(rows, date)
  OBVIOUS
<1>. DEFINE day == [i \in rows |-> date[i] \div Day]
            code == [d \in D |-> d % DaysPerMonth]
<1>4. /\ now \in Int /\ DOMAIN blocked = 1..Len(blocked) /\ IsFiniteSet(DOMAIN blocked)
      /\ \A n \in DOMAIN blocked : BlockRow(n).at \in Int
  <2>1. \A n \in DOMAIN blocked : blocked[n] \in DOMAIN attempts
    BY DEF TablesInv, OverviewTypeOK, Range
  <2>2. DOMAIN blocked = 1..Len(blocked) /\ Len(blocked) \in Nat
    BY DEF TablesInv
  <2>3. IsFiniteSet(DOMAIN blocked)
    <3>1. ASSUME NEW n \in Nat PROVE IsFiniteSet(1..n)
      BY FS_Interval
    <3>. QED
      BY <2>2, <3>1
  <2>4. now \in Int /\ \A i \in DOMAIN attempts : attempts[i].at \in Int
    BY Attempted
  <2>5. \A n \in DOMAIN blocked : BlockRow(n).at \in Int
    BY <2>1, <2>4 DEF BlockRow
  <2>. QED
    BY <2>2, <2>3, <2>4, <2>5
<1>5. rows \in SUBSET DOMAIN blocked
  OBVIOUS
<1>6. IsFiniteSet(rows) /\ \A i \in rows : date[i] \in Int
  BY <1>2, <1>4, <1>5, FS_Subset
<1>7. \A i \in rows : date[i] \div Month = now \div Month - 1
  BY <1>2
<1>8. rows = {n \in DOMAIN blocked : /\ MonthOfYear(BlockRow(n).at) = MonthOfYear(LastMonth)
                                      /\ YearOf(BlockRow(n).at) = YearOf(LastMonth)}
  BY <1>4, SameMonth
<1>9. GetBlocksPerDay = InOrder(GroupedBy(rows, key))
  BY <1>8 DEF GetBlocksPerDay, PerDayOfMonth
<1>10. days = DaysOf(Dates(rows, date))
  <2>1. Dates(rows, date) = {BlockRow(n).at : n \in rows}
    BY <1>2 DEF Dates
  <2>. QED
    BY <2>1
<1>11. /\ IsFiniteSet(D) /\ \A d \in D : d \in Int
       /\ days \in Enumerations(D)
       /\ \A i, j \in DOMAIN days : i < j => days[i] < days[j]
  <2>1. PICK s : s = DaysOf(Dates(rows, date))
    OBVIOUS
  <2>2. /\ IsFiniteSet(D) /\ \A d \in D : d \in Int
        /\ s \in Enumerations(D)
        /\ \A i, j \in DOMAIN s : i < j => s[i] < s[j]
    BY <1>6, <1>3, <2>1, DaysInOrder
  <2>. QED
    BY <1>10, <2>1, <2>2
<1>12. /\ \A i \in rows : day[i] \in D
       /\ \A d \in D : \E i \in rows : day[i] = d
  BY <1>3 DEF Days
<1>13. PICK k \in Int : \A d \in D : d % DaysPerMonth = d - k
  <2>1. PICK m \in Nat \ {0} : m = DaysPerMonth
    BY Clock
  <2>2. PICK q \in Int : q = now \div Month - 1
    BY <1>4, Calendar
  <2>3. ASSUME NEW d \in D PROVE d \div m = q /\ d \in Int
    <3>1. PICK i \in rows : d = date[i] \div Day
      BY <1>3 DEF Days
    <3>2. date[i] \in Int /\ date[i] \div Month = q
      BY <1>6, <1>7, <2>2
    <3>. QED
      BY <2>1, <3>1, <3>2, Calendar
  <2>4. ASSUME NEW d \in D PROVE d % m = d - m * q
    BY <2>3, Remainder
  <2>5. m * q \in Int
    OBVIOUS
  <2>. QED
    BY <2>1, <2>4, <2>5
<1>14. \A i \in rows : key[i] = code[day[i]]
  <2>1. \A i \in rows : key[i] = day[i] % DaysPerMonth
    BY <1>2, <1>5 DEF DayOfMonth
  <2>. HIDE DEF key, day
  <2>. QED
    BY <1>12, <2>1
<1>15. \A d \in D : code[d] = d - k /\ d \in Int
  BY <1>11, <1>13
<1>. HIDE DEF lastMonth, theDays, Shown
<1>16. PICK r : r = InOrder(GroupedBy(rows, key))
  OBVIOUS
<1>. HIDE DEF code, key, day
<1>17. /\ \A d \in D : code[d] \in Int
       /\ \A d, e \in D : code[d] = code[e] => d = e
       /\ \A d, e \in D : d < e => code[d] < code[e]
  BY <1>15
<1>18. Numbered(rows, day, D, days, code, key)
  BY <1>6, <1>11, <1>12, <1>14, <1>17 DEF Numbered
<1>19. /\ DOMAIN r = DOMAIN days /\ r = [n \in DOMAIN r |-> r[n]]
       /\ \A n \in DOMAIN days :
            r[n] = [key |-> code[days[n]], attempts |-> Rows(rows, day, days[n])]
  BY <1>16, <1>17, <1>18, PerDay
<1>20. \A n \in DOMAIN days : code[days[n]] = days[n] % DaysPerMonth
  <2>1. \A n \in DOMAIN days : days[n] \in D
    BY <1>11, Enumerated
  <2>. QED
    BY <2>1 DEF code
<1>21. \A d : Rows(rows, day, d) = Cardinality({i \in rows : BlockRow(i).at \div Day = d})
  <2>. TAKE d
  <2>1. {i \in rows : day[i] = d} = {i \in rows : BlockRow(i).at \div Day = d}
    BY <1>2 DEF day
  <2>. QED
    BY <2>1 DEF Rows
<1>22. r = [n \in DOMAIN days |->
            [key |-> days[n] % DaysPerMonth,
             attempts |-> Cardinality({i \in rows : BlockRow(i).at \div Day = days[n]})]]
  <2>1. r = [n \in DOMAIN days |-> r[n]]
    BY <1>19
  <2>2. \A n \in DOMAIN days : r[n] =
            [key |-> days[n] % DaysPerMonth,
             attempts |-> Cardinality({i \in rows : BlockRow(i).at \div Day = days[n]})]
    BY <1>19, <1>20, <1>21, Zenon
  <2>. QED
    BY <2>1, <2>2, Zenon
<1>. QED
  BY <1>9, <1>16, <1>22, Zenon DEF Shown

\* The numbers of the days of the last month are different, and grow with the days
\* unless a year begins among them.
LEMMA DaysNumbered ==
    ASSUME TablesInv, NEW D, D = Days(Window(LastMonth, Present), [i \in DOMAIN attempts |-> attempts[i].at]),
           NEW n, n = DaysPerMonth * MonthsPerYear
    PROVE  /\ n \in Nat \ {0}
           /\ \A d \in D : d \in Int /\ d % n \in Int
           /\ \A d, e \in D : d % n = e % n => d = e
           /\ YearOf(LastMonth) = YearOf(now) => \A d, e \in D : d < e => d % n < e % n
<1>1. /\ now \in Int /\ \A i \in DOMAIN attempts : attempts[i].at \in Int
  BY Attempted
<1>2. n \in Nat \ {0} /\ DaysPerMonth \in Nat /\ DaysPerMonth < n
  <2>1. /\ DaysPerMonth \in Nat \ {0} /\ MonthsPerYear \in Nat \ {0} /\ MonthsPerYear > 1
    BY Clock
  <2>2. PICK m \in Nat \ {0} : m = DaysPerMonth
    BY <2>1
  <2>3. PICK y \in Nat \ {0} : y = MonthsPerYear /\ 2 <= y
    BY <2>1
  <2>4. m * 2 <= m * y
    BY <2>3, Product
  <2>5. n = m * y /\ m * y \in Nat \ {0}
    BY <2>2, <2>3
  <2>. QED
    BY <2>2, <2>4, <2>5
<1>3. /\ LastMonth \in Int /\ LastMonth <= now
      /\ LastMonth \div Day = now \div Day - DaysPerMonth
  BY <1>1, MonthAgo
<1>4. PICK p \in Int : p = LastMonth \div Day
  BY <1>3, Calendar
<1>5. ASSUME NEW d \in D
      PROVE  \E t \in Int : d = t \div Day /\ LastMonth <= t /\ t <= now
  <2>1. PICK i \in Window(LastMonth, Present) : d = attempts[i].at \div Day
    <3>1. PICK window : window = Window(LastMonth, Present) /\ window \subseteq DOMAIN attempts
      BY Attempted
    <3>2. PICK i \in window : d = attempts[i].at \div Day
      BY <3>1 DEF Days
    <3>. QED
      BY <3>1, <3>2
  <2>2. i \in DOMAIN attempts /\ attempts[i].at > LastMonth /\ attempts[i].at < now
    BY Attempted DEF Window, Present
  <2>3. PICK t \in Int : t = attempts[i].at
    BY <1>1, <2>2
  <2>. QED
    BY <1>1, <1>3, <2>1, <2>2, <2>3
<1>6. Day \in Nat \ {0}
  BY Clock
<1>7. ASSUME NEW d \in D PROVE d \in Int /\ p <= d /\ d <= p + DaysPerMonth
  <2>1. PICK t \in Int : d = t \div Day /\ LastMonth <= t /\ t <= now
    BY <1>5
  <2>2. d \in Int
    BY <2>1, Calendar
  <2>3. LastMonth \div Day <= d /\ d <= now \div Day
    BY <1>1, <1>3, <1>6, <2>1, QuotientGrows
  <2>4. now \div Day \in Int
    BY <1>1, Calendar
  <2>. QED
    BY <1>2, <1>3, <1>4, <2>2, <2>3, <2>4
<1>8. ASSUME NEW d \in D, NEW e \in D, d % n = e % n PROVE d = e
  <2>1. d \in Int /\ e \in Int /\ d - e < n /\ e - d < n
    BY <1>2, <1>4, <1>7
  <2>. QED
    BY <1>2, <1>8, <2>1, RemainderTells
<1>9. ASSUME YearOf(LastMonth) = YearOf(now), NEW d \in D, NEW e \in D, d < e
      PROVE  d % n < e % n
  <2>1. PICK y \in Int : y = YearOf(now)
    BY <1>1, Calendar DEF YearOf
  <2>2. ASSUME NEW x \in D PROVE x \in Int /\ x \div n = y
    <3>1. PICK t \in Int : x = t \div Day /\ LastMonth <= t /\ t <= now
      BY <1>5
    <3>2. x \div n = YearOf(t)
      BY <3>1, Calendar
    <3>3. YearOf(LastMonth) <= YearOf(t) /\ YearOf(t) <= YearOf(now)
      <4>1. PICK k \in Nat \ {0} : k = MonthsPerYear * Month
        <5>1. \A a, b \in Nat \ {0} : a * b \in Nat \ {0}
          OBVIOUS
        <5>. QED
          BY <5>1, Clock
      <4>. QED
        BY <1>1, <1>3, <3>1, <4>1, QuotientGrows DEF YearOf
    <3>4. YearOf(t) \in Int
      BY Calendar
    <3>5. x \in Int
      BY <3>1, Calendar
    <3>. QED
      BY <1>9, <2>1, <3>2, <3>3, <3>4, <3>5
  <2>3. PICK k \in Int : k = n * y
    BY <1>2
  <2>4. ASSUME NEW x \in D PROVE x % n = x - k
    BY <1>2, <2>2, <2>3, Remainder
  <2>. QED
    BY <1>9, <2>2, <2>3, <2>4
<1>10. ASSUME NEW d \in D PROVE d % n \in Int
  BY <1>2, <1>7
<1>. QED
  BY <1>2, <1>7, <1>8, <1>9, <1>10

\* Every day of the last month has one point, and they are in the order of the
\* days unless a year begins among them.
LEMMA LastDaysTold == TablesInv => DaysTold
<1>. SUFFICES ASSUME TablesInv PROVE DaysTold
  OBVIOUS
<1>. DEFINE date == [i \in DOMAIN attempts |-> attempts[i].at]
            key == [i \in DOMAIN attempts |-> DayOfYear(attempts[i].at)]
            theDays == DaysOf({attempts[i].at : i \in Window(LastMonth, Present)})
            Told(window, days) ==
                LET counts == [n \in DOMAIN days |->
                                Cardinality({i \in window : attempts[i].at \div Day = days[n]})]
                    points == [n \in DOMAIN GetAttemptsPerDay |-> GetAttemptsPerDay[n].attempts]
                IN  /\ Len(points) = Len(days)
                    /\ SumOf(GetAttemptsPerDay) = Cardinality(window)
                    /\ YearOf(LastMonth) = YearOf(now) => points = counts
<1>1. Told(Window(LastMonth, Present), theDays) => DaysTold
  BY Zenon DEF DaysTold
<1>2. PICK window : window = Window(LastMonth, Present)
  OBVIOUS
<1>3. PICK D : D = Days(window, date)
  OBVIOUS
<1>4. PICK days : days = theDays
  OBVIOUS
<1>5. PICK p : p = DaysPerMonth * MonthsPerYear
  OBVIOUS
<1>6. PICK r : r = GetAttemptsPerDay
  OBVIOUS
<1>. DEFINE day == [i \in window |-> date[i] \div Day]
            code == [d \in D |-> d % p]
<1>. HIDE DEF theDays, Told
<1>7. /\ IsFiniteSet(window) /\ window \subseteq DOMAIN attempts
      /\ \A i \in DOMAIN attempts : date[i] \in Int /\ date[i] = attempts[i].at
  BY <1>2, Attempted
<1>8. /\ \A d \in D : d \in Int /\ d % p \in Int
      /\ \A d, e \in D : d % p = e % p => d = e
      /\ YearOf(LastMonth) = YearOf(now) => \A d, e \in D : d < e => d % p < e % p
  BY <1>2, <1>3, <1>5, DaysNumbered
<1>9. days = DaysOf(Dates(window, date))
  <2>1. Dates(window, date) = {attempts[i].at : i \in Window(LastMonth, Present)}
    BY <1>2, <1>7 DEF Dates
  <2>. QED
    BY <1>4, <2>1 DEF theDays
<1>10. \A i \in window : date[i] \in Int
  BY <1>7
<1>11. \A i \in window : day[i] \in D /\ day[i] = attempts[i].at \div Day
  BY <1>3, <1>7 DEF Days
<1>12. \A d \in D : \E i \in window : day[i] = d
  BY <1>3 DEF Days
<1>13. \A i \in window : key[i] = day[i] % p
  BY <1>5, <1>7, <1>11 DEF DayOfYear
<1>14. \A d \in D : code[d] = d % p
  OBVIOUS
<1>15. r = InOrder(GroupedBy(window, key))
  BY <1>2, <1>6 DEF GetAttemptsPerDay, PerDayOf
<1>. HIDE DEF date, day, key, code
<1>16. /\ IsFiniteSet(D) /\ days \in Enumerations(D)
       /\ \A i, j \in DOMAIN days : i < j => days[i] < days[j]
  <2>1. PICK s : s = DaysOf(Dates(window, date))
    OBVIOUS
  <2>2. /\ IsFiniteSet(D)
        /\ s \in Enumerations(D)
        /\ \A i, j \in DOMAIN s : i < j => s[i] < s[j]
    BY <1>3, <1>7, <1>10, <2>1, DaysInOrder
  <2>. QED
    BY <1>9, <2>1, <2>2
<1>17. \A i \in window : key[i] = code[day[i]] /\ key[i] \in Int
  BY <1>8, <1>11, <1>13, <1>14
<1>18. /\ \A d \in D : code[d] \in Int
       /\ \A d, e \in D : code[d] = code[e] => d = e
  BY <1>8, <1>14
<1>19. Numbered(window, day, D, days, code, key)
  BY <1>7, <1>8, <1>11, <1>12, <1>16, <1>17, <1>18 DEF Numbered
<1>20. /\ DOMAIN r = DOMAIN days /\ Len(r) = Len(days) /\ DOMAIN r = 1..Len(r)
       /\ (\A d, e \in D : d < e => code[d] < code[e]) =>
            \A n \in DOMAIN days :
                r[n] = [key |-> code[days[n]], attempts |-> Rows(window, day, days[n])]
  BY <1>15, <1>19, PerDay
<1>21. SumOf(r) = Cardinality(window)
  BY <1>7, <1>15, <1>17, GroupSum
<1>. DEFINE points == [n \in DOMAIN r |-> r[n].attempts]
            counts == [n \in DOMAIN days |->
                        Cardinality({i \in window : attempts[i].at \div Day = days[n]})]
<1>22. Len(points) = Len(days)
  <2>1. Len(r) \in Nat
    <3>1. Len(days) \in Nat
      BY <1>16, Enumerated
    <3>. QED
      BY <1>20, <3>1
  <2>. QED
    BY <1>20, <2>1
<1>23. ASSUME YearOf(LastMonth) = YearOf(now) PROVE points = counts
  <2>1. \A d, e \in D : d < e => code[d] < code[e]
    BY <1>8, <1>14, <1>23
  <2>2. \A n \in DOMAIN days : r[n].attempts = Rows(window, day, days[n])
    BY <1>20, <2>1
  <2>3. ASSUME NEW d
        PROVE  Rows(window, day, d) = Cardinality({i \in window : attempts[i].at \div Day = d})
    <3>1. {i \in window : day[i] = d} = {i \in window : attempts[i].at \div Day = d}
      BY <1>11
    <3>. QED
      BY <3>1 DEF Rows
  <2>4. points = [n \in DOMAIN days |-> r[n].attempts]
    BY <1>20, Zenon
  <2>. QED
    BY <2>2, <2>3, <2>4, Zenon
<1>24. Told(window, days)
  BY <1>6, <1>21, <1>22, <1>23, Zenon DEF Told
<1>. QED
  BY <1>1, <1>2, <1>4, <1>24

=============================================================================
