-------------------------- MODULE LiveReportProofs --------------------------
(***************************************************************************)
(* Theorems about LiveReport, for any number of reports, pages, dropped    *)
(* connections and failed starts.                                          *)
(***************************************************************************)
EXTENDS LiveReport, FiniteSetTheorems, SequenceTheorems, TLAPS

\* The calls of Configure that made their connection, and all lost reports.
Built == {c \in Callers :
             pc[c] \in {"subscribing", "starting", "waiting", "awaiting", "configured", "lost"}}

\* Connections exist once they are used, and a call of Configure pays for each.
HubInv ==
    /\ hub <= Cardinality(Built)
    /\ \A h \in Hubs : link[h] # "disconnected" \/ waiting[h] > 0 => h <= hub
    /\ delayed > 0 => hub # 0
    /\ \A c \in Callers :
        /\ target[c] <= hub
        /\ pc[c] \in {"subscribing", "starting"} => hub # 0
        /\ pc[c] \in {"invoking", "sent", "sending", "waiting", "awaiting"} => target[c] # 0
    /\ \A r \in Reports : pc[r] \in Configuring \cup {"recovering"} => target[r] # 0

\* While there is no trouble, a set flag is going to be reset: by the Configure
\* that makes the next connection, or by one that starts the present one.
Resetting(c) ==
    \/ pc[c] = "building"
    \/ pc[c] \in {"subscribing", "starting"} /\ link[hub] = "disconnected"
    \/ pc[c] = "awaiting" /\ target[c] = hub

FlagInv ==
    /\ delayed > 0 => Trouble
    /\ \A h \in Hubs : waiting[h] > 0 => Trouble
    /\ failedReconfigure => Trouble \/ \E c \in Callers : Resetting(c)

\* A report that read Hub after its start had begun finds the connection active
\* as long as there is no trouble.
CauseInv ==
    \A r \in Reports : target[r] # 0 => \/ Trouble \/ r \in early
                                        \/ /\ pc[r] \notin Configuring \cup {"recovering", "lost"}
                                           /\ pc[r] = "invoking" => link[target[r]] # "disconnected"

\* What is on its way to the hub was sent, on that connection and once, so that
\* no report is both delivered and lost.
WireInv ==
    \A h \in Hubs :
        /\ \A i, j \in 1..Len(wire[h]) : wire[h][i] = wire[h][j] => i = j
        /\ \A i \in 1..Len(wire[h]) :
            pc[wire[h][i]] = "sent" /\ target[wire[h][i]] = h

LiveInv == TypeOK /\ HubInv /\ FlagInv /\ CauseInv /\ WireInv

----------------------------------------------------------------------------
\* There is one connection more than there are reports.
LEMMA HubsCount ==
    /\ IsFiniteSet(Callers) /\ Cardinality(Callers) = Cardinality(Hubs)
    /\ Cardinality(Hubs) \in Nat
    /\ Hubs = 1..Cardinality(Hubs)
<1>1. Cardinality(Reports) \in Nat
  BY ReportsAssumption, FS_CardinalityType
<1>2. Cardinality(1..(Cardinality(Reports) + 1)) = Cardinality(Reports) + 1
  BY <1>1, FS_Interval
<1>3. IsFiniteSet(Callers) /\ Cardinality(Callers) = Cardinality(Reports) + 1
  BY ReportsAssumption, LoadingAssumption, FS_AddElement DEF Callers
<1>. QED
  BY <1>1, <1>2, <1>3 DEF Hubs

\* A caller that is not in Built leaves room for one more connection.
LEMMA BuiltCount ==
    ASSUME NEW S \in SUBSET Callers
    PROVE  /\ Cardinality(S) \in Nat
           /\ \A T \in SUBSET Callers : S \subseteq T => Cardinality(S) <= Cardinality(T)
           /\ \A c \in Callers \ S :
                /\ Cardinality(S \cup {c}) = Cardinality(S) + 1
                /\ Cardinality(S) + 1 <= Cardinality(Hubs)
<1>1. \A T \in SUBSET Callers : IsFiniteSet(T) /\ Cardinality(T) \in Nat
  BY HubsCount, FS_Subset, FS_CardinalityType
<1>2. \A T \in SUBSET Callers : S \subseteq T => Cardinality(S) <= Cardinality(T)
  BY <1>1, FS_Subset
<1>3. ASSUME NEW c \in Callers \ S
      PROVE  /\ Cardinality(S \cup {c}) = Cardinality(S) + 1
             /\ Cardinality(S) + 1 <= Cardinality(Hubs)
  <2>1. Cardinality(S \cup {c}) = Cardinality(S) + 1
    BY <1>1, FS_AddElement
  <2>2. Cardinality(S \cup {c}) <= Cardinality(Callers)
    BY HubsCount, FS_Subset
  <2>. QED
    BY <2>1, <2>2, HubsCount
<1>. QED
  BY <1>1, <1>2, <1>3

----------------------------------------------------------------------------
\* Places in a sequence

\* What the columns of pages hold.
CardSet == Reports \cup {Loading}

\* No element comes twice in a sequence.
Distinct(s) == \A i, j \in 1..Len(s) : s[i] = s[j] => i = j

LEMMA AppendPlaces ==
    ASSUME NEW s \in Seq(Reports), NEW e \in Reports, NEW r, NEW t
    PROVE  /\ In(Append(s, e), r) <=> In(s, r) \/ r = e
           /\ After(Append(s, e), r, t) <=> After(s, r, t) \/ (r = e /\ In(s, t))
           /\ Distinct(s) /\ ~In(s, e) => Distinct(Append(s, e))
<1>. DEFINE a == Append(s, e)
            n == Len(s)
<1>1. /\ n \in Nat /\ DOMAIN s = 1..n /\ DOMAIN a = 1..n + 1
      /\ \A i \in 1..n : a[i] = s[i]
      /\ a[n + 1] = e /\ Len(a) = n + 1
  BY AppendProperties
<1>. HIDE DEF a, n
<1>2. \A i \in 1..n + 1 : i \in 1..n \/ i = n + 1
  BY <1>1
<1>3. 1..n \subseteq 1..n + 1 /\ n + 1 \in 1..n + 1 /\ \A i \in 1..n : i < n + 1
  BY <1>1
<1>4. In(a, r) <=> In(s, r) \/ r = e
  BY <1>1, <1>2, <1>3, Zenon DEF In
<1>5. ASSUME After(a, r, t) PROVE After(s, r, t) \/ (r = e /\ In(s, t))
  <2>1. PICK i \in 1..n + 1, j \in 1..n + 1 : i < j /\ a[i] = t /\ a[j] = r
    BY <1>1, <1>5 DEF After
  <2>2. i \in 1..n
    BY <1>1, <2>1
  <2>3. CASE j \in 1..n
    BY <1>1, <2>1, <2>2, <2>3 DEF After
  <2>4. CASE j = n + 1
    BY <1>1, <2>1, <2>2, <2>4 DEF In
  <2>. QED
    BY <1>2, <2>3, <2>4
<1>6. ASSUME After(s, r, t) PROVE After(a, r, t)
  <2>1. PICK i \in 1..n, j \in 1..n : i < j /\ s[i] = t /\ s[j] = r
    BY <1>1, <1>6 DEF After
  <2>. QED
    BY <1>1, <1>3, <2>1 DEF After
<1>7. ASSUME r = e, In(s, t) PROVE After(a, r, t)
  <2>1. PICK i \in 1..n : s[i] = t
    BY <1>1, <1>7 DEF In
  <2>. QED
    BY <1>1, <1>3, <1>7, <2>1 DEF After
<1>8. ASSUME Distinct(s), ~In(s, e) PROVE Distinct(a)
  <2>1. \A i \in 1..n : s[i] # e
    BY <1>1, <1>8 DEF In
  <2>2. \A i, j \in 1..n : s[i] = s[j] => i = j
    BY <1>8 DEF Distinct, n
  <2>. QED
    BY <1>1, <1>2, <2>1, <2>2 DEF Distinct
<1>. QED
  BY <1>4, <1>5, <1>6, <1>7, <1>8 DEF a

LEMMA TailPlaces ==
    ASSUME NEW s \in Seq(Reports), s # << >>, NEW r, NEW t
    PROVE  /\ In(s, r) <=> r = Head(s) \/ In(Tail(s), r)
           /\ After(s, r, t) <=> After(Tail(s), r, t) \/ (t = Head(s) /\ In(Tail(s), r))
           /\ Distinct(s) => Distinct(Tail(s)) /\ ~In(Tail(s), Head(s))
           /\ Tail(s) \in Seq(Reports) /\ Head(s) \in Reports
<1>. DEFINE a == Tail(s)
            n == Len(s)
<1>0. a \in Seq(Reports) /\ Len(a) = n - 1 /\ Head(s) \in Reports
  BY HeadTailProperties
<1>1. /\ n \in Nat /\ n # 0 /\ DOMAIN s = 1..n /\ DOMAIN a = 1..n - 1
      /\ \A i \in 1..n - 1 : a[i] = s[i + 1]
      /\ s[1] = Head(s)
  <2>1. Tail(s) \in Seq(Reports) /\ Len(Tail(s)) = n - 1
    BY HeadTailProperties
  <2>. QED
    BY <2>1, HeadTailProperties
<1>. HIDE DEF a, n
<1>2. \A i \in 1..n : i = 1 \/ (i - 1 \in 1..n - 1 /\ s[i] = a[i - 1])
  <2>1. \A i \in 1..n : i = 1 \/ (i - 1 \in 1..n - 1 /\ (i - 1) + 1 = i)
    BY <1>1
  <2>. QED
    BY <1>1, <2>1
<1>3. 1 \in 1..n /\ \A i \in 1..n - 1 : i + 1 \in 1..n /\ 1 < i + 1
  BY <1>1
<1>4. In(s, r) <=> r = Head(s) \/ In(a, r)
  BY <1>1, <1>2, <1>3 DEF In
<1>5. ASSUME After(s, r, t) PROVE After(a, r, t) \/ (t = Head(s) /\ In(a, r))
  <2>1. PICK i \in 1..n, j \in 1..n : i < j /\ s[i] = t /\ s[j] = r
    BY <1>1, <1>5 DEF After
  <2>2. j - 1 \in 1..n - 1 /\ r = a[j - 1]
    BY <1>2, <2>1
  <2>3. CASE i = 1
    BY <1>1, <2>1, <2>2, <2>3 DEF In
  <2>4. CASE i - 1 \in 1..n - 1 /\ s[i] = a[i - 1]
    <3>1. i - 1 < j - 1
      BY <2>1
    <3>. QED
      BY <1>1, <2>1, <2>2, <2>4, <3>1 DEF After
  <2>. QED
    BY <1>2, <2>3, <2>4
<1>6. ASSUME After(a, r, t) PROVE After(s, r, t)
  <2>1. PICK i \in 1..n - 1, j \in 1..n - 1 : i < j /\ a[i] = t /\ a[j] = r
    BY <1>1, <1>6 DEF After
  <2>2. i + 1 < j + 1
    BY <2>1
  <2>. QED
    BY <1>1, <1>3, <2>1, <2>2 DEF After
<1>7. ASSUME t = Head(s), In(a, r) PROVE After(s, r, t)
  <2>1. PICK i \in 1..n - 1 : a[i] = r
    BY <1>1, <1>7 DEF In
  <2>. QED
    BY <1>1, <1>3, <1>7, <2>1 DEF After
<1>8. ASSUME Distinct(s) PROVE Distinct(a) /\ ~In(a, Head(s))
  <2>1. \A i, j \in 1..n : s[i] = s[j] => i = j
    BY <1>8 DEF Distinct, n
  <2>2. \A i, j \in 1..n - 1 : a[i] = a[j] => i + 1 = j + 1
    BY <1>1, <1>3, <2>1
  <2>3. \A i \in 1..n - 1 : a[i] # Head(s)
    BY <1>1, <1>3, <2>1
  <2>. QED
    BY <1>0, <1>1, <2>2, <2>3 DEF Distinct, In
<1>. QED
  BY <1>0, <1>4, <1>5, <1>6, <1>7, <1>8 DEF a

\* The first report finds no card, and every column of cards is left as it is.
LEMMA ClearedPlaces ==
    ASSUME NEW cards \in Seq(CardSet), NEW x \in Reports, NEW y
    PROVE  /\ Cleared(cards) \in Seq(CardSet)
           /\ In(Cleared(cards), x) <=> In(cards, x)
           /\ After(Cleared(cards), y, x) <=> After(cards, y, x)
           /\ Distinct(cards) => Distinct(Cleared(cards))
<1>1. CASE cards = <<Loading>>
  <2>1. Cleared(cards) = << >> /\ << >> \in Seq(CardSet)
    BY <1>1 DEF Cleared
  <2>2. Len(cards) = 1 /\ DOMAIN cards = 1..1 /\ cards[1] = Loading
    BY <1>1
  <2>3. Loading # x /\ \A i \in 1..1 : i = 1
    BY LoadingAssumption
  <2>4. ~In(cards, x)
    BY <2>2, <2>3 DEF In
  <2>5. ~After(cards, y, x)
    BY <2>2, <2>3 DEF After
  <2>6. DOMAIN << >> = {}
    OBVIOUS
  <2>7. ~In(<< >>, x) /\ ~After(<< >>, y, x) /\ Distinct(<< >>)
    BY <2>6 DEF In, After, Distinct
  <2>. QED
    BY <2>1, <2>4, <2>5, <2>7
<1>2. CASE cards # <<Loading>>
  BY <1>2 DEF Cleared
<1>. QED
  BY <1>1, <1>2

\* A card goes on top, the others move down, the last one may go.
LEMMA InsertCardElements ==
    ASSUME NEW cards \in Seq(CardSet), Len(cards) \in 1..MaxLength, NEW r \in Reports
    PROVE  LET new == InsertCard(cards, r)
               old == Cleared(cards)
           IN  /\ new \in Seq(CardSet) /\ Len(new) \in 1..MaxLength
               /\ new[1] = r
               /\ \A i \in 1..Len(new) : i # 1 => i - 1 \in 1..Len(old) /\ new[i] = old[i - 1]
<1>. DEFINE c == Cleared(cards)
            grown == <<r>> \o c
            new == InsertCard(cards, r)
<1>0. MaxLength \in Nat \ {0} /\ Len(cards) \in Nat /\ MaxLength \in Int /\ 1 \in Int
  BY LengthAssumption
<1>1. c \in Seq(CardSet) /\ Len(c) \in 0..MaxLength
  BY <1>0 DEF Cleared
<1>2. <<r>> \in Seq(CardSet) /\ Len(<<r>>) = 1 /\ <<r>>[1] = r
  BY DEF CardSet
<1>. HIDE DEF c
<1>3. /\ grown \in Seq(CardSet) /\ Len(grown) = Len(c) + 1 /\ grown[1] = r
      /\ \A i \in 1..Len(grown) : i # 1 => i - 1 \in 1..Len(c) /\ grown[i] = c[i - 1]
  <2>1. grown \in Seq(CardSet) /\ Len(grown) = Len(<<r>>) + Len(c)
    BY <1>1, <1>2, ConcatProperties
  <2>2. \A i \in 1..Len(<<r>>) + Len(c) :
            grown[i] = IF i <= Len(<<r>>) THEN <<r>>[i] ELSE c[i - Len(<<r>>)]
    BY <1>1, <1>2, ConcatProperties
  <2>3. 1 \in 1..1 + Len(c) /\ \A i \in 1..1 + Len(c) : i # 1 => i - 1 \in 1..Len(c) /\ ~(i <= 1)
    BY <1>1
  <2>. HIDE DEF grown
  <2>. QED
    BY <1>1, <1>2, <2>1, <2>2, <2>3
<1>4. new = IF Len(grown) > MaxLength THEN RemoveAt(grown, MaxLength + 1) ELSE grown
  BY DEF InsertCard, c
<1>. HIDE DEF grown, new
<1>5. /\ new \in Seq(CardSet) /\ Len(new) \in 1..MaxLength /\ Len(new) <= Len(grown)
      /\ \A i \in 1..Len(new) : new[i] = grown[i]
  <2>1. CASE Len(grown) > MaxLength
    <3>1. Len(grown) = MaxLength + 1
      BY <1>0, <1>1, <1>3, <2>1
    <3>0. (MaxLength + 1) - 1 = MaxLength /\ MaxLength + 1 + 1 = MaxLength + 2
      BY <1>0
    <3>2. RemoveAt(grown, MaxLength + 1) =
              SubSeq(grown, 1, (MaxLength + 1) - 1) \o SubSeq(grown, MaxLength + 1 + 1, Len(grown))
      BY DEF RemoveAt
    <3>. DEFINE u == SubSeq(grown, 1, MaxLength)
    <3>3. u \in Seq(CardSet) /\ Len(u) = MaxLength /\ \A i \in 1..MaxLength : u[i] = grown[i]
      <4>1. \A i \in 1..MaxLength : grown[i] \in CardSet
        BY <1>0, <1>3, <3>1
      <4>2. /\ u \in Seq(CardSet)
            /\ Len(u) = IF 1 <= MaxLength THEN MaxLength - 1 + 1 ELSE 0
            /\ \A i \in 1..MaxLength - 1 + 1 : u[i] = grown[1 + i - 1]
        BY <1>0, <1>3, <4>1, SubSeqProperties
      <4>3. MaxLength - 1 + 1 = MaxLength /\ \A i \in 1..MaxLength : 1 + i - 1 = i
        BY <1>0
      <4>. HIDE DEF u
      <4>. QED
        BY <1>0, <4>2, <4>3
    <3>4. SubSeq(grown, MaxLength + 2, MaxLength + 1) = << >>
      BY <1>0, <1>3, <3>1, SubSeqEmpty
    <3>5. new = u
      BY <1>4, <2>1, <3>0, <3>1, <3>2, <3>3, <3>4, ConcatEmptySeq
    <3>. HIDE DEF u
    <3>. QED
      BY <1>0, <3>1, <3>3, <3>5
  <2>2. CASE ~(Len(grown) > MaxLength)
    BY <1>0, <1>1, <1>3, <1>4, <2>2
  <2>. QED
    BY <2>1, <2>2
<1>6. 1 \in 1..Len(new) /\ 1..Len(new) \subseteq 1..Len(grown)
  BY <1>0, <1>1, <1>3, <1>5
<1>7. new[1] = r
  BY <1>3, <1>5, <1>6
<1>8. \A i \in 1..Len(new) : i # 1 => i - 1 \in 1..Len(c) /\ new[i] = c[i - 1]
  BY <1>3, <1>5, <1>6
<1>. QED
  BY <1>5, <1>7, <1>8 DEF new, c

\* What a column shows, and in which order, when a card is inserted.
LEMMA InsertCardPlaces ==
    ASSUME NEW cards \in Seq(CardSet), Len(cards) \in 1..MaxLength, Distinct(cards),
           NEW r \in Reports, ~In(cards, r)
    PROVE  LET new == InsertCard(cards, r)
           IN  /\ Distinct(new) /\ In(new, r)
               /\ \A x \in Reports : In(new, x) => x = r \/ In(cards, x)
               /\ \A x \in Reports : In(new, x) /\ x # r => After(new, x, r)
               /\ \A x, y \in Reports : After(new, x, y) =>
                      After(cards, x, y) \/ (y = r /\ In(cards, x))
               /\ \A x, y \in Reports : In(new, x) /\ x # r /\ After(cards, x, y) => After(new, x, y)
<1>. DEFINE c == Cleared(cards)
            new == InsertCard(cards, r)
            n == Len(new)
<1>1. /\ c \in Seq(CardSet) /\ Distinct(c)
      /\ \A x \in Reports : In(c, x) <=> In(cards, x)
      /\ \A x \in Reports, y \in Reports : After(c, y, x) <=> After(cards, y, x)
  BY ClearedPlaces
<1>2. /\ new \in Seq(CardSet) /\ n \in 1..MaxLength /\ n \in Nat /\ new[1] = r
      /\ \A i \in 1..n : i # 1 => i - 1 \in 1..Len(c) /\ new[i] = c[i - 1]
  BY InsertCardElements
<1>3. DOMAIN c = 1..Len(c) /\ DOMAIN new = 1..n /\ Len(c) \in Nat
  BY <1>1, <1>2
<1>. HIDE DEF c, new, n
<1>4. \A i \in 1..n : i # 1 => new[i] # r /\ In(c, new[i])
  BY <1>1, <1>2, <1>3 DEF In
<1>5. 1 \in 1..n /\ \A i \in 1..n : i # 1 => 1 < i
  BY <1>2
<1>6. Distinct(new)
  <2>. SUFFICES ASSUME NEW i \in 1..n, NEW j \in 1..n, new[i] = new[j] PROVE i = j
    BY DEF Distinct, n
  <2>1. CASE i = 1 \/ j = 1
    BY <1>2, <1>4, <2>1
  <2>2. CASE i # 1 /\ j # 1
    <3>1. i - 1 = j - 1
      BY <1>1, <1>2, <2>2 DEF Distinct
    <3>. QED
      BY <3>1
  <2>. QED
    BY <2>1, <2>2
<1>7. In(new, r)
  BY <1>2, <1>3, <1>5 DEF In
<1>8. ASSUME NEW x \in Reports, In(new, x)
      PROVE  /\ x = r \/ In(cards, x)
             /\ x # r => After(new, x, r)
  <2>1. PICK i \in 1..n : new[i] = x
    BY <1>3, <1>8 DEF In
  <2>2. CASE i = 1
    BY <1>2, <2>1, <2>2
  <2>3. CASE i # 1
    <3>1. In(c, x)
      BY <1>4, <2>1, <2>3
    <3>. QED
      BY <1>1, <1>2, <1>3, <1>5, <2>1, <2>3, <3>1 DEF After
  <2>. QED
    BY <2>2, <2>3
<1>9. ASSUME NEW x \in Reports, NEW y \in Reports, After(new, x, y)
      PROVE  After(cards, x, y) \/ (y = r /\ In(cards, x))
  <2>1. PICK i \in 1..n, j \in 1..n : i < j /\ new[i] = y /\ new[j] = x
    BY <1>3, <1>9 DEF After
  <2>2. j # 1 /\ In(c, x) /\ j - 1 \in 1..Len(c) /\ c[j - 1] = x
    BY <1>2, <1>4, <2>1
  <2>3. CASE i = 1
    BY <1>1, <1>2, <2>1, <2>2, <2>3
  <2>4. CASE i # 1
    <3>1. i - 1 \in 1..Len(c) /\ c[i - 1] = y /\ i - 1 < j - 1
      BY <1>2, <2>1, <2>4
    <3>2. After(c, x, y)
      BY <1>3, <2>2, <3>1 DEF After
    <3>. QED
      BY <1>1, <3>2
  <2>. QED
    BY <2>3, <2>4
<1>10. ASSUME NEW x \in Reports, NEW y \in Reports, In(new, x), x # r, After(cards, x, y)
       PROVE  After(new, x, y)
  <2>1. PICK i \in 1..Len(c), j \in 1..Len(c) : i < j /\ c[i] = y /\ c[j] = x
    BY <1>1, <1>3, <1>10 DEF After
  <2>2. PICK k \in 1..n : new[k] = x
    BY <1>3, <1>10 DEF In
  <2>3. k # 1 /\ k - 1 \in 1..Len(c) /\ c[k - 1] = x
    BY <1>2, <1>10, <2>2
  <2>4. k - 1 = j
    BY <1>1, <2>1, <2>3 DEF Distinct
  <2>5. i + 1 \in 1..n /\ i + 1 # 1 /\ i + 1 < k /\ (i + 1) - 1 = i
    BY <1>2, <1>3, <2>1, <2>2, <2>4
  <2>6. new[i + 1] = y
    BY <1>2, <2>1, <2>5
  <2>. QED
    BY <1>3, <2>2, <2>5, <2>6 DEF After
<1>. QED
  BY <1>6, <1>7, <1>8, <1>9, <1>10 DEF new

----------------------------------------------------------------------------
\* Type correctness

PcSet == Configuring \cup {"idle", "invoking", "recovering", "sent", "sending",
                           "delivered", "lost", "configured"}

LEMMA InitLiveInv == Init => LiveInv
<1>. SUFFICES ASSUME Init PROVE LiveInv
  OBVIOUS
<1>0. {MaxDrops, MaxFailures, MaxStale} \subseteq Nat /\ MaxLength \in Nat \ {0}
  BY BoundsAssumption, LengthAssumption
<1>1. TypeOK
  <2>1. <<Loading>> \in Seq(Reports \cup {Loading}) /\ Len(<<Loading>>) = 1
    OBVIOUS
  <2>2. column \in [Pages -> [Kinds -> Seq(Reports \cup {Loading})]]
    BY <2>1 DEF Init
  <2>3. \A p \in Pages, k \in Kinds : Len(column[p][k]) \in 1..MaxLength
    BY <1>0, <2>1 DEF Init
  <2>4. 0 \in 0..Cardinality(Hubs)
    BY HubsCount
  <2>5. wire \in [Hubs -> Seq(Reports)] /\ inbox \in [Pages -> Seq(Reports)]
    BY DEF Init
  <2>6. pc \in [Callers -> PcSet]
    BY DEF Init, PcSet, Configuring
  <2>7. /\ link \in [Hubs -> {"disconnected", "connecting", "connected"}]
        /\ waiting \in [Hubs -> Nat] /\ handlers \in [Hubs -> Nat]
        /\ page \in [Pages -> {"closed", "open", "stale"}]
        /\ pending \in [Reports -> SUBSET Pages]
        /\ target \in [Callers -> 0..Cardinality(Hubs)]
    BY <1>0, <2>4 DEF Init
  <2>8. failedReconfigure \in BOOLEAN /\ early \subseteq Reports
    BY Zenon DEF Init
  <2>9. /\ hub \in 0..Cardinality(Hubs)
        /\ delayed \in Nat
        /\ drops \in 0..MaxDrops /\ failures \in 0..MaxFailures
    BY <1>0, <2>4 DEF Init
  <2>. QED
    BY <2>2, <2>3, <2>5, <2>6, <2>7, <2>8, <2>9 DEF TypeOK, PcSet
<1>2. HubInv
  <2>1. Cardinality(Built) \in Nat
    BY BuiltCount DEF Built
  <2>. QED
    BY <1>0, <2>1, LoadingAssumption DEF Init, HubInv, Configuring, Callers
<1>3. CauseInv /\ FlagInv /\ WireInv
  BY DEF Init, CauseInv, FlagInv, WireInv, Callers
<1>. QED
  BY <1>1, <1>2, <1>3 DEF LiveInv

\* The state in arithmetic the provers can use.
LEMMA HubTypes ==
    ASSUME TypeOK
    PROVE  /\ hub \in Nat /\ Hubs \subseteq Nat \ {0} /\ hub \in Hubs \cup {0}
           /\ \A c \in Callers : target[c] \in Nat /\ target[c] \in Hubs \cup {0}
           /\ drops \in Nat /\ failures \in Nat /\ delayed \in Nat
           /\ \A h \in Hubs : waiting[h] \in Nat
<1>. DEFINE n == Cardinality(Hubs)
<1>1. n \in Nat /\ Hubs = 1..n
  BY HubsCount
<1>2. hub \in 0..n /\ \A c \in Callers : target[c] \in 0..n
  BY DEF TypeOK
<1>. HIDE DEF n
<1>3. \A k \in 0..n : k \in Nat /\ k \in 1..n \cup {0}
  BY <1>1
<1>4. Hubs \subseteq Nat \ {0}
  BY <1>1
<1>. QED
  BY <1>1, <1>2, <1>3, <1>4, BoundsAssumption DEF TypeOK

\* The connections that a step uses exist.
LEMMA HubsUsed ==
    ASSUME TypeOK, HubInv
    PROVE  /\ \A c \in Callers :
                /\ pc[c] \in {"subscribing", "starting"} => hub \in Hubs
                /\ pc[c] \in {"invoking", "sent", "sending", "waiting", "awaiting"} =>
                       target[c] \in Hubs
           /\ delayed > 0 => hub \in Hubs
BY HubTypes DEF HubInv

LEMMA BuildRoom ==
    ASSUME TypeOK, HubInv, NEW c \in Callers, pc[c] = "building"
    PROVE  hub + 1 \in Hubs /\ hub + 1 \in 0..Cardinality(Hubs)
<1>1. Built \in SUBSET Callers /\ c \in Callers \ Built
  BY DEF Built
<1>2. Cardinality(Built) \in Nat /\ Cardinality(Built) + 1 <= Cardinality(Hubs)
  BY <1>1, BuiltCount
<1>3. hub \in Nat /\ hub <= Cardinality(Built) /\ Cardinality(Hubs) \in Nat
  BY HubTypes, HubsCount DEF HubInv
<1>4. hub + 1 \in 1..Cardinality(Hubs) /\ hub + 1 \in 0..Cardinality(Hubs)
  BY <1>2, <1>3
<1>. QED
  BY <1>4, HubsCount

LinkSet == {"disconnected", "connecting", "connected"}

LEMMA BegunType ==
    ASSUME TypeOK, NEW h \in Hubs
    PROVE  Begun(h) \in [Hubs -> LinkSet]
BY DEF TypeOK, Begun, LinkSet

LEMMA ConfigureTypes ==
    ASSUME TypeOK, HubInv, NEW c \in Callers, Configure(c)
    PROVE  TypeOK'
<1>. USE DEF TypeOK, hubVars, handlerVars, serverVars, pageVars, boundVars
<1>1. CASE Build(c)
  <2>1. hub' \in 0..Cardinality(Hubs)
    BY <1>1, BuildRoom DEF Build, Proceed
  <2>2. pc' \in [Callers -> PcSet]
    BY <1>1 DEF Build, Proceed, PcSet, Configuring
  <2>. QED
    BY <1>1, <2>1, <2>2 DEF Build, PcSet
<1>2. CASE Subscribe(c)
  <2>1. hub \in Hubs
    BY <1>2, HubsUsed DEF Subscribe, Proceed
  <2>2. pc' \in [Callers -> PcSet]
    BY <1>2 DEF Subscribe, Proceed, PcSet, Configuring
  <2>3. handlers' \in [Hubs -> Nat]
    BY <1>2, <2>1 DEF Subscribe
  <2>. QED
    BY <1>2, <2>2, <2>3 DEF Subscribe, PcSet
<1>3. CASE StartHub(c)
  <2>1. hub \in Hubs
    BY <1>3, HubsUsed DEF StartHub, Proceed
  <2>2. AfterCall(c, hub) \in PcSet
    BY <2>1 DEF AfterCall, EndOf, PcSet, Configuring
  <2>3. pc' \in [Callers -> PcSet]
    BY <1>3, <2>2 DEF StartHub, Proceed, PcSet
  <2>4. target' \in [Callers -> 0..Cardinality(Hubs)]
    BY <1>3 DEF StartHub
  <2>5. link' \in [Hubs -> LinkSet]
    BY <1>3, <2>1, BegunType DEF StartHub
  <2>. QED
    BY <1>3, <2>3, <2>4, <2>5 DEF StartHub, PcSet, LinkSet
<1>4. CASE StartHubLocked(c)
  <2>1. target[c] \in Hubs
    BY <1>4, HubsUsed DEF StartHubLocked, Proceed
  <2>2. AfterCall(c, target[c]) \in PcSet
    BY <2>1 DEF AfterCall, EndOf, PcSet, Configuring
  <2>3. pc' \in [Callers -> PcSet]
    BY <1>4, <2>2 DEF StartHubLocked, Proceed, PcSet
  <2>4. link' \in [Hubs -> LinkSet]
    BY <1>4, <2>1, BegunType DEF StartHubLocked
  <2>. QED
    BY <1>4, <2>3, <2>4 DEF StartHubLocked, PcSet, LinkSet
<1>. QED
  BY <1>1, <1>2, <1>3, <1>4 DEF Configure

LEMMA ResumeType ==
    ASSUME TypeOK, NEW h, Resume(h)
    PROVE  pc' \in [Callers -> PcSet]
BY DEF TypeOK, Resume, EndOf, PcSet

LEMMA LinkTypes ==
    ASSUME TypeOK, HubInv,
           Reconnect \/ \E h \in Hubs : Start(h) \/ StartAsync(h) \/ Drop(h)
    PROVE  TypeOK'
<1>0. {MaxDrops, MaxFailures, MaxStale} \subseteq Nat
  BY BoundsAssumption
<1>. USE DEF TypeOK, hubVars, handlerVars, serverVars, pageVars, boundVars
<1>1. CASE Reconnect
  <2>1. hub \in Hubs
    BY <1>1, HubsUsed DEF Reconnect
  <2>2. link' \in [Hubs -> LinkSet]
    BY <1>1, <2>1, BegunType DEF Reconnect
  <2>3. waiting' \in [Hubs -> Nat] /\ delayed' \in Nat
    BY <1>1, <2>1 DEF Reconnect
  <2>. QED
    BY <1>1, <2>2, <2>3 DEF Reconnect, LinkSet
<1>2. ASSUME NEW h \in Hubs, StartSucceeds(h) PROVE TypeOK'
  <2>1. failedReconfigure' \in BOOLEAN
    BY <1>2, Zenon DEF StartSucceeds
  <2>2. link' \in [Hubs -> LinkSet]
    BY <1>2 DEF StartSucceeds, LinkSet
  <2>3. pc' \in [Callers -> PcSet]
    BY <1>2, ResumeType DEF StartSucceeds
  <2>. QED
    BY <1>2, <2>1, <2>2, <2>3 DEF StartSucceeds, LinkSet, PcSet
<1>3. ASSUME NEW h \in Hubs, StartFails(h) PROVE TypeOK'
  <2>1. failures' \in 0..MaxFailures
    BY <1>0, <1>3 DEF StartFails
  <2>2. link' \in [Hubs -> LinkSet]
    BY <1>3 DEF StartFails, LinkSet
  <2>3. pc' \in [Callers -> PcSet]
    BY <1>3, ResumeType DEF StartFails
  <2>. QED
    BY <1>3, <2>1, <2>2, <2>3 DEF StartFails, LinkSet, PcSet
<1>4. ASSUME NEW h \in Hubs, StartAsync(h) PROVE TypeOK'
  <2>1. link' \in [Hubs -> LinkSet]
    BY <1>4, BegunType DEF StartAsync
  <2>2. waiting' \in [Hubs -> Nat]
    BY <1>4 DEF StartAsync
  <2>. QED
    BY <1>4, <2>1, <2>2 DEF StartAsync, LinkSet
<1>5. ASSUME NEW h \in Hubs, Drop(h) PROVE TypeOK'
  <2>1. delayed' \in Nat /\ drops' \in 0..MaxDrops
    BY <1>0, <1>5 DEF Drop, DropWith
  <2>2. pc' \in [Callers -> PcSet]
    BY <1>5 DEF Drop, DropWith, PcSet
  <2>3. wire' \in [Hubs -> Seq(Reports)]
    BY <1>5 DEF Drop, DropWith
  <2>4. link' \in [Hubs -> LinkSet]
    BY <1>5 DEF Drop, DropWith, LinkSet
  <2>. QED
    BY <1>5, <2>1, <2>2, <2>3, <2>4 DEF Drop, DropWith, LinkSet, PcSet
<1>. QED
  BY <1>1, <1>2, <1>3, <1>4, <1>5 DEF Start

LEMMA ReportTypes ==
    ASSUME TypeOK, HubInv, NEW r \in Reports, Report(r) \/ Process(r) \/ EndBroadcast(r)
    PROVE  TypeOK'
<1>. USE DEF TypeOK, hubVars, handlerVars, serverVars, pageVars, boundVars
<1>0. r \in Callers
  BY DEF Callers
<1>1. CASE Report(r)
  <2>1. pc' \in [Callers -> PcSet]
    BY <1>0, <1>1 DEF Report, Proceed, PcSet
  <2>2. target' \in [Callers -> 0..Cardinality(Hubs)] /\ early' \subseteq Reports
    BY <1>0, <1>1 DEF Report
  <2>. QED
    BY <1>1, <2>1, <2>2 DEF Report, PcSet
<1>2. CASE InvokeAsync(r)
  <2>1. pc' \in [Callers -> PcSet]
    BY <1>0, <1>2 DEF InvokeAsync, Proceed, PcSet
  <2>2. wire' \in [Hubs -> Seq(Reports)]
    BY <1>0, <1>2, HubsUsed, AppendProperties DEF InvokeAsync, Proceed
  <2>. QED
    BY <1>2, <2>1, <2>2 DEF InvokeAsync, PcSet
<1>3. CASE RecoverInvalidState(r)
  <2>1. pc' \in [Callers -> PcSet]
    BY <1>0, <1>3 DEF RecoverInvalidState, Proceed, AfterException, PcSet
  <2>. QED
    BY <1>3, <2>1 DEF RecoverInvalidState, PcSet
<1>4. CASE Reconfigure(r)
  <2>1. pc' \in [Callers -> PcSet]
    BY <1>0, <1>4 DEF Reconfigure, Proceed, PcSet, Configuring
  <2>2. failedReconfigure' \in BOOLEAN
    BY <1>4, Zenon DEF Reconfigure
  <2>. QED
    BY <1>4, <2>1, <2>2 DEF Reconfigure, PcSet
<1>5. CASE EndBroadcast(r)
  <2>1. pc' \in [Callers -> PcSet]
    BY <1>0, <1>5 DEF EndBroadcast, Proceed, PcSet
  <2>. QED
    BY <1>5, <2>1 DEF EndBroadcast, PcSet
<1>. QED
  BY <1>1, <1>2, <1>3, <1>4, <1>5 DEF Process

\* A card never makes a column longer than maxLength, nor leaves it empty.
LEMMA PageTypes ==
    ASSUME TypeOK,
           \/ \E h \in Hubs : BeginBroadcast(h)
           \/ \E r \in Reports, p \in Pages : SendTo(r, p)
           \/ \E p \in Pages : OpenPage(p) \/ LosePage(p) \/ Receive(p)
    PROVE  TypeOK'
<1>. USE DEF TypeOK, hubVars, handlerVars, serverVars, pageVars, boundVars
<1>1. ASSUME NEW h \in Hubs, BeginBroadcast(h) PROVE TypeOK'
  <2>1. Head(wire[h]) \in Reports /\ Tail(wire[h]) \in Seq(Reports)
    BY <1>1, HeadTailProperties DEF BeginBroadcast
  <2>2. pc' \in [Callers -> PcSet]
    BY <1>1, <2>1 DEF BeginBroadcast, PcSet
  <2>3. wire' \in [Hubs -> Seq(Reports)]
    BY <1>1, <2>1 DEF BeginBroadcast
  <2>4. pending' \in [Reports -> SUBSET Pages]
    BY <1>1 DEF BeginBroadcast
  <2>. QED
    BY <1>1, <2>2, <2>3, <2>4 DEF BeginBroadcast, PcSet
<1>2. ASSUME NEW r \in Reports, NEW p \in Pages, SendTo(r, p) PROVE TypeOK'
  <2>1. pending' \in [Reports -> SUBSET Pages]
    BY <1>2 DEF SendTo
  <2>2. inbox' \in [Pages -> Seq(Reports)]
    BY <1>2, AppendProperties DEF SendTo
  <2>. QED
    BY <1>2, <2>1, <2>2 DEF SendTo
<1>3. ASSUME NEW p \in Pages, OpenPage(p) \/ LosePage(p) PROVE TypeOK'
  <2>1. << >> \in Seq(Reports)
    OBVIOUS
  <2>2. page' \in [Pages -> {"closed", "open", "stale"}]
    BY <1>3 DEF OpenPage, LosePage
  <2>4. inbox' \in [Pages -> Seq(Reports)]
    BY <1>3, <2>1 DEF OpenPage, LosePage
  <2>3. pending' \in [Reports -> SUBSET Pages]
    <3>1. CASE LosePage(p)
      BY <3>1 DEF LosePage
    <3>2. CASE OpenPage(p)
      <4>1. PICK joined \in SUBSET {r \in Reports : pc[r] = "sending" \/ pending[r] # {}} :
                pending' = [r \in Reports |->
                               IF r \in joined THEN pending[r] \cup {p} ELSE pending[r]]
        BY <3>2 DEF OpenPage
      <4>. QED
        BY <4>1
    <3>. QED
      BY <1>3, <3>1, <3>2
  <2>. QED
    BY <1>3, <2>2, <2>3, <2>4 DEF OpenPage, LosePage
<1>4. ASSUME NEW p \in Pages, Receive(p) PROVE TypeOK'
  <2>. DEFINE r == Head(inbox[p])
              cards == InsertCard(column[p][KindOf[r]], r)
  <2>1. r \in Reports /\ Tail(inbox[p]) \in Seq(Reports)
    BY <1>4, HeadTailProperties DEF Receive
  <2>2. KindOf[r] \in Kinds
    BY <2>1 DEF Kinds
  <2>3. column[p] \in [Kinds -> Seq(Reports \cup {Loading})]
    OBVIOUS
  <2>4. /\ column[p][KindOf[r]] \in Seq(Reports \cup {Loading})
        /\ Len(column[p][KindOf[r]]) \in 1..MaxLength
    BY <2>2, <2>3
  <2>5. cards \in Seq(Reports \cup {Loading}) /\ Len(cards) \in 1..MaxLength
    BY <2>1, <2>4, InsertCardElements DEF CardSet
  <2>6. column' = [column EXCEPT ![p] = [column[p] EXCEPT ![KindOf[r]] = cards]]
    BY <1>4 DEF Receive
  <2>. HIDE DEF cards, r
  <2>7. column' \in [Pages -> [Kinds -> Seq(Reports \cup {Loading})]]
    BY <2>3, <2>5, <2>6
  <2>8. \A q \in Pages, k \in Kinds : Len(column'[q][k]) \in 1..MaxLength
    BY <2>2, <2>3, <2>5, <2>6
  <2>9. inbox' \in [Pages -> Seq(Reports)]
    BY <1>4, <2>1 DEF Receive, r
  <2>. QED
    BY <1>4, <2>7, <2>8, <2>9 DEF Receive
<1>. QED
  BY <1>1, <1>2, <1>3, <1>4

LEMMA StepTypes == TypeOK /\ HubInv /\ [Next]_vars => TypeOK'
<1>. SUFFICES ASSUME TypeOK, HubInv, [Next]_vars PROVE TypeOK'
  OBVIOUS
<1>1. CASE UNCHANGED vars
  BY <1>1 DEF TypeOK, vars, hubVars, handlerVars, serverVars, pageVars, boundVars
<1>2. CASE Next
  BY <1>2, ConfigureTypes, LinkTypes, ReportTypes, PageTypes DEF Next
<1>. QED
  BY <1>1, <1>2

----------------------------------------------------------------------------
\* Connections and their callers

\* How a step moves the callers: it leaves them alone, or takes some of them from
\* one place to another.
Moves(c, from, to) == pc[c] \in from /\ pc'[c] \in to

CallerMove(c) ==
    \/ pc'[c] = pc[c] /\ target'[c] = target[c]
    \/ Moves(c, {"building"}, {"subscribing"}) /\ hub' = hub + 1 /\ target'[c] = target[c]
    \/ Moves(c, {"subscribing"}, {"starting"}) /\ target'[c] = target[c]
    \/ /\ Moves(c, {"starting"}, {"waiting", "awaiting", EndOf(c)})
       /\ target'[c] = hub /\ hub # 0 /\ hub' = hub
    \/ Moves(c, {"waiting"}, {"awaiting", EndOf(c)}) /\ target'[c] = target[c]
    \/ Moves(c, {"awaiting"}, {EndOf(c)}) /\ target'[c] = target[c]
    \/ /\ c \in Reports /\ Moves(c, {"idle"}, {"invoking"})
       /\ target'[c] = hub /\ hub # 0 /\ hub' = hub
       /\ link[hub] = "disconnected" => c \in early'
    \/ c \in Reports /\ Moves(c, {"idle"}, {"lost"}) /\ target'[c] = 0
    \/ /\ c \in Reports /\ target'[c] = target[c]
       /\ \/ Moves(c, {"invoking", "sent"}, {"sent", "sending"})
          \/ Moves(c, {"sending"}, {"delivered"})
          \/ Moves(c, {"sent", "sending"}, {"lost"}) /\ drops' > 0
          \/ Moves(c, {"invoking"}, {"recovering", "lost"}) /\ link[target[c]] = "disconnected"
          \/ Moves(c, {"recovering"}, {"building"})

\* Connections are made by callers that build, one at a time, and become inactive
\* only when there is trouble.
LinkMove ==
    /\ drops <= drops' /\ failures <= failures' /\ early \subseteq early'
    /\ \/ hub' = hub
       \/ hub' = hub + 1 /\ link' = link /\ \E c \in Callers : pc[c] = "building" /\ pc'[c] = "subscribing"
    /\ delayed' > 0 => delayed > 0 \/ (Trouble' /\ \E h \in Hubs : link[h] = "connected")
    /\ \A h \in Hubs :
        /\ link'[h] # "disconnected" => link[h] # "disconnected" \/ (h = hub /\ hub' = hub)
                                            \/ waiting[h] > 0
                                            \/ \E c \in Callers : pc[c] = "waiting" /\ target[c] = h
        /\ link'[h] = "disconnected" => link[h] = "disconnected" \/ Trouble'
        /\ waiting'[h] > 0 => waiting[h] > 0 \/ (delayed > 0 /\ link[h] # "disconnected")

LEMMA ConfigureMoves ==
    ASSUME TypeOK, HubInv, WireInv, NEW c \in Callers, Configure(c)
    PROVE  \A d \in Callers : CallerMove(d)
<1>. USE DEF TypeOK, Moves
<1>0. hub \in Nat /\ \A d \in Callers : pc[d] \in {"subscribing", "starting"} => hub # 0
  BY HubTypes DEF HubInv
<1>1. CASE Build(c)
  BY <1>1 DEF Build, Proceed, CallerMove
<1>2. CASE Subscribe(c)
  BY <1>2 DEF Subscribe, Proceed, CallerMove
<1>3. CASE StartHub(c)
  <2>1. hub \in Hubs /\ hub # 0 /\ pc[c] = "starting" /\ hub' = hub
    BY <1>0, <1>3, HubsUsed DEF StartHub, Proceed, hubVars
  <2>2. AfterCall(c, hub) \in {"waiting", "awaiting", EndOf(c)}
    BY <2>1 DEF AfterCall
  <2>3. pc'[c] = AfterCall(c, hub) /\ target'[c] = hub
    BY <1>3 DEF StartHub, Proceed
  <2>4. \A d \in Callers \ {c} : pc'[d] = pc[d] /\ target'[d] = target[d]
    BY <1>3 DEF StartHub, Proceed
  <2>. QED
    BY <2>1, <2>2, <2>3, <2>4 DEF CallerMove
<1>4. CASE StartHubLocked(c)
  <2>1. target[c] \in Hubs /\ pc[c] = "waiting" /\ ~Locked(target[c])
    BY <1>4, HubsUsed DEF StartHubLocked, Proceed
  <2>2. AfterCall(c, target[c]) \in {"awaiting", EndOf(c)}
    BY <2>1 DEF AfterCall, Locked
  <2>3. pc'[c] = AfterCall(c, target[c]) /\ target' = target
    BY <1>4 DEF StartHubLocked, Proceed
  <2>4. \A d \in Callers \ {c} : pc'[d] = pc[d]
    BY <1>4 DEF StartHubLocked, Proceed
  <2>. QED
    BY <2>1, <2>2, <2>3, <2>4 DEF CallerMove
<1>. QED
  BY <1>1, <1>2, <1>3, <1>4 DEF Configure

LEMMA ConfigureLinks ==
    ASSUME TypeOK, HubInv, NEW c \in Callers, Configure(c)
    PROVE  LinkMove
<1>. USE DEF TypeOK, hubVars, handlerVars, boundVars
<1>0. drops \in Nat /\ failures \in Nat
  BY HubTypes
<1>1. CASE Build(c)
  BY <1>0, <1>1 DEF Build, Proceed, LinkMove
<1>2. CASE Subscribe(c)
  BY <1>0, <1>2 DEF Subscribe, Proceed, LinkMove
<1>3. CASE StartHub(c)
  BY <1>0, <1>3, HubsUsed DEF StartHub, Proceed, LinkMove, Begun
<1>4. CASE StartHubLocked(c)
  BY <1>0, <1>4, HubsUsed DEF StartHubLocked, Proceed, LinkMove, Begun
<1>. QED
  BY <1>1, <1>2, <1>3, <1>4 DEF Configure

LEMMA LinkMoves ==
    ASSUME TypeOK, HubInv, WireInv,
           Reconnect \/ \E h \in Hubs : Start(h) \/ StartAsync(h) \/ Drop(h)
    PROVE  LinkMove /\ \A d \in Callers : CallerMove(d)
<1>. USE DEF TypeOK, Moves, hubVars, handlerVars, boundVars
<1>0. drops \in Nat /\ failures \in Nat
  BY HubTypes
<1>1. CASE Reconnect
  <2>1. hub \in Hubs
    BY <1>1, HubsUsed DEF Reconnect
  <2>2. \A d \in Callers : CallerMove(d)
    BY <1>1 DEF Reconnect, CallerMove
  <2>3. /\ drops' = drops /\ failures' = failures /\ early' = early
        /\ hub' = hub /\ delayed > 0
        /\ \A g \in Hubs :
            /\ link'[g] = IF g = hub /\ link[g] = "disconnected" THEN "connecting" ELSE link[g]
            /\ waiting'[g] = IF g = hub /\ link[g] = "connecting" THEN waiting[g] + 1 ELSE waiting[g]
    BY <1>1, <2>1 DEF Reconnect, Begun, Locked
  <2>. QED
    BY <1>0, <2>2, <2>3 DEF LinkMove
<1>2. ASSUME NEW h \in Hubs, StartSucceeds(h) PROVE LinkMove /\ \A d \in Callers : CallerMove(d)
  <2>1. \A d \in Callers : CallerMove(d)
    BY <1>2 DEF StartSucceeds, Resume, Awaiting, CallerMove
  <2>. QED
    BY <1>0, <1>2, <2>1 DEF StartSucceeds, LinkMove, Locked
<1>3. ASSUME NEW h \in Hubs, StartFails(h) PROVE LinkMove /\ \A d \in Callers : CallerMove(d)
  <2>1. \A d \in Callers : CallerMove(d)
    BY <1>3 DEF StartFails, Resume, Awaiting, CallerMove
  <2>. QED
    BY <1>0, <1>3, <2>1 DEF StartFails, LinkMove, Locked, Trouble
<1>4. ASSUME NEW h \in Hubs, StartAsync(h) PROVE LinkMove /\ \A d \in Callers : CallerMove(d)
  <2>1. \A d \in Callers : CallerMove(d)
    BY <1>4 DEF StartAsync, CallerMove
  <2>2. /\ drops' = drops /\ failures' = failures /\ early' = early
        /\ hub' = hub /\ delayed' = delayed /\ waiting[h] > 0
        /\ \A g \in Hubs :
            /\ link'[g] = IF g = h /\ link[g] = "disconnected" THEN "connecting" ELSE link[g]
            /\ waiting'[g] = IF g = h THEN waiting[g] - 1 ELSE waiting[g]
    BY <1>4 DEF StartAsync, Begun
  <2>. QED
    BY <1>0, <2>1, <2>2 DEF LinkMove
<1>5. ASSUME NEW h \in Hubs, Drop(h) PROVE LinkMove /\ \A d \in Callers : CallerMove(d)
  <2>1. \A d \in Callers : CallerMove(d)
    BY <1>0, <1>5 DEF Drop, DropWith, Unanswered, CallerMove
  <2>. QED
    BY <1>0, <1>5, <2>1 DEF Drop, DropWith, LinkMove, Trouble
<1>. QED
  BY <1>1, <1>2, <1>3, <1>4, <1>5 DEF Start

\* The report at the head of a wire was sent.
LEMMA WireHead ==
    ASSUME TypeOK, WireInv, NEW h \in Hubs, wire[h] # << >>
    PROVE  /\ Head(wire[h]) \in Reports
           /\ pc[Head(wire[h])] = "sent" /\ target[Head(wire[h])] = h
<1>1. wire[h] \in Seq(Reports)
  BY DEF TypeOK
<1>2. Head(wire[h]) = wire[h][1] /\ 1 \in 1..Len(wire[h]) /\ Head(wire[h]) \in Reports
  BY <1>1, HeadTailProperties
<1>. QED
  BY <1>2 DEF WireInv

LEMMA ReportMoves ==
    ASSUME TypeOK, HubInv, WireInv,
           \/ \E r \in Reports : Report(r) \/ Process(r) \/ EndBroadcast(r)
           \/ \E h \in Hubs : BeginBroadcast(h)
           \/ \E r \in Reports, p \in Pages : SendTo(r, p)
           \/ \E p \in Pages : OpenPage(p) \/ LosePage(p) \/ Receive(p)
    PROVE  LinkMove /\ \A d \in Callers : CallerMove(d)
<1>. USE DEF TypeOK, Moves, hubVars, handlerVars, boundVars
<1>0. drops \in Nat /\ failures \in Nat /\ Reports \subseteq Callers
  BY HubTypes DEF Callers
<1>1. ASSUME NEW r \in Reports, Report(r) PROVE LinkMove /\ \A d \in Callers : CallerMove(d)
  <2>1. /\ pc[r] = "idle" /\ target' = [target EXCEPT ![r] = hub] /\ hub' = hub
        /\ pc' = [pc EXCEPT ![r] = IF hub = 0 THEN "lost" ELSE "invoking"]
        /\ hub # 0 /\ link[hub] = "disconnected" => r \in early'
    BY <1>1 DEF Report, Proceed
  <2>2. early \subseteq early'
    BY <1>1 DEF Report
  <2>3. \A d \in Callers \ {r} : pc'[d] = pc[d] /\ target'[d] = target[d]
    BY <2>1
  <2>4. CallerMove(r)
    BY <1>0, <2>1 DEF CallerMove
  <2>5. \A d \in Callers : CallerMove(d)
    BY <2>3, <2>4 DEF CallerMove
  <2>. QED
    BY <1>0, <1>1, <2>2, <2>5 DEF Report, LinkMove
<1>2. ASSUME NEW r \in Reports, InvokeAsync(r) PROVE LinkMove /\ \A d \in Callers : CallerMove(d)
  BY <1>0, <1>2 DEF InvokeAsync, Proceed, LinkMove, CallerMove
<1>3. ASSUME NEW r \in Reports, RecoverInvalidState(r)
      PROVE  LinkMove /\ \A d \in Callers : CallerMove(d)
  BY <1>0, <1>3 DEF RecoverInvalidState, Proceed, AfterException, LinkMove, CallerMove
<1>4. ASSUME NEW r \in Reports, Reconfigure(r) PROVE LinkMove /\ \A d \in Callers : CallerMove(d)
  BY <1>0, <1>4 DEF Reconfigure, Proceed, LinkMove, CallerMove
<1>5. ASSUME NEW r \in Reports, EndBroadcast(r) PROVE LinkMove /\ \A d \in Callers : CallerMove(d)
  BY <1>0, <1>5 DEF EndBroadcast, Proceed, LinkMove, CallerMove
<1>6. ASSUME NEW h \in Hubs, BeginBroadcast(h) PROVE LinkMove /\ \A d \in Callers : CallerMove(d)
  <2>1. /\ pc[Head(wire[h])] = "sent" /\ Head(wire[h]) \in Reports
        /\ pc' = [pc EXCEPT ![Head(wire[h])] = "sending"] /\ target' = target
    BY <1>6, WireHead DEF BeginBroadcast
  <2>2. \A d \in Callers : CallerMove(d)
    BY <1>0, <2>1 DEF CallerMove
  <2>. QED
    BY <1>0, <1>6, <2>2 DEF BeginBroadcast, LinkMove
<1>7. ASSUME NEW r \in Reports, NEW p \in Pages, SendTo(r, p)
      PROVE  LinkMove /\ \A d \in Callers : CallerMove(d)
  BY <1>0, <1>7 DEF SendTo, LinkMove, CallerMove
<1>8. ASSUME NEW p \in Pages, OpenPage(p) \/ LosePage(p) \/ Receive(p)
      PROVE  LinkMove /\ \A d \in Callers : CallerMove(d)
  BY <1>0, <1>8 DEF OpenPage, LosePage, Receive, LinkMove, CallerMove
<1>. QED
  BY <1>1, <1>2, <1>3, <1>4, <1>5, <1>6, <1>7, <1>8 DEF Process

LEMMA StepMoves ==
    TypeOK /\ HubInv /\ WireInv /\ [Next]_vars => LinkMove /\ \A d \in Callers : CallerMove(d)
<1>. SUFFICES ASSUME TypeOK, HubInv, WireInv, [Next]_vars
              PROVE  LinkMove /\ \A d \in Callers : CallerMove(d)
  OBVIOUS
<1>1. CASE UNCHANGED vars
  BY <1>1, HubTypes DEF vars, hubVars, handlerVars, boundVars, LinkMove, CallerMove
<1>2. CASE Next
  BY <1>2, ConfigureMoves, ConfigureLinks, LinkMoves, ReportMoves DEF Next
<1>. QED
  BY <1>1, <1>2

LEMMA StepHubInv == TypeOK /\ HubInv /\ WireInv /\ [Next]_vars => HubInv'
<1>. SUFFICES ASSUME TypeOK, HubInv, WireInv, [Next]_vars PROVE HubInv'
  OBVIOUS
<1>1. LinkMove /\ \A c \in Callers : CallerMove(c)
  BY StepMoves
<1>2. TypeOK' /\ hub \in Nat /\ hub' \in Nat /\ Hubs \subseteq Nat \ {0}
      /\ \A c \in Callers : target[c] \in Nat
  <2>1. TypeOK'
    BY StepTypes
  <2>. QED
    BY <2>1, HubTypes, HubsCount DEF TypeOK
<1>3. hub <= hub'
  BY <1>1, <1>2 DEF LinkMove
<1>4. hub' <= Cardinality(Built')
  <2>1. Built \in SUBSET Callers /\ Built' \in SUBSET Callers
    BY DEF Built
  <2>2. Built \subseteq Built'
    BY <1>1 DEF Built, CallerMove, Moves, EndOf
  <2>3. CASE hub' = hub
    <3>1. Cardinality(Built) <= Cardinality(Built') /\ Cardinality(Built) \in Nat
      BY <2>1, <2>2, BuiltCount
    <3>2. Cardinality(Built') \in Nat
      BY <2>1, BuiltCount
    <3>. QED
      BY <1>2, <2>3, <3>1, <3>2 DEF HubInv
  <2>4. CASE \E c \in Callers : hub' = hub + 1 /\ pc[c] = "building" /\ pc'[c] = "subscribing"
    <3>1. PICK c \in Callers : hub' = hub + 1 /\ pc[c] = "building" /\ pc'[c] = "subscribing"
      BY <2>4
    <3>2. c \in Callers \ Built /\ Built \cup {c} \subseteq Built'
      BY <2>2, <3>1 DEF Built
    <3>3. Cardinality(Built \cup {c}) = Cardinality(Built) + 1 /\ Cardinality(Built) \in Nat
      BY <2>1, <3>2, BuiltCount
    <3>4. Built \cup {c} \in SUBSET Callers
      BY <2>1, <3>2
    <3>5. Cardinality(Built \cup {c}) <= Cardinality(Built')
      BY <2>1, <3>2, <3>4, BuiltCount
    <3>6. Cardinality(Built') \in Nat
      BY <2>1, BuiltCount
    <3>. QED
      BY <1>2, <3>1, <3>3, <3>5, <3>6 DEF HubInv
  <2>. QED
    BY <1>1, <2>3, <2>4 DEF LinkMove
<1>5. ASSUME NEW h \in Hubs, link'[h] # "disconnected" \/ waiting'[h] > 0
      PROVE  h <= hub'
  <2>1. h <= hub
    BY <1>1, <1>2, <1>5 DEF LinkMove, HubInv
  <2>. QED
    BY <1>2, <1>3, <2>1
<1>6. delayed' > 0 => hub' # 0
  BY <1>1, <1>2, <1>3 DEF LinkMove, HubInv
<1>7. ASSUME NEW c \in Callers
      PROVE  /\ target'[c] <= hub'
             /\ pc'[c] \in {"subscribing", "starting"} => hub' # 0
             /\ pc'[c] \in {"invoking", "sent", "sending", "waiting", "awaiting"} => target'[c] # 0
             /\ c \in Reports /\ pc'[c] \in Configuring \cup {"recovering"} => target'[c] # 0
  <2>0. /\ target[c] <= hub
        /\ pc[c] \in {"subscribing", "starting"} => hub # 0
        /\ pc[c] \in {"invoking", "sent", "sending", "waiting", "awaiting"} => target[c] # 0
        /\ c \in Reports /\ pc[c] \in Configuring \cup {"recovering"} => target[c] # 0
    BY DEF HubInv
  <2>1. CallerMove(c)
    BY <1>1
  <2>. QED
    BY <1>2, <1>3, <2>0, <2>1 DEF CallerMove, Moves, EndOf, Configuring
<1>8. Reports \subseteq Callers
  BY DEF Callers
<1>. QED
  BY <1>4, <1>5, <1>6, <1>7, <1>8 DEF HubInv

\* What a step makes of the flag and its reset.
LEMMA StepFlagInv == LiveInv /\ [Next]_vars => FlagInv'
<1>. SUFFICES ASSUME LiveInv, [Next]_vars PROVE FlagInv'
  OBVIOUS
<1>0. TypeOK /\ HubInv /\ FlagInv /\ WireInv /\ Reports \subseteq Callers
  BY DEF LiveInv, Callers
<1>1. LinkMove /\ \A c \in Callers : CallerMove(c)
  BY <1>0, StepMoves
<1>2. Trouble => Trouble'
  <2>1. drops \in Nat /\ failures \in Nat /\ TypeOK'
    BY <1>0, HubTypes, StepTypes
  <2>2. drops' \in Nat /\ failures' \in Nat
    BY <2>1, BoundsAssumption DEF TypeOK
  <2>. QED
    BY <1>1, <2>1, <2>2 DEF LinkMove, Trouble
<1>3. (delayed' > 0 => Trouble') /\ \A h \in Hubs : waiting'[h] > 0 => Trouble'
  BY <1>0, <1>1, <1>2 DEF LinkMove, FlagInv
<1>4. ASSUME failedReconfigure', ~Trouble' PROVE \E c \in Callers : Resetting(c)'
  <2>0. /\ ~Trouble /\ ~(delayed > 0) /\ \A h \in Hubs : ~(waiting[h] > 0)
        /\ failedReconfigure => \E c \in Callers : Resetting(c)
    BY <1>0, <1>2, <1>4 DEF FlagInv
  <2>. DEFINE Goal == \E c \in Callers : Resetting(c)'
  <2>1. ASSUME NEW c \in Callers, Resetting(c), pc'[c] = pc[c], target'[c] = target[c],
               hub' = hub, link'[hub] = link[hub]
        PROVE  Goal
    BY <2>1 DEF Resetting
  <2>. HIDE DEF Goal
  <2>2. ASSUME pc' = pc, target' = target, hub' = hub, link' = link,
               failedReconfigure' = failedReconfigure
        PROVE  Goal
    BY <1>4, <2>0, <2>1, <2>2
  <2>3. ASSUME NEW c \in Callers, Build(c) PROVE Goal
    <3>1. hub + 1 \in Hubs /\ hub \in Nat
      BY <1>0, <2>3, BuildRoom, HubTypes DEF Build, Proceed
    <3>2. link[hub + 1] = "disconnected"
      BY <1>0, <3>1 DEF HubInv
    <3>3. pc'[c] = "subscribing" /\ hub' = hub + 1 /\ link' = link
      BY <1>0, <2>3 DEF Build, Proceed, TypeOK
    <3>. QED
      BY <3>2, <3>3 DEF Goal, Resetting
  <2>4. ASSUME NEW d \in Callers, Subscribe(d) PROVE Goal
    <3>1. PICK c \in Callers : Resetting(c)
      BY <1>4, <2>0, <2>4 DEF Subscribe
    <3>2. pc'[c] = pc[c] \/ (pc[c] = "subscribing" /\ pc'[c] = "starting")
      BY <1>0, <2>4 DEF Subscribe, Proceed, TypeOK
    <3>. QED
      BY <2>4, <3>1, <3>2 DEF Goal, Resetting, Subscribe
  <2>5. ASSUME NEW d \in Callers, StartHub(d) PROVE Goal
    <3>0. hub \in Hubs /\ pc[d] = "starting" /\ hub' = hub
      BY <1>0, <2>5, HubsUsed DEF StartHub, Proceed, hubVars
    <3>1. PICK c \in Callers : Resetting(c)
      BY <1>4, <2>0, <2>5 DEF StartHub, hubVars
    <3>2. CASE link[hub] = "disconnected"
      <4>1. pc'[d] = "awaiting" /\ target'[d] = hub
        BY <1>0, <2>5, <3>2 DEF StartHub, Proceed, AfterCall, TypeOK
      <4>. QED
        BY <3>0, <4>1 DEF Goal, Resetting
    <3>3. CASE link[hub] # "disconnected"
      <4>1. link'[hub] = link[hub] /\ \A e \in Callers \ {d} : pc'[e] = pc[e] /\ target'[e] = target[e]
        BY <1>0, <2>5, <3>3 DEF StartHub, Proceed, Begun, TypeOK
      <4>2. c # d
        BY <3>0, <3>1, <3>3 DEF Resetting
      <4>. QED
        BY <2>1, <3>0, <3>1, <4>1, <4>2
    <3>. QED
      BY <3>2, <3>3
  <2>6. ASSUME NEW d \in Callers, StartHubLocked(d) PROVE Goal
    <3>0. target[d] \in Hubs /\ pc[d] = "waiting" /\ hub' = hub /\ target' = target
      BY <1>0, <2>6, HubsUsed DEF StartHubLocked, Proceed, hubVars
    <3>1. PICK c \in Callers : Resetting(c)
      BY <1>4, <2>0, <2>6 DEF StartHubLocked, hubVars
    <3>2. c # d /\ pc'[c] = pc[c]
      BY <1>0, <2>6, <3>0, <3>1 DEF Resetting, StartHubLocked, Proceed, TypeOK
    <3>3. CASE target[d] = hub /\ link[hub] = "disconnected"
      <4>1. pc'[d] = "awaiting"
        BY <1>0, <2>6, <3>3 DEF StartHubLocked, Proceed, AfterCall, TypeOK
      <4>. QED
        BY <3>0, <3>3, <4>1 DEF Goal, Resetting
    <3>4. CASE ~(target[d] = hub /\ link[hub] = "disconnected")
      <4>1. \A h \in Hubs : link'[h] = IF h = target[d] /\ link[h] = "disconnected"
                                      THEN "connecting" ELSE link[h]
        BY <1>0, <2>6 DEF StartHubLocked, Begun, TypeOK
      <4>2. hub \in Hubs
        <5>1. hub \in Hubs \cup {0} /\ hub \in Nat /\ target[d] \in Nat /\ target[d] <= hub
              /\ target[d] # 0
          BY <1>0, <3>0, HubTypes DEF HubInv
        <5>. QED
          BY <5>1
      <4>3. link'[hub] = link[hub]
        BY <3>4, <4>1, <4>2
      <4>. QED
        BY <2>1, <3>0, <3>1, <3>2, <4>3
    <3>. QED
      BY <3>3, <3>4
  <2>7. ASSUME NEW h \in Hubs, StartSucceeds(h) PROVE Goal
    <3>0. /\ failedReconfigure /\ Awaiting(h) = {} /\ Locked(h)
          /\ hub' = hub /\ target' = target /\ link' = [link EXCEPT ![h] = "connected"]
      BY <1>4, <2>7 DEF StartSucceeds
    <3>1. PICK c \in Callers : Resetting(c)
      BY <2>0, <3>0
    <3>2. pc'[c] = pc[c]
      BY <2>7, <3>0 DEF StartSucceeds, Resume
    <3>3. CASE pc[c] = "building"
      BY <3>2, <3>3 DEF Goal, Resetting
    <3>4. CASE pc[c] = "awaiting" /\ target[c] = hub
      BY <3>0, <3>2, <3>4 DEF Goal, Resetting
    <3>5. CASE pc[c] \in {"subscribing", "starting"} /\ link[hub] = "disconnected"
      <4>1. hub # h
        BY <3>0, <3>5 DEF Locked
      <4>2. link'[hub] = link[hub]
        BY <1>0, <3>0, <4>1 DEF TypeOK
      <4>. QED
        BY <2>1, <3>0, <3>1, <3>2, <4>2
    <3>. QED
      BY <3>1, <3>3, <3>4, <3>5 DEF Resetting
  <2>8. ASSUME NEW h \in Hubs, StartFails(h) \/ Drop(h) PROVE FALSE
    <3>1. drops' = drops + 1 \/ failures' = failures + 1
      BY <2>8 DEF StartFails, Drop, DropWith
    <3>2. drops \in Nat /\ failures \in Nat
      BY <1>0, HubTypes
    <3>. QED
      BY <1>4, <3>1, <3>2 DEF Trouble
  <2>9. ASSUME Reconnect \/ \E h \in Hubs : StartAsync(h) PROVE Goal
    BY <2>0, <2>9 DEF Reconnect, StartAsync
  <2>10. ASSUME NEW r \in Reports, Reconfigure(r) PROVE Goal
    <3>1. pc'[r] = "building" /\ r \in Callers
      BY <1>0, <2>10 DEF Reconfigure, Proceed, TypeOK
    <3>. QED
      BY <3>1 DEF Goal, Resetting
  <2>11. ASSUME NEW S \in SUBSET Callers, failedReconfigure' = failedReconfigure,
                hub' = hub, link' = link,
                \A c \in Callers \ S : pc'[c] = pc[c] /\ target'[c] = target[c],
                \A c \in S : pc[c] \notin {"building", "subscribing", "starting", "awaiting"}
         PROVE  Goal
    <3>1. PICK c \in Callers : Resetting(c)
      BY <1>4, <2>0, <2>11
    <3>2. c \notin S
      BY <2>11, <3>1 DEF Resetting
    <3>. QED
      BY <2>1, <2>11, <3>1, <3>2
  <2>12. ASSUME NEW r \in Reports,
                Report(r) \/ InvokeAsync(r) \/ RecoverInvalidState(r) \/ EndBroadcast(r)
         PROVE  Goal
    <3>1. /\ failedReconfigure' = failedReconfigure /\ hub' = hub /\ link' = link
          /\ pc[r] \notin {"building", "subscribing", "starting", "awaiting"}
          /\ \A c \in Callers \ {r} : pc'[c] = pc[c] /\ target'[c] = target[c]
      BY <1>0, <2>12 DEF Report, InvokeAsync, RecoverInvalidState, EndBroadcast, Proceed, hubVars, TypeOK
    <3>2. {r} \in SUBSET Callers
      BY <1>0
    <3>. QED
      BY <2>11, <3>1, <3>2
  <2>13. ASSUME NEW h \in Hubs, BeginBroadcast(h) PROVE Goal
    <3>1. Head(wire[h]) \in Reports /\ pc[Head(wire[h])] = "sent"
      BY <1>0, <2>13, WireHead DEF BeginBroadcast
    <3>2. /\ failedReconfigure' = failedReconfigure /\ hub' = hub /\ link' = link
          /\ \A c \in Callers \ {Head(wire[h])} : pc'[c] = pc[c] /\ target'[c] = target[c]
      BY <1>0, <2>13, <3>1 DEF BeginBroadcast, hubVars, TypeOK
    <3>3. {Head(wire[h])} \in SUBSET Callers
      BY <1>0, <3>1
    <3>. QED
      BY <2>11, <3>1, <3>2, <3>3
  <2>14. ASSUME \/ UNCHANGED vars
                \/ \E r \in Reports, p \in Pages : SendTo(r, p)
                \/ \E p \in Pages : OpenPage(p) \/ LosePage(p) \/ Receive(p)
         PROVE  Goal
    <3>1. /\ pc' = pc /\ target' = target /\ hub' = hub /\ link' = link
          /\ failedReconfigure' = failedReconfigure
      <4>1. CASE UNCHANGED vars
        BY <4>1 DEF vars, hubVars
      <4>2. CASE \E r \in Reports, p \in Pages : SendTo(r, p)
        BY <4>2 DEF hubVars, SendTo
      <4>3. CASE \E p \in Pages : OpenPage(p) \/ LosePage(p) \/ Receive(p)
        BY <4>3 DEF hubVars, OpenPage, LosePage, Receive
      <4>. QED
        BY <2>14, <4>1, <4>2, <4>3
    <3>. QED
      BY <2>2, <3>1
  <2>15. Goal
    <3>1. CASE UNCHANGED vars
      BY <2>14, <3>1
    <3>2. CASE Next
      <4>1. CASE \E c \in Callers : Configure(c)
        BY <2>3, <2>4, <2>5, <2>6, <4>1 DEF Configure
      <4>2. CASE Reconnect
        BY <2>9, <4>2
      <4>3. CASE \E h \in Hubs : Start(h) \/ StartAsync(h) \/ Drop(h) \/ BeginBroadcast(h)
        BY <2>7, <2>8, <2>9, <2>13, <4>3 DEF Start
      <4>4. CASE \E r \in Reports : Report(r) \/ Process(r) \/ EndBroadcast(r)
        BY <2>10, <2>12, <4>4 DEF Process
      <4>5. CASE \/ \E r \in Reports, p \in Pages : SendTo(r, p)
                 \/ \E p \in Pages : OpenPage(p) \/ LosePage(p) \/ Receive(p)
        BY <2>14, <4>5
      <4>. QED
        BY <3>2, <4>1, <4>2, <4>3, <4>4, <4>5 DEF Next
    <3>. QED
      BY <3>1, <3>2
  <2>. QED
    BY <2>15 DEF Goal
<1>. QED
  BY <1>3, <1>4 DEF FlagInv

LEMMA StepCauseInv == LiveInv /\ [Next]_vars => CauseInv'
<1>. SUFFICES ASSUME LiveInv, [Next]_vars, NEW r \in Reports, target'[r] # 0, ~Trouble',
                     r \notin early'
              PROVE  /\ pc'[r] \notin Configuring \cup {"recovering", "lost"}
                     /\ pc'[r] = "invoking" => link'[target'[r]] # "disconnected"
  BY DEF CauseInv
<1>0. TypeOK /\ HubInv /\ WireInv /\ CauseInv /\ r \in Callers
  BY DEF LiveInv, Callers
<1>1. LinkMove /\ CallerMove(r)
  BY <1>0, StepMoves
<1>2. ~Trouble /\ ~(drops' > 0)
  <2>1. drops \in Nat /\ failures \in Nat /\ TypeOK'
    BY <1>0, HubTypes, StepTypes
  <2>2. drops' \in Nat /\ failures' \in Nat
    BY <2>1, BoundsAssumption DEF TypeOK
  <2>. QED
    BY <1>1, <2>1, <2>2 DEF LinkMove, Trouble
<1>3. target[r] # 0 => /\ pc[r] \notin Configuring \cup {"recovering", "lost"}
                       /\ pc[r] = "invoking" => link[target[r]] # "disconnected"
  BY <1>0, <1>1, <1>2 DEF LinkMove, CauseInv
<1>4. pc[r] \in {"invoking", "recovering", "sent", "sending"} \cup Configuring => target[r] # 0
  BY <1>0 DEF HubInv
<1>5. pc[r] = "invoking" => target[r] \in Hubs
  BY <1>0, HubsUsed
<1>6. hub \in Hubs \cup {0} /\ \A h \in Hubs : link'[h] = "disconnected" => link[h] = "disconnected"
  BY <1>0, <1>1, HubTypes DEF LinkMove
<1>. QED
  BY <1>1, <1>2, <1>3, <1>4, <1>5, <1>6 DEF CallerMove, Moves, Configuring

----------------------------------------------------------------------------
\* The wire

\* A report that is on no wire may change; wires that lose reports stay in order.
LEMMA WireShrinks ==
    ASSUME TypeOK, WireInv,
           \A h \in Hubs :
               \/ wire'[h] = wire[h]
               \/ wire[h] # << >> /\ wire'[h] = Tail(wire[h])
               \/ wire'[h] = << >>,
           \A h \in Hubs : \A i \in 1..Len(wire'[h]) :
               /\ pc'[wire'[h][i]] = pc[wire'[h][i]]
               /\ target'[wire'[h][i]] = target[wire'[h][i]]
    PROVE  WireInv'
<1>. SUFFICES ASSUME NEW h \in Hubs
              PROVE  /\ \A i, j \in 1..Len(wire'[h]) : wire'[h][i] = wire'[h][j] => i = j
                     /\ \A i \in 1..Len(wire'[h]) :
                         pc'[wire'[h][i]] = "sent" /\ target'[wire'[h][i]] = h
  BY DEF WireInv
<1>1. wire[h] \in Seq(Reports) /\ Len(wire[h]) \in Nat
  BY DEF TypeOK
<1>2. CASE wire'[h] = wire[h]
  BY <1>2 DEF WireInv
<1>3. CASE wire[h] # << >> /\ wire'[h] = Tail(wire[h])
  <2>1. /\ Len(wire'[h]) = Len(wire[h]) - 1
        /\ \A i \in 1..Len(wire'[h]) : wire'[h][i] = wire[h][i + 1] /\ i + 1 \in 1..Len(wire[h])
    BY <1>1, <1>3, HeadTailProperties
  <2>2. /\ \A i, j \in 1..Len(wire[h]) : wire[h][i] = wire[h][j] => i = j
        /\ \A i \in 1..Len(wire[h]) : pc[wire[h][i]] = "sent" /\ target[wire[h][i]] = h
    BY DEF WireInv
  <2>3. ASSUME NEW i \in 1..Len(wire'[h]), NEW j \in 1..Len(wire'[h]), wire'[h][i] = wire'[h][j]
        PROVE  i = j
    <3>1. i + 1 = j + 1
      BY <2>1, <2>2, <2>3
    <3>. QED
      BY <3>1
  <2>4. ASSUME NEW i \in 1..Len(wire'[h])
        PROVE  pc'[wire'[h][i]] = "sent" /\ target'[wire'[h][i]] = h
    BY <2>1, <2>2
  <2>. QED
    BY <2>3, <2>4
<1>4. CASE wire'[h] = << >>
  BY <1>4
<1>. QED
  BY <1>2, <1>3, <1>4

LEMMA StepWireInv == TypeOK /\ HubInv /\ WireInv /\ [Next]_vars => WireInv'
<1>. SUFFICES ASSUME TypeOK, HubInv, WireInv, [Next]_vars PROVE WireInv'
  OBVIOUS
<1>0. (\A h \in Hubs : wire[h] \in Seq(Reports)) /\ Reports \subseteq Callers
  BY DEF TypeOK, Callers
<1>1. ASSUME wire' = wire,
             \A r \in Reports : pc[r] = "sent" => pc'[r] = "sent" /\ target'[r] = target[r]
      PROVE  WireInv'
  BY <1>0, <1>1 DEF WireInv
<1>2. ASSUME wire' = wire, NEW c \in Callers, pc[c] # "sent",
             \A d \in Callers \ {c} : pc'[d] = pc[d] /\ target'[d] = target[d]
      PROVE  WireInv'
  BY <1>0, <1>1, <1>2
<1>3. CASE \/ Reconnect \/ UNCHANGED vars
           \/ \E h \in Hubs : StartAsync(h)
           \/ \E r \in Reports, p \in Pages : SendTo(r, p)
           \/ \E p \in Pages : OpenPage(p) \/ LosePage(p) \/ Receive(p)
  <2>1. wire' = wire /\ pc' = pc /\ target' = target
    BY <1>3 DEF vars, serverVars, Reconnect, StartAsync, SendTo, OpenPage, LosePage, Receive
  <2>. QED
    BY <1>1, <2>1
<1>4. ASSUME NEW h \in Hubs, Start(h) PROVE WireInv'
  <2>1. wire' = wire /\ target' = target /\ Resume(h)
    BY <1>4 DEF Start, StartSucceeds, StartFails, serverVars
  <2>2. \A c \in Callers : pc[c] = "sent" => pc'[c] = "sent"
    BY <2>1 DEF Resume, Awaiting
  <2>. QED
    BY <1>0, <1>1, <2>1, <2>2
<1>5. ASSUME NEW c \in Callers, Configure(c) PROVE WireInv'
  <2>1. wire' = wire
    BY <1>5 DEF Configure, Build, Subscribe, StartHub, StartHubLocked, serverVars
  <2>2. pc[c] # "sent" /\ \A d \in Callers \ {c} : pc'[d] = pc[d] /\ target'[d] = target[d]
    BY <1>5 DEF Configure, Build, Subscribe, StartHub, StartHubLocked, Proceed, TypeOK
  <2>. QED
    BY <1>2, <2>1, <2>2
<1>6. ASSUME NEW r \in Reports,
             Report(r) \/ RecoverInvalidState(r) \/ Reconfigure(r) \/ EndBroadcast(r)
      PROVE  WireInv'
  <2>1. wire' = wire
    BY <1>6 DEF Report, RecoverInvalidState, Reconfigure, EndBroadcast, serverVars
  <2>2. pc[r] # "sent" /\ \A d \in Callers \ {r} : pc'[d] = pc[d] /\ target'[d] = target[d]
    BY <1>6 DEF Report, RecoverInvalidState, Reconfigure, EndBroadcast, Proceed, TypeOK
  <2>. QED
    BY <1>0, <1>2, <2>1, <2>2
<1>7. ASSUME NEW r \in Reports, InvokeAsync(r) PROVE WireInv'
  <2>. SUFFICES ASSUME NEW h \in Hubs
                PROVE  /\ \A i, j \in 1..Len(wire'[h]) : wire'[h][i] = wire'[h][j] => i = j
                       /\ \A i \in 1..Len(wire'[h]) :
                           pc'[wire'[h][i]] = "sent" /\ target'[wire'[h][i]] = h
    BY DEF WireInv
  <2>1. /\ pc[r] = "invoking" /\ pc'[r] = "sent" /\ target' = target
        /\ \A q \in Reports \ {r} : pc'[q] = pc[q]
        /\ wire' = [wire EXCEPT ![target[r]] = Append(wire[target[r]], r)]
    BY <1>0, <1>7 DEF InvokeAsync, Proceed, TypeOK
  <2>2. \A i \in 1..Len(wire[h]) : wire[h][i] \in Reports /\ wire[h][i] # r
    BY <1>0, <2>1 DEF WireInv
  <2>3. CASE h # target[r]
    <3>1. wire'[h] = wire[h]
      BY <2>1, <2>3 DEF TypeOK
    <3>. QED
      BY <2>1, <2>2, <3>1 DEF WireInv
  <2>4. CASE h = target[r]
    <3>1. /\ Len(wire'[h]) = Len(wire[h]) + 1 /\ Len(wire[h]) \in Nat
          /\ \A i \in 1..Len(wire[h]) : wire'[h][i] = wire[h][i]
          /\ wire'[h][Len(wire[h]) + 1] = r
      BY <1>0, <2>1, <2>4, AppendProperties DEF TypeOK
    <3>2. \A i \in 1..Len(wire'[h]) : i \in 1..Len(wire[h]) \/ i = Len(wire[h]) + 1
      BY <3>1
    <3>3. \A i \in 1..Len(wire[h]) : pc'[wire[h][i]] = "sent" /\ target'[wire[h][i]] = h
      BY <2>1, <2>2 DEF WireInv
    <3>4. \A i, j \in 1..Len(wire[h]) : wire[h][i] = wire[h][j] => i = j
      BY DEF WireInv
    <3>5. \A i, j \in 1..Len(wire'[h]) : wire'[h][i] = wire'[h][j] => i = j
      BY <2>2, <3>1, <3>2, <3>4
    <3>6. ASSUME NEW i \in 1..Len(wire'[h])
          PROVE  pc'[wire'[h][i]] = "sent" /\ target'[wire'[h][i]] = h
      BY <2>1, <2>4, <3>1, <3>2, <3>3
    <3>. QED
      BY <3>5, <3>6
  <2>. QED
    BY <2>3, <2>4
<1>8. ASSUME NEW h \in Hubs, Drop(h) PROVE WireInv'
  <2>1. wire' = [wire EXCEPT ![h] = << >>] /\ target' = target
    BY <1>8 DEF Drop, DropWith
  <2>2. ASSUME NEW g \in Hubs, NEW i \in 1..Len(wire'[g])
        PROVE  pc'[wire'[g][i]] = pc[wire'[g][i]]
    <3>1. g # h /\ wire'[g] = wire[g] /\ wire[g][i] \in Reports /\ target[wire[g][i]] = g
      BY <1>0, <2>1, <2>2 DEF WireInv, TypeOK
    <3>2. wire[g][i] \notin Unanswered(h)
      BY <3>1 DEF Unanswered
    <3>. QED
      BY <1>0, <1>8, <3>1, <3>2 DEF Drop, DropWith
  <2>3. \A g \in Hubs : wire'[g] = wire[g] \/ wire'[g] = << >>
    BY <2>1 DEF TypeOK
  <2>. QED
    BY <2>1, <2>2, <2>3, WireShrinks
<1>9. ASSUME NEW h \in Hubs, BeginBroadcast(h) PROVE WireInv'
  <2>1. wire[h] # << >> /\ wire' = [wire EXCEPT ![h] = Tail(wire[h])] /\ target' = target
    BY <1>9 DEF BeginBroadcast
  <2>2. ASSUME NEW g \in Hubs, NEW i \in 1..Len(wire'[g])
        PROVE  pc'[wire'[g][i]] = pc[wire'[g][i]]
    <3>1. Head(wire[h]) = wire[h][1] /\ 1 \in 1..Len(wire[h])
      BY <1>0, <2>1
    <3>2. wire'[g][i] \in Reports /\ wire'[g][i] # wire[h][1]
      <4>1. CASE g = h
        <5>1. wire'[g][i] = wire[h][i + 1] /\ i + 1 \in 1..Len(wire[h]) /\ i + 1 # 1
          BY <1>0, <2>1, <2>2, <4>1, HeadTailProperties DEF TypeOK
        <5>. QED
          BY <1>0, <3>1, <5>1 DEF WireInv
      <4>2. CASE g # h
        <5>1. wire'[g] = wire[g]
          BY <2>1, <4>2 DEF TypeOK
        <5>. QED
          BY <1>0, <2>2, <3>1, <4>2, <5>1 DEF WireInv
      <4>. QED
        BY <4>1, <4>2
    <3>. QED
      BY <1>0, <1>9, <3>1, <3>2 DEF BeginBroadcast, TypeOK
  <2>3. \A g \in Hubs : wire'[g] = wire[g] \/ (wire[g] # << >> /\ wire'[g] = Tail(wire[g]))
    BY <2>1 DEF TypeOK
  <2>. QED
    BY <2>1, <2>2, <2>3, WireShrinks
<1>. QED
  BY <1>3, <1>4, <1>5, <1>6, <1>7, <1>8, <1>9 DEF Next, Process

\* The inductive invariant of the plug-in: connections exist once they are used,
\* every set flag has a reset or trouble behind it, and what is on a wire was
\* sent once.
THEOREM LiveInvariant == Spec => []LiveInv
<1>1. LiveInv /\ [Next]_vars => LiveInv'
  BY StepTypes, StepHubInv, StepFlagInv, StepCauseInv, StepWireInv DEF LiveInv
<1>. QED
  BY <1>1, InitLiveInv, PTL DEF Spec

\* The plug-in, the hub and the pages stay well typed: connections, reports and
\* calls of StartAsync stay within their bounds, and no column of a page grows
\* beyond maxLength.
THEOREM LiveReportTypes == Spec => []TypeOK
<1>1. LiveInv => TypeOK
  BY DEF LiveInv
<1>. QED
  BY <1>1, LiveInvariant, PTL

\* Once there is a connection, a report is lost only if a connection dropped or
\* failed to start, or if it read Hub before the start had begun, however
\* reports, reconfigurations and Closed handlers interleave.
THEOREM LossesHaveCause == Spec => []LossHasCause
<1>1. LiveInv => LossHasCause
  BY DEF LiveInv, CauseInv, LossHasCause
<1>. QED
  BY <1>1, LiveInvariant, PTL

\* FailedReconfigure outlasts every Configure only if a connection dropped or
\* failed to start, however many of them overlap and replace Hub.
THEOREM FlagsMeanTrouble == Spec => []FlagMeansTrouble
<1>1. LiveInv => FlagMeansTrouble
  BY DEF LiveInv, FlagInv, FlagMeansTrouble, Resetting, Configuring
<1>. QED
  BY <1>1, LiveInvariant, PTL

\* No report is delivered twice, or both delivered and lost.
THEOREM ReportsEndOnce == Spec => OutcomesFinal
<1>1. LiveInv /\ [Next]_vars =>
        [\A r \in Reports : pc[r] \in {"delivered", "lost"} => pc'[r] = pc[r]]_vars
  <2>. SUFFICES ASSUME LiveInv, [Next]_vars, NEW r \in Reports, pc[r] \in {"delivered", "lost"}
                PROVE  pc'[r] = pc[r]
    OBVIOUS
  <2>1. CallerMove(r)
    BY StepMoves DEF LiveInv, Callers
  <2>. QED
    BY <2>1 DEF CallerMove, Moves
<1>. QED
  BY <1>1, LiveInvariant, PTL DEF Spec, OutcomesFinal

----------------------------------------------------------------------------
\* What pages show

Card(p, r) == In(column[p][KindOf[r]], r)

\* A report that is written to a page is in one place there, and only pages that
\* were opened have one.
PlaceInv ==
    /\ \A p \in Pages : Distinct(inbox[p]) /\ \A k \in Kinds : Distinct(column[p][k])
    /\ \A p \in Pages, r \in Reports :
        /\ Card(p, r) => ~In(inbox[p], r) /\ p \notin pending[r]
        /\ In(inbox[p], r) => p \notin pending[r]
        /\ Card(p, r) \/ In(inbox[p], r) => pc[r] \in {"sending", "delivered", "lost"}
                                          /\ page[p] # "closed"
        /\ p \in pending[r] => pc[r] \in {"sending", "lost"} /\ page[p] = "open"

\* Of one connection, one report at a time is written to the pages, and nothing is
\* above it.
OrderInv ==
    /\ \A r, s \in Reports :
        pc[r] = "sending" /\ pc[s] = "sending" /\ target[r] = target[s] => r = s
    /\ \A p \in Pages, r, s \in Reports :
        page[p] = "open" /\ Comparable(r, s) /\ pc[s] = "sending" => ~Above(p, r, s)
    /\ PagesAgree

PageInv == PlaceInv /\ OrderInv

\* Pages go on to agree when a step only takes cards away.
LEMMA OrderKept ==
    ASSUME OrderInv,
           \A r \in Reports : pc'[r] = "sending" => pc[r] = "sending" /\ target'[r] = target[r],
           \A r, s \in Reports : Comparable(r, s)' => Comparable(r, s),
           \A p \in Pages : page'[p] = "open" => page[p] = "open",
           \A p \in Pages, r, s \in Reports : page'[p] = "open" /\ Comparable(r, s) =>
               /\ Above(p, r, s)' => Above(p, r, s)
               /\ Shows(p, s)' => Shows(p, s)
               /\ Above(p, r, s) /\ Shows(p, s)' => Above(p, r, s)'
    PROVE  OrderInv'
<1>1. \A r, s \in Reports :
        pc'[r] = "sending" /\ pc'[s] = "sending" /\ target'[r] = target'[s] => r = s
  BY DEF OrderInv
<1>2. \A p \in Pages, r, s \in Reports :
        page'[p] = "open" /\ Comparable(r, s)' /\ pc'[s] = "sending" => ~(Above(p, r, s)')
  BY DEF OrderInv
<1>3. ASSUME NEW p \in Pages, NEW q \in Pages, NEW r \in Reports, NEW s \in Reports,
             page'[p] = "open", page'[q] = "open", Comparable(r, s)',
             Above(p, r, s)', Shows(q, s)'
      PROVE  Above(q, r, s)'
  <2>1. Comparable(r, s) /\ Above(p, r, s) /\ Shows(q, s) /\ page[p] = "open" /\ page[q] = "open"
    BY <1>3
  <2>2. Above(q, r, s)
    BY <2>1 DEF OrderInv, PagesAgree
  <2>. QED
    BY <1>3, <2>1, <2>2
<1>4. PagesAgree'
  BY <1>3 DEF PagesAgree
<1>. QED
  BY <1>1, <1>2, <1>4 DEF OrderInv

PagesStay == page' = page /\ inbox' = inbox /\ column' = column /\ pending' = pending

\* Reports may move on while nothing is written to a page.
LEMMA QuietPages ==
    ASSUME PageInv, PagesStay,
           \A r \in Reports :
               \/ pc'[r] = pc[r] /\ target'[r] = target[r]
               \/ pc[r] \notin {"sending", "delivered", "lost"} /\ pc'[r] \notin {"sending", "delivered"}
               \/ pc[r] = "sending" /\ pc'[r] = "lost"
               \/ /\ pc[r] = "sending" /\ pc'[r] = "delivered" /\ pending[r] = {}
                  /\ target'[r] = target[r]
    PROVE  PageInv'
<1>0. page' = page /\ inbox' = inbox /\ column' = column /\ pending' = pending
  BY DEF PagesStay
<1>1. PlaceInv'
  BY <1>0 DEF PageInv, PlaceInv, Card
<1>2. \A p \in Pages, r, s \in Reports :
        (Above(p, r, s)' <=> Above(p, r, s)) /\ (Shows(p, s)' <=> Shows(p, s))
  BY <1>0 DEF Above, Shows
<1>3. \A r, s \in Reports : Comparable(r, s)' => Comparable(r, s)
  BY DEF Comparable
<1>4. \A r \in Reports : pc'[r] = "sending" => pc[r] = "sending" /\ target'[r] = target[r]
  OBVIOUS
<1>5. OrderInv'
  BY <1>0, <1>2, <1>3, <1>4, OrderKept DEF PageInv
<1>. QED
  BY <1>1, <1>5 DEF PageInv

\* The plug-in does not touch the pages.
LEMMA PluginPages ==
    ASSUME LiveInv, PageInv,
           \/ UNCHANGED vars \/ Reconnect \/ \E c \in Callers : Configure(c)
           \/ \E h \in Hubs : Start(h) \/ StartAsync(h) \/ Drop(h)
           \/ \E r \in Reports : Report(r) \/ Process(r) \/ EndBroadcast(r)
    PROVE  PageInv'
<1>0. TypeOK /\ Reports \subseteq Callers /\ \A d \in Callers : CallerMove(d)
  <2>1. [Next]_vars
    BY DEF Next
  <2>. QED
    BY <2>1, StepMoves DEF LiveInv, Callers
<1>1. ASSUME PagesStay,
             \A d \in Reports : pc'[d] = "sending" => pc[d] = "sending",
             \A d \in Reports : pc'[d] = "delivered" => pc[d] = "delivered" \/ pending[d] = {}
      PROVE  PageInv'
  <2>1. ASSUME NEW r \in Reports
        PROVE  \/ pc'[r] = pc[r] /\ target'[r] = target[r]
               \/ pc[r] \notin {"sending", "delivered", "lost"} /\ pc'[r] \notin {"sending", "delivered"}
               \/ pc[r] = "sending" /\ pc'[r] = "lost"
               \/ /\ pc[r] = "sending" /\ pc'[r] = "delivered" /\ pending[r] = {}
                  /\ target'[r] = target[r]
    <3>1. CallerMove(r)
      BY <1>0
    <3>2. /\ pc'[r] = "sending" => pc[r] = "sending"
          /\ pc'[r] = "delivered" => pc[r] = "delivered" \/ pending[r] = {}
      BY <1>1
    <3>3. pc[r] \in {"delivered", "lost"} => pc'[r] = pc[r] /\ target'[r] = target[r]
      BY <3>1 DEF CallerMove, Moves
    <3>4. \/ pc'[r] = pc[r] /\ target'[r] = target[r]
          \/ pc'[r] \notin {"sending", "delivered"}
          \/ pc'[r] = "delivered" /\ pc[r] = "sending" /\ target'[r] = target[r]
      BY <3>1, <3>2 DEF CallerMove, Moves, EndOf
    <3>5. pc[r] = "sending" => pc'[r] \in {"sending", "delivered", "lost"}
      BY <3>1 DEF CallerMove, Moves
    <3>. QED
      BY <3>2, <3>3, <3>4, <3>5
  <2>. QED
    BY <1>1, <2>1, QuietPages
<1>2. CASE UNCHANGED vars \/ Reconnect \/ \E h \in Hubs : StartAsync(h)
  <2>1. pc' = pc /\ PagesStay
    BY <1>2 DEF vars, PagesStay, pageVars, serverVars, Reconnect, StartAsync
  <2>. QED
    BY <1>1, <2>1
<1>3. ASSUME NEW c \in Callers, Configure(c) PROVE PageInv'
  <2>1. PagesStay
    <3>1. Build(c) \/ Subscribe(c) \/ StartHub(c) \/ StartHubLocked(c)
      BY <1>3 DEF Configure
    <3>2. UNCHANGED <<serverVars, pageVars>>
      BY <3>1, Zenon DEF Build, Subscribe, StartHub, StartHubLocked
    <3>. QED
      BY <3>2 DEF serverVars, pageVars, PagesStay
  <2>2. \A d \in Callers : pc'[d] = pc[d] \/ pc'[d] \notin {"sending", "delivered"}
    <3>1. \E l \in {"subscribing", "starting", AfterCall(c, hub), AfterCall(c, target[c])} :
              pc' = [pc EXCEPT ![c] = l]
      BY <1>3 DEF Configure, Build, Subscribe, StartHub, StartHubLocked, Proceed
    <3>2. pc[c] \in {"building", "subscribing", "starting", "waiting"}
      BY <1>3 DEF Configure, Build, Subscribe, StartHub, StartHubLocked, Proceed
    <3>3. pc'[c] \in {"building", "subscribing", "starting", "waiting", "awaiting", EndOf(c)}
      <4>1. CallerMove(c)
        BY <1>0
      <4>. QED
        BY <3>2, <4>1 DEF CallerMove, Moves
    <3>. QED
      BY <3>1, <3>3 DEF EndOf
  <2>. QED
    BY <1>0, <1>1, <2>1, <2>2
<1>4. ASSUME NEW h \in Hubs, Start(h) PROVE PageInv'
  <2>1. PagesStay /\ Resume(h)
    BY <1>4 DEF Start, StartSucceeds, StartFails, serverVars, pageVars, PagesStay
  <2>2. \A d \in Callers : pc'[d] = pc[d] \/ pc'[d] \notin {"sending", "delivered"}
    BY <2>1 DEF Resume, EndOf
  <2>. QED
    BY <1>0, <1>1, <2>1, <2>2
<1>5. ASSUME NEW h \in Hubs, Drop(h) PROVE PageInv'
  <2>1. PagesStay
    BY <1>5 DEF Drop, DropWith, pageVars, PagesStay
  <2>2. \A d \in Callers : pc'[d] = pc[d] \/ pc'[d] \notin {"sending", "delivered"}
    BY <1>5 DEF Drop, DropWith
  <2>. QED
    BY <1>0, <1>1, <2>1, <2>2
<1>6. ASSUME NEW r \in Reports, Report(r) \/ Process(r) PROVE PageInv'
  <2>1. PagesStay
    BY <1>6 DEF Report, Process, InvokeAsync, RecoverInvalidState, Reconfigure, serverVars, pageVars, PagesStay
  <2>2. \A d \in Callers : pc'[d] = pc[d] \/ pc'[d] \notin {"sending", "delivered"}
    BY <1>0, <1>6 DEF Report, Process, InvokeAsync, RecoverInvalidState, Reconfigure, Proceed,
                      AfterException, TypeOK
  <2>. QED
    BY <1>0, <1>1, <2>1, <2>2
<1>7. ASSUME NEW r \in Reports, EndBroadcast(r) PROVE PageInv'
  <2>1. PagesStay /\ pending[r] = {}
    BY <1>7 DEF EndBroadcast, serverVars, pageVars, PagesStay
  <2>2. /\ \A d \in Callers \ {r} : pc'[d] = pc[d]
        /\ pc'[r] = "delivered"
    BY <1>0, <1>7 DEF EndBroadcast, Proceed, TypeOK
  <2>. QED
    BY <1>0, <1>1, <2>1, <2>2
<1>. QED
  BY <1>2, <1>3, <1>4, <1>5, <1>6, <1>7

\* A report moves from the hub to the inbox of a page.
LEMMA SendToPages ==
    ASSUME LiveInv, PageInv, NEW x \in Reports, NEW y \in Pages, SendTo(x, y)
    PROVE  PageInv'
<1>0. /\ pc' = pc /\ target' = target /\ page' = page /\ column' = column
      /\ y \in pending[x] /\ PlaceInv /\ OrderInv
      /\ \A p \in Pages : inbox[p] \in Seq(Reports)
      /\ \A p \in Pages : inbox'[p] = IF p = y THEN Append(inbox[p], x) ELSE inbox[p]
      /\ \A p \in Pages, r \in Reports : p \in pending'[r] <=> p \in pending[r] /\ ~(p = y /\ r = x)
  <2>1. /\ pc' = pc /\ target' = target /\ page' = page /\ column' = column
        /\ y \in pending[x] /\ PlaceInv /\ OrderInv
        /\ pending' = [pending EXCEPT ![x] = pending[x] \ {y}]
        /\ inbox' = [inbox EXCEPT ![y] = Append(inbox[y], x)]
    BY DEF SendTo, PageInv
  <2>2. pending \in [Reports -> SUBSET Pages] /\ inbox \in [Pages -> Seq(Reports)]
    BY DEF LiveInv, TypeOK
  <2>. QED
    BY <2>1, <2>2
<1>1. \A p \in Pages, r \in Reports : In(inbox'[p], r) <=> In(inbox[p], r) \/ (p = y /\ r = x)
  <2>1. \A r \in Reports : In(Append(inbox[y], x), r) <=> In(inbox[y], r) \/ r = x
    BY <1>0, AppendPlaces
  <2>. QED
    BY <1>0, <2>1
<1>2. \A p \in Pages, r, s \in Reports :
        After(inbox'[p], r, s) <=> After(inbox[p], r, s) \/ (p = y /\ r = x /\ In(inbox[p], s))
  BY <1>0, AppendPlaces
<1>3. PlaceInv'
  <2>1. \A p \in Pages : Distinct(inbox'[p]) /\ \A k \in Kinds : Distinct(column'[p][k])
    BY <1>0, AppendPlaces DEF PlaceInv
  <2>2. \A p \in Pages, r \in Reports : Card(p, r)' <=> Card(p, r)
    BY <1>0 DEF Card
  <2>3. ASSUME NEW p \in Pages, NEW r \in Reports
        PROVE  /\ Card(p, r)' => ~In(inbox'[p], r) /\ p \notin pending'[r]
               /\ In(inbox'[p], r) => p \notin pending'[r]
               /\ Card(p, r)' \/ In(inbox'[p], r) => pc'[r] \in {"sending", "delivered", "lost"}
                                                  /\ page'[p] # "closed"
               /\ p \in pending'[r] => pc'[r] \in {"sending", "lost"} /\ page'[p] = "open"
    BY <1>0, <1>1, <2>2 DEF PlaceInv
  <2>. QED
    BY <2>1, <2>3 DEF PlaceInv
<1>4. ASSUME NEW p \in Pages, NEW r \in Reports, NEW s \in Reports, Comparable(r, s)
      PROVE  (Above(p, r, s)' <=> Above(p, r, s)) /\ (Shows(p, s)' <=> Shows(p, s))
  <2>1. Shows(p, s)' <=> Shows(p, s)
    BY <1>0, <1>1 DEF Shows
  <2>2. ~(s = x /\ p = y /\ p \in pending'[r])
    <3>. SUFFICES ASSUME s = x, p = y, p \in pending'[r] PROVE FALSE
      OBVIOUS
    <3>0. p \in pending[r] /\ p \in pending[s] /\ r # x
      BY <1>0
    <3>2. pc[r] \in {"sending", "lost"} /\ pc[s] \in {"sending", "lost"}
      BY <1>0, <3>0 DEF PlaceInv
    <3>3. {pc[r], pc[s]} \subseteq {"sending", "delivered"} /\ target[r] = target[s]
      BY <1>4 DEF Comparable
    <3>1. r # x /\ pc[r] = "sending" /\ pc[s] = "sending" /\ target[r] = target[s]
      BY <3>0, <3>2, <3>3
    <3>. QED
      BY <1>0, <3>1 DEF OrderInv
  <2>3. In(column'[p][KindOf[s]], s) <=> In(column[p][KindOf[s]], s)
    BY <1>0
  <2>. QED
    BY <1>0, <1>1, <1>2, <2>1, <2>2, <2>3 DEF Above
<1>5. OrderInv'
  <2>1. \A r, s \in Reports : Comparable(r, s)' <=> Comparable(r, s)
    BY <1>0 DEF Comparable
  <2>2. \A p \in Pages, r, s \in Reports : page'[p] = "open" /\ Comparable(r, s) =>
            /\ Above(p, r, s)' => Above(p, r, s)
            /\ Shows(p, s)' => Shows(p, s)
            /\ Above(p, r, s) /\ Shows(p, s)' => Above(p, r, s)'
    BY <1>4
  <2>3. \A p \in Pages : page'[p] = "open" => page[p] = "open"
    BY <1>0
  <2>4. \A r \in Reports : pc'[r] = "sending" => pc[r] = "sending" /\ target'[r] = target[r]
    BY <1>0
  <2>. QED
    BY <1>0, <2>1, <2>2, <2>3, <2>4, OrderKept
<1>. QED
  BY <1>3, <1>5 DEF PageInv

\* What a page shows when a card moves from its inbox x onto column c, which
\* becomes d, and in is left.
LEMMA ReceivePlaces ==
    ASSUME LiveInv, PageInv, NEW y \in Pages, Receive(y)
    PROVE  \E x \in Reports :
            /\ \A r \in Reports : In(inbox[y], r) <=> r = x \/ In(inbox'[y], r)
            /\ \A r, s \in Reports : After(inbox[y], r, s) <=>
                   After(inbox'[y], r, s) \/ (s = x /\ In(inbox'[y], r))
            /\ ~In(inbox'[y], x) /\ Distinct(inbox'[y])
            /\ \A k \in Kinds : Distinct(column'[y][k])
            /\ Card(y, x)'
            /\ \A r \in Reports : Card(y, r)' => r = x \/ Card(y, r)
            /\ \A r \in Reports : KindOf[r] # KindOf[x] => column'[y][KindOf[r]] = column[y][KindOf[r]]
            /\ \A s \in Reports : KindOf[s] = KindOf[x] =>
                   /\ Card(y, s)' /\ s # x => After(column'[y][KindOf[s]], s, x)
                   /\ \A r \in Reports : After(column'[y][KindOf[s]], s, r) =>
                          After(column[y][KindOf[s]], s, r) \/ (r = x /\ Card(y, s))
                   /\ \A r \in Reports : Card(y, s)' /\ s # x /\ After(column[y][KindOf[s]], s, r) =>
                          After(column'[y][KindOf[s]], s, r)
            /\ \A p \in Pages \ {y} : inbox'[p] = inbox[p] /\ column'[p] = column[p]
<1>1. inbox[y] \in Seq(Reports) /\ inbox[y] # << >> /\ Distinct(inbox[y])
  BY DEF Receive, LiveInv, TypeOK, PageInv, PlaceInv
<1>0. PICK x \in Reports : x = Head(inbox[y])
  BY <1>1, TailPlaces
<1>. DEFINE cards == column[y][KindOf[x]]
            new == InsertCard(cards, x)
<1>2. /\ ~In(Tail(inbox[y]), x) /\ Distinct(Tail(inbox[y]))
      /\ \A r \in Reports : In(inbox[y], r) <=> r = x \/ In(Tail(inbox[y]), r)
      /\ \A r, s \in Reports : After(inbox[y], r, s) <=>
             After(Tail(inbox[y]), r, s) \/ (s = x /\ In(Tail(inbox[y]), r))
  BY <1>0, <1>1, TailPlaces
<1>3. inbox'[y] = Tail(inbox[y]) /\ \A p \in Pages \ {y} : inbox'[p] = inbox[p]
  BY DEF Receive, LiveInv, TypeOK
<1>4. KindOf[x] \in Kinds /\ column[y] \in [Kinds -> Seq(CardSet)]
  BY <1>2 DEF Kinds, LiveInv, TypeOK, CardSet
<1>5. cards \in Seq(CardSet) /\ Len(cards) \in 1..MaxLength /\ Distinct(cards)
  BY <1>4 DEF LiveInv, TypeOK, PageInv, PlaceInv
<1>6. ~In(cards, x)
  <2>1. In(inbox[y], x)
    BY <1>2
  <2>. QED
    BY <1>2, <2>1 DEF PageInv, PlaceInv, Card
<1>7. column' = [column EXCEPT ![y] = [column[y] EXCEPT ![KindOf[x]] = new]]
  BY <1>0 DEF Receive
<1>. HIDE DEF new
<1>8. /\ column'[y][KindOf[x]] = new
      /\ \A k \in Kinds \ {KindOf[x]} : column'[y][k] = column[y][k]
      /\ \A p \in Pages \ {y} : column'[p] = column[p]
  BY <1>4, <1>7 DEF LiveInv, TypeOK
<1>. HIDE DEF cards
<1>9. /\ Distinct(new) /\ In(new, x)
      /\ \A r \in Reports : In(new, r) => r = x \/ In(cards, r)
      /\ \A r \in Reports : In(new, r) /\ r # x => After(new, r, x)
      /\ \A r, s \in Reports : After(new, r, s) =>
             After(cards, r, s) \/ (s = x /\ In(cards, r))
      /\ \A r, s \in Reports : In(new, r) /\ r # x /\ After(cards, r, s) => After(new, r, s)
  BY <1>2, <1>5, <1>6, InsertCardPlaces DEF new
<1>10. \A k \in Kinds : Distinct(column'[y][k])
  BY <1>8, <1>9 DEF PageInv, PlaceInv
<1>11. \A r \in Reports : KindOf[r] \in Kinds
  BY DEF Kinds
<1>12. /\ Card(y, x)'
       /\ \A r \in Reports : Card(y, r)' => r = x \/ Card(y, r)
       /\ \A r \in Reports : KindOf[r] # KindOf[x] => column'[y][KindOf[r]] = column[y][KindOf[r]]
  <2>1. \A r \in Reports : KindOf[r] # KindOf[x] => column'[y][KindOf[r]] = column[y][KindOf[r]]
    BY <1>8, <1>11
  <2>2. Card(y, x)'
    BY <1>2, <1>8, <1>9 DEF Card
  <2>3. ASSUME NEW r \in Reports, Card(y, r)' PROVE r = x \/ Card(y, r)
    <3>1. In(column'[y][KindOf[r]], r)
      BY <2>3 DEF Card
    <3>2. CASE KindOf[r] = KindOf[x]
      BY <1>8, <1>9, <3>1, <3>2 DEF Card, cards
    <3>3. CASE KindOf[r] # KindOf[x]
      BY <2>1, <3>1, <3>3 DEF Card
    <3>. QED
      BY <3>2, <3>3
  <2>. QED
    BY <2>1, <2>2, <2>3
<1>13. \A s \in Reports : KindOf[s] = KindOf[x] =>
           /\ Card(y, s)' /\ s # x => After(column'[y][KindOf[s]], s, x)
           /\ \A r \in Reports : After(column'[y][KindOf[s]], s, r) =>
                  After(column[y][KindOf[s]], s, r) \/ (r = x /\ Card(y, s))
           /\ \A r \in Reports : Card(y, s)' /\ s # x /\ After(column[y][KindOf[s]], s, r) =>
                  After(column'[y][KindOf[s]], s, r)
  <2>. SUFFICES ASSUME NEW s \in Reports, KindOf[s] = KindOf[x]
                PROVE  /\ Card(y, s)' /\ s # x => After(column'[y][KindOf[s]], s, x)
                       /\ \A r \in Reports : After(column'[y][KindOf[s]], s, r) =>
                              After(column[y][KindOf[s]], s, r) \/ (r = x /\ Card(y, s))
                       /\ \A r \in Reports :
                              Card(y, s)' /\ s # x /\ After(column[y][KindOf[s]], s, r) =>
                                  After(column'[y][KindOf[s]], s, r)
    OBVIOUS
  <2>1. column'[y][KindOf[s]] = new /\ column[y][KindOf[s]] = cards
    BY <1>8 DEF cards
  <2>2. (Card(y, s) <=> In(cards, s)) /\ (Card(y, s)' <=> In(new, s))
    BY <2>1 DEF Card
  <2>. QED
    BY <1>9, <2>1, <2>2
<1>. QED
  BY <1>2, <1>3, <1>8, <1>10, <1>12, <1>13

\* A report moves from the inbox of a page to its column.
LEMMA ReceivePages ==
    ASSUME LiveInv, PageInv, NEW y \in Pages, Receive(y)
    PROVE  PageInv'
<1>0. /\ pc' = pc /\ target' = target /\ page' = page /\ pending' = pending
      /\ PlaceInv /\ OrderInv
  BY DEF Receive, serverVars, PageInv
<1>1. PICK x \in Reports :
        /\ \A r \in Reports : In(inbox[y], r) <=> r = x \/ In(inbox'[y], r)
        /\ \A r, s \in Reports : After(inbox[y], r, s) <=>
               After(inbox'[y], r, s) \/ (s = x /\ In(inbox'[y], r))
        /\ ~In(inbox'[y], x) /\ Distinct(inbox'[y])
        /\ \A k \in Kinds : Distinct(column'[y][k])
        /\ Card(y, x)'
        /\ \A r \in Reports : Card(y, r)' => r = x \/ Card(y, r)
        /\ \A r \in Reports : KindOf[r] # KindOf[x] => column'[y][KindOf[r]] = column[y][KindOf[r]]
        /\ \A s \in Reports : KindOf[s] = KindOf[x] =>
               /\ Card(y, s)' /\ s # x => After(column'[y][KindOf[s]], s, x)
               /\ \A r \in Reports : After(column'[y][KindOf[s]], s, r) =>
                      After(column[y][KindOf[s]], s, r) \/ (r = x /\ Card(y, s))
               /\ \A r \in Reports : Card(y, s)' /\ s # x /\ After(column[y][KindOf[s]], s, r) =>
                      After(column'[y][KindOf[s]], s, r)
        /\ \A p \in Pages \ {y} : inbox'[p] = inbox[p] /\ column'[p] = column[p]
  BY ReceivePlaces
<1>2. \A p \in Pages \ {y}, r \in Reports : Card(p, r)' <=> Card(p, r)
  BY <1>1 DEF Card
<1>3. PlaceInv'
  <2>1. \A p \in Pages : Distinct(inbox'[p]) /\ \A k \in Kinds : Distinct(column'[p][k])
    BY <1>0, <1>1 DEF PlaceInv
  <2>2. ASSUME NEW p \in Pages, NEW r \in Reports
        PROVE  /\ Card(p, r)' => ~In(inbox'[p], r) /\ p \notin pending'[r]
               /\ In(inbox'[p], r) => p \notin pending'[r]
               /\ Card(p, r)' \/ In(inbox'[p], r) => pc'[r] \in {"sending", "delivered", "lost"}
                                                  /\ page'[p] # "closed"
               /\ p \in pending'[r] => pc'[r] \in {"sending", "lost"} /\ page'[p] = "open"
    <3>1. CASE p = y
      BY <1>0, <1>1, <3>1 DEF PlaceInv
    <3>2. CASE p # y
      <4>1. (Card(p, r)' <=> Card(p, r)) /\ inbox'[p] = inbox[p]
        BY <1>1, <1>2, <3>2
      <4>. QED
        BY <1>0, <4>1 DEF PlaceInv
    <3>. QED
      BY <3>1, <3>2
  <2>. QED
    BY <2>1, <2>2 DEF PlaceInv
<1>4. ASSUME NEW p \in Pages, NEW r \in Reports, NEW s \in Reports, KindOf[r] = KindOf[s]
      PROVE  /\ Above(p, r, s)' => Above(p, r, s)
             /\ Shows(p, s)' => Shows(p, s)
             /\ Above(p, r, s) /\ Shows(p, s)' => Above(p, r, s)'
  <2>1. CASE p # y
    BY <1>0, <1>1, <2>1 DEF Above, Shows
  <2>2. CASE p = y
    <3>1. Above(y, r, s) <=>
            \/ After(column[y][KindOf[s]], s, r)
            \/ Card(y, s) /\ (In(inbox[y], r) \/ y \in pending[r])
            \/ After(inbox[y], r, s)
            \/ In(inbox[y], s) /\ y \in pending[r]
      BY DEF Above, Card
    <3>2. Above(y, r, s)' <=>
            \/ After(column'[y][KindOf[s]], s, r)
            \/ Card(y, s)' /\ (In(inbox'[y], r) \/ y \in pending[r])
            \/ After(inbox'[y], r, s)
            \/ In(inbox'[y], s) /\ y \in pending[r]
      BY <1>0 DEF Above, Card
    <3>3. /\ Shows(y, s) <=> Card(y, s) \/ In(inbox[y], s) \/ y \in pending[s]
          /\ Shows(y, s)' <=> Card(y, s)' \/ In(inbox'[y], s) \/ y \in pending[s]
      BY <1>0 DEF Shows, Card
    <3>4. /\ Card(y, s) => ~In(inbox[y], s) /\ y \notin pending[s]
          /\ In(inbox[y], s) => y \notin pending[s]
      BY <1>0 DEF PlaceInv
    <3>5. After(column[y][KindOf[s]], s, r) => Card(y, s)
      BY DEF After, In, Card
    <3>6. Card(y, x)' /\ In(inbox[y], x) /\ (Card(y, s)' => s = x \/ Card(y, s))
          /\ (In(inbox[y], s) <=> s = x \/ In(inbox'[y], s))
          /\ (In(inbox[y], r) <=> r = x \/ In(inbox'[y], r))
          /\ (After(inbox[y], r, s) <=>
                 After(inbox'[y], r, s) \/ (s = x /\ In(inbox'[y], r)))
      BY <1>1
    <3>7. CASE KindOf[s] # KindOf[x]
      <4>1. column'[y][KindOf[s]] = column[y][KindOf[s]] /\ r # x /\ s # x
        BY <1>1, <1>4, <3>7
      <4>2. Card(y, s)' <=> Card(y, s)
        BY <4>1 DEF Card
      <4>. QED
        BY <2>2, <3>1, <3>2, <3>3, <3>6, <4>1, <4>2
    <3>8. CASE KindOf[s] = KindOf[x]
      <4>1. /\ Card(y, s)' /\ s # x => After(column'[y][KindOf[s]], s, x)
            /\ After(column'[y][KindOf[s]], s, r) =>
                   After(column[y][KindOf[s]], s, r) \/ (r = x /\ Card(y, s))
            /\ Card(y, s)' /\ s # x /\ After(column[y][KindOf[s]], s, r) =>
                   After(column'[y][KindOf[s]], s, r)
        BY <1>1, <3>8
      <4>2. Above(y, r, s)' => Above(y, r, s)
        BY <3>1, <3>2, <3>6, <4>1
      <4>3. Shows(y, s)' => Shows(y, s)
        BY <3>3, <3>6
      <4>4. ASSUME Above(y, r, s), Shows(y, s)' PROVE Above(y, r, s)'
        <5>1. CASE Card(y, s)
          <6>1. Card(y, s)' /\ s # x /\ ~In(inbox'[y], s)
            BY <3>3, <3>4, <3>6, <4>4, <5>1
          <6>2. r = x => Above(y, r, s)'
            BY <3>2, <4>1, <6>1
          <6>3. After(inbox[y], r, s) => In(inbox[y], s)
            BY DEF After, In
          <6>. QED
            BY <3>1, <3>2, <3>4, <3>6, <4>1, <4>4, <5>1, <6>1, <6>2, <6>3
        <5>2. CASE ~Card(y, s)
          BY <3>1, <3>2, <3>5, <3>6, <4>4, <5>2
        <5>. QED
          BY <5>1, <5>2
      <4>. QED
        BY <2>2, <4>2, <4>3, <4>4
    <3>. QED
      BY <3>7, <3>8
  <2>. QED
    BY <2>1, <2>2
<1>5. OrderInv'
  <2>1. \A r, s \in Reports : Comparable(r, s)' <=> Comparable(r, s)
    BY <1>0 DEF Comparable
  <2>2. \A p \in Pages, r, s \in Reports : page'[p] = "open" /\ Comparable(r, s) =>
            /\ Above(p, r, s)' => Above(p, r, s)
            /\ Shows(p, s)' => Shows(p, s)
            /\ Above(p, r, s) /\ Shows(p, s)' => Above(p, r, s)'
    BY <1>4 DEF Comparable
  <2>3. \A p \in Pages : page'[p] = "open" => page[p] = "open"
    BY <1>0
  <2>4. \A r \in Reports : pc'[r] = "sending" => pc[r] = "sending" /\ target'[r] = target[r]
    BY <1>0
  <2>. QED
    BY <1>0, <2>1, <2>2, <2>3, <2>4, OrderKept
<1>. QED
  BY <1>3, <1>5 DEF PageInv

\* A page that loses its connection receives nothing any more.
LEMMA LosePages ==
    ASSUME LiveInv, PageInv, NEW y \in Pages, LosePage(y)
    PROVE  PageInv'
<1>0. /\ pc' = pc /\ target' = target /\ column' = column
      /\ PlaceInv /\ OrderInv
      /\ page[y] = "open" /\ page'[y] = "stale" /\ \A p \in Pages \ {y} : page'[p] = page[p]
      /\ inbox'[y] = << >> /\ \A p \in Pages \ {y} : inbox'[p] = inbox[p]
      /\ \A p \in Pages, r \in Reports : p \in pending'[r] <=> p \in pending[r] /\ p # y
  <2>1. /\ page \in [Pages -> {"closed", "open", "stale"}] /\ inbox \in [Pages -> Seq(Reports)]
        /\ pending \in [Reports -> SUBSET Pages]
    BY DEF LiveInv, TypeOK
  <2>2. /\ pc' = pc /\ target' = target /\ column' = column
        /\ page[y] = "open" /\ page' = [page EXCEPT ![y] = "stale"]
        /\ inbox' = [inbox EXCEPT ![y] = << >>]
        /\ pending' = [r \in Reports |-> pending[r] \ {y}]
        /\ PlaceInv /\ OrderInv
    BY DEF LosePage, PageInv
  <2>. QED
    BY <2>1, <2>2
<1>1. /\ \A p \in Pages, r \in Reports : In(inbox'[p], r) <=> In(inbox[p], r) /\ p # y
      /\ \A p \in Pages, r \in Reports : Card(p, r)' <=> Card(p, r)
      /\ \A p \in Pages : Distinct(inbox[p]) => Distinct(inbox'[p])
  <2>1. DOMAIN << >> = {} /\ Len(<< >>) = 0
    OBVIOUS
  <2>2. Distinct(<< >>) /\ \A r : ~In(<< >>, r)
    BY <2>1 DEF In, Distinct
  <2>. QED
    BY <1>0, <2>2 DEF Card
<1>2. PlaceInv'
  <2>1. \A p \in Pages : Distinct(inbox'[p]) /\ \A k \in Kinds : Distinct(column'[p][k])
    BY <1>0, <1>1 DEF PlaceInv
  <2>2. ASSUME NEW p \in Pages, NEW r \in Reports
        PROVE  /\ Card(p, r)' => ~In(inbox'[p], r) /\ p \notin pending'[r]
               /\ In(inbox'[p], r) => p \notin pending'[r]
               /\ Card(p, r)' \/ In(inbox'[p], r) => pc'[r] \in {"sending", "delivered", "lost"}
                                                  /\ page'[p] # "closed"
               /\ p \in pending'[r] => pc'[r] \in {"sending", "lost"} /\ page'[p] = "open"
    BY <1>0, <1>1 DEF PlaceInv
  <2>. QED
    BY <2>1, <2>2 DEF PlaceInv
<1>3. ASSUME NEW p \in Pages, page'[p] = "open"
      PROVE  \A r, s \in Reports : (Above(p, r, s)' <=> Above(p, r, s)) /\ (Shows(p, s)' <=> Shows(p, s))
  <2>1. p # y /\ inbox'[p] = inbox[p]
    BY <1>0, <1>3
  <2>. QED
    BY <1>0, <2>1 DEF Above, Shows
<1>4. OrderInv'
  <2>1. \A r, s \in Reports : Comparable(r, s)' <=> Comparable(r, s)
    BY <1>0 DEF Comparable
  <2>2. \A p \in Pages, r, s \in Reports : page'[p] = "open" /\ Comparable(r, s) =>
            /\ Above(p, r, s)' => Above(p, r, s)
            /\ Shows(p, s)' => Shows(p, s)
            /\ Above(p, r, s) /\ Shows(p, s)' => Above(p, r, s)'
    BY <1>3
  <2>3. \A p \in Pages : page'[p] = "open" => page[p] = "open"
    BY <1>0
  <2>4. \A r \in Reports : pc'[r] = "sending" => pc[r] = "sending" /\ target'[r] = target[r]
    BY <1>0
  <2>. QED
    BY <1>0, <2>1, <2>2, <2>3, <2>4, OrderKept
<1>. QED
  BY <1>2, <1>4 DEF PageInv

\* A new page shows no card yet, and gets only reports that are being written.
LEMMA OpenPages ==
    ASSUME LiveInv, PageInv, NEW y \in Pages, OpenPage(y)
    PROVE  PageInv'
<1>0. PICK joined \in SUBSET {r \in Reports : pc[r] = "sending" \/ pending[r] # {}} :
        pending' = [r \in Reports |-> IF r \in joined THEN pending[r] \cup {y} ELSE pending[r]]
  BY DEF OpenPage
<1>1. /\ pc' = pc /\ target' = target /\ column' = column /\ inbox' = inbox
      /\ PlaceInv /\ OrderInv
      /\ page[y] = "closed" /\ page'[y] = "open" /\ \A p \in Pages \ {y} : page'[p] = page[p]
  <2>1. page \in [Pages -> {"closed", "open", "stale"}]
    BY DEF LiveInv, TypeOK
  <2>2. /\ pc' = pc /\ target' = target /\ column' = column /\ inbox' = inbox
        /\ page[y] = "closed" /\ page' = [page EXCEPT ![y] = "open"]
        /\ PlaceInv /\ OrderInv
    BY DEF OpenPage, PageInv
  <2>. QED
    BY <2>1, <2>2
<1>2. \A p \in Pages, r \in Reports : p \in pending'[r] <=> p \in pending[r] \/ (p = y /\ r \in joined)
  BY <1>0
<1>3. \A r \in joined : r \in Reports /\ pc[r] \in {"sending", "lost"}
  <2>1. \A r \in Reports : pending[r] \subseteq Pages
    BY DEF LiveInv, TypeOK
  <2>. QED
    BY <1>1, <2>1 DEF PlaceInv
<1>4. \A r \in Reports : ~Card(y, r) /\ ~In(inbox[y], r) /\ y \notin pending[r]
  BY <1>1 DEF PlaceInv
<1>5. \A p \in Pages, r \in Reports : Card(p, r)' <=> Card(p, r)
  BY <1>1 DEF Card
<1>6. PlaceInv'
  <2>1. \A p \in Pages : Distinct(inbox'[p]) /\ \A k \in Kinds : Distinct(column'[p][k])
    BY <1>1 DEF PlaceInv
  <2>2. ASSUME NEW p \in Pages, NEW r \in Reports
        PROVE  /\ Card(p, r)' => ~In(inbox'[p], r) /\ p \notin pending'[r]
               /\ In(inbox'[p], r) => p \notin pending'[r]
               /\ Card(p, r)' \/ In(inbox'[p], r) => pc'[r] \in {"sending", "delivered", "lost"}
                                                  /\ page'[p] # "closed"
               /\ p \in pending'[r] => pc'[r] \in {"sending", "lost"} /\ page'[p] = "open"
    BY <1>1, <1>2, <1>3, <1>4, <1>5 DEF PlaceInv
  <2>. QED
    BY <2>1, <2>2 DEF PlaceInv
<1>7. \A r, s \in Reports : Comparable(r, s)' <=> Comparable(r, s)
  BY <1>1 DEF Comparable
<1>8. ASSUME NEW p \in Pages \ {y}, NEW r \in Reports, NEW s \in Reports
      PROVE  (Above(p, r, s)' <=> Above(p, r, s)) /\ (Shows(p, s)' <=> Shows(p, s))
  BY <1>1, <1>2 DEF Above, Shows
<1>9. ASSUME NEW r \in Reports, NEW s \in Reports PROVE ~(Above(y, r, s)')
  <2>1. Above(y, r, s)' => Card(y, s)' \/ In(inbox'[y], s)
    BY DEF Above, After, In, Card
  <2>. QED
    BY <1>1, <1>4, <1>5, <2>1
<1>10. ASSUME NEW p \in Pages, NEW r \in Reports, NEW s \in Reports,
              page'[p] = "open", Comparable(r, s), pc[s] = "sending"
       PROVE  ~(Above(p, r, s)')
  BY <1>1, <1>8, <1>9, <1>10 DEF OrderInv
<1>11. ASSUME NEW p \in Pages, NEW q \in Pages, NEW r \in Reports, NEW s \in Reports,
              page'[p] = "open", page'[q] = "open", Comparable(r, s),
              Above(p, r, s)', Shows(q, s)'
       PROVE  Above(q, r, s)'
  <2>1. p # y /\ Above(p, r, s) /\ page[p] = "open"
    BY <1>1, <1>8, <1>9, <1>11
  <2>2. CASE q = y
    <3>1. Shows(y, s)' => Card(y, s)' \/ In(inbox'[y], s) \/ y \in pending'[s]
      BY DEF Shows, Card
    <3>2. s \in joined
      BY <1>1, <1>2, <1>4, <1>5, <1>11, <2>2, <3>1
    <3>3. pc[s] = "sending"
      BY <1>3, <1>11, <3>2 DEF Comparable
    <3>. QED
      BY <1>10, <1>11, <3>3
  <2>3. CASE q # y
    BY <1>1, <1>8, <1>11, <2>1, <2>3 DEF OrderInv, PagesAgree
  <2>. QED
    BY <2>2, <2>3
<1>12. PagesAgree'
  BY <1>7, <1>11 DEF PagesAgree
<1>13. OrderInv'
  BY <1>1, <1>7, <1>10, <1>12 DEF OrderInv
<1>. QED
  BY <1>6, <1>13 DEF PageInv

\* The next report of a connection goes on top of all the earlier ones, on every
\* page that is open.
LEMMA BeginPages ==
    ASSUME LiveInv, PageInv, NEW h \in Hubs, BeginBroadcast(h)
    PROVE  PageInv'
<1>0. PICK x \in Reports :
        /\ pc[x] = "sent" /\ target[x] = h /\ pc'[x] = "sending"
        /\ \A r \in Reports \ {x} : pc'[r] = pc[r] /\ pending'[r] = pending[r]
        /\ pending'[x] = {p \in Pages : page[p] = "open"}
  <2>1. Head(wire[h]) \in Reports /\ pc[Head(wire[h])] = "sent" /\ target[Head(wire[h])] = h
    BY WireHead DEF LiveInv, BeginBroadcast
  <2>2. pc \in [Callers -> PcSet] /\ pending \in [Reports -> SUBSET Pages] /\ Reports \subseteq Callers
    BY DEF LiveInv, TypeOK, PcSet, Callers
  <2>3. /\ pc' = [pc EXCEPT ![Head(wire[h])] = "sending"]
        /\ pending' = [pending EXCEPT ![Head(wire[h])] = {p \in Pages : page[p] = "open"}]
    BY DEF BeginBroadcast
  <2>4. PICK x \in Reports : x = Head(wire[h])
    BY <2>1
  <2>. QED
    BY <2>1, <2>2, <2>3, <2>4
<1>1. /\ target' = target /\ column' = column /\ inbox' = inbox /\ page' = page
      /\ PlaceInv /\ OrderInv
      /\ \A r \in Reports : target[r] = h => pc[r] # "sending"
  BY DEF BeginBroadcast, pageVars, PageInv
<1>2. \A p \in Pages : ~Card(p, x) /\ ~In(inbox[p], x) /\ p \notin pending[x]
  BY <1>0, <1>1 DEF PlaceInv
<1>3. \A p \in Pages, r \in Reports :
        p \in pending'[r] <=> IF r = x THEN page[p] = "open" ELSE p \in pending[r]
  BY <1>0
<1>4. \A p \in Pages, r \in Reports : Card(p, r)' <=> Card(p, r)
  BY <1>1 DEF Card
<1>5. PlaceInv'
  <2>1. \A p \in Pages : Distinct(inbox'[p]) /\ \A k \in Kinds : Distinct(column'[p][k])
    BY <1>1 DEF PlaceInv
  <2>2. ASSUME NEW p \in Pages, NEW r \in Reports
        PROVE  /\ Card(p, r)' => ~In(inbox'[p], r) /\ p \notin pending'[r]
               /\ In(inbox'[p], r) => p \notin pending'[r]
               /\ Card(p, r)' \/ In(inbox'[p], r) => pc'[r] \in {"sending", "delivered", "lost"}
                                                  /\ page'[p] # "closed"
               /\ p \in pending'[r] => pc'[r] \in {"sending", "lost"} /\ page'[p] = "open"
    BY <1>0, <1>1, <1>2, <1>3, <1>4 DEF PlaceInv
  <2>. QED
    BY <2>1, <2>2 DEF PlaceInv
<1>6. ASSUME NEW p \in Pages, NEW r \in Reports PROVE ~(Above(p, r, x)')
  <2>1. Above(p, r, x)' => Card(p, x)' \/ In(inbox'[p], x)
    BY DEF Above, After, In, Card
  <2>. QED
    BY <1>1, <1>2, <1>4, <2>1
<1>7. ASSUME NEW p \in Pages, NEW r \in Reports \ {x}, NEW s \in Reports \ {x}
      PROVE  (Above(p, r, s)' <=> Above(p, r, s)) /\ (Shows(p, s)' <=> Shows(p, s))
  BY <1>1, <1>3 DEF Above, Shows
<1>8. ASSUME NEW s \in Reports \ {x}, Comparable(x, s)' \/ Comparable(s, x)'
      PROVE  pc[s] = "delivered"
  <2>1. pc[s] \in {"sending", "delivered"} /\ target[s] = h
    BY <1>0, <1>1, <1>8 DEF Comparable
  <2>. QED
    BY <1>1, <2>1
<1>9. \A r, s \in Reports \ {x} : Comparable(r, s)' <=> Comparable(r, s)
  BY <1>0, <1>1 DEF Comparable
<1>10. ASSUME NEW r \in Reports, NEW s \in Reports, pc'[r] = "sending", pc'[s] = "sending",
              target'[r] = target'[s]
       PROVE  r = s
  BY <1>0, <1>1, <1>10 DEF OrderInv
<1>11. ASSUME NEW p \in Pages, NEW r \in Reports, NEW s \in Reports,
              page'[p] = "open", Comparable(r, s)', pc'[s] = "sending"
       PROVE  ~(Above(p, r, s)')
  <2>1. CASE s = x
    BY <1>6, <2>1
  <2>2. CASE s # x /\ r = x
    BY <1>0, <1>8, <1>11, <2>2
  <2>3. CASE s # x /\ r # x
    BY <1>0, <1>1, <1>7, <1>9, <1>11, <2>3 DEF OrderInv
  <2>. QED
    BY <2>1, <2>2, <2>3
<1>12. ASSUME NEW p \in Pages, NEW q \in Pages, NEW r \in Reports, NEW s \in Reports,
              page'[p] = "open", page'[q] = "open", Comparable(r, s)',
              Above(p, r, s)', Shows(q, s)'
       PROVE  Above(q, r, s)'
  <2>1. s # x
    BY <1>6, <1>12
  <2>2. CASE r = x
    <3>1. pc[s] = "delivered"
      BY <1>8, <1>12, <2>1, <2>2
    <3>2. q \notin pending'[s] /\ q \in pending'[x]
      BY <1>0, <1>1, <1>3, <1>12, <2>1, <3>1 DEF PlaceInv
    <3>3. Card(q, s)' \/ In(inbox'[q], s)
      BY <1>12, <3>2 DEF Shows, Card
    <3>. QED
      BY <2>2, <3>2, <3>3 DEF Above, Card
  <2>3. CASE r # x
    BY <1>1, <1>7, <1>9, <1>12, <2>1, <2>3 DEF OrderInv, PagesAgree
  <2>. QED
    BY <2>2, <2>3
<1>13. PagesAgree'
  BY <1>12 DEF PagesAgree
<1>14. OrderInv'
  BY <1>10, <1>11, <1>13 DEF OrderInv
<1>. QED
  BY <1>5, <1>14 DEF PageInv

LEMMA InitPageInv == Init => PageInv
<1>. SUFFICES ASSUME Init PROVE PageInv
  OBVIOUS
<1>0. Loading \notin Reports
  BY LoadingAssumption
<1>1. /\ \A p \in Pages : inbox[p] = << >> /\ page[p] = "closed"
      /\ \A p \in Pages, k \in Kinds : column[p][k] = <<Loading>>
      /\ \A r \in Reports : pending[r] = {} /\ pc[r] = "idle"
  BY <1>0, LoadingAssumption DEF Init, Callers
<1>2. \A r \in Reports : KindOf[r] \in Kinds
  BY DEF Kinds
<1>3. DOMAIN << >> = {} /\ DOMAIN <<Loading>> = 1..1 /\ <<Loading>>[1] = Loading
      /\ Len(<< >>) = 0 /\ Len(<<Loading>>) = 1 /\ \A i \in 1..1 : i = 1
  OBVIOUS
<1>4. Distinct(<< >>) /\ Distinct(<<Loading>>)
      /\ \A r \in Reports : ~In(<< >>, r) /\ ~In(<<Loading>>, r)
  BY <1>0, <1>3 DEF Distinct, In
<1>5. PlaceInv
  BY <1>1, <1>2, <1>4 DEF PlaceInv, Card
<1>6. \A r, s \in Reports : ~Comparable(r, s) /\ pc[r] # "sending"
  BY <1>1 DEF Comparable
<1>7. OrderInv
  BY <1>6 DEF OrderInv, PagesAgree
<1>. QED
  BY <1>5, <1>7 DEF PageInv

\* What is above a report on one page is above it on every connected page that
\* shows that report, for reports of one connection and kind that were not lost:
\* for any number of reports and pages, with pages that open while a report is
\* being written to the others and columns that drop their oldest cards.
THEOREM PagesShowTheSame == Spec => []PagesAgree
<1>1. LiveInv /\ PageInv /\ [Next]_vars => PageInv'
  <2>. SUFFICES ASSUME LiveInv, PageInv, [Next]_vars PROVE PageInv'
    OBVIOUS
  <2>1. CASE UNCHANGED vars
    BY <2>1, PluginPages
  <2>2. CASE Next
    BY <2>2, PluginPages, SendToPages, ReceivePages, LosePages, OpenPages, BeginPages DEF Next
  <2>. QED
    BY <2>1, <2>2
<1>2. PageInv => PagesAgree
  BY DEF PageInv, OrderInv
<1>. QED
  BY <1>1, <1>2, InitPageInv, LiveInvariant, PTL DEF Spec

=============================================================================
