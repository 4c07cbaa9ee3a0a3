------------------------ MODULE StatisticsPageProofs ------------------------
(***************************************************************************)
(* What the statistics page shows, for any tables, sources, and lengths of *)
(* the hour, the day and the lists.                                        *)
(***************************************************************************)
EXTENDS StatisticsPage, OverviewStatisticsProofs

----------------------------------------------------------------------------
\* The invariant

\* The number of attempts from an address among the first n.
IpCount(ip, n) == Cardinality({i \in 1..n : attempts[i].ip = ip})

\* A ranking of the addresses of the first n attempts.
TopIpsOf(rows, n, asked) ==
    /\ \A k \in DOMAIN rows : rows[k].attempts = IpCount(rows[k].key, n)
    /\ \A source \in Sources :
        \/ \E k \in DOMAIN rows : rows[k].key = source.ip
        \/ \A k \in DOMAIN rows : IpCount(source.ip, n) <= IpCount(rows[k].key, n)
    /\ n > 0 /\ asked > 0 => Len(rows) > 0

\* The latest of the first n attempts, in reverse.
LatestOf(rows, n) ==
    /\ Len(rows) = IF n < Top THEN n ELSE Top
    /\ \A k \in DOMAIN rows : rows[k] = attempts[n + 1 - k]

\* One line for each type of which an attempt of the day before had been stored
\* when the request began, each with the hours since then, as they were found at
\* a moment while it was served.
LinesOf(answer) ==
    /\ answer.rows \in Seq(Entry)
    /\ \A n \in DOMAIN answer.rows :
        LET entry == answer.rows[n] IN
        /\ NotBefore(entry.seen, answer.begun) /\ NotBefore(answer.made, entry.seen)
        /\ entry.hours = Hours(answer.begun.time - Day, entry.seen, entry.type)
    /\ \A m, n \in DOMAIN answer.rows : answer.rows[m].type = answer.rows[n].type => m = n
    /\ \A i \in Window(answer.begun.time - Day, answer.begun) :
        \E n \in DOMAIN answer.rows : answer.rows[n].type = attempts[i].type

\* The name of a slice.
Label(key) == IF view.elem = "attacksChart" THEN getAttackType(key) ELSE key

\* The slices have different names; there are colours for so many as the page has
\* colours.
SlicesOf(rows, asked) ==
    /\ asked <= Colors => Len(rows) <= Colors
    /\ \A m, n \in DOMAIN rows : Label(rows[m].key) = Label(rows[n].key) => m = n

\* A city that bears the name that is given to those without a name.
NamedUnknown == \E p \in Places : p.city = "Unknown"

AnswerInv(answer) ==
    /\ Past(answer.begun) /\ Past(answer.made) /\ answer.asked \in Nat
    /\ DOMAIN answer.rows = 1..Len(answer.rows) /\ Len(answer.rows) \in Nat
    /\ view.query = "GetTopIps" => TopIpsOf(answer.rows, answer.made.rows, answer.asked)
    /\ view.query = "GetLatestAttempts" => LatestOf(answer.rows, answer.made.rows)
    /\ view.query = "GetAttackTypesAttemptsPerHour" => LinesOf(answer)
    /\ view.callback = "doughnut" /\ ~(view.query = "GetTopCities" /\ NamedUnknown) =>
        SlicesOf(answer.rows, answer.asked)

\* An answer is sent when it is made, or from the cache while it is fresh.
SentInv(answer, sent) ==
    /\ sent \in Int /\ sent <= now
    /\ sent = answer.made.time \/ sent - answer.made.time < Duration(view.query)

PageInv ==
    /\ view \in loadStatistics
    /\ page.pc \in {"blank", "waiting", "answered", "refused", "drawn", "alerted", "silent"}
    /\ page.pc \notin {"answered", "drawn"} => page = [pc |-> page.pc]
    /\ page.pc \in {"answered", "drawn"} =>
        /\ page = [pc |-> page.pc, answer |-> page.answer, sent |-> page.sent]
        /\ AnswerInv(page.answer) /\ SentInv(page.answer, page.sent)
    /\ cache # None => AnswerInv(cache)
    /\ picture = IF page.pc = "drawn" THEN Draw(page.answer.rows) ELSE Empty
    /\ request.pc = "collecting" =>
        page.pc = "waiting" /\ Missed /\ view.query = "GetAttackTypesAttemptsPerHour"

Inv == CountInv /\ OverviewInv /\ PageInv

----------------------------------------------------------------------------
\* The constants

LEMMA Calls ==
    ASSUME view \in loadStatistics
    PROVE  /\ view.query \in {"GetTopAttacks", "GetTopCountries", "GetTopCities", "GetTopIps",
                              "GetAttackTypesAttemptsPerHour", "GetAttemptsPerDay",
                              "GetBlocksPerHour", "GetBlocksPerDay", "GetLatestAttempts",
                              "GetLatestBlocks"}
           /\ view.callback \in {"doughnut", "multiline", "line", "list"}
           /\ view.callback = "multiline" <=> view.query = "GetAttackTypesAttemptsPerHour"
           /\ view.callback = "doughnut" <=>
                view.query \in {"GetTopAttacks", "GetTopCountries", "GetTopCities", "GetTopIps"}
           /\ view.callback = "list" <=> view.query \in {"GetLatestAttempts", "GetLatestBlocks"}
           /\ view.elem = "attacksChart" <=> view.query = "GetTopAttacks"
<1>. DEFINE Is(e, q, c) == view.elem = e /\ view.query = q /\ view.callback = c
<1>1. \A e, q, c : view = Call(e, q, c) => Is(e, q, c)
  BY DEF Call
<1>2. \/ view = Call("attacksChart", "GetTopAttacks", "doughnut")
      \/ view = Call("countriesChart", "GetTopCountries", "doughnut")
      \/ view = Call("citiesChart", "GetTopCities", "doughnut")
      \/ view = Call("ipChart", "GetTopIps", "doughnut")
      \/ view = Call("attackTypesAttemptsPerHourChart", "GetAttackTypesAttemptsPerHour", "multiline")
      \/ view = Call("attemptsPerDayChart", "GetAttemptsPerDay", "line")
      \/ view = Call("blocksPerHourChart", "GetBlocksPerHour", "line")
      \/ view = Call("blocksPerDayChart", "GetBlocksPerDay", "line")
      \/ view = Call("last10AccessAttemptsList", "GetLatestAttempts", "list")
      \/ view = Call("last10BlockList", "GetLatestBlocks", "list")
  BY DEF loadStatistics
<1>. HIDE DEF Is
<1>3. \/ Is("attacksChart", "GetTopAttacks", "doughnut")
      \/ Is("countriesChart", "GetTopCountries", "doughnut")
      \/ Is("citiesChart", "GetTopCities", "doughnut")
      \/ Is("ipChart", "GetTopIps", "doughnut")
      \/ Is("attackTypesAttemptsPerHourChart", "GetAttackTypesAttemptsPerHour", "multiline")
      \/ Is("attemptsPerDayChart", "GetAttemptsPerDay", "line")
      \/ Is("blocksPerHourChart", "GetBlocksPerHour", "line")
      \/ Is("blocksPerDayChart", "GetBlocksPerDay", "line")
      \/ Is("last10AccessAttemptsList", "GetLatestAttempts", "list")
      \/ Is("last10BlockList", "GetLatestBlocks", "list")
  BY <1>1, <1>2, Zenon
<1>. QED
  BY <1>3 DEF Is

LEMMA Types ==
    /\ AttackTypes \subseteq 0..5 /\ IsFiniteSet(AttackTypes)
    /\ Cardinality(AttackTypes) \in Nat /\ Cardinality(AttackTypes) <= Colors
    /\ Colors \in Nat /\ Top \in Nat \ {0} /\ Top <= Colors
    /\ Requested \subseteq Nat /\ \A query : Default(query) \in Nat
<1>1. AttackTypes \in SUBSET (0..5)
  BY SourcesAssumption DEF AttackTypes
<1>2. IsFiniteSet(0..5)
  <2>1. \A a, b \in Int : IsFiniteSet(a..b)
    BY FS_Interval
  <2>. QED
    BY <2>1, 0 \in Int, 5 \in Int, Zenon
<1>3. IsFiniteSet(AttackTypes)
  BY <1>1, <1>2, FS_Subset
<1>. QED
  BY <1>1, <1>3, FS_CardinalityType, ColorsAssumption, RequestedAssumption, Clock DEF Default

\* No two types have one name.
LEMMA TypeNames == \A s, t \in 0..5 : getAttackType(s) = getAttackType(t) => s = t
<1>1. \A t \in 0..5 : t = 0 \/ t = 1 \/ t = 2 \/ t = 3 \/ t = 4 \/ t = 5
  OBVIOUS
<1>2. /\ getAttackType(0) = "Not specified" /\ getAttackType(1) = "Web Spam"
      /\ getAttackType(2) = "Port Scan" /\ getAttackType(3) = "Sql Injection"
      /\ getAttackType(4) = "Brute-Force" /\ getAttackType(5) = "Web Exploit"
  BY DEF getAttackType
<1>. QED
  BY <1>1, <1>2

\* The durations of the cache are no longer than half a day, the hour at least
\* as long as one tick.
LEMMA Durations ==
    /\ \A query : Duration(query) \in Nat
    /\ Duration("GetTopIps") <= Day \div 2
    /\ Duration("GetLatestAttempts") = 1
    /\ Duration("GetAttackTypesAttemptsPerHour") = TicksPerHour
<1>1. \A h \in Nat, t \in Nat : h \div 2 \in Nat /\ (h \div 2) * t \in Nat
  OBVIOUS
<1>2. \A query : Duration(query) \in {TicksPerHour, 1, (HoursPerDay \div 2) * TicksPerHour}
  BY DEF Duration
<1>3. TicksPerHour \in Nat /\ HoursPerDay \in Nat /\ (HoursPerDay \div 2) * TicksPerHour \in Nat
  BY <1>1, Clock
<1>4. /\ Duration("GetTopIps") = (HoursPerDay \div 2) * TicksPerHour
      /\ Duration("GetLatestAttempts") = 1
      /\ Duration("GetAttackTypesAttemptsPerHour") = TicksPerHour
  BY DEF Duration
<1>5. ASSUME NEW h \in Nat, NEW t \in Nat PROVE (h \div 2) * t <= (h * t) \div 2
  <2>1. PICK q \in Nat : q = h \div 2
    OBVIOUS
  <2>2. 2 * q <= h
    BY <2>1
  <2>3. PICK r \in Nat : h = 2 * q + r
    <3>1. h - 2 * q \in Nat /\ h = 2 * q + (h - 2 * q)
      BY <2>2
    <3>. QED
      BY <3>1
  <2>4. h * t = 2 * (q * t) + r * t
    BY <2>3
  <2>5. q * t \in Nat /\ r * t \in Nat
    OBVIOUS
  <2>6. \A a, b \in Nat : a <= (2 * a + b) \div 2
    OBVIOUS
  <2>7. q * t <= (2 * (q * t) + r * t) \div 2
    BY <2>5, <2>6
  <2>. QED
    BY <2>1, <2>4, <2>7
<1>6. (HoursPerDay \div 2) * TicksPerHour <= (HoursPerDay * TicksPerHour) \div 2
  BY <1>3, <1>5
<1>. QED
  BY <1>2, <1>3, <1>4, <1>6 DEF Day

----------------------------------------------------------------------------
\* An answer stays what it is

LEMMA AnswerKept ==
    ASSUME TablesInv, TablesInv', Grown, view' = view, NEW answer, AnswerInv(answer)
    PROVE  AnswerInv(answer)'
<1>0. /\ Len(attempts) \in Nat /\ DOMAIN attempts = 1..Len(attempts)
      /\ \A i \in DOMAIN attempts : attempts'[i] = attempts[i]
  BY Attempted DEF Grown
<1>1. /\ Past(answer.begun) /\ Past(answer.made) /\ answer.asked \in Nat
      /\ DOMAIN answer.rows = 1..Len(answer.rows) /\ Len(answer.rows) \in Nat
  BY DEF AnswerInv
<1>2. PICK begun, made : begun = answer.begun /\ made = answer.made
  OBVIOUS
<1>3. /\ Past(begun) /\ Past(made) /\ Past(begun)' /\ Past(made)'
      /\ made.rows \in Nat /\ made.rows <= Len(attempts)
  BY <1>1, <1>2, WindowKept DEF Past, Moments
<1>4. \A i \in 1..made.rows : i \in DOMAIN attempts /\ attempts'[i] = attempts[i]
  BY <1>0, <1>3
<1>5. ASSUME view.query = "GetTopIps"
      PROVE  TopIpsOf(answer.rows, made.rows, answer.asked)'
  <2>1. \A ip : IpCount(ip, made.rows)' = IpCount(ip, made.rows)
    BY <1>4 DEF IpCount
  <2>2. TopIpsOf(answer.rows, made.rows, answer.asked)
    BY <1>2, <1>5 DEF AnswerInv
  <2>. QED
    BY <2>1, <2>2 DEF TopIpsOf
<1>6. ASSUME view.query = "GetLatestAttempts"
      PROVE  LatestOf(answer.rows, made.rows)'
  <2>1. LatestOf(answer.rows, made.rows)
    BY <1>2, <1>6 DEF AnswerInv
  <2>2. \A k \in DOMAIN answer.rows : made.rows + 1 - k \in 1..made.rows
    BY <1>1, <1>3, <2>1, Clock DEF LatestOf
  <2>. QED
    BY <1>4, <2>1, <2>2 DEF LatestOf
<1>7. ASSUME LinesOf(answer) PROVE LinesOf(answer)'
  <2>1. PICK since : since = begun.time - Day
    OBVIOUS
  <2>2. /\ Window(since, begun)' = Window(since, begun)
        /\ Window(since, begun) \subseteq DOMAIN attempts
    BY <1>3, WindowKept, Attempted
  <2>3. \A i \in Window(since, begun)' :
            \E n \in DOMAIN answer.rows : answer.rows[n].type = attempts'[i].type
    BY <1>0, <1>2, <1>7, <2>1, <2>2 DEF LinesOf
  <2>4. \A i \in Window(answer.begun.time - Day, answer.begun)' :
            \E n \in DOMAIN answer.rows : answer.rows[n].type = attempts'[i].type
    BY <1>2, <2>1, <2>3 DEF Window
  <2>5. ASSUME NEW n \in DOMAIN answer.rows
        PROVE  answer.rows[n].hours =
                    Hours(answer.begun.time - Day, answer.rows[n].seen, answer.rows[n].type)'
    <3>1. PICK type : type = answer.rows[n].type
      OBVIOUS
    <3>2. PICK seen : seen = answer.rows[n].seen
      OBVIOUS
    <3>3. Past(seen)
      <4>1. answer.rows[n] \in Entry
        BY <1>7 DEF LinesOf
      <4>2. seen \in Moments
        BY <3>2, <4>1 DEF Entry
      <4>3. NotBefore(made, seen)
        BY <1>2, <1>7, <3>2 DEF LinesOf
      <4>. QED
        BY <1>0, <1>3, <4>2, <4>3, Attempted DEF NotBefore, Past, Moments
    <3>4. \A h : InHour(since, seen, type, h)' = InHour(since, seen, type, h)
      BY <3>3, WindowKept
    <3>5. Hours(since, seen, type)' = Hours(since, seen, type)
      BY <3>4 DEF Hours
    <3>6. answer.rows[n].hours = Hours(since, seen, type)
      BY <1>2, <1>7, <2>1, <3>1, <3>2 DEF LinesOf
    <3>. QED
      BY <1>2, <2>1, <3>1, <3>2, <3>5, <3>6
  <2>. QED
    BY <1>7, <2>4, <2>5 DEF LinesOf, NotBefore
<1>8. SlicesOf(answer.rows, answer.asked) => SlicesOf(answer.rows, answer.asked)'
  BY DEF SlicesOf, Label
<1>9. Past(answer.begun)' /\ Past(answer.made)'
  BY <1>2, <1>3
<1>10. /\ view'.query = "GetTopIps" => TopIpsOf(answer.rows, answer.made.rows, answer.asked)'
       /\ view'.query = "GetLatestAttempts" => LatestOf(answer.rows, answer.made.rows)'
  BY <1>2, <1>5, <1>6
<1>11. /\ view.query = "GetAttackTypesAttemptsPerHour" => LinesOf(answer)
       /\ view.callback = "doughnut" /\ ~(view.query = "GetTopCities" /\ NamedUnknown) =>
            SlicesOf(answer.rows, answer.asked)
  BY DEF AnswerInv
<1>. QED
  BY <1>1, <1>7, <1>8, <1>9, <1>10, <1>11 DEF AnswerInv

----------------------------------------------------------------------------
\* An answer when it is made

LEMMA BlockRows ==
    ASSUME TablesInv
    PROVE  /\ IsFiniteSet(DOMAIN blocked) /\ DOMAIN blocked = 1..Len(blocked) /\ Len(blocked) \in Nat
           /\ \A n \in DOMAIN blocked : BlockRow(n).at \in Int /\ BlockRow(n).type \in AttackTypes
           /\ \A since : IsFiniteSet(BlocksSince(since)) /\ BlocksSince(since) \subseteq DOMAIN blocked
<1>1. DOMAIN blocked = 1..Len(blocked) /\ Len(blocked) \in Nat
  BY DEF TablesInv
<1>2. IsFiniteSet(DOMAIN blocked)
  BY <1>1, FS_Interval
<1>3. \A n \in DOMAIN blocked : blocked[n] \in DOMAIN attempts
  BY DEF TablesInv, OverviewTypeOK, Range
<1>4. \A since : BlocksSince(since) \in SUBSET DOMAIN blocked
  BY DEF BlocksSince
<1>. QED
  BY <1>1, <1>2, <1>3, <1>4, FS_Subset, Attempted DEF BlockRow

\* The attack types of the blocks: as many as there are types.
LEMMA TopAttacks ==
    ASSUME TablesInv, view.elem = "attacksChart", NEW rows, rows = GetTopAttacks
    PROVE  DOMAIN rows = 1..Len(rows) /\ Len(rows) \in Nat /\ \A asked : SlicesOf(rows, asked)
<1>. DEFINE Since == BlocksSince(DaysAgo(1))
            key == [n \in DOMAIN blocked |-> BlockRow(n).type]
<1>1. IsFiniteSet(Since) /\ \A n \in Since : key[n] \in AttackTypes
  BY BlockRows
<1>2. PICK G : G = GroupedBy(Since, key)
  OBVIOUS
<1>3. rows = SetToSeq(G)
  BY <1>2 DEF GetTopAttacks
<1>. HIDE DEF Since, key
<1>4. /\ IsFiniteSet(G)
      /\ \A g \in G : \E n \in Since : key[n] = g.key
      /\ \A g, h \in G : g.key = h.key => g = h
  BY <1>1, <1>2, Groups
<1>5. \A g \in G : g.key \in AttackTypes
  BY <1>1, <1>4
<1>6. Cardinality(G) <= Cardinality(AttackTypes)
  <2>. DEFINE f == [g \in G |-> g.key]
  <2>1. f \in Injection(G, AttackTypes)
    BY <1>4, <1>5 DEF Injection, IsInjective
  <2>. QED
    BY <2>1, Types, FS_Injection
<1>7. /\ DOMAIN rows = 1..Len(rows) /\ Len(rows) = Cardinality(G) /\ Len(rows) \in Nat
      /\ \A i \in DOMAIN rows : rows[i] \in G
      /\ \A i, j \in DOMAIN rows : rows[i] = rows[j] => i = j
  BY <1>3, <1>4, Listed
<1>8. Len(rows) <= Colors
  BY <1>6, <1>7, Types
<1>9. ASSUME NEW i \in DOMAIN rows, NEW j \in DOMAIN rows,
             Label(rows[i].key) = Label(rows[j].key)
      PROVE  i = j
  <2>1. rows[i].key \in 0..5 /\ rows[j].key \in 0..5
    BY <1>5, <1>7, Types
  <2>2. getAttackType(rows[i].key) = getAttackType(rows[j].key)
    BY <1>9 DEF Label
  <2>3. rows[i].key = rows[j].key
    BY <2>1, <2>2, TypeNames
  <2>. QED
    BY <1>4, <1>7, <2>3
<1>. QED
  BY <1>7, <1>8, <1>9 DEF SlicesOf

\* A ranking of groups has no more slices than are asked for.
LEMMA RankingSlices ==
    ASSUME view.elem # "attacksChart",
           NEW groups, IsFiniteSet(groups), \A g \in groups : g.attempts \in Nat,
           \A g, h \in groups : g.key = h.key => g = h,
           NEW top \in Nat, NEW rows, rows = Ranked(groups, top)
    PROVE  DOMAIN rows = 1..Len(rows) /\ Len(rows) \in Nat /\ SlicesOf(rows, top)
<1>1. \A g \in groups : g.attempts \in Int
  OBVIOUS
<1>2. /\ Len(rows) \in Nat /\ Len(rows) <= top /\ DOMAIN rows = 1..Len(rows)
      /\ \A i \in DOMAIN rows : rows[i] \in groups
      /\ \A i, j \in DOMAIN rows : rows[i] = rows[j] => i = j
  BY <1>1, RankedShows
<1>3. top <= Colors => Len(rows) <= Colors
  BY <1>2, Types
<1>4. \A i, j \in DOMAIN rows : Label(rows[i].key) = Label(rows[j].key) => i = j
  BY <1>2 DEF Label
<1>. QED
  BY <1>2, <1>3, <1>4 DEF SlicesOf

LEMMA TopCountries ==
    ASSUME TableInv, view.elem # "attacksChart",
           NEW top \in Nat, NEW rows, rows = GetTopCountries(top)
    PROVE  DOMAIN rows = 1..Len(rows) /\ Len(rows) \in Nat /\ SlicesOf(rows, top)
<1>1. PICK groups : groups = Grouped("country")
  OBVIOUS
<1>2. /\ IsFiniteSet(groups) /\ \A g \in groups : g.attempts \in Nat
      /\ \A g, h \in groups : g.key = h.key => g = h
  BY <1>1, Columns
<1>3. rows = Ranked(groups, top)
  BY <1>1 DEF GetTopCountries
<1>. QED
  BY <1>2, <1>3, RankingSlices

\* The cities, renamed: two have one name only if a city is called Unknown.
LEMMA TopCities ==
    ASSUME TableInv, view.elem # "attacksChart",
           NEW top \in Nat, NEW rows, rows = GetTopCities(top)
    PROVE  /\ DOMAIN rows = 1..Len(rows) /\ Len(rows) \in Nat
           /\ ~NamedUnknown => SlicesOf(rows, top)
<1>1. PICK groups : groups = Grouped("city")
  OBVIOUS
<1>2. /\ IsFiniteSet(groups) /\ \A g \in groups : g.attempts \in Nat
      /\ \A g, h \in groups : g.key = h.key => g = h
      /\ \A g \in groups : \E i \in DOMAIN table : g.key = table[i].place.city /\ g.key # None
  BY <1>1, Columns
<1>3. PICK cities : cities = Ranked(groups, top)
  OBVIOUS
<1>4. DOMAIN cities = 1..Len(cities) /\ Len(cities) \in Nat /\ SlicesOf(cities, top)
  BY <1>2, <1>3, RankingSlices
<1>5. rows = [i \in DOMAIN cities |->
                IF cities[i].key = "" THEN [cities[i] EXCEPT !.key = "Unknown"] ELSE cities[i]]
  BY <1>1, <1>3 DEF GetTopCities
<1>6. DOMAIN rows = 1..Len(cities) /\ Len(rows) = Len(cities)
  <2>. DEFINE Named(c) == IF c.key = "" THEN [c EXCEPT !.key = "Unknown"] ELSE c
  <2>1. rows = [i \in 1..Len(cities) |-> Named(cities[i])]
    BY <1>4, <1>5
  <2>. HIDE DEF Named
  <2>. QED
    BY <1>4, <2>1
<1>7. ASSUME ~NamedUnknown PROVE SlicesOf(rows, top)
  <2>1. \A i \in DOMAIN cities : cities[i] \in groups
    <3>1. \A g \in groups : g.attempts \in Int
      BY <1>2
    <3>. QED
      BY <1>2, <1>3, <3>1, Types, RankedShows
  <2>2. \A i \in DOMAIN cities : cities[i].key # "Unknown"
    <3>1. \A n \in DOMAIN table : table[n].place \in Places
      BY RowsFinite DEF Row
    <3>. QED
      BY <1>2, <1>7, <2>1, <3>1 DEF NamedUnknown
  <2>3. \A i \in DOMAIN cities : rows[i].key = IF cities[i].key = "" THEN "Unknown" ELSE cities[i].key
    <3>1. \A i \in DOMAIN cities : \E g \in groups : cities[i] = g
      BY <2>1
    <3>2. \A g \in groups : g = [key |-> g.key, attempts |-> g.attempts]
      <4>1. \A g \in Grouped("city") : \E k, m : g = [key |-> k, attempts |-> m]
        BY DEF Grouped
      <4>. QED
        BY <1>1, <4>1
    <3>3. \A i \in DOMAIN cities : [cities[i] EXCEPT !.key = "Unknown"].key = "Unknown"
      BY <3>1, <3>2
    <3>. QED
      BY <1>5, <3>3
  <2>4. \A i, j \in DOMAIN cities : cities[i].key = cities[j].key => i = j
    BY <1>4 DEF SlicesOf, Label
  <2>5. \A i, j \in DOMAIN rows : rows[i].key = rows[j].key => i = j
    <3>. SUFFICES ASSUME NEW i \in DOMAIN cities, NEW j \in DOMAIN cities, rows[i].key = rows[j].key
                  PROVE  i = j
      BY <1>4, <1>6
    <3>1. /\ rows[i].key = IF cities[i].key = "" THEN "Unknown" ELSE cities[i].key
          /\ rows[j].key = IF cities[j].key = "" THEN "Unknown" ELSE cities[j].key
          /\ cities[i].key # "Unknown" /\ cities[j].key # "Unknown"
      BY <2>2, <2>3
    <3>2. cities[i].key = cities[j].key
      BY <3>1
    <3>. QED
      BY <2>4, <3>2, Zenon
  <2>. QED
    BY <1>4, <1>6, <2>5 DEF SlicesOf, Label
<1>. QED
  BY <1>4, <1>6, <1>7

\* The addresses, and their attempts.
LEMMA TopIps ==
    ASSUME TablesInv, view.elem # "attacksChart",
           NEW top \in Nat, NEW rows, rows = GetTopIps(top)
    PROVE  /\ DOMAIN rows = 1..Len(rows) /\ Len(rows) \in Nat /\ SlicesOf(rows, top)
           /\ TopIpsOf(rows, Len(attempts), top)
<1>. DEFINE key == [i \in DOMAIN attempts |-> attempts[i].ip]
            n == Len(attempts)
<1>0. n \in Nat /\ DOMAIN attempts = 1..n /\ IsFiniteSet(DOMAIN attempts)
  BY Attempted
<1>1. PICK G : G = GroupedBy(DOMAIN attempts, key)
  OBVIOUS
<1>2. rows = Ranked(G, top)
  BY <1>1 DEF GetTopIps
<1>3. \A k : Rows(DOMAIN attempts, key, k) = IpCount(k, n)
  <2>. TAKE k
  <2>1. {i \in DOMAIN attempts : key[i] = k} = {i \in 1..n : attempts[i].ip = k}
    BY <1>0
  <2>. QED
    BY <2>1 DEF Rows, IpCount
<1>4. \A k : (\A i \in 1..n : attempts[i].ip # k) => IpCount(k, n) = 0
  BY FS_EmptySet DEF IpCount
<1>5. \A i \in 1..n : key[i] = attempts[i].ip
  BY <1>0
<1>. HIDE DEF key
<1>6. /\ IsFiniteSet(G)
      /\ \A g \in G : /\ g = [key |-> g.key, attempts |-> Rows(DOMAIN attempts, key, g.key)]
                      /\ g.attempts \in Nat \ {0}
      /\ \A i \in DOMAIN attempts : \E g \in G : g.key = key[i]
      /\ \A g, h \in G : g.key = h.key => g = h
  <2>1. PICK I : I = DOMAIN attempts
    OBVIOUS
  <2>2. IsFiniteSet(I) /\ G = GroupedBy(I, key)
    BY <1>0, <1>1, <2>1
  <2>3. /\ IsFiniteSet(G)
        /\ \A g \in G : /\ g = [key |-> g.key, attempts |-> Rows(I, key, g.key)]
                        /\ g.attempts \in Nat \ {0}
        /\ \A i \in I : \E g \in G : g.key = key[i]
        /\ \A g, h \in G : g.key = h.key => g = h
    BY <2>2, Groups
  <2>. QED
    BY <2>1, <2>3
<1>7. \A g \in G : g.attempts = IpCount(g.key, n) /\ g.attempts \in Nat /\ g.attempts \in Int
  <2>. TAKE g \in G
  <2>1. g.attempts = Rows(DOMAIN attempts, key, g.key)
    BY <1>6
  <2>. QED
    BY <1>3, <1>6, <2>1
<1>8. DOMAIN rows = 1..Len(rows) /\ Len(rows) \in Nat /\ SlicesOf(rows, top)
  BY <1>2, <1>6, <1>7, RankingSlices
<1>9. /\ \A i \in DOMAIN rows : rows[i] \in G
      /\ \A g \in G : \/ \E i \in DOMAIN rows : rows[i] = g
                      \/ \A i \in DOMAIN rows : g.attempts <= rows[i].attempts
      /\ G # {} /\ top > 0 => Len(rows) > 0
  BY <1>2, <1>6, <1>7, Types, RankedShows
<1>10. \A k \in DOMAIN rows : rows[k].attempts = IpCount(rows[k].key, n) /\ rows[k].attempts \in Nat
  BY <1>7, <1>9
<1>11. ASSUME NEW source \in Sources
       PROVE  \/ \E k \in DOMAIN rows : rows[k].key = source.ip
              \/ \A k \in DOMAIN rows : IpCount(source.ip, n) <= IpCount(rows[k].key, n)
  <2>1. CASE \E i \in 1..n : attempts[i].ip = source.ip
    <3>1. PICK g \in G : g.key = source.ip
      BY <1>0, <1>5, <1>6, <2>1
    <3>2. \/ \E i \in DOMAIN rows : rows[i] = g
          \/ \A i \in DOMAIN rows : g.attempts <= rows[i].attempts
      BY <1>9
    <3>3. g.attempts = IpCount(source.ip, n)
      BY <1>7, <3>1
    <3>. QED
      BY <1>10, <3>1, <3>2, <3>3
  <2>2. CASE \A i \in 1..n : attempts[i].ip # source.ip
    <3>1. IpCount(source.ip, n) = 0
      BY <1>4, <2>2
    <3>2. \A k \in DOMAIN rows : IpCount(rows[k].key, n) \in Nat
      BY <1>10
    <3>. QED
      BY <3>1, <3>2
  <2>. QED
    BY <2>1, <2>2
<1>12. n > 0 /\ top > 0 => Len(rows) > 0
  <2>. SUFFICES ASSUME n > 0, top > 0 PROVE Len(rows) > 0
    OBVIOUS
  <2>1. 1 \in DOMAIN attempts
    BY <1>0
  <2>2. G # {}
    BY <1>6, <2>1
  <2>. QED
    BY <1>9, <2>2, Types
<1>. QED
  BY <1>8, <1>10, <1>11, <1>12 DEF TopIpsOf

\* The latest attempts.
LEMMA LatestAttempts ==
    ASSUME TablesInv, NEW rows, rows = GetLatestAttempts
    PROVE  DOMAIN rows = 1..Len(rows) /\ Len(rows) \in Nat /\ LatestOf(rows, Len(attempts))
<1>. DEFINE n == Len(attempts)
            r == Reverse(attempts)
<1>0. n \in Nat /\ DOMAIN attempts = 1..n /\ attempts \in Seq(AttemptRow) /\ Top \in Nat
      /\ \A i \in 1..n : attempts[i] \in AttemptRow
  BY Attempted, Types DEF TablesInv
<1>1. r = [i \in 1..n |-> attempts[(n - i) + 1]]
  BY DEF Reverse
<1>2. \A i \in 1..n : (n - i) + 1 \in 1..n /\ (n - i) + 1 = n + 1 - i
  BY <1>0
<1>. HIDE DEF n, r
<1>3. r \in Seq(AttemptRow) /\ Len(r) = n /\ \A i \in 1..n : r[i] = attempts[n + 1 - i]
  <2>1. r \in [1..n -> AttemptRow]
    BY <1>0, <1>1, <1>2
  <2>2. \A i \in 1..n : r[i] = attempts[n + 1 - i]
    BY <1>1, <1>2
  <2>. QED
    BY <1>0, <2>1, <2>2
<1>4. /\ Take(r, Top) \in Seq(AttemptRow) /\ Len(Take(r, Top)) = IF Len(r) < Top THEN Len(r) ELSE Top
      /\ \A i \in 1..Len(Take(r, Top)) : i \in 1..Len(r) /\ Take(r, Top)[i] = r[i]
  BY <1>0, <1>3, Taken
<1>5. rows = Take(r, Top)
  BY DEF GetLatestAttempts, r
<1>6. rows \in Seq(AttemptRow) /\ Len(rows) = IF n < Top THEN n ELSE Top
  BY <1>3, <1>4, <1>5
<1>7. DOMAIN rows = 1..Len(rows) /\ Len(rows) \in Nat
  BY <1>6
<1>8. \A k \in DOMAIN rows : rows[k] = attempts[n + 1 - k]
  BY <1>3, <1>4, <1>5, <1>7
<1>. QED
  BY <1>6, <1>7, <1>8 DEF LatestOf, n

\* The other lists have rows, of which nothing more is needed.
LEMMA OtherLists ==
    ASSUME TablesInv, NEW rows,
           \/ rows = GetAttemptsPerDay \/ \E days \in Nat : rows = GetBlocksPerHour(days)
           \/ rows = GetBlocksPerDay \/ rows = GetLatestBlocks
    PROVE  DOMAIN rows = 1..Len(rows) /\ Len(rows) \in Nat
<1>0. \A x \in Int, n \in Nat \ {0} : x \div n \in Int /\ x % n \in Int
  OBVIOUS
<1>1. \A t \in Int : Hour(t) \in Int /\ DayOfMonth(t) \in Int /\ DayOfYear(t) \in Int
  <2>1. DaysPerMonth * MonthsPerYear \in Nat \ {0}
    <3>1. \A a, b \in Nat \ {0} : a * b \in Nat \ {0}
      OBVIOUS
    <3>. QED
      BY <3>1, Clock
  <2>. QED
    BY <1>0, <2>1, Clock DEF Hour, DayOfMonth, DayOfYear
<1>2. CASE rows = GetAttemptsPerDay
  <2>. DEFINE R == Window(LastMonth, Present)
              key == [i \in DOMAIN attempts |-> DayOfYear(attempts[i].at)]
  <2>1. IsFiniteSet(R) /\ \A i \in R : key[i] \in Int
    BY <1>1, Attempted
  <2>2. rows = InOrder(GroupedBy(R, key))
    BY <1>2 DEF GetAttemptsPerDay, PerDayOf
  <2>. HIDE DEF R, key
  <2>. QED
    BY <2>1, <2>2, OrderedGroups
<1>3. CASE \E days \in Nat : rows = GetBlocksPerHour(days)
  <2>. PICK days \in Nat : rows = GetBlocksPerHour(days)
    BY <1>3
  <2>. DEFINE R == BlocksSince(DaysAgo(days))
              key == [n \in DOMAIN blocked |-> Hour(BlockRow(n).at)]
  <2>1. IsFiniteSet(R) /\ \A i \in R : key[i] \in Int
    BY <1>1, BlockRows
  <2>2. rows = InOrder(GroupedBy(R, key))
    BY DEF GetBlocksPerHour
  <2>. HIDE DEF R, key
  <2>. QED
    BY <2>1, <2>2, OrderedGroups
<1>4. CASE rows = GetBlocksPerDay
  <2>. DEFINE R == {n \in DOMAIN blocked : /\ MonthOfYear(BlockRow(n).at) = MonthOfYear(LastMonth)
                                           /\ YearOf(BlockRow(n).at) = YearOf(LastMonth)}
              key == [n \in DOMAIN blocked |-> DayOfMonth(BlockRow(n).at)]
  <2>1. R \in SUBSET DOMAIN blocked
    OBVIOUS
  <2>2. IsFiniteSet(R)
    BY <2>1, BlockRows, FS_Subset
  <2>3. \A n \in DOMAIN blocked : key[n] \in Int
    BY <1>1, BlockRows
  <2>4. rows = InOrder(GroupedBy(R, key))
    BY <1>4 DEF GetBlocksPerDay, PerDayOfMonth
  <2>. HIDE DEF R, key
  <2>. QED
    BY <2>1, <2>2, <2>3, <2>4, OrderedGroups
<1>5. CASE rows = GetLatestBlocks
  <2>. DEFINE b == [n \in DOMAIN blocked |-> BlockRow(n)]
              r == Reverse(b)
              S == {BlockRow(n) : n \in DOMAIN blocked}
              m == Len(blocked)
  <2>1. m \in Nat /\ DOMAIN blocked = 1..m
    BY BlockRows
  <2>2. b \in [1..m -> S] /\ \A n \in 1..m : b[n] \in S
    BY <2>1
  <2>. HIDE DEF m, b, S
  <2>3. Len(b) = m
    BY <2>1, <2>2
  <2>4. r \in [1..m -> S]
    <3>1. \A i \in 1..m : (m - i) + 1 \in 1..m
      BY <2>1
    <3>. QED
      BY <2>2, <2>3, <3>1 DEF Reverse
  <2>. HIDE DEF r
  <2>5. r \in Seq(S)
    BY <2>1, <2>4
  <2>6. Take(r, Top) \in Seq(S)
    BY <2>5, Types, Taken
  <2>7. rows = Take(r, Top)
    BY <1>5 DEF GetLatestBlocks, r, b
  <2>. QED
    BY <2>6, <2>7
<1>. QED
  BY <1>2, <1>3, <1>4, <1>5

\* The answer of a query that is one statement.
LEMMA AnswerMade ==
    ASSUME TableInv, TablesInv, view \in loadStatistics,
           view.query # "GetAttackTypesAttemptsPerHour",
           NEW asked \in Nat, NEW answer, answer = Made(Result(view.query, asked), asked, Present)
    PROVE  AnswerInv(answer)
<1>. PICK result : result = Result(view.query, asked)
  OBVIOUS
<1>0. /\ answer.begun = Present /\ answer.made = Present /\ answer.rows = result
      /\ answer.asked = asked
      /\ Past(answer.begun) /\ Past(answer.made) /\ answer.asked \in Nat
      /\ answer.made.rows = Len(attempts)
  <2>1. answer = [rows |-> result, asked |-> asked, begun |-> Present, made |-> Present]
    BY DEF Made
  <2>2. Present.rows = Len(attempts)
    BY DEF Present
  <2>. QED
    BY <2>1, <2>2, Attempted
<1>. PICK rows : rows = answer.rows
  OBVIOUS
<1>. DEFINE Good == DOMAIN rows = 1..Len(rows) /\ Len(rows) \in Nat
<1>2. CASE view.query = "GetTopAttacks"
  <2>1. rows = GetTopAttacks /\ view.elem = "attacksChart"
    BY <1>0, <1>2, Calls DEF Result
  <2>2. Good /\ SlicesOf(rows, asked)
    BY <2>1, TopAttacks
  <2>. QED
    BY <1>0, <1>2, <2>2 DEF AnswerInv
<1>3. CASE view.query = "GetTopCountries"
  <2>1. rows = GetTopCountries(asked) /\ view.elem # "attacksChart"
    BY <1>0, <1>3, Calls DEF Result
  <2>2. Good /\ SlicesOf(rows, asked)
    BY <2>1, TopCountries
  <2>. QED
    BY <1>0, <1>3, <2>2 DEF AnswerInv
<1>4. CASE view.query = "GetTopCities"
  <2>1. rows = GetTopCities(asked) /\ view.elem # "attacksChart"
    BY <1>0, <1>4, Calls DEF Result
  <2>2. Good /\ (~NamedUnknown => SlicesOf(rows, asked))
    BY <2>1, TopCities
  <2>. QED
    BY <1>0, <1>4, <2>2 DEF AnswerInv
<1>5. CASE view.query = "GetTopIps"
  <2>1. rows = GetTopIps(asked) /\ view.elem # "attacksChart"
    BY <1>0, <1>5, Calls DEF Result
  <2>2. Good /\ SlicesOf(rows, asked) /\ TopIpsOf(rows, Len(attempts), asked)
    BY <2>1, TopIps
  <2>. QED
    BY <1>0, <1>5, <2>2 DEF AnswerInv
<1>6. CASE view.query = "GetLatestAttempts"
  <2>1. rows = GetLatestAttempts
    BY <1>0, <1>6 DEF Result
  <2>2. Good /\ LatestOf(rows, Len(attempts))
    BY <2>1, LatestAttempts
  <2>3. view.callback # "doughnut"
    BY <1>6, Calls
  <2>. QED
    BY <1>0, <1>6, <2>2, <2>3 DEF AnswerInv
<1>7. CASE view.query \in {"GetAttemptsPerDay", "GetBlocksPerHour", "GetBlocksPerDay", "GetLatestBlocks"}
  <2>1. \/ rows = GetAttemptsPerDay \/ \E days \in Nat : rows = GetBlocksPerHour(days)
        \/ rows = GetBlocksPerDay \/ rows = GetLatestBlocks
    BY <1>0, <1>7 DEF Result
  <2>2. Good
    BY <2>1, OtherLists
  <2>3. view.callback # "doughnut"
    BY <1>7, Calls
  <2>. QED
    BY <1>0, <1>7, <2>2, <2>3 DEF AnswerInv
<1>. QED
  BY <1>2, <1>3, <1>4, <1>5, <1>6, <1>7, Calls

\* The answer of GetAttackTypesAttemptsPerHour.
LEMMA LinesMade ==
    ASSUME OverviewInv, view \in loadStatistics,
           view.query = "GetAttackTypesAttemptsPerHour", Respond,
           NEW asked \in Nat, NEW answer, answer = Made(request.data, asked, request.begun)
    PROVE  AnswerInv(answer)
<1>0. /\ answer.begun = request.begun /\ answer.made = Present /\ answer.rows = request.data
      /\ answer.asked = asked
      /\ Past(Present) /\ TablesInv /\ RequestInv
      /\ request.pc = "collecting" /\ request.types = {}
  <2>1. answer = [rows |-> request.data, asked |-> asked, begun |-> request.begun, made |-> Present]
    BY DEF Made
  <2>. QED
    BY <2>1, Attempted DEF OverviewInv, Respond
<1>1. /\ request.data \in Seq(Entry)
      /\ Past(request.begun) /\ request.begun.time - Day = request.since
  BY <1>0 DEF RequestInv, Requests
<1>2. DOMAIN request.data = 1..Len(request.data) /\ Len(request.data) \in Nat
      /\ \A n \in DOMAIN request.data : request.data[n] \in Entry
  BY <1>1
<1>3. ASSUME NEW n \in DOMAIN request.data
      PROVE  /\ NotBefore(request.data[n].seen, request.begun)
             /\ NotBefore(Present, request.data[n].seen)
             /\ request.data[n].hours =
                    Hours(request.since, request.data[n].seen, request.data[n].type)
  <2>. PICK entry \in Entry : entry = request.data[n]
    BY <1>2
  <2>1. entry.hours \in Seq(HourGroup)
    BY DEF Entry
  <2>2. Past(entry.seen) /\ NotBefore(entry.seen, request.begun)
    BY <1>0 DEF RequestInv
  <2>3. NotBefore(Present, entry.seen)
    BY <2>2 DEF Past, NotBefore, Present
  <2>4. /\ Len(entry.hours) = HoursPerDay
        /\ \A h \in 0..(HoursPerDay - 1) : entry.hours[h + 1] =
            [key |-> h, attempts |-> Cardinality(InHour(request.since, entry.seen, entry.type, h))]
    BY <1>0 DEF RequestInv, HoursComplete, InHour
  <2>5. HoursPerDay \in Nat
    BY Clock
  <2>6. ASSUME NEW h \in 1..HoursPerDay
        PROVE  entry.hours[h] = [key |-> h - 1, attempts |->
                    Cardinality(InHour(request.since, entry.seen, entry.type, h - 1))]
    <3>1. h - 1 \in 0..(HoursPerDay - 1) /\ (h - 1) + 1 = h
      BY <2>5
    <3>2. entry.hours[(h - 1) + 1] = [key |-> h - 1, attempts |->
                    Cardinality(InHour(request.since, entry.seen, entry.type, h - 1))]
      BY <2>4, <3>1, Zenon
    <3>. QED
      BY <3>1, <3>2
  <2>7. entry.hours = [h \in 1..HoursPerDay |-> entry.hours[h]]
    BY <2>1, <2>4
  <2>8. entry.hours = Hours(request.since, entry.seen, entry.type)
    BY <2>6, <2>7, Zenon DEF Hours
  <2>. QED
    BY <2>2, <2>3, <2>8
<1>4. \A i \in Window(request.since, request.begun) :
        \E n \in DOMAIN request.data : request.data[n].type = attempts[i].type
  BY <1>0 DEF RequestInv
<1>5. \A m, n \in DOMAIN request.data : request.data[m].type = request.data[n].type => m = n
  BY <1>0 DEF RequestInv
<1>6. LinesOf(answer)
  BY <1>0, <1>1, <1>3, <1>4, <1>5 DEF LinesOf
<1>7. view.callback # "doughnut"
  BY Calls
<1>. QED
  BY <1>0, <1>1, <1>2, <1>6, <1>7 DEF AnswerInv

----------------------------------------------------------------------------
\* The tables at every step

LEMMA GrownStill ==
    ASSUME TablesInv, UNCHANGED <<now, attempts>>
    PROVE  Grown
<1>1. now' = now /\ attempts' = attempts /\ now <= now
  BY Attempted
<1>. QED
  BY <1>1 DEF Grown

LEMMA TablesWritten ==
    ASSUME CountInv, OverviewInv, Write
    PROVE  CountInv' /\ OverviewInv' /\ Grown /\ request' = request
<1>0. TablesInv
  BY DEF OverviewInv
<1>1. CASE (\E b \in Blocks : StatisticsUpdateBlocks(b)) /\ UNCHANGED overviewVars
  <2>1. CountInv'
    BY <1>1, UpdateBlocksCounts
  <2>2. OverviewInv'
    BY <1>1, OverviewStill
  <2>3. Grown /\ request' = request
    BY <1>0, <1>1, GrownStill DEF overviewVars
  <2>. QED
    BY <2>1, <2>2, <2>3
<1>2. CASE (\E source \in Sources : AddAttempt(source)) /\ UNCHANGED statisticsVars
  <2>1. TablesInv' /\ Grown
    BY <1>0, <1>2, AttemptAdded
  <2>2. request' = request
    BY <1>2 DEF AddAttempt
  <2>3. OverviewInv'
    BY <2>1, <2>2, OverviewGrows
  <2>. QED
    BY <1>2, <2>1, <2>2, <2>3, StillCounts
<1>3. CASE (\E i \in DOMAIN attempts : AddBlock(i)) /\ UNCHANGED statisticsVars
  <2>1. TablesInv' /\ Grown
    BY <1>0, <1>3, BlockAdded
  <2>2. request' = request
    BY <1>3 DEF AddBlock
  <2>3. OverviewInv'
    BY <2>1, <2>2, OverviewGrows
  <2>. QED
    BY <1>3, <2>1, <2>2, <2>3, StillCounts
<1>. QED
  BY <1>1, <1>2, <1>3 DEF Write

LEMMA StepTables ==
    ASSUME CountInv, OverviewInv, [Next]_vars
    PROVE  CountInv' /\ OverviewInv' /\ Grown /\ view' = view
<1>0. TablesInv
  BY DEF OverviewInv
<1>1. CASE Write /\ UNCHANGED pageVars
  BY <1>1, TablesWritten DEF pageVars
<1>2. CASE Tick /\ UNCHANGED <<statisticsVars, pageVars>>
  <2>1. TablesInv' /\ Grown
    BY <1>0, <1>2, Ticked
  <2>2. request' = request
    BY <1>2 DEF Tick
  <2>3. OverviewInv'
    BY <2>1, <2>2, OverviewGrows
  <2>4. UNCHANGED statisticsVars /\ view' = view
    BY <1>2 DEF pageVars
  <2>. QED
    BY <2>1, <2>3, <2>4, StillCounts
<1>3. CASE UNCHANGED <<statisticsVars, overviewVars, view>>
  <2>1. UNCHANGED statisticsVars /\ UNCHANGED overviewVars /\ view' = view
    BY <1>3
  <2>2. UNCHANGED <<now, attempts>>
    BY <2>1 DEF overviewVars
  <2>. QED
    BY <1>0, <2>1, <2>2, StillCounts, OverviewStill, GrownStill
<1>4. CASE CollectPerHour
  <2>1. UNCHANGED statisticsVars /\ view' = view
    BY <1>4 DEF CollectPerHour, pageVars
  <2>2. OverviewInv'
    BY <1>4, TypesListed, HoursCollected DEF CollectPerHour
  <2>3. UNCHANGED <<now, attempts>>
    BY <1>4 DEF CollectPerHour, ListAttackTypes, CollectHours, CollectFrom
  <2>. QED
    BY <1>0, <2>1, <2>2, <2>3, StillCounts, GrownStill
<1>5. CASE AnswerPerHour \/ AnswerError
  <2>1. /\ UNCHANGED statisticsVars /\ view' = view
        /\ UNCHANGED <<now, attempts, blocked>> /\ request' = NoRequest
    BY <1>5 DEF AnswerPerHour, AnswerError, AnswerWith, Respond
  <2>2. OverviewInv'
    BY <2>1, RequestEnded
  <2>. QED
    BY <1>0, <2>1, <2>2, StillCounts, GrownStill
<1>6. CASE \/ AnswerFromCache \/ Answer \/ \E asked \in Requested : AnswerOther(asked)
           \/ Evict \/ onload \/ getData \/ LoseConnection
  <2>1. UNCHANGED <<statisticsVars, overviewVars, view>>
    BY <1>6 DEF AnswerFromCache, Answer, AnswerWith, AnswerOther, Evict, onload, getData,
                LoseConnection
  <2>. QED
    BY <1>3, <2>1
<1>7. CASE UNCHANGED vars
  <2>1. UNCHANGED <<statisticsVars, overviewVars, view>>
    BY <1>7 DEF vars, pageVars
  <2>. QED
    BY <1>3, <2>1
<1>. QED
  BY <1>1, <1>2, <1>4, <1>5, <1>6, <1>7 DEF Next

----------------------------------------------------------------------------
\* The page at every step

LEMMA MissedKept ==
    ASSUME OverviewInv, OverviewInv', PageInv, Grown, UNCHANGED <<view, cache>>, Missed
    PROVE  Missed'
<1>1. now \in Int /\ now' \in Int /\ now <= now'
  BY Clock DEF OverviewInv, TablesInv, OverviewTypeOK, Grown
<1>2. cache # None => cache.made.time \in Int
  BY DEF PageInv, AnswerInv, Past, Moments
<1>3. PICK d \in Nat : d = Duration(view.query)
  BY Durations
<1>. QED
  BY <1>1, <1>2, <1>3 DEF Missed

\* A step that does not touch the page.
LEMMA PageStill ==
    ASSUME Inv, OverviewInv', Grown, UNCHANGED pageVars,
           request'.pc = "collecting" /\ request.pc # "collecting" =>
                page.pc = "waiting" /\ Missed /\ view.query = "GetAttackTypesAttemptsPerHour"
    PROVE  PageInv'
<1>0. /\ view' = view /\ page' = page /\ picture' = picture /\ cache' = cache
      /\ OverviewInv /\ PageInv /\ TablesInv /\ TablesInv'
      /\ now \in Int /\ now' \in Int /\ now <= now'
  BY Clock DEF pageVars, Inv, OverviewInv, TablesInv, OverviewTypeOK, Grown
<1>1. \A answer : AnswerInv(answer) => AnswerInv(answer)'
  BY <1>0, AnswerKept
<1>2. ASSUME page.pc \in {"answered", "drawn"} PROVE AnswerInv(page.answer)' /\ SentInv(page.answer, page.sent)'
  <2>1. AnswerInv(page.answer) /\ SentInv(page.answer, page.sent)
    BY <1>0, <1>2 DEF PageInv
  <2>2. PICK answer : answer = page.answer
    OBVIOUS
  <2>3. AnswerInv(answer)'
    BY <1>1, <2>1, <2>2
  <2>. QED
    BY <1>0, <2>1, <2>2, <2>3 DEF SentInv
<1>3. ASSUME cache # None PROVE AnswerInv(cache)'
  <2>1. PICK answer : answer = cache
    OBVIOUS
  <2>2. AnswerInv(answer)'
    BY <1>0, <1>1, <1>3, <2>1 DEF PageInv
  <2>. QED
    BY <1>0, <2>1, <2>2
<1>4. picture' = IF page'.pc = "drawn" THEN Draw(page.answer.rows)' ELSE Empty
  BY <1>0 DEF PageInv, Draw
<1>5. request'.pc = "collecting" =>
        page'.pc = "waiting" /\ Missed' /\ view'.query = "GetAttackTypesAttemptsPerHour"
  BY <1>0, MissedKept DEF PageInv
<1>. QED
  BY <1>0, <1>2, <1>3, <1>4, <1>5 DEF PageInv

LEMMA CacheKept ==
    ASSUME Inv, OverviewInv', Grown, view' = view, cache' = cache
    PROVE  cache' # None => AnswerInv(cache)'
<1>1. PICK answer : answer = cache
  OBVIOUS
<1>2. cache # None => AnswerInv(answer)'
  BY <1>1, AnswerKept DEF Inv, OverviewInv, PageInv
<1>. QED
  BY <1>1, <1>2

\* A step to a state of the page without an answer.
LEMMA PageEmptied ==
    ASSUME Inv, OverviewInv', Grown, view' = view, cache' = cache, picture' = Empty,
           NEW pc \in {"waiting", "refused", "alerted", "silent"}, page' = [pc |-> pc],
           request'.pc # "collecting"
    PROVE  PageInv'
<1>1. view' \in loadStatistics
  BY DEF Inv, PageInv
<1>2. cache' # None => AnswerInv(cache)'
  BY CacheKept
<1>3. page'.pc = pc
  OBVIOUS
<1>. QED
  BY <1>1, <1>2, <1>3 DEF PageInv

\* A step by which an answer arrives.
LEMMA PageAnswered ==
    ASSUME Inv, OverviewInv', now' = now, view' = view, picture' = picture,
           page.pc = "waiting", request'.pc # "collecting",
           NEW answer, AnswerInv(answer)', Arrive(answer),
           now = answer.made.time \/ now - answer.made.time < Duration(view.query),
           cache' # None => AnswerInv(cache)'
    PROVE  PageInv'
<1>1. view' \in loadStatistics /\ picture' = Empty /\ now \in Int /\ now <= now
  BY Attempted DEF Inv, PageInv, OverviewInv
<1>2. /\ page' = [pc |-> "answered", answer |-> answer, sent |-> now]
      /\ page'.pc = "answered" /\ page'.answer = answer /\ page'.sent = now
  BY DEF Arrive
<1>3. AnswerInv(page.answer)'
  BY <1>2
<1>4. SentInv(page.answer, page.sent)'
  BY <1>1, <1>2 DEF SentInv
<1>5. page' = [pc |-> page'.pc, answer |-> page'.answer, sent |-> page'.sent]
  BY <1>2
<1>. QED
  BY <1>1, <1>2, <1>3, <1>4, <1>5 DEF PageInv

LEMMA StepPage ==
    ASSUME Inv, OverviewInv', Grown, view' = view, [Next]_vars
    PROVE  PageInv'
<1>0. /\ CountInv /\ OverviewInv /\ PageInv /\ TableInv /\ TablesInv /\ TablesInv'
      /\ view \in loadStatistics
      /\ request.pc \in {"idle", "collecting"}
      /\ request.pc = "collecting" =>
            page.pc = "waiting" /\ Missed /\ view.query = "GetAttackTypesAttemptsPerHour"
      /\ picture = IF page.pc = "drawn" THEN Draw(page.answer.rows) ELSE Empty
      /\ cache # None => AnswerInv(cache)
  BY DEF Inv, OverviewInv, CountInv, PageInv, TablesInv, OverviewTypeOK
<1>1. CASE Write /\ UNCHANGED pageVars
  BY <1>0, <1>1, TablesWritten, PageStill
<1>2. CASE Tick /\ UNCHANGED <<statisticsVars, pageVars>>
  <2>1. request' = request /\ UNCHANGED pageVars
    BY <1>2 DEF Tick
  <2>. QED
    BY <2>1, PageStill
<1>3. CASE AnswerFromCache
  <2>1. /\ page.pc = "waiting" /\ ~Missed /\ Arrive(cache)
        /\ UNCHANGED <<now, attempts, request, view, picture, cache>>
    BY <1>3 DEF AnswerFromCache, overviewVars
  <2>2. PICK answer : answer = cache
    OBVIOUS
  <2>3. cache # None /\ AnswerInv(answer)
    BY <1>0, <2>1, <2>2 DEF Missed
  <2>4. AnswerInv(answer)'
    BY <1>0, <2>3, AnswerKept
  <2>5. now - answer.made.time < Duration(view.query)
    <3>1. ~(now - answer.made.time >= Duration(view.query))
      BY <2>1, <2>2 DEF Missed
    <3>2. now \in Int /\ answer.made.time \in Int
      BY <1>0, <2>3, Attempted DEF AnswerInv, Past, Moments
    <3>3. PICK d \in Nat : d = Duration(view.query)
      BY Durations
    <3>. QED
      BY <3>1, <3>2, <3>3
  <2>6. cache' # None => AnswerInv(cache)'
    BY <2>1, CacheKept
  <2>7. request'.pc # "collecting"
    BY <1>0, <2>1
  <2>8. Arrive(answer)
    BY <2>1, <2>2
  <2>. QED
    BY <2>1, <2>4, <2>5, <2>6, <2>7, <2>8, PageAnswered
<1>4. CASE Answer
  <2>. PICK asked \in Nat : asked = Default(view.query)
    BY Types
  <2>. PICK answer : answer = Made(Result(view.query, asked), asked, Present)
    OBVIOUS
  <2>1. /\ page.pc = "waiting" /\ Missed /\ view.query # "GetAttackTypesAttemptsPerHour"
        /\ Arrive(answer) /\ cache' = answer
        /\ UNCHANGED <<now, attempts, request, view, picture>>
    BY <1>4 DEF Answer, AnswerWith, overviewVars
  <2>2. AnswerInv(answer)
    BY <1>0, <2>1, AnswerMade
  <2>3. AnswerInv(answer)'
    BY <1>0, <2>2, AnswerKept
  <2>4. now = answer.made.time /\ request'.pc # "collecting" /\ AnswerInv(cache)'
    BY <1>0, <2>1, <2>3 DEF Made, Present
  <2>. QED
    BY <2>1, <2>3, <2>4, PageAnswered
<1>5. CASE CollectPerHour
  <2>1. /\ UNCHANGED pageVars /\ page.pc = "waiting" /\ Missed
        /\ view.query = "GetAttackTypesAttemptsPerHour"
    BY <1>5 DEF CollectPerHour
  <2>. QED
    BY <2>1, PageStill
<1>6. CASE AnswerPerHour
  <2>. PICK asked \in Nat : asked = Default(view.query)
    BY Types
  <2>. PICK answer : answer = Made(request.data, asked, request.begun)
    OBVIOUS
  <2>1. /\ page.pc = "waiting" /\ Respond /\ request' = NoRequest
        /\ Arrive(answer) /\ cache' = answer
        /\ UNCHANGED <<now, attempts, view, picture>>
    BY <1>6 DEF AnswerPerHour, AnswerWith, Respond
  <2>2. view.query = "GetAttackTypesAttemptsPerHour"
    BY <1>0, <2>1 DEF Respond
  <2>3. AnswerInv(answer)
    BY <1>0, <2>1, <2>2, LinesMade
  <2>4. AnswerInv(answer)'
    BY <1>0, <2>3, AnswerKept
  <2>5. now = answer.made.time /\ request'.pc # "collecting" /\ AnswerInv(cache)'
    BY <2>1, <2>4 DEF NoRequest, Made, Present
  <2>. QED
    BY <2>1, <2>4, <2>5, PageAnswered
<1>7. CASE AnswerError
  <2>1. /\ page.pc = "waiting" /\ page' = [page EXCEPT !.pc = "refused"]
        /\ request' = NoRequest /\ UNCHANGED <<view, picture, cache>>
    BY <1>7 DEF AnswerError
  <2>2. page = [pc |-> "waiting"]
    BY <1>0, <2>1 DEF PageInv
  <2>3. page' = [pc |-> "refused"] /\ picture' = Empty /\ request'.pc # "collecting"
    BY <1>0, <2>1, <2>2 DEF NoRequest
  <2>. QED
    BY <2>1, <2>3, PageEmptied
<1>8. CASE Evict
  <2>1. /\ cache' = None /\ UNCHANGED <<now, request, view, page, picture>>
    BY <1>8 DEF Evict, overviewVars
  <2>2. PICK answer : answer = page.answer
    OBVIOUS
  <2>3. AnswerInv(page.answer) => AnswerInv(page.answer)'
    BY <1>0, <2>1, <2>2, AnswerKept
  <2>4. SentInv(page.answer, page.sent) => SentInv(page.answer, page.sent)'
    BY <2>1 DEF SentInv
  <2>5. picture' = IF page'.pc = "drawn" THEN Draw(page.answer.rows)' ELSE Empty
    BY <1>0, <2>1 DEF Draw
  <2>6. Missed'
    BY <2>1 DEF Missed
  <2>. QED
    BY <1>0, <2>1, <2>3, <2>4, <2>5, <2>6 DEF PageInv
<1>9. CASE onload
  <2>1. /\ page.pc \in {"blank", "drawn", "alerted", "silent"} /\ page' = [pc |-> "waiting"]
        /\ picture' = Empty /\ request' = request /\ cache' = cache
    BY <1>9 DEF onload, overviewVars
  <2>2. request'.pc # "collecting"
    BY <1>0, <2>1
  <2>. QED
    BY <2>1, <2>2, PageEmptied
<1>10. CASE getData
  <2>1. CASE /\ page.pc = "answered" /\ picture' = Draw(page.answer.rows)
             /\ page' = [page EXCEPT !.pc = "drawn"]
             /\ UNCHANGED <<statisticsVars, overviewVars, view, cache>>
    <3>1. /\ UNCHANGED <<now, request, view, cache>>
      BY <2>1 DEF overviewVars
    <3>2. /\ page = [pc |-> "answered", answer |-> page.answer, sent |-> page.sent]
          /\ AnswerInv(page.answer) /\ SentInv(page.answer, page.sent)
      BY <1>0, <2>1 DEF PageInv
    <3>3. PICK answer, sent : answer = page.answer /\ sent = page.sent
      OBVIOUS
    <3>4. page' = [pc |-> "drawn", answer |-> answer, sent |-> sent]
      BY <2>1, <3>2, <3>3
    <3>5. page'.pc = "drawn" /\ page'.answer = answer /\ page'.sent = sent
      BY <3>4
    <3>6. AnswerInv(answer)'
      BY <1>0, <3>2, <3>3, AnswerKept
    <3>7. AnswerInv(page.answer)'
      BY <3>5, <3>6
    <3>8. SentInv(page.answer, page.sent)'
      BY <3>1, <3>2, <3>3, <3>5 DEF SentInv
    <3>9. picture' = Draw(page.answer.rows)'
      BY <2>1, <3>1, <3>3, <3>5 DEF Draw
    <3>10. cache' # None => AnswerInv(cache)'
      BY <3>1, CacheKept
    <3>11. request'.pc # "collecting"
      BY <1>0, <2>1, <3>1
    <3>12. page' = [pc |-> page'.pc, answer |-> page'.answer, sent |-> page'.sent]
      BY <3>4, <3>5
    <3>. QED
      BY <1>0, <3>5, <3>7, <3>8, <3>9, <3>10, <3>11, <3>12 DEF PageInv
  <2>2. CASE /\ page.pc = "refused" /\ page' = [page EXCEPT !.pc = "alerted"]
             /\ UNCHANGED <<statisticsVars, overviewVars, view, picture, cache>>
    <3>1. UNCHANGED <<request, view, cache, picture>>
      BY <2>2 DEF overviewVars
    <3>2. page = [pc |-> "refused"]
      BY <1>0, <2>2 DEF PageInv
    <3>3. page' = [pc |-> "alerted"] /\ picture' = Empty /\ request'.pc # "collecting"
      BY <1>0, <2>2, <3>1, <3>2
    <3>. QED
      BY <3>1, <3>3, PageEmptied
  <2>. QED
    BY <1>10, <2>1, <2>2 DEF getData
<1>11. CASE LoseConnection
  <2>1. /\ page.pc \in {"waiting", "answered"} /\ request.pc = "idle"
        /\ page' = [pc |-> "silent"] /\ UNCHANGED <<request, view, picture, cache>>
    BY <1>11 DEF LoseConnection, overviewVars
  <2>2. picture' = Empty /\ request'.pc # "collecting"
    BY <1>0, <2>1
  <2>. QED
    BY <2>1, <2>2, PageEmptied
<1>12. CASE UNCHANGED vars
  <2>1. UNCHANGED pageVars /\ request' = request
    BY <1>12 DEF vars, overviewVars
  <2>. QED
    BY <2>1, PageStill
<1>13. CASE \E asked \in Requested : AnswerOther(asked)
  <2>. PICK asked \in Requested : AnswerOther(asked)
    BY <1>13
  <2>. PICK answer : answer = Made(Result(view.query, asked), asked, Present)
    OBVIOUS
  <2>1. /\ asked \in Nat /\ view.query # "GetAttackTypesAttemptsPerHour"
        /\ cache' = answer /\ UNCHANGED <<now, request, view, page, picture>>
    BY Types DEF AnswerOther, Parameterized, overviewVars
  <2>2. AnswerInv(answer)
    BY <1>0, <2>1, AnswerMade
  <2>3. AnswerInv(answer)'
    BY <1>0, <2>2, AnswerKept
  <2>4. AnswerInv(cache)'
    BY <2>1, <2>3
  <2>5. PICK shown : shown = page.answer
    OBVIOUS
  <2>6. AnswerInv(page.answer) => AnswerInv(page.answer)'
    BY <1>0, <2>1, <2>5, AnswerKept
  <2>7. SentInv(page.answer, page.sent) => SentInv(page.answer, page.sent)'
    BY <2>1 DEF SentInv
  <2>8. picture' = IF page'.pc = "drawn" THEN Draw(page.answer.rows)' ELSE Empty
    BY <1>0, <2>1 DEF Draw
  <2>9. request'.pc # "collecting"
    BY <1>0, <2>1
  <2>. QED
    BY <1>0, <2>1, <2>4, <2>6, <2>7, <2>8, <2>9 DEF PageInv
<1>. QED
  BY <1>1, <1>2, <1>3, <1>4, <1>5, <1>6, <1>7, <1>8, <1>9, <1>10, <1>11, <1>12, <1>13 DEF Next

LEMMA InitInv == Init => Inv
<1>. SUFFICES ASSUME Init PROVE Inv
  OBVIOUS
<1>1. CountInv /\ OverviewInv
  BY InitCounts, InitOverview DEF Init
<1>2. PageInv
  <2>1. /\ view \in loadStatistics /\ page = [pc |-> "blank"] /\ page.pc = "blank"
        /\ picture = Empty /\ cache = None /\ request.pc = "idle"
    BY DEF Init, OverviewInit, NoRequest
  <2>. QED
    BY <2>1 DEF PageInv
<1>. QED
  BY <1>1, <1>2 DEF Inv

LEMMA NextInv == Inv /\ [Next]_vars => Inv'
<1>. SUFFICES ASSUME Inv, [Next]_vars PROVE Inv'
  OBVIOUS
<1>1. CountInv' /\ OverviewInv' /\ Grown /\ view' = view
  BY StepTables DEF Inv
<1>2. PageInv'
  BY <1>1, StepPage
<1>. QED
  BY <1>1, <1>2 DEF Inv

\* The invariant from which the theorems below follow.
THEOREM Invariant == Spec => []Inv
BY InitInv, NextInv, PTL DEF Spec

----------------------------------------------------------------------------
\* What the invariant implies

\* The tables keep their types, the page has what its state says, and a request
\* is only served while the page waits for it.
THEOREM PageTypes == Spec => []TypeOK
<1>1. Inv => TypeOK
  <2>. SUFFICES ASSUME Inv PROVE TypeOK
    OBVIOUS
  <2>1. StatisticsTypeOK
    BY CountTypes DEF Inv
  <2>2. OverviewTypeOK
    BY DEF Inv, OverviewInv, TablesInv
  <2>. QED
    BY <2>1, <2>2 DEF Inv, PageInv, TypeOK
<1>. QED
  BY <1>1, Invariant, PTL

\* Concurrent calls of the statistics api never invent a count, and lose no
\* location.
THEOREM NoCountInvented == Spec => []CountsBounded
<1>1. Inv => CountsBounded
  BY CountsBound DEF Inv
<1>. QED
  BY <1>1, Invariant, PTL

\* The counts are exact where no calls overlapped.
THEOREM SerialCountsExact == Spec => []CountsExactWhenSerial
<1>1. Inv => CountsExactWhenSerial
  BY DEF Inv, CountInv, SerialInv
<1>. QED
  BY <1>1, Invariant, PTL

\* The answer of attempts per hour and attack type has every hour, each with its
\* attempts.
THEOREM EveryHourListed == Spec => []HoursComplete
<1>1. Inv => HoursComplete
  BY DEF Inv, OverviewInv, RequestInv
<1>. QED
  BY <1>1, Invariant, PTL

\* As long as no two calls for one location overlapped, the first country of the
\* ranking has as many blocks as it says, and no country has more.
THEOREM TopCountryIsToldRight == Spec => []TopCountryIsTop
<1>1. Inv => TopCountryIsTop
  BY TopCountryTold DEF Inv
<1>. QED
  BY <1>1, Invariant, PTL

\* The rankings of cities and of countries are of the same blocks.
THEOREM RankingsSumUp == Spec => []RankingsAgree
<1>1. Inv => RankingsAgree
  BY RankingsSum DEF Inv
<1>. QED
  BY <1>1, Invariant, PTL

\* Each day of the last month has its point in the attempts per day, although the
\* keys lack the year; in order, unless the New Year is among the days.
THEOREM EveryDayIsTold == Spec => []DaysTold
<1>1. Inv => DaysTold
  BY LastDaysTold DEF Inv, OverviewInv
<1>. QED
  BY <1>1, Invariant, PTL

\* The blocks per day are those of the calendar month before this one.
THEOREM TheLastMonthIsShown == Spec => []LastMonthShown
<1>1. Inv => LastMonthShown
  BY LastMonthTold DEF Inv, OverviewInv
<1>. QED
  BY <1>1, Invariant, PTL

\* No attack type is listed without an attempt.
THEOREM EveryTypeShows == Spec => []ListedTypesShow
<1>1. Inv => ListedTypesShow
  BY DEF Inv, OverviewInv, RequestInv
<1>. QED
  BY <1>1, Invariant, PTL

\* The parts of a picture.
Labels(rows) == [i \in DOMAIN rows |-> Label(rows[i].key)]
RowColors(rows) == [i \in DOMAIN rows |-> getColor(i - 1)]
FirstColors(rows) == [i \in DOMAIN rows |-> getColor(0)]
Lines(rows) ==
    [i \in DOMAIN rows |-> [points |-> Values(rows[i].hours), colors |-> <<getColor(i - 1)>>]]
FirstKeys(rows) == IF rows = <<>> THEN <<>> ELSE Keys(rows[1].hours)
Items(rows) ==
    [i \in DOMAIN rows |->
        [type |-> getAttackType(rows[i].type), ip |-> rows[i].ip, date |-> rows[i].at]]

\* The picture of an answer.
LEMMA Drawn ==
    ASSUME Inv, page.pc = "drawn", NEW rows, rows = page.answer.rows
    PROVE  /\ DOMAIN rows = 1..Len(rows) /\ Len(rows) \in Nat
           /\ view.callback = "doughnut" =>
                /\ picture.labels = Labels(rows)
                /\ picture.sets = <<[points |-> Values(rows), colors |-> RowColors(rows)]>>
           /\ view.callback = "multiline" =>
                picture.labels = FirstKeys(rows) /\ picture.sets = Lines(rows)
           /\ view.callback = "line" =>
                /\ picture.labels = Keys(rows)
                /\ picture.sets = <<[points |-> Values(rows), colors |-> FirstColors(rows)]>>
           /\ view.callback = "list" =>
                picture.labels = <<>> /\ picture.sets = <<>> /\ picture.items = Items(rows)
<1>1. /\ DOMAIN rows = 1..Len(rows) /\ Len(rows) \in Nat
      /\ picture = Draw(rows)
  BY DEF Inv, PageInv, AnswerInv
<1>2. /\ \A l, t : /\ [Empty EXCEPT !.labels = l, !.sets = t].labels = l
                   /\ [Empty EXCEPT !.labels = l, !.sets = t].sets = t
      /\ \A t : /\ [Empty EXCEPT !.items = t].labels = <<>>
                /\ [Empty EXCEPT !.items = t].sets = <<>>
                /\ [Empty EXCEPT !.items = t].items = t
  BY DEF Empty
<1>3. CASE view.callback = "doughnut"
  <2>1. picture = createDoughnutChart(view.elem, rows)
    BY <1>1, <1>3 DEF Draw
  <2>2. createDoughnutChart(view.elem, rows) = [Empty EXCEPT !.labels = Labels(rows),
                !.sets = <<[points |-> Values(rows), colors |-> RowColors(rows)]>>]
    BY DEF createDoughnutChart, Labels, Label, RowColors
  <2>. QED
    BY <1>2, <1>3, <2>1, <2>2
<1>4. CASE view.callback = "multiline"
  <2>1. picture = createMultiLineChart(rows)
    BY <1>1, <1>4 DEF Draw
  <2>2. createMultiLineChart(rows) = [Empty EXCEPT !.labels = FirstKeys(rows), !.sets = Lines(rows)]
    BY DEF createMultiLineChart, FirstKeys, Lines
  <2>. QED
    BY <1>2, <1>4, <2>1, <2>2
<1>5. CASE view.callback = "line"
  <2>1. picture = createLineChart(rows)
    BY <1>1, <1>5 DEF Draw
  <2>2. createLineChart(rows) = [Empty EXCEPT !.labels = Keys(rows),
                !.sets = <<[points |-> Values(rows), colors |-> FirstColors(rows)]>>]
    BY DEF createLineChart, FirstColors
  <2>. QED
    BY <1>2, <1>5, <2>1, <2>2
<1>6. CASE view.callback = "list"
  <2>1. picture = populateList(rows)
    BY <1>1, <1>6 DEF Draw
  <2>2. populateList(rows) = [Empty EXCEPT !.items = Items(rows)]
    BY DEF populateList, Items
  <2>. QED
    BY <1>2, <1>6, <2>1, <2>2
<1>. QED
  BY <1>1, <1>3, <1>4, <1>5, <1>6

\* The lines of a chart.
LEMMA LinesDrawn ==
    ASSUME Inv, page.pc = "drawn", view.callback = "multiline", NEW rows, rows = page.answer.rows
    PROVE  /\ LinesOf(page.answer)
           /\ \A n \in DOMAIN rows :
                /\ DOMAIN rows[n].hours = 1..HoursPerDay
                /\ \A h \in 1..HoursPerDay : rows[n].hours[h].key = h - 1
<1>1. LinesOf(page.answer)
  BY Calls DEF Inv, PageInv, AnswerInv
<1>2. \A n \in DOMAIN rows : \E since, moment, type : rows[n].hours = Hours(since, moment, type)
  BY <1>1 DEF LinesOf
<1>3. \A since, moment, type :
        /\ DOMAIN Hours(since, moment, type) = 1..HoursPerDay
        /\ \A h \in 1..HoursPerDay : Hours(since, moment, type)[h].key = h - 1
  BY DEF Hours
<1>. QED
  BY <1>1, <1>2, <1>3

\* Each point of a chart stands above the label of its own row, in a chart of
\* several lines because the api lists the same hours for all of them.
THEOREM PointsStandAboveTheirLabels == Spec => []PointsUnderLabels
<1>1. ASSUME Inv PROVE PointsUnderLabels
  <2>. DEFINE Placed(set) == {<<picture.labels[i], set.points[i]>> : i \in DOMAIN picture.labels}
  <2>. SUFFICES ASSUME page.pc = "drawn", NEW rows, rows = page.answer.rows
                PROVE  /\ \A n \in DOMAIN picture.sets :
                            Len(picture.sets[n].points) = Len(picture.labels)
                       /\ view.callback = "multiline" =>
                            \A n \in DOMAIN rows : Placed(picture.sets[n]) =
                                {<<entry.key, entry.attempts>> : entry \in Range(rows[n].hours)}
    BY DEF PointsUnderLabels
  <2>0. DOMAIN rows = 1..Len(rows) /\ Len(rows) \in Nat
    BY <1>1, Drawn
  <2>1. CASE view.callback \in {"doughnut", "line"}
    <3>1. \/ /\ picture.labels = Labels(rows)
             /\ picture.sets = <<[points |-> Values(rows), colors |-> RowColors(rows)]>>
          \/ /\ picture.labels = Keys(rows)
             /\ picture.sets = <<[points |-> Values(rows), colors |-> FirstColors(rows)]>>
      BY <1>1, <2>1, Drawn
    <3>2. /\ Len(Labels(rows)) = Len(rows) /\ Len(Keys(rows)) = Len(rows)
          /\ Len(Values(rows)) = Len(rows)
      BY <2>0 DEF Labels, Keys, Values
    <3>3. \A c : /\ DOMAIN <<[points |-> Values(rows), colors |-> c]>> = {1}
                 /\ <<[points |-> Values(rows), colors |-> c]>>[1].points = Values(rows)
      OBVIOUS
    <3>4. Len(picture.labels) = Len(rows)
      BY <3>1, <3>2
    <3>5. DOMAIN picture.sets = {1} /\ picture.sets[1].points = Values(rows)
      BY <3>1, <3>3
    <3>. QED
      BY <2>1, <3>2, <3>4, <3>5
  <2>2. CASE view.callback = "multiline"
    <3>1. /\ picture.labels = IF rows = <<>> THEN <<>> ELSE Keys(rows[1].hours)
          /\ picture.sets = [i \in 1..Len(rows) |->
                [points |-> Values(rows[i].hours), colors |-> <<getColor(i - 1)>>]]
      <4>1. picture.labels = FirstKeys(rows) /\ picture.sets = Lines(rows)
        BY <1>1, <2>2, Drawn
      <4>. QED
        BY <2>0, <4>1 DEF FirstKeys, Lines
    <3>2. \A n \in DOMAIN rows : /\ DOMAIN rows[n].hours = 1..HoursPerDay
                                 /\ \A h \in 1..HoursPerDay : rows[n].hours[h].key = h - 1
      BY <1>1, <2>2, LinesDrawn
    <3>3. ASSUME NEW n \in DOMAIN rows
          PROVE  /\ picture.sets[n].points = [h \in 1..HoursPerDay |-> rows[n].hours[h].attempts]
                 /\ picture.labels = [h \in 1..HoursPerDay |-> h - 1]
      <4>1. picture.sets[n].points = Values(rows[n].hours)
        BY <2>0, <3>1
      <4>2. rows # <<>> /\ 1 \in DOMAIN rows
        BY <2>0
      <4>3. picture.labels = Keys(rows[1].hours)
        BY <3>1, <4>2
      <4>. QED
        BY <3>2, <4>1, <4>2, <4>3 DEF Keys, Values
    <3>4. HoursPerDay \in Nat
      BY Clock
    <3>5. ASSUME NEW n \in DOMAIN picture.sets
          PROVE  Len(picture.sets[n].points) = Len(picture.labels)
      <4>1. n \in DOMAIN rows
        BY <2>0, <3>1
      <4>2. /\ picture.sets[n].points = [h \in 1..HoursPerDay |-> rows[n].hours[h].attempts]
            /\ picture.labels = [h \in 1..HoursPerDay |-> h - 1]
        BY <3>3, <4>1
      <4>3. Len(picture.sets[n].points) = HoursPerDay
        BY <3>4, <4>2
      <4>4. Len(picture.labels) = HoursPerDay
        BY <3>4, <4>2
      <4>. QED
        BY <4>3, <4>4
    <3>6. ASSUME NEW n \in DOMAIN rows
          PROVE  Placed(picture.sets[n]) =
                    {<<entry.key, entry.attempts>> : entry \in Range(rows[n].hours)}
      <4>1. Placed(picture.sets[n]) = {<<h - 1, rows[n].hours[h].attempts>> : h \in 1..HoursPerDay}
        <5>1. /\ DOMAIN picture.labels = 1..HoursPerDay
              /\ \A h \in 1..HoursPerDay : picture.labels[h] = h - 1
              /\ \A h \in 1..HoursPerDay : picture.sets[n].points[h] = rows[n].hours[h].attempts
          BY <3>3
        <5>2. Placed(picture.sets[n]) =
                {<<picture.labels[h], picture.sets[n].points[h]>> : h \in 1..HoursPerDay}
          BY <5>1
        <5>. QED
          BY <5>1, <5>2
      <4>2. Range(rows[n].hours) = {rows[n].hours[h] : h \in 1..HoursPerDay}
        BY <3>2 DEF Range
      <4>3. {<<entry.key, entry.attempts>> : entry \in {rows[n].hours[h] : h \in 1..HoursPerDay}} =
                {<<rows[n].hours[h].key, rows[n].hours[h].attempts>> : h \in 1..HoursPerDay}
        OBVIOUS
      <4>4. \A h \in 1..HoursPerDay : rows[n].hours[h].key = h - 1
        BY <3>2
      <4>. QED
        BY <4>1, <4>2, <4>3, <4>4
    <3>. QED
      BY <3>5, <3>6
  <2>3. CASE view.callback = "list"
    <3>1. DOMAIN picture.sets = {}
      <4>1. picture.sets = <<>>
        BY <1>1, <2>3, Drawn, Zenon
      <4>. QED
        BY <4>1
    <3>. QED
      BY <2>3, <3>1
  <2>. QED
    BY <1>1, <2>1, <2>2, <2>3, Calls DEF Inv, PageInv
<1>. QED
  BY <1>1, Invariant, PTL

\* The slices of a chart, and the lines of another, have names of their own,
\* unless there is a city of the name Unknown, and have colours of their own,
\* unless more slices were asked for than the page has colours.
THEOREM SlicesAreToldApart ==
    ASSUME ~NamedUnknown
    PROVE  Spec => []SlicesTellApart
<1>1. ASSUME Inv PROVE SlicesTellApart
  <2>. DEFINE Apart == \A m, n \in DOMAIN picture.sets :
                \A i \in DOMAIN picture.sets[m].colors, j \in DOMAIN picture.sets[n].colors :
                    picture.sets[m].colors[i] = picture.sets[n].colors[j] => m = n /\ i = j
  <2>. SUFFICES ASSUME page.pc = "drawn", view.callback \in {"doughnut", "multiline"}
                PROVE  (page.answer.asked <= Colors => Apart) /\ IsInjective(picture.labels)
    BY DEF SlicesTellApart
  <2>. DEFINE Goal == (page.answer.asked <= Colors => Apart) /\ IsInjective(picture.labels)
  <2>2. Goal
    <3>. PICK rows : rows = page.answer.rows
      OBVIOUS
    <3>0. DOMAIN rows = 1..Len(rows) /\ Len(rows) \in Nat
      BY <1>1, Drawn
    <3>1. ASSUME Len(rows) <= Colors, NEW i \in 1..Len(rows), NEW j \in 1..Len(rows),
                 getColor(i - 1) = getColor(j - 1)
          PROVE  i = j
      <4>1. i - 1 < Colors /\ j - 1 < Colors /\ ~(i - 1 >= Colors) /\ ~(j - 1 >= Colors)
        BY <3>0, <3>1, Types
      <4>2. getColor(i - 1) = i - 1 /\ getColor(j - 1) = j - 1
        BY <4>1 DEF getColor
      <4>. QED
        BY <3>0, <3>1, <4>2
    <3>2. CASE view.callback = "doughnut"
      <4>1. SlicesOf(rows, page.answer.asked)
        BY <1>1, <3>2 DEF Inv, PageInv, AnswerInv
      <4>2. /\ picture.labels = Labels(rows)
            /\ picture.sets = <<[points |-> Values(rows), colors |-> RowColors(rows)]>>
        BY <1>1, <3>2, Drawn
      <4>3. DOMAIN picture.sets = {1} /\ picture.sets[1].colors = RowColors(rows)
            /\ DOMAIN RowColors(rows) = 1..Len(rows)
            /\ \A i \in 1..Len(rows) : RowColors(rows)[i] = getColor(i - 1)
        <5>1. \A p, c : /\ DOMAIN <<[points |-> p, colors |-> c]>> = {1}
                        /\ <<[points |-> p, colors |-> c]>>[1].colors = c
          OBVIOUS
        <5>. QED
          BY <3>0, <4>2, <5>1 DEF RowColors
      <4>4. \A m \in DOMAIN picture.sets : m = 1
        BY <4>3
      <4>5. page.answer.asked <= Colors => Len(rows) <= Colors
        BY <4>1 DEF SlicesOf
      <4>6. page.answer.asked <= Colors => Apart
        <5>. SUFFICES ASSUME page.answer.asked <= Colors, NEW m \in DOMAIN picture.sets, NEW n \in DOMAIN picture.sets,
                             NEW i \in DOMAIN picture.sets[m].colors,
                             NEW j \in DOMAIN picture.sets[n].colors,
                             picture.sets[m].colors[i] = picture.sets[n].colors[j]
                      PROVE  m = n /\ i = j
          OBVIOUS
        <5>1. m = 1 /\ n = 1
          BY <4>4
        <5>2. i \in 1..Len(rows) /\ j \in 1..Len(rows) /\ getColor(i - 1) = getColor(j - 1)
          BY <4>3, <5>1
        <5>. QED
          BY <3>1, <4>5, <5>1, <5>2
      <4>7. IsInjective(picture.labels)
        BY <3>0, <4>1, <4>2 DEF SlicesOf, IsInjective, Labels
      <4>. QED
        BY <4>6, <4>7
    <3>3. CASE view.callback = "multiline"
      <4>1. /\ picture.labels = IF rows = <<>> THEN <<>> ELSE Keys(rows[1].hours)
            /\ picture.sets = [i \in 1..Len(rows) |->
                [points |-> Values(rows[i].hours), colors |-> <<getColor(i - 1)>>]]
        <5>1. picture.labels = FirstKeys(rows) /\ picture.sets = Lines(rows)
          BY <1>1, <3>3, Drawn
        <5>. QED
          BY <3>0, <5>1 DEF FirstKeys, Lines
      <4>2. /\ LinesOf(page.answer)
            /\ \A n \in DOMAIN rows : /\ DOMAIN rows[n].hours = 1..HoursPerDay
                                      /\ \A h \in 1..HoursPerDay : rows[n].hours[h].key = h - 1
        BY <1>1, <3>3, LinesDrawn
      <4>3. Len(rows) <= Colors
        <5>. DEFINE f == [i \in 1..Len(rows) |-> rows[i].type]
        <5>1. \A i \in 1..Len(rows) : rows[i].type \in AttackTypes
          <6>1. rows \in Seq(Entry)
            BY <4>2 DEF LinesOf
          <6>2. \A i \in 1..Len(rows) : rows[i] \in Entry
            BY <6>1
          <6>. QED
            BY <6>2 DEF Entry
        <5>2. f \in Injection(1..Len(rows), AttackTypes)
          BY <3>0, <4>2, <5>1 DEF LinesOf, Injection, IsInjective
        <5>3. Cardinality(1..Len(rows)) <= Cardinality(AttackTypes)
          BY <5>2, Types, FS_Injection
        <5>4. Cardinality(1..Len(rows)) = Len(rows)
          <6>1. \A n \in Nat : Cardinality(1..n) = n
            <7>1. \A n \in Nat : Cardinality(1..n) = IF 1 > n THEN 0 ELSE n - 1 + 1
              BY FS_Interval
            <7>. QED
              BY <7>1
          <6>. QED
            BY <3>0, <6>1
        <5>. QED
          BY <3>0, <5>3, <5>4, Types
      <4>4. \A n \in 1..Len(rows) : picture.sets[n].colors = <<getColor(n - 1)>>
        BY <4>1
      <4>5. \A n \in 1..Len(rows) :
                /\ DOMAIN picture.sets[n].colors = {1}
                /\ picture.sets[n].colors[1] = getColor(n - 1)
        BY <4>4
      <4>6. Apart
        <5>1. DOMAIN picture.sets = 1..Len(rows)
          BY <4>1
        <5>. QED
          BY <3>1, <4>3, <4>5, <5>1
      <4>7. IsInjective(picture.labels)
        <5>1. CASE rows = <<>>
          BY <4>1, <5>1 DEF IsInjective
        <5>2. CASE rows # <<>>
          <6>1. 1 \in DOMAIN rows
            <7>1. LinesOf(page.answer) => rows \in Seq(Entry)
              BY DEF LinesOf
            <7>. QED
              BY <4>2, <5>2, <7>1
          <6>2. picture.labels = [h \in 1..HoursPerDay |-> h - 1]
            BY <4>1, <4>2, <5>2, <6>1 DEF Keys
          <6>3. HoursPerDay \in Nat
            BY Clock
          <6>4. \A g, h \in 1..HoursPerDay : g - 1 = h - 1 => g = h
            BY <6>3
          <6>. QED
            BY <6>2, <6>4 DEF IsInjective
        <5>. QED
          BY <5>1, <5>2
      <4>. QED
        BY <4>6, <4>7
    <3>. QED
      BY <3>2, <3>3
  <2>. QED
    BY <2>2
<1>. QED
  BY <1>1, Invariant, PTL

\* The list of attempts and the ranking of addresses show the table as it was at
\* one moment, no more than half a day before they were sent.
THEOREM ShownTableIsRecent == Spec => []TableShownIsRecent
<1>1. ASSUME Inv PROVE TableShownIsRecent
  <2>. SUFFICES ASSUME page.pc = "drawn", view.query \in {"GetTopIps", "GetLatestAttempts"},
                       NEW rows, rows = page.answer.rows, NEW n, n = page.answer.made.rows
                PROVE  ShowsFirst(n) /\ page.sent - page.answer.made.time <= Day \div 2
    BY DEF TableShownIsRecent
  <2>0. /\ AnswerInv(page.answer) /\ SentInv(page.answer, page.sent) /\ TablesInv
        /\ view \in loadStatistics
    BY <1>1 DEF Inv, PageInv, OverviewInv
  <2>1. DOMAIN rows = 1..Len(rows) /\ Len(rows) \in Nat
    BY <1>1, Drawn
  <2>2. page.sent - page.answer.made.time <= Day \div 2
    <3>1. page.sent \in Int /\ page.answer.made.time \in Int
      BY <2>0 DEF AnswerInv, SentInv, Past, Moments
    <3>2. Day \div 2 \in Nat /\ Duration("GetTopIps") \in Nat
      BY Clock, Durations
    <3>3. \/ page.sent = page.answer.made.time
          \/ page.sent - page.answer.made.time < Duration("GetTopIps")
          \/ page.sent - page.answer.made.time < 1
      BY <2>0, Durations DEF SentInv
    <3>. QED
      BY <3>1, <3>2, <3>3, Durations
  <2>3. n \in Nat
    BY <2>0 DEF AnswerInv, Past, Moments
  <2>4. CASE view.query = "GetTopIps"
    <3>1. TopIpsOf(rows, n, page.answer.asked)
      BY <2>0, <2>4 DEF AnswerInv
    <3>2. view.callback = "doughnut" /\ view.elem # "attacksChart"
      BY <2>0, <2>4, Calls
    <3>3. /\ picture.labels = Labels(rows)
          /\ picture.sets = <<[points |-> Values(rows), colors |-> RowColors(rows)]>>
      BY <1>1, <3>2, Drawn
    <3>4. DOMAIN Labels(rows) = DOMAIN rows /\ \A k \in DOMAIN rows : Labels(rows)[k] = rows[k].key
      BY <3>2 DEF Labels, Label
    <3>5. picture.sets[1].points = Values(rows)
      <4>1. \A sets, p, c : sets = <<[points |-> p, colors |-> c]>> => sets[1].points = p
        OBVIOUS
      <4>. QED
        BY <3>3, <4>1, Zenon
    <3>6. \A k \in DOMAIN rows : picture.sets[1].points[k] = rows[k].attempts
      BY <3>5 DEF Values
    <3>7. ShowsFirst(n)
      <4>1. \A k \in DOMAIN picture.labels : picture.sets[1].points[k] = IpCount(picture.labels[k], n)
        BY <3>1, <3>3, <3>4, <3>6 DEF TopIpsOf
      <4>2. \A source \in Sources :
                \/ source.ip \in Range(picture.labels)
                \/ \A ip \in Range(picture.labels) : IpCount(source.ip, n) <= IpCount(ip, n)
        BY <3>1, <3>3, <3>4 DEF TopIpsOf, Range
      <4>3. n > 0 /\ page.answer.asked > 0 => Range(picture.labels) # {}
        <5>. SUFFICES ASSUME n > 0, page.answer.asked > 0 PROVE Range(picture.labels) # {}
          OBVIOUS
        <5>1. 1 \in DOMAIN rows
          BY <2>1, <3>1 DEF TopIpsOf
        <5>2. Labels(rows)[1] \in Range(picture.labels)
          BY <3>3, <3>4, <5>1 DEF Range
        <5>. QED
          BY <5>2
      <4>. DEFINE asCounted ==
                    /\ \A k \in DOMAIN picture.labels :
                            picture.sets[1].points[k] = Cardinality({i \in 1..n : attempts[i].ip = picture.labels[k]})
                    /\ \A source \in Sources :
                            \/ source.ip \in Range(picture.labels)
                            \/ \A ip \in Range(picture.labels) :
                                    Cardinality({i \in 1..n : attempts[i].ip = source.ip})
                                        <= Cardinality({i \in 1..n : attempts[i].ip = ip})
                    /\ n > 0 /\ page.answer.asked > 0 => Range(picture.labels) # {}
      <4>4. asCounted
        <5>1. \A k \in DOMAIN picture.labels :
                picture.sets[1].points[k] = Cardinality({i \in 1..n : attempts[i].ip = picture.labels[k]})
          BY <4>1, Zenon DEF IpCount
        <5>2. \A source \in Sources :
                \/ source.ip \in Range(picture.labels)
                \/ \A ip \in Range(picture.labels) :
                        Cardinality({i \in 1..n : attempts[i].ip = source.ip})
                            <= Cardinality({i \in 1..n : attempts[i].ip = ip})
          BY <4>2, Zenon DEF IpCount
        <5>. QED
          BY <4>3, <5>1, <5>2, Zenon
      <4>5. asCounted => ShowsFirst(n)
        BY <2>4, Zenon DEF ShowsFirst
      <4>. QED
        BY <4>4, <4>5, Zenon
    <3>. QED
      BY <2>2, <3>7
  <2>5. CASE view.query = "GetLatestAttempts"
    <3>1. LatestOf(rows, n)
      BY <2>0, <2>5 DEF AnswerInv
    <3>2. view.callback = "list"
      BY <2>0, <2>5, Calls
    <3>3. picture.items = Items(rows)
      BY <1>1, <3>2, Drawn
    <3>4. /\ DOMAIN rows = 1..(IF n < Top THEN n ELSE Top)
          /\ \A k \in DOMAIN rows : rows[k] = attempts[n + 1 - k]
      BY <2>1, <3>1 DEF LatestOf
    <3>. DEFINE Item(row) == [type |-> getAttackType(row.type), ip |-> row.ip, date |-> row.at]
    <3>5. Items(rows) = [k \in DOMAIN rows |-> Item(rows[k])]
      BY DEF Items
    <3>6. Items(rows) = [k \in 1..(IF n < Top THEN n ELSE Top) |-> Item(attempts[n + 1 - k])]
      <4>. HIDE DEF Item
      <4>. QED
        BY <3>4, <3>5
    <3>7. ShowsFirst(n)
      BY <2>5, <3>3, <3>6 DEF ShowsFirst
    <3>. QED
      BY <2>2, <3>7
  <2>. QED
    BY <2>4, <2>5
<1>. QED
  BY <1>1, Invariant, PTL

----------------------------------------------------------------------------
\* The last day

\* The attempts of a window that have a type.
OfType(since, moment, type) == {i \in Window(since, moment) : attempts[i].type = type}

\* The hours of a line account for its attempts.
LEMMA HoursAddUp ==
    ASSUME TablesInv, NEW since, NEW moment, Past(moment), NEW type,
           NEW hours, hours = Hours(since, moment, type)
    PROVE  /\ IsFiniteSet(OfType(since, moment, type))
           /\ SumOf(hours) = Cardinality(OfType(since, moment, type))
<1>. DEFINE I == 1..HoursPerDay
            f == [h \in I |-> InHour(since, moment, type, h - 1)]
            g == [h \in I |-> hours[h].attempts]
            all == OfType(since, moment, type)
<1>1. HoursPerDay \in Nat /\ IsFiniteSet(I)
  BY Clock, FS_Interval
<1>2. \A h \in I : IsFiniteSet(f[h])
  <2>1. IsFiniteSet(Window(since, moment))
    BY Attempted
  <2>2. \A h \in I : f[h] \in SUBSET Window(since, moment)
    BY DEF InHour
  <2>. HIDE DEF f
  <2>. QED
    BY <2>1, <2>2, FS_Subset
<1>3. \A h, k \in I : h # k => f[h] \cap f[k] = {}
  <2>1. \A h, k \in I : h - 1 = k - 1 => h = k
    BY <1>1
  <2>2. \A h \in I : \A i \in f[h] : Hour(attempts[i].at) = h - 1
    BY DEF InHour
  <2>. HIDE DEF f
  <2>. QED
    BY <2>1, <2>2
<1>4. \A h \in I : g[h] = Cardinality(f[h])
  BY DEF Hours
<1>5. ASSUME NEW i \in all PROVE \E h \in I : i \in f[h]
  <2>1. i \in DOMAIN attempts
    <3>1. i \in Window(since, moment)
      BY <1>5 DEF OfType
    <3>. QED
      BY <3>1, Attempted
  <2>2. attempts[i].at \in Int
    BY <2>1, Attempted
  <2>3. PICK hour \in 0..(HoursPerDay - 1) : Hour(attempts[i].at) = hour
    BY <2>2, HourType
  <2>4. hour + 1 \in I /\ hour + 1 - 1 = hour
    BY <1>1, <2>3
  <2>5. i \in f[hour + 1]
    BY <1>5, <2>3, <2>4 DEF OfType, InHour
  <2>. HIDE DEF f
  <2>. QED
    BY <2>4, <2>5
<1>6. IsFiniteSet(all) /\ SumFunctionOnSet(g, I) = Cardinality(all)
  <2>1. IsFiniteSet(I)
    BY <1>1
  <2>2. \A h \in I : f[h] \subseteq all
    BY DEF OfType, InHour
  <2>. HIDE DEF f, g, I, all
  <2>. QED
    BY <1>2, <1>3, <1>4, <1>5, <2>1, <2>2, SumOfDisjoint
<1>7. SumOf(hours) = SumFunctionOnSet(g, I)
  <2>1. DOMAIN hours = I
    BY DEF Hours
  <2>2. [h \in DOMAIN hours |-> hours[h].attempts] = g
    BY <2>1
  <2>3. DOMAIN g = I
    OBVIOUS
  <2>4. SumFunction(g) = SumFunctionOnSet(g, DOMAIN g)
    BY DEF SumFunction
  <2>. HIDE DEF g
  <2>. QED
    BY <2>2, <2>3, <2>4 DEF SumOf
<1>. QED
  BY <1>6, <1>7

\* The lines account for every attempt of the day before the request that had been
\* stored when it began, and for none that is older than that day or was stored
\* later than the answer was made.
LEMMA LinesAddUp ==
    ASSUME TablesInv, NEW answer, LinesOf(answer), Past(answer.begun), Past(answer.made),
           NEW rows, rows = answer.rows
    PROVE  /\ Cardinality(Window(answer.begun.time - Day, answer.begun)) <= SumOfLines(rows)
           /\ SumOfLines(rows) <= Cardinality(Window(answer.begun.time - Day, answer.made))
<1>. DEFINE since == answer.begun.time - Day
            I == DOMAIN rows
            f == [n \in I |-> OfType(since, rows[n].seen, rows[n].type)]
            g == [n \in I |-> SumOf(rows[n].hours)]
            all == UNION {f[n] : n \in I}
<1>0. /\ Len(attempts) \in Nat /\ DOMAIN attempts = 1..Len(attempts)
      /\ answer.begun \in Moments /\ answer.made \in Moments /\ now \in Int
      /\ answer.made.time <= now /\ answer.made.rows <= Len(attempts)
  BY Attempted DEF Past
<1>1. IsFiniteSet(I)
  <2>1. rows \in Seq(Entry)
    BY DEF LinesOf
  <2>2. I = 1..Len(rows) /\ Len(rows) \in Nat
    BY <2>1
  <2>. QED
    BY <2>2, FS_Interval
<1>2. \A n \in I : /\ NotBefore(rows[n].seen, answer.begun) /\ NotBefore(answer.made, rows[n].seen)
                   /\ rows[n].hours = Hours(since, rows[n].seen, rows[n].type)
                   /\ rows[n].seen \in Moments /\ Past(rows[n].seen)
  <2>. SUFFICES ASSUME NEW n \in I
                PROVE  /\ NotBefore(rows[n].seen, answer.begun) /\ NotBefore(answer.made, rows[n].seen)
                       /\ rows[n].hours = Hours(since, rows[n].seen, rows[n].type)
                       /\ rows[n].seen \in Moments /\ Past(rows[n].seen)
    OBVIOUS
  <2>1. /\ NotBefore(rows[n].seen, answer.begun) /\ NotBefore(answer.made, rows[n].seen)
        /\ rows[n].hours = Hours(since, rows[n].seen, rows[n].type)
        /\ rows[n] \in Entry
    BY DEF LinesOf
  <2>2. rows[n].seen \in Moments
    BY <2>1 DEF Entry
  <2>3. Past(rows[n].seen)
    BY <1>0, <2>1, <2>2 DEF Past, NotBefore, Moments
  <2>. QED
    BY <2>1, <2>2, <2>3
<1>3. \A n \in I : IsFiniteSet(f[n]) /\ g[n] = Cardinality(f[n])
  <2>1. ASSUME NEW n \in I
        PROVE  /\ IsFiniteSet(OfType(since, rows[n].seen, rows[n].type))
               /\ SumOf(rows[n].hours) = Cardinality(OfType(since, rows[n].seen, rows[n].type))
    <3>1. rows[n].hours = Hours(since, rows[n].seen, rows[n].type)
      BY <1>2
    <3>2. Past(rows[n].seen)
      BY <1>2
    <3>. HIDE DEF since
    <3>. QED
      BY <3>1, <3>2, HoursAddUp
  <2>. QED
    BY <2>1
<1>4. \A m, n \in I : m # n => f[m] \cap f[n] = {}
  <2>1. \A m, n \in I : rows[m].type = rows[n].type => m = n
    BY DEF LinesOf
  <2>2. \A n \in I : \A i \in f[n] : attempts[i].type = rows[n].type
    BY DEF OfType
  <2>. HIDE DEF f
  <2>. QED
    BY <2>1, <2>2
<1>5. IsFiniteSet(all) /\ SumFunctionOnSet(g, I) = Cardinality(all)
  <2>1. \A n \in I : f[n] \subseteq all
    OBVIOUS
  <2>2. \A x \in all : \E n \in I : x \in f[n]
    OBVIOUS
  <2>. HIDE DEF f, g, I, all
  <2>. QED
    BY <1>1, <1>3, <1>4, <2>1, <2>2, SumOfDisjoint
<1>6. SumOfLines(rows) = Cardinality(all)
  <2>1. DOMAIN g = I
    OBVIOUS
  <2>2. SumFunction(g) = SumFunctionOnSet(g, DOMAIN g)
    BY DEF SumFunction
  <2>3. SumOfLines(rows) = SumFunction(g)
    BY DEF SumOfLines
  <2>. HIDE DEF g, all
  <2>. QED
    BY <1>5, <2>1, <2>2, <2>3
<1>7. \A i \in DOMAIN attempts : attempts[i].at \in Int
  BY Attempted
<1>8. Window(since, answer.begun) \subseteq all
  <2>1. ASSUME NEW i \in Window(since, answer.begun) PROVE i \in all
    <3>1. PICK n \in I : rows[n].type = attempts[i].type
      BY <2>1 DEF LinesOf
    <3>2. NotBefore(rows[n].seen, answer.begun) /\ rows[n].seen \in Moments
      BY <1>2, <3>1
    <3>3. /\ i \in 1..answer.begun.rows /\ i \in DOMAIN attempts
          /\ attempts[i].at > since /\ attempts[i].at < answer.begun.time
      <4>1. i \in DOMAIN attempts
        BY <2>1, Attempted
      <4>. QED
        BY <2>1, <4>1 DEF Window
    <3>4. attempts[i].at < rows[n].seen.time /\ i \in 1..rows[n].seen.rows
      BY <1>0, <1>7, <3>2, <3>3 DEF NotBefore, Moments
    <3>5. i \in f[n]
      BY <3>1, <3>3, <3>4 DEF OfType, Window
    <3>. HIDE DEF f
    <3>. QED
      BY <3>1, <3>5
  <2>. QED
    BY <2>1
<1>9. all \subseteq Window(since, answer.made)
  <2>1. ASSUME NEW n \in I, NEW i \in f[n] PROVE i \in Window(since, answer.made)
    <3>1. /\ i \in 1..rows[n].seen.rows
          /\ attempts[i].at > since /\ attempts[i].at < rows[n].seen.time
      BY <2>1 DEF OfType, Window
    <3>2. NotBefore(answer.made, rows[n].seen) /\ rows[n].seen \in Moments /\ Past(rows[n].seen)
      BY <1>2, <2>1
    <3>3. i \in DOMAIN attempts
      BY <1>0, <3>1, <3>2 DEF Past, Moments
    <3>4. attempts[i].at < answer.made.time /\ i \in 1..answer.made.rows
      BY <1>0, <1>7, <3>1, <3>2, <3>3 DEF NotBefore, Moments
    <3>. QED
      BY <3>1, <3>4 DEF Window
  <2>. HIDE DEF f
  <2>. QED
    BY <2>1
<1>10. IsFiniteSet(Window(since, answer.made))
  BY Attempted
<1>. HIDE DEF all
<1>11. Cardinality(Window(since, answer.begun)) <= Cardinality(all)
  BY <1>5, <1>8, FS_Subset
<1>12. Cardinality(all) <= Cardinality(Window(since, answer.made))
  BY <1>9, <1>10, FS_Subset
<1>. QED
  BY <1>6, <1>11, <1>12

\* "Attempts last 24 hours" shows what had been stored of the day before the
\* request, although the types are counted one after the other while attempts
\* arrive, and the answer may come from the cache.
THEOREM TheLastDayIsShown == Spec => []LastDayShown
<1>1. ASSUME Inv PROVE LastDayShown
  <2>. SUFFICES ASSUME page.pc = "drawn", view.callback = "multiline",
                       NEW answer, answer = page.answer,
                       NEW since, since = answer.begun.time - Day
                PROVE  /\ page.sent - answer.made.time < TicksPerHour
                       /\ Cardinality(Window(since, answer.begun)) <= SumOfLines(answer.rows)
                       /\ SumOfLines(answer.rows) <= Cardinality(Window(since, answer.made))
    BY DEF LastDayShown
  <2>1. AnswerInv(answer) /\ SentInv(answer, page.sent) /\ TablesInv /\ view \in loadStatistics
    BY <1>1 DEF Inv, PageInv, OverviewInv
  <2>2. LinesOf(answer)
    BY <1>1, LinesDrawn
  <2>3. Past(answer.begun) /\ Past(answer.made) /\ answer.made.time \in Int
    BY <2>1 DEF AnswerInv, Past, Moments
  <2>4. page.sent - answer.made.time < TicksPerHour
    <3>1. view.query = "GetAttackTypesAttemptsPerHour"
      BY <2>1, Calls
    <3>2. page.sent \in Int /\ TicksPerHour \in Nat \ {0}
      BY <2>1, Clock DEF SentInv
    <3>3. page.sent = answer.made.time \/ page.sent - answer.made.time < TicksPerHour
      BY <2>1, <3>1, Durations DEF SentInv
    <3>. QED
      BY <2>3, <3>2, <3>3
  <2>. QED
    BY <2>1, <2>2, <2>3, <2>4, LinesAddUp
<1>. QED
  BY <1>1, Invariant, PTL

=============================================================================
