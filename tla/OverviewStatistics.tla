------------------------- MODULE OverviewStatistics -------------------------
(***************************************************************************)
(* The queries of the overview api, on top of the tables the api writes:   *)
(* rankings, the latest rows, and rows grouped by attack type, hour or     *)
(* day.  All are single statements, except the attempts per hour and       *)
(* attack type: for those a query is made per type, while attempts keep    *)
(* being added and the clock keeps running.                                *)
(*                                                                         *)
(* An attempt has the date on which a plug-in detected it, and is stored   *)
(* when its notifications have been sent and the api has been called.  So  *)
(* rows are not in the order of their dates, and a period that has passed  *)
(* still gets rows.  All machines are taken to have one clock.             *)
(*                                                                         *)
(* The clock counts ticks; hours, days, months and years are multiples of  *)
(* them, so that a month has the same length all the year round.           *)
(***************************************************************************)
EXTENDS ApiStatistics

CONSTANTS
    Sources,        \* who attacks, and how: records with an ip and a type
    MaxAttempts,    \* bound on the rows of table AccessAttempts
    Top,            \* 10, the default of top and the length of the latest lists
    BlockDays,      \* 30, the default of days in GetBlocksPerHour
    TicksPerHour,   \* resolution of the clock
    HoursPerDay,    \* 24
    DaysPerMonth,
    MonthsPerYear,  \* 12
    StartTime,      \* bounds of the clock
    MaxTime

\* The types are those of the enumeration AttackType, or 0 for none.
ASSUME SourcesAssumption ==
    \A source \in Sources : source = [ip |-> source.ip, type |-> source.type] /\ source.type \in 0..5
ASSUME ClockAssumption ==
    /\ {Top, BlockDays, TicksPerHour, HoursPerDay, DaysPerMonth, MonthsPerYear} \subseteq Nat \ {0}
    /\ StartTime \in Nat /\ MaxTime \in Nat /\ StartTime <= MaxTime /\ MaxAttempts \in Nat
    /\ MonthsPerYear > 1    \* the days of a month and a day differ in DayOfYear

VARIABLES
    now,
    attempts,    \* rows of table AccessAttempts in the order of their Id
    blocked,     \* the attempts that have a row in table Blocks, in the order of its Id
    request      \* the GetAttackTypesAttemptsPerHour request being served

overviewVars == <<now, attempts, blocked, request>>

----------------------------------------------------------------------------
\* The calendar

Day == HoursPerDay * TicksPerHour
Month == DaysPerMonth * Day

Hour(t) == (t \div TicksPerHour) % HoursPerDay
DayOfMonth(t) == (t \div Day) % DaysPerMonth
MonthOfYear(t) == (t \div Month) % MonthsPerYear
YearOf(t) == t \div (MonthsPerYear * Month)

\* DateTime.Now.AddDays(-days) and AddMonths(-1)
DaysAgo(days) == now - days * Day
LastMonth == now - Month

----------------------------------------------------------------------------
\* Grouping and ranking

\* One entry for each key that rows have.  Rows are indices of a table.
GroupedBy(rows, key) ==
    {[key |-> k, attempts |-> Cardinality({i \in rows : key[i] = k})] : k \in {key[i] : i \in rows}}

Enumerations(groups) == Bijection(1..Cardinality(groups), groups)

InOrder(groups) ==
    CHOOSE s \in Enumerations(groups) : \A i, j \in DOMAIN s : i < j => s[i].key < s[j].key

\* In descending order; which of two equal entries comes first is not known.
RankedAll(groups) ==
    CHOOSE s \in Enumerations(groups) :
        \A i, j \in DOMAIN s : i < j => s[i].attempts >= s[j].attempts

Take(rows, top) == SubSeq(rows, 1, IF Len(rows) < top THEN Len(rows) ELSE top)

\* Mutant of Ranked: one entry too many.
RankedOneMore(groups, top) == Take(RankedAll(groups), top + 1)

Ranked(groups, top) == Take(RankedAll(groups), top)

----------------------------------------------------------------------------
\* Table Statistics.Blocks: GetTopCountries and GetTopCities

\* The attempts of the rows that share a country or a city, null excluded.
Grouped(column) ==
    {[key |-> k,
      attempts |-> SumFunctionOnSet(Counts, {i \in DOMAIN table : table[i].place[column] = k})] :
        k \in {table[i].place[column] : i \in DOMAIN table} \ {None}}

\* Mutant of GetTopCountries: the rows are counted instead of their attempts.
GetTopCountriesRows(top) ==
    Ranked({[key |-> k, attempts |-> Cardinality({i \in DOMAIN table : table[i].place.country = k})] :
                k \in {table[i].place.country : i \in DOMAIN table} \ {None}}, top)

GetTopCountries(top) == Ranked(Grouped("country"), top)

\* Mutant of GetTopCities: cities without a name are left out.
GetTopCitiesNamed(top) ==
    Ranked({g \in Grouped("city") : g.key # ""}, top)

\* A city is named Unknown after the grouping if its name is empty.  Cities of
\* the same name in different countries are one city.
GetTopCities(top) ==
    LET cities == Ranked(Grouped("city"), top)
    IN  [i \in DOMAIN cities |->
            IF cities[i].key = "" THEN [cities[i] EXCEPT !.key = "Unknown"] ELSE cities[i]]

----------------------------------------------------------------------------
\* Table AccessAttempts: addresses, days and latest attempts

\* AddLoginAttempt: the row keeps the date of the detection.
AddAttempt(source) ==
    /\ Len(attempts) < MaxAttempts
    /\ \E at \in StartTime..now :
        attempts' = Append(attempts, [ip |-> source.ip, type |-> source.type, at |-> at])
    /\ UNCHANGED <<now, blocked, request>>

Tick ==
    /\ now < MaxTime
    /\ now' = now + 1
    /\ UNCHANGED <<attempts, blocked, request>>

GetTopIps(top) ==
    Ranked(GroupedBy(DOMAIN attempts, [i \in DOMAIN attempts |-> attempts[i].ip]), top)

\* What a query is answered from: the time, and the rows there are.
Present == [time |-> now, rows |-> Len(attempts)]

\* The attempts with EventDate > since && EventDate < DateTime.Now that a query
\* finds which is made at a moment.
Window(since, moment) ==
    {i \in 1..moment.rows : attempts[i].at > since /\ attempts[i].at < moment.time}

\* A key of format "M" is a month and a day without a year; parsed again, it is
\* a day of the present year.
DayOfYear(t) == (t \div Day) % (DaysPerMonth * MonthsPerYear)

PerDayOf(key) == InOrder(GroupedBy(Window(LastMonth, Present), key))

\* Mutant of GetAttemptsPerDay: the key has no month.
GetAttemptsPerDayOfMonth == PerDayOf([i \in DOMAIN attempts |-> DayOfMonth(attempts[i].at)])

GetAttemptsPerDay == PerDayOf([i \in DOMAIN attempts |-> DayOfYear(attempts[i].at)])

GetLatestAttempts == Take(Reverse(attempts), Top)

----------------------------------------------------------------------------
\* Table Blocks

\* The row of a block has the address, the type and the date of its attempt.
AddBlock(i) ==
    /\ \A n \in DOMAIN blocked : blocked[n] # i
    /\ blocked' = Append(blocked, i)
    /\ UNCHANGED <<now, attempts, request>>

BlockRow(n) == attempts[blocked[n]]

BlocksSince(since) == {n \in DOMAIN blocked : BlockRow(n).at > since}

\* The entries are in no particular order.
GetTopAttacks ==
    SetToSeq(GroupedBy(BlocksSince(DaysAgo(1)), [n \in DOMAIN blocked |-> BlockRow(n).type]))

\* An hour of the day without blocks has no entry.
GetBlocksPerHour(days) ==
    InOrder(GroupedBy(BlocksSince(DaysAgo(days)), [n \in DOMAIN blocked |-> Hour(BlockRow(n).at)]))

PerDayOfMonth(rows) == InOrder(GroupedBy(rows, [n \in DOMAIN blocked |-> DayOfMonth(BlockRow(n).at)]))

\* Mutant of GetBlocksPerDay: the year is that of today.
GetBlocksPerDayThisYear ==
    PerDayOfMonth({n \in DOMAIN blocked : /\ MonthOfYear(BlockRow(n).at) = MonthOfYear(LastMonth)
                                         /\ YearOf(BlockRow(n).at) = YearOf(now)})

GetBlocksPerDay ==
    PerDayOfMonth({n \in DOMAIN blocked : /\ MonthOfYear(BlockRow(n).at) = MonthOfYear(LastMonth)
                                         /\ YearOf(BlockRow(n).at) = YearOf(LastMonth)})

GetLatestBlocks == Take(Reverse([n \in DOMAIN blocked |-> BlockRow(n)]), Top)

----------------------------------------------------------------------------
\* GetAttackTypesAttemptsPerHour

\* begun, and in each entry seen, are kept for the properties.
NoRequest ==
    [pc |-> "idle", since |-> 0, begun |-> [time |-> 0, rows |-> 0], types |-> {}, data |-> <<>>]

\* The first query: the start of the window is fixed and the types are listed.
ListAttackTypes ==
    /\ request.pc = "idle"
    /\ request' = [pc |-> "collecting", since |-> DaysAgo(1), begun |-> Present, data |-> <<>>,
                   types |-> {attempts[i].type : i \in Window(DaysAgo(1), Present)}]
    /\ UNCHANGED <<now, attempts, blocked>>

\* One entry for each hour that has attempts, in order.
Counted(rows) == InOrder(GroupedBy(rows, [i \in DOMAIN attempts |-> Hour(attempts[i].at)]))

\* Mutants of FillHours: a missing hour is added at the end; none is added.
FillHoursLast(stats) ==
    FoldLeft(LAMBDA s, h : IF \E n \in DOMAIN s : s[n].key = h THEN s
                           ELSE Append(s, [key |-> h, attempts |-> 0]),
             stats, [n \in 1..HoursPerDay |-> n - 1])
FillHoursNot(stats) == stats

\* For every hour of the day in turn, an hour without an entry is inserted at
\* its index.
FillHours(stats) ==
    LET filled[n \in 0..HoursPerDay] ==
            IF n = 0 THEN stats
            ELSE IF \E i \in DOMAIN filled[n - 1] : filled[n - 1][i].key = n - 1 THEN filled[n - 1]
            ELSE InsertAt(filled[n - 1], n, [key |-> n - 1, attempts |-> 0])
    IN  filled[HoursPerDay]

CollectFrom(type, since) ==
    /\ request.pc = "collecting" /\ type \in request.types
    /\ LET rows == {i \in Window(since, Present) : attempts[i].type = type}
           entry == [type |-> type, seen |-> Present, hours |-> FillHours(Counted(rows))]
       IN  request' = [request EXCEPT !.types = @ \ {type}, !.data = Append(@, entry)]
    /\ UNCHANGED <<now, attempts, blocked>>

\* Mutant of CollectHours: the start of the window is taken anew.
CollectHoursAnew(type) == CollectFrom(type, DaysAgo(1))

\* The next query: the attempts of one type up to the present moment.
CollectHours(type) == CollectFrom(type, request.since)

\* The list is returned.
Respond ==
    /\ request.pc = "collecting" /\ request.types = {}
    /\ request' = NoRequest
    /\ UNCHANGED <<now, attempts, blocked>>

----------------------------------------------------------------------------

OverviewInit ==
    /\ now = StartTime
    /\ attempts = <<>>
    /\ blocked = <<>>
    /\ request = NoRequest

AttackTypes == {source.type : source \in Sources}

OverviewTypeOK ==
    /\ now \in StartTime..MaxTime
    /\ Len(attempts) <= MaxAttempts
    /\ \A i \in DOMAIN attempts :
        /\ [ip |-> attempts[i].ip, type |-> attempts[i].type] \in Sources
        /\ attempts[i].at \in StartTime..now
    /\ Range(blocked) \subseteq DOMAIN attempts
    /\ request.pc \in {"idle", "collecting"}
    /\ request.types \subseteq AttackTypes

Countries == {p.country : p \in Places \ {Nowhere}}

SavedIn(country) == {b \in Blocks : call[b] = "saved" /\ place[b].country = country}

\* The ranking tells which countries were blocked most: as long as no two calls
\* for one location overlapped, the first of the ranking has as many blocks as
\* it says, and no country has more.  (It ranks blocks, as column Attempts does,
\* and not the login attempts that led to them.)
TopCountryIsTop ==
    overlapped = {} =>
        /\ \A i \in DOMAIN GetTopCountries(1) :
            LET first == GetTopCountries(1)[i] IN
            /\ first.attempts = Cardinality(SavedIn(first.key))
            /\ \A c \in Countries : Cardinality(SavedIn(c)) <= first.attempts
        /\ \A c \in Countries : SavedIn(c) # {} => GetTopCountries(1) # <<>>

SumOf(ranking) == SumFunction([i \in DOMAIN ranking |-> ranking[i].attempts])

\* The rankings of cities and of countries account for the same blocks: neither
\* loses those with an empty name, which become "Unknown" in one of them only,
\* nor shows those stored with null.
RankingsAgree ==
    /\ SumOf(GetTopCities(Len(table))) = SumOf(GetTopCountries(Len(table)))
    /\ SumOf(GetTopCountries(Len(table))) <=
            Cardinality({b \in Blocks : call[b] = "saved" /\ place[b].country # None})

\* The chart of an attack type has every hour of the day once and in order,
\* with exactly those attempts of the window in it that had been stored when
\* its own query was made, although the clock runs between the queries and
\* attempts are added, some of them with a date in the window.
HoursComplete ==
    \A n \in DOMAIN request.data :
        LET entry == request.data[n] IN
        /\ Len(entry.hours) = HoursPerDay
        /\ \A h \in 0..(HoursPerDay - 1) : entry.hours[h + 1] =
            [key |-> h,
             attempts |-> Cardinality({i \in Window(request.since, entry.seen) :
                            attempts[i].type = entry.type /\ Hour(attempts[i].at) = h})]

\* An attack type that is listed has an attempt to show.
ListedTypesShow ==
    \A n \in DOMAIN request.data :
        \E h \in DOMAIN request.data[n].hours : request.data[n].hours[h].attempts > 0

\* The days, numbered since the beginning of time, that some rows of a window have.
DaysOf(dates) ==
    CHOOSE s \in Enumerations({t \div Day : t \in dates}) :
        \A i, j \in DOMAIN s : i < j => s[i] < s[j]

\* Every day of the last month has one point, although the keys lack the year;
\* and the points are in the order of the days, unless the New Year is among them
\* (GetAttemptsPerDay parses its keys as days of one year).
DaysTold ==
    LET window == Window(LastMonth, Present)
        days == DaysOf({attempts[i].at : i \in window})
        counts == [n \in DOMAIN days |->
                        Cardinality({i \in window : attempts[i].at \div Day = days[n]})]
        points == [n \in DOMAIN GetAttemptsPerDay |-> GetAttemptsPerDay[n].attempts]
    IN  /\ Len(points) = Len(days)
        /\ SumOf(GetAttemptsPerDay) = Cardinality(window)
        /\ YearOf(LastMonth) = YearOf(now) => points = counts

\* GetBlocksPerDay shows the blocks of the calendar month before this one, and
\* no others, in January as well.
LastMonthShown ==
    LET rows == {n \in DOMAIN blocked : BlockRow(n).at \div Month = now \div Month - 1}
        days == DaysOf({BlockRow(n).at : n \in rows})
    IN  GetBlocksPerDay = [n \in DOMAIN days |->
            [key |-> days[n] % DaysPerMonth,
             attempts |-> Cardinality({i \in rows : BlockRow(i).at \div Day = days[n]})]]

=============================================================================
