--------------------------- MODULE StatisticsPage ---------------------------
(***************************************************************************)
(* The statistics page of the overview site.  When it is loaded it         *)
(* requests ten lists from the overview api and draws each of them into    *)
(* its own element.  A request may be answered from a cache, fail, or get  *)
(* lost.  The api has other clients, which may ask for longer or shorter   *)
(* lists than the page; the cache does not tell them apart.                *)
(*                                                                         *)
(* The ten requests share nothing: each has its own XMLHttpRequest, query, *)
(* cache entry and element.  A behaviour therefore follows one of them,    *)
(* chosen at the beginning, and only the table that it reads is written.   *)
(***************************************************************************)
EXTENDS OverviewStatistics

CONSTANTS
    Colors,    \* 18, the length of window.chartColors
    Requested  \* the values of top or days that other clients send, a negative
               \* one, which has the effect of 0, excepted

\* The arguments of getData: element, query, and how the answer is drawn.
Call(elem, query, callback) == [elem |-> elem, query |-> query, callback |-> callback]

loadStatistics ==
    {Call("attacksChart", "GetTopAttacks", "doughnut"),
     Call("countriesChart", "GetTopCountries", "doughnut"),
     Call("citiesChart", "GetTopCities", "doughnut"),
     Call("ipChart", "GetTopIps", "doughnut"),
     Call("attackTypesAttemptsPerHourChart", "GetAttackTypesAttemptsPerHour", "multiline"),
     Call("attemptsPerDayChart", "GetAttemptsPerDay", "line"),
     Call("blocksPerHourChart", "GetBlocksPerHour", "line"),
     Call("blocksPerDayChart", "GetBlocksPerDay", "line"),
     Call("last10AccessAttemptsList", "GetLatestAttempts", "list"),
     Call("last10BlockList", "GetLatestBlocks", "list")}

\* The page has colours for the longest list that it asks for.
ASSUME ColorsAssumption ==
    Colors \in Nat /\ Top <= Colors /\ Cardinality(AttackTypes) <= Colors
ASSUME RequestedAssumption == Requested \subseteq Nat

VARIABLES
    view,      \* the call of getData that is followed
    page,      \* how far it has come: pc, and the answer once there is one
    picture,   \* what stands in the element
    cache      \* the cached answer, or None

pageVars == <<view, page, picture, cache>>
vars == <<statisticsVars, overviewVars, pageVars>>

----------------------------------------------------------------------------
\* The answers of the api and their cache

TableOf(query) ==
    CASE query \in {"GetTopCountries", "GetTopCities"} -> "Statistics.Blocks"
      [] query \in {"GetTopAttacks", "GetBlocksPerHour", "GetBlocksPerDay", "GetLatestBlocks"} -> "Blocks"
      [] OTHER -> "AccessAttempts"

\* The queries that have a parameter, and what it is unless the client sends it.
Parameterized == {"GetTopCountries", "GetTopCities", "GetTopIps", "GetBlocksPerHour"}
Default(query) == IF query = "GetBlocksPerHour" THEN BlockDays ELSE Top

\* The queries that are one statement; asked is top or days.
Result(query, asked) ==
    CASE query = "GetTopAttacks" -> GetTopAttacks
      [] query = "GetTopCountries" -> GetTopCountries(asked)
      [] query = "GetTopCities" -> GetTopCities(asked)
      [] query = "GetTopIps" -> GetTopIps(asked)
      [] query = "GetAttemptsPerDay" -> GetAttemptsPerDay
      [] query = "GetBlocksPerHour" -> GetBlocksPerHour(asked)
      [] query = "GetBlocksPerDay" -> GetBlocksPerDay
      [] query = "GetLatestAttempts" -> GetLatestAttempts
      [] query = "GetLatestBlocks" -> GetLatestBlocks

\* Mutants of Duration: all are kept for half a day; for a day.
DurationHalfDay(query) == Day \div 2
DurationDay(query) == Day

\* [ResponseCache(Duration = 3600, 43200 or 300)]; the last is less than a tick.
Duration(query) ==
    CASE query \in {"GetTopAttacks", "GetAttackTypesAttemptsPerHour"} -> TicksPerHour
      [] query \in {"GetLatestAttempts", "GetLatestBlocks"} -> 1
      [] OTHER -> (HoursPerDay \div 2) * TicksPerHour

Missed == cache # None => now - cache.made.time >= Duration(view.query)

\* An answer, what was asked, and the moments when the api began and ended to
\* make it.
Made(rows, asked, begun) == [rows |-> rows, asked |-> asked, begun |-> begun, made |-> Present]

\* The page gets an answer.
Arrive(answer) == page' = [pc |-> "answered", answer |-> answer, sent |-> now]

\* The answer is made for the page, sent with its duration, and kept.
AnswerWith(rows, begun) ==
    LET answer == Made(rows, Default(view.query), begun) IN
    /\ Arrive(answer)
    /\ cache' = answer
    /\ UNCHANGED <<statisticsVars, view, picture>>

\* A copy in the middleware or in the browser: its age counts from when the api
\* made it, in both.
AnswerFromCache ==
    /\ page.pc = "waiting"
    /\ ~Missed
    /\ Arrive(cache)
    /\ UNCHANGED <<statisticsVars, overviewVars, view, picture, cache>>

Answer ==
    /\ page.pc = "waiting" /\ Missed
    /\ view.query # "GetAttackTypesAttemptsPerHour"
    /\ AnswerWith(Result(view.query, Default(view.query)), Present)
    /\ UNCHANGED overviewVars

\* The answer is made for another client, whose top or days is not part of the
\* key under which it is kept: no VaryByQueryKeys.
AnswerOther(asked) ==
    /\ Missed
    /\ view.query \in Parameterized
    /\ cache' = Made(Result(view.query, asked), asked, Present)
    /\ UNCHANGED <<statisticsVars, overviewVars, view, page, picture>>

CollectPerHour ==
    /\ page.pc = "waiting" /\ Missed
    /\ view.query = "GetAttackTypesAttemptsPerHour"
    /\ ListAttackTypes \/ \E type \in AttackTypes : CollectHours(type)
    /\ UNCHANGED <<statisticsVars, pageVars>>

AnswerPerHour ==
    /\ page.pc = "waiting"
    /\ Respond
    /\ AnswerWith(request.data, request.begun)

\* The database raises an exception: status 500, which is not cached.
AnswerError ==
    /\ page.pc = "waiting" /\ Missed
    /\ page' = [page EXCEPT !.pc = "refused"]
    /\ request' = NoRequest
    /\ UNCHANGED <<statisticsVars, now, attempts, blocked, view, picture, cache>>

\* A cached answer is evicted when memory is needed.
Evict ==
    /\ cache # None
    /\ cache' = None
    /\ UNCHANGED <<statisticsVars, overviewVars, view, page, picture>>

----------------------------------------------------------------------------
\* The page: getData and its callbacks

getColor(i) == IF i >= Colors THEN 0 ELSE i

getAttackType(type) ==
    CASE type = 1 -> "Web Spam"
      [] type = 2 -> "Port Scan"
      [] type = 3 -> "Sql Injection"
      [] type = 4 -> "Brute-Force"
      [] type = 5 -> "Web Exploit"
      [] OTHER -> "Not specified"

Keys(rows) == [i \in DOMAIN rows |-> rows[i].key]
Values(rows) == [i \in DOMAIN rows |-> rows[i].attempts]

\* An element without a chart or list.
Empty == [labels |-> <<>>, sets |-> <<>>, items |-> <<>>]

\* One slice per row; only the attack types are given names.
createDoughnutChart(elem, rows) ==
    [Empty EXCEPT
        !.labels = [i \in DOMAIN rows |->
                        IF elem = "attacksChart" THEN getAttackType(rows[i].key) ELSE rows[i].key],
        !.sets = <<[points |-> Values(rows), colors |-> [i \in DOMAIN rows |-> getColor(i - 1)]]>>]

\* One line per row, in a colour of its own; the labels are those of the first.
createMultiLineChart(rows) ==
    [Empty EXCEPT
        !.labels = IF rows = <<>> THEN <<>> ELSE Keys(rows[1].hours),
        !.sets = [i \in DOMAIN rows |->
                    [points |-> Values(rows[i].hours), colors |-> <<getColor(i - 1)>>]]]

\* One line, each point in the first colour.
createLineChart(rows) ==
    [Empty EXCEPT
        !.labels = Keys(rows),
        !.sets = <<[points |-> Values(rows), colors |-> [i \in DOMAIN rows |-> getColor(0)]]>>]

\* One item per row.
populateList(rows) ==
    [Empty EXCEPT !.items = [i \in DOMAIN rows |->
        [type |-> getAttackType(rows[i].type), ip |-> rows[i].ip, date |-> rows[i].at]]]

Draw(rows) ==
    CASE view.callback = "doughnut" -> createDoughnutChart(view.elem, rows)
      [] view.callback = "multiline" -> createMultiLineChart(rows)
      [] view.callback = "line" -> createLineChart(rows)
      [] view.callback = "list" -> populateList(rows)

\* The page is opened, or loaded again once the request has ended.
onload ==
    /\ page.pc \in {"blank", "drawn", "alerted", "silent"}
    /\ page' = [pc |-> "waiting"]
    /\ picture' = Empty
    /\ UNCHANGED <<statisticsVars, overviewVars, view, cache>>

\* xhr.onload with status 200, and with any other.
getData ==
    \/ /\ page.pc = "answered"
       /\ picture' = Draw(page.answer.rows)
       /\ page' = [page EXCEPT !.pc = "drawn"]
       /\ UNCHANGED <<statisticsVars, overviewVars, view, cache>>
    \/ /\ page.pc = "refused"
       /\ page' = [page EXCEPT !.pc = "alerted"]
       /\ UNCHANGED <<statisticsVars, overviewVars, view, picture, cache>>

\* The request or the answer is lost.  There is no handler for it: the element
\* stays empty.
LoseConnection ==
    /\ page.pc \in {"waiting", "answered"} /\ request.pc = "idle"
    /\ page' = [pc |-> "silent"]
    /\ UNCHANGED <<statisticsVars, overviewVars, view, picture, cache>>

----------------------------------------------------------------------------

Init ==
    /\ StatisticsInit
    /\ OverviewInit
    /\ view \in loadStatistics
    /\ page = [pc |-> "blank"]
    /\ picture = Empty
    /\ cache = None

Reads(name) == TableOf(view.query) = name

\* Blocks stem from attempts.
Write ==
    \/ /\ Reads("Statistics.Blocks")
       /\ \E b \in Blocks : StatisticsUpdateBlocks(b)
       /\ UNCHANGED overviewVars
    \/ /\ ~Reads("Statistics.Blocks")
       /\ \E source \in Sources : AddAttempt(source)
       /\ UNCHANGED statisticsVars
    \/ /\ Reads("Blocks")
       /\ \E i \in DOMAIN attempts : AddBlock(i)
       /\ UNCHANGED statisticsVars

Next ==
    \/ Write /\ UNCHANGED pageVars
    \/ Tick /\ UNCHANGED <<statisticsVars, pageVars>>
    \/ \E asked \in Requested : AnswerOther(asked)
    \/ AnswerFromCache \/ Answer \/ CollectPerHour \/ AnswerPerHour \/ AnswerError
    \/ Evict
    \/ onload \/ getData \/ LoseConnection

Spec == Init /\ [][Next]_vars

----------------------------------------------------------------------------

\* The tables keep their types; a page has what its state says, and a request
\* is only served while the page waits for it.
TypeOK ==
    /\ StatisticsTypeOK
    /\ OverviewTypeOK
    /\ view \in loadStatistics
    /\ page.pc \in {"blank", "waiting", "answered", "refused", "drawn", "alerted", "silent"}
    /\ request.pc = "collecting" => page.pc = "waiting" /\ Missed
    /\ page.pc # "drawn" => picture = Empty

\* What an element shows stands where it belongs: each point of a chart above
\* the label of its own row.  A chart of several lines takes its labels from the
\* first of them, and relies on the api for the same hours in all the others.
PointsUnderLabels ==
    LET Placed(set) == {<<picture.labels[i], set.points[i]>> : i \in DOMAIN picture.labels}
        rows == page.answer.rows
    IN  page.pc = "drawn" =>
        /\ \A n \in DOMAIN picture.sets : Len(picture.sets[n].points) = Len(picture.labels)
        /\ view.callback = "multiline" =>
            \A n \in DOMAIN rows : Placed(picture.sets[n]) =
                {<<entry.key, entry.attempts>> : entry \in Range(rows[n].hours)}

\* The slices of a chart and the lines of another can be told apart: no two have
\* one colour, and no two slices one name.  The page has so many colours, and
\* the api has to keep its lists as short; what it cannot keep short is the
\* ranking that another client asked for, if the page gets that from the cache.
SlicesTellApart ==
    page.pc = "drawn" /\ view.callback \in {"doughnut", "multiline"} =>
        /\ page.answer.asked <= Colors =>
            \A m, n \in DOMAIN picture.sets :
                \A i \in DOMAIN picture.sets[m].colors, j \in DOMAIN picture.sets[n].colors :
                    picture.sets[m].colors[i] = picture.sets[n].colors[j] => m = n /\ i = j
        /\ IsInjective(picture.labels)

\* The picture of the first n attempts.
ShowsFirst(n) ==
    IF view.query = "GetTopIps"
    THEN LET Count(ip) == Cardinality({i \in 1..n : attempts[i].ip = ip})
             shown == Range(picture.labels)
         IN  /\ \A k \in DOMAIN picture.labels : picture.sets[1].points[k] = Count(picture.labels[k])
             /\ \A source \in Sources : source.ip \in shown
                    \/ \A ip \in shown : Count(source.ip) <= Count(ip)
             /\ n > 0 /\ page.answer.asked > 0 => shown # {}
    ELSE picture.items = [k \in 1..(IF n < Top THEN n ELSE Top) |->
            LET row == attempts[n + 1 - k]
            IN  [type |-> getAttackType(row.type), ip |-> row.ip, date |-> row.at]]

\* "They are cached up to 12 hours each", says the page: its list of attempts and
\* its ranking of addresses show the table as it was at one moment, no more than
\* 12 hours before they were sent.
TableShownIsRecent ==
    page.pc = "drawn" /\ view.query \in {"GetTopIps", "GetLatestAttempts"} =>
        /\ ShowsFirst(page.answer.made.rows)
        /\ page.sent - page.answer.made.time <= Day \div 2

SumOfLines(rows) == SumFunction([n \in DOMAIN rows |-> SumOf(rows[n].hours)])

\* "Attempts last 24 hours": the lines account for every attempt of the day
\* before the request was served that had been stored by then, and for none that
\* is older than that day, although they are counted one after the other while
\* attempts arrive, and shown again from the cache, which holds them for less
\* than an hour.
LastDayShown ==
    page.pc = "drawn" /\ view.callback = "multiline" =>
        LET answer == page.answer
            shown == SumOfLines(answer.rows)
            since == answer.begun.time - Day
        IN  /\ page.sent - answer.made.time < TicksPerHour
            /\ Cardinality(Window(since, answer.begun)) <= shown
            /\ shown <= Cardinality(Window(since, answer.made))

=============================================================================
