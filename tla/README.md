# A TLA+ model of Server Protection

Server Protection watches a machine for access attempts (failed logins, port
scans, requests of exploit paths), stores them through an api, blocks the
addresses that exceed a threshold in the firewall, and lifts the blocks again
after some hours.  This directory holds TLA+ modules that model it, the TLC
configurations that check them, and proofs for TLAPS of the main results.
Every definition is translated from the source; `PROJECT.json` gives the lines.

## The system

| Component | State | Operations | Interacts with |
|---|---|---|---|
| `SP.Core/SP.Core` `CoreService`, `ProtectHandler` | plug-ins, `apiHandler`, `latestBlocks` (MemoryCache, 5 minutes), the unblock timer, handlers in flight | `OnLoginAttemptEvent`, `OnBlockEvent`, `OnUnblockEvent` (all `async void`), `UnblockTask`, `ExecuteAsync` | every plug-in, by events and calls |
| Api plug-ins `Api.gRPC`, `Api.Https` | a channel or client per call | `AddLoginAttempt`, `GetLoginAttempts`, `AddBlock`, `UpdateBlock`, `GetUnblock`, `StatisticsUpdateBlocks` | one api service |
| Api services `SP.Api.Service` (gRPC), `SP.Api.Https` | tables `AccessAttempts`, `Blocks`, `Statistics.Blocks` | the same calls | the database |
| Firewall plug-ins `Linux.IPTables.Firewall`, `Windows.Firewall` | the rules of the host, running `iptables` processes | `BlockEvent`, `UnblockEvent` | host |
| Detection plug-ins `Honeypot`, `Windows.Event.Monitor`, `Windows.IIS.Monitor`, `Linux.Log.Monitor` | a listener or a process that follows a log, the registered handler | `Configure`, `RegisterAccessAttemptHandler`, one callback per event | `CoreService`, by the handler |
| `LiveReport.SignalR` | `Hub` (a HubConnection), `FailedReconfigure` | `Configure`, its Closed handler, three reports, `RecoverInvalidState` | `ReportingHub` |
| `SP.Overview` | pages with three columns of at most 25 cards | `ReportingHub` broadcasts, `reportingHub.js` inserts cards | browsers |
| `SP.Api.Overview` | none but a cache of its answers; reads the tables | ten queries: rankings, rows per hour or day, latest rows | the database |
| The statistics page of `SP.Overview` | one element per query | `getData` and four callbacks that draw | `SP.Api.Overview` |
| `AbuseIP`, `Load.Simulator`, `IPData`, the plug-in loader, hosts, other pages | none that others depend on | | |

What is hard in it:

* Handlers of different attempts run concurrently and interleave at every
  await; `latestBlocks` is looked up and filled without a lock.
* `UnblockEvent` is not awaited, and an `iptables` process outlives the call
  that started it: the database, the cache and the firewall change in different
  orders.
* The timer may start an activation before the last one has ended, or be
  collected.
* Calls fail in different ways: `Api.gRPC` raises an exception, `Api.Https`
  returns false, -1 or null.  An exception in an `async void` handler ends the
  process, and everything in memory with it.
* Plug-ins listen before others are configured.
* Reports, Closed handlers and `Configure` meet in two fields of the LiveReport
  plug-in without a lock; the hub writes a report to one page after the other and
  serves two connections of the plug-in at the same time.
* The statistics are read and written in separate statements, and a row bears the
  date of its detection, not of its insertion.
* Answers come from caches that do not look at the parameters of a request, and
  are drawn by the position of a row in its list.
* A setting (`Blocking:BlockIPRange`) is read twice, from files of two programs.

What makes each component correct is said by its properties below.  The file
`PROJECT.json` lists the hazards line by line, with the properties that cover them.

## The modules

### CoreService

The pipeline and the unblock task, with api, database and firewall as far as
they matter for it.  An action is what runs between two awaits, except that the
look-up in the cache and the insertion are two actions (two calls on a
thread-safe cache, made on different threads).

| Variables | In the code |
|---|---|
| `config` | the settings of `Configure`, the api plug-in and the firewall plug-in |
| `core`, `timer` | the process, before and after `ExecuteAsync` has come to its loop; the timer object |
| `phase`, `ip`, `override` | an attempt inside `OnLoginAttemptEvent` and `OnBlockEvent`, and two columns of it |
| `latestBlocks` | the MemoryCache |
| `recorded`, `recent`, `row`, `due` | tables AccessAttempts and Blocks, and the ages that the queries ask for |
| `task`, `unblocking` | activations of `UnblockTask`, calls of `OnUnblockEvent` that are not done |
| `inserting`, `deleting`, `rules` | running `iptables` processes; rules in force |
| `unnamed` | blocks whose `FirewallRuleName` stayed null because the Windows firewall could not be opened |

`RaiseAttempt`, `AddLoginAttempt`, `AnalyzeAttempt`, `CheckLatestBlocks`,
`AddLatestBlock`, `NotifyBlock`, `AddBlock` and `StatisticsUpdateBlocks` are the
steps of an attempt; `...Refused` and `...Throws` are their failures over
`Api.Https` and either transport.  `Tick`, `GetUnblock`, `SignalUnblock`,
`UpdateBlock` are those of the unblock task, `NotifyUnblock` of its event.
Time passes by `AgeAttempt`, `ExpireLatest` and `BecomeDue`.  `BecomeDue` waits
for a running insertion: the setting is in minutes, and a process that inserts
one rule takes far less.

A fault of each kind is enabled by the constant `Faults` and counted against
`MaxFaults`.

There are two settings for ranges.  `blockIPRange` is what the core reads from its
own file (CoreService.cs:344) and decides the key in `latestBlocks`.  `ruleIPRange`
is what the Windows plug-in reads from its own `appSettings.json` (Firewall.cs:58)
and decides what its rule names (`Subject`); the option by which the core passes
its setting on is not looked at.  The iptables plug-in names the address in any
case.  As shipped the first is true and the second, for lack of a section
`Blocking`, false: then the cache knows more than the firewall on either system,
which is what `core_range_suppressed` shows.

`NotifyBlockUnnamed` is the Windows plug-in that cannot make the firewall object:
its `BlockEvent` ends before it has named the rule.  Over gRPC the request of
`AddBlock` then cannot be made, which ends the process (`AddBlockUnnamed`); over
https the block is stored, and its removal removes nothing.

### BlockPolicy

What the service promises, without a word on how: an attempt is seen, evidence
gathers, a block is entered in the ledger and guarded by a rule only against
someone accused who is not on the whitelist, and both are lifted only when the
block is overdue.  `CoreService` implements it: `KeepsPolicy` is `BlockPolicy`
with `source`, `target`, `accused`, `ledger`, `overdue` and `guarded` replaced by
expressions over `ip`, `row`, `due`, `rules` and the tables.  An action of
`CoreService` maps to one of the policy, or changes nothing of what it speaks
about (the cache, the phases between decision and rule, the unblock task).

### BlockStatistics

`CoreService` composed with `ApiStatistics`: the call that ends `OnBlockEvent` is
under way, with its two statements, while the attempt is "counting"
(`ReportBlock`, `CountBlock`), and ends even if the core does not live to see its
answer (`CountLostBlock`).  It puts the attempts of an address beside what the
table says of them.

### Detection

The loop of `ExecuteAsync` that starts the plug-ins one by one, the listeners
that work meanwhile, and the way of an event to the api.  `Order` is the list of
plug-ins.  `Configure`, `Register` and `Ready` are the loop; `Listen`,
`ListenThrows`, `ListenFails`, `FollowerExits` what happens to a listener;
`Raise` and `RaiseThrows` the callbacks; `Deliver` the call of the api.  The
parsers and filters decide what counts as an event and are not modelled.
An exception of `Configure` has one of two effects (`ConfigureThrows`): as long as
everything that `ExecuteAsync` awaited had completed at once, the host fails to
start with it and the process ends; after a plug-in that really waited, such as
LiveReport, the host ignores it and the plug-ins started so far stay at work.
`Restart` brings the process back with nothing in memory, and the follower of a
log starts with the last lines of it (`tail`, `journalctl`).

### LiveReport

One connection object per `Configure`.  `hub` is the property Hub, `link` the
state of each connection, `handlers` its Closed handlers, `failedReconfigure` the
flag.  `Configure` reads or writes Hub three times and is three steps, `Build`,
`Subscribe` and `StartHub`, between which another `Configure` may replace Hub: one
connection may get both handlers and both starts.  `pc` says where the core's
first call of it, and each report, has come.

A report goes through `Report` (the attempt, block or unblock event),
`InvokeAsync`, `BeginBroadcast`, `SendTo` (one page), `EndBroadcast` and
`Receive`, or through `RecoverInvalidState`, `Reconfigure` and `Configure`.  The
hub serves the invocations of one connection one after the other
(`BeginBroadcast` waits for the last to end), and those of two connections at the
same time.  `Reconnect` is what the Closed handler does after its delay; `waiting`
are its calls of StartAsync that wait for the lock of the connection.
HubConnection itself is a library: it is modelled from the way the plug-in uses it
(an invocation or a start waits while a start runs, Closed is raised for a
connection that was up).  Two pairs of lines are one step: a call of StartAsync
takes the lock at once if it is free, and a start that ends lets its `Configure`
go on to line 97 or 103.

### ApiStatistics, OverviewStatistics, StatisticsPage

Each extends the one before.  `ApiStatistics` is the api call that counts a block
per location: it reads a row (`LookUp`) and writes it (`SaveChanges`).

`OverviewStatistics` has the ten queries of the overview api over the three
tables.  Nine are one statement each, and operators: `GetTopAttacks`,
`GetTopCountries`, `GetTopCities`, `GetTopIps`, `GetAttemptsPerDay`,
`GetBlocksPerHour`, `GetBlocksPerDay`, `GetLatestAttempts` and `GetLatestBlocks`.
`GetAttackTypesAttemptsPerHour` makes a query per attack type and is a sequence
of actions (`ListAttackTypes`, `CollectHours`, `Respond`) between which attempts
are added and the clock runs.  `AddAttempt` gives a row any date from the beginning
to the present: the api stores the date of the detection, which the plug-ins set
before they raise the event, and notifications and calls come in between.  So rows
are not in the order of their dates, and are added to windows that have passed; a
query finds what has been stored by its own moment (`Present`: the time and the
number of rows).  The clocks of all machines are taken to be one, as the queries
do.  A date is a number of ticks, from which the hour,
day, month and year are computed; a `DateTime` that is formatted without its year
and parsed again loses it (`DayOfYear`).

`StatisticsPage` is `statistics.js` with the response cache between it and the
api.  The cache keeps one answer per path, since `[ResponseCache]` names no
`VaryByQueryKeys`: what was made for another client's `top` or `days`
(`AnswerOther`, for the values in `Requested`) is given to the page, and the page's
own answer to others.  A request is answered from the cache (`AnswerFromCache`), by the api
(`Answer`, or `CollectPerHour` and `AnswerPerHour`), with status 500
(`AnswerError`) or not at all (`LoseConnection`: `getData` has no handler for
that, so the element stays empty).  `getData` calls the callback, which draws
labels, points, colours or items (`createDoughnutChart`, `createMultiLineChart`,
`createLineChart`, `populateList`).  The ten requests of a page have nothing in
common, neither variable nor cache entry nor element; a behaviour follows one of
them, chosen in `Init`, and only the table that its query reads is written.  What
is left out by this is a page that shows two lists of different age; no property
relates two lists.  A page is loaded again only after its request has ended.

`table.attempts` is the column Attempts of `Statistics.Blocks`.  Its comment calls
it the "Amount of login attempts made by the IP that is being blocked"
(StatisticsBlocks.cs:31); the code adds one per block, and that is what
`CountsBounded`, `CountsExactWhenSerial`, `TopCountryIsTop` and `RankingsAgree` speak
of: "most attempts" in a ranking means most blocks.  `core_attempts_counted`
shows the difference.

### Proof modules

`CoreServiceProofs`, `ReliableServiceProofs`, `LiveReportProofs`,
`DetectionProofs`, `ApiStatisticsProofs`, `OverviewStatisticsProofs` and
`StatisticsPageProofs`, each about the module it is named after, and
`FiniteLemmas` with what the last three need of sums and orders; see *Proofs*.

### MC modules

`MCCoreService`, `MCBlockStatistics`, `MCDetection`, `MCLiveReport` and
`MCStatisticsPage` give the constants of the runs.

## The runs

| Run | Instance | Shows |
|---|---|---|
| `core_faults` | 2 attempts, 3 addresses of one range (one whitelisted), 2 overlapping unblock tasks, threshold 2, one fault of any kind; gRPC with ranges on the Windows firewall and https with iptables | What no failure, crash or interleaving breaks: evidence, whitelist, cause of suppressions, removal only when due, life of a row, and `BlockPolicy` as a whole |
| `core_reliable` | 2 attempts, one task, no fault, fairness; single addresses on iptables, ranges on Windows with both files set to it | Firewall and database agree in every state; the threshold is enforced; who is suppressed is blocked; every row and every rule is lifted |
| `detection` | honeypot, log, IIS, event log, api plug-in last; one event each, one with a malformed address; one fault | No event is counted twice, log lines are not lost at start-up, no attempt fails for lack of an api once the core operates, and events then reach the api |
| `livereport` | 2 reports, 2 pages, columns of 1 card, one drop, one failed start, one lost page | Why the flag can stay set and why a report can be lost; no report is both delivered and lost; pages agree on the reports of a connection; reports end; the connection comes back |
| `overview_statistics` | 3 blocks, 4 locations (one empty, one null), 2 attempts of 2 sources, days of 4 hours, months of 2 days, years of 2 months, a clock that crosses New Year; lists of 2 rows, 2 colours, another client that asks for 3 rows | Counts never exceed the blocks, and are exact without overlap; rankings; hours, days and months are complete; points stand under their labels, slices differ, and what a page shows is as recent as the caches promise |
| `core_dedupe_race` | 2 attempts, no fault | *violated*: an address is blocked twice |
| `core_range_suppressed` | 3 attempts, the shipped settings on iptables and on Windows | *violated*: an address is taken for blocked and is not |
| `core_attempts_counted` | 2 attempts of one address, no fault | *violated*: the column of login attempts holds 1 after a block for two |
| `core_https_threshold` | 2 attempts, https | *violated*: the threshold is never reached |
| `core_early_unblock` | 2 attempts, https, one refused call | *violated*: a younger block loses its rule |
| `core_timer_collected` | 2 attempts, the timer is collected once | *violated*: a block is not lifted |
| `livereport_stuck` | 2 reports, 2 failed starts | *violated*: no report makes a connection again |

The violated properties state what a comment or setting of the repository says;
`findings` in `PROJECT.json` quotes it.

**Why the bounds are enough.**  The threshold is 2 so that two attempts reach it;
a race for the cache or for a row needs two handlers.  Three addresses are an
attacker, a neighbour in its range and a whitelisted one.  Two activations of
the unblock task are enough to work on one row at the same time and to hold a stale
list.  `MaxFaults` is 1: each fault is tried at every point where it may strike,
and what a fault leaves behind (an orphan rule, a row to be unblocked again) is
met by everything that may follow.  The proofs lift the bounds for the safety
properties of `core_faults` and `core_reliable`.  In `livereport` two reports
overfill a column of one card and can hold three connections with the core's; two
cards in one column, and what is below them, are left to the theorem.  In
`overview_statistics` three calls can overlap in pairs or all together; the clock
runs from the last day but one of a year into the next year, past the end of a
day, a month and the year, and longer than any cached answer lives; two attempts
are enough to be on different days, in different hours or of different types, and
a list of two rows is full.

Two constraints keep that run small.  `MCFewHours` watches each query as long as its
properties need: the attempts per day for six hours, past the end of the year; the
blocks per day, the top attacks and the attack types for five, longer than a day; the
others for two or three, as long as an answer is cached (two hours) or one longer.
`MCOthersMatter` lets another client fill the cache only while the page waits: as
the page may wait for any time after that, an answer that was there before it was
loaded adds nothing.

Runs whose system may really stop (all attempts handled, faults used up) do not
check for deadlock.  `core_reliable` does: the timer goes on for ever.

**Fairness.**  Weak fairness of what the runtime schedules: a handler, task or
process that was started goes on, a listener's thread runs, the timer keeps
firing as long as it exists, the host restarts the service (it is installed as
one), and a block grows old.  Nothing obliges an attempt to be made, a cache
entry to expire, a page to be opened, a connection to drop, or a fault to strike.
The dedicated conditions `failures = MaxFailures` and `core = "down"` in the
liveness properties say when the code does not promise anything.

## Proofs

| Module | Theorem | States |
|---|---|---|
| `CoreServiceProofs` | `CoreInvariant` | `CoreInv`, the inductive invariant |
| | `TypeCorrect` | `TypeOK` |
| | `RemovalsAreDue` | `RemovalOnlyWhenDue` |
| | `RowsAdvance` | `RowLifecycle` (an action property) |
| | `BlocksHaveEvidence` | `BlockHasEvidence` |
| | `WhitelistHolds` | `WhitelistRespected` |
| | `SuppressionsHaveCause` | `SuppressionHasCause` |
| | `ServiceKeepsPolicy` | `KeepsPolicy`: `CoreService` implements `BlockPolicy` |
| `ReliableServiceProofs` | `ReliableInvariant` | `ReliableInv`, the inductive invariant when calls succeed |
| | `LedgerBalances` | `RuleLedger` |
| | `ThresholdHolds` | `ThresholdEnforced` |
| | `SuppressionIsSound` | `SuppressedAreBlocked`, if core and plug-in are set to block the same |
| | `FreshBlocksHold` | `FreshBlockEnforced` |
| `LiveReportProofs` | `LiveInvariant` | `LiveInv`, the inductive invariant |
| | `LiveReportTypes` | `TypeOK` |
| | `LossesHaveCause`, `FlagsMeanTrouble` | `LossHasCause`, `FlagMeansTrouble` |
| | `ReportsEndOnce` | `OutcomesFinal` (an action property) |
| | `PagesShowTheSame` | `PagesAgree` |
| `DetectionProofs` | `DetectionInvariant` | `DetectionInv`, the inductive invariant |
| | `DetectionTypes` | `TypeOK` |
| | `EventsCountedOnce`, `LogLinesAreHandled` | `CountedOnce`, `LogLinesHandled` |
| | `OperatingCoreHasApi` | `OperatingHasApi` |
| `StatisticsPageProofs` | `Invariant` | `Inv`, the inductive invariant of the three statistics modules |
| | `PageTypes` | `TypeOK` |
| | `NoCountInvented`, `SerialCountsExact` | `CountsBounded`, `CountsExactWhenSerial` |
| | `EveryHourListed`, `EveryTypeShows` | `HoursComplete`, `ListedTypesShow` |
| | `PointsStandAboveTheirLabels` | `PointsUnderLabels` |
| | `SlicesAreToldApart` | `SlicesTellApart`, unless a city is called Unknown |
| | `ShownTableIsRecent`, `TheLastDayIsShown` | `TableShownIsRecent`, `LastDayShown` |
| | `TopCountryIsToldRight`, `RankingsSumUp` | `TopCountryIsTop`, `RankingsAgree` |
| | `EveryDayIsTold`, `TheLastMonthIsShown` | `DaysTold`, `LastMonthShown` |

They hold for every value of the constants and rest on the named assumptions of
the modules only: attempts, reports and events are finite sets, the whitelist
consists of addresses, every address has a range that is no address, every event
has a plug-in as its source, each plug-in is started once, the blocks are a
finite set and a type of attack is one of the six of the enumeration, there are
as many colours as entries in a list that the page asks for, other clients ask
for natural numbers of entries, a year has more than one month, bounds are
natural numbers, and the placeholders for "none" and "loading" are no real value.
A year of one month would give the first and the last day of `GetAttemptsPerDay`
the same key, as the window touches one day more than a month has.

**CoreServiceProofs.**  `TypeOK` is not inductive: a removal indexes `rules` by
the address of an attempt, which must have one.  `CoreInv` adds what ties an
attempt's data to its phase (`AttemptInv`: one that was not raised has no address
and no record; one that has a row or a process has gone as far as reporting; the
row is made by the step that leaves that phase; what is due has a row) and that
the unblock task works on due rows only (`TaskInv`).  The second part is needed
because a list of blocks is read in one step and used in later ones.

The proofs go in two rounds.  The `...Types` lemmas take the actions one by one.
The `...Summary` lemmas then say of each group of actions how it may move a
phase, the database, the cache, the task and the firewall, so that the later
invariants are proved about six summaries instead of forty actions:
`EvidenceInv` (who is convicted has evidence, which persists as records are never
deleted), `WhitelistInv` (who passed the check is not on the list) and
`CacheInv` (an entry has a cause that went on to the firewall).

The refinement is proved by one more summary, `PolicyMove`: a step raises or
records an attempt, or changes rows (`Rows`), or changes rules (`Rules`).  Each
is shown to be an action of the policy under the invariants above: a row is made
in phase "reporting", when there is evidence against the attempt and its address
is off the whitelist, and `RemovalOnlyWhenDue` makes every removal a `Release`.

**ReliableServiceProofs.**  These theorems have the hypothesis `Reliable`: no
fault strikes, the api is gRPC, the core blocks ranges only beside a Windows plug-in
whose own file says that its rules name ranges (the shipped file does not), and
activations of the unblock task do not overlap.  Each part is
needed.  The runs `core_https_threshold`, `core_range_suppressed` and
`core_early_unblock` give counterexamples without the first three; with two
activations (`core_reliable` with `Tasks <- MCTasks`) TLC finds one that violates
`RuleLedger`: both hold the same row and remove two rules for it.  `ReliableInv` has
three parts beyond `CoreInv`:

* `BooksInv`: what a handler does is done to the end, so that "reported" means
  that there is a row.
* `JudgedInv`: once the attempts of a source in the window reach the threshold,
  one of them is yet to count all of them, or has been judged.  The step that
  matters is `AnalyzeAttempt`: if it sees fewer than the threshold, the window
  holds fewer, and nothing is owed.
* `RemovalInv` and `RuleLedger`: at most one removal per block is on its way, and
  only after the insertion ended.  A step leaves the set of blocks in force for
  each address alone (`LedgerStill`), adds one and its rule (`LedgerJoins`), or
  takes one away and its rule, which is there to be removed because the ledger
  counts it (`LedgerLeaves`).

**LiveReportProofs.**  `LiveInv` has, besides the types,

* `HubInv`: connections exist once they are used, and each is paid for by one call
  of `Configure`, which is why their number stays within its type;
* `FlagInv`: while nothing dropped and no start failed, a flag that is set is going
  to be reset, by the `Configure` that makes the next connection or by one that
  starts the present one;
* `CauseInv`: a report that read Hub after the start of its connection had begun
  finds it active, unless something dropped or failed;
* `WireInv`: what is on the way to the hub was sent on that connection, once, from
  which `OutcomesFinal` follows.

`LossHasCause` names the one loss without a drop or a failure: a report that reads
Hub between the lines of `Configure` that make the connection and start it
(`early`, a history variable).  `FlagMeansTrouble` does not ask for a failed start:
if a Closed handler starts the new connection before its `Configure` does, the
latter's StartAsync throws and the flag stays set over a working connection.

`PagesAgree` is about the reports of one connection, which the hub writes one at a
time.  `PlaceInv` says that a report is in one place of a page (to be written, on
its way, or a card) and `OrderInv` that, of one connection, nothing is above the
report that is being written.  `SendTo` then puts a report above the same ones on
every page (`OrderKept` and the lemmas after it handle the steps that only take
cards away).  Reports of two connections are written at the same time, and two
pages may show them in different orders; nothing is claimed of those.

**DetectionProofs.**  `DetectionInv` bounds the attempts of an event by what may
still become one: an event in a queue, or a log that is yet to be followed in
this start of the core, leaves its count below the limit (`CountInv`), and queues
hold an event once (`QueueInv`).  `LogInv` says that a log is followed only by a
plug-in that has its handler, which `Configure` and `Register` do in that order
for it and not for the others.

**StatisticsPageProofs.**  `Inv` has three parts, one per module.

* `CountInv` (`ApiStatisticsProofs`).  `CountsBounded` is not inductive: a call
  that has read a row writes the number it read plus one, whatever the row holds by
  then.  `FoundInv` says that this number, with the other rows of the location,
  does not exceed the blocks saved so far; as the call's own block is not among
  them, one more is allowed when it is saved.  It needs that all calls read the
  first row of a location, which stays the first as rows are only appended.
  `SerialInv` is the same for equality: a call that nobody overlaps is the only one
  that is saving, and what it read is what the row still holds.
* `OverviewInv` (`OverviewStatisticsProofs`).  A type is on the list or has its
  entry, once each.  A window of the past does get rows, as late attempts bear
  early dates; but what a query found at its moment are the first rows of the
  table, which stay as they are (`Grown`, `WindowKept`), and so each entry is told
  exactly by the moment when it was made.
  `FillHours` inserts the missing hours by a recursive function; `FillStep` and
  `HoursListed` show that the result is the list of all hours.
* `PageInv`.  An answer describes the rows there were at the moment it was made, and
  was sent before its duration ended (`AnswerInv`, `SentInv`); this survives all
  steps, so it holds of an answer from the cache too, whoever asked for it.  The
  picture is what the callback makes of the answer.

A ranking sorts by CHOOSE over all enumerations of a set.  `Sorting` in
`FiniteLemmas` shows that a finite set has one that is in order, `Ranked...` and
`Groups` what follows for the lists of the api.

The rankings count what the table counts: the rows of a country are the disjoint
groups of its locations, and so are the rows of all that have a name (`SumOfSums`,
`ColumnCounts`, `RankingCounts`), which gives `RankingsAgree` for cities as well,
as a location has both names or none.  With `CountInv` these sums are at most the
numbers of blocks, and equal to them if no calls overlapped (`CountsAt`,
`CountryCounts`), which gives `TopCountryIsTop`.

The charts of days group rows by a number that is less than the day: the day of
the month, or of the year.  `PerDay` says that this gives one point per day, in
order, if the number tells the days of the rows apart and grows with them.  The
quotients of the calendar (`Calendar`, `QuotientTwice`) show that it does: all
rows of `GetBlocksPerDay` are of one month (`SameMonth`), and the days of
`GetAttemptsPerDay` are no more than a month apart (`MonthAgo`, `DaysNumbered`).
`OneOrder` then makes the two sorted lists, of keys and of days, the same.

`SlicesAreToldApart` has the hypothesis that no city is called Unknown.  Without it
the api may return two entries of that name, of the city and of the rows that have
none (`GetTopCities` renames after it has grouped).  `SlicesTellApart` itself makes
an exception for colours: an answer that was made for a longer list than there are
colours gives the colour of the first slice to all beyond them.  `ShownTableIsRecent`
and `TheLastDayIsShown` speak of what had been stored: a row that is stored after
an answer may be dated before it and is missing from a picture however recent.

**Only model-checked.**  Liveness (`EveryBlockLifted`, `EveryRuleLifted`,
`EventsReachApi`, `ReportsEnd`, `Reconnects`), which the prover does not handle
under fairness.  Every invariant and every action property that a passing run
checks is the statement of a theorem, `SlicesTellApart` and those of
`ReliableServiceProofs` under the hypotheses given above.

## Not modelled

* Data of a block: IPData and its cache (one request, whose failure is caught),
  the contents of reports and cards, the texts of rules and descriptions, the
  column Source that the gRPC request leaves out and no query reads.
* `AbuseIP`: a request per block that nobody waits for.  `Load.Simulator`: raises
  attempts, as `RaiseAttempt` does.
* The plug-in loader: its result is `Order`.  Each project builds into a directory
  of its own, so that a plug-in is listed once.
* `service iptables save`, which writes a file that the service does not read.
* Filters and parsers of log lines, by which the detection plug-ins choose what is
  an event: the choice is `Events`.
* Authentication, hosting, contexts and migrations: wiring and generated code.
* The gap between the api handler being set inside the loop of `ExecuteAsync` and the
  timer after it: `StartTimer` of `CoreService` is both, as `Detection` models the
  loop plug-in by plug-in.
* Scripts: `jquery.validate.unobtrusive.js` and the other files under `lib` are
  third-party, and `site.js` holds a comment and no statement.  Titles, fonts and
  layout of charts and lists.
* A whitelisted address inside a range that the Windows rule blocks for a
  neighbour: the code does not look at the whitelist there, and no text of the
  repository says that it should.

## Plan

Done, in the order of what the system is for: `CoreService`, its policy and its
proofs with and without faults; `Detection` and `LiveReport` with their proofs;
`ApiStatistics`, `OverviewStatistics` and `StatisticsPage`; `BlockStatistics`.

What is left:

1. A composition of `Detection` with the pipeline: an attempt that `Deliver` hands
   over is one that `RaiseAttempt` raises, with one crash for both.
2. The firewall's own restart: rules of iptables that were not saved are lost when
   the host restarts, which no action does yet.

## How to run

    tlc -config core_faults.cfg MCCoreService
    tlapm CoreServiceProofs.tla
    tlapm ReliableServiceProofs.tla
    tlapm LiveReportProofs.tla
    tlapm DetectionProofs.tla
    tlapm FiniteLemmas.tla
    tlapm ApiStatisticsProofs.tla
    tlapm OverviewStatisticsProofs.tla
    tlapm StatisticsPageProofs.tla

`PROJECT.json` gives the module and configuration of each run.
