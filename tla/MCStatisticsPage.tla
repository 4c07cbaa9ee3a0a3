-------------------------- MODULE MCStatisticsPage --------------------------
(* Instances of StatisticsPage for TLC. *)
EXTENDS StatisticsPage

CONSTANTS b1, b2, b3

\* Two countries with a city of the same name, and a location that is unknown:
\* empty from ApiGRPC, null from ApiHttps.
MCPlaces ==
    {[country |-> "NL", city |-> "Paris"], [country |-> "US", city |-> "Paris"],
     [country |-> "", city |-> ""], [country |-> None, city |-> None]}

\* A brute-force attack, and an attempt that was given no type.
MCSources == {[ip |-> "10.0.0.1", type |-> 4], [ip |-> "10.0.0.2", type |-> 0]}

MCSymmetry == Permutations(Blocks)

\* The hours that a query is watched for: past the end of a year and a day more for
\* the attempts of a day, longer than a day for what else has a window or a calendar,
\* and otherwise as long as it takes an answer to expire, or to be older than it should.
MCHours(query) ==
    CASE query = "GetAttemptsPerDay" -> MaxTime - StartTime
      [] query \in {"GetTopAttacks", "GetAttackTypesAttemptsPerHour", "GetBlocksPerDay"} -> Day + 1
      [] TableOf(query) = "Statistics.Blocks" -> Day \div 2
      [] OTHER -> Day \div 2 + 1

MCFewHours == now <= StartTime + MCHours(view.query)

\* What another client asked for is of interest to a page that has been loaded.
MCOthersMatter == page.pc = "waiting" \/ cache' = cache \/ cache' = None

=============================================================================
