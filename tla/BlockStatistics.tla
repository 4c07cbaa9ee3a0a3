-------------------------- MODULE BlockStatistics --------------------------
(***************************************************************************)
(* CoreService together with the api call that ends OnBlockEvent: the      *)
(* attempts of an address, the block they lead to, and what the call adds  *)
(* to table Statistics.Blocks for it.                                      *)
(*                                                                         *)
(* The call is under way while the attempt is "counting".  It is a process *)
(* of the api of its own: it ends even if the core does not live to see    *)
(* the answer.                                                             *)
(***************************************************************************)
EXTENDS CoreService

CONSTANTS
    Places,      \* as in ApiStatistics
    PlaceOf      \* the location that IPData tells for an address

VARIABLES table, call, place, found, overlapped

Stats == INSTANCE ApiStatistics WITH Blocks <- Attempts

statisticsVars == <<table, call, place, found, overlapped>>

----------------------------------------------------------------------------

\* The request carries the location of the block, and no number of attempts.
ReportBlock(a) ==
    /\ phase[a] = "counting"
    /\ Stats!LookUp(a, PlaceOf[ip[a]])
    /\ UNCHANGED vars

\* The core hears of the outcome: ApiGRPC of a failure by an exception, ApiHttps
\* by an error status.
CountBlock(a) ==
    \/ Stats!SaveChanges(a) /\ StatisticsUpdateBlocks(a)
    \/ Stats!SaveChangesFails(a) /\ (StatisticsUpdateThrows(a) \/ StatisticsUpdateRefused(a))

\* The core has ended meanwhile.
CountLostBlock(a) ==
    /\ phase[a] = "lost"
    /\ Stats!SaveChanges(a) \/ Stats!SaveChangesFails(a)
    /\ UNCHANGED vars

\* Every other step of the core, in which no call succeeds.
ServiceStep ==
    /\ Next
    /\ \A a \in Attempts : ~StatisticsUpdateBlocks(a)
    /\ UNCHANGED statisticsVars

CountedInit == Init /\ Stats!StatisticsInit

CountedNext ==
    \/ \E a \in Attempts : ReportBlock(a) \/ CountBlock(a) \/ CountLostBlock(a)
    \/ ServiceStep

CountedSpec == CountedInit /\ [][CountedNext]_<<vars, statisticsVars>>

----------------------------------------------------------------------------

\* StatisticsBlocks.cs documents the column Attempts as the "Amount of login
\* attempts made by the IP that is being blocked": for an address that was blocked
\* because of its attempts these are Blocking:Attempts at least.  The api adds one
\* for every block instead.
ColumnCountsAttempts ==
    \A a \in Attempts :
        call[a] = "saved" /\ ~override[a] => Stats!Total(place[a]) >= Threshold

=============================================================================
