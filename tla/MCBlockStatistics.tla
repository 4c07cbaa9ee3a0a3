-------------------------- MODULE MCBlockStatistics -------------------------
(* An instance of BlockStatistics for TLC: every address is of one place. *)
EXTENDS BlockStatistics, MCCoreService

CONSTANTS country, city

MCPlace == [country |-> country, city |-> city]
MCPlaces == {MCPlace, [country |-> None, city |-> None]}
MCPlaceOf == [i \in MCIps |-> MCPlace]

\* Attempts are told apart by their address.
AddressConfigs == Setting({"grpc"}, {"iptables"}, {FALSE}, {FALSE}, {FALSE})

=============================================================================
