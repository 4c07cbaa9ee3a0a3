--------------------------- MODULE MCCoreService ---------------------------
(***************************************************************************)
(* Instances of CoreService for TLC: two or three attempts, and three      *)
(* addresses of one range, of which one is whitelisted.                    *)
(***************************************************************************)
EXTENDS CoreService, TLC

CONSTANTS a1, a2, a3, attacker, neighbour, trusted, range, t1, t2

MCAttempts2 == {a1, a2}
MCAttempts == {a1, a2, a3}
MCIps == {attacker, neighbour, trusted}
MCWhitelist == {trusted}
MCTask == {t1}
MCTasks == {t1, t2}
MCRangeOf == [i \in MCIps |-> range]

\* The configurations by what they differ in.
Setting(transports, firewalls, detects, blocks, rulesOf) ==
    [transport : transports, firewall : firewalls,
     detectIPRange : detects, blockIPRange : blocks, ruleIPRange : rulesOf]

GrpcWindows == Setting({"grpc"}, {"windows"}, {TRUE}, {TRUE}, {TRUE})

\* The shipped settings: SP.Core/config asks for ranges on both systems, and the
\* file of the Windows plug-in has no section Blocking.
RangeConfigs ==
    Setting({"grpc"}, {"iptables", "windows"}, {TRUE}, {TRUE}, {FALSE})

HttpsConfigs == Setting({"https"}, {"iptables"}, {FALSE}, {FALSE}, {FALSE})

\* Both transports and both firewalls.
FaultyConfigs == GrpcWindows \cup HttpsConfigs

\* The cache and the firewall agree on what is blocked, an address or a range:
\* on Windows both files ask for ranges, or neither.
CoherentConfigs ==
    Setting({"grpc"}, {"iptables"}, BOOLEAN, {FALSE}, {FALSE}) \cup GrpcWindows

Symmetry2 ==
    Permutations(MCAttempts2) \cup Permutations({attacker, neighbour}) \cup Permutations(MCTasks)

=============================================================================
