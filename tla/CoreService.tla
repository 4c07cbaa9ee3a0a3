---------------------------- MODULE CoreService ----------------------------
(***************************************************************************)
(* The SP.Core service: the pipeline that turns access attempts into       *)
(* firewall blocks, and the timer task that lifts them again.              *)
(*                                                                         *)
(* Every handler of CoreService.cs is an `async void` method, so the       *)
(* handlers of different attempts, and the unblock task, interleave at     *)
(* every await.  An action below is what runs between two awaits, except   *)
(* that the look-up in latestBlocks and the insertion into it, two calls   *)
(* on a thread-safe cache made without a lock, are two actions.            *)
(*                                                                         *)
(* The api is modelled by its effect on the database; ApiGRPC/ApiHttps by  *)
(* what each does when a call fails.  An event that happens N minutes      *)
(* later is an action of its own (AgeAttempt, ExpireLatest, BecomeDue).    *)
(***************************************************************************)
EXTENDS Integers, FiniteSets

CONSTANTS
    Attempts,    \* access attempts that the detection plug-ins raise, each once
    Ips,         \* IPv4 addresses
    RangeOf,     \* the n.n.n.0/24 range of an address
    Whitelist,   \* addresses that are never blocked
    Threshold,   \* Blocking:Attempts
    Configs,     \* the configurations a run considers
    Tasks,       \* activations of UnblockTask that may overlap
    Clocks,      \* which intervals may elapse: "window", "cache", "block"
    Faults,      \* which faults may strike
    MaxFaults,   \* bound on the number of faults in a behaviour
    None         \* no address, no block

\* The core reads blockIPRange from its own settings; the Windows plug-in reads
\* Blocking:BlockIPRange from a file of its own, which is ruleIPRange here, and
\* ignores the option that the core passes to it.
ConfigType ==
    [transport : {"grpc", "https"}, firewall : {"iptables", "windows"},
     detectIPRange : BOOLEAN, blockIPRange : BOOLEAN, ruleIPRange : BOOLEAN]

\* "throw": a call to the api raises; "refuse": it answers with an error status;
\* "firewall": a firewall change has no effect; "crash": the process dies;
\* "gc": the unreferenced unblock timer is collected.
FaultKinds == {"throw", "refuse", "firewall", "crash", "gc"}

ASSUME AttemptsAssumption == IsFiniteSet(Attempts)
ASSUME AddressAssumption ==
    /\ Whitelist \subseteq Ips
    /\ DOMAIN RangeOf = Ips
    /\ \A i \in Ips : RangeOf[i] \notin Ips
ASSUME ThresholdAssumption == Threshold \in Nat /\ MaxFaults \in Nat
ASSUME ConfigsAssumption == Configs \subseteq ConfigType /\ Faults \subseteq FaultKinds
ASSUME NoneAssumption == None \notin Ips \cup Attempts

VARIABLES
    config,       \* the configuration read at start-up
    core,         \* "down", "starting" (no api handler yet) or "running"
    timer,        \* the unblock timer exists
    phase,        \* how far the handlers of an attempt have come
    ip,           \* AccessAttempts.IpAddress
    override,     \* AccessAttempts.OverrideBlock
    recorded,     \* attempts with a row in table AccessAttempts
    recent,       \* those of them inside the analysis window
    latestBlocks, \* MemoryCache of recently blocked addresses or ranges
    row,          \* the row an attempt has in table Blocks
    due,          \* rows older than UnblockTimeSpanMinutes
    task,         \* the activations of UnblockTask
    unblocking,   \* per row, OnUnblockEvent calls that have not reached the firewall
    inserting,    \* attempts whose `iptables -I` process is still running
    deleting,     \* per row, `iptables -D` processes still running
    rules,        \* per address or range, firewall rules in force
    unnamed,      \* blocks whose FirewallRuleName is null
    faults        \* faults so far

attemptVars == <<phase, ip, override>>
databaseVars == <<recorded, recent, row, due>>
firewallVars == <<inserting, deleting, rules, unnamed>>
unblockVars == <<task, unblocking>>
processVars == <<config, core, timer>>
vars == <<processVars, attemptVars, databaseVars, latestBlocks, unblockVars,
          firewallVars, faults>>

----------------------------------------------------------------------------

\* Phases of an attempt inside OnLoginAttemptEvent and OnBlockEvent.
Undecided == {"recording", "analyzing"}
Convicted == {"blocking", "caching", "notifying", "reporting", "counting"}
InFlight == Undecided \cup Convicted

\* How an attempt can end: not blocked, an exception in the try block, a
\* whitelisted address, a recently blocked one, reported, or cut off by a crash.
Finished == {"allowed", "failed", "ignored", "suppressed", "reported", "lost"}

Phases == {"idle"} \cup InFlight \cup Finished

IdleTask == [pc |-> "idle", todo |-> {}, block |-> None]

Keys == Ips \cup {RangeOf[i] : i \in Ips}

\* Mutant of Key: the range is the key whatever BlockIPRange says.
RangeKey(i) == RangeOf[i]

\* The cache key of a block: its range or its address.
Key(i) == IF config.blockIPRange THEN RangeOf[i] ELSE i

\* What the rule of a block names: the Windows plug-in blocks the range if its
\* own file says so, the iptables plug-in the address in any case.
Subject(i) ==
    IF config.firewall = "windows" /\ config.ruleIPRange THEN RangeOf[i] ELSE i

\* GetLoginAttempts counts the attempts of the range or of the address.
SameSource(i, j) == IF config.detectIPRange THEN RangeOf[i] = RangeOf[j] ELSE i = j

\* Attempts of a set that the api counts for attempt a.
Matching(a, among) == {b \in among : SameSource(ip[b], ip[a])}

Strike(kind) ==
    /\ kind \in Faults
    /\ faults < MaxFaults
    /\ faults' = faults + 1

\* ApiHttps turns an error status into a result; ApiGRPC has no such answer.
Refused == config.transport = "https" /\ Strike("refuse")

Proceed(a, from, to) == phase[a] = from /\ phase' = [phase EXCEPT ![a] = to]

----------------------------------------------------------------------------
\* OnLoginAttemptEvent

\* A detection plug-in raises an attempt: possible as soon as its handler is
\* registered, which may be before the api plug-in is loaded.
RaiseAttempt(a, i, o) ==
    /\ core # "down"
    /\ Proceed(a, "idle", "recording")
    /\ ip' = [ip EXCEPT ![a] = i]
    /\ override' = [override EXCEPT ![a] = o]
    /\ UNCHANGED <<processVars, databaseVars, latestBlocks, unblockVars, firewallVars, faults>>

\* An override goes straight to the block event, whatever AddLoginAttempt returned.
AfterRecording(a) == IF override[a] THEN "blocking" ELSE "analyzing"

Record(a) ==
    /\ recorded' = recorded \cup {a}
    /\ recent' = recent \cup {a}

AddLoginAttempt(a) ==
    /\ core = "running"
    /\ Proceed(a, "recording", AfterRecording(a))
    /\ Record(a)
    /\ UNCHANGED <<processVars, ip, override, row, due, latestBlocks,
                   unblockVars, firewallVars, faults>>

\* The result false is ignored.
AddLoginAttemptRefused(a) ==
    /\ core = "running"
    /\ Refused
    /\ Proceed(a, "recording", AfterRecording(a))
    /\ UNCHANGED <<processVars, ip, override, databaseVars, latestBlocks,
                   unblockVars, firewallVars>>

\* The exception is caught and the attempt is not blocked; the api may or may
\* not have stored it before the call failed.
AddLoginAttemptThrows(a) ==
    /\ core = "running"
    /\ Strike("throw")
    /\ Proceed(a, "recording", "failed")
    /\ Record(a) \/ UNCHANGED <<recorded, recent>>
    /\ UNCHANGED <<processVars, ip, override, row, due, latestBlocks,
                   unblockVars, firewallVars>>

\* Before ExecuteAsync has set the api handler the call is on a null reference.
NoApiHandler(a) ==
    /\ core = "starting"
    /\ Proceed(a, "recording", "failed")
    /\ UNCHANGED <<processVars, ip, override, databaseVars, latestBlocks,
                   unblockVars, firewallVars, faults>>

\* ApiHttps posts to a route the AccessAttempts controller lacks, and returns -1.
PreviousAttempts(a) ==
    IF config.transport = "https" THEN -1 ELSE Cardinality(Matching(a, recent))

AnalyzeWith(a, exceeds) ==
    /\ Proceed(a, "analyzing", IF exceeds THEN "blocking" ELSE "allowed")
    /\ UNCHANGED <<processVars, ip, override, databaseVars, latestBlocks,
                   unblockVars, firewallVars, faults>>

\* Mutants of AnalyzeAttempt: the attempt at hand is counted twice; the
\* threshold must be exceeded.
AnalyzeAttemptTwice(a) == AnalyzeWith(a, PreviousAttempts(a) + 1 >= Threshold)
AnalyzeAttemptStrict(a) == AnalyzeWith(a, PreviousAttempts(a) > Threshold)

AnalyzeAttempt(a) == AnalyzeWith(a, PreviousAttempts(a) >= Threshold)

AnalyzeAttemptThrows(a) ==
    /\ Strike("throw")
    /\ Proceed(a, "analyzing", "failed")
    /\ UNCHANGED <<processVars, ip, override, databaseVars, latestBlocks,
                   unblockVars, firewallVars>>

----------------------------------------------------------------------------
\* OnBlockEvent

\* Mutants of CheckLatestBlocks: an override bypasses the whitelist; the entry
\* is made before the whitelist is consulted.
CheckLatestBlocksOverride(a) ==
    /\ Proceed(a, "blocking",
               CASE ip[a] \in Whitelist /\ ~override[a] -> "ignored"
                 [] Key(ip[a]) \in latestBlocks -> "suppressed"
                 [] OTHER -> "caching")
    /\ UNCHANGED <<processVars, ip, override, databaseVars, latestBlocks,
                   unblockVars, firewallVars, faults>>

CheckLatestBlocksEager(a) ==
    /\ Proceed(a, "blocking",
               CASE Key(ip[a]) \in latestBlocks -> "suppressed"
                 [] Key(ip[a]) \notin latestBlocks /\ ip[a] \in Whitelist -> "ignored"
                 [] OTHER -> "caching")
    /\ latestBlocks' = latestBlocks \cup {Key(ip[a])}
    /\ UNCHANGED <<processVars, ip, override, databaseVars, unblockVars,
                   firewallVars, faults>>

CheckLatestBlocks(a) ==
    /\ Proceed(a, "blocking",
               CASE ip[a] \in Whitelist -> "ignored"
                 [] ip[a] \notin Whitelist /\ Key(ip[a]) \in latestBlocks -> "suppressed"
                 [] OTHER -> "caching")
    /\ UNCHANGED <<processVars, ip, override, databaseVars, latestBlocks,
                   unblockVars, firewallVars, faults>>

AddLatestBlock(a) ==
    /\ Proceed(a, "caching", "notifying")
    /\ latestBlocks' = latestBlocks \cup {Key(ip[a])}
    /\ UNCHANGED <<processVars, ip, override, databaseVars, unblockVars, firewallVars, faults>>

\* The look-ups of IPData and DNS only delay the notification.  Task.Run awaits
\* the synchronous part of a plug-in's BlockEvent: the Windows rule is in force
\* afterwards, the iptables process has merely been started.
NotifyBlock(a) ==
    /\ Proceed(a, "notifying", "reporting")
    /\ IF config.firewall = "iptables"
       THEN inserting' = inserting \cup {a} /\ UNCHANGED rules
       ELSE rules' = [rules EXCEPT ![Subject(ip[a])] = @ + 1] /\ UNCHANGED inserting
    /\ UNCHANGED <<processVars, ip, override, databaseVars, latestBlocks,
                   unblockVars, deleting, unnamed, faults>>

\* The Windows plug-in logs the COM exception and returns.
NotifyBlockFails(a) ==
    /\ config.firewall = "windows"
    /\ Strike("firewall")
    /\ Proceed(a, "notifying", "reporting")
    /\ UNCHANGED <<processVars, ip, override, databaseVars, latestBlocks,
                   unblockVars, firewallVars>>

\* The firewall object cannot be made: BlockEvent ends before it has set the
\* name of the rule, and nobody looks at its Task.
NotifyBlockUnnamed(a) ==
    /\ config.firewall = "windows"
    /\ Strike("firewall")
    /\ Proceed(a, "notifying", "reporting")
    /\ unnamed' = unnamed \cup {a}
    /\ UNCHANGED <<processVars, ip, override, databaseVars, latestBlocks,
                   unblockVars, inserting, deleting, rules>>

\* A message of gRPC cannot hold null.
Sendable(a) == config.transport = "grpc" => a \notin unnamed

AddBlock(a) ==
    /\ Sendable(a)
    /\ Proceed(a, "reporting", "counting")
    /\ row' = [row EXCEPT ![a] = "blocked"]
    /\ UNCHANGED <<processVars, ip, override, recorded, recent, due,
                   latestBlocks, unblockVars, firewallVars, faults>>

\* The failure is logged and the statistics are updated all the same.
AddBlockRefused(a) ==
    /\ Refused
    /\ Proceed(a, "reporting", "counting")
    /\ UNCHANGED <<processVars, ip, override, databaseVars, latestBlocks,
                   unblockVars, firewallVars>>

\* What this call changes in table StatisticsBlocks is in ApiStatistics.
StatisticsUpdateBlocks(a) ==
    /\ Proceed(a, "counting", "reported")
    /\ UNCHANGED <<processVars, ip, override, databaseVars, latestBlocks, unblockVars,
                   firewallVars, faults>>

StatisticsUpdateRefused(a) ==
    /\ Refused
    /\ Proceed(a, "counting", "reported")
    /\ UNCHANGED <<processVars, ip, override, databaseVars, latestBlocks,
                   unblockVars, firewallVars>>

----------------------------------------------------------------------------
\* The end of the process: an exception that leaves an `async void` handler or
\* the timer's callback ends it, and with it everything held in memory.  The
\* database, the firewall and the iptables processes outlive it.

CoreStops ==
    /\ core' = "down"
    /\ timer' = FALSE
    /\ phase' = [a \in Attempts |-> IF phase[a] \in InFlight THEN "lost" ELSE phase[a]]
    /\ latestBlocks' = {}
    /\ task' = [t \in Tasks |-> IdleTask]
    /\ unblocking' = [a \in Attempts |-> 0]
    /\ UNCHANGED <<config, ip, override, recorded, recent, due, firewallVars>>

Crash ==
    /\ core # "down"
    /\ Strike("crash")
    /\ CoreStops
    /\ UNCHANGED row

\* Making the request raises an exception.
AddBlockUnnamed(a) ==
    /\ phase[a] = "reporting"
    /\ ~Sendable(a)
    /\ CoreStops
    /\ UNCHANGED <<row, faults>>

AddBlockThrows(a) ==
    /\ phase[a] = "reporting"
    /\ Sendable(a)
    /\ Strike("throw")
    /\ CoreStops
    /\ row' = [row EXCEPT ![a] = "blocked"] \/ UNCHANGED row

StatisticsUpdateThrows(a) ==
    /\ phase[a] = "counting"
    /\ Strike("throw")
    /\ CoreStops
    /\ UNCHANGED row

\* The host starts the service again.
Restart ==
    /\ core = "down"
    /\ core' = "starting"
    /\ UNCHANGED <<config, timer, attemptVars, databaseVars, latestBlocks,
                   unblockVars, firewallVars, faults>>

\* ExecuteAsync has set the api handler and creates the timer.
StartTimer ==
    /\ core = "starting"
    /\ core' = "running"
    /\ timer' = TRUE
    /\ UNCHANGED <<config, attemptVars, databaseVars, latestBlocks, unblockVars,
                   firewallVars, faults>>

\* `_ = new Timer(...)` keeps no reference to the timer.
CollectTimer ==
    /\ timer
    /\ Strike("gc")
    /\ timer' = FALSE
    /\ UNCHANGED <<config, core, attemptVars, databaseVars, latestBlocks, unblockVars,
                   firewallVars>>

----------------------------------------------------------------------------
\* UnblockTask and OnUnblockEvent

SetTask(t, pc, todo, block) ==
    task' = [task EXCEPT ![t] = [pc |-> pc, todo |-> todo, block |-> block]]

\* The foreach goes on to the next block, or the task ends.
NextBlock(t, todo) ==
    SetTask(t, IF todo = {} THEN "idle" ELSE "signalling", todo, None)

\* The timer fires every 15 minutes, whether or not the last activation ended.
Tick(t) ==
    /\ core = "running" /\ timer
    /\ task[t].pc = "idle"
    /\ SetTask(t, "fetching", {}, None)
    /\ UNCHANGED <<processVars, attemptVars, databaseVars, latestBlocks, unblocking,
                   firewallVars, faults>>

\* Mutant of GetUnblock: the age of the row is not looked at.
GetUnblockAny(t) ==
    /\ task[t].pc = "fetching"
    /\ NextBlock(t, {a \in Attempts : row[a] = "blocked"})
    /\ UNCHANGED <<processVars, attemptVars, databaseVars, latestBlocks, unblocking,
                   firewallVars, faults>>

\* GetUnblocks: rows with IsBlocked = 1 that are old enough.
GetUnblock(t) ==
    /\ task[t].pc = "fetching"
    /\ NextBlock(t, {a \in due : row[a] = "blocked"})
    /\ UNCHANGED <<processVars, attemptVars, databaseVars, latestBlocks, unblocking,
                   firewallVars, faults>>

\* A null list.
GetUnblockRefused(t) ==
    /\ task[t].pc = "fetching"
    /\ Refused
    /\ NextBlock(t, {})
    /\ UNCHANGED <<processVars, attemptVars, databaseVars, latestBlocks, unblocking,
                   firewallVars>>

GetUnblockThrows(t) ==
    /\ task[t].pc = "fetching"
    /\ Strike("throw")
    /\ CoreStops
    /\ UNCHANGED row

\* Mutant of SignalUnblock: the listeners are not told.
SignalUnblockSilent(t, a) ==
    /\ task[t].pc = "signalling" /\ a \in task[t].todo
    /\ SetTask(t, "updating", task[t].todo \ {a}, a)
    /\ UNCHANGED <<processVars, attemptVars, databaseVars, latestBlocks, unblocking,
                   firewallVars, faults>>

\* UnblockEvent.Invoke returns at the first await of OnUnblockEvent: the task
\* goes on to UpdateBlock while the plug-ins are still being notified.
SignalUnblock(t, a) ==
    /\ task[t].pc = "signalling" /\ a \in task[t].todo
    /\ SetTask(t, "updating", task[t].todo \ {a}, a)
    /\ unblocking' = [unblocking EXCEPT ![a] = @ + 1]
    /\ UNCHANGED <<processVars, attemptVars, databaseVars, latestBlocks, firewallVars, faults>>

UpdateWith(t, status) ==
    /\ task[t].pc = "updating"
    /\ row' = [row EXCEPT ![task[t].block] = status]
    /\ NextBlock(t, task[t].todo)
    /\ UNCHANGED <<processVars, attemptVars, recorded, recent, due,
                   latestBlocks, unblocking, firewallVars, faults>>

\* Mutants of UpdateBlock: the status is toggled; it is written back as read.
UpdateBlockToggle(t) ==
    UpdateWith(t, IF row[task[t].block] = "blocked" THEN "unblocked" ELSE "blocked")
UpdateBlockAsRead(t) == UpdateWith(t, "blocked")

\* The block was fetched earlier and is written whole, with IsBlocked = 0.
UpdateBlock(t) == UpdateWith(t, "unblocked")

\* The result false is ignored; the row is fetched again by a later activation.
UpdateBlockRefused(t) ==
    /\ task[t].pc = "updating"
    /\ Refused
    /\ NextBlock(t, task[t].todo)
    /\ UNCHANGED <<processVars, attemptVars, databaseVars, latestBlocks, unblocking,
                   firewallVars>>

UpdateBlockThrows(t) ==
    /\ task[t].pc = "updating"
    /\ Strike("throw")
    /\ CoreStops
    /\ row' = [row EXCEPT ![task[t].block] = "unblocked"] \/ UNCHANGED row

\* Mutants of RemoveRule: the absence of a rule is not noticed; every rule of
\* the address goes.
RemoveRuleUnchecked(a) == rules' = [rules EXCEPT ![Subject(ip[a])] = @ - 1]
RemoveAllRules(a) == rules' = [rules EXCEPT ![Subject(ip[a])] = 0]

\* A rule is removed by the name that the block carries, if there is one.
RemoveRule(a) ==
    rules' = [rules EXCEPT ![Subject(ip[a])] = IF a \notin unnamed /\ @ > 0 THEN @ - 1 ELSE @]

NotifyUnblock(a) ==
    /\ unblocking[a] > 0
    /\ unblocking' = [unblocking EXCEPT ![a] = @ - 1]
    /\ IF config.firewall = "iptables"
       THEN deleting' = [deleting EXCEPT ![a] = @ + 1] /\ UNCHANGED rules
       ELSE RemoveRule(a) /\ UNCHANGED deleting
    /\ UNCHANGED <<processVars, attemptVars, databaseVars, latestBlocks, task,
                   inserting, unnamed, faults>>

NotifyUnblockFails(a) ==
    /\ config.firewall = "windows"
    /\ unblocking[a] > 0
    /\ Strike("firewall")
    /\ unblocking' = [unblocking EXCEPT ![a] = @ - 1]
    /\ UNCHANGED <<processVars, attemptVars, databaseVars, latestBlocks, task, firewallVars>>

----------------------------------------------------------------------------
\* The iptables processes that ExecuteEvent starts.  Nobody awaits them on
\* behalf of the core, and their exit code is ignored.

InsertRule(a) ==
    /\ a \in inserting
    /\ inserting' = inserting \ {a}
    /\ rules' = [rules EXCEPT ![Subject(ip[a])] = @ + 1]
    /\ UNCHANGED <<processVars, attemptVars, databaseVars, latestBlocks, unblockVars,
                   deleting, unnamed, faults>>

InsertRuleFails(a) ==
    /\ a \in inserting
    /\ Strike("firewall")
    /\ inserting' = inserting \ {a}
    /\ UNCHANGED <<processVars, attemptVars, databaseVars, latestBlocks, unblockVars,
                   deleting, rules, unnamed>>

\* `iptables -D` deletes one matching rule, and fails if there is none.
DeleteRule(a) ==
    /\ deleting[a] > 0
    /\ deleting' = [deleting EXCEPT ![a] = @ - 1]
    /\ RemoveRule(a)
    /\ UNCHANGED <<processVars, attemptVars, databaseVars, latestBlocks, unblockVars,
                   inserting, unnamed, faults>>

DeleteRuleFails(a) ==
    /\ deleting[a] > 0
    /\ Strike("firewall")
    /\ deleting' = [deleting EXCEPT ![a] = @ - 1]
    /\ UNCHANGED <<processVars, attemptVars, databaseVars, latestBlocks, unblockVars,
                   inserting, rules, unnamed>>

----------------------------------------------------------------------------
\* The passing of time

\* An attempt leaves the window of Blocking:TimeSpanMinutes.
AgeAttempt(a) ==
    /\ "window" \in Clocks
    /\ a \in recent
    /\ recent' = recent \ {a}
    /\ UNCHANGED <<processVars, attemptVars, recorded, row, due, latestBlocks,
                   unblockVars, firewallVars, faults>>

\* The absolute expiration of a cache entry.
ExpireLatest(k) ==
    /\ "cache" \in Clocks
    /\ k \in latestBlocks
    /\ latestBlocks' = latestBlocks \ {k}
    /\ UNCHANGED <<processVars, attemptVars, databaseVars, unblockVars, firewallVars, faults>>

\* A block outlives UnblockTimeSpanMinutes.  An iptables process takes far
\* less than that, so the insertion of the rule has ended by then.
BecomeDue(a) ==
    /\ "block" \in Clocks
    /\ row[a] = "blocked" /\ a \notin due /\ a \notin inserting
    /\ due' = due \cup {a}
    /\ UNCHANGED <<processVars, attemptVars, recorded, recent, row,
                   latestBlocks, unblockVars, firewallVars, faults>>

----------------------------------------------------------------------------

Init ==
    /\ config \in Configs
    /\ core = "starting"
    /\ timer = FALSE
    /\ phase = [a \in Attempts |-> "idle"]
    /\ ip = [a \in Attempts |-> None]
    /\ override = [a \in Attempts |-> FALSE]
    /\ recorded = {}
    /\ recent = {}
    /\ latestBlocks = {}
    /\ row = [a \in Attempts |-> "none"]
    /\ due = {}
    /\ task = [t \in Tasks |-> IdleTask]
    /\ unblocking = [a \in Attempts |-> 0]
    /\ inserting = {}
    /\ deleting = [a \in Attempts |-> 0]
    /\ rules = [k \in Keys |-> 0]
    /\ unnamed = {}
    /\ faults = 0

\* The steps of the handlers of one attempt that succeed.
Handle(a) ==
    \/ AddLoginAttempt(a) \/ NoApiHandler(a) \/ AnalyzeAttempt(a)
    \/ CheckLatestBlocks(a) \/ AddLatestBlock(a) \/ NotifyBlock(a)
    \/ AddBlock(a) \/ StatisticsUpdateBlocks(a)

HandleFails(a) ==
    \/ AddLoginAttemptRefused(a) \/ AddLoginAttemptThrows(a)
    \/ AnalyzeAttemptThrows(a) \/ NotifyBlockFails(a)
    \/ NotifyBlockUnnamed(a) \/ AddBlockUnnamed(a)
    \/ AddBlockRefused(a) \/ AddBlockThrows(a)
    \/ StatisticsUpdateRefused(a) \/ StatisticsUpdateThrows(a)

\* The steps of one activation of the unblock task that succeed.
Unblock(t) ==
    \/ Tick(t) \/ GetUnblock(t) \/ UpdateBlock(t)
    \/ \E a \in Attempts : SignalUnblock(t, a)

UnblockFails(t) ==
    \/ GetUnblockRefused(t) \/ GetUnblockThrows(t)
    \/ UpdateBlockRefused(t) \/ UpdateBlockThrows(t)

Enforce(a) == NotifyUnblock(a) \/ InsertRule(a) \/ DeleteRule(a)

EnforceFails(a) == NotifyUnblockFails(a) \/ InsertRuleFails(a) \/ DeleteRuleFails(a)

Process == Crash \/ Restart \/ StartTimer \/ CollectTimer

Elapse ==
    \/ \E a \in Attempts : AgeAttempt(a) \/ BecomeDue(a)
    \/ \E k \in Keys : ExpireLatest(k)

Next ==
    \/ \E a \in Attempts, i \in Ips, o \in BOOLEAN : RaiseAttempt(a, i, o)
    \/ \E a \in Attempts : Handle(a) \/ HandleFails(a) \/ Enforce(a) \/ EnforceFails(a)
    \/ \E t \in Tasks : Unblock(t) \/ UnblockFails(t)
    \/ Process
    \/ Elapse

Spec == Init /\ [][Next]_vars

\* A started handler, task or process goes on, the timer keeps firing, the
\* host restarts the service, and a block grows old.  Nothing obliges an
\* attempt to be raised, an entry to expire or a fault to strike.
FairSpec ==
    /\ Spec
    /\ \A a \in Attempts : WF_vars(Handle(a)) /\ WF_vars(Enforce(a)) /\ WF_vars(BecomeDue(a))
    /\ \A t \in Tasks : WF_vars(Unblock(t))
    /\ WF_vars(Restart) /\ WF_vars(StartTimer)

----------------------------------------------------------------------------
\* Type invariant

TaskType ==
    [pc : {"idle", "fetching", "signalling", "updating"},
     todo : SUBSET Attempts, block : Attempts \cup {None}]

TypeOK ==
    /\ config \in ConfigType
    /\ core \in {"down", "starting", "running"}
    /\ timer \in BOOLEAN
    /\ phase \in [Attempts -> Phases]
    /\ ip \in [Attempts -> Ips \cup {None}]
    /\ override \in [Attempts -> BOOLEAN]
    /\ recorded \subseteq Attempts
    /\ recent \subseteq recorded
    /\ latestBlocks \subseteq Keys
    /\ row \in [Attempts -> {"none", "blocked", "unblocked"}]
    /\ due \subseteq Attempts
    /\ task \in [Tasks -> TaskType]
    /\ unblocking \in [Attempts -> Nat]
    /\ inserting \subseteq Attempts
    /\ deleting \in [Attempts -> Nat]
    /\ rules \in [Keys -> Nat]
    /\ unnamed \subseteq Attempts
    /\ faults \in 0..MaxFaults

----------------------------------------------------------------------------
\* Properties that survive every fault

\* What convicts an attempt: its plug-in's override, or enough attempts of the
\* same source in the database.
Evidence(a) == override[a] \/ Cardinality(Matching(a, recorded)) >= Threshold

\* Every block row, firewall process and firewall rule goes back to an attempt
\* with evidence against it, whatever failed and however the handlers of other
\* attempts interleave (OnLoginAttemptEvent decides, OnBlockEvent acts later).
BlockHasEvidence ==
    /\ \A a \in Attempts : row[a] # "none" \/ a \in inserting => Evidence(a)
    /\ \A k \in Keys : rules[k] > 0 =>
        \E a \in Attempts : phase[a] # "idle" /\ Subject(ip[a]) = k /\ Evidence(a)

\* A whitelisted address never gets a row, a firewall process or a rule of its
\* own, not even when it overrides or shares a range with an attacker.  (The
\* rule of a range may still cover it.)
WhitelistRespected ==
    /\ \A a \in Attempts : ip[a] \in Whitelist => row[a] = "none" /\ a \notin inserting
    /\ \A i \in Whitelist : rules[i] = 0

\* OnBlockEvent ignores an attempt as recently blocked only if another attempt
\* with the same cache key went on to the firewall, or was cut off by a crash.
SuppressionHasCause ==
    \A a \in Attempts : phase[a] = "suppressed" =>
        \E b \in Attempts \ {a} :
            /\ Key(ip[b]) = Key(ip[a])
            /\ phase[b] \in {"notifying", "reporting", "counting", "reported", "lost"}

\* The unblock task asks the firewall to remove a rule only on behalf of a row
\* that is older than UnblockTimeSpanMinutes, even across crashes, stale lists
\* and overlapping activations.
RemovalOnlyWhenDue ==
    \A a \in Attempts : unblocking[a] + deleting[a] > 0 => a \in due

\* A row never disappears, is lifted only when due and after it was blocked,
\* and once lifted stays lifted: no late AddBlock or UpdateBlock revives it.
RowLifecycle ==
    [][\A a \in Attempts :
        /\ row[a] # "none" => row'[a] # "none"
        /\ row[a] = "unblocked" => row'[a] = "unblocked"
        /\ row'[a] = "unblocked" /\ row[a] # "unblocked" => row[a] = "blocked" /\ a \in due]_vars

\* The whole service keeps to the policy: every step is one that BlockPolicy
\* allows, or changes nothing of what it speaks about.  The evidence against an
\* attempt is found by one handler, used by another step of it after the cache,
\* the look-ups and the firewall, and its block is lifted from a list that was
\* read before; exceptions and the end of the process fall in between.
Policy == INSTANCE BlockPolicy WITH
    source <- ip,
    target <- [a \in Attempts |-> IF ip[a] = None THEN None ELSE Subject(ip[a])],
    accused <- {a \in Attempts : ip[a] # None /\ Evidence(a)},
    ledger <- row,
    overdue <- due,
    guarded <- {k \in Keys : rules[k] > 0}

KeepsPolicy == Policy!PolicySpec

----------------------------------------------------------------------------
\* Properties of a service whose calls succeed

\* No handler of any attempt is under way.
Settled == \A a \in Attempts : phase[a] \in {"idle"} \cup Finished

\* The attempt asked the firewall for a rule whose removal is not complete.
Signalled(a) ==
    row[a] = "unblocked" \/ \E t \in Tasks : task[t].pc = "updating" /\ task[t].block = a

Held(a) ==
    /\ phase[a] \in {"reporting", "counting", "reported"}
    /\ Signalled(a) => unblocking[a] + deleting[a] > 0

\* The firewall and the core's books agree in every state: an address or
\* range has one rule per block that was carried out and not yet lifted, so no
\* rule is lost to, or left behind by, another block of the same address.
RuleLedger ==
    \A k \in Keys :
        rules[k] = Cardinality({a \in Attempts :
                                    Held(a) /\ a \notin inserting /\ Subject(ip[a]) = k})

\* Blocking:Attempts attempts inside the window end in a block: whichever of
\* the concurrent handlers records last counts all of them.
ThresholdEnforced ==
    \A a \in Attempts :
        LET source == {b \in Attempts : phase[b] # "idle" /\ SameSource(ip[b], ip[a])} IN
        /\ phase[a] # "idle"
        /\ Settled
        /\ \A b \in source : b \in recent /\ ip[b] \notin Whitelist
        /\ Cardinality(source) >= Threshold
        => \E b \in source, c \in Attempts : row[c] # "none" /\ Key(ip[c]) = Key(ip[b])

\* An attempt judged to be blocked and ignored as recently blocked is one whose
\* own address, alone or as part of a range, the firewall was told to block: what
\* the cache is asked about is what the plug-in's rule names.
SuppressedAreBlocked ==
    Settled => \A a \in Attempts : phase[a] = "suppressed" =>
        \E b \in Attempts : row[b] # "none" /\ Subject(ip[b]) = Subject(ip[a])

\* The block of an address that is not yet due is in force.
FreshBlockEnforced ==
    \A a \in Attempts :
        row[a] = "blocked" /\ a \notin due /\ a \notin inserting => rules[Subject(ip[a])] > 0

\* As long as no cache entry expires, an address or range is blocked once.
BlockedOnce ==
    \A a, b \in Attempts :
        a # b /\ row[a] # "none" /\ row[b] # "none" => Key(ip[a]) # Key(ip[b])

\* Every block is lifted in the database some time after it was made.
EveryBlockLifted == \A a \in Attempts : row[a] = "blocked" ~> row[a] = "unblocked"

\* Every address becomes free again in the firewall.
EveryRuleLifted == \A k \in Keys : rules[k] > 0 ~> rules[k] = 0

=============================================================================
