------------------------- MODULE CoreServiceProofs -------------------------
(***************************************************************************)
(* Theorems about CoreService, for any number of attempts, addresses,      *)
(* overlapping unblock tasks and faults, and for every configuration.      *)
(***************************************************************************)
EXTENDS CoreService, FiniteSetTheorems, TLAPS

LEMMA IdleTaskType == IdleTask \in TaskType
BY DEF IdleTask, TaskType

\* The type invariant and what ties an attempt's data to its phase: an attempt
\* that was not raised has left no trace, one that was has an address, and its
\* row is made by the one step that leaves phase "reporting".
AttemptInv ==
    /\ TypeOK
    /\ \A a \in Attempts :
        /\ phase[a] = "idle" => ip[a] = None /\ a \notin recorded
        /\ phase[a] # "idle" => ip[a] \in Ips
        /\ a \in inserting \/ row[a] # "none" => phase[a] \in
               {"reporting", "counting", "reported", "lost"}
        /\ phase[a] = "reporting" => row[a] = "none"
        /\ a \in due => row[a] # "none"

\* Rows that an activation of the unblock task works on are due.
TaskInv ==
    /\ \A t \in Tasks :
        /\ task[t].todo \subseteq due
        /\ task[t].pc = "updating" => task[t].block \in due
    /\ RemovalOnlyWhenDue

\* Whoever is beyond the decision has evidence against it.
EvidenceInv ==
    /\ BlockHasEvidence
    /\ \A a \in Attempts : phase[a] \in Convicted => Evidence(a)

\* Whoever is beyond the whitelist check is not on the whitelist.
WhitelistInv ==
    /\ WhitelistRespected
    /\ \A a \in Attempts : phase[a] \in {"caching", "notifying", "reporting"} =>
        ip[a] \notin Whitelist

\* Whatever put the entry into the cache has gone on to the firewall.
CauseOf(k) ==
    \E b \in Attempts :
        /\ Key(ip[b]) = k
        /\ phase[b] \in {"notifying", "reporting", "counting", "reported", "lost"}

CacheInv ==
    /\ \A k \in latestBlocks : CauseOf(k)
    /\ \A a \in Attempts : phase[a] = "suppressed" => CauseOf(Key(ip[a]))

----------------------------------------------------------------------------
\* Type correctness

\* Changing one entry of a counter, wherever it is, leaves a counter.
LEMMA CounterExcept ==
    ASSUME NEW S, NEW f \in [S -> Nat], NEW x, NEW n, x \in S => n \in Nat
    PROVE  [f EXCEPT ![x] = n] \in [S -> Nat]
OBVIOUS

\* The end of the process leaves a well-typed state, whatever it cut off.
LEMMA CoreStopsTypes ==
    ASSUME TypeOK, CoreStops
    PROVE  /\ config' \in ConfigType
           /\ core' \in {"down", "starting", "running"}
           /\ timer' \in BOOLEAN
           /\ phase' \in [Attempts -> Phases]
           /\ ip' \in [Attempts -> Ips \cup {None}]
           /\ override' \in [Attempts -> BOOLEAN]
           /\ recorded' \subseteq Attempts
           /\ recent' \subseteq recorded'
           /\ latestBlocks' \subseteq Keys
           /\ due' \subseteq Attempts
           /\ task' \in [Tasks -> TaskType]
           /\ unblocking' \in [Attempts -> Nat]
           /\ inserting' \subseteq Attempts
           /\ deleting' \in [Attempts -> Nat]
           /\ rules' \in [Keys -> Nat]
           /\ unnamed' \subseteq Attempts
BY IdleTaskType DEF TypeOK, CoreStops, Phases, InFlight, Undecided, Convicted, Finished,
                    firewallVars

\* A fault is counted and stays within the bound.
LEMMA StrikeTypes ==
    ASSUME TypeOK, NEW kind, Strike(kind)
    PROVE  faults' \in 0..MaxFaults
BY ThresholdAssumption DEF TypeOK, Strike

LEMMA InitTypeOK == Init => TypeOK
<1>. SUFFICES ASSUME Init PROVE TypeOK
  OBVIOUS
<1>1. config \in ConfigType /\ faults \in 0..MaxFaults
  BY ConfigsAssumption, ThresholdAssumption DEF Init
<1>2. task \in [Tasks -> TaskType]
  BY IdleTaskType DEF Init
<1>3. phase \in [Attempts -> Phases]
  BY DEF Init, Phases
<1>. QED
  BY <1>1, <1>2, <1>3 DEF Init, TypeOK

LEMMA RaiseTypes ==
    ASSUME TypeOK, NEW a \in Attempts, NEW i \in Ips, NEW o \in BOOLEAN,
           RaiseAttempt(a, i, o)
    PROVE  TypeOK'
BY DEF TypeOK, RaiseAttempt, Proceed, Phases, InFlight, Undecided, Convicted, Finished,
       databaseVars, firewallVars, unblockVars, processVars

\* Recording and judging an attempt.
LEMMA DecideTypes ==
    ASSUME TypeOK, NEW a \in Attempts,
           \/ AddLoginAttempt(a) \/ NoApiHandler(a) \/ AnalyzeAttempt(a)
           \/ AddLoginAttemptRefused(a) \/ AddLoginAttemptThrows(a) \/ AnalyzeAttemptThrows(a)
    PROVE  TypeOK'
<1>. USE DEF TypeOK, Proceed, Phases, InFlight, Undecided, Convicted, Finished,
             attemptVars, databaseVars, firewallVars, unblockVars, processVars
<1>1. CASE AddLoginAttempt(a)
  BY <1>1 DEF AddLoginAttempt, Record, AfterRecording
<1>2. CASE NoApiHandler(a)
  BY <1>2 DEF NoApiHandler
<1>3. CASE AnalyzeAttempt(a)
  BY <1>3 DEF AnalyzeAttempt, AnalyzeWith
<1>4. CASE AddLoginAttemptRefused(a)
  BY <1>4, StrikeTypes DEF AddLoginAttemptRefused, AfterRecording, Refused
<1>5. CASE AddLoginAttemptThrows(a)
  <2>. faults' \in 0..MaxFaults
    BY <1>5, StrikeTypes DEF AddLoginAttemptThrows
  <2>. QED
    BY <1>5 DEF AddLoginAttemptThrows, Record
<1>6. CASE AnalyzeAttemptThrows(a)
  BY <1>6, StrikeTypes DEF AnalyzeAttemptThrows
<1>. QED
  BY <1>1, <1>2, <1>3, <1>4, <1>5, <1>6

\* The steps of a block event.
LEMMA BlockTypes ==
    ASSUME TypeOK, NEW a \in Attempts,
           \/ CheckLatestBlocks(a) \/ AddLatestBlock(a) \/ NotifyBlock(a)
           \/ NotifyBlockFails(a) \/ NotifyBlockUnnamed(a)
           \/ AddBlock(a) \/ AddBlockUnnamed(a) \/ AddBlockRefused(a)
           \/ AddBlockThrows(a) \/ StatisticsUpdateBlocks(a)
           \/ StatisticsUpdateRefused(a) \/ StatisticsUpdateThrows(a),
           phase[a] # "idle" => ip[a] \in Ips
    PROVE  TypeOK'
<1>. USE DEF TypeOK, Proceed, Phases, InFlight, Undecided, Convicted, Finished,
             attemptVars, databaseVars, firewallVars, unblockVars, processVars
<1>1. CASE CheckLatestBlocks(a)
  BY <1>1 DEF CheckLatestBlocks
<1>2. CASE AddLatestBlock(a)
  BY <1>2 DEF AddLatestBlock, Key, Keys
<1>3. CASE NotifyBlock(a)
  BY <1>3 DEF NotifyBlock
<1>4. CASE NotifyBlockFails(a)
  BY <1>4, StrikeTypes DEF NotifyBlockFails
<1>5. CASE AddBlock(a)
  BY <1>5 DEF AddBlock
<1>6. CASE AddBlockRefused(a)
  BY <1>6, StrikeTypes DEF AddBlockRefused, Refused
<1>7. CASE StatisticsUpdateBlocks(a)
  BY <1>7 DEF StatisticsUpdateBlocks
<1>8. CASE StatisticsUpdateRefused(a)
  BY <1>8, StrikeTypes DEF StatisticsUpdateRefused, Refused
<1>9. CASE AddBlockThrows(a)
  BY <1>9, StrikeTypes, CoreStopsTypes DEF AddBlockThrows
<1>10. CASE StatisticsUpdateThrows(a)
  BY <1>10, StrikeTypes, CoreStopsTypes DEF StatisticsUpdateThrows
<1>11. CASE NotifyBlockUnnamed(a)
  BY <1>11, StrikeTypes DEF NotifyBlockUnnamed
<1>12. CASE AddBlockUnnamed(a)
  BY <1>12, CoreStopsTypes DEF AddBlockUnnamed
<1>. QED
  BY <1>1, <1>2, <1>3, <1>4, <1>5, <1>6, <1>7, <1>8, <1>9, <1>10, <1>11, <1>12

\* The steps of the unblock task.
LEMMA UnblockTypes ==
    ASSUME TypeOK, NEW t \in Tasks, Unblock(t) \/ UnblockFails(t)
    PROVE  TypeOK'
<1>. USE DEF TypeOK, attemptVars, databaseVars, firewallVars, unblockVars, processVars
<1>1. ASSUME NEW todo \in SUBSET Attempts, NextBlock(t, todo)
      PROVE  task' \in [Tasks -> TaskType]
  BY <1>1 DEF NextBlock, SetTask, TaskType
<1>2. task[t].todo \in SUBSET Attempts
  BY DEF TaskType
<1>3. CASE Tick(t)
  BY <1>3 DEF Tick, SetTask, TaskType
<1>4. CASE GetUnblock(t)
  BY <1>1, <1>4 DEF GetUnblock
<1>5. CASE UpdateBlock(t)
  BY <1>1, <1>2, <1>5 DEF UpdateBlock, UpdateWith
<1>6. ASSUME NEW a \in Attempts, SignalUnblock(t, a)
      PROVE  TypeOK'
  <2>1. task' \in [Tasks -> TaskType]
    BY <1>2, <1>6 DEF SignalUnblock, SetTask, TaskType
  <2>. QED
    BY <1>6, <2>1 DEF SignalUnblock
<1>7. CASE GetUnblockRefused(t)
  BY <1>1, <1>7, StrikeTypes DEF GetUnblockRefused, Refused
<1>8. CASE UpdateBlockRefused(t)
  BY <1>1, <1>2, <1>8, StrikeTypes DEF UpdateBlockRefused, Refused
<1>9. CASE GetUnblockThrows(t)
  BY <1>9, StrikeTypes, CoreStopsTypes DEF GetUnblockThrows
<1>10. CASE UpdateBlockThrows(t)
  BY <1>10, StrikeTypes, CoreStopsTypes DEF UpdateBlockThrows
<1>. QED
  BY <1>3, <1>4, <1>5, <1>6, <1>7, <1>8, <1>9, <1>10 DEF Unblock, UnblockFails

\* The steps that change the firewall.
LEMMA EnforceTypes ==
    ASSUME TypeOK, NEW a \in Attempts, Enforce(a) \/ EnforceFails(a)
    PROVE  TypeOK'
<1>. USE DEF TypeOK, attemptVars, databaseVars, firewallVars, unblockVars, processVars
<1>0. rules \in [Keys -> Nat]
  OBVIOUS
<1>1. RemoveRule(a) => rules' \in [Keys -> Nat]
  <2>. DEFINE k == Subject(ip[a])
  <2>1. k \in Keys =>
            (IF a \notin unnamed /\ rules[k] > 0 THEN rules[k] - 1 ELSE rules[k]) \in Nat
    BY <1>0
  <2>. QED
    BY <1>0, <2>1, CounterExcept DEF RemoveRule
<1>2. CASE NotifyUnblock(a)
  <2>1. unblocking' \in [Attempts -> Nat]
    BY <1>2 DEF NotifyUnblock
  <2>2. deleting' \in [Attempts -> Nat]
    BY <1>2 DEF NotifyUnblock
  <2>3. rules' \in [Keys -> Nat]
    BY <1>1, <1>2 DEF NotifyUnblock
  <2>. QED
    BY <1>2, <2>1, <2>2, <2>3 DEF NotifyUnblock
<1>3. CASE InsertRule(a)
  <2>1. Subject(ip[a]) \in Keys => rules[Subject(ip[a])] + 1 \in Nat
    BY <1>0
  <2>2. rules' \in [Keys -> Nat]
    BY <1>0, <1>3, <2>1, CounterExcept DEF InsertRule
  <2>. QED
    BY <1>3, <2>2 DEF InsertRule
<1>4. CASE DeleteRule(a)
  BY <1>1, <1>4 DEF DeleteRule
<1>5. CASE NotifyUnblockFails(a)
  BY <1>5, StrikeTypes DEF NotifyUnblockFails
<1>6. CASE InsertRuleFails(a)
  BY <1>6, StrikeTypes DEF InsertRuleFails
<1>7. CASE DeleteRuleFails(a)
  BY <1>7, StrikeTypes DEF DeleteRuleFails
<1>. QED
  BY <1>2, <1>3, <1>4, <1>5, <1>6, <1>7 DEF Enforce, EnforceFails

LEMMA ProcessTypes == ASSUME TypeOK, Process PROVE TypeOK'
<1>. USE DEF TypeOK, attemptVars, databaseVars, firewallVars, unblockVars, processVars
<1>1. CASE Crash
  BY <1>1, StrikeTypes, CoreStopsTypes DEF Crash
<1>2. CASE Restart
  BY <1>2 DEF Restart
<1>3. CASE StartTimer
  BY <1>3 DEF StartTimer
<1>4. CASE CollectTimer
  BY <1>4, StrikeTypes DEF CollectTimer
<1>. QED
  BY <1>1, <1>2, <1>3, <1>4 DEF Process

LEMMA ElapseTypes == ASSUME TypeOK, Elapse PROVE TypeOK'
<1>. USE DEF TypeOK, attemptVars, databaseVars, firewallVars, unblockVars, processVars
<1>1. ASSUME NEW a \in Attempts, AgeAttempt(a) PROVE TypeOK'
  BY <1>1 DEF AgeAttempt
<1>2. ASSUME NEW a \in Attempts, BecomeDue(a) PROVE TypeOK'
  BY <1>2 DEF BecomeDue
<1>3. ASSUME NEW k \in Keys, ExpireLatest(k) PROVE TypeOK'
  BY <1>3 DEF ExpireLatest
<1>. QED
  BY <1>1, <1>2, <1>3 DEF Elapse

LEMMA StutterTypes == ASSUME TypeOK, UNCHANGED vars PROVE TypeOK'
BY DEF TypeOK, vars, attemptVars, databaseVars, firewallVars, unblockVars, processVars

LEMMA StepTypes == AttemptInv /\ [Next]_vars => TypeOK'
<1>. SUFFICES ASSUME AttemptInv, [Next]_vars PROVE TypeOK'
  OBVIOUS
<1>0. TypeOK /\ \A a \in Attempts : phase[a] # "idle" => ip[a] \in Ips
  BY DEF AttemptInv
<1>1. ASSUME NEW a \in Attempts, NEW i \in Ips, NEW o \in BOOLEAN, RaiseAttempt(a, i, o)
      PROVE  TypeOK'
  BY <1>0, <1>1, RaiseTypes
<1>2. ASSUME NEW a \in Attempts, Handle(a) \/ HandleFails(a)
      PROVE  TypeOK'
  BY <1>0, <1>2, DecideTypes, BlockTypes DEF Handle, HandleFails
<1>3. ASSUME NEW a \in Attempts, Enforce(a) \/ EnforceFails(a)
      PROVE  TypeOK'
  BY <1>0, <1>3, EnforceTypes
<1>4. ASSUME NEW t \in Tasks, Unblock(t) \/ UnblockFails(t)
      PROVE  TypeOK'
  BY <1>0, <1>4, UnblockTypes
<1>5. CASE Process
  BY <1>0, <1>5, ProcessTypes
<1>6. CASE Elapse
  BY <1>0, <1>6, ElapseTypes
<1>7. CASE UNCHANGED vars
  BY <1>0, <1>7, StutterTypes
<1>. QED
  BY <1>1, <1>2, <1>3, <1>4, <1>5, <1>6, <1>7 DEF Next

----------------------------------------------------------------------------
\* What a step may do, whichever action takes it.  The invariants below follow
\* from this summary alone.

\* The handlers of an attempt take their steps in order, and a crash cuts them off.
PhaseMove(a) ==
    \/ phase'[a] = phase[a]
    \/ phase[a] = "idle" /\ phase'[a] = "recording" /\ ip'[a] \in Ips
    \/ phase[a] = "recording" /\ phase'[a] \in {"analyzing", "failed"}
    \/ phase[a] = "recording" /\ phase'[a] = "blocking" /\ override[a]
    \/ phase[a] = "analyzing" /\ phase'[a] \in {"allowed", "failed"}
    \/ /\ phase[a] = "analyzing" /\ phase'[a] = "blocking"
       /\ Cardinality(Matching(a, recent)) >= Threshold
    \/ phase[a] = "blocking" /\ phase'[a] = "ignored"
    \/ phase[a] = "blocking" /\ phase'[a] = "suppressed" /\ Key(ip[a]) \in latestBlocks
    \/ phase[a] = "blocking" /\ phase'[a] = "caching" /\ ip[a] \notin Whitelist
    \/ phase[a] = "caching" /\ phase'[a] = "notifying"
    \/ phase[a] = "notifying" /\ phase'[a] = "reporting"
    \/ phase[a] = "reporting" /\ phase'[a] = "counting"
    \/ phase[a] = "counting" /\ phase'[a] = "reported"
    \/ phase[a] \in InFlight /\ phase'[a] = "lost"

AttemptMove ==
    /\ config' = config
    /\ \A a \in Attempts :
        /\ PhaseMove(a)
        /\ phase[a] # "idle" \/ phase'[a] = "idle" =>
               ip'[a] = ip[a] /\ override'[a] = override[a]

DatabaseMove ==
    /\ recorded \subseteq recorded'
    /\ due \subseteq due'
    /\ \A a \in Attempts :
        /\ a \in recorded' => a \in recorded \/ phase[a] = "recording"
        /\ a \in due' => a \in due \/ row[a] = "blocked"
        /\ \/ row'[a] = row[a]
           \/ /\ phase[a] = "reporting" /\ phase'[a] \in {"counting", "lost"}
              /\ row'[a] = "blocked"
           \/ a \in due /\ row'[a] = "unblocked"

TaskMove ==
    /\ \A t \in Tasks :
        /\ task'[t].todo \subseteq task[t].todo \cup due
        /\ task'[t].pc = "updating" =>
               task'[t].block \in task[t].todo \/ (task[t].pc = "updating" /\ task'[t] = task[t])
    /\ \A a \in Attempts :
        unblocking'[a] + deleting'[a] > 0 =>
            \/ unblocking[a] + deleting[a] > 0
            \/ \E t \in Tasks : a \in task[t].todo

FirewallMove ==
    /\ \A a \in Attempts :
        a \in inserting' => a \in inserting \/ (phase[a] = "notifying" /\ phase'[a] = "reporting")
    /\ \A k \in Keys : rules'[k] > 0 =>
        \/ rules[k] > 0
        \/ \E a \in Attempts :
            Subject(ip[a]) = k /\ (a \in inserting \/ phase[a] = "notifying")

CacheMove ==
    \A k \in latestBlocks' :
        \/ k \in latestBlocks
        \/ \E a \in Attempts : phase[a] = "caching" /\ phase'[a] = "notifying" /\ k = Key(ip[a])

Summary == AttemptMove /\ DatabaseMove /\ TaskMove /\ FirewallMove /\ CacheMove

LEMMA RaiseSummary ==
    ASSUME AttemptInv, TaskInv, NEW a \in Attempts, NEW i \in Ips, NEW o \in BOOLEAN,
           RaiseAttempt(a, i, o)
    PROVE  Summary
BY DEF RaiseAttempt, AttemptInv, TaskInv, TypeOK, Proceed, Summary, AttemptMove, PhaseMove,
       DatabaseMove, TaskMove, FirewallMove, CacheMove, databaseVars, firewallVars,
       unblockVars, processVars

LEMMA DecideSummary ==
    ASSUME AttemptInv, TaskInv, NEW a \in Attempts,
           \/ AddLoginAttempt(a) \/ NoApiHandler(a) \/ AnalyzeAttempt(a)
           \/ AddLoginAttemptRefused(a) \/ AddLoginAttemptThrows(a) \/ AnalyzeAttemptThrows(a)
    PROVE  Summary
<1>. USE DEF AttemptInv, TaskInv, TypeOK, Proceed, Summary, AttemptMove, PhaseMove, DatabaseMove,
             TaskMove, FirewallMove, CacheMove, attemptVars, databaseVars,
             firewallVars, unblockVars, processVars
<1>1. CASE AddLoginAttempt(a)
  BY <1>1 DEF AddLoginAttempt, Record, AfterRecording
<1>2. CASE NoApiHandler(a)
  BY <1>2 DEF NoApiHandler
<1>3. CASE AnalyzeAttempt(a)
  BY <1>3, ThresholdAssumption DEF AnalyzeAttempt, AnalyzeWith, PreviousAttempts
<1>4. CASE AddLoginAttemptRefused(a)
  BY <1>4 DEF AddLoginAttemptRefused, AfterRecording, Refused
<1>5. CASE AddLoginAttemptThrows(a)
  BY <1>5 DEF AddLoginAttemptThrows, Record
<1>6. CASE AnalyzeAttemptThrows(a)
  BY <1>6 DEF AnalyzeAttemptThrows
<1>. QED
  BY <1>1, <1>2, <1>3, <1>4, <1>5, <1>6

\* The part of the summary that a crash decides.
LEMMA CoreStopsSummary ==
    ASSUME AttemptInv, TaskInv, CoreStops
    PROVE  /\ AttemptMove /\ TaskMove /\ FirewallMove /\ CacheMove
           /\ UNCHANGED <<recorded, due>>
           /\ \A a \in Attempts : phase[a] = "reporting" => phase'[a] = "lost"
BY DEF AttemptInv, TaskInv, TypeOK, CoreStops, AttemptMove, PhaseMove, TaskMove, FirewallMove,
       CacheMove, InFlight, Undecided, Convicted, IdleTask, firewallVars

LEMMA BlockSummary ==
    ASSUME AttemptInv, TaskInv, NEW a \in Attempts,
           \/ CheckLatestBlocks(a) \/ AddLatestBlock(a) \/ NotifyBlock(a)
           \/ NotifyBlockFails(a) \/ NotifyBlockUnnamed(a)
           \/ AddBlock(a) \/ AddBlockUnnamed(a) \/ AddBlockRefused(a)
           \/ AddBlockThrows(a) \/ StatisticsUpdateBlocks(a)
           \/ StatisticsUpdateRefused(a) \/ StatisticsUpdateThrows(a)
    PROVE  Summary
<1>. USE DEF AttemptInv, TaskInv, TypeOK, Proceed, Summary, AttemptMove, PhaseMove, DatabaseMove,
             TaskMove, FirewallMove, CacheMove, attemptVars, databaseVars,
             firewallVars, unblockVars, processVars
<1>1. CASE CheckLatestBlocks(a)
  BY <1>1 DEF CheckLatestBlocks
<1>2. CASE AddLatestBlock(a)
  BY <1>2 DEF AddLatestBlock
<1>3. CASE NotifyBlock(a)
  BY <1>3 DEF NotifyBlock
<1>4. CASE NotifyBlockFails(a)
  BY <1>4 DEF NotifyBlockFails
<1>5. CASE AddBlock(a)
  BY <1>5 DEF AddBlock
<1>6. CASE AddBlockRefused(a)
  BY <1>6 DEF AddBlockRefused, Refused
<1>7. CASE StatisticsUpdateBlocks(a)
  BY <1>7 DEF StatisticsUpdateBlocks
<1>8. CASE StatisticsUpdateRefused(a)
  BY <1>8 DEF StatisticsUpdateRefused, Refused
<1>9. CASE AddBlockThrows(a)
  <2>1. AttemptMove /\ TaskMove /\ FirewallMove /\ CacheMove
    BY <1>9, CoreStopsSummary DEF AddBlockThrows
  <2>2. DatabaseMove
    BY <1>9, CoreStopsSummary DEF AddBlockThrows
  <2>. QED
    BY <2>1, <2>2
<1>10. CASE StatisticsUpdateThrows(a)
  <2>1. AttemptMove /\ TaskMove /\ FirewallMove /\ CacheMove
    BY <1>10, CoreStopsSummary DEF StatisticsUpdateThrows
  <2>2. DatabaseMove
    BY <1>10, CoreStopsSummary DEF StatisticsUpdateThrows
  <2>. QED
    BY <2>1, <2>2
<1>11. CASE NotifyBlockUnnamed(a)
  BY <1>11 DEF NotifyBlockUnnamed
<1>12. CASE AddBlockUnnamed(a)
  <2>1. AttemptMove /\ TaskMove /\ FirewallMove /\ CacheMove
    BY <1>12, CoreStopsSummary DEF AddBlockUnnamed
  <2>2. DatabaseMove
    BY <1>12, CoreStopsSummary DEF AddBlockUnnamed
  <2>. QED
    BY <2>1, <2>2
<1>. QED
  BY <1>1, <1>2, <1>3, <1>4, <1>5, <1>6, <1>7, <1>8, <1>9, <1>10, <1>11, <1>12

LEMMA UnblockSummary ==
    ASSUME AttemptInv, TaskInv, NEW t \in Tasks, Unblock(t) \/ UnblockFails(t)
    PROVE  Summary
<1>. USE DEF AttemptInv, TaskInv, TypeOK, Proceed, Summary, AttemptMove, PhaseMove, DatabaseMove,
             TaskMove, FirewallMove, CacheMove, attemptVars, databaseVars,
             firewallVars, unblockVars, processVars
<1>1. ASSUME NEW todo, NextBlock(t, todo)
      PROVE  task' = [task EXCEPT ![t] = [pc |-> IF todo = {} THEN "idle" ELSE "signalling",
                                          todo |-> todo, block |-> None]]
  BY <1>1 DEF NextBlock, SetTask
<1>2. task[t].pc = "updating" => task[t].block \in due
  OBVIOUS
<1>3. CASE Tick(t)
  BY <1>3 DEF Tick, SetTask
<1>4. CASE GetUnblock(t)
  BY <1>1, <1>4 DEF GetUnblock
<1>5. CASE UpdateBlock(t)
  <2>1. TaskMove
    BY <1>1, <1>5 DEF UpdateBlock, UpdateWith
  <2>2. DatabaseMove
    BY <1>2, <1>5 DEF UpdateBlock, UpdateWith
  <2>. QED
    BY <1>5, <2>1, <2>2 DEF UpdateBlock, UpdateWith
<1>6. ASSUME NEW a \in Attempts, SignalUnblock(t, a)
      PROVE  Summary
  <2>1. TaskMove
    <3>1. \A u \in Tasks : /\ task'[u].todo \subseteq task[u].todo
                           /\ task'[u].pc = "updating" =>
                                task'[u].block \in task[u].todo \/
                                (task[u].pc = "updating" /\ task'[u] = task[u])
      BY <1>6 DEF SignalUnblock, SetTask
    <3>2. \A b \in Attempts : unblocking'[b] + deleting'[b] > 0 =>
            unblocking[b] + deleting[b] > 0 \/ b \in task[t].todo
      BY <1>6 DEF SignalUnblock
    <3>. QED
      BY <3>1, <3>2
  <2>. QED
    BY <1>6, <2>1 DEF SignalUnblock
<1>7. CASE GetUnblockRefused(t)
  BY <1>1, <1>7 DEF GetUnblockRefused, Refused
<1>8. CASE UpdateBlockRefused(t)
  BY <1>1, <1>8 DEF UpdateBlockRefused, Refused
<1>9. CASE GetUnblockThrows(t)
  <2>1. AttemptMove /\ TaskMove /\ FirewallMove /\ CacheMove
    BY <1>9, CoreStopsSummary DEF GetUnblockThrows
  <2>2. DatabaseMove
    BY <1>9, CoreStopsSummary DEF GetUnblockThrows
  <2>. QED
    BY <2>1, <2>2
<1>10. CASE UpdateBlockThrows(t)
  <2>1. AttemptMove /\ TaskMove /\ FirewallMove /\ CacheMove
    BY <1>10, CoreStopsSummary DEF UpdateBlockThrows
  <2>2. DatabaseMove
    BY <1>2, <1>10, CoreStopsSummary DEF UpdateBlockThrows
  <2>. QED
    BY <2>1, <2>2
<1>. QED
  BY <1>3, <1>4, <1>5, <1>6, <1>7, <1>8, <1>9, <1>10 DEF Unblock, UnblockFails

LEMMA EnforceSummary ==
    ASSUME AttemptInv, TaskInv, NEW a \in Attempts, Enforce(a) \/ EnforceFails(a)
    PROVE  Summary
<1>. USE DEF AttemptInv, TaskInv, TypeOK, Proceed, Summary, AttemptMove, PhaseMove, DatabaseMove,
             TaskMove, FirewallMove, CacheMove, attemptVars, databaseVars,
             firewallVars, unblockVars, processVars
<1>0. RemoveRule(a) => \A k \in Keys : rules'[k] > 0 => rules[k] > 0
  BY DEF RemoveRule
<1>1. CASE NotifyUnblock(a)
  <2>1. TaskMove
    BY <1>1 DEF NotifyUnblock
  <2>2. FirewallMove
    BY <1>0, <1>1 DEF NotifyUnblock
  <2>. QED
    BY <1>1, <2>1, <2>2 DEF NotifyUnblock
<1>2. CASE InsertRule(a)
  BY <1>2 DEF InsertRule
<1>3. CASE DeleteRule(a)
  BY <1>0, <1>3 DEF DeleteRule
<1>4. CASE NotifyUnblockFails(a)
  BY <1>4 DEF NotifyUnblockFails
<1>5. CASE InsertRuleFails(a)
  BY <1>5 DEF InsertRuleFails
<1>6. CASE DeleteRuleFails(a)
  BY <1>6 DEF DeleteRuleFails
<1>. QED
  BY <1>1, <1>2, <1>3, <1>4, <1>5, <1>6 DEF Enforce, EnforceFails

LEMMA ProcessSummary == ASSUME AttemptInv, TaskInv, Process PROVE Summary
<1>. USE DEF AttemptInv, TaskInv, TypeOK, Proceed, Summary, AttemptMove, PhaseMove, DatabaseMove,
             TaskMove, FirewallMove, CacheMove, attemptVars, databaseVars,
             firewallVars, unblockVars, processVars
<1>1. CASE Crash
  <2>1. AttemptMove /\ TaskMove /\ FirewallMove /\ CacheMove
    BY <1>1, CoreStopsSummary DEF Crash
  <2>2. DatabaseMove
    BY <1>1, CoreStopsSummary DEF Crash
  <2>. QED
    BY <2>1, <2>2
<1>2. CASE Restart
  BY <1>2 DEF Restart
<1>3. CASE StartTimer
  BY <1>3 DEF StartTimer
<1>4. CASE CollectTimer
  BY <1>4 DEF CollectTimer
<1>. QED
  BY <1>1, <1>2, <1>3, <1>4 DEF Process

LEMMA ElapseSummary == ASSUME AttemptInv, TaskInv, Elapse PROVE Summary
<1>. USE DEF AttemptInv, TaskInv, TypeOK, Proceed, Summary, AttemptMove, PhaseMove, DatabaseMove,
             TaskMove, FirewallMove, CacheMove, attemptVars, databaseVars,
             firewallVars, unblockVars, processVars
<1>1. ASSUME NEW a \in Attempts, AgeAttempt(a) PROVE Summary
  BY <1>1 DEF AgeAttempt
<1>2. ASSUME NEW a \in Attempts, BecomeDue(a) PROVE Summary
  BY <1>2 DEF BecomeDue
<1>3. ASSUME NEW k \in Keys, ExpireLatest(k) PROVE Summary
  BY <1>3 DEF ExpireLatest
<1>. QED
  BY <1>1, <1>2, <1>3 DEF Elapse

LEMMA StutterSummary == ASSUME AttemptInv, TaskInv, UNCHANGED vars PROVE Summary
<1>. USE DEF AttemptInv, TaskInv, TypeOK, Proceed, Summary, AttemptMove, PhaseMove, DatabaseMove,
             TaskMove, FirewallMove, CacheMove, attemptVars, databaseVars,
             firewallVars, unblockVars, processVars
<1>. QED
  BY DEF vars

LEMMA StepSummary == AttemptInv /\ TaskInv /\ [Next]_vars => Summary
<1>. SUFFICES ASSUME AttemptInv, TaskInv, [Next]_vars PROVE Summary
  OBVIOUS
<1>1. ASSUME NEW a \in Attempts, NEW i \in Ips, NEW o \in BOOLEAN, RaiseAttempt(a, i, o)
      PROVE  Summary
  BY <1>1, RaiseSummary
<1>2. ASSUME NEW a \in Attempts, Handle(a) \/ HandleFails(a)
      PROVE  Summary
  BY <1>2, DecideSummary, BlockSummary DEF Handle, HandleFails
<1>3. ASSUME NEW a \in Attempts, Enforce(a) \/ EnforceFails(a)
      PROVE  Summary
  BY <1>3, EnforceSummary
<1>4. ASSUME NEW t \in Tasks, Unblock(t) \/ UnblockFails(t)
      PROVE  Summary
  BY <1>4, UnblockSummary
<1>5. CASE Process
  BY <1>5, ProcessSummary
<1>6. CASE Elapse
  BY <1>6, ElapseSummary
<1>7. CASE UNCHANGED vars
  BY <1>7, StutterSummary
<1>. QED
  BY <1>1, <1>2, <1>3, <1>4, <1>5, <1>6, <1>7 DEF Next

----------------------------------------------------------------------------
\* The core invariant

CoreInv == AttemptInv /\ TaskInv

LEMMA InitCoreInv == Init => CoreInv
<1>. SUFFICES ASSUME Init PROVE CoreInv
  OBVIOUS
<1>1. TypeOK
  BY InitTypeOK
<1>2. AttemptInv
  BY <1>1 DEF Init, AttemptInv
<1>3. TaskInv
  BY DEF Init, TaskInv, IdleTask, RemovalOnlyWhenDue
<1>. QED
  BY <1>2, <1>3 DEF CoreInv

LEMMA StepCoreInv == CoreInv /\ [Next]_vars => CoreInv'
<1>. SUFFICES ASSUME AttemptInv, TaskInv, [Next]_vars PROVE CoreInv'
  BY DEF CoreInv
<1>1. TypeOK /\ TypeOK'
  BY StepTypes DEF AttemptInv
<1>2. AttemptMove /\ DatabaseMove /\ TaskMove /\ FirewallMove
  BY StepSummary DEF Summary
<1>3. AttemptInv'
  <2>. SUFFICES ASSUME NEW a \in Attempts
                PROVE  /\ phase'[a] = "idle" => ip'[a] = None /\ a \notin recorded'
                       /\ phase'[a] # "idle" => ip'[a] \in Ips
                       /\ a \in inserting' \/ row'[a] # "none" => phase'[a] \in
                              {"reporting", "counting", "reported", "lost"}
                       /\ phase'[a] = "reporting" => row'[a] = "none"
                       /\ a \in due' => row'[a] # "none"
    BY <1>1 DEF AttemptInv
  <2>1. phase'[a] = "idle" => phase[a] = "idle"
    BY <1>2 DEF AttemptMove, PhaseMove
  <2>2. phase'[a] = "idle" => ip'[a] = None /\ a \notin recorded'
    BY <1>2, <2>1 DEF AttemptInv, AttemptMove, DatabaseMove
  <2>3. phase'[a] # "idle" => ip'[a] \in Ips
    BY <1>2 DEF AttemptInv, AttemptMove, PhaseMove, InFlight, Undecided, Convicted
  <2>4. phase[a] \in {"reporting", "counting", "reported", "lost"} =>
            phase'[a] \in {"reporting", "counting", "reported", "lost"}
    BY <1>2 DEF AttemptMove, PhaseMove
  <2>5. a \in inserting' \/ row'[a] # "none" =>
            phase'[a] \in {"reporting", "counting", "reported", "lost"}
    BY <1>2, <2>4 DEF AttemptInv, FirewallMove, DatabaseMove
  <2>6. phase'[a] = "reporting" => phase[a] \in {"notifying", "reporting"}
    BY <1>2 DEF AttemptMove, PhaseMove
  <2>7. phase'[a] = "reporting" => row'[a] = "none"
    BY <1>1, <1>2, <2>6 DEF AttemptInv, DatabaseMove, TypeOK
  <2>8. a \in due' => row'[a] # "none"
    BY <1>2 DEF AttemptInv, DatabaseMove
  <2>. QED
    BY <2>2, <2>3, <2>5, <2>7, <2>8
<1>4. TaskInv'
  <2>1. ASSUME NEW t \in Tasks
        PROVE  /\ task'[t].todo \subseteq due'
               /\ task'[t].pc = "updating" => task'[t].block \in due'
    BY <1>2 DEF TaskInv, TaskMove, DatabaseMove
  <2>2. RemovalOnlyWhenDue'
    BY <1>2 DEF TaskInv, TaskMove, DatabaseMove, RemovalOnlyWhenDue
  <2>. QED
    BY <2>1, <2>2 DEF TaskInv
<1>. QED
  BY <1>3, <1>4 DEF CoreInv

\* The inductive invariant of the pipeline and the unblock task, whatever fails:
\* attempts leave no trace before they are raised, and only due rows are lifted.
THEOREM CoreInvariant == Spec => []CoreInv
BY InitCoreInv, StepCoreInv, PTL DEF Spec

\* Every reachable state is well typed: phases, rows, counters and tasks stay
\* in their types, however faults cut the handlers short.
THEOREM TypeCorrect == Spec => []TypeOK
<1>1. CoreInv => TypeOK
  BY DEF CoreInv, AttemptInv
<1>. QED
  BY <1>1, CoreInvariant, PTL

\* UnblockTask asks for the removal of a rule only on behalf of a row that has
\* outlived UnblockTimeSpanMinutes.
THEOREM RemovalsAreDue == Spec => []RemovalOnlyWhenDue
<1>1. CoreInv => RemovalOnlyWhenDue
  BY DEF CoreInv, TaskInv
<1>. QED
  BY <1>1, CoreInvariant, PTL

\* Rows are blocked, then due, then unblocked, and never go back.
THEOREM RowsAdvance == Spec => RowLifecycle
<1>1. CoreInv /\ [Next]_vars =>
        [\A a \in Attempts :
            /\ row[a] # "none" => row'[a] # "none"
            /\ row[a] = "unblocked" => row'[a] = "unblocked"
            /\ row'[a] = "unblocked" /\ row[a] # "unblocked" =>
                   row[a] = "blocked" /\ a \in due]_vars
  <2>. SUFFICES ASSUME CoreInv, [Next]_vars, NEW a \in Attempts
                PROVE  /\ row[a] # "none" => row'[a] # "none"
                       /\ row[a] = "unblocked" => row'[a] = "unblocked"
                       /\ row'[a] = "unblocked" /\ row[a] # "unblocked" =>
                              row[a] = "blocked" /\ a \in due
    OBVIOUS
  <2>1. DatabaseMove
    BY StepSummary DEF CoreInv, Summary
  <2>2. /\ row[a] \in {"none", "blocked", "unblocked"}
        /\ phase[a] = "reporting" => row[a] = "none"
        /\ a \in due => row[a] # "none"
    BY DEF CoreInv, AttemptInv, TypeOK
  <2>. QED
    BY <2>1, <2>2 DEF DatabaseMove
<1>. QED
  BY <1>1, CoreInvariant, PTL DEF Spec, RowLifecycle

----------------------------------------------------------------------------
\* Evidence

\* Evidence against a raised attempt never goes away: the attempts counted
\* against it stay in the database, and its address and override stay.
LEMMA EvidencePersists ==
    ASSUME CoreInv, [Next]_vars, NEW a \in Attempts, phase[a] # "idle", Evidence(a)
    PROVE  Evidence(a)'
<1>1. TypeOK /\ TypeOK'
  BY StepTypes DEF CoreInv, AttemptInv
<1>2. AttemptMove /\ DatabaseMove
  BY StepSummary DEF CoreInv, Summary
<1>3. ip'[a] = ip[a] /\ override'[a] = override[a]
  BY <1>2 DEF AttemptMove
<1>4. \A b \in recorded : ip'[b] = ip[b]
  BY <1>1, <1>2 DEF CoreInv, AttemptInv, AttemptMove, TypeOK
<1>5. Matching(a, recorded) \subseteq Matching(a, recorded)'
  BY <1>2, <1>3, <1>4 DEF Matching, SameSource, AttemptMove, DatabaseMove
<1>6. IsFiniteSet(Matching(a, recorded)') /\ IsFiniteSet(Matching(a, recorded))
  BY <1>1, AttemptsAssumption, FS_Subset DEF Matching, TypeOK
<1>7. Cardinality(Matching(a, recorded)) <= Cardinality(Matching(a, recorded)')
  BY <1>5, <1>6, FS_Subset
<1>8. /\ Cardinality(Matching(a, recorded)) \in Nat
      /\ Cardinality(Matching(a, recorded)') \in Nat
  BY <1>6, FS_CardinalityType
<1>. QED
  BY <1>3, <1>7, <1>8, ThresholdAssumption DEF Evidence

\* The attempts inside the window are among those in the database.
LEMMA RecentEvidence ==
    ASSUME TypeOK, NEW a \in Attempts,
           Cardinality(Matching(a, recent)) >= Threshold
    PROVE  Evidence(a)
<1>1. Matching(a, recent) \subseteq Matching(a, recorded)
  BY DEF TypeOK, Matching
<1>2. IsFiniteSet(Matching(a, recorded)) /\ IsFiniteSet(Matching(a, recent))
  BY AttemptsAssumption, FS_Subset DEF Matching, TypeOK
<1>3. Cardinality(Matching(a, recent)) <= Cardinality(Matching(a, recorded))
  BY <1>1, <1>2, FS_Subset
<1>4. /\ Cardinality(Matching(a, recent)) \in Nat
      /\ Cardinality(Matching(a, recorded)) \in Nat
  BY <1>2, FS_CardinalityType
<1>. QED
  BY <1>3, <1>4, ThresholdAssumption DEF Evidence

LEMMA StepEvidenceInv == CoreInv /\ EvidenceInv /\ [Next]_vars => EvidenceInv'
<1>. SUFFICES ASSUME CoreInv, EvidenceInv, [Next]_vars PROVE EvidenceInv'
  OBVIOUS
<1>1. TypeOK
  BY DEF CoreInv, AttemptInv
<1>2. AttemptMove /\ DatabaseMove /\ FirewallMove
  BY StepSummary DEF CoreInv, Summary
<1>3. ASSUME NEW a \in Attempts, phase'[a] \in Convicted
      PROVE  Evidence(a)'
  <2>1. phase[a] # "idle"
    BY <1>2, <1>3 DEF AttemptMove, PhaseMove, Convicted
  <2>2. \/ phase[a] \in Convicted
        \/ override[a]
        \/ Cardinality(Matching(a, recent)) >= Threshold
    BY <1>2, <1>3 DEF AttemptMove, PhaseMove, Convicted
  <2>3. Evidence(a)
    BY <1>1, <2>2, RecentEvidence DEF EvidenceInv, Evidence
  <2>. QED
    BY <2>1, <2>3, EvidencePersists
<1>4. ASSUME NEW a \in Attempts, row'[a] # "none" \/ a \in inserting'
      PROVE  Evidence(a)'
  <2>1. row[a] # "none" \/ a \in inserting \/ phase[a] \in {"notifying", "reporting"}
    BY <1>2, <1>4 DEF DatabaseMove, FirewallMove, CoreInv, AttemptInv
  <2>2. Evidence(a)
    BY <2>1 DEF EvidenceInv, BlockHasEvidence, Convicted
  <2>3. phase[a] # "idle"
    BY <2>1 DEF CoreInv, AttemptInv
  <2>. QED
    BY <2>2, <2>3, EvidencePersists
<1>5. ASSUME NEW k \in Keys, rules'[k] > 0
      PROVE  \E a \in Attempts : phase'[a] # "idle" /\ Subject(ip[a])' = k /\ Evidence(a)'
  <2>1. PICK a \in Attempts : phase[a] # "idle" /\ Subject(ip[a]) = k /\ Evidence(a)
    BY <1>2, <1>5 DEF FirewallMove, EvidenceInv, BlockHasEvidence, Convicted, CoreInv, AttemptInv
  <2>2. ip'[a] = ip[a] /\ phase'[a] # "idle"
    BY <1>2, <2>1 DEF AttemptMove, PhaseMove
  <2>3. Subject(ip[a])' = k
    BY <1>2, <2>1, <2>2 DEF AttemptMove, Subject
  <2>. QED
    BY <2>1, <2>2, <2>3, EvidencePersists
<1>. QED
  BY <1>3, <1>4, <1>5 DEF EvidenceInv, BlockHasEvidence

\* Nobody is blocked without cause: each row of table Blocks, each running
\* iptables insertion and each firewall rule belongs to an attempt that
\* overrode the decision or whose source reached Blocking:Attempts.
THEOREM BlocksHaveEvidence == Spec => []BlockHasEvidence
<1>1. Init => EvidenceInv
  BY DEF Init, EvidenceInv, BlockHasEvidence, Convicted
<1>2. EvidenceInv => BlockHasEvidence
  BY DEF EvidenceInv
<1>. QED
  BY <1>1, <1>2, StepEvidenceInv, CoreInvariant, PTL DEF Spec

----------------------------------------------------------------------------
\* The whitelist

LEMMA StepWhitelistInv == CoreInv /\ WhitelistInv /\ [Next]_vars => WhitelistInv'
<1>. SUFFICES ASSUME CoreInv, WhitelistInv, [Next]_vars PROVE WhitelistInv'
  OBVIOUS
<1>1. AttemptMove /\ DatabaseMove /\ FirewallMove
  BY StepSummary DEF CoreInv, Summary
<1>2. rules \in [Keys -> Nat] /\ rules' \in [Keys -> Nat]
  BY StepTypes DEF CoreInv, AttemptInv, TypeOK
<1>3. ASSUME NEW a \in Attempts, phase'[a] \in {"caching", "notifying", "reporting"}
      PROVE  ip'[a] \notin Whitelist
  BY <1>1, <1>3 DEF AttemptMove, PhaseMove, WhitelistInv
<1>4. ASSUME NEW a \in Attempts, ip'[a] \in Whitelist
      PROVE  row'[a] = "none" /\ a \notin inserting'
  <2>1. CASE phase[a] = "idle"
    BY <1>1, <2>1 DEF DatabaseMove, FirewallMove, CoreInv, AttemptInv
  <2>2. CASE phase[a] # "idle"
    <3>1. ip[a] \in Whitelist
      BY <1>1, <1>4, <2>2 DEF AttemptMove
    <3>2. row[a] = "none" /\ a \notin inserting /\ phase[a] \notin {"notifying", "reporting"}
      BY <3>1 DEF WhitelistInv, WhitelistRespected
    <3>. QED
      BY <1>1, <3>2 DEF DatabaseMove, FirewallMove, CoreInv, AttemptInv
  <2>. QED
    BY <2>1, <2>2
<1>5. ASSUME NEW i \in Whitelist
      PROVE  rules'[i] = 0
  <2>1. i \in Ips /\ i \in Keys /\ rules[i] = 0
    BY AddressAssumption DEF WhitelistInv, WhitelistRespected, Keys
  <2>2. ASSUME NEW a \in Attempts, Subject(ip[a]) = i, a \in inserting \/ phase[a] = "notifying"
        PROVE  FALSE
    <3>1. phase[a] # "idle" /\ ip[a] \in Ips
      BY <2>2 DEF CoreInv, AttemptInv
    <3>2. ip[a] = i
      BY <2>1, <2>2, <3>1, AddressAssumption DEF Subject
    <3>. QED
      BY <2>2, <3>2 DEF WhitelistInv, WhitelistRespected
  <2>3. ~(rules'[i] > 0)
    BY <1>1, <2>1, <2>2 DEF FirewallMove
  <2>. QED
    BY <1>2, <2>1, <2>3
<1>. QED
  BY <1>3, <1>4, <1>5 DEF WhitelistInv, WhitelistRespected

\* OnBlockEvent never blocks a whitelisted address, in the database or in the
\* firewall, whatever the plug-ins report about it.
THEOREM WhitelistHolds == Spec => []WhitelistRespected
<1>1. Init => WhitelistInv
  BY AddressAssumption, NoneAssumption DEF Init, WhitelistInv, WhitelistRespected, Keys
<1>2. WhitelistInv => WhitelistRespected
  BY DEF WhitelistInv
<1>. QED
  BY <1>1, <1>2, StepWhitelistInv, CoreInvariant, PTL DEF Spec

----------------------------------------------------------------------------
\* The cache of recent blocks

LEMMA CausePersists ==
    ASSUME CoreInv, [Next]_vars, NEW k, CauseOf(k)
    PROVE  CauseOf(k)'
<1>1. AttemptMove
  BY StepSummary DEF CoreInv, Summary
<1>2. PICK b \in Attempts :
        /\ Key(ip[b]) = k
        /\ phase[b] \in {"notifying", "reporting", "counting", "reported", "lost"}
  BY DEF CauseOf
<1>3. Key(ip[b])' = k
  BY <1>1, <1>2 DEF AttemptMove, Key
<1>4. phase'[b] \in {"notifying", "reporting", "counting", "reported", "lost"}
  BY <1>1, <1>2 DEF AttemptMove, PhaseMove
<1>. QED
  BY <1>3, <1>4 DEF CauseOf

LEMMA StepCacheInv == CoreInv /\ CacheInv /\ [Next]_vars => CacheInv'
<1>. SUFFICES ASSUME CoreInv, CacheInv, [Next]_vars PROVE CacheInv'
  OBVIOUS
<1>1. AttemptMove /\ CacheMove
  BY StepSummary DEF CoreInv, Summary
<1>2. ASSUME NEW k \in latestBlocks'
      PROVE  CauseOf(k)'
  <2>1. CASE k \in latestBlocks
    BY <2>1, CausePersists DEF CacheInv
  <2>2. ASSUME NEW a \in Attempts, phase[a] = "caching", phase'[a] = "notifying",
               k = Key(ip[a])
        PROVE  CauseOf(k)'
    BY <1>1, <2>2 DEF AttemptMove, CauseOf, Key
  <2>. QED
    BY <1>1, <2>1, <2>2 DEF CacheMove
<1>3. ASSUME NEW a \in Attempts, phase'[a] = "suppressed"
      PROVE  CauseOf(Key(ip[a]))'
  <2>1. CauseOf(Key(ip[a])) /\ phase[a] # "idle"
    BY <1>1, <1>3 DEF AttemptMove, PhaseMove, CacheInv
  <2>2. Key(ip[a])' = Key(ip[a])
    BY <1>1, <2>1 DEF AttemptMove, Key
  <2>3. PICK k : k = Key(ip[a])
    OBVIOUS
  <2>4. CauseOf(k)'
    BY <2>1, <2>3, CausePersists
  <2>. QED
    BY <2>2, <2>3, <2>4 DEF CauseOf
<1>. QED
  BY <1>2, <1>3 DEF CacheInv

\* An attempt is dropped as recently blocked only in favour of another one
\* with the same cache key that was handed to the firewall or cut off.
THEOREM SuppressionsHaveCause == Spec => []SuppressionHasCause
<1>1. Init => CacheInv
  BY DEF Init, CacheInv
<1>2. CacheInv => SuppressionHasCause
  BY DEF CacheInv, CauseOf, SuppressionHasCause
<1>. QED
  BY <1>1, <1>2, StepCacheInv, CoreInvariant, PTL DEF Spec

----------------------------------------------------------------------------
\* The policy: what a step does to the part of the state that BlockPolicy sees.

Books == <<config, ip, override, recorded>>

\* An attempt is raised; or the database learns of one; or nothing is seen.
Sees ==
    /\ UNCHANGED <<config, row, due, rules>>
    /\ \/ \E a \in Attempts, i \in Ips :
            phase[a] = "idle" /\ ip' = [ip EXCEPT ![a] = i] /\ recorded' = recorded
       \/ UNCHANGED <<ip, override>>

\* A row is entered by its own handler, lifted when due, or grows old.
Rows ==
    /\ UNCHANGED <<Books, rules>>
    /\ \E a \in Attempts :
        \/ /\ phase[a] = "reporting" /\ due' = due
           /\ row' = [row EXCEPT ![a] = "blocked"]
        \/ /\ a \in due /\ due' = due
           /\ row' = [row EXCEPT ![a] = "unblocked"]
        \/ /\ row[a] = "blocked" /\ row' = row
           /\ due' = due \cup {a}

\* A rule is added for an attempt that was handed to the firewall, or removed
\* for one whose removal was asked for.
Rules ==
    /\ UNCHANGED <<Books, row, due>>
    /\ \E a \in Attempts :
        \/ /\ phase[a] = "notifying" \/ a \in inserting
           /\ rules' = [rules EXCEPT ![Subject(ip[a])] = @ + 1]
        \/ /\ unblocking[a] + deleting[a] > 0
           /\ RemoveRule(a)

PolicyMove == Sees \/ Rows \/ Rules

LEMMA AttemptPolicyMove ==
    ASSUME AttemptInv, TaskInv, NEW a \in Attempts,
           \/ \E i \in Ips, o \in BOOLEAN : RaiseAttempt(a, i, o)
           \/ Handle(a) \/ HandleFails(a)
    PROVE  PolicyMove
<1>. USE DEF PolicyMove, Proceed, Books, attemptVars, databaseVars,
             firewallVars, unblockVars, processVars
<1>1. CASE \E i \in Ips, o \in BOOLEAN : RaiseAttempt(a, i, o)
  BY <1>1 DEF RaiseAttempt, Sees
<1>2. CASE AddLoginAttempt(a) \/ AddLoginAttemptThrows(a)
  BY <1>2 DEF AddLoginAttempt, AddLoginAttemptThrows, Sees
<1>3. CASE NoApiHandler(a) \/ AddLoginAttemptRefused(a)
  BY <1>3 DEF NoApiHandler, AddLoginAttemptRefused, Sees
<1>4. CASE AnalyzeAttempt(a) \/ AnalyzeAttemptThrows(a)
  BY <1>4 DEF AnalyzeAttempt, AnalyzeWith, AnalyzeAttemptThrows, Sees
<1>5. CASE CheckLatestBlocks(a) \/ AddLatestBlock(a)
  BY <1>5 DEF CheckLatestBlocks, AddLatestBlock, Sees
<1>6. CASE NotifyBlock(a)
  BY <1>6 DEF NotifyBlock, Sees, Rules
<1>7. CASE NotifyBlockFails(a) \/ NotifyBlockUnnamed(a)
  BY <1>7 DEF NotifyBlockFails, NotifyBlockUnnamed, Sees
<1>8. CASE AddBlock(a) \/ AddBlockThrows(a)
  BY <1>8 DEF AddBlock, AddBlockThrows, CoreStops, Sees, Rows
<1>9. CASE AddBlockUnnamed(a) \/ AddBlockRefused(a)
  BY <1>9 DEF AddBlockUnnamed, AddBlockRefused, CoreStops, Sees
<1>10. CASE \/ StatisticsUpdateBlocks(a) \/ StatisticsUpdateRefused(a)
            \/ StatisticsUpdateThrows(a)
  BY <1>10 DEF StatisticsUpdateBlocks, StatisticsUpdateRefused, StatisticsUpdateThrows,
               CoreStops, Sees
<1>. QED
  BY <1>1, <1>2, <1>3, <1>4, <1>5, <1>6, <1>7, <1>8, <1>9, <1>10 DEF Handle, HandleFails

LEMMA UnblockPolicyMove ==
    ASSUME AttemptInv, TaskInv, NEW t \in Tasks, Unblock(t) \/ UnblockFails(t)
    PROVE  PolicyMove
<1>. USE DEF PolicyMove, Books, attemptVars, databaseVars, firewallVars, unblockVars,
             processVars
<1>1. task[t].pc = "updating" => task[t].block \in due /\ task[t].block \in Attempts
  BY DEF TaskInv, AttemptInv, TypeOK
<1>2. CASE Tick(t) \/ GetUnblock(t) \/ \E a \in Attempts : SignalUnblock(t, a)
  BY <1>2 DEF Tick, GetUnblock, SignalUnblock, Sees
<1>3. CASE UpdateBlock(t) \/ UpdateBlockThrows(t)
  BY <1>1, <1>3 DEF UpdateBlock, UpdateWith, UpdateBlockThrows, CoreStops, Sees, Rows
<1>4. CASE GetUnblockRefused(t) \/ GetUnblockThrows(t) \/ UpdateBlockRefused(t)
  BY <1>4 DEF GetUnblockRefused, GetUnblockThrows, UpdateBlockRefused, CoreStops, Sees
<1>. QED
  BY <1>2, <1>3, <1>4 DEF Unblock, UnblockFails

LEMMA EnforcePolicyMove ==
    ASSUME AttemptInv, TaskInv, NEW a \in Attempts, Enforce(a) \/ EnforceFails(a)
    PROVE  PolicyMove
<1>. USE DEF PolicyMove, Books, attemptVars, databaseVars, firewallVars, unblockVars,
             processVars
<1>1. unblocking[a] \in Nat /\ deleting[a] \in Nat
  BY DEF AttemptInv, TypeOK
<1>2. CASE NotifyUnblock(a)
  BY <1>1, <1>2 DEF NotifyUnblock, Sees, Rules
<1>3. CASE InsertRule(a)
  BY <1>3 DEF InsertRule, Rules
<1>4. CASE DeleteRule(a)
  BY <1>1, <1>4 DEF DeleteRule, Rules
<1>5. CASE EnforceFails(a)
  BY <1>5 DEF EnforceFails, NotifyUnblockFails, InsertRuleFails, DeleteRuleFails, Sees
<1>. QED
  BY <1>2, <1>3, <1>4, <1>5 DEF Enforce

LEMMA OtherPolicyMove ==
    ASSUME Process \/ Elapse \/ UNCHANGED vars
    PROVE  PolicyMove
<1>. USE DEF PolicyMove, Books, attemptVars, databaseVars, firewallVars, unblockVars,
             processVars
<1>1. CASE Process
  BY <1>1 DEF Process, Crash, Restart, StartTimer, CollectTimer, CoreStops, Sees
<1>2. CASE Elapse
  BY <1>2 DEF Elapse, AgeAttempt, BecomeDue, ExpireLatest, Sees, Rows
<1>3. CASE UNCHANGED vars
  BY <1>3 DEF vars, Sees
<1>. QED
  BY <1>1, <1>2, <1>3

LEMMA StepPolicyMove == CoreInv /\ [Next]_vars => PolicyMove
BY AttemptPolicyMove, UnblockPolicyMove, EnforcePolicyMove, OtherPolicyMove
   DEF CoreInv, Next

\* The invariants the policy rests on.
PolicyInv == CoreInv /\ EvidenceInv /\ WhitelistInv

LEMMA PolicyInvariant == Spec => []PolicyInv
<1>1. Init => EvidenceInv
  BY DEF Init, EvidenceInv, BlockHasEvidence, Convicted
<1>2. Init => WhitelistInv
  BY AddressAssumption, NoneAssumption DEF Init, WhitelistInv, WhitelistRespected, Keys
<1>. QED
  BY <1>1, <1>2, InitCoreInv, StepCoreInv, StepEvidenceInv, StepWhitelistInv, PTL
     DEF Spec, PolicyInv

\* The images of the variables under the refinement mapping.
Target == [a \in Attempts |-> IF ip[a] = None THEN None ELSE Subject(ip[a])]
Accused == {a \in Attempts : ip[a] # None /\ Evidence(a)}
Guarded == {k \in Keys : rules[k] > 0}

\* Attempts with an address have been raised; their rule names a key.
LEMMA SeenAttempt ==
    ASSUME CoreInv, NEW a \in Attempts
    PROVE  /\ ip[a] # None <=> phase[a] # "idle"
           /\ ip[a] # None => ip[a] \in Ips /\ Subject(ip[a]) \in Keys
BY NoneAssumption DEF CoreInv, AttemptInv, Subject, Keys

LEMMA AccusedPersist ==
    ASSUME CoreInv, [Next]_vars
    PROVE  Accused \subseteq Accused' /\ \A a \in Accused' : ip'[a] # None
<1>1. AttemptMove
  BY StepSummary DEF CoreInv, Summary
<1>2. ASSUME NEW a \in Accused PROVE a \in Accused'
  <2>1. a \in Attempts /\ phase[a] # "idle" /\ Evidence(a) /\ ip[a] # None
    BY SeenAttempt DEF Accused
  <2>. QED
    BY <1>1, <2>1, EvidencePersists DEF Accused, AttemptMove
<1>. QED
  BY <1>2 DEF Accused

\* Evidence and rules depend only on the books.
LEMMA SameBooks ==
    ASSUME UNCHANGED Books
    PROVE  Accused' = Accused /\ Target' = Target
BY DEF Books, Accused, Target, Evidence, Matching, SameSource, Subject

LEMMA SeesMeetsPolicy ==
    ASSUME PolicyInv, [Next]_vars, Sees
    PROVE  Policy!PolicyNext
<1>1. Accused \subseteq Accused' /\ \A a \in Accused' : ip'[a] # None
  BY AccusedPersist DEF PolicyInv
<1>2. Guarded' = Guarded
  BY DEF Sees, Guarded
<1>3. Policy!GatherEvidence
  BY <1>1 DEF Policy!GatherEvidence, Accused
<1>4. ASSUME NEW a \in Attempts, NEW i \in Ips, phase[a] = "idle",
             ip' = [ip EXCEPT ![a] = i]
      PROVE  Policy!Observe(a, i, Subject(i))
  <2>1. ip \in [Attempts -> Ips \cup {None}] /\ ip[a] = None
    BY <1>4 DEF PolicyInv, CoreInv, AttemptInv, TypeOK
  <2>2. Subject(i)' = Subject(i) /\ i # None
    BY NoneAssumption DEF Sees, Subject
  <2>3. Target' = [Target EXCEPT ![a] = Subject(i)]
    BY <1>4, <2>1, <2>2 DEF Sees, Target, Subject
  <2>. QED
    BY <1>2, <1>3, <1>4, <2>1, <2>3 DEF Policy!Observe, Sees, Target, Guarded
<1>5. CASE UNCHANGED <<ip, override>>
  <2>1. Target' = Target
    BY <1>5 DEF Sees, Target, Subject
  <2>2. Policy!Accuse
    BY <1>2, <1>3, <1>5, <2>1 DEF Policy!Accuse, Sees, Target, Guarded
  <2>. QED
    BY <2>2 DEF Policy!PolicyNext
<1>6. ASSUME NEW a \in Attempts, NEW i \in Ips, phase[a] = "idle",
             ip' = [ip EXCEPT ![a] = i]
      PROVE  Policy!PolicyNext
  <2>1. Subject(i) \in Keys
    BY DEF Subject, Keys
  <2>2. \E k \in Keys : Policy!Observe(a, i, k)
    BY <1>4, <1>6, <2>1 DEF Policy!Observe
  <2>. QED
    BY <2>2 DEF Policy!PolicyNext
<1>. QED
  BY <1>5, <1>6 DEF Sees

LEMMA RowsMeetPolicy ==
    ASSUME PolicyInv, Rows
    PROVE  Policy!PolicyNext \/ UNCHANGED Policy!policyVars
<1>1. Accused' = Accused /\ Target' = Target /\ Guarded' = Guarded /\ ip' = ip
  BY SameBooks DEF Rows, Books, Guarded
<1>2. row \in [Attempts -> {"none", "blocked", "unblocked"}]
  BY DEF PolicyInv, CoreInv, AttemptInv, TypeOK
<1>. SUFFICES ASSUME NEW a \in Attempts,
                     \/ /\ phase[a] = "reporting" /\ due' = due
                        /\ row' = [row EXCEPT ![a] = "blocked"]
                     \/ /\ a \in due /\ due' = due
                        /\ row' = [row EXCEPT ![a] = "unblocked"]
                     \/ /\ row[a] = "blocked" /\ row' = row
                        /\ due' = due \cup {a}
              PROVE  Policy!PolicyNext \/ UNCHANGED Policy!policyVars
  BY DEF Rows
<1>3. CASE phase[a] = "reporting" /\ due' = due /\ row' = [row EXCEPT ![a] = "blocked"]
  <2>1. row[a] = "none" /\ Evidence(a) /\ ip[a] # None /\ ip[a] \notin Whitelist
    BY <1>3, SeenAttempt DEF PolicyInv, CoreInv, AttemptInv, EvidenceInv, WhitelistInv, Convicted
  <2>2. Policy!Enter(a)
    BY <1>1, <1>3, <2>1 DEF Policy!Enter, Policy!Convicted, Accused, Target, Guarded
  <2>. QED
    BY <2>2 DEF Policy!PolicyNext
<1>4. CASE a \in due /\ due' = due /\ row' = [row EXCEPT ![a] = "unblocked"]
  <2>1. row[a] # "none"
    BY <1>4 DEF PolicyInv, CoreInv, AttemptInv
  <2>2. CASE row[a] = "blocked"
    <3>1. Policy!Lift(a)
      BY <1>1, <1>4, <2>2 DEF Policy!Lift, Accused, Target, Guarded
    <3>. QED
      BY <3>1 DEF Policy!PolicyNext
  <2>3. CASE row[a] = "unblocked"
    <3>1. row' = row
      BY <1>2, <1>4, <2>3
    <3>. QED
      BY <1>1, <1>4, <3>1 DEF Policy!policyVars, Accused, Target, Guarded
  <2>. QED
    BY <1>2, <2>1, <2>2, <2>3
<1>5. CASE row[a] = "blocked" /\ row' = row /\ due' = due \cup {a}
  <2>1. Policy!Age(a)
    BY <1>1, <1>5 DEF Policy!Age, Accused, Target, Guarded
  <2>. QED
    BY <2>1 DEF Policy!PolicyNext
<1>. QED
  BY <1>3, <1>4, <1>5

LEMMA RulesMeetPolicy ==
    ASSUME PolicyInv, Rules
    PROVE  Policy!PolicyNext \/ UNCHANGED Policy!policyVars
<1>1. Accused' = Accused /\ Target' = Target /\ UNCHANGED <<ip, row, due>>
  BY SameBooks DEF Rules, Books
<1>2. rules \in [Keys -> Nat]
  BY DEF PolicyInv, CoreInv, AttemptInv, TypeOK
<1>3. ASSUME NEW a \in Attempts, phase[a] = "notifying" \/ a \in inserting,
             rules' = [rules EXCEPT ![Subject(ip[a])] = @ + 1]
      PROVE  Policy!PolicyNext
  <2>1. ip[a] # None /\ Subject(ip[a]) \in Keys
    BY <1>3, SeenAttempt DEF PolicyInv, CoreInv, AttemptInv
  <2>2. Evidence(a) /\ ip[a] \notin Whitelist
    BY <1>3 DEF PolicyInv, EvidenceInv, BlockHasEvidence, Convicted, WhitelistInv,
                WhitelistRespected
  <2>3. Guarded' = Guarded \cup {Target[a]}
    BY <1>2, <1>3, <2>1 DEF Guarded, Target
  <2>4. Policy!Guard(a)
    BY <1>1, <2>1, <2>2, <2>3 DEF Policy!Guard, Policy!Convicted, Accused, Target, Guarded
  <2>. QED
    BY <2>4 DEF Policy!PolicyNext
<1>4. ASSUME NEW a \in Attempts, unblocking[a] + deleting[a] > 0, RemoveRule(a)
      PROVE  Policy!PolicyNext \/ UNCHANGED Policy!policyVars
  <2>1. a \in due
    BY <1>4 DEF PolicyInv, CoreInv, TaskInv, RemovalOnlyWhenDue
  <2>2. ip[a] # None /\ Subject(ip[a]) \in Keys
    BY <2>1, SeenAttempt DEF PolicyInv, CoreInv, AttemptInv
  <2>3. Guarded' = Guarded \/ Guarded' = Guarded \ {Target[a]}
    BY <1>2, <1>4, <2>2 DEF Guarded, Target, RemoveRule
  <2>4. CASE Guarded' = Guarded
    BY <1>1, <2>4 DEF Policy!policyVars, Accused, Target, Guarded
  <2>5. CASE Guarded' = Guarded \ {Target[a]}
    <3>1. Policy!Release(a)
      BY <1>1, <2>1, <2>5 DEF Policy!Release, Accused, Target, Guarded
    <3>. QED
      BY <3>1 DEF Policy!PolicyNext
  <2>. QED
    BY <2>3, <2>4, <2>5
<1>. QED
  BY <1>3, <1>4 DEF Rules

\* The service implements its policy: whatever fails, crashes or interleaves,
\* a row or a rule is made only against an accused address off the whitelist,
\* and is lifted only when the block is due.
THEOREM ServiceKeepsPolicy == Spec => KeepsPolicy
<1>1. Init => Policy!PolicyInit
  BY DEF Init, Policy!PolicyInit
<1>2. PolicyInv /\ [Next]_vars => [Policy!PolicyNext]_(Policy!policyVars)
  BY StepPolicyMove, SeesMeetsPolicy, RowsMeetPolicy, RulesMeetPolicy
     DEF PolicyInv, PolicyMove
<1>. QED
  BY <1>1, <1>2, PolicyInvariant, PTL DEF Spec, KeepsPolicy, Policy!PolicySpec

=============================================================================
