------------------------ MODULE ReliableServiceProofs ------------------------
(***************************************************************************)
(* Theorems about a CoreService whose calls succeed: for any number of     *)
(* attempts and addresses, any threshold, and whatever handlers, iptables  *)
(* processes and the activation of the unblock task do in between.         *)
(***************************************************************************)
EXTENDS CoreServiceProofs

\* Nothing fails, Api.gRPC is used, activations of the unblock task do not
\* overlap, and the core blocks ranges only beside a Windows plug-in whose own
\* file, unlike the one it is shipped with, says that its rules name ranges.
Reliable ==
    /\ Faults = {}
    /\ \A c \in Configs :
        /\ c.transport = "grpc"
        /\ c.blockIPRange => c.firewall = "windows" /\ c.ruleIPRange
    /\ \A t, u \in Tasks : t = u

\* What handlers do is done to the end.
BooksInv ==
    /\ config \in Configs
    /\ unnamed = {}
    /\ \A a \in Attempts :
        /\ phase[a] # "lost"
        /\ phase[a] \in {"counting", "reported"} => row[a] # "none"
        /\ phase[a] = "ignored" => ip[a] \in Whitelist

Judged == {"analyzing", "ignored", "suppressed", "reported"} \cup Convicted

\* Once the attempts of a source inside the window reach the threshold, there is
\* one that will count all of them, or that was blocked.
JudgedInv ==
    \A a \in recent : Cardinality(Matching(a, recent)) >= Threshold =>
        \E b \in Attempts : phase[b] \in Judged /\ SameSource(ip[b], ip[a])

Handed == {"reporting", "counting", "reported"}

Pending(a) == unblocking[a] + deleting[a]

\* A removal is asked for once per block, by the one activation that works on
\* it, and after the rule was inserted.
RemovalInv ==
    /\ \A a \in Attempts :
        /\ Pending(a) <= 1
        /\ Pending(a) > 0 => Signalled(a)
        /\ row[a] = "unblocked" => a \in due
        /\ a \in inserting => a \notin due
    /\ \A t \in Tasks :
        /\ \A a \in Attempts : a \in task[t].todo => row[a] = "blocked" /\ ~Signalled(a)
        /\ task[t].pc = "updating" => row[task[t].block] = "blocked"

----------------------------------------------------------------------------
\* The steps of a service whose calls succeed

LEMMA ReliableStep ==
    ASSUME Reliable, BooksInv, [Next]_vars
    PROVE  \/ \E a \in Attempts, i \in Ips, o \in BOOLEAN : RaiseAttempt(a, i, o)
           \/ \E a \in Attempts : Handle(a) \/ Enforce(a)
           \/ \E t \in Tasks : Unblock(t)
           \/ Restart \/ StartTimer \/ Elapse \/ UNCHANGED vars
<1>1. ASSUME NEW kind PROVE ~Strike(kind)
  BY DEF Strike, Reliable
<1>2. ~Refused
  BY <1>1 DEF Refused
<1>3. ASSUME NEW a \in Attempts PROVE ~HandleFails(a)
  <2>1. ~AddBlockUnnamed(a)
    BY DEF AddBlockUnnamed, Sendable, BooksInv
  <2>. QED
    BY <1>1, <1>2, <2>1 DEF HandleFails, AddLoginAttemptRefused, AddLoginAttemptThrows,
       AnalyzeAttemptThrows, NotifyBlockFails, NotifyBlockUnnamed, AddBlockRefused,
       AddBlockThrows, StatisticsUpdateRefused, StatisticsUpdateThrows
<1>4. ASSUME NEW a \in Attempts PROVE ~EnforceFails(a)
  BY <1>1 DEF EnforceFails, NotifyUnblockFails, InsertRuleFails, DeleteRuleFails
<1>5. ASSUME NEW t \in Tasks PROVE ~UnblockFails(t)
  BY <1>1, <1>2 DEF UnblockFails, GetUnblockRefused, GetUnblockThrows, UpdateBlockRefused,
     UpdateBlockThrows
<1>6. ~Crash /\ ~CollectTimer
  BY <1>1 DEF Crash, CollectTimer
<1>. QED
  BY <1>3, <1>4, <1>5, <1>6 DEF Next, Process

LEMMA StepBooksInv == Reliable /\ CoreInv /\ BooksInv /\ [Next]_vars => BooksInv'
<1>. SUFFICES ASSUME Reliable, CoreInv, BooksInv, [Next]_vars PROVE BooksInv'
  OBVIOUS
<1>0. TypeOK /\ \A a \in Attempts : a \in due => row[a] # "none"
  BY DEF CoreInv, AttemptInv
<1>. USE DEF BooksInv, processVars, attemptVars, databaseVars, firewallVars, unblockVars
<1>1. ASSUME NEW a \in Attempts, NEW i \in Ips, NEW o \in BOOLEAN, RaiseAttempt(a, i, o)
      PROVE  BooksInv'
  BY <1>0, <1>1 DEF RaiseAttempt, Proceed, TypeOK
<1>2. ASSUME NEW a \in Attempts, Handle(a) PROVE BooksInv'
  <2>1. CASE AddLoginAttempt(a) \/ NoApiHandler(a) \/ AnalyzeAttempt(a)
    BY <1>0, <2>1 DEF AddLoginAttempt, AfterRecording, NoApiHandler, AnalyzeAttempt, AnalyzeWith,
                      Proceed, TypeOK
  <2>2. CASE CheckLatestBlocks(a) \/ AddLatestBlock(a) \/ NotifyBlock(a)
    BY <1>0, <2>2 DEF CheckLatestBlocks, AddLatestBlock, NotifyBlock, Proceed, TypeOK
  <2>3. CASE AddBlock(a) \/ StatisticsUpdateBlocks(a)
    BY <1>0, <2>3 DEF AddBlock, StatisticsUpdateBlocks, Proceed, TypeOK
  <2>. QED
    BY <1>2, <2>1, <2>2, <2>3 DEF Handle
<1>3. ASSUME NEW a \in Attempts, Enforce(a) PROVE BooksInv'
  BY <1>3 DEF Enforce, NotifyUnblock, InsertRule, DeleteRule
<1>4. ASSUME NEW t \in Tasks, Unblock(t) PROVE BooksInv'
  <2>1. CASE UpdateBlock(t)
    BY <1>0, <2>1 DEF UpdateBlock, UpdateWith, TypeOK
  <2>2. CASE Tick(t) \/ GetUnblock(t) \/ \E a \in Attempts : SignalUnblock(t, a)
    BY <2>2 DEF Tick, GetUnblock, SignalUnblock
  <2>. QED
    BY <1>4, <2>1, <2>2 DEF Unblock
<1>5. CASE Restart \/ StartTimer \/ Elapse \/ UNCHANGED vars
  BY <1>5 DEF Restart, StartTimer, Elapse, AgeAttempt, BecomeDue, ExpireLatest, vars
<1>. QED
  BY <1>1, <1>2, <1>3, <1>4, <1>5, ReliableStep

----------------------------------------------------------------------------
\* The threshold

\* The source of an attempt is the same whichever of its attempts is asked.
LEMMA SameMatches ==
    ASSUME NEW a, NEW b, SameSource(ip[b], ip[a]), NEW S
    PROVE  Matching(a, S) = Matching(b, S)
BY DEF SameSource, Matching

LEMMA MatchesShrink ==
    ASSUME NEW a, NEW S \in SUBSET Attempts, NEW T \in SUBSET S,
           Cardinality(Matching(a, T)) >= Threshold
    PROVE  Cardinality(Matching(a, S)) >= Threshold
<1>1. Matching(a, T) \subseteq Matching(a, S) /\ Matching(a, S) \subseteq Attempts
  BY DEF Matching
<1>2. IsFiniteSet(Matching(a, S)) /\ IsFiniteSet(Matching(a, T))
  BY <1>1, AttemptsAssumption, FS_Subset
<1>3. /\ Cardinality(Matching(a, T)) <= Cardinality(Matching(a, S))
      /\ Cardinality(Matching(a, T)) \in Nat /\ Cardinality(Matching(a, S)) \in Nat
  BY <1>1, <1>2, FS_Subset, FS_CardinalityType
<1>. QED
  BY <1>3, ThresholdAssumption

\* Steps after which an attempt is counted by the same others.
LEMMA JudgedPersist ==
    ASSUME CoreInv, JudgedInv, recent' \subseteq recent, config' = config,
           \A b \in Attempts :
               /\ phase[b] # "idle" => ip'[b] = ip[b]
               /\ phase[b] \in Judged =>
                    \/ phase'[b] \in Judged
                    \/ ~(Cardinality(Matching(b, recent)) >= Threshold)
    PROVE  JudgedInv'
<1>. SUFFICES ASSUME NEW a \in recent', Cardinality(Matching(a, recent)') >= Threshold
              PROVE  \E b \in Attempts : phase'[b] \in Judged /\ SameSource(ip[b], ip[a])'
  BY DEF JudgedInv
<1>0. recent \subseteq Attempts /\ \A b \in recent : phase[b] # "idle" /\ ip'[b] = ip[b]
  BY DEF CoreInv, AttemptInv, TypeOK
<1>1. Matching(a, recent)' = Matching(a, recent')
  BY <1>0 DEF Matching, SameSource
<1>2. Cardinality(Matching(a, recent)) >= Threshold
  <2>1. a \in recent /\ recent \in SUBSET Attempts /\ recent' \in SUBSET recent
    BY <1>0
  <2>2. Cardinality(Matching(a, recent')) >= Threshold
    BY <1>1
  <2>3. ASSUME NEW T \in SUBSET recent, Cardinality(Matching(a, T)) >= Threshold
        PROVE  Cardinality(Matching(a, recent)) >= Threshold
    BY <2>1, <2>3, MatchesShrink
  <2>. QED
    BY <2>1, <2>2, <2>3
<1>3. PICK b \in Attempts : phase[b] \in Judged /\ SameSource(ip[b], ip[a])
  BY <1>0, <1>2 DEF JudgedInv
<1>4. Cardinality(Matching(b, recent)) >= Threshold
  BY <1>2, <1>3, SameMatches
<1>5. phase'[b] \in Judged /\ ip'[b] = ip[b] /\ ip'[a] = ip[a]
  BY <1>0, <1>3, <1>4 DEF Judged, Convicted
<1>. QED
  BY <1>3, <1>5 DEF SameSource

LEMMA StepJudgedInv ==
    Reliable /\ CoreInv /\ BooksInv /\ JudgedInv /\ [Next]_vars => JudgedInv'
<1>. SUFFICES ASSUME Reliable, CoreInv, BooksInv, JudgedInv, [Next]_vars PROVE JudgedInv'
  OBVIOUS
<1>0. TypeOK
  BY DEF CoreInv, AttemptInv
<1>. USE DEF processVars, attemptVars, databaseVars, firewallVars, unblockVars
<1>1. ASSUME NEW a \in Attempts, NEW i \in Ips, NEW o \in BOOLEAN, RaiseAttempt(a, i, o)
      PROVE  JudgedInv'
  <2>1. /\ recent' \subseteq recent /\ config' = config
        /\ \A b \in Attempts : b # a => phase'[b] = phase[b] /\ ip'[b] = ip[b]
        /\ phase[a] = "idle"
    BY <1>0, <1>1 DEF RaiseAttempt, Proceed, TypeOK
  <2>2. "idle" \notin Judged
    BY DEF Judged, Convicted
  <2>. QED
    BY <2>1, <2>2, JudgedPersist
<1>2. ASSUME NEW c \in Attempts, AddLoginAttempt(c) PROVE JudgedInv'
  <2>. SUFFICES ASSUME NEW a \in recent', Cardinality(Matching(a, recent)') >= Threshold
                PROVE  \E b \in Attempts : phase'[b] \in Judged /\ SameSource(ip[b], ip[a])'
    BY DEF JudgedInv
  <2>1. /\ recent' = recent \cup {c} /\ config' = config /\ ip' = ip
        /\ phase[c] = "recording" /\ phase'[c] \in {"blocking", "analyzing"}
        /\ \A b \in Attempts : b # c => phase'[b] = phase[b]
    BY <1>0, <1>2 DEF AddLoginAttempt, AfterRecording, Record, Proceed, TypeOK
  <2>2. CASE SameSource(ip[c], ip[a])
    BY <2>1, <2>2 DEF SameSource, Judged, Convicted
  <2>3. CASE ~SameSource(ip[c], ip[a])
    <3>1. Matching(a, recent)' = Matching(a, recent)
      BY <2>1, <2>3 DEF Matching, SameSource
    <3>2. a \in recent
      BY <2>1, <2>3 DEF SameSource
    <3>3. PICK b \in Attempts : phase[b] \in Judged /\ SameSource(ip[b], ip[a])
      BY <3>1, <3>2 DEF JudgedInv
    <3>4. phase'[b] \in Judged
      BY <2>1, <3>3 DEF Judged, Convicted
    <3>. QED
      BY <2>1, <3>3, <3>4 DEF SameSource
  <2>. QED
    BY <2>2, <2>3
<1>3. ASSUME NEW a \in Attempts, AnalyzeAttempt(a) PROVE JudgedInv'
  <2>1. /\ recent' = recent /\ config' = config /\ ip' = ip
        /\ \A b \in Attempts : b # a => phase'[b] = phase[b]
        /\ PreviousAttempts(a) >= Threshold => phase'[a] = "blocking"
    BY <1>0, <1>3 DEF AnalyzeAttempt, AnalyzeWith, Proceed, TypeOK
  <2>2. PreviousAttempts(a) = Cardinality(Matching(a, recent))
    BY DEF PreviousAttempts, BooksInv, Reliable
  <2>3. \A b \in Attempts : phase[b] \in Judged =>
            phase'[b] \in Judged \/ ~(Cardinality(Matching(b, recent)) >= Threshold)
    BY <2>1, <2>2 DEF Judged, Convicted
  <2>. QED
    BY <2>1, <2>3, JudgedPersist
<1>4. ASSUME NEW a \in Attempts, Handle(a), ~AddLoginAttempt(a), ~AnalyzeAttempt(a)
      PROVE  JudgedInv'
  <2>1. recent' = recent /\ config' = config /\ ip' = ip
    BY <1>4 DEF Handle, NoApiHandler, CheckLatestBlocks, AddLatestBlock, NotifyBlock, AddBlock,
                StatisticsUpdateBlocks
  <2>2. \A b \in Attempts : phase[b] \in Judged => phase'[b] \in Judged
    BY <1>0, <1>4 DEF Handle, NoApiHandler, CheckLatestBlocks, AddLatestBlock, NotifyBlock,
                AddBlock, StatisticsUpdateBlocks, Proceed, TypeOK, Judged, Convicted
  <2>. QED
    BY <2>1, <2>2, JudgedPersist
<1>5. CASE \/ \E a \in Attempts : Enforce(a)
           \/ \E t \in Tasks : Unblock(t)
           \/ Restart \/ StartTimer \/ Elapse \/ UNCHANGED vars
  <2>1. recent' \subseteq recent /\ config' = config /\ ip' = ip /\ phase' = phase
    BY <1>5 DEF Enforce, NotifyUnblock, InsertRule, DeleteRule, Unblock, Tick, GetUnblock,
       UpdateBlock, UpdateWith, SignalUnblock, Restart, StartTimer, Elapse, AgeAttempt,
       BecomeDue, ExpireLatest, vars
  <2>. QED
    BY <2>1, JudgedPersist
<1>. QED
  BY <1>1, <1>2, <1>3, <1>4, <1>5, ReliableStep

----------------------------------------------------------------------------
\* The ledger

\* The rule of the attempt is one of those in the firewall.
InForce(a) == Held(a) /\ a \notin inserting

Covering(k) == {a \in Attempts : InForce(a) /\ Subject(ip[a]) = k}

LEMMA LedgerCovers == RuleLedger <=> \A k \in Keys : rules[k] = Cardinality(Covering(k))
<1>1. \A k : {a \in Attempts : Held(a) /\ a \notin inserting /\ Subject(ip[a]) = k} = Covering(k)
  BY DEF Covering, InForce
<1>. QED
  BY <1>1, Zenon DEF RuleLedger

LEMMA CoveringFinite ==
    ASSUME NEW k
    PROVE  IsFiniteSet(Covering(k)) /\ Cardinality(Covering(k)) \in Nat
<1>1. Covering(k) \in SUBSET Attempts
  BY DEF Covering
<1>2. IsFiniteSet(Covering(k))
  BY <1>1, AttemptsAssumption, FS_Subset
<1>. QED
  BY <1>2, FS_CardinalityType

LEMMA LedgerStill ==
    ASSUME RuleLedger, rules' = rules, config' = config,
           \A a \in Attempts : InForce(a)' <=> InForce(a),
           \A a \in Attempts : InForce(a) => ip'[a] = ip[a]
    PROVE  RuleLedger'
<1>1. ASSUME NEW k \in Keys PROVE Covering(k)' = Covering(k)
  BY DEF Covering, Subject
<1>2. ASSUME NEW k \in Keys PROVE rules'[k] = Cardinality(Covering(k)')
  BY <1>1, LedgerCovers
<1>3. \A k \in Keys : rules'[k] = Cardinality(Covering(k)')
  BY <1>2
<1>. QED
  BY <1>3 DEF RuleLedger, Covering, InForce

\* A block is carried out.
LEMMA LedgerJoins ==
    ASSUME TypeOK, RuleLedger, config' = config, ip' = ip, NEW a \in Attempts,
           ~InForce(a), InForce(a)', \A b \in Attempts \ {a} : InForce(b)' <=> InForce(b),
           rules' = [rules EXCEPT ![Subject(ip[a])] = @ + 1]
    PROVE  RuleLedger'
<1>1. ASSUME NEW k \in Keys PROVE rules'[k] = Cardinality(Covering(k)')
  <2>0. rules[k] = Cardinality(Covering(k)) /\ IsFiniteSet(Covering(k)) /\ rules \in [Keys -> Nat]
    BY LedgerCovers, CoveringFinite DEF TypeOK
  <2>1. CASE k = Subject(ip[a])
    <3>1. Covering(k)' = Covering(k) \cup {a} /\ a \notin Covering(k)
      BY <2>1 DEF Covering, Subject
    <3>. QED
      BY <2>0, <2>1, <3>1, FS_AddElement
  <2>2. CASE k # Subject(ip[a])
    <3>1. Covering(k)' = Covering(k)
      BY <2>2 DEF Covering, Subject
    <3>. QED
      BY <2>0, <2>2, <3>1
  <2>. QED
    BY <2>1, <2>2
<1>2. \A k \in Keys : rules'[k] = Cardinality(Covering(k)')
  BY <1>1
<1>. QED
  BY <1>2 DEF RuleLedger, Covering, InForce

\* A block is lifted: its rule is there to be removed.
LEMMA LedgerLeaves ==
    ASSUME TypeOK, RuleLedger, config' = config, ip' = ip, NEW a \in Attempts, ip[a] \in Ips,
           InForce(a), ~InForce(a)', \A b \in Attempts \ {a} : InForce(b)' <=> InForce(b),
           RemoveRule(a), unnamed = {}
    PROVE  RuleLedger'
<1>0. Subject(ip[a]) \in Keys
  BY DEF Subject, Keys
<1>1. rules[Subject(ip[a])] > 0
  <2>. DEFINE s == Subject(ip[a])
  <2>1. a \in Covering(s)
    BY DEF Covering
  <2>2. rules[s] = Cardinality(Covering(s)) /\ IsFiniteSet(Covering(s))
    BY <1>0, LedgerCovers, CoveringFinite
  <2>. QED
    BY <2>1, <2>2, CoveringFinite, FS_EmptySet
<1>2. rules' = [rules EXCEPT ![Subject(ip[a])] = @ - 1]
  BY <1>1 DEF RemoveRule
<1>3. ASSUME NEW k \in Keys PROVE rules'[k] = Cardinality(Covering(k)')
  <2>0. rules[k] = Cardinality(Covering(k)) /\ IsFiniteSet(Covering(k)) /\ rules \in [Keys -> Nat]
    BY LedgerCovers, CoveringFinite DEF TypeOK
  <2>1. CASE k = Subject(ip[a])
    <3>1. Covering(k)' = Covering(k) \ {a} /\ a \in Covering(k)
      BY <2>1 DEF Covering, Subject
    <3>. QED
      BY <1>2, <2>0, <2>1, <3>1, FS_RemoveElement
  <2>2. CASE k # Subject(ip[a])
    <3>1. Covering(k)' = Covering(k)
      BY <2>2 DEF Covering, Subject
    <3>. QED
      BY <1>2, <2>0, <2>2, <3>1
  <2>. QED
    BY <2>1, <2>2
<1>4. \A k \in Keys : rules'[k] = Cardinality(Covering(k)')
  BY <1>3
<1>. QED
  BY <1>4 DEF RuleLedger, Covering, InForce

\* Steps that leave blocks, removals and rules alone.
LEMMA RemovalsStill ==
    ASSUME RemovalInv, RuleLedger,
           UNCHANGED <<config, row, task, unblocking, deleting, inserting, rules>>,
           due \subseteq due', \A a \in due' : a \in due \/ a \notin inserting,
           \A a \in Attempts :
               /\ phase'[a] \in Handed <=> phase[a] \in Handed
               /\ phase[a] \in Handed => ip'[a] = ip[a]
    PROVE  RemovalInv' /\ RuleLedger'
<1>1. RemovalInv'
  BY DEF RemovalInv, Pending, Signalled
<1>2. \A a \in Attempts : InForce(a)' <=> InForce(a)
  BY DEF InForce, Held, Signalled, Handed
<1>3. \A a \in Attempts : InForce(a) => ip'[a] = ip[a]
  BY DEF InForce, Held, Handed
<1>. QED
  BY <1>1, <1>2, <1>3, LedgerStill

\* What is due was handed to the firewall and counted.
LEMMA DueIsHanded ==
    ASSUME CoreInv, BooksInv, NEW a \in Attempts, a \in due
    PROVE  row[a] # "none" /\ phase[a] \in {"counting", "reported"} /\ ip[a] \in Ips
BY DEF CoreInv, AttemptInv, BooksInv

LEMMA NotifyBlockLedger ==
    ASSUME CoreInv, BooksInv, RemovalInv, RuleLedger, NEW a \in Attempts, NotifyBlock(a)
    PROVE  RemovalInv' /\ RuleLedger'
<1>. USE DEF processVars, attemptVars, databaseVars, firewallVars, unblockVars
<1>0. TypeOK
  BY DEF CoreInv, AttemptInv
<1>1. /\ phase[a] = "notifying" /\ phase' = [phase EXCEPT ![a] = "reporting"]
      /\ UNCHANGED <<config, ip, row, due, task, unblocking, deleting>>
  BY DEF NotifyBlock, Proceed
<1>2. a \notin inserting /\ row[a] = "none" /\ a \notin due
  BY <1>0, <1>1 DEF CoreInv, AttemptInv, TypeOK
<1>3. ~Signalled(a) /\ ~Signalled(a)'
  BY <1>1, <1>2 DEF Signalled, CoreInv, TaskInv
<1>4. \A b \in Attempts : Signalled(b)' <=> Signalled(b)
  BY <1>1 DEF Signalled
<1>5. ~InForce(a) /\ Held(a)'
  BY <1>0, <1>1, <1>3 DEF InForce, Held, TypeOK
<1>6. \A b \in Attempts \ {a} : Held(b)' <=> Held(b)
  BY <1>0, <1>1, <1>4 DEF Held, TypeOK
<1>7. inserting' \subseteq inserting \cup {a}
  BY DEF NotifyBlock
<1>8. RemovalInv'
  BY <1>1, <1>2, <1>4, <1>7 DEF RemovalInv, Pending
<1>9. \/ inserting' = inserting \cup {a} /\ rules' = rules
      \/ rules' = [rules EXCEPT ![Subject(ip[a])] = @ + 1] /\ inserting' = inserting
  BY Zenon DEF NotifyBlock
<1>10. CASE inserting' = inserting \cup {a} /\ rules' = rules
  <2>1. \A b \in Attempts : InForce(b)' <=> InForce(b)
    BY <1>5, <1>6, <1>10 DEF InForce
  <2>. QED
    BY <1>1, <1>8, <1>10, <2>1, LedgerStill
<1>11. CASE rules' = [rules EXCEPT ![Subject(ip[a])] = @ + 1] /\ inserting' = inserting
  <2>1. InForce(a)' /\ \A b \in Attempts \ {a} : InForce(b)' <=> InForce(b)
    BY <1>2, <1>5, <1>6, <1>11 DEF InForce
  <2>. QED
    BY <1>0, <1>1, <1>5, <1>8, <1>11, <2>1, LedgerJoins
<1>. QED
  BY <1>9, <1>10, <1>11

LEMMA AddBlockLedger ==
    ASSUME CoreInv, BooksInv, RemovalInv, RuleLedger, NEW a \in Attempts, AddBlock(a)
    PROVE  RemovalInv' /\ RuleLedger'
<1>. USE DEF processVars, attemptVars, databaseVars, firewallVars, unblockVars
<1>0. TypeOK
  BY DEF CoreInv, AttemptInv
<1>1. /\ phase[a] = "reporting" /\ phase' = [phase EXCEPT ![a] = "counting"]
      /\ row' = [row EXCEPT ![a] = "blocked"]
      /\ UNCHANGED <<config, ip, due, task, unblocking, deleting, inserting, rules>>
  BY DEF AddBlock, Proceed
<1>2. row[a] = "none" /\ a \notin due
  BY <1>0, <1>1 DEF CoreInv, AttemptInv, TypeOK
<1>3. \A b \in Attempts : Signalled(b)' <=> Signalled(b)
  BY <1>0, <1>1, <1>2 DEF Signalled, TypeOK
<1>4. RemovalInv'
  BY <1>0, <1>1, <1>2, <1>3 DEF RemovalInv, Pending, TypeOK
<1>5. \A b \in Attempts : InForce(b)' <=> InForce(b)
  BY <1>0, <1>1, <1>3 DEF InForce, Held, TypeOK
<1>. QED
  BY <1>1, <1>4, <1>5, LedgerStill

LEMMA InsertRuleLedger ==
    ASSUME CoreInv, BooksInv, RemovalInv, RuleLedger, NEW a \in Attempts, InsertRule(a)
    PROVE  RemovalInv' /\ RuleLedger'
<1>. USE DEF processVars, attemptVars, databaseVars, firewallVars, unblockVars
<1>0. TypeOK
  BY DEF CoreInv, AttemptInv
<1>1. /\ a \in inserting /\ inserting' = inserting \ {a}
      /\ rules' = [rules EXCEPT ![Subject(ip[a])] = @ + 1]
      /\ UNCHANGED <<config, phase, ip, row, due, task, unblocking, deleting>>
  BY DEF InsertRule
<1>2. \A b \in Attempts : (Signalled(b)' <=> Signalled(b)) /\ (Held(b)' <=> Held(b))
  BY <1>1 DEF Signalled, Held
<1>3. ~Signalled(a)
  BY <1>1 DEF RemovalInv, Signalled, CoreInv, TaskInv
<1>4. Held(a)
  BY <1>1, <1>3 DEF Held, CoreInv, AttemptInv, BooksInv
<1>5. ~InForce(a) /\ InForce(a)' /\ \A b \in Attempts \ {a} : InForce(b)' <=> InForce(b)
  BY <1>1, <1>2, <1>4 DEF InForce
<1>6. RemovalInv'
  BY <1>1, <1>2 DEF RemovalInv, Pending
<1>. QED
  BY <1>0, <1>1, <1>5, <1>6, LedgerJoins

\* The rule of a block that is being lifted goes, with the last of what is pending.
LEMMA RemovalLedger ==
    ASSUME CoreInv, BooksInv, RemovalInv, RuleLedger, NEW a \in Attempts, RemoveRule(a),
           UNCHANGED <<config, phase, ip, row, due, task, inserting>>,
           Pending(a) > 0, Pending(a)' = Pending(a) - 1,
           \A b \in Attempts \ {a} : Pending(b)' = Pending(b)
    PROVE  RemovalInv' /\ RuleLedger'
<1>0. TypeOK /\ Pending(a) \in Nat
  BY DEF CoreInv, AttemptInv, TypeOK, Pending
<1>1. Pending(a) = 1 /\ Pending(a)' = 0 /\ Signalled(a)
  BY <1>0 DEF RemovalInv
<1>2. a \in due
  BY DEF CoreInv, TaskInv, RemovalOnlyWhenDue, Pending
<1>3. phase[a] \in Handed /\ ip[a] \in Ips /\ a \notin inserting
  BY <1>2, DueIsHanded DEF RemovalInv, Handed
<1>4. \A b \in Attempts : Signalled(b)' <=> Signalled(b)
  BY DEF Signalled
<1>5. InForce(a)
  BY <1>1, <1>3 DEF InForce, Held, Handed, Pending
<1>6. ~InForce(a)'
  BY <1>1, <1>4 DEF InForce, Held, Pending
<1>7. \A b \in Attempts \ {a} : InForce(b)' <=> InForce(b)
  BY <1>4 DEF InForce, Held, Pending
<1>8. RemovalInv'
  <2>1. \A b \in Attempts : Pending(b)' <= 1 /\ (Pending(b)' > 0 => Signalled(b)')
    BY <1>1, <1>4 DEF RemovalInv
  <2>. QED
    BY <1>4, <2>1 DEF RemovalInv
<1>. QED
  BY <1>0, <1>3, <1>5, <1>6, <1>7, <1>8, LedgerLeaves DEF BooksInv

LEMMA EnforceLedger ==
    ASSUME CoreInv, BooksInv, RemovalInv, RuleLedger, NEW a \in Attempts, Enforce(a)
    PROVE  RemovalInv' /\ RuleLedger'
<1>. USE DEF processVars, attemptVars, databaseVars, firewallVars, unblockVars
<1>0. TypeOK
  BY DEF CoreInv, AttemptInv
<1>1. CASE NotifyUnblock(a)
  <2>1. /\ unblocking[a] > 0 /\ unblocking' = [unblocking EXCEPT ![a] = @ - 1]
        /\ UNCHANGED <<config, phase, ip, row, due, task, inserting>>
    BY <1>1 DEF NotifyUnblock
  <2>2. \/ deleting' = [deleting EXCEPT ![a] = @ + 1] /\ rules' = rules
        \/ RemoveRule(a) /\ deleting' = deleting
    BY <1>1, Zenon DEF NotifyUnblock
  <2>3. CASE deleting' = [deleting EXCEPT ![a] = @ + 1] /\ rules' = rules
    <3>1. \A b \in Attempts : Pending(b)' = Pending(b)
      BY <1>0, <2>1, <2>3 DEF Pending, TypeOK
    <3>2. \A b \in Attempts : Signalled(b)' <=> Signalled(b)
      BY <2>1 DEF Signalled
    <3>3. RemovalInv'
      BY <2>1, <3>1, <3>2 DEF RemovalInv
    <3>4. \A b \in Attempts : InForce(b)' <=> InForce(b)
      BY <2>1, <3>1, <3>2 DEF InForce, Held, Pending
    <3>. QED
      BY <2>1, <2>3, <3>3, <3>4, LedgerStill
  <2>4. CASE RemoveRule(a) /\ deleting' = deleting
    <3>1. Pending(a) > 0 /\ Pending(a)' = Pending(a) - 1
      BY <1>0, <2>1, <2>4 DEF Pending, TypeOK
    <3>2. \A b \in Attempts \ {a} : Pending(b)' = Pending(b)
      BY <1>0, <2>1, <2>4 DEF Pending, TypeOK
    <3>. QED
      BY <2>1, <2>4, <3>1, <3>2, RemovalLedger
  <2>. QED
    BY <2>2, <2>3, <2>4
<1>2. CASE InsertRule(a)
  BY <1>2, InsertRuleLedger
<1>3. CASE DeleteRule(a)
  <2>1. /\ deleting[a] > 0 /\ deleting' = [deleting EXCEPT ![a] = @ - 1] /\ RemoveRule(a)
        /\ UNCHANGED <<config, phase, ip, row, due, task, inserting, unblocking>>
    BY <1>3 DEF DeleteRule
  <2>2. Pending(a) > 0 /\ Pending(a)' = Pending(a) - 1
    BY <1>0, <2>1 DEF Pending, TypeOK
  <2>3. \A b \in Attempts \ {a} : Pending(b)' = Pending(b)
    BY <1>0, <2>1 DEF Pending, TypeOK
  <2>. QED
    BY <2>1, <2>2, <2>3, RemovalLedger
<1>. QED
  BY <1>1, <1>2, <1>3 DEF Enforce

LEMMA UnblockLedger ==
    ASSUME Reliable, CoreInv, BooksInv, RemovalInv, RuleLedger, NEW t \in Tasks, Unblock(t)
    PROVE  RemovalInv' /\ RuleLedger'
<1>. USE DEF processVars, attemptVars, databaseVars, firewallVars, unblockVars
<1>0. TypeOK /\ \A u \in Tasks : u = t
  BY DEF CoreInv, AttemptInv, Reliable
<1>1. /\ task[t].todo \subseteq due
      /\ \A a \in Attempts : a \in task[t].todo => row[a] = "blocked" /\ ~Signalled(a)
      /\ task[t].pc = "updating" => task[t].block \in due /\ row[task[t].block] = "blocked"
      /\ task \in [Tasks -> TaskType]
  BY <1>0 DEF CoreInv, TaskInv, RemovalInv, TypeOK
<1>2. \A a \in Attempts :
        Signalled(a) <=> row[a] = "unblocked" \/ (task[t].pc = "updating" /\ task[t].block = a)
  BY <1>0 DEF Signalled
<1>3. \A a \in Attempts :
        Signalled(a)' <=> row'[a] = "unblocked" \/ (task'[t].pc = "updating" /\ task'[t].block = a)
  BY <1>0 DEF Signalled
<1>4. ASSUME UNCHANGED <<config, phase, ip, due, inserting, rules>>,
             \A a \in Attempts :
                /\ Pending(a)' <= 1
                /\ Pending(a)' > 0 => Signalled(a)'
                /\ Held(a)' <=> Held(a)
                /\ row'[a] = "unblocked" => a \in due
                /\ a \in task'[t].todo => row'[a] = "blocked" /\ ~Signalled(a)',
             task'[t].pc = "updating" => row'[task'[t].block] = "blocked"
      PROVE  RemovalInv' /\ RuleLedger'
  <2>1. RemovalInv'
    BY <1>0, <1>4 DEF RemovalInv
  <2>2. \A a \in Attempts : InForce(a)' <=> InForce(a)
    BY <1>4 DEF InForce
  <2>. QED
    BY <1>4, <2>1, <2>2, LedgerStill
<1>5. ASSUME UNCHANGED <<config, phase, ip, row, due, unblocking, inserting, deleting, rules>>,
             task[t].pc # "updating", task'[t].pc # "updating",
             \A a \in Attempts : a \in task'[t].todo => row[a] = "blocked"
      PROVE  RemovalInv' /\ RuleLedger'
  <2>1. \A a \in Attempts : (Signalled(a)' <=> Signalled(a)) /\ Pending(a)' = Pending(a)
    BY <1>2, <1>3, <1>5 DEF Pending
  <2>2. \A a \in Attempts : Held(a)' <=> Held(a)
    BY <1>5, <2>1 DEF Held
  <2>3. \A a \in Attempts : a \in task'[t].todo => row'[a] = "blocked" /\ ~Signalled(a)'
    BY <1>3, <1>5
  <2>. QED
    BY <1>4, <1>5, <2>1, <2>2, <2>3 DEF RemovalInv
<1>6. CASE Tick(t)
  <2>1. /\ UNCHANGED <<config, phase, ip, row, due, unblocking, inserting, deleting, rules>>
        /\ task[t].pc = "idle" /\ task'[t].pc = "fetching" /\ task'[t].todo = {}
    BY <1>1, <1>6 DEF Tick, SetTask, TaskType
  <2>. QED
    BY <1>5, <2>1
<1>7. CASE GetUnblock(t)
  <2>1. /\ UNCHANGED <<config, phase, ip, row, due, unblocking, inserting, deleting, rules>>
        /\ task[t].pc = "fetching" /\ task'[t].pc # "updating"
        /\ task'[t].todo = {a \in due : row[a] = "blocked"}
    BY <1>1, <1>7 DEF GetUnblock, NextBlock, SetTask, TaskType
  <2>. QED
    BY <1>5, <2>1
<1>8. ASSUME NEW a \in Attempts, SignalUnblock(t, a) PROVE RemovalInv' /\ RuleLedger'
  <2>1. /\ UNCHANGED <<config, phase, ip, row, due, inserting, deleting, rules>>
        /\ task[t].pc = "signalling" /\ a \in task[t].todo
        /\ task'[t].pc = "updating" /\ task'[t].todo = task[t].todo \ {a} /\ task'[t].block = a
        /\ unblocking' = [unblocking EXCEPT ![a] = @ + 1]
    BY <1>1, <1>8 DEF SignalUnblock, SetTask, TaskType
  <2>2. row[a] = "blocked" /\ ~Signalled(a) /\ Signalled(a)'
    BY <1>1, <1>3, <2>1
  <2>3. \A b \in Attempts \ {a} : Signalled(b)' <=> Signalled(b)
    BY <1>2, <1>3, <2>1
  <2>4. /\ Pending(a)' = Pending(a) + 1 /\ Pending(a) \in Nat
        /\ \A b \in Attempts \ {a} : Pending(b)' = Pending(b)
    BY <1>0, <2>1 DEF Pending, TypeOK
  <2>5. Pending(a) = 0
    BY <2>2, <2>4 DEF RemovalInv
  <2>6. \A b \in Attempts : Pending(b)' <= 1 /\ (Pending(b)' > 0 => Signalled(b)')
    BY <2>2, <2>3, <2>4, <2>5 DEF RemovalInv
  <2>7. \A b \in Attempts : Held(b)' <=> Held(b)
    BY <2>1, <2>2, <2>3, <2>4, <2>5 DEF Held, Pending
  <2>8. \A b \in Attempts : b \in task'[t].todo => row'[b] = "blocked" /\ ~Signalled(b)'
    BY <1>1, <2>1, <2>3
  <2>. QED
    BY <1>4, <2>1, <2>2, <2>6, <2>7, <2>8 DEF RemovalInv
<1>9. CASE UpdateBlock(t)
  <2>. DEFINE b == task[t].block
  <2>1. /\ UNCHANGED <<config, phase, ip, due, unblocking, inserting, deleting, rules>>
        /\ task[t].pc = "updating" /\ row' = [row EXCEPT ![b] = "unblocked"]
        /\ task'[t].pc # "updating" /\ task'[t].todo = task[t].todo
    BY <1>1, <1>9 DEF UpdateBlock, UpdateWith, NextBlock, SetTask, TaskType
  <2>2. b \in Attempts /\ b \in due /\ Signalled(b)
    BY <1>0, <1>1, <1>2, <2>1 DEF TypeOK
  <2>3. row' \in [Attempts -> {"none", "blocked", "unblocked"}] /\ row'[b] = "unblocked"
        /\ \A a \in Attempts \ {b} : row'[a] = row[a]
    BY <1>0, <2>1, <2>2 DEF TypeOK
  <2>4. \A a \in Attempts : (Signalled(a)' <=> Signalled(a)) /\ Pending(a)' = Pending(a)
    BY <1>2, <1>3, <2>1, <2>2, <2>3 DEF Pending
  <2>5. \A a \in Attempts : Held(a)' <=> Held(a)
    BY <2>1, <2>4 DEF Held
  <2>6. \A a \in Attempts : a \in task'[t].todo => row'[a] = "blocked" /\ ~Signalled(a)'
    BY <1>1, <2>1, <2>2, <2>3, <2>4
  <2>7. \A a \in Attempts : row'[a] = "unblocked" => a \in due
    BY <2>2, <2>3 DEF RemovalInv
  <2>. QED
    BY <1>4, <2>1, <2>4, <2>5, <2>6, <2>7 DEF RemovalInv
<1>. QED
  BY <1>6, <1>7, <1>8, <1>9 DEF Unblock

LEMMA StepLedger ==
    Reliable /\ CoreInv /\ BooksInv /\ RemovalInv /\ RuleLedger /\ [Next]_vars
        => RemovalInv' /\ RuleLedger'
<1>. SUFFICES ASSUME Reliable, CoreInv, BooksInv, RemovalInv, RuleLedger, [Next]_vars
              PROVE  RemovalInv' /\ RuleLedger'
  OBVIOUS
<1>0. TypeOK
  BY DEF CoreInv, AttemptInv
<1>. USE DEF processVars, attemptVars, databaseVars, firewallVars, unblockVars
<1>1. ASSUME NEW a \in Attempts, NEW i \in Ips, NEW o \in BOOLEAN, RaiseAttempt(a, i, o)
      PROVE  RemovalInv' /\ RuleLedger'
  <2>1. /\ UNCHANGED <<config, row, due, task, unblocking, deleting, inserting, rules>>
        /\ phase[a] = "idle" /\ phase' = [phase EXCEPT ![a] = "recording"]
        /\ ip' = [ip EXCEPT ![a] = i]
    BY <1>1 DEF RaiseAttempt, Proceed
  <2>2. \A b \in Attempts :
            /\ phase'[b] \in Handed <=> phase[b] \in Handed
            /\ phase[b] \in Handed => ip'[b] = ip[b]
    BY <1>0, <2>1 DEF TypeOK, Handed
  <2>. QED
    BY <2>1, <2>2, RemovalsStill
<1>2. ASSUME NEW a \in Attempts, Handle(a), ~NotifyBlock(a), ~AddBlock(a)
      PROVE  RemovalInv' /\ RuleLedger'
  <2>1. /\ UNCHANGED <<config, ip, row, due, task, unblocking, deleting, inserting, rules>>
        /\ \A b \in Attempts \ {a} : phase'[b] = phase[b]
        /\ phase'[a] \in Handed <=> phase[a] \in Handed
    <3>1. CASE AddLoginAttempt(a) \/ NoApiHandler(a) \/ AnalyzeAttempt(a)
      BY <1>0, <3>1 DEF AddLoginAttempt, AfterRecording, NoApiHandler, AnalyzeAttempt,
                        AnalyzeWith, Proceed, TypeOK, Handed
    <3>2. CASE CheckLatestBlocks(a) \/ AddLatestBlock(a) \/ StatisticsUpdateBlocks(a)
      BY <1>0, <3>2 DEF CheckLatestBlocks, AddLatestBlock, StatisticsUpdateBlocks, Proceed,
                        TypeOK, Handed
    <3>. QED
      BY <1>2, <3>1, <3>2 DEF Handle
  <2>2. \A b \in Attempts : phase'[b] \in Handed <=> phase[b] \in Handed
    BY <2>1
  <2>. QED
    BY <2>1, <2>2, RemovalsStill
<1>3. CASE Restart \/ StartTimer \/ Elapse \/ UNCHANGED vars
  <2>1. /\ UNCHANGED <<config, phase, ip, row, task, unblocking, deleting, inserting, rules>>
        /\ due \subseteq due' /\ \A a \in due' : a \in due \/ a \notin inserting
    BY <1>3 DEF Restart, StartTimer, Elapse, AgeAttempt, BecomeDue, ExpireLatest, vars
  <2>. QED
    BY <2>1, RemovalsStill
<1>. QED
  BY <1>1, <1>2, <1>3, NotifyBlockLedger, AddBlockLedger, EnforceLedger, UnblockLedger,
     ReliableStep

----------------------------------------------------------------------------

ReliableInv == CoreInv /\ BooksInv /\ JudgedInv /\ RemovalInv /\ RuleLedger

LEMMA InitReliableInv == Init => ReliableInv
<1>. SUFFICES ASSUME Init PROVE ReliableInv
  OBVIOUS
<1>1. CoreInv
  BY InitCoreInv
<1>2. BooksInv /\ JudgedInv
  BY DEF Init, BooksInv, JudgedInv
<1>3. RemovalInv
  BY DEF Init, RemovalInv, Pending, Signalled, IdleTask
<1>4. RuleLedger
  <2>1. ASSUME NEW k \in Keys PROVE rules[k] = Cardinality(Covering(k))
    <3>1. Covering(k) = {}
      BY DEF Init, Covering, InForce, Held
    <3>. QED
      BY <3>1, FS_EmptySet DEF Init
  <2>. QED
    BY <2>1, LedgerCovers
<1>. QED
  BY <1>1, <1>2, <1>3, <1>4 DEF ReliableInv

LEMMA StepReliableInv == Reliable /\ ReliableInv /\ [Next]_vars => ReliableInv'
BY StepCoreInv, StepBooksInv, StepJudgedInv, StepLedger DEF ReliableInv

\* The inductive invariant of a service whose calls succeed: a source that has
\* reached the threshold is being judged, and each block holds its one rule.
THEOREM ReliableInvariant == Spec /\ Reliable => []ReliableInv
<1>1. Reliable /\ [Next]_vars => Reliable'
  BY DEF Reliable
<1>. QED
  BY <1>1, InitReliableInv, StepReliableInv, PTL DEF Spec

\* While calls succeed, the firewall agrees with the books of the core in every
\* state: NotifyPlugins adds and removes one rule per block, however the
\* handlers, the iptables processes and the unblock task interleave.
THEOREM LedgerBalances == Spec /\ Reliable => []RuleLedger
<1>1. ReliableInv => RuleLedger
  BY DEF ReliableInv
<1>. QED
  BY <1>1, ReliableInvariant, PTL

\* Once the handlers have ended, what suppressed an attempt has been reported.
LEMMA CauseIsBlocked ==
    ASSUME ReliableInv, SuppressionHasCause, Settled, NEW a \in Attempts,
           phase[a] = "suppressed"
    PROVE  \E b \in Attempts : row[b] # "none" /\ Key(ip[b]) = Key(ip[a])
<1>1. PICK b \in Attempts \ {a} :
          /\ Key(ip[b]) = Key(ip[a])
          /\ phase[b] \in {"notifying", "reporting", "counting", "reported", "lost"}
  BY DEF SuppressionHasCause
<1>2. phase[b] = "reported"
  BY <1>1 DEF Settled, Finished, ReliableInv, BooksInv
<1>. QED
  BY <1>1, <1>2 DEF ReliableInv, BooksInv

\* While calls succeed, and the core and the firewall plug-in are set to block the
\* same, an attempt that OnBlockEvent ignored as recently blocked is one whose
\* address, or range, got its own block.  The settings as shipped are not such
\* ones: core_range_suppressed shows what happens with them.
THEOREM SuppressionIsSound == Spec /\ Reliable => []SuppressedAreBlocked
<1>1. Reliable /\ ReliableInv /\ SuppressionHasCause => SuppressedAreBlocked
  <2>. SUFFICES ASSUME Reliable, ReliableInv, SuppressionHasCause, Settled,
                       NEW a \in Attempts, phase[a] = "suppressed"
                PROVE  \E b \in Attempts : row[b] # "none" /\ Subject(ip[b]) = Subject(ip[a])
    BY DEF SuppressedAreBlocked
  <2>1. PICK b \in Attempts : row[b] # "none" /\ Key(ip[b]) = Key(ip[a])
    BY CauseIsBlocked
  <2>2. config.blockIPRange => config.firewall = "windows" /\ config.ruleIPRange
    BY DEF Reliable, ReliableInv, BooksInv
  <2>. QED
    BY <2>1, <2>2 DEF Key, Subject
<1>2. Reliable /\ [Next]_vars => Reliable'
  BY DEF Reliable
<1>. QED
  BY <1>1, <1>2, ReliableInvariant, SuppressionsHaveCause, PTL DEF Spec

\* While calls succeed, Blocking:Attempts attempts of a source inside the window
\* end in a block of it: whichever of its concurrent handlers records last
\* counts them all, or finds the block made already.
THEOREM ThresholdHolds == Spec /\ Reliable => []ThresholdEnforced
<1>1. ReliableInv /\ SuppressionHasCause => ThresholdEnforced
  <2>. SUFFICES ASSUME ReliableInv, SuppressionHasCause, NEW a \in Attempts
                PROVE  LET source == {b \in Attempts :
                                          phase[b] # "idle" /\ SameSource(ip[b], ip[a])} IN
                       /\ phase[a] # "idle"
                       /\ Settled
                       /\ \A b \in source : b \in recent /\ ip[b] \notin Whitelist
                       /\ Cardinality(source) >= Threshold
                       => \E b \in source, c \in Attempts :
                              row[c] # "none" /\ Key(ip[c]) = Key(ip[b])
    BY DEF ThresholdEnforced
  <2>. DEFINE source == {b \in Attempts : phase[b] # "idle" /\ SameSource(ip[b], ip[a])}
  <2>. SUFFICES ASSUME phase[a] # "idle", Settled, Cardinality(source) >= Threshold,
                       \A b \in source : b \in recent /\ ip[b] \notin Whitelist
                PROVE  \E b \in source, c \in Attempts :
                           row[c] # "none" /\ Key(ip[c]) = Key(ip[b])
    OBVIOUS
  <2>1. a \in source
    BY DEF SameSource
  <2>2. Matching(a, recent) = source
    BY DEF Matching, ReliableInv, CoreInv, AttemptInv, TypeOK
  <2>3. PICK b \in Attempts : phase[b] \in Judged /\ SameSource(ip[b], ip[a])
    BY <2>1, <2>2 DEF ReliableInv, JudgedInv
  <2>4. phase[b] \in {"ignored", "suppressed", "reported"}
    BY <2>3 DEF Settled, Finished, Judged, Convicted
  <2>5. b \in source
    BY <2>3, <2>4
  <2>6. CASE phase[b] = "ignored"
    BY <2>5, <2>6 DEF ReliableInv, BooksInv
  <2>7. CASE phase[b] = "suppressed"
    BY <2>5, <2>7, CauseIsBlocked
  <2>8. CASE phase[b] = "reported"
    BY <2>5, <2>8 DEF ReliableInv, BooksInv
  <2>. QED
    BY <2>4, <2>6, <2>7, <2>8
<1>. QED
  BY <1>1, ReliableInvariant, SuppressionsHaveCause, PTL

\* While calls succeed, a block that is not yet due is in force once its
\* iptables process has ended: no removal belongs to another block.
THEOREM FreshBlocksHold == Spec /\ Reliable => []FreshBlockEnforced
<1>1. ReliableInv => FreshBlockEnforced
  <2>. SUFFICES ASSUME ReliableInv, NEW a \in Attempts,
                       row[a] = "blocked", a \notin due, a \notin inserting
                PROVE  rules[Subject(ip[a])] > 0
    BY DEF FreshBlockEnforced
  <2>. DEFINE s == Subject(ip[a])
  <2>1. phase[a] \in Handed /\ ip[a] \in Ips
    BY DEF ReliableInv, CoreInv, AttemptInv, BooksInv, Handed
  <2>2. ~Signalled(a)
    BY DEF Signalled, ReliableInv, CoreInv, TaskInv
  <2>3. s \in Keys /\ a \in Covering(s)
    BY <2>1, <2>2 DEF Subject, Keys, Covering, InForce, Held, Handed
  <2>4. rules[s] = Cardinality(Covering(s)) /\ Cardinality(Covering(s)) \in Nat
    BY <2>3, LedgerCovers, CoveringFinite DEF ReliableInv
  <2>. QED
    BY <2>3, <2>4, CoveringFinite, FS_EmptySet
<1>. QED
  BY <1>1, ReliableInvariant, PTL

=============================================================================
