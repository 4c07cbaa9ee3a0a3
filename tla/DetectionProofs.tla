-------------------------- MODULE DetectionProofs --------------------------
(***************************************************************************)
(* Theorems about Detection, for any plug-ins in any order and any number  *)
(* of events, starts and faults.                                           *)
(***************************************************************************)
EXTENDS Detection, SequenceTheorems, TLAPS

\* A sequence of events of S that p sees, each of them once.
Listed(q, S, p) ==
    /\ q \in Seq(S)
    /\ \A i, j \in 1..Len(q) : q[i] = q[j] => i = j
    /\ \A i \in 1..Len(q) : SourceOf[q[i]] = p

In(e, q) == \E i \in 1..Len(q) : q[i] = e

IsLog(p) == KindOf[p] = "linuxlog"

\* The attempts that one event may become.
Limit(e) == IF IsLog(SourceOf[e]) THEN starts ELSE 1

\* Whoever can still be told of an event has not been told of it in this start
\* of the core: a queue holds an event once, and a log is read again only after
\* the core died.
QueueInv ==
    \A p \in Plugins : Listed(written[p], happened, p) /\ Listed(queue[p], happened, p)

CountInv ==
    \A e \in Events :
        /\ e \notin happened => Counted(e) = 0
        /\ Counted(e) <= Limit(e)
        /\ In(e, queue[SourceOf[e]]) => Counted(e) < Limit(e)
        /\ IsLog(SourceOf[e]) /\ listener[SourceOf[e]] = "none" /\ core # "down"
            => Counted(e) < Limit(e)

\* A log is followed by a plug-in that has its handler.
LogInv ==
    /\ \A p \in Plugins : IsLog(p) =>
        /\ listener[p] # "none" => Registered(p)
        /\ queue[p] # << >> => listener[p] # "none"
    /\ LogLinesHandled

\* The core operates with every plug-in started, one of them an api.
RunningInv ==
    core = "running" => started = Len(Order) /\ \E p \in Plugins : KindOf[p] = "api"

DetectionInv == TypeOK /\ QueueInv /\ CountInv /\ LogInv /\ RunningInv

----------------------------------------------------------------------------
\* Sequences of events

LEMMA ListedShrinks ==
    ASSUME NEW S, NEW p, NEW q, Listed(q, S, p), q # << >>
    PROVE  /\ Listed(Tail(q), S, p)
           /\ Head(q) \in S /\ SourceOf[Head(q)] = p /\ In(Head(q), q)
           /\ ~In(Head(q), Tail(q))
           /\ \A e : In(e, Tail(q)) => In(e, q)
<1>1. q \in Seq(S) /\ Len(q) \in Nat /\ Len(q) # 0 /\ Head(q) = q[1] /\ 1 \in 1..Len(q)
  BY DEF Listed
<1>2. /\ Tail(q) \in Seq(S) /\ Head(q) \in S
      /\ \A i \in 1..Len(Tail(q)) :
            Tail(q)[i] = q[i + 1] /\ i + 1 \in 1..Len(q) /\ i + 1 # 1 /\ i \in Nat
  BY <1>1, HeadTailProperties
<1>3. ASSUME NEW i \in 1..Len(Tail(q)), NEW j \in 1..Len(Tail(q)), Tail(q)[i] = Tail(q)[j]
      PROVE  i = j
  BY <1>2, <1>3 DEF Listed
<1>. QED
  BY <1>1, <1>2, <1>3 DEF Listed, In

LEMMA ListedGrows ==
    ASSUME NEW S, NEW T, S \subseteq T, NEW p, NEW q, Listed(q, S, p)
    PROVE  Listed(q, T, p)
BY DEF Listed

LEMMA ListedAppends ==
    ASSUME NEW S, NEW p, NEW q, Listed(q, S, p), NEW e, e \notin S, SourceOf[e] = p
    PROVE  /\ Listed(Append(q, e), S \cup {e}, p)
           /\ \A f : In(f, Append(q, e)) => f = e \/ In(f, q)
<1>1. q \in Seq(S \cup {e}) /\ Len(q) \in Nat /\ \A i \in 1..Len(q) : q[i] # e
  BY DEF Listed
<1>2. /\ Append(q, e) \in Seq(S \cup {e}) /\ Len(Append(q, e)) = Len(q) + 1
      /\ \A i \in 1..Len(q) : Append(q, e)[i] = q[i]
      /\ Append(q, e)[Len(q) + 1] = e
  BY <1>1, AppendProperties
<1>3. \A i \in 1..(Len(q) + 1) : i \in 1..Len(q) \/ i = Len(q) + 1
  BY <1>1
<1>. QED
  BY <1>1, <1>2, <1>3 DEF Listed, In

\* The last lines of a list are such a list, of events it holds.
LEMMA ListedLasts ==
    ASSUME NEW S, NEW p, NEW q, Listed(q, S, p), NEW m \in Nat \ {0}
    PROVE  Listed(SubSeq(q, m, Len(q)), S, p)
<1>. DEFINE l == SubSeq(q, m, Len(q))
<1>1. q \in Seq(S) /\ Len(q) \in Nat /\ \A i \in m..Len(q) : q[i] \in S
  BY DEF Listed
<1>2. /\ l \in Seq(S) /\ Len(l) = IF m <= Len(q) THEN Len(q) - m + 1 ELSE 0
      /\ \A i \in 1..(Len(q) - m + 1) : l[i] = q[m + i - 1]
  BY <1>1, SubSeqProperties
<1>3. \A i \in 1..Len(l) : l[i] = q[m + i - 1] /\ m + i - 1 \in 1..Len(q) /\ i \in Nat
  BY <1>1, <1>2
<1>4. ASSUME NEW i \in 1..Len(l), NEW j \in 1..Len(l), l[i] = l[j]
      PROVE  i = j
  <2>1. m + i - 1 = m + j - 1
    BY <1>3, <1>4 DEF Listed
  <2>. QED
    BY <1>3, <2>1
<1>. QED
  BY <1>2, <1>3, <1>4 DEF Listed

LEMMA LastLinesListed ==
    ASSUME NEW p \in Plugins, Listed(written[p], happened, p)
    PROVE  Listed(LastLines(p), happened, p)
<1>1. Len(written[p]) \in Nat /\ Backlog \in Nat
  BY BoundsAssumption DEF Listed
<1>2. (IF Len(written[p]) > Backlog THEN Len(written[p]) - Backlog + 1 ELSE 1) \in Nat \ {0}
  BY <1>1
<1>. QED
  BY <1>2, ListedLasts DEF LastLines

----------------------------------------------------------------------------
\* Type correctness

LEMMA Constants ==
    /\ Len(Order) \in Nat /\ MaxFaults \in Nat /\ Backlog \in Nat
    /\ \A e \in Events : SourceOf[e] \in Plugins
BY PluginsAssumption, BoundsAssumption, EventsAssumption

LEMMA InitDetectionInv == Init => DetectionInv
<1>. SUFFICES ASSUME Init PROVE DetectionInv
  OBVIOUS
<1>1. TypeOK
  <2>1. configured \in BOOLEAN /\ ~configured
    BY Zenon DEF Init
  <2>. QED
    BY <2>1, Constants DEF Init, TypeOK
<1>2. QueueInv /\ LogInv /\ RunningInv
  BY DEF Init, QueueInv, Listed, LogInv, LogLinesHandled, RunningInv
<1>3. CountInv
  BY Constants DEF Init, CountInv, Counted, Limit, In
<1>. QED
  BY <1>1, <1>2, <1>3 DEF DetectionInv

LEMMA CoreDiesTypes == TypeOK /\ CoreDies /\ faults' \in 0..MaxFaults => TypeOK'
<1>. SUFFICES ASSUME TypeOK, CoreDies, faults' \in 0..MaxFaults PROVE TypeOK'
  OBVIOUS
<1>1. configured' \in BOOLEAN /\ ~configured'
  BY Zenon DEF CoreDies
<1>2. queue' \in [Plugins -> Seq(happened')]
  BY DEF CoreDies
<1>3. started' \in 0..Len(Order)
  BY Constants DEF CoreDies
<1>. QED
  BY <1>1, <1>2, <1>3 DEF TypeOK, CoreDies

LEMMA StartTypes ==
    TypeOK /\ (StartUp \/ ConfigureThrows \/ Restart) => TypeOK'
<1>. SUFFICES ASSUME TypeOK, StartUp \/ ConfigureThrows \/ Restart PROVE TypeOK'
  OBVIOUS
<1>. USE DEF sourceVars, attemptVars, startVars
<1>1. CASE Configure
  <2>1. configured' \in BOOLEAN
    BY <1>1, Zenon DEF Configure
  <2>. QED
    BY <1>1, <2>1, Constants DEF Configure, TypeOK
<1>2. CASE Register
  <2>1. configured' \in BOOLEAN /\ ~configured'
    BY <1>2, Zenon DEF Register
  <2>. QED
    BY <1>2, <2>1, Constants DEF Register, TypeOK
<1>3. CASE Ready
  BY <1>3 DEF Ready, ReadyAfter, TypeOK
<1>4. CASE ConfigureThrows
  <2>1. faults' \in 0..MaxFaults
    BY <1>4, Constants DEF ConfigureThrows, Strike, TypeOK
  <2>2. CASE CoreDies
    BY <2>1, <2>2, CoreDiesTypes
  <2>3. CASE ~CoreDies
    BY <1>4, <2>1, <2>3, Constants DEF ConfigureThrows, TypeOK
  <2>. QED
    BY <2>2, <2>3
<1>5. CASE Restart
  BY <1>5 DEF Restart, TypeOK
<1>. QED
  BY <1>1, <1>2, <1>3, <1>4, <1>5 DEF StartUp

LEMMA SourceTypes ==
    ASSUME TypeOK, QueueInv, NEW p \in Plugins,
           Listen(p) \/ ListenThrows(p) \/ ListenFails(p) \/ FollowerExits(p)
    PROVE  TypeOK'
<1>. USE DEF startVars, attemptVars
<1>1. CASE Listen(p)
  <2>1. LastLines(p) \in Seq(happened)
    BY LastLinesListed DEF QueueInv, Listed
  <2>2. queue' \in [Plugins -> Seq(happened)]
    BY <1>1, <2>1 DEF Listen, TypeOK
  <2>. QED
    BY <1>1, <2>2 DEF Listen, TypeOK
<1>2. CASE ListenThrows(p)
  BY <1>2, CoreDiesTypes, Constants DEF ListenThrows, Strike, TypeOK
<1>3. CASE ListenFails(p)
  BY <1>3, Constants DEF ListenFails, Strike, TypeOK
<1>4. CASE FollowerExits(p)
  BY <1>4, Constants DEF FollowerExits, Strike, TypeOK
<1>. QED
  BY <1>1, <1>2, <1>3, <1>4

\* The event a plug-in is told of next is one that happened, and one it sees.
LEMMA ToldOf ==
    ASSUME TypeOK, QueueInv, NEW p \in Plugins, queue[p] # << >>
    PROVE  /\ Told(p) \in happened /\ Told(p) \in Events /\ SourceOf[Told(p)] = p
           /\ In(Told(p), queue[p]) /\ ~In(Told(p), Tail(queue[p]))
BY ListedShrinks DEF QueueInv, Told, TypeOK

LEMMA AttemptTypes ==
    ASSUME TypeOK, QueueInv,
           (\E p \in Plugins : Analyze(p)) \/ (\E e \in Events : Deliver(e))
    PROVE  TypeOK'
<1>. USE DEF startVars, attemptVars, sourceVars
<1>1. ASSUME NEW p \in Plugins, Dequeue(p)
      PROVE  queue' \in [Plugins -> Seq(happened)]
  BY <1>1, HeadTailProperties DEF Dequeue, TypeOK
<1>2. ASSUME NEW p \in Plugins, Raise(p) PROVE TypeOK'
  <2>1. Told(p) \in happened /\ Told(p) \in Events
    BY <1>2, ToldOf DEF Raise, Dequeue
  <2>2. handling' \in [Events -> Nat] /\ unhandled' \subseteq happened
    <3>1. handling \in [Events -> Nat] /\ unhandled \subseteq happened
      BY DEF TypeOK
    <3>2. \/ handling' = [handling EXCEPT ![Told(p)] = @ + 1] /\ unhandled' = unhandled
          \/ handling' = handling /\ unhandled' = unhandled \cup {Told(p)}
      BY <1>2, Zenon DEF Raise
    <3>. QED
      BY <2>1, <3>1, <3>2
  <2>3. queue' \in [Plugins -> Seq(happened)]
    BY <1>1, <1>2 DEF Raise
  <2>. QED
    BY <1>2, <2>2, <2>3 DEF Raise, TypeOK
<1>3. ASSUME NEW p \in Plugins, RaiseThrows(p) PROVE TypeOK'
  <2>1. CASE CoreDies /\ faults' = faults
    BY <2>1, CoreDiesTypes DEF TypeOK
  <2>2. CASE /\ Dequeue(p)
             /\ UNCHANGED <<startVars, listener, happened, written, attemptVars, faults>>
    BY <1>1, <2>2 DEF TypeOK
  <2>. QED
    BY <1>3, <2>1, <2>2 DEF RaiseThrows
<1>4. ASSUME NEW e \in Events, Deliver(e) PROVE TypeOK'
  <2>1. handling' \in [Events -> Nat] /\ recorded' \in [Events -> Nat]
        /\ failed' \in [Events -> Nat]
    <3>1. /\ handling \in [Events -> Nat] /\ recorded \in [Events -> Nat]
          /\ failed \in [Events -> Nat]
      BY DEF TypeOK
    <3>2. /\ handling[e] > 0 /\ handling' = [handling EXCEPT ![e] = @ - 1]
          /\ \/ recorded' = [recorded EXCEPT ![e] = @ + 1] /\ failed' = failed
             \/ failed' = [failed EXCEPT ![e] = @ + 1] /\ recorded' = recorded
      BY <1>4, Zenon DEF Deliver, DeliverTo
    <3>. QED
      BY <3>1, <3>2
  <2>. QED
    BY <1>4, <2>1 DEF Deliver, DeliverTo, TypeOK
<1>. QED
  BY <1>2, <1>3, <1>4 DEF Analyze

LEMMA HappenTypes ==
    ASSUME TypeOK, QueueInv, NEW e \in Events, Happen(e)
    PROVE  TypeOK'
<1>1. SourceOf[e] \in Plugins /\ happened' = happened \cup {e} /\ happened' \subseteq Events
  BY Constants DEF Happen, TypeOK
<1>2. \A q \in Seq(happened) : q \in Seq(happened') /\ Append(q, e) \in Seq(happened')
  <2>1. \A q \in Seq(happened) : q \in Seq(happened')
    BY <1>1
  <2>2. e \in happened'
    BY <1>1
  <2>. QED
    BY <2>1, <2>2, AppendProperties
<1>3. written' \in [Plugins -> Seq(happened')]
  BY <1>1, <1>2 DEF Happen, TypeOK
<1>4. queue' \in [Plugins -> Seq(happened')]
  BY <1>1, <1>2 DEF Happen, TypeOK
<1>. QED
  BY <1>1, <1>3, <1>4 DEF Happen, TypeOK, startVars, attemptVars

LEMMA StepTypes == TypeOK /\ QueueInv /\ [Next]_vars => TypeOK'
<1>. SUFFICES ASSUME TypeOK, QueueInv, [Next]_vars PROVE TypeOK'
  OBVIOUS
<1>1. CASE UNCHANGED vars
  BY <1>1 DEF TypeOK, vars, startVars, sourceVars, attemptVars
<1>. QED
  BY <1>1, StartTypes, SourceTypes, AttemptTypes, HappenTypes DEF Next

----------------------------------------------------------------------------
\* What a step may do to the queues and to the attempts of an event, whichever
\* action takes it.

\* Nothing is told of that was told before, unless the lines of a log are read
\* by a plug-in that did not follow it yet.
QueueMove ==
    \/ /\ happened' = happened /\ written' = written
       /\ \A p \in Plugins :
            \/ queue'[p] = queue[p] /\ (listener'[p] # "none" \/ listener[p] = "none")
            \/ queue'[p] = << >>
            \/ /\ queue[p] # << >> /\ queue'[p] = Tail(queue[p])
               /\ listener'[p] = listener[p]
            \/ /\ IsLog(p) /\ core # "down" /\ listener[p] = "none"
               /\ queue'[p] = LastLines(p) /\ listener'[p] # "none"
    \/ \E e \in Events \ happened :
        /\ happened' = happened \cup {e} /\ listener' = listener
        /\ \A p \in Plugins :
            /\ \/ written'[p] = written[p]
               \/ p = SourceOf[e] /\ written'[p] = Append(written[p], e)
            /\ \/ queue'[p] = queue[p]
               \/ /\ p = SourceOf[e] /\ queue'[p] = Append(queue[p], e)
                  /\ listener[p] = "open"

\* A start of the core is one chance more for the lines of the logs, and a log
\* is not followed while the core is down, nor by a plug-in without a handler.
StartMove ==
    /\ \/ starts' = starts /\ (core = "down" => core' = "down")
       \/ starts' = starts + 1
    /\ \A p \in Plugins :
        \/ listener'[p] = listener[p] /\ (core' # "down" => core # "down" \/ starts' = starts + 1)
        \/ listener'[p] # "none" /\ (IsLog(p) => Registered(p) \/ listener[p] # "none")
        \/ listener'[p] = "none" /\ core' = "down" /\ queue'[p] = << >>
    /\ \A p \in Plugins : Registered(p) /\ listener'[p] # "none" => Registered(p)'
    /\ core' = "running" =>
        \/ core = "running" /\ started' = started
        \/ started' = Len(Order) /\ \E p \in Plugins : KindOf[p] = "api"

\* An attempt is made of the event at the head of a queue, and leaves it.
CountMove ==
    \A e \in Events :
        \/ Counted(e)' <= Counted(e)
        \/ /\ Counted(e)' = Counted(e) + 1 /\ starts' = starts /\ happened' = happened
           /\ In(e, queue[SourceOf[e]]) /\ ~In(e, queue'[SourceOf[e]])
           /\ listener' = listener /\ core' = core

DetectionSummary ==
    /\ QueueMove /\ StartMove /\ CountMove
    /\ \/ unhandled' = unhandled
       \/ \E e \in Events : unhandled' = unhandled \cup {e} /\ ~IsLog(SourceOf[e])

----------------------------------------------------------------------------

\* A step that leaves the attempts alone.
LEMMA SameCount ==
    ASSUME TypeOK, UNCHANGED <<handling, recorded, failed>>
    PROVE  CountMove
BY DEF TypeOK, CountMove, Counted

LEMMA CoreDiesSummary == TypeOK /\ CoreDies => DetectionSummary
<1>. SUFFICES ASSUME TypeOK, CoreDies PROVE DetectionSummary
  OBVIOUS
<1>1. CountMove
  BY DEF TypeOK, CoreDies, CountMove, Counted
<1>2. QueueMove /\ StartMove
  BY DEF CoreDies, QueueMove, StartMove
<1>. QED
  BY <1>1, <1>2 DEF CoreDies, DetectionSummary

LEMMA StartSummary ==
    TypeOK /\ (StartUp \/ ConfigureThrows \/ Restart) => DetectionSummary
<1>. SUFFICES ASSUME TypeOK, StartUp \/ ConfigureThrows \/ Restart, ~CoreDies
              PROVE  DetectionSummary
  BY CoreDiesSummary
<1>0. UNCHANGED <<sourceVars, attemptVars>>
  BY DEF StartUp, Configure, Register, Ready, ReadyAfter, ConfigureThrows, Restart
<1>1. CountMove /\ QueueMove /\ unhandled' = unhandled
  BY <1>0, SameCount DEF sourceVars, attemptVars, QueueMove
<1>2. StartMove
  <2>1. CASE Configure \/ ConfigureThrows \/ Restart
    BY <1>0, <2>1 DEF Configure, ConfigureThrows, Restart, StartMove, Registered,
                      sourceVars, TypeOK
  <2>2. CASE Register
    <3>1. \A p \in Plugins : Registered(p) => Registered(p)'
      BY <2>2, Constants DEF Register, Registered, TypeOK
    <3>. QED
      BY <1>0, <2>2, <3>1 DEF Register, StartMove, sourceVars, TypeOK
  <2>3. CASE Ready
    BY <1>0, <2>3, Constants DEF Ready, ReadyAfter, Registered, StartMove, sourceVars, TypeOK
  <2>. QED
    BY <2>1, <2>2, <2>3 DEF StartUp
<1>. QED
  BY <1>1, <1>2 DEF DetectionSummary

LEMMA SourceSummary ==
    ASSUME TypeOK, NEW p \in Plugins,
           Listen(p) \/ ListenThrows(p) \/ ListenFails(p) \/ FollowerExits(p)
    PROVE  DetectionSummary
<1>1. CASE ListenThrows(p)
  BY <1>1, CoreDiesSummary DEF ListenThrows
<1>2. CASE Listen(p) \/ ListenFails(p) \/ FollowerExits(p)
  <2>1. CountMove /\ unhandled' = unhandled
    BY <1>2, SameCount DEF Listen, ListenFails, FollowerExits, attemptVars
  <2>2. QueueMove
    BY <1>2 DEF Listen, ListenFails, FollowerExits, QueueMove, MayListen, IsLog, TypeOK
  <2>3. StartMove
    BY <1>2 DEF Listen, ListenFails, FollowerExits, StartMove, MayListen, IsLog, TypeOK,
                startVars, Registered
  <2>. QED
    BY <2>1, <2>2, <2>3 DEF DetectionSummary
<1>. QED
  BY <1>1, <1>2

LEMMA HappenSummary ==
    ASSUME TypeOK, NEW e \in Events, Happen(e)
    PROVE  DetectionSummary
<1>1. CountMove /\ unhandled' = unhandled
  BY SameCount DEF Happen, attemptVars
<1>2. QueueMove
  BY DEF Happen, QueueMove, TypeOK
<1>3. StartMove
  BY DEF Happen, StartMove, startVars, Registered
<1>. QED
  BY <1>1, <1>2, <1>3 DEF DetectionSummary

\* A plug-in that is told of the next event in its queue.
LEMMA DequeueMove ==
    ASSUME TypeOK, NEW p \in Plugins, Dequeue(p),
           UNCHANGED <<startVars, listener, happened, written>>
    PROVE  QueueMove /\ StartMove
<1>1. \A q \in Plugins : queue'[q] = IF q = p THEN Tail(queue[q]) ELSE queue[q]
  BY DEF Dequeue, TypeOK
<1>2. queue[p] # << >>
  BY DEF Dequeue
<1>3. QueueMove
  BY <1>1, <1>2 DEF QueueMove
<1>4. StartMove
  BY DEF StartMove, startVars, Registered
<1>. QED
  BY <1>3, <1>4

LEMMA RaiseSummary ==
    ASSUME TypeOK, QueueInv, LogInv, NEW p \in Plugins, Analyze(p)
    PROVE  DetectionSummary
<1>1. CASE CoreDies
  BY <1>1, CoreDiesSummary
<1>2. CASE /\ Dequeue(p)
           /\ UNCHANGED <<startVars, listener, happened, written, attemptVars, faults>>
  BY <1>2, DequeueMove, SameCount DEF attemptVars, DetectionSummary
<1>3. CASE Raise(p)
  <2>. DEFINE t == Told(p)
  <2>0. Dequeue(p) /\ UNCHANGED <<startVars, listener, happened, written, recorded, failed>>
    BY <1>3 DEF Raise
  <2>1. t \in Events /\ SourceOf[t] = p /\ In(t, queue[p]) /\ ~In(t, Tail(queue[p]))
        /\ queue[p] # << >>
    BY <2>0, ToldOf DEF Dequeue
  <2>2. queue'[p] = Tail(queue[p])
    BY <2>0 DEF Dequeue, TypeOK
  <2>3. \/ handling' = [handling EXCEPT ![t] = @ + 1] /\ unhandled' = unhandled
        \/ ~Registered(p) /\ handling' = handling /\ unhandled' = unhandled \cup {t}
    BY <1>3, Zenon DEF Raise
  <2>4. CountMove
    <3>1. CASE handling' = handling
      BY <2>0, <3>1, SameCount
    <3>2. CASE handling' = [handling EXCEPT ![t] = @ + 1]
      <4>. SUFFICES ASSUME NEW e \in Events
                    PROVE  \/ Counted(e)' <= Counted(e)
                           \/ /\ Counted(e)' = Counted(e) + 1 /\ starts' = starts
                              /\ happened' = happened
                              /\ In(e, queue[SourceOf[e]]) /\ ~In(e, queue'[SourceOf[e]])
                              /\ listener' = listener /\ core' = core
        BY DEF CountMove
      <4>. HIDE DEF t
      <4>0. handling[e] \in Nat /\ recorded[e] \in Nat /\ failed[e] \in Nat
            /\ recorded' = recorded /\ failed' = failed
        BY <2>0 DEF TypeOK
      <4>1. CASE e = t
        <5>1. handling'[e] = handling[e] + 1
          BY <3>2, <4>1 DEF TypeOK
        <5>2. Counted(e)' = Counted(e) + 1
          BY <4>0, <5>1 DEF Counted
        <5>. QED
          BY <2>0, <2>1, <2>2, <4>1, <5>2 DEF startVars
      <4>2. CASE e # t
        <5>1. handling'[e] = handling[e]
          BY <3>2, <4>2 DEF TypeOK
        <5>. QED
          BY <4>0, <5>1 DEF Counted
      <4>. QED
        BY <4>1, <4>2
    <3>. QED
      BY <2>3, <3>1, <3>2
  <2>5. ~Registered(p) => ~IsLog(SourceOf[t])
    BY <2>1 DEF LogInv
  <2>6. QueueMove /\ StartMove
    BY <2>0, DequeueMove
  <2>. HIDE DEF t
  <2>. QED
    BY <2>1, <2>3, <2>4, <2>5, <2>6 DEF DetectionSummary
<1>. QED
  BY <1>1, <1>2, <1>3 DEF Analyze, RaiseThrows

LEMMA DeliverSummary ==
    ASSUME TypeOK, NEW e \in Events, Deliver(e)
    PROVE  DetectionSummary
<1>1. /\ handling[e] > 0 /\ handling' = [handling EXCEPT ![e] = @ - 1]
      /\ \/ recorded' = [recorded EXCEPT ![e] = @ + 1] /\ failed' = failed
         \/ failed' = [failed EXCEPT ![e] = @ + 1] /\ recorded' = recorded
      /\ UNCHANGED <<startVars, sourceVars, unhandled>>
  BY Zenon DEF Deliver, DeliverTo
<1>2. CountMove
  <2>. SUFFICES ASSUME NEW f \in Events PROVE Counted(f)' <= Counted(f)
    BY DEF CountMove
  <2>1. /\ handling[f] \in Nat /\ recorded[f] \in Nat /\ failed[f] \in Nat
        /\ handling \in [Events -> Nat] /\ recorded \in [Events -> Nat]
        /\ failed \in [Events -> Nat]
    BY DEF TypeOK
  <2>2. CASE f = e
    <3>1. handling'[f] = handling[f] - 1
      BY <1>1, <2>1, <2>2
    <3>2. \/ recorded'[f] = recorded[f] + 1 /\ failed'[f] = failed[f]
          \/ recorded'[f] = recorded[f] /\ failed'[f] = failed[f] + 1
      BY <1>1, <2>1, <2>2
    <3>. QED
      BY <2>1, <3>1, <3>2 DEF Counted
  <2>3. CASE f # e
    <3>1. handling'[f] = handling[f] /\ recorded'[f] = recorded[f] /\ failed'[f] = failed[f]
      BY <1>1, <2>1, <2>3
    <3>. QED
      BY <2>1, <3>1 DEF Counted
  <2>. QED
    BY <2>2, <2>3
<1>3. QueueMove /\ StartMove
  BY <1>1 DEF QueueMove, StartMove, startVars, sourceVars, Registered
<1>. QED
  BY <1>1, <1>2, <1>3 DEF DetectionSummary

LEMMA StepSummary == DetectionInv /\ [Next]_vars => DetectionSummary
<1>. SUFFICES ASSUME DetectionInv, [Next]_vars PROVE DetectionSummary
  OBVIOUS
<1>1. CASE UNCHANGED vars
  <2>1. CountMove
    BY <1>1, SameCount DEF vars, attemptVars, DetectionInv
  <2>. QED
    BY <1>1, <2>1 DEF vars, startVars, sourceVars, attemptVars, DetectionSummary,
                      QueueMove, StartMove, Registered
<1>. QED
  BY <1>1, StartSummary, SourceSummary, HappenSummary, RaiseSummary, DeliverSummary
     DEF Next, DetectionInv

----------------------------------------------------------------------------
\* The invariant

LEMMA StepQueueInv ==
    ASSUME TypeOK, QueueInv, QueueMove
    PROVE  QueueInv'
<1>. SUFFICES ASSUME NEW p \in Plugins
              PROVE  Listed(written'[p], happened', p) /\ Listed(queue'[p], happened', p)
  BY DEF QueueInv
<1>0. Listed(written[p], happened, p) /\ Listed(queue[p], happened, p)
  BY DEF QueueInv
<1>1. CASE /\ happened' = happened /\ written' = written
           /\ \/ queue'[p] = queue[p] \/ queue'[p] = << >>
              \/ queue[p] # << >> /\ queue'[p] = Tail(queue[p])
              \/ queue'[p] = LastLines(p)
  <2>1. Listed(<< >>, happened, p)
    BY DEF Listed
  <2>. QED
    BY <1>0, <1>1, <2>1, ListedShrinks, LastLinesListed
<1>2. ASSUME NEW e \in Events \ happened, happened' = happened \cup {e},
             \/ written'[p] = written[p]
             \/ p = SourceOf[e] /\ written'[p] = Append(written[p], e),
             \/ queue'[p] = queue[p]
             \/ p = SourceOf[e] /\ queue'[p] = Append(queue[p], e)
      PROVE  Listed(written'[p], happened', p) /\ Listed(queue'[p], happened', p)
  <2>1. \A q : Listed(q, happened, p) =>
            /\ Listed(q, happened \cup {e}, p)
            /\ p = SourceOf[e] => Listed(Append(q, e), happened \cup {e}, p)
    BY <1>2, ListedGrows, ListedAppends
  <2>. QED
    BY <1>0, <1>2, <2>1
<1>. QED
  BY <1>1, <1>2 DEF QueueMove

LEMMA StepLogInv ==
    ASSUME DetectionInv, DetectionSummary
    PROVE  LogInv' /\ RunningInv'
<1>1. ASSUME NEW p \in Plugins, IsLog(p), listener'[p] # "none"
      PROVE  Registered(p)'
  BY <1>1 DEF DetectionInv, DetectionSummary, StartMove, LogInv
<1>2. ASSUME NEW p \in Plugins, IsLog(p), queue'[p] # << >>
      PROVE  listener'[p] # "none"
  <2>1. CASE happened' = happened
    <3>1. queue[p] # << >> => listener[p] # "none"
      BY <1>2 DEF DetectionInv, LogInv
    <3>2. \A e \in Events \ happened : happened' # happened \cup {e}
      BY <2>1
    <3>. QED
      BY <1>2, <2>1, <3>1, <3>2 DEF DetectionSummary, QueueMove
  <2>2. ASSUME NEW e \in Events, listener' = listener,
               queue'[p] = queue[p] \/ listener[p] = "open"
        PROVE  listener'[p] # "none"
    BY <1>2, <2>2 DEF DetectionInv, LogInv
  <2>. QED
    BY <1>2, <2>1, <2>2 DEF DetectionSummary, QueueMove
<1>3. LogLinesHandled'
  BY DEF DetectionInv, DetectionSummary, LogInv, LogLinesHandled, IsLog
<1>4. RunningInv'
  BY DEF DetectionInv, DetectionSummary, StartMove, RunningInv
<1>. QED
  BY <1>1, <1>2, <1>3, <1>4 DEF LogInv

LEMMA StepCountInv ==
    ASSUME DetectionInv, DetectionSummary, TypeOK'
    PROVE  CountInv'
<1>. SUFFICES ASSUME NEW e \in Events
              PROVE  /\ e \notin happened' => Counted(e)' = 0
                     /\ Counted(e)' <= Limit(e)'
                     /\ In(e, queue'[SourceOf[e]]) => Counted(e)' < Limit(e)'
                     /\ IsLog(SourceOf[e]) /\ listener'[SourceOf[e]] = "none" /\ core' # "down"
                            => Counted(e)' < Limit(e)'
  BY DEF CountInv
<1>. DEFINE p == SourceOf[e]
<1>0. /\ p \in Plugins
      /\ Counted(e) \in Nat /\ Counted(e)' \in Nat
      /\ starts \in Nat \ {0} /\ starts' \in Nat \ {0}
      /\ Limit(e) = IF IsLog(p) THEN starts ELSE 1
      /\ Limit(e)' = IF IsLog(p) THEN starts' ELSE 1
      /\ happened \subseteq happened'
  <2>1. p \in Plugins
    BY Constants
  <2>2. Counted(e) \in Nat /\ starts \in Nat \ {0}
    BY DEF DetectionInv, TypeOK, Counted
  <2>3. Counted(e)' \in Nat /\ starts' \in Nat \ {0}
    BY DEF TypeOK, Counted
  <2>4. happened \subseteq happened'
    BY DEF DetectionSummary, QueueMove
  <2>. QED
    BY <2>1, <2>2, <2>3, <2>4 DEF Limit
<1>1. /\ e \notin happened => Counted(e) = 0
      /\ Counted(e) <= Limit(e)
      /\ In(e, queue[p]) => Counted(e) < Limit(e)
      /\ IsLog(p) /\ listener[p] = "none" /\ core # "down" => Counted(e) < Limit(e)
      /\ Listed(queue[p], happened, p) /\ Listed(written[p], happened, p)
  BY <1>0 DEF DetectionInv, CountInv, QueueInv
<1>2. \/ starts' = starts /\ (core = "down" => core' = "down")
      \/ starts' = starts + 1
  BY DEF DetectionSummary, StartMove
<1>3. /\ ~In(e, << >>)
      /\ queue[p] # << >> => (In(e, Tail(queue[p])) => In(e, queue[p]))
  BY <1>1, ListedShrinks DEF In
<1>4. In(e, queue'[p]) =>
            \/ In(e, queue[p]) \/ e \notin happened
            \/ IsLog(p) /\ core # "down" /\ listener[p] = "none"
  <2>1. ASSUME NEW f \in Events \ happened, queue'[p] = Append(queue[p], f), SourceOf[f] = p,
               In(e, queue'[p])
        PROVE  In(e, queue[p]) \/ e \notin happened
    BY <1>1, <2>1, ListedAppends
  <2>. QED
    BY <1>0, <1>3, <2>1 DEF DetectionSummary, QueueMove
<1>5. IsLog(p) /\ listener'[p] = "none" /\ core' # "down" =>
            (listener[p] = "none" /\ core # "down") \/ starts' = starts + 1
  BY <1>0 DEF DetectionSummary, StartMove
<1>. HIDE DEF p
<1>6. CASE Counted(e)' <= Counted(e)
  BY <1>0, <1>1, <1>2, <1>4, <1>5, <1>6 DEF p
<1>7. CASE /\ Counted(e)' = Counted(e) + 1 /\ starts' = starts /\ happened' = happened
           /\ In(e, queue[p]) /\ ~In(e, queue'[p])
           /\ listener' = listener /\ core' = core
  <2>1. Counted(e)' <= Limit(e)' /\ e \in happened
    BY <1>0, <1>1, <1>7 DEF Listed, In
  <2>2. ~(IsLog(p) /\ listener[p] = "none")
    BY <1>0, <1>1, <1>7 DEF DetectionInv, LogInv, In, Listed
  <2>. QED
    BY <1>7, <2>1, <2>2 DEF p
<1>. QED
  BY <1>6, <1>7 DEF DetectionSummary, CountMove, p

\* The inductive invariant of start-up and detection, in whatever order the
\* plug-ins are configured, listen, raise attempts and fail.
THEOREM DetectionInvariant == Spec => []DetectionInv
<1>1. DetectionInv /\ [Next]_vars => DetectionInv'
  <2>. SUFFICES ASSUME DetectionInv, [Next]_vars PROVE DetectionInv'
    OBVIOUS
  <2>1. TypeOK' /\ DetectionSummary
    BY StepTypes, StepSummary DEF DetectionInv
  <2>2. QueueInv'
    BY <2>1, StepQueueInv DEF DetectionInv, DetectionSummary
  <2>. QED
    BY <2>1, <2>2, StepLogInv, StepCountInv DEF DetectionInv
<1>. QED
  BY <1>1, InitDetectionInv, PTL DEF Spec

\* The core and its plug-ins stay well typed, and a plug-in is told only of
\* events that happened.
THEOREM DetectionTypes == Spec => []TypeOK
<1>1. DetectionInv => TypeOK
  BY DEF DetectionInv
<1>. QED
  BY <1>1, DetectionInvariant, PTL

\* No event becomes more than one attempt, but a line of a log, which may
\* become one for every start of the core, whatever the backlog of `tail`.
THEOREM EventsCountedOnce == Spec => []CountedOnce
<1>1. DetectionInv => CountedOnce
  BY DEF DetectionInv, CountInv, CountedOnce, Limit, IsLog
<1>. QED
  BY <1>1, DetectionInvariant, PTL

\* No line of a log is read before the plug-in has its handler, in whatever
\* order the plug-ins are started.
THEOREM LogLinesAreHandled == Spec => []LogLinesHandled
<1>1. DetectionInv => LogLinesHandled
  BY DEF DetectionInv, LogInv
<1>. QED
  BY <1>1, DetectionInvariant, PTL

\* While the core operates, an attempt finds an api handler.
THEOREM OperatingCoreHasApi == Spec => OperatingHasApi
<1>1. DetectionInv /\ [Next]_vars =>
        [\A e \in Events : failed'[e] > failed[e] => core # "running"]_vars
  <2>. SUFFICES ASSUME DetectionInv, Next, NEW e \in Events, failed'[e] > failed[e]
                PROVE  core # "running"
    BY DEF vars, attemptVars
  <2>1. CASE failed' = failed
    BY <2>1 DEF DetectionInv, TypeOK
  <2>2. ASSUME NEW f \in Events, Deliver(f), failed' # failed PROVE core # "running"
    <3>1. ~ApiHandler
      BY <2>2, Zenon DEF Deliver, DeliverTo
    <3>2. ASSUME core = "running" PROVE ApiHandler
      <4>1. started = Len(Order) /\ \E p \in Plugins : KindOf[p] = "api"
        BY <3>2 DEF DetectionInv, RunningInv
      <4>. QED
        BY <4>1, PluginsAssumption DEF ApiHandler, Configured, Plugins, ToSet
    <3>. QED
      BY <3>1, <3>2
  <2>. QED
    BY <2>1, <2>2 DEF Next, StartUp, Configure, Register, Ready, ReadyAfter, ConfigureThrows,
         Restart, Listen, ListenThrows, ListenFails, FollowerExits, Analyze, Raise, RaiseThrows,
         CoreDies, Happen, attemptVars
<1>. QED
  BY <1>1, DetectionInvariant, PTL DEF Spec, OperatingHasApi

=============================================================================
