----------------------------- MODULE Detection -----------------------------
(***************************************************************************)
(* Where access attempts come from: the start-up of the plug-ins of        *)
(* SP.Core, the detection plug-ins that listen meanwhile, and the path of  *)
(* an event from its source to the api.                                    *)
(*                                                                         *)
(* ExecuteAsync starts one plug-in after the other.  Honeypot, EventMonitor *)
(* and IISMonitor listen from Configure on, before they have a handler;    *)
(* LogMonitor starts to follow its log after it got one.  CoreService      *)
(* models what happens to an attempt afterwards.                           *)
(***************************************************************************)
EXTENDS Integers, SequencesExt

CONSTANTS
    Order,      \* the plug-ins in the order they are started
    KindOf,     \* "honeypot", "iis", "eventmonitor", "linuxlog" or "api"
    Events,     \* connections, requests and log entries the filters let pass
    SourceOf,   \* the plug-in that sees an event
    Malformed,  \* events whose address is no dotted quad
    Backlog,    \* lines `tail -f` prints when it starts
    MaxFaults   \* bound on the faults in a behaviour

Plugins == ToSet(Order)
Kinds == {"honeypot", "iis", "eventmonitor", "linuxlog", "api"}

ASSUME PluginsAssumption ==
    Order \in Seq(Plugins) /\ IsInjective(Order) /\ KindOf \in [Plugins -> Kinds]
ASSUME EventsAssumption == SourceOf \in [Events -> Plugins] /\ IsFiniteSet(Events)
ASSUME BoundsAssumption == Backlog \in Nat /\ MaxFaults \in Nat

\* The honeypot listens on IPv4 only, and the shipped expressions for logs
\* match dotted quads.
ASSUME MalformedAssumption ==
    \A e \in Malformed : KindOf[SourceOf[e]] \in {"iis", "eventmonitor"}

VARIABLES
    core,        \* "down", "starting", "running", or "stalled": ExecuteAsync has
                 \* ended early, but the plug-ins it started are at work
    started,     \* how many plug-ins have their handlers
    configured,  \* Configure of the next one has returned
    listener,    \* "none", "open" or "closed" source of a plug-in
    happened,    \* events so far
    written,     \* per plug-in, events in the log it would follow
    queue,       \* per plug-in, events it has been told of
    handling,    \* per event, attempts inside OnLoginAttemptEvent
    recorded,    \* per event, attempts that reached the api
    failed,      \* per event, attempts for which there was no api handler
    unhandled,   \* events dropped because the plug-in had no handler yet
    starts,      \* starts of the core
    faults

startVars == <<core, started, configured, starts>>
sourceVars == <<listener, happened, written, queue>>
attemptVars == <<handling, recorded, failed, unhandled>>
vars == <<startVars, sourceVars, attemptVars, faults>>

----------------------------------------------------------------------------

Configured(p) ==
    \E i \in DOMAIN Order :
        Order[i] = p /\ (i <= started \/ (i = started + 1 /\ configured))

Registered(p) == \E i \in DOMAIN Order : Order[i] = p /\ i <= started

\* The api handler is set as soon as the plug-in is configured.
ApiHandler == \E p \in Plugins : KindOf[p] = "api" /\ Configured(p)

Strike == faults < MaxFaults /\ faults' = faults + 1

\* An exception that leaves a thread or a callback ends the process.
CoreDies ==
    /\ core' = "down"
    /\ started' = 0
    /\ configured' = FALSE
    /\ listener' = [p \in Plugins |-> "none"]
    /\ queue' = [p \in Plugins |-> <<>>]
    /\ handling' = [e \in Events |-> 0]
    /\ UNCHANGED <<starts, happened, written, recorded, failed, unhandled>>

----------------------------------------------------------------------------
\* ExecuteAsync

\* Initialize and Configure; a false result is ignored.
Configure ==
    /\ core = "starting" /\ started < Len(Order) /\ ~configured
    /\ configured' = TRUE
    /\ UNCHANGED <<core, started, starts, sourceVars, attemptVars, faults>>

\* These three do not catch the exceptions of Configure: a missing setting ends
\* ExecuteAsync.  If everything it awaited so far had completed at once, the start
\* of the host fails with it and the process ends; after a plug-in that really
\* waited (LiveReport, not in Order, does) the host ignores the exception.
ConfigureThrows ==
    /\ core = "starting" /\ started < Len(Order) /\ ~configured
    /\ KindOf[Order[started + 1]] \in {"honeypot", "iis", "linuxlog"}
    /\ Strike
    /\ \/ CoreDies
       \/ core' = "stalled" /\ UNCHANGED <<started, configured, starts, sourceVars, attemptVars>>

\* Mutant of Register: the flag outlasts the plug-in it is about.
RegisterConfigured ==
    /\ core = "starting" /\ configured
    /\ KindOf[Order[started + 1]] = "eventmonitor" => listener[Order[started + 1]] # "none"
    /\ started' = started + 1
    /\ UNCHANGED <<core, configured, starts, sourceVars, attemptVars, faults>>

\* EventMonitor opens its event log inside Configure.
Register ==
    /\ core = "starting" /\ configured
    /\ KindOf[Order[started + 1]] = "eventmonitor" => listener[Order[started + 1]] # "none"
    /\ started' = started + 1
    /\ configured' = FALSE
    /\ UNCHANGED <<core, starts, sourceVars, attemptVars, faults>>

ReadyAfter(n) ==
    /\ core = "starting" /\ started >= n /\ ~configured
    /\ core' = IF \E p \in Plugins : KindOf[p] = "api" THEN "running" ELSE "stalled"
    /\ UNCHANGED <<started, configured, starts, sourceVars, attemptVars, faults>>

\* Mutant of Ready: the last plug-in is skipped.
ReadyEarly == ReadyAfter(Len(Order) - 1)

Ready == ReadyAfter(Len(Order))

Restart ==
    /\ core = "down"
    /\ core' = "starting"
    /\ starts' = starts + 1
    /\ UNCHANGED <<started, configured, sourceVars, attemptVars, faults>>

----------------------------------------------------------------------------
\* The sources

\* Mutants of MayListen: a log is followed from Configure on; a log that is no
\* longer followed is followed again from its backlog.
MayListenEarly(p) == KindOf[p] # "api" /\ listener[p] = "none" /\ Configured(p)
MayListenAgain(p) ==
    /\ KindOf[p] # "api" /\ listener[p] \in {"none", "closed"}
    /\ IF KindOf[p] = "linuxlog" THEN Registered(p) ELSE Configured(p)

MayListen(p) ==
    /\ KindOf[p] # "api" /\ listener[p] = "none"
    /\ IF KindOf[p] = "linuxlog" THEN Registered(p) ELSE Configured(p)

\* The last lines of the log, whether or not they were seen before.
LastLines(p) ==
    LET n == Len(written[p]) IN SubSeq(written[p], IF n > Backlog THEN n - Backlog + 1 ELSE 1, n)

\* The thread of the plug-in opens its port, its trace session, or starts the
\* command that follows the log.
Listen(p) ==
    /\ core # "down" /\ MayListen(p)
    /\ listener' = [listener EXCEPT ![p] = "open"]
    /\ queue' = [queue EXCEPT ![p] = IF KindOf[p] = "linuxlog" THEN LastLines(p) ELSE <<>>]
    /\ UNCHANGED <<startVars, happened, written, attemptVars, faults>>

\* A port in use or a missing command raises an exception on the thread; a
\* trace session or an event log that cannot be opened is logged.
ListenThrows(p) ==
    /\ core # "down" /\ MayListen(p)
    /\ KindOf[p] \in {"honeypot", "linuxlog"}
    /\ Strike
    /\ CoreDies

ListenFails(p) ==
    /\ core # "down" /\ MayListen(p)
    /\ KindOf[p] \in {"iis", "eventmonitor"}
    /\ Strike
    /\ listener' = [listener EXCEPT ![p] = "closed"]
    /\ UNCHANGED <<startVars, happened, written, queue, attemptVars>>

\* The command that follows a log ends.  The handler that would start it again
\* is added to Process.Exited after that event was raised, and never runs.
FollowerExits(p) ==
    /\ KindOf[p] = "linuxlog" /\ listener[p] = "open"
    /\ Strike
    /\ listener' = [listener EXCEPT ![p] = "closed"]
    /\ UNCHANGED <<startVars, happened, written, queue, attemptVars>>

\* An event happens; what does not listen, does not see it.
Happen(e) ==
    LET p == SourceOf[e] IN
    /\ e \notin happened
    /\ happened' = happened \cup {e}
    /\ written' = IF KindOf[p] = "linuxlog" THEN [written EXCEPT ![p] = Append(@, e)]
                  ELSE written
    /\ queue' = IF listener[p] = "open" THEN [queue EXCEPT ![p] = Append(@, e)] ELSE queue
    /\ UNCHANGED <<listener, startVars, attemptVars, faults>>

----------------------------------------------------------------------------
\* From an event to the api

Told(p) == Head(queue[p])
Dequeue(p) == queue[p] # <<>> /\ queue' = [queue EXCEPT ![p] = Tail(@)]

\* OnConnectionRequest, ParserOnIISLog, EventLogOnEntryWritten, AnalyzeEntry.
Raise(p) ==
    /\ Dequeue(p)
    /\ Told(p) \notin Malformed
    /\ IF Registered(p)
       THEN handling' = [handling EXCEPT ![Told(p)] = @ + 1] /\ UNCHANGED unhandled
       ELSE unhandled' = unhandled \cup {Told(p)} /\ UNCHANGED handling
    /\ UNCHANGED <<startVars, listener, happened, written, recorded, failed, faults>>

\* The setter of IpAddress raises an exception on an address that is no dotted
\* quad.  Whether that of an event log callback ends the process is left open.
RaiseThrows(p) ==
    /\ queue[p] # <<>> /\ Told(p) \in Malformed
    /\ \/ CoreDies /\ UNCHANGED faults
       \/ /\ KindOf[p] = "eventmonitor" /\ Dequeue(p)
          /\ UNCHANGED <<startVars, listener, happened, written, attemptVars, faults>>

DeliverTo(e, api) ==
    /\ handling[e] > 0
    /\ handling' = [handling EXCEPT ![e] = @ - 1]
    /\ IF api THEN recorded' = [recorded EXCEPT ![e] = @ + 1] /\ UNCHANGED failed
       ELSE failed' = [failed EXCEPT ![e] = @ + 1] /\ UNCHANGED recorded
    /\ UNCHANGED <<startVars, sourceVars, unhandled, faults>>

\* Mutant of Deliver: the attempt gets through only while the core is starting.
DeliverEarly(e) == DeliverTo(e, ApiHandler /\ core = "starting")

\* OnLoginAttemptEvent calls the api handler, which may be null.
Deliver(e) == DeliverTo(e, ApiHandler)

----------------------------------------------------------------------------

Init ==
    /\ core = "starting"
    /\ started = 0
    /\ configured = FALSE
    /\ listener = [p \in Plugins |-> "none"]
    /\ happened = {}
    /\ written = [p \in Plugins |-> <<>>]
    /\ queue = [p \in Plugins |-> <<>>]
    /\ handling = [e \in Events |-> 0]
    /\ recorded = [e \in Events |-> 0]
    /\ failed = [e \in Events |-> 0]
    /\ unhandled = {}
    /\ starts = 1
    /\ faults = 0

StartUp == Configure \/ Register \/ Ready

Analyze(p) == Raise(p) \/ RaiseThrows(p)

Next ==
    \/ StartUp \/ ConfigureThrows \/ Restart
    \/ \E p \in Plugins : Listen(p) \/ ListenThrows(p) \/ ListenFails(p)
                            \/ FollowerExits(p) \/ Analyze(p)
    \/ \E e \in Events : Happen(e) \/ Deliver(e)

Spec == Init /\ [][Next]_vars

\* Threads that have something to do go on, and the host restarts the service.
FairSpec ==
    /\ Spec
    /\ WF_vars(StartUp) /\ WF_vars(Restart)
    /\ \A p \in Plugins : WF_vars(Listen(p)) /\ WF_vars(Analyze(p))
    /\ \A e \in Events : WF_vars(Deliver(e))

----------------------------------------------------------------------------

TypeOK ==
    /\ core \in {"down", "starting", "running", "stalled"}
    /\ started \in 0..Len(Order) /\ configured \in BOOLEAN
    /\ configured => started < Len(Order)
    /\ listener \in [Plugins -> {"none", "open", "closed"}]
    /\ happened \subseteq Events /\ unhandled \subseteq happened
    /\ written \in [Plugins -> Seq(happened)] /\ queue \in [Plugins -> Seq(happened)]
    /\ handling \in [Events -> Nat] /\ recorded \in [Events -> Nat] /\ failed \in [Events -> Nat]
    /\ starts \in Nat \ {0} /\ faults \in 0..MaxFaults

Counted(e) == handling[e] + recorded[e] + failed[e]

\* An event becomes at most one attempt, and one line of a log at most one for
\* every start of the core, which reads the last lines of the log anew: nobody
\* reaches Blocking:Attempts by one failure that is told twice.
CountedOnce ==
    \A e \in Events :
        Counted(e) <= IF KindOf[SourceOf[e]] = "linuxlog" THEN starts ELSE 1

\* The lines of a log are never lost between Configure and the registration of
\* the handler, unlike the events of the other sources.
LogLinesHandled == \A e \in unhandled : KindOf[SourceOf[e]] # "linuxlog"

\* Once the core says that it is operating, no attempt fails for lack of an api
\* handler, not even one raised before.
OperatingHasApi == [][\A e \in Events : failed'[e] > failed[e] => core # "running"]_vars

\* An event a plug-in is told of while the core operates reaches the api,
\* unless the core dies.
EventsReachApi ==
    \A e \in Events :
        core = "running" /\ e \in ToSet(queue[SourceOf[e]]) /\ e \notin Malformed
            ~> recorded[e] > 0 \/ core = "down"

=============================================================================
