----------------------------- MODULE LiveReport -----------------------------
(***************************************************************************)
(* The live feed: the LiveReport.SignalR plug-in of SP.Core, the hub of    *)
(* SP.Overview it reports to, and the pages that show the reports.         *)
(*                                                                         *)
(* The plug-in keeps one HubConnection in its property Hub.  Reports, the  *)
(* Closed handlers of old and new connections and Configure run on         *)
(* different threads and meet in Hub, which each of them reads anew, and   *)
(* in the flag FailedReconfigure.  A HubConnection has an internal lock:   *)
(* while StartAsync runs, an invocation or another StartAsync on the same  *)
(* connection waits.                                                       *)
(***************************************************************************)
EXTENDS Integers, FiniteSets, SequencesExt

CONSTANTS
    Reports,      \* attempts, blocks and unblocks the core reports, each once
    KindOf,       \* the column of the page a report goes to
    Pages,        \* browser pages that show the feed
    MaxLength,    \* cards a column keeps
    MaxDrops,     \* bound on connections of the plug-in that drop
    MaxFailures,  \* bound on starts of a connection that fail
    MaxStale,     \* bound on pages that lose their connection
    Loading,      \* the placeholder a column starts with
    Core          \* ExecuteAsync, which configures the plug-in at start-up

\* Configure is called at start-up and at most once for every report.
Callers == Reports \cup {Core}

\* Every call of Configure makes a connection.
Hubs == 1..(Cardinality(Reports) + 1)
Kinds == {KindOf[r] : r \in Reports}

ASSUME ReportsAssumption == IsFiniteSet(Reports) /\ DOMAIN KindOf = Reports
ASSUME LengthAssumption == MaxLength \in Nat \ {0}
ASSUME BoundsAssumption == {MaxDrops, MaxFailures, MaxStale} \subseteq Nat
ASSUME LoadingAssumption == Loading \notin Reports /\ Core \notin Reports

VARIABLES
    hub,          \* the connection in property Hub, the latest one made; 0 for null
    link,         \* state of every connection
    handlers,     \* per connection, the handlers of its Closed event
    failedReconfigure,
    delayed,      \* Closed handlers inside Task.Delay
    waiting,      \* per connection, their calls of StartAsync that wait for its lock
    pc,           \* how far a report, or the Configure of the core, has come
    target,       \* the connection it invokes, or starts, if any
    early,        \* history: reports that read Hub before its start had begun
    wire,         \* per connection, invocations on their way to the hub
    pending,      \* per report, the pages the hub has still to write it to
    page,         \* "closed", "open", or "stale" once its connection is lost
    inbox,        \* per page, what was written to it and is on its way
    column,       \* per page and kind, its cards, newest first
    drops, failures

hubVars == <<hub, handlers, failedReconfigure>>
handlerVars == <<delayed, waiting>>
serverVars == <<wire, pending>>
pageVars == <<page, inbox, column>>
boundVars == <<drops, failures>>
vars == <<hubVars, link, handlerVars, pc, target, early, serverVars, pageVars, boundVars>>

----------------------------------------------------------------------------
\* Configure reads or writes Hub three times, and another Configure may replace
\* it in between.

\* Inside Configure, after which the core goes on and a report has failed.
Configuring == {"building", "subscribing", "starting", "waiting", "awaiting"}
EndOf(c) == IF c = Core THEN "configured" ELSE "lost"

Proceed(c, from, to) == pc[c] = from /\ pc' = [pc EXCEPT ![c] = to]

\* A new connection replaces the one in Hub.
Build(c) ==
    /\ Proceed(c, "building", "subscribing")
    /\ hub' = hub + 1
    /\ UNCHANGED <<handlers, failedReconfigure, link, handlerVars, target, early,
                   serverVars, pageVars, boundVars>>

Subscribe(c) ==
    /\ Proceed(c, "subscribing", "starting")
    /\ handlers' = [handlers EXCEPT ![hub] = @ + 1]
    /\ UNCHANGED <<hub, failedReconfigure, link, handlerVars, target, early,
                   serverVars, pageVars, boundVars>>

\* A call of StartAsync that gets the lock begins to connect, or throws if the
\* connection is not disconnected.
Locked(h) == link[h] = "connecting"
Begun(h) == [link EXCEPT ![h] = IF @ = "disconnected" THEN "connecting" ELSE @]

\* How Configure goes on when it calls StartAsync; it logs the exception.
AfterCall(c, h) ==
    CASE link[h] = "disconnected" -> "awaiting"
      [] link[h] = "connecting" -> "waiting"
      [] link[h] = "connected" -> EndOf(c)

StartHub(c) ==
    /\ Proceed(c, "starting", AfterCall(c, hub))
    /\ target' = [target EXCEPT ![c] = hub]
    /\ link' = Begun(hub)
    /\ UNCHANGED <<hubVars, handlerVars, early, serverVars, pageVars, boundVars>>

StartHubLocked(c) ==
    /\ Proceed(c, "waiting", AfterCall(c, target[c]))
    /\ ~Locked(target[c])
    /\ link' = Begun(target[c])
    /\ UNCHANGED <<hubVars, handlerVars, target, early, serverVars, pageVars, boundVars>>

\* The Configure that awaits the start of h, if it was not a Closed handler's.
Awaiting(h) == {c \in Callers : pc[c] = "awaiting" /\ target[c] = h}

Resume(h) == pc' = [c \in Callers |-> IF c \in Awaiting(h) THEN EndOf(c) ELSE pc[c]]

\* Mutant of StartSucceeds: the flag stays as it is.
StartSucceedsFlagged(h) ==
    /\ Locked(h)
    /\ link' = [link EXCEPT ![h] = "connected"]
    /\ Resume(h)
    /\ UNCHANGED <<hubVars, handlerVars, target, early, serverVars, pageVars, boundVars>>

\* Only Configure resets the flag, not a Closed handler.
StartSucceeds(h) ==
    /\ Locked(h)
    /\ link' = [link EXCEPT ![h] = "connected"]
    /\ Resume(h)
    /\ failedReconfigure' = (failedReconfigure /\ Awaiting(h) = {})
    /\ UNCHANGED <<hub, handlers, handlerVars, target, early, serverVars, pageVars, boundVars>>

\* Configure logs the exception and returns; so does the caller of a Closed
\* handler.  Neither tries again.
StartFails(h) ==
    /\ Locked(h)
    /\ failures < MaxFailures
    /\ failures' = failures + 1
    /\ link' = [link EXCEPT ![h] = "disconnected"]
    /\ Resume(h)
    /\ UNCHANGED <<hubVars, handlerVars, target, early, serverVars, pageVars, drops>>

----------------------------------------------------------------------------
\* A lost connection and the Closed handlers

\* The invocations of h that have not been answered.
Unanswered(h) == {r \in Reports : target[r] = h /\ pc[r] \in {"sent", "sending"}}

DropWith(h, closed, left) ==
    /\ link[h] = "connected"
    /\ drops < MaxDrops
    /\ drops' = drops + 1
    /\ link' = [link EXCEPT ![h] = "disconnected"]
    /\ delayed' = delayed + closed
    /\ pc' = [c \in Callers |-> IF c \in Unanswered(h) THEN "lost" ELSE pc[c]]
    /\ wire' = [wire EXCEPT ![h] = left]
    /\ UNCHANGED <<hubVars, waiting, target, early, pending, pageVars, failures>>

\* Mutants of Drop: no Closed handler; invocations under way reach the hub all
\* the same.
DropUnhandled(h) == DropWith(h, 0, <<>>)
DropOutlived(h) == DropWith(h, handlers[h], wire[h])

\* The connection of the plug-in is lost, and with it the invocations under
\* way: their exception does not say that the connection is not active.  A
\* report that the hub has begun to write to the pages goes on to reach them.
Drop(h) == DropWith(h, handlers[h], <<>>)

\* The handler starts the connection that is in Hub after the delay, which
\* need not be the one that was closed.
Reconnect ==
    /\ delayed > 0
    /\ delayed' = delayed - 1
    /\ waiting' = IF Locked(hub) THEN [waiting EXCEPT ![hub] = @ + 1] ELSE waiting
    /\ link' = Begun(hub)
    /\ UNCHANGED <<hubVars, pc, target, early, serverVars, pageVars, boundVars>>

StartAsync(h) ==
    /\ waiting[h] > 0 /\ ~Locked(h)
    /\ waiting' = [waiting EXCEPT ![h] = @ - 1]
    /\ link' = Begun(h)
    /\ UNCHANGED <<hubVars, delayed, pc, target, early, serverVars, pageVars, boundVars>>

----------------------------------------------------------------------------
\* AccessAttemptEvent, BlockEvent, UnblockEvent and RecoverInvalidState

\* While Hub is null the call throws, and the report is lost.
Report(r) ==
    /\ Proceed(r, "idle", IF hub = 0 THEN "lost" ELSE "invoking")
    /\ target' = [target EXCEPT ![r] = hub]
    /\ early' = IF hub # 0 /\ link[hub] = "disconnected" THEN early \cup {r} ELSE early
    /\ UNCHANGED <<hubVars, link, handlerVars, serverVars, pageVars, boundVars>>

InvokeAsync(r) ==
    /\ Proceed(r, "invoking", "sent")
    /\ link[target[r]] = "connected"
    /\ wire' = [wire EXCEPT ![target[r]] = Append(@, r)]
    /\ UNCHANGED <<hubVars, link, handlerVars, target, early, pending, pageVars, boundVars>>

AfterException(r) == IF failedReconfigure THEN "lost" ELSE "recovering"

\* Mutants of RecoverInvalidState: it returns only if the flag is unset; the
\* invocation does not wait for a start under way.
RecoverInvalidStateOnce(r) ==
    /\ Proceed(r, "invoking", "recovering")
    /\ link[target[r]] = "disconnected"
    /\ ~failedReconfigure
    /\ UNCHANGED <<hubVars, link, handlerVars, target, early, serverVars, pageVars, boundVars>>
RecoverInvalidStateEarly(r) ==
    /\ Proceed(r, "invoking", AfterException(r))
    /\ link[target[r]] # "connected"
    /\ UNCHANGED <<hubVars, link, handlerVars, target, early, serverVars, pageVars, boundVars>>

\* "The connection is not active": the flag is read here, and set in the next
\* step; two reports may both find it unset.
RecoverInvalidState(r) ==
    /\ Proceed(r, "invoking", AfterException(r))
    /\ link[target[r]] = "disconnected"
    /\ UNCHANGED <<hubVars, link, handlerVars, target, early, serverVars, pageVars, boundVars>>

\* The report itself is not sent again once Configure has returned.
Reconfigure(r) ==
    /\ Proceed(r, "recovering", "building")
    /\ failedReconfigure' = TRUE
    /\ UNCHANGED <<hub, handlers, link, handlerVars, target, early, serverVars,
                   pageVars, boundVars>>

----------------------------------------------------------------------------
\* ReportingHub and reportingHub.js.  The hub serves the invocations of one
\* connection one after the other, and those of several at the same time.
\* SendCoreAsync writes a report to one page after the other.

BeginBroadcast(h) ==
    /\ wire[h] # <<>>
    /\ \A r \in Reports : target[r] = h => pc[r] # "sending"
    /\ pc' = [pc EXCEPT ![Head(wire[h])] = "sending"]
    /\ wire' = [wire EXCEPT ![h] = Tail(@)]
    /\ pending' = [pending EXCEPT ![Head(wire[h])] = {p \in Pages : page[p] = "open"}]
    /\ UNCHANGED <<hubVars, link, handlerVars, target, early, pageVars, boundVars>>

SendTo(r, p) ==
    /\ p \in pending[r]
    /\ pending' = [pending EXCEPT ![r] = @ \ {p}]
    /\ inbox' = [inbox EXCEPT ![p] = Append(@, r)]
    /\ UNCHANGED <<hubVars, link, handlerVars, pc, target, early, wire, page, column, boundVars>>

\* Mutant of EndBroadcast: SendCoreAsync is not awaited.
EndBroadcastUnawaited(r) ==
    /\ Proceed(r, "sending", "delivered")
    /\ UNCHANGED <<hubVars, link, handlerVars, target, early, serverVars, pageVars, boundVars>>

EndBroadcast(r) ==
    /\ pending[r] = {}
    /\ Proceed(r, "sending", "delivered")
    /\ UNCHANGED <<hubVars, link, handlerVars, target, early, serverVars, pageVars, boundVars>>

\* A page starts its connection once, and does not restart it.  A report that is
\* being written to the pages may reach the new one or not.
OpenPage(p) ==
    /\ page[p] = "closed"
    /\ page' = [page EXCEPT ![p] = "open"]
    /\ \E joined \in SUBSET {r \in Reports : pc[r] = "sending" \/ pending[r] # {}} :
          pending' = [r \in Reports |->
                         IF r \in joined THEN pending[r] \cup {p} ELSE pending[r]]
    /\ UNCHANGED <<hubVars, link, handlerVars, pc, target, early, wire, inbox, column, boundVars>>

LosePage(p) ==
    /\ page[p] = "open"
    /\ Cardinality({q \in Pages : page[q] = "stale"}) < MaxStale
    /\ page' = [page EXCEPT ![p] = "stale"]
    /\ pending' = [r \in Reports |-> pending[r] \ {p}]
    /\ inbox' = [inbox EXCEPT ![p] = <<>>]
    /\ UNCHANGED <<hubVars, link, handlerVars, pc, target, early, wire, column, boundVars>>

\* The first report clears the loading block.
Cleared(cards) == IF cards = <<Loading>> THEN <<>> ELSE cards

\* Mutant of InsertCard: the column may grow beyond maxLength.
InsertCardBeyond(cards, r) ==
    LET grown == <<r>> \o Cleared(cards)
    IN  IF Len(grown) > MaxLength + 1 THEN RemoveAt(grown, MaxLength + 1) ELSE grown

\* A card goes on top, and the card at index maxLength is removed.
InsertCard(cards, r) ==
    LET grown == <<r>> \o Cleared(cards)
    IN  IF Len(grown) > MaxLength THEN RemoveAt(grown, MaxLength + 1) ELSE grown

Receive(p) ==
    /\ inbox[p] # <<>>
    /\ LET r == Head(inbox[p])
       IN  column' = [column EXCEPT ![p][KindOf[r]] = InsertCard(@, r)]
    /\ inbox' = [inbox EXCEPT ![p] = Tail(@)]
    /\ UNCHANGED <<hubVars, link, handlerVars, pc, target, early, serverVars, page, boundVars>>

----------------------------------------------------------------------------

Init ==
    /\ hub = 0
    /\ link = [h \in Hubs |-> "disconnected"]
    /\ handlers = [h \in Hubs |-> 0]
    /\ failedReconfigure = FALSE
    /\ delayed = 0
    /\ waiting = [h \in Hubs |-> 0]
    /\ pc = [c \in Callers |-> IF c = Core THEN "building" ELSE "idle"]
    /\ target = [c \in Callers |-> 0]
    /\ early = {}
    /\ wire = [h \in Hubs |-> <<>>]
    /\ pending = [r \in Reports |-> {}]
    /\ page = [p \in Pages |-> "closed"]
    /\ inbox = [p \in Pages |-> <<>>]
    /\ column = [p \in Pages |-> [k \in Kinds |-> <<Loading>>]]
    /\ drops = 0
    /\ failures = 0

Configure(c) == Build(c) \/ Subscribe(c) \/ StartHub(c) \/ StartHubLocked(c)

Start(h) == StartSucceeds(h) \/ StartFails(h)

Process(r) == InvokeAsync(r) \/ RecoverInvalidState(r) \/ Reconfigure(r)

Next ==
    \/ Reconnect
    \/ \E c \in Callers : Configure(c)
    \/ \E h \in Hubs : Start(h) \/ StartAsync(h) \/ Drop(h) \/ BeginBroadcast(h)
    \/ \E r \in Reports : Report(r) \/ Process(r) \/ EndBroadcast(r)
    \/ \E r \in Reports, p \in Pages : SendTo(r, p)
    \/ \E p \in Pages : OpenPage(p) \/ LosePage(p) \/ Receive(p)

Spec == Init /\ [][Next]_vars

\* Tasks and the network go on; nothing obliges the core to report, a
\* connection to drop or a page to be opened.
FairSpec ==
    /\ Spec
    /\ WF_vars(Reconnect)
    /\ \A c \in Callers : WF_vars(Configure(c))
    /\ \A h \in Hubs : WF_vars(Start(h)) /\ WF_vars(StartAsync(h)) /\ WF_vars(BeginBroadcast(h))
    /\ \A r \in Reports : WF_vars(Process(r)) /\ WF_vars(EndBroadcast(r))
    /\ \A r \in Reports, p \in Pages : WF_vars(SendTo(r, p))
    /\ \A p \in Pages : WF_vars(Receive(p))

----------------------------------------------------------------------------
\* Type invariant

TypeOK ==
    /\ hub \in 0..Cardinality(Hubs)
    /\ link \in [Hubs -> {"disconnected", "connecting", "connected"}]
    /\ handlers \in [Hubs -> Nat]
    /\ failedReconfigure \in BOOLEAN
    /\ delayed \in Nat
    /\ waiting \in [Hubs -> Nat]
    /\ pc \in [Callers -> Configuring \cup {"idle", "invoking", "recovering", "sent", "sending",
                                           "delivered", "lost", "configured"}]
    /\ target \in [Callers -> 0..Cardinality(Hubs)]
    /\ early \subseteq Reports
    /\ wire \in [Hubs -> Seq(Reports)]
    /\ pending \in [Reports -> SUBSET Pages]
    /\ page \in [Pages -> {"closed", "open", "stale"}]
    /\ inbox \in [Pages -> Seq(Reports)]
    /\ column \in [Pages -> [Kinds -> Seq(Reports \cup {Loading})]]
    /\ \A p \in Pages, k \in Kinds : Len(column[p][k]) \in 1..MaxLength
    /\ drops \in 0..MaxDrops /\ failures \in 0..MaxFailures

----------------------------------------------------------------------------
\* Properties

Trouble == drops > 0 \/ failures > 0

\* FailedReconfigure outlasts the reconfigurations it guards (RecoverInvalidState
\* sets it, Configure resets it) only if a connection dropped or failed to start,
\* however many of them overlap, replace Hub under each other and start one
\* connection twice.  No start need fail: a Closed handler that starts the new
\* connection before its Configure does is enough.
FlagMeansTrouble ==
    failedReconfigure /\ (\A c \in Callers : pc[c] \notin Configuring) => Trouble

\* Once there is a connection, a report is lost only if a connection dropped or
\* failed to start, or if the report read Hub between the two lines of Configure
\* that make the connection and start it: reports wait for a start under way.
LossHasCause ==
    \A r \in Reports : pc[r] = "lost" /\ target[r] # 0 => Trouble \/ r \in early

\* A report that ended for the plug-in stays ended, and the same way: it does not
\* succeed over another connection after its loss was logged, although reports,
\* reconnections and the hub act on several connections at once.
OutcomesFinal == [][\A r \in Reports : pc[r] \in {"delivered", "lost"} => pc'[r] = pc[r]]_vars

\* What page p shows, or is going to show once it has received what was written
\* to it and what is still to be written.
In(reports, r) == \E i \in DOMAIN reports : reports[i] = r
After(reports, r, s) ==
    \E i, j \in DOMAIN reports : i < j /\ reports[i] = s /\ reports[j] = r
Shows(p, r) == In(column[p][KindOf[r]], r) \/ In(inbox[p], r) \/ p \in pending[r]

\* Page p shows r above s.
Above(p, r, s) ==
    \/ After(column[p][KindOf[s]], s, r)
    \/ In(column[p][KindOf[s]], s) /\ (In(inbox[p], r) \/ p \in pending[r])
    \/ After(inbox[p], r, s)
    \/ In(inbox[p], s) /\ p \in pending[r]

\* Reports of one kind that were invoked on one connection and not lost.
Comparable(r, s) ==
    /\ KindOf[r] = KindOf[s] /\ target[r] = target[s]
    /\ {pc[r], pc[s]} \subseteq {"sending", "delivered"}

\* Pages that are connected show the reports of one connection in one order and
\* without gaps: what is above a report on one page is above it on every page
\* that shows that report, whenever the pages were opened and however far each
\* has got.  Reports of two connections, which the hub serves at the same time,
\* may be in one order on one page and in the other on another page.
PagesAgree ==
    \A p, q \in Pages, r, s \in Reports :
        /\ page[p] = "open" /\ page[q] = "open"
        /\ Comparable(r, s)
        /\ Above(p, r, s) /\ Shows(q, s)
        => Above(q, r, s)

\* Every report that is invoked ends, delivered or lost: nobody waits for the
\* lock of a connection forever.
ReportsEnd == \A r \in Reports : pc[r] = "invoking" ~> pc[r] \in {"delivered", "lost"}

Connected == hub # 0 /\ link[hub] = "connected"

\* As long as no start fails, a dropped connection is replaced or restarted by
\* its Closed handler, whatever reports reconfigure in the meantime.
Reconnects == failures = 0 ~> Connected \/ failures > 0

\* A report that finds the connection inactive, when no further start is going
\* to fail, leads to a connection ("Disconnected. Reconnecting...").
ReportRecovers ==
    \A r \in Reports :
        pc[r] = "invoking" /\ link[target[r]] = "disconnected" /\ failures = MaxFailures
            ~> Connected

=============================================================================
