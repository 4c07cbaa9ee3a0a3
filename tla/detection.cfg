\* Four sources and one event of each; the event log entry has no address.
SPECIFICATION FairSpec
CONSTANTS
    pot = pot
    iis = iis
    event = event
    log = log
    api = api
    e1 = e1
    e2 = e2
    e3 = e3
    e4 = e4
    Order <- MCOrder
    KindOf <- MCKindOf
    Events = {e1, e2, e3, e4}
    SourceOf <- MCSourceOf
    Malformed = {e4}
    Backlog = 10
    MaxFaults = 1
\* Once every event has happened and been handled the system may stop.
CHECK_DEADLOCK FALSE
INVARIANTS
    TypeOK
    CountedOnce
    LogLinesHandled
PROPERTIES
    OperatingHasApi
    EventsReachApi
