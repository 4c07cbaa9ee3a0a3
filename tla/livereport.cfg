\* Two reports, two pages, one dropped connection and one failed start.
SPECIFICATION FairSpec
CONSTANTS
    r1 = r1
    r2 = r2
    r3 = r3
    p1 = p1
    p2 = p2
    Loading = Loading
    Core = Core
    Reports = {r1, r2}
    Pages = {p1, p2}
    KindOf <- MCKindOf
    MaxLength = 1
    MaxDrops = 1
    MaxFailures = 1
    MaxStale = 1
\* Once every report has ended and every page is open the system may stop.
CHECK_DEADLOCK FALSE
INVARIANTS
    TypeOK
    FlagMeansTrouble
    LossHasCause
    PagesAgree
PROPERTIES
    OutcomesFinal
    ReportsEnd
    Reconnects
