\* Two failed starts, no dropped connection, no page.
SPECIFICATION FairSpec
CONSTANTS
    r1 = r1
    r2 = r2
    r3 = r3
    p1 = p1
    p2 = p2
    Loading = Loading
    Core = Core
    Reports = {r1, r2}
    Pages = {}
    KindOf <- MCKindOf
    MaxLength = 2
    MaxDrops = 0
    MaxFailures = 2
    MaxStale = 0
CHECK_DEADLOCK FALSE
PROPERTIES
    ReportRecovers
