\* Three blocks of two countries; two attempts, days of four hours, months of two
\* days, and a clock that runs past the end of a year of two months.  Another client
\* asks for three entries where the page asks for two.
SPECIFICATION Spec
CONSTANTS
    b1 = b1
    b2 = b2
    b3 = b3
    None = None
    Blocks = {b1, b2, b3}
    Places <- MCPlaces
    Sources <- MCSources
    MaxAttempts = 2
    Top = 2
    Colors = 2
    Requested = {3}
    BlockDays = 1
    TicksPerHour = 1
    HoursPerDay = 4
    DaysPerMonth = 2
    MonthsPerYear = 2
    StartTime = 11
    MaxTime = 17
SYMMETRY MCSymmetry
CONSTRAINT MCFewHours
ACTION_CONSTRAINT MCOthersMatter
\* Once every block and attempt has been made the system may stop.
CHECK_DEADLOCK FALSE
INVARIANTS
    TypeOK
    CountsBounded
    CountsExactWhenSerial
    TopCountryIsTop
    RankingsAgree
    HoursComplete
    ListedTypesShow
    DaysTold
    LastMonthShown
    PointsUnderLabels
    SlicesTellApart
    TableShownIsRecent
    LastDayShown
