SPECIFICATION Spec
INVARIANTS TypeOK TimeRangeShowsMessages LatestHasDetails
PROPERTIES ExportShowsTable DailyEndShowsDays PastDayIsFinal FileKeptUntilSent
CONSTANTS
    A = A
    B = B
    None = None
    Quotes <- MCQuotes
    LastDay = 2
    HoursPerDay = 2
    Zone <- MCZone
