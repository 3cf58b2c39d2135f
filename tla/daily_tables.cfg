SPECIFICATION Spec
INVARIANTS TypeOK TodayHasTables LatestImpliesDetail
CONSTANTS
    FirstDays <- MCFirstDays
    LastDay = 16
    MaxFaults = 2
