SPECIFICATION MCScheduleSpec
CONSTANTS
    k1 = k1  k2 = k2
    Keys = {k1, k2}
    Senders = {k1}
    Values <- MCValues
    Ttls <- MCTtls
    Null = Null
    Absent = Absent
    MaxNow = 3
    Cap = 1
    Day = 3
    NotGiven = NotGiven
    Unparsable = Unparsable
    Ttl = 2
    Threshold = 4
    HbEvery = 1
    SnapEvery = 2
    Lag = 0
    Frames <- MCFrames
    Never = Never
    Nothing = Nothing
    Find = Find
INVARIANTS ScheduleTypeOK NoticedInTime PointsAreFresh OnceAMinute ChartIsNewest SummaryIsDaily
PROPERTIES FreshSurvives ImplementsLease OverdueEvicted
CHECK_DEADLOCK FALSE
