SPECIFICATION Spec
CONSTANTS
    w1 = w1
    w2 = w2
    p = p
    z = z
    rq = rq
    rz = rz
    past = past
    now = now
    i1 = i1
    Callers = {w1, w2}
    Ops = {p, z}
    Records = {rq, rz}
    Cells = {past, now}
    Months = {1, 2}
    Items = {i1}
    NoItem = NoItem
    NoCaller = NoCaller
    NoOp = NoOp
    Kind <- KindOf
    RecordsOf <- RecordsOfOp
    CellsOf <- CellsOfRecord
    MonthOf <- MonthOfCell
    FirstDay <- FirstDayOf
    LastDay <- LastDayOf
    ItemOf <- ItemOfOp
    Conforming = {p}
    Reference <- ReferenceOf
    StartDay = 2
    EndDay = 3
    MaxRaises = 0
    MaxCrashes = 0
INVARIANTS
    CompletedJobIsReflected
