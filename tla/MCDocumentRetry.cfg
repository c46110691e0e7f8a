SPECIFICATION Spec
CONSTANTS
    w1 = w1
    w2 = w2
    d = d
    m = m
    n = n
    t1 = t1
    t2 = t2
    good = good
    weak = weak
    strong = strong
    blank = blank
    Callers = {w1, w2}
    Ops = {d}
    Dispatched = {d}
    Source <- SourceOf
    Engines = {good}
    Reading <- ReadingOf
    Texts = {t1, t2, EmptyText}
    EmptyText = EmptyText
    NoText = NoText
    NeedsOcr = TRUE
    NoCaller = NoCaller
    NoOp = NoOp
    MaxFailures = 1
    MaxUpgrades = 0
    MaxInvalidations = 1
CHECK_DEADLOCK FALSE
INVARIANTS
    RetryDoesNotRepeat
