SPECIFICATION FairSpec
CONSTANTS
    w1 = w1
    w2 = w2
    d = d
    m = m
    n = n
    t1 = t1
    t2 = t2
    good = good
    weak = weak
    strong = strong
    blank = blank
    Callers = {w1, w2}
    Ops = {d, m, n}
    Dispatched = {d}
    Source <- SourceOf
    Engines = {good, weak, strong, blank}
    Reading <- ReadingOf
    Texts = {t1, t2, EmptyText}
    EmptyText = EmptyText
    NoText = NoText
    NeedsOcr = TRUE
    NoCaller = NoCaller
    NoOp = NoOp
    MaxFailures = 2
    MaxUpgrades = 1
    MaxInvalidations = 1
INVARIANTS
    TypeOK
    ActivationsAreSound
PROPERTIES
    LateCallsAreRefused
    DispatchSettles
    LivesAsPromised
