SPECIFICATION Spec
CONSTANTS
    u1 = u1
    u2 = u2
    u3 = u3
    u4 = u4
    w1 = w1
    w2 = w2
    daily = daily
    manual = manual
    x = x
    y = y
    big = big
    bad = bad
    e1 = e1
    e2 = e2
    p1 = p1
    p2 = p2
    Uploads = {u1, u2, u3, u4}
    Workers = {w1, w2}
    Sources = {daily, manual}
    Keyed = {manual}
    Contents = {x, y, big}
    SourceOf <- SourceOfUpload
    ContentOf <- ContentOfUpload
    Verdict <- VerdictOf
    Rows <- RowsOfContent
    Entities = {e1, e2}
    Payloads = {p1, p2}
    Malformed = {}
    Ambiguous = {}
    Corrections <- Fixes
    NoWorker = NoWorker
    NoEntity = NoEntity
    NoPayload = NoPayload
    NoFile = NoFile
    MaxFaults = 1
SYMMETRY Interchangeable
INVARIANTS
    TypeOK
    UploadsAreSound
    EveryRecordIsAccounted
    EntityIsItsIncorporation
    ItemsSettleOnce
CHECK_DEADLOCK FALSE
