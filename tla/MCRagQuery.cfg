SPECIFICATION Spec
CONSTANTS
    c1 = c1
    c2 = c2
    q1 = q1
    s1 = s1
    s2 = s2
    f1 = f1
    f2 = f2
    Calls = {c1, c2}
    Key = Key
    Queries = {q1}
    Sessions = {s1, s2}
    Fragments = {f1, f2}
    NoCall = NoCall
    NoSession = NoSession
    NoQuery = NoQuery
    MaxChanges = 1
    MaxFailures = 1
SYMMETRY Symmetry
CHECK_DEADLOCK FALSE
INVARIANTS
    TypeOK
    SentUnderPermission
    DenialAuditedOnce
    OnlyFailuresFail
PROPERTIES
    ReadUnderPermission
