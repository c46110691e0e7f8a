SPECIFICATION Spec
CONSTANTS
    w1 = w1
    w2 = w2
    x = x
    y = y
    s1 = s1
    s2 = s2
    Workers = {w1, w2}
    Accounts = {x, y}
    Sessions = {s1, s2}
    Roles = {"TI", "JURIDICO"}
    Founders = {x, y}
    NoWorker = NoWorker
    NoAccount = NoAccount
    NoSession = NoSession
    Boot = Boot
    MaxChanges = 2
    MaxFailures = 1
SYMMETRY Symmetry
INVARIANTS
    TypeOK
    ValidSessionIsCurrent
    AdministratorRemains
    ClosedIsReported
PROPERTIES
    ClosedStaysClosed
    GroundHoldsAtCommit
