CONSTANTS
    w1 = w1  w2 = w2
    a = a  b = b
    NoWorker = NoWorker  NoOp = NoOp
    Workers = {w1, w2}
    Ops = {a, b}
    Cells <- MCCells
    Depth = 2
    MaxRevisions = 2
    MaxRaises = 1
    MaxLosses = 1
SYMMETRY Symmetric
SPECIFICATION Spec
INVARIANTS
    TypeOK
    RunsOwnTheirInput
    JobTellsItsRun
PROPERTIES
    SettledStaysSettled
