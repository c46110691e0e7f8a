SPECIFICATION Spec
CONSTANTS
    w1 = w1
    w2 = w2
    f1 = f1
    f2 = f2
    fx = fx
    r1 = r1
    FileState <- StateOf
    FileFormat <- FormatOf
    NoWorker = NoWorker
    NoFile = NoFile
    NoResult = NoResult
    Workers <- TwoCalls
    Files <- ThreeFiles
    Results = {r1}
    MaxRaises = 0
    MaxCrashes = 0
    MaxSlow = 0
    MaxDenials = 1
INVARIANTS
    DenialIsAudited
