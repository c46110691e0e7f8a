CONSTANTS
    Months <- MCMonths
    Values <- MCValues
    Missing = Missing
    Absent = Absent
    MaxTokens = 4
    Overlap = 1
    Lengths <- MCLengths
    MaxEdits = 2
    MaxRows = 3
    MaxWidth = 3
    Sessions = {p1, p2}
    NoOne = NoOne
    MaxFragments = 2
    MaxStatements = 4
SYMMETRY Interchangeable
SPECIFICATION MCSpec
CHECK_DEADLOCK FALSE
INVARIANTS
    FrozenInputSuffices
    RecurrenceIsCounted
    FragmentsCoverText
    PortableRowsAreIncorporated
    RegularCsvIsRead
    CertifiedIndexIsKept
