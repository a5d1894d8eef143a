SPECIFICATION Spec
CONSTANTS
    Absent = Absent
    Malformed = Malformed
    Documents <- MCDocuments
    SearchTerms <- MCSearchTerms
    Sorts <- MCSorts
    RawNumbers <- RawPages
    DefaultPerPage = 2
    MaxPerPage = 3
    HalfRange = 8
    MaxAdded = 2
    MaxArchived = 2
INVARIANTS
    AnswerTypeOK
    WalkExact
    SkipsBounded
    TotalIsWalkLength
