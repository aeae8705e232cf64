SPECIFICATION Spec
CONSTANTS
    strict = strict
    lax = lax
    s1 = s1
    s2 = s2
    s3 = s3
    Policies = {p1, p2}
    Contents = {strict, lax}
    Sources = {s1, s2, s3}
    Meaning <- MCMeaning
    MaxVersion = 2
    MaxEvents = 4
    NoBundle = NoBundle
    NoVersion = NoVersion
    MaxSaves = 4
    Torn = Torn
    MaxEvent = 4
    MaxLines = 5
    Garbage = Garbage
    Ids = {e1, e2, e3}
    Payloads = {p, q}
    MaxTime = 2
    MaxSequence = 4
    MaxLimit = 2

SYMMETRY MCSymmetry

INVARIANTS
    TypeOK
    SavedStateSurvives
    RecoveryIsHonest
    ReaderMissesNothing
    HistoryTellsAll
    ReturnedIsInForce
CHECK_DEADLOCK FALSE
