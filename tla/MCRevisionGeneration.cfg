SPECIFICATION Spec
CONSTANTS
    None = None
    i1 = i1
    t1 = t1
    t2 = t2
    s1 = s1
    s2 = s2
    k1 = k1
    k2 = k2
    k3 = k3
    k4 = k4
    k5 = k5
    Intake = {i1}
    Transcript = {t1, t2}
    Candidate = {k1, k2, k3, k4, k5}
    IntakeOf <- MCIntakeOf
    SourceOf <- MCSourceOf
    SegmentOf <- MCSegmentOf
    KindOf <- MCKindOf
    Overlapping <- MCOverlapping
    Command = {c1, c2}
    Request <- MCRequest
    RawAtStart <- MCRawAtStart
    AcceptedAtStart = {k1, k2, k3, k4, k5}
    MaxRawSelections = 3
    MaxDecisions = 3
    MaxMoves = 3
CONSTRAINT FewMoves
SYMMETRY CommandSymmetry
INVARIANTS
    RepositoryIsValid
    OneCreatorPerAnchor
    AuthorityWasCurrentDuringCall
    CollisionsAlwaysConverge
PROPERTIES
    AuthorityHoldsAtInsert
CHECK_DEADLOCK FALSE
