SPECIFICATION Spec
CONSTANTS
    None = None
    RawFallback = RawFallback
    i1 = i1
    t1 = t1
    t2 = t2
    k1 = k1
    k2 = k2
    r1 = r1
    r2 = r2
    Intake = {i1}
    Transcript = {t1, t2}
    Candidate = {k1, k2}
    Revision = {r1, r2}
    IntakeOf <- MCIntakeOf
    ParentOf <- MCParentOf
    MembersOf <- MCMembersOf
    LineageOf <- MCLineageOf
    RawAtStart <- MCRawAtStart
    Command = {c1, c2}
    Consumer = {u1, u2}
    MaxRawSelections = 3
    MaxDecisions = 3
    MaxInvoked = 3
    MaxMoves = 3
CONSTRAINT FewCalls
SYMMETRY Symmetry
INVARIANTS
    EligibilityWasObserved
    CollisionMeansDivergence
    RepositoryIsValid
    StableSourceIsConsumed
    StableVerdictIsRight
PROPERTIES
    ImplementsRegister
CHECK_DEADLOCK FALSE
