SPECIFICATION Spec
CONSTANTS
    None = None
    k1 = k1
    k2 = k2
    a1 = a1
    Candidate = {k1, k2}
    Timeline <- MCTimeline
    Actor = {a1, a2}
    Proposal = proposed
    Replacement = {r1, r2}
    Reversible <- MCReversible
    Command = {c1, c2, c3}
    Exporter = {e1, e2}
    MaxStandingChanges = 2
    MaxInvoked = 3
CONSTRAINT FewCalls
SYMMETRY Symmetry
INVARIANTS
    RepositoryIsValid
    ApprovalIsWhatWasSubmitted
    JudgmentsTakeEffect
    StableScopeIsExported
CHECK_DEADLOCK FALSE
