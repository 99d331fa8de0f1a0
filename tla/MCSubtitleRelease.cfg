SPECIFICATION ReleaseSpec
CONSTANTS
    None = None
    Unresolvable = Unresolvable
    i1 = i1
    a = a
    b = b
    s1 = s1
    s2 = s2
    s3 = s3
    Intake = {i1}
    Source = {a, b}
    Subject = {s1, s2, s3}
    IntakeOf <- MCIntakeOf
    SourceOf <- MCSourceOf
    Deliverable = {s1, s2}
    Selector = {n1, n2}
    ReleaseCommand = {c1, c2, c3}
    SourcesAtStart <- MCSourcesAtStart
    MaxSources = 3
    DecisionKind = {"accept", "reject"}
    MaxDecisions = 3
CONSTRAINT FindingsApart
SYMMETRY Symmetry
INVARIANTS
    SelectionHadAuthority
    ExportHadAuthority
    OneCreatorPerSelection
    SelectionsAreHonoured
    ReleasesAreValid
CHECK_DEADLOCK FALSE
