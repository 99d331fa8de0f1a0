SPECIFICATION Spec
CONSTANTS
    None = None
    admitted = admitted
    unknown = unknown
    Candidate = {admitted, unknown}
    Admitted = {admitted}
    Note = {n1, n2}
    Command = {c1, c2, c3}
    Reader = {r1}
SYMMETRY Symmetry
INVARIANTS
    NoMisattribution
    DuplicatesConverge
    ReportedAuthorityIsOrdered
PROPERTIES
    ImplementsRegister
CHECK_DEADLOCK FALSE
