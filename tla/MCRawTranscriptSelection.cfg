SPECIFICATION Spec
CONSTANTS
    None = None
    i1 = i1
    i2 = i2
    t1 = t1
    t2 = t2
    t3 = t3
    Intake = {i1, i2}
    Transcript = {t1, t2, t3}
    Command = {c1, c2, c3}
    Owner <- MCOwner
SYMMETRY CommandSymmetry
INVARIANTS
    HistoryIsOneChain
    SuccessWasCurrent
    DuplicatesConverge
PROPERTIES
    ImplementsRegister
CHECK_DEADLOCK FALSE
