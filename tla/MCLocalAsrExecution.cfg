SPECIFICATION Spec
CONSTANTS
    None = None
    Binding = {b1, b2}
    Command = {c1, c2, c3}
    Length = 2
    MaxFaults = 1
    MaxCrashes = 1
CONSTRAINT OneMishap
SYMMETRY Symmetric
INVARIANTS
    NothingBlendedIsAdmitted
    OneOwnerUntilAdmitted
    DeathsCostNothing
CHECK_DEADLOCK FALSE
