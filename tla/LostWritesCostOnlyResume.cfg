SPECIFICATION Spec
CONSTANTS
    None = None
    Binding = {b1}
    Command = {c1, c2, c3}
    Length = 2
    MaxFaults = 1
    MaxCrashes = 0
CONSTRAINT LostRemovalAndRecord
SYMMETRY Symmetric
INVARIANTS
    LostWritesCostOnlyResume
CHECK_DEADLOCK FALSE
