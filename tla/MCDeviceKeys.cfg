SPECIFICATION Spec
CONSTANTS
    Keys = {k1, k2, k3}
    Procs = {p1, p2}
    Inodes = {i1, i2, i3, i4}
    None = None
    MaxCommands = 5
    MaxFaults = 2
SYMMETRY Symmetry
INVARIANTS
    NeverEmptied
    UndisturbedCommandsHold
CHECK_DEADLOCK FALSE
