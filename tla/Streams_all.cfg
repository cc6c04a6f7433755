SPECIFICATION Spec
CONSTANTS
    A = {a1}
    B = {b1, b2}
    Kinds = {"fifo", "local"}
    Capacity = 2
    WriteSize = 3
    ReadSize = 1
    Backlog = 2
    MaxWrites = 2
    MaxOpens = 4
    MaxMishaps = 1
    EFAULT = 1
SYMMETRY Symmetry
VIEW View
INVARIANTS StreamIntact  PanicsAreKnown
CHECK_DEADLOCK FALSE
