SPECIFICATION Spec
CONSTANTS
    Acceptors = {a1}
    Readers = {r1, r2}
    InitialSeqs = {50}
    ServerSeq = 10
    Width = 100
    MaxSends = 2
    MaxCalls <- MCMaxCalls
    MaxFaults = 1
    MaxTicks = 1
    BufferSize = 1
    Backlog = 1
    Modes = {"reliable", "lossy"}
INVARIANTS StreamIntact NothingForgottenEarly PanicsAreKnown SettledWhenQuiet
CHECK_DEADLOCK FALSE
SYMMETRY Symmetry
