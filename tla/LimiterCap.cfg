SPECIFICATION Spec
CONSTANTS
    Connections = {c1, c2, c3}
    HandshakeLimit = 1
    TotalLimit = 3
INVARIANT
    RefusedAtABoundOnly
