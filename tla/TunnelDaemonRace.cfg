SPECIFICATION Spec
CONSTANTS
    Conns = {c1, c2}
    NoConn = NoConn
    MaxUnread = 0
SYMMETRY Symmetry
INVARIANT IssuerExitStopsTunnel
CHECK_DEADLOCK FALSE
