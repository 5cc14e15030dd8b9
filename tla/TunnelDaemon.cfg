SPECIFICATION FairSpec
CONSTANTS
    Conns = {c1, c2}
    NoConn = NoConn
    MaxUnread = 1
INVARIANTS
    TypeOK
    FinishedLeavesNothing
    NoOwnerDuringTeardown
    LoneGuiOwnsTunnel
PROPERTY ExitTearsDown
\* Connection ids run out in this instance, so the daemon may come to rest.
CHECK_DEADLOCK FALSE
