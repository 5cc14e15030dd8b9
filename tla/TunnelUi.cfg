SPECIFICATION Spec
CONSTANTS
    Proxies = {p1, p2}
    Clicks = {click1, click2}
    Polls = {poll1}
    MaxMoves = 2
    MaxEvents = 1
INVARIANTS
    TypeOK
    BusyIsAnswered
PROPERTY ShownSettles
CHECK_DEADLOCK FALSE
