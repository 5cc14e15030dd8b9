SPECIFICATION Spec
CONSTANTS
    Proxies = {p1}
    Clicks = {click1}
    Polls = {poll1}
    MaxMoves = 2
    MaxEvents = 1
PROPERTY ErrorKept
CHECK_DEADLOCK FALSE
