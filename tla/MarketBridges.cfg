SPECIFICATION Spec
CONSTANTS
    Sids = {s1}
    Handlers = {h1}
    Ports = {1, 2}
    MaxPage = 2
INVARIANTS
    TypeOK
    ShownPortServes
PROPERTY Converges
CHECK_DEADLOCK FALSE
