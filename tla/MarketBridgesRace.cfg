SPECIFICATION Spec
CONSTANTS
    Sids = {s1}
    Handlers = {h1}
    Ports = {1, 2}
    MaxPage = 1
PROPERTY HealthyBridgeKept
CHECK_DEADLOCK FALSE
