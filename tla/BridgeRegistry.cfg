SPECIFICATION Spec
CONSTANTS
    Sessions = {s1, s2}
    Callers = {k1, k2, k3}
    Hosts = {relay, literal}
    Literals = {literal}
    Ports = {p1, p2}
    NoSession = NoSession
    NoPort = NoPort
    MaxAnswer = 2
SYMMETRY Symmetry
INVARIANTS
    OneListener
    NeverFake
PROPERTY KeepsBridgeMap
