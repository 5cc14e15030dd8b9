SPECIFICATION Spec
CONSTANTS
    Callers = {background, command}
    Elevated = {command}
    NoCaller = NoCaller
    MaxGen = 3
INVARIANTS
    TypeOK
    OnePrompt
    OneConnector
    WriterIsCurrent
CHECK_DEADLOCK FALSE
