SPECIFICATION Spec
CONSTANTS
    Callers = {background, command}
    Elevated = {command}
    NoCaller = NoCaller
    MaxGen = 2
PROPERTY StaleReaderSparesWriter
CHECK_DEADLOCK FALSE
