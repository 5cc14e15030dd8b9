SPECIFICATION FairSpec
CONSTANTS
    Callers = {first, second}
    Elevated = {first, second}
    NoCaller = NoCaller
    MaxGen = 2
INVARIANT OnePrompt
PROPERTY CallsReturn
CHECK_DEADLOCK FALSE
