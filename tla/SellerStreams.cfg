SPECIFICATION FairSpec
CONSTANTS
    Streams = {x1, x2, x3}
    Sids = {i1, i2}
    NoStream = NoStream
    NoSid = NoSid
    MaxStreams = 1
INVARIANTS
    StreamLimit
    DataReachesItsStream
    OpenStaysServed
PROPERTY NothingStays
\* The connection ends for good.
CHECK_DEADLOCK FALSE
