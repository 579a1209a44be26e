SPECIFICATION FairSpec
CONSTANTS
    Visitors = {v}
    Replays = {w}
    TeeBuffer = 1
    ListenerBuffer = 2
    RingCapacity = 1
    Scripts <- Scripts_
CHECK_DEADLOCK FALSE
PROPERTY InspectorsEnd
