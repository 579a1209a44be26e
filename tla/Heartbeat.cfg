SPECIFICATION Spec
CONSTANTS
    PingInterval = 20
    MaxPongLatency = 15
    PingTimeout = 30
    ReapInterval = 10
    Delay = 4
    MaxReplacedWait = 10
    Preempted = FALSE
    None = None
INVARIANTS
    
    
    SilenceEndsTheSession
    SilenceEndsTheControl
CHECK_DEADLOCK FALSE
