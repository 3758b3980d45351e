SPECIFICATION FairSpec
CONSTANTS
    s1 = s1
    s2 = s2
    Slaves = {s1, s2}
    Setups <- AllSetups
    None = None
INVARIANTS
    BufferIsQueue
    NoUnitLost
    OneSlavePerUnit
    OutIsOut
    NobodyForgotten
    FrameIsWhole
PROPERTY Served
CHECK_DEADLOCK FALSE
