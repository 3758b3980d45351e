SPECIFICATION FairSpec
CONSTANTS
    s1 = s1
    s2 = s2
    Slaves = {s1, s2}
    Setups <- OneFrame
    None = None
PROPERTY WaitEnds
CHECK_DEADLOCK FALSE
