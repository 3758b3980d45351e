SPECIFICATION Spec
CONSTANTS
    t1 = t1
    t2 = t2
    Threads = {t1, t2}
    Setups <- UnsizedSetups
    UnbufferedWidth = 2
INVARIANT EveryPixelComputed
CHECK_DEADLOCK FALSE
