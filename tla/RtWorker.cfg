SPECIFICATION FairSpec
CONSTANTS
    t1 = t1
    t2 = t2
    Threads = {t1, t2}
    Setups <- SoundSetups
    UnbufferedWidth = 2
INVARIANTS
    NothingTwice
    EveryPixelComputed
    OutputWhole
    OneCPUPerScanline
PROPERTIES
    RunsEnd
    RunSpec
CHECK_DEADLOCK FALSE
