CONSTANTS
    NSlots = 2
    NFrames = 1
    NPixels = 2
    Prior <- MCNoPrior
    NeedTree = {1}
    Lumps = {2}
    MaxHosts = 2
    FailingSends = {}
    Faults = {"hang"}
    MaxFaults = 1
    Commands = {}
    MaxCommands = 0
SPECIFICATION FairSpec
PROPERTIES
    TardyIsDropped
