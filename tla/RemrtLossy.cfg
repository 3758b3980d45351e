CONSTANTS
    NSlots = 2
    NFrames = 1
    NPixels = 2
    Prior <- MCNoPrior
    NeedTree = {}
    Lumps = {1}
    MaxHosts = 2
    FailingSends = {"MATRIX", "RESTART"}
    Faults = {"crash", "open", "remrt"}
    MaxFaults = 2
    Commands <- MCAllCommands
    MaxCommands = 1
SPECIFICATION Spec
INVARIANTS
    NothingTwice
