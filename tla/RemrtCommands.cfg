CONSTANTS
    NSlots = 2
    NFrames = 2
    NPixels = 2
    Prior <- MCPrior
    NeedTree = {1, 2}
    Lumps = {2}
    MaxHosts = 1
    FailingSends = {"DIRBUILD", "GETTREES", "LINES"}
    Faults = {"crash", "write", "version", "hang", "slow"}
    MaxFaults = 2
    Commands <- MCDropCommands
    MaxCommands = 2
SPECIFICATION Spec
INVARIANTS
    NoPixelLost
    TornIsRedone
    RepliesExpected
PROPERTIES
    FarmSpec
