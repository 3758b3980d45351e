CONSTANTS
    NSlots = 2
    NFrames = 2
    NPixels = 3
    Prior <- MCPrior
    NeedTree = {1, 2}
    Lumps = {2}
    MaxHosts = 2
    FailingSends = {"DIRBUILD", "GETTREES", "LINES"}
    Faults = {"crash", "remrt"}
    MaxFaults = 2
    Commands = {}
    MaxCommands = 0
SPECIFICATION FairSpec
INVARIANTS
    NoPixelLost
    NoDoubleWork
    FinishedComplete
    RightView
    DroppedIsReclaimed
    RepliesExpected
    AssignmentUnderWay
PROPERTIES
    FarmSpec
    AllFramesDone
