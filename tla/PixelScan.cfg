CONSTANTS
    MaxSize = 7
    Excess = 0
SPECIFICATION ScanSpec
INVARIANTS
    WorkIsTheBlackPixels
    SpansAreSendable
    LoopIsScanFrame
\* The whole file has been read.
CHECK_DEADLOCK FALSE
