SPECIFICATION ConsoleSpec
CONSTANTS
    ReplyCap = 16
    MaxParams = 6
    Capacity = 2
    Fronts <- MCFronts
    Chunks <- MCChunks
    Keys <- MCKeys
    Patterns <- MCPatterns
    Sizes <- MCSizes
    Named <- MCNamed
    MaxReads <- MCMaxReads
    MaxKeys <- MCMaxKeys
    MaxResizes <- MCMaxResizes
    Ways <- MCWays
    Pids <- MCPids
    RingSize = 3
    PipeSize = 2
    ReadSize = 2
    MaxBytes = 5
    MaxPresses = 2
    MaxRunsLogged = 2
INVARIANTS ConsoleOK LogIsWhole ShownWithoutGap Transcript
PROPERTIES MarginsHold FrozenStill
CHECK_DEADLOCK FALSE
