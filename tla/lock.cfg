SPECIFICATION CSpec
CONSTANTS
    Proc = {p1, p2}
    Path = {x1, x2}
    LOCK_MAX = 2
    MaxPolls <- Polls
    SignalPoints = {"run", "open", "created", "exiting"}
    MayBeKilled = TRUE
    Inode = {1, 2, 3, 4, 5}
    Blocks = 2
    Initial = initial
SYMMETRY ProcSymmetry
INVARIANTS TypeOK MutualExclusion
PROPERTIES NoForeignUnlink AtomicReplace
