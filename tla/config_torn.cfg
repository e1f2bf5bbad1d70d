SPECIFICATION CSpec
CONSTANTS
    Proc = {p1, p2, p3}
    Path = {x1}
    LOCK_MAX = 4
    MaxPolls <- Polls
    SignalPoints = {"run", "open", "created", "unlinked", "renamed", "exiting", "exitUnlinked", "handler"}
    MayBeKilled = FALSE
    Inode = {1, 2, 3, 4, 5, 6}
    Blocks = 2
    Initial = initial
SYMMETRY ProcSymmetry
INVARIANT NeverTorn
