SPECIFICATION OrderlySpec
CONSTANTS
    Proc = {p1, p2}
    Path = {x1, x2, x3}
    LOCK_MAX = 2
    MaxPolls <- Polls
    SignalPoints = {"run", "open", "unlinked", "renamed", "exiting", "exitUnlinked"}
    MayBeKilled = FALSE
    Inode = {1, 2}
    Blocks = 1
    Initial = initial
INVARIANTS NothingStale RegistryCovered
PROPERTY AcquireReturns
