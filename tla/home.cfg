SPECIFICATION HomeSpec
CONSTANTS
    u1 = u1
    u2 = u2
    master = master
    release = release
    tag = tag
    d1 = d1
    e1 = e1
    e2 = e2
    s1 = s1
    s2 = s2
    None = None
    Topics = {"tools", "repo", "update", "project", "settings"}
    Manifest <- TwoTools
    Entries = 2
    MaxToolFaults = 2
    User <- Users
    Branch <- Branches
    Tag <- Tags
    Master = master
    Dest <- Dests
    MaxCommit = 2
    MaxRuns = 3
    MaxRepoFaults = 1
    Updater <- Users
    Exe <- Exes
    Parts = 2
    MaxUpdateFaults = 2
    Proc <- Users
    Setting <- Settings
    MaxEdits = 1
    KeepStarting = FALSE
    Commands = {"init", "build", "clean", "flash"}
    BuildAlways = {TRUE, FALSE}
    MayFail <- Anywhere
    Changes <- SettingChanges
    Profiles <- SettingProfiles
    MaxChanges = 3
SYMMETRY UserSymmetry
INVARIANTS
    ForcedIsWhole SilentMeansWhole OneExeStaysWhole
    DirectoryIsOne BuildIsWhole SettingsKept
PROPERTY FinishedIsLeftAlone
CHECK_DEADLOCK FALSE
