SPECIFICATION Spec
CONSTANTS
    Proc = {p1}
    Setting = {s1, s2}
    None = None
    MaxEdits = 1
    KeepStarting = FALSE
    Commands = {"init", "build", "clean"}
    BuildAlways = {TRUE}
    MayFail = {}
INVARIANT BuiltIsBuilt
