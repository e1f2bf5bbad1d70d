SPECIFICATION Spec
CONSTANTS
    Proc = {p1}
    Setting = {s1, s2}
    None = None
    MaxEdits = 1
    KeepStarting = FALSE
    Commands = {"init", "flash"}
    BuildAlways = {TRUE}
    MayFail = {}
INVARIANT FlashedAsBuilt
