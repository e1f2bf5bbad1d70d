SPECIFICATION ComponentsSpec
CONSTANTS
    idf = idf
    qa = qa
    qb = qb
    qc = qc
    home = home
    mirror = mirror
    NoUrl = NoUrl
    Pkg <- Pkgs
    MaxVer = 2
    Scripts <- AllScripts
    Url <- Urls
    DefaultUrl = home
    Idf = idf
    Projects <- AnyProject
    hc = hc
    pl = pl
    gt = gt
    fa = fa
    fb = fb
    None = None
    Comp <- Comps
    Kind <- Kinds
    MaxRelease = 2
    File <- Files
    Ships <- ShipsTwo
    UserLocks <- Checkouts
    EditPoints <- EditSteps
    MaxEdits = 1
    MaxFaults = 2
INVARIANTS NoResidue ResolvedRight RootsChoose ListedIsThere
PROPERTIES AnswersRight HighestFirst Resolves PinHolds Recovers
CHECK_DEADLOCK FALSE
