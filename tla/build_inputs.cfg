SPECIFICATION BuildSpec
CONSTANTS
    Trees <- AllTrees
    Defaults <- Some1
    Sdkconfigs <- Some2
    Typed = {0, 1, 2, 3}
    MaxIters = 8
    Tools = {"kconfgen", "menuconfig"}
    MaxTurns = 3
    Policies = {"sdkconfig", "kconfig"}
    Heights = {2, 3, 4, 7}
    MaxKeys = 6
    MaxMaps = 2
    Topics = {"configuration", "kconfig files", "linker script", "fragments", "dependencies", "partition table", "sizes", "requirements", "yaml files", "images"}
INVARIANTS
    Settles NoLeftovers RoundTrip
    FilesReadBack PlacedByItsRule DependenciesKept LayoutSound SizesAddUp RequirementsHold ImageLoads
PROPERTY CaretFollows
CHECK_DEADLOCK FALSE
