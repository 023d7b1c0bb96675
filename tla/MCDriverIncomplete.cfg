\* The GPIO driver alone: the chip cannot be added.
SPECIFICATION Spec
CONSTANTS
    Drivers <- OnlyGpio
    Checked <- OnlyGpio
    Resources <- AllResources
    Script <- Scripts
    Family <- Families
    Needs <- Support
    Optional <- OptionalResources
    Tolerant <- TolerantReleases
    ClassName <- ClassNames
    MaxActive = 1
INVARIANT LoadedIsComplete
