\* The video driver alone: it is loaded and unloaded.
SPECIFICATION Spec
CONSTANTS
    Drivers <- OnlyVideo
    Checked <- OnlyVideo
    Resources <- AllResources
    Script <- Scripts
    Family <- Families
    Needs <- Support
    Optional <- OptionalResources
    Tolerant <- TolerantReleases
    ClassName <- ClassNames
    MaxActive = 1
INVARIANT NoStray
