\* The regulator driver alone: its last step fails.
SPECIFICATION Spec
CONSTANTS
    Drivers <- OnlyRegulator
    Checked <- OnlyRegulator
    Resources <- AllResources
    Script <- Scripts
    Family <- Families
    Needs <- Support
    Optional <- OptionalResources
    Tolerant <- TolerantReleases
    ClassName <- ClassNames
    MaxActive = 1
INVARIANT NoLeak
