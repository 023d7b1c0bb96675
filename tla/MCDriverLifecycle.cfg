\* Up to two modules at a time, loaded, failing, unloaded and loaded again.
SPECIFICATION Spec
CONSTANTS
    Drivers <- ConformingAndTwin
    Checked <- Conforming
    Resources <- AllResources
    Script <- Scripts
    Family <- Families
    Needs <- Support
    Optional <- OptionalResources
    Tolerant <- TolerantReleases
    ClassName <- ClassNames
    MaxActive = 2
INVARIANTS
    TypeOK
    NoLeak
    NoStray
    LoadedIsComplete
    SupportHeld
