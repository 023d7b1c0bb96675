\* One commit at a time from files and the client, and the module unloaded.
SPECIFICATION FairSpec
CHECK_DEADLOCK FALSE
INVARIANTS
    TypeOK
    DestroyedLast
    UnplugIsFinal
PROPERTY UnregisterReturns
