\* Two devices and two drivers come and go in any order, on either bus.
SPECIFICATION Spec
CONSTANTS
    Devices <- MCDevices
    Drivers <- MCDrivers
    NoDriver = NoDriver
    NoDevice = NoDevice
    DevName <- MCDevName
    DrvName <- MCDrvName
    IdTable <- MCIdTable
    Ops <- MCOps
    Picky = {"other"}
    Sentinel = ""
INVARIANTS
    TypeOK
    CodeInMemory
    ProbesPaired
    NoMissedBinding
PROPERTY BusRefined
