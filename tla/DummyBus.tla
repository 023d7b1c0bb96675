------------------------------ MODULE DummyBus ------------------------------
(***************************************************************************)
(* bus/dummy_bus and bus/basic_bus: a bus module, and modules for its      *)
(* devices and drivers.  Every insmod and rmmod is a thread of its own, so *)
(* the init and exit functions of different modules overlap.               *)
(*                                                                         *)
(* The driver core is not part of the repository.  It appears by the order *)
(* in which it adds, walks, locks and unlinks, because that is what the    *)
(* callbacks of the bus meet: a device that is added asks each registered  *)
(* driver, a driver that is added asks each registered device, and whoever *)
(* is first binds, under the lock of the device.                           *)
(***************************************************************************)
EXTENDS Integers, Sequences, FiniteSets

CONSTANTS
    Devices,      \* device modules
    Drivers,      \* driver modules
    NoDriver,     \* "no driver"
    NoDevice,     \* "no device"
    DevName,      \* DevName[d]: init_name
    DrvName,      \* DrvName[r]: driver.name
    IdTable,      \* IdTable[r]: the names in its id_table, with the sentinel
    Ops,          \* Ops[r]: which of "probe" and "remove" r provides
    Picky,        \* drivers whose probe() may return an error
    Sentinel      \* the empty name that ends an id_table

ASSUME ActorAssumption ==
    /\ NoDriver \notin Drivers
    /\ NoDevice \notin Devices
    /\ Devices \cap Drivers = {}

\* Every id_table ends in the one empty entry it has, and a device has a name.
ASSUME TableAssumption ==
    /\ \A r \in Drivers : Len(IdTable[r]) \in Nat
    /\ \A r \in Drivers : DOMAIN IdTable[r] = 1 .. Len(IdTable[r])
    /\ \A r \in Drivers : \A i \in 1 .. Len(IdTable[r]) :
          IdTable[r][i] = Sentinel <=> i = Len(IdTable[r])
    /\ \A d \in Devices : DevName[d] # Sentinel

VARIABLES
    bus,          \* the bus module that is loaded, or "none"
    devPc,        \* where the module of each device is
    drvPc,        \* where the module of each driver is
    devAt,        \* the driver that the thread of a device is probing
    drvAt,        \* the device that the thread of a driver has in hand
    asked,        \* asked[x]: whom the walk of x has been at
    bound,        \* dev->driver
    attached,     \* attached[r]: the devices probe() was told of, and remove()
                  \* was not
    parted        \* parted[r]: the devices that have lost a driver since r
                  \* passed them (history)

walkVars == <<devAt, drvAt, asked>>
vars == <<bus, devPc, drvPc, walkVars, bound, attached, parted>>

Buses  == {"none", "dummy_bus", "basic_bus"}
DevPcs == {"out", "add", "attach", "walk", "probe", "in", "kill", "release"}
DrvPcs == {"out", "add", "walk", "lock", "probe", "in", "unlink", "detach",
           "fault"}

Actors == Devices \cup Drivers

\* In the bus's list of drivers, of devices.
Listed(r) == drvPc[r] \in {"walk", "lock", "probe", "in", "fault"}
OnBus(d) == devPc[d] \in {"attach", "walk", "probe", "in", "kill"}

\* device_lock(): held by the thread of the device while it walks, by the
\* thread of a driver while it probes.
Unlocked(d) ==
    /\ devPc[d] \notin {"walk", "probe"}
    /\ \A r \in Drivers : ~(drvPc[r] = "probe" /\ drvAt[r] = d)

-----------------------------------------------------------------------------
(* The callbacks of the buses                                              *)

\* Faulty variant: the table is entered at its second entry.
dummy_bus_match_SkipsFirst(d, r) ==
    \E i \in 2 .. Len(IdTable[r]) :
        /\ IdTable[r][i] = DevName[d]
        /\ \A j \in 1 .. i : IdTable[r][j] # Sentinel

\* Faulty variant: the result of strcmp() is taken for "equal".
dummy_bus_match_Inverted(d, r) ==
    \E i \in 1 .. Len(IdTable[r]) :
        /\ IdTable[r][i] # DevName[d]
        /\ \A j \in 1 .. i : IdTable[r][j] # Sentinel

\* The walk over id_table up to the sentinel (dummy_bus).
dummy_bus_match(d, r) ==
    \E i \in 1 .. Len(IdTable[r]) :
        /\ IdTable[r][i] = DevName[d]
        /\ \A j \in 1 .. i : IdTable[r][j] # Sentinel

\* strcmp(dev_name(dev), drv->name) (basic_bus)
basic_bus_match(d, r) == DevName[d] = DrvName[r]

Match(d, r) ==
    IF bus = "basic_bus" THEN basic_bus_match(d, r) ELSE dummy_bus_match(d, r)

\* The driver's probe() decides, if there is one: ok is what it returns.
MayReturn(r, ok) == ok \/ ("probe" \in Ops[r] /\ r \in Picky)

\* Faulty variant: container_of() is applied to the driver's pointer.
dummy_bus_probe_WrongObject(d, r) ==
    attached' = IF "probe" \in Ops[r]
                THEN [attached EXCEPT ![r] = @ \cup {r}]
                ELSE attached

dummy_bus_probe(d, r) ==
    attached' = IF "probe" \in Ops[r]
                THEN [attached EXCEPT ![r] = @ \cup {d}]
                ELSE attached

\* Faulty variant: the driver's remove() is never called.
dummy_bus_remove_Nothing(d, r) == UNCHANGED attached

dummy_bus_remove(d, r) ==
    attached' = IF "remove" \in Ops[r]
                THEN [attached EXCEPT ![r] = @ \ {d}]
                ELSE attached

\* Under the lock of d: dev->driver is set, and the bus's probe() is called.
\* basic_bus has no probe() and remove(), so the core calls the driver's own,
\* which comes to the same.
Probe(d, r) ==
    /\ bound' = [bound EXCEPT ![d] = r]
    /\ dummy_bus_probe(d, r)

\* Under the lock of d: the bus's remove() is called, dev->driver cleared.
Remove(d) ==
    /\ dummy_bus_remove(d, bound[d])
    /\ bound' = [bound EXCEPT ![d] = NoDriver]

\* A device that stays without its driver: those who have walked past it do
\* not come back.
Part(d) ==
    parted' = [r \in Drivers |->
                 IF drvPc[r] = "in" \/ d \in asked[r] THEN parted[r] \cup {d}
                 ELSE parted[r]]

-----------------------------------------------------------------------------
(* The bus module.  Devices and drivers use its symbols, so it cannot go    *)
(* before they do.                                                          *)

dummy_bus_init(b) ==
    /\ bus = "none"
    /\ bus' = b
    /\ UNCHANGED <<devPc, drvPc, walkVars, bound, attached, parted>>

dummy_bus_exit ==
    /\ bus # "none"
    /\ \A d \in Devices : devPc[d] = "out"
    /\ \A r \in Drivers : drvPc[r] = "out"
    /\ bus' = "none"
    /\ UNCHANGED <<devPc, drvPc, walkVars, bound, attached, parted>>

-----------------------------------------------------------------------------
(* A device module                                                         *)

InsmodDevice(d) ==
    /\ bus # "none"
    /\ devPc[d] = "out"
    /\ devPc' = [devPc EXCEPT ![d] = "add"]
    /\ parted' = [r \in Drivers |-> parted[r] \ {d}]
    /\ UNCHANGED <<bus, drvPc, walkVars, bound, attached>>

\* device_register(): the device is in the bus's list before any driver is
\* asked.  An error is returned, and the module does not stay.
dummy_device_init(d, ok) ==
    /\ devPc[d] = "add"
    /\ devPc' = [devPc EXCEPT ![d] = IF ok THEN "attach" ELSE "out"]
    /\ asked' = [x \in Actors |-> asked[x] \ {d}]
    /\ UNCHANGED <<bus, drvPc, devAt, drvAt, bound, attached, parted>>

\* The lock is taken.  A driver may have been quicker.
DeviceAttach(d) ==
    /\ devPc[d] = "attach"
    /\ Unlocked(d)
    /\ devPc' = [devPc EXCEPT ![d] = IF bound[d] = NoDriver THEN "walk"
                                     ELSE "in"]
    /\ UNCHANGED <<bus, drvPc, walkVars, bound, attached, parted>>

DeviceAsks(d, r) ==
    /\ devPc[d] = "walk"
    /\ Listed(r) /\ r \notin asked[d]
    /\ asked' = [asked EXCEPT ![d] = @ \cup {r}]
    /\ IF Match(d, r)
       THEN /\ devPc' = [devPc EXCEPT ![d] = "probe"]
            /\ devAt' = [devAt EXCEPT ![d] = r]
       ELSE UNCHANGED <<devPc, devAt>>
    /\ UNCHANGED <<bus, drvPc, drvAt, bound, attached, parted>>

\* A failing probe() sends the walk on to the next driver.
DeviceProbes(d, ok) ==
    /\ devPc[d] = "probe"
    /\ MayReturn(devAt[d], ok)
    /\ IF ok
       THEN /\ devPc' = [devPc EXCEPT ![d] = "in"]
            /\ asked' = [asked EXCEPT ![d] = {}]
            /\ Probe(d, devAt[d])
       ELSE /\ devPc' = [devPc EXCEPT ![d] = "walk"]
            /\ UNCHANGED <<asked, bound, attached>>
    /\ devAt' = [devAt EXCEPT ![d] = NoDriver]
    /\ UNCHANGED <<bus, drvPc, drvAt, parted>>

DeviceAskedAll(d) ==
    /\ devPc[d] = "walk"
    /\ \A r \in Drivers : Listed(r) => r \in asked[d]
    /\ devPc' = [devPc EXCEPT ![d] = "in"]
    /\ asked' = [asked EXCEPT ![d] = {}]
    /\ UNCHANGED <<bus, drvPc, devAt, drvAt, bound, attached, parted>>

\* rmmod: device_unregister() marks the device dead under its lock and takes
\* it off the list; then the driver is released, under the lock again.
dummy_device_exit(d) ==
    /\ devPc[d] = "in"
    /\ devPc' = [devPc EXCEPT ![d] = "kill"]
    /\ UNCHANGED <<bus, drvPc, walkVars, bound, attached, parted>>

DeviceKilled(d) ==
    /\ devPc[d] = "kill"
    /\ Unlocked(d)
    /\ devPc' = [devPc EXCEPT ![d] = "release"]
    /\ UNCHANGED <<bus, drvPc, walkVars, bound, attached, parted>>

\* The device is a static object, so its memory goes with the module although
\* the walk of a driver may still have a reference to it: that thread faults
\* when it takes the lock, and its module neither finishes loading nor goes.
DeviceReleased(d) ==
    /\ devPc[d] = "release"
    /\ Unlocked(d)
    /\ IF bound[d] # NoDriver THEN Remove(d) ELSE UNCHANGED <<bound, attached>>
    /\ devPc' = [devPc EXCEPT ![d] = "out"]
    /\ drvPc' = [r \in Drivers |-> IF drvAt[r] = d THEN "fault" ELSE drvPc[r]]
    /\ drvAt' = [r \in Drivers |-> IF drvAt[r] = d THEN NoDevice ELSE drvAt[r]]
    /\ UNCHANGED <<bus, devAt, asked, parted>>

-----------------------------------------------------------------------------
(* A driver module                                                         *)

InsmodDriver(r) ==
    /\ bus # "none"
    /\ drvPc[r] = "out"
    /\ drvPc' = [drvPc EXCEPT ![r] = "add"]
    /\ attached' = [attached EXCEPT ![r] = {}]
    /\ parted' = [parted EXCEPT ![r] = {}]
    /\ UNCHANGED <<bus, devPc, walkVars, bound>>

\* driver_register(): in the bus's list before any device is asked.
dummy_bus_register_driver(r, ok) ==
    /\ drvPc[r] = "add"
    /\ drvPc' = [drvPc EXCEPT ![r] = IF ok THEN "walk" ELSE "out"]
    /\ asked' = [x \in Actors |-> asked[x] \ {r}]
    /\ UNCHANGED <<bus, devPc, devAt, drvAt, bound, attached, parted>>

\* match() is called without the lock.
DriverAsks(r, d) ==
    /\ drvPc[r] = "walk"
    /\ OnBus(d) /\ d \notin asked[r]
    /\ asked' = [asked EXCEPT ![r] = @ \cup {d}]
    /\ IF Match(d, r)
       THEN /\ drvPc' = [drvPc EXCEPT ![r] = "lock"]
            /\ drvAt' = [drvAt EXCEPT ![r] = d]
       ELSE UNCHANGED <<drvPc, drvAt>>
    /\ UNCHANGED <<bus, devPc, devAt, bound, attached, parted>>

\* With the lock, a device that is bound by now, or dead, is passed over.
DriverLocks(r) ==
    LET d == drvAt[r]
        skip == bound[d] # NoDriver \/ devPc[d] = "release"
    IN  /\ drvPc[r] = "lock"
        /\ Unlocked(d)
        /\ drvPc' = [drvPc EXCEPT ![r] = IF skip THEN "walk" ELSE "probe"]
        /\ drvAt' = [drvAt EXCEPT ![r] = IF skip THEN NoDevice ELSE d]
        /\ UNCHANGED <<bus, devPc, devAt, asked, bound, attached, parted>>

DriverProbes(r, ok) ==
    /\ drvPc[r] = "probe"
    /\ MayReturn(r, ok)
    /\ IF ok THEN Probe(drvAt[r], r) ELSE UNCHANGED <<bound, attached>>
    /\ drvPc' = [drvPc EXCEPT ![r] = "walk"]
    /\ drvAt' = [drvAt EXCEPT ![r] = NoDevice]
    /\ UNCHANGED <<bus, devPc, devAt, asked, parted>>

DriverAskedAll(r) ==
    /\ drvPc[r] = "walk"
    /\ \A d \in Devices : OnBus(d) => d \in asked[r]
    /\ drvPc' = [drvPc EXCEPT ![r] = "in"]
    /\ asked' = [asked EXCEPT ![r] = {}]
    /\ UNCHANGED <<bus, devPc, devAt, drvAt, bound, attached, parted>>

\* Faulty variant: nothing is unregistered.
dummy_bus_del_driver_Forgets(r) ==
    /\ drvPc[r] = "in"
    /\ drvPc' = [drvPc EXCEPT ![r] = "out"]
    /\ UNCHANGED <<bus, devPc, walkVars, bound, attached, parted>>

\* rmmod: driver_unregister() unlinks the driver, ...
dummy_bus_del_driver(r) ==
    /\ drvPc[r] = "in"
    /\ drvPc' = [drvPc EXCEPT ![r] = "unlink"]
    /\ UNCHANGED <<bus, devPc, walkVars, bound, attached, parted>>

\* ... waits until no walk stands at it, ...
DriverUnlinked(r) ==
    /\ drvPc[r] = "unlink"
    /\ \A d \in Devices : devAt[d] # r
    /\ drvPc' = [drvPc EXCEPT ![r] = "detach"]
    /\ UNCHANGED <<bus, devPc, walkVars, bound, attached, parted>>

\* ... releases its devices one by one, each under its lock, ...
DriverDetaches(r, d) ==
    /\ drvPc[r] = "detach"
    /\ bound[d] = r
    /\ Unlocked(d)
    /\ Remove(d)
    /\ Part(d)
    /\ UNCHANGED <<bus, devPc, drvPc, walkVars>>

\* ... and the module goes.
DriverGone(r) ==
    /\ drvPc[r] = "detach"
    /\ \A d \in Devices : bound[d] # r
    /\ drvPc' = [drvPc EXCEPT ![r] = "out"]
    /\ UNCHANGED <<bus, devPc, walkVars, bound, attached, parted>>

-----------------------------------------------------------------------------
(* The files bind and unbind that the core keeps in sysfs for a driver      *)

SysfsUnbind(d) ==
    /\ bound[d] # NoDriver
    /\ drvPc[bound[d]] = "in" /\ OnBus(d)
    /\ Unlocked(d)
    /\ Remove(d)
    /\ Part(d)
    /\ UNCHANGED <<bus, devPc, drvPc, walkVars>>

SysfsBind(d, r) ==
    /\ drvPc[r] = "in" /\ OnBus(d)
    /\ bound[d] = NoDriver
    /\ Match(d, r)
    /\ Unlocked(d)
    /\ Probe(d, r)
    /\ UNCHANGED <<bus, devPc, drvPc, walkVars, parted>>

-----------------------------------------------------------------------------
Init ==
    /\ bus = "none"
    /\ devPc = [d \in Devices |-> "out"]
    /\ drvPc = [r \in Drivers |-> "out"]
    /\ devAt = [d \in Devices |-> NoDriver]
    /\ drvAt = [r \in Drivers |-> NoDevice]
    /\ asked = [x \in Actors |-> {}]
    /\ bound = [d \in Devices |-> NoDriver]
    /\ attached = [r \in Drivers |-> {}]
    /\ parted = [r \in Drivers |-> {}]

BusNext == dummy_bus_exit \/ \E b \in Buses \ {"none"} : dummy_bus_init(b)

DeviceNext(d) ==
    \/ InsmodDevice(d)
    \/ \E ok \in BOOLEAN : dummy_device_init(d, ok) \/ DeviceProbes(d, ok)
    \/ DeviceAttach(d)
    \/ \E r \in Drivers : DeviceAsks(d, r)
    \/ DeviceAskedAll(d)
    \/ dummy_device_exit(d) \/ DeviceKilled(d) \/ DeviceReleased(d)
    \/ SysfsUnbind(d)

DriverNext(r) ==
    \/ InsmodDriver(r)
    \/ \E ok \in BOOLEAN :
          dummy_bus_register_driver(r, ok) \/ DriverProbes(r, ok)
    \/ \E d \in Devices : DriverAsks(r, d)
    \/ DriverLocks(r) \/ DriverAskedAll(r)
    \/ dummy_bus_del_driver(r) \/ DriverUnlinked(r)
    \/ \E d \in Devices : DriverDetaches(r, d) \/ SysfsBind(d, r)
    \/ DriverGone(r)

Next ==
    \/ BusNext
    \/ \E d \in Devices : DeviceNext(d)
    \/ \E r \in Drivers : DriverNext(r)

Spec == Init /\ [][Next]_vars
-----------------------------------------------------------------------------
(* Properties                                                              *)

\* Every variable keeps its type.
TypeOK ==
    /\ bus \in Buses
    /\ devPc \in [Devices -> DevPcs] /\ drvPc \in [Drivers -> DrvPcs]
    /\ devAt \in [Devices -> Drivers \cup {NoDriver}]
    /\ drvAt \in [Drivers -> Devices \cup {NoDevice}]
    /\ asked \in [Actors -> SUBSET Actors]
    /\ bound \in [Devices -> Drivers \cup {NoDriver}]
    /\ attached \in [Drivers -> SUBSET Devices]
    /\ parted \in [Drivers -> SUBSET Devices]

\* The code of a driver is in memory as long as the bus may call it: it is
\* being probed, or it is bound and its remove() is to come.
CodeInMemory ==
    \A d \in Devices : \A r \in Drivers :
        devAt[d] = r \/ bound[d] = r => drvPc[r] \notin {"out", "add"}

\* The devices a driver thinks it drives are the ones bound to it, so each
\* successful probe() is followed by one remove() and by no second probe(),
\* and a driver module that has gone drives nothing.
ProbesPaired ==
    \A r \in Drivers :
        Ops[r] = {"probe", "remove"}
            => attached[r] = {d \in Devices : bound[d] = r}

\* The names a driver lists are the devices it is for.
Supports(d, r) ==
    IF bus = "basic_bus" THEN DevName[d] = DrvName[r]
    ELSE \E i \in DOMAIN IdTable[r] : DevName[d] = IdTable[r][i]

\* However the loading of a device and of a driver for it overlap, one of the
\* two walks finds the other: when both are done the device has a driver,
\* unless it has lost one since the driver passed it, or probe() refuses.  A
\* driver that is loaded, or loaded again, after the loss has to bind it.
NoMissedBinding ==
    \A d \in Devices : \A r \in Drivers :
        /\ devPc[d] = "in" /\ drvPc[r] = "in"
        /\ Supports(d, r)
        /\ r \notin Picky
        => bound[d] # NoDriver \/ d \in parted[r]

-----------------------------------------------------------------------------
(* The bus implements the abstract matchmaker.                             *)

Agency == INSTANCE Matchmaker WITH
    present <- {d \in Devices : devPc[d] \notin {"out", "add"}}
                 \cup {r \in Drivers : drvPc[r] \notin {"out", "add"}},
    binding <- bound,
    fits <- {p \in Devices \X Drivers : Supports(p[1], p[2])}

\* A device is bound to one driver at a time, one that lists it, while both
\* are on the bus, and neither side leaves before the binding is undone.
BusRefined == Agency!Spec
=============================================================================
