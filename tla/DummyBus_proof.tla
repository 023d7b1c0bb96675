--------------------------- MODULE DummyBus_proof ---------------------------
(***************************************************************************)
(* Safety of DummyBus, and that it implements Matchmaker.                  *)
(***************************************************************************)
EXTENDS DummyBus, TLAPS

\* A walk over a table that ends in its only empty entry sees every name.
LEMMA MatchIsSupport ==
    ASSUME NEW d \in Devices, NEW r \in Drivers
    PROVE  Match(d, r) <=> Supports(d, r)
  <1>1. dummy_bus_match(d, r) <=> \E i \in DOMAIN IdTable[r] : DevName[d] = IdTable[r][i]
    BY TableAssumption DEF dummy_bus_match
  <1> QED
    BY <1>1 DEF Match, Supports, basic_bus_match

LEMMA MatchSame ==
    ASSUME NEW d \in Devices, NEW r \in Drivers, bus' = bus
    PROVE  Match(d, r)' <=> Match(d, r)
  BY DEF Match

-----------------------------------------------------------------------------
(* The inductive invariant                                                 *)

\* Without a bus module there is no other module.
BusFirst ==
    bus = "none" => /\ \A d \in Devices : devPc[d] = "out"
                    /\ \A r \in Drivers : drvPc[r] = "out"

\* What a thread has in hand, and what it knows of it.
DeviceHand ==
    \A d \in Devices :
        /\ devAt[d] # NoDriver <=> devPc[d] = "probe"
        /\ \A r \in Drivers : devAt[d] = r =>
              Match(d, r) /\ drvPc[r] \notin {"out", "add", "detach"}

DriverHand ==
    \A r \in Drivers :
        /\ drvAt[r] # NoDevice <=> drvPc[r] \in {"lock", "probe"}
        /\ \A d \in Devices : drvAt[r] = d =>
              Match(d, r) /\ devPc[d] \notin {"out", "add"}

\* A driver that is bound to a device has its code in memory.
BoundInMemory ==
    \A d \in Devices : \A r \in Drivers :
        bound[d] = r => drvPc[r] \notin {"out", "add"}

\* Whoever holds the lock of a device finds it unbound and is alone.
LockInv ==
    /\ \A d \in Devices : devPc[d] \in {"walk", "probe"} => bound[d] = NoDriver
    /\ \A r \in Drivers : \A d \in Devices :
          drvPc[r] = "probe" /\ drvAt[r] = d =>
             /\ bound[d] = NoDriver
             /\ devPc[d] \notin {"walk", "probe"}
             /\ \A q \in Drivers : drvPc[q] = "probe" /\ drvAt[q] = d => q = r

\* A walk starts from nothing.
WalkInv ==
    /\ \A d \in Devices : devPc[d] \notin {"walk", "probe"} => asked[d] = {}
    /\ \A r \in Drivers :
          drvPc[r] \in {"out", "add", "in", "unlink", "detach"} => asked[r] = {}

\* One of the two walks still has the other side before it, or in hand.
Pending(d, r) ==
    \/ devPc[d] = "attach"
    \/ devPc[d] \in {"walk", "probe"} /\ (r \notin asked[d] \/ devAt[d] = r)
    \/ drvPc[r] \in {"walk", "lock", "probe"}
         /\ (d \notin asked[r] \/ drvAt[r] = d)

NoLostPair ==
    \A d \in Devices : \A r \in Drivers :
        /\ devPc[d] \in {"attach", "walk", "probe", "in"}
        /\ drvPc[r] \in {"walk", "lock", "probe", "in"}
        /\ Match(d, r) /\ r \notin Picky
        => bound[d] # NoDriver \/ d \in parted[r] \/ Pending(d, r)

BusInv ==
    /\ TypeOK /\ BusFirst /\ DeviceHand /\ DriverHand /\ BoundInMemory
    /\ LockInv /\ WalkInv /\ ProbesPaired /\ NoLostPair

LEMMA BusInvInit == Init => BusInv
  <1> SUFFICES ASSUME Init PROVE BusInv
    OBVIOUS
  <1> USE ActorAssumption DEF Init
  <1>1. TypeOK
    BY DEF TypeOK, Buses, DevPcs, DrvPcs, Actors
  <1>2. BusFirst /\ DeviceHand /\ DriverHand /\ BoundInMemory
    BY DEF BusFirst, DeviceHand, DriverHand, BoundInMemory
  <1>3. LockInv /\ WalkInv /\ ProbesPaired /\ NoLostPair
    BY DEF LockInv, WalkInv, ProbesPaired, NoLostPair, Actors
  <1> QED
    BY <1>1, <1>2, <1>3 DEF BusInv

\* Types.
LEMMA TypeStep == BusInv /\ [Next]_vars => TypeOK'
  <1> SUFFICES ASSUME BusInv, [Next]_vars PROVE TypeOK'
    OBVIOUS
  <1> USE DEF BusInv, TypeOK, DeviceHand, DriverHand, Buses, DevPcs, DrvPcs,
              Actors
  <1>1. CASE BusNext \/ UNCHANGED vars
    BY <1>1, ActorAssumption
    DEF BusNext, dummy_bus_init, dummy_bus_exit, vars, walkVars
  <1>2. ASSUME NEW d \in Devices,
               InsmodDevice(d) \/ DeviceAttach(d) \/ DeviceAskedAll(d) \/
               dummy_device_exit(d) \/ DeviceKilled(d)
        PROVE  TypeOK'
    BY <1>2, ActorAssumption
    DEF InsmodDevice, DeviceAttach, Unlocked, DeviceAskedAll, Listed,
        dummy_device_exit, DeviceKilled, walkVars
  <1>3. ASSUME NEW d \in Devices, NEW ok \in BOOLEAN,
               dummy_device_init(d, ok)
        PROVE  TypeOK'
    BY <1>3, ActorAssumption DEF dummy_device_init
  <1>4. ASSUME NEW d \in Devices, NEW r \in Drivers, DeviceAsks(d, r)
        PROVE  TypeOK'
    BY <1>4, ActorAssumption DEF DeviceAsks, Listed
  <1>5. ASSUME NEW d \in Devices, NEW ok \in BOOLEAN, DeviceProbes(d, ok)
        PROVE  TypeOK'
    BY <1>5, ActorAssumption
    DEF DeviceProbes, MayReturn, Probe, dummy_bus_probe
  <1>6. ASSUME NEW d \in Devices, DeviceReleased(d) PROVE TypeOK'
    BY <1>6, ActorAssumption
    DEF DeviceReleased, Unlocked, Remove, dummy_bus_remove
  <1>7. ASSUME NEW d \in Devices,
               SysfsUnbind(d) \/ \E r \in Drivers : DriverDetaches(r, d)
        PROVE  TypeOK'
    BY <1>7, ActorAssumption
    DEF SysfsUnbind, DriverDetaches, Part, Unlocked, Remove, dummy_bus_remove,
        walkVars
  <1>8. ASSUME NEW d \in Devices, NEW r \in Drivers, SysfsBind(d, r)
        PROVE  TypeOK'
    BY <1>8, ActorAssumption
    DEF SysfsBind, Unlocked, Probe, dummy_bus_probe, walkVars
  <1>9. ASSUME NEW r \in Drivers,
               InsmodDriver(r) \/ DriverAskedAll(r) \/
               dummy_bus_del_driver(r) \/ DriverUnlinked(r) \/ DriverGone(r)
        PROVE  TypeOK'
    BY <1>9, ActorAssumption
    DEF InsmodDriver, DriverAskedAll, OnBus, dummy_bus_del_driver,
        DriverUnlinked, DriverGone, walkVars
  <1>10. ASSUME NEW r \in Drivers, NEW ok \in BOOLEAN,
                dummy_bus_register_driver(r, ok)
         PROVE  TypeOK'
    BY <1>10, ActorAssumption DEF dummy_bus_register_driver
  <1>11. ASSUME NEW r \in Drivers, NEW d \in Devices, DriverAsks(r, d)
         PROVE  TypeOK'
    BY <1>11, ActorAssumption DEF DriverAsks, OnBus
  <1>12. ASSUME NEW r \in Drivers, DriverLocks(r) PROVE TypeOK'
    BY <1>12, ActorAssumption DEF DriverLocks, Unlocked
  <1>13. ASSUME NEW r \in Drivers, NEW ok \in BOOLEAN, DriverProbes(r, ok)
         PROVE  TypeOK'
    BY <1>13, ActorAssumption
    DEF DriverProbes, MayReturn, Probe, dummy_bus_probe
  <1> HIDE DEF BusInv, TypeOK, DeviceHand, DriverHand, Buses, DevPcs, DrvPcs,
               Actors
  <1> QED
    BY <1>1, <1>2, <1>3, <1>4, <1>5, <1>6, <1>7, <1>8, <1>9, <1>10, <1>11,
       <1>12, <1>13
    DEF Next, DeviceNext, DriverNext

\* The bus module is loaded first and goes last.
LEMMA BusFirstStep == BusInv /\ [Next]_vars => BusFirst'
  <1> SUFFICES ASSUME BusInv, [Next]_vars PROVE BusFirst'
    OBVIOUS
  <1> USE DEF BusInv, TypeOK, BusFirst
  <1>1. CASE BusNext \/ UNCHANGED vars
    BY <1>1 DEF BusNext, dummy_bus_init, dummy_bus_exit, vars, walkVars
  <1>2. ASSUME NEW d \in Devices,
               InsmodDevice(d) \/ DeviceAttach(d) \/ DeviceAskedAll(d) \/
               dummy_device_exit(d) \/ DeviceKilled(d)
        PROVE  BusFirst'
    BY <1>2
    DEF InsmodDevice, DeviceAttach, Unlocked, DeviceAskedAll, Listed,
        dummy_device_exit, DeviceKilled, walkVars
  <1>3. ASSUME NEW d \in Devices, NEW ok \in BOOLEAN,
               dummy_device_init(d, ok)
        PROVE  BusFirst'
    BY <1>3 DEF dummy_device_init
  <1>4. ASSUME NEW d \in Devices, NEW r \in Drivers, DeviceAsks(d, r)
        PROVE  BusFirst'
    BY <1>4 DEF DeviceAsks, Listed
  <1>5. ASSUME NEW d \in Devices, NEW ok \in BOOLEAN, DeviceProbes(d, ok)
        PROVE  BusFirst'
    BY <1>5 DEF DeviceProbes, MayReturn, Probe, dummy_bus_probe
  <1>6. ASSUME NEW d \in Devices, DeviceReleased(d) PROVE BusFirst'
    BY <1>6 DEF DeviceReleased, Unlocked, Remove, dummy_bus_remove
  <1>7. ASSUME NEW d \in Devices,
               SysfsUnbind(d) \/ \E r \in Drivers : DriverDetaches(r, d)
        PROVE  BusFirst'
    BY <1>7
    DEF SysfsUnbind, DriverDetaches, Unlocked, Remove, dummy_bus_remove,
        walkVars
  <1>8. ASSUME NEW d \in Devices, NEW r \in Drivers, SysfsBind(d, r)
        PROVE  BusFirst'
    BY <1>8 DEF SysfsBind, Unlocked, Probe, dummy_bus_probe, walkVars
  <1>9. ASSUME NEW r \in Drivers,
               InsmodDriver(r) \/ DriverAskedAll(r) \/
               dummy_bus_del_driver(r) \/ DriverUnlinked(r) \/ DriverGone(r)
        PROVE  BusFirst'
    BY <1>9
    DEF InsmodDriver, DriverAskedAll, OnBus, dummy_bus_del_driver,
        DriverUnlinked, DriverGone, walkVars
  <1>10. ASSUME NEW r \in Drivers, NEW ok \in BOOLEAN,
                dummy_bus_register_driver(r, ok)
         PROVE  BusFirst'
    BY <1>10 DEF dummy_bus_register_driver
  <1>11. ASSUME NEW r \in Drivers, NEW d \in Devices, DriverAsks(r, d)
         PROVE  BusFirst'
    BY <1>11 DEF DriverAsks, OnBus
  <1>12. ASSUME NEW r \in Drivers, DriverLocks(r) PROVE BusFirst'
    BY <1>12 DEF DriverLocks, Unlocked
  <1>13. ASSUME NEW r \in Drivers, NEW ok \in BOOLEAN, DriverProbes(r, ok)
         PROVE  BusFirst'
    BY <1>13 DEF DriverProbes, MayReturn, Probe, dummy_bus_probe
  <1> HIDE DEF BusInv, TypeOK, BusFirst
  <1> QED
    BY <1>1, <1>2, <1>3, <1>4, <1>5, <1>6, <1>7, <1>8, <1>9, <1>10, <1>11,
       <1>12, <1>13
    DEF Next, DeviceNext, DriverNext

\* While a device probes a driver, driver_unregister() waits for it.
LEMMA DeviceHandStep == BusInv /\ [Next]_vars => DeviceHand'
  <1> SUFFICES ASSUME BusInv, [Next]_vars PROVE DeviceHand'
    OBVIOUS
  <1> USE DEF BusInv, TypeOK, BusFirst, DeviceHand
  <1>1. CASE BusNext \/ UNCHANGED vars
    BY <1>1, ActorAssumption, MatchSame
    DEF BusNext, dummy_bus_init, dummy_bus_exit, vars, walkVars
  <1>2. ASSUME NEW d \in Devices,
               InsmodDevice(d) \/ DeviceAttach(d) \/ DeviceAskedAll(d) \/
               dummy_device_exit(d) \/ DeviceKilled(d)
        PROVE  DeviceHand'
    BY <1>2, ActorAssumption, MatchSame
    DEF InsmodDevice, DeviceAttach, Unlocked, DeviceAskedAll, Listed,
        dummy_device_exit, DeviceKilled, walkVars
  <1>3. ASSUME NEW d \in Devices, NEW ok \in BOOLEAN,
               dummy_device_init(d, ok)
        PROVE  DeviceHand'
    BY <1>3, ActorAssumption, MatchSame DEF dummy_device_init
  <1>4. ASSUME NEW d \in Devices, NEW r \in Drivers, DeviceAsks(d, r)
        PROVE  DeviceHand'
    BY <1>4, ActorAssumption, MatchSame DEF DeviceAsks, Listed
  <1>5. ASSUME NEW d \in Devices, NEW ok \in BOOLEAN, DeviceProbes(d, ok)
        PROVE  DeviceHand'
    BY <1>5, ActorAssumption, MatchSame
    DEF DeviceProbes, MayReturn, Probe, dummy_bus_probe
  <1>6. ASSUME NEW d \in Devices, DeviceReleased(d) PROVE DeviceHand'
    BY <1>6, ActorAssumption, MatchSame
    DEF DeviceReleased, Unlocked, Remove, dummy_bus_remove
  <1>7. ASSUME NEW d \in Devices,
               SysfsUnbind(d) \/ \E r \in Drivers : DriverDetaches(r, d)
        PROVE  DeviceHand'
    BY <1>7, ActorAssumption, MatchSame
    DEF SysfsUnbind, DriverDetaches, Unlocked, Remove, dummy_bus_remove,
        walkVars
  <1>8. ASSUME NEW d \in Devices, NEW r \in Drivers, SysfsBind(d, r)
        PROVE  DeviceHand'
    BY <1>8, ActorAssumption, MatchSame
    DEF SysfsBind, Unlocked, Probe, dummy_bus_probe, walkVars
  <1>9. ASSUME NEW r \in Drivers,
               InsmodDriver(r) \/ DriverAskedAll(r) \/
               dummy_bus_del_driver(r) \/ DriverUnlinked(r) \/ DriverGone(r)
        PROVE  DeviceHand'
    BY <1>9, ActorAssumption, MatchSame
    DEF InsmodDriver, DriverAskedAll, OnBus, dummy_bus_del_driver,
        DriverUnlinked, DriverGone, walkVars
  <1>10. ASSUME NEW r \in Drivers, NEW ok \in BOOLEAN,
                dummy_bus_register_driver(r, ok)
         PROVE  DeviceHand'
    BY <1>10, ActorAssumption, MatchSame DEF dummy_bus_register_driver
  <1>11. ASSUME NEW r \in Drivers, NEW d \in Devices, DriverAsks(r, d)
         PROVE  DeviceHand'
    BY <1>11, ActorAssumption, MatchSame DEF DriverAsks, OnBus
  <1>12. ASSUME NEW r \in Drivers, DriverLocks(r) PROVE DeviceHand'
    BY <1>12, ActorAssumption, MatchSame DEF DriverLocks, Unlocked
  <1>13. ASSUME NEW r \in Drivers, NEW ok \in BOOLEAN, DriverProbes(r, ok)
         PROVE  DeviceHand'
    BY <1>13, ActorAssumption, MatchSame
    DEF DriverProbes, MayReturn, Probe, dummy_bus_probe
  <1> HIDE DEF BusInv, TypeOK, BusFirst, DeviceHand
  <1> QED
    BY <1>1, <1>2, <1>3, <1>4, <1>5, <1>6, <1>7, <1>8, <1>9, <1>10, <1>11,
       <1>12, <1>13
    DEF Next, DeviceNext, DriverNext

\* A driver at a device loses it only when the device is gone.
LEMMA DriverHandStep == BusInv /\ [Next]_vars => DriverHand'
  <1> SUFFICES ASSUME BusInv, [Next]_vars PROVE DriverHand'
    OBVIOUS
  <1> USE DEF BusInv, TypeOK, BusFirst, DriverHand
  <1>1. CASE BusNext \/ UNCHANGED vars
    BY <1>1, ActorAssumption, MatchSame
    DEF BusNext, dummy_bus_init, dummy_bus_exit, vars, walkVars
  <1>2. ASSUME NEW d \in Devices,
               InsmodDevice(d) \/ DeviceAttach(d) \/ DeviceAskedAll(d) \/
               dummy_device_exit(d) \/ DeviceKilled(d)
        PROVE  DriverHand'
    BY <1>2, ActorAssumption, MatchSame
    DEF InsmodDevice, DeviceAttach, Unlocked, DeviceAskedAll, Listed,
        dummy_device_exit, DeviceKilled, walkVars
  <1>3. ASSUME NEW d \in Devices, NEW ok \in BOOLEAN,
               dummy_device_init(d, ok)
        PROVE  DriverHand'
    BY <1>3, ActorAssumption, MatchSame DEF dummy_device_init
  <1>4. ASSUME NEW d \in Devices, NEW r \in Drivers, DeviceAsks(d, r)
        PROVE  DriverHand'
    BY <1>4, ActorAssumption, MatchSame DEF DeviceAsks, Listed
  <1>5. ASSUME NEW d \in Devices, NEW ok \in BOOLEAN, DeviceProbes(d, ok)
        PROVE  DriverHand'
    BY <1>5, ActorAssumption, MatchSame
    DEF DeviceProbes, MayReturn, Probe, dummy_bus_probe
  <1>6. ASSUME NEW d \in Devices, DeviceReleased(d) PROVE DriverHand'
    BY <1>6, ActorAssumption, MatchSame
    DEF DeviceReleased, Unlocked, Remove, dummy_bus_remove
  <1>7. ASSUME NEW d \in Devices,
               SysfsUnbind(d) \/ \E r \in Drivers : DriverDetaches(r, d)
        PROVE  DriverHand'
    BY <1>7, ActorAssumption, MatchSame
    DEF SysfsUnbind, DriverDetaches, Unlocked, Remove, dummy_bus_remove,
        walkVars
  <1>8. ASSUME NEW d \in Devices, NEW r \in Drivers, SysfsBind(d, r)
        PROVE  DriverHand'
    BY <1>8, ActorAssumption, MatchSame
    DEF SysfsBind, Unlocked, Probe, dummy_bus_probe, walkVars
  <1>9. ASSUME NEW r \in Drivers,
               InsmodDriver(r) \/ DriverAskedAll(r) \/
               dummy_bus_del_driver(r) \/ DriverUnlinked(r) \/ DriverGone(r)
        PROVE  DriverHand'
    BY <1>9, ActorAssumption, MatchSame
    DEF InsmodDriver, DriverAskedAll, OnBus, dummy_bus_del_driver,
        DriverUnlinked, DriverGone, walkVars
  <1>10. ASSUME NEW r \in Drivers, NEW ok \in BOOLEAN,
                dummy_bus_register_driver(r, ok)
         PROVE  DriverHand'
    BY <1>10, ActorAssumption, MatchSame DEF dummy_bus_register_driver
  <1>11. ASSUME NEW r \in Drivers, NEW d \in Devices, DriverAsks(r, d)
         PROVE  DriverHand'
    BY <1>11, ActorAssumption, MatchSame DEF DriverAsks, OnBus
  <1>12. ASSUME NEW r \in Drivers, DriverLocks(r) PROVE DriverHand'
    BY <1>12, ActorAssumption, MatchSame DEF DriverLocks, Unlocked
  <1>13. ASSUME NEW r \in Drivers, NEW ok \in BOOLEAN, DriverProbes(r, ok)
         PROVE  DriverHand'
    BY <1>13, ActorAssumption, MatchSame
    DEF DriverProbes, MayReturn, Probe, dummy_bus_probe
  <1> HIDE DEF BusInv, TypeOK, BusFirst, DriverHand
  <1> QED
    BY <1>1, <1>2, <1>3, <1>4, <1>5, <1>6, <1>7, <1>8, <1>9, <1>10, <1>11,
       <1>12, <1>13
    DEF Next, DeviceNext, DriverNext

\* A driver is bound while it is listed, and goes when it is not bound.
LEMMA BoundStep == BusInv /\ [Next]_vars => BoundInMemory'
  <1> SUFFICES ASSUME BusInv, [Next]_vars PROVE BoundInMemory'
    OBVIOUS
  <1> USE DEF BusInv, TypeOK, DeviceHand, DriverHand, BoundInMemory
  <1>1. CASE BusNext \/ UNCHANGED vars
    BY <1>1, ActorAssumption
    DEF BusNext, dummy_bus_init, dummy_bus_exit, vars, walkVars
  <1>2. ASSUME NEW d \in Devices,
               InsmodDevice(d) \/ DeviceAttach(d) \/ DeviceAskedAll(d) \/
               dummy_device_exit(d) \/ DeviceKilled(d)
        PROVE  BoundInMemory'
    BY <1>2, ActorAssumption
    DEF InsmodDevice, DeviceAttach, Unlocked, DeviceAskedAll, Listed,
        dummy_device_exit, DeviceKilled, walkVars
  <1>3. ASSUME NEW d \in Devices, NEW ok \in BOOLEAN,
               dummy_device_init(d, ok)
        PROVE  BoundInMemory'
    BY <1>3, ActorAssumption DEF dummy_device_init
  <1>4. ASSUME NEW d \in Devices, NEW r \in Drivers, DeviceAsks(d, r)
        PROVE  BoundInMemory'
    BY <1>4, ActorAssumption DEF DeviceAsks, Listed
  <1>5. ASSUME NEW d \in Devices, NEW ok \in BOOLEAN, DeviceProbes(d, ok)
        PROVE  BoundInMemory'
    BY <1>5, ActorAssumption
    DEF DeviceProbes, MayReturn, Probe, dummy_bus_probe
  <1>6. ASSUME NEW d \in Devices, DeviceReleased(d) PROVE BoundInMemory'
    BY <1>6, ActorAssumption
    DEF DeviceReleased, Unlocked, Remove, dummy_bus_remove
  <1>7. ASSUME NEW d \in Devices,
               SysfsUnbind(d) \/ \E r \in Drivers : DriverDetaches(r, d)
        PROVE  BoundInMemory'
    BY <1>7, ActorAssumption
    DEF SysfsUnbind, DriverDetaches, Unlocked, Remove, dummy_bus_remove,
        walkVars
  <1>8. ASSUME NEW d \in Devices, NEW r \in Drivers, SysfsBind(d, r)
        PROVE  BoundInMemory'
    BY <1>8, ActorAssumption
    DEF SysfsBind, Unlocked, Probe, dummy_bus_probe, walkVars
  <1>9. ASSUME NEW r \in Drivers,
               InsmodDriver(r) \/ DriverAskedAll(r) \/
               dummy_bus_del_driver(r) \/ DriverUnlinked(r) \/ DriverGone(r)
        PROVE  BoundInMemory'
    BY <1>9, ActorAssumption
    DEF InsmodDriver, DriverAskedAll, OnBus, dummy_bus_del_driver,
        DriverUnlinked, DriverGone, walkVars
  <1>10. ASSUME NEW r \in Drivers, NEW ok \in BOOLEAN,
                dummy_bus_register_driver(r, ok)
         PROVE  BoundInMemory'
    BY <1>10, ActorAssumption DEF dummy_bus_register_driver
  <1>11. ASSUME NEW r \in Drivers, NEW d \in Devices, DriverAsks(r, d)
         PROVE  BoundInMemory'
    BY <1>11, ActorAssumption DEF DriverAsks, OnBus
  <1>12. ASSUME NEW r \in Drivers, DriverLocks(r) PROVE BoundInMemory'
    BY <1>12, ActorAssumption DEF DriverLocks, Unlocked
  <1>13. ASSUME NEW r \in Drivers, NEW ok \in BOOLEAN, DriverProbes(r, ok)
         PROVE  BoundInMemory'
    BY <1>13, ActorAssumption
    DEF DriverProbes, MayReturn, Probe, dummy_bus_probe
  <1> HIDE DEF BusInv, TypeOK, DeviceHand, DriverHand, BoundInMemory
  <1> QED
    BY <1>1, <1>2, <1>3, <1>4, <1>5, <1>6, <1>7, <1>8, <1>9, <1>10, <1>11,
       <1>12, <1>13
    DEF Next, DeviceNext, DriverNext

\* The lock is taken only when nobody has it.
LEMMA LockStep == BusInv /\ [Next]_vars => LockInv'
  <1> SUFFICES ASSUME BusInv, [Next]_vars PROVE LockInv'
    OBVIOUS
  <1> USE DEF BusInv, TypeOK, DeviceHand, DriverHand, LockInv
  <1>1. CASE BusNext \/ UNCHANGED vars
    BY <1>1, ActorAssumption
    DEF BusNext, dummy_bus_init, dummy_bus_exit, vars, walkVars
  <1>2. ASSUME NEW d \in Devices,
               InsmodDevice(d) \/ DeviceAttach(d) \/ DeviceAskedAll(d) \/
               dummy_device_exit(d) \/ DeviceKilled(d)
        PROVE  LockInv'
    BY <1>2, ActorAssumption
    DEF InsmodDevice, DeviceAttach, Unlocked, DeviceAskedAll, Listed,
        dummy_device_exit, DeviceKilled, walkVars
  <1>3. ASSUME NEW d \in Devices, NEW ok \in BOOLEAN,
               dummy_device_init(d, ok)
        PROVE  LockInv'
    BY <1>3, ActorAssumption DEF dummy_device_init
  <1>4. ASSUME NEW d \in Devices, NEW r \in Drivers, DeviceAsks(d, r)
        PROVE  LockInv'
    BY <1>4, ActorAssumption DEF DeviceAsks, Listed
  <1>5. ASSUME NEW d \in Devices, NEW ok \in BOOLEAN, DeviceProbes(d, ok)
        PROVE  LockInv'
    BY <1>5, ActorAssumption
    DEF DeviceProbes, MayReturn, Probe, dummy_bus_probe
  <1>6. ASSUME NEW d \in Devices, DeviceReleased(d) PROVE LockInv'
    BY <1>6, ActorAssumption
    DEF DeviceReleased, Unlocked, Remove, dummy_bus_remove
  <1>7. ASSUME NEW d \in Devices,
               SysfsUnbind(d) \/ \E r \in Drivers : DriverDetaches(r, d)
        PROVE  LockInv'
    BY <1>7, ActorAssumption
    DEF SysfsUnbind, DriverDetaches, Unlocked, Remove, dummy_bus_remove,
        walkVars
  <1>8. ASSUME NEW d \in Devices, NEW r \in Drivers, SysfsBind(d, r)
        PROVE  LockInv'
    BY <1>8, ActorAssumption
    DEF SysfsBind, Unlocked, Probe, dummy_bus_probe, walkVars
  <1>9. ASSUME NEW r \in Drivers,
               InsmodDriver(r) \/ DriverAskedAll(r) \/
               dummy_bus_del_driver(r) \/ DriverUnlinked(r) \/ DriverGone(r)
        PROVE  LockInv'
    BY <1>9, ActorAssumption
    DEF InsmodDriver, DriverAskedAll, OnBus, dummy_bus_del_driver,
        DriverUnlinked, DriverGone, walkVars
  <1>10. ASSUME NEW r \in Drivers, NEW ok \in BOOLEAN,
                dummy_bus_register_driver(r, ok)
         PROVE  LockInv'
    BY <1>10, ActorAssumption DEF dummy_bus_register_driver
  <1>11. ASSUME NEW r \in Drivers, NEW d \in Devices, DriverAsks(r, d)
         PROVE  LockInv'
    BY <1>11, ActorAssumption DEF DriverAsks, OnBus
  <1>12. ASSUME NEW r \in Drivers, DriverLocks(r) PROVE LockInv'
    BY <1>12, ActorAssumption DEF DriverLocks, Unlocked
  <1>13. ASSUME NEW r \in Drivers, NEW ok \in BOOLEAN, DriverProbes(r, ok)
         PROVE  LockInv'
    BY <1>13, ActorAssumption
    DEF DriverProbes, MayReturn, Probe, dummy_bus_probe
  <1> HIDE DEF BusInv, TypeOK, DeviceHand, DriverHand, LockInv
  <1> QED
    BY <1>1, <1>2, <1>3, <1>4, <1>5, <1>6, <1>7, <1>8, <1>9, <1>10, <1>11,
       <1>12, <1>13
    DEF Next, DeviceNext, DriverNext

\* Every walk that ends forgets whom it has asked.
LEMMA WalkStep == BusInv /\ [Next]_vars => WalkInv'
  <1> SUFFICES ASSUME BusInv, [Next]_vars PROVE WalkInv'
    OBVIOUS
  <1> USE DEF BusInv, TypeOK, Actors, DeviceHand, DriverHand, WalkInv
  <1>1. CASE BusNext \/ UNCHANGED vars
    BY <1>1, ActorAssumption
    DEF BusNext, dummy_bus_init, dummy_bus_exit, vars, walkVars
  <1>2. ASSUME NEW d \in Devices,
               InsmodDevice(d) \/ DeviceAttach(d) \/ DeviceAskedAll(d) \/
               dummy_device_exit(d) \/ DeviceKilled(d)
        PROVE  WalkInv'
    BY <1>2, ActorAssumption
    DEF InsmodDevice, DeviceAttach, Unlocked, DeviceAskedAll, Listed,
        dummy_device_exit, DeviceKilled, walkVars
  <1>3. ASSUME NEW d \in Devices, NEW ok \in BOOLEAN,
               dummy_device_init(d, ok)
        PROVE  WalkInv'
    BY <1>3, ActorAssumption DEF dummy_device_init
  <1>4. ASSUME NEW d \in Devices, NEW r \in Drivers, DeviceAsks(d, r)
        PROVE  WalkInv'
    BY <1>4, ActorAssumption DEF DeviceAsks, Listed
  <1>5. ASSUME NEW d \in Devices, NEW ok \in BOOLEAN, DeviceProbes(d, ok)
        PROVE  WalkInv'
    BY <1>5, ActorAssumption
    DEF DeviceProbes, MayReturn, Probe, dummy_bus_probe
  <1>6. ASSUME NEW d \in Devices, DeviceReleased(d) PROVE WalkInv'
    BY <1>6, ActorAssumption
    DEF DeviceReleased, Unlocked, Remove, dummy_bus_remove
  <1>7. ASSUME NEW d \in Devices,
               SysfsUnbind(d) \/ \E r \in Drivers : DriverDetaches(r, d)
        PROVE  WalkInv'
    BY <1>7, ActorAssumption
    DEF SysfsUnbind, DriverDetaches, Unlocked, Remove, dummy_bus_remove,
        walkVars
  <1>8. ASSUME NEW d \in Devices, NEW r \in Drivers, SysfsBind(d, r)
        PROVE  WalkInv'
    BY <1>8, ActorAssumption
    DEF SysfsBind, Unlocked, Probe, dummy_bus_probe, walkVars
  <1>9. ASSUME NEW r \in Drivers,
               InsmodDriver(r) \/ DriverAskedAll(r) \/
               dummy_bus_del_driver(r) \/ DriverUnlinked(r) \/ DriverGone(r)
        PROVE  WalkInv'
    BY <1>9, ActorAssumption
    DEF InsmodDriver, DriverAskedAll, OnBus, dummy_bus_del_driver,
        DriverUnlinked, DriverGone, walkVars
  <1>10. ASSUME NEW r \in Drivers, NEW ok \in BOOLEAN,
                dummy_bus_register_driver(r, ok)
         PROVE  WalkInv'
    BY <1>10, ActorAssumption DEF dummy_bus_register_driver
  <1>11. ASSUME NEW r \in Drivers, NEW d \in Devices, DriverAsks(r, d)
         PROVE  WalkInv'
    BY <1>11, ActorAssumption DEF DriverAsks, OnBus
  <1>12. ASSUME NEW r \in Drivers, DriverLocks(r) PROVE WalkInv'
    BY <1>12, ActorAssumption DEF DriverLocks, Unlocked
  <1>13. ASSUME NEW r \in Drivers, NEW ok \in BOOLEAN, DriverProbes(r, ok)
         PROVE  WalkInv'
    BY <1>13, ActorAssumption
    DEF DriverProbes, MayReturn, Probe, dummy_bus_probe
  <1> HIDE DEF BusInv, TypeOK, Actors, DeviceHand, DriverHand, WalkInv
  <1> QED
    BY <1>1, <1>2, <1>3, <1>4, <1>5, <1>6, <1>7, <1>8, <1>9, <1>10, <1>11,
       <1>12, <1>13
    DEF Next, DeviceNext, DriverNext

\* probe() is called for a device that is not bound, so the lock keeps the
\* pairs.
LEMMA PairedStep == BusInv /\ [Next]_vars => ProbesPaired'
  <1> SUFFICES ASSUME BusInv, [Next]_vars PROVE ProbesPaired'
    OBVIOUS
  <1> USE DEF BusInv, TypeOK, DeviceHand, DriverHand, BoundInMemory, LockInv,
              ProbesPaired
  <1>1. CASE BusNext \/ UNCHANGED vars
    BY <1>1, ActorAssumption
    DEF BusNext, dummy_bus_init, dummy_bus_exit, vars, walkVars
  <1>2. ASSUME NEW d \in Devices,
               InsmodDevice(d) \/ DeviceAttach(d) \/ DeviceAskedAll(d) \/
               dummy_device_exit(d) \/ DeviceKilled(d)
        PROVE  ProbesPaired'
    BY <1>2, ActorAssumption
    DEF InsmodDevice, DeviceAttach, Unlocked, DeviceAskedAll, Listed,
        dummy_device_exit, DeviceKilled, walkVars
  <1>3. ASSUME NEW d \in Devices, NEW ok \in BOOLEAN,
               dummy_device_init(d, ok)
        PROVE  ProbesPaired'
    BY <1>3, ActorAssumption DEF dummy_device_init
  <1>4. ASSUME NEW d \in Devices, NEW r \in Drivers, DeviceAsks(d, r)
        PROVE  ProbesPaired'
    BY <1>4, ActorAssumption DEF DeviceAsks, Listed
  <1>5. ASSUME NEW d \in Devices, NEW ok \in BOOLEAN, DeviceProbes(d, ok)
        PROVE  ProbesPaired'
    BY <1>5, ActorAssumption
    DEF DeviceProbes, MayReturn, Probe, dummy_bus_probe
  <1>6. ASSUME NEW d \in Devices, DeviceReleased(d) PROVE ProbesPaired'
    BY <1>6, ActorAssumption
    DEF DeviceReleased, Unlocked, Remove, dummy_bus_remove
  <1>7. ASSUME NEW d \in Devices,
               SysfsUnbind(d) \/ \E r \in Drivers : DriverDetaches(r, d)
        PROVE  ProbesPaired'
    BY <1>7, ActorAssumption
    DEF SysfsUnbind, DriverDetaches, Unlocked, Remove, dummy_bus_remove,
        walkVars
  <1>8. ASSUME NEW d \in Devices, NEW r \in Drivers, SysfsBind(d, r)
        PROVE  ProbesPaired'
    BY <1>8, ActorAssumption
    DEF SysfsBind, Unlocked, Probe, dummy_bus_probe, walkVars
  <1>9. ASSUME NEW r \in Drivers,
               InsmodDriver(r) \/ DriverAskedAll(r) \/
               dummy_bus_del_driver(r) \/ DriverUnlinked(r) \/ DriverGone(r)
        PROVE  ProbesPaired'
    BY <1>9, ActorAssumption
    DEF InsmodDriver, DriverAskedAll, OnBus, dummy_bus_del_driver,
        DriverUnlinked, DriverGone, walkVars
  <1>10. ASSUME NEW r \in Drivers, NEW ok \in BOOLEAN,
                dummy_bus_register_driver(r, ok)
         PROVE  ProbesPaired'
    BY <1>10, ActorAssumption DEF dummy_bus_register_driver
  <1>11. ASSUME NEW r \in Drivers, NEW d \in Devices, DriverAsks(r, d)
         PROVE  ProbesPaired'
    BY <1>11, ActorAssumption DEF DriverAsks, OnBus
  <1>12. ASSUME NEW r \in Drivers, DriverLocks(r) PROVE ProbesPaired'
    BY <1>12, ActorAssumption DEF DriverLocks, Unlocked
  <1>13. ASSUME NEW r \in Drivers, NEW ok \in BOOLEAN, DriverProbes(r, ok)
         PROVE  ProbesPaired'
    BY <1>13, ActorAssumption
    DEF DriverProbes, MayReturn, Probe, dummy_bus_probe
  <1> HIDE DEF BusInv, TypeOK, DeviceHand, DriverHand, BoundInMemory,
               LockInv, ProbesPaired
  <1> QED
    BY <1>1, <1>2, <1>3, <1>4, <1>5, <1>6, <1>7, <1>8, <1>9, <1>10, <1>11,
       <1>12, <1>13
    DEF Next, DeviceNext, DriverNext

\* A pair that can be bound is bound, or one of the two walks is yet to
\* come to it.
LEMMA NoLostStep == BusInv /\ [Next]_vars => NoLostPair'
  <1> SUFFICES ASSUME BusInv, [Next]_vars PROVE NoLostPair'
    OBVIOUS
  <1> USE DEF BusInv, TypeOK, Actors, BusFirst, DeviceHand, DriverHand,
              LockInv, WalkInv, NoLostPair, Pending
  <1>1. CASE BusNext \/ UNCHANGED vars
    BY <1>1, ActorAssumption, MatchSame
    DEF BusNext, dummy_bus_init, dummy_bus_exit, vars, walkVars
  <1>2. ASSUME NEW d \in Devices,
               InsmodDevice(d) \/ DeviceAttach(d) \/ DeviceAskedAll(d) \/
               dummy_device_exit(d) \/ DeviceKilled(d)
        PROVE  NoLostPair'
    BY <1>2, ActorAssumption, MatchSame
    DEF InsmodDevice, DeviceAttach, Unlocked, DeviceAskedAll, Listed,
        dummy_device_exit, DeviceKilled, walkVars
  <1>3. ASSUME NEW d \in Devices, NEW ok \in BOOLEAN,
               dummy_device_init(d, ok)
        PROVE  NoLostPair'
    BY <1>3, ActorAssumption, MatchSame DEF dummy_device_init
  <1>4. ASSUME NEW d \in Devices, NEW r \in Drivers, DeviceAsks(d, r)
        PROVE  NoLostPair'
    BY <1>4, ActorAssumption, MatchSame DEF DeviceAsks, Listed
  <1>5. ASSUME NEW d \in Devices, NEW ok \in BOOLEAN, DeviceProbes(d, ok)
        PROVE  NoLostPair'
    BY <1>5, ActorAssumption, MatchSame
    DEF DeviceProbes, MayReturn, Probe, dummy_bus_probe
  <1>6. ASSUME NEW d \in Devices, DeviceReleased(d) PROVE NoLostPair'
    BY <1>6, ActorAssumption, MatchSame
    DEF DeviceReleased, Unlocked, Remove, dummy_bus_remove
  <1>7. ASSUME NEW d \in Devices,
               SysfsUnbind(d) \/ \E r \in Drivers : DriverDetaches(r, d)
        PROVE  NoLostPair'
    BY <1>7, ActorAssumption, MatchSame
    DEF SysfsUnbind, DriverDetaches, Part, Unlocked, Remove, dummy_bus_remove,
        walkVars
  <1>8. ASSUME NEW d \in Devices, NEW r \in Drivers, SysfsBind(d, r)
        PROVE  NoLostPair'
    BY <1>8, ActorAssumption, MatchSame
    DEF SysfsBind, Unlocked, Probe, dummy_bus_probe, walkVars
  <1>9. ASSUME NEW r \in Drivers,
               InsmodDriver(r) \/ DriverAskedAll(r) \/
               dummy_bus_del_driver(r) \/ DriverUnlinked(r) \/ DriverGone(r)
        PROVE  NoLostPair'
    BY <1>9, ActorAssumption, MatchSame
    DEF InsmodDriver, DriverAskedAll, OnBus, dummy_bus_del_driver,
        DriverUnlinked, DriverGone, walkVars
  <1>10. ASSUME NEW r \in Drivers, NEW ok \in BOOLEAN,
                dummy_bus_register_driver(r, ok)
         PROVE  NoLostPair'
    BY <1>10, ActorAssumption, MatchSame DEF dummy_bus_register_driver
  <1>11. ASSUME NEW r \in Drivers, NEW d \in Devices, DriverAsks(r, d)
         PROVE  NoLostPair'
    BY <1>11, ActorAssumption, MatchSame DEF DriverAsks, OnBus
  <1>12. ASSUME NEW r \in Drivers, DriverLocks(r) PROVE NoLostPair'
    BY <1>12, ActorAssumption, MatchSame DEF DriverLocks, Unlocked
  <1>13. ASSUME NEW r \in Drivers, NEW ok \in BOOLEAN, DriverProbes(r, ok)
         PROVE  NoLostPair'
    BY <1>13, ActorAssumption, MatchSame
    DEF DriverProbes, MayReturn, Probe, dummy_bus_probe
  <1> HIDE DEF BusInv, TypeOK, Actors, BusFirst, DeviceHand, DriverHand,
               LockInv, WalkInv, NoLostPair, Pending
  <1> QED
    BY <1>1, <1>2, <1>3, <1>4, <1>5, <1>6, <1>7, <1>8, <1>9, <1>10, <1>11,
       <1>12, <1>13
    DEF Next, DeviceNext, DriverNext

LEMMA BusInvariance == Spec => []BusInv
  <1>1. BusInv /\ [Next]_vars => BusInv'
    BY TypeStep, BusFirstStep, DeviceHandStep, DriverHandStep, BoundStep,
       LockStep, WalkStep, PairedStep, NoLostStep DEF BusInv
  <1> QED
    BY BusInvInit, <1>1, PTL DEF Spec

\* Types: in particular a driver is only ever told of devices.
THEOREM BusTypeCorrect == Spec => []TypeOK
  <1>1. BusInv => TypeOK
    BY DEF BusInv
  <1> QED
    BY BusInvariance, <1>1, PTL

\* The bus never calls into a driver module that is not in memory.
THEOREM CodeInMemoryHolds == Spec => []CodeInMemory
  <1>1. BusInv => CodeInMemory
    BY DEF BusInv, DeviceHand, BoundInMemory, CodeInMemory
  <1> QED
    BY BusInvariance, <1>1, PTL

\* Every successful probe() has its remove(), however modules come and go.
THEOREM ProbesPairedHolds == Spec => []ProbesPaired
  <1>1. BusInv => ProbesPaired
    BY DEF BusInv
  <1> QED
    BY BusInvariance, <1>1, PTL

\* A device and a driver for it that are loaded at the same time never miss
\* each other.
THEOREM NoMissedBindingHolds == Spec => []NoMissedBinding
  <1>1. BusInv => NoMissedBinding
    BY MatchIsSupport, ActorAssumption
    DEF BusInv, NoLostPair, Pending, NoMissedBinding
  <1> QED
    BY BusInvariance, <1>1, PTL

-----------------------------------------------------------------------------
(* Refinement of Matchmaker                                                *)

PresentDevices == {d \in Devices : devPc[d] \notin {"out", "add"}}
PresentDrivers == {r \in Drivers : drvPc[r] \notin {"out", "add"}}
Present == PresentDevices \cup PresentDrivers
Fits == {p \in Devices \X Drivers : Supports(p[1], p[2])}

LEMMA FitsSame == bus' = bus => Fits' = Fits
  BY DEF Fits, Supports

\* The kinds of steps of the matchmaker, in the terms of the bus.
AgencyMove ==
    \/ Present = {} /\ UNCHANGED <<Present, bound>>
    \/ \E x \in Devices \cup Drivers :
          /\ x \notin Present /\ Present' = Present \cup {x}
          /\ UNCHANGED <<bound, Fits>>
    \/ \E x \in Devices \cup Drivers :
          /\ x \in Present /\ Present' = Present \ {x}
          /\ \A d \in Devices : bound[d] # NoDriver => x \notin {d, bound[d]}
          /\ UNCHANGED <<bound, Fits>>
    \/ \E d \in Devices, r \in Drivers :
          /\ {d, r} \subseteq Present /\ bound[d] = NoDriver /\ <<d, r>> \in Fits
          /\ bound' = [bound EXCEPT ![d] = r]
          /\ UNCHANGED <<Present, Fits>>
    \/ \E d \in Devices :
          /\ bound[d] # NoDriver /\ bound' = [bound EXCEPT ![d] = NoDriver]
          /\ Present' = Present \/ (d \in Present /\ Present' = Present \ {d})
          /\ UNCHANGED Fits
    \/ UNCHANGED <<Present, bound, Fits>>

LEMMA AgencyMoves == AgencyMove => [Agency!Next]_(Agency!vars)
  <1> SUFFICES ASSUME AgencyMove PROVE [Agency!Next]_(Agency!vars)
    OBVIOUS
  <1> USE DEF Present, PresentDevices, PresentDrivers, Fits, Agency!Next
  <1>1. CASE Present = {} /\ UNCHANGED <<Present, bound>>
    <2>1. Fits' \in SUBSET (Devices \X Drivers)
      BY DEF Fits
    <2> QED
      BY <1>1, <2>1 DEF Agency!Replace
  <1>2. ASSUME NEW x \in Devices \cup Drivers,
               x \notin Present, Present' = Present \cup {x},
               UNCHANGED <<bound, Fits>>
        PROVE  Agency!Next
    BY <1>2 DEF Agency!Come
  <1>3. ASSUME NEW x \in Devices \cup Drivers,
               x \in Present, Present' = Present \ {x},
               \A d \in Devices : bound[d] # NoDriver => x \notin {d, bound[d]},
               UNCHANGED <<bound, Fits>>
        PROVE  Agency!Next
    BY <1>3 DEF Agency!Go, Agency!Free
  <1>4. ASSUME NEW d \in Devices, NEW r \in Drivers,
               {d, r} \subseteq Present, bound[d] = NoDriver, <<d, r>> \in Fits,
               bound' = [bound EXCEPT ![d] = r], UNCHANGED <<Present, Fits>>
        PROVE  Agency!Next
    BY <1>4 DEF Agency!Bind
  <1>5. ASSUME NEW d \in Devices,
               bound[d] # NoDriver, bound' = [bound EXCEPT ![d] = NoDriver],
               Present' = Present \/ (d \in Present /\ Present' = Present \ {d}),
               UNCHANGED Fits
        PROVE  Agency!Next
    BY <1>5 DEF Agency!Unbind, Agency!UnbindAndGo
  <1>6. CASE UNCHANGED <<Present, bound, Fits>>
    BY <1>6 DEF Agency!vars
  <1> QED
    BY <1>1, <1>2, <1>3, <1>4, <1>5, <1>6 DEF AgencyMove

\* Steps that move nobody in or out and bind nothing.
LEMMA Quiet ==
    ASSUME bus' = bus, UNCHANGED bound,
           PresentDevices' = PresentDevices, PresentDrivers' = PresentDrivers
    PROVE  AgencyMove
  BY FitsSame DEF AgencyMove, Present

\* A device and a driver that its thread, or the driver's, has in hand.
LEMMA BindMove ==
    ASSUME BusInv, NEW d \in Devices, NEW r \in Drivers,
           d \in PresentDevices, r \in PresentDrivers, bound[d] = NoDriver,
           Match(d, r), bound' = [bound EXCEPT ![d] = r], bus' = bus,
           PresentDevices' = PresentDevices, PresentDrivers' = PresentDrivers
    PROVE  AgencyMove
  <1>1. <<d, r>> \in Fits
    BY MatchIsSupport DEF Fits
  <1> QED
    BY <1>1, FitsSame DEF AgencyMove, Present

LEMMA AgencyStep == BusInv /\ [Next]_vars => AgencyMove
  <1> SUFFICES ASSUME BusInv, [Next]_vars PROVE AgencyMove
    OBVIOUS
  <1>0. TypeOK /\ DeviceHand /\ DriverHand /\ BoundInMemory /\ LockInv
    BY DEF BusInv
  <1> USE <1>0, ActorAssumption DEF TypeOK, PresentDevices, PresentDrivers
  <1>1. CASE BusNext
    <2>1. Present = {}
      BY <1>1
      DEF BusNext, dummy_bus_exit, dummy_bus_init, BusInv, BusFirst, Present
    <2>2. UNCHANGED <<Present, bound>>
      BY <1>1 DEF BusNext, dummy_bus_exit, dummy_bus_init, Present
    <2> QED
      BY <2>1, <2>2 DEF AgencyMove
  <1>2. CASE UNCHANGED vars
    BY <1>2, Quiet DEF vars
  <1>3. ASSUME NEW d \in Devices,
               InsmodDevice(d) \/ DeviceAttach(d) \/ DeviceAskedAll(d) \/
               dummy_device_exit(d) \/ DeviceKilled(d)
        PROVE  AgencyMove
    BY <1>3, Quiet
    DEF InsmodDevice, DeviceAttach, DeviceAskedAll, dummy_device_exit,
        DeviceKilled
  <1>4. ASSUME NEW d \in Devices, NEW ok \in BOOLEAN, dummy_device_init(d, ok)
        PROVE  AgencyMove
    <2>1. CASE ok
      <3>1. /\ d \notin Present /\ Present' = Present \cup {d}
            /\ UNCHANGED <<bus, bound>>
        BY <1>4, <2>1 DEF dummy_device_init, Present
      <3> QED
        BY <3>1, FitsSame DEF AgencyMove
    <2>2. CASE ~ok
      BY <1>4, <2>2, Quiet DEF dummy_device_init
    <2> QED
      BY <2>1, <2>2
  <1>5. ASSUME NEW d \in Devices, NEW r \in Drivers, DeviceAsks(d, r)
        PROVE  AgencyMove
    BY <1>5, Quiet DEF DeviceAsks
  <1>6. ASSUME NEW d \in Devices, NEW ok \in BOOLEAN, DeviceProbes(d, ok)
        PROVE  AgencyMove
    <2>1. CASE ok
      <3>1. devAt[d] \in Drivers /\ Match(d, devAt[d]) /\ bound[d] = NoDriver
            /\ devAt[d] \in PresentDrivers /\ d \in PresentDevices
        BY <1>6 DEF DeviceProbes, DeviceHand, LockInv
      <3> QED
        BY <1>6, <2>1, <3>1, BindMove DEF DeviceProbes, Probe
    <2>2. CASE ~ok
      BY <1>6, <2>2, Quiet DEF DeviceProbes
    <2> QED
      BY <2>1, <2>2
  <1>7. ASSUME NEW d \in Devices, DeviceReleased(d) PROVE AgencyMove
    <2>1. \A r \in Drivers : drvAt[r] = d =>
             drvPc[r] \notin {"out", "add"}
      BY DEF DriverHand
    <2>2. /\ d \in Present /\ Present' = Present \ {d} /\ UNCHANGED bus
      BY <1>7, <2>1 DEF DeviceReleased, Present
    <2>3. CASE bound[d] = NoDriver
      <3>1. UNCHANGED bound
        BY <1>7, <2>3 DEF DeviceReleased
      <3>2. \A e \in Devices : bound[e] # NoDriver => d \notin {e, bound[e]}
        BY <2>3
      <3> QED
        BY <2>2, <3>1, <3>2, FitsSame DEF AgencyMove
    <2>4. CASE bound[d] # NoDriver
      BY <1>7, <2>2, <2>4, FitsSame DEF DeviceReleased, Remove, AgencyMove
    <2> QED
      BY <2>3, <2>4
  <1>8. ASSUME NEW d \in Devices,
               SysfsUnbind(d) \/ \E r \in Drivers : DriverDetaches(r, d)
        PROVE  AgencyMove
    <2>1. /\ bound[d] # NoDriver /\ bound' = [bound EXCEPT ![d] = NoDriver]
          /\ UNCHANGED <<bus, Present>>
      BY <1>8 DEF SysfsUnbind, DriverDetaches, Remove, Present
    <2> QED
      BY <2>1, FitsSame DEF AgencyMove
  <1>9. ASSUME NEW d \in Devices, NEW r \in Drivers, SysfsBind(d, r)
        PROVE  AgencyMove
    <2>1. d \in PresentDevices /\ r \in PresentDrivers
      BY <1>9 DEF SysfsBind, OnBus
    <2> QED
      BY <1>9, <2>1, BindMove DEF SysfsBind, Probe
  <1>10. ASSUME NEW r \in Drivers,
                InsmodDriver(r) \/ DriverAskedAll(r) \/
                dummy_bus_del_driver(r) \/ DriverUnlinked(r)
         PROVE  AgencyMove
    BY <1>10, Quiet
    DEF InsmodDriver, DriverAskedAll, dummy_bus_del_driver, DriverUnlinked
  <1>11. ASSUME NEW r \in Drivers, DriverGone(r) PROVE AgencyMove
    <2>1. /\ r \in Present /\ Present' = Present \ {r} /\ UNCHANGED <<bus, bound>>
      BY <1>11 DEF DriverGone, Present
    <2>2. \A e \in Devices : bound[e] # NoDriver => r \notin {e, bound[e]}
      BY <1>11 DEF DriverGone
    <2> QED
      BY <2>1, <2>2, FitsSame DEF AgencyMove
  <1>12. ASSUME NEW r \in Drivers, NEW ok \in BOOLEAN,
                dummy_bus_register_driver(r, ok)
         PROVE  AgencyMove
    <2>1. CASE ok
      <3>1. /\ r \notin Present /\ Present' = Present \cup {r}
            /\ UNCHANGED <<bus, bound>>
        BY <1>12, <2>1 DEF dummy_bus_register_driver, Present
      <3> QED
        BY <3>1, FitsSame DEF AgencyMove
    <2>2. CASE ~ok
      BY <1>12, <2>2, Quiet DEF dummy_bus_register_driver
    <2> QED
      BY <2>1, <2>2
  <1>13. ASSUME NEW r \in Drivers, NEW d \in Devices, DriverAsks(r, d)
         PROVE  AgencyMove
    BY <1>13, Quiet DEF DriverAsks
  <1>14. ASSUME NEW r \in Drivers, DriverLocks(r) PROVE AgencyMove
    BY <1>14, Quiet DEF DriverLocks
  <1>15. ASSUME NEW r \in Drivers, NEW ok \in BOOLEAN, DriverProbes(r, ok)
         PROVE  AgencyMove
    <2>1. CASE ok
      <3>1. /\ drvAt[r] \in Devices /\ Match(drvAt[r], r)
            /\ bound[drvAt[r]] = NoDriver
            /\ drvAt[r] \in PresentDevices /\ r \in PresentDrivers
        BY <1>15 DEF DriverProbes, DriverHand, LockInv
      <3> QED
        BY <1>15, <2>1, <3>1, BindMove DEF DriverProbes, Probe
    <2>2. CASE ~ok
      BY <1>15, <2>2, Quiet DEF DriverProbes
    <2> QED
      BY <2>1, <2>2
  <1> HIDE DEF TypeOK, PresentDevices, PresentDrivers
  <1> QED
    BY <1>1, <1>2, <1>3, <1>4, <1>5, <1>6, <1>7, <1>8, <1>9, <1>10, <1>11,
       <1>12, <1>13, <1>14, <1>15
    DEF Next, DeviceNext, DriverNext

\* The bus modules and the driver core together do what Matchmaker allows and
\* nothing else: a device has one driver at a time, one that lists it, and
\* neither side leaves before the binding is undone.
THEOREM BusImplementsMatchmaker == Spec => BusRefined
  <1>1. Init => Agency!Init
    BY DEF Init, Agency!Init
  <1>2. BusInv /\ [Next]_vars => [Agency!Next]_(Agency!vars)
    BY AgencyStep, AgencyMoves
  <1> QED
    BY <1>1, <1>2, BusInvariance, PTL DEF Spec, BusRefined, Agency!Spec
=============================================================================
