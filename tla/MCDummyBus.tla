----------------------------- MODULE MCDummyBus -----------------------------
(***************************************************************************)
(* Two devices and two drivers.  The repository's driver "dummy0" has both *)
(* callbacks and lists both devices, one behind the other.  Its competitor *)
(* for the first device has no remove() and a probe() that may fail.  On   *)
(* the basic bus each driver has the name of one device.                   *)
(***************************************************************************)
EXTENDS DummyBus

MCDevices == {"device1", "device2"}
MCDrivers == {"dummy0", "other"}
MCDevName == [device1 |-> "a", device2 |-> "b"]
MCDrvName == [dummy0 |-> "a", other |-> "b"]
MCIdTable == [dummy0 |-> <<"a", "b", "">>, other |-> <<"a", "">>]
MCOps == [dummy0 |-> {"probe", "remove"}, other |-> {"probe"}]
=============================================================================
