----------------------------- MODULE Matchmaker -----------------------------
(***************************************************************************)
(* What a bus promises, in the words of bus/dummy_bus/README.md "a set of  *)
(* devices and drivers": devices and drivers come and go, a device is      *)
(* bound to one driver at a time, one that supports it, and neither side   *)
(* leaves while it is bound.                                               *)
(***************************************************************************)
CONSTANTS
    Devices, Drivers,
    NoDriver

VARIABLES
    present,     \* the devices and drivers on the bus
    binding,     \* binding[d]: the driver of device d
    fits         \* the pairs <<d, r>> such that r knows how to drive d

vars == <<present, binding, fits>>

Free(x) == \A d \in Devices : binding[d] # NoDriver => x \notin {d, binding[d]}

Come(x) ==
    /\ x \notin present
    /\ present' = present \cup {x}
    /\ UNCHANGED <<binding, fits>>

Go(x) ==
    /\ x \in present
    /\ Free(x)
    /\ present' = present \ {x}
    /\ UNCHANGED <<binding, fits>>

Bind(d, r) ==
    /\ {d, r} \subseteq present
    /\ binding[d] = NoDriver
    /\ <<d, r>> \in fits
    /\ binding' = [binding EXCEPT ![d] = r]
    /\ UNCHANGED <<present, fits>>

Unbind(d) ==
    /\ binding[d] # NoDriver
    /\ binding' = [binding EXCEPT ![d] = NoDriver]
    /\ UNCHANGED <<present, fits>>

\* A device that leaves takes its binding apart on the way out.
UnbindAndGo(d) ==
    /\ d \in present
    /\ binding[d] # NoDriver
    /\ present' = present \ {d}
    /\ binding' = [binding EXCEPT ![d] = NoDriver]
    /\ UNCHANGED fits

\* Another kind of bus takes the place of an empty one.
Replace ==
    /\ present = {}
    /\ fits' \in SUBSET (Devices \X Drivers)
    /\ UNCHANGED <<present, binding>>

Init ==
    /\ present = {}
    /\ binding = [d \in Devices |-> NoDriver]
    /\ fits \in SUBSET (Devices \X Drivers)

Next ==
    \/ Replace
    \/ \E x \in Devices \cup Drivers : Come(x) \/ Go(x)
    \/ \E d \in Devices, r \in Drivers : Bind(d, r)
    \/ \E d \in Devices : Unbind(d) \/ UnbindAndGo(d)

Spec == Init /\ [][Next]_vars
=============================================================================
