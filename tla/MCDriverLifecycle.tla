------------------------- MODULE MCDriverLifecycle -------------------------
(***************************************************************************)
(* DriverLifecycle with the scripts of the repository's drivers.           *)
(***************************************************************************)
EXTENDS DriverLifecycle, DriverScripts

\* The drivers whose error paths are complete, and drm, which shares the
\* template's class name.
Conforming == {"template", "static_call", "firmware", "i2c", "net"}
ConformingAndTwin == Conforming \cup {"drm"}

\* The hypotheses of the theorems hold of the scripts of these drivers.
ASSUME ConformingAssumption ==
    \A d \in Conforming \cap Drivers :
        Leakproof(d) /\ Thorough(d) /\ Tidy(d) /\ Grounded(d)

OnlyRegulator == {"regulator"}
OnlyVideo == {"video"}
OnlyGpio == {"gpio"}
=============================================================================
