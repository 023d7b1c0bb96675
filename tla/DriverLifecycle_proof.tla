----------------------- MODULE DriverLifecycle_proof -----------------------
(***************************************************************************)
(* A driver whose script is Leakproof leaves nothing behind, whatever the  *)
(* other drivers do and however often it is loaded: the discipline of the  *)
(* goto chains is all it takes, for scripts of any length.  Likewise what  *)
(* is loaded is complete when the script is Thorough, nothing is released  *)
(* that is not there when it is Tidy, and nothing outlives what it stands  *)
(* on when it is Grounded.                                                 *)
(***************************************************************************)
EXTENDS DriverLifecycle, TLAPS

\* Names for the parts of an action that a single token of the code decides.
USE DEF StepAfter, Label, Result, Exit

\* What a driver holds is bounded by what its register function has come to,
\* and during a release by what the rest of the chain will release.
Bounded(d) ==
    /\ phase[d] = "absent"  => held[d] = {}
    /\ phase[d] = "init"    => /\ pc[d] \in Nat \ {0}
                               /\ pc[d] =< Len(Steps(d)) + 1
                               /\ held[d] \subseteq Acquired(d, pc[d])
    /\ phase[d] = "loaded"  => held[d] \subseteq Acquired(d, Len(Steps(d)) + 1)
    /\ phase[d] = "release" => /\ ends[d] = "absent"
                               /\ todo[d] \in Seq(Resources)
                               /\ held[d] \subseteq Covered(todo[d])
    /\ leaked[d] = {}

Typing ==
    /\ phase \in [Drivers -> Phases]
    /\ pc \in [Drivers -> Nat \ {0}]
    /\ held \in [Drivers -> SUBSET Resources]
    /\ todo \in [Drivers -> Seq(Resources)]
    /\ ends \in [Drivers -> {"absent", "loaded"}]
    /\ leaked \in [Drivers -> SUBSET Resources]

LInv == Typing /\ \A d \in Checked : Bounded(d)

\* Releasing the first of a chain leaves what the rest of it covers.
LEMMA CoveredTail ==
    ASSUME NEW rs \in Seq(Resources), rs # <<>>
    PROVE  Covered(rs) \ Family[Head(rs)] \subseteq Covered(Tail(rs))
  <1>1. /\ Len(rs) \in Nat \ {0}
        /\ DOMAIN rs = 1 .. Len(rs)
        /\ DOMAIN Tail(rs) = 1 .. Len(rs) - 1
        /\ Head(rs) = rs[1]
    OBVIOUS
  <1>2. \A i \in DOMAIN Tail(rs) : Tail(rs)[i] = rs[i + 1]
    OBVIOUS
  <1> SUFFICES ASSUME NEW i \in DOMAIN rs, NEW r \in Family[rs[i]],
                      r \notin Family[Head(rs)]
               PROVE  r \in Covered(Tail(rs))
    BY DEF Covered
  <1>3. i # 1
    BY <1>1
  <1>4. i - 1 \in DOMAIN Tail(rs) /\ Tail(rs)[i - 1] = rs[i]
    BY <1>1, <1>2, <1>3
  <1> QED
    BY <1>4 DEF Covered

LEMMA CoveredEmpty == Covered(<<>>) = {}
  BY DEF Covered

\* What may be held after an acquisition, made or missed.
LEMMA AcquiredMore ==
    ASSUME NEW d \in Drivers, NEW i \in DOMAIN Steps(d), i \in Nat \ {0},
           Steps(d)[i].op = "acquire"
    PROVE  Acquired(d, i + 1) = Acquired(d, i) \cup {Steps(d)[i].res}
  <1>1. 1 .. (i + 1) - 1 = (1 .. i - 1) \cup {i}
    OBVIOUS
  <1>2. Steps(d)[i].op # "drop"
    OBVIOUS
  <1>3. ASSUME NEW j \in 1 .. i - 1
        PROVE  /\ j + 1 .. (i + 1) - 1 = (j + 1 .. i - 1) \cup {i}
               /\ j \in 1 .. (i + 1) - 1
    OBVIOUS
  <1>4. i + 1 .. (i + 1) - 1 = {}
    OBVIOUS
  <1> QED
    BY <1>1, <1>2, <1>3, <1>4 DEF Acquired

\* What may be held after a drop.
LEMMA AcquiredLess ==
    ASSUME NEW d \in Drivers, NEW i \in DOMAIN Steps(d), i \in Nat \ {0},
           Steps(d)[i].op = "drop"
    PROVE  Acquired(d, i) \ {Steps(d)[i].res} \subseteq Acquired(d, i + 1)
  <1>1. ASSUME NEW j \in 1 .. i - 1
        PROVE  /\ j + 1 .. (i + 1) - 1 = (j + 1 .. i - 1) \cup {i}
               /\ j \in 1 .. (i + 1) - 1
    OBVIOUS
  <1> QED
    BY <1>1 DEF Acquired

LEMMA LInvInit == Init => LInv
  <1> SUFFICES ASSUME Init PROVE LInv
    OBVIOUS
  <1>1. Typing
    BY DEF Init, Typing, Phases
  <1>2. ASSUME NEW d \in Checked \cap Drivers PROVE Bounded(d)
    BY DEF Init, Bounded
  <1> QED
    BY <1>1, <1>2, CheckedAssumption DEF LInv

-----------------------------------------------------------------------------
\* A step of driver e, seen from the others.
Elsewhere(e) ==
    \A d \in Drivers \ {e} :
        /\ phase'[d] = phase[d] /\ pc'[d] = pc[d] /\ held'[d] = held[d]
        /\ todo'[d] = todo[d] /\ ends'[d] = ends[d] /\ leaked'[d] = leaked[d]

LEMMA OthersBounded ==
    ASSUME NEW e \in Drivers, NEW d \in Drivers, d # e, Elsewhere(e), Bounded(d)
    PROVE  Bounded(d)'
  <1>1. /\ phase'[d] = phase[d] /\ pc'[d] = pc[d] /\ held'[d] = held[d]
        /\ todo'[d] = todo[d] /\ ends'[d] = ends[d] /\ leaked'[d] = leaked[d]
    BY DEF Elsewhere
  <1> QED
    BY <1>1 DEF Bounded

\* It is enough to look at the driver that takes the step.
LEMMA StepOf ==
    ASSUME LInv, NEW e \in Drivers, Typing', Elsewhere(e),
           e \in Checked => Bounded(e)'
    PROVE  LInv'
  BY OthersBounded, CheckedAssumption DEF LInv

LEMMA ScriptTypes ==
    ASSUME NEW d \in Drivers
    PROVE  /\ Script[d].exit \in Seq(Resources)
           /\ Steps(d) \in Seq(StepType)
           /\ Len(Steps(d)) \in Nat /\ DOMAIN Steps(d) = 1 .. Len(Steps(d))
           /\ \A i \in DOMAIN Steps(d) :
                 /\ Steps(d)[i].res \in Resources
                 /\ Steps(d)[i].undo \in Seq(Resources)
                 /\ Steps(d)[i].returns \in {"absent", "loaded"}
                 /\ Steps(d)[i].op \in {"acquire", "drop"}
  <1>1. /\ Script[d].exit \in Seq(Resources)
        /\ Steps(d) \in Seq(StepType)
    BY ScriptAssumption DEF Steps
  <1>2. Len(Steps(d)) \in Nat /\ DOMAIN Steps(d) = 1 .. Len(Steps(d))
    BY <1>1
  <1>3. ASSUME NEW i \in DOMAIN Steps(d)
        PROVE  Steps(d)[i] \in StepType
    BY <1>1
  <1> QED
    BY <1>1, <1>2, <1>3 DEF StepType

LEMMA LInvStep == LeakproofScripts /\ LInv /\ [Next]_vars => LInv'
  <1> SUFFICES ASSUME LeakproofScripts, LInv, [Next]_vars PROVE LInv'
    OBVIOUS
  <1> USE DEF LInv
  <1>1. ASSUME NEW e \in Drivers, Load(e) PROVE LInv'
    <2>1. Typing'
      BY <1>1 DEF Load, Typing, Phases
    <2>2. Elsewhere(e)
      BY <1>1 DEF Load, Elsewhere, Typing
    <2>3. ASSUME e \in Checked PROVE Bounded(e)'
      <3>1. /\ phase'[e] = "init" /\ pc'[e] = 1 /\ held'[e] = {}
            /\ leaked'[e] = {}
        BY <1>1, <2>3 DEF Load, Typing, Bounded
      <3> QED
        BY <3>1, ScriptTypes DEF Bounded
    <2> QED
      BY <2>1, <2>2, <2>3, StepOf
  <1>2. ASSUME NEW e \in Drivers, Acquire(e) PROVE LInv'
    <2> DEFINE i == pc[e]
    <2>1. i \in DOMAIN Steps(e) /\ i \in Nat \ {0} /\ Steps(e)[i].op = "acquire"
          /\ Steps(e)[i].res \in Resources /\ i =< Len(Steps(e))
      BY <1>2, ScriptTypes DEF Acquire, AtStep
    <2>2. Typing'
      BY <1>2, <2>1 DEF Acquire, Typing
    <2>3. Elsewhere(e)
      BY <1>2 DEF Acquire, Elsewhere, Typing
    <2>4. ASSUME e \in Checked PROVE Bounded(e)'
      <3>1. /\ phase'[e] = "init" /\ pc'[e] = i + 1 /\ leaked'[e] = {}
            /\ held'[e] = held[e] \cup {Steps(e)[i].res}
        BY <1>2, <2>4 DEF Acquire, AtStep, Typing, Bounded
      <3>2. held[e] \subseteq Acquired(e, i)
        BY <1>2, <2>4 DEF Acquire, AtStep, Bounded
      <3>3. held'[e] \subseteq Acquired(e, i + 1)
        BY <2>1, <3>1, <3>2, AcquiredMore
      <3> QED
        BY <2>1, <3>1, <3>3, ScriptTypes DEF Bounded, Acquired, Steps
    <2> QED
      BY <2>2, <2>3, <2>4, StepOf
  <1>3. ASSUME NEW e \in Drivers, FailChecked(e) PROVE LInv'
    <2> DEFINE i == pc[e]
    <2>1. /\ i \in DOMAIN Steps(e)
          /\ Steps(e)[i].op = "acquire" /\ Steps(e)[i].checked
          /\ Steps(e)[i].undo \in Seq(Resources)
          /\ Steps(e)[i].returns \in {"absent", "loaded"}
      BY <1>3, ScriptTypes DEF FailChecked, AtStep
    <2>2. Typing'
      BY <1>3, <2>1 DEF FailChecked, Typing, Phases
    <2>3. Elsewhere(e)
      BY <1>3 DEF FailChecked, Elsewhere, Typing
    <2>4. ASSUME e \in Checked PROVE Bounded(e)'
      <3>1. /\ phase'[e] = "release" /\ todo'[e] = Steps(e)[i].undo
            /\ ends'[e] = Steps(e)[i].returns /\ held'[e] = held[e]
            /\ leaked'[e] = {}
        BY <1>3, <2>4 DEF FailChecked, Typing, Bounded
      <3>2. /\ Steps(e)[i].returns = "absent"
            /\ Acquired(e, i) \subseteq Covered(Steps(e)[i].undo)
        BY <2>1, <2>4 DEF LeakproofScripts, Leakproof
      <3>3. held[e] \subseteq Acquired(e, i)
        BY <1>3, <2>4 DEF FailChecked, AtStep, Bounded
      <3> QED
        BY <2>1, <3>1, <3>2, <3>3 DEF Bounded, Covered
    <2> QED
      BY <2>2, <2>3, <2>4, StepOf
  <1>4. ASSUME NEW e \in Drivers, FailIgnored(e) PROVE LInv'
    <2> DEFINE i == pc[e]
    <2>1. i \in DOMAIN Steps(e) /\ i \in Nat \ {0} /\ Steps(e)[i].op = "acquire"
          /\ i =< Len(Steps(e))
      BY <1>4, ScriptTypes DEF FailIgnored, AtStep
    <2>2. Typing'
      BY <1>4, <2>1 DEF FailIgnored, Typing
    <2>3. Elsewhere(e)
      BY <1>4 DEF FailIgnored, Elsewhere, Typing
    <2>4. ASSUME e \in Checked PROVE Bounded(e)'
      <3>1. /\ phase'[e] = "init" /\ pc'[e] = i + 1 /\ leaked'[e] = {}
            /\ held'[e] = held[e]
        BY <1>4, <2>4 DEF FailIgnored, AtStep, Typing, Bounded
      <3>2. held[e] \subseteq Acquired(e, i)
        BY <1>4, <2>4 DEF FailIgnored, AtStep, Bounded
      <3>3. held'[e] \subseteq Acquired(e, i + 1)
        BY <2>1, <3>1, <3>2, AcquiredMore
      <3> QED
        BY <2>1, <3>1, <3>3, ScriptTypes DEF Bounded, Acquired, Steps
    <2> QED
      BY <2>2, <2>3, <2>4, StepOf
  <1>5. ASSUME NEW e \in Drivers, Drop(e) PROVE LInv'
    <2> DEFINE i == pc[e]
    <2>1. i \in DOMAIN Steps(e) /\ i \in Nat \ {0} /\ Steps(e)[i].op = "drop"
          /\ Steps(e)[i].res \in Resources /\ i =< Len(Steps(e))
      BY <1>5, ScriptTypes DEF Drop, AtStep
    <2>2. Typing'
      BY <1>5, <2>1 DEF Drop, Release, Typing
    <2>3. Elsewhere(e)
      BY <1>5 DEF Drop, Release, Elsewhere, Typing
    <2>4. ASSUME e \in Checked PROVE Bounded(e)'
      <3>1. /\ phase'[e] = "init" /\ pc'[e] = i + 1 /\ leaked'[e] = {}
            /\ held'[e] = held[e] \ Family[Steps(e)[i].res]
        BY <1>5, <2>4 DEF Drop, Release, AtStep, Typing, Bounded
      <3>2. held[e] \subseteq Acquired(e, i)
        BY <1>5, <2>4 DEF Drop, AtStep, Bounded
      <3>3. Steps(e)[i].res \in Family[Steps(e)[i].res]
        BY <2>1, FamilyAssumption
      <3>4. held'[e] \subseteq Acquired(e, i + 1)
        BY <2>1, <3>1, <3>2, <3>3, AcquiredLess
      <3> QED
        BY <2>1, <3>1, <3>4, ScriptTypes DEF Bounded, Acquired, Steps
    <2> QED
      BY <2>2, <2>3, <2>4, StepOf
  <1>6. ASSUME NEW e \in Drivers, Loaded(e) PROVE LInv'
    <2>1. Typing'
      BY <1>6 DEF Loaded, Typing, Phases
    <2>2. Elsewhere(e)
      BY <1>6 DEF Loaded, Elsewhere, Typing
    <2>3. ASSUME e \in Checked PROVE Bounded(e)'
      <3>1. /\ phase'[e] = "loaded" /\ leaked'[e] = {} /\ held'[e] = held[e]
        BY <1>6, <2>3 DEF Loaded, Typing, Bounded
      <3>2. pc[e] = Len(Steps(e)) + 1
        BY <1>6, <2>3, ScriptTypes DEF Loaded, Bounded
      <3>3. held[e] \subseteq Acquired(e, Len(Steps(e)) + 1)
        BY <1>6, <2>3, <3>2 DEF Loaded, Bounded
      <3> QED
        BY <3>1, <3>3 DEF Bounded, Acquired, Steps
    <2> QED
      BY <2>1, <2>2, <2>3, StepOf
  <1>7. ASSUME NEW e \in Drivers, Unload(e) PROVE LInv'
    <2>1. Typing'
      BY <1>7, ScriptTypes DEF Unload, Typing, Phases
    <2>2. Elsewhere(e)
      BY <1>7 DEF Unload, Elsewhere, Typing
    <2>3. ASSUME e \in Checked PROVE Bounded(e)'
      <3>1. /\ phase'[e] = "release" /\ todo'[e] = Script[e].exit
            /\ ends'[e] = "absent" /\ held'[e] = held[e] /\ leaked'[e] = {}
        BY <1>7, <2>3 DEF Unload, Typing, Bounded
      <3>2. held[e] \subseteq Covered(Script[e].exit)
        BY <1>7, <2>3
        DEF Unload, Bounded, LeakproofScripts, Leakproof
      <3> QED
        BY <3>1, <3>2, ScriptTypes DEF Bounded, Covered
    <2> QED
      BY <2>1, <2>2, <2>3, StepOf
  <1>8. ASSUME NEW e \in Drivers, ReleaseNext(e) PROVE LInv'
    <2>1. Typing'
      BY <1>8 DEF ReleaseNext, Release, Typing
    <2>2. Elsewhere(e)
      BY <1>8 DEF ReleaseNext, Release, Elsewhere, Typing
    <2>3. ASSUME e \in Checked PROVE Bounded(e)'
      <3>1. /\ phase'[e] = "release" /\ todo'[e] = Tail(todo[e])
            /\ ends'[e] = "absent" /\ leaked'[e] = {}
            /\ held'[e] = held[e] \ Family[Head(todo[e])]
        BY <1>8, <2>3 DEF ReleaseNext, Release, Typing, Bounded
      <3>2. todo[e] \in Seq(Resources) /\ todo[e] # <<>>
            /\ held[e] \subseteq Covered(todo[e])
        BY <1>8, <2>3 DEF ReleaseNext, Bounded
      <3>3. held'[e] \subseteq Covered(Tail(todo[e]))
        BY <3>1, <3>2, CoveredTail
      <3>4. Tail(todo[e]) \in Seq(Resources)
        BY <3>2
      <3> QED
        BY <3>1, <3>3, <3>4 DEF Bounded, Covered
    <2> QED
      BY <2>1, <2>2, <2>3, StepOf
  <1>9. ASSUME NEW e \in Drivers, Return(e) PROVE LInv'
    <2>1. Typing'
      <3>1. phase' \in [Drivers -> Phases] /\ pc' \in [Drivers -> Nat \ {0}]
            /\ ends' \in [Drivers -> {"absent", "loaded"}]
        BY <1>9 DEF Return, Typing, Phases
      <3>2. held' \in [Drivers -> SUBSET Resources]
        BY <1>9 DEF Return, Typing
      <3>3. leaked' \in [Drivers -> SUBSET Resources]
        <4>1. CASE ends[e] = "absent"
          <5>1. leaked[e] \cup held[e] \in SUBSET Resources
            BY DEF Typing
          <5>2. leaked' = [leaked EXCEPT ![e] = leaked[e] \cup held[e]]
            BY <1>9, <4>1 DEF Return
          <5> QED
            BY <5>1, <5>2 DEF Typing
        <4>2. CASE ends[e] # "absent"
          BY <1>9, <4>2 DEF Return, Typing
        <4> QED
          BY <4>1, <4>2
      <3> QED
        BY <1>9, <3>1, <3>2, <3>3 DEF Return, Typing
    <2>2. Elsewhere(e)
      BY <1>9 DEF Return, Elsewhere, Typing
    <2>3. ASSUME e \in Checked PROVE Bounded(e)'
      <3>1. ends[e] = "absent" /\ held[e] = {} /\ leaked[e] = {}
        BY <1>9, <2>3, CoveredEmpty DEF Return, Bounded
      <3> QED
        BY <1>9, <3>1 DEF Return, Bounded, Typing
    <2> QED
      BY <2>1, <2>2, <2>3, StepOf
  <1>10. CASE UNCHANGED vars
    BY <1>10 DEF vars, Typing, Bounded, Acquired, Covered, Steps
  <1> QED
    BY <1>1, <1>2, <1>3, <1>4, <1>5, <1>6, <1>7, <1>8, <1>9, <1>10 DEF Next

\* If the scripts of the checked drivers keep the discipline, none of them
\* ever leaves anything behind: not after a failure at any step, not after
\* any number of lives, whatever fails in the other modules meanwhile.
THEOREM NoLeakHolds == LeakproofScripts => (Spec => []NoLeak)
  <1> SUFFICES ASSUME LeakproofScripts PROVE Spec => []NoLeak
    OBVIOUS
  <1>1. LInv /\ [Next]_vars => LInv'
    BY LInvStep
  <1>2. LInv => NoLeak
    BY DEF LInv, Bounded, NoLeak
  <1> QED
    BY LInvInit, <1>1, <1>2, PTL DEF Spec

-----------------------------------------------------------------------------
(* Types                                                                   *)

TypeInv ==
    /\ Typing
    /\ stray \in [Drivers -> SUBSET Resources]
    /\ \A d \in Drivers : pc[d] =< Len(Steps(d)) + 1

LEMMA StepFacts ==
    ASSUME TypeInv, NEW d \in Drivers, AtStep(d)
    PROVE  /\ pc[d] \in DOMAIN Steps(d) /\ pc[d] \in Nat \ {0}
           /\ Len(Steps(d)) \in Nat /\ pc[d] =< Len(Steps(d))
           /\ Steps(d)[pc[d]].res \in Resources
           /\ Steps(d)[pc[d]].undo \in Seq(Resources)
           /\ Steps(d)[pc[d]].returns \in {"absent", "loaded"}
  BY ScriptTypes DEF TypeInv, Typing, AtStep

\* A release takes away, and may add one name to the strays.
LEMMA ReleaseTypes ==
    ASSUME TypeInv, NEW d \in Drivers, NEW r \in Resources, Release(d, r)
    PROVE  /\ held' \in [Drivers -> SUBSET Resources]
           /\ stray' \in [Drivers -> SUBSET Resources]
  <1>1. held[d] \ Family[r] \in SUBSET Resources
        /\ stray[d] \cup {r} \in SUBSET Resources
    BY DEF TypeInv, Typing
  <1> QED
    BY <1>1 DEF Release, TypeInv, Typing

LEMMA TypeInvStep == TypeInv /\ [Next]_vars => TypeInv'
  <1> SUFFICES ASSUME TypeInv, [Next]_vars PROVE TypeInv'
    OBVIOUS
  <1> USE DEF TypeInv, Typing, Phases
  <1>0. \A d \in Drivers : Len(Steps(d)) \in Nat
    BY ScriptTypes
  <1>1. ASSUME NEW e \in Drivers, Load(e) PROVE TypeInv'
    BY <1>0, <1>1 DEF Load, Steps
  <1>2. ASSUME NEW e \in Drivers, Acquire(e) PROVE TypeInv'
    <2>1. held[e] \cup {Steps(e)[pc[e]].res} \in SUBSET Resources
      BY <1>2, StepFacts DEF Acquire
    <2>2. held' \in [Drivers -> SUBSET Resources]
      BY <1>2, <2>1 DEF Acquire
    <2> QED
      BY <1>2, <2>2, StepFacts DEF Acquire, Steps
  <1>3. ASSUME NEW e \in Drivers, FailChecked(e) PROVE TypeInv'
    BY <1>3, StepFacts DEF FailChecked, Steps
  <1>4. ASSUME NEW e \in Drivers, FailIgnored(e) PROVE TypeInv'
    BY <1>4, StepFacts DEF FailIgnored, Steps
  <1>5. ASSUME NEW e \in Drivers, Drop(e) PROVE TypeInv'
    <2>1. held' \in [Drivers -> SUBSET Resources]
          /\ stray' \in [Drivers -> SUBSET Resources]
      BY <1>5, StepFacts, ReleaseTypes DEF Drop
    <2>2. pc' = [pc EXCEPT ![e] = pc[e] + 1] /\ pc[e] + 1 =< Len(Steps(e)) + 1
          /\ UNCHANGED <<phase, todo, ends, leaked>>
      BY <1>5, StepFacts DEF Drop
    <2> QED
      BY <2>1, <2>2 DEF Steps
  <1>6. ASSUME NEW e \in Drivers, Loaded(e) PROVE TypeInv'
    BY <1>6 DEF Loaded, Steps
  <1>7. ASSUME NEW e \in Drivers, Unload(e) PROVE TypeInv'
    BY <1>7, ScriptTypes DEF Unload, Steps
  <1>8. ASSUME NEW e \in Drivers, ReleaseNext(e) PROVE TypeInv'
    <2>1. Head(todo[e]) \in Resources /\ Tail(todo[e]) \in Seq(Resources)
      BY <1>8 DEF ReleaseNext
    <2>2. held' \in [Drivers -> SUBSET Resources]
          /\ stray' \in [Drivers -> SUBSET Resources]
      BY <1>8, <2>1, ReleaseTypes DEF ReleaseNext
    <2> QED
      BY <1>8, <2>1, <2>2 DEF ReleaseNext, Steps
  <1>9. ASSUME NEW e \in Drivers, Return(e) PROVE TypeInv'
    <2>1. leaked[e] \cup held[e] \in SUBSET Resources
      OBVIOUS
    <2>2. held' \in [Drivers -> SUBSET Resources]
      BY <1>9 DEF Return
    <2>3. leaked' \in [Drivers -> SUBSET Resources]
      BY <1>9, <2>1 DEF Return
    <2>4. /\ phase' = [phase EXCEPT ![e] = ends[e]]
          /\ pc' = [pc EXCEPT ![e] = 1] /\ ends' = [ends EXCEPT ![e] = "absent"]
          /\ UNCHANGED <<todo, stray>>
      BY <1>9 DEF Return
    <2> QED
      BY <1>0, <2>2, <2>3, <2>4 DEF Steps
  <1>10. CASE UNCHANGED vars
    BY <1>10 DEF vars, Steps
  <1> HIDE DEF TypeInv, Typing, Phases
  <1> QED
    BY <1>1, <1>2, <1>3, <1>4, <1>5, <1>6, <1>7, <1>8, <1>9, <1>10 DEF Next

LEMMA TypeInvariance == Spec => []TypeInv
  <1>1. Init => TypeInv
    BY ScriptTypes DEF Init, TypeInv, Typing, Phases
  <1> QED
    BY <1>1, TypeInvStep, PTL DEF Spec

\* Types, for scripts of any length: no register function is ever past the
\* end of its script by more than one.
THEOREM LifecycleTypeCorrect == Spec => []TypeOK
  <1>1. TypeInv => TypeOK
    BY ScriptTypes DEF TypeInv, Typing, TypeOK
  <1> QED
    BY <1>1, TypeInvariance, PTL

-----------------------------------------------------------------------------
(* Completeness                                                            *)

\* What register has passed and is to keep.
Passed(d, i) ==
    {Steps(d)[j].res : j \in {j \in 1 .. i - 1 : Steps(d)[j].op = "acquire"}}

Kept(d) ==
    /\ phase[d] = "init"    => Passed(d, pc[d]) \cap Essential(d) \subseteq held[d]
    /\ phase[d] = "loaded"  => Essential(d) \subseteq held[d]
    /\ phase[d] = "release" => ends[d] = "absent"

KInv == TypeInv /\ \A d \in Checked : Kept(d)

LEMMA PassedMore ==
    ASSUME NEW d \in Drivers, NEW i \in DOMAIN Steps(d), i \in Nat \ {0}
    PROVE  Passed(d, i + 1) =
              Passed(d, i) \cup (IF Steps(d)[i].op = "acquire"
                                 THEN {Steps(d)[i].res} ELSE {})
  <1>1. 1 .. (i + 1) - 1 = (1 .. i - 1) \cup {i}
    OBVIOUS
  <1> QED
    BY <1>1 DEF Passed

LEMMA PassedAll ==
    ASSUME NEW d \in Drivers
    PROVE  Essential(d) \subseteq Passed(d, Len(Steps(d)) + 1)
  <1>1. DOMAIN Steps(d) = 1 .. (Len(Steps(d)) + 1) - 1
    BY ScriptTypes
  <1> QED
    BY <1>1 DEF Passed, Essential

\* The others keep what they have.
LEMMA OthersKept ==
    ASSUME NEW e \in Drivers, NEW d \in Drivers, d # e, Elsewhere(e), Kept(d)
    PROVE  Kept(d)'
  <1>1. /\ phase'[d] = phase[d] /\ pc'[d] = pc[d] /\ held'[d] = held[d]
        /\ ends'[d] = ends[d]
    BY DEF Elsewhere
  <1> QED
    BY <1>1 DEF Kept, Passed, Essential, Steps

LEMMA KeptStep ==
    ASSUME ThoroughScripts, KInv, NEW e \in Drivers, e \in Checked,
           \/ Load(e) \/ Acquire(e) \/ FailChecked(e) \/ FailIgnored(e)
           \/ Drop(e) \/ Loaded(e) \/ Unload(e) \/ ReleaseNext(e) \/ Return(e)
    PROVE  Kept(e)'
  <1> DEFINE i == pc[e]
  <1>0. Kept(e) /\ TypeInv /\ Thorough(e)
    BY DEF KInv, ThoroughScripts
  <1> USE <1>0 DEF TypeInv, Typing, Phases
  <1>1. CASE Load(e)
    <2>1. phase'[e] = "init" /\ pc'[e] = 1
      BY <1>1 DEF Load
    <2>2. Passed(e, 1) = {}
      BY DEF Passed
    <2> QED
      BY <2>1, <2>2 DEF Kept, Passed, Steps
  <1>2. CASE Acquire(e) \/ FailIgnored(e) \/ Drop(e)
    <2>1. AtStep(e) /\ phase'[e] = "init" /\ pc'[e] = i + 1
      BY <1>2 DEF Acquire, FailIgnored, Drop, AtStep
    <2>2. Passed(e, i) \cap Essential(e) \subseteq held[e]
      BY <2>1 DEF Kept, AtStep
    <2>3. Passed(e, i + 1) \cap Essential(e) \subseteq held'[e]
      <3>1. CASE Acquire(e)
        BY <2>1, <2>2, <3>1, StepFacts, PassedMore DEF Acquire
      <3>2. CASE FailIgnored(e)
        <4>1. Steps(e)[i].res \notin Essential(e) /\ held' = held
          BY <2>1, <3>2, StepFacts DEF FailIgnored, Thorough
        <4> QED
          BY <2>1, <2>2, <4>1, StepFacts, PassedMore
      <3>3. CASE Drop(e)
        <4>1. Steps(e)[i].op = "drop"
              /\ held'[e] = held[e] \ Family[Steps(e)[i].res]
          BY <3>3 DEF Drop, Release
        <4>2. Family[Steps(e)[i].res] \cap Essential(e) = {}
          BY <2>1, <4>1, StepFacts DEF Thorough
        <4> QED
          BY <2>1, <2>2, <4>1, <4>2, StepFacts, PassedMore
      <3> QED
        BY <1>2, <3>1, <3>2, <3>3
    <2> QED
      BY <2>1, <2>3 DEF Kept, Passed, Essential, Steps
  <1>3. CASE FailChecked(e)
    <2>1. Steps(e)[i].returns = "absent"
      BY <1>3, StepFacts DEF FailChecked, Thorough
    <2> QED
      BY <1>3, <2>1 DEF FailChecked, Kept
  <1>4. CASE Loaded(e)
    <2>1. i = Len(Steps(e)) + 1
      BY <1>4, ScriptTypes DEF Loaded
    <2>2. Essential(e) \subseteq held[e]
      BY <1>4, <2>1, PassedAll DEF Loaded, Kept
    <2>3. phase'[e] = "loaded" /\ held' = held
      BY <1>4 DEF Loaded
    <2> QED
      BY <2>2, <2>3 DEF Kept, Essential, Steps
  <1>5. CASE Unload(e)
    BY <1>5 DEF Unload, Kept
  <1>6. CASE ReleaseNext(e)
    BY <1>6 DEF ReleaseNext, Kept
  <1>7. CASE Return(e)
    BY <1>7 DEF Return, Kept
  <1> QED
    BY <1>1, <1>2, <1>3, <1>4, <1>5, <1>6, <1>7

\* If the scripts of the checked drivers look at the results that matter and
\* pass them on, a module that stays loaded has all it is there to provide.
THEOREM LoadedIsCompleteHolds == ThoroughScripts => (Spec => []LoadedIsComplete)
  <1> SUFFICES ASSUME ThoroughScripts PROVE Spec => []LoadedIsComplete
    OBVIOUS
  <1>1. Init => KInv
    <2>1. Init => TypeInv
      BY ScriptTypes DEF Init, TypeInv, Typing, Phases
    <2> QED
      BY <2>1, CheckedAssumption DEF Init, KInv, Kept
  <1>2. KInv /\ [Next]_vars => KInv'
    <2> SUFFICES ASSUME KInv, [Next]_vars PROVE KInv'
      OBVIOUS
    <2>1. TypeInv'
      BY TypeInvStep DEF KInv
    <2>2. CASE UNCHANGED vars
      BY <2>1, <2>2 DEF vars, KInv, Kept, Passed, Essential, Steps
    <2>3. ASSUME NEW e \in Drivers,
                 \/ Load(e) \/ Acquire(e) \/ FailChecked(e) \/ FailIgnored(e)
                 \/ Drop(e) \/ Loaded(e) \/ Unload(e) \/ ReleaseNext(e)
                 \/ Return(e)
          PROVE  KInv'
      <3>1. Elsewhere(e)
        BY <2>3
        DEF KInv, TypeInv, Typing, Elsewhere, Load, Acquire, FailChecked,
            FailIgnored, Drop, Loaded, Unload, ReleaseNext, Return, Release
      <3> QED
        BY <2>1, <2>3, <3>1, KeptStep, OthersKept, CheckedAssumption DEF KInv
    <2> QED
      BY <2>2, <2>3 DEF Next
  <1>3. KInv => LoadedIsComplete
    BY DEF KInv, Kept, LoadedIsComplete
  <1> QED
    BY <1>1, <1>2, <1>3, PTL DEF Spec
-----------------------------------------------------------------------------
(* The order of the releases                                               *)

\* What a driver holds lies between what it holds for certain and what it
\* may hold, and a cleanup is never followed by a return of 0.
Bracket(d) ==
    /\ phase[d] = "absent"  => held[d] = {}
    /\ phase[d] = "init"    => /\ Sure(d, pc[d]) \subseteq held[d]
                               /\ held[d] \subseteq Acquired(d, pc[d])
    /\ phase[d] = "loaded"  => /\ Sure(d, Len(Steps(d)) + 1) \subseteq held[d]
                               /\ held[d] \subseteq Acquired(d, Len(Steps(d)) + 1)
    /\ phase[d] = "release" => ends[d] = "absent"

StepBy(e) ==
    \/ Load(e) \/ Acquire(e) \/ FailChecked(e) \/ FailIgnored(e)
    \/ Drop(e) \/ Loaded(e) \/ Unload(e) \/ ReleaseNext(e) \/ Return(e)

LEMMA SureFirst == ASSUME NEW d \in Drivers PROVE Sure(d, 1) = {}
  BY DEF Sure

\* What is held for certain after an acquisition: what failed and was not
\* looked at is not.
LEMMA SureAcquire ==
    ASSUME NEW d \in Drivers, NEW i \in DOMAIN Steps(d), i \in Nat \ {0},
           Steps(d)[i].op = "acquire"
    PROVE  /\ Sure(d, i + 1) \subseteq Sure(d, i) \cup {Steps(d)[i].res}
           /\ ~Steps(d)[i].checked => Sure(d, i + 1) \subseteq Sure(d, i)
  <1>1. 1 .. (i + 1) - 1 = (1 .. i - 1) \cup {i}
    OBVIOUS
  <1>2. ASSUME NEW j \in 1 .. i - 1
        PROVE  j + 1 .. (i + 1) - 1 = (j + 1 .. i - 1) \cup {i}
    OBVIOUS
  <1> QED
    BY <1>1, <1>2 DEF Sure

LEMMA SureDrop ==
    ASSUME NEW d \in Drivers, NEW i \in DOMAIN Steps(d), i \in Nat \ {0},
           Steps(d)[i].op = "drop"
    PROVE  Sure(d, i + 1) \subseteq Sure(d, i) \ Family[Steps(d)[i].res]
  <1>1. 1 .. (i + 1) - 1 = (1 .. i - 1) \cup {i}
    OBVIOUS
  <1>2. ASSUME NEW j \in 1 .. i - 1
        PROVE  j + 1 .. (i + 1) - 1 = (j + 1 .. i - 1) \cup {i}
    OBVIOUS
  <1> QED
    BY <1>1, <1>2 DEF Sure

\* What is gone after k + 1 releases: the first, and k of the others.
LEMMA GoneTail ==
    ASSUME NEW rs \in Seq(Resources), rs # <<>>, NEW k \in 0 .. Len(rs) - 1
    PROVE  Gone(rs, k + 1) = Family[Head(rs)] \cup Gone(Tail(rs), k)
  <1>1. \A j \in 1 .. k : Tail(rs)[j] = rs[j + 1]
    OBVIOUS
  <1>2. Head(rs) = rs[1]
    OBVIOUS
  <1>3. ASSUME NEW j \in 1 .. k + 1, j # 1 PROVE j - 1 \in 1 .. k
    BY <1>3
  <1>4. \A j \in 1 .. k : j + 1 \in 1 .. k + 1
    OBVIOUS
  <1>5. ASSUME NEW x \in Gone(rs, k + 1), x \notin Family[rs[1]]
        PROVE  x \in Gone(Tail(rs), k)
    <2>1. PICK j \in 1 .. k + 1 : x \in Family[rs[j]]
      BY DEF Gone
    <2>2. j # 1
      BY <1>5, <2>1
    <2>3. j - 1 \in 1 .. k /\ Tail(rs)[j - 1] = rs[j]
      BY <1>1, <1>3, <2>2
    <2> QED
      BY <2>1, <2>3 DEF Gone
  <1>6. ASSUME NEW x \in Gone(Tail(rs), k) PROVE x \in Gone(rs, k + 1)
    <2>1. PICK j \in 1 .. k : x \in Family[Tail(rs)[j]]
      BY DEF Gone
    <2> QED
      BY <1>1, <1>4, <2>1 DEF Gone
  <1>7. Family[rs[1]] \subseteq Gone(rs, k + 1)
    <2>1. 1 \in 1 .. k + 1
      OBVIOUS
    <2> QED
      BY <2>1 DEF Gone
  <1> QED
    BY <1>2, <1>5, <1>6, <1>7

LEMMA GoneNone == ASSUME NEW rs PROVE Gone(rs, 0) = {}
  BY DEF Gone

\* A list that is in order for all that may be held is so for what is held.
LEMMA OrderlyHeld ==
    ASSUME NEW rs, NEW sure, NEW may, Orderly(rs, sure, may),
           NEW h, sure \subseteq h, h \subseteq may
    PROVE  Orderly(rs, h, h)
  BY DEF Orderly

LEMMA OrderlyFirst ==
    ASSUME NEW rs \in Seq(Resources), rs # <<>>, NEW h, Orderly(rs, h, h)
    PROVE  \/ Head(rs) \in Tolerant
           \/ /\ Head(rs) \in h
              /\ \A o \in h \ {Head(rs)} : Head(rs) \notin Family[o]
  <1>1. 1 \in DOMAIN rs /\ Head(rs) = rs[1] /\ 1 - 1 = 0
    OBVIOUS
  <1>2. \/ rs[1] \in Tolerant
        \/ /\ rs[1] \in h \ Gone(rs, 0)
           /\ \A o \in h \ (Gone(rs, 0) \cup {rs[1]}) : rs[1] \notin Family[o]
    BY <1>1 DEF Orderly
  <1> QED
    BY <1>1, <1>2, GoneNone

LEMMA OrderlyTail ==
    ASSUME NEW rs \in Seq(Resources), rs # <<>>, NEW h, Orderly(rs, h, h)
    PROVE  Orderly(Tail(rs), h \ Family[Head(rs)], h \ Family[Head(rs)])
  <1> DEFINE g == h \ Family[Head(rs)]
  <1> SUFFICES ASSUME NEW k \in DOMAIN Tail(rs)
               PROVE  \/ Tail(rs)[k] \in Tolerant
                      \/ /\ Tail(rs)[k] \in g \ Gone(Tail(rs), k - 1)
                         /\ \A o \in g \ (Gone(Tail(rs), k - 1) \cup {Tail(rs)[k]}) :
                               Tail(rs)[k] \notin Family[o]
    BY DEF Orderly
  <1>1. /\ k \in Nat \ {0} /\ k + 1 \in DOMAIN rs /\ Tail(rs)[k] = rs[k + 1]
        /\ k - 1 \in 0 .. Len(rs) - 1 /\ (k + 1) - 1 = k /\ (k - 1) + 1 = k
    OBVIOUS
  <1>2. Gone(rs, k) = Family[Head(rs)] \cup Gone(Tail(rs), k - 1)
    BY <1>1, GoneTail
  <1>3. \/ rs[k + 1] \in Tolerant
        \/ /\ rs[k + 1] \in h \ Gone(rs, k)
           /\ \A o \in h \ (Gone(rs, k) \cup {rs[k + 1]}) :
                 rs[k + 1] \notin Family[o]
    BY <1>1 DEF Orderly
  <1> QED
    BY <1>1, <1>2, <1>3

LEMMA TopDownHeld ==
    ASSUME NEW rs, NEW may, TopDown(rs, may), NEW h, h \subseteq may
    PROVE  TopDown(rs, h)
  BY DEF TopDown

LEMMA TopDownFirst ==
    ASSUME NEW rs \in Seq(Resources), rs # <<>>, NEW h, TopDown(rs, h)
    PROVE  \A o \in h \ Family[Head(rs)] : Needs[o] \cap Family[Head(rs)] = {}
  <1>1. 1 \in DOMAIN rs /\ Head(rs) = rs[1]
    OBVIOUS
  <1>2. Gone(rs, 1) = Family[rs[1]]
    BY DEF Gone
  <1> QED
    BY <1>1, <1>2 DEF TopDown

LEMMA TopDownTail ==
    ASSUME NEW rs \in Seq(Resources), rs # <<>>, NEW h, TopDown(rs, h)
    PROVE  TopDown(Tail(rs), h \ Family[Head(rs)])
  <1> SUFFICES ASSUME NEW k \in DOMAIN Tail(rs),
                      NEW o \in (h \ Family[Head(rs)]) \ Gone(Tail(rs), k)
               PROVE  Needs[o] \cap Family[Tail(rs)[k]] = {}
    BY DEF TopDown
  <1>1. /\ k \in Nat \ {0} /\ k + 1 \in DOMAIN rs /\ Tail(rs)[k] = rs[k + 1]
        /\ k \in 0 .. Len(rs) - 1
    OBVIOUS
  <1>2. Gone(rs, k + 1) = Family[Head(rs)] \cup Gone(Tail(rs), k)
    BY <1>1, GoneTail
  <1> QED
    BY <1>1, <1>2 DEF TopDown

LEMMA OthersBracket ==
    ASSUME NEW e \in Drivers, NEW d \in Drivers, d # e, Elsewhere(e), Bracket(d)
    PROVE  Bracket(d)'
  <1>1. /\ phase'[d] = phase[d] /\ pc'[d] = pc[d] /\ held'[d] = held[d]
        /\ ends'[d] = ends[d]
    BY DEF Elsewhere
  <1> QED
    BY <1>1 DEF Bracket, Sure, Acquired, Steps

LEMMA BracketStep ==
    ASSUME TypeInv, NEW e \in Drivers, Honest(e), Bracket(e), StepBy(e)
    PROVE  Bracket(e)'
  <1> DEFINE i == pc[e]
             n == Len(Steps(e)) + 1
  <1> USE DEF TypeInv, Typing, Phases
  <1>1. CASE Load(e)
    <2>1. phase'[e] = "init" /\ pc'[e] = 1 /\ held'[e] = {}
      BY <1>1 DEF Load, Bracket
    <2>2. Sure(e, 1) \subseteq {}
      BY SureFirst
    <2> QED
      BY <2>1, <2>2 DEF Bracket, Sure, Acquired, Steps
  <1>2. CASE Acquire(e) \/ FailIgnored(e) \/ Drop(e)
    <2>1. AtStep(e) /\ phase'[e] = "init" /\ pc'[e] = i + 1
      BY <1>2 DEF Acquire, FailIgnored, Drop, AtStep
    <2>2. Sure(e, i) \subseteq held[e] /\ held[e] \subseteq Acquired(e, i)
      BY <2>1 DEF Bracket, AtStep
    <2>3. i \in DOMAIN Steps(e) /\ i \in Nat \ {0} /\ Steps(e)[i].res \in Resources
      BY <2>1, StepFacts
    <2>4. Sure(e, i + 1) \subseteq held'[e] /\ held'[e] \subseteq Acquired(e, i + 1)
      <3>1. CASE Acquire(e)
        <4>1. Steps(e)[i].op = "acquire" /\ held'[e] = held[e] \cup {Steps(e)[i].res}
          BY <3>1 DEF Acquire
        <4> QED
          BY <2>2, <2>3, <4>1, SureAcquire, AcquiredMore
      <3>2. CASE FailIgnored(e)
        <4>1. /\ Steps(e)[i].op = "acquire" /\ ~Steps(e)[i].checked
              /\ held'[e] = held[e]
          BY <3>2 DEF FailIgnored
        <4>2. Sure(e, i + 1) \subseteq Sure(e, i)
          BY <2>3, <4>1, SureAcquire
        <4>3. Acquired(e, i) \subseteq Acquired(e, i + 1)
          BY <2>3, <4>1, AcquiredMore
        <4> QED
          BY <2>2, <4>1, <4>2, <4>3
      <3>3. CASE Drop(e)
        <4>1. Steps(e)[i].op = "drop"
              /\ held'[e] = held[e] \ Family[Steps(e)[i].res]
          BY <3>3 DEF Drop, Release
        <4>2. Steps(e)[i].res \in Family[Steps(e)[i].res]
          BY <2>3, FamilyAssumption
        <4> QED
          BY <2>2, <2>3, <4>1, <4>2, SureDrop, AcquiredLess
      <3> QED
        BY <1>2, <3>1, <3>2, <3>3
    <2> QED
      BY <2>1, <2>4 DEF Bracket, Sure, Acquired, Steps
  <1>3. CASE FailChecked(e)
    <2>1. Steps(e)[i].returns = "absent"
      BY <1>3, StepFacts DEF FailChecked, Honest
    <2> QED
      BY <1>3, <2>1 DEF FailChecked, Bracket
  <1>4. CASE Loaded(e)
    <2>1. i = n
      BY <1>4, ScriptTypes DEF Loaded
    <2>2. Sure(e, n) \subseteq held[e] /\ held[e] \subseteq Acquired(e, n)
      BY <1>4, <2>1 DEF Loaded, Bracket
    <2>3. phase'[e] = "loaded" /\ held' = held
      BY <1>4 DEF Loaded
    <2> QED
      BY <2>2, <2>3 DEF Bracket, Sure, Acquired, Steps
  <1>5. CASE Unload(e)
    BY <1>5 DEF Unload, Bracket
  <1>6. CASE ReleaseNext(e)
    BY <1>6 DEF ReleaseNext, Bracket
  <1>7. CASE Return(e)
    <2>1. phase'[e] = "absent" /\ held'[e] = {}
      BY <1>7 DEF Return, Bracket
    <2> QED
      BY <2>1 DEF Bracket
  <1> QED
    BY <1>1, <1>2, <1>3, <1>4, <1>5, <1>6, <1>7 DEF StepBy

LEMMA StepElsewhere ==
    ASSUME TypeInv, NEW e \in Drivers, StepBy(e)
    PROVE  Elsewhere(e) /\ \A d \in Drivers \ {e} : stray'[d] = stray[d]
  <1>1. Elsewhere(e)
    BY DEF TypeInv, Typing, Elsewhere, Load, Acquire, FailChecked,
           FailIgnored, Drop, Loaded, Unload, ReleaseNext, Return, Release, StepBy
  <1>2. ASSUME NEW d \in Drivers \ {e} PROVE stray'[d] = stray[d]
    BY DEF TypeInv, Typing, Load, Acquire, FailChecked,
           FailIgnored, Drop, Loaded, Unload, ReleaseNext, Return, Release, StepBy
  <1> QED
    BY <1>1, <1>2

\* A driver that has released nothing it should not have, and whose cleanup
\* is in order for what it holds.
Neat(d) ==
    /\ stray[d] = {}
    /\ phase[d] = "release" => Orderly(todo[d], held[d], held[d])

\* A call that finds what it releases, or does not care, leaves no stray.
LEMMA CleanRelease ==
    ASSUME TypeInv, NEW d \in Drivers, NEW r, Release(d, r), stray[d] = {},
           \/ r \in Tolerant
           \/ r \in held[d] /\ \A o \in held[d] \ {r} : r \notin Family[o]
    PROVE  stray'[d] = {}
  BY DEF Release, Owned, TypeInv

LEMMA NeatStep ==
    ASSUME TypeInv, NEW e \in Drivers, Tidy(e), Bracket(e), Neat(e), StepBy(e)
    PROVE  Neat(e)'
  <1> DEFINE i == pc[e]
             n == Len(Steps(e)) + 1
  <1> USE DEF TypeInv, Typing, Phases
  <1>1. CASE Load(e) \/ Acquire(e) \/ FailIgnored(e) \/ Loaded(e)
    <2>1. phase'[e] # "release" /\ stray' = stray
      BY <1>1 DEF Load, Acquire, FailIgnored, Loaded, AtStep
    <2> QED
      BY <2>1 DEF Neat
  <1>2. CASE FailChecked(e)
    <2>1. /\ i \in DOMAIN Steps(e) /\ phase[e] = "init" /\ i \in 1 .. n
          /\ Steps(e)[i].op = "acquire" /\ Steps(e)[i].checked
      BY <1>2, StepFacts DEF FailChecked, AtStep
    <2>2. Chain(e, i) = Steps(e)[i].undo
      BY <2>1 DEF Chain
    <2>3. Orderly(Steps(e)[i].undo, Sure(e, i), Acquired(e, i))
      BY <2>1, <2>2 DEF Tidy
    <2>4. Orderly(Steps(e)[i].undo, held[e], held[e])
      BY <2>1, <2>3, OrderlyHeld DEF Bracket
    <2>5. todo'[e] = Steps(e)[i].undo /\ held' = held /\ stray' = stray
      BY <1>2 DEF FailChecked
    <2> QED
      BY <2>4, <2>5 DEF Neat, Orderly, Gone
  <1>3. CASE Unload(e)
    <2>1. n \in 1 .. n /\ n \notin DOMAIN Steps(e)
      BY ScriptTypes
    <2>2. Orderly(Script[e].exit, Sure(e, n), Acquired(e, n))
      BY <2>1 DEF Tidy, Chain
    <2>3. Orderly(Script[e].exit, held[e], held[e])
      BY <1>3, <2>2, OrderlyHeld DEF Bracket, Unload
    <2>4. todo'[e] = Script[e].exit /\ held' = held /\ stray' = stray
      BY <1>3 DEF Unload
    <2> QED
      BY <2>3, <2>4 DEF Neat, Orderly, Gone
  <1>4. CASE Drop(e)
    <2> DEFINE r == Steps(e)[i].res
    <2>1. /\ i \in DOMAIN Steps(e) /\ phase[e] = "init" /\ i \in 1 .. n
          /\ Steps(e)[i].op = "drop" /\ r \in Resources
      BY <1>4, StepFacts DEF Drop, AtStep
    <2>2. Orderly(<<r>>, Sure(e, i), Acquired(e, i))
      BY <2>1 DEF Tidy, Chain
    <2>3. Orderly(<<r>>, held[e], held[e])
      BY <2>1, <2>2, OrderlyHeld DEF Bracket
    <2>4. <<r>> \in Seq(Resources) /\ <<r>> # <<>> /\ Head(<<r>>) = r
      BY <2>1
    <2>5. \/ r \in Tolerant
          \/ r \in held[e] /\ \A o \in held[e] \ {r} : r \notin Family[o]
      <3> DEFINE rs == <<r>>
      <3>1. /\ rs \in Seq(Resources) /\ rs # <<>> /\ Head(rs) = r
            /\ Orderly(rs, held[e], held[e])
        BY <2>3, <2>4
      <3> HIDE DEF rs
      <3> QED
        BY <3>1, OrderlyFirst
    <2>6. Release(e, r) /\ phase'[e] = "init"
      BY <1>4, <2>1 DEF Drop
    <2>7. stray'[e] = {}
      BY <2>5, <2>6, CleanRelease DEF Neat
    <2> QED
      BY <2>6, <2>7 DEF Neat
  <1>5. CASE ReleaseNext(e)
    <2> DEFINE rs == todo[e]
    <2>1. rs \in Seq(Resources) /\ rs # <<>> /\ Orderly(rs, held[e], held[e])
      BY <1>5 DEF ReleaseNext, Neat
    <2>2. Release(e, Head(rs)) /\ todo'[e] = Tail(rs)
          /\ held'[e] = held[e] \ Family[Head(rs)]
      BY <1>5 DEF ReleaseNext, Release
    <2>3. \/ Head(rs) \in Tolerant
          \/ /\ Head(rs) \in held[e]
             /\ \A o \in held[e] \ {Head(rs)} : Head(rs) \notin Family[o]
      BY <2>1, OrderlyFirst
    <2>4. stray'[e] = {}
      BY <2>2, <2>3, CleanRelease DEF Neat
    <2>5. Orderly(Tail(rs), held'[e], held'[e])
      BY <2>1, <2>2, OrderlyTail
    <2> QED
      BY <2>2, <2>4, <2>5 DEF Neat, Orderly, Gone
  <1>6. CASE Return(e)
    <2>1. phase'[e] = "absent" /\ stray' = stray
      BY <1>6 DEF Return, Bracket
    <2> QED
      BY <2>1 DEF Neat
  <1> QED
    BY <1>1, <1>2, <1>3, <1>4, <1>5, <1>6 DEF StepBy

\* If the releases of the checked drivers are in order for all that may be
\* held when they are entered, nothing is ever released that is not held, nor
\* anything that the kernel will release again.
THEOREM NoStrayHolds == TidyScripts => (Spec => []NoStray)
  <1> SUFFICES ASSUME TidyScripts PROVE Spec => []NoStray
    OBVIOUS
  <1> DEFINE Inv == TypeInv /\ \A d \in Checked : Bracket(d) /\ Neat(d)
  <1>1. Init => Inv
    <2>1. Init => TypeInv
      BY ScriptTypes DEF Init, TypeInv, Typing, Phases
    <2> QED
      BY <2>1, CheckedAssumption DEF Init, Bracket, Neat
  <1>2. Inv /\ [Next]_vars => Inv'
    <2> SUFFICES ASSUME Inv, [Next]_vars PROVE Inv'
      OBVIOUS
    <2>1. TypeInv'
      BY TypeInvStep
    <2>2. CASE UNCHANGED vars
      BY <2>1, <2>2 DEF vars, Bracket, Neat, Sure, Acquired, Orderly, Gone, Steps
    <2>3. ASSUME NEW e \in Drivers, StepBy(e) PROVE Inv'
      <3>1. Elsewhere(e) /\ \A d \in Drivers \ {e} : stray'[d] = stray[d]
        BY <2>3, StepElsewhere
      <3>2. ASSUME NEW d \in Checked, d # e PROVE Bracket(d)' /\ Neat(d)'
        <4>1. d \in Drivers
          BY CheckedAssumption
        <4>2. phase'[d] = phase[d] /\ held'[d] = held[d] /\ todo'[d] = todo[d]
              /\ stray'[d] = stray[d]
          BY <3>1, <3>2, <4>1 DEF Elsewhere
        <4>3. Neat(d)'
          BY <4>2 DEF Neat, Orderly, Gone
        <4> QED
          BY <3>1, <3>2, <4>1, <4>3, OthersBracket
      <3>3. ASSUME e \in Checked PROVE Bracket(e)' /\ Neat(e)'
        <4>1. Tidy(e) /\ Honest(e)
          BY <3>3 DEF TidyScripts, Tidy
        <4> QED
          BY <2>3, <3>3, <4>1, BracketStep, NeatStep
      <3> QED
        BY <2>1, <3>2, <3>3
    <2> QED
      BY <2>2, <2>3 DEF Next, StepBy
  <1>3. Inv => NoStray
    BY DEF Neat, NoStray
  <1> QED
    BY <1>1, <1>2, <1>3, PTL DEF Spec

-----------------------------------------------------------------------------
\* What a driver holds stands on what it holds, and its cleanup takes the
\* upper storeys down first.
Upright(d) ==
    /\ \A r \in held[d] : Needs[r] \subseteq held[d]
    /\ phase[d] = "release" => TopDown(todo[d], held[d])

LEMMA UprightRelease ==
    ASSUME NEW h, NEW f, \A r \in h : Needs[r] \subseteq h,
           \A o \in h \ f : Needs[o] \cap f = {}
    PROVE  \A r \in h \ f : Needs[r] \subseteq h \ f
  OBVIOUS

LEMMA TopDownNext ==
    ASSUME NEW d \in Drivers, TopDown(todo'[d], held'[d])
    PROVE  TopDown(todo[d], held[d])'
  BY DEF TopDown, Gone

LEMMA UprightStep ==
    ASSUME TypeInv, NEW e \in Drivers, Grounded(e), Bracket(e), Upright(e), StepBy(e)
    PROVE  Upright(e)'
  <1> DEFINE i == pc[e]
             n == Len(Steps(e)) + 1
  <1> USE DEF TypeInv, Typing, Phases
  <1>1. CASE Load(e) \/ FailIgnored(e) \/ Loaded(e)
    <2>1. phase'[e] # "release" /\ held' = held
      BY <1>1 DEF Load, FailIgnored, Loaded, AtStep
    <2> QED
      BY <2>1 DEF Upright
  <1>2. CASE Acquire(e)
    <2>1. /\ i \in DOMAIN Steps(e) /\ phase[e] = "init"
          /\ Steps(e)[i].op = "acquire"
          /\ held'[e] = held[e] \cup {Steps(e)[i].res} /\ phase'[e] = "init"
      BY <1>2 DEF Acquire, AtStep
    <2>2. Needs[Steps(e)[i].res] \subseteq held[e]
      BY <2>1 DEF Grounded, Bracket
    <2> QED
      BY <2>1, <2>2 DEF Upright
  <1>3. CASE FailChecked(e)
    <2>1. /\ i \in DOMAIN Steps(e) /\ phase[e] = "init" /\ i \in 1 .. n
          /\ Steps(e)[i].op = "acquire" /\ Steps(e)[i].checked
      BY <1>3, StepFacts DEF FailChecked, AtStep
    <2>2. TopDown(Steps(e)[i].undo, Acquired(e, i))
      BY <2>1 DEF Grounded, Chain
    <2>3. TopDown(Steps(e)[i].undo, held[e])
      BY <2>1, <2>2, TopDownHeld DEF Bracket
    <2>4. todo'[e] = Steps(e)[i].undo /\ held' = held
      BY <1>3 DEF FailChecked
    <2>5. TopDown(todo'[e], held'[e])
      BY <2>3, <2>4
    <2> QED
      BY <2>4, <2>5, TopDownNext DEF Upright
  <1>4. CASE Unload(e)
    <2>1. n \in 1 .. n /\ n \notin DOMAIN Steps(e)
      BY ScriptTypes
    <2>2. TopDown(Script[e].exit, Acquired(e, n))
      BY <2>1 DEF Grounded, Chain
    <2>3. TopDown(Script[e].exit, held[e])
      BY <1>4, <2>2, TopDownHeld DEF Bracket, Unload
    <2>4. todo'[e] = Script[e].exit /\ held' = held
      BY <1>4 DEF Unload
    <2>5. TopDown(todo'[e], held'[e])
      BY <2>3, <2>4
    <2> QED
      BY <2>4, <2>5, TopDownNext DEF Upright
  <1>5. CASE Drop(e)
    <2> DEFINE r == Steps(e)[i].res
    <2>1. /\ i \in DOMAIN Steps(e) /\ phase[e] = "init" /\ i \in 1 .. n
          /\ Steps(e)[i].op = "drop" /\ r \in Resources
      BY <1>5, StepFacts DEF Drop, AtStep
    <2>2. TopDown(<<r>>, Acquired(e, i))
      BY <2>1 DEF Grounded, Chain
    <2>3. TopDown(<<r>>, held[e])
      BY <2>1, <2>2, TopDownHeld DEF Bracket
    <2>4. <<r>> \in Seq(Resources) /\ <<r>> # <<>> /\ Head(<<r>>) = r
      BY <2>1
    <2>5. \A o \in held[e] \ Family[r] : Needs[o] \cap Family[r] = {}
      BY <2>3, <2>4, TopDownFirst
    <2>6. held'[e] = held[e] \ Family[r] /\ phase'[e] = "init"
      BY <1>5, <2>1 DEF Drop, Release
    <2> QED
      BY <2>5, <2>6, UprightRelease DEF Upright
  <1>6. CASE ReleaseNext(e)
    <2> DEFINE rs == todo[e]
    <2>1. rs \in Seq(Resources) /\ rs # <<>> /\ TopDown(rs, held[e])
      BY <1>6 DEF ReleaseNext, Upright
    <2>2. todo'[e] = Tail(rs) /\ held'[e] = held[e] \ Family[Head(rs)]
      BY <1>6 DEF ReleaseNext, Release
    <2>3. \A o \in held[e] \ Family[Head(rs)] : Needs[o] \cap Family[Head(rs)] = {}
      BY <2>1, TopDownFirst
    <2>4. \A r \in held'[e] : Needs[r] \subseteq held'[e]
      BY <2>2, <2>3, UprightRelease DEF Upright
    <2>5. TopDown(Tail(rs), held'[e])
      BY <2>1, <2>2, TopDownTail
    <2>6. TopDown(todo'[e], held'[e])
      BY <2>2, <2>5
    <2> QED
      BY <2>4, <2>6, TopDownNext DEF Upright
  <1>7. CASE Return(e)
    <2>1. phase'[e] = "absent" /\ held'[e] = {}
      BY <1>7 DEF Return, Bracket
    <2> QED
      BY <2>1 DEF Upright
  <1> QED
    BY <1>1, <1>2, <1>3, <1>4, <1>5, <1>6, <1>7 DEF StepBy

\* If the checked drivers acquire only on top of what they hold for certain
\* and release from the top down, no resource ever outlives what it stands
\* on, wherever register fails.
THEOREM SupportHeldHolds == GroundedScripts => (Spec => []SupportHeld)
  <1> SUFFICES ASSUME GroundedScripts PROVE Spec => []SupportHeld
    OBVIOUS
  <1> DEFINE Inv == TypeInv /\ \A d \in Checked : Bracket(d) /\ Upright(d)
  <1>1. Init => Inv
    <2>1. Init => TypeInv
      BY ScriptTypes DEF Init, TypeInv, Typing, Phases
    <2> QED
      BY <2>1, CheckedAssumption DEF Init, Bracket, Upright
  <1>2. Inv /\ [Next]_vars => Inv'
    <2> SUFFICES ASSUME Inv, [Next]_vars PROVE Inv'
      OBVIOUS
    <2>1. TypeInv'
      BY TypeInvStep
    <2>2. CASE UNCHANGED vars
      BY <2>1, <2>2 DEF vars, Bracket, Upright, Sure, Acquired, TopDown, Gone, Steps
    <2>3. ASSUME NEW e \in Drivers, StepBy(e) PROVE Inv'
      <3>1. Elsewhere(e)
        BY <2>3, StepElsewhere
      <3>2. ASSUME NEW d \in Checked, d # e PROVE Bracket(d)' /\ Upright(d)'
        <4>1. d \in Drivers
          BY CheckedAssumption
        <4>2. phase'[d] = phase[d] /\ held'[d] = held[d] /\ todo'[d] = todo[d]
          BY <3>1, <3>2, <4>1 DEF Elsewhere
        <4>3. Upright(d)'
          BY <4>2 DEF Upright, TopDown, Gone
        <4> QED
          BY <3>1, <3>2, <4>1, <4>3, OthersBracket
      <3>3. ASSUME e \in Checked PROVE Bracket(e)' /\ Upright(e)'
        <4>1. Grounded(e) /\ Honest(e)
          BY <3>3 DEF GroundedScripts, Grounded
        <4> QED
          BY <2>3, <3>3, <4>1, BracketStep, UprightStep
      <3> QED
        BY <2>1, <3>2, <3>3
    <2> QED
      BY <2>2, <2>3 DEF Next, StepBy
  <1>3. Inv => SupportHeld
    BY DEF Upright, SupportHeld
  <1> QED
    BY <1>1, <1>2, <1>3, PTL DEF Spec
=============================================================================
