-------------------------- MODULE DriverLifecycle --------------------------
(***************************************************************************)
(* Loading and unloading the dummy drivers.  Every driver of the repository *)
(* has the same shape: a register function acquires resources one after    *)
(* the other, each acquisition may fail, and a failure jumps to a chain of *)
(* goto labels that release what was acquired; an unregister function      *)
(* releases everything in a fixed order.  What differs is the script: the  *)
(* order, which results are looked at, where a failure jumps to and what   *)
(* the function returns.  The scripts are the subject of DriverScripts.    *)
(*                                                                         *)
(* Drivers are modules of their own, so their init and exit functions may  *)
(* be in progress at the same time; they meet in the names of the device   *)
(* classes they create.                                                    *)
(***************************************************************************)
EXTENDS Integers, Sequences, FiniteSets

CONSTANTS
    Drivers,     \* the modules that may be loaded
    Resources,   \* what a driver can hold
    Script,      \* Script[d].steps: what d's register function does, in order
                 \* Script[d].exit: what its unregister function releases
    Family,      \* Family[r]: r and what the kernel releases along with r
    Tolerant,    \* resources whose release function ignores a stray call
    Optional,    \* resources a driver is content to do without
    Needs,       \* Needs[r]: what has to exist as long as r does
    ClassName,   \* ClassName[d]: the name d gives its device class
    MaxActive,   \* bound on the drivers that are not "absent" at a time
    Checked      \* the drivers the invariants are about

\* A step of a register function: acquire res and, when that fails and the
\* result is looked at, release undo and return; or drop res again.
StepType == [op : {"acquire", "drop"}, res : Resources, checked : BOOLEAN,
             undo : Seq(Resources), returns : {"absent", "loaded"}]

ASSUME FamilyAssumption == \A r \in Resources : r \in Family[r]
ASSUME CheckedAssumption == Checked \subseteq Drivers
ASSUME ScriptAssumption ==
    \A d \in Drivers :
        /\ Script[d].steps \in Seq(StepType)
        /\ Script[d].exit \in Seq(Resources)

VARIABLES
    phase,       \* "absent", "init", "release" or "loaded"
    pc,          \* next step of the register function
    held,        \* resources the driver has acquired and not released
    todo,        \* resources still to be released by the goto chain or by exit
    ends,        \* the phase that follows when todo is empty
    leaked,      \* resources of past lives that nobody will ever release
    stray        \* resources that were released without being held, or that
                 \* the kernel will release a second time

vars == <<phase, pc, held, todo, ends, leaked, stray>>

Phases == {"absent", "init", "release", "loaded"}

Steps(d) == Script[d].steps

\* Something is released along with what it belongs to.
Owned(d, r) == \E o \in held[d] \ {r} : r \in Family[o]

\* class_create() refuses a name that is registered in sysfs already, by
\* another driver or by an earlier life of this one.
NameTaken(d, r) ==
    /\ r = "class"
    /\ \E e \in Drivers :
          /\ ClassName[e] = ClassName[d]
          /\ r \in leaked[e] \/ r \in held[e]

-----------------------------------------------------------------------------
\* insmod
Load(d) ==
    /\ phase[d] = "absent"
    /\ Cardinality({e \in Drivers : phase[e] # "absent"}) < MaxActive
    /\ phase' = [phase EXCEPT ![d] = "init"]
    /\ pc' = [pc EXCEPT ![d] = 1]
    /\ UNCHANGED <<held, todo, ends, leaked, stray>>

AtStep(d) == phase[d] = "init" /\ pc[d] \in DOMAIN Steps(d)

\* Faulty variant: a step is skipped.
StepAfter_Second(i) == i + 2

StepAfter(i) == i + 1

Acquire(d) ==
    LET s == Steps(d)[pc[d]]
    IN  /\ AtStep(d)
        /\ s.op = "acquire"
        /\ ~NameTaken(d, s.res)
        /\ held' = [held EXCEPT ![d] = @ \cup {s.res}]
        /\ pc' = [pc EXCEPT ![d] = StepAfter(@)]
        /\ UNCHANGED <<phase, todo, ends, leaked, stray>>

\* Faulty variants: goto one label too far, goto the label of what failed, and
\* "return 0" after the labels.
Label_Next(s) == SubSeq(s.undo, 2, Len(s.undo))
Label_Own(s) == <<s.res>> \o s.undo
Result_Zero(s) == "loaded"

Label(s)  == s.undo       \* where the goto leads
Result(s) == s.returns    \* what is returned in the end

\* The acquisition fails and the register function jumps to its cleanup.
FailChecked(d) ==
    LET s == Steps(d)[pc[d]]
    IN  /\ AtStep(d)
        /\ s.op = "acquire" /\ s.checked
        /\ phase' = [phase EXCEPT ![d] = "release"]
        /\ todo' = [todo EXCEPT ![d] = Label(s)]
        /\ ends' = [ends EXCEPT ![d] = Result(s)]
        /\ UNCHANGED <<pc, held, leaked, stray>>

\* The acquisition fails and nobody looks at the result.
FailIgnored(d) ==
    LET s == Steps(d)[pc[d]]
    IN  /\ AtStep(d)
        /\ s.op = "acquire" /\ ~s.checked
        /\ pc' = [pc EXCEPT ![d] = @ + 1]
        /\ UNCHANGED <<phase, held, todo, ends, leaked, stray>>

\* A call that releases r: wrong when r is not held, or when it is going to
\* be released again along with its owner.
Release(d, r) ==
    /\ held' = [held EXCEPT ![d] = @ \ Family[r]]
    /\ stray' = [stray EXCEPT ![d] =
                   IF (r \notin held[d] \/ Owned(d, r)) /\ r \notin Tolerant
                   THEN @ \cup {r} ELSE @]

\* The register function is done with something it used only on the way.
Drop(d) ==
    /\ AtStep(d)
    /\ Steps(d)[pc[d]].op = "drop"
    /\ Release(d, Steps(d)[pc[d]].res)
    /\ pc' = [pc EXCEPT ![d] = @ + 1]
    /\ UNCHANGED <<phase, todo, ends, leaked>>

Loaded(d) ==
    /\ phase[d] = "init"
    /\ pc[d] \notin DOMAIN Steps(d)
    /\ phase' = [phase EXCEPT ![d] = "loaded"]
    /\ UNCHANGED <<pc, held, todo, ends, leaked, stray>>

\* Faulty variants: unregister forgets the last thing that was acquired, or
\* releases in the order of acquisition.
Exit_ForgetsOne(d) == Tail(Script[d].exit)
Exit_Forwards(d) ==
    [i \in DOMAIN Script[d].exit |-> Script[d].exit[Len(Script[d].exit) + 1 - i]]

Exit(d) == Script[d].exit

\* rmmod
Unload(d) ==
    /\ phase[d] = "loaded"
    /\ phase' = [phase EXCEPT ![d] = "release"]
    /\ todo' = [todo EXCEPT ![d] = Exit(d)]
    /\ ends' = [ends EXCEPT ![d] = "absent"]
    /\ UNCHANGED <<pc, held, leaked, stray>>

ReleaseNext(d) ==
    /\ phase[d] = "release"
    /\ todo[d] # <<>>
    /\ Release(d, Head(todo[d]))
    /\ todo' = [todo EXCEPT ![d] = Tail(@)]
    /\ UNCHANGED <<phase, pc, ends, leaked>>

\* The function returns.  An error (or the end of exit) makes the module go
\* away, and what it still holds stays behind; 0 makes it stay.
Return(d) ==
    /\ phase[d] = "release"
    /\ todo[d] = <<>>
    /\ phase' = [phase EXCEPT ![d] = ends[d]]
    /\ pc' = [pc EXCEPT ![d] = 1]
    /\ ends' = [ends EXCEPT ![d] = "absent"]
    /\ IF ends[d] = "absent"
       THEN /\ leaked' = [leaked EXCEPT ![d] = @ \cup held[d]]
            /\ held' = [held EXCEPT ![d] = {}]
       ELSE UNCHANGED <<leaked, held>>
    /\ UNCHANGED <<todo, stray>>

Init ==
    /\ phase = [d \in Drivers |-> "absent"]
    /\ pc = [d \in Drivers |-> 1]
    /\ held = [d \in Drivers |-> {}]
    /\ todo = [d \in Drivers |-> <<>>]
    /\ ends = [d \in Drivers |-> "absent"]
    /\ leaked = [d \in Drivers |-> {}]
    /\ stray = [d \in Drivers |-> {}]

Next ==
    \E d \in Drivers :
        \/ Load(d) \/ Acquire(d) \/ FailChecked(d) \/ FailIgnored(d)
        \/ Drop(d) \/ Loaded(d) \/ Unload(d) \/ ReleaseNext(d) \/ Return(d)

Spec == Init /\ [][Next]_vars
-----------------------------------------------------------------------------
(* Properties                                                              *)

\* Every variable keeps its type.
TypeOK ==
    /\ phase \in [Drivers -> Phases]
    /\ \A d \in Drivers :
          /\ pc[d] \in 1 .. Len(Steps(d)) + 1
          /\ held[d] \subseteq Resources /\ leaked[d] \subseteq Resources
          /\ stray[d] \subseteq Resources
          /\ todo[d] \in Seq(Resources)
          /\ ends[d] \in {"absent", "loaded"}

\* A module that is gone, because its register function failed wherever it
\* may fail or because it was unloaded, has left nothing behind.
NoLeak == \A d \in Checked : leaked[d] = {}

\* What may be held when the register function has come to step i.
Acquired(d, i) ==
    {Steps(d)[j].res : j \in {j \in 1 .. i - 1 :
        /\ Steps(d)[j].op = "acquire"
        /\ \A k \in j + 1 .. i - 1 :
              ~(Steps(d)[k].op = "drop" /\ Steps(d)[k].res = Steps(d)[j].res)}}

Covered(rs) == UNION {Family[rs[i]] : i \in DOMAIN rs}

\* The discipline of the goto chains: a failure returns an error after
\* releasing, directly or along with its owner, all that may be held, and so
\* does the unregister function.
Leakproof(d) ==
    /\ \A i \in DOMAIN Steps(d) :
          Steps(d)[i].op = "acquire" /\ Steps(d)[i].checked =>
             /\ Steps(d)[i].returns = "absent"
             /\ Acquired(d, i) \subseteq Covered(Steps(d)[i].undo)
    /\ Acquired(d, Len(Steps(d)) + 1) \subseteq Covered(Script[d].exit)

\* The discipline is all that NoLeak takes (DriverLifecycle_proof).
LeakproofScripts == \A d \in Checked : Leakproof(d)

\* No goto chain and no unregister function releases what the driver does
\* not hold, or what devres will release again.
NoStray == \A d \in Checked : stray[d] = {}

\* All a register function acquires to keep.
Essential(d) ==
    LET of(op) == {Steps(d)[i].res : i \in {j \in DOMAIN Steps(d) :
                                               Steps(d)[j].op = op}}
    IN  of("acquire") \ (of("drop") \cup Optional)

\* A module stays loaded only with everything it is there to provide: its
\* register function does not return 0 after a failure.
LoadedIsComplete ==
    \A d \in Checked : phase[d] = "loaded" => Essential(d) \subseteq held[d]

\* The discipline of the results: every acquisition that matters is looked
\* at, a failure that is looked at is returned, and what is dropped on the
\* way takes nothing along that is to be kept.
Thorough(d) ==
    \A i \in DOMAIN Steps(d) :
        IF Steps(d)[i].op = "acquire"
        THEN IF Steps(d)[i].checked THEN Steps(d)[i].returns = "absent"
             ELSE Steps(d)[i].res \notin Essential(d)
        ELSE Family[Steps(d)[i].res] \cap Essential(d) = {}

\* It is all that LoadedIsComplete takes (DriverLifecycle_proof).
ThoroughScripts == \A d \in Checked : Thorough(d)

\* At no point of a register, cleanup or unregister sequence does a resource
\* outlive what it stands on, as a device outliving its class would.
SupportHeld ==
    \A d \in Checked : \A r \in held[d] : Needs[r] \subseteq held[d]

-----------------------------------------------------------------------------
(* What NoStray and SupportHeld take: each list of releases is in order for *)
(* all that may be held when it is entered.                                 *)

\* What is held for certain when register has come to step i.
Sure(d, i) ==
    {Steps(d)[j].res : j \in {j \in 1 .. i - 1 :
        /\ Steps(d)[j].op = "acquire" /\ Steps(d)[j].checked
        /\ \A k \in j + 1 .. i - 1 :
              Steps(d)[k].op = "drop"
                 => Steps(d)[j].res \notin Family[Steps(d)[k].res]}}

\* The releases that step i may lead to; exit comes after the last step.
Chain(d, i) ==
    IF i \notin DOMAIN Steps(d) THEN Script[d].exit
    ELSE IF Steps(d)[i].op = "drop" THEN <<Steps(d)[i].res>>
    ELSE IF Steps(d)[i].checked THEN Steps(d)[i].undo
    ELSE <<>>

\* Gone after the first n releases of rs.
Gone(rs, n) == UNION {Family[rs[j]] : j \in 1 .. n}

\* Each release finds what it releases, unless it does not care, and nothing
\* is left then that would release it again.
Orderly(rs, sure, may) ==
    \A k \in DOMAIN rs :
        \/ rs[k] \in Tolerant
        \/ /\ rs[k] \in sure \ Gone(rs, k - 1)
           /\ \A o \in may \ (Gone(rs, k - 1) \cup {rs[k]}) : rs[k] \notin Family[o]

\* No release takes away what something that stays stands on.
TopDown(rs, may) ==
    \A k \in DOMAIN rs : \A o \in may \ Gone(rs, k) :
        Needs[o] \cap Family[rs[k]] = {}

\* A failure that is looked at is returned.
Honest(d) == \A i \in DOMAIN Steps(d) : Steps(d)[i].returns = "absent"

Tidy(d) ==
    /\ Honest(d)
    /\ \A i \in 1 .. Len(Steps(d)) + 1 :
          Orderly(Chain(d, i), Sure(d, i), Acquired(d, i))

Grounded(d) ==
    /\ Honest(d)
    /\ \A i \in DOMAIN Steps(d) :
          Steps(d)[i].op = "acquire" => Needs[Steps(d)[i].res] \subseteq Sure(d, i)
    /\ \A i \in 1 .. Len(Steps(d)) + 1 : TopDown(Chain(d, i), Acquired(d, i))

TidyScripts == \A d \in Checked : Tidy(d)
GroundedScripts == \A d \in Checked : Grounded(d)
=============================================================================
