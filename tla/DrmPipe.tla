------------------------------- MODULE DrmPipe -------------------------------
(***************************************************************************)
(* drm/drm_simple_display_pipe/drm.c once it is registered: atomic commits *)
(* go through the callbacks of the display pipe while the module may be    *)
(* unloaded.  Commits come from open files, whose last one may still be at *)
(* work when the file is closed, and from the fbdev client inside the      *)
(* kernel, which keeps no reference to the module.                         *)
(*                                                                         *)
(* The DRM core is not part of the repository.  It runs one commit at a    *)
(* time, in the order of drm_atomic_helper_commit_tail(), and lets         *)
(* sections between drm_dev_enter() and drm_dev_exit() end before          *)
(* drm_dev_unplug() goes on.                                               *)
(***************************************************************************)
EXTENDS Integers, Sequences

VARIABLES
    opened,      \* a file of the device is open; it keeps the module
    client,      \* the fbdev client is registered
    commitPc,    \* where the commit in progress is
    by,          \* who started it
    active, fb,  \* pipe->crtc.state->active, and whether plane.state->fb is set
    was,         \* active in the old state
    enabled,     \* between dummy_drm_pipe_enable() and _disable()
    mapped,      \* between begin_fb_access() and end_fb_access()
    readers,     \* sections between drm_dev_enter() and drm_dev_exit()
    unplugged,   \* drm->unplugged
    exitPc,      \* how far dummy_drm_unregister() has come, 0 before rmmod
    waits,       \* the call it is in waits for something
    freed        \* the memory of struct dummy_drm_dev is freed

pipeVars == <<active, fb, was, enabled, mapped, readers>>
exitVars == <<unplugged, exitPc, waits, freed>>
vars == <<opened, client, commitPc, by, pipeVars, exitVars>>

CommitPcs == {"idle", "disable", "update", "draw", "enable"}
Committers == {"none", "file", "client", "shutdown"}

\* Faulty variant: the order that the comment in the function warns of.
dummy_drm_unregister_DeviceFirst == <<"destroy", "unplug", "shutdown">>

\* drm_dev_unplug(), drm_atomic_helper_shutdown(), device_destroy()
dummy_drm_unregister == <<"unplug", "shutdown", "destroy">>

At(call) ==
    exitPc \in DOMAIN dummy_drm_unregister /\ dummy_drm_unregister[exitPc] = call

-----------------------------------------------------------------------------
(* A commit                                                                *)

Swap(who, on, f) ==
    /\ was' = active
    /\ active' = on
    /\ fb' = f
    /\ by' = who
    /\ commitPc' = "disable"

\* dummy_drm_pipe_begin_fb_access() of the new framebuffer, then the states
\* are swapped.  A display may be on, or off with or without a framebuffer,
\* but not on without one: drm_atomic_helper_check() refuses that.
Commit(who, on, f) ==
    /\ commitPc = "idle"
    /\ \/ who = "file" /\ opened
       \/ who = "client" /\ client
    /\ on => f
    /\ mapped' = f
    /\ Swap(who, on, f)
    /\ UNCHANGED <<opened, client, enabled, readers, exitVars>>

dummy_drm_pipe_disable ==
    /\ commitPc = "disable"
    /\ enabled' = IF was /\ ~active THEN FALSE ELSE enabled
    /\ commitPc' = "update"
    /\ UNCHANGED <<opened, client, by, active, fb, was, mapped, readers, exitVars>>

\* Faulty variant: drm_dev_enter() is left out.
EarlyReturn_NoEnter == ~active \/ ~fb

\* if (!active) return; if (WARN_ON(!fb)) return; if (!drm_dev_enter()) return
EarlyReturn == ~active \/ ~fb \/ unplugged

dummy_drm_pipe_update ==
    /\ commitPc = "update"
    /\ \/ EarlyReturn /\ commitPc' = "enable" /\ UNCHANGED readers
       \/ ~EarlyReturn /\ commitPc' = "draw" /\ readers' = readers + 1
    /\ UNCHANGED <<opened, client, by, active, fb, was, enabled, mapped, exitVars>>

\* Faulty variant: a return between drm_dev_enter() and drm_dev_exit().
drm_dev_exit_Missing == readers

drm_dev_exit == readers - 1

\* The damage is read, and the section ends.
PipeDraws ==
    /\ commitPc = "draw"
    /\ readers' = drm_dev_exit
    /\ commitPc' = "enable"
    /\ UNCHANGED <<opened, client, by, active, fb, was, enabled, mapped, exitVars>>

dummy_drm_pipe_end_fb_access == FALSE

\* dummy_drm_pipe_end_fb_access(), dummy_drm_pipe_enable(), and the commit is
\* done.
dummy_drm_pipe_enable ==
    /\ commitPc = "enable"
    /\ mapped' = dummy_drm_pipe_end_fb_access
    /\ enabled' = IF active /\ ~was THEN TRUE ELSE enabled
    /\ commitPc' = "idle"
    /\ by' = "none"
    /\ UNCHANGED <<opened, client, active, fb, was, readers, exitVars>>

CommitStep ==
    \/ dummy_drm_pipe_disable \/ dummy_drm_pipe_update \/ PipeDraws
    \/ dummy_drm_pipe_enable

-----------------------------------------------------------------------------
(* Files and the module                                                    *)

OpenOrClose ==
    /\ exitPc = 0
    /\ opened' = ~opened
    /\ UNCHANGED <<client, commitPc, by, pipeVars, exitVars>>

\* rmmod is refused while a file is open.
Rmmod ==
    /\ exitPc = 0
    /\ ~opened
    /\ exitPc' = 1
    /\ UNCHANGED <<opened, client, commitPc, by, pipeVars, unplugged, waits, freed>>

\* drm_dev_unplug(): the flag is set, ...
Unplug ==
    /\ At("unplug") /\ ~waits
    /\ unplugged' = TRUE
    /\ waits' = TRUE
    /\ UNCHANGED <<opened, client, commitPc, by, pipeVars, exitPc, freed>>

\* ... sections that did not see it come to an end, and drm_dev_unregister()
\* takes the client away when its work is done.
Unplugged ==
    /\ At("unplug") /\ waits
    /\ readers = 0
    /\ ~(by = "client")
    /\ client' = FALSE
    /\ waits' = FALSE
    /\ exitPc' = exitPc + 1
    /\ UNCHANGED <<opened, commitPc, by, pipeVars, unplugged, freed>>

\* drm_atomic_helper_shutdown(): a commit of its own, behind any other.
Shutdown ==
    /\ At("shutdown") /\ ~waits
    /\ commitPc = "idle"
    /\ Swap("shutdown", FALSE, FALSE)
    /\ waits' = TRUE
    /\ UNCHANGED <<opened, client, enabled, mapped, readers, unplugged, exitPc,
                   freed>>

ShutDown ==
    /\ At("shutdown") /\ waits
    /\ commitPc = "idle"
    /\ waits' = FALSE
    /\ exitPc' = exitPc + 1
    /\ UNCHANGED <<opened, client, commitPc, by, pipeVars, unplugged, freed>>

\* device_destroy() runs the devres of the device: the DRM device is put for
\* the last time and freed.
Destroy ==
    /\ At("destroy")
    /\ freed' = TRUE
    /\ exitPc' = exitPc + 1
    /\ UNCHANGED <<opened, client, commitPc, by, pipeVars, unplugged, waits>>

ExitStep == Unplug \/ Unplugged \/ Shutdown \/ ShutDown \/ Destroy

-----------------------------------------------------------------------------
\* dummy_drm_register() has returned 0 and drm_client_setup() has added the
\* client, which has not drawn anything yet.
Init ==
    /\ opened = FALSE /\ client = TRUE
    /\ commitPc = "idle" /\ by = "none"
    /\ active = FALSE /\ fb = FALSE /\ was = FALSE
    /\ enabled = FALSE /\ mapped = FALSE /\ readers = 0
    /\ unplugged = FALSE /\ exitPc = 0 /\ waits = FALSE /\ freed = FALSE

Next ==
    \/ OpenOrClose \/ Rmmod
    \/ \E who \in {"file", "client"}, on \in BOOLEAN, f \in BOOLEAN :
          Commit(who, on, f)
    \/ CommitStep
    \/ ExitStep

Spec == Init /\ [][Next]_vars

\* A commit in progress goes on, and so does the exit function.  The client
\* may commit again and again, but cancelling its work stops that: strong
\* fairness of Unplugged.
Fairness ==
    /\ WF_vars(CommitStep)
    /\ WF_vars(Unplug) /\ SF_vars(Unplugged)
    /\ WF_vars(Shutdown) /\ WF_vars(ShutDown) /\ WF_vars(Destroy)

FairSpec == Spec /\ Fairness
-----------------------------------------------------------------------------
(* Properties                                                              *)

\* Every variable keeps its type; one section at most is open, and only
\* while the pipe is being drawn.
TypeOK ==
    /\ commitPc \in CommitPcs /\ by \in Committers
    /\ opened \in BOOLEAN /\ client \in BOOLEAN
    /\ active \in BOOLEAN /\ fb \in BOOLEAN /\ was \in BOOLEAN
    /\ enabled \in BOOLEAN /\ mapped \in BOOLEAN
    /\ unplugged \in BOOLEAN /\ waits \in BOOLEAN /\ freed \in BOOLEAN
    /\ readers = IF commitPc = "draw" THEN 1 ELSE 0
    /\ exitPc \in 0 .. Len(dummy_drm_unregister) + 1

\* The comment in dummy_drm_unregister(): the parent device must be destroyed
\* last.  When the memory of the pipe goes, no commit is in the middle of it,
\* none can start, the pipe is off and no framebuffer is mapped.
DestroyedLast ==
    freed => /\ commitPc = "idle" /\ ~opened /\ ~client
             /\ ~enabled /\ ~mapped

\* Once drm_dev_unplug() has returned nothing is drawn any more, though a
\* commit may be under way that began before.
UnplugIsFinal ==
    unplugged /\ ~At("unplug") => commitPc # "draw"

\* The exit function returns: each call it waits in is let go.
UnregisterReturns == exitPc = 1 ~> freed /\ exitPc > Len(dummy_drm_unregister)
=============================================================================
