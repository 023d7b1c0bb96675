---------------------------- MODULE DrmPipe_proof ----------------------------
(***************************************************************************)
(* Safety of DrmPipe.                                                      *)
(***************************************************************************)
EXTENDS DrmPipe, TLAPS

\* What a commit in progress has done to the pipe.
CommitInv ==
    /\ commitPc = "idle" <=> by = "none"
    /\ commitPc = "idle" => (enabled <=> active) /\ ~mapped
    /\ commitPc = "disable" => (enabled <=> was)
    /\ commitPc \in {"update", "draw", "enable"} => (enabled <=> was /\ active)

\* What each call of dummy_drm_unregister() leaves behind for the next one.
ExitInv ==
    /\ exitPc >= 1 => ~opened
    /\ exitPc >= 2 => ~client /\ by # "client" /\ unplugged
    /\ exitPc >= 2 => commitPc # "draw"
    /\ waits => exitPc \in {1, 2}
    /\ exitPc = 0 => ~unplugged
    /\ exitPc = 1 /\ waits => unplugged
    /\ exitPc = 2 /\ waits
          => by \in {"none", "shutdown"} /\ ~active
    /\ exitPc >= 3 => commitPc = "idle" /\ ~active
    /\ freed <=> exitPc = 4

PipeInv == TypeOK /\ CommitInv /\ ExitInv

\* The three calls, by number.
LEMMA Calls ==
    /\ Len(dummy_drm_unregister) = 3
    /\ exitPc \in 0 .. 4 =>
          /\ At("unplug") <=> exitPc = 1
          /\ At("shutdown") <=> exitPc = 2
          /\ At("destroy") <=> exitPc = 3
  BY DEF At, dummy_drm_unregister

LEMMA PipeInit == Init => PipeInv
  <1> SUFFICES ASSUME Init PROVE PipeInv
    OBVIOUS
  <1>1. /\ opened \in BOOLEAN /\ client \in BOOLEAN /\ active \in BOOLEAN
        /\ fb \in BOOLEAN /\ was \in BOOLEAN /\ enabled \in BOOLEAN
        /\ mapped \in BOOLEAN /\ unplugged \in BOOLEAN /\ waits \in BOOLEAN
        /\ freed \in BOOLEAN
        /\ ~opened /\ ~active /\ ~enabled /\ ~mapped /\ ~unplugged /\ ~waits
        /\ ~freed
    BY Zenon DEF Init
  <1>2. commitPc = "idle" /\ by = "none" /\ readers = 0 /\ exitPc = 0
    BY DEF Init
  <1>3. QED
    BY <1>1, <1>2, Calls
    DEF PipeInv, TypeOK, CommitInv, ExitInv, CommitPcs, Committers

LEMMA PipeStep == PipeInv /\ [Next]_vars => PipeInv'
  <1> SUFFICES ASSUME PipeInv, [Next]_vars PROVE PipeInv'
    OBVIOUS
  <1> USE DEF PipeInv, TypeOK, CommitInv, ExitInv, CommitPcs, Committers
  <1>0. /\ Len(dummy_drm_unregister) = 3
        /\ At("unplug") <=> exitPc = 1
        /\ At("shutdown") <=> exitPc = 2
        /\ At("destroy") <=> exitPc = 3
    BY Calls
  <1>1. CASE OpenOrClose
    BY <1>0, <1>1 DEF OpenOrClose, pipeVars, exitVars
  <1>2. CASE Rmmod
    BY <1>0, <1>2 DEF Rmmod, pipeVars
  <1>3. ASSUME NEW who \in {"file", "client"}, NEW on \in BOOLEAN,
               NEW f \in BOOLEAN, Commit(who, on, f)
        PROVE  PipeInv'
    <2>1. /\ mapped' \in BOOLEAN /\ was' \in BOOLEAN /\ active' \in BOOLEAN
          /\ fb' \in BOOLEAN /\ (was' <=> active)
      BY <1>3, Zenon DEF Commit, Swap
    <2>2. /\ commitPc = "idle" /\ commitPc' = "disable" /\ by' = who
          /\ (who = "file" /\ opened) \/ (who = "client" /\ client)
          /\ UNCHANGED <<opened, client, enabled, readers, exitVars>>
      BY <1>3 DEF Commit, Swap
    <2>3. QED
      BY <1>0, <2>1, <2>2 DEF exitVars
  <1>4. CASE dummy_drm_pipe_disable
    <2>1. enabled' \in BOOLEAN /\ (enabled' <=> enabled /\ (active \/ ~was))
      BY <1>4, Zenon DEF dummy_drm_pipe_disable
    <2>2. /\ commitPc = "disable" /\ commitPc' = "update"
          /\ UNCHANGED <<opened, client, by, active, fb, was, mapped, readers,
                         exitVars>>
      BY <1>4 DEF dummy_drm_pipe_disable
    <2>3. QED
      BY <1>0, <2>1, <2>2 DEF exitVars
  <1>5. CASE dummy_drm_pipe_update
    BY <1>0, <1>5 DEF dummy_drm_pipe_update, EarlyReturn, exitVars
  <1>6. CASE PipeDraws
    BY <1>0, <1>6 DEF PipeDraws, drm_dev_exit, exitVars
  <1>7. CASE dummy_drm_pipe_enable
    BY <1>0, <1>7 DEF dummy_drm_pipe_enable, dummy_drm_pipe_end_fb_access,
                      exitVars
  <1>8. CASE Unplug
    BY <1>0, <1>8 DEF Unplug, pipeVars
  <1>9. CASE Unplugged
    <2>1. client' \in BOOLEAN /\ ~client' /\ waits' \in BOOLEAN /\ ~waits'
      BY <1>9, Zenon DEF Unplugged
    <2>2. /\ exitPc = 1 /\ waits /\ readers = 0 /\ by # "client"
          /\ exitPc' = 2
          /\ UNCHANGED <<opened, commitPc, by, pipeVars, unplugged, freed>>
      BY <1>0, <1>9 DEF Unplugged
    <2>3. QED
      BY <1>0, <2>1, <2>2 DEF pipeVars
  <1>10. CASE Shutdown
    <2>1. /\ waits' \in BOOLEAN /\ was' \in BOOLEAN /\ active' \in BOOLEAN
          /\ fb' \in BOOLEAN /\ (was' <=> active) /\ waits' /\ ~active'
      BY <1>10, Zenon DEF Shutdown, Swap
    <2>2. /\ exitPc = 2 /\ ~waits /\ commitPc = "idle"
          /\ commitPc' = "disable" /\ by' = "shutdown"
          /\ UNCHANGED <<opened, client, enabled, mapped, readers, unplugged,
                         exitPc, freed>>
      BY <1>0, <1>10 DEF Shutdown, Swap
    <2>3. QED
      BY <1>0, <2>1, <2>2
  <1>11. CASE ShutDown
    <2>1. waits' \in BOOLEAN /\ ~waits'
      BY <1>11, Zenon DEF ShutDown
    <2>2. /\ exitPc = 2 /\ waits /\ commitPc = "idle" /\ exitPc' = 3
          /\ UNCHANGED <<opened, client, commitPc, by, pipeVars, unplugged, freed>>
      BY <1>0, <1>11 DEF ShutDown
    <2>3. QED
      BY <1>0, <2>1, <2>2 DEF pipeVars
  <1>12. CASE Destroy
    BY <1>0, <1>12 DEF Destroy, pipeVars
  <1>13. CASE UNCHANGED vars
    BY <1>0, <1>13 DEF vars, pipeVars, exitVars
  <1>14. QED
    BY <1>1, <1>2, <1>3, <1>4, <1>5, <1>6, <1>7, <1>8, <1>9, <1>10, <1>11,
       <1>12, <1>13 DEF Next, CommitStep, ExitStep

LEMMA PipeInvariance == Spec => []PipeInv
  BY PipeInit, PipeStep, PTL DEF Spec

\* Types, and the balance of drm_dev_enter() and drm_dev_exit().
THEOREM PipeTypeCorrect == Spec => []TypeOK
  <1>1. PipeInv => TypeOK
    BY DEF PipeInv
  <1>2. QED
    BY <1>1, PipeInvariance, PTL

\* dummy_drm_unregister() destroys the parent device, and with it the pipe,
\* only when nothing can touch the pipe any more.
THEOREM DestroyedLastHolds == Spec => []DestroyedLast
  <1>1. PipeInv => DestroyedLast
    BY DEF PipeInv, TypeOK, CommitInv, ExitInv, DestroyedLast
  <1>2. QED
    BY <1>1, PipeInvariance, PTL

\* After drm_dev_unplug() no update gets past drm_dev_enter(), and none that
\* got past it earlier is still drawing.
THEOREM UnplugIsFinalHolds == Spec => []UnplugIsFinal
  <1>1. PipeInv => UnplugIsFinal
    BY Calls DEF PipeInv, TypeOK, ExitInv, UnplugIsFinal
  <1>2. QED
    BY <1>1, PipeInvariance, PTL
=============================================================================
