--------------------------- MODULE VideoNode_proof ---------------------------
(***************************************************************************)
(* The node drives the queue as DummyVideo says, keeps the promises of     *)
(* CaptureQueue, and unloading finds it quiet.                             *)
(***************************************************************************)
EXTENDS VideoNode, DummyVideoOrder_proof

\* The inductive invariant: that of the queue, an owner for whatever is in
\* use, a close() that has no sleeper beside it, and no file behind rmmod.
ClosingInv == closing => stopPc # "idle" /\ ~dqWaiting

NodeInv ==
    /\ Inv
    /\ NodeTypeOK
    /\ OwnerAnswers
    /\ ClosingInv
    /\ module # "live" => files = {}

LEMMA InvStep == Inv /\ [Next]_vars => Inv'
  BY TypeStep, OwnershipStep, ControlStep DEF Inv

\* What OwnerAnswers and the queue's invariant give when nobody is there.
LEMMA QuietQueue ==
    ASSUME NodeInv, owner \notin files
    PROVE  /\ Allocated = {} /\ ~streaming /\ stopPc = "idle"
           /\ ~timerArmed /\ timerPc = "idle" /\ queued_bufs = <<>>
  BY DEF NodeInv, OwnerAnswers, Inv, Control

LEMMA NoOwner ==
    ASSUME NodeInv, module # "live"
    PROVE  files = {} /\ owner = NoFile /\ ~dqWaiting
  BY DEF NodeInv, NodeTypeOK, OwnerAnswers

\* Whoever uses a queue that is in use owns it, the sleeper included.
LEMMA UserOwns ==
    ASSUME NodeInv, NEW f \in Files, MayUse(f), Allocated # {} \/ streaming
    PROVE  owner = f /\ (dqWaiting => sleeper = f)
  BY FileAssumption DEF NodeInv, NodeTypeOK, OwnerAnswers, MayUse

-----------------------------------------------------------------------------
(* Every step of the node is a step of the queue, or leaves it alone.      *)

LEMMA NodeStepIsStep == NodeInv /\ [NodeNext]_allVars => [Next]_vars
  <1> SUFFICES ASSUME NodeInv, [NodeNext]_allVars PROVE [Next]_vars
    OBVIOUS
  <1>1. ASSUME NEW f \in Files, Open(f) \/ Close(f) \/ CloseBegin(f)
        PROVE  [Next]_vars
    BY <1>1 DEF Open, Close, CloseOwner, CloseOther, CloseBegin, Next, AppNext
  <1>2. ASSUME NEW f \in Files, Allocate(f) PROVE Next
    BY <1>2 DEF Allocate, Next, AppNext
  <1>3. ASSUME NEW f \in Files, Ioctl(f) \/ FallAsleep(f) PROVE Next
    BY <1>3 DEF Ioctl, FallAsleep, Next, AppNext
  <1>4. CASE Stop
    BY <1>4 DEF Stop, Next, StopNext
  <1>5. CASE Callback
    BY <1>5 DEF Callback, Next
  <1>6. CASE Rmmod \/ UnregisterLock \/ Unregistered
    BY <1>6 DEF Rmmod, UnregisterLock, Unregistered
  <1>7. CASE UnregisterTimer
    <2>1. module # "live"
      BY <1>7 DEF UnregisterTimer
    <2>2. ~timerArmed /\ timerArmed \in BOOLEAN
      BY <2>1, NoOwner, QuietQueue DEF NodeInv, Inv, TypeOK, ControlTypes
    <2>3. timerArmed' = timerArmed
      BY <1>7, <2>2, Zenon DEF UnregisterTimer
    <2> QED
      BY <1>7, <2>3 DEF UnregisterTimer, vars, timerVars
  <1>8. CASE UNCHANGED allVars
    BY <1>8 DEF allVars
  <1>9. CASE WakeUp
    BY <1>9 DEF WakeUp, Next, AppNext
  <1> QED
    BY <1>1, <1>2, <1>3, <1>4, <1>5, <1>6, <1>7, <1>8, <1>9
    DEF NodeNext, Unregister

-----------------------------------------------------------------------------
(* The invariant of the node                                               *)

LEMMA NodeInvInit == NodeInit => NodeInv
  <1> SUFFICES ASSUME NodeInit PROVE NodeInv
    OBVIOUS
  <1>1. Inv
    BY InvInit DEF NodeInit
  <1>2. ~streaming /\ ~dqWaiting /\ ~closing
    BY Zenon DEF NodeInit, Init
  <1>3. Allocated = {}
    BY DEF NodeInit, Init, Allocated
  <1> QED
    BY <1>1, <1>2, <1>3
    DEF NodeInit, NodeInv, NodeTypeOK, ModulePcs, OwnerAnswers, ClosingInv

\* The parts of the invariant that the node adds to the queue's.
NodePart ==
    /\ NodeTypeOK
    /\ OwnerAnswers
    /\ ClosingInv
    /\ module # "live" => files = {}

\* Open files and other people's close() leave the owner's file open.
LEMMA OpenCloseStep ==
    ASSUME NodeInv, NEW f \in Files, Open(f) \/ (Close(f) /\ owner # f)
    PROVE  NodePart'
  <1>1. UNCHANGED <<vars, owner, module, sleeper>>
    BY DEF Open, Close, CloseOther
  <1>2. files' \in {files \cup {f}, files \ {f}}
    BY DEF Open, Close, CloseOther
  <1>3. f \in {owner, sleeper} => files' = files \cup {f}
    BY DEF Open, Close, CloseOther
  <1>4. module # "live" => files' = {}
    BY DEF Open, Close, CloseOther, NodeInv
  <1>5. NodeTypeOK'
    BY <1>1, <1>2, <1>3 DEF NodeInv, NodeTypeOK
  <1>6. OwnerAnswers'
    BY <1>1, <1>2, <1>3
    DEF NodeInv, OwnerAnswers, Allocated, vars, bufVars, vb2Vars
  <1>7. ClosingInv'
    BY <1>1 DEF NodeInv, ClosingInv, vars, stopVars, vb2Vars
  <1> QED
    BY <1>1, <1>4, <1>5, <1>6, <1>7 DEF NodePart

\* When close() or its stop has freed the buffers, no owner is needed.
LEMMA FreedStep ==
    ASSUME NodeInv, CancelQueue(TRUE), ~dqWaiting', ~closing',
           files' = files \ {owner}, owner' = NoFile,
           UNCHANGED <<module, sleeper>>
    PROVE  NodePart'
  <1>1. Allocated' = {}
    BY DEF CancelQueue, Allocated
  <1>2. ~streaming'
    BY Zenon DEF CancelQueue
  <1> QED
    BY <1>1, <1>2
    DEF NodePart, NodeInv, NodeTypeOK, OwnerAnswers, ClosingInv

LEMMA CloseOwnerStep ==
    ASSUME NodeInv, NEW f \in Files, Close(f), owner = f
    PROVE  NodePart'
  <1>1. CancelIdle(TRUE) /\ files' = files \ {owner} /\ owner' = NoFile
        /\ UNCHANGED <<module, sleeper>>
    BY DEF Close, CloseOwner
  <1>2. /\ QueueLockFree /\ ~dqWaiting /\ CancelQueue(TRUE)
        /\ UNCHANGED <<dqWaiting, stopVars>>
    BY <1>1 DEF CancelIdle
  <1>3. ~closing
    BY <1>2 DEF NodeInv, ClosingInv, QueueLockFree
  <1> QED
    BY <1>1, <1>2, <1>3, FreedStep DEF stopVars

\* Steps with the same files and owner: whatever is in use afterwards was in
\* use before, or there is a session.
LEMMA SameOwnerStep ==
    ASSUME NodeInv, UNCHANGED nodeVars, ClosingInv', dqWaiting' => dqWaiting,
           Allocated' # {} \/ streaming' => Allocated # {} \/ streaming
    PROVE  NodePart'
  BY DEF nodeVars, NodePart, NodeInv, NodeTypeOK, OwnerAnswers

LEMMA CloseBeginStep ==
    ASSUME NodeInv, NEW f \in Files, CloseBegin(f)
    PROVE  NodePart'
  <1>1. StopBegin(TRUE) /\ UNCHANGED nodeVars
    BY DEF CloseBegin
  <1>2. UNCHANGED <<bufVars, vb2Vars>> /\ streaming /\ ClosingInv'
    BY <1>1 DEF StopBegin, ClosingInv, vb2Vars
  <1> QED
    BY <1>1, <1>2, SameOwnerStep DEF vb2Vars

LEMMA CallbackStep ==
    ASSUME NodeInv, Callback
    PROVE  NodePart'
  <1>1. streaming
    BY DEF Callback, TimerNext, TimerPop, TimerFill, TimerStamp,
           TimerComplete, TimerResched, NodeInv, Inv, Control
  <1>2. UNCHANGED <<stopVars, dqWaiting, nodeVars>>
    BY DEF Callback, TimerNext, TimerPop, TimerFill, TimerStamp,
           TimerComplete, TimerResched, vb2Vars
  <1>3. ClosingInv'
    BY <1>2 DEF NodeInv, ClosingInv, stopVars
  <1> QED
    BY <1>1, <1>2, <1>3, SameOwnerStep

LEMMA StopStep ==
    ASSUME NodeInv, Stop
    PROVE  NodePart'
  <1>1. stopPc # "idle"
    BY DEF Stop, StopTimer, StopDrain, StopDrained, StopFinish
  <1>2. streaming
    BY <1>1 DEF NodeInv, Inv, Control
  <1>3. ASSUME StopTimer \/ StopDrain \/ StopDrained, UNCHANGED nodeVars
        PROVE  NodePart'
    <2>1. UNCHANGED <<closing, dqWaiting>> /\ stopPc' # "idle"
      BY <1>3 DEF StopTimer, StopDrain, StopDrained, vb2Vars, stopVars
    <2>2. ClosingInv'
      BY <2>1 DEF NodeInv, ClosingInv
    <2> QED
      BY <1>2, <1>3, <2>1, <2>2, SameOwnerStep
  <1>4. ASSUME StopFinish, closing, files' = files \ {owner}, owner' = NoFile,
               UNCHANGED <<module, sleeper>>
        PROVE  NodePart'
    <2>1. CancelQueue(closing) /\ UNCHANGED dqWaiting
      BY <1>4 DEF StopFinish
    <2>2. CancelQueue(TRUE)
      BY <1>4, <2>1 DEF CancelQueue
    <2>3. ~closing'
      BY <1>4, Zenon DEF StopFinish
    <2>4. ~dqWaiting'
      BY <1>4, <2>1 DEF NodeInv, ClosingInv
    <2> QED
      BY <1>4, <2>2, <2>3, <2>4, FreedStep
  <1>5. ASSUME StopFinish, UNCHANGED nodeVars PROVE NodePart'
    <2>1. ~closing'
      BY <1>5, Zenon DEF StopFinish
    <2>2. UNCHANGED dqWaiting
      BY <1>5 DEF StopFinish
    <2> QED
      BY <1>2, <1>5, <2>1, <2>2, SameOwnerStep DEF ClosingInv
  <1> QED
    BY <1>3, <1>4, <1>5 DEF Stop, nodeVars

LEMMA AllocateStep ==
    ASSUME NodeInv, NEW f \in Files, Allocate(f)
    PROVE  NodePart'
  <1>1. f \in files /\ MayUse(f) /\ UNCHANGED <<module, files, sleeper>>
    BY DEF Allocate, MayUse
  <1>2. ASSUME NEW new \in SUBSET Buffers, Reqbufs(new),
               owner' = IF new = {} THEN NoFile ELSE f
        PROVE  NodePart'
    <2>1. /\ ~streaming /\ (dqWaiting => new = {})
          /\ UNCHANGED <<streaming, dqWaiting, stopVars>>
      BY <1>2 DEF Reqbufs
    <2>2. new = {} => Allocated' = {}
      BY <1>2 DEF Reqbufs, Allocated
    <2> QED
      BY <1>1, <1>2, <2>1, <2>2
      DEF NodeInv, NodePart, NodeTypeOK, OwnerAnswers, ClosingInv, stopVars
  <1>3. ASSUME NEW new \in SUBSET Buffers, NEW size \in Sizes,
               CreateBufs(new, size), owner' = f
        PROVE  NodePart'
    <2>1. UNCHANGED <<vb2Vars, stopVars>> /\ (dqWaiting => Allocated # {})
      BY <1>3 DEF CreateBufs
    <2>2. dqWaiting => sleeper = f
      BY <1>1, <2>1, UserOwns
    <2> QED
      BY <1>1, <1>3, <2>1, <2>2
      DEF NodeInv, NodePart, NodeTypeOK, OwnerAnswers, ClosingInv, vb2Vars,
          stopVars
  <1> QED
    BY <1>2, <1>3 DEF Allocate

LEMMA IoctlStep ==
    ASSUME NodeInv, NEW f \in Files, Ioctl(f)
    PROVE  NodePart'
  <1>1. UNCHANGED nodeVars /\ QueueLockFree
    BY DEF Ioctl, PrepareBuf, Qbuf, StreamOn, Dqbuf, CancelIdle, StopBegin
  <1>2. ~closing
    BY <1>1 DEF NodeInv, ClosingInv, QueueLockFree
  <1>3. ~closing'
    <2>1. ASSUME StopBegin(FALSE) PROVE ~closing'
      BY <2>1, Zenon DEF StopBegin
    <2> QED
      BY <1>2, <2>1
      DEF Ioctl, PrepareBuf, Qbuf, StreamOn, Dqbuf, TakeDone, CancelIdle,
          stopVars
  <1>4. UNCHANGED dqWaiting
    BY DEF Ioctl, PrepareBuf, Qbuf, StreamOn, Dqbuf, CancelIdle, StopBegin,
           vb2Vars
  <1>5. ASSUME NEW b \in Buffers, PrepareBuf(b) \/ Qbuf(b)
        PROVE  Allocated # {}
    BY <1>5 DEF PrepareBuf, Qbuf, Allocated
  <1>6. CASE StreamOn
    BY <1>1, <1>3, <1>6, <1>4, SameOwnerStep DEF StreamOn, ClosingInv
  <1>7. CASE Dqbuf \/ StopBegin(FALSE)
    <2>1. streaming
      BY <1>7 DEF Dqbuf, StopBegin
    <2> QED
      BY <1>1, <1>3, <1>4, <2>1, SameOwnerStep DEF ClosingInv
  <1>8. CASE CancelIdle(FALSE)
    <2>1. Allocated' = Allocated
      BY <1>8 DEF CancelIdle, CancelQueue, Allocated
    <2>2. ~streaming'
      BY <1>8, Zenon DEF CancelIdle, CancelQueue
    <2> QED
      BY <1>1, <1>3, <1>4, <2>1, <2>2, SameOwnerStep DEF ClosingInv
  <1>9. ASSUME NEW b \in Buffers, PrepareBuf(b) \/ Qbuf(b) PROVE NodePart'
    BY <1>1, <1>3, <1>5, <1>9, <1>4, SameOwnerStep DEF ClosingInv
  <1> QED
    BY <1>6, <1>7, <1>8, <1>9 DEF Ioctl

\* Only the owner falls asleep, and a sleeper that leaves takes nothing away
\* from anybody.
LEMMA SleepStep ==
    ASSUME NodeInv, NEW f \in Files, FallAsleep(f)
    PROVE  NodePart'
  <1>1. /\ MayUse(f) /\ QueueLockFree /\ streaming /\ sleeper' = f
        /\ UNCHANGED <<module, files, owner, bufVars, streaming, stopVars>>
    BY DEF FallAsleep, DqbufWait
  <1>2. owner = f /\ f \in files
    BY <1>1, UserOwns DEF MayUse
  <1>3. ~closing'
    BY <1>1 DEF NodeInv, ClosingInv, QueueLockFree, stopVars
  <1> QED
    BY <1>1, <1>2, <1>3
    DEF NodeInv, NodePart, NodeTypeOK, OwnerAnswers, ClosingInv

LEMMA WakeStep ==
    ASSUME NodeInv, WakeUp
    PROVE  NodePart'
  <1>1. /\ QueueLockFree /\ sleeper' = NoFile
        /\ UNCHANGED <<module, files, owner, streaming, stopVars>>
    BY DEF WakeUp, DqbufWake, TakeDone, DqbufGiveUp
  <1>2. ~dqWaiting'
    BY Zenon DEF WakeUp, DqbufWake, DqbufGiveUp
  <1>3. Allocated' # {} \/ streaming' => Allocated # {} \/ streaming
    BY <1>1 DEF WakeUp, DqbufWake, DqbufGiveUp, bufVars, Allocated
  <1>4. ~closing'
    BY <1>1 DEF NodeInv, ClosingInv, QueueLockFree, stopVars
  <1> QED
    BY <1>1, <1>2, <1>3, <1>4
    DEF NodeInv, NodePart, NodeTypeOK, OwnerAnswers, ClosingInv

\* The exit function finds the queue idle and leaves it so.
LEMMA UnloadStep ==
    ASSUME NodeInv, Rmmod \/ Unregister
    PROVE  NodePart'
  <1>1. UNCHANGED <<files, owner, sleeper>> /\ files = {} /\ module' \in ModulePcs
    BY DEF Rmmod, ModuleUnused, Unregister, UnregisterTimer, UnregisterLock,
           Unregistered, NodeInv, ModulePcs
  <1>2. UNCHANGED <<bufVars, vb2Vars, stopVars>>
    BY DEF Rmmod, Unregister, UnregisterTimer, UnregisterLock, Unregistered,
           vars
  <1> QED
    BY <1>1, <1>2
    DEF NodeInv, NodePart, NodeTypeOK, OwnerAnswers, ClosingInv, Allocated,
        bufVars, vb2Vars, stopVars

LEMMA NodeInvStep == NodeInv /\ [NodeNext]_allVars => NodeInv'
  <1> SUFFICES ASSUME NodeInv, [NodeNext]_allVars PROVE NodeInv'
    OBVIOUS
  <1>1. Inv'
    BY NodeStepIsStep, InvStep DEF NodeInv
  <1>2. NodePart'
    <2>1. CASE UNCHANGED allVars
      BY <2>1
      DEF allVars, nodeVars, vars, bufVars, vb2Vars, stopVars, NodeInv,
          NodePart, NodeTypeOK, OwnerAnswers, ClosingInv, Allocated
    <2>2. ASSUME NEW f \in Files, Open(f) \/ Close(f) \/ CloseBegin(f)
          PROVE  NodePart'
      BY <2>2, OpenCloseStep, CloseOwnerStep, CloseBeginStep
    <2>3. ASSUME NEW f \in Files, Allocate(f) \/ Ioctl(f) \/ FallAsleep(f)
          PROVE  NodePart'
      BY <2>3, AllocateStep, IoctlStep, SleepStep
    <2> QED
      BY <2>1, <2>2, <2>3, StopStep, CallbackStep, WakeStep, UnloadStep
      DEF NodeNext
  <1> QED
    BY <1>1, <1>2 DEF NodeInv, NodePart

LEMMA NodeInvariance == NodeSpec => []NodeInv
  BY NodeInvInit, NodeInvStep, PTL DEF NodeSpec

\* Files that come, go and compete for the queue, and rmmod at any moment,
\* do to the driver nothing that one application could not do: whatever is
\* proved of Spec holds of the node.  In particular timer_delete_sync() in
\* dummy_video_drv_unregister() never finds an armed timer.
THEOREM NodeImplementsQueue == NodeSpec => Spec
  <1>1. NodeInit => Init
    BY DEF NodeInit
  <1> QED
    BY <1>1, NodeInvariance, NodeStepIsStep, PTL DEF NodeSpec, Spec

\* So the node keeps the promises of the abstract capture queue: whoever
\* opens, owns, closes or unloads, buffers are filled once each and in order.
THEOREM NodeKeepsPromises == NodeSpec => Capture!Safety
  BY NodeImplementsQueue, DriverImplementsQueue, PTL

\* q->owner never points to a file that has been closed.
THEOREM NodeTypeCorrect == NodeSpec => []NodeTypeOK
  <1>1. NodeInv => NodeTypeOK
    BY DEF NodeInv
  <1> QED
    BY <1>1, NodeInvariance, PTL

\* Whatever is in use has an owner whose close() is still to come, and nobody
\* gets a queue that another file's DQBUF is still asleep on.
THEOREM OwnerAnswersHolds == NodeSpec => []OwnerAnswers
  <1>1. NodeInv => OwnerAnswers
    BY DEF NodeInv
  <1> QED
    BY <1>1, NodeInvariance, PTL

\* The exit function starts on a quiet queue and nothing disturbs it.
THEOREM UnloadIsQuietHolds == NodeSpec => []UnloadIsQuiet
  <1>1. NodeInv => UnloadIsQuiet
    <2> SUFFICES ASSUME NodeInv, module # "live" PROVE UnloadIsQuiet
      BY DEF UnloadIsQuiet
    <2>1. files = {} /\ owner = NoFile /\ ~dqWaiting
      BY NoOwner
    <2> QED
      BY <2>1, QuietQueue DEF UnloadIsQuiet, QueueLockFree
  <1> QED
    BY <1>1, NodeInvariance, PTL
=============================================================================
