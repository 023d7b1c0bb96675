-------------------------- MODULE DummyVideo_proof --------------------------
(***************************************************************************)
(* Invariance proofs for DummyVideo.                                       *)
(***************************************************************************)
EXTENDS DummyVideo, TLAPS

\* A remainder by a positive number is below it.
LEMMA ModRange ==
    ASSUME NEW a \in Int, NEW n \in Nat \ {0}
    PROVE  a % n \in 0 .. n - 1
  OBVIOUS

\* The index into frames[] is within the array for every counter value,
\* negative ones (the upper half of the range) included.
THEOREM FrameIndexInRange ==
    ASSUME NEW s \in 0 .. SeqLimit - 1
    PROVE  FrameIndex(s) \in 0 .. FrameCount - 1
  <1>1. s \in Int /\ s + SizeLimit - SeqLimit \in Int
    BY WidthAssumption
  <1> QED
    BY <1>1, ModRange, WidthAssumption DEF FrameIndex

\* The sizes queue_setup() answers are natural numbers.
LEMMA QueueSetupType ==
    ASSUME NEW n \in Nat, NEW size \in Nat
    PROVE  queue_setup(n, size) \in Nat
  BY DEF queue_setup, DUMMY_VIDEO_PLANE_SIZE

\* The counter may be set to zero.
LEMMA ZeroInRange == 0 \in 0 .. SeqLimit - 1
  BY WidthAssumption

\* The callback works on a buffer.
LEMMA HeldIsBuffer ==
    ASSUME TypeOK, TimerHolds
    PROVE  timerBuf \in Buffers
  BY DEF TypeOK, ControlTypes

LEMMA TypeInit == Init => TypeOK
  <1> SUFFICES ASSUME Init PROVE TypeOK
    OBVIOUS
  <1>1. BufTypes
    BY WidthAssumption DEF Init, BufTypes, BufStates
  <1>2. ListTypes
    BY DEF Init, ListTypes
  <1>3. ControlTypes
    BY ZeroInRange
    DEF Init, ControlTypes, StopPcs, TimerPcs, TimerHolds
  <1> QED
    BY <1>1, <1>2, <1>3 DEF TypeOK

LEMMA TypeStep == TypeOK /\ [Next]_vars => TypeOK'
  <1> SUFFICES ASSUME TypeOK, [Next]_vars PROVE TypeOK'
    OBVIOUS
  <1> USE WidthAssumption DEF TypeOK
  <1>1. ASSUME NEW new \in SUBSET Buffers, Reqbufs(new) PROVE TypeOK'
    <2>1. BufTypes'
      BY <1>1, QueueSetupType
      DEF Reqbufs, stopVars, timerVars, BufTypes, BufStates
    <2>2. ListTypes'
      BY <1>1, QueueSetupType
      DEF Reqbufs, stopVars, timerVars, ListTypes
    <2>3. ControlTypes'
      BY <1>1, QueueSetupType
      DEF Reqbufs, stopVars, timerVars, ControlTypes, StopPcs, TimerPcs,
          TimerHolds
    <2> QED
      BY <2>1, <2>2, <2>3
  <1>2. ASSUME NEW new \in SUBSET Buffers, NEW size \in Sizes,
               CreateBufs(new, size)
        PROVE  TypeOK'
    <2>1. BufTypes'
      BY <1>2, QueueSetupType, SizeAssumption
      DEF CreateBufs, vb2Vars, stopVars, timerVars, BufTypes, BufStates
    <2>2. ListTypes'
      BY <1>2, QueueSetupType, SizeAssumption
      DEF CreateBufs, vb2Vars, stopVars, timerVars, ListTypes
    <2>3. ControlTypes'
      BY <1>2, QueueSetupType, SizeAssumption
      DEF CreateBufs, vb2Vars, stopVars, timerVars, ControlTypes, StopPcs,
          TimerPcs, TimerHolds
    <2> QED
      BY <2>1, <2>2, <2>3
  <1>3. ASSUME NEW b \in Buffers, PrepareBuf(b) PROVE TypeOK'
    <2>1. BufTypes'
      BY <1>3
      DEF PrepareBuf, vb2Vars, stopVars, timerVars, BufTypes, BufStates
    <2>2. ListTypes'
      BY <1>3
      DEF PrepareBuf, vb2Vars, stopVars, timerVars, ListTypes
    <2>3. ControlTypes'
      BY <1>3
      DEF PrepareBuf, vb2Vars, stopVars, timerVars, ControlTypes, StopPcs,
          TimerPcs, TimerHolds
    <2> QED
      BY <2>1, <2>2, <2>3
  <1>4. ASSUME NEW b \in Buffers, Qbuf(b) PROVE TypeOK'
    <2>1. BufTypes'
      <3>1. bufState' \in [Buffers -> BufStates]
        BY <1>4 DEF Qbuf, BufTypes, BufStates
      <3>2. bufSeq' \in [Buffers -> 0 .. SeqLimit - 1]
        BY <1>4, ZeroInRange DEF Qbuf, BufTypes
      <3> QED
        BY <1>4, <3>1, <3>2 DEF Qbuf, BufTypes
    <2>2. ListTypes'
      <3>1. CASE streaming
        <4>1. queued_bufs' = queued_bufs \o <<b>> /\ pending' = pending
              /\ doneList' = doneList
          BY <1>4, <3>1 DEF Qbuf, buf_queue
        <4> QED
          BY <4>1 DEF ListTypes
      <3>2. CASE ~streaming
        <4>1. queued_bufs' = queued_bufs /\ pending' = Append(pending, b)
              /\ doneList' = doneList
          BY <1>4, <3>2 DEF Qbuf
        <4> QED
          BY <4>1 DEF ListTypes
      <3> QED
        BY <3>1, <3>2
    <2>3. ControlTypes'
      BY <1>4
      DEF Qbuf, buf_queue, stopVars, timerVars, ControlTypes, StopPcs,
          TimerPcs, TimerHolds
    <2> QED
      BY <2>1, <2>2, <2>3
  <1>5. CASE StreamOn
    <2>1. BufTypes'
      BY <1>5
      DEF StreamOn, buf_queue, start_streaming, stopVars, BufTypes, BufStates
    <2>2. ListTypes'
      BY <1>5
      DEF StreamOn, buf_queue, start_streaming, stopVars, ListTypes
    <2>3. ControlTypes'
      BY <1>5
      DEF StreamOn, buf_queue, start_streaming, stopVars, ControlTypes,
          StopPcs, TimerPcs, TimerHolds
    <2> QED
      BY <2>1, <2>2, <2>3
  <1>6. ASSUME TakeDone, doneList # <<>>, dqWaiting' \in BOOLEAN
        PROVE  TypeOK'
    <2>1. BufTypes'
      BY <1>6
      DEF TakeDone, stopVars, timerVars, BufTypes, BufStates
    <2>2. ListTypes'
      BY <1>6
      DEF TakeDone, stopVars, timerVars, ListTypes
    <2>3. ControlTypes'
      BY <1>6
      DEF TakeDone, stopVars, timerVars, ControlTypes, StopPcs, TimerPcs,
          TimerHolds
    <2> QED
      BY <2>1, <2>2, <2>3
  <1>7. CASE Dqbuf \/ DqbufWake
    BY <1>6, <1>7 DEF Dqbuf, DqbufWake, TypeOK, ControlTypes
  <1>8. ASSUME NEW stopped \in BOOLEAN, DqbufWait \/ DqbufGiveUp(stopped)
        PROVE  TypeOK'
    <2>1. BufTypes'
      BY <1>8
      DEF DqbufWait, DqbufGiveUp, bufVars, stopVars, timerVars, BufTypes,
          BufStates
    <2>2. ListTypes'
      BY <1>8
      DEF DqbufWait, DqbufGiveUp, bufVars, stopVars, timerVars, ListTypes
    <2>3. ControlTypes'
      BY <1>8
      DEF DqbufWait, DqbufGiveUp, bufVars, stopVars, timerVars, ControlTypes,
          StopPcs, TimerPcs, TimerHolds
    <2> QED
      BY <2>1, <2>2, <2>3
  <1>9. ASSUME NEW close \in BOOLEAN, CancelIdle(close) PROVE TypeOK'
    <2>1. BufTypes'
      BY <1>9
      DEF CancelIdle, CancelQueue, stopVars, timerVars, BufTypes, BufStates
    <2>2. ListTypes'
      BY <1>9
      DEF CancelIdle, CancelQueue, stopVars, timerVars, ListTypes
    <2>3. ControlTypes'
      BY <1>9
      DEF CancelIdle, CancelQueue, stopVars, timerVars, ControlTypes, StopPcs,
          TimerPcs, TimerHolds
    <2> QED
      BY <2>1, <2>2, <2>3
  <1>10. ASSUME NEW close \in BOOLEAN, StopBegin(close) PROVE TypeOK'
    <2>1. BufTypes'
      BY <1>10
      DEF StopBegin, bufVars, vb2Vars, timerVars, BufTypes, BufStates
    <2>2. ListTypes'
      BY <1>10
      DEF StopBegin, bufVars, vb2Vars, timerVars, ListTypes
    <2>3. ControlTypes'
      BY <1>10
      DEF StopBegin, bufVars, vb2Vars, timerVars, ControlTypes, StopPcs,
          TimerPcs, TimerHolds
    <2> QED
      BY <2>1, <2>2, <2>3
  <1>11. CASE StopTimer
    <2>1. BufTypes'
      BY <1>11
      DEF StopTimer, CallbackDone, bufVars, vb2Vars, BufTypes, BufStates
    <2>2. ListTypes'
      BY <1>11
      DEF StopTimer, CallbackDone, bufVars, vb2Vars, ListTypes
    <2>3. ControlTypes'
      BY <1>11
      DEF StopTimer, CallbackDone, bufVars, vb2Vars, ControlTypes, StopPcs,
          TimerPcs, TimerHolds
    <2> QED
      BY <2>1, <2>2, <2>3
  <1>12. CASE StopDrain
    <2>1. BufTypes'
      BY <1>12
      DEF StopDrain, stopVars, timerVars, BufTypes, BufStates
    <2>2. ListTypes'
      BY <1>12
      DEF StopDrain, stopVars, timerVars, ListTypes
    <2>3. ControlTypes'
      BY <1>12
      DEF StopDrain, stopVars, timerVars, ControlTypes, StopPcs, TimerPcs,
          TimerHolds
    <2> QED
      BY <2>1, <2>2, <2>3
  <1>13. CASE StopDrained
    <2>1. BufTypes'
      BY <1>13
      DEF StopDrained, Drained, bufVars, vb2Vars, timerVars, BufTypes, BufStates
    <2>2. ListTypes'
      BY <1>13
      DEF StopDrained, Drained, bufVars, vb2Vars, timerVars, ListTypes
    <2>3. ControlTypes'
      BY <1>13
      DEF StopDrained, Drained, bufVars, vb2Vars, timerVars, ControlTypes,
          StopPcs, TimerPcs, TimerHolds
    <2> QED
      BY <2>1, <2>2, <2>3
  <1>14. CASE StopFinish
    <2>1. BufTypes'
      BY <1>14
      DEF StopFinish, CancelQueue, timerVars, BufTypes, BufStates
    <2>2. ListTypes'
      BY <1>14
      DEF StopFinish, CancelQueue, timerVars, ListTypes
    <2>3. ControlTypes'
      BY <1>14
      DEF StopFinish, CancelQueue, timerVars, ControlTypes, StopPcs, TimerPcs,
          TimerHolds
    <2> QED
      BY <2>1, <2>2, <2>3
  <1>15. CASE TimerPop
    <2>1. BufTypes'
      BY <1>15
      DEF TimerPop, list_del, AfterEmpty, bufVars, vb2Vars, stopVars,
          BufTypes, BufStates
    <2>2. ListTypes'
      <3>1. CASE queued_bufs = <<>>
        BY <1>15, <3>1 DEF TimerPop, list_del, AfterEmpty, vb2Vars, ListTypes
      <3>2. CASE queued_bufs # <<>>
        <4>1. queued_bufs' = Tail(queued_bufs) /\ pending' = pending
              /\ doneList' = doneList
          BY <1>15, <3>2 DEF TimerPop, list_del, AfterEmpty, vb2Vars
        <4> QED
          BY <3>2, <4>1 DEF ListTypes
      <3> QED
        BY <3>1, <3>2
    <2>3. ControlTypes'
      <3>1. CASE queued_bufs = <<>>
        BY <1>15, <3>1
        DEF TimerPop, list_del, AfterEmpty, vb2Vars, stopVars, ControlTypes,
            StopPcs, TimerPcs,
            TimerHolds
      <3>2. CASE queued_bufs # <<>>
        <4>1. timerBuf' \in Buffers /\ timerPc' = "fill"
          BY <1>15, <3>2 DEF TimerPop, list_del, AfterEmpty, ListTypes
        <4> QED
          BY <1>15, <4>1, BufferAssumption
          DEF TimerPop, list_del, AfterEmpty, vb2Vars, stopVars, ControlTypes,
              StopPcs, TimerPcs
      <3> QED
        BY <3>1, <3>2
    <2> QED
      BY <2>1, <2>2, <2>3
  <1>16. CASE TimerFill
    <2>1. BufTypes'
      <3>1. FrameIndex(sequence) \in -1 .. FrameCount - 1
        BY FrameIndexInRange DEF ControlTypes
      <3> QED
        BY <1>16, <3>1 DEF TimerFill, BufTypes
    <2>2. ListTypes'
      BY <1>16, FrameIndexInRange
      DEF TimerFill, vb2Vars, stopVars, ListTypes
    <2>3. ControlTypes'
      BY <1>16, FrameIndexInRange
      DEF TimerFill, vb2Vars, stopVars, ControlTypes, StopPcs, TimerPcs,
          TimerHolds
    <2> QED
      BY <2>1, <2>2, <2>3
  <1>17. CASE TimerStamp
    <2>1. BufTypes'
      BY <1>17 DEF TimerStamp, Stamp, NextSequence, BufTypes, ControlTypes
    <2>2. ListTypes'
      BY <1>17, ModRange
      DEF TimerStamp, Stamp, NextSequence, vb2Vars, stopVars, ListTypes
    <2>3. ControlTypes'
      BY <1>17, ModRange
      DEF TimerStamp, Stamp, NextSequence, vb2Vars, stopVars, ControlTypes,
          StopPcs, TimerPcs, TimerHolds
    <2> QED
      BY <2>1, <2>2, <2>3
  <1>18. CASE TimerComplete
    <2>1. BufTypes'
      BY <1>18
      DEF TimerComplete, stopVars, BufTypes, BufStates
    <2>2. ListTypes'
      <3>1. timerBuf \in Buffers
        BY <1>18, HeldIsBuffer DEF TimerComplete, TimerHolds
      <3> QED
        BY <1>18, <3>1 DEF TimerComplete, ListTypes
    <2>3. ControlTypes'
      BY <1>18
      DEF TimerComplete, stopVars, ControlTypes, StopPcs, TimerPcs, TimerHolds
    <2> QED
      BY <2>1, <2>2, <2>3
  <1>19. CASE TimerResched
    <2>1. BufTypes'
      BY <1>19
      DEF TimerResched, bufVars, vb2Vars, stopVars, BufTypes, BufStates
    <2>2. ListTypes'
      BY <1>19
      DEF TimerResched, bufVars, vb2Vars, stopVars, ListTypes
    <2>3. ControlTypes'
      BY <1>19
      DEF TimerResched, bufVars, vb2Vars, stopVars, ControlTypes, StopPcs,
          TimerPcs, TimerHolds
    <2> QED
      BY <2>1, <2>2, <2>3
  <1>20. CASE UNCHANGED vars
    <2>1. BufTypes'
      BY <1>20
      DEF vars, bufVars, vb2Vars, stopVars, timerVars, BufTypes, BufStates
    <2>2. ListTypes'
      BY <1>20
      DEF vars, bufVars, vb2Vars, stopVars, timerVars, ListTypes
    <2>3. ControlTypes'
      BY <1>20
      DEF vars, bufVars, vb2Vars, stopVars, timerVars, ControlTypes, StopPcs,
          TimerPcs, TimerHolds
    <2> QED
      BY <2>1, <2>2, <2>3
  <1> QED
    BY <1>1, <1>2, <1>3, <1>4, <1>5, <1>7, <1>8, <1>9, <1>10, <1>11, <1>12,
       <1>13, <1>14, <1>15, <1>16, <1>17, <1>18, <1>19, <1>20
    DEF Next, AppNext, StopNext, TimerNext

\* Every variable of the capture queue keeps its type, for any number of
\* buffers, any animation length and any integer widths.
THEOREM TypeCorrect == Spec => []TypeOK
  BY TypeInit, TypeStep, PTL DEF Spec

-----------------------------------------------------------------------------
(* Facts about lists without repetitions                                   *)

LEMMA EmptyList == Range(<<>>) = {} /\ IsInjective(<<>>)
  BY DEF Range, IsInjective

\* list_add_tail() of an entry that is in no list.
LEMMA AppendList ==
    ASSUME NEW S, NEW s \in Seq(S), NEW e \in S,
           IsInjective(s), e \notin Range(s)
    PROVE  /\ Range(Append(s, e)) = Range(s) \cup {e}
           /\ IsInjective(Append(s, e))
  <1> DEFINE t == Append(s, e)
  <1>1. DOMAIN t = 1 .. Len(s) + 1 /\ DOMAIN s = 1 .. Len(s) /\ Len(s) \in Nat
    OBVIOUS
  <1>2. \A i \in DOMAIN s : t[i] = s[i]
    OBVIOUS
  <1>3. t[Len(s) + 1] = e
    OBVIOUS
  <1> QED
    BY <1>1, <1>2, <1>3 DEF Range, IsInjective

\* list_del() of the first entry.
LEMMA TailList ==
    ASSUME NEW S, NEW s \in Seq(S), s # <<>>, IsInjective(s)
    PROVE  /\ Head(s) \in Range(s)
           /\ Range(Tail(s)) = Range(s) \ {Head(s)}
           /\ IsInjective(Tail(s))
  <1> DEFINE t == Tail(s)
  <1>1. /\ Len(s) \in Nat \ {0}
        /\ DOMAIN s = 1 .. Len(s)
        /\ DOMAIN t = 1 .. Len(s) - 1
        /\ Head(s) = s[1]
    OBVIOUS
  <1>2. \A i \in DOMAIN t : t[i] = s[i + 1]
    OBVIOUS
  <1>3. \A i \in DOMAIN s : i = 1 \/ i - 1 \in DOMAIN t
    BY <1>1
  <1>4. Range(t) = Range(s) \ {Head(s)}
    <2>1. ASSUME NEW i \in DOMAIN t
          PROVE  t[i] \in Range(s) /\ t[i] # Head(s)
      BY <1>1, <1>2, <2>1 DEF Range, IsInjective
    <2>2. ASSUME NEW i \in DOMAIN s, s[i] # Head(s)
          PROVE  s[i] \in Range(t)
      <3>1. i - 1 \in DOMAIN t
        BY <1>1, <1>3, <2>2
      <3>2. t[i - 1] = s[i]
        BY <1>1, <1>2, <3>1
      <3> QED
        BY <3>1, <3>2 DEF Range
    <2> QED
      BY <2>1, <2>2 DEF Range
  <1>5. IsInjective(t)
    <2>1. ASSUME NEW i \in DOMAIN t, NEW j \in DOMAIN t, t[i] = t[j]
          PROVE  i = j
      <3>1. s[i + 1] = s[j + 1] /\ i + 1 \in DOMAIN s /\ j + 1 \in DOMAIN s
        BY <1>1, <1>2, <2>1
      <3>2. i + 1 = j + 1
        BY <3>1 DEF IsInjective
      <3> QED
        BY <1>1, <3>2
    <2> QED
      BY <2>1 DEF IsInjective
  <1>6. Head(s) \in Range(s)
    <2>1. 1 \in DOMAIN s
      BY <1>1
    <2> QED
      BY <1>1, <2>1 DEF Range
  <1> QED
    BY <1>4, <1>5, <1>6

-----------------------------------------------------------------------------
(* The inductive invariant                                                 *)

LEMMA InvInit == Init => Inv
  <1> SUFFICES ASSUME Init PROVE Inv
    OBVIOUS
  <1>1. TypeOK
    BY TypeInit
  <1>2. Ownership
    BY EmptyList
    DEF Init, Ownership, OwnPending, OwnDriver, OwnDone, InState, WithDriver,
        Held, TimerHolds
  <1>3. Control
    BY DEF Init, Control, TimerAlive
  <1> QED
    BY <1>1, <1>2, <1>3 DEF Inv

\* Steps that move no buffer leave every buffer where its state says.
LEMMA OwnershipStutter ==
    ASSUME Ownership,
           UNCHANGED <<bufState, pending, queued_bufs, doneList>>, Held' = Held
    PROVE  Ownership'
  BY DEF Ownership, OwnPending, OwnDriver, OwnDone, InState, WithDriver,
         Range, IsInjective

\* When no session runs the only buffers in a list are the pending ones.
LEMMA IdleQueue ==
    ASSUME Inv, ~streaming
    PROVE  /\ queued_bufs = <<>> /\ doneList = <<>>
           /\ Held = {} /\ WithDriver = {}
           /\ InState({"DONE", "ERROR"}) = {}
  <1>1. /\ queued_bufs = <<>> /\ doneList = <<>>
        /\ Held = {}
    BY DEF Inv, Control, Held, TimerHolds
  <1> QED
    BY <1>1, EmptyList DEF Inv, Ownership, OwnDriver, OwnDone

\* Once every buffer is the application's and the lists are empty, each
\* buffer is where its state says.
LEMMA OwnershipEmpty ==
    ASSUME pending' = <<>>, queued_bufs' = <<>>, doneList' = <<>>,
           Held' = {},
           \A b \in Buffers : bufState'[b] \in {"UNALLOCATED", "DEQUEUED"}
    PROVE  Ownership'
  <1>1. InState({"QUEUED"})' = {} /\ WithDriver' = {}
        /\ InState({"DONE", "ERROR"})' = {}
    BY DEF InState, WithDriver
  <1> QED
    BY <1>1, EmptyList
    DEF Ownership, OwnPending, OwnDriver, OwnDone, Range, IsInjective

LEMMA OwnershipStep == Inv /\ [Next]_vars => Ownership'
  <1> SUFFICES ASSUME Inv, [Next]_vars PROVE Ownership'
    OBVIOUS
  <1> USE DEF Inv
  <1>1. ASSUME NEW new \in SUBSET Buffers, Reqbufs(new) PROVE Ownership'
    <2>1. queued_bufs' = <<>> /\ doneList' = <<>> /\ Held' = {}
      BY <1>1, IdleQueue DEF Reqbufs, timerVars, Held, TimerHolds
    <2> QED
      BY <1>1, <2>1, OwnershipEmpty DEF Reqbufs
  <1>2. ASSUME NEW new \in SUBSET Buffers, NEW size \in Sizes,
               CreateBufs(new, size)
        PROVE  Ownership'
    <2>1. \A b \in Buffers : \/ bufState'[b] = bufState[b]
                             \/ /\ bufState[b] = "UNALLOCATED"
                                /\ bufState'[b] = "DEQUEUED"
      BY <1>2 DEF CreateBufs, Allocated
    <2>2. /\ InState({"QUEUED"})' = InState({"QUEUED"})
          /\ WithDriver' = WithDriver
          /\ InState({"DONE", "ERROR"})' = InState({"DONE", "ERROR"})
      BY <2>1 DEF InState, WithDriver
    <2>3. UNCHANGED <<pending, queued_bufs, doneList, Held>>
      BY <1>2 DEF CreateBufs, vb2Vars, timerVars, Held, TimerHolds
    <2> QED
      BY <2>2, <2>3
      DEF Ownership, OwnPending, OwnDriver, OwnDone, Range, IsInjective
  <1>3. ASSUME NEW b \in Buffers, PrepareBuf(b) PROVE Ownership'
    <2>1. /\ InState({"QUEUED"})' = InState({"QUEUED"})
          /\ WithDriver' = WithDriver
          /\ InState({"DONE", "ERROR"})' = InState({"DONE", "ERROR"})
      BY <1>3 DEF PrepareBuf, InState, WithDriver, TypeOK, BufTypes
    <2>2. UNCHANGED <<pending, queued_bufs, doneList, Held>>
      BY <1>3 DEF PrepareBuf, vb2Vars, timerVars, Held, TimerHolds
    <2> QED
      BY <2>1, <2>2
      DEF Ownership, OwnPending, OwnDriver, OwnDone, Range, IsInjective
  <1>4. ASSUME NEW b \in Buffers, Qbuf(b) PROVE Ownership'
    <2>1. /\ b \notin Range(pending) /\ b \notin Range(queued_bufs)
          /\ b \notin Range(doneList)
      BY <1>4 DEF Qbuf, Ownership, OwnPending, OwnDriver, OwnDone,
                  WithDriver, InState
    <2>2. Held' = Held /\ doneList' = doneList
      BY <1>4 DEF Qbuf, timerVars, Held, TimerHolds
    <2>3. InState({"DONE", "ERROR"})' = InState({"DONE", "ERROR"})
      BY <1>4 DEF Qbuf, InState, TypeOK, BufTypes
    <2>4. OwnDone'
      BY <2>2, <2>3 DEF Ownership, OwnDone, Range, IsInjective
    <2>5. CASE streaming
      <3>1. queued_bufs' = queued_bufs \o <<b>> /\ pending' = pending
        BY <1>4, <2>5 DEF Qbuf, buf_queue
      <3>2. queued_bufs' = Append(queued_bufs, b)
        BY <3>1 DEF TypeOK, ListTypes
      <3>3. /\ WithDriver' = WithDriver \cup {b}
            /\ InState({"QUEUED"})' = InState({"QUEUED"})
        BY <1>4, <2>5 DEF Qbuf, InState, WithDriver, TypeOK, BufTypes
      <3>4. /\ Range(queued_bufs') = Range(queued_bufs) \cup {b}
            /\ IsInjective(queued_bufs')
        BY <2>1, <3>2, AppendList
        DEF Ownership, OwnDriver, TypeOK, ListTypes
      <3>5. b \notin Held
        BY <1>4 DEF Qbuf, Ownership, OwnDriver, WithDriver, InState
      <3>6. OwnDriver'
        BY <2>2, <3>3, <3>4, <3>5
        DEF Ownership, OwnDriver, Range, IsInjective
      <3>7. OwnPending'
        BY <3>1, <3>3 DEF Ownership, OwnPending, Range, IsInjective
      <3> QED
        BY <2>4, <3>6, <3>7 DEF Ownership
    <2>6. CASE ~streaming
      <3>1. pending' = Append(pending, b) /\ queued_bufs' = queued_bufs
        BY <1>4, <2>6 DEF Qbuf
      <3>2. /\ InState({"QUEUED"})' = InState({"QUEUED"}) \cup {b}
            /\ WithDriver' = WithDriver
        BY <1>4, <2>6 DEF Qbuf, InState, WithDriver, TypeOK, BufTypes
      <3>3. /\ Range(pending') = Range(pending) \cup {b}
            /\ IsInjective(pending')
        BY <2>1, <3>1, AppendList
        DEF Ownership, OwnPending, TypeOK, ListTypes
      <3>4. OwnPending'
        BY <3>2, <3>3 DEF Ownership, OwnPending, Range, IsInjective
      <3>5. OwnDriver'
        BY <2>2, <3>1, <3>2 DEF Ownership, OwnDriver, Range, IsInjective
      <3> QED
        BY <2>4, <3>4, <3>5 DEF Ownership
    <2> QED
      BY <2>5, <2>6
  <1>5. CASE StreamOn
    <2>1. /\ queued_bufs = <<>> /\ doneList = <<>>
          /\ Held = {} /\ WithDriver = {}
          /\ InState({"DONE", "ERROR"}) = {}
      BY <1>5, IdleQueue DEF StreamOn
    <2>2. queued_bufs' = pending /\ pending' = <<>> /\ doneList' = <<>>
      BY <1>5, <2>1 DEF StreamOn, buf_queue, TypeOK, ListTypes
    <2>3. Held' = {}
      BY <1>5, <2>1 DEF StreamOn, Held, TimerHolds
    <2>4. /\ WithDriver' = InState({"QUEUED"}) /\ InState({"QUEUED"})' = {}
          /\ InState({"DONE", "ERROR"})' = {}
      BY <1>5, <2>1 DEF StreamOn, InState, WithDriver
    <2> QED
      BY <2>2, <2>3, <2>4, EmptyList
      DEF Ownership, OwnPending, OwnDriver, OwnDone, Range, IsInjective
  <1>6. ASSUME TakeDone, streaming, doneList # <<>> PROVE Ownership'
    <2> DEFINE b == Head(doneList)
    <2>1. /\ b \in Range(doneList)
          /\ Range(Tail(doneList)) = Range(doneList) \ {b}
          /\ IsInjective(Tail(doneList))
      BY <1>6, TailList DEF Ownership, OwnDone, TypeOK, ListTypes
    <2>2. b \in Buffers /\ bufState[b] \in {"DONE", "ERROR"}
      BY <2>1 DEF Ownership, OwnDone, InState
    <2>3. bufState' = [bufState EXCEPT ![b] = "DEQUEUED"]
      BY <1>6 DEF TakeDone
    <2>4. /\ InState({"QUEUED"})' = InState({"QUEUED"})
          /\ WithDriver' = WithDriver
          /\ InState({"DONE", "ERROR"})' = InState({"DONE", "ERROR"}) \ {b}
      BY <2>2, <2>3 DEF InState, WithDriver, TypeOK, BufTypes
    <2>5. /\ UNCHANGED <<pending, queued_bufs, Held>>
          /\ doneList' = Tail(doneList)
      BY <1>6 DEF TakeDone, timerVars, Held, TimerHolds
    <2> QED
      BY <2>1, <2>4, <2>5
      DEF Ownership, OwnPending, OwnDriver, OwnDone, Range, IsInjective
  <1>7. CASE Dqbuf \/ DqbufWake
    BY <1>6, <1>7 DEF Dqbuf, DqbufWake
  <1>8. ASSUME NEW stopped \in BOOLEAN, DqbufWait \/ DqbufGiveUp(stopped)
        PROVE  Ownership'
    BY <1>8, OwnershipStutter
    DEF DqbufWait, DqbufGiveUp, bufVars, timerVars, Held, TimerHolds
  <1>9. ASSUME NEW close \in BOOLEAN, CancelIdle(close) PROVE Ownership'
    <2>1. queued_bufs' = <<>> /\ doneList' = <<>> /\ Held' = {}
      BY <1>9, IdleQueue
      DEF CancelIdle, CancelQueue, timerVars, Held, TimerHolds
    <2> QED
      BY <1>9, <2>1, OwnershipEmpty DEF CancelIdle, CancelQueue
  <1>10. ASSUME NEW close \in BOOLEAN, StopBegin(close) PROVE Ownership'
    BY <1>10, OwnershipStutter
    DEF StopBegin, bufVars, vb2Vars, timerVars, Held, TimerHolds
  <1>11. CASE StopTimer
    BY <1>11, OwnershipStutter
    DEF StopTimer, CallbackDone, bufVars, vb2Vars, Held, TimerHolds
  <1>12. CASE StopDrain
    <2> DEFINE b == Head(queued_bufs)
    <2>1. Held = {} /\ Held' = {}
      BY <1>12 DEF StopDrain, Control, timerVars, Held, TimerHolds
    <2>2. /\ b \in Range(queued_bufs)
          /\ Range(Tail(queued_bufs)) = Range(queued_bufs) \ {b}
          /\ IsInjective(Tail(queued_bufs))
      BY <1>12, TailList
      DEF StopDrain, Ownership, OwnDriver, TypeOK, ListTypes
    <2>3. b \in Buffers /\ bufState[b] = "ACTIVE"
      BY <2>2 DEF Ownership, OwnDriver, WithDriver, InState
    <2>4. b \notin Range(doneList)
      BY <2>3 DEF Ownership, OwnDone, InState
    <2>5. /\ Range(Append(doneList, b)) = Range(doneList) \cup {b}
          /\ IsInjective(Append(doneList, b))
      BY <2>3, <2>4, AppendList DEF Ownership, OwnDone, TypeOK, ListTypes
    <2>6. bufState' = [bufState EXCEPT ![b] = "ERROR"]
      BY <1>12 DEF StopDrain
    <2>7. /\ InState({"QUEUED"})' = InState({"QUEUED"})
          /\ WithDriver' = WithDriver \ {b}
          /\ InState({"DONE", "ERROR"})' = InState({"DONE", "ERROR"}) \cup {b}
      BY <2>3, <2>6 DEF InState, WithDriver, TypeOK, BufTypes
    <2>8. /\ pending' = pending /\ queued_bufs' = Tail(queued_bufs)
          /\ doneList' = Append(doneList, b)
      BY <1>12 DEF StopDrain
    <2>9. OwnDriver'
      <3>1. IsInjective(queued_bufs)' /\ Range(queued_bufs)' =
                                        Range(queued_bufs) \ {b}
        BY <2>2, <2>8 DEF Range, IsInjective
      <3>2. Range(queued_bufs) = WithDriver
        BY <2>1 DEF Ownership, OwnDriver
      <3> QED
        BY <2>1, <2>7, <3>1, <3>2 DEF OwnDriver
    <2>10. OwnPending' /\ OwnDone'
      BY <2>5, <2>7, <2>8
      DEF Ownership, OwnPending, OwnDone, Range, IsInjective
    <2> QED
      BY <2>9, <2>10 DEF Ownership
  <1>13. CASE StopDrained
    BY <1>13, OwnershipStutter
    DEF StopDrained, Drained, bufVars, vb2Vars, timerVars, Held, TimerHolds
  <1>14. CASE StopFinish
    <2>1. queued_bufs' = <<>> /\ doneList' = <<>> /\ Held' = {}
      BY <1>14
      DEF StopFinish, CancelQueue, Control, timerVars, Held, TimerHolds
    <2> QED
      BY <1>14, <2>1, OwnershipEmpty DEF StopFinish, CancelQueue
  <1>15. CASE TimerPop
    <2>1. CASE queued_bufs = <<>>
      <3>1. Held' = Held /\ queued_bufs' = queued_bufs
        BY <1>15, <2>1 DEF TimerPop, list_del, AfterEmpty, Held, TimerHolds
      <3> QED
        BY <1>15, <3>1, OwnershipStutter
          DEF TimerPop, list_del, AfterEmpty, bufVars, vb2Vars
    <2>2. CASE queued_bufs # <<>>
      <3> DEFINE b == Head(queued_bufs)
      <3>1. /\ b \in Range(queued_bufs)
            /\ Range(Tail(queued_bufs)) = Range(queued_bufs) \ {b}
            /\ IsInjective(Tail(queued_bufs))
        BY <2>2, TailList DEF Ownership, OwnDriver, TypeOK, ListTypes
      <3>2. Held = {} /\ Held' = {b} /\ queued_bufs' = Tail(queued_bufs)
        BY <1>15, <2>2 DEF TimerPop, list_del, AfterEmpty, Held, TimerHolds
      <3>3. UNCHANGED <<bufState, pending, doneList>>
        BY <1>15 DEF TimerPop, list_del, AfterEmpty, bufVars, vb2Vars
      <3>4. IsInjective(queued_bufs)' /\ Range(queued_bufs)' =
                                        Range(queued_bufs) \ {b}
        BY <3>1, <3>2 DEF Range, IsInjective
      <3>5. Range(queued_bufs) = WithDriver /\ WithDriver' = WithDriver
        BY <3>2, <3>3 DEF Ownership, OwnDriver, WithDriver, InState
      <3>6. OwnDriver'
        BY <3>1, <3>2, <3>4, <3>5 DEF OwnDriver
      <3>7. OwnPending' /\ OwnDone'
        BY <3>3
        DEF Ownership, OwnPending, OwnDone, InState, Range, IsInjective
      <3> QED
        BY <3>6, <3>7 DEF Ownership
    <2> QED
      BY <2>1, <2>2
  <1>16. CASE TimerFill
    BY <1>16, OwnershipStutter DEF TimerFill, vb2Vars, Held, TimerHolds
  <1>17. CASE TimerStamp
    BY <1>17, OwnershipStutter
      DEF TimerStamp, Stamp, NextSequence, vb2Vars, Held, TimerHolds
  <1>18. CASE TimerComplete
    <2> DEFINE b == timerBuf
    <2>1. Held = {b} /\ Held' = {}
      BY <1>18 DEF TimerComplete, Held, TimerHolds
    <2>2. b \in Buffers /\ bufState[b] = "ACTIVE"
      BY <2>1 DEF Ownership, OwnDriver, WithDriver, InState
    <2>3. b \notin Range(doneList) /\ b \notin Range(queued_bufs)
      BY <2>1, <2>2 DEF Ownership, OwnDone, OwnDriver, InState
    <2>4. /\ Range(Append(doneList, b)) = Range(doneList) \cup {b}
          /\ IsInjective(Append(doneList, b))
      BY <2>2, <2>3, AppendList DEF Ownership, OwnDone, TypeOK, ListTypes
    <2>5. /\ bufState' = [bufState EXCEPT ![b] = "DONE"]
          /\ UNCHANGED <<pending, queued_bufs>>
          /\ doneList' = Append(doneList, b)
      BY <1>18 DEF TimerComplete
    <2>6. /\ InState({"QUEUED"})' = InState({"QUEUED"})
          /\ WithDriver' = WithDriver \ {b}
          /\ InState({"DONE", "ERROR"})' = InState({"DONE", "ERROR"}) \cup {b}
      BY <2>2, <2>5 DEF InState, WithDriver, TypeOK, BufTypes
    <2>7. OwnDriver'
      BY <2>1, <2>3, <2>5, <2>6
      DEF Ownership, OwnDriver, Range, IsInjective
    <2>8. OwnPending' /\ OwnDone'
      BY <2>4, <2>5, <2>6
      DEF Ownership, OwnPending, OwnDone, Range, IsInjective
    <2> QED
      BY <2>7, <2>8 DEF Ownership
  <1>19. CASE TimerResched
    BY <1>19, OwnershipStutter
    DEF TimerResched, bufVars, vb2Vars, Held, TimerHolds
  <1>20. CASE UNCHANGED vars
    BY <1>20, OwnershipStutter
    DEF vars, bufVars, vb2Vars, timerVars, Held, TimerHolds
  <1> QED
    BY <1>1, <1>2, <1>3, <1>4, <1>5, <1>7, <1>8, <1>9, <1>10, <1>11, <1>12,
       <1>13, <1>14, <1>15, <1>16, <1>17, <1>18, <1>19, <1>20
    DEF Next, AppNext, StopNext, TimerNext

LEMMA ControlStep == Inv /\ [Next]_vars => Control'
  <1> SUFFICES ASSUME Inv, [Next]_vars PROVE Control'
    OBVIOUS
  <1> USE DEF Inv, Control, TimerAlive
  <1>1. ASSUME NEW new \in SUBSET Buffers, Reqbufs(new) PROVE Control'
    BY <1>1 DEF Reqbufs, stopVars, timerVars
  <1>2. ASSUME NEW new \in SUBSET Buffers, NEW size \in Sizes,
               CreateBufs(new, size)
        PROVE  Control'
    BY <1>2 DEF CreateBufs, vb2Vars, stopVars, timerVars
  <1>3. ASSUME NEW b \in Buffers, PrepareBuf(b) PROVE Control'
    BY <1>3 DEF PrepareBuf, vb2Vars, stopVars, timerVars
  <1>4. ASSUME NEW b \in Buffers, Qbuf(b) PROVE Control'
    BY <1>4 DEF Qbuf, QueueLockFree, stopVars, timerVars
  <1>5. CASE StreamOn
    BY <1>5 DEF StreamOn, start_streaming, QueueLockFree, stopVars
  <1>6. ASSUME TakeDone, streaming PROVE Control'
    BY <1>6 DEF TakeDone, stopVars, timerVars
  <1>7. CASE Dqbuf \/ DqbufWake
    BY <1>6, <1>7 DEF Dqbuf, DqbufWake
  <1>8. ASSUME NEW stopped \in BOOLEAN, DqbufWait \/ DqbufGiveUp(stopped)
        PROVE  Control'
    BY <1>8 DEF DqbufWait, DqbufGiveUp, stopVars, timerVars
  <1>9. ASSUME NEW close \in BOOLEAN, CancelIdle(close) PROVE Control'
    BY <1>9 DEF CancelIdle, CancelQueue, QueueLockFree, stopVars, timerVars
  <1>10. ASSUME NEW close \in BOOLEAN, StopBegin(close) PROVE Control'
    BY <1>10 DEF StopBegin, QueueLockFree, vb2Vars, timerVars
  <1>11. CASE StopTimer
    BY <1>11 DEF StopTimer, CallbackDone, vb2Vars
  <1>12. CASE StopDrain
    BY <1>12 DEF StopDrain, stopVars, timerVars
  <1>13. CASE StopDrained
    BY <1>13 DEF StopDrained, Drained, vb2Vars, timerVars
  <1>14. CASE StopFinish
    BY <1>14 DEF StopFinish, CancelQueue, timerVars
  <1>15. CASE TimerPop
    BY <1>15 DEF TimerPop, list_del, AfterEmpty, vb2Vars, stopVars
  <1>16. CASE TimerFill \/ TimerStamp
    BY <1>16 DEF TimerFill, TimerStamp, Stamp, NextSequence, vb2Vars, stopVars
  <1>17. CASE TimerComplete
    BY <1>17 DEF TimerComplete, stopVars
  <1>18. CASE TimerResched
    BY <1>18 DEF TimerResched, vb2Vars, stopVars
  <1>19. CASE UNCHANGED vars
    BY <1>19 DEF vars, vb2Vars, stopVars, timerVars
  <1> QED
    BY <1>1, <1>2, <1>3, <1>4, <1>5, <1>7, <1>8, <1>9, <1>10, <1>11, <1>12,
       <1>13, <1>14, <1>15, <1>16, <1>17, <1>18, <1>19
    DEF Next, AppNext, StopNext, TimerNext

\* Inv is an inductive invariant.
THEOREM Invariance == Spec => []Inv
  <1>1. Inv /\ [Next]_vars => Inv'
    BY TypeStep, OwnershipStep, ControlStep DEF Inv
  <1> QED
    BY InvInit, <1>1, PTL DEF Spec

\* A buffer is always in exactly the place its vb2 state names.
THEOREM OwnershipHolds == Spec => []Ownership
  <1>1. Inv => Ownership
    BY DEF Inv
  <1> QED
    BY Invariance, <1>1, PTL

\* stop_streaming() leaves no buffer with the driver and no callback that
\* could still touch one.
THEOREM StopIsCleanHolds == Spec => []StopIsClean
  <1>1. Inv => StopIsClean
    <2> SUFFICES ASSUME Inv PROVE StopIsClean
      OBVIOUS
    <2>1. stopPc = "finish" => Held = {} /\ queued_bufs = <<>>
      BY DEF Inv, Control, Held, TimerHolds
    <2>2. stopPc = "finish" => WithDriver = {}
      BY <2>1, EmptyList DEF Inv, Ownership, OwnDriver
    <2> QED
      BY <2>2 DEF Inv, Control, StopIsClean
  <1> QED
    BY Invariance, <1>1, PTL

\* The animation never stalls: while a session runs, the timer is armed or
\* its callback is on the way to arming it.
THEOREM TimerAliveHolds == Spec => []TimerAlive
  <1>1. Inv => TimerAlive
    BY DEF Inv, Control
  <1> QED
    BY Invariance, <1>1, PTL
=============================================================================
