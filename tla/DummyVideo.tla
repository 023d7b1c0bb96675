----------------------------- MODULE DummyVideo -----------------------------
(***************************************************************************)
(* The streaming path of v4l2/video.c: a videobuf2 (vb2) capture queue     *)
(* served by a timer callback that plays a short animation.                *)
(*                                                                         *)
(* Actors: threads of the application that owns the queue, which run one   *)
(* at a time because every queue ioctl holds vb_queue_mlock (DQBUF lets go *)
(* of it while it sleeps), and the timer callback, which takes no mutex    *)
(* and meets them at queued_bufs_slock and inside vb2_buffer_done().       *)
(*                                                                         *)
(* vb2 itself is not part of the repository.  Its ioctls are modelled by   *)
(* what they do to the buffers and by the driver operations they call;     *)
(* the operations carry the names they have in video.c.                    *)
(***************************************************************************)
EXTENDS Integers, Sequences, FiniteSets, Functions

CONSTANTS
    Buffers,      \* slots for vb2 buffers
    NoBuffer,     \* "no buffer"
    Sizes,        \* plane sizes an application may ask CREATE_BUFS for
    FrameCount,   \* FRAME_COUNT, the length of the animation (25)
    SeqLimit,     \* number of values of an int (2^32)
    SizeLimit     \* number of values of a size_t (2^64)

ASSUME BufferAssumption == NoBuffer \notin Buffers
ASSUME SizeAssumption == Sizes \subseteq Nat
ASSUME WidthAssumption ==
    /\ FrameCount \in Nat \ {0}
    /\ SeqLimit \in Nat \ {0}
    /\ SizeLimit \in Nat
    /\ SeqLimit =< SizeLimit

VARIABLES
    bufState,     \* vb2: the state of each buffer
    bufSize,      \* vb2: the plane size of each buffer, 0 if not allocated
    bufSeq,       \* vb.sequence of each buffer
    bufFrame,     \* which animation frame its memory holds, -1 for none
    pending,      \* vb2: buffers queued before streaming started, in order
    doneList,     \* vb2: q->done_list
    streaming,    \* vb2: q->streaming and q->start_streaming_called
    dqWaiting,    \* vb2: q->waiting_in_dqbuf, a thread sleeps in DQBUF
    stopPc,       \* where STREAMOFF or close is: it holds the queue mutex
    closing,      \* the stop in progress is the owner's close()
    queued_bufs,  \* dv->queued_bufs
    sequence,     \* dv->sequence
    timerArmed,   \* dv->timer is pending
    timerPc,      \* where the timer callback is
    timerBuf      \* its local variable buf

vb2Vars   == <<pending, doneList, streaming, dqWaiting>>
bufVars   == <<bufState, bufSize, bufSeq, bufFrame>>
stopVars  == <<stopPc, closing>>
timerVars == <<timerArmed, timerPc, timerBuf>>
vars == <<bufVars, vb2Vars, stopVars, queued_bufs, sequence, timerVars>>

BufStates == {"UNALLOCATED", "DEQUEUED", "PREPARED", "QUEUED", "ACTIVE",
              "DONE", "ERROR"}
StopPcs  == {"idle", "timer", "drain", "finish"}
TimerPcs == {"idle", "fill", "stamp", "complete", "resched"}

DUMMY_VIDEO_PLANE_SIZE == 600 * 350 * 2

Allocated == {b \in Buffers : bufState[b] # "UNALLOCATED"}

\* The callback has taken timerBuf off queued_bufs and not completed it.
TimerHolds == timerPc \in {"fill", "stamp", "complete"}

\* frames[dv->sequence % FRAME_COUNT]: ARRAY_SIZE is a size_t, so the int is
\* sign-extended to a size_t before the remainder is taken.
FrameIndex(s) ==
    IF s < SeqLimit \div 2
    THEN s % FrameCount
    ELSE (s + SizeLimit - SeqLimit) % FrameCount

-----------------------------------------------------------------------------
(* vb2_ops: what the queue asks of the driver                              *)

\* Faulty variant: CREATE_BUFS is measured against one byte per pixel.
queue_setup_OneBytePerPixel(nplanes, size) ==
    IF nplanes = 0 THEN DUMMY_VIDEO_PLANE_SIZE
    ELSE IF size < 600 * 350 THEN 0 ELSE size

\* The size an allocation request ends up with: the driver's own for
\* REQBUFS (*nplanes = 0), the caller's for CREATE_BUFS; 0 is -EINVAL.
queue_setup(nplanes, size) ==
    IF nplanes = 0 THEN DUMMY_VIDEO_PLANE_SIZE
    ELSE IF size < DUMMY_VIDEO_PLANE_SIZE THEN 0 ELSE size

buf_prepare(b) == bufSize[b] >= DUMMY_VIDEO_PLANE_SIZE

\* The tail of queued_bufs after buf_queue() has run for each of bs in turn.
buf_queue(bs) == queued_bufs' = queued_bufs \o bs

\* Faulty variant: the numbering goes on where the last session stopped.
start_streaming_KeepsSequence ==
    /\ timerArmed' = TRUE
    /\ UNCHANGED sequence

start_streaming ==
    /\ sequence' = 0
    /\ timerArmed' = TRUE

-----------------------------------------------------------------------------
(* The ioctls.  Each holds vb_queue_mlock, so none runs while a stop does. *)

QueueLockFree == stopPc = "idle"

\* REQBUFS with count 0 (none) or more: the old buffers go, whatever was
\* queued is cancelled, new ones come with the size queue_setup() chose.
\* A sleeper in DQBUF that has not noticed the end of its session yet keeps
\* new buffers from coming, but not the old ones from going.
Reqbufs(new) ==
    /\ QueueLockFree
    /\ ~streaming
    /\ dqWaiting => new = {}
    /\ bufState' = [b \in Buffers |->
                      IF b \in new THEN "DEQUEUED" ELSE "UNALLOCATED"]
    /\ bufSize' = [b \in Buffers |->
                      IF b \in new THEN queue_setup(0, 0) ELSE 0]
    /\ bufSeq' = [b \in Buffers |-> 0]
    /\ bufFrame' = [b \in Buffers |-> -1]
    /\ pending' = <<>>
    /\ UNCHANGED <<doneList, streaming, dqWaiting, stopVars, queued_bufs,
                   sequence, timerVars>>

\* CREATE_BUFS adds buffers of a requested size, while streaming or not; the
\* first ones only when nobody is left in DQBUF.
CreateBufs(new, size) ==
    /\ QueueLockFree
    /\ dqWaiting => Allocated # {}
    /\ new # {} /\ new \cap Allocated = {}
    /\ queue_setup(1, size) # 0
    /\ bufState' = [b \in Buffers |->
                      IF b \in new THEN "DEQUEUED" ELSE bufState[b]]
    /\ bufSize' = [b \in Buffers |->
                      IF b \in new THEN queue_setup(1, size) ELSE bufSize[b]]
    /\ UNCHANGED <<bufSeq, bufFrame, vb2Vars, stopVars, queued_bufs,
                   sequence, timerVars>>

PrepareBuf(b) ==
    /\ QueueLockFree
    /\ bufState[b] = "DEQUEUED"
    /\ buf_prepare(b)
    /\ bufState' = [bufState EXCEPT ![b] = "PREPARED"]
    /\ UNCHANGED <<bufSize, bufSeq, bufFrame, vb2Vars, stopVars, queued_bufs,
                   sequence, timerVars>>

\* QBUF: prepared if it was not, then straight to the driver while
\* streaming, else kept by vb2.  vb2 clears vb.sequence on the way.
Qbuf(b) ==
    /\ QueueLockFree
    /\ \/ bufState[b] = "DEQUEUED" /\ buf_prepare(b)
       \/ bufState[b] = "PREPARED"
    /\ bufSeq' = [bufSeq EXCEPT ![b] = 0]
    /\ IF streaming
       THEN /\ bufState' = [bufState EXCEPT ![b] = "ACTIVE"]
            /\ buf_queue(<<b>>)
            /\ UNCHANGED pending
       ELSE /\ bufState' = [bufState EXCEPT ![b] = "QUEUED"]
            /\ pending' = Append(pending, b)
            /\ UNCHANGED queued_bufs
    /\ UNCHANGED <<bufSize, bufFrame, doneList, streaming, dqWaiting,
                   stopVars, sequence, timerVars>>

\* STREAMON hands the pending buffers over in order, then starts the timer.
StreamOn ==
    /\ QueueLockFree
    /\ ~streaming
    /\ Allocated # {}
    /\ buf_queue(pending)
    /\ bufState' = [b \in Buffers |->
                      IF bufState[b] = "QUEUED" THEN "ACTIVE" ELSE bufState[b]]
    /\ start_streaming
    /\ pending' = <<>>
    /\ streaming' = TRUE
    /\ UNCHANGED <<bufSize, bufSeq, bufFrame, doneList, dqWaiting, stopVars,
                   timerPc, timerBuf>>

\* The oldest completed buffer goes back to the application.
TakeDone ==
    /\ bufState' = [bufState EXCEPT ![Head(doneList)] = "DEQUEUED"]
    /\ doneList' = Tail(doneList)
    /\ UNCHANGED <<bufSize, bufSeq, bufFrame, pending, streaming, stopVars,
                   queued_bufs, sequence, timerVars>>

Dqbuf ==
    /\ QueueLockFree
    /\ ~dqWaiting /\ streaming
    /\ doneList # <<>>
    /\ TakeDone
    /\ UNCHANGED dqWaiting

\* A blocking DQBUF with nothing completed releases the mutex
\* (vb2_ops_wait_prepare) and sleeps.
DqbufWait ==
    /\ QueueLockFree
    /\ ~dqWaiting /\ streaming
    /\ doneList = <<>>
    /\ dqWaiting' = TRUE
    /\ UNCHANGED <<bufVars, pending, doneList, streaming, stopVars,
                   queued_bufs, sequence, timerVars>>

\* The sleeper is woken, has the mutex back (vb2_ops_wait_finish) and finds
\* a completed buffer.
DqbufWake ==
    /\ QueueLockFree
    /\ dqWaiting /\ streaming
    /\ doneList # <<>>
    /\ TakeDone
    /\ dqWaiting' = FALSE

\* The sleeper finds the queue stopped (-EINVAL), or a signal woke it.
DqbufGiveUp(stopped) ==
    /\ QueueLockFree
    /\ dqWaiting
    /\ stopped => ~streaming
    /\ dqWaiting' = FALSE
    /\ UNCHANGED <<bufVars, pending, doneList, streaming, stopVars,
                   queued_bufs, sequence, timerVars>>

\* The vb2 lists are emptied and every buffer is the application's, or,
\* on close(), is freed.
CancelQueue(freed) ==
    /\ bufState' = [b \in Buffers |->
                      IF freed \/ bufState[b] = "UNALLOCATED"
                      THEN "UNALLOCATED" ELSE "DEQUEUED"]
    /\ bufSize' = [b \in Buffers |-> IF freed THEN 0 ELSE bufSize[b]]
    /\ bufSeq' = [b \in Buffers |-> IF freed THEN 0 ELSE bufSeq[b]]
    /\ bufFrame' = [b \in Buffers |-> IF freed THEN -1 ELSE bufFrame[b]]
    /\ pending' = <<>>
    /\ doneList' = <<>>
    /\ streaming' = FALSE

\* STREAMOFF, or the owner's close(), when no session runs.  close() cannot
\* come while an ioctl of the same file is in progress.
CancelIdle(close) ==
    /\ QueueLockFree
    /\ ~streaming
    /\ close => ~dqWaiting
    /\ CancelQueue(close)
    /\ UNCHANGED <<dqWaiting, stopVars, queued_bufs, sequence, timerVars>>

\* The same in a session: stop_streaming() is called with the mutex held.
StopBegin(close) ==
    /\ QueueLockFree
    /\ streaming
    /\ close => ~dqWaiting
    /\ stopPc' = "timer"
    /\ closing' = close
    /\ UNCHANGED <<bufVars, vb2Vars, queued_bufs, sequence, timerVars>>

\* Faulty variants: timer_delete(), which does not wait for the callback, and
\* a wait for a timer that re-arms itself to run out.
CallbackDone_NoSync == TRUE
CallbackDone_Expired == timerPc = "idle" /\ ~timerArmed

CallbackDone == timerPc = "idle"

\* timer_delete_sync(): it spins until the callback is not running, then
\* takes the timer off the wheel.
StopTimer ==
    /\ stopPc = "timer"
    /\ CallbackDone
    /\ timerArmed' = FALSE
    /\ stopPc' = "drain"
    /\ UNCHANGED <<bufVars, vb2Vars, closing, queued_bufs, sequence,
                   timerPc, timerBuf>>

\* One round of the while loop: the oldest buffer is completed in error.
StopDrain ==
    /\ stopPc = "drain"
    /\ queued_bufs # <<>>
    /\ bufState' = [bufState EXCEPT ![Head(queued_bufs)] = "ERROR"]
    /\ doneList' = Append(doneList, Head(queued_bufs))
    /\ queued_bufs' = Tail(queued_bufs)
    /\ UNCHANGED <<bufSize, bufSeq, bufFrame, pending, streaming, dqWaiting,
                   stopVars, sequence, timerVars>>

\* Faulty variant: "if" instead of "while", buffers stay in the list.
Drained_AfterOne == TRUE

Drained == queued_bufs = <<>>

StopDrained ==
    /\ stopPc = "drain"
    /\ Drained
    /\ stopPc' = "finish"
    /\ UNCHANGED <<bufVars, vb2Vars, closing, queued_bufs, sequence, timerVars>>

\* Back in vb2, which cancels the rest and lets go of the mutex.
StopFinish ==
    /\ stopPc = "finish"
    /\ CancelQueue(closing)
    /\ stopPc' = "idle"
    /\ closing' = FALSE
    /\ UNCHANGED <<dqWaiting, queued_bufs, sequence, timerVars>>

-----------------------------------------------------------------------------
(* dummy_video_timer_func()                                                *)

\* Faulty variant: list_del() is forgotten.
list_del_Forgotten == queued_bufs

list_del == Tail(queued_bufs)

\* Faulty variant: return instead of "goto resched" on an empty list.
AfterEmpty_Return == "idle"

AfterEmpty == "resched"

\* The timer expires; under queued_bufs_slock the callback takes the oldest
\* buffer, or goes straight to resched when there is none.
TimerPop ==
    /\ timerArmed /\ timerPc = "idle"
    /\ timerArmed' = FALSE
    /\ IF queued_bufs = <<>>
       THEN /\ timerPc' = AfterEmpty
            /\ UNCHANGED <<timerBuf, queued_bufs>>
       ELSE /\ timerPc' = "fill"
            /\ timerBuf' = Head(queued_bufs)
            /\ queued_bufs' = list_del
    /\ UNCHANGED <<bufVars, vb2Vars, stopVars, sequence>>

\* memcpy() of the frame, with no lock held.  vmalloc memory is always
\* mapped, so the test of vaddr succeeds.
TimerFill ==
    /\ timerPc = "fill"
    /\ bufFrame' = [bufFrame EXCEPT ![timerBuf] = FrameIndex(sequence)]
    /\ timerPc' = "stamp"
    /\ UNCHANGED <<bufState, bufSize, bufSeq, vb2Vars, stopVars, queued_bufs,
                   sequence, timerArmed, timerBuf>>

\* Faulty variant: the counter is wider than the number in the buffer.
NextSequence_Wider == sequence + 1

NextSequence == (sequence + 1) % SeqLimit

\* Faulty variant: ++dv->sequence.
Stamp_PreIncrement == NextSequence

Stamp == sequence

\* buf->vb.sequence = dv->sequence++
TimerStamp ==
    /\ timerPc = "stamp"
    /\ bufSeq' = [bufSeq EXCEPT ![timerBuf] = Stamp]
    /\ sequence' = NextSequence
    /\ timerPc' = "complete"
    /\ UNCHANGED <<bufState, bufSize, bufFrame, vb2Vars, stopVars,
                   queued_bufs, timerArmed, timerBuf>>

\* Faulty variant: the buffer is never handed back.
TimerComplete_NoDone ==
    /\ timerPc = "complete"
    /\ timerPc' = "resched"
    /\ timerBuf' = NoBuffer
    /\ UNCHANGED <<bufVars, vb2Vars, stopVars, queued_bufs, sequence,
                   timerArmed>>

\* vb2_buffer_done(VB2_BUF_STATE_DONE)
TimerComplete ==
    /\ timerPc = "complete"
    /\ bufState' = [bufState EXCEPT ![timerBuf] = "DONE"]
    /\ doneList' = Append(doneList, timerBuf)
    /\ timerPc' = "resched"
    /\ timerBuf' = NoBuffer
    /\ UNCHANGED <<bufSize, bufSeq, bufFrame, pending, streaming, dqWaiting,
                   stopVars, queued_bufs, sequence, timerArmed>>

TimerResched ==
    /\ timerPc = "resched"
    /\ timerArmed' = TRUE
    /\ timerPc' = "idle"
    /\ UNCHANGED <<bufVars, vb2Vars, stopVars, queued_bufs, sequence, timerBuf>>

-----------------------------------------------------------------------------
\* Static storage is zeroed and dummy_video_drv_register() sets up an empty
\* list and an idle timer.
Init ==
    /\ bufState = [b \in Buffers |-> "UNALLOCATED"]
    /\ bufSize = [b \in Buffers |-> 0]
    /\ bufSeq = [b \in Buffers |-> 0]
    /\ bufFrame = [b \in Buffers |-> -1]
    /\ pending = <<>> /\ doneList = <<>>
    /\ streaming = FALSE /\ dqWaiting = FALSE
    /\ stopPc = "idle" /\ closing = FALSE
    /\ queued_bufs = <<>> /\ sequence = 0
    /\ timerArmed = FALSE /\ timerPc = "idle" /\ timerBuf = NoBuffer

TimerNext ==
    \/ TimerPop \/ TimerFill \/ TimerStamp \/ TimerComplete \/ TimerResched

StopNext == StopTimer \/ StopDrain \/ StopDrained \/ StopFinish

AppNext ==
    \/ \E new \in SUBSET Buffers : Reqbufs(new)
    \/ \E new \in SUBSET Buffers, size \in Sizes : CreateBufs(new, size)
    \/ \E b \in Buffers : PrepareBuf(b) \/ Qbuf(b)
    \/ StreamOn
    \/ Dqbuf \/ DqbufWait \/ DqbufWake
    \/ \E stopped \in BOOLEAN : DqbufGiveUp(stopped)
    \/ \E close \in BOOLEAN : CancelIdle(close) \/ StopBegin(close)

Next == AppNext \/ StopNext \/ TimerNext

Spec == Init /\ [][Next]_vars

\* An armed timer fires and its callback runs to the end; a stop in progress
\* goes on.  timer_delete_sync() retries until it finds the callback idle,
\* which happens between any two of its periods: strong fairness.  A woken
\* sleeper gets the mutex sooner or later although others take it in
\* between: strong fairness again.
Fairness ==
    /\ WF_vars(TimerNext)
    /\ SF_vars(StopTimer)
    /\ WF_vars(StopDrain) /\ WF_vars(StopDrained) /\ WF_vars(StopFinish)
    /\ SF_vars(DqbufWake) /\ SF_vars(DqbufGiveUp(TRUE))

FairSpec == Spec /\ Fairness
-----------------------------------------------------------------------------
(* Properties                                                              *)

InState(sts) == {b \in Buffers : bufState[b] \in sts}

\* The buffers the driver has: vb2's owned_by_drv_count counts them.
WithDriver == InState({"ACTIVE"})

BufTypes ==
    /\ bufState \in [Buffers -> BufStates]
    /\ bufSize \in [Buffers -> Nat]
    /\ bufSeq \in [Buffers -> 0 .. SeqLimit - 1]
    /\ bufFrame \in [Buffers -> -1 .. FrameCount - 1]

ListTypes ==
    /\ pending \in Seq(Buffers)
    /\ queued_bufs \in Seq(Buffers)
    /\ doneList \in Seq(Buffers)

ControlTypes ==
    /\ streaming \in BOOLEAN /\ dqWaiting \in BOOLEAN
    /\ stopPc \in StopPcs /\ closing \in BOOLEAN
    /\ sequence \in 0 .. SeqLimit - 1
    /\ timerArmed \in BOOLEAN /\ timerPc \in TimerPcs
    /\ timerBuf \in Buffers \cup {NoBuffer}
    /\ timerBuf = NoBuffer => ~TimerHolds

\* Every variable keeps its type; the sequence number of a buffer and the
\* driver's counter stay within an int, the frame index within frames[], and
\* the callback never works on a buffer it has not got.
TypeOK == BufTypes /\ ListTypes /\ ControlTypes

Held == IF TimerHolds THEN {timerBuf} ELSE {}

OwnPending ==
    /\ IsInjective(pending)
    /\ Range(pending) = InState({"QUEUED"})

OwnDriver ==
    /\ IsInjective(queued_bufs)
    /\ Range(queued_bufs) = WithDriver \ Held
    /\ Held \subseteq WithDriver

OwnDone ==
    /\ IsInjective(doneList)
    /\ Range(doneList) = InState({"DONE", "ERROR"})

\* A buffer is in exactly one place, the place its state names: kept by vb2
\* until streaming starts, in queued_bufs, in the hands of the timer
\* callback, or on the done list.  list_del() and list_add_tail() never meet
\* an entry that is already out, or already in.
Ownership == OwnPending /\ OwnDriver /\ OwnDone

\* When stop_streaming() returns the driver holds no buffer (vb2 warns when
\* it does), and once a session is over no callback runs or will run: the
\* memory of the buffers may be freed.
StopIsClean ==
    /\ stopPc = "finish" => WithDriver = {}
    /\ stopPc \in {"drain", "finish"} \/ ~streaming
          => ~timerArmed /\ timerPc = "idle"
    /\ ~streaming => queued_bufs = <<>> /\ doneList = <<>>

\* As long as a session runs, the timer is armed or its callback is about to
\* arm it: going through "no buffer queued" never ends the animation.
TimerAlive ==
    streaming /\ stopPc \in {"idle", "timer"}
        => (timerArmed <=> timerPc = "idle")

\* How the lists, the timer and the stop constrain each other.
Control ==
    /\ stopPc # "idle" => streaming
    /\ streaming => pending = <<>>
    /\ ~streaming => queued_bufs = <<>> /\ doneList = <<>>
    /\ stopPc = "finish" => queued_bufs = <<>>
    /\ timerArmed => timerPc = "idle"
    /\ stopPc \in {"drain", "finish"} \/ ~streaming
          => ~timerArmed /\ timerPc = "idle"
    /\ TimerAlive

\* The inductive invariant: with it one step preserves Ownership, StopIsClean
\* and TimerAlive, which none of them does alone.
Inv == TypeOK /\ Ownership /\ Control

\* The completed frames are numbered without a gap or a repetition up to the
\* one before dv->sequence, whatever the callback is in the middle of.
NumberedInOrder ==
    LET s == IF timerPc = "complete" THEN Append(doneList, timerBuf)
             ELSE doneList
    IN  stopPc \in {"idle", "timer"} =>
          \A i \in DOMAIN s :
             bufSeq[s[i]] = (sequence + i - Len(s) - 1) % SeqLimit

\* What queue_setup() lets vb2 allocate, buf_prepare() accepts: no buffer is
\* handed out that can never be queued.
AllocatedIsQueueable == \A b \in Allocated : buf_prepare(b)

\* Consecutive completed frames are consecutive pictures of the animation,
\* which starts over after the last one.
FramesLoop ==
    stopPc \in {"idle", "timer"} =>
      \A i \in 1 .. Len(doneList) - 1 :
         bufFrame[doneList[i + 1]] = (bufFrame[doneList[i]] + 1) % FrameCount

\* A buffer given to the driver is eventually filled, or cancelled.
CaptureProgress ==
    \A b \in Buffers : bufState[b] = "ACTIVE" ~> bufState[b] # "ACTIVE"

\* STREAMOFF and close() return: timer_delete_sync() is not kept spinning by
\* a callback that re-arms itself, and the drain loop ends.
StopCompletes == stopPc # "idle" ~> stopPc = "idle"

\* A thread asleep in DQBUF while the driver has a buffer to fill is served,
\* unless the session is being stopped.
WaiterServed ==
    dqWaiting /\ WithDriver # {} ~> ~dqWaiting \/ stopPc # "idle"

-----------------------------------------------------------------------------
(* The driver implements the abstract capture queue.  A buffer the callback *)
(* has popped, or stop_streaming() has already put on the done list in      *)
(* error, still counts as submitted: the application sees the fill when     *)
(* vb2_buffer_done() runs and the cancellation when STREAMOFF returns.      *)

Failed(b) == bufState[b] = "ERROR"

\* n buffers were completed before the first that is there in error.
Split(n) == \A i \in DOMAIN doneList : Failed(doneList[i]) <=> i > n

Completed == CHOOSE n \in 0 .. Len(doneList) : Split(n)

AbsQueue ==
    SubSeq(doneList, Completed + 1, Len(doneList))
      \o (IF TimerHolds THEN <<timerBuf>> ELSE <<>>)
      \o queued_bufs \o pending

AbsDone ==
    [i \in 1 .. Completed |->
        [buf |-> doneList[i], seq |-> bufSeq[doneList[i]],
         frame |-> bufFrame[doneList[i]]]]

AbsNext == IF timerPc = "complete" THEN bufSeq[timerBuf] ELSE sequence

Capture == INSTANCE CaptureQueue WITH
    queue <- AbsQueue,
    done <- AbsDone,
    next <- AbsNext,
    FrameOf <- [s \in 0 .. SeqLimit - 1 |-> FrameIndex(s)]

\* Buffers are filled once each, in the order queued, with consecutive
\* numbers from 0 and the picture each number calls for, and a running
\* session keeps filling them.
CaptureRefined == Capture!Spec
=============================================================================
