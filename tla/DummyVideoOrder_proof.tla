------------------------ MODULE DummyVideoOrder_proof ------------------------
(***************************************************************************)
(* Completed frames are numbered in order, and what may be allocated may   *)
(* be queued, for any number of buffers and any width of the counter; and  *)
(* step by step the driver does what CaptureQueue promises.                *)
(***************************************************************************)
EXTENDS DummyVideo_proof, SequenceTheorems

-----------------------------------------------------------------------------
(* Counting modulo n                                                       *)

\* Quotient and remainder.
LEMMA Division ==
    ASSUME NEW x \in Int, NEW n \in Nat \ {0}
    PROVE  /\ x \div n \in Int /\ x % n \in 0 .. n - 1
           /\ x % n = x - n * (x \div n)
  OBVIOUS

\* There is only one remainder.
LEMMA Remainder ==
    ASSUME NEW x \in Int, NEW n \in Nat \ {0}, NEW q \in Int,
           NEW r \in 0 .. n - 1, x = n * q + r
    PROVE  x % n = r
  OBVIOUS

\* Going round once changes nothing.
LEMMA ModRound ==
    ASSUME NEW x \in Int, NEW n \in Nat \ {0}
    PROVE  (x + n) % n = x % n
  <1> DEFINE q == x \div n
             r == x % n
  <1>1. q \in Int /\ r \in 0 .. n - 1 /\ r = x - n * q
    BY Division
  <1> HIDE DEF q, r
  <1>2. n * q \in Int /\ n * (q + 1) = n * q + n
    BY <1>1
  <1> DEFINE y == x + n
             p == q + 1
  <1>3. y \in Int /\ p \in Int /\ y = n * p + r
    BY <1>1, <1>2
  <1> HIDE DEF y, p
  <1>4. y % n = r
    BY <1>1, <1>3, Remainder
  <1> QED
    BY <1>4 DEF r, y

\* A number in range is its own remainder.
LEMMA ModSame ==
    ASSUME NEW n \in Nat \ {0}, NEW x \in 0 .. n - 1
    PROVE  x % n = x
  OBVIOUS

\* Counting on by one, with the wrap, and taking one off again.
LEMMA CountOn ==
    ASSUME NEW n \in Nat \ {0}, NEW s \in 0 .. n - 1, NEW d \in Int
    PROVE  (((s + 1) % n) + (d - 1)) % n = (s + d) % n
  <1>1. CASE s + 1 < n
    <2>1. (s + 1) % n = s + 1
      BY <1>1, ModSame
    <2> QED
      BY <2>1
  <1>2. CASE s + 1 = n
    <2>1. (s + 1) % n = 0
      <3>1. n % n = 0
        OBVIOUS
      <3> QED
        BY <1>2, <3>1
    <2>2. (d - 1 + n) % n = (d - 1) % n
      <3> DEFINE x == d - 1
      <3>1. x \in Int
        OBVIOUS
      <3> HIDE DEF x
      <3>2. (x + n) % n = x % n
        BY <3>1, ModRound
      <3> QED
        BY <3>2 DEF x
    <2> QED
      BY <1>2, <2>1, <2>2
  <1> QED
    BY <1>1, <1>2

-----------------------------------------------------------------------------
(* Lists of numbered frames                                                *)

\* The buffers of list bs carry, in seq, the numbers before next.
Numbered(bs, seq, next) ==
    \A i \in DOMAIN bs : seq[bs[i]] = (next + i - Len(bs) - 1) % SeqLimit

LEMMA NumberedEmpty ==
    ASSUME NEW f, NEW q
    PROVE  Numbered(<<>>, f, q)
  BY DEF Numbered

LEMMA NumberedTail ==
    ASSUME NEW s \in Seq(Buffers), s # <<>>, NEW f, NEW q \in Int,
           Numbered(s, f, q)
    PROVE  Numbered(Tail(s), f, q)
  <1>1. /\ Len(s) \in Nat \ {0} /\ DOMAIN s = 1 .. Len(s)
        /\ Len(Tail(s)) = Len(s) - 1 /\ DOMAIN Tail(s) = 1 .. Len(s) - 1
    OBVIOUS
  <1>2. ASSUME NEW i \in DOMAIN Tail(s)
        PROVE  f[Tail(s)[i]] = (q + i - Len(Tail(s)) - 1) % SeqLimit
    <2>1. i + 1 \in DOMAIN s /\ Tail(s)[i] = s[i + 1]
      BY <1>1
    <2>2. q + (i + 1) - Len(s) - 1 = q + i - Len(Tail(s)) - 1
      BY <1>1
    <2> QED
      BY <2>1, <2>2 DEF Numbered
  <1> QED
    BY <1>2 DEF Numbered

\* Renumbering a buffer that is not in the list.
LEMMA NumberedElsewhere ==
    ASSUME NEW s \in Seq(Buffers), NEW f \in [Buffers -> Nat], NEW q, NEW v,
           NEW b \in Buffers, b \notin Range(s), Numbered(s, f, q)
    PROVE  Numbered(s, [f EXCEPT ![b] = v], q)
  <1>1. \A i \in DOMAIN s : s[i] \in Buffers /\ s[i] # b
    BY DEF Range
  <1> QED
    BY <1>1 DEF Numbered

\* One more frame.
LEMMA NumberedAppend ==
    ASSUME NEW s \in Seq(Buffers), NEW f \in [Buffers -> Nat],
           NEW q \in 0 .. SeqLimit - 1,
           NEW b \in Buffers, b \notin Range(s), Numbered(s, f, q)
    PROVE  Numbered(Append(s, b), [f EXCEPT ![b] = q], (q + 1) % SeqLimit)
  <1> USE WidthAssumption
  <1> DEFINE t == Append(s, b)
             g == [f EXCEPT ![b] = q]
             n == (q + 1) % SeqLimit
  <1>1. /\ Len(s) \in Nat /\ DOMAIN s = 1 .. Len(s)
        /\ Len(t) = Len(s) + 1 /\ DOMAIN t = 1 .. Len(s) + 1
        /\ t[Len(s) + 1] = b
        /\ \A i \in DOMAIN s : t[i] = s[i] /\ s[i] \in Buffers
    OBVIOUS
  <1>2. \A d \in Int : (n + (d - 1)) % SeqLimit = (q + d) % SeqLimit
    BY CountOn
  <1>3. n \in Int
    BY ModRange
  <1> HIDE DEF t, n
  <1>4. ASSUME NEW i \in DOMAIN t
        PROVE  g[t[i]] = (n + i - Len(t) - 1) % SeqLimit
    <2> DEFINE d == i - Len(s) - 1
    <2>1. d \in Int /\ n + (d - 1) = n + i - Len(t) - 1
          /\ q + d = q + i - Len(s) - 1
      BY <1>1, <1>3
    <2>2. (n + (d - 1)) % SeqLimit = (q + d) % SeqLimit
      BY <1>2, <2>1
    <2>3. CASE i = Len(s) + 1
      <3>1. q + d = q /\ g[t[i]] = q
        BY <1>1, <2>3
      <3> QED
        BY <2>1, <2>2, <3>1, ModSame
    <2>4. CASE i # Len(s) + 1
      <3>1. i \in DOMAIN s
        BY <1>1, <2>4
      <3>2. s[i] # b /\ t[i] = s[i] /\ s[i] \in Buffers
        BY <1>1, <3>1 DEF Range
      <3>3. g[t[i]] = f[s[i]]
        BY <3>2
      <3> QED
        BY <2>1, <2>2, <3>1, <3>3 DEF Numbered
    <2> QED
      BY <2>3, <2>4
  <1> QED
    BY <1>4 DEF Numbered, t, n

-----------------------------------------------------------------------------
(* NumberedInOrder                                                         *)

\* The frames completed, with the one that is just being handed back.
Frames ==
    IF timerPc = "complete" THEN Append(doneList, timerBuf) ELSE doneList

InSession == stopPc \in {"idle", "timer"}

Ordered == InSession => Numbered(Frames, bufSeq, sequence)

LEMMA OrderedMeaning == Ordered <=> NumberedInOrder
  BY DEF Ordered, NumberedInOrder, Numbered, Frames, InSession

\* The frames are buffers, and none of them is anywhere else.
LEMMA FramesTypes ==
    ASSUME Inv
    PROVE  /\ Frames \in Seq(Buffers)
           /\ bufSeq \in [Buffers -> Nat]
           /\ sequence \in 0 .. SeqLimit - 1 /\ sequence \in Int
           /\ \A b \in Buffers :
                 bufState[b] \notin {"DONE", "ERROR", "ACTIVE"} => b \notin Range(Frames)
           /\ timerPc = "stamp" => /\ timerBuf \in Buffers
                                   /\ timerBuf \notin Range(doneList)
  <1>1. doneList \in Seq(Buffers) /\ bufSeq \in [Buffers -> 0 .. SeqLimit - 1]
        /\ sequence \in 0 .. SeqLimit - 1
    BY DEF Inv, TypeOK, BufTypes, ListTypes, ControlTypes
  <1>2. TimerHolds => timerBuf \in Buffers /\ bufState[timerBuf] = "ACTIVE"
    <2> SUFFICES ASSUME TimerHolds
                 PROVE  timerBuf \in Buffers /\ bufState[timerBuf] = "ACTIVE"
      OBVIOUS
    <2>1. timerBuf \in WithDriver
      BY DEF Inv, Ownership, OwnDriver, Held
    <2> QED
      BY <2>1 DEF WithDriver, InState
  <1>3. \A b \in Buffers :
           b \in Range(doneList) => bufState[b] \in {"DONE", "ERROR"}
    BY DEF Inv, Ownership, OwnDone, InState
  <1>4. ASSUME timerPc = "complete"
        PROVE  /\ timerBuf \in Buffers /\ bufState[timerBuf] = "ACTIVE"
               /\ timerBuf \notin Range(doneList)
    BY <1>2, <1>3, <1>4 DEF TimerHolds
  <1>5. ASSUME timerPc = "stamp"
        PROVE  timerBuf \in Buffers /\ timerBuf \notin Range(doneList)
    BY <1>2, <1>3, <1>5 DEF TimerHolds
  <1>6. Frames \in Seq(Buffers)
    BY <1>1, <1>4 DEF Frames
  <1>7. ASSUME NEW b \in Buffers, bufState[b] \notin {"DONE", "ERROR", "ACTIVE"}
        PROVE  b \notin Range(Frames)
    <2>1. b \notin Range(doneList)
      BY <1>3, <1>7
    <2>2. CASE timerPc = "complete"
      <3>1. Range(Frames) \subseteq Range(doneList) \cup {timerBuf}
        BY <1>1, <1>4, <2>2 DEF Frames, Range
      <3>2. b # timerBuf
        BY <1>4, <1>7, <2>2
      <3> QED
        BY <2>1, <3>1, <3>2
    <2>3. CASE timerPc # "complete"
      BY <2>1, <2>3 DEF Frames
    <2> QED
      BY <2>2, <2>3
  <1>8. 0 .. SeqLimit - 1 \subseteq Nat
    BY WidthAssumption
  <1> QED
    BY <1>1, <1>5, <1>6, <1>7, <1>8

\* Collecting a frame takes the first of Frames.
LEMMA TakeFirst ==
    ASSUME NEW d \in Seq(Buffers), d # <<>>, NEW b \in Buffers
    PROVE  /\ Append(d, b) # <<>>
           /\ Tail(Append(d, b)) = Append(Tail(d), b)
  OBVIOUS

LEMMA OrderedInit == Init => Ordered
  BY NumberedEmpty DEF Init, Ordered, Frames

LEMMA OrderedTake == Inv /\ Ordered /\ doneList # <<>> /\ TakeDone => Ordered'
  <1> SUFFICES ASSUME Inv, Ordered, doneList # <<>>, TakeDone, InSession
               PROVE  Numbered(Frames', bufSeq, sequence)
    BY DEF Ordered, TakeDone, stopVars, InSession
  <1>1. doneList \in Seq(Buffers) /\ (timerPc = "complete" => timerBuf \in Buffers)
    BY HeldIsBuffer DEF Inv, TypeOK, ListTypes, TimerHolds
  <1>2. Frames' = Tail(Frames) /\ Frames # <<>>
    BY <1>1, TakeFirst DEF Frames, TakeDone, timerVars
  <1> QED
    BY <1>2, FramesTypes, NumberedTail DEF Ordered

\* Where no session is left there are no frames.
LEMMA OrderedNone ==
    ASSUME Inv, doneList' = <<>>, timerPc # "complete", UNCHANGED timerPc
    PROVE  Ordered'
  <1>1. Frames' = <<>>
    BY DEF Frames
  <1> QED
    BY <1>1, NumberedEmpty DEF Ordered

\* Steps that touch neither frames nor numbers.
LEMMA OrderedStutter ==
    ASSUME Ordered, UNCHANGED <<doneList, bufSeq, sequence>>,
           InSession' => InSession, Frames' = Frames
    PROVE  Ordered'
  BY DEF Ordered

LEMMA OrderedStep == Inv /\ Ordered /\ [Next]_vars => Ordered'
  <1> SUFFICES ASSUME Inv, Ordered, [Next]_vars PROVE Ordered'
    OBVIOUS
  <1>1. ASSUME NEW new \in SUBSET Buffers, Reqbufs(new) PROVE Ordered'
    <2>1. doneList = <<>> /\ timerPc = "idle"
      BY <1>1 DEF Reqbufs, Inv, Control
    <2> QED
      BY <1>1, <2>1, OrderedNone DEF Reqbufs, timerVars
  <1>2. ASSUME NEW new \in SUBSET Buffers, NEW size \in Sizes,
               CreateBufs(new, size)
        PROVE  Ordered'
    BY <1>2, OrderedStutter
    DEF CreateBufs, vb2Vars, stopVars, timerVars, Frames, InSession
  <1>3. ASSUME NEW b \in Buffers, PrepareBuf(b) PROVE Ordered'
    BY <1>3, OrderedStutter
    DEF PrepareBuf, vb2Vars, stopVars, timerVars, Frames, InSession
  <1>4. ASSUME NEW b \in Buffers, Qbuf(b) PROVE Ordered'
    <2>1. bufState[b] \in {"DEQUEUED", "PREPARED"}
      BY <1>4 DEF Qbuf
    <2>2. b \notin Range(Frames)
      BY <2>1, FramesTypes
    <2>3. /\ Frames' = Frames /\ sequence' = sequence /\ InSession' = InSession
          /\ bufSeq' = [bufSeq EXCEPT ![b] = 0]
      BY <1>4 DEF Qbuf, stopVars, timerVars, Frames, InSession
    <2> QED
      BY <2>2, <2>3, FramesTypes, NumberedElsewhere DEF Ordered
  <1>5. CASE StreamOn
    <2>1. doneList = <<>> /\ timerPc = "idle"
      BY <1>5 DEF StreamOn, Inv, Control
    <2> QED
      BY <1>5, <2>1, OrderedNone DEF StreamOn
  <1>6. CASE Dqbuf
    BY <1>6, OrderedTake DEF Dqbuf
  <1>7. CASE DqbufWait
    BY <1>7, OrderedStutter
    DEF DqbufWait, bufVars, stopVars, timerVars, Frames, InSession
  <1>8. CASE DqbufWake
    BY <1>8, OrderedTake DEF DqbufWake
  <1>9. ASSUME NEW stopped \in BOOLEAN, DqbufGiveUp(stopped) PROVE Ordered'
    BY <1>9, OrderedStutter
    DEF DqbufGiveUp, bufVars, stopVars, timerVars, Frames, InSession
  <1>10. ASSUME NEW close \in BOOLEAN, CancelIdle(close) PROVE Ordered'
    <2>1. timerPc = "idle"
      BY <1>10 DEF CancelIdle, Inv, Control
    <2> QED
      BY <1>10, <2>1, OrderedNone DEF CancelIdle, CancelQueue, timerVars
  <1>11. ASSUME NEW close \in BOOLEAN, StopBegin(close) PROVE Ordered'
    BY <1>11, OrderedStutter
    DEF StopBegin, QueueLockFree, bufVars, vb2Vars, timerVars, Frames, InSession
  <1>12. CASE StopTimer \/ StopDrain \/ StopDrained
    <2>1. ~InSession'
      BY <1>12 DEF StopTimer, StopDrain, StopDrained, stopVars, InSession
    <2> QED
      BY <2>1 DEF Ordered
  <1>13. CASE StopFinish
    <2>1. timerPc = "idle"
      BY <1>13 DEF StopFinish, Inv, Control
    <2> QED
      BY <1>13, <2>1, OrderedNone DEF StopFinish, CancelQueue, timerVars
  <1>14. CASE TimerPop
    <2>1. timerPc = "idle" /\ timerPc' # "complete"
      BY <1>14 DEF TimerPop, AfterEmpty
    <2> QED
      BY <1>14, <2>1, OrderedStutter
      DEF TimerPop, bufVars, vb2Vars, stopVars, Frames, InSession
  <1>15. CASE TimerFill
    BY <1>15, OrderedStutter DEF TimerFill, vb2Vars, stopVars, Frames, InSession
  <1>16. CASE TimerStamp
    <2>1. /\ Frames = doneList /\ Frames' = Append(doneList, timerBuf)
          /\ InSession' = InSession
          /\ bufSeq' = [bufSeq EXCEPT ![timerBuf] = sequence]
          /\ sequence' = (sequence + 1) % SeqLimit
      BY <1>16
      DEF TimerStamp, Stamp, NextSequence, vb2Vars, stopVars, Frames, InSession
    <2>2. timerBuf \in Buffers /\ timerBuf \notin Range(doneList)
      BY <1>16, FramesTypes DEF TimerStamp
    <2> QED
      BY <2>1, <2>2, FramesTypes, NumberedAppend DEF Ordered
  <1>17. CASE TimerComplete
    <2>1. /\ Frames' = Frames /\ InSession' = InSession
          /\ UNCHANGED <<bufSeq, sequence>>
      BY <1>17 DEF TimerComplete, stopVars, Frames, InSession
    <2> QED
      BY <2>1 DEF Ordered
  <1>18. CASE TimerResched
    BY <1>18, OrderedStutter
    DEF TimerResched, bufVars, vb2Vars, stopVars, Frames, InSession
  <1>19. CASE UNCHANGED vars
    BY <1>19, OrderedStutter
    DEF vars, bufVars, vb2Vars, stopVars, timerVars, Frames, InSession
  <1> QED
    BY <1>1, <1>2, <1>3, <1>4, <1>5, <1>6, <1>7, <1>8, <1>9, <1>10, <1>11,
       <1>12, <1>13, <1>14, <1>15, <1>16, <1>17, <1>18, <1>19
    DEF Next, AppNext, StopNext, TimerNext

\* The frames an application collects are numbered without a gap or a
\* repetition, whatever the callback is in the middle of and however often
\* the counter has wrapped.
THEOREM NumberedInOrderHolds == Spec => []NumberedInOrder
  <1>1. Init => Inv /\ Ordered
    BY InvInit, OrderedInit
  <1>2. (Inv /\ Ordered) /\ [Next]_vars => (Inv /\ Ordered)'
    BY TypeStep, OwnershipStep, ControlStep, OrderedStep DEF Inv
  <1>3. Inv /\ Ordered => NumberedInOrder
    BY OrderedMeaning
  <1> QED
    BY <1>1, <1>2, <1>3, PTL DEF Spec

-----------------------------------------------------------------------------
(* AllocatedIsQueueable                                                    *)

\* A size that queue_setup() does not refuse is large enough.
LEMMA SetupSize ==
    ASSUME NEW n \in Nat, NEW size \in Nat, queue_setup(n, size) # 0
    PROVE  queue_setup(n, size) >= DUMMY_VIDEO_PLANE_SIZE
  BY DEF queue_setup, DUMMY_VIDEO_PLANE_SIZE

LEMMA SetupOwnSize == queue_setup(0, 0) = DUMMY_VIDEO_PLANE_SIZE
  BY DEF queue_setup

\* Steps that allocate no buffer and change no size.
LEMMA QueueableStutter ==
    ASSUME AllocatedIsQueueable, UNCHANGED bufSize,
           \A b \in Buffers : bufState'[b] = "UNALLOCATED" \/ b \in Allocated
    PROVE  AllocatedIsQueueable'
  BY DEF AllocatedIsQueueable, Allocated, buf_prepare

LEMMA QueueableStep ==
    Inv /\ AllocatedIsQueueable /\ [Next]_vars => AllocatedIsQueueable'
  <1> SUFFICES ASSUME Inv, AllocatedIsQueueable, [Next]_vars
               PROVE  AllocatedIsQueueable'
    OBVIOUS
  <1>1. bufState \in [Buffers -> BufStates] /\ bufSize \in [Buffers -> Nat]
    BY DEF Inv, TypeOK, BufTypes
  <1>2. ASSUME NEW new \in SUBSET Buffers, Reqbufs(new)
        PROVE  AllocatedIsQueueable'
    BY <1>2, SetupOwnSize
    DEF Reqbufs, AllocatedIsQueueable, Allocated, buf_prepare,
        DUMMY_VIDEO_PLANE_SIZE
  <1>3. ASSUME NEW new \in SUBSET Buffers, NEW size \in Sizes,
               CreateBufs(new, size)
        PROVE  AllocatedIsQueueable'
    <2>1. queue_setup(1, size) >= DUMMY_VIDEO_PLANE_SIZE
      BY <1>3, SizeAssumption, SetupSize DEF CreateBufs
    <2> QED
      BY <1>3, <2>1
      DEF CreateBufs, AllocatedIsQueueable, Allocated, buf_prepare
  <1>4. ASSUME NEW freed \in BOOLEAN, CancelQueue(freed)
        PROVE  AllocatedIsQueueable'
    BY <1>4 DEF CancelQueue, AllocatedIsQueueable, Allocated, buf_prepare
  <1>5. ASSUME NEW b \in Buffers, bufState[b] # "UNALLOCATED",
               NEW st, bufState' = [bufState EXCEPT ![b] = st], UNCHANGED bufSize
        PROVE  AllocatedIsQueueable'
    BY <1>1, <1>5, QueueableStutter DEF Allocated
  <1>6. CASE UNCHANGED <<bufState, bufSize>>
    BY <1>6, QueueableStutter DEF Allocated
  <1>7. ASSUME NEW b \in Buffers, PrepareBuf(b) PROVE AllocatedIsQueueable'
    BY <1>5, <1>7 DEF PrepareBuf
  <1>8. ASSUME NEW b \in Buffers, Qbuf(b) PROVE AllocatedIsQueueable'
    <2>1. bufState[b] # "UNALLOCATED" /\ UNCHANGED bufSize
      BY <1>8 DEF Qbuf
    <2>2. \/ bufState' = [bufState EXCEPT ![b] = "ACTIVE"]
          \/ bufState' = [bufState EXCEPT ![b] = "QUEUED"]
      BY <1>8 DEF Qbuf
    <2> QED
      BY <1>5, <2>1, <2>2
  <1>9. CASE StreamOn
    BY <1>1, <1>9, QueueableStutter DEF StreamOn, Allocated
  <1>10. ASSUME doneList # <<>>, TakeDone PROVE AllocatedIsQueueable'
    <2>1. Head(doneList) \in Range(doneList)
      BY <1>10, TailList DEF Inv, TypeOK, ListTypes, Ownership, OwnDone
    <2>2. Head(doneList) \in Buffers /\ bufState[Head(doneList)] # "UNALLOCATED"
      BY <2>1 DEF Inv, Ownership, OwnDone, InState
    <2> QED
      BY <1>5, <1>10, <2>2 DEF TakeDone
  <1>11. CASE StopDrain
    <2>1. Head(queued_bufs) \in Range(queued_bufs)
      BY <1>11, TailList DEF StopDrain, Inv, TypeOK, ListTypes, Ownership, OwnDriver
    <2>2. Head(queued_bufs) \in Buffers
          /\ bufState[Head(queued_bufs)] # "UNALLOCATED"
      BY <2>1 DEF Inv, Ownership, OwnDriver, WithDriver, InState
    <2> QED
      BY <1>5, <1>11, <2>2 DEF StopDrain
  <1>12. CASE TimerComplete
    <2>1. timerBuf \in Buffers /\ bufState[timerBuf] # "UNALLOCATED"
      BY <1>12
      DEF TimerComplete, TimerHolds, Held, Inv, Ownership, OwnDriver, WithDriver,
          InState
    <2> QED
      BY <1>5, <1>12, <2>1 DEF TimerComplete
  <1>13. ASSUME NEW close \in BOOLEAN, CancelIdle(close) \/ StopBegin(close)
         PROVE  AllocatedIsQueueable'
    BY <1>4, <1>6, <1>13 DEF CancelIdle, StopBegin, bufVars
  <1>14. CASE StopFinish
    <2>1. closing \in BOOLEAN
      BY DEF Inv, TypeOK, ControlTypes
    <2> QED
      BY <1>4, <1>14, <2>1 DEF StopFinish
  <1>15. ASSUME NEW stopped \in BOOLEAN, DqbufGiveUp(stopped)
         PROVE  AllocatedIsQueueable'
    BY <1>6, <1>15 DEF DqbufGiveUp, bufVars
  <1>16. CASE Dqbuf \/ DqbufWake
    BY <1>10, <1>16 DEF Dqbuf, DqbufWake
  <1>17. CASE DqbufWait \/ StopTimer \/ StopDrained \/ TimerPop \/ TimerFill
              \/ TimerStamp \/ TimerResched \/ UNCHANGED vars
    BY <1>6, <1>17
    DEF DqbufWait, StopTimer, StopDrained, TimerPop, TimerFill, TimerStamp,
        TimerResched, vars, bufVars
  <1> QED
    BY <1>2, <1>3, <1>7, <1>8, <1>9, <1>11, <1>12, <1>13, <1>14, <1>15, <1>16,
       <1>17
    DEF Next, AppNext, StopNext, TimerNext

\* What queue_setup() lets an application allocate, buf_prepare() accepts, and
\* a frame fits into it, for any sizes asked for.
THEOREM AllocatedIsQueueableHolds == Spec => []AllocatedIsQueueable
  <1>1. Init => Inv /\ AllocatedIsQueueable
    BY InvInit DEF Init, AllocatedIsQueueable, Allocated
  <1>2. (Inv /\ AllocatedIsQueueable) /\ [Next]_vars
           => (Inv /\ AllocatedIsQueueable)'
    BY TypeStep, OwnershipStep, ControlStep, QueueableStep DEF Inv
  <1> QED
    BY <1>1, <1>2, PTL DEF Spec

-----------------------------------------------------------------------------
(* The abstract capture queue                                              *)

\* What the callback has done to the buffer it holds: the picture is that of
\* the number the buffer gets, and the counter is one ahead of it then.
Halfway ==
    /\ timerPc = "stamp" => bufFrame[timerBuf] = FrameIndex(sequence)
    /\ timerPc = "complete" =>
          /\ bufFrame[timerBuf] = FrameIndex(bufSeq[timerBuf])
          /\ sequence = (bufSeq[timerBuf] + 1) % SeqLimit

\* Nothing is on the done list in error while a session runs, and later the
\* buffers in error come after the others.
ErrorsLast ==
    /\ InSession => Split(Len(doneList))
    /\ \E n \in 0 .. Len(doneList) : Split(n)

RInv == Inv /\ Halfway /\ ErrorsLast

LEMMA HalfwayStep == Inv /\ Halfway /\ [Next]_vars => Halfway'
  <1> SUFFICES ASSUME Inv, Halfway, [Next]_vars PROVE Halfway'
    OBVIOUS
  <1>1. /\ bufSeq \in [Buffers -> 0 .. SeqLimit - 1]
        /\ bufFrame \in [Buffers -> -1 .. FrameCount - 1]
        /\ TimerHolds => timerBuf \in Buffers /\ bufState[timerBuf] = "ACTIVE"
    <2>1. TimerHolds => timerBuf \in WithDriver
      BY DEF Inv, Ownership, OwnDriver, Held
    <2> QED
      BY <2>1 DEF Inv, TypeOK, BufTypes, WithDriver, InState
  <1>2. CASE timerPc' \notin {"stamp", "complete"}
    BY <1>2 DEF Halfway
  <1>3. CASE UNCHANGED <<timerPc, timerBuf, bufSeq, bufFrame, sequence>>
    BY <1>3 DEF Halfway
  <1>4. ASSUME NEW b \in Buffers, Qbuf(b) PROVE Halfway'
    <2>1. bufState[b] \in {"DEQUEUED", "PREPARED"}
      BY <1>4 DEF Qbuf
    <2>2. TimerHolds => timerBuf \in Buffers /\ timerBuf # b
      BY <1>1, <2>1
    <2>3. /\ bufSeq' = [bufSeq EXCEPT ![b] = 0]
          /\ UNCHANGED <<timerPc, timerBuf, bufFrame, sequence>>
      BY <1>4 DEF Qbuf, timerVars
    <2>4. TimerHolds => bufSeq'[timerBuf] = bufSeq[timerBuf]
      BY <1>1, <2>2, <2>3
    <2> QED
      BY <2>3, <2>4 DEF Halfway, TimerHolds
  <1>5. CASE TimerFill
    <2>1. timerBuf \in Buffers
      BY <1>1, <1>5 DEF TimerFill, TimerHolds
    <2> QED
      BY <1>1, <1>5, <2>1 DEF TimerFill, Halfway
  <1>6. CASE TimerStamp
    <2>1. timerBuf \in Buffers
      BY <1>1, <1>6 DEF TimerStamp, TimerHolds
    <2>2. bufSeq'[timerBuf] = sequence /\ timerBuf' = timerBuf
          /\ bufFrame' = bufFrame /\ timerPc' = "complete"
          /\ sequence' = (sequence + 1) % SeqLimit
      BY <1>1, <1>6, <2>1 DEF TimerStamp, Stamp, NextSequence
    <2>3. bufFrame[timerBuf] = FrameIndex(sequence)
      BY <1>6 DEF TimerStamp, Halfway
    <2> QED
      BY <2>2, <2>3 DEF Halfway
  <1>7. ASSUME NEW new \in SUBSET Buffers, Reqbufs(new) PROVE Halfway'
    BY <1>2, <1>7 DEF Reqbufs, timerVars, Inv, Control
  <1>8. CASE StreamOn
    BY <1>2, <1>8 DEF StreamOn, Inv, Control
  <1>9. ASSUME NEW close \in BOOLEAN, CancelIdle(close) PROVE Halfway'
    BY <1>2, <1>9 DEF CancelIdle, timerVars, Inv, Control
  <1>10. CASE StopFinish
    BY <1>2, <1>10 DEF StopFinish, timerVars, Inv, Control
  <1>11. CASE TimerPop \/ TimerComplete \/ TimerResched
    BY <1>2, <1>11 DEF TimerPop, AfterEmpty, TimerComplete, TimerResched
  <1>12. ASSUME NEW new \in SUBSET Buffers, NEW size \in Sizes,
                CreateBufs(new, size)
         PROVE  Halfway'
    BY <1>3, <1>12 DEF CreateBufs, timerVars
  <1>13. ASSUME NEW b \in Buffers, PrepareBuf(b) PROVE Halfway'
    BY <1>3, <1>13 DEF PrepareBuf, timerVars
  <1>14. CASE Dqbuf \/ DqbufWait \/ DqbufWake
    BY <1>3, <1>14 DEF Dqbuf, DqbufWait, DqbufWake, TakeDone, timerVars, bufVars
  <1>15. ASSUME NEW stopped \in BOOLEAN, DqbufGiveUp(stopped) PROVE Halfway'
    BY <1>3, <1>15 DEF DqbufGiveUp, timerVars, bufVars
  <1>16. ASSUME NEW close \in BOOLEAN, StopBegin(close) PROVE Halfway'
    BY <1>3, <1>16 DEF StopBegin, timerVars, bufVars
  <1>17. CASE StopTimer \/ StopDrain \/ StopDrained
    BY <1>3, <1>17 DEF StopTimer, StopDrain, StopDrained, timerVars, bufVars
  <1>18. CASE UNCHANGED vars
    BY <1>3, <1>18 DEF vars, bufVars, timerVars
  <1> QED
    BY <1>4, <1>5, <1>6, <1>7, <1>8, <1>9, <1>10, <1>11, <1>12, <1>13, <1>14,
       <1>15, <1>16, <1>17, <1>18
    DEF Next, AppNext, StopNext, TimerNext

\* Steps that do not touch what is on the done list.
LEMMA ErrorsStutter ==
    ASSUME ErrorsLast, UNCHANGED doneList, InSession' => InSession,
           \A i \in DOMAIN doneList :
              bufState'[doneList[i]] = "ERROR" <=> bufState[doneList[i]] = "ERROR"
    PROVE  ErrorsLast'
  BY DEF ErrorsLast, Split, Failed

LEMMA ErrorsNone == ASSUME doneList' = <<>> PROVE ErrorsLast'
  <1>1. Split(0)'
    BY DEF Split
  <1> QED
    BY <1>1 DEF ErrorsLast

LEMMA ErrorsTake ==
    Inv /\ ErrorsLast /\ InSession /\ doneList # <<>> /\ TakeDone => ErrorsLast'
  <1> SUFFICES ASSUME Inv, ErrorsLast, InSession, doneList # <<>>, TakeDone
               PROVE  ErrorsLast'
    OBVIOUS
  <1>1. /\ doneList \in Seq(Buffers) /\ IsInjective(doneList)
        /\ bufState \in [Buffers -> BufStates]
        /\ \A i \in DOMAIN doneList : bufState[doneList[i]] # "ERROR"
    BY DEF Inv, TypeOK, BufTypes, ListTypes, Ownership, OwnDone, ErrorsLast,
           Split, Failed
  <1>2. /\ doneList' = Tail(doneList)
        /\ bufState' = [bufState EXCEPT ![Head(doneList)] = "DEQUEUED"]
    BY DEF TakeDone
  <1>3. \A i \in DOMAIN doneList' : bufState'[doneList'[i]] # "ERROR"
    BY <1>1, <1>2
  <1>4. Len(doneList') \in Nat /\ DOMAIN doneList' = 1 .. Len(doneList')
    BY <1>1, <1>2
  <1>5. Split(Len(doneList))'
    BY <1>3, <1>4 DEF Split, Failed
  <1> QED
    BY <1>4, <1>5 DEF ErrorsLast

LEMMA ErrorsStep == Inv /\ ErrorsLast /\ [Next]_vars => ErrorsLast'
  <1> SUFFICES ASSUME Inv, ErrorsLast, [Next]_vars PROVE ErrorsLast'
    OBVIOUS
  <1>1. /\ doneList \in Seq(Buffers) /\ Len(doneList) \in Nat
        /\ DOMAIN doneList = 1 .. Len(doneList)
        /\ bufState \in [Buffers -> BufStates]
        /\ \A i \in DOMAIN doneList : /\ doneList[i] \in Buffers
                                      /\ bufState[doneList[i]] \in {"DONE", "ERROR"}
    BY DEF Inv, TypeOK, BufTypes, ListTypes, Ownership, OwnDone, InState, Range
  <1>2. ASSUME NEW b \in Buffers, bufState[b] \notin {"DONE", "ERROR"}, NEW st,
               bufState' = [bufState EXCEPT ![b] = st],
               UNCHANGED <<doneList, stopPc>>
        PROVE  ErrorsLast'
    BY <1>1, <1>2, ErrorsStutter DEF InSession
  <1>3. CASE UNCHANGED <<bufState, doneList>> /\ (InSession' => InSession)
    BY <1>3, ErrorsStutter
  <1>4. ASSUME NEW new \in SUBSET Buffers, Reqbufs(new) PROVE ErrorsLast'
    BY <1>4, ErrorsNone DEF Reqbufs, Inv, Control
  <1>5. ASSUME NEW new \in SUBSET Buffers, NEW size \in Sizes,
               CreateBufs(new, size)
        PROVE  ErrorsLast'
    <2>1. \A i \in DOMAIN doneList : doneList[i] \notin new
      BY <1>1, <1>5 DEF CreateBufs, Allocated
    <2> QED
      BY <1>1, <1>5, <2>1, ErrorsStutter DEF CreateBufs, vb2Vars, stopVars, InSession
  <1>6. ASSUME NEW b \in Buffers, PrepareBuf(b) PROVE ErrorsLast'
    BY <1>2, <1>6 DEF PrepareBuf, vb2Vars, stopVars
  <1>7. ASSUME NEW b \in Buffers, Qbuf(b) PROVE ErrorsLast'
    <2>1. bufState[b] \notin {"DONE", "ERROR"} /\ UNCHANGED <<doneList, stopPc>>
      BY <1>7 DEF Qbuf, stopVars
    <2>2. \/ bufState' = [bufState EXCEPT ![b] = "ACTIVE"]
          \/ bufState' = [bufState EXCEPT ![b] = "QUEUED"]
      BY <1>7 DEF Qbuf
    <2> QED
      BY <1>2, <2>1, <2>2
  <1>8. CASE StreamOn
    BY <1>8, ErrorsNone DEF StreamOn, Inv, Control
  <1>9. CASE Dqbuf \/ DqbufWake
    BY <1>9, ErrorsTake DEF Dqbuf, DqbufWake, QueueLockFree, InSession
  <1>10. CASE DqbufWait
    BY <1>3, <1>10 DEF DqbufWait, bufVars, stopVars, InSession
  <1>11. ASSUME NEW stopped \in BOOLEAN, DqbufGiveUp(stopped) PROVE ErrorsLast'
    BY <1>3, <1>11 DEF DqbufGiveUp, bufVars, stopVars, InSession
  <1>12. ASSUME NEW close \in BOOLEAN, CancelIdle(close) PROVE ErrorsLast'
    BY <1>12, ErrorsNone DEF CancelIdle, CancelQueue
  <1>13. ASSUME NEW close \in BOOLEAN, StopBegin(close) PROVE ErrorsLast'
    BY <1>3, <1>13 DEF StopBegin, QueueLockFree, bufVars, vb2Vars, InSession
  <1>14. CASE StopTimer \/ StopDrained
    BY <1>3, <1>14 DEF StopTimer, StopDrained, bufVars, vb2Vars, InSession
  <1>15. CASE StopDrain
    <2> DEFINE h == Head(queued_bufs)
    <2>1. h \in Range(queued_bufs)
      BY <1>15, TailList DEF StopDrain, Inv, TypeOK, ListTypes, Ownership, OwnDriver
    <2>2. h \in Buffers /\ bufState[h] = "ACTIVE"
      BY <2>1 DEF Inv, Ownership, OwnDriver, WithDriver, InState
    <2>3. /\ bufState' = [bufState EXCEPT ![h] = "ERROR"]
          /\ doneList' = Append(doneList, h) /\ ~InSession'
      BY <1>15 DEF StopDrain, stopVars, InSession
    <2> HIDE DEF h
    <2>4. PICK n \in 0 .. Len(doneList) : Split(n)
      BY DEF ErrorsLast
    <2>5. /\ DOMAIN doneList' = 1 .. Len(doneList) + 1
          /\ Len(doneList') = Len(doneList) + 1
          /\ doneList'[Len(doneList) + 1] = h
          /\ \A i \in DOMAIN doneList : doneList'[i] = doneList[i]
      BY <1>1, <2>2, <2>3
    <2>6. \A i \in DOMAIN doneList : bufState'[doneList[i]] = bufState[doneList[i]]
      BY <1>1, <2>2, <2>3
    <2>7. ASSUME NEW i \in DOMAIN doneList'
          PROVE  bufState'[doneList'[i]] = "ERROR" <=> i > n
      <3>1. CASE i = Len(doneList) + 1
        BY <1>1, <2>2, <2>3, <2>5, <3>1
      <3>2. CASE i # Len(doneList) + 1
        <4>1. i \in DOMAIN doneList
          BY <1>1, <2>5, <3>2
        <4> QED
          BY <2>4, <2>5, <2>6, <4>1 DEF Split, Failed
      <3> QED
        BY <3>1, <3>2
    <2>8. Split(n)'
      BY <2>7 DEF Split, Failed
    <2>9. n \in 0 .. Len(doneList')
      BY <1>1, <2>5
    <2> QED
      BY <2>3, <2>8, <2>9 DEF ErrorsLast
  <1>16. CASE StopFinish
    BY <1>16, ErrorsNone DEF StopFinish, CancelQueue
  <1>17. CASE TimerComplete
    <2>1. timerBuf \in Buffers /\ bufState[timerBuf] = "ACTIVE"
      BY <1>17
      DEF TimerComplete, TimerHolds, Held, Inv, Ownership, OwnDriver, WithDriver,
          InState
    <2>2. /\ bufState' = [bufState EXCEPT ![timerBuf] = "DONE"]
          /\ doneList' = Append(doneList, timerBuf)
      BY <1>17 DEF TimerComplete
    <2>3. Split(Len(doneList))
      BY <1>17 DEF TimerComplete, Inv, Control, TypeOK, ControlTypes, StopPcs,
                   ErrorsLast, InSession
    <2>4. /\ DOMAIN doneList' = 1 .. Len(doneList) + 1
          /\ Len(doneList') = Len(doneList) + 1
          /\ doneList'[Len(doneList) + 1] = timerBuf
          /\ \A i \in DOMAIN doneList : doneList'[i] = doneList[i]
      BY <1>1, <2>1, <2>2
    <2>5. ASSUME NEW i \in DOMAIN doneList' PROVE bufState'[doneList'[i]] # "ERROR"
      <3>1. CASE i = Len(doneList) + 1
        BY <1>1, <2>1, <2>2, <2>4, <3>1
      <3>2. CASE i # Len(doneList) + 1
        <4>1. i \in DOMAIN doneList
          BY <1>1, <2>4, <3>2
        <4>2. bufState[doneList[i]] # "ERROR"
          BY <1>1, <2>3, <4>1 DEF Split, Failed
        <4> QED
          BY <1>1, <2>1, <2>2, <2>4, <4>1, <4>2
      <3> QED
        BY <3>1, <3>2
    <2>6. Split(Len(doneList))'
      BY <1>1, <2>4, <2>5 DEF Split, Failed
    <2>7. Len(doneList') \in 0 .. Len(doneList')
      BY <1>1, <2>4
    <2> QED
      BY <2>6, <2>7 DEF ErrorsLast
  <1>18. CASE TimerPop \/ TimerFill \/ TimerStamp \/ TimerResched
    BY <1>3, <1>18
    DEF TimerPop, TimerFill, TimerStamp, TimerResched, bufVars, vb2Vars,
        stopVars, InSession
  <1>19. CASE UNCHANGED vars
    BY <1>3, <1>19 DEF vars, bufVars, vb2Vars, stopVars, InSession
  <1> QED
    BY <1>4, <1>5, <1>6, <1>7, <1>8, <1>9, <1>10, <1>11, <1>12, <1>13, <1>14,
       <1>15, <1>16, <1>17, <1>18, <1>19
    DEF Next, AppNext, StopNext, TimerNext

LEMMA RInvStep == RInv /\ [Next]_vars => RInv'
  BY TypeStep, OwnershipStep, ControlStep, HalfwayStep, ErrorsStep DEF Inv, RInv

LEMMA RInvInit == Init => RInv
  <1> SUFFICES ASSUME Init PROVE RInv
    OBVIOUS
  <1>1. Inv
    BY InvInit
  <1>2. Split(0) /\ Len(doneList) = 0
    BY DEF Init, Split
  <1> QED
    BY <1>1, <1>2 DEF Init, RInv, Halfway, ErrorsLast

\* The list splits at one place only.
CutUnique == \A n \in 0 .. Len(doneList) : Split(n) => Completed = n

LEMMA CutIsUnique == RInv => CutUnique
  <1> SUFFICES ASSUME RInv, NEW n \in 0 .. Len(doneList), Split(n)
               PROVE  Completed = n
    BY DEF CutUnique
  <1>1. Len(doneList) \in Nat /\ DOMAIN doneList = 1 .. Len(doneList)
    BY DEF RInv, Inv, TypeOK, ListTypes
  <1>2. Completed \in 0 .. Len(doneList) /\ Split(Completed)
    BY Zenon DEF Completed
  <1>3. ASSUME NEW a \in 0 .. Len(doneList), NEW b \in 0 .. Len(doneList),
               Split(a), Split(b), a < b
        PROVE  FALSE
    <2>1. a + 1 \in DOMAIN doneList
      BY <1>1, <1>3
    <2>2. Failed(doneList[a + 1])
      BY <1>3, <2>1 DEF Split
    <2>3. ~(a + 1 > b)
      BY <1>3
    <2>4. a + 1 > b
      BY <1>3, <2>1, <2>2 DEF Split
    <2> QED
      BY <2>3, <2>4
  <1>4. ~(n < Completed) /\ ~(Completed < n)
    BY <1>2, <1>3
  <1> QED
    BY <1>1, <1>2, <1>4

LEMMA CutIsUniqueNext == RInv' => CutUnique'
  BY CutIsUnique, PTL

\* The buffer that is being filled.
InHand == IF TimerHolds THEN <<timerBuf>> ELSE <<>>

\* What the application finds in each of the first n buffers of list bs.
Pictures(bs, n, seq, frame) ==
    [i \in 1 .. n |-> [buf |-> bs[i], seq |-> seq[bs[i]], frame |-> frame[bs[i]]]]

LEMMA PicturesSame ==
    ASSUME NEW bs \in Seq(Buffers), NEW n \in 0 .. Len(bs), NEW f, NEW g, NEW h, NEW k,
           \A i \in DOMAIN bs : f[bs[i]] = h[bs[i]] /\ g[bs[i]] = k[bs[i]]
    PROVE  Pictures(bs, n, f, g) = Pictures(bs, n, h, k)
  <1>1. 1 .. n \subseteq DOMAIN bs
    OBVIOUS
  <1> QED
    BY <1>1 DEF Pictures

\* While a session runs, or none: nothing is on the done list in error.
SessionMap ==
    InSession => /\ AbsQueue = (InHand \o queued_bufs) \o pending
                 /\ AbsDone = Pictures(doneList, Len(doneList), bufSeq, bufFrame)

LEMMA ListFacts ==
    ASSUME RInv
    PROVE  /\ doneList \in Seq(Buffers) /\ Len(doneList) \in Nat
           /\ DOMAIN doneList = 1 .. Len(doneList)
           /\ queued_bufs \in Seq(Buffers) /\ pending \in Seq(Buffers)
           /\ InHand \in Seq(Buffers)
           /\ bufState \in [Buffers -> BufStates]
           /\ bufSeq \in [Buffers -> 0 .. SeqLimit - 1]
           /\ sequence \in 0 .. SeqLimit - 1
           /\ \A i \in DOMAIN doneList : /\ doneList[i] \in Buffers
                                         /\ bufState[doneList[i]] \in {"DONE", "ERROR"}
           /\ TimerHolds => timerBuf \in Buffers /\ bufState[timerBuf] = "ACTIVE"
  <1>1. /\ doneList \in Seq(Buffers) /\ queued_bufs \in Seq(Buffers)
        /\ pending \in Seq(Buffers) /\ bufState \in [Buffers -> BufStates]
        /\ bufSeq \in [Buffers -> 0 .. SeqLimit - 1]
        /\ sequence \in 0 .. SeqLimit - 1
    BY DEF RInv, Inv, TypeOK, BufTypes, ListTypes, ControlTypes
  <1>2. ASSUME TimerHolds
        PROVE  timerBuf \in Buffers /\ bufState[timerBuf] = "ACTIVE"
    BY <1>2 DEF RInv, Inv, Held, Ownership, OwnDriver, WithDriver, InState
  <1>3. InHand \in Seq(Buffers)
    BY <1>2 DEF InHand
  <1>4. \A i \in DOMAIN doneList : bufState[doneList[i]] \in {"DONE", "ERROR"}
    BY DEF RInv, Inv, Ownership, OwnDone, InState, Range
  <1> QED
    BY <1>1, <1>2, <1>3, <1>4

LEMMA SessionMapHolds == RInv => SessionMap
  <1> SUFFICES ASSUME RInv, InSession
               PROVE  /\ AbsQueue = (InHand \o queued_bufs) \o pending
                      /\ AbsDone = Pictures(doneList, Len(doneList), bufSeq, bufFrame)
    BY DEF SessionMap
  <1>1. Len(doneList) \in Nat /\ Split(Len(doneList))
    BY ListFacts DEF RInv, ErrorsLast
  <1>2. Completed = Len(doneList)
    BY <1>1, CutIsUnique DEF CutUnique
  <1>3. SubSeq(doneList, Len(doneList) + 1, Len(doneList)) = <<>>
    BY <1>1, SubSeqEmpty
  <1>4. <<>> \o InHand = InHand
    BY ListFacts, ConcatEmptySeq
  <1>5. AbsQueue = ((<<>> \o InHand) \o queued_bufs) \o pending
    BY <1>2, <1>3 DEF AbsQueue, InHand
  <1>6. AbsDone = Pictures(doneList, Len(doneList), bufSeq, bufFrame)
    BY <1>2 DEF AbsDone, Pictures
  <1> QED
    BY <1>4, <1>5, <1>6

LEMMA SessionMapNext == RInv' => SessionMap'
  BY SessionMapHolds, PTL

\* Steps the application does not see.
LEMMA UnseenStep ==
    ASSUME RInv, RInv', UNCHANGED <<doneList, queued_bufs, pending, streaming>>,
           InHand' = InHand, AbsNext' = AbsNext,
           \A i \in DOMAIN doneList :
              /\ bufState'[doneList[i]] = bufState[doneList[i]]
              /\ bufSeq'[doneList[i]] = bufSeq[doneList[i]]
              /\ bufFrame'[doneList[i]] = bufFrame[doneList[i]]
    PROVE  UNCHANGED Capture!cvars
  <1>1. PICK n \in 0 .. Len(doneList) : Split(n)
    BY DEF RInv, ErrorsLast
  <1>2. Split(n)'
    BY <1>1 DEF Split, Failed
  <1>3. Completed = n /\ Completed' = n
    BY <1>1, <1>2, CutIsUnique, CutIsUniqueNext DEF CutUnique
  <1>4. AbsQueue' = AbsQueue
    BY <1>3 DEF AbsQueue, InHand
  <1>5. AbsDone = Pictures(doneList, n, bufSeq, bufFrame)
        /\ AbsDone' = Pictures(doneList, n, bufSeq', bufFrame')
    BY <1>3 DEF AbsDone, Pictures
  <1>6. AbsDone' = AbsDone
    <2>1. doneList \in Seq(Buffers)
      BY ListFacts
    <2>2. Pictures(doneList, n, bufSeq', bufFrame')
             = Pictures(doneList, n, bufSeq, bufFrame)
      BY <1>1, <2>1, PicturesSame
    <2> QED
      BY <1>5, <2>2
  <1> QED
    BY <1>4, <1>6 DEF Capture!cvars

LEMMA NoPictures == ASSUME NEW f, NEW g PROVE Pictures(<<>>, Len(<<>>), f, g) = <<>>
  BY DEF Pictures

\* Steps that give every buffer back.
LEMMA CancelStep ==
    ASSUME RInv, RInv', InSession', timerPc = "idle", UNCHANGED timerPc,
           doneList' = <<>>, queued_bufs' = <<>>, pending' = <<>>,
           UNCHANGED sequence, streaming' = FALSE
    PROVE  Capture!Cancel
  <1>1. InHand' = <<>>
    BY DEF InHand, TimerHolds
  <1>2. AbsQueue' = (<<>> \o <<>>) \o <<>>
        /\ AbsDone' = Pictures(<<>>, Len(<<>>), bufSeq', bufFrame')
    BY <1>1, SessionMapNext DEF SessionMap
  <1>3. AbsQueue' = <<>>
    BY <1>2
  <1>4. AbsDone' = <<>>
    BY <1>2, NoPictures
  <1>5. AbsNext' = AbsNext
    BY DEF AbsNext
  <1> QED
    BY <1>3, <1>4, <1>5 DEF Capture!Cancel

LEMMA FunctionIsSeq ==
    ASSUME NEW n \in Nat, NEW S, NEW f \in [1 .. n -> S]
    PROVE  f \in Seq(S) /\ Len(f) = n
  OBVIOUS

LEMMA PicturesTail ==
    ASSUME NEW bs \in Seq(Buffers), bs # <<>>, NEW f, NEW g
    PROVE  /\ Pictures(bs, Len(bs), f, g) # <<>>
           /\ Pictures(Tail(bs), Len(Tail(bs)), f, g)
                 = Tail(Pictures(bs, Len(bs), f, g))
  <1> DEFINE e(i) == [buf |-> bs[i], seq |-> f[bs[i]], frame |-> g[bs[i]]]
             S == {e(i) : i \in 1 .. Len(bs)}
             full == Pictures(bs, Len(bs), f, g)
             rest == Pictures(Tail(bs), Len(Tail(bs)), f, g)
  <1>1. /\ Len(bs) \in Nat \ {0} /\ Len(Tail(bs)) = Len(bs) - 1
        /\ \A i \in 1 .. Len(bs) - 1 : Tail(bs)[i] = bs[i + 1]
    OBVIOUS
  <1>2. full \in Seq(S) /\ Len(full) = Len(bs) /\ \A i \in 1 .. Len(bs) : full[i] = e(i)
    BY <1>1 DEF Pictures
  <1>3. /\ rest \in Seq(S) /\ Len(rest) = Len(bs) - 1
        /\ \A i \in 1 .. Len(bs) - 1 : rest[i] = e(i + 1)
    <2>1. \A i \in 1 .. Len(bs) - 1 : e(i + 1) \in S
      BY <1>1
    <2>2. rest = [i \in 1 .. Len(bs) - 1 |-> e(i + 1)]
      BY <1>1 DEF Pictures
    <2>3. rest \in [1 .. Len(bs) - 1 -> S]
      BY <2>1, <2>2
    <2>4. rest \in Seq(S) /\ Len(rest) = Len(bs) - 1
      <3> DEFINE m == Len(bs) - 1
      <3>1. m \in Nat /\ rest \in [1 .. m -> S]
        BY <1>1, <2>3
      <3> HIDE DEF m, rest, S
      <3>2. rest \in Seq(S) /\ Len(rest) = m
        BY <3>1, FunctionIsSeq
      <3> QED
        BY <3>2 DEF m
    <2> QED
      BY <2>2, <2>4
  <1> HIDE DEF full, rest, S
  <1>4. full # <<>>
    BY <1>1, <1>2
  <1>5. /\ Tail(full) \in Seq(S) /\ Len(Tail(full)) = Len(bs) - 1
        /\ \A i \in 1 .. Len(bs) - 1 : Tail(full)[i] = full[i + 1]
    BY <1>1, <1>2, <1>4, HeadTailProperties
  <1>6. \A i \in 1 .. Len(rest) : rest[i] = Tail(full)[i]
    <2> SUFFICES ASSUME NEW i \in 1 .. Len(bs) - 1 PROVE rest[i] = Tail(full)[i]
      BY <1>3
    <2>1. i + 1 \in 1 .. Len(bs)
      BY <1>1
    <2>2. full[i + 1] = e(i + 1)
      BY <1>2, <2>1
    <2> QED
      BY <1>3, <1>5, <2>2
  <1>7. rest = Tail(full)
    BY <1>3, <1>5, <1>6, SeqEqual
  <1> QED
    BY <1>4, <1>7 DEF full, rest

LEMMA CollectStep ==
    RInv /\ RInv' /\ QueueLockFree /\ streaming /\ doneList # <<>> /\ TakeDone
       => Capture!Collect
  <1> SUFFICES ASSUME RInv, RInv', QueueLockFree, streaming, doneList # <<>>, TakeDone
               PROVE  Capture!Collect
    OBVIOUS
  <1>1. InSession /\ InSession'
    BY DEF QueueLockFree, InSession, TakeDone, stopVars
  <1>2. /\ AbsQueue = (InHand \o queued_bufs) \o pending
        /\ AbsQueue' = (InHand \o queued_bufs) \o pending
    BY <1>1, SessionMapHolds, SessionMapNext
    DEF SessionMap, TakeDone, timerVars, InHand, TimerHolds
  <1>3. /\ AbsDone = Pictures(doneList, Len(doneList), bufSeq, bufFrame)
        /\ AbsDone' = Pictures(Tail(doneList), Len(Tail(doneList)), bufSeq, bufFrame)
    BY <1>1, SessionMapHolds, SessionMapNext DEF SessionMap, TakeDone
  <1>4. AbsDone # <<>> /\ AbsDone' = Tail(AbsDone)
    BY <1>3, ListFacts, PicturesTail
  <1>5. AbsNext' = AbsNext /\ streaming' = streaming
    BY DEF TakeDone, timerVars, AbsNext
  <1> QED
    BY <1>2, <1>4, <1>5 DEF Capture!Collect

\* A list with one more at its end, in front of an empty one or not.
LEMMA ListOfParts ==
    ASSUME NEW a \in Seq(Buffers), NEW q \in Seq(Buffers), NEW p \in Seq(Buffers),
           NEW b \in Buffers
    PROVE  /\ (a \o q) \o Append(p, b) = Append((a \o q) \o p, b)
           /\ (a \o Append(q, b)) \o <<>> = Append((a \o q) \o <<>>, b)
           /\ Range((a \o q) \o p) = (Range(a) \cup Range(q)) \cup Range(p)
  <1> DEFINE aq == a \o q
  <1>1. aq \in Seq(Buffers) /\ <<b>> \in Seq(Buffers) /\ <<>> \in Seq(Buffers)
        /\ Append(p, b) \in Seq(Buffers) /\ Append(q, b) \in Seq(Buffers)
        /\ aq \o p \in Seq(Buffers)
    BY ConcatProperties
  <1>2. Append(p, b) = p \o <<b>> /\ Append(q, b) = q \o <<b>>
    BY AppendIsConcat
  <1>3. Range(aq) = Range(a) \cup Range(q)
    BY RangeConcatenation
  <1>4. a \o (q \o <<b>>) = aq \o <<b>>
    BY <1>1, ConcatAssociative
  <1> HIDE DEF aq
  <1>5. aq \o (p \o <<b>>) = (aq \o p) \o <<b>>
    BY <1>1, ConcatAssociative
  <1>6. Append(aq \o p, b) = (aq \o p) \o <<b>>
    BY <1>1, AppendIsConcat
  <1>7. Range(aq \o p) = Range(aq) \cup Range(p)
    BY <1>1, RangeConcatenation
  <1>8. aq \o <<>> = aq /\ Append(aq, b) = aq \o <<b>>
    BY <1>1, ConcatEmptySeq, AppendIsConcat
  <1>9. aq \o <<b>> \in Seq(Buffers)
    BY <1>1, ConcatProperties
  <1>10. (aq \o <<b>>) \o <<>> = aq \o <<b>>
    BY <1>9, ConcatEmptySeq
  <1>11. aq \o Append(p, b) = Append(aq \o p, b)
    BY <1>2, <1>5, <1>6
  <1>12. (a \o Append(q, b)) \o <<>> = Append(aq \o <<>>, b)
    BY <1>2, <1>4, <1>8, <1>10
  <1> QED
    BY <1>3, <1>7, <1>11, <1>12 DEF aq

\* The first buffer changes hands.
LEMMA FirstInHand ==
    ASSUME NEW q \in Seq(Buffers), q # <<>>
    PROVE  <<Head(q)>> \o Tail(q) = <<>> \o q
  <1>1. /\ <<Head(q)>> \in Seq(Buffers) /\ Tail(q) \in Seq(Buffers)
        /\ Len(q) \in Nat \ {0} /\ Len(Tail(q)) = Len(q) - 1
        /\ Len(<<Head(q)>>) = 1 /\ <<Head(q)>>[1] = q[1]
        /\ \A i \in 1 .. Len(Tail(q)) : Tail(q)[i] = q[i + 1]
    OBVIOUS
  <1> DEFINE c == <<Head(q)>> \o Tail(q)
  <1>2. /\ c \in Seq(Buffers) /\ Len(c) = Len(q)
        /\ \A i \in 1 .. Len(q) :
              c[i] = IF i <= 1 THEN <<Head(q)>>[i] ELSE Tail(q)[i - 1]
    BY <1>1, ConcatProperties
  <1> HIDE DEF c
  <1>3. ASSUME NEW i \in 1 .. Len(q) PROVE c[i] = q[i]
    <2>1. CASE i = 1
      BY <1>1, <1>2, <2>1
    <2>2. CASE i # 1
      <3>1. i - 1 \in 1 .. Len(Tail(q)) /\ (i - 1) + 1 = i /\ ~(i <= 1)
        BY <1>1, <2>2
      <3>2. Tail(q)[i - 1] = q[i]
        BY <1>1, <3>1
      <3> QED
        BY <1>2, <3>1, <3>2
    <2> QED
      BY <2>1, <2>2
  <1>4. c = q
    BY <1>2, <1>3, SeqEqual
  <1> QED
    BY <1>4, ConcatEmptySeq DEF c

LEMMA SubmitStep ==
    ASSUME RInv, RInv', NEW b \in Buffers, Qbuf(b)
    PROVE  Capture!Submit(b)
  <1>1. bufState[b] \in {"DEQUEUED", "PREPARED"}
    BY DEF Qbuf
  <1>2. InSession /\ InSession' /\ UNCHANGED <<doneList, streaming>>
        /\ InHand' = InHand /\ bufFrame' = bufFrame
        /\ bufSeq' = [bufSeq EXCEPT ![b] = 0]
    BY DEF Qbuf, QueueLockFree, InSession, stopVars, timerVars, InHand, TimerHolds
  <1>3. \A i \in DOMAIN doneList : doneList[i] # b
    BY <1>1, ListFacts
  <1>4. AbsDone = Pictures(doneList, Len(doneList), bufSeq, bufFrame)
    BY <1>2, SessionMapHolds DEF SessionMap
  <1>5. AbsDone' = AbsDone
    <2>1. doneList \in Seq(Buffers) /\ Len(doneList) \in 0 .. Len(doneList)
      BY ListFacts
    <2>2. \A i \in DOMAIN doneList : bufSeq'[doneList[i]] = bufSeq[doneList[i]]
      BY <1>2, <1>3, ListFacts
    <2>3. Pictures(doneList, Len(doneList), bufSeq', bufFrame)
             = Pictures(doneList, Len(doneList), bufSeq, bufFrame)
      BY <2>1, <2>2, PicturesSame
    <2>4. AbsDone' = Pictures(doneList, Len(doneList), bufSeq', bufFrame)
      BY <1>2, SessionMapNext DEF SessionMap
    <2> QED
      BY <1>4, <2>3, <2>4
  <1>6. \A i \in DOMAIN AbsDone : AbsDone[i].buf # b
    BY <1>3, <1>4, ListFacts DEF Pictures
  <1>7. /\ AbsQueue = (InHand \o queued_bufs) \o pending
        /\ AbsQueue' = (InHand \o queued_bufs') \o pending'
    BY <1>2, SessionMapHolds, SessionMapNext DEF SessionMap
  <1>8. AbsQueue' = Append(AbsQueue, b)
    <2>1. CASE streaming
      <3>1. pending = <<>> /\ pending' = <<>> /\ queued_bufs' = queued_bufs \o <<b>>
        BY <2>1 DEF Qbuf, buf_queue, RInv, Inv, Control
      <3>2. queued_bufs' = Append(queued_bufs, b)
        BY <3>1, ListFacts, AppendIsConcat
      <3>3. InHand \in Seq(Buffers) /\ queued_bufs \in Seq(Buffers)
            /\ pending \in Seq(Buffers)
        BY ListFacts
      <3>4. (InHand \o Append(queued_bufs, b)) \o <<>>
               = Append((InHand \o queued_bufs) \o <<>>, b)
        BY <3>3, ListOfParts
      <3> QED
        BY <1>7, <3>1, <3>2, <3>4
    <2>2. CASE ~streaming
      <3>1. pending' = Append(pending, b) /\ queued_bufs' = queued_bufs
        BY <2>2 DEF Qbuf
      <3> QED
        BY <1>7, <3>1, ListFacts, ListOfParts
    <2> QED
      BY <2>1, <2>2
  <1>9. b \notin Range(AbsQueue)
    <2>1. Range(AbsQueue) = (Range(InHand) \cup Range(queued_bufs)) \cup Range(pending)
      BY <1>7, ListFacts, ListOfParts
    <2>2. b \notin Range(queued_bufs) /\ b \notin Range(pending)
      BY <1>1 DEF RInv, Inv, Ownership, OwnDriver, OwnPending, WithDriver, InState
    <2>3. b \notin Range(InHand)
      BY <1>1, ListFacts DEF InHand, Range
    <2> QED
      BY <2>1, <2>2, <2>3
  <1>10. AbsNext' = AbsNext
    <2>1. TimerHolds => timerBuf \in Buffers /\ timerBuf # b
      BY <1>1, ListFacts
    <2>2. UNCHANGED <<timerPc, timerBuf, sequence>>
      BY DEF Qbuf, timerVars
    <2>3. TimerHolds => bufSeq'[timerBuf] = bufSeq[timerBuf]
      BY <1>2, <2>1, ListFacts
    <2> QED
      BY <2>2, <2>3 DEF AbsNext, TimerHolds
  <1> QED
    BY <1>2, <1>5, <1>6, <1>8, <1>9, <1>10 DEF Capture!Submit, Capture!Range, Range

LEMMA StartStep ==
    ASSUME RInv, RInv', StreamOn
    PROVE  Capture!Start
  <1>1. /\ InSession /\ InSession' /\ ~streaming /\ streaming' = TRUE
        /\ doneList = <<>> /\ doneList' = <<>> /\ timerPc = "idle" /\ timerPc' = "idle"
        /\ queued_bufs' = queued_bufs \o pending /\ pending' = <<>> /\ sequence' = 0
    BY DEF StreamOn, QueueLockFree, start_streaming, buf_queue, stopVars,
           InSession, RInv, Inv, Control
  <1>2. InHand = <<>> /\ InHand' = <<>>
    BY <1>1 DEF InHand, TimerHolds
  <1>3. /\ AbsQueue = (<<>> \o queued_bufs) \o pending
        /\ AbsQueue' = (<<>> \o (queued_bufs \o pending)) \o <<>>
        /\ AbsDone = Pictures(<<>>, Len(<<>>), bufSeq, bufFrame)
        /\ AbsDone' = Pictures(<<>>, Len(<<>>), bufSeq', bufFrame')
    BY <1>1, <1>2, SessionMapHolds, SessionMapNext DEF SessionMap
  <1>4. AbsQueue' = AbsQueue
    <2>1. queued_bufs \in Seq(Buffers) /\ pending \in Seq(Buffers)
      BY ListFacts
    <2>2. queued_bufs \o pending \in Seq(Buffers)
      BY <2>1, ConcatProperties
    <2>3. <<>> \o queued_bufs = queued_bufs
      BY <2>1, ConcatEmptySeq
    <2>4. (<<>> \o (queued_bufs \o pending)) \o <<>> = queued_bufs \o pending
      BY <2>2, ConcatEmptySeq
    <2> QED
      BY <1>3, <2>3, <2>4
  <1>5. AbsDone' = AbsDone
    BY <1>3, NoPictures
  <1>6. AbsNext' = 0
    BY <1>1 DEF AbsNext
  <1> QED
    BY <1>1, <1>4, <1>5, <1>6 DEF Capture!Start

\* The callback takes the first buffer, and nobody sees it.
LEMMA PopStep ==
    ASSUME RInv, RInv', TimerPop
    PROVE  UNCHANGED Capture!cvars
  <1>1. timerPc = "idle" /\ timerPc' # "complete"
        /\ UNCHANGED <<bufVars, vb2Vars, stopVars, sequence>>
    BY DEF TimerPop, AfterEmpty
  <1>2. AbsNext' = AbsNext /\ InHand = <<>>
    BY <1>1 DEF AbsNext, InHand, TimerHolds
  <1>3. CASE queued_bufs = <<>>
    <2>1. queued_bufs' = queued_bufs /\ InHand' = InHand
      BY <1>2, <1>3 DEF TimerPop, AfterEmpty, InHand, TimerHolds
    <2> QED
      BY <1>1, <1>2, <2>1, UnseenStep DEF bufVars, vb2Vars
  <1>4. CASE queued_bufs # <<>>
    <2>1. /\ queued_bufs' = Tail(queued_bufs)
          /\ InHand' = <<Head(queued_bufs)>>
      BY <1>4 DEF TimerPop, list_del, InHand, TimerHolds
    <2>2. InSession /\ InSession'
      BY <1>1 DEF TimerPop, RInv, Inv, Control, TypeOK, ControlTypes, StopPcs,
                  stopVars, InSession
    <2>3. /\ AbsQueue = (<<>> \o queued_bufs) \o pending
          /\ AbsQueue' = (<<Head(queued_bufs)>> \o Tail(queued_bufs)) \o pending
          /\ AbsDone' = AbsDone
      BY <1>1, <1>2, <2>1, <2>2, SessionMapHolds, SessionMapNext
      DEF SessionMap, bufVars, vb2Vars
    <2>4. <<Head(queued_bufs)>> \o Tail(queued_bufs) = <<>> \o queued_bufs
      BY <1>4, ListFacts, FirstInHand
    <2> QED
      BY <1>1, <1>2, <2>3, <2>4 DEF Capture!cvars, vb2Vars
  <1> QED
    BY <1>3, <1>4

LEMMA PicturesAppend ==
    ASSUME NEW bs \in Seq(Buffers), NEW b \in Buffers, NEW f, NEW g
    PROVE  Pictures(Append(bs, b), Len(Append(bs, b)), f, g)
              = Append(Pictures(bs, Len(bs), f, g),
                       [buf |-> b, seq |-> f[b], frame |-> g[b]])
  <1> DEFINE bt == Append(bs, b)
             n == Len(bs)
             last == [buf |-> b, seq |-> f[b], frame |-> g[b]]
             less == Pictures(bs, n, f, g)
             more == Pictures(bt, n + 1, f, g)
             S == {more[i] : i \in 1 .. n + 1}
  <1>1. /\ n \in Nat /\ Len(bt) = n + 1 /\ bt[n + 1] = b
        /\ \A i \in 1 .. n : bt[i] = bs[i]
    OBVIOUS
  <1>2. /\ \A i \in 1 .. n : more[i] = less[i]
        /\ more[n + 1] = last
        /\ DOMAIN less = 1 .. n /\ less = [i \in 1 .. n |-> less[i]]
        /\ DOMAIN more = 1 .. n + 1 /\ more = [i \in 1 .. n + 1 |-> more[i]]
    BY <1>1 DEF Pictures
  <1> HIDE DEF n, bt, less, more, last
  <1>3. more \in [1 .. n + 1 -> S] /\ n + 1 \in Nat
    BY <1>1, <1>2
  <1>4. less \in [1 .. n -> S]
    <2>1. \A i \in 1 .. n : i \in 1 .. n + 1
      BY <1>1
    <2>2. \A i \in 1 .. n : less[i] \in S
      BY <1>2, <2>1
    <2> QED
      BY <1>2, <2>2
  <1>5. last \in S
    BY <1>1, <1>2
  <1> HIDE DEF S
  <1>6. more \in Seq(S) /\ Len(more) = n + 1
    BY <1>3, FunctionIsSeq
  <1>7. less \in Seq(S) /\ Len(less) = n
    BY <1>1, <1>4, FunctionIsSeq
  <1>8. /\ Append(less, last) \in Seq(S) /\ Len(Append(less, last)) = n + 1
        /\ \A i \in 1 .. n : Append(less, last)[i] = less[i]
        /\ Append(less, last)[n + 1] = last
    BY <1>5, <1>7, AppendProperties
  <1>9. \A i \in 1 .. n + 1 : more[i] = Append(less, last)[i]
    <2> SUFFICES ASSUME NEW i \in 1 .. n + 1 PROVE more[i] = Append(less, last)[i]
      OBVIOUS
    <2>1. i \in 1 .. n \/ i = n + 1
      BY <1>1
    <2> QED
      BY <1>2, <1>8, <2>1
  <1>10. more = Append(less, last)
    BY <1>6, <1>8, <1>9, SeqEqual
  <1> QED
    BY <1>1, <1>10 DEF n, bt, less, more, last

\* vb2_buffer_done() is where the application sees the frame.
LEMMA FillStep ==
    ASSUME RInv, RInv', TimerComplete
    PROVE  Capture!Fill
  <1>1. /\ timerPc = "complete" /\ timerPc' = "resched" /\ TimerHolds
        /\ doneList' = Append(doneList, timerBuf)
        /\ UNCHANGED <<bufSeq, bufFrame, pending, streaming, stopPc, queued_bufs,
                       sequence>>
    BY DEF TimerComplete, TimerHolds, stopVars
  <1>2. streaming /\ streaming = TRUE /\ InSession /\ InSession'
    BY <1>1 DEF RInv, Inv, Control, TypeOK, ControlTypes, StopPcs, InSession
  <1>3. InHand = <<timerBuf>> /\ InHand' = <<>>
    BY <1>1 DEF InHand, TimerHolds
  <1>4. timerBuf \in Buffers /\ pending = <<>>
    BY <1>1, <1>2, ListFacts DEF RInv, Inv, Control
  <1>5. /\ AbsQueue = (<<timerBuf>> \o queued_bufs) \o <<>>
        /\ AbsQueue' = (<<>> \o queued_bufs) \o <<>>
    BY <1>1, <1>2, <1>3, <1>4, SessionMapHolds, SessionMapNext DEF SessionMap
  <1>6. AbsQueue # <<>> /\ Head(AbsQueue) = timerBuf /\ AbsQueue' = Tail(AbsQueue)
    <2> DEFINE q == queued_bufs
               c == <<timerBuf>> \o q
    <2>1. q \in Seq(Buffers) /\ <<timerBuf>> \in Seq(Buffers)
          /\ Len(<<timerBuf>>) = 1 /\ <<timerBuf>>[1] = timerBuf /\ Len(q) \in Nat
      BY <1>4, ListFacts
    <2>2. /\ c \in Seq(Buffers) /\ Len(c) = 1 + Len(q)
          /\ \A i \in 1 .. 1 + Len(q) :
                c[i] = IF i <= 1 THEN <<timerBuf>>[i] ELSE q[i - 1]
      BY <2>1, ConcatProperties
    <2>3. <<>> \o q = q /\ q \o <<>> = q
      BY <2>1, ConcatEmptySeq
    <2>4. c \o <<>> = c
      BY <2>2, ConcatEmptySeq
    <2>5. AbsQueue = c /\ AbsQueue' = q
      BY <1>5, <2>3, <2>4
    <2> HIDE DEF c, q
    <2>6. c # <<>> /\ Head(c) = timerBuf
      BY <2>1, <2>2
    <2>7. /\ Tail(c) \in Seq(Buffers) /\ Len(Tail(c)) = Len(q)
          /\ \A i \in 1 .. Len(q) : Tail(c)[i] = c[i + 1]
      BY <2>1, <2>2, <2>6, HeadTailProperties
    <2>8. \A i \in 1 .. Len(q) : Tail(c)[i] = q[i]
      <3> SUFFICES ASSUME NEW i \in 1 .. Len(q) PROVE Tail(c)[i] = q[i]
        OBVIOUS
      <3>1. i + 1 \in 1 .. 1 + Len(q) /\ ~(i + 1 <= 1) /\ (i + 1) - 1 = i
        BY <2>1
      <3>2. c[i + 1] = q[i]
        BY <2>2, <3>1
      <3> QED
        BY <2>7, <3>2
    <2>9. Tail(c) = q
      BY <2>1, <2>7, <2>8, SeqEqual
    <2> QED
      BY <2>5, <2>6, <2>9
  <1>7. /\ AbsDone = Pictures(doneList, Len(doneList), bufSeq, bufFrame)
        /\ AbsDone' = Pictures(Append(doneList, timerBuf),
                               Len(Append(doneList, timerBuf)), bufSeq, bufFrame)
    BY <1>1, <1>2, SessionMapHolds, SessionMapNext DEF SessionMap
  <1>8. AbsDone' = Append(AbsDone, [buf |-> timerBuf, seq |-> bufSeq[timerBuf],
                                    frame |-> bufFrame[timerBuf]])
    BY <1>4, <1>7, ListFacts, PicturesAppend
  <1>9. /\ AbsNext = bufSeq[timerBuf] /\ AbsNext \in 0 .. SeqLimit - 1
        /\ AbsNext' = (AbsNext + 1) % SeqLimit
        /\ bufFrame[timerBuf] = FrameIndex(AbsNext)
    BY <1>1, <1>4, ListFacts DEF AbsNext, RInv, Halfway
  <1>10. Capture!Filled(Head(AbsQueue), AbsNext)
            = [buf |-> timerBuf, seq |-> bufSeq[timerBuf],
               frame |-> bufFrame[timerBuf]]
    BY <1>6, <1>9 DEF Capture!Filled
  <1> QED
    BY <1>1, <1>2, <1>6, <1>8, <1>9, <1>10 DEF Capture!Fill

\* stop_streaming() moves a buffer from one list to the other: it is as
\* unfilled on the one as on the other.
LEMMA DrainStep ==
    ASSUME RInv, RInv', StopDrain
    PROVE  UNCHANGED Capture!cvars
  <1> DEFINE h == Head(queued_bufs)
             d == doneList
  <1>1. /\ queued_bufs # <<>> /\ queued_bufs' = Tail(queued_bufs)
        /\ bufState' = [bufState EXCEPT ![h] = "ERROR"]
        /\ doneList' = Append(d, h)
        /\ UNCHANGED <<bufSeq, bufFrame, pending, streaming, sequence, timerVars>>
    BY DEF StopDrain
  <1>2. timerPc = "idle" /\ timerPc' = "idle"
    BY <1>1 DEF StopDrain, timerVars, RInv, Inv, Control
  <1>3. InHand = <<>> /\ InHand' = <<>> /\ AbsNext' = AbsNext
    BY <1>1, <1>2 DEF InHand, TimerHolds, AbsNext
  <1>4. h \in Buffers /\ bufState[h] = "ACTIVE"
    <2>1. h \in Range(queued_bufs)
      BY <1>1, TailList DEF RInv, Inv, TypeOK, ListTypes, Ownership, OwnDriver
    <2> QED
      BY <2>1 DEF RInv, Inv, Ownership, OwnDriver, WithDriver, InState
  <1>5. PICK n \in 0 .. Len(d) : Split(n)
    BY DEF RInv, ErrorsLast
  <1>6. /\ d \in Seq(Buffers) /\ Len(d) \in Nat /\ DOMAIN d = 1 .. Len(d)
        /\ Len(doneList') = Len(d) + 1 /\ doneList'[Len(d) + 1] = h
        /\ DOMAIN doneList' = 1 .. Len(d) + 1
        /\ \A i \in DOMAIN d : doneList'[i] = d[i]
    BY <1>1, <1>4, ListFacts
  <1>7. \A i \in DOMAIN d : bufState'[d[i]] = bufState[d[i]]
    BY <1>1, <1>4, ListFacts
  <1>8. Split(n)'
    <2>1. ASSUME NEW i \in 1 .. Len(d) + 1
          PROVE  bufState'[doneList'[i]] = "ERROR" <=> i > n
      <3>1. CASE i = Len(d) + 1
        BY <1>1, <1>4, <1>6, <3>1, ListFacts
      <3>2. CASE i # Len(d) + 1
        <4>1. i \in DOMAIN d
          BY <1>6, <3>2
        <4> QED
          BY <1>5, <1>6, <1>7, <4>1 DEF Split, Failed
      <3> QED
        BY <3>1, <3>2
    <2> QED
      BY <1>6, <2>1 DEF Split, Failed
  <1>9. Completed = n /\ Completed' = n
    <2>1. n \in 0 .. Len(doneList')
      BY <1>5, <1>6
    <2> QED
      BY <1>5, <1>8, <2>1, CutIsUnique, CutIsUniqueNext DEF CutUnique
  <1>10. AbsDone' = AbsDone
    <2>1. \A i \in 1 .. n : doneList'[i] = d[i]
      BY <1>5, <1>6
    <2> QED
      BY <1>1, <1>9, <2>1 DEF AbsDone
  <1>11. AbsQueue' = AbsQueue
    <2> DEFINE sub == SubSeq(d, n + 1, Len(d))
               q == queued_bufs
    <2>1. q \in Seq(Buffers) /\ <<h>> \in Seq(Buffers) /\ Tail(q) \in Seq(Buffers)
      BY <1>1, <1>4, ListFacts, HeadTailProperties
    <2>2. sub \in Seq(Buffers)
      <3>1. \A i \in n + 1 .. Len(d) : d[i] \in Buffers
        BY <1>5, <1>6
      <3> QED
        BY <1>5, <1>6, <3>1, SubSeqProperties
    <2>3. SubSeq(doneList', n + 1, Len(doneList')) = sub \o <<h>>
      <3> DEFINE dd == Append(d, h)
      <3>1. dd \in Seq(Buffers) /\ Len(dd) = Len(d) + 1 /\ dd[Len(dd)] = h
        BY <1>4, <1>6
      <3>2. SubSeq(dd, n + 1, Len(dd)) = SubSeq(dd, n + 1, Len(dd) - 1) \o <<dd[Len(dd)]>>
        <4>1. n + 1 \in 1 .. Len(dd) /\ Len(dd) \in n + 1 .. Len(dd)
          BY <1>5, <1>6, <3>1
        <4> HIDE DEF dd
        <4> QED
          BY <3>1, <4>1, SubSeqRecursiveSecond
      <3>3. SubSeq(dd, n + 1, Len(d)) = SubSeq(d, n + 1, Len(d))
        BY <1>4, <1>5, <1>6
      <3>4. doneList' = dd /\ Len(dd) - 1 = Len(d)
        BY <1>1, <1>6, <3>1
      <3> HIDE DEF dd
      <3> QED
        BY <3>1, <3>2, <3>3, <3>4
    <2>4. <<h>> \o Tail(q) = q
      BY <1>1, <2>1, FirstInHand, ConcatEmptySeq
    <2> HIDE DEF sub
    <2>5. sub \o <<>> = sub /\ (sub \o <<h>>) \o <<>> = sub \o <<h>>
      <3>1. sub \o <<h>> \in Seq(Buffers)
        BY <2>1, <2>2, ConcatProperties
      <3> QED
        BY <2>2, <3>1, ConcatEmptySeq
    <2>6. (sub \o <<h>>) \o Tail(q) = sub \o q
      BY <2>1, <2>2, <2>4, ConcatAssociative
    <2>7. AbsQueue = ((sub \o <<>>) \o q) \o pending
      BY <1>3, <1>9 DEF AbsQueue, InHand, sub
    <2>8. AbsQueue' = (((sub \o <<h>>) \o <<>>) \o Tail(q)) \o pending
      BY <1>1, <1>3, <1>9, <2>3 DEF AbsQueue, InHand
    <2> QED
      BY <2>5, <2>6, <2>7, <2>8
  <1> QED
    BY <1>1, <1>3, <1>10, <1>11 DEF Capture!cvars

\* Every step of the driver is one of the abstract queue's, or is not seen.
LEMMA CaptureStep ==
    RInv /\ RInv' /\ [Next]_vars => [Capture!Next]_(Capture!cvars)
  <1> SUFFICES ASSUME RInv, RInv', [Next]_vars
               PROVE  [Capture!Next]_(Capture!cvars)
    OBVIOUS
  <1>1. ASSUME NEW new \in SUBSET Buffers, Reqbufs(new) PROVE Capture!Cancel
    <2>1. doneList = <<>> /\ queued_bufs = <<>> /\ timerPc = "idle"
          /\ ~streaming /\ streaming \in BOOLEAN
      BY <1>1 DEF Reqbufs, RInv, Inv, Control, TypeOK, ControlTypes
    <2>2. streaming' = FALSE
      BY <1>1, <2>1, Zenon DEF Reqbufs
    <2> QED
      BY <1>1, <2>1, <2>2, CancelStep
      DEF Reqbufs, QueueLockFree, stopVars, timerVars, InSession
  <1>2. ASSUME NEW new \in SUBSET Buffers, NEW size \in Sizes,
               CreateBufs(new, size)
        PROVE  UNCHANGED Capture!cvars
    <2>1. \A i \in DOMAIN doneList : bufState'[doneList[i]] = bufState[doneList[i]]
      BY <1>2, ListFacts DEF CreateBufs, Allocated
    <2> QED
      BY <1>2, <2>1, UnseenStep
      DEF CreateBufs, vb2Vars, timerVars, InHand, TimerHolds, AbsNext
  <1>3. ASSUME NEW b \in Buffers, PrepareBuf(b) PROVE UNCHANGED Capture!cvars
    <2>1. \A i \in DOMAIN doneList : bufState'[doneList[i]] = bufState[doneList[i]]
      BY <1>3, ListFacts DEF PrepareBuf
    <2> QED
      BY <1>3, <2>1, UnseenStep
      DEF PrepareBuf, vb2Vars, timerVars, InHand, TimerHolds, AbsNext
  <1>4. ASSUME NEW b \in Buffers, Qbuf(b) PROVE Capture!Next
    BY <1>4, SubmitStep DEF Capture!Next
  <1>5. CASE StreamOn
    BY <1>5, StartStep DEF Capture!Next
  <1>6. CASE Dqbuf \/ DqbufWake
    BY <1>6, CollectStep DEF Dqbuf, DqbufWake, Capture!Next
  <1>7. ASSUME UNCHANGED <<bufVars, pending, doneList, streaming, queued_bufs,
                           sequence, timerPc, timerBuf>>
        PROVE  UNCHANGED Capture!cvars
    BY <1>7, UnseenStep DEF bufVars, InHand, TimerHolds, AbsNext
  <1>8. CASE DqbufWait
    BY <1>7, <1>8 DEF DqbufWait, timerVars
  <1>9. ASSUME NEW stopped \in BOOLEAN, DqbufGiveUp(stopped)
        PROVE  UNCHANGED Capture!cvars
    BY <1>7, <1>9 DEF DqbufGiveUp, timerVars
  <1>10. ASSUME NEW close \in BOOLEAN, CancelIdle(close) PROVE Capture!Cancel
    <2>1. queued_bufs = <<>> /\ timerPc = "idle"
      BY <1>10 DEF CancelIdle, RInv, Inv, Control
    <2> QED
      BY <1>10, <2>1, CancelStep
      DEF CancelIdle, CancelQueue, QueueLockFree, stopVars, timerVars, InSession
  <1>11. ASSUME NEW close \in BOOLEAN, StopBegin(close)
         PROVE  UNCHANGED Capture!cvars
    BY <1>7, <1>11 DEF StopBegin, vb2Vars, timerVars
  <1>12. CASE StopTimer \/ StopDrained
    BY <1>7, <1>12 DEF StopTimer, StopDrained, vb2Vars, timerVars
  <1>13. CASE StopDrain
    BY <1>13, DrainStep
  <1>14. CASE StopFinish
    <2>1. queued_bufs = <<>> /\ timerPc = "idle"
      BY <1>14 DEF StopFinish, RInv, Inv, Control
    <2>2. Capture!Cancel
      BY <1>14, <2>1, CancelStep DEF StopFinish, CancelQueue, timerVars, InSession
    <2> QED
      BY <2>2 DEF Capture!Next
  <1>15. CASE TimerPop
    BY <1>15, PopStep
  <1>16. CASE TimerFill
    <2>1. \A i \in DOMAIN doneList : bufFrame'[doneList[i]] = bufFrame[doneList[i]]
      <3>1. timerBuf \in Buffers /\ bufState[timerBuf] = "ACTIVE"
        BY <1>16, ListFacts DEF TimerFill, TimerHolds
      <3>2. bufFrame \in [Buffers -> -1 .. FrameCount - 1]
        BY DEF RInv, Inv, TypeOK, BufTypes
      <3> QED
        BY <1>16, <3>1, <3>2, ListFacts DEF TimerFill
    <2> QED
      BY <1>16, <2>1, UnseenStep
      DEF TimerFill, vb2Vars, InHand, TimerHolds, AbsNext
  <1>17. CASE TimerStamp
    <2>1. timerBuf \in Buffers /\ bufState[timerBuf] = "ACTIVE"
      BY <1>17, ListFacts DEF TimerStamp, TimerHolds
    <2>2. \A i \in DOMAIN doneList : bufSeq'[doneList[i]] = bufSeq[doneList[i]]
      BY <1>17, <2>1, ListFacts DEF TimerStamp
    <2>3. bufSeq'[timerBuf] = sequence
      BY <1>17, <2>1, ListFacts DEF TimerStamp, Stamp
    <2>4. AbsNext' = AbsNext
      BY <1>17, <2>3 DEF TimerStamp, AbsNext
    <2> QED
      BY <1>17, <2>2, <2>4, UnseenStep DEF TimerStamp, vb2Vars, InHand, TimerHolds
  <1>18. CASE TimerComplete
    BY <1>18, FillStep DEF Capture!Next
  <1>19. CASE TimerResched
    BY <1>19, UnseenStep
    DEF TimerResched, bufVars, vb2Vars, InHand, TimerHolds, AbsNext
  <1>20. CASE UNCHANGED vars
    BY <1>7, <1>20 DEF vars, vb2Vars, timerVars
  <1>21. Capture!Cancel => Capture!Next
    BY DEF Capture!Next
  <1> QED
    BY <1>1, <1>2, <1>3, <1>4, <1>5, <1>6, <1>8, <1>9, <1>10, <1>11, <1>12,
       <1>13, <1>14, <1>15, <1>16, <1>17, <1>18, <1>19, <1>20, <1>21
    DEF Next, AppNext, StopNext, TimerNext

\* The driver implements the abstract capture queue: buffers are filled once
\* each, in the order queued, with consecutive numbers from 0 and the picture
\* each number calls for, and a stop gives all of them back at once, for any
\* number of buffers and any width of the counter.
THEOREM DriverImplementsQueue == Spec => Capture!Safety
  <1>1. Init => Capture!Init
    <2> SUFFICES ASSUME Init PROVE Capture!Init
      OBVIOUS
    <2>1. RInv /\ InSession /\ doneList = <<>> /\ InHand = <<>> /\ AbsNext = 0
          /\ queued_bufs = <<>> /\ pending = <<>> /\ streaming = FALSE
      BY RInvInit DEF Init, InSession, InHand, TimerHolds, AbsNext
    <2>2. /\ AbsQueue = (<<>> \o <<>>) \o <<>>
          /\ AbsDone = Pictures(<<>>, Len(<<>>), bufSeq, bufFrame)
      BY <2>1, SessionMapHolds DEF SessionMap
    <2>3. AbsQueue = <<>> /\ AbsDone = <<>>
      BY <2>2, NoPictures
    <2> QED
      BY <2>1, <2>3 DEF Capture!Init
  <1> QED
    BY <1>1, RInvInit, RInvStep, CaptureStep, PTL DEF Spec, Capture!Safety
=============================================================================
