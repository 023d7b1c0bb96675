--------------------------- MODULE DummyI2c_proof ---------------------------
(***************************************************************************)
(* For any clients, any sequences of messages and a counter of any width:  *)
(* the interrupt routine stays inside the buffer of its message, no        *)
(* message waits for its timeout, and the engine implements SerialBus.     *)
(***************************************************************************)
EXTENDS DummyI2c, TLAPS, SequenceTheorems, WellFoundedInduction

\* byte_left-- on a counter that is not 0.
LEMMA Decrement ==
    ASSUME NEW w \in Nat \ {0}, NEW n \in 1 .. w - 1
    PROVE  (n + w - 1) % w = n - 1
  OBVIOUS

\* What is left of a division fits.
LEMMA ModRange ==
    ASSUME NEW a \in Nat, NEW w \in Nat \ {0}
    PROVE  a % w \in 0 .. w - 1
  OBVIOUS

\* addr & 0xff
LEMMA ByteRange ==
    ASSUME NEW a \in Nat
    PROVE  a % 256 \in 0 .. 255
  OBVIOUS

\* An address byte and a direction bit.
LEMMA PackedRange ==
    ASSUME NEW a \in Nat, NEW d \in {0, 1}
    PROVE  (a % 256) * 2 + d \in 0 .. 511
  OBVIOUS

\* The client in the driver waits for msgs, and the loop is at one of them.
Playing ==
    /\ pc # "idle" => request[bus] = msgs /\ msgs # <<>>
    /\ pc \notin {"idle", "return"} => i \in DOMAIN msgs
    /\ ByteInBuffer

\* The completion is armed before the interrupt routine runs and signalled
\* before anybody waits.
Signalled ==
    /\ pc \in {"start", "isr", "stop"} => complete = 0
    /\ pc = "wait" => complete = 1
    /\ NoReset

\* The direction is that of the message.
Targeted ==
    pc \in {"isr", "stop"} =>
        dir = IF msgs[i].read THEN DUMMY_I2C_BUS_DIR_RD
              ELSE DUMMY_I2C_BUS_DIR_WR

IInv == TypeOK /\ Playing /\ Signalled /\ Targeted

\* What RequestAssumption says of the messages of a request.
LEMMA MessageTypes ==
    ASSUME NEW ms \in Requests
    PROVE  /\ ms \in Seq(Messages) /\ ms # <<>>
           /\ Len(ms) \in Nat \ {0} /\ DOMAIN ms = 1 .. Len(ms)
           /\ \A k \in DOMAIN ms :
                 /\ ms[k].addr \in Nat /\ ms[k].read \in BOOLEAN
                 /\ ms[k].len \in 0 .. Width - 1
  <1>1. ms \in Seq(Messages) /\ ms # <<>>
    BY RequestAssumption
  <1>2. Len(ms) \in Nat \ {0} /\ DOMAIN ms = 1 .. Len(ms)
    BY <1>1
  <1>3. ASSUME NEW k \in DOMAIN ms PROVE ms[k] \in Messages
    BY <1>1
  <1> QED
    BY <1>1, <1>2, <1>3 DEF Messages

LEMMA IInvInit == Init => IInv
  <1> SUFFICES ASSUME Init PROVE IInv
    OBVIOUS
  <1>1. 0 \in 0 .. Width - 1
    BY WidthAssumption
  <1>2. TypeOK
    <2>1. request \in [Clients -> Requests \cup {<<>>}] /\ msgs = <<>>
      BY DEF Init
    <2>2. /\ i \in Nat /\ curr_msg \in Nat /\ byte_pos \in Nat
          /\ dir = 0 /\ addr \in 0 .. 511 /\ xaddr \in 0 .. 255
          /\ byte_left \in 0 .. Width - 1 /\ complete \in 0 .. 1
      BY <1>1 DEF Init
    <2>3. bus = NoClient /\ pc = "idle" /\ resets \in BOOLEAN
      BY DEF Init
    <2> QED
      BY <2>1, <2>2, <2>3 DEF TypeOK, Pcs, DUMMY_I2C_BUS_DIR_WR
  <1> QED
    BY <1>2
    DEF Init, IInv, Playing, Signalled, Targeted, ByteInBuffer, NoReset

LEMMA IInvStep == IInv /\ [Next]_vars => IInv'
  <1> SUFFICES ASSUME IInv, [Next]_vars PROVE IInv'
    OBVIOUS
  <1> USE DEF IInv, Playing, Signalled, Targeted, ByteInBuffer, NoReset
  <1>1. ASSUME NEW c \in Clients, NEW ms \in Requests, Ask(c, ms) PROVE IInv'
    <2>1. TypeOK'
      BY <1>1 DEF Ask, TypeOK, regs
    <2>2. pc # "idle" => bus # c
      BY <1>1 DEF Ask
    <2>3. Playing'
      BY <1>1, <2>2 DEF Ask, TypeOK, regs
    <2> QED
      BY <1>1, <2>1, <2>3 DEF Ask, regs
  <1>2. ASSUME NEW c \in Clients, Xfer(c) PROVE IInv'
    <2>1. request[c] \in Requests
      BY <1>2 DEF Xfer, TypeOK
    <2>2. TypeOK'
      BY <1>2, <2>1, ClientAssumption DEF Xfer, TypeOK, Pcs, regs
    <2>3. 1 \in DOMAIN request[c]
      BY <2>1, MessageTypes
    <2> QED
      BY <1>2, <2>2, <2>3 DEF Xfer, regs
  <1>3. CASE Reinit
    <2>1. TypeOK'
      BY <1>3 DEF Reinit, TypeOK, Pcs, regs
    <2> QED
      BY <1>3, <2>1 DEF Reinit, regs
  <1>4. CASE SendStart
    <2>1. /\ msgs \in Requests /\ i \in DOMAIN msgs /\ i \in Nat
          /\ msgs[i].len \in 0 .. Width - 1 /\ msgs[i].addr \in Nat
      <3>1. msgs \in Requests /\ i \in DOMAIN msgs /\ i \in Nat
        BY <1>4 DEF SendStart, TypeOK
      <3> QED
        BY <3>1, MessageTypes
    <2>2. msgs[i].addr % 256 \in 0 .. 255
      BY <2>1, ByteRange
    <2>3. dir' \in {0, 1} /\ addr' \in 0 .. 511 /\ xaddr' \in 0 .. 255
      <3>1. dir' \in {0, 1}
        BY <1>4 DEF SendStart, DUMMY_I2C_BUS_DIR_WR, DUMMY_I2C_BUS_DIR_RD
      <3>2. addr' = (msgs[i].addr % 256) * 2 + dir'
        BY <1>4 DEF SendStart, DUMMY_I2C_ADDR
      <3>3. xaddr' \in 0 .. 255
        BY <1>4, <2>2 DEF SendStart
      <3>4. (msgs[i].addr % 256) * 2 + dir' \in 0 .. 511
        <4> DEFINE a == msgs[i].addr
                   d == dir'
        <4>1. a \in Nat /\ d \in {0, 1}
          BY <2>1, <3>1
        <4> HIDE DEF a, d
        <4>2. (a % 256) * 2 + d \in 0 .. 511
          BY <4>1, PackedRange
        <4> QED
          BY <4>2 DEF a, d
      <3> QED
        BY <3>1, <3>2, <3>3, <3>4
    <2>4. TypeOK'
      BY <1>4, <2>1, <2>3
      DEF SendStart, TypeOK, Pcs, DUMMY_I2C_BUS_DIR_WR, DUMMY_I2C_BUS_DIR_RD
    <2>5. byte_pos' + byte_left' = msgs'[i'].len /\ curr_msg' = i'
      BY <1>4, <2>1 DEF SendStart
    <2> QED
      BY <1>4, <2>4, <2>5 DEF SendStart
  <1>5. CASE IsrByte
    <2>1. byte_left \in 0 .. Width - 1 /\ byte_pos \in Nat
      BY DEF TypeOK
    <2>2. byte_left' \in 0 .. Width - 1
      BY <1>5, <2>1, WidthAssumption, ModRange DEF IsrByte
    <2>3. CASE BytesLeft
      <3>1. byte_left' = byte_left - 1 /\ byte_pos' = byte_pos + 1
        BY <1>5, <2>1, <2>3, WidthAssumption, Decrement DEF IsrByte, BytesLeft
      <3>2. TypeOK'
        BY <1>5, <2>1, <2>2, <2>3, <3>1 DEF IsrByte, TypeOK, regs
      <3>3. byte_pos' + byte_left' = byte_pos + byte_left
        BY <2>1, <3>1
      <3> QED
        BY <1>5, <2>3, <3>2, <3>3 DEF IsrByte, regs
    <2>4. CASE ~BytesLeft
      <3>1. TypeOK'
        BY <1>5, <2>2, <2>4 DEF IsrByte, TypeOK, Pcs, regs
      <3> QED
        BY <1>5, <2>4, <3>1 DEF IsrByte, regs
    <2> QED
      BY <2>3, <2>4
  <1>6. CASE SendStop
    <2>1. TypeOK'
      BY <1>6 DEF SendStop, Completed, TypeOK, Pcs, regs
    <2> QED
      BY <1>6, <2>1 DEF SendStop, Completed, regs
  <1>7. CASE Wait
    <2>1. complete' = 0 /\ resets' = resets
      BY <1>7 DEF Wait
    <2>2. /\ i \in 1 .. Len(msgs) /\ Len(msgs) \in Nat
          /\ DOMAIN msgs = 1 .. Len(msgs)
      BY <1>7, MessageTypes DEF Wait, TypeOK
    <2>3. TypeOK'
      BY <1>7, <2>1, <2>2 DEF Wait, TypeOK, Pcs, regs
    <2>4. pc' = "reinit" => i' \in DOMAIN msgs
      BY <1>7, <2>2 DEF Wait, MoreMessages
    <2> QED
      BY <1>7, <2>1, <2>3, <2>4 DEF Wait, regs
  <1>8. CASE Return
    <2>1. TypeOK'
      BY <1>8 DEF Return, TypeOK, Pcs, regs
    <2> QED
      BY <1>8, <2>1 DEF Return, regs
  <1>9. CASE UNCHANGED vars
    BY <1>9 DEF vars, regs, TypeOK
  <1> QED
    BY <1>1, <1>2, <1>3, <1>4, <1>5, <1>6, <1>7, <1>8, <1>9 DEF Next, Engine

LEMMA IInvAlways == Spec => []IInv
  BY IInvInit, IInvStep, PTL DEF Spec

\* Every field keeps its type: byte_left stays a u32 although it is
\* decremented at 0, and no second completion is ever outstanding.
THEOREM TypeCorrect == Spec => []TypeOK
  <1>1. IInv => TypeOK
    BY DEF IInv
  <1> QED
    BY IInvAlways, <1>1, PTL

\* The loop over byte_left moves exactly the bytes of the current message,
\* whatever the counter held before it.
THEOREM ByteInBufferHolds == Spec => []ByteInBuffer
  <1>1. IInv => ByteInBuffer
    BY DEF IInv, Playing
  <1> QED
    BY IInvAlways, <1>1, PTL

\* complete() is called before anybody waits for it, and is never lost: the
\* wait does not run into its timeout and dummy_i2c_hw_init() does not run.
THEOREM NoResetHolds == Spec => []NoReset
  <1>1. IInv => NoReset
    BY DEF IInv, Signalled
  <1> QED
    BY IInvAlways, <1>1, PTL

-----------------------------------------------------------------------------
(* What a transfer looks like on the bus, message by message               *)

LEMMA LeastNat ==
    ASSUME NEW S, S \subseteq Nat, S # {}
    PROVE  \E x \in S : \A y \in S : x =< y
  <1> DEFINE R == OpToRel(<, Nat)
  <1>1. \A x, y \in Nat : y < x => <<y, x>> \in R
    BY DEF OpToRel
  <1>2. IsWellFoundedOn(R, Nat)
    BY NatLessThanWellFounded
  <1> HIDE DEF R
  <1>3. PICK x \in S : \A y \in S : ~(<<y, x>> \in R)
    BY <1>2, WFMin
  <1>4. ASSUME NEW y \in S PROVE x =< y
    <2>1. ~(y < x)
      BY <1>1, <1>3, Zenon
    <2>2. x \in Nat /\ y \in Nat
      OBVIOUS
    <2> QED
      BY <2>1, <2>2
  <1> QED
    BY <1>4

\* f is the function that FlattenSeq() computes along the first n of seqs.
IsFlat(f, seqs, n) ==
    f = [j \in 1 .. n |-> IF j = 1 THEN seqs[j] ELSE f[j - 1] \o seqs[j]]

\* There is such a function: the recursion is well-founded.
LEMMA FlatExists ==
    ASSUME NEW seqs, NEW n \in Nat
    PROVE  \E f : IsFlat(f, seqs, n)
  <1> DEFINE S == {m \in Nat : ~ \E f : IsFlat(f, seqs, m)}
  <1> SUFFICES ASSUME S # {} PROVE FALSE
    OBVIOUS
  <1>1. PICK m \in S : \A y \in S : m =< y
    BY LeastNat
  <1>2. m \in Nat /\ ~ \E f : IsFlat(f, seqs, m)
    OBVIOUS
  <1>3. CASE m = 0
    <2> DEFINE g == [j \in 1 .. 0 |-> <<>>]
    <2>1. 1 .. 0 = {}
      OBVIOUS
    <2>2. IsFlat(g, seqs, 0)
      BY <2>1 DEF IsFlat
    <2> QED
      BY <1>2, <1>3, <2>2
  <1>4. CASE m # 0
    <2>1. m - 1 \in Nat /\ ~(m =< m - 1)
      BY <1>2, <1>4
    <2>2. PICK f : IsFlat(f, seqs, m - 1)
      BY <1>1, <2>1
    <2> DEFINE g == [j \in 1 .. m |->
                       IF j = m THEN (IF m = 1 THEN seqs[m] ELSE f[m - 1] \o seqs[m])
                       ELSE f[j]]
    <2>3. ASSUME NEW j \in 1 .. m
          PROVE  g[j] = IF j = 1 THEN seqs[j] ELSE g[j - 1] \o seqs[j]
      <3>1. j # 1 => j - 1 \in 1 .. m /\ j - 1 # m /\ g[j - 1] = f[j - 1]
        BY <1>2, <2>3
      <3>2. CASE j = m
        BY <3>1, <3>2
      <3>3. CASE j # m
        <4>1. j \in 1 .. m - 1
          BY <1>2, <3>3
        <4>2. f[j] = IF j = 1 THEN seqs[j] ELSE f[j - 1] \o seqs[j]
          BY <2>2, <4>1 DEF IsFlat
        <4>3. g[j] = f[j]
          BY <3>3
        <4> QED
          BY <3>1, <4>2, <4>3
      <3> QED
        BY <3>2, <3>3
    <2>4. g = [j \in 1 .. m |-> g[j]]
      OBVIOUS
    <2> HIDE DEF g
    <2>5. IsFlat(g, seqs, m)
      BY <2>3, <2>4 DEF IsFlat
    <2> QED
      BY <1>2, <2>5
  <1> QED
    BY <1>3, <1>4

\* What it is made of is what the sequences are made of.
LEMMA FlatTypes ==
    ASSUME NEW seqs, NEW n \in Nat, NEW E, \A k \in 1 .. n : seqs[k] \in Seq(E),
           NEW f, IsFlat(f, seqs, n)
    PROVE  \A k \in 1 .. n : f[k] \in Seq(E)
  <1> DEFINE S == {k \in 1 .. n : f[k] \notin Seq(E)}
  <1> SUFFICES ASSUME S # {} PROVE FALSE
    OBVIOUS
  <1>1. S \subseteq Nat
    OBVIOUS
  <1>2. PICK k \in S : \A y \in S : k =< y
    BY <1>1, LeastNat
  <1>3. k \in 1 .. n /\ f[k] \notin Seq(E)
    OBVIOUS
  <1>4. f[k] = IF k = 1 THEN seqs[k] ELSE f[k - 1] \o seqs[k]
    BY <1>3 DEF IsFlat
  <1>5. k # 1
    BY <1>3, <1>4
  <1>6. k - 1 \in 1 .. n /\ ~(k =< k - 1)
    BY <1>3, <1>5
  <1>7. f[k - 1] \in Seq(E)
    BY <1>2, <1>6
  <1>8. f[k - 1] \o seqs[k] \in Seq(E)
    BY <1>3, <1>7, ConcatProperties
  <1> QED
    BY <1>3, <1>4, <1>5, <1>8

LEMMA FlattenIs ==
    ASSUME NEW seqs, Len(seqs) \in Nat \ {0}
    PROVE  \E f : IsFlat(f, seqs, Len(seqs)) /\ Bus!FlattenSeq(seqs) = f[Len(seqs)]
  <1> DEFINE f == CHOOSE f : IsFlat(f, seqs, Len(seqs))
  <1>1. IsFlat(f, seqs, Len(seqs))
    BY FlatExists, Zenon
  <1>2. Bus!FlattenSeq(seqs) = f[Len(seqs)]
    BY Zenon DEF Bus!FlattenSeq, IsFlat
  <1> QED
    BY <1>1, <1>2

Events ==
    [event : {"start"}, msg : Nat] \cup [event : {"stop"}]
      \cup [event : {"read", "write"}, msg : Nat, pos : Nat]

Start(k) == [event |-> "start", msg |-> k]
Stop == [event |-> "stop"]
Byte(ms, k, p) ==
    [event |-> IF ms[k].read THEN "read" ELSE "write", msg |-> k, pos |-> p]

\* The first n bytes of message k.
Bytes(ms, k, n) == [j \in 1 .. n |-> Byte(ms, k, j - 1)]

LEMMA EventTypes ==
    ASSUME NEW ms, NEW k \in Nat, NEW p \in Nat
    PROVE  Start(k) \in Events /\ Stop \in Events /\ Byte(ms, k, p) \in Events
  BY DEF Start, Stop, Byte, Events

LEMMA FunctionIsSeq ==
    ASSUME NEW n \in Nat, NEW S, NEW f \in [1 .. n -> S]
    PROVE  f \in Seq(S) /\ Len(f) = n
  OBVIOUS

LEMMA BytesTypes ==
    ASSUME NEW ms, NEW k \in Nat, NEW n \in Nat
    PROVE  Bytes(ms, k, n) \in Seq(Events) /\ Len(Bytes(ms, k, n)) = n
  <1>1. \A j \in 1 .. n : Byte(ms, k, j - 1) \in Events
    <2> TAKE j \in 1 .. n
    <2>1. j - 1 \in Nat
      OBVIOUS
    <2> QED
      BY <2>1, EventTypes
  <1>2. Bytes(ms, k, n) \in [1 .. n -> Events]
    BY <1>1 DEF Bytes
  <1> QED
    BY <1>2, FunctionIsSeq

LEMMA NoBytes == ASSUME NEW ms, NEW k PROVE Bytes(ms, k, 0) = <<>>
  BY DEF Bytes

LEMMA BytesMore ==
    ASSUME NEW ms, NEW k \in Nat, NEW n \in Nat
    PROVE  Bytes(ms, k, n + 1) = Append(Bytes(ms, k, n), Byte(ms, k, n))
  <1> DEFINE less == Bytes(ms, k, n)
             more == Bytes(ms, k, n + 1)
             b == Byte(ms, k, n)
  <1>1. /\ less \in Seq(Events) /\ Len(less) = n
        /\ more \in Seq(Events) /\ Len(more) = n + 1 /\ b \in Events
    BY BytesTypes, EventTypes
  <1>2. /\ \A j \in 1 .. n : more[j] = less[j]
        /\ more[n + 1] = b
    <2>1. (n + 1) - 1 = n /\ n + 1 \in 1 .. n + 1 /\ 1 .. n \subseteq 1 .. n + 1
      OBVIOUS
    <2> QED
      BY <2>1 DEF Bytes
  <1> HIDE DEF less, more, b
  <1>3. /\ Append(less, b) \in Seq(Events) /\ Len(Append(less, b)) = n + 1
        /\ \A j \in 1 .. n : Append(less, b)[j] = less[j]
        /\ Append(less, b)[n + 1] = b
    BY <1>1, AppendProperties
  <1>4. \A j \in 1 .. n + 1 : more[j] = Append(less, b)[j]
    <2> TAKE j \in 1 .. n + 1
    <2>1. j \in 1 .. n \/ j = n + 1
      OBVIOUS
    <2> QED
      BY <1>2, <1>3, <2>1
  <1>5. more = Append(less, b)
    BY <1>1, <1>3, <1>4, SeqEqual
  <1> QED
    BY <1>5 DEF less, more, b

\* Bus!Played, in these words.
LEMMA PlayedIs ==
    ASSUME NEW ms \in Requests, NEW k \in DOMAIN ms
    PROVE  /\ Bus!Played(ms, k) = (<<Start(k)>> \o Bytes(ms, k, ms[k].len)) \o <<Stop>>
           /\ Bus!Played(ms, k) \in Seq(Events)
  <1>1. k \in Nat /\ ms[k].len \in Nat
    BY MessageTypes, WidthAssumption
  <1>2. Bus!Played(ms, k) = (<<Start(k)>> \o Bytes(ms, k, ms[k].len)) \o <<Stop>>
    BY DEF Bus!Played, Start, Stop, Bytes, Byte
  <1>3. /\ <<Start(k)>> \in Seq(Events) /\ <<Stop>> \in Seq(Events)
        /\ Bytes(ms, k, ms[k].len) \in Seq(Events)
    <2>1. Start(k) \in Events /\ Stop \in Events
      <3>1. 0 \in Nat
        OBVIOUS
      <3> QED
        BY <1>1, <3>1, EventTypes
    <2>2. Bytes(ms, k, ms[k].len) \in Seq(Events)
      BY <1>1, BytesTypes
    <2> QED
      BY <2>1, <2>2
  <1>4. <<Start(k)>> \o Bytes(ms, k, ms[k].len) \in Seq(Events)
    BY <1>3, ConcatProperties
  <1>5. (<<Start(k)>> \o Bytes(ms, k, ms[k].len)) \o <<Stop>> \in Seq(Events)
    BY <1>3, <1>4, ConcatProperties
  <1> QED
    BY <1>2, <1>5

\* b[k] is what is on the bus before message k.
IsBefore(b, ms) ==
    /\ b[1] = <<>>
    /\ \A k \in 1 .. Len(ms) + 1 : b[k] \in Seq(Events)
    /\ \A k \in 1 .. Len(ms) : b[k + 1] = b[k] \o Bus!Played(ms, k)
    /\ Bus!Frames(ms) = b[Len(ms) + 1]

Before(ms) == CHOOSE b : IsBefore(b, ms)

LEMMA BeforeExists ==
    ASSUME NEW ms \in Requests
    PROVE  IsBefore(Before(ms), ms)
  <1> DEFINE n == Len(ms)
             seqs == [k \in DOMAIN ms |-> Bus!Played(ms, k)]
  <1>1. n \in Nat \ {0} /\ DOMAIN ms = 1 .. n
    BY MessageTypes
  <1>2. \A k \in 1 .. n : seqs[k] = Bus!Played(ms, k) /\ seqs[k] \in Seq(Events)
    BY <1>1, PlayedIs
  <1>3. Len(seqs) = n
    <2>1. seqs \in [1 .. n -> Seq(Events)]
      BY <1>1, <1>2
    <2> HIDE DEF seqs, n
    <2> QED
      BY <1>1, <2>1, FunctionIsSeq
  <1>4. Bus!Frames(ms) = Bus!FlattenSeq(seqs)
    BY DEF Bus!Frames
  <1> HIDE DEF seqs, n
  <1>5. PICK f : IsFlat(f, seqs, n) /\ Bus!FlattenSeq(seqs) = f[n]
    BY <1>1, <1>3, FlattenIs
  <1>6. \A k \in 1 .. n : f[k] \in Seq(Events)
    BY <1>1, <1>2, <1>5, FlatTypes
  <1>7. \A k \in 1 .. n : f[k] = IF k = 1 THEN seqs[k] ELSE f[k - 1] \o seqs[k]
    BY <1>5 DEF IsFlat
  <1> DEFINE b == [k \in 1 .. n + 1 |-> IF k = 1 THEN <<>> ELSE f[k - 1]]
  <1>8. b[1] = <<>>
    BY <1>1
  <1>9. \A k \in 1 .. n : b[k + 1] = f[k]
    <2> TAKE k \in 1 .. n
    <2>1. k + 1 \in 1 .. n + 1 /\ k + 1 # 1 /\ (k + 1) - 1 = k
      BY <1>1
    <2> QED
      BY <2>1
  <1>10. \A k \in 1 .. n + 1 : b[k] \in Seq(Events)
    <2> TAKE k \in 1 .. n + 1
    <2>1. k = 1 \/ (k # 1 /\ k - 1 \in 1 .. n)
      BY <1>1
    <2> QED
      BY <1>6, <2>1
  <1>11. ASSUME NEW k \in 1 .. n PROVE b[k + 1] = b[k] \o Bus!Played(ms, k)
    <2>1. f[k] = IF k = 1 THEN seqs[k] ELSE f[k - 1] \o seqs[k]
      BY <1>7
    <2>2. CASE k = 1
      <3>1. b[k] = <<>> /\ b[k + 1] = seqs[k]
        BY <1>8, <1>9, <2>1, <2>2
      <3>2. <<>> \o seqs[k] = seqs[k]
        BY <1>2, ConcatEmptySeq
      <3> QED
        BY <1>2, <3>1, <3>2
    <2>3. CASE k # 1
      <3>1. k - 1 \in 1 .. n /\ (k - 1) + 1 = k
        BY <1>1, <2>3
      <3>2. b[k] = f[k - 1]
        BY <1>9, <3>1
      <3> QED
        BY <1>2, <1>9, <2>1, <2>3, <3>2
    <2> QED
      BY <2>2, <2>3
  <1>12. Bus!Frames(ms) = b[n + 1]
    BY <1>1, <1>4, <1>5, <1>9
  <1> HIDE DEF b
  <1>13. IsBefore(b, ms)
    BY <1>8, <1>10, <1>11, <1>12 DEF IsBefore, n
  <1> QED
    BY <1>13, Zenon DEF Before

-----------------------------------------------------------------------------
(* The abstract bus                                                        *)

\* What the transfer has done on the bus when its client is at pc.
Begun == (Before(msgs)[i] \o <<Start(i)>>) \o Bytes(msgs, i, byte_pos)

Wired ==
    /\ pc \in {"reinit", "start"} => wire = Before(msgs)[i]
    /\ pc \in {"isr", "stop"} => wire = Begun
    /\ pc = "stop" => byte_pos = msgs[i].len /\ curr_msg = i
    /\ pc = "wait" => wire = Before(msgs)[i] \o Bus!Played(msgs, i)
    /\ pc = "return" => wire = Bus!Frames(msgs)

\* The message that is played.
LEMMA Current ==
    ASSUME IInv, pc \notin {"idle", "return"}
    PROVE  /\ msgs \in Requests /\ i \in DOMAIN msgs /\ i \in Nat
           /\ Len(msgs) \in Nat /\ i \in 1 .. Len(msgs) /\ i \in 1 .. Len(msgs) + 1
           /\ msgs[i].len \in Nat
           /\ Before(msgs)[i] \in Seq(Events) /\ Before(msgs)[1] = <<>>
           /\ Before(msgs)[i + 1] = Before(msgs)[i] \o Bus!Played(msgs, i)
           /\ Bus!Frames(msgs) = Before(msgs)[Len(msgs) + 1]
  <1>1. msgs \in Requests /\ i \in DOMAIN msgs /\ i \in Nat
    BY DEF IInv, TypeOK, Playing
  <1>2. Len(msgs) \in Nat /\ i \in 1 .. Len(msgs) /\ msgs[i].len \in Nat
    BY <1>1, MessageTypes, WidthAssumption
  <1>3. i \in 1 .. Len(msgs) + 1
    BY <1>2
  <1>4. IsBefore(Before(msgs), msgs)
    BY <1>1, BeforeExists
  <1> QED
    BY <1>1, <1>2, <1>3, <1>4 DEF IsBefore

LEMMA WiredStep == IInv /\ Wired /\ [Next]_vars => Wired'
  <1> SUFFICES ASSUME IInv, Wired, [Next]_vars PROVE Wired'
    OBVIOUS
  <1>1. ASSUME NEW c \in Clients, NEW ms \in Requests, Ask(c, ms) PROVE Wired'
    BY <1>1 DEF Ask, Wired, Begun
  <1>2. ASSUME NEW c \in Clients, Xfer(c) PROVE Wired'
    <2>1. request[c] \in Requests
      BY <1>2 DEF Xfer, IInv, TypeOK
    <2>2. Before(request[c])[1] = <<>>
      BY <2>1, BeforeExists DEF IsBefore
    <2>3. pc' = "reinit" /\ wire' = <<>> /\ msgs' = request[c] /\ i' = 1
      BY <1>2 DEF Xfer
    <2>4. wire' = Before(msgs')[i']
      BY <2>2, <2>3
    <2> QED
      BY <2>3, <2>4 DEF Wired
  <1>3. CASE Reinit
    BY <1>3 DEF Reinit, Wired
  <1>4. CASE SendStart
    <2>1. wire = Before(msgs)[i] /\ pc \notin {"idle", "return"}
      BY <1>4 DEF SendStart, Wired
    <2>2. /\ wire' = Append(wire, Start(i)) /\ byte_pos' = 0 /\ pc' = "isr"
          /\ UNCHANGED <<msgs, i>>
      BY <1>4 DEF SendStart, Event, Start
    <2>3. wire \in Seq(Events) /\ Start(i) \in Events
      <3>1. i \in Nat /\ 0 \in Nat /\ wire \in Seq(Events)
        BY <2>1, Current
      <3> QED
        BY <3>1, EventTypes
    <2>4. wire' = wire \o <<Start(i)>> /\ wire' \in Seq(Events)
      BY <2>2, <2>3, AppendIsConcat, AppendProperties
    <2>5. wire' \o <<>> = wire'
      BY <2>4, ConcatEmptySeq
    <2>6. Begun' = (Before(msgs)[i] \o <<Start(i)>>) \o <<>>
      BY <2>2, NoBytes DEF Begun
    <2> QED
      BY <2>1, <2>2, <2>4, <2>5, <2>6 DEF Wired
  <1>5. CASE IsrByte
    <2>1. /\ pc = "isr" /\ wire = Begun /\ byte_pos \in Nat /\ byte_left \in Nat
          /\ byte_pos + byte_left = msgs[i].len /\ curr_msg = i
          /\ UNCHANGED <<msgs, i, curr_msg>>
      BY <1>5, WidthAssumption
      DEF IsrByte, Wired, IInv, TypeOK, Playing, ByteInBuffer
    <2>2. CASE BytesLeft
      <3>1. /\ wire' = Append(wire, Byte(msgs, i, byte_pos))
            /\ byte_pos' = byte_pos + 1 /\ pc' = "isr"
        BY <1>5, <2>1, <2>2
        DEF IsrByte, Event, Byte, IInv, Targeted, DUMMY_I2C_BUS_DIR_WR,
            DUMMY_I2C_BUS_DIR_RD
      <3> DEFINE h == Before(msgs)[i] \o <<Start(i)>>
                 t == Bytes(msgs, i, byte_pos)
                 b == Byte(msgs, i, byte_pos)
      <3>2. /\ Before(msgs)[i] \in Seq(Events) /\ <<Start(i)>> \in Seq(Events)
            /\ t \in Seq(Events) /\ b \in Events
        <4>1. i \in Nat /\ Before(msgs)[i] \in Seq(Events)
          BY <2>1, Current
        <4>2. Start(i) \in Events /\ b \in Events
          BY <2>1, <4>1, EventTypes
        <4>3. t \in Seq(Events)
          BY <2>1, <4>1, BytesTypes
        <4> QED
          BY <4>1, <4>2, <4>3
      <3>3. h \in Seq(Events)
        BY <3>2, ConcatProperties
      <3>4. Bytes(msgs, i, byte_pos + 1) = Append(t, b)
        <4>1. i \in Nat
          BY <2>1, Current
        <4> QED
          BY <2>1, <4>1, BytesMore
      <3>5. Begun' = h \o Append(t, b) /\ wire' = Append(h \o t, b)
        BY <2>1, <3>1, <3>4 DEF Begun
      <3> HIDE DEF h, t, b
      <3>6. h \o t \in Seq(Events) /\ <<b>> \in Seq(Events)
        BY <3>2, <3>3, ConcatProperties
      <3>7. Append(h \o t, b) = (h \o t) \o <<b>> /\ Append(t, b) = t \o <<b>>
        BY <3>2, <3>6, AppendIsConcat
      <3>8. (h \o t) \o <<b>> = h \o (t \o <<b>>)
        BY <3>2, <3>3, <3>6, ConcatAssociative
      <3>9. wire' = Begun'
        BY <3>5, <3>7, <3>8
      <3> QED
        BY <3>1, <3>9 DEF Wired
    <2>3. CASE ~BytesLeft
      <3>1. wire' = wire /\ byte_pos' = byte_pos /\ pc' = "stop"
        BY <1>5, <2>3 DEF IsrByte
      <3>2. byte_pos = msgs[i].len
        BY <2>1, <2>3 DEF BytesLeft
      <3> QED
        BY <2>1, <3>1, <3>2 DEF Wired, Begun
    <2> QED
      BY <2>2, <2>3
  <1>6. CASE SendStop
    <2>1. /\ pc = "stop" /\ wire = Begun /\ byte_pos = msgs[i].len
          /\ wire' = Append(wire, Stop) /\ pc' = "wait" /\ UNCHANGED <<msgs, i>>
      BY <1>6 DEF SendStop, Event, Stop, Wired
    <2> DEFINE p == Before(msgs)[i]
               s == <<Start(i)>>
               t == Bytes(msgs, i, msgs[i].len)
               e == <<Stop>>
    <2>2. /\ p \in Seq(Events) /\ s \in Seq(Events) /\ t \in Seq(Events)
          /\ e \in Seq(Events) /\ Stop \in Events
      <3>1. i \in Nat /\ msgs[i].len \in Nat /\ p \in Seq(Events)
        BY <2>1, Current
      <3>2. Start(i) \in Events /\ Stop \in Events
        BY <3>1, EventTypes
      <3>3. t \in Seq(Events)
        BY <3>1, BytesTypes
      <3> QED
        BY <3>1, <3>2, <3>3
    <2>3. Bus!Played(msgs, i) = (s \o t) \o e
      <3>1. msgs \in Requests /\ i \in DOMAIN msgs
        BY <2>1, Current
      <3> QED
        BY <3>1, PlayedIs
    <2>4. wire = (p \o s) \o t
      BY <2>1 DEF Begun
    <2>5. wire \in Seq(Events) => wire' = wire \o e
      BY <2>1, <2>2, AppendIsConcat
    <2> HIDE DEF p, s, t, e
    <2>6. s \o t \in Seq(Events) /\ p \o s \in Seq(Events)
      BY <2>2, ConcatProperties
    <2>7. (p \o s) \o t = p \o (s \o t) /\ (p \o s) \o t \in Seq(Events)
      BY <2>2, <2>6, ConcatAssociative, ConcatProperties
    <2>8. (p \o (s \o t)) \o e = p \o ((s \o t) \o e)
      BY <2>2, <2>6, ConcatAssociative
    <2>9. wire' = p \o Bus!Played(msgs, i)
      BY <2>3, <2>4, <2>5, <2>7, <2>8
    <2> QED
      BY <2>1, <2>9 DEF Wired, p
  <1>7. CASE Wait
    <2>1. /\ pc = "wait" /\ wire = Before(msgs)[i] \o Bus!Played(msgs, i)
          /\ i' = i + 1 /\ UNCHANGED <<msgs, wire>>
          /\ pc' = IF i < Len(msgs) THEN "reinit" ELSE "return"
      BY <1>7 DEF Wait, Wired, MoreMessages
    <2>2. wire = Before(msgs)[i + 1]
      BY <2>1, Current
    <2>3. CASE i < Len(msgs)
      BY <2>1, <2>2, <2>3 DEF Wired
    <2>4. CASE ~(i < Len(msgs))
      <3>1. i + 1 = Len(msgs) + 1
        BY <2>1, <2>4, Current
      <3>2. wire' = Bus!Frames(msgs')
        BY <2>1, <2>2, <3>1, Current
      <3> QED
        BY <2>1, <2>4, <3>2 DEF Wired
    <2> QED
      BY <2>3, <2>4
  <1>8. CASE Return
    BY <1>8 DEF Return, Wired
  <1>9. CASE UNCHANGED vars
    BY <1>9 DEF vars, regs, Wired, Begun
  <1> QED
    BY <1>1, <1>2, <1>3, <1>4, <1>5, <1>6, <1>7, <1>8, <1>9 DEF Next, Engine

\* The engine implements the abstract bus: whatever the clients ask for, each
\* transfer is on the bus whole, every byte of every message once and in
\* order, with nothing of another client in between.
THEOREM EngineImplementsBus == Spec => Bus!Safety
  <1>1. Init => Bus!Init
    BY DEF Init, Bus!Init
  <1>2. Init => Wired
    BY DEF Init, Wired
  <1>3. IInv /\ Wired /\ [Next]_vars => [Bus!Next]_(Bus!bvars)
    <2> SUFFICES ASSUME IInv, Wired, [Next]_vars
                 PROVE  [Bus!Next]_(Bus!bvars)
      OBVIOUS
    <2>1. ASSUME NEW c \in Clients, NEW ms \in Requests, Ask(c, ms) PROVE Bus!Next
      BY <2>1 DEF Ask, Bus!Next, Bus!Ask
    <2>2. CASE Return
      <3>1. bus \in Clients /\ request[bus] = msgs /\ msgs # <<>>
        BY <2>2 DEF Return, IInv, TypeOK, Playing
      <3>2. wire = Bus!Frames(msgs)
        BY <2>2 DEF Return, Wired
      <3>3. Bus!Serve(bus)
        BY <2>2, <3>1, <3>2 DEF Return, Bus!Serve
      <3> QED
        BY <3>1, <3>3 DEF Bus!Next
    <2>3. CASE UNCHANGED <<request, last>>
      BY <2>3 DEF Bus!bvars
    <2>4. ASSUME NEW c \in Clients, Xfer(c) PROVE UNCHANGED <<request, last>>
      BY <2>4 DEF Xfer
    <2>5. CASE Reinit \/ SendStart \/ IsrByte \/ SendStop \/ Wait \/ UNCHANGED vars
      BY <2>3, <2>5 DEF Reinit, SendStart, IsrByte, SendStop, Wait, vars
    <2> QED
      BY <2>1, <2>2, <2>3, <2>4, <2>5 DEF Next, Engine
  <1> QED
    BY <1>1, <1>2, <1>3, IInvInit, IInvStep, WiredStep, PTL DEF Spec, Bus!Safety
=============================================================================
