------------------------------ MODULE DummyI2c ------------------------------
(***************************************************************************)
(* The transfer engine of i2c/i2c.c.  dummy_i2c_xfer() leaves the messages *)
(* in struct dummy_i2c, and dummy_i2c_do_msgs() plays them one by one: it  *)
(* re-arms the completion, sends the start condition, and waits for the    *)
(* interrupt routine, which moves the bytes, to complete the message.      *)
(* There is no hardware: dummy_i2c_send_start() calls the routine itself.  *)
(*                                                                         *)
(* Actors: the clients of the adapter.  The I2C core (external) lets one   *)
(* of them at a time into the driver, by the adapter's bus lock; msgs,     *)
(* curr_msg and the byte counters are shared and have no lock of their own.*)
(***************************************************************************)
EXTENDS Integers, Sequences

CONSTANTS
    Clients,     \* drivers and /dev/i2c-N users on this bus
    NoClient,    \* "nobody"
    Requests,    \* the message sequences they ask for
    Width        \* number of values of a u32 (2^32)

\* struct i2c_msg: 10-bit addresses need more than 7 bits, a length fits a u32.
Messages ==
    [addr : Nat, read : BOOLEAN, ten : BOOLEAN, len : 0 .. Width - 1]

ASSUME ClientAssumption == NoClient \notin Clients
ASSUME WidthAssumption == Width \in Nat \ {0}
ASSUME RequestAssumption == Requests \subseteq Seq(Messages) \ {<<>>}

VARIABLES
    request,     \* the messages of each client's i2c_transfer(), <<>> for none
    bus,         \* who holds the adapter's bus lock
    pc,          \* where in the driver that client is
    msgs,        \* i2c->msgs, with mum_msgs its length
    i,           \* loop counter of dummy_i2c_do_msgs()
    curr_msg,    \* i2c->curr_msg, as an index of msgs
    dir, addr, xaddr, byte_left, byte_pos,   \* fields of struct dummy_i2c
    complete,    \* i2c->complete, the number of completions not consumed
    resets,      \* has dummy_i2c_hw_init() run in this transfer?
    wire,        \* what this transfer has done on the bus
    last         \* the client served last, and its transfer on the bus

regs == <<dir, addr, xaddr>>
vars == <<request, bus, pc, msgs, i, curr_msg, regs, byte_left, byte_pos,
          complete, resets, wire, last>>

Pcs == {"idle", "reinit", "start", "isr", "stop", "wait", "return"}

DUMMY_I2C_BUS_DIR_WR == 0
DUMMY_I2C_BUS_DIR_RD == 1

DUMMY_I2C_ADDR(a) == (a % 256) * 2

Event(e) == wire' = Append(wire, e)

-----------------------------------------------------------------------------
\* A client calls i2c_transfer().
Ask(c, ms) ==
    /\ request[c] = <<>>
    /\ request' = [request EXCEPT ![c] = ms]
    /\ UNCHANGED <<bus, pc, msgs, i, curr_msg, regs, byte_left, byte_pos,
                   complete, resets, wire, last>>

\* The core takes the bus lock for it and calls dummy_i2c_xfer().
Xfer(c) ==
    /\ request[c] # <<>>
    /\ bus = NoClient
    /\ bus' = c
    /\ msgs' = request[c]
    /\ i' = 1
    /\ pc' = "reinit"
    /\ wire' = <<>> /\ resets' = FALSE
    /\ UNCHANGED <<request, curr_msg, regs, byte_left, byte_pos, complete, last>>

\* reinit_completion(), at the top of the loop.
Reinit ==
    /\ pc = "reinit"
    /\ complete' = 0
    /\ pc' = "start"
    /\ UNCHANGED <<request, bus, msgs, i, curr_msg, regs, byte_left, byte_pos,
                   resets, wire, last>>

\* dummy_i2c_send_start(), which calls dummy_i2c_isr() in the end.
SendStart ==
    /\ pc = "start"
    /\ curr_msg' = i
    /\ byte_left' = msgs[i].len
    /\ byte_pos' = 0
    /\ dir' = IF msgs[i].read THEN DUMMY_I2C_BUS_DIR_RD
              ELSE DUMMY_I2C_BUS_DIR_WR
    /\ addr' = DUMMY_I2C_ADDR(msgs[i].addr) + dir'
    /\ xaddr' = IF msgs[i].ten THEN msgs[i].addr % 256 ELSE 0
    /\ Event([event |-> "start", msg |-> i])
    /\ pc' = "isr"
    /\ UNCHANGED <<request, bus, msgs, i, complete, resets, last>>

\* Faulty variant: --byte_left.
BytesLeft_PreDecrement == byte_left # 1

BytesLeft == byte_left # 0

\* "for (; byte_left--; byte_pos++)": the test is on the value before the
\* decrement, which takes byte_left from 0 to the largest u32.
IsrByte ==
    /\ pc = "isr"
    /\ byte_left' = (byte_left + Width - 1) % Width
    /\ IF BytesLeft
       THEN /\ Event([event |-> IF dir = DUMMY_I2C_BUS_DIR_WR THEN "write"
                                ELSE "read",
                      msg |-> curr_msg, pos |-> byte_pos])
            /\ byte_pos' = byte_pos + 1
            /\ UNCHANGED pc
       ELSE pc' = "stop" /\ UNCHANGED <<wire, byte_pos>>
    /\ UNCHANGED <<request, bus, msgs, i, curr_msg, regs, complete, resets, last>>

\* Faulty variants: complete() is forgotten; is called in the interrupt
\* routine, too.
Completed_Never == complete
Completed_Twice == complete + 2

Completed == complete + 1

\* dummy_i2c_send_stop() and dummy_i2c_clear_irq(), which leaves cntr_bits,
\* where the interrupt flag is never set, as it is.
SendStop ==
    /\ pc = "stop"
    /\ Event([event |-> "stop"])
    /\ complete' = Completed
    /\ pc' = "wait"
    /\ UNCHANGED <<request, bus, msgs, i, curr_msg, regs, byte_left, byte_pos,
                   resets, last>>

\* Faulty variant: the loop ends one message early.
MoreMessages_Short == i + 1 < Len(msgs)

MoreMessages == i < Len(msgs)

\* wait_for_completion_timeout(): consumes a completion, or sleeps until the
\* timeout and has the hardware reset.  Then the next message.
Wait ==
    /\ pc = "wait"
    /\ IF complete > 0 THEN complete' = complete - 1 /\ UNCHANGED resets
       ELSE resets' = TRUE /\ UNCHANGED complete
    /\ i' = i + 1
    /\ pc' = IF MoreMessages THEN "reinit" ELSE "return"
    /\ UNCHANGED <<request, bus, msgs, curr_msg, regs, byte_left, byte_pos,
                   wire, last>>

\* dummy_i2c_xfer() returns num, whatever happened: the core does not retry,
\* releases the bus lock and returns to the client.
Return ==
    /\ pc = "return"
    /\ last' = <<bus, wire>>
    /\ request' = [request EXCEPT ![bus] = <<>>]
    /\ bus' = NoClient
    /\ pc' = "idle"
    /\ UNCHANGED <<msgs, i, curr_msg, regs, byte_left, byte_pos, complete,
                   resets, wire>>

\* dummy_i2c_register() has run.
Init ==
    /\ request = [c \in Clients |-> <<>>]
    /\ bus = NoClient /\ pc = "idle"
    /\ msgs = <<>> /\ i = 0 /\ curr_msg = 0
    /\ dir = 0 /\ addr = 0 /\ xaddr = 0 /\ byte_left = 0 /\ byte_pos = 0
    /\ complete = 0 /\ resets = FALSE
    /\ wire = <<>> /\ last = <<>>

Engine == Reinit \/ SendStart \/ IsrByte \/ SendStop \/ Wait \/ Return

Next ==
    \/ \E c \in Clients : Xfer(c) \/ \E ms \in Requests : Ask(c, ms)
    \/ Engine

Spec == Init /\ [][Next]_vars

\* The client in the driver goes on, and the bus lock, an rt_mutex with a
\* queue of waiters, is granted to each of those who wait.
Fairness == WF_vars(Engine) /\ \A c \in Clients : SF_vars(Xfer(c))

FairSpec == Spec /\ Fairness
-----------------------------------------------------------------------------
(* Properties                                                              *)

\* Every variable keeps its type: the counter stays a u32 and at most one
\* completion is outstanding.
TypeOK ==
    /\ request \in [Clients -> Requests \cup {<<>>}]
    /\ bus \in Clients \cup {NoClient} /\ pc \in Pcs
    /\ pc = "idle" <=> bus = NoClient
    /\ msgs \in Requests \cup {<<>>}
    /\ i \in Nat /\ curr_msg \in Nat
    /\ dir \in {DUMMY_I2C_BUS_DIR_WR, DUMMY_I2C_BUS_DIR_RD}
    /\ addr \in 0 .. 511 /\ xaddr \in 0 .. 255
    /\ byte_left \in 0 .. Width - 1 /\ byte_pos \in Nat
    /\ complete \in 0 .. 1 /\ resets \in BOOLEAN

\* While the interrupt routine moves bytes, what is done and what is left add
\* up to the message: no byte outside its buffer is read or written, although
\* byte_left is beyond every buffer between two messages.
ByteInBuffer ==
    pc = "isr" => byte_pos + byte_left = msgs[i].len /\ curr_msg = i

\* No message waits for its timeout, and the hardware is not reset under a
\* transfer: the completion that arrives before anybody waits for it is not
\* lost to the reinit_completion() of any message.
NoReset == ~resets

\* The engine implements the abstract bus: transfers are played whole, in
\* order and one at a time, for every client that asks.
Bus == INSTANCE SerialBus WITH asked <- request, log <- last
BusRefined == Bus!Spec
=============================================================================
