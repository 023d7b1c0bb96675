----------------------------- MODULE SerialBus -----------------------------
(***************************************************************************)
(* What an I2C adapter promises its clients.  A transfer is a sequence of  *)
(* messages; it is played on the bus whole, every byte of every message    *)
(* once and in order, with nothing of another client in between, and every *)
(* client that asks is served.                                             *)
(*                                                                         *)
(* DummyI2c implements this specification (DummyI2c!Bus).                  *)
(***************************************************************************)
EXTENDS Integers, Sequences, SequencesExt

CONSTANTS
    Clients,     \* those who may ask for a transfer
    Requests     \* sequences of messages [addr, read, ten, len]

VARIABLES
    asked,       \* the transfer each client waits for, <<>> for none
    log          \* who was served last, and what was seen on the bus

bvars == <<asked, log>>

\* One message on the bus: start, its bytes, stop.
Played(msgs, i) ==
    <<[event |-> "start", msg |-> i]>>
      \o [k \in 1 .. msgs[i].len |->
            [event |-> IF msgs[i].read THEN "read" ELSE "write",
             msg |-> i, pos |-> k - 1]]
      \o <<[event |-> "stop"]>>

Frames(msgs) == FlattenSeq([i \in DOMAIN msgs |-> Played(msgs, i)])

Init ==
    /\ asked = [c \in Clients |-> <<>>]
    /\ log = <<>>

Ask(c, msgs) ==
    /\ asked[c] = <<>>
    /\ asked' = [asked EXCEPT ![c] = msgs]
    /\ UNCHANGED log

Serve(c) ==
    /\ asked[c] # <<>>
    /\ asked' = [asked EXCEPT ![c] = <<>>]
    /\ log' = <<c, Frames(asked[c])>>

Next == \E c \in Clients : Serve(c) \/ \E msgs \in Requests : Ask(c, msgs)

Safety == Init /\ [][Next]_bvars

Spec == Safety /\ \A c \in Clients : WF_bvars(Serve(c))
=============================================================================
