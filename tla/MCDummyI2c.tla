----------------------------- MODULE MCDummyI2c -----------------------------
(***************************************************************************)
(* Two clients that ask for the transfers of i2c-tools and of a driver:    *)
(* the probe of an address with no data, a register read (write, then      *)
(* read), and a write to a 10-bit address.  A u32 has 4 values; no message *)
(* has more bytes than that allows.                                        *)
(***************************************************************************)
EXTENDS DummyI2c

Message(a, rd, tn, n) ==
    [addr |-> a, read |-> rd, ten |-> tn, len |-> n]

MCRequests ==
    {<<Message(80, FALSE, FALSE, 0)>>,
     <<Message(80, FALSE, FALSE, 1), Message(80, TRUE, FALSE, 3)>>,
     <<Message(127, TRUE, FALSE, 1), Message(336, FALSE, TRUE, 2),
       Message(8, FALSE, FALSE, 0)>>}
=============================================================================
