---------------------------- MODULE CaptureQueue ----------------------------
(***************************************************************************)
(* What a video capture device promises the application that streams from  *)
(* it, whatever the driver does inside.  Buffers are filled in the order   *)
(* they were submitted, each exactly once; the frames of one streaming     *)
(* session are numbered 0, 1, 2, ... without a gap and each holds the      *)
(* picture its number calls for; stopping gives every buffer back at once, *)
(* and nothing is filled afterwards.                                       *)
(*                                                                         *)
(* DummyVideo implements this specification (DummyVideo!Capture).          *)
(***************************************************************************)
EXTENDS Integers, Sequences, Functions

CONSTANTS
    Buffers,    \* the capture buffers
    SeqLimit,   \* frame numbers are taken modulo SeqLimit
    FrameOf     \* FrameOf[s] is the picture shown by frame number s

VARIABLES
    queue,      \* buffers submitted and not filled yet, oldest first
    done,       \* filled buffers the application has not collected yet
    streaming,  \* is a session running?
    next        \* number of the next frame of the session

cvars == <<queue, done, streaming, next>>

Filled(b, s) == [buf |-> b, seq |-> s, frame |-> FrameOf[s]]

Init ==
    /\ queue = <<>>
    /\ done = <<>>
    /\ streaming = FALSE
    /\ next = 0

\* The application hands over a buffer the device does not have.
Submit(b) ==
    /\ b \notin Range(queue)
    /\ \A i \in DOMAIN done : done[i].buf # b
    /\ queue' = Append(queue, b)
    /\ UNCHANGED <<done, streaming, next>>

Start ==
    /\ ~streaming
    /\ streaming' = TRUE
    /\ next' = 0
    /\ UNCHANGED <<queue, done>>

\* The oldest submitted buffer gets the next frame.
Fill ==
    /\ streaming
    /\ queue # <<>>
    /\ done' = Append(done, Filled(Head(queue), next))
    /\ queue' = Tail(queue)
    /\ next' = (next + 1) % SeqLimit
    /\ UNCHANGED streaming

\* The application collects the oldest filled buffer.
Collect ==
    /\ streaming
    /\ done # <<>>
    /\ done' = Tail(done)
    /\ UNCHANGED <<queue, streaming, next>>

\* The session ends and every buffer is the application's again.
Cancel ==
    /\ queue' = <<>>
    /\ done' = <<>>
    /\ streaming' = FALSE
    /\ UNCHANGED next

Next ==
    \/ \E b \in Buffers : Submit(b)
    \/ Start
    \/ Fill
    \/ Collect
    \/ Cancel

Safety == Init /\ [][Next]_cvars

\* A running session keeps filling the buffers it is given.
Spec == Safety /\ WF_cvars(Fill)
=============================================================================
