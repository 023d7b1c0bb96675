---------------------------- MODULE MCDummyVideo ----------------------------
(***************************************************************************)
(* Small instances of DummyVideo.  The animation has 3 frames instead of   *)
(* 25, an int 8 values instead of 2^32 and a size_t 16 instead of 2^64;    *)
(* as in the code the widths are powers of two and FrameCount divides      *)
(* neither, so the remainder jumps where the sign extension and the        *)
(* wrap-around make it jump.                                               *)
(***************************************************************************)
EXTENDS DummyVideo, TLC

\* The largest size queue_setup() refuses and the smallest it accepts.
MCSizes == {DUMMY_VIDEO_PLANE_SIZE - 1, DUMMY_VIDEO_PLANE_SIZE}

\* The identity of a buffer means nothing to the driver.
BufferSymmetry == Permutations(Buffers)
=============================================================================
