---------------------------- MODULE MCVideoNode ----------------------------
(***************************************************************************)
(* Two files compete for a queue of two buffers, and the module may be     *)
(* unloaded.  The constants of the animation are those of MCDummyVideo,    *)
(* one power of two smaller.                                               *)
(***************************************************************************)
EXTENDS VideoNode

\* The largest size queue_setup() refuses and the smallest it accepts.
MCSizes == {DUMMY_VIDEO_PLANE_SIZE - 1, DUMMY_VIDEO_PLANE_SIZE}
=============================================================================
