---------------------------- MODULE MCDeferredIo ----------------------------
(***************************************************************************)
(* A small screen: 5 lines of 2 pixels, 2 bytes a pixel, in pages of 9     *)
(* bytes.  Pages and lines straddle each other (lines 2 and 4 lie in two   *)
(* pages) and the last page reaches beyond the screen.                     *)
(***************************************************************************)
EXTENDS DeferredIo

\* The last line of the first page and the last line of the screen.
MCWriteLines == {2, 4}
=============================================================================
