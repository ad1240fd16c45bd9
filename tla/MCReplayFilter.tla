--------------------------- MODULE MCReplayFilter ---------------------------
(***************************************************************************)
(* ReplayFilter for TLC.  The window is as wide as the bitmap, as in the   *)
(* code, and the ids run to more than three of its widths, so that it      *)
(* slides by less than, exactly and more than its width, from empty, from  *)
(* full and from everything between.                                       *)
(***************************************************************************)
EXTENDS ReplayFilter
=============================================================================
