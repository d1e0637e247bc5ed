--------------------------- MODULE MCOverlayUpload ---------------------------
(***************************************************************************)
(* Two overlays: one that returns to the bootloader, and calc, which does  *)
(* not; their images differ in length.                                     *)
(***************************************************************************)
EXTENDS OverlayUpload

CONSTANTS osd_hello, calc

MCOverlays == {osd_hello, calc}

MCSize == [o \in MCOverlays |-> IF o = calc THEN 3 ELSE 2]

\* Bound: one mishap at a time, a call the core is not ready for or a repeat with an effect.
OneMishap == repeats + slips <= 1

\* calc_beats: no answer is lost.
NoRepeat == hpc \notin {"relen", "again"} /\ repeats = 0
=============================================================================
