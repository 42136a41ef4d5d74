---------------------------- MODULE MCDrawingTools ----------------------------
(* A line and a bracket that may be in the file, a rectangle to
   draw, two windows of which one edits shapes. *)
EXTENDS DrawingTools, TLC

CONSTANTS w1, w2, rect1, long1, line1

MCWindows == {w1, w2}
MCEditors == {w1}
MCStored  == {line1, long1}
MCSession == {rect1}
MCKindOf  == (rect1 :> "rect") @@ (long1 :> "bracket") @@ (line1 :> "line")
MCGrid    == {0, 4}
MCGeometries == {<<<<0, 0>>, <<4, 4>>>>}
=============================================================================
