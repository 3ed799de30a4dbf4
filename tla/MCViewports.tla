---------------------------- MODULE MCViewports -----------------------------
(* Small instances of Viewports: the heights and widths of a phone and of a   *)
(* desktop, either side of the 24 x 80 an instance is created with.           *)
EXTENDS Viewports

MCRows == {20, 40}
MCCols == {60, 120}
=============================================================================
