--------------------------- MODULE MCPaintManager ---------------------------
(* TLC's instances of PaintManager: which leaf is in which dialog.          *)
EXTENDS PaintManager, TLC

CONSTANTS d1, d2, l1

AllInFirst == [l \in Leaf |-> d1]
=============================================================================
