--------------------------- MODULE MCControlTables ---------------------------
(* Controls are interchangeable, and no property is a liveness property. *)
EXTENDS ControlTables, TLC

Symmetry == Permutations(Option)
=============================================================================
