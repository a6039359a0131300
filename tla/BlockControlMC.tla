--------------------------- MODULE BlockControlMC ---------------------------
(***************************************************************************)
(* BlockControl with its blocks interchangeable, for model checking.       *)
(***************************************************************************)
EXTENDS BlockControl

\* No definition distinguishes one block from another.
BlockSymmetry == Permutations(Blocks)
=============================================================================
