------------------------- MODULE MCDatatypeHandles -------------------------
(***************************************************************************)
(* DatatypeHandles on two fast slots and up to five types, so that the     *)
(* array fills, the map holds several types, and every slot is reused.     *)
(***************************************************************************)
EXTENDS DatatypeHandles, TLC

\* The addresses are interchangeable; used by the runs without refinement.
ObjectSymmetry == Permutations(Objects)
=============================================================================
