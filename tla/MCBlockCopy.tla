---------------------------- MODULE MCBlockCopy ----------------------------
(***************************************************************************)
(* Counts on both sides of every boundary, for vectors of 8 bytes, rounds  *)
(* of 3 vectors and a loop from 32 bytes on: no element, part of a vector, *)
(* whole vectors, part of a round, whole rounds, and the threshold.        *)
(***************************************************************************)
EXTENDS BlockCopy

ElementSizes == {1, 2, 4, 8}

Boundaries == {0} \cup UNION {{b - 1, b, b + 1} :
                              b \in {4, 8, 12, 16, 24, 32, 48, 72, 96}}
=============================================================================
