---------------------------- MODULE MCInterposer ----------------------------
(***************************************************************************)
(* Interposer on two request variables, so that one is reused while the    *)
(* other is pending, and more operations than variables.                   *)
(***************************************************************************)
EXTENDS Interposer

\* Types, buffers and variables are interchangeable, and so are the operations
\* of each direction; used by the runs of invariants.
Symmetry ==
    Permutations(Objects) \cup Permutations(TmpBufs) \cup Permutations(ReqVars)
      \cup Permutations(Sends) \cup Permutations(Recvs)
=============================================================================
