-------------------------- MODULE MCDatatypePacking -------------------------
(***************************************************************************)
(* The arguments of the constructors for TLC.  Every list of displacements *)
(* has an order, a gap or a sign of its own.                               *)
(***************************************************************************)
EXTENDS DatatypePacking

ElementLists  == {<<0, 2>>, <<2, 0, 5>>}
ByteLists     == {<<0, 9>>, <<12, 0>>, <<-8, 4>>, <<4, 40>>}
FewElements   == {<<3, 0>>}
FewBytes      == {<<-2, 6>>}
Negative      == {-4, 0}
OneBelow      == {-1}

\* A stride that runs backwards, as in the MILC traces: -6144 bytes there, less
\* here so that the bounds of nested hvectors fit the integers of TLC.
TraceStride   == {-96}

Unused        == {}
=============================================================================
