------------------------------ MODULE TypeMap ------------------------------
(***************************************************************************)
(* What a derived datatype means: the type map of the MPI standard, to     *)
(* which README.TXT refers for the semantics of every constructor and      *)
(* against which ddtplayer and the tests compare the library.              *)
(*                                                                         *)
(* The meaning of a type is the set of pairs <<p, o>> such that byte p of  *)
(* a packed item is the byte at offset o in memory, with the bounds of the *)
(* item.  It is computed from the constructors' arguments alone, never     *)
(* from the size, lb and ub the library derives (those of a resized type   *)
(* are its arguments).                                                     *)
(***************************************************************************)
EXTENDS DatatypeTree

Span(m)  == m.ub - m.lb
Bytes(m) == Cardinality(m.map)

\* A block of len items of meaning m, one extent apart, from byte disp on.
Block(disp, len, m) == [disp |-> disp, len |-> len, item |-> m]

\* The meaning of a sequence of blocks laid one after the other.
Assemble(blocks) ==
    LET Before(b) == Total([a \in DOMAIN blocks |->
                               blocks[a].len * Bytes(blocks[a].item)], b - 1)
        items == UNION {{[at   |-> blocks[b].disp + k * Span(blocks[b].item),
                          pos  |-> Before(b) + k * Bytes(blocks[b].item),
                          item |-> blocks[b].item] : k \in 0 .. blocks[b].len - 1}
                        : b \in DOMAIN blocks}
    IN  [map |-> UNION {{<<i.pos + p[1], i.at + p[2]>> : p \in i.item.map} : i \in items},
         lb  |-> IF items = {} THEN 0 ELSE Min({i.at + i.item.lb : i \in items}),
         ub  |-> IF items = {} THEN 0 ELSE Max({i.at + i.item.ub : i \in items})]

\* n items of meaning m, one extent apart.
Repeated(n, m) == Assemble(<<Block(0, n, m)>>)

\* count blocks of len items of meaning m each, step bytes apart.
Strided(count, len, step, m) ==
    Assemble([i \in 1..count |-> Block((i - 1) * step, len, m)])

\* A block for each displacement: in items of meaning m, or in bytes.
IndexedMeaning(t, m) ==
    Assemble([i \in DOMAIN t.displs |-> Block(t.displs[i] * Span(m), t.blocklen, m)])

HIndexedMeaning(t, m) ==
    Assemble([i \in DOMAIN t.displs |-> Block(t.displs[i], t.blocklens[i], m)])

StructMeaning(t, meaning) ==
    Assemble([i \in DOMAIN t.bases |->
                 Block(t.displs[i], t.blocklens[i], meaning[t.bases[i]])])

PrimitiveMeaning(type) ==
    [map |-> {<<i, i>> : i \in 0 .. SizeOf[type] - 1}, lb |-> 0, ub |-> SizeOf[type]]

\* What meaning says of the basetypes makes the meaning of t.
MeaningOf(meaning, t) ==
    LET m == meaning[t.base]
    IN  CASE t.kind = "PRIMITIVE"    -> PrimitiveMeaning(t.type)
          [] t.kind = "CONTIGUOUS"   -> Repeated(t.count, m)
          [] t.kind = "VECTOR"       -> Strided(t.count, t.blocklen, t.stride * Span(m), m)
          [] t.kind = "HVECTOR"      -> Strided(t.count, t.blocklen, t.stride, m)
          [] t.kind = "INDEXEDBLOCK" -> IndexedMeaning(t, m)
          [] t.kind = "HINDEXED"     -> HIndexedMeaning(t, m)
          [] t.kind = "STRUCT"       -> StructMeaning(t, meaning)
          [] t.kind = "RESIZED"      -> [map |-> m.map, lb |-> t.lb, ub |-> t.ub]

Meaning[t \in Trees] == MeaningOf(Meaning, t)

\* What a call of MPI_Pack moves for n items of meaning m.
Packed(m, n) == Repeated(n, m).map
=============================================================================
