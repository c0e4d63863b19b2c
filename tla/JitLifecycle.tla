---------------------------- MODULE JitLifecycle ----------------------------
(***************************************************************************)
(* The life of Datatype objects and of the code generated for them         *)
(* (ddt_jit.cpp; pack.cpp is the same interface for C): constructors clone *)
(* their basetypes, compile() builds a compressed copy, generates code     *)
(* from it and deletes it, destructors delete the tree and free its code.  *)
(*                                                                         *)
(* Objects live at addresses and functions and arrays in the LLVM module;  *)
(* an address is reused once its object is deleted.  Every operation below *)
(* takes the memory as it is and returns it as the C++ function leaves it, *)
(* with the pointer it returns in ret.                                     *)
(*                                                                         *)
(* The functions that call themselves on the basetypes of an object are    *)
(* tables: X[n] is the function on types nested at most n deep, n levels   *)
(* above its leaves.  No type nests deeper than MaxTypes, so that calls    *)
(* start at X[MaxTypes]; running out of levels is a fault.                 *)
(***************************************************************************)
EXTENDS Integers, Sequences, FiniteSets

CONSTANTS Lazy,         \* values of the build flag LAZY
          Kinds,        \* derived kinds the application constructs
          MaxTypes,     \* bound: types the application constructs in a run
          MaxCompiles   \* bound: compilations in a run

AllKinds == {"contiguous",  \* ContiguousDatatype
             "vector",      \* VectorDatatype and HVectorDatatype
             "indexed",     \* IndexedBlockDatatype above IDXB_LOOP_TRESHOLD
             "hindexed",    \* HIndexedDatatype, and IndexedBlockDatatype below it
             "struct",      \* StructDatatype, with two fields
             "resized"}     \* ResizedDatatype

ASSUME LazyAssumption == Lazy \subseteq BOOLEAN /\ Lazy # {}
ASSUME KindsAssumption == Kinds \subseteq AllKinds
ASSUME BoundsAssumption == MaxTypes \in Nat /\ MaxCompiles \in Nat

NULL == 0

VARIABLES heap,       \* address -> Datatype object, deleted ones included
          functions,  \* the llvm::Functions and the arrays their code reads
          arrays,     \* the global variables of the LLVM module
          dropped,    \* functions whose pointer was overwritten
          own,        \* the types the application made and has not freed
          committed,  \* those it has committed
          lazy,       \* LAZY in this build
          made,       \* types made so far
          compiles,   \* compilations so far
          fault       \* a null or deleted object or function was used

vars == <<heap, functions, arrays, dropped, own, committed, lazy, made, compiles,
          fault>>

\* by: whether the application asked for the object or only the library knows
\* of it.  tight: a vector whose blocks touch (stride = blocklen), or an
\* indexed, struct or resized type whose extent is its size.
Makers  == {"app", "library"}
Objects == [kind : AllKinds \cup {"primitive", "deleted"}, tight : BOOLEAN,
            basetypes : Seq(Nat), pack : Nat, unpack : Nat, indices_arr : Nat,
            by : Makers]

Heaps     == Seq(Objects)
Functions == [name : Nat, reads : SUBSET Nat]
Memories  == [heap : Heaps, functions : SUBSET Functions, arrays : SUBSET Nat,
              dropped : SUBSET Nat, fault : BOOLEAN, ret : Nat]

Memory == [heap |-> heap, functions |-> functions, arrays |-> arrays,
           dropped |-> dropped, fault |-> fault, ret |-> NULL]

\* The memory a call leaves behind.
Becomes(m) ==
    /\ heap' = m.heap
    /\ functions' = m.functions
    /\ arrays' = m.arrays
    /\ dropped' = m.dropped
    /\ fault' = m.fault

Failed(m) == [m EXCEPT !.fault = TRUE, !.ret = NULL]

\* The calls fs[1], fs[2], ... one after the other, from memory m.
Through(fs, m) ==
    LET after[i \in 0 .. Len(fs)] == IF i = 0 THEN m ELSE fs[i][after[i - 1]]
    IN  after[Len(fs)]

Live(h)  == {a \in DOMAIN h : h[a].kind # "deleted"}
Names(F) == {f.name : f \in F}

\* What malloc and LLVM return: an address or a name that is not in use.
Unused(S) == CHOOSE n \in 1 .. Cardinality(S) + 1 : n \notin S

-----------------------------------------------------------------------------
(* Constructors and destructors                                            *)

\* The basetypes a class works with: a struct reads the first count of the
\* entries of its vector, which holds every basetype twice.
Fields(o) ==
    IF o.kind = "struct" THEN SubSeq(o.basetypes, 1, Len(o.basetypes) \div 2)
                         ELSE o.basetypes

Object(kind, tight, by) ==
    [kind |-> kind, tight |-> tight, basetypes |-> <<>>, pack |-> NULL,
     unpack |-> NULL, indices_arr |-> NULL, by |-> by]

\* operator new: the object gets the first free address a.
Put(h, a, o) == IF a \in DOMAIN h THEN [h EXCEPT ![a] = o] ELSE Append(h, o)

\* A mistake: the basetype itself is kept, not a clone of it.
NewWith_keeps_basetype(clone, m, kind, tight, bases, by) ==
    LET self == Unused(Live(m.heap))
    IN  [m EXCEPT !.heap = Put(@, self, [Object(kind, tight, by)
                                          EXCEPT !.basetypes = bases]),
                  !.ret = self]

\* basetypes.push_back(base->clone())
PushClone(clone, self, base, by) ==
    [m \in Memories |->
        LET c == clone[base][by][m]
        IN  [c EXCEPT !.heap[self].basetypes = Append(@, c.ret)]]

\* new XDatatype(..., bases).  The constructor of a struct clones each basetype
\* twice, and nobody ever reads the second set of clones.
NewWith(clone, m, kind, tight, bases, by) ==
    LET self   == Unused(Live(m.heap))
        copies == IF kind = "struct" THEN bases \o bases ELSE bases
        begun  == [m EXCEPT !.heap = Put(@, self, Object(kind, tight, by))]
        pushes == [i \in DOMAIN copies |->
                      PushClone(clone, self, copies[i],
                                IF i > Len(bases) THEN "library" ELSE by)]
    IN  [Through(pushes, begun) EXCEPT !.ret = self]

\* clone() calls the constructor on the fields: code is not copied.
CloneOf(clone, n) ==
    [a \in Nat |-> [by \in Makers |-> [m \in Memories |->
        IF n = 0 \/ a \notin Live(m.heap) THEN Failed(m)
        ELSE LET o == m.heap[a]
             IN  NewWith(clone[n - 1], m, o.kind, o.tight, Fields(o), by)]]]

Clone[n \in Nat] == CloneOf(Clone, n)

New(m, kind, tight, bases, by) == NewWith(Clone[MaxTypes], m, kind, tight, bases, by)

\* Two mistakes in ~Datatype: only the pack function is freed; cleanup() of the
\* derived class runs.
Freed_pack_only(m, a) ==
    [m EXCEPT !.heap[a] = Object("deleted", FALSE, "library"),
              !.functions = {f \in @ : f.name # m.heap[a].pack}]

Freed_with_cleanup(m, a) ==
    LET code == {m.heap[a].pack, m.heap[a].unpack}
    IN  [m EXCEPT !.heap[a] = Object("deleted", FALSE, "library"),
                  !.functions = {f \in @ : f.name \notin code},
                  !.arrays = @ \ {m.heap[a].indices_arr}]

\* The functions that were compiled for an object.
Code(o) == {o.pack, o.unpack} \ {NULL}

\* ~Datatype frees the functions that were compiled.  The cleanup() it calls
\* last is by then the empty one of the base class, so that indices_arr stays
\* in the module.
Freed(m, a) ==
    LET code == Code(m.heap[a])
    IN  [m EXCEPT !.heap[a] = Object("deleted", FALSE, "library"),
                  !.functions = {f \in @ : f.name \notin code},
                  !.fault = @ \/ ~(code \subseteq Names(m.functions))]

\* A mistake: HIndexedDatatype deletes nothing.
DeleteOf_not_hindexed(delete, n) ==
    [a \in Nat |-> [m \in Memories |->
        LET fields == IF m.heap[a].kind = "hindexed" THEN <<>> ELSE Fields(m.heap[a])
        IN  IF n = 0 \/ a \notin Live(m.heap) THEN Failed(m)
            ELSE Freed(Through([i \in DOMAIN fields |-> delete[n - 1][fields[i]]], m), a)]]

\* delete: the derived destructor deletes the fields, then ~Datatype runs.
DeleteOf(delete, n) ==
    [a \in Nat |-> [m \in Memories |->
        IF n = 0 \/ a \notin Live(m.heap) THEN Failed(m)
        ELSE LET fields == Fields(m.heap[a])
             IN  Freed(Through([i \in DOMAIN fields |-> delete[n - 1][fields[i]]], m), a)]]

Destroy[n \in Nat] == DeleteOf(Destroy, n)

Delete(m, a) == Destroy[MaxTypes][a][m]

-----------------------------------------------------------------------------
(* compile()                                                               *)

\* The extent of an object is its size.
GaplessOf(gapless, n) ==
    [h \in Heaps |-> [a \in Nat |->
        /\ n > 0
        /\ a \in Live(h)
        /\ h[a].kind \in {"vector", "indexed", "hindexed", "struct", "resized"} => h[a].tight
        /\ h[a].kind \in {"contiguous", "vector"} => gapless[n - 1][h][h[a].basetypes[1]]]]

Gapless[n \in Nat] == GaplessOf(Gapless, n)

Dissolves(h, a) ==
    a \in Live(h) /\ h[a].kind = "contiguous" /\ Gapless[MaxTypes][h][a]

\* A mistake: cbasetype is deleted before its basetype is cloned.
Rebuild_deletes_first(c, kind, tight) ==
    IF Dissolves(c.heap, c.ret)
    THEN New(Delete(c, c.ret), kind, tight, Fields(c.heap[c.ret]), "library")
    ELSE New(c, kind, tight, <<c.ret>>, "library")

\* A type above the compressed basetype c.ret.  A contiguous basetype dissolves
\* and is deleted; any other is cloned by the constructor and then forgotten.
Rebuild(c, kind, tight) ==
    IF Dissolves(c.heap, c.ret)
    THEN Delete(New(c, kind, tight, Fields(c.heap[c.ret]), "library"), c.ret)
    ELSE New(c, kind, tight, <<c.ret>>, "library")

\* A vector v.ret whose blocks touch is replaced by a contiguous type.
Promote(v, tight) ==
    IF tight /\ ~v.fault
    THEN Delete(New(v, "contiguous", TRUE, Fields(v.heap[v.ret]), "library"), v.ret)
    ELSE v

\* A mistake: a primitive type is its own compressed form.
CompressOf_primitive_shared(compress, n) ==
    [a \in Nat |-> [m \in Memories |->
        LET o == m.heap[a]
            c == compress[n - 1][o.basetypes[1]][m]
        IN  CASE o.kind = "primitive"  -> [m EXCEPT !.ret = a]
              [] o.kind = "contiguous" -> Rebuild(c, o.kind, TRUE)
              [] OTHER -> New(c, o.kind, o.tight, Fields(o), "library")]]

\* compress() of each class, on the compressed basetypes.  Indexed and resized
\* types clone the compressed basetype and forget it; a struct compresses every
\* entry of its vector, forgets them all and is rebuilt on the uncompressed
\* ones.
Compressed(c, o) ==
    CASE o.kind = "primitive"  -> New(c, o.kind, TRUE, <<>>, "library")
      [] o.kind = "contiguous" -> Rebuild(c, o.kind, TRUE)
      [] o.kind = "vector"     -> Promote(Rebuild(c, o.kind, o.tight), o.tight)
      [] o.kind = "struct"     -> New(c, o.kind, o.tight, Fields(o), "library")
      [] OTHER                 -> New(c, o.kind, o.tight, <<c.ret>>, "library")

CompressOf(compress, n) ==
    [a \in Nat |-> [m \in Memories |->
        IF n = 0 \/ a \notin Live(m.heap) THEN Failed(m)
        ELSE LET o == m.heap[a]
             IN  Compressed(Through([i \in DOMAIN o.basetypes |->
                                        compress[n - 1][o.basetypes[i]]], m), o)]]

Compress[n \in Nat] == CompressOf(Compress, n)

\* globalCodegen of one object: a new array for each indexed type.
WithArray(m, a) ==
    LET array == Unused(m.arrays)
    IN  IF m.heap[a].kind = "indexed"
        THEN [m EXCEPT !.arrays = @ \cup {array}, !.heap[a].indices_arr = array]
        ELSE m

\* A struct visits every entry of its vector, those it never reads included.
GlobalOf(global, n) ==
    [a \in Nat |-> [m \in Memories |->
        IF n = 0 \/ a \notin Live(m.heap) THEN Failed(m)
        ELSE LET bases == m.heap[a].basetypes
             IN  Through([i \in DOMAIN bases |-> global[n - 1][bases[i]]], WithArray(m, a))]]

GlobalCodegen[n \in Nat] == GlobalOf(GlobalCodegen, n)

\* The arrays the code generated for a refers to.  A resized type generates the
\* code of a contiguous or vector basetype itself and none for the others.
ReadsOf(reads, n) ==
    [h \in Heaps |-> [a \in Nat |->
        LET BelowOf(o) == UNION {reads[n - 1][h][Fields(o)[i]] : i \in DOMAIN Fields(o)}
            base       == h[a].basetypes[1]
        IN  IF n = 0 \/ a \notin Live(h) THEN {NULL}
            ELSE IF h[a].kind = "indexed" THEN {h[a].indices_arr} \cup BelowOf(h[a])
            ELSE IF h[a].kind # "resized" THEN BelowOf(h[a])
            ELSE IF base \notin Live(h) THEN {NULL}
            ELSE IF h[base].kind \in {"contiguous", "vector"} THEN BelowOf(h[base]) ELSE {}]]

Reads[n \in Nat] == ReadsOf(Reads, n)

ArraysRead(h, a) == Reads[MaxTypes][h][a]

\* The function pointer of a direction, "pack" or "unpack".
Pointer(o, which) == IF which = "pack" THEN o.pack ELSE o.unpack

Pointing(o, which, f) ==
    IF which = "pack" THEN [o EXCEPT !.pack = f] ELSE [o EXCEPT !.unpack = f]

\* fpack and pack, or funpack and unpack: a new function overwrites the last.
Emit(m, this, which, ddt) ==
    LET f     == Unused(Names(m.functions))
        reads == ArraysRead(m.heap, ddt)
    IN  [m EXCEPT !.functions = @ \cup {[name |-> f, reads |-> reads]},
                  !.dropped = @ \cup ({Pointer(m.heap[this], which)} \ {NULL}),
                  !.heap[this] = Pointing(@, which, f),
                  !.fault = @ \/ NULL \in reads]

\* type: PACK_UNPACK, PACK or UNPACK.
Emitted(m, this, type, ddt) ==
    CASE type = "PACK"   -> Emit(m, this, "pack", ddt)
      [] type = "UNPACK" -> Emit(m, this, "unpack", ddt)
      [] OTHER           -> Emit(Emit(m, this, "pack", ddt), this, "unpack", ddt)

compile(m, this, type) ==
    LET c   == Compress[MaxTypes][this][m]
        ddt == c.ret
    IN  IF c.fault THEN c
        ELSE Delete(Emitted(GlobalCodegen[MaxTypes][ddt][c], this, type, ddt), ddt)

-----------------------------------------------------------------------------
(* The calls of the application                                            *)

Init ==
    /\ heap = <<>>
    /\ functions = {}
    /\ arrays = {}
    /\ dropped = {}
    /\ own = {}
    /\ committed = {}
    /\ lazy \in Lazy
    /\ made = 0
    /\ compiles = 0
    /\ fault = FALSE

\* The application keeps the type the call returned.
Keeps(m) ==
    /\ Becomes(m)
    /\ own' = own \cup {m.ret}
    /\ made' = made + 1
    /\ UNCHANGED <<committed, lazy, compiles>>

MayMake == ~fault /\ made < MaxTypes

NewPrimitive == MayMake /\ Keeps(New(Memory, "primitive", TRUE, <<>>, "app"))

\* The INT it starts from is forgotten, unless the type asked for is not
\* implemented: then the INT is what the call returns (NewPrimitive).
LPK_Primitive ==
    /\ MayMake
    /\ LET first == New(Memory, "primitive", TRUE, <<>>, "library")
       IN  Keeps(New(first, "primitive", TRUE, <<>>, "app"))

\* A derived type from types the application still has.
Construct(kind, tight, bases) ==
    /\ MayMake
    /\ kind = "contiguous" => tight
    /\ Keeps(New(Memory, kind, tight, bases, "app"))

\* The code f is called: it must exist, and so must the arrays it reads.
Runs(m, f) ==
    [m EXCEPT !.fault = @ \/ ~\E g \in m.functions :
                                  g.name = f /\ g.reads \subseteq m.arrays]

\* Under LAZY the commit does nothing.
DDT_Commit(t) ==
    /\ ~fault
    /\ t \in own
    /\ committed' = committed \cup {t}
    /\ \/ lazy /\ UNCHANGED <<heap, functions, arrays, dropped, fault, compiles>>
       \/ /\ ~lazy
          /\ compiles < MaxCompiles
          /\ Becomes(compile(Memory, t, "PACK_UNPACK"))
          /\ compiles' = compiles + 1
    /\ UNCHANGED <<own, lazy, made>>

\* DDT_Pack and DDT_Unpack of a committed type: LAZY compiles the missing half
\* first.
Moves(t, which, type) ==
    /\ ~fault
    /\ t \in committed
    /\ LET needed == lazy /\ Pointer(heap[t], which) = NULL
           m      == IF needed THEN compile(Memory, t, type) ELSE Memory
       IN  /\ needed => compiles < MaxCompiles
           /\ Becomes(Runs(m, Pointer(m.heap[t], which)))
           /\ compiles' = IF needed THEN compiles + 1 ELSE compiles
    /\ UNCHANGED <<own, committed, lazy, made>>

DDT_Pack(t)   == Moves(t, "pack", "PACK")
DDT_Unpack(t) == Moves(t, "unpack", "UNPACK")

\* Called when a receive is posted: compiles before the data are there.
DDT_Lazy_Unpack_Commit(t) ==
    /\ ~fault
    /\ t \in committed
    /\ lazy /\ heap[t].unpack = NULL
    /\ compiles < MaxCompiles
    /\ Becomes(compile(Memory, t, "UNPACK"))
    /\ compiles' = compiles + 1
    /\ UNCHANGED <<own, committed, lazy, made>>

\* A mistake: the application goes on with a type it has freed.
DDT_Free_keeps_committed(t) ==
    /\ ~fault
    /\ t \in own
    /\ Becomes(Delete(Memory, t))
    /\ own' = own \ {t}
    /\ UNCHANGED <<committed, lazy, made, compiles>>

DDT_Free(t) ==
    /\ ~fault
    /\ t \in own
    /\ Becomes(Delete(Memory, t))
    /\ own' = own \ {t}
    /\ committed' = committed \ {t}
    /\ UNCHANGED <<lazy, made, compiles>>

Next ==
    \/ NewPrimitive
    \/ LPK_Primitive
    \/ \E kind \in Kinds \ {"struct"}, tight \in BOOLEAN, t \in own :
          Construct(kind, tight, <<t>>)
    \/ \E tight \in BOOLEAN, s, t \in own :
          "struct" \in Kinds /\ Construct("struct", tight, <<s, t>>)
    \/ \E t \in own : DDT_Commit(t)
    \/ \E t \in own : DDT_Pack(t)
    \/ \E t \in own : DDT_Unpack(t)
    \/ \E t \in own : DDT_Lazy_Unpack_Commit(t)
    \/ \E t \in own : DDT_Free(t)

Spec == Init /\ [][Next]_vars

-----------------------------------------------------------------------------
(* Properties *)

\* Every variable has its type; a pointer in an object is an address or NULL.
TypeOK ==
    /\ heap \in Heaps
    /\ functions \subseteq Functions
    /\ arrays \subseteq Nat
    /\ dropped \subseteq Nat
    /\ own \subseteq Nat
    /\ committed \subseteq own
    /\ lazy \in Lazy
    /\ made \in 0 .. MaxTypes
    /\ compiles \in 0 .. MaxCompiles
    /\ fault \in BOOLEAN

\* No sequence of constructions, commits, packs and frees makes the library use
\* a deleted object or function, run code whose arrays are gone, or delete
\* anything twice; an application that packs only committed types never calls
\* a null function.
NoMisuse == ~fault

\* Ownership is a forest: every basetype of an object exists, belongs to that
\* object alone and in one place only, and is no type of the application.  A
\* struct's second set of clones is included, and so are forgotten objects.
SubtypesOwnedOnce ==
    /\ own \subseteq Live(heap)
    /\ \A a \in Live(heap) : \A i \in DOMAIN heap[a].basetypes :
          heap[a].basetypes[i] \in Live(heap) \ own
    /\ \A a, b \in Live(heap) :
          \A i \in DOMAIN heap[a].basetypes, j \in DOMAIN heap[b].basetypes :
             heap[a].basetypes[i] = heap[b].basetypes[j] => a = b /\ i = j

\* The objects a destructor reaches from S, in at most MaxTypes levels.
Reached(h, S) ==
    LET Level == [X \in SUBSET Nat |->
                    X \cup UNION {{Fields(h[a])[i] : i \in DOMAIN Fields(h[a])} :
                                     a \in X \cap Live(h)}]
    IN  Through([i \in 1 .. MaxTypes |-> Level], S)

\* Every object the application's constructor calls built for it is part of a
\* type it still has: DDT_Free leaves none of them behind.  (What compile()
\* and the second set of clones leave behind is by "library".)
OwnTypesFreed ==
    {a \in Live(heap) : heap[a].by = "app"} = Reached(heap, own)

\* The LLVM functions that exist are those of the application's types, each
\* belonging to one type and one direction, and those a later compilation of
\* the same type dropped, which no DDT_Free frees any more.
FunctionsAccounted ==
    LET Packs   == {t \in own : heap[t].pack # NULL}
        Unpacks == {t \in own : heap[t].unpack # NULL}
    IN  /\ Names(functions) = {heap[t].pack : t \in Packs}
                                \cup {heap[t].unpack : t \in Unpacks} \cup dropped
        /\ Cardinality(Names(functions))
              = Cardinality(Packs) + Cardinality(Unpacks) + Cardinality(dropped)
        /\ \A a \in Live(heap) \ own : heap[a].pack = NULL /\ heap[a].unpack = NULL

\* The displacement arrays generated code reads outlive the compressed tree
\* they were made for: as long as a function exists, so do its arrays.
CodeKeepsItsArrays ==
    \A f \in functions : f.reads \subseteq arrays

\* The value of a type: what the tree below it says.
ValueOf(value, n) ==
    [h \in Heaps |-> [a \in Nat |->
        IF n = 0 \/ a \notin Live(h)
        THEN [kind |-> "deleted", tight |-> FALSE, fields |-> <<>>]
        ELSE [kind |-> h[a].kind, tight |-> h[a].tight,
              fields |-> [i \in DOMAIN Fields(h[a]) |->
                             value[n - 1][h][Fields(h[a])[i]]]]]]

Value[n \in Nat] == ValueOf(Value, n)

Usable(t) ==
    t \in Live(heap) /\ (lazy \/ {heap[t].pack, heap[t].unpack} \subseteq Names(functions))

\* Trees of shared memory behave as values: nothing done to one type, freeing
\* its old types or recompiling it included, changes or breaks another.
DatatypeValue == INSTANCE DatatypeValues WITH
    value  <- [t \in own |-> Value[MaxTypes][heap][t]],
    usable <- {t \in own : Usable(t)}

ImplementsValues == DatatypeValue!Spec
=============================================================================
