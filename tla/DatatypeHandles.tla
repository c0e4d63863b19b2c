-------------------------- MODULE DatatypeHandles --------------------------
(***************************************************************************)
(* The table with which the MPI wrapper (interposer_common.cpp) names      *)
(* libpack datatypes by MPI_Datatype handles: an array of fast slots whose *)
(* free indices wait in a FIFO queue, and a map used once the array is     *)
(* full.  The application is part of the model: it constructs, commits and *)
(* frees the types whose handles it was given, and nothing else.           *)
(*                                                                         *)
(* A Datatype object is the address `new` returned; an address may be      *)
(* reused after DDT_Free.  The handles of primitive types resolve to       *)
(* static objects that are never freed and need no state here.             *)
(***************************************************************************)
EXTENDS Integers, Sequences, FiniteSets

CONSTANTS FastCacheSize,  \* DDT_FAST_CACHE_SIZE: the number of fast slots
          Objects,        \* addresses at which a Datatype can be allocated
          NULL,           \* the null Datatype*
          FallbackFrees   \* "any": the application frees types in any order;
                          \* "lifo": those beyond the fast slots only in the
                          \*         reverse order of their construction

ASSUME FastCacheSizeAssumption == FastCacheSize \in Nat
ASSUME NullAssumption == NULL \notin Objects
ASSUME FallbackFreesAssumption == FallbackFrees \in {"any", "lifo"}

VARIABLES g_types,           \* fast slot -> Datatype*
          g_types_freelist,  \* queue of free fast slots
          g_types_fallback,  \* std::map from handle to Datatype*
          heap,              \* the Datatype objects allocated
          compiled,          \* those whose pack and unpack code exists
          held,              \* the application's variable of each type it made
          committed,         \* the types the application has committed
          fault              \* a null or dangling Datatype* was used

hvars == <<g_types, g_types_freelist, g_types_fallback, heap, compiled,
           held, committed, fault>>

FastHandles == 0 .. FastCacheSize - 1
NoHandle == -1

\* The types the application has made and not freed yet.
HeldTypes == {o \in Objects : held[o] # NoHandle}

-----------------------------------------------------------------------------
(* The helpers of the table, as functions of the tables they read *)

\* g_types_fallback[h] = p
Put(map, h, p) ==
    [x \in DOMAIN map \cup {h} |-> IF x = h THEN p ELSE map[x]]

\* A mistake the runs must reject: the next handle is that of the last entry.
HandleCreatedOffByOne ==
    IF g_types_freelist # <<>>
    THEN Head(g_types_freelist)
    ELSE FastCacheSize + Cardinality(DOMAIN g_types_fallback) - 1

\* datatype_handle_create: the handle, and the two tables it changes
HandleCreated ==
    IF g_types_freelist # <<>>
    THEN Head(g_types_freelist)
    ELSE FastCacheSize + Cardinality(DOMAIN g_types_fallback)

\* A mistake: front() without pop().
FreelistNotPopped == g_types_freelist

FreelistAfterCreate ==
    IF g_types_freelist # <<>> THEN Tail(g_types_freelist) ELSE <<>>

FallbackAfterCreate ==
    IF g_types_freelist # <<>>
    THEN g_types_fallback
    ELSE Put(g_types_fallback, HandleCreated, NULL)

\* The lookup in the two tables.  std::map's operator[] answers an unknown
\* handle with a new NULL entry; the NULL is dereferenced or the entry erased
\* before the call ends, so the entry itself is not kept.
Lookup(types, fallback, h) ==
    IF h \in FastHandles THEN types[h]
    ELSE IF h \in DOMAIN fallback THEN fallback[h] ELSE NULL

datatype_retrieve(h) == Lookup(g_types, g_types_fallback, h)

\* datatype_store, into the tables datatype_handle_create left
datatype_store(h, p) ==
    IF h \in FastHandles
    THEN /\ g_types' = [g_types EXCEPT ![h] = p]
         /\ g_types_fallback' = FallbackAfterCreate
    ELSE /\ g_types_fallback' = Put(FallbackAfterCreate, h, p)
         /\ g_types' = g_types

\* Two mistakes: the first handle of the map counts as a slot; no slot is ever
\* given back.
handle_free_OffByOne(h) ==
    IF h \in 0 .. FastCacheSize
    THEN /\ g_types_freelist' = Append(g_types_freelist, h)
         /\ g_types_fallback' = g_types_fallback
    ELSE /\ g_types_fallback' =
              [x \in DOMAIN g_types_fallback \ {h} |-> g_types_fallback[x]]
         /\ g_types_freelist' = g_types_freelist

handle_free_MapOnly(h) ==
    /\ g_types_fallback' = [x \in DOMAIN g_types_fallback \ {h} |-> g_types_fallback[x]]
    /\ g_types_freelist' = g_types_freelist

\* The slot of a freed fast handle keeps its stale pointer.
datatype_handle_free(h) ==
    IF h \in FastHandles
    THEN /\ g_types_freelist' = Append(g_types_freelist, h)
         /\ g_types_fallback' = g_types_fallback
    ELSE /\ g_types_fallback' =
              [x \in DOMAIN g_types_fallback \ {h} |-> g_types_fallback[x]]
         /\ g_types_freelist' = g_types_freelist

-----------------------------------------------------------------------------
(* The calls of the application *)

\* interposer_init fills the freelist in the order of the slots.
HandlesInit ==
    /\ g_types = [h \in FastHandles |-> NULL]
    /\ g_types_freelist = [i \in 1 .. FastCacheSize |-> i - 1]
    /\ g_types_fallback = [h \in {} |-> NULL]
    /\ heap = {}
    /\ compiled = {}
    /\ held = [o \in Objects |-> NoHandle]
    /\ committed = {}
    /\ fault = FALSE

\* MPI_Type_vector, hvector, contiguous, indexed_block, hindexed and struct:
\* take a handle, look the old types up in the tables as they are now, clone
\* them into a new object, store it.  oldtypes is the set of the handles of
\* derived old types; it is empty when all of them are primitive.
TypeConstruct(oldtypes) ==
    LET newtype == HandleCreated
        bases == {Lookup(g_types, FallbackAfterCreate, h) : h \in oldtypes}
    IN  /\ ~fault
        /\ g_types_freelist' = FreelistAfterCreate
        /\ \/ /\ bases \subseteq heap
              /\ \E o \in Objects \ heap :
                    /\ held[o] = NoHandle
                    /\ heap' = heap \cup {o}
                    /\ datatype_store(newtype, o)
                    /\ held' = [held EXCEPT ![o] = newtype]
              /\ UNCHANGED <<compiled, committed, fault>>
           \/ /\ ~(bases \subseteq heap)
              /\ fault' = TRUE
              /\ g_types_fallback' = FallbackAfterCreate
              /\ UNCHANGED <<g_types, heap, compiled, held, committed>>

\* A mistake: the type is left to be compiled at its first use (LAZY).
TypeCommitLazy(o) ==
    /\ ~fault
    /\ o \in HeldTypes
    /\ committed' = committed \cup {o}
    /\ UNCHANGED <<g_types, g_types_freelist, g_types_fallback, heap, compiled,
                   held, fault>>

\* MPI_Type_commit: compiles the object the handle resolves to.
TypeCommit(o) ==
    LET ddt == datatype_retrieve(held[o])
    IN  /\ ~fault
        /\ o \in HeldTypes
        /\ IF ddt \in heap
           THEN /\ compiled' = compiled \cup {ddt}
                /\ committed' = committed \cup {o}
                /\ fault' = FALSE
           ELSE /\ fault' = TRUE
                /\ UNCHANGED <<compiled, committed>>
        /\ UNCHANGED <<g_types, g_types_freelist, g_types_fallback, heap, held>>

\* The order of frees the application keeps to.
MayFree(o) ==
    \/ FallbackFrees = "any"
    \/ held[o] \in FastHandles
    \/ \A p \in HeldTypes : held[p] <= held[o]

\* A mistake: the handle is given back before the object is looked up.
TypeFreeHandleFirst(o) ==
    LET ddt == IF held[o] \in FastHandles THEN g_types[held[o]] ELSE NULL
    IN  /\ ~fault
        /\ o \in HeldTypes
        /\ MayFree(o)
        /\ fault' = (ddt \notin heap \cup {NULL})
        /\ heap' = heap \ {ddt}
        /\ compiled' = compiled \ {ddt}
        /\ datatype_handle_free(held[o])
        /\ held' = [held EXCEPT ![o] = NoHandle]
        /\ committed' = committed \ {o}
        /\ g_types' = g_types

\* MPI_Type_free: deletes the object the handle resolves to (delete NULL does
\* nothing), then gives the handle back.
TypeFree(o) ==
    LET ddt == datatype_retrieve(held[o])
    IN  /\ ~fault
        /\ o \in HeldTypes
        /\ MayFree(o)
        /\ fault' = (ddt \notin heap \cup {NULL})
        /\ heap' = heap \ {ddt}
        /\ compiled' = compiled \ {ddt}
        /\ datatype_handle_free(held[o])
        /\ held' = [held EXCEPT ![o] = NoHandle]
        /\ committed' = committed \ {o}
        /\ g_types' = g_types

\* MPI_Type_size and MPI_Type_extent ask the object the handle resolves to.
TypeQuery(o) ==
    /\ ~fault
    /\ o \in HeldTypes
    /\ fault' = (datatype_retrieve(held[o]) \notin heap)
    /\ UNCHANGED <<g_types, g_types_freelist, g_types_fallback, heap, compiled,
                   held, committed>>

\* MPI_Pack and MPI_Unpack call its code, between buffers of the application;
\* the position they are given is ignored.
TypePack(o) ==
    /\ ~fault
    /\ o \in committed
    /\ fault' = (datatype_retrieve(held[o]) \notin compiled)
    /\ UNCHANGED <<g_types, g_types_freelist, g_types_fallback, heap, compiled,
                   held, committed>>

HandlesNext ==
    \/ \E oldtypes \in SUBSET {held[o] : o \in HeldTypes} : TypeConstruct(oldtypes)
    \/ \E o \in Objects : TypeCommit(o)
    \/ \E o \in Objects : TypeFree(o)
    \/ \E o \in Objects : TypeQuery(o) \/ TypePack(o)

HandlesSpec == HandlesInit /\ [][HandlesNext]_hvars

-----------------------------------------------------------------------------
(* Properties *)

\* Every table has its type; the map holds only handles beyond the array.
TypeOK ==
    /\ g_types \in [FastHandles -> Objects \cup {NULL}]
    /\ g_types_freelist \in Seq(FastHandles)
    /\ g_types_fallback \in [DOMAIN g_types_fallback -> Objects \cup {NULL}]
    /\ DOMAIN g_types_fallback \subseteq Nat \ FastHandles
    /\ IsFiniteSet(DOMAIN g_types_fallback)
    /\ heap \in SUBSET Objects
    /\ compiled \in SUBSET heap
    /\ held \in [Objects -> Nat \cup {NoHandle}]
    /\ committed \in SUBSET HeldTypes
    /\ fault \in BOOLEAN

\* A fast slot is on the freelist once or held by one type, never both, never
\* neither: datatype_handle_create and datatype_handle_free neither lose a
\* slot nor hand one out twice.
SlotsPartitioned ==
    ~fault =>
        \A h \in FastHandles :
            Cardinality({i \in DOMAIN g_types_freelist : g_types_freelist[i] = h})
              + Cardinality({o \in Objects : held[o] = h}) = 1

\* Whatever order types are freed in, a held fast handle resolves to the
\* object constructed for it, and that object has not been deleted.
FastHandlesResolve ==
    \A o \in HeldTypes :
        held[o] \in FastHandles => datatype_retrieve(held[o]) = o /\ o \in heap

\* Every held handle, fast or not, resolves to the object constructed for it.
HandlesResolve ==
    \A o \in HeldTypes : datatype_retrieve(held[o]) = o /\ o \in heap

\* Construct, commit, free, query and pack, called on held handles only, never
\* use a null or a deleted Datatype*, nor code that does not exist.
NoFault == ~fault

\* MPI_Type_free deletes the object of the type it frees: none is leaked, and
\* none is deleted while its type is held.
HeapIsHeldTypes == heap = HeldTypes

\* A type the application has committed resolves to compiled code until it is
\* freed, also after its handle served another type.
CommittedTypesCompiled ==
    \A o \in committed : datatype_retrieve(held[o]) \in compiled

\* The table implements the registry of handles an application expects.
HeldHandles == {held[o] : o \in HeldTypes}

Registry == INSTANCE TypeRegistry WITH
    Types  <- Objects,
    means  <- [h \in HeldHandles |-> datatype_retrieve(h)],
    usable <- {h \in HeldHandles : datatype_retrieve(h) \in compiled}

ImplementsRegistry == Registry!Spec
=============================================================================
