----------------------- MODULE DatatypeHandlesProofs -----------------------
(***************************************************************************)
(* What DatatypeHandles guarantees for every number of fast slots and any  *)
(* set of objects.                                                         *)
(***************************************************************************)
EXTENDS DatatypeHandles, SequenceTheorems, FiniteSetTheorems, TLAPS

USE FastCacheSizeAssumption, NullAssumption

(* The inductive invariants *)

\* No slot waits twice on the freelist, none waits there while it is held, and
\* none is lost; a held slot points to its own, live object.  The map must be
\* in the invariant, although the array never reads it: freeing a handle of
\* the map must not delete an object the array still points to.
FreelistInjective ==
    \A i, j \in DOMAIN g_types_freelist :
        g_types_freelist[i] = g_types_freelist[j] => i = j

FreeSlotsNotHeld ==
    \A i \in DOMAIN g_types_freelist, o \in Objects : held[o] # g_types_freelist[i]

NoSlotLost ==
    ~fault => \A h \in FastHandles :
                  \/ \E i \in DOMAIN g_types_freelist : g_types_freelist[i] = h
                  \/ \E o \in Objects : held[o] = h

FastSlotsPoint ==
    \A o \in Objects : held[o] \in FastHandles => g_types[held[o]] = o /\ o \in heap

FallbackApart ==
    \A h \in DOMAIN g_types_fallback :
        LET p == g_types_fallback[h]
        IN  p # NULL => /\ p \in heap
                        /\ held[p] \notin FastHandles
                        /\ \A g \in DOMAIN g_types_fallback :
                              g_types_fallback[g] = p => g = h

SlotInv == FreelistInjective /\ FreeSlotsNotHeld /\ NoSlotLost /\ FastSlotsPoint /\ FallbackApart

\* With frees in reverse order the handles of the map are consecutive, so that
\* its size names a handle that is not in use.
FallbackConsecutive ==
    DOMAIN g_types_fallback =
        FastCacheSize .. FastCacheSize + Cardinality(DOMAIN g_types_fallback) - 1

FallbackHeld ==
    \A h \in DOMAIN g_types_fallback : \E o \in Objects : held[o] = h

FallbackPoints ==
    \A o \in HeldTypes :
        held[o] \notin FastHandles =>
            /\ held[o] \in DOMAIN g_types_fallback
            /\ g_types_fallback[held[o]] = o

LifoInv ==
    /\ FallbackConsecutive
    /\ FallbackHeld
    /\ FallbackPoints
    /\ heap = HeldTypes
    /\ \A o \in committed : o \in compiled
    /\ ~fault

-----------------------------------------------------------------------------
(* The helpers of the table *)

\* datatype_handle_create yields a fast slot exactly when one is free, and
\* otherwise a number beyond the fast slots; the tables keep their types.
LEMMA HandleCreatedType ==
    ASSUME TypeOK
    PROVE  /\ HandleCreated \in Nat
           /\ g_types_freelist # <<>> =>
                /\ HandleCreated \in FastHandles
                /\ FallbackAfterCreate = g_types_fallback
           /\ g_types_freelist = <<>> =>
                /\ HandleCreated \notin FastHandles
                /\ FallbackAfterCreate = Put(g_types_fallback, HandleCreated, NULL)
           /\ FreelistAfterCreate \in Seq(FastHandles)
           /\ FallbackAfterCreate \in [DOMAIN FallbackAfterCreate -> Objects \cup {NULL}]
           /\ DOMAIN FallbackAfterCreate \subseteq Nat \ FastHandles
           /\ IsFiniteSet(DOMAIN FallbackAfterCreate)
<1>1. CASE g_types_freelist # <<>>
  <2>1. Head(g_types_freelist) \in FastHandles /\ Tail(g_types_freelist) \in Seq(FastHandles)
    BY <1>1, HeadTailProperties DEF TypeOK
  <2>2. QED
    BY <1>1, <2>1 DEF TypeOK, HandleCreated, FreelistAfterCreate, FallbackAfterCreate, FastHandles
<1>2. CASE g_types_freelist = <<>>
  <2>1. Cardinality(DOMAIN g_types_fallback) \in Nat
    BY FS_CardinalityType DEF TypeOK
  <2>2. HandleCreated \in Nat \ FastHandles
    BY <1>2, <2>1 DEF HandleCreated, FastHandles
  <2>3. IsFiniteSet(DOMAIN g_types_fallback \cup {HandleCreated})
    BY FS_AddElement DEF TypeOK
  <2>4. FreelistAfterCreate \in Seq(FastHandles)
    BY <1>2 DEF FreelistAfterCreate
  <2>5. QED
    BY <1>2, <2>2, <2>3, <2>4 DEF TypeOK, FallbackAfterCreate, Put
<1>3. QED
  BY <1>1, <1>2

\* What datatype_handle_free does to a held handle keeps the tables' types.
LEMMA HandleFreeType ==
    ASSUME TypeOK, NEW h \in Nat, datatype_handle_free(h)
    PROVE  /\ g_types_freelist' \in Seq(FastHandles)
           /\ g_types_fallback' \in [DOMAIN g_types_fallback' -> Objects \cup {NULL}]
           /\ DOMAIN g_types_fallback' \subseteq Nat \ FastHandles
           /\ IsFiniteSet(DOMAIN g_types_fallback')
<1>1. CASE h \in FastHandles
  BY <1>1, AppendProperties DEF TypeOK, datatype_handle_free
<1>2. CASE h \notin FastHandles
  <2>1. IsFiniteSet(DOMAIN g_types_fallback \ {h})
    BY FS_RemoveElement DEF TypeOK
  <2>2. QED
    BY <1>2, <2>1 DEF TypeOK, datatype_handle_free
<1>3. QED
  BY <1>1, <1>2

-----------------------------------------------------------------------------
(* Type correctness *)

LEMMA InitTypeOK == HandlesInit => TypeOK
<1> SUFFICES ASSUME HandlesInit PROVE TypeOK
  OBVIOUS
<1>1. g_types_freelist \in Seq(FastHandles)
  BY DEF HandlesInit, FastHandles
<1>2. IsFiniteSet(DOMAIN g_types_fallback) /\ DOMAIN g_types_fallback = {}
  BY FS_EmptySet DEF HandlesInit
<1>3. QED
  BY <1>1, <1>2 DEF HandlesInit, TypeOK, HeldTypes, NoHandle

LEMMA ConstructTypeOK ==
    ASSUME TypeOK, NEW oldtypes, TypeConstruct(oldtypes)
    PROVE  TypeOK'
<1> DEFINE bases == {Lookup(g_types, FallbackAfterCreate, h) : h \in oldtypes}
<1>1. CASE bases \subseteq heap
  <2>1. PICK o \in Objects \ heap :
            /\ held[o] = NoHandle
            /\ heap' = heap \cup {o}
            /\ datatype_store(HandleCreated, o)
            /\ held' = [held EXCEPT ![o] = HandleCreated]
    BY <1>1 DEF TypeConstruct
  <2>2. UNCHANGED <<compiled, committed, fault>> /\ g_types_freelist' = FreelistAfterCreate
    BY <1>1 DEF TypeConstruct
  <2>3. g_types' \in [FastHandles -> Objects \cup {NULL}]
    BY <2>1 DEF datatype_store, TypeOK
  <2>4. /\ g_types_fallback' \in [DOMAIN g_types_fallback' -> Objects \cup {NULL}]
        /\ DOMAIN g_types_fallback' \subseteq Nat \ FastHandles
        /\ IsFiniteSet(DOMAIN g_types_fallback')
    <3>1. CASE HandleCreated \in FastHandles
      BY <2>1, <3>1, HandleCreatedType DEF datatype_store
    <3>2. CASE HandleCreated \notin FastHandles
      <4>1. g_types_fallback' = Put(FallbackAfterCreate, HandleCreated, o)
        BY <2>1, <3>2 DEF datatype_store
      <4>2. IsFiniteSet(DOMAIN FallbackAfterCreate \cup {HandleCreated})
        BY HandleCreatedType, FS_AddElement
      <4>3. QED
        BY <3>2, <4>1, <4>2, HandleCreatedType DEF Put
    <3>3. QED
      BY <3>1, <3>2
  <2>5. held' \in [Objects -> Nat \cup {NoHandle}] /\ HeldTypes \subseteq HeldTypes'
    BY <2>1, HandleCreatedType DEF TypeOK, HeldTypes, NoHandle
  <2>6. QED
    BY <2>1, <2>2, <2>3, <2>4, <2>5, HandleCreatedType DEF TypeOK
<1>2. CASE ~(bases \subseteq heap)
  <2>1. /\ g_types_freelist' = FreelistAfterCreate
        /\ g_types_fallback' = FallbackAfterCreate
        /\ fault' = TRUE
        /\ UNCHANGED <<g_types, heap, compiled, held, committed>>
    BY <1>2 DEF TypeConstruct
  <2>2. QED
    BY <2>1, HandleCreatedType DEF TypeOK, HeldTypes
<1>3. QED
  BY <1>1, <1>2

LEMMA CommitTypeOK ==
    ASSUME TypeOK, NEW o \in Objects, TypeCommit(o)
    PROVE  TypeOK'
<1>1. HeldTypes' = HeldTypes
  BY DEF TypeCommit, HeldTypes
<1>2. QED
  BY <1>1 DEF TypeCommit, TypeOK

LEMMA FreeTypeOK ==
    ASSUME TypeOK, NEW o \in Objects, TypeFree(o)
    PROVE  TypeOK'
<1>1. held[o] \in Nat
  BY DEF TypeFree, TypeOK, HeldTypes
<1>2. datatype_handle_free(held[o])
  BY DEF TypeFree
<1>3. HeldTypes' = HeldTypes \ {o}
  BY DEF TypeFree, TypeOK, HeldTypes
<1>4. QED
  BY <1>1, <1>2, <1>3, HandleFreeType DEF TypeFree, TypeOK

\* A query or a pack changes nothing but fault.
LEMMA UseKeepsTables ==
    ASSUME NEW o \in Objects, TypeQuery(o) \/ TypePack(o)
    PROVE  /\ UNCHANGED <<g_types, g_types_freelist, g_types_fallback, heap, compiled,
                          held, committed>>
           /\ ~fault /\ fault' \in BOOLEAN
BY DEF TypeQuery, TypePack

LEMMA UseTypeOK ==
    ASSUME TypeOK, NEW o \in Objects, TypeQuery(o) \/ TypePack(o)
    PROVE  TypeOK'
BY UseKeepsTables DEF TypeOK, HeldTypes

\* Every table of the interposer keeps its type in every behaviour.
THEOREM TypeCorrectness == HandlesSpec => []TypeOK
<1>1. HandlesInit => TypeOK
  BY InitTypeOK
<1>2. TypeOK /\ [HandlesNext]_hvars => TypeOK'
  <2> SUFFICES ASSUME TypeOK, [HandlesNext]_hvars PROVE TypeOK'
    OBVIOUS
  <2>1. ASSUME NEW olds, TypeConstruct(olds) PROVE TypeOK'
    BY <2>1, ConstructTypeOK
  <2>2. ASSUME NEW o \in Objects, TypeCommit(o) PROVE TypeOK'
    BY <2>2, CommitTypeOK
  <2>3. ASSUME NEW o \in Objects, TypeFree(o) PROVE TypeOK'
    BY <2>3, FreeTypeOK
  <2>u. ASSUME NEW o \in Objects, TypeQuery(o) \/ TypePack(o) PROVE TypeOK'
    BY <2>u, UseTypeOK
  <2>4. CASE UNCHANGED hvars
    BY <2>4 DEF hvars, TypeOK, HeldTypes
  <2>5. QED
    BY <2>1, <2>2, <2>3, <2>u, <2>4 DEF HandlesNext
<1>3. QED
  BY <1>1, <1>2, PTL DEF HandlesSpec

-----------------------------------------------------------------------------
(* Slots are never lost, shared or handed out twice, in any order of frees *)

\* Taking the head of the freelist shifts the rest by one.
LEMMA TakenSlot ==
    ASSUME TypeOK, g_types_freelist # <<>>
    PROVE  /\ 1 \in DOMAIN g_types_freelist
           /\ HandleCreated = g_types_freelist[1]
           /\ \A i \in DOMAIN FreelistAfterCreate :
                /\ i \in Nat \ {0}
                /\ i + 1 \in DOMAIN g_types_freelist
                /\ FreelistAfterCreate[i] = g_types_freelist[i + 1]
           /\ \A i \in DOMAIN g_types_freelist :
                i # 1 => /\ i - 1 \in DOMAIN FreelistAfterCreate
                         /\ FreelistAfterCreate[i - 1] = g_types_freelist[i]
<1>1. g_types_freelist \in Seq(FastHandles)
  BY DEF TypeOK
<1>2. /\ Len(g_types_freelist) \in Nat \ {0}
      /\ DOMAIN g_types_freelist = 1 .. Len(g_types_freelist)
      /\ Head(g_types_freelist) = g_types_freelist[1]
  BY <1>1
<1>3. /\ Tail(g_types_freelist) \in Seq(FastHandles)
      /\ Len(Tail(g_types_freelist)) = Len(g_types_freelist) - 1
      /\ DOMAIN Tail(g_types_freelist) = 1 .. Len(g_types_freelist) - 1
      /\ \A i \in 1 .. Len(g_types_freelist) - 1 :
            Tail(g_types_freelist)[i] = g_types_freelist[i + 1]
  BY <1>1, <1>2, HeadTailProperties
<1>4. FreelistAfterCreate = Tail(g_types_freelist) /\ HandleCreated = Head(g_types_freelist)
  BY DEF FreelistAfterCreate, HandleCreated
<1>5. QED
  BY <1>2, <1>3, <1>4

LEMMA InitSlotInv == HandlesInit => SlotInv
<1> SUFFICES ASSUME HandlesInit PROVE SlotInv
  OBVIOUS
<1>1. /\ DOMAIN g_types_freelist = 1 .. FastCacheSize
      /\ \A i \in 1 .. FastCacheSize : g_types_freelist[i] = i - 1
  BY DEF HandlesInit
<1>2. \A h \in FastHandles : h + 1 \in 1 .. FastCacheSize /\ (h + 1) - 1 = h
  BY DEF FastHandles
<1>3. \A o \in Objects : held[o] = -1
  BY DEF HandlesInit, NoHandle
<1>4. FreelistInjective
  BY <1>1 DEF FreelistInjective
<1>5. FreeSlotsNotHeld
  BY <1>1, <1>3 DEF FreeSlotsNotHeld
<1>6. NoSlotLost
  BY <1>1, <1>2 DEF NoSlotLost
<1>7. FastSlotsPoint
  BY <1>3 DEF FastSlotsPoint, FastHandles
<1>8. FallbackApart
  BY DEF HandlesInit, FallbackApart
<1>9. QED
  BY <1>4, <1>5, <1>6, <1>7, <1>8 DEF SlotInv

\* The four ways a constructor can go: with or without a free fast slot, and
\* with old types that resolve or not.
LEMMA ConstructSlotInv ==
    ASSUME TypeOK, SlotInv, NEW oldtypes, TypeConstruct(oldtypes)
    PROVE  SlotInv'
<1> DEFINE bases == {Lookup(g_types, FallbackAfterCreate, h) : h \in oldtypes}
<1>a. ~fault /\ g_types_freelist' = FreelistAfterCreate
  BY DEF TypeConstruct
<1>b. FreelistInjective /\ FreeSlotsNotHeld /\ NoSlotLost /\ FastSlotsPoint /\ FallbackApart
  BY DEF SlotInv
<1>1. FreelistInjective'
  <2>1. CASE g_types_freelist # <<>>
    BY <1>a, <1>b, <2>1, TakenSlot DEF FreelistInjective
  <2>2. CASE g_types_freelist = <<>>
    BY <1>a, <2>2 DEF FreelistInjective, FreelistAfterCreate
  <2>3. QED
    BY <2>1, <2>2
<1>2. ASSUME bases \subseteq heap
      PROVE  FreeSlotsNotHeld' /\ NoSlotLost' /\ FastSlotsPoint' /\ FallbackApart'
  <2>1. PICK o \in Objects \ heap :
            /\ held[o] = NoHandle
            /\ heap' = heap \cup {o}
            /\ datatype_store(HandleCreated, o)
            /\ held' = [held EXCEPT ![o] = HandleCreated]
    BY <1>2 DEF TypeConstruct
  <2>2. fault' = FALSE
    BY <1>2, <1>a DEF TypeConstruct
  <2>h. /\ held'[o] = HandleCreated
        /\ \A p \in Objects \ {o} : held'[p] = held[p]
    BY <2>1 DEF TypeOK
  <2>n. NoHandle \notin FastHandles
    BY DEF NoHandle, FastHandles
  <2>3. CASE g_types_freelist # <<>>
    <3>1. /\ HandleCreated \in FastHandles
          /\ g_types' = [g_types EXCEPT ![HandleCreated] = o]
          /\ g_types_fallback' = g_types_fallback
      BY <2>1, <2>3, HandleCreatedType DEF datatype_store
    <3>2. \A p \in Objects : held[p] # HandleCreated
      BY <1>b, <2>3, TakenSlot DEF FreeSlotsNotHeld
    <3>3. FreeSlotsNotHeld'
      <4>1. SUFFICES ASSUME NEW i \in DOMAIN FreelistAfterCreate, NEW p \in Objects
                     PROVE  held'[p] # FreelistAfterCreate[i]
        BY <1>a DEF FreeSlotsNotHeld
      <4>2. /\ i + 1 \in DOMAIN g_types_freelist /\ i + 1 # 1
            /\ FreelistAfterCreate[i] = g_types_freelist[i + 1]
        BY <2>3, TakenSlot
      <4>3. FreelistAfterCreate[i] # HandleCreated
        BY <1>b, <2>3, <4>2, TakenSlot DEF FreelistInjective
      <4>4. QED
        BY <1>b, <2>h, <4>2, <4>3 DEF FreeSlotsNotHeld
    <3>4. NoSlotLost'
      <4>1. SUFFICES ASSUME NEW h \in FastHandles, h # HandleCreated
                     PROVE  \/ \E i \in DOMAIN FreelistAfterCreate : FreelistAfterCreate[i] = h
                            \/ \E p \in Objects : held'[p] = h
        BY <1>a, <2>h DEF NoSlotLost
      <4>2. CASE \E i \in DOMAIN g_types_freelist : g_types_freelist[i] = h
        BY <2>3, <4>1, <4>2, TakenSlot
      <4>3. CASE \E p \in Objects : held[p] = h
        BY <2>1, <2>h, <2>n, <4>3
      <4>4. QED
        BY <1>a, <1>b, <4>2, <4>3 DEF NoSlotLost
    <3>5. FastSlotsPoint'
      BY <1>b, <2>1, <2>h, <3>1, <3>2 DEF FastSlotsPoint, TypeOK
    <3>6. FallbackApart'
      BY <1>b, <2>1, <2>h, <3>1 DEF FallbackApart, TypeOK
    <3>7. QED
      BY <3>3, <3>4, <3>5, <3>6
  <2>4. CASE g_types_freelist = <<>>
    <3>1. /\ HandleCreated \notin FastHandles
          /\ g_types' = g_types
          /\ g_types_fallback' = Put(Put(g_types_fallback, HandleCreated, NULL), HandleCreated, o)
      BY <2>1, <2>4, HandleCreatedType DEF datatype_store
    <3>2. g_types_freelist' = <<>>
      BY <1>a, <2>4 DEF FreelistAfterCreate
    <3>3. FreeSlotsNotHeld'
      BY <3>2 DEF FreeSlotsNotHeld
    <3>4. NoSlotLost'
      BY <1>a, <1>b, <2>1, <2>4, <2>h, <2>n DEF NoSlotLost
    <3>5. FastSlotsPoint'
      BY <1>b, <2>1, <2>h, <3>1 DEF FastSlotsPoint
    <3>6. FallbackApart'
      <4>1. /\ DOMAIN g_types_fallback' = DOMAIN g_types_fallback \cup {HandleCreated}
            /\ g_types_fallback'[HandleCreated] = o
            /\ \A g \in DOMAIN g_types_fallback \ {HandleCreated} :
                  g_types_fallback'[g] = g_types_fallback[g]
        BY <3>1 DEF Put
      <4>2. \A g \in DOMAIN g_types_fallback : g_types_fallback[g] # o
        BY <1>b, <2>1 DEF FallbackApart
      <4>3. QED
        BY <1>b, <2>1, <2>h, <3>1, <4>1, <4>2 DEF FallbackApart, TypeOK
    <3>7. QED
      BY <3>3, <3>4, <3>5, <3>6
  <2>5. QED
    BY <2>3, <2>4
<1>3. ASSUME ~(bases \subseteq heap)
      PROVE  FreeSlotsNotHeld' /\ NoSlotLost' /\ FastSlotsPoint' /\ FallbackApart'
  <2>1. /\ g_types_fallback' = FallbackAfterCreate
        /\ fault' = TRUE
        /\ UNCHANGED <<g_types, heap, held>>
    BY <1>3 DEF TypeConstruct
  <2>2. FreeSlotsNotHeld'
    <3>1. CASE g_types_freelist # <<>>
      BY <1>a, <1>b, <2>1, <3>1, TakenSlot DEF FreeSlotsNotHeld
    <3>2. CASE g_types_freelist = <<>>
      BY <1>a, <3>2 DEF FreeSlotsNotHeld, FreelistAfterCreate
    <3>3. QED
      BY <3>1, <3>2
  <2>3. FallbackApart'
    BY <1>b, <2>1 DEF FallbackApart, FallbackAfterCreate, Put
  <2>4. QED
    BY <1>b, <2>1, <2>2, <2>3 DEF NoSlotLost, FastSlotsPoint
<1>4. QED
  BY <1>1, <1>2, <1>3 DEF SlotInv

LEMMA FreeSlotInv ==
    ASSUME TypeOK, SlotInv, NEW o \in Objects, TypeFree(o)
    PROVE  SlotInv' /\ ~fault'
<1> DEFINE ddt == datatype_retrieve(held[o])
<1>a. /\ ~fault /\ held[o] \in Nat
      /\ fault' = (ddt \notin heap \cup {NULL})
      /\ heap' = heap \ {ddt}
      /\ datatype_handle_free(held[o])
      /\ g_types' = g_types
      /\ held'[o] = NoHandle
      /\ \A p \in Objects \ {o} : held'[p] = held[p]
  BY DEF TypeFree, TypeOK, HeldTypes
<1>b. FreelistInjective /\ FreeSlotsNotHeld /\ NoSlotLost /\ FastSlotsPoint /\ FallbackApart
  BY DEF SlotInv
<1>n. NoHandle \notin FastHandles /\ NoHandle # held[o]
  BY <1>a DEF NoHandle, FastHandles
<1>1. CASE held[o] \in FastHandles
  <2>1. /\ ddt = o /\ o \in heap
    BY <1>1, <1>b DEF FastSlotsPoint, datatype_retrieve, Lookup
  <2>2. /\ g_types_freelist' = Append(g_types_freelist, held[o])
        /\ g_types_fallback' = g_types_fallback
    BY <1>1, <1>a DEF datatype_handle_free
  <2>3. /\ DOMAIN g_types_freelist = 1 .. Len(g_types_freelist)
        /\ Len(g_types_freelist) \in Nat
        /\ DOMAIN g_types_freelist' = 1 .. Len(g_types_freelist) + 1
        /\ \A i \in 1 .. Len(g_types_freelist) : g_types_freelist'[i] = g_types_freelist[i]
        /\ g_types_freelist'[Len(g_types_freelist) + 1] = held[o]
    BY <1>1, <2>2, AppendProperties DEF TypeOK
  <2>4. FreelistInjective'
    BY <1>b, <2>3 DEF FreelistInjective, FreeSlotsNotHeld
  <2>5. \A p \in Objects \ {o} : held[p] # held[o]
    BY <1>1, <1>b DEF FastSlotsPoint
  <2>6. FreeSlotsNotHeld'
    BY <1>a, <1>b, <1>n, <2>3, <2>5, <1>1
       DEF FreeSlotsNotHeld, TypeOK
  <2>7. NoSlotLost'
    BY <1>a, <1>b, <2>3 DEF NoSlotLost
  <2>8. FastSlotsPoint'
    BY <1>a, <1>b, <1>n, <2>1 DEF FastSlotsPoint
  <2>9. FallbackApart'
    BY <1>1, <1>a, <1>b, <1>n, <2>1, <2>2 DEF FallbackApart, TypeOK
  <2>10. QED
    BY <1>a, <2>1, <2>4, <2>6, <2>7, <2>8, <2>9 DEF SlotInv
<1>2. CASE held[o] \notin FastHandles
  <2>1. /\ g_types_freelist' = g_types_freelist
        /\ g_types_fallback' =
             [x \in DOMAIN g_types_fallback \ {held[o]} |-> g_types_fallback[x]]
    BY <1>2, <1>a DEF datatype_handle_free
  <2>2. \/ ddt = NULL
        \/ /\ held[o] \in DOMAIN g_types_fallback
           /\ ddt = g_types_fallback[held[o]]
           /\ ddt # NULL
    BY <1>2 DEF datatype_retrieve, Lookup
  <2>3. ddt = NULL \/ (ddt \in heap /\ held[ddt] \notin FastHandles)
    BY <1>b, <2>2 DEF FallbackApart
  <2>4. FreelistInjective'
    BY <1>b, <2>1 DEF FreelistInjective
  <2>5. FreeSlotsNotHeld'
    BY <1>a, <1>b, <1>n, <2>1 DEF FreeSlotsNotHeld, TypeOK, FastHandles, NoHandle
  <2>6. NoSlotLost'
    BY <1>a, <1>b, <1>2, <2>1 DEF NoSlotLost
  <2>7. FastSlotsPoint'
    BY <1>a, <1>b, <1>n, <2>3 DEF FastSlotsPoint, TypeOK
  <2>8. FallbackApart'
    <3>1. SUFFICES ASSUME NEW h \in DOMAIN g_types_fallback \ {held[o]},
                          g_types_fallback[h] # NULL
                   PROVE  /\ g_types_fallback[h] \in heap'
                          /\ held'[g_types_fallback[h]] \notin FastHandles
                          /\ \A g \in DOMAIN g_types_fallback \ {held[o]} :
                                g_types_fallback[g] = g_types_fallback[h] => g = h
      BY <2>1 DEF FallbackApart
    <3>2. /\ g_types_fallback[h] \in heap
          /\ held[g_types_fallback[h]] \notin FastHandles
          /\ \A g \in DOMAIN g_types_fallback :
                g_types_fallback[g] = g_types_fallback[h] => g = h
      BY <1>b, <3>1 DEF FallbackApart
    <3>3. g_types_fallback[h] # ddt
      BY <2>2, <3>1, <3>2
    <3>4. QED
      BY <1>a, <1>n, <3>2, <3>3 DEF TypeOK
  <2>9. QED
    BY <1>a, <2>3, <2>4, <2>5, <2>6, <2>7, <2>8 DEF SlotInv
<1>3. QED
  BY <1>1, <1>2

LEMMA CommitSlotInv ==
    ASSUME TypeOK, SlotInv, NEW o \in Objects, TypeCommit(o)
    PROVE  SlotInv'
BY DEF TypeCommit, SlotInv, FreelistInjective, FreeSlotsNotHeld, NoSlotLost,
       FastSlotsPoint, FallbackApart

LEMMA UseSlotInv ==
    ASSUME TypeOK, SlotInv, NEW o \in Objects, TypeQuery(o) \/ TypePack(o)
    PROVE  SlotInv'
BY UseKeepsTables DEF SlotInv, FreelistInjective, FreeSlotsNotHeld, NoSlotLost,
                      FastSlotsPoint, FallbackApart

LEMMA SlotsInvariant == HandlesSpec => []SlotInv
<1>1. HandlesInit => SlotInv
  BY InitSlotInv
<1>2. TypeOK /\ SlotInv /\ [HandlesNext]_hvars => SlotInv'
  <2> SUFFICES ASSUME TypeOK, SlotInv, [HandlesNext]_hvars PROVE SlotInv'
    OBVIOUS
  <2>1. ASSUME NEW olds, TypeConstruct(olds) PROVE SlotInv'
    BY <2>1, ConstructSlotInv
  <2>2. ASSUME NEW o \in Objects, TypeCommit(o) PROVE SlotInv'
    BY <2>2, CommitSlotInv
  <2>3. ASSUME NEW o \in Objects, TypeFree(o) PROVE SlotInv'
    BY <2>3, FreeSlotInv
  <2>u. ASSUME NEW o \in Objects, TypeQuery(o) \/ TypePack(o) PROVE SlotInv'
    BY <2>u, UseSlotInv
  <2>4. CASE UNCHANGED hvars
    BY <2>4 DEF hvars, SlotInv, FreelistInjective, FreeSlotsNotHeld, NoSlotLost,
                FastSlotsPoint, FallbackApart
  <2>5. QED
    BY <2>1, <2>2, <2>3, <2>u, <2>4 DEF HandlesNext
<1>3. QED
  BY <1>1, <1>2, TypeCorrectness, PTL DEF HandlesSpec

\* In every behaviour a held fast handle resolves to its own, live object.
THEOREM FastHandlesAlwaysResolve == HandlesSpec => []FastHandlesResolve
<1>1. SlotInv => FastHandlesResolve
  BY DEF SlotInv, FastSlotsPoint, FastHandlesResolve, datatype_retrieve, Lookup, HeldTypes
<1>2. QED
  BY <1>1, SlotsInvariant, PTL

\* In every behaviour each fast slot is free once or held once.
THEOREM SlotsAlwaysPartitioned == HandlesSpec => []SlotsPartitioned
<1>1. TypeOK /\ SlotInv => SlotsPartitioned
  <2> SUFFICES ASSUME TypeOK, SlotInv, ~fault, NEW h \in FastHandles
               PROVE  Cardinality({i \in DOMAIN g_types_freelist : g_types_freelist[i] = h})
                        + Cardinality({o \in Objects : held[o] = h}) = 1
    BY DEF SlotsPartitioned
  <2> DEFINE F == {i \in DOMAIN g_types_freelist : g_types_freelist[i] = h}
             H == {o \in Objects : held[o] = h}
  <2>1. CASE \E i \in DOMAIN g_types_freelist : g_types_freelist[i] = h
    <3>1. PICK i \in DOMAIN g_types_freelist : g_types_freelist[i] = h
      BY <2>1
    <3>2. F = {i}
      BY <3>1 DEF SlotInv, FreelistInjective
    <3>3. H = {}
      BY <3>1 DEF SlotInv, FreeSlotsNotHeld
    <3>4. Cardinality(F) = 1 /\ Cardinality(H) = 0
      BY <3>2, <3>3, FS_Singleton, FS_EmptySet
    <3>5. QED
      BY <3>4
  <2>2. CASE ~ \E i \in DOMAIN g_types_freelist : g_types_freelist[i] = h
    <3>1. PICK o \in Objects : held[o] = h
      BY <2>2 DEF SlotInv, NoSlotLost
    <3>2. F = {}
      BY <2>2
    <3>3. H = {o}
      BY <3>1 DEF SlotInv, FastSlotsPoint
    <3>4. Cardinality(H) = 1 /\ Cardinality(F) = 0
      BY <3>2, <3>3, FS_Singleton, FS_EmptySet
    <3>5. QED
      BY <3>4
  <2>3. QED
    BY <2>1, <2>2
<1>2. QED
  BY <1>1, TypeCorrectness, SlotsInvariant, PTL

-----------------------------------------------------------------------------
(* With frees in reverse order, every handle resolves *)

\* The size of the map is one past its last handle.
LEMMA ConsecutiveSize ==
    ASSUME TypeOK, FallbackConsecutive
    PROVE  /\ Cardinality(DOMAIN g_types_fallback) \in Nat
           /\ \A h \in DOMAIN g_types_fallback :
                /\ h \in Nat
                /\ h >= FastCacheSize
                /\ h < FastCacheSize + Cardinality(DOMAIN g_types_fallback)
<1>1. Cardinality(DOMAIN g_types_fallback) \in Nat
  BY FS_CardinalityType DEF TypeOK
<1>2. QED
  BY <1>1 DEF FallbackConsecutive

LEMMA InitLifoInv == HandlesInit => LifoInv
<1> SUFFICES ASSUME HandlesInit PROVE LifoInv
  OBVIOUS
<1>1. DOMAIN g_types_fallback = {} /\ Cardinality(DOMAIN g_types_fallback) = 0
  BY FS_EmptySet DEF HandlesInit
<1>2. FastCacheSize .. FastCacheSize + 0 - 1 = {}
  OBVIOUS
<1>3. HeldTypes = {}
  BY DEF HandlesInit, HeldTypes
<1>4. QED
  BY <1>1, <1>2, <1>3 DEF HandlesInit, LifoInv, FallbackConsecutive, FallbackHeld, FallbackPoints

\* Held handles name their own object, so their lookup never fails.
LEMMA HeldLookup ==
    ASSUME TypeOK, SlotInv, LifoInv, NEW o \in HeldTypes
    PROVE  datatype_retrieve(held[o]) = o /\ o \in heap
<1>1. CASE held[o] \in FastHandles
  BY <1>1 DEF HeldTypes, SlotInv, FastSlotsPoint, datatype_retrieve, Lookup
<1>2. CASE held[o] \notin FastHandles
  BY <1>2 DEF LifoInv, FallbackPoints, datatype_retrieve, Lookup
<1>3. QED
  BY <1>1, <1>2

\* The handle a constructor takes is held by nobody, and taking it changes no
\* lookup of a held handle.
LEMMA FreshHandle ==
    ASSUME TypeOK, SlotInv, LifoInv
    PROVE  /\ \A o \in HeldTypes : held[o] # HandleCreated
           /\ HandleCreated \notin DOMAIN g_types_fallback
           /\ \A o \in HeldTypes :
                Lookup(g_types, FallbackAfterCreate, held[o]) = o
<1>1. HandleCreated \notin DOMAIN g_types_fallback
  <2>1. CASE g_types_freelist # <<>>
    BY <2>1, HandleCreatedType DEF TypeOK
  <2>2. CASE g_types_freelist = <<>>
    <3>1. HandleCreated = FastCacheSize + Cardinality(DOMAIN g_types_fallback)
      BY <2>2 DEF HandleCreated
    <3>2. QED
      BY <3>1, ConsecutiveSize DEF LifoInv
  <2>3. QED
    BY <2>1, <2>2
<1>2. \A o \in HeldTypes : held[o] # HandleCreated
  <2>1. SUFFICES ASSUME NEW o \in HeldTypes, held[o] = HandleCreated PROVE FALSE
    OBVIOUS
  <2>2. CASE g_types_freelist # <<>>
    BY <2>1, <2>2, TakenSlot DEF SlotInv, FreeSlotsNotHeld, HeldTypes
  <2>3. CASE g_types_freelist = <<>>
    BY <1>1, <2>1, <2>3, HandleCreatedType DEF LifoInv, FallbackPoints
  <2>4. QED
    BY <2>2, <2>3
<1>3. ASSUME NEW o \in HeldTypes
      PROVE  Lookup(g_types, FallbackAfterCreate, held[o]) = o
  <2>1. Lookup(g_types, FallbackAfterCreate, held[o]) = datatype_retrieve(held[o])
    BY <1>2 DEF Lookup, datatype_retrieve, FallbackAfterCreate, Put
  <2>2. QED
    BY <2>1, HeldLookup
<1>4. QED
  BY <1>1, <1>2, <1>3

LEMMA ConstructLifoInv ==
    ASSUME TypeOK, SlotInv, LifoInv,
           NEW oldtypes \in SUBSET {held[o] : o \in HeldTypes}, TypeConstruct(oldtypes)
    PROVE  LifoInv'
<1> DEFINE bases == {Lookup(g_types, FallbackAfterCreate, h) : h \in oldtypes}
<1>1. bases \subseteq heap
  BY FreshHandle, HeldLookup
<1>2. PICK o \in Objects \ heap :
          /\ held[o] = NoHandle
          /\ heap' = heap \cup {o}
          /\ datatype_store(HandleCreated, o)
          /\ held' = [held EXCEPT ![o] = HandleCreated]
  BY <1>1 DEF TypeConstruct
<1>3. UNCHANGED <<compiled, committed, fault>>
  BY <1>1 DEF TypeConstruct
<1>4. /\ HeldTypes' = HeldTypes \cup {o} /\ o \notin HeldTypes
      /\ held'[o] = HandleCreated
      /\ \A p \in Objects \ {o} : held'[p] = held[p]
  BY <1>2, HandleCreatedType DEF HeldTypes, TypeOK, NoHandle
<1>5. CASE g_types_freelist # <<>>
  <2>1. g_types_fallback' = g_types_fallback /\ HandleCreated \in FastHandles
    BY <1>2, <1>5, HandleCreatedType DEF datatype_store
  <2>2. FallbackConsecutive' /\ FallbackPoints'
    BY <1>4, <2>1 DEF LifoInv, FallbackConsecutive, FallbackPoints, HeldTypes
  <2>3. FallbackHeld'
    <3>1. SUFFICES ASSUME NEW h \in DOMAIN g_types_fallback
                   PROVE  \E p \in Objects : held'[p] = h
      BY <2>1 DEF FallbackHeld
    <3>2. PICK p \in Objects : held[p] = h
      BY DEF LifoInv, FallbackHeld
    <3>3. p # o
      BY <1>2, <3>2, ConsecutiveSize DEF LifoInv, NoHandle
    <3>4. QED
      BY <1>4, <3>2, <3>3
  <2>4. QED
    BY <1>2, <1>3, <1>4, <2>2, <2>3 DEF LifoInv
<1>6. CASE g_types_freelist = <<>>
  <2> DEFINE n == Cardinality(DOMAIN g_types_fallback)
  <2>1. /\ HandleCreated \notin FastHandles
        /\ HandleCreated = FastCacheSize + n
        /\ n \in Nat
    BY <1>6, HandleCreatedType, ConsecutiveSize DEF HandleCreated, LifoInv
  <2>2. /\ DOMAIN g_types_fallback' = DOMAIN g_types_fallback \cup {HandleCreated}
        /\ g_types_fallback'[HandleCreated] = o
        /\ \A g \in DOMAIN g_types_fallback : g_types_fallback'[g] = g_types_fallback[g]
    BY <1>2, <1>6, <2>1, FreshHandle DEF datatype_store, FallbackAfterCreate, Put
  <2>3. FallbackConsecutive'
    <3>1. Cardinality(DOMAIN g_types_fallback') = n + 1
      BY <2>2, FreshHandle, FS_AddElement DEF TypeOK
    <3>2. DOMAIN g_types_fallback = FastCacheSize .. FastCacheSize + n - 1
      BY DEF LifoInv, FallbackConsecutive
    <3>3. (FastCacheSize .. FastCacheSize + n - 1) \cup {FastCacheSize + n}
            = FastCacheSize .. FastCacheSize + (n + 1) - 1
      BY <2>1
    <3>4. QED
      BY <2>1, <2>2, <3>1, <3>2, <3>3 DEF FallbackConsecutive
  <2>4. FallbackPoints'
    BY <1>4, <2>2 DEF LifoInv, FallbackPoints, HeldTypes
  <2>5. FallbackHeld'
    <3>1. SUFFICES ASSUME NEW h \in DOMAIN g_types_fallback
                   PROVE  \E p \in Objects : held'[p] = h
      BY <1>4, <2>2 DEF FallbackHeld
    <3>2. PICK p \in Objects : held[p] = h
      BY DEF LifoInv, FallbackHeld
    <3>3. p # o
      BY <1>2, <3>2, ConsecutiveSize DEF LifoInv, NoHandle
    <3>4. QED
      BY <1>4, <3>2, <3>3
  <2>6. QED
    BY <1>2, <1>3, <1>4, <2>3, <2>4, <2>5 DEF LifoInv
<1>7. QED
  BY <1>5, <1>6

LEMMA CommitLifoInv ==
    ASSUME TypeOK, SlotInv, LifoInv, NEW o \in Objects, TypeCommit(o)
    PROVE  LifoInv'
<1>1. datatype_retrieve(held[o]) = o /\ o \in heap
  BY HeldLookup DEF TypeCommit
<1>2. HeldTypes' = HeldTypes
  BY DEF TypeCommit, HeldTypes
<1>3. QED
  BY <1>1, <1>2 DEF TypeCommit, LifoInv, FallbackConsecutive, FallbackHeld, FallbackPoints

\* The freed handle of the map is its last one, so the rest stay consecutive.
LEMMA FreeLifoInv ==
    ASSUME FallbackFrees = "lifo", TypeOK, SlotInv, LifoInv, NEW o \in Objects, TypeFree(o)
    PROVE  LifoInv'
<1>1. /\ o \in HeldTypes
      /\ held[o] \in Nat
      /\ datatype_retrieve(held[o]) = o
  BY HeldLookup DEF TypeFree, TypeOK, HeldTypes
<1>2. /\ heap' = heap \ {o}
      /\ compiled' = compiled \ {o}
      /\ committed' = committed \ {o}
      /\ HeldTypes' = HeldTypes \ {o}
      /\ held'[o] = NoHandle
      /\ \A p \in Objects \ {o} : held'[p] = held[p]
  BY <1>1 DEF TypeFree, HeldTypes, TypeOK
<1>3. /\ heap' = HeldTypes'
      /\ \A p \in committed' : p \in compiled'
      /\ ~fault'
  BY <1>2, FreeSlotInv DEF LifoInv
<1>4. CASE held[o] \in FastHandles
  <2>1. g_types_fallback' = g_types_fallback
    BY <1>4 DEF TypeFree, datatype_handle_free
  <2>2. FallbackHeld'
    BY <1>2, <1>4, <2>1 DEF LifoInv, FallbackHeld, TypeOK
  <2>3. FallbackConsecutive' /\ FallbackPoints'
    BY <1>2, <2>1 DEF LifoInv, FallbackConsecutive, FallbackPoints, HeldTypes
  <2>4. QED
    BY <1>3, <2>2, <2>3 DEF LifoInv
<1>5. CASE held[o] \notin FastHandles
  <2> DEFINE n == Cardinality(DOMAIN g_types_fallback)
  <2>1. /\ DOMAIN g_types_fallback' = DOMAIN g_types_fallback \ {held[o]}
        /\ \A g \in DOMAIN g_types_fallback' : g_types_fallback'[g] = g_types_fallback[g]
    BY <1>5 DEF TypeFree, datatype_handle_free
  <2>2. held[o] \in DOMAIN g_types_fallback /\ g_types_fallback[held[o]] = o
    BY <1>1, <1>5 DEF LifoInv, FallbackPoints
  <2>3. \A h \in DOMAIN g_types_fallback : h <= held[o]
    <3>1. SUFFICES ASSUME NEW h \in DOMAIN g_types_fallback PROVE h <= held[o]
      OBVIOUS
    <3>2. PICK p \in Objects : held[p] = h
      BY DEF LifoInv, FallbackHeld
    <3>3. p \in HeldTypes
      BY <3>2, ConsecutiveSize DEF HeldTypes, LifoInv, NoHandle
    <3>4. QED
      BY <1>5, <3>2, <3>3 DEF TypeFree, MayFree
  <2>4. FallbackConsecutive'
    <3>1. n \in Nat /\ DOMAIN g_types_fallback = FastCacheSize .. FastCacheSize + n - 1
      BY ConsecutiveSize DEF LifoInv, FallbackConsecutive
    <3>2. held[o] = FastCacheSize + n - 1
      <4> HIDE DEF n
      <4>1. held[o] \in FastCacheSize .. FastCacheSize + n - 1
        BY <2>2, <3>1
      <4>2. FastCacheSize + n - 1 \in DOMAIN g_types_fallback
        BY <3>1, <4>1
      <4>3. FastCacheSize + n - 1 <= held[o]
        BY <2>3, <4>2
      <4>4. n \in Nat
        BY <3>1
      <4>5. QED
        BY <4>1, <4>3, <4>4
    <3>3. Cardinality(DOMAIN g_types_fallback') = n - 1
      <4>1. IsFiniteSet(DOMAIN g_types_fallback)
        BY DEF TypeOK
      <4>2. Cardinality(DOMAIN g_types_fallback \ {held[o]}) = n - 1
        BY <2>2, <4>1, FS_RemoveElement, Zenon
      <4>3. QED
        BY <2>1, <4>2
    <3>4. (FastCacheSize .. FastCacheSize + n - 1) \ {FastCacheSize + n - 1}
            = FastCacheSize .. FastCacheSize + (n - 1) - 1
      BY <3>1
    <3>5. QED
      BY <2>1, <3>1, <3>2, <3>3, <3>4 DEF FallbackConsecutive
  <2>5. FallbackHeld'
    BY <1>2, <2>1 DEF LifoInv, FallbackHeld
  <2>6. FallbackPoints'
    <3>1. SUFFICES ASSUME NEW p \in HeldTypes \ {o}, held[p] \notin FastHandles
                   PROVE  /\ held[p] \in DOMAIN g_types_fallback'
                          /\ g_types_fallback'[held[p]] = p
      BY <1>2 DEF FallbackPoints, HeldTypes
    <3>2. held[p] \in DOMAIN g_types_fallback /\ g_types_fallback[held[p]] = p
      BY <3>1 DEF LifoInv, FallbackPoints
    <3>3. held[p] # held[o]
      BY <2>2, <3>1, <3>2
    <3>4. QED
      BY <2>1, <3>2, <3>3
  <2>7. QED
    BY <1>3, <2>4, <2>5, <2>6 DEF LifoInv
<1>6. QED
  BY <1>4, <1>5

\* The handle of a held type resolves, so using it cannot fail.
LEMMA UseLifoInv ==
    ASSUME TypeOK, SlotInv, LifoInv, NEW o \in Objects, TypeQuery(o) \/ TypePack(o)
    PROVE  LifoInv'
<1>1. o \in HeldTypes
  BY DEF TypeQuery, TypePack, TypeOK
<1>2. datatype_retrieve(held[o]) = o /\ o \in heap
  BY <1>1, HeldLookup
<1>3. ~fault'
  BY <1>2 DEF TypeQuery, TypePack, LifoInv
<1>4. HeldTypes' = HeldTypes
  BY UseKeepsTables DEF HeldTypes
<1>5. QED
  BY <1>3, <1>4, UseKeepsTables
  DEF LifoInv, FallbackConsecutive, FallbackHeld, FallbackPoints

LEMMA LifoInvariant ==
    ASSUME FallbackFrees = "lifo"
    PROVE  HandlesSpec => []LifoInv
<1>1. HandlesInit => LifoInv
  BY InitLifoInv
<1>2. TypeOK /\ SlotInv /\ LifoInv /\ [HandlesNext]_hvars => LifoInv'
  <2> SUFFICES ASSUME TypeOK, SlotInv, LifoInv, [HandlesNext]_hvars PROVE LifoInv'
    OBVIOUS
  <2>1. ASSUME NEW olds \in SUBSET {held[o] : o \in HeldTypes}, TypeConstruct(olds)
        PROVE  LifoInv'
    BY <2>1, ConstructLifoInv
  <2>2. ASSUME NEW o \in Objects, TypeCommit(o) PROVE LifoInv'
    BY <2>2, CommitLifoInv
  <2>3. ASSUME NEW o \in Objects, TypeFree(o) PROVE LifoInv'
    BY <2>3, FreeLifoInv
  <2>u. ASSUME NEW o \in Objects, TypeQuery(o) \/ TypePack(o) PROVE LifoInv'
    BY <2>u, UseLifoInv
  <2>4. CASE UNCHANGED hvars
    BY <2>4 DEF hvars, LifoInv, FallbackConsecutive, FallbackHeld, FallbackPoints, HeldTypes
  <2>5. QED
    BY <2>1, <2>2, <2>3, <2>u, <2>4 DEF HandlesNext
<1>3. QED
  BY <1>1, <1>2, TypeCorrectness, SlotsInvariant, PTL DEF HandlesSpec

\* When types beyond the fast slots are freed in reverse order, every held
\* handle resolves to its own live object.
THEOREM HandlesAlwaysResolve ==
    ASSUME FallbackFrees = "lifo"
    PROVE  HandlesSpec => []HandlesResolve
<1>1. TypeOK /\ SlotInv /\ LifoInv => HandlesResolve
  BY HeldLookup DEF HandlesResolve
<1>2. QED
  BY <1>1, TypeCorrectness, SlotsInvariant, LifoInvariant, PTL

\* Under that order of frees no call the application makes with a held handle
\* uses a null or a deleted pointer.
THEOREM NeverFaults ==
    ASSUME FallbackFrees = "lifo"
    PROVE  HandlesSpec => []NoFault
<1>1. TypeOK /\ SlotInv /\ LifoInv => NoFault
  BY DEF NoFault, LifoInv
<1>2. QED
  BY <1>1, TypeCorrectness, SlotsInvariant, LifoInvariant, PTL

\* Under the same order of frees no object leaks, and none is deleted early.
THEOREM HeapAlwaysHeldTypes ==
    ASSUME FallbackFrees = "lifo"
    PROVE  HandlesSpec => []HeapIsHeldTypes
<1>1. TypeOK /\ SlotInv /\ LifoInv => HeapIsHeldTypes
  BY DEF HeapIsHeldTypes, LifoInv
<1>2. QED
  BY <1>1, TypeCorrectness, SlotsInvariant, LifoInvariant, PTL

\* and a committed type resolves to compiled code until it is freed.
THEOREM CommittedAlwaysCompiled ==
    ASSUME FallbackFrees = "lifo"
    PROVE  HandlesSpec => []CommittedTypesCompiled
<1>1. TypeOK /\ SlotInv /\ LifoInv => CommittedTypesCompiled
  BY HeldLookup DEF CommittedTypesCompiled, LifoInv, TypeOK
<1>2. QED
  BY <1>1, TypeCorrectness, SlotsInvariant, LifoInvariant, PTL

-----------------------------------------------------------------------------
(* With frees in reverse order, the table implements the registry *)

Inv == TypeOK /\ SlotInv /\ LifoInv

\* The registry's view: held handles name their own object, one each.
LEMMA RegistryView ==
    ASSUME Inv
    PROVE  /\ \A o \in HeldTypes : datatype_retrieve(held[o]) = o
           /\ \A o, p \in HeldTypes : held[o] = held[p] => o = p
BY HeldLookup DEF Inv

\* The same view one step later.
LEMMA RegistryViewNext ==
    ASSUME Inv'
    PROVE  \A o \in HeldTypes' : datatype_retrieve(held[o])' = o
<1>1. SUFFICES ASSUME NEW o \in HeldTypes' PROVE datatype_retrieve(held[o])' = o
  OBVIOUS
<1>2. CASE held'[o] \in FastHandles
  BY <1>1, <1>2 DEF Inv, HeldTypes, SlotInv, FastSlotsPoint, datatype_retrieve, Lookup
<1>3. CASE held'[o] \notin FastHandles
  BY <1>1, <1>3 DEF Inv, LifoInv, FallbackPoints, datatype_retrieve, Lookup
<1>4. QED
  BY <1>2, <1>3

means == [h \in HeldHandles |-> datatype_retrieve(h)]
usable == {h \in HeldHandles : datatype_retrieve(h) \in compiled}

LEMMA ConstructIsNew ==
    ASSUME Inv, Inv', NEW oldtypes \in SUBSET {held[o] : o \in HeldTypes},
           TypeConstruct(oldtypes)
    PROVE  Registry!New
<1>1. {Lookup(g_types, FallbackAfterCreate, h) : h \in oldtypes} \subseteq heap
  BY FreshHandle, HeldLookup DEF Inv
<1>2. PICK o \in Objects \ heap :
          /\ held[o] = NoHandle
          /\ held' = [held EXCEPT ![o] = HandleCreated]
  BY <1>1 DEF TypeConstruct
<1>h. PICK new : new = HandleCreated
  OBVIOUS
<1>3. compiled' = compiled
  BY <1>1 DEF TypeConstruct
<1>4. /\ HeldTypes' = HeldTypes \cup {o} /\ o \notin HeldTypes
      /\ held'[o] = new
      /\ \A p \in HeldTypes : held'[p] = held[p]
  BY <1>2, <1>h, HandleCreatedType DEF HeldTypes, TypeOK, NoHandle, Inv
<1>5. HeldHandles' = HeldHandles \cup {new} /\ new \notin HeldHandles
  BY <1>4, <1>h, FreshHandle DEF HeldHandles, Inv
<1>6. /\ \A h \in HeldHandles : datatype_retrieve(h)' = datatype_retrieve(h)
      /\ \A h \in HeldHandles : datatype_retrieve(h) # o
      /\ datatype_retrieve(new)' = o
  <2>1. ASSUME NEW h \in HeldHandles
        PROVE  datatype_retrieve(h)' = datatype_retrieve(h) /\ datatype_retrieve(h) # o
    <3>1. PICK p \in HeldTypes : held[p] = h
      BY DEF HeldHandles
    <3>2. datatype_retrieve(h) = p /\ p # o
      BY <1>4, <3>1, RegistryView
    <3>3. p \in HeldTypes' /\ held'[p] = h
      BY <1>4, <3>1
    <3>4. datatype_retrieve(h)' = p
      BY <3>3, RegistryViewNext DEF datatype_retrieve
    <3>5. QED
      BY <3>2, <3>4
  <2>2. o \in HeldTypes' /\ held'[o] = new
    BY <1>4
  <2>3. Lookup(g_types', g_types_fallback', held'[o]) = o
    BY <2>2, RegistryViewNext DEF datatype_retrieve
  <2>4. datatype_retrieve(new)' = o
    BY <2>2, <2>3 DEF datatype_retrieve
  <2>5. QED
    BY <2>1, <2>4
<1>7. means' = [h \in DOMAIN means \cup {new} |->
                   IF h = new THEN o ELSE means[h]]
  BY <1>5, <1>6 DEF means
<1>8. usable' = usable
  <2>1. o \notin compiled
    BY <1>2 DEF Inv, TypeOK
  <2>2. QED
    BY <1>3, <1>5, <1>6, <2>1 DEF usable
<1>9. QED
  BY <1>5, <1>6, <1>7, <1>8 DEF Registry!New, means, usable

LEMMA CommitIsCommit ==
    ASSUME Inv, Inv', NEW o \in Objects, TypeCommit(o)
    PROVE  Registry!Commit
<1>1. /\ o \in HeldTypes /\ datatype_retrieve(held[o]) = o
      /\ \A p \in HeldTypes : held[o] = held[p] => o = p
  BY RegistryView DEF TypeCommit
<1>2. compiled' = compiled \cup {o}
  BY <1>1, HeldLookup DEF TypeCommit, Inv
<1>3. HeldHandles' = HeldHandles
  BY DEF TypeCommit, HeldHandles, HeldTypes
<1>4. \A h : datatype_retrieve(h)' = datatype_retrieve(h)
  BY DEF TypeCommit, datatype_retrieve, Lookup
<1>5. means' = means
  BY <1>3, <1>4 DEF means
<1>6. held[o] \in HeldHandles /\ \A h \in HeldHandles : datatype_retrieve(h) = o => h = held[o]
  BY <1>1, RegistryView DEF HeldHandles
<1>7. usable' = usable \cup {held[o]}
  BY <1>1, <1>2, <1>3, <1>4, <1>6 DEF usable
<1>8. QED
  BY <1>5, <1>6, <1>7 DEF Registry!Commit, means, usable

LEMMA FreeIsFree ==
    ASSUME Inv, Inv', NEW o \in Objects, TypeFree(o)
    PROVE  Registry!Free
<1>1. o \in HeldTypes /\ datatype_retrieve(held[o]) = o
  BY RegistryView DEF TypeFree
<1>2. /\ compiled' = compiled \ {o}
      /\ HeldTypes' = HeldTypes \ {o}
      /\ \A p \in HeldTypes' : held'[p] = held[p]
  BY <1>1 DEF TypeFree, HeldTypes, TypeOK, Inv
<1>3. HeldHandles' = HeldHandles \ {held[o]} /\ held[o] \in HeldHandles
  BY <1>1, <1>2, RegistryView DEF HeldHandles
<1>4. \A h \in HeldHandles' : /\ datatype_retrieve(h)' = datatype_retrieve(h)
                              /\ datatype_retrieve(h) # o
  BY <1>1, <1>2, RegistryView, RegistryViewNext DEF HeldHandles
<1>5. means' = [h \in DOMAIN means \ {held[o]} |-> means[h]]
  BY <1>3, <1>4 DEF means
<1>6. usable' = usable \ {held[o]}
  BY <1>2, <1>3, <1>4 DEF usable
<1>7. QED
  BY <1>3, <1>5, <1>6 DEF Registry!Free, means, usable

\* A query or a pack is no event of the registry.
LEMMA UseIsStutter ==
    ASSUME NEW o \in Objects, TypeQuery(o) \/ TypePack(o)
    PROVE  UNCHANGED <<means, usable>>
BY UseKeepsTables DEF means, usable, HeldHandles, HeldTypes, datatype_retrieve, Lookup

\* With frees in reverse order, the handle table implements TypeRegistry:
\* every call of the application adds, marks or removes exactly one handle.
THEOREM RegistryImplemented ==
    ASSUME FallbackFrees = "lifo"
    PROVE  HandlesSpec => ImplementsRegistry
<1>1. HandlesInit => Registry!Init
  BY DEF HandlesInit, Registry!Init, HeldHandles, HeldTypes
<1>2. Inv /\ Inv' /\ [HandlesNext]_hvars => [Registry!Next]_<<means, usable>>
  <2> SUFFICES ASSUME Inv, Inv', [HandlesNext]_hvars
               PROVE  [Registry!Next]_<<means, usable>>
    OBVIOUS
  <2>1. ASSUME NEW olds \in SUBSET {held[o] : o \in HeldTypes}, TypeConstruct(olds)
        PROVE  Registry!Next
    BY <2>1, ConstructIsNew DEF Registry!Next
  <2>2. ASSUME NEW o \in Objects, TypeCommit(o) PROVE Registry!Next
    BY <2>2, CommitIsCommit DEF Registry!Next
  <2>3. ASSUME NEW o \in Objects, TypeFree(o) PROVE Registry!Next
    BY <2>3, FreeIsFree DEF Registry!Next
  <2>u. ASSUME NEW o \in Objects, TypeQuery(o) \/ TypePack(o) PROVE UNCHANGED <<means, usable>>
    BY <2>u, UseIsStutter
  <2>4. CASE UNCHANGED hvars
    BY <2>4 DEF hvars, means, usable, HeldHandles, HeldTypes, datatype_retrieve, Lookup
  <2>5. QED
    BY <2>1, <2>2, <2>3, <2>u, <2>4 DEF HandlesNext
<1>3. HandlesSpec => []Inv
  BY TypeCorrectness, SlotsInvariant, LifoInvariant, PTL DEF Inv
<1>4. QED
  BY <1>1, <1>2, <1>3, PTL DEF HandlesSpec, ImplementsRegistry, Registry!Spec, means, usable
=============================================================================
