# libpack: specifications, model checking and proofs

libpack replaces the datatype processing of MPI by functions compiled at run
time.  A program describes the layout of its data with the constructors of MPI
derived datatypes; *committing* a type emits LLVM IR for a pack and an unpack
function and compiles it.  An MPI wrapper interposes the MPI calls of an
unmodified program: it keeps a table of datatype handles, packs what is sent
into temporary buffers and unpacks what was received when the program learns
that the receive is complete.

This directory holds TLA+ models of that code, the TLC configurations that
check them and the proofs that TLAPS checks.  `PROJECT.json` is the index: the
components, the runs, the source lines of every definition, the hazards, what
the runs found and what is proved.

## Inventory

| Component | State it keeps | Operations | What makes it correct |
|---|---|---|---|
| Handle table (`interposer_common.cpp` 42-244) | `g_types`, `g_types_freelist`, `g_types_fallback` | `datatype_handle_create/free`, `datatype_store/retrieve`, the constructors, commit, free | a handle names the type it was made for until that type is freed; no object is leaked or deleted twice; committed types stay compiled |
| Buffers and requests (`interposer_common.cpp` 25-40, 255-454) | `g_outstanding_requests`, `scratch`, `scratch_in_use`, malloc'ed buffers | `buffer_alloc/free`, `pack/unpack`, `request_register/free`, `MPI_Wait`, `Waitall`, `Test`, `Testall` | a buffer serves one operation until it is complete; each receive is unpacked once, after its data arrived, with its own type; everything is freed |
| MPI entry points (`interposer.c`) | none | `MPI_Init`, `MPI_Type_*`, `MPI_Send/Recv/Isend/Irecv`, `MPI_Pack/Unpack` | they call the two components above in the right order |
| Datatype tree (`ddt_jit.cpp` 155-1280, `ddt_jit.hpp`) | a tree of objects, each owning clones of its subtypes | constructors, `clone`, `compress`, sizes and bounds | size and bounds are those of the type map; `compress` changes neither; ownership is a tree |
| Code generation (`codegen_*.cpp`) | none (emits IR) | loops for contiguous, vector, indexed, struct, resized; block copies | the emitted loops copy exactly the bytes of the type map, in order |
| Compilation life cycle (`ddt_jit.cpp` 68-188, 1284-1395) | `fpack`, `funpack`, `pack`, `unpack` of each object, the LLVM module | `DDT_Commit`, `DDT_Pack`, `DDT_Unpack`, `DDT_Free`, `DDT_Init` | no function runs before it is compiled or after it is freed; each is freed once |
| C interface (`pack.cpp`) | none | `LPK_*` | each call reaches the operation it is named for |
| Fortran bindings (`interposerf.f`, `interposer_common.cpp` 459-528) | none | forwarders | as the functions they forward to |
| ddtplayer | a tree of parsed descriptions | parse, evaluate, time | the types built are those described |
| Tests, benchmarks, copy_benchmark, tools | - | - | not part of the library |

How they interact.  The application calls `interposer.c`; that calls
`interposer_common.cpp`, which resolves handles to `Datatype` objects and calls
`DDT_Commit`, `DDT_Pack`, `DDT_Unpack`, `DDT_Free` on them, and calls the MPI
library through the `PMPI_` names.  The datatype tree calls the code generators
when it is compiled.  The library is single threaded and has no callbacks.
What is concurrent is the MPI library: data leaves and reaches the temporary
buffers at any time between the call that starts an operation and the one that
completes it.  That, and long sequences of legal calls that reuse handles,
request variables and buffers, is what tests hardly reach.  Nothing is
persistent; there are no crashes to recover from, no timeouts and no retries.

## Modules

| Module | What it is |
|---|---|
| `TypeRegistry` | abstract: what an application may expect of datatype handles |
| `DatatypeHandles` | the handle table and the calls that use it |
| `DatatypeHandlesProofs` | its theorems |
| `MCDatatypeHandles` | its instance for TLC |
| `NonblockingComm` | abstract: what a program may expect of its communication |
| `Interposer` | extends `DatatypeHandles` with buffers, requests, the MPI library and the program's communication |
| `InterposerProofs` | its theorems on buffers and records |
| `InterposerDataProofs` | its theorems on data, and that it implements `NonblockingComm` |
| `MCInterposer` | its instance for TLC |
| `DatatypeTree` | the constructors of the datatype classes, and one level of `compress` |
| `RankRecursion` | induction and recursion over a rank, for the proofs about trees |
| `DatatypeTreeProofs` | theorems about the constructors, trees and type maps |
| `TypeMap` | abstract: what a datatype means, the type map of MPI |
| `DatatypeCode` | `compress` on trees, and the pack and unpack functions generated from a tree |
| `DatatypePacking` | a datatype is built, committed, and packs and unpacks: the generated code against the type map |
| `DatatypePackingProofs` | its theorems: bounds, compression, generated code, for every tree |
| `MCDatatypePacking` | its instance for TLC |
| `BlockCopy` | the code emitted to copy a run of elements of a primitive type |
| `BlockCopyProofs` | its theorems |
| `MCBlockCopy` | its instance for TLC |
| `DatatypeValues` | abstract: datatypes as values that are copied, never shared |
| `JitLifecycle` | objects, clones, compiled functions and arrays from construction to destruction |
| `JitLifecycleProofs` | its theorems, and that it implements `DatatypeValues` |
| `MCJitLifecycle` | its instance for TLC |

### DatatypeHandles

`g_types`, `g_types_freelist` and `g_types_fallback` are the variables of the
code.  `heap` is the set of `Datatype` objects allocated (an object is its
address), `compiled` those that have pack and unpack code.  `held` is the
application's side: for each object, the handle the application was given for
it and has not freed; `committed` are the types it committed.  `fault` is set
when a null or deleted `Datatype*` is used, where the C++ behaviour is
undefined; no call happens after it.

The actions are the MPI calls, each a whole call: `TypeConstruct` (the nine
constructors differ only in how many old types they look up, and all of them
take the new handle first), `TypeCommit`, `TypeFree`, `TypeQuery` (`MPI_Type_size`,
`MPI_Type_extent`) and `TypePack` (`MPI_Pack`, `MPI_Unpack`), which change no table but
resolve a handle and use what they find.  The application is one
that passes only handles it holds.  Two simplifications bound what the model
says: an address is not reused while the application still holds a type whose
object was deleted there (which happens only after handles have collided), and
the handles of primitive types, which resolve to static objects, have no state.

`FallbackFrees` states how the application frees types whose handles lie
beyond the fast slots.  With `"any"` handles collide (see *Findings*); with
`"lifo"`, newest first, they do not, and that is exactly the condition under
which the table is proved to implement `TypeRegistry`.  An application with at
most `DDT_FAST_CACHE_SIZE` types at a time meets it trivially.

### Interposer

One record of `g_outstanding_requests` is a `struct Request`.  `request` holds
the application's request variables, which the wrapper knows by address;
`state`, `place` and `result` are the MPI library's side of each operation (how
far it is, the buffer it was given, the data delivered).  Packed data is
abstract: the operation it belongs to and the `Datatype` object that packed or
unpacked it, so that data of another operation, an unfilled buffer or
conversion with another type can be told apart.  A message has one of two
sizes as far as the wrapper is concerned, one that fits the scratch buffer and
one that does not; both are always possible, so `buffer_alloc` may choose malloc
while scratch is free, and chooses it when scratch is in use.

The steps of the wrapper are whole functions, with three cuts, at the places
where the MPI library can act in between: before and after a blocking PMPI
call (`SendCall`/`BlockingReturn`, `WaitCall`/`WaitReturn`,
`WaitallCall`/`WaitallReturn`), and between the iterations of the loop of
`Waitall` and `Testall` (`LoopStep`).  `Transfer` is the MPI library moving the
data of one operation.  If the buffer it was posted with has been freed
meanwhile, the data goes where the library was told, into memory that may by
then belong to another operation.  `LAZY` is 0 in the source as it stands, so
`interposer_request_register` compiles nothing.

`Habits` is what the application does besides `Wait`, `Waitall` and `Testall`.
MPI allows each: `MPI_Test`; completing calls that the wrapper does not interpose;
moving a request to another variable; receiving at `MPI_BOTTOM`; freeing a
datatype with a receive pending.  The runs say which promises survive which
habits.

### DatatypeTree, TypeMap, DatatypeCode, DatatypePacking

A node of the tree is a record of the arguments of its constructor and of what the
constructor computes: `size`, `lb`, `ub`.  It holds its subtree by value, because
every constructor clones its basetype.  `TypeMap` says what the same node means,
from the arguments alone: the pairs *(position in the packed item, offset in
memory)*, and the bounds.

`DatatypeCode` describes an emitted function by what it does when it runs, as the
set of its copies.  Its operators are the functions of `codegen_*.cpp`, with the same
roles of the two strides and two increments, which `unpackCodegen` passes the other way
round.  The emitted loops are loops that test an equality after the body; `Rounds`
says how often they run, and `Runaway` stands for one that misses its bound, and
for code built on a basic block that no longer is the loop's header.  The order of
copies within a call is left out: where two copies write one byte, both values are in
`moved`, and the comparison with the type map keeps them apart.

`DatatypePacking` has one action per constructor (the object that wraps a clone of
the previous one), `Commit` (`compile()` with compression, its assertions and
both functions), `DDT_Pack`, `DDT_Unpack` and `LPK_Pack`.  `LPK_Unpack` is
`DDT_Unpack` under another name.

Meaning, compression, code and scope recurse over the tree.  Each is a recursive
function on `Trees`, the trees of at most `MaxDepth` constructors, and is written in two
parts: the operator that makes the value of a node from the values of its basetypes
(`MeaningOf`, `CompressOf`, `AssertsOf`, `Emit`, `InScopeOf`), and the function that is its
own argument.  An induction speaks of the first.  `Code` is a function of the
tree, the direction and the number of items.

`InScope` names the datatypes for which the passing runs hold the library to the
type map, and `Restorable` those that can also be unpacked.  Each conjunct stands
for one thing the code does not do, and a comment beside it says which: the list under
*Known limits* is that list in words.

### BlockCopy

`codegenPrimitive()` for a count known when code is generated: full vectors in an
unrolled loop, then a postamble of shrinking vectors.  `left` and `vecsize` are the
generator's counters, `in` and `out` the pointers of the emitted code.  The whole of it
is the one operator `Copy` of `DatatypeCode`; the theorems say that this is sound.

### JitLifecycle, DatatypeValues

What `DatatypePacking` treats as values, trees and functions, is memory in the program.
`heap` maps addresses to objects; an object holds the addresses of its basetypes, its
`pack` and `unpack` functions (`fpack`/`pack` and `funpack`/`unpack` are one pointer
each: they are set and freed together) and, if indexed, the array of displacements that
`globalCodegen` made.  `functions` and `arrays` are the LLVM module; a function
carries the arrays its code reads.  An address and a name are used again as soon as they
are free (`Unused` is some free one; TLC takes the lowest), which makes a stale pointer meet a new
object.  The address of a deleted object stays in `heap`, with kind `"deleted"`; `NULL` is 0.

The C++ functions take the memory as it is and give it as they leave it, with the pointer they
return, in the order of the code's effects.  Those that call themselves on the basetypes of an
object are tables over the levels of nesting: `Clone`, `Destroy`, `Compress`, `GlobalCodegen`,
`Gapless`, `Reads` and `Value` are functions whose value at *n* handles types nested at most *n*
deep.  Each is written in two parts, `XOf(X, n)`, one level with calls to the table at *n* - 1, and
`X[n]`, which closes the recursion.  Calls start at `MaxTypes`, and a call that runs out of levels is a
fault, so that `NoMisuse` says also that none does.  The actions are the calls of the interface: the constructors (`LPK_Primitive` makes a
second object), `DDT_Commit`, `DDT_Pack`, `DDT_Unpack`, `DDT_Lazy_Unpack_Commit`,
`DDT_Free`.  A call cannot be interrupted, so a call is one step.  `Lazy` chooses
the build: `LAZY` 0 compiles both directions on commit, `LAZY` 1 each at its first use.
The application packs committed types only, and may commit twice and free in any
order.  Kinds stand for classes that treat memory alike, as `AllKinds` says.

`by` separates what the application's constructor calls built from what only the library
knows of.  The library leaves objects behind: every `compile()` forgets the compressed
basetypes that a constructor cloned, a struct never deletes the second set of clones, a
second commit drops the functions of the first.  The properties say exactly what is left
behind (`FunctionsAccounted`: functions in `dropped` and no others) and that the
application's own objects are not (`OwnTypesFreed`).  `DatatypeValues` is what a user sees:
types as values, which nothing done to another type changes or breaks.

## Runs

| Run | Question | Instance |
|---|---|---|
| `handles` | Does the table implement `TypeRegistry` when map handles are freed newest first? | 2 fast slots, 4 types |
| `handles_collision` | *violation*: do held handles always resolve to their own type? | 2 fast slots, 5 types, any order of frees |
| `comm_waiting` | Do records, buffers and requests stay in step, and is what is sent and received right? | 2 sends, 2 receives, 2 request variables, 3 buffers and scratch |
| `comm_progress` | Does each operation return once, for good, with its own data; does everything return and is everything freed? | 1 send, 2 receives, 1 type |
| `comm_any_habit` | Is every buffer freed at most once, and none lost while listed, under all habits? | 1 send, 2 receives, 1 type |
| `comm_test` | *violation*: is a receive reported complete unpacked? | 1 send, 2 receives |
| `pack_types` | Do bounds, compression, pack and unpack agree with the type map? | every constructor over every constructor, two items |
| `pack_nested` | And where compressed nodes are compressed again? | trees of depth three, one and two items |
| `block_copy` | Is each byte of a block copied once, and none behind it? | vectors of 8 bytes, rounds of 3, counts around every boundary |
| `pack_asserts` | *violation*: do the assertions of `compress()` hold? | the shape of a MILC trace |
| `pack_through_c` | *violation*: does `LPK_Pack` pack? | one vector |
| `lifecycle` | Is memory used, owned and freed right, and do types behave as values? | 3 types of all classes, 2 compilations, with and without `LAZY` |

Bounds.  Two fast slots let a slot be reused while the other is held, and let
the freelist hold none, one or two; two or three types more fill the map with
entries that can be freed in each order, which is what a collision needs.  Two
request variables let one be used again while the other is pending, and let
the arrays of `Waitall` hold none, one or two null requests; three or four
operations give each variable a second use.  With two or three malloc'ed
buffers every operation that overlaps another has one.  The communication runs
have one fast slot, so that types are also found in the map.  Every operation
is performed once; the state graph is finite without a further bound.

Datatypes.  Counts and block lengths 0, 1 and 2 are the empty type, the one that needs no
loop and the one that does; strides lie below, at and above the block length;
displacements come unsorted, with gaps and negative.  `IDXB_LOOP_TRESHOLD` is 2
instead of 16, so that three blocks are enough for the loop over a table.  At depth two
each constructor meets each other one as its basetype, compressed and not; depth
three, with fewer arguments and one-byte elements, is the first at which the
result of a compression is compressed again.  Two items per call make the extent
matter.  `block_copy` has vectors of 8 bytes and an unrolling of 3, which is no power of
two, with counts on both sides of every threshold; the theorems cover the real constants.

Life cycle.  `MaxTypes` and `MaxCompiles` are the bounds.  Three types allow a chain
of depth three and a struct of two different types, or one twice; freed in any order they leave
holes that the next object fills.  Two compilations are two types compiled, or one compiled
twice, before and after others are freed.  More types than three constructed in one
life of the process add repetitions: the state after a free is nearly the initial one.

Deadlock is checked in the runs of well-behaved programs.  Runs in which a fault
or a lost request may stop the program say `CHECK_DEADLOCK FALSE`, and so do the runs
of datatypes (an assertion or a loop that runs away ends the process), of
`block_copy` (the function returns) and `lifecycle` (its two bounds are used up).

Symmetry is used for invariants only, over sets whose members are
interchangeable.

Fairness (`comm_progress`).  `LibraryFairness`: the MPI library moves the data of
a posted operation eventually, which assumes a peer that plays its part, and
the code of a call that can go on does go on.  `ApplicationFairness`: the
program calls `MPI_Wait` for each request it holds; it is strong fairness because
another call in progress disables `WaitCall` for a while.  Nothing else is assumed:
the program may construct and free types for ever and need not start anything.

## Findings

Each is a run that TLC finds violated.

* **Handles collide** (`handles_collision`).  Beyond the fast slots the next handle
  is 50 plus the size of the map.  Free a type of the map that is not the newest
  and construct another: it gets the handle of the newest, whose entry is
  overwritten.
* **`MPI_Test` frees early** (`comm_test`).  It unpacks and frees whatever the flag.
  The comment above it suspects `MPI_Testall` too, but `Testall` looks at the
  requests and is right.
* **An assertion of `compress()` fails** (`pack_asserts`).  The bounds of an hvector of
  negative stride depend on the extent of its basetype in a wrong way; when
  a contiguous basetype dissolves into the block length the extent of the whole changes.
* **`LPK_Pack` unpacks** (`pack_through_c`).  For types without gaps, as in its test,
  the two are the same.

### Known limits

What the scope of the passing runs leaves out, because the code does not do it.  In the
wrapper (the habits of `Interposer`, whose constants turn each of them on):

* a receive completed with `MPI_Waitany`, `Waitsome`, `Testany` or `Testsome` is
  never unpacked (`interposer_common.cpp` 333), and its stale record is found first
  when the variable is used again;
* a record keeps the handle of its type and resolves it on completion
  (`interposer_common.cpp` 318), when the type may be gone;
* `interposer_buffer_free` sets `scratch_in_use` to true (277), so scratch serves one
  message in the life of the program, which is also why it is never shared.

In the datatypes (the conjuncts of `InScope` and `Restorable`):

* bounds are right for strides that run forward only; an hvector multiplies a stride in
  bytes by an extent (`ddt_jit.cpp` 584);
* the size of an indexed block leaves its block length out (738), its first
  displacement enters the bounds unscaled (742), and its unrolled code scales
  displacements by size, not extent (`codegen_indexed.cpp` 131);
* the loop over a table of displacements reads them zero-extended, advances the
  compact side by extents, and is right only for basetypes that are plain copies
  (`codegen_indexed.cpp` 65-79);
* the bounds of hindexed types and structs leave out those of their basetypes, and
  those of a struct start from 0, so that some block must begin at or before 0 and some end
  at or behind it (`ddt_jit.cpp` 885-895, 1002-1020); their loops count in extents, which
  must not be 0;
* the bounds of everything built over a resized type of negative extent, whose items lie in
  the opposite order;
* a type resized over an indexed type, a struct or a resized type moves nothing
  (1167-1178); over a primitive or contiguous type, unpacking packs (1184-1195), down to the
  elements, so it is right only for primitive elements without gaps;
* no emitted loop can run zero times, so a call for no item, or a type with a count
  of zero inside, runs away.

## Proofs

`DatatypeHandlesProofs` proves, for any number of fast slots and any set of
objects, under the three named assumptions of `DatatypeHandles` (the number of
slots is a natural number, `NULL` is no object, `FallbackFrees` has one of its
two values):

* `TypeCorrectness`: `[]TypeOK`, for any order of frees.
* `SlotsAlwaysPartitioned` and `FastHandlesAlwaysResolve`, for any order of frees.
  The inductive invariant `SlotInv` says of the freelist that it has no duplicates and
  that its slots are held by no type, of each slot that it is in the freelist or held, and
  of each held slot that `g_types` has its object and the object is allocated.  The last
  part needs that `TypeFree` of a map handle, which may delete a wrong object after a
  collision, never deletes one that a fast slot names; so `SlotInv` also relates the two tables.
* `HandlesAlwaysResolve`, `NeverFaults`, `HeapAlwaysHeldTypes`, `CommittedAlwaysCompiled` and
  `RegistryImplemented`, when `FallbackFrees = "lifo"`.  `LifoInv` adds that the keys of the map are exactly
  `FastCacheSize .. FastCacheSize + n - 1`, each held by one type.  A constructor then
  takes a key that is not in use and a free removes the last; without the first fact
  the invariant is not inductive, and that is the collision.

`BlockCopyProofs` proves `CopyComplete` and `CopyInBounds` for every size of element,
count, vector width and unrolling, from `CopyAssumption`: the numbers are positive and
a vector holds a whole number of elements, which `codegenPrimitive()` asserts.
(That the width is a power of two, which it asserts too, is not needed.)  The invariant
`CopyInv` says that what has been copied is exactly what lies before the pointers; that
in the loop the pointers are a whole number of rounds in, short of the last, so the
equality that ends it is met; and that in the postamble the pointers and the elements left
make up the whole, with nothing left once vectors have shrunk to nothing.

(`CopyTypeCorrectness` is the type invariant, from the same `CopyInv`.)

`DatatypeTreeProofs` proves, for all counts, block lengths and forward strides, one level of
compression: if the compressed basetype `Replaces` the basetype (same size and bounds), then
what `compress()` builds on it has the size and bounds of the original, so its assertions hold
(`CompressContiguousKeeps`, `CompressVectorKeeps`, `CompressHVectorKeeps`).  The restriction to
forward strides is what `pack_asserts` shows to be needed.  `VectorBoundsAreHull`: the bounds of
a vector of forward stride contain each of its items and are attained.  The rest of the module
is what the next one stands on: trees, their heights, sums, type maps and how they are assembled.

`DatatypePackingProofs` proves all six invariants of `DatatypePacking` for every tree, of
any depth, over any sets of arguments: counts and block lengths are natural numbers, strides and
bounds integers, displacements sequences of integers, the number of items of a call positive
(`ArgumentsAssumption`); thresholds and `MaxDepth` are any natural numbers.  The argument:

* *Objects.*  `Built` are the trees whose every node is what its constructor computed
  (`AsBuilt`).  `PackInv`, the inductive invariant, says that the object is one of these, that
  committed code is that of `Compress[dtype]`, that `moved` is what the functions of that code
  move for `items` items, and that a type in scope has met no fault.
* *Bounds* (`RegularFits`).  A tree is `Regular` if each node satisfies the conditions of
  `InScope` that concern attributes (`Straight`).  By induction on the height, a regular tree
  `Fits`: each packed position below its size has one place in memory (`Lays`), and size, lower
  and upper bound are those of the type map.  For the indexed constructors and structs this
  relates the running minimum and maximum of the constructor to the hull of the blocks.
* *Compression* (`CompressStands`).  The compressed tree is regular again, has the same
  attributes and *the same meaning*: items of items are items, blocks of a dissolved
  contiguous type are longer blocks, a vector whose stride is its block length is
  contiguous (`RepsOfReps` and the lemmas around it).  Equal meaning is what the induction needs:
  with equal attributes alone, the level above could not say where its bytes are.
  `CompressAssertsHold` follows.
* *Code* (`RunnableRuns`).  A regular tree is `Runnable` if nothing in it makes a loop
  start from zero or leave its header (`Ready`); `ScopeRunnable` shows this of the
  compressed form of every type in scope.  By induction on the height, the copies of *n* items
  move exactly the type map of *n* items (`Moves`), for packing, and for unpacking of a `Restorable`
  tree.  The step says of each code generator that its two nested loops lay the items of the
  basetype at the positions and places the type map has, in either direction (`Move`).
* *Termination* (`RunnableEnds`).  The same induction without `Restorable`: every loop
  takes as many rounds as there are items or blocks, even where what an unpack function
  moves is wrong.

`BoundsAlwaysMatch`, `CompressionAlwaysKeepsMeaning`, `PackAlwaysFollows`, `UnpackAlwaysFollows`,
`CodeAlwaysEnds` and `PackingTypeCorrectness` follow from `PackInv` and these.  Three conditions of
the scope were found by the proofs, on trees the runs did not reach: the end of some
block of a struct, the sign of a resized extent, and the elements under a resized
contiguous type.

`RankRecursion` supplies the induction.  The library's induction theorems take an operator as a
parameter, which the provers cannot instantiate; here the domain, its rank and the body of the
recursion are CONSTANTS of a module, and a module with a recursive function instantiates it
(`MeaningRec`, `CompressRec`, ...).  `RecursionExists` says that the function the definition
chooses exists, if its body reads lower ranks only, and `RankInduction` is induction in the form
of a set that holds each element above its members.  The rank of a tree is its `Height`.

One rule of these proofs is not obvious: a leaf expands one `CASE` expression at most.
The SMT encoding of this prover may take two different ones for the same unknown
value.  So lemmas say once what each `CASE` is for each kind (`MeaningOfKinds`, `CompressOfKinds`,
`AssertsOfKinds`, `EmitOfKinds`, `EmitResizedKinds`; `PhaseCases` in `InterposerDataProofs`),
and everything else cites those.

`InterposerProofs` proves, for any sets of operations, request variables, buffers and
types, under the named assumptions of `DatatypeHandles` and `Interposer`:

* `InterposerTypeCorrectness`, whatever the habits.  The types alone are not inductive:
  `CallShape` adds that a blocking call works on an operation in a temporary buffer,
  which is what is freed, and that a completion loop has an iteration left.
* `TemporariesAlwaysOwnedOnce`, whatever the habits, faults included.  `TemporariesOwnedOnce`
  speaks of malloc'ed buffers only; `OwnInv` adds that scratch is in use as long as a
  record or a call owns it, without which scratch could be given out twice and the next
  step would have two owners.
* `RecordsAlwaysMatchRequests`, if `CompletesProperly`: no `MPI_Test`, no completing call
  that the wrapper does not interpose, no request moved to another variable (the
  first of these is refuted by `comm_test`).  `MatchInv` relates four things: the
  records, the request variables, the array of the call in progress, and how far the
  library is with each operation.  It must say what each kind of call may rely on while it is
  blocked, because records outlive requests in a completion loop: there the variable is
  null already, the operation released, and the record waits for its iteration.
* `BuffersAlwaysPinned`, from `OwnInv` and `MatchInv` together: an operation in flight has its
  buffer from a record or a blocking call, a record keeps the buffer of one operation
  (`KeptOnce`), and a buffer has one owner.

That `interposer_request_free` takes exactly one record out of the list rests on
`RemoveAtFacts`, which says where each element of a list comes from after `RemoveAt`.

`InterposerDataProofs` goes on under the assumption `Plain`: none of the `Habits`, and types
beyond the fast slots freed newest first (the runs show that without either the
properties are false).

* `CommunicationNeverFaults`, `SendsAlwaysRight` and `ReceivesAlwaysRight` rest on `DataInv`, which
  relates the handle table to the records.  The handle in the record of a receive was
  looked up when the receive was posted, and is looked up again when it completes; so
  `TypesKept` keeps the type usable in between, `RecordsRight` ties each record to its own
  operation's user buffer and type, `ContentsRight` says whose data a buffer in flight
  has, and `PrimitivesRight` covers operations without a buffer.  That no transfer touches the
  buffer of another operation is `BuffersPinned`.  `LifoInv` of `DatatypeHandlesProofs` gives the
  lookup (`UsableResolves`), and its lemmas are used again for the datatype calls
  between communication (`TypeCallRight`).
* `CommunicationImplemented`: under the refinement mapping of `Comm`, each step of the application,
  the wrapper or the library starts, delivers or returns one operation, or changes nothing
  the program sees.  What a program has seen follows from the phases by `DataInv`
  (`SightsByPhase`), so a step is simulated by what it does to the phases (`CommStep`).  In the loop
  of `MPI_Waitall` the phases separate the release of all operations, which nobody sees, from
  the iterations, each of which returns one.

`JitLifecycleProofs` proves all six invariants of `JitLifecycle` and that it implements
`DatatypeValues`, for any `MaxTypes` and `MaxCompiles`, any of the kinds and either build
(`LazyAssumption`, `KindsAssumption`, `BoundsAssumption`): `LifecycleTypeCorrectness`, `NeverMisused`,
`SubtypesAlwaysOwnedOnce`, `OwnTypesAlwaysFreed`, `FunctionsAlwaysAccounted`,
`CodeAlwaysKeepsItsArrays` and `ValuesImplemented`.  The inductive invariant is `LifeInv`
(`LifeAlways`):

* `Sound(Memory, own)` says what holds of memory between two calls.  `Owners`: the live
  objects form a forest (`Forest`), whose trees are at most `MaxTypes` deep and whose roots include the
  application's types; only those have code; each object made for the application is one of its types or a
  field of such an object.  `Accounted`: each function belongs to one of the application's types, in one
  direction, or was dropped.  Further, arrays and functions are finitely many and none is called `NULL`,
  and every array a function reads exists.
* The types of the application nest at most `made` deep, so that no call runs out of levels.
* Without `LAZY` the committed types have both functions and no other type has one.

None of the six invariants is inductive without the rest.  That a `delete` finds each object once
needs the forest, with the clones nobody reads and the objects the library forgot; that it ends within
`MaxTypes` levels needs the depth, which must be kept for the compressed trees as well; that it
frees each function once needs `Accounted`.  The steps of the argument are
about the calls, each for any memory that is `Sound`, by induction over the levels:

* `clone()` and the constructors add one tree, and change nothing else (`Grown`, `Copied`); the new
  tree says what the old one did.
* Destructors take away exactly the tree below the object, with its code (`Erased`, `Below`).  A
  second set of clones stays behind as trees of its own.
* `compress()` leaves behind trees of the library only, in addition to the one it returns (`Litter`,
  `Pressed`).  This includes `Rebuild` and `Promote`, which delete objects made on the way.
* `globalCodegen` and code generation touch arrays and functions only (`Arming`, `Emitting`), and
  what the code reads are arrays that exist when the call is over.
* A whole call makes one type, compiles one, or frees one, and every other type of the application keeps
  its tree and its functions (`Follows`, `Outcome`).  `LifeInv` follows, and so does the refinement,
  whose actions are these three (`StepIsValueStep`).

`RankRecursion` is used once more, with the level as the rank (`CloneRec` to `NestedRec`).

Model-checked only: liveness (`comm_progress`, and `CopyEnds` of `block_copy`), which the prover
cannot express.  `PackInv` is not checked by TLC as it stands, because
`Built` is infinite; its parts are the invariants of `pack_types`, and the equation
of `code` and `moved` with what the actions assign.  `LifeInv` TLC can evaluate, but slowly: it was
checked for two types of all kinds with two compilations, and for three types of kinds `indexed`
and `struct` with one, and is not part of the run `lifecycle`.

## Not modelled

In the wrapper: message sizes and byte contents; the `position` argument of `MPI_Pack` and
`MPI_Unpack`, which the code ignores; these two on a primitive type, which call a
function that nobody compiled; `MPI_Finalize`; failure of `malloc` and of PMPI calls, which
the code does not check; MPI errors.

In the datatypes: true bounds (nothing that is generated reads them); the alignment padding
that MPI may add to the extent of a struct (the type map has none, and neither has
the code); overflow of sizes, which are `int`; the order of copies; a second `DDT_Init`,
which a correct program does not make; the casts of `LPK_Free` and `LPK_Compile`, which take a
pointer to a type for the type.  `PACKVAR` 2 and 3 are not built: the variants of
`codegenPrimitive` behind them call a method from a plain function and do not compile.

The Fortran bindings are one-line forwarders to functions that are modelled.  `ddtplayer` parses
descriptions, builds each type twice and compares and times; it keeps nothing but the
list of types.  The tests, benchmarks and tools are not part of the library.  LLVM is
external.

## Plan

Done: the handle table with its proofs; buffers and requests with the proofs that they stay
in step, that data is right and that `NonblockingComm` is implemented; the datatype tree, the
type map and the generated code, with the proofs that bounds, compression, pack and unpack agree
with the type map for every tree; block copies with their proofs; the life cycle of
objects and compiled functions, with the proofs that memory is owned, used and freed right and that
types behave as values.  Left: that the operator `Copy` of `DatatypeCode` is what `BlockCopy` does, as
a refinement instead of in words.
