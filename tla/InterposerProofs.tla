-------------------------- MODULE InterposerProofs --------------------------
(***************************************************************************)
(* What the bookkeeping of buffers and requests guarantees, for any number *)
(* of operations, request variables, buffers, types and fast slots.        *)
(***************************************************************************)
EXTENDS Interposer, DatatypeHandlesProofs, WellFoundedInduction

-----------------------------------------------------------------------------
(* Lists of records *)

\* A nonempty set of natural numbers has a least element, which Min returns.
LEMMA MinIsMember ==
    ASSUME NEW S \in SUBSET Nat, S # {}
    PROVE  Min(S) \in S
<1>1. PICK x \in S : \A y \in S : ~ (<<y, x>> \in OpToRel(<, Nat))
  BY WFMin, NatLessThanWellFounded
<1>2. \A y \in S : x <= y
  <2> SUFFICES ASSUME NEW y \in S PROVE x <= y
    OBVIOUS
  <2>1. ~ (y < x)
    BY <1>1 DEF OpToRel
  <2>2. QED
    BY <2>1
<1>3. QED
  BY <1>2 DEF Min

\* Where an element of the list after RemoveAt(s, i) comes from.
Origin(i, j) == IF j < i THEN j ELSE j + 1

LEMMA RemoveAtFacts ==
    ASSUME NEW S, NEW s \in Seq(S), NEW i \in DOMAIN s
    PROVE  /\ RemoveAt(s, i) \in Seq(S)
           /\ DOMAIN RemoveAt(s, i) = 1 .. Len(s) - 1
           /\ \A j \in DOMAIN RemoveAt(s, i) :
                 /\ Origin(i, j) \in DOMAIN s \ {i}
                 /\ RemoveAt(s, i)[j] = s[Origin(i, j)]
           /\ \A j, k \in DOMAIN RemoveAt(s, i) : Origin(i, j) = Origin(i, k) => j = k
           /\ \A k \in DOMAIN s \ {i} :
                 \E j \in DOMAIN RemoveAt(s, i) : Origin(i, j) = k
<1> DEFINE a == SubSeq(s, 1, i - 1)
           b == SubSeq(s, i + 1, Len(s))
           n == Len(s)
<1>1. n \in Nat /\ DOMAIN s = 1 .. n /\ i \in 1 .. n
  BY LenProperties
<1>2. \A k \in 1 .. n : s[k] \in S
  BY <1>1, ElementOfSeq
<1>3. /\ a \in Seq(S) /\ Len(a) = i - 1
      /\ \A j \in 1 .. i - 1 : a[j] = s[j]
  <2>1. \A k \in 1 .. i - 1 : s[k] \in S
    BY <1>1, <1>2
  <2>2. /\ a \in Seq(S)
        /\ Len(a) = IF 1 <= i - 1 THEN i - 1 - 1 + 1 ELSE 0
        /\ \A j \in 1 .. i - 1 - 1 + 1 : a[j] = s[1 + j - 1]
    BY <1>1, <2>1, SubSeqProperties
  <2>3. QED
    BY <1>1, <2>2
<1>4. /\ b \in Seq(S) /\ Len(b) = n - i
      /\ \A j \in 1 .. n - i : b[j] = s[i + j]
  <2>1. \A k \in i + 1 .. n : s[k] \in S
    BY <1>1, <1>2
  <2>2. /\ b \in Seq(S)
        /\ Len(b) = IF i + 1 <= n THEN n - (i + 1) + 1 ELSE 0
        /\ \A j \in 1 .. n - (i + 1) + 1 : b[j] = s[(i + 1) + j - 1]
    BY <1>1, <2>1, SubSeqProperties
  <2>3. QED
    BY <1>1, <2>2
<1>c. RemoveAt(s, i) = a \o b
  BY DEF RemoveAt
<1> HIDE DEF a, b, n
<1>5. /\ a \o b \in Seq(S)
      /\ Len(a \o b) = Len(a) + Len(b)
      /\ \A j \in 1 .. Len(a) + Len(b) :
            (a \o b)[j] = IF j <= Len(a) THEN a[j] ELSE b[j - Len(a)]
  BY <1>3, <1>4, ConcatProperties
<1>6. Len(a \o b) = n - 1 /\ DOMAIN (a \o b) = 1 .. n - 1
  BY <1>1, <1>3, <1>4, <1>5, LenProperties
<1>7. \A j \in 1 .. n - 1 : (a \o b)[j] = s[Origin(i, j)]
  <2> SUFFICES ASSUME NEW j \in 1 .. n - 1 PROVE (a \o b)[j] = s[Origin(i, j)]
    OBVIOUS
  <2>1. CASE j < i
    BY <1>1, <1>3, <1>4, <1>5, <2>1 DEF Origin
  <2>2. CASE j >= i
    <3>1. j - (i - 1) \in 1 .. n - i /\ i + (j - (i - 1)) = j + 1
      BY <1>1, <2>2
    <3>2. (a \o b)[j] = b[j - (i - 1)]
      BY <1>1, <1>3, <1>4, <1>5, <2>2
    <3>3. b[j - (i - 1)] = s[j + 1]
      BY <1>4, <3>1
    <3>4. QED
      BY <1>1, <2>2, <3>2, <3>3 DEF Origin
  <2>3. j \in Int /\ i \in Int
    BY <1>1
  <2>4. j < i \/ j >= i
    BY <2>3
  <2>5. QED
    BY <2>1, <2>2, <2>4
<1>8. \A k \in 1 .. n : k # i => \E j \in 1 .. n - 1 : Origin(i, j) = k
  <2> SUFFICES ASSUME NEW k \in 1 .. n, k # i PROVE \E j \in 1 .. n - 1 : Origin(i, j) = k
    OBVIOUS
  <2>1. CASE k < i
    BY <1>1, <2>1 DEF Origin
  <2>2. CASE k > i
    <3>1. k - 1 \in 1 .. n - 1 /\ Origin(i, k - 1) = k
      BY <1>1, <2>2 DEF Origin
    <3>2. QED
      BY <3>1
  <2>3. QED
    BY <1>1, <2>1, <2>2
<1>9. \A j \in 1 .. n - 1 : Origin(i, j) \in (1 .. n) \ {i}
  BY <1>1 DEF Origin
<1>10. \A j, k \in 1 .. n - 1 : Origin(i, j) = Origin(i, k) => j = k
  BY <1>1 DEF Origin
<1>11. n = Len(s)
  BY DEF n
<1>12. QED
  BY <1>c, <1>1, <1>11, <1>5, <1>6, <1>7, <1>8, <1>9, <1>10

\* interposer_request_free does nothing, or takes one record for the variable
\* out of the list and cleans up after it.
LEMMA RequestFreeCases ==
    ASSUME g_outstanding_requests \in Seq(RecordType), NEW r, request_free(r)
    PROVE  \/ /\ \A i \in DOMAIN g_outstanding_requests : g_outstanding_requests[i].mpi_req # r
              /\ UNCHANGED <<g_outstanding_requests, scratch_in_use, malloced, result, fault>>
           \/ \E i \in DOMAIN g_outstanding_requests :
                 /\ g_outstanding_requests[i].mpi_req = r
                 /\ g_outstanding_requests' = RemoveAt(g_outstanding_requests, i)
                 /\ IF g_outstanding_requests[i].tmpbuf = NULL
                    THEN UNCHANGED <<scratch_in_use, malloced, result, fault>>
                    ELSE Cleanup(g_outstanding_requests[i])
<1> DEFINE I == {i \in 1 .. Len(g_outstanding_requests) : g_outstanding_requests[i].mpi_req = r}
           i == SelectInSeq(g_outstanding_requests, LAMBDA q : q.mpi_req = r)
<1>1. /\ Len(g_outstanding_requests) \in Nat
      /\ DOMAIN g_outstanding_requests = 1 .. Len(g_outstanding_requests)
  BY LenProperties
<1>2. i = IF I # {} THEN Min(I) ELSE 0
  BY DEF SelectInSeq
<1>3. CASE I = {}
  <2>1. i = 0
    BY <1>2, <1>3
  <2>2. UNCHANGED <<g_outstanding_requests, scratch_in_use, malloced, result, fault>>
    BY <2>1 DEF request_free
  <2>3. QED
    BY <1>1, <1>3, <2>2
<1>4. CASE I # {}
  <2>a. I \in SUBSET Nat
    BY <1>1
  <2>1. Min(I) \in I
    BY <2>a, <1>4, MinIsMember
  <2>2. i \in I /\ i # 0
    BY <1>1, <1>2, <1>4, <2>1
  <2>3. /\ g_outstanding_requests' = RemoveAt(g_outstanding_requests, i)
        /\ IF g_outstanding_requests[i].tmpbuf = NULL
           THEN UNCHANGED <<scratch_in_use, malloced, result, fault>>
           ELSE Cleanup(g_outstanding_requests[i])
    BY <2>2 DEF request_free
  <2>4. QED
    BY <1>1, <2>2, <2>3
<1>5. QED
  BY <1>3, <1>4

-----------------------------------------------------------------------------
(* Types *)

\* What the types need to be inductive: a blocking call works on an operation
\* in a temporary buffer, and a loop has an iteration left.
CallShape ==
    /\ call.fn \in {"Send", "Recv"} =>
          call.reqs # <<>> /\ call.reqs[1].old \in Ops /\ place[call.reqs[1].old] # NULL
    /\ call.fn = "loop" => call.reqs # <<>>

TypeInv == InterposerTypeOK /\ CallShape

CallEntry == [req : ReqVars \cup {NULL}, old : Ops \cup {NULL}]

\* Only TypeCall touches the handle table.
LEMMA TablesKept ==
    ASSUME TypeOK, UNCHANGED tables, fault' \in BOOLEAN
    PROVE  TypeOK'
BY DEF TypeOK, tables, HeldTypes

LEMMA RetrieveType ==
    ASSUME TypeOK, NEW h
    PROVE  datatype_retrieve(h) \in Objects \cup {NULL}
BY DEF TypeOK, datatype_retrieve, Lookup

LEMMA AllocType ==
    ASSUME InterposerTypeOK, NEW b, buffer_alloc(b)
    PROVE  /\ b \in Buffers /\ b # NULL
           /\ scratch_in_use' \in BOOLEAN
           /\ malloced' \in SUBSET TmpBufs
BY BuffersAssumption DEF InterposerTypeOK, buffer_alloc, Buffers

LEMMA FreeType ==
    ASSUME InterposerTypeOK, NEW b, buffer_free(b)
    PROVE  scratch_in_use' \in BOOLEAN /\ malloced' \in SUBSET TmpBufs
BY DEF InterposerTypeOK, buffer_free

LEMMA UnpackedType ==
    ASSUME InterposerTypeOK, NEW b \in Buffers, NEW h
    PROVE  Unpacked(b, h) \in Data
<1>1. content[b] \in Data
  BY DEF InterposerTypeOK
<1>2. datatype_retrieve(h) \in Objects \cup {NULL}
  BY RetrieveType DEF InterposerTypeOK
<1>3. QED
  BY <1>1, <1>2 DEF Unpacked, Data

\* A record of the list.
LEMMA RecordFacts ==
    ASSUME InterposerTypeOK, NEW i \in DOMAIN g_outstanding_requests
    PROVE  /\ g_outstanding_requests[i] \in RecordType
           /\ g_outstanding_requests[i].mpi_req \in ReqVars
           /\ g_outstanding_requests[i].tmpbuf \in Buffers \cup {NULL}
           /\ g_outstanding_requests[i].usrbuf \in Recvs \cup {NULL}
<1>1. g_outstanding_requests[i] \in RecordType
  BY ElementOfSeq, LenProperties DEF InterposerTypeOK
<1>2. QED
  BY <1>1 DEF RecordType

\* An entry of the call in progress.
LEMMA CallEntryFacts ==
    ASSUME TypeInv, NEW k \in DOMAIN call.reqs
    PROVE  /\ call.reqs[k] \in CallEntry
           /\ call.reqs[k].req \in ReqVars \cup {NULL}
           /\ call.reqs[k].old \in Ops \cup {NULL}
<1>1. call.reqs \in Seq(CallEntry)
  BY DEF TypeInv, InterposerTypeOK, CallEntry
<1>2. call.reqs[k] \in CallEntry
  BY <1>1, ElementOfSeq, LenProperties
<1>3. QED
  BY <1>2 DEF CallEntry

LEMMA RequestFreeType ==
    ASSUME InterposerTypeOK, NEW r, request_free(r)
    PROVE  /\ g_outstanding_requests' \in Seq(RecordType)
           /\ scratch_in_use' \in BOOLEAN
           /\ malloced' \in SUBSET TmpBufs
           /\ result' \in [Ops -> Data]
           /\ fault' \in BOOLEAN
<1>1. g_outstanding_requests \in Seq(RecordType)
  BY DEF InterposerTypeOK
<1>2. CASE UNCHANGED <<g_outstanding_requests, scratch_in_use, malloced, result, fault>>
  BY <1>2 DEF InterposerTypeOK, TypeOK
<1>3. ASSUME NEW i \in DOMAIN g_outstanding_requests,
             g_outstanding_requests' = RemoveAt(g_outstanding_requests, i),
             IF g_outstanding_requests[i].tmpbuf = NULL
             THEN UNCHANGED <<scratch_in_use, malloced, result, fault>>
             ELSE Cleanup(g_outstanding_requests[i])
      PROVE  /\ g_outstanding_requests' \in Seq(RecordType)
             /\ scratch_in_use' \in BOOLEAN
             /\ malloced' \in SUBSET TmpBufs
             /\ result' \in [Ops -> Data]
             /\ fault' \in BOOLEAN
  <2> DEFINE req == g_outstanding_requests[i]
  <2>1. g_outstanding_requests' \in Seq(RecordType)
    BY <1>1, <1>3, RemoveAtFacts
  <2>2. CASE req.tmpbuf = NULL
    BY <1>3, <2>1, <2>2 DEF InterposerTypeOK, TypeOK
  <2>3. CASE req.tmpbuf # NULL
    <3>1. Cleanup(req) /\ req.tmpbuf \in Buffers /\ req.usrbuf \in Recvs \cup {NULL}
      BY <1>3, <2>3, RecordFacts
    <3>2. scratch_in_use' \in BOOLEAN /\ malloced' \in SUBSET TmpBufs
      BY <3>1, FreeType DEF Cleanup
    <3>3. Unpacked(req.tmpbuf, req.datatype) \in Data
      BY <3>1, UnpackedType
    <3>4. result' \in [Ops -> Data] /\ fault' \in BOOLEAN
      BY <3>1, <3>3 DEF Cleanup, InterposerTypeOK, TypeOK, Ops
    <3>5. QED
      BY <2>1, <3>2, <3>4
  <2>4. QED
    BY <2>2, <2>3
<1>4. QED
  BY <1>1, <1>2, <1>3, RequestFreeCases

\* The types after a step that leaves the handle table alone.
LEMMA StepTypes ==
    ASSUME TypeInv, UNCHANGED tables, fault' \in BOOLEAN,
           g_outstanding_requests' \in Seq(RecordType),
           scratch_in_use' \in BOOLEAN, malloced' \in SUBSET TmpBufs,
           content' \in [Buffers -> Data],
           request' \in [ReqVars -> Ops \cup {NULL}],
           state' \in [Ops -> {"idle", "active", "complete", "released"}],
           place' \in [Ops -> Buffers \cup {NULL}],
           want' \in [Ops -> Objects \cup {NULL}],
           result' \in [Ops -> Data],
           call'.fn \in {"none", "Send", "Recv", "Wait", "Waitall", "loop"},
           call'.reqs \in Seq(CallEntry),
           CallShape'
    PROVE  TypeInv'
BY TablesKept DEF TypeInv, InterposerTypeOK, CallEntry

LEMMA InCallType ==
    ASSUME TypeInv, NEW fn, NEW n \in Nat, NEW rs \in [1 .. n -> ReqVars]
    PROVE  InCall(fn, rs).fn = fn /\ InCall(fn, rs).reqs \in Seq(CallEntry)
<1>1. InCall(fn, rs).reqs \in [1 .. n -> CallEntry]
  BY DEF InCall, TypeInv, InterposerTypeOK, CallEntry
<1>2. QED
  BY <1>1 DEF InCall

\* The operations the application starts: what Posted and Packed leave.
LEMMA PostedTypes ==
    ASSUME TypeInv, NEW op \in Ops, NEW r \in ReqVars, NEW b \in Buffers \cup {NULL},
           NEW t \in Objects \cup {NULL}, Posted(op, r, b, t)
    PROVE  /\ request' \in [ReqVars -> Ops \cup {NULL}]
           /\ state' \in [Ops -> {"idle", "active", "complete", "released"}]
           /\ place' \in [Ops -> Buffers \cup {NULL}]
           /\ want' \in [Ops -> Objects \cup {NULL}]
BY DEF Posted, TypeInv, InterposerTypeOK

LEMMA PackedTypes ==
    ASSUME TypeInv, NEW op \in Ops, NEW b, NEW h, Packed(op, b, h)
    PROVE  /\ b \in Buffers /\ b # NULL
           /\ scratch_in_use' \in BOOLEAN /\ malloced' \in SUBSET TmpBufs
           /\ content' \in [Buffers -> Data]
           /\ fault' \in BOOLEAN
<1>1. datatype_retrieve(h) \in Objects \cup {NULL}
  BY RetrieveType DEF TypeInv, InterposerTypeOK
<1>2. [data |-> op, as |-> datatype_retrieve(h)] \in Data
  BY <1>1 DEF Data
<1>3. QED
  BY <1>2, AllocType DEF Packed, TypeInv, InterposerTypeOK

LEMMA RegisteredType ==
    ASSUME TypeInv, NEW b \in Buffers \cup {NULL}, NEW u \in Recvs \cup {NULL},
           NEW h \in Nat, NEW r \in ReqVars, request_register(b, u, h, r)
    PROVE  g_outstanding_requests' \in Seq(RecordType)
BY AppendProperties DEF request_register, RecordType, TypeInv, InterposerTypeOK

LEMMA BlockedTypes ==
    ASSUME TypeInv, NEW fn \in {"Send", "Recv"}, NEW op \in Ops, NEW b \in Buffers,
           NEW t \in Objects, Blocked(fn, op, b, t)
    PROVE  /\ state' \in [Ops -> {"idle", "active", "complete", "released"}]
           /\ place' \in [Ops -> Buffers \cup {NULL}]
           /\ want' \in [Ops -> Objects \cup {NULL}]
           /\ call'.fn \in {"none", "Send", "Recv", "Wait", "Waitall", "loop"}
           /\ call'.reqs \in Seq(CallEntry)
           /\ CallShape'
<1>1. call' = [fn |-> fn, reqs |-> <<[req |-> NULL, old |-> op]>>]
  BY DEF Blocked
<1>2. call'.reqs \in Seq(CallEntry)
  BY <1>1 DEF CallEntry
<1>3. place' = [place EXCEPT ![op] = b] /\ b # NULL
  BY BuffersAssumption DEF Blocked
<1>4. place'[op] # NULL
  BY <1>3 DEF TypeInv, InterposerTypeOK
<1>5. CallShape'
  BY <1>1, <1>4 DEF CallShape
<1>6. QED
  BY <1>1, <1>2, <1>5 DEF Blocked, TypeInv, InterposerTypeOK

LEMMA UsableTypes ==
    ASSUME TypeInv, NEW t \in Usable
    PROVE  t \in Objects /\ held[t] \in Nat
BY DEF Usable, HeldTypes, TypeInv, InterposerTypeOK, TypeOK

LEMMA StartTypes ==
    ASSUME TypeInv, StartOperation
    PROVE  TypeInv'
<1>1. ASSUME NEW op \in Ops, NEW r \in ReqVars, PostPrimitive(op, r)
      PROVE  TypeInv'
  <2>1. Posted(op, r, NULL, NULL) /\ request_register(NULL, NULL, 0, r)
    BY <1>1 DEF PostPrimitive
  <2>2. CallShape'
    BY <1>1 DEF PostPrimitive, AppReady, Idle, CallShape
  <2>3. g_outstanding_requests' \in Seq(RecordType)
    BY <2>1, RegisteredType
  <2>4. QED
    BY <1>1, <2>1, <2>2, <2>3, PostedTypes, StepTypes
    DEF PostPrimitive, hvars, tables, TypeInv, InterposerTypeOK, TypeOK, CallEntry
<1>2. ASSUME NEW op \in Ops, NEW b \in Buffers, NEW t \in Objects, SendCall(op, b, t)
      PROVE  TypeInv'
  <2>1. Packed(op, b, held[t]) /\ Blocked("Send", op, b, t)
    BY <1>2 DEF SendCall
  <2>2. QED
    BY <1>2, <2>1, PackedTypes, BlockedTypes, StepTypes
    DEF SendCall, TypeInv, InterposerTypeOK
<1>3. ASSUME NEW op \in Ops, NEW b \in Buffers, NEW t \in Objects, RecvCall(op, b, t)
      PROVE  TypeInv'
  <2>1. buffer_alloc(b) /\ Blocked("Recv", op, b, t) /\ InterposerTypeOK
    BY <1>3 DEF RecvCall, TypeInv
  <2>2. QED
    BY <1>3, <2>1, AllocType, BlockedTypes, StepTypes
    DEF RecvCall, TypeInv, InterposerTypeOK
<1>4. ASSUME NEW op \in Ops, NEW r \in ReqVars, NEW b \in Buffers, NEW t \in Objects,
             Isend(op, r, b, t)
      PROVE  TypeInv'
  <2>1. /\ Packed(op, b, held[t]) /\ Posted(op, r, b, t)
        /\ request_register(b, NULL, 0, r)
    BY <1>4 DEF Isend
  <2>2. g_outstanding_requests' \in Seq(RecordType)
    BY <2>1, RegisteredType
  <2>3. CallShape'
    BY <1>4 DEF Isend, AppReady, Idle, CallShape
  <2>4. QED
    BY <1>4, <2>1, <2>2, <2>3, PackedTypes, PostedTypes, StepTypes
    DEF Isend, TypeInv, InterposerTypeOK, CallEntry
<1>5. ASSUME NEW op \in Ops, NEW r \in ReqVars, NEW b \in Buffers, NEW t \in Objects,
             NEW u \in Recvs \cup {NULL}, Irecv(op, r, b, t, u)
      PROVE  TypeInv'
  <2>1. /\ buffer_alloc(b) /\ Posted(op, r, b, t) /\ InterposerTypeOK
        /\ request_register(b, u, held[t], r) /\ t \in Usable
    BY <1>5 DEF Irecv, TypeInv
  <2>2. g_outstanding_requests' \in Seq(RecordType)
    BY <2>1, RegisteredType, UsableTypes
  <2>3. CallShape'
    BY <1>5 DEF Irecv, AppReady, Idle, CallShape
  <2>4. QED
    BY <1>5, <2>1, <2>2, <2>3, AllocType, PostedTypes, StepTypes
    DEF Irecv, TypeInv, InterposerTypeOK, CallEntry
<1>6. QED
  BY <1>1, <1>2, <1>3, <1>4, <1>5 DEF StartOperation, Ops

LEMMA ReleaseTypes ==
    ASSUME TypeInv, NEW rs, Release(rs)
    PROVE  /\ request' \in [ReqVars -> Ops \cup {NULL}]
           /\ state' \in [Ops -> {"idle", "active", "complete", "released"}]
BY DEF Release, TypeInv, InterposerTypeOK

LEMMA LoopOverTypes ==
    ASSUME NEW reqs \in Seq(CallEntry), LoopOver(reqs)
    PROVE  /\ call'.fn \in {"none", "loop"}
           /\ call'.reqs \in Seq(CallEntry)
           /\ CallShape'
<1>1. CASE \E i \in DOMAIN reqs : reqs[i].old # NULL
  <2>1. call' = [fn |-> "loop", reqs |-> reqs]
    BY <1>1 DEF LoopOver
  <2>2. reqs # <<>>
    BY <1>1
  <2>3. QED
    BY <2>1, <2>2 DEF CallShape
<1>2. CASE ~ \E i \in DOMAIN reqs : reqs[i].old # NULL
  BY <1>2 DEF LoopOver, Idle, CallShape
<1>3. QED
  BY <1>1, <1>2

LEMMA CompleteTypes ==
    ASSUME TypeInv, CompleteOperation
    PROVE  TypeInv'
<1>c. call.reqs \in Seq(CallEntry) /\ InterposerTypeOK /\ fault \in BOOLEAN
  BY DEF TypeInv, InterposerTypeOK, TypeOK, CallEntry
<1>1. ASSUME NEW r \in ReqVars, WaitCall(r) PROVE TypeInv'
  <2>1. <<r>> \in [1 .. 1 -> ReqVars]
    OBVIOUS
  <2>2. call'.fn = "Wait" /\ call'.reqs \in Seq(CallEntry)
    BY <1>1, <2>1, InCallType DEF WaitCall
  <2>3. CallShape'
    BY <2>2 DEF CallShape
  <2>4. QED
    BY <1>1, <1>c, <2>2, <2>3, StepTypes
    DEF WaitCall, hvars, tables, InterposerTypeOK
<1>2. ASSUME NEW r \in ReqVars, Test(r) PROVE TypeInv'
  <2>1. request_free(r)
    BY <1>2 DEF Test
  <2>2. /\ request' \in [ReqVars -> Ops \cup {NULL}]
        /\ state' \in [Ops -> {"idle", "active", "complete", "released"}]
    BY <1>2, <1>c, ReleaseTypes DEF Test, InterposerTypeOK
  <2>3. CallShape'
    BY <1>2 DEF Test, AppReady, Idle, CallShape
  <2>4. QED
    BY <1>2, <1>c, <2>1, <2>2, <2>3, RequestFreeType, StepTypes
    DEF Test, InterposerTypeOK
<1>3. ASSUME NEW r \in ReqVars, Waitany(r) PROVE TypeInv'
  <2>1. CallShape'
    BY <1>3 DEF Waitany, AppReady, Idle, CallShape
  <2>2. Release({r})
    BY <1>3 DEF Waitany
  <2>3. QED
    BY <1>3, <1>c, <2>1, <2>2, ReleaseTypes, StepTypes
    DEF Waitany, hvars, tables, InterposerTypeOK
<1>4. ASSUME NEW rs \in Arrays, WaitallCall(rs) PROVE TypeInv'
  <2>1. rs \in [1 .. 2 -> ReqVars]
    BY DEF Arrays
  <2>2. call'.fn = "Waitall" /\ call'.reqs \in Seq(CallEntry)
    BY <1>4, <2>1, InCallType DEF WaitallCall
  <2>3. CallShape'
    BY <2>2 DEF CallShape
  <2>4. QED
    BY <1>4, <1>c, <2>2, <2>3, StepTypes
    DEF WaitallCall, hvars, tables, InterposerTypeOK
<1>5. ASSUME NEW rs \in Arrays, Testall(rs) PROVE TypeInv'
  <2>1. rs \in [1 .. 2 -> ReqVars]
    BY DEF Arrays
  <2> DEFINE entries == InCall("Testall", rs).reqs
  <2>2. entries \in Seq(CallEntry)
    BY <2>1, InCallType
  <2>3. CASE Release({rs[i] : i \in DOMAIN rs}) /\ LoopOver(entries)
    BY <1>5, <1>c, <2>2, <2>3, ReleaseTypes, LoopOverTypes, StepTypes
    DEF Testall, hvars, tables, InterposerTypeOK
  <2>4. CASE UNCHANGED <<state, request, call>>
    <3>1. CallShape'
      BY <1>5, <2>4 DEF Testall, TypeInv, CallShape
    <3>2. QED
      BY <1>5, <1>c, <2>4, <3>1, StepTypes
      DEF Testall, hvars, tables, InterposerTypeOK
  <2>5. QED
    BY <1>5, <2>3, <2>4 DEF Testall
<1>6. QED
  BY <1>1, <1>2, <1>3, <1>4, <1>5 DEF CompleteOperation

LEMMA ReturnTypes ==
    ASSUME TypeInv, CallReturn
    PROVE  TypeInv'
<1>c. call.reqs \in Seq(CallEntry) /\ InterposerTypeOK /\ fault \in BOOLEAN
  BY DEF TypeInv, InterposerTypeOK, TypeOK, CallEntry
<1>1. CASE BlockingReturn
  <2> DEFINE op == call.reqs[1].old
  <2>1. op \in Ops /\ place[op] \in Buffers
    BY <1>1 DEF BlockingReturn, TypeInv, CallShape, InterposerTypeOK
  <2>2. Unpacked(place[op], held[want[op]]) \in Data
    BY <1>c, <2>1, UnpackedType
  <2>3. result' \in [Ops -> Data] /\ fault' \in BOOLEAN
    BY <1>1, <1>c, <2>1, <2>2 DEF BlockingReturn, InterposerTypeOK
  <2>4. scratch_in_use' \in BOOLEAN /\ malloced' \in SUBSET TmpBufs
    BY <1>1, <1>c, FreeType DEF BlockingReturn
  <2>5. state' \in [Ops -> {"idle", "active", "complete", "released"}]
    BY <1>1, <1>c DEF BlockingReturn, InterposerTypeOK
  <2>6. call' = Idle
    BY <1>1 DEF BlockingReturn
  <2>7. CallShape' /\ call'.fn = "none" /\ call'.reqs \in Seq(CallEntry)
    BY <2>6 DEF Idle, CallShape
  <2>8. QED
    BY <1>1, <1>c, <2>3, <2>4, <2>5, <2>7, StepTypes
    DEF BlockingReturn, InterposerTypeOK
<1>2. CASE WaitReturn
  <2> DEFINE r == call.reqs[1].req
  <2>1. request_free(r) /\ Release({r}) /\ call' = Idle
    BY <1>2 DEF WaitReturn
  <2>2. CallShape' /\ call'.fn = "none" /\ call'.reqs \in Seq(CallEntry)
    BY <2>1 DEF Idle, CallShape
  <2>3. QED
    BY <1>2, <1>c, <2>1, <2>2, RequestFreeType, ReleaseTypes, StepTypes
    DEF WaitReturn, InterposerTypeOK
<1>3. CASE WaitallReturn
  <2> DEFINE rs == {call.reqs[i].req : i \in DOMAIN call.reqs}
  <2>1. Release(rs) /\ LoopOver(call.reqs)
    BY <1>3 DEF WaitallReturn
  <2>2. QED
    BY <1>3, <1>c, <2>1, ReleaseTypes, LoopOverTypes, StepTypes
    DEF WaitallReturn, hvars, tables, InterposerTypeOK
<1>4. CASE LoopStep
  <2>1. call.reqs # <<>>
    BY <1>4 DEF LoopStep, TypeInv, CallShape
  <2>2. Tail(call.reqs) \in Seq(CallEntry) /\ LoopOver(Tail(call.reqs))
    BY <1>4, <1>c, <2>1, HeadTailProperties DEF LoopStep
  <2>3. /\ g_outstanding_requests' \in Seq(RecordType)
        /\ scratch_in_use' \in BOOLEAN
        /\ malloced' \in SUBSET TmpBufs
        /\ result' \in [Ops -> Data]
        /\ fault' \in BOOLEAN
    BY <1>4, <1>c, RequestFreeType DEF LoopStep, Iteration, InterposerTypeOK
  <2>4. QED
    BY <1>4, <1>c, <2>2, <2>3, LoopOverTypes, StepTypes
    DEF LoopStep, InterposerTypeOK
<1>5. QED
  BY <1>1, <1>2, <1>3, <1>4 DEF CallReturn

LEMMA TransferTypes ==
    ASSUME TypeInv, NEW op \in Ops, Transfer(op)
    PROVE  TypeInv'
<1>1. [data |-> op, as |-> NULL] \in Data
  BY DEF Data
<1>2. place[op] \in Buffers \cup {NULL}
  BY DEF TypeInv, InterposerTypeOK
<1>3. content' \in [Buffers -> Data] /\ result' \in [Ops -> Data]
  BY <1>1, <1>2 DEF Transfer, TypeInv, InterposerTypeOK
<1>4. CallShape'
  BY DEF Transfer, TypeInv, CallShape
<1>5. QED
  BY <1>3, <1>4, StepTypes
  DEF Transfer, hvars, tables, TypeInv, InterposerTypeOK, TypeOK, CallEntry

\* The datatype calls of the application, between its other calls.
LEMMA TypeCallTypes ==
    ASSUME TypeInv, TypeCall
    PROVE  TypeInv'
<1>1. TypeOK'
  <2>1. TypeOK
    BY DEF TypeInv, InterposerTypeOK
  <2>2. ASSUME NEW oldtypes, TypeConstruct(oldtypes) PROVE TypeOK'
    BY <2>1, <2>2, ConstructTypeOK
  <2>3. ASSUME NEW t \in Objects, TypeCommit(t) PROVE TypeOK'
    BY <2>1, <2>3, CommitTypeOK
  <2>4. ASSUME NEW t \in Objects, TypeQuery(t) \/ TypePack(t) PROVE TypeOK'
    BY <2>1, <2>4, UseTypeOK
  <2>5. ASSUME NEW t \in Objects, TypeFree(t) PROVE TypeOK'
    BY <2>1, <2>5, FreeTypeOK
  <2>6. QED
    BY <2>2, <2>3, <2>4, <2>5 DEF TypeCall
<1>2. QED
  BY <1>1 DEF TypeCall, ivars, TypeInv, InterposerTypeOK, CallShape

LEMMA InitTypes == Init => TypeInv
<1> SUFFICES ASSUME Init PROVE TypeInv
  OBVIOUS
<1>1. TypeOK
  BY InitTypeOK DEF Init
<1>2. Garbage \in Data
  BY DEF Garbage, Data
<1>3. QED
  BY <1>1, <1>2, EmptySeq DEF Init, Idle, TypeInv, InterposerTypeOK, CallShape

LEMMA NextTypes ==
    ASSUME TypeInv, [Next]_vars
    PROVE  TypeInv'
<1>1. ASSUME NEW r \in ReqVars, NEW s \in ReqVars, CopyRequest(r, s) PROVE TypeInv'
  <2>1. CallShape'
    BY <1>1 DEF CopyRequest, AppReady, Idle, CallShape
  <2>2. request' \in [ReqVars -> Ops \cup {NULL}]
    BY <1>1 DEF CopyRequest, TypeInv, InterposerTypeOK
  <2>3. QED
    BY <1>1, <2>1, <2>2, StepTypes
    DEF CopyRequest, hvars, tables, TypeInv, InterposerTypeOK, TypeOK, CallEntry
<1>2. CASE UNCHANGED vars
  BY <1>2 DEF vars, hvars, ivars, TypeInv, InterposerTypeOK, TypeOK, HeldTypes, CallShape
<1>3. QED
  BY <1>1, <1>2, TypeCallTypes, StartTypes, CompleteTypes, ReturnTypes, TransferTypes DEF Next

LEMMA TypesInvariant == Spec => []TypeInv
<1>1. TypeInv /\ [Next]_vars => TypeInv'
  BY NextTypes
<1>2. QED
  BY <1>1, InitTypes, PTL DEF Spec

\* Whatever the application's habits, the list, the buffers, the requests and
\* the calls in progress keep their types: in particular a record always has a
\* request variable and a buffer that exist.
THEOREM InterposerTypeCorrectness == Spec => []InterposerTypeOK
<1>1. TypeInv => InterposerTypeOK
  BY DEF TypeInv
<1>2. QED
  BY <1>1, TypesInvariant, PTL

-----------------------------------------------------------------------------
(* Buffers are owned once, whatever the application's habits *)

\* TemporariesOwnedOnce says nothing of the scratch buffer, and is not
\* inductive without it: it must be in use as long as anyone owns it, or it
\* would be given out a second time.
Owned == {RecordBuffer(i) : i \in DOMAIN g_outstanding_requests} \cup CallBuffers

OwnInv ==
    /\ \A i, j \in DOMAIN g_outstanding_requests :
          RecordBuffer(i) # NULL /\ RecordBuffer(i) = RecordBuffer(j) => i = j
    /\ \A i \in DOMAIN g_outstanding_requests : RecordBuffer(i) \notin CallBuffers
    /\ malloced = Owned \ {NULL, Scratch}
    /\ Scratch \in Owned => scratch_in_use

\* A buffer that interposer_buffer_alloc returns is nobody's.
LEMMA AllocFresh ==
    ASSUME TypeInv, OwnInv, NEW b, buffer_alloc(b)
    PROVE  /\ b \notin Owned /\ b # NULL
           /\ malloced' = (Owned \cup {b}) \ {NULL, Scratch}
           /\ Scratch \in Owned \cup {b} => scratch_in_use'
BY BuffersAssumption DEF OwnInv, buffer_alloc, Buffers

LEMMA OwnKept ==
    ASSUME OwnInv, UNCHANGED <<g_outstanding_requests, malloced, scratch_in_use>>,
           CallBuffers' = CallBuffers
    PROVE  OwnInv'
<1>1. \A i : RecordBuffer(i)' = RecordBuffer(i)
  BY DEF RecordBuffer
<1>2. Owned' = Owned
  BY <1>1 DEF Owned
<1>3. QED
  BY <1>1, <1>2 DEF OwnInv

\* A new record owns a new buffer, or none.
LEMMA OwnAppend ==
    ASSUME TypeInv, OwnInv, CallBuffers = {}, CallBuffers' = {}, NEW rec,
           g_outstanding_requests' = Append(g_outstanding_requests, rec),
           rec \in RecordType,
           \/ rec.tmpbuf = NULL /\ UNCHANGED <<scratch_in_use, malloced>>
           \/ buffer_alloc(rec.tmpbuf)
    PROVE  OwnInv'
<1> DEFINE b == rec.tmpbuf
<1>n. PICK n \in Nat : n = Len(g_outstanding_requests)
  BY LenProperties DEF TypeInv, InterposerTypeOK
<1>1. /\ DOMAIN g_outstanding_requests = 1 .. n
      /\ DOMAIN g_outstanding_requests' = 1 .. n + 1
      /\ \A i \in 1 .. n : g_outstanding_requests'[i] = g_outstanding_requests[i]
      /\ g_outstanding_requests'[n + 1] = rec
  BY <1>n, AppendProperties, LenProperties DEF TypeInv, InterposerTypeOK
<1>a. \A i \in 1 .. n + 1 : i \in 1 .. n \/ i = n + 1
  OBVIOUS
<1>b. n + 1 \in 1 .. n + 1 /\ \A i \in 1 .. n : i \in 1 .. n + 1 /\ i # n + 1
  OBVIOUS
<1>2. /\ \A i \in 1 .. n : RecordBuffer(i)' = RecordBuffer(i)
      /\ RecordBuffer(n + 1)' = b
  BY <1>1 DEF RecordBuffer
<1>3. Owned' = Owned \cup {b}
  <2>1. Owned' = {RecordBuffer(i)' : i \in 1 .. n + 1}
    BY <1>1 DEF Owned
  <2>2. Owned = {RecordBuffer(i) : i \in 1 .. n}
    BY <1>1 DEF Owned
  <2>3. QED
    BY <1>a, <1>b, <1>2, <2>1, <2>2
<1>4. b = NULL \/ \A i \in 1 .. n : RecordBuffer(i) # b
  BY <1>1, AllocFresh DEF Owned
<1>5. \A i, j \in 1 .. n + 1 :
          RecordBuffer(i)' # NULL /\ RecordBuffer(i)' = RecordBuffer(j)' => i = j
  <2> SUFFICES ASSUME NEW i \in 1 .. n + 1, NEW j \in 1 .. n + 1,
                      RecordBuffer(i)' # NULL, RecordBuffer(i)' = RecordBuffer(j)'
               PROVE  i = j
    OBVIOUS
  <2>1. CASE i \in 1 .. n /\ j \in 1 .. n
    BY <1>1, <1>2, <2>1 DEF OwnInv
  <2>2. CASE i \notin 1 .. n \/ j \notin 1 .. n
    BY <1>a, <1>2, <1>4, <2>2
  <2>3. QED
    BY <2>1, <2>2
<1>6. malloced' = Owned' \ {NULL, Scratch} /\ (Scratch \in Owned' => scratch_in_use')
  <2>1. CASE b = NULL /\ UNCHANGED <<scratch_in_use, malloced>>
    BY <1>3, <2>1, BuffersAssumption DEF OwnInv, Buffers
  <2>2. CASE buffer_alloc(b)
    BY <1>3, <2>2, AllocFresh
  <2>3. QED
    BY <2>1, <2>2
<1>7. QED
  BY <1>1, <1>5, <1>6 DEF OwnInv

\* interposer_request_free gives up exactly the buffer of the record it erases.
LEMMA OwnRequestFree ==
    ASSUME TypeInv, OwnInv, CallBuffers = {}, CallBuffers' = {}, NEW r, request_free(r)
    PROVE  OwnInv'
<1>1. CASE UNCHANGED <<g_outstanding_requests, scratch_in_use, malloced, result, fault>>
  BY <1>1, OwnKept
<1>2. ASSUME NEW i \in DOMAIN g_outstanding_requests,
             g_outstanding_requests' = RemoveAt(g_outstanding_requests, i),
             IF g_outstanding_requests[i].tmpbuf = NULL
             THEN UNCHANGED <<scratch_in_use, malloced, result, fault>>
             ELSE Cleanup(g_outstanding_requests[i])
      PROVE  OwnInv'
  <2> DEFINE D == DOMAIN g_outstanding_requests
             Dn == DOMAIN g_outstanding_requests'
             b == RecordBuffer(i)
  <2>1. /\ \A j \in Dn : /\ Origin(i, j) \in D \ {i}
                         /\ g_outstanding_requests'[j] = g_outstanding_requests[Origin(i, j)]
        /\ \A j, k \in Dn : Origin(i, j) = Origin(i, k) => j = k
        /\ \A k \in D \ {i} : \E j \in Dn : Origin(i, j) = k
    BY <1>2, RemoveAtFacts DEF TypeInv, InterposerTypeOK
  <2>2. \A j \in Dn : RecordBuffer(j)' = RecordBuffer(Origin(i, j))
    BY <2>1 DEF RecordBuffer
  <2>3. \A j, k \in Dn : RecordBuffer(j)' # NULL /\ RecordBuffer(j)' = RecordBuffer(k)' => j = k
    BY <2>1, <2>2 DEF OwnInv
  <2>4. Owned = {RecordBuffer(k) : k \in D} /\ Owned' = {RecordBuffer(k) : k \in D \ {i}}
    BY <2>1, <2>2 DEF Owned
  <2>5. CASE b = NULL
    <3>1. UNCHANGED <<scratch_in_use, malloced>>
      BY <1>2, <2>5 DEF RecordBuffer
    <3>2. Owned' \cup {NULL} = Owned \cup {NULL}
      BY <2>4, <2>5
    <3>3. Scratch # NULL
      BY BuffersAssumption DEF Buffers
    <3>4. QED
      BY <2>3, <3>1, <3>2, <3>3 DEF OwnInv
  <2>6. CASE b # NULL
    <3>1. buffer_free(b)
      BY <1>2, <2>6 DEF RecordBuffer, Cleanup
    <3>2. Owned' = Owned \ {b}
      BY <2>4, <2>6 DEF OwnInv
    <3>3. malloced' = Owned' \ {NULL, Scratch} /\ (Scratch \in Owned' => scratch_in_use')
      BY <3>1, <3>2 DEF OwnInv, buffer_free
    <3>4. QED
      BY <2>3, <3>3 DEF OwnInv
  <2>7. QED
    BY <2>5, <2>6
<1>3. QED
  BY <1>1, <1>2, RequestFreeCases DEF TypeInv, InterposerTypeOK

\* The buffers of a call that is not in a blocking operation.
LEMMA NoCallBuffers ==
    ASSUME call.fn \notin {"Send", "Recv"}
    PROVE  CallBuffers = {}
BY DEF CallBuffers

LEMMA OwnBlocked ==
    ASSUME TypeInv, OwnInv, call = Idle, NEW fn \in {"Send", "Recv"}, NEW op \in Ops,
           NEW b, NEW t, buffer_alloc(b), Blocked(fn, op, b, t),
           UNCHANGED g_outstanding_requests
    PROVE  OwnInv'
<1>1. CallBuffers = {}
  BY DEF Idle, CallBuffers
<1>2. call'.fn \in {"Send", "Recv"} /\ call'.reqs[1].old = op
  BY DEF Blocked
<1>3. place'[op] = b
  BY DEF Blocked, TypeInv, InterposerTypeOK
<1>4. CallBuffers' = {b}
  BY <1>2, <1>3 DEF CallBuffers
<1>5. \A i : RecordBuffer(i)' = RecordBuffer(i)
  BY DEF RecordBuffer
<1>6. Owned' = Owned \cup {b}
  BY <1>1, <1>4, <1>5 DEF Owned
<1>7. \A i \in DOMAIN g_outstanding_requests : RecordBuffer(i) # b
  BY AllocFresh DEF Owned
<1>8. malloced' = Owned' \ {NULL, Scratch} /\ (Scratch \in Owned' => scratch_in_use')
  BY <1>6, AllocFresh
<1>9. QED
  BY <1>4, <1>5, <1>7, <1>8 DEF OwnInv

LEMMA OwnBlockingReturn ==
    ASSUME TypeInv, OwnInv, BlockingReturn
    PROVE  OwnInv'
<1> DEFINE b == place[call.reqs[1].old]
<1>1. /\ CallBuffers = {b} /\ b # NULL
      /\ buffer_free(b) /\ call' = Idle
      /\ UNCHANGED g_outstanding_requests
  BY DEF BlockingReturn, CallBuffers, TypeInv, CallShape
<1>2. CallBuffers' = {}
  BY <1>1 DEF Idle, CallBuffers
<1>3. \A i : RecordBuffer(i)' = RecordBuffer(i)
  BY <1>1 DEF RecordBuffer
<1>4. Owned' = Owned \ {b}
  BY <1>1, <1>2, <1>3 DEF Owned, OwnInv
<1>5. malloced' = Owned' \ {NULL, Scratch} /\ (Scratch \in Owned' => scratch_in_use')
  BY <1>1, <1>4 DEF OwnInv, buffer_free
<1>6. QED
  BY <1>1, <1>2, <1>3, <1>5 DEF OwnInv

LEMMA StartOwn ==
    ASSUME TypeInv, OwnInv, StartOperation
    PROVE  OwnInv'
<1>1. ASSUME NEW op \in Ops, NEW r \in ReqVars, PostPrimitive(op, r) PROVE OwnInv'
  <2> DEFINE rec == [mpi_req |-> r, tmpbuf |-> NULL, usrbuf |-> NULL, datatype |-> 0]
  <2>1. rec \in RecordType
    BY DEF RecordType
  <2>2. CallBuffers = {} /\ CallBuffers' = {}
    BY <1>1 DEF PostPrimitive, AppReady, Idle, CallBuffers
  <2>3. /\ g_outstanding_requests' = Append(g_outstanding_requests, rec)
        /\ UNCHANGED <<scratch_in_use, malloced>>
    BY <1>1 DEF PostPrimitive, request_register
  <2>4. QED
    BY <2>1, <2>2, <2>3, OwnAppend
<1>2. ASSUME NEW op \in Ops, NEW b, NEW t, SendCall(op, b, t) \/ RecvCall(op, b, t)
      PROVE  OwnInv'
  <2>1. /\ buffer_alloc(b) /\ call = Idle
        /\ \E fn \in {"Send", "Recv"} : Blocked(fn, op, b, t)
        /\ UNCHANGED g_outstanding_requests
    BY <1>2 DEF SendCall, RecvCall, AppReady, Packed
  <2>2. QED
    BY <2>1, OwnBlocked
<1>3. ASSUME NEW op \in Ops, NEW r \in ReqVars, NEW b \in Buffers, NEW t \in Objects,
             NEW u \in Recvs \cup {NULL}, Isend(op, r, b, t) \/ Irecv(op, r, b, t, u)
      PROVE  OwnInv'
  <2>1. /\ buffer_alloc(b) /\ t \in Usable /\ call = Idle /\ call' = call
        /\ \E usr \in Recvs \cup {NULL}, h \in {0, held[t]} : request_register(b, usr, h, r)
    BY <1>3 DEF Isend, Irecv, AppReady, Packed
  <2>2. PICK usr \in Recvs \cup {NULL}, h \in {0, held[t]} : request_register(b, usr, h, r)
    BY <2>1
  <2> DEFINE rec == [mpi_req |-> r, tmpbuf |-> b, usrbuf |-> usr, datatype |-> h]
  <2>3. h \in Nat
    BY <2>1, UsableTypes
  <2>4. rec \in RecordType
    BY <2>3 DEF RecordType
  <2>5. CallBuffers = {} /\ CallBuffers' = {}
    BY <2>1 DEF Idle, CallBuffers
  <2>6. g_outstanding_requests' = Append(g_outstanding_requests, rec)
    BY <2>2 DEF request_register
  <2>7. QED
    BY <2>1, <2>4, <2>5, <2>6, OwnAppend
<1>4. QED
  BY <1>1, <1>2, <1>3 DEF StartOperation, Ops

LEMMA CompleteOwn ==
    ASSUME TypeInv, OwnInv, CompleteOperation
    PROVE  OwnInv'
<1>1. ASSUME NEW r, WaitCall(r) \/ Waitany(r) PROVE OwnInv'
  <2>1. CallBuffers = {} /\ CallBuffers' = {}
    BY <1>1 DEF WaitCall, Waitany, InCall, AppReady, Idle, CallBuffers
  <2>2. QED
    BY <1>1, <2>1, OwnKept DEF WaitCall, Waitany
<1>2. ASSUME NEW r, Test(r) PROVE OwnInv'
  <2>1. CallBuffers = {} /\ CallBuffers' = {}
    BY <1>2 DEF Test, AppReady, Idle, CallBuffers
  <2>2. QED
    BY <1>2, <2>1, OwnRequestFree DEF Test
<1>3. ASSUME NEW rs, WaitallCall(rs) \/ Testall(rs) PROVE OwnInv'
  <2>1. CallBuffers = {} /\ CallBuffers' = {}
    BY <1>3 DEF WaitallCall, Testall, LoopOver, InCall, AppReady, Idle, CallBuffers
  <2>2. QED
    BY <1>3, <2>1, OwnKept DEF WaitallCall, Testall
<1>4. QED
  BY <1>1, <1>2, <1>3 DEF CompleteOperation

LEMMA ReturnOwn ==
    ASSUME TypeInv, OwnInv, CallReturn
    PROVE  OwnInv'
<1>1. CASE WaitReturn
  <2>1. CallBuffers = {} /\ CallBuffers' = {}
    BY <1>1 DEF WaitReturn, Idle, CallBuffers
  <2>2. QED
    BY <1>1, <2>1, OwnRequestFree DEF WaitReturn
<1>2. CASE WaitallReturn
  <2>1. CallBuffers = {} /\ CallBuffers' = {}
    BY <1>2 DEF WaitallReturn, LoopOver, Idle, CallBuffers
  <2>2. QED
    BY <1>2, <2>1, OwnKept DEF WaitallReturn
<1>3. CASE LoopStep
  <2>1. CallBuffers = {} /\ CallBuffers' = {}
    BY <1>3 DEF LoopStep, LoopOver, Idle, CallBuffers
  <2>2. QED
    BY <1>3, <2>1, OwnRequestFree, OwnKept DEF LoopStep, Iteration
<1>4. QED
  BY <1>1, <1>2, <1>3, OwnBlockingReturn DEF CallReturn

LEMMA OwnershipInvariant == Spec => []OwnInv
<1>1. Init => OwnInv
  <2> SUFFICES ASSUME Init PROVE OwnInv
    OBVIOUS
  <2>1. CallBuffers = {} /\ DOMAIN g_outstanding_requests = {}
    BY DEF Init, Idle, CallBuffers
  <2>2. Owned = {}
    BY <2>1 DEF Owned
  <2>3. QED
    BY <2>1, <2>2 DEF Init, OwnInv
<1>2. TypeInv /\ OwnInv /\ [Next]_vars => OwnInv'
  <2> SUFFICES ASSUME TypeInv, OwnInv, [Next]_vars PROVE OwnInv'
    OBVIOUS
  <2>1. CASE TypeCall
    BY <2>1, OwnKept DEF TypeCall, ivars, CallBuffers
  <2>2. ASSUME NEW r, NEW s, CopyRequest(r, s) PROVE OwnInv'
    BY <2>2, OwnKept DEF CopyRequest, CallBuffers
  <2>3. ASSUME NEW op, Transfer(op) PROVE OwnInv'
    BY <2>3, OwnKept DEF Transfer, CallBuffers
  <2>4. CASE UNCHANGED vars
    BY <2>4, OwnKept DEF vars, ivars, CallBuffers
  <2>5. QED
    BY <2>1, <2>2, <2>3, <2>4, StartOwn, CompleteOwn, ReturnOwn DEF Next
<1>3. QED
  BY <1>1, <1>2, TypesInvariant, PTL DEF Spec

\* Whatever the application's habits, a malloc'ed buffer is owned by exactly one
\* record or call, which frees it once; in particular MPI_Test, freeing early,
\* never makes two owners.
THEOREM TemporariesAlwaysOwnedOnce == Spec => []TemporariesOwnedOnce
<1>1. OwnInv => TemporariesOwnedOnce
  BY DEF OwnInv, Owned, TemporariesOwnedOnce
<1>2. QED
  BY <1>1, OwnershipInvariant, PTL

-----------------------------------------------------------------------------
(* Records match requests, when requests are completed where they were started *)

RecordFor(r, b) ==
    \E i \in DOMAIN g_outstanding_requests :
        g_outstanding_requests[i].mpi_req = r /\ RecordBuffer(i) = b

OneRecordEach ==
    \A i, j \in DOMAIN g_outstanding_requests :
        g_outstanding_requests[i].mpi_req = g_outstanding_requests[j].mpi_req => i = j

\* Requests: each has a record with the buffer of its operation, which no other
\* variable names and which the MPI library has not released.
RequestsRecorded ==
    /\ \A r \in ReqVars : request[r] # NULL =>
          /\ RecordFor(r, place[request[r]])
          /\ state[request[r]] \in {"active", "complete"}
    /\ \A r, s \in ReqVars : request[r] # NULL /\ request[r] = request[s] => r = s

\* Records: each is for a request or for an iteration still to come.
AwaitsLoop(r) ==
    /\ call.fn = "loop"
    /\ \E k \in DOMAIN call.reqs : call.reqs[k].req = r /\ call.reqs[k].old # NULL

RecordsUsed ==
    \A i \in DOMAIN g_outstanding_requests :
        LET r == g_outstanding_requests[i].mpi_req IN request[r] # NULL \/ AwaitsLoop(r)

\* Calls: what holds in each of them while it is blocked or in its loop.
Blocking == call.fn \in {"Send", "Recv"}

InBlocking ==
    Blocking =>
        /\ call.reqs[1].old \in Ops
        /\ DOMAIN call.reqs = {1}
        /\ state[call.reqs[1].old] \in {"active", "complete"}
        /\ \A r \in ReqVars : request[r] # call.reqs[1].old

\* The entries of an array of requests reqs: variables, each once.
DistinctEntries(reqs) ==
    /\ \A k \in DOMAIN reqs : reqs[k].req \in ReqVars
    /\ \A k, l \in DOMAIN reqs : reqs[k].req = reqs[l].req => k = l

InWait ==
    /\ call.fn = "none" => call.reqs = <<>>
    /\ call.fn = "Wait" =>
          1 \in DOMAIN call.reqs /\ DOMAIN call.reqs = {1} /\ call.reqs[1].old # NULL
    /\ call.fn \in {"Wait", "Waitall"} =>
          /\ DistinctEntries(call.reqs)
          /\ \A k \in DOMAIN call.reqs : call.reqs[k].old = request[call.reqs[k].req]

InLoop ==
    call.fn = "loop" =>
        /\ DistinctEntries(call.reqs)
        /\ \A k \in DOMAIN call.reqs : call.reqs[k].old # NULL =>
              /\ request[call.reqs[k].req] = NULL
              /\ state[call.reqs[k].old] = "released"
              /\ RecordFor(call.reqs[k].req, place[call.reqs[k].old])
        /\ \A k, l \in DOMAIN call.reqs :
              call.reqs[k].old # NULL /\ call.reqs[k].old = call.reqs[l].old => k = l

\* Operations: one that the MPI library has is a request's or a blocking call's.
OperationsReached ==
    \A op \in Ops : state[op] \in {"active", "complete"} =>
        \/ \E r \in ReqVars : request[r] = op
        \/ Blocking /\ call.reqs[1].old = op

MatchInv ==
    /\ OneRecordEach
    /\ RequestsRecorded
    /\ RecordsUsed
    /\ InBlocking
    /\ InWait
    /\ InLoop
    /\ OperationsReached

\* The habits that complete a request behind the wrapper's back, or too early.
CompletesProperly == Habits \cap {"test", "waitany", "copy"} = {}

\* Appending a record for a variable that has none.
LEMMA AppendRecord ==
    ASSUME TypeInv, OneRecordEach, NEW rec \in RecordType,
           \A i \in DOMAIN g_outstanding_requests :
              g_outstanding_requests[i].mpi_req # rec.mpi_req,
           g_outstanding_requests' = Append(g_outstanding_requests, rec)
    PROVE  /\ OneRecordEach'
           /\ \A s, b : RecordFor(s, b) => RecordFor(s, b)'
           /\ RecordFor(rec.mpi_req, rec.tmpbuf)'
           /\ \A j \in DOMAIN g_outstanding_requests' :
                 \/ g_outstanding_requests'[j] = rec
                 \/ \E k \in DOMAIN g_outstanding_requests :
                       g_outstanding_requests'[j] = g_outstanding_requests[k]
<1>n. PICK n \in Nat : n = Len(g_outstanding_requests)
  BY LenProperties DEF TypeInv, InterposerTypeOK
<1>1. /\ DOMAIN g_outstanding_requests = 1 .. n
      /\ DOMAIN g_outstanding_requests' = 1 .. n + 1
      /\ \A i \in 1 .. n : g_outstanding_requests'[i] = g_outstanding_requests[i]
      /\ g_outstanding_requests'[n + 1] = rec
  BY <1>n, AppendProperties, LenProperties DEF TypeInv, InterposerTypeOK
<1>2. /\ \A i \in 1 .. n + 1 : i \in 1 .. n \/ i = n + 1
      /\ n + 1 \in 1 .. n + 1
      /\ \A i \in 1 .. n : i \in 1 .. n + 1
  OBVIOUS
<1>3. OneRecordEach'
  BY <1>1, <1>2 DEF OneRecordEach
<1>4. \A s, b : RecordFor(s, b) => RecordFor(s, b)'
  BY <1>1, <1>2 DEF RecordFor, RecordBuffer
<1>5. RecordFor(rec.mpi_req, rec.tmpbuf)'
  BY <1>1, <1>2 DEF RecordFor, RecordBuffer
<1>6. QED
  BY <1>1, <1>2, <1>3, <1>4, <1>5

\* interposer_request_free erases the one record of the variable and no other.
LEMMA EraseRecord ==
    ASSUME TypeInv, OneRecordEach, NEW r, request_free(r)
    PROVE  /\ OneRecordEach'
           /\ \A s, b : s # r /\ RecordFor(s, b) => RecordFor(s, b)'
           /\ \A j \in DOMAIN g_outstanding_requests' :
                 \E k \in DOMAIN g_outstanding_requests :
                    /\ g_outstanding_requests'[j] = g_outstanding_requests[k]
                    /\ g_outstanding_requests[k].mpi_req # r
<1>1. CASE /\ \A i \in DOMAIN g_outstanding_requests : g_outstanding_requests[i].mpi_req # r
           /\ UNCHANGED g_outstanding_requests
  BY <1>1 DEF OneRecordEach, RecordFor, RecordBuffer
<1>2. ASSUME NEW i \in DOMAIN g_outstanding_requests,
             g_outstanding_requests[i].mpi_req = r,
             g_outstanding_requests' = RemoveAt(g_outstanding_requests, i)
      PROVE  /\ OneRecordEach'
             /\ \A s, b : s # r /\ RecordFor(s, b) => RecordFor(s, b)'
             /\ \A j \in DOMAIN g_outstanding_requests' :
                   \E k \in DOMAIN g_outstanding_requests :
                      /\ g_outstanding_requests'[j] = g_outstanding_requests[k]
                      /\ g_outstanding_requests[k].mpi_req # r
  <2> DEFINE D == DOMAIN g_outstanding_requests
             Dn == DOMAIN g_outstanding_requests'
  <2>1. /\ \A j \in Dn : /\ Origin(i, j) \in D \ {i}
                         /\ g_outstanding_requests'[j] = g_outstanding_requests[Origin(i, j)]
        /\ \A j, k \in Dn : Origin(i, j) = Origin(i, k) => j = k
        /\ \A k \in D \ {i} : \E j \in Dn : Origin(i, j) = k
    BY <1>2, RemoveAtFacts DEF TypeInv, InterposerTypeOK
  <2>2. OneRecordEach'
    BY <2>1 DEF OneRecordEach
  <2>3. \A s, b : s # r /\ RecordFor(s, b) => RecordFor(s, b)'
    <3> SUFFICES ASSUME NEW s, NEW b, s # r, RecordFor(s, b) PROVE RecordFor(s, b)'
      OBVIOUS
    <3>1. PICK k \in D : g_outstanding_requests[k].mpi_req = s /\ RecordBuffer(k) = b
      BY DEF RecordFor
    <3>2. k \in D \ {i}
      BY <1>2, <3>1
    <3>3. PICK j \in Dn : Origin(i, j) = k
      BY <2>1, <3>2
    <3>4. g_outstanding_requests'[j] = g_outstanding_requests[k]
      BY <2>1, <3>3
    <3>5. QED
      BY <3>1, <3>4 DEF RecordFor, RecordBuffer
  <2>4. \A k \in D \ {i} : g_outstanding_requests[k].mpi_req # r
    BY <1>2 DEF OneRecordEach
  <2>5. QED
    BY <2>1, <2>2, <2>3, <2>4
<1>3. QED
  BY <1>1, <1>2, RequestFreeCases DEF TypeInv, InterposerTypeOK

\* A step that changes none of the variables of MatchInv.
LEMMA MatchKept ==
    ASSUME MatchInv, UNCHANGED <<g_outstanding_requests, request, state, place, call>>
    PROVE  MatchInv'
<1>1. \A r, b : RecordFor(r, b)' = RecordFor(r, b)
  BY DEF RecordFor, RecordBuffer
<1>2. RequestsRecorded' /\ InLoop'
  BY <1>1 DEF MatchInv, RequestsRecorded, InLoop
<1>3. QED
  BY <1>2 DEF MatchInv, OneRecordEach, RecordsUsed, AwaitsLoop, InBlocking, Blocking,
              InWait, OperationsReached

\* MPI_Isend and MPI_Irecv: a request and its record appear together.
LEMMA MatchPosted ==
    ASSUME TypeInv, MatchInv, call = Idle, call' = call,
           NEW op \in Ops, NEW r \in ReqVars, NEW b \in Buffers \cup {NULL}, NEW t,
           NEW rec \in RecordType, rec.mpi_req = r, rec.tmpbuf = b,
           state[op] = "idle", request[r] = NULL, Posted(op, r, b, t),
           g_outstanding_requests' = Append(g_outstanding_requests, rec)
    PROVE  MatchInv'
<1>t. /\ state \in [Ops -> {"idle", "active", "complete", "released"}]
      /\ place \in [Ops -> Buffers \cup {NULL}]
      /\ request \in [ReqVars -> Ops \cup {NULL}]
  BY DEF TypeInv, InterposerTypeOK
<1>p. /\ state' = [state EXCEPT ![op] = "active"]
      /\ place' = [place EXCEPT ![op] = b]
      /\ request' = [request EXCEPT ![r] = op]
  BY DEF Posted
<1>c. call.fn = "none" /\ call.reqs = <<>> /\ call'.fn = "none" /\ call'.reqs = <<>>
  BY DEF Idle
<1>o. op # NULL
  BY OpsAssumption
<1>1. \A i \in DOMAIN g_outstanding_requests : g_outstanding_requests[i].mpi_req # r
  BY <1>c DEF MatchInv, RecordsUsed, AwaitsLoop
<1>2. /\ OneRecordEach'
      /\ \A s, d : RecordFor(s, d) => RecordFor(s, d)'
      /\ RecordFor(r, b)'
      /\ \A j \in DOMAIN g_outstanding_requests' :
            \/ g_outstanding_requests'[j] = rec
            \/ \E k \in DOMAIN g_outstanding_requests :
                  g_outstanding_requests'[j] = g_outstanding_requests[k]
  BY <1>1, AppendRecord DEF MatchInv
<1>3. \A s \in ReqVars : request[s] # op
  BY <1>o DEF MatchInv, RequestsRecorded
<1>4. RequestsRecorded'
  <2>1. ASSUME NEW s \in ReqVars, request'[s] # NULL
        PROVE  RecordFor(s, place[request[s]])' /\ state'[request'[s]] \in {"active", "complete"}
    <3>1. CASE s = r
      <4>1. request'[s] = op /\ place'[op] = b /\ state'[op] = "active"
        BY <1>t, <1>p, <3>1
      <4>2. QED
        BY <1>2, <3>1, <4>1 DEF RecordFor, RecordBuffer
    <3>2. CASE s # r
      <4>1. request'[s] = request[s] /\ request[s] # op /\ request[s] \in Ops
        BY <1>t, <1>p, <1>3, <2>1, <3>2
      <4>2. place'[request'[s]] = place[request[s]] /\ state'[request'[s]] = state[request[s]]
        BY <1>t, <1>p, <4>1
      <4>3. RecordFor(s, place[request[s]]) /\ state[request[s]] \in {"active", "complete"}
        BY <2>1, <4>1 DEF MatchInv, RequestsRecorded
      <4>4. PICK d : d = place[request[s]]
        OBVIOUS
      <4>5. RecordFor(s, d)'
        BY <1>2, <4>3, <4>4
      <4>6. QED
        BY <4>2, <4>3, <4>4, <4>5 DEF RecordFor, RecordBuffer
    <3>3. QED
      BY <3>1, <3>2
  <2>2. ASSUME NEW s \in ReqVars, NEW u \in ReqVars, request'[s] # NULL,
               request'[s] = request'[u]
        PROVE  s = u
    BY <1>t, <1>p, <1>3, <2>2 DEF MatchInv, RequestsRecorded
  <2>3. QED
    BY <2>1, <2>2 DEF RequestsRecorded
<1>5. RecordsUsed'
  <2>1. ASSUME NEW j \in DOMAIN g_outstanding_requests'
        PROVE  request'[g_outstanding_requests'[j].mpi_req] # NULL
    <3>1. CASE g_outstanding_requests'[j] = rec
      BY <1>t, <1>p, <1>o, <3>1
    <3>2. ASSUME NEW k \in DOMAIN g_outstanding_requests,
                 g_outstanding_requests'[j] = g_outstanding_requests[k]
          PROVE  request'[g_outstanding_requests'[j].mpi_req] # NULL
      <4>1. g_outstanding_requests[k].mpi_req \in ReqVars
        BY RecordFacts DEF TypeInv
      <4>2. request[g_outstanding_requests[k].mpi_req] # NULL
        BY <1>c DEF MatchInv, RecordsUsed, AwaitsLoop
      <4>3. QED
        BY <1>t, <1>p, <1>1, <3>2, <4>1, <4>2
    <3>3. QED
      BY <1>2, <3>1, <3>2
  <2>2. QED
    BY <2>1 DEF RecordsUsed
<1>6. InBlocking' /\ InWait' /\ InLoop'
  BY <1>c DEF InBlocking, Blocking, InWait, InLoop
<1>7. OperationsReached'
  <2>1. ASSUME NEW p \in Ops, state'[p] \in {"active", "complete"}
        PROVE  \E s \in ReqVars : request'[s] = p
    <3>1. CASE p = op
      BY <1>t, <1>p, <3>1
    <3>2. CASE p # op
      <4>1. PICK s \in ReqVars : request[s] = p
        BY <1>t, <1>p, <1>c, <2>1, <3>2 DEF MatchInv, OperationsReached, Blocking
      <4>2. request'[s] = p
        BY <1>t, <1>p, <4>1, OpsAssumption
      <4>3. QED
        BY <4>2
    <3>3. QED
      BY <3>1, <3>2
  <2>2. QED
    BY <2>1 DEF OperationsReached
<1>8. QED
  BY <1>2, <1>4, <1>5, <1>6, <1>7 DEF MatchInv

\* MPI_Send and MPI_Recv: the operation is the call's.
LEMMA MatchBlocked ==
    ASSUME TypeInv, MatchInv, call = Idle,
           NEW fn \in {"Send", "Recv"}, NEW op \in Ops, NEW b \in Buffers, NEW t,
           state[op] = "idle", Blocked(fn, op, b, t),
           UNCHANGED <<g_outstanding_requests, request>>
    PROVE  MatchInv'
<1>t. /\ state \in [Ops -> {"idle", "active", "complete", "released"}]
      /\ place \in [Ops -> Buffers \cup {NULL}]
      /\ request \in [ReqVars -> Ops \cup {NULL}]
  BY DEF TypeInv, InterposerTypeOK
<1>p. /\ state' = [state EXCEPT ![op] = "active"]
      /\ place' = [place EXCEPT ![op] = b]
      /\ call' = [fn |-> fn, reqs |-> <<[req |-> NULL, old |-> op]>>]
  BY DEF Blocked
<1>c. call.fn = "none" /\ call.reqs = <<>>
  BY DEF Idle
<1>1. call'.fn = fn /\ call'.reqs[1].old = op /\ DOMAIN call'.reqs = {1}
  BY <1>p
<1>2. \A s \in ReqVars : request[s] # op
  BY OpsAssumption DEF MatchInv, RequestsRecorded
<1>3. \A r, d : RecordFor(r, d)' = RecordFor(r, d)
  BY DEF RecordFor, RecordBuffer
<1>4. RequestsRecorded'
  <2>1. ASSUME NEW s \in ReqVars, request[s] # NULL
        PROVE  /\ place'[request[s]] = place[request[s]]
               /\ state'[request[s]] = state[request[s]]
    BY <1>t, <1>p, <1>2, <2>1
  <2>2. QED
    BY <1>3, <2>1 DEF MatchInv, RequestsRecorded
<1>5. RecordsUsed' /\ OneRecordEach'
  BY <1>c DEF MatchInv, RecordsUsed, OneRecordEach, AwaitsLoop
<1>6. InBlocking' /\ InWait' /\ InLoop'
  BY <1>t, <1>p, <1>1, <1>2 DEF InBlocking, InWait, InLoop
<1>7. OperationsReached'
  BY <1>t, <1>p, <1>1, <1>c DEF MatchInv, OperationsReached, Blocking
<1>8. QED
  BY <1>4, <1>5, <1>6, <1>7 DEF MatchInv

LEMMA MatchStart ==
    ASSUME TypeInv, MatchInv, StartOperation
    PROVE  MatchInv'
<1>1. ASSUME NEW op \in Ops, NEW r \in ReqVars, PostPrimitive(op, r) PROVE MatchInv'
  <2> DEFINE rec == [mpi_req |-> r, tmpbuf |-> NULL, usrbuf |-> NULL, datatype |-> 0]
  <2>1. rec \in RecordType /\ rec.mpi_req = r /\ rec.tmpbuf = NULL
    BY DEF RecordType
  <2>2. /\ g_outstanding_requests' = Append(g_outstanding_requests, rec)
        /\ Posted(op, r, NULL, NULL) /\ call = Idle /\ call' = call
        /\ state[op] = "idle" /\ request[r] = NULL
    BY <1>1 DEF PostPrimitive, request_register, AppReady
  <2> HIDE DEF rec
  <2>3. QED
    BY <2>1, <2>2, MatchPosted
<1>2. ASSUME NEW op \in Ops, NEW b \in Buffers, NEW t, SendCall(op, b, t) \/ RecvCall(op, b, t)
      PROVE  MatchInv'
  <2>1. /\ \E fn \in {"Send", "Recv"} : Blocked(fn, op, b, t)
        /\ call = Idle /\ state[op] = "idle"
        /\ UNCHANGED <<g_outstanding_requests, request>>
    BY <1>2 DEF SendCall, RecvCall, AppReady
  <2>2. QED
    BY <2>1, MatchBlocked
<1>3. ASSUME NEW op \in Ops, NEW r \in ReqVars, NEW b \in Buffers, NEW t \in Objects,
             NEW u \in Recvs \cup {NULL}, Isend(op, r, b, t) \/ Irecv(op, r, b, t, u)
      PROVE  MatchInv'
  <2>1. /\ t \in Usable /\ call = Idle /\ call' = call
        /\ Posted(op, r, b, t) /\ state[op] = "idle" /\ request[r] = NULL
        /\ \E usr \in Recvs \cup {NULL}, h \in {0, held[t]} : request_register(b, usr, h, r)
    BY <1>3 DEF Isend, Irecv, AppReady
  <2>2. PICK usr \in Recvs \cup {NULL}, h \in {0, held[t]} : request_register(b, usr, h, r)
    BY <2>1
  <2> DEFINE rec == [mpi_req |-> r, tmpbuf |-> b, usrbuf |-> usr, datatype |-> h]
  <2>3. h \in Nat
    BY <2>1, UsableTypes
  <2>4. rec \in RecordType /\ rec.mpi_req = r /\ rec.tmpbuf = b
    BY <2>3 DEF RecordType
  <2>5. g_outstanding_requests' = Append(g_outstanding_requests, rec)
    BY <2>2 DEF request_register
  <2> HIDE DEF rec
  <2>6. QED
    BY <2>1, <2>4, <2>5, MatchPosted
<1>4. QED
  BY <1>1, <1>2, <1>3 DEF StartOperation, Ops

\* The MPI library only moves an operation on, from active to complete.
LEMMA MatchTransfer ==
    ASSUME TypeInv, MatchInv, NEW op \in Ops, Transfer(op)
    PROVE  MatchInv'
<1>1. /\ state[op] = "active" /\ state' = [state EXCEPT ![op] = "complete"]
      /\ UNCHANGED <<g_outstanding_requests, request, place, call>>
      /\ state \in [Ops -> {"idle", "active", "complete", "released"}]
  BY DEF Transfer, TypeInv, InterposerTypeOK
<1>2. /\ \A p \in Ops : state'[p] \in {"active", "complete"} <=> state[p] \in {"active", "complete"}
      /\ \A p \in Ops : state[p] = "released" => state'[p] = "released"
  BY <1>1
<1>3. \A r, b : RecordFor(r, b)' = RecordFor(r, b)
  BY <1>1 DEF RecordFor, RecordBuffer
<1>4. \A r \in ReqVars : request[r] \in Ops \cup {NULL}
  BY DEF TypeInv, InterposerTypeOK
<1>5. \A k \in DOMAIN call.reqs : call.reqs[k].old \in Ops \cup {NULL}
  BY CallEntryFacts
<1>6. RequestsRecorded'
  BY <1>1, <1>2, <1>3, <1>4 DEF MatchInv, RequestsRecorded
<1>7. InLoop'
  BY <1>1, <1>2, <1>3, <1>5 DEF MatchInv, InLoop
<1>8. InBlocking'
  BY <1>1, <1>2 DEF MatchInv, InBlocking, Blocking
<1>9. OperationsReached' /\ OneRecordEach' /\ RecordsUsed' /\ InWait'
  BY <1>1, <1>2
  DEF MatchInv, OperationsReached, OneRecordEach, RecordsUsed, AwaitsLoop, InWait, Blocking
<1>10. QED
  BY <1>6, <1>7, <1>8, <1>9 DEF MatchInv

\* PMPI_Wait, Waitall and Testall release the operations of an array of
\* variables; their records wait for the loop.
LEMMA MatchRelease ==
    ASSUME TypeInv, MatchInv, NEW reqs, DistinctEntries(reqs),
           \A k \in DOMAIN reqs : reqs[k].old = request[reqs[k].req],
           call.fn \notin {"Send", "Recv", "loop"},
           Release({reqs[k].req : k \in DOMAIN reqs}), LoopOver(reqs),
           UNCHANGED <<g_outstanding_requests, place>>
    PROVE  MatchInv'
<1> DEFINE rs == {reqs[k].req : k \in DOMAIN reqs}
<1>t. /\ request \in [ReqVars -> Ops \cup {NULL}]
      /\ request' = [r \in ReqVars |-> IF r \in rs THEN NULL ELSE request[r]]
      /\ state' = [op \in Ops |->
                     IF \E r \in rs : request[r] = op THEN "released" ELSE state[op]]
  BY DEF Release, TypeInv, InterposerTypeOK
<1>k. \A r \in rs : r \in ReqVars /\ \E k \in DOMAIN reqs : reqs[k].req = r
  BY DEF DistinctEntries
<1>1. \A r, b : RecordFor(r, b)' = RecordFor(r, b)
  BY DEF RecordFor, RecordBuffer
<1>2. ASSUME NEW s \in ReqVars, request'[s] # NULL
      PROVE  /\ s \notin rs /\ request'[s] = request[s] /\ request[s] \in Ops
             /\ state'[request[s]] = state[request[s]]
  <2>1. s \notin rs /\ request'[s] = request[s] /\ request[s] \in Ops
    BY <1>t, <1>2
  <2>2. \A r \in rs : request[r] # request[s]
    BY <1>k, <1>2, <2>1 DEF MatchInv, RequestsRecorded
  <2>3. QED
    BY <1>t, <2>1, <2>2
<1>3. RequestsRecorded'
  BY <1>1, <1>2 DEF MatchInv, RequestsRecorded
<1>4. \/ call' = Idle /\ \A k \in DOMAIN reqs : reqs[k].old = NULL
      \/ call' = [fn |-> "loop", reqs |-> reqs]
  BY DEF LoopOver
<1>5. RecordsUsed'
  <2> SUFFICES ASSUME NEW i \in DOMAIN g_outstanding_requests
               PROVE  \/ request'[g_outstanding_requests[i].mpi_req] # NULL
                      \/ AwaitsLoop(g_outstanding_requests[i].mpi_req)'
    BY DEF RecordsUsed, AwaitsLoop
  <2> DEFINE r == g_outstanding_requests[i].mpi_req
  <2>1. r \in ReqVars /\ request[r] # NULL
    BY RecordFacts DEF TypeInv, MatchInv, RecordsUsed, AwaitsLoop
  <2>2. CASE r \notin rs
    BY <1>t, <2>1, <2>2
  <2>3. CASE r \in rs
    <3>1. PICK k \in DOMAIN reqs : reqs[k].req = r
      BY <1>k, <2>3
    <3>2. reqs[k].old # NULL
      BY <2>1, <3>1
    <3>3. call' = [fn |-> "loop", reqs |-> reqs]
      BY <1>4, <3>2
    <3>4. QED
      BY <3>1, <3>2, <3>3 DEF AwaitsLoop
  <2>4. QED
    BY <2>2, <2>3
<1>6. InLoop'
  <2> SUFFICES ASSUME call'.fn = "loop" PROVE InLoop'
    BY DEF InLoop
  <2>1. call'.reqs = reqs
    BY <1>4 DEF Idle
  <2>2. ASSUME NEW k \in DOMAIN reqs, reqs[k].old # NULL
        PROVE  /\ request'[reqs[k].req] = NULL
               /\ state'[reqs[k].old] = "released"
               /\ RecordFor(reqs[k].req, place[reqs[k].old])
    <3>1. /\ reqs[k].req \in rs /\ reqs[k].req \in ReqVars
          /\ request[reqs[k].req] = reqs[k].old /\ reqs[k].old \in Ops
      BY <1>t, <2>2 DEF DistinctEntries
    <3>2. QED
      BY <1>t, <2>2, <3>1 DEF MatchInv, RequestsRecorded
  <2>3. ASSUME NEW k \in DOMAIN reqs, NEW l \in DOMAIN reqs, reqs[k].old # NULL,
               reqs[k].old = reqs[l].old
        PROVE  k = l
    BY <2>3 DEF DistinctEntries, MatchInv, RequestsRecorded
  <2>4. DistinctEntries(call.reqs)'
    BY <2>1 DEF DistinctEntries
  <2>5. QED
    BY <1>1, <2>1, <2>2, <2>3, <2>4 DEF InLoop
<1>7. InBlocking' /\ InWait'
  BY <1>4 DEF InBlocking, Blocking, InWait, Idle
<1>8. OperationsReached'
  <2> SUFFICES ASSUME NEW op \in Ops, state'[op] \in {"active", "complete"}
               PROVE  \E r \in ReqVars : request'[r] = op
    BY DEF OperationsReached
  <2>1. state[op] \in {"active", "complete"} /\ \A r \in rs : request[r] # op
    BY <1>t
  <2>2. PICK r \in ReqVars : request[r] = op
    BY <2>1 DEF MatchInv, OperationsReached, Blocking
  <2>3. request'[r] = op
    BY <1>t, <2>1, <2>2
  <2>4. QED
    BY <2>3
<1>9. OneRecordEach'
  BY DEF MatchInv, OneRecordEach
<1>10. QED
  BY <1>3, <1>5, <1>6, <1>7, <1>8, <1>9 DEF MatchInv

\* The entries of an array of variables of the application.
LEMMA ArrayEntries ==
    ASSUME TypeInv, NEW fn, NEW n \in Nat, NEW rs \in [1 .. n -> ReqVars],
           \A i, j \in 1 .. n : rs[i] = rs[j] => i = j
    PROVE  /\ DOMAIN InCall(fn, rs).reqs = 1 .. n
           /\ DistinctEntries(InCall(fn, rs).reqs)
           /\ \A k \in 1 .. n : /\ InCall(fn, rs).reqs[k].req = rs[k]
                                /\ InCall(fn, rs).reqs[k].old = request[rs[k]]
BY DEF InCall, DistinctEntries

LEMMA MatchWaitCall ==
    ASSUME TypeInv, MatchInv, NEW fn \in {"Wait", "Waitall"}, NEW n \in Nat,
           NEW rs \in [1 .. n -> ReqVars],
           \A i, j \in 1 .. n : rs[i] = rs[j] => i = j,
           fn = "Wait" => n = 1 /\ request[rs[1]] # NULL,
           call = Idle, call' = InCall(fn, rs),
           UNCHANGED <<g_outstanding_requests, request, state, place>>
    PROVE  MatchInv'
<1>1. PICK entries : entries = InCall(fn, rs).reqs
  OBVIOUS
<1>2. call'.fn = fn /\ call'.reqs = entries /\ call.fn = "none"
  BY <1>1 DEF InCall, Idle
<1>3. /\ DOMAIN entries = 1 .. n
      /\ DistinctEntries(entries)
      /\ \A k \in 1 .. n : entries[k].req = rs[k] /\ entries[k].old = request[rs[k]]
  BY <1>1, ArrayEntries
<1>4. InWait'
  <2>1. fn = "Wait" => 1 \in DOMAIN entries /\ DOMAIN entries = {1} /\ entries[1].old # NULL
    BY <1>3
  <2>2. DistinctEntries(call.reqs)'
    BY <1>2, <1>3 DEF DistinctEntries
  <2>3. \A k \in DOMAIN entries : entries[k].old = request[entries[k].req]
    BY <1>3
  <2>4. QED
    BY <1>2, <2>1, <2>2, <2>3 DEF InWait
<1>5. \A r, b : RecordFor(r, b)' = RecordFor(r, b)
  BY DEF RecordFor, RecordBuffer
<1>6. RequestsRecorded' /\ OneRecordEach'
  BY <1>5 DEF MatchInv, RequestsRecorded, OneRecordEach
<1>7. RecordsUsed' /\ OperationsReached'
  BY <1>2 DEF MatchInv, RecordsUsed, AwaitsLoop, OperationsReached, Blocking
<1>8. InBlocking' /\ InLoop'
  BY <1>2 DEF InBlocking, Blocking, InLoop
<1>9. QED
  BY <1>4, <1>6, <1>7, <1>8 DEF MatchInv

LEMMA MatchComplete ==
    ASSUME CompletesProperly, TypeInv, MatchInv, CompleteOperation
    PROVE  MatchInv'
<1>1. ASSUME NEW r \in ReqVars, WaitCall(r) PROVE MatchInv'
  <2>1. PICK rs : rs = <<r>>
    OBVIOUS
  <2>2. rs \in [1 .. 1 -> ReqVars] /\ rs[1] = r
    BY <2>1
  <2>3. \A i, j \in 1 .. 1 : rs[i] = rs[j] => i = j
    OBVIOUS
  <2>4. /\ call = Idle /\ call' = InCall("Wait", rs) /\ request[rs[1]] # NULL
        /\ UNCHANGED <<g_outstanding_requests, request, state, place>>
    BY <1>1, <2>1, <2>2 DEF WaitCall, AppReady
  <2>5. QED
    BY <2>2, <2>3, <2>4, MatchWaitCall
<1>2. ASSUME NEW rs \in Arrays, WaitallCall(rs) \/ Testall(rs) PROVE MatchInv'
  <2>1. rs \in [1 .. 2 -> ReqVars] /\ rs[1] # rs[2]
    BY DEF Arrays
  <2>2. \A i, j \in 1 .. 2 : rs[i] = rs[j] => i = j
    BY <2>1
  <2>3. CASE WaitallCall(rs)
    <3>1. /\ call = Idle /\ call' = InCall("Waitall", rs)
          /\ UNCHANGED <<g_outstanding_requests, request, state, place>>
      BY <2>3 DEF WaitallCall, AppReady
    <3>2. QED
      BY <2>1, <2>2, <3>1, MatchWaitCall
  <2>4. CASE Testall(rs)
    <3>1. PICK entries : entries = InCall("Testall", rs).reqs
      OBVIOUS
    <3>2. /\ DOMAIN entries = 1 .. 2 /\ DistinctEntries(entries)
          /\ \A k \in 1 .. 2 : entries[k].req = rs[k] /\ entries[k].old = request[rs[k]]
      BY <2>1, <3>1 DEF InCall, DistinctEntries
    <3>3. /\ call.fn = "none" /\ UNCHANGED <<g_outstanding_requests, place>>
          /\ \/ Release({rs[i] : i \in DOMAIN rs}) /\ LoopOver(entries)
             \/ UNCHANGED <<state, request, call>>
      BY <2>4, <3>1 DEF Testall, AppReady, Idle
    <3>4. {rs[i] : i \in DOMAIN rs} = {entries[k].req : k \in DOMAIN entries}
      BY <2>1, <3>2
    <3>5. \A k \in DOMAIN entries : entries[k].old = request[entries[k].req]
      BY <3>2
    <3>6. CASE Release({entries[k].req : k \in DOMAIN entries}) /\ LoopOver(entries)
      BY <3>2, <3>3, <3>5, <3>6, MatchRelease
    <3>7. CASE UNCHANGED <<state, request, call>>
      BY <3>3, <3>7, MatchKept
    <3>8. QED
      BY <3>3, <3>4, <3>6, <3>7
  <2>5. QED
    BY <1>2, <2>3, <2>4
<1>3. ASSUME NEW r, Test(r) \/ Waitany(r) PROVE FALSE
  BY <1>3 DEF Test, Waitany, CompletesProperly
<1>4. QED
  BY <1>1, <1>2, <1>3 DEF CompleteOperation

\* MPI_Send and MPI_Recv give their operation back.
LEMMA MatchBlockingReturn ==
    ASSUME TypeInv, MatchInv, BlockingReturn
    PROVE  MatchInv'
<1>1. PICK op : op = call.reqs[1].old
  OBVIOUS
<1>2. /\ call.fn \in {"Send", "Recv"}
      /\ state' = [state EXCEPT ![op] = "released"]
      /\ call' = Idle
      /\ UNCHANGED <<g_outstanding_requests, request, place>>
  BY <1>1 DEF BlockingReturn
<1>3. op \in Ops /\ \A r \in ReqVars : request[r] # op
  BY <1>1, <1>2 DEF MatchInv, InBlocking, Blocking
<1>t. /\ state \in [Ops -> {"idle", "active", "complete", "released"}]
      /\ request \in [ReqVars -> Ops \cup {NULL}]
  BY DEF TypeInv, InterposerTypeOK
<1>4. \A p \in Ops : p # op => state'[p] = state[p]
  BY <1>2, <1>t
<1>5. \A r, b : RecordFor(r, b)' = RecordFor(r, b)
  BY <1>2 DEF RecordFor, RecordBuffer
<1>6. RequestsRecorded'
  BY <1>2, <1>3, <1>4, <1>5, <1>t DEF MatchInv, RequestsRecorded
<1>7. OneRecordEach' /\ RecordsUsed'
  BY <1>2 DEF MatchInv, OneRecordEach, RecordsUsed, AwaitsLoop
<1>8. InBlocking' /\ InWait' /\ InLoop'
  BY <1>2 DEF InBlocking, Blocking, InWait, InLoop, Idle
<1>9. OperationsReached'
  <2>1. ASSUME NEW p \in Ops, state'[p] \in {"active", "complete"}
        PROVE  \E r \in ReqVars : request'[r] = p
    <3>1. p # op /\ state[p] \in {"active", "complete"}
      BY <1>2, <1>3, <1>4, <1>t, <2>1
    <3>2. QED
      BY <1>1, <1>2, <3>1 DEF MatchInv, OperationsReached
  <2>2. QED
    BY <2>1 DEF OperationsReached
<1>10. QED
  BY <1>6, <1>7, <1>8, <1>9 DEF MatchInv

\* MPI_Wait: the variable becomes MPI_REQUEST_NULL and loses its record.
LEMMA MatchWaitReturn ==
    ASSUME TypeInv, MatchInv, WaitReturn
    PROVE  MatchInv'
<1>1. PICK r : r = call.reqs[1].req
  OBVIOUS
<1>2. /\ call.fn = "Wait" /\ call' = Idle
      /\ Release({r}) /\ request_free(r) /\ place' = place
  BY <1>1 DEF WaitReturn
<1>3. r \in ReqVars /\ request[r] # NULL
  <2>1. 1 \in DOMAIN call.reqs /\ DistinctEntries(call.reqs) /\ call.reqs[1].old # NULL
    BY <1>2 DEF MatchInv, InWait
  <2>2. call.reqs[1].old = request[call.reqs[1].req]
    BY <1>2, <2>1 DEF MatchInv, InWait
  <2>3. QED
    BY <1>1, <2>1, <2>2 DEF DistinctEntries
<1>t. /\ request \in [ReqVars -> Ops \cup {NULL}]
      /\ request' = [s \in ReqVars |-> IF s = r THEN NULL ELSE request[s]]
      /\ state' = [op \in Ops |-> IF request[r] = op THEN "released" ELSE state[op]]
  BY <1>2 DEF Release, TypeInv, InterposerTypeOK
<1>e. /\ OneRecordEach'
      /\ \A s, b : s # r /\ RecordFor(s, b) => RecordFor(s, b)'
      /\ \A j \in DOMAIN g_outstanding_requests' :
            \E k \in DOMAIN g_outstanding_requests :
               /\ g_outstanding_requests'[j] = g_outstanding_requests[k]
               /\ g_outstanding_requests[k].mpi_req # r
  BY <1>2, EraseRecord DEF MatchInv
<1>4. RequestsRecorded'
  <2>1. ASSUME NEW s \in ReqVars, request'[s] # NULL
        PROVE  /\ s # r /\ request'[s] = request[s]
               /\ RecordFor(s, place[request[s]])'
               /\ state'[request'[s]] \in {"active", "complete"}
    <3>1. s # r /\ request'[s] = request[s] /\ request[s] \in Ops
      BY <1>t, <2>1
    <3>2. request[s] # request[r]
      BY <1>3, <3>1 DEF MatchInv, RequestsRecorded
    <3>3. /\ RecordFor(s, place[request[s]])
          /\ state[request[s]] \in {"active", "complete"}
      BY <2>1, <3>1 DEF MatchInv, RequestsRecorded
    <3>4. PICK d : d = place[request[s]]
      OBVIOUS
    <3>5. RecordFor(s, d)'
      BY <1>e, <3>1, <3>3, <3>4
    <3>6. place'[request'[s]] = d
      BY <1>2, <3>1, <3>4
    <3>7. QED
      BY <1>t, <3>1, <3>2, <3>3, <3>5, <3>6 DEF RecordFor, RecordBuffer
  <2>2. QED
    BY <2>1 DEF MatchInv, RequestsRecorded
<1>5. RecordsUsed'
  <2>1. ASSUME NEW j \in DOMAIN g_outstanding_requests'
        PROVE  request'[g_outstanding_requests'[j].mpi_req] # NULL
    <3>1. PICK k \in DOMAIN g_outstanding_requests :
               /\ g_outstanding_requests'[j] = g_outstanding_requests[k]
               /\ g_outstanding_requests[k].mpi_req # r
      BY <1>e
    <3>2. g_outstanding_requests[k].mpi_req \in ReqVars
      BY RecordFacts DEF TypeInv
    <3>3. request[g_outstanding_requests[k].mpi_req] # NULL
      BY <1>2 DEF MatchInv, RecordsUsed, AwaitsLoop
    <3>4. QED
      BY <1>t, <3>1, <3>2, <3>3
  <2>2. QED
    BY <2>1 DEF RecordsUsed
<1>6. InBlocking' /\ InWait' /\ InLoop'
  BY <1>2 DEF InBlocking, Blocking, InWait, InLoop, Idle
<1>7. OperationsReached'
  <2>1. ASSUME NEW p \in Ops, state'[p] \in {"active", "complete"}
        PROVE  \E s \in ReqVars : request'[s] = p
    <3>1. state[p] \in {"active", "complete"} /\ request[r] # p
      BY <1>t, <2>1
    <3>2. PICK s \in ReqVars : request[s] = p
      BY <1>2, <3>1 DEF MatchInv, OperationsReached, Blocking
    <3>3. request'[s] = p
      BY <1>t, <3>1, <3>2
    <3>4. QED
      BY <3>3
  <2>2. QED
    BY <2>1 DEF OperationsReached
<1>8. QED
  BY <1>e, <1>4, <1>5, <1>6, <1>7 DEF MatchInv

LEMMA MatchWaitallReturn ==
    ASSUME TypeInv, MatchInv, WaitallReturn
    PROVE  MatchInv'
<1>1. PICK reqs : reqs = call.reqs
  OBVIOUS
<1>2. /\ call.fn = "Waitall"
      /\ Release({reqs[k].req : k \in DOMAIN reqs}) /\ LoopOver(reqs)
      /\ UNCHANGED <<g_outstanding_requests, place>>
  BY <1>1 DEF WaitallReturn
<1>3. /\ DistinctEntries(reqs)
      /\ \A k \in DOMAIN reqs : reqs[k].old = request[reqs[k].req]
  BY <1>1, <1>2 DEF MatchInv, InWait
<1>4. QED
  BY <1>2, <1>3, MatchRelease

\* The iterations still to come, after one.
LEMMA TailEntries ==
    ASSUME NEW reqs \in Seq(CallEntry), reqs # <<>>
    PROVE  /\ 1 \in DOMAIN reqs /\ Head(reqs) = reqs[1]
           /\ \A k \in DOMAIN Tail(reqs) :
                 k + 1 \in DOMAIN reqs /\ k + 1 # 1 /\ Tail(reqs)[k] = reqs[k + 1]
           /\ \A k, l \in DOMAIN Tail(reqs) : k + 1 = l + 1 => k = l
           /\ \A k \in DOMAIN reqs : k # 1 =>
                 \E l \in DOMAIN Tail(reqs) : Tail(reqs)[l] = reqs[k]
<1>1. PICK n \in Nat : n = Len(reqs)
  BY LenProperties
<1>2. n # 0 /\ DOMAIN reqs = 1 .. n
  BY <1>1, EmptySeq, LenProperties
<1>3. /\ Head(reqs) = reqs[1] /\ Tail(reqs) \in Seq(CallEntry)
      /\ Len(Tail(reqs)) = n - 1
      /\ \A k \in 1 .. Len(Tail(reqs)) : Tail(reqs)[k] = reqs[k + 1]
  BY <1>1, HeadTailProperties
<1>4. DOMAIN Tail(reqs) = 1 .. n - 1
  BY <1>3, LenProperties
<1>5. ASSUME NEW k \in DOMAIN reqs, k # 1
      PROVE  \E l \in DOMAIN Tail(reqs) : Tail(reqs)[l] = reqs[k]
  <2>1. k - 1 \in 1 .. n - 1 /\ (k - 1) + 1 = k
    BY <1>2, <1>5
  <2>2. Tail(reqs)[k - 1] = reqs[k]
    BY <1>3, <2>1
  <2>3. QED
    BY <1>4, <2>1, <2>2
<1>6. QED
  BY <1>2, <1>3, <1>4, <1>5

\* What one iteration leaves of the records: the variable of the entry has none.
LEMMA IterationRecords ==
    ASSUME TypeInv, OneRecordEach, NEW entry, Iteration(entry)
    PROVE  /\ OneRecordEach'
           /\ \A s, b : (entry.old = NULL \/ s # entry.req) /\ RecordFor(s, b) => RecordFor(s, b)'
           /\ \A j \in DOMAIN g_outstanding_requests' :
                 \E k \in DOMAIN g_outstanding_requests :
                    /\ g_outstanding_requests'[j] = g_outstanding_requests[k]
                    /\ entry.old # NULL => g_outstanding_requests[k].mpi_req # entry.req
<1>1. CASE entry.old = NULL
  BY <1>1 DEF Iteration, OneRecordEach, RecordFor, RecordBuffer
<1>2. CASE entry.old # NULL
  BY <1>2, EraseRecord DEF Iteration
<1>3. QED
  BY <1>1, <1>2

\* One iteration of the loop of MPI_Waitall and MPI_Testall.
LEMMA MatchLoopStep ==
    ASSUME TypeInv, MatchInv, LoopStep
    PROVE  MatchInv'
<1>1. PICK reqs, rest : reqs = call.reqs /\ rest = Tail(reqs)
  OBVIOUS
<1>2. /\ call.fn = "loop" /\ Iteration(Head(reqs)) /\ LoopOver(rest)
      /\ UNCHANGED <<request, state, place>>
  BY <1>1 DEF LoopStep
<1>3. reqs \in Seq(CallEntry) /\ reqs # <<>>
  BY <1>1, <1>2 DEF TypeInv, InterposerTypeOK, CallShape, CallEntry
<1>4. /\ 1 \in DOMAIN reqs /\ Head(reqs) = reqs[1]
      /\ \A k \in DOMAIN rest : k + 1 \in DOMAIN reqs /\ k + 1 # 1 /\ rest[k] = reqs[k + 1]
      /\ \A k, l \in DOMAIN rest : k + 1 = l + 1 => k = l
      /\ \A k \in DOMAIN reqs : k # 1 => \E l \in DOMAIN rest : rest[l] = reqs[k]
  BY <1>1, <1>3, TailEntries
<1>5. PICK entry : entry = reqs[1]
  OBVIOUS
<1>e. /\ OneRecordEach'
      /\ \A s, b : (entry.old = NULL \/ s # entry.req) /\ RecordFor(s, b) => RecordFor(s, b)'
      /\ \A j \in DOMAIN g_outstanding_requests' :
            \E k \in DOMAIN g_outstanding_requests :
               /\ g_outstanding_requests'[j] = g_outstanding_requests[k]
               /\ entry.old # NULL => g_outstanding_requests[k].mpi_req # entry.req
  BY <1>2, <1>4, <1>5, IterationRecords DEF MatchInv
<1>6. /\ DistinctEntries(reqs)
      /\ \A k \in DOMAIN reqs : reqs[k].old # NULL =>
            /\ request[reqs[k].req] = NULL
            /\ state[reqs[k].old] = "released"
            /\ RecordFor(reqs[k].req, place[reqs[k].old])
      /\ \A k, l \in DOMAIN reqs : reqs[k].old # NULL /\ reqs[k].old = reqs[l].old => k = l
  BY <1>1, <1>2 DEF MatchInv, InLoop
<1>7. entry.old # NULL => request[entry.req] = NULL
  BY <1>4, <1>5, <1>6
<1>8. \/ call' = Idle /\ \A k \in DOMAIN rest : rest[k].old = NULL
      \/ call' = [fn |-> "loop", reqs |-> rest]
  BY <1>2 DEF LoopOver
<1>9. RequestsRecorded'
  <2>1. ASSUME NEW s \in ReqVars, request[s] # NULL
        PROVE  RecordFor(s, place[request[s]])'
    <3>1. PICK d : d = place[request[s]]
      OBVIOUS
    <3>2. RecordFor(s, d) /\ (entry.old = NULL \/ s # entry.req)
      BY <1>7, <2>1, <3>1 DEF MatchInv, RequestsRecorded
    <3>3. RecordFor(s, d)'
      BY <1>e, <3>2
    <3>4. QED
      BY <1>2, <3>1, <3>3 DEF RecordFor, RecordBuffer
  <2>2. QED
    BY <1>2, <2>1 DEF MatchInv, RequestsRecorded
<1>10. RecordsUsed'
  <2>1. ASSUME NEW j \in DOMAIN g_outstanding_requests'
        PROVE  LET r == g_outstanding_requests'[j].mpi_req
               IN  \/ request[r] # NULL
                   \/ /\ call'.fn = "loop"
                      /\ \E m \in DOMAIN call'.reqs :
                            call'.reqs[m].req = r /\ call'.reqs[m].old # NULL
    <3>1. PICK k \in DOMAIN g_outstanding_requests :
               /\ g_outstanding_requests'[j] = g_outstanding_requests[k]
               /\ entry.old # NULL => g_outstanding_requests[k].mpi_req # entry.req
      BY <1>e
    <3>2. PICK r : r = g_outstanding_requests[k].mpi_req
      OBVIOUS
    <3>3. CASE request[r] # NULL
      BY <3>1, <3>2, <3>3
    <3>4. CASE AwaitsLoop(r)
      <4>1. PICK l \in DOMAIN reqs : reqs[l].req = r /\ reqs[l].old # NULL
        BY <1>1, <3>4 DEF AwaitsLoop
      <4>2. l # 1
        BY <1>5, <3>1, <3>2, <4>1
      <4>3. PICK m \in DOMAIN rest : rest[m] = reqs[l]
        BY <1>4, <4>2
      <4>4. call' = [fn |-> "loop", reqs |-> rest]
        BY <1>8, <4>1, <4>3
      <4>5. call'.fn = "loop" /\ call'.reqs = rest
        BY <4>4
      <4>6. QED
        BY <3>1, <3>2, <4>1, <4>3, <4>5
    <3>5. QED
      BY <3>2, <3>3, <3>4 DEF MatchInv, RecordsUsed
  <2>2. QED
    BY <1>2, <2>1 DEF RecordsUsed, AwaitsLoop
<1>11. InLoop'
  <2> SUFFICES ASSUME call'.fn = "loop" PROVE InLoop'
    BY DEF InLoop
  <2>1. call'.reqs = rest
    BY <1>8 DEF Idle
  <2>2. DistinctEntries(rest)
    BY <1>4, <1>6 DEF DistinctEntries
  <2>3. ASSUME NEW k \in DOMAIN rest, rest[k].old # NULL
        PROVE  /\ request[rest[k].req] = NULL
               /\ state[rest[k].old] = "released"
               /\ RecordFor(rest[k].req, place[rest[k].old])'
    <3>1. PICK l \in DOMAIN reqs : l = k + 1 /\ l # 1 /\ rest[k] = reqs[l]
      BY <1>4
    <3>2. PICK s, d : s = rest[k].req /\ d = place[rest[k].old]
      OBVIOUS
    <3>3. /\ request[s] = NULL /\ state[rest[k].old] = "released"
          /\ RecordFor(s, d) /\ s # entry.req
      BY <1>4, <1>5, <1>6, <2>3, <3>1, <3>2 DEF DistinctEntries
    <3>4. RecordFor(s, d)'
      BY <1>e, <3>3
    <3>5. QED
      BY <1>2, <3>2, <3>3, <3>4 DEF RecordFor, RecordBuffer
  <2>4. ASSUME NEW k \in DOMAIN rest, NEW l \in DOMAIN rest, rest[k].old # NULL,
               rest[k].old = rest[l].old
        PROVE  k = l
    BY <1>4, <1>6, <2>4
  <2>5. DistinctEntries(call.reqs)'
    BY <2>1, <2>2 DEF DistinctEntries
  <2>6. QED
    BY <1>2, <2>1, <2>3, <2>4, <2>5 DEF InLoop
<1>12. InBlocking' /\ InWait'
  BY <1>8 DEF InBlocking, Blocking, InWait, Idle
<1>13. OperationsReached'
  BY <1>2 DEF MatchInv, OperationsReached, Blocking
<1>14. QED
  BY <1>e, <1>9, <1>10, <1>11, <1>12, <1>13 DEF MatchInv

LEMMA MatchReturn ==
    ASSUME TypeInv, MatchInv, CallReturn
    PROVE  MatchInv'
BY MatchBlockingReturn, MatchWaitReturn, MatchWaitallReturn, MatchLoopStep DEF CallReturn

LEMMA MatchInvariant ==
    ASSUME CompletesProperly
    PROVE  Spec => []MatchInv
<1>1. Init => MatchInv
  <2> SUFFICES ASSUME Init PROVE MatchInv
    OBVIOUS
  <2>1. /\ DOMAIN g_outstanding_requests = {}
        /\ call.fn = "none" /\ call.reqs = <<>>
        /\ \A r \in ReqVars : request[r] = NULL
        /\ \A op \in Ops : state[op] = "idle"
    BY DEF Init, Idle
  <2>2. OneRecordEach /\ RequestsRecorded /\ RecordsUsed
    BY <2>1 DEF OneRecordEach, RequestsRecorded, RecordsUsed
  <2>3. InBlocking /\ InWait /\ InLoop
    BY <2>1 DEF InBlocking, Blocking, InWait, InLoop
  <2>4. OperationsReached
    BY <2>1 DEF OperationsReached
  <2>5. QED
    BY <2>2, <2>3, <2>4 DEF MatchInv
<1>2. TypeInv /\ MatchInv /\ [Next]_vars => MatchInv'
  <2> SUFFICES ASSUME TypeInv, MatchInv, [Next]_vars PROVE MatchInv'
    OBVIOUS
  <2>1. CASE TypeCall
    BY <2>1, MatchKept DEF TypeCall, ivars
  <2>2. ASSUME NEW r, NEW s, CopyRequest(r, s) PROVE FALSE
    BY <2>2 DEF CopyRequest, CompletesProperly
  <2>3. CASE UNCHANGED vars
    BY <2>3, MatchKept DEF vars, ivars
  <2>4. QED
    BY <2>1, <2>2, <2>3, MatchStart, MatchComplete, MatchReturn, MatchTransfer DEF Next
<1>3. QED
  BY <1>1, <1>2, TypesInvariant, PTL DEF Spec

\* An application that completes every request through the variable it was
\* started with, by MPI_Wait, MPI_Waitall or MPI_Testall, never makes the
\* wrapper's list and its own requests disagree.
THEOREM RecordsAlwaysMatchRequests ==
    ASSUME CompletesProperly
    PROVE  Spec => []RecordsMatchRequests
<1>1. MatchInv => RecordsMatchRequests
  BY DEF MatchInv, OneRecordEach, RequestsRecorded, RecordFor, RecordsUsed, AwaitsLoop,
         RecordsMatchRequests
<1>2. QED
  BY <1>1, MatchInvariant, PTL

-----------------------------------------------------------------------------
(* Buffers in flight are pinned: what the two invariants say together *)

\* The record i keeps the buffer of op, for a request or an iteration to come.
KeptBy(op, i) ==
    /\ RecordBuffer(i) = place[op]
    /\ \/ request[g_outstanding_requests[i].mpi_req] = op
       \/ /\ call.fn = "loop"
          /\ \E k \in DOMAIN call.reqs :
                call.reqs[k].req = g_outstanding_requests[i].mpi_req /\ call.reqs[k].old = op

\* An operation in flight has its buffer from a record or from a blocking call.
LEMMA InFlightOwner ==
    ASSUME TypeInv, MatchInv, NEW op \in Ops, InFlight(op)
    PROVE  \/ \E i \in DOMAIN g_outstanding_requests : KeptBy(op, i)
           \/ Blocking /\ call.reqs[1].old = op
<1>o. op # NULL
  BY OpsAssumption
<1>1. CASE state[op] \in {"active", "complete"}
  <2>1. CASE \E r \in ReqVars : request[r] = op
    <3>1. PICK r \in ReqVars : request[r] = op
      BY <2>1
    <3>2. RecordFor(r, place[op])
      BY <1>o, <3>1 DEF MatchInv, RequestsRecorded
    <3>3. PICK i \in DOMAIN g_outstanding_requests :
               g_outstanding_requests[i].mpi_req = r /\ RecordBuffer(i) = place[op]
      BY <3>2 DEF RecordFor
    <3>4. QED
      BY <3>1, <3>3 DEF KeptBy
  <2>2. QED
    BY <1>1, <2>1 DEF MatchInv, OperationsReached
<1>2. CASE state[op] = "released"
  <2>1. PICK k \in DOMAIN call.reqs : call.reqs[k].old = op
    BY <1>2 DEF InFlight, Returned
  <2>2. call.fn = "loop"
    <3>1. call.fn # "none"
      BY <2>1 DEF MatchInv, InWait
    <3>2. ~Blocking
      BY <1>2, <2>1 DEF MatchInv, InBlocking
    <3>3. call.fn \notin {"Wait", "Waitall"}
      <4> SUFFICES ASSUME call.fn \in {"Wait", "Waitall"} PROVE FALSE
        OBVIOUS
      <4>1. call.reqs[k].req \in ReqVars /\ request[call.reqs[k].req] = op
        BY <2>1 DEF MatchInv, InWait, DistinctEntries
      <4>2. QED
        BY <1>o, <1>2, <4>1 DEF MatchInv, RequestsRecorded
    <3>4. QED
      BY <3>1, <3>2, <3>3 DEF Blocking, TypeInv, InterposerTypeOK
  <2>3. RecordFor(call.reqs[k].req, place[op])
    BY <1>o, <2>1, <2>2 DEF MatchInv, InLoop
  <2>4. PICK i \in DOMAIN g_outstanding_requests :
             /\ g_outstanding_requests[i].mpi_req = call.reqs[k].req
             /\ RecordBuffer(i) = place[op]
    BY <2>3 DEF RecordFor
  <2>5. KeptBy(op, i)
    BY <2>1, <2>2, <2>4 DEF KeptBy
  <2>6. QED
    BY <2>5
<1>3. state[op] \in {"active", "complete", "released"}
  BY DEF InFlight, TypeInv, InterposerTypeOK
<1>4. QED
  BY <1>1, <1>2, <1>3

\* A record keeps the buffer of one operation.
LEMMA KeptOnce ==
    ASSUME TypeInv, MatchInv, NEW op \in Ops, NEW other \in Ops,
           NEW i \in DOMAIN g_outstanding_requests, KeptBy(op, i), KeptBy(other, i)
    PROVE  op = other
<1>o. op # NULL /\ other # NULL
  BY OpsAssumption
<1>1. PICK r : r = g_outstanding_requests[i].mpi_req
  OBVIOUS
<1>2. CASE request[r] = op \/ request[r] = other
  <2>1. ~ \E k \in DOMAIN call.reqs :
            call.fn = "loop" /\ call.reqs[k].req = r /\ call.reqs[k].old \in {op, other}
    BY <1>o, <1>2 DEF MatchInv, InLoop
  <2>2. QED
    BY <1>1, <2>1 DEF KeptBy
<1>3. CASE request[r] # op /\ request[r] # other
  <2>1. PICK k \in DOMAIN call.reqs : call.reqs[k].req = r /\ call.reqs[k].old = op
    BY <1>1, <1>3 DEF KeptBy
  <2>2. PICK l \in DOMAIN call.reqs : call.reqs[l].req = r /\ call.reqs[l].old = other
    BY <1>1, <1>3 DEF KeptBy
  <2>3. call.fn = "loop"
    BY <1>1, <1>3 DEF KeptBy
  <2>4. k = l
    BY <2>1, <2>2, <2>3 DEF MatchInv, InLoop, DistinctEntries
  <2>5. QED
    BY <2>1, <2>2, <2>4
<1>4. QED
  BY <1>2, <1>3

\* Both at once: the buffer of an operation in flight is owned, and by it alone.
LEMMA BuffersPinned ==
    ASSUME TypeInv, OwnInv, MatchInv
    PROVE  /\ InFlightBuffersPinned
           /\ \A op \in Ops : InFlight(op) => place[op] \in Owned /\ place[op] # NULL
<1>1. ASSUME NEW op \in Ops, InFlight(op)
      PROVE  place[op] \in Owned /\ place[op] # NULL
  <2>1. place[op] # NULL
    BY <1>1 DEF InFlight
  <2>2. CASE Blocking /\ call.reqs[1].old = op
    BY <2>1, <2>2 DEF Blocking, Owned, CallBuffers
  <2>3. ASSUME NEW i \in DOMAIN g_outstanding_requests, KeptBy(op, i)
        PROVE  place[op] \in Owned
    BY <2>3 DEF KeptBy, Owned
  <2>4. QED
    BY <1>1, <2>1, <2>2, <2>3, InFlightOwner
<1>2. ASSUME NEW op \in Ops, InFlight(op)
      PROVE  IF place[op] = Scratch THEN scratch_in_use ELSE place[op] \in malloced
  BY <1>1, <1>2 DEF OwnInv
<1>3. ASSUME NEW op \in Ops, NEW other \in Ops, InFlight(op), InFlight(other),
             place[op] = place[other]
      PROVE  op = other
  <2>1. place[op] # NULL
    BY <1>3 DEF InFlight
  <2>2. CASE Blocking /\ call.reqs[1].old \in {op, other}
    <3>1. CallBuffers = {place[op]}
      BY <1>3, <2>2 DEF Blocking, CallBuffers
    <3>2. ~ \E i \in DOMAIN g_outstanding_requests : KeptBy(op, i) \/ KeptBy(other, i)
      BY <1>3, <3>1 DEF OwnInv, KeptBy
    <3>3. QED
      BY <1>3, <3>2, InFlightOwner
  <2>3. CASE ~(Blocking /\ call.reqs[1].old \in {op, other})
    <3>1. PICK i \in DOMAIN g_outstanding_requests : KeptBy(op, i)
      BY <1>3, <2>3, InFlightOwner
    <3>2. PICK j \in DOMAIN g_outstanding_requests : KeptBy(other, j)
      BY <1>3, <2>3, InFlightOwner
    <3>3. i = j
      BY <1>3, <2>1, <3>1, <3>2 DEF OwnInv, KeptBy
    <3>4. QED
      BY <3>1, <3>2, <3>3, KeptOnce
  <2>4. QED
    BY <2>2, <2>3
<1>4. QED
  BY <1>1, <1>2, <1>3 DEF InFlightBuffersPinned

\* Such an application never loses the buffer of a pending operation, nor gives
\* it to two of them.
THEOREM BuffersAlwaysPinned ==
    ASSUME CompletesProperly
    PROVE  Spec => []InFlightBuffersPinned
<1>1. TypeInv /\ OwnInv /\ MatchInv => InFlightBuffersPinned
  BY BuffersPinned
<1>2. QED
  BY <1>1, TypesInvariant, OwnershipInvariant, MatchInvariant, PTL
=============================================================================
