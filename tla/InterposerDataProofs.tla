------------------------ MODULE InterposerDataProofs ------------------------
(***************************************************************************)
(* What an application sees of its communication through the wrapper, when *)
(* it has none of the Habits and frees the types beyond the fast slots     *)
(* newest first: every operation moves its own data with its own type, so  *)
(* that the wrapper implements NonblockingComm.                            *)
(***************************************************************************)
EXTENDS InterposerProofs

-----------------------------------------------------------------------------
(* Data is right, for an application without habits and newest-first frees *)

Plain == Habits = {} /\ FallbackFrees = "lifo"

Own(op) == [data |-> op, as |-> want[op]]

\* The type of a receive in flight can be used until the receive is unpacked.
TypesKept == \A op \in Recvs : InFlight(op) => want[op] \in Usable

\* A record is unpacked into its own operation's buffer, with its type.
RecordsRight ==
    \A i \in DOMAIN g_outstanding_requests, op \in Ops :
        KeptBy(op, i) /\ place[op] # NULL =>
            /\ op \in Sends => g_outstanding_requests[i].usrbuf = NULL
            /\ op \in Recvs => /\ g_outstanding_requests[i].usrbuf = op
                               /\ g_outstanding_requests[i].datatype = held[want[op]]

\* A buffer in flight has the packed data of its operation: a send's from the
\* start, a receive's once it has arrived.
ContentsRight ==
    \A op \in Ops : InFlight(op) =>
        /\ op \in Sends /\ state[op] = "active" => content[place[op]] = Own(op)
        /\ op \in Recvs /\ state[op] # "active" => content[place[op]].data = op

\* An operation on a primitive type needs no unpacking.
PrimitivesRight ==
    \A op \in Ops : state[op] # "idle" /\ place[op] = NULL =>
        /\ want[op] = NULL
        /\ op \in Recvs /\ state[op] # "active" => result[op] = Own(op)

DataInv ==
    /\ TypesKept
    /\ RecordsRight
    /\ ContentsRight
    /\ PrimitivesRight
    /\ SendsRight
    /\ ReceivesRight

LEMMA KeptInFlight ==
    ASSUME TypeInv, MatchInv, NEW op \in Ops, NEW i \in DOMAIN g_outstanding_requests,
           KeptBy(op, i), place[op] # NULL
    PROVE  InFlight(op)
<1>o. op # NULL
  BY OpsAssumption
<1>1. CASE request[g_outstanding_requests[i].mpi_req] = op
  <2>1. state[op] \in {"active", "complete"}
    BY <1>o, <1>1, RecordFacts DEF TypeInv, MatchInv, RequestsRecorded
  <2>2. QED
    BY <2>1 DEF InFlight, Returned
<1>2. CASE /\ call.fn = "loop"
           /\ \E k \in DOMAIN call.reqs :
                 call.reqs[k].req = g_outstanding_requests[i].mpi_req /\ call.reqs[k].old = op
  <2>1. state[op] = "released" /\ \E k \in DOMAIN call.reqs : call.reqs[k].old = op
    BY <1>o, <1>2 DEF MatchInv, InLoop
  <2>2. QED
    BY <2>1 DEF InFlight, Returned
<1>3. QED
  BY <1>1, <1>2 DEF KeptBy

\* Every record keeps the buffer of some operation.
LEMMA RecordKept ==
    ASSUME TypeInv, MatchInv, NEW i \in DOMAIN g_outstanding_requests
    PROVE  \E op \in Ops : KeptBy(op, i)
<1>1. PICK r \in ReqVars : r = g_outstanding_requests[i].mpi_req
  BY RecordFacts DEF TypeInv
<1>2. CASE request[r] # NULL
  <2>1. PICK op \in Ops : request[r] = op
    BY <1>2 DEF TypeInv, InterposerTypeOK
  <2>2. RecordFor(r, place[op])
    BY <1>2, <2>1 DEF MatchInv, RequestsRecorded
  <2>3. RecordBuffer(i) = place[op]
    BY <1>1, <2>2 DEF RecordFor, MatchInv, OneRecordEach
  <2>4. QED
    BY <1>1, <2>1, <2>3 DEF KeptBy
<1>3. CASE AwaitsLoop(r)
  <2>1. /\ call.fn = "loop"
        /\ \E k \in DOMAIN call.reqs : call.reqs[k].req = r /\ call.reqs[k].old # NULL
    BY <1>3 DEF AwaitsLoop
  <2>2. PICK k \in DOMAIN call.reqs : call.reqs[k].req = r /\ call.reqs[k].old # NULL
    BY <2>1
  <2>3. PICK op \in Ops : call.reqs[k].old = op
    BY <2>2, CallEntryFacts
  <2>4. RecordFor(r, place[op])
    BY <2>1, <2>2, <2>3 DEF MatchInv, InLoop
  <2>5. RecordBuffer(i) = place[op]
    BY <1>1, <2>4 DEF RecordFor, MatchInv, OneRecordEach
  <2>6. QED
    BY <1>1, <2>1, <2>2, <2>3, <2>5 DEF KeptBy
<1>4. QED
  BY <1>1, <1>2, <1>3 DEF MatchInv, RecordsUsed

\* The handle of a type the application may use resolves to compiled code.
LEMMA UsableResolves ==
    ASSUME Inv, NEW t \in Usable
    PROVE  /\ t \in Objects /\ t # NULL
           /\ datatype_retrieve(held[t]) = t
           /\ t \in compiled /\ t \in heap
<1>1. t \in HeldTypes /\ t \in committed
  BY DEF Usable
<1>2. TypeOK /\ SlotInv /\ LifoInv
  BY DEF Inv
<1>3. t \in Objects /\ t # NULL
  BY <1>1, NullAssumption DEF HeldTypes
<1>4. datatype_retrieve(held[t]) = t /\ t \in heap
  BY <1>1, <1>2, HeldLookup
<1>5. t \in compiled
  BY <1>1, <1>2 DEF LifoInv
<1>6. QED
  BY <1>3, <1>4, <1>5

\* Steps that start nothing and move no data into or out of the buffers may
\* return operations, unpack receives and forget records.
TypesStillHeld ==
    \A x \in Recvs : InFlight(x) => want[x] \in Usable' /\ held'[want[x]] = held[want[x]]

OpsMayReturn ==
    \A x \in Ops :
        /\ state'[x] = state[x] \/ (state[x] = "complete" /\ state'[x] = "released")
        /\ InFlight(x)' => InFlight(x)

RecordsMayGo ==
    \A j \in DOMAIN g_outstanding_requests', x \in Ops : KeptBy(x, j)' =>
        \E k \in DOMAIN g_outstanding_requests :
           g_outstanding_requests'[j] = g_outstanding_requests[k] /\ KeptBy(x, k)

ReceivesUnpacked ==
    /\ \A x \in Ops : result'[x] = result[x] \/ (x \in Recvs /\ result'[x] = Own(x))
    /\ \A x \in Recvs : Returned(x)' =>
          Returned(x) \/ place[x] = NULL \/ result'[x] = Own(x)

LEMMA DataKept ==
    ASSUME TypeInv, MatchInv, DataInv, UNCHANGED <<content, place, want>>,
           TypesStillHeld, OpsMayReturn, RecordsMayGo, ReceivesUnpacked
    PROVE  DataInv'
<1> USE DEF TypesStillHeld, OpsMayReturn, RecordsMayGo, ReceivesUnpacked
<1>s. Sends \subseteq Ops /\ Recvs \subseteq Ops /\ \A x \in Sends : x \notin Recvs
  BY OpsAssumption DEF Ops
<1>1. TypesKept'
  BY <1>s DEF TypesKept
<1>2. RecordsRight'
  <2> SUFFICES ASSUME NEW j \in DOMAIN g_outstanding_requests', NEW x \in Ops,
                      KeptBy(x, j)', place[x] # NULL
               PROVE  /\ x \in Sends => g_outstanding_requests'[j].usrbuf = NULL
                      /\ x \in Recvs =>
                            /\ g_outstanding_requests'[j].usrbuf = x
                            /\ g_outstanding_requests'[j].datatype = held'[want[x]]
    BY DEF RecordsRight
  <2>1. PICK k \in DOMAIN g_outstanding_requests :
             g_outstanding_requests'[j] = g_outstanding_requests[k] /\ KeptBy(x, k)
    OBVIOUS
  <2>2. InFlight(x)
    BY <2>1, KeptInFlight
  <2>3. QED
    BY <2>1, <2>2 DEF DataInv, RecordsRight
<1>3. ContentsRight'
  BY DEF DataInv, ContentsRight, Own
<1>4. SendsRight'
  BY <1>s DEF DataInv, SendsRight, Own
<1>5. PrimitivesRight'
  <2> SUFFICES ASSUME NEW x \in Ops, state'[x] # "idle", place[x] = NULL
               PROVE  /\ want[x] = NULL
                      /\ x \in Recvs /\ state'[x] # "active" => result'[x] = Own(x)
    BY DEF PrimitivesRight, Own
  <2>1. state[x] # "idle"
    OBVIOUS
  <2>2. want[x] = NULL
    BY <2>1 DEF DataInv, PrimitivesRight
  <2>3. x \in Recvs /\ state'[x] # "active" => result'[x] = Own(x)
    BY <2>1 DEF DataInv, PrimitivesRight
  <2>4. QED
    BY <2>2, <2>3
<1>6. ReceivesRight'
  <2> SUFFICES ASSUME NEW x \in Recvs, Returned(x)' PROVE result'[x] = Own(x)
    BY DEF ReceivesRight, Own
  <2>1. x \in Ops /\ state'[x] = "released"
    BY <1>s DEF Returned
  <2>2. CASE Returned(x)
    BY <2>1, <2>2 DEF DataInv, ReceivesRight, Own
  <2>3. CASE place[x] = NULL
    BY <1>5, <2>1, <2>3 DEF PrimitivesRight, Own
  <2>4. QED
    BY <2>2, <2>3
<1>7. QED
  BY <1>1, <1>2, <1>3, <1>4, <1>5, <1>6 DEF DataInv

\* A call that starts op in buffer b with type t adds at most the record of op.
StartedRecords(op, b, t) ==
    \A j \in DOMAIN g_outstanding_requests', x \in Ops : KeptBy(x, j)' =>
        \/ /\ x # op
           /\ \E k \in DOMAIN g_outstanding_requests :
                 g_outstanding_requests'[j] = g_outstanding_requests[k] /\ KeptBy(x, k)
        \/ /\ x = op
           /\ b # NULL =>
                 /\ op \in Sends => g_outstanding_requests'[j].usrbuf = NULL
                 /\ op \in Recvs => /\ g_outstanding_requests'[j].usrbuf = op
                                    /\ g_outstanding_requests'[j].datatype = held[t]

\* It leaves the other operations as they were.
OthersAsBefore(op) ==
    \A x \in Ops : x # op => (InFlight(x)' => InFlight(x)) /\ (Returned(x)' => Returned(x))

\* Starting an operation in a fresh buffer, or in the user's own.
LEMMA DataStarted ==
    ASSUME TypeInv, OwnInv, MatchInv, DataInv,
           NEW op \in Ops, NEW b \in Buffers \cup {NULL}, NEW t,
           state[op] = "idle",
           state' = [state EXCEPT ![op] = "active"],
           place' = [place EXCEPT ![op] = b],
           want' = [want EXCEPT ![op] = t],
           UNCHANGED <<tables, result>>,
           b = NULL => t = NULL,
           b # NULL => t \in Usable /\ b \notin Owned,
           \A c \in Buffers : c # b => content'[c] = content[c],
           op \in Sends /\ b # NULL => content'[b] = [data |-> op, as |-> t],
           OthersAsBefore(op), StartedRecords(op, b, t)
    PROVE  DataInv'
<1> USE DEF OthersAsBefore, StartedRecords
<1>s. Sends \subseteq Ops /\ Recvs \subseteq Ops
  BY DEF Ops
<1>t. /\ state \in [Ops -> {"idle", "active", "complete", "released"}]
      /\ place \in [Ops -> Buffers \cup {NULL}]
      /\ want \in [Ops -> Objects \cup {NULL}]
  BY DEF TypeInv, InterposerTypeOK
<1>p. /\ state'[op] = "active" /\ place'[op] = b /\ want'[op] = t
      /\ \A x \in Ops : x # op =>
            state'[x] = state[x] /\ place'[x] = place[x] /\ want'[x] = want[x]
  BY <1>t
<1>u. Usable' = Usable /\ held' = held
  BY DEF Usable, HeldTypes, tables
<1>o. \A x \in Ops : InFlight(x) => place[x] \in Buffers /\ place[x] # b
  BY <1>t, BuffersPinned DEF InFlight
<1>1. TypesKept'
  <2> SUFFICES ASSUME NEW x \in Recvs, InFlight(x)' PROVE want'[x] \in Usable
    BY <1>u DEF TypesKept
  <2>1. CASE x = op
    BY <1>p, <2>1 DEF InFlight
  <2>2. CASE x # op
    BY <1>s, <1>p, <2>2 DEF DataInv, TypesKept
  <2>3. QED
    BY <2>1, <2>2
<1>2. RecordsRight'
  <2> SUFFICES ASSUME NEW j \in DOMAIN g_outstanding_requests', NEW x \in Ops,
                      KeptBy(x, j)', place'[x] # NULL
               PROVE  /\ x \in Sends => g_outstanding_requests'[j].usrbuf = NULL
                      /\ x \in Recvs =>
                            /\ g_outstanding_requests'[j].usrbuf = x
                            /\ g_outstanding_requests'[j].datatype = held[want'[x]]
    BY <1>u DEF RecordsRight
  <2>1. CASE x = op
    BY <1>p, <2>1
  <2>2. CASE x # op
    <3>1. PICK k \in DOMAIN g_outstanding_requests :
               g_outstanding_requests'[j] = g_outstanding_requests[k] /\ KeptBy(x, k)
      BY <2>2
    <3>2. QED
      BY <1>p, <2>2, <3>1 DEF DataInv, RecordsRight
  <2>3. QED
    BY <2>1, <2>2
<1>3. ContentsRight'
  <2> SUFFICES ASSUME NEW x \in Ops, InFlight(x)'
               PROVE  /\ x \in Sends /\ state'[x] = "active" =>
                            content'[place'[x]] = [data |-> x, as |-> want'[x]]
                      /\ x \in Recvs /\ state'[x] # "active" => content'[place'[x]].data = x
    BY DEF ContentsRight, Own
  <2>1. CASE x = op
    BY <1>p, <2>1 DEF InFlight
  <2>2. CASE x # op
    <3>1. InFlight(x) /\ state'[x] = state[x] /\ place'[x] = place[x] /\ want'[x] = want[x]
      BY <1>p, <2>2
    <3>2. content'[place'[x]] = content[place[x]]
      BY <1>o, <3>1
    <3>3. QED
      BY <3>1, <3>2 DEF DataInv, ContentsRight, Own
  <2>3. QED
    BY <2>1, <2>2
<1>4. PrimitivesRight'
  <2> SUFFICES ASSUME NEW x \in Ops, state'[x] # "idle", place'[x] = NULL
               PROVE  /\ want'[x] = NULL
                      /\ x \in Recvs /\ state'[x] # "active" =>
                            result[x] = [data |-> x, as |-> want'[x]]
    BY DEF PrimitivesRight, Own
  <2>1. CASE x = op
    BY <1>p, <2>1
  <2>2. CASE x # op
    BY <1>p, <2>2 DEF DataInv, PrimitivesRight, Own
  <2>3. QED
    BY <2>1, <2>2
<1>5. SendsRight'
  BY <1>s, <1>p DEF DataInv, SendsRight
<1>6. ReceivesRight'
  <2> SUFFICES ASSUME NEW x \in Recvs, Returned(x)'
               PROVE  result[x] = [data |-> x, as |-> want'[x]]
    BY DEF ReceivesRight
  <2>1. x # op
    BY <1>p DEF Returned
  <2>2. QED
    BY <1>s, <1>p, <2>1 DEF DataInv, ReceivesRight
<1>7. QED
  BY <1>1, <1>2, <1>3, <1>4, <1>5, <1>6 DEF DataInv

\* The MPI library moves data between the wire and the operation's own buffer.
LEMMA DataMoved ==
    ASSUME TypeInv, OwnInv, MatchInv, DataInv, NEW op \in Ops, Transfer(op)
    PROVE  DataInv'
<1>s. Sends \subseteq Ops /\ Recvs \subseteq Ops /\ \A x \in Sends : x \notin Recvs
  BY OpsAssumption DEF Ops
<1>t. /\ state \in [Ops -> {"idle", "active", "complete", "released"}]
      /\ place \in [Ops -> Buffers \cup {NULL}]
      /\ result \in [Ops -> Data]
      /\ content \in [Buffers -> Data]
  BY DEF TypeInv, InterposerTypeOK
<1>p. /\ state[op] = "active" /\ state'[op] = "complete"
      /\ \A x \in Ops : x # op => state'[x] = state[x]
      /\ UNCHANGED <<place, want, g_outstanding_requests, request, call, held, committed>>
  BY <1>t DEF Transfer, hvars
<1>f. /\ \A x \in Ops : InFlight(x)' <=> InFlight(x)
      /\ \A x \in Ops : Returned(x)' <=> Returned(x) /\ x # op
  BY <1>p DEF InFlight, Returned
<1>k. \A x, i : KeptBy(x, i)' <=> KeptBy(x, i)
  BY <1>p DEF KeptBy, RecordBuffer
<1>i. place[op] # NULL => InFlight(op) /\ place[op] \in Buffers
  BY <1>t, <1>p DEF InFlight, Returned
<1>c. /\ \A x \in Ops : x # op /\ InFlight(x) => content'[place[x]] = content[place[x]]
      /\ op \in Sends /\ place[op] # NULL => content' = content
      /\ op \in Recvs /\ place[op] # NULL => content'[place[op]].data = op
  <2>1. CASE content' = content /\ ~(op \in Recvs /\ place[op] # NULL)
    BY <2>1
  <2>2. CASE /\ op \in Recvs /\ place[op] # NULL
             /\ content' = [content EXCEPT ![place[op]] = [data |-> op, as |-> NULL]]
    <3>1. content'[place[op]] = [data |-> op, as |-> NULL]
      BY <1>t, <1>i, <2>2
    <3>2. ASSUME NEW x \in Ops, x # op, InFlight(x)
          PROVE  content'[place[x]] = content[place[x]]
      <4>1. place[x] # place[op] /\ place[x] \in Buffers
        BY <1>i, <1>t, <2>2, <3>2, BuffersPinned DEF InFlightBuffersPinned, InFlight
      <4>2. QED
        BY <1>t, <2>2, <4>1
    <3>3. QED
      BY <1>s, <2>2, <3>1, <3>2
  <2>3. QED
    BY <1>s, <2>1, <2>2 DEF Transfer
<1>r. /\ \A x \in Ops : x # op => result'[x] = result[x]
      /\ op \in Sends => result'[op] = Own(op)
      /\ place[op] = NULL => result'[op] = Own(op)
  <2>1. CASE op \in Sends /\ place[op] # NULL /\ result' = [result EXCEPT ![op] = content[place[op]]]
    <3>1. content[place[op]] = Own(op)
      BY <1>p, <1>i, <2>1 DEF DataInv, ContentsRight
    <3>2. QED
      BY <1>t, <2>1, <3>1
  <2>2. CASE op \in Recvs /\ place[op] # NULL /\ result' = result
    BY <1>s, <2>2
  <2>3. CASE place[op] = NULL /\ result' = [result EXCEPT ![op] = [data |-> op, as |-> NULL]]
    <3>1. want[op] = NULL
      BY <1>p, <2>3 DEF DataInv, PrimitivesRight
    <3>2. QED
      BY <1>t, <2>3, <3>1 DEF Own
  <2>4. QED
    BY <2>1, <2>2, <2>3 DEF Transfer
<1>u. Usable' = Usable
  BY <1>p DEF Usable, HeldTypes
<1>1. TypesKept'
  BY <1>s, <1>p, <1>f, <1>u DEF DataInv, TypesKept
<1>2. RecordsRight'
  BY <1>p, <1>k DEF DataInv, RecordsRight
<1>3. ContentsRight'
  <2> SUFFICES ASSUME NEW x \in Ops, InFlight(x)
               PROVE  /\ x \in Sends /\ state'[x] = "active" => content'[place[x]] = Own(x)
                      /\ x \in Recvs /\ state'[x] # "active" => content'[place[x]].data = x
    BY <1>p, <1>f DEF ContentsRight, Own
  <2>1. CASE x = op
    BY <1>p, <1>c, <2>1 DEF InFlight
  <2>2. CASE x # op
    BY <1>p, <1>c, <2>2 DEF DataInv, ContentsRight
  <2>3. QED
    BY <2>1, <2>2
<1>4. PrimitivesRight'
  <2> SUFFICES ASSUME NEW x \in Ops, state'[x] # "idle", place[x] = NULL
               PROVE  /\ want[x] = NULL
                      /\ x \in Recvs /\ state'[x] # "active" => result'[x] = Own(x)
    BY <1>p DEF PrimitivesRight, Own
  <2>1. state[x] # "idle"
    BY <1>p
  <2>2. CASE x = op
    BY <1>r, <2>1, <2>2 DEF DataInv, PrimitivesRight
  <2>3. CASE x # op
    BY <1>p, <1>r, <2>1, <2>3 DEF DataInv, PrimitivesRight
  <2>4. QED
    BY <2>2, <2>3
<1>5. SendsRight'
  <2> SUFFICES ASSUME NEW x \in Sends, state'[x] \in {"complete", "released"}
               PROVE  result'[x] = Own(x)
    BY <1>p DEF SendsRight, Own
  <2>1. CASE x = op
    BY <1>r, <2>1
  <2>2. CASE x # op
    BY <1>s, <1>p, <1>r, <2>2 DEF DataInv, SendsRight, Own
  <2>3. QED
    BY <2>1, <2>2
<1>6. ReceivesRight'
  BY <1>s, <1>p, <1>f, <1>r DEF DataInv, ReceivesRight
<1>7. QED
  BY <1>1, <1>2, <1>3, <1>4, <1>5, <1>6 DEF DataInv

\* No call but those of TypeCall touches the handle table.
LEMMA InvKept ==
    ASSUME Inv, UNCHANGED tables, fault' = FALSE
    PROVE  Inv'
BY DEF Inv, tables, TypeOK, HeldTypes, SlotInv, FreelistInjective, FreeSlotsNotHeld, NoSlotLost,
       FastSlotsPoint, FallbackApart, LifoInv, FallbackConsecutive, FallbackHeld, FallbackPoints

\* The new record of a nonblocking call is the only one for its operation.
LEMMA RegisteredKept ==
    ASSUME TypeInv, MatchInv, call = Idle, call' = call,
           NEW op \in Ops, NEW r \in ReqVars, NEW b \in Buffers \cup {NULL}, NEW t,
           NEW rec \in RecordType, rec.mpi_req = r,
           state[op] = "idle", request[r] = NULL, Posted(op, r, b, t),
           g_outstanding_requests' = Append(g_outstanding_requests, rec),
           b # NULL => /\ op \in Sends => rec.usrbuf = NULL
                       /\ op \in Recvs => rec.usrbuf = op /\ rec.datatype = held[t]
    PROVE  StartedRecords(op, b, t)
<1> SUFFICES ASSUME NEW j \in DOMAIN g_outstanding_requests', NEW x \in Ops, KeptBy(x, j)'
             PROVE  \/ /\ x # op
                       /\ \E k \in DOMAIN g_outstanding_requests :
                             /\ g_outstanding_requests'[j] = g_outstanding_requests[k]
                             /\ KeptBy(x, k)
                    \/ x = op /\ g_outstanding_requests'[j] = rec
  BY DEF StartedRecords
<1>o. op # NULL /\ x # NULL
  BY OpsAssumption
<1>t. /\ place \in [Ops -> Buffers \cup {NULL}]
      /\ request \in [ReqVars -> Ops \cup {NULL}]
      /\ place' = [place EXCEPT ![op] = b]
      /\ request' = [request EXCEPT ![r] = op]
  BY DEF TypeInv, InterposerTypeOK, Posted
<1>c. call.fn = "none" /\ call'.fn = "none"
  BY DEF Idle
<1>1. /\ g_outstanding_requests'[j].tmpbuf = place'[x]
      /\ request'[g_outstanding_requests'[j].mpi_req] = x
  BY <1>c DEF KeptBy, RecordBuffer
<1>2. \A i \in DOMAIN g_outstanding_requests : g_outstanding_requests[i].mpi_req # r
  BY <1>c DEF MatchInv, RecordsUsed, AwaitsLoop
<1>3. \/ g_outstanding_requests'[j] = rec
      \/ \E k \in DOMAIN g_outstanding_requests :
            g_outstanding_requests'[j] = g_outstanding_requests[k]
  BY <1>2, AppendRecord DEF MatchInv
<1>4. CASE g_outstanding_requests'[j] = rec
  BY <1>t, <1>1, <1>4
<1>5. ASSUME NEW k \in DOMAIN g_outstanding_requests,
             g_outstanding_requests'[j] = g_outstanding_requests[k]
      PROVE  x # op /\ KeptBy(x, k)
  <2>1. g_outstanding_requests[k].mpi_req \in ReqVars \ {r}
    BY <1>2, RecordFacts DEF TypeInv
  <2>2. request[g_outstanding_requests[k].mpi_req] = x
    BY <1>t, <1>1, <1>5, <2>1
  <2>3. x # op
    BY <1>o, <2>1, <2>2 DEF MatchInv, RequestsRecorded
  <2>4. place'[x] = place[x]
    BY <1>t, <2>3
  <2>5. QED
    BY <1>1, <1>5, <2>2, <2>3, <2>4 DEF KeptBy, RecordBuffer
<1>6. QED
  BY <1>3, <1>4, <1>5


LEMMA OthersKept ==
    ASSUME TypeInv, NEW op \in Ops, NEW b,
           state' = [state EXCEPT ![op] = "active"],
           place' = [place EXCEPT ![op] = b],
           call = Idle,
           call' = Idle \/ (DOMAIN call'.reqs = {1} /\ call'.reqs[1].old = op)
    PROVE  OthersAsBefore(op)
<1>1. \A x \in Ops : ~ \E i \in DOMAIN call.reqs : call.reqs[i].old = x
  BY DEF Idle
<1>2. \A x \in Ops : x # op => ~ \E i \in DOMAIN call'.reqs : call'.reqs[i].old = x
  BY DEF Idle
<1>3. QED
  BY <1>1, <1>2 DEF OthersAsBefore, InFlight, Returned, TypeInv, InterposerTypeOK

LEMMA DataPosted ==
    ASSUME TypeInv, OwnInv, MatchInv, DataInv, call = Idle, call' = call,
           NEW op \in Ops, NEW r \in ReqVars, NEW b \in Buffers \cup {NULL}, NEW t,
           NEW rec \in RecordType, rec.mpi_req = r,
           state[op] = "idle", request[r] = NULL, Posted(op, r, b, t),
           g_outstanding_requests' = Append(g_outstanding_requests, rec),
           UNCHANGED <<tables, result>>,
           b = NULL => t = NULL,
           b # NULL => t \in Usable /\ b \notin Owned,
           b # NULL => /\ op \in Sends => rec.usrbuf = NULL
                       /\ op \in Recvs => rec.usrbuf = op /\ rec.datatype = held[t],
           \A c \in Buffers : c # b => content'[c] = content[c],
           op \in Sends /\ b # NULL => content'[b] = [data |-> op, as |-> t]
    PROVE  DataInv'
<1>1. /\ state' = [state EXCEPT ![op] = "active"]
      /\ place' = [place EXCEPT ![op] = b]
      /\ want' = [want EXCEPT ![op] = t]
  BY DEF Posted
<1>2. OthersAsBefore(op)
  BY <1>1, OthersKept
<1>3. StartedRecords(op, b, t)
  BY RegisteredKept
<1>4. QED
  BY <1>1, <1>2, <1>3, DataStarted

LEMMA DataBlocked ==
    ASSUME TypeInv, OwnInv, MatchInv, DataInv, call = Idle,
           NEW fn \in {"Send", "Recv"}, NEW op \in Ops, NEW b \in Buffers, NEW t \in Usable,
           state[op] = "idle", Blocked(fn, op, b, t), b \notin Owned,
           UNCHANGED <<tables, result, g_outstanding_requests, request>>,
           \A c \in Buffers : c # b => content'[c] = content[c],
           op \in Sends => content'[b] = [data |-> op, as |-> t]
    PROVE  DataInv'
<1>b. b # NULL /\ b \in Buffers \cup {NULL}
  BY BuffersAssumption
<1>1. /\ state' = [state EXCEPT ![op] = "active"]
      /\ place' = [place EXCEPT ![op] = b]
      /\ want' = [want EXCEPT ![op] = t]
      /\ call' = [fn |-> fn, reqs |-> <<[req |-> NULL, old |-> op]>>]
  BY DEF Blocked
<1>2. OthersAsBefore(op)
  <2>1. DOMAIN call'.reqs = {1} /\ call'.reqs[1].old = op
    BY <1>1
  <2>2. QED
    BY <1>1, <2>1, OthersKept
<1>3. StartedRecords(op, b, t)
  <2> SUFFICES ASSUME NEW j \in DOMAIN g_outstanding_requests', NEW x \in Ops, KeptBy(x, j)'
               PROVE  x # op /\ KeptBy(x, j)
    BY DEF StartedRecords
  <2>1. request[g_outstanding_requests[j].mpi_req] = x
    BY <1>1 DEF KeptBy
  <2>2. g_outstanding_requests[j].mpi_req \in ReqVars
    BY RecordFacts DEF TypeInv
  <2>3. x # op
    BY <2>1, <2>2, OpsAssumption DEF MatchInv, RequestsRecorded
  <2>4. place'[x] = place[x]
    BY <1>1, <2>3 DEF TypeInv, InterposerTypeOK
  <2>5. KeptBy(x, j)
    BY <2>1, <2>4 DEF KeptBy, RecordBuffer
  <2>6. QED
    BY <2>3, <2>5
<1>4. QED
  BY <1>b, <1>1, <1>2, <1>3, DataStarted

LEMMA StartRight ==
    ASSUME Plain, TypeInv, Inv, OwnInv, MatchInv, DataInv, StartOperation
    PROVE  Inv' /\ DataInv'
<1>s. \A op \in Ops : (op \in Sends => op \notin Recvs) /\ (op \in Recvs => op \notin Sends)
  BY OpsAssumption
<1>c. content \in [Buffers -> Data]
  BY DEF TypeInv, InterposerTypeOK
<1>f. fault = FALSE
  BY DEF Inv, LifoInv, TypeOK
<1>1. ASSUME NEW op \in Ops, NEW r \in ReqVars, PostPrimitive(op, r)
      PROVE  Inv' /\ DataInv'
  <2> DEFINE rec == [mpi_req |-> r, tmpbuf |-> NULL, usrbuf |-> NULL, datatype |-> 0]
  <2>1. /\ g_outstanding_requests' = Append(g_outstanding_requests, rec)
        /\ Posted(op, r, NULL, NULL) /\ call = Idle /\ call' = call
        /\ state[op] = "idle" /\ request[r] = NULL
        /\ UNCHANGED <<tables, fault, result, content>>
    BY <1>1 DEF PostPrimitive, request_register, AppReady, hvars, tables
  <2>2. rec \in RecordType /\ rec.mpi_req = r
    BY DEF RecordType
  <2> HIDE DEF rec
  <2>3. DataInv'
    BY <2>1, <2>2, DataPosted
  <2>4. QED
    BY <1>f, <2>1, <2>3, InvKept
<1>2. ASSUME NEW op \in Sends, NEW b \in Buffers, NEW t, SendCall(op, b, t)
      PROVE  Inv' /\ DataInv'
  <2>1. /\ op \in Ops /\ call = Idle /\ state[op] = "idle" /\ t \in Usable
        /\ Packed(op, b, held[t]) /\ Blocked("Send", op, b, t)
        /\ UNCHANGED <<tables, g_outstanding_requests, request, result>>
    BY <1>2 DEF SendCall, AppReady, Ops
  <2>2. /\ b \notin Owned /\ fault' = FALSE
        /\ content' = [content EXCEPT ![b] = [data |-> op, as |-> t]]
    BY <2>1, AllocFresh, UsableResolves DEF Packed
  <2>3. DataInv'
    BY <1>c, <2>1, <2>2, DataBlocked
  <2>4. QED
    BY <2>1, <2>2, <2>3, InvKept
<1>3. ASSUME NEW op \in Recvs, NEW b \in Buffers, NEW t, RecvCall(op, b, t)
      PROVE  Inv' /\ DataInv'
  <2>1. /\ op \in Ops /\ op \notin Sends /\ call = Idle /\ state[op] = "idle" /\ t \in Usable
        /\ buffer_alloc(b) /\ Blocked("Recv", op, b, t)
        /\ fault' = (datatype_retrieve(held[t]) \notin heap)
        /\ UNCHANGED <<tables, g_outstanding_requests, content, request, result>>
    BY <1>s, <1>3 DEF RecvCall, AppReady, Ops
  <2>2. b \notin Owned /\ fault' = FALSE
    BY <2>1, AllocFresh, UsableResolves
  <2>3. DataInv'
    BY <2>1, <2>2, DataBlocked
  <2>4. QED
    BY <2>1, <2>2, <2>3, InvKept
<1>4. ASSUME NEW op \in Sends, NEW r \in ReqVars, NEW b \in Buffers, NEW t, Isend(op, r, b, t)
      PROVE  Inv' /\ DataInv'
  <2> DEFINE rec == [mpi_req |-> r, tmpbuf |-> b, usrbuf |-> NULL, datatype |-> 0]
  <2>1. /\ op \in Ops /\ op \notin Recvs /\ call = Idle /\ call' = call
        /\ state[op] = "idle" /\ request[r] = NULL /\ t \in Usable
        /\ Packed(op, b, held[t]) /\ Posted(op, r, b, t)
        /\ g_outstanding_requests' = Append(g_outstanding_requests, rec)
        /\ UNCHANGED <<tables, result>>
    BY <1>s, <1>4 DEF Isend, AppReady, request_register, Ops
  <2>2. /\ b \notin Owned /\ b # NULL /\ fault' = FALSE
        /\ content' = [content EXCEPT ![b] = [data |-> op, as |-> t]]
    BY <2>1, AllocFresh, UsableResolves DEF Packed
  <2>3. rec \in RecordType /\ rec.mpi_req = r /\ rec.usrbuf = NULL
    BY DEF RecordType
  <2> HIDE DEF rec
  <2>4. DataInv'
    BY <1>c, <2>1, <2>2, <2>3, DataPosted
  <2>5. QED
    BY <2>1, <2>2, <2>4, InvKept
<1>5. ASSUME NEW op \in Recvs, NEW r \in ReqVars, NEW b \in Buffers, NEW t,
             Irecv(op, r, b, t, op)
      PROVE  Inv' /\ DataInv'
  <2> DEFINE rec == [mpi_req |-> r, tmpbuf |-> b, usrbuf |-> op, datatype |-> held[t]]
  <2>1. /\ op \in Ops /\ op \notin Sends /\ call = Idle /\ call' = call
        /\ state[op] = "idle" /\ request[r] = NULL /\ t \in Usable
        /\ buffer_alloc(b) /\ Posted(op, r, b, t)
        /\ fault' = (datatype_retrieve(held[t]) \notin heap)
        /\ g_outstanding_requests' = Append(g_outstanding_requests, rec)
        /\ UNCHANGED <<tables, content, result>>
    BY <1>s, <1>5 DEF Irecv, AppReady, request_register, Ops
  <2>2. b \notin Owned /\ b # NULL /\ fault' = FALSE
    BY <2>1, AllocFresh, UsableResolves
  <2>3. rec \in RecordType /\ rec.mpi_req = r /\ rec.usrbuf = op /\ rec.datatype = held[t]
    BY <2>1, UsableTypes DEF RecordType
  <2> HIDE DEF rec
  <2>4. DataInv'
    BY <2>1, <2>2, <2>3, DataPosted
  <2>5. QED
    BY <2>1, <2>2, <2>4, InvKept
<1>6. QED
  BY <1>1, <1>2, <1>3, <1>4, <1>5 DEF StartOperation, Plain

\* The datatype calls: the types of pending receives stay.
LEMMA TypeCallRight ==
    ASSUME Plain, TypeInv, Inv, MatchInv, DataInv, TypeCall
    PROVE  Inv' /\ DataInv'
<1>0. TypeOK /\ SlotInv /\ LifoInv /\ FallbackFrees = "lifo"
  BY DEF Inv, Plain
<1>1. Inv'
  <2>1. ASSUME NEW olds \in SUBSET {held[o] : o \in HeldTypes}, TypeConstruct(olds) PROVE Inv'
    BY <1>0, <2>1, ConstructTypeOK, ConstructSlotInv, ConstructLifoInv DEF Inv
  <2>2. ASSUME NEW t \in Objects, TypeCommit(t) PROVE Inv'
    BY <1>0, <2>2, CommitTypeOK, CommitSlotInv, CommitLifoInv DEF Inv
  <2>3. ASSUME NEW t \in Objects, TypeQuery(t) \/ TypePack(t) PROVE Inv'
    BY <1>0, <2>3, UseTypeOK, UseSlotInv, UseLifoInv DEF Inv
  <2>4. ASSUME NEW t \in Objects, TypeFree(t) PROVE Inv'
    BY <1>0, <2>4, FreeTypeOK, FreeSlotInv, FreeLifoInv DEF Inv
  <2>5. QED
    BY <2>1, <2>2, <2>3, <2>4 DEF TypeCall
<1>2. UNCHANGED ivars /\ call = Idle
  BY DEF TypeCall, AppReady
<1>3. ASSUME NEW x \in Recvs, InFlight(x)
      PROVE  want[x] \in Usable' /\ held'[want[x]] = held[want[x]]
  <2>1. x \in Ops /\ state[x] \in {"active", "complete"}
    BY <1>2, <1>3 DEF Ops, InFlight, Returned, Idle, TypeInv, InterposerTypeOK
  <2>2. want[x] \in HeldTypes /\ want[x] \in committed
    BY <1>3 DEF DataInv, TypesKept, Usable
  <2>3. InPendingReceive(want[x])
    BY <2>1 DEF InPendingReceive
  <2>4. held \in [Objects -> Nat \cup {NoHandle}] /\ want[x] \in Objects
    BY <1>0, <2>2 DEF TypeOK, HeldTypes
  <2>5. ASSUME NEW olds, TypeConstruct(olds)
        PROVE  held'[want[x]] = held[want[x]] /\ committed' = committed
    BY <2>2, <2>4, <2>5 DEF TypeConstruct, HeldTypes
  <2>6. ASSUME NEW t \in Objects, TypeCommit(t) \/ TypeQuery(t) \/ TypePack(t)
        PROVE  held'[want[x]] = held[want[x]] /\ want[x] \in committed'
    BY <2>2, <2>6 DEF TypeCommit, TypeQuery, TypePack
  <2>7. ASSUME NEW t \in Objects, TypeFree(t), InPendingReceive(t) => "typefree" \in Habits
        PROVE  held'[want[x]] = held[want[x]] /\ want[x] \in committed'
    <3>1. t # want[x]
      BY <2>3, <2>7 DEF Plain
    <3>2. QED
      BY <2>2, <2>4, <2>7, <3>1 DEF TypeFree
  <2>8. held'[want[x]] = held[want[x]] /\ want[x] \in committed'
    BY <2>2, <2>5, <2>6, <2>7 DEF TypeCall
  <2>9. QED
    BY <2>2, <2>4, <2>8 DEF Usable, HeldTypes
<1>4. TypesStillHeld
  BY <1>3 DEF TypesStillHeld
<1>5. OpsMayReturn /\ RecordsMayGo /\ ReceivesUnpacked
  BY <1>2 DEF ivars, OpsMayReturn, RecordsMayGo, ReceivesUnpacked, InFlight, Returned,
              KeptBy, RecordBuffer
<1>6. UNCHANGED <<content, place, want>>
  BY <1>2 DEF ivars
<1>7. QED
  BY <1>1, <1>4, <1>5, <1>6, DataKept

\* The function of a blocking call fits its operation.
CallsRight ==
    /\ call.fn = "Send" => call.reqs[1].old \in Sends
    /\ call.fn = "Recv" => call.reqs[1].old \in Recvs

LEMMA CallsInvariant == Spec => []CallsRight
<1>1. Init => CallsRight
  BY DEF Init, Idle, CallsRight
<1>2. CallsRight /\ [Next]_vars => CallsRight'
  <2> SUFFICES ASSUME CallsRight, [Next]_vars PROVE CallsRight'
    OBVIOUS
  <2>1. ASSUME UNCHANGED call PROVE CallsRight'
    BY <2>1 DEF CallsRight
  <2>2. ASSUME call' = Idle PROVE CallsRight'
    BY <2>2 DEF CallsRight, Idle
  <2>3. ASSUME NEW reqs, LoopOver(reqs) PROVE CallsRight'
    BY <2>2, <2>3 DEF CallsRight, LoopOver
  <2>4. CASE TypeCall
    BY <2>1, <2>4 DEF TypeCall, ivars
  <2>5. CASE StartOperation
    <3>1. ASSUME NEW op \in Sends, NEW b, NEW t, SendCall(op, b, t) PROVE CallsRight'
      BY <3>1 DEF SendCall, Blocked, CallsRight
    <3>2. ASSUME NEW op \in Recvs, NEW b, NEW t, RecvCall(op, b, t) PROVE CallsRight'
      BY <3>2 DEF RecvCall, Blocked, CallsRight
    <3>3. ASSUME NEW op, NEW r, PostPrimitive(op, r) PROVE CallsRight'
      BY <2>1, <3>3 DEF PostPrimitive
    <3>4. ASSUME NEW op, NEW r, NEW b, NEW t, Isend(op, r, b, t) PROVE CallsRight'
      BY <2>1, <3>4 DEF Isend
    <3>5. ASSUME NEW op, NEW r, NEW b, NEW t, NEW u, Irecv(op, r, b, t, u) PROVE CallsRight'
      BY <2>1, <3>5 DEF Irecv
    <3>6. QED
      BY <2>5, <3>1, <3>2, <3>3, <3>4, <3>5 DEF StartOperation
  <2>6. CASE CompleteOperation
    <3>1. ASSUME NEW r, WaitCall(r) PROVE CallsRight'
      BY <3>1 DEF WaitCall, InCall, CallsRight
    <3>2. ASSUME NEW rs, WaitallCall(rs) PROVE CallsRight'
      BY <3>2 DEF WaitallCall, InCall, CallsRight
    <3>3. ASSUME NEW rs, Testall(rs) PROVE CallsRight'
      BY <2>1, <2>3, <3>3 DEF Testall
    <3>4. ASSUME NEW r, Test(r) \/ Waitany(r) PROVE CallsRight'
      BY <2>1, <3>4 DEF Test, Waitany
    <3>5. QED
      BY <2>6, <3>1, <3>2, <3>3, <3>4 DEF CompleteOperation
  <2>7. CASE CallReturn
    BY <2>2, <2>3, <2>7 DEF CallReturn, BlockingReturn, WaitReturn, WaitallReturn, LoopStep
  <2>8. ASSUME NEW op, Transfer(op) PROVE CallsRight'
    BY <2>1, <2>8 DEF Transfer
  <2>9. ASSUME NEW r, NEW s, CopyRequest(r, s) PROVE CallsRight'
    BY <2>1, <2>9 DEF CopyRequest
  <2>10. CASE UNCHANGED vars
    BY <2>1, <2>10 DEF vars, ivars
  <2>11. QED
    BY <2>4, <2>5, <2>6, <2>7, <2>8, <2>9, <2>10 DEF Next
<1>3. QED
  BY <1>1, <1>2, PTL DEF Spec

\* interposer_request_free unpacks a receive that has arrived with its own type
\* into its own buffer, and finds compiled code for it.
LEMMA FreeRight ==
    ASSUME TypeInv, Inv, MatchInv, DataInv, NEW op \in Ops, NEW r,
           NEW i \in DOMAIN g_outstanding_requests,
           g_outstanding_requests[i].mpi_req = r, KeptBy(op, i),
           state[op] \in {"complete", "released"}, request_free(r)
    PROVE  /\ fault' = FALSE
           /\ \A x \in Ops : result'[x] = result[x] \/ (x \in Recvs /\ result'[x] = Own(x))
           /\ op \in Recvs => place[op] = NULL \/ result'[op] = Own(op)
<1>s. op # NULL /\ (op \in Sends => op \notin Recvs) /\ (op \in Sends \/ op \in Recvs)
  BY OpsAssumption DEF Ops
<1>f. fault = FALSE
  BY DEF Inv, LifoInv, TypeOK
<1>t. /\ g_outstanding_requests \in Seq(RecordType)
      /\ result \in [Ops -> Data]
  BY DEF TypeInv, InterposerTypeOK
<1>b. g_outstanding_requests[i].tmpbuf = place[op]
  BY DEF KeptBy, RecordBuffer
<1>1. IF place[op] = NULL
      THEN UNCHANGED <<result, fault>>
      ELSE Cleanup(g_outstanding_requests[i])
  <2>1. \A j \in DOMAIN g_outstanding_requests : g_outstanding_requests[j].mpi_req = r => j = i
    BY DEF MatchInv, OneRecordEach
  <2>2. QED
    BY <1>t, <1>b, <2>1, RequestFreeCases
<1>2. CASE place[op] = NULL
  BY <1>1, <1>2, <1>f
<1>3. CASE place[op] # NULL
  <2>1. InFlight(op)
    BY <1>3, KeptInFlight
  <2>2. CASE op \in Sends
    <3>1. g_outstanding_requests[i].usrbuf = NULL
      BY <1>3, <2>2 DEF DataInv, RecordsRight
    <3>2. UNCHANGED <<result, fault>>
      BY <1>1, <1>3, <3>1 DEF Cleanup, is_recv
    <3>3. QED
      BY <1>f, <1>s, <2>2, <3>2
  <2>3. CASE op \in Recvs
    <3>1. /\ g_outstanding_requests[i].usrbuf = op
          /\ g_outstanding_requests[i].datatype = held[want[op]]
      BY <1>3, <2>3 DEF DataInv, RecordsRight
    <3>2. want[op] \in Usable
      BY <2>1, <2>3 DEF DataInv, TypesKept
    <3>3. datatype_retrieve(held[want[op]]) = want[op] /\ want[op] \in compiled
      BY <3>2, UsableResolves
    <3>4. content[place[op]].data = op
      BY <2>1, <2>3 DEF DataInv, ContentsRight
    <3>5. /\ result' = [result EXCEPT ![op] = Unpacked(place[op], held[want[op]])]
          /\ fault' = (datatype_retrieve(held[want[op]]) \notin compiled)
      BY <1>s, <1>b, <1>1, <1>3, <3>1 DEF Cleanup, is_recv
    <3>6. Unpacked(place[op], held[want[op]]) = Own(op)
      BY <3>3, <3>4 DEF Unpacked, Own
    <3>7. QED
      BY <1>t, <2>3, <3>3, <3>5, <3>6
  <2>4. QED
    BY <1>s, <2>2, <2>3
<1>4. QED
  BY <1>2, <1>3

\* The phase of an operation, by cases, in a state and in the next one.
LEMMA PhaseCases ==
    ASSUME NEW x
    PROVE  /\ state[x] = "idle" => Phase(x) = "idle"
           /\ state[x] = "active" => Phase(x) = "pending"
           /\ Returned(x) => Phase(x) = "returned"
           /\ state[x] \in {"complete", "released"} /\ ~Returned(x) => Phase(x) = "arrived"
BY DEF Phase, Returned

LEMMA PhaseCasesNext ==
    ASSUME NEW x
    PROVE  /\ state'[x] = "idle" => Phase(x)' = "idle"
           /\ state'[x] = "active" => Phase(x)' = "pending"
           /\ Returned(x)' => Phase(x)' = "returned"
           /\ state'[x] \in {"complete", "released"} /\ ~Returned(x)' => Phase(x)' = "arrived"
BY DEF Phase, Returned

\* What a step does to the phases: nothing, or one operation moves on.
PhasesStay == want' = want /\ \A x \in Ops : Phase(x)' = Phase(x)

Moves(op, from, to) ==
    /\ Phase(op) = from /\ Phase(op)' = to
    /\ \A x \in Ops : x # op => Phase(x)' = Phase(x)

Returns(op) == want' = want /\ Moves(op, "arrived", "returned")

\* Phases follow from the state and from what has returned.
LEMMA SamePhase ==
    ASSUME TypeInv, NEW x \in Ops,
           state'[x] = state[x] \/ (state[x] = "complete" /\ state'[x] = "released"),
           Returned(x)' <=> Returned(x)
    PROVE  Phase(x)' = Phase(x)
<1>1. state[x] \in {"idle", "active", "complete", "released"}
  BY DEF TypeInv, InterposerTypeOK
<1>2. QED
  BY <1>1, PhaseCases, PhaseCasesNext

\* No operation moves on if none changes state and the call stays.
LEMMA PhasesKept ==
    ASSUME TypeInv, UNCHANGED <<want, state, call>>
    PROVE  PhasesStay
<1>1. \A x \in Ops : Returned(x)' <=> Returned(x)
  BY DEF Returned
<1>2. \A x \in Ops : Phase(x)' = Phase(x)
  BY <1>1, SamePhase
<1> QED
  BY <1>2 DEF PhasesStay

\* A step that leaves the handle table alone leaves the types of receives.
LEMMA TypesStay ==
    ASSUME DataInv, UNCHANGED tables
    PROVE  TypesStillHeld
BY DEF DataInv, TypesKept, TypesStillHeld, tables, Usable, HeldTypes

\* MPI_Wait and MPI_Waitall up to the blocking PMPI call.
LEMMA WaitCallRight ==
    ASSUME TypeInv, MatchInv, DataInv, NEW fn \in {"Wait", "Waitall"}, NEW n \in Nat,
           NEW rs \in [1 .. n -> ReqVars], call = Idle, call' = InCall(fn, rs),
           UNCHANGED <<tables, g_outstanding_requests, content, request, state, place,
                       want, result>>
    PROVE  DataInv' /\ PhasesStay
<1>1. call'.fn = fn /\ call.fn = "none"
  BY DEF InCall, Idle
<1>2. \A x \in Ops : state[x] = "released" =>
         ~ \E i \in DOMAIN call'.reqs : call'.reqs[i].old = x
  <2> SUFFICES ASSUME NEW x \in Ops, state[x] = "released",
                      NEW i \in 1 .. n, request[rs[i]] = x
               PROVE  FALSE
    BY DEF InCall
  <2>1. rs[i] \in ReqVars /\ x # NULL
    BY OpsAssumption
  <2>2. QED
    BY <2>1 DEF MatchInv, RequestsRecorded
<1>3. \A x : Returned(x) <=> state[x] = "released"
  BY DEF Returned, Idle
<1>4. \A x \in Ops : Returned(x)' <=> Returned(x)
  BY <1>2, <1>3 DEF Returned
<1>5. OpsMayReturn /\ ReceivesUnpacked
  BY <1>4 DEF OpsMayReturn, ReceivesUnpacked, InFlight, Ops
<1>6. RecordsMayGo
  BY <1>1 DEF RecordsMayGo, KeptBy, RecordBuffer
<1>7. PhasesStay
  BY <1>4, SamePhase DEF PhasesStay
<1>8. QED
  BY <1>5, <1>6, <1>7, TypesStay, DataKept

\* PMPI_Waitall or PMPI_Testall releases the operations of an array of requests.
LEMMA ReleaseRight ==
    ASSUME TypeInv, MatchInv, DataInv, NEW reqs, DistinctEntries(reqs),
           \A k \in DOMAIN reqs : reqs[k].old = request[reqs[k].req],
           call = Idle \/ (call.fn = "Waitall" /\ call.reqs = reqs),
           \A k \in DOMAIN reqs : Done(reqs[k].req),
           Release({reqs[k].req : k \in DOMAIN reqs}), LoopOver(reqs),
           UNCHANGED <<tables, g_outstanding_requests, content, place, want, result>>
    PROVE  DataInv' /\ PhasesStay
<1>o. \A x \in Ops : x # NULL
  BY OpsAssumption
<1>t. /\ \A r \in ReqVars : request'[r] =
            IF \E k \in DOMAIN reqs : reqs[k].req = r THEN NULL ELSE request[r]
      /\ \A x \in Ops : state'[x] =
            IF \E k \in DOMAIN reqs : reqs[k].old = x THEN "released" ELSE state[x]
  BY DEF Release
<1>c. \/ call' = Idle /\ \A k \in DOMAIN reqs : reqs[k].old = NULL
      \/ call'.fn = "loop" /\ call'.reqs = reqs
  BY DEF LoopOver
<1>e. \A k \in DOMAIN reqs, x \in Ops : reqs[k].old = x =>
         request[reqs[k].req] = x /\ state[x] = "complete"
  BY <1>o DEF Done, DistinctEntries
<1>1. \A x \in Ops : state'[x] = state[x] \/ (state[x] = "complete" /\ state'[x] = "released")
  BY <1>t, <1>e
<1>2. \A x \in Ops : Returned(x) => Returned(x)'
  <2> SUFFICES ASSUME NEW x \in Ops, Returned(x) PROVE Returned(x)'
    OBVIOUS
  <2>1. state[x] = "released" /\ state'[x] = "released"
    BY <1>t DEF Returned
  <2>2. \A k \in DOMAIN reqs : reqs[k].old # x
    BY <1>e, <2>1
  <2>3. \A k \in DOMAIN call'.reqs : call'.reqs[k].old # x
    BY <1>c, <2>2 DEF Idle
  <2>4. QED
    BY <2>1, <2>3 DEF Returned
<1>3. \A x \in Ops : Returned(x)' => Returned(x)
  <2> SUFFICES ASSUME NEW x \in Ops, Returned(x)' PROVE Returned(x)
    OBVIOUS
  <2>1. state'[x] = "released" /\ \A k \in DOMAIN call'.reqs : call'.reqs[k].old # x
    BY DEF Returned
  <2>2. \A k \in DOMAIN reqs : reqs[k].old # x
    BY <1>o, <1>c, <2>1
  <2>3. state[x] = "released"
    BY <1>t, <2>1, <2>2
  <2>4. \A k \in DOMAIN call.reqs : call.reqs[k].old # x
    BY <2>2 DEF Idle
  <2>5. QED
    BY <2>3, <2>4 DEF Returned
<1>4. OpsMayReturn
  BY <1>1, <1>2 DEF OpsMayReturn, InFlight
<1>5. ReceivesUnpacked
  BY <1>3 DEF ReceivesUnpacked, Ops
<1>6. RecordsMayGo
  <2> SUFFICES ASSUME NEW j \in DOMAIN g_outstanding_requests, NEW x \in Ops, KeptBy(x, j)'
               PROVE  KeptBy(x, j)
    BY DEF RecordsMayGo
  <2>1. PICK q \in ReqVars : q = g_outstanding_requests[j].mpi_req
    BY RecordFacts DEF TypeInv
  <2>2. RecordBuffer(j) = place[x]
    BY DEF KeptBy, RecordBuffer
  <2>3. request'[q] = x \/ \E k \in DOMAIN reqs : reqs[k].req = q /\ reqs[k].old = x
    BY <1>c, <2>1 DEF KeptBy, Idle
  <2>4. request[q] = x
    BY <1>o, <1>t, <1>e, <2>1, <2>3
  <2>5. QED
    BY <2>1, <2>2, <2>4 DEF KeptBy
<1>7. PhasesStay
  BY <1>1, <1>2, <1>3, SamePhase DEF PhasesStay
<1>8. QED
  BY <1>4, <1>5, <1>6, <1>7, TypesStay, DataKept

\* MPI_Wait after the PMPI call.
LEMMA WaitReturnRight ==
    ASSUME TypeInv, Inv, MatchInv, DataInv, WaitReturn
    PROVE  Inv' /\ DataInv' /\ \E op \in Ops : Returns(op)
<1>1. PICK r, op : r = call.reqs[1].req /\ op = call.reqs[1].old
  OBVIOUS
<1>2. /\ call.fn = "Wait" /\ call' = Idle
      /\ Release({r}) /\ request_free(r) /\ Done(r)
      /\ UNCHANGED <<tables, content, place, want>>
  BY <1>1 DEF WaitReturn
<1>3. /\ r \in ReqVars /\ op = request[r] /\ op # NULL
      /\ \A k \in DOMAIN call.reqs : call.reqs[k].old = op
  BY <1>1, <1>2 DEF MatchInv, InWait, DistinctEntries
<1>4. op \in Ops /\ state[op] = "complete"
  BY <1>2, <1>3 DEF Done, TypeInv, InterposerTypeOK
<1>t. /\ \A s \in ReqVars : request'[s] = IF s = r THEN NULL ELSE request[s]
      /\ \A x \in Ops : state'[x] = IF x = op THEN "released" ELSE state[x]
  BY <1>2, <1>3 DEF Release
<1>5. PICK i \in DOMAIN g_outstanding_requests :
           g_outstanding_requests[i].mpi_req = r /\ RecordBuffer(i) = place[op]
  BY <1>3 DEF MatchInv, RequestsRecorded, RecordFor
<1>6. KeptBy(op, i)
  BY <1>3, <1>5 DEF KeptBy
<1>7. /\ fault' = FALSE
      /\ \A x \in Ops : result'[x] = result[x] \/ (x \in Recvs /\ result'[x] = Own(x))
      /\ op \in Recvs => place[op] = NULL \/ result'[op] = Own(op)
  BY <1>2, <1>4, <1>5, <1>6, FreeRight
<1>8. \A x \in Ops : Returned(x)' <=> state'[x] = "released"
  BY <1>2 DEF Returned, Idle
<1>9. \A x \in Ops : x # op => (Returned(x) <=> state[x] = "released")
  BY <1>3 DEF Returned
<1>10. OpsMayReturn
  BY <1>2, <1>4, <1>t, <1>8, <1>9 DEF OpsMayReturn, InFlight
<1>11. ReceivesUnpacked
  BY <1>t, <1>7, <1>8, <1>9 DEF ReceivesUnpacked, Ops
<1>12. RecordsMayGo
  <2> SUFFICES ASSUME NEW j \in DOMAIN g_outstanding_requests', NEW x \in Ops, KeptBy(x, j)'
               PROVE  \E k \in DOMAIN g_outstanding_requests :
                         g_outstanding_requests'[j] = g_outstanding_requests[k] /\ KeptBy(x, k)
    BY DEF RecordsMayGo
  <2>1. PICK k \in DOMAIN g_outstanding_requests :
             /\ g_outstanding_requests'[j] = g_outstanding_requests[k]
             /\ g_outstanding_requests[k].mpi_req # r
    BY <1>2, EraseRecord DEF MatchInv
  <2>2. g_outstanding_requests[k].mpi_req \in ReqVars
    BY RecordFacts DEF TypeInv
  <2>3. /\ g_outstanding_requests'[j].tmpbuf = place[x]
        /\ request'[g_outstanding_requests'[j].mpi_req] = x
    BY <1>2 DEF KeptBy, RecordBuffer, Idle
  <2>4. KeptBy(x, k)
    BY <1>t, <2>1, <2>2, <2>3 DEF KeptBy, RecordBuffer
  <2>5. QED
    BY <2>1, <2>4
<1>13. DataInv'
  BY <1>2, <1>10, <1>11, <1>12, TypesStay, DataKept
<1>14. Returns(op)
  <2>1. Phase(op) = "arrived" /\ Phase(op)' = "returned"
    BY <1>4, <1>t, <1>8, PhaseCases, PhaseCasesNext DEF Returned
  <2>2. \A x \in Ops : x # op => Phase(x)' = Phase(x)
    BY <1>t, <1>8, <1>9, SamePhase
  <2>3. QED
    BY <1>2, <2>1, <2>2 DEF Returns, Moves
<1>15. QED
  BY <1>2, <1>4, <1>7, <1>13, <1>14, InvKept

\* One iteration of the loop of MPI_Waitall and MPI_Testall.
LEMMA LoopStepRight ==
    ASSUME TypeInv, Inv, MatchInv, DataInv, LoopStep
    PROVE  Inv' /\ DataInv' /\ (PhasesStay \/ \E op \in Ops : Returns(op))
<1>1. PICK reqs, rest, entry : reqs = call.reqs /\ rest = Tail(reqs) /\ entry = reqs[1]
  OBVIOUS
<1>2. /\ call.fn = "loop" /\ Iteration(Head(reqs)) /\ LoopOver(rest)
      /\ UNCHANGED <<tables, content, request, state, place, want>>
  BY <1>1 DEF LoopStep
<1>3. reqs \in Seq(CallEntry) /\ reqs # <<>>
  BY <1>1, <1>2 DEF TypeInv, InterposerTypeOK, CallShape, CallEntry
<1>4. /\ 1 \in DOMAIN reqs /\ Head(reqs) = entry
      /\ \A k \in DOMAIN rest : \E l \in DOMAIN reqs : rest[k] = reqs[l]
      /\ \A k \in DOMAIN reqs : k # 1 => \E l \in DOMAIN rest : rest[l] = reqs[k]
  BY <1>1, <1>3, TailEntries
<1>o. \A x \in Ops : x # NULL
  BY OpsAssumption
<1>c. \/ call' = Idle /\ \A k \in DOMAIN rest : rest[k].old = NULL
      \/ call'.fn = "loop" /\ call'.reqs = rest
  BY <1>2 DEF LoopOver
<1>r. /\ \A j \in DOMAIN g_outstanding_requests' :
            \E k \in DOMAIN g_outstanding_requests :
               g_outstanding_requests'[j] = g_outstanding_requests[k]
  BY <1>2, IterationRecords DEF MatchInv
<1>5. /\ fault' = FALSE
      /\ \A x \in Ops : result'[x] = result[x] \/ (x \in Recvs /\ result'[x] = Own(x))
      /\ entry.old \in Recvs => place[entry.old] = NULL \/ result'[entry.old] = Own(entry.old)
  <2>1. CASE entry.old = NULL
    <3>1. entry.old \notin Recvs
      BY <2>1, <1>o DEF Ops
    <3>2. UNCHANGED <<result, fault>> /\ fault = FALSE
      BY <1>2, <1>4, <2>1 DEF Iteration, Inv, LifoInv, TypeOK
    <3>3. QED
      BY <3>1, <3>2
  <2>2. CASE entry.old # NULL
    <3>1. PICK op \in Ops : op = entry.old
      BY <1>1, <1>4, <2>2, CallEntryFacts
    <3>2. state[op] = "released" /\ RecordFor(entry.req, place[op])
      BY <1>1, <1>2, <1>4, <2>2, <3>1 DEF MatchInv, InLoop
    <3>3. PICK i \in DOMAIN g_outstanding_requests :
               g_outstanding_requests[i].mpi_req = entry.req /\ RecordBuffer(i) = place[op]
      BY <3>2 DEF RecordFor
    <3>4. KeptBy(op, i)
      BY <1>1, <1>2, <1>4, <3>1, <3>3 DEF KeptBy
    <3>5. request_free(entry.req)
      BY <1>2, <1>4, <2>2 DEF Iteration
    <3>6. QED
      BY <3>1, <3>2, <3>3, <3>4, <3>5, FreeRight
  <2>3. QED
    BY <2>1, <2>2
<1>6. \A x \in Ops : Returned(x) => Returned(x)'
  <2> SUFFICES ASSUME NEW x \in Ops, Returned(x) PROVE Returned(x)'
    OBVIOUS
  <2>1. state[x] = "released" /\ \A k \in DOMAIN reqs : reqs[k].old # x
    BY <1>1 DEF Returned
  <2>2. \A k \in DOMAIN call'.reqs : call'.reqs[k].old # x
    BY <1>c, <1>4, <2>1 DEF Idle
  <2>3. QED
    BY <1>2, <2>1, <2>2 DEF Returned
<1>7. \A x \in Ops : Returned(x)' => Returned(x) \/ x = entry.old
  <2> SUFFICES ASSUME NEW x \in Ops, Returned(x)', x # entry.old PROVE Returned(x)
    OBVIOUS
  <2>1. state[x] = "released" /\ \A k \in DOMAIN call'.reqs : call'.reqs[k].old # x
    BY <1>2 DEF Returned
  <2>2. \A k \in DOMAIN rest : rest[k].old # x
    BY <1>o, <1>c, <2>1
  <2>3. \A k \in DOMAIN reqs : reqs[k].old # x
    BY <1>1, <1>4, <2>2
  <2>4. QED
    BY <1>1, <2>1, <2>3 DEF Returned
<1>8. OpsMayReturn
  BY <1>2, <1>6 DEF OpsMayReturn, InFlight
<1>9. ReceivesUnpacked
  BY <1>5, <1>7 DEF ReceivesUnpacked, Ops
<1>10. RecordsMayGo
  <2> SUFFICES ASSUME NEW j \in DOMAIN g_outstanding_requests', NEW x \in Ops, KeptBy(x, j)'
               PROVE  \E k \in DOMAIN g_outstanding_requests :
                         g_outstanding_requests'[j] = g_outstanding_requests[k] /\ KeptBy(x, k)
    BY DEF RecordsMayGo
  <2>1. PICK k \in DOMAIN g_outstanding_requests :
             g_outstanding_requests'[j] = g_outstanding_requests[k]
    BY <1>r
  <2>2. PICK q : q = g_outstanding_requests[k].mpi_req
    OBVIOUS
  <2>3. g_outstanding_requests[k].tmpbuf = place[x]
    BY <1>2, <2>1 DEF KeptBy, RecordBuffer
  <2>4. request[q] = x \/ \E l \in DOMAIN rest : rest[l].req = q /\ rest[l].old = x
    BY <1>2, <1>c, <2>1, <2>2 DEF KeptBy, Idle
  <2>5. request[q] = x \/ \E l \in DOMAIN reqs : reqs[l].req = q /\ reqs[l].old = x
    BY <1>4, <2>4
  <2>6. KeptBy(x, k)
    BY <1>1, <1>2, <2>2, <2>3, <2>5 DEF KeptBy, RecordBuffer
  <2>7. QED
    BY <2>1, <2>6
<1>11. DataInv'
  BY <1>2, <1>8, <1>9, <1>10, TypesStay, DataKept
<1>12. \A x \in Ops : x # entry.old => Phase(x)' = Phase(x)
  BY <1>2, <1>6, <1>7, SamePhase
<1>13. CASE entry.old = NULL
  <2>1. PhasesStay
    BY <1>2, <1>o, <1>12, <1>13 DEF PhasesStay
  <2>2. QED
    BY <1>2, <1>5, <1>11, <2>1, InvKept
<1>14. CASE entry.old # NULL
  <2>1. PICK op \in Ops : op = entry.old
    BY <1>1, <1>4, <1>14, CallEntryFacts
  <2>2. state[op] = "released" /\ state'[op] = "released" /\ ~Returned(op)
    BY <1>1, <1>2, <1>4, <1>14, <2>1 DEF MatchInv, InLoop, Returned
  <2>3. \A k \in DOMAIN rest : rest[k].old # op
    <3>1. \A k \in DOMAIN rest :
             k + 1 \in DOMAIN reqs /\ k + 1 # 1 /\ rest[k] = reqs[k + 1]
      BY <1>1, <1>3, TailEntries
    <3>2. \A l \in DOMAIN reqs : reqs[l].old = op => l = 1
      BY <1>1, <1>2, <1>4, <1>14, <2>1 DEF MatchInv, InLoop
    <3>3. QED
      BY <3>1, <3>2
  <2>4. Returned(op)'
    BY <1>c, <2>2, <2>3 DEF Returned, Idle
  <2>5. Phase(op) = "arrived" /\ Phase(op)' = "returned"
    BY <2>2, <2>4, PhaseCases, PhaseCasesNext
  <2>6. Returns(op)
    BY <1>2, <1>12, <2>1, <2>5 DEF Returns, Moves
  <2>7. QED
    BY <1>2, <1>5, <1>11, <2>6, InvKept
<1>15. QED
  BY <1>13, <1>14

\* MPI_Send and MPI_Recv after the PMPI call.
LEMMA BlockingReturnRight ==
    ASSUME TypeInv, Inv, MatchInv, CallsRight, DataInv, BlockingReturn
    PROVE  Inv' /\ DataInv' /\ \E op \in Ops : Returns(op)
<1>1. PICK op : op = call.reqs[1].old
  OBVIOUS
<1>2. /\ call.fn \in {"Send", "Recv"} /\ state[op] = "complete"
      /\ state' = [state EXCEPT ![op] = "released"]
      /\ call' = Idle
      /\ UNCHANGED <<tables, g_outstanding_requests, content, request, place, want>>
      /\ IF call.fn = "Recv"
         THEN /\ result' = [result EXCEPT ![op] = Unpacked(place[op], held[want[op]])]
              /\ fault' = (datatype_retrieve(held[want[op]]) \notin compiled)
         ELSE UNCHANGED <<result, fault>>
  BY <1>1 DEF BlockingReturn
<1>3. /\ op \in Ops /\ place[op] # NULL
      /\ \A k \in DOMAIN call.reqs : call.reqs[k].old = op
  BY <1>1, <1>2 DEF MatchInv, InBlocking, Blocking, TypeInv, CallShape
<1>t. /\ \A x \in Ops : state'[x] = IF x = op THEN "released" ELSE state[x]
      /\ result \in [Ops -> Data]
  BY <1>2 DEF TypeInv, InterposerTypeOK
<1>4. InFlight(op)
  BY <1>2, <1>3 DEF InFlight, Returned
<1>5. /\ fault' = FALSE
      /\ \A x \in Ops : result'[x] = result[x] \/ (x \in Recvs /\ result'[x] = Own(x))
      /\ op \in Recvs => result'[op] = Own(op)
  <2>1. CASE call.fn = "Recv"
    <3>1. op \in Recvs
      BY <1>1, <2>1 DEF CallsRight
    <3>2. want[op] \in Usable
      BY <1>4, <3>1 DEF DataInv, TypesKept
    <3>3. datatype_retrieve(held[want[op]]) = want[op] /\ want[op] \in compiled
      BY <3>2, UsableResolves
    <3>4. content[place[op]].data = op
      BY <1>2, <1>3, <1>4, <3>1 DEF DataInv, ContentsRight
    <3>5. Unpacked(place[op], held[want[op]]) = Own(op)
      BY <3>3, <3>4 DEF Unpacked, Own
    <3>6. QED
      BY <1>2, <1>3, <1>t, <2>1, <3>1, <3>3, <3>5
  <2>2. CASE call.fn = "Send"
    <3>1. op \notin Recvs
      BY <1>1, <2>2, OpsAssumption DEF CallsRight
    <3>2. UNCHANGED <<result, fault>> /\ fault = FALSE
      BY <1>2, <2>2 DEF Inv, LifoInv, TypeOK
    <3>3. QED
      BY <3>1, <3>2
  <2>3. QED
    BY <1>2, <2>1, <2>2
<1>8. \A x \in Ops : Returned(x)' <=> state'[x] = "released"
  BY <1>2 DEF Returned, Idle
<1>9. \A x \in Ops : x # op => (Returned(x) <=> state[x] = "released")
  BY <1>3 DEF Returned
<1>10. OpsMayReturn
  BY <1>2, <1>3, <1>t, <1>8, <1>9 DEF OpsMayReturn, InFlight
<1>11. ReceivesUnpacked
  BY <1>t, <1>5, <1>8, <1>9 DEF ReceivesUnpacked, Ops
<1>12. RecordsMayGo
  BY <1>2 DEF RecordsMayGo, KeptBy, RecordBuffer, Idle
<1>13. DataInv'
  BY <1>2, <1>10, <1>11, <1>12, TypesStay, DataKept
<1>14. Returns(op)
  <2>1. Phase(op) = "arrived" /\ Phase(op)' = "returned"
    BY <1>2, <1>3, <1>t, <1>8, PhaseCases, PhaseCasesNext DEF Returned
  <2>2. \A x \in Ops : x # op => Phase(x)' = Phase(x)
    BY <1>t, <1>8, <1>9, SamePhase
  <2>3. QED
    BY <1>2, <2>1, <2>2 DEF Returns, Moves
<1>15. QED
  BY <1>2, <1>3, <1>5, <1>13, <1>14, InvKept

LEMMA CompleteRight ==
    ASSUME Plain, TypeInv, Inv, MatchInv, DataInv, CompleteOperation
    PROVE  Inv' /\ DataInv' /\ PhasesStay
<1>f. fault = FALSE
  BY DEF Inv, LifoInv, TypeOK
<1>1. ASSUME NEW r \in ReqVars, WaitCall(r) PROVE Inv' /\ DataInv' /\ PhasesStay
  <2>1. PICK rs : rs = <<r>>
    OBVIOUS
  <2>2. rs \in [1 .. 1 -> ReqVars]
    BY <2>1
  <2>3. /\ call = Idle /\ call' = InCall("Wait", rs)
        /\ UNCHANGED <<tables, fault, g_outstanding_requests, content, request, state,
                       place, want, result>>
    BY <1>1, <2>1 DEF WaitCall, AppReady, hvars, tables
  <2>4. DataInv' /\ PhasesStay
    BY <2>2, <2>3, WaitCallRight
  <2>5. QED
    BY <1>f, <2>3, <2>4, InvKept
<1>2. ASSUME NEW rs \in Arrays, WaitallCall(rs) PROVE Inv' /\ DataInv' /\ PhasesStay
  <2>1. rs \in [1 .. 2 -> ReqVars]
    BY DEF Arrays
  <2>2. /\ call = Idle /\ call' = InCall("Waitall", rs)
        /\ UNCHANGED <<tables, fault, g_outstanding_requests, content, request, state,
                       place, want, result>>
    BY <1>2 DEF WaitallCall, AppReady, hvars, tables
  <2>3. DataInv' /\ PhasesStay
    BY <2>1, <2>2, WaitCallRight
  <2>4. QED
    BY <1>f, <2>2, <2>3, InvKept
<1>3. ASSUME NEW rs \in Arrays, Testall(rs) PROVE Inv' /\ DataInv' /\ PhasesStay
  <2>1. UNCHANGED <<tables, fault, g_outstanding_requests, content, place, want, result>>
    BY <1>3 DEF Testall, hvars, tables
  <2>2. CASE \A i \in DOMAIN rs : Done(rs[i])
    <3>1. PICK entries : entries = InCall("Testall", rs).reqs
      OBVIOUS
    <3>2. /\ call = Idle /\ Release({rs[i] : i \in DOMAIN rs}) /\ LoopOver(entries)
      BY <1>3, <2>2, <3>1 DEF Testall, AppReady
    <3>3. rs \in [1 .. 2 -> ReqVars] /\ \A i, j \in 1 .. 2 : rs[i] = rs[j] => i = j
      BY DEF Arrays
    <3>4. /\ DOMAIN entries = 1 .. 2 /\ DistinctEntries(entries)
          /\ \A k \in 1 .. 2 : entries[k].req = rs[k] /\ entries[k].old = request[rs[k]]
      BY <3>1, <3>3 DEF InCall, DistinctEntries
    <3>5. {entries[k].req : k \in DOMAIN entries} = {rs[i] : i \in DOMAIN rs}
      BY <3>3, <3>4
    <3>6. \A k \in DOMAIN entries :
             entries[k].old = request[entries[k].req] /\ Done(entries[k].req)
      BY <2>2, <3>3, <3>4
    <3>7. Release({entries[k].req : k \in DOMAIN entries})
      BY <3>2, <3>5
    <3>8. DataInv' /\ PhasesStay
      BY <2>1, <3>2, <3>4, <3>6, <3>7, ReleaseRight
    <3>9. QED
      BY <1>f, <2>1, <3>8, InvKept
  <2>3. CASE ~ \A i \in DOMAIN rs : Done(rs[i])
    <3>1. UNCHANGED <<state, request, call>>
      BY <1>3, <2>3 DEF Testall
    <3>2. OpsMayReturn /\ RecordsMayGo /\ ReceivesUnpacked
      BY <2>1, <3>1 DEF OpsMayReturn, RecordsMayGo, ReceivesUnpacked, InFlight, Returned,
                        KeptBy, RecordBuffer
    <3>3. DataInv'
      BY <2>1, <3>2, TypesStay, DataKept
    <3>4. PhasesStay
      BY <2>1, <3>1, PhasesKept
    <3>5. QED
      BY <1>f, <2>1, <3>3, <3>4, InvKept
  <2>4. QED
    BY <2>2, <2>3
<1>4. ASSUME NEW r, Test(r) \/ Waitany(r) PROVE FALSE
  BY <1>4 DEF Test, Waitany, Plain
<1>5. QED
  BY <1>1, <1>2, <1>3, <1>4 DEF CompleteOperation

LEMMA ReturnRight ==
    ASSUME TypeInv, Inv, MatchInv, CallsRight, DataInv, CallReturn
    PROVE  Inv' /\ DataInv' /\ (PhasesStay \/ \E op \in Ops : Returns(op))
<1>1. CASE WaitallReturn
  <2>1. PICK reqs : reqs = call.reqs
    OBVIOUS
  <2>2. /\ call.fn = "Waitall"
        /\ \A r \in {reqs[k].req : k \in DOMAIN reqs} : Done(r)
        /\ Release({reqs[k].req : k \in DOMAIN reqs}) /\ LoopOver(reqs)
        /\ UNCHANGED <<tables, fault, g_outstanding_requests, content, place, want, result>>
    BY <1>1, <2>1 DEF WaitallReturn, hvars, tables
  <2>3. /\ DistinctEntries(reqs)
        /\ \A k \in DOMAIN reqs : reqs[k].old = request[reqs[k].req]
        /\ \A k \in DOMAIN reqs : Done(reqs[k].req)
    BY <2>1, <2>2 DEF MatchInv, InWait
  <2>4. DataInv' /\ PhasesStay
    BY <2>1, <2>2, <2>3, ReleaseRight
  <2>5. fault = FALSE
    BY DEF Inv, LifoInv, TypeOK
  <2>6. QED
    BY <2>2, <2>4, <2>5, InvKept
<1>2. QED
  BY <1>1, BlockingReturnRight, WaitReturnRight, LoopStepRight DEF CallReturn

LEMMA InitRight == Init => Inv /\ DataInv
<1> SUFFICES ASSUME Init PROVE Inv /\ DataInv
  OBVIOUS
<1>1. Inv
  BY InitTypeOK, InitSlotInv, InitLifoInv DEF Init, Inv
<1>2. /\ DOMAIN g_outstanding_requests = {}
      /\ \A op \in Ops : state[op] = "idle"
  BY DEF Init
<1>3. \A op \in Ops : ~InFlight(op) /\ ~Returned(op)
  BY <1>2 DEF InFlight, Returned
<1>4. DataInv
  BY <1>2, <1>3 DEF DataInv, TypesKept, RecordsRight, ContentsRight, PrimitivesRight,
                    SendsRight, ReceivesRight, Ops
<1>5. QED
  BY <1>1, <1>4

LEMMA DataInvariant ==
    ASSUME Plain
    PROVE  Spec => [](TypeInv /\ Inv /\ MatchInv /\ DataInv)
<1>1. CompletesProperly
  BY DEF Plain, CompletesProperly
<1>2. /\ TypeInv /\ OwnInv /\ MatchInv /\ CallsRight
      /\ Inv /\ DataInv /\ [Next]_vars
      => Inv' /\ DataInv'
  <2> SUFFICES ASSUME TypeInv, OwnInv, MatchInv, CallsRight, Inv, DataInv, [Next]_vars
               PROVE  Inv' /\ DataInv'
    OBVIOUS
  <2>f. fault = FALSE
    BY DEF Inv, LifoInv, TypeOK
  <2>1. ASSUME NEW op \in Ops, Transfer(op) PROVE Inv' /\ DataInv'
    <3>1. UNCHANGED <<tables, fault>>
      BY <2>1 DEF Transfer, hvars, tables
    <3>2. QED
      BY <2>f, <2>1, <3>1, InvKept, DataMoved
  <2>2. ASSUME NEW r, NEW s, CopyRequest(r, s) PROVE FALSE
    BY <2>2 DEF CopyRequest, Plain
  <2>3. CASE UNCHANGED vars
    <3>1. UNCHANGED <<tables, fault, content, place, want>>
      BY <2>3 DEF vars, hvars, ivars, tables
    <3>2. OpsMayReturn /\ RecordsMayGo /\ ReceivesUnpacked
      BY <2>3 DEF vars, ivars, OpsMayReturn, RecordsMayGo, ReceivesUnpacked, InFlight, Returned,
                  KeptBy, RecordBuffer
    <3>3. DataInv'
      BY <3>1, <3>2, TypesStay, DataKept
    <3>4. QED
      BY <2>f, <3>1, <3>3, InvKept
  <2>4. QED
    BY <2>1, <2>2, <2>3, TypeCallRight, StartRight, CompleteRight, ReturnRight DEF Next
<1>3. QED
  BY <1>1, <1>2, InitRight, TypesInvariant, OwnershipInvariant, MatchInvariant, CallsInvariant,
     PTL DEF Spec

\* Without the habits, and with types beyond the fast slots freed newest first,
\* the wrapper never uses an object that is gone or not compiled, in a receive
\* that completes included.
THEOREM CommunicationNeverFaults ==
    ASSUME Plain
    PROVE  Spec => []NoFault
<1>1. Inv => NoFault
  BY DEF Inv, LifoInv, NoFault
<1>2. QED
  BY <1>1, DataInvariant, PTL

\* Every send puts its own data on the wire, packed with its own type, whatever
\* the other operations and the datatype calls do between the call and the
\* transfer.
THEOREM SendsAlwaysRight ==
    ASSUME Plain
    PROVE  Spec => []SendsRight
<1>1. DataInv => SendsRight
  BY DEF DataInv
<1>2. QED
  BY <1>1, DataInvariant, PTL

\* Every receive that MPI_Recv, Wait, Waitall or Testall reports complete has its
\* own data in the user's buffer, unpacked with the type it was posted with.
THEOREM ReceivesAlwaysRight ==
    ASSUME Plain
    PROVE  Spec => []ReceivesRight
<1>1. DataInv => ReceivesRight
  BY DEF DataInv
<1>2. QED
  BY <1>1, DataInvariant, PTL

-----------------------------------------------------------------------------
(* Such an application sees what NonblockingComm promises *)

Starts(op) ==
    /\ \E t \in Objects \cup {NULL} : want' = [want EXCEPT ![op] = t]
    /\ Moves(op, "idle", "pending")

Arrives(op) == want' = want /\ Moves(op, "pending", "arrived")

CommStep == PhasesStay \/ \E op \in Ops : Starts(op) \/ Arrives(op) \/ Returns(op)

LEMMA StartMoves ==
    ASSUME TypeInv, NEW op \in Ops, NEW t \in Objects \cup {NULL},
           state[op] = "idle",
           state' = [state EXCEPT ![op] = "active"],
           want' = [want EXCEPT ![op] = t],
           call = Idle,
           call' = Idle \/ (DOMAIN call'.reqs = {1} /\ call'.reqs[1].old = op)
    PROVE  Starts(op)
<1>t. \A x \in Ops : state'[x] = IF x = op THEN "active" ELSE state[x]
  BY DEF TypeInv, InterposerTypeOK
<1>1. \A x \in Ops : x # op => (Returned(x)' <=> Returned(x))
  BY <1>t DEF Returned, Idle
<1>2. \A x \in Ops : x # op => Phase(x)' = Phase(x)
  BY <1>t, <1>1, SamePhase
<1>3. Phase(op) = "idle" /\ Phase(op)' = "pending"
  BY <1>t, PhaseCases, PhaseCasesNext
<1>4. QED
  BY <1>2, <1>3 DEF Starts, Moves

LEMMA StartStep ==
    ASSUME TypeInv, StartOperation
    PROVE  CommStep
<1>u. ASSUME NEW t \in Usable PROVE t \in Objects \cup {NULL}
  BY DEF Usable, HeldTypes
<1>1. ASSUME NEW op \in Ops, NEW r, PostPrimitive(op, r) PROVE Starts(op)
  <2>1. /\ state[op] = "idle" /\ call = Idle /\ call' = Idle
        /\ state' = [state EXCEPT ![op] = "active"]
        /\ want' = [want EXCEPT ![op] = NULL]
    BY <1>1 DEF PostPrimitive, Posted, AppReady
  <2>2. QED
    BY <2>1, StartMoves
<1>2. ASSUME NEW op \in Ops, NEW r, NEW b, NEW t, NEW u,
             Isend(op, r, b, t) \/ Irecv(op, r, b, t, u)
      PROVE  Starts(op)
  <2>1. /\ state[op] = "idle" /\ call = Idle /\ call' = Idle /\ t \in Usable
        /\ state' = [state EXCEPT ![op] = "active"]
        /\ want' = [want EXCEPT ![op] = t]
    BY <1>2 DEF Isend, Irecv, Posted, AppReady
  <2>2. QED
    BY <1>u, <2>1, StartMoves
<1>3. ASSUME NEW op \in Ops, NEW b, NEW t, SendCall(op, b, t) \/ RecvCall(op, b, t)
      PROVE  Starts(op)
  <2>1. /\ state[op] = "idle" /\ call = Idle /\ t \in Usable
        /\ state' = [state EXCEPT ![op] = "active"]
        /\ want' = [want EXCEPT ![op] = t]
        /\ DOMAIN call'.reqs = {1} /\ call'.reqs[1].old = op
    BY <1>3 DEF SendCall, RecvCall, Blocked, AppReady
  <2>2. QED
    BY <1>u, <2>1, StartMoves
<1>4. QED
  BY <1>1, <1>2, <1>3 DEF StartOperation, CommStep

LEMMA TransferArrives ==
    ASSUME TypeInv, NEW op \in Ops, Transfer(op)
    PROVE  Arrives(op)
<1>1. /\ state[op] = "active" /\ UNCHANGED <<want, call>>
      /\ \A x \in Ops : state'[x] = IF x = op THEN "complete" ELSE state[x]
  BY DEF Transfer, TypeInv, InterposerTypeOK
<1>2. \A x \in Ops : x # op => Phase(x)' = Phase(x)
  BY <1>1, SamePhase DEF Returned
<1>3. Phase(op) = "pending" /\ Phase(op)' = "arrived"
  BY <1>1, PhaseCases, PhaseCasesNext DEF Returned
<1>4. QED
  BY <1>1, <1>2, <1>3 DEF Arrives, Moves

LEMMA NextCommStep ==
    ASSUME Plain, TypeInv, OwnInv, MatchInv, CallsRight, Inv, DataInv, [Next]_vars
    PROVE  CommStep
<1>1. CASE TypeCall
  BY <1>1, PhasesKept DEF TypeCall, ivars, CommStep
<1>2. ASSUME NEW r, NEW s, CopyRequest(r, s) PROVE FALSE
  BY <1>2 DEF CopyRequest, Plain
<1>3. CASE UNCHANGED vars
  BY <1>3, PhasesKept DEF vars, ivars, CommStep
<1>4. CASE CompleteOperation \/ CallReturn
  BY <1>4, CompleteRight, ReturnRight DEF CommStep
<1>5. ASSUME NEW op \in Ops, Transfer(op) PROVE CommStep
  BY <1>5, TransferArrives DEF CommStep
<1>6. QED
  BY <1>1, <1>2, <1>3, <1>4, <1>5, StartStep DEF Next

\* What the program has seen of an operation follows from its phase.
phases == [op \in Ops |-> Phase(op)]
sights == [op \in Ops |-> IF Returned(op) THEN result[op] ELSE Garbage]

SightsRight ==
    sights = [op \in Ops |-> IF Phase(op) = "returned" THEN Own(op) ELSE Garbage]

LEMMA SightsByPhase ==
    ASSUME TypeInv, DataInv
    PROVE  SightsRight
<1>1. ASSUME NEW op \in Ops
      PROVE  (IF Returned(op) THEN result[op] ELSE Garbage)
                = IF Phase(op) = "returned" THEN Own(op) ELSE Garbage
  <2>1. CASE Returned(op)
    <3>1. result[op] = Own(op)
      BY <2>1 DEF DataInv, SendsRight, ReceivesRight, Returned, Own, Ops
    <3>2. QED
      BY <2>1, <3>1, PhaseCases
  <2>2. CASE ~Returned(op)
    <3>1. state[op] \in {"idle", "active", "complete", "released"}
      BY DEF TypeInv, InterposerTypeOK
    <3>2. Phase(op) # "returned"
      BY <2>2, <3>1, PhaseCases
    <3>3. QED
      BY <2>2, <3>2
  <2>3. QED
    BY <2>1, <2>2
<1>2. QED
  BY <1>1 DEF sights, SightsRight

LEMMA StartImplements ==
    ASSUME SightsRight, SightsRight', NEW op \in Ops, Starts(op)
    PROVE  Comm!Start(op)
<1>1. phases[op] = "idle" /\ phases' = [phases EXCEPT ![op] = "pending"]
  BY DEF Starts, Moves, phases
<1>2. \E t \in Objects \cup {NULL} : want' = [want EXCEPT ![op] = t]
  BY DEF Starts
<1>3. sights' = sights
  <2>1. PICK t : want' = [want EXCEPT ![op] = t]
    BY <1>2
  <2>2. \A x \in Ops : (IF Phase(x)' = "returned" THEN [data |-> x, as |-> want'[x]] ELSE Garbage)
                          = IF Phase(x) = "returned" THEN [data |-> x, as |-> want[x]] ELSE Garbage
    BY <2>1 DEF Starts, Moves
  <2>3. QED
    BY <2>2 DEF SightsRight, Own
<1>4. QED
  BY <1>1, <1>2, <1>3 DEF Comm!Start, phases, sights

LEMMA ArriveImplements ==
    ASSUME SightsRight, SightsRight', NEW op \in Ops, Arrives(op)
    PROVE  Comm!Arrive(op)
<1>1. phases[op] = "pending" /\ phases' = [phases EXCEPT ![op] = "arrived"] /\ want' = want
  BY DEF Arrives, Moves, phases
<1>2. sights' = sights
  <2>1. \A x \in Ops : (IF Phase(x)' = "returned" THEN [data |-> x, as |-> want'[x]] ELSE Garbage)
                          = IF Phase(x) = "returned" THEN [data |-> x, as |-> want[x]] ELSE Garbage
    BY DEF Arrives, Moves
  <2>2. QED
    BY <2>1 DEF SightsRight, Own
<1>3. QED
  BY <1>1, <1>2 DEF Comm!Arrive, phases, sights

LEMMA ReturnImplements ==
    ASSUME SightsRight, SightsRight', NEW op \in Ops, Returns(op)
    PROVE  Comm!Return(op)
<1>1. phases[op] = "arrived" /\ phases' = [phases EXCEPT ![op] = "returned"] /\ want' = want
  BY DEF Returns, Moves, phases
<1>2. sights' = [sights EXCEPT ![op] = [data |-> op, as |-> want[op]]]
  <2>1. \A x \in Ops :
           (IF Phase(x)' = "returned" THEN [data |-> x, as |-> want'[x]] ELSE Garbage)
              = IF x = op THEN [data |-> op, as |-> want[op]]
                ELSE IF Phase(x) = "returned" THEN [data |-> x, as |-> want[x]] ELSE Garbage
    BY DEF Returns, Moves
  <2>2. QED
    BY <2>1 DEF SightsRight, Own
<1>3. QED
  BY <1>1, <1>2 DEF Comm!Return, phases, sights

LEMMA StayImplements ==
    ASSUME SightsRight, SightsRight', PhasesStay
    PROVE  UNCHANGED <<phases, want, sights>>
<1>1. phases' = phases /\ want' = want
  BY DEF PhasesStay, phases
<1>2. \A x \in Ops : (IF Phase(x)' = "returned" THEN [data |-> x, as |-> want'[x]] ELSE Garbage)
                        = IF Phase(x) = "returned" THEN [data |-> x, as |-> want[x]] ELSE Garbage
  BY DEF PhasesStay
<1>3. sights' = sights
  BY <1>2 DEF SightsRight, Own
<1>4. QED
  BY <1>1, <1>3

\* The wrapper implements NonblockingComm: each step of the application, the
\* wrapper or the MPI library starts, delivers or returns one operation, with
\* its own data and type, or is none of the program's concern.
THEOREM CommunicationImplemented ==
    ASSUME Plain
    PROVE  Spec => ImplementsComm
<1>1. Init => Comm!Init
  <2> SUFFICES ASSUME Init PROVE Comm!Init
    OBVIOUS
  <2>1. /\ state = [op \in Ops |-> "idle"]
        /\ want = [op \in Ops |-> NULL]
    BY DEF Init
  <2>2. \A op \in Ops : Phase(op) = "idle" /\ ~Returned(op)
    BY <2>1, PhaseCases DEF Returned
  <2>3. QED
    BY <2>1, <2>2 DEF Comm!Init
<1>2. /\ TypeInv /\ OwnInv /\ MatchInv /\ CallsRight /\ Inv /\ DataInv
      /\ SightsRight /\ SightsRight' /\ [Next]_vars
      => [Comm!Next]_<<phases, want, sights>>
  BY NextCommStep, StartImplements, ArriveImplements, ReturnImplements, StayImplements
  DEF CommStep, Comm!Next
<1>3. TypeInv /\ DataInv => SightsRight
  BY SightsByPhase
<1>4. QED
  BY <1>1, <1>2, <1>3, DataInvariant, OwnershipInvariant, CallsInvariant, PTL
  DEF Spec, ImplementsComm, Comm!Spec, phases, sights
=============================================================================
