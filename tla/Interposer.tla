----------------------------- MODULE Interposer -----------------------------
(***************************************************************************)
(* Point-to-point communication through the MPI wrapper (interposer.c and  *)
(* the request bookkeeping of interposer_common.cpp): data of a derived    *)
(* type travels packed, in a temporary buffer the wrapper owns from the    *)
(* call that starts an operation to the call that completes it.            *)
(*                                                                         *)
(* Three parties take steps: the application, which is single threaded;    *)
(* the wrapper, inside the application's calls; and the MPI library below  *)
(* it, which moves data at any time.  A blocking call is two steps, so     *)
(* that data moves while the application is blocked.                       *)
(*                                                                         *)
(* Packed data is the operation it belongs to and the Datatype object that *)
(* packed or unpacked it.  Calls with a primitive type pass the user's own *)
(* buffer on; MPI_Send and MPI_Recv then leave no trace in the wrapper.    *)
(***************************************************************************)
EXTENDS DatatypeHandles, SequencesExt

CONSTANTS Sends, Recvs,  \* the operations the application performs
          ReqVars,       \* addresses of its MPI_Request variables
          TmpBufs,       \* addresses malloc can return
          Scratch,       \* the address of the static scratch buffer
          Habits         \* what the application does besides Wait, Waitall, Testall

Ops == Sends \cup Recvs
Buffers == TmpBufs \cup {Scratch}

\* MPI allows each of these habits:
\*   "test"      completing a request with MPI_Test
\*   "waitany"   completing a request with a call the wrapper does not have
\*               (MPI_Waitany, Waitsome, Testany, Testsome)
\*   "copy"      moving a request to another variable before completing it
\*   "bottom"    receiving at address NULL (MPI_BOTTOM)
\*   "typefree"  freeing a datatype while a receive with it is pending
AllHabits == {"test", "waitany", "copy", "bottom", "typefree"}

ASSUME OpsAssumption == Sends \cap Recvs = {} /\ NULL \notin Ops
ASSUME BuffersAssumption ==
    Scratch \notin TmpBufs /\ NULL \notin Buffers /\ NULL \notin ReqVars
ASSUME HabitsAssumption == Habits \subseteq AllHabits

VARIABLES g_outstanding_requests,  \* the wrapper's list of struct Request
          scratch_in_use,
          malloced,   \* the malloc'ed temporary buffers not freed yet
          content,    \* buffer -> the packed data in it
          request,    \* the application's MPI_Request variables
          state,      \* operation -> how far the MPI library is with it
          place,      \* operation -> the buffer given to the MPI library
          want,       \* operation -> the type the application started it with
          result,     \* operation -> its data: of a receive, in the user's
                      \* buffer; of a send, on the wire
          call        \* the call the application is in

ivars == <<g_outstanding_requests, scratch_in_use, malloced, content, request,
           state, place, want, result, call>>
vars == <<hvars, ivars>>

\* NULL as a request is MPI_REQUEST_NULL; as a place, the user's own buffer.
Data == [data : Ops \cup {NULL}, as : Objects \cup {NULL}]
Garbage == [data |-> NULL, as |-> NULL]

\* A call in progress: the function, and the array of requests it works on.
\* old is the request's value on entry (oldrequests of Waitall and Testall).
Idle == [fn |-> "none", reqs |-> <<>>]
InCall(fn, rs) ==
    [fn |-> fn, reqs |-> [i \in DOMAIN rs |-> [req |-> rs[i], old |-> request[rs[i]]]]]

\* The application may rely on an operation once the call that completes it
\* has dealt with it.
Returned(op) ==
    /\ state[op] = "released"
    /\ \A i \in DOMAIN call.reqs : call.reqs[i].old # op

-----------------------------------------------------------------------------
(* Buffers and records *)

\* A mistake the runs must reject: scratch is given out while it is in use.
buffer_alloc_Unchecked(b) ==
    \/ b = Scratch /\ scratch_in_use' = TRUE /\ malloced' = malloced
    \/ /\ b \in TmpBufs \ malloced
       /\ malloced' = malloced \cup {b}
       /\ scratch_in_use' = scratch_in_use

\* interposer_buffer_alloc: the scratch buffer if it is free and the message
\* fits, else malloc.  Either buffer is possible when scratch is free: the size
\* of a message is left open.
buffer_alloc(b) ==
    \/ /\ b = Scratch
       /\ ~scratch_in_use
       /\ scratch_in_use' = TRUE
       /\ malloced' = malloced
    \/ /\ b \in TmpBufs \ malloced
       /\ malloced' = malloced \cup {b}
       /\ scratch_in_use' = scratch_in_use

\* interposer_buffer_free, which marks the scratch buffer used, not free.
buffer_free(b) ==
    IF b # Scratch
    THEN malloced' = malloced \ {b} /\ scratch_in_use' = scratch_in_use
    ELSE scratch_in_use' = TRUE /\ malloced' = malloced

\* interposer_request_register; with LAZY 0 it compiles nothing.
request_register(tmpbuf, usrbuf, datatype, r) ==
    g_outstanding_requests' =
        Append(g_outstanding_requests,
               [mpi_req |-> r, tmpbuf |-> tmpbuf, usrbuf |-> usrbuf,
                datatype |-> datatype])

is_recv(req) == req.usrbuf # NULL

\* DDT_Unpack of buffer b into the user's buffer of op, with the type the
\* handle resolves to now.
Unpacked(b, h) == [data |-> content[b].data, as |-> datatype_retrieve(h)]

\* The temporary buffer of a completed request: unpacked for a receive, freed.
Cleanup(req) ==
    /\ buffer_free(req.tmpbuf)
    /\ IF is_recv(req)
       THEN /\ result' = [result EXCEPT ![req.usrbuf] = Unpacked(req.tmpbuf, req.datatype)]
            /\ fault' = (datatype_retrieve(req.datatype) \notin compiled)
       ELSE UNCHANGED <<result, fault>>

\* Three mistakes: a record without a buffer is not erased; no record is erased;
\* the buffer of a send is not freed.
request_free_Mistaken(r, erases(_), frees(_)) ==
    LET i == SelectInSeq(g_outstanding_requests, LAMBDA q : q.mpi_req = r)
        req == g_outstanding_requests[i]
    IN  /\ g_outstanding_requests' =
              IF i # 0 /\ erases(req)
              THEN RemoveAt(g_outstanding_requests, i)
              ELSE g_outstanding_requests
        /\ IF i = 0 \/ req.tmpbuf = NULL \/ ~frees(req)
           THEN UNCHANGED <<scratch_in_use, malloced, result, fault>>
           ELSE Cleanup(req)

request_free_KeepsBufferless(r) ==
    request_free_Mistaken(r, LAMBDA q : q.tmpbuf # NULL, LAMBDA q : TRUE)
request_free_KeepsRecord(r) ==
    request_free_Mistaken(r, LAMBDA q : FALSE, LAMBDA q : TRUE)
request_free_LeaksSends(r) ==
    request_free_Mistaken(r, LAMBDA q : TRUE, is_recv)

\* interposer_request_free: the first record with this address is unpacked if
\* it is a receive, its buffer is freed, and it is dropped.
request_free(r) ==
    LET i == SelectInSeq(g_outstanding_requests, LAMBDA q : q.mpi_req = r)
        req == g_outstanding_requests[i]
    IN  IF i = 0
        THEN UNCHANGED <<g_outstanding_requests, scratch_in_use, malloced, result, fault>>
        ELSE /\ g_outstanding_requests' = RemoveAt(g_outstanding_requests, i)
             /\ IF req.tmpbuf = NULL
                THEN UNCHANGED <<scratch_in_use, malloced, result, fault>>
                ELSE Cleanup(req)

-----------------------------------------------------------------------------
(* Starting an operation *)

AppReady == ~fault /\ call = Idle

\* The application communicates with types it holds and has committed.
Usable == HeldTypes \cap committed

tables == <<g_types, g_types_freelist, g_types_fallback, heap, compiled, held, committed>>

\* PMPI_Isend and PMPI_Irecv on request variable r
Posted(op, r, b, t) ==
    /\ state' = [state EXCEPT ![op] = "active"]
    /\ place' = [place EXCEPT ![op] = b]
    /\ want' = [want EXCEPT ![op] = t]
    /\ request' = [request EXCEPT ![r] = op]

\* interposer_pack: a buffer, filled by the code of the type the handle names
Packed(op, b, h) ==
    /\ buffer_alloc(b)
    /\ content' = [content EXCEPT ![b] = [data |-> op, as |-> datatype_retrieve(h)]]
    /\ fault' = (datatype_retrieve(h) \notin compiled)

\* A mistake: a send is registered with the user's buffer, as a receive is.
IsendRegistersUsrbuf(op, r, b, t) ==
    /\ AppReady
    /\ state[op] = "idle" /\ request[r] = NULL /\ t \in Usable
    /\ Packed(op, b, held[t])
    /\ Posted(op, r, b, t)
    /\ request_register(b, op, held[t], r)
    /\ UNCHANGED <<tables, result, call>>

Isend(op, r, b, t) ==
    /\ AppReady
    /\ state[op] = "idle" /\ request[r] = NULL /\ t \in Usable
    /\ Packed(op, b, held[t])
    /\ Posted(op, r, b, t)
    /\ request_register(b, NULL, 0, r)
    /\ UNCHANGED <<tables, result, call>>

\* usrbuf is the user's buffer of op, or NULL for MPI_BOTTOM.
Irecv(op, r, b, t, usrbuf) ==
    /\ AppReady
    /\ state[op] = "idle" /\ request[r] = NULL /\ t \in Usable
    /\ buffer_alloc(b)
    /\ fault' = (datatype_retrieve(held[t]) \notin heap)
    /\ Posted(op, r, b, t)
    /\ request_register(b, usrbuf, held[t], r)
    /\ UNCHANGED <<tables, content, result, call>>

\* MPI_Isend and MPI_Irecv with a primitive type
PostPrimitive(op, r) ==
    /\ AppReady
    /\ state[op] = "idle" /\ request[r] = NULL
    /\ Posted(op, r, NULL, NULL)
    /\ request_register(NULL, NULL, 0, r)
    /\ UNCHANGED <<hvars, scratch_in_use, malloced, content, result, call>>

\* MPI_Send and MPI_Recv up to the blocking PMPI call
Blocked(fn, op, b, t) ==
    /\ state' = [state EXCEPT ![op] = "active"]
    /\ place' = [place EXCEPT ![op] = b]
    /\ want' = [want EXCEPT ![op] = t]
    /\ call' = [fn |-> fn, reqs |-> <<[req |-> NULL, old |-> op]>>]

SendCall(op, b, t) ==
    /\ AppReady
    /\ state[op] = "idle" /\ t \in Usable
    /\ Packed(op, b, held[t])
    /\ Blocked("Send", op, b, t)
    /\ UNCHANGED <<tables, g_outstanding_requests, request, result>>

RecvCall(op, b, t) ==
    /\ AppReady
    /\ state[op] = "idle" /\ t \in Usable
    /\ buffer_alloc(b)
    /\ fault' = (datatype_retrieve(held[t]) \notin heap)
    /\ Blocked("Recv", op, b, t)
    /\ UNCHANGED <<tables, g_outstanding_requests, content, request, result>>

-----------------------------------------------------------------------------
(* The MPI library moves data *)

\* The data of a receive lands in the buffer it was posted with, whatever has
\* become of that buffer; a send's data is read from it.
Transfer(op) ==
    /\ state[op] = "active"
    /\ state' = [state EXCEPT ![op] = "complete"]
    /\ \/ /\ op \in Sends /\ place[op] # NULL
          /\ result' = [result EXCEPT ![op] = content[place[op]]]
          /\ UNCHANGED content
       \/ /\ op \in Recvs /\ place[op] # NULL
          /\ content' = [content EXCEPT ![place[op]] = [data |-> op, as |-> NULL]]
          /\ UNCHANGED result
       \/ /\ place[op] = NULL
          /\ result' = [result EXCEPT ![op] = [data |-> op, as |-> NULL]]
          /\ UNCHANGED content
    /\ UNCHANGED <<hvars, g_outstanding_requests, scratch_in_use, malloced,
                   request, place, want, call>>

-----------------------------------------------------------------------------
(* Completing an operation *)

\* PMPI releases the operations of a set of request variables.
Release(rs) ==
    /\ state' = [op \in Ops |->
                    IF \E r \in rs : request[r] = op THEN "released" ELSE state[op]]
    /\ request' = [r \in ReqVars |-> IF r \in rs THEN NULL ELSE request[r]]

Done(r) == request[r] # NULL => state[request[r]] = "complete"

\* MPI_Send and MPI_Recv after the PMPI call: unpack a receive, free the buffer.
BlockingReturn ==
    LET op == call.reqs[1].old
    IN  /\ ~fault
        /\ call.fn \in {"Send", "Recv"}
        /\ state[op] = "complete"
        /\ state' = [state EXCEPT ![op] = "released"]
        /\ IF call.fn = "Recv"
           THEN /\ result' = [result EXCEPT ![op] = Unpacked(place[op], held[want[op]])]
                /\ fault' = (datatype_retrieve(held[want[op]]) \notin compiled)
           ELSE UNCHANGED <<result, fault>>
        /\ buffer_free(place[op])
        /\ call' = Idle
        /\ UNCHANGED <<tables, g_outstanding_requests, content, request, place, want>>

\* A mistake: the record is dropped before PMPI_Wait.
WaitCallFreesFirst(r) ==
    /\ AppReady
    /\ request[r] # NULL
    /\ request_free(r)
    /\ call' = InCall("Wait", <<r>>)
    /\ UNCHANGED <<tables, content, request, state, place, want>>

\* MPI_Wait blocks in PMPI_Wait, then drops the record.  On MPI_REQUEST_NULL
\* it returns at once and changes nothing.
WaitCall(r) ==
    /\ AppReady
    /\ request[r] # NULL
    /\ call' = InCall("Wait", <<r>>)
    /\ UNCHANGED <<hvars, g_outstanding_requests, scratch_in_use, malloced, content,
                   request, state, place, want, result>>

WaitReturn ==
    LET r == call.reqs[1].req
    IN  /\ ~fault
        /\ call.fn = "Wait"
        /\ Done(r)
        /\ Release({r})
        /\ request_free(r)
        /\ call' = Idle
        /\ UNCHANGED <<tables, content, place, want>>

\* The loop of MPI_Waitall and MPI_Testall over the array after the PMPI call, one
\* step per iteration, as long as an iteration is left that has something to do.
LoopOver(reqs) ==
    call' = IF \E i \in DOMAIN reqs : reqs[i].old # NULL
            THEN [fn |-> "loop", reqs |-> reqs]
            ELSE Idle

\* One iteration: a request that was not MPI_REQUEST_NULL before the PMPI call.
Iteration(entry) ==
    IF entry.old # NULL
    THEN request_free(entry.req)
    ELSE UNCHANGED <<g_outstanding_requests, scratch_in_use, malloced, result, fault>>

WaitallCall(rs) ==
    /\ AppReady
    /\ call' = InCall("Waitall", rs)
    /\ UNCHANGED <<hvars, g_outstanding_requests, scratch_in_use, malloced, content,
                   request, state, place, want, result>>

WaitallReturn ==
    LET rs == {call.reqs[i].req : i \in DOMAIN call.reqs}
    IN  /\ ~fault
        /\ call.fn = "Waitall"
        /\ \A r \in rs : Done(r)
        /\ Release(rs)
        /\ LoopOver(call.reqs)
        /\ UNCHANGED <<hvars, g_outstanding_requests, scratch_in_use, malloced, content,
                       place, want, result>>

\* A mistake: the loop does not advance.
LoopStepStays ==
    /\ ~fault
    /\ call.fn = "loop"
    /\ Iteration(Head(call.reqs))
    /\ UNCHANGED <<tables, content, request, state, place, want, call>>

LoopStep ==
    /\ ~fault
    /\ call.fn = "loop"
    /\ Iteration(Head(call.reqs))
    /\ LoopOver(Tail(call.reqs))
    /\ UNCHANGED <<tables, content, request, state, place, want>>

\* MPI_Testall.  When PMPI_Testall says no it has changed no request, the loop
\* finds none that became MPI_REQUEST_NULL, and nothing changes.
Testall(rs) ==
    LET entries == InCall("Testall", rs).reqs
    IN  /\ AppReady
        /\ IF \A i \in DOMAIN rs : Done(rs[i])
           THEN /\ Release({rs[i] : i \in DOMAIN rs})
                /\ LoopOver(entries)
           ELSE UNCHANGED <<state, request, call>>
        /\ UNCHANGED <<hvars, g_outstanding_requests, scratch_in_use, malloced, content,
                       place, want, result>>

\* MPI_Test drops the record whether or not the operation has completed.
Test(r) ==
    /\ "test" \in Habits
    /\ AppReady
    /\ request[r] # NULL
    /\ IF Done(r) THEN Release({r}) ELSE UNCHANGED <<state, request>>
    /\ request_free(r)
    /\ UNCHANGED <<tables, content, place, want, call>>

\* A completing call the wrapper does not have goes to the MPI library only.
Waitany(r) ==
    /\ "waitany" \in Habits
    /\ AppReady
    /\ request[r] # NULL /\ Done(r)
    /\ Release({r})
    /\ UNCHANGED <<hvars, g_outstanding_requests, scratch_in_use, malloced, content,
                   place, want, result, call>>

\* The application moves a request to another of its variables.
CopyRequest(r, s) ==
    /\ "copy" \in Habits
    /\ AppReady
    /\ request[r] # NULL /\ request[s] = NULL
    /\ request' = [request EXCEPT ![s] = request[r], ![r] = NULL]
    /\ UNCHANGED <<hvars, g_outstanding_requests, scratch_in_use, malloced, content,
                   state, place, want, result, call>>

-----------------------------------------------------------------------------
(* The specification *)

\* Datatype calls.  A type in use by a pending receive is freed only by an
\* application with that habit; a pending send has been packed already.
InPendingReceive(t) ==
    \E op \in Recvs : want[op] = t /\ state[op] \in {"active", "complete"}

TypeCall ==
    /\ AppReady
    /\ \/ \E oldtypes \in SUBSET {held[t] : t \in HeldTypes} : TypeConstruct(oldtypes)
       \/ \E t \in Objects : TypeCommit(t) \/ TypeQuery(t) \/ TypePack(t)
       \/ \E t \in Objects :
             /\ InPendingReceive(t) => "typefree" \in Habits
             /\ TypeFree(t)
    /\ UNCHANGED ivars

Init ==
    /\ HandlesInit
    /\ g_outstanding_requests = <<>>
    /\ scratch_in_use = FALSE
    /\ malloced = {}
    /\ content = [b \in Buffers |-> Garbage]
    /\ request = [r \in ReqVars |-> NULL]
    /\ state = [op \in Ops |-> "idle"]
    /\ place = [op \in Ops |-> NULL]
    /\ want = [op \in Ops |-> NULL]
    /\ result = [op \in Ops |-> Garbage]
    /\ call = Idle

\* Arrays of two distinct request variables stand for arrays of any length.
Arrays == {rs \in [1 .. 2 -> ReqVars] : rs[1] # rs[2]}

StartOperation ==
    \/ \E op \in Ops, r \in ReqVars : PostPrimitive(op, r)
    \/ \E op \in Ops, b \in Buffers, t \in Objects :
          \/ op \in Sends /\ SendCall(op, b, t)
          \/ op \in Recvs /\ RecvCall(op, b, t)
          \/ \E r \in ReqVars :
                \/ op \in Sends /\ Isend(op, r, b, t)
                \/ op \in Recvs /\ Irecv(op, r, b, t, op)
                \/ /\ "bottom" \in Habits
                   /\ op \in Recvs /\ Irecv(op, r, b, t, NULL)

CompleteOperation ==
    \/ \E r \in ReqVars : WaitCall(r) \/ Test(r) \/ Waitany(r)
    \/ \E rs \in Arrays : WaitallCall(rs) \/ Testall(rs)

CallReturn == BlockingReturn \/ WaitReturn \/ WaitallReturn \/ LoopStep

Next ==
    \/ TypeCall
    \/ StartOperation
    \/ CompleteOperation
    \/ CallReturn
    \/ \E r, s \in ReqVars : CopyRequest(r, s)
    \/ \E op \in Ops : Transfer(op)

Spec == Init /\ [][Next]_vars

\* The MPI library eventually moves the data of a posted operation (its peer
\* plays its part), and the wrapper's code runs on.
LibraryFairness == WF_vars(CallReturn) /\ \A op \in Ops : WF_vars(Transfer(op))

\* An MPI program completes every request it starts, here by MPI_Wait.
ApplicationFairness == \A r \in ReqVars : SF_vars(WaitCall(r))

FairSpec == Spec /\ LibraryFairness /\ ApplicationFairness

-----------------------------------------------------------------------------
(* Properties *)

RecordType ==
    [mpi_req : ReqVars, tmpbuf : Buffers \cup {NULL},
     usrbuf : Recvs \cup {NULL}, datatype : Nat]

\* The request list, buffers, requests and operations have their types, beside
\* those of the handle table.
InterposerTypeOK ==
    /\ TypeOK
    /\ g_outstanding_requests \in Seq(RecordType)
    /\ scratch_in_use \in BOOLEAN
    /\ malloced \in SUBSET TmpBufs
    /\ content \in [Buffers -> Data]
    /\ request \in [ReqVars -> Ops \cup {NULL}]
    /\ state \in [Ops -> {"idle", "active", "complete", "released"}]
    /\ place \in [Ops -> Buffers \cup {NULL}]
    /\ want \in [Ops -> Objects \cup {NULL}]
    /\ result \in [Ops -> Data]
    /\ call.fn \in {"none", "Send", "Recv", "Wait", "Waitall", "loop"}
    /\ call.reqs \in Seq([req : ReqVars \cup {NULL}, old : Ops \cup {NULL}])

\* The buffers the wrapper holds for a record, or for a blocking call.
RecordBuffer(i) == g_outstanding_requests[i].tmpbuf
CallBuffers == IF call.fn \in {"Send", "Recv"} THEN {place[call.reqs[1].old]} ELSE {}

\* Whatever the application does, every malloc'ed buffer has exactly one owner
\* to free it, a record of the list or the blocking call, and nothing else owns
\* a buffer: interposer_buffer_free never frees one twice, and no buffer is
\* lost while its record is listed.
TemporariesOwnedOnce ==
    ~fault =>
        /\ \A i, j \in DOMAIN g_outstanding_requests :
              RecordBuffer(i) # NULL /\ RecordBuffer(i) = RecordBuffer(j) => i = j
        /\ \A i \in DOMAIN g_outstanding_requests : RecordBuffer(i) \notin CallBuffers
        /\ malloced = ({RecordBuffer(i) : i \in DOMAIN g_outstanding_requests}
                         \cup CallBuffers) \ {NULL, Scratch}

\* A request variable that holds a request has one record, which keeps the
\* buffer the MPI library works on; a record belongs to a variable that holds a
\* request, or that the loop of Waitall or Testall has still to deal with.
RecordsMatchRequests ==
    /\ \A r \in ReqVars : request[r] # NULL =>
          \E i \in DOMAIN g_outstanding_requests :
             /\ g_outstanding_requests[i].mpi_req = r
             /\ RecordBuffer(i) = place[request[r]]
    /\ \A i, j \in DOMAIN g_outstanding_requests :
          g_outstanding_requests[i].mpi_req = g_outstanding_requests[j].mpi_req => i = j
    /\ \A i \in DOMAIN g_outstanding_requests :
          LET r == g_outstanding_requests[i].mpi_req
          IN  \/ request[r] # NULL
              \/ /\ call.fn = "loop"
                 /\ \E k \in DOMAIN call.reqs : call.reqs[k].req = r /\ call.reqs[k].old # NULL

\* The buffer of an operation the MPI library works on, or whose data waits to
\* be unpacked, is allocated and serves no other such operation.
InFlight(op) == state[op] # "idle" /\ ~Returned(op) /\ place[op] # NULL

InFlightBuffersPinned ==
    /\ \A op \in Ops : InFlight(op) =>
          IF place[op] = Scratch THEN scratch_in_use ELSE place[op] \in malloced
    /\ \A op, other \in Ops :
          InFlight(op) /\ InFlight(other) /\ place[op] = place[other] => op = other

\* A receive that a call has reported complete left its own data in the user's
\* buffer, unpacked with the type it was posted with.
ReceivesRight ==
    \A op \in Recvs : Returned(op) => result[op] = [data |-> op, as |-> want[op]]

\* What a send puts on the wire is its own data, packed with its own type.
SendsRight ==
    \A op \in Sends :
        state[op] \in {"complete", "released"} => result[op] = [data |-> op, as |-> want[op]]

\* The wrapper implements what an MPI program may expect of its operations.
Phase(op) ==
    CASE state[op] = "idle" -> "idle"
      [] state[op] = "active" -> "pending"
      [] Returned(op) -> "returned"
      [] OTHER -> "arrived"

Comm == INSTANCE NonblockingComm WITH
    Types <- Objects,
    NoType <- NULL,
    Nothing <- Garbage,
    phase <- [op \in Ops |-> Phase(op)],
    seen <- [op \in Ops |-> IF Returned(op) THEN result[op] ELSE Garbage]

ImplementsComm == Comm!Spec

\* A program that waits for its requests has every operation returned to it,
\* blocking calls and the loop of Waitall included.
OperationsReturn == \A op \in Ops : state[op] = "active" ~> Returned(op)

\* and every malloc'ed temporary buffer is eventually freed.
TemporariesFreed == \A b \in TmpBufs : b \in malloced ~> b \notin malloced
=============================================================================
