--------------------------- MODULE NonblockingComm ---------------------------
(***************************************************************************)
(* What an MPI program may expect of a communication operation with a      *)
(* datatype, blocking or not: once a call reports the operation complete,  *)
(* the operation's own data has arrived and has been converted with the    *)
(* type the operation was started with, and from then on it stays as the   *)
(* program left it.                                                        *)
(***************************************************************************)
CONSTANTS Ops,      \* the operations of the program
          Types,    \* derived datatypes
          NoType,   \* the type of an operation on a primitive type
          Nothing   \* what a program has seen of an unfinished operation

VARIABLES phase,    \* operation -> how far it is
          want,     \* operation -> the type it was started with
          seen      \* operation -> what its data is when it is reported complete

Init ==
    /\ phase = [op \in Ops |-> "idle"]
    /\ want = [op \in Ops |-> NoType]
    /\ seen = [op \in Ops |-> Nothing]

Start(op) ==
    /\ phase[op] = "idle"
    /\ phase' = [phase EXCEPT ![op] = "pending"]
    /\ \E t \in Types \cup {NoType} : want' = [want EXCEPT ![op] = t]
    /\ UNCHANGED seen

Arrive(op) ==
    /\ phase[op] = "pending"
    /\ phase' = [phase EXCEPT ![op] = "arrived"]
    /\ UNCHANGED <<want, seen>>

Return(op) ==
    /\ phase[op] = "arrived"
    /\ phase' = [phase EXCEPT ![op] = "returned"]
    /\ seen' = [seen EXCEPT ![op] = [data |-> op, as |-> want[op]]]
    /\ UNCHANGED want

Next == \E op \in Ops : Start(op) \/ Arrive(op) \/ Return(op)

Spec == Init /\ [][Next]_<<phase, want, seen>>
=============================================================================
