---------------------------- MODULE TypeRegistry ----------------------------
(***************************************************************************)
(* What an application may expect of its datatype handles, whatever table  *)
(* holds them: a new type gets a handle no other type goes by, committing  *)
(* makes one handle usable for packing, freeing takes exactly one handle   *)
(* away, and no call changes what any other handle stands for.             *)
(***************************************************************************)
CONSTANT Types

VARIABLES means,   \* handle -> the type it stands for
          usable   \* the handles of committed types

Init == means = [h \in {} |-> h] /\ usable = {}

\* The new handle is the one means gains.
New ==
    \E h \in DOMAIN means', t \in Types :
        /\ h \notin DOMAIN means
        /\ \A g \in DOMAIN means : means[g] # t
        /\ means' = [g \in DOMAIN means \cup {h} |-> IF g = h THEN t ELSE means[g]]
        /\ usable' = usable

Commit ==
    \E h \in DOMAIN means :
        /\ usable' = usable \cup {h}
        /\ means' = means

Free ==
    \E h \in DOMAIN means :
        /\ means' = [g \in DOMAIN means \ {h} |-> means[g]]
        /\ usable' = usable \ {h}

Next == New \/ Commit \/ Free

Spec == Init /\ [][Next]_<<means, usable>>
=============================================================================
