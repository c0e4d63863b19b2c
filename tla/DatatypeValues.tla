--------------------------- MODULE DatatypeValues ---------------------------
(***************************************************************************)
(* What a user of the library may expect of its datatypes, as if they were *)
(* values: a new type is built from copies of its old types, its value     *)
(* never changes, committing makes it usable, and freeing a type takes     *)
(* away that type and its code and nothing else, in whatever order types   *)
(* are freed.                                                              *)
(***************************************************************************)
EXTENDS Sequences

VARIABLES value,   \* the types that exist -> the value each one has
          usable   \* the types that can be packed

Values == {value[t] : t \in DOMAIN value}

Init == value = [t \in {} |-> t] /\ usable = {}

\* The new type is the one value gains; its fields are old types or primitive.
New ==
    \E t \in DOMAIN value' \ DOMAIN value :
        /\ value' = [s \in DOMAIN value \cup {t} |->
                        IF s = t THEN value'[t] ELSE value[s]]
        /\ \A i \in DOMAIN value'[t].fields : value'[t].fields[i] \in Values
        /\ usable' \in {usable, usable \cup {t}}

Commit == \E t \in DOMAIN value : usable' = usable \cup {t} /\ value' = value

Free ==
    \E t \in DOMAIN value :
        /\ value' = [s \in DOMAIN value \ {t} |-> value[s]]
        /\ usable' = usable \ {t}

Next == New \/ Commit \/ Free

Spec == Init /\ [][Next]_<<value, usable>>
=============================================================================
