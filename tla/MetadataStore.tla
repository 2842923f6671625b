--------------------------- MODULE MetadataStore ---------------------------
(***************************************************************************)
(* What a regression expects of its metadata, whatever the scripts do to   *)
(* the file: one value that is created once and to which scripts add what  *)
(* they have to record, each in one step and none at the cost of another.  *)
(* A script that dies as it writes may destroy the value, and then nobody  *)
(* brings a part of it back.                                               *)
(***************************************************************************)
CONSTANT Lockers   \* the scripts that record something

VARIABLES
    state,         \* "none" before it is created, then "kept", or "lost"
    records        \* the scripts that have recorded something in it

Init == state = "none" /\ records = {}

Create ==
    /\ state = "none"
    /\ state' = "kept"
    /\ UNCHANGED records

Record(p) ==
    /\ state = "kept"
    /\ records' = records \cup {p}
    /\ UNCHANGED state

Destroy ==
    /\ state = "kept"
    /\ state' = "lost"
    /\ records' = {}

Next == Create \/ Destroy \/ \E p \in Lockers : Record(p)

Spec == Init /\ [][Next]_<<state, records>>
=============================================================================
