--------------------------- MODULE PublishedIndex ---------------------------
(***************************************************************************)
(* What index publication promises its readers, with no files and no       *)
(* failures: one value that is replaced whole, and readers each of which   *)
(* obtains the value that was published when it began, however long it     *)
(* takes and whatever is published meanwhile.                              *)
(***************************************************************************)
CONSTANTS Readers, Canonical, None

VARIABLES
    value,      \* the published index, or None
    view        \* what a reader is doing, and the value it is given

TypeOK ==
    /\ value \in Canonical \cup {None}
    /\ view \in [Readers -> [phase : {"idle", "reading", "done"}, val : Canonical \cup {None}]]

Init ==
    /\ value = None
    /\ view = [r \in Readers |-> [phase |-> "idle", val |-> None]]

Publish ==
    /\ value' \in Canonical
    /\ UNCHANGED view

BeginRead(r) ==
    /\ value # None
    /\ view[r].phase # "reading"
    /\ view' = [view EXCEPT ![r] = [phase |-> "reading", val |-> value]]
    /\ UNCHANGED value

EndRead(r) ==
    /\ view[r].phase = "reading"
    /\ view' = [view EXCEPT ![r].phase = "done"]
    /\ UNCHANGED value

Next == Publish \/ \E r \in Readers : BeginRead(r) \/ EndRead(r)

Spec == Init /\ [][Next]_<<value, view>>
=============================================================================
