----------------------------- MODULE MCSearchPage -----------------------------
(* Files and results for TLC. *)
EXTENDS SearchPage

\* A file that is only just small enough for the page, and one that is not.
MCImages ==
    {[supported |-> TRUE, size |-> MaxImageBytes, decodes |-> TRUE],
     [supported |-> TRUE, size |-> MaxImageBytes + 1, decodes |-> TRUE]}

\* A row for every mode; one for no mode.
MCShapes ==
    {[video |-> "named", frames |-> 2, integer |-> TRUE, answer |-> "short", search |-> None],
     [video |-> "named", frames |-> 0, integer |-> FALSE, answer |-> "long", search |-> None]}
=============================================================================
