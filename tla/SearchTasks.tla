----------------------------- MODULE SearchTasks -----------------------------
(***************************************************************************)
(* POST /api/search behind the runtime: `handle` of ConfiguredSearch and   *)
(* of QwenRuntimeSearch looks at query_type and gives the request to the   *)
(* search for events (EventSearch) or to the search for rows (TextSearch). *)
(* The two share the index, which neither changes, and no state.           *)
(***************************************************************************)
EXTENDS TextSearch, EventSearch

VARIABLE queryType

vars == <<queryType, textVars, eventVars>>

\* A search that is not asked for has some request.
SomeCorpus == CHOOSE c \in Corpora : TRUE
SomeRequest == CHOOSE r \in Requests : TRUE
SomeSearch == CHOOSE s \in Searches : TRUE

Init ==
    /\ \/ queryType = "rows" /\ corpus \in Corpora /\ request \in Requests /\ backend = "qwen" /\ found = SomeSearch
       \/ queryType = "trake" /\ corpus = SomeCorpus /\ request = SomeRequest /\ backend \in Backends /\ found \in Searches
    /\ TextStart /\ EventStart

HandleRows  == queryType = "rows" /\ TextNext /\ UNCHANGED <<queryType, eventVars>>
HandleTrake == queryType = "trake" /\ EventNext /\ UNCHANGED <<queryType, textVars>>

Next == HandleRows \/ HandleTrake

Spec == Init /\ [][Next]_vars
=============================================================================
