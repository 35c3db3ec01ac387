--------------------------- MODULE SearchProvider ---------------------------
(***************************************************************************)
(* What a search provider promises its callers.  A process loads at most   *)
(* one generation of the frame index, one of those that were published for *)
(* its own backend, and answers every request that it does not refuse      *)
(* wholly from that generation: its vectors and payloads, with the encoder *)
(* and the text evidence that were loaded with it.  A restart forgets the  *)
(* loaded generation and loses the requests in progress.                   *)
(***************************************************************************)
CONSTANTS
  Requests,     \* the requests
  Generations,  \* the generations of the index
  Foreign,      \* those built with the embeddings of the other backend
  None          \* no generation

VARIABLES
  published,    \* the generations that have been published
  loaded,       \* the generation the process answers from, or None
  answers       \* "waiting", "refused", "lost" or the generation answered from

vars == <<published, loaded, answers>>

Init ==
  /\ published = {}
  /\ loaded = None
  /\ answers = [r \in Requests |-> "waiting"]

Publish(g) ==
  /\ published' = published \union {g}
  /\ UNCHANGED <<loaded, answers>>

Load(g) ==
  /\ loaded = None
  /\ g \in published \ Foreign
  /\ loaded' = g
  /\ UNCHANGED <<published, answers>>

Answer(r) ==
  /\ answers[r] = "waiting"
  /\ loaded # None
  /\ answers' = [answers EXCEPT ![r] = loaded]
  /\ UNCHANGED <<published, loaded>>

Refuse(r) ==
  /\ answers[r] = "waiting"
  /\ answers' = [answers EXCEPT ![r] = "refused"]
  /\ UNCHANGED <<published, loaded>>

Restart ==
  /\ loaded' = None
  /\ \E inProgress \in SUBSET {r \in Requests : answers[r] = "waiting"} :
        answers' = [r \in Requests |->
                      IF r \in inProgress THEN "lost" ELSE answers[r]]
  /\ UNCHANGED published

Next ==
  \/ \E g \in Generations : Publish(g) \/ Load(g)
  \/ \E r \in Requests : Answer(r) \/ Refuse(r)
  \/ Restart

Spec == Init /\ [][Next]_vars
=============================================================================
