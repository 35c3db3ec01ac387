---------------------------- MODULE MCEventSearch ----------------------------
(* Searches and dense scores for TLC. *)
EXTENDS EventSearch

\* Sets of at most two candidates.
Few(C) == UNION {kSubset(n, C) : n \in 0..2}

\* Two events: each finds up to two candidates, at most one of them in video 2.
\* Three events: each finds up to two frames of video 1.  The frames are such that
\* a video can have three regions.
MCSearches ==
    LET two == {C \in Few({c \in Candidates : c.frame \in IF c.video = 1 THEN {0, 1, 3, 6} ELSE {0, 6}}) :
                    /\ \A c, d \in C : c.video = d.video /\ c.frame = d.frame => c = d
                    /\ Cardinality({c \in C : c.video = 2}) <= 1}
        one == Few({c \in Candidates : c.video = 1 /\ c.frame \in {0, 1, 3, 6} /\ c.score = 1})
    IN  (two \X two) \cup (one \X one \X one)

\* Odd frames are good for odd events in video 1, even frames in video 2.
MCDenseScore ==
    [v \in VideoIds |-> [e \in 1..3 |-> [f \in Ordinals |-> IF (v + e + f) % 2 = 1 THEN 2 ELSE 1]]]
=============================================================================
