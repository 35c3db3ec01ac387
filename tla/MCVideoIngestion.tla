--------------------------- MODULE MCVideoIngestion ---------------------------
(* Values for model checking VideoIngestion. *)
EXTENDS VideoIngestion, TLC

CONSTANTS byshot, sparse, s1, s2, e1, e2

\* Two sources that differ in length.  `byshot` adds the shot around frame 1 to
\* the periodic frames; `sparse` knows no shots and removes near-duplicates.
MCPeriodic == [src \in Sources |-> [s \in Settings |->
                  IF s = sparse /\ src = s2 THEN {0, 1, 2} ELSE {0, 2}]]
MCShots == [src \in Sources |-> [s \in Settings |-> IF s = byshot THEN {1} ELSE {}]]

\* Frames 0 and 1 look alike to every encoder.
MCSimilar == [e \in Encoders |-> {<<0, 1>>}]

MCPolicy == [s \in Settings |-> "zero_based"]
MCExtension == [s \in Settings |-> "jpg"]
MCSize == [src \in Sources |-> "720p"]
MCDim == [e \in Encoders |-> 768]

\* Every identity has the revision it was built with, or a later identity was
\* "default" before the snapshot was in the cache.
OwnRevision == [e \in Encoders |-> e]
WasDefault == [e \in Encoders |-> e1]

\* The instances without near-duplicate shots and "default" revisions meet the
\* hypotheses of the theorem that they illustrate.
ASSUME InstanceAssumption ==
    Legacy = OwnRevision /\ byshot \notin DedupSettings => FilterIsStable /\ OwnRevisions
=============================================================================
