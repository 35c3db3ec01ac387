------------------------------ MODULE RegionCache ------------------------------
(***************************************************************************)
(* TemporalRefineCache and its use by TemporalRefiner: the decoded frames  *)
(* of one region of one video, for concurrent requests, while the video    *)
(* file may be replaced.                                                   *)
(*                                                                         *)
(* The cache is a directory of three files that are read one after the     *)
(* other by path.  A directory is a number, so that a writer that removes  *)
(* a directory it has open does not touch the one renamed to its place.    *)
(***************************************************************************)
EXTENDS Naturals, FiniteSets

CONSTANTS
    Requests,     \* the requests that look at the region, one each
    MaxVersion,   \* replacements of the video file
    Nothing

ASSUME RegionAssumption == MaxVersion \in Nat /\ Nothing \notin Requests

Parts == {"metadata", "records", "embeddings"}

VARIABLES
    video,     \* the version of the video file: size, time and content
    files,     \* the directories: for each its files, [part -> the version it tells of]
    region,    \* the directory that has the region's name
    request,   \* [step, fp, dir, open, records, embeddings] of each request
    beside     \* versions each request has run beside: of the file, and of other requests

regionVars == <<video, files, region, request, beside>>

\* A request that writes makes at most one directory: its own.
Empty == [p \in {} |-> 0]
Waiting == [step |-> "waiting", fp |-> 0, dir |-> Nothing, records |-> 0, embeddings |-> 0]

RegionInit ==
    /\ video = 1 /\ region = Nothing
    /\ files = [d \in Requests |-> Empty]
    /\ request = [r \in Requests |-> Waiting]
    /\ beside = [r \in Requests |-> {}]

Running == {r \in Requests : request[r].step \notin {"waiting", "served", "failed"}}
RegionAt(r, step) == request[r].step = step
Goto(r, step) == request' = [request EXCEPT ![r].step = step]
There(part) == region # Nothing /\ part \in DOMAIN files[region]

ReplaceVideo ==
    /\ video < MaxVersion /\ video' = video + 1
    /\ beside' = [r \in Requests |-> IF r \in Running THEN beside[r] \cup {video'} ELSE beside[r]]
    /\ UNCHANGED <<files, region, request>>

\* compute_cache_fingerprint: size and time of the file.
Fingerprint(r) ==
    /\ RegionAt(r, "waiting")
    /\ request' = [request EXCEPT ![r].fp = video, ![r].step = "get"]
    /\ beside' = [q \in Requests |-> IF q = r THEN {request[s].fp : s \in Running}
                                     ELSE IF q \in Running THEN beside[q] \cup {video} ELSE beside[q]]
    /\ UNCHANGED <<video, files, region>>

\* get: all three files are there and the metadata has the fingerprint.
LookAtFiles(r) ==
    /\ RegionAt(r, "get")
    /\ Goto(r, IF \A p \in Parts : There(p) THEN "metadata" ELSE "decode")
    /\ UNCHANGED <<video, files, region, beside>>

\* Mutant of ReadMetadata: an entry of any version.
ReadMetadataUnread(r) ==
    /\ RegionAt(r, "metadata")
    /\ Goto(r, IF There("metadata") THEN "records" ELSE "decode")
    /\ UNCHANGED <<video, files, region, beside>>

ReadMetadata(r) ==
    /\ RegionAt(r, "metadata")
    /\ Goto(r, IF There("metadata") /\ files[region]["metadata"] = request[r].fp THEN "records" ELSE "decode")
    /\ UNCHANGED <<video, files, region, beside>>

ReadRecords(r) ==
    /\ RegionAt(r, "records")
    /\ request' = IF There("records")
                  THEN [request EXCEPT ![r].records = files[region]["records"], ![r].step = "embeddings"]
                  ELSE [request EXCEPT ![r].step = "decode"]
    /\ UNCHANGED <<video, files, region, beside>>

\* Records and embeddings of two versions are told apart only by their number.
ReadEmbeddings(r) ==
    /\ RegionAt(r, "embeddings")
    /\ \/ /\ There("embeddings")
          /\ request' = [request EXCEPT ![r].embeddings = files[region]["embeddings"], ![r].step = "served"]
       \/ /\ There("embeddings") => files[region]["embeddings"] # request[r].records
          /\ Goto(r, "decode")
    /\ UNCHANGED <<video, files, region, beside>>

\* The frames of the file that is there now; an unreadable file ends the refinement.
Decode(r) ==
    /\ RegionAt(r, "decode")
    /\ \/ request' = [request EXCEPT ![r].records = video, ![r].embeddings = video, ![r].step = "stage"]
       \/ Goto(r, "failed")
    /\ UNCHANGED <<video, files, region, beside>>

\* put: a directory of its own, complete; any failure is swallowed.
Stage(r) ==
    /\ RegionAt(r, "stage")
    /\ \/ /\ files' = [files EXCEPT ![r] = [p \in Parts |-> CASE p = "metadata" -> request[r].fp
                                                              [] p = "records" -> request[r].records
                                                              [] OTHER -> request[r].embeddings]]
          /\ Goto(r, "look")
       \/ Goto(r, "served") /\ files' = files
    /\ UNCHANGED <<video, region, beside>>

LookForOld(r) ==
    /\ RegionAt(r, "look")
    /\ Goto(r, IF region = Nothing THEN "rename" ELSE "open")
    /\ UNCHANGED <<video, files, region, beside>>

OpenOld(r) ==
    /\ RegionAt(r, "open")
    /\ request' = [request EXCEPT ![r].dir = region, ![r].step = IF region = Nothing THEN "rename" ELSE "sweep"]
    /\ UNCHANGED <<video, files, region, beside>>

\* rmtree: file by file in the directory it has opened, then the name, if that is
\* still an empty directory.
SweepFile(r) ==
    /\ RegionAt(r, "sweep")
    /\ \E p \in DOMAIN files[request[r].dir] :
           files' = [files EXCEPT ![request[r].dir] = [q \in DOMAIN @ \ {p} |-> @[q]]]
    /\ UNCHANGED <<video, region, request, beside>>

SweepName(r) ==
    /\ RegionAt(r, "sweep") /\ files[request[r].dir] = Empty
    /\ region' = IF region # Nothing /\ files[region] = Empty THEN Nothing ELSE region
    /\ Goto(r, "rename")
    /\ UNCHANGED <<video, files, beside>>

\* os.replace goes over an empty directory, not over one with files.
RenameRegion(r) ==
    /\ RegionAt(r, "rename")
    /\ IF region = Nothing \/ files[region] = Empty
       THEN region' = r /\ files' = files
       ELSE region' = region /\ files' = [files EXCEPT ![r] = Empty]
    /\ Goto(r, "served")
    /\ UNCHANGED <<video, beside>>

RegionStep(r) ==
    \/ Fingerprint(r) \/ LookAtFiles(r) \/ ReadMetadata(r) \/ ReadRecords(r) \/ ReadEmbeddings(r) \/ Decode(r)
    \/ Stage(r) \/ LookForOld(r) \/ OpenOld(r) \/ SweepFile(r) \/ SweepName(r) \/ RenameRegion(r)

RegionNext == ReplaceVideo \/ \E r \in Requests : RegionStep(r)

\* A request is served frames and embeddings of the version of the video it has looked
\* at, unless that is replaced, or a request for another version runs, at the same time:
\* writers and sweeps of one version never make one another serve a mixture, and an entry
\* that was left incomplete, or decoded from a later version, is refused.
RegionIsWhole ==
    \A r \in Requests : RegionAt(r, "served") =>
        \/ request[r].records = request[r].fp /\ request[r].embeddings = request[r].fp
        \/ \E version \in beside[r] : version # request[r].fp
=============================================================================
