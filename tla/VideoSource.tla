------------------------------ MODULE VideoSource ------------------------------
(***************************************************************************)
(* GET /api/video/{video_id}: resolve_video_path with its lazy download,   *)
(* and the byte range that is served, for concurrent players of one video. *)
(*                                                                         *)
(* A file is its size in chunks.  The remote side may close the connection *)
(* early: the read loop then ends as at the end of the file.               *)
(***************************************************************************)
EXTENDS Integers

CONSTANTS
    Players,       \* requests for the video, one each
    Sources,       \* how the service is set up: "none", "directory", "remote", "bad url"
    RemoteSize,    \* size of the remote file
    Announced,     \* Content-Length headers the remote side may send (0: none)
    MaxVideoSize,  \* _MAX_VIDEO_BYTES
    Ranges,        \* Range headers: [kind, first, last]
    NoFile

ASSUME VideoAssumption ==
    /\ RemoteSize \in Nat /\ MaxVideoSize \in Nat /\ Announced \subseteq Nat
    /\ Ranges \subseteq [kind : {"none", "first", "both", "last", "many"}, first : Nat, last : Int]
    /\ Sources \subseteq {"none", "directory", "remote", "bad url"}

ASSUME NoFileAssumption == NoFile \notin Nat /\ NoFile \notin Players

VARIABLES
    source,    \* the configured source
    cached,    \* size of <video_id>.mp4 in the cache, or NoFile
    holder,    \* the player whose thread holds the lock of the video
    part,      \* chunks in the temporary file of the download
    player     \* [step, status, range, from, to, size] of each player

videoVars == <<source, cached, holder, part, player>>

NoReply == [step |-> "idle", status |-> 0, range |-> 0, from |-> 0, to |-> 0, size |-> 0]

VideoInit ==
    /\ source \in Sources /\ cached = NoFile /\ holder = NoFile /\ part = 0
    /\ player = [p \in Players |-> NoReply]

PlayerAt(p, step) == player[p].step = step
PlayerTo(p, step) == player' = [player EXCEPT ![p].step = step]
Refuse(p, status) == player' = [player EXCEPT ![p].step = "answered", ![p].status = status]

-----------------------------------------------------------------------------
(* resolve_video_path *)

Request(p) ==
    /\ PlayerAt(p, "idle")
    /\ \E r \in Ranges : player' = [player EXCEPT ![p].range = r, ![p].step = "resolve"]
    /\ UNCHANGED <<source, cached, holder, part>>

\* The size of the file of the source directory is that of the video.
Resolve(p) ==
    /\ PlayerAt(p, "resolve")
    /\ IF cached # NoFile THEN PlayerTo(p, "serve")
       ELSE CASE source = "directory" -> PlayerTo(p, "serve")
              [] source = "remote"    -> PlayerTo(p, "lock")
              [] source = "bad url"   -> Refuse(p, 503)
              [] source = "none"      -> Refuse(p, 404)
    /\ UNCHANGED <<source, cached, holder, part>>

\* Mutant of LockVideo: whoever has waited downloads the file again.
LockVideoUnread(p) ==
    /\ PlayerAt(p, "lock") /\ holder = NoFile
    /\ PlayerTo(p, "connect") /\ holder' = p
    /\ UNCHANGED <<source, cached, part>>

\* The lock of the video; whoever gets it after a download finds the file.
LockVideo(p) ==
    /\ PlayerAt(p, "lock") /\ holder = NoFile
    /\ IF cached # NoFile THEN PlayerTo(p, "serve") /\ holder' = holder
       ELSE PlayerTo(p, "connect") /\ holder' = p
    /\ UNCHANGED <<source, cached, part>>

\* Mutant of Abort: the lock stays taken.
AbortHoldingLock(p) == Refuse(p, 503) /\ holder' = holder /\ part' = 0

\* An exception removes the temporary file, lets the lock go and is reported (503; 500 for
\* one the endpoint does not expect).
Abort(p) == Refuse(p, 503) /\ holder' = NoFile /\ part' = 0

Connect(p) ==
    /\ PlayerAt(p, "connect")
    /\ \/ \E length \in Announced :
              IF length > MaxVideoSize THEN Abort(p)
              ELSE PlayerTo(p, "read") /\ part' = 0 /\ holder' = holder
       \/ Abort(p)
    /\ UNCHANGED <<source, cached>>

ReadChunk(p) ==
    /\ PlayerAt(p, "read") /\ part < RemoteSize
    /\ IF part + 1 > MaxVideoSize THEN Abort(p)
       ELSE part' = part + 1 /\ UNCHANGED <<holder, player>>
    /\ UNCHANGED <<source, cached>>

\* The end of the file, or of a connection that was closed early.
EndOfBody(p) ==
    /\ PlayerAt(p, "read")
    /\ cached' = part /\ part' = 0 /\ holder' = NoFile
    /\ PlayerTo(p, "serve")
    /\ UNCHANGED source

LoseConnection(p) ==
    /\ PlayerAt(p, "read")
    /\ Abort(p)
    /\ UNCHANGED <<source, cached>>

-----------------------------------------------------------------------------
(* The byte range *)

Size == IF cached # NoFile THEN cached ELSE RemoteSize

\* "none": no header.  "first": first-; "both": first-last; "last": -last (a suffix);
\* "many": more than one range, another unit, or no numbers.
First(r, size) == IF r.kind = "last" THEN (IF size > r.last THEN size - r.last ELSE 0) ELSE r.first
LastOf(r, size) == IF r.kind = "both" THEN r.last ELSE size - 1
Satisfiable(r, size) ==
    /\ r.kind \in {"first", "both", "last"}
    /\ r.kind = "last" => r.last > 0
    /\ First(r, size) >= 0 /\ First(r, size) < size /\ LastOf(r, size) >= First(r, size)

Serve(p) ==
    /\ PlayerAt(p, "serve")
    /\ LET r == player[p].range IN
           player' = [player EXCEPT ![p] =
               [@ EXCEPT !.step = "answered", !.size = Size,
                         !.status = IF r.kind = "none" THEN 200 ELSE IF Satisfiable(r, Size) THEN 206 ELSE 416,
                         !.from   = IF r.kind = "none" THEN 0 ELSE IF Satisfiable(r, Size) THEN First(r, Size) ELSE 0,
                         !.to     = IF r.kind = "none" THEN Size - 1
                                    ELSE IF ~Satisfiable(r, Size) THEN -1
                                    ELSE IF LastOf(r, Size) < Size - 1 THEN LastOf(r, Size) ELSE Size - 1]]
    /\ UNCHANGED <<source, cached, holder, part>>

PlayerStep(p) ==
    \/ Resolve(p) \/ LockVideo(p) \/ Connect(p) \/ ReadChunk(p) \/ EndOfBody(p) \/ LoseConnection(p) \/ Serve(p)

VideoNext == \E p \in Players : Request(p) \/ PlayerStep(p)

-----------------------------------------------------------------------------
(* Properties *)

\* All replies for a video are cut from one file: no reply is given while it is written,
\* and no download replaces it ("downloads are atomic and serialized per video").  A part
\* lies within that file, as it was asked for, and what lies in the file is never refused.
Wanted(r, size) ==
    CASE r.kind = "first" -> {b \in 0..(size - 1) : b >= r.first}
      [] r.kind = "both"  -> {b \in 0..(size - 1) : r.first <= b /\ b <= r.last}
      [] r.kind = "last"  -> {b \in 0..(size - 1) : size - r.last <= b}
      [] r.kind = "none"  -> 0..(size - 1)
      [] OTHER            -> {}

OneFileIsServed ==
    \A p \in Players : PlayerAt(p, "answered") /\ player[p].status \in {200, 206, 416} =>
        /\ player[p].size = Size
        /\ player[p].status \in {200, 206} => player[p].from..player[p].to = Wanted(player[p].range, Size)
        /\ player[p].status = 416 => Wanted(player[p].range, Size) = {}
=============================================================================
