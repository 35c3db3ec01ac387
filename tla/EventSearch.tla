----------------------------- MODULE EventSearch -----------------------------
(***************************************************************************)
(* The search for a sequence of events in one video (TRAKE).  Each event   *)
(* is searched by itself.  The SigLIP2 backend then looks more densely at  *)
(* the neighbourhood of what was found (`TemporalRefiner`) and aligns the  *)
(* candidates with a dynamic program (`TRAKEAligner`); the Qwen backend    *)
(* aligns what was found greedily.                                         *)
(*                                                                         *)
(* One request, from the results of the event searches to the answer.      *)
(* Scores are integers; how they are computed is left out.                 *)
(***************************************************************************)
EXTENDS FiniteSetsExt, Integers, Sequences

CONSTANTS
    VideoIds,       \* naturals, in the order of the video ids
    LastFrame,      \* the last frame of every video
    Scores,
    Searches,       \* what the event searches may find: per event, candidates
    DenseScore,     \* DenseScore[v][e][f]: the score of a decoded frame
    Window,         \* window_seconds in frames
    Interval,       \* the sampling step in frames
    MaxFrames,      \* max_frames_per_region
    MaxPerVideo,    \* max_regions_per_video
    MaxTotal,       \* max_total_regions
    Penalty,        \* transition_penalty per frame
    MaxGap,         \* max_gap, or Absent
    Absent

Ordinals == 0..LastFrame
Candidates == [video : VideoIds, frame : Ordinals, score : Scores]
EventAnswers == [video : VideoIds, frames : Seq(Ordinals), score : Int]

\* A search returns each frame once.
ASSUME SearchAssumption ==
    /\ VideoIds \subseteq Nat /\ IsFiniteSet(VideoIds)
    /\ Scores \subseteq Int
    /\ \A s \in Searches :
        /\ s \in Seq(SUBSET Candidates) /\ s # <<>>
        /\ \A e \in DOMAIN s : IsFiniteSet(s[e])
        /\ \A e \in DOMAIN s : \A c, d \in s[e] :
                c.video = d.video /\ c.frame = d.frame => c = d
        /\ \A v \in VideoIds, e \in DOMAIN s, f \in Ordinals : DenseScore[v][e][f] \in Scores
    /\ {LastFrame, Penalty} \subseteq Nat
    /\ {Window, Interval, MaxFrames, MaxPerVideo, MaxTotal} \subseteq Nat \ {0}
    /\ MaxGap \in Nat \cup {Absent}
    /\ Absent \notin EventAnswers

VARIABLES
    backend,    \* which of the two
    found,      \* the candidates of each event,
    pool,       \* and with the refinement's
    regions,    \* the regions of each video that are to be decoded
    dense,      \* the frames of each video that were decoded
    todo,       \* videos the present stage has still to visit
    phase,
    answer      \* the video, its frames, and the score

eventVars == <<backend, found, pool, regions, dense, todo, phase, answer>>

Regions == [first : Ordinals, last : Ordinals, score : Scores]
Backends == {"siglip2", "qwen"}
Events == DOMAIN found

\* Every variable stays in its type.
EventTypeOK ==
    /\ backend \in Backends
    /\ found \in Seq(SUBSET Candidates)
    /\ pool \in Seq(SUBSET Candidates)
    /\ regions \in [VideoIds -> SUBSET Regions]
    /\ dense \in [VideoIds -> SUBSET Ordinals]
    /\ todo \subseteq VideoIds
    /\ phase \in {"refine", "regions", "decode", "merge", "align", "done", "refused"}
    /\ answer \in EventAnswers \cup {Absent}

\* Nothing was done for the request.
EventStart ==
    /\ pool = <<>>
    /\ regions = [v \in VideoIds |-> {}]
    /\ dense = [v \in VideoIds |-> {}]
    /\ todo = {}
    /\ phase = IF backend = "qwen" THEN "align" ELSE "refine"
    /\ answer = Absent

EventInit == backend \in Backends /\ found \in Searches /\ EventStart

-----------------------------------------------------------------------------
(* Regions *)

\* What any event found in v.
Found(v) == {c \in UNION {found[e] : e \in Events} : c.video = v}
BestScore(v) == Max({c.score : c \in Found(v)})

\* Around each candidate.
Windows(v) ==
    {[first |-> Max({0, c.frame - Window}), last |-> Min({LastFrame, c.frame + Window}),
      score |-> c.score] : c \in Found(v)}

\* The windows in the order of their starts, and one that starts after the end
\* of all before it begins a region.
Merged(v) ==
    LET W == Windows(v)
        starts == {w.first : w \in {x \in W : \A u \in W : u.first < x.first => u.last < x.first}}
        Group(s) == {w \in W : s = Max({t \in starts : t <= w.first})}
    IN  {[first |-> s, last |-> Max({w.last : w \in Group(s)}),
          score |-> Max({w.score : w \in Group(s)})] : s \in starts}

\* The first n members of S in the order of the measure.
FirstBy(S, n, Measure(_)) == {r \in S : Cardinality({q \in S : Measure(q) < Measure(r)}) < n}

\* Mutant of Kept: the earliest regions.
KeptEarliest(v) == FirstBy(Merged(v), MaxPerVideo, LAMBDA r : r.first)

\* The regions of v with the best scores, of equal ones the earliest.
Kept(v) ==
    FirstBy(Merged(v), MaxPerVideo, LAMBDA r : r.first - (LastFrame + 1) * r.score)

TotalRegions == Cardinality(UNION {{v} \X regions[v] : v \in VideoIds})

\* Of these, in the order of the frames, as many as the sum may have.
Taken(v) == FirstBy(Kept(v), MaxTotal - TotalRegions, LAMBDA r : r.first)

\* Every how many frames a region is decoded.
Step(r) ==
    LET length == r.last - r.first IN
    IF length \div Interval + 1 > MaxFrames
    THEN Max({1, (length + MaxFrames - 1) \div MaxFrames})
    ELSE Interval
Targets(r) == {f \in r.first..r.last : (f - r.first) % Step(r) = 0}

-----------------------------------------------------------------------------
(* Refinement *)

\* It is off, has no encoder, or an event has no candidates.
SkipRefinement ==
    /\ phase = "refine"
    /\ pool' = found
    /\ phase' = "align"
    /\ UNCHANGED <<backend, found, regions, dense, todo, answer>>

StartRefinement ==
    /\ phase = "refine"
    /\ \A e \in Events : found[e] # {}
    /\ todo' = {v \in VideoIds : Found(v) # {}}
    /\ phase' = "regions"
    /\ UNCHANGED <<backend, found, pool, regions, dense, answer>>

\* build_candidate_regions, one video: one with the best candidate comes first.
BuildRegions(v) ==
    /\ phase = "regions"
    /\ v \in todo
    /\ \A w \in todo : BestScore(w) <= BestScore(v)
    /\ regions' = [regions EXCEPT ![v] = Taken(v)]
    /\ IF todo = {v} \/ TotalRegions' >= MaxTotal
       THEN /\ todo' = {w \in VideoIds : regions'[w] # {}}
            /\ phase' = "decode"
       ELSE todo' = todo \ {v} /\ phase' = phase
    /\ UNCHANGED <<backend, found, pool, dense, answer>>

\* _decode_video_regions: the frames of all regions of a video, as far as it can
\* be decoded; none if there is an error.
Decode(v) ==
    /\ phase = "decode"
    /\ v \in todo
    /\ todo' = todo \ {v}
    /\ phase' = IF todo' = {} THEN "merge" ELSE phase
    /\ \E end \in -1..LastFrame :
            dense' = [dense EXCEPT ![v] =
                {f \in UNION {Targets(r) : r \in regions[v]} : f <= end}]
    /\ UNCHANGED <<backend, found, pool, regions, answer>>

\* Mutant of Rescored: the dense score replaces the other.
RescoredAnew(e, v, f) ==
    IF f \in dense[v] THEN {DenseScore[v][e][f]}
                      ELSE {c.score : c \in {d \in found[e] : d.video = v /\ d.frame = f}}

\* The scores event e has for a frame.
Rescored(e, v, f) ==
    {c.score : c \in {d \in found[e] : d.video = v /\ d.frame = f}}
        \cup {DenseScore[v][e][f] : g \in dense[v] \cap {f}}

\* Every event gets every frame that was decoded, and keeps the better score.
Merge ==
    /\ phase = "merge"
    /\ pool' = [e \in Events |->
            {[video |-> x[1], frame |-> x[2], score |-> Max(Rescored(e, x[1], x[2]))] :
                x \in {y \in VideoIds \X Ordinals : Rescored(e, y[1], y[2]) # {}}}]
    /\ phase' = "align"
    /\ UNCHANGED <<backend, found, regions, dense, todo, answer>>

\* An exception anywhere in the refinement.
FallBack ==
    /\ phase \in {"regions", "decode", "merge"}
    /\ pool' = found
    /\ phase' = "align"
    /\ UNCHANGED <<backend, found, regions, dense, todo, answer>>

-----------------------------------------------------------------------------
(* The dynamic program *)

NearTo(gap) == gap > 0 /\ (MaxGap = Absent \/ gap <= MaxGap)

\* Among equal scores the path with the earlier frames.
NotAfter(p, q) ==
    \/ p = q
    \/ \E i \in DOMAIN p : p[i] < q[i] /\ \A j \in 1..(i - 1) : p[j] = q[j]
Best(S) ==
    CHOOSE x \in S : \A y \in S :
        x.score > y.score \/ (x.score = y.score /\ NotAfter(x.path, y.path))

Extensions(prior, c) ==
    {[score |-> p.score + c.score - Penalty * (c.frame - p.path[Len(p.path)]),
      path |-> Append(p.path, c.frame)] :
        p \in {q \in prior : NearTo(c.frame - q.path[Len(q.path)])}}

Of(C, v) == {c \in C : c.video = v}

\* The sum of the scores of the events.
TotalScore(score) ==
    LET total[e \in Events] == score[e] + (IF e = 1 THEN 0 ELSE total[e - 1])
    IN  total[Len(found)]

\* Mutant of Rows: an event keeps one sequence only.
RowsPruned(v) ==
    LET row[e \in Events] ==
            IF e = 1
            THEN {[score |-> c.score, path |-> <<c.frame>>] : c \in Of(pool[1], v)}
            ELSE LET prior == row[e - 1] IN
                 {Best(X) : X \in {UNION {Extensions(prior, c) : c \in Of(pool[e], v)}} \ {{}}}
    IN  row

\* For each event, the best sequence that ends in each of its candidates.
Rows(v) ==
    LET row[e \in Events] ==
            IF e = 1
            THEN {[score |-> c.score, path |-> <<c.frame>>] : c \in Of(pool[1], v)}
            ELSE LET prior == row[e - 1] IN
                 {Best(X) : X \in {Extensions(prior, c) : c \in Of(pool[e], v)} \ {{}}}
    IN  row

\* TRAKEAligner.align: the best sequence of each video, and the best of these.
Align ==
    /\ phase = "align" /\ backend = "siglip2"
    /\ LET last == [v \in VideoIds |-> Rows(v)[Len(found)]]
           results == {[video |-> v, frames |-> Best(last[v]).path, score |-> Best(last[v]).score] :
                            v \in {w \in VideoIds : last[w] # {}}}
       IN  answer' = IF results = {} THEN Absent
                     ELSE CHOOSE r \in results : \A s \in results :
                            r.score > s.score \/ (r.score = s.score /\ r.video >= s.video)
    /\ phase' = "done"
    /\ UNCHANGED <<backend, found, pool, regions, dense, todo>>

-----------------------------------------------------------------------------
(* The greedy alignment *)

\* The first of the candidates in the order of a result list, or Absent.
Top(C) ==
    IF C = {} THEN Absent
    ELSE CHOOSE c \in C : \A d \in C :
            c.score > d.score \/ (c.score = d.score /\ c.frame <= d.frame)

\* For each event the first candidate of v after the one chosen for the event
\* before, or Absent.
Chosen(v) ==
    LET choice[e \in Events] ==
            IF e = 1 THEN Top(Of(found[1], v))
            ELSE Top({c \in Of(found[e], v) :
                        choice[e - 1] # Absent /\ c.frame > choice[e - 1].frame})
    IN  choice

\* search_trake of the Qwen backend: the first video that has a candidate for
\* every event.  The score is the sum; the code divides it by the number.
GreedyAlign ==
    /\ phase = "align" /\ backend = "qwen"
    /\ LET full == {v \in VideoIds : Chosen(v)[Len(found)] # Absent}
           v == Min(full)
       IN  IF full = {}
           THEN phase' = "refused" /\ UNCHANGED answer
           ELSE /\ phase' = "done"
                /\ answer' = [video |-> v, frames |-> [e \in Events |-> Chosen(v)[e].frame],
                              score |-> TotalScore([e \in Events |-> Chosen(v)[e].score])]
    /\ UNCHANGED <<backend, found, pool, regions, dense, todo>>

-----------------------------------------------------------------------------

EventNext ==
    \/ SkipRefinement
    \/ StartRefinement
    \/ \E v \in VideoIds : BuildRegions(v) \/ Decode(v)
    \/ Merge
    \/ FallBack
    \/ Align
    \/ GreedyAlign

EventSpec == EventInit /\ [][EventNext]_eventVars

-----------------------------------------------------------------------------
(* Properties *)

\* The sequences that candidates P allow in v: one candidate for each event, in
\* the order of the frames, with gaps the limit allows.
Sequences(P, v, limit) ==
    {p \in [Events -> Ordinals] :
        /\ \A e \in Events : \E c \in P[e] : c.video = v /\ c.frame = p[e]
        /\ \A e \in Events \ {1} :
            /\ p[e - 1] < p[e]
            /\ limit # Absent => p[e] - p[e - 1] <= limit}

Value(P, v, p) ==
    TotalScore([e \in Events |-> (CHOOSE c \in P[e] : c.video = v /\ c.frame = p[e]).score])
        - Penalty * (p[Len(found)] - p[1])

\* An answer is a sequence of candidates of one video in increasing order, with
\* either backend.  The dynamic program finds the best of all sequences in all
\* videos, and there is no answer only if there is no sequence.
BestSequence ==
    /\ answer # Absent =>
           IF backend = "qwen" THEN answer.frames \in Sequences(found, answer.video, Absent)
                               ELSE answer.frames \in Sequences(pool, answer.video, MaxGap)
    /\ phase = "done" /\ backend = "siglip2" =>
           /\ \A v \in VideoIds : \A p \in Sequences(pool, v, MaxGap) :
                  /\ answer # Absent
                  /\ \/ Value(pool, v, p) < answer.score
                     \/ Value(pool, v, p) = answer.score /\ v <= answer.video
           /\ answer # Absent => answer.score = Value(pool, answer.video, answer.frames)

\* Refinement never makes the answer worse: no sequence of what the searches found
\* is better than the answer, whatever was decoded and whatever failed.
RefinementKeeps ==
    phase = "done" /\ backend = "siglip2" =>
        \A v \in VideoIds : \A p \in Sequences(found, v, MaxGap) :
            answer # Absent /\ Value(found, v, p) <= answer.score

\* The limits never keep the best candidate from being looked at (if the limit on
\* the sum is not below the one per video, as it is by default).
BestCandidateIsRefined ==
    phase \in {"decode", "merge"} =>
        \E v \in VideoIds : \E c \in Found(v) :
            /\ \A w \in VideoIds : \A d \in Found(w) : d.score <= c.score
            /\ \E r \in regions[v] : c.frame \in r.first..r.last

\* Refinement looks only near to what was found in the same video, and always at the
\* best candidate.  There are no more regions than the configuration allows, in a video
\* and in all, and no frame is in two of them.
RegionsAreSound ==
    /\ EventTypeOK
    /\ BestCandidateIsRefined
    /\ \A e \in DOMAIN pool : \A c \in pool[e] :
           \E d \in Found(c.video) : c.frame - d.frame \in -Window..Window
    /\ TotalRegions <= MaxTotal
    /\ \A v \in VideoIds :
        /\ Cardinality(regions[v]) <= MaxPerVideo
        /\ \A r, q \in regions[v] : r # q => r.last < q.first \/ q.last < r.first

\* No more than max_frames_per_region frames of a region are decoded, as
\* docs/RUNTIME_CONFIG.md promises.
FramesWithinLimit ==
    \A v \in VideoIds : \A r \in regions[v] : Cardinality(dense[v] \cap (r.first..r.last)) <= MaxFrames

\* A request is refused only if no video covers every event in increasing order.
RefusalIsRight ==
    phase = "refused" => \A v \in VideoIds : Sequences(found, v, Absent) = {}
=============================================================================
