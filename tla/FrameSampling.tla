----------------------------- MODULE FrameSampling -----------------------------
(***************************************************************************)
(* Which frames of a video are kept: every so often the one nearest to a   *)
(* point in time, while the video is decoded (iter_sample_frames), the     *)
(* middle of every shot (sample_sparse_shot_frames_with_protection), and   *)
(* of these the ones that differ (filter_near_duplicate_frames).           *)
(*                                                                         *)
(* VideoIngestion takes the result as a constant.                          *)
(***************************************************************************)
EXTENDS Integers, Sequences, FiniteSetsExt

CONSTANTS
    Recordings,   \* [times, shots, interval, sparse, dedup, look]: when each frame is shown, or NoTime;
                  \* the shots found; the settings; what each frame looks like
    NoTime

\* A frame with a time is not shown before one that was decoded earlier.
ASSUME RecordingAssumption ==
    /\ NoTime \notin Int
    /\ \A r \in Recordings :
        /\ r.times \in Seq(Int \cup {NoTime})
        /\ \A f, g \in DOMAIN r.times :
               f < g /\ NoTime \notin {r.times[f], r.times[g]} => r.times[f] <= r.times[g]
        /\ r.shots \in Seq(Int \X Int)
        /\ r.interval \in Nat \ {0}

VARIABLES
    recording,
    decoded,      \* frames decoded so far
    sampler,      \* [previous, target, last]: local variables of iter_sample_frames
    periodic,     \* frames it has yielded
    sample,       \* for each frame sampled [reason, shot]
    shielded,     \* the protected frames
    kept,         \* the frames whose records and embeddings stay
    sampling      \* "decode", "filter", "done" or "failed"

sampleVars == <<recording, decoded, sampler, periodic, sample, shielded, kept, sampling>>

Time(f) == recording.times[f]
Timed == {f \in DOMAIN recording.times : Time(f) # NoTime}
Distance(a, b) == IF a < b THEN b - a ELSE a - b

SampleInit ==
    /\ recording \in Recordings
    /\ decoded = 0
    /\ sampler = [previous |-> 0, target |-> 0, last |-> 0]
    /\ periodic = {} /\ sample = <<>> /\ shielded = {} /\ kept = {}
    /\ sampling = "decode"

-----------------------------------------------------------------------------
(* iter_sample_frames *)

Due(f) == {x \in sampler.target..Time(f) : (x - sampler.target) % recording.interval = 0}

\* Mutant of Nearest: the frame before, always.
NearestEarlier(x, f, g) == f

\* The frame before on a tie.
Nearest(x, f, g) == IF Distance(Time(g), x) < Distance(Time(f), x) THEN g ELSE f

\* One frame of the loop; one without a time is passed over.
DecodeFrame ==
    /\ sampling = "decode" /\ decoded < Len(recording.times)
    /\ decoded' = decoded + 1
    /\ LET f == decoded'
           before == IF sampler.previous = 0 THEN f ELSE sampler.previous
           picks == {Nearest(x, before, f) : x \in Due(f)} \ {sampler.last}
       IN  IF f \notin Timed THEN UNCHANGED <<sampler, periodic>>
           ELSE /\ periodic' = periodic \cup picks
                /\ sampler' = [previous |-> f,
                               target   |-> IF Due(f) = {} THEN sampler.target ELSE Max(Due(f)) + recording.interval,
                               last     |-> IF picks = {} THEN sampler.last ELSE Max(picks)]
    /\ UNCHANGED <<recording, sample, shielded, kept, sampling>>

-----------------------------------------------------------------------------
(* sample_sparse_shot_frames_with_protection *)

Valid(shot) == shot[1] >= 0 /\ shot[1] <= shot[2]
InWindow(shot) == {f \in Timed : Time(f) \in shot[1]..shot[2]}

\* The frame nearest to the middle, of those in the shot if there are any.
Midpoint(shot) ==
    LET among == IF InWindow(shot) = {} THEN Timed ELSE InWindow(shot)
        Off(f) == Distance(2 * Time(f), shot[1] + shot[2])
    IN  Min({f \in among : \A g \in among : Off(f) <= Off(g)})

Shots == IF recording.sparse THEN {i \in DOMAIN recording.shots : Valid(recording.shots[i])} ELSE {}
ShotsAt(f) == {i \in Shots : Midpoint(recording.shots[i]) = f}

\* The end of the video: there must be a frame with a time.
EndOfVideo ==
    /\ sampling = "decode" /\ decoded = Len(recording.times)
    /\ IF Timed = {} THEN sampling' = "failed" /\ UNCHANGED <<sample, shielded>>
       ELSE /\ sampling' = "filter"
            /\ shielded' = {f \in Timed : ShotsAt(f) # {}}
            /\ sample' = [f \in periodic \cup shielded' |->
                    [reason |-> (IF f \in periodic THEN {"periodic"} ELSE {}) \cup (IF f \in shielded' THEN {"shot"} ELSE {}),
                     shot   |-> IF f \in shielded' THEN Max(ShotsAt(f)) ELSE 0]]
    /\ UNCHANGED <<recording, decoded, sampler, periodic, kept>>

-----------------------------------------------------------------------------
(* filter_near_duplicate_frames *)

\* A similarity at or above the threshold; of three frames the first two and the last
\* two may be alike and the first and the last not.
Alike(f, g) == Distance(recording.look[f], recording.look[g]) <= 1

\* Each frame against the last one that was retained.
Retained(frames) ==
    LET last[f \in 0..Len(recording.times)] ==
            IF f = 0 THEN 0
            ELSE IF f \in frames /\ (last[f - 1] = 0 \/ f \in shielded \/ ~Alike(f, last[f - 1])) THEN f
            ELSE last[f - 1]
    IN  {f \in frames : last[f] = f}

FilterFrames ==
    /\ sampling = "filter"
    /\ kept' = IF recording.dedup THEN Retained(DOMAIN sample) ELSE DOMAIN sample
    /\ sampling' = "done"
    /\ UNCHANGED <<recording, decoded, sampler, periodic, sample, shielded>>

SampleNext == DecodeFrame \/ EndOfVideo \/ FilterFrames

-----------------------------------------------------------------------------
(* Properties *)

\* Every point in time up to the end has a frame in the sample to which no frame is
\* nearer, whatever gaps there are between the frames, and a shot that has frames has one
\* of them, which is never dropped.  Of the others only those are dropped that look like
\* a kept one before them, so a slow change cannot drop a whole scene.
SamplesCoverTheVideo ==
    sampling = "done" =>
        /\ \A x \in 0..Time(Max(Timed)) : x % recording.interval = 0 =>
               \E f \in DOMAIN sample : \A g \in Timed : Distance(Time(f), x) <= Distance(Time(g), x)
        /\ \A i \in Shots : InWindow(recording.shots[i]) # {} =>
               \E f \in kept \cap InWindow(recording.shots[i]) : "shot" \in sample[f].reason
        /\ \A f \in DOMAIN sample : \E g \in kept : g <= f /\ (g = f \/ Alike(f, g))
=============================================================================
