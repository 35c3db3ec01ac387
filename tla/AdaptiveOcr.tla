------------------------------ MODULE AdaptiveOcr ------------------------------
(***************************************************************************)
(* AdaptiveOCRBackend: the text of the frames of a video, read by a        *)
(* primary engine and, when that fails or finds nothing certain, by a      *)
(* second one.  After some failures in a row the first is not used again:  *)
(* the backend outlives the videos of a run.                               *)
(***************************************************************************)
EXTENDS Naturals, Sequences

CONSTANTS
    Readers,     \* its configurations [onEmpty, onError, onLow, threshold]
    Images,      \* images of a video
    MaxImages    \* bound of the model: readings of all videos

ASSUME ReaderAssumption == \A r \in Readers : r.threshold \in Nat

\* What an engine makes of an image; "low" is text of little confidence.
Readings == {"raised", "empty", "low", "text"}

VARIABLES
    reader,      \* the configuration
    breaker,     \* [failures, tripped]
    output,      \* the texts of the video so far, each [engine, reading]
    attempts     \* for each image of all videos what the primary engine did, or "skipped", and
                 \* whether an engine raised under the watch of the breaker

ocrVars == <<reader, breaker, output, attempts>>

OcrInit ==
    /\ reader \in Readers
    /\ breaker = [failures |-> 0, tripped |-> FALSE]
    /\ output = <<>> /\ attempts = <<>>

Text(engine, reading) == [engine |-> engine, reading |-> reading]
Tried(first, raised) == attempts' = Append(attempts, [first |-> first, raised |-> raised])

\* extract raises: the texts read so far are lost.
RaiseOcr == output' = <<>>
Read(text) == output' = Append(output, text)

\* A result of the second engine that is not used for lack of text counts for nothing.
Preferred(first, second) ==
    \/ first = "empty" /\ reader.onEmpty /\ second \in {"low", "text"}
    \/ first = "low" /\ reader.onLow
AskedFor(first) == (first = "empty" /\ reader.onEmpty) \/ (first = "low" /\ reader.onLow)

\* Mutant of Succeed: the count goes on over successes.
SucceedUncounted == breaker' = breaker

Succeed == breaker' = [breaker EXCEPT !.failures = 0]

\* except: one failure more, after the reset of a primary reading that succeeded.
FailAfter(failures) ==
    breaker' = [failures |-> failures + 1, tripped |-> breaker.tripped \/ failures + 1 >= reader.threshold]

More == Len(output) < Images /\ Len(attempts) < MaxImages

\* Tripped: the second engine only.
ReadTripped(second) ==
    /\ More /\ breaker.tripped
    /\ IF second = "raised" THEN RaiseOcr ELSE Read(Text("fallback", second))
    /\ Tried("skipped", FALSE)
    /\ UNCHANGED <<reader, breaker>>

\* The primary engine reads, and the second one does not raise if it is asked.
ReadPrimary(first, second) ==
    /\ More /\ ~breaker.tripped /\ first # "raised" /\ (AskedFor(first) => second # "raised")
    /\ Read(IF Preferred(first, second) THEN Text("fallback", second) ELSE Text("primary", first))
    /\ Tried(first, FALSE)
    /\ Succeed
    /\ UNCHANGED reader

\* An exception of either engine: the second one is asked, for the second time if the
\* exception was its own.
ReadAfterError(first, second, again) ==
    /\ More /\ ~breaker.tripped /\ (first = "raised" \/ (AskedFor(first) /\ second = "raised"))
    /\ IF reader.onError /\ again # "raised" THEN Read(Text("fallback", again)) ELSE RaiseOcr
    /\ Tried(first, TRUE)
    /\ FailAfter(IF first = "raised" THEN breaker.failures ELSE 0)
    /\ UNCHANGED reader

\* The next video, with the same backend.
NextVideo ==
    /\ output # <<>>
    /\ output' = <<>>
    /\ UNCHANGED <<reader, breaker, attempts>>

OcrNext ==
    \/ NextVideo
    \/ \E first, second, again \in Readings :
           ReadTripped(second) \/ ReadPrimary(first, second) \/ ReadAfterError(first, second, again)

-----------------------------------------------------------------------------
(* Properties *)

\* The primary engine is given up only after as many images in a row as the threshold
\* says, over all videos, at which reading raised; the first of them may be one that
\* the primary engine had read, the others it failed on itself.  And what it reads well
\* is never lost to the second engine.
BreakerIsEarned ==
    /\ breaker.tripped =>
           \E n \in DOMAIN attempts :
               /\ n >= reader.threshold
               /\ \A m \in (n - reader.threshold + 1)..n : attempts[m].raised
               /\ \A m \in (n - reader.threshold + 2)..n : attempts[m].first = "raised"
    /\ \A i \in DOMAIN output : output[i].engine = "fallback" /\ Len(attempts) >= Len(output) =>
           attempts[Len(attempts) - Len(output) + i].first # "text"
=============================================================================
