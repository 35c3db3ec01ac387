------------------------------ MODULE SearchPage ------------------------------
(***************************************************************************)
(* The search page: frontend/src/scripts/app.js with shortcuts.js, and the *)
(* server behind it (SearchApi).                                           *)
(*                                                                         *)
(* The page runs one handler at a time, but it waits twice: for the answer *)
(* of a search and for the clipboard.  Meanwhile every key and button      *)
(* works, and several searches can be under way.  A request is known by    *)
(* the value requestVersion had when it was sent.                          *)
(***************************************************************************)
EXTENDS SearchApi, Integers, FiniteSets

CONSTANTS
    Images,      \* the files a user may choose
    Shapes,      \* the results a server may return, as far as a row needs them
    MaxResults,  \* bound: results in an answer (the page asks for 100)
    MaxVersion,  \* bound: searches sent and cancelled in a behaviour
    MaxCopies    \* bound: clipboard writes under way at a time

ASSUME PageAssumption ==
    /\ \A file \in Images : file.size \in Nat
    /\ \A shape \in Shapes : "search" \in DOMAIN shape   \* the search it will answer

VARIABLES
    mode, status, query, events, image,   \* state.mode ... and the inputs
    busy, clearable,                      \* disabled buttons: submit, clear image
    timing,                               \* the latency timer runs
    version, pending,                     \* requestVersion; requests not answered
    results, selected, lastMode, lastCount,
    cards,                                \* how many result cards are on screen
    copying, clipboard                    \* rows being written; the row there

inputs == <<query, events, image, clearable>>
search == <<version, pending, busy, timing>>
found  == <<results, selected, lastMode, lastCount, cards>>
copied == <<copying, clipboard>>
vars   == <<mode, status, inputs, search, found, copied>>

Modes   == {"kis", "qa", "trake", "image"}
UiStates == {"idle", "loading", "success", "empty", "error"}

Init ==
    /\ mode = "kis" /\ status = "idle"
    /\ query = FALSE /\ events = <<FALSE>> /\ image = None
    /\ busy = FALSE /\ clearable = FALSE /\ timing = FALSE
    /\ version = 0 /\ pending = {}
    /\ results = <<>> /\ selected = -1 /\ lastMode = None /\ lastCount = None /\ cards = 0
    /\ copying = {} /\ clipboard = None

-----------------------------------------------------------------------------
(* Helpers of app.js *)

SetBusy(b) == busy' = b /\ clearable' = (~b /\ image # None)

\* Mutant of ResetOutput: the timer runs on.
ResetOutputTiming ==
    /\ timing' = timing /\ results' = <<>> /\ selected' = -1
    /\ lastMode' = None /\ lastCount' = None /\ cards' = 0
    /\ status' = "idle"

ResetOutput ==
    /\ timing' = FALSE /\ results' = <<>> /\ selected' = -1
    /\ lastMode' = None /\ lastCount' = None /\ cards' = 0
    /\ status' = "idle"

\* buildSubmissionRow yields a row, and no error.
HasRow(item, m, count) ==
    /\ item.video = "named"
    /\ CASE m = "trake" -> /\ item.frames > 0 /\ item.integer
                           /\ count # None => item.frames = count
         [] m = "qa"    -> item.integer /\ item.answer = "short"
         [] m = "kis"   -> item.integer
         [] m = "image" -> FALSE

\* Mutant of ValidateCurrentInput: one event with text will do.
ValidateSomeInput ==
    CASE mode \in {"kis", "qa"} -> query
      [] mode = "trake" -> \E i \in DOMAIN events : events[i]
      [] mode = "image" -> ValidateImageFile(image)

ValidateCurrentInput ==
    CASE mode \in {"kis", "qa"} -> query
      [] mode = "trake" -> events # <<>> /\ \A i \in DOMAIN events : events[i]
      [] mode = "image" -> ValidateImageFile(image)

-----------------------------------------------------------------------------
(* Inputs *)

TypeQuery ==
    /\ mode \in {"kis", "qa"} /\ query' = ~query
    /\ UNCHANGED <<mode, status, events, image, clearable, search, found, copied>>

TypeEvent ==
    /\ mode = "trake" /\ \E i \in DOMAIN events : events' = [events EXCEPT ![i] = ~@]
    /\ UNCHANGED <<mode, status, query, image, clearable, search, found, copied>>

AddTrakeEvent ==
    /\ mode = "trake" /\ status # "loading"
    /\ IF Len(events) >= MaxEvents
       THEN status' = "error" /\ UNCHANGED events
       ELSE events' = Append(events, FALSE) /\ UNCHANGED status
    /\ UNCHANGED <<mode, query, image, clearable, search, found, copied>>

RemoveTrakeEvent ==
    /\ mode = "trake" /\ status # "loading"
    /\ \E i \in DOMAIN events :
           events' = [j \in 1..(Len(events) - 1) |-> IF j < i THEN events[j] ELSE events[j + 1]]
    /\ UNCHANGED <<mode, status, query, image, clearable, search, found, copied>>

\* The file chooser stays enabled while a search runs.
SelectImage ==
    /\ mode = "image"
    /\ \E file \in Images :
           IF ValidateImageFile(file)
           THEN image' = file /\ clearable' = TRUE /\ status' = "idle"
           ELSE image' = None /\ clearable' = FALSE /\ status' = "error"
    /\ UNCHANGED <<mode, query, events, search, found, copied>>

\* The user leaves the chooser without a file.
CancelSelection ==
    /\ mode = "image" /\ image' = None /\ clearable' = FALSE
    /\ UNCHANGED <<mode, status, query, events, search, found, copied>>

ClearImage ==
    /\ mode = "image" /\ clearable
    /\ image' = None /\ clearable' = FALSE /\ status' = "idle"
    /\ UNCHANGED <<mode, query, events, search, found, copied>>

\* A search under way is given up, but only if the status still says "loading".
SetMode ==
    \E m \in Modes :
        LET cancelled == status = "loading" IN
        /\ mode' = m
        /\ IF cancelled
           THEN version < MaxVersion /\ version' = version + 1 /\ SetBusy(FALSE)
           ELSE UNCHANGED <<version, busy, clearable>>
        /\ IF cancelled \/ m # mode
           THEN ResetOutput
           ELSE UNCHANGED <<status, timing, found>>
        /\ UNCHANGED <<query, events, image, pending, copied>>

-----------------------------------------------------------------------------
(* Searching *)

\* Enter submits whether or not the button is disabled.
SubmitInvalid ==
    /\ status # "loading" /\ ~ValidateCurrentInput
    /\ status' = "error"
    /\ UNCHANGED <<mode, inputs, search, found, copied>>

Submit ==
    /\ status # "loading" /\ ValidateCurrentInput
    /\ version < MaxVersion /\ version' = version + 1
    /\ pending' = pending \cup {[version |-> version', body |-> Posted(mode, query, events, image)]}
    /\ status' = "loading" /\ SetBusy(TRUE) /\ timing' = TRUE /\ cards' = 0
    /\ UNCHANGED <<mode, query, events, image, results, selected, lastMode, lastCount, copied>>

\* An answer to a request that is no longer the latest changes nothing.
Overtaken(r) ==
    /\ pending' = pending \ {r}
    /\ UNCHANGED <<mode, status, inputs, version, busy, timing, found, copied>>

\* A result remembers the search it answers.
Item(r, shape) == [shape EXCEPT !.search = [version |-> r.version, mode |-> r.body.mode, count |-> Len(r.body.events)]]

\* A card for every result; the first one is selected.
RenderResults(items) ==
    /\ results' = items
    /\ cards' = Len(items) /\ selected' = IF items = <<>> THEN -1 ELSE 0

Answered(r, shapes) ==
    /\ pending' = pending \ {r}
    /\ RenderResults([i \in DOMAIN shapes |-> Item(r, shapes[i])])
    /\ lastMode' = r.body.mode
    /\ lastCount' = IF r.body.mode = "trake" THEN Len(r.body.events) ELSE None
    /\ status' = IF shapes = <<>> THEN "empty" ELSE "success"
    /\ SetBusy(FALSE) /\ timing' = FALSE
    /\ UNCHANGED <<mode, query, events, image, version, copied>>

\* Mutant of Failed: the buttons stay as they are.
FailedBusy(r) ==
    /\ pending' = pending \ {r}
    /\ cards' = 0 /\ status' = "error" /\ timing' = FALSE
    /\ UNCHANGED <<mode, inputs, busy, version, results, selected, lastMode, lastCount, copied>>

\* The cards go, but results, selected and lastMode stay as they were.
Failed(r) ==
    /\ pending' = pending \ {r}
    /\ cards' = 0 /\ status' = "error" /\ SetBusy(FALSE) /\ timing' = FALSE
    /\ UNCHANGED <<mode, query, events, image, version, results, selected, lastMode, lastCount, copied>>

\* Mutant of Respond: every answer is shown.
RespondAnyway(r) == \/ Failed(r) \/ \E s \in Shapes : Answered(r, <<s>>)

\* The answer arrives, or the network fails; the server may have been restarted
\* with another configuration.
Respond(r) ==
    \/ /\ r.version # version /\ Overtaken(r)
    \/ /\ r.version = version
       /\ \E server \in Servers, outcome \in Outcomes :
              IF IsData(Status(server, r.body, outcome))
              THEN \E n \in 0..MaxResults : \E shapes \in [1..n -> Shapes] : Answered(r, shapes)
              ELSE Failed(r)
    \/ /\ r.version = version /\ Failed(r)

-----------------------------------------------------------------------------
(* Results and the clipboard *)

ClickCard ==
    /\ \E i \in 0..(cards - 1) : selected' = i
    /\ UNCHANGED <<mode, status, inputs, search, results, lastMode, lastCount, cards, copied>>

\* setSelectedResultIndex counts the cards on screen, the guard the results kept.
MoveResultSelection ==
    /\ results # <<>>
    /\ \E delta \in {-1, 1} :
           LET target == (IF selected >= 0 THEN selected ELSE 0) + delta IN
           selected' = CASE cards = 0 -> -1
                         [] cards > 0 /\ target < 0 -> 0
                         [] cards > 0 /\ target >= cards -> cards - 1
                         [] OTHER -> target
    /\ UNCHANGED <<mode, status, inputs, search, results, lastMode, lastCount, cards, copied>>

CopySubmission(item, m, count) ==
    IF HasRow(item, m, count)
    THEN /\ Cardinality(copying) < MaxCopies
         /\ copying' = copying \cup {[item |-> item, mode |-> m]}
         /\ UNCHANGED status
    ELSE status' = "error" /\ UNCHANGED copying

\* The key C.
CopySelectedResult ==
    /\ IF selected \in 0..(Len(results) - 1) /\ lastMode # None
       THEN CopySubmission(results[selected + 1], lastMode, lastCount)
       ELSE status' = "error" /\ UNCHANGED copying
    /\ UNCHANGED <<mode, inputs, search, found, clipboard>>

\* The button of a card, disabled if there is no row; it selects the card too.
ClickCopy ==
    /\ \E i \in 1..cards :
           /\ HasRow(results[i], lastMode, lastCount)
           /\ CopySubmission(results[i], lastMode, lastCount)
           /\ selected' = i - 1
    /\ UNCHANGED <<mode, inputs, search, results, lastMode, lastCount, cards, clipboard>>

Copied(row) ==
    /\ copying' = copying \ {row}
    /\ \/ clipboard' = row /\ status' = "success"
       \/ UNCHANGED clipboard /\ status' = "error"
    /\ UNCHANGED <<mode, inputs, search, found>>

Next ==
    \/ TypeQuery \/ TypeEvent \/ AddTrakeEvent \/ RemoveTrakeEvent
    \/ SelectImage \/ CancelSelection \/ ClearImage \/ SetMode
    \/ SubmitInvalid \/ Submit
    \/ \E r \in pending : Respond(r)
    \/ ClickCard \/ MoveResultSelection \/ CopySelectedResult \/ ClickCopy
    \/ \E row \in copying : Copied(row)

\* The browser settles every fetch: with an answer or with a failure.
Answering == \E r \in pending : r.version = version /\ Respond(r)

Spec == Init /\ [][Next]_vars /\ WF_vars(Answering)

-----------------------------------------------------------------------------
(* Properties *)

Rows == copying \cup (IF clipboard = None THEN {} ELSE {clipboard})

\* The cards on screen answer the request that was sent last and not given up: an
\* answer that comes after another search, or after a change of mode that gave its
\* search up, is not shown (the tests of requestVersion in submitSearch, the increments
\* there and in setMode).  A change of mode gives a search up only while the status says
\* "loading": after a copy or a new image has overwritten the status, it does not, and
\* the answer is shown in the new mode.
CardsAnswerLastSearch ==
    cards > 0 => /\ cards = Len(results)
                 /\ \A i \in DOMAIN results : results[i].search.version = version

\* A row on its way to the clipboard has the form of the search it comes from, for
\* TRAKE one frame for every event that was sent, whatever failed, was cancelled or
\* was edited since (lastResultMode and lastTrakeEventCount kept next to results).
RowsFitTheirSearch ==
    \A row \in Rows :
        /\ row.mode = row.item.search.mode
        /\ row.mode = "trake" => row.item.frames = row.item.search.count

\* Results, the search they answer and the rows made of them stay together.
ResultsStayTogether == CardsAnswerLastSearch /\ RowsFitTheirSearch

\* The submit button is disabled exactly while the request sent last is not
\* answered, and the latency timer runs at most as long (setBusy, stopLatencyTimer
\* in setMode and in both branches of submitSearch).
BusyWhilePending ==
    /\ busy <=> \E r \in pending : r.version = version
    /\ timing => busy

\* What the page lets through is not refused by the server's own checks, except
\* for what the page cannot see in a file and for the multipart headers, which
\* count against the server's limit and not the page's.
ValidatedIsAccepted ==
    \A r \in pending :
        \/ Check("ready", r.body) = 200
        \/ /\ r.body.mode = "image"
           /\ r.body.image.size \in {0} \cup (MaxImageBytes - Overhead + 1)..MaxImageBytes \/ ~r.body.image.decodes

\* The page does not stay busy (the finally of submitSearch).
SearchEnds == busy ~> ~busy

\* A row that is copied is one of those on screen.
CopiesWhatIsShown ==
    [][\A row \in copying' \ copying : cards > 0 /\ row.item.search.version = version]_vars
=============================================================================
