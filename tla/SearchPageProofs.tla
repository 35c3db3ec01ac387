--------------------------- MODULE SearchPageProofs ---------------------------
(***************************************************************************)
(* The safety of the search page, for any files, results and limits, and   *)
(* any number of searches, cancellations and copies.                       *)
(*                                                                         *)
(* Requests are numbered, so the latest is the only one of its number; the *)
(* results that are kept, on screen or not, are of one search, whose mode  *)
(* and number of events are kept beside them; and what is sent has passed  *)
(* the checks of the page, whose inputs stay within its limits.            *)
(***************************************************************************)
EXTENDS SearchPage, TLAPS

PageTypeOK ==
    /\ mode \in Modes
    /\ events \in Seq(BOOLEAN) /\ Len(events) <= MaxEvents
    /\ image \in Images \cup {None}
    /\ version \in Nat /\ cards \in Nat
    /\ DOMAIN results = 1..Len(results) /\ Len(results) \in Nat

\* What the server's checks make of a request that the page has let through.
Sent(body) ==
    /\ body.events \in Seq(BOOLEAN)
    /\ \/ Check("ready", body) = 200
       \/ /\ body.mode = "image"
          /\ body.image.size \in {0} \cup (MaxImageBytes - Overhead + 1)..MaxImageBytes \/ ~body.image.decodes

PendingInv ==
    /\ \A r \in pending : r.version \in 0..version /\ Sent(r.body)
    /\ \A r, s \in pending : r.version = s.version => r = s

\* What is kept of a search.
KeptInv ==
    \A i \in DOMAIN results :
        /\ results[i].search.mode = lastMode
        /\ lastMode = "trake" => results[i].search.count = lastCount /\ lastCount # None

PageInv == PageTypeOK /\ PendingInv /\ KeptInv /\ ResultsStayTogether /\ BusyWhilePending

LEMMA PageInvInit == Init => PageInv
<1> SUFFICES ASSUME Init PROVE PageInv
    OBVIOUS
<1>1. PageTypeOK
    BY ApiAssumption DEF Init, PageTypeOK, Modes
<1>2. PendingInv /\ KeptInv /\ BusyWhilePending
    BY DEF Init, PendingInv, KeptInv, BusyWhilePending
<1>3. ResultsStayTogether
    BY DEF Init, ResultsStayTogether, CardsAnswerLastSearch, RowsFitTheirSearch, Rows
<1> QED BY <1>1, <1>2, <1>3 DEF PageInv

-----------------------------------------------------------------------------
(* What the actions leave alone *)

LEMMA PendingStays ==
    ASSUME PendingInv, UNCHANGED <<version, pending>>
    PROVE  PendingInv'
    BY DEF PendingInv, Sent, Check, ImageCheck, SearchCheck, ReadLimitedBody, MultipartFile, DecodeImage

LEMMA FoundStays ==
    ASSUME PageInv, UNCHANGED <<results, lastMode, lastCount>>
    PROVE  KeptInv'
    BY DEF PageInv, KeptInv

LEMMA CopiedStays ==
    ASSUME RowsFitTheirSearch, UNCHANGED copied
    PROVE  RowsFitTheirSearch'
    BY DEF RowsFitTheirSearch, Rows, copied

LEMMA BusyStays ==
    ASSUME BusyWhilePending, UNCHANGED search
    PROVE  BusyWhilePending'
    BY DEF BusyWhilePending, search

\* A step on the inputs, the selection or the status alone.
LEMMA NothingFound ==
    ASSUME PageInv, UNCHANGED <<search, results, lastMode, lastCount, cards, copied>>, PageTypeOK'
    PROVE  PageInv'
<1>1. PendingInv'
    BY PendingStays DEF PageInv, search
<1>2. KeptInv'
    BY FoundStays
<1>3. RowsFitTheirSearch'
    BY CopiedStays DEF PageInv, ResultsStayTogether
<1>4. CardsAnswerLastSearch'
    BY DEF PageInv, ResultsStayTogether, CardsAnswerLastSearch, search
<1>5. BusyWhilePending'
    BY BusyStays DEF PageInv
<1> QED BY <1>1, <1>2, <1>3, <1>4, <1>5 DEF PageInv, ResultsStayTogether

-----------------------------------------------------------------------------
(* Inputs *)

LEMMA InputsTyped ==
    ASSUME PageInv, TypeQuery \/ TypeEvent \/ AddTrakeEvent \/ RemoveTrakeEvent \/ SelectImage \/ CancelSelection \/ ClearImage
    PROVE  PageTypeOK'
<1>0. PageTypeOK
    BY DEF PageInv
<1>1. UNCHANGED <<mode, version, cards, results>>
    BY DEF TypeQuery, TypeEvent, AddTrakeEvent, RemoveTrakeEvent, SelectImage, CancelSelection, ClearImage, search, found
<1>2. events' \in Seq(BOOLEAN) /\ Len(events') <= MaxEvents
    <2>1. CASE UNCHANGED events
        BY <1>0, <2>1 DEF PageTypeOK
    <2>2. CASE TypeEvent
        <3>1. PICK i \in DOMAIN events : events' = [events EXCEPT ![i] = ~@]
            BY <2>2 DEF TypeEvent
        <3> QED BY <1>0, <3>1 DEF PageTypeOK
    <2>3. CASE events' = Append(events, FALSE) /\ ~(Len(events) >= MaxEvents)
        BY <1>0, <2>3, ApiAssumption DEF PageTypeOK
    <2>4. CASE RemoveTrakeEvent
        <3>1. PICK i \in DOMAIN events :
                  events' = [j \in 1..(Len(events) - 1) |-> IF j < i THEN events[j] ELSE events[j + 1]]
            BY <2>4 DEF RemoveTrakeEvent
        <3>2. Len(events) \in Nat /\ Len(events) - 1 \in Nat /\ DOMAIN events = 1..Len(events)
            BY <1>0, <3>1 DEF PageTypeOK
        <3>3. \A j \in 1..(Len(events) - 1) : events[j] \in BOOLEAN /\ events[j + 1] \in BOOLEAN
            BY <1>0, <3>2 DEF PageTypeOK
        <3>4. events' \in Seq(BOOLEAN) /\ Len(events') = Len(events) - 1
            BY <3>1, <3>2, <3>3
        <3> QED BY <1>0, <3>2, <3>4, ApiAssumption DEF PageTypeOK
    <2> QED BY <2>1, <2>2, <2>3, <2>4 DEF TypeQuery, AddTrakeEvent, SelectImage, CancelSelection, ClearImage
<1>3. image' \in Images \cup {None}
    BY <1>0 DEF PageTypeOK, TypeQuery, TypeEvent, AddTrakeEvent, RemoveTrakeEvent, SelectImage, CancelSelection, ClearImage
<1> QED BY <1>0, <1>1, <1>2, <1>3 DEF PageTypeOK

LEMMA InputsKeep ==
    ASSUME PageInv, TypeQuery \/ TypeEvent \/ AddTrakeEvent \/ RemoveTrakeEvent \/ SelectImage \/ CancelSelection \/ ClearImage
    PROVE  PageInv'
<1>1. UNCHANGED <<search, results, lastMode, lastCount, cards, copied>>
    BY DEF TypeQuery, TypeEvent, AddTrakeEvent, RemoveTrakeEvent, SelectImage, CancelSelection, ClearImage, found
<1> QED BY <1>1, InputsTyped, NothingFound

\* A search that is given up has no successor yet: nothing is pending with its number.
LEMMA SetModeKeeps ==
    ASSUME PageInv, SetMode
    PROVE  PageInv'
<1>0. PageTypeOK /\ PendingInv /\ KeptInv /\ CardsAnswerLastSearch /\ RowsFitTheirSearch /\ BusyWhilePending
    BY DEF PageInv, ResultsStayTogether
<1>1. PICK m \in Modes :
          /\ mode' = m
          /\ IF status = "loading"
             THEN version < MaxVersion /\ version' = version + 1 /\ SetBusy(FALSE)
             ELSE UNCHANGED <<version, busy, clearable>>
          /\ IF status = "loading" \/ m # mode
             THEN ResetOutput
             ELSE UNCHANGED <<status, timing, found>>
          /\ UNCHANGED <<query, events, image, pending, copied>>
    BY DEF SetMode
<1>2. RowsFitTheirSearch'
    BY <1>0, <1>1, CopiedStays
<1>3. version' \in Nat /\ version' >= version
    <2>1. version \in Nat
        BY <1>0 DEF PageTypeOK
    <2>2. CASE status = "loading"
        BY <1>1, <2>1, <2>2
    <2>3. CASE status # "loading"
        BY <1>1, <2>1, <2>3
    <2> QED BY <2>2, <2>3
<1>4. PendingInv'
    <2>1. \A r \in pending' : r.version \in 0..version' /\ Sent(r.body)'
        BY <1>0, <1>1, <1>3 DEF PendingInv, PageTypeOK, Sent, Check, ImageCheck, SearchCheck, ReadLimitedBody, MultipartFile, DecodeImage
    <2> QED BY <1>0, <1>1, <2>1 DEF PendingInv
<1>5. CASE status = "loading"
    <2>1. results' = <<>> /\ cards' = 0 /\ busy' = FALSE /\ timing' = FALSE /\ version' = version + 1 /\ mode' \in Modes
        BY <1>1, <1>5 DEF ResetOutput, SetBusy
    <2>2. \A r \in pending' : r.version # version'
        BY <1>0, <1>1, <2>1 DEF PendingInv, PageTypeOK
    <2>3. PageTypeOK'
        BY <1>0, <1>1, <2>1 DEF PageTypeOK
    <2>4. KeptInv' /\ CardsAnswerLastSearch' /\ BusyWhilePending'
        BY <2>1, <2>2 DEF KeptInv, CardsAnswerLastSearch, BusyWhilePending
    <2> QED BY <1>2, <1>4, <2>3, <2>4 DEF PageInv, ResultsStayTogether
<1>6. CASE status # "loading" /\ m # mode
    <2>1. results' = <<>> /\ cards' = 0 /\ timing' = FALSE /\ UNCHANGED <<version, busy, pending>> /\ mode' \in Modes
        BY <1>1, <1>6 DEF ResetOutput
    <2>2. PageTypeOK'
        BY <1>0, <1>1, <2>1 DEF PageTypeOK
    <2>3. KeptInv' /\ CardsAnswerLastSearch'
        BY <2>1 DEF KeptInv, CardsAnswerLastSearch
    <2>4. BusyWhilePending'
        BY <1>0, <2>1 DEF BusyWhilePending
    <2> QED BY <1>2, <1>4, <2>2, <2>3, <2>4 DEF PageInv, ResultsStayTogether
<1>7. CASE status # "loading" /\ m = mode
    <2>1. UNCHANGED <<search, results, lastMode, lastCount, cards, copied, mode, events, image>>
        BY <1>1, <1>7 DEF found, search
    <2>2. PageTypeOK'
        BY <1>0, <2>1 DEF PageTypeOK, search
    <2> QED BY <2>1, <2>2, NothingFound
<1> QED BY <1>5, <1>6, <1>7

-----------------------------------------------------------------------------
(* Searching *)

\* What the page lets through passes the checks of a server that is ready.
LEMMA PostedIsSent ==
    ASSUME PageTypeOK, ValidateCurrentInput
    PROVE  Sent(Posted(mode, query, events, image))
<1> DEFINE body == Posted(mode, query, events, image)
<1>1. body.mode = mode /\ body.query = (mode \in {"kis", "qa"} /\ query)
    BY DEF Posted
<1>2. body.events = (IF mode = "trake" THEN events ELSE <<>>) /\ body.image = (IF mode = "image" THEN image ELSE None)
    BY DEF Posted
<1> HIDE DEF body
<1>3. body.events \in Seq(BOOLEAN)
    <2>1. events \in Seq(BOOLEAN) /\ <<>> \in Seq(BOOLEAN)
        BY DEF PageTypeOK
    <2>2. CASE mode = "trake"
        BY <1>2, <2>1, <2>2
    <2>3. CASE mode # "trake"
        BY <1>2, <2>1, <2>3
    <2> QED BY <2>2, <2>3
<1>4. CASE mode \in {"kis", "qa"}
    <2>1. body.query /\ body.events = <<>> /\ body.mode # "image"
        BY <1>1, <1>2, <1>4 DEF ValidateCurrentInput
    <2>2. Check("ready", body) = 200
        BY <2>1, ApiAssumption DEF Check, SearchCheck
    <2> QED BY <1>3, <2>2 DEF Sent, body
<1>5. CASE mode = "trake"
    <2>1. events # <<>> /\ \A i \in DOMAIN events : events[i]
        BY <1>5 DEF ValidateCurrentInput
    <2>2. body.events = events /\ body.mode # "image"
        BY <1>1, <1>2, <1>5
    <2>3. Check("ready", body) = 200
        BY <2>1, <2>2, ApiAssumption DEF Check, SearchCheck, PageTypeOK
    <2> QED BY <1>3, <2>3 DEF Sent, body
<1>6. CASE mode = "image"
    <2>1. image # None /\ image.size <= MaxImageBytes
        BY <1>6 DEF ValidateCurrentInput, ValidateImageFile
    <2>2. body.image = image /\ body.mode = "image"
        BY <1>1, <1>2, <1>6
    <2>3. image.size \in Nat
        BY <2>1, PageAssumption DEF PageTypeOK
    <2>4. CASE image.size + Overhead <= MaxImageBytes /\ image.size > 0 /\ image.decodes
        <3>1. Check("ready", body) = 200
            BY <2>2, <2>4 DEF Check, ImageCheck, ReadLimitedBody, MultipartFile, DecodeImage
        <3> QED BY <1>3, <3>1 DEF Sent, body
    <2>5. CASE ~(image.size + Overhead <= MaxImageBytes /\ image.size > 0 /\ image.decodes)
        <3>1. image.size \in {0} \cup (MaxImageBytes - Overhead + 1)..MaxImageBytes \/ ~image.decodes
            BY <2>1, <2>3, <2>5, ApiAssumption
        <3> QED BY <1>3, <2>2, <3>1 DEF Sent, body
    <2> QED BY <2>4, <2>5
<1> QED BY <1>4, <1>5, <1>6 DEF PageTypeOK, Modes

LEMMA SubmitInvalidKeeps ==
    ASSUME PageInv, SubmitInvalid
    PROVE  PageInv'
<1>1. UNCHANGED <<search, results, lastMode, lastCount, cards, copied, mode, inputs>>
    BY DEF SubmitInvalid, found
<1>2. PageTypeOK'
    BY <1>1 DEF PageInv, PageTypeOK, inputs, search
<1> QED BY <1>1, <1>2, NothingFound

\* The request that is added is the only one of the new number.
LEMMA SubmitKeeps ==
    ASSUME PageInv, Submit
    PROVE  PageInv'
<1> DEFINE new == [version |-> version + 1, body |-> Posted(mode, query, events, image)]
<1>0. PageTypeOK /\ PendingInv /\ KeptInv /\ RowsFitTheirSearch
    BY DEF PageInv, ResultsStayTogether
<1>1. /\ version' = version + 1 /\ cards' = 0 /\ busy' = TRUE /\ timing' = TRUE
      /\ UNCHANGED <<mode, events, image, results, lastMode, lastCount, copied>>
    BY DEF Submit, SetBusy
<1>2. pending' = pending \cup {new}
    BY <1>1 DEF Submit
<1>3. new.version = version + 1 /\ Sent(new.body)
    BY <1>0, PostedIsSent DEF Submit
<1> HIDE DEF new
<1>4. version \in Nat /\ version' \in Nat
    BY <1>0, <1>1 DEF PageTypeOK
<1>5. PageTypeOK'
    BY <1>0, <1>1 DEF PageTypeOK
<1>6. \A r \in pending' : r.version \in 0..version' /\ Sent(r.body)
    BY <1>0, <1>1, <1>2, <1>3, <1>4 DEF PendingInv
<1>7. \A r, s \in pending' : r.version = s.version => r = s
    BY <1>0, <1>2, <1>3, <1>4 DEF PendingInv
<1>8. PendingInv'
    BY <1>6, <1>7 DEF PendingInv, Sent, Check, ImageCheck, SearchCheck, ReadLimitedBody, MultipartFile, DecodeImage
<1>9. KeptInv' /\ RowsFitTheirSearch'
    BY <1>0, <1>1, FoundStays, CopiedStays
<1>a. CardsAnswerLastSearch'
    BY <1>1 DEF CardsAnswerLastSearch
<1>b. BusyWhilePending'
    BY <1>1, <1>2, <1>3 DEF BusyWhilePending
<1> QED BY <1>5, <1>8, <1>9, <1>a, <1>b DEF PageInv, ResultsStayTogether

\* One request fewer; the numbers stay.
LEMMA PendingShrinks ==
    ASSUME PendingInv, NEW r \in pending, pending' = pending \ {r}, version' = version
    PROVE  /\ PendingInv'
           /\ r.version = version => \A s \in pending' : s.version # version'
    BY DEF PendingInv, Sent, Check, ImageCheck, SearchCheck, ReadLimitedBody, MultipartFile, DecodeImage

LEMMA OvertakenKeeps ==
    ASSUME PageInv, NEW r \in pending, r.version # version, Overtaken(r)
    PROVE  PageInv'
<1>0. PageTypeOK /\ PendingInv /\ RowsFitTheirSearch /\ CardsAnswerLastSearch /\ BusyWhilePending
    BY DEF PageInv, ResultsStayTogether
<1>1. pending' = pending \ {r} /\ UNCHANGED <<mode, inputs, version, busy, timing, found, copied>>
    BY DEF Overtaken
<1>2. PendingInv'
    BY <1>0, <1>1, PendingShrinks
<1>3. KeptInv' /\ RowsFitTheirSearch'
    BY <1>0, <1>1, FoundStays, CopiedStays DEF found
<1>4. PageTypeOK' /\ CardsAnswerLastSearch'
    BY <1>0, <1>1 DEF PageTypeOK, CardsAnswerLastSearch, inputs, found
<1>5. BusyWhilePending'
    BY <1>0, <1>1 DEF BusyWhilePending
<1> QED BY <1>2, <1>3, <1>4, <1>5 DEF PageInv, ResultsStayTogether

LEMMA FailedKeeps ==
    ASSUME PageInv, NEW r \in pending, r.version = version, Failed(r)
    PROVE  PageInv'
<1>0. PageTypeOK /\ PendingInv /\ RowsFitTheirSearch
    BY DEF PageInv, ResultsStayTogether
<1>1. /\ pending' = pending \ {r} /\ cards' = 0 /\ busy' = FALSE /\ timing' = FALSE
      /\ UNCHANGED <<mode, events, image, version, results, lastMode, lastCount, copied>>
    BY DEF Failed, SetBusy
<1>2. PendingInv' /\ \A s \in pending' : s.version # version'
    BY <1>0, <1>1, PendingShrinks
<1>3. KeptInv' /\ RowsFitTheirSearch'
    BY <1>0, <1>1, FoundStays, CopiedStays
<1>4. PageTypeOK' /\ CardsAnswerLastSearch'
    BY <1>0, <1>1 DEF PageTypeOK, CardsAnswerLastSearch
<1>5. BusyWhilePending'
    BY <1>1, <1>2 DEF BusyWhilePending
<1> QED BY <1>2, <1>3, <1>4, <1>5 DEF PageInv, ResultsStayTogether

\* The results that are shown name the request they answer.
LEMMA AnsweredKeeps ==
    ASSUME PageInv, NEW r \in pending, r.version = version,
           NEW n \in 0..MaxResults, NEW shapes \in [1..n -> Shapes], Answered(r, shapes)
    PROVE  PageInv'
<1>0. PageTypeOK /\ PendingInv /\ RowsFitTheirSearch
    BY DEF PageInv, ResultsStayTogether
<1>1. /\ pending' = pending \ {r} /\ busy' = FALSE /\ timing' = FALSE
      /\ lastMode' = r.body.mode
      /\ lastCount' = IF r.body.mode = "trake" THEN Len(r.body.events) ELSE None
      /\ UNCHANGED <<mode, events, image, version, copied>>
    BY DEF Answered, SetBusy
<1>2. results' = [i \in 1..n |-> Item(r, shapes[i])] /\ cards' = Len(results')
    BY DEF Answered, RenderResults
<1>3. DOMAIN results' = 1..n /\ Len(results') = n /\ n \in Nat
    BY <1>2
<1>4. \A i \in 1..n :
          /\ results'[i].search.version = r.version
          /\ results'[i].search.mode = r.body.mode
          /\ results'[i].search.count = Len(r.body.events)
    <2>1. ASSUME NEW i \in 1..n
          PROVE  results'[i].search = [version |-> r.version, mode |-> r.body.mode, count |-> Len(r.body.events)]
        BY <1>2, PageAssumption DEF Item
    <2> QED BY <2>1
<1>5. Len(r.body.events) \in Nat
    BY <1>0 DEF PendingInv, Sent
<1>6. PendingInv' /\ \A s \in pending' : s.version # version'
    BY <1>0, <1>1, PendingShrinks
<1>7. PageTypeOK'
    BY <1>0, <1>1, <1>2, <1>3 DEF PageTypeOK
<1>8. KeptInv'
    BY <1>1, <1>3, <1>4, <1>5, ApiAssumption DEF KeptInv
<1>9. CardsAnswerLastSearch'
    BY <1>1, <1>2, <1>3, <1>4 DEF CardsAnswerLastSearch
<1>a. RowsFitTheirSearch'
    BY <1>0, <1>1, CopiedStays
<1>b. BusyWhilePending'
    BY <1>1, <1>6 DEF BusyWhilePending
<1> QED BY <1>6, <1>7, <1>8, <1>9, <1>a, <1>b DEF PageInv, ResultsStayTogether

LEMMA RespondKeeps ==
    ASSUME PageInv, NEW r \in pending, Respond(r)
    PROVE  PageInv'
<1>1. CASE r.version # version /\ Overtaken(r)
    BY <1>1, OvertakenKeeps
<1>2. CASE r.version = version /\ Failed(r)
    BY <1>2, FailedKeeps
<1>3. CASE r.version = version /\ \E n \in 0..MaxResults : \E shapes \in [1..n -> Shapes] : Answered(r, shapes)
    BY <1>3, AnsweredKeeps
<1> QED BY <1>1, <1>2, <1>3 DEF Respond

-----------------------------------------------------------------------------
(* Results and the clipboard *)

LEMMA SelectionKeeps ==
    ASSUME PageInv, ClickCard \/ MoveResultSelection
    PROVE  PageInv'
<1>1. UNCHANGED <<search, results, lastMode, lastCount, cards, copied, mode, inputs>>
    BY DEF ClickCard, MoveResultSelection
<1>2. PageTypeOK'
    BY <1>1 DEF PageInv, PageTypeOK, inputs, search
<1> QED BY <1>1, <1>2, NothingFound

\* A row is only made of a result that is kept, for the search it is of.
LEMMA CopySubmissionFits ==
    ASSUME PageInv, NEW i \in DOMAIN results, CopySubmission(results[i], lastMode, lastCount), clipboard' = clipboard
    PROVE  RowsFitTheirSearch'
<1>0. KeptInv /\ RowsFitTheirSearch
    BY DEF PageInv, ResultsStayTogether
<1>1. CASE copying' = copying
    BY <1>0, <1>1, CopiedStays DEF copied
<1>2. CASE HasRow(results[i], lastMode, lastCount) /\ copying' = copying \cup {[item |-> results[i], mode |-> lastMode]}
    <2>1. results[i].search.mode = lastMode
        BY <1>0 DEF KeptInv
    <2>2. lastMode = "trake" => results[i].frames = results[i].search.count
        BY <1>0, <1>2 DEF KeptInv, HasRow
    <2> DEFINE row == [item |-> results[i], mode |-> lastMode]
    <2>3. row.mode = row.item.search.mode /\ (row.mode = "trake" => row.item.frames = row.item.search.count)
        BY <2>1, <2>2
    <2>4. Rows' = Rows \cup {row}
        BY <1>2 DEF Rows
    <2> HIDE DEF row
    <2> QED BY <1>0, <2>3, <2>4 DEF RowsFitTheirSearch
<1> QED BY <1>1, <1>2 DEF CopySubmission

LEMMA CopyKeeps ==
    ASSUME PageInv, CopySelectedResult \/ ClickCopy
    PROVE  PageInv'
<1>0. PageTypeOK /\ PendingInv /\ RowsFitTheirSearch /\ CardsAnswerLastSearch /\ BusyWhilePending
    BY DEF PageInv, ResultsStayTogether
<1>1. UNCHANGED <<search, results, lastMode, lastCount, cards, mode, inputs, clipboard>>
    BY DEF CopySelectedResult, ClickCopy, found
<1>2. RowsFitTheirSearch'
    <2>1. CASE copying' = copying
        BY <1>0, <1>1, <2>1, CopiedStays DEF copied
    <2>2. CASE selected \in 0..(Len(results) - 1) /\ CopySubmission(results[selected + 1], lastMode, lastCount)
        <3> DEFINE many == Len(results)
        <3>0. many \in Nat /\ DOMAIN results = 1..many /\ selected \in 0..(many - 1)
            BY <1>0, <2>2 DEF PageTypeOK
        <3> HIDE DEF many
        <3>1. selected + 1 \in DOMAIN results
            BY <3>0
        <3> QED BY <1>1, <2>2, <3>1, CopySubmissionFits
    <2>3. CASE ClickCopy
        <3>1. PICK i \in 1..cards : CopySubmission(results[i], lastMode, lastCount)
            BY <2>3 DEF ClickCopy
        <3>2. cards \in Nat /\ DOMAIN results = 1..Len(results)
            BY <1>0 DEF PageTypeOK
        <3>3. cards > 0
            BY <3>1, <3>2
        <3>4. cards = Len(results)
            BY <1>0, <3>3 DEF CardsAnswerLastSearch
        <3>5. i \in DOMAIN results
            BY <3>1, <3>2, <3>4
        <3> QED BY <1>1, <3>1, <3>5, CopySubmissionFits
    <2> QED BY <2>1, <2>2, <2>3 DEF CopySelectedResult
<1>3. PageTypeOK' /\ CardsAnswerLastSearch'
    BY <1>0, <1>1 DEF PageTypeOK, CardsAnswerLastSearch, inputs, search
<1>4. PendingInv' /\ BusyWhilePending'
    BY <1>0, <1>1, PendingStays, BusyStays DEF search
<1>5. KeptInv'
    BY <1>1, FoundStays
<1> QED BY <1>2, <1>3, <1>4, <1>5 DEF PageInv, ResultsStayTogether

LEMMA CopiedKeeps ==
    ASSUME PageInv, NEW row \in copying, Copied(row)
    PROVE  PageInv'
<1>0. PageTypeOK /\ PendingInv /\ RowsFitTheirSearch /\ CardsAnswerLastSearch /\ BusyWhilePending
    BY DEF PageInv, ResultsStayTogether
<1>1. /\ UNCHANGED <<mode, inputs, search, found>>
      /\ copying' = copying \ {row} /\ clipboard' \in {row, clipboard}
    BY DEF Copied
<1>2. RowsFitTheirSearch'
    <2>1. Rows' \subseteq Rows
        BY <1>1 DEF Rows
    <2> QED BY <1>0, <2>1 DEF RowsFitTheirSearch
<1>3. PageTypeOK' /\ CardsAnswerLastSearch'
    BY <1>0, <1>1 DEF PageTypeOK, CardsAnswerLastSearch, inputs, search, found
<1>4. PendingInv' /\ BusyWhilePending'
    BY <1>0, <1>1, PendingStays, BusyStays DEF search
<1>5. KeptInv'
    BY <1>1, FoundStays DEF found
<1> QED BY <1>2, <1>3, <1>4, <1>5 DEF PageInv, ResultsStayTogether

-----------------------------------------------------------------------------

LEMMA PageInvNext == PageInv /\ [Next]_vars => PageInv'
<1> SUFFICES ASSUME PageInv, [Next]_vars PROVE PageInv'
    OBVIOUS
<1>1. CASE UNCHANGED vars
    <2>1. UNCHANGED <<search, results, lastMode, lastCount, cards, copied, mode, inputs>>
        BY <1>1 DEF vars, found
    <2>2. PageTypeOK'
        BY <2>1 DEF PageInv, PageTypeOK, inputs, search
    <2> QED BY <2>1, <2>2, NothingFound
<1>2. CASE TypeQuery \/ TypeEvent \/ AddTrakeEvent \/ RemoveTrakeEvent \/ SelectImage \/ CancelSelection \/ ClearImage
    BY <1>2, InputsKeep
<1>3. CASE SetMode
    BY <1>3, SetModeKeeps
<1>4. CASE SubmitInvalid
    BY <1>4, SubmitInvalidKeeps
<1>5. CASE Submit
    BY <1>5, SubmitKeeps
<1>6. CASE \E r \in pending : Respond(r)
    BY <1>6, RespondKeeps
<1>7. CASE ClickCard \/ MoveResultSelection
    BY <1>7, SelectionKeeps
<1>8. CASE CopySelectedResult \/ ClickCopy
    BY <1>8, CopyKeeps
<1>9. CASE \E row \in copying : Copied(row)
    BY <1>9, CopiedKeeps
<1> QED BY <1>1, <1>2, <1>3, <1>4, <1>5, <1>6, <1>7, <1>8, <1>9 DEF Next

\* The invariant holds in every state of the page (submitSearch, setMode,
\* renderResults and copySubmission of app.js, taken together).
THEOREM PageIsConsistent == Spec => []PageInv
BY PageInvInit, PageInvNext, PTL DEF Spec

\* The cards are those of the search sent last, and what is copied has the form of
\* the search it is a result of, however searches, cancellations, failures and
\* clipboard writes overlap.
THEOREM ResultsAreOfOneSearch == Spec => []ResultsStayTogether
<1>1. PageInv => ResultsStayTogether
    BY DEF PageInv
<1> QED BY <1>1, PageIsConsistent, PTL

\* The submit button is disabled exactly while the request sent last is under way,
\* and the timer runs only then: no overtaken answer releases the button, no
\* failure leaves it disabled.
THEOREM BusyIsPending == Spec => []BusyWhilePending
<1>1. PageInv => BusyWhilePending
    BY DEF PageInv
<1> QED BY <1>1, PageIsConsistent, PTL

\* The checks of the page imply those of the server, for any limits both share,
\* but for the file's contents and the multipart headers.
THEOREM PageAndServerAgree == Spec => []ValidatedIsAccepted
<1>1. PageInv => ValidatedIsAccepted
    BY DEF PageInv, PendingInv, Sent, ValidatedIsAccepted
<1> QED BY <1>1, PageIsConsistent, PTL
===============================================================================
