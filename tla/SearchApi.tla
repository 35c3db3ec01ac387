------------------------------- MODULE SearchApi -------------------------------
(***************************************************************************)
(* The search endpoints of the server as a search page meets them:         *)
(* backend/app/main.py, and the reading of the answers in                  *)
(* frontend/src/scripts/api.js.                                            *)
(*                                                                         *)
(* What a request carries is a record: the mode, whether the query has     *)
(* text in it, for each TRAKE event whether it has, and the image.  An     *)
(* image has a size in bytes and is or is not a picture the server can     *)
(* decode; the browser sends it with Overhead bytes of multipart headers.  *)
(***************************************************************************)
EXTENDS Naturals, Sequences

CONSTANTS
    MaxEvents,      \* 20: the events of a TRAKE request, page and server
    MaxImageBytes,  \* 15 MiB: the limit of the page and of the server
    Overhead,       \* what multipart/form-data adds to the file
    None            \* null

ASSUME ApiAssumption ==
    MaxEvents \in Nat \ {0} /\ MaxImageBytes \in Nat /\ Overhead \in Nat \ {0} /\ None \notin Nat

\* What the configuration of the server allows.
Servers == {"unconfigured", "text_only", "ready"}

\* How a search that was started ends: with results, with FileNotFoundError or
\* RuntimeError, with ValueError, with any other exception.
Outcomes == {"found", "unavailable", "rejected", "crash"}

-----------------------------------------------------------------------------
(* The page *)

ValidateImageFile(image) ==
    image # None /\ image.supported /\ image.size <= MaxImageBytes

\* What searchText and searchImage put into the body.
Posted(mode, query, events, image) ==
    [mode   |-> mode,
     query  |-> mode \in {"kis", "qa"} /\ query,
     events |-> IF mode = "trake" THEN events ELSE <<>>,
     image  |-> IF mode = "image" THEN image ELSE None]

(* The server *)

\* SearchRequest and the checks of /api/search before the search; 200: it starts.
SearchCheck(server, p) ==
    IF Len(p.events) > MaxEvents \/ \E i \in DOMAIN p.events : ~p.events[i] THEN 422
    ELSE IF server = "unconfigured" THEN 503
    ELSE IF ~p.query /\ p.events = <<>> THEN 400
    ELSE 200

\* The checks of /api/search/image.  The page always sends multipart/form-data.
ReadLimitedBody(p) == p.image.size + Overhead <= MaxImageBytes
MultipartFile(p)   == p.image.size > 0
DecodeImage(p)     == p.image.decodes

ImageCheck(server, p) ==
    IF server # "ready" THEN 503
    ELSE IF ~ReadLimitedBody(p) THEN 413
    ELSE IF ~MultipartFile(p) \/ ~DecodeImage(p) THEN 400
    ELSE 200

Check(server, p) == IF p.mode = "image" THEN ImageCheck(server, p) ELSE SearchCheck(server, p)

\* The status of the response; an exception the endpoint does not catch is 500.
Status(server, p, outcome) ==
    IF Check(server, p) # 200 THEN Check(server, p)
    ELSE CASE outcome = "found"       -> 200
           [] outcome = "unavailable" -> 503
           [] outcome = "rejected"    -> 400
           [] outcome = "crash"       -> 500

\* parseResponse: only a 200 with results is data, the rest is an ApiError.
IsData(status) == status = 200
=============================================================================
