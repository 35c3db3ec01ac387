----------------------------- MODULE MCTextSearch -----------------------------
(* Corpora and requests for TLC. *)
EXTENDS TextSearch

Text(match, lexical, support, finds) ==
    [match |-> match, lexical |-> lexical, support |-> support, finds |-> finds]

\* A plate in full, one with other separators, a name with part of it, and talk.
MCTexts ==
    {Text("full", 2, 12, [unit |-> "good", place |-> "bad", entity |-> "good"]),
     Text("separator", 0, 14, [number |-> "good", place |-> "good", name |-> "good"]),
     Text("partial", 10, 20, [unit |-> "bad", name |-> "bad", colon |-> "good"]),
     Text("none", 20, 4, [number |-> "bad", entity |-> "good", disease |-> "good"])}

Record(kind, video, first, last, text) ==
    [kind |-> kind, video |-> video, first |-> first, last |-> last, text |-> text]

\* Two texts together are diluted, but a plate with other separators before talk makes a
\* phrase across the seam.
MCJoinedLexical ==
    [s \in UNION {[1..n -> MCTexts] : n \in 0..2} |->
        IF s = <<>> THEN 0 ELSE IF Len(s) = 1 THEN s[1].lexical
        ELSE IF s[1].match = "separator" /\ s[2].match = "none" THEN 20
        ELSE (s[1].lexical + s[2].lexical) \div 2]

\* Visual scores of the frames of video 1 and of frame 0 of video 2.
Visual(a, b, c, d) ==
    [k \in Keys |-> IF k = <<1, 0>> THEN a ELSE IF k = <<1, 1>> THEN b
                    ELSE IF k = <<1, 3>> THEN c ELSE IF k = <<2, 0>> THEN d ELSE None]

MCVisuals ==
    {<<Visual(29, 30, 1, None)>>, <<Visual(1, 3, 2, 2)>>, <<Visual(None, -1, 2, -2)>>, <<Visual(2, 2, None, 2)>>,
     <<Visual(3, 2, 1, None), Visual(1, 2, 3, 3)>>, <<Visual(None, 1, 2, 3), Visual(3, None, None, 1)>>,
     <<Visual(None, None, None, None)>>}

MCRecords ==
    {Record("ocr", 1, f, f, t) : f \in {0, 1, 3}, t \in MCTexts} \cup {Record("ocr", 2, 0, 0, t) : t \in MCTexts}
    \cup {Record("asr", 1, f, f + 1, t) : f \in {0, 1, 2}, t \in MCTexts}

MCCorpora == {[visual |-> v, records |-> r] : v \in MCVisuals, r \in {{}} \cup {{a, b} : a, b \in MCRecords}}

Request(backend, task, k) ==
    [backend |-> backend, task |-> task, top |-> k, refine |-> FALSE, exact |-> FALSE, rerank |-> FALSE,
     raw |-> FALSE, remote |-> FALSE, question |-> None]

MCRequests ==
    {[Request("siglip2", "kis", k) EXCEPT !.refine = f, !.exact = f, !.rerank = TRUE] : k \in {2, 3}, f \in BOOLEAN}
    \cup {[Request("siglip2", "qa", 2) EXCEPT !.refine = TRUE, !.question = [type |-> t, degrees |-> FALSE]]
             : t \in {"HOW_MANY", "WHERE", "WHO", "DISEASE", "WHAT"}}
    \cup {[Request("siglip2", "image", 3) EXCEPT !.raw = r] : r \in BOOLEAN}
    \cup {Request("qwen3_vl", "image", 2)}
    \cup {[Request("qwen3_vl", "qa", 2) EXCEPT !.remote = r] : r \in BOOLEAN}
=============================================================================
