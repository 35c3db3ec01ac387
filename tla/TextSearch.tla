------------------------------ MODULE TextSearch ------------------------------
(***************************************************************************)
(* One text, question or image search: ConfiguredSearch.handle with        *)
(* CandidateReranker, and QwenRuntimeSearch.search_single with its answers.*)
(*                                                                         *)
(* The corpus says what the index and the text evidence return: for each   *)
(* visual query the score of the frames it hits, and the OCR and ASR       *)
(* records, whose texts carry the outcome of matching them (MCTextSearch). *)
(* Frames are numbered in steps of 30, so that the 60 frames of the        *)
(* near-duplicate filter are Near = 2.  Scores are integers; Unit makes    *)
(* the reciprocal ranks integers.                                          *)
(***************************************************************************)
EXTENDS AnswerExtraction, Integers, FiniteSets, FiniteSetsExt, SequencesExt

CONSTANTS
    Videos, Frames,   \* numbers; every frame of Videos \X Frames is indexed
    Corpora,          \* the corpora that are checked
    Requests,         \* [backend, task, top, refine, exact, rerank, raw, remote, question]
    Near,             \* 60 frames
    Radius,           \* 150 frames: the evidence of a question
    RrfK, Unit,       \* QUERY_REFINER_RRF_K; a multiple of RrfK + 1, RrfK + 2, ...
    RemoteTopN,       \* QA_ANSWER_REMOTE_TOP_N
    JoinedLexical,    \* lexical_score of the query and texts put together, by their sequence
    None

ASSUME TextSearchAssumption ==
    /\ Videos \subseteq Nat /\ Frames \subseteq Nat
    /\ IsFiniteSet(Videos) /\ IsFiniteSet(Frames) /\ Frames # {}
    /\ Near \in Nat \ {0} /\ RemoteTopN \in Nat \ {0}
    /\ \A asked \in Requests : asked.top \in Nat \ {0}

\* Support is a fraction, in twentieths; the empty answer is no answer of a text.
ASSUME CorpusAssumption ==
    \A held \in Corpora :
        /\ IsFiniteSet(held.records)
        /\ \A r \in held.records :
               r.text.support \in 0..20 /\ r.text.lexical \in Nat /\ r.video \in Videos /\ {r.first, r.last} \subseteq Nat
        /\ NoAnswer \notin [id : held.records, confidence : 0..MaxConfidence]

\* The texts of records in the order of their file, which the model leaves open.
InOrder(R) == [i \in DOMAIN SetToSeq(R) |-> SetToSeq(R)[i].text]

\* Texts put together have a score of their own; one text has its own.
ASSUME JoinAssumption ==
    \A held \in Corpora : \A R \in SUBSET held.records :
        /\ JoinedLexical[InOrder(R)] \in Nat
        /\ \A r \in R : JoinedLexical[<<r.text>>] = r.text.lexical

Keys == Videos \X Frames

\* A visual query has an integer score for each frame it hits.
ASSUME VisualAssumption ==
    \A held \in Corpora :
        /\ IsFiniteSet(DOMAIN held.visual) /\ 1 \in DOMAIN held.visual
        /\ \A i \in DOMAIN held.visual : \A k \in Keys : held.visual[i][k] # None => held.visual[i][k] \in Int

\* Reciprocal ranks are integers: Unit is a multiple of RrfK + n for every place n.
ASSUME FusionAssumption ==
    /\ RrfK \in Nat /\ Unit \in Nat \ {0}
    /\ \A n \in 1..Cardinality(Keys) : Unit % (RrfK + n) = 0
    /\ \A held \in Corpora : \A n \in 1..Cardinality(held.records) : Unit % (RrfK + n) = 0

VARIABLES
    request, corpus,
    pc,         \* the stage the request is in
    ranked,     \* the candidates in their order
    next,       \* how many of them the filter has seen
    selected,   \* the rows that will be returned
    answers,    \* the answer of each row, for a question
    remote      \* requests sent to the remote answer model

textVars == <<request, corpus, pc, ranked, next, selected, answers, remote>>

\* Nothing was done for the request.
TextStart ==
    /\ pc = "start" /\ ranked = <<>> /\ next = 0
    /\ selected = <<>> /\ answers = <<>> /\ remote = 0

TextInit == corpus \in Corpora /\ request \in Requests /\ TextStart

-----------------------------------------------------------------------------
(* Orders *)

KeyBefore(a, b) == a[1] < b[1] \/ (a[1] = b[1] /\ a[2] < b[2])

\* Sorting by falling score, then by key.  Scores: a function on S.
RankOf(S, score, k) ==
    1 + Cardinality({j \in S : score[j] > score[k] \/ (score[j] = score[k] /\ KeyBefore(j, k))})
Ranking(S, score) == [i \in 1..Cardinality(S) |-> CHOOSE k \in S : RankOf(S, score, k) = i]

MaxOf(S) == IF S = {} THEN 0 ELSE Max(S)

-----------------------------------------------------------------------------
(* Text evidence *)

Ocr == {r \in corpus.records : r.kind = "ocr"}
Asr == {r \in corpus.records : r.kind = "asr"}

\* An ASR segment is a hit at its first frame and evidence at all its frames.
StartOf(r) == <<r.video, r.first>>
Covers(r, k, slack) == r.video = k[1] /\ r.first - slack <= k[2] /\ k[2] <= r.last + slack

\* The texts of a frame are scored as one.
Lexical(R, k) == JoinedLexical[InOrder({r \in R : Covers(r, k, 0)})]
Matched(R) == {r \in R : r.text.lexical >= 3}   \* lexical_score >= 0.15

-----------------------------------------------------------------------------
(* _search_single_query: one visual query and the texts, linear fusion *)

VisualHits(i) == {k \in Keys : corpus.visual[i][k] # None}

SingleCandidates == VisualHits(1) \cup {StartOf(r) : r \in Matched(Ocr) \cup Matched(Asr)}

SingleScores ==
    LET raw  == [k \in SingleCandidates |-> IF k \in VisualHits(1) THEN corpus.visual[1][k] ELSE 0]
        all  == {raw[k] : k \in SingleCandidates}
        low  == Min(all)
        span == IF Max(all) = low THEN 1 ELSE Max(all) - low
    IN  [k \in SingleCandidates |->
            40 * (IF raw[k] > 0 THEN raw[k] - low ELSE 0)
            + 3 * span * (Lexical(Ocr, k) + Lexical(Asr, k))]

(* _search_multi_path: channels and reciprocal rank fusion *)

\* The score of a record in its channel: an exact term counts 1.0, otherwise the
\* best lexical overlap from 0.15.
TermScore(r) ==
    IF request.exact /\ r.text.match \in {"full", "separator"} THEN 20
    ELSE IF r.text.lexical >= 3 THEN r.text.lexical ELSE 0

TextChannel(R) ==
    [k \in {StartOf(r) : r \in {r \in R : TermScore(r) > 0}} |->
        MaxOf({TermScore(r) : r \in {r \in R : StartOf(r) = k}})]

\* Weights in tenths: OCR_WEIGHT 1.0, ASR_WEIGHT 0.8, VISUAL_WEIGHT 1.0.
Channels ==
    {[name |-> <<"visual", i>>, weight |-> 10, hits |-> [k \in VisualHits(i) |-> corpus.visual[i][k]]]
        : i \in DOMAIN corpus.visual}
    \cup {[name |-> <<"ocr", 0>>, weight |-> 10, hits |-> TextChannel(Ocr)],
          [name |-> <<"asr", 0>>, weight |-> 8,  hits |-> TextChannel(Asr)]}

FusedCandidates == UNION {DOMAIN c.hits : c \in Channels}
MatchedBy(k) == {c \in Channels : k \in DOMAIN c.hits}
RankIn(c, k) == RankOf(DOMAIN c.hits, c.hits, k)

\* Mutant of RrfScores: a hit counts by its place from the end.
RrfScoresReversed ==
    [k \in FusedCandidates |-> FoldSet(LAMBDA c, sum : sum + c.weight * RankIn(c, k), 0, MatchedBy(k))]

RrfScores ==
    [k \in FusedCandidates |->
        FoldSet(LAMBDA c, sum : sum + c.weight * (Unit \div (RrfK + RankIn(c, k))), 0, MatchedBy(k))]

(* CandidateReranker *)

\* classify_exact_match, as a tier; evidence on the frame, for ASR around it.
Tier(match) == CASE match = "full" -> 3 [] match = "separator" -> 2 [] match = "partial" -> 1 [] OTHER -> 0
ExactTier(k) ==
    IF request.exact THEN MaxOf({Tier(r.text.match) : r \in {r \in corpus.records : Covers(r, k, 0)}}) ELSE 0
IndependentChannels(k) == Cardinality({c.name[1] : c \in MatchedBy(k)})

\* The sort key -tier, -channels, -score as one number.
RerankScores ==
    LET scores == RrfScores
        top == Max({scores[k] : k \in DOMAIN scores}) + 1
    IN  [k \in DOMAIN scores |-> (4 * ExactTier(k) + IndependentChannels(k)) * top + scores[k]]

(* search_image; QwenRuntimeSearch.search_single *)

ImageScores == [k \in VisualHits(1) |-> corpus.visual[1][k]]

\* nearest_uid: of the frames of the video around the middle of a segment the nearer one,
\* on a tie the later one.  The middle of a frame's own text is the frame.
NearestFrame(r) ==
    LET twice  == r.first + r.last
        after  == {f \in Frames : 2 * f >= twice}
        before == {f \in Frames : 2 * f < twice}
    IN  IF before = {} THEN Min(after)
        ELSE IF after = {} \/ twice - 2 * Max(before) < 2 * Min(after) - twice THEN Max(before)
        ELSE Min(after)

TopTextHits(R) ==
    [k \in {<<r.video, NearestFrame(r)>> : r \in {r \in R : r.text.lexical > 0}} |->
        MaxOf({r.text.lexical : r \in {r \in R : <<r.video, NearestFrame(r)>> = k}})]

\* 0.70 of the min-max norm, 0.18 and 0.12 of the overlaps, times 2000 span.
QwenScores ==
    LET visual == ImageScores
        ocr == TopTextHits(Ocr)
        asr == TopTextHits(Asr)
        all == {visual[k] : k \in DOMAIN visual}
        low == IF all = {} THEN 0 ELSE Min(all)
        span == IF MaxOf(all) = low THEN 1 ELSE MaxOf(all) - low
        Norm(k) == IF Max(all) > low THEN visual[k] - low ELSE IF low > 0 THEN 1 ELSE 0
        At(hits, k) == IF k \in DOMAIN hits THEN hits[k] ELSE 0
    IN  [k \in DOMAIN visual \cup DOMAIN ocr \cup DOMAIN asr |->
            (IF k \in DOMAIN visual THEN 1400 * Norm(k) ELSE 0)
            + span * (18 * At(ocr, k) + 12 * At(asr, k))]

-----------------------------------------------------------------------------
(* The stages of a request *)

SearchSingle ==
    /\ pc = "start" /\ request.backend = "siglip2" /\ request.task # "image" /\ ~request.refine
    /\ ranked' = IF SingleCandidates = {} THEN <<>> ELSE Ranking(SingleCandidates, SingleScores)
    /\ pc' = "select"
    /\ UNCHANGED <<request, corpus, next, selected, answers, remote>>

SearchMultiPath ==
    /\ pc = "start" /\ request.backend = "siglip2" /\ request.task # "image" /\ request.refine
    /\ ranked' = Ranking(FusedCandidates, RrfScores)
    /\ pc' = IF FusedCandidates # {} /\ request.rerank THEN "rerank" ELSE "select"
    /\ UNCHANGED <<request, corpus, next, selected, answers, remote>>

\* An exception in the reranker leaves the order of the fusion.
Rerank ==
    /\ pc = "rerank"
    /\ ranked' \in {Ranking(FusedCandidates, RerankScores), ranked}
    /\ pc' = "select"
    /\ UNCHANGED <<request, corpus, next, selected, answers, remote>>

SearchImage ==
    /\ pc = "start" /\ request.backend = "siglip2" /\ request.task = "image"
    /\ ranked' = Ranking(VisualHits(1), ImageScores)
    /\ pc' = "select"
    /\ UNCHANGED <<request, corpus, next, selected, answers, remote>>

\* The Qwen backend has no filter: the first top_k rows are the answer.
SearchQwen ==
    /\ pc = "start" /\ request.backend = "qwen3_vl" /\ request.task # "image"
    /\ ranked' = Ranking(DOMAIN QwenScores, QwenScores)
    /\ selected' = SubSeq(ranked', 1, Min({request.top, Len(ranked')}))
    /\ pc' = "answer"
    /\ UNCHANGED <<request, corpus, next, answers, remote>>

\* image search is not supported by the qwen3_vl backend
RefuseImage ==
    /\ pc = "start" /\ request.backend = "qwen3_vl" /\ request.task = "image"
    /\ pc' = "failed"
    /\ UNCHANGED <<request, corpus, ranked, next, selected, answers, remote>>

\* Without more candidates than asked for, or for a raw image search, no filter.
Filtered == Len(ranked) > request.top /\ ~(request.task = "image" /\ request.raw)

ReturnAll ==
    /\ pc = "select" /\ ~Filtered
    /\ selected' = SubSeq(ranked, 1, Min({request.top, Len(ranked)}))
    /\ pc' = "answer"
    /\ UNCHANGED <<request, corpus, ranked, next, answers, remote>>

TooClose(a, b) == a[1] = b[1] /\ a[2] - b[2] < Near /\ b[2] - a[2] < Near

SkipRow ==
    /\ pc = "select" /\ Filtered /\ next < Len(ranked)
    /\ \E i \in DOMAIN selected : TooClose(ranked[next + 1], selected[i])
    /\ next' = next + 1
    /\ UNCHANGED <<request, corpus, pc, ranked, selected, answers, remote>>

\* Mutant of TakeRow: only the row before is compared.
TakeRowNext ==
    /\ pc = "select" /\ Filtered /\ next < Len(ranked)
    /\ selected # <<>> => ~TooClose(ranked[next + 1], selected[Len(selected)])
    /\ selected' = Append(selected, ranked[next + 1])
    /\ next' = next + 1
    /\ pc' = IF Len(selected') >= request.top THEN "answer" ELSE pc
    /\ UNCHANGED <<request, corpus, ranked, answers, remote>>

TakeRow ==
    /\ pc = "select" /\ Filtered /\ next < Len(ranked)
    /\ \A i \in DOMAIN selected : ~TooClose(ranked[next + 1], selected[i])
    /\ selected' = Append(selected, ranked[next + 1])
    /\ next' = next + 1
    /\ pc' = IF Len(selected') >= request.top THEN "answer" ELSE pc
    /\ UNCHANGED <<request, corpus, ranked, answers, remote>>

EndOfRows ==
    /\ pc = "select" /\ Filtered /\ next = Len(ranked)
    /\ pc' = "answer"
    /\ UNCHANGED <<request, corpus, ranked, next, selected, answers, remote>>

Return ==
    /\ pc = "answer" /\ (request.task # "qa" \/ Len(answers) = Len(selected))
    /\ pc' = "done"
    /\ UNCHANGED <<request, corpus, ranked, next, selected, answers, remote>>

-----------------------------------------------------------------------------
(* Answers of a question, row by row *)

\* _qa_evidence_for_row: OCR, then ASR, each text once.
Evidence(k) ==
    LET all == SetToSeq({r \in Ocr : Covers(r, k, Radius)}) \o SetToSeq({r \in Asr : Covers(r, k, Radius)})
        new == {i \in DOMAIN all : \A j \in 1..(i - 1) : all[j].text # all[i].text}
    IN  [i \in 1..Cardinality(new) |->
            LET r == all[CHOOSE j \in new : Cardinality(new \cap 1..j) = i] IN [id |-> r, text |-> r.text]]

Row == selected[Len(answers) + 1]

AnswerRow ==
    /\ pc = "answer" /\ request.task = "qa" /\ request.backend = "siglip2"
    /\ Len(answers) < Len(selected)
    /\ answers' = Append(answers, Extract(request.question, Evidence(Row)))
    /\ UNCHANGED <<request, corpus, pc, ranked, next, selected, remote>>

\* _qa_answer: the best OCR text of the row's frame, else the best ASR text.
Fallback(k) ==
    LET Best(R) == {r \in R : /\ <<r.video, NearestFrame(r)>> = k /\ r.text.lexical > 0
                              /\ r.text.lexical = TopTextHits(R)[k]}
    IN  IF Best(Ocr) \cup Best(Asr) = {} THEN NoAnswer ELSE "snippet"

\* ocr_evidence, asr_evidence, video_ocr_evidence and video_asr_evidence of the row.
HasEvidence(k) == \E r \in corpus.records : r.video = k[1] /\ r.text.lexical > 0

QwenAnswer(answer, backend, calls) ==
    /\ answers' = Append(answers, [answer |-> answer, backend |-> backend])
    /\ remote' = remote + calls
    /\ UNCHANGED <<request, corpus, pc, ranked, next, selected>>

AnsweringQwen ==
    /\ pc = "answer" /\ request.task = "qa" /\ request.backend = "qwen3_vl"
    /\ Len(answers) < Len(selected)

\* Mutant of MayAskRemote: for every row.
MayAskAlways == request.remote /\ HasEvidence(Row)

MayAskRemote == request.remote /\ Len(answers) < RemoteTopN /\ HasEvidence(Row)

AnswerFromSnippet ==
    /\ AnsweringQwen /\ ~MayAskRemote
    /\ QwenAnswer(Fallback(Row), "extractive", 0)

\* The model's text or its abstention; nothing, an error status or an answer that
\* cannot be read: the snippet.  The call counts once the response has been read.
AskRemote ==
    /\ AnsweringQwen /\ MayAskRemote
    /\ \/ QwenAnswer("remote", "remote_llm", 1)
       \/ \E calls \in {0, 1} : QwenAnswer(Fallback(Row), "extractive", calls)

\* An exception synthesize does not catch ends the request: a response cut off
\* (http.client.IncompleteRead), or an empty "choices" list (IndexError), which counts.
RemoteRaises ==
    /\ AnsweringQwen /\ MayAskRemote
    /\ pc' = "failed"
    /\ remote' \in {remote, remote + 1}
    /\ UNCHANGED <<request, corpus, ranked, next, selected, answers>>

TextNext ==
    \/ SearchSingle \/ SearchMultiPath \/ Rerank \/ SearchImage \/ SearchQwen \/ RefuseImage
    \/ ReturnAll \/ SkipRow \/ TakeRow \/ EndOfRows \/ Return
    \/ AnswerRow \/ AnswerFromSnippet \/ AskRemote \/ RemoteRaises

TextSpec == TextInit /\ [][TextNext]_textVars

-----------------------------------------------------------------------------
(* Properties *)

Stages == {"start", "rerank", "select", "answer", "done", "failed"}

\* The remote model is asked for the first RemoteTopN rows at most, and an answer is
\* labelled as its own only if it was asked for that row.
RemoteBudget ==
    /\ remote <= RemoteTopN
    /\ Cardinality({n \in DOMAIN answers : request.backend = "qwen3_vl" /\ answers[n].backend = "remote_llm"}) <= remote

\* A call that ended the request may have counted, and answered no row.
Unanswered == IF pc = "failed" THEN 1 ELSE 0

\* Every variable has values of its kind.
TypeOK ==
    /\ pc \in Stages
    /\ next \in 0..Len(ranked) /\ Len(selected) <= request.top /\ Len(answers) <= Len(selected)
    /\ remote \in 0..(Len(answers) + Unanswered) /\ RemoteBudget

\* The filter keeps rows of one video apart, and leaves out only what is too close to
\* a row it has kept before or comes after top_k rows (the loops at the end of
\* _search_single_query, _search_multi_path and search_image).
FilterIsGreedy ==
    pc \in {"answer", "done"} /\ Filtered /\ request.backend = "siglip2" =>
        /\ \A i, j \in DOMAIN selected : i # j => ~TooClose(selected[i], selected[j])
        /\ \A n \in DOMAIN ranked :
               \/ \E i \in DOMAIN selected : selected[i] = ranked[n]
               \/ \E m \in 1..(n - 1) : /\ \E i \in DOMAIN selected : selected[i] = ranked[m]
                                        /\ TooClose(ranked[m], ranked[n])
               \/ Len(selected) = request.top /\ \A i \in DOMAIN selected : \E m \in 1..(n - 1) : ranked[m] = selected[i]

\* A frame that is at least as good as another in every channel, and not worse in
\* exact evidence, comes before it, with and without the reranker, also when that
\* fails ("rank-safe" fusion of _search_multi_path).
Dominates(a, b) ==
    /\ ExactTier(a) >= ExactTier(b)
    /\ \A c \in MatchedBy(b) : a \in DOMAIN c.hits /\ RankIn(c, a) < RankIn(c, b)

DominanceIsKept ==
    pc = "select" /\ request.refine /\ request.backend = "siglip2" /\ request.task # "image" =>
        \A i, j \in DOMAIN ranked : i < j => ~Dominates(ranked[j], ranked[i])

\* The texts a fusion credits to a frame: those of the records that cover it, in their
\* order, or in the qwen3_vl backend those of the records whose middle is nearest to it.
TextsAt(R, k) ==
    IF request.backend = "qwen3_vl" THEN {r.text : r \in {r \in R : <<r.video, NearestFrame(r)>> = k}}
    ELSE InOrder({r \in R : Covers(r, k, 0)})

\* Among frames with the same text evidence, the one that looks more like the query
\* comes first: fusion with texts does not turn the visual order round.  (In the
\* linear fusion of the siglip2 backend only scores above zero count.)
VisualOrderIsKept ==
    pc \in {"select", "answer"} /\ (~request.refine \/ request.backend = "qwen3_vl" \/ request.task = "image") =>
        \A i, j \in DOMAIN ranked :
            /\ i < j /\ {ranked[i], ranked[j]} \subseteq VisualHits(1)
            /\ \A R \in {Ocr, Asr} : TextsAt(R, ranked[i]) = TextsAt(R, ranked[j])
            /\ request.backend = "siglip2" /\ request.task # "image" => corpus.visual[1][ranked[j]] > 0
            => corpus.visual[1][ranked[i]] >= corpus.visual[1][ranked[j]]

\* Fusing channels keeps what they agree on.
RankingIsMonotone == DominanceIsKept /\ VisualOrderIsKept

\* More evidence never turns an answer into silence: if some of a row's texts give an
\* answer, all of them together give one, from a text of the row's video that supports
\* the question no less (ExtractiveAnswerer goes on to the next text when one does not
\* do).  Its confidence may be lower: a text with more support that has only a bare name
\* comes before one with less that names a person with a title.
EvidenceHelps ==
    \A n \in DOMAIN answers :
        request.backend = "siglip2" =>
            \A e \in Range(Evidence(selected[n])) :
                LET alone == Extract(request.question, <<e>>) IN
                alone # NoAnswer =>
                    /\ answers[n] # NoAnswer
                    /\ answers[n].id.video = selected[n][1]
                    /\ answers[n].id.text.support >= e.text.support

\* synthesize never raises: a search that found rows is answered.
SearchIsAnswered == pc = "failed" => request.task = "image"
=============================================================================
