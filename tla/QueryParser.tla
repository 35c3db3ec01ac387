------------------------------ MODULE QueryParser ------------------------------
(***************************************************************************)
(* Queries and their plans: DeterministicQueryParser, QAQueryDecomposer    *)
(* and the merge of a plan with the answer of the language model.          *)
(*                                                                         *)
(* A query is a sequence of words.  A word is [text, bare, kinds]: its     *)
(* text in lower case, that text without the punctuation inside it, and    *)
(* the patterns that match it as it was written.  A quoted text, a name or *)
(* a term of several words is one word here: the model takes the text of   *)
(* one word to be no part of another's.  The rules of the parser for the   *)
(* task "qa" are left out: no caller asks for that task.                   *)
(***************************************************************************)
EXTENDS Naturals, Sequences, FiniteSets, SequencesExt

CONSTANTS
    ObjectTerms,   \* OBJECT_TERMS: the phrases, as sequences of texts
    Excluded,      \* OBJECT_CONTEXT_EXCLUSIONS: the phrases in which a term means something else
    MaxVariants    \* QUERY_REFINER_MAX_VISUAL_VARIANTS

\* The words of s at the positions in I, in their order.
WordsAt(s, I) ==
    LET upTo[n \in 0..Len(s)] ==
            IF n = 0 THEN <<>> ELSE IF n \in I THEN Append(upTo[n - 1], s[n]) ELSE upTo[n - 1]
    IN  upTo[Len(s)]
Distinct(s) == WordsAt(s, {i \in DOMAIN s : \A j \in 1..(i - 1) : s[j] # s[i]})
Variants(visual) == SubSeq(visual, 1, IF Len(visual) < MaxVariants THEN Len(visual) ELSE MaxVariants)
Is(word, kind) == kind \in word.kinds
Matching(q, kind) == WordsAt(q, {i \in DOMAIN q : Is(q[i], kind)})
Without(q, kind) == WordsAt(q, {i \in DOMAIN q : ~Is(q[i], kind)})
Texts(q) == [i \in DOMAIN q |-> q[i].text]

\* What the parser makes of tokens: TP.HCM becomes TPHCM.
Bare(word) == [word EXCEPT !.text = word.bare]
BareWords(s) == [i \in DOMAIN s |-> Bare(s[i])]

\* The words that a stage has as they were written, and those it has without case.
Said(words, stage) == WordsAt(words, {i \in DOMAIN words : Contains(stage, words[i])})
Heard(words, stage) == WordsAt(words, {i \in DOMAIN words : Contains(Texts(stage), words[i].text)})

-----------------------------------------------------------------------------
(* DeterministicQueryParser *)

\* Exact strings, pattern by pattern: quotes, licence plates, codes, measures and
\* dates, tokens in capitals.
Exact(q) ==
    Distinct(Matching(q, "quoted") \o Matching(q, "plate") \o Matching(q, "code") \o Matching(q, "measure")
             \o BareWords(Matching(q, "upper")))

\* Names of several words, then capitalised words other than the first, then terms.
Kept(q) ==
    Distinct(Matching(q, "name") \o (IF q = <<>> THEN <<>> ELSE BareWords(Matching(Tail(q), "capital")))
             \o Matching(q, "cultural"))
Lexical(q) == Distinct(Exact(q) \o Kept(q))

\* _build_visual_caption: the query without its exact strings, however they are written,
\* without their labels and without the instruction it begins with.
Caption(q) ==
    LET exact == ToSet(Texts(Exact(q)))
        free  == WordsAt(q, {i \in DOMAIN q : /\ q[i].text \notin exact
                                               /\ ~(Is(q[i], "label") /\ i < Len(q) /\ q[i + 1].text \in exact)})
        Dangling(i) == Is(free[i], "label") /\ (i = Len(free) \/ Is(free[i + 1], "comma"))
        bound == IF exact = {} THEN free ELSE WordsAt(free, {i \in DOMAIN free : ~Dangling(i)})
        seen  == IF bound # <<>> /\ Is(Head(bound), "intent") THEN Tail(bound) ELSE bound
    IN  IF \A i \in DOMAIN seen : Is(seen[i], "comma") THEN q ELSE seen

Span(from, to) == [from |-> from, to |-> to]
Spans(q, phrase) == {s \in [from : DOMAIN q, to : DOMAIN q] : SubSeq(Texts(q), s.from, s.to) = phrase}
Overlap(s, t) == s.from <= t.to /\ t.from <= s.to
Within(s, t) == t.from <= s.from /\ s.to <= t.to
\* Mutant of Found: whatever the term means.
FoundAnywhere(q) == UNION {Spans(q, term) : term \in ObjectTerms}

\* Whole phrases, none that overlaps an exclusion; the objects are the longest at their place.
Found(q) ==
    UNION {{s \in Spans(q, term) :
                term \in DOMAIN Excluded => \A t \in UNION {Spans(q, p) : p \in Excluded[term]} : ~Overlap(s, t)}
           : term \in ObjectTerms}
Objects(q) == {SubSeq(Texts(q), s.from, s.to) : s \in {s \in Found(q) : \A t \in Found(q) : Within(s, t) => s = t}}

\* The stages of a TRAKE query: between bars, or between commas, "then" and "and".
\* A quoted text is cut as well.
StageMarks(q) ==
    LET bars == {i \in DOMAIN q : Is(q[i], "bar")}
    IN  IF bars # {} THEN bars ELSE {i \in DOMAIN q : Is(q[i], "comma") \/ Is(q[i], "then")}

\* What is between the marks, and not empty: a word begins a piece or goes on with the last.
Pieces(q, marks) ==
    LET upTo[n \in 0..Len(q)] ==
            IF n = 0 THEN <<>>
            ELSE IF n \in marks THEN upTo[n - 1]
            ELSE IF n = 1 \/ n - 1 \in marks THEN Append(upTo[n - 1], <<q[n]>>)
            ELSE [upTo[n - 1] EXCEPT ![Len(upTo[n - 1])] = Append(@, q[n])]
    IN  upTo[Len(q)]
Stages(q) == IF Pieces(q, StageMarks(q)) = <<>> THEN <<q>> ELSE Pieces(q, StageMarks(q))

Visual(language, text) == [language |-> language, text |-> text]

\* parse
Parse(q, task) ==
    [task     |-> task,
     query    |-> q,
     visual   |-> Variants(<<Visual("vi", Caption(q))>>),
     exact    |-> Exact(q),
     lexical  |-> Lexical(q),
     kept     |-> Kept(q),
     objects  |-> Objects(q),
     colors   |-> ToSet(Texts(Matching(q, "color"))),
     stages   |-> IF task = "trake" \/ Matching(q, "bar") # <<>>
                  THEN [k \in DOMAIN Stages(q) |->
                           [text  |-> Stages(q)[k],
                            exact |-> Said(Exact(q), Stages(q)[k]),
                            kept  |-> Heard(Kept(q), Stages(q)[k])]]
                  ELSE <<>>,
     backend  |-> "deterministic"]

\* search_trake: the events of a request in one text, and what is searched for them: the
\* stages of its plan if there are as many, or else the events as they are.
RawEvents(q) == Pieces(q, {i \in DOMAIN q : Is(q[i], "bar")})
EventQueries(events, plan) ==
    IF Len(plan.stages) = Len(events) THEN [k \in DOMAIN events |-> plan.stages[k].text] ELSE events

\* The plan when refinement is off.
Passthrough(q, task) ==
    [task |-> task, query |-> q, visual |-> <<Visual("vi", q)>>, exact |-> <<>>, lexical |-> <<>>, kept |-> <<>>,
     objects |-> {}, colors |-> {}, stages |-> <<>>, backend |-> "off"]

-----------------------------------------------------------------------------
(* LocalLLMQueryRefiner.refine: the base plan and a valid response [vi, en, kept,   *)
(* stages], with empty captions for those that are missing.                         *)

\* validate_english_caption: no accents, no common Vietnamese words.
English(caption) == caption # <<>> /\ \A i \in DOMAIN caption : Is(caption[i], "english")

Refined(plan, response) ==
    LET Has(visual, language, text) == \E i \in DOMAIN visual : visual[i] = Visual(language, text)
        vi == IF response.vi = <<>> \/ Has(plan.visual, "vi", response.vi) THEN plan.visual
              ELSE <<Visual("vi", response.vi)>> \o plan.visual
        en == IF ~English(response.en) \/ Has(vi, "en", response.en) THEN vi
              ELSE Append(vi, Visual("en", response.en))
    IN  [plan EXCEPT !.visual  = Variants(en),
                     !.lexical = Distinct(@ \o response.kept),
                     !.kept    = Distinct(@ \o response.kept),
                     !.stages  = IF response.stages = <<>> THEN @
                                 ELSE [k \in DOMAIN response.stages |->
                                          [text |-> response.stages[k], exact |-> <<>>, kept |-> <<>>]],
                     !.backend = "local_llm"]

-----------------------------------------------------------------------------
(* QAQueryDecomposer *)

\* A question without the slot it asks for, and what the slot leaves behind.
TrimCopulas(q) ==
    SubSeq(q, 1, IF \A i \in DOMAIN q : Is(q[i], "copula") THEN 0
                 ELSE CHOOSE i \in DOMAIN q : /\ ~Is(q[i], "copula")
                                              /\ \A j \in (i + 1)..Len(q) : Is(q[j], "copula"))

Decompose(q) ==
    LET IsName(i) == Is(q[i], "capital") /\ i < Len(q) /\ Is(q[i + 1], "capital")
        Asked(i)  == Is(q[i], "unknown") \/ (Is(q[i], "wh") /\ ~IsName(i))
        slots == {i \in DOMAIN q : Asked(i)}
        phrase == \E i \in slots : Is(q[i], "unknown")
        open == WordsAt(q, {i \in DOMAIN q \ slots : ~(phrase /\ Is(q[i], "doing"))})
        aux  == IF open # <<>> /\ Is(Head(open), "auxiliary") THEN Tail(open) ELSE open
        rest == IF slots = {} THEN q ELSE TrimCopulas(aux)
    IN  IF rest = <<>> THEN q ELSE rest
=============================================================================
