--------------------------- MODULE AnswerExtraction ---------------------------
(***************************************************************************)
(* The extractive answerer of questions: backend/app/retrieval/video_qa.py.*)
(*                                                                         *)
(* A question is its type and whether it asks for degrees.  A text says    *)
(* how much of the question's words it holds (support, in twentieths) and  *)
(* what each pattern finds in it: nothing, something that is no valid      *)
(* answer for the type ("bad"), or an answer ("good").                     *)
(***************************************************************************)
EXTENDS Naturals, Sequences

CONSTANT NoAnswer   \* the empty answer

\* A pattern: its name, the least support it is tried with, the confidence of what
\* it finds in hundredths, and whether an invalid find is dropped on the spot, so
\* that the next pattern is tried.
Pattern(name, least, confidence, checked) ==
    [name |-> name, least |-> least, confidence |-> confidence, checked |-> checked]

QuestionTypes ==
    {"HOW_MANY", "WHERE", "WHEN", "DISEASE", "COLOR", "AIRLINE", "TEMPLE", "AUDIENCE",
     "ANIMAL", "NAME", "WHAT_TEXT", "WHO", "WHAT_SAID", "WHAT", "GENERAL"}

\* The patterns of a question, in the order in which they are tried.
Patterns(q) ==
    CASE q.type = "HOW_MANY" /\ q.degrees  -> <<Pattern("degrees", 5, 85, FALSE)>>
      [] q.type = "HOW_MANY" /\ ~q.degrees -> <<Pattern("unit", 6, 75, FALSE), Pattern("number", 9, 60, FALSE)>>
      [] q.type = "WHERE"    -> <<Pattern("place", 0, 80, TRUE), Pattern("entity", 0, 80, TRUE)>>
      [] q.type = "WHEN"     -> <<Pattern("date", 0, 80, FALSE)>>
      [] q.type = "DISEASE"  -> <<Pattern("disease", 0, 90, FALSE)>>
      [] q.type = "COLOR"    -> <<Pattern("color", 0, 80, FALSE)>>
      [] q.type = "AIRLINE"  -> <<Pattern("named", 0, 85, TRUE), Pattern("airline", 0, 85, FALSE)>>
      [] q.type = "TEMPLE"   -> <<Pattern("temple", 0, 90, TRUE)>>
      [] q.type = "AUDIENCE" -> <<Pattern("audience", 0, 80, TRUE)>>
      [] q.type = "ANIMAL"   -> <<Pattern("animal", 0, 85, FALSE)>>
      [] q.type \in {"NAME", "WHAT_TEXT"} -> <<Pattern("quoted", 0, 85, TRUE), Pattern("word", 5, 75, TRUE)>>
      [] q.type = "WHO"      -> <<Pattern("honorific", 0, 85, TRUE), Pattern("name", 8, 65, TRUE)>>
      [] OTHER               -> <<Pattern("colon", 7, 65, FALSE), Pattern("english", 0, 75, FALSE)>>

\* Types whose patterns are looked for in a text that does not support the question.
Unsupported == {"DISEASE", "TEMPLE", "AIRLINE", "AUDIENCE", "ANIMAL", "NAME"}

Finds(text, name) == IF name \in DOMAIN text.finds THEN text.finds[name] ELSE "none"

\* The number of the pattern whose find becomes the answer; 0: none does.
Matching(q, text) ==
    LET hits == {i \in DOMAIN Patterns(q) :
                     LET p == Patterns(q)[i] IN
                     /\ text.support >= p.least
                     /\ Finds(text, p.name) \in IF p.checked THEN {"good"} ELSE {"good", "bad"}}
    IN  IF hits = {} THEN 0 ELSE CHOOSE i \in hits : \A j \in hits : i <= j

\* Confidences in 1/2000 of a hundredth: certainty, and MIN_CONFIDENCE.
MaxConfidence == 100 * 2000
MinConfidence == 55 * 2000

\* The confidence, discounted by the support.
Adjusted(q, text) ==
    LET c == Patterns(q)[Matching(q, text)].confidence * (1400 + 30 * text.support)
    IN  IF c > MaxConfidence THEN MaxConfidence ELSE c

\* An evidence text from which an answer is returned.
Answers(q, text) ==
    /\ text.support >= 5 \/ q.type \in Unsupported
    /\ Matching(q, text) > 0
    /\ Finds(text, Patterns(q)[Matching(q, text)].name) = "good"
    /\ Adjusted(q, text) >= MinConfidence

\* Mutant of Extract: only a text with the most support is looked at.
ExtractBest(q, evidence) ==
    LET best == {i \in DOMAIN evidence : \A j \in DOMAIN evidence : evidence[i].text.support >= evidence[j].text.support}
        good == {i \in best : Answers(q, evidence[i].text)}
    IN  IF good = {} THEN NoAnswer
        ELSE LET i == CHOOSE i \in good : TRUE
             IN  [id |-> evidence[i].id, confidence |-> Adjusted(q, evidence[i].text)]

\* ExtractiveAnswerer.answer: texts are tried in the order of their support, equal
\* ones in the order given; the first that answers is it.
Extract(q, evidence) ==
    LET good == {i \in DOMAIN evidence : Answers(q, evidence[i].text)}
        Earlier(i, j) == \/ evidence[i].text.support > evidence[j].text.support
                         \/ evidence[i].text.support = evidence[j].text.support /\ i <= j
    IN  IF good = {} THEN NoAnswer
        ELSE LET best == CHOOSE i \in good : \A j \in good : Earlier(i, j)
             IN  [id |-> evidence[best].id, confidence |-> Adjusted(q, evidence[best].text)]
=============================================================================
