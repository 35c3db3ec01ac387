--------------------------- MODULE TextSearchProofs ---------------------------
(***************************************************************************)
(* The safety of a text, question or image search, for any corpus, any     *)
(* request and any bounds: the near-duplicate filter, the answers of a     *)
(* question, the budget of the remote model, and the order of the rows.    *)
(***************************************************************************)
EXTENDS TextSearch, FiniteSetTheorems, TLAPS

\* The invariant says of every row the filter has passed what became of it, and
\* of every answer which texts it is extracted from.

IsSeq(s) == \E S : s \in Seq(S)

LEMMA SeqFacts ==
    ASSUME NEW s, IsSeq(s)
    PROVE  Len(s) \in Nat /\ DOMAIN s = 1..Len(s)
<1>1. PICK S : s \in Seq(S)
    BY DEF IsSeq
<1> QED BY <1>1

LEMMA NothingIsSeq == IsSeq(<<>>)
<1>1. <<>> \in Seq({})
    OBVIOUS
<1>2. QED BY <1>1 DEF IsSeq

LEMMA Appended ==
    ASSUME NEW s, IsSeq(s), NEW x
    PROVE  /\ IsSeq(Append(s, x))
           /\ Len(Append(s, x)) = Len(s) + 1
           /\ DOMAIN Append(s, x) = 1..(Len(s) + 1)
           /\ \A i \in 1..Len(s) : Append(s, x)[i] = s[i]
           /\ Append(s, x)[Len(s) + 1] = x
<1>1. PICK S : s \in Seq(S)
    BY DEF IsSeq
<1>2. s \in Seq(S \cup {x})
    BY <1>1
<1>3. Append(s, x) \in Seq(S \cup {x})
    BY <1>2
<1> QED BY <1>2, <1>3 DEF IsSeq

LEMMA Counted ==
    ASSUME NEW n \in Nat, NEW S, NEW f \in [1..n -> S]
    PROVE  IsSeq(f) /\ Len(f) = n /\ DOMAIN f = 1..n
<1>1. f \in Seq(S)
    OBVIOUS
<1> QED BY <1>1 DEF IsSeq

\* The least of two numbers, as Min chooses it.
LEMMA LessOfTwo ==
    ASSUME NEW a \in Nat, NEW b \in Nat
    PROVE  Min({a, b}) = IF a <= b THEN a ELSE b
<1>1. Min({a, b}) \in {a, b} /\ \A y \in {a, b} : Min({a, b}) <= y
    <2>1. \E x \in {a, b} : \A y \in {a, b} : x <= y
        OBVIOUS
    <2> QED BY <2>1 DEF Min
<1> QED BY <1>1

\* The first rows of a list.
LEMMA FirstRows ==
    ASSUME NEW s, IsSeq(s), NEW top \in Nat
    PROVE  LET rows == SubSeq(s, 1, Min({top, Len(s)})) IN IsSeq(rows) /\ Len(rows) <= top
<1> DEFINE m == Min({top, Len(s)})
<1>1. Len(s) \in Nat
    BY SeqFacts
<1>2. m \in Nat /\ m <= top /\ m <= Len(s)
    BY <1>1, LessOfTwo
<1> HIDE DEF m
<1>3. PICK S : s \in Seq(S)
    BY DEF IsSeq
<1>4. SubSeq(s, 1, m) \in Seq(S) /\ Len(SubSeq(s, 1, m)) = m
    BY <1>1, <1>2, <1>3
<1>5. IsSeq(SubSeq(s, 1, m)) /\ Len(SubSeq(s, 1, m)) <= top
    BY <1>2, <1>4 DEF IsSeq
<1> QED BY <1>5 DEF m

\* A set of numbers that is not empty has a least element.
LEMMA LeastNumber ==
    ASSUME NEW S \in SUBSET Nat, S # {}
    PROVE  \E n \in S : \A m \in S : n <= m
<1>1. \E n \in S : \A m \in S : ~(<<m, n>> \in OpToRel(<, Nat))
    BY NatLessThanWellFounded, WFMin
<1>2. PICK n \in S : \A m \in S : ~(<<m, n>> \in OpToRel(<, Nat))
    BY <1>1
<1>3. \A m \in S : ~(m < n)
    BY <1>2 DEF OpToRel
<1> QED BY <1>3

\* A ranking has a place for every member of a finite set.
LEMMA RankingIsSeq ==
    ASSUME NEW S, IsFiniteSet(S), NEW score
    PROVE  IsSeq(Ranking(S, score))
<1>1. Cardinality(S) \in Nat
    BY FS_CardinalityType
<1> DEFINE f == Ranking(S, score)
           T == {CHOOSE k \in S : RankOf(S, score, k) = i : i \in 1..Cardinality(S)}
<1>2. f \in [1..Cardinality(S) -> T]
    BY DEF Ranking
<1> HIDE DEF f, T
<1>3. IsSeq(f)
    BY <1>1, <1>2, Counted
<1> QED BY <1>3 DEF f

-----------------------------------------------------------------------------
(* Candidates are finitely many *)

LEMMA ImageIsFinite ==
    ASSUME NEW S, IsFiniteSet(S), NEW T, NEW f \in [S -> T], \A t \in T : \E s \in S : f[s] = t
    PROVE  IsFiniteSet(T)
<1>1. f \in Surjection(S, T)
    BY DEF Surjection
<1> QED BY <1>1, FS_Surjection

LEMMA KeysAreFinite == IsFiniteSet(Keys)
<1>1. IsFiniteSet(Videos) /\ IsFiniteSet(Frames)
    BY TextSearchAssumption
<1>2. IsFiniteSet(Videos \X Frames)
    BY <1>1, FS_Product, Zenon
<1> QED BY <1>2 DEF Keys

\* Where the texts of a corpus begin, and the frames nearest to them.
LEMMA TextHitsAreFinite ==
    ASSUME corpus \in Corpora
    PROVE  /\ IsFiniteSet({StartOf(r) : r \in corpus.records})
           /\ IsFiniteSet({<<r.video, NearestFrame(r)>> : r \in corpus.records})
<1>1. IsFiniteSet(corpus.records)
    BY CorpusAssumption
<1>2. IsFiniteSet({StartOf(r) : r \in corpus.records})
    <2> DEFINE T == {StartOf(r) : r \in corpus.records}
               f == [r \in corpus.records |-> StartOf(r)]
    <2>1. f \in [corpus.records -> T] /\ \A t \in T : \E r \in corpus.records : f[r] = t
        OBVIOUS
    <2> HIDE DEF f, T
    <2>2. IsFiniteSet(T)
        BY <1>1, <2>1, ImageIsFinite
    <2> QED BY <2>2 DEF T
<1>3. IsFiniteSet({<<r.video, NearestFrame(r)>> : r \in corpus.records})
    <2> DEFINE T == {<<r.video, NearestFrame(r)>> : r \in corpus.records}
               f == [r \in corpus.records |-> <<r.video, NearestFrame(r)>>]
    <2>1. f \in [corpus.records -> T] /\ \A t \in T : \E r \in corpus.records : f[r] = t
        OBVIOUS
    <2> HIDE DEF f, T
    <2>2. IsFiniteSet(T)
        BY <1>1, <2>1, ImageIsFinite
    <2> QED BY <2>2 DEF T
<1> QED BY <1>2, <1>3

\* The candidates of every backend are frames, beginnings of texts or frames
\* nearest to them.
LEMMA CandidatesAreFinite ==
    ASSUME corpus \in Corpora
    PROVE  /\ IsFiniteSet(SingleCandidates) /\ IsFiniteSet(FusedCandidates)
           /\ IsFiniteSet(VisualHits(1)) /\ IsFiniteSet(DOMAIN QwenScores)
<1> DEFINE starts  == {StartOf(r) : r \in corpus.records}
           nearest == {<<r.video, NearestFrame(r)>> : r \in corpus.records}
           all == Keys \cup starts \cup nearest
<1>1. IsFiniteSet(all)
    <2>1. IsFiniteSet(Keys) /\ IsFiniteSet(starts) /\ IsFiniteSet(nearest)
        BY KeysAreFinite, TextHitsAreFinite
    <2> HIDE DEF starts, nearest
    <2>2. IsFiniteSet(Keys \cup starts)
        BY <2>1, FS_Union
    <2> QED BY <2>1, <2>2, FS_Union
<1>2. \A i : VisualHits(i) \subseteq all
    BY DEF VisualHits
<1>3. SingleCandidates \subseteq all
    BY <1>2 DEF SingleCandidates, Matched, Ocr, Asr
<1>4. FusedCandidates \subseteq all
    <2>1. DOMAIN TextChannel(Ocr) \subseteq all /\ DOMAIN TextChannel(Asr) \subseteq all
        BY DEF TextChannel, Ocr, Asr
    <2>2. \A c \in Channels : DOMAIN c.hits \subseteq all
        <3> SUFFICES ASSUME NEW c \in Channels PROVE DOMAIN c.hits \subseteq all
            OBVIOUS
        <3>1. \/ \E i \in DOMAIN corpus.visual : DOMAIN c.hits = VisualHits(i)
              \/ c.hits = TextChannel(Ocr)
              \/ c.hits = TextChannel(Asr)
            BY DEF Channels
        <3> QED BY <1>2, <2>1, <3>1
    <2> QED BY <2>2 DEF FusedCandidates
<1>5. DOMAIN QwenScores \subseteq all
    <2>1. DOMAIN QwenScores = DOMAIN ImageScores \cup DOMAIN TopTextHits(Ocr) \cup DOMAIN TopTextHits(Asr)
        BY DEF QwenScores
    <2>2. DOMAIN TopTextHits(Ocr) \subseteq all /\ DOMAIN TopTextHits(Asr) \subseteq all
        BY DEF TopTextHits, Ocr, Asr
    <2> QED BY <1>2, <2>1, <2>2 DEF ImageScores
<1> HIDE DEF all
<1> QED BY <1>1, <1>2, <1>3, <1>4, <1>5, FS_Subset

-----------------------------------------------------------------------------
(* The texts of a row *)

NearTexts(held, kind, k) == {r \in {r \in held.records : r.kind = kind} : Covers(r, k, Radius)}
Listed(held, k) == SetToSeq(NearTexts(held, "ocr", k)) \o SetToSeq(NearTexts(held, "asr", k))
Firsts(all)     == {i \in DOMAIN all : \A j \in 1..(i - 1) : all[j].text # all[i].text}
Ith(new, i)     == CHOOSE j \in new : Cardinality(new \cap 1..j) = i
Textual(r)      == [id |-> r, text |-> r.text]
EvidenceOf(held, k) ==
    [i \in 1..Cardinality(Firsts(Listed(held, k))) |-> Textual(Listed(held, k)[Ith(Firsts(Listed(held, k)), i)])]

LEMMA EvidenceIs == \A k : Evidence(k) = EvidenceOf(corpus, k)
    BY DEF Evidence, EvidenceOf, NearTexts, Listed, Firsts, Ith, Textual, Ocr, Asr

\* SetToSeq lists a finite set.
LEMMA ListOfSet ==
    ASSUME NEW S, IsFiniteSet(S)
    PROVE  SetToSeq(S) \in Seq(S)
<1>1. Cardinality(S) \in Nat /\ \E f : f \in Bijection(1..Cardinality(S), S)
    BY FS_CardinalityType DEF ExistsBijection
<1>2. PICK f : f \in Bijection(1..Cardinality(S), S)
    BY <1>1
<1>3. f \in [1..Cardinality(S) -> S] /\ IsInjective(f)
    BY <1>2 DEF Bijection, Injection
<1>4. SetToSeq(S) \in [1..Cardinality(S) -> S]
    BY <1>3 DEF SetToSeq
<1> QED BY <1>1, <1>4

\* Counting along a set of numbers passes every count: the i-th member exists.
LEMMA IthMember ==
    ASSUME NEW n \in Nat, NEW new \in SUBSET (1..n), NEW i \in 1..Cardinality(new)
    PROVE  \E j \in new : Cardinality(new \cap 1..j) = i
<1> DEFINE upTo(j) == new \cap 1..j
           enough  == {j \in 0..n : Cardinality(upTo(j)) >= i}
<1>1. \A j \in 0..n : IsFiniteSet(upTo(j)) /\ Cardinality(upTo(j)) \in Nat
    <2> SUFFICES ASSUME NEW j \in 0..n PROVE IsFiniteSet(upTo(j)) /\ Cardinality(upTo(j)) \in Nat
        OBVIOUS
    <2>1. IsFiniteSet(1..j)
        BY FS_Interval
    <2>2. IsFiniteSet(upTo(j))
        BY <2>1, FS_Intersection
    <2> QED BY <2>2, FS_CardinalityType
<1>2. upTo(n) = new /\ i \in Nat /\ i > 0 /\ Cardinality(upTo(n)) >= i
    <2>0. upTo(n) = new
        OBVIOUS
    <2>1. Cardinality(new) \in Nat
        <3>1. IsFiniteSet(1..n)
            BY FS_Interval
        <3>2. IsFiniteSet(new)
            BY <3>1, FS_Subset
        <3> QED BY <3>2, FS_CardinalityType
    <2> HIDE DEF upTo
    <2> QED BY <2>0, <2>1
<1>3. n \in enough
    BY <1>2
<1>4. PICK j \in enough : \A m \in enough : j <= m
    <2>1. enough \subseteq Nat
        OBVIOUS
    <2>2. enough # {}
        BY <1>3
    <2> HIDE DEF enough
    <2> QED BY <2>1, <2>2, LeastNumber
<1>5. j \in 0..n /\ Cardinality(upTo(j)) >= i
    BY <1>4
<1>6. j # 0
    <2>1. upTo(0) = {}
        <3>1. 1..0 = {}
            OBVIOUS
        <3> QED BY <3>1
    <2>2. Cardinality(upTo(0)) = 0
        BY <2>1, FS_EmptySet
    <2> QED BY <1>2, <1>5, <2>2
<1>7. j - 1 \in 0..n /\ j - 1 \notin enough
    BY <1>4, <1>5, <1>6
<1>8. ~(Cardinality(upTo(j - 1)) >= i)
    BY <1>7
<1>9. j \in new
    <2>1. SUFFICES ASSUME j \notin new PROVE FALSE
        OBVIOUS
    <2>2. upTo(j) = upTo(j - 1)
        BY <1>5, <1>6, <2>1
    <2> QED BY <1>5, <1>8, <2>2
<1>a. upTo(j) = upTo(j - 1) \cup {j} /\ j \notin upTo(j - 1)
    BY <1>5, <1>6, <1>9
<1>b. Cardinality(upTo(j)) = Cardinality(upTo(j - 1)) + 1
    <2>1. IsFiniteSet(upTo(j - 1))
        BY <1>1, <1>7
    <2> HIDE DEF upTo
    <2> QED BY <1>a, <2>1, FS_AddElement
<1>c. Cardinality(upTo(j)) = i
    <2>1. Cardinality(upTo(j - 1)) \in Nat
        BY <1>1, <1>7
    <2> HIDE DEF upTo
    <2> QED BY <1>2, <1>5, <1>8, <1>b, <2>1
<1> QED BY <1>9, <1>c

LEMMA WiderSeq ==
    ASSUME NEW A, NEW B, A \subseteq B, NEW s \in Seq(A)
    PROVE  s \in Seq(B)
    OBVIOUS

LEMMA BothLists ==
    ASSUME NEW S, NEW a \in Seq(S), NEW b \in Seq(S)
    PROVE  a \o b \in Seq(S) /\ Len(a \o b) \in Nat /\ DOMAIN (a \o b) = 1..Len(a \o b)
<1>1. a \o b \in Seq(S)
    OBVIOUS
<1> QED BY <1>1

LEMMA PartIsFinite ==
    ASSUME NEW S, IsFiniteSet(S), NEW T, T \subseteq S
    PROVE  IsFiniteSet(T)
<1>1. T \in SUBSET S
    OBVIOUS
<1>2. QED BY <1>1, FS_Subset

LEMMA ListedTexts ==
    ASSUME NEW held \in Corpora, NEW k
    PROVE  Listed(held, k) \in Seq({r \in held.records : r.video = k[1]})
<1> DEFINE ocr == NearTexts(held, "ocr", k)
           asr == NearTexts(held, "asr", k)
           here == {r \in held.records : r.video = k[1]}
<1>1. ocr \subseteq here /\ asr \subseteq here
    BY DEF NearTexts, Covers
<1>2. here \subseteq held.records /\ IsFiniteSet(held.records)
    BY CorpusAssumption
<1>3. Listed(held, k) = SetToSeq(ocr) \o SetToSeq(asr)
    BY DEF Listed
<1> HIDE DEF ocr, asr, here
<1>4. IsFiniteSet(here)
    BY <1>2, PartIsFinite
<1>5. SetToSeq(ocr) \in Seq(ocr)
    BY <1>1, <1>4, PartIsFinite, ListOfSet
<1>6. SetToSeq(asr) \in Seq(asr)
    BY <1>1, <1>4, PartIsFinite, ListOfSet
<1>7. SetToSeq(ocr) \in Seq(here)
    BY <1>1, <1>5, WiderSeq
<1>8. SetToSeq(asr) \in Seq(here)
    BY <1>1, <1>6, WiderSeq
<1>9. Listed(held, k) \in Seq(here)
    BY <1>3, <1>7, <1>8, BothLists
<1> QED BY <1>9 DEF here

LEMMA FirstsAreCounted ==
    ASSUME NEW S, NEW all \in Seq(S)
    PROVE  /\ Cardinality(Firsts(all)) \in Nat
           /\ \A i \in 1..Cardinality(Firsts(all)) : Ith(Firsts(all), i) \in DOMAIN all
<1>1. Len(all) \in Nat /\ DOMAIN all = 1..Len(all)
    OBVIOUS
<1>2. Firsts(all) \subseteq 1..Len(all)
    BY <1>1 DEF Firsts
<1>3. IsFiniteSet(1..Len(all))
    BY <1>1, FS_Interval
<1>4. IsFiniteSet(Firsts(all))
    BY <1>2, <1>3, PartIsFinite
<1>5. ASSUME NEW i \in 1..Cardinality(Firsts(all))
      PROVE  Ith(Firsts(all), i) \in DOMAIN all
    <2>1. \E j \in Firsts(all) : Cardinality(Firsts(all) \cap 1..j) = i
        BY <1>1, <1>2, IthMember
    <2>2. Ith(Firsts(all), i) \in Firsts(all)
        BY <2>1 DEF Ith
    <2> QED BY <1>1, <1>2, <2>2
<1>6. Cardinality(Firsts(all)) \in Nat
    BY <1>4, FS_CardinalityType
<1>7. QED BY <1>5, <1>6

\* The texts of a row are those of records of its video.
LEMMA EvidenceTexts ==
    ASSUME NEW held \in Corpora, NEW k
    PROVE  /\ \E n \in Nat : DOMAIN EvidenceOf(held, k) = 1..n
           /\ \A i \in DOMAIN EvidenceOf(held, k) :
                  /\ EvidenceOf(held, k)[i].id \in held.records
                  /\ EvidenceOf(held, k)[i].id.video = k[1]
                  /\ EvidenceOf(held, k)[i].text = EvidenceOf(held, k)[i].id.text
<1> DEFINE all == Listed(held, k)
           n   == Cardinality(Firsts(all))
           here == {r \in held.records : r.video = k[1]}
<1>1. EvidenceOf(held, k) = [i \in 1..n |-> Textual(all[Ith(Firsts(all), i)])]
    BY DEF EvidenceOf
<1>2. all \in Seq(here)
    BY ListedTexts
<1> HIDE DEF all, here
<1>3. n \in Nat /\ \A i \in 1..n : Ith(Firsts(all), i) \in DOMAIN all
    BY <1>2, FirstsAreCounted
<1>4. \A i \in 1..n : all[Ith(Firsts(all), i)] \in here
    BY <1>2, <1>3
<1> HIDE DEF n
<1>5. DOMAIN EvidenceOf(held, k) = 1..n
    BY <1>1
<1>6. ASSUME NEW i \in 1..n
      PROVE  /\ EvidenceOf(held, k)[i].id \in held.records
             /\ EvidenceOf(held, k)[i].id.video = k[1]
             /\ EvidenceOf(held, k)[i].text = EvidenceOf(held, k)[i].id.text
    <2> DEFINE r == all[Ith(Firsts(all), i)]
    <2>1. EvidenceOf(held, k)[i] = Textual(r)
        BY <1>1
    <2>2. r \in held.records /\ r.video = k[1]
        BY <1>4 DEF here
    <2> HIDE DEF r
    <2> QED BY <2>1, <2>2 DEF Textual
<1>7. QED BY <1>3, <1>5, <1>6

-----------------------------------------------------------------------------
(* The answer *)

\* What a pattern's find is worth is a number.
LEMMA ConfidenceType ==
    ASSUME NEW q, NEW i \in DOMAIN Patterns(q)
    PROVE  Patterns(q)[i].confidence \in Nat
    BY DEF Patterns, Pattern

LEMMA AnswerIsRated ==
    ASSUME NEW q, NEW text, text.support \in 0..20, Answers(q, text)
    PROVE  Adjusted(q, text) \in 0..MaxConfidence
<1> DEFINE hits == {i \in DOMAIN Patterns(q) :
                        LET p == Patterns(q)[i] IN
                        /\ text.support >= p.least
                        /\ Finds(text, p.name) \in IF p.checked THEN {"good"} ELSE {"good", "bad"}}
           c == Patterns(q)[Matching(q, text)].confidence * (1400 + 30 * text.support)
<1>1. Matching(q, text) = IF hits = {} THEN 0 ELSE CHOOSE i \in hits : \A j \in hits : i <= j
    BY DEF Matching
<1>2. \A j \in DOMAIN Patterns(q) : j \in Nat
    BY DEF Patterns
<1>3. hits # {}
    <2> HIDE DEF hits
    <2> QED BY <1>1 DEF Answers
<1>4. Matching(q, text) \in hits
    <2>1. hits \subseteq Nat
        BY <1>2
    <2> HIDE DEF hits
    <2>2. \E i \in hits : \A j \in hits : i <= j
        BY <1>3, <2>1, LeastNumber
    <2> QED BY <1>1, <1>3, <2>2
<1>5. Patterns(q)[Matching(q, text)].confidence \in Nat
    BY <1>4, ConfidenceType
<1>6. c \in Nat
    <2>1. 1400 + 30 * text.support \in Nat
        OBVIOUS
    <2> QED BY <1>5, <2>1
<1>7. Adjusted(q, text) = IF c > MaxConfidence THEN MaxConfidence ELSE c
    BY DEF Adjusted
<1> HIDE DEF c
<1>8. MaxConfidence \in Nat
    BY DEF MaxConfidence
<1>9. QED BY <1>6, <1>7, <1>8

\* The text that is tried first: of those with the most support the first.
LEMMA BestExists ==
    ASSUME NEW n \in Nat, NEW good \in SUBSET (1..n), good # {}, NEW support \in [good -> 0..20]
    PROVE  \E b \in good : \A j \in good : (support[b] > support[j]) \/ (support[b] = support[j] /\ b <= j)
<1> DEFINE lacks == {20 - support[i] : i \in good}
<1>0. \A i \in good : support[i] \in Int /\ 0 <= support[i] /\ support[i] <= 20
    OBVIOUS
<1>1. lacks \subseteq Nat /\ lacks # {}
    <2>1. \A i \in good : 20 - support[i] \in Nat
        BY <1>0
    <2> QED BY <2>1
<1>2. PICK least \in lacks : \A m \in lacks : least <= m
    <2> HIDE DEF lacks
    <2> QED BY <1>1, LeastNumber
<1>3. PICK first \in good : least = 20 - support[first]
    BY <1>2
<1>4. \A j \in good : support[first] >= support[j]
    <2>1. ASSUME NEW j \in good PROVE support[first] >= support[j]
        <3>1. least <= 20 - support[j]
            BY <1>2
        <3>2. support[j] \in Int /\ support[first] \in Int
            BY <1>0
        <3> QED BY <1>3, <3>1, <3>2
    <2> QED BY <2>1
<1> HIDE DEF lacks
<1> DEFINE most == {j \in good : support[j] = support[first]}
<1>5. most \subseteq Nat /\ most # {}
    <2>1. first \in most /\ most \subseteq 1..n
        BY <1>3
    <2> QED BY <2>1
<1>6. PICK b \in most : \A m \in most : b <= m
    <2> HIDE DEF most
    <2> QED BY <1>5, LeastNumber
<1>7. ASSUME NEW j \in good
      PROVE  (support[b] > support[j]) \/ (support[b] = support[j] /\ b <= j)
    <2>1. support[j] \in Int /\ support[first] \in Int /\ support[b] = support[first]
        BY <1>0, <1>3, <1>6
    <2>2. CASE support[j] = support[first]
        BY <1>6, <2>1, <2>2
    <2>3. CASE support[j] # support[first]
        <3>1. support[first] >= support[j]
            BY <1>4
        <3> QED BY <2>1, <2>3, <3>1
    <2> QED BY <2>2, <2>3
<1> QED BY <1>6, <1>7

LEMMA AtLeast == \A a, b \in 0..20 : (a > b \/ a = b) => a >= b
    OBVIOUS

\* One of the texts answers: so do all of them, from a text with as much support.
LEMMA ExtractHelps ==
    ASSUME NEW q, NEW ev, NEW n \in Nat, DOMAIN ev = 1..n,
           \A i \in DOMAIN ev : ev[i].text.support \in 0..20,
           NEW e \in DOMAIN ev, Extract(q, <<ev[e]>>) # NoAnswer
    PROVE  \E b \in DOMAIN ev :
               /\ Extract(q, ev) = [id |-> ev[b].id, confidence |-> Adjusted(q, ev[b].text)]
               /\ Answers(q, ev[b].text)
               /\ ev[b].text.support >= ev[e].text.support
<1> DEFINE good == {i \in DOMAIN ev : Answers(q, ev[i].text)}
           Before(i, j) == \/ ev[i].text.support > ev[j].text.support
                           \/ ev[i].text.support = ev[j].text.support /\ i <= j
           best == CHOOSE i \in good : \A j \in good : Before(i, j)
<1>1. Answers(q, ev[e].text)
    <2> DEFINE one == <<ev[e]>>
    <2>1. DOMAIN one = {1} /\ one[1] = ev[e]
        OBVIOUS
    <2> HIDE DEF one
    <2>2. {i \in DOMAIN one : Answers(q, one[i].text)} # {}
        <3>1. Extract(q, one) # NoAnswer
            BY DEF one
        <3> QED BY <3>1 DEF Extract
    <2> QED BY <2>1, <2>2
<1>2. e \in good
    BY <1>1
<1>3. \E b \in good : \A j \in good : Before(b, j)
    <2> DEFINE support == [i \in good |-> ev[i].text.support]
    <2>1. good \in SUBSET (1..n) /\ good # {} /\ support \in [good -> 0..20]
        BY <1>2
    <2>2. \A i \in good : support[i] = ev[i].text.support
        OBVIOUS
    <2> HIDE DEF good, support
    <2>3. PICK b \in good : \A j \in good : (support[b] > support[j]) \/ (support[b] = support[j] /\ b <= j)
        BY <2>1, BestExists
    <2> QED BY <2>2, <2>3
<1>4. best \in good /\ \A j \in good : Before(best, j)
    <2> HIDE DEF good
    <2> QED BY <1>3
<1>5. Extract(q, ev) = [id |-> ev[best].id, confidence |-> Adjusted(q, ev[best].text)]
    BY <1>2 DEF Extract
<1>6. Before(best, e) /\ best \in DOMAIN ev /\ Answers(q, ev[best].text)
    BY <1>2, <1>4
<1> HIDE DEF best, good
<1>7. ev[best].text.support >= ev[e].text.support
    <2>1. ev[best].text.support \in 0..20 /\ ev[e].text.support \in 0..20
        BY <1>6
    <2>2. QED BY <1>6, <2>1, AtLeast, Zenon
<1> QED BY <1>5, <1>6, <1>7

\* The same for the texts of a row.
LEMMA RowIsHelped ==
    ASSUME NEW held \in Corpora, NEW q, NEW k,
           NEW e \in Range(EvidenceOf(held, k)), Extract(q, <<e>>) # NoAnswer
    PROVE  LET answer == Extract(q, EvidenceOf(held, k)) IN
           answer # NoAnswer /\ answer.id.video = k[1] /\ answer.id.text.support >= e.text.support
<1> DEFINE ev == EvidenceOf(held, k)
<1>1. PICK n \in Nat : DOMAIN ev = 1..n
    BY EvidenceTexts
<1>2. \A i \in DOMAIN ev : ev[i].id \in held.records /\ ev[i].id.video = k[1] /\ ev[i].text = ev[i].id.text
    BY EvidenceTexts
<1>3. PICK i \in DOMAIN ev : e = ev[i]
    BY DEF Range
<1> HIDE DEF ev
<1>4. \A j \in DOMAIN ev : ev[j].text.support \in 0..20
    BY <1>2, CorpusAssumption
<1>5. PICK b \in DOMAIN ev :
          /\ Extract(q, ev) = [id |-> ev[b].id, confidence |-> Adjusted(q, ev[b].text)]
          /\ Answers(q, ev[b].text)
          /\ ev[b].text.support >= ev[i].text.support
    BY <1>1, <1>3, <1>4, ExtractHelps
<1>6. Adjusted(q, ev[b].text) \in 0..MaxConfidence
    BY <1>4, <1>5, AnswerIsRated
<1>7. Extract(q, ev) \in [id : held.records, confidence : 0..MaxConfidence]
    BY <1>2, <1>5, <1>6
<1>8. Extract(q, ev) # NoAnswer
    BY <1>7, CorpusAssumption
<1>9. Extract(q, ev).id.video = k[1] /\ Extract(q, ev).id.text.support >= e.text.support
    BY <1>2, <1>3, <1>5
<1> QED BY <1>8, <1>9 DEF ev

-----------------------------------------------------------------------------
(* The filter *)

\* Of the first rows of a list, those that were kept are apart, and those that were
\* not are too close to one before them that was.
Passed(rows, list, seen) ==
    /\ \A i, j \in DOMAIN rows : i # j => ~TooClose(rows[i], rows[j])
    /\ \A i \in DOMAIN rows : \E m \in 1..seen : list[m] = rows[i]
    /\ \A n \in 1..seen :
           \/ \E i \in DOMAIN rows : rows[i] = list[n]
           \/ \E m \in 1..(n - 1) : (\E i \in DOMAIN rows : rows[i] = list[m]) /\ TooClose(list[m], list[n])

LEMMA CloseBothWays == \A a, b : TooClose(a, b) <=> TooClose(b, a)
    BY DEF TooClose

LEMMA PassedNone == ASSUME NEW list PROVE Passed(<<>>, list, 0)
    BY DEF Passed

LEMMA PassedBySkipping ==
    ASSUME NEW rows, NEW list, NEW seen \in Nat, Passed(rows, list, seen),
           NEW i \in DOMAIN rows, TooClose(list[seen + 1], rows[i])
    PROVE  Passed(rows, list, seen + 1)
<1>1. PICK m \in 1..seen : list[m] = rows[i]
    BY DEF Passed
<1>2. TooClose(list[m], list[seen + 1])
    BY <1>1, CloseBothWays
<1>3. \A j, k \in DOMAIN rows : j # k => ~TooClose(rows[j], rows[k])
    BY DEF Passed
<1>4. \A j \in DOMAIN rows : \E k \in 1..(seen + 1) : list[k] = rows[j]
    <2>1. 1..seen \subseteq 1..(seen + 1)
        OBVIOUS
    <2> QED BY <2>1 DEF Passed
<1>5. ASSUME NEW n \in 1..(seen + 1)
      PROVE  \/ \E j \in DOMAIN rows : rows[j] = list[n]
             \/ \E k \in 1..(n - 1) : (\E j \in DOMAIN rows : rows[j] = list[k]) /\ TooClose(list[k], list[n])
    <2>1. CASE n \in 1..seen
        BY <2>1 DEF Passed
    <2>2. CASE n = seen + 1
        <3>1. m \in 1..(n - 1)
            BY <2>2
        <3> QED BY <1>1, <1>2, <2>2, <3>1
    <2> QED BY <2>1, <2>2
<1> QED BY <1>3, <1>4, <1>5 DEF Passed

LEMMA PassedByTaking ==
    ASSUME NEW rows, IsSeq(rows), NEW list, NEW seen \in Nat, Passed(rows, list, seen),
           \A i \in DOMAIN rows : ~TooClose(list[seen + 1], rows[i])
    PROVE  Passed(Append(rows, list[seen + 1]), list, seen + 1)
<1> DEFINE more == Append(rows, list[seen + 1])
           t == Len(rows)
<1>1. t \in Nat /\ DOMAIN rows = 1..t
    BY SeqFacts
<1>2. DOMAIN more = 1..(t + 1) /\ (\A i \in 1..t : more[i] = rows[i]) /\ more[t + 1] = list[seen + 1]
    BY Appended
<1> HIDE DEF more, t
<1>3. ASSUME NEW i \in DOMAIN more, NEW j \in DOMAIN more, i # j
      PROVE  ~TooClose(more[i], more[j])
    <2>1. CASE i \in 1..t /\ j \in 1..t
        BY <1>1, <1>2, <1>3, <2>1 DEF Passed
    <2>2. CASE i = t + 1 /\ j \in 1..t
        BY <1>1, <1>2, <2>2
    <2>3. CASE i \in 1..t /\ j = t + 1
        BY <1>1, <1>2, <2>3, CloseBothWays
    <2>4. i \in 1..(t + 1) /\ j \in 1..(t + 1)
        BY <1>2
    <2>5. (i \in 1..t \/ i = t + 1) /\ (j \in 1..t \/ j = t + 1)
        BY <1>1, <2>4
    <2> QED BY <1>3, <2>1, <2>2, <2>3, <2>5
<1>4. ASSUME NEW i \in DOMAIN more
      PROVE  \E m \in 1..(seen + 1) : list[m] = more[i]
    <2>1. CASE i \in 1..t
        <3>1. PICK m \in 1..seen : list[m] = rows[i]
            BY <1>1, <2>1 DEF Passed
        <3> QED BY <1>2, <2>1, <3>1
    <2>2. CASE i = t + 1
        <3>1. seen + 1 \in 1..(seen + 1)
            OBVIOUS
        <3> QED BY <1>2, <2>2, <3>1
    <2> QED BY <1>1, <1>2, <2>1, <2>2
<1>5. \A m : (\E i \in DOMAIN rows : rows[i] = list[m]) => \E i \in DOMAIN more : more[i] = list[m]
    BY <1>1, <1>2
<1>6. ASSUME NEW n \in 1..(seen + 1)
      PROVE  \/ \E j \in DOMAIN more : more[j] = list[n]
             \/ \E k \in 1..(n - 1) : (\E j \in DOMAIN more : more[j] = list[k]) /\ TooClose(list[k], list[n])
    <2>1. CASE n \in 1..seen
        <3>1. \/ \E j \in DOMAIN rows : rows[j] = list[n]
              \/ \E k \in 1..(n - 1) : (\E j \in DOMAIN rows : rows[j] = list[k]) /\ TooClose(list[k], list[n])
            BY <2>1 DEF Passed
        <3> QED BY <1>5, <3>1
    <2>2. CASE n = seen + 1
        <3>1. t + 1 \in DOMAIN more
            BY <1>1, <1>2
        <3> QED BY <1>2, <2>2, <3>1
    <2> QED BY <2>1, <2>2
<1>7. Passed(more, list, seen + 1)
    BY <1>3, <1>4, <1>6 DEF Passed
<1> QED BY <1>7 DEF more

LEMMA NotSeenYet ==
    ASSUME NEW t \in Nat, NEW n \in 1..t, NEW seen \in 0..t, n \notin 1..seen
    PROVE  seen <= n - 1 /\ seen # t /\ 1..seen \subseteq 1..(n - 1)
<1>1. n \in Nat /\ seen \in Nat /\ 1 <= n /\ n <= t /\ seen <= t
    OBVIOUS
<1>2. seen < n
    BY <1>1
<1> QED BY <1>1, <1>2

\* What becomes of a row of the list.
Accounted(rows, list, top, n) ==
    \/ \E i \in DOMAIN rows : rows[i] = list[n]
    \/ \E m \in 1..(n - 1) : /\ \E i \in DOMAIN rows : rows[i] = list[m]
                             /\ TooClose(list[m], list[n])
    \/ Len(rows) = top /\ \A i \in DOMAIN rows : \E m \in 1..(n - 1) : list[m] = rows[i]

\* What the filter returns: it has seen all rows, or has kept as many as were asked for.
LEMMA PassedIsGreedy ==
    ASSUME NEW rows, NEW list, IsSeq(list), NEW top, NEW seen \in 0..Len(list), Passed(rows, list, seen),
           seen = Len(list) \/ Len(rows) = top
    PROVE  \A n \in DOMAIN list : Accounted(rows, list, top, n)
<1> SUFFICES ASSUME NEW n \in DOMAIN list
             PROVE  Accounted(rows, list, top, n)
    OBVIOUS
<1>1. Len(list) \in Nat /\ DOMAIN list = 1..Len(list)
    BY SeqFacts
<1>2. CASE n \in 1..seen
    BY <1>2 DEF Passed, Accounted
<1>3. CASE n \notin 1..seen
    <2>0. seen <= n - 1 /\ seen # Len(list)
        BY <1>1, <1>3, NotSeenYet, Zenon
    <2>1. Len(rows) = top
        BY <2>0
    <2>2. 1..seen \subseteq 1..(n - 1)
        BY <1>1, <1>3, NotSeenYet, Zenon
    <2>3. \A i \in DOMAIN rows : \E m \in 1..(n - 1) : list[m] = rows[i]
        BY <2>2 DEF Passed
    <2> QED BY <2>1, <2>3 DEF Accounted
<1> QED BY <1>2, <1>3

-----------------------------------------------------------------------------
(* The states of a request *)

StageInv ==
    /\ request \in Requests /\ corpus \in Corpora /\ pc \in Stages
    /\ IsSeq(ranked) /\ IsSeq(selected) /\ IsSeq(answers)
    /\ next \in 0..Len(ranked)
    /\ pc \in {"start", "rerank"} => selected = <<>> /\ next = 0
    /\ pc \in {"start", "rerank", "select"} => answers = <<>>
    /\ pc = "select" => Len(selected) < request.top

RowsInv == Len(selected) <= request.top /\ Len(answers) <= Len(selected)

RemoteInv == remote \in 0..(Len(answers) + Unanswered) /\ RemoteBudget

FilterInv ==
    request.backend = "siglip2" /\ Filtered /\ pc \in {"select", "answer", "done"} =>
        /\ Passed(selected, ranked, next)
        /\ pc # "select" => next = Len(ranked) \/ Len(selected) = request.top

AnswerInv ==
    request.backend = "siglip2" =>
        \A n \in DOMAIN answers :
            n \in DOMAIN selected /\ answers[n] = Extract(request.question, EvidenceOf(corpus, selected[n]))

SearchInv == StageInv /\ RowsInv /\ RemoteInv /\ FilterInv /\ AnswerInv

LEMMA TopIsPositive == ASSUME request \in Requests PROVE request.top \in Nat /\ request.top > 0
    BY TextSearchAssumption

LEMMA SearchInvInit == TextInit => SearchInv
<1> SUFFICES ASSUME TextInit PROVE SearchInv
    OBVIOUS
<1>1. Len(<<>>) = 0 /\ DOMAIN <<>> = {}
    OBVIOUS
<1>2. StageInv
    BY <1>1, NothingIsSeq DEF TextInit, TextStart, StageInv, Stages
<1>3. RowsInv
    BY <1>1, TopIsPositive DEF TextInit, TextStart, RowsInv
<1>4. RemoteInv
    <2>1. {n \in DOMAIN answers : request.backend = "qwen3_vl" /\ answers[n].backend = "remote_llm"} = {}
        BY DEF TextInit, TextStart
    <2>2. Cardinality({}) = 0
        BY FS_EmptySet
    <2>3. RemoteBudget
        BY <2>1, <2>2, TextSearchAssumption DEF TextInit, TextStart, RemoteBudget
    <2> QED BY <1>1, <2>3 DEF TextInit, TextStart, RemoteInv, Unanswered
<1>5. FilterInv /\ AnswerInv
    BY <1>1 DEF TextInit, TextStart, FilterInv, AnswerInv
<1> QED BY <1>2, <1>3, <1>4, <1>5 DEF SearchInv

\* Nothing is remote, answered or filtered in a step that leaves the answers alone.
LEMMA AnswersStay ==
    ASSUME SearchInv, UNCHANGED <<request, corpus, answers, remote>>, pc # "failed" \/ pc' = pc
    PROVE  RemoteInv'
<1>1. remote \in 0..(Len(answers) + Unanswered) /\ Len(answers) \in Nat
    BY SeqFacts DEF SearchInv, StageInv, RemoteInv
<1>2. Unanswered \in {0, 1} /\ Unanswered' \in {0, 1} /\ (Unanswered = 0 \/ Unanswered' = Unanswered)
    BY DEF Unanswered
<1>3. remote \in 0..(Len(answers) + Unanswered')
    BY <1>1, <1>2
<1> QED BY <1>3 DEF SearchInv, RemoteInv, RemoteBudget

LEMMA RowsStay ==
    ASSUME SearchInv, UNCHANGED <<request, corpus, ranked, next, selected, answers, remote>>,
           pc # "failed" \/ pc' = pc
    PROVE  RowsInv' /\ RemoteInv' /\ AnswerInv'
<1>1. RemoteInv'
    BY AnswersStay
<1>2. RowsInv' /\ AnswerInv'
    BY DEF SearchInv, RowsInv, AnswerInv
<1> QED BY <1>1, <1>2

\* The candidates are put in an order.
LEMMA RankedKeeps ==
    ASSUME SearchInv, pc \in {"start", "rerank"}, pc' \in {"rerank", "select"}, IsSeq(ranked'),
           UNCHANGED <<request, corpus, next, selected, answers, remote>>
    PROVE  SearchInv'
<1>1. /\ request \in Requests /\ corpus \in Corpora
      /\ selected = <<>> /\ next = 0 /\ answers = <<>>
      /\ IsSeq(selected) /\ IsSeq(answers)
    BY DEF SearchInv, StageInv
<1>2. Len(ranked') \in Nat
    BY SeqFacts
<1>3. StageInv'
    <2>1. Len(selected) = 0
        BY <1>1
    <2>2. next' \in 0..Len(ranked') /\ Len(selected') < request'.top
        BY <1>1, <1>2, <2>1, TopIsPositive
    <2> QED BY <1>1, <2>2 DEF StageInv, Stages
<1>4. RowsInv' /\ RemoteInv'
    BY AnswersStay DEF SearchInv, RowsInv
<1>5. FilterInv'
    <2>1. Passed(selected', ranked', next')
        BY <1>1, PassedNone
    <2> QED BY <2>1 DEF FilterInv
<1>6. AnswerInv'
    BY <1>1 DEF AnswerInv
<1> QED BY <1>3, <1>4, <1>5, <1>6 DEF SearchInv

LEMMA ChoosingKeeps ==
    ASSUME SearchInv, SearchSingle \/ SearchMultiPath \/ Rerank \/ SearchImage
    PROVE  SearchInv'
<1>0. corpus \in Corpora /\ IsSeq(ranked)
    BY DEF SearchInv, StageInv
<1>1. IsFiniteSet(SingleCandidates) /\ IsFiniteSet(FusedCandidates) /\ IsFiniteSet(VisualHits(1))
    BY <1>0, CandidatesAreFinite
<1>2. /\ pc \in {"start", "rerank"} /\ pc' \in {"rerank", "select"}
      /\ UNCHANGED <<request, corpus, next, selected, answers, remote>>
    BY DEF SearchSingle, SearchMultiPath, Rerank, SearchImage
<1>3. CASE SearchSingle
    <2>1. IsSeq(Ranking(SingleCandidates, SingleScores))
        BY <1>1, RankingIsSeq
    <2>2. ranked' = <<>> \/ ranked' = Ranking(SingleCandidates, SingleScores)
        BY <1>3 DEF SearchSingle
    <2>3. IsSeq(ranked')
        <3>1. CASE ranked' = <<>>
            BY <3>1, NothingIsSeq
        <3>2. CASE ranked' = Ranking(SingleCandidates, SingleScores)
            BY <2>1, <3>2
        <3> QED BY <2>2, <3>1, <3>2
    <2> QED BY <1>2, <2>3, RankedKeeps
<1>4. CASE SearchMultiPath
    <2>1. IsSeq(Ranking(FusedCandidates, RrfScores))
        BY <1>1, RankingIsSeq
    <2>2. ranked' = Ranking(FusedCandidates, RrfScores)
        BY <1>4 DEF SearchMultiPath
    <2> QED BY <1>2, <2>1, <2>2, RankedKeeps
<1>5. CASE Rerank
    <2>1. IsSeq(Ranking(FusedCandidates, RerankScores))
        BY <1>1, RankingIsSeq
    <2>2. ranked' = ranked \/ ranked' = Ranking(FusedCandidates, RerankScores)
        BY <1>5 DEF Rerank
    <2>3. IsSeq(ranked')
        BY <1>0, <2>1, <2>2
    <2> QED BY <1>2, <2>3, RankedKeeps
<1>6. CASE SearchImage
    <2>1. IsSeq(Ranking(VisualHits(1), ImageScores))
        BY <1>1, RankingIsSeq
    <2>2. ranked' = Ranking(VisualHits(1), ImageScores)
        BY <1>6 DEF SearchImage
    <2> QED BY <1>2, <2>1, <2>2, RankedKeeps
<1> QED BY <1>3, <1>4, <1>5, <1>6

LEMMA NoLessThanZero == \A n \in Nat : 0 <= n
    OBVIOUS

\* The first rows are returned as they are, with or without the filter's reach.
LEMMA ReturningKeeps ==
    ASSUME SearchInv, answers = <<>>, IsSeq(ranked'), next' \in 0..Len(ranked'), pc # "failed", pc' = "answer",
           selected' = SubSeq(ranked', 1, Min({request.top, Len(ranked')})),
           request.backend = "siglip2" => ~Filtered',
           UNCHANGED <<request, corpus, answers, remote>>
    PROVE  SearchInv'
<1>1. request \in Requests /\ corpus \in Corpora /\ IsSeq(answers)
    BY DEF SearchInv, StageInv
<1>2. IsSeq(selected') /\ Len(selected') <= request.top /\ Len(selected') \in Nat
    <2>1. IsSeq(selected') /\ Len(selected') <= request.top
        BY <1>1, FirstRows, TopIsPositive
    <2> QED BY <2>1, SeqFacts
<1>3. StageInv'
    BY <1>1, <1>2 DEF StageInv, Stages
<1>4. RowsInv'
    <2>1. answers' = <<>> /\ Len(<<>>) = 0
        OBVIOUS
    <2>2. Len(answers') = 0
        BY <2>1
    <2>3. Len(answers') <= Len(selected')
        BY <1>2, <2>2, NoLessThanZero, Zenon
    <2> QED BY <1>2, <2>3, Zenon DEF RowsInv
<1>5. RemoteInv'
    BY AnswersStay
<1>6. FilterInv' /\ AnswerInv'
    BY DEF FilterInv, AnswerInv
<1> QED BY <1>3, <1>4, <1>5, <1>6 DEF SearchInv

LEMMA WholeKeeps ==
    ASSUME SearchInv, SearchQwen \/ ReturnAll
    PROVE  SearchInv'
<1>0. corpus \in Corpora /\ IsSeq(ranked) /\ next \in 0..Len(ranked) /\ (pc = "start" => next = 0)
    BY DEF SearchInv, StageInv
<1>1. answers = <<>>
    BY DEF SearchInv, StageInv, SearchQwen, ReturnAll
<1>2. CASE SearchQwen
    <2>1. IsSeq(ranked')
        BY <1>0, <1>2, CandidatesAreFinite, RankingIsSeq DEF SearchQwen
    <2>2. next' \in 0..Len(ranked')
        BY <1>0, <1>2, <2>1, SeqFacts DEF SearchQwen
    <2>3. request.backend # "siglip2"
        BY <1>2 DEF SearchQwen
    <2> QED BY <1>1, <1>2, <2>1, <2>2, <2>3, ReturningKeeps DEF SearchQwen
<1>3. CASE ReturnAll
    <2>1. ~Filtered' /\ UNCHANGED <<request, corpus, ranked, next, answers, remote>>
        BY <1>3 DEF ReturnAll, Filtered
    <2> QED BY <1>0, <1>1, <1>3, <2>1, ReturningKeeps DEF ReturnAll
<1> QED BY <1>2, <1>3

LEMMA SkipRowKeeps ==
    ASSUME SearchInv, SkipRow
    PROVE  SearchInv'
<1>0. StageInv /\ FilterInv
    BY DEF SearchInv
<1>1. /\ pc = "select" /\ pc' = "select" /\ Filtered /\ next < Len(ranked) /\ next' = next + 1
      /\ UNCHANGED <<request, corpus, ranked, selected, answers, remote>>
    BY DEF SkipRow
<1>2. PICK i \in DOMAIN selected : TooClose(ranked[next + 1], selected[i])
    BY DEF SkipRow
<1>3. next \in Nat /\ next' \in 0..Len(ranked)
    <2>1. Len(ranked) \in Nat /\ next \in 0..Len(ranked)
        BY <1>0, SeqFacts DEF StageInv
    <2> DEFINE t == Len(ranked)
    <2> HIDE DEF t
    <2>2. t \in Nat /\ next \in 0..t /\ next < t
        BY <1>1, <2>1 DEF t
    <2>3. next \in Nat /\ next + 1 \in 0..t
        BY <2>2
    <2> QED BY <1>1, <2>3 DEF t
<1>4. StageInv'
    BY <1>0, <1>1, <1>3 DEF StageInv
<1>5. FilterInv'
    <2>1. CASE request.backend = "siglip2"
        <3>1. Passed(selected, ranked, next)
            BY <1>0, <1>1, <2>1 DEF FilterInv
        <3>2. Passed(selected, ranked, next + 1)
            BY <1>2, <1>3, <3>1, PassedBySkipping
        <3> QED BY <1>1, <3>2 DEF FilterInv
    <2>2. CASE request.backend # "siglip2"
        BY <1>1, <2>2 DEF FilterInv
    <2> QED BY <2>1, <2>2
<1>6. RemoteInv'
    BY <1>1, AnswersStay
<1>7. RowsInv' /\ AnswerInv'
    BY <1>1 DEF SearchInv, RowsInv, AnswerInv
<1> QED BY <1>4, <1>5, <1>6, <1>7 DEF SearchInv

LEMMA TakeRowKeeps ==
    ASSUME SearchInv, TakeRow
    PROVE  SearchInv'
<1>0. StageInv /\ FilterInv /\ RowsInv
    BY DEF SearchInv
<1>1. /\ pc = "select" /\ Filtered /\ next < Len(ranked) /\ next' = next + 1
      /\ selected' = Append(selected, ranked[next + 1])
      /\ pc' = IF Len(selected') >= request.top THEN "answer" ELSE pc
      /\ UNCHANGED <<request, corpus, ranked, answers, remote>>
    BY DEF TakeRow
<1>2. \A i \in DOMAIN selected : ~TooClose(ranked[next + 1], selected[i])
    BY DEF TakeRow
<1>3. next \in Nat /\ next' \in 0..Len(ranked)
    <2>1. Len(ranked) \in Nat /\ next \in 0..Len(ranked)
        BY <1>0, SeqFacts DEF StageInv
    <2> DEFINE t == Len(ranked)
    <2> HIDE DEF t
    <2>2. t \in Nat /\ next \in 0..t /\ next < t
        BY <1>1, <2>1 DEF t
    <2>3. next \in Nat /\ next + 1 \in 0..t
        BY <2>2
    <2> QED BY <1>1, <2>3 DEF t
<1>4. IsSeq(selected') /\ Len(selected') = Len(selected) + 1
    BY <1>0, <1>1, Appended DEF StageInv
<1>5. /\ answers = <<>> /\ Len(selected) \in Nat /\ Len(selected) < request.top
      /\ request.top \in Nat /\ Len(selected') \in Nat
    BY <1>0, <1>1, <1>4, SeqFacts, TopIsPositive DEF StageInv
<1>6. Len(selected') <= request.top
    BY <1>4, <1>5
<1>7. /\ pc' \in {"select", "answer"} /\ (pc' = "select" => Len(selected') < request.top)
      /\ (pc' = "answer" => Len(selected') = request.top)
    <2> DEFINE many == Len(selected')
    <2>1. many \in Nat /\ request.top \in Nat /\ many <= request.top
        BY <1>5, <1>6
    <2>2. pc' = IF many >= request.top THEN "answer" ELSE "select"
        BY <1>1
    <2> HIDE DEF many
    <2>3. CASE many >= request.top
        BY <2>1, <2>2, <2>3 DEF many
    <2>4. CASE ~(many >= request.top)
        BY <2>1, <2>2, <2>4 DEF many
    <2> QED BY <2>3, <2>4
<1>8. StageInv'
    BY <1>0, <1>1, <1>3, <1>4, <1>5, <1>7 DEF StageInv, Stages
<1>9. RowsInv'
    <2>1. answers' = <<>> /\ Len(<<>>) = 0
        BY <1>1, <1>5
    <2>2. Len(answers') = 0
        BY <2>1
    <2>3. Len(answers') <= Len(selected')
        BY <1>5, <2>2
    <2> QED BY <1>1, <1>6, <2>3 DEF RowsInv
<1>a. FilterInv'
    <2>1. CASE request.backend = "siglip2"
        <3>1. Passed(selected, ranked, next)
            BY <1>0, <1>1, <2>1 DEF FilterInv
        <3>2. Passed(selected', ranked, next + 1)
            BY <1>0, <1>1, <1>2, <1>3, <3>1, PassedByTaking DEF StageInv
        <3> QED BY <1>1, <1>7, <3>2 DEF FilterInv
    <2>2. CASE request.backend # "siglip2"
        BY <1>1, <2>2 DEF FilterInv
    <2> QED BY <2>1, <2>2
<1>b. RemoteInv'
    BY <1>1, AnswersStay
<1>c. AnswerInv'
    BY <1>1, <1>5 DEF AnswerInv
<1> QED BY <1>8, <1>9, <1>a, <1>b, <1>c DEF SearchInv

\* Only the stage changes.
LEMMA StageKeeps ==
    ASSUME SearchInv, EndOfRows \/ Return \/ RefuseImage
    PROVE  SearchInv'
<1>0. StageInv /\ FilterInv
    BY DEF SearchInv
<1>1. UNCHANGED <<request, corpus, ranked, next, selected, answers, remote>>
    BY DEF EndOfRows, Return, RefuseImage
<1>2. \/ pc = "select" /\ pc' = "answer" /\ next = Len(ranked)
      \/ pc = "answer" /\ pc' = "done"
      \/ pc = "start" /\ pc' = "failed"
    BY DEF EndOfRows, Return, RefuseImage
<1>3. StageInv'
    BY <1>0, <1>1, <1>2 DEF StageInv, Stages
<1>4. FilterInv'
    BY <1>0, <1>1, <1>2 DEF FilterInv, Filtered
<1>5. RowsInv' /\ RemoteInv' /\ AnswerInv'
    BY <1>1, <1>2, RowsStay
<1> QED BY <1>3, <1>4, <1>5 DEF SearchInv

-----------------------------------------------------------------------------
(* The answers of a question *)

\* An answer that is added: the rows and the stage stay.
LEMMA AnsweringKeepsRows ==
    ASSUME SearchInv, pc = "answer", pc' = pc, NEW a, answers' = Append(answers, a), Len(answers) < Len(selected),
           UNCHANGED <<request, corpus, ranked, next, selected>>
    PROVE  /\ StageInv' /\ RowsInv' /\ FilterInv'
           /\ Len(answers) \in Nat /\ Len(answers') = Len(answers) + 1
<1>0. StageInv /\ FilterInv /\ RowsInv
    BY DEF SearchInv
<1>1. IsSeq(answers) /\ IsSeq(selected)
    BY <1>0 DEF StageInv
<1>2. IsSeq(answers') /\ Len(answers') = Len(answers) + 1
    BY <1>1, Appended
<1>3. Len(answers) \in Nat /\ Len(selected) \in Nat
    BY <1>1, SeqFacts
<1>4. StageInv'
    BY <1>0, <1>2 DEF StageInv
<1>5. RowsInv'
    BY <1>0, <1>2, <1>3 DEF RowsInv
<1>6. FilterInv'
    BY <1>0 DEF FilterInv, Filtered
<1> QED BY <1>2, <1>3, <1>4, <1>5, <1>6

\* Answers labelled as the remote model's.
RemoteOnes(backend, list) == {n \in DOMAIN list : backend = "qwen3_vl" /\ list[n].backend = "remote_llm"}

LEMMA RemoteOnesGrow ==
    ASSUME NEW backend, NEW list, IsSeq(list), NEW a
    PROVE  LET old == RemoteOnes(backend, list)
               new == RemoteOnes(backend, Append(list, a))
           IN  /\ Cardinality(old) \in Nat
               /\ Cardinality(new) \in Nat /\ Cardinality(new) <= Cardinality(old) + 1
               /\ backend # "qwen3_vl" \/ a.backend # "remote_llm" => new = old
<1> DEFINE t   == Len(list)
           old == RemoteOnes(backend, list)
           new == RemoteOnes(backend, Append(list, a))
<1>1. t \in Nat /\ DOMAIN list = 1..t
    BY SeqFacts
<1>2. DOMAIN Append(list, a) = 1..(t + 1) /\ (\A i \in 1..t : Append(list, a)[i] = list[i]) /\ Append(list, a)[t + 1] = a
    BY Appended
<1> HIDE DEF t
<1>3. old \subseteq 1..t
    BY <1>1 DEF RemoteOnes
<1>4. new \subseteq old \cup {t + 1}
    BY <1>1, <1>2 DEF RemoteOnes
<1>5. backend # "qwen3_vl" \/ a.backend # "remote_llm" => new = old
    BY <1>1, <1>2 DEF RemoteOnes
<1> HIDE DEF old, new
<1>6. IsFiniteSet(old) /\ Cardinality(old) \in Nat
    <2>1. IsFiniteSet(1..t)
        BY <1>1, FS_Interval
    <2>2. IsFiniteSet(old)
        BY <1>3, <2>1, PartIsFinite
    <2> QED BY <2>2, FS_CardinalityType
<1>7. IsFiniteSet(old \cup {t + 1}) /\ Cardinality(old \cup {t + 1}) <= Cardinality(old) + 1
    BY <1>6, FS_AddElement
<1>8. IsFiniteSet(new) /\ Cardinality(new) <= Cardinality(old \cup {t + 1})
    BY <1>4, <1>7, FS_Subset
<1>9. Cardinality(new) \in Nat /\ Cardinality(old \cup {t + 1}) \in Nat
    BY <1>7, <1>8, FS_CardinalityType
<1>a. Cardinality(new) <= Cardinality(old) + 1
    BY <1>6, <1>7, <1>8, <1>9
<1> QED BY <1>5, <1>6, <1>9, <1>a DEF old, new

LEMMA AnswerRowKeeps ==
    ASSUME SearchInv, AnswerRow
    PROVE  SearchInv'
<1> DEFINE a == Extract(request.question, Evidence(Row))
<1>0. StageInv /\ RemoteInv /\ AnswerInv /\ IsSeq(answers) /\ IsSeq(selected)
    BY DEF SearchInv, StageInv
<1>1. /\ pc = "answer" /\ pc' = pc /\ request.backend = "siglip2" /\ Len(answers) < Len(selected)
      /\ answers' = Append(answers, a)
      /\ UNCHANGED <<request, corpus, ranked, next, selected, remote>>
    BY DEF AnswerRow
<1>2. a = Extract(request.question, EvidenceOf(corpus, selected[Len(answers) + 1]))
    BY EvidenceIs DEF Row
<1> HIDE DEF a
<1>3. /\ StageInv' /\ RowsInv' /\ FilterInv'
      /\ Len(answers) \in Nat /\ Len(answers') = Len(answers) + 1
    BY <1>1, AnsweringKeepsRows
<1>4. RemoteInv'
    <2>1. RemoteOnes(request.backend, answers') = RemoteOnes(request.backend, answers)
        BY <1>0, <1>1, RemoteOnesGrow
    <2>2. remote \in 0..Len(answers') /\ Unanswered' = 0
        BY <1>0, <1>1, <1>3 DEF RemoteInv, Unanswered
    <2>3. remote <= RemoteTopN /\ Cardinality(RemoteOnes(request.backend, answers)) <= remote
        BY <1>0 DEF RemoteInv, RemoteBudget, RemoteOnes
    <2>4. remote' \in 0..(Len(answers') + Unanswered')
        BY <1>1, <1>3, <2>2
    <2> QED BY <1>1, <2>1, <2>3, <2>4 DEF RemoteInv, RemoteBudget, RemoteOnes
<1>5. AnswerInv'
    <2>1. DOMAIN answers' = 1..(Len(answers) + 1) /\ (\A i \in 1..Len(answers) : answers'[i] = answers[i])
          /\ answers'[Len(answers) + 1] = a
        BY <1>0, <1>1, Appended
    <2>2. DOMAIN answers = 1..Len(answers) /\ DOMAIN selected = 1..Len(selected) /\ Len(selected) \in Nat
        BY <1>0, SeqFacts
    <2>3. ASSUME NEW n \in DOMAIN answers'
          PROVE  n \in DOMAIN selected /\ answers'[n] = Extract(request.question, EvidenceOf(corpus, selected[n]))
        <3>1. CASE n \in 1..Len(answers)
            BY <1>0, <1>1, <2>1, <2>2, <3>1 DEF AnswerInv
        <3>2. CASE n = Len(answers) + 1
            BY <1>1, <1>2, <1>3, <2>1, <2>2, <3>2
        <3> QED BY <1>3, <2>1, <3>1, <3>2
    <2> QED BY <1>1, <2>3 DEF AnswerInv
<1> QED BY <1>3, <1>4, <1>5 DEF SearchInv

\* A row answered by the Qwen backend: with a call only among the first rows, and
\* labelled as the remote model's only with a call.
LEMMA QwenAnswerKeeps ==
    ASSUME SearchInv, AnsweringQwen, NEW answer, NEW backend, NEW made \in {0, 1}, QwenAnswer(answer, backend, made),
           made = 1 => Len(answers) < RemoteTopN,
           backend = "remote_llm" => made = 1
    PROVE  SearchInv'
<1> DEFINE a == [answer |-> answer, backend |-> backend]
<1>0. StageInv /\ RemoteInv /\ IsSeq(answers)
    BY DEF SearchInv, StageInv
<1>1. /\ pc = "answer" /\ pc' = pc /\ request.backend = "qwen3_vl" /\ Len(answers) < Len(selected)
      /\ answers' = Append(answers, a) /\ remote' = remote + made
      /\ UNCHANGED <<request, corpus, ranked, next, selected>>
    BY DEF AnsweringQwen, QwenAnswer
<1>2. a.backend = backend
    OBVIOUS
<1> HIDE DEF a
<1>3. /\ StageInv' /\ RowsInv' /\ FilterInv'
      /\ Len(answers) \in Nat /\ Len(answers') = Len(answers) + 1
    BY <1>1, AnsweringKeepsRows
<1>4. remote \in 0..Len(answers) /\ remote <= RemoteTopN /\ RemoteTopN \in Nat
      /\ Cardinality(RemoteOnes(request.backend, answers)) <= remote
    BY <1>0, <1>1, <1>3, TextSearchAssumption DEF RemoteInv, RemoteBudget, RemoteOnes, Unanswered
<1>5. remote' \in 0..Len(answers') /\ remote' <= RemoteTopN /\ Unanswered' = 0
    BY <1>1, <1>3, <1>4 DEF Unanswered
<1>6. Cardinality(RemoteOnes(request.backend, answers')) <= remote'
    <2> DEFINE old == Cardinality(RemoteOnes(request.backend, answers))
               new == Cardinality(RemoteOnes(request.backend, answers'))
    <2>1. old \in Nat /\ new \in Nat /\ new <= old + 1 /\ (backend # "remote_llm" => new = old)
        BY <1>0, <1>1, <1>2, RemoteOnesGrow
    <2>2. old <= remote /\ remote \in Nat
        BY <1>4
    <2> HIDE DEF old, new
    <2>3. new <= remote + made
        BY <2>1, <2>2
    <2> QED BY <1>1, <2>3 DEF new
<1>7. RemoteInv'
    <2>1. remote' \in 0..(Len(answers') + Unanswered')
        BY <1>3, <1>5
    <2> QED BY <1>1, <1>5, <1>6, <2>1 DEF RemoteInv, RemoteBudget, RemoteOnes
<1>8. AnswerInv'
    BY <1>1 DEF AnswerInv
<1> QED BY <1>3, <1>7, <1>8 DEF SearchInv

\* The request ends with a call that answered nothing.
LEMMA RaisingKeeps ==
    ASSUME SearchInv, RemoteRaises
    PROVE  SearchInv'
<1>0. StageInv /\ RemoteInv /\ RowsInv /\ AnswerInv
    BY DEF SearchInv
<1>1. /\ pc = "answer" /\ pc' = "failed" /\ remote' \in {remote, remote + 1} /\ Len(answers) < RemoteTopN
      /\ UNCHANGED <<request, corpus, ranked, next, selected, answers>>
    BY DEF RemoteRaises, AnsweringQwen, MayAskRemote
<1>2. StageInv' /\ FilterInv' /\ RowsInv' /\ AnswerInv'
    BY <1>0, <1>1 DEF StageInv, Stages, FilterInv, RowsInv, AnswerInv
<1>3. remote \in 0..Len(answers) /\ Len(answers) \in Nat /\ RemoteTopN \in Nat
      /\ Cardinality(RemoteOnes(request.backend, answers)) <= remote
    BY <1>0, <1>1, SeqFacts, TextSearchAssumption DEF StageInv, RemoteInv, RemoteBudget, RemoteOnes, Unanswered
<1>4. Cardinality(RemoteOnes(request.backend, answers)) \in Nat
    <2>1. IsFiniteSet(DOMAIN answers)
        <3>1. DOMAIN answers = 1..Len(answers)
            BY <1>0, SeqFacts DEF StageInv
        <3> QED BY <1>3, <3>1, FS_Interval
    <2>2. IsFiniteSet(RemoteOnes(request.backend, answers))
        BY <2>1, FS_Subset DEF RemoteOnes
    <2> QED BY <2>2, FS_CardinalityType
<1>5. remote' \in 0..(Len(answers) + 1) /\ remote' <= RemoteTopN
      /\ Cardinality(RemoteOnes(request.backend, answers)) <= remote'
    BY <1>1, <1>3, <1>4
<1>6. RemoteInv'
    BY <1>1, <1>5 DEF RemoteInv, RemoteBudget, RemoteOnes, Unanswered
<1> QED BY <1>2, <1>6 DEF SearchInv

LEMMA QwenKeeps ==
    ASSUME SearchInv, AnswerFromSnippet \/ AskRemote
    PROVE  SearchInv'
<1>1. CASE AnswerFromSnippet
    BY <1>1, QwenAnswerKeeps DEF AnswerFromSnippet
<1>2. CASE AskRemote
    <2>1. AnsweringQwen /\ Len(answers) < RemoteTopN
        BY <1>2 DEF AskRemote, MayAskRemote
    <2>2. CASE QwenAnswer("remote", "remote_llm", 1)
        BY <2>1, <2>2, QwenAnswerKeeps
    <2>3. CASE \E made \in {0, 1} : QwenAnswer(Fallback(Row), "extractive", made)
        BY <2>1, <2>3, QwenAnswerKeeps
    <2> QED BY <1>2, <2>2, <2>3 DEF AskRemote
<1> QED BY <1>1, <1>2

-----------------------------------------------------------------------------

LEMMA SearchInvNext == SearchInv /\ [TextNext]_textVars => SearchInv'
<1> SUFFICES ASSUME SearchInv, [TextNext]_textVars PROVE SearchInv'
    OBVIOUS
<1>1. CASE UNCHANGED textVars
    <2>1. UNCHANGED <<request, corpus, pc, ranked, next, selected, answers, remote>>
        BY <1>1 DEF textVars
    <2>2. StageInv' /\ FilterInv'
        BY <2>1 DEF SearchInv, StageInv, FilterInv, Filtered
    <2>3. RowsInv' /\ RemoteInv' /\ AnswerInv'
        BY <2>1, RowsStay
    <2> QED BY <2>2, <2>3 DEF SearchInv
<1>2. CASE SearchSingle \/ SearchMultiPath \/ Rerank \/ SearchImage
    BY <1>2, ChoosingKeeps
<1>3. CASE SearchQwen \/ ReturnAll
    BY <1>3, WholeKeeps
<1>4. CASE SkipRow
    BY <1>4, SkipRowKeeps
<1>5. CASE TakeRow
    BY <1>5, TakeRowKeeps
<1>6. CASE EndOfRows \/ Return \/ RefuseImage
    BY <1>6, StageKeeps
<1>7. CASE AnswerRow
    BY <1>7, AnswerRowKeeps
<1>8. CASE AnswerFromSnippet \/ AskRemote
    BY <1>8, QwenKeeps
<1>9. CASE RemoteRaises
    BY <1>9, RaisingKeeps
<1> QED BY <1>1, <1>2, <1>3, <1>4, <1>5, <1>6, <1>7, <1>8, <1>9 DEF TextNext

\* The invariant holds in every state of a request (ConfiguredSearch.handle and
\* QwenRuntimeSearch.search_single with the loops at their ends).
THEOREM SearchIsConsistent == TextSpec => []SearchInv
BY SearchInvInit, SearchInvNext, PTL DEF TextSpec

\* The budget of the remote model and the lengths of rows and answers, for any
\* number of rows asked for (qa_answer_synthesizer's top_n, the cut at top_k).
THEOREM TypeCorrect == TextSpec => []TypeOK
<1>1. SearchInv => TypeOK
    BY DEF SearchInv, StageInv, RowsInv, RemoteInv, TypeOK
<1> QED BY <1>1, SearchIsConsistent, PTL

\* The near-duplicate filter keeps rows apart and leaves nothing out without reason,
\* for any ranking, any distance and any number of rows.
THEOREM FilterIsSound == TextSpec => []FilterIsGreedy
<1>1. ASSUME SearchInv, pc \in {"answer", "done"} /\ Filtered /\ request.backend = "siglip2"
      PROVE  /\ \A i, j \in DOMAIN selected : i # j => ~TooClose(selected[i], selected[j])
             /\ \A n \in DOMAIN ranked : Accounted(selected, ranked, request.top, n)
    <2>1. Passed(selected, ranked, next) /\ (next = Len(ranked) \/ Len(selected) = request.top)
        BY <1>1 DEF SearchInv, FilterInv
    <2>2. IsSeq(ranked) /\ next \in 0..Len(ranked)
        BY <1>1 DEF SearchInv, StageInv
    <2>3. \A i, j \in DOMAIN selected : i # j => ~TooClose(selected[i], selected[j])
        BY <2>1 DEF Passed
    <2>4. \A n \in DOMAIN ranked : Accounted(selected, ranked, request.top, n)
        BY <2>1, <2>2, PassedIsGreedy
    <2> QED BY <2>3, <2>4
<1>2. SearchInv => FilterIsGreedy
    BY <1>1 DEF FilterIsGreedy, Accounted
<1> QED BY <1>2, SearchIsConsistent, PTL

\* A row that some of its texts answer is answered, from a text of its video with no
\* less support, for any texts and any question (ExtractiveAnswerer.answer over
\* _qa_evidence_for_row).
THEOREM EvidenceIsUsed == TextSpec => []EvidenceHelps
<1>1. ASSUME SearchInv, NEW n \in DOMAIN answers, request.backend = "siglip2",
             NEW e \in Range(Evidence(selected[n])), Extract(request.question, <<e>>) # NoAnswer
      PROVE  answers[n] # NoAnswer /\ answers[n].id.video = selected[n][1] /\ answers[n].id.text.support >= e.text.support
    <2>1. corpus \in Corpora /\ answers[n] = Extract(request.question, EvidenceOf(corpus, selected[n]))
        BY <1>1 DEF SearchInv, StageInv, AnswerInv
    <2>2. e \in Range(EvidenceOf(corpus, selected[n]))
        BY EvidenceIs
    <2> QED BY <1>1, <2>1, <2>2, RowIsHelped
<1>2. SearchInv => EvidenceHelps
    BY <1>1 DEF EvidenceHelps
<1> QED BY <1>2, SearchIsConsistent, PTL

-----------------------------------------------------------------------------
(* Sums over finite sets, as FoldSet computes them *)

Pick(s) == CHOOSE x \in s : TRUE

SumBody(S, w, g) == [s \in SUBSET S |-> IF s = {} THEN 0 ELSE g[s \ {Pick(s)}] + w[Pick(s)]]

LEMMA Smaller ==
    ASSUME NEW S, IsFiniteSet(S), NEW s \in SUBSET S, s # {}
    PROVE  /\ Pick(s) \in s /\ s \ {Pick(s)} \in SUBSET S
           /\ Cardinality(s) \in Nat \ {0} /\ Cardinality(s \ {Pick(s)}) = Cardinality(s) - 1
<1>1. Pick(s) \in s
    BY DEF Pick
<1>2. IsFiniteSet(s)
    BY FS_Subset
<1>3. Cardinality(s) \in Nat /\ Cardinality(s) # 0
    BY <1>2, FS_CardinalityType, FS_EmptySet
<1>4. Cardinality(s \ {Pick(s)}) = IF Pick(s) \in s THEN Cardinality(s) - 1 ELSE Cardinality(s)
    BY <1>2, FS_RemoveElement
<1> QED BY <1>1, <1>3, <1>4

\* The recursive function exists.
LEMMA SumExists ==
    ASSUME NEW S, IsFiniteSet(S), NEW w
    PROVE  \E g : g = SumBody(S, w, g)
<1> DEFINE Upto(n) == {s \in SUBSET S : Cardinality(s) <= n}
           Part(n, g) == g = [s \in Upto(n) |-> IF s = {} THEN 0 ELSE g[s \ {Pick(s)}] + w[Pick(s)]]
           bad == {n \in Nat : ~\E g : Part(n, g)}
<1>1. bad = {}
    <2> SUFFICES ASSUME bad # {} PROVE FALSE
        OBVIOUS
    <2>1. PICK n \in bad : \A m \in bad : n <= m
        <3>1. bad \in SUBSET Nat
            OBVIOUS
        <3> HIDE DEF bad
        <3> QED BY <3>1, LeastNumber
    <2>2. n \in Nat /\ ~\E g : Part(n, g)
        BY <2>1
    <2>3. CASE n = 0
        <3> DEFINE h == [s \in Upto(n) |-> 0]
        <3>1. \A s \in Upto(n) : s = {}
            <4> SUFFICES ASSUME NEW s \in Upto(n), s # {} PROVE FALSE
                OBVIOUS
            <4>1. Cardinality(s) \in Nat \ {0} /\ Cardinality(s) <= 0
                BY <2>3, Smaller
            <4> QED BY <4>1
        <3>2. Part(n, h)
            BY <3>1
        <3> QED BY <2>2, <3>2
    <2>4. CASE n # 0
        <3>1. n - 1 \in Nat /\ ~(n <= n - 1)
            BY <2>2, <2>4
        <3>2. PICK f : Part(n - 1, f)
            BY <2>1, <3>1
        <3> DEFINE h == [s \in Upto(n) |-> IF s = {} THEN 0 ELSE f[s \ {Pick(s)}] + w[Pick(s)]]
        <3>3. ASSUME NEW s \in Upto(n), s # {} PROVE h[s \ {Pick(s)}] = f[s \ {Pick(s)}]
            <4> DEFINE t == s \ {Pick(s)}
            <4>1. t \in SUBSET S /\ Cardinality(t) = Cardinality(s) - 1 /\ Cardinality(s) \in Nat /\ Cardinality(s) <= n
                BY <3>3, Smaller
            <4>2. Cardinality(t) <= n - 1 /\ Cardinality(t) <= n
                BY <2>2, <4>1
            <4> HIDE DEF t
            <4>3. t \in Upto(n - 1) /\ t \in Upto(n)
                BY <4>1, <4>2
            <4>4. f[t] = IF t = {} THEN 0 ELSE f[t \ {Pick(t)}] + w[Pick(t)]
                BY <3>2, <4>3
            <4>5. h[t] = IF t = {} THEN 0 ELSE f[t \ {Pick(t)}] + w[Pick(t)]
                BY <4>3
            <4> QED BY <4>4, <4>5 DEF t
        <3>4. h = [s \in Upto(n) |-> IF s = {} THEN 0 ELSE h[s \ {Pick(s)}] + w[Pick(s)]]
            <4>1. \A s \in Upto(n) : h[s] = IF s = {} THEN 0 ELSE h[s \ {Pick(s)}] + w[Pick(s)]
                BY <3>3
            <4>2. h = [s \in Upto(n) |-> h[s]]
                OBVIOUS
            <4> HIDE DEF h
            <4> QED BY <4>1, <4>2
        <3>5. Part(n, h)
            BY <3>4
        <3> QED BY <2>2, <3>5
    <2> QED BY <2>3, <2>4
<1>2. Cardinality(S) \in Nat
    BY FS_CardinalityType
<1>3. PICK g : Part(Cardinality(S), g)
    BY <1>1, <1>2
<1>4. Upto(Cardinality(S)) = SUBSET S
    BY FS_Subset
<1>5. g = SumBody(S, w, g)
    BY <1>3, <1>4 DEF SumBody
<1> QED BY <1>5

\* The members of s are counted one by one.
IsSum(g, S, w) ==
    /\ g[{}] = 0
    /\ \A s \in SUBSET S : s # {} => g[s] = g[s \ {Pick(s)}] + w[Pick(s)]

\* The order in which they are counted does not matter.
Additive(g, S, w) == \A s \in SUBSET S : g[s] \in Nat /\ \A x \in S \ s : g[s \cup {x}] = g[s] + w[x]

LEMMA SumAddsOne ==
    ASSUME NEW S, IsFiniteSet(S), NEW w, \A x \in S : w[x] \in Nat, NEW g, IsSum(g, S, w)
    PROVE  Additive(g, S, w)
<1> DEFINE Good(s) == g[s] \in Nat /\ \A x \in S \ s : g[s \cup {x}] = g[s] + w[x]
           bad == {Cardinality(s) : s \in {s \in SUBSET S : ~Good(s)}}
<1>1. \A s \in SUBSET S : IsFiniteSet(s) /\ Cardinality(s) \in Nat
    BY FS_Subset, FS_CardinalityType
<1>2. SUFFICES ASSUME bad # {} PROVE FALSE
    BY DEF Additive
<1>3. PICK n \in bad : \A m \in bad : n <= m
    <2>1. bad \in SUBSET Nat
        BY <1>1
    <2> HIDE DEF bad
    <2> QED BY <1>2, <2>1, LeastNumber
<1>4. PICK s \in SUBSET S : n = Cardinality(s) /\ ~Good(s)
    OBVIOUS
<1>5. \A t \in SUBSET S : Cardinality(t) < Cardinality(s) => Good(t)
    <2> SUFFICES ASSUME NEW t \in SUBSET S, Cardinality(t) < Cardinality(s), ~Good(t) PROVE FALSE
        OBVIOUS
    <2>1. Cardinality(t) \in bad
        OBVIOUS
    <2>2. Cardinality(s) <= Cardinality(t)
        BY <1>3, <1>4, <2>1
    <2> QED BY <1>1, <2>2
<1> HIDE DEF bad
<1>6. g[s] \in Nat
    <2>1. CASE s = {}
        BY <2>1 DEF IsSum
    <2>2. CASE s # {}
        <3> DEFINE t == s \ {Pick(s)}
        <3>1. Pick(s) \in S /\ t \in SUBSET S /\ Cardinality(s) \in Nat /\ Cardinality(t) = Cardinality(s) - 1
            BY <2>2, Smaller
        <3>2. g[s] = g[t] + w[Pick(s)]
            BY <2>2 DEF IsSum
        <3> HIDE DEF t
        <3>3. Cardinality(t) < Cardinality(s)
            BY <3>1
        <3>4. g[t] \in Nat
            BY <1>5, <3>1, <3>3
        <3> QED BY <3>1, <3>2, <3>4
    <2> QED BY <2>1, <2>2
<1>7. ASSUME NEW x \in S \ s PROVE g[s \cup {x}] = g[s] + w[x]
    <2> DEFINE u == s \cup {x}
               y == Pick(u)
               t == s \ {y}
    <2>1. u \in SUBSET S /\ u # {} /\ y \in u
        BY DEF Pick
    <2>2. g[u] = g[u \ {y}] + w[y]
        BY <2>1 DEF IsSum
    <2> HIDE DEF y
    <2>3. CASE y = x
        <3>1. u \ {y} = s
            BY <2>3
        <3> QED BY <2>2, <2>3, <3>1
    <2>4. CASE y # x
        <3>1. y \in s /\ t \in SUBSET S /\ u \ {y} = t \cup {x} /\ t \cup {y} = s /\ x \in S \ t /\ y \in S \ t
            BY <2>1, <2>4
        <3>2. Cardinality(t) < Cardinality(s)
            <4>1. Cardinality(s \ {y}) = IF y \in s THEN Cardinality(s) - 1 ELSE Cardinality(s)
                BY <1>1, FS_RemoveElement
            <4> QED BY <1>1, <3>1, <4>1
        <3> HIDE DEF t, u
        <3>3. Good(t)
            BY <1>5, <3>1, <3>2
        <3>4. g[t \cup {x}] = g[t] + w[x] /\ g[t \cup {y}] = g[t] + w[y] /\ g[t] \in Nat
            BY <3>1, <3>3
        <3>5. w[x] \in Nat /\ w[y] \in Nat
            BY <3>1
        <3>6. g[u] = (g[t] + w[x]) + w[y] /\ g[s] = g[t] + w[y]
            BY <2>2, <3>1, <3>4
        <3>7. g[u] = g[s] + w[x]
            BY <3>4, <3>5, <3>6
        <3> QED BY <3>7 DEF u
    <2> QED BY <2>3, <2>4
<1> QED BY <1>4, <1>6, <1>7

\* At most as much, and less if anything is counted at all.
Below(a, b, counted) == a <= b /\ (counted # {} => a < b)

\* A sum over more members, each of which counts more, is larger.
LEMMA SumGrows ==
    ASSUME NEW S, IsFiniteSet(S), NEW w, \A x \in S : w[x] \in Nat, NEW g, IsSum(g, S, w),
           NEW T \in SUBSET S, NEW v, \A x \in T : v[x] \in Nat /\ v[x] < w[x], NEW h, IsSum(h, T, v), T # {}
    PROVE  g[S] \in Nat /\ h[T] \in Nat /\ h[T] < g[S]
<1> DEFINE Good(s) == Below(h[s \cap T], g[s], s \cap T)
           bad == {Cardinality(s) : s \in {s \in SUBSET S : ~Good(s)}}
<1>0. IsFiniteSet(T)
    BY FS_Subset
<1>a. Additive(h, T, v)
    <2>1. \A x \in T : v[x] \in Nat
        OBVIOUS
    <2> QED BY <1>0, <2>1, SumAddsOne, Zenon
<1>1. \A s \in SUBSET S : IsFiniteSet(s) /\ Cardinality(s) \in Nat /\ g[s] \in Nat /\ h[s \cap T] \in Nat
    <2>1. \A s \in SUBSET S : g[s] \in Nat
        BY SumAddsOne DEF Additive
    <2>2. \A s \in SUBSET T : h[s] \in Nat
        BY <1>a DEF Additive
    <2> QED BY <2>1, <2>2, FS_Subset, FS_CardinalityType
<1>2. bad = {}
    <2> SUFFICES ASSUME bad # {} PROVE FALSE
        OBVIOUS
    <2>3. PICK n \in bad : \A m \in bad : n <= m
        <3>1. bad \in SUBSET Nat
            BY <1>1
        <3> HIDE DEF bad
        <3> QED BY <3>1, LeastNumber
    <2>4. PICK s \in SUBSET S : n = Cardinality(s) /\ ~Good(s)
        OBVIOUS
    <2>5. \A t \in SUBSET S : Cardinality(t) < Cardinality(s) => Good(t)
        <3> SUFFICES ASSUME NEW t \in SUBSET S, Cardinality(t) < Cardinality(s), ~Good(t) PROVE FALSE
            OBVIOUS
        <3>1. Cardinality(t) \in bad
            OBVIOUS
        <3>2. Cardinality(s) <= Cardinality(t)
            BY <2>3, <2>4, <3>1
        <3>3. Cardinality(s) \in Nat /\ Cardinality(t) \in Nat
            BY <1>1
        <3> QED BY <3>2, <3>3
    <2> HIDE DEF bad
    <2>6. CASE s = {}
        <3>1. g[s] = 0 /\ s \cap T = {} /\ h[s \cap T] = 0
            BY <2>6 DEF IsSum
        <3>2. Below(0, 0, {})
            BY DEF Below
        <3>3. Below(h[s \cap T], g[s], s \cap T)
            BY <3>1, <3>2, Zenon
        <3> QED BY <2>4, <3>3, Zenon
    <2>7. CASE s # {}
        <3> DEFINE y == Pick(s)
                   t == s \ {y}
        <3>1. y \in s /\ t \in SUBSET S /\ Cardinality(t) < Cardinality(s)
            BY <1>1, <2>7, Smaller
        <3>2. g[s] = g[t] + w[y]
            BY <2>7 DEF IsSum
        <3> HIDE DEF y
        <3>3. Good(t)
            BY <2>5, <3>1
        <3>4. g[t] \in Nat /\ h[t \cap T] \in Nat /\ w[y] \in Nat
            BY <1>1, <3>1
        <3>5. h[t \cap T] <= g[t] /\ (t \cap T # {} => h[t \cap T] < g[t])
            BY <3>3 DEF Below
        <3>6. CASE y \in T
            <4>1. s \cap T = (t \cap T) \cup {y} /\ y \in T \ (t \cap T) /\ t \cap T \in SUBSET T
                BY <3>1, <3>6
            <4>2. h[s \cap T] = h[t \cap T] + v[y]
                <5> HIDE DEF t
                <5>1. h[(t \cap T) \cup {y}] = h[t \cap T] + v[y]
                    BY <1>a, <4>1 DEF Additive
                <5> QED BY <4>1, <5>1, Zenon
            <4>3. v[y] \in Nat /\ v[y] < w[y]
                BY <3>6
            <4> HIDE DEF t
            <4>4. h[s \cap T] < g[s] /\ h[s \cap T] <= g[s]
                BY <3>2, <3>4, <3>5, <4>2, <4>3
            <4>5. Good(s)
                BY <4>4 DEF Below
            <4> QED BY <2>4, <4>5
        <3>7. CASE y \notin T
            <4>1. s \cap T = t \cap T
                BY <3>1, <3>7
            <4> HIDE DEF t
            <4>2. h[t \cap T] <= g[s] /\ (t \cap T # {} => h[t \cap T] < g[s])
                BY <3>2, <3>4, <3>5
            <4>3. Good(s)
                BY <4>1, <4>2 DEF Below
            <4> QED BY <2>4, <4>3
        <3> QED BY <3>6, <3>7
    <2> QED BY <2>6, <2>7
<1>3. Good(S)
    <2>1. Cardinality(S) \notin bad
        BY <1>2
    <2> QED BY <2>1
<1>4. S \cap T = T
    OBVIOUS
<1>5. h[T] < g[S]
    BY <1>3, <1>4 DEF Below
<1> QED BY <1>1, <1>4, <1>5

-----------------------------------------------------------------------------
(* The greatest and the least of finitely many numbers *)

LEMMA FiniteGreatest ==
    ASSUME NEW X, IsFiniteSet(X), X # {}, NEW R,
           \A x, y \in X : <<x, y>> \in R \/ <<y, x>> \in R,
           \A x, y, z \in X : <<x, y>> \in R /\ <<y, z>> \in R => <<x, z>> \in R
    PROVE  \E x \in X : \A y \in X : <<x, y>> \in R
<1>1. PICK n \in Nat : ExistsSurjection(1..n, X)
    BY FS_NatSurjection
<1>2. PICK f \in [1..n -> X] : \A x \in X : \E i \in 1..n : f[i] = x
    BY <1>1 DEF ExistsSurjection, Surjection
<1>3. n # 0
    BY <1>2
<1> DEFINE Good(k) == \E i \in 1..k : \A j \in 1..k : <<f[i], f[j]>> \in R
           Bad == {k \in 1..n : ~Good(k)}
<1>4. Bad = {}
    <2> SUFFICES ASSUME Bad # {} PROVE FALSE
        OBVIOUS
    <2>1. PICK k \in Bad : \A m \in Bad : k <= m
        <3>1. Bad \in SUBSET Nat
            OBVIOUS
        <3> HIDE DEF Bad
        <3> QED BY <3>1, LeastNumber
    <2>2. k \in 1..n /\ ~Good(k) /\ f[k] \in X
        BY <1>2, <2>1
    <2>3. CASE k = 1
        <3>1. <<f[1], f[1]>> \in R
            BY <2>2, <2>3
        <3> QED BY <2>2, <2>3, <3>1
    <2>4. CASE k # 1
        <3>1. k - 1 \in 1..n /\ ~(k <= k - 1)
            BY <2>2, <2>4
        <3>2. Good(k - 1)
            BY <2>1, <3>1
        <3>3. PICK i \in 1..(k - 1) : \A j \in 1..(k - 1) : <<f[i], f[j]>> \in R
            BY <3>2
        <3>4. i \in 1..k /\ i \in 1..n /\ f[i] \in X
            BY <1>2, <2>2, <3>1
        <3>5. CASE <<f[i], f[k]>> \in R
            <4>1. \A j \in 1..k : j = k \/ j \in 1..(k - 1)
                BY <2>2
            <4>2. \A j \in 1..k : <<f[i], f[j]>> \in R
                BY <3>3, <3>5, <4>1
            <4> QED BY <2>2, <3>4, <4>2
        <3>6. CASE <<f[k], f[i]>> \in R
            <4>1. \A j \in 1..k : j = k \/ j \in 1..(k - 1)
                BY <2>2
            <4>2. \A j \in 1..(k - 1) : f[j] \in X
                BY <1>2, <2>2
            <4>3. \A j \in 1..(k - 1) : <<f[k], f[j]>> \in R
                BY <2>2, <3>3, <3>4, <3>6, <4>2
            <4>4. <<f[k], f[k]>> \in R
                BY <2>2
            <4>5. \A j \in 1..k : <<f[k], f[j]>> \in R
                BY <4>1, <4>3, <4>4
            <4>6. k \in 1..k
                BY <2>2
            <4> QED BY <2>2, <4>5, <4>6
        <3> QED BY <2>2, <3>4, <3>5, <3>6
    <2> QED BY <2>3, <2>4
<1>5. n \in 1..n
    BY <1>1, <1>3
<1>6. Good(n)
    BY <1>4, <1>5
<1>7. PICK i \in 1..n : \A j \in 1..n : <<f[i], f[j]>> \in R
    BY <1>6
<1>8. f[i] \in X
    BY <1>2
<1> QED BY <1>2, <1>7, <1>8

LEMMA FiniteMax ==
    ASSUME NEW S, IsFiniteSet(S), S # {}, S \subseteq Int
    PROVE  Max(S) \in S /\ \A y \in S : y <= Max(S)
<1> DEFINE R == {p \in S \X S : p[2] <= p[1]}
<1>1. \A x, y \in S : <<x, y>> \in R <=> y <= x
    OBVIOUS
<1>2. \E x \in S : \A y \in S : <<x, y>> \in R
    <2> HIDE DEF R
    <2>1. ASSUME NEW x \in S, NEW y \in S PROVE <<x, y>> \in R \/ <<y, x>> \in R
        <3>1. x \in Int /\ y \in Int
            OBVIOUS
        <3>2. x <= y \/ y <= x
            BY <3>1
        <3> QED BY <1>1, <3>2
    <2>2. ASSUME NEW x \in S, NEW y \in S, NEW z \in S, <<x, y>> \in R, <<y, z>> \in R PROVE <<x, z>> \in R
        <3>1. x \in Int /\ y \in Int /\ z \in Int
            OBVIOUS
        <3>2. y <= x /\ z <= y
            BY <1>1, <2>2
        <3> QED BY <1>1, <3>1, <3>2
    <2> QED BY <2>1, <2>2, FiniteGreatest
<1>3. \E x \in S : \A y \in S : y <= x
    BY <1>1, <1>2
<1> QED BY <1>3 DEF Max

LEMMA FiniteMin ==
    ASSUME NEW S, IsFiniteSet(S), S # {}, S \subseteq Int
    PROVE  Min(S) \in S /\ \A y \in S : Min(S) <= y
<1> DEFINE R == {p \in S \X S : p[1] <= p[2]}
<1>1. \A x, y \in S : <<x, y>> \in R <=> x <= y
    OBVIOUS
<1>2. \E x \in S : \A y \in S : <<x, y>> \in R
    <2> HIDE DEF R
    <2>1. ASSUME NEW x \in S, NEW y \in S PROVE <<x, y>> \in R \/ <<y, x>> \in R
        <3>1. x \in Int /\ y \in Int
            OBVIOUS
        <3>2. x <= y \/ y <= x
            BY <3>1
        <3> QED BY <1>1, <3>2
    <2>2. ASSUME NEW x \in S, NEW y \in S, NEW z \in S, <<x, y>> \in R, <<y, z>> \in R PROVE <<x, z>> \in R
        <3>1. x \in Int /\ y \in Int /\ z \in Int
            OBVIOUS
        <3>2. x <= y /\ y <= z
            BY <1>1, <2>2
        <3> QED BY <1>1, <3>1, <3>2
    <2> QED BY <2>1, <2>2, FiniteGreatest
<1>3. \E x \in S : \A y \in S : x <= y
    BY <1>1, <1>2
<1> QED BY <1>3 DEF Min

(* The order of a ranking: each candidate has a place of its own *)

Sooner(score, a, b) == score[a] > score[b] \/ (score[a] = score[b] /\ KeyBefore(a, b))
Scored(S, score) == IsFiniteSet(S) /\ S \subseteq Nat \X Nat /\ \A k \in S : score[k] \in Int
SoonerThan(S, score, k) == {j \in S : Sooner(score, j, k)}

LEMMA RankCounts == \A S, score, k : RankOf(S, score, k) = 1 + Cardinality(SoonerThan(S, score, k))
    BY DEF RankOf, SoonerThan, Sooner

LEMMA SoonerIsOrder ==
    ASSUME NEW S, NEW score, Scored(S, score), NEW a \in S, NEW b \in S, NEW c \in S
    PROVE  /\ ~Sooner(score, a, a)
           /\ a # b => Sooner(score, a, b) \/ Sooner(score, b, a)
           /\ Sooner(score, a, b) /\ Sooner(score, b, c) => Sooner(score, a, c)
           /\ Sooner(score, a, b) => score[a] >= score[b]
           /\ score[a] > score[b] => Sooner(score, a, b)
<1>1. /\ score[a] \in Int /\ score[b] \in Int /\ score[c] \in Int
      /\ a \in Nat \X Nat /\ b \in Nat \X Nat /\ c \in Nat \X Nat
    BY DEF Scored
<1>2. /\ ~KeyBefore(a, a)
      /\ a # b => KeyBefore(a, b) \/ KeyBefore(b, a)
      /\ KeyBefore(a, b) /\ KeyBefore(b, c) => KeyBefore(a, c)
    BY <1>1 DEF KeyBefore
<1> QED BY <1>1, <1>2 DEF Sooner

LEMMA PlacesAreNumbers ==
    ASSUME NEW S, NEW score, Scored(S, score), NEW k \in S
    PROVE  /\ IsFiniteSet(SoonerThan(S, score, k))
           /\ RankOf(S, score, k) \in 1..Cardinality(S)
<1>1. SoonerThan(S, score, k) \in SUBSET S /\ k \notin SoonerThan(S, score, k)
    BY SoonerIsOrder DEF SoonerThan
<1>2. IsFiniteSet(S)
    BY DEF Scored
<1> DEFINE A == SoonerThan(S, score, k)
<1> HIDE DEF A
<1>3. IsFiniteSet(A) /\ Cardinality(A) <= Cardinality(S) /\ (A # S => Cardinality(A) # Cardinality(S))
    BY <1>1, <1>2, FS_Subset DEF A
<1>4. A # S
    BY <1>1 DEF A
<1>5. Cardinality(S) \in Nat /\ Cardinality(A) \in Nat
    BY <1>2, <1>3, FS_CardinalityType
<1>6. RankOf(S, score, k) = 1 + Cardinality(A)
    BY RankCounts DEF A
<1>7. RankOf(S, score, k) \in 1..Cardinality(S)
    BY <1>3, <1>4, <1>5, <1>6
<1> QED BY <1>3, <1>7 DEF A

LEMMA PlacesFollowTheOrder ==
    ASSUME NEW S, NEW score, Scored(S, score), NEW a \in S, NEW b \in S, Sooner(score, a, b)
    PROVE  RankOf(S, score, a) < RankOf(S, score, b)
<1> DEFINE A == SoonerThan(S, score, a)
           B == SoonerThan(S, score, b)
<1>1. a \in B /\ a \notin A
    BY SoonerIsOrder DEF SoonerThan
<1>2. A \in SUBSET B
    <2> SUFFICES ASSUME NEW t \in S, Sooner(score, t, a) PROVE Sooner(score, t, b)
        BY DEF SoonerThan
    <2> QED BY SoonerIsOrder
<1>3. IsFiniteSet(A) /\ IsFiniteSet(B)
    BY PlacesAreNumbers
<1>4. RankOf(S, score, a) = 1 + Cardinality(A) /\ RankOf(S, score, b) = 1 + Cardinality(B)
    BY RankCounts
<1> HIDE DEF A, B
<1>5. Cardinality(A) <= Cardinality(B) /\ Cardinality(A) # Cardinality(B)
    BY <1>1, <1>2, <1>3, FS_Subset
<1>6. Cardinality(A) \in Nat /\ Cardinality(B) \in Nat
    BY <1>3, FS_CardinalityType
<1> QED BY <1>4, <1>5, <1>6

LEMMA EveryPlaceIsTaken ==
    ASSUME NEW S, NEW score, Scored(S, score), NEW i \in 1..Cardinality(S)
    PROVE  \E k \in S : RankOf(S, score, k) = i
<1> DEFINE N == Cardinality(S)
           rank == [k \in S |-> RankOf(S, score, k)]
           T == {rank[k] : k \in S}
<1>1. IsFiniteSet(S) /\ N \in Nat
    BY FS_CardinalityType DEF Scored
<1>2. T \in SUBSET (1..N)
    BY PlacesAreNumbers
<1>3. rank \in [S -> T] /\ \A t \in T : \E k \in S : rank[k] = t
    OBVIOUS
<1>4. \A a, b \in S : rank[a] = rank[b] => a = b
    <2> SUFFICES ASSUME NEW a \in S, NEW b \in S, a # b PROVE RankOf(S, score, a) # RankOf(S, score, b)
        OBVIOUS
    <2>1. RankOf(S, score, a) \in Nat /\ RankOf(S, score, b) \in Nat
        BY <1>1, PlacesAreNumbers
    <2>2. CASE Sooner(score, a, b)
        BY <2>1, <2>2, PlacesFollowTheOrder
    <2>3. CASE Sooner(score, b, a)
        BY <2>1, <2>3, PlacesFollowTheOrder
    <2> QED BY <2>2, <2>3, SoonerIsOrder
<1>5. \A k \in S : rank[k] = RankOf(S, score, k)
    OBVIOUS
<1> HIDE DEF rank, T
<1>6. rank \in Surjection(S, T) /\ rank \in Injection(S, T)
    BY <1>3, <1>4 DEF Surjection, Injection, IsInjective
<1>7. IsFiniteSet(T) /\ Cardinality(T) = N
    BY <1>1, <1>6, FS_Surjection
<1>8. IsFiniteSet(1..N) /\ Cardinality(1..N) = N
    <2>1. IsFiniteSet(1..N) /\ Cardinality(1..N) = IF 1 > N THEN 0 ELSE N - 1 + 1
        BY <1>1, FS_Interval
    <2> QED BY <1>1, <2>1
<1>9. T = 1..N
    BY <1>2, <1>7, <1>8, FS_Subset
<1> QED BY <1>3, <1>5, <1>9

\* The rows of a list fall in score, and all are candidates.
Sorted(list, S, score) ==
    /\ \A i \in DOMAIN list : list[i] \in S
    /\ \A i, j \in DOMAIN list : i < j => score[list[i]] >= score[list[j]]

LEMMA RankingIsSorted ==
    ASSUME NEW S, NEW score, Scored(S, score)
    PROVE  Sorted(Ranking(S, score), S, score)
<1> DEFINE n == Cardinality(S)
           list == [i \in 1..n |-> CHOOSE k \in S : RankOf(S, score, k) = i]
<1>1. n \in Nat
    BY FS_CardinalityType DEF Scored
<1>2. \A i \in 1..n : list[i] \in S /\ RankOf(S, score, list[i]) = i
    <2> SUFFICES ASSUME NEW i \in 1..n PROVE list[i] \in S /\ RankOf(S, score, list[i]) = i
        OBVIOUS
    <2>1. \E k \in S : RankOf(S, score, k) = i
        BY EveryPlaceIsTaken
    <2> QED BY <2>1
<1>3. DOMAIN list = 1..n /\ Ranking(S, score) = list
    BY DEF Ranking
<1> HIDE DEF list
<1>4. ASSUME NEW i \in 1..n, NEW j \in 1..n, i < j PROVE score[list[i]] >= score[list[j]]
    <2> DEFINE a == list[i]
               b == list[j]
    <2>1. a \in S /\ b \in S /\ RankOf(S, score, a) = i /\ RankOf(S, score, b) = j
        BY <1>2
    <2> HIDE DEF a, b
    <2>2. a # b
        BY <1>4, <2>1
    <2>3. ~Sooner(score, b, a)
        <3>1. SUFFICES ASSUME Sooner(score, b, a) PROVE FALSE
            OBVIOUS
        <3>2. RankOf(S, score, b) < RankOf(S, score, a)
            BY <2>1, <3>1, PlacesFollowTheOrder
        <3> QED BY <1>4, <2>1, <3>2
    <2>4. score[a] >= score[b]
        BY <2>1, <2>2, <2>3, SoonerIsOrder
    <2> QED BY <2>4 DEF a, b
<1>5. (\A i \in DOMAIN list : list[i] \in S) /\ \A i, j \in DOMAIN list : i < j => score[list[i]] >= score[list[j]]
    BY <1>2, <1>3, <1>4
<1> QED BY <1>3, <1>5 DEF Sorted

-----------------------------------------------------------------------------
(* The channels *)

LEMMA MaxOfNumbers ==
    ASSUME NEW S, IsFiniteSet(S), S \subseteq Nat
    PROVE  MaxOf(S) \in Nat /\ \A x \in S : x <= MaxOf(S)
<1>1. CASE S = {}
    BY <1>1 DEF MaxOf
<1>2. CASE S # {}
    <2>1. S \subseteq Int
        OBVIOUS
    <2>2. Max(S) \in S /\ \A x \in S : x <= Max(S)
        BY <1>2, <2>1, FiniteMax
    <2> QED BY <1>2, <2>2 DEF MaxOf
<1> QED BY <1>1, <1>2

\* What a function makes of a finite set is no more than the set.
LEMMA ImageCount ==
    ASSUME NEW S, IsFiniteSet(S), NEW T, NEW f \in [S -> T], \A t \in T : \E s \in S : f[s] = t
    PROVE  IsFiniteSet(T) /\ Cardinality(T) <= Cardinality(S)
<1>1. f \in Surjection(S, T)
    BY DEF Surjection
<1> QED BY <1>1, FS_Surjection

LEMMA KeysAreNumbers == Keys \subseteq Nat \X Nat
    BY TextSearchAssumption DEF Keys

LEMMA TermScoreType ==
    ASSUME corpus \in Corpora, NEW r \in corpus.records
    PROVE  TermScore(r) \in Nat
<1>1. r.text.lexical \in Nat
    BY CorpusAssumption
<1> QED BY <1>1 DEF TermScore

LEMMA TextChannelIsScored ==
    ASSUME corpus \in Corpora, NEW R \in SUBSET corpus.records
    PROVE  /\ Scored(DOMAIN TextChannel(R), TextChannel(R))
           /\ Cardinality(DOMAIN TextChannel(R)) <= Cardinality(corpus.records)
<1> DEFINE hit == {r \in R : TermScore(r) > 0}
           D == {StartOf(r) : r \in hit}
           at(k) == {TermScore(r) : r \in {r \in R : StartOf(r) = k}}
           start == [r \in hit |-> StartOf(r)]
<1>1. IsFiniteSet(corpus.records) /\ \A r \in corpus.records : r.video \in Videos /\ r.first \in Nat
    BY CorpusAssumption
<1>2. TextChannel(R) = [k \in D |-> MaxOf(at(k))]
    BY DEF TextChannel
<1>3. DOMAIN TextChannel(R) = D /\ \A k \in D : TextChannel(R)[k] = MaxOf(at(k))
    <2> HIDE DEF D, at
    <2> QED BY <1>2
<1>4. IsFiniteSet(hit) /\ Cardinality(hit) <= Cardinality(corpus.records) /\ IsFiniteSet(R)
    <2>1. hit \in SUBSET corpus.records
        OBVIOUS
    <2> HIDE DEF hit
    <2> QED BY <1>1, <2>1, FS_Subset
<1>5. start \in [hit -> D] /\ \A t \in D : \E r \in hit : start[r] = t
    OBVIOUS
<1>6. IsFiniteSet(D) /\ Cardinality(D) <= Cardinality(hit)
    <2> HIDE DEF hit, D, start
    <2> QED BY <1>4, <1>5, ImageCount
<1>7. Cardinality(D) <= Cardinality(corpus.records)
    <2> HIDE DEF hit, D
    <2>1. Cardinality(D) \in Nat /\ Cardinality(hit) \in Nat /\ Cardinality(corpus.records) \in Nat
        BY <1>1, <1>4, <1>6, FS_CardinalityType
    <2> QED BY <1>4, <1>6, <2>1
<1>8. D \subseteq Nat \X Nat
    <2> SUFFICES ASSUME NEW r \in hit PROVE StartOf(r) \in Nat \X Nat
        OBVIOUS
    <2>1. r.video \in Nat /\ r.first \in Nat
        BY <1>1, TextSearchAssumption
    <2> QED BY <2>1 DEF StartOf
<1>9. ASSUME NEW k \in D PROVE MaxOf(at(k)) \in Nat
    <2> DEFINE near == {r \in R : StartOf(r) = k}
               V == {TermScore(r) : r \in near}
               value == [r \in near |-> TermScore(r)]
    <2>1. near \in SUBSET R
        OBVIOUS
    <2>2. value \in [near -> V] /\ \A t \in V : \E r \in near : value[r] = t
        OBVIOUS
    <2>3. V \subseteq Nat
        BY TermScoreType
    <2> HIDE DEF near, V, value
    <2>4. IsFiniteSet(near)
        BY <1>4, <2>1, FS_Subset
    <2>5. IsFiniteSet(V)
        BY <2>2, <2>4, ImageCount
    <2>6. MaxOf(V) \in Nat
        BY <2>3, <2>5, MaxOfNumbers
    <2> QED BY <2>6 DEF V, near
<1> HIDE DEF D, at
<1>a. \A k \in D : TextChannel(R)[k] \in Int
    BY <1>3, <1>9
<1>b. Scored(D, TextChannel(R))
    BY <1>6, <1>8, <1>a DEF Scored
<1> QED BY <1>3, <1>7, <1>b

LEMMA VisualHitsAreScored ==
    ASSUME corpus \in Corpora, NEW i \in DOMAIN corpus.visual
    PROVE  /\ Scored(VisualHits(i), [k \in VisualHits(i) |-> corpus.visual[i][k]])
           /\ Cardinality(VisualHits(i)) <= Cardinality(Keys)
<1>1. VisualHits(i) \in SUBSET Keys
    BY DEF VisualHits
<1>2. IsFiniteSet(VisualHits(i)) /\ Cardinality(VisualHits(i)) <= Cardinality(Keys)
    BY <1>1, KeysAreFinite, FS_Subset
<1>3. \A k \in VisualHits(i) : corpus.visual[i][k] \in Int
    BY VisualAssumption DEF VisualHits
<1>4. VisualHits(i) \subseteq Nat \X Nat
    BY <1>1, KeysAreNumbers
<1>5. Scored(VisualHits(i), [k \in VisualHits(i) |-> corpus.visual[i][k]])
    BY <1>2, <1>3, <1>4 DEF Scored
<1> QED BY <1>2, <1>5

\* A channel puts its hits in an order, and Unit shares out over its places.
ChannelOK(c) ==
    /\ Scored(DOMAIN c.hits, c.hits) /\ c.weight \in Nat \ {0}
    /\ \A n \in 1..Cardinality(DOMAIN c.hits) : Unit % (RrfK + n) = 0

LEMMA Shorter ==
    ASSUME NEW S, NEW T, IsFiniteSet(S), IsFiniteSet(T), Cardinality(S) <= Cardinality(T),
           \A n \in 1..Cardinality(T) : Unit % (RrfK + n) = 0
    PROVE  \A n \in 1..Cardinality(S) : Unit % (RrfK + n) = 0
<1>1. Cardinality(S) \in Nat /\ Cardinality(T) \in Nat
    BY FS_CardinalityType
<1>2. \A n \in 1..Cardinality(S) : n \in 1..Cardinality(T)
    BY <1>1
<1> QED BY <1>2

LEMMA ChannelsAreOK ==
    ASSUME corpus \in Corpora
    PROVE  IsFiniteSet(Channels) /\ \A c \in Channels : ChannelOK(c)
<1> DEFINE visual(i) == [name |-> <<"visual", i>>, weight |-> 10, hits |-> [k \in VisualHits(i) |-> corpus.visual[i][k]]]
           I == DOMAIN corpus.visual
           V == {visual(i) : i \in I}
           ocr == [name |-> <<"ocr", 0>>, weight |-> 10, hits |-> TextChannel(Ocr)]
           asr == [name |-> <<"asr", 0>>, weight |-> 8,  hits |-> TextChannel(Asr)]
           each == [i \in I |-> visual(i)]
<1>1. Channels = V \cup {ocr, asr}
    BY DEF Channels
<1>2. IsFiniteSet(Channels)
    <2>1. each \in [I -> V] /\ \A t \in V : \E i \in I : each[i] = t
        OBVIOUS
    <2>2. IsFiniteSet(I)
        BY VisualAssumption
    <2> HIDE DEF I, V, each, ocr, asr
    <2>3. IsFiniteSet(V)
        BY <2>1, <2>2, ImageCount
    <2>4. IsFiniteSet({ocr} \cup {asr})
        <3>1. IsFiniteSet({ocr}) /\ IsFiniteSet({asr})
            BY FS_Singleton
        <3> QED BY <3>1, FS_Union
    <2>5. IsFiniteSet(V \cup ({ocr} \cup {asr}))
        BY <2>3, <2>4, FS_Union
    <2>6. V \cup ({ocr} \cup {asr}) = V \cup {ocr, asr}
        OBVIOUS
    <2> QED BY <1>1, <2>5, <2>6
<1>3. /\ \A n \in 1..Cardinality(Keys) : Unit % (RrfK + n) = 0
      /\ \A n \in 1..Cardinality(corpus.records) : Unit % (RrfK + n) = 0
    BY FusionAssumption
<1>4. IsFiniteSet(Keys) /\ IsFiniteSet(corpus.records)
    BY KeysAreFinite, CorpusAssumption
<1>5. ASSUME NEW i \in I PROVE ChannelOK(visual(i))
    <2> DEFINE hits == [k \in VisualHits(i) |-> corpus.visual[i][k]]
               D == VisualHits(i)
    <2>1. visual(i).hits = hits /\ visual(i).weight = 10 /\ DOMAIN hits = D
        OBVIOUS
    <2>2. Scored(D, hits) /\ Cardinality(D) <= Cardinality(Keys)
        BY VisualHitsAreScored
    <2> HIDE DEF hits, D, visual
    <2>3. IsFiniteSet(D)
        BY <2>2 DEF Scored
    <2>4. \A n \in 1..Cardinality(D) : Unit % (RrfK + n) = 0
        BY <1>3, <1>4, <2>2, <2>3, Shorter
    <2> QED BY <2>1, <2>2, <2>4 DEF ChannelOK
<1>6. ASSUME NEW R \in SUBSET corpus.records, NEW c, c.hits = TextChannel(R), c.weight \in Nat \ {0}
      PROVE  ChannelOK(c)
    <2> DEFINE hits == TextChannel(R)
               D == DOMAIN TextChannel(R)
    <2>1. Scored(D, hits) /\ Cardinality(D) <= Cardinality(corpus.records)
        BY TextChannelIsScored
    <2> HIDE DEF hits, D
    <2>2. IsFiniteSet(D)
        BY <2>1 DEF Scored
    <2>3. \A n \in 1..Cardinality(D) : Unit % (RrfK + n) = 0
        BY <1>3, <1>4, <2>1, <2>2, Shorter
    <2>4. c.hits = hits /\ DOMAIN c.hits = D
        BY <1>6 DEF hits, D
    <2> QED BY <1>6, <2>1, <2>3, <2>4 DEF ChannelOK
<1>7. ocr.hits = TextChannel(Ocr) /\ ocr.weight = 10 /\ asr.hits = TextChannel(Asr) /\ asr.weight = 8
    OBVIOUS
<1>8. Ocr \in SUBSET corpus.records /\ Asr \in SUBSET corpus.records
    BY DEF Ocr, Asr
<1> HIDE DEF ocr, asr, visual, I
<1>9. ChannelOK(ocr) /\ ChannelOK(asr)
    BY <1>6, <1>7, <1>8
<1>a. \A c \in V : ChannelOK(c)
    BY <1>5
<1>b. \A c \in Channels : ChannelOK(c)
    BY <1>1, <1>9, <1>a
<1> QED BY <1>2, <1>b

-----------------------------------------------------------------------------
(* The fusion of channels *)

\* What is shared out is shared unequally.
LEMMA FewerGetMore ==
    ASSUME NEW u \in Nat \ {0}, NEW a \in Nat \ {0}, NEW b \in Nat \ {0}, a < b, u % a = 0, u % b = 0
    PROVE  u \div a \in Nat /\ u \div b \in Nat /\ (u \div b) < (u \div a)
<1> DEFINE p == u \div a
           q == u \div b
<1>1. p \in Nat /\ q \in Nat
    OBVIOUS
<1>2. u = a * p /\ u = b * q
    OBVIOUS
<1> HIDE DEF p, q
<1>3. q # 0
    BY <1>2
<1>4. SUFFICES ASSUME p <= q PROVE FALSE
    BY <1>1 DEF p, q
<1>5. a * p <= a * q
    BY <1>1, <1>4
<1>6. a * q < b * q
    BY <1>1, <1>3
<1>7. a * p \in Nat /\ a * q \in Nat /\ b * q \in Nat
    BY <1>1
<1> QED BY <1>2, <1>5, <1>6, <1>7

Share(c, k) == c.weight * (Unit \div (RrfK + RankIn(c, k)))
Shares(C, k) == [c \in C |-> Share(c, k)]

\* A better place in a channel counts for more.
LEMMA BetterPlaceCounts ==
    ASSUME NEW c, ChannelOK(c), NEW a \in DOMAIN c.hits, NEW b \in DOMAIN c.hits, RankIn(c, a) < RankIn(c, b)
    PROVE  Share(c, a) \in Nat /\ Share(c, b) \in Nat /\ Share(c, b) < Share(c, a)
<1> DEFINE i == RankIn(c, a)
           j == RankIn(c, b)
           n == Cardinality(DOMAIN c.hits)
<1>1. i \in 1..n /\ j \in 1..n
    BY PlacesAreNumbers DEF ChannelOK, RankIn
<1>2. Unit \in Nat \ {0} /\ RrfK \in Nat
    BY FusionAssumption
<1>3. Unit % (RrfK + i) = 0 /\ Unit % (RrfK + j) = 0 /\ c.weight \in Nat \ {0}
    BY <1>1 DEF ChannelOK
<1>4. n \in Nat
    BY FS_CardinalityType DEF ChannelOK, Scored
<1>5. i < j
    OBVIOUS
<1> HIDE DEF i, j, n
<1>6. RrfK + i \in Nat \ {0} /\ RrfK + j \in Nat \ {0} /\ RrfK + i < RrfK + j
    BY <1>1, <1>2, <1>4, <1>5
<1> DEFINE p == Unit \div (RrfK + i)
           q == Unit \div (RrfK + j)
<1>7. p \in Nat /\ q \in Nat /\ q < p
    BY <1>2, <1>3, <1>6, FewerGetMore
<1>8. Share(c, a) = c.weight * p /\ Share(c, b) = c.weight * q
    BY DEF Share, i, j
<1> HIDE DEF p, q
<1>9. \A w \in Nat \ {0} : w * p \in Nat /\ w * q \in Nat /\ w * q < w * p
    BY <1>7
<1> QED BY <1>3, <1>8, <1>9

LEMMA ShareType ==
    ASSUME NEW c, ChannelOK(c), NEW k \in DOMAIN c.hits
    PROVE  Share(c, k) \in Nat
<1> DEFINE i == RankIn(c, k)
           n == Cardinality(DOMAIN c.hits)
<1>1. i \in 1..n
    BY PlacesAreNumbers DEF ChannelOK, RankIn
<1>2. Unit \in Nat \ {0} /\ RrfK \in Nat /\ c.weight \in Nat
    BY FusionAssumption DEF ChannelOK
<1>3. Share(c, k) = c.weight * (Unit \div (RrfK + i))
    BY DEF Share
<1>4. i \in Nat \ {0}
    BY <1>1, FS_CardinalityType DEF ChannelOK, Scored
<1> HIDE DEF i
<1>5. RrfK + i \in Nat \ {0}
    BY <1>2, <1>4
<1>6. Unit \div (RrfK + i) \in Nat
    BY <1>2, <1>5
<1> QED BY <1>2, <1>3, <1>6

\* The score of the fusion is the sum of the shares, in any order.
SharesBody(S, k, g) == [s \in SUBSET S |-> IF s = {} THEN 0 ELSE g[s \ {Pick(s)}] + Share(Pick(s), k)]
SumOfShares(S, k) == CHOOSE g : g = SharesBody(S, k, g)

LEMMA FusedScore == \A k \in FusedCandidates : RrfScores[k] = SumOfShares(MatchedBy(k), k)[MatchedBy(k)]
    BY DEF RrfScores, FoldSet, MapThenFoldSet, SumOfShares, SharesBody, Share, Pick

LEMMA SharesAreSummed ==
    ASSUME NEW S, IsFiniteSet(S), NEW k
    PROVE  IsSum(SumOfShares(S, k), S, Shares(S, k))
<1> DEFINE w == Shares(S, k)
<1>1. ASSUME NEW g PROVE SharesBody(S, k, g) = SumBody(S, w, g)
    <2>1. ASSUME NEW s \in SUBSET S, s # {} PROVE w[Pick(s)] = Share(Pick(s), k)
        <3>1. Pick(s) \in S
            BY <2>1 DEF Pick
        <3> QED BY <3>1 DEF Shares
    <2> HIDE DEF w
    <2> QED BY <2>1 DEF SharesBody, SumBody
<1> HIDE DEF w
<1>2. \E g : g = SumBody(S, w, g)
    BY SumExists
<1>3. \E g : g = SharesBody(S, k, g)
    BY <1>1, <1>2
<1> DEFINE g == SumOfShares(S, k)
<1>4. g = SharesBody(S, k, g)
    BY <1>3 DEF SumOfShares
<1>5. g = SumBody(S, w, g)
    BY <1>1, <1>4
<1> HIDE DEF g
<1>6. g[{}] = 0
    <2>1. {} \in SUBSET S
        OBVIOUS
    <2> QED BY <1>5, <2>1 DEF SumBody
<1>7. \A s \in SUBSET S : s # {} => g[s] = g[s \ {Pick(s)}] + w[Pick(s)]
    BY <1>5 DEF SumBody
<1>8. IsSum(g, S, w)
    BY <1>6, <1>7 DEF IsSum
<1> QED BY <1>8 DEF g, w

LEMMA MatchedChannels ==
    ASSUME corpus \in Corpora, NEW k
    PROVE  /\ IsFiniteSet(MatchedBy(k))
           /\ \A c \in MatchedBy(k) : ChannelOK(c) /\ k \in DOMAIN c.hits
           /\ k \in FusedCandidates <=> MatchedBy(k) # {}
<1>1. MatchedBy(k) \in SUBSET Channels
    BY DEF MatchedBy
<1>2. IsFiniteSet(MatchedBy(k))
    BY <1>1, ChannelsAreOK, FS_Subset
<1>3. \A c \in MatchedBy(k) : ChannelOK(c) /\ k \in DOMAIN c.hits
    BY ChannelsAreOK DEF MatchedBy
<1>4. k \in FusedCandidates <=> MatchedBy(k) # {}
    BY DEF FusedCandidates, MatchedBy
<1> QED BY <1>2, <1>3, <1>4

LEMMA FusedScoreType ==
    ASSUME corpus \in Corpora, NEW k \in FusedCandidates
    PROVE  RrfScores[k] \in Nat
<1> DEFINE S == MatchedBy(k)
           w == Shares(S, k)
           g == SumOfShares(S, k)
<1>1. RrfScores[k] = g[S]
    BY FusedScore
<1>2. IsFiniteSet(S) /\ \A c \in S : ChannelOK(c) /\ k \in DOMAIN c.hits
    BY MatchedChannels
<1> HIDE DEF S
<1>3. \A c \in S : w[c] \in Nat
    BY <1>2, ShareType DEF Shares
<1>4. IsSum(g, S, w)
    BY <1>2, SharesAreSummed
<1> HIDE DEF w, g
<1>5. Additive(g, S, w)
    BY <1>2, <1>3, <1>4, SumAddsOne
<1>6. g[S] \in Nat
    BY <1>5 DEF Additive
<1> QED BY <1>1, <1>6

\* A frame that comes before another in each of its channels has a higher score.
LEMMA DominanceOfScores ==
    ASSUME corpus \in Corpora, NEW a \in FusedCandidates, NEW b \in FusedCandidates,
           \A c \in MatchedBy(b) : a \in DOMAIN c.hits /\ RankIn(c, a) < RankIn(c, b)
    PROVE  RrfScores[b] < RrfScores[a] /\ MatchedBy(b) \in SUBSET MatchedBy(a)
<1> DEFINE S == MatchedBy(a)
           T == MatchedBy(b)
           w == Shares(S, a)
           v == Shares(T, b)
           g == SumOfShares(S, a)
           h == SumOfShares(T, b)
<1>1. RrfScores[a] = g[S] /\ RrfScores[b] = h[T]
    BY FusedScore
<1>2. /\ IsFiniteSet(S) /\ \A c \in S : ChannelOK(c) /\ a \in DOMAIN c.hits
      /\ IsFiniteSet(T) /\ \A c \in T : ChannelOK(c) /\ b \in DOMAIN c.hits
      /\ T # {}
    BY MatchedChannels
<1>3. T \in SUBSET S
    BY DEF MatchedBy
<1>4. \A c \in T : a \in DOMAIN c.hits /\ RankIn(c, a) < RankIn(c, b)
    OBVIOUS
<1> HIDE DEF S, T
<1>5. IsSum(g, S, w) /\ IsSum(h, T, v)
    BY <1>2, SharesAreSummed
<1>6. \A c \in S : w[c] \in Nat
    BY <1>2, ShareType DEF Shares
<1>7. ASSUME NEW c \in T PROVE v[c] \in Nat /\ v[c] < w[c]
    <2>1. Share(c, b) \in Nat /\ Share(c, b) < Share(c, a)
        BY <1>2, <1>4, BetterPlaceCounts
    <2>2. v[c] = Share(c, b) /\ w[c] = Share(c, a)
        BY <1>3 DEF Shares
    <2> QED BY <2>1, <2>2
<1> HIDE DEF w, v, g, h
<1>8. h[T] < g[S]
    BY <1>2, <1>3, <1>5, <1>6, <1>7, SumGrows
<1> QED BY <1>1, <1>3, <1>8 DEF S, T

-----------------------------------------------------------------------------
(* Dominance, in terms of the channels, the request and the corpus *)

TierIn(req, held, k) ==
    IF req.exact THEN MaxOf({Tier(r.text.match) : r \in {r \in held.records : Covers(r, k, 0)}}) ELSE 0
DominatesBy(C, req, held, a, b) ==
    /\ TierIn(req, held, a) >= TierIn(req, held, b)
    /\ \A c \in {c \in C : b \in DOMAIN c.hits} : a \in DOMAIN c.hits /\ RankIn(c, a) < RankIn(c, b)
DominanceBy(C, req, held, list) ==
    \A i, j \in DOMAIN list : i < j => ~DominatesBy(C, req, held, list[j], list[i])

LEMMA SameDominance == \A a, b : Dominates(a, b) <=> DominatesBy(Channels, request, corpus, a, b)
    BY DEF Dominates, DominatesBy, TierIn, ExactTier, MatchedBy

LEMMA ChannelsStay == ASSUME UNCHANGED <<request, corpus>> PROVE Channels' = Channels
    BY DEF Channels, VisualHits, TextChannel, TermScore, Ocr, Asr

LEMMA FusedIsScored ==
    ASSUME corpus \in Corpora
    PROVE  /\ IsFiniteSet(FusedCandidates) /\ FusedCandidates \subseteq Nat \X Nat
           /\ Scored(FusedCandidates, RrfScores)
<1>1. IsFiniteSet(FusedCandidates)
    BY CandidatesAreFinite
<1>2. \A c \in Channels : DOMAIN c.hits \subseteq Nat \X Nat
    BY ChannelsAreOK DEF ChannelOK, Scored
<1>3. FusedCandidates \subseteq Nat \X Nat
    BY <1>2 DEF FusedCandidates
<1>4. \A k \in FusedCandidates : RrfScores[k] \in Int
    BY FusedScoreType
<1> QED BY <1>1, <1>3, <1>4 DEF Scored

\* An order by a score that dominance increases.
LEMMA SafeOrder ==
    ASSUME NEW S, NEW score, Scored(S, score), \A a, b \in S : Dominates(a, b) => score[b] < score[a]
    PROVE  DominanceBy(Channels, request, corpus, Ranking(S, score))
<1> DEFINE list == Ranking(S, score)
<1>1. Sorted(list, S, score)
    BY RankingIsSorted
<1> HIDE DEF list
<1>2. SUFFICES ASSUME NEW i \in DOMAIN list, NEW j \in DOMAIN list, i < j,
                      DominatesBy(Channels, request, corpus, list[j], list[i])
               PROVE  FALSE
    BY DEF DominanceBy, list
<1>3. list[i] \in S /\ list[j] \in S /\ score[list[i]] >= score[list[j]]
    BY <1>1, <1>2 DEF Sorted
<1>4. Dominates(list[j], list[i])
    BY <1>2, SameDominance
<1>5. score[list[i]] < score[list[j]]
    BY <1>3, <1>4
<1>6. score[list[i]] \in Int /\ score[list[j]] \in Int
    BY <1>3 DEF Scored
<1> QED BY <1>3, <1>5, <1>6

LEMMA FusionIsSafe ==
    ASSUME corpus \in Corpora
    PROVE  DominanceBy(Channels, request, corpus, Ranking(FusedCandidates, RrfScores))
<1>1. ASSUME NEW a \in FusedCandidates, NEW b \in FusedCandidates, Dominates(a, b) PROVE RrfScores[b] < RrfScores[a]
    BY <1>1, DominanceOfScores DEF Dominates
<1>2. Scored(FusedCandidates, RrfScores)
    BY FusedIsScored
<1> QED BY <1>1, <1>2, SafeOrder

(* The reranker *)

LEMMA TierType ==
    ASSUME corpus \in Corpora, NEW k
    PROVE  ExactTier(k) \in Nat
<1> DEFINE here == {r \in corpus.records : Covers(r, k, 0)}
           V == {Tier(r.text.match) : r \in here}
           value == [r \in here |-> Tier(r.text.match)]
<1>1. ExactTier(k) = IF request.exact THEN MaxOf(V) ELSE 0
    BY DEF ExactTier
<1>2. IsFiniteSet(here)
    <2>1. here \in SUBSET corpus.records /\ IsFiniteSet(corpus.records)
        BY CorpusAssumption
    <2> HIDE DEF here
    <2> QED BY <2>1, FS_Subset
<1>3. value \in [here -> V] /\ \A t \in V : \E r \in here : value[r] = t
    OBVIOUS
<1>4. V \subseteq Nat
    BY DEF Tier
<1> HIDE DEF here, V, value
<1>5. IsFiniteSet(V)
    BY <1>2, <1>3, ImageCount
<1>6. MaxOf(V) \in Nat
    BY <1>4, <1>5, MaxOfNumbers
<1> QED BY <1>1, <1>6

LEMMA ChannelsAreCounted ==
    ASSUME corpus \in Corpora, NEW a, NEW b, MatchedBy(b) \in SUBSET MatchedBy(a)
    PROVE  /\ IndependentChannels(a) \in Nat /\ IndependentChannels(b) \in Nat
           /\ IndependentChannels(b) <= IndependentChannels(a)
<1> DEFINE S == MatchedBy(a)
           A == {c.name[1] : c \in S}
           B == {c.name[1] : c \in MatchedBy(b)}
           name == [c \in S |-> c.name[1]]
<1>1. B \in SUBSET A
    OBVIOUS
<1>2. name \in [S -> A] /\ \A t \in A : \E c \in S : name[c] = t
    OBVIOUS
<1>3. IsFiniteSet(S)
    BY MatchedChannels
<1>4. IndependentChannels(a) = Cardinality(A) /\ IndependentChannels(b) = Cardinality(B)
    BY DEF IndependentChannels
<1> HIDE DEF S, A, B, name
<1>5. IsFiniteSet(A)
    BY <1>2, <1>3, ImageCount
<1>6. IsFiniteSet(B) /\ Cardinality(B) <= Cardinality(A)
    BY <1>1, <1>5, FS_Subset
<1>7. Cardinality(A) \in Nat /\ Cardinality(B) \in Nat
    BY <1>5, <1>6, FS_CardinalityType
<1> QED BY <1>4, <1>6, <1>7

RerankTop == Max({RrfScores[k] : k \in FusedCandidates}) + 1

LEMMA RerankScore ==
    /\ DOMAIN RerankScores = FusedCandidates
    /\ \A k \in FusedCandidates :
           RerankScores[k] = (4 * ExactTier(k) + IndependentChannels(k)) * RerankTop + RrfScores[k]
<1>1. DOMAIN RrfScores = FusedCandidates
    BY DEF RrfScores
<1> QED BY <1>1 DEF RerankScores, RerankTop

LEMMA RerankTopType ==
    ASSUME corpus \in Corpora, NEW k \in FusedCandidates
    PROVE  RerankTop \in Nat
<1> DEFINE V == {RrfScores[c] : c \in FusedCandidates}
           value == [c \in FusedCandidates |-> RrfScores[c]]
<1>1. value \in [FusedCandidates -> V] /\ \A t \in V : \E c \in FusedCandidates : value[c] = t
    OBVIOUS
<1>2. \A x \in V : x \in Nat /\ x + 1 \in Nat
    BY FusedScoreType
<1>3. V # {} /\ V \subseteq Int
    BY <1>2
<1>4. IsFiniteSet(FusedCandidates)
    BY CandidatesAreFinite
<1> HIDE DEF V, value
<1>5. IsFiniteSet(V)
    BY <1>1, <1>4, ImageCount
<1>6. Max(V) \in V
    BY <1>3, <1>5, FiniteMax
<1>7. Max(V) + 1 \in Nat
    BY <1>2, <1>6, Zenon
<1> QED BY <1>7 DEF RerankTop, V

LEMMA RerankScoreType ==
    ASSUME corpus \in Corpora
    PROVE  Scored(FusedCandidates, RerankScores)
<1>1. ASSUME NEW k \in FusedCandidates PROVE RerankScores[k] \in Int
    <2>1. ExactTier(k) \in Nat /\ RrfScores[k] \in Nat /\ RerankTop \in Nat
        BY TierType, FusedScoreType, RerankTopType
    <2>2. IndependentChannels(k) \in Nat
        BY ChannelsAreCounted
    <2>3. \A x, y, z, t \in Nat : (4 * x + y) * z + t \in Int
        OBVIOUS
    <2> QED BY <2>1, <2>2, <2>3, RerankScore
<1> QED BY <1>1, FusedIsScored DEF Scored

LEMMA Multiplied ==
    ASSUME NEW a \in Nat, NEW b \in Nat, NEW t \in Nat, a <= b
    PROVE  a * t \in Nat /\ b * t \in Nat /\ a * t <= b * t
<1>1. PICK d \in Nat : b = a + d
    <2>1. b - a \in Nat /\ b = a + (b - a)
        OBVIOUS
    <2> QED BY <2>1
<1>2. b * t = a * t + d * t
    BY <1>1
<1>3. a * t \in Nat /\ d * t \in Nat
    OBVIOUS
<1> QED BY <1>2, <1>3

LEMMA MoreOfEach ==
    ASSUME NEW x \in Nat, NEW y \in Nat, NEW s \in Nat, NEW x1 \in Nat, NEW y1 \in Nat, NEW s1 \in Nat,
           NEW top \in Nat, x1 <= x, y1 <= y, s1 < s
    PROVE  (4 * x1 + y1) * top + s1 < (4 * x + y) * top + s
<1> DEFINE m == 4 * x + y
           m1 == 4 * x1 + y1
<1>1. m \in Nat /\ m1 \in Nat /\ m1 <= m
    <2>1. x1 * 4 \in Nat /\ x * 4 \in Nat /\ x1 * 4 <= x * 4
        BY Multiplied
    <2>2. 4 * x1 = x1 * 4 /\ 4 * x = x * 4
        OBVIOUS
    <2> QED BY <2>1, <2>2
<1> HIDE DEF m, m1
<1>2. m1 * top <= m * top /\ m1 * top \in Nat /\ m * top \in Nat
    BY <1>1, Multiplied
<1>3. m1 * top + s1 < m * top + s
    BY <1>2
<1> QED BY <1>3 DEF m, m1

LEMMA RerankIsSafe ==
    ASSUME corpus \in Corpora
    PROVE  DominanceBy(Channels, request, corpus, Ranking(FusedCandidates, RerankScores))
<1>1. ASSUME NEW a \in FusedCandidates, NEW b \in FusedCandidates, Dominates(a, b)
      PROVE  RerankScores[b] < RerankScores[a]
    <2>1. RrfScores[b] < RrfScores[a] /\ MatchedBy(b) \in SUBSET MatchedBy(a)
        BY <1>1, DominanceOfScores DEF Dominates
    <2>2. IndependentChannels(a) \in Nat /\ IndependentChannels(b) \in Nat
          /\ IndependentChannels(b) <= IndependentChannels(a)
        BY <2>1, ChannelsAreCounted
    <2>3. ExactTier(a) \in Nat /\ ExactTier(b) \in Nat
        BY TierType
    <2>4. ExactTier(b) <= ExactTier(a)
        BY <1>1, <2>3 DEF Dominates
    <2>5. RrfScores[a] \in Nat /\ RrfScores[b] \in Nat /\ RerankTop \in Nat
        BY FusedScoreType, RerankTopType
    <2>6. (4 * ExactTier(b) + IndependentChannels(b)) * RerankTop + RrfScores[b]
          < (4 * ExactTier(a) + IndependentChannels(a)) * RerankTop + RrfScores[a]
        BY <2>1, <2>2, <2>3, <2>4, <2>5, MoreOfEach
    <2> QED BY <2>6, RerankScore
<1>2. Scored(FusedCandidates, RerankScores)
    BY RerankScoreType
<1> QED BY <1>1, <1>2, SafeOrder

-----------------------------------------------------------------------------
(* The visual order *)

Looks(k) == corpus.visual[1][k]

\* Two frames with the same texts, of which the second counts.
Alike(a, b) ==
    /\ {a, b} \subseteq VisualHits(1)
    /\ \A R \in {Ocr, Asr} : TextsAt(R, a) = TextsAt(R, b)
    /\ request.backend = "siglip2" /\ request.task # "image" => Looks(b) > 0

VisualOrderIn(list) == \A i, j \in DOMAIN list : i < j /\ Alike(list[i], list[j]) => Looks(list[i]) >= Looks(list[j])

LEMMA VisualOrderStays ==
    ASSUME UNCHANGED <<request, corpus>>, VisualOrderIn(ranked')
    PROVE  VisualOrderIn(ranked)'
    BY DEF VisualOrderIn, Alike, Looks, VisualHits, TextsAt, Ocr, Asr

LEMMA OrderOfLooks ==
    ASSUME NEW S, NEW score, Scored(S, score),
           \A a, b \in S : Alike(a, b) /\ score[a] >= score[b] => Looks(a) >= Looks(b)
    PROVE  VisualOrderIn(Ranking(S, score))
<1>1. Sorted(Ranking(S, score), S, score)
    BY RankingIsSorted
<1> QED BY <1>1 DEF Sorted, VisualOrderIn

LEMMA LooksAreNumbers ==
    ASSUME corpus \in Corpora
    PROVE  /\ \A k \in VisualHits(1) : Looks(k) \in Int
           /\ IsFiniteSet(VisualHits(1)) /\ VisualHits(1) \subseteq Nat \X Nat
<1>1. 1 \in DOMAIN corpus.visual
    BY VisualAssumption
<1>2. Scored(VisualHits(1), [k \in VisualHits(1) |-> corpus.visual[1][k]])
    BY <1>1, VisualHitsAreScored
<1> QED BY <1>2 DEF Scored, Looks

LEMMA ImageIsOrdered ==
    ASSUME corpus \in Corpora
    PROVE  VisualOrderIn(Ranking(VisualHits(1), ImageScores))
<1>1. \A k \in VisualHits(1) : ImageScores[k] = Looks(k)
    BY DEF ImageScores, Looks
<1>2. Scored(VisualHits(1), ImageScores)
    BY <1>1, LooksAreNumbers DEF Scored
<1> QED BY <1>1, <1>2, OrderOfLooks

\* The best overlap of the texts of a frame.
LexOf(T) == MaxOf({t.lexical : t \in T})

LEMMA LexOfType ==
    ASSUME corpus \in Corpora, request.backend = "qwen3_vl", NEW R \in SUBSET corpus.records, NEW k
    PROVE  LexOf(TextsAt(R, k)) \in Nat
<1> DEFINE near == {r \in R : <<r.video, NearestFrame(r)>> = k}
           V == {t.lexical : t \in TextsAt(R, k)}
           value == [r \in near |-> r.text.lexical]
<1>1. near \in SUBSET corpus.records
    OBVIOUS
<1>2. TextsAt(R, k) = {r.text : r \in near}
    BY DEF TextsAt
<1>3. IsFiniteSet(near)
    <2> HIDE DEF near
    <2> QED BY <1>1, CorpusAssumption, FS_Subset
<1>4. \A r \in near : r.text.lexical \in Nat
    BY <1>1, CorpusAssumption
<1> HIDE DEF near
<1>5. value \in [near -> V] /\ \A t \in V : \E r \in near : value[r] = t
    BY <1>2
<1>6. V \subseteq Nat
    BY <1>2, <1>4
<1> HIDE DEF V, value
<1>7. IsFiniteSet(V)
    BY <1>3, <1>5, ImageCount
<1>8. MaxOf(V) \in Nat
    BY <1>6, <1>7, MaxOfNumbers
<1> QED BY <1>8 DEF LexOf, V

LEMMA TextsOfChannels == Ocr \in SUBSET corpus.records /\ Asr \in SUBSET corpus.records
    BY DEF Ocr, Asr

(* _search_single_query *)

SingleRaw  == [k \in SingleCandidates |-> IF k \in VisualHits(1) THEN corpus.visual[1][k] ELSE 0]
SingleAll  == {SingleRaw[k] : k \in SingleCandidates}
SingleSpan == IF Max(SingleAll) = Min(SingleAll) THEN 1 ELSE Max(SingleAll) - Min(SingleAll)

LEMMA SingleScore ==
    \A k \in SingleCandidates :
        SingleScores[k] = 40 * (IF SingleRaw[k] > 0 THEN SingleRaw[k] - Min(SingleAll) ELSE 0)
                          + 3 * SingleSpan * (Lexical(Ocr, k) + Lexical(Asr, k))
    BY DEF SingleScores, SingleRaw, SingleAll, SingleSpan

\* The texts of a frame count as one, which has a score.
LEMMA LexicalOfTexts ==
    ASSUME request.backend = "siglip2", NEW R, NEW k
    PROVE  Lexical(R, k) = JoinedLexical[TextsAt(R, k)]
    BY DEF Lexical, TextsAt

LEMMA LexicalType ==
    ASSUME corpus \in Corpora, NEW R \in SUBSET corpus.records, NEW k
    PROVE  Lexical(R, k) \in Nat
<1> DEFINE near == {r \in R : Covers(r, k, 0)}
<1>1. near \in SUBSET corpus.records
    OBVIOUS
<1> HIDE DEF near
<1>2. JoinedLexical[InOrder(near)] \in Nat
    BY <1>1, JoinAssumption
<1> QED BY <1>2 DEF Lexical, near

LEMMA SingleNumbers ==
    ASSUME corpus \in Corpora, SingleCandidates # {}
    PROVE  /\ \A k \in SingleCandidates : SingleRaw[k] \in Int /\ Min(SingleAll) <= SingleRaw[k]
           /\ Min(SingleAll) \in Int /\ SingleSpan \in Int
<1> DEFINE V == SingleAll
<1>1. \A k \in SingleCandidates : SingleRaw[k] \in Int
    BY LooksAreNumbers DEF SingleRaw, Looks
<1>2. SingleRaw \in [SingleCandidates -> V] /\ \A t \in V : \E k \in SingleCandidates : SingleRaw[k] = t
    BY DEF SingleAll, SingleRaw
<1>3. V # {} /\ V \subseteq Int /\ \A k \in SingleCandidates : SingleRaw[k] \in V
    BY <1>1 DEF SingleAll
<1>4. IsFiniteSet(SingleCandidates)
    BY CandidatesAreFinite
<1> HIDE DEF V
<1>5. IsFiniteSet(V)
    BY <1>2, <1>4, ImageCount
<1>6. Min(V) \in V /\ \A y \in V : Min(V) <= y
    BY <1>3, <1>5, FiniteMin
<1>7. Max(V) \in V
    BY <1>3, <1>5, FiniteMax
<1>8. Min(V) \in Int /\ Max(V) \in Int
    BY <1>3, <1>6, <1>7
<1>9. SingleSpan \in Int
    BY <1>8 DEF SingleSpan, V
<1> QED BY <1>1, <1>3, <1>6, <1>8, <1>9 DEF V

LEMMA SameTextsAside ==
    ASSUME NEW a \in Int, NEW b \in Int, NEW low \in Int, NEW t \in Int, low <= a, low <= b, b > 0,
           40 * (IF a > 0 THEN a - low ELSE 0) + t >= 40 * (IF b > 0 THEN b - low ELSE 0) + t
    PROVE  a >= b
    OBVIOUS

LEMMA SingleIsOrdered ==
    ASSUME corpus \in Corpora, request.backend = "siglip2", request.task # "image", SingleCandidates # {}
    PROVE  VisualOrderIn(Ranking(SingleCandidates, SingleScores))
<1> DEFINE text(k) == 3 * SingleSpan * (Lexical(Ocr, k) + Lexical(Asr, k))
           low == Min(SingleAll)
<1>1. ASSUME NEW k \in SingleCandidates PROVE text(k) \in Int
    <2>1. Lexical(Ocr, k) \in Nat /\ Lexical(Asr, k) \in Nat
        BY LexicalType, TextsOfChannels
    <2>2. SingleSpan \in Int
        BY SingleNumbers
    <2> QED BY <2>1, <2>2
<1>2. low \in Int /\ \A k \in SingleCandidates : SingleRaw[k] \in Int /\ low <= SingleRaw[k]
    BY SingleNumbers
<1>3. \A k \in SingleCandidates :
          SingleScores[k] = 40 * (IF SingleRaw[k] > 0 THEN SingleRaw[k] - low ELSE 0) + text(k)
    BY SingleScore
<1>4. ASSUME NEW a \in SingleCandidates, NEW b \in SingleCandidates, Alike(a, b), SingleScores[a] >= SingleScores[b]
      PROVE  Looks(a) >= Looks(b)
    <2>1. text(a) = text(b)
        BY <1>4, LexicalOfTexts DEF Alike
    <2>2. SingleRaw[a] = Looks(a) /\ SingleRaw[b] = Looks(b) /\ Looks(b) > 0
        BY <1>4 DEF Alike, SingleRaw, Looks
    <2> HIDE DEF text, low
    <2>3. 40 * (IF Looks(a) > 0 THEN Looks(a) - low ELSE 0) + text(a)
          >= 40 * (IF Looks(b) > 0 THEN Looks(b) - low ELSE 0) + text(a)
        BY <1>3, <1>4, <2>1, <2>2
    <2>4. Looks(a) \in Int /\ Looks(b) \in Int /\ low <= Looks(a) /\ low <= Looks(b)
        BY <1>2, <2>2
    <2> QED BY <1>1, <1>2, <2>2, <2>3, <2>4, SameTextsAside
<1> HIDE DEF text, low
<1>5. Scored(SingleCandidates, SingleScores)
    <2>1. ASSUME NEW k \in SingleCandidates PROVE SingleScores[k] \in Int
        <3>1. text(k) \in Int /\ low \in Int /\ SingleRaw[k] \in Int
            BY <1>1, <1>2
        <3> QED BY <1>3, <3>1
    <2>2. SingleCandidates \subseteq Nat \X Nat
        <3>1. \A r \in corpus.records : StartOf(r) \in Nat \X Nat
            BY CorpusAssumption, TextSearchAssumption DEF StartOf
        <3> QED BY <3>1, LooksAreNumbers DEF SingleCandidates, Matched, Ocr, Asr
    <2> QED BY <2>1, <2>2, CandidatesAreFinite DEF Scored
<1> QED BY <1>4, <1>5, OrderOfLooks

(* QwenRuntimeSearch.search_single *)

LEMMA NearestIsFrame ==
    ASSUME NEW r, r.first \in Nat, r.last \in Nat
    PROVE  NearestFrame(r) \in Frames
<1> DEFINE twice  == r.first + r.last
           after  == {f \in Frames : 2 * f >= twice}
           before == {f \in Frames : 2 * f < twice}
<1>1. IsFiniteSet(Frames) /\ Frames \subseteq Nat /\ Frames # {}
    BY TextSearchAssumption
<1>2. after \in SUBSET Frames /\ before \in SUBSET Frames /\ (before = {} => after # {})
    <2>1. PICK f \in Frames : f \in Nat
        BY <1>1
    <2>2. 2 * f >= twice \/ 2 * f < twice
        BY <2>1
    <2> QED BY <2>2
<1>3. NearestFrame(r) = IF before = {} THEN Min(after)
                        ELSE IF after = {} \/ twice - 2 * Max(before) < 2 * Min(after) - twice THEN Max(before)
                        ELSE Min(after)
    BY DEF NearestFrame
<1> HIDE DEF after, before, twice
<1>4. IsFiniteSet(after) /\ IsFiniteSet(before) /\ after \subseteq Int /\ before \subseteq Int
    <2>1. IsFiniteSet(after) /\ IsFiniteSet(before)
        BY <1>1, <1>2, FS_Subset
    <2> QED BY <1>1, <1>2, <2>1
<1>5. after # {} => Min(after) \in Frames
    BY <1>2, <1>4, FiniteMin
<1>6. before # {} => Max(before) \in Frames
    BY <1>2, <1>4, FiniteMax
<1> QED BY <1>2, <1>3, <1>5, <1>6

At(hits, k) == IF k \in DOMAIN hits THEN hits[k] ELSE 0

\* The overlap a frame is credited with, from its texts.
Credit(T) == IF \E t \in T : t.lexical > 0 THEN LexOf(T) ELSE 0

LEMMA CreditOfTexts ==
    ASSUME request.backend = "qwen3_vl", NEW R, NEW k
    PROVE  At(TopTextHits(R), k) = Credit(TextsAt(R, k))
<1> DEFINE near == {r \in R : <<r.video, NearestFrame(r)>> = k}
           D == {<<r.video, NearestFrame(r)>> : r \in {r \in R : r.text.lexical > 0}}
<1>1. TextsAt(R, k) = {r.text : r \in near}
    BY DEF TextsAt
<1>2. DOMAIN TopTextHits(R) = D /\ (k \in D => TopTextHits(R)[k] = MaxOf({r.text.lexical : r \in near}))
    BY DEF TopTextHits
<1>3. k \in D <=> \E t \in TextsAt(R, k) : t.lexical > 0
    BY <1>1
<1>4. {t.lexical : t \in {r.text : r \in near}} = {r.text.lexical : r \in near}
    OBVIOUS
<1>5. LexOf(TextsAt(R, k)) = MaxOf({r.text.lexical : r \in near})
    BY <1>1, <1>4 DEF LexOf
<1> HIDE DEF D, near
<1> QED BY <1>2, <1>3, <1>5 DEF At, Credit

QwenAll  == {ImageScores[k] : k \in DOMAIN ImageScores}
QwenLow  == IF QwenAll = {} THEN 0 ELSE Min(QwenAll)
QwenSpan == IF MaxOf(QwenAll) = QwenLow THEN 1 ELSE MaxOf(QwenAll) - QwenLow
QwenNorm(k) == IF Max(QwenAll) > QwenLow THEN ImageScores[k] - QwenLow ELSE IF QwenLow > 0 THEN 1 ELSE 0
QwenText(k) == QwenSpan * (18 * At(TopTextHits(Ocr), k) + 12 * At(TopTextHits(Asr), k))

LEMMA QwenScore ==
    /\ DOMAIN QwenScores = DOMAIN ImageScores \cup DOMAIN TopTextHits(Ocr) \cup DOMAIN TopTextHits(Asr)
    /\ \A k \in DOMAIN QwenScores :
           QwenScores[k] = (IF k \in DOMAIN ImageScores THEN 1400 * QwenNorm(k) ELSE 0) + QwenText(k)
    BY DEF QwenScores, QwenAll, QwenLow, QwenSpan, QwenNorm, QwenText, At

LEMMA ImageScoresAre == DOMAIN ImageScores = VisualHits(1) /\ \A k \in VisualHits(1) : ImageScores[k] = Looks(k)
    BY DEF ImageScores, Looks

LEMMA QwenNumbers ==
    ASSUME corpus \in Corpora
    PROVE  /\ QwenLow \in Int /\ QwenSpan \in Int
           /\ VisualHits(1) # {} => Max(QwenAll) \in Int
           /\ \A k \in VisualHits(1) : QwenLow <= Looks(k) /\ Looks(k) <= Max(QwenAll)
<1> DEFINE V == QwenAll
           D == VisualHits(1)
<1>1. V = {ImageScores[k] : k \in D} /\ ImageScores \in [D -> V] /\ \A t \in V : \E k \in D : ImageScores[k] = t
    BY DEF QwenAll, ImageScores
<1>2. \A k \in D : ImageScores[k] = Looks(k) /\ Looks(k) \in Int
    BY ImageScoresAre, LooksAreNumbers
<1>3. IsFiniteSet(D)
    BY LooksAreNumbers
<1> HIDE DEF V, D
<1>4. IsFiniteSet(V) /\ V \subseteq Int /\ (\A k \in D : Looks(k) \in V) /\ (D # {} => V # {})
    <2>1. IsFiniteSet(V)
        BY <1>1, <1>3, ImageCount
    <2>2. V \subseteq Int /\ (\A k \in D : Looks(k) \in V)
        BY <1>1, <1>2
    <2> QED BY <2>1, <2>2
<1>5. CASE V = {}
    <2>1. QwenLow = 0 /\ QwenSpan = 1
        BY <1>5 DEF V, QwenLow, QwenSpan, MaxOf
    <2> QED BY <1>4, <1>5, <2>1 DEF D
<1>6. CASE V # {}
    <2>1. Max(V) \in V /\ Min(V) \in V /\ \A y \in V : y <= Max(V) /\ Min(V) <= y
        BY <1>4, <1>6, FiniteMax, FiniteMin
    <2>2. Max(V) \in Int /\ Min(V) \in Int
        BY <1>4, <2>1
    <2>3. QwenLow = Min(V) /\ MaxOf(V) = Max(V)
        BY <1>6 DEF V, QwenLow, MaxOf
    <2>4. QwenSpan = IF Max(V) = Min(V) THEN 1 ELSE Max(V) - Min(V)
        BY <2>3 DEF V, QwenSpan
    <2>5. QwenSpan \in Int
        BY <2>2, <2>4
    <2>6. \A k \in D : Min(V) <= Looks(k) /\ Looks(k) <= Max(V)
        BY <1>4, <2>1
    <2> QED BY <2>2, <2>3, <2>5, <2>6 DEF D, V
<1> QED BY <1>5, <1>6

LEMMA SameNormAside ==
    ASSUME NEW a \in Int, NEW b \in Int, NEW low \in Int, NEW high \in Int, NEW t \in Int, NEW w \in Nat \ {0},
           low <= a, low <= b, a <= high, b <= high,
           w * (IF high > low THEN a - low ELSE IF low > 0 THEN 1 ELSE 0) + t
           >= w * (IF high > low THEN b - low ELSE IF low > 0 THEN 1 ELSE 0) + t
    PROVE  a >= b
<1>1. CASE high > low
    <2>1. SUFFICES ASSUME a < b PROVE FALSE
        OBVIOUS
    <2>2. PICK d \in Nat \ {0} : b = a + d
        <3>1. b - a \in Nat \ {0} /\ b = a + (b - a)
            BY <2>1
        <3> QED BY <3>1
    <2>3. w * (b - low) = w * (a - low) + w * d
        BY <2>2
    <2>4. w * d > 0 /\ w * d \in Int /\ w * (a - low) \in Int /\ w * (b - low) \in Int
        BY <2>2
    <2>5. w * (a - low) + t >= w * (b - low) + t
        BY <1>1
    <2> QED BY <2>3, <2>4, <2>5
<1>2. CASE ~(high > low)
    BY <1>2
<1> QED BY <1>1, <1>2

LEMMA QwenIsOrdered ==
    ASSUME corpus \in Corpora, request.backend = "qwen3_vl"
    PROVE  VisualOrderIn(Ranking(DOMAIN QwenScores, QwenScores))
<1> DEFINE S == DOMAIN QwenScores
           high == Max(QwenAll)
           w == 1400
<1>1. S = VisualHits(1) \cup DOMAIN TopTextHits(Ocr) \cup DOMAIN TopTextHits(Asr)
    BY QwenScore, ImageScoresAre
<1>2. \A k \in S : QwenScores[k] = (IF k \in VisualHits(1) THEN w * QwenNorm(k) ELSE 0) + QwenText(k)
    BY QwenScore, ImageScoresAre
<1>3. w \in Nat \ {0}
    OBVIOUS
<1> HIDE DEF S, high, w
<1>4. \A k : /\ At(TopTextHits(Ocr), k) = Credit(TextsAt(Ocr, k))
              /\ At(TopTextHits(Asr), k) = Credit(TextsAt(Asr, k))
    BY CreditOfTexts
<1>5. \A k : QwenText(k) \in Int
    <2> SUFFICES ASSUME NEW k PROVE QwenText(k) \in Int
        OBVIOUS
    <2>1. LexOf(TextsAt(Ocr, k)) \in Nat /\ LexOf(TextsAt(Asr, k)) \in Nat
        BY LexOfType, TextsOfChannels
    <2>2. At(TopTextHits(Ocr), k) \in Nat /\ At(TopTextHits(Asr), k) \in Nat
        BY <1>4, <2>1 DEF Credit
    <2>3. QwenSpan \in Int
        BY QwenNumbers
    <2> QED BY <2>2, <2>3 DEF QwenText
<1>6. \A k \in VisualHits(1) :
          QwenNorm(k) = IF high > QwenLow THEN Looks(k) - QwenLow ELSE IF QwenLow > 0 THEN 1 ELSE 0
    BY ImageScoresAre DEF QwenNorm, high
<1>7. \A k \in VisualHits(1) : /\ Looks(k) \in Int /\ QwenLow <= Looks(k) /\ Looks(k) <= high
                                /\ QwenLow \in Int /\ high \in Int
    BY LooksAreNumbers, QwenNumbers DEF high
<1>8. ASSUME NEW a \in S, NEW b \in S, Alike(a, b), QwenScores[a] >= QwenScores[b]
      PROVE  Looks(a) >= Looks(b)
    <2>1. a \in VisualHits(1) /\ b \in VisualHits(1)
        BY <1>8 DEF Alike
    <2>2. QwenText(a) = QwenText(b)
        BY <1>4, <1>8 DEF Alike, QwenText
    <2>3. w * QwenNorm(a) + QwenText(a) >= w * QwenNorm(b) + QwenText(a)
        BY <1>2, <1>8, <2>1, <2>2
    <2>4. w * (IF high > QwenLow THEN Looks(a) - QwenLow ELSE IF QwenLow > 0 THEN 1 ELSE 0) + QwenText(a)
          >= w * (IF high > QwenLow THEN Looks(b) - QwenLow ELSE IF QwenLow > 0 THEN 1 ELSE 0) + QwenText(a)
        BY <1>6, <2>1, <2>3
    <2> QED BY <1>3, <1>5, <1>7, <2>1, <2>4, SameNormAside
<1>9. Scored(S, QwenScores)
    <2>1. ASSUME NEW k \in S PROVE QwenScores[k] \in Int
        <3>1. CASE k \in VisualHits(1)
            <4>1. QwenNorm(k) \in Int
                BY <1>6, <1>7, <3>1
            <4> QED BY <1>2, <1>3, <1>5, <3>1, <4>1
        <3>2. CASE k \notin VisualHits(1)
            BY <1>2, <1>5, <3>2
        <3> QED BY <3>1, <3>2
    <2>2. \A r \in corpus.records : <<r.video, NearestFrame(r)>> \in Nat \X Nat
        BY CorpusAssumption, TextSearchAssumption, NearestIsFrame
    <2>3. DOMAIN TopTextHits(Ocr) \subseteq Nat \X Nat /\ DOMAIN TopTextHits(Asr) \subseteq Nat \X Nat
        BY <2>2, TextsOfChannels DEF TopTextHits
    <2>4. S \subseteq Nat \X Nat /\ IsFiniteSet(S)
        BY <1>1, <2>3, LooksAreNumbers, CandidatesAreFinite DEF S
    <2> QED BY <2>1, <2>4 DEF Scored
<1>a. VisualOrderIn(Ranking(S, QwenScores))
    BY <1>8, <1>9, OrderOfLooks
<1> QED BY <1>a DEF S

-----------------------------------------------------------------------------
(* The order of the rows, at every stage of a request *)

FusionAsked == request.refine /\ request.backend = "siglip2" /\ request.task # "image"
VisualAsked == ~request.refine \/ request.backend = "qwen3_vl" \/ request.task = "image"

OrderInv ==
    /\ pc = "rerank" => FusionAsked
    /\ pc \in {"rerank", "select"} /\ FusionAsked => DominanceBy(Channels, request, corpus, ranked)
    /\ pc \in {"select", "answer"} /\ VisualAsked => VisualOrderIn(ranked)

\* A list that is chosen by one of the searches.
LEMMA OrderOfChoice ==
    ASSUME UNCHANGED <<request, corpus>>, pc' = "rerank" => FusionAsked,
           FusionAsked => DominanceBy(Channels, request, corpus, ranked'),
           VisualAsked => VisualOrderIn(ranked')
    PROVE  OrderInv'
<1>1. FusionAsked' = FusionAsked /\ VisualAsked' = VisualAsked
    BY DEF FusionAsked, VisualAsked
<1>2. FusionAsked => DominanceBy(Channels, request, corpus, ranked)'
    BY ChannelsStay DEF DominanceBy, DominatesBy, TierIn
<1>3. VisualAsked => VisualOrderIn(ranked)'
    BY VisualOrderStays
<1> QED BY <1>1, <1>2, <1>3 DEF OrderInv

LEMMA OrderOfStage ==
    ASSUME OrderInv, UNCHANGED <<request, corpus, ranked>>,
           pc' \in {"rerank", "select"} => pc = pc', pc' = "answer" => pc \in {"select", "answer"}
    PROVE  OrderInv'
<1>1. FusionAsked' = FusionAsked /\ VisualAsked' = VisualAsked
    BY DEF FusionAsked, VisualAsked
<1>2. DominanceBy(Channels, request, corpus, ranked)' <=> DominanceBy(Channels, request, corpus, ranked)
    BY ChannelsStay DEF DominanceBy, DominatesBy, TierIn
<1>3. VisualOrderIn(ranked) => VisualOrderIn(ranked)'
    BY VisualOrderStays
<1> QED BY <1>1, <1>2, <1>3 DEF OrderInv

LEMMA OrderInvNext == SearchInv /\ OrderInv /\ [TextNext]_textVars => OrderInv'
<1> SUFFICES ASSUME SearchInv, OrderInv, [TextNext]_textVars PROVE OrderInv'
    OBVIOUS
<1>0. corpus \in Corpora
    BY DEF SearchInv, StageInv
<1>1. CASE SearchSingle
    <2>1. /\ UNCHANGED <<request, corpus>> /\ pc' = "select" /\ ~FusionAsked
          /\ request.backend = "siglip2" /\ request.task # "image"
          /\ ranked' = IF SingleCandidates = {} THEN <<>> ELSE Ranking(SingleCandidates, SingleScores)
        BY <1>1 DEF SearchSingle, FusionAsked
    <2>2. VisualOrderIn(<<>>)
        BY DEF VisualOrderIn
    <2>3. VisualOrderIn(ranked')
        BY <1>0, <2>1, <2>2, SingleIsOrdered
    <2> QED BY <2>1, <2>3, OrderOfChoice
<1>2. CASE SearchMultiPath
    <2>1. /\ UNCHANGED <<request, corpus>> /\ FusionAsked /\ ~VisualAsked
          /\ ranked' = Ranking(FusedCandidates, RrfScores)
        BY <1>2 DEF SearchMultiPath, FusionAsked, VisualAsked
    <2> QED BY <1>0, <2>1, FusionIsSafe, OrderOfChoice
<1>3. CASE Rerank
    <2>1. /\ UNCHANGED <<request, corpus>> /\ FusionAsked /\ ~VisualAsked /\ pc = "rerank" /\ pc' = "select"
          /\ ranked' \in {Ranking(FusedCandidates, RerankScores), ranked}
        BY <1>3 DEF Rerank, OrderInv, FusionAsked, VisualAsked
    <2>2. DominanceBy(Channels, request, corpus, ranked)
        BY <2>1 DEF OrderInv
    <2>3. DominanceBy(Channels, request, corpus, ranked')
        BY <1>0, <2>1, <2>2, RerankIsSafe
    <2> QED BY <2>1, <2>3, OrderOfChoice
<1>4. CASE SearchImage
    <2>1. /\ UNCHANGED <<request, corpus>> /\ pc' = "select" /\ ~FusionAsked
          /\ ranked' = Ranking(VisualHits(1), ImageScores)
        BY <1>4 DEF SearchImage, FusionAsked
    <2> QED BY <1>0, <2>1, ImageIsOrdered, OrderOfChoice
<1>5. CASE SearchQwen
    <2>1. /\ UNCHANGED <<request, corpus>> /\ pc' = "answer" /\ ~FusionAsked /\ request.backend = "qwen3_vl"
          /\ ranked' = Ranking(DOMAIN QwenScores, QwenScores)
        BY <1>5 DEF SearchQwen, FusionAsked
    <2> QED BY <1>0, <2>1, QwenIsOrdered, OrderOfChoice
<1>6. CASE \/ RefuseImage \/ ReturnAll \/ SkipRow \/ TakeRow \/ EndOfRows \/ Return
           \/ AnswerRow \/ AnswerFromSnippet \/ AskRemote \/ RemoteRaises \/ UNCHANGED textVars
    <2>1. UNCHANGED <<request, corpus, ranked>>
        BY <1>6 DEF RefuseImage, ReturnAll, SkipRow, TakeRow, EndOfRows, Return, AnswerRow, AnswerFromSnippet,
                    AskRemote, RemoteRaises, QwenAnswer, textVars
    <2>2. \/ pc' = pc
          \/ pc = "select" /\ pc' = "answer"
          \/ pc' \in {"done", "failed"}
        BY <1>6 DEF RefuseImage, ReturnAll, SkipRow, TakeRow, EndOfRows, Return, AnswerRow, AnswerFromSnippet,
                    AskRemote, RemoteRaises, QwenAnswer, textVars
    <2> QED BY <2>1, <2>2, OrderOfStage
<1> QED BY <1>1, <1>2, <1>3, <1>4, <1>5, <1>6 DEF TextNext

\* Fusing channels keeps what they agree on: for any corpus, any channels and any
\* scores, with and without the reranker (_search_multi_path and CandidateReranker),
\* and the visual order among frames with the same texts (_search_single_query,
\* search_image, QwenRuntimeSearch.search_single).
THEOREM RankingIsSafe == TextSpec => []RankingIsMonotone
<1>1. TextInit => OrderInv
    BY DEF TextInit, TextStart, OrderInv
<1>2. OrderInv => RankingIsMonotone
    <2> SUFFICES ASSUME OrderInv PROVE DominanceIsKept /\ VisualOrderIsKept
        BY DEF RankingIsMonotone
    <2>1. DominanceIsKept
        BY SameDominance DEF OrderInv, FusionAsked, DominanceBy, DominanceIsKept
    <2>2. VisualOrderIsKept
        BY DEF OrderInv, VisualAsked, VisualOrderIn, Alike, Looks, VisualOrderIsKept
    <2> QED BY <2>1, <2>2
<1> QED BY <1>1, <1>2, SearchIsConsistent, OrderInvNext, PTL DEF TextSpec
===============================================================================
