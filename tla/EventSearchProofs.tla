--------------------------- MODULE EventSearchProofs ---------------------------
(***************************************************************************)
(* What is proved of the search for a sequence of events: the dynamic      *)
(* program finds the best sequence, refinement never makes the answer      *)
(* worse, and the regions it decodes are sound; for any videos, searches,  *)
(* scores and limits.                                                      *)
(***************************************************************************)
EXTENDS EventSearch, FiniteSetTheorems, WellFoundedInduction, TLAPS

-----------------------------------------------------------------------------
(* Numbers and finite sets *)

\* A set of numbers that is not empty has a least element.
LEMMA LeastNumber ==
    ASSUME NEW S \in SUBSET Nat, S # {}
    PROVE  \E n \in S : \A m \in S : n <= m
<1>1. \E n \in S : \A m \in S : ~(<<m, n>> \in OpToRel(<, Nat))
    BY NatLessThanWellFounded, WFMin
<1>2. PICK n \in S : \A m \in S : ~(<<m, n>> \in OpToRel(<, Nat))
    BY <1>1
<1>3. \A m \in S : ~(m < n)
    BY <1>2 DEF OpToRel
<1> QED BY <1>3

LEMMA ImageIsFinite ==
    ASSUME NEW S, IsFiniteSet(S), NEW m
    PROVE  IsFiniteSet({m[x] : x \in S}) /\ Cardinality({m[x] : x \in S}) <= Cardinality(S)
<1> DEFINE T == {m[x] : x \in S}
           f == [x \in S |-> m[x]]
<1>1. f \in Surjection(S, T)
    BY DEF Surjection
<1> HIDE DEF f, T
<1>2. IsFiniteSet(T) /\ Cardinality(T) <= Cardinality(S)
    BY <1>1, FS_Surjection
<1> QED BY <1>2 DEF T

\* A total and transitive relation on a finite set has a greatest element.
LEMMA FiniteGreatest ==
    ASSUME NEW X, IsFiniteSet(X), X # {}, NEW R,
           \A x, y \in X : <<x, y>> \in R \/ <<y, x>> \in R,
           \A x, y, z \in X : <<x, y>> \in R /\ <<y, z>> \in R => <<x, z>> \in R
    PROVE  \E x \in X : \A y \in X : <<x, y>> \in R
<1>1. PICK n \in Nat : ExistsSurjection(1..n, X)
    BY FS_NatSurjection
<1>2. PICK f \in [1..n -> X] : \A x \in X : \E i \in 1..n : f[i] = x
    BY <1>1 DEF ExistsSurjection, Surjection
<1>3. n # 0
    BY <1>2
<1> DEFINE Good(k) == \E i \in 1..k : \A j \in 1..k : <<f[i], f[j]>> \in R
           Bad == {k \in 1..n : ~Good(k)}
<1>4. Bad = {}
    <2> SUFFICES ASSUME Bad # {} PROVE FALSE
        OBVIOUS
    <2>1. PICK k \in Bad : \A m \in Bad : k <= m
        <3>1. Bad \in SUBSET Nat
            OBVIOUS
        <3> HIDE DEF Bad
        <3> QED BY <3>1, LeastNumber
    <2>2. k \in 1..n /\ ~Good(k) /\ f[k] \in X
        BY <1>2, <2>1
    <2>3. CASE k = 1
        <3>1. <<f[1], f[1]>> \in R
            BY <2>2, <2>3
        <3> QED BY <2>2, <2>3, <3>1
    <2>4. CASE k # 1
        <3>1. k - 1 \in 1..n /\ ~(k <= k - 1)
            BY <2>2, <2>4
        <3>2. Good(k - 1)
            BY <2>1, <3>1
        <3>3. PICK i \in 1..(k - 1) : \A j \in 1..(k - 1) : <<f[i], f[j]>> \in R
            BY <3>2
        <3>4. i \in 1..k /\ i \in 1..n /\ f[i] \in X
            BY <1>2, <2>2, <3>1
        <3>5. CASE <<f[i], f[k]>> \in R
            <4>1. \A j \in 1..k : j = k \/ j \in 1..(k - 1)
                BY <2>2
            <4>2. \A j \in 1..k : <<f[i], f[j]>> \in R
                BY <3>3, <3>5, <4>1
            <4> QED BY <2>2, <3>4, <4>2
        <3>6. CASE <<f[k], f[i]>> \in R
            <4>1. \A j \in 1..k : j = k \/ j \in 1..(k - 1)
                BY <2>2
            <4>2. \A j \in 1..(k - 1) : f[j] \in X
                BY <1>2, <2>2
            <4>3. \A j \in 1..(k - 1) : <<f[k], f[j]>> \in R
                BY <2>2, <3>3, <3>4, <3>6, <4>2
            <4>4. <<f[k], f[k]>> \in R
                BY <2>2
            <4>5. \A j \in 1..k : <<f[k], f[j]>> \in R
                BY <4>1, <4>3, <4>4
            <4>6. k \in 1..k
                BY <2>2
            <4> QED BY <2>2, <4>5, <4>6
        <3> QED BY <2>2, <3>4, <3>5, <3>6
    <2> QED BY <2>3, <2>4
<1>5. n \in 1..n
    BY <1>1, <1>3
<1>6. Good(n)
    BY <1>4, <1>5
<1>7. PICK i \in 1..n : \A j \in 1..n : <<f[i], f[j]>> \in R
    BY <1>6
<1>8. f[i] \in X
    BY <1>2
<1> QED BY <1>2, <1>7, <1>8

LEMMA FiniteMax ==
    ASSUME NEW S, IsFiniteSet(S), S # {}, S \subseteq Int
    PROVE  Max(S) \in S /\ \A y \in S : y <= Max(S)
<1> DEFINE R == {p \in S \X S : p[2] <= p[1]}
<1>1. \A x, y \in S : <<x, y>> \in R <=> y <= x
    OBVIOUS
<1>2. \E x \in S : \A y \in S : <<x, y>> \in R
    <2> HIDE DEF R
    <2>1. ASSUME NEW x \in S, NEW y \in S PROVE <<x, y>> \in R \/ <<y, x>> \in R
        <3>1. x \in Int /\ y \in Int
            OBVIOUS
        <3>2. x <= y \/ y <= x
            BY <3>1
        <3> QED BY <1>1, <3>2
    <2>2. ASSUME NEW x \in S, NEW y \in S, NEW z \in S, <<x, y>> \in R, <<y, z>> \in R PROVE <<x, z>> \in R
        <3>1. x \in Int /\ y \in Int /\ z \in Int
            OBVIOUS
        <3>2. y <= x /\ z <= y
            BY <1>1, <2>2
        <3> QED BY <1>1, <3>1, <3>2
    <2> QED BY <2>1, <2>2, FiniteGreatest
<1>3. \E x \in S : \A y \in S : y <= x
    BY <1>1, <1>2
<1> QED BY <1>3 DEF Max

\* The greatest and the least of two numbers.
LEMMA TwoNumbers ==
    ASSUME NEW a \in Int, NEW b \in Int
    PROVE  /\ Max({a, b}) = IF a < b THEN b ELSE a
           /\ Min({a, b}) = IF a < b THEN a ELSE b
    BY DEF Max, Min

LEMMA SingleNumber ==
    ASSUME NEW a \in Int
    PROVE  Max({a}) = a
    BY DEF Max

-----------------------------------------------------------------------------
(* FirstBy, for a measure that no two members share.                       *)

Before(S, m, r) == {q \in S : m[q] < m[r]}

LEMMA BeforeIsFinite ==
    ASSUME NEW S, IsFiniteSet(S), NEW m, NEW r
    PROVE  /\ IsFiniteSet(Before(S, m, r)) /\ Cardinality(Before(S, m, r)) \in Nat
           /\ Cardinality(Before(S, m, r)) <= Cardinality(S)
           /\ Cardinality(Before(S, m, r)) = Cardinality(S) => Before(S, m, r) = S
<1>1. Before(S, m, r) \in SUBSET S
    BY DEF Before
<1>2. /\ IsFiniteSet(Before(S, m, r)) /\ Cardinality(Before(S, m, r)) <= Cardinality(S)
      /\ Cardinality(Before(S, m, r)) = Cardinality(S) => Before(S, m, r) = S
    <2> HIDE DEF Before
    <2>1. ASSUME NEW B \in SUBSET S
          PROVE  IsFiniteSet(B) /\ Cardinality(B) <= Cardinality(S) /\ (Cardinality(B) = Cardinality(S) => B = S)
        BY FS_Subset
    <2> QED BY <1>1, <2>1
<1>3. Cardinality(Before(S, m, r)) \in Nat
    BY <1>2, FS_CardinalityType
<1> QED BY <1>2, <1>3

FirstOf(S, m, n) == {r \in S : Cardinality(Before(S, m, r)) < n}

LEMMA FirstAreNoMore ==
    ASSUME NEW S, IsFiniteSet(S), NEW m \in [S -> Int], \A r, q \in S : m[r] = m[q] => r = q, NEW n \in Nat
    PROVE  Cardinality(FirstOf(S, m, n)) <= n
<1> DEFINE T == FirstOf(S, m, n)
<1>1. T \subseteq S /\ \A r \in T : Cardinality(Before(S, m, r)) < n
    BY DEF FirstOf
<1> HIDE DEF T
<1>2. IsFiniteSet(T) /\ Cardinality(T) \in Nat
    BY <1>1, FS_Subset, FS_CardinalityType
<1>3. CASE T = {}
    BY <1>3, FS_EmptySet DEF T
<1>4. CASE T # {}
    <2> DEFINE R == {p \in T \X T : m[p[2]] <= m[p[1]]}
    <2>1. \A x, y \in T : <<x, y>> \in R <=> m[y] <= m[x]
        OBVIOUS
    <2>2. \A x \in T : m[x] \in Int
        BY <1>1
    <2> HIDE DEF R
    <2>3. PICK r \in T : \A q \in T : <<r, q>> \in R
        <3>1. ASSUME NEW x \in T, NEW y \in T PROVE <<x, y>> \in R \/ <<y, x>> \in R
            BY <2>1, <2>2
        <3>2. ASSUME NEW x \in T, NEW y \in T, NEW z \in T, <<x, y>> \in R, <<y, z>> \in R PROVE <<x, z>> \in R
            <4>1. m[y] <= m[x] /\ m[z] <= m[y] /\ m[x] \in Int /\ m[y] \in Int /\ m[z] \in Int
                BY <2>1, <2>2, <3>2
            <4> QED BY <2>1, <4>1
        <3> QED BY <1>2, <1>4, <3>1, <3>2, FiniteGreatest
    <2>4. \A q \in T \ {r} : m[q] < m[r]
        <3> SUFFICES ASSUME NEW q \in T, q # r PROVE m[q] < m[r]
            OBVIOUS
        <3>1. m[q] <= m[r] /\ m[q] # m[r]
            BY <1>1, <2>1, <2>3
        <3> QED BY <2>2, <3>1
    <2>5. T \ {r} \subseteq Before(S, m, r)
        BY <1>1, <2>4 DEF Before
    <2>6. Cardinality(T \ {r}) = Cardinality(T) - 1
        BY <1>2, <2>3, FS_RemoveElement
    <2>7. Cardinality(T \ {r}) <= Cardinality(Before(S, m, r))
        BY <2>5, BeforeIsFinite, FS_Subset
    <2>8. Cardinality(Before(S, m, r)) < n /\ Cardinality(Before(S, m, r)) \in Nat
        BY <1>1, <2>3, BeforeIsFinite
    <2> QED BY <1>2, <2>6, <2>7, <2>8 DEF T
<1> QED BY <1>3, <1>4

LEMMA FirstOfAll ==
    ASSUME NEW S, IsFiniteSet(S), NEW m \in [S -> Int], NEW n \in Int, Cardinality(S) <= n
    PROVE  FirstOf(S, m, n) = S
<1> SUFFICES ASSUME NEW r \in S PROVE Cardinality(Before(S, m, r)) < n
    BY DEF FirstOf
<1>1. Before(S, m, r) # S
    <2>1. ~(m[r] < m[r])
        OBVIOUS
    <2> QED BY <2>1 DEF Before
<1>2. /\ Cardinality(Before(S, m, r)) \in Nat
      /\ Cardinality(Before(S, m, r)) <= Cardinality(S)
      /\ Cardinality(Before(S, m, r)) # Cardinality(S)
    BY <1>1, BeforeIsFinite
<1>3. Cardinality(S) \in Nat
    BY FS_CardinalityType
<1> QED BY <1>2, <1>3

LEMMA LeastIsFirst ==
    ASSUME NEW S, NEW m \in [S -> Int], NEW n \in Nat \ {0}, NEW r \in S, \A q \in S : m[r] <= m[q]
    PROVE  r \in FirstOf(S, m, n)
<1>1. Before(S, m, r) = {}
    <2>1. \A q \in S : ~(m[q] < m[r])
        OBVIOUS
    <2> QED BY <2>1 DEF Before
<1>2. Cardinality(Before(S, m, r)) = 0
    BY <1>1, FS_EmptySet
<1> QED BY <1>2 DEF FirstOf

-----------------------------------------------------------------------------
(* Regions *)

LEMMA Constants ==
    /\ LastFrame \in Nat /\ Penalty \in Nat /\ Scores \subseteq Int
    /\ {Window, Interval, MaxFrames, MaxPerVideo, MaxTotal} \subseteq Nat \ {0}
    /\ VideoIds \subseteq Nat /\ IsFiniteSet(VideoIds)
    /\ MaxGap = Absent \/ MaxGap \in Nat
    /\ Ordinals = 0..LastFrame
    BY SearchAssumption DEF Ordinals

LEMMA FramesAreNumbers ==
    /\ \A f \in Ordinals : f \in Nat /\ f \in Int /\ 0 <= f /\ f <= LastFrame
    /\ \A x \in Scores : x \in Int
    BY Constants

\* What the searches of a request found.
FoundOK ==
    /\ found \in Seq(SUBSET Candidates) /\ Len(found) \in Nat \ {0} /\ Events = 1..Len(found)
    /\ \A e \in Events : IsFiniteSet(found[e]) /\ found[e] \subseteq Candidates
    /\ \A e \in Events : \A c, d \in found[e] : c.video = d.video /\ c.frame = d.frame => c = d
    /\ \A v \in VideoIds, e \in Events, f \in Ordinals : DenseScore[v][e][f] \in Scores

LEMMA SearchesAreOK == found \in Searches => FoundOK
<1> SUFFICES ASSUME found \in Searches PROVE FoundOK
    OBVIOUS
<1>1. found \in Seq(SUBSET Candidates) /\ found # <<>>
    BY SearchAssumption
<1>2. Len(found) \in Nat \ {0} /\ Events = 1..Len(found)
    BY <1>1 DEF Events
<1>3. \A e \in Events : found[e] \subseteq Candidates
    BY <1>1, <1>2
<1>4. \A e \in Events : IsFiniteSet(found[e])
    BY SearchAssumption DEF Events
<1>5. \A e \in Events : \A c, d \in found[e] : c.video = d.video /\ c.frame = d.frame => c = d
    BY SearchAssumption DEF Events
<1>6. \A v \in VideoIds, e \in Events, f \in Ordinals : DenseScore[v][e][f] \in Scores
    BY SearchAssumption DEF Events
<1> QED BY <1>1, <1>2, <1>3, <1>4, <1>5, <1>6 DEF FoundOK

LEMMA FoundIsFinite ==
    ASSUME FoundOK, NEW v \in VideoIds
    PROVE  /\ IsFiniteSet(Found(v))
           /\ \A c \in Found(v) : c \in Candidates /\ c.video = v /\ c.frame \in Ordinals /\ c.score \in Scores
<1> DEFINE all == {found[e] : e \in Events}
<1>1. IsFiniteSet(Events)
    BY FS_Interval DEF FoundOK
<1>2. IsFiniteSet(all)
    BY <1>1, ImageIsFinite
<1>3. \A C \in all : IsFiniteSet(C) /\ C \subseteq Candidates
    BY DEF FoundOK
<1> HIDE DEF all
<1>4. IsFiniteSet(UNION all)
    BY <1>2, <1>3, FS_UNION
<1>5. Found(v) \subseteq UNION all /\ \A c \in Found(v) : c.video = v
    BY DEF Found, all
<1>6. IsFiniteSet(Found(v))
    BY <1>4, <1>5, FS_Subset
<1>7. \A c \in Found(v) : c \in Candidates
    BY <1>3, <1>5
<1>8. \A c \in Candidates : c.frame \in Ordinals /\ c.score \in Scores
    BY DEF Candidates
<1> QED BY <1>5, <1>6, <1>7, <1>8

WindowOf(c) == [first |-> Max({0, c.frame - Window}), last |-> Min({LastFrame, c.frame + Window}), score |-> c.score]

LEMMA WindowFacts ==
    ASSUME NEW c, c.frame \in Ordinals, c.score \in Scores
    PROVE  /\ WindowOf(c).first \in Ordinals /\ WindowOf(c).last \in Ordinals /\ WindowOf(c).score = c.score
           /\ c.frame \in WindowOf(c).first..WindowOf(c).last
           /\ \A f \in WindowOf(c).first..WindowOf(c).last : f - c.frame \in -Window..Window
<1> DEFINE f == c.frame
           w == WindowOf(c)
<1>1. f \in 0..LastFrame /\ LastFrame \in Nat /\ Window \in Nat
    BY Constants
<1>2. w.first = Max({0, f - Window}) /\ w.last = Min({LastFrame, f + Window}) /\ w.score = c.score
    BY DEF WindowOf
<1> HIDE DEF f, w
<1>3. w.first = IF 0 < f - Window THEN f - Window ELSE 0
    BY <1>1, <1>2, TwoNumbers
<1>4. w.last = IF LastFrame < f + Window THEN LastFrame ELSE f + Window
    <2>1. LastFrame \in Int /\ f + Window \in Int
        BY <1>1
    <2> DEFINE n == LastFrame
               m == f + Window
    <2>2. Min({n, m}) = IF n < m THEN n ELSE m
        <3> HIDE DEF n, m
        <3> QED BY <2>1, TwoNumbers DEF n, m
    <2> QED BY <1>2, <2>2, Zenon
<1> DEFINE a == w.first
           b == w.last
           limit == LastFrame
<1>5. /\ a = (IF 0 < f - Window THEN f - Window ELSE 0)
      /\ b = (IF limit < f + Window THEN limit ELSE f + Window)
      /\ f \in Nat /\ f <= limit /\ limit \in Nat /\ Window \in Nat
    <2>1. f \in Nat /\ f <= LastFrame
        BY <1>1
    <2> QED BY <1>1, <1>3, <1>4, <2>1, Zenon
<1> HIDE DEF a, b, limit
<1>6. a \in Nat /\ b \in Nat /\ a <= f /\ f <= b /\ b <= limit
    BY <1>5
<1>7. \A g \in a..b : g - f \in -Window..Window
    BY <1>5
<1>8. a \in 0..limit /\ b \in 0..limit /\ f \in a..b
    BY <1>5, <1>6
<1>9. w.first \in 0..LastFrame /\ w.last \in 0..LastFrame /\ f \in w.first..w.last
    BY <1>8, Zenon DEF a, b, limit
<1>10. \A g \in w.first..w.last : g - f \in -Window..Window
    BY <1>7, Zenon DEF a, b
<1> QED BY <1>2, <1>9, <1>10, Constants DEF f, w

LEMMA WindowsFacts ==
    ASSUME FoundOK, NEW v \in VideoIds
    PROVE  /\ Windows(v) = {WindowOf(c) : c \in Found(v)} /\ IsFiniteSet(Windows(v))
           /\ \A w \in Windows(v) : w.first \in Ordinals /\ w.last \in Ordinals /\ w.first <= w.last /\ w.score \in Scores
<1>1. Windows(v) = {WindowOf(c) : c \in Found(v)}
    BY DEF Windows, WindowOf
<1>2. IsFiniteSet(Windows(v))
    <2> DEFINE m == [c \in Found(v) |-> WindowOf(c)]
    <2>1. {m[c] : c \in Found(v)} = Windows(v)
        BY <1>1
    <2> HIDE DEF m
    <2>2. IsFiniteSet({m[c] : c \in Found(v)})
        BY FoundIsFinite, ImageIsFinite
    <2> QED BY <2>1, <2>2
<1>3. ASSUME NEW w \in Windows(v)
      PROVE  w.first \in Ordinals /\ w.last \in Ordinals /\ w.first <= w.last /\ w.score \in Scores
    <2>1. PICK c \in Found(v) : w = WindowOf(c)
        BY <1>1
    <2>2. c.frame \in Ordinals /\ c.score \in Scores
        BY FoundIsFinite
    <2>3. w.first \in Ordinals /\ w.last \in Ordinals /\ w.score = c.score /\ c.frame \in w.first..w.last
        BY <2>1, <2>2, WindowFacts
    <2>4. w.first \in Int /\ w.last \in Int
        BY <2>3, Constants
    <2> QED BY <2>2, <2>3, <2>4
<1> QED BY <1>1, <1>2, <1>3

Starts(v) == {w.first : w \in {x \in Windows(v) : \A u \in Windows(v) : u.first < x.first => u.last < x.first}}
Group(v, s) == {w \in Windows(v) : s = Max({t \in Starts(v) : t <= w.first})}
RegionAt(v, s) ==
    [first |-> s, last |-> Max({w.last : w \in Group(v, s)}), score |-> Max({w.score : w \in Group(v, s)})]

LEMMA MergedIsRegions == \A v : Merged(v) = {RegionAt(v, s) : s \in Starts(v)}
    BY DEF Merged, RegionAt, Group, Starts

LEMMA StartsFacts ==
    ASSUME FoundOK, NEW v \in VideoIds
    PROVE  /\ IsFiniteSet(Starts(v)) /\ Starts(v) \subseteq Ordinals
           /\ \A s \in Starts(v) : /\ \E w \in Windows(v) : w.first = s
                                   /\ \A u \in Windows(v) : u.first < s => u.last < s
           /\ \A s \in Ordinals : (/\ \E w \in Windows(v) : w.first = s
                                   /\ \A u \in Windows(v) : u.first < s => u.last < s) => s \in Starts(v)
<1>1. \A w \in Windows(v) : w.first \in Ordinals
    BY WindowsFacts
<1>2. Starts(v) \subseteq Ordinals
    BY <1>1 DEF Starts
<1>3. IsFiniteSet(Ordinals)
    BY Constants, FS_Interval
<1>4. IsFiniteSet(Starts(v))
    BY <1>2, <1>3, FS_Subset
<1>5. \A s \in Starts(v) : /\ \E w \in Windows(v) : w.first = s
                           /\ \A u \in Windows(v) : u.first < s => u.last < s
    BY DEF Starts
<1>6. \A s \in Ordinals : (/\ \E w \in Windows(v) : w.first = s
                           /\ \A u \in Windows(v) : u.first < s => u.last < s) => s \in Starts(v)
    BY DEF Starts
<1> QED BY <1>2, <1>4, <1>5, <1>6

\* Every window belongs to the last start that is not after it.
LEMMA EveryWindowHasAStart ==
    ASSUME FoundOK, NEW v \in VideoIds, NEW w \in Windows(v)
    PROVE  \E s \in Starts(v) : w \in Group(v, s) /\ s <= w.first /\ \A t \in Starts(v) : t <= w.first => t <= s
<1> DEFINE firsts == {u.first : u \in Windows(v)}
           before == {t \in Starts(v) : t <= w.first}
<1>1. firsts \in SUBSET Nat /\ firsts # {} /\ firsts \subseteq Ordinals
    BY WindowsFacts, Constants
<1>2. PICK t0 \in firsts : \A t \in firsts : t0 <= t
    <2> HIDE DEF firsts
    <2> QED BY <1>1, LeastNumber
<1>3. t0 \in Starts(v)
    <2>1. t0 \in Ordinals /\ \E u \in Windows(v) : u.first = t0
        BY <1>1, <1>2
    <2>2. \A u \in Windows(v) : ~(u.first < t0)
        <3> SUFFICES ASSUME NEW u \in Windows(v), u.first < t0 PROVE FALSE
            OBVIOUS
        <3>1. t0 <= u.first
            BY <1>2
        <3>2. t0 \in Int /\ u.first \in Int
            BY <1>1, <2>1, Constants
        <3> QED BY <3>1, <3>2
    <2> QED BY <2>1, <2>2, StartsFacts
<1>4. t0 <= w.first
    BY <1>2
<1>5. before # {} /\ before \subseteq Int /\ IsFiniteSet(before)
    <2>1. before \in SUBSET Starts(v)
        OBVIOUS
    <2>2. IsFiniteSet(Starts(v)) /\ Starts(v) \subseteq Int
        BY StartsFacts, Constants
    <2>3. before # {}
        BY <1>3, <1>4
    <2> HIDE DEF before
    <2>4. IsFiniteSet(before)
        BY <2>1, <2>2, FS_Subset
    <2> QED BY <2>1, <2>2, <2>3, <2>4
<1>6. Max(before) \in before /\ \A t \in before : t <= Max(before)
    <2> HIDE DEF before
    <2> QED BY <1>5, FiniteMax
<1>7. w \in Group(v, Max(before))
    BY DEF Group
<1>8. \A t \in Starts(v) : t <= w.first => t \in before
    OBVIOUS
<1> DEFINE s == Max(before)
<1> HIDE DEF s
<1>9. s \in before /\ (\A t \in before : t <= s) /\ w \in Group(v, s)
    BY <1>6, <1>7 DEF s
<1> QED BY <1>8, <1>9

LEMMA GroupFacts ==
    ASSUME FoundOK, NEW v \in VideoIds, NEW s \in Starts(v)
    PROVE  /\ Group(v, s) \subseteq Windows(v) /\ IsFiniteSet(Group(v, s))
           /\ \E w \in Group(v, s) : w.first = s
           /\ \A w \in Group(v, s) : s <= w.first /\ \A t \in Starts(v) : t <= w.first => t <= s
<1>1. Group(v, s) \subseteq Windows(v)
    BY DEF Group
<1>2. IsFiniteSet(Group(v, s))
    BY <1>1, WindowsFacts, FS_Subset
<1>3. \A w \in Group(v, s) : s <= w.first /\ \A t \in Starts(v) : t <= w.first => t <= s
    <2> SUFFICES ASSUME NEW w \in Group(v, s)
                 PROVE  s <= w.first /\ \A t \in Starts(v) : t <= w.first => t <= s
        OBVIOUS
    <2>1. PICK t \in Starts(v) : w \in Group(v, t) /\ t <= w.first /\ \A u \in Starts(v) : u <= w.first => u <= t
        BY <1>1, EveryWindowHasAStart
    <2>2. t = s
        BY <2>1 DEF Group
    <2> QED BY <2>1, <2>2
<1>4. \E w \in Group(v, s) : w.first = s
    <2>1. PICK w \in Windows(v) : w.first = s
        BY StartsFacts
    <2>2. PICK t \in Starts(v) : w \in Group(v, t) /\ t <= w.first /\ \A u \in Starts(v) : u <= w.first => u <= t
        BY EveryWindowHasAStart
    <2>3. t = s
        <3>1. t <= s /\ s <= t
            <4>1. s <= w.first
                BY <2>1, StartsFacts, Constants
            <4> QED BY <2>1, <2>2, <4>1
        <3>2. t \in Int /\ s \in Int
            BY StartsFacts, Constants
        <3> QED BY <3>1, <3>2
    <2> QED BY <2>1, <2>2, <2>3
<1> QED BY <1>1, <1>2, <1>3, <1>4

\* A region ends with one of its windows and has the score of one.
LEMMA RegionFacts ==
    ASSUME FoundOK, NEW v \in VideoIds, NEW s \in Starts(v)
    PROVE  /\ RegionAt(v, s).first = s
           /\ \E w \in Group(v, s) : w.last = RegionAt(v, s).last
           /\ \E w \in Group(v, s) : w.score = RegionAt(v, s).score
           /\ \A w \in Group(v, s) : w.last <= RegionAt(v, s).last /\ w.score <= RegionAt(v, s).score
<1> DEFINE lasts == {w.last : w \in Group(v, s)}
           scores == {w.score : w \in Group(v, s)}
<1>1. /\ Group(v, s) \subseteq Windows(v) /\ IsFiniteSet(Group(v, s)) /\ Group(v, s) # {}
    BY GroupFacts
<1>2. \A w \in Group(v, s) : w.last \in Int /\ w.score \in Int
    <2>1. \A w \in Windows(v) : w.last \in Ordinals /\ w.score \in Scores
        BY WindowsFacts
    <2> QED BY <1>1, <2>1, FramesAreNumbers
<1>3. lasts \subseteq Int /\ lasts # {} /\ scores \subseteq Int /\ scores # {}
    BY <1>1, <1>2
<1>4. IsFiniteSet(lasts)
    <2> DEFINE m == [w \in Group(v, s) |-> w.last]
    <2>1. {m[w] : w \in Group(v, s)} = lasts
        OBVIOUS
    <2> HIDE DEF m, lasts
    <2>2. IsFiniteSet({m[w] : w \in Group(v, s)})
        BY <1>1, ImageIsFinite
    <2> QED BY <2>1, <2>2
<1>5. IsFiniteSet(scores)
    <2> DEFINE m == [w \in Group(v, s) |-> w.score]
    <2>1. {m[w] : w \in Group(v, s)} = scores
        OBVIOUS
    <2> HIDE DEF m, scores
    <2>2. IsFiniteSet({m[w] : w \in Group(v, s)})
        BY <1>1, ImageIsFinite
    <2> QED BY <2>1, <2>2
<1>6. RegionAt(v, s) = [first |-> s, last |-> Max(lasts), score |-> Max(scores)]
    BY DEF RegionAt
<1>7. Max(lasts) \in lasts /\ \A l \in lasts : l <= Max(lasts)
    <2> HIDE DEF lasts
    <2> QED BY <1>3, <1>4, FiniteMax
<1>8. Max(scores) \in scores /\ \A l \in scores : l <= Max(scores)
    <2> HIDE DEF scores
    <2> QED BY <1>3, <1>5, FiniteMax
<1> DEFINE x == Max(lasts)
           y == Max(scores)
<1> HIDE DEF x, y
<1>9. RegionAt(v, s).first = s /\ RegionAt(v, s).last = x /\ RegionAt(v, s).score = y
    <2> HIDE DEF lasts, scores
    <2> QED BY <1>6 DEF x, y
<1>10. x \in lasts /\ (\A l \in lasts : l <= x) /\ y \in scores /\ (\A l \in scores : l <= y)
    BY <1>7, <1>8 DEF x, y
<1> QED BY <1>9, <1>10

LEMMA RegionIsRegion ==
    ASSUME FoundOK, NEW v \in VideoIds, NEW s \in Starts(v)
    PROVE  RegionAt(v, s) \in Regions /\ RegionAt(v, s).first <= RegionAt(v, s).last
<1>1. PICK w \in Group(v, s) : w.first = s
    BY GroupFacts
<1>2. PICK u \in Group(v, s) : u.last = RegionAt(v, s).last
    BY RegionFacts
<1>3. PICK t \in Group(v, s) : t.score = RegionAt(v, s).score
    BY RegionFacts
<1>4. /\ w.first \in Ordinals /\ w.last \in Ordinals /\ w.first <= w.last
      /\ u.last \in Ordinals /\ t.score \in Scores
    BY GroupFacts, WindowsFacts
<1>5. RegionAt(v, s).first = s /\ w.last <= RegionAt(v, s).last
    BY RegionFacts
<1>6. RegionAt(v, s) \in Regions
    <2> DEFINE x == Max({q.last : q \in Group(v, s)})
               y == Max({q.score : q \in Group(v, s)})
    <2>1. RegionAt(v, s) = [first |-> s, last |-> x, score |-> y]
        BY DEF RegionAt
    <2> HIDE DEF x, y
    <2>2. s \in Ordinals /\ x \in Ordinals /\ y \in Scores
        BY <1>1, <1>2, <1>3, <1>4, <2>1
    <2> QED BY <2>1, <2>2 DEF Regions
<1>7. s \in Int /\ w.last \in Int /\ u.last \in Int
    BY <1>1, <1>4, Constants
<1> QED BY <1>1, <1>2, <1>4, <1>5, <1>6, <1>7

\* Two regions of a video have no frame in common.
LEMMA RegionsAreApart ==
    ASSUME FoundOK, NEW v \in VideoIds, NEW s \in Starts(v), NEW t \in Starts(v), s < t
    PROVE  RegionAt(v, s).last < t
<1>1. PICK w \in Group(v, s) : w.last = RegionAt(v, s).last
    BY RegionFacts
<1>2. w \in Windows(v) /\ \A q \in Starts(v) : q <= w.first => q <= s
    BY GroupFacts
<1>3. w.first \in Int /\ s \in Int /\ t \in Int
    BY <1>2, WindowsFacts, StartsFacts, Constants
<1>4. w.first < t
    BY <1>2, <1>3
<1> QED BY <1>1, <1>2, <1>4, StartsFacts

\* A region has no hole: its windows meet.
LEMMA RegionHasNoHole ==
    ASSUME FoundOK, NEW v \in VideoIds, NEW s \in Starts(v), NEW f \in s..RegionAt(v, s).last
    PROVE  \E w \in Group(v, s) : f \in w.first..w.last
<1> DEFINE last == RegionAt(v, s).last
           later == {w.first : w \in {x \in Group(v, s) : f < x.first}}
<1>1. \A w \in Windows(v) : w.first \in Nat /\ w.last \in Nat
    BY WindowsFacts, Constants
<1>2. Group(v, s) \subseteq Windows(v)
    BY GroupFacts
<1>3. \A t \in Starts(v) : t \in Nat
    BY StartsFacts, Constants
<1>4. PICK u \in Group(v, s) : u.last = last
    BY RegionFacts
<1>5. last \in Nat /\ f \in Nat /\ s <= f /\ f <= last
    BY <1>1, <1>2, <1>3, <1>4
<1> HIDE DEF last
<1> SUFFICES ASSUME ~\E w \in Group(v, s) : f \in w.first..w.last PROVE FALSE
    OBVIOUS
<1>6. \A w \in Group(v, s) : w.first <= f => w.last < f
    BY <1>1, <1>2, <1>5
<1>7. f < u.first
    BY <1>1, <1>2, <1>4, <1>5, <1>6
<1>8. PICK t \in later : \A q \in later : t <= q
    <2>1. later \in SUBSET Nat /\ later # {}
        BY <1>1, <1>2, <1>7
    <2> HIDE DEF later
    <2> QED BY <2>1, LeastNumber
<1>9. PICK x \in Group(v, s) : t = x.first /\ f < x.first
    BY <1>8
<1>10. t \in Nat /\ t \in Ordinals
    BY <1>1, <1>2, <1>9, WindowsFacts
<1>11. ASSUME NEW w \in Windows(v), w.first < t PROVE w.last < t
    <2>1. CASE w \in Group(v, s)
        <3>1. ~(f < w.first)
            <4> SUFFICES ASSUME f < w.first PROVE FALSE
                OBVIOUS
            <4>1. w.first \in later
                BY <2>1
            <4>2. t <= w.first
                BY <1>8, <4>1
            <4> QED BY <1>1, <1>10, <1>11, <4>2
        <3>2. w.last < f
            BY <1>1, <1>5, <1>6, <2>1, <3>1
        <3> QED BY <1>1, <1>5, <1>9, <1>10, <3>2
    <2>2. CASE w \notin Group(v, s)
        <3>1. PICK q \in Starts(v) : w \in Group(v, q) /\ q <= w.first /\ \A p \in Starts(v) : p <= w.first => p <= q
            BY EveryWindowHasAStart
        <3>2. q # s
            BY <2>2, <3>1
        <3>3. ~(s <= w.first)
            <4> SUFFICES ASSUME s <= w.first PROVE FALSE
                OBVIOUS
            <4>1. s <= q
                BY <3>1
            <4>2. q <= x.first
                BY <1>1, <1>3, <1>9, <1>10, <1>11, <3>1
            <4>3. q <= s
                BY <1>9, <4>2, GroupFacts
            <4> QED BY <1>3, <3>1, <3>2, <4>1, <4>3
        <3>4. w.first < s
            BY <1>1, <1>3, <3>3
        <3>5. w.last < s
            BY <3>4, StartsFacts
        <3> QED BY <1>1, <1>3, <1>5, <1>9, <1>10, <3>5
    <2> QED BY <2>1, <2>2
<1>12. t \in Starts(v)
    <2>1. \E w \in Windows(v) : w.first = t
        BY <1>2, <1>9
    <2> QED BY <1>10, <1>11, <2>1, StartsFacts
<1>13. t <= s
    <2>1. t <= x.first
        BY <1>9, <1>10
    <2> QED BY <1>9, <1>12, <2>1, GroupFacts
<1> QED BY <1>3, <1>5, <1>9, <1>10, <1>13

\* What the regions of a video are.
LEMMA MergedFacts ==
    ASSUME FoundOK, NEW v \in VideoIds
    PROVE  /\ IsFiniteSet(Merged(v)) /\ Merged(v) \subseteq Regions
           /\ \A r, q \in Merged(v) : r.first = q.first => r = q
           /\ \A r, q \in Merged(v) : r # q => r.last < q.first \/ q.last < r.first
           /\ \A r \in Merged(v) : r.first <= r.last
           /\ \A r \in Merged(v) : \A f \in r.first..r.last : \E c \in Found(v) : f - c.frame \in -Window..Window
           /\ \A c \in Found(v) : \E r \in Merged(v) : c.frame \in r.first..r.last /\ c.score <= r.score
           /\ \A r \in Merged(v) : \E c \in Found(v) : c.frame \in r.first..r.last /\ c.score = r.score
<1>1. Merged(v) = {RegionAt(v, s) : s \in Starts(v)}
    BY MergedIsRegions
<1>2. IsFiniteSet(Merged(v))
    <2> DEFINE m == [s \in Starts(v) |-> RegionAt(v, s)]
    <2>1. {m[s] : s \in Starts(v)} = Merged(v)
        BY <1>1
    <2> HIDE DEF m
    <2>2. IsFiniteSet({m[s] : s \in Starts(v)})
        BY StartsFacts, ImageIsFinite
    <2> QED BY <2>1, <2>2
<1>3. \A s \in Starts(v) : RegionAt(v, s) \in Regions /\ RegionAt(v, s).first = s /\ RegionAt(v, s).first <= RegionAt(v, s).last
    BY RegionIsRegion, RegionFacts
<1>4. \A r \in Merged(v) : r \in Regions /\ r.first \in Starts(v) /\ r = RegionAt(v, r.first) /\ r.first <= r.last
    BY <1>1, <1>3
<1>5. \A r \in Regions : r.first \in Int /\ r.last \in Int /\ r.score \in Int
    <2>1. \A r \in Regions : r.first \in Ordinals /\ r.last \in Ordinals /\ r.score \in Scores
        BY DEF Regions
    <2> QED BY <2>1, FramesAreNumbers
<1>6. ASSUME NEW r \in Merged(v), NEW q \in Merged(v), r # q PROVE r.last < q.first \/ q.last < r.first
    <2>1. r.first # q.first
        BY <1>4, <1>6
    <2>2. r.first < q.first => r.last < q.first
        BY <1>4, RegionsAreApart
    <2>3. q.first < r.first => q.last < r.first
        BY <1>4, RegionsAreApart
    <2> QED BY <1>4, <1>5, <2>1, <2>2, <2>3
<1>7. ASSUME NEW r \in Merged(v), NEW f \in r.first..r.last
      PROVE  \E c \in Found(v) : f - c.frame \in -Window..Window
    <2>1. PICK w \in Group(v, r.first) : f \in w.first..w.last
        <3>1. f \in r.first..RegionAt(v, r.first).last /\ r.first \in Starts(v)
            BY <1>4
        <3> QED BY <3>1, RegionHasNoHole
    <2>2. PICK c \in Found(v) : w = WindowOf(c)
        BY <1>4, GroupFacts, WindowsFacts
    <2>3. c.frame \in Ordinals /\ c.score \in Scores
        BY FoundIsFinite
    <2> QED BY <2>1, <2>2, <2>3, WindowFacts
<1>8. ASSUME NEW c \in Found(v)
      PROVE  \E r \in Merged(v) : c.frame \in r.first..r.last /\ c.score <= r.score
    <2> DEFINE w == WindowOf(c)
    <2>1. w \in Windows(v)
        BY WindowsFacts
    <2>2. c.frame \in Ordinals /\ c.score \in Scores
        BY FoundIsFinite
    <2>3. w.score = c.score /\ c.frame \in w.first..w.last /\ w.first \in Ordinals /\ w.last \in Ordinals
        BY <2>2, WindowFacts
    <2> HIDE DEF w
    <2>4. PICK s \in Starts(v) : w \in Group(v, s) /\ s <= w.first
        BY <2>1, EveryWindowHasAStart
    <2> DEFINE r == RegionAt(v, s)
    <2>5. r \in Merged(v) /\ r \in Regions /\ r.first = s
        BY <1>1, <1>3
    <2>6. w.last <= r.last /\ w.score <= r.score
        BY <2>4, RegionFacts
    <2> HIDE DEF r
    <2>7. s \in Int /\ r.last \in Int /\ w.first \in Int /\ w.last \in Int /\ c.frame \in Int
        BY <1>5, <2>2, <2>3, <2>5, Constants
    <2>8. c.frame \in r.first..r.last
        BY <2>3, <2>4, <2>5, <2>6, <2>7
    <2> QED BY <2>3, <2>5, <2>6, <2>8
<1>9. ASSUME NEW r \in Merged(v)
      PROVE  \E c \in Found(v) : c.frame \in r.first..r.last /\ c.score = r.score
    <2>1. PICK w \in Group(v, r.first) : w.score = r.score
        BY <1>4, RegionFacts
    <2>2. PICK c \in Found(v) : w = WindowOf(c)
        BY <1>4, GroupFacts, WindowsFacts
    <2>3. c.frame \in Ordinals /\ c.score \in Scores
        BY FoundIsFinite
    <2>4. w.score = c.score /\ c.frame \in w.first..w.last /\ w.first \in Ordinals /\ w.last \in Ordinals
        BY <2>2, <2>3, WindowFacts
    <2>5. r.first <= w.first /\ w.last <= r.last
        <3>1. r.first <= w.first
            BY <1>4, <2>1, GroupFacts
        <3>2. w.last <= RegionAt(v, r.first).last
            BY <1>4, <2>1, RegionFacts
        <3> QED BY <1>4, <3>1, <3>2
    <2>6. c.frame \in r.first..r.last
        BY <1>4, <1>5, <2>3, <2>4, <2>5, Constants
    <2> QED BY <2>1, <2>4, <2>6
<1> QED BY <1>2, <1>4, <1>6, <1>7, <1>8, <1>9

-----------------------------------------------------------------------------
(* The limits *)

\* What orders the regions of a video.
Rank(r) == r.first - (LastFrame + 1) * r.score

LEMMA RankFacts ==
    ASSUME NEW r \in Regions, NEW q \in Regions
    PROVE  /\ Rank(r) \in Int
           /\ Rank(r) = Rank(q) => r.first = q.first
           /\ Rank(r) <= Rank(q) => q.score <= r.score
<1> DEFINE L == LastFrame + 1
<1>1. /\ r.first \in Int /\ 0 <= r.first /\ r.first < L /\ r.score \in Int
      /\ q.first \in Int /\ 0 <= q.first /\ q.first < L /\ q.score \in Int
      /\ L \in Nat \ {0}
    <2>1. r.first \in Ordinals /\ r.score \in Scores /\ q.first \in Ordinals /\ q.score \in Scores
        BY DEF Regions
    <2>2. /\ r.first \in Int /\ 0 <= r.first /\ r.first <= LastFrame /\ r.score \in Int
          /\ q.first \in Int /\ 0 <= q.first /\ q.first <= LastFrame /\ q.score \in Int
        BY <2>1, FramesAreNumbers
    <2>3. LastFrame \in Nat
        BY Constants
    <2> QED BY <2>2, <2>3
<1>2. Rank(r) = r.first - L * r.score /\ Rank(q) = q.first - L * q.score
    BY DEF Rank
<1> HIDE DEF L
<1>3. L * r.score \in Int /\ L * q.score \in Int
    BY <1>1
<1>4. q.score > r.score => L * q.score >= L * r.score + L
    BY <1>1
<1>5. r.score > q.score => L * r.score >= L * q.score + L
    BY <1>1
<1>6. Rank(r) <= Rank(q) => q.score <= r.score
    BY <1>1, <1>2, <1>3, <1>4
<1>7. Rank(q) <= Rank(r) => r.score <= q.score
    BY <1>1, <1>2, <1>3, <1>5
<1>8. Rank(r) \in Int /\ Rank(q) \in Int
    BY <1>1, <1>2, <1>3
<1>9. ASSUME Rank(r) = Rank(q) PROVE r.first = q.first
    <2>1. r.score = q.score
        BY <1>1, <1>6, <1>7, <1>8, <1>9
    <2> DEFINE x == L * r.score
    <2>2. x = L * q.score /\ x \in Int
        BY <1>3, <2>1
    <2>3. Rank(r) = r.first - x
        BY <1>2
    <2> HIDE DEF x
    <2>4. Rank(q) = q.first - x
        BY <1>2, <2>2
    <2> DEFINE a == r.first
               b == q.first
    <2>5. a \in Int /\ b \in Int /\ a - x = b - x
        BY <1>1, <1>9, <2>3, <2>4
    <2> HIDE DEF a, b
    <2>6. a = b
        BY <2>2, <2>5
    <2> QED BY <2>6 DEF a, b
<1> QED BY <1>6, <1>8, <1>9

LEMMA KeptFacts ==
    ASSUME FoundOK, NEW v \in VideoIds
    PROVE  /\ Kept(v) \subseteq Merged(v) /\ IsFiniteSet(Kept(v)) /\ Cardinality(Kept(v)) \in Nat
           /\ Cardinality(Kept(v)) <= MaxPerVideo
           /\ Merged(v) # {} => \E r \in Kept(v) : \A q \in Merged(v) : q.score <= r.score
<1> DEFINE M == Merged(v)
           m == [r \in M |-> Rank(r)]
<1>1. IsFiniteSet(M) /\ M \subseteq Regions /\ \A r, q \in M : r.first = q.first => r = q
    BY MergedFacts
<1>2. Kept(v) = {r \in M : Cardinality({q \in M : Rank(q) < Rank(r)}) < MaxPerVideo}
    BY DEF Kept, FirstBy, Rank
<1> HIDE DEF M
<1>3. m \in [M -> Int] /\ \A r \in M : m[r] = Rank(r)
    BY <1>1, RankFacts
<1>4. \A r \in M : {q \in M : Rank(q) < Rank(r)} = Before(M, m, r)
    BY <1>3 DEF Before
<1> HIDE DEF m
<1>5. Kept(v) = FirstOf(M, m, MaxPerVideo)
    BY <1>2, <1>4 DEF FirstOf
<1>6. \A r, q \in M : m[r] = m[q] => r = q
    BY <1>1, <1>3, RankFacts
<1>7. MaxPerVideo \in Nat \ {0}
    BY Constants
<1>8. Cardinality(Kept(v)) <= MaxPerVideo
    BY <1>1, <1>3, <1>5, <1>6, <1>7, FirstAreNoMore
<1>9. Kept(v) \subseteq M
    BY <1>5 DEF FirstOf
<1>10. IsFiniteSet(Kept(v)) /\ Cardinality(Kept(v)) \in Nat
    BY <1>1, <1>9, FS_Subset, FS_CardinalityType
<1>11. ASSUME M # {} PROVE \E r \in Kept(v) : \A q \in M : q.score <= r.score
    <2> DEFINE R == {p \in M \X M : m[p[1]] <= m[p[2]]}
    <2>1. \A x, y \in M : <<x, y>> \in R <=> m[x] <= m[y]
        OBVIOUS
    <2>2. \A x \in M : m[x] \in Int
        BY <1>3
    <2> HIDE DEF R
    <2>3. PICK r \in M : \A q \in M : <<r, q>> \in R
        <3>1. ASSUME NEW x \in M, NEW y \in M PROVE <<x, y>> \in R \/ <<y, x>> \in R
            BY <2>1, <2>2
        <3>2. ASSUME NEW x \in M, NEW y \in M, NEW z \in M, <<x, y>> \in R, <<y, z>> \in R PROVE <<x, z>> \in R
            <4>1. m[x] <= m[y] /\ m[y] <= m[z] /\ m[x] \in Int /\ m[y] \in Int /\ m[z] \in Int
                BY <2>1, <2>2, <3>2
            <4> QED BY <2>1, <4>1
        <3> QED BY <1>1, <1>11, <3>1, <3>2, FiniteGreatest
    <2>4. \A q \in M : m[r] <= m[q]
        BY <2>1, <2>3
    <2>5. r \in Kept(v)
        BY <1>3, <1>5, <1>7, <2>4, LeastIsFirst
    <2>6. \A q \in M : q.score <= r.score
        BY <1>1, <1>3, <2>4, RankFacts
    <2> QED BY <2>5, <2>6
<1> QED BY <1>8, <1>9, <1>10, <1>11 DEF M

LEMMA TakenFacts ==
    ASSUME FoundOK, NEW v \in VideoIds, TotalRegions \in Nat, TotalRegions <= MaxTotal
    PROVE  /\ Taken(v) \subseteq Kept(v) /\ IsFiniteSet(Taken(v)) /\ Cardinality(Taken(v)) \in Nat
           /\ Cardinality(Taken(v)) <= MaxTotal - TotalRegions
           /\ Cardinality(Taken(v)) <= MaxPerVideo
           /\ Cardinality(Kept(v)) <= MaxTotal - TotalRegions => Taken(v) = Kept(v)
<1> DEFINE K == Kept(v)
           n == MaxTotal - TotalRegions
           m == [r \in K |-> r.first]
<1>1. /\ IsFiniteSet(K) /\ K \subseteq Regions /\ \A r, q \in K : r.first = q.first => r = q
      /\ Cardinality(K) <= MaxPerVideo /\ Cardinality(K) \in Nat
    BY KeptFacts, MergedFacts
<1>2. Taken(v) = {r \in K : Cardinality({q \in K : q.first < r.first}) < n}
    BY DEF Taken, FirstBy
<1>3. n \in Nat /\ MaxPerVideo \in Nat
    BY Constants
<1> HIDE DEF K, n
<1>4. \A r \in K : r.first \in Int
    <2>1. \A r \in Regions : r.first \in Ordinals
        BY DEF Regions
    <2> QED BY <1>1, <2>1, FramesAreNumbers
<1>5. m \in [K -> Int] /\ \A r \in K : m[r] = r.first
    BY <1>4
<1>6. \A r \in K : {q \in K : q.first < r.first} = Before(K, m, r)
    BY <1>5 DEF Before
<1> HIDE DEF m
<1>7. Taken(v) = FirstOf(K, m, n)
    BY <1>2, <1>6 DEF FirstOf
<1>8. \A r, q \in K : m[r] = m[q] => r = q
    BY <1>1, <1>5
<1>9. Cardinality(Taken(v)) <= n
    BY <1>1, <1>3, <1>5, <1>7, <1>8, FirstAreNoMore
<1>10. Taken(v) \subseteq K
    BY <1>7 DEF FirstOf
<1>11. IsFiniteSet(Taken(v)) /\ Cardinality(Taken(v)) \in Nat /\ Cardinality(Taken(v)) <= Cardinality(K)
    BY <1>1, <1>10, FS_Subset, FS_CardinalityType
<1>12. Cardinality(K) <= n => Taken(v) = K
    BY <1>1, <1>3, <1>5, <1>7, FirstOfAll
<1>13. Cardinality(Taken(v)) <= MaxPerVideo
    BY <1>1, <1>3, <1>11
<1> QED BY <1>9, <1>10, <1>11, <1>12, <1>13 DEF K, n

LEMMA Quotients ==
    ASSUME NEW x \in Nat, NEW d \in Nat \ {0}
    PROVE  /\ x \div d \in Nat /\ x % d \in 0..(d - 1)
           /\ x = d * (x \div d) + (x % d)
<1>1. x \div d \in Nat
    OBVIOUS
<1>2. x % d \in 0..(d - 1)
    OBVIOUS
<1>3. x = d * (x \div d) + (x % d)
    OBVIOUS
<1> QED BY <1>1, <1>2, <1>3

LEMMA ProductsGrow ==
    ASSUME NEW a \in Nat, NEW b \in Nat, NEW d \in Nat, a <= b
    PROVE  a * d <= b * d /\ d * a <= d * b /\ a * d \in Nat /\ d * a = a * d
    OBVIOUS

\* What a quotient is below.
LEMMA QuotientBound ==
    ASSUME NEW x \in Nat, NEW d \in Nat \ {0}, NEW n \in Nat, x <= d * n
    PROVE  x \div d <= n
<1> DEFINE q == x \div d
<1>1. q \in Nat /\ d * q <= x
    <2> DEFINE r == x % d
    <2>1. q \in Nat /\ r \in 0..(d - 1) /\ x = d * q + r
        BY Quotients
    <2> HIDE DEF q, r
    <2>2. d * q \in Nat
        BY <2>1
    <2> QED BY <2>1, <2>2
<1> HIDE DEF q
<1>2. q <= n
    <2> SUFFICES ASSUME n + 1 <= q PROVE FALSE
        BY <1>1
    <2>1. d * (n + 1) <= d * q
        BY <1>1, ProductsGrow
    <2>2. d * (n + 1) = d * n + d /\ d * n \in Nat /\ d * q \in Nat
        BY <1>1
    <2> QED BY <1>1, <2>1, <2>2
<1> QED BY <1>2 DEF q

\* A region has one frame more than the limit at most.
LEMMA TargetsAreFew ==
    ASSUME NEW r \in Regions, r.first <= r.last
    PROVE  Targets(r) \subseteq r.first..r.last /\ Cardinality(Targets(r)) <= MaxFrames + 1
<1> DEFINE length == r.last - r.first
           d == Step(r)
           up == (length + MaxFrames - 1) \div MaxFrames
<1>1. r.first \in Nat /\ r.last \in Nat /\ length \in Nat
    <2>1. r.first \in Ordinals /\ r.last \in Ordinals
        BY DEF Regions
    <2> QED BY <2>1, FramesAreNumbers
<1>2. Interval \in Nat \ {0} /\ MaxFrames \in Nat \ {0}
    BY Constants
<1>3. d = IF length \div Interval + 1 > MaxFrames THEN Max({1, up}) ELSE Interval
    BY DEF Step
<1>4. Targets(r) = {f \in r.first..r.last : (f - r.first) % d = 0}
    BY DEF Targets
<1> DEFINE a == r.first
           b == r.last
<1>5. a \in Nat /\ b \in Nat /\ a <= b /\ length = b - a
    BY <1>1
<1> HIDE DEF d, up, length, a, b
<1>6. up \in Nat /\ length <= MaxFrames * up
    <2> DEFINE x == length + MaxFrames - 1
               q == x \div MaxFrames
               e == x % MaxFrames
    <2>1. x \in Nat
        BY <1>1, <1>2
    <2>2. q \in Nat /\ e \in 0..(MaxFrames - 1) /\ x = MaxFrames * q + e
        <3> HIDE DEF x
        <3> QED BY <1>2, <2>1, Quotients
    <2>3. up = q
        BY DEF up
    <2> HIDE DEF q, e
    <2>4. MaxFrames * q \in Nat
        BY <1>2, <2>2
    <2> QED BY <1>1, <1>2, <2>2, <2>3, <2>4
<1>7. d \in Nat \ {0} /\ length \div d <= MaxFrames /\ length \div d \in Nat
    <2>1. CASE length \div Interval + 1 > MaxFrames
        <3>1. d = IF 1 < up THEN up ELSE 1
            BY <1>3, <1>6, <2>1, TwoNumbers
        <3>2. d \in Nat \ {0} /\ up <= d
            BY <1>6, <3>1
        <3>3. MaxFrames * up <= MaxFrames * d /\ MaxFrames * d = d * MaxFrames /\ MaxFrames * up \in Nat /\ MaxFrames * d \in Nat
            BY <1>2, <1>6, <3>2, ProductsGrow
        <3>4. length <= d * MaxFrames
            BY <1>1, <1>6, <3>3
        <3> QED BY <1>1, <1>2, <3>2, <3>4, QuotientBound, Quotients
    <2>2. CASE ~(length \div Interval + 1 > MaxFrames)
        <3>1. d = Interval /\ length \div Interval \in Nat
            BY <1>1, <1>2, <1>3, <2>2, Quotients
        <3> DEFINE q == length \div Interval
        <3>2. q \in Nat /\ ~(q + 1 > MaxFrames)
            BY <2>2, <3>1
        <3> HIDE DEF q
        <3>3. q <= MaxFrames
            BY <1>2, <3>2
        <3> QED BY <1>2, <3>1, <3>2, <3>3 DEF q
    <2> QED BY <2>1, <2>2
<1>8. Targets(r) = {f \in a..b : (f - a) % d = 0}
    BY <1>4 DEF a, b
<1> DEFINE T == {f \in a..b : (f - a) % d = 0}
           n == length \div d
           m == [f \in T |-> (f - a) \div d]
<1>9. \A f \in T : f \in a..b /\ f - a \in Nat /\ f - a <= length /\ (f - a) % d = 0
    BY <1>5
<1> HIDE DEF T
<1>10. \A f \in T : m[f] \in 0..n /\ f - a = d * m[f]
    <2> SUFFICES ASSUME NEW f \in T PROVE m[f] \in 0..n /\ f - a = d * m[f]
        OBVIOUS
    <2> DEFINE x == f - a
               k == x \div d
               e == x % d
               c == length % d
    <2>1. x \in Nat /\ x <= length /\ e = 0
        BY <1>9
    <2> HIDE DEF x
    <2>2. k \in Nat /\ x = d * k + e
        BY <1>7, <2>1, Quotients
    <2>3. n \in Nat /\ c \in 0..(d - 1) /\ length = d * n + c
        BY <1>1, <1>7, Quotients DEF length, a, b
    <2>4. m[f] = k
        BY DEF x
    <2> HIDE DEF k, e, c, n, m
    <2>5. d * k \in Nat /\ d * n \in Nat /\ x = d * k
        BY <1>7, <2>1, <2>2, <2>3
    <2>6. k <= n
        <3> SUFFICES ASSUME n + 1 <= k PROVE FALSE
            BY <2>2, <2>3
        <3>1. d * (n + 1) <= d * k
            BY <1>7, <2>2, <2>3, ProductsGrow
        <3>2. d * (n + 1) = d * n + d
            BY <1>7, <2>3
        <3> QED BY <1>7, <2>1, <2>3, <2>5, <3>1, <3>2
    <2> QED BY <2>2, <2>3, <2>4, <2>5, <2>6 DEF x
<1>11. m \in Injection(T, 0..n)
    <2>1. m \in [T -> 0..n]
        BY <1>10
    <2>2. \A f, g \in T : m[f] = m[g] => f = g
        <3> SUFFICES ASSUME NEW f \in T, NEW g \in T, m[f] = m[g] PROVE f = g
            OBVIOUS
        <3>1. f - a = d * m[f] /\ g - a = d * m[g] /\ f \in a..b /\ g \in a..b
            BY <1>9, <1>10
        <3>2. f - a = g - a
            <4> HIDE DEF m
            <4> QED BY <3>1
        <3> QED BY <1>5, <3>1, <3>2
    <2> HIDE DEF m
    <2> QED BY <2>1, <2>2 DEF Injection, IsInjective
<1>12. n \in Nat /\ n <= MaxFrames
    BY <1>7
<1> HIDE DEF m, n
<1>13. IsFiniteSet(0..n) /\ Cardinality(0..n) = n + 1
    BY <1>12, FS_Interval
<1>14. IsFiniteSet(T) /\ Cardinality(T) <= Cardinality(0..n)
    BY <1>11, <1>13, FS_Injection
<1>15. Cardinality(T) \in Nat
    BY <1>14, FS_CardinalityType
<1>16. Cardinality(T) <= MaxFrames + 1
    BY <1>2, <1>12, <1>13, <1>14, <1>15
<1> QED BY <1>8, <1>9, <1>16 DEF T, a, b

-----------------------------------------------------------------------------
(* The number of regions *)

Pairs == UNION {{v} \X regions[v] : v \in VideoIds}

LEMMA PairsAreFinite ==
    ASSUME \A v \in VideoIds : IsFiniteSet(regions[v])
    PROVE  IsFiniteSet(Pairs) /\ TotalRegions \in Nat /\ TotalRegions = Cardinality(Pairs)
<1> DEFINE m == [v \in VideoIds |-> {v} \X regions[v]]
           all == {m[v] : v \in VideoIds}
<1>1. Pairs = UNION all
    BY DEF Pairs
<1>2. \A C \in all : IsFiniteSet(C)
    <2> SUFFICES ASSUME NEW v \in VideoIds PROVE IsFiniteSet({v} \X regions[v])
        OBVIOUS
    <2>1. IsFiniteSet({v}) /\ IsFiniteSet(regions[v])
        BY FS_Singleton
    <2> DEFINE S == {v}
               T == regions[v]
    <2> HIDE DEF S, T
    <2>2. IsFiniteSet(S \X T)
        BY <2>1, FS_Product, Zenon DEF S, T
    <2> QED BY <2>2 DEF S, T
<1> HIDE DEF m
<1>3. IsFiniteSet(all)
    BY Constants, ImageIsFinite
<1> HIDE DEF all
<1>4. IsFiniteSet(UNION all)
    BY <1>2, <1>3, FS_UNION
<1>5. TotalRegions = Cardinality(Pairs)
    BY DEF TotalRegions, Pairs
<1> QED BY <1>1, <1>4, <1>5, FS_CardinalityType

LEMMA ProductWithOne ==
    ASSUME NEW x, NEW T, IsFiniteSet(T)
    PROVE  IsFiniteSet({x} \X T) /\ Cardinality({x} \X T) = Cardinality(T)
<1> DEFINE S == {x}
<1>1. IsFiniteSet(S) /\ Cardinality(S) = 1
    BY FS_Singleton
<1> HIDE DEF S
<1>2. IsFiniteSet(S \X T) /\ Cardinality(S \X T) = Cardinality(S) * Cardinality(T)
    BY <1>1, FS_Product, Zenon
<1>3. Cardinality(T) \in Nat
    BY FS_CardinalityType
<1> QED BY <1>1, <1>2, <1>3 DEF S

LEMMA TotalGrows ==
    ASSUME \A v \in VideoIds : IsFiniteSet(regions[v]), DOMAIN regions = VideoIds,
           NEW v \in VideoIds, regions[v] = {}, NEW T, IsFiniteSet(T), regions' = [regions EXCEPT ![v] = T]
    PROVE  TotalRegions' = TotalRegions + Cardinality(T)
<1> DEFINE new == {v} \X T
<1>1. \A w \in VideoIds : regions'[w] = IF w = v THEN T ELSE regions[w]
    OBVIOUS
<1>2. Pairs' = Pairs \cup new
    <2>1. Pairs' = UNION {{w} \X regions'[w] : w \in VideoIds}
        BY DEF Pairs
    <2>2. ASSUME NEW x PROVE x \in UNION {{w} \X regions'[w] : w \in VideoIds} <=> x \in Pairs \/ x \in new
        <3>1. x \in UNION {{w} \X regions'[w] : w \in VideoIds} <=> \E w \in VideoIds : x \in {w} \X regions'[w]
            OBVIOUS
        <3>2. x \in Pairs <=> \E w \in VideoIds : x \in {w} \X regions[w]
            BY DEF Pairs
        <3>3. \A w \in VideoIds : w # v => {w} \X regions'[w] = {w} \X regions[w]
            BY <1>1
        <3>4. {v} \X regions'[v] = new /\ {v} \X regions[v] = {}
            BY <1>1
        <3> HIDE DEF new
        <3> QED BY <3>1, <3>2, <3>3, <3>4
    <2> HIDE DEF new
    <2> QED BY <2>1, <2>2
<1>3. Pairs \cap new = {}
    <2> SUFFICES ASSUME NEW x \in new, x \in Pairs PROVE FALSE
        OBVIOUS
    <2>1. PICK w \in VideoIds : x \in {w} \X regions[w]
        BY DEF Pairs
    <2>2. x[1] = w /\ x[2] \in regions[w] /\ x[1] = v
        BY <2>1
    <2> QED BY <2>2
<1>4. IsFiniteSet(Pairs) /\ TotalRegions = Cardinality(Pairs) /\ TotalRegions \in Nat
    BY PairsAreFinite
<1>5. IsFiniteSet(new) /\ Cardinality(new) = Cardinality(T)
    BY ProductWithOne
<1>6. TotalRegions' = Cardinality(Pairs')
    BY DEF TotalRegions, Pairs
<1> HIDE DEF new
<1>7. Cardinality(Pairs \cup new) = Cardinality(Pairs) + Cardinality(new) - Cardinality(Pairs \cap new)
    BY <1>4, <1>5, FS_Union
<1>8. Cardinality(Pairs \cap new) = 0 /\ Cardinality(T) \in Nat
    BY <1>3, <1>5, FS_EmptySet, FS_CardinalityType
<1>9. TotalRegions' = TotalRegions + Cardinality(T) - 0
    BY <1>2, <1>4, <1>5, <1>6, <1>7, <1>8
<1> QED BY <1>4, <1>8, <1>9

-----------------------------------------------------------------------------
(* The best of a set of sequences of equal length                          *)

LEMMA NotAfterIsTotal ==
    ASSUME NEW n \in Nat, NEW p \in [1..n -> Int], NEW q \in [1..n -> Int]
    PROVE  NotAfter(p, q) \/ NotAfter(q, p)
<1> SUFFICES ASSUME p # q PROVE NotAfter(p, q) \/ NotAfter(q, p)
    BY DEF NotAfter
<1> DEFINE D == {i \in 1..n : p[i] # q[i]}
<1>1. D # {}
    OBVIOUS
<1>2. PICK i \in D : \A j \in D : i <= j
    <2>1. D \in SUBSET Nat
        OBVIOUS
    <2> HIDE DEF D
    <2> QED BY <1>1, <2>1, LeastNumber
<1>3. i \in 1..n /\ p[i] # q[i]
    BY <1>2
<1>4. \A j \in 1..(i - 1) : p[j] = q[j]
    <2> SUFFICES ASSUME NEW j \in 1..(i - 1), p[j] # q[j] PROVE FALSE
        OBVIOUS
    <2>1. j \in D /\ ~(i <= j)
        BY <1>3
    <2> QED BY <1>2, <2>1
<1>5. p[i] < q[i] \/ q[i] < p[i]
    <2>1. p[i] \in Int /\ q[i] \in Int
        BY <1>3
    <2> QED BY <1>3, <2>1
<1>6. i \in DOMAIN p /\ i \in DOMAIN q
    BY <1>3
<1>7. \A j \in 1..(i - 1) : q[j] = p[j]
    BY <1>4
<1> QED BY <1>4, <1>5, <1>6, <1>7 DEF NotAfter

LEMMA NotAfterIsTransitive ==
    ASSUME NEW n \in Nat, NEW p \in [1..n -> Int], NEW q \in [1..n -> Int], NEW r \in [1..n -> Int],
           NotAfter(p, q), NotAfter(q, r)
    PROVE  NotAfter(p, r)
<1>1. CASE p = q \/ q = r
    BY <1>1
<1>2. CASE p # q /\ q # r
    <2>1. PICK i \in 1..n : p[i] < q[i] /\ \A l \in 1..(i - 1) : p[l] = q[l]
        BY <1>2 DEF NotAfter
    <2>2. PICK j \in 1..n : q[j] < r[j] /\ \A l \in 1..(j - 1) : q[l] = r[l]
        BY <1>2 DEF NotAfter
    <2>3. p[i] \in Int /\ q[i] \in Int /\ r[i] \in Int /\ p[j] \in Int /\ q[j] \in Int /\ r[j] \in Int
        BY <2>1, <2>2
    <2>4. CASE i < j
        <3>1. i \in 1..(j - 1)
            BY <2>1, <2>2, <2>4
        <3>2. p[i] < r[i]
            BY <2>1, <2>2, <3>1
        <3>3. \A l \in 1..(i - 1) : l \in 1..(j - 1)
            BY <2>1, <2>2, <2>4
        <3>4. \A l \in 1..(i - 1) : p[l] = r[l]
            BY <2>1, <2>2, <3>3
        <3> QED BY <2>1, <3>2, <3>4 DEF NotAfter
    <2>5. CASE i = j
        <3>1. p[i] < r[i]
            BY <2>1, <2>2, <2>3, <2>5
        <3>2. \A l \in 1..(i - 1) : p[l] = r[l]
            BY <2>1, <2>2, <2>5
        <3> QED BY <2>1, <3>1, <3>2 DEF NotAfter
    <2>6. CASE j < i
        <3>1. j \in 1..(i - 1)
            BY <2>1, <2>2, <2>6
        <3>2. p[j] < r[j]
            BY <2>1, <2>2, <3>1
        <3>3. \A l \in 1..(j - 1) : l \in 1..(i - 1)
            BY <2>1, <2>2, <2>6
        <3>4. \A l \in 1..(j - 1) : p[l] = r[l]
            BY <2>1, <2>2, <3>3
        <3> QED BY <2>2, <3>2, <3>4 DEF NotAfter
    <2> QED BY <2>4, <2>5, <2>6
<1> QED BY <1>1, <1>2

LEMMA BestIsBest ==
    ASSUME NEW X, IsFiniteSet(X), X # {}, NEW n \in Nat,
           \A x \in X : x.score \in Int /\ x.path \in [1..n -> Int]
    PROVE  Best(X) \in X /\ \A y \in X : y.score <= Best(X).score
<1> DEFINE Better(x, y) == x.score > y.score \/ (x.score = y.score /\ NotAfter(x.path, y.path))
           R == {p \in X \X X : Better(p[1], p[2])}
<1>1. \A x, y \in X : <<x, y>> \in R <=> Better(x, y)
    <2> HIDE DEF Better
    <2> QED OBVIOUS
<1> HIDE DEF R
<1>2. ASSUME NEW x \in X, NEW y \in X PROVE <<x, y>> \in R \/ <<y, x>> \in R
    <2>1. NotAfter(x.path, y.path) \/ NotAfter(y.path, x.path)
        BY NotAfterIsTotal
    <2>2. x.score > y.score \/ y.score > x.score \/ (x.score = y.score /\ y.score = x.score)
        <3>1. x.score \in Int /\ y.score \in Int
            OBVIOUS
        <3> QED BY <3>1
    <2>3. Better(x, y) \/ Better(y, x)
        BY <2>1, <2>2
    <2> QED BY <1>1, <2>3
<1>3. ASSUME NEW x \in X, NEW y \in X, NEW z \in X, <<x, y>> \in R, <<y, z>> \in R PROVE <<x, z>> \in R
    <2>1. Better(x, y) /\ Better(y, z)
        <3> HIDE DEF Better
        <3> QED BY <1>1, <1>3
    <2>2. x.score \in Int /\ y.score \in Int /\ z.score \in Int
        OBVIOUS
    <2>3. x.score >= y.score /\ y.score >= z.score
        BY <2>1, <2>2
    <2>4. CASE x.score = z.score
        <3>1. x.score = y.score /\ y.score = z.score
            BY <2>2, <2>3, <2>4
        <3>2. NotAfter(x.path, y.path) /\ NotAfter(y.path, z.path)
            BY <2>1, <2>2, <3>1
        <3>3. NotAfter(x.path, z.path)
            BY <3>2, NotAfterIsTransitive
        <3> QED BY <1>1, <2>4, <3>3
    <2>5. CASE x.score # z.score
        <3>1. x.score > z.score
            BY <2>2, <2>3, <2>5
        <3> QED BY <1>1, <3>1
    <2> QED BY <2>4, <2>5
<1>4. PICK x \in X : \A y \in X : <<x, y>> \in R
    BY <1>2, <1>3, FiniteGreatest
<1>5. \A y \in X : Better(x, y)
    <2> HIDE DEF Better
    <2> QED BY <1>1, <1>4
<1> DEFINE b == Best(X)
<1>6. b \in X /\ \A y \in X : Better(b, y)
    BY <1>5 DEF Best
<1> HIDE DEF b
<1>7. \A y \in X : y.score <= b.score
    <2> SUFFICES ASSUME NEW y \in X PROVE y.score <= b.score
        OBVIOUS
    <2>1. b.score \in Int /\ y.score \in Int
        BY <1>6
    <2>2. b.score > y.score \/ b.score = y.score
        BY <1>6
    <2> QED BY <2>1, <2>2
<1> QED BY <1>6, <1>7 DEF b

-----------------------------------------------------------------------------
(* TotalScore, unfolded                                                    *)

TotalBody(score, g) == [e \in Events |-> score[e] + (IF e = 1 THEN 0 ELSE g[e - 1])]
TotalOf(score) == CHOOSE g : g = TotalBody(score, g)

LEMMA TotalScoreIsTotal == \A score : TotalScore(score) = TotalOf(score)[Len(found)]
    BY DEF TotalScore, TotalOf, TotalBody

LEMMA TotalExists ==
    ASSUME FoundOK, NEW score
    PROVE  \E g : g = TotalBody(score, g)
<1> DEFINE N == Len(found)
           Sol(m, g) == \A e \in 1..m : g[e] = score[e] + (IF e = 1 THEN 0 ELSE g[e - 1])
           Bad == {m \in 1..N : ~\E g : Sol(m, g)}
<1>1. N \in Nat \ {0} /\ Events = 1..N
    BY DEF FoundOK
<1> HIDE DEF N
<1>2. Bad = {}
    <2> SUFFICES ASSUME Bad # {} PROVE FALSE
        OBVIOUS
    <2>1. PICK m \in Bad : \A k \in Bad : m <= k
        <3>1. Bad \in SUBSET Nat
            BY <1>1
        <3> HIDE DEF Bad
        <3> QED BY <3>1, LeastNumber
    <2>2. m \in 1..N /\ ~\E g : Sol(m, g)
        BY <2>1
    <2>3. CASE m = 1
        <3>1. Sol(1, [i \in 1..1 |-> score[1] + 0])
            OBVIOUS
        <3> HIDE DEF Sol
        <3> QED BY <2>2, <2>3, <3>1
    <2>4. CASE m # 1
        <3>1. m - 1 \in 1..N /\ ~(m <= m - 1)
            BY <1>1, <2>2, <2>4
        <3>2. ~(m - 1 \in Bad)
            BY <2>1, <3>1
        <3>3. PICK g : Sol(m - 1, g)
            BY <3>1, <3>2
        <3> DEFINE w == score[m] + g[m - 1]
                   h == [i \in 1..m |-> IF i = m THEN w ELSE g[i]]
        <3>4. \A i \in 1..m : h[i] = IF i = m THEN w ELSE g[i]
            OBVIOUS
        <3> HIDE DEF h
        <3>5. ASSUME NEW e \in 1..m PROVE h[e] = score[e] + (IF e = 1 THEN 0 ELSE h[e - 1])
            <4>1. CASE e = m
                <5>1. m - 1 \in 1..m /\ m - 1 # m
                    BY <1>1, <3>1
                <5>2. h[m - 1] = g[m - 1]
                    BY <3>4, <5>1
                <5> QED BY <2>4, <3>4, <4>1, <5>2
            <4>2. CASE e # m
                <5>1. e \in 1..(m - 1) /\ (e # 1 => e - 1 \in 1..m /\ e - 1 # m)
                    BY <1>1, <2>2, <4>2
                <5>2. g[e] = score[e] + (IF e = 1 THEN 0 ELSE g[e - 1])
                    BY <3>3, <5>1
                <5>3. h[e] = g[e] /\ (e # 1 => h[e - 1] = g[e - 1])
                    BY <3>4, <4>2, <5>1
                <5> QED BY <5>2, <5>3
            <4> QED BY <4>1, <4>2
        <3>6. Sol(m, h)
            BY <3>5
        <3> HIDE DEF Sol
        <3> QED BY <2>2, <3>6
    <2> QED BY <2>3, <2>4
<1>3. PICK g : Sol(N, g)
    <2>1. N \in 1..N
        BY <1>1
    <2>2. N \notin Bad
        <3> HIDE DEF Bad
        <3> QED BY <1>2
    <2> HIDE DEF Sol
    <2> QED BY <2>1, <2>2
<1> DEFINE h == [e \in Events |-> g[e]]
<1>4. \A e \in Events : h[e] = g[e]
    OBVIOUS
<1>5. \A e \in Events : e # 1 => e - 1 \in Events
    BY <1>1
<1>6. \A e \in Events : g[e] = score[e] + (IF e = 1 THEN 0 ELSE g[e - 1])
    BY <1>1, <1>3
<1>7. h = TotalBody(score, h)
    <2>1. ASSUME NEW e \in Events PROVE g[e] = score[e] + (IF e = 1 THEN 0 ELSE h[e - 1])
        <3> HIDE DEF h
        <3> QED BY <1>4, <1>5, <1>6
    <2> QED BY <2>1 DEF TotalBody
<1> QED BY <1>7

LEMMA TotalUnfolded ==
    ASSUME FoundOK, NEW score
    PROVE  \A e \in Events : TotalOf(score)[e] = score[e] + (IF e = 1 THEN 0 ELSE TotalOf(score)[e - 1])
<1>1. TotalOf(score) = TotalBody(score, TotalOf(score))
    <2>1. \E g : g = TotalBody(score, g)
        BY TotalExists
    <2> QED BY <2>1 DEF TotalOf
<1> DEFINE t == TotalOf(score)
<1> HIDE DEF t
<1>2. t = [e \in Events |-> score[e] + (IF e = 1 THEN 0 ELSE t[e - 1])]
    BY <1>1 DEF TotalBody, t
<1>3. \A e \in Events : t[e] = score[e] + (IF e = 1 THEN 0 ELSE t[e - 1])
    BY <1>2
<1> QED BY <1>3 DEF t

-----------------------------------------------------------------------------
(* The first events of a sequence, and the sum of their scores             *)

CandidateLists(P) ==
    \A e \in Events : /\ P[e] \subseteq Candidates /\ IsFiniteSet(P[e])
                      /\ \A c, d \in P[e] : c.video = d.video /\ c.frame = d.frame => c = d

ScoreAt(C, v, f) == (CHOOSE c \in C : c.video = v /\ c.frame = f).score

IsPath(P, v, e, p) ==
    \A i \in 1..e : /\ p[i] \in Ordinals
                    /\ \E c \in P[i] : c.video = v /\ c.frame = p[i]
                    /\ i # 1 => NearTo(p[i] - p[i - 1])

IsSum(P, v, e, p, t) ==
    \A i \in 1..e : t[i] \in Int /\ t[i] = ScoreAt(P[i], v, p[i]) + (IF i = 1 THEN 0 ELSE t[i - 1])

LEMMA CandidateFacts ==
    ASSUME NEW c \in Candidates
    PROVE  /\ c.video \in VideoIds /\ c.frame \in Ordinals /\ c.score \in Scores
           /\ c.frame \in Nat /\ c.score \in Int
<1>1. c.video \in VideoIds /\ c.frame \in Ordinals /\ c.score \in Scores
    BY DEF Candidates
<1> QED BY <1>1, FramesAreNumbers

LEMMA ScoreIsOfCandidate ==
    ASSUME NEW P, CandidateLists(P), NEW e \in Events, NEW c \in P[e]
    PROVE  ScoreAt(P[e], c.video, c.frame) = c.score /\ c.score \in Int
<1>1. \A d \in P[e] : d.video = c.video /\ d.frame = c.frame => d = c
    BY DEF CandidateLists
<1> DEFINE d == CHOOSE x \in P[e] : x.video = c.video /\ x.frame = c.frame
<1>2. d \in P[e] /\ d.video = c.video /\ d.frame = c.frame
    OBVIOUS
<1>3. ScoreAt(P[e], c.video, c.frame) = d.score
    BY DEF ScoreAt
<1> HIDE DEF d
<1>4. d = c
    BY <1>1, <1>2
<1>5. c \in Candidates
    BY DEF CandidateLists
<1> QED BY <1>3, <1>4, <1>5, CandidateFacts

LEMMA PathScores ==
    ASSUME FoundOK, NEW P, CandidateLists(P), NEW v, NEW e \in Events, NEW p, IsPath(P, v, e, p), NEW i \in 1..e
    PROVE  ScoreAt(P[i], v, p[i]) \in Int
<1>1. i \in Events
    BY DEF FoundOK
<1>2. PICK c \in P[i] : c.video = v /\ c.frame = p[i]
    BY DEF IsPath
<1> QED BY <1>1, <1>2, ScoreIsOfCandidate

\* Sums over lists with better scores are not less.
LEMMA SumsAreMonotone ==
    ASSUME FoundOK, NEW P, NEW Q, NEW v, NEW e \in Events, NEW p, NEW t, NEW u,
           IsSum(P, v, e, p, t), IsSum(Q, v, e, p, u),
           \A i \in 1..e : ScoreAt(P[i], v, p[i]) \in Int /\ ScoreAt(Q[i], v, p[i]) \in Int
                           /\ ScoreAt(P[i], v, p[i]) <= ScoreAt(Q[i], v, p[i])
    PROVE  t[e] <= u[e]
<1> DEFINE Bad == {i \in 1..e : ~(t[i] <= u[i])}
<1>1. e \in Nat \ {0}
    BY DEF FoundOK
<1>2. Bad = {}
    <2> SUFFICES ASSUME Bad # {} PROVE FALSE
        OBVIOUS
    <2>1. PICK i \in Bad : \A k \in Bad : i <= k
        <3>1. Bad \in SUBSET Nat
            BY <1>1
        <3> HIDE DEF Bad
        <3> QED BY <3>1, LeastNumber
    <2>2. i \in 1..e /\ ~(t[i] <= u[i])
        BY <2>1
    <2> DEFINE a == ScoreAt(P[i], v, p[i])
               b == ScoreAt(Q[i], v, p[i])
    <2>3. a \in Int /\ b \in Int /\ a <= b
        BY <2>2
    <2>4. /\ t[i] \in Int /\ t[i] = a + (IF i = 1 THEN 0 ELSE t[i - 1])
          /\ u[i] \in Int /\ u[i] = b + (IF i = 1 THEN 0 ELSE u[i - 1])
        BY <2>2 DEF IsSum
    <2> HIDE DEF a, b
    <2>5. CASE i = 1
        BY <2>2, <2>3, <2>4, <2>5
    <2>6. CASE i # 1
        <3>1. i - 1 \in 1..e /\ ~(i <= i - 1)
            BY <1>1, <2>2, <2>6
        <3>2. t[i - 1] <= u[i - 1]
            BY <2>1, <3>1
        <3>3. t[i - 1] \in Int /\ u[i - 1] \in Int
            BY <3>1 DEF IsSum
        <3> QED BY <2>2, <2>3, <2>4, <2>6, <3>2, <3>3
    <2> QED BY <2>5, <2>6
<1> QED BY <1>1, <1>2

LEMMA SumIsUnique ==
    ASSUME FoundOK, NEW P, CandidateLists(P), NEW v, NEW e \in Events, NEW p, IsPath(P, v, e, p), NEW t, NEW u,
           IsSum(P, v, e, p, t), IsSum(P, v, e, p, u)
    PROVE  t[e] = u[e]
<1>1. \A i \in 1..e : ScoreAt(P[i], v, p[i]) \in Int /\ ScoreAt(P[i], v, p[i]) <= ScoreAt(P[i], v, p[i])
    BY PathScores
<1>2. t[e] <= u[e] /\ u[e] <= t[e]
    BY <1>1, SumsAreMonotone
<1>3. t[e] \in Int /\ u[e] \in Int
    <2>1. e \in 1..e
        BY DEF FoundOK
    <2> QED BY <2>1 DEF IsSum
<1> QED BY <1>2, <1>3

ScoresOn(P, v, p) == [e \in Events |-> ScoreAt(P[e], v, p[e])]

LEMMA TotalIsNumber ==
    ASSUME FoundOK, NEW score, \A e \in Events : score[e] \in Int
    PROVE  \A e \in Events : TotalOf(score)[e] \in Int
<1> DEFINE t == TotalOf(score)
           Bad == {i \in Events : t[i] \notin Int}
<1>1. Events \subseteq Nat /\ \A i \in Events : i # 1 => i - 1 \in Events /\ ~(i <= i - 1)
    BY DEF FoundOK
<1>2. \A e \in Events : t[e] = score[e] + (IF e = 1 THEN 0 ELSE t[e - 1])
    BY TotalUnfolded
<1> HIDE DEF t
<1>3. Bad = {}
    <2> SUFFICES ASSUME Bad # {} PROVE FALSE
        OBVIOUS
    <2>1. PICK i \in Bad : \A k \in Bad : i <= k
        <3>1. Bad \in SUBSET Nat
            BY <1>1
        <3> HIDE DEF Bad
        <3> QED BY <3>1, LeastNumber
    <2>2. i \in Events /\ t[i] \notin Int /\ score[i] \in Int
        BY <2>1
    <2>3. t[i] = score[i] + (IF i = 1 THEN 0 ELSE t[i - 1])
        BY <1>2, <2>2
    <2>4. CASE i = 1
        BY <2>2, <2>3, <2>4
    <2>5. CASE i # 1
        <3>1. t[i - 1] \in Int
            BY <1>1, <2>1, <2>2, <2>5
        <3> QED BY <2>2, <2>3, <2>5, <3>1
    <2> QED BY <2>4, <2>5
<1> QED BY <1>3 DEF t

\* The sum of a whole sequence is in its value.
LEMMA PathHasSum ==
    ASSUME FoundOK, NEW P, CandidateLists(P), NEW v, NEW p, IsPath(P, v, Len(found), p)
    PROVE  IsSum(P, v, Len(found), p, TotalOf(ScoresOn(P, v, p)))
<1> DEFINE N == Len(found)
           t == TotalOf(ScoresOn(P, v, p))
<1>1. N \in Nat \ {0} /\ Events = 1..N /\ N \in Events
    BY DEF FoundOK
<1>2. \A e \in Events : t[e] = ScoresOn(P, v, p)[e] + (IF e = 1 THEN 0 ELSE t[e - 1])
    BY TotalUnfolded
<1>3. \A e \in Events : ScoresOn(P, v, p)[e] = ScoreAt(P[e], v, p[e])
    BY DEF ScoresOn
<1>4. \A e \in Events : ScoreAt(P[e], v, p[e]) \in Int
    BY <1>1, PathScores
<1>5. \A e \in Events : t[e] \in Int
    BY <1>3, <1>4, TotalIsNumber
<1> HIDE DEF N, t
<1>6. \A e \in Events : t[e] = ScoreAt(P[e], v, p[e]) + (IF e = 1 THEN 0 ELSE t[e - 1])
    BY <1>2, <1>3
<1> QED BY <1>1, <1>5, <1>6 DEF IsSum, N, t

LEMMA ValueIsSum ==
    ASSUME FoundOK, NEW P, CandidateLists(P), NEW v, NEW p, IsPath(P, v, Len(found), p), NEW t,
           IsSum(P, v, Len(found), p, t)
    PROVE  Value(P, v, p) = t[Len(found)] - Penalty * (p[Len(found)] - p[1])
<1>1. Value(P, v, p) = TotalScore(ScoresOn(P, v, p)) - Penalty * (p[Len(found)] - p[1])
    BY DEF Value, ScoresOn, ScoreAt
<1>2. TotalScore(ScoresOn(P, v, p)) = TotalOf(ScoresOn(P, v, p))[Len(found)]
    BY TotalScoreIsTotal
<1>3. Len(found) \in Events
    BY DEF FoundOK
<1>4. TotalOf(ScoresOn(P, v, p))[Len(found)] = t[Len(found)]
    BY <1>3, PathHasSum, SumIsUnique
<1> QED BY <1>1, <1>2, <1>4

LEMMA SequencesArePaths ==
    ASSUME FoundOK, NEW P, NEW v, NEW p
    PROVE  p \in Sequences(P, v, MaxGap) <=> p \in [Events -> Ordinals] /\ IsPath(P, v, Len(found), p)
<1>1. Len(found) \in Nat \ {0} /\ Events = 1..Len(found)
    BY DEF FoundOK
<1>2. ASSUME NEW e \in Events, e # 1, p \in [Events -> Ordinals]
      PROVE  NearTo(p[e] - p[e - 1]) <=> p[e - 1] < p[e] /\ (MaxGap # Absent => p[e] - p[e - 1] <= MaxGap)
    <2>1. e - 1 \in Events
        BY <1>1, <1>2
    <2>2. p[e] \in Int /\ p[e - 1] \in Int
        BY <1>2, <2>1, FramesAreNumbers
    <2> QED BY <2>2 DEF NearTo
<1>3. p \in Sequences(P, v, MaxGap) <=>
          /\ p \in [Events -> Ordinals]
          /\ \A e \in Events : \E c \in P[e] : c.video = v /\ c.frame = p[e]
          /\ \A e \in Events \ {1} : p[e - 1] < p[e] /\ (MaxGap # Absent => p[e] - p[e - 1] <= MaxGap)
    BY DEF Sequences
<1>4. IsPath(P, v, Len(found), p) <=>
          \A e \in Events : /\ p[e] \in Ordinals
                            /\ \E c \in P[e] : c.video = v /\ c.frame = p[e]
                            /\ e # 1 => NearTo(p[e] - p[e - 1])
    BY <1>1 DEF IsPath
<1>5. p \in [Events -> Ordinals] => \A e \in Events : p[e] \in Ordinals
    OBVIOUS
<1> QED BY <1>2, <1>3, <1>4, <1>5

-----------------------------------------------------------------------------
(* The rows of the dynamic program.  A row holds, for each candidate of its *)
(* event, a sequence that ends there and that no other one is better than.  *)

RowOK(v, e, row) ==
    /\ IsFiniteSet(row)
    /\ \A x \in row :
        /\ x.score \in Int /\ x.path \in Seq(Ordinals) /\ Len(x.path) = e
        /\ IsPath(pool, v, e, x.path)
        /\ \E t : IsSum(pool, v, e, x.path, t) /\ x.score = t[e] - Penalty * (x.path[e] - x.path[1])
    /\ \A p, t : IsPath(pool, v, e, p) /\ IsSum(pool, v, e, p, t) =>
           \E x \in row : x.path[e] = p[e] /\ t[e] - Penalty * (p[e] - p[1]) <= x.score

FirstRow(v) == {[score |-> c.score, path |-> <<c.frame>>] : c \in Of(pool[1], v)}
RowStep(v, e, prior) == {Best(X) : X \in {Extensions(prior, c) : c \in Of(pool[e], v)} \ {{}}}

LEMMA OfFacts ==
    ASSUME CandidateLists(pool), NEW e \in Events, NEW v
    PROVE  /\ IsFiniteSet(Of(pool[e], v)) /\ Of(pool[e], v) \subseteq pool[e]
           /\ \A c \in Of(pool[e], v) : c.video = v /\ c.frame \in Ordinals /\ c.frame \in Nat /\ c.score \in Int
                                        /\ ScoreAt(pool[e], v, c.frame) = c.score
<1>1. Of(pool[e], v) \subseteq pool[e] /\ \A c \in Of(pool[e], v) : c.video = v
    BY DEF Of
<1>2. IsFiniteSet(pool[e]) /\ pool[e] \subseteq Candidates
    BY DEF CandidateLists
<1>3. IsFiniteSet(Of(pool[e], v))
    BY <1>1, <1>2, FS_Subset
<1>4. \A c \in Of(pool[e], v) : c.frame \in Ordinals /\ c.frame \in Nat /\ c.score \in Int
    BY <1>1, <1>2, CandidateFacts
<1>5. \A c \in Of(pool[e], v) : ScoreAt(pool[e], v, c.frame) = c.score
    BY <1>1, ScoreIsOfCandidate
<1> QED BY <1>1, <1>3, <1>4, <1>5

LEMMA FirstRowIsOK ==
    ASSUME FoundOK, CandidateLists(pool), NEW v
    PROVE  RowOK(v, 1, FirstRow(v))
<1> DEFINE C == Of(pool[1], v)
           row == FirstRow(v)
<1>1. 1 \in Events
    BY DEF FoundOK
<1>2. /\ IsFiniteSet(C) /\ C \subseteq pool[1]
      /\ \A c \in C : c.video = v /\ c.frame \in Ordinals /\ c.frame \in Nat /\ c.score \in Int
                      /\ ScoreAt(pool[1], v, c.frame) = c.score
    BY <1>1, OfFacts
<1>3. row = {[score |-> c.score, path |-> <<c.frame>>] : c \in C}
    BY DEF FirstRow
<1>4. IsFiniteSet(row)
    <2> DEFINE m == [c \in C |-> [score |-> c.score, path |-> <<c.frame>>]]
    <2>1. {m[c] : c \in C} = row
        BY <1>3
    <2> HIDE DEF m
    <2>2. IsFiniteSet({m[c] : c \in C})
        <3> HIDE DEF C
        <3> QED BY <1>2, ImageIsFinite
    <2> QED BY <2>1, <2>2
<1>5. \A c \in pool[1] : c.video = v => c \in C
    BY DEF Of
<1> HIDE DEF C, row
<1>6. Penalty \in Nat
    BY Constants
<1>7. ASSUME NEW x \in row
      PROVE  /\ x.score \in Int /\ x.path \in Seq(Ordinals) /\ Len(x.path) = 1
             /\ IsPath(pool, v, 1, x.path)
             /\ \E t : IsSum(pool, v, 1, x.path, t) /\ x.score = t[1] - Penalty * (x.path[1] - x.path[1])
    <2>1. PICK c \in C : x = [score |-> c.score, path |-> <<c.frame>>]
        BY <1>3
    <2>2. x.score = c.score /\ x.path = <<c.frame>>
        BY <2>1
    <2>3. x.path \in Seq(Ordinals) /\ Len(x.path) = 1 /\ x.path[1] = c.frame
        BY <1>2, <2>2
    <2>4. IsPath(pool, v, 1, x.path)
        BY <1>2, <2>3 DEF IsPath
    <2> DEFINE t == [i \in 1..1 |-> c.score]
    <2>5. t[1] = c.score
        OBVIOUS
    <2> HIDE DEF t
    <2>6. IsSum(pool, v, 1, x.path, t)
        BY <1>2, <2>3, <2>5 DEF IsSum
    <2>7. Penalty * (x.path[1] - x.path[1]) = 0
        <3>1. x.path[1] - x.path[1] = 0
            BY <1>2, <2>3
        <3> QED BY <1>6, <3>1
    <2>8. x.score = t[1] - Penalty * (x.path[1] - x.path[1])
        BY <1>2, <2>2, <2>5, <2>7
    <2> QED BY <1>2, <2>2, <2>3, <2>4, <2>6, <2>8
<1>8. ASSUME NEW p, NEW t, IsPath(pool, v, 1, p), IsSum(pool, v, 1, p, t)
      PROVE  \E x \in row : x.path[1] = p[1] /\ t[1] - Penalty * (p[1] - p[1]) <= x.score
    <2>1. PICK c \in pool[1] : c.video = v /\ c.frame = p[1]
        BY <1>8 DEF IsPath
    <2>2. c \in C /\ t[1] = ScoreAt(pool[1], v, p[1]) + 0
        BY <1>5, <1>8, <2>1 DEF IsSum
    <2>3. t[1] = c.score /\ c.score \in Int /\ p[1] \in Nat
        BY <1>2, <2>1, <2>2
    <2> DEFINE x == [score |-> c.score, path |-> <<c.frame>>]
    <2>4. x \in row /\ x.path[1] = p[1] /\ x.score = t[1]
        BY <1>3, <2>1, <2>2, <2>3
    <2>5. Penalty * (p[1] - p[1]) = 0
        <3>1. p[1] - p[1] = 0
            BY <2>3
        <3> QED BY <1>6, <3>1
    <2> HIDE DEF x
    <2>6. t[1] - Penalty * (p[1] - p[1]) <= x.score
        BY <2>3, <2>4, <2>5
    <2> QED BY <2>4, <2>6
<1> QED BY <1>4, <1>7, <1>8 DEF RowOK, row

LEMMA OneMoreTerm ==
    ASSUME NEW i \in Int, NEW j \in Int, NEW k \in Int, NEW l \in Int, NEW m, NEW n,
           m = i + j, n = (k - i) + l - j
    PROVE  n \in Int /\ n = (k + l) - m
OBVIOUS

\* One more event: the sequences that end in candidate c.
ExtensionsOK(v, e, c, X) ==
    /\ IsFiniteSet(X)
    /\ \A x \in X :
        /\ x.score \in Int /\ x.path \in Seq(Ordinals) /\ Len(x.path) = e /\ x.path[e] = c.frame
        /\ IsPath(pool, v, e, x.path)
        /\ \E t : IsSum(pool, v, e, x.path, t) /\ x.score = t[e] - Penalty * (x.path[e] - x.path[1])

LEMMA ExtensionFacts ==
    ASSUME FoundOK, CandidateLists(pool), NEW v, NEW e \in Events, e # 1, NEW prior, RowOK(v, e - 1, prior),
           NEW c \in Of(pool[e], v)
    PROVE  ExtensionsOK(v, e, c, Extensions(prior, c))
<1> DEFINE d == e - 1
           X == Extensions(prior, c)
           near == {q \in prior : NearTo(c.frame - q.path[Len(q.path)])}
           Longer(p) == [score |-> p.score + c.score - Penalty * (c.frame - p.path[Len(p.path)]),
                         path |-> Append(p.path, c.frame)]
<1>1. e \in Nat /\ d \in Nat \ {0} /\ e = d + 1 /\ d \in Events
    BY DEF FoundOK
<1>2. /\ c.video = v /\ c.frame \in Ordinals /\ c.frame \in Nat /\ c.score \in Int
      /\ ScoreAt(pool[e], v, c.frame) = c.score /\ c \in pool[e]
    BY OfFacts
<1>3. X = {Longer(p) : p \in near}
    BY DEF Extensions
<1>4. near \subseteq prior /\ \A q \in near : NearTo(c.frame - q.path[Len(q.path)])
    OBVIOUS
<1>5. /\ IsFiniteSet(prior)
      /\ \A x \in prior :
            /\ x.score \in Int /\ x.path \in Seq(Ordinals) /\ Len(x.path) = d
            /\ IsPath(pool, v, d, x.path)
            /\ \E t : IsSum(pool, v, d, x.path, t) /\ x.score = t[d] - Penalty * (x.path[d] - x.path[1])
    BY DEF RowOK
<1> HIDE DEF d, near
<1>6. IsFiniteSet(X)
    <2>1. IsFiniteSet(near)
        BY <1>4, <1>5, FS_Subset
    <2> DEFINE m == [p \in near |-> Longer(p)]
    <2>2. {m[p] : p \in near} = X
        BY <1>3
    <2> HIDE DEF m, X
    <2>3. IsFiniteSet({m[p] : p \in near})
        BY <2>1, ImageIsFinite
    <2> QED BY <2>2, <2>3
<1>7. ASSUME NEW x \in X
      PROVE  /\ x.score \in Int /\ x.path \in Seq(Ordinals) /\ Len(x.path) = e /\ x.path[e] = c.frame
             /\ IsPath(pool, v, e, x.path)
             /\ \E t : IsSum(pool, v, e, x.path, t) /\ x.score = t[e] - Penalty * (x.path[e] - x.path[1])
    <2>1. PICK p \in near : x = Longer(p)
        BY <1>3
    <2> DEFINE q == p.path
               y == x.path
               g == c.frame - q[d]
    <2>2. /\ p \in prior /\ p.score \in Int /\ q \in Seq(Ordinals) /\ Len(q) = d /\ IsPath(pool, v, d, q)
        BY <1>4, <1>5
    <2>3. y = Append(q, c.frame) /\ x.score = p.score + c.score - Penalty * g
        BY <2>1, <2>2
    <2>4. PICK t : IsSum(pool, v, d, q, t) /\ p.score = t[d] - Penalty * (q[d] - q[1])
        BY <1>5, <2>2
    <2>5. NearTo(g)
        BY <1>4, <2>2
    <2> HIDE DEF q, y, g
    <2>6. y \in Seq(Ordinals) /\ Len(y) = e /\ y[e] = c.frame /\ \A i \in 1..d : y[i] = q[i]
        BY <1>1, <1>2, <2>2, <2>3
    <2>7. d \in 1..d /\ 1 \in 1..d /\ e \notin 1..d
        BY <1>1
    <2>8. q[d] \in Nat /\ q[1] \in Nat /\ t[d] \in Int
        <3>1. q[d] \in Ordinals /\ q[1] \in Ordinals /\ t[d] \in Int
            BY <2>2, <2>4, <2>7 DEF IsPath, IsSum
        <3> QED BY <3>1, FramesAreNumbers
    <2>9. IsPath(pool, v, e, y)
        <3> SUFFICES ASSUME NEW i \in 1..e
                     PROVE  /\ y[i] \in Ordinals
                            /\ \E a \in pool[i] : a.video = v /\ a.frame = y[i]
                            /\ i # 1 => NearTo(y[i] - y[i - 1])
            BY DEF IsPath
        <3>1. CASE i = e
            <4>1. y[e - 1] = q[d]
                BY <1>1, <2>6, <2>7
            <4>2. NearTo(y[e] - y[e - 1])
                BY <2>5, <2>6, <4>1 DEF g
            <4> QED BY <1>2, <2>6, <3>1, <4>2
        <3>2. CASE i # e
            <4>1. i \in 1..d /\ (i # 1 => i - 1 \in 1..d)
                BY <1>1, <3>2
            <4>2. y[i] = q[i] /\ (i # 1 => y[i - 1] = q[i - 1])
                BY <2>6, <4>1
            <4>3. /\ q[i] \in Ordinals
                  /\ \E a \in pool[i] : a.video = v /\ a.frame = q[i]
                  /\ i # 1 => NearTo(q[i] - q[i - 1])
                BY <2>2, <4>1 DEF IsPath
            <4> QED BY <4>2, <4>3
        <3> QED BY <3>1, <3>2
    <2> DEFINE u == [i \in 1..e |-> IF i = e THEN t[d] + c.score ELSE t[i]]
    <2>10. u[e] = t[d] + c.score /\ \A i \in 1..d : u[i] = t[i]
        <3>1. \A i \in 1..e : u[i] = IF i = e THEN t[d] + c.score ELSE t[i]
            OBVIOUS
        <3>2. e \in 1..e /\ \A i \in 1..d : i \in 1..e /\ i # e
            BY <1>1
        <3> HIDE DEF u
        <3> QED BY <3>1, <3>2
    <2> HIDE DEF u
    <2>11. IsSum(pool, v, e, y, u)
        <3> SUFFICES ASSUME NEW i \in 1..e
                     PROVE  u[i] \in Int /\ u[i] = ScoreAt(pool[i], v, y[i]) + (IF i = 1 THEN 0 ELSE u[i - 1])
            BY DEF IsSum
        <3>1. CASE i = e
            <4>1. u[e - 1] = t[d]
                BY <1>1, <2>7, <2>10
            <4>2. ScoreAt(pool[e], v, y[e]) = c.score
                BY <1>2, <2>6
            <4> QED BY <1>2, <2>8, <2>10, <3>1, <4>1, <4>2
        <3>2. CASE i # e
            <4>1. i \in 1..d /\ (i # 1 => i - 1 \in 1..d)
                BY <1>1, <3>2
            <4>2. y[i] = q[i] /\ u[i] = t[i] /\ (i # 1 => u[i - 1] = t[i - 1])
                BY <2>6, <2>10, <4>1
            <4>3. t[i] \in Int /\ t[i] = ScoreAt(pool[i], v, q[i]) + (IF i = 1 THEN 0 ELSE t[i - 1])
                BY <2>4, <4>1 DEF IsSum
            <4> QED BY <4>2, <4>3
        <3> QED BY <3>1, <3>2
    <2>12. x.score \in Int /\ x.score = u[e] - Penalty * (y[e] - y[1])
        <3> DEFINE k == q[d]
                   l == q[1]
                   f == c.frame
        <3>1. Penalty \in Nat /\ k \in Nat /\ l \in Nat /\ f \in Nat /\ c.score \in Int /\ t[d] \in Int
            BY <1>2, <2>8, Constants
        <3>2. x.score = (t[d] - Penalty * (k - l)) + c.score - Penalty * (f - k)
            BY <2>3, <2>4 DEF g
        <3>3. y[1] = l /\ y[e] = f
            BY <2>6, <2>7
        <3> HIDE DEF k, l, f
        <3>4. Penalty * (k - l) + Penalty * (f - k) = Penalty * (f - l)
            BY <3>1
        <3>5. Penalty * (k - l) \in Int /\ Penalty * (f - k) \in Int /\ Penalty * (f - l) \in Int
            BY <3>1
        <3> DEFINE before == Penalty * (k - l)
                   step == Penalty * (f - k)
                   whole == Penalty * (f - l)
                   a == t[d]
                   b == c.score
                   s == x.score
        <3>6. /\ before \in Int /\ step \in Int /\ whole = before + step /\ a \in Int /\ b \in Int
              /\ s = (a - before) + b - step
            <4>1. before \in Int /\ step \in Int
                BY <3>5
            <4>2. whole = before + step
                BY <3>4, Zenon
            <4>3. a \in Int /\ b \in Int
                BY <3>1, Zenon
            <4>4. s = (a - before) + b - step
                BY <3>2, Zenon
            <4> QED BY <4>1, <4>2, <4>3, <4>4, Zenon
        <3> HIDE DEF before, step, whole, a, b, s
        <3>7. s \in Int /\ s = (a + b) - whole
            BY <3>6, OneMoreTerm
        <3>8. u[e] = a + b
            BY <2>10, Zenon DEF a, b
        <3>9. whole = Penalty * (y[e] - y[1])
            BY <3>3, Zenon DEF whole
        <3> QED BY <3>7, <3>8, <3>9 DEF s
    <2> QED BY <2>6, <2>9, <2>11, <2>12 DEF y
<1> QED BY <1>6, <1>7 DEF ExtensionsOK

\* The penalty of two gaps is that of the whole.
LEMMA PenaltyIsLinear ==
    ASSUME NEW f \in Int, NEW k \in Int, NEW l \in Int
    PROVE  /\ Penalty * (k - l) \in Int /\ Penalty * (f - k) \in Int /\ Penalty * (f - l) \in Int
           /\ Penalty * (f - l) = Penalty * (k - l) + Penalty * (f - k)
<1>1. Penalty \in Int
    BY Constants
<1> QED BY <1>1

LEMMA LessWithOneMore ==
    ASSUME NEW i \in Int, NEW j \in Int, NEW k \in Int, NEW l \in Int, NEW m \in Int, NEW n,
           k - i <= m, n = i + j
    PROVE  (k + l) - n <= m + (l - j)
OBVIOUS

LEMMA ExtensionScore ==
    ASSUME NEW prior, NEW c, NEW x \in prior, NearTo(c.frame - x.path[Len(x.path)])
    PROVE  \E y \in Extensions(prior, c) :
               y.score = x.score + (c.score - Penalty * (c.frame - x.path[Len(x.path)]))
<1> DEFINE Longer(p) == [score |-> p.score + c.score - Penalty * (c.frame - p.path[Len(p.path)]),
                         path |-> Append(p.path, c.frame)]
<1>1. Extensions(prior, c) = {Longer(p) : p \in {q \in prior : NearTo(c.frame - q.path[Len(q.path)])}}
    BY DEF Extensions
<1>2. Longer(x).score = x.score + c.score - Penalty * (c.frame - x.path[Len(x.path)])
    OBVIOUS
<1> HIDE DEF Longer
<1>3. Longer(x) \in Extensions(prior, c)
    BY <1>1
<1> QED BY <1>2, <1>3

\* The rows of the program are right for one more event.
LEMMA StepIsOK ==
    ASSUME FoundOK, CandidateLists(pool), NEW v, NEW e \in Events, e # 1, NEW prior, RowOK(v, e - 1, prior)
    PROVE  RowOK(v, e, RowStep(v, e, prior))
<1> DEFINE d == e - 1
           C == Of(pool[e], v)
           row == RowStep(v, e, prior)
           m == [c \in C |-> Extensions(prior, c)]
           lists == {m[c] : c \in C}
           some == lists \ {{}}
<1>1. e \in Nat /\ d \in Nat \ {0} /\ e = d + 1 /\ d \in Events
    BY DEF FoundOK
<1>2. /\ IsFiniteSet(C) /\ C \subseteq pool[e]
      /\ \A c \in C : c.video = v /\ c.frame \in Ordinals /\ c.frame \in Nat /\ c.score \in Int
                      /\ ScoreAt(pool[e], v, c.frame) = c.score
    BY OfFacts
<1>3. \A c \in pool[e] : c.video = v => c \in C
    BY DEF Of
<1>4. ASSUME NEW c \in C
      PROVE  /\ IsFiniteSet(m[c])
             /\ \A x \in m[c] :
                /\ x.score \in Int /\ x.path \in Seq(Ordinals) /\ Len(x.path) = e /\ x.path[e] = c.frame
                /\ IsPath(pool, v, e, x.path)
                /\ \E t : IsSum(pool, v, e, x.path, t) /\ x.score = t[e] - Penalty * (x.path[e] - x.path[1])
    <2>1. m[c] = Extensions(prior, c)
        OBVIOUS
    <2>2. c \in Of(pool[e], v)
        OBVIOUS
    <2> HIDE DEF m, C
    <2>3. ExtensionsOK(v, e, c, Extensions(prior, c))
        BY <2>2, ExtensionFacts
    <2> QED BY <2>1, <2>3 DEF ExtensionsOK
<1>5. \A c \in C : m[c] = Extensions(prior, c)
    OBVIOUS
<1>6. row = {Best(X) : X \in some}
    <2>1. lists = {Extensions(prior, c) : c \in C}
        BY <1>5
    <2> HIDE DEF lists
    <2> QED BY <2>1 DEF RowStep
<1> HIDE DEF m, row, C
<1>7. IsFiniteSet(row)
    <2>1. IsFiniteSet(lists)
        BY <1>2, ImageIsFinite
    <2>2. IsFiniteSet(some)
        <3> HIDE DEF lists
        <3> QED BY <2>1, FS_Subset
    <2> DEFINE n == [X \in some |-> Best(X)]
    <2>3. {n[X] : X \in some} = row
        BY <1>6
    <2> HIDE DEF n, some
    <2>4. IsFiniteSet({n[X] : X \in some})
        BY <2>2, ImageIsFinite
    <2> QED BY <2>3, <2>4
<1>8. ASSUME NEW c \in C, m[c] # {}
      PROVE  Best(m[c]) \in m[c] /\ \A y \in m[c] : y.score <= Best(m[c]).score
    <2>1. \A x \in m[c] : x.score \in Int /\ x.path \in [1..e -> Int]
        <3> SUFFICES ASSUME NEW x \in m[c] PROVE x.score \in Int /\ x.path \in [1..e -> Int]
            OBVIOUS
        <3>1. x.score \in Int /\ x.path \in Seq(Ordinals) /\ Len(x.path) = e
            BY <1>4
        <3>2. x.path \in [1..e -> Ordinals]
            BY <3>1
        <3> QED BY <3>1, <3>2, FramesAreNumbers
    <2>2. IsFiniteSet(m[c])
        BY <1>4
    <2> DEFINE X == m[c]
    <2>3. IsFiniteSet(X) /\ X # {} /\ \A x \in X : x.score \in Int /\ x.path \in [1..e -> Int]
        BY <1>8, <2>1, <2>2
    <2> HIDE DEF X
    <2>4. Best(X) \in X /\ \A y \in X : y.score <= Best(X).score
        BY <1>1, <2>3, BestIsBest
    <2> QED BY <2>4 DEF X
<1>9. ASSUME NEW x \in row
      PROVE  /\ x.score \in Int /\ x.path \in Seq(Ordinals) /\ Len(x.path) = e
             /\ IsPath(pool, v, e, x.path)
             /\ \E t : IsSum(pool, v, e, x.path, t) /\ x.score = t[e] - Penalty * (x.path[e] - x.path[1])
    <2>1. PICK c \in C : m[c] # {} /\ x = Best(m[c])
        BY <1>6
    <2>2. x \in m[c]
        BY <1>8, <2>1
    <2> QED BY <1>4, <2>2
<1>10. ASSUME NEW p, NEW t, IsPath(pool, v, e, p), IsSum(pool, v, e, p, t)
       PROVE  \E x \in row : x.path[e] = p[e] /\ t[e] - Penalty * (p[e] - p[1]) <= x.score
    <2>1. d \in 1..e /\ e \in 1..e /\ 1 \in 1..e
        BY <1>1
    <2>2. p[d] \in Nat /\ p[e] \in Nat /\ p[1] \in Nat /\ t[d] \in Int /\ t[e] \in Int
        <3>1. p[d] \in Ordinals /\ p[e] \in Ordinals /\ p[1] \in Ordinals
            BY <1>10, <2>1 DEF IsPath
        <3>2. t[d] \in Int /\ t[e] \in Int
            BY <1>10, <2>1 DEF IsSum
        <3> QED BY <3>1, <3>2, FramesAreNumbers
    <2>3. IsPath(pool, v, d, p) /\ IsSum(pool, v, d, p, t)
        <3>1. \A i \in 1..d : i \in 1..e
            BY <1>1
        <3> QED BY <1>10, <3>1 DEF IsPath, IsSum
    <2>4. PICK x \in prior : x.path[d] = p[d] /\ t[d] - Penalty * (p[d] - p[1]) <= x.score
        BY <2>3 DEF RowOK
    <2>5. x.score \in Int /\ Len(x.path) = d
        BY DEF RowOK
    <2>6. PICK c \in pool[e] : c.video = v /\ c.frame = p[e]
        BY <1>10, <2>1 DEF IsPath
    <2>7. c \in C /\ c.score \in Int
        BY <1>2, <1>3, <2>6
    <2>8. t[e] = t[d] + c.score
        <3>1. t[e] = ScoreAt(pool[e], v, p[e]) + t[d]
            BY <1>10, <2>1 DEF IsSum
        <3>2. ScoreAt(pool[e], v, p[e]) = c.score
            BY <1>2, <2>6, <2>7
        <3> QED BY <2>2, <2>7, <3>1, <3>2
    <2>9. NearTo(c.frame - x.path[Len(x.path)])
        <3>1. NearTo(p[e] - p[d])
            BY <1>10, <2>1 DEF IsPath
        <3> QED BY <2>4, <2>5, <2>6, <3>1
    <2>10. PICK y \in Extensions(prior, c) :
               y.score = x.score + (c.score - Penalty * (c.frame - x.path[Len(x.path)]))
        BY <2>9, ExtensionScore
    <2>11. y \in m[c] /\ y.score = x.score + (c.score - Penalty * (p[e] - p[d]))
        BY <1>5, <2>4, <2>5, <2>6, <2>7, <2>10
    <2> DEFINE b == Best(m[c])
    <2>12. b \in m[c] /\ y.score <= b.score
        BY <1>8, <2>7, <2>11
    <2>13. b.score \in Int /\ b.path[e] = p[e]
        BY <1>4, <2>6, <2>7, <2>12
    <2>14. b \in row
        BY <1>6, <2>7, <2>12
    <2> HIDE DEF b
    <2> DEFINE before == Penalty * (p[d] - p[1])
               last == Penalty * (p[e] - p[d])
               whole == Penalty * (p[e] - p[1])
               s == x.score
               a == c.score
    <2>15. before \in Int /\ last \in Int /\ whole \in Int /\ whole = before + last
        BY <2>2, PenaltyIsLinear
    <2>16. s \in Int /\ a \in Int /\ t[d] - before <= s
        BY <2>4, <2>5, <2>7
    <2>17. y.score = s + (a - last)
        BY <2>11, Zenon
    <2> HIDE DEF before, last, whole, s, a
    <2>18. (t[d] + a) - whole <= s + (a - last)
        BY <2>2, <2>15, <2>16, LessWithOneMore
    <2>19. t[e] = t[d] + a
        BY <2>8, Zenon DEF a
    <2>20. t[e] - whole <= b.score
        BY <2>2, <2>12, <2>13, <2>15, <2>16, <2>17, <2>18, <2>19
    <2>21. t[e] - Penalty * (p[e] - p[1]) <= b.score
        BY <2>20, Zenon DEF whole
    <2> QED BY <2>13, <2>14, <2>21
<1> QED BY <1>7, <1>9, <1>10 DEF RowOK, row

-----------------------------------------------------------------------------
(* Rows, unfolded                                                          *)

RowsBody(v, g) == [e \in Events |-> IF e = 1 THEN FirstRow(v) ELSE RowStep(v, e, g[e - 1])]
RowsOf(v) == CHOOSE g : g = RowsBody(v, g)

LEMMA RowsAreRows == \A v : Rows(v) = RowsOf(v)
    BY DEF Rows, RowsOf, RowsBody, FirstRow, RowStep

LEMMA RowsExist ==
    ASSUME FoundOK, NEW v
    PROVE  \E g : g = RowsBody(v, g)
<1> DEFINE N == Len(found)
           Sol(m, g) == \A e \in 1..m : g[e] = IF e = 1 THEN FirstRow(v) ELSE RowStep(v, e, g[e - 1])
           Bad == {m \in 1..N : ~\E g : Sol(m, g)}
<1>1. N \in Nat \ {0} /\ Events = 1..N
    BY DEF FoundOK
<1> HIDE DEF N
<1>2. Bad = {}
    <2> SUFFICES ASSUME Bad # {} PROVE FALSE
        OBVIOUS
    <2>1. PICK m \in Bad : \A k \in Bad : m <= k
        <3>1. Bad \in SUBSET Nat
            BY <1>1
        <3> HIDE DEF Bad
        <3> QED BY <3>1, LeastNumber
    <2>2. m \in 1..N /\ ~\E g : Sol(m, g)
        BY <2>1
    <2>3. CASE m = 1
        <3>1. Sol(1, [i \in 1..1 |-> FirstRow(v)])
            OBVIOUS
        <3> HIDE DEF Sol
        <3> QED BY <2>2, <2>3, <3>1
    <2>4. CASE m # 1
        <3>1. m - 1 \in 1..N /\ ~(m <= m - 1)
            BY <1>1, <2>2, <2>4
        <3>2. ~(m - 1 \in Bad)
            BY <2>1, <3>1
        <3>3. PICK g : Sol(m - 1, g)
            BY <3>1, <3>2
        <3> DEFINE w == RowStep(v, m, g[m - 1])
                   h == [i \in 1..m |-> IF i = m THEN w ELSE g[i]]
        <3>4. \A i \in 1..m : h[i] = IF i = m THEN w ELSE g[i]
            OBVIOUS
        <3> HIDE DEF h
        <3>5. ASSUME NEW e \in 1..m PROVE h[e] = IF e = 1 THEN FirstRow(v) ELSE RowStep(v, e, h[e - 1])
            <4>1. CASE e = m
                <5>1. m - 1 \in 1..m /\ m - 1 # m
                    BY <1>1, <3>1
                <5>2. h[m - 1] = g[m - 1]
                    BY <3>4, <5>1
                <5> QED BY <2>4, <3>4, <4>1, <5>2
            <4>2. CASE e # m
                <5>1. e \in 1..(m - 1) /\ (e # 1 => e - 1 \in 1..m /\ e - 1 # m)
                    BY <1>1, <2>2, <4>2
                <5>2. g[e] = IF e = 1 THEN FirstRow(v) ELSE RowStep(v, e, g[e - 1])
                    BY <3>3, <5>1
                <5>3. h[e] = g[e] /\ (e # 1 => h[e - 1] = g[e - 1])
                    BY <3>4, <4>2, <5>1
                <5> QED BY <5>2, <5>3
            <4> QED BY <4>1, <4>2
        <3>6. Sol(m, h)
            BY <3>5
        <3> HIDE DEF Sol
        <3> QED BY <2>2, <3>6
    <2> QED BY <2>3, <2>4
<1>3. PICK g : Sol(N, g)
    <2>1. N \in 1..N
        BY <1>1
    <2>2. N \notin Bad
        <3> HIDE DEF Bad
        <3> QED BY <1>2
    <2> HIDE DEF Sol
    <2> QED BY <2>1, <2>2
<1> DEFINE h == [e \in Events |-> g[e]]
<1>4. \A e \in Events : h[e] = g[e]
    OBVIOUS
<1>5. \A e \in Events : e # 1 => e - 1 \in Events
    BY <1>1
<1>6. \A e \in Events : g[e] = IF e = 1 THEN FirstRow(v) ELSE RowStep(v, e, g[e - 1])
    BY <1>1, <1>3
<1>7. h = RowsBody(v, h)
    <2>1. ASSUME NEW e \in Events PROVE g[e] = IF e = 1 THEN FirstRow(v) ELSE RowStep(v, e, h[e - 1])
        <3> HIDE DEF h
        <3> QED BY <1>4, <1>5, <1>6
    <2> QED BY <2>1 DEF RowsBody
<1> QED BY <1>7

LEMMA RowsUnfolded ==
    ASSUME FoundOK, NEW v
    PROVE  \A e \in Events :
               RowsOf(v)[e] = IF e = 1 THEN FirstRow(v) ELSE RowStep(v, e, RowsOf(v)[e - 1])
<1>1. RowsOf(v) = RowsBody(v, RowsOf(v))
    <2>1. \E g : g = RowsBody(v, g)
        BY RowsExist
    <2> QED BY <2>1 DEF RowsOf
<1> DEFINE t == RowsOf(v)
<1> HIDE DEF t
<1>2. t = [e \in Events |-> IF e = 1 THEN FirstRow(v) ELSE RowStep(v, e, t[e - 1])]
    BY <1>1 DEF RowsBody, t
<1>3. \A e \in Events : t[e] = IF e = 1 THEN FirstRow(v) ELSE RowStep(v, e, t[e - 1])
    BY <1>2
<1> QED BY <1>3 DEF t

LEMMA RowsAreOK ==
    ASSUME FoundOK, CandidateLists(pool), NEW v
    PROVE  \A e \in Events : RowOK(v, e, RowsOf(v)[e])
<1> DEFINE t == RowsOf(v)
           Bad == {e \in Events : ~RowOK(v, e, t[e])}
<1>1. Events \subseteq Nat \ {0} /\ \A e \in Events : e # 1 => e - 1 \in Events /\ ~(e <= e - 1)
    BY DEF FoundOK
<1>2. \A e \in Events : t[e] = IF e = 1 THEN FirstRow(v) ELSE RowStep(v, e, t[e - 1])
    BY RowsUnfolded
<1> HIDE DEF t
<1>3. Bad = {}
    <2> SUFFICES ASSUME Bad # {} PROVE FALSE
        OBVIOUS
    <2>1. PICK e \in Bad : \A k \in Bad : e <= k
        <3>1. Bad \in SUBSET Nat
            BY <1>1
        <3> HIDE DEF Bad
        <3> QED BY <3>1, LeastNumber
    <2>2. e \in Events /\ ~RowOK(v, e, t[e])
        BY <2>1
    <2>3. CASE e = 1
        BY <1>2, <2>2, <2>3, FirstRowIsOK
    <2>4. CASE e # 1
        <3>1. e - 1 \in Events /\ RowOK(v, e - 1, t[e - 1])
            BY <1>1, <2>1, <2>2, <2>4
        <3>2. t[e] = RowStep(v, e, t[e - 1])
            BY <1>2, <2>2, <2>4
        <3>3. RowOK(v, e, RowStep(v, e, t[e - 1]))
            BY <2>2, <2>4, <3>1, StepIsOK
        <3> QED BY <2>2, <3>2, <3>3
    <2> QED BY <2>3, <2>4
<1> QED BY <1>3 DEF t

-----------------------------------------------------------------------------
(* The alignment                                                           *)

LastRow(v) == RowsOf(v)[Len(found)]

LEMMA LastRowFacts ==
    ASSUME FoundOK, CandidateLists(pool), NEW v
    PROVE  /\ IsFiniteSet(LastRow(v))
           /\ \A x \in LastRow(v) :
                /\ x.score \in Int /\ x.path \in [Events -> Ordinals]
                /\ x.path \in Sequences(pool, v, MaxGap) /\ x.score = Value(pool, v, x.path)
           /\ \A p \in Sequences(pool, v, MaxGap) :
                \E x \in LastRow(v) : Value(pool, v, p) <= x.score
<1> DEFINE N == Len(found)
<1>1. N \in Nat \ {0} /\ Events = 1..N /\ N \in Events
    BY DEF FoundOK
<1>2. RowOK(v, N, LastRow(v))
    BY <1>1, RowsAreOK DEF LastRow
<1>3. IsFiniteSet(LastRow(v))
    BY <1>2 DEF RowOK
<1>4. ASSUME NEW x \in LastRow(v)
      PROVE  /\ x.score \in Int /\ x.path \in [Events -> Ordinals]
             /\ x.path \in Sequences(pool, v, MaxGap) /\ x.score = Value(pool, v, x.path)
    <2>1. x.score \in Int /\ x.path \in Seq(Ordinals) /\ Len(x.path) = N /\ IsPath(pool, v, N, x.path)
        BY <1>2 DEF RowOK
    <2>2. x.path \in [Events -> Ordinals]
        BY <1>1, <2>1
    <2>3. x.path \in Sequences(pool, v, MaxGap)
        BY <2>1, <2>2, SequencesArePaths
    <2>4. PICK t : IsSum(pool, v, N, x.path, t) /\ x.score = t[N] - Penalty * (x.path[N] - x.path[1])
        BY <1>2 DEF RowOK
    <2>5. Value(pool, v, x.path) = t[N] - Penalty * (x.path[N] - x.path[1])
        BY <2>1, <2>4, ValueIsSum
    <2> QED BY <2>1, <2>2, <2>3, <2>4, <2>5, Zenon
<1>5. ASSUME NEW p \in Sequences(pool, v, MaxGap)
      PROVE  \E x \in LastRow(v) : Value(pool, v, p) <= x.score
    <2>1. IsPath(pool, v, N, p)
        BY SequencesArePaths
    <2> DEFINE t == TotalOf(ScoresOn(pool, v, p))
    <2>2. IsSum(pool, v, N, p, t)
        BY <2>1, PathHasSum
    <2> HIDE DEF t
    <2>3. PICK x \in LastRow(v) : t[N] - Penalty * (p[N] - p[1]) <= x.score
        BY <1>2, <2>1, <2>2 DEF RowOK
    <2>4. Value(pool, v, p) = t[N] - Penalty * (p[N] - p[1])
        BY <2>1, <2>2, ValueIsSum
    <2> QED BY <2>3, <2>4, Zenon
<1> QED BY <1>3, <1>4, <1>5

\* The best sequence of one video.
LEMMA BestOfVideo ==
    ASSUME FoundOK, CandidateLists(pool), NEW v, LastRow(v) # {}
    PROVE  /\ Best(LastRow(v)).score \in Int
           /\ Best(LastRow(v)).path \in [Events -> Ordinals]
           /\ Best(LastRow(v)).path \in Sequences(pool, v, MaxGap)
           /\ Best(LastRow(v)).score = Value(pool, v, Best(LastRow(v)).path)
           /\ \A p \in Sequences(pool, v, MaxGap) :
                Value(pool, v, p) \in Int /\ Value(pool, v, p) <= Best(LastRow(v)).score
<1> DEFINE X == LastRow(v)
           b == Best(X)
           N == Len(found)
<1>1. N \in Nat \ {0} /\ Events = 1..N /\ N \in Events
    BY DEF FoundOK
<1>2. /\ IsFiniteSet(X)
      /\ \A x \in X :
            /\ x.score \in Int /\ x.path \in [Events -> Ordinals]
            /\ x.path \in Sequences(pool, v, MaxGap) /\ x.score = Value(pool, v, x.path)
      /\ \A p \in Sequences(pool, v, MaxGap) : \E x \in X : Value(pool, v, p) <= x.score
    BY LastRowFacts
<1>3. X # {}
    OBVIOUS
<1>4. \A x \in X : x.score \in Int /\ x.path \in [1..N -> Int]
    <2> SUFFICES ASSUME NEW x \in X PROVE x.score \in Int /\ x.path \in [1..N -> Int]
        OBVIOUS
    <2>1. x.score \in Int /\ x.path \in [Events -> Ordinals]
        BY <1>2
    <2> QED BY <1>1, <2>1, FramesAreNumbers
<1> HIDE DEF X
<1>5. b \in X /\ \A y \in X : y.score <= b.score
    BY <1>1, <1>2, <1>3, <1>4, BestIsBest
<1> HIDE DEF b
<1>6. ASSUME NEW p \in Sequences(pool, v, MaxGap)
      PROVE  Value(pool, v, p) \in Int /\ Value(pool, v, p) <= b.score
    <2>1. Value(pool, v, p) \in Int
        <3>1. IsPath(pool, v, N, p)
            BY SequencesArePaths
        <3> DEFINE t == TotalOf(ScoresOn(pool, v, p))
        <3>2. IsSum(pool, v, N, p, t)
            BY <3>1, PathHasSum
        <3> HIDE DEF t
        <3>3. Value(pool, v, p) = t[N] - Penalty * (p[N] - p[1])
            BY <3>1, <3>2, ValueIsSum
        <3>4. N \in 1..N /\ 1 \in 1..N
            BY <1>1
        <3>5. t[N] \in Int /\ p[N] \in Ordinals /\ p[1] \in Ordinals
            BY <3>1, <3>2, <3>4 DEF IsSum, IsPath
        <3>6. Penalty * (p[N] - p[1]) \in Int
            BY <3>5, FramesAreNumbers, Constants
        <3> DEFINE w == Penalty * (p[N] - p[1])
        <3>7. w \in Int /\ Value(pool, v, p) = t[N] - w
            BY <3>3, <3>6, Zenon
        <3> HIDE DEF w
        <3> QED BY <3>5, <3>7
    <2>2. PICK x \in X : Value(pool, v, p) <= x.score
        BY <1>2
    <2>3. x.score <= b.score /\ x.score \in Int /\ b.score \in Int
        BY <1>2, <1>5
    <2> DEFINE val == Value(pool, v, p)
    <2>4. val \in Int /\ val <= x.score
        BY <2>1, <2>2, Zenon
    <2> HIDE DEF val
    <2>5. val <= b.score
        BY <2>3, <2>4
    <2> QED BY <2>1, <2>5 DEF val
<1> QED BY <1>2, <1>5, <1>6 DEF b, X

\* The best of the videos.
Results == {[video |-> v, frames |-> Best(LastRow(v)).path, score |-> Best(LastRow(v)).score] :
                v \in {w \in VideoIds : LastRow(w) # {}}}
Aligned == IF Results = {} THEN Absent
           ELSE CHOOSE r \in Results : \A s \in Results :
                    r.score > s.score \/ (r.score = s.score /\ r.video >= s.video)

IsBestAnswer(a) ==
    /\ a # Absent => /\ a \in EventAnswers
                     /\ a.frames \in Sequences(pool, a.video, MaxGap)
                     /\ a.score = Value(pool, a.video, a.frames)
    /\ \A v \in VideoIds : \A p \in Sequences(pool, v, MaxGap) :
           /\ a # Absent
           /\ Value(pool, v, p) \in Int
           /\ Value(pool, v, p) < a.score \/ (Value(pool, v, p) = a.score /\ v <= a.video)

LEMMA AlignedIsBest ==
    ASSUME FoundOK, CandidateLists(pool)
    PROVE  IsBestAnswer(Aligned)
<1> DEFINE Result(v) == [video |-> v, frames |-> Best(LastRow(v)).path, score |-> Best(LastRow(v)).score]
           some == {w \in VideoIds : LastRow(w) # {}}
           m == [v \in some |-> Result(v)]
           R == {p \in Results \X Results :
                    p[1].score > p[2].score \/ (p[1].score = p[2].score /\ p[1].video >= p[2].video)}
<1>1. IsFiniteSet(Results)
    <2>1. IsFiniteSet(some)
        BY Constants, FS_Subset
    <2>2. Results = {m[v] : v \in some}
        BY DEF Results
    <2> HIDE DEF some, m
    <2> QED BY <2>1, <2>2, ImageIsFinite
<1>2. ASSUME NEW v \in some
      PROVE  /\ Result(v) \in Results /\ Result(v).video = v
             /\ Result(v).frames = Best(LastRow(v)).path /\ Result(v).score = Best(LastRow(v)).score
    BY DEF Results
<1>3. \A r \in Results : \E v \in some : r = Result(v)
    BY DEF Results
<1>4. some \subseteq VideoIds /\ \A v \in VideoIds : LastRow(v) # {} <=> v \in some
    OBVIOUS
<1>5. Events = 1..Len(found) /\ Len(found) \in Nat
    BY DEF FoundOK
<1> HIDE DEF Result, some, m
<1>6. ASSUME NEW v \in some
      PROVE  /\ Result(v).score \in Int
             /\ Result(v).frames \in [Events -> Ordinals]
             /\ Result(v).frames \in Sequences(pool, v, MaxGap)
             /\ Result(v).score = Value(pool, v, Result(v).frames)
             /\ \A p \in Sequences(pool, v, MaxGap) :
                    Value(pool, v, p) \in Int /\ Value(pool, v, p) <= Result(v).score
    <2>1. LastRow(v) # {}
        BY <1>4
    <2> QED BY <1>2, <2>1, BestOfVideo
<1>7. \A r \in Results : r.score \in Int /\ r.video \in Nat
    <2> SUFFICES ASSUME NEW r \in Results PROVE r.score \in Int /\ r.video \in Nat
        OBVIOUS
    <2>1. PICK v \in some : r = Result(v)
        BY <1>3
    <2>2. r.video = v /\ v \in VideoIds /\ r.score \in Int
        BY <1>2, <1>4, <1>6, <2>1
    <2> QED BY <2>2, Constants
<1>8. \A x, y \in Results : <<x, y>> \in R <=> x.score > y.score \/ (x.score = y.score /\ x.video >= y.video)
    OBVIOUS
<1> HIDE DEF R
<1>9. ASSUME Results # {}
      PROVE  /\ Aligned \in Results
             /\ \A s \in Results : Aligned.score > s.score \/ (Aligned.score = s.score /\ Aligned.video >= s.video)
    <2>1. \A x, y \in Results : <<x, y>> \in R \/ <<y, x>> \in R
        <3> SUFFICES ASSUME NEW x \in Results, NEW y \in Results PROVE <<x, y>> \in R \/ <<y, x>> \in R
            OBVIOUS
        <3>1. x.score \in Int /\ y.score \in Int /\ x.video \in Nat /\ y.video \in Nat
            BY <1>7
        <3> QED BY <1>8, <3>1
    <2>2. \A x, y, z \in Results : <<x, y>> \in R /\ <<y, z>> \in R => <<x, z>> \in R
        <3> SUFFICES ASSUME NEW x \in Results, NEW y \in Results, NEW z \in Results,
                            <<x, y>> \in R, <<y, z>> \in R
                     PROVE  <<x, z>> \in R
            OBVIOUS
        <3>1. /\ x.score \in Int /\ y.score \in Int /\ z.score \in Int
              /\ x.video \in Nat /\ y.video \in Nat /\ z.video \in Nat
            BY <1>7
        <3> QED BY <1>8, <3>1
    <2>3. PICK x \in Results : \A y \in Results : <<x, y>> \in R
        BY <1>1, <1>9, <2>1, <2>2, FiniteGreatest
    <2>4. \A y \in Results : x.score > y.score \/ (x.score = y.score /\ x.video >= y.video)
        BY <1>8, <2>3
    <2>5. Aligned = CHOOSE r \in Results : \A s \in Results :
                        r.score > s.score \/ (r.score = s.score /\ r.video >= s.video)
        BY <1>9 DEF Aligned
    <2> QED BY <2>4, <2>5
<1>10. ASSUME Results # {}
       PROVE  /\ Aligned # Absent /\ Aligned \in EventAnswers
              /\ Aligned.frames \in Sequences(pool, Aligned.video, MaxGap)
              /\ Aligned.score = Value(pool, Aligned.video, Aligned.frames)
    <2>1. PICK v \in some : Aligned = Result(v)
        BY <1>3, <1>9, <1>10
    <2>2. /\ Aligned.video = v /\ Aligned.frames \in [Events -> Ordinals] /\ Aligned.score \in Int
          /\ Aligned.frames \in Sequences(pool, v, MaxGap) /\ Aligned.score = Value(pool, v, Aligned.frames)
        BY <1>2, <1>6, <2>1
    <2>3. Aligned.frames \in Seq(Ordinals)
        <3> DEFINE q == Aligned.frames
        <3>1. q \in [1..Len(found) -> Ordinals]
            BY <1>5, <2>2
        <3> HIDE DEF q
        <3>2. q \in Seq(Ordinals)
            BY <1>5, <3>1
        <3> QED BY <3>2 DEF q
    <2>4. Aligned = [video |-> Aligned.video, frames |-> Aligned.frames, score |-> Aligned.score]
        <3>1. Aligned = [video |-> v, frames |-> Best(LastRow(v)).path, score |-> Best(LastRow(v)).score]
            BY <2>1 DEF Result
        <3> QED BY <3>1
    <2>5. Aligned \in EventAnswers
        BY <1>4, <2>2, <2>3, <2>4 DEF EventAnswers
    <2>6. Aligned # Absent
        BY <2>5, SearchAssumption
    <2> QED BY <2>2, <2>5, <2>6
<1>11. ASSUME NEW v \in VideoIds, NEW p \in Sequences(pool, v, MaxGap)
       PROVE  /\ Aligned # Absent
              /\ Value(pool, v, p) \in Int
              /\ Value(pool, v, p) < Aligned.score \/ (Value(pool, v, p) = Aligned.score /\ v <= Aligned.video)
    <2>1. v \in some
        BY <1>4, LastRowFacts
    <2>2. Result(v) \in Results
        BY <1>2, <2>1
    <2> DEFINE r == Result(v)
               val == Value(pool, v, p)
               a == Aligned
    <2>3. /\ val \in Int /\ val <= r.score /\ r.score \in Int /\ r.video = v
        BY <1>2, <1>6, <2>1
    <2>4. a.score \in Int /\ a.video \in Nat /\ (a.score > r.score \/ (a.score = r.score /\ a.video >= r.video))
        BY <1>7, <1>9, <2>2
    <2>5. v \in Nat
        BY Constants
    <2>6. a # Absent
        BY <1>10, <2>2
    <2> HIDE DEF r, val, a
    <2>7. val < a.score \/ (val = a.score /\ v <= a.video)
        BY <2>3, <2>4, <2>5
    <2> QED BY <2>3, <2>6, <2>7 DEF val, a
<1>12. CASE Results = {}
    <2>1. Aligned = Absent
        BY <1>12 DEF Aligned
    <2>2. \A v \in VideoIds : Sequences(pool, v, MaxGap) = {}
        <3> SUFFICES ASSUME NEW v \in VideoIds, NEW p \in Sequences(pool, v, MaxGap) PROVE FALSE
            OBVIOUS
        <3> QED BY <1>11, <2>1
    <2> QED BY <2>1, <2>2 DEF IsBestAnswer
<1>13. CASE Results # {}
    BY <1>10, <1>11, <1>13 DEF IsBestAnswer
<1> QED BY <1>12, <1>13

-----------------------------------------------------------------------------
(* The greedy alignment *)

GreedyFirst(v) == Top(Of(found[1], v))
GreedyStep(v, e, prior) == Top({c \in Of(found[e], v) : prior # Absent /\ c.frame > prior.frame})
ChosenBody(v, g) == [e \in Events |-> IF e = 1 THEN GreedyFirst(v) ELSE GreedyStep(v, e, g[e - 1])]
ChosenOf(v) == CHOOSE g : g = ChosenBody(v, g)

LEMMA ChosenIsChosen == \A v : Chosen(v) = ChosenOf(v)
    BY DEF Chosen, ChosenOf, ChosenBody, GreedyFirst, GreedyStep

LEMMA ChosenExist ==
    ASSUME FoundOK, NEW v
    PROVE  \E g : g = ChosenBody(v, g)
<1> DEFINE N == Len(found)
           Sol(m, g) == \A e \in 1..m : g[e] = IF e = 1 THEN GreedyFirst(v) ELSE GreedyStep(v, e, g[e - 1])
           Bad == {m \in 1..N : ~\E g : Sol(m, g)}
<1>1. N \in Nat \ {0} /\ Events = 1..N
    BY DEF FoundOK
<1> HIDE DEF N
<1>2. Bad = {}
    <2> SUFFICES ASSUME Bad # {} PROVE FALSE
        OBVIOUS
    <2>1. PICK m \in Bad : \A k \in Bad : m <= k
        <3>1. Bad \in SUBSET Nat
            BY <1>1
        <3> HIDE DEF Bad
        <3> QED BY <3>1, LeastNumber
    <2>2. m \in 1..N /\ ~\E g : Sol(m, g)
        BY <2>1
    <2>3. CASE m = 1
        <3>1. Sol(1, [i \in 1..1 |-> GreedyFirst(v)])
            OBVIOUS
        <3> HIDE DEF Sol
        <3> QED BY <2>2, <2>3, <3>1
    <2>4. CASE m # 1
        <3>1. m - 1 \in 1..N /\ ~(m <= m - 1)
            BY <1>1, <2>2, <2>4
        <3>2. ~(m - 1 \in Bad)
            BY <2>1, <3>1
        <3>3. PICK g : Sol(m - 1, g)
            BY <3>1, <3>2
        <3> DEFINE w == GreedyStep(v, m, g[m - 1])
                   h == [i \in 1..m |-> IF i = m THEN w ELSE g[i]]
        <3>4. \A i \in 1..m : h[i] = IF i = m THEN w ELSE g[i]
            OBVIOUS
        <3> HIDE DEF h
        <3>5. ASSUME NEW e \in 1..m PROVE h[e] = IF e = 1 THEN GreedyFirst(v) ELSE GreedyStep(v, e, h[e - 1])
            <4>1. CASE e = m
                <5>1. m - 1 \in 1..m /\ m - 1 # m
                    BY <1>1, <3>1
                <5>2. h[m - 1] = g[m - 1]
                    BY <3>4, <5>1
                <5> QED BY <2>4, <3>4, <4>1, <5>2
            <4>2. CASE e # m
                <5>1. e \in 1..(m - 1) /\ (e # 1 => e - 1 \in 1..m /\ e - 1 # m)
                    BY <1>1, <2>2, <4>2
                <5>2. g[e] = IF e = 1 THEN GreedyFirst(v) ELSE GreedyStep(v, e, g[e - 1])
                    BY <3>3, <5>1
                <5>3. h[e] = g[e] /\ (e # 1 => h[e - 1] = g[e - 1])
                    BY <3>4, <4>2, <5>1
                <5> QED BY <5>2, <5>3
            <4> QED BY <4>1, <4>2
        <3>6. Sol(m, h)
            BY <3>5
        <3> HIDE DEF Sol
        <3> QED BY <2>2, <3>6
    <2> QED BY <2>3, <2>4
<1>3. PICK g : Sol(N, g)
    <2>1. N \in 1..N
        BY <1>1
    <2>2. N \notin Bad
        <3> HIDE DEF Bad
        <3> QED BY <1>2
    <2> HIDE DEF Sol
    <2> QED BY <2>1, <2>2
<1> DEFINE h == [e \in Events |-> g[e]]
<1>4. \A e \in Events : h[e] = g[e]
    OBVIOUS
<1>5. \A e \in Events : e # 1 => e - 1 \in Events
    BY <1>1
<1>6. \A e \in Events : g[e] = IF e = 1 THEN GreedyFirst(v) ELSE GreedyStep(v, e, g[e - 1])
    BY <1>1, <1>3
<1>7. h = ChosenBody(v, h)
    <2>1. ASSUME NEW e \in Events PROVE g[e] = IF e = 1 THEN GreedyFirst(v) ELSE GreedyStep(v, e, h[e - 1])
        <3> HIDE DEF h
        <3> QED BY <1>4, <1>5, <1>6
    <2> QED BY <2>1 DEF ChosenBody
<1> QED BY <1>7

LEMMA ChosenUnfolded ==
    ASSUME FoundOK, NEW v
    PROVE  \A e \in Events :
               ChosenOf(v)[e] = IF e = 1 THEN GreedyFirst(v) ELSE GreedyStep(v, e, ChosenOf(v)[e - 1])
<1>1. ChosenOf(v) = ChosenBody(v, ChosenOf(v))
    <2>1. \E g : g = ChosenBody(v, g)
        BY ChosenExist
    <2> QED BY <2>1 DEF ChosenOf
<1> DEFINE t == ChosenOf(v)
<1> HIDE DEF t
<1>2. t = [e \in Events |-> IF e = 1 THEN GreedyFirst(v) ELSE GreedyStep(v, e, t[e - 1])]
    BY <1>1 DEF ChosenBody, t
<1>3. \A e \in Events : t[e] = IF e = 1 THEN GreedyFirst(v) ELSE GreedyStep(v, e, t[e - 1])
    BY <1>2
<1> QED BY <1>3 DEF t

LEMMA TopIsMember ==
    ASSUME NEW C, IsFiniteSet(C), \A c \in C : c.score \in Int /\ c.frame \in Nat, Top(C) # Absent
    PROVE  Top(C) \in C
<1> DEFINE First(c, d) == c.score > d.score \/ (c.score = d.score /\ c.frame <= d.frame)
           R == {p \in C \X C : First(p[1], p[2])}
<1>1. C # {}
    BY DEF Top
<1>2. \A c, d \in C : <<c, d>> \in R <=> First(c, d)
    <2> HIDE DEF First
    <2> QED OBVIOUS
<1> HIDE DEF R
<1>3. \A c, d \in C : <<c, d>> \in R \/ <<d, c>> \in R
    <2> SUFFICES ASSUME NEW c \in C, NEW d \in C PROVE <<c, d>> \in R \/ <<d, c>> \in R
        OBVIOUS
    <2>1. c.score \in Int /\ c.frame \in Nat /\ d.score \in Int /\ d.frame \in Nat
        OBVIOUS
    <2>2. First(c, d) \/ First(d, c)
        BY <2>1
    <2> HIDE DEF First
    <2> QED BY <1>2, <2>2
<1>4. \A b, c, d \in C : <<b, c>> \in R /\ <<c, d>> \in R => <<b, d>> \in R
    <2> SUFFICES ASSUME NEW b \in C, NEW c \in C, NEW d \in C, <<b, c>> \in R, <<c, d>> \in R
                 PROVE  <<b, d>> \in R
        OBVIOUS
    <2>1. /\ b.score \in Int /\ b.frame \in Nat /\ c.score \in Int /\ c.frame \in Nat
          /\ d.score \in Int /\ d.frame \in Nat
        OBVIOUS
    <2>2. First(b, c) /\ First(c, d)
        <3> HIDE DEF First
        <3> QED BY <1>2
    <2>3. First(b, d)
        BY <2>1, <2>2
    <2> HIDE DEF First
    <2> QED BY <1>2, <2>3
<1>5. PICK c \in C : \A d \in C : <<c, d>> \in R
    BY <1>1, <1>3, <1>4, FiniteGreatest
<1>6. \A d \in C : First(c, d)
    <2> HIDE DEF First
    <2> QED BY <1>2, <1>5
<1>7. Top(C) = CHOOSE x \in C : \A d \in C : x.score > d.score \/ (x.score = d.score /\ x.frame <= d.frame)
    BY <1>1 DEF Top
<1> QED BY <1>6, <1>7

LEMMA TopOfNone == Top({}) = Absent
    BY DEF Top

\* What is chosen for an event comes after what is chosen for the one before.
LEMMA ChosenFacts ==
    ASSUME FoundOK, NEW v, NEW e \in Events, ChosenOf(v)[e] # Absent
    PROVE  /\ ChosenOf(v)[e] \in found[e] /\ ChosenOf(v)[e].video = v
           /\ e # 1 => /\ ChosenOf(v)[e - 1] # Absent
                       /\ ChosenOf(v)[e - 1].frame < ChosenOf(v)[e].frame
<1> DEFINE g == ChosenOf(v)
<1>1. g[e] = IF e = 1 THEN GreedyFirst(v) ELSE GreedyStep(v, e, g[e - 1])
    BY ChosenUnfolded
<1> HIDE DEF g
<1>2. g[e] # Absent
    BY DEF g
<1>3. IsFiniteSet(found[e]) /\ found[e] \subseteq Candidates
    BY DEF FoundOK
<1>4. \A c \in found[e] : c.score \in Int /\ c.frame \in Nat
    BY <1>3, CandidateFacts
<1>5. CASE e = 1
    <2> DEFINE C == Of(found[1], v)
    <2>1. C \subseteq found[e] /\ \A c \in C : c.video = v
        BY <1>5 DEF Of
    <2>2. g[e] = Top(C)
        BY <1>1, <1>5 DEF GreedyFirst
    <2> HIDE DEF C
    <2>3. IsFiniteSet(C)
        BY <1>3, <2>1, FS_Subset
    <2>4. Top(C) \in C
        BY <1>2, <1>4, <2>1, <2>2, <2>3, TopIsMember
    <2> QED BY <1>5, <2>1, <2>2, <2>4 DEF g
<1>6. CASE e # 1
    <2> DEFINE q == g[e - 1]
               C == {c \in Of(found[e], v) : q # Absent /\ c.frame > q.frame}
    <2>1. C \subseteq found[e] /\ \A c \in C : c.video = v /\ q # Absent /\ c.frame > q.frame
        BY DEF Of
    <2>2. g[e] = Top(C)
        BY <1>1, <1>6 DEF GreedyStep
    <2> HIDE DEF C, q
    <2>3. IsFiniteSet(C)
        BY <1>3, <2>1, FS_Subset
    <2>4. Top(C) \in C
        BY <1>2, <1>4, <2>1, <2>2, <2>3, TopIsMember
    <2>5. g[e] \in found[e] /\ g[e].video = v /\ q # Absent /\ g[e].frame > q.frame
        BY <2>1, <2>2, <2>4
    <2> QED BY <1>6, <2>5 DEF g, q
<1> QED BY <1>5, <1>6

\* If there is one for the last event there is one for each.
LEMMA AllAreChosen ==
    ASSUME FoundOK, NEW v, ChosenOf(v)[Len(found)] # Absent
    PROVE  \A e \in Events : ChosenOf(v)[e] # Absent
<1> DEFINE N == Len(found)
           g == ChosenOf(v)
           Bad == {k \in Nat : k < N /\ g[N - k] = Absent}
<1>1. N \in Nat \ {0} /\ Events = 1..N
    BY DEF FoundOK
<1>2. \A e \in Events : g[e] # Absent /\ e # 1 => g[e - 1] # Absent
    BY ChosenFacts
<1>3. g[N] # Absent
    OBVIOUS
<1> HIDE DEF g, N
<1>4. Bad = {}
    <2> SUFFICES ASSUME Bad # {} PROVE FALSE
        OBVIOUS
    <2>1. PICK k \in Bad : \A i \in Bad : k <= i
        <3>1. Bad \in SUBSET Nat
            OBVIOUS
        <3> HIDE DEF Bad
        <3> QED BY <3>1, LeastNumber
    <2>2. k \in Nat /\ k < N /\ g[N - k] = Absent
        BY <2>1
    <2>3. k # 0
        <3>1. k = 0 => N - k = N
            BY <1>1
        <3> QED BY <1>3, <2>2, <3>1
    <2>4. k - 1 \in Nat /\ k - 1 < N /\ ~(k <= k - 1)
        BY <1>1, <2>2, <2>3
    <2>5. g[N - (k - 1)] # Absent
        BY <2>1, <2>4
    <2>6. N - (k - 1) \in Events /\ N - (k - 1) # 1 /\ (N - (k - 1)) - 1 = N - k
        BY <1>1, <2>2, <2>3
    <2> QED BY <1>2, <2>2, <2>5, <2>6
<1>5. ASSUME NEW e \in Events PROVE g[e] # Absent
    <2>1. N - e \in Nat /\ N - e < N /\ N - (N - e) = e
        BY <1>1
    <2>2. N - e \notin Bad
        <3> HIDE DEF Bad
        <3> QED BY <1>4
    <2> QED BY <2>1, <2>2
<1> QED BY <1>5 DEF g

\* The answer of the greedy alignment.
LEMMA GreedyIsSequence ==
    ASSUME FoundOK, NEW v \in VideoIds, ChosenOf(v)[Len(found)] # Absent
    PROVE  /\ [e \in Events |-> ChosenOf(v)[e].frame] \in Sequences(found, v, Absent)
           /\ [e \in Events |-> ChosenOf(v)[e].frame] \in Seq(Ordinals)
           /\ TotalScore([e \in Events |-> ChosenOf(v)[e].score]) \in Int
<1> DEFINE g == ChosenOf(v)
           p == [e \in Events |-> g[e].frame]
           s == [e \in Events |-> g[e].score]
<1>1. Len(found) \in Nat /\ Len(found) \in Events /\ Events = 1..Len(found)
      /\ \A e \in Events : e # 1 => e - 1 \in Events
    BY DEF FoundOK
<1>2. \A e \in Events : /\ g[e] \in found[e] /\ g[e].video = v
                        /\ e # 1 => g[e - 1].frame < g[e].frame
    BY AllAreChosen, ChosenFacts
<1> HIDE DEF g
<1>3. \A e \in Events : p[e] = g[e].frame /\ s[e] = g[e].score
    OBVIOUS
<1>4. \A e \in Events : g[e].frame \in Ordinals /\ g[e].score \in Int
    <2> SUFFICES ASSUME NEW e \in Events PROVE g[e].frame \in Ordinals /\ g[e].score \in Int
        OBVIOUS
    <2>1. found[e] \subseteq Candidates
        BY DEF FoundOK
    <2> QED BY <1>2, <2>1, CandidateFacts
<1>5. p \in [Events -> Ordinals]
    BY <1>4
<1> HIDE DEF p, s
<1>6. p \in Sequences(found, v, Absent)
    <2>1. \A e \in Events : \E c \in found[e] : c.video = v /\ c.frame = p[e]
        BY <1>2, <1>3
    <2>2. \A e \in Events \ {1} : p[e - 1] < p[e]
        BY <1>1, <1>2, <1>3
    <2> QED BY <1>5, <2>1, <2>2 DEF Sequences
<1>7. p \in Seq(Ordinals)
    <2>1. p \in [1..Len(found) -> Ordinals]
        BY <1>1, <1>5
    <2> QED BY <1>1, <2>1
<1>8. TotalScore(s) \in Int
    BY <1>1, <1>3, <1>4, TotalIsNumber, TotalScoreIsTotal
<1> QED BY <1>6, <1>7, <1>8 DEF p, s, g

-----------------------------------------------------------------------------
(* The inductive invariant                                                 *)

\* Refinement is of the SigLIP2 backend only, and until it is over there are no
\* other candidates.
ShapeInv ==
    /\ phase \in {"refine", "regions", "decode", "merge"} => backend = "siglip2" /\ pool = <<>>
    /\ phase = "refused" => backend = "qwen"
    /\ phase # "done" => answer = Absent
    /\ backend = "qwen" => pool = <<>>

\* The regions of a video are some of its merged windows.
RegionsInv ==
    /\ TotalRegions <= MaxTotal
    /\ \A v \in VideoIds : /\ IsFiniteSet(regions[v]) /\ regions[v] \subseteq Merged(v)
                           /\ Cardinality(regions[v]) <= MaxPerVideo

\* A best candidate of all is in a region.
BestIsIn ==
    \E v \in VideoIds : \E c \in Found(v) :
        /\ \A w \in VideoIds : \A d \in Found(w) : d.score <= c.score
        /\ \E r \in regions[v] : c.frame \in r.first..r.last

\* While regions are built: the videos still to do have none; the best candidate
\* gets one, unless none is built yet and all are to do.
BuildInv ==
    /\ phase = "refine" => \A v \in VideoIds : regions[v] = {}
    /\ phase = "regions" =>
        /\ \A v \in todo : regions[v] = {} /\ Found(v) # {}
        /\ MaxPerVideo <= MaxTotal =>
               \/ BestIsIn
               \/ /\ \A v \in VideoIds : regions[v] = {}
                  /\ todo = {v \in VideoIds : Found(v) # {}} /\ todo # {}
    /\ MaxPerVideo <= MaxTotal => (phase \in {"decode", "merge"} => BestIsIn)

\* Only frames of regions are decoded.
DenseInv == \A v \in VideoIds : \A f \in dense[v] : \E r \in regions[v] : f \in Targets(r)

\* The candidates after the refinement: what was found is there with a score that is
\* not worse, and all is near to what was found.
PoolInv ==
    phase \in {"align", "done"} /\ backend = "siglip2" =>
        /\ DOMAIN pool = Events
        /\ CandidateLists(pool)
        /\ \A e \in Events : \A c \in found[e] :
               \E d \in pool[e] : d.video = c.video /\ d.frame = c.frame /\ c.score <= d.score
        /\ \A e \in Events : \A c \in pool[e] :
               \E d \in Found(c.video) : c.frame - d.frame \in -Window..Window

AnswerInv ==
    /\ phase = "done" /\ backend = "siglip2" => IsBestAnswer(answer)
    /\ backend = "qwen" /\ answer # Absent =>
           answer.frames \in Sequences(found, answer.video, Absent)

EventInv ==
    /\ EventTypeOK
    /\ FoundOK
    /\ ShapeInv
    /\ RegionsInv
    /\ BuildInv
    /\ DenseInv
    /\ PoolInv
    /\ AnswerInv

-----------------------------------------------------------------------------
(* What does not change with the candidates                                *)

LEMMA FoundUnchanged ==
    ASSUME found' = found
    PROVE  /\ Events' = Events /\ (FoundOK => FoundOK')
           /\ \A v : Found(v)' = Found(v) /\ Merged(v)' = Merged(v)
<1>1. Events' = Events
    BY DEF Events
<1>2. FoundOK => FoundOK'
    BY DEF FoundOK, Events
<1>3. \A v : Found(v)' = Found(v)
    BY DEF Found, Events
<1>4. \A v : Merged(v)' = Merged(v)
    BY DEF Merged, Windows, Found, Events
<1> QED BY <1>1, <1>2, <1>3, <1>4

LEMMA AnswersUnchanged ==
    ASSUME found' = found
    PROVE  /\ \A P, v, l : Sequences(P, v, l)' = Sequences(P, v, l)
           /\ \A P, v, p : Value(P, v, p)' = Value(P, v, p)
           /\ pool' = pool => /\ CandidateLists(pool) => CandidateLists(pool)'
                              /\ \A v : Sequences(pool, v, MaxGap)' = Sequences(pool, v, MaxGap)
                              /\ \A v, p : Value(pool, v, p)' = Value(pool, v, p)
           /\ \A v : Sequences(found, v, Absent)' = Sequences(found, v, Absent)
<1>1. Events' = Events
    BY DEF Events
<1>2. \A P, v, l : Sequences(P, v, l)' = Sequences(P, v, l)
    BY DEF Sequences, Events
<1>3. \A P, v, p : Value(P, v, p)' = Value(P, v, p)
    BY DEF Value, TotalScore, Events
<1>4. ASSUME pool' = pool, CandidateLists(pool) PROVE CandidateLists(pool)'
    BY <1>4 DEF CandidateLists, Events
<1>5. ASSUME pool' = pool PROVE \A v : Sequences(pool, v, MaxGap)' = Sequences(pool, v, MaxGap)
    BY <1>5 DEF Sequences, Events
<1>6. ASSUME pool' = pool PROVE \A v, p : Value(pool, v, p)' = Value(pool, v, p)
    BY <1>6 DEF Value, TotalScore, Events
<1>7. \A v : Sequences(found, v, Absent)' = Sequences(found, v, Absent)
    BY DEF Sequences, Events
<1> QED BY <1>2, <1>3, <1>4, <1>5, <1>6, <1>7

LEMMA RegionsUnchanged ==
    ASSUME found' = found, regions' = regions
    PROVE  (RegionsInv => RegionsInv') /\ (BestIsIn => BestIsIn')
<1>1. \A v : Found(v)' = Found(v) /\ Merged(v)' = Merged(v)
    BY FoundUnchanged
<1>2. TotalRegions' = TotalRegions
    BY DEF TotalRegions
<1>3. RegionsInv => RegionsInv'
    BY <1>1, <1>2 DEF RegionsInv
<1>4. BestIsIn => BestIsIn'
    BY <1>1 DEF BestIsIn
<1> QED BY <1>3, <1>4

LEMMA NoRegions ==
    ASSUME \A v \in VideoIds : regions[v] = {}
    PROVE  TotalRegions = 0
<1>1. Pairs = {}
    BY DEF Pairs
<1>2. TotalRegions = Cardinality(Pairs)
    BY DEF TotalRegions, Pairs
<1> QED BY <1>1, <1>2, FS_EmptySet

LEMMA InitIsEventInv == EventInit => EventInv
<1> SUFFICES ASSUME EventInit PROVE EventInv
    OBVIOUS
<1> USE DEF EventInit, EventStart, Backends
<1>1. FoundOK
    BY SearchesAreOK
<1>2. EventTypeOK
    BY <1>1 DEF EventTypeOK, FoundOK
<1>3. \A v \in VideoIds : regions[v] = {} /\ dense[v] = {}
    OBVIOUS
<1>4. ShapeInv
    BY DEF ShapeInv
<1>5. RegionsInv
    <2>1. TotalRegions = 0 /\ MaxTotal \in Nat /\ MaxPerVideo \in Nat
        BY <1>3, NoRegions, Constants
    <2>2. \A v \in VideoIds : IsFiniteSet(regions[v]) /\ Cardinality(regions[v]) = 0
        BY <1>3, FS_EmptySet
    <2> QED BY <1>3, <2>1, <2>2 DEF RegionsInv
<1>6. BuildInv
    BY <1>3 DEF BuildInv
<1>7. DenseInv
    BY <1>3 DEF DenseInv
<1>8. PoolInv
    <2>1. phase = "align" => backend = "qwen"
        OBVIOUS
    <2>2. phase # "done"
        OBVIOUS
    <2> QED BY <2>1, <2>2 DEF PoolInv
<1>9. AnswerInv
    BY DEF AnswerInv
<1> QED BY <1>1, <1>2, <1>4, <1>5, <1>6, <1>7, <1>8, <1>9 DEF EventInv

\* What was found may itself be what is aligned.
LEMMA FoundIsPool ==
    ASSUME FoundOK, found' = found, pool' = found
    PROVE  PoolInv'
<1>1. Events' = Events
    BY FoundUnchanged
<1>2. DOMAIN found = Events
    BY DEF Events
<1>3. CandidateLists(pool)'
    <2>1. CandidateLists(found)
        BY DEF CandidateLists, FoundOK
    <2> QED BY <1>1, <2>1 DEF CandidateLists
<1>4. \A e \in Events : \A c \in found[e] : c.score <= c.score
    <2> SUFFICES ASSUME NEW e \in Events, NEW c \in found[e] PROVE c.score <= c.score
        OBVIOUS
    <2>1. c \in Candidates
        BY DEF FoundOK
    <2>2. c.score \in Int
        BY <2>1, CandidateFacts
    <2> QED BY <2>2
<1>5. \A e \in Events : \A c \in found[e] : \E d \in Found(c.video) : c.frame - d.frame \in -Window..Window
    <2> SUFFICES ASSUME NEW e \in Events, NEW c \in found[e]
                 PROVE  \E d \in Found(c.video) : c.frame - d.frame \in -Window..Window
        OBVIOUS
    <2>1. c \in Candidates
        BY DEF FoundOK
    <2>2. c.frame \in Int /\ Window \in Nat
        BY <2>1, CandidateFacts, Constants
    <2>3. c.frame - c.frame \in -Window..Window
        BY <2>2
    <2>4. c \in Found(c.video)
        BY DEF Found
    <2> QED BY <2>3, <2>4
<1>6. \A v : Found(v)' = Found(v)
    BY FoundUnchanged
<1> QED BY <1>1, <1>2, <1>3, <1>4, <1>5, <1>6 DEF PoolInv

LEMMA SkipKeepsEventInv == EventInv /\ SkipRefinement => EventInv'
<1> SUFFICES ASSUME EventInv, SkipRefinement PROVE EventInv'
    OBVIOUS
<1>1. /\ phase = "refine" /\ phase' = "align" /\ pool' = found
      /\ backend' = backend /\ found' = found /\ regions' = regions /\ dense' = dense
      /\ todo' = todo /\ answer' = answer
    BY DEF SkipRefinement
<1>2. EventTypeOK /\ FoundOK /\ ShapeInv /\ RegionsInv /\ BuildInv /\ DenseInv /\ PoolInv /\ AnswerInv
    BY DEF EventInv
<1>3. EventTypeOK'
    BY <1>1, <1>2 DEF EventTypeOK
<1>4. FoundOK' /\ RegionsInv' /\ PoolInv'
    BY <1>1, <1>2, FoundUnchanged, RegionsUnchanged, FoundIsPool
<1>5. backend = "siglip2" /\ answer = Absent
    BY <1>1, <1>2 DEF ShapeInv
<1>6. ShapeInv'
    BY <1>1, <1>2, <1>5 DEF ShapeInv
<1>7. BuildInv'
    BY <1>1 DEF BuildInv
<1>8. DenseInv'
    BY <1>1, <1>2 DEF DenseInv
<1>9. AnswerInv'
    BY <1>1, <1>5 DEF AnswerInv
<1> QED BY <1>3, <1>4, <1>6, <1>7, <1>8, <1>9 DEF EventInv

LEMMA FallBackKeepsEventInv == EventInv /\ FallBack => EventInv'
<1> SUFFICES ASSUME EventInv, FallBack PROVE EventInv'
    OBVIOUS
<1>1. /\ phase \in {"regions", "decode", "merge"} /\ phase' = "align" /\ pool' = found
      /\ backend' = backend /\ found' = found /\ regions' = regions /\ dense' = dense
      /\ todo' = todo /\ answer' = answer
    BY DEF FallBack
<1>2. EventTypeOK /\ FoundOK /\ ShapeInv /\ RegionsInv /\ BuildInv /\ DenseInv /\ PoolInv /\ AnswerInv
    BY DEF EventInv
<1>3. EventTypeOK'
    BY <1>1, <1>2 DEF EventTypeOK
<1>4. FoundOK' /\ RegionsInv' /\ PoolInv'
    BY <1>1, <1>2, FoundUnchanged, RegionsUnchanged, FoundIsPool
<1>5. backend = "siglip2" /\ answer = Absent
    BY <1>1, <1>2 DEF ShapeInv
<1>6. ShapeInv'
    BY <1>1, <1>2, <1>5 DEF ShapeInv
<1>7. BuildInv'
    BY <1>1 DEF BuildInv
<1>8. DenseInv'
    BY <1>1, <1>2 DEF DenseInv
<1>9. AnswerInv'
    BY <1>1, <1>5 DEF AnswerInv
<1> QED BY <1>3, <1>4, <1>6, <1>7, <1>8, <1>9 DEF EventInv

LEMMA StartKeepsEventInv == EventInv /\ StartRefinement => EventInv'
<1> SUFFICES ASSUME EventInv, StartRefinement PROVE EventInv'
    OBVIOUS
<1>1. /\ phase = "refine" /\ phase' = "regions" /\ pool' = pool
      /\ backend' = backend /\ found' = found /\ regions' = regions /\ dense' = dense
      /\ todo' = {v \in VideoIds : Found(v) # {}} /\ answer' = answer
      /\ \A e \in Events : found[e] # {}
    BY DEF StartRefinement
<1>2. EventTypeOK /\ FoundOK /\ ShapeInv /\ RegionsInv /\ BuildInv /\ DenseInv /\ PoolInv /\ AnswerInv
    BY DEF EventInv
<1>3. EventTypeOK'
    BY <1>1, <1>2 DEF EventTypeOK
<1>4. FoundOK' /\ RegionsInv'
    BY <1>1, <1>2, FoundUnchanged, RegionsUnchanged
<1>5. backend = "siglip2" /\ answer = Absent /\ pool = <<>>
    BY <1>1, <1>2 DEF ShapeInv
<1>6. ShapeInv'
    BY <1>1, <1>2, <1>5 DEF ShapeInv
<1>7. BuildInv'
    <2>1. \A v \in VideoIds : regions'[v] = {}
        BY <1>1, <1>2 DEF BuildInv
    <2>2. todo' # {}
        <3>1. 1 \in Events
            BY <1>2 DEF FoundOK
        <3>2. PICK c \in found[1] : TRUE
            BY <1>1, <3>1
        <3>3. c \in Candidates
            BY <1>2, <3>1 DEF FoundOK
        <3>4. c.video \in VideoIds /\ c \in Found(c.video)
            BY <3>1, <3>3, CandidateFacts DEF Found
        <3> QED BY <1>1, <3>4
    <2>3. \A v : Found(v)' = Found(v)
        BY <1>1, FoundUnchanged
    <2> QED BY <1>1, <2>1, <2>2, <2>3 DEF BuildInv
<1>8. DenseInv'
    BY <1>1, <1>2 DEF DenseInv
<1>9. AnswerInv'
    BY <1>1, <1>5 DEF AnswerInv
<1>10. PoolInv'
    BY <1>1 DEF PoolInv
<1> QED BY <1>3, <1>4, <1>6, <1>7, <1>8, <1>9, <1>10 DEF EventInv

\* The first region that is built holds a best candidate of all.
LEMMA BestIsBuilt ==
    ASSUME FoundOK, NEW v \in VideoIds, Found(v) # {},
           \A w \in VideoIds : Found(w) # {} => BestScore(w) <= BestScore(v)
    PROVE  \E r \in Kept(v) : \E c \in Found(v) :
               /\ c.frame \in r.first..r.last
               /\ \A w \in VideoIds : \A d \in Found(w) : d.score <= c.score
<1>1. ASSUME NEW w \in VideoIds, Found(w) # {}
      PROVE  /\ \E d \in Found(w) : d.score = BestScore(w)
             /\ \A d \in Found(w) : d.score <= BestScore(w) /\ d.score \in Int
    <2> DEFINE m == [c \in Found(w) |-> c.score]
               S == {m[c] : c \in Found(w)}
    <2>1. S = {c.score : c \in Found(w)}
        OBVIOUS
    <2>2. IsFiniteSet(Found(w)) /\ \A c \in Found(w) : c.score \in Int
        BY FoundIsFinite, FramesAreNumbers
    <2>3. BestScore(w) = Max(S)
        BY <2>1, Zenon DEF BestScore
    <2>4. S # {} /\ S \subseteq Int
        BY <1>1, <2>1, <2>2
    <2> HIDE DEF m
    <2>5. IsFiniteSet(S)
        BY <2>2, ImageIsFinite
    <2> HIDE DEF S
    <2>6. Max(S) \in S /\ \A y \in S : y <= Max(S)
        BY <2>4, <2>5, FiniteMax
    <2> QED BY <2>1, <2>2, <2>3, <2>6
<1>2. PICK a \in Found(v) : a.score = BestScore(v) /\ a.score \in Int
    BY <1>1
<1>3. PICK q \in Merged(v) : a.score <= q.score
    BY MergedFacts
<1>4. PICK r \in Kept(v) : \A x \in Merged(v) : x.score <= r.score
    BY <1>3, KeptFacts
<1>5. r \in Merged(v)
    BY KeptFacts
<1>6. PICK c \in Found(v) : c.frame \in r.first..r.last /\ c.score = r.score
    BY <1>5, MergedFacts
<1>7. q.score <= r.score /\ q.score \in Int /\ r.score \in Int
    <2>1. q \in Regions /\ r \in Regions
        BY <1>5, MergedFacts
    <2>2. q.score \in Scores /\ r.score \in Scores
        BY <2>1 DEF Regions
    <2> QED BY <1>4, <2>2, FramesAreNumbers
<1>8. BestScore(v) <= c.score
    BY <1>2, <1>3, <1>6, <1>7
<1>9. ASSUME NEW w \in VideoIds, NEW d \in Found(w) PROVE d.score <= c.score
    <2>1. d.score <= BestScore(w) /\ BestScore(w) <= BestScore(v) /\ d.score \in Int
        BY <1>1
    <2>2. BestScore(w) \in Int
        BY <1>1
    <2> QED BY <1>2, <1>6, <1>7, <1>8, <2>1, <2>2
<1> QED BY <1>6, <1>9

LEMMA BuildKeepsEventInv == ASSUME NEW v \in VideoIds, EventInv, BuildRegions(v) PROVE EventInv'
<1>1. /\ phase = "regions" /\ v \in todo /\ \A w \in todo : BestScore(w) <= BestScore(v)
      /\ regions' = [regions EXCEPT ![v] = Taken(v)]
      /\ backend' = backend /\ found' = found /\ pool' = pool /\ dense' = dense /\ answer' = answer
    BY DEF BuildRegions
<1>2. \/ phase' = "decode" /\ todo' = {w \in VideoIds : regions'[w] # {}}
      \/ phase' = "regions" /\ todo' = todo \ {v}
    BY DEF BuildRegions
<1>3. EventTypeOK /\ FoundOK /\ ShapeInv /\ RegionsInv /\ BuildInv /\ DenseInv /\ PoolInv /\ AnswerInv
    BY DEF EventInv
<1>4. /\ \A w : Found(w)' = Found(w) /\ Merged(w)' = Merged(w)
      /\ FoundOK'
    BY <1>1, <1>3, FoundUnchanged
<1>5. DOMAIN regions = VideoIds /\ \A w \in VideoIds : IsFiniteSet(regions[w])
    BY <1>3 DEF EventTypeOK, RegionsInv
<1>6. regions[v] = {} /\ Found(v) # {}
    BY <1>1, <1>3 DEF BuildInv
<1>7. \A w \in VideoIds : regions'[w] = IF w = v THEN Taken(v) ELSE regions[w]
    BY <1>1, <1>5
<1>8. TotalRegions \in Nat /\ TotalRegions <= MaxTotal
    BY <1>3, <1>5, PairsAreFinite DEF RegionsInv
<1>9. /\ Taken(v) \subseteq Kept(v) /\ IsFiniteSet(Taken(v)) /\ Cardinality(Taken(v)) \in Nat
      /\ Cardinality(Taken(v)) <= MaxTotal - TotalRegions
      /\ Cardinality(Taken(v)) <= MaxPerVideo
      /\ Cardinality(Kept(v)) <= MaxTotal - TotalRegions => Taken(v) = Kept(v)
    BY <1>3, <1>8, TakenFacts
<1>10. /\ Kept(v) \subseteq Merged(v) /\ Cardinality(Kept(v)) \in Nat /\ Cardinality(Kept(v)) <= MaxPerVideo
    BY <1>3, KeptFacts
<1>11. Taken(v) \subseteq Regions
    BY <1>3, <1>9, <1>10, MergedFacts
<1>12. EventTypeOK'
    <2>1. regions' \in [VideoIds -> SUBSET Regions]
        BY <1>1, <1>3, <1>11 DEF EventTypeOK
    <2>2. todo' \subseteq VideoIds /\ phase' \in {"regions", "decode"}
        BY <1>2, <1>3 DEF EventTypeOK
    <2> QED BY <1>1, <1>3, <2>1, <2>2 DEF EventTypeOK
<1>13. RegionsInv'
    <2>1. TotalRegions' = TotalRegions + Cardinality(Taken(v))
        BY <1>1, <1>5, <1>6, <1>9, TotalGrows
    <2>2. TotalRegions' <= MaxTotal
        BY <1>8, <1>9, <2>1, Constants
    <2>3. ASSUME NEW w \in VideoIds
          PROVE  IsFiniteSet(regions'[w]) /\ regions'[w] \subseteq Merged(w)' /\ Cardinality(regions'[w]) <= MaxPerVideo
        <3>1. CASE w = v
            BY <1>4, <1>7, <1>9, <1>10, <3>1
        <3>2. CASE w # v
            BY <1>3, <1>4, <1>7, <3>2 DEF RegionsInv
        <3> QED BY <3>1, <3>2
    <2> QED BY <2>2, <2>3 DEF RegionsInv
<1>14. ASSUME MaxPerVideo <= MaxTotal PROVE BestIsIn'
    <2>1. CASE BestIsIn
        <3>1. PICK u \in VideoIds : \E c \in Found(u) :
                  /\ \A w \in VideoIds : \A d \in Found(w) : d.score <= c.score
                  /\ \E r \in regions[u] : c.frame \in r.first..r.last
            BY <2>1 DEF BestIsIn
        <3>2. u # v
            BY <1>6, <3>1
        <3>3. regions'[u] = regions[u]
            BY <1>7, <3>2
        <3> QED BY <1>4, <3>1, <3>3 DEF BestIsIn
    <2>2. CASE ~BestIsIn
        <3>1. (\A w \in VideoIds : regions[w] = {}) /\ todo = {w \in VideoIds : Found(w) # {}}
            BY <1>1, <1>3, <1>14, <2>2 DEF BuildInv
        <3>2. TotalRegions = 0
            BY <3>1, NoRegions
        <3>3. Cardinality(Kept(v)) <= MaxTotal - TotalRegions
            BY <1>10, <1>14, <3>2, Constants
        <3>4. regions'[v] = Kept(v)
            BY <1>7, <1>9, <3>3
        <3>5. \A w \in VideoIds : Found(w) # {} => BestScore(w) <= BestScore(v)
            BY <1>1, <3>1
        <3>6. \E r \in Kept(v) : \E c \in Found(v) :
                  /\ c.frame \in r.first..r.last
                  /\ \A w \in VideoIds : \A d \in Found(w) : d.score <= c.score
            BY <1>3, <1>6, <3>5, BestIsBuilt
        <3> QED BY <1>4, <3>4, <3>6 DEF BestIsIn
    <2> QED BY <2>1, <2>2
<1>15. BuildInv'
    <2>1. ASSUME phase' = "regions", NEW w \in todo' PROVE regions'[w] = {} /\ Found(w) # {}
        <3>1. w \in todo /\ w # v /\ w \in VideoIds
            BY <1>2, <1>3, <2>1 DEF EventTypeOK
        <3>2. regions[w] = {} /\ Found(w) # {}
            BY <1>1, <1>3, <3>1 DEF BuildInv
        <3> QED BY <1>7, <3>1, <3>2
    <2>2. phase' # "refine"
        BY <1>2
    <2> QED BY <1>4, <1>14, <2>1, <2>2 DEF BuildInv
<1>16. DenseInv'
    <2> SUFFICES ASSUME NEW w \in VideoIds, NEW f \in dense'[w] PROVE \E r \in regions'[w] : f \in Targets(r)
        BY DEF DenseInv
    <2>1. PICK r \in regions[w] : f \in Targets(r)
        BY <1>1, <1>3 DEF DenseInv
    <2>2. regions'[w] = regions[w]
        BY <1>6, <1>7, <2>1
    <2> QED BY <2>1, <2>2
<1>17. backend = "siglip2" /\ pool = <<>> /\ answer = Absent
    BY <1>1, <1>3 DEF ShapeInv
<1>18. ShapeInv'
    BY <1>1, <1>2, <1>17 DEF ShapeInv
<1>19. PoolInv'
    BY <1>2 DEF PoolInv
<1>20. AnswerInv'
    BY <1>1, <1>2, <1>17 DEF AnswerInv
<1> QED BY <1>4, <1>12, <1>13, <1>15, <1>16, <1>18, <1>19, <1>20 DEF EventInv

LEMMA DecodeKeepsEventInv == ASSUME NEW v \in VideoIds, EventInv, Decode(v) PROVE EventInv'
<1>1. /\ phase = "decode" /\ v \in todo /\ todo' = todo \ {v} /\ phase' \in {"decode", "merge"}
      /\ backend' = backend /\ found' = found /\ pool' = pool /\ regions' = regions /\ answer' = answer
    BY DEF Decode
<1>2. PICK end \in -1..LastFrame :
          dense' = [dense EXCEPT ![v] = {f \in UNION {Targets(r) : r \in regions[v]} : f <= end}]
    BY DEF Decode
<1>3. EventTypeOK /\ FoundOK /\ ShapeInv /\ RegionsInv /\ BuildInv /\ DenseInv /\ PoolInv /\ AnswerInv
    BY DEF EventInv
<1> DEFINE new == {f \in UNION {Targets(r) : r \in regions[v]} : f <= end}
<1>4. new \subseteq Ordinals
    <2> SUFFICES ASSUME NEW r \in regions[v], NEW f \in Targets(r) PROVE f \in Ordinals
        OBVIOUS
    <2>1. r \in Regions /\ r.first <= r.last
        BY <1>3, MergedFacts DEF RegionsInv
    <2>2. r.first \in Ordinals /\ r.last \in Ordinals
        BY <2>1 DEF Regions
    <2>3. f \in r.first..r.last
        BY <2>1, TargetsAreFew
    <2> QED BY <2>2, <2>3, Constants
<1>5. \A f \in new : \E r \in regions[v] : f \in Targets(r)
    OBVIOUS
<1> HIDE DEF new
<1>6. dense' = [dense EXCEPT ![v] = new]
    BY <1>2, Zenon DEF new
<1>7. EventTypeOK'
    <2>1. dense' \in [VideoIds -> SUBSET Ordinals]
        BY <1>3, <1>4, <1>6 DEF EventTypeOK
    <2>2. todo' \subseteq VideoIds
        BY <1>1, <1>3 DEF EventTypeOK
    <2> QED BY <1>1, <1>3, <2>1, <2>2 DEF EventTypeOK
<1>8. FoundOK' /\ RegionsInv'
    BY <1>1, <1>3, FoundUnchanged, RegionsUnchanged
<1>9. BuildInv'
    <2>1. MaxPerVideo <= MaxTotal => BestIsIn
        BY <1>1, <1>3 DEF BuildInv
    <2>2. MaxPerVideo <= MaxTotal => BestIsIn'
        BY <1>1, <2>1, RegionsUnchanged
    <2> QED BY <1>1, <2>2 DEF BuildInv
<1>10. DenseInv'
    <2> SUFFICES ASSUME NEW w \in VideoIds, NEW f \in dense'[w] PROVE \E r \in regions'[w] : f \in Targets(r)
        BY DEF DenseInv
    <2>1. dense'[w] = IF w = v THEN new ELSE dense[w]
        BY <1>3, <1>6 DEF EventTypeOK
    <2> QED BY <1>1, <1>3, <1>5, <2>1 DEF DenseInv
<1>11. backend = "siglip2" /\ pool = <<>> /\ answer = Absent
    BY <1>1, <1>3 DEF ShapeInv
<1>12. ShapeInv'
    BY <1>1, <1>11 DEF ShapeInv
<1>13. PoolInv'
    BY <1>1 DEF PoolInv
<1>14. AnswerInv'
    BY <1>1, <1>11 DEF AnswerInv
<1> QED BY <1>7, <1>8, <1>9, <1>10, <1>12, <1>13, <1>14 DEF EventInv

LEMMA AlignKeepsEventInv == EventInv /\ Align => EventInv'
<1> SUFFICES ASSUME EventInv, Align PROVE EventInv'
    OBVIOUS
<1>1. /\ phase = "align" /\ backend = "siglip2" /\ phase' = "done"
      /\ backend' = backend /\ found' = found /\ pool' = pool /\ regions' = regions /\ dense' = dense
      /\ todo' = todo
    BY DEF Align
<1>2. EventTypeOK /\ FoundOK /\ ShapeInv /\ RegionsInv /\ BuildInv /\ DenseInv /\ PoolInv /\ AnswerInv
    BY DEF EventInv
<1>3. answer' = Aligned
    <2> DEFINE last == [v \in VideoIds |-> Rows(v)[Len(found)]]
               results == {[video |-> v, frames |-> Best(last[v]).path, score |-> Best(last[v]).score] :
                                v \in {w \in VideoIds : last[w] # {}}}
    <2>1. answer' = IF results = {} THEN Absent
                    ELSE CHOOSE r \in results : \A s \in results :
                            r.score > s.score \/ (r.score = s.score /\ r.video >= s.video)
        BY DEF Align
    <2>2. \A v \in VideoIds : last[v] = LastRow(v)
        BY RowsAreRows DEF LastRow
    <2> HIDE DEF last
    <2>3. results = Results
        BY <2>2 DEF Results
    <2> HIDE DEF results
    <2> QED BY <2>1, <2>3 DEF Aligned
<1>4. CandidateLists(pool)
    BY <1>1, <1>2 DEF PoolInv
<1>5. IsBestAnswer(answer')
    BY <1>2, <1>3, <1>4, AlignedIsBest
<1>6. IsBestAnswer(answer)'
    <2>1. /\ \A v : Sequences(pool, v, MaxGap)' = Sequences(pool, v, MaxGap)
          /\ \A v, p : Value(pool, v, p)' = Value(pool, v, p)
        BY <1>1, AnswersUnchanged
    <2> QED BY <1>5, <2>1 DEF IsBestAnswer
<1>7. EventTypeOK'
    <2>1. answer' \in EventAnswers \cup {Absent}
        BY <1>5 DEF IsBestAnswer
    <2> QED BY <1>1, <1>2, <2>1 DEF EventTypeOK
<1>8. FoundOK' /\ RegionsInv'
    BY <1>1, <1>2, FoundUnchanged, RegionsUnchanged
<1>9. ShapeInv'
    BY <1>1, <1>2 DEF ShapeInv
<1>10. BuildInv'
    BY <1>1 DEF BuildInv
<1>11. DenseInv'
    BY <1>1, <1>2 DEF DenseInv
<1>12. PoolInv'
    <2>1. Events' = Events /\ \A v : Found(v)' = Found(v)
        BY <1>1, FoundUnchanged
    <2>2. CandidateLists(pool)'
        BY <1>1, <1>4, AnswersUnchanged
    <2>3. /\ DOMAIN pool = Events
          /\ \A e \in Events : \A c \in found[e] :
                 \E d \in pool[e] : d.video = c.video /\ d.frame = c.frame /\ c.score <= d.score
          /\ \A e \in Events : \A c \in pool[e] :
                 \E d \in Found(c.video) : c.frame - d.frame \in -Window..Window
        BY <1>1, <1>2 DEF PoolInv
    <2> QED BY <1>1, <2>1, <2>2, <2>3 DEF PoolInv
<1>13. AnswerInv'
    BY <1>1, <1>6 DEF AnswerInv
<1> QED BY <1>7, <1>8, <1>9, <1>10, <1>11, <1>12, <1>13 DEF EventInv

LEMMA GreedyKeepsEventInv == EventInv /\ GreedyAlign => EventInv'
<1> SUFFICES ASSUME EventInv, GreedyAlign PROVE EventInv'
    OBVIOUS
<1> DEFINE full == {v \in VideoIds : Chosen(v)[Len(found)] # Absent}
           v == Min(full)
           sequence == [video |-> v, frames |-> [e \in Events |-> Chosen(v)[e].frame],
                        score |-> TotalScore([e \in Events |-> Chosen(v)[e].score])]
<1>1. /\ phase = "align" /\ backend = "qwen"
      /\ backend' = backend /\ found' = found /\ pool' = pool /\ regions' = regions /\ dense' = dense
      /\ todo' = todo
    BY DEF GreedyAlign
<1>2. \/ full = {} /\ phase' = "refused" /\ answer' = answer
      \/ full # {} /\ phase' = "done" /\ answer' = sequence
    BY DEF GreedyAlign
<1>3. EventTypeOK /\ FoundOK /\ ShapeInv /\ RegionsInv /\ BuildInv /\ DenseInv /\ PoolInv /\ AnswerInv
    BY DEF EventInv
<1>4. answer = Absent /\ pool = <<>>
    BY <1>1, <1>3 DEF ShapeInv
<1>5. ASSUME full # {}
      PROVE  sequence \in EventAnswers /\ sequence.frames \in Sequences(found, sequence.video, Absent)
    <2>1. full \in SUBSET Nat /\ full \subseteq VideoIds
        BY Constants
    <2>2. \A w \in full : Chosen(w)[Len(found)] # Absent
        OBVIOUS
    <2> HIDE DEF full
    <2>3. \E w \in full : \A u \in full : w <= u
        BY <1>5, <2>1, LeastNumber
    <2>4. v \in full
        BY <2>3 DEF Min
    <2> HIDE DEF v
    <2>5. v \in VideoIds /\ Chosen(v) = ChosenOf(v) /\ ChosenOf(v)[Len(found)] # Absent
        BY <2>1, <2>2, <2>4, ChosenIsChosen
    <2> DEFINE p == [e \in Events |-> ChosenOf(v)[e].frame]
               s == TotalScore([e \in Events |-> ChosenOf(v)[e].score])
    <2>6. p \in Sequences(found, v, Absent) /\ p \in Seq(Ordinals) /\ s \in Int
        BY <1>3, <2>5, GreedyIsSequence
    <2>7. sequence = [video |-> v, frames |-> p, score |-> s]
        BY <2>5
    <2> HIDE DEF p, s, sequence
    <2> QED BY <2>5, <2>6, <2>7 DEF EventAnswers
<1> HIDE DEF full, sequence
<1>6. answer' \in EventAnswers \cup {Absent}
    BY <1>2, <1>4, <1>5
<1>7. EventTypeOK'
    BY <1>1, <1>2, <1>3, <1>6 DEF EventTypeOK
<1>8. FoundOK' /\ RegionsInv'
    BY <1>1, <1>3, FoundUnchanged, RegionsUnchanged
<1>9. ShapeInv'
    BY <1>1, <1>2, <1>4 DEF ShapeInv
<1>10. BuildInv'
    BY <1>1, <1>2 DEF BuildInv
<1>11. DenseInv'
    BY <1>1, <1>3 DEF DenseInv
<1>12. PoolInv'
    BY <1>1 DEF PoolInv
<1>13. AnswerInv'
    <2>1. \A w : Sequences(found, w, Absent)' = Sequences(found, w, Absent)
        BY <1>1, AnswersUnchanged
    <2> QED BY <1>1, <1>2, <1>4, <1>5, <2>1 DEF AnswerInv
<1> QED BY <1>7, <1>8, <1>9, <1>10, <1>11, <1>12, <1>13 DEF EventInv

LEMMA RescoredFacts ==
    ASSUME FoundOK, NEW e \in Events, NEW v \in VideoIds, NEW f \in Ordinals, Rescored(e, v, f) # {}
    PROVE  /\ Max(Rescored(e, v, f)) \in Scores
           /\ \A c \in found[e] : c.video = v /\ c.frame = f => c.score <= Max(Rescored(e, v, f))
           /\ (\E c \in found[e] : c.video = v /\ c.frame = f) \/ f \in dense[v]
<1> DEFINE C == {d \in found[e] : d.video = v /\ d.frame = f}
           D == dense[v] \cap {f}
           m == [c \in C |-> c.score]
           n == [g \in D |-> DenseScore[v][e][f]]
           old == {m[c] : c \in C}
           new == {n[g] : g \in D}
           S == Rescored(e, v, f)
<1>1. S = old \cup new
    <2>1. old = {c.score : c \in C} /\ new = {DenseScore[v][e][f] : g \in D}
        OBVIOUS
    <2> HIDE DEF old, new
    <2> QED BY <2>1 DEF Rescored
<1>2. IsFiniteSet(C) /\ IsFiniteSet(D)
    <2>1. IsFiniteSet(found[e])
        BY DEF FoundOK
    <2>2. IsFiniteSet({f})
        BY FS_Singleton
    <2>3. C \subseteq found[e] /\ D \subseteq {f}
        OBVIOUS
    <2> HIDE DEF C, D
    <2> QED BY <2>1, <2>2, <2>3, FS_Subset
<1>3. \A x \in old : \E c \in C : x = c.score
    OBVIOUS
<1>4. \A c \in C : c.score \in old
    OBVIOUS
<1>5. \A x \in new : x = DenseScore[v][e][f] /\ D # {}
    OBVIOUS
<1>6. C \subseteq found[e] /\ (\A c \in C : c.video = v /\ c.frame = f) /\ (D # {} => f \in dense[v])
      /\ \A c \in found[e] : c.video = v /\ c.frame = f => c \in C
    OBVIOUS
<1>7. IsFiniteSet(S)
    <2> HIDE DEF m, n, C, D
    <2>1. IsFiniteSet(old) /\ IsFiniteSet(new)
        BY <1>2, ImageIsFinite
    <2> HIDE DEF old, new, S
    <2> QED BY <1>1, <2>1, FS_Union
<1> HIDE DEF m, n, C, D, old, new
<1>8. S \subseteq Scores
    <2>1. DenseScore[v][e][f] \in Scores
        BY DEF FoundOK
    <2>2. \A c \in found[e] : c.score \in Scores
        <3>1. found[e] \subseteq Candidates
            BY DEF FoundOK
        <3> QED BY <3>1, CandidateFacts
    <2> QED BY <1>1, <1>3, <1>5, <1>6, <2>1, <2>2
<1>9. S # {}
    OBVIOUS
<1>10. (\E c \in found[e] : c.video = v /\ c.frame = f) \/ f \in dense[v]
    BY <1>1, <1>3, <1>5, <1>6, <1>9
<1>11. Max(S) \in S /\ \A y \in S : y <= Max(S)
    <2>1. S \subseteq Int
        BY <1>8, FramesAreNumbers
    <2> HIDE DEF S
    <2> QED BY <1>7, <1>9, <2>1, FiniteMax
<1>12. \A c \in found[e] : c.video = v /\ c.frame = f => c.score <= Max(S)
    BY <1>1, <1>4, <1>6, <1>11
<1> QED BY <1>8, <1>10, <1>11, <1>12

LEMMA FoundIsRescored ==
    ASSUME NEW e, NEW c \in found[e]
    PROVE  Rescored(e, c.video, c.frame) # {}
BY DEF Rescored

LEMMA DenseIsNear ==
    ASSUME FoundOK, RegionsInv, DenseInv, NEW v \in VideoIds, NEW f \in dense[v]
    PROVE  \E c \in Found(v) : f - c.frame \in -Window..Window
<1>1. PICK r \in regions[v] : f \in Targets(r)
    BY DEF DenseInv
<1>2. r \in Merged(v)
    BY DEF RegionsInv
<1>3. r \in Regions /\ r.first <= r.last
    BY <1>2, MergedFacts
<1>4. f \in r.first..r.last
    BY <1>1, <1>3, TargetsAreFew
<1> QED BY <1>2, <1>4, MergedFacts

LEMMA MergeKeepsEventInv == EventInv /\ Merge => EventInv'
<1> SUFFICES ASSUME EventInv, Merge PROVE EventInv'
    OBVIOUS
<1> DEFINE Entry(e, x) == [video |-> x[1], frame |-> x[2], score |-> Max(Rescored(e, x[1], x[2]))]
           Scored(e) == {y \in VideoIds \X Ordinals : Rescored(e, y[1], y[2]) # {}}
           List(e) == {Entry(e, x) : x \in Scored(e)}
<1>1. /\ phase = "merge" /\ phase' = "align"
      /\ backend' = backend /\ found' = found /\ regions' = regions /\ dense' = dense
      /\ todo' = todo /\ answer' = answer
    BY DEF Merge
<1>2. pool' = [e \in Events |-> List(e)]
    BY DEF Merge
<1>3. EventTypeOK /\ FoundOK /\ ShapeInv /\ RegionsInv /\ BuildInv /\ DenseInv /\ PoolInv /\ AnswerInv
    BY DEF EventInv
<1>4. \A e \in Events : \A x \in Scored(e) :
          /\ x[1] \in VideoIds /\ x[2] \in Ordinals /\ Rescored(e, x[1], x[2]) # {} /\ x = <<x[1], x[2]>>
          /\ Entry(e, x).video = x[1] /\ Entry(e, x).frame = x[2]
          /\ Entry(e, x).score = Max(Rescored(e, x[1], x[2]))
          /\ Max(Rescored(e, x[1], x[2])) \in Scores => Entry(e, x) \in Candidates
    BY DEF Candidates
<1>5. \A e, v, f : v \in VideoIds /\ f \in Ordinals /\ Rescored(e, v, f) # {} => <<v, f>> \in Scored(e)
    OBVIOUS
<1>6. \A e : Scored(e) \subseteq VideoIds \X Ordinals
    OBVIOUS
<1> HIDE DEF Entry, Scored
<1>7. ASSUME NEW e \in Events, NEW c \in List(e)
      PROVE  /\ c \in Candidates
             /\ \A d \in found[e] : d.video = c.video /\ d.frame = c.frame => d.score <= c.score
             /\ \E d \in Found(c.video) : c.frame - d.frame \in -Window..Window
    <2>1. PICK x \in Scored(e) : c = Entry(e, x)
        OBVIOUS
    <2> DEFINE v == x[1]
               f == x[2]
    <2>2. /\ v \in VideoIds /\ f \in Ordinals /\ Rescored(e, v, f) # {}
          /\ c.video = v /\ c.frame = f /\ c.score = Max(Rescored(e, v, f))
          /\ Max(Rescored(e, v, f)) \in Scores => c \in Candidates
        BY <1>4, <2>1
    <2> HIDE DEF v, f
    <2>3. /\ Max(Rescored(e, v, f)) \in Scores
          /\ \A d \in found[e] : d.video = v /\ d.frame = f => d.score <= Max(Rescored(e, v, f))
          /\ (\E d \in found[e] : d.video = v /\ d.frame = f) \/ f \in dense[v]
        BY <1>3, <2>2, RescoredFacts
    <2>4. CASE \E d \in found[e] : d.video = v /\ d.frame = f
        <3>1. PICK d \in found[e] : d.video = v /\ d.frame = f
            BY <2>4
        <3>2. d \in Found(v)
            BY <3>1 DEF Found
        <3>3. f \in Int /\ Window \in Nat
            BY <2>2, FramesAreNumbers, Constants
        <3>4. f - d.frame \in -Window..Window
            BY <3>1, <3>3
        <3> QED BY <2>2, <2>3, <3>2, <3>4
    <2>5. CASE f \in dense[v]
        <3>1. \E d \in Found(v) : f - d.frame \in -Window..Window
            BY <1>3, <2>2, <2>5, DenseIsNear
        <3> QED BY <2>2, <2>3, <3>1
    <2> QED BY <2>3, <2>4, <2>5
<1>8. ASSUME NEW e \in Events
      PROVE  /\ IsFiniteSet(List(e))
             /\ \A c, d \in List(e) : c.video = d.video /\ c.frame = d.frame => c = d
    <2>1. IsFiniteSet(VideoIds) /\ IsFiniteSet(Ordinals)
        BY Constants, FS_Interval
    <2>2. IsFiniteSet(VideoIds \X Ordinals)
        BY <2>1, FS_Product, Zenon
    <2>3. IsFiniteSet(Scored(e))
        BY <1>6, <2>2, FS_Subset
    <2> DEFINE m == [x \in Scored(e) |-> Entry(e, x)]
    <2>4. List(e) = {m[x] : x \in Scored(e)}
        OBVIOUS
    <2>5. \A c, d \in List(e) : c.video = d.video /\ c.frame = d.frame => c = d
        <3> SUFFICES ASSUME NEW x \in Scored(e), NEW y \in Scored(e),
                            Entry(e, x).video = Entry(e, y).video, Entry(e, x).frame = Entry(e, y).frame
                     PROVE  Entry(e, x) = Entry(e, y)
            OBVIOUS
        <3>1. x = y
            BY <1>4
        <3> QED BY <3>1
    <2> HIDE DEF m, List
    <2>6. IsFiniteSet(List(e))
        BY <2>3, <2>4, ImageIsFinite
    <2> QED BY <2>5, <2>6
<1>9. ASSUME NEW e \in Events, NEW c \in found[e]
      PROVE  \E d \in List(e) : d.video = c.video /\ d.frame = c.frame
    <2>1. c \in Candidates
        BY <1>3 DEF FoundOK
    <2> DEFINE x == <<c.video, c.frame>>
    <2>2. x \in Scored(e)
        BY <1>5, <2>1, CandidateFacts, FoundIsRescored
    <2>3. Entry(e, x).video = c.video /\ Entry(e, x).frame = c.frame
        BY <1>4, <2>2
    <2> QED BY <2>2, <2>3
<1> HIDE DEF List
<1>10. \A e \in Events : pool'[e] = List(e)
    BY <1>2
<1>11. DOMAIN pool' = Events /\ Events' = Events /\ (\A v : Found(v)' = Found(v)) /\ FoundOK' /\ RegionsInv'
    BY <1>1, <1>2, <1>3, FoundUnchanged, RegionsUnchanged
<1>12. EventTypeOK'
    <2>1. Events = 1..Len(found) /\ Len(found) \in Nat
        BY <1>3 DEF FoundOK
    <2>2. pool' \in [1..Len(found) -> SUBSET Candidates]
        BY <1>2, <1>7, <2>1
    <2>3. pool' \in Seq(SUBSET Candidates)
        BY <2>1, <2>2
    <2> QED BY <1>1, <1>3, <2>3 DEF EventTypeOK
<1>13. backend = "siglip2" /\ answer = Absent
    BY <1>1, <1>3 DEF ShapeInv
<1>14. ShapeInv'
    BY <1>1, <1>13 DEF ShapeInv
<1>15. BuildInv'
    BY <1>1 DEF BuildInv
<1>16. DenseInv'
    BY <1>1, <1>3 DEF DenseInv
<1>17. AnswerInv'
    BY <1>1, <1>13 DEF AnswerInv
<1>18. PoolInv'
    <2>1. CandidateLists(pool)'
        BY <1>7, <1>8, <1>10, <1>11 DEF CandidateLists
    <2>2. ASSUME NEW e \in Events, NEW c \in found[e]
          PROVE  \E d \in pool'[e] : d.video = c.video /\ d.frame = c.frame /\ c.score <= d.score
        BY <1>7, <1>9, <1>10
    <2>3. ASSUME NEW e \in Events, NEW c \in pool'[e]
          PROVE  \E d \in Found(c.video) : c.frame - d.frame \in -Window..Window
        BY <1>7, <1>10
    <2> QED BY <1>1, <1>11, <2>1, <2>2, <2>3 DEF PoolInv
<1> QED BY <1>11, <1>12, <1>14, <1>15, <1>16, <1>17, <1>18 DEF EventInv

LEMMA StutterKeepsEventInv == EventInv /\ UNCHANGED eventVars => EventInv'
<1> SUFFICES ASSUME EventInv, UNCHANGED eventVars PROVE EventInv'
    OBVIOUS
<1>1. /\ backend' = backend /\ found' = found /\ pool' = pool /\ regions' = regions /\ dense' = dense
      /\ todo' = todo /\ phase' = phase /\ answer' = answer
    BY DEF eventVars
<1>2. EventTypeOK /\ FoundOK /\ ShapeInv /\ RegionsInv /\ BuildInv /\ DenseInv /\ PoolInv /\ AnswerInv
    BY DEF EventInv
<1>3. Events' = Events /\ FoundOK' /\ \A v : Found(v)' = Found(v)
    BY <1>1, <1>2, FoundUnchanged
<1>4. RegionsInv' /\ (BestIsIn => BestIsIn')
    BY <1>1, <1>2, RegionsUnchanged
<1>5. EventTypeOK' /\ ShapeInv'
    BY <1>1, <1>2 DEF EventTypeOK, ShapeInv
<1>6. BuildInv'
    BY <1>1, <1>2, <1>3, <1>4 DEF BuildInv
<1>7. DenseInv'
    BY <1>1, <1>2 DEF DenseInv
<1>8. /\ CandidateLists(pool) => CandidateLists(pool)'
      /\ \A v : Sequences(pool, v, MaxGap)' = Sequences(pool, v, MaxGap)
      /\ \A v, p : Value(pool, v, p)' = Value(pool, v, p)
      /\ \A v : Sequences(found, v, Absent)' = Sequences(found, v, Absent)
    BY <1>1, AnswersUnchanged
<1>9. PoolInv'
    BY <1>1, <1>2, <1>3, <1>8 DEF PoolInv
<1>10. AnswerInv'
    <2>1. IsBestAnswer(answer) => IsBestAnswer(answer)'
        BY <1>1, <1>8 DEF IsBestAnswer
    <2> QED BY <1>1, <1>2, <1>8, <2>1 DEF AnswerInv
<1> QED BY <1>3, <1>4, <1>5, <1>6, <1>7, <1>9, <1>10 DEF EventInv

\* The invariant of a request, at every step of search_trake and of the refinement.
THEOREM EventInvariant == EventSpec => []EventInv
<1>1. EventInit => EventInv
    BY InitIsEventInv
<1>2. EventInv /\ [EventNext]_eventVars => EventInv'
    <2> SUFFICES ASSUME EventInv, [EventNext]_eventVars PROVE EventInv'
        OBVIOUS
    <2>1. CASE SkipRefinement
        BY <2>1, SkipKeepsEventInv
    <2>2. CASE StartRefinement
        BY <2>2, StartKeepsEventInv
    <2>3. ASSUME NEW v \in VideoIds, BuildRegions(v) PROVE EventInv'
        BY <2>3, BuildKeepsEventInv
    <2>4. ASSUME NEW v \in VideoIds, Decode(v) PROVE EventInv'
        BY <2>4, DecodeKeepsEventInv
    <2>5. CASE Merge
        BY <2>5, MergeKeepsEventInv
    <2>6. CASE FallBack
        BY <2>6, FallBackKeepsEventInv
    <2>7. CASE Align
        BY <2>7, AlignKeepsEventInv
    <2>8. CASE GreedyAlign
        BY <2>8, GreedyKeepsEventInv
    <2>9. CASE UNCHANGED eventVars
        BY <2>9, StutterKeepsEventInv
    <2> QED BY <2>1, <2>2, <2>3, <2>4, <2>5, <2>6, <2>7, <2>8, <2>9 DEF EventNext
<1> QED BY <1>1, <1>2, PTL DEF EventSpec

-----------------------------------------------------------------------------
(* What follows from it                                                    *)

\* The dynamic program of TRAKEAligner.align finds the best of all sequences that
\* its candidates allow, in any number of events and videos, with any penalty
\* and gap limit; and what the greedy alignment of the Qwen backend answers is
\* a sequence of what the searches found.
THEOREM AlignmentIsBest == EventSpec => []BestSequence
<1>1. EventInv => BestSequence
    <2> SUFFICES ASSUME EventInv PROVE BestSequence
        OBVIOUS
    <2>1. EventTypeOK /\ FoundOK /\ ShapeInv /\ AnswerInv
        BY DEF EventInv
    <2>2. ASSUME answer # Absent
          PROVE  IF backend = "qwen" THEN answer.frames \in Sequences(found, answer.video, Absent)
                                     ELSE answer.frames \in Sequences(pool, answer.video, MaxGap)
        <3>1. phase = "done"
            BY <2>1, <2>2 DEF ShapeInv
        <3>2. backend \in {"siglip2", "qwen"}
            BY <2>1 DEF EventTypeOK, Backends
        <3>3. backend = "siglip2" => IsBestAnswer(answer)
            BY <2>1, <3>1 DEF AnswerInv
        <3>4. IsBestAnswer(answer) => answer.frames \in Sequences(pool, answer.video, MaxGap)
            BY <2>2 DEF IsBestAnswer
        <3>5. backend = "qwen" => answer.frames \in Sequences(found, answer.video, Absent)
            BY <2>1, <2>2 DEF AnswerInv
        <3> QED BY <3>2, <3>3, <3>4, <3>5
    <2>3. ASSUME phase = "done", backend = "siglip2"
          PROVE  /\ \A v \in VideoIds : \A p \in Sequences(pool, v, MaxGap) :
                        /\ answer # Absent
                        /\ \/ Value(pool, v, p) < answer.score
                           \/ Value(pool, v, p) = answer.score /\ v <= answer.video
                 /\ answer # Absent => answer.score = Value(pool, answer.video, answer.frames)
        <3>1. IsBestAnswer(answer)
            BY <2>1, <2>3 DEF AnswerInv
        <3> QED BY <3>1 DEF IsBestAnswer
    <2> QED BY <2>2, <2>3 DEF BestSequence
<1> QED BY <1>1, EventInvariant, PTL

\* A sequence of what was found is one of the refined candidates, and not worse.
LEMMA PoolIsNotWorse ==
    ASSUME FoundOK, PoolInv, phase = "done", backend = "siglip2", NEW v \in VideoIds,
           NEW p \in Sequences(found, v, MaxGap)
    PROVE  /\ p \in Sequences(pool, v, MaxGap)
           /\ Value(found, v, p) \in Int /\ Value(found, v, p) <= Value(pool, v, p)
<1> DEFINE N == Len(found)
           t == TotalOf(ScoresOn(found, v, p))
           u == TotalOf(ScoresOn(pool, v, p))
           w == Penalty * (p[N] - p[1])
<1>1. N \in Nat \ {0} /\ Events = 1..N /\ N \in Events
    BY DEF FoundOK
<1>2. CandidateLists(pool) /\ CandidateLists(found)
    BY DEF PoolInv, CandidateLists, FoundOK
<1>3. \A e \in Events : \A c \in found[e] :
          \E d \in pool[e] : d.video = c.video /\ d.frame = c.frame /\ c.score <= d.score
    BY DEF PoolInv
<1>4. p \in Sequences(pool, v, MaxGap)
    <2>1. /\ p \in [Events -> Ordinals]
          /\ \A e \in Events : \E c \in found[e] : c.video = v /\ c.frame = p[e]
          /\ \A e \in Events \ {1} :
                /\ p[e - 1] < p[e]
                /\ MaxGap # Absent => p[e] - p[e - 1] <= MaxGap
        BY DEF Sequences
    <2>2. \A e \in Events : \E c \in pool[e] : c.video = v /\ c.frame = p[e]
        BY <1>3, <2>1
    <2> QED BY <2>1, <2>2 DEF Sequences
<1>5. IsPath(found, v, N, p) /\ IsPath(pool, v, N, p)
    BY <1>4, SequencesArePaths
<1>6. IsSum(found, v, N, p, t) /\ IsSum(pool, v, N, p, u)
    BY <1>2, <1>5, PathHasSum
<1>7. ASSUME NEW i \in 1..N
      PROVE  /\ ScoreAt(found[i], v, p[i]) \in Int /\ ScoreAt(pool[i], v, p[i]) \in Int
             /\ ScoreAt(found[i], v, p[i]) <= ScoreAt(pool[i], v, p[i])
    <2>1. PICK c \in found[i] : c.video = v /\ c.frame = p[i]
        BY <1>5 DEF IsPath
    <2>2. PICK d \in pool[i] : d.video = v /\ d.frame = p[i] /\ c.score <= d.score
        BY <1>1, <1>3, <2>1
    <2>3. ScoreAt(found[i], v, p[i]) = c.score /\ c.score \in Int
        BY <1>1, <1>2, <2>1, ScoreIsOfCandidate
    <2>4. ScoreAt(pool[i], v, p[i]) = d.score /\ d.score \in Int
        BY <1>1, <1>2, <2>2, ScoreIsOfCandidate
    <2> QED BY <2>2, <2>3, <2>4
<1>8. Value(found, v, p) = t[N] - w /\ Value(pool, v, p) = u[N] - w
    BY <1>2, <1>5, <1>6, ValueIsSum
<1> HIDE DEF t, u
<1>9. t[N] <= u[N]
    BY <1>1, <1>6, <1>7, SumsAreMonotone
<1>10. t[N] \in Int /\ u[N] \in Int /\ w \in Int
    <2>1. N \in 1..N /\ 1 \in 1..N
        BY <1>1
    <2>2. t[N] \in Int /\ u[N] \in Int
        BY <1>6, <2>1 DEF IsSum
    <2>3. p[N] \in Ordinals /\ p[1] \in Ordinals
        BY <1>5, <2>1 DEF IsPath
    <2>4. p[N] \in Int /\ p[1] \in Int
        BY <2>3, FramesAreNumbers
    <2> QED BY <2>2, <2>4, PenaltyIsLinear
<1> HIDE DEF w
<1>11. t[N] - w \in Int /\ t[N] - w <= u[N] - w
    BY <1>9, <1>10
<1> QED BY <1>4, <1>8, <1>11, Zenon

\* Refinement never makes the answer worse, whatever was decoded, whatever the dense
\* scores are and wherever it failed.
THEOREM RefinementNeverLoses == EventSpec => []RefinementKeeps
<1>1. EventInv => RefinementKeeps
    <2> SUFFICES ASSUME EventInv, phase = "done", backend = "siglip2",
                        NEW v \in VideoIds, NEW p \in Sequences(found, v, MaxGap)
                 PROVE  answer # Absent /\ Value(found, v, p) <= answer.score
        BY DEF RefinementKeeps
    <2>1. FoundOK /\ PoolInv /\ EventTypeOK /\ IsBestAnswer(answer)
        BY DEF EventInv, AnswerInv
    <2>2. /\ p \in Sequences(pool, v, MaxGap)
          /\ Value(found, v, p) \in Int /\ Value(found, v, p) <= Value(pool, v, p)
        BY <2>1, PoolIsNotWorse
    <2>3. /\ answer # Absent /\ Value(pool, v, p) \in Int
          /\ Value(pool, v, p) < answer.score \/ Value(pool, v, p) = answer.score
        BY <2>1, <2>2 DEF IsBestAnswer
    <2>4. answer.score \in Int
        <3>1. answer \in EventAnswers
            BY <2>1, <2>3 DEF EventTypeOK
        <3> QED BY <3>1 DEF EventAnswers
    <2> DEFINE a == Value(found, v, p)
               b == Value(pool, v, p)
               s == answer.score
    <2>5. a \in Int /\ b \in Int /\ s \in Int /\ a <= b /\ (b < s \/ b = s)
        BY <2>2, <2>3, <2>4
    <2> HIDE DEF a, b, s
    <2>6. a <= s
        BY <2>5
    <2> QED BY <2>3, <2>6 DEF a, s
<1> QED BY <1>1, EventInvariant, PTL

\* The regions of build_candidate_regions are no more than the limits on their number
\* allow, no two overlap, every candidate of the refinement is near to one that was
\* found, and the best candidate is in a region, if the limit on the sum is not below
\* the one per video.
THEOREM RegionsStaySound == MaxPerVideo <= MaxTotal => (EventSpec => []RegionsAreSound)
<1> SUFFICES ASSUME MaxPerVideo <= MaxTotal PROVE EventSpec => []RegionsAreSound
    OBVIOUS
<1>1. EventInv => RegionsAreSound
    <2> SUFFICES ASSUME EventInv PROVE RegionsAreSound
        OBVIOUS
    <2>1. EventTypeOK /\ FoundOK /\ ShapeInv /\ RegionsInv /\ BuildInv /\ PoolInv
        BY DEF EventInv
    <2>2. BestCandidateIsRefined
        <3>1. phase \in {"decode", "merge"} => BestIsIn
            BY <2>1 DEF BuildInv
        <3> QED BY <3>1 DEF BestCandidateIsRefined, BestIsIn
    <2>3. \A e \in DOMAIN pool : \A c \in pool[e] :
              \E d \in Found(c.video) : c.frame - d.frame \in -Window..Window
        <3>1. CASE pool = <<>>
            BY <3>1
        <3>2. CASE pool # <<>>
            <4>1. phase \in {"align", "done"} /\ backend = "siglip2"
                BY <2>1, <3>2 DEF ShapeInv, EventTypeOK, Backends
            <4> QED BY <2>1, <4>1 DEF PoolInv
        <3> QED BY <3>1, <3>2
    <2>4. ASSUME NEW v \in VideoIds
          PROVE  /\ Cardinality(regions[v]) <= MaxPerVideo
                 /\ \A r, q \in regions[v] : r # q => r.last < q.first \/ q.last < r.first
        <3>1. regions[v] \subseteq Merged(v) /\ Cardinality(regions[v]) <= MaxPerVideo
            BY <2>1 DEF RegionsInv
        <3>2. \A r, q \in regions[v] : r # q => r.last < q.first \/ q.last < r.first
            BY <2>1, <3>1, MergedFacts
        <3> QED BY <3>1, <3>2
    <2> QED BY <2>1, <2>2, <2>3, <2>4 DEF RegionsAreSound, RegionsInv
<1> QED BY <1>1, EventInvariant, PTL

\* Targets of _decode_video_regions: a region is decoded at no more than one frame over
\* max_frames_per_region (the step is made from its length, which is one less than the
\* number of its frames).
THEOREM RegionsHaveOneFrameMore ==
    EventSpec => [](\A v \in VideoIds : \A r \in regions[v] : Cardinality(Targets(r)) <= MaxFrames + 1)
<1>1. EventInv => \A v \in VideoIds : \A r \in regions[v] : Cardinality(Targets(r)) <= MaxFrames + 1
    <2> SUFFICES ASSUME EventInv, NEW v \in VideoIds, NEW r \in regions[v]
                 PROVE  Cardinality(Targets(r)) <= MaxFrames + 1
        OBVIOUS
    <2>1. EventTypeOK /\ FoundOK /\ RegionsInv
        BY DEF EventInv
    <2>2. r \in Merged(v)
        BY <2>1 DEF RegionsInv
    <2>3. r \in Regions /\ r.first <= r.last
        BY <2>1, <2>2, MergedFacts
    <2> QED BY <2>3, TargetsAreFew
<1> QED BY <1>1, EventInvariant, PTL
================================================================================
