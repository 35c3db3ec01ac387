------------------------------ MODULE MCServices ------------------------------
(* Words, plans, ranges, shards, OCR configurations and videos for TLC. *)
EXTENDS Services

Word(text, kinds) == [text |-> text, bare |-> text, kinds |-> kinds]

MCObjectTerms == {<<"xe">>, <<"xe", "lam">>, <<"bien">>}
MCExcluded == [t \in {<<"bien">>} |-> {<<"bien", "so">>}]

Xe == Word("xe", {})
Lam == Word("lam", {"cultural"})
Bien == Word("bien", {})
So == Word("so", {})
Tadano == Word("tadano", {"upper", "capital"})
tadano == Word("tadano", {})
Dotted == [text |-> "tp.hcm", bare |-> "tphcm", kinds |-> {"upper", "capital"}]
Plate == Word("79h-6072", {"plate", "code"})
Red == Word("do", {"color"})
Written == Word("do", {"color", "capital"})
Label == Word("ma so", {"label"})
Find == Word("tim", {"intent"})
Who == Word("ai", {"wh"})
What == Word("la gi", {"unknown"})
Is1 == Word("la", {"copula"})
Comma == Word(",", {"comma"})
Bar == Word("|", {"bar"})
Doing == Word("doing", {"doing", "english"})
Did == Word("did", {"auxiliary", "english"})
Name == Word("hai van", {"name", "capital"})

Load(who, queries, kinds, often, backend, installed) ==
    [clients |-> who, queries |-> queries, kinds |-> kinds, searches |-> often, backend |-> backend, installed |-> installed]

\* One client and every short query; a question or two; two clients, or one with events, and queries that
\* differ in case only.
MCWords == {Xe, Lam, Tadano, tadano, Dotted, Plate, Label, Find, Comma}
MCWorkloads ==
    {Load({1}, {q}, {"kis"}, 1, "deterministic", FALSE) : q \in UNION {[1..n -> MCWords] : n \in 1..3}}
    \cup {Load({1}, {q}, {"trake"}, 1, "deterministic", FALSE) : q \in UNION {[1..n -> {Xe, Tadano, Find, Comma, Bar}] : n \in 1..3}}
    \cup {Load({1}, {q}, {"kis", "qa", "trake"}, 2, b, TRUE) : b \in {"auto", "off"},
             q \in {<<Bien, So, Plate>>, <<Find, Xe, Lam, Label, Plate, Comma, Red, Xe>>, <<Who, Did, Doing, What>>,
                    <<What, Doing, Xe, Is1>>, <<Name, Bar, Bar, Bien>>, <<Who, Name, Is1, What>>, <<Is1, What>>,
                    <<Label, tadano, Comma, Tadano, What>>}}
    \cup {Load({1}, {<<Tadano>>, <<Red, Xe>>, <<tadano>>}, {"kis"}, 3, "auto", FALSE),
          Load({1}, {<<Red, Bar, Xe>>, <<Written, Bar, Xe>>}, {"trake"}, 2, "deterministic", FALSE),
          Load({1, 2}, {<<Tadano, Xe>>, <<tadano, Xe>>}, {"kis"}, 2, "auto", TRUE)}

MCResponses ==
    {[vi |-> <<Xe, Red>>, en |-> <<Doing>>, kept |-> <<Lam>>, stages |-> <<<<Xe>>, <<Red>>>>],
     [vi |-> <<>>, en |-> <<Doing, Red>>, kept |-> <<>>, stages |-> <<>>]}

Ask(kind, first, last) == [kind |-> kind, first |-> first, last |-> last]
MCRanges ==
    {Ask("none", 0, 0), Ask("many", 0, 0), Ask("first", 0, 0), Ask("first", 1, 0), Ask("first", 2, 0),
     Ask("both", 0, 0), Ask("both", 1, 3), Ask("both", 2, 1), Ask("last", 0, 0), Ask("last", 0, 1), Ask("last", 0, 3)}

Hit(f, s, p) == [frame |-> f, score |-> s, place |-> p]
MCHits == {<<{Hit(1, 4, 1), Hit(2, 3, 2)}, {Hit(2, 4, 1), Hit(3, 1, 2)}>>,
           <<{Hit(3, 2, 1), Hit(1, 1, 2), Hit(4, 1, 3)}, {Hit(1, 4, 1), Hit(2, 3, 2)}>>,
           <<{}, {Hit(3, 2, 1), Hit(1, 1, 2), Hit(4, 1, 3)}>>}
MCSetups ==
    {[kind |-> k, order |-> [q \in Queries |-> <<2, 1>>], hits |-> [q \in Queries |-> h], mode |-> m, size |-> 1, ttl |-> (k = "m10")]
        : k \in {"distributed", "m10"}, h \in MCHits, m \in {"hash", "single", "broadcast"}}

MCReaders ==
    {[onEmpty |-> TRUE, onError |-> e, onLow |-> l, threshold |-> t] : e, l \in BOOLEAN, t \in {2}}

\* Up to four frames with gaps, one of them perhaps without a time.
MCTimes ==
    LET Increasing(s) == \A i, j \in DOMAIN s : i < j => s[i] < s[j]
    IN  UNION {{s \in [1..n -> {-1, 0, 2, 3, 7}] : Increasing(s)} : n \in 1..4}
MCRecordings ==
    {[times |-> t, shots |-> c, interval |-> i, sparse |-> c # <<>>, dedup |-> d, look |-> [f \in 1..5 |-> IF d THEN f ELSE 0]] :
        t \in MCTimes \cup {<<NoTime>>} \cup {<<s[1], NoTime>> \o Tail(s) : s \in MCTimes}, i \in {1, 3}, d \in BOOLEAN,
        c \in {<<>>, <<<<0, 2>>, <<2, 7>>>>, <<<<1, 4>>, <<3, 4>>>>, <<<<5, 6>>, <<3, 1>>>>}}

\* Environments of at most two variables, on three machines.
Variables == {"SEARCH_MODEL_DEVICE", "VISUAL_DEVICE", "ASR_DEVICE", "OCR_DEVICE", "LLM_DEVICE", "VIDEO_INGEST_DEVICE", "COMPUTE_DEVICE"}
OptionNames == {"device", "asr_device", "ocr_device", "asr_compute_type"}
Given(names, f) == [n \in names |-> IF n \in DOMAIN f THEN f[n] ELSE Unset]
Environments(names) ==
    UNION {{Given(Variables, n :> d @@ m :> e) : d \in {AnyDevice, Cpu}, e \in {Cpu, Cuda(0), Cuda(1), Malformed}} : n, m \in names}
Plain == Given(OptionNames, <<>>)
MCOptions ==
    {Given(OptionNames, o :> d) : o \in {"device", "asr_device", "ocr_device"}, d \in {Unset, AnyDevice, Cpu, Cuda(1)}}
    \cup {Given(OptionNames, "asr_compute_type" :> Cpu)}
Runtimes(torch, ctranslate2, paddle) ==
    LET Of(gpus) == [installed |-> gpus >= 0, gpus |-> IF gpus > 0 THEN gpus ELSE 0]
    IN  [torch |-> Of(torch), ctranslate2 |-> Of(ctranslate2), paddle |-> Of(paddle), cpu |-> Of(0)]
Machines == {Runtimes(2, 1, 2), Runtimes(1, -1, -1), Runtimes(0, 0, 0)}
\* What the pieces lose when they are tokenised again: nothing, a token each, or one of
\* them more than the overlap.
Lengths == 0..20
MCLost ==
    {[l \in Lengths |-> [n \in Lengths |-> 0]], [l \in Lengths |-> [n \in Lengths |-> n % 2]],
     [l \in Lengths |-> [n \in Lengths |-> 1]], [l \in Lengths |-> [n \in Lengths |-> IF n = 1 /\ l = 9 THEN 2 ELSE 1]]}
Site(process, env, options, engine, machine, todo) ==
    [process |-> process, env |-> env, options |-> options, engine |-> engine, runtimes |-> machine, calls |-> todo,
     truncates |-> FALSE, lost |-> [l \in Lengths |-> [n \in Lengths |-> 0]]]
Encode(kind, items, asked) == [kind |-> kind, items |-> items, asked |-> asked]
MCCalls ==
    {Encode("image", [i \in 1..n |-> i], a) : n \in {0, 1, 5, 9}, a \in {Unset, 3}}
    \cup {Encode("text", t, a) : t \in {<<>>, <<0, 7, 3>>, <<12, 6>>, <<4, 5>>, <<9>>, <<20>>}, a \in {Unset, 2}}
MCSites ==
    {Site("server", e, Plain, "auto", m, {}) :
        e \in Environments({"SEARCH_MODEL_DEVICE", "VISUAL_DEVICE", "LLM_DEVICE", "COMPUTE_DEVICE"}), m \in Machines}
    \cup {Site("preprocess", e, o, "auto", m, {}) :
        e \in Environments({"VISUAL_DEVICE", "VIDEO_INGEST_DEVICE", "COMPUTE_DEVICE"}), o \in {Plain, Given(OptionNames, "device" :> Cuda(0))}, m \in Machines}
    \cup {Site("text", e, o, n, m, {}) :
        e \in Environments({"OCR_DEVICE", "ASR_DEVICE"}), o \in MCOptions, n \in {"auto", "tesseract", "paddleocr", "easyocr"}, m \in Machines}
    \cup {Site(p, Given(Variables, "COMPUTE_DEVICE" :> d), Plain, "auto", Runtimes(2, 1, 2), {c}) :
        p \in {"server", "ingest"}, d \in {Cpu, AnyDevice}, c \in MCCalls}
    \cup {[Site("server", Given(Variables, <<>>), Plain, "auto", Runtimes(2, 1, 2), {c}) EXCEPT !.truncates = t, !.lost = l] :
        t \in BOOLEAN, l \in MCLost, c \in {b \in MCCalls : b.kind = "text"}}
=============================================================================
