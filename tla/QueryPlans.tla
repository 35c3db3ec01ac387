------------------------------- MODULE QueryPlans -------------------------------
(***************************************************************************)
(* QueryRefiner: the plans of concurrent searches, their cache in memory   *)
(* and on disk, and the language model that is loaded by the first search. *)
(*                                                                         *)
(* The refiner is made on first use, without a lock: two first searches    *)
(* may make two, each with its memory and its model, over one directory.   *)
(***************************************************************************)
EXTENDS QueryParser, FiniteSets

CONSTANTS
    Clients,      \* threads that search
    Workloads,    \* [clients, queries, kinds, searches, backend, installed]: who searches for what
                  \* and how often, and whether the weights of the model are there
    Responses,    \* valid answers of the language model
    MaxMemory,    \* max_mem_entries
    MaxRefiners,  \* bound of the model
    None

ASSUME PlanAssumption == MaxMemory \in Nat \ {0} /\ MaxRefiners \in Nat /\ None \notin Clients

\* A term that means something else in some phrases is one word; a term has words.
ASSUME QueryAssumption ==
    /\ MaxVariants \in Nat \ {0}
    /\ <<>> \notin ObjectTerms /\ \A term \in DOMAIN Excluded : Len(term) = 1
    /\ \A w \in Workloads : \A q \in w.queries : q \in Seq(ToSet(q))
    /\ \A r \in Responses : r.kept \in Seq(ToSet(r.kept))

VARIABLES
    workload,
    refiner,    \* the field _query_refiner: a number or None
    made,       \* refiners made so far
    memory,     \* for each refiner its entries [key, plan], the oldest first
    model,      \* for each refiner its model [loaded, failed, holder, loads]
    disk,       \* plans in query_refine_cache, by key
    client,     \* for each client [step, mine, query, task, events, plan]
    searches    \* searches started

planVars == <<workload, refiner, made, memory, model, disk, client, searches>>

Refiners == 1..MaxRefiners
NoModel == [loaded |-> FALSE, failed |-> FALSE, holder |-> None, loads |-> 0]
Idle == [step |-> "idle", mine |-> None, query |-> <<>>, task |-> None, events |-> <<>>, plan |-> None]

PlanInit ==
    /\ workload \in Workloads
    /\ refiner = None /\ made = 0
    /\ memory = [r \in Refiners |-> <<>>] /\ model = [r \in Refiners |-> NoModel]
    /\ disk = <<>>
    /\ client = [c \in Clients |-> Idle]
    /\ searches = 0

\* Mutant of Key: whatever the task.
KeyOfText(query, task) == <<Texts(query), "any">>

\* compute_fingerprint: the text without case, and the task; the configuration of a
\* process does not change.
Key(query, task) == <<Texts(query), task>>
KeyOf(c) == Key(client[c].query, client[c].task)

Remembered(r, key) == {i \in DOMAIN memory[r] : memory[r][i].key = key}

\* What search and search_trake ask the refiner for: a question is refined as a search.
TaskOf(kind) == IF kind = "trake" THEN "trake" ELSE "kis"

\* The parser is a function of the text and the task, as is the model's work on its plan.
Asked == UNION {w.queries \cup {Decompose(q) : q \in w.queries} : w \in Workloads}
Tasks == UNION {{TaskOf(kind) : kind \in w.kinds} : w \in Workloads}
PlanOf == [q \in Asked |-> [t \in Tasks |-> Parse(q, t)]]
RefinedPlan == [q \in Asked |-> [t \in Tasks |-> [r \in Responses |-> Refined(PlanOf[q][t], r)]]]

Set(c, step, plan) == client' = [client EXCEPT ![c].step = step, ![c].plan = plan]
Step(c, step) == Set(c, step, client[c].plan)
At(c, step) == client[c].step = step
Mine(c) == client[c].mine
Model(c) == model[Mine(c)]

-----------------------------------------------------------------------------
(* QueryRefiner.refine *)

\* handle: a question loses what it asks for.  The events of a TRAKE request are planned together
\* if they come as one text, or as a list of one; otherwise each is a search by itself.
Search(c) ==
    /\ c \in workload.clients /\ client[c].step \in {"idle", "done"} /\ searches < workload.searches
    /\ \E q \in workload.queries, kind \in workload.kinds :
           \E events \in IF kind = "trake" THEN {RawEvents(q), <<q>>} \ {<<>>} ELSE {<<>>} :
               client' = [client EXCEPT ![c] = [Idle EXCEPT !.step = "refiner", !.task = TaskOf(kind), !.events = events,
                                                            !.query = IF kind = "qa" THEN Decompose(q) ELSE q]]
    /\ searches' = searches + 1
    /\ UNCHANGED <<workload, refiner, made, memory, model, disk>>

\* _get_query_refiner: looks at the field, makes one, and takes what the field holds.
LookForRefiner(c) ==
    /\ At(c, "refiner")
    /\ Step(c, IF refiner = None THEN "make" ELSE "take")
    /\ UNCHANGED <<workload, refiner, made, memory, model, disk, searches>>

MakeRefiner(c) ==
    /\ At(c, "make") /\ made < MaxRefiners
    /\ made' = made + 1 /\ refiner' = made'
    /\ Step(c, "take")
    /\ UNCHANGED <<workload, memory, model, disk, searches>>

TakeRefiner(c) ==
    /\ At(c, "take")
    /\ client' = [client EXCEPT ![c].mine = refiner,
                                ![c].step = IF workload.backend = "off" THEN "done" ELSE "memory",
                                ![c].plan = IF workload.backend = "off" THEN Passthrough(client[c].query, client[c].task) ELSE None]
    /\ UNCHANGED <<workload, refiner, made, memory, model, disk, searches>>

\* QueryPlanCache.get
LookInMemory(c) ==
    /\ At(c, "memory")
    /\ LET hits == Remembered(Mine(c), KeyOf(c)) IN
           IF hits = {} THEN Step(c, "disk")
           ELSE Set(c, "done", memory[Mine(c)][CHOOSE i \in hits : TRUE].plan)
    /\ UNCHANGED <<workload, refiner, made, memory, model, disk, searches>>

\* A file that cannot be read counts as missing.
ReadDisk(c) ==
    /\ At(c, "disk")
    /\ \/ KeyOf(c) \in DOMAIN disk /\ Set(c, "remember", disk[KeyOf(c)])
       \/ Step(c, "parse")
    /\ UNCHANGED <<workload, refiner, made, memory, model, disk, searches>>

Entry(c) == [key |-> KeyOf(c), plan |-> client[c].plan]

\* The entry in its place, or at the end.
With(entries, entry) ==
    IF \E i \in DOMAIN entries : entries[i].key = entry.key
    THEN [i \in DOMAIN entries |-> IF entries[i].key = entry.key THEN entry ELSE entries[i]]
    ELSE Append(entries, entry)

\* A plan from the disk is kept only while there is room.
Remember(c) ==
    /\ At(c, "remember")
    /\ memory' = IF Len(memory[Mine(c)]) < MaxMemory
                 THEN [memory EXCEPT ![Mine(c)] = With(@, Entry(c))] ELSE memory
    /\ Step(c, "done")
    /\ UNCHANGED <<workload, refiner, made, model, disk, searches>>

ParseQuery(c) ==
    /\ At(c, "parse")
    /\ Set(c, IF workload.backend = "auto" THEN "model" ELSE "store", PlanOf[client[c].query][client[c].task])
    /\ UNCHANGED <<workload, refiner, made, memory, model, disk, searches>>

\* QueryPlanCache.put: room is made even for a key that is there.
Store(c) ==
    /\ At(c, "store")
    /\ memory' = [memory EXCEPT ![Mine(c)] = With(IF Len(@) >= MaxMemory THEN Tail(@) ELSE @, Entry(c))]
    /\ Step(c, "save")
    /\ UNCHANGED <<workload, refiner, made, model, disk, searches>>

Save(c) ==
    /\ At(c, "save")
    /\ disk' \in {disk, [k \in DOMAIN disk \cup {KeyOf(c)} |-> IF k = KeyOf(c) THEN client[c].plan ELSE disk[k]]}
    /\ Step(c, "done")
    /\ UNCHANGED <<workload, refiner, made, memory, model, searches>>

-----------------------------------------------------------------------------
(* LocalLLMQueryRefiner *)

\* _ensure_loaded, before the lock.
LookForModel(c) ==
    /\ At(c, "model")
    /\ Step(c, IF Model(c).loaded THEN "generate" ELSE IF Model(c).failed THEN "store" ELSE "lock")
    /\ UNCHANGED <<workload, refiner, made, memory, model, disk, searches>>

\* Under the lock only _pipeline is looked at again, not _load_failed.
LockModel(c) ==
    /\ At(c, "lock") /\ Model(c).holder = None
    /\ IF Model(c).loaded
       THEN Step(c, "generate") /\ model' = model
       ELSE Step(c, "load") /\ model' = [model EXCEPT ![Mine(c)].holder = c]
    /\ UNCHANGED <<workload, refiner, made, memory, disk, searches>>

Loaded(m) == [m EXCEPT !.loaded = TRUE, !.holder = None, !.loads = @ + 1]
GivenUp(m) == [m EXCEPT !.failed = TRUE, !.holder = None]

LoadModel(c) ==
    /\ At(c, "load")
    /\ \/ /\ workload.installed
          /\ model' = [model EXCEPT ![Mine(c)] = Loaded(@)]
          /\ Step(c, "generate")
       \/ /\ model' = [model EXCEPT ![Mine(c)] = GivenUp(@)]
          /\ Step(c, "store")
    /\ UNCHANGED <<workload, refiner, made, memory, disk, searches>>

\* No JSON, a response that breaks the schema, an exception: the parser's plan stays.
Generate(c) ==
    /\ At(c, "generate")
    /\ \/ \E r \in Responses : Set(c, "store", RefinedPlan[client[c].query][client[c].task][r])
       \/ Step(c, "store")
    /\ UNCHANGED <<workload, refiner, made, memory, model, disk, searches>>

\* The process is restarted: everything but the directory is lost.
RestartPlans ==
    /\ made + Cardinality(Clients) <= MaxRefiners
    /\ refiner' = None
    /\ client' = [c \in Clients |-> Idle]
    /\ UNCHANGED <<workload, made, memory, model, disk, searches>>

ClientStep(c) ==
    \/ LookForRefiner(c) \/ MakeRefiner(c) \/ TakeRefiner(c)
    \/ LookInMemory(c) \/ ReadDisk(c) \/ Remember(c) \/ ParseQuery(c) \/ Store(c) \/ Save(c)
    \/ LookForModel(c) \/ LockModel(c) \/ LoadModel(c) \/ Generate(c)

PlanNext == RestartPlans \/ \E c \in Clients : Search(c) \/ ClientStep(c)

-----------------------------------------------------------------------------
(* Properties *)

\* A request is given a plan for its own text, read without case, and for the task it is
\* refined for, which a question shares with a search: the parser's plan, or that plan
\* refined by one answer of the model.  A memory never holds more than its bound, nor two
\* plans for one key, and a refiner loads its model once (QueryPlanCache under concurrent
\* searches, _ensure_loaded).
PlanCacheIsSound ==
    /\ \A r \in Refiners :
           /\ Len(memory[r]) <= MaxMemory /\ model[r].loads <= 1
           /\ \A i, j \in DOMAIN memory[r] : memory[r][i].key = memory[r][j].key => i = j
    /\ \A c \in Clients : At(c, "done") =>
           LET plan == client[c].plan
           IN  /\ Texts(plan.query) = Texts(client[c].query)
               /\ \/ plan = Passthrough(client[c].query, client[c].task)
                  \/ plan = PlanOf[plan.query][client[c].task]
                  \/ \E r \in Responses : plan = RefinedPlan[plan.query][client[c].task][r]

Ordinary(word) == word.kinds \subseteq {"color", "english", "capital", "name", "cultural"}
OrdinaryWords(q) == WordsAt(q, {i \in DOMAIN q : Ordinary(q[i])})
ExactWords(q) ==
    {w \in ToSet(q) : w.kinds \cap {"quoted", "plate", "code", "measure"} # {}}
    \cup {Bare(w) : w \in {w \in ToSet(q) : "upper" \in w.kinds}}
ExactTexts(q) == {w.text : w \in ExactWords(q)}

\* Exact strings are searched for as texts, and the parser keeps their texts out of the
\* caption; a token that punctuation was taken out of has another text, and stays in it.
KeepsTexts(plan) ==
    /\ ExactWords(plan.query) = ToSet(plan.exact) /\ ExactWords(plan.query) \subseteq ToSet(plan.lexical)
    /\ plan.backend = "deterministic" =>
           \A text \in {plan.visual[i].text : i \in DOMAIN plan.visual} \ {plan.query} :
               ExactTexts(plan.query) \cap {w.text : w \in ToSet(text)} = {}

\* Every ordinary word is looked for, but those that say an exact string in another case:
\* they leave the caption with it.  With room for one caption, that of the model takes it.
KeepsCaption(plan) ==
    plan.backend = "deterministic" \/ MaxVariants > 1 =>
        {w \in ToSet(plan.query) : Ordinary(w) /\ w.text \notin ExactTexts(plan.query)}
            \subseteq UNION {ToSet(plan.visual[i].text) : i \in {i \in DOMAIN plan.visual : plan.visual[i].language = "vi"}}

\* An object stands somewhere by itself: not as a part of another object's phrase,
\* nor of one in which it means something else.
KeepsObjects(plan) ==
    \A o \in plan.objects : \E s \in Spans(plan.query, o) :
        \A p \in plan.objects \cup UNION {Excluded[t] : t \in DOMAIN Excluded \cap {o}} :
            \A t \in Spans(plan.query, p) : Within(s, t) => s = t

\* The stages say the query's words in their order.
KeepsStages(plan) ==
    plan.stages # <<>> /\ plan.backend = "deterministic" =>
        OrdinaryWords(FlattenSeq([k \in DOMAIN plan.stages |-> plan.stages[k].text])) = OrdinaryWords(plan.query)

\* The events are planned one for one: those of this spelling, each by its own words.
KeepsEvents(plan, query, events) ==
    LET asked == EventQueries(events, plan)
    IN  /\ Len(asked) = Len(events)
        /\ plan.backend = "deterministic" /\ plan.query = query =>
               \A k \in DOMAIN asked : OrdinaryWords(asked[k]) = OrdinaryWords(events[k])

\* A plan leaves nothing out: exact strings are searched for as texts and are not part
\* of the visual query, every word without a meaning of its own is unless it says one of
\* them in another case, a part of an object's phrase is no object, and the stages hold the
\* words in their order, the events of a TRAKE request one for one.  The model adds to the
\* plan and takes nothing away ("rank-safe multi-path retrieval"), but its stages are its own.
PlanKeepsTheQuery ==
    \A c \in Clients : At(c, "done") /\ workload.backend # "off" =>
        LET plan == client[c].plan
        IN  /\ KeepsTexts(plan) /\ KeepsCaption(plan) /\ KeepsObjects(plan)
            /\ KeepsStages(plan) /\ KeepsEvents(plan, client[c].query, client[c].events)
=============================================================================
