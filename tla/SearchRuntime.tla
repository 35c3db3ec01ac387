--------------------------- MODULE SearchRuntime ---------------------------
(***************************************************************************)
(* The search provider of one server process, with either backend          *)
(* (ConfiguredSearch for "siglip2", QwenRuntimeSearch for "qwen3_vl").     *)
(* Request threads share the one provider object: the first to find it     *)
(* empty loads the generation that CURRENT names, the encoder and the text *)
(* evidence into its fields, under a lock that is taken only by those who  *)
(* found no bundle; everybody else reads the fields without it.  Polls of  *)
(* /health/ready validate the published generation on their own and keep   *)
(* the name of the last one that passed.                                   *)
(*                                                                         *)
(* The scores, the query and the results are left out: what matters is     *)
(* which generation each of the fields belongs to when a request reads it. *)
(***************************************************************************)
CONSTANTS
  Backend,      \* SEARCH_BACKEND of the process
  Requests,     \* the search requests, each served by a thread of the pool
  Probes,       \* the threads that answer /health/ready
  Generations,  \* the generations of the index
  Foreign,      \* those built with the embeddings of the other backend
  None          \* no generation, thread or plan

ASSUME BackendAssumption == Backend \in {"siglip2", "qwen3_vl"}
ASSUME ForeignAssumption == Foreign \subseteq Generations
ASSUME NoneAssumption == None \notin Generations \union Requests
ASSUME NamesAssumption ==
  {"waiting", "refused", "lost", "assertion", "partial"} \intersect Generations = {}

VARIABLES
  current,      \* the generation CURRENT names
  published,    \* the generations it has named
  damaged,      \* the generations whose files no longer validate
  bundle,       \* _bundle of the provider
  encoder,      \* whether its _encoder is there
  evidence,     \* the generation its OCR and ASR records were loaded with
  lock,         \* the thread that holds _lock
  lastPlan,     \* the request whose plan is in last_query_plan
  validated,    \* _validated_generation_id
  checked,      \* the generations that passed a probe's validation (history)
  pc,           \* where each request is
  seen,         \* the generation a request is loading
  got,          \* the bundle and the evidence a request has read
  outcome,      \* how a request ended, or the generation it was answered from
  shown,        \* the request whose plan a response carries
  poll,         \* where each probe is
  pointer,      \* the generation a probe found in CURRENT
  verdict       \* the generation a probe reported ready

files == <<current, published, damaged>>
fields == <<bundle, encoder, evidence, lock>>
health == <<validated, checked, poll, pointer, verdict>>
calls == <<seen, got, outcome, shown>>
vars == <<current, published, damaged, bundle, encoder, evidence, lock,
          lastPlan, validated, checked, pc, seen, got, outcome, shown,
          poll, pointer, verdict>>

-----------------------------------------------------------------------------
(* The two backends run the same steps in different orders.  SigLIP2 makes *)
(* the encoder and reads the evidence into local variables and stores the  *)
(* bundle last; Qwen stores the bundle first and fills in the rest.        *)

\* Mutant of SiglipOrder: the bundle is stored before the encoder and the evidence.
SiglipOrderBundleFirst ==
  [validate |-> "make", make |-> "read", read |-> "storeBundle",
   storeBundle |-> "storeEncoder", storeEncoder |-> "storeEvidence",
   storeEvidence |-> "release", release |-> "useEncoder",
   useEncoder |-> "useBundle", useBundle |-> "useEvidence",
   useEvidence |-> "record"]

SiglipOrder ==
  [validate |-> "make", make |-> "read", read |-> "storeEncoder",
   storeEncoder |-> "storeEvidence", storeEvidence |-> "storeBundle",
   storeBundle |-> "release", release |-> "useEncoder",
   useEncoder |-> "useBundle", useBundle |-> "useEvidence",
   useEvidence |-> "record"]

QwenOrder ==
  [validate |-> "storeBundle", storeBundle |-> "storeEncoder",
   storeEncoder |-> "storeEvidence", storeEvidence |-> "release",
   release |-> "useBundle", useBundle |-> "useEncoder",
   useEncoder |-> "useEvidence", useEvidence |-> "record"]

Follows(step) ==
  IF Backend = "siglip2" THEN SiglipOrder[step] ELSE QwenOrder[step]

Locked ==
  {"pointer", "validate", "make", "read", "storeEncoder", "storeEvidence",
   "storeBundle", "release"}

Steps ==
  {"new", "acquire", "useEncoder", "useBundle", "useEvidence", "record",
   "respond", "done"} \union Locked

Maybe(S) == S \union {None}

Nothing == [bundle |-> None, evidence |-> None]

Sound(g) == g \in published \ (damaged \union Foreign)

Init ==
  /\ current = None /\ published = {} /\ damaged = {}
  /\ bundle = None /\ encoder = FALSE /\ evidence = None /\ lock = None
  /\ lastPlan = None
  /\ validated = None /\ checked = {}
  /\ pc = [r \in Requests |-> "new"]
  /\ seen = [r \in Requests |-> None]
  /\ got = [r \in Requests |-> Nothing]
  /\ outcome = [r \in Requests |-> "waiting"]
  /\ shown = [r \in Requests |-> None]
  /\ poll = [p \in Probes |-> "idle"]
  /\ pointer = [p \in Probes |-> None]
  /\ verdict = [p \in Probes |-> None]

-----------------------------------------------------------------------------
(* One request.                                                            *)

Goto(r, step) == pc' = [pc EXCEPT ![r] = step]

End(r, how) ==
  /\ Goto(r, "done")
  /\ outcome' = [outcome EXCEPT ![r] = how]
  /\ seen' = [seen EXCEPT ![r] = None]
  /\ got' = [got EXCEPT ![r] = Nothing]

\* Mutant of Raise: the lock is acquired without `with` and not given back.
RaiseHoldingLock(r) ==
  /\ End(r, "refused")
  /\ UNCHANGED <<lock, bundle, encoder, evidence, shown>>

(* An exception inside the `with` block: the lock is given back and the    *)
(* fields that were assigned stay as they are.                             *)
Raise(r) ==
  /\ End(r, "refused")
  /\ lock' = None
  /\ UNCHANGED <<bundle, encoder, evidence, shown>>

(* The request comes in and looks at the bundle without the lock.          *)
Arrive(r) ==
  /\ pc[r] = "new"
  /\ Goto(r, IF bundle # None THEN Follows("release") ELSE "acquire")
  /\ UNCHANGED <<files, fields, lastPlan, health, calls>>

(* It gets the lock and looks again.                                       *)
Acquire(r) ==
  /\ pc[r] = "acquire"
  /\ lock = None
  /\ lock' = r
  /\ Goto(r, IF bundle # None THEN "release" ELSE "pointer")
  /\ UNCHANGED <<files, bundle, encoder, evidence, lastPlan, health, calls>>

ReadPointer(r) ==
  /\ pc[r] = "pointer"
  /\ IF current = None
       THEN Raise(r)
       ELSE /\ Goto(r, "validate")
            /\ seen' = [seen EXCEPT ![r] = current]
            /\ UNCHANGED <<fields, got, outcome, shown>>
  /\ UNCHANGED <<files, lastPlan, health>>

Validate(r) ==
  /\ pc[r] = "validate"
  /\ IF Sound(seen[r])
       THEN Goto(r, Follows("validate")) /\ UNCHANGED <<fields, calls>>
       ELSE Raise(r)
  /\ UNCHANGED <<files, lastPlan, health>>

(* The encoder is constructed, or the evidence read, into a local variable; *)
(* either may raise.  Only the SigLIP2 provider has these steps.            *)
Prepare(r) ==
  /\ pc[r] \in {"make", "read"}
  /\ \/ Goto(r, Follows(pc[r])) /\ UNCHANGED <<fields, calls>>
     \/ Raise(r)
  /\ UNCHANGED <<files, lastPlan, health>>

StoreEncoder(r) ==
  /\ pc[r] = "storeEncoder"
  /\ encoder' = TRUE
  /\ Goto(r, Follows("storeEncoder"))
  /\ UNCHANGED <<files, bundle, evidence, lock, lastPlan, health, calls>>

StoreEvidence(r) ==
  /\ pc[r] = "storeEvidence"
  /\ evidence' = seen[r]
  /\ Goto(r, Follows("storeEvidence"))
  /\ UNCHANGED <<files, bundle, encoder, lock, lastPlan, health, calls>>

StoreBundle(r) ==
  /\ pc[r] = "storeBundle"
  /\ bundle' = seen[r]
  /\ Goto(r, Follows("storeBundle"))
  /\ UNCHANGED <<files, encoder, evidence, lock, lastPlan, health, calls>>

Release(r) ==
  /\ pc[r] = "release"
  /\ lock' = None
  /\ seen' = [seen EXCEPT ![r] = None]
  /\ Goto(r, Follows("release"))
  /\ UNCHANGED <<files, bundle, encoder, evidence, lastPlan, health,
                 got, outcome, shown>>

(* The search reads the fields, one after the other and without the lock.  *)
(* A missing encoder or bundle ends it with an assertion or an attribute    *)
(* error, which the endpoint does not catch; an encoder that cannot load   *)
(* its model makes it unavailable.                                         *)
UseEncoder(r) ==
  /\ pc[r] = "useEncoder"
  /\ \/ ~encoder /\ End(r, "assertion")
     \/ encoder /\ Goto(r, Follows("useEncoder"))
                /\ UNCHANGED <<seen, got, outcome>>
     \/ encoder /\ End(r, "refused")
  /\ UNCHANGED <<files, fields, lastPlan, health, shown>>

UseBundle(r) ==
  /\ pc[r] = "useBundle"
  /\ IF bundle = None
       THEN End(r, "assertion")
       ELSE /\ Goto(r, Follows("useBundle"))
            /\ got' = [got EXCEPT ![r].bundle = bundle]
            /\ UNCHANGED <<seen, outcome>>
  /\ UNCHANGED <<files, fields, lastPlan, health, shown>>

UseEvidence(r) ==
  /\ pc[r] = "useEvidence"
  /\ got' = [got EXCEPT ![r].evidence = evidence]
  /\ Goto(r, Follows("useEvidence"))
  /\ UNCHANGED <<files, fields, lastPlan, health, seen, outcome, shown>>

(* The plan of a query that was refined goes into a field of the provider; *)
(* image queries, unrefined queries and the Qwen backend store none.       *)
RecordPlan(r) ==
  /\ pc[r] = "record"
  /\ \/ Backend = "siglip2" /\ lastPlan' = r
     \/ UNCHANGED lastPlan
  /\ Goto(r, "respond")
  /\ UNCHANGED <<files, fields, health, calls>>

(* The generation the results come from, or "partial" if the evidence is   *)
(* not the evidence that was loaded with it.                               *)
Results(r) ==
  IF got[r].evidence = got[r].bundle THEN got[r].bundle ELSE "partial"

(* The endpoint puts the plan it finds in that field into the response, if *)
(* the caller asked for it.                                                *)
Respond(r) ==
  /\ pc[r] = "respond"
  /\ \/ shown' = [shown EXCEPT ![r] = lastPlan]
     \/ UNCHANGED shown
  /\ End(r, Results(r))
  /\ UNCHANGED <<files, fields, lastPlan, health>>

Serve(r) ==
  \/ Arrive(r) \/ Acquire(r) \/ ReadPointer(r) \/ Validate(r) \/ Prepare(r)
  \/ StoreEncoder(r) \/ StoreEvidence(r) \/ StoreBundle(r) \/ Release(r)
  \/ UseEncoder(r) \/ UseBundle(r) \/ UseEvidence(r)
  \/ RecordPlan(r) \/ Respond(r)

-----------------------------------------------------------------------------
(* One readiness probe.  The weights of the model may be missing at any    *)
(* time.  SigLIP2 validates the generation it found in CURRENT; Qwen       *)
(* validates what CURRENT names by then, and records what it found before. *)

provider == <<files, fields, lastPlan, pc, calls>>

Poll(p) ==
  /\ poll[p] = "idle"
  /\ current # None
  /\ pointer' = [pointer EXCEPT ![p] = current]
  /\ verdict' = [verdict EXCEPT ![p] = None]
  /\ poll' = [poll EXCEPT ![p] = IF current = validated THEN "answer" ELSE "check"]
  /\ UNCHANGED <<provider, validated, checked>>

NotReady(p) ==
  /\ poll[p] \in {"check", "answer"}
  /\ poll' = [poll EXCEPT ![p] = "idle"]
  /\ pointer' = [pointer EXCEPT ![p] = None]
  /\ UNCHANGED <<provider, validated, checked, verdict>>

\* Mutant of Target: both backends validate what CURRENT names by then.
TargetNow(p) == current

Target(p) == IF Backend = "siglip2" THEN pointer[p] ELSE current

Check(p) ==
  /\ poll[p] = "check"
  /\ Sound(Target(p))
  /\ checked' = checked \union {Target(p)}
  /\ poll' = [poll EXCEPT ![p] = "remember"]
  /\ UNCHANGED <<provider, validated, pointer, verdict>>

Remember(p) ==
  /\ poll[p] = "remember"
  /\ validated' = pointer[p]
  /\ poll' = [poll EXCEPT ![p] = "answer"]
  /\ UNCHANGED <<provider, checked, pointer, verdict>>

Ready(p) ==
  /\ poll[p] = "answer"
  /\ verdict' = [verdict EXCEPT ![p] = pointer[p]]
  /\ poll' = [poll EXCEPT ![p] = "idle"]
  /\ pointer' = [pointer EXCEPT ![p] = None]
  /\ UNCHANGED <<provider, validated, checked>>

Probe(p) == Poll(p) \/ NotReady(p) \/ Check(p) \/ Remember(p) \/ Ready(p)

-----------------------------------------------------------------------------
(* The rest of the world.                                                  *)

(* A build publishes a generation (module FrameIndexPublication).          *)
Publish(g) ==
  /\ g \notin published
  /\ published' = published \union {g}
  /\ current' = g
  /\ UNCHANGED <<damaged, fields, lastPlan, health, pc, calls>>

(* Files of a published generation are lost or changed.                    *)
Damage(g) ==
  /\ g \in published \ damaged
  /\ damaged' = damaged \union {g}
  /\ UNCHANGED <<current, published, fields, lastPlan, health, pc, calls>>

(* The server process ends, with its requests, and is started again.       *)
InProgress(r) == pc[r] \notin {"new", "done"}

Restart ==
  /\ bundle' = None /\ encoder' = FALSE /\ evidence' = None /\ lock' = None
  /\ lastPlan' = None
  /\ validated' = None /\ checked' = {}
  /\ pc' = [r \in Requests |-> IF InProgress(r) THEN "done" ELSE pc[r]]
  /\ outcome' = [r \in Requests |-> IF InProgress(r) THEN "lost" ELSE outcome[r]]
  /\ poll' = [p \in Probes |-> "idle"]
  /\ pointer' = [p \in Probes |-> None]
  /\ verdict' = [p \in Probes |-> None]
  /\ seen' = [r \in Requests |-> None]
  /\ got' = [r \in Requests |-> Nothing]
  /\ UNCHANGED <<files, shown>>

Next ==
  \/ \E r \in Requests : Serve(r)
  \/ \E p \in Probes : Probe(p)
  \/ \E g \in Generations : Publish(g) \/ Damage(g)
  \/ Restart

(* A thread that can go on does: the encoder and the file system return or *)
(* raise, and a lock that is free is taken by one of those that wait.      *)
Fairness == \A r \in Requests : WF_vars(Serve(r) /\ pc[r] # "new")

Spec == Init /\ [][Next]_vars /\ Fairness

-----------------------------------------------------------------------------
(* Properties.                                                             *)

Endings == {"waiting", "refused", "lost", "assertion", "partial"}

TypeOK ==
  /\ current \in Maybe(published)
  /\ published \subseteq Generations
  /\ damaged \subseteq published
  /\ bundle \in Maybe(published)
  /\ encoder \in BOOLEAN
  /\ evidence \in Maybe(published)
  /\ lock \in Maybe(Requests)
  /\ lastPlan \in Maybe(Requests)
  /\ validated \in Maybe(published)
  /\ checked \subseteq published
  /\ pc \in [Requests -> Steps]
  /\ seen \in [Requests -> Maybe(published)]
  /\ got \in [Requests -> [bundle : Maybe(published), evidence : Maybe(published)]]
  /\ outcome \in [Requests -> published \union Endings]
  /\ shown \in [Requests -> Maybe(Requests)]
  /\ poll \in [Probes -> {"idle", "check", "remember", "answer"}]
  /\ pointer \in [Probes -> Maybe(published)]
  /\ verdict \in [Probes -> Maybe(published)]

AbstractProvider ==
  INSTANCE SearchProvider WITH
    loaded <- bundle,
    answers <- outcome

(* Lazy initialisation by racing threads, unlocked reads of the fields,    *)
(* failing loads and restarts are invisible: the process loads one         *)
(* generation of its own backend, and every answered request is answered   *)
(* wholly from it.                                                         *)
ImplementsSearchProvider == AbstractProvider!Spec

(* A probe reports ready only for a generation that a probe of this process *)
(* has validated, however polls and publications interleave.                *)
ReadyWasValidated == \A p \in Probes : verdict[p] \in Maybe(checked)

(* Every request that came in ends: no exception on the way leaves the lock *)
(* taken.                                                                   *)
RequestsEnd == \A r \in Requests : InProgress(r) ~> ~InProgress(r)

(* The assertion of QwenRuntimeSearch.search_single: after _initialize the  *)
(* bundle and the encoder are there.                                        *)
EncoderIsThere == \A r \in Requests : outcome[r] # "assertion"

(* The query plan in a response is the plan of the query it answers.       *)
QueryPlanIsOwn == \A r \in Requests : shown[r] \in {None, r}
=============================================================================
