------------------------- MODULE SearchRuntimeProofs -------------------------
(***************************************************************************)
(* Theorems about SearchRuntime, for any number of requests, probes and    *)
(* generations.                                                            *)
(***************************************************************************)
EXTENDS SearchRuntime, TLAPS

-----------------------------------------------------------------------------
(* Types.                                                                  *)

\* Where each step leads in the SigLIP2 provider.
LEMMA SiglipFollows ==
  ASSUME Backend = "siglip2"
  PROVE  /\ Follows("validate") = "make"
         /\ Follows("make") = "read"
         /\ Follows("read") = "storeEncoder"
         /\ Follows("storeEncoder") = "storeEvidence"
         /\ Follows("storeEvidence") = "storeBundle"
         /\ Follows("storeBundle") = "release"
         /\ Follows("release") = "useEncoder"
         /\ Follows("useEncoder") = "useBundle"
         /\ Follows("useBundle") = "useEvidence"
         /\ Follows("useEvidence") = "record"
BY DEF Follows, SiglipOrder

\* Where the steps lead that the Qwen provider has.
LEMMA QwenFollows ==
  ASSUME Backend = "qwen3_vl"
  PROVE  /\ Follows("validate") = "storeBundle"
         /\ Follows("storeBundle") = "storeEncoder"
         /\ Follows("storeEncoder") = "storeEvidence"
         /\ Follows("storeEvidence") = "release"
         /\ Follows("release") = "useBundle"
         /\ Follows("useBundle") = "useEncoder"
         /\ Follows("useEncoder") = "useEvidence"
         /\ Follows("useEvidence") = "record"
BY DEF Follows, QwenOrder

\* The encoder and the evidence are prepared in steps of their own by the
\* SigLIP2 provider only.
OnlySiglipPrepares ==
  \A r \in Requests : pc[r] \in {"make", "read"} => Backend = "siglip2"

\* A request that comes to its evidence has read a bundle.
HasRead ==
  \A r \in Requests :
    \/ pc[r] \in {"useEvidence", "record", "respond"}
    \/ pc[r] = "useEncoder" /\ Backend = "qwen3_vl"
    => got[r].bundle # None

TypeInv == TypeOK /\ OnlySiglipPrepares /\ HasRead

LEMMA TypeInvInit == Init => TypeInv
<1> SUFFICES ASSUME Init PROVE TypeInv
  OBVIOUS
<1>1. got \in [Requests -> [bundle : Maybe(published), evidence : Maybe(published)]]
  BY DEF Init, Nothing, Maybe
<1>2. TypeOK
  BY <1>1 DEF Init, TypeOK, Maybe, Steps, Locked, Endings
<1>3. OnlySiglipPrepares /\ HasRead
  BY DEF Init, OnlySiglipPrepares, HasRead
<1> QED BY <1>2, <1>3 DEF TypeInv

LEMMA TypeInvNext == TypeInv /\ [Next]_vars => TypeInv'
<1> SUFFICES ASSUME TypeInv, [Next]_vars PROVE TypeInv'
  OBVIOUS
<1> USE SiglipFollows, QwenFollows, BackendAssumption
    DEF TypeInv, TypeOK, OnlySiglipPrepares, HasRead, Maybe, Steps, Locked, Endings,
        files, fields, health, calls, provider
<1>1. ASSUME NEW r \in Requests, NEW how \in published \union Endings, End(r, how),
             UNCHANGED <<files, encoder, bundle, evidence, lastPlan, health>>,
             lock' \in {lock, None}, shown' \in [Requests -> Maybe(Requests)]
      PROVE  TypeInv'
  <2>1. got' \in [Requests -> [bundle : Maybe(published), evidence : Maybe(published)]]
    BY <1>1 DEF End, Nothing
  <2> QED BY <1>1, <2>1 DEF End, Goto
<1>2. ASSUME NEW r \in Requests, Arrive(r) PROVE TypeInv'
  BY <1>2 DEF Arrive, Goto
<1>3. ASSUME NEW r \in Requests, Acquire(r) PROVE TypeInv'
  BY <1>3 DEF Acquire, Goto
<1>4. ASSUME NEW r \in Requests, ReadPointer(r) PROVE TypeInv'
  BY <1>1, <1>4 DEF ReadPointer, Raise, Goto
<1>5. ASSUME NEW r \in Requests, Validate(r) PROVE TypeInv'
  <2>1. CASE Sound(seen[r])
    BY <1>5, <2>1 DEF Validate, Goto
  <2> QED BY <1>1, <1>5, <2>1 DEF Validate, Raise
<1>6. ASSUME NEW r \in Requests, Prepare(r) PROVE TypeInv'
  <2>1. CASE Raise(r)
    BY <1>1, <1>6, <2>1 DEF Prepare, Raise
  <2>2. CASE ~Raise(r)
    <3>1. Backend = "siglip2"
      BY <1>6 DEF Prepare
    <3>2. Follows(pc[r]) \in {"read", "storeEncoder"}
      BY <1>6, <3>1 DEF Prepare
    <3> QED BY <1>6, <2>2, <3>1, <3>2 DEF Prepare, Goto
  <2> QED BY <2>1, <2>2
<1>7. ASSUME NEW r \in Requests, StoreEncoder(r) PROVE TypeInv'
  BY <1>7 DEF StoreEncoder, Goto
<1>8. ASSUME NEW r \in Requests, StoreEvidence(r) PROVE TypeInv'
  BY <1>8 DEF StoreEvidence, Goto
<1>9. ASSUME NEW r \in Requests, StoreBundle(r) PROVE TypeInv'
  BY <1>9 DEF StoreBundle, Goto
<1>10. ASSUME NEW r \in Requests, Release(r) PROVE TypeInv'
  BY <1>10 DEF Release, Goto
<1>11. ASSUME NEW r \in Requests, UseEncoder(r) PROVE TypeInv'
  BY <1>1, <1>11 DEF UseEncoder, Goto
<1>12. ASSUME NEW r \in Requests, UseBundle(r) PROVE TypeInv'
  <2>1. CASE bundle = None
    BY <1>1, <1>12, <2>1 DEF UseBundle
  <2>2. CASE bundle # None
    <3>1. got' = [got EXCEPT ![r].bundle = bundle]
      BY <1>12, <2>2 DEF UseBundle
    <3>2. got' \in [Requests -> [bundle : Maybe(published), evidence : Maybe(published)]]
      BY <3>1
    <3>3. got'[r].bundle # None /\ \A q \in Requests \ {r} : got'[q] = got[q]
      BY <2>2, <3>1
    <3>4. published' = published
      BY <1>12 DEF UseBundle
    <3>5. TypeOK'
      BY <1>12, <2>2, <3>2, <3>4 DEF UseBundle, Goto
    <3>6. HasRead' /\ OnlySiglipPrepares'
      BY <1>12, <2>2, <3>3 DEF UseBundle, Goto
    <3> QED BY <3>5, <3>6
  <2> QED BY <2>1, <2>2
<1>13. ASSUME NEW r \in Requests, UseEvidence(r) PROVE TypeInv'
  BY <1>13 DEF UseEvidence, Goto
<1>14. ASSUME NEW r \in Requests, RecordPlan(r) PROVE TypeInv'
  BY <1>14 DEF RecordPlan, Goto
<1>15. ASSUME NEW r \in Requests, Respond(r) PROVE TypeInv'
  <2>1. Results(r) \in published \union Endings
    <3>1. got[r] \in [bundle : Maybe(published), evidence : Maybe(published)]
      OBVIOUS
    <3>2. got[r].bundle # None
      BY <1>15 DEF Respond
    <3> QED BY <3>1, <3>2 DEF Results
  <2>2. shown' \in [Requests -> Maybe(Requests)]
    BY <1>15 DEF Respond
  <2> QED BY <1>1, <1>15, <2>1, <2>2 DEF Respond
<1>16. ASSUME NEW p \in Probes, Poll(p) PROVE TypeInv'
  BY <1>16 DEF Poll
<1>17. ASSUME NEW p \in Probes, NotReady(p) PROVE TypeInv'
  BY <1>17 DEF NotReady
<1>18. ASSUME NEW p \in Probes, Check(p) PROVE TypeInv'
  BY <1>18 DEF Check, Sound
<1>19. ASSUME NEW p \in Probes, Remember(p) PROVE TypeInv'
  BY <1>19 DEF Remember
<1>20. ASSUME NEW p \in Probes, Ready(p) PROVE TypeInv'
  BY <1>20 DEF Ready
<1>21. ASSUME NEW g \in Generations, Publish(g) PROVE TypeInv'
  BY <1>21 DEF Publish
<1>22. ASSUME NEW g \in Generations, Damage(g) PROVE TypeInv'
  BY <1>22 DEF Damage
<1>23. CASE Restart
  BY <1>23 DEF Restart, InProgress, Nothing
<1>24. CASE UNCHANGED vars
  BY <1>24 DEF vars
<1> QED
  BY <1>2, <1>3, <1>4, <1>5, <1>6, <1>7, <1>8, <1>9, <1>10, <1>11, <1>12, <1>13, <1>14,
     <1>15, <1>16, <1>17, <1>18, <1>19, <1>20, <1>21, <1>22, <1>23, <1>24
  DEF Next, Serve, Probe

\* Every field of the provider and every local variable of the threads has its
\* type, and the generations they name have been published.
THEOREM TypeCorrect == Spec => []TypeOK
<1>1. TypeInv => TypeOK
  BY DEF TypeInv
<1> QED BY TypeInvInit, TypeInvNext, <1>1, PTL DEF Spec

-----------------------------------------------------------------------------
(* Readiness.  A probe of the SigLIP2 provider carries the generation it    *)
(* found in CURRENT through validation to its verdict.                      *)

HealthInv ==
  /\ validated \in Maybe(checked)
  /\ \A p \in Probes :
       /\ poll[p] \in {"remember", "answer"} => pointer[p] \in checked
       /\ verdict[p] \in Maybe(checked)

LEMMA HealthInvInit == Init => HealthInv
BY DEF Init, HealthInv, Maybe

LEMMA HealthInvNext ==
  ASSUME Backend = "siglip2", TypeInv, HealthInv, [Next]_vars
  PROVE  HealthInv'
<1> USE DEF HealthInv, TypeInv, TypeOK, Maybe
<1>1. CASE UNCHANGED health
  BY <1>1 DEF health
<1>2. ASSUME NEW p \in Probes, Poll(p) PROVE HealthInv'
  BY <1>2 DEF Poll
<1>3. ASSUME NEW p \in Probes, NotReady(p) PROVE HealthInv'
  BY <1>3 DEF NotReady
<1>4. ASSUME NEW p \in Probes, Check(p) PROVE HealthInv'
  BY <1>4 DEF Check, Target
<1>5. ASSUME NEW p \in Probes, Remember(p) PROVE HealthInv'
  BY <1>5 DEF Remember
<1>6. ASSUME NEW p \in Probes, Ready(p) PROVE HealthInv'
  BY <1>6 DEF Ready
<1>7. CASE Restart
  BY <1>7 DEF Restart
<1>8. ASSUME NEW r \in Requests, Serve(r) PROVE UNCHANGED health
  BY <1>8 DEF Serve, Arrive, Acquire, ReadPointer, Validate, Prepare, StoreEncoder,
     StoreEvidence, StoreBundle, Release, UseEncoder, UseBundle, UseEvidence,
     RecordPlan, Respond
<1>9. ASSUME NEW g \in Generations, Publish(g) \/ Damage(g) PROVE UNCHANGED health
  BY <1>9 DEF Publish, Damage
<1>10. UNCHANGED vars => UNCHANGED health
  BY DEF vars, health
<1> QED
  BY <1>1, <1>2, <1>3, <1>4, <1>5, <1>6, <1>7, <1>8, <1>9, <1>10 DEF Next, Probe

\* The SigLIP2 provider reports ready only for a generation that one of its
\* probes has validated, with any number of probes and publications at once.
THEOREM ReadyMeansValidated ==
  Backend = "siglip2" => (Spec => []ReadyWasValidated)
<1> SUFFICES ASSUME Backend = "siglip2" PROVE Spec => []ReadyWasValidated
  OBVIOUS
<1>1. TypeInv /\ HealthInv /\ [Next]_vars => HealthInv'
  BY HealthInvNext
<1>2. HealthInv => ReadyWasValidated
  BY DEF HealthInv, ReadyWasValidated
<1> QED BY TypeInvInit, TypeInvNext, HealthInvInit, <1>1, <1>2, PTL DEF Spec

-----------------------------------------------------------------------------
(* The refinement.  In the SigLIP2 provider a bundle that can be seen is    *)
(* complete, only the holder of the lock stores one, and only while there   *)
(* is none.                                                                 *)

Chosen == {"make", "read", "storeEncoder", "storeEvidence", "storeBundle"}

Mutex == \A r \in Requests : pc[r] \in Locked <=> lock = r

Loading ==
  \A r \in Requests :
    /\ pc[r] \in {"pointer", "validate"} \union Chosen => bundle = None
    /\ pc[r] \in Chosen => seen[r] \in published \ Foreign
    /\ pc[r] \in {"storeEvidence", "storeBundle"} => encoder
    /\ pc[r] = "storeBundle" => evidence = seen[r]

Complete == bundle # None => encoder /\ evidence = bundle /\ bundle \notin Foreign

Reading ==
  \A r \in Requests :
    /\ pc[r] \in {"release", "useEncoder", "useBundle", "useEvidence", "record", "respond"}
         => bundle # None
    /\ pc[r] \in {"useEvidence", "record", "respond"} => got[r].bundle = bundle
    /\ pc[r] \in {"record", "respond"} => got[r].evidence = bundle

Waiting == \A r \in Requests : pc[r] # "done" <=> outcome[r] = "waiting"

LoadInv == Mutex /\ Loading /\ Complete /\ Reading /\ Waiting

LEMMA LoadInvInit == Init => LoadInv
BY NoneAssumption
DEF Init, LoadInv, Mutex, Loading, Complete, Reading, Waiting, Locked, Chosen

\* What a request that ends, with the lock or without, leaves behind.
LEMMA EndKeeps ==
  ASSUME TypeInv, LoadInv, NEW r \in Requests, NEW how \in published \union Endings,
         how # "waiting", End(r, how), UNCHANGED <<bundle, encoder, evidence, published>>,
         IF pc[r] \in Locked THEN lock' = None ELSE lock' = lock
  PROVE  LoadInv'
<1> USE DEF TypeInv, TypeOK, End, Goto
<1>1. \A q \in Requests \ {r} :
        pc'[q] = pc[q] /\ seen'[q] = seen[q] /\ got'[q] = got[q] /\ outcome'[q] = outcome[q]
  OBVIOUS
<1>2. pc'[r] = "done" /\ outcome'[r] = how
  OBVIOUS
<1>3. Mutex'
  BY <1>1, <1>2, NoneAssumption DEF LoadInv, Mutex, Locked
<1>4. Loading' /\ Complete' /\ Reading' /\ Waiting'
  BY <1>1, <1>2 DEF LoadInv, Loading, Complete, Reading, Waiting, Chosen
<1> QED BY <1>3, <1>4 DEF LoadInv

LEMMA LoadInvNext ==
  ASSUME Backend = "siglip2", TypeInv, TypeInv', LoadInv, [Next]_vars
  PROVE  LoadInv'
<1> USE SiglipFollows, NoneAssumption
<1>d. Endings = {"waiting", "refused", "lost", "assertion", "partial"}
  BY DEF Endings
<1>e. /\ Locked = {"pointer", "release", "validate"} \union Chosen
      /\ Chosen = {"make", "read", "storeEncoder", "storeEvidence", "storeBundle"}
  BY DEF Locked, Chosen
<1>1. ASSUME NEW r \in Requests, Arrive(r) PROVE LoadInv'
  BY <1>1, <1>e DEF Arrive, Goto, files, fields, calls, LoadInv, Mutex, Loading, Complete,
     Reading, Waiting, TypeInv, TypeOK
<1>2. ASSUME NEW r \in Requests, Acquire(r) PROVE LoadInv'
  BY <1>2, <1>e DEF Acquire, Goto, files, fields, calls, LoadInv, Mutex, Loading, Complete,
     Reading, Waiting, TypeInv, TypeOK
<1>r. ASSUME NEW r \in Requests, pc[r] \in Locked, Raise(r), UNCHANGED published
      PROVE  LoadInv'
  BY <1>r, <1>d, EndKeeps DEF Raise
<1>3. ASSUME NEW r \in Requests, ReadPointer(r) PROVE LoadInv'
  <2>1. CASE current = None
    BY <1>3, <2>1, <1>r, <1>e DEF ReadPointer, files
  <2>2. CASE current # None
    BY <1>3, <2>2, <1>e DEF ReadPointer, Goto, files, fields, LoadInv, Mutex, Loading, Complete,
       Reading, Waiting, TypeInv, TypeOK
  <2> QED BY <2>1, <2>2
<1>4. ASSUME NEW r \in Requests, Validate(r) PROVE LoadInv'
  <2>1. CASE Sound(seen[r])
    BY <1>4, <2>1, <1>e DEF Validate, Sound, Goto, files, fields, calls, LoadInv, Mutex, Loading,
       Complete, Reading, Waiting, TypeInv, TypeOK
  <2>2. CASE ~Sound(seen[r])
    BY <1>4, <2>2, <1>r, <1>e DEF Validate, files
  <2> QED BY <2>1, <2>2
<1>5. ASSUME NEW r \in Requests, Prepare(r) PROVE LoadInv'
  <2>1. CASE Raise(r)
    BY <1>5, <2>1, <1>r, <1>e DEF Prepare, files
  <2>2. CASE ~Raise(r)
    <3>1. Follows(pc[r]) \in {"read", "storeEncoder"}
      BY <1>5 DEF Prepare
    <3> QED
      BY <1>5, <2>2, <3>1, <1>e DEF Prepare, Goto, files, fields, calls, LoadInv, Mutex, Loading,
         Complete, Reading, Waiting, TypeInv, TypeOK
  <2> QED BY <2>1, <2>2
<1>6. ASSUME NEW r \in Requests, StoreEncoder(r) PROVE LoadInv'
  BY <1>6, <1>e DEF StoreEncoder, Goto, files, fields, calls, LoadInv, Mutex, Loading, Complete,
     Reading, Waiting, TypeInv, TypeOK
<1>7. ASSUME NEW r \in Requests, StoreEvidence(r) PROVE LoadInv'
  BY <1>7, <1>e DEF StoreEvidence, Goto, files, fields, calls, LoadInv, Mutex, Loading, Complete,
     Reading, Waiting, TypeInv, TypeOK
<1>8. ASSUME NEW r \in Requests, StoreBundle(r) PROVE LoadInv'
  BY <1>8, <1>e DEF StoreBundle, Goto, files, fields, calls, LoadInv, Mutex, Loading, Complete,
     Reading, Waiting, TypeInv, TypeOK
<1>9. ASSUME NEW r \in Requests, Release(r) PROVE LoadInv'
  BY <1>9, <1>e DEF Release, Goto, files, fields, calls, LoadInv, Mutex, Loading, Complete,
     Reading, Waiting, TypeInv, TypeOK
<1>10. ASSUME NEW r \in Requests, UseEncoder(r) PROVE LoadInv'
  <2>1. encoder /\ pc[r] \notin Locked
    BY <1>10, <1>e DEF UseEncoder, LoadInv, Reading, Complete
  <2>2. CASE End(r, "refused")
    BY <1>10, <2>1, <2>2, <1>d, EndKeeps DEF UseEncoder, files, fields
  <2>3. CASE ~End(r, "refused")
    BY <1>10, <2>1, <2>3, <1>e DEF UseEncoder, Goto, files, fields, LoadInv, Mutex, Loading,
       Complete, Reading, Waiting, TypeInv, TypeOK
  <2> QED BY <2>2, <2>3
<1>11. ASSUME NEW r \in Requests, UseBundle(r) PROVE LoadInv'
  <2>1. bundle # None
    BY <1>11 DEF UseBundle, LoadInv, Reading
  <2>2. got' = [got EXCEPT ![r].bundle = bundle]
    BY <1>11, <2>1 DEF UseBundle
  <2>3. got'[r].bundle = bundle /\ \A q \in Requests \ {r} : got'[q] = got[q]
    BY <2>2 DEF TypeInv, TypeOK
  <2> QED
    BY <1>11, <2>1, <2>3, <1>e DEF UseBundle, Goto, files, fields, LoadInv, Mutex, Loading,
       Complete, Reading, Waiting, TypeInv, TypeOK
<1>12. ASSUME NEW r \in Requests, UseEvidence(r) PROVE LoadInv'
  <2>1. got' = [got EXCEPT ![r].evidence = evidence]
    BY <1>12 DEF UseEvidence
  <2>2. /\ got'[r].evidence = evidence /\ got'[r].bundle = got[r].bundle
        /\ \A q \in Requests \ {r} : got'[q] = got[q]
    BY <2>1 DEF TypeInv, TypeOK
  <2> QED
    BY <1>12, <2>2, <1>e DEF UseEvidence, Goto, files, fields, LoadInv, Mutex, Loading,
       Complete, Reading, Waiting, TypeInv, TypeOK
<1>13. ASSUME NEW r \in Requests, RecordPlan(r) PROVE LoadInv'
  BY <1>13, <1>e DEF RecordPlan, Goto, files, fields, calls, LoadInv, Mutex, Loading, Complete,
     Reading, Waiting, TypeInv, TypeOK
<1>14. ASSUME NEW r \in Requests, Respond(r) PROVE LoadInv'
  <2>1. Results(r) \in published /\ Results(r) # "waiting" /\ pc[r] \notin Locked
    BY <1>14, <1>e, NamesAssumption
    DEF Respond, Results, LoadInv, Reading, TypeInv, TypeOK, Maybe
  <2> QED BY <1>14, <2>1, EndKeeps DEF Respond, files, fields
<1>15. ASSUME NEW p \in Probes, Probe(p) PROVE LoadInv'
  <2>1. UNCHANGED provider
    BY <1>15 DEF Probe, Poll, NotReady, Check, Remember, Ready
  <2> QED
    BY <2>1 DEF provider, files, fields, calls, LoadInv, Mutex, Loading, Complete, Reading, Waiting
<1>16. ASSUME NEW g \in Generations, Publish(g) \/ Damage(g) PROVE LoadInv'
  BY <1>16 DEF Publish, Damage, fields, calls, LoadInv, Mutex, Loading, Complete, Reading, Waiting
<1>17. CASE Restart
  BY <1>17, <1>e DEF Restart, InProgress, LoadInv, Mutex, Loading, Complete, Reading, Waiting,
     TypeInv, TypeOK
<1>18. CASE UNCHANGED vars
  BY <1>18 DEF vars, LoadInv, Mutex, Loading, Complete, Reading, Waiting
<1> QED
  BY <1>1, <1>2, <1>3, <1>4, <1>5, <1>6, <1>7, <1>8, <1>9, <1>10, <1>11, <1>12, <1>13, <1>14,
     <1>15, <1>16, <1>17, <1>18
  DEF Next, Serve

\* A step of a request other than the one that stores the bundle and those that
\* end it is invisible.
LEMMA RequestStep ==
  ASSUME Backend = "siglip2", TypeInv, LoadInv, NEW r \in Requests, Serve(r)
  PROVE  \/ UNCHANGED <<published, bundle, outcome>>
         \/ AbstractProvider!Refuse(r)
         \/ AbstractProvider!Answer(r)
         \/ \E g \in Generations : AbstractProvider!Load(g)
<1>0. TypeOK /\ Waiting /\ Loading /\ Complete /\ Reading
  BY DEF TypeInv, LoadInv
<1>1. ASSUME End(r, "refused"), pc[r] # "done", UNCHANGED <<published, bundle>>
      PROVE  AbstractProvider!Refuse(r)
  BY <1>0, <1>1 DEF End, Waiting, AbstractProvider!Refuse
<1>2. ASSUME Raise(r), pc[r] # "done", UNCHANGED published
      PROVE  AbstractProvider!Refuse(r)
  BY <1>1, <1>2 DEF Raise
<1>3. CASE Arrive(r) \/ Acquire(r) \/ StoreEncoder(r) \/ StoreEvidence(r) \/ Release(r)
            \/ UseEvidence(r) \/ RecordPlan(r)
  BY <1>3 DEF Arrive, Acquire, StoreEncoder, StoreEvidence, Release, UseEvidence, RecordPlan,
     files, fields, calls
<1>4. CASE ReadPointer(r)
  BY <1>2, <1>4 DEF ReadPointer, files, fields
<1>5. CASE Validate(r)
  BY <1>2, <1>5 DEF Validate, files, fields, calls
<1>6. CASE Prepare(r)
  BY <1>2, <1>6 DEF Prepare, files, fields, calls
<1>7. CASE StoreBundle(r)
  <2>1. bundle = None /\ seen[r] \in published \ Foreign /\ seen[r] \in Generations
    BY <1>0, <1>7 DEF StoreBundle, Loading, Chosen, TypeOK
  <2>2. AbstractProvider!Load(seen[r])
    BY <1>7, <2>1 DEF StoreBundle, AbstractProvider!Load, files, calls
  <2> QED BY <2>1, <2>2
<1>8. CASE UseEncoder(r)
  <2>1. encoder
    BY <1>0, <1>8 DEF UseEncoder, Reading, Complete
  <2> QED BY <1>1, <1>8, <2>1 DEF UseEncoder, files, fields
<1>9. CASE UseBundle(r)
  <2>1. bundle # None
    BY <1>0, <1>9 DEF UseBundle, Reading
  <2> QED BY <1>9, <2>1 DEF UseBundle, files, fields
<1>10. CASE Respond(r)
  <2>1. Results(r) = bundle /\ bundle # None /\ outcome[r] = "waiting"
    BY <1>0, <1>10 DEF Respond, Results, Reading, Waiting
  <2>2. AbstractProvider!Answer(r)
    BY <1>10, <2>1 DEF Respond, End, AbstractProvider!Answer, files, fields
  <2> QED BY <2>2
<1> QED
  BY <1>3, <1>4, <1>5, <1>6, <1>7, <1>8, <1>9, <1>10 DEF Serve

LEMMA ProviderStep ==
  ASSUME Backend = "siglip2", TypeInv, LoadInv, [Next]_vars
  PROVE  [AbstractProvider!Next]_<<published, bundle, outcome>>
<1>1. ASSUME NEW r \in Requests, Serve(r)
      PROVE  [AbstractProvider!Next]_<<published, bundle, outcome>>
  BY <1>1, RequestStep DEF AbstractProvider!Next
<1>2. ASSUME NEW p \in Probes, Probe(p)
      PROVE  UNCHANGED <<published, bundle, outcome>>
  BY <1>2 DEF Probe, Poll, NotReady, Check, Remember, Ready, provider, files, fields, calls
<1>3. ASSUME NEW g \in Generations, Publish(g)
      PROVE  AbstractProvider!Next
  BY <1>3 DEF Publish, fields, calls, AbstractProvider!Next, AbstractProvider!Publish
<1>4. ASSUME NEW g \in Generations, Damage(g)
      PROVE  UNCHANGED <<published, bundle, outcome>>
  BY <1>4 DEF Damage, fields, calls
<1>5. CASE Restart
  <2> DEFINE lost == {r \in Requests : InProgress(r)}
  <2>1. lost \in SUBSET {r \in Requests : outcome[r] = "waiting"}
    BY DEF LoadInv, Waiting, InProgress
  <2>2. outcome' = [r \in Requests |-> IF r \in lost THEN "lost" ELSE outcome[r]]
    BY <1>5 DEF Restart
  <2>3. bundle' = None /\ published' = published
    BY <1>5 DEF Restart, files
  <2> HIDE DEF lost
  <2>4. AbstractProvider!Restart
    BY <2>1, <2>2, <2>3 DEF AbstractProvider!Restart
  <2> QED BY <2>4 DEF AbstractProvider!Next
<1>6. CASE UNCHANGED vars
  BY <1>6 DEF vars
<1> QED BY <1>1, <1>2, <1>3, <1>4, <1>5, <1>6 DEF Next

\* With the SigLIP2 backend the shared fields, filled in by whichever request
\* comes first and read without a lock, behave like one generation that is
\* loaded in one step: no request meets a part of it or a mixture.
THEOREM RuntimeImplementsProvider ==
  Backend = "siglip2" => (Spec => ImplementsSearchProvider)
<1> SUFFICES ASSUME Backend = "siglip2" PROVE Spec => ImplementsSearchProvider
  OBVIOUS
<1>1. TypeInv /\ TypeInv' /\ LoadInv /\ [Next]_vars => LoadInv'
  BY LoadInvNext
<1>2. Init => AbstractProvider!Init
  BY DEF Init, AbstractProvider!Init
<1>3. TypeInv /\ LoadInv /\ [Next]_vars => [AbstractProvider!Next]_<<published, bundle, outcome>>
  BY ProviderStep
<1> QED
  BY TypeInvInit, TypeInvNext, LoadInvInit, <1>1, <1>2, <1>3, PTL
  DEF Spec, ImplementsSearchProvider, AbstractProvider!Spec, AbstractProvider!vars
=============================================================================
