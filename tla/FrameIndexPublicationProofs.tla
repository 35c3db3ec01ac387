--------------------- MODULE FrameIndexPublicationProofs ---------------------
(* Theorems about FrameIndexPublication, for every value of its constants. *)
EXTENDS FrameIndexPublication, TLAPS

-----------------------------------------------------------------------------
(* Types *)

\* What the definitions of the labels expand to.
LEMMA Labels ==
    /\ PC = {"idle", "sweep", "report", "mint", "collect", "frames.faiss", "mapping.json",
             "payloads.json", "generation.json", "validate", "rename", "publish", "load"}
    /\ Files = {"frames.faiss", "mapping.json", "payloads.json", "generation.json"}
    /\ Unsyncable \subseteq Files
BY DEF PC, Building, Files, Artifacts, Unsyncable

LEMMA RaiseTypes ==
    ASSUME NEW w \in Writers, TypeOK, Raise(w)
    PROVE  /\ pc' \in [Writers -> PC]
           /\ gen' \in [Writers -> GenOrNone]
           /\ content' \in [Writers -> Contents \cup {None}]
           /\ queue' \in [Writers -> SUBSET Generations]
           /\ dir' \in [Writers -> GenOrNone]
           /\ left' \in [Writers -> SUBSET Files]
BY Labels DEF TypeOK, Raise, Drop, Goto, GenOrNone

\* A writer that has drawn an id is inside build_frame_index, and the other way
\* round; its file labels name files.
HasGeneration ==
    \A w \in Writers :
        pc[w] \in Building \ {"mint"} => gen[w] \in Generations

HasContent ==
    \A w \in Writers :
        pc[w] \in Files => content[w] \in Collectable

TypeInv == TypeOK /\ HasGeneration /\ HasContent

LEMMA TypeInvInit == Init => TypeInv
BY ConstantsAssumption, Labels
   DEF Init, TypeInv, TypeOK, HasGeneration, HasContent, ReaderState, GenOrNone, FileValue,
       Building, Artifacts, Files

LEMMA TypeInvNext == TypeInv /\ [Next]_vars => TypeInv'
<1> SUFFICES ASSUME TypeInv, [Next]_vars PROVE TypeInv'
    OBVIOUS
<1> USE Labels DEF TypeInv, fsVars, callVars, sweepVars
<1>a. CASE UNCHANGED vars
    BY <1>a DEF vars, TypeOK, HasGeneration, HasContent
<1>b. ASSUME NEW w \in Writers, Begin(w) PROVE TypeInv'
    BY <1>b DEF Begin, Goto, TypeOK, HasGeneration, HasContent, Building
<1>c. ASSUME NEW w \in Writers, SweepOpen(w) PROVE TypeInv'
    BY <1>c DEF SweepOpen, Present, TypeOK, HasGeneration, HasContent, GenOrNone
<1>d. ASSUME NEW w \in Writers, SweepUnlink(w) PROVE TypeInv'
    BY <1>d DEF SweepUnlink, TypeOK, HasGeneration, HasContent, GenOrNone, FileValue
<1>e. ASSUME NEW w \in Writers, SweepRmdir(w) PROVE TypeInv'
    BY <1>e DEF SweepRmdir, TypeOK, HasGeneration, HasContent, GenOrNone
<1>f. ASSUME NEW w \in Writers, Raise(w), UNCHANGED <<place, current, answer, reader>>,
             files' \in [Generations -> [Files -> FileValue]],
             unsynced' \subseteq Generations \X Unsyncable
      PROVE  TypeInv'
    <2>1. TypeOK'
        BY <1>f, RaiseTypes DEF TypeOK
    <2>2. HasGeneration' /\ HasContent'
        BY <1>f DEF Raise, Drop, Goto, TypeOK, HasGeneration, HasContent, Building
    <2> QED BY <2>1, <2>2
<1>g. ASSUME NEW w \in Writers, SweepRaise(w) PROVE TypeInv'
    BY <1>f, <1>g DEF SweepRaise, TypeOK
<1>h. ASSUME NEW w \in Writers, SweepDone(w) PROVE TypeInv'
    BY <1>h DEF SweepDone, Goto, TypeOK, HasGeneration, HasContent, Building
<1>i. ASSUME NEW w \in Writers, MaybeTorn(w)
      PROVE  /\ files' \in [Generations -> [Files -> FileValue]]
             /\ unsynced' \subseteq Generations \X Unsyncable
    <2>1. CASE UNCHANGED <<files, unsynced>>
        BY <2>1 DEF TypeOK
    <2>2. CASE ~UNCHANGED <<files, unsynced>>
        <3>1. pc[w] \in Unsyncable /\ gen[w] \in Generations
            BY <1>i, <2>2 DEF MaybeTorn, HasGeneration, Building, Unsyncable
        <3>2. /\ files' = [files EXCEPT ![gen[w]][pc[w]] = Torn]
              /\ unsynced' = unsynced \cup {<<gen[w], pc[w]>>}
            BY <1>i, <2>2 DEF MaybeTorn
        <3>3. files' \in [Generations -> [Files -> FileValue]]
            BY <3>1, <3>2 DEF TypeOK, FileValue
        <3> QED BY <3>1, <3>2, <3>3 DEF TypeOK
    <2> QED BY <2>1, <2>2
<1>j. ASSUME NEW w \in Writers, Fail(w) PROVE TypeInv'
    BY <1>f, <1>i, <1>j DEF Fail
<1>k. ASSUME NEW w \in Writers, Crash(w) PROVE TypeInv'
    <2>1. TypeOK'
        BY <1>i, <1>k DEF Crash, Drop, Goto, TypeOK, GenOrNone
    <2>2. HasGeneration' /\ HasContent'
        BY <1>k DEF Crash, Drop, Goto, TypeOK, HasGeneration, HasContent, Building
    <2> QED BY <2>1, <2>2
<1>l. ASSUME NEW p \in Publishers, Build(p) PROVE TypeInv'
    <2> p \in Writers
        BY DEF Writers
    <2>1. CASE Mint(p)
        BY <2>1 DEF Mint, Goto, TypeOK, HasGeneration, HasContent, Building, GenOrNone
    <2>2. CASE Collect(p)
        <3>1. CASE Raise(p)
            BY <1>f, <2>2, <3>1 DEF Collect, TypeOK
        <3>2. CASE ~Raise(p)
            BY <2>2, <3>2, ConstantsAssumption
               DEF Collect, Goto, TypeOK, HasGeneration, HasContent, Building
        <3> QED BY <3>1, <3>2
    <2>3. ASSUME NEW f \in Files, pc[p] = f, Write(p, f)
          PROVE  /\ files' \in [Generations -> [Files -> FileValue]]
                 /\ unsynced' \subseteq Generations \X Unsyncable
        <3>1. gen[p] \in Generations /\ content[p] \in Contents
            BY <2>3, ConstantsAssumption DEF HasGeneration, HasContent, Building
        <3> QED BY <2>3, <3>1 DEF Write, TypeOK, FileValue
    <2>4. ASSUME NEW f \in Files, NEW next \in Files, WriteMakingParent(p, f, next)
          PROVE  TypeInv'
        <3>1. TypeOK'
            BY <2>3, <2>4 DEF WriteMakingParent, Goto, TypeOK
        <3>2. HasGeneration' /\ HasContent'
            BY <2>4 DEF WriteMakingParent, Goto, TypeOK, HasGeneration, HasContent, Building
        <3> QED BY <3>1, <3>2
    <2>5. CASE SaveVectors(p) \/ SavePayloads(p)
        BY <2>4, <2>5 DEF SaveVectors, SavePayloads
    <2>6. CASE SaveMapping(p)
        <3>1. CASE Raise(p) /\ UNCHANGED <<files, unsynced>>
            BY <1>f, <2>6, <3>1 DEF SaveMapping, TypeOK
        <3>2. CASE Write(p, "mapping.json") /\ Goto(p, "payloads.json")
                    /\ UNCHANGED <<callVars, sweepVars>>
            <4>1. TypeOK'
                BY <2>3, <2>6, <3>2 DEF SaveMapping, Goto, TypeOK
            <4>2. HasGeneration' /\ HasContent'
                BY <2>6, <3>2 DEF SaveMapping, Goto, TypeOK, HasGeneration, HasContent, Building
            <4> QED BY <4>1, <4>2
        <3> QED BY <2>6, <3>1, <3>2 DEF SaveMapping
    <2>7. CASE SaveGeneration(p)
        <3>1. CASE Raise(p) /\ UNCHANGED <<files, unsynced>>
            BY <1>f, <2>7, <3>1 DEF SaveGeneration, TypeOK
        <3>2. CASE Write(p, "generation.json") /\ Goto(p, "validate")
                    /\ UNCHANGED <<callVars, sweepVars>>
            <4>1. TypeOK'
                BY <2>3, <2>7, <3>2 DEF SaveGeneration, Goto, TypeOK
            <4>2. HasGeneration' /\ HasContent'
                BY <2>7, <3>2 DEF SaveGeneration, Goto, TypeOK, HasGeneration, HasContent, Building
            <4> QED BY <4>1, <4>2
        <3> QED BY <2>7, <3>1, <3>2 DEF SaveGeneration
    <2>8. CASE Validate(p)
        <3>1. CASE Raise(p)
            BY <1>f, <2>8, <3>1 DEF Validate, TypeOK
        <3>2. CASE Goto(p, "rename") /\ UNCHANGED <<callVars, sweepVars>>
            BY <2>8, <3>2 DEF Validate, Goto, TypeOK, HasGeneration, HasContent, Building
        <3> QED BY <2>8, <3>1, <3>2 DEF Validate
    <2>9. CASE Rename(p)
        <3>1. CASE Raise(p) /\ UNCHANGED place
            BY <1>f, <2>9, <3>1 DEF Rename, TypeOK
        <3>2. CASE /\ place' = [place EXCEPT ![gen[p]] = "generations"]
                   /\ Goto(p, "publish")
                   /\ UNCHANGED <<callVars, sweepVars>>
            <4>1. TypeOK'
                BY <2>9, <3>2 DEF Rename, Goto, TypeOK
            <4>2. HasGeneration' /\ HasContent'
                BY <2>9, <3>2 DEF Rename, Goto, TypeOK, HasGeneration, HasContent, Building
            <4> QED BY <4>1, <4>2
        <3> QED BY <2>9, <3>1, <3>2 DEF Rename
    <2>10. CASE Publish(p)
        BY <2>10 DEF Publish, Goto, TypeOK, HasGeneration, HasContent, Building, GenOrNone
    <2>11. CASE Load(p)
        <3>1. CASE Raise(p) /\ UNCHANGED answer
            BY <1>f, <2>11, <3>1 DEF Load, TypeOK
        <3>2. CASE answer' = [answer EXCEPT ![p] = current] /\ Goto(p, "idle") /\ Drop(p)
            <4>1. TypeOK'
                BY <2>11, <3>2 DEF Load, Drop, Goto, TypeOK, GenOrNone
            <4>2. HasGeneration' /\ HasContent'
                BY <2>11, <3>2 DEF Drop, Goto, TypeOK, HasGeneration, HasContent, Building
            <4> QED BY <4>1, <4>2
        <3> QED BY <2>11, <3>1, <3>2 DEF Load
    <2>12. CASE Report(p)
        BY <2>12 DEF Report, Goto, TypeOK, HasGeneration, HasContent, Building, GenOrNone
    <2> QED
        BY <1>l, <2>1, <2>2, <2>5, <2>6, <2>7, <2>8, <2>9, <2>10, <2>11, <2>12 DEF Build
<1>m. ASSUME NEW r \in Readers, ReadPointer(r) PROVE TypeInv'
    BY <1>m DEF ReadPointer, TypeOK, HasGeneration, HasContent, ReaderState, GenOrNone
<1>n. ASSUME NEW r \in Readers, ReadGeneration(r) PROVE TypeInv'
    <2>1. TypeOK'
        <3>1. Loadable(reader[r].ptr) => ContentOf(reader[r].ptr) \in Contents
            BY ConstantsAssumption DEF Loadable, Intact, Holds, ContentOf
        <3> QED BY <1>n, <3>1 DEF ReadGeneration, TypeOK, ReaderState
    <2> QED BY <1>n, <2>1 DEF ReadGeneration, HasGeneration, HasContent
<1>o. CASE LosePower
    <2>1. files' \in [Generations -> [Files -> FileValue]]
        BY <1>o DEF LosePower, TypeOK, FileValue
    <2> QED BY <1>o, <2>1 DEF LosePower, TypeOK, HasGeneration, HasContent, ReaderState,
                GenOrNone, Building
<1> QED
    BY <1>a, <1>b, <1>c, <1>d, <1>e, <1>g, <1>h, <1>j, <1>k, <1>l, <1>m, <1>n, <1>o DEF Next, Sweep

\* Every reachable state has the types of TypeOK: the labels of a call always
\* come with the id and the content they need.
THEOREM TypeCorrect == Spec => []TypeOK
<1>1. Spec => []TypeInv
    BY TypeInvInit, TypeInvNext, PTL DEF Spec
<1> QED BY <1>1, PTL DEF TypeInv

-----------------------------------------------------------------------------
(* One writer at a time and no power loss *)

\* At most one writer is inside a call.
Exclusive == \A v, w \in Writers : pc[v] # "idle" /\ pc[w] # "idle" => v = w

\* A sweep works on what is in staging, and on all of it.
SweepOf(w) ==
    /\ pc[w] # "sweep" => dir[w] = None
    /\ pc[w] = "sweep" =>
        /\ \A g \in queue[w] : place[g] = "staging"
        /\ dir[w] \notin queue[w]
        /\ dir[w] # None => place[dir[w]] = "staging"
        /\ \A g \in Generations : place[g] = "staging" => g \in queue[w] \cup {dir[w]}

SweepInv == \A w \in Writers : SweepOf(w)

\* A build finds staging empty, and its directory is where the code left it.
BuildInv ==
    \A w \in Writers :
        /\ pc[w] = "mint" => \A g \in Generations : place[g] # "staging"
        /\ pc[w] \in Files \cup {"collect", "validate", "rename"} => place[gen[w]] = "staging"
        /\ pc[w] = "rename" => Intact(gen[w])
        /\ pc[w] \in {"publish", "load"} => place[gen[w]] = "generations"
        /\ pc[w] = "load" => current = gen[w]

CurrentInv == current # None => place[current] = "generations"

\* A pointer that was read keeps naming a generation that is there.
PointerInv ==
    \A r \in Readers :
        reader[r].phase = "reading" =>
            reader[r].ptr \in Generations /\ place[reader[r].ptr] = "generations"

IInv ==
    /\ TypeInv
    /\ Exclusive
    /\ SweepInv
    /\ BuildInv
    /\ CurrentInv
    /\ PointerInv
    /\ RollbackLoads
    /\ AtMostOneStaging

LEMMA IInvInit == Init => IInv
BY TypeInvInit, Labels
   DEF Init, IInv, Exclusive, SweepInv, SweepOf, BuildInv, CurrentInv, PointerInv, RollbackLoads,
       AtMostOneStaging, Building

\* Every step of a single writer leaves generations/ alone.
LEMMA Scoped ==
    ASSUME OneWriter, IInv, [Next]_vars
    PROVE  CleanupScopedStep
<1> USE Labels DEF CleanupScopedStep
<1>0. TypeOK /\ HasGeneration /\ PowerLoss = FALSE
    BY DEF IInv, TypeInv, OneWriter
<1>1. CASE UNCHANGED <<place, files>>
    BY <1>1
<1>2. ASSUME NEW w \in Writers, SweepUnlink(w) PROVE CleanupScopedStep
    <2>1. place[dir[w]] = "staging"
        BY <1>2 DEF IInv, SweepInv, SweepOf, SweepUnlink
    <2> QED BY <1>0, <1>2, <2>1 DEF SweepUnlink, TypeOK
<1>3. ASSUME NEW w \in Writers, SweepRmdir(w) PROVE CleanupScopedStep
    BY <1>0, <1>3 DEF SweepRmdir, TypeOK
<1>4. ASSUME NEW w \in Writers, MaybeTorn(w), UNCHANGED place PROVE CleanupScopedStep
    BY <1>0, <1>4 DEF MaybeTorn, TypeOK
<1>5. ASSUME NEW p \in Publishers, Mint(p) PROVE CleanupScopedStep
    BY <1>0, <1>5 DEF Mint, TypeOK
<1>6. ASSUME NEW p \in Publishers, NEW f \in Files, pc[p] = f, Write(p, f),
             place' \in {place, [place EXCEPT ![gen[p]] = "staging"]}
      PROVE  CleanupScopedStep
    <2>1. p \in Writers /\ place[gen[p]] = "staging"
        BY <1>6 DEF IInv, BuildInv, Writers
    <2> QED BY <1>0, <1>6, <2>1 DEF Write, TypeOK
<1>7. ASSUME NEW p \in Publishers, Rename(p) PROVE CleanupScopedStep
    BY <1>0, <1>7 DEF Rename, TypeOK
<1>8. ASSUME NEW w \in Writers, Begin(w) \/ Sweep(w) \/ Fail(w) \/ Crash(w)
      PROVE  CleanupScopedStep
    BY <1>1, <1>2, <1>3, <1>4, <1>8
       DEF Begin, Sweep, SweepOpen, SweepRaise, SweepDone, Fail, Crash, fsVars
<1>9. ASSUME NEW p \in Publishers, Build(p) PROVE CleanupScopedStep
    <2>1. CASE SaveVectors(p) \/ SavePayloads(p)
        BY <1>6, <2>1 DEF SaveVectors, SavePayloads, WriteMakingParent
    <2>2. CASE SaveMapping(p) \/ SaveGeneration(p)
        BY <1>1, <1>6, <2>2 DEF SaveMapping, SaveGeneration
    <2>3. CASE Collect(p) \/ Validate(p) \/ Publish(p) \/ Load(p) \/ Report(p)
        BY <1>1, <2>3 DEF Collect, Validate, Publish, Load, Report, fsVars
    <2> QED BY <1>5, <1>7, <1>9, <2>1, <2>2, <2>3 DEF Build
<1>10. ASSUME NEW r \in Readers, ReadPointer(r) \/ ReadGeneration(r)
       PROVE  CleanupScopedStep
    BY <1>1, <1>10 DEF ReadPointer, ReadGeneration, fsVars
<1>11. CASE UNCHANGED vars
    BY <1>1, <1>11 DEF vars, fsVars
<1> QED
    BY <1>0, <1>8, <1>9, <1>10, <1>11 DEF Next, LosePower

\* What a step that leaves generations/ alone cannot break.
LEMMA GenerationsKept ==
    ASSUME IInv, TypeInv', CleanupScopedStep
    PROVE  /\ \A g \in Generations : place[g] = "generations" => Intact(g)' /\ place'[g] = "generations"
           /\ current' = current => CurrentInv'
           /\ reader' = reader => PointerInv'
<1>1. ASSUME NEW g \in Generations, place[g] = "generations"
      PROVE  Intact(g)' /\ place'[g] = "generations"
    BY <1>1 DEF IInv, RollbackLoads, Loadable, Intact, Holds, CleanupScopedStep
<1>2. ASSUME current' = current PROVE CurrentInv'
    BY <1>2 DEF IInv, TypeInv, TypeOK, GenOrNone, CurrentInv, CleanupScopedStep
<1>3. ASSUME reader' = reader PROVE PointerInv'
    BY <1>3 DEF IInv, PointerInv, CleanupScopedStep
<1> QED BY <1>1, <1>2, <1>3

LEMMA IInvNext ==
    ASSUME OneWriter, IInv, [Next]_vars
    PROVE  IInv'
<1> USE Labels
<1>0. TypeInv' /\ CleanupScopedStep /\ PowerLoss = FALSE /\ SingleWriter = TRUE
    BY TypeInvNext, Scoped DEF IInv, OneWriter, ConstantsAssumption
<1>1. TypeOK /\ TypeOK' /\ HasGeneration /\ HasGeneration'
    BY <1>0 DEF IInv, TypeInv
<1>2. ASSUME NEW w \in Writers, \A v \in Writers : v # w => pc'[v] = pc[v],
             pc[w] # "idle" \/ \A v \in Writers : pc[v] = "idle"
      PROVE  Exclusive'
    BY <1>2 DEF IInv, Exclusive
<1>3. ASSUME NEW w \in Writers, pc[w] # "idle", NEW v \in Writers, v # w
      PROVE  pc[v] = "idle" /\ dir[v] = None
    BY <1>3 DEF IInv, Exclusive, SweepInv, SweepOf
\* The writers that are not in the call stay out of it.
<1>w. ASSUME NEW w \in Writers, SweepOf(w)', pc[w] # "idle" \/ \A v \in Writers : pc[v] = "idle",
             \A v \in Writers : v # w => pc'[v] = pc[v] /\ dir'[v] = dir[v]
      PROVE  SweepInv'
    <2>1. ASSUME NEW v \in Writers, v # w PROVE SweepOf(v)'
        <3>1. pc[v] = "idle" /\ dir[v] = None
            BY <1>3, <1>w, <2>1 DEF IInv, SweepInv, SweepOf
        <3> QED BY <1>w, <2>1, <3>1 DEF SweepOf
    <2> QED BY <1>w, <2>1 DEF SweepInv
\* Steps that touch no directory and no file.
<1>4. ASSUME UNCHANGED <<place, files>>
      PROVE  RollbackLoads' /\ AtMostOneStaging'
    BY <1>4 DEF IInv, RollbackLoads, AtMostOneStaging, Loadable, Intact, Holds
\* A call that ends, by a return, an exception or the death of the process.
<1>5. ASSUME NEW w \in Writers, pc[w] # "idle", NEW l \in {"idle", "report"}, Goto(w, l),
             Drop(w), UNCHANGED <<place, current, reader>>
      PROVE  IInv'
    <2>1. Exclusive'
        BY <1>1, <1>2, <1>5 DEF Goto, TypeOK
    <2>2. SweepInv'
        <3>1. SweepOf(w)'
            BY <1>1, <1>5 DEF Goto, Drop, TypeOK, SweepOf
        <3> QED BY <1>1, <1>w, <1>5, <3>1 DEF Goto, Drop, TypeOK
    <2>3. BuildInv'
        BY <1>1, <1>3, <1>5 DEF Goto, Drop, TypeOK, BuildInv
    <2>4. CurrentInv' /\ PointerInv'
        BY <1>0, <1>5, GenerationsKept
    <2>5. AtMostOneStaging'
        BY <1>5 DEF IInv, AtMostOneStaging
    <2>6. RollbackLoads'
        BY <1>0, <1>5, GenerationsKept DEF RollbackLoads, Loadable
    <2> QED BY <1>0, <2>1, <2>2, <2>3, <2>4, <2>5, <2>6 DEF IInv
<1>6. ASSUME NEW w \in Writers, pc[w] # "idle", Raise(w), UNCHANGED <<place, current, reader>>
      PROVE  IInv'
    BY <1>5, <1>6 DEF Raise
<1>7. ASSUME NEW w \in Writers, Begin(w) PROVE IInv'
    <2>1. Exclusive'
        BY <1>0, <1>1, <1>2, <1>7 DEF Begin, Goto, TypeOK
    <2>2. SweepInv'
        <3>1. dir[w] = None
            BY <1>7 DEF Begin, SweepInv, SweepOf, IInv
        <3>2. /\ pc'[w] = "sweep" /\ dir'[w] = None /\ place' = place
              /\ queue'[w] = {g \in Generations : place[g] = "staging"}
            BY <1>1, <1>7, <3>1 DEF Begin, Goto, TypeOK, fsVars
        <3>3. SweepOf(w)'
            BY <3>2, ConstantsAssumption DEF SweepOf
        <3> QED BY <1>0, <1>1, <1>w, <1>7, <3>3 DEF Begin, Goto, TypeOK
    <2>3. BuildInv'
        BY <1>0, <1>1, <1>7 DEF Begin, Goto, TypeOK, BuildInv
    <2>4. CurrentInv' /\ PointerInv' /\ RollbackLoads' /\ AtMostOneStaging'
        BY <1>0, <1>4, <1>7, GenerationsKept DEF Begin, fsVars
    <2> QED BY <1>0, <2>1, <2>2, <2>3, <2>4 DEF IInv
<1>8. ASSUME NEW w \in Writers, Sweep(w) PROVE IInv'
    <2>1. pc[w] = "sweep"
        BY <1>8 DEF Sweep, SweepOpen, SweepUnlink, SweepRmdir, SweepRaise, SweepDone
    <2>2. CASE SweepOpen(w)
        <3>1. Exclusive'
            BY <2>2 DEF SweepOpen, Exclusive, IInv
        <3>2. SweepInv'
            <4>1. SweepOf(w)
                BY DEF SweepInv, IInv
            <4>2. PICK g \in queue[w] : /\ queue' = [queue EXCEPT ![w] = @ \ {g}]
                                       /\ dir' = [dir EXCEPT ![w] = g]
                BY <2>1, <2>2, <4>1 DEF SweepOpen, SweepOf
            <4>3. queue'[w] = queue[w] \ {g} /\ dir'[w] = g /\ pc' = pc /\ place' = place
                BY <1>1, <2>2, <4>2 DEF SweepOpen, TypeOK, fsVars
            <4>4. SweepOf(w)'
                BY <2>1, <2>2, <4>1, <4>2, <4>3, ConstantsAssumption DEF SweepOpen, SweepOf
            <4> QED BY <1>1, <1>w, <2>1, <4>2, <4>3, <4>4 DEF TypeOK
        <3>3. BuildInv'
            BY <1>3, <2>1, <2>2 DEF SweepOpen, BuildInv
        <3>4. CurrentInv' /\ PointerInv' /\ RollbackLoads' /\ AtMostOneStaging'
            BY <1>0, <1>4, <2>2, GenerationsKept DEF SweepOpen, fsVars
        <3> QED BY <1>0, <3>1, <3>2, <3>3, <3>4 DEF IInv
    <2>3. CASE SweepUnlink(w)
        <3>1. Exclusive' /\ AtMostOneStaging'
            BY <2>3 DEF SweepUnlink, Exclusive, AtMostOneStaging, IInv
        <3>2. SweepInv'
            BY <2>3 DEF SweepUnlink, SweepInv, SweepOf, IInv
        <3>3. BuildInv'
            BY <1>3, <2>1, <2>3 DEF SweepUnlink, BuildInv
        <3>4. CurrentInv' /\ PointerInv'
            BY <1>0, <2>3, GenerationsKept DEF SweepUnlink
        <3>5. RollbackLoads'
            BY <1>0, <2>3, GenerationsKept DEF SweepUnlink, RollbackLoads, Loadable
        <3> QED BY <1>0, <3>1, <3>2, <3>3, <3>4, <3>5 DEF IInv
    <2>4. CASE SweepRmdir(w)
        <3>1. dir[w] \in Generations
            BY <1>1, <2>4 DEF SweepRmdir, TypeOK, GenOrNone
        <3>2. Exclusive' /\ AtMostOneStaging'
            BY <1>1, <2>4, <3>1 DEF SweepRmdir, Exclusive, AtMostOneStaging, IInv, TypeOK
        <3>3. SweepInv'
            <4>1. /\ \A g \in queue[w] : place'[g] = "staging"
                  /\ \A g \in Generations : place'[g] = "staging" => g \in queue[w]
                BY <1>1, <2>1, <2>4, <3>1 DEF SweepRmdir, SweepInv, SweepOf, IInv, TypeOK
            <4>2. /\ dir'[w] = None
                  /\ None \notin queue[w]
                BY <1>1, <2>4, ConstantsAssumption DEF SweepRmdir, TypeOK
            <4>3. SweepOf(w)'
                BY <2>1, <2>4, <4>1, <4>2 DEF SweepRmdir, SweepOf
            <4> QED BY <1>1, <1>w, <2>1, <2>4, <4>3 DEF SweepRmdir, TypeOK
        <3>4. BuildInv'
            BY <1>3, <2>1, <2>4 DEF SweepRmdir, BuildInv
        <3>5. CurrentInv' /\ PointerInv'
            BY <1>0, <2>4, GenerationsKept DEF SweepRmdir
        <3>6. RollbackLoads'
            BY <1>0, <1>1, <2>4, <3>1, GenerationsKept
               DEF SweepRmdir, RollbackLoads, Loadable, TypeOK
        <3> QED BY <1>0, <3>2, <3>3, <3>4, <3>5, <3>6 DEF IInv
    <2>5. CASE SweepRaise(w)
        BY <1>6, <2>1, <2>5 DEF SweepRaise, fsVars
    <2>6. CASE SweepDone(w)
        <3>1. Exclusive'
            BY <1>1, <1>2, <2>1, <2>6 DEF SweepDone, Goto, TypeOK
        <3>2. SweepInv'
            <4>1. SweepOf(w)'
                BY <1>1, <2>6 DEF SweepDone, Goto, SweepOf, TypeOK, sweepVars
            <4> QED BY <1>1, <1>w, <2>1, <2>6, <4>1 DEF SweepDone, Goto, TypeOK, sweepVars
        <3>3. BuildInv'
            <4>1. \A g \in Generations : place[g] # "staging"
                BY <2>1, <2>6, ConstantsAssumption DEF SweepDone, SweepInv, SweepOf, IInv
            <4>2. pc'[w] \in {"mint", "idle"} /\ place' = place
                BY <1>1, <2>6 DEF SweepDone, Goto, TypeOK, fsVars
            <4>3. \A v \in Writers : v # w => pc'[v] = "idle"
                BY <1>1, <1>3, <2>1, <2>6 DEF SweepDone, Goto, TypeOK
            <4> QED BY <4>1, <4>2, <4>3 DEF BuildInv
        <3>4. CurrentInv' /\ PointerInv' /\ RollbackLoads' /\ AtMostOneStaging'
            BY <1>0, <1>4, <2>6, GenerationsKept DEF SweepDone, fsVars
        <3> QED BY <1>0, <3>1, <3>2, <3>3, <3>4 DEF IInv
    <2> QED BY <1>8, <2>2, <2>3, <2>4, <2>5, <2>6 DEF Sweep
\* The steps of a build: the other writers are idle, and there is no sweep.
<1>b. ASSUME NEW p \in Publishers, pc[p] \notin {"idle", "sweep"}, NEW l \in Building, Goto(p, l),
             UNCHANGED sweepVars,
             l = "mint" => \A g \in Generations : place'[g] # "staging",
             l \in Files \cup {"collect", "validate", "rename"} => place'[gen'[p]] = "staging",
             l = "rename" => Intact(gen[p])',
             l \in {"publish", "load"} => place'[gen'[p]] = "generations",
             l = "load" => current' = gen'[p]
      PROVE  Exclusive' /\ SweepInv' /\ BuildInv'
    <2>0. p \in Writers /\ pc'[p] = l /\ l \notin {"idle", "sweep"}
        BY <1>1, <1>b DEF Writers, Goto, TypeOK, Building
    <2>1. Exclusive'
        BY <1>1, <1>2, <1>b, <2>0 DEF Goto, TypeOK
    <2>2. SweepInv'
        <3>1. SweepOf(p)'
            BY <1>b, <2>0 DEF SweepOf, SweepInv, IInv, sweepVars
        <3> QED BY <1>1, <1>w, <1>b, <2>0, <3>1 DEF Goto, TypeOK, sweepVars
    <2>3. ASSUME NEW v \in Writers, v # p PROVE pc'[v] = "idle"
        BY <1>1, <1>3, <1>b, <2>0, <2>3 DEF Goto, TypeOK
    <2>4. BuildInv'
        BY <1>b, <2>0, <2>3 DEF BuildInv
    <2> QED BY <2>1, <2>2, <2>4
<1>9. ASSUME NEW p \in Publishers, Build(p) PROVE IInv'
    <2> p \in Writers
        BY DEF Writers
    <2>0. pc[p] \notin {"idle", "sweep"}
        BY <1>9 DEF Build, Mint, Collect, SaveVectors, SaveMapping, SavePayloads, SaveGeneration,
                    WriteMakingParent, Validate, Rename, Publish, Load, Report
    <2>1. CASE Mint(p)
        <3>1. PICK g \in Generations : /\ place[g] = "unused"
                                       /\ place' = [place EXCEPT ![g] = "staging"]
                                       /\ gen' = [gen EXCEPT ![p] = g]
            BY <2>1 DEF Mint
        <3>2. \A h \in Generations : place[h] # "staging"
            BY <2>1 DEF Mint, BuildInv, IInv
        <3>3. gen'[p] = g /\ place'[g] = "staging" /\ Goto(p, "collect") /\ UNCHANGED sweepVars
            BY <1>1, <2>1, <3>1 DEF Mint, TypeOK
        <3>4. Exclusive' /\ SweepInv' /\ BuildInv'
            BY <1>b, <2>0, <3>3 DEF Building
        <3>5. AtMostOneStaging'
            BY <1>1, <3>1, <3>2 DEF AtMostOneStaging, TypeOK
        <3>6. CurrentInv' /\ PointerInv'
            BY <1>0, <2>1, GenerationsKept DEF Mint
        <3>7. RollbackLoads'
            BY <1>0, <1>1, <3>1, GenerationsKept DEF RollbackLoads, Loadable, TypeOK
        <3> QED BY <1>0, <3>4, <3>5, <3>6, <3>7 DEF IInv
    <2>2. CASE Collect(p)
        <3>1. CASE Raise(p)
            BY <1>6, <2>0, <2>2, <3>1 DEF Collect, fsVars
        <3>2. CASE ~Raise(p)
            <4>1. /\ Goto(p, "frames.faiss") /\ gen' = gen
                  /\ UNCHANGED <<sweepVars, place, files, current, reader>>
                BY <2>2, <3>2 DEF Collect, fsVars
            <4>2. place[gen[p]] = "staging"
                BY <2>2 DEF Collect, BuildInv, IInv
            <4>3. Exclusive' /\ SweepInv' /\ BuildInv'
                BY <1>b, <2>0, <4>1, <4>2 DEF Building
            <4> QED BY <1>0, <1>4, <4>1, <4>3, GenerationsKept DEF IInv
        <3> QED BY <3>1, <3>2
    \* A file is written and the call goes on.
    <2>3. ASSUME NEW f \in Files, pc[p] = f, Write(p, f),
                 place' \in {place, [place EXCEPT ![gen[p]] = "staging"]},
                 NEW l \in (Files \cup {"validate"}), Goto(p, l), UNCHANGED <<callVars, sweepVars, current, reader>>
          PROVE  IInv'
        <3>1. place' = place /\ place[gen[p]] = "staging"
            BY <1>1, <2>3 DEF BuildInv, IInv, TypeOK
        <3>2. Exclusive' /\ SweepInv' /\ BuildInv'
            BY <1>b, <2>0, <2>3, <3>1 DEF Building, callVars, Files, Artifacts
        <3>3. CurrentInv' /\ PointerInv'
            BY <1>0, <2>3, GenerationsKept
        <3>4. RollbackLoads' /\ AtMostOneStaging'
            BY <1>0, <3>1, GenerationsKept DEF RollbackLoads, Loadable, AtMostOneStaging, IInv
        <3> QED BY <1>0, <3>2, <3>3, <3>4 DEF IInv
    <2>4. CASE SaveVectors(p) \/ SavePayloads(p)
        BY <2>3, <2>4 DEF SaveVectors, SavePayloads, WriteMakingParent
    <2>5. CASE SaveMapping(p) \/ SaveGeneration(p)
        BY <1>6, <2>0, <2>3, <2>5 DEF SaveMapping, SaveGeneration
    <2>6. CASE Validate(p)
        <3>1. CASE Raise(p)
            BY <1>6, <2>0, <2>6, <3>1 DEF Validate, fsVars
        <3>2. CASE ~Raise(p)
            <4>1. /\ Goto(p, "rename") /\ gen' = gen /\ Intact(gen[p])
                  /\ UNCHANGED <<sweepVars, place, files, current, reader>>
                BY <2>6, <3>2 DEF Validate, fsVars, callVars
            <4>2. place[gen[p]] = "staging"
                BY <2>6 DEF Validate, BuildInv, IInv
            <4>3. Intact(gen[p])'
                BY <4>1 DEF Intact, Holds
            <4>4. Exclusive' /\ SweepInv' /\ BuildInv'
                BY <1>b, <2>0, <4>1, <4>2, <4>3 DEF Building
            <4> QED BY <1>0, <1>4, <4>1, <4>4, GenerationsKept DEF IInv
        <3> QED BY <3>1, <3>2
    <2>7. CASE Rename(p)
        <3>1. place[gen[p]] = "staging" /\ Intact(gen[p]) /\ gen[p] \in Generations
            BY <1>1, <2>7 DEF Rename, BuildInv, IInv, HasGeneration, Building
        <3>2. /\ place' = [place EXCEPT ![gen[p]] = "generations"]
              /\ Goto(p, "publish")
              /\ UNCHANGED <<callVars, sweepVars, files, current, reader>>
            BY <2>7, <3>1 DEF Rename
        <3>3. place'[gen'[p]] = "generations"
            BY <1>1, <3>1, <3>2 DEF TypeOK, callVars
        <3>4. Exclusive' /\ SweepInv' /\ BuildInv'
            BY <1>b, <2>0, <3>2, <3>3 DEF Building
        <3>5. CurrentInv' /\ PointerInv'
            BY <1>0, <3>2, GenerationsKept
        <3>6. RollbackLoads'
            BY <1>1, <3>1, <3>2 DEF RollbackLoads, Loadable, Intact, Holds, IInv, TypeOK
        <3>7. AtMostOneStaging'
            BY <1>1, <3>1, <3>2 DEF AtMostOneStaging, IInv, TypeOK
        <3> QED BY <1>0, <3>4, <3>5, <3>6, <3>7 DEF IInv
    <2>8. CASE Publish(p)
        <3>1. place[gen[p]] = "generations" /\ current' = gen[p] /\ Goto(p, "load")
            BY <2>8 DEF Publish, BuildInv, IInv
        <3>2. UNCHANGED <<place, files, callVars, sweepVars, reader>>
            BY <2>8 DEF Publish
        <3>3. Exclusive' /\ SweepInv' /\ BuildInv'
            BY <1>b, <2>0, <3>1, <3>2 DEF Building, callVars
        <3>4. CurrentInv'
            BY <3>1, <3>2 DEF CurrentInv
        <3> QED BY <1>0, <1>4, <3>2, <3>3, <3>4, GenerationsKept DEF IInv
    <2>9. CASE Load(p)
        BY <1>5, <1>6, <2>0, <2>9 DEF Load, fsVars
    <2>10. CASE Report(p)
        <3>1. /\ pc[p] = "report" /\ Goto(p, "idle")
              /\ UNCHANGED <<callVars, sweepVars, place, files, current, reader>>
            BY <2>10 DEF Report, fsVars
        <3>2. Exclusive'
            BY <1>1, <1>2, <2>0, <3>1 DEF Goto, TypeOK
        <3>3. SweepInv'
            <4>1. SweepOf(p)'
                BY <1>1, <3>1 DEF Goto, TypeOK, SweepOf, SweepInv, IInv, sweepVars
            <4> QED BY <1>1, <1>w, <2>0, <3>1, <4>1 DEF Goto, TypeOK, sweepVars
        <3>4. BuildInv'
            BY <1>1, <1>3, <2>0, <3>1 DEF Goto, TypeOK, BuildInv
        <3> QED BY <1>0, <1>4, <3>1, <3>2, <3>3, <3>4, GenerationsKept DEF IInv
    <2> QED
        BY <1>9, <2>1, <2>2, <2>4, <2>5, <2>6, <2>7, <2>8, <2>9, <2>10 DEF Build
\* A raised exception and a killed process may leave a torn file in staging.
<1>10. ASSUME NEW w \in Writers, Fail(w) \/ Crash(w) PROVE IInv'
    BY <1>5, <1>6, <1>10 DEF Fail, Crash, Building
<1>11. ASSUME NEW r \in Readers, ReadPointer(r) \/ ReadGeneration(r) PROVE IInv'
    <2>1. UNCHANGED <<fsVars, pc, callVars, sweepVars>>
        BY <1>11 DEF ReadPointer, ReadGeneration
    <2>2. Exclusive' /\ SweepInv' /\ BuildInv'
        BY <2>1 DEF fsVars, callVars, sweepVars, IInv, Exclusive, SweepInv, SweepOf, BuildInv,
                    Intact, Holds
    <2>3. PointerInv'
        <3>1. current # None => current \in Generations /\ place[current] = "generations"
            BY <1>1 DEF IInv, CurrentInv, TypeOK, GenOrNone
        <3>2. CASE ReadPointer(r)
            BY <1>1, <2>1, <3>1, <3>2 DEF ReadPointer, PointerInv, IInv, TypeOK, fsVars
        <3>3. CASE ReadGeneration(r)
            BY <1>1, <2>1, <3>3 DEF ReadGeneration, PointerInv, IInv, TypeOK, fsVars
        <3> QED BY <1>11, <3>2, <3>3
    <2>4. CurrentInv'
        BY <2>1 DEF CurrentInv, IInv, fsVars
    <2> QED BY <1>0, <1>4, <2>1, <2>2, <2>3, <2>4 DEF IInv, fsVars
<1>12. CASE UNCHANGED vars
    <2>1. Exclusive' /\ SweepInv' /\ BuildInv' /\ CurrentInv' /\ PointerInv'
        BY <1>12 DEF vars, fsVars, callVars, sweepVars, IInv, Exclusive, SweepInv, SweepOf,
                     BuildInv, CurrentInv, PointerInv, Intact, Holds
    <2> QED BY <1>0, <1>4, <1>12, <2>1 DEF vars, fsVars, IInv
<1> QED
    BY <1>0, <1>7, <1>8, <1>9, <1>10, <1>11, <1>12 DEF Next, LosePower

\* With one writer at a time, whatever raises and whatever is killed: CURRENT
\* names a generation that loads, and every generation in generations/ loads
\* (they all stay available for rollback).
THEOREM InterruptionsAreSafe == OneWriter => (Spec => []GenerationsLoad)
<1> SUFFICES ASSUME OneWriter PROVE Spec => []GenerationsLoad
    OBVIOUS
<1>1. IInv /\ [Next]_vars => IInv'
    BY IInvNext
<1>2. IInv => GenerationsLoad
    BY DEF IInv, TypeInv, TypeOK, GenOrNone, CurrentInv, GenerationsLoad, CurrentLoads, RollbackLoads
<1> QED BY IInvInit, <1>1, <1>2, PTL DEF Spec

\* With one writer at a time staging never holds two directories: what an
\* interrupted build leaves is swept before the next one makes its own.
THEOREM LeftoversAreSwept == OneWriter => (Spec => []AtMostOneStaging)
<1> SUFFICES ASSUME OneWriter PROVE Spec => []AtMostOneStaging
    OBVIOUS
<1>1. IInv /\ [Next]_vars => IInv'
    BY IInvNext
<1>2. IInv => AtMostOneStaging
    BY DEF IInv
<1> QED BY IInvInit, <1>1, <1>2, PTL DEF Spec

\* With one writer at a time no step changes, removes or moves a generation that
\* is in generations/.
THEOREM GenerationsAreImmutable == OneWriter => (Spec => CleanupScoped)
<1> SUFFICES ASSUME OneWriter PROVE Spec => CleanupScoped
    OBVIOUS
<1>1. IInv /\ [Next]_vars => IInv'
    BY IInvNext
<1>2. IInv /\ [Next]_vars => [CleanupScopedStep]_vars
    BY Scoped
<1> QED BY IInvInit, <1>1, <1>2, PTL DEF Spec, CleanupScoped

\* With one writer at a time a call that returns reports the generation it built
\* and leaves it active.
THEOREM CallsReturnTheirOwn == OneWriter => (Spec => ReturnsOwn)
<1> SUFFICES ASSUME OneWriter PROVE Spec => ReturnsOwn
    OBVIOUS
<1>1. IInv /\ [Next]_vars => IInv'
    BY IInvNext
<1>2. IInv /\ [Next]_vars => [ReturnsOwnStep]_vars
    <2> SUFFICES ASSUME IInv, [Next]_vars,
                        NEW p \in Publishers, answer'[p] # answer[p], pc[p] = "load"
                 PROVE  answer'[p] = gen[p] /\ current' = gen[p]
        BY DEF ReturnsOwnStep
    <2>1. p \in Writers /\ current = gen[p]
        BY DEF IInv, BuildInv, Writers
    <2>2. answer' # answer
        OBVIOUS
    <2>3. PICK q \in Publishers : Load(q) \/ Report(q)
        BY <2>2 DEF Next, Sweep, Begin, SweepOpen, SweepUnlink, SweepRmdir, SweepRaise, SweepDone,
                    Fail, Crash, Build, Mint, Collect, SaveVectors, SaveMapping, SavePayloads,
                    SaveGeneration, WriteMakingParent, Validate, Rename, Publish, LosePower,
                    ReadPointer, ReadGeneration, vars
    <2>4. answer \in [Writers -> GenOrNone \cup {Failure}]
        BY DEF IInv, TypeInv, TypeOK
    <2>5. q = p /\ Load(p)
        BY <2>1, <2>3, <2>4 DEF Load, Report
    <2> QED BY <2>1, <2>4, <2>5 DEF Load, fsVars
<1> QED BY IInvInit, <1>1, <1>2, PTL DEF Spec, ReturnsOwn

-----------------------------------------------------------------------------
(* The refinement *)

valueBar == IF current = None THEN None ELSE ContentOf(current)
viewBar ==
    [r \in Readers |->
        [phase |-> reader[r].phase,
         val |-> CASE reader[r].phase = "idle" -> None
                   [] reader[r].phase = "reading" -> ContentOf(reader[r].ptr)
                   [] reader[r].phase = "done" -> reader[r].got]]

LEMMA PublishedStep ==
    ASSUME OneWriter, IInv, IInv', [Next]_vars
    PROVE  [Published!Next]_<<valueBar, viewBar>>
<1> USE DEF valueBar, viewBar
<1>0. TypeOK /\ CleanupScopedStep /\ PowerLoss = FALSE
    BY Scoped DEF IInv, TypeInv, OneWriter
<1>1. ASSUME reader' = reader PROVE viewBar' = viewBar
    <2> SUFFICES ASSUME NEW r \in Readers, reader[r].phase = "reading"
                 PROVE  ContentOf(reader[r].ptr)' = ContentOf(reader[r].ptr)
        BY <1>1 DEF ContentOf
    <2> QED BY <1>0, <1>1 DEF IInv, PointerInv, CleanupScopedStep, ContentOf
<1>2. ASSUME current' = current PROVE valueBar' = valueBar
    BY <1>0, <1>2 DEF IInv, CurrentInv, TypeOK, GenOrNone, CleanupScopedStep, ContentOf
<1>3. ASSUME NEW p \in Publishers, Publish(p)
      PROVE  Published!Next
    <2>1. current' # None /\ reader' = reader /\ current' \in Generations
        BY <1>0, <1>3, ConstantsAssumption
           DEF Publish, IInv, TypeInv, HasGeneration, Building, Writers
    <2>2. ContentOf(current)' \in Canonical
        BY <2>1 DEF IInv, CurrentInv, RollbackLoads, Loadable, Intact, Holds, ContentOf, Files, Artifacts
    <2> QED BY <1>1, <2>1, <2>2 DEF Published!Next, Published!Publish
<1>4. ASSUME NEW r \in Readers, ReadPointer(r)
      PROVE  Published!Next
    <2>1. UNCHANGED <<place, files, current>>
        BY <1>4 DEF ReadPointer, fsVars
    <2>2. viewBar' = [viewBar EXCEPT ![r] = [phase |-> "reading", val |-> valueBar]]
        BY <1>0, <1>4, <2>1 DEF ReadPointer, TypeOK, ReaderState, ContentOf
    <2>3. viewBar[r].phase # "reading" /\ valueBar # None
        <3>1. current # None
            BY <1>4 DEF ReadPointer
        <3>2. ContentOf(current) \in Canonical
            BY <1>0, <3>1 DEF IInv, CurrentInv, RollbackLoads, Loadable, Intact, Holds, ContentOf,
                              Files, Artifacts, TypeOK, GenOrNone
        <3> QED BY <1>4, <3>1, <3>2, ConstantsAssumption DEF ReadPointer
    <2>4. Published!BeginRead(r)
        BY <1>2, <2>1, <2>2, <2>3 DEF Published!BeginRead
    <2> QED BY <2>4 DEF Published!Next
<1>5. ASSUME NEW r \in Readers, ReadGeneration(r)
      PROVE  Published!Next
    <2>1. UNCHANGED <<place, files, current>>
        BY <1>5 DEF ReadGeneration, fsVars
    <2>2. Loadable(reader[r].ptr)
        BY <1>5 DEF ReadGeneration, IInv, PointerInv, RollbackLoads
    <2>3. reader' = [reader EXCEPT ![r] = [phase |-> "done", ptr |-> reader[r].ptr,
                                           got |-> ContentOf(reader[r].ptr)]]
        BY <1>5, <2>2 DEF ReadGeneration
    <2>4. viewBar' = [viewBar EXCEPT ![r] = [phase |-> "done", val |-> ContentOf(reader[r].ptr)]]
        BY <1>0, <2>1, <2>3 DEF TypeOK, ReaderState, ContentOf
    <2>5. viewBar[r] = [phase |-> "reading", val |-> ContentOf(reader[r].ptr)]
        BY <1>5 DEF ReadGeneration
    <2>6. viewBar' = [viewBar EXCEPT ![r].phase = "done"]
        BY <2>4, <2>5
    <2>7. Published!EndRead(r)
        BY <1>2, <2>1, <2>5, <2>6 DEF Published!EndRead
    <2> QED BY <2>7 DEF Published!Next
<1>6. CASE reader' = reader /\ current' = current
    BY <1>1, <1>2, <1>6
<1>7. CASE ~(reader' = reader /\ current' = current)
    BY <1>0, <1>3, <1>4, <1>5, <1>7
       DEF Next, Sweep, Begin, SweepOpen, SweepUnlink, SweepRmdir, SweepRaise, SweepDone,
           Fail, Crash, Build, Mint, Collect, SaveVectors, SaveMapping, SavePayloads,
           SaveGeneration, WriteMakingParent, Validate, Rename, Load, Report, LosePower,
           vars, fsVars
<1> QED BY <1>6, <1>7

\* With one writer at a time the files on disk implement a register: a reader
\* never fails and obtains what was published when it read CURRENT.
THEOREM PublicationImplementsRegister == OneWriter => (Spec => ImplementsPublishedIndex)
<1> SUFFICES ASSUME OneWriter PROVE Spec => ImplementsPublishedIndex
    OBVIOUS
<1>1. IInv /\ [Next]_vars => IInv'
    BY IInvNext
<1>2. Init => Published!Init
    BY DEF Init, Published!Init
<1>3. IInv /\ IInv' /\ [Next]_vars => [Published!Next]_<<valueBar, viewBar>>
    BY PublishedStep
<1> QED BY IInvInit, <1>1, <1>2, <1>3, PTL
        DEF Spec, ImplementsPublishedIndex, Published!Spec, valueBar, viewBar

-----------------------------------------------------------------------------
(* Any number of racing writers, and power loss *)

Staged == Building \ {"mint", "publish", "load"}

\* The directory of a build is its own, and lies where the build has got to: in
\* staging, or swept away, until it is renamed.
Placed(w) ==
    /\ pc[w] \in Staged => place[gen[w]] \in {"staging", "removed"}
    /\ pc[w] \in {"publish", "load"} => place[gen[w]] = "generations"
Owned == \A v, w \in Writers :
            pc[v] \in Building \ {"mint"} /\ pc[w] \in Building \ {"mint"} /\ gen[v] = gen[w] => v = w
RaceInv == TypeInv /\ Owned /\ (\A w \in Writers : Placed(w)) /\ CurrentWasRenamed

LEMMA RaceInvInit == Init => RaceInv
BY TypeInvInit DEF Init, RaceInv, Owned, Placed, CurrentWasRenamed, Building, Staged, Artifacts

\* A step that moves no directory but those a sweep removes, and after which no
\* writer is further in its build than before.
LEMMA RaceStays ==
    ASSUME RaceInv, TypeInv', UNCHANGED current,
           \A g \in Generations : place'[g] = place[g] \/ (place[g] = "staging" /\ place'[g] = "removed"),
           \A w \in Writers : \/ pc'[w] \in {"idle", "sweep", "report", "mint"}
                              \/ pc'[w] \in Staged /\ pc[w] \in Staged /\ gen'[w] = gen[w]
                              \/ pc'[w] = pc[w] /\ gen'[w] = gen[w]
                              \/ pc[w] = "publish" /\ pc'[w] = "load" /\ gen'[w] = gen[w]
    PROVE  RaceInv'
<1>1. \A w \in Writers : pc[w] \in Building \ {"mint"} => gen[w] \in Generations
    BY DEF RaceInv, TypeInv, HasGeneration
<1>2. Owned'
    BY DEF RaceInv, Owned, Building, Staged, Artifacts, Files
<1>3. ASSUME NEW w \in Writers PROVE Placed(w)'
    BY <1>1 DEF RaceInv, Placed, Building, Staged, Artifacts, Files
<1>4. CurrentWasRenamed'
    BY DEF RaceInv, CurrentWasRenamed, TypeInv, TypeOK, GenOrNone
<1> QED BY <1>2, <1>3, <1>4 DEF RaceInv

LEMMA RaceInvNext == RaceInv /\ [Next]_vars => RaceInv'
<1> SUFFICES ASSUME RaceInv, [Next]_vars PROVE RaceInv'
    OBVIOUS
<1>0. TypeInv' /\ TypeOK
    BY TypeInvNext DEF RaceInv, TypeInv
<1> USE DEF fsVars, callVars, sweepVars
<1>1. CASE UNCHANGED vars
    BY <1>0, <1>1, RaceStays DEF vars
<1>2. ASSUME NEW w \in Writers, Raise(w), UNCHANGED <<place, current>>
      PROVE  RaceInv'
    BY <1>0, <1>2, RaceStays DEF Raise, Drop, Goto, TypeOK
<1>3. ASSUME NEW w \in Writers, Begin(w) \/ Sweep(w) \/ Fail(w) \/ Crash(w)
      PROVE  RaceInv'
    <2>1. CASE Begin(w)
        BY <1>0, <2>1, RaceStays DEF Begin, Goto, TypeOK
    <2>2. CASE SweepOpen(w)
        BY <1>0, <2>2, RaceStays DEF SweepOpen
    <2>3. CASE SweepUnlink(w)
        BY <1>0, <2>3, RaceStays DEF SweepUnlink
    <2>4. CASE SweepRmdir(w)
        BY <1>0, <2>4, RaceStays DEF SweepRmdir, TypeOK, GenOrNone
    <2>5. CASE SweepRaise(w)
        BY <1>2, <2>5 DEF SweepRaise
    <2>6. CASE SweepDone(w)
        BY <1>0, <2>6, RaceStays DEF SweepDone, Goto, TypeOK
    <2>7. CASE Fail(w)
        BY <1>2, <2>7 DEF Fail
    <2>8. CASE Crash(w)
        BY <1>0, <2>8, RaceStays DEF Crash, Drop, Goto, TypeOK
    <2> QED BY <1>3, <2>1, <2>2, <2>3, <2>4, <2>5, <2>6, <2>7, <2>8 DEF Sweep
<1>4. ASSUME NEW p \in Publishers, Build(p)
      PROVE  RaceInv'
    <2>0. p \in Writers
        BY DEF Writers
    <2>1. CASE Mint(p)
        <3>1. PICK g \in Generations :
                /\ place[g] = "unused"
                /\ place' = [place EXCEPT ![g] = "staging"]
                /\ gen' = [gen EXCEPT ![p] = g]
            BY <2>1 DEF Mint
        <3>2. pc' = [pc EXCEPT ![p] = "collect"] /\ current' = current
            BY <2>1 DEF Mint, Goto
        <3>3. \A w \in Writers : pc[w] \in Building \ {"mint"} => gen[w] \in Generations /\ gen[w] # g
            BY <3>1 DEF RaceInv, TypeInv, HasGeneration, Placed, Building, Staged, Artifacts
        <3>4. \A w \in Writers : w # p => pc'[w] = pc[w] /\ gen'[w] = gen[w]
            BY <1>0, <3>1, <3>2 DEF TypeOK
        <3>5. pc'[p] = "collect" /\ gen'[p] = g
            BY <1>0, <2>0, <3>1, <3>2 DEF TypeOK
        <3>6. Owned'
            BY <3>3, <3>4, <3>5 DEF RaceInv, Owned
        <3>7. \A h \in Generations : h # g => place'[h] = place[h]
            BY <1>0, <3>1 DEF TypeOK
        <3>8. place'[g] = "staging"
            BY <1>0, <3>1 DEF TypeOK
        <3>9. ASSUME NEW w \in Writers PROVE Placed(w)'
            <4>1. CASE w = p
                BY <3>5, <3>8, <4>1 DEF Placed
            <4>2. CASE w # p
                BY <3>3, <3>4, <3>7, <4>2 DEF RaceInv, Placed, Building, Staged, Artifacts
            <4> QED BY <4>1, <4>2
        <3>10. CurrentWasRenamed'
            BY <1>0, <3>1, <3>2, <3>7 DEF RaceInv, CurrentWasRenamed, TypeOK, GenOrNone
        <3> QED BY <1>0, <3>6, <3>9, <3>10 DEF RaceInv
    <2>2. ASSUME NEW f \in Files, NEW next \in Staged, WriteMakingParent(p, f, next)
          PROVE  RaceInv'
        <3>1. gen[p] \in Generations /\ place[gen[p]] \in {"staging", "removed"} /\ pc[p] \in Staged
            BY <2>0, <2>2, Labels DEF RaceInv, TypeInv, HasGeneration, Placed, WriteMakingParent, Building, Staged, Artifacts, Files
        <3>2. /\ pc' = [pc EXCEPT ![p] = next] /\ gen' = gen /\ current' = current
              /\ place' = [place EXCEPT ![gen[p]] = "staging"]
            BY <2>2 DEF WriteMakingParent, Goto
        <3>3. \A w \in Writers : w # p => pc'[w] = pc[w]
            BY <1>0, <3>2 DEF TypeOK
        <3>4. pc'[p] = next
            BY <1>0, <2>0, <3>2 DEF TypeOK
        <3>5. \A g \in Generations : g # gen[p] => place'[g] = place[g]
            BY <1>0, <3>2 DEF TypeOK
        <3>6. place'[gen[p]] = "staging"
            BY <1>0, <3>1, <3>2 DEF TypeOK
        <3>7. Owned'
            BY <3>1, <3>2, <3>3, <3>4 DEF RaceInv, Owned, Building, Staged, Artifacts
        <3>8. ASSUME NEW w \in Writers PROVE Placed(w)'
            <4>1. CASE w = p
                BY <3>2, <3>4, <3>6, <4>1 DEF Placed, Staged
            <4>2. CASE w # p
                <5>1. pc[w] \in Building \ {"mint"} => gen[w] \in Generations /\ gen[w] # gen[p]
                    BY <2>0, <3>1, <4>2 DEF RaceInv, TypeInv, HasGeneration, Owned, Staged
                <5> QED BY <3>2, <3>3, <3>5, <4>2, <5>1 DEF RaceInv, Placed, Building, Staged, Artifacts
            <4> QED BY <4>1, <4>2
        <3>9. CurrentWasRenamed'
            BY <1>0, <3>1, <3>2, <3>5 DEF RaceInv, CurrentWasRenamed, TypeOK, GenOrNone
        <3> QED BY <1>0, <3>7, <3>8, <3>9 DEF RaceInv
    <2>3. CASE Rename(p)
        <3>1. CASE place[gen[p]] # "staging"
            BY <1>2, <2>0, <2>3, <3>1 DEF Rename
        <3>2. CASE place[gen[p]] = "staging"
            <4>1. gen[p] \in Generations /\ pc[p] = "rename"
                BY <2>0, <2>3 DEF Rename, RaceInv, TypeInv, HasGeneration, Building
            <4>2. /\ pc' = [pc EXCEPT ![p] = "publish"] /\ gen' = gen /\ current' = current
                  /\ place' = [place EXCEPT ![gen[p]] = "generations"]
                BY <2>3, <3>2 DEF Rename, Goto
            <4>3. \A w \in Writers : w # p => pc'[w] = pc[w]
                BY <1>0, <4>2 DEF TypeOK
            <4>4. pc'[p] = "publish"
                BY <1>0, <2>0, <4>2 DEF TypeOK
            <4>5. \A g \in Generations : g # gen[p] => place'[g] = place[g]
                BY <1>0, <4>2 DEF TypeOK
            <4>6. place'[gen[p]] = "generations"
                BY <1>0, <4>1, <4>2 DEF TypeOK
            <4>7. Owned'
                BY <4>1, <4>2, <4>3, <4>4 DEF RaceInv, Owned, Building
            <4>8. ASSUME NEW w \in Writers PROVE Placed(w)'
                <5>1. CASE w = p
                    BY <4>2, <4>4, <4>6, <5>1 DEF Placed, Staged
                <5>2. CASE w # p
                    <6>1. pc[w] \in Building \ {"mint"} => gen[w] \in Generations /\ gen[w] # gen[p]
                        BY <2>0, <4>1, <5>2 DEF RaceInv, TypeInv, HasGeneration, Owned, Building
                    <6> QED BY <4>2, <4>3, <4>5, <5>2, <6>1 DEF RaceInv, Placed, Building, Staged, Artifacts
                <5> QED BY <5>1, <5>2
            <4>9. CurrentWasRenamed'
                BY <1>0, <3>2, <4>1, <4>2, <4>5, <4>6 DEF RaceInv, CurrentWasRenamed, TypeOK, GenOrNone
            <4> QED BY <1>0, <4>7, <4>8, <4>9 DEF RaceInv
        <3> QED BY <3>1, <3>2
    <2>4. CASE Publish(p)
        <3>1. pc[p] = "publish" /\ current' = gen[p] /\ pc' = [pc EXCEPT ![p] = "load"] /\ UNCHANGED <<place, gen>>
            BY <2>4 DEF Publish, Goto
        <3>2. gen[p] \in Generations /\ place[gen[p]] = "generations"
            BY <2>0, <3>1 DEF RaceInv, TypeInv, HasGeneration, Placed, Building
        <3>3. \A w \in Writers : pc'[w] = IF w = p THEN "load" ELSE pc[w]
            BY <1>0, <3>1 DEF TypeOK
        <3>4. Owned'
            BY <2>0, <3>1, <3>3 DEF RaceInv, Owned, Building
        <3>5. \A w \in Writers : Placed(w)'
            BY <2>0, <3>1, <3>2, <3>3 DEF RaceInv, Placed, Staged, Building
        <3>6. CurrentWasRenamed'
            BY <3>1, <3>2 DEF CurrentWasRenamed
        <3> QED BY <1>0, <3>4, <3>5, <3>6 DEF RaceInv
    <2>5. CASE Collect(p)
        <3>1. CASE UNCHANGED gen /\ Goto(p, "frames.faiss")
            BY <1>0, <2>0, <2>5, <3>1, RaceStays DEF Collect, Goto, TypeOK, Staged, Building, Artifacts
        <3> QED BY <1>2, <2>0, <2>5, <3>1 DEF Collect
    <2>6. CASE SaveMapping(p)
        <3>1. CASE Goto(p, "payloads.json") /\ UNCHANGED gen
            BY <1>0, <2>0, <2>6, <3>1, RaceStays DEF SaveMapping, Goto, TypeOK, Staged, Building, Artifacts
        <3> QED BY <1>2, <2>0, <2>6, <3>1 DEF SaveMapping
    <2>7. CASE SaveGeneration(p)
        <3>1. CASE Goto(p, "validate") /\ UNCHANGED gen
            BY <1>0, <2>0, <2>7, <3>1, RaceStays DEF SaveGeneration, Goto, TypeOK, Staged, Building, Artifacts
        <3> QED BY <1>2, <2>0, <2>7, <3>1 DEF SaveGeneration
    <2>8. CASE Validate(p)
        <3>1. CASE Goto(p, "rename") /\ UNCHANGED gen
            BY <1>0, <2>0, <2>8, <3>1, RaceStays DEF Validate, Goto, TypeOK, Staged, Building, Artifacts
        <3> QED BY <1>2, <2>0, <2>8, <3>1 DEF Validate
    <2>9. CASE Load(p)
        <3>1. CASE Goto(p, "idle") /\ Drop(p)
            BY <1>0, <2>0, <2>9, <3>1, RaceStays DEF Load, Drop, Goto, TypeOK
        <3> QED BY <1>2, <2>0, <2>9, <3>1 DEF Load
    <2>10. CASE Report(p)
        BY <1>0, <2>0, <2>10, RaceStays DEF Report, Goto, TypeOK
    <2>11. "frames.faiss" \in Files /\ "payloads.json" \in Files /\ "mapping.json" \in Staged /\ "generation.json" \in Staged
        BY DEF Files, Artifacts, Staged, Building
    <2> QED
        BY <1>4, <2>1, <2>2, <2>3, <2>4, <2>5, <2>6, <2>7, <2>8, <2>9, <2>10, <2>11
           DEF Build, SaveVectors, SavePayloads
<1>5. CASE LosePower
    BY <1>0, <1>5, RaceStays DEF LosePower
<1>6. ASSUME NEW r \in Readers, ReadPointer(r) \/ ReadGeneration(r)
      PROVE  RaceInv'
    BY <1>0, <1>6, RaceStays DEF ReadPointer, ReadGeneration
<1> QED BY <1>1, <1>3, <1>4, <1>5, <1>6 DEF Next

\* However many publishers and cleaners run at once, whatever fails, is killed or
\* loses power: CURRENT never names a directory that is not in generations/.
THEOREM CurrentIsRenamed == Spec => []CurrentWasRenamed
<1>1. RaceInv => CurrentWasRenamed
    BY DEF RaceInv
<1> QED BY RaceInvInit, RaceInvNext, <1>1, PTL DEF Spec

\* What a directory holds nothing of: no build wrote in it, or what was written
\* is damaged.
Empty(g) == \A f \in Files : files[g][f] \in {Missing, Torn}
OnlyOf(g, c) == \A f \in Files : files[g][f] \in {c, Missing, Torn}

\* The directory of a build holds what the build itself collected and nothing
\* else, and that is canonical once it was validated.
Unmixed(w) ==
    /\ pc[w] = "collect" => Empty(gen[w])
    /\ pc[w] \in Building \ {"mint", "collect"} => OnlyOf(gen[w], content[w])
    /\ pc[w] \in {"rename", "publish", "load"} => content[w] \in Canonical
MixInv ==
    /\ \A g \in Generations : place[g] = "unused" => Empty(g)
    /\ \A w \in Writers : Unmixed(w)
    /\ \A g \in Generations : place[g] = "generations" => \E c \in Canonical : OnlyOf(g, c)

\* The files hold what they held, or less.
Decays == \A g \in Generations : \A f \in Files : files'[g][f] \in {files[g][f], Missing, Torn}

LEMMA DecayKeeps ==
    ASSUME Decays, NEW g \in Generations
    PROVE  /\ Empty(g) => Empty(g)'
           /\ \A c : OnlyOf(g, c) => OnlyOf(g, c)'
BY DEF Decays, Empty, OnlyOf

\* A step that only damages files, makes no directory and takes no build further
\* than the write of its next file or of the pointer.
LEMMA MixStays ==
    ASSUME RaceInv, MixInv, Decays,
           \A g \in Generations : place'[g] \in {"unused", "generations"} => place[g] = place'[g],
           \A w \in Writers : \/ pc'[w] \in {"idle", "sweep", "report", "mint"}
                              \/ pc'[w] = pc[w] /\ gen'[w] = gen[w] /\ content'[w] = content[w]
    PROVE  MixInv'
<1>1. \A w \in Writers : pc[w] \in Building \ {"mint"} => gen[w] \in Generations
    BY DEF RaceInv, TypeInv, HasGeneration
<1>2. ASSUME NEW g \in Generations, place'[g] = "unused" PROVE Empty(g)'
    BY <1>2, DecayKeeps DEF MixInv
<1>3. ASSUME NEW w \in Writers PROVE Unmixed(w)'
    <2>1. CASE pc'[w] \in {"idle", "sweep", "report", "mint"}
        BY <2>1 DEF Unmixed, Building, Artifacts
    <2>2. CASE pc'[w] = pc[w] /\ gen'[w] = gen[w] /\ content'[w] = content[w]
        <3>1. Unmixed(w)
            BY DEF MixInv
        <3>2. ASSUME pc'[w] = "collect" PROVE Empty(gen[w])'
            <4>1. gen[w] \in Generations /\ Empty(gen[w])
                BY <1>1, <2>2, <3>1, <3>2 DEF Unmixed, Building
            <4>2. \A f \in Files : files'[gen[w]][f] \in {Missing, Torn}
                BY <4>1 DEF Decays, Empty
            <4> QED BY <2>2, <4>2 DEF Empty
        <3>3. ASSUME pc'[w] \in Building \ {"mint", "collect"} PROVE OnlyOf(gen[w], content[w])'
            <4>1. gen[w] \in Generations /\ OnlyOf(gen[w], content[w])
                BY <1>1, <2>2, <3>1, <3>3 DEF Unmixed, Building
            <4>2. \A f \in Files : files'[gen[w]][f] \in {content[w], Missing, Torn}
                BY <4>1 DEF Decays, OnlyOf
            <4> QED BY <2>2, <4>2 DEF OnlyOf
        <3>4. pc'[w] \in {"rename", "publish", "load"} => content'[w] \in Canonical
            BY <2>2, <3>1 DEF Unmixed
        <3> QED BY <3>2, <3>3, <3>4 DEF Unmixed
    <2> QED BY <2>1, <2>2
<1>4. ASSUME NEW g \in Generations, place'[g] = "generations"
      PROVE  \E c \in Canonical : OnlyOf(g, c)'
    <2>1. PICK c \in Canonical : OnlyOf(g, c)
        BY <1>4 DEF MixInv
    <2>2. OnlyOf(g, c)'
        BY <2>1, DecayKeeps
    <2> QED BY <2>2
<1> QED BY <1>2, <1>3, <1>4 DEF MixInv

\* A build writes the next of its files.
LEMMA MixWrites ==
    ASSUME RaceInv, MixInv, NEW p \in Publishers, NEW f \in Files, NEW next \in Files \cup {"validate"},
           pc[p] \in Files, Write(p, f), Goto(p, next), UNCHANGED <<gen, content>>,
           place' \in {place, [place EXCEPT ![gen[p]] = "staging"]}
    PROVE  MixInv'
<1>0. TypeOK /\ p \in Writers
    BY DEF RaceInv, TypeInv, Writers
<1>1. \A w \in Writers : pc[w] \in Building \ {"mint"} => gen[w] \in Generations
    BY DEF RaceInv, TypeInv, HasGeneration
<1>2. pc[p] \in Staged /\ pc[p] \in Building \ {"mint", "collect"}
    BY Labels DEF Staged, Building, Artifacts, Files
<1>3. gen[p] \in Generations /\ place[gen[p]] \in {"staging", "removed"} /\ OnlyOf(gen[p], content[p])
    BY <1>0, <1>1, <1>2 DEF RaceInv, Placed, MixInv, Unmixed
<1>4. \A g \in Generations : g # gen[p] => place'[g] = place[g] /\ files'[g] = files[g]
    BY <1>0 DEF TypeOK, Write
<1>5. place'[gen[p]] \in {"staging", "removed"}
    BY <1>0, <1>3 DEF TypeOK
<1>6. \A e \in Files : files'[gen[p]][e] = IF e = f THEN content[p] ELSE files[gen[p]][e]
    BY <1>0, <1>3 DEF TypeOK, Write
<1>7. \A w \in Writers : w # p => pc'[w] = pc[w]
    BY <1>0 DEF Goto, TypeOK
<1>8. pc'[p] = next
    BY <1>0 DEF Goto, TypeOK
<1>9. ASSUME NEW g \in Generations, place'[g] = "unused" PROVE Empty(g)'
    BY <1>4, <1>5, <1>9 DEF MixInv, Empty
<1>10. ASSUME NEW w \in Writers PROVE Unmixed(w)'
    <2>1. CASE w = p
        <3>1. OnlyOf(gen[p], content[p])'
            BY <1>3, <1>6 DEF OnlyOf
        <3> QED BY <1>8, <2>1, <3>1, Labels DEF Unmixed
    <2>2. CASE w # p
        <3>1. Unmixed(w) /\ pc'[w] = pc[w] /\ gen'[w] = gen[w] /\ content'[w] = content[w]
            BY <1>7, <2>2 DEF MixInv
        <3>2. pc[w] \in Building \ {"mint"} => files'[gen[w]] = files[gen[w]]
            BY <1>0, <1>1, <1>2, <1>4, <2>2 DEF RaceInv, Owned
        <3>3. "collect" \in Building
            BY DEF Building
        <3> QED BY <3>1, <3>2, <3>3 DEF Unmixed, Empty, OnlyOf
    <2> QED BY <2>1, <2>2
<1>11. ASSUME NEW g \in Generations, place'[g] = "generations"
       PROVE  \E c \in Canonical : OnlyOf(g, c)'
    BY <1>4, <1>5, <1>11 DEF MixInv, OnlyOf
<1> QED BY <1>9, <1>10, <1>11 DEF MixInv

LEMMA MixInvNext == RaceInv /\ MixInv /\ [Next]_vars => MixInv'
<1> SUFFICES ASSUME RaceInv, MixInv, [Next]_vars PROVE MixInv'
    OBVIOUS
<1>0. TypeOK /\ \A w \in Writers : pc[w] \in Building \ {"mint"} => gen[w] \in Generations
    BY DEF RaceInv, TypeInv, HasGeneration
<1> USE DEF fsVars, callVars, sweepVars
<1>1. UNCHANGED files => Decays
    BY DEF Decays
<1>2. CASE UNCHANGED vars
    BY <1>1, <1>2, MixStays DEF vars
<1>3. ASSUME NEW w \in Writers, Raise(w), Decays, UNCHANGED place
      PROVE  MixInv'
    BY <1>0, <1>3, MixStays DEF Raise, Drop, Goto, TypeOK
<1>4. ASSUME NEW w \in Writers, MaybeTorn(w) PROVE Decays
    BY <1>0, <1>1, <1>4, Labels DEF MaybeTorn, Decays, TypeOK
<1>5. ASSUME NEW w \in Writers, Begin(w) \/ Sweep(w) \/ Fail(w) \/ Crash(w)
      PROVE  MixInv'
    <2>1. CASE Begin(w)
        BY <1>0, <1>1, <2>1, MixStays DEF Begin, Goto, TypeOK
    <2>2. CASE SweepOpen(w)
        BY <1>1, <2>2, MixStays DEF SweepOpen
    <2>3. CASE SweepUnlink(w)
        <3>1. Decays
            BY <1>0, <2>3 DEF SweepUnlink, Decays, TypeOK
        <3> QED BY <2>3, <3>1, MixStays DEF SweepUnlink
    <2>4. CASE SweepRmdir(w)
        BY <1>0, <1>1, <2>4, MixStays DEF SweepRmdir, TypeOK
    <2>5. CASE SweepRaise(w)
        BY <1>1, <1>3, <2>5 DEF SweepRaise
    <2>6. CASE SweepDone(w)
        BY <1>0, <1>1, <2>6, MixStays DEF SweepDone, Goto, TypeOK
    <2>7. CASE Fail(w)
        BY <1>3, <1>4, <2>7 DEF Fail
    <2>8. CASE Crash(w)
        <3>1. Decays
            BY <1>4, <2>8 DEF Crash
        <3> QED BY <1>0, <2>8, <3>1, MixStays DEF Crash, Drop, Goto, TypeOK
    <2> QED BY <1>5, <2>1, <2>2, <2>3, <2>4, <2>5, <2>6, <2>7, <2>8 DEF Sweep
<1>6. ASSUME NEW p \in Publishers, Build(p)
      PROVE  MixInv'
    <2>0. p \in Writers
        BY DEF Writers
    <2>1. CASE Mint(p)
        <3>1. PICK g \in Generations :
                /\ place[g] = "unused"
                /\ place' = [place EXCEPT ![g] = "staging"]
                /\ gen' = [gen EXCEPT ![p] = g]
            BY <2>1 DEF Mint
        <3>2. pc' = [pc EXCEPT ![p] = "collect"] /\ UNCHANGED <<files, content>>
            BY <2>1 DEF Mint, Goto
        <3>3. \A h \in Generations : place'[h] = IF h = g THEN "staging" ELSE place[h]
            BY <1>0, <3>1 DEF TypeOK
        <3>4. ASSUME NEW w \in Writers PROVE Unmixed(w)'
            <4>1. CASE w = p
                <5>1. pc'[w] = "collect" /\ gen'[w] = g
                    BY <1>0, <3>1, <3>2, <4>1 DEF TypeOK
                <5>2. Empty(g)'
                    BY <3>1, <3>2 DEF MixInv, Empty
                <5> QED BY <5>1, <5>2 DEF Unmixed, Empty
            <4>2. CASE w # p
                <5>1. pc'[w] = pc[w] /\ gen'[w] = gen[w] /\ content'[w] = content[w] /\ Unmixed(w)
                    BY <1>0, <3>1, <3>2, <4>2 DEF TypeOK, MixInv
                <5> QED BY <3>2, <5>1 DEF Unmixed, Empty, OnlyOf
            <4> QED BY <4>1, <4>2
        <3> QED BY <3>2, <3>3, <3>4 DEF MixInv, Empty, OnlyOf
    <2>2. CASE Collect(p)
        <3>1. ASSUME NEW c \in Collectable, content' = [content EXCEPT ![p] = c], Goto(p, "frames.faiss"),
                     UNCHANGED <<gen, files, place>>
              PROVE  MixInv'
            <4>1. ASSUME NEW w \in Writers PROVE Unmixed(w)'
                <5>1. CASE w = p
                    <6>1. pc'[w] = "frames.faiss" /\ content'[w] = c /\ gen'[w] = gen[w]
                        BY <1>0, <2>0, <3>1, <5>1 DEF Goto, TypeOK
                    <6>2. Empty(gen[w])
                        BY <2>0, <2>2, <5>1 DEF Collect, MixInv, Unmixed
                    <6> QED BY <3>1, <6>1, <6>2 DEF Unmixed, Empty, OnlyOf
                <5>2. CASE w # p
                    <6>1. pc'[w] = pc[w] /\ gen'[w] = gen[w] /\ content'[w] = content[w] /\ Unmixed(w)
                        BY <1>0, <3>1, <5>2 DEF Goto, TypeOK, MixInv
                    <6> QED BY <3>1, <6>1 DEF Unmixed, Empty, OnlyOf
                <5> QED BY <5>1, <5>2
            <4> QED BY <3>1, <4>1 DEF MixInv, Empty, OnlyOf
        <3> QED BY <1>1, <1>3, <2>0, <2>2, <3>1 DEF Collect
    <2>3. CASE SaveVectors(p)
        BY <2>3, MixWrites DEF SaveVectors, WriteMakingParent, Files, Artifacts
    <2>4. CASE SaveMapping(p)
        <3>1. CASE Raise(p) /\ UNCHANGED <<files, unsynced>>
            BY <1>1, <1>3, <2>0, <2>4, <3>1 DEF SaveMapping
        <3>2. CASE Write(p, "mapping.json") /\ Goto(p, "payloads.json") /\ UNCHANGED <<callVars, sweepVars>>
            BY <2>4, <3>2, MixWrites DEF SaveMapping, Files, Artifacts
        <3> QED BY <2>4, <3>1, <3>2 DEF SaveMapping
    <2>5. CASE SavePayloads(p)
        BY <2>5, MixWrites DEF SavePayloads, WriteMakingParent, Files, Artifacts
    <2>6. CASE SaveGeneration(p)
        <3>1. CASE Raise(p) /\ UNCHANGED <<files, unsynced>>
            BY <1>1, <1>3, <2>0, <2>6, <3>1 DEF SaveGeneration
        <3>2. CASE Write(p, "generation.json") /\ Goto(p, "validate") /\ UNCHANGED <<callVars, sweepVars>>
            BY <2>6, <3>2, MixWrites DEF SaveGeneration, Files, Artifacts
        <3> QED BY <2>6, <3>1, <3>2 DEF SaveGeneration
    <2>7. CASE Validate(p)
        <3>1. CASE Raise(p)
            BY <1>1, <1>3, <2>0, <2>7, <3>1 DEF Validate
        <3>2. CASE Intact(gen[p]) /\ Goto(p, "rename") /\ UNCHANGED <<callVars, sweepVars>>
            <4>1. PICK c \in Canonical : \A f \in Files : files[gen[p]][f] = c
                BY <3>2 DEF Intact, Holds
            <4>2. OnlyOf(gen[p], content[p])
                BY <2>0, <2>7 DEF Validate, MixInv, Unmixed, Building
            <4>3. content[p] = c
                BY <4>1, <4>2, ConstantsAssumption DEF OnlyOf, Files
            <4>4. pc'[p] = "rename" /\ \A w \in Writers : w # p => pc'[w] = pc[w]
                BY <1>0, <2>0, <3>2 DEF Goto, TypeOK
            <4>5. UNCHANGED <<files, place, gen, content>>
                BY <2>7, <3>2 DEF Validate
            <4>6. ASSUME NEW w \in Writers PROVE Unmixed(w)'
                <5>1. CASE w = p
                    BY <4>1, <4>2, <4>3, <4>4, <4>5, <5>1 DEF Unmixed, OnlyOf
                <5>2. CASE w # p
                    BY <4>4, <4>5, <5>2 DEF MixInv, Unmixed, OnlyOf, Empty
                <5> QED BY <5>1, <5>2
            <4> QED BY <4>5, <4>6 DEF MixInv, OnlyOf, Empty
        <3> QED BY <2>7, <3>1, <3>2 DEF Validate
    <2>8. CASE Rename(p)
        <3>1. CASE Raise(p) /\ UNCHANGED place
            BY <1>1, <1>3, <2>0, <2>8, <3>1 DEF Rename
        <3>2. CASE /\ place' = [place EXCEPT ![gen[p]] = "generations"] /\ Goto(p, "publish")
                   /\ UNCHANGED <<callVars, sweepVars>>
            <4>1. OnlyOf(gen[p], content[p]) /\ content[p] \in Canonical /\ gen[p] \in Generations
                BY <1>0, <2>0, <2>8 DEF Rename, MixInv, Unmixed, Building
            <4>2. pc'[p] = "publish" /\ \A w \in Writers : w # p => pc'[w] = pc[w]
                BY <1>0, <2>0, <3>2 DEF Goto, TypeOK
            <4>3. UNCHANGED <<files, gen, content>>
                BY <2>8, <3>2 DEF Rename
            <4>4. \A g \in Generations : place'[g] = IF g = gen[p] THEN "generations" ELSE place[g]
                BY <1>0, <3>2 DEF TypeOK
            <4>5. ASSUME NEW w \in Writers PROVE Unmixed(w)'
                <5>1. CASE w = p
                    BY <4>1, <4>2, <4>3, <5>1 DEF Unmixed, OnlyOf
                <5>2. CASE w # p
                    BY <4>2, <4>3, <5>2 DEF MixInv, Unmixed, OnlyOf, Empty
                <5> QED BY <5>1, <5>2
            <4> QED BY <4>1, <4>3, <4>4, <4>5 DEF MixInv, OnlyOf, Empty
        <3> QED BY <2>8, <3>1, <3>2 DEF Rename
    <2>9. CASE Publish(p)
        <3>1. pc'[p] = "load" /\ pc[p] = "publish" /\ \A w \in Writers : w # p => pc'[w] = pc[w]
            BY <1>0, <2>0, <2>9 DEF Publish, Goto, TypeOK
        <3>2. UNCHANGED <<files, place, gen, content>>
            BY <2>9 DEF Publish
        <3>3. ASSUME NEW w \in Writers PROVE Unmixed(w)'
            <4>1. CASE w = p
                BY <3>1, <3>2, <4>1 DEF MixInv, Unmixed, OnlyOf, Building
            <4>2. CASE w # p
                BY <3>1, <3>2, <4>2 DEF MixInv, Unmixed, OnlyOf, Empty
            <4> QED BY <4>1, <4>2
        <3> QED BY <3>2, <3>3 DEF MixInv, OnlyOf, Empty
    <2>10. CASE Load(p)
        <3>1. CASE Goto(p, "idle") /\ Drop(p)
            BY <1>0, <1>1, <2>0, <2>10, <3>1, MixStays DEF Load, Drop, Goto, TypeOK
        <3> QED BY <1>1, <1>3, <2>0, <2>10, <3>1 DEF Load
    <2>11. CASE Report(p)
        BY <1>0, <1>1, <2>0, <2>11, MixStays DEF Report, Goto, TypeOK
    <2> QED
        BY <1>6, <2>1, <2>2, <2>3, <2>4, <2>5, <2>6, <2>7, <2>8, <2>9, <2>10, <2>11 DEF Build
<1>7. CASE LosePower
    <2>1. Decays
        BY <1>0, <1>7 DEF LosePower, Decays, TypeOK
    <2> QED BY <1>7, <2>1, MixStays DEF LosePower
<1>8. ASSUME NEW r \in Readers, ReadPointer(r) \/ ReadGeneration(r)
      PROVE  MixInv'
    BY <1>1, <1>8, MixStays DEF ReadPointer, ReadGeneration
<1> QED BY <1>2, <1>5, <1>6, <1>7, <1>8 DEF Next

\* However many writers race over staging, are killed or lose power: the files of a
\* generation in generations/ are those of one canonical build or damaged or
\* missing, never of two builds.
THEOREM GenerationsNeverMix == Spec => []DamageOnlyTakesAway
<1>1. Init => MixInv
    BY DEF Init, MixInv, Unmixed, Empty, Building, Artifacts
<1>2. MixInv => DamageOnlyTakesAway
    BY DEF MixInv, OnlyOf, DamageOnlyTakesAway
<1>3. RaceInv /\ MixInv /\ [Next]_vars => RaceInv' /\ MixInv'
    BY RaceInvNext, MixInvNext
<1> QED BY RaceInvInit, <1>1, <1>2, <1>3, PTL DEF Spec
=============================================================================
