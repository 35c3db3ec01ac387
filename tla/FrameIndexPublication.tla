------------------------ MODULE FrameIndexPublication ------------------------
(***************************************************************************)
(* The global frame index on disk: `build_frame_index` builds a generation *)
(* under .staging/, validates it, renames it into generations/ and only    *)
(* then replaces the pointer file CURRENT; `load_current_frame_index`      *)
(* follows the pointer.  The writers are the processes that call           *)
(* `build_frame_index` (ingestion, `projectctl index`) and the ones that   *)
(* run `projectctl clean --staging`; both sweep .staging with              *)
(* `shutil.rmtree`.  Any call may raise at any step, any process may be    *)
(* killed at any step, and the machine may lose power.                     *)
(***************************************************************************)
EXTENDS FiniteSets, Naturals

CONSTANTS
    Publishers,     \* processes that call build_frame_index
    Cleaners,       \* processes that run projectctl clean --staging
    Readers,        \* processes that call load_current_frame_index
    Generations,    \* the generation ids uuid4 may draw
    Contents,       \* what a call finds in the store: records and embeddings
    Collectable,    \* contents that pass the shape and duplicate-UID checks
    Canonical,      \* collectable contents whose UIDs are canonical
    SingleWriter,   \* TRUE: the operator runs one writer at a time
    PowerLoss,      \* TRUE: the machine may lose power
    None, Missing, Torn, Failure

Writers == Publishers \cup Cleaners

ASSUME ConstantsAssumption ==
    /\ Canonical \subseteq Collectable
    /\ Collectable \subseteq Contents
    /\ Publishers \cap Cleaners = {}
    /\ SingleWriter \in BOOLEAN
    /\ PowerLoss \in BOOLEAN
    /\ None \notin Generations \cup Contents \cup {Missing, Torn, Failure}
    /\ Failure \notin Generations \cup Contents
    /\ {Missing, Torn} \cap Contents = {}
    /\ Missing # Torn

VARIABLES
    place,      \* where the directory of a generation is
    files,      \* the files in it: the content each was written from
    unsynced,   \* files whose bytes were never fsynced
    current,    \* the generation CURRENT names
    pc,         \* where a writer is
    gen,        \* the generation id its call drew
    content,    \* what its call collected from the store
    queue,      \* the sweep: staging directories still to remove,
    dir,        \* the one open,
    left,       \* and the names scandir returned that are not unlinked yet
    answer,     \* the generation the last call of a publisher reported
    reader      \* what a reader is doing

fsVars == <<place, files, unsynced, current>>
sweepVars == <<queue, dir, left>>
callVars == <<gen, content>>
vars == <<fsVars, pc, callVars, sweepVars, answer, reader>>

-----------------------------------------------------------------------------
(* Files and types *)

Artifacts == {"frames.faiss", "mapping.json", "payloads.json"}
Files == Artifacts \cup {"generation.json"}

\* faiss.write_index and open("w") never fsync; write_json_atomic does.
Unsyncable == {"frames.faiss", "mapping.json"}

Building == {"mint", "collect", "frames.faiss", "mapping.json", "payloads.json",
             "generation.json", "validate", "rename", "publish", "load"}
PC == {"idle", "sweep", "report"} \cup Building

GenOrNone == Generations \cup {None}
FileValue == Contents \cup {Missing, Torn}

ReaderState ==
    [phase : {"idle", "reading", "done"}, ptr : GenOrNone, got : Contents \cup {None, Failure}]

\* Every variable stays in its type.
TypeOK ==
    /\ place \in [Generations -> {"unused", "staging", "generations", "removed"}]
    /\ files \in [Generations -> [Files -> FileValue]]
    /\ unsynced \subseteq Generations \X Unsyncable
    /\ current \in GenOrNone
    /\ pc \in [Writers -> PC]
    /\ gen \in [Writers -> GenOrNone]
    /\ content \in [Writers -> Contents \cup {None}]
    /\ queue \in [Writers -> SUBSET Generations]
    /\ dir \in [Writers -> GenOrNone]
    /\ left \in [Writers -> SUBSET Files]
    /\ answer \in [Writers -> GenOrNone \cup {Failure}]
    /\ reader \in [Readers -> ReaderState]

Init ==
    /\ place = [g \in Generations |-> "unused"]
    /\ files = [g \in Generations |-> [f \in Files |-> Missing]]
    /\ unsynced = {}
    /\ current = None
    /\ pc = [w \in Writers |-> "idle"]
    /\ gen = [w \in Writers |-> None]
    /\ content = [w \in Writers |-> None]
    /\ queue = [w \in Writers |-> {}]
    /\ dir = [w \in Writers |-> None]
    /\ left = [w \in Writers |-> {}]
    /\ answer = [w \in Writers |-> None]
    /\ reader = [r \in Readers |-> [phase |-> "idle", ptr |-> None, got |-> None]]

-----------------------------------------------------------------------------
(* Helpers *)

Goto(w, label) == pc' = [pc EXCEPT ![w] = label]

\* The files of g hold content c, all of them, and c is canonical: the checks
\* of validate_generation and of FaissSigLIPIndex.load, which it calls (presence,
\* checksums, sizes and positions, identities).
Holds(g, c) == c \in Canonical /\ \A f \in Files : files[g][f] = c
Intact(g) == \E c \in Canonical : Holds(g, c)

\* What a search on generation g runs over.
ContentOf(g) == files[g]["frames.faiss"]

\* The names scandir returns for the directory of g.
Present(g) == {f \in Files : files[g][f] # Missing}

\* The call of w is over, by a return or because its process died: its local
\* variables are gone.
Drop(w) ==
    /\ gen' = [gen EXCEPT ![w] = None]
    /\ content' = [content EXCEPT ![w] = None]
    /\ queue' = [queue EXCEPT ![w] = {}]
    /\ dir' = [dir EXCEPT ![w] = None]
    /\ left' = [left EXCEPT ![w] = {}]

\* An exception leaves the call of w: a publisher goes on to report the active
\* generation (ingest_path's except), a cleaner ends.
Raise(w) ==
    /\ Goto(w, IF w \in Publishers THEN "report" ELSE "idle")
    /\ Drop(w)

\* The write that is interrupted at label l leaves a torn file behind if the
\* file is not written through a temporary.
MaybeTorn(w) ==
    \/ UNCHANGED <<files, unsynced>>
    \/ /\ pc[w] \in Unsyncable
       /\ place[gen[w]] = "staging"
       /\ files' = [files EXCEPT ![gen[w]][pc[w]] = Torn]
       /\ unsynced' = unsynced \cup {<<gen[w], pc[w]>>}

-----------------------------------------------------------------------------
(* The sweep of .staging: cleanup_stale_staging and command_clean *)

\* Mutant of Begin: nothing is left over, the sweep is forgotten.
BeginUnswept(w) ==
    /\ pc[w] = "idle"
    /\ SingleWriter => \A v \in Writers : pc[v] = "idle"
    /\ Goto(w, "sweep")
    /\ UNCHANGED <<fsVars, callVars, sweepVars, answer, reader>>

\* The call begins and lists the staging directories.
Begin(w) ==
    /\ pc[w] = "idle"
    /\ SingleWriter => \A v \in Writers : pc[v] = "idle"
    /\ Goto(w, "sweep")
    /\ queue' = [queue EXCEPT ![w] = {g \in Generations : place[g] = "staging"}]
    /\ UNCHANGED <<fsVars, callVars, dir, left, answer, reader>>

\* is_dir(), then rmtree opens the directory and lists it; a directory that is
\* gone since the listing is skipped.
SweepOpen(w) ==
    /\ pc[w] = "sweep"
    /\ dir[w] = None
    /\ \E g \in queue[w] :
        /\ queue' = [queue EXCEPT ![w] = @ \ {g}]
        /\ IF place[g] = "staging"
           THEN /\ dir' = [dir EXCEPT ![w] = g]
                /\ left' = [left EXCEPT ![w] = Present(g)]
           ELSE UNCHANGED <<dir, left>>
    /\ UNCHANGED <<fsVars, pc, callVars, answer, reader>>

\* unlink(name, dir_fd): the descriptor follows the directory when it is renamed.
SweepUnlink(w) ==
    /\ pc[w] = "sweep"
    /\ dir[w] # None
    /\ \E f \in left[w] :
        /\ files[dir[w]][f] # Missing
        /\ files' = [files EXCEPT ![dir[w]][f] = Missing]
        /\ unsynced' = unsynced \ {<<dir[w], f>>}
        /\ left' = [left EXCEPT ![w] = @ \ {f}]
    /\ UNCHANGED <<place, current, pc, callVars, queue, dir, answer, reader>>

\* rmdir(path): removes the directory if it is still there and empty.
SweepRmdir(w) ==
    /\ pc[w] = "sweep"
    /\ dir[w] # None
    /\ left[w] = {}
    /\ place[dir[w]] = "staging"
    /\ Present(dir[w]) = {}
    /\ place' = [place EXCEPT ![dir[w]] = "removed"]
    /\ dir' = [dir EXCEPT ![w] = None]
    /\ UNCHANGED <<files, unsynced, current, pc, callVars, queue, left, answer, reader>>

\* The file or the directory is gone, or a file appeared: rmtree raises.
SweepRaise(w) ==
    /\ pc[w] = "sweep"
    /\ dir[w] # None
    /\ \/ \E f \in left[w] : files[dir[w]][f] = Missing
       \/ /\ left[w] = {}
          /\ \/ place[dir[w]] # "staging"
             \/ Present(dir[w]) # {}
    /\ Raise(w)
    /\ UNCHANGED <<fsVars, answer, reader>>

SweepDone(w) ==
    /\ pc[w] = "sweep"
    /\ dir[w] = None
    /\ queue[w] = {}
    /\ Goto(w, IF w \in Publishers THEN "mint" ELSE "idle")
    /\ UNCHANGED <<fsVars, callVars, sweepVars, answer, reader>>

-----------------------------------------------------------------------------
(* build_frame_index *)

\* Mutant of Mint: an id another build may be using, as a time stamp would be.
MintShared(p) ==
    /\ pc[p] = "mint"
    /\ \E g \in Generations :
        /\ place[g] \in {"unused", "staging"}
        /\ place' = [place EXCEPT ![g] = "staging"]
        /\ gen' = [gen EXCEPT ![p] = g]
    /\ Goto(p, "collect")
    /\ UNCHANGED <<files, unsynced, current, content, sweepVars, answer, reader>>

\* Mutant of Mint: the id is not fresh (a name derived from the content).
MintReused(p) ==
    /\ pc[p] = "mint"
    /\ \E g \in Generations :
        /\ place[g] # "staging"
        /\ place' = [place EXCEPT ![g] = "staging"]
        /\ gen' = [gen EXCEPT ![p] = g]
    /\ Goto(p, "collect")
    /\ UNCHANGED <<files, unsynced, current, content, sweepVars, answer, reader>>

\* A new id, and its directory.
Mint(p) ==
    /\ pc[p] = "mint"
    /\ \E g \in Generations :
        /\ place[g] = "unused"
        /\ place' = [place EXCEPT ![g] = "staging"]
        /\ gen' = [gen EXCEPT ![p] = g]
    /\ Goto(p, "collect")
    /\ UNCHANGED <<files, unsynced, current, content, sweepVars, answer, reader>>

\* Records and embeddings of the manifests; shapes and duplicate UIDs checked.
Collect(p) ==
    /\ pc[p] = "collect"
    /\ \E c \in Contents :
        IF c \in Collectable
        THEN /\ content' = [content EXCEPT ![p] = c]
             /\ Goto(p, "frames.faiss")
             /\ UNCHANGED <<gen, sweepVars>>
        ELSE Raise(p)
    /\ UNCHANGED <<fsVars, answer, reader>>

Write(p, f) ==
    /\ files' = [files EXCEPT ![gen[p]][f] = content[p]]
    /\ unsynced' = IF f \in Unsyncable THEN unsynced \cup {<<gen[p], f>>}
                   ELSE unsynced

\* save and write_json_atomic make the parent directory again if it is gone.
WriteMakingParent(p, f, next) ==
    /\ pc[p] = f
    /\ Write(p, f)
    /\ place' = [place EXCEPT ![gen[p]] = "staging"]
    /\ Goto(p, next)
    /\ UNCHANGED <<current, callVars, sweepVars, answer, reader>>

SaveVectors(p) == WriteMakingParent(p, "frames.faiss", "mapping.json")

SaveMapping(p) ==
    /\ pc[p] = "mapping.json"
    /\ IF place[gen[p]] = "staging"
       THEN /\ Write(p, "mapping.json")
            /\ Goto(p, "payloads.json")
            /\ UNCHANGED <<callVars, sweepVars>>
       ELSE Raise(p) /\ UNCHANGED <<files, unsynced>>
    /\ UNCHANGED <<place, current, answer, reader>>

SavePayloads(p) == WriteMakingParent(p, "payloads.json", "generation.json")

\* The checksums of the three artifacts, which must be there.
SaveGeneration(p) ==
    /\ pc[p] = "generation.json"
    /\ IF \A f \in Artifacts : files[gen[p]][f] # Missing
       THEN /\ Write(p, "generation.json")
            /\ Goto(p, "validate")
            /\ UNCHANGED <<callVars, sweepVars>>
       ELSE Raise(p) /\ UNCHANGED <<files, unsynced>>
    /\ UNCHANGED <<place, current, answer, reader>>

\* Mutant of Validate: the staged generation is not validated.
ValidateNothing(p) ==
    /\ pc[p] = "validate"
    /\ Goto(p, "rename")
    /\ UNCHANGED <<fsVars, callVars, sweepVars, answer, reader>>

Validate(p) ==
    /\ pc[p] = "validate"
    /\ IF Intact(gen[p])
       THEN Goto(p, "rename") /\ UNCHANGED <<callVars, sweepVars>>
       ELSE Raise(p)
    /\ UNCHANGED <<fsVars, answer, reader>>

\* Mutant of Rename: a failed replace is ignored.
RenameIgnoringFailure(p) ==
    /\ pc[p] = "rename"
    /\ place' = IF place[gen[p]] = "staging"
                THEN [place EXCEPT ![gen[p]] = "generations"] ELSE place
    /\ Goto(p, "publish")
    /\ UNCHANGED <<files, unsynced, current, callVars, sweepVars, answer, reader>>

\* os.replace(staging, final)
Rename(p) ==
    /\ pc[p] = "rename"
    /\ IF place[gen[p]] = "staging"
       THEN /\ place' = [place EXCEPT ![gen[p]] = "generations"]
            /\ Goto(p, "publish")
            /\ UNCHANGED <<callVars, sweepVars>>
       ELSE Raise(p) /\ UNCHANGED place
    /\ UNCHANGED <<files, unsynced, current, answer, reader>>

\* Mutant of Publish: the pointer is written only if there is none.
PublishOnce(p) ==
    /\ pc[p] = "publish"
    /\ current' = IF current = None THEN gen[p] ELSE current
    /\ Goto(p, "load")
    /\ UNCHANGED <<place, files, unsynced, callVars, sweepVars, answer, reader>>

Publish(p) ==
    /\ pc[p] = "publish"
    /\ current' = gen[p]
    /\ Goto(p, "load")
    /\ UNCHANGED <<place, files, unsynced, callVars, sweepVars, answer, reader>>

\* What load_current_frame_index makes of the pointer g.
Loadable(g) == place[g] = "generations" /\ Intact(g)

\* build_frame_index returns what CURRENT names, loaded again.
Load(p) ==
    /\ pc[p] = "load"
    /\ IF Loadable(current)
       THEN /\ answer' = [answer EXCEPT ![p] = current]
            /\ Goto(p, "idle")
            /\ Drop(p)
       ELSE Raise(p) /\ UNCHANGED answer
    /\ UNCHANGED <<fsVars, reader>>

\* Mutant of Report: the report carries the content, not the generation.
ReportContent(p) ==
    /\ pc[p] = "report"
    /\ answer' = [answer EXCEPT ![p] =
                    IF current = None THEN None
                    ELSE IF Loadable(current) THEN ContentOf(current) ELSE Failure]
    /\ Goto(p, "idle")
    /\ UNCHANGED <<fsVars, callVars, sweepVars, reader>>

\* After an exception the caller reports the generation CURRENT still names.
Report(p) ==
    /\ pc[p] = "report"
    /\ answer' = [answer EXCEPT ![p] =
                    IF current = None THEN None
                    ELSE IF Loadable(current) THEN current ELSE Failure]
    /\ Goto(p, "idle")
    /\ UNCHANGED <<fsVars, callVars, sweepVars, reader>>

-----------------------------------------------------------------------------
(* Faults *)

\* A step of the call raises (a full disk, an encoder error, a failpoint).
Fail(w) ==
    /\ pc[w] \in Building \cup {"sweep"}
    /\ Raise(w)
    /\ MaybeTorn(w)
    /\ UNCHANGED <<place, current, answer, reader>>

\* The process is killed; it may be started again.
Crash(w) ==
    /\ pc[w] # "idle"
    /\ Goto(w, "idle")
    /\ Drop(w)
    /\ MaybeTorn(w)
    /\ UNCHANGED <<place, current, answer, reader>>

\* The machine loses power: every process dies, and files that were never
\* fsynced may have lost their bytes.
LosePower ==
    /\ PowerLoss
    /\ \E torn \in SUBSET unsynced :
        files' = [g \in Generations |-> [f \in Files |->
                    IF <<g, f>> \in torn THEN Torn ELSE files[g][f]]]
    /\ unsynced' = {}
    /\ pc' = [w \in Writers |-> "idle"]
    /\ gen' = [w \in Writers |-> None]
    /\ content' = [w \in Writers |-> None]
    /\ queue' = [w \in Writers |-> {}]
    /\ dir' = [w \in Writers |-> None]
    /\ left' = [w \in Writers |-> {}]
    /\ reader' = [r \in Readers |-> [phase |-> "idle", ptr |-> None, got |-> None]]
    /\ UNCHANGED <<place, current, answer>>

-----------------------------------------------------------------------------
(* load_current_frame_index in a process of its own *)

\* The pointer is read,
ReadPointer(r) ==
    /\ reader[r].phase # "reading"
    /\ current # None
    /\ reader' = [reader EXCEPT ![r] = [phase |-> "reading", ptr |-> current, got |-> None]]
    /\ UNCHANGED <<fsVars, pc, callVars, sweepVars, answer>>

\* Mutant of ReadGeneration: the pointer is followed a second time.
ReadLatest(r) ==
    /\ reader[r].phase = "reading"
    /\ reader' = [reader EXCEPT ![r] =
                    [phase |-> "done", ptr |-> @.ptr,
                     got |-> IF Loadable(current) THEN ContentOf(current) ELSE Failure]]
    /\ UNCHANGED <<fsVars, pc, callVars, sweepVars, answer>>

\* and later the generation it named is validated and loaded.
ReadGeneration(r) ==
    /\ reader[r].phase = "reading"
    /\ reader' = [reader EXCEPT ![r] =
                    [phase |-> "done", ptr |-> @.ptr,
                     got |-> IF Loadable(@.ptr) THEN ContentOf(@.ptr) ELSE Failure]]
    /\ UNCHANGED <<fsVars, pc, callVars, sweepVars, answer>>

-----------------------------------------------------------------------------

Sweep(w) ==
    \/ SweepOpen(w)
    \/ SweepUnlink(w)
    \/ SweepRmdir(w)
    \/ SweepRaise(w)
    \/ SweepDone(w)

Build(p) ==
    \/ Mint(p)
    \/ Collect(p)
    \/ SaveVectors(p)
    \/ SaveMapping(p)
    \/ SavePayloads(p)
    \/ SaveGeneration(p)
    \/ Validate(p)
    \/ Rename(p)
    \/ Publish(p)
    \/ Load(p)
    \/ Report(p)

Next ==
    \/ \E w \in Writers : Begin(w) \/ Sweep(w) \/ Fail(w) \/ Crash(w)
    \/ \E p \in Publishers : Build(p)
    \/ \E r \in Readers : ReadPointer(r) \/ ReadGeneration(r)
    \/ LosePower

Spec == Init /\ [][Next]_vars

-----------------------------------------------------------------------------
(* Properties under one writer and no power loss *)

OneWriter == SingleWriter /\ ~PowerLoss

\* CURRENT is either not there or names a generation that loads, whatever was
\* interrupted: load_current_frame_index never finds a broken index.
CurrentLoads == current # None => Loadable(current)

\* Generations stay available for rollback: each one that was ever renamed into
\* generations/ still loads, after failed and successful publications alike.
RollbackLoads == \A g \in Generations : place[g] = "generations" => Loadable(g)

\* Both: the index in force and every one a user may go back to.
GenerationsLoad == CurrentLoads /\ RollbackLoads

\* Interrupted builds do not pile up: a build sweeps what an earlier one left
\* before it makes a directory, so .staging never holds two generations.
AtMostOneStaging ==
    \A g, h \in Generations : place[g] = "staging" /\ place[h] = "staging" => g = h

\* No step changes, removes or moves a generation once it is in generations/:
\* the sweep, a later build and `clean --staging` touch only .staging.
CleanupScopedStep ==
    \A g \in Generations :
        place[g] = "generations" => place'[g] = "generations" /\ files'[g] = files[g]
CleanupScoped == [][CleanupScopedStep]_vars

\* A call that returns returns the generation it built itself, which is the
\* active one: the ids an ingestion prints are the ids it published.
ReturnsOwnStep ==
    \A p \in Publishers :
        answer'[p] # answer[p] /\ pc[p] = "load" => answer'[p] = gen[p] /\ current' = gen[p]
ReturnsOwn == [][ReturnsOwnStep]_vars

\* Readers see a register: each obtains the content that was published when it
\* read the pointer, and none fails, through every interruption of the writers.
Published == INSTANCE PublishedIndex WITH
    value <- IF current = None THEN None ELSE ContentOf(current),
    view <- [r \in Readers |->
                [phase |-> reader[r].phase,
                 val |-> CASE reader[r].phase = "idle" -> None
                           [] reader[r].phase = "reading" -> ContentOf(reader[r].ptr)
                           [] reader[r].phase = "done" -> reader[r].got]]
ImplementsPublishedIndex == Published!Spec

-----------------------------------------------------------------------------
(* Properties that survive racing writers and power loss *)

\* Damage takes bytes away and never mixes: whatever writers race over staging, are
\* killed or lose power, each file of a generation in generations/ holds the one
\* canonical content the build was validated with, or is damaged or missing. So a
\* generation that loads is one whole index, never vectors of one build beside the
\* mapping or the payloads of another.
DamageOnlyTakesAway ==
    \A g \in Generations :
        place[g] = "generations" =>
            \E c \in Canonical : \A f \in Files : files[g][f] \in {c, Missing, Torn}

\* CURRENT never names a directory that is still in staging or was swept away,
\* even if another writer sweeps the build between validation and rename.
CurrentWasRenamed == current # None => place[current] = "generations"
=============================================================================
