----------------------------- MODULE TextEvidence -----------------------------
(***************************************************************************)
(* The text evidence of the videos: `M16TextPipeline` reads the frames of  *)
(* ingestion and the sound track, and keeps per video ocr.json and         *)
(* asr.json, each beside a metadata file that says from what it was made.  *)
(* Later runs reuse evidence whose metadata has the expected fingerprint;  *)
(* evidence without metadata is accepted if the manifest agrees.           *)
(*                                                                         *)
(* One process extracts text, ingestion may run beside it, video files may *)
(* be replaced, and configuration and engines change between runs.  A call *)
(* may raise, the process may be killed, files may be lost or damaged.     *)
(***************************************************************************)
EXTENDS FiniteSets, Naturals

CONSTANTS
    Videos,         \* video ids: the stems of the file names
    Sources,        \* contents a video file may have, told apart by source_hash
    Settings,       \* configurations, told apart by frames_fingerprint
    OcrEngines,     \* what info() of an OCR backend may say
    AsrEngines,     \* what info() of an ASR backend may say
    Described,      \* what projectctl says of an engine it has not constructed
    Reverts,        \* TRUE: a source, setting or engine may come back
    MaxFaults,      \* bound: exceptions, kills, damage, forced ingestions
    MaxChanges,     \* bound: contents, settings and engines that are replaced
    None,           \* an absent file
    Bad             \* a file that cannot be parsed

Modalities == {"ocr", "asr"}
Engines == [ocr |-> OcrEngines, asr |-> AsrEngines]
AllEngines == OcrEngines \cup AsrEngines

\* No description equals what a constructed backend says: info() of every
\* backend has fields more (the executable, the thresholds, the device).
ASSUME EvidenceAssumption ==
    /\ DOMAIN Described = AllEngines
    /\ \A e, f \in AllEngines : Described[e] # f
    /\ (Videos \X Sources) \cap (Settings \cup (Modalities \X AllEngines)) = {}
    /\ Settings \cap (Modalities \X AllEngines) = {}
    /\ Reverts \in BOOLEAN
    /\ MaxFaults \in Nat
    /\ MaxChanges \in Nat
    /\ None \notin Videos \cup Sources \cup Settings

VARIABLES
    video,      \* the content of each video file
    config,     \* the configuration of ingestion
    manifest,   \* manifest.json: source_hash and frames_fingerprint
    frames,     \* frames.json: the file and the setting it was sampled with
    sampled,    \* whether the ingestion under way has saved frames.json
    data,       \* ocr.json and asr.json: what they were really made from
    meta,       \* ocr_meta.json and asr_meta.json: what they say
    pc,         \* where the text process is,
    modality,   \* and with which modality
    engine,     \* the engines of its (last) run
    run,        \* its modalities, --force, and the engines that are stubs
    todo,       \* videos the run has still to visit
    current,    \* the one it visits,
    seen,       \* its manifest as the call read it,
    invalid,    \* modalities whose evidence the call found invalid
    got,        \* what was extracted and not saved yet
    past,       \* contents, settings and engines that were replaced
    faults

ingestion == <<video, config, manifest, frames, sampled>>
evidence == <<data, meta>>
call == <<current, seen, modality, invalid, got>>
vars == <<ingestion, evidence, pc, engine, run, todo, call, past, faults>>

-----------------------------------------------------------------------------
(* Types *)

Frames == [source : Sources, setting : Settings]
Manifest == [source : Sources, setting : Settings \cup {None}]

\* What evidence was made from, or is said to be made from: the source, the
\* frames for OCR, and the engine.
Claims ==
    [source : Sources, setting : Settings \cup {None},
     engine : AllEngines \cup {Described[e] : e \in AllEngines}]

ASSUME AbsenceAssumption ==
    /\ None \notin Frames
    /\ None \notin Manifest
    /\ None \notin Claims
    /\ Bad \notin Claims

Run == [use : SUBSET Modalities, force : BOOLEAN, stub : SUBSET Modalities]
PC == {"idle", "pick", "validate", "load", "extract", "save", "meta"}

\* Every variable stays in its type.
TypeOK ==
    /\ video \in [Videos -> Sources]
    /\ config \in Settings
    /\ manifest \in [Videos -> Manifest \cup {None}]
    /\ frames \in [Videos -> Frames \cup {None}]
    /\ sampled \in [Videos -> BOOLEAN]
    /\ data \in [Modalities -> [Videos -> Claims \cup {None, Bad}]]
    /\ meta \in [Modalities -> [Videos -> Claims \cup {None, Bad}]]
    /\ pc \in PC
    /\ modality \in Modalities
    /\ engine \in [Modalities -> AllEngines]
    /\ \A m \in Modalities : engine[m] \in Engines[m]
    /\ run \in Run
    /\ todo \subseteq Videos
    /\ current \in Videos \cup {None}
    /\ (current = None) <=> (pc \in {"idle", "pick"})
    /\ seen \in Manifest \cup {None}
    /\ (seen = None) <=> (pc \in {"idle", "pick"})
    /\ invalid \subseteq Modalities
    /\ got \in Claims \cup {None}
    /\ (got = None) <=> (pc \notin {"save", "meta"})
    /\ past \subseteq (Videos \X Sources) \cup Settings \cup (Modalities \X AllEngines)
    /\ faults \in 0..MaxFaults

Init ==
    /\ video \in [Videos -> Sources]
    /\ config \in Settings
    /\ manifest = [v \in Videos |-> None]
    /\ frames = [v \in Videos |-> None]
    /\ sampled = [v \in Videos |-> FALSE]
    /\ data = [m \in Modalities |-> [v \in Videos |-> None]]
    /\ meta = [m \in Modalities |-> [v \in Videos |-> None]]
    /\ pc = "idle"
    /\ modality = "ocr"
    /\ engine \in {e \in [Modalities -> AllEngines] : \A m \in Modalities : e[m] \in Engines[m]}
    /\ run = [use |-> {}, force |-> FALSE, stub |-> {}]
    /\ todo = {}
    /\ current = None
    /\ seen = None
    /\ invalid = {}
    /\ got = None
    /\ past = {}
    /\ faults = 0

-----------------------------------------------------------------------------
(* Fingerprints and validation *)

Fresh(x) == Reverts \/ x \notin past

\* The things in old are replaced.
Retire(old) ==
    /\ past' = past \cup old
    /\ Cardinality(past') <= MaxChanges

Absent == {None, Bad}

\* compute_ocr_fingerprint, compute_asr_fingerprint: speech does not depend on
\* the frames.
Claim(m, src, setting, e) ==
    [source |-> src, setting |-> IF m = "ocr" THEN setting ELSE None, engine |-> e]

\* The manifest as a call reads it; without one the file is hashed.
Read(v) ==
    IF manifest[v] = None THEN [source |-> video[v], setting |-> None] ELSE manifest[v]

\* The fallback of the validators: no readable metadata, and a manifest that is
\* absent or agrees.
LegacyValid(m, v, claim) ==
    /\ meta[m][v] \in Absent
    /\ \/ manifest[v] = None
       \/ /\ manifest[v].source = claim.source
          /\ claim.setting # None => manifest[v].setting = claim.setting

\* Mutant of Valid: only the presence of the evidence is checked.
ValidIfThere(m, v, claim) == data[m][v] # None /\ (meta[m][v] = claim \/ LegacyValid(m, v, claim))

\* validate_ocr_cache, validate_asr_cache
Valid(m, v, claim) ==
    /\ data[m][v] \notin Absent
    /\ \/ meta[m][v] = claim
       \/ LegacyValid(m, v, claim)

\* The evidence a run with engines es would reuse for v, judged by what the
\* command knows before it constructs them.
Described_Valid(m, v, e) == Valid(m, v, Claim(m, Read(v).source, Read(v).setting, Described[e]))

\* The modalities for which the command constructs a stub, because all of the
\* evidence is valid.
Stubs(vs, use, es) == {m \in use : \A v \in vs : Described_Valid(m, v, es[m])}

\* What info() of the backend of this run says.
Info(m) == IF m \in run.stub THEN Described[engine[m]] ELSE engine[m]

-----------------------------------------------------------------------------
(* Ingestion, as far as text evidence depends on it *)

\* The metadata stage saves a manifest without a frames fingerprint.
Inspect(v) ==
    /\ manifest' = [manifest EXCEPT ![v] = [source |-> video[v], setting |-> None]]
    /\ sampled' = [sampled EXCEPT ![v] = FALSE]
    /\ UNCHANGED <<video, config, frames, evidence, pc, engine, run, todo, call, past>>

IngestMetadata(v) ==
    /\ \/ manifest[v] = None
       \/ manifest[v] # None /\ manifest[v].source # video[v]
    /\ Inspect(v)
    /\ UNCHANGED faults

IngestForced(v) ==
    /\ faults < MaxFaults
    /\ faults' = faults + 1
    /\ Inspect(v)

\* The frames stage of a call saves frames.json
IngestFrames(v) ==
    /\ manifest[v] # None
    /\ manifest[v].setting # config
    /\ ~sampled[v]
    /\ sampled' = [sampled EXCEPT ![v] = TRUE]
    /\ frames' = [frames EXCEPT ![v] = [source |-> video[v], setting |-> config]]
    /\ UNCHANGED <<video, config, manifest, evidence, pc, engine, run, todo, call, past, faults>>

\* and then its manifest.
IngestManifest(v) ==
    /\ manifest[v] # None
    /\ manifest[v].setting # config
    /\ sampled[v]
    /\ sampled' = [sampled EXCEPT ![v] = FALSE]
    /\ manifest' = [manifest EXCEPT ![v] = [source |-> manifest[v].source, setting |-> config]]
    /\ UNCHANGED <<video, config, frames, evidence, pc, engine, run, todo, call, past, faults>>

Ingest(v) == IngestMetadata(v) \/ IngestFrames(v) \/ IngestManifest(v)

\* Somebody replaces the file.
ReplaceSource(v, src) ==
    /\ src # video[v]
    /\ Fresh(<<v, src>>)
    /\ Retire({<<v, video[v]>>})
    /\ video' = [video EXCEPT ![v] = src]
    /\ UNCHANGED <<config, manifest, frames, sampled, evidence, pc, engine, run, todo, call, faults>>

\* Ingestion is started with another configuration.
Reconfigure(s) ==
    /\ s # config
    /\ Fresh(s)
    /\ Retire({config})
    /\ config' = s
    /\ sampled' = [v \in Videos |-> FALSE]
    /\ UNCHANGED <<video, manifest, frames, evidence, pc, engine, run, todo, call, faults>>

-----------------------------------------------------------------------------
(* A run of the text pipeline *)

Begin(vs, r, es) ==
    /\ pc = "idle"
    /\ \A m \in Modalities : es[m] = engine[m] \/ Fresh(<<m, es[m]>>)
    /\ Retire({<<m, engine[m]>> : m \in {k \in Modalities : es[k] # engine[k]}})
    /\ engine' = es
    /\ run' = r
    /\ todo' = vs
    /\ pc' = "pick"
    /\ UNCHANGED <<ingestion, evidence, call, faults>>

\* projectctl ocr and projectctl asr: one modality, never forced, and a stub in
\* place of the engine if there seems to be nothing to do.
Command(vs, m, es) ==
    Begin(vs, [use |-> {m}, force |-> FALSE, stub |-> Stubs(vs, {m}, es)], es)

\* run_path on a pipeline a script constructed.
Script(vs, force, es) ==
    Begin(vs, [use |-> Modalities, force |-> force, stub |-> {}], es)

\* The call is over: its local variables are gone.
Leave ==
    /\ current' = None
    /\ seen' = None
    /\ modality' = "ocr"
    /\ invalid' = {}
    /\ got' = None

\* run_video: the manifest is read,
Pick(v) ==
    /\ pc = "pick"
    /\ v \in todo
    /\ todo' = todo \ {v}
    /\ current' = v
    /\ seen' = Read(v)
    /\ pc' = "validate"
    /\ UNCHANGED <<ingestion, evidence, engine, run, modality, invalid, got, past, faults>>

Expected(m) == Claim(m, seen.source, seen.setting, Info(m))

\* and the evidence of the modalities in use validated; the call returns if it
\* is all valid.
Validate ==
    /\ pc = "validate"
    /\ LET found == {m \in run.use : ~Valid(m, current, Expected(m))}
       IN  IF found = {} /\ ~run.force
           THEN pc' = "pick" /\ Leave
           ELSE /\ pc' = "load"
                /\ invalid' = found
                /\ UNCHANGED <<current, seen, modality, got>>
    /\ UNCHANGED <<ingestion, evidence, engine, run, todo, past, faults>>

\* Go to the step that follows modality m.
After(m) ==
    IF m = "ocr" THEN /\ pc' = "load"
                      /\ modality' = "asr"
                      /\ got' = None
                      /\ UNCHANGED <<current, seen, invalid>>
                 ELSE pc' = "pick" /\ Leave

\* Evidence that was not found invalid is loaded, also that of a modality not
\* in use: if it cannot be parsed the call raises.
Load(m) ==
    /\ pc = "load" /\ modality = m
    /\ IF m \notin invalid /\ data[m][current] = Bad
       THEN pc' = "pick" /\ Leave
       ELSE IF m \in run.use /\ (run.force \/ m \in invalid)
       THEN pc' = "extract" /\ UNCHANGED call
       ELSE After(m)
    /\ UNCHANGED <<ingestion, evidence, engine, run, todo, past, faults>>

\* The frames there are now go through the OCR engine,
ExtractText ==
    /\ pc = "extract" /\ modality = "ocr"
    /\ IF frames[current] = None
       THEN pc' = "pick" /\ Leave
       ELSE /\ got' = Claim("ocr", frames[current].source, frames[current].setting, Info("ocr"))
            /\ pc' = "save"
            /\ UNCHANGED <<current, seen, modality, invalid>>
    /\ UNCHANGED <<ingestion, evidence, engine, run, todo, past, faults>>

\* and the file there is now through the ASR engine.
Transcribe ==
    /\ pc = "extract" /\ modality = "asr"
    /\ got' = Claim("asr", video[current], None, Info("asr"))
    /\ pc' = "save"
    /\ UNCHANGED <<ingestion, evidence, engine, run, todo, current, seen, modality, invalid,
                   past, faults>>

\* save_ocr, save_asr: first the evidence,
SaveData(m) ==
    /\ pc = "save" /\ modality = m
    /\ data' = [data EXCEPT ![m] = [@ EXCEPT ![current] = got]]
    /\ pc' = "meta"
    /\ UNCHANGED <<ingestion, meta, engine, run, todo, call, past, faults>>

\* Mutant of SaveMeta: the fingerprint is computed again when it is saved.
SaveMetaNow(m) ==
    /\ pc = "meta" /\ modality = m
    /\ meta' = [meta EXCEPT ![m] = [@ EXCEPT ![current] =
                    Claim(m, Read(current).source, Read(current).setting, Info(m))]]
    /\ After(m)
    /\ UNCHANGED <<ingestion, data, engine, run, todo, past, faults>>

\* then the metadata.
SaveMeta(m) ==
    /\ pc = "meta" /\ modality = m
    /\ meta' = [meta EXCEPT ![m] = [@ EXCEPT ![current] = Expected(m)]]
    /\ After(m)
    /\ UNCHANGED <<ingestion, data, engine, run, todo, past, faults>>

Finish ==
    /\ pc = "pick"
    /\ todo = {}
    /\ pc' = "idle"
    /\ UNCHANGED <<ingestion, evidence, engine, run, todo, call, past, faults>>

-----------------------------------------------------------------------------
(* Faults *)

\* The call raises; run_path goes on with the next video.
Raise ==
    /\ current # None
    /\ faults < MaxFaults
    /\ faults' = faults + 1
    /\ pc' = "pick"
    /\ Leave
    /\ UNCHANGED <<ingestion, evidence, engine, run, todo, past>>

\* The process is killed.
Crash ==
    /\ pc # "idle"
    /\ faults < MaxFaults
    /\ faults' = faults + 1
    /\ pc' = "idle"
    /\ todo' = {}
    /\ Leave
    /\ UNCHANGED <<ingestion, evidence, engine, run, past>>

\* A file is lost or becomes unreadable.
Damage(m, v, x) ==
    /\ faults < MaxFaults
    /\ faults' = faults + 1
    /\ \/ /\ data[m][v] # x
          /\ data' = [data EXCEPT ![m] = [@ EXCEPT ![v] = x]]
          /\ UNCHANGED meta
       \/ /\ meta[m][v] # x
          /\ meta' = [meta EXCEPT ![m] = [@ EXCEPT ![v] = x]]
          /\ UNCHANGED data
    /\ UNCHANGED <<ingestion, pc, engine, run, todo, call, past>>

-----------------------------------------------------------------------------

Step ==
    \/ \E v \in Videos : Pick(v)
    \/ Validate
    \/ \E m \in Modalities : Load(m) \/ SaveData(m) \/ SaveMeta(m)
    \/ ExtractText
    \/ Transcribe
    \/ Finish

EngineChoices == {e \in [Modalities -> AllEngines] : \A m \in Modalities : e[m] \in Engines[m]}

Next ==
    \/ \E vs \in SUBSET Videos, es \in EngineChoices :
        \/ \E m \in Modalities : Command(vs, m, es)
        \/ \E force \in BOOLEAN : Script(vs, force, es)
    \/ Step
    \/ \E v \in Videos : Ingest(v) \/ IngestForced(v)
    \/ \E v \in Videos, src \in Sources : ReplaceSource(v, src)
    \/ \E s \in Settings : Reconfigure(s)
    \/ Raise
    \/ Crash
    \/ \E m \in Modalities, v \in Videos, x \in Absent : Damage(m, v, x)

Spec == Init /\ [][Next]_vars

\* The operator runs the three commands again and again, with the engines and
\* the setting of the day; a process that runs goes on.
FairSpec ==
    /\ Spec
    /\ WF_vars(Step)
    /\ \A v \in Videos : WF_vars(Ingest(v))
    /\ \A m \in Modalities : SF_vars(Command(Videos, m, engine))

-----------------------------------------------------------------------------
(* Properties *)

\* What evidence of v should be made from: the present file, the present
\* setting, the present engine.
Present(m, v) == Claim(m, video[v], config, engine[m])

\* Metadata that vouches for the present file, setting and engine tells the
\* truth about the evidence beside it, whatever was interrupted and whatever
\* ingestion did during the extraction.
VouchedEvidenceIsRight ==
    \A m \in Modalities, v \in Videos :
        meta[m][v] = Present(m, v) /\ data[m][v] \notin Absent => data[m][v] = meta[m][v]

\* Evidence that a run would reuse on a video whose ingestion is complete was
\* made from the present frames by the present engine ("Safe legacy fallback").
AcceptedEvidenceIsRight ==
    \A m \in Modalities, v \in Videos :
        /\ pc = "idle"
        /\ frames[v] = [source |-> video[v], setting |-> config]
        /\ manifest[v] = frames[v]
        /\ Valid(m, v, Present(m, v))
        => data[m][v] = Present(m, v)

\* No damaged file and no failure of one modality keeps evidence from being made:
\* in the end all of it is accepted, by the engines or as projectctl describes
\* them.
Accepted(m, v) ==
    LET r == Read(v) IN
    \/ Valid(m, v, Claim(m, r.source, r.setting, engine[m]))
    \/ Described_Valid(m, v, engine[m])
EvidenceConverges == <>[](\A m \in Modalities, v \in Videos : Accepted(m, v))
=============================================================================
