---------------------------- MODULE VideoIngestion ----------------------------
(***************************************************************************)
(* Per-video ingestion with resume: `ingest_path` walks over the videos of *)
(* a directory; for each, `ingest_video` asks `plan_resume` which stage to *)
(* start from and runs the stages metadata, frames and embeddings, every   *)
(* stage writing its artifacts and then the manifest.  At the end the      *)
(* videos whose artifacts are compatible are published as one index.       *)
(*                                                                         *)
(* A call may raise at any step, the process may be killed at any step,    *)
(* the next run may have another configuration or another encoder, and     *)
(* the video file may be replaced at any time, also during a call.         *)
(***************************************************************************)
EXTENDS FiniteSets, FiniteSetsExt, Naturals

CONSTANTS
    Videos,         \* video ids: the stems of the file names
    Sources,        \* contents a video file may have, told apart by source_hash
    Settings,       \* configurations, told apart by frames_fingerprint
    Encoders,       \* encoder identities
    Frames,         \* zero-based source frame indices
    Periodic,       \* frames the periodic sampler selects from a source
    Shots,          \* frames a shot detector adds ({} in legacy mode)
    DedupSettings,  \* the settings with visual_dedup_enabled
    Similar,        \* pairs of frames an encoder finds near-duplicate
    Policy,         \* the frame id policy of a setting
    Extension,      \* the image format of a setting
    Size,           \* the image size of a source
    Dim,            \* the embedding dimension of an encoder
    Legacy,         \* an identity with its revision replaced by "default"
    Reverts,        \* TRUE: a source, setting or encoder may come back
    MaxFaults,      \* bound: exceptions and kills in a behaviour
    None

ASSUME IngestionAssumption ==
    /\ Frames \subseteq Nat
    /\ IsFiniteSet(Frames)
    /\ Settings \cap Encoders = {}
    /\ (Videos \X Sources) \cap (Settings \cup Encoders) = {}
    /\ Periodic \in [Sources -> [Settings -> SUBSET Frames]]
    /\ Shots \in [Sources -> [Settings -> SUBSET Frames]]
    /\ DedupSettings \subseteq Settings
    /\ Similar \in [Encoders -> SUBSET (Frames \X Frames)]
    /\ DOMAIN Policy = Settings
    /\ DOMAIN Extension = Settings
    /\ DOMAIN Size = Sources
    /\ DOMAIN Dim = Encoders
    /\ Legacy \in [Encoders -> Encoders]
    /\ Reverts \in BOOLEAN
    /\ MaxFaults \in Nat

VARIABLES
    source,         \* the content of each video file
    metadata,       \* metadata.json: what was inspected, what was decoded
    records,        \* frames.json, with the frames whose sampling_reason is a shot
    images,         \* frames/<index>.<extension>
    embeddings,     \* embeddings.npy
    manifest,       \* manifest.json
    index,          \* the published index: per video, its payloads and vectors
    pc,             \* where the ingestion process is
    setup,          \* the configuration and encoder of the (last) run
    todo,           \* videos the run has still to ingest
    video,          \* the one being ingested,
    digest,         \* its hash as the call computed it,
    start,          \* the stage plan_resume chose,
    decoded,        \* the content the frames were decoded from,
    sampled,        \* the frames the sampler selected,
    protected,      \* and _protected_indices_by_video
    past,           \* contents, settings and encoders that were replaced
    faults          \* exceptions and kills so far

store == <<metadata, records, images, embeddings, manifest>>
callVars == <<video, digest, start, decoded, sampled, protected>>
vars == <<source, store, index, pc, setup, todo, callVars, past, faults>>

-----------------------------------------------------------------------------
(* Types *)

Image == [source : Sources, setting : Settings]
ImageFiles == Frames \X {Extension[s] : s \in Settings}
Records == [source : Sources, setting : Settings, frames : SUBSET Frames, shots : SUBSET Frames]
Rows == UNION {[fs -> Image] : fs \in SUBSET Frames}
Embeddings == [encoder : Encoders, rows : Rows]
EmbeddingsFingerprint == Settings \X Encoders
Manifest ==
    [source : Sources, completed : {"none", "metadata", "frames", "embeddings"},
     metadataFp : BOOLEAN, framesFp : Settings \cup {None},
     embeddingsFp : EmbeddingsFingerprint \cup {None},
     sampled : Nat, embedded : Nat, dim : {Dim[e] : e \in Encoders} \cup {None},
     failed : BOOLEAN]
Setup == [setting : Settings, encoder : Encoders, force : BOOLEAN]

Metadata == [inspected : Sources, decoded : Sources \cup {None}]

\* An absent file, name or fingerprint is none that exists.
ASSUME NoneAssumption ==
    /\ None \notin Videos
    /\ None \notin Sources
    /\ None \notin Settings
    /\ None \notin EmbeddingsFingerprint
    /\ None \notin Image
    /\ None \notin Metadata
    /\ None \notin Records
    /\ None \notin Embeddings
    /\ None \notin Manifest

Stages == {"metadata", "frames", "embeddings", "complete"}
PC == {"idle", "pick", "complete", "metadata", "metadata manifest",
       "clear", "sample", "image", "decoded count", "records", "frames manifest",
       "encode", "embeddings", "embeddings manifest"}

\* Every variable stays in its type.
TypeOK ==
    /\ source \in [Videos -> Sources]
    /\ metadata \in [Videos -> Metadata \cup {None}]
    /\ records \in [Videos -> Records \cup {None}]
    /\ images \in [Videos -> [ImageFiles -> Image \cup {None}]]
    /\ embeddings \in [Videos -> Embeddings \cup {None}]
    /\ manifest \in [Videos -> Manifest \cup {None}]
    /\ index \in [Videos -> [records : Records, embeddings : Embeddings] \cup {None}]
    /\ pc \in PC
    /\ setup \in Setup
    /\ todo \subseteq Videos
    /\ video \in Videos \cup {None}
    /\ digest \in Sources \cup {None}
    /\ start \in Stages \cup {None}
    /\ decoded \in Sources \cup {None}
    /\ sampled \subseteq Frames
    /\ protected \subseteq Frames
    /\ past \subseteq (Videos \X Sources) \cup Settings \cup Encoders
    /\ faults \in 0..MaxFaults

Init ==
    /\ source \in [Videos -> Sources]
    /\ metadata = [v \in Videos |-> None]
    /\ records = [v \in Videos |-> None]
    /\ images = [v \in Videos |-> [f \in ImageFiles |-> None]]
    /\ embeddings = [v \in Videos |-> None]
    /\ manifest = [v \in Videos |-> None]
    /\ index = [v \in Videos |-> None]
    /\ pc = "idle"
    /\ setup \in [setting : Settings, encoder : Encoders, force : {FALSE}]
    /\ todo = {}
    /\ video = None
    /\ digest = None
    /\ start = None
    /\ decoded = None
    /\ sampled = {}
    /\ protected = {}
    /\ past = {}
    /\ faults = 0

-----------------------------------------------------------------------------
(* Sampling and near-duplicate filtering *)

\* The outcomes of sampling: with the shots, or without them when the detector
\* raises (the exception is swallowed).
Samplings(src, s) ==
    {[frames |-> Periodic[src][s] \cup Shots[src][s], protected |-> Shots[src][s]],
     [frames |-> Periodic[src][s], protected |-> {}]}

\* A frame is kept when it is the first, protected, or not similar to the last
\* frame kept before it.
Retained(frames, shielded, similar) ==
    LET kept[i \in frames] ==
            LET before == {j \in frames : j < i /\ kept[j]}
            IN  \/ before = {}
                \/ i \in shielded
                \/ <<Max(before), i>> \notin similar
    IN  {i \in frames : kept[i]}

\* What the embeddings stage leaves of the frames.
Filtered(frames, shielded, u) ==
    IF u.setting \in DedupSettings
    THEN Retained(frames, shielded, Similar[u.encoder]) ELSE frames

-----------------------------------------------------------------------------
(* validate_metadata, validate_frames, validate_embeddings, plan_resume *)

File(f, s) == <<f, Extension[s]>>

MetadataValid(v) == manifest[v].metadataFp /\ metadata[v] # None

\* The fingerprint, the number of records, their submission ids, and an image
\* with the recorded size for each; nothing ties the images to the setting.
FramesValid(v, s) ==
    /\ manifest[v].framesFp = s
    /\ records[v] # None
    /\ Cardinality(records[v].frames) = manifest[v].sampled
    /\ Policy[records[v].setting] = Policy[s]
    /\ Extension[records[v].setting] = Extension[s]
    /\ \A f \in records[v].frames :
        /\ images[v][File(f, s)] # None
        /\ Size[images[v][File(f, s)].source] = Size[records[v].source]

EmbeddingsValid(v, u, fingerprints) ==
    /\ manifest[v].dim = Dim[u.encoder]
    /\ manifest[v].embeddingsFp \in fingerprints
    /\ records[v] # None
    /\ embeddings[v] # None
    /\ Dim[embeddings[v].encoder] = Dim[u.encoder]
    /\ Cardinality(DOMAIN embeddings[v].rows) = Cardinality(records[v].frames)
    /\ Cardinality(records[v].frames) = manifest[v].embedded

Fingerprint(u) == <<u.setting, u.encoder>>

\* plan_resume also accepts the fingerprint of the "default" revision.
Plan(v, src, u) ==
    IF \/ u.force
       \/ manifest[v] = None
       \/ manifest[v].source # src
       \/ ~MetadataValid(v)
    THEN "metadata"
    ELSE IF ~FramesValid(v, u.setting) THEN "frames"
    ELSE IF ~EmbeddingsValid(v, u, {Fingerprint(u), <<u.setting, Legacy[u.encoder]>>})
    THEN "embeddings"
    ELSE "complete"

\* Mutant of Compatible: the frames are not validated.
CompatibleUnvalidated(v) ==
    /\ manifest[v] # None
    /\ manifest[v].completed = "embeddings"
    /\ ~manifest[v].failed
    /\ MetadataValid(v)
    /\ records[v] # None
    /\ embeddings[v] # None

\* The filter of ingest_path on what it publishes.
Compatible(v) ==
    /\ manifest[v] # None
    /\ manifest[v].completed = "embeddings"
    /\ ~manifest[v].failed
    /\ MetadataValid(v)
    /\ FramesValid(v, setup.setting)
    /\ EmbeddingsValid(v, setup, {Fingerprint(setup)})

-----------------------------------------------------------------------------
(* Helpers *)

Fresh(x) == Reverts \/ x \notin past
Retire(old, new) == past' = past \cup (old \ new)

Forget ==
    /\ video' = None
    /\ digest' = None
    /\ start' = None
    /\ decoded' = None
    /\ sampled' = {}
    /\ protected' = {}

Base(src) ==
    [source |-> src, completed |-> "none", metadataFp |-> FALSE, framesFp |-> None,
     embeddingsFp |-> None, sampled |-> 0, embedded |-> 0, dim |-> None, failed |-> FALSE]

SaveManifest(m) == manifest' = [manifest EXCEPT ![video] = m]

-----------------------------------------------------------------------------
(* ingest_path *)

\* A run over some of the videos, perhaps with --force.
Start(vs, u) ==
    /\ pc = "idle"
    /\ Fresh(u.setting) /\ Fresh(u.encoder)
    /\ Retire({setup.setting, setup.encoder}, {u.setting, u.encoder})
    /\ setup' = u
    /\ todo' = vs
    /\ pc' = "pick"
    /\ UNCHANGED <<source, store, index, callVars, faults>>

\* ingest_video: the hash, the manifest and the plan.
Pick(v) ==
    /\ pc = "pick"
    /\ v \in todo
    /\ todo' = todo \ {v}
    /\ video' = v
    /\ digest' = source[v]
    /\ start' = Plan(v, source[v], setup)
    /\ pc' = CASE start' = "complete" -> "complete"
               [] start' = "metadata" -> "metadata"
               [] start' = "frames" -> "clear"
               [] start' = "embeddings" -> "encode"
    /\ UNCHANGED <<source, store, index, setup, decoded, sampled, protected, past, faults>>

\* Everything is reused; a failure recorded by an earlier run is cleared.
Complete ==
    /\ pc = "complete"
    /\ IF manifest[video].failed
       THEN SaveManifest([manifest[video] EXCEPT !.failed = FALSE, !.completed = "embeddings"])
       ELSE UNCHANGED manifest
    /\ pc' = "pick"
    /\ Forget
    /\ UNCHANGED <<source, metadata, records, images, embeddings, index, setup, todo, past, faults>>

-----------------------------------------------------------------------------
(* The metadata stage *)

SaveMetadata ==
    /\ pc = "metadata"
    /\ metadata' = [metadata EXCEPT ![video] = [inspected |-> source[video], decoded |-> None]]
    /\ pc' = "metadata manifest"
    /\ UNCHANGED <<source, records, images, embeddings, manifest, index, setup, todo,
                   callVars, past, faults>>

\* Mutant of SaveMetadataManifest: fingerprints of the earlier run are carried
\* over.
SaveMetadataManifestCarried ==
    /\ pc = "metadata manifest"
    /\ SaveManifest(IF manifest[video] = None
                    THEN [Base(digest) EXCEPT !.completed = "metadata", !.metadataFp = TRUE]
                    ELSE [manifest[video] EXCEPT !.source = digest, !.metadataFp = TRUE])
    /\ pc' = "clear"
    /\ UNCHANGED <<source, metadata, records, images, embeddings, index, setup, todo,
                   callVars, past, faults>>

SaveMetadataManifest ==
    /\ pc = "metadata manifest"
    /\ SaveManifest([Base(digest) EXCEPT !.completed = "metadata", !.metadataFp = TRUE])
    /\ pc' = "clear"
    /\ UNCHANGED <<source, metadata, records, images, embeddings, index, setup, todo,
                   callVars, past, faults>>

-----------------------------------------------------------------------------
(* The frames stage *)

\* The images of the earlier run are unlinked one by one,
Clear ==
    /\ pc = "clear"
    /\ \E f \in ImageFiles :
        /\ images[video][f] # None
        /\ images' = [images EXCEPT ![video][f] = None]
    /\ UNCHANGED <<source, metadata, records, embeddings, manifest, index, pc, setup, todo,
                   callVars, past, faults>>

\* the video is decoded and sampled,
Sample ==
    /\ pc = "clear"
    /\ \A f \in ImageFiles : images[video][f] = None
    /\ \E s \in Samplings(source[video], setup.setting) :
        /\ sampled' = s.frames
        /\ protected' = s.protected
    /\ decoded' = source[video]
    /\ pc' = "image"
    /\ UNCHANGED <<source, store, index, setup, todo, video, digest, start, past, faults>>

\* the images are written in the order of the frames,
SaveImage ==
    /\ pc = "image"
    /\ LET unsaved == {f \in sampled : images[video][File(f, setup.setting)] = None}
       IN  IF unsaved # {}
           THEN /\ images' = [images EXCEPT ![video][File(Min(unsaved), setup.setting)] =
                                [source |-> decoded, setting |-> setup.setting]]
                /\ UNCHANGED pc
           ELSE /\ pc' = "decoded count"
                /\ UNCHANGED images
    /\ UNCHANGED <<source, metadata, records, embeddings, manifest, index, setup, todo,
                   callVars, past, faults>>

\* then the metadata with the decoded count,
SaveDecodedCount ==
    /\ pc = "decoded count"
    /\ metadata' = [metadata EXCEPT ![video].decoded = decoded]
    /\ pc' = "records"
    /\ UNCHANGED <<source, records, images, embeddings, manifest, index, setup, todo,
                   callVars, past, faults>>

\* the records,
SaveSampledRecords ==
    /\ pc = "records"
    /\ records' = [records EXCEPT ![video] =
                    [source |-> decoded, setting |-> setup.setting, frames |-> sampled,
                     shots |-> protected]]
    /\ pc' = "frames manifest"
    /\ UNCHANGED <<source, metadata, images, embeddings, manifest, index, setup, todo,
                   callVars, past, faults>>

\* and the manifest, whose embeddings are no longer valid.
SaveFramesManifest ==
    /\ pc = "frames manifest"
    /\ SaveManifest([manifest[video] EXCEPT
            !.completed = "frames", !.metadataFp = TRUE, !.framesFp = setup.setting,
            !.sampled = Cardinality(sampled), !.embeddingsFp = None, !.embedded = 0,
            !.dim = None, !.failed = FALSE])
    /\ pc' = "encode"
    /\ UNCHANGED <<source, metadata, records, images, embeddings, index, setup, todo,
                   callVars, past, faults>>

-----------------------------------------------------------------------------
(* The embeddings stage *)

\* The images of the records are encoded; with deduplication the records that
\* remain are written first.
Encode ==
    /\ pc = "encode"
    /\ LET kept == Filtered(records[video].frames, protected, setup)
       IN  records' = [records EXCEPT ![video].frames = kept, ![video].shots = @ \cap kept]
    /\ pc' = "embeddings"
    /\ UNCHANGED <<source, metadata, images, embeddings, manifest, index, setup, todo,
                   callVars, past, faults>>

\* The vectors of the images the records name.
Vectors(v) ==
    [encoder |-> setup.encoder,
     rows |-> [f \in records[v].frames |-> images[v][File(f, records[v].setting)]]]

SaveEmbeddings ==
    /\ pc = "embeddings"
    /\ embeddings' = [embeddings EXCEPT ![video] = Vectors(video)]
    /\ pc' = "embeddings manifest"
    /\ UNCHANGED <<source, metadata, records, images, manifest, index, setup, todo,
                   callVars, past, faults>>

\* Mutant of SaveEmbeddingsManifest: the count of the frames stage is kept.
SaveEmbeddingsManifestUncounted ==
    /\ pc = "embeddings manifest"
    /\ SaveManifest([manifest[video] EXCEPT
            !.completed = "embeddings", !.embeddingsFp = Fingerprint(setup),
            !.embedded = Cardinality(records[video].frames),
            !.dim = Dim[setup.encoder], !.failed = FALSE])
    /\ pc' = "pick"
    /\ Forget
    /\ UNCHANGED <<source, metadata, records, images, embeddings, index, setup, todo,
                   past, faults>>

\* Mutant of SaveEmbeddingsManifest: the count and the dimension are swapped.
SaveEmbeddingsManifestSwapped ==
    /\ pc = "embeddings manifest"
    /\ SaveManifest([manifest[video] EXCEPT
            !.completed = "embeddings", !.embeddingsFp = Fingerprint(setup),
            !.sampled = Cardinality(records[video].frames),
            !.embedded = Dim[setup.encoder],
            !.dim = Cardinality(records[video].frames), !.failed = FALSE])
    /\ pc' = "pick"
    /\ Forget
    /\ UNCHANGED <<source, metadata, records, images, embeddings, index, setup, todo,
                   past, faults>>

\* Mutant of SaveEmbeddingsManifest: the completed stage is not recorded.
SaveEmbeddingsManifestUnstaged ==
    /\ pc = "embeddings manifest"
    /\ SaveManifest([manifest[video] EXCEPT
            !.embeddingsFp = Fingerprint(setup),
            !.sampled = Cardinality(records[video].frames),
            !.embedded = Cardinality(records[video].frames),
            !.dim = Dim[setup.encoder], !.failed = FALSE])
    /\ pc' = "pick"
    /\ Forget
    /\ UNCHANGED <<source, metadata, records, images, embeddings, index, setup, todo,
                   past, faults>>

SaveEmbeddingsManifest ==
    /\ pc = "embeddings manifest"
    /\ SaveManifest([manifest[video] EXCEPT
            !.completed = "embeddings", !.embeddingsFp = Fingerprint(setup),
            !.sampled = Cardinality(records[video].frames),
            !.embedded = Cardinality(records[video].frames),
            !.dim = Dim[setup.encoder], !.failed = FALSE])
    /\ pc' = "pick"
    /\ Forget
    /\ UNCHANGED <<source, metadata, records, images, embeddings, index, setup, todo,
                   past, faults>>

-----------------------------------------------------------------------------
(* Publication *)

Published(v) == [records |-> records[v], embeddings |-> embeddings[v]]

\* All videos are done: the compatible ones become the index, whatever run
\* they were ingested by; without any, the index stays as it is.
Publish ==
    /\ pc = "pick"
    /\ todo = {}
    /\ LET vs == {v \in Videos : Compatible(v)}
       IN  index' = IF vs = {} THEN index
                    ELSE [v \in Videos |-> IF v \in vs THEN Published(v) ELSE None]
    /\ pc' = "idle"
    /\ UNCHANGED <<source, store, setup, todo, callVars, past, faults>>

\* `projectctl index`: every video that has a manifest, if the shapes fit.
CommandIndex ==
    /\ pc = "idle"
    /\ LET vs == {v \in Videos : manifest[v] # None}
       IN  /\ vs # {}
           /\ \E first \in vs : \A v \in vs :
                /\ records[v] # None
                /\ embeddings[v] # None
                /\ Cardinality(DOMAIN embeddings[v].rows) = Cardinality(records[v].frames)
                /\ Dim[embeddings[v].encoder] = manifest[first].dim
           /\ index' = [v \in Videos |-> IF v \in vs THEN Published(v) ELSE None]
    /\ UNCHANGED <<source, store, pc, setup, todo, callVars, past, faults>>

-----------------------------------------------------------------------------
(* The environment and faults *)

\* The video file is replaced.
ReplaceSource(v) ==
    /\ \E src \in Sources \ {source[v]} :
        /\ Fresh(<<v, src>>)
        /\ source' = [source EXCEPT ![v] = src]
        /\ past' = past \cup {<<v, source[v]>>}
    /\ UNCHANGED <<store, index, pc, setup, todo, callVars, faults>>

\* The file cannot be read: the exception precedes the try, and nothing is
\* recorded in the store.
Unreadable(v) ==
    /\ pc = "pick"
    /\ v \in todo
    /\ faults < MaxFaults
    /\ faults' = faults + 1
    /\ todo' \in {todo \ {v}, {}}
    /\ UNCHANGED <<source, store, index, pc, setup, callVars, past>>

\* A step of ingest_video raises: the failure is recorded in the manifest on
\* disk, and the run goes on with the next video or, with --fail-fast, without.
Raise ==
    /\ video # None
    /\ faults < MaxFaults
    /\ faults' = faults + 1
    /\ LET latest == IF manifest[video] = None THEN Base(digest) ELSE manifest[video]
       IN  SaveManifest([latest EXCEPT !.failed = TRUE])
    /\ pc' = "pick"
    /\ todo' \in {todo, {}}
    /\ Forget
    /\ UNCHANGED <<source, metadata, records, images, embeddings, index, setup, past>>

\* The process is killed, or the publication raises: a file is written whole
\* or not at all, and so is the index.
Crash ==
    /\ pc # "idle"
    /\ faults < MaxFaults
    /\ faults' = faults + 1
    /\ pc' = "idle"
    /\ todo' = {}
    /\ Forget
    /\ UNCHANGED <<source, store, index, setup, past>>

-----------------------------------------------------------------------------

Step ==
    \/ \E v \in Videos : Pick(v)
    \/ Complete
    \/ SaveMetadata
    \/ SaveMetadataManifest
    \/ Clear
    \/ Sample
    \/ SaveImage
    \/ SaveDecodedCount
    \/ SaveSampledRecords
    \/ SaveFramesManifest
    \/ Encode
    \/ SaveEmbeddings
    \/ SaveEmbeddingsManifest
    \/ Publish

Next ==
    \/ \E vs \in SUBSET Videos, u \in Setup : Start(vs, u)
    \/ Step
    \/ CommandIndex
    \/ \E v \in Videos : ReplaceSource(v) \/ Unreadable(v)
    \/ Raise
    \/ Crash

Spec == Init /\ [][Next]_vars

\* A run that started goes on, and the operator runs the directory again and
\* again; no other step is promised to happen.
Rerun == \E u \in Setup : Start(Videos, u)
FairSpec == Spec /\ WF_vars(Step) /\ SF_vars(Rerun)

-----------------------------------------------------------------------------
(* Properties *)

\* What an uninterrupted ingestion of src under u leaves in the store: one
\* outcome with the shots and one without.
CleanFrames(v, src, u) ==
    \E s \in Samplings(src, u.setting) :
        LET frames == Filtered(s.frames, s.protected, u)
            image == [source |-> src, setting |-> u.setting]
        IN  /\ records[v] = [source |-> src, setting |-> u.setting, frames |-> frames,
                              shots |-> s.protected]
            /\ \A f \in frames : images[v][File(f, u.setting)] = image
            /\ embeddings[v] = [encoder |-> u.encoder, rows |-> [f \in frames |-> image]]

\* A run of the present setup, without --force, would reuse everything.
Trusted(v, src) == Plan(v, src, [setup EXCEPT !.force = FALSE]) = "complete"

\* Frames and vectors that plan_resume takes for complete are those of a clean
\* ingestion of the present file: neither a resumed run, nor one that was
\* interrupted, nor a changed setup leaves a mixture behind a valid manifest.
ResumedFramesAreClean ==
    \A v \in Videos : Trusted(v, source[v]) =>
        CleanFrames(v, source[v], setup) /\ metadata[v].inspected = source[v]

\* Two hypotheses under which it holds whatever happened before.
\* The shots protect no frame from a filter, and filtering again, perhaps with
\* another encoder, is as good as filtering once.
FilterIsStable ==
    \A src \in Sources, s \in DedupSettings :
        /\ Shots[src][s] = {}
        /\ \A d, e \in Encoders :
            Retained(Retained(Periodic[src][s], {}, Similar[d]), {}, Similar[e])
                = Retained(Periodic[src][s], {}, Similar[e])

\* No identity is taken for another because its revision was "default".
OwnRevisions == \A e \in Encoders : Legacy[e] = e

\* A publication publishes, for every video, the vectors of exactly the frames
\* in its payloads, made by the encoder and from images of the setup in force.
PublishedMatchStep ==
    pc = "pick" /\ pc' = "idle" /\ index' # index =>
        \A v \in Videos : index'[v] # None =>
            LET r == index'[v].records
            IN  index'[v].embeddings =
                    [encoder |-> setup.encoder,
                     rows |-> [f \in r.frames |->
                                [source |-> r.source, setting |-> setup.setting]]]
PublishedMatch == [][PublishedMatchStep]_vars

\* A publication agrees with the plan but for the "default" revision.  What a run
\* under the same setup would reuse is published, so ingesting one video does not
\* drop the others, whatever was interrupted; but what it would reuse only because
\* the vectors carry the "default" revision leaves the index that is published.
PublicationKeepsStep ==
    pc = "pick" /\ pc' = "idle" /\ faults' = faults =>
        \A v \in Videos :
            manifest[v] # None /\ ~manifest[v].failed /\ Trusted(v, manifest[v].source) =>
                IF manifest[v].embeddingsFp = Fingerprint(setup)
                THEN index'[v] = Published(v)
                ELSE index' # index => index'[v] = None
PublicationKeeps == [][PublicationKeepsStep]_vars

\* Once faults and replacements end, runs over the directory publish, again and
\* again, a clean index of every video: no interruption leaves a store that a
\* later run cannot complete.
Recovers ==
    []<>(\A v \in Videos :
            CleanFrames(v, source[v], setup) /\ index[v] = Published(v))
=============================================================================
