------------------------ MODULE VideoIngestionProofs ------------------------
(* Theorems about VideoIngestion, for every value of its constants. *)
EXTENDS VideoIngestion, FiniteSetTheorems, TLAPS

-----------------------------------------------------------------------------
(* Types, and what the process knows at each label *)

Sampling == {"image", "decoded count", "records", "frames manifest"}
Embedding == {"encode", "embeddings", "embeddings manifest"}

\* Every image the records of a video name is in the store.
Imaged(v) ==
    /\ records[v] # None
    /\ \A f \in records[v].frames : images[v][File(f, records[v].setting)] # None

CallInv ==
    /\ pc \in {"idle", "pick"} <=> video = None
    /\ video # None => digest # None
    /\ pc = "complete" => manifest[video] # None
    /\ pc \in {"metadata manifest", "clear"} \cup Sampling => metadata[video] # None
    /\ pc \in {"clear"} \cup Sampling \cup Embedding => manifest[video] # None

FramesCallInv ==
    /\ pc \in Sampling => decoded # None
    /\ pc \in Sampling \ {"image"} =>
        \A f \in sampled : images[video][File(f, setup.setting)] # None
    /\ pc = "frames manifest" =>
        /\ records[video] # None
        /\ records[video].setting = setup.setting
        /\ records[video].frames = sampled
    /\ pc \in Embedding => Imaged(video)

TypeInv == TypeOK /\ CallInv /\ FramesCallInv

LEMMA FrameSets ==
    ASSUME NEW fs \in SUBSET Frames
    PROVE  IsFiniteSet(fs) /\ Cardinality(fs) \in Nat
BY FS_Subset, FS_CardinalityType, IngestionAssumption

LEMMA FilteredFrames ==
    ASSUME NEW fs, NEW shielded, NEW u
    PROVE  Filtered(fs, shielded, u) \subseteq fs
BY DEF Filtered, Retained

LEMMA SamplingTypes ==
    ASSUME NEW src \in Sources, NEW s \in Settings, NEW x \in Samplings(src, s)
    PROVE  x.frames \in SUBSET Frames /\ x.protected \in SUBSET Frames
BY IngestionAssumption DEF Samplings

LEMMA PlanTypes ==
    ASSUME NEW v, NEW src, NEW u
    PROVE  /\ Plan(v, src, u) \in Stages
           /\ Plan(v, src, u) # "metadata" =>
                /\ manifest[v] # None
                /\ manifest[v].source = src
                /\ MetadataValid(v)
           /\ Plan(v, src, u) \in {"embeddings", "complete"} => FramesValid(v, u.setting)
           /\ Plan(v, src, u) = "frames" => ~FramesValid(v, u.setting)
           /\ Plan(v, src, u) = "embeddings" =>
                ~EmbeddingsValid(v, u, {Fingerprint(u), <<u.setting, Legacy[u.encoder]>>})
           /\ Plan(v, src, u) = "complete" =>
                EmbeddingsValid(v, u, {Fingerprint(u), <<u.setting, Legacy[u.encoder]>>})
BY DEF Plan, Stages

LEMMA ImageTypes ==
    ASSUME NEW T, NEW im \in [Videos -> [ImageFiles -> T]], NEW v \in Videos, NEW f, NEW x \in T
    PROVE  [im EXCEPT ![v][f] = x] \in [Videos -> [ImageFiles -> T]]
<1>1. [im[v] EXCEPT ![f] = x] \in [ImageFiles -> T]
    OBVIOUS
<1> QED BY <1>1

LEMMA TypeInvInit == Init => TypeInv
<1> SUFFICES ASSUME Init PROVE TypeInv
    OBVIOUS
<1>1. setup \in Setup
    BY DEF Init, Setup
<1>2. TypeOK
    BY <1>1, IngestionAssumption DEF Init, TypeOK, PC
<1>3. CallInv /\ FramesCallInv
    BY DEF Init, CallInv, FramesCallInv, Sampling, Embedding
<1> QED BY <1>2, <1>3 DEF TypeInv

\* A step of ingest_path or ingest_video, one by one.
LEMMA TypeInvNext == TypeInv /\ [Next]_vars => TypeInv'
<1> SUFFICES ASSUME TypeInv, [Next]_vars PROVE TypeInv'
    OBVIOUS
<1> USE DEF TypeInv, store, callVars, Sampling, Embedding
<1>0. /\ TypeOK
      /\ None \notin Videos /\ None \notin Manifest /\ None \notin Metadata
      /\ None \notin Sources /\ None \notin Records
    BY NoneAssumption
<1>stutter. CASE UNCHANGED vars
    BY <1>stutter DEF vars, TypeOK, CallInv, FramesCallInv, Imaged
<1>start. ASSUME NEW vs \in SUBSET Videos, NEW u \in Setup, Start(vs, u) PROVE TypeInv'
    <2>1. past' \subseteq (Videos \X Sources) \cup Settings \cup Encoders
        BY <1>0, <1>start DEF Start, Retire, TypeOK, Setup
    <2>2. TypeOK'
        BY <1>start, <2>1 DEF Start, TypeOK, PC
    <2> QED BY <1>start, <2>2 DEF Start, CallInv, FramesCallInv, Imaged
<1>pick. ASSUME NEW v \in Videos, Pick(v) PROVE TypeInv'
    <2> DEFINE p == Plan(v, source[v], setup)
    <2>1. \/ p = "complete" /\ pc' = "complete"
          \/ p = "metadata" /\ pc' = "metadata"
          \/ p = "frames" /\ pc' = "clear"
          \/ p = "embeddings" /\ pc' = "encode"
        <3>1. p \in Stages
            BY PlanTypes
        <3> HIDE DEF p
        <3> QED BY <1>pick, <3>1 DEF Pick, Stages, p
    <2>2. /\ start' = p /\ p \in Stages
          /\ p # "metadata" => manifest[v] # None /\ metadata[v] # None
          /\ p = "embeddings" => FramesValid(v, setup.setting)
        BY <1>pick, PlanTypes DEF Pick, MetadataValid
    <2>3. video = None /\ video' = v /\ v # None /\ digest' # None
        BY <1>0, <1>pick DEF Pick, CallInv, TypeOK
    <2> HIDE DEF p
    <2>4. TypeOK'
        BY <1>pick, <2>1, <2>2 DEF Pick, TypeOK, PC
    <2>5. CallInv'
        BY <1>pick, <2>1, <2>2, <2>3 DEF Pick, CallInv
    <2>6. p = "embeddings" => Imaged(v)
        BY <2>2 DEF FramesValid, Imaged, File
    <2>7. FramesCallInv'
        BY <1>pick, <2>1, <2>3, <2>6 DEF Pick, FramesCallInv, Imaged
    <2> QED BY <2>4, <2>5, <2>7
<1>in. ASSUME pc \notin {"idle", "pick"}
       PROVE  video \in Videos /\ digest \in Sources
    BY <1>0, <1>in DEF CallInv, TypeOK
<1>forget. ASSUME Forget, pc' \in {"idle", "pick"} PROVE CallInv' /\ FramesCallInv'
    BY <1>forget DEF Forget, CallInv, FramesCallInv
<1>complete. CASE Complete
    <2>1. pc \notin {"idle", "pick"} /\ pc' \in {"idle", "pick"} /\ Forget
        BY <1>complete DEF Complete
    <2>2. manifest[video] \in Manifest /\ video \in Videos
        BY <1>0, <1>in, <1>complete DEF Complete, CallInv, TypeOK
    <2>3. [manifest[video] EXCEPT !.failed = FALSE, !.completed = "embeddings"] \in Manifest
        BY <2>2 DEF Manifest
    <2>4. TypeOK'
        BY <1>complete, <2>3 DEF SaveManifest, Complete, Forget, TypeOK, PC
    <2> QED BY <1>forget, <2>1, <2>4
<1>metadata. CASE SaveMetadata
    <2>1. video \in Videos
        BY <1>in, <1>metadata DEF SaveMetadata
    <2>2. [inspected |-> source[video], decoded |-> None] \in Metadata
        BY <1>0, <2>1 DEF Metadata, TypeOK
    <2>3. TypeOK'
        BY <1>metadata, <2>2 DEF SaveMetadata, TypeOK, PC
    <2>4. metadata'[video] # None
        BY <1>0, <1>metadata, <2>1, <2>2 DEF SaveMetadata, TypeOK
    <2>5. CallInv'
        BY <1>metadata, <2>4 DEF SaveMetadata, CallInv
    <2> QED BY <1>metadata, <2>3, <2>5 DEF SaveMetadata, FramesCallInv
<1>metamanifest. CASE SaveMetadataManifest
    <2> DEFINE m == [Base(digest) EXCEPT !.completed = "metadata", !.metadataFp = TRUE]
    <2>1. video \in Videos /\ digest \in Sources
        BY <1>in, <1>metamanifest DEF SaveMetadataManifest
    <2>2. m \in Manifest
        BY <2>1 DEF Base, Manifest
    <2> HIDE DEF m
    <2>3. manifest' = [manifest EXCEPT ![video] = m]
        BY <1>metamanifest DEF SaveMetadataManifest, SaveManifest, m
    <2>4. TypeOK'
        BY <1>metamanifest, <2>2, <2>3 DEF SaveMetadataManifest, TypeOK, PC
    <2>5. manifest'[video] # None
        BY <1>0, <2>1, <2>2, <2>3 DEF TypeOK
    <2>6. CallInv'
        BY <1>metamanifest, <2>5 DEF SaveMetadataManifest, CallInv
    <2> QED BY <1>metamanifest, <2>4, <2>6 DEF SaveMetadataManifest, FramesCallInv
<1>clear. CASE Clear
    <2> DEFINE T == Image \cup {None}
    <2>0. images \in [Videos -> [ImageFiles -> T]] /\ video \in Videos /\ None \in T
        BY <1>0, <1>in, <1>clear DEF Clear, TypeOK
    <2> HIDE DEF T
    <2>1. TypeOK'
        <3>1. images' \in [Videos -> [ImageFiles -> T]]
            BY <1>clear, <2>0, ImageTypes DEF Clear
        <3> QED BY <1>clear, <3>1 DEF Clear, TypeOK, T
    <2> QED BY <1>clear, <2>1 DEF Clear, CallInv, FramesCallInv
<1>sample. CASE Sample
    <2>1. video \in Videos
        BY <1>in, <1>sample DEF Sample
    <2>2. source[video] \in Sources /\ setup.setting \in Settings
        BY <1>0, <2>1 DEF TypeOK, Setup
    <2>3. sampled' \in SUBSET Frames /\ protected' \in SUBSET Frames /\ decoded' \in Sources
        BY <1>sample, <2>2, SamplingTypes DEF Sample
    <2>4. TypeOK'
        BY <1>sample, <2>3 DEF Sample, TypeOK, PC
    <2>5. CallInv'
        BY <1>sample DEF Sample, CallInv
    <2> QED BY <1>0, <1>sample, <2>3, <2>4, <2>5 DEF Sample, FramesCallInv
<1>image. CASE SaveImage
    <2>1. decoded \in Sources /\ setup.setting \in Settings
        BY <1>0, <1>image DEF SaveImage, FramesCallInv, TypeOK, Setup
    <2>2. images' \in [Videos -> [ImageFiles -> Image \cup {None}]]
        <3> DEFINE T == Image \cup {None}
                   x == [source |-> decoded, setting |-> setup.setting]
                   unsaved == {f \in sampled : images[video][File(f, setup.setting)] = None}
                   f == File(Min(unsaved), setup.setting)
        <3>1. /\ images \in [Videos -> [ImageFiles -> T]]
              /\ video \in Videos
              /\ x \in T
            BY <1>0, <1>in, <1>image, <2>1 DEF SaveImage, TypeOK, Image
        <3>2. \/ images' = images
              \/ images' = [images EXCEPT ![video][f] = x]
            <4>1. CASE unsaved # {}
                BY <1>image, <4>1 DEF SaveImage
            <4>2. CASE unsaved = {}
                BY <1>image, <4>2 DEF SaveImage
            <4> QED BY <4>1, <4>2
        <3> HIDE DEF T, x, f
        <3>3. [images EXCEPT ![video][f] = x] \in [Videos -> [ImageFiles -> T]]
            BY <3>1, ImageTypes
        <3> QED BY <3>1, <3>2, <3>3 DEF T
    <2>3. TypeOK'
        BY <1>image, <2>2 DEF SaveImage, TypeOK, PC
    <2>4. CallInv'
        BY <1>image DEF SaveImage, CallInv
    <2> QED BY <1>image, <2>3, <2>4 DEF SaveImage, FramesCallInv
<1>count. CASE SaveDecodedCount
    <2>1. /\ video \in Videos
          /\ metadata[video] \in Metadata
          /\ decoded \in Sources
        BY <1>0, <1>in, <1>count DEF SaveDecodedCount, CallInv, FramesCallInv, TypeOK
    <2> DEFINE m == [metadata[video] EXCEPT !.decoded = decoded]
    <2>2. m \in Metadata /\ metadata' = [metadata EXCEPT ![video] = m]
        BY <1>count, <2>1 DEF SaveDecodedCount, Metadata
    <2> HIDE DEF m
    <2>3. TypeOK'
        BY <1>count, <2>2 DEF SaveDecodedCount, TypeOK, PC
    <2>4. metadata'[video] # None
        BY <1>0, <2>1, <2>2 DEF TypeOK
    <2>5. CallInv'
        BY <1>count, <2>4 DEF SaveDecodedCount, CallInv
    <2> QED BY <1>count, <2>3, <2>5 DEF SaveDecodedCount, FramesCallInv
<1>records. CASE SaveSampledRecords
    <2> DEFINE r == [source |-> decoded, setting |-> setup.setting, frames |-> sampled,
                     shots |-> protected]
    <2>1. /\ video \in Videos
          /\ r \in Records
          /\ r.setting = setup.setting /\ r.frames = sampled
        BY <1>0, <1>in, <1>records
           DEF SaveSampledRecords, FramesCallInv, TypeOK, Setup, Records
    <2>2. records' = [records EXCEPT ![video] = r]
        BY <1>records DEF SaveSampledRecords
    <2> HIDE DEF r
    <2>3. TypeOK'
        BY <1>records, <2>1, <2>2 DEF SaveSampledRecords, TypeOK, PC
    <2>4. records'[video] = r /\ r # None
        BY <1>0, <2>1, <2>2 DEF TypeOK
    <2>5. CallInv'
        BY <1>records DEF SaveSampledRecords, CallInv
    <2>6. FramesCallInv'
        BY <1>records, <2>1, <2>4 DEF SaveSampledRecords, FramesCallInv
    <2> QED BY <2>3, <2>5, <2>6
<1>framesmanifest. CASE SaveFramesManifest
    <2> DEFINE m == [manifest[video] EXCEPT
                        !.completed = "frames", !.metadataFp = TRUE, !.framesFp = setup.setting,
                        !.sampled = Cardinality(sampled), !.embeddingsFp = None,
                        !.embedded = 0, !.dim = None, !.failed = FALSE]
    <2>1. video \in Videos /\ manifest[video] \in Manifest /\ setup.setting \in Settings
        BY <1>0, <1>in, <1>framesmanifest DEF SaveFramesManifest, CallInv, TypeOK, Setup
    <2>2. Cardinality(sampled) \in Nat
        BY <1>0, FrameSets DEF TypeOK
    <2>3. m \in Manifest
        BY <2>1, <2>2 DEF Manifest
    <2> HIDE DEF m
    <2>4. manifest' = [manifest EXCEPT ![video] = m]
        BY <1>framesmanifest DEF SaveFramesManifest, SaveManifest, m
    <2>5. TypeOK'
        BY <1>framesmanifest, <2>3, <2>4 DEF SaveFramesManifest, TypeOK, PC
    <2>6. manifest'[video] # None
        BY <1>0, <2>1, <2>3, <2>4 DEF TypeOK
    <2>7. CallInv'
        BY <1>framesmanifest, <2>6 DEF SaveFramesManifest, CallInv
    <2>8. FramesCallInv'
        BY <1>framesmanifest DEF SaveFramesManifest, FramesCallInv, Imaged
    <2> QED BY <2>5, <2>7, <2>8
<1>encode. CASE Encode
    <2> DEFINE old == records[video]
               kept == Filtered(old.frames, protected, setup)
               r == [old EXCEPT !.frames = kept, !.shots = @ \cap kept]
    <2>1. video \in Videos /\ old \in Records /\ Imaged(video)
        BY <1>0, <1>in, <1>encode DEF Encode, FramesCallInv, Imaged, TypeOK
    <2>2. kept \subseteq old.frames
        BY FilteredFrames
    <2> HIDE DEF kept
    <2>3. r \in Records /\ r.frames = kept /\ r.setting = old.setting
        BY <2>1, <2>2 DEF Records
    <2>4. records' = [records EXCEPT ![video] = r]
        BY <1>0, <1>encode, <2>1 DEF Encode, kept, TypeOK
    <2> HIDE DEF r
    <2>5. TypeOK'
        BY <1>encode, <2>3, <2>4 DEF Encode, TypeOK, PC
    <2>6. records'[video] = r /\ r # None
        BY <1>0, <2>1, <2>3, <2>4 DEF TypeOK
    <2>7. Imaged(video)'
        BY <1>encode, <2>1, <2>2, <2>3, <2>6 DEF Encode, Imaged, File
    <2>8. CallInv'
        BY <1>encode DEF Encode, CallInv
    <2>9. FramesCallInv'
        BY <1>encode, <2>7 DEF Encode, FramesCallInv, Imaged
    <2> QED BY <2>5, <2>8, <2>9
<1>embeddings. CASE SaveEmbeddings
    <2>1. /\ video \in Videos
          /\ records[video] \in Records
          /\ Imaged(video)
          /\ setup.encoder \in Encoders
        BY <1>0, <1>in, <1>embeddings
           DEF SaveEmbeddings, FramesCallInv, Imaged, TypeOK, Setup
    <2>2. ASSUME NEW f \in records[video].frames
          PROVE  images[video][File(f, records[video].setting)] \in Image
        <3>1. File(f, records[video].setting) \in ImageFiles
            BY <2>1 DEF Records, File, ImageFiles
        <3> QED BY <1>0, <2>1, <3>1 DEF TypeOK, Imaged
    <2>3. Vectors(video) \in Embeddings
        <3> DEFINE fs == records[video].frames
                   rows == [f \in fs |-> images[video][File(f, records[video].setting)]]
        <3>1. fs \in SUBSET Frames
            BY <2>1 DEF Records
        <3>2. rows \in [fs -> Image]
            BY <2>2
        <3>3. rows \in Rows
            BY <3>1, <3>2 DEF Rows
        <3> QED BY <2>1, <3>3 DEF Vectors, Embeddings
    <2>4. TypeOK'
        BY <1>embeddings, <2>3 DEF SaveEmbeddings, TypeOK, PC
    <2> QED BY <1>embeddings, <2>4 DEF SaveEmbeddings, CallInv, FramesCallInv, Imaged
<1>embmanifest. CASE SaveEmbeddingsManifest
    <2> DEFINE n == Cardinality(records[video].frames)
               m == [manifest[video] EXCEPT
                        !.completed = "embeddings", !.embeddingsFp = Fingerprint(setup),
                        !.sampled = n, !.embedded = n,
                        !.dim = Dim[setup.encoder], !.failed = FALSE]
    <2>1. /\ video \in Videos
          /\ manifest[video] \in Manifest
          /\ records[video] \in Records
          /\ setup \in Setup
        BY <1>0, <1>in, <1>embmanifest
           DEF SaveEmbeddingsManifest, CallInv, FramesCallInv, Imaged, TypeOK
    <2>2. n \in Nat
        BY <2>1, FrameSets DEF Records
    <2>3. Fingerprint(setup) \in EmbeddingsFingerprint /\ Dim[setup.encoder] \in {Dim[e] : e \in Encoders}
        BY <2>1 DEF Fingerprint, EmbeddingsFingerprint, Setup
    <2>4. m \in Manifest
        <3> HIDE DEF n
        <3> QED BY <2>1, <2>2, <2>3 DEF Manifest
    <2>5. manifest' = [manifest EXCEPT ![video] = m]
        BY <1>embmanifest DEF SaveEmbeddingsManifest, SaveManifest
    <2> HIDE DEF m
    <2>6. TypeOK'
        BY <1>embmanifest, <2>4, <2>5 DEF SaveEmbeddingsManifest, Forget, TypeOK, PC
    <2> QED BY <1>forget, <1>embmanifest, <2>6 DEF SaveEmbeddingsManifest
<1>published. ASSUME NEW v \in Videos, records[v] # None, embeddings[v] # None
              PROVE  Published(v) \in [records : Records, embeddings : Embeddings]
    BY <1>0, <1>published DEF Published, TypeOK
<1>publish. CASE Publish
    <2>1. index' \in [Videos -> [records : Records, embeddings : Embeddings] \cup {None}]
        BY <1>0, <1>publish, <1>published
           DEF Publish, Compatible, FramesValid, EmbeddingsValid, TypeOK
    <2>2. TypeOK'
        BY <1>publish, <2>1 DEF Publish, TypeOK, PC
    <2> QED BY <1>publish, <2>2 DEF Publish, CallInv, FramesCallInv
<1>index. CASE CommandIndex
    <2>1. index' \in [Videos -> [records : Records, embeddings : Embeddings] \cup {None}]
        BY <1>index, <1>published DEF CommandIndex
    <2>2. TypeOK'
        BY <1>index, <2>1 DEF CommandIndex, TypeOK
    <2> QED BY <1>index, <2>2 DEF CommandIndex, CallInv, FramesCallInv
<1>replace. ASSUME NEW v \in Videos, ReplaceSource(v) PROVE TypeInv'
    <2>1. TypeOK'
        BY <1>0, <1>replace DEF ReplaceSource, TypeOK
    <2> QED BY <1>replace, <2>1 DEF ReplaceSource, CallInv, FramesCallInv, Imaged
<1>unreadable. ASSUME NEW v \in Videos, Unreadable(v) PROVE TypeInv'
    <2>1. TypeOK'
        BY <1>unreadable, IngestionAssumption DEF Unreadable, TypeOK
    <2> QED BY <1>unreadable, <2>1 DEF Unreadable, CallInv, FramesCallInv, Imaged
<1>raise. CASE Raise
    <2> DEFINE latest == IF manifest[video] = None THEN Base(digest) ELSE manifest[video]
               m == [latest EXCEPT !.failed = TRUE]
    <2>1. video \in Videos /\ digest \in Sources
        BY <1>0, <1>raise DEF Raise, CallInv, TypeOK
    <2>2. latest \in Manifest
        BY <1>0, <2>1 DEF TypeOK, Base, Manifest
    <2>3. m \in Manifest
        <3> HIDE DEF latest
        <3> QED BY <2>2 DEF Manifest
    <2>4. manifest' = [manifest EXCEPT ![video] = m]
        BY <1>raise DEF Raise, SaveManifest
    <2> HIDE DEF m
    <2>5. faults' \in 0..MaxFaults /\ todo' \subseteq Videos
        BY <1>0, <1>raise, IngestionAssumption DEF Raise, TypeOK
    <2>6. TypeOK'
        BY <1>raise, <2>3, <2>4, <2>5 DEF Raise, Forget, TypeOK, PC
    <2> QED BY <1>forget, <1>raise, <2>6 DEF Raise
<1>crash. CASE Crash
    <2>1. faults' \in 0..MaxFaults
        BY <1>0, <1>crash, IngestionAssumption DEF Crash, TypeOK
    <2>2. TypeOK'
        BY <1>crash, <2>1 DEF Crash, Forget, TypeOK, PC
    <2> QED BY <1>forget, <1>crash, <2>2 DEF Crash
<1> QED
    BY <1>stutter, <1>start, <1>pick, <1>complete, <1>metadata, <1>metamanifest, <1>clear,
       <1>sample, <1>image, <1>count, <1>records, <1>framesmanifest, <1>encode, <1>embeddings,
       <1>embmanifest, <1>publish, <1>index, <1>replace, <1>unreadable, <1>raise, <1>crash
       DEF Next, Step

\* Every variable of the ingestion stays in its type, for any number of videos,
\* contents, settings and encoders, and whatever is interrupted or replaced.
THEOREM TypeCorrect == Spec => []TypeOK
<1>1. Spec => []TypeInv
    BY TypeInvInit, TypeInvNext, PTL DEF Spec
<1> QED BY <1>1, PTL DEF TypeInv

-----------------------------------------------------------------------------
(* What is trusted on resume, when nothing that was replaced comes back *)

\* The present contents, setting and encoder were never replaced,
FreshInv ==
    /\ \A v \in Videos : <<v, source[v]>> \notin past
    /\ setup.setting \notin past
    /\ setup.encoder \notin past

\* and what a manifest or a call names is present or was replaced.
SeenManifest(v) ==
    manifest[v] # None =>
        /\ manifest[v].source = source[v] \/ <<v, manifest[v].source>> \in past
        /\ manifest[v].framesFp \in {None, setup.setting} \cup past
        /\ \/ manifest[v].embeddingsFp = None
           \/ manifest[v].embeddingsFp[2] \in {setup.encoder} \cup past

SeenCall == video # None => digest = source[video] \/ <<video, digest>> \in past

\* A manifest that a run of the present setup would believe: of the present
\* file, of the present setting, and of the present encoder.
Vouched(v) == manifest[v] # None /\ manifest[v].source = source[v]
FramesVouched(v) == Vouched(v) /\ manifest[v].framesFp = setup.setting
EmbeddingsVouched(v) == FramesVouched(v) /\ manifest[v].embeddingsFp = Fingerprint(setup)

\* The records and images are those of one sampling of the present file,
\* filtered perhaps by one encoder; images may be missing.
RecordsOf(v, s, frames) ==
    records[v] = [source |-> source[v], setting |-> setup.setting, frames |-> frames,
                  shots |-> s.protected]

SampledFrames(v) ==
    /\ \E s \in Samplings(source[v], setup.setting) :
        \/ RecordsOf(v, s, s.frames)
        \/ /\ setup.setting \in DedupSettings
           /\ \E e \in Encoders : RecordsOf(v, s, Retained(s.frames, {}, Similar[e]))
    /\ \A f \in ImageFiles :
        images[v][f] \in {None, [source |-> source[v], setting |-> setup.setting]}

\* The records are those an uninterrupted run of the present setup would leave.
FilteredFramesOf(v) ==
    \E s \in Samplings(source[v], setup.setting) :
        RecordsOf(v, s, Filtered(s.frames, s.protected, setup))

\* What is vouched for is right.
MetadataRight(v) ==
    Vouched(v) /\ MetadataValid(v) => metadata[v].inspected = source[v]

FramesRight(v) == FramesVouched(v) => SampledFrames(v)

EmbeddingsRight(v) ==
    EmbeddingsVouched(v) =>
        /\ CleanFrames(v, source[v], setup)
        /\ manifest[v].sampled = Cardinality(records[v].frames)
        /\ manifest[v].embedded = Cardinality(records[v].frames)
        /\ manifest[v].dim = Dim[setup.encoder]

VideoInv(v) == SeenManifest(v) /\ MetadataRight(v) /\ FramesRight(v) /\ EmbeddingsRight(v)

\* What the call has found out so far, in a call whose file was not replaced.
Live == video # None /\ digest = source[video]

ProtectedInv ==
    /\ video = None => protected = {}
    /\ setup.setting \in DedupSettings => protected = {}

StageInv ==
    /\ pc \in {"clear"} \cup Sampling \cup Embedding =>
        manifest[video].source = digest /\ manifest[video].metadataFp
    /\ Live /\ pc \in {"clear"} \cup Sampling \cup Embedding => ~EmbeddingsVouched(video)
    /\ Live /\ pc = "metadata manifest" => metadata[video].inspected = source[video]
    /\ Live /\ pc \in Sampling => decoded = source[video]
    /\ pc \in Sampling =>
        /\ [frames |-> sampled, protected |-> protected] \in Samplings(decoded, setup.setting)
        /\ \A f \in ImageFiles :
            images[video][f] \in {None, [source |-> decoded, setting |-> setup.setting]}
    /\ pc = "frames manifest" =>
        records[video] = [source |-> decoded, setting |-> setup.setting, frames |-> sampled,
                          shots |-> protected]
    /\ pc \in Embedding => manifest[video].framesFp = setup.setting
    /\ Live /\ pc \in Embedding \ {"encode"} => FilteredFramesOf(video)
    /\ pc = "embeddings manifest" => embeddings[video] = Vectors(video)

CleanInv ==
    /\ FreshInv
    /\ SeenCall
    /\ \A v \in Videos : VideoInv(v)
    /\ ProtectedInv
    /\ StageInv

LEMMA CleanInvInit == Init => CleanInv
<1> SUFFICES ASSUME Init PROVE CleanInv
    OBVIOUS
<1>1. \A v \in Videos : VideoInv(v)
    BY DEF Init, VideoInv, SeenManifest, MetadataRight, FramesRight, EmbeddingsRight,
           EmbeddingsVouched, FramesVouched, Vouched
<1>2. FreshInv /\ SeenCall /\ ProtectedInv
    BY DEF Init, FreshInv, SeenCall, ProtectedInv
<1>3. StageInv
    BY DEF Init, StageInv, Sampling, Embedding, Live
<1> QED BY <1>1, <1>2, <1>3 DEF CleanInv

\* What nothing changes stays right, whether or not a failure is recorded.
SameManifestFields(v) ==
    /\ manifest'[v] = None <=> manifest[v] = None
    /\ manifest[v] # None =>
        /\ manifest'[v].source = manifest[v].source
        /\ manifest'[v].metadataFp = manifest[v].metadataFp
        /\ manifest'[v].framesFp = manifest[v].framesFp
        /\ manifest'[v].embeddingsFp = manifest[v].embeddingsFp
        /\ manifest'[v].sampled = manifest[v].sampled
        /\ manifest'[v].embedded = manifest[v].embedded
        /\ manifest'[v].dim = manifest[v].dim

LEMMA VideoKept ==
    ASSUME NEW v \in Videos, VideoInv(v), SameManifestFields(v),
           past \subseteq past',
           UNCHANGED <<source[v], setup, metadata[v], records[v], images[v], embeddings[v]>>
    PROVE  VideoInv(v)'
<1>1. SeenManifest(v)' /\ MetadataRight(v)'
    BY DEF VideoInv, SeenManifest, MetadataRight, Vouched, MetadataValid, SameManifestFields
<1>2. FramesVouched(v)' = FramesVouched(v) /\ EmbeddingsVouched(v)' = EmbeddingsVouched(v)
    BY DEF EmbeddingsVouched, FramesVouched, Vouched, SameManifestFields
<1>3. SampledFrames(v)' = SampledFrames(v)
    BY DEF SampledFrames, RecordsOf
<1>4. CleanFrames(v, source[v], setup)' = CleanFrames(v, source[v], setup)
    BY DEF CleanFrames
<1>5. EmbeddingsVouched(v) => manifest[v] # None
    BY DEF EmbeddingsVouched, FramesVouched, Vouched
<1> QED BY <1>1, <1>2, <1>3, <1>4, <1>5
        DEF VideoInv, FramesRight, EmbeddingsRight, SameManifestFields

\* A step of the call changes nothing of the other videos.
LEMMA OthersKept ==
    ASSUME TypeInv, Step \/ Raise \/ Crash \/ CommandIndex, NEW v \in Videos, v # video
    PROVE  UNCHANGED <<source, setup, past, metadata[v], records[v], images[v], embeddings[v],
                       manifest[v]>>
<1> USE DEF store
<1>0. TypeOK
    BY DEF TypeInv
<1>1. ASSUME NEW m, SaveManifest(m) PROVE manifest'[v] = manifest[v]
    BY <1>0, <1>1 DEF SaveManifest, TypeOK
<1>2. CASE \/ \E w \in Videos : Pick(w)
           \/ Sample \/ Publish \/ Crash \/ CommandIndex
    BY <1>2 DEF Pick, Sample, Publish, Crash, CommandIndex
<1>3. CASE Complete
    BY <1>1, <1>3 DEF Complete
<1>4. CASE SaveMetadataManifest
    BY <1>1, <1>4 DEF SaveMetadataManifest
<1>5. CASE SaveFramesManifest
    BY <1>1, <1>5 DEF SaveFramesManifest
<1>6. CASE SaveEmbeddingsManifest
    BY <1>1, <1>6 DEF SaveEmbeddingsManifest
<1>7. CASE Raise
    BY <1>1, <1>7 DEF Raise
<1>8. CASE SaveMetadata \/ SaveDecodedCount
    BY <1>0, <1>8 DEF SaveMetadata, SaveDecodedCount, TypeOK
<1>9. CASE SaveSampledRecords \/ Encode
    BY <1>0, <1>9 DEF SaveSampledRecords, Encode, TypeOK
<1>10. CASE SaveEmbeddings
    BY <1>0, <1>10 DEF SaveEmbeddings, TypeOK
<1>11. CASE Clear \/ SaveImage
    <2>1. images'[v] = images[v]
        BY <1>0, <1>11 DEF Clear, SaveImage, TypeOK
    <2> QED BY <1>11, <2>1 DEF Clear, SaveImage
<1> QED
    BY <1>2, <1>3, <1>4, <1>5, <1>6, <1>7, <1>8, <1>9, <1>10, <1>11 DEF Step

\* What is vouched for passes the validation.
LEMMA VouchedIsValid ==
    ASSUME TypeInv, NEW v \in Videos, VideoInv(v), EmbeddingsVouched(v), NEW x
    PROVE  /\ FramesValid(v, setup.setting)
           /\ EmbeddingsValid(v, setup, {Fingerprint(setup), x})
<1> DEFINE image == [source |-> source[v], setting |-> setup.setting]
<1>1. /\ CleanFrames(v, source[v], setup)
      /\ manifest[v].sampled = Cardinality(records[v].frames)
      /\ manifest[v].embedded = Cardinality(records[v].frames)
      /\ manifest[v].dim = Dim[setup.encoder]
    BY DEF VideoInv, EmbeddingsRight
<1>2. PICK s \in Samplings(source[v], setup.setting) :
        LET frames == Filtered(s.frames, s.protected, setup)
        IN  /\ records[v] = [source |-> source[v], setting |-> setup.setting,
                              frames |-> frames, shots |-> s.protected]
            /\ \A f \in frames : images[v][File(f, setup.setting)] = image
            /\ embeddings[v] = [encoder |-> setup.encoder, rows |-> [f \in frames |-> image]]
    BY <1>1 DEF CleanFrames
<1> DEFINE frames == Filtered(s.frames, s.protected, setup)
<1>3. source[v] \in Sources /\ setup.setting \in Settings /\ setup.encoder \in Encoders
    BY DEF TypeInv, TypeOK, Setup
<1>4. frames \in SUBSET Frames /\ s.protected \in SUBSET Frames
    BY <1>3, SamplingTypes, FilteredFrames
<1> HIDE DEF frames
<1>5. records[v] \in Records
    BY <1>2, <1>3, <1>4 DEF Records, frames
<1>6. image \in Image /\ image # None
    BY <1>3, NoneAssumption DEF Image
<1>7. embeddings[v] \in Embeddings
    <2>1. [f \in frames |-> image] \in Rows
        BY <1>4, <1>6 DEF Rows
    <2> QED BY <1>2, <1>3, <2>1 DEF Embeddings, frames
<1>8. records[v] # None /\ embeddings[v] # None
    BY <1>5, <1>7, NoneAssumption
<1>9. /\ records[v].frames = frames /\ records[v].setting = setup.setting
      /\ records[v].source = source[v]
      /\ embeddings[v].encoder = setup.encoder /\ DOMAIN embeddings[v].rows = frames
    BY <1>2 DEF frames
<1>10. \A f \in frames : images[v][File(f, setup.setting)] = image
    BY <1>2 DEF frames
<1>11. FramesValid(v, setup.setting)
    <2> HIDE DEF image
    <2>1. image.source = source[v]
        BY DEF image
    <2> QED BY <1>1, <1>6, <1>8, <1>9, <1>10, <2>1
            DEF FramesValid, EmbeddingsVouched, FramesVouched
<1>12. EmbeddingsValid(v, setup, {Fingerprint(setup), x})
    BY <1>1, <1>8, <1>9 DEF EmbeddingsValid, EmbeddingsVouched
<1> QED BY <1>11, <1>12

\* A call under way has not yet what it would vouch for.
LEMMA NotYetVouched ==
    ASSUME CleanInv, TypeInv, pc \in {"clear"} \cup Sampling \cup Embedding
    PROVE  ~EmbeddingsVouched(video)
BY DEF CleanInv, StageInv, Live, TypeInv, CallInv, Sampling, Embedding,
       EmbeddingsVouched, FramesVouched, Vouched

\* A step of the run keeps the invariant if it keeps what it is about.
LEMMA RunStep ==
    ASSUME TypeInv, CleanInv, Step \/ Raise \/ Crash \/ CommandIndex,
           \A v \in Videos : v = video => VideoInv(v)'
    PROVE  FreshInv' /\ \A v \in Videos : VideoInv(v)'
<1>1. UNCHANGED <<source, setup, past>>
    BY DEF Step, Raise, Crash, CommandIndex, Pick, Complete, SaveMetadata,
           SaveMetadataManifest, Clear, Sample, SaveImage, SaveDecodedCount,
           SaveSampledRecords, SaveFramesManifest, Encode, SaveEmbeddings,
           SaveEmbeddingsManifest, Publish
<1>2. FreshInv'
    BY <1>1 DEF CleanInv, FreshInv
<1>3. ASSUME NEW v \in Videos, v # video PROVE VideoInv(v)'
    <2>1. UNCHANGED <<source, setup, past, metadata[v], records[v], images[v], embeddings[v],
                      manifest[v]>>
        BY <1>3, OthersKept
    <2>2. SameManifestFields(v)
        BY <2>1 DEF SameManifestFields
    <2>3. VideoInv(v)
        BY DEF CleanInv
    <2> QED BY <2>1, <2>2, <2>3, VideoKept
<1> QED BY <1>2, <1>3

\* The call ends.
LEMMA CallEnds ==
    ASSUME Forget, pc' \in {"idle", "pick"}
    PROVE  SeenCall' /\ ProtectedInv' /\ StageInv'
BY DEF Forget, SeenCall, ProtectedInv, StageInv, Sampling, Embedding, Live

\* Encoding the records of a sampling leaves those an uninterrupted run would.
LEMMA EncodedFrames ==
    ASSUME NEW src \in Sources, NEW u \in Setup, FilterIsStable,
           NEW s \in Samplings(src, u.setting), NEW fs, NEW shielded,
           \/ fs = s.frames
           \/ /\ u.setting \in DedupSettings
              /\ \E d \in Encoders : fs = Retained(s.frames, {}, Similar[d]),
           u.setting \in DedupSettings => shielded = {}
    PROVE  /\ Filtered(fs, shielded, u) = Filtered(s.frames, s.protected, u)
           /\ s.protected \cap Filtered(fs, shielded, u) = s.protected
           /\ u.setting \in DedupSettings => s.protected = {}
<1>0. u.setting \in Settings /\ u.encoder \in Encoders
    BY DEF Setup
<1>1. CASE u.setting \notin DedupSettings
    <2>1. s.protected \subseteq s.frames
        BY DEF Samplings
    <2> QED BY <1>1, <2>1 DEF Filtered
<1>2. CASE u.setting \in DedupSettings
    <2>1. Shots[src][u.setting] = {}
        BY <1>2 DEF FilterIsStable
    <2>2. s.protected = {} /\ s.frames = Periodic[src][u.setting]
        BY <2>1 DEF Samplings
    <2>3. Retained(fs, {}, Similar[u.encoder]) = Retained(s.frames, {}, Similar[u.encoder])
        BY <1>0, <1>2, <2>2 DEF FilterIsStable
    <2> QED BY <1>2, <2>2, <2>3 DEF Filtered
<1> QED BY <1>1, <1>2

LEMMA RecordFields ==
    /\ \A r, a, b, c, d : r = [source |-> a, setting |-> b, frames |-> c, shots |-> d] =>
            r.source = a /\ r.setting = b /\ r.frames = c /\ r.shots = d
    /\ \A r \in Records : r = [source |-> r.source, setting |-> r.setting,
                               frames |-> r.frames, shots |-> r.shots]
BY DEF Records

LEMMA EncodingKeeps ==
    ASSUME TypeInv, CleanInv, FilterIsStable, Encode,
           NEW v \in Videos, v = video, FramesVouched(v)
    PROVE  /\ FilteredFramesOf(v)'
           /\ SampledFrames(v)'
<1> USE DEF store, callVars
<1> DEFINE src == source[v]
           fs == records[v].frames
           kept == Filtered(fs, protected, setup)
<1>1. /\ src \in Sources /\ setup \in Setup
      /\ records \in [Videos -> Records \cup {None}]
      /\ SampledFrames(v)
      /\ setup.setting \in DedupSettings => protected = {}
    BY DEF Encode, TypeInv, TypeOK, CallInv, CleanInv, ProtectedInv, VideoInv, FramesRight
<1>2. PICK s \in Samplings(src, setup.setting) :
        \/ RecordsOf(v, s, s.frames)
        \/ /\ setup.setting \in DedupSettings
           /\ \E e \in Encoders : RecordsOf(v, s, Retained(s.frames, {}, Similar[e]))
    BY <1>1 DEF SampledFrames
<1>3. /\ \/ fs = s.frames
         \/ /\ setup.setting \in DedupSettings
            /\ \E d \in Encoders : fs = Retained(s.frames, {}, Similar[d])
      /\ records[v] = [source |-> src, setting |-> setup.setting, frames |-> fs,
                           shots |-> s.protected]
    <2>1. ASSUME NEW g, RecordsOf(v, s, g)
          PROVE  fs = g /\ records[v] = [source |-> src, setting |-> setup.setting,
                                         frames |-> fs, shots |-> s.protected]
        BY <2>1 DEF RecordsOf
    <2> HIDE DEF fs
    <2> QED BY <1>2, <2>1
<1>4. /\ kept = Filtered(s.frames, s.protected, setup)
      /\ s.protected \cap kept = s.protected
      /\ setup.setting \in DedupSettings => s.protected = {}
    <2> HIDE DEF src, fs
    <2>1. s \in Samplings(src, setup.setting)
        OBVIOUS
    <2> QED BY <1>1, <1>3, <2>1, EncodedFrames
<1> HIDE DEF kept
<1>r. records[v] \in Records
    BY <1>1 DEF TypeInv, FramesCallInv, Imaged, Embedding, Encode
<1>5. records'[v] = [records[v] EXCEPT !.frames = kept, !.shots = @ \cap kept]
    <2>1. records' = [records EXCEPT ![v].frames = kept, ![v].shots = @ \cap kept]
        BY DEF Encode, kept
    <2> QED BY <1>1, <1>r, <2>1 DEF Records
<1>6. records'[v] = [source |-> src, setting |-> setup.setting, frames |-> kept,
                         shots |-> s.protected]
    <2> HIDE DEF src, fs
    <2> DEFINE r == [records[v] EXCEPT !.frames = kept, !.shots = @ \cap kept]
    <2>1. records[v].source = src /\ records[v].setting = setup.setting
          /\ records[v].shots = s.protected
        BY <1>3, RecordFields
    <2>2. kept \in SUBSET Frames
        BY <1>r, FilteredFrames DEF Records, fs, kept
    <2>3. /\ r \in Records
          /\ r.source = src /\ r.setting = setup.setting /\ r.frames = kept
          /\ r.shots = s.protected
        BY <1>r, <1>4, <2>1, <2>2 DEF Records
    <2> HIDE DEF r
    <2>4. r = [source |-> src, setting |-> setup.setting, frames |-> kept,
               shots |-> s.protected]
        BY <2>3, RecordFields
    <2> QED BY <1>5, <2>4 DEF r
<1>7. FilteredFramesOf(v)'
    BY <1>4, <1>6 DEF Encode, FilteredFramesOf, RecordsOf
<1>8. kept = s.frames \/ /\ setup.setting \in DedupSettings
                         /\ kept = Retained(s.frames, {}, Similar[setup.encoder])
    BY <1>4 DEF Filtered
<1>9. setup.encoder \in Encoders
    BY <1>1 DEF Setup
<1>10. SampledFrames(v)'
    BY <1>1, <1>6, <1>8, <1>9 DEF Encode, SampledFrames, RecordsOf
<1> QED BY <1>7, <1>10

\* The vectors saved under a live call are those of an uninterrupted run.
LEMMA EmbeddedFrames ==
    ASSUME TypeInv, CleanInv, pc = "embeddings manifest", Live, FramesVouched(video)
    PROVE  CleanFrames(video, source[video], setup)
<1> DEFINE image == [source |-> source[video], setting |-> setup.setting]
<1>1. /\ video \in Videos /\ setup \in Setup /\ source[video] \in Sources
      /\ FilteredFramesOf(video) /\ embeddings[video] = Vectors(video)
      /\ SampledFrames(video) /\ Imaged(video)
    BY NoneAssumption DEF CleanInv, StageInv, VideoInv, FramesRight, Embedding, Live, TypeInv,
       TypeOK, CallInv, FramesCallInv
<1>2. PICK s \in Samplings(source[video], setup.setting) :
        RecordsOf(video, s, Filtered(s.frames, s.protected, setup))
    BY <1>1 DEF FilteredFramesOf
<1> DEFINE fs == Filtered(s.frames, s.protected, setup)
<1>3. fs \in SUBSET Frames
    BY <1>1, SamplingTypes, FilteredFrames DEF Setup
<1> HIDE DEF fs
<1>4. records[video] = [source |-> source[video], setting |-> setup.setting,
                        frames |-> fs, shots |-> s.protected]
    BY <1>2 DEF RecordsOf, fs
<1>r. records[video].frames = fs /\ records[video].setting = setup.setting
    <2> DEFINE src == source[video]
               st == setup.setting
               sh == s.protected
               r == records[video]
    <2>1. r = [source |-> src, setting |-> st, frames |-> fs, shots |-> sh]
        BY <1>4
    <2> HIDE DEF src, st, sh, r
    <2>2. r.frames = fs /\ r.setting = st
        BY <2>1, RecordFields
    <2> QED BY <2>2 DEF r, st
<1>5. ASSUME NEW f \in fs PROVE images[video][File(f, setup.setting)] = image
    <2>1. File(f, setup.setting) \in ImageFiles
        BY <1>1, <1>3 DEF File, ImageFiles, Setup
    <2>2. images[video][File(f, setup.setting)] # None
        BY <1>1, <1>r DEF Imaged
    <2> QED BY <1>1, <2>1, <2>2 DEF SampledFrames
<1>6. embeddings[video] = [encoder |-> setup.encoder, rows |-> [f \in fs |-> image]]
    <2> HIDE DEF image
    <2> QED BY <1>1, <1>r, <1>5 DEF Vectors
<1> QED BY <1>4, <1>5, <1>6 DEF CleanFrames, fs

\* A step of a call on v leaves it right, action by action.
LEMMA CallKeepsVideo ==
    ASSUME TypeInv, TypeInv', CleanInv, NEW v \in Videos, v = video,
           Step \/ Raise \/ Crash \/ CommandIndex, FilterIsStable
    PROVE  VideoInv(v)'
<1> USE DEF store, callVars, Sampling, Embedding
<1>0. /\ TypeOK /\ CallInv /\ FramesCallInv /\ VideoInv(v) /\ StageInv /\ SeenCall
      /\ UNCHANGED <<source, setup, past>>
      /\ v # None
    BY NoneAssumption
       DEF TypeInv, CleanInv, Step, Raise, Crash, CommandIndex, Pick, Complete, SaveMetadata,
           SaveMetadataManifest, Clear, Sample, SaveImage, SaveDecodedCount,
           SaveSampledRecords, SaveFramesManifest, Encode, SaveEmbeddings,
           SaveEmbeddingsManifest, Publish
<1>1. ASSUME manifest'[v] = manifest[v] PROVE SameManifestFields(v) /\ SeenManifest(v)'
    BY <1>0, <1>1 DEF SameManifestFields, VideoInv, SeenManifest
<1>2. ASSUME UNCHANGED store PROVE VideoInv(v)'
    BY <1>0, <1>1, <1>2, VideoKept
<1>3. CASE \/ \E w \in Videos : Pick(w)
           \/ Sample \/ Publish \/ Crash \/ CommandIndex
    BY <1>2, <1>3 DEF Pick, Sample, Publish, Crash, CommandIndex
<1>4. CASE Complete
    <2>1. manifest[v] \in Manifest /\ manifest[v] # None
        BY <1>0, <1>4 DEF Complete, CallInv, TypeOK
    <2>2. SameManifestFields(v)
        <3>1. \/ manifest'[v] = manifest[v]
              \/ manifest'[v] = [manifest[v] EXCEPT !.failed = FALSE, !.completed = "embeddings"]
            BY <1>0, <1>4 DEF Complete, SaveManifest, TypeOK
        <3>2. [manifest[v] EXCEPT !.failed = FALSE, !.completed = "embeddings"] \in Manifest
            BY <2>1 DEF Manifest
        <3>3. manifest'[v] # None
            BY <2>1, <3>1, <3>2, NoneAssumption
        <3> QED BY <2>1, <3>1, <3>3 DEF SameManifestFields, Manifest
    <2> QED BY <1>0, <1>4, <2>2, VideoKept DEF Complete
<1>5. ASSUME UNCHANGED <<records, images, embeddings, manifest>>, MetadataRight(v)'
      PROVE  VideoInv(v)'
    <2>1. SampledFrames(v)' = SampledFrames(v)
        BY <1>0, <1>5 DEF SampledFrames, RecordsOf
    <2>2. CleanFrames(v, source[v], setup)' = CleanFrames(v, source[v], setup)
        BY <1>0, <1>5 DEF CleanFrames
    <2> QED BY <1>0, <1>1, <1>5, <2>1, <2>2
            DEF VideoInv, FramesRight, EmbeddingsRight, EmbeddingsVouched, FramesVouched, Vouched
<1>6. CASE SaveMetadata
    <2>1. metadata'[v] = [inspected |-> source[v], decoded |-> None]
        BY <1>0, <1>6 DEF SaveMetadata, TypeOK
    <2>2. MetadataRight(v)'
        BY <1>0, <2>1 DEF MetadataRight
    <2> QED BY <1>5, <1>6, <2>2 DEF SaveMetadata
<1>7. CASE SaveDecodedCount
    <2>1. metadata'[v].inspected = metadata[v].inspected /\ metadata[v] # None
        <3>1. metadata[v] \in Metadata
            BY <1>0, <1>7 DEF SaveDecodedCount, CallInv, TypeOK
        <3>2. metadata'[v] = [metadata[v] EXCEPT !.decoded = decoded]
            BY <1>0, <1>7 DEF SaveDecodedCount, TypeOK
        <3> QED BY <1>0, <1>7, <3>1, <3>2 DEF SaveDecodedCount, CallInv, Metadata
    <2>2. MetadataRight(v)'
        BY <1>0, <1>7, <2>1
           DEF SaveDecodedCount, VideoInv, MetadataRight, MetadataValid, Vouched
    <2> QED BY <1>5, <1>7, <2>2 DEF SaveDecodedCount
\* The manifest keeps vouching for the frames, not for the embeddings.
<1>8. ASSUME pc \in {"clear"} \cup Sampling \cup Embedding, UNCHANGED <<metadata, manifest>>,
             Live => SampledFrames(v)' \/ ~FramesVouched(v)
      PROVE  VideoInv(v)'
    <2>1. ~EmbeddingsVouched(v)
        BY <1>8, NotYetVouched
    <2>2. MetadataRight(v)'
        BY <1>0, <1>8 DEF VideoInv, MetadataRight, MetadataValid, Vouched
    <2>3. FramesVouched(v)' => FramesVouched(v)
        BY <1>0, <1>8 DEF FramesVouched, Vouched
    <2>4. FramesVouched(v) => Live
        BY <1>0, <1>8 DEF StageInv, Live, FramesVouched, Vouched
    <2>5. ~EmbeddingsVouched(v)'
        BY <1>0, <1>8, <2>1 DEF EmbeddingsVouched, FramesVouched, Vouched
    <2> QED BY <1>0, <1>1, <1>8, <2>2, <2>3, <2>4, <2>5
            DEF VideoInv, FramesRight, EmbeddingsRight
<1>9. CASE SaveMetadataManifest
    <2> DEFINE m == [Base(digest) EXCEPT !.completed = "metadata", !.metadataFp = TRUE]
    <2>1. m.source = digest /\ m.framesFp = None /\ m.embeddingsFp = None
        BY DEF Base
    <2> HIDE DEF m
    <2>2. manifest'[v] = m
        BY <1>0, <1>9 DEF SaveMetadataManifest, SaveManifest, TypeOK, m
    <2>3. SeenManifest(v)'
        BY <1>0, <2>1, <2>2 DEF SeenManifest, SeenCall
    <2>4. MetadataRight(v)'
        BY <1>0, <1>9, <2>1, <2>2
           DEF SaveMetadataManifest, MetadataRight, Vouched, StageInv, Live
    <2>5. ~FramesVouched(v)'
        <3>1. setup.setting # None
            BY <1>0, NoneAssumption DEF TypeOK, Setup
        <3> QED BY <1>0, <2>1, <2>2, <3>1 DEF FramesVouched
    <2> QED BY <2>3, <2>4, <2>5 DEF VideoInv, FramesRight, EmbeddingsRight, EmbeddingsVouched
<1> DEFINE image == [source |-> source[v], setting |-> setup.setting]
<1>10. CASE Clear
    <2>1. PICK f \in ImageFiles : images' = [images EXCEPT ![video][f] = None]
        BY <1>10 DEF Clear
    <2>2. \A g \in ImageFiles : images'[v][g] \in {None, images[v][g]}
        BY <1>0, <2>1 DEF TypeOK
    <2>3. FramesVouched(v) => SampledFrames(v)'
        BY <1>0, <1>10, <2>2 DEF Clear, VideoInv, FramesRight, SampledFrames, RecordsOf
    <2> QED BY <1>8, <1>10, <2>3 DEF Clear
<1>11. CASE SaveImage
    <2> DEFINE x == [source |-> decoded, setting |-> setup.setting]
               unsaved == {f \in sampled : images[video][File(f, setup.setting)] = None}
               h == File(Min(unsaved), setup.setting)
    <2>1. images' = images \/ images' = [images EXCEPT ![video][h] = x]
        <3>1. CASE unsaved # {}
            BY <1>11, <3>1 DEF SaveImage
        <3>2. CASE unsaved = {}
            BY <1>11, <3>2 DEF SaveImage
        <3> QED BY <3>1, <3>2
    <2>2. Live => x = image
        BY <1>0, <1>11 DEF SaveImage, StageInv
    <2> HIDE DEF x, h
    <2>3. \A g \in ImageFiles : images'[v][g] \in {x, images[v][g]}
        BY <1>0, <2>1 DEF TypeOK
    <2>4. Live /\ FramesVouched(v) => SampledFrames(v)'
        BY <1>0, <1>11, <2>2, <2>3
           DEF SaveImage, VideoInv, FramesRight, SampledFrames, RecordsOf
    <2> QED BY <1>8, <1>11, <2>4 DEF SaveImage
<1>12. CASE SaveSampledRecords
    <2>1. records'[v] = [source |-> decoded, setting |-> setup.setting, frames |-> sampled,
                         shots |-> protected]
        BY <1>0, <1>12 DEF SaveSampledRecords, TypeOK
    <2>2. Live => decoded = source[v]
        BY <1>0, <1>12 DEF SaveSampledRecords, StageInv
    <2>3. PICK smp \in Samplings(decoded, setup.setting) :
                smp.frames = sampled /\ smp.protected = protected
        BY <1>0, <1>12 DEF SaveSampledRecords, StageInv
    <2>i. \A f \in ImageFiles :
            images[v][f] \in {None, [source |-> decoded, setting |-> setup.setting]}
        BY <1>0, <1>12 DEF SaveSampledRecords, StageInv
    <2>4. Live => SampledFrames(v)'
        <3>1. Live => RecordsOf(v, smp, smp.frames)'
            BY <1>0, <1>12, <2>1, <2>2, <2>3 DEF SaveSampledRecords, RecordsOf
        <3>2. Live => smp \in Samplings(source[v], setup.setting)'
            BY <1>0, <2>2, <2>3 DEF Samplings
        <3> QED BY <1>0, <1>12, <2>2, <2>i, <3>1, <3>2 DEF SaveSampledRecords, SampledFrames
    <2> QED BY <1>8, <1>12, <2>4 DEF SaveSampledRecords
<1>13. CASE SaveFramesManifest
    <2> DEFINE m == [manifest[v] EXCEPT
                        !.completed = "frames", !.metadataFp = TRUE, !.framesFp = setup.setting,
                        !.sampled = Cardinality(sampled), !.embeddingsFp = None,
                        !.embedded = 0, !.dim = None, !.failed = FALSE]
    <2>1. manifest[v] \in Manifest /\ manifest[v] # None
        BY <1>0, <1>13 DEF SaveFramesManifest, CallInv, TypeOK
    <2>2. /\ m.source = manifest[v].source /\ m.framesFp = setup.setting
          /\ m.embeddingsFp = None /\ m.metadataFp
        BY <2>1 DEF Manifest
    <2> HIDE DEF m
    <2>3. manifest'[v] = m
        BY <1>0, <1>13 DEF SaveFramesManifest, SaveManifest, TypeOK, m
    <2>4. manifest[v].source = digest /\ manifest[v].metadataFp
        BY <1>0, <1>13 DEF SaveFramesManifest, StageInv
    <2>5. SeenManifest(v)'
        BY <1>0, <2>1, <2>2, <2>3 DEF VideoInv, SeenManifest
    <2>6. MetadataRight(v)'
        BY <1>0, <1>13, <2>1, <2>2, <2>3, <2>4
           DEF SaveFramesManifest, VideoInv, MetadataRight, MetadataValid, Vouched
    <2>7. Vouched(v)' => Live
        BY <1>0, <2>2, <2>3, <2>4 DEF Vouched, Live
    <2>8. Live => SampledFrames(v)'
        <3>0. PICK smp \in Samplings(decoded, setup.setting) :
                    smp.frames = sampled /\ smp.protected = protected
            BY <1>0, <1>13 DEF SaveFramesManifest, StageInv
        <3>1. /\ Live => decoded = source[v]
              /\ records[v] = [source |-> decoded, setting |-> setup.setting,
                               frames |-> sampled, shots |-> protected]
              /\ \A f \in ImageFiles :
                    images[v][f] \in {None, [source |-> decoded, setting |-> setup.setting]}
            BY <1>0, <1>13 DEF SaveFramesManifest, StageInv
        <3>2. Live => RecordsOf(v, smp, smp.frames)'
            BY <1>0, <1>13, <3>0, <3>1 DEF SaveFramesManifest, RecordsOf
        <3>3. Live => smp \in Samplings(source[v], setup.setting)'
            BY <1>0, <3>0, <3>1 DEF Samplings
        <3> QED BY <1>0, <1>13, <3>1, <3>2, <3>3 DEF SaveFramesManifest, SampledFrames
    <2>9. ~EmbeddingsVouched(v)'
        <3>1. Fingerprint(setup) # None
            BY <1>0, NoneAssumption DEF TypeOK, Setup, Fingerprint, EmbeddingsFingerprint
        <3> QED BY <1>0, <2>2, <2>3, <3>1 DEF EmbeddingsVouched, Fingerprint
    <2> QED BY <2>5, <2>6, <2>7, <2>8, <2>9
            DEF VideoInv, FramesRight, FramesVouched, EmbeddingsRight
<1>14. CASE Encode
    <2>1. SampledFrames(v)' \/ ~FramesVouched(v)
        BY <1>14, EncodingKeeps
    <2> QED BY <1>8, <1>14, <2>1 DEF Encode
<1>15. CASE SaveEmbeddings
    <2>1. SampledFrames(v)' = SampledFrames(v)
        BY <1>0, <1>15 DEF SaveEmbeddings, SampledFrames, RecordsOf
    <2> QED BY <1>0, <1>8, <1>15, <2>1 DEF SaveEmbeddings, VideoInv, FramesRight
<1>16. CASE Raise
    <2> DEFINE latest == IF manifest[v] = None THEN Base(digest) ELSE manifest[v]
               m == [latest EXCEPT !.failed = TRUE]
    <2>1. manifest'[v] = m
        BY <1>0, <1>16 DEF Raise, SaveManifest, TypeOK
    <2>2. CASE manifest[v] # None
        <3>1. manifest[v] \in Manifest
            BY <1>0, <2>2 DEF TypeOK
        <3>2. m \in Manifest
            BY <2>2, <3>1 DEF Manifest
        <3>3. m # None
            BY <3>2, NoneAssumption
        <3>4. SameManifestFields(v)
            BY <2>1, <2>2, <3>1, <3>3 DEF SameManifestFields, Manifest
        <3> QED BY <1>0, <1>16, <3>4, VideoKept DEF Raise
    <2>3. CASE manifest[v] = None
        <3>1. /\ m.source = digest /\ m.framesFp = None /\ m.embeddingsFp = None
              /\ ~m.metadataFp
            BY <2>3 DEF Base
        <3> HIDE DEF m
        <3>2. SeenManifest(v)' /\ MetadataRight(v)'
            BY <1>0, <2>1, <3>1 DEF SeenManifest, SeenCall, MetadataRight, MetadataValid
        <3>3. setup.setting # None
            BY <1>0, NoneAssumption DEF TypeOK, Setup
        <3>4. ~FramesVouched(v)'
            BY <1>0, <2>1, <3>1, <3>3 DEF FramesVouched
        <3> QED BY <3>2, <3>4 DEF VideoInv, FramesRight, EmbeddingsRight, EmbeddingsVouched
    <2> QED BY <2>2, <2>3
<1>17. CASE SaveEmbeddingsManifest
    <2> DEFINE n == Cardinality(records[v].frames)
               m == [manifest[v] EXCEPT
                        !.completed = "embeddings", !.embeddingsFp = Fingerprint(setup),
                        !.sampled = n, !.embedded = n,
                        !.dim = Dim[setup.encoder], !.failed = FALSE]
    <2>1. manifest[v] \in Manifest /\ manifest[v] # None
        BY <1>0, <1>17 DEF SaveEmbeddingsManifest, CallInv, TypeOK
    <2>2. /\ m.source = manifest[v].source /\ m.framesFp = manifest[v].framesFp
          /\ m.embeddingsFp = Fingerprint(setup) /\ m.metadataFp = manifest[v].metadataFp
          /\ m.sampled = n /\ m.embedded = n /\ m.dim = Dim[setup.encoder]
        <3> HIDE DEF n
        <3> QED BY <2>1 DEF Manifest
    <2>3. manifest'[v] = m
        BY <1>0, <1>17 DEF SaveEmbeddingsManifest, SaveManifest, TypeOK
    <2> HIDE DEF m
    <2>4. manifest[v].source = digest /\ manifest[v].framesFp = setup.setting
        BY <1>0, <1>17 DEF SaveEmbeddingsManifest, StageInv
    <2>5. SeenManifest(v)'
        BY <1>0, <2>1, <2>2, <2>3 DEF VideoInv, SeenManifest, Fingerprint
    <2>6. MetadataRight(v)'
        BY <1>0, <1>17, <2>1, <2>2, <2>3
           DEF SaveEmbeddingsManifest, VideoInv, MetadataRight, MetadataValid, Vouched
    <2>7. Vouched(v)' => Live /\ FramesVouched(v)
        BY <1>0, <2>1, <2>2, <2>3, <2>4 DEF FramesVouched, Vouched, Live
    <2>8. UNCHANGED <<metadata, records, images, embeddings>>
        BY <1>17 DEF SaveEmbeddingsManifest
    <2>9. FramesRight(v)'
        <3>1. SampledFrames(v)' = SampledFrames(v)
            BY <1>0, <2>8 DEF SampledFrames, RecordsOf
        <3> QED BY <1>0, <2>7, <3>1 DEF VideoInv, FramesRight, FramesVouched
    <2>10. Live /\ FramesVouched(v) => CleanFrames(v, source[v], setup)
        BY <1>0, <1>17, EmbeddedFrames DEF SaveEmbeddingsManifest
    <2>11. CleanFrames(v, source[v], setup)' = CleanFrames(v, source[v], setup)
        BY <1>0, <2>8 DEF CleanFrames
    <2>12. EmbeddingsRight(v)'
        BY <1>0, <2>2, <2>3, <2>7, <2>8, <2>10, <2>11
           DEF EmbeddingsRight, EmbeddingsVouched, FramesVouched
    <2> QED BY <2>5, <2>6, <2>9, <2>12 DEF VideoInv
<1> QED
    BY <1>2, <1>3, <1>4, <1>6, <1>7, <1>9, <1>10, <1>11, <1>12, <1>13, <1>14, <1>15, <1>16,
       <1>17 DEF Step

\* What the call knows at its next label, action by action.
LEMMA StageKept ==
    ASSUME TypeInv, TypeInv', CleanInv, FilterIsStable, Step \/ Raise \/ Crash \/ CommandIndex
    PROVE  SeenCall' /\ ProtectedInv' /\ StageInv'
<1> USE DEF store, callVars, Sampling, Embedding
<1>0. /\ TypeOK /\ CallInv /\ FramesCallInv /\ StageInv /\ SeenCall /\ ProtectedInv
      /\ None \notin Videos
      /\ pc \notin {"idle", "pick"} => video \in Videos
    BY NoneAssumption DEF TypeInv, TypeOK, CallInv, CleanInv
<1>1. ASSUME UNCHANGED <<source, setup, past, video, digest, protected>>
      PROVE  SeenCall' /\ ProtectedInv'
    BY <1>0, <1>1 DEF SeenCall, ProtectedInv
<1>2. ASSUME UNCHANGED <<source, setup, video, manifest>>,
             pc \in {"clear"} \cup Sampling \cup Embedding
      PROVE  ~EmbeddingsVouched(video)'
    BY <1>2, NotYetVouched DEF EmbeddingsVouched, FramesVouched, Vouched
<1>3. ASSUME NEW v \in Videos, Pick(v) PROVE SeenCall' /\ ProtectedInv' /\ StageInv'
    <2> DEFINE p == Plan(v, source[v], setup)
    <2>1. /\ p = "frames" => pc' = "clear"
          /\ p = "embeddings" => pc' = "encode"
          /\ p \notin {"frames", "embeddings"} => pc' \in {"complete", "metadata"}
        <3>1. p \in Stages
            BY PlanTypes
        <3> HIDE DEF p
        <3> QED BY <1>3, <3>1 DEF Pick, Stages, p
    <2>2. /\ UNCHANGED <<source, store, setup, past, protected>>
          /\ video = None /\ video' = v /\ digest' = source[v]
        BY <1>0, <1>3 DEF Pick, CallInv
    <2>3. SeenCall' /\ ProtectedInv'
        BY <1>0, <2>2 DEF SeenCall, ProtectedInv
    <2>4. p \in {"frames", "embeddings"} =>
            manifest[v].source = source[v] /\ manifest[v].metadataFp
        BY PlanTypes DEF MetadataValid
    <2>5. p \in {"frames", "embeddings"} => ~EmbeddingsVouched(v)
        <3>1. VideoInv(v)
            BY DEF CleanInv
        <3> QED BY <3>1, PlanTypes, VouchedIsValid
    <2>6. p = "embeddings" => manifest[v].framesFp = setup.setting
        <3>1. p = "embeddings" => FramesValid(v, setup.setting)
            BY PlanTypes
        <3> QED BY <3>1 DEF FramesValid
    <2>7. ~EmbeddingsVouched(v) => ~EmbeddingsVouched(video)'
        BY <2>2 DEF EmbeddingsVouched, FramesVouched, Vouched
    <2> HIDE DEF p
    <2>8. StageInv'
        BY <2>1, <2>2, <2>4, <2>5, <2>6, <2>7 DEF StageInv, Live
    <2> QED BY <2>3, <2>8
<1>4. CASE Complete \/ SaveEmbeddingsManifest \/ Raise \/ Crash
    BY <1>4, CallEnds DEF Complete, SaveEmbeddingsManifest, Raise, Crash
<1>5. CASE Publish \/ CommandIndex
    <2>1. /\ UNCHANGED <<source, setup, past, video, digest, protected>>
          /\ pc' \in {"idle", "pick"}
        BY <1>5 DEF Publish, CommandIndex
    <2> QED BY <1>1, <2>1 DEF StageInv
<1>6. CASE SaveMetadata
    <2>1. SeenCall' /\ ProtectedInv'
        BY <1>1, <1>6 DEF SaveMetadata
    <2>2. metadata'[video].inspected = source[video]
        BY <1>0, <1>6 DEF SaveMetadata, TypeOK
    <2> QED BY <1>6, <2>1, <2>2 DEF SaveMetadata, StageInv
<1>7. CASE SaveMetadataManifest
    <2> DEFINE m == [Base(digest) EXCEPT !.completed = "metadata", !.metadataFp = TRUE]
    <2>1. m.source = digest /\ m.metadataFp /\ m.embeddingsFp = None
        BY DEF Base
    <2> HIDE DEF m
    <2>2. manifest'[video] = m
        BY <1>0, <1>7 DEF SaveMetadataManifest, SaveManifest, TypeOK, m
    <2>3. SeenCall' /\ ProtectedInv'
        BY <1>1, <1>7 DEF SaveMetadataManifest
    <2>4. Fingerprint(setup) # None
        BY <1>0, NoneAssumption DEF TypeOK, Setup, Fingerprint, EmbeddingsFingerprint
    <2>5. ~EmbeddingsVouched(video)'
        BY <1>7, <2>1, <2>2, <2>4 DEF SaveMetadataManifest, EmbeddingsVouched, Fingerprint
    <2> QED BY <1>7, <2>1, <2>2, <2>3, <2>5 DEF SaveMetadataManifest, StageInv
<1>8. CASE Clear
    <2>1. ~EmbeddingsVouched(video)' /\ SeenCall' /\ ProtectedInv'
        BY <1>1, <1>2, <1>8 DEF Clear
    <2> QED BY <1>0, <1>8, <2>1 DEF Clear, StageInv, Live
<1>9. CASE Sample
    <2>1. PICK s \in Samplings(source[video], setup.setting) :
                sampled' = s.frames /\ protected' = s.protected
        BY <1>9 DEF Sample
    <2>2. s = [frames |-> s.frames, protected |-> s.protected]
        BY DEF Samplings
    <2>3. setup.setting \in DedupSettings => s.protected = {}
        <3>1. source[video] \in Sources
            BY <1>0, <1>9 DEF Sample, TypeOK
        <3> QED BY <3>1 DEF FilterIsStable, Samplings
    <2>4. SeenCall' /\ ProtectedInv'
        BY <1>0, <1>9, <2>1, <2>3 DEF Sample, SeenCall, ProtectedInv, CallInv
    <2>5. ~EmbeddingsVouched(video)'
        BY <1>2, <1>9 DEF Sample
    <2>6. [frames |-> sampled', protected |-> protected']
            \in Samplings(source[video], setup.setting)
        BY <2>1, <2>2
    <2>7. Samplings(source[video], setup.setting) = Samplings(decoded, setup.setting)'
        BY <1>9 DEF Sample, Samplings
    <2> QED BY <1>0, <1>9, <2>4, <2>5, <2>6, <2>7 DEF Sample, StageInv, Live
<1>10. CASE SaveImage
    <2> DEFINE x == [source |-> decoded, setting |-> setup.setting]
               unsaved == {f \in sampled : images[video][File(f, setup.setting)] = None}
               h == File(Min(unsaved), setup.setting)
    <2>1. images' = images \/ images' = [images EXCEPT ![video][h] = x]
        <3>1. CASE unsaved # {}
            BY <1>10, <3>1 DEF SaveImage
        <3>2. CASE unsaved = {}
            BY <1>10, <3>2 DEF SaveImage
        <3> QED BY <3>1, <3>2
    <2>2. ~EmbeddingsVouched(video)' /\ SeenCall' /\ ProtectedInv'
        BY <1>1, <1>2, <1>10 DEF SaveImage
    <2>3. pc' \in {"image", "decoded count"} /\ pc = "image"
        BY <1>10 DEF SaveImage
    <2>4. \A g \in ImageFiles : images'[video][g] \in {None, x}
        <3>1. \A g \in ImageFiles : images[video][g] \in {None, x}
            BY <1>0, <2>3 DEF StageInv
        <3> HIDE DEF x, h
        <3>2. video \in Videos
            BY <1>0, <2>3
        <3>3. \A g \in ImageFiles : images'[video][g] \in {x, images[video][g]}
            BY <1>0, <2>1, <3>2 DEF TypeOK
        <3> QED BY <3>1, <3>3
    <2>5. UNCHANGED <<source, setup, manifest, video, digest, decoded, sampled, protected>>
        BY <1>10 DEF SaveImage
    <2>6. Samplings(decoded, setup.setting)' = Samplings(decoded, setup.setting)
        BY <2>5 DEF Samplings
    <2> QED BY <1>0, <2>2, <2>3, <2>4, <2>5, <2>6 DEF StageInv, Live
<1>11. CASE SaveDecodedCount
    <2>1. ~EmbeddingsVouched(video)' /\ SeenCall' /\ ProtectedInv'
        BY <1>1, <1>2, <1>11 DEF SaveDecodedCount
    <2>2. Samplings(decoded, setup.setting)' = Samplings(decoded, setup.setting)
        BY <1>11 DEF SaveDecodedCount, Samplings
    <2> QED BY <1>0, <1>11, <2>1, <2>2 DEF SaveDecodedCount, StageInv, Live
<1>12. CASE SaveSampledRecords
    <2>1. ~EmbeddingsVouched(video)' /\ SeenCall' /\ ProtectedInv'
        BY <1>1, <1>2, <1>12 DEF SaveSampledRecords
    <2>2. records'[video] = [source |-> decoded, setting |-> setup.setting,
                             frames |-> sampled, shots |-> protected]
        BY <1>0, <1>12 DEF SaveSampledRecords, TypeOK
    <2>3. Samplings(decoded, setup.setting)' = Samplings(decoded, setup.setting)
        BY <1>12 DEF SaveSampledRecords, Samplings
    <2> QED BY <1>0, <1>12, <2>1, <2>2, <2>3 DEF SaveSampledRecords, StageInv, Live
<1>13. CASE SaveFramesManifest
    <2> DEFINE m == [manifest[video] EXCEPT
                        !.completed = "frames", !.metadataFp = TRUE, !.framesFp = setup.setting,
                        !.sampled = Cardinality(sampled), !.embeddingsFp = None,
                        !.embedded = 0, !.dim = None, !.failed = FALSE]
    <2>1. manifest[video] \in Manifest
        BY <1>0, <1>13 DEF SaveFramesManifest, CallInv, TypeOK
    <2>2. /\ m.source = manifest[video].source /\ m.framesFp = setup.setting
          /\ m.embeddingsFp = None /\ m.metadataFp
        BY <2>1 DEF Manifest
    <2> HIDE DEF m
    <2>3. manifest'[video] = m
        BY <1>0, <1>13 DEF SaveFramesManifest, SaveManifest, TypeOK, m
    <2>4. SeenCall' /\ ProtectedInv'
        BY <1>1, <1>13 DEF SaveFramesManifest
    <2>5. Fingerprint(setup) # None
        BY <1>0, NoneAssumption DEF TypeOK, Setup, Fingerprint, EmbeddingsFingerprint
    <2>6. ~EmbeddingsVouched(video)'
        BY <1>13, <2>2, <2>3, <2>5 DEF SaveFramesManifest, EmbeddingsVouched, Fingerprint
    <2> QED BY <1>0, <1>13, <2>2, <2>3, <2>4, <2>6 DEF SaveFramesManifest, StageInv
<1>14. CASE Encode
    <2>1. ~EmbeddingsVouched(video)' /\ SeenCall' /\ ProtectedInv'
        BY <1>1, <1>2, <1>14 DEF Encode
    <2>2. Live => FilteredFramesOf(video)'
        <3>1. Live => FramesVouched(video)
            BY <1>0, <1>14 DEF Encode, StageInv, CallInv, Live, FramesVouched, Vouched
        <3>2. ASSUME Live PROVE FilteredFramesOf(video)'
            <4>1. PICK v \in Videos : v = video
                BY <1>0, <1>14 DEF Encode
            <4>2. FilteredFramesOf(v)'
                BY <1>14, <3>1, <3>2, <4>1, EncodingKeeps
            <4> QED BY <1>14, <4>1, <4>2 DEF Encode, FilteredFramesOf, RecordsOf
        <3> QED BY <3>2
    <2> QED BY <1>0, <1>14, <2>1, <2>2 DEF Encode, StageInv, Live
<1>15. CASE SaveEmbeddings
    <2>1. ~EmbeddingsVouched(video)' /\ SeenCall' /\ ProtectedInv'
        BY <1>1, <1>2, <1>15 DEF SaveEmbeddings
    <2>2. embeddings'[video] = Vectors(video)
        BY <1>0, <1>15 DEF SaveEmbeddings, TypeOK
    <2>3. Vectors(video)' = Vectors(video)
        BY <1>15 DEF SaveEmbeddings, Vectors
    <2>4. FilteredFramesOf(video)' = FilteredFramesOf(video)
        BY <1>15 DEF SaveEmbeddings, FilteredFramesOf, RecordsOf
    <2>5. video' = video
        BY <1>15 DEF SaveEmbeddings
    <2> QED BY <1>0, <1>15, <2>1, <2>2, <2>3, <2>4, <2>5 DEF SaveEmbeddings, StageInv, Live
<1> QED
    BY <1>3, <1>4, <1>5, <1>6, <1>7, <1>8, <1>9, <1>10, <1>11, <1>12, <1>13, <1>14, <1>15
       DEF Step

LEMMA CleanInvNext ==
    ASSUME TypeInv, TypeInv', CleanInv, Reverts = FALSE, FilterIsStable, [Next]_vars
    PROVE  CleanInv'
<1> USE DEF store, callVars
<1>0. /\ TypeOK /\ FreshInv /\ SeenCall /\ ProtectedInv /\ StageInv
      /\ \A v \in Videos : VideoInv(v)
    BY DEF TypeInv, CleanInv
<1>1. ASSUME NEW v \in Videos, past \subseteq past',
             UNCHANGED <<source, setup, metadata[v], records[v], images[v], embeddings[v],
                         manifest[v]>>
      PROVE  VideoInv(v)'
    <2>1. SameManifestFields(v)
        BY <1>1 DEF SameManifestFields
    <2> QED BY <1>0, <1>1, <2>1, VideoKept
<1>2. CASE UNCHANGED vars
    <2>1. \A v \in Videos : VideoInv(v)'
        BY <1>1, <1>2 DEF vars
    <2>2. FreshInv' /\ SeenCall' /\ ProtectedInv'
        BY <1>0, <1>2 DEF vars, FreshInv, SeenCall, ProtectedInv
    <2>3. StageInv'
        BY <1>0, <1>2 DEF vars, StageInv, Live, EmbeddingsVouched, FramesVouched, Vouched,
                         FilteredFramesOf, RecordsOf, Vectors
    <2> QED BY <2>1, <2>2, <2>3 DEF CleanInv
<1>3. CASE Step \/ Raise \/ Crash \/ CommandIndex
    <2>1. \A v \in Videos : v = video => VideoInv(v)'
        BY <1>3, CallKeepsVideo
    <2>2. FreshInv' /\ \A v \in Videos : VideoInv(v)'
        BY <1>3, <2>1, RunStep
    <2>3. SeenCall' /\ ProtectedInv' /\ StageInv'
        BY <1>3, StageKept
    <2> QED BY <2>2, <2>3 DEF CleanInv
<1>4. ASSUME NEW v \in Videos, Unreadable(v) PROVE CleanInv'
    <2>1. UNCHANGED <<source, store, setup, pc, past, callVars>>
        BY <1>4 DEF Unreadable
    <2>2. \A w \in Videos : VideoInv(w)'
        BY <1>1, <2>1
    <2>3. FreshInv' /\ SeenCall' /\ ProtectedInv'
        BY <1>0, <2>1 DEF FreshInv, SeenCall, ProtectedInv
    <2>4. StageInv'
        BY <1>0, <1>4 DEF Unreadable, StageInv, Sampling, Embedding
    <2> QED BY <2>2, <2>3, <2>4 DEF CleanInv
<1>5. ASSUME NEW vs \in SUBSET Videos, NEW u \in Setup, Start(vs, u) PROVE CleanInv'
    <2>1. /\ UNCHANGED <<source, store, callVars>>
          /\ setup' = u /\ pc = "idle" /\ pc' = "pick" /\ video = None
          /\ u.setting \notin past /\ u.encoder \notin past
          /\ past' = past \cup ({setup.setting, setup.encoder} \ {u.setting, u.encoder})
        BY <1>5 DEF Start, Fresh, Retire, TypeInv, CallInv
    <2>2. /\ u.setting \in Settings /\ u.encoder \in Encoders
          /\ setup.setting \in Settings /\ setup.encoder \in Encoders
          /\ \A v \in Videos : <<v, source[v]>> \in Videos \X Sources
        BY <1>0 DEF TypeOK, Setup
    <2>3. FreshInv' /\ SeenCall' /\ ProtectedInv'
        <3>1. FreshInv'
            BY <1>0, <2>1, <2>2, IngestionAssumption DEF FreshInv
        <3> QED BY <1>0, <2>1, <3>1 DEF SeenCall, ProtectedInv, TypeInv, CallInv
    <2>4. StageInv'
        BY <2>1 DEF StageInv, Sampling, Embedding
    <2>5. ASSUME NEW v \in Videos PROVE VideoInv(v)'
        <3>0. /\ {setup.setting} \subseteq {u.setting} \cup past'
              /\ {setup.encoder} \subseteq {u.encoder} \cup past'
              /\ past \subseteq past'
            BY <2>1, <2>2, IngestionAssumption
        <3>1. SeenManifest(v)'
            BY <1>0, <2>1, <3>0 DEF VideoInv, SeenManifest
        <3>2. MetadataRight(v)'
            BY <1>0, <2>1 DEF VideoInv, MetadataRight, MetadataValid, Vouched
        <3>3. FramesVouched(v)' => FramesVouched(v) /\ u.setting = setup.setting
            BY <1>0, <2>1, <2>2, NoneAssumption
               DEF VideoInv, SeenManifest, FramesVouched, Vouched
        <3>4. EmbeddingsVouched(v)' => EmbeddingsVouched(v) /\ u.encoder = setup.encoder
                                        /\ u.setting = setup.setting
            <4>1. Fingerprint(u) # None /\ Fingerprint(u)[2] = u.encoder
                BY <2>2, NoneAssumption DEF Fingerprint, EmbeddingsFingerprint
            <4> QED BY <1>0, <2>1, <3>3, <4>1
                    DEF VideoInv, SeenManifest, EmbeddingsVouched, FramesVouched, Vouched,
                        Fingerprint
        <3>5. u.setting = setup.setting => SampledFrames(v)' = SampledFrames(v)
            BY <2>1 DEF SampledFrames, RecordsOf
        <3>6. u.setting = setup.setting /\ u.encoder = setup.encoder =>
                CleanFrames(v, source[v], setup)' = CleanFrames(v, source[v], setup)
            BY <2>1 DEF CleanFrames, Filtered
        <3>7. FramesRight(v)' /\ EmbeddingsRight(v)'
            BY <1>0, <2>1, <3>3, <3>4, <3>5, <3>6 DEF VideoInv, FramesRight, EmbeddingsRight
        <3> QED BY <3>1, <3>2, <3>7 DEF VideoInv
    <2> QED BY <2>3, <2>4, <2>5 DEF CleanInv
<1>6. ASSUME NEW v \in Videos, ReplaceSource(v) PROVE CleanInv'
    <2>1. PICK src \in Sources \ {source[v]} :
            /\ <<v, src>> \notin past
            /\ source' = [source EXCEPT ![v] = src]
            /\ past' = past \cup {<<v, source[v]>>}
        BY <1>6 DEF ReplaceSource, Fresh
    <2>2. /\ UNCHANGED <<store, setup, pc, callVars>>
          /\ source'[v] = src
          /\ \A w \in Videos \ {v} : source'[w] = source[w]
        BY <1>0, <1>6, <2>1 DEF ReplaceSource, TypeOK
    <2>3. FreshInv'
        <3>1. <<v, source[v]>> \in Videos \X Sources /\ setup \in Setup
            BY <1>0 DEF TypeOK
        <3>2. setup.setting \notin past' /\ setup.encoder \notin past'
            BY <1>0, <2>1, <3>1, IngestionAssumption DEF FreshInv, Setup
        <3>3. \A w \in Videos : <<w, source'[w]>> \notin past'
            BY <1>0, <2>1, <2>2 DEF FreshInv
        <3> QED BY <2>2, <3>2, <3>3 DEF FreshInv
    <2>4. SeenCall' /\ ProtectedInv'
        BY <1>0, <2>1, <2>2 DEF SeenCall, ProtectedInv, TypeInv, TypeOK
    <2>5. ASSUME NEW w \in Videos PROVE VideoInv(w)'
        <3>1. CASE w # v
            <4>1. source'[w] = source[w]
                BY <2>2, <3>1
            <4>2. SameManifestFields(w) /\ past \subseteq past'
                BY <2>1, <2>2 DEF SameManifestFields
            <4> QED BY <1>0, <2>2, <4>1, <4>2, VideoKept
        <3>2. CASE w = v
            <4>1. SeenManifest(v)'
                BY <1>0, <2>1, <2>2 DEF VideoInv, SeenManifest
            <4>2. ~Vouched(v)'
                BY <1>0, <2>1, <2>2 DEF VideoInv, SeenManifest, Vouched
            <4> QED BY <3>2, <4>1, <4>2
                    DEF VideoInv, MetadataRight, FramesRight, EmbeddingsRight,
                        EmbeddingsVouched, FramesVouched
        <3> QED BY <3>1, <3>2
    <2>6. StageInv'
        <3>1. CASE video = v
            <4>1. ~Live'
                BY <1>0, <2>1, <2>2, <3>1 DEF SeenCall, Live
            <4>2. Vectors(video)' = Vectors(video)
                BY <2>2 DEF Vectors
            <4>3. Samplings(decoded, setup.setting)' = Samplings(decoded, setup.setting)
                BY <2>2 DEF Samplings
            <4> QED BY <1>0, <2>2, <4>1, <4>2, <4>3 DEF StageInv
        <3>2. CASE video # v
            <4>1. video \in Videos => source'[video] = source[video]
                BY <2>2, <3>2
            <4>2. pc \notin {"idle", "pick"} => video \in Videos
                BY NoneAssumption DEF TypeInv, TypeOK, CallInv
            <4>3. Vectors(video)' = Vectors(video)
                BY <2>2 DEF Vectors
            <4>4. Samplings(decoded, setup.setting)' = Samplings(decoded, setup.setting)
                BY <2>2 DEF Samplings
            <4>5. source'[video] = source[video] =>
                    /\ FilteredFramesOf(video)' <=> FilteredFramesOf(video)
                    /\ EmbeddingsVouched(video)' <=> EmbeddingsVouched(video)
                    /\ Live' <=> Live
                BY <2>2 DEF FilteredFramesOf, RecordsOf, EmbeddingsVouched, FramesVouched,
                            Vouched, Live
            <4>6. CASE pc \in {"idle", "pick"}
                BY <2>2, <4>6 DEF StageInv, Sampling, Embedding
            <4>7. CASE pc \notin {"idle", "pick"}
                <5>1. source'[video] = source[video]
                    BY <4>1, <4>2, <4>7
                <5> QED BY <1>0, <2>2, <4>3, <4>4, <4>5, <5>1 DEF StageInv
            <4> QED BY <4>6, <4>7
        <3> QED BY <3>1, <3>2
    <2> QED BY <2>3, <2>4, <2>5, <2>6 DEF CleanInv
<1> QED BY <1>2, <1>3, <1>4, <1>5, <1>6 DEF Next

\* As long as no content, setting or encoder that was replaced comes back, the
\* filter keeps what it kept, and no revision is taken for another, what a
\* resumed run reuses is what an uninterrupted run would have written.
THEOREM CleanUnlessReverted ==
    Reverts = FALSE /\ FilterIsStable /\ OwnRevisions => (Spec => []ResumedFramesAreClean)
<1> SUFFICES ASSUME Reverts = FALSE, FilterIsStable, OwnRevisions
             PROVE  Spec => []ResumedFramesAreClean
    OBVIOUS
<1>1. Spec => [](TypeInv /\ CleanInv)
    <2>1. Init => TypeInv /\ CleanInv
        BY TypeInvInit, CleanInvInit
    <2>2. TypeInv /\ CleanInv /\ [Next]_vars => (TypeInv /\ CleanInv)'
        BY TypeInvNext, CleanInvNext
    <2> QED BY <2>1, <2>2, PTL DEF Spec
<1>2. TypeInv /\ CleanInv => ResumedFramesAreClean
    <2> SUFFICES ASSUME TypeInv, CleanInv, NEW v \in Videos, Trusted(v, source[v])
                 PROVE  CleanFrames(v, source[v], setup) /\ metadata[v].inspected = source[v]
        BY DEF ResumedFramesAreClean
    <2> DEFINE u == [setup EXCEPT !.force = FALSE]
    <2>1. u.setting = setup.setting /\ u.encoder = setup.encoder /\ setup.encoder \in Encoders
        BY DEF TypeInv, TypeOK, Setup
    <2>2. Plan(v, source[v], u) = "complete"
        BY DEF Trusted
    <2> HIDE DEF u
    <2>3. /\ manifest[v] # None /\ manifest[v].source = source[v]
          /\ MetadataValid(v)
          /\ FramesValid(v, u.setting)
          /\ EmbeddingsValid(v, u, {Fingerprint(u), <<u.setting, Legacy[u.encoder]>>})
        BY <2>2, PlanTypes
    <2>4. <<u.setting, Legacy[u.encoder]>> = Fingerprint(setup) /\ Fingerprint(u) = Fingerprint(setup)
        BY <2>1 DEF OwnRevisions, Fingerprint
    <2>5. EmbeddingsVouched(v)
        BY <2>1, <2>3, <2>4
           DEF FramesValid, EmbeddingsValid, EmbeddingsVouched, FramesVouched, Vouched
    <2>6. VideoInv(v)
        BY DEF CleanInv
    <2> QED BY <2>3, <2>5, <2>6
            DEF VideoInv, EmbeddingsRight, MetadataRight, EmbeddingsVouched, FramesVouched
<1> QED BY <1>1, <1>2, PTL
-----------------------------------------------------------------------------
(* What is published, when nothing that was replaced comes back *)

Snapshot(src) == [source |-> src, setting |-> setup.setting]

\* A manifest of the present setting and encoder, of whatever file.
Ready(v) ==
    /\ manifest[v] # None
    /\ manifest[v].framesFp = setup.setting
    /\ manifest[v].embeddingsFp = Fingerprint(setup)

\* The records are of the present setting and so are the images they name, all
\* of one content.
InForce(v) ==
    /\ records[v] # None
    /\ records[v].setting = setup.setting
    /\ \A f \in records[v].frames :
        images[v][File(f, setup.setting)] = Snapshot(records[v].source)

\* The records a manifest vouches for are of the present file, and so are the
\* images there are.
FramesMatch(v) ==
    FramesVouched(v) =>
        /\ records[v] # None
        /\ records[v].source = source[v]
        /\ records[v].setting = setup.setting
        /\ \A f \in ImageFiles : images[v][f] \in {None, Snapshot(source[v])}

\* The vectors of a ready manifest are those of its records' images.
ReadyMatch(v) ==
    Ready(v) =>
        /\ InForce(v)
        /\ embeddings[v] = Vectors(v)
        /\ manifest[v].sampled = Cardinality(records[v].frames)
        /\ manifest[v].embedded = Cardinality(records[v].frames)
        /\ manifest[v].dim = Dim[setup.encoder]

VideoMatch(v) == SeenManifest(v) /\ FramesMatch(v) /\ ReadyMatch(v)

\* A call works on a manifest that is not ready; from the sampling on it knows
\* of what content the images are.
StageMatch ==
    /\ pc \in {"clear"} \cup Sampling \cup Embedding =>
        ~Ready(video) /\ manifest[video].source = digest
    /\ pc \in Sampling =>
        /\ Live => decoded = source[video]
        /\ \A f \in ImageFiles : images[video][f] \in {None, Snapshot(decoded)}
    /\ pc = "frames manifest" => records[video].source = decoded
    /\ pc \in Embedding => InForce(video) /\ manifest[video].framesFp = setup.setting
    /\ pc = "embeddings manifest" => embeddings[video] = Vectors(video)

MatchInv ==
    /\ FreshInv
    /\ SeenCall
    /\ \A v \in Videos : VideoMatch(v)
    /\ StageMatch

LEMMA MatchInvInit == Init => MatchInv
<1> SUFFICES ASSUME Init PROVE MatchInv
    OBVIOUS
<1>1. \A v \in Videos : VideoMatch(v)
    BY DEF Init, VideoMatch, SeenManifest, FramesMatch, ReadyMatch, Ready, FramesVouched, Vouched
<1>2. FreshInv /\ SeenCall
    BY DEF Init, FreshInv, SeenCall
<1>3. StageMatch
    BY DEF Init, StageMatch, Sampling, Embedding
<1> QED BY <1>1, <1>2, <1>3 DEF MatchInv

LEMMA MatchKept ==
    ASSUME NEW v \in Videos, VideoMatch(v), SameManifestFields(v), past \subseteq past',
           UNCHANGED <<source[v], setup, records[v], images[v], embeddings[v]>>
    PROVE  VideoMatch(v)'
<1>1. SeenManifest(v)'
    BY DEF VideoMatch, SeenManifest, SameManifestFields
<1>2. FramesVouched(v)' = FramesVouched(v) /\ Ready(v)' = Ready(v)
    BY DEF FramesVouched, Vouched, Ready, SameManifestFields
<1>3. FramesMatch(v)'
    BY <1>2 DEF VideoMatch, FramesMatch, Snapshot
<1>4. InForce(v)' = InForce(v) /\ Vectors(v)' = Vectors(v)
    BY DEF InForce, Snapshot, Vectors
<1>5. ReadyMatch(v)'
    BY <1>2, <1>4 DEF VideoMatch, ReadyMatch, SameManifestFields, Ready
<1> QED BY <1>1, <1>3, <1>5 DEF VideoMatch

\* A ready manifest passes the validation, so no call works on it.
LEMMA ReadyIsValid ==
    ASSUME TypeInv, NEW v \in Videos, VideoMatch(v), Ready(v), NEW x
    PROVE  /\ FramesValid(v, setup.setting)
           /\ EmbeddingsValid(v, setup, {Fingerprint(setup), x})
<1>1. /\ InForce(v)
      /\ embeddings[v] = Vectors(v)
      /\ manifest[v].sampled = Cardinality(records[v].frames)
      /\ manifest[v].embedded = Cardinality(records[v].frames)
      /\ manifest[v].dim = Dim[setup.encoder]
    BY DEF VideoMatch, ReadyMatch
<1>2. records[v] \in Records /\ setup \in Setup
    BY <1>1 DEF InForce, TypeInv, TypeOK
<1>3. /\ Snapshot(records[v].source) \in Image
      /\ Snapshot(records[v].source) # None
      /\ Snapshot(records[v].source).source = records[v].source
    BY <1>2, NoneAssumption DEF Snapshot, Image, Records, Setup
<1>4. FramesValid(v, setup.setting)
    BY <1>1, <1>3 DEF FramesValid, InForce, Ready
<1>5. DOMAIN embeddings[v].rows = records[v].frames /\ embeddings[v].encoder = setup.encoder
    BY <1>1 DEF Vectors
<1>6. embeddings[v] # None
    <2> DEFINE fs == records[v].frames
               rows == [f \in fs |-> images[v][File(f, records[v].setting)]]
    <2>1. \A f \in fs : images[v][File(f, records[v].setting)] \in Image
        BY <1>1, <1>3 DEF InForce
    <2>2. fs \in SUBSET Frames
        BY <1>2 DEF Records
    <2>3. rows \in [fs -> Image]
        BY <2>1
    <2> HIDE DEF fs
    <2>4. rows \in Rows
        BY <2>2, <2>3 DEF Rows
    <2>5. Vectors(v) = [encoder |-> setup.encoder, rows |-> rows]
        BY DEF Vectors, fs
    <2> HIDE DEF rows
    <2>6. Vectors(v) \in Embeddings
        BY <1>2, <2>4, <2>5 DEF Embeddings, Setup
    <2> QED BY <1>1, <2>6, NoneAssumption
<1>7. EmbeddingsValid(v, setup, {Fingerprint(setup), x})
    BY <1>1, <1>5, <1>6 DEF EmbeddingsValid, InForce, Ready
<1> QED BY <1>4, <1>7

\* A step of a call on v keeps what is said of v, action by action.
LEMMA CallKeepsMatch ==
    ASSUME TypeInv, TypeInv', MatchInv, NEW v \in Videos, v = video,
           Step \/ Raise \/ Crash \/ CommandIndex
    PROVE  VideoMatch(v)'
<1> USE DEF store, callVars, Sampling, Embedding
<1>0. /\ TypeOK /\ CallInv /\ FramesCallInv /\ VideoMatch(v) /\ StageMatch /\ SeenCall
      /\ UNCHANGED <<source, setup, past>>
      /\ v # None
    BY NoneAssumption
       DEF TypeInv, MatchInv, Step, Raise, Crash, CommandIndex, Pick, Complete, SaveMetadata,
           SaveMetadataManifest, Clear, Sample, SaveImage, SaveDecodedCount,
           SaveSampledRecords, SaveFramesManifest, Encode, SaveEmbeddings,
           SaveEmbeddingsManifest, Publish
<1>1. ASSUME manifest'[v] = manifest[v] PROVE SameManifestFields(v) /\ SeenManifest(v)'
    BY <1>0, <1>1 DEF SameManifestFields, VideoMatch, SeenManifest
<1>2. ASSUME SameManifestFields(v), UNCHANGED <<records, images, embeddings>>
      PROVE  VideoMatch(v)'
    BY <1>0, <1>2, MatchKept
<1>3. CASE \/ \E w \in Videos : Pick(w)
           \/ SaveMetadata \/ SaveDecodedCount
           \/ Sample \/ Publish \/ Crash \/ CommandIndex
    BY <1>1, <1>2, <1>3
       DEF Pick, SaveMetadata, SaveDecodedCount, Sample, Publish, Crash, CommandIndex
<1>4. CASE Complete
    <2>1. manifest[v] \in Manifest /\ manifest[v] # None
        BY <1>0, <1>4 DEF Complete, CallInv, TypeOK
    <2>2. SameManifestFields(v)
        <3>1. \/ manifest'[v] = manifest[v]
              \/ manifest'[v] = [manifest[v] EXCEPT !.failed = FALSE, !.completed = "embeddings"]
            BY <1>0, <1>4 DEF Complete, SaveManifest, TypeOK
        <3>2. [manifest[v] EXCEPT !.failed = FALSE, !.completed = "embeddings"] \in Manifest
            BY <2>1 DEF Manifest
        <3>3. manifest'[v] # None
            BY <2>1, <3>1, <3>2, NoneAssumption
        <3> QED BY <2>1, <3>1, <3>3 DEF SameManifestFields, Manifest
    <2> QED BY <1>2, <1>4, <2>2 DEF Complete
<1>5. CASE Raise
    <2> DEFINE latest == IF manifest[v] = None THEN Base(digest) ELSE manifest[v]
               m == [latest EXCEPT !.failed = TRUE]
    <2>1. manifest'[v] = m
        BY <1>0, <1>5 DEF Raise, SaveManifest, TypeOK
    <2>2. CASE manifest[v] # None
        <3>1. manifest[v] \in Manifest
            BY <1>0, <2>2 DEF TypeOK
        <3>2. m \in Manifest
            BY <2>2, <3>1 DEF Manifest
        <3>3. m # None
            BY <3>2, NoneAssumption
        <3>4. SameManifestFields(v)
            BY <2>1, <2>2, <3>1, <3>3 DEF SameManifestFields, Manifest
        <3> QED BY <1>2, <1>5, <3>4 DEF Raise
    <2>3. CASE manifest[v] = None
        <3>1. m.source = digest /\ m.framesFp = None /\ m.embeddingsFp = None
            BY <2>3 DEF Base
        <3> HIDE DEF m
        <3>2. SeenManifest(v)'
            BY <1>0, <2>1, <3>1 DEF SeenManifest, SeenCall
        <3>3. setup.setting # None
            BY <1>0, NoneAssumption DEF TypeOK, Setup
        <3>4. ~FramesVouched(v)' /\ ~Ready(v)'
            BY <1>0, <2>1, <3>1, <3>3 DEF FramesVouched, Ready
        <3> QED BY <3>2, <3>4 DEF VideoMatch, FramesMatch, ReadyMatch
    <2> QED BY <2>2, <2>3
<1>6. CASE SaveMetadataManifest
    <2> DEFINE m == [Base(digest) EXCEPT !.completed = "metadata", !.metadataFp = TRUE]
    <2>1. m.source = digest /\ m.framesFp = None /\ m.embeddingsFp = None
        BY DEF Base
    <2> HIDE DEF m
    <2>2. manifest'[v] = m
        BY <1>0, <1>6 DEF SaveMetadataManifest, SaveManifest, TypeOK, m
    <2>3. SeenManifest(v)'
        BY <1>0, <2>1, <2>2 DEF SeenManifest, SeenCall
    <2>4. setup.setting # None
        BY <1>0, NoneAssumption DEF TypeOK, Setup
    <2>5. ~FramesVouched(v)' /\ ~Ready(v)'
        BY <1>0, <2>1, <2>2, <2>4 DEF FramesVouched, Ready
    <2> QED BY <2>3, <2>5 DEF VideoMatch, FramesMatch, ReadyMatch
\* From the clearing of the images on, the manifest is not ready, and it
\* vouches for the frames of a live call only.
<1>7. ASSUME pc \in {"clear"} \cup Sampling \cup Embedding, UNCHANGED manifest,
             Live /\ FramesVouched(v) =>
                /\ records'[v] # None
                /\ records'[v].source = source[v]
                /\ records'[v].setting = setup.setting
                /\ \A f \in ImageFiles : images'[v][f] \in {None, Snapshot(source[v])}
      PROVE  VideoMatch(v)'
    <2>1. ~Ready(v)'
        BY <1>0, <1>7 DEF StageMatch, Ready
    <2>2. FramesVouched(v)' => FramesVouched(v) /\ Live
        BY <1>0, <1>7 DEF StageMatch, FramesVouched, Vouched, Live
    <2>3. FramesMatch(v)'
        BY <1>0, <1>7, <2>2 DEF FramesMatch, Snapshot
    <2> QED BY <1>1, <1>7, <2>1, <2>3 DEF VideoMatch, ReadyMatch
<1>8. FramesVouched(v) =>
        /\ records[v] # None
        /\ records[v].source = source[v]
        /\ records[v].setting = setup.setting
        /\ \A f \in ImageFiles : images[v][f] \in {None, Snapshot(source[v])}
    BY <1>0 DEF VideoMatch, FramesMatch
<1>9. CASE Clear
    <2>1. PICK f \in ImageFiles : images' = [images EXCEPT ![video][f] = None]
        BY <1>9 DEF Clear
    <2>2. \A g \in ImageFiles : images'[v][g] \in {None, images[v][g]}
        BY <1>0, <2>1 DEF TypeOK
    <2> QED BY <1>7, <1>8, <1>9, <2>2 DEF Clear
<1>10. CASE SaveImage
    <2> DEFINE unsaved == {f \in sampled : images[video][File(f, setup.setting)] = None}
               h == File(Min(unsaved), setup.setting)
    <2>1. images' = images \/ images' = [images EXCEPT ![video][h] = Snapshot(decoded)]
        <3>1. CASE unsaved # {}
            BY <1>10, <3>1 DEF SaveImage, Snapshot
        <3>2. CASE unsaved = {}
            BY <1>10, <3>2 DEF SaveImage
        <3> QED BY <3>1, <3>2
    <2>2. Live => Snapshot(decoded) = Snapshot(source[v])
        BY <1>0, <1>10 DEF SaveImage, StageMatch
    <2> HIDE DEF h
    <2>3. \A g \in ImageFiles : images'[v][g] \in {Snapshot(decoded), images[v][g]}
        BY <1>0, <2>1 DEF TypeOK
    <2> QED BY <1>7, <1>8, <1>10, <2>2, <2>3 DEF SaveImage
<1>11. CASE SaveSampledRecords
    <2> DEFINE r == [source |-> decoded, setting |-> setup.setting, frames |-> sampled,
                     shots |-> protected]
    <2>1. r.source = decoded /\ r.setting = setup.setting
        OBVIOUS
    <2>2. r # None
        <3>1. r \in Records
            BY <1>0, <1>11 DEF SaveSampledRecords, TypeOK, FramesCallInv, Records, Setup
        <3> QED BY <3>1, NoneAssumption
    <2> HIDE DEF r
    <2>3. records'[v] = r
        BY <1>0, <1>11 DEF SaveSampledRecords, TypeOK, r
    <2>4. Live => decoded = source[v]
        BY <1>0, <1>11 DEF SaveSampledRecords, StageMatch
    <2> QED BY <1>7, <1>8, <1>11, <2>1, <2>2, <2>3, <2>4 DEF SaveSampledRecords
<1>12. CASE SaveFramesManifest
    <2> DEFINE m == [manifest[v] EXCEPT
                        !.completed = "frames", !.metadataFp = TRUE, !.framesFp = setup.setting,
                        !.sampled = Cardinality(sampled), !.embeddingsFp = None,
                        !.embedded = 0, !.dim = None, !.failed = FALSE]
    <2>1. manifest[v] \in Manifest /\ manifest[v] # None
        BY <1>0, <1>12 DEF SaveFramesManifest, CallInv, TypeOK
    <2>2. /\ m.source = manifest[v].source /\ m.framesFp = setup.setting
          /\ m.embeddingsFp = None
        BY <2>1 DEF Manifest
    <2> HIDE DEF m
    <2>3. manifest'[v] = m
        BY <1>0, <1>12 DEF SaveFramesManifest, SaveManifest, TypeOK, m
    <2>4. SeenManifest(v)'
        BY <1>0, <2>1, <2>2, <2>3 DEF VideoMatch, SeenManifest
    <2>5. ~Ready(v)'
        <3>1. Fingerprint(setup) # None
            BY <1>0, NoneAssumption DEF TypeOK, Setup, Fingerprint, EmbeddingsFingerprint
        <3> QED BY <1>0, <2>2, <2>3, <3>1 DEF Ready, Fingerprint
    <2>6. FramesVouched(v)' => Live
        BY <1>0, <1>12, <2>2, <2>3
           DEF SaveFramesManifest, StageMatch, FramesVouched, Vouched, Live
    <2>7. /\ records'[v] # None
          /\ records'[v].source = decoded /\ records'[v].setting = setup.setting
          /\ Live => decoded = source[v]
          /\ \A f \in ImageFiles : images'[v][f] \in {None, Snapshot(decoded)}
        BY <1>0, <1>12 DEF SaveFramesManifest, StageMatch, FramesCallInv
    <2>8. FramesMatch(v)'
        BY <1>0, <2>6, <2>7 DEF FramesMatch, Snapshot
    <2> QED BY <2>4, <2>5, <2>8 DEF VideoMatch, ReadyMatch
<1>13. CASE Encode
    <2>1. records[v] \in Records
        BY <1>0, <1>13 DEF Encode, StageMatch, InForce, TypeOK
    <2>2. /\ records'[v].source = records[v].source
          /\ records'[v].setting = records[v].setting
        BY <1>0, <1>13, <2>1 DEF Encode, TypeOK, Records
    <2>3. records'[v] # None
        BY <1>0, <1>13 DEF Encode, TypeInv, FramesCallInv, Imaged
    <2> QED BY <1>7, <1>8, <1>13, <2>2, <2>3 DEF Encode
<1>14. CASE SaveEmbeddings
    BY <1>7, <1>8, <1>14 DEF SaveEmbeddings
<1>15. CASE SaveEmbeddingsManifest
    <2> DEFINE n == Cardinality(records[v].frames)
               m == [manifest[v] EXCEPT
                        !.completed = "embeddings", !.embeddingsFp = Fingerprint(setup),
                        !.sampled = n, !.embedded = n,
                        !.dim = Dim[setup.encoder], !.failed = FALSE]
    <2>1. manifest[v] \in Manifest /\ manifest[v] # None
        BY <1>0, <1>15 DEF SaveEmbeddingsManifest, CallInv, TypeOK
    <2>2. /\ m.source = manifest[v].source /\ m.framesFp = manifest[v].framesFp
          /\ m.embeddingsFp = Fingerprint(setup)
          /\ m.sampled = n /\ m.embedded = n /\ m.dim = Dim[setup.encoder]
        <3> HIDE DEF n
        <3> QED BY <2>1 DEF Manifest
    <2>3. manifest'[v] = m
        BY <1>0, <1>15 DEF SaveEmbeddingsManifest, SaveManifest, TypeOK
    <2> HIDE DEF m
    <2>4. UNCHANGED <<records, images, embeddings>>
        BY <1>15 DEF SaveEmbeddingsManifest
    <2>5. SeenManifest(v)'
        BY <1>0, <2>1, <2>2, <2>3 DEF VideoMatch, SeenManifest, Fingerprint
    <2>6. FramesMatch(v)'
        <3>1. FramesVouched(v)' => FramesVouched(v)
            BY <1>0, <2>1, <2>2, <2>3 DEF FramesVouched, Vouched
        <3> QED BY <1>0, <1>8, <2>4, <3>1 DEF FramesMatch, Snapshot
    <2>7. ReadyMatch(v)'
        <3>1. InForce(v) /\ embeddings[v] = Vectors(v)
            BY <1>0, <1>15 DEF SaveEmbeddingsManifest, StageMatch
        <3>2. InForce(v)' = InForce(v) /\ Vectors(v)' = Vectors(v)
            BY <1>0, <2>4 DEF InForce, Snapshot, Vectors
        <3> QED BY <1>0, <2>2, <2>3, <2>4, <3>1, <3>2 DEF ReadyMatch
    <2> QED BY <2>5, <2>6, <2>7 DEF VideoMatch
<1> QED
    BY <1>3, <1>4, <1>5, <1>6, <1>9, <1>10, <1>11, <1>12, <1>13, <1>14, <1>15 DEF Step

\* What the call knows at its next label, action by action.
LEMMA StageMatchKept ==
    ASSUME TypeInv, TypeInv', MatchInv, Step \/ Raise \/ Crash \/ CommandIndex
    PROVE  SeenCall' /\ StageMatch'
<1> USE DEF store, callVars, Sampling, Embedding
<1>0. /\ TypeOK /\ CallInv /\ FramesCallInv /\ StageMatch /\ SeenCall
      /\ pc \notin {"idle", "pick"} => video \in Videos
    BY NoneAssumption DEF TypeInv, TypeOK, CallInv, MatchInv
<1>1. ASSUME UNCHANGED <<source, past, video, digest>>
      PROVE  SeenCall'
    BY <1>0, <1>1 DEF SeenCall
<1>2. ASSUME UNCHANGED <<setup, video, digest, manifest>>,
             pc \in {"clear"} \cup Sampling \cup Embedding
      PROVE  ~Ready(video)' /\ manifest'[video'].source = digest'
    BY <1>0, <1>2 DEF StageMatch, Ready
<1>3. ASSUME NEW v \in Videos, Pick(v) PROVE SeenCall' /\ StageMatch'
    <2> DEFINE p == Plan(v, source[v], setup)
    <2>1. /\ p = "frames" => pc' = "clear"
          /\ p = "embeddings" => pc' = "encode"
          /\ p \notin {"frames", "embeddings"} => pc' \in {"complete", "metadata"}
        <3>1. p \in Stages
            BY PlanTypes
        <3> HIDE DEF p
        <3> QED BY <1>3, <3>1 DEF Pick, Stages, p
    <2>2. /\ UNCHANGED <<source, store, setup, past>>
          /\ video' = v /\ digest' = source[v]
        BY <1>3 DEF Pick
    <2>3. SeenCall'
        BY <2>2 DEF SeenCall
    <2>4. p \in {"frames", "embeddings"} => manifest[v] # None /\ manifest[v].source = source[v]
        BY PlanTypes
    <2>5. p \in {"frames", "embeddings"} => ~Ready(v)
        <3>1. VideoMatch(v)
            BY DEF MatchInv
        <3> QED BY <3>1, PlanTypes, ReadyIsValid
    <2>6. p = "embeddings" => InForce(v) /\ manifest[v].framesFp = setup.setting
        <3> SUFFICES ASSUME p = "embeddings"
                     PROVE  InForce(v) /\ manifest[v].framesFp = setup.setting
            OBVIOUS
        <3>1. FramesValid(v, setup.setting)
            BY PlanTypes
        <3>2. FramesVouched(v)
            BY <2>4, <3>1 DEF FramesValid, FramesVouched, Vouched
        <3>3. /\ records[v] # None
              /\ records[v].source = source[v]
              /\ records[v].setting = setup.setting
              /\ \A f \in ImageFiles : images[v][f] \in {None, Snapshot(source[v])}
            BY <3>2 DEF MatchInv, VideoMatch, FramesMatch
        <3>4. ASSUME NEW f \in records[v].frames
              PROVE  images[v][File(f, setup.setting)] = Snapshot(source[v])
            <4>1. f \in Frames
                BY <1>0, <3>3 DEF TypeOK, Records
            <4>2. File(f, setup.setting) \in ImageFiles
                BY <1>0, <4>1 DEF File, ImageFiles, TypeOK, Setup
            <4>3. images[v][File(f, setup.setting)] # None
                BY <3>1, <3>4 DEF FramesValid
            <4> QED BY <3>3, <4>2, <4>3
        <3> QED BY <3>1, <3>3, <3>4 DEF InForce, FramesValid
    <2>7. /\ ~Ready(v) => ~Ready(video)'
          /\ InForce(v) => InForce(video)'
        BY <2>2 DEF Ready, InForce, Snapshot
    <2> HIDE DEF p
    <2>8. StageMatch'
        BY <2>1, <2>2, <2>4, <2>5, <2>6, <2>7 DEF StageMatch
    <2> QED BY <2>3, <2>8
<1>4. CASE Complete \/ SaveEmbeddingsManifest \/ Raise \/ Crash
    BY <1>4 DEF Complete, SaveEmbeddingsManifest, Raise, Crash, Forget, SeenCall, StageMatch
<1>5. CASE Publish \/ CommandIndex \/ SaveMetadata
    <2>1. /\ UNCHANGED <<source, past, video, digest>>
          /\ pc' \in {"idle", "pick", "metadata manifest"}
        BY <1>5 DEF Publish, CommandIndex, SaveMetadata
    <2> QED BY <1>1, <2>1 DEF StageMatch
<1>6. CASE SaveMetadataManifest
    <2> DEFINE m == [Base(digest) EXCEPT !.completed = "metadata", !.metadataFp = TRUE]
    <2>1. m.source = digest /\ m.embeddingsFp = None
        BY DEF Base
    <2> HIDE DEF m
    <2>2. manifest'[video] = m
        BY <1>0, <1>6 DEF SaveMetadataManifest, SaveManifest, TypeOK, m
    <2>3. SeenCall'
        BY <1>1, <1>6 DEF SaveMetadataManifest
    <2>4. Fingerprint(setup) # None
        BY <1>0, NoneAssumption DEF TypeOK, Setup, Fingerprint, EmbeddingsFingerprint
    <2>5. ~Ready(video)'
        BY <1>6, <2>1, <2>2, <2>4 DEF SaveMetadataManifest, Ready, Fingerprint
    <2> QED BY <1>6, <2>1, <2>2, <2>3, <2>5 DEF SaveMetadataManifest, StageMatch
<1>7. CASE Clear
    <2>1. SeenCall' /\ ~Ready(video)' /\ manifest'[video'].source = digest'
        BY <1>1, <1>2, <1>7 DEF Clear
    <2> QED BY <1>7, <2>1 DEF Clear, StageMatch
<1>8. CASE Sample
    <2>1. SeenCall' /\ ~Ready(video)' /\ manifest'[video'].source = digest'
        BY <1>1, <1>2, <1>8 DEF Sample
    <2>2. /\ pc' = "image" /\ decoded' = source[video]
          /\ UNCHANGED <<source, images, setup, video>>
          /\ \A f \in ImageFiles : images[video][f] = None
        BY <1>8 DEF Sample
    <2> QED BY <2>1, <2>2 DEF StageMatch
<1>9. CASE SaveImage
    <2> DEFINE unsaved == {f \in sampled : images[video][File(f, setup.setting)] = None}
               h == File(Min(unsaved), setup.setting)
    <2>1. images' = images \/ images' = [images EXCEPT ![video][h] = Snapshot(decoded)]
        <3>1. CASE unsaved # {}
            BY <1>9, <3>1 DEF SaveImage, Snapshot
        <3>2. CASE unsaved = {}
            BY <1>9, <3>2 DEF SaveImage
        <3> QED BY <3>1, <3>2
    <2>2. SeenCall' /\ ~Ready(video)' /\ manifest'[video'].source = digest'
        BY <1>1, <1>2, <1>9 DEF SaveImage
    <2>3. pc' \in {"image", "decoded count"} /\ pc = "image"
        BY <1>9 DEF SaveImage
    <2>4. \A g \in ImageFiles : images'[video][g] \in {None, Snapshot(decoded)}
        <3>1. \A g \in ImageFiles : images[video][g] \in {None, Snapshot(decoded)}
            BY <1>0, <2>3 DEF StageMatch
        <3> HIDE DEF h
        <3>2. video \in Videos
            BY <1>0, <2>3
        <3>3. \A g \in ImageFiles : images'[video][g] \in {Snapshot(decoded), images[video][g]}
            BY <1>0, <2>1, <3>2 DEF TypeOK
        <3> QED BY <3>1, <3>3
    <2>5. UNCHANGED <<source, setup, video, digest, decoded>>
        BY <1>9 DEF SaveImage
    <2>6. Live => decoded = source[video]
        BY <1>0, <2>3 DEF StageMatch
    <2> QED BY <2>2, <2>3, <2>4, <2>5, <2>6 DEF StageMatch, Live, Snapshot
<1>10. CASE SaveDecodedCount
    <2>1. SeenCall' /\ ~Ready(video)' /\ manifest'[video'].source = digest'
        BY <1>1, <1>2, <1>10 DEF SaveDecodedCount
    <2> QED BY <1>0, <1>10, <2>1 DEF SaveDecodedCount, StageMatch, Live, Snapshot
<1>11. CASE SaveSampledRecords
    <2>1. SeenCall' /\ ~Ready(video)' /\ manifest'[video'].source = digest'
        BY <1>1, <1>2, <1>11 DEF SaveSampledRecords
    <2>2. records'[video].source = decoded
        BY <1>0, <1>11 DEF SaveSampledRecords, TypeOK
    <2> QED BY <1>0, <1>11, <2>1, <2>2 DEF SaveSampledRecords, StageMatch, Live, Snapshot
<1>12. CASE SaveFramesManifest
    <2> DEFINE m == [manifest[video] EXCEPT
                        !.completed = "frames", !.metadataFp = TRUE, !.framesFp = setup.setting,
                        !.sampled = Cardinality(sampled), !.embeddingsFp = None,
                        !.embedded = 0, !.dim = None, !.failed = FALSE]
    <2>0. pc = "frames manifest" /\ video \in Videos
        BY <1>0, <1>12 DEF SaveFramesManifest
    <2>1. manifest[video] \in Manifest
        BY <1>0, <2>0 DEF CallInv, TypeOK
    <2>2. /\ m.source = manifest[video].source /\ m.framesFp = setup.setting
          /\ m.embeddingsFp = None
        BY <2>1 DEF Manifest
    <2> HIDE DEF m
    <2>3. manifest'[video] = m
        BY <1>0, <1>12, <2>0 DEF SaveFramesManifest, SaveManifest, TypeOK, m
    <2>4. SeenCall'
        BY <1>1, <1>12 DEF SaveFramesManifest
    <2>5. Fingerprint(setup) # None
        BY <1>0, NoneAssumption DEF TypeOK, Setup, Fingerprint, EmbeddingsFingerprint
    <2>6. ~Ready(video)' /\ manifest'[video'].source = digest'
        BY <1>0, <1>12, <2>0, <2>2, <2>3, <2>5
           DEF SaveFramesManifest, Ready, Fingerprint, StageMatch
    <2>7. InForce(video)
        <3>1. /\ records[video] # None /\ records[video].setting = setup.setting
              /\ records[video].frames = sampled /\ records[video].source = decoded
              /\ sampled \subseteq Frames
              /\ \A f \in sampled : images[video][File(f, setup.setting)] # None
              /\ \A f \in ImageFiles : images[video][f] \in {None, Snapshot(decoded)}
            BY <1>0, <2>0 DEF FramesCallInv, StageMatch, TypeOK
        <3>2. \A f \in sampled : File(f, setup.setting) \in ImageFiles
            BY <1>0, <3>1 DEF File, ImageFiles, TypeOK, Setup
        <3> QED BY <3>1, <3>2 DEF InForce
    <2>8. InForce(video)' = InForce(video)
        BY <1>12 DEF SaveFramesManifest, InForce, Snapshot
    <2> QED BY <1>12, <2>2, <2>3, <2>4, <2>6, <2>7, <2>8 DEF SaveFramesManifest, StageMatch
<1>13. CASE Encode
    <2>1. SeenCall' /\ ~Ready(video)' /\ manifest'[video'].source = digest'
        BY <1>1, <1>2, <1>13 DEF Encode
    <2>2. InForce(video) /\ video \in Videos /\ manifest[video].framesFp = setup.setting
        BY <1>0, <1>13 DEF Encode, StageMatch
    <2>3. records[video] \in Records
        BY <1>0, <2>2 DEF InForce, TypeOK
    <2>4. /\ records'[video].source = records[video].source
          /\ records'[video].setting = records[video].setting
          /\ records'[video].frames \subseteq records[video].frames
        <3>1. Filtered(records[video].frames, protected, setup) \subseteq records[video].frames
            BY FilteredFrames
        <3> QED BY <1>0, <1>13, <2>2, <2>3, <3>1 DEF Encode, TypeOK, Records
    <2>5. records'[video] # None
        BY <1>13 DEF Encode, TypeInv, FramesCallInv, Imaged
    <2>6. InForce(video)'
        BY <1>13, <2>2, <2>4, <2>5 DEF Encode, InForce, Snapshot
    <2> QED BY <1>13, <2>1, <2>2, <2>6 DEF Encode, StageMatch
<1>14. CASE SaveEmbeddings
    <2>1. SeenCall' /\ ~Ready(video)' /\ manifest'[video'].source = digest'
        BY <1>1, <1>2, <1>14 DEF SaveEmbeddings
    <2>2. embeddings'[video] = Vectors(video)
        BY <1>0, <1>14 DEF SaveEmbeddings, TypeOK
    <2>3. Vectors(video)' = Vectors(video) /\ InForce(video)' = InForce(video)
        BY <1>14 DEF SaveEmbeddings, Vectors, InForce, Snapshot
    <2> QED BY <1>0, <1>14, <2>1, <2>2, <2>3 DEF SaveEmbeddings, StageMatch
<1> QED
    BY <1>3, <1>4, <1>5, <1>6, <1>7, <1>8, <1>9, <1>10, <1>11, <1>12, <1>13, <1>14 DEF Step

LEMMA MatchInvNext ==
    ASSUME TypeInv, TypeInv', MatchInv, Reverts = FALSE, [Next]_vars
    PROVE  MatchInv'
<1> USE DEF store, callVars
<1>0. /\ TypeOK /\ FreshInv /\ SeenCall /\ StageMatch
      /\ \A v \in Videos : VideoMatch(v)
    BY DEF TypeInv, MatchInv
<1>1. ASSUME UNCHANGED <<source, store, setup, pc, past, callVars>> PROVE MatchInv'
    <2>1. ASSUME NEW v \in Videos PROVE VideoMatch(v)'
        <3>1. SameManifestFields(v)
            BY <1>1 DEF SameManifestFields
        <3> QED BY <1>0, <1>1, <3>1, MatchKept
    <2>2. FreshInv' /\ SeenCall'
        BY <1>0, <1>1 DEF FreshInv, SeenCall
    <2>3. StageMatch'
        BY <1>0, <1>1 DEF StageMatch, Ready, Live, Snapshot, InForce, Vectors
    <2> QED BY <2>1, <2>2, <2>3 DEF MatchInv
<1>2. CASE UNCHANGED vars
    BY <1>1, <1>2 DEF vars
<1>3. CASE Step \/ Raise \/ Crash \/ CommandIndex
    <2>1. UNCHANGED <<source, setup, past>>
        BY <1>3 DEF Step, Raise, Crash, CommandIndex, Pick, Complete, SaveMetadata,
                    SaveMetadataManifest, Clear, Sample, SaveImage, SaveDecodedCount,
                    SaveSampledRecords, SaveFramesManifest, Encode, SaveEmbeddings,
                    SaveEmbeddingsManifest, Publish
    <2>2. FreshInv'
        BY <1>0, <2>1 DEF FreshInv
    <2>3. ASSUME NEW v \in Videos PROVE VideoMatch(v)'
        <3>1. CASE v = video
            BY <1>3, <3>1, CallKeepsMatch
        <3>2. CASE v # video
            <4>1. UNCHANGED <<source, setup, past, records[v], images[v], embeddings[v],
                              manifest[v]>>
                BY <1>3, <3>2, OthersKept
            <4>2. SameManifestFields(v)
                BY <4>1 DEF SameManifestFields
            <4> QED BY <1>0, <4>1, <4>2, MatchKept
        <3> QED BY <3>1, <3>2
    <2>4. SeenCall' /\ StageMatch'
        BY <1>3, StageMatchKept
    <2> QED BY <2>2, <2>3, <2>4 DEF MatchInv
<1>4. ASSUME NEW v \in Videos, Unreadable(v) PROVE MatchInv'
    BY <1>1, <1>4 DEF Unreadable
<1>5. ASSUME NEW vs \in SUBSET Videos, NEW u \in Setup, Start(vs, u) PROVE MatchInv'
    <2>1. /\ UNCHANGED <<source, store, callVars>>
          /\ setup' = u /\ pc = "idle" /\ pc' = "pick" /\ video = None
          /\ u.setting \notin past /\ u.encoder \notin past
          /\ past' = past \cup ({setup.setting, setup.encoder} \ {u.setting, u.encoder})
        BY <1>5 DEF Start, Fresh, Retire, TypeInv, CallInv
    <2>2. /\ u.setting \in Settings /\ u.encoder \in Encoders
          /\ setup.setting \in Settings /\ setup.encoder \in Encoders
          /\ \A v \in Videos : <<v, source[v]>> \in Videos \X Sources
        BY <1>0 DEF TypeOK, Setup
    <2>3. FreshInv' /\ SeenCall'
        <3>1. FreshInv'
            BY <1>0, <2>1, <2>2, IngestionAssumption DEF FreshInv
        <3> QED BY <1>0, <2>1, <3>1 DEF SeenCall, TypeInv, CallInv
    <2>4. StageMatch'
        BY <2>1 DEF StageMatch, Sampling, Embedding
    <2>5. ASSUME NEW v \in Videos PROVE VideoMatch(v)'
        <3>0. /\ {setup.setting} \subseteq {u.setting} \cup past'
              /\ {setup.encoder} \subseteq {u.encoder} \cup past'
              /\ past \subseteq past'
            BY <2>1, <2>2, IngestionAssumption
        <3>1. SeenManifest(v)'
            BY <1>0, <2>1, <3>0 DEF VideoMatch, SeenManifest
        <3>2. FramesVouched(v)' => FramesVouched(v) /\ u.setting = setup.setting
            BY <1>0, <2>1, <2>2, NoneAssumption
               DEF VideoMatch, SeenManifest, FramesVouched, Vouched
        <3>3. Ready(v)' => Ready(v) /\ u.encoder = setup.encoder /\ u.setting = setup.setting
            <4>1. Fingerprint(u) # None /\ Fingerprint(u)[2] = u.encoder
                BY <2>2, NoneAssumption DEF Fingerprint, EmbeddingsFingerprint
            <4> QED BY <1>0, <2>1, <2>2, <4>1, NoneAssumption
                    DEF VideoMatch, SeenManifest, Ready, Fingerprint
        <3>4. FramesMatch(v)'
            BY <1>0, <2>1, <3>2 DEF VideoMatch, FramesMatch, Snapshot
        <3>5. u.setting = setup.setting /\ u.encoder = setup.encoder =>
                (InForce(v)' <=> InForce(v)) /\ Vectors(v)' = Vectors(v)
            BY <2>1 DEF InForce, Snapshot, Vectors
        <3>6. ReadyMatch(v)'
            BY <1>0, <2>1, <3>3, <3>5 DEF VideoMatch, ReadyMatch
        <3> QED BY <3>1, <3>4, <3>6 DEF VideoMatch
    <2> QED BY <2>3, <2>4, <2>5 DEF MatchInv
<1>6. ASSUME NEW v \in Videos, ReplaceSource(v) PROVE MatchInv'
    <2>1. PICK src \in Sources \ {source[v]} :
            /\ <<v, src>> \notin past
            /\ source' = [source EXCEPT ![v] = src]
            /\ past' = past \cup {<<v, source[v]>>}
        BY <1>6 DEF ReplaceSource, Fresh
    <2>2. /\ UNCHANGED <<store, setup, pc, callVars>>
          /\ source'[v] = src
          /\ \A w \in Videos \ {v} : source'[w] = source[w]
        BY <1>0, <1>6, <2>1 DEF ReplaceSource, TypeOK
    <2>3. FreshInv'
        <3>1. <<v, source[v]>> \in Videos \X Sources /\ setup \in Setup
            BY <1>0 DEF TypeOK
        <3>2. setup.setting \notin past' /\ setup.encoder \notin past'
            BY <1>0, <2>1, <3>1, IngestionAssumption DEF FreshInv, Setup
        <3>3. \A w \in Videos : <<w, source'[w]>> \notin past'
            BY <1>0, <2>1, <2>2 DEF FreshInv
        <3> QED BY <2>2, <3>2, <3>3 DEF FreshInv
    <2>4. SeenCall'
        BY <1>0, <2>1, <2>2 DEF SeenCall, TypeInv, TypeOK
    <2>5. ASSUME NEW w \in Videos PROVE VideoMatch(w)'
        <3>1. SameManifestFields(w) /\ past \subseteq past'
            BY <2>1, <2>2 DEF SameManifestFields
        <3>2. CASE w # v
            BY <1>0, <2>2, <3>1, <3>2, MatchKept
        <3>3. CASE w = v
            <4>1. SeenManifest(v)' /\ ~FramesVouched(v)'
                BY <1>0, <2>1, <2>2 DEF VideoMatch, SeenManifest, FramesVouched, Vouched
            <4>2. /\ Ready(v)' = Ready(v) /\ InForce(v)' = InForce(v)
                  /\ Vectors(v)' = Vectors(v)
                BY <2>2 DEF Ready, InForce, Snapshot, Vectors
            <4>3. ReadyMatch(v)'
                BY <1>0, <2>2, <4>2 DEF VideoMatch, ReadyMatch
            <4> QED BY <3>3, <4>1, <4>3 DEF VideoMatch, FramesMatch
        <3> QED BY <3>2, <3>3
    <2>6. StageMatch'
        <3>1. Live' => Live /\ source'[video] = source[video]
            <4>1. video = v => ~Live'
                BY <1>0, <2>1, <2>2 DEF SeenCall, Live
            <4>2. video # v /\ video # None => source'[video] = source[video]
                BY <1>0, <2>2 DEF TypeOK
            <4> QED BY <2>2, <4>1, <4>2 DEF Live
        <3>2. /\ Ready(video)' = Ready(video) /\ InForce(video)' = InForce(video)
              /\ Vectors(video)' = Vectors(video) /\ Snapshot(decoded)' = Snapshot(decoded)
            BY <2>2 DEF Ready, InForce, Snapshot, Vectors
        <3> QED BY <1>0, <2>2, <3>1, <3>2 DEF StageMatch
    <2> QED BY <2>3, <2>4, <2>5, <2>6 DEF MatchInv
<1> QED BY <1>2, <1>3, <1>4, <1>5, <1>6 DEF Next

\* Only a publication or a kill ends a run.
LEMMA RunEnds == Next /\ pc = "pick" /\ pc' = "idle" => Publish \/ Crash
<1> SUFFICES ASSUME Next, pc = "pick", pc' = "idle" PROVE Publish \/ Crash
    OBVIOUS
<1>1. ASSUME NEW v \in Videos PROVE ~ReplaceSource(v) /\ ~Unreadable(v)
    BY DEF ReplaceSource, Unreadable
<1>2. ASSUME NEW v \in Videos PROVE ~Pick(v)
    <2> SUFFICES ASSUME Pick(v) PROVE FALSE
        OBVIOUS
    <2>1. Plan(v, source[v], setup) \in Stages
        BY PlanTypes
    <2> QED BY <2>1 DEF Pick, Stages
<1>3. ASSUME NEW vs, NEW u PROVE ~Start(vs, u)
    BY DEF Start
<1>4. ~CommandIndex /\ ~Raise /\ ~Complete /\ ~SaveMetadata /\ ~SaveMetadataManifest /\ ~Clear
    BY DEF CommandIndex, Raise, Complete, SaveMetadata, SaveMetadataManifest, Clear
<1>5. ~Sample /\ ~SaveImage /\ ~SaveDecodedCount /\ ~SaveSampledRecords /\ ~SaveFramesManifest
    BY DEF Sample, SaveImage, SaveDecodedCount, SaveSampledRecords, SaveFramesManifest
<1>6. ~Encode /\ ~SaveEmbeddings /\ ~SaveEmbeddingsManifest
    BY DEF Encode, SaveEmbeddings, SaveEmbeddingsManifest
<1> QED BY <1>1, <1>2, <1>3, <1>4, <1>5, <1>6 DEF Next, Step

\* As long as no content, setting or encoder that was replaced comes back, what
\* ingest_path publishes are, for every video, the vectors of exactly the frames
\* of its payloads, of the encoder and the setting in force and of one content,
\* whatever the filter keeps and whatever file is there by now.
THEOREM PublicationMatches == Reverts = FALSE => (Spec => PublishedMatch)
<1> SUFFICES ASSUME Reverts = FALSE PROVE Spec => PublishedMatch
    OBVIOUS
<1>1. Spec => [](TypeInv /\ MatchInv)
    <2>1. Init => TypeInv /\ MatchInv
        BY TypeInvInit, MatchInvInit
    <2>2. TypeInv /\ MatchInv /\ [Next]_vars => (TypeInv /\ MatchInv)'
        BY TypeInvNext, MatchInvNext
    <2> QED BY <2>1, <2>2, PTL DEF Spec
<1>2. TypeInv /\ MatchInv /\ [Next]_vars => [PublishedMatchStep]_vars
    <2> USE DEF store, callVars
    <2> SUFFICES ASSUME TypeInv, MatchInv, Next, pc = "pick", pc' = "idle", index' # index,
                        NEW v \in Videos, index'[v] # None
                 PROVE  LET r == index'[v].records
                        IN  index'[v].embeddings =
                                [encoder |-> setup.encoder,
                                 rows |-> [f \in r.frames |->
                                            [source |-> r.source, setting |-> setup.setting]]]
        BY DEF PublishedMatchStep
    <2>1. Publish
        BY RunEnds DEF Crash
    <2>2. Compatible(v) /\ index'[v] = Published(v)
        BY <2>1 DEF Publish
    <2>3. Ready(v)
        BY <2>2 DEF Compatible, FramesValid, EmbeddingsValid, Ready
    <2>4. InForce(v) /\ embeddings[v] = Vectors(v)
        BY <2>3 DEF MatchInv, VideoMatch, ReadyMatch
    <2>5. Vectors(v) = [encoder |-> setup.encoder,
                        rows |-> [f \in records[v].frames |-> Snapshot(records[v].source)]]
        BY <2>4 DEF Vectors, InForce
    <2> QED BY <2>2, <2>4, <2>5 DEF Published, Snapshot
<1> QED BY <1>1, <1>2, PTL DEF Spec, PublishedMatch

-----------------------------------------------------------------------------
(* What is left out of a publication *)

\* A manifest with an embeddings fingerprint has completed the embeddings, even
\* when a later call failed.
CompletedInv ==
    \A v \in Videos :
        manifest[v] # None /\ manifest[v].embeddingsFp # None =>
            manifest[v].completed = "embeddings"

LEMMA CompletedInvNext == TypeInv /\ TypeInv' /\ CompletedInv /\ [Next]_vars => CompletedInv'
<1> SUFFICES ASSUME TypeInv, TypeInv', CompletedInv, [Next]_vars PROVE CompletedInv'
    OBVIOUS
<1> USE DEF store, callVars
<1>0. TypeOK /\ CallInv
    BY DEF TypeInv
<1>1. CASE UNCHANGED manifest
    BY <1>1 DEF CompletedInv
<1>2. ASSUME NEW m, SaveManifest(m), m.embeddingsFp # None => m.completed = "embeddings"
      PROVE  CompletedInv'
    <2>1. \A v \in Videos : manifest'[v] = manifest[v] \/ manifest'[v] = m
        BY <1>0, <1>2 DEF SaveManifest, TypeOK
    <2> QED BY <1>2, <2>1 DEF CompletedInv
<1>3. CASE SaveMetadataManifest
    <2> DEFINE m == [Base(digest) EXCEPT !.completed = "metadata", !.metadataFp = TRUE]
    <2>1. m.embeddingsFp = None
        BY DEF Base
    <2> HIDE DEF m
    <2>2. SaveManifest(m)
        BY <1>3 DEF SaveMetadataManifest, m
    <2> QED BY <1>2, <2>1, <2>2
<1>4. ASSUME pc \in {"complete", "frames manifest", "embeddings manifest"}
      PROVE  video \in Videos /\ manifest[video] # None /\ manifest[video] \in Manifest
    BY <1>0, <1>4, NoneAssumption DEF CallInv, TypeOK, Sampling, Embedding
<1>5. CASE SaveFramesManifest
    <2> DEFINE n == Cardinality(sampled)
               m == [manifest[video] EXCEPT
                        !.completed = "frames", !.metadataFp = TRUE, !.framesFp = setup.setting,
                        !.sampled = n, !.embeddingsFp = None,
                        !.embedded = 0, !.dim = None, !.failed = FALSE]
    <2>1. m.embeddingsFp = None
        BY <1>4, <1>5 DEF SaveFramesManifest, Manifest
    <2>2. SaveManifest(m)
        BY <1>5 DEF SaveFramesManifest
    <2> HIDE DEF m
    <2> QED BY <1>2, <2>1, <2>2
<1>6. CASE SaveEmbeddingsManifest
    <2> DEFINE n == Cardinality(records[video].frames)
               m == [manifest[video] EXCEPT
                        !.completed = "embeddings", !.embeddingsFp = Fingerprint(setup),
                        !.sampled = n, !.embedded = n,
                        !.dim = Dim[setup.encoder], !.failed = FALSE]
    <2>1. m.completed = "embeddings"
        BY <1>4, <1>6 DEF SaveEmbeddingsManifest, Manifest
    <2>2. SaveManifest(m)
        BY <1>6 DEF SaveEmbeddingsManifest
    <2> HIDE DEF m
    <2> QED BY <1>2, <2>1, <2>2
<1>7. CASE Complete
    <2> DEFINE m == [manifest[video] EXCEPT !.failed = FALSE, !.completed = "embeddings"]
    <2>1. m.completed = "embeddings"
        BY <1>4, <1>7 DEF Complete, Manifest
    <2>2. UNCHANGED manifest \/ SaveManifest(m)
        BY <1>7 DEF Complete
    <2> HIDE DEF m
    <2> QED BY <1>1, <1>2, <2>1, <2>2
<1>8. CASE Raise
    <2> DEFINE latest == IF manifest[video] = None THEN Base(digest) ELSE manifest[video]
               m == [latest EXCEPT !.failed = TRUE]
    <2>1. video \in Videos
        BY <1>0, <1>8 DEF Raise, TypeOK
    <2>2. CASE manifest[video] = None
        <3>1. m.embeddingsFp = None
            BY <2>2 DEF Base
        <3>2. SaveManifest(m)
            BY <1>8 DEF Raise
        <3> HIDE DEF m
        <3> QED BY <1>2, <3>1, <3>2
    <2>3. CASE manifest[video] # None
        <3>1. manifest[video] \in Manifest
            BY <1>0, <2>1, <2>3 DEF TypeOK
        <3>2. /\ m.embeddingsFp = manifest[video].embeddingsFp
              /\ m.completed = manifest[video].completed
            BY <2>3, <3>1 DEF Manifest
        <3>3. SaveManifest(m)
            BY <1>8 DEF Raise
        <3> HIDE DEF m
        <3> QED BY <1>2, <2>1, <2>3, <3>2, <3>3 DEF CompletedInv
    <2> QED BY <2>2, <2>3
<1> QED
    BY <1>1, <1>3, <1>5, <1>6, <1>7, <1>8
       DEF Next, Step, Start, Pick, SaveMetadata, Clear, Sample, SaveImage, SaveDecodedCount,
           SaveSampledRecords, Encode, SaveEmbeddings, Publish, CommandIndex, ReplaceSource,
           Unreadable, Crash, vars

\* Whatever came back, whatever was interrupted and whatever revision is taken for
\* another: a publication publishes what a run under the same setup would reuse, but
\* for what it would reuse only under the "default" revision, which it leaves out.
THEOREM PublicationFollowsPlan == Spec => PublicationKeeps
<1>1. Spec => [](TypeInv /\ CompletedInv)
    <2>1. Init => TypeInv /\ CompletedInv
        BY TypeInvInit DEF Init, CompletedInv
    <2>2. TypeInv /\ CompletedInv /\ [Next]_vars => (TypeInv /\ CompletedInv)'
        BY TypeInvNext, CompletedInvNext
    <2> QED BY <2>1, <2>2, PTL DEF Spec
<1>2. TypeInv /\ CompletedInv /\ [Next]_vars => [PublicationKeepsStep]_vars
    <2> USE DEF store, callVars
    <2> SUFFICES ASSUME TypeInv, CompletedInv, Next, pc = "pick", pc' = "idle",
                        faults' = faults,
                        NEW v \in Videos, manifest[v] # None, ~manifest[v].failed,
                        Trusted(v, manifest[v].source)
                 PROVE  IF manifest[v].embeddingsFp = Fingerprint(setup)
                        THEN index'[v] = Published(v)
                        ELSE index' # index => index'[v] = None
        BY DEF PublicationKeepsStep
    <2>1. Publish
        BY RunEnds DEF Crash, TypeInv, TypeOK
    <2> DEFINE u == [setup EXCEPT !.force = FALSE]
    <2>2. u.setting = setup.setting /\ u.encoder = setup.encoder /\ setup.encoder \in Encoders
        BY DEF TypeInv, TypeOK, Setup
    <2>3. Plan(v, manifest[v].source, u) = "complete"
        BY DEF Trusted
    <2> HIDE DEF u
    <2>4. /\ MetadataValid(v)
          /\ FramesValid(v, u.setting)
          /\ EmbeddingsValid(v, u, {Fingerprint(u), <<u.setting, Legacy[u.encoder]>>})
        BY <2>3, PlanTypes
    <2>5. CASE manifest[v].embeddingsFp = Fingerprint(setup)
        <3>1. EmbeddingsValid(v, setup, {Fingerprint(setup)})
            BY <2>2, <2>4, <2>5 DEF EmbeddingsValid
        <3>2. manifest[v].completed = "embeddings"
            <4>1. Fingerprint(setup) # None
                BY NoneAssumption DEF TypeInv, TypeOK, Setup, Fingerprint, EmbeddingsFingerprint
            <4> QED BY <2>5, <4>1 DEF CompletedInv
        <3>3. Compatible(v)
            BY <2>2, <2>4, <3>1, <3>2 DEF Compatible
        <3> QED BY <2>1, <2>5, <3>3 DEF Publish
    <2>6. CASE manifest[v].embeddingsFp # Fingerprint(setup)
        <3>1. ~Compatible(v)
            BY <2>6 DEF Compatible, EmbeddingsValid
        <3> QED BY <2>1, <2>6, <3>1 DEF Publish
    <2> QED BY <2>5, <2>6
<1> QED BY <1>1, <1>2, PTL DEF Spec, PublicationKeeps
=============================================================================
