-------------------------- MODULE TextEvidenceProofs --------------------------
(***************************************************************************)
(* Theorems about TextEvidence, for any number of videos, sources,         *)
(* settings and engines: type correctness, and that metadata which vouches *)
(* for the present file, setting and engine is true.                       *)
(***************************************************************************)
EXTENDS TextEvidence, TLAPS

-----------------------------------------------------------------------------
(* Type correctness *)

\* A claim made of members is a claim.
LEMMA ClaimType ==
    ASSUME NEW m \in Modalities, NEW src \in Sources, NEW s \in Settings \cup {None},
           NEW e \in AllEngines \cup {Described[f] : f \in AllEngines}
    PROVE  Claim(m, src, s, e) \in Claims
  BY DEF Claim, Claims

\* What a call reads is a manifest.
LEMMA ReadType ==
    ASSUME TypeOK, NEW v \in Videos
    PROVE  Read(v) \in Manifest
  BY DEF TypeOK, Read, Manifest

LEMMA InfoType ==
    ASSUME TypeOK, NEW m \in Modalities
    PROVE  Info(m) \in AllEngines \cup {Described[f] : f \in AllEngines}
  BY DEF TypeOK, Info

LEMMA ExpectedType ==
    ASSUME TypeOK, NEW m \in Modalities, current # None
    PROVE  Expected(m) \in Claims
  <1>1. seen \in Manifest
    BY DEF TypeOK
  <1>2. seen.source \in Sources /\ seen.setting \in Settings \cup {None}
    BY <1>1 DEF Manifest
  <1> QED
    BY <1>2, InfoType, ClaimType DEF Expected

\* A step that touches only the files of ingestion.
LEMMA TypeIngest ==
    ASSUME TypeOK, NEW v \in Videos, Ingest(v) \/ IngestForced(v)
    PROVE  TypeOK'
  <1>1. CASE IngestMetadata(v)
    <2>1. [source |-> video[v], setting |-> None] \in Manifest
      BY DEF TypeOK, Manifest
    <2> QED
      BY <1>1, <2>1 DEF TypeOK, IngestMetadata, Inspect, evidence, call
  <1>2. CASE IngestForced(v)
    <2>1. [source |-> video[v], setting |-> None] \in Manifest
      BY DEF TypeOK, Manifest
    <2>2. faults' \in 0..MaxFaults
      BY <1>2, EvidenceAssumption DEF TypeOK, IngestForced
    <2> QED
      BY <1>2, <2>1, <2>2 DEF TypeOK, IngestForced, Inspect, evidence, call
  <1>3. CASE IngestFrames(v)
    <2>1. [source |-> video[v], setting |-> config] \in Frames
      BY DEF TypeOK, Frames
    <2> QED
      BY <1>3, <2>1 DEF TypeOK, IngestFrames, evidence, call
  <1>4. CASE IngestManifest(v)
    <2>1. manifest[v] \in Manifest
      BY <1>4 DEF TypeOK, IngestManifest
    <2>2. [source |-> manifest[v].source, setting |-> config] \in Manifest
      BY <2>1 DEF TypeOK, Manifest
    <2> QED
      BY <1>4, <2>2 DEF TypeOK, IngestManifest, evidence, call
  <1> QED
    BY <1>1, <1>2, <1>3, <1>4 DEF Ingest

LEMMA TypeReplace ==
    ASSUME TypeOK, NEW v \in Videos, NEW src \in Sources, ReplaceSource(v, src)
    PROVE  TypeOK'
  BY DEF TypeOK, ReplaceSource, Retire, evidence, call

LEMMA TypeReconfigure ==
    ASSUME TypeOK, NEW s \in Settings, Reconfigure(s)
    PROVE  TypeOK'
  BY DEF TypeOK, Reconfigure, Retire, evidence, call

LEMMA TypeBegin ==
    ASSUME TypeOK, NEW vs \in SUBSET Videos, NEW r \in Run, NEW es \in EngineChoices,
           Begin(vs, r, es)
    PROVE  TypeOK'
  <1>1. past' \subseteq (Videos \X Sources) \cup Settings \cup (Modalities \X AllEngines)
    BY DEF TypeOK, Begin, Retire
  <1>2. es \in [Modalities -> AllEngines] /\ \A m \in Modalities : es[m] \in Engines[m]
    BY DEF EngineChoices
  <1> QED
    BY <1>1, <1>2 DEF TypeOK, Begin, PC, ingestion, evidence, call

\* A call that ends.
LEMMA TypeLeave ==
    ASSUME TypeOK, Leave, pc' \in {"idle", "pick"}, faults' \in 0..MaxFaults,
           todo' \subseteq Videos, UNCHANGED <<ingestion, engine, run, past>>,
           data' \in [Modalities -> [Videos -> Claims \cup {None, Bad}]],
           meta' \in [Modalities -> [Videos -> Claims \cup {None, Bad}]]
    PROVE  TypeOK'
  BY DEF TypeOK, Leave, PC, Modalities, ingestion

LEMMA TypeAfter ==
    ASSUME TypeOK, NEW m \in Modalities, After(m), current # None,
           UNCHANGED <<ingestion, engine, run, todo, past, faults>>,
           data' \in [Modalities -> [Videos -> Claims \cup {None, Bad}]],
           meta' \in [Modalities -> [Videos -> Claims \cup {None, Bad}]]
    PROVE  TypeOK'
  <1>1. CASE m = "ocr"
    <2>1. /\ pc' = "load" /\ modality' = "asr" /\ got' = None
          /\ UNCHANGED <<current, seen, invalid>>
      BY <1>1 DEF After
    <2>2. seen # None
      BY DEF TypeOK
    <2>3. "asr" \in Modalities /\ "load" \in PC
      BY DEF Modalities, PC
    <2> QED
      BY <2>1, <2>2, <2>3 DEF TypeOK, ingestion
  <1>2. CASE m # "ocr"
    BY <1>2, TypeLeave DEF TypeOK, After
  <1> QED
    BY <1>1, <1>2

\* The nested update of one file.
LEMMA SaveType ==
    ASSUME NEW f \in [Modalities -> [Videos -> Claims \cup {None, Bad}]],
           NEW m \in Modalities, NEW v \in Videos, NEW x \in Claims \cup {None, Bad}
    PROVE  /\ [f EXCEPT ![m] = [@ EXCEPT ![v] = x]] \in
                [Modalities -> [Videos -> Claims \cup {None, Bad}]]
           /\ \A k \in Modalities, w \in Videos :
                [f EXCEPT ![m] = [@ EXCEPT ![v] = x]][k][w] =
                    IF k = m /\ w = v THEN x ELSE f[k][w]
  <1> DEFINE Rows == [Videos -> Claims \cup {None, Bad}]
             g == [f[m] EXCEPT ![v] = x]
  <1>1. f[m] \in Rows
    OBVIOUS
  <1>2. g \in Rows /\ \A w \in Videos : g[w] = IF w = v THEN x ELSE f[m][w]
    BY <1>1
  <1>3. [f EXCEPT ![m] = [@ EXCEPT ![v] = x]] = [f EXCEPT ![m] = g]
    OBVIOUS
  <1> HIDE DEF g
  <1>4. [f EXCEPT ![m] = g] \in [Modalities -> Rows]
    BY <1>2
  <1>5. \A k \in Modalities : [f EXCEPT ![m] = g][k] = IF k = m THEN g ELSE f[k]
    OBVIOUS
  <1>6. \A k \in Modalities, w \in Videos :
            [f EXCEPT ![m] = g][k][w] = IF k = m /\ w = v THEN x ELSE f[k][w]
    BY <1>2, <1>5
  <1> QED
    BY <1>3, <1>4, <1>6

LEMMA TypeStep ==
    ASSUME TypeOK, Step
    PROVE  TypeOK'
  <1>1. ASSUME NEW v \in Videos, Pick(v) PROVE TypeOK'
    <2>1. Read(v) \in Manifest
      BY ReadType
    <2>2. v # None /\ Read(v) # None
      BY <2>1, EvidenceAssumption, AbsenceAssumption
    <2> QED
      BY <1>1, <2>1, <2>2 DEF TypeOK, Pick, PC, ingestion, evidence
  <1>2. CASE Validate
    <2> DEFINE found == {m \in run.use : ~Valid(m, current, Expected(m))}
    <2>1. found \subseteq Modalities
      BY DEF TypeOK, Run
    <2> HIDE DEF found
    <2>2. CASE pc' = "pick" /\ Leave
      BY <1>2, <2>2, TypeLeave DEF TypeOK, Validate, evidence
    <2>3. CASE /\ pc' = "load"
               /\ invalid' = found
               /\ UNCHANGED <<current, seen, modality, got>>
      BY <1>2, <2>1, <2>3 DEF TypeOK, Validate, PC, ingestion, evidence
    <2> QED
      BY <1>2, <2>2, <2>3 DEF Validate, found
  <1>3. ASSUME NEW m \in Modalities, Load(m) PROVE TypeOK'
    <2>1. CASE pc' = "pick" /\ Leave
      BY <1>3, <2>1, TypeLeave DEF TypeOK, Load, evidence
    <2>2. CASE pc' = "extract" /\ UNCHANGED call
      BY <1>3, <2>2 DEF TypeOK, Load, PC, ingestion, evidence, call
    <2>3. CASE After(m)
      BY <1>3, <2>3, TypeAfter DEF TypeOK, Load, evidence
    <2> QED
      BY <1>3, <2>1, <2>2, <2>3 DEF Load
  <1>4. CASE ExtractText
    <2>1. CASE frames[current] = None
      BY <1>4, <2>1, TypeLeave DEF TypeOK, ExtractText, evidence
    <2>2. CASE frames[current] # None
      <3>1. current \in Videos
        BY <1>4 DEF TypeOK, ExtractText
      <3>2. frames[current] \in Frames
        BY <2>2, <3>1 DEF TypeOK
      <3>3. got' \in Claims
        <4>1. frames[current].source \in Sources /\ frames[current].setting \in Settings
          BY <3>2 DEF Frames
        <4>2. "ocr" \in Modalities
          BY DEF Modalities
        <4> QED
          BY <1>4, <2>2, <4>1, <4>2, ClaimType, InfoType DEF ExtractText
      <3>4. got' # None
        BY <3>3, AbsenceAssumption
      <3> QED
        BY <1>4, <2>2, <3>3, <3>4 DEF TypeOK, ExtractText, PC, ingestion, evidence
    <2> QED
      BY <2>1, <2>2
  <1>5. CASE Transcribe
    <2>1. current \in Videos /\ "asr" \in Modalities
      BY <1>5 DEF TypeOK, Transcribe, Modalities
    <2>2. got' \in Claims
      BY <1>5, <2>1, ClaimType, InfoType DEF TypeOK, Transcribe
    <2>3. got' # None
      BY <2>2, AbsenceAssumption
    <2> QED
      BY <1>5, <2>2, <2>3 DEF TypeOK, Transcribe, PC, ingestion, evidence
  <1>6. ASSUME NEW m \in Modalities, SaveData(m) PROVE TypeOK'
    <2>1. current \in Videos /\ got \in Claims
      BY <1>6 DEF TypeOK, SaveData
    <2>2. data' \in [Modalities -> [Videos -> Claims \cup {None, Bad}]]
      BY <1>6, <2>1, SaveType DEF TypeOK, SaveData
    <2> QED
      BY <1>6, <2>2 DEF TypeOK, SaveData, PC, ingestion, call
  <1>7. ASSUME NEW m \in Modalities, SaveMeta(m) PROVE TypeOK'
    <2>1. current \in Videos /\ current # None
      BY <1>7 DEF TypeOK, SaveMeta
    <2>2. Expected(m) \in Claims
      BY <2>1, ExpectedType
    <2>3. meta' \in [Modalities -> [Videos -> Claims \cup {None, Bad}]]
      BY <1>7, <2>1, <2>2, SaveType DEF TypeOK, SaveMeta
    <2> QED
      BY <1>7, <2>1, <2>3, TypeAfter DEF TypeOK, SaveMeta
  <1>8. CASE Finish
    BY <1>8 DEF TypeOK, Finish, PC, ingestion, evidence, call
  <1> QED
    BY <1>1, <1>2, <1>3, <1>4, <1>5, <1>6, <1>7, <1>8 DEF Step

LEMMA TypeFault ==
    ASSUME TypeOK,
           \/ Raise
           \/ Crash
           \/ \E m \in Modalities, v \in Videos, x \in Absent : Damage(m, v, x)
    PROVE  TypeOK'
  <1>1. CASE Raise
    BY <1>1, TypeLeave, EvidenceAssumption DEF TypeOK, Raise, evidence
  <1>2. CASE Crash
    BY <1>2, TypeLeave, EvidenceAssumption DEF TypeOK, Crash, evidence
  <1>3. ASSUME NEW m \in Modalities, NEW v \in Videos, NEW x \in Absent, Damage(m, v, x)
        PROVE  TypeOK'
    <2>1. /\ data' \in [Modalities -> [Videos -> Claims \cup {None, Bad}]]
          /\ meta' \in [Modalities -> [Videos -> Claims \cup {None, Bad}]]
      <3> DEFINE F == [Modalities -> [Videos -> Claims \cup {None, Bad}]]
      <3>1. data \in F /\ meta \in F /\ x \in Claims \cup {None, Bad}
        BY DEF TypeOK, Absent
      <3>2. /\ [data EXCEPT ![m] = [@ EXCEPT ![v] = x]] \in F
            /\ [meta EXCEPT ![m] = [@ EXCEPT ![v] = x]] \in F
        BY <3>1, SaveType
      <3> HIDE DEF F
      <3>3. data' \in F /\ meta' \in F
        BY <1>3, <3>1, <3>2 DEF Damage
      <3> QED
        BY <3>3 DEF F
    <2>2. faults' \in 0..MaxFaults
      BY <1>3, EvidenceAssumption DEF TypeOK, Damage
    <2> QED
      BY <1>3, <2>1, <2>2 DEF TypeOK, Damage, ingestion, call
  <1> QED
    BY <1>1, <1>2, <1>3

LEMMA TypeInit ==
    ASSUME Init
    PROVE  TypeOK
  BY EvidenceAssumption DEF Init, TypeOK, PC, Run, Modalities

\* The commands are runs with parameters of their types.
LEMMA CommandIsBegin ==
    ASSUME NEW vs \in SUBSET Videos, NEW es \in EngineChoices,
           \/ \E m \in Modalities : Command(vs, m, es)
           \/ \E force \in BOOLEAN : Script(vs, force, es)
    PROVE  \E r \in Run : /\ Begin(vs, r, es)
                          /\ r.stub \subseteq Stubs(vs, r.use, es)
  <1>1. ASSUME NEW m \in Modalities, Command(vs, m, es)
        PROVE  \E r \in Run : Begin(vs, r, es) /\ r.stub \subseteq Stubs(vs, r.use, es)
    <2> DEFINE r == [use |-> {m}, force |-> FALSE, stub |-> Stubs(vs, {m}, es)]
    <2>1. r \in Run
      BY DEF Run, Stubs
    <2>2. Begin(vs, r, es) /\ r.stub \subseteq Stubs(vs, r.use, es)
      BY <1>1 DEF Command
    <2> HIDE DEF r
    <2> QED
      BY <2>1, <2>2
  <1>2. ASSUME NEW force \in BOOLEAN, Script(vs, force, es)
        PROVE  \E r \in Run : Begin(vs, r, es) /\ r.stub \subseteq Stubs(vs, r.use, es)
    <2> DEFINE r == [use |-> Modalities, force |-> force, stub |-> {}]
    <2>1. r \in Run
      BY DEF Run
    <2>2. Begin(vs, r, es) /\ r.stub \subseteq Stubs(vs, r.use, es)
      BY <1>2 DEF Script
    <2> HIDE DEF r
    <2> QED
      BY <2>1, <2>2
  <1> QED
    BY <1>1, <1>2

LEMMA TypeNext ==
    ASSUME TypeOK, [Next]_vars
    PROVE  TypeOK'
  <1>1. ASSUME NEW vs \in SUBSET Videos, NEW es \in EngineChoices,
               \/ \E m \in Modalities : Command(vs, m, es)
               \/ \E force \in BOOLEAN : Script(vs, force, es)
        PROVE  TypeOK'
    BY <1>1, CommandIsBegin, TypeBegin
  <1>2. CASE UNCHANGED vars
    BY <1>2 DEF TypeOK, vars, ingestion, evidence, call
  <1> QED
    BY <1>1, <1>2, TypeStep, TypeIngest, TypeReplace, TypeReconfigure, TypeFault DEF Next

\* Every variable stays in its type.
THEOREM TypeCorrect == Spec => []TypeOK
  BY TypeInit, TypeNext, PTL DEF Spec

-----------------------------------------------------------------------------
(* The invariant *)

UsedSource(v, src) == src = video[v] \/ <<v, src>> \in past
UsedSetting(s) == s = None \/ s = config \/ s \in past
UsedEngine(m, e) == e = engine[m] \/ <<m, e>> \in past \/ e \notin AllEngines

\* Whatever a file or a call mentions is in force or was replaced.
UsedInv ==
    /\ \A v \in Videos : manifest[v] # None =>
            UsedSource(v, manifest[v].source) /\ UsedSetting(manifest[v].setting)
    /\ current # None => UsedSource(current, seen.source) /\ UsedSetting(seen.setting)
    /\ \A m \in Modalities, v \in Videos : meta[m][v] \notin Absent =>
            /\ UsedSource(v, meta[m][v].source)
            /\ UsedSetting(meta[m][v].setting)
            /\ UsedEngine(m, meta[m][v].engine)

\* The frames of the present file and setting.
Right(v) == [source |-> video[v], setting |-> config]

\* Where the present frames are mentioned, frames.json holds them.
FramesInv ==
    \A v \in Videos :
        \/ /\ sampled[v]
           /\ manifest[v] # None
           /\ manifest[v].source = video[v]
        \/ manifest[v] = Right(v)
        \/ meta["ocr"][v] = Present("ocr", v)
        \/ current = v /\ seen = Right(v)
        => frames[v] = Right(v)

\* What was extracted is what the metadata, new and old, says if that is in force.
CallInv ==
    /\ pc \in {"save", "meta"} /\ (\/ Expected(modality) = Present(modality, current)
                                  \/ meta[modality][current] = Present(modality, current))
        => got = Present(modality, current)
    /\ pc = "meta" => data[modality][current] \in Absent \cup {got}

\* A stub runs only where no metadata vouches for the engine it stands for.
StubInv ==
    \A m \in run.stub, v \in Videos :
        v \in todo \/ v = current => meta[m][v] # Present(m, v)

EInv == UsedInv /\ FramesInv /\ CallInv /\ StubInv /\ VouchedEvidenceIsRight

-----------------------------------------------------------------------------
(* Claims by their fields *)

\* Claims, and the frames of a video, are told apart by their fields.
LEMMA PresentFields ==
    ASSUME TypeOK, NEW m \in Modalities, NEW v \in Videos
    PROVE  /\ Present(m, v) \in Claims
           /\ Present(m, v).source = video[v]
           /\ Present(m, v).setting = IF m = "ocr" THEN config ELSE None
           /\ Present(m, v).engine = engine[m]
  <1>1. video[v] \in Sources /\ config \in Settings /\ engine[m] \in AllEngines
    BY DEF TypeOK
  <1> QED
    BY <1>1, ClaimType DEF Present, Claim

LEMMA ClaimsByFields ==
    ASSUME NEW c \in Claims, NEW d \in Claims,
           c.source = d.source, c.setting = d.setting, c.engine = d.engine
    PROVE  c = d
  BY DEF Claims

LEMMA AbsentIsNoClaim == \A c \in Claims : c \notin Absent
  BY AbsenceAssumption DEF Absent

LEMMA RightFields ==
    ASSUME TypeOK, NEW v \in Videos
    PROVE  /\ Right(v) \in Frames /\ Right(v) \in Manifest
           /\ Right(v) # None
           /\ Right(v).source = video[v] /\ Right(v).setting = config
  BY AbsenceAssumption DEF TypeOK, Right, Frames, Manifest

\* What a call expects, by its fields.
LEMMA ExpectedFields ==
    ASSUME TypeOK, current # None, NEW m \in Modalities
    PROVE  /\ Expected(m) \in Claims
           /\ Expected(m).source = seen.source
           /\ Expected(m).setting = IF m = "ocr" THEN seen.setting ELSE None
           /\ Expected(m).engine = Info(m)
  BY ExpectedType DEF Expected, Claim

-----------------------------------------------------------------------------
(* Replacements *)

\* What Present and Right are after a step.
NextPresent(m, v) == Claim(m, video'[v], config', engine'[m])
NextRight(v) == [source |-> video'[v], setting |-> config']

LEMMA NextFields ==
    ASSUME TypeOK', NEW m \in Modalities, NEW v \in Videos
    PROVE  /\ NextPresent(m, v) \in Claims
           /\ NextPresent(m, v) \notin Absent
           /\ NextPresent(m, v).source = video'[v]
           /\ NextPresent(m, v).setting = IF m = "ocr" THEN config' ELSE None
           /\ NextPresent(m, v).engine = engine'[m]
           /\ NextRight(v) # None
           /\ NextRight(v).source = video'[v] /\ NextRight(v).setting = config'
  <1>1. video'[v] \in Sources /\ config' \in Settings /\ engine'[m] \in AllEngines
    BY DEF TypeOK
  <1>2. NextRight(v) \in Frames
    BY <1>1 DEF NextRight, Frames
  <1>3. NextPresent(m, v) \in Claims
    BY <1>1, ClaimType DEF NextPresent
  <1> QED
    BY <1>1, <1>2, <1>3, AbsenceAssumption, AbsentIsNoClaim DEF NextPresent, NextRight, Claim

\* The initial states satisfy the invariant.
LEMMA InvInit ==
    ASSUME Init
    PROVE  EInv
  <1>1. TypeOK
    BY TypeInit
  <1>2. \A m \in Modalities, v \in Videos : meta[m][v] \in Absent
    BY DEF Init, Absent
  <1>3. \A m \in Modalities, v \in Videos : meta[m][v] # Present(m, v)
    BY <1>1, <1>2, PresentFields, AbsentIsNoClaim
  <1>4. UsedInv
    BY <1>2 DEF Init, UsedInv
  <1>5. FramesInv
    <2> SUFFICES ASSUME NEW v \in Videos,
                        \/ sampled[v]
                        \/ manifest[v] = Right(v)
                        \/ meta["ocr"][v] = Present("ocr", v)
                        \/ current = v
                 PROVE  FALSE
      BY DEF FramesInv
    <2>1. "ocr" \in Modalities
      BY DEF Modalities
    <2> QED
      BY <1>1, <1>3, <2>1, RightFields, EvidenceAssumption DEF Init
  <1>6. CallInv
    BY DEF Init, CallInv
  <1>7. StubInv
    BY DEF Init, StubInv
  <1>8. VouchedEvidenceIsRight
    BY <1>3 DEF VouchedEvidenceIsRight
  <1> QED
    BY <1>4, <1>5, <1>6, <1>7, <1>8 DEF EInv

\* The parts of the invariant that a replacement could break hold because what
\* is new is nowhere mentioned.
LEMMA InvRenewed ==
    ASSUME TypeOK, TypeOK', EInv,
           UNCHANGED <<manifest, frames, meta, data, seen, current, modality, got>>,
           UNCHANGED run \/ (current = None /\ StubInv'),
           todo' \subseteq todo \/ StubInv',
           pc' \in {"save", "meta"} => pc' = pc /\ UNCHANGED run,
           past \subseteq past',
           \A v \in Videos : sampled'[v] => sampled[v] /\ config' = config,
           \A v \in Videos : video'[v] # video[v] =>
                ~UsedSource(v, video'[v]) /\ <<v, video[v]>> \in past',
           config' # config => ~UsedSetting(config') /\ config \in past',
           \A m \in Modalities : engine'[m] # engine[m] =>
                ~UsedEngine(m, engine'[m]) /\ <<m, engine[m]>> \in past' /\ current = None
    PROVE  EInv'
  <1> USE DEF EInv
  <1>1. \A m \in Modalities, v \in Videos :
            meta[m][v] = NextPresent(m, v) => NextPresent(m, v) = Present(m, v)
    <2> SUFFICES ASSUME NEW m \in Modalities, NEW v \in Videos,
                        meta[m][v] = NextPresent(m, v)
                 PROVE  NextPresent(m, v) = Present(m, v)
      OBVIOUS
    <2>1. /\ UsedSource(v, video'[v])
          /\ m = "ocr" => UsedSetting(config')
          /\ UsedEngine(m, engine'[m])
      BY NextFields DEF UsedInv
    <2>2. video'[v] = video[v] /\ engine'[m] = engine[m] /\ (m = "ocr" => config' = config)
      BY <2>1
    <2> QED
      BY <2>2 DEF NextPresent, Present, Claim
  <1>2. \A v \in Videos : manifest[v] = NextRight(v) => NextRight(v) = Right(v)
    <2> SUFFICES ASSUME NEW v \in Videos, manifest[v] = NextRight(v)
                 PROVE  NextRight(v) = Right(v)
      OBVIOUS
    <2>1. "ocr" \in Modalities
      BY DEF Modalities
    <2>2. UsedSource(v, video'[v]) /\ UsedSetting(config')
      BY <2>1, NextFields DEF UsedInv
    <2> QED
      BY <2>2 DEF NextRight, Right
  <1>3. \A v \in Videos : current = v /\ seen = NextRight(v) => NextRight(v) = Right(v)
    <2> SUFFICES ASSUME NEW v \in Videos, current = v, seen = NextRight(v)
                 PROVE  NextRight(v) = Right(v)
      OBVIOUS
    <2>1. "ocr" \in Modalities /\ current # None
      BY EvidenceAssumption DEF Modalities
    <2>2. UsedSource(v, video'[v]) /\ UsedSetting(config')
      BY <2>1, NextFields DEF UsedInv
    <2> QED
      BY <2>2 DEF NextRight, Right
  <1>4. UsedInv'
    <2>1. \A v \in Videos : \A s : UsedSource(v, s) => s = video'[v] \/ <<v, s>> \in past'
      BY DEF UsedSource
    <2>2. \A s : UsedSetting(s) => s = None \/ s = config' \/ s \in past'
      BY DEF UsedSetting
    <2>3. \A m \in Modalities : \A e : UsedEngine(m, e) =>
                e = engine'[m] \/ <<m, e>> \in past' \/ e \notin AllEngines
      BY DEF UsedEngine
    <2>4. current # None => current \in Videos
      BY DEF TypeOK
    <2>5. \A v \in Videos : manifest'[v] # None =>
            UsedSource(v, manifest[v].source)' /\ UsedSetting(manifest[v].setting)'
      BY <2>1, <2>2 DEF UsedInv, UsedSource, UsedSetting
    <2>6. (current # None => UsedSource(current, seen.source) /\ UsedSetting(seen.setting))'
      BY <2>1, <2>2, <2>4 DEF UsedInv, UsedSource, UsedSetting
    <2>7. \A m \in Modalities, v \in Videos : meta'[m][v] \notin Absent =>
            /\ UsedSource(v, meta[m][v].source)'
            /\ UsedSetting(meta[m][v].setting)'
            /\ UsedEngine(m, meta[m][v].engine)'
      BY <2>1, <2>2, <2>3 DEF UsedInv, UsedSource, UsedSetting, UsedEngine
    <2> QED
      BY <2>5, <2>6, <2>7 DEF UsedInv
  <1>5. FramesInv'
    <2> SUFFICES ASSUME NEW v \in Videos,
                        \/ sampled'[v] /\ manifest[v] # None /\ manifest[v].source = video'[v]
                        \/ manifest[v] = NextRight(v)
                        \/ meta["ocr"][v] = NextPresent("ocr", v)
                        \/ current = v /\ seen = NextRight(v)
                 PROVE  frames[v] = NextRight(v)
      BY DEF FramesInv, NextRight, NextPresent, Right, Present
    <2>1. "ocr" \in Modalities
      BY DEF Modalities
    <2>2. CASE sampled'[v] /\ manifest[v] # None /\ manifest[v].source = video'[v]
      <3>1. UsedSource(v, video'[v])
        BY <2>2 DEF UsedInv
      <3>2. video'[v] = video[v] /\ config' = config
        BY <2>2, <3>1
      <3> QED
        BY <2>2, <3>2 DEF FramesInv, NextRight, Right
    <2>3. CASE manifest[v] = NextRight(v)
      BY <1>2, <2>3 DEF FramesInv
    <2>4. CASE meta["ocr"][v] = NextPresent("ocr", v)
      <3>1. meta["ocr"][v] = Present("ocr", v) /\ NextPresent("ocr", v) = Present("ocr", v)
        BY <1>1, <2>1, <2>4
      <3>2. video'[v] = video[v] /\ config' = config
        BY <2>1, <3>1, NextFields, PresentFields
      <3> QED
        BY <3>1, <3>2 DEF FramesInv, NextRight, Right
    <2>5. CASE current = v /\ seen = NextRight(v)
      BY <1>3, <2>5 DEF FramesInv
    <2> QED
      BY <2>2, <2>3, <2>4, <2>5
  <1>6. CallInv'
    <2> SUFFICES ASSUME pc' \in {"save", "meta"}
                 PROVE  CallInv'
      BY DEF CallInv
    <2>1. pc' = pc /\ UNCHANGED run /\ current \in Videos /\ current # None
          /\ modality \in Modalities /\ engine'[modality] = engine[modality]
      BY EvidenceAssumption DEF TypeOK
    <2> DEFINE E == Expected(modality)
    <2>2. E = Claim(modality, seen.source, seen.setting, Info(modality))
      BY DEF Expected
    <2>3. Expected(modality)' = E
      BY <2>1 DEF Expected, Claim, Info
    <2>4. E = NextPresent(modality, current) =>
                NextPresent(modality, current) = Present(modality, current)
      <3> SUFFICES ASSUME E = NextPresent(modality, current)
                   PROVE  NextPresent(modality, current) = Present(modality, current)
        OBVIOUS
      <3>1. seen.source = video'[current] /\ (modality = "ocr" => seen.setting = config')
        BY <2>1, NextFields, ExpectedFields
      <3>2. UsedSource(current, video'[current]) /\ (modality = "ocr" => UsedSetting(config'))
        BY <2>1, <3>1 DEF UsedInv
      <3>3. video'[current] = video[current] /\ (modality = "ocr" => config' = config)
        BY <2>1, <3>2
      <3> QED
        BY <2>1, <3>3 DEF NextPresent, Present, Claim
    <2>5. meta[modality][current] = NextPresent(modality, current) =>
                NextPresent(modality, current) = Present(modality, current)
      BY <1>1, <2>1
    <2>6. Present(modality, current)' = NextPresent(modality, current)
      BY DEF Present, NextPresent, Claim
    <2> HIDE DEF E
    <2>7. \/ E = NextPresent(modality, current)
          \/ meta[modality][current] = NextPresent(modality, current)
          => got = NextPresent(modality, current)
      BY <2>1, <2>4, <2>5 DEF CallInv, E
    <2>8. pc = "meta" => data[modality][current] \in Absent \cup {got}
      BY DEF CallInv
    <2> QED
      BY <2>1, <2>3, <2>6, <2>7, <2>8 DEF CallInv, Absent
  <1>7. StubInv'
    <2> SUFFICES ASSUME UNCHANGED run, todo' \subseteq todo,
                        NEW m \in run.stub, NEW v \in Videos, v \in todo \/ v = current,
                        meta[m][v] = NextPresent(m, v)
                 PROVE  FALSE
      BY EvidenceAssumption DEF StubInv, NextPresent, Present
    <2>1. m \in Modalities
      BY DEF TypeOK, Run
    <2> QED
      BY <1>1, <2>1 DEF StubInv
  <1>8. VouchedEvidenceIsRight'
    <2> SUFFICES ASSUME NEW m \in Modalities, NEW v \in Videos,
                        meta[m][v] = NextPresent(m, v), data[m][v] \notin Absent
                 PROVE  data[m][v] = meta[m][v]
      BY DEF VouchedEvidenceIsRight, NextPresent, Present, Absent
    <2> QED
      BY <1>1 DEF VouchedEvidenceIsRight
  <1> QED
    BY <1>4, <1>5, <1>6, <1>7, <1>8

\* The file of a video, and the setting, are replaced by new ones.
LEMMA InvReplace ==
    ASSUME ~Reverts, TypeOK, TypeOK', EInv,
           NEW v \in Videos, NEW src \in Sources, ReplaceSource(v, src)
    PROVE  EInv'
  <1>1. /\ \A w \in Videos : video'[w] = IF w = v THEN src ELSE video[w]
        /\ past' = past \cup {<<v, video[v]>>}
        /\ <<v, src>> \notin past /\ src # video[v]
        /\ UNCHANGED <<config, manifest, frames, sampled, data, meta, pc, engine, run, todo,
                       current, seen, modality, invalid, got>>
    BY DEF TypeOK, ReplaceSource, Retire, Fresh, evidence, call
  <1>2. ~UsedSource(v, src)
    BY <1>1 DEF UsedSource
  <1> QED
    BY <1>1, <1>2, InvRenewed

LEMMA InvReconfigure ==
    ASSUME ~Reverts, TypeOK, TypeOK', EInv, NEW s \in Settings, Reconfigure(s)
    PROVE  EInv'
  <1>1. /\ config' = s /\ s # config /\ s \notin past
        /\ past' = past \cup {config}
        /\ \A v \in Videos : ~sampled'[v]
        /\ UNCHANGED <<video, manifest, frames, data, meta, pc, engine, run, todo,
                       current, seen, modality, invalid, got>>
    BY DEF TypeOK, Reconfigure, Retire, Fresh, evidence, call
  <1>2. ~UsedSetting(s)
    BY <1>1, EvidenceAssumption DEF UsedSetting
  <1> QED
    BY <1>1, <1>2, InvRenewed

\* A run begins, maybe with new engines: where it has a stub, the metadata is
\* missing or names the description.
LEMMA InvBegin ==
    ASSUME ~Reverts, TypeOK, TypeOK', EInv,
           NEW vs \in SUBSET Videos, NEW r \in Run, NEW es \in EngineChoices,
           Begin(vs, r, es), r.stub \subseteq Stubs(vs, r.use, es)
    PROVE  EInv'
  <1>1. /\ current = None /\ pc' = "pick" /\ run' = r /\ todo' = vs
        /\ engine' = es
        /\ past \subseteq past'
        /\ UNCHANGED <<video, config, manifest, frames, sampled, data, meta,
                       current, seen, modality, invalid, got>>
    BY DEF TypeOK, Begin, Retire, ingestion, evidence, call
  <1>2. ASSUME NEW m \in Modalities, es[m] # engine[m]
        PROVE  ~UsedEngine(m, es[m]) /\ <<m, engine[m]>> \in past'
    <2>1. es[m] \in AllEngines
      BY DEF EngineChoices
    <2>2. <<m, es[m]>> \notin past
      BY <1>2 DEF Begin, Fresh
    <2>3. <<m, engine[m]>> \in past'
      BY <1>2 DEF Begin, Retire
    <2> QED
      BY <1>2, <2>1, <2>2, <2>3 DEF UsedEngine
  <1>3. StubInv'
    <2> SUFFICES ASSUME NEW m \in r.stub, NEW v \in vs, meta[m][v] = NextPresent(m, v)
                 PROVE  FALSE
      BY <1>1, EvidenceAssumption DEF StubInv, NextPresent, Present
    <2>1. m \in Modalities /\ m \in Stubs(vs, r.use, es)
      BY DEF Run
    <2>2. meta[m][v] \notin Absent /\ meta[m][v].engine = es[m] /\ es[m] \in AllEngines
      BY <1>1, <2>1, NextFields DEF EngineChoices
    <2>3. meta[m][v] = Claim(m, Read(v).source, Read(v).setting, Described[es[m]])
      BY <2>1, <2>2 DEF Stubs, Described_Valid, Valid, LegacyValid
    <2>4. es[m] = Described[es[m]]
      BY <2>2, <2>3 DEF Claim
    <2> QED
      BY <2>2, <2>4, EvidenceAssumption
  <1> QED
    BY <1>1, <1>2, <1>3, InvRenewed

-----------------------------------------------------------------------------
(* Ingestion *)

LEMMA InvIngest ==
    ASSUME TypeOK, EInv, NEW v \in Videos, Ingest(v) \/ IngestForced(v)
    PROVE  EInv'
  <1> USE DEF EInv
  <1>1. UNCHANGED <<video, config, data, meta, pc, engine, run, todo, current, seen,
                    modality, got, past>>
    BY DEF Ingest, IngestForced, IngestMetadata, Inspect, IngestFrames, IngestManifest,
           evidence, call
  <1>2. CallInv' /\ StubInv' /\ VouchedEvidenceIsRight'
    <2>1. CallInv'
      BY <1>1 DEF CallInv, Expected, Present, Claim, Info
    <2>2. StubInv'
      BY <1>1 DEF StubInv, Present
    <2>3. VouchedEvidenceIsRight'
      BY <1>1 DEF VouchedEvidenceIsRight, Present
    <2> QED
      BY <2>1, <2>2, <2>3
  <1>3. ASSUME \A w \in Videos : w # v => manifest'[w] = manifest[w],
               manifest'[v] # None =>
                    UsedSource(v, manifest'[v].source) /\ UsedSetting(manifest'[v].setting)
        PROVE  UsedInv'
    <2>1. \A w \in Videos : manifest'[w] # None =>
            UsedSource(w, manifest'[w].source) /\ UsedSetting(manifest'[w].setting)
      BY <1>3 DEF UsedInv
    <2> QED
      BY <1>1, <2>1 DEF UsedInv, UsedSource, UsedSetting, UsedEngine
  <1>4. ASSUME \A w \in Videos : w # v =>
                    /\ manifest'[w] = manifest[w]
                    /\ sampled'[w] = sampled[w]
                    /\ frames'[w] = frames[w],
               \/ frames'[v] = Right(v)
               \/ /\ frames'[v] = frames[v]
                  /\ ~sampled'[v]
                  /\ manifest'[v] = Right(v) => frames[v] = Right(v)
        PROVE  FramesInv'
    <2> SUFFICES ASSUME NEW w \in Videos,
                        \/ /\ sampled'[w]
                           /\ manifest'[w] # None
                           /\ manifest'[w].source = video[w]
                        \/ manifest'[w] = Right(w)
                        \/ meta["ocr"][w] = Present("ocr", w)
                        \/ current = w /\ seen = Right(w)
                 PROVE  frames'[w] = Right(w)
      BY <1>1 DEF FramesInv, Right, Present
    <2>1. CASE w # v
      BY <1>4, <2>1 DEF FramesInv
    <2>2. CASE w = v
      BY <1>4, <2>2 DEF FramesInv
    <2> QED
      BY <2>1, <2>2
  <1>5. CASE IngestMetadata(v) \/ IngestForced(v)
    <2>1. /\ manifest' = [manifest EXCEPT ![v] = [source |-> video[v], setting |-> None]]
          /\ sampled' = [sampled EXCEPT ![v] = FALSE]
          /\ frames' = frames
      BY <1>5 DEF IngestMetadata, IngestForced, Inspect
    <2>2. manifest'[v] = [source |-> video[v], setting |-> None] /\ ~sampled'[v]
      BY <2>1 DEF TypeOK
    <2>3. UsedSource(v, manifest'[v].source) /\ UsedSetting(manifest'[v].setting)
      BY <2>2 DEF UsedSource, UsedSetting
    <2>4. manifest'[v] # Right(v)
      BY <2>2, RightFields, EvidenceAssumption DEF TypeOK
    <2> QED
      BY <1>2, <1>3, <1>4, <2>1, <2>2, <2>3, <2>4 DEF TypeOK
  <1>6. CASE IngestFrames(v)
    <2>1. /\ sampled' = [sampled EXCEPT ![v] = TRUE]
          /\ frames' = [frames EXCEPT ![v] = Right(v)]
          /\ manifest' = manifest
      BY <1>6 DEF IngestFrames, Right
    <2> QED
      BY <1>2, <1>3, <1>4, <2>1 DEF TypeOK, UsedInv
  <1>7. CASE IngestManifest(v)
    <2>1. /\ sampled[v] /\ manifest[v] # None
          /\ sampled' = [sampled EXCEPT ![v] = FALSE]
          /\ manifest' = [manifest EXCEPT ![v] = [source |-> manifest[v].source,
                                                  setting |-> config]]
          /\ frames' = frames
      BY <1>7 DEF IngestManifest
    <2>2. manifest'[v] = [source |-> manifest[v].source, setting |-> config] /\ ~sampled'[v]
      BY <2>1 DEF TypeOK
    <2>3. UsedSource(v, manifest'[v].source) /\ UsedSetting(manifest'[v].setting)
      BY <2>1, <2>2 DEF UsedInv, UsedSetting
    <2>4. manifest'[v] = Right(v) => frames[v] = Right(v)
      <3>1. manifest'[v] = Right(v) => manifest[v].source = video[v]
        BY <2>2 DEF Right
      <3> QED
        BY <2>1, <3>1 DEF FramesInv
    <2> QED
      BY <1>2, <1>3, <1>4, <2>1, <2>2, <2>3, <2>4 DEF TypeOK
  <1> QED
    BY <1>5, <1>6, <1>7 DEF Ingest

-----------------------------------------------------------------------------
(* Runs of the text pipeline *)

\* A step that saves nothing, and after which nothing extracted waits to be saved.
LEMMA InvQuiet ==
    ASSUME TypeOK, EInv,
           UNCHANGED <<ingestion, evidence, engine, run, past>>,
           todo' \subseteq todo,
           current' = None \/ UNCHANGED <<current, seen>>,
           pc' \notin {"save", "meta"}
    PROVE  EInv'
  <1> USE DEF EInv
  <1>1. UNCHANGED <<video, config, manifest, frames, sampled, data, meta>>
    BY DEF ingestion, evidence
  <1>2. UsedInv'
    BY <1>1 DEF UsedInv, UsedSource, UsedSetting, UsedEngine
  <1>3. FramesInv'
    BY <1>1, EvidenceAssumption DEF FramesInv, Right, Present
  <1>4. CallInv'
    BY DEF CallInv
  <1>5. StubInv'
    BY <1>1, EvidenceAssumption DEF StubInv, Present
  <1>6. VouchedEvidenceIsRight'
    BY <1>1 DEF VouchedEvidenceIsRight, Present
  <1> QED
    BY <1>2, <1>3, <1>4, <1>5, <1>6

\* A manifest that names the present setting was read, so its frames are there.
LEMMA InvPick ==
    ASSUME TypeOK, EInv, NEW v \in Videos, Pick(v)
    PROVE  EInv'
  <1> USE DEF EInv
  <1>1. UNCHANGED <<video, config, manifest, frames, sampled, data, meta, engine, run, past>>
        /\ current' = v /\ seen' = Read(v) /\ pc' = "validate"
        /\ v \in todo /\ todo' \subseteq todo
    BY DEF Pick, ingestion, evidence
  <1>2. /\ UsedSource(v, Read(v).source)
        /\ UsedSetting(Read(v).setting)
        /\ Read(v) = Right(v) => frames[v] = Right(v)
    <2>1. CASE manifest[v] = None
      <3>1. Read(v) = [source |-> video[v], setting |-> None]
        BY <2>1 DEF Read
      <3>2. Read(v) # Right(v)
        BY <3>1, RightFields, EvidenceAssumption DEF TypeOK
      <3> QED
        BY <3>1, <3>2 DEF UsedSource, UsedSetting
    <2>2. CASE manifest[v] # None
      BY <2>2 DEF Read, UsedInv, FramesInv
    <2> QED
      BY <2>1, <2>2
  <1>3. UsedInv'
    BY <1>1, <1>2 DEF UsedInv, UsedSource, UsedSetting, UsedEngine
  <1>4. FramesInv'
    BY <1>1, <1>2 DEF FramesInv, Right, Present
  <1>5. CallInv'
    BY <1>1 DEF CallInv
  <1>6. StubInv'
    BY <1>1 DEF StubInv, Present
  <1>7. VouchedEvidenceIsRight'
    BY <1>1 DEF VouchedEvidenceIsRight, Present
  <1> QED
    BY <1>3, <1>4, <1>5, <1>6, <1>7

\* If what a call expects, or what the metadata says, is in force, then so is the
\* engine it runs.
LEMMA EngineInForce ==
    ASSUME TypeOK, EInv, current # None, NEW m \in Modalities,
           \/ Expected(m) = Present(m, current)
           \/ meta[m][current] = Present(m, current)
    PROVE  Info(m) = engine[m]
  <1>1. current \in Videos
    BY DEF TypeOK
  <1>2. CASE Expected(m) = Present(m, current)
    BY <1>1, <1>2, ExpectedFields, PresentFields
  <1>3. CASE meta[m][current] = Present(m, current)
    BY <1>1, <1>3 DEF EInv, StubInv, Info
  <1> QED
    BY <1>2, <1>3

\* The same for the frames.
LEMMA FramesInForce ==
    ASSUME TypeOK, EInv, current # None,
           \/ Expected("ocr") = Present("ocr", current)
           \/ meta["ocr"][current] = Present("ocr", current)
    PROVE  frames[current] = Right(current)
  <1>1. current \in Videos /\ "ocr" \in Modalities
    BY DEF TypeOK, Modalities
  <1>2. CASE Expected("ocr") = Present("ocr", current)
    <2>1. seen.source = video[current] /\ seen.setting = config
      BY <1>1, <1>2, ExpectedFields, PresentFields
    <2>2. seen = Right(current)
      BY <2>1 DEF TypeOK, Manifest, Right
    <2> QED
      BY <1>1, <2>2 DEF EInv, FramesInv
  <1>3. CASE meta["ocr"][current] = Present("ocr", current)
    BY <1>1, <1>3 DEF EInv, FramesInv
  <1> QED
    BY <1>2, <1>3

\* An extraction that has something to save.
LEMMA InvExtracted ==
    ASSUME TypeOK, EInv, pc = "extract", pc' = "save",
           UNCHANGED <<ingestion, evidence, engine, run, todo, current, seen, modality,
                       invalid, past>>,
           \/ Expected(modality) = Present(modality, current)
           \/ meta[modality][current] = Present(modality, current)
           => got' = Present(modality, current)
    PROVE  EInv'
  <1> USE DEF EInv
  <1>1. UNCHANGED <<video, config, manifest, frames, sampled, data, meta>>
    BY DEF ingestion, evidence
  <1>2. UsedInv'
    BY <1>1 DEF UsedInv, UsedSource, UsedSetting, UsedEngine
  <1>3. FramesInv'
    BY <1>1 DEF FramesInv, Right, Present
  <1>4. CallInv'
    <2>1. Expected(modality)' = Expected(modality)
      BY <1>1 DEF Expected, Claim, Info
    <2>2. Present(modality, current)' = Present(modality, current)
      BY <1>1 DEF Present, Claim
    <2> QED
      BY <1>1, <2>1, <2>2 DEF CallInv
  <1>5. StubInv'
    BY <1>1 DEF StubInv, Present
  <1>6. VouchedEvidenceIsRight'
    BY <1>1 DEF VouchedEvidenceIsRight, Present
  <1> QED
    BY <1>2, <1>3, <1>4, <1>5, <1>6

LEMMA InvExtract ==
    ASSUME TypeOK, EInv, ExtractText \/ Transcribe
    PROVE  EInv'
  <1>1. current # None
    BY DEF TypeOK, ExtractText, Transcribe
  <1>2. CASE ExtractText
    <2>1. CASE frames[current] = None
      BY <1>2, <2>1, InvQuiet DEF ExtractText, Leave
    <2>2. CASE frames[current] # None
      <3>1. /\ pc = "extract" /\ modality = "ocr" /\ pc' = "save"
            /\ got' = Claim("ocr", frames[current].source, frames[current].setting, Info("ocr"))
            /\ UNCHANGED <<ingestion, evidence, engine, run, todo, current, seen, modality,
                           invalid, past>>
        BY <1>2, <2>2 DEF ExtractText
      <3>2. "ocr" \in Modalities
        BY DEF Modalities
      <3>3. ASSUME \/ Expected("ocr") = Present("ocr", current)
                   \/ meta["ocr"][current] = Present("ocr", current)
            PROVE  got' = Present("ocr", current)
        BY <1>1, <3>1, <3>2, <3>3, EngineInForce, FramesInForce DEF Right, Present
      <3> QED
        BY <3>1, <3>3, InvExtracted
    <2> QED
      BY <2>1, <2>2
  <1>3. CASE Transcribe
    <2>1. /\ pc = "extract" /\ modality = "asr" /\ pc' = "save"
          /\ got' = Claim("asr", video[current], None, Info("asr"))
          /\ UNCHANGED <<ingestion, evidence, engine, run, todo, current, seen, modality,
                         invalid, past>>
      BY <1>3 DEF Transcribe
    <2>2. "asr" \in Modalities
      BY DEF Modalities
    <2>3. ASSUME \/ Expected("asr") = Present("asr", current)
                 \/ meta["asr"][current] = Present("asr", current)
          PROVE  got' = Present("asr", current)
      <3>1. Info("asr") = engine["asr"]
        BY <1>1, <2>2, <2>3, EngineInForce
      <3> QED
        BY <2>1, <3>1 DEF Present, Claim
    <2> QED
      BY <2>1, <2>3, InvExtracted
  <1> QED
    BY <1>2, <1>3

\* Saving evidence that is not what metadata in force says is impossible.
LEMMA InvSaveData ==
    ASSUME TypeOK, EInv, NEW m \in Modalities, SaveData(m)
    PROVE  EInv'
  <1> USE DEF EInv
  <1>1. /\ pc = "save" /\ modality = m /\ pc' = "meta"
        /\ UNCHANGED <<video, config, manifest, frames, sampled, meta, engine, run, todo,
                       current, seen, modality, got, past>>
    BY DEF SaveData, ingestion, call
  <1>2. current \in Videos /\ got \in Claims
    BY <1>1 DEF TypeOK
  <1>3. \A k \in Modalities, w \in Videos :
            data'[k][w] = IF k = m /\ w = current THEN got ELSE data[k][w]
    BY <1>2, SaveType DEF TypeOK, SaveData
  <1>4. UsedInv'
    BY <1>1 DEF UsedInv, UsedSource, UsedSetting, UsedEngine
  <1>5. FramesInv'
    BY <1>1 DEF FramesInv, Right, Present
  <1>6. CallInv'
    <2>1. Expected(modality)' = Expected(modality)
      BY <1>1 DEF Expected, Claim, Info
    <2>2. Present(modality, current)' = Present(modality, current)
      BY <1>1 DEF Present, Claim
    <2>3. data'[modality][current] = got
      BY <1>1, <1>2, <1>3
    <2> QED
      BY <1>1, <2>1, <2>2, <2>3 DEF CallInv
  <1>7. StubInv'
    BY <1>1 DEF StubInv, Present
  <1>8. VouchedEvidenceIsRight'
    <2> SUFFICES ASSUME NEW k \in Modalities, NEW w \in Videos,
                        meta[k][w] = Present(k, w), data'[k][w] \notin Absent
                 PROVE  data'[k][w] = meta[k][w]
      BY <1>1 DEF VouchedEvidenceIsRight, Present, Absent
    <2>1. CASE k = m /\ w = current
      BY <1>1, <1>2, <1>3, <2>1 DEF CallInv
    <2>2. CASE ~(k = m /\ w = current)
      BY <1>3, <2>2 DEF VouchedEvidenceIsRight
    <2> QED
      BY <2>1, <2>2
  <1> QED
    BY <1>4, <1>5, <1>6, <1>7, <1>8

\* Metadata that is saved mentions only what is in force or was replaced, and if
\* it is in force, the evidence beside it was saved by this call.
LEMMA InvSaveMeta ==
    ASSUME TypeOK, EInv, NEW m \in Modalities, SaveMeta(m)
    PROVE  EInv'
  <1> USE DEF EInv
  <1>1. /\ pc = "meta" /\ modality = m /\ pc' \in {"load", "pick"}
        /\ UNCHANGED <<video, config, manifest, frames, sampled, data, engine, run, todo, past>>
        /\ current' = None \/ UNCHANGED <<current, seen>>
    BY DEF SaveMeta, After, Leave, ingestion
  <1>2. current \in Videos /\ current # None
    BY <1>1 DEF TypeOK
  <1>3. /\ Expected(m) \in Claims
        /\ Expected(m).source = seen.source
        /\ Expected(m).setting = IF m = "ocr" THEN seen.setting ELSE None
        /\ Expected(m).engine = Info(m)
    BY <1>2, ExpectedFields
  <1>4. \A k \in Modalities, w \in Videos :
            meta'[k][w] = IF k = m /\ w = current THEN Expected(m) ELSE meta[k][w]
    BY <1>2, <1>3, SaveType DEF TypeOK, SaveMeta
  <1>5. UsedInv'
    <2>1. /\ UsedSource(current, Expected(m).source)
          /\ UsedSetting(Expected(m).setting)
          /\ UsedEngine(m, Expected(m).engine)
      <3>1. engine[m] \in AllEngines
        BY DEF TypeOK
      <3>2. UsedEngine(m, Info(m))
        BY <3>1, EvidenceAssumption DEF Info, UsedEngine
      <3> QED
        BY <1>2, <1>3, <3>2 DEF UsedInv, UsedSetting
    <2>2. \A k \in Modalities, w \in Videos : meta'[k][w] \notin Absent =>
            /\ UsedSource(w, meta'[k][w].source)
            /\ UsedSetting(meta'[k][w].setting)
            /\ UsedEngine(k, meta'[k][w].engine)
      BY <1>4, <2>1 DEF UsedInv
    <2> QED
      BY <1>1, <2>2 DEF UsedInv, UsedSource, UsedSetting, UsedEngine, Absent
  <1>6. Expected(m) = Present(m, current) =>
            /\ m = "ocr" => frames[current] = Right(current)
            /\ m \notin run.stub
            /\ got = Present(m, current)
            /\ data[m][current] \in Absent \cup {got}
    <2> SUFFICES ASSUME Expected(m) = Present(m, current)
                 PROVE  /\ m = "ocr" => frames[current] = Right(current)
                        /\ m \notin run.stub
                        /\ got = Present(m, current)
                        /\ data[m][current] \in Absent \cup {got}
      OBVIOUS
    <2>1. Info(m) = engine[m] /\ engine[m] \in AllEngines
      BY <1>2, EngineInForce DEF TypeOK
    <2>2. m \notin run.stub
      BY <2>1, EvidenceAssumption DEF Info
    <2> QED
      BY <1>1, <1>2, <2>2, FramesInForce DEF CallInv
  <1>7. FramesInv'
    <2> SUFFICES ASSUME NEW v \in Videos,
                        \/ sampled[v] /\ manifest[v] # None /\ manifest[v].source = video[v]
                        \/ manifest[v] = Right(v)
                        \/ meta'["ocr"][v] = Present("ocr", v)
                        \/ current = v /\ seen = Right(v)
                 PROVE  frames[v] = Right(v)
      BY <1>1, EvidenceAssumption DEF FramesInv, Right, Present
    <2>1. "ocr" \in Modalities
      BY DEF Modalities
    <2> QED
      BY <1>4, <1>6, <2>1 DEF FramesInv
  <1>8. CallInv'
    BY <1>1 DEF CallInv
  <1>9. StubInv'
    <2> SUFFICES ASSUME NEW k \in run.stub, NEW v \in Videos, v \in todo \/ v = current,
                        meta'[k][v] = Present(k, v)
                 PROVE  FALSE
      BY <1>1, EvidenceAssumption DEF StubInv, Present
    <2>1. k \in Modalities
      BY DEF TypeOK, Run
    <2> QED
      BY <1>4, <1>6, <2>1 DEF StubInv
  <1>10. VouchedEvidenceIsRight'
    <2> SUFFICES ASSUME NEW k \in Modalities, NEW w \in Videos,
                        meta'[k][w] = Present(k, w), data[k][w] \notin Absent
                 PROVE  data[k][w] = meta'[k][w]
      BY <1>1 DEF VouchedEvidenceIsRight, Present, Absent
    <2>1. CASE k = m /\ w = current
      BY <1>4, <1>6, <2>1
    <2>2. CASE ~(k = m /\ w = current)
      BY <1>4, <2>2 DEF VouchedEvidenceIsRight
    <2> QED
      BY <2>1, <2>2
  <1> QED
    BY <1>5, <1>7, <1>8, <1>9, <1>10

\* A file that is lost claims nothing.
LEMMA InvDamage ==
    ASSUME TypeOK, EInv, NEW m \in Modalities, NEW v \in Videos, NEW x \in Absent,
           Damage(m, v, x)
    PROVE  EInv'
  <1> USE DEF EInv
  <1>1. UNCHANGED <<video, config, manifest, frames, sampled, pc, engine, run, todo,
                    current, seen, modality, got, past>>
    BY DEF Damage, ingestion, call
  <1>2. \A k \in Modalities, w \in Videos :
            /\ data'[k][w] = data[k][w] \/ data'[k][w] \in Absent
            /\ meta'[k][w] = meta[k][w] \/ meta'[k][w] \in Absent
    <2> DEFINE F == [Modalities -> [Videos -> Claims \cup {None, Bad}]]
    <2>1. data \in F /\ meta \in F /\ x \in Claims \cup {None, Bad}
      BY DEF TypeOK, Absent
    <2> DEFINE Put(f) == [f EXCEPT ![m] = [@ EXCEPT ![v] = x]]
    <2>2. \A k \in Modalities, w \in Videos :
            /\ Put(data)[k][w] = IF k = m /\ w = v THEN x ELSE data[k][w]
            /\ Put(meta)[k][w] = IF k = m /\ w = v THEN x ELSE meta[k][w]
      BY <2>1, SaveType
    <2>3. \/ data' = Put(data) /\ meta' = meta
          \/ meta' = Put(meta) /\ data' = data
      BY DEF Damage
    <2> HIDE DEF Put
    <2> QED
      BY <2>2, <2>3
  <1>3. \A k \in Modalities, w \in Videos :
            meta'[k][w] = Present(k, w) => meta[k][w] = Present(k, w)
    BY <1>2, PresentFields, AbsentIsNoClaim
  <1>4. "ocr" \in Modalities
    BY DEF Modalities
  <1>5. UsedInv'
    BY <1>1, <1>2 DEF UsedInv, UsedSource, UsedSetting, UsedEngine, Absent
  <1>6. FramesInv'
    <2>1. ASSUME NEW w \in Videos, meta'["ocr"][w] = Present("ocr", w)'
          PROVE  meta["ocr"][w] = Present("ocr", w)
      BY <1>1, <1>3, <1>4, <2>1 DEF Present
    <2> QED
      BY <1>1, <2>1 DEF FramesInv, Right
  <1>7. CallInv'
    <2>1. Expected(modality)' = Expected(modality)
      BY <1>1 DEF Expected, Claim, Info
    <2>2. Present(modality, current)' = Present(modality, current)
      BY <1>1 DEF Present, Claim
    <2>3. pc \in {"save", "meta"} => modality \in Modalities /\ current \in Videos
      BY DEF TypeOK
    <2> QED
      BY <1>1, <1>2, <1>3, <2>1, <2>2, <2>3 DEF CallInv, Absent
  <1>8. StubInv'
    <2>1. run.stub \subseteq Modalities
      BY DEF TypeOK, Run
    <2> QED
      BY <1>1, <1>3, <2>1 DEF StubInv, Present
  <1>9. VouchedEvidenceIsRight'
    <2> SUFFICES ASSUME NEW k \in Modalities, NEW w \in Videos,
                        meta'[k][w] = Present(k, w), data'[k][w] \notin Absent
                 PROVE  data'[k][w] = meta'[k][w]
      BY <1>1 DEF VouchedEvidenceIsRight, Present, Absent
    <2> QED
      BY <1>2, <1>3 DEF VouchedEvidenceIsRight
  <1> QED
    BY <1>5, <1>6, <1>7, <1>8, <1>9

-----------------------------------------------------------------------------
(* The theorem *)

\* Every step of the text process preserves the invariant.
LEMMA InvStep ==
    ASSUME TypeOK, EInv, Step
    PROVE  EInv'
  <1>1. ASSUME NEW v \in Videos, Pick(v) PROVE EInv'
    BY <1>1, InvPick
  <1>2. CASE Validate
    BY <1>2, InvQuiet DEF Validate, Leave
  <1>3. ASSUME NEW m \in Modalities, Load(m) PROVE EInv'
    BY <1>3, InvQuiet DEF Load, After, Leave, call
  <1>4. ASSUME NEW m \in Modalities, SaveData(m) \/ SaveMeta(m) PROVE EInv'
    BY <1>4, InvSaveData, InvSaveMeta
  <1>5. CASE ExtractText \/ Transcribe
    BY <1>5, InvExtract
  <1>6. CASE Finish
    BY <1>6, InvQuiet DEF Finish, call
  <1> QED
    BY <1>1, <1>2, <1>3, <1>4, <1>5, <1>6 DEF Step

LEMMA InvFault ==
    ASSUME TypeOK, EInv,
           \/ Raise
           \/ Crash
           \/ \E m \in Modalities, v \in Videos, x \in Absent : Damage(m, v, x)
    PROVE  EInv'
  <1>1. CASE Raise
    BY <1>1, InvQuiet DEF Raise, Leave
  <1>2. CASE Crash
    BY <1>2, InvQuiet DEF Crash, Leave
  <1> QED
    BY <1>1, <1>2, InvDamage

LEMMA InvNext ==
    ASSUME ~Reverts, TypeOK, TypeOK', EInv, [Next]_vars
    PROVE  EInv'
  <1>1. ASSUME NEW vs \in SUBSET Videos, NEW es \in EngineChoices,
               \/ \E m \in Modalities : Command(vs, m, es)
               \/ \E force \in BOOLEAN : Script(vs, force, es)
        PROVE  EInv'
    BY <1>1, CommandIsBegin, InvBegin
  <1>2. CASE UNCHANGED vars
    <2>1. UNCHANGED <<video, config, manifest, frames, sampled, data, meta, pc, engine, run,
                      todo, current, seen, modality, invalid, got, past>>
      BY <1>2 DEF vars, ingestion, evidence, call
    <2> QED
      BY <2>1 DEF EInv, UsedInv, UsedSource, UsedSetting, UsedEngine, FramesInv, Right,
                  CallInv, Expected, Info, StubInv, VouchedEvidenceIsRight, Present, Claim
  <1> QED
    BY <1>1, <1>2, InvStep, InvIngest, InvReplace, InvReconfigure, InvFault DEF Next

\* If no file, setting or engine ever comes back, metadata which vouches for the
\* present ones never lies about the evidence beside it.
THEOREM VouchedIsRight ==
    ASSUME ~Reverts
    PROVE  Spec => []VouchedEvidenceIsRight
  <1>1. Spec => []EInv
    BY InvInit, InvNext, TypeCorrect, PTL DEF Spec
  <1>2. EInv => VouchedEvidenceIsRight
    BY DEF EInv
  <1> QED
    BY <1>1, <1>2, PTL
=============================================================================
