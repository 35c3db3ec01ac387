# TLA+ models of the video retrieval system

This directory holds TLA+ specifications of the parts of the repository whose
correctness depends on the order of steps or on rules that interact: the
publication of the frame index, the ingestion of videos with resume, the
evidence read from text and speech, the search runtime that request threads
share, the searches themselves with their fusion and answers, the search for
sequences of events, the helpers that keep state of their own (query plans,
caches, downloads, shards, the OCR breaker, the development server, the devices
of the models and the batches of the encoder), and the search page in the
browser. The specifications are checked with TLC on small
instances, and the results that matter most are proved with TLAPS for every
value of the constants.

`PROJECT.json` is the machine-readable part: the components, the runs, a mutant
for every property (a plausible bug that the run must find), the source lines of
every definition, the findings, the hazards and the theorems.

    tlc -workers 2 -config PublicationOneWriter.cfg MCFrameIndexPublication.tla
    tlapm FrameIndexPublicationProofs.tla

The server starts with the backend `qwen3_vl` unless it is configured otherwise.
Both backends are modelled where their code differs, but the properties of the
search runtime (`ReadyWasValidated`, `ImplementsSearchProvider`) are about SigLIP2:
the Qwen provider does not have them, as sections 5 and 6 say.

## 1. Inventory

The system ingests videos into frames, vectors and text evidence, publishes one
index over them, and serves queries (known item, question answering, sequences
of events, images) over HTTP.

| Component | State | Operations | Hard behaviour | What makes it correct |
|---|---|---|---|---|
| Frame index publication (`video/frame_index.py`, `atomic_io.py`, `indexes/faiss_siglip_index.py`) | `index/.staging`, `index/generations`, `CURRENT` | `build_frame_index`, `cleanup_stale_staging`, `load_current_frame_index`; `projectctl clean --staging` | exceptions and kills between the steps, power loss with files that were not synced, two writers, `rmtree` in a directory that moves | `CURRENT` and every rollback generation load; readers see an atomic register; a sweep touches staging only |
| Video ingestion (`m15_ingestion_pipeline.py`, `frame_store.py`, `ingest.py`, `ingest_manifest.py`) | per video `metadata.json`, `frames.json`, images, `embeddings.npy`, `manifest.json` | `ingest_path`, `ingest_video`, `plan_resume` and its validators; `projectctl index` | kills between writes of several files, configuration and encoder that change, video files that are replaced in mid-call | what a resume reuses is what a clean run would write; runs always recover; a publication drops no valid video and pairs vectors with their frames |
| Sampling, shots, near-duplicates (`frame_sampler.py`, `frame_dedup.py`, `shot_detection/`) | local variables of one pass | selection of frames while decoding | gaps, ties and missing times; a detector that fails is ignored; a filter applied twice | every point in time and every shot is covered; filtering is stable |
| Search runtime, SigLIP2 (`services/configured_search.py`) and Qwen3-VL (`services/qwen_runtime_search.py`) | lazily loaded bundle, encoder and evidence; last validated generation; last query plan | `_initialize`, searches, `readiness`; the endpoints of `main.py` | racing first requests, reads without the lock, loads that raise, publications and damage while the server runs | every answer comes wholly from one loaded generation of the right backend; readiness vouches for what was validated; nobody waits for ever |
| Text evidence (`m16_text_pipeline.py`, `text_evidence.py`, `text_backends.py`) | per video `ocr.json`, `asr.json` and their metadata | extraction with cache validation | data and metadata are two files; the source hash is taken from the manifest; a fallback accepts evidence without metadata | cached evidence belongs to the present frames and engine |
| Event alignment and temporal refinement (`retrieval/trake.py`, `services/temporal_refiner.py`, `trake_coherence.py`) | none but the region cache | alignment, region building, dense decoding | arithmetic of region bounds, limits that interact, decoding that stops | the best increasing sequence; regions within bounds and budget; refinement never loses |
| Query refiner (`services/query_refiner.py`, `retrieval/qa_query_decomposition.py`) | the refiner made on first use, plans in memory and on disk, the language model | `refine`, `QueryPlanCache.get` and `put`, `_ensure_loaded`, `DeterministicQueryParser.parse` | first searches that race, eviction at the limit, a model that cannot be loaded, rules of the parser that overlap | a plan is one for its text and task, leaves nothing out, and the model is loaded once |
| Text, question and image search with reranking and fusion (`configured_search.py`, `candidate_reranker.py`, `hybrid_ranker.py`, `hybrid_retriever.py`) | none | fusion of visual, OCR and ASR results, reranking, the near-duplicate filter | scores of different scales, ties, a reranker that fails | what is better everywhere comes first; the filter drops neighbours only |
| Question answering (`video_qa.py`, `qa_answer_synthesizer.py`) | none | patterns over the evidence of a row, a remote call within a budget | overlapping patterns, remote failures of every kind | evidence never turns an answer into silence; at most the budgeted calls |
| Region cache (`services/temporal_refiner.py`) | three files per region on disk | `get`, `put`, fingerprint of the video | directories replaced while they are read, videos replaced while they are decoded | what is served is one region of one video file |
| Video source cache (`services/video_source.py`, the video endpoint of `main.py`) | downloaded files, per-video locks | lazy download, byte ranges | several requests for one video, truncated and failed bodies, odd ranges | all replies are cut from one file |
| Query caches and shard coordinators (`distributed/`) | LRU caches, one with expiry | route, search, merge, cache | a shard that fails, expiry, threads that share a cache | an answer is the best of the shards that answered |
| Adaptive OCR (`text_backends.py`) | a breaker that outlives videos | read with one engine, then with another | failures between successes, a second engine that fails too | an engine is given up for a reason, and no good text is lost |
| Development supervisor (`run_dev.py`) | a process group, a server thread, proxied requests | start, proxy, stop | Ctrl+C at any step, a port in use, a backend that ends by itself | nothing that was started is left |
| Search page (`frontend/src/scripts/`) and the checks of the endpoints | mode, inputs, results, requests under way, clipboard | every button and key, answers, copies | answers that come late, edits and copies meanwhile | what is shown and copied belongs to one search; the page does not stay busy |
| Command line (`projectctl.py`) | none of its own | forwards to the above | `clean` and `index` beside a running ingestion | see the components |
| Device policy and visual encoder (`runtime/device_policy.py`, `embeddings/siglip2.py`, `projectctl.py`, the constructors of each model) | the device of each component; the batch in progress | requests for devices, their resolution, the report of `/health`; encoding in batches | options, variables and older variables that overlap; libraries that see different GPUs; a GPU that runs out of memory in mid-batch | each component runs where it was asked to and reports it; the n-th embedding is that of the n-th item |
| Dataset tools, scoring, evaluation, earlier pipelines, deployment | none that the server depends on | reports and arithmetic | none concurrent | not modelled |

How they interact:

- `ingest_path` runs `ingest_video` per video, then passes the manifests that
  are compatible to `build_frame_index`; `projectctl index` calls it as well.
- The text pipeline reads the manifest and the frames of ingestion; a search
  that refines events decodes the videos again, through the region cache.
- The sampler and the duplicate filter are called by the frames stage of
  ingestion, once each; the adaptive OCR backend by the text pipeline, for every
  video of a run.
- A search asks the query refiner for a plan, searches its parts, fuses and
  filters; a question is then answered from the evidence of each row.
- The page posts searches to the endpoints of `main.py` and plays videos from
  the video endpoint; in development both go through the proxy of `run_dev.py`.
- The search runtime loads the generation that `CURRENT` names, once per
  process, together with the evidence files; `/health/ready` validates the
  published generation on its own.
- Everything between processes goes through files: there are no locks between
  them, only atomic renames. Inside the server, request threads share one
  provider object with one lock.

## 2. Plan

In order of importance; all of it is done.

1. `FrameIndexPublication` with the abstract `PublishedIndex`.
2. `VideoIngestion`, with the publication as one step of it.
3. `SearchRuntime` with the abstract `SearchProvider`; a publication is one step.
4. `TextEvidence`: the evidence files, their validators and the legacy fallback,
   against a manifest that ingestion changes meanwhile.
5. `EventSearch`: the region builder, the dense decoding, the aligner and the
   greedy alignment of the Qwen backend, against reference definitions.
6. The services with state of their own, one module each, composed in `Services`:
   `QueryPlans` over `QueryParser`, `RegionCache`, `VideoSource`,
   `ShardedSearch`, `AdaptiveOcr`, `DevServer`, `FrameSampling`, `VisualEncoder`
   over `DevicePolicy`.
7. `TextSearch` over `AnswerExtraction`: what one search computes; `SearchTasks`
   puts it and `EventSearch` behind the one endpoint that they share.
8. `SearchPage` over `SearchApi`: the browser and the checks of the server.
9. A theorem for every invariant and action property of the passing runs, with
   the inductive invariant it needs; `PlanKeepsTheQuery`, about every rule of the
   parser, came last.

## 3. The modules

| Module | Role |
|---|---|
| `PublishedIndex` | abstract: a register that readers read in two steps |
| `FrameIndexPublication` | the files, the pointer, builders, sweepers, readers |
| `FrameIndexPublicationProofs` | its theorems |
| `MCFrameIndexPublication` | symmetry for TLC |
| `VideoIngestion` | the per-video store, the stages, resume, publication |
| `VideoIngestionProofs` | its theorems |
| `MCVideoIngestion` | two sources, two settings, encoders as values |
| `TextEvidence` | evidence and metadata, runs and stubs, ingestion beside them |
| `TextEvidenceProofs` | its theorems |
| `MCTextEvidence` | descriptions of engines for TLC |
| `SearchProvider` | abstract: load once, answer wholly from what was loaded |
| `SearchRuntime` | lazy initialisation, searches, probes, with either backend |
| `SearchRuntimeProofs` | its theorems |
| `MCSearchRuntime` | extends it for TLC |
| `EventSearch` | refinement and both alignments of one request |
| `EventSearchProofs` | its theorems |
| `MCEventSearch` | outcomes of event searches and dense scores for TLC |
| `SearchTasks` | one request of either kind, composing `TextSearch` and `EventSearch` |
| `MCSearchTasks` | the instances of both for TLC |
| `AnswerExtraction` | the patterns of the extractive answerer |
| `TextSearch` | one text, question or image search |
| `TextSearchProofs` | its theorems |
| `MCTextSearch` | corpora and requests for TLC |
| `QueryParser` | queries as sequences of words, plans, the merge with the model's answer |
| `QueryPlans` | the refiner, its caches and its model under concurrent searches |
| `RegionCache` | cached regions of a video |
| `VideoSource` | downloads and byte ranges |
| `ShardedSearch` | the two coordinators and their caches |
| `AdaptiveOcr` | the OCR backend with two engines and a breaker |
| `DevServer` | the development supervisor |
| `FrameSampling` | which frames of a video are kept |
| `DevicePolicy` | which device each component is asked for, gets and reports |
| `VisualEncoder` | batches of images and texts on such a device |
| `Services` | the modules from `QueryPlans` on, side by side |
| `ServicesProofs` | their theorems, one section per service, and of all together |
| `MCServices` | words, plans, ranges, shards, readings, videos and devices for TLC |
| `SearchApi` | what the search endpoints accept |
| `SearchPage` | the search page |
| `SearchPageProofs` | its theorems |
| `MCSearchPage` | files and results for TLC |

### FrameIndexPublication

`place` and `files` are the directory tree under `index/`: where the directory
of a generation is and, for each of its four files, the content it was written
from (or `Missing`, or `Torn`). `current` is `CURRENT`. A publisher walks
through `build_frame_index` one file operation at a time: sweep (`Begin`,
`SweepOpen`, `SweepUnlink`, `SweepRmdir`), draw an id and make the directory
(`Mint`), `Collect`, the four files, `Validate`, `Rename`, `Publish`, `Load`.
`shutil.rmtree` is modelled by what it does: it opens the directory, takes the
names that are there, unlinks them through the open directory (which another
process may have renamed), and removes the directory if it is empty. `Fail` is
an exception at any step, `Crash` the end of the process, `LosePower` the end of
the machine: files that were written without `fsync` may be torn. A reader takes
the pointer (`ReadPointer`) and then loads the generation (`ReadGeneration`).

Contents are abstract: a content may fail the shape check (not in
`Collectable`) or only validation (not in `Canonical`). That files are compared
by checksum appears as equality of the content they were written from.

### VideoIngestion

The variables `metadata`, `records`, `images`, `embeddings` and `manifest` are
the files of each video; a file holds which source, setting and encoder it was
made from and for which frames. The program counter follows `ingest_video` from
write to write: every replacement of a file is an action, because the process
may be killed between any two. `Plan` is `plan_resume` with its three
validators; `Compatible` is the filter of `ingest_path`; `Published` is what
`build_frame_index` puts in the index (the publication itself is atomic here,
which `FrameIndexPublication` justifies with one writer). `Retained` is the
near-duplicate filter. `Start` begins a run over some of the videos with any
configuration, encoder and `--force`; `ReplaceSource` replaces a video file,
between runs or during one; `CommandIndex` is `projectctl index`.

A configuration is a model value: what matters of it is its fingerprint, the
frames it selects, whether it filters near-duplicates, the image format and the
frame id policy. Shot frames are an outcome of sampling: the detector may also
fail, and the code goes on without them.

### TextEvidence

`data` and `meta` are `ocr.json`, `asr.json` and their metadata, per modality
and video. A file holds a claim: the source, the frames (a setting; speech does
not depend on them) and the engine. For `data` the claim is what the evidence
was really made from, for `meta` what the fingerprint says; the text itself is
left out. `video`, `config`, `manifest`, `frames` and `sampled` are what of
ingestion matters: `manifest.json` may be ahead of or behind `frames.json`
because the frames stage saves one and then the other (`IngestFrames`,
`IngestManifest`), and ingestion runs at any time.

A run (`Command` for `projectctl ocr` and `asr`, `Script` for a pipeline that a
script constructs, with both modalities and perhaps `force`) takes its videos in
any order: `Pick` reads the manifest, `Validate` compares fingerprints and
returns if there is nothing to do, `Load` reads what is valid, `ExtractText` or
`Transcribe` makes new evidence, `SaveData` and `SaveMeta` save it. `Valid` is
the validators, `LegacyValid` their fallback. The command constructs a stub in
place of an engine when all evidence looks valid (`Stubs`); it judges that by a
description of the engine that never equals what the engine itself says, since
`info()` has more fields (`EvidenceAssumption`). Images and `frames.json` are
one thing here, read in one step. The near-duplicate filter later shortens
`frames.json` without a new fingerprint of the frames; it is left out, so that
evidence of a frame that was dropped counts as evidence of these frames.

### SearchRuntime

One process with one provider. `bundle`, `encoder`, `evidence`, `lock`,
`lastPlan` and `validated` are the fields of the provider object. A request
looks at the bundle (`Arrive`), takes the lock and looks again (`Acquire`),
reads `CURRENT`, validates, and then runs the steps of its backend's
`_initialize`; `SiglipOrder` and `QwenOrder` are those orders, and they are the
only difference between the backends on this path. The search then reads
encoder, bundle and evidence one by one. `Target` is the difference between the
two readiness probes. Generations of the other backend (`Foreign`), damage,
new publications and restarts of the process come from outside.

Queries and scores are left out: an answer is the generation it came from, or
"partial". A request that ends with a handled exception is "refused" (the
endpoint says 503, or 400 for a `ValueError`, which includes a damaged index);
one that ends with an exception the endpoint does not handle is "assertion".
The constructor of the default Qwen encoder does nothing that raises, so
`StoreEncoder` does not; with another `encoder_factory` that raises, the Qwen
provider would stay without an encoder for good, because its bundle is set.

### EventSearch

One request for a sequence of events, from the results of the event searches
(`found`) to `answer`. With the SigLIP2 backend, `BuildRegions` takes one video
of `build_candidate_regions` after the other, best candidate first: windows
around the candidates, merged where they overlap (`Merged`), cut to the best of
a video (`Kept`) and to the sum over all videos (`Taken`). `Decode` decodes the
frames of a video's regions (`Targets`) as far as the file goes, `Merge` gives
every event every decoded frame with the better of its scores, `FallBack` is an
exception anywhere, and `Align` the dynamic program of `TRAKEAligner`. With the
Qwen backend, `GreedyAlign` follows `QwenRuntimeSearch.search_trake`. Scores are
integers that come from outside; the region cache is left out, since a hit is
meant to give what decoding gives; `search_trake` uses the aligner without
penalty and gap limit, the model with any. `Targets` takes both ends of a region,
as the code does, and so may have one frame more than `MaxFrames` (finding 2).

### TextSearch, AnswerExtraction

One search, after its plan is known, from the results of the index and of the
text evidence to the rows and answers. `corpus` says which frames each visual
query hits with which score, and which OCR and ASR records there are; a record
carries the outcome of matching its text, so no text is taken apart here.
`SearchSingle` (linear fusion), `SearchMultiPath` (reciprocal-rank fusion),
`SearchImage` and `SearchQwen` rank the candidates; `Rerank` is the
`CandidateReranker`, which may fail. The texts of one frame are put together and
scored as one (`JoinedLexical`, by their sequence; `InOrder` is the order in which
the file has them, which is left open). With the SigLIP2 backend a segment of
speech belongs to the frames it covers, with Qwen to the frame nearest to the
middle of the segment (`NearestFrame`). `TakeRow` and `SkipRow` are the turns of the
near-duplicate loop; and `AnswerRow`, `AnswerFromSnippet`, `AskRemote` and
`RemoteRaises` answer one row of a question, with the patterns of `video_qa.py`
(`Extract`) or the remote model within `RemoteTopN`. A remote call that raises may have been counted
already: `RemoteRaises` leaves that open.
Scores are integers; `Unit` makes reciprocal ranks integers, so that ties of the
model are those of exact arithmetic.

### SearchTasks

`handle` looks at `query_type` and gives a request to one of the two searches
(`HandleRows`, `HandleTrake`). They share the index, which neither changes, and no
state, so `queryType` says which of them a behaviour uses. The run `search_tasks`
checks the properties of both.

### QueryParser, QueryPlans

A query is a sequence of words, each with the patterns that match it; `Parse` is
`DeterministicQueryParser.parse` over these, rule by rule and in its order
(exact strings, what is kept, captions, objects, stages), `Refined` the merge
with a valid answer of the language model, `Decompose` and `EventQueries` what is
made of questions and of TRAKE requests before and after. A regular expression is
thereby the set of words it matches; the words of an instance are chosen so that
every pattern, and every pair that may overlap, occurs. A word carries what it is
without regard to case and what is left of it without its marks (`TP.HCM` becomes
`TPHCM`), because the code takes every occurrence of an exact text out of the
caption, in any case (`Caption`), before it cleans the words.

In `QueryPlans` each client is a request thread in `QueryRefiner.refine`: making
and taking the refiner (no lock), memory, disk, parser, model (`LookForModel`,
`LockModel`, `LoadModel`, `Generate`), and both writes of the cache. `disk`
outlives `RestartPlans`. A plan that cannot be read from or written to disk is a
choice in `ReadDisk` and `Save`. A question is refined under the task "kis", as a
search is (`configured_search.py:622`), so that both share key and plan
(`TaskOf`); only TRAKE has a task of its own. The parser's rules for the task "qa"
are run by no caller and are left out.

### RegionCache

`files` are directories, numbered by the request that made them, each with the
version of the video that its parts tell of; `region` is the one that has the
name. Readers take the three parts one after the other by that name, writers
stage, look for an old directory, remove it through an open descriptor and
rename. `Decode` may meet a newer video than `Fingerprint` did. A mixture of two
versions is refused only if the counts of records and vectors differ, which is a
choice.

### VideoSource

`Resolve`, `LockVideo`, `Connect`, `ReadChunk`, `EndOfBody` and `LoseConnection`
are `resolve_video_path` with its download; sizes are chunks. The body ends when
the connection does, early or not, unless `read` raises. `Serve` is the endpoint
with its range; the errors of both are `Refuse`.

### ShardedSearch

`kind` tells `DistributedCoordinator` from `M10Coordinator`, which differ in
routing, in the fusion (best score, normalised per shard for the second) and in
the cache (expiry for the second). `AskShard` asks one shard after the other,
each of which may fail. `HitCache` and `MissCache` look into the cache long
before `MergeAndKeep` writes it: other threads do the same in between.

### AdaptiveOcr

An action is one image with everything both engines make of it: `ReadPrimary`,
`ReadAfterError`, `ReadTripped`. `attempts` is a history of what happened, for
the properties only.

### DevServer

`main` is where `main` of `run_dev.py` is; `Interrupt` is Ctrl+C, at any step.
`page` is the `ThreadingHTTPServer` with its thread, `group` the process group
(`projectctl`, the leader, and `uvicorn`), `proxy` the handlers of requests for
`/api`. `EndServer` and `EndLeader` are the processes themselves.

### FrameSampling

`DecodeFrame` is one turn of the loop of `iter_sample_frames`, `EndOfVideo` its
end with the frames of shots added and merged, `FilterFrames` the near-duplicate
filter. `VideoIngestion` has the results as constants and the filter over several
calls.

### DevicePolicy, VisualEncoder

A site is what does not change while a process runs: which process it is (the
server or a command), its variables and options, the OCR engine asked for, the
batches it will embed, and what each library says of the hardware.
`DeviceRequest` and `ResolveDevice` are `device_request` and `resolve_device`.
`Make(c)` makes a component once, as its constructor does (`HostOf`), and keeps
what it was asked for, what it says it uses and what its library is told to use;
`RuntimeSummary` is the report of `/health`. `VisualEncoder` embeds batches on
the device the encoder was made for: `StartBatch` is a call, `EncodeBatch` one
batch of it, `OutOfMemory` halves a size that was automatic or gives up,
`FailBatch` is any other exception. A text longer than the window is truncated
(`site.truncates`, from `SIGLIP_LONG_TEXT_MODE`) or cut into pieces of `Window`
tokens that share `Stride` (`PiecesOf`). A piece is decoded to a text, which is
tokenised again and truncated: it may lose tokens at its end (`Retokenised`),
how many is up to the tokeniser (`site.lost`). The floats of `linspace` are whole
numbers here, which agrees with them as long as there are at most 30 pieces.

### Services

The eight services share no state, so their composition would be a product of
independent state spaces. `service` says which of them a behaviour uses; the
others stay in an initial state. `Init` picks any setting of the one in use.

### SearchPage, SearchApi

A handler of the page runs to its end; it waits for the answer of a search and
for the clipboard, and these are separate actions (`Respond`, `Copied`), in any
order with all other handlers. A request is known by the value that
`requestVersion` had. `SearchApi` has the checks of the page, the body that is
sent and the checks of the server, in the order of `main.py`. Rows are records
of what the clipboard format depends on.

## 4. The runs

| Run | Instance | Shows |
|---|---|---|
| `publication_one_writer` | 2 publishers, a cleaner, a reader, 3 generations, 4 contents, one writer at a time | all safety properties and the refinement of the register, with exceptions and kills at every step |
| `publication_races` | 2 publishers that sweep each other's staging, 2 generations, 3 contents, power loss | what survives races and power loss: a generation may lose files but never mixes two builds, and `CURRENT` names a renamed generation |
| `ingestion_resume` | 1 video, 2 contents, 2 settings, 2 faults | resumed artifacts are clean; every run recovers |
| `ingestion_library` | 2 videos, 2 settings, 2 encoders that once were "default", 1 fault | publications match and keep, across videos, settings and encoders; only vectors of the "default" revision leave the index |
| `text_evidence` | 1 video, 2 contents, 2 settings, 2 OCR engines and 1 ASR engine, 1 fault, 1 change | vouched evidence is right; commands converge |
| `search_siglip2` | 2 requests, a probe, 3 generations (one foreign) | the refinement, readiness and termination |
| `search_qwen_encoder` | the same, Qwen | finding: a request finds a bundle without an encoder |
| `search_tasks` | rows: 2 videos of 3 frames, up to 2 texts, 7 sets of visual scores, 14 kinds of requests of both backends; events: 2 videos of 7 frames, 2 or 3 events of up to 2 candidates, 12,184 searches, both backends | fusion and filter are sound, evidence helps; the answer is the best sequence, and refinement stays local and harmless |
| `event_search_frames` | the events | finding: a region is decoded at one frame more than the limit |
| `event_search_greedy` | the events | finding: a request is refused although a video covers its events |
| `services` | 5281 settings of eight services: all queries of up to 3 words, 2 clients, two spellings of a TRAKE request, a question and a search of one text, 3 requests for a region, 2 players, 2 callers, 4 images, every browser request, all recordings of up to 5 frames, the server and the commands with 3 kinds of hardware and every request for a device | each service is sound, and answers |
| `search_page` | 2 searches, 2 events, 2 results, 2 images | results, buttons and copies stay together; the page and the server agree |

Properties, in words:

- `GenerationsLoad`: `CURRENT` and all earlier generations pass
  validation after any interruption. `AtMostOneStaging`: interrupted builds do
  not pile up. `CleanupScoped`: no step changes a published generation.
  `ReturnsOwn`: a call reports the generation it published.
  `ImplementsPublishedIndex`: readers see an atomic register.
- `DamageOnlyTakesAway`, `CurrentWasRenamed`: what remains with races and power
  loss. Each file of a generation that was renamed into place holds the one
  content its build was validated with, or is damaged or missing; so a generation
  that loads is one whole index, and `CURRENT` never names a staged or swept one.
- `ResumedFramesAreClean`: if `plan_resume` says "complete", the artifacts are
  those of a clean run on the present file with the present setup. `Recovers`:
  runs over the directory end in a clean published index of every video, again
  and again. `PublishedMatch`, `PublicationKeeps`: what a publication contains
  is right, and it agrees with the plan: it contains every video that a run under
  the same setup would reuse, except those whose vectors carry the "default"
  revision, which the plan accepts and the publication always leaves out.
- `VouchedEvidenceIsRight`: metadata with the fingerprint of the present file,
  setting and engine is true of the evidence beside it, whatever was killed and
  however ingestion ran meanwhile. `EvidenceConverges`: once faults and changes
  end, the commands end with evidence that is accepted for every modality and
  video; a damaged file of one modality stops the other only until it is
  repaired.
- `ImplementsSearchProvider`: the process loads one generation of its own
  backend in one step, as far as requests can tell. `ReadyWasValidated`: a probe
  reports a generation ready only after a probe has validated that generation
  (SigLIP2 only: the Qwen probe may name one it did not validate,
  `qwen_runtime_search.py:326` to `332`).
  `RequestsEnd`: every request that came in ends. `EncoderIsThere`: fails.
- `BestSequence`: an answer takes one candidate for each event, of one video, in
  the order of the frames, and the dynamic program finds the best of all such
  sequences, compared with all of them. `RefinementKeeps`: the answer is never
  worse than the best sequence of what the searches found, whatever was decoded.
  `RegionsAreSound`: refinement looks only near what was found, always at the
  best candidate, within the limits of regions, at no frame twice.
  `FramesWithinLimit` (at most `max_frames_per_region` frames of a region, as
  `docs/RUNTIME_CONFIG.md:83` says) and `RefusalIsRight`: fail.
- `FilterIsGreedy`: the near-duplicate filter leaves out only what is too close
  to a kept row before it, or comes after `top_k` rows. `RankingIsMonotone`: a
  frame better in every channel comes first, with and without the reranker, and
  fusion does not turn the visual order round among frames with the same text,
  which is what the fusion credits to a frame: for the Qwen backend only the
  segments whose middle it is nearest to, so another frame of a segment may
  come after one that looks less like the query and is nearer to that middle.
  `EvidenceHelps`: if some of a row's texts give an answer, all together give
  one, from a text that supports the question no less. Its confidence may be
  lower: a text with more support and only a bare name (0.65) replaces one that
  names a person with a title (0.85).
- `PlanCacheIsSound`: a search gets a plan for its own text and the task it is
  refined for (which a question shares with a search), from the
  parser or refined once by the model; memories keep their bound and no key
  twice; a model is loaded once. `PlanKeepsTheQuery`: exact strings are searched
  for as texts and are not part of captions, every other word that means
  something is; a part of an object's phrase is no object; stages and events
  hold the words in their order. The exceptions are the code's. If only one
  caption is allowed (`QUERY_REFINER_MAX_VISUAL_VARIANTS` may be 1), the model's
  takes the place of the parser's. A plan from a cache may be that of another
  spelling in upper or lower case, whose stages are then its own. An ordinary
  word that equals an exact string but for its case leaves the caption with it
  (`query_refiner.py:236` to `250`). And an exact string that is cleaned
  before it is compared, such as `TP.HCM`, stays in the caption, although the
  comment at `query_refiner.py:381` says that the caption has none.
- `RegionIsWhole`: a request is served records and vectors of the version it has
  looked at, unless a request for another version, or a replacement, runs beside
  it. `OneFileIsServed`: all replies for a video are cut from one file, as asked.
  `ShardsAnswerAsOne`: an answer of `DistributedCoordinator`, cached or not, is
  the best of what the shards that were up returned; one of `M10Coordinator`
  keeps the order of each shard (its scores are normalised per shard). `BreakerIsEarned`: as many failures in a row as the
  threshold says, over all videos, and no good text lost. `SupervisorCleansUp`:
  after Ctrl+C while main polls, a port in use, or the end of the backend, no
  server is left. `SamplesCoverTheVideo`: every point in time has the nearest
  frame, every shot a frame that is kept, every dropped frame one that looks like
  it. `ServicesAnswer`: whoever asks is answered, whatever fails.
- `DevicesAreHonoured`: a component runs at exactly the device it was asked for,
  index included, or refuses it, and what `/health` reports is what it uses. The
  exception is text recognition, which runs on the first GPU when asked for any.
  `EncodingIsComplete`: the n-th embedding is that of the n-th item however often
  memory runs out. In the mode "truncate" a text is read up to the window;
  otherwise its pieces cover it up to the end of the last, as long as tokenising a
  piece again loses no more than it shares with the next.
- `ResultsStayTogether`: the cards answer the request sent last unless it was
  given up, and copied rows have the form of their search. A change of mode gives a
  request up only while the status says "loading" (`app.js:156` to `161`): after a copy or a
  new image has overwritten the status, the late answer is shown in the new mode. `BusyWhilePending`: the submit button is
  disabled exactly while that request is not answered. `ValidatedIsAccepted`:
  what the page lets through the server does not refuse. `SearchEnds`: the page
  does not stay busy.

Bounds, and why they are enough to be interesting:

- Two publishers and a cleaner give every pair of a builder and a sweeper; a
  third generation lets a build be abandoned, swept and succeeded by another
  while an older one is kept for rollback. Generation ids are used once, as
  random ids are. In `publication_races` each publisher sweeps before it builds, so
  it is the cleaner of the other; the third content is one that fails validation.
- `MaxFaults` bounds the exceptions and kills of a behaviour: with two, a run
  can be interrupted, and the run that repairs it as well. Two contents and
  settings allow one change each; `Reverts = FALSE` says that nothing that was replaced
  comes back: with a setting that is tried, interrupted and taken back, the old
  manifest fits artifacts of two settings.
- Three frames of which two are near-duplicates suffice for a filter that drops
  one; a shot on one of them makes protection matter. The two sources differ in
  length, so a count alone can tell some mixtures apart and not others.
- `MCSimilar` gives all encoders the same near-duplicates. Re-filtering after a
  change of encoder is therefore not exercised (see the hazard at
  `m15_ingestion_pipeline.py:149`).
- `MaxChanges` bounds the contents, settings and engines that are replaced in
  `text_evidence`. With one change and one fault there is a kill before or after
  the change, at every step of a run and beside every step of ingestion. One
  video is enough because a video's evidence depends on no other video, except
  for the choice of stubs, where a second one can only add engines.
- Two requests are one that initialises and one that meets it half-way; two
  generations of the own backend let the pointer move between two loads.
- For `search_tasks` and the two findings about events: seven frames and windows of one frame to each side give a video up to three
  regions, of which two may be kept, and two videos four, of which three may be;
  a merged window is long enough for a larger step. Two candidates per event
  suffice for a choice that a later event regrets.
- Two texts over two videos give every pair of records that match the same or
  neighbouring frames fully, in part or not at all; four rows of which two or
  three are asked for let the filter both drop and run out.
- Three words are enough for every rule of the parser that looks at a word and
  its neighbours (a label before a code, a comma after it, an instruction before
  an object); longer queries are chosen by hand. A memory of one plan evicts at
  every second key, and two searches of each of two clients, whose queries differ
  in case only, share keys. `MaxRefiners = 3` lets both clients make a refiner,
  or one of them after a restart.
- Three requests for one region are a reader between two writers, or two writers
  beside a replacement. A remote file of two chunks can end early, be announced
  larger than it is and be larger than is allowed.
- Two calls of two threads fill a cache of one entry, hit it and evict it; the
  hits of two shards overlap, tie and are empty. A breaker of threshold two over
  four images in videos of two trips within a video and across two.
- `MaxInterrupts = 2`: Ctrl+C while the first one is handled. One browser request
  is enough because handlers share only the server they are cut off by.
- Recordings of up to five frames with gaps, ties and a frame without a time,
  and shots that are empty, overlap or come reversed.
- `MaxVersion = 2` of `search_page`: a second search, or a change of mode, while
  the first one waits, with both answers in either order, and two copies under way.
- Runs without `CHECK_DEADLOCK FALSE` never stop because the process can always
  be restarted; the others stop when ids, faults or calls are used up, or a
  search has ended.

Fairness. `ingestion_resume` assumes `WF(Step)`, that a process that runs goes
on, and `SF(Rerun)`, that the operator runs the command on the directory again
and again: there is no daemon, and resume is meant for exactly that use. Faults
and replacements are never fair. `text_evidence` assumes the same of the text
process, that an ingestion of each video goes on (`WF(Ingest(v))`), and strong
fairness of the two commands with the engines of the day. `search_siglip2` assumes weak fairness of every
request that came in: its thread goes on, encoders and file reads return or
raise, and a free lock is taken. Weak fairness suffices for the lock because the
other requests are finitely many. `services` assumes it of every thread of a
service and of the threads and processes of the development server, for the same
reasons; nobody has to start a search, replace a video or press Ctrl+C.
`search_page` assumes that a request under way is answered, with results or an
error: the server's threads end (`RequestsEnd`), and a connection that breaks is
an error as well.

## 5. The findings

Each has a run whose counterexample is short enough to read.

1. The Qwen provider stores the bundle before the rest
   (`qwen_runtime_search.py:275`): a request beside the first one meets an
   assertion or answers without the text evidence.
2. The refinement decodes one frame more of a region than
   `max_frames_per_region` (`temporal_refiner.py:360`), 51 instead of 50 for a
   region of 251 frames, because the step is made from the length of the region and
   both of its ends are decoded; `docs/RUNTIME_CONFIG.md:83` calls the number the
   maximum.
3. The greedy alignment of the Qwen backend never goes back, and refuses a
   request that has an answer (`qwen_runtime_search.py:466`).

Observations without a run of their own; most are behaviours of the models that a
property is careful not to exclude. The definitions in parentheses can be put
into a configuration in place of the properties of the run, and TLC then shows
the behaviour.

- Videos whose embeddings were made while the revision was "default" are reused
  as complete but left out of the index (`frame_store.py:143`, `ingest.py:46`);
  `PublicationKeeps` states it as it is.
- Evidence without metadata is accepted by comparing the manifest with itself,
  whatever engine made it (`m16_text_pipeline.py:99`; `AcceptedEvidenceIsRight`).
- The query plan of a response is read from a field all requests share
  (`main.py:177`; `QueryPlanIsOwn`).
- `synthesize` promises never to raise but does on an empty list of choices or a
  broken HTTP response, and the request fails (`qa_answer_synthesizer.py:107`;
  `SearchIsAnswered`).
- After a failed search the key C copies a row of the results before it, which
  are no longer on screen (`app.js`; `CopiesWhatIsShown`).
- `projectctl clean --staging` beside a build can unlink files of the generation
  that was renamed into `generations/` (`projectctl.py:634`), which is why the
  properties of the publication assume one writer.
- `projectctl index` does not look at the manifest's status
  (`projectctl.py:462`) and may pair old vectors with new frames.
- Ctrl+C after the page server is bound and before its thread starts makes
  `shutdown()` wait for a loop that never ran; a second Ctrl+C then leaves the
  backend running (`run_dev.py:301`). If `projectctl` alone is killed, `uvicorn`
  stays.
- The breaker of the adaptive OCR counts an exception of the second engine as one
  of the first (`text_backends.py:234`).
- A plan of the deterministic parser that stood in for a failing model is cached
  under the key of the refined plan (`query_refiner.py:818`), so the model is not
  asked again; `docs/RUNTIME_CONFIG.md:108` describes the fallback without that.
- `projectctl ocr`, `asr` and `preprocess` without a device or an arithmetic
  among their options end with an AttributeError (`projectctl.py:369`: `getattr`
  finds the attribute, with the value None, and `None.startswith` raises), although
  `docs/projectctl.md:15` to `17` show these commands (guard `Describable`).
- OCR in "auto" mode does not look at `OCR_DEVICE` (`text_backends.py`); with
  Tesseract and a GPU in `OCR_DEVICE` the report says that OCR is unavailable,
  although Tesseract runs; PaddleOCR and EasyOCR are told to use a GPU, but not
  which one, so `cuda:1` runs on the first (the exceptions of
  `DevicesAreHonoured`). `OCR_PADDLE_DEVICE` is documented
  (`docs/RUNTIME_CONFIG.md:62`) and nowhere read.
- `projectctl ingest` does not look at `VISUAL_DEVICE` (`IngestRequest`). A
  malformed `ASR_DEVICE` or `OCR_DEVICE` makes `/health` raise.
- A download that ends early is cached as the video (`video_source.py:80`), and
  an answer from which a failed shard is missing as the answer
  (`coordinator.py:45`).

## 6. The proofs

**Publication** (`FrameIndexPublicationProofs`), for any number of publishers,
cleaners, readers and generations.

- `TypeCorrect` has no hypotheses beyond the assumptions on the constants; nor
  have `CurrentIsRenamed` and `GenerationsNeverMix`, which hold in any race.
- `InterruptionsAreSafe`, `LeftoversAreSwept`, `GenerationsAreImmutable`,
  `CallsReturnTheirOwn` and `PublicationImplementsRegister` assume `OneWriter` (one writer at a time, no
  power loss), the regime in which the properties hold: a sweep beside a build
  refutes them. Exceptions and kills are covered.

The safety invariants are not inductive. `IInv` adds that at most one writer is
active (`Exclusive`), what a sweep has still to do and that it only ever holds
staging directories (`SweepInv`), which files of the staged generation are
written at each step of a build (`BuildInv`), and that a reader's pointer names
a renamed generation (`PointerInv`). The refinement maps the value of the
register to the content of the generation `CURRENT` names; the step lemma shows
that only `Publish` changes it, because renamed generations never change. `MixInv`, for
`GenerationsNeverMix`, needs no exclusion: a directory has one builder, what it holds
is what that builder collected or damaged (`OnlyOf`), and races and power loss only
take away (`Decays`).

**Ingestion** (`VideoIngestionProofs`), for any sets of videos, sources,
settings, encoders and frames.

- `TypeCorrect` has no further hypotheses.
- `CleanUnlessReverted` proves `ResumedFramesAreClean` under three hypotheses,
  each of which the code needs: nothing that was replaced comes back
  (`Reverts = FALSE`), filtering twice is filtering once and shots do not protect
  frames from a filter (`FilterIsStable`: the protected frames live in memory
  only, so a resume at the embeddings stage has lost them), and no encoder shares a "default" revision
  (`OwnRevisions`). `MCVideoIngestion` has TLC evaluate the last two on the
  instance of `ingestion_resume`.

The invariant `CleanInv` says, per video, what the manifest vouches for
(`SeenManifest`, `MetadataRight`, `FramesRight`, `EmbeddingsRight`): as long as
its source and fingerprints are still in use, the artifacts it counts are clean.
`FreshInv` and `SeenCall` say that what a call works with was in force when the
call began and is never mistaken for something later; `StageInv` says how far
the stage in progress has come, with a manifest that does not vouch for it yet.

**Text evidence** (`TextEvidenceProofs`), for any sets of videos, sources,
settings and engines.

- `TypeCorrect` has no further hypotheses.
- `VouchedIsRight` proves `VouchedEvidenceIsRight` if nothing that was replaced
  comes back (`Reverts = FALSE`): a file that is exchanged during the extraction
  and put back before the metadata is saved would defeat any fingerprint.

`EInv` adds to it that whatever a file or a call mentions is in force or was
replaced (`UsedInv`), so that what is new is nowhere mentioned (`InvRenewed`);
that where the present frames are mentioned `frames.json` holds them
(`FramesInv`); that what a call has extracted is what the metadata, present or
to be saved, says if that is in force (`CallInv`); and that a stub runs only
where no metadata vouches for the engine it stands for (`StubInv`).

**Search runtime** (`SearchRuntimeProofs`), for any number of requests, probes
and generations.

- `TypeCorrect` holds for both backends.
- `ReadyMeansValidated` and `RuntimeImplementsProvider` assume the SigLIP2
  backend. The Qwen backend breaks both: its probe records a name that it did
  not validate if `CURRENT` changes in between, and its initialisation shows the
  bundle before the rest.

`LoadInv` has the lock exclude (`Mutex`), nobody who loads see a bundle
(`Loading`), a visible bundle be complete (`Complete`), and what a request has
read agree with it (`Reading`). Only `StoreBundle` maps to `Load`; the rest is
invisible or ends a request.

**Services** (`ServicesProofs`), for any sets of clients, queries, requests,
players, callers, readings, browsers, recordings and sites. `ServicesAreSafe` is
about the specification of all eight services that the run checks: a step of one
is a stuttering step of the others (`ServicesStep`), so the conjunction of the
invariants is inductive. Assumptions are those on the constants (`PlanAssumption`,
`RegionAssumption`, `VideoAssumption`, `NoFileAssumption`, `ReaderAssumption`,
`RecordingAssumption`, `SiteAssumption`, `EncoderAssumption`, `SetupAssumption`,
`QueryAssumption`):
numbers are numbers, the values that stand for "nothing" are none of the others,
the times of a recording do not go back where there are any, every query goes to
some shard, a shard holds a frame once, and at least one caption is allowed. Of the
tables of the parser they ask that no object term is empty and that a term
with exclusions is one word, as "biển" is, the only one in
`OBJECT_CONTEXT_EXCLUSIONS`.

- `QueryPlansAreSound`: `PlanInv` says that every entry of every memory and of
  the disk fits its key (`Fits`), so that a hit is as good as a parse; that a
  client that works on a plan works on one of its own key (`Sound`); and that
  whoever loads a model holds its lock while it is not loaded, which makes the
  second look at `_pipeline` under the lock sufficient. The proof takes `Parse`
  and `Refined` as they are but needs only that both keep the query.
- `PlansKeepTheQuery`: `Sound` also says which events a search has and that only
  with refinement off a plan is the query itself, so that every other plan is the
  parser's or the model's for one of the queries (`PlanInvKeeps`). The rest is about
  these: `ParserKeepsTheQuery` and `ModelKeepsTheQuery`. A selection of a selection
  of words keeps the ordinary ones as long as neither leaves one out
  (`OrdinaryOfSelection`); each rule of the caption leaves out others only
  (`SeenKeeps`); what is cut at marks and joined again is the query without the
  marks (`PiecesHoldTheWords`), and marks are no ordinary words
  (`StagesHoldTheWords`). An object has a place inside no other object's, and an
  exclusion inside which its place would be overlaps it (`ObjectsStandAlone`). With
  as many stages as events, and no bar, both are one (`ParserKeepsEvents`). To state
  it for all constants brought out the exceptions given in section 4.
- `RegionsAreWhole`: `ReadInv` speaks of a request that has run beside no other
  version (`Alone`): what has the name is then of its version, and so is what it
  has read. `FilesInv` says that metadata is the fingerprint of the writer and
  the other parts at least as new, so a complete entry of an older video that was
  decoded from a newer one is refused by the fingerprint.
- `OneFile`: only the holder of the lock downloads, and only while nothing is
  cached (`LockInv`), so the file a reply was cut from is never replaced.
- `BreakerTripsForAReason`: `CountInv` relates the counter to the last images,
  and the witness of the property is kept once the breaker has tripped
  (`TrippedInv`).
- `CleansUp`: `GroupInv` and `PageInv` say what is running and open at each step
  of `main`, given where it was interrupted.
- `ComponentsRunWhereAsked`: a component is what its constructor makes of the
  site (`DeviceInv`); what remains is that the ways on which a request reaches it
  agree on the device, index included, for every combination of variables, options
  and hardware.
- `EncodingLosesNothing`: the embeddings so far are those of the first items
  (`BatchInv`), whatever was halved; what the pieces of a text keep covers
  it. A piece that loses no more than the overlap (`FrugalPiece`) still reaches the
  next (`FrugalPieceReaches`), so that all together reach the end of the last
  (`CutReaches`); if the pieces are spread, it is about their first and last only.
- `SamplingCoversTheVideo`: `LoopInv` says of the loop what the frames decoded so
  far are owed: every target behind them has its nearest frame, the next target
  is one interval further. That the filter drops a frame only for one that looks
  like it is shown of the recursive function behind it (`LastKept`).
- `ShardsActAsOneIndex`: `ShardInv` says only that every answer, given or kept, is
  the merge of answers of shards of its route (`RightAnswers`), so that a hit is as
  good as a search. The rest is about the operators. `BestK` returns the best k
  because ranks number a finite set from 1 (`RanksAreAll`). `MergedCovers` is the
  reason why each shard's own best k are enough: a hit that a shard leaves out is
  behind k others of that shard, which the merge keeps with scores that are not
  less, so it is not among the best k of all unless as good as the last of them
  (`TopIsWorth`). With normalised scores nothing of the kind holds; that the order
  of one shard is kept needs that normalising does not decrease (`NormGrows`), and
  that equal scores keep the order of their places (`MergedKeepsOrder`).

**Event search** (`EventSearchProofs`), for any finite sets of videos and
candidates, any scores, windows, limits, penalty and gap. The part of
`SearchAssumption` that the code justifies: candidate lists are finite, with one
entry per frame, and the values that stand for "none" are no answers.

- `AlignmentIsBest` is the correctness of the dynamic program. `RowOK` says of
  the row of event e that for each candidate of e it holds a sequence of the
  first e events that ends there, with the best score of all of them, and none
  only if there is none; `StepIsOK` carries it from one row to the next, with the
  gap limit and the penalty, and `RowsAreOK` to the last. For the greedy
  alignment it says that what is chosen is a sequence (`ChosenFacts`), not that
  it is found whenever there is one, which the run `event_search_greedy` refutes.
- `RefinementNeverLoses` needs that a pool holds what was found with scores that
  are not worse (`PoolInv`), so that every sequence of what was found is one of
  the pool with a total at least as high (`PoolIsNotWorse`).
- `RegionsStaySound` assumes `MaxPerVideo <= MaxTotal`: otherwise the best
  region of the best video may be cut away, because `Taken` then cuts inside of a
  video. `MergedFacts` says that merged windows are
  disjoint, hold every candidate and have no hole; `BuildInv` that the region of
  the best candidate is kept from the first video on (`BestIsIn`). It says nothing
  of the number of frames.
- `RegionsHaveOneFrameMore` bounds what finding 2 shows: a region is decoded at no
  more than one frame over `MaxFrames`, by the arithmetic of the step
  (`TargetsAreFew`).

**Text search** (`TextSearchProofs`), for any corpora and requests.

- `FilterIsSound`: `FilterInv` says that the rows kept are an increasing part of
  the candidates seen, none close to another, and each candidate left out close
  to one kept before it (`Passed`), whatever the ranking is.
- `RankingIsSafe`: `OrderInv` says in which stage which order is the rows'. A
  ranking gives every candidate a place of its own, by falling score
  (`EveryPlaceIsTaken`, `RankingIsSorted`). The score of the fusion is a sum over
  the channels that found the frame, which does not depend on the order of
  counting (`SumAddsOne`); a frame that comes before another in each of its
  channels has more summands, and each larger (`SumGrows`), because a better place
  gets a larger share (`FewerGetMore`): here the proof needs that `Unit` is a
  multiple of every `RrfK + n` (`FusionAssumption`), with which the model replaces
  the fractions of the code. The reranker's tier and channel count do not fall
  (`RerankIsSafe`). The linear fusions add the same for the same texts, whatever
  `JoinedLexical` makes of texts put together.
- `EvidenceIsUsed`: an answer is that of the texts of its row (`AnswerInv`); the
  list of texts is a choice, shown to have each text once (`ListOfSet`), and the
  best of the answers among them to be at least as good as each (`ExtractHelps`).
- `TypeCorrect` includes the budget of the remote model (`RemoteInv`).

**Search page** (`SearchPageProofs`), for any files, results and limits, and any
number of searches. `PageInv` adds to the two properties of the state that every
request under way has a version of its own and a body that the server's checks
accept (`PendingInv`), and that every result kept is of the mode and the number
of events that the page remembers (`KeptInv`). `PageAndServerAgree` is the step
from the checks of the page to those of the server.

Two more theorems about **ingestion** speak of what is published.
`PublicationMatches` (`Reverts = FALSE`) has an invariant of its own, `MatchInv`:
the vectors a ready manifest counts are those of the images that its records
name. It needs no stable filter, since a second filter changes
frames and vectors together. `PublicationFollowsPlan`, without hypotheses, rests on
`CompletedInv`: a manifest with a fingerprint of embeddings has completed them; what
the plan accepts and the publication does not is then a "default" revision.

**Induction.** Induction over data is done by the least counterexample: a set of
numbers that is not empty has a least element (`LeastNumber`, from the library's
`WFMin` and `NatLessThanWellFounded`). A recursive function is first shown to
exist as the choice that it is (`RowsExist`, `TotalExists`, `ChosenExist`,
`LastExists`, `SumExists`, `Recursion`) and can then be unfolded at each argument (`RowsUnfolded` and its
like). The library's induction theorems take an operator as a parameter and
cannot be instantiated, and operators declared RECURSIVE cannot be used at all.

**Model-checked only.** The liveness properties `Recovers`, `EvidenceConverges`,
`RequestsEnd`, `ServicesAnswer` and `SearchEnds`, which are beyond the prover;
what the filter `Retained` of the ingestion computes, which the proofs about it
use as a function under the hypothesis `FilterIsStable`. `QueryParser` selects
words with its own `WordsAt`, since the provers do not know `SelectSeq`. The type invariants of `TextEvidence` and
`SearchRuntime` are proved and not run.

## 7. What is not modelled

See the components with status `partly` and `not_modelled` in `PROJECT.json`.
In short: neural models, OCR and ASR engines, video decoding and regular
expressions, which appear as arbitrary results; how dense frames are scored and
the coherence report; prompts and the texts of answers; the gallery and the video
dialog of the page; and the offline parts (dataset readers, competition scoring,
retrieval pipelines of earlier milestones that no entry point uses, evaluation
scripts, deployment files), which keep no state of the system. File
system semantics are those the code relies on: `os.replace` is atomic, a killed
process leaves what it wrote, and only a loss of power undoes a write that was
not synced. Clocks, permissions and full disks appear as exceptions.
