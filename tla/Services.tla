------------------------------- MODULE Services -------------------------------
(***************************************************************************)
(* The helpers beside the index that have state of their own: query plans, *)
(* decoded regions, raw videos, the coordinators of sharded indexes, the   *)
(* adaptive OCR backend, the development server, the frame sampler, and    *)
(* the visual encoder with the devices of the models.                      *)
(*                                                                         *)
(* They share no state with each other: a behaviour of all of them is an   *)
(* interleaving of one behaviour of each.  So one of them is used at a     *)
(* time, and the variable service says which.                              *)
(***************************************************************************)
EXTENDS QueryPlans, RegionCache, VideoSource, ShardedSearch, AdaptiveOcr, DevServer, FrameSampling,
        VisualEncoder

VARIABLE service

vars == <<service, planVars, regionVars, videoVars, shardVars, ocrVars, devVars, sampleVars, encoderVars>>

Names == {"plans", "regions", "videos", "shards", "ocr", "dev", "sampler", "encoder"}

\* A service that is not used is set up in some way.
SomeWorkload == CHOOSE w \in Workloads : TRUE
SomeSetup == CHOOSE s \in Setups : TRUE
SomeRecording == CHOOSE r \in Recordings : TRUE
SomeSite == CHOOSE s \in Sites : TRUE
Setup(name, setups, some) == IF service = name THEN setups ELSE {some}

Init ==
    /\ service \in Names
    /\ workload \in Setup("plans", Workloads, SomeWorkload)
    /\ source \in Setup("videos", Sources, "none")
    /\ setup \in Setup("shards", Setups, SomeSetup)
    /\ reader \in Setup("ocr", Readers, CHOOSE r \in Readers : TRUE)
    /\ recording \in Setup("sampler", Recordings, SomeRecording)
    /\ site \in Setup("encoder", Sites, SomeSite)
    /\ PlanInit /\ RegionInit /\ VideoInit /\ ShardInit /\ OcrInit /\ DevInit /\ SampleInit /\ EncoderInit

\* Only the service in use moves.
PlansOnly   == service = "plans"   /\ UNCHANGED <<service, regionVars, videoVars, shardVars, ocrVars, devVars, sampleVars, encoderVars>>
RegionsOnly == service = "regions" /\ UNCHANGED <<service, planVars, videoVars, shardVars, ocrVars, devVars, sampleVars, encoderVars>>
VideosOnly  == service = "videos"  /\ UNCHANGED <<service, planVars, regionVars, shardVars, ocrVars, devVars, sampleVars, encoderVars>>
ShardsOnly  == service = "shards"  /\ UNCHANGED <<service, planVars, regionVars, videoVars, ocrVars, devVars, sampleVars, encoderVars>>
OcrOnly     == service = "ocr"     /\ UNCHANGED <<service, planVars, regionVars, videoVars, shardVars, devVars, sampleVars, encoderVars>>
DevOnly     == service = "dev"     /\ UNCHANGED <<service, planVars, regionVars, videoVars, shardVars, ocrVars, sampleVars, encoderVars>>
SamplerOnly == service = "sampler" /\ UNCHANGED <<service, planVars, regionVars, videoVars, shardVars, ocrVars, devVars, encoderVars>>
EncoderOnly == service = "encoder" /\ UNCHANGED <<service, planVars, regionVars, videoVars, shardVars, ocrVars, devVars, sampleVars>>

UsePlans   == PlansOnly /\ PlanNext
UseRegions == RegionsOnly /\ RegionNext
UseVideos  == VideosOnly /\ VideoNext
UseShards  == ShardsOnly /\ ShardNext
UseOcr     == OcrOnly /\ OcrNext
UseDev     == DevOnly /\ DevNext
UseSampler == SamplerOnly /\ SampleNext
UseEncoder == EncoderOnly /\ EncoderNext

Next == UsePlans \/ UseRegions \/ UseVideos \/ UseShards \/ UseOcr \/ UseDev \/ UseSampler \/ UseEncoder

Threads == Clients \cup Requests \cup Players \cup Callers

ThreadStep(t) ==
    \/ PlansOnly   /\ t \in Clients  /\ ClientStep(t)
    \/ RegionsOnly /\ t \in Requests /\ RegionStep(t)
    \/ VideosOnly  /\ t \in Players  /\ PlayerStep(t)
    \/ ShardsOnly  /\ t \in Callers  /\ CallerStep(t)

\* Threads go on, and so do the processes of the development server; nobody has to
\* start a search, restart the service, replace a video, read an image or press Ctrl+C.
Fairness ==
    /\ \A t \in Threads : WF_vars(ThreadStep(t))
    /\ \A t \in DevThreads : WF_vars(DevOnly /\ DevStep(t))

Spec == Init /\ [][Next]_vars /\ Fairness

Asks(t) ==
    \/ t \in Clients  /\ client[t].step \notin {"idle", "done"}
    \/ t \in Requests /\ request[t].step = "get"
    \/ t \in Players  /\ player[t].step = "resolve"
    \/ t \in Callers  /\ caller[t].step = "cache"

IsAnswered(t) ==
    /\ t \in Clients  => client[t].step \in {"idle", "done"}
    /\ t \in Requests => request[t].step \in {"waiting", "served", "failed"}
    /\ t \in Players  => player[t].step \in {"idle", "answered"}
    /\ t \in Callers  => caller[t].step \in {"idle", "answered"}

\* Whoever has asked a service is answered, whatever fails: no lock is kept by a thread
\* whose load, download or write has failed, and nobody waits for one that has ended.  Nor
\* does the development server: it ends when it is told to, or with its backend.
ServicesAnswer ==
    /\ \A t \in Threads : Asks(t) ~> IsAnswered(t)
    /\ \A t \in {"main", "server"} \cup Browsers : DevAsks(t) ~> DevAnswered(t)
=============================================================================
