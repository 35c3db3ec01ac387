---------------------------- MODULE DevicePolicy ----------------------------
(***************************************************************************)
(* backend/app/runtime/device_policy.py and the models of a process that   *)
(* follow it: the visual encoders of the search and of the ingestion, the  *)
(* recognition of speech and of text, and the query refiner's model.       *)
(*                                                                         *)
(* The hardware, the environment and the options of the command do not     *)
(* change while the process runs; together they are its site.              *)
(***************************************************************************)
EXTENDS Naturals

CONSTANTS
    Sites,   \* [process, env, options, engine, runtimes, calls, truncates, lost]: what is run,
             \* the devices that the variables and the options name, the OCR engine asked for, for
             \* each library whether it is installed and how many GPUs it sees, and the batches to
             \* encode; SIGLIP_LONG_TEXT_MODE, and what its pieces lose by a text's length
    Unset    \* a variable or an option that is not given

VARIABLES
    site,
    hosted   \* for each component what it was asked for, what it says it uses and what its
             \* library is told to use: [backend, asked, device, runs], or Unset

deviceVars == <<site, hosted>>

\* Devices, and what may stand in their place in a request or in a report.
Device(kind, index) == [kind |-> kind, index |-> index]
DeviceNames == [kind : {"auto", "cpu", "cuda", "malformed", "unavailable"}, index : Nat]
AnyDevice == Device("auto", 0)
Cpu == Device("cpu", 0)
Cuda(n) == Device("cuda", n)
Malformed == Device("malformed", 0)      \* ValueError of normalize_device
Unavailable == Device("unavailable", 0)  \* RuntimeError of resolve_device

Components == {"search", "search_encoder", "ingest_encoder", "asr", "ocr", "llm"}
OnGpu(device) == device.kind = "cuda"
Raises(device) == device \in {Malformed, Unavailable}

VariableNames == {"COMPUTE_DEVICE", "VISUAL_DEVICE", "SEARCH_MODEL_DEVICE", "VIDEO_INGEST_DEVICE",
                  "LLM_DEVICE", "ASR_DEVICE", "OCR_DEVICE"}

ASSUME SiteAssumption ==
    /\ Sites # {} /\ Unset \notin DeviceNames
    /\ \A s \in Sites :
           /\ \A v \in VariableNames : s.env[v] = Unset \/ s.env[v] \in DeviceNames
           /\ \A o \in {"device", "ocr_device", "asr_device"} : s.options[o] = Unset \/ s.options[o] \in DeviceNames
           /\ \A b \in {"torch", "ctranslate2", "paddle"} : s.runtimes[b].gpus \in Nat
           /\ s.runtimes["cpu"] = [installed |-> TRUE, gpus |-> 0]

DeviceInit == hosted = [c \in Components |-> Unset]
Made(c) == hosted[c] # Unset

Or(first, second) == IF first = Unset THEN second ELSE first
Variable(name) == site.env[name]
Option(name) == site.options[name]

\* device_request: the argument, the variable of earlier versions, that of the component,
\* that of all of them.
DeviceRequest(option, compatible, component) ==
    Or(option, Or(compatible, Or(component, Or(Variable("COMPUTE_DEVICE"), AnyDevice))))

\* resolve_device: only "auto" falls back.
ResolveDevice(backend, asked) ==
    LET here == site.runtimes[backend]
    IN  CASE asked = AnyDevice -> IF here.gpus > 0 THEN Cuda(0) ELSE Cpu
          [] asked = Cpu       -> IF here.installed THEN Cpu ELSE Unavailable
          [] OnGpu(asked)      -> IF asked.index < here.gpus THEN asked ELSE Unavailable
          [] OTHER             -> Malformed

\* A component whose library is given the device that was resolved.
Host(backend, asked) ==
    [backend |-> backend, asked |-> asked, device |-> ResolveDevice(backend, asked), runs |-> ResolveDevice(backend, asked)]

\* PaddleOCR and EasyOCR are told only whether to use a GPU: they use the first.
HostReader(backend, asked) ==
    [Host(backend, asked) EXCEPT !.runs = IF OnGpu(@) THEN Cuda(0) ELSE @]

-----------------------------------------------------------------------------
(* The components *)

VisualRequest == DeviceRequest(Unset, Variable("SEARCH_MODEL_DEVICE"), Variable("VISUAL_DEVICE"))
AsrRequest(option) == DeviceRequest(option, Unset, Variable("ASR_DEVICE"))
OcrRequest(option) == DeviceRequest(option, Unset, Variable("OCR_DEVICE"))

\* Mutant of EncoderRequest: the encoder looks at the environment by itself.
EncoderRequestAgain == DeviceRequest(Unset, Unset, Variable("VISUAL_DEVICE"))

\* ConfiguredSearch passes on what it was asked for, not what it resolved.
EncoderRequest == DeviceRequest(VisualRequest, Unset, Variable("VISUAL_DEVICE"))

\* projectctl ingest always passes a device, so that VISUAL_DEVICE is not looked at.
IngestRequest == Or(Option("device"), Or(Variable("VIDEO_INGEST_DEVICE"), Or(Variable("COMPUTE_DEVICE"), AnyDevice)))

\* create_ocr_backend; "auto" takes PaddleOCR if it has a GPU, and does not look at OCR_DEVICE.
OcrHost ==
    LET option == Option("ocr_device")
    IN  CASE site.engine = "auto" /\ site.runtimes["paddle"].gpus > 0 /\ option # Cpu
                                       -> HostReader("paddle", Or(option, Cuda(0)))
          [] site.engine = "paddleocr" -> HostReader("paddle", OcrRequest(option))
          [] site.engine = "easyocr"   -> HostReader("torch", OcrRequest(option))
          [] site.engine = "tesseract" /\ option \notin {Unset, AnyDevice, Cpu}
                                       -> [Host("cpu", option) EXCEPT !.device = Unavailable, !.runs = Unavailable]
          [] OTHER                     -> Host("cpu", Cpu)

HostOf(c) ==
    CASE c = "search"         -> Host("torch", VisualRequest)
      [] c = "search_encoder" -> Host("torch", EncoderRequest)
      [] c = "llm"            -> Host("torch", DeviceRequest(Unset, Unset, Variable("LLM_DEVICE")))
      [] c = "ingest_encoder" -> Host("torch", IngestRequest)
      [] c = "asr"            -> Host("ctranslate2", AsrRequest(Or(Option("asr_device"), Option("device"))))
      [] c = "ocr"            -> OcrHost

\* _text_pipeline describes the recognition of speech before it makes anything, that of
\* text included; the description fails when no option tells a device or an arithmetic.
Describable == Or(Option("asr_compute_type"), Or(Option("asr_device"), Option("device"))) # Unset

\* What the server, and each command of projectctl, makes.
PartsOf(process) ==
    CASE process = "server"     -> {"search", "search_encoder", "llm"}
      [] process = "ingest"     -> {"ingest_encoder"}
      [] process = "preprocess" -> {"ingest_encoder", "asr", "ocr"}
      [] OTHER                  -> {"asr", "ocr"}

\* The encoder of the search is made with the bundle, the others when they are needed; a
\* server that is refused its device does not start.
Make(c) ==
    /\ ~Made(c)
    /\ c = "search_encoder" => Made("search") /\ ~Raises(hosted["search"].device)
    /\ c \in {"asr", "ocr"} => Describable
    /\ hosted' = [hosted EXCEPT ![c] = HostOf(c)]
    /\ UNCHANGED site

\* runtime_summary, of /health and of `projectctl env`: what each component would use.
OcrBackend ==
    CASE site.engine = "tesseract"             -> "cpu"
      [] site.engine \in {"paddleocr", "auto"} -> "paddle"
      [] OTHER                                 -> "torch"

RuntimeSummary ==
    [visual |-> ResolveDevice("torch", VisualRequest),
     asr    |-> ResolveDevice("ctranslate2", AsrRequest(Unset)),
     ocr    |-> ResolveDevice(OcrBackend, OcrRequest(Unset))]

Mode ==
    LET devices == {RuntimeSummary[c] : c \in {"visual", "asr", "ocr"}} \ {Unavailable}
    IN  CASE \E d, e \in devices : d # e -> "mixed"
          [] \E d \in devices : devices = {d} /\ OnGpu(d) -> "gpu"
          [] OTHER -> "cpu"

-----------------------------------------------------------------------------
(* Properties *)

\* A component that is not refused has the device that was asked for, a GPU of its own
\* library that exists, or such a one if there is one and nothing else was said.  Its library
\* is told that very device, index included, except that text recognition on a GPU runs on
\* the first whatever index was asked for, checked and reported.
Honoured(c) ==
    LET host == hosted[c]
        gpus == site.runtimes[host.backend].gpus
    IN  ~Raises(host.device) =>
            /\ host.runs = IF c = "ocr" /\ OnGpu(host.device) THEN Cuda(0) ELSE host.device
            /\ OnGpu(host.device) => host.device.index < gpus
            /\ host.asked = Cpu => host.device = Cpu
            /\ OnGpu(host.asked) => host.device = host.asked
            /\ host.asked = AnyDevice /\ gpus > 0 => OnGpu(host.device)

\* An explicit device is resolved to itself or refused, along the different ways on which the
\* request reaches a component, and is the one the component runs at, but for the index of a
\* GPU that text recognition drops.  The variable of a component goes before the general one.
\* The encoder of the search is at the device that the status of the search shows; and what
\* /health shows is what the components use.  There text recognition is left out in "auto" mode,
\* which does not look at its variable, and with Tesseract, which the summary calls unavailable
\* where a GPU is asked for and which runs all the same.
DevicesAreHonoured ==
    /\ \A c \in Components : Made(c) => Honoured(c)
    /\ Made("search") /\ Variable("SEARCH_MODEL_DEVICE") = Unset /\ Variable("VISUAL_DEVICE") # Unset =>
           hosted["search"].asked = Variable("VISUAL_DEVICE")
    /\ Made("search_encoder") => hosted["search_encoder"].runs = hosted["search"].device
    /\ Made("search") => hosted["search"].device = RuntimeSummary.visual
    /\ Made("asr") /\ Option("asr_device") = Unset /\ Option("device") = Unset =>
           hosted["asr"].runs = RuntimeSummary.asr
    /\ Made("ocr") /\ Option("ocr_device") = Unset /\ site.engine \in {"paddleocr", "easyocr"} =>
           hosted["ocr"].device = RuntimeSummary.ocr
    /\ \A c \in {"search", "search_encoder"} : Made(c) /\ OnGpu(hosted[c].runs) => Mode # "cpu"
=============================================================================
