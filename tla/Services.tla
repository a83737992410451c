------------------------------- MODULE Services -------------------------------
(***************************************************************************)
(* The machines of the model runner's daemon besides the loader and the    *)
(* installer, side by side: a behaviour is one of one machine, the one in  *)
(* focus, and the variables of the others are off.  The store is there     *)
(* twice, because what one client does to it under every fault and what    *)
(* several do to it at once are too much for one instance.  A variable     *)
(* whose name two modules use has another name here.                       *)
(***************************************************************************)
EXTENDS Machines, Exchanges

CONSTANTS
  Answers, RespIDs, StreamedOnes, TTL, MaxNow, NoResp,              \* Responses
  Files, MaxFiles, Shards, ProjectorFiles, Templates, DirRank,
  MaxCalls, MaxFaults, NoFile,                          \* Packaging
  FaultStore, SharedStore, NoModel, NoTag   \* ModelStore: a record of its constants each

Off == "off"
Focus == {"responses", "recorder", "requests", "modelsapi", "packaging", "hub",
          "backend", "process", "logs", "daemon", "faults", "clients"}

VARIABLES
  focus,
  resp, writer, events, stored, history, now,
  model, kept, bundle, pc, todo, answers, scarred, calls, faults,
  index, manifests, blobs, bundles, hasLayout, up, op, started, hurt

RS == INSTANCE Responses WITH Streamed <- StreamedOnes
PK == INSTANCE Packaging WITH
  Projectors <- ProjectorFiles, None <- NoFile, stored <- kept
(* The two records of the store's constants, field by field. *)
FClients == FaultStore.clients
FModels == FaultStore.models
FTags == FaultStore.tags
FBadTags == FaultStore.badTags
FRest == FaultStore.rest
FLayersOf == FaultStore.layersOf
FConfigOf == FaultStore.configOf
FCanon == FaultStore.canon
FOldIndex == FaultStore.oldIndex
FOps == FaultStore.ops
FFaults == FaultStore.faults
FMaxOps == FaultStore.maxOps
SClients == SharedStore.clients
SModels == SharedStore.models
STags == SharedStore.tags
SBadTags == SharedStore.badTags
SRest == SharedStore.rest
SLayersOf == SharedStore.layersOf
SConfigOf == SharedStore.configOf
SCanon == SharedStore.canon
SOldIndex == SharedStore.oldIndex
SOps == SharedStore.ops
SFaults == SharedStore.faults
SMaxOps == SharedStore.maxOps
SF == INSTANCE ModelStore WITH
  Clients <- FClients, Models <- FModels, Tags <- FTags, BadTags <- FBadTags, Rest <- FRest,
  LayersOf <- FLayersOf, ConfigOf <- FConfigOf, Canon <- FCanon, OldIndex <- FOldIndex,
  Ops <- FOps, Faults <- FFaults, MaxOps <- FMaxOps
SC == INSTANCE ModelStore WITH
  Clients <- SClients, Models <- SModels, Tags <- STags, BadTags <- SBadTags, Rest <- SRest,
  LayersOf <- SLayersOf, ConfigOf <- SConfigOf, Canon <- SCanon, OldIndex <- SOldIndex,
  Ops <- SOps, Faults <- SFaults, MaxOps <- SMaxOps

ASSUME MachinesAssumption ==
  /\ RS!ResponsesAssumption /\ RC!RecorderAssumption /\ RC!UnansweredAssumption /\ RQ!RequestsAssumption
  /\ PK!PackagingAssumption /\ BI!InstallAssumption /\ BP!ProcessAssumption
  /\ DM!DaemonAssumption /\ LG!LogAssumption /\ MA!ModelsAssumption /\ HT!HubAssumption /\ SF!StoreAssumption /\ SC!StoreAssumption

responsesVars ==
  <<resp, writer, events, stored, history, now>>
recorderVars ==
  <<named, moves, runners, call, heap, records, answered, pending, sending, sub, excuse,
  panicked>>
requestsVars ==
  <<tagged, retags, installed, engine, config, request>>
modelsapiVars ==
  <<tokens, models, tags, reqs>>
packagingVars ==
  <<model, kept, bundle, pc, todo, answers, scarred, calls, faults>>
hubVars ==
  <<phase, listing, quant, selected, fetch, directory, gone, cancelled, upload, hub>>
backendVars ==
  <<family, updates, newest, desired, server, runnable, libraries, others, record, cut, step,
  asked, image, outcome, kills, fetches>>
processVars ==
  <<run, life, stopping, alive, socket, waiter, written, told, result>>
logsVars ==
  <<present, size, reading, offset, sawEnd, partial, output>>
daemonVars ==
  <<at, listens, flag, env, failed, signalled, scheduler, steps, gen, old,
  files, exit, crashes>>

storeVars ==
  <<index, manifests, blobs, bundles, hasLayout, up, op, started, hurt>>

ResponsesOff ==
  /\ resp = Off /\ writer = Off /\ events = Off /\ stored = Off /\ history = Off
  /\ now = Off
RecorderOff ==
  /\ named = Off /\ moves = Off /\ runners = Off /\ call = Off /\ heap = Off
  /\ records = Off /\ answered = Off /\ pending = Off /\ sending = Off /\ sub = Off
  /\ excuse = Off /\ panicked = Off
RequestsOff ==
  /\ tagged = Off /\ retags = Off /\ installed = Off /\ engine = Off /\ config = Off
  /\ request = Off
ModelsapiOff ==
  /\ tokens = Off /\ models = Off /\ tags = Off /\ reqs = Off
PackagingOff ==
  /\ model = Off /\ kept = Off /\ bundle = Off /\ pc = Off /\ todo = Off
  /\ answers = Off /\ scarred = Off /\ calls = Off /\ faults = Off
HubOff ==
  /\ phase = Off /\ listing = Off /\ quant = Off /\ selected = Off /\ fetch = Off
  /\ directory = Off /\ gone = Off /\ cancelled = Off /\ upload = Off /\ hub = Off
BackendOff ==
  /\ family = Off /\ updates = Off /\ newest = Off /\ desired = Off /\ server = Off
  /\ runnable = Off /\ libraries = Off /\ others = Off /\ record = Off /\ cut = Off /\ step = Off /\ asked = Off
  /\ image = Off /\ outcome = Off /\ kills = Off /\ fetches = Off
ProcessOff ==
  /\ run = Off /\ life = Off /\ stopping = Off /\ alive = Off /\ socket = Off
  /\ waiter = Off /\ written = Off /\ told = Off /\ result = Off
LogsOff ==
  /\ present = Off /\ size = Off /\ reading = Off /\ offset = Off /\ sawEnd = Off
  /\ partial = Off /\ output = Off
DaemonOff ==
  /\ at = Off /\ listens = Off /\ flag = Off /\ env = Off /\ failed = Off
  /\ signalled = Off /\ scheduler = Off /\ steps = Off /\ gen = Off
  /\ old = Off /\ files = Off /\ exit = Off /\ crashes = Off
StoreOff ==
  /\ index = Off /\ manifests = Off /\ blobs = Off /\ bundles = Off /\ hasLayout = Off
  /\ up = Off /\ op = Off /\ started = Off /\ hurt = Off

Init ==
  /\ focus \in Focus
  /\ IF focus = "responses" THEN RS!RespInit ELSE ResponsesOff
  /\ IF focus = "recorder" THEN RC!RecInit ELSE RecorderOff
  /\ IF focus = "requests" THEN RQ!ReqInit ELSE RequestsOff
  /\ IF focus = "modelsapi" THEN MA!MAInit ELSE ModelsapiOff
  /\ IF focus = "packaging" THEN PK!Init ELSE PackagingOff
  /\ IF focus = "hub" THEN HT!HTInit ELSE HubOff
  /\ IF focus = "backend" THEN BI!BIInit ELSE BackendOff
  /\ IF focus = "process" THEN BP!BPInit ELSE ProcessOff
  /\ IF focus = "logs" THEN LG!LGInit ELSE LogsOff
  /\ IF focus = "daemon" THEN DM!DMInit ELSE DaemonOff
  /\ IF focus = "faults" THEN SF!Init ELSE IF focus = "clients" THEN SC!Init ELSE StoreOff

ResponsesStep ==
  focus = "responses" /\ RS!RespNext /\ UNCHANGED <<focus,
    recorderVars, requestsVars, modelsapiVars, packagingVars, hubVars, backendVars,
    processVars, logsVars, daemonVars, storeVars>>
RecorderStep ==
  focus = "recorder" /\ RC!RecNext /\ UNCHANGED <<focus,
    responsesVars, requestsVars, modelsapiVars, packagingVars, hubVars, backendVars,
    processVars, logsVars, daemonVars, storeVars>>
RequestsStep ==
  focus = "requests" /\ RQ!ReqNext /\ UNCHANGED <<focus,
    responsesVars, recorderVars, modelsapiVars, packagingVars, hubVars, backendVars,
    processVars, logsVars, daemonVars, storeVars>>
ModelsapiStep ==
  focus = "modelsapi" /\ MA!MANext /\ UNCHANGED <<focus,
    responsesVars, recorderVars, requestsVars, packagingVars, hubVars, backendVars,
    processVars, logsVars, daemonVars, storeVars>>
PackagingStep ==
  focus = "packaging" /\ PK!Next /\ UNCHANGED <<focus,
    responsesVars, recorderVars, requestsVars, modelsapiVars, hubVars, backendVars,
    processVars, logsVars, daemonVars, storeVars>>
HubStep ==
  focus = "hub" /\ HT!HTNext /\ UNCHANGED <<focus,
    responsesVars, recorderVars, requestsVars, modelsapiVars, packagingVars, backendVars,
    processVars, logsVars, daemonVars, storeVars>>
BackendStep ==
  focus = "backend" /\ BI!BINext /\ UNCHANGED <<focus,
    responsesVars, recorderVars, requestsVars, modelsapiVars, packagingVars, hubVars,
    processVars, logsVars, daemonVars, storeVars>>
ProcessStep ==
  focus = "process" /\ BP!BPNext /\ UNCHANGED <<focus,
    responsesVars, recorderVars, requestsVars, modelsapiVars, packagingVars, hubVars,
    backendVars, logsVars, daemonVars, storeVars>>
LogsStep ==
  focus = "logs" /\ LG!LGNext /\ UNCHANGED <<focus,
    responsesVars, recorderVars, requestsVars, modelsapiVars, packagingVars, hubVars,
    backendVars, processVars, daemonVars, storeVars>>
DaemonStep ==
  focus = "daemon" /\ DM!DMNext /\ UNCHANGED <<focus,
    responsesVars, recorderVars, requestsVars, modelsapiVars, packagingVars, hubVars,
    backendVars, processVars, logsVars, storeVars>>
FaultsStep ==
  focus = "faults" /\ SF!Next /\ UNCHANGED <<focus,
    responsesVars, recorderVars, requestsVars, modelsapiVars, packagingVars, hubVars,
    backendVars, processVars, logsVars, daemonVars>>
ClientsStep ==
  focus = "clients" /\ SC!Next /\ UNCHANGED <<focus,
    responsesVars, recorderVars, requestsVars, modelsapiVars, packagingVars, hubVars,
    backendVars, processVars, logsVars, daemonVars>>
Next ==
  \/ ResponsesStep \/ RecorderStep \/ RequestsStep \/ ModelsapiStep \/ PackagingStep
  \/ HubStep \/ BackendStep \/ ProcessStep \/ LogsStep \/ DaemonStep
  \/ FaultsStep \/ ClientsStep

vars == <<focus,
  responsesVars, recorderVars, requestsVars, modelsapiVars, packagingVars, hubVars,
  backendVars, processVars, logsVars, daemonVars, storeVars>>
Spec == Init /\ [][Next]_vars

-----------------------------------------------------------------------------
(* The properties of the machines, each of its own machine's behaviours; the
   machines' modules state the conjuncts. *)
(* Responses: a streamed answer is the one that is not streamed, its events are
   numbered, announced and ended, and the history a follow-up sends is an unbroken
   chain (pkg/responses).  Requests: an Ollama stream does not depend on how the
   backend's writes are cut (pkg/ollama). *)
AnswersAgree ==
  /\ focus = "responses" =>
       RS!RespTypeOK /\ RS!StreamEqualsWhole /\ RS!EventsInOrder /\ RS!HistoryInOrder
  /\ focus = "requests" => RQ!CutsDoNotMatter
(* Recorder: a record tells its own request's answer, an answer is lost only for a
   reason, a subscriber misses nothing between the existing records and the live
   ones, and nobody sends on a closed channel (pkg/metrics). *)
RecordsTrue ==
  focus = "recorder" =>
    /\ RC!RecTypeOK /\ RC!ResponseMatches /\ RC!AnswerRecorded
    /\ RC!NothingFallsBetween /\ RC!NoPanic
(* Requests: the backend fits the model's format, and runners have the configuration
   accepted last (pkg/inference/scheduling). *)
RequestsHonoured ==
  focus = "requests" => RQ!ReqTypeOK /\ RQ!BackendSuits /\ RQ!ConfigHonoured
(* Models API: a client is told when its pull fails (pkg/inference/models). *)
FailureTold == focus = "modelsapi" => MA!MATypeOK /\ MA!FailureTold
(* Packaging: a bundle in use is whole, whoever died while it was made, but after a
   removal cut short; making and reading it name the same files (internal/bundle). *)
BundlesWhole ==
  focus = "packaging" => PK!TypeOK /\ PK!WholeBundle /\ PK!SameAnswer /\ PK!AlwaysWeights
(* Hub: a stored model has all the files and shards that were chosen, nobody writes
   to the directory after it is gone, and a commit names stored objects (huggingface). *)
TransfersWhole ==
  focus = "hub" =>
    /\ HT!HTTypeOK /\ HT!AllFilesArrive /\ HT!NobodyWritesIntoTheVoid
    /\ HT!WholeShardSets /\ HT!CommittedIsStored
(* Backends: what is said to be installed runs with its image's libraries, and a record
   tells the image, whatever is killed or cut short (llamacpp/download.go, dockerhub);
   no process of a backend outlives its run, and the error a run reports is the tail of
   its log (backends/runner.go, tailbuffer). *)
BackendsSound ==
  /\ focus = "backend" => BI!BITypeOK /\ BI!InstalledWhole /\ BI!RecordTellsImage
  /\ focus = "process" => BP!BPTypeOK /\ BP!OneProcess /\ BP!ErrorIsTail
(* Logs: the merged stream has no gap, no repetition, and the order of time (pkg/logs). *)
LogUnbroken == focus = "logs" => LG!LGTypeOK /\ LG!NoGap /\ LG!InOrder
(* Daemon: a clean end waits for servers and scheduler, clients can verify the
   certificate, a flag decides where to listen (pkg/server, pkg/tls, serve command). *)
DaemonKept ==
  focus = "daemon" => DM!DMTypeOK /\ DM!StoppedInFull /\ DM!ClientsCanVerify /\ DM!FlagDecides
(* Store: a tag names at most one model, and what a crash or a fault damages stays
   with the models it happened to (distribution/internal/store). *)
StoreSound ==
  /\ focus = "faults" => SF!TypeOK /\ SF!OneOwner /\ SF!DamageIsolated
  /\ focus = "clients" => SC!TypeOK /\ SC!OneOwner /\ SC!DamageIsolated
(* A tag by a partial name tags the model that name finds (Manager.Tag); a failed
   write is undone (LocalStore.Write), a new tag names what its source names (AddTags). *)
StoreEffects ==
  /\ focus = "modelsapi" => MA!TagByNameStep
  /\ focus = "faults" => SF!FailedWriteUndoneStep /\ SF!TagNamesModelStep
(* Each step leaves behind what it promises and no more: these, and a response that is
   saved has ended and changes no more (responses/store.go). *)
EffectsExact ==
  [][(focus = "responses" => RS!SavedIsFinalStep) /\ StoreEffects]_vars
=============================================================================
