------------------------------ MODULE Requests ------------------------------
(***************************************************************************)
(* Requests to the scheduler (pkg/inference/scheduling) and to the Ollama  *)
(* API on top of it (pkg/ollama): inference, _configure with its preload   *)
(* in the background, unload and delete, install and uninstall.  A name is *)
(* looked up several times in one request, and may have moved in between.  *)
(* The loader is abstracted to its runners and configurations; Loader and  *)
(* Installer have the detail.                                              *)
(***************************************************************************)
EXTENDS Naturals, Sequences, SequencesExt, FiniteSets

CONSTANTS
  Clients,      \* requests
  Kinds,        \* of requests: infer, chat, configure, unload, delete, install, uninstall
  Names,        \* models by name
  FormatOf,     \* of each model: gguf or safetensors
  Platform,     \* backends this platform supports
  DeferredOnes, \* backends installed on demand
  Scripts,      \* streams of the backend, in lines
  MaxRetags     \* bound: times a name moves

\* The backends, llama.cpp first: it is the default.
LlamaCpp == "llamacpp"
Engines == {LlamaCpp, "vllm", "mlx"}
TheModels == DOMAIN FormatOf
Untagged == "no model"

RequestsAssumption ==
  /\ DeferredOnes \subseteq Engines /\ Platform \subseteq Engines /\ MaxRetags \in Nat
  /\ TheModels # {} /\ Untagged \notin TheModels \cup Names

VARIABLES
  tagged,    \* the model of each name
  retags,
  installed, \* installed backends
  engine,    \* runners of <<backend, model>>: state and configuration
  config,    \* runnerConfigs: who set the configuration, 0 for none
  request

reqVars == <<tagged, retags, installed, engine, config, request>>

Keys == Engines \X (TheModels \cup Names)
NoEngine == [state |-> "none", config |-> 0, crossed |-> FALSE]
NoRequest == [pc |-> "idle"]
Holders(k) == {c \in Clients : request[c].pc \in {"leased", "loading", "streaming"} /\ request[c].key = k}

ReqInit ==
  /\ tagged = [n \in Names |-> CHOOSE m \in TheModels : TRUE]
  /\ retags = 0
  /\ installed = Engines \ DeferredOnes
  /\ engine = [k \in Keys |-> NoEngine]
  /\ config = [k \in Keys |-> 0]
  /\ request = [c \in Clients |-> NoRequest]

ReqRetag(n, m) ==
  /\ retags < MaxRetags /\ tagged[n] # m
  /\ retags' = retags + 1
  /\ tagged' = [tagged EXCEPT ![n] = m]
  /\ UNCHANGED <<installed, engine, config, request>>

Goto(c, pc) == request' = [request EXCEPT ![c].pc = pc]

\* The response: the first status written counts.
Respond(r, status, text) ==
  [r EXCEPT !.status = IF r.status = 0 THEN status ELSE @, !.pc = "done",
            !.out = IF text = "" THEN @ ELSE Append(@, text)]

\* A chat of the Ollama API writes through streamingChatResponseWriter, which
\* drops every line that is not an event: the text of an error, too.
Refuse(c, status) ==
  request' = [request EXCEPT ![c] = Respond(@, status, IF @.kind = "chat" THEN "" ELSE "error")]

Arrive(c, kind, n, cli) ==
  /\ request[c] = NoRequest /\ (cli => kind = "infer")
  /\ request' = [request EXCEPT ![c] =
       [kind |-> kind, name |-> n, cli |-> cli, status |-> 0, out |-> <<>>,
        setting |-> kind \in {"chat", "configure"}, backend |-> LlamaCpp, selected |-> Untagged, key |-> <<LlamaCpp, n>>, todo |-> <<>>, rest |-> <<>>,
        pc |-> IF kind \in {"unload", "delete", "install", "uninstall"} THEN kind ELSE "select"]]
  /\ UNCHANGED <<tagged, retags, installed, engine, config>>

\* Mutant: the default backend serves every format.
BackendForAny(m) == LlamaCpp

(***************************************************************************)
(* selectBackendForModel                                                   *)
(***************************************************************************)
BackendFor(m) ==
  IF FormatOf[m] # "safetensors" THEN LlamaCpp
  ELSE IF "vllm" \in Platform THEN "vllm"
  ELSE IF "mlx" \in Platform THEN "mlx" ELSE LlamaCpp

\* GetLocal: a model that is not there is an error of an inference request
\* only, and ConfigureRunner goes on with the default backend.
SelectBackend(c) ==
  LET m == tagged[request[c].name]
      chosen == IF m = Untagged THEN LlamaCpp ELSE BackendFor(m)
  IN  /\ request[c].pc = "select"
      /\ IF m = Untagged /\ ~request[c].setting THEN Refuse(c, 404)
         ELSE request' = [request EXCEPT ![c].backend = chosen, ![c].selected = m,
                                         ![c].pc = IF request[c].setting THEN "resolve" ELSE "wait"]
      /\ UNCHANGED <<tagged, retags, installed, engine, config>>

\* installer.wait, with the progress lines for the model CLI: what follows
\* them can no longer change the status.
AwaitInstalled(c) ==
  LET r == request[c]
      b == r.backend
      told == r.cli /\ b \in DeferredOnes \ installed
      telling == IF told THEN [r EXCEPT !.status = IF @ = 0 THEN 200 ELSE @, !.out = Append(@, "installing")] ELSE r
  IN  /\ r.pc = "wait"
      /\ \/ /\ installed' = installed \cup {b}
            /\ request' = [request EXCEPT ![c] = [telling EXCEPT !.pc = "resolve"]]
         \/ /\ b \notin installed
            /\ request' = [request EXCEPT ![c] = Respond(telling, 503, IF r.kind = "chat" THEN "" ELSE "error")]
            /\ UNCHANGED installed
      /\ UNCHANGED <<tagged, retags, engine, config>>

\* ResolveID: the name itself if there is no model.
ResolveID(c) ==
  LET m == tagged[request[c].name]
  IN  /\ request[c].pc = "resolve"
      /\ request' = [request EXCEPT ![c].key = <<request[c].backend, IF m = Untagged THEN request[c].name ELSE m>>,
                                    ![c].pc = IF request[c].setting THEN "set" ELSE "load"]
      /\ UNCHANGED <<tagged, retags, installed, engine, config>>

(***************************************************************************)
(* setRunnerConfig: a registered runner is evicted if it is unused, and    *)
(* otherwise refuses.  One that is being started is not looked at.         *)
(***************************************************************************)
IsReady(k) == engine[k].state = "ready"

\* Mutant: the loader does not look at the leases.
UnusedOrNot(k) == IsReady(k)

\* Mutant: the unused runner is not evicted.
ReconfiguredInPlace(k) ==
  IF engine[k].state = "starting" THEN [engine[k] EXCEPT !.crossed = TRUE] ELSE engine[k]

Unused(k) == IsReady(k) /\ Holders(k) = {}
Reconfigured(k) ==
  IF Unused(k) THEN NoEngine
  ELSE IF engine[k].state = "starting" THEN [engine[k] EXCEPT !.crossed = TRUE] ELSE engine[k]

Accepts(k) == ~IsReady(k) \/ Unused(k)

\* configureModel of a chat goes on without it; Configure starts the preload.
SetRunnerConfig(c) ==
  LET k == request[c].key
      go == [request[c] EXCEPT !.pc = "select", !.setting = FALSE]
  IN  /\ request[c].pc = "set"
      /\ IF Accepts(k)
         THEN config' = [config EXCEPT ![k] = c] /\ engine' = [engine EXCEPT ![k] = Reconfigured(k)]
         ELSE UNCHANGED <<config, engine>>
      /\ request' = [request EXCEPT ![c] =
           IF request[c].kind = "chat" THEN go
           ELSE IF Accepts(k) THEN [go EXCEPT !.kind = "preload", !.status = 202]
           ELSE Respond(@, 409, "error")]
      /\ UNCHANGED <<tagged, retags, installed>>

(***************************************************************************)
(* load: a ready runner is leased; else one is started, unless one of the  *)
(* same key is being started.                                              *)
(***************************************************************************)
LoadBegin(c) ==
  LET k == request[c].key
  IN  /\ request[c].pc = "load" /\ engine[k].state # "starting"
      /\ IF IsReady(k) THEN Goto(c, "leased") /\ UNCHANGED engine
         ELSE /\ engine' = [engine EXCEPT ![k] = [NoEngine EXCEPT !.state = "starting", !.config = config[k]]]
              /\ Goto(c, "loading")
      /\ UNCHANGED <<tagged, retags, installed, config>>

LoadEnd(c) ==
  LET k == request[c].key
  IN  /\ request[c].pc = "loading"
      /\ \/ Goto(c, "leased") /\ engine' = [engine EXCEPT ![k].state = "ready"]
         \/ Refuse(c, 500) /\ engine' = [engine EXCEPT ![k] = NoEngine]
      /\ UNCHANGED <<tagged, retags, installed, config>>

(***************************************************************************)
(* The stream of the backend: lines in two halves, cut into writes         *)
(* anywhere; the last line may have no end.  The Ollama writer keeps an    *)
(* incomplete line for the next write; OpenAI clients are sent the bytes.  *)
(***************************************************************************)
Halves(lines) == [i \in 1..2 * Len(lines) |-> <<lines[(i + 1) \div 2], i % 2 = 0>>]

\* A preload is over with the lease; a request is forwarded.
Forward(c) ==
  /\ request[c].pc = "leased"
  /\ IF request[c].kind = "preload" THEN Goto(c, "done")
     ELSE \E s \in Scripts, unended \in {0, 1} :
            request' = [request EXCEPT ![c].pc = "streaming",
                                       ![c].todo = SubSeq(Halves(s), 1, 2 * Len(s) - unended),
                                       ![c].status = IF @ = 0 THEN 200 ELSE @]
  /\ UNCHANGED <<tagged, retags, installed, engine, config>>

\* Mutant: it is not kept.
LeftoverLost(halves) == <<>>

\* The incomplete line at the end of the buffer.
Leftover(halves) == IF Last(halves)[2] THEN <<>> ELSE <<Last(halves)>>

\* Lines that are whole become Ollama's; those that are no chunk are skipped.
Translated(halves) ==
  LET whole == SelectSeq([i \in DOMAIN halves |->
                 IF halves[i][2] /\ i > 1 /\ ~halves[i - 1][2] THEN halves[i][1] ELSE "skip"],
                 LAMBDA l : l \notin {"skip", "note", "bad"})
  IN  whole

StreamedWrite(c) ==
  LET r == request[c]
  IN  /\ r.pc = "streaming" /\ r.todo # <<>>
      /\ \E n \in 1..Len(r.todo) :
           LET buffer == r.rest \o SubSeq(r.todo, 1, n)
               left == Leftover(buffer)
               read == SubSeq(buffer, 1, Len(buffer) - Len(left))
           IN  request' = [request EXCEPT ![c].todo = SubSeq(@, n + 1, Len(@)),
                                          ![c].rest = left, ![c].out = @ \o Translated(read)]
      /\ UNCHANGED <<tagged, retags, installed, engine, config>>

\* The stream is over, and the lease given back.
StreamedEnd(c) ==
  /\ request[c].pc = "streaming" /\ request[c].todo = <<>>
  /\ Goto(c, "done")
  /\ UNCHANGED <<tagged, retags, installed, engine, config>>

(***************************************************************************)
(* Ollama's unload and delete; install-backend and uninstall-backend.      *)
(***************************************************************************)
ModelNow(c) == IF tagged[request[c].name] = Untagged THEN request[c].name ELSE tagged[request[c].name]

\* Unused runners of the model on every backend; the configurations stay, for
\* the request names no backend.
UnloadModel(c) ==
  /\ request[c].pc \in {"unload", "delete"}
  /\ engine' = [k \in Keys |-> IF k[2] = ModelNow(c) /\ Unused(k) THEN NoEngine ELSE engine[k]]
  /\ request' = [request EXCEPT ![c] = IF @.pc = "unload" THEN Respond(@, 200, "{}") ELSE [@ EXCEPT !.pc = "remove"]]
  /\ UNCHANGED <<tagged, retags, installed, config>>

DeleteModel(c) ==
  /\ request[c].pc = "remove"
  /\ tagged' = [tagged EXCEPT ![request[c].name] = Untagged]
  /\ request' = [request EXCEPT ![c] = IF tagged[@.name] = Untagged THEN Respond(@, 500, "error") ELSE Respond(@, 200, "{}")]
  /\ UNCHANGED <<retags, installed, engine, config>>

InstallBackend(c) ==
  /\ request[c].pc = "install"
  /\ \E b \in DeferredOnes :
       \/ installed' = installed \cup {b} /\ request' = [request EXCEPT ![c] = Respond(@, 200, "")]
       \/ b \notin installed /\ Refuse(c, 500) /\ UNCHANGED installed
  /\ UNCHANGED <<tagged, retags, engine, config>>

\* UnloadBackend,
UninstallBackend(c) ==
  /\ request[c].pc = "uninstall"
  /\ \E b \in DeferredOnes :
       /\ engine' = [k \in Keys |-> IF k[1] = b /\ Unused(k) THEN NoEngine ELSE engine[k]]
       /\ request' = [request EXCEPT ![c].pc = "removeFiles", ![c].backend = b]
  /\ UNCHANGED <<tagged, retags, installed, config>>

\* and then the files, under runners in use and those started in between.
RemoveBackend(c) ==
  /\ request[c].pc = "removeFiles"
  /\ installed' = installed \ {request[c].backend}
  /\ request' = [request EXCEPT ![c] = Respond(@, 200, "")]
  /\ UNCHANGED <<tagged, retags, engine, config>>

ReqNext ==
  \/ \E n \in Names, m \in TheModels : ReqRetag(n, m)
  \/ \E c \in Clients :
       \/ \E kind \in Kinds, n \in Names, cli \in BOOLEAN : Arrive(c, kind, n, cli)
       \/ SelectBackend(c) \/ AwaitInstalled(c) \/ ResolveID(c) \/ SetRunnerConfig(c)
       \/ LoadBegin(c) \/ LoadEnd(c) \/ Forward(c) \/ StreamedWrite(c) \/ StreamedEnd(c)
       \/ UnloadModel(c) \/ DeleteModel(c)
       \/ InstallBackend(c) \/ UninstallBackend(c) \/ RemoveBackend(c)

ReqSpec == ReqInit /\ [][ReqNext]_reqVars

-----------------------------------------------------------------------------
(***************************************************************************)
(* Properties.                                                             *)
(***************************************************************************)
\* At most one request starts a runner of a key, and whoever leases a runner
\* leases one that is there.
ReqTypeOK ==
  /\ tagged \in [Names -> TheModels \cup {Untagged}] /\ installed \subseteq Engines
  /\ \A k \in Keys : Cardinality({c \in Holders(k) : request[c].pc = "loading"})
                       = IF engine[k].state = "starting" THEN 1 ELSE 0
  /\ \A k \in Keys : (\E c \in Holders(k) : request[c].pc # "loading") => IsReady(k)

\* A request is forwarded to a backend for the format of its model, unless the
\* name moved between the selection of the backend and the lookup of the model.
BackendSuits ==
  \A c \in Clients : request[c].pc \in {"loading", "leased", "streaming"} /\ request[c].key[2] = request[c].selected =>
    \/ FormatOf[request[c].selected] = "safetensors" <=> request[c].key[1] # LlamaCpp
    \/ Platform \subseteq {LlamaCpp}

\* A registered runner has the configuration that was accepted last for it,
\* unless that was accepted while the runner was being started.
ConfigHonoured ==
  \A k \in Keys : IsReady(k) /\ ~engine[k].crossed => engine[k].config = config[k]

\* What an Ollama chat is sent does not depend on how the backend's stream was
\* cut into writes: every whole chunk, once, in order, and the end of the
\* stream if it came.
CutsDoNotMatter ==
  \A c \in Clients :
    LET r == request[c]
        sent == SelectSeq(r.out, LAMBDA l : l # "installing")
    IN  r.pc = "done" /\ r.kind = "chat" /\ r.status = 200 /\ sent # <<>> =>
          \E s \in Scripts : sent \in {Translated(Halves(s)), Translated(SubSeq(Halves(s), 1, 2 * Len(s) - 1))}
=============================================================================
