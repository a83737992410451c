# A TLA+ model of model-runner

`model-runner` serves language models over HTTP: it pulls model artifacts from
registries into a local store, starts inference backends (llama.cpp, vLLM, MLX,
SGLang, diffusers) as child processes, and proxies OpenAI-style requests to
them; `docker model` is its command line. This directory holds the
specifications of its logic, the TLC instances that check them, and proofs.

Paths below are relative to `src/`; `loader.go`, `runner.go`, `installer.go`,
`scheduler.go` and `http_handler.go` are in `pkg/inference/scheduling/` where no
other directory is named.

1. [The system](#1-the-system)
2. [The modules](#2-the-modules)
3. [The runs](#3-the-runs)
4. [Where code and documentation disagree](#4-where-code-and-documentation-disagree)
5. [What is proved](#5-what-is-proved)
6. [What is not modelled](#6-what-is-not-modelled)
7. [What could come next](#7-what-could-come-next)
8. [Running](#8-running)

## 1. The system

### How the parts work together

    docker model CLI: contexts -> detection -> HTTP client (chat, pulls, package)
                      standalone runner (Docker engine)      |
                                                             v
    daemon: server -> routing -> scheduling.HTTPHandler -- wait ---> installer -> Backend.Install
                        |             |         |  \------ load ---> loader -> runner -> Backend.Run (process)
                        |             |         \-- ServeHTTP -----> runner (reverse proxy) -> slot socket
                        |             \--> OpenAIRecorder
                        |-> responses, ollama, anthropic (adapters that call scheduling)
                        |-> models.HTTPHandler -> Manager -> distribution.Client -> store (blobs, manifests, models.json)
                        |                                                     |-> bundles (unpacked models)
                        |                                                     \-> registry / Hugging Face
                        \-> logs

An inference request first waits until its backend is installed
(`installer.wait`), then leases a runner (`loader.load`), is proxied to the
runner's socket, and gives the lease back (`loader.release`). `Scheduler.Run`
runs two loops, the installer's and the loader's, until the service shuts down.

### Inventory

For each part: its state, what is hard about it, what makes it correct.
`PROJECT.json` lists the parts with their status, and under `hazards` what is hard
to test in each, at its line, with the properties that watch it.

**Runner loader** (`loader.go`). A bounded array of slots, the reference count and
last-use time of each; `runners` (key to slot, the key being backend, model, mode and
draft model), `loading` (slots reserved for a load in progress), `runnerConfigs`,
`waiters` (a channel of one token for each request that waits), the `guard`, the
idle timer. Hard: the guard is released while a process starts, which may take
minutes, and while a request waits; processes exit by themselves at any time; the
drain of a shutdown runs against all of it. Correct: the tables agree, slots are
never shared, a runner is not evicted from under a request, counts are exact, no
wakeup is lost, idle runners go, shutdown ends.

**Runner life cycle** (`runner.go`, `backends/runner.go`). The process, its socket, the
tail of its log, the goroutine that waits for it. Hard: it may exit between any two
steps; its socket is named after its slot only. Correct: one process per slot;
each is registered, being loaded, or terminated; an error is the end of the log.

**Backend installer** (`installer.go`). A status object for each backend with two
channels and an error. Hard: status objects are replaced while others hold the old
one; the run loop and clients install at once; contexts end in the middle; removals
fail half-way. Correct: no channel is closed twice, waiters of one object see one outcome,
installed means on disk where the backend looks, whoever waits is answered.

**Scheduler, HTTP handlers, Ollama** (`scheduler.go`, `http_handler.go`,
`pkg/ollama`). No state of their own, but one request looks a name up several times,
and configures, preloads, leases, forwards and translates a stream in between.
Correct: the backend fits the model, the configuration accepted last governs, a
client's stream does not depend on where the backend's writes are cut.

**Backends** (`backends/llamacpp`, `vllm`, `diffusers`, `internal/dockerhub`).
Directories replaced step by step, a record of the version. Hard: kills between any two
steps, removals that fail half-way, downloads whose failure is not returned, versions that change.
Correct: a version on record is the one that runs, and what counts as installed works.

**OpenAI recorder** (`pkg/metrics/openai_recorder.go`). A short list of records per
model, subscribers with bounded channels. Hard: records are shared pointers, lists
are read after the lock is given up, a runner that ends removes records. Correct: an
answer is recorded with its own request; a subscriber misses nothing in between.

**Responses API** (`pkg/responses`). A store with a time to live, and one streaming
writer per request. Correct: a streamed answer is the whole one, events are in
the protocol's order, a chain of responses is unbroken, what is stored is final.

**Models API** (`pkg/inference/models`). A semaphore for pulls, and look-ups by tag, ID
or partial name that may be stale when used. Correct: a client learns of a failure
even after a 200; a tag given by a partial name tags what that name finds.

**Model store** (`pkg/distribution/internal/store`, `distribution/client.go`). Blobs,
manifests, bundles and the index `models.json`, with no lock at all. Hard: each
change of the index is a read and a later write; failed writes roll back from a
snapshot; blobs are shared; crashes. Correct: a tag names one model, damage stays with
the models an operation was cut short or raced on, a failed write leaves no trace.

**Resumable pulls and pushes** (`internal/store/blobs.go`, `oci/remote`). Incomplete
files, byte ranges, progress reporters. Hard: servers that ignore ranges or answer
short, two pulls of one layer, reporters whose client has gone. Correct: a blob has the
content of its digest, a broken pull resumes, a push ends, a manifest is complete.

**Registry and Hugging Face clients** (`registry`, `huggingface`). Which files to fetch,
parallel transfers, an upload as one commit.

**Bundles, builder, formats** (`builder`, `modelpack`, `files`, `internal/bundle`,
`tarball`). Files become layers in three formats, and layers become a directory that
backends are started on. Hard: names and ranks decide; a kill leaves half a bundle.
Correct: a bundle in use is whole, and making and finding it answer alike.

**Log streaming** (`pkg/logs`). Two growing files merged by time, then followed.

**Service wiring** (`main.go`, `cmd/dmr`, `pkg/routing`, `pkg/server`, `pkg/tls`). Two servers, the
scheduler, signals, certificates written as four files.

**docker model CLI** (`cmd/cli`). The context file, shared by commands that may be
killed; the controller container, shared through the engine; the line editor; the
chat with its tool calls and the transfers it retries; `docker model package`, whose
archive goes through a pipe into a request.

Without state that several actors share, and not modelled: Anthropic adapter, usage
tracker and metrics aggregation, the gateway (`model-cli`), other CLI commands.

## 2. The modules

| Module | What it is | Main source |
|---|---|---|
| `Loader` | the runner loader and its runners | `loader.go`, `runner.go` |
| `RunnerPool`, `LoaderPool` | what the loader promises; the refinement mapping | |
| `LoaderGuard` | the guard: a channel of one token | `loader.go` |
| `Installer` | the installer and the requests that use it | `installer.go` |
| `Requests` | requests over loader and installer, Ollama included | `scheduler.go`, `http_handler.go`, `pkg/ollama` |
| `BackendInstall` | backends' files: download, replace, verify, remove | `llamacpp/download.go`, `vllm_metal.go`, `diffusers.go` |
| `BackendProcess` | one run of a backend's process | `backends/runner.go`, `tailbuffer` |
| `Recorder` | the OpenAI recorder | `pkg/metrics/openai_recorder.go` |
| `Responses` | the Responses API | `pkg/responses` |
| `ModelsAPI` | the models API over the store | `pkg/inference/models` |
| `ModelStore` | the store, access by access | `internal/store`, `distribution/client.go` |
| `LayerPull` | the resumable download of one layer | `internal/store/blobs.go`, `oci/remote` |
| `RegistryPush` | a push and its progress reporters | `oci/remote`, `internal/progress` |
| `Distribution` | both: what is pushed is pulled | `registry/client.go` |
| `HubTransfer` | pulls and uploads with the Hugging Face hub | `huggingface` |
| `Packaging` | files to artifacts, artifacts to bundles | `builder`, `modelpack`, `internal/bundle` |
| `LogStream` | the merged log | `pkg/logs` |
| `Daemon` | starts, servers, signals, certificates | `main.go`, `pkg/server`, `pkg/tls` |
| `Contexts` | the context file, and detection | `cmd/cli/pkg/modelctx`, `cmd/cli/desktop/context.go` |
| `Standalone` | the controller container | `cmd/cli/pkg/standalone` |
| `Readline` | the line editor and its history | `cmd/cli/readline` |
| `ChatClient` | the chat, tool calls, transfers | `cmd/cli/commands/run.go`, `cmd/cli/desktop/desktop.go` |
| `Archive` | `docker model package` and its pipe | `cmd/cli/commands/package.go`, `tarball` |
| `MCLoader`, `MCInstaller`, `MCDistribution` | instances of one system each | |
| `MCChannels` | `Distribution` and `LoaderGuard` side by side, with their fairness | |
| `Services`, with `Machines` and `Exchanges` | the machines of the daemon side by side | |
| `MCServices` | small instances of them | |
| `CommandLine`, `MCCommandLine` | the machines of the CLI, side by side, and their small instance | |
| `LoaderInv` | the inductive invariant of `Loader` | |
| `LoaderProofs`, `InstallerProofs`, `DistributionProofs`, `CommandLineProofs`, `StoreProofs`, `MachineProofs`, `ExchangeProofs`, `ServicesProofs` | theorems (section 5) | |

The operator comments say which function a definition is; `map` in `PROJECT.json`
gives the lines. An operator whose comment begins with `Mutant:`, or that stands
before the definition it varies under a telling name, is the definition with a bug in it.

### Loader

One action is one critical section under `loader.guard`; the points where the
code gives the guard up are the points where others interleave.

| Code | Actions |
|---|---|
| `load` up to its first unlock, and again after each wakeup | `Load`, `Retry`: one of `Refuse`, `Wait`, `Acquire`, `Reserve` |
| `select` on the poll channel and the context | `Wake`, `Cancel` |
| `run`, `runner.wait`, without the guard | `StartRunner`, `StartFails`, `Healthy`, `WaitFails` |
| the end of `load`, guard taken again | `Unreserve`, `Register` |
| `release` | `Release` |
| `setRunnerConfig`, `Unload`, `UnloadBackend` | `SetConfig`, `UnloadAll`, `UnloadModels`, `UnloadBackend` |
| `run`: start, idle timer, idle check, cancellation, drain | `LoopStart`, `LoopAbort`, `IdleTimer`, `IdleCheck`, `LoopCancel`, `DrainWake`, `Drain` |
| a process exits; time passes | `Crash`, `Tick` |

What the abstraction keeps, and what it leaves out:

- `runners` maps a key to a slot, `slots` a slot to the identity of a runner, `proc`
  a runner to its process; `proc[i] = NoProc` is a closed `done` channel. A
  process remembers slot, key and configuration, so that a property can ask who
  answers on a socket.
- Time is in ticks; `timestamps[s]` is the *age* of the last use, capped at
  `MaxAge`, which is more than any timeout (`TimeAssumption`). The 100 ms of slack
  in `idleCheckDuration` is one tick. The cap only merges ages that every
  comparison in the code treats alike.
- `references` is unsigned and wraps at `RefMod` (2^64 in the code on 64-bit
  machines). In a run `RefMod` exceeds the number of requests, so that a
  correct count never wraps.
- `release` looks for a registered runner of the same backend, model and mode,
  whatever its draft model, in the order of a map iteration (`ReleaseSlots` is that
  nondeterminism), and falls back to slot 0.
- `load` resolves the configuration of its target with the fallback to the
  completion configuration, `IdleTimeoutFor` without it, as the code has it.
- `terminate` cancels the process and waits for it; it is one step here, and
  `BackendProcess` has the steps.
- GPU memory, the proxy and records are not in this module. The default
  configuration that `load` builds has no draft model and is `NoConfig`.

`RunnerPool` has no slots and no counts: each key is absent, loading or present, and the
pool knows who holds it. A runner leaves only while nobody holds it; occupied keys
never exceed the capacity, loads in progress included; leases are granted only
while the pool is open. `LoaderPool` reads these off the loader's tables: a
registered key is present, a key in `loading` is loading, and its holders are the
requests that are being served with it.

`Loader` takes a critical section for one step. `LoaderGuard` is about what that
rests on: `lock` receives the one token of a channel or gives up when its
context ends, `unlock` sends it back and blocks if the channel is full. All callers
but `setRunnerConfig` look at the result of `lock`; `intrusions` counts how often that one has
gone on without the token. `recvq` is the queue of receivers the runtime keeps for a channel.

### Installer, BackendInstall, BackendProcess

In `Installer`, `proc` gives each goroutine (the run loop and each HTTP request) a
program counter, the backend it deals with and the status object it read; `status` says
which object is current, `closed` which channels of each object are closed. Closing
a closed channel sets `crashed`: the goroutine panics. `disk` are the backends whose
files are in place. What `Install` returns depends on the backend: llama.cpp (`Lenient`) returns nil
after every error but a cancellation, whatever is on disk, and its `Uninstall` removes nothing; the
others look at their files. An uninstall may fail half-way, which keeps the status object: `torn`
remembers it until the next installation. `installMu` is a variable because it is held across an
installation; `mu` covers single accesses to the map and is left out. Each caller
makes one call, so a status object is replaced at most once per call and `Statuses` is
finite without a bound in a guard.

`BackendInstall` looks inside one installation, which the installer lets run one
at a time: directories are sets of entries of images, removed and filled one by one; the
record of the version is written last. `server`, `libraries` and `others` are the program, the
libraries and whatever else the image puts beside the program. A `Kill` may come between any two
steps, and any step but the last may fail (`StepFails`, `Unreachable`); what went wrong is
returned or, by llama.cpp, swallowed. `cut` remembers a removal that was cut short. A
later process may want another version. `BackendProcess` looks inside one run: the
process opens its socket, writes and dies as it likes; the goroutine that waits
reads the tail, sends the error, and removes the socket; the runs of one slot
follow each other.

### Requests and the services around it

`Requests` composes scheduler, installer and loader as one request meets them: the
backend is selected by a look-up of the name, the installation awaited, the name
resolved again, the runner leased, the stream translated. The loader is abstracted to
runners with leases and configurations, which is what `RunnerPool` promises.
`Recorder` follows one request's record through lists that are shared and shifted;
its heap names records by the request that made them. `Responses` turns a script of
stream lines, cut into writes at any place, into events and a stored response; upstream numbers the
pieces of a tool call, and may give the call's id in the first of them only.
`ModelsAPI` treats a store operation as one step, between the look-ups and answers
of concurrent requests; `ModelStore` has the file accesses of the same operations.
`LogStream` reads a line at a time: `advance` of `merge.go` is as many `Advance` steps as it
takes to a line with a time or the end of the file, and the runner may write between any two.
An offset counts halves of lines, so a file may end in the middle of one.

### ModelStore, LayerPull, RegistryPush, Distribution

Every action of `ModelStore` is one access to a file: an operation (pull, build,
light-weight write, load, tag, delete, reset) is a program counter with what it has
read so far. `hurt` marks the models an operation of which was cut short by a fault, or
overlapped another, until an operation on them succeeds alone: it is what
`DamageIsolated` is about. `LayerPull` has files as inodes, since a path may be
renamed or removed while descriptors are open; its content is a sequence of
bytes. `RegistryPush` has a goroutine, a reporter and a channel of one for each layer.
`Distribution` extends both: a pull resolves the manifest before it asks for blobs, so
it starts once a push has published.

### Contexts, Standalone, Readline, ChatClient, Archive

`Contexts` has every file access of a command, with the lock file, the temporary file
and the rename, and kills in between; detection reads the file twice, and each time goes on without a
context if it cannot. `Standalone` has
the list, removals, creation and start of a container by commands that share nothing
but its name. `Readline` keeps the three positions (runes, columns, lines) and the
flags of gaps at line ends that the editor keeps. `ChatClient` has the messages of
every request. In `Archive` the writer, the connection (a window of entries) and the
reader are three processes; either end may fail. The daemon looks for the blobs of the layers before it
writes the manifest (`Complete`), not for the config: that the config is there is the archive's
order, in which the manifest is last.

## 3. The runs

A run takes from seconds to about four minutes with two workers. The passing runs have
between 63,152 (`loader_live`) and 1.4 million (`services`) distinct states.
The type invariants of the `services` components are conjuncts of their properties; those of the
loader (proved: `TypeCorrect`), the guard and the installer are not properties of a run.

| Run | Question | Instance |
|---|---|---|
| `loader_pool` | are counts exact, leases kept, the right model on the socket, no wakeup lost, the drain woken? | 3 requests, 3 keys, 2 slots |
| `loader_drafts` | do the tables agree even where counts go wrong? | 2 requests, 3 runner identities, 2 slots, 2 configurations with and without a draft |
| `loader_idle` | is every evictable unused runner watched by a timer or a pending check? | 2 requests, 2 keys, keep-alive "never" set and unset, default timeout 0 |
| `loader_live` | do requests return, drains end, idle runners go; is the loader a `RunnerPool`? | 2 one-shot requests, 2 keys, 1 slot, keep-alive 0 and default 1 tick |
| `loader_shutdown` | *violated*: `StoppedMeansEvicted`, after `run` returns nothing is left | as `loader_idle` |
| `guard` | *violated*: one caller at a time is inside the guard | 5 callers, 4 cancellable, `setRunnerConfig` among them |
| `installer` | no double close, one outcome, installed means on disk, everyone answered | 1 backend of the run loop, 2 on demand, llama.cpp among them, 2 clients, shutdown possible |
| `installer_uninstall` | *violated*: an answer after an uninstall of any backend | the same, no shutdown |
| `channels` | is a push sound, does it end; is a pulled blob whole, does what is published arrive? is the guard's token kept, does every call end until it is intruded upon? | 2 layers, 2 pushes, 1 puller, 3 bytes, 2 faults of 4 kinds; 4 callers, 3 cancellable, `setRunnerConfig` among them |
| `pull_race` | *violated*: a blob is whole with two pulls of one layer | 2 pullers, 1 broken connection |
| `services` | the machines of the daemon | below |
| `command_line` | the machines of the CLI | below |

### Machines side by side

`Services` and `CommandLine` put several modules into one state graph. A behaviour
has a `focus`, chosen at the start, and is one of that machine; the variables of the
others are "off" and never change (those of `Contexts`, which `CommandLine` extends, stay as
they begin). The graph is the disjoint union of the machines'
graphs, and an invariant `focus = "x" => ...` says of machine x what its own module
says. The machines are independent in this sense only here: where parts interact in the
program, one module composes them (`Requests`, `Distribution`, `Recorder` with its
runners, `ModelsAPI` over the store). `Services` takes the machines that are proved about
from `Machines` and `Exchanges`, which declare their constants and variables; `MCServices` and
`MCCommandLine` give the constants their small values, so the theorems are about the
specifications that the runs check.

| Machine | Instance | Conjuncts of its property |
|---|---|---|
| `Responses` | 3 responses, one streamed; a script of interleaved tool calls and text with a piece that names no call, one with a line that cannot be read, and an error, cut anywhere; time to live 1 | `AnswersAgree`: `StreamEqualsWhole`, `EventsInOrder`, `HistoryInOrder`; steps: `SavedIsFinalStep` |
| `Recorder` | 2 requests by one name, 2 modes, a name that moves once, lists and channels of one | `RecordsTrue`: `ResponseMatches`, `AnswerRecorded`, `NothingFallsBetween`, `NoPanic` |
| `Requests` | 2 clients, 7 kinds of request, a name that moves between two formats, 2 backends, one of them deferred | `RequestsHonoured`: `BackendSuits`, `ConfigHonoured`; `AnswersAgree`: `CutsDoNotMatter` |
| `ModelsAPI` | 2 requests, 2 models, 2 tags with one short name, one pull at a time | `FailureTold`; steps: `TagByNameStep` |
| `Packaging` | 10 files in 3 directories, 3 at a time, three formats; 3 calls, one kill or one removal that fails half-way, at any point | `BundlesWhole`: `WholeBundle`, `SameAnswer`, `AlwaysWeights` |
| `HubTransfer` | 4 repositories (quantizations, shards, projectors of equal rank, no weights), 2 concurrent transfers | `TransfersWhole`: `AllFilesArrive`, `NobodyWritesIntoTheVoid`, `WholeShardSets`, `CommittedIsStored` |
| `BackendInstall` | 2 versions, 2 pushes of the latest, 2 kills, 3 downloads | `BackendsSound`: `InstalledWhole`, `RecordTellsImage` |
| `BackendProcess` | 2 runs of a slot, 2 lines, a tail of one | `BackendsSound`: `OneProcess`, `ErrorIsTail` |
| `LogStream` | 3 and 2 lines, one without a time, each in two halves | `LogUnbroken`: `NoGap`, `InOrder` |
| `Daemon` | 1 kill, 2 generations of certificates | `DaemonKept`: `StoppedInFull`, `ClientsCanVerify`, `FlagDecides` |
| `ModelStore`, faults | 1 client, 2 models with a common layer, 4 tags (one invalid, one old), every operation, 7 kinds of fault, 3 operations | `StoreSound`: `OneOwner`, `DamageIsolated`; steps: `FailedWriteUndoneStep`, `TagNamesModelStep` |
| `ModelStore`, clients | 2 clients, 3 models with a common layer, 1 tag, failed downloads, 3 operations | `StoreSound` |
| `Contexts` | 3 commands, one name beside the default, 2 hosts, 3 environments, kills | `ContextsKept`: `ActiveExists`, `NoLostUpdate`, `NeverPlaintext` |
| `Standalone` | 2 commands of 4 kinds, 4 containers | `WorkTogether` |
| `Readline` | lines of 2 columns, 3 keys typed, a history of 2, 2 calls | `EditorAgrees`: `DisplayAgrees`, `DraftKept` |
| `ChatClient` | 6 kinds of line, 6 replies, 7 progress streams, 2 turns, 3 rounds of tools, 3 attempts | `ChatTrue`: `RequestWellFormed`, `HistoryPaired`, `ShownInFull`, `NoFalseSuccess` |
| `Archive` | 2 layers, a window of 2, failures at both ends | `ArchiveWhole`: `PackagedWhole`; `ArchiveMoves`: `NobodyHangs` |

Each machine's property also has its type invariant. The step properties together
are `EffectsExact`. Every property has a mutant in `PROJECT.json`, and nearly every
conjunct has a mutant operator of its own beside the definition it would break:
replace the definition by it to see that conjunct fail.

### Why the bounds are enough to be interesting

*Loader.* With two slots and three keys a third request must evict or wait, and there
are always other unused or used runners to pick wrongly; two requests share a
runner, so counts pass 1; three requests allow one to wait for another's load while a
third releases. As long as leases are kept, a runner identity is in a slot or with
the request that loads into a reserved slot, so `NSlots` identities are enough; with
draft models a request may outlive its runner's slot, hence three there. Timeouts of
0 and 1 tick and "never" are the three sides of every comparison. `loader_live` has one
slot so that requests must wait for each other, and requests that do not call again.
For any numbers there are the proofs.

*Store.* Two models that share a layer are the smallest case in which deleting one may
take a file of the other; an operation, its rollback and a later operation on the other
model make three operations; a crash between any two accesses is one of the faults.
Two clients with one tag and three models, one of them already listed, show every
interleaving of two read-modify-writes of the index.

*Pull.* Three bytes are a first byte (the one the code reads ahead), a middle one
and a last: an offset may be 0, inside, at the end or beyond it. Two faults are a
broken pull and a second kind of answer to its retry. One puller, since two are what
`pull_race` is about.

*Streams.* A line is cut into a head and an end, and writes carry any number of
halves: this is every way to cut a line. Scripts hold two interleaved tool calls,
text before and after, and what no chunk looks like.

*Recorder.* Lists of one show the shift on every second request; a name that moves once
shows every look-up before and after.

*CLI.* Two commands and four containers show the stale list and the name that is
taken. Lines of two columns wrap at the second rune. A window of two entries is full
while the writer has one more.

Requests and runner identities are interchangeable and the loader's safety runs use
that as symmetry; the runs with liveness properties do not.

Deadlock is checked in all runs but `services` and `command_line`, whose machines end:
a chat is over, a command has returned, a bound on operations is reached. `Archive` has
`NobodyHangs` instead: until the command has printed its result a step that is no
failure is enabled. In `Loader` an operator's calls are always possible, and
`Installer` has the step `Terminated` for when all calls have returned.

### Fairness, and why the code justifies it

- `WF_vars(RequestStep(r))` in `Loader`: a request's goroutine that can take a step
  takes it. Starting and probing are bounded by the number of health pings and by the
  process's exit; a served request ends. The guard is held only for critical sections
  that end. There is no fairness for calling, cancelling, unloading or
  configuring: clients need do nothing.
- `WF_vars(LoopStep)`, `WF_vars(Tick)`: the loop's goroutine runs and time passes.
  Nothing forces the loop to be cancelled, nor a process to exit.
- In `MCChannels`, for the guard, weak fairness for what a caller does once it has called: the Go
  runtime queues the receivers of a channel and serves them in turn, which `LoaderGuard` models
  (`recvq`), so nobody is passed over for ever. Clients need not call, nor be cancelled.
  `EveryCallEnds` ends its claim at the first intrusion: afterwards somebody may block in
  `unlock`, which `TokensCounted` counts.
- In `Installer`, weak fairness for the run loop and each goroutine's steps: an
  installation ends, in success or failure. A client need not go away.
- In `RegistryPush`, weak fairness for the goroutines of a push and their reporters, and
  `SF_pushVars(ReadEOF(l))`: reads return something again and again, and a layer is finite.
  In `LayerPull`, weak fairness for the steps of a pull; in `Distribution`, a pull that
  failed is asked for again, as a user does. Faults are bounded (`MaxFaults`): an answer that is always
  short never ends, and the code does not claim otherwise.

### What the properties are

*Pool.* `PoolConsistent` (three tables, one truth), `SlotExclusive` (no two living
processes on one socket or for one key), `NoOrphan` (no living process is forgotten),
`RefCount`, `LeaseKept`, `RightModelAnswers`, `NoLostWakeup` (unload, `setRunnerConfig`
and the idle timer evict without a broadcast; none is needed, because a request that
waits for a slot would have evicted whatever they evict; nor does the drain sleep
through the last release), `IdleWatched`, `EveryRequestReturns`, `DrainEnds`,
`IdleEvicted`, and the refinement `PoolSpec`.

*Guard and installer.* `TokensCounted` (the token is never lost, and each call of `setRunnerConfig`
that goes on without it leaves one caller more inside), `EveryCallEnds`, and `MutualExclusion`, which is
violated; `NoDoubleClose`, `OneOutcome`, `InstalledOnDisk`, `EveryWaitReturnsOrShutDown`.

*Distribution.* `PushSound` (nothing is sent into a reporter's channel without room, and a
manifest in the registry names only blobs it has), `PushEnds`, `PullSound` (tokens of the
pull semaphore, and a remainder that can be resumed), `BlobWhole`, `PublishedArrives`.

*Services and CLI.* As in the table; the modules state each conjunct with the code it
is about.

## 4. Where code and documentation disagree

Shown by runs (details and quotations in `PROJECT.json`):

- A load that began before a shutdown registers its runner after the drain has
  found the pool empty (`loader.go:405`): `run` has returned, the process lives.
- `setRunnerConfig` goes on when `lock` gave up because its client has left (`loader.go:703`): it
  changes the loader's fields beside whoever holds the guard, and its `unlock` sends a token too
  many, so that one caller later blocks for ever.
- `uninstallBackend` resets the status of backends that only the run loop installs;
  whoever waits for one afterwards is never answered (`installer.go:280`).
- Two pulls of one layer append to one incomplete file, and a blob that is not the
  layer is stored (`blobs.go:299`).

Met while modelling, in the models, without a run of their own. Each is either excepted by
a named condition of a property, kept out of an instance as said here, or harmless to
what the properties say.

*Loader.* `release` ignores the draft model of the runner it releases (`loader.go:673`)
although keys include it: with two draft configurations one runner keeps a reference
for ever and another is evicted in use (`loader_drafts` has such configurations and
claims no counts; see `NoDrafts` in section 5). `idleCheckDuration` returns 0, not -1, while a
runner whose process exited is still in use (357 against the comment at 347): the timer
fires again and again and evicts nothing. A configuration is replaced while a process
with the old one is being loaded, or runs under another draft model (730 against 728); a
new keep-alive does not re-arm the timer (735). Reranking and image generation inherit
the completion configuration but not its keep-alive (225). An unload without a backend
evicts the runners of all backends but deletes no configuration (321 against 319).

*Scheduler and Ollama.* `GetAllActiveRunners` looks runners up again by the reference it
listed (`scheduler.go:289`) and compares a model ID with it, so `/metrics` lists no
runner that was loaded by name. Files of a backend are removed under running requests
(233). The Ollama streaming writer drops error bodies; a generate request with an empty
prompt never preloads; configuring in embedding mode preloads a completion runner; an
error after progress lines leaves status 200; unload and delete name no backend, so
configurations stay; the last unterminated line of a stream is lost.

*Installer and backends.* The run loop installs without `installMu` and `installBackend`
accepts any backend (`installer.go:153`): both may close one channel (see `OnlyDeferred` in
section 5). After a cancelled installation the run loop sets the error but closes no
channel (146 against 184): `EveryWaitReturnsOrShutDown` says how far the promise holds.
Between the two steps of `uninstallBackend` a request is told that the backend is
installed (271), and after an uninstall that failed half-way every request is, until the next
installation (271-274): `InstalledOnDisk` excepts these two. llama.cpp is said to be
installed whatever became of its download (`llamacpp.go:195`); a request then fails at the
start of its process. The run loop reads the
map without `mu` (129 against 54). A removal of old files that is cut short, by a kill or an
error, may leave llama.cpp's server and the old record with another file missing, or a Python
interpreter and its record with another file missing, and the next start takes it for the installed version:
`InstalledWhole` excepts the other files after such a removal (`cut`), never the program or its
libraries. A Python uninstall that is cut short may leave an interpreter and a record without packages, which every later
installation fails on; with updates disabled and no binary llama.cpp counts as installed;
its uninstall does nothing. The goroutine that waits removes the socket file, perhaps
after `Run` has returned and the next run has begun (`runner.go:165-168` of `backends`).

*Recorder.* The list is shifted in place while readers walk it; a runner of another mode
takes the records of its model with it; the filter compares the name a request
used while listing goes by the model's ID; two look-ups of the name may differ. The
exceptions of `AnswerRecorded` and `ResponseMatches` name these.

*Responses.* A tool call's later pieces without an ID each start a call (`streaming.go:324-346`):
`StreamEqualsWhole` asks for each call once only if all its pieces name it, and otherwise that no
piece of the arguments is lost or repeated. Usage is read
under names the upstream does not use, so counts are 0; "failed" by a content filter is
overwritten by "completed"; a malformed chunk gives failed and then completed; a stream
that failed upstream is a 200 to the client, events having been written first; a chain
ends silently where it expired; message and first tool call share output index 0.

*Models API.* A dial timeout before the first progress line matches the check for
cancellation (`models/http_handler.go:133-136`): status 200 and an empty body. A cached
pull announces success before it adds the tag. A tag by ID resolves again and
may tag another model.

*Store and pulls.* `WriteManifest` that fails removes a manifest that existed before
(`manifests.go:48` against `store.go:384`): the model counts as damaged. `TrimPrefix` in
`index.go:26` strips a tag that is a prefix of another. `client.go:376` fetches by tag
what it checked by digest. A response that ends at once renames the incomplete file
unverified (`blobs.go:241`): with answers of the wrong range or cut at their first
byte, `BlobWhole` fails, so the faults "range" and "abrupt" of `LayerPull` are in no
passing run. A leftover longer than the layer is answered with 416 until its cleanup
after seven days.

*Packaging and hub.* For old models the answer is the last GGUF shard where the comments
say the first (`bundle.go:18`, 30). An unpacked projector that sorts first may be named
as the model. A deletion, or the replacement of a bundle, that is cut short before it reaches
`config.json` leaves files that `Parse` may accept once the model is there again (`store.go:138-141`,
`bundles.go:44`): `WholeBundle` then allows missing files (`scarred`), but none with other content. Unpacking a CNCF model reports no template, parsing does. Download errors
are joined with `%v`, so a gated repository's error is never "unauthorized" (`downloader.go:129`
against `client.go:865`); "q4_k" selects two quantizations; an unknown one falls back
without a word; nothing pins the commit between listing and fetching.

*Daemon.* When a server fails, `Run` logs and returns nil without stopping the rest
(`server.go:39` says otherwise): `StoppedInFull` excepts it. A kill between certificate
and key leaves a pair that every later start rejects. Certificates are not renewed
while the daemon runs.

*CLI.* Commands on the controller act on lists made before: one force-removes a container
that another has started since (`containers.go:151-153` speaks of stopped ones), and one
that is gone fails the other command. In the editor, inserting before two full lines
wraps a rune early, End ignores gaps left by wide runes, `Replace` keeps the flags,
Ctrl-C leaves the history's position in the middle; `DisplayAgrees` and `DraftKept` name
these. Ctrl-C in a multi-line message resets the prompt but not the mode (`run.go:195`);
tool calls with gaps in their indices are dropped; a progress stream that ends cleanly
without "success" counts as success. `docker model package --from` with only
configuration changes writes its variant into the temporary store when the source was
fetched from the daemon, never pushes it and reports success (`package.go:475-490`
against 209); a context size is cut to 32 bits (445); an export that fails after its
headers appends the error to the archive.

## 5. What is proved

All theorems hold for every value of the constants that satisfies the modules' named
assumptions and, where stated, the condition in the second column.

| Module | Condition | Theorems |
|---|---|---|
| `LoaderProofs` | none | `TypeCorrect`, `Consistent`, `Exclusive`, `Orphanless`, `Inductive` |
| | `NoDrafts`, `FewRequests` | `CountsTrue`, `LeasesKept`, `AnswersRight`, `WakeupsKept`, `IdleRunnersWatched` |
| | `NoDrafts`, `FewRequests` | `Implements`: `Spec => PoolSpec` |
| | finitely many callers | of `LoaderGuard`: `TokenConserved`, `Serialised` |
| `InstallerProofs` | `OnlyDeferred` | `NeverClosedTwice`, `OutcomeUnique`, `InstalledMeansOnDisk`, `InstallerSafe` |
| `DistributionProofs` | none | `PushIsSound` |
| | finitely many pullers | `TokensAreKept` |
| | `OnePuller`, `RangesKept` | `BlobIsWhole`, `PullIsSound` |
| `CommandLineProofs` | none | `ContextsSafe`, `InstallersWorkTogether`, `PackagesWhole`, `ChatsAreTrue` |
| `ServicesProofs` | none | `FailuresAreTold`, `BackendsAreSound`, `DaemonIsKept`, `RecordsAreTrue`, `RequestsAreHonoured`, `LogIsUnbroken` |
| | `ShardsAreWeights` | `TransfersAreWhole` |
| | `OldTagsStayApart` | `StoreIsSound` |
| | `OldTagsStayApart`, `TagsAreUncut` | `StoreEffectsAreExact` |

*The conditions.* `NoDrafts`: no configuration names a draft model; with two that
differ, `release` charges the wrong slot and `RefCount` is false (section 4).
`FewRequests`: finitely many requests, fewer than a count can tell apart. `OnlyDeferred`:
install requests name backends that are installed on demand; for another one, run loop and
request race for one channel. `OnePuller` and `RangesKept`: one pull of a layer at a time, from a
server that sends the range it announces and no answer that ends with its first byte; the
run `pull_race` and section 4 have what happens otherwise. In each of these cases the
condition excludes a known defect, and the theorem says there is no other.
`OldTagsStayApart`: the migration of hf.co tags (`client.go:114-140`) gives no two models of
the old index one tag; it would if the index had "hf.co/x" on one and "huggingface.co/x" on
the other. `TagsAreUncut`: no tag is a proper prefix of another; `Index.Tag` cuts the source off the
front of the new tag (`index.go:26`), so tagging "x:1" as "x:12" gives the model the tag "2". `ShardsAreWeights` is about input: only GGUF weights, and no projector, are
numbered as shards. The passing runs satisfy the conditions.

*The tables.* None of the four properties of `LoaderProofs` is inductive. `Register`
overwrites the tables at the slot the request remembers from before it gave up the guard;
that this is harmless needs the reservation to be still there and nobody else's.
`IInv` therefore adds who *owns* a slot: a request that loads has its reservation in
`loading` (`RequestsOK`), two such requests have different slots and runners
(`ReservationsApart`), a runner sits in one slot (`SlotsApart`), and each living process
is registered under its own slot and key or belongs to the request that loads it
(`ProcsOK`). It says nothing of counts, so it holds with draft models too. There is one
lemma per action; actions that leave a part of the state alone share `FrameKeeps` and
`FrameIInv`.

*The guard.* `TokenConserved` has no condition on who is cancelled: `GuardInv` is `TokensCounted` with
the types, and is inductive: each way in or out changes one of its terms by one and another with it.
`Serialised` says what follows before the first intrusion.

*The leases.* `LInv` adds to `IInv` that a request being served holds a registered runner
in the slot it remembers, and that counts are cardinalities of holders. Without drafts a
key is determined by backend, model and mode, so `release` finds the slot that was
leased: this is the step where the condition is used. A count of 0 then means no
holders, so eviction of unused runners takes none in use. `WakeupsKept` adds who is told
of each change: whatever makes room for a waiting request leaves a token in its channel,
or the request would not have waited.

*The refinement.* Each action maps to a step of the pool or none: `Reserve` to an
eviction and `BeginLoad`, `Register` to `LoadDone`, `Release` to `GiveBack` (which may
drop the runner), the evictions to `Drop`. `Drop` needs that an unused key has no
holder, which is `LInv`.

*The installer.* `InstallerSafe` is about who works on what: `installMu` is held by the one
goroutine that installs or resets (`Locked`), deferred backends are touched by nobody else
(`RunPlace`, `CallerPlace`), and what an installation begins with is a status object of
which nothing has been said (`Fresh`, `Unsaid`, `Unvisited`). `Bounded` shows that
`Statuses` is large enough, so the finite set hides nothing.

*The idle timer.* `IdleWatched` needs `LInv`, since only an exact count says that a runner is
unused. Each step either leaves what a runner needs as it was (its age, its keep-alive, the
timer: `UntouchedKeeps`), or tells the loop to look (`idleCheck`), or arms the timer with the
least of what runners need, which is what `DurationWatches` says of `idleCheckDuration`.

*The push and the pull.* The manifest is complete because of what each goroutine knows when it
ends: its layer is in the registry or its error is in the results, which are looked at
before the config is pushed. Of a pull, `PullShape` says for any number of pullers where each
stands, which gives the tokens. For one puller `FilesOK` adds what the file holds: it is
the beginning of the layer as long as the offset that was asked for, plus what has been
written of the response, with the byte that was read ahead counted once; so the size check
before the rename sees the whole layer or none.

*The services.* `Services` has one machine in focus at a time, and a step of it is a step of
that machine (`InFocus`). `MachineProofs` (models API, backends, daemon, requests, logs) and
`ExchangeProofs` (hub, recorder) have the inductive invariant of each machine and the lemma that its steps keep
it, with one lemma or case per action; `ServicesProofs` concludes. The proofs of the two are apart
because each takes minutes. What makes the invariants inductive:

- *Models API* (`ModelsInv`): a request that has not ended has neither failed nor said so, and
  holds a token exactly while it pulls; every way to end says error if and only if it failed.
- *Backends* (`InstallInv`): a record is written over a whole image only, and is gone before another
  image is moved in (`Placed` follows the installation step by step); an image with files missing
  beside the program is one whose removal was cut short. `ProcessInv`: runs follow each
  other, and the waiter has read the log after the last line was written.
- *Daemon* (`DaemonInv`): the four files have the generation being written up to the step that
  writes, the former one after it; a pair is loaded only if it is of one generation.
- *Hub* (`HubInv`): what has been fetched is all that was chosen when the model is built, and every
  large object before `upload.next` is stored.
- *Recorder* (`RecInv`): the lists in the heap name requests without repetition; a record that is in
  a list has its call's answer or its call has not ended; and for each subscriber every answer is
  seen, or in its channel, or in a broadcast that is under way, or in a list it has yet to send
  (`OnTheWay`). Identifiers are made of the model and the request, so a search of a list finds the
  request's own record (`OwnRecord`).
- *Requests* (`RequestsInv`): a request's backend is the one chosen for the model that it saw when it
  chose (`RequestOK`), and stays so, whatever the name comes to mean later; an engine that is starting
  has one request that starts it (`StartedByOne`), and one that is leased is ready (`LeasedReady`): so an
  engine that is replaced or reconfigured is nobody's, and its configuration is the last one accepted
  unless that came during its start (`ConfiguredLast`).
- *Logs* (`LogInv`): the output of a file ends where the line held back begins, or else at the offset
  (`AllSeen`, `OutputTo`), and the tail starts at the same offset. A held line is the one read last and
  was read from the beginning of a line (`HeldLast`), so its time is that line's; no time that is out is
  later than any line that the merge may still put out (`NothingLater`), since the earlier of two held
  lines goes first and a file's later lines are not earlier. A log with times that go back is
  outside that claim, as it is outside the code's.

*The store.* `StoreInv` of `StoreProofs` rests on what an operation knows while it runs. The
history variables `alone` and `hurt` make that precise: an operation that overlaps another has
marked its model as hurt when the second one began (`Marked`), so nothing has to be known of it
but that it leaves other models as they are (`Spares`: its snapshot of the index, which it will
write back, lists the same other models as the index does, and no file it is about to remove is
one of theirs). That holds because every overlapping operation began before or after it, and in
both cases its model is hurt. An operation that is alone is described place by place (`Alone`):
which files are there, what the snapshot says, what is on the list of what to undo. A model that
is not hurt is then whole unless an operation works on it (`Kept`). Tags stay apart in the index
and in every snapshot of it (`Good`), for which the four operations on the index have a lemma
each; before the migration only the migrated tags are known to be apart (`Apart`). A reset removes
everything, file by file, so while one runs only its own progress is known; one that ends alone
leaves nothing, and one that overlapped another operation has hurt every model. The stores of
`Services` are two instances of `ModelStore`; `StoreProofs` is instantiated twice in
`ServicesProofs`, and each step of one is shown to be a step of the other.

*Single steps.* `StoreEffects` compares a state with the one before, so its proof says what an operation
that is alone remembers (`Remembered`): until its entry is in the index, and again once that is taken
back, a write finds there what it read when it began; and the index a tagging is about to write is
the present one with its tag. A second operation ends both, by ending `alone`. For tags by partial names
`TagsAsk` adds to `ModelsInv` that what a look-up found has the name that was asked for; between the
look-up and the tagging the tag found may move to another model, which then is the one that answers to
the name.

*The contexts.* Whoever is between its read and its report holds the lock; what it has read
is what the file still holds; the temporary file it is about to rename is that file
with its one change. Kills at any step keep this, because the lock goes with the
process and the file changes only by a rename.

*The command line.* As with the services, a step is one of the machine in focus. `WorkTogether`
needs nothing but the shape of the installers' records (`InstallersInv`): whoever stops or removes
the container is not done itself, and whoever is done has just seen it up, so the property is
inductive. `ArchiveInv` says that an archive is under way only while the command waits for it, that
a store lists a model only when it holds all of its blobs, and that what was fetched with success is
whole from then on. The daemon asks for the layers only, so the invariant also follows the order of
the entries through writer, window and reader: once the manifest has been read the config has been. `ChatInv` describes a message in progress: what it asks is the history with the
question after it, what follows are whole rounds of calls with a result for each (`Rounds`), and
there are none once the tools were given up; of the text, what was shown is its beginning up to
where it was flushed (`TextOK`), whichever fences hold it back. Turns in the history are smaller
than the one in progress, so one that fails leaves no trace. The first of some positions and the
order of results are `Min` and `SetToSeq` of the community modules; `FirstIs` and `ResultsAre` say
of them what is needed.

*Only model-checked:* all liveness (`EveryRequestReturns`, `DrainEnds`, `IdleEvicted`,
`EveryCallEnds`, `EveryWaitReturnsOrShutDown`, `PushEnds`, `PublishedArrives`), which is
beyond the prover; and these:

- `EffectsExact` as a whole: `StoreEffects`, which is all of it but the responses, is proved
  (`StoreEffectsAreExact`); `SavedIsFinalStep` is about what a fold over the lines of a write does.
- `BundlesWhole`: it compares what folds and filters over the layers compute when a model is made,
  unpacked and found again.
- `ArchiveMoves`: that nobody waits for ever is said with ENABLED, which is beyond the prover too.
- `AnswersAgree`, `EditorAgrees`: they compute over sequences by folds and filters. Induction over the
  natural numbers is within reach (`NatMin` in `ExchangeProofs` proves the least number principle from
  the library's well-foundedness facts, and the proofs of `HubTransfer` and `Recorder` use it); theorems
  of the library that take an operator as a parameter are not, so each such function needs its own
  induction.

Three statements of the model that TLC had passed were changed because they could not be proved.
`NextLog` chose by a CASE whose guards overlapped, of which TLA+ does not say which is taken, so an
earlier line of the engine could have had to wait; `BackendSuits` was true of two formats only, and is
now said of any; and `LogStream` put out all lines without a time in one step, by a recursive function,
which also hid what the runner writes in between.

## 6. What is not modelled

The notes of the components in `PROJECT.json` say it for each. In short:

- Formatting, parsing and probing without state: command lines of backends, GGUF and
  safetensors headers, chat templates, JSON shapes, platform and GPU checks, memory
  estimates, URLs and authentication, escape sequences of the editor.
- Code that is stateless or talks to one other party at a time: the Anthropic adapter, the
  usage tracker and the aggregation of metrics, routing, the gateway (`model-cli`), and the
  CLI's compose, integration, search and benchmark commands.
- Tar layers of directories in `Packaging`: extraction is one step per file there.
- What libraries and services do inside: the registry, the hub, the Docker engine, the
  backends' programs, the kernel's locks and renames are external, and appear as the answers
  and the atomicity the code relies on.
- A backend whose `Run` ignores its cancelled context (`runner.go:259`): `terminate` would wait
  with the guard held. `BackendProcess` has processes that answer an interrupt late.
- The proxy's error handler after a process ended without an error (`runner.go:176`), and
  the rebuild of routes while requests are in flight.

## 7. What could come next

1. Proofs of `SavedIsFinalStep` and `CutsDoNotMatter`, by induction over the lines of a write.
2. `Loader` and `BackendProcess` composed, with `terminate` as several steps under the guard.
3. An abstract store (a map from tags to whole models), and `ModelStore` with one client shown to
   implement it.
4. More than one layer in `LayerPull`, with the concurrency limit of a pull.

## 8. Running

    tlc -workers 2 -config MCLoader_pool.cfg MCLoader     # and so on, see PROJECT.json
    tlc -workers 2 -config MCServices.cfg MCServices
    tlc -workers 2 -config MCCommandLine.cfg MCCommandLine
    tlapm LoaderProofs.tla                                # and the other *Proofs modules

The proofs take two to five minutes for `LoaderProofs`, `StoreProofs`, `InstallerProofs` and
`CommandLineProofs`, seven or eight for `MachineProofs` and `ExchangeProofs`, and about one to
three for the others.
