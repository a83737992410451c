---------------------------- MODULE RegistryPush ----------------------------
(***************************************************************************)
(* The push of a model (remote.Write): layers by concurrent goroutines     *)
(* that a semaphore bounds, each with a progress reporter, then the        *)
(* config, then the manifest.  A failed push may be repeated.              *)
(***************************************************************************)
EXTENDS Naturals, FiniteSets

CONSTANTS
  Layers, Config,  \* blobs of the model
  MaxConcurrent,   \* maxConcurrentLayerPushes
  MaxPushes        \* bound: pushes in one behaviour

ASSUME PushAssumption ==
  /\ IsFiniteSet(Layers) /\ Config \notin Layers
  /\ MaxConcurrent \in Nat \ {0} /\ MaxPushes \in Nat

VARIABLES
  registry,  \* blobs the registry holds
  manifest,  \* the registry holds the manifest
  main,      \* where the push itself is
  worker,    \* where the goroutine of each layer is
  failed,    \* results: layers whose goroutine reported an error
  queue,     \* updates in each reporter's channel (capacity 1)
  closed,    \* the channel has been closed
  reporter,  \* the reporter of each layer: "none", "runs", "done"
  pushes     \* pushes begun, for the bound

pushVars == <<registry, manifest, main, worker, failed, queue, closed, reporter, pushes>>
layerVars == <<worker, failed, queue, closed, reporter>>

PushInit ==
  /\ registry = {} /\ manifest = FALSE
  /\ main = "idle"
  /\ worker = [l \in Layers |-> "none"]
  /\ failed = {}
  /\ queue = [l \in Layers |-> 0]
  /\ closed = [l \in Layers |-> FALSE]
  /\ reporter = [l \in Layers |-> "none"]
  /\ pushes = 0

BeginPush ==
  /\ main \in {"idle", "ok", "failed"} /\ pushes < MaxPushes
  /\ pushes' = pushes + 1
  /\ main' = "layers"
  /\ worker' = [l \in Layers |-> "none"]
  /\ failed' = {}
  /\ queue' = [l \in Layers |-> 0]
  /\ closed' = [l \in Layers |-> FALSE]
  /\ reporter' = [l \in Layers |-> "none"]
  /\ UNCHANGED <<registry, manifest>>

(***************************************************************************)
(* Layers                                                                  *)
(***************************************************************************)
Running == {l \in Layers : worker[l] \notin {"none", "end"}}

\* The loop takes a slot of the semaphore before it starts a goroutine.
StartLayer(l) ==
  /\ main = "layers" /\ worker[l] = "none"
  /\ Cardinality(Running) < MaxConcurrent
  /\ worker' = [worker EXCEPT ![l] = "open"]
  /\ reporter' = [reporter EXCEPT ![l] = "runs"]
  /\ UNCHANGED <<registry, manifest, main, failed, queue, closed, pushes>>

Goto(l, pc) == worker' = [worker EXCEPT ![l] = pc]

\* closeProgress, and the wait for the reporter in closeReporter.
CloseProgress(l) == Goto(l, "closing") /\ closed' = [closed EXCEPT ![l] = TRUE]

FailLayer(l) == CloseProgress(l) /\ failed' = failed \cup {l}

\* Compressed and Push: a blob the registry has is not sent again.
OpenLayer(l) ==
  /\ worker[l] = "open"
  /\ \/ l \in registry /\ Goto(l, "total") /\ UNCHANGED <<failed, closed>>
     \/ l \notin registry /\ Goto(l, "copy") /\ UNCHANGED <<failed, closed>>
     \/ FailLayer(l)
  /\ UNCHANGED <<registry, manifest, main, queue, reporter, pushes>>

\* Reader.Read within io.Copy: an update is dropped while the channel is full,
\* but the one of the last read waits.
ReadSome(l) ==
  /\ worker[l] = "copy"
  /\ \/ queue[l] = 0 /\ queue' = [queue EXCEPT ![l] = 1] /\ UNCHANGED <<worker, failed, closed>>
     \/ FailLayer(l) /\ UNCHANGED queue
  /\ UNCHANGED <<registry, manifest, main, reporter, pushes>>

ReadEOF(l) ==
  /\ worker[l] = "copy" /\ queue[l] = 0
  /\ queue' = [queue EXCEPT ![l] = 1]
  /\ Goto(l, "commit")
  /\ UNCHANGED <<registry, manifest, main, failed, closed, reporter, pushes>>

CommitLayer(l) ==
  /\ worker[l] = "commit"
  /\ \/ registry' = registry \cup {l} /\ Goto(l, "total") /\ UNCHANGED <<failed, closed>>
     \/ FailLayer(l) /\ UNCHANGED registry
  /\ UNCHANGED <<manifest, main, queue, reporter, pushes>>

\* Mutant: the update is queued whatever the capacity of the channel.
SendTotalAnyway(l) ==
  /\ worker[l] = "total"
  /\ queue' = [queue EXCEPT ![l] = @ + 1]
  /\ CloseProgress(l)
  /\ UNCHANGED <<registry, manifest, main, failed, reporter, pushes>>

\* The update to 100%, sent whether or not the channel has room.
SendTotal(l) ==
  /\ worker[l] = "total" /\ queue[l] = 0
  /\ queue' = [queue EXCEPT ![l] = 1]
  /\ CloseProgress(l)
  /\ UNCHANGED <<registry, manifest, main, failed, reporter, pushes>>

LayerEnds(l) ==
  /\ worker[l] = "closing" /\ reporter[l] = "done"
  /\ Goto(l, "end")
  /\ UNCHANGED <<registry, manifest, main, failed, queue, closed, reporter, pushes>>

\* Mutant: the reporter gives up when the client can no longer be written to.
ReportUntilError(l) ==
  /\ reporter[l] = "runs"
  /\ \/ queue[l] = 1 /\ queue' = [queue EXCEPT ![l] = 0] /\ UNCHANGED reporter
     \/ /\ closed[l] /\ queue[l] = 0
        /\ reporter' = [reporter EXCEPT ![l] = "done"] /\ UNCHANGED queue
     \/ reporter' = [reporter EXCEPT ![l] = "gone"] /\ UNCHANGED queue
  /\ UNCHANGED <<registry, manifest, main, worker, failed, closed, pushes>>

\* The goroutine of Reporter.Updates takes updates until the channel is closed
\* and empty; an error of the client's connection does not stop it.
Report(l) ==
  /\ reporter[l] = "runs"
  /\ \/ queue[l] = 1 /\ queue' = [queue EXCEPT ![l] = 0] /\ UNCHANGED reporter
     \/ /\ closed[l] /\ queue[l] = 0
        /\ reporter' = [reporter EXCEPT ![l] = "done"] /\ UNCHANGED queue
  /\ UNCHANGED <<registry, manifest, main, worker, failed, closed, pushes>>

(***************************************************************************)
(* Config and manifest                                                     *)
(***************************************************************************)
\* Mutant: errors of the layers are not looked at.
LayersPushedAnyway ==
  /\ main = "layers" /\ \A l \in Layers : worker[l] = "end"
  /\ main' = "config"
  /\ UNCHANGED <<registry, manifest, layerVars, pushes>>

LayersPushed ==
  /\ main = "layers" /\ \A l \in Layers : worker[l] = "end"
  /\ main' = IF failed = {} THEN "config" ELSE "failed"
  /\ UNCHANGED <<registry, manifest, layerVars, pushes>>

\* Reading the config, asking for it or sending it fails, or it is there.
PushConfig ==
  /\ main = "config"
  /\ \/ registry' = registry \cup {Config} /\ main' = "manifest"
     \/ main' = "failed" /\ UNCHANGED registry
  /\ UNCHANGED <<manifest, layerVars, pushes>>

PushManifest ==
  /\ main = "manifest"
  /\ \/ manifest' = TRUE /\ main' = "ok"
     \/ main' = "failed" /\ UNCHANGED manifest
  /\ UNCHANGED <<registry, layerVars, pushes>>

LayerStep(l) ==
  \/ StartLayer(l) \/ OpenLayer(l) \/ ReadSome(l) \/ ReadEOF(l) \/ CommitLayer(l)
  \/ SendTotal(l) \/ LayerEnds(l) \/ Report(l)

PushNext ==
  \/ BeginPush \/ LayersPushed \/ PushConfig \/ PushManifest
  \/ \E l \in Layers : LayerStep(l)

\* Goroutines that can go on do; a read comes to its end or to an error.
PushFairness ==
  /\ WF_pushVars(LayersPushed \/ PushConfig \/ PushManifest)
  /\ \A l \in Layers :
       /\ WF_pushVars(StartLayer(l) \/ OpenLayer(l) \/ CommitLayer(l) \/ SendTotal(l)
                       \/ LayerEnds(l))
       /\ SF_pushVars(ReadEOF(l))
       /\ WF_pushVars(Report(l))

\* Types; the channel of a reporter never holds more than it has room for.
PushTypeOK ==
  /\ registry \subseteq Layers \cup {Config} /\ manifest \in BOOLEAN
  /\ main \in {"idle", "layers", "config", "manifest", "ok", "failed"}
  /\ worker \in [Layers -> {"none", "open", "copy", "commit", "total", "closing", "end"}]
  /\ failed \subseteq Layers
  /\ queue \in [Layers -> 0 .. 1] /\ closed \in [Layers -> BOOLEAN]
  /\ reporter \in [Layers -> {"none", "runs", "done"}]
  /\ pushes \in 0 .. MaxPushes

\* Whoever finds the manifest in the registry finds every blob it names, also
\* after pushes that failed half way.
ManifestComplete == manifest => Layers \cup {Config} \subseteq registry

\* A push is sound: nothing is sent into a channel that has no room, and what the
\* registry serves is complete at every moment (remote.go, Write).
PushSound == PushTypeOK /\ ManifestComplete

\* Every push ends: no goroutine waits for ever for room in the channel of a
\* reporter, nor for the reporter to end, nor for a slot of the semaphore.
PushEnds == main = "layers" ~> main \in {"ok", "failed"}
=============================================================================
