------------------------------- MODULE Loader -------------------------------
(***************************************************************************)
(* The runner loader of pkg/inference/scheduling (loader.go, with the      *)
(* runner life cycle of runner.go).  A bounded array of slots holds        *)
(* backend processes ("runners").  Inference requests lease runners by     *)
(* key; a request whose runner is missing reserves a slot, releases the    *)
(* guard while the backend process starts, and registers it afterwards.    *)
(* A run loop evicts idle runners and drains the pool at shutdown.         *)
(*                                                                         *)
(* Every critical section under loader.guard is one action.  The guard is  *)
(* not held across run + wait, nor while a request waits for a change, and *)
(* those are the points at which the other actors interleave.              *)
(***************************************************************************)
EXTENDS Integers, FiniteSets

CONSTANTS
  Requests,       \* goroutines that call load and later release
  Runners,        \* identities of *runner objects
  Backends,       \* names of inference backends
  Models,         \* model IDs (digests)
  Drafts,         \* draft model IDs used by some configuration
  NoDraft,        \* the empty draftModelID
  Targets,        \* the (backend, model, mode) triples clients ask for
  NSlots,         \* len(l.slots)
  Configs,        \* the backend configurations clients set
  NoConfig,       \* no entry in runnerConfigs
  AnyBackend,     \* the empty backend name of an unload request
  DefaultTimeout, \* l.runnerIdleTimeout, in ticks
  MaxAge,         \* bound on how long ago a timestamp can be told to be
  RefMod,         \* 2^w for the w-bit unsigned reference counts
  NoKey, NoRunner, NoProc,
  AfterReturn     \* "idle": a request may load again; "done": it may not

\* The four values of inference.BackendMode.
BackendModes == {"completion", "embedding", "reranking", "image-generation"}

\* Key of runnerConfigs: a runnerKey whose draftModelID is always empty.
ConfigKeys == [backend: Backends, model: Models, mode: BackendModes]

\* Key of runners and of loading: a runnerKey.
Keys == [backend: Backends, model: Models, mode: BackendModes,
         draft: Drafts \cup {NoDraft}]

Slots    == 0 .. NSlots - 1
NoSlot   == -1
Never    == -1             \* a negative keep_alive: never idle-evict
Off      == -1             \* the idle timer is not armed
ZeroTime == MaxAge         \* time.Time{}: longer ago than any timeout
RefCounts == 0 .. RefMod - 1
MaybeConfigs == Configs \cup {NoConfig}
Processes == [slot: Slots, key: Keys, config: MaybeConfigs]

ASSUME SlotsAssumption == NSlots \in Nat \ {0}
ASSUME TargetsAssumption == Targets \subseteq ConfigKeys
ASSUME ConfigsAssumption ==
  \A c \in Configs : /\ c.draft \in Drafts \cup {NoDraft}
                     /\ c.keepAlive \in Int
                     /\ c.keepAlive < MaxAge
ASSUME TimeAssumption ==
  /\ MaxAge \in Nat
  /\ DefaultTimeout \in Nat
  /\ DefaultTimeout < MaxAge
ASSUME RefAssumption == RefMod \in Nat \ {0, 1}
ASSUME SentinelAssumption ==
  /\ NoConfig \notin Configs
  /\ NoKey \notin Keys
  /\ NoRunner \notin Runners
  /\ NoProc \notin Processes
  /\ AnyBackend \notin Backends
ASSUME ReturnAssumption == AfterReturn \in {"idle", "done"}

VARIABLES
  loadsEnabled,   \* l.loadsEnabled
  runners,        \* l.runners: slot of each registered key, or NoSlot
  loading,        \* l.loading: key being loaded into each slot, or NoKey
  slots,          \* l.slots
  references,     \* l.references
  timestamps,     \* age of l.timestamps[s], in ticks
  runnerConfigs,  \* l.runnerConfigs
  idleCheck,      \* a token is in l.idleCheck
  timer,          \* ticks before idleTimer fires, or Off
  loop,           \* where run is
  drainPoll,      \* a token is in the poll channel of run's deferred drain
  proc,           \* the backend process of each runner; NoProc: done is closed
  req,            \* where each request is, and its local variables
  poll            \* requests whose poll channel holds a token

poolVars == <<loadsEnabled, runners, loading, slots, references, timestamps,
              runnerConfigs>>
loopVars == <<idleCheck, timer, loop, drainPoll>>
vars == <<poolVars, loopVars, proc, req, poll>>

(***************************************************************************)
(* Keys, configurations and the state of a registered key.                 *)
(***************************************************************************)
ConfigKey(k) == [backend |-> k.backend, model |-> k.model, mode |-> k.mode]

RunnerKey(t, d) == [backend |-> t.backend, model |-> t.model, mode |-> t.mode,
                    draft |-> d]

DraftOf(c) == IF c = NoConfig THEN NoDraft ELSE c.draft

\* The configuration load uses: the target's own, else for two modes the one
\* set for completion.  The default one built for NoConfig has no draft.
ConfigFor(t) ==
  IF runnerConfigs[t] = NoConfig /\ t.mode \in {"reranking", "image-generation"}
  THEN runnerConfigs[[t EXCEPT !.mode = "completion"]]
  ELSE runnerConfigs[t]

Registered == {k \in Keys : runners[k] # NoSlot}
\* Mutant: nobody looks for a load in progress of the same key.
BeingLoadedNone == {}
BeingLoaded == {loading[s] : s \in Slots} \ {NoKey}
LoadingSlots == {s \in Slots : loading[s] # NoKey}

Defunct(k) == proc[slots[runners[k]]] = NoProc
\* Mutant: the last holder does not count.
UnusedByOne(k) == references[runners[k]] <= 1
Unused(k) == references[runners[k]] = 0
\* Mutant: evict does not look at the reference counts.
UnusedKeysAll == Registered
UnusedKeys == {k \in Registered : Unused(k)}

\* runnerIdleTimeoutFor: unlike ConfigFor, no fallback to completion.
IdleTimeoutFor(k) ==
  LET c == runnerConfigs[ConfigKey(k)]
  IN  IF c # NoConfig THEN c.keepAlive ELSE DefaultTimeout

Expired(k) == IdleTimeoutFor(k) >= 0 /\ timestamps[runners[k]] > IdleTimeoutFor(k)

\* usedSlots() >= len(l.slots).
Full == Cardinality(Registered) + Cardinality(LoadingSlots) >= NSlots

\* Mutant: the search for a slot forgets those reserved for loads.
FreeSlotsUnreserved == {s \in Slots : slots[s] = NoRunner}

\* The slots the search in load may stop at; it takes the first.
FreeSlots == {s \in Slots : slots[s] = NoRunner /\ loading[s] = NoKey}

\* Mutant: a runner is leased again without being counted.
IncForgotten(n) == n

\* Reference counts are unsigned and wrap around.
Inc(n) == IF n = RefMod - 1 THEN 0 ELSE n + 1
Dec(n) == IF n = 0 THEN RefMod - 1 ELSE n - 1

(***************************************************************************)
(* Eviction and broadcast, shared by the operations.                       *)
(***************************************************************************)
SlotsOf(K) == {runners[k] : k \in K}
RunnersOf(K) == {slots[s] : s \in SlotsOf(K)}

\* Mutant: the runner is forgotten, its process is not terminated.
EvictOnlyForgets(K) ==
  /\ runners' = [k \in Keys |-> IF k \in K THEN NoSlot ELSE runners[k]]
  /\ slots' = [s \in Slots |-> IF s \in SlotsOf(K) THEN NoRunner ELSE slots[s]]
  /\ timestamps' = [s \in Slots |-> IF s \in SlotsOf(K) THEN ZeroTime ELSE timestamps[s]]
  /\ UNCHANGED proc

\* freeRunnerSlot for every key of K: terminate (which waits for the process
\* to exit) and forget the runner.
Evict(K) ==
  /\ runners' = [k \in Keys |-> IF k \in K THEN NoSlot ELSE runners[k]]
  /\ slots' = [s \in Slots |-> IF s \in SlotsOf(K) THEN NoRunner ELSE slots[s]]
  /\ timestamps' = [s \in Slots |-> IF s \in SlotsOf(K) THEN ZeroTime ELSE timestamps[s]]
  /\ proc' = [i \in Runners |-> IF i \in RunnersOf(K) THEN NoProc ELSE proc[i]]

\* Mutant: evictRunner does not look at the reference counts.
UnusedOfAll(b, M, modes) ==
  {k \in Registered : b \in {AnyBackend, k.backend} /\ k.model \in M /\ k.mode \in modes}

\* The unused runners evictRunner(b, m, mode) frees, one call per target.
UnusedOf(b, M, modes) ==
  {k \in UnusedKeys : /\ b \in {AnyBackend, k.backend}
                      /\ k.model \in M
                      /\ k.mode \in modes}

Waiting == {r \in Requests : req[r].pc \in {"waiting", "woken"}}

\* Mutants: only one waiter is signalled; none is; the drain is not.
BroadcastOne ==
  /\ IF Waiting = {} THEN UNCHANGED poll ELSE \E r \in Waiting : poll' = poll \cup {r}
  /\ drainPoll' = (drainPoll \/ loop \in {"draining", "evicting"})

BroadcastDrainOnly ==
  /\ UNCHANGED poll
  /\ drainPoll' = (drainPoll \/ loop \in {"draining", "evicting"})

BroadcastNoDrain ==
  /\ poll' = poll \cup Waiting
  /\ UNCHANGED drainPoll

\* broadcast: a token for every registered waiter, run's drain among them.
Broadcast ==
  /\ poll' = poll \cup Waiting
  /\ drainPoll' = (drainPoll \/ loop \in {"draining", "evicting"})

(***************************************************************************)
(* Requests.  A request that returns goes to AfterReturn, forgetting its   *)
(* local variables.                                                        *)
(***************************************************************************)
NoRequest(pc) == [pc |-> pc, key |-> NoKey, config |-> NoConfig,
                  slot |-> NoSlot, runner |-> NoRunner]

Init ==
  /\ loadsEnabled = FALSE
  /\ runners = [k \in Keys |-> NoSlot]
  /\ loading = [s \in Slots |-> NoKey]
  /\ slots = [s \in Slots |-> NoRunner]
  /\ references = [s \in Slots |-> 0]
  /\ timestamps = [s \in Slots |-> ZeroTime]
  /\ runnerConfigs = [t \in ConfigKeys |-> NoConfig]
  /\ idleCheck = FALSE
  /\ timer = Off
  /\ loop = "starting"
  /\ drainPoll = FALSE
  /\ proc = [i \in Runners |-> NoProc]
  /\ req = [r \in Requests |-> NoRequest("idle")]
  /\ poll = {}

\* delete(l.waiters, poll) and return.
Return(r) ==
  /\ req' = [req EXCEPT ![r] = NoRequest(AfterReturn)]
  /\ poll' = poll \ {r}

\* Loads are disabled: errLoadsDisabled.
Refuse(r) ==
  /\ ~loadsEnabled
  /\ Return(r)
  /\ UNCHANGED <<poolVars, loopVars, proc>>

\* The conditions under which one pass of load's loop ends at WaitForChange.
MustWait(k) ==
  \/ k \in BeingLoaded
  \/ k \in Registered /\ Defunct(k) /\ ~Unused(k)
  \/ k \notin Registered /\ Full /\ UnusedKeys = {}

Wait(r, k, c) ==
  /\ loadsEnabled
  /\ MustWait(k)
  /\ req' = [req EXCEPT ![r] = [NoRequest("waiting") EXCEPT !.key = k, !.config = c]]
  /\ UNCHANGED <<poolVars, loopVars, proc, poll>>

\* An existing, functioning runner satisfies the request.
Acquire(r, k, c) ==
  /\ loadsEnabled
  /\ k \notin BeingLoaded
  /\ k \in Registered
  /\ ~Defunct(k)
  /\ references' = [references EXCEPT ![runners[k]] = Inc(@)]
  /\ timestamps' = [timestamps EXCEPT ![runners[k]] = ZeroTime]
  /\ req' = [req EXCEPT ![r] =
       [pc |-> "serving", key |-> k, config |-> c,
        slot |-> runners[k], runner |-> slots[runners[k]]]]
  /\ poll' = poll \ {r}
  /\ UNCHANGED <<loadsEnabled, runners, loading, slots, runnerConfigs,
                 loopVars, proc>>

\* What load evicts before it reserves a slot: a defunct runner of the key
\* with the unused ones of its target, then, if all slots are still taken,
\* every unused runner.
Evictees(k) ==
  LET stale == IF k \in Registered
               THEN UnusedOf(k.backend, {k.model}, {k.mode}) ELSE {}
  IN  IF stale = {} /\ Full THEN UnusedKeys ELSE stale

Reserve(r, k, c) ==
  /\ loadsEnabled
  /\ k \notin BeingLoaded
  /\ k \in Registered => Defunct(k) /\ Unused(k)
  /\ LET K == Evictees(k)
         free == FreeSlots \cup SlotsOf(K)
     IN  /\ Full => K # {}
         /\ Evict(K)
         /\ \E s \in free :
              /\ \A f \in free : s <= f
              /\ loading' = [loading EXCEPT ![s] = k]
              /\ req' = [req EXCEPT ![r] =
                   [pc |-> "starting", key |-> k, config |-> c,
                    slot |-> s, runner |-> NoRunner]]
  /\ poll' = poll \ {r}
  /\ UNCHANGED <<loadsEnabled, references, runnerConfigs, loopVars>>

\* One pass of load's loop, under the guard.
Attempt(r, k, c) ==
  \/ Refuse(r)
  \/ Wait(r, k, c)
  \/ Acquire(r, k, c)
  \/ Reserve(r, k, c)

\* A call of load for target t, up to its first release of the guard.
Load(r, t) ==
  /\ req[r].pc = "idle"
  /\ Attempt(r, RunnerKey(t, DraftOf(ConfigFor(t))), ConfigFor(t))

\* The waiting request receives from its poll channel ...
Wake(r) ==
  /\ req[r].pc = "waiting"
  /\ r \in poll
  /\ poll' = poll \ {r}
  /\ req' = [req EXCEPT ![r].pc = "woken"]
  /\ UNCHANGED <<poolVars, loopVars, proc>>

\* ... takes the guard, and goes round the loop again with the key and the
\* configuration it read when it was called.
Retry(r) ==
  /\ req[r].pc = "woken"
  /\ Attempt(r, req[r].key, req[r].config)

\* Its context is cancelled while it waits.
Cancel(r) ==
  /\ req[r].pc = "waiting"
  /\ Return(r)
  /\ UNCHANGED <<poolVars, loopVars, proc>>

\* run: a backend process starts on the slot's socket, without the guard.
RunnerInUse(i) == \/ \E s \in Slots : slots[s] = i
                  \/ \E r \in Requests : req[r].runner = i

StartRunner(r, i) ==
  /\ req[r].pc = "starting"
  /\ ~RunnerInUse(i)
  /\ proc[i] = NoProc
  /\ proc' = [proc EXCEPT ![i] = [slot |-> req[r].slot, key |-> req[r].key,
                                  config |-> req[r].config]]
  /\ req' = [req EXCEPT ![r] = [@ EXCEPT !.pc = "probing", !.runner = i]]
  /\ UNCHANGED <<poolVars, loopVars, poll>>

\* run returns an error before any process exists.
StartFails(r) ==
  /\ req[r].pc = "starting"
  /\ req' = [req EXCEPT ![r].pc = "failed"]
  /\ UNCHANGED <<poolVars, loopVars, proc, poll>>

\* runner.wait: the health endpoint on the slot's socket answers.
Healthy(r) ==
  /\ req[r].pc = "probing"
  /\ proc[req[r].runner] # NoProc
  /\ req' = [req EXCEPT ![r].pc = "ready"]
  /\ UNCHANGED <<poolVars, loopVars, proc, poll>>

\* runner.wait fails (the process quit, the pings ran out, the request was
\* cancelled) and the runner is terminated, still without the guard.
WaitFails(r) ==
  /\ req[r].pc = "probing"
  /\ proc' = [proc EXCEPT ![req[r].runner] = NoProc]
  /\ req' = [req EXCEPT ![r].pc = "failed"]
  /\ UNCHANGED <<poolVars, loopVars, poll>>

\* The slot of a failed load is given back.
Unreserve(r) ==
  /\ req[r].pc = "failed"
  /\ loading' = [loading EXCEPT ![req[r].slot] = NoKey]
  /\ req' = [req EXCEPT ![r] = NoRequest(AfterReturn)]
  /\ Broadcast
  /\ UNCHANGED <<loadsEnabled, runners, slots, references, timestamps,
                 runnerConfigs, idleCheck, timer, loop, proc>>

\* The new runner is registered and leased to the request that loaded it.
Register(r) ==
  LET s == req[r].slot
  IN  /\ req[r].pc = "ready"
      /\ loading' = [loading EXCEPT ![s] = NoKey]
      /\ runners' = [runners EXCEPT ![req[r].key] = s]
      /\ slots' = [slots EXCEPT ![s] = req[r].runner]
      /\ references' = [references EXCEPT ![s] = 1]
      /\ req' = [req EXCEPT ![r].pc = "serving"]
      /\ Broadcast
      /\ UNCHANGED <<loadsEnabled, timestamps, runnerConfigs,
                     idleCheck, timer, loop, proc>>

\* The slot release charges: that of any registered runner of the same
\* backend, model and mode (a map iteration that ignores the draft model), or
\* the zero value of runnerInfo if there is none.
ReleaseSlots(k) ==
  LET same == {j \in Registered : ConfigKey(j) = ConfigKey(k)}
  IN  IF same = {} THEN {0} ELSE SlotsOf(same)

\* release, after the request has been served.
Release(r) ==
  LET k == req[r].key
  IN  /\ req[r].pc = "serving"
      /\ \E s \in ReleaseSlots(k) :
           /\ references' = [references EXCEPT ![s] = Dec(@)]
           /\ IF references'[s] # 0
              THEN UNCHANGED <<runners, slots, timestamps, idleCheck, proc>>
              ELSE IF proc[req[r].runner] = NoProc
              THEN /\ Evict({j \in Registered :
                               /\ references'[runners[j]] = 0
                               /\ ConfigKey(j) = ConfigKey(k)})
                   /\ UNCHANGED idleCheck
              ELSE /\ timestamps' = [timestamps EXCEPT ![s] = 0]
                   /\ idleCheck' = TRUE
                   /\ UNCHANGED <<runners, slots, proc>>
      /\ req' = [req EXCEPT ![r] = NoRequest(AfterReturn)]
      /\ Broadcast
      /\ UNCHANGED <<loadsEnabled, loading, runnerConfigs, timer, loop>>

(***************************************************************************)
(* Configuration and unloading, called from HTTP handlers.                 *)
(***************************************************************************)
\* setRunnerConfig with a context that is still live when it takes the guard.
SetConfig(t, c) ==
  LET k == RunnerKey(t, DraftOf(c))
      K == IF k \in Registered
           THEN UnusedOf(t.backend, {t.model}, {t.mode}) ELSE {}
  IN  /\ c # runnerConfigs[t]
      /\ Evict(K)
      /\ runnerConfigs' = IF k \in Registered \ K
                          THEN runnerConfigs  \* errRunnerAlreadyActive
                          ELSE [runnerConfigs EXCEPT ![t] = c]
      /\ UNCHANGED <<loadsEnabled, loading, references, loopVars, req, poll>>

\* Unload with unload.All.
UnloadAll ==
  /\ Evict(UnusedKeys)
  /\ runnerConfigs' = [t \in ConfigKeys |-> NoConfig]
  /\ UNCHANGED <<loadsEnabled, loading, references, loopVars, req, poll>>

\* Unload of a list of models, of backend b or of AnyBackend.
UnloadModels(b, M) ==
  /\ Evict(UnusedOf(b, M, BackendModes))
  /\ runnerConfigs' = [t \in ConfigKeys |->
                         IF t.backend = b /\ t.model \in M THEN NoConfig
                         ELSE runnerConfigs[t]]
  /\ UNCHANGED <<loadsEnabled, loading, references, loopVars, req, poll>>

\* UnloadBackend, before a backend is uninstalled.
UnloadBackend(b) ==
  /\ Evict({k \in UnusedKeys : k.backend = b})
  /\ UNCHANGED <<loadsEnabled, loading, references, runnerConfigs,
                 loopVars, req, poll>>

(***************************************************************************)
(* The run loop.  Its goroutine owns the timer.                            *)
(***************************************************************************)
\* Mutant: a timeout of zero is taken for "never".
IdleCheckDurationsNonzero(R) ==
  LET candidates == {k \in R : Unused(k) /\ IdleTimeoutFor(k) > 0}
      remaining == {IdleTimeoutFor(k) - timestamps[runners[k]] + 1 : k \in candidates}
  IN  IF candidates = {} THEN {Off}
      ELSE {d \in remaining : \A e \in remaining : d <= e}

\* idleCheckDuration, over the keys that stay registered.  The slack of 100ms
\* is one tick: when the timer fires the runner is past its timeout.  The result
\* is a set of one element.
IdleCheckDurations(R) ==
  LET candidates == {k \in R : Unused(k) /\ IdleTimeoutFor(k) >= 0}
      remaining == {IdleTimeoutFor(k) - timestamps[runners[k]] + 1 : k \in candidates}
  IN  IF \E k \in R : Defunct(k) \/ (Unused(k) /\ Expired(k)) THEN {0}
      ELSE IF candidates = {} THEN {Off}
      ELSE {d \in remaining : \A e \in remaining : d <= e}

LoopStart ==
  /\ loop = "starting"
  /\ loop' = "running"
  /\ loadsEnabled' = TRUE
  /\ UNCHANGED <<runners, loading, slots, references, timestamps,
                 runnerConfigs, idleCheck, timer, drainPoll, proc, req, poll>>

\* run's context is cancelled before it takes the guard.
LoopAbort ==
  /\ loop = "starting"
  /\ loop' = "stopped"
  /\ UNCHANGED <<poolVars, idleCheck, timer, drainPoll, proc, req, poll>>

\* The idle timer fires: evict(true), then arm it again.
IdleTimer ==
  LET K == {k \in UnusedKeys : Expired(k) \/ Defunct(k)}
  IN  /\ loop = "running"
      /\ timer = 0
      /\ Evict(K)
      /\ timer' \in IdleCheckDurations(Registered \ K)
      /\ UNCHANGED <<loadsEnabled, loading, references, runnerConfigs,
                     idleCheck, loop, drainPoll, req, poll>>

\* The loop receives from idleCheck and arms the timer anew.
IdleCheck ==
  /\ loop = "running"
  /\ idleCheck
  /\ idleCheck' = FALSE
  /\ timer' \in IdleCheckDurations(Registered)
  /\ UNCHANGED <<poolVars, loop, drainPoll, proc, req, poll>>

\* run's context is cancelled: the deferred drain disables loads, wakes the
\* waiters, and registers a poll channel that already holds a token.
LoopCancel ==
  /\ loop = "running"
  /\ loop' = "draining"
  /\ loadsEnabled' = FALSE
  /\ timer' = Off
  /\ drainPoll' = TRUE
  /\ poll' = poll \cup Waiting
  /\ UNCHANGED <<runners, loading, slots, references, timestamps,
                 runnerConfigs, idleCheck, proc, req>>

\* range poll receives a token ...
DrainWake ==
  /\ loop = "draining"
  /\ drainPoll
  /\ drainPoll' = FALSE
  /\ loop' = "evicting"
  /\ UNCHANGED <<poolVars, idleCheck, timer, proc, req, poll>>

\* ... and evict(false) == 0 decides whether run returns.
Drain ==
  /\ loop = "evicting"
  /\ Evict(UnusedKeys)
  /\ IF Registered = UnusedKeys
     THEN loop' = "stopped" /\ drainPoll' = FALSE
     ELSE loop' = "draining" /\ UNCHANGED drainPoll
  /\ UNCHANGED <<loadsEnabled, loading, references, runnerConfigs,
                 idleCheck, timer, req, poll>>

(***************************************************************************)
(* The environment.                                                        *)
(***************************************************************************)
\* A backend process exits by itself; its done channel is closed.
Crash(i) ==
  /\ proc[i] # NoProc
  /\ proc' = [proc EXCEPT ![i] = NoProc]
  /\ UNCHANGED <<poolVars, loopVars, req, poll>>

\* Time passes.  Timestamps older than MaxAge are told apart no more.
Tick ==
  /\ timer > 0 \/ \E s \in Slots : timestamps[s] < MaxAge
  /\ timer' = IF timer > 0 THEN timer - 1 ELSE timer
  /\ timestamps' = [s \in Slots |-> IF timestamps[s] < MaxAge
                                    THEN timestamps[s] + 1 ELSE MaxAge]
  /\ UNCHANGED <<loadsEnabled, runners, loading, slots, references,
                 runnerConfigs, idleCheck, loop, drainPoll, proc, req, poll>>

\* The steps of a request once it has been called.
RequestStep(r) ==
  \/ Wake(r) \/ Retry(r)
  \/ \E i \in Runners : StartRunner(r, i)
  \/ StartFails(r) \/ Healthy(r) \/ WaitFails(r)
  \/ Unreserve(r) \/ Register(r) \/ Release(r)

LoopStep == IdleTimer \/ IdleCheck \/ DrainWake \/ Drain

Next ==
  \/ \E r \in Requests : \/ \E t \in Targets : Load(r, t)
                         \/ Cancel(r)
                         \/ RequestStep(r)
  \/ \E t \in Targets, c \in Configs : SetConfig(t, c)
  \/ UnloadAll
  \/ \E b \in Backends \cup {AnyBackend}, M \in SUBSET Models : UnloadModels(b, M)
  \/ \E b \in Backends : UnloadBackend(b)
  \/ LoopStart \/ LoopAbort \/ LoopCancel
  \/ LoopStep
  \/ \E i \in Runners : Crash(i)
  \/ Tick

Spec == Init /\ [][Next]_vars

(***************************************************************************)
(* Fairness.  A goroutine that can take a step takes it: the guard is held *)
(* only for bounded critical sections, run and wait are bounded by the     *)
(* number of readiness pings, a served request ends, and time passes.      *)
(* Calls, cancellations, unloads and crashes need never happen.            *)
(***************************************************************************)
Fairness ==
  /\ \A r \in Requests : WF_vars(RequestStep(r))
  /\ WF_vars(LoopStep)
  /\ WF_vars(Tick)

FairSpec == Spec /\ Fairness

(***************************************************************************)
(* Properties: type and structure of the pool.                             *)
(***************************************************************************)
Pcs == {"idle", "waiting", "woken", "starting", "probing", "failed", "ready",
        "serving", "done"}

RequestStates == [pc: Pcs, key: Keys \cup {NoKey}, config: MaybeConfigs,
                  slot: Slots \cup {NoSlot}, runner: Runners \cup {NoRunner}]

\* Every variable of the loader has its type; slot numbers stay in range.
TypeOK ==
  /\ loadsEnabled \in BOOLEAN
  /\ runners \in [Keys -> Slots \cup {NoSlot}]
  /\ loading \in [Slots -> Keys \cup {NoKey}]
  /\ slots \in [Slots -> Runners \cup {NoRunner}]
  /\ references \in [Slots -> RefCounts]
  /\ timestamps \in [Slots -> 0 .. MaxAge]
  /\ runnerConfigs \in [ConfigKeys -> MaybeConfigs]
  /\ idleCheck \in BOOLEAN
  /\ timer \in {Off} \cup 0 .. MaxAge
  /\ loop \in {"starting", "running", "draining", "evicting", "stopped"}
  /\ drainPoll \in BOOLEAN
  /\ proc \in [Runners -> Processes \cup {NoProc}]
  /\ req \in [Requests -> RequestStates]
  /\ poll \subseteq Requests

\* The three tables of the pool agree: a slot holds a runner iff exactly one
\* key is registered for it, a slot being loaded holds none, and no key is
\* both registered and being loaded, or being loaded twice.  The tables are
\* updated in different critical sections of load, release and evict.
PoolConsistent ==
  /\ \A k, j \in Registered : runners[k] = runners[j] => k = j
  /\ \A s \in Slots : slots[s] # NoRunner <=> \E k \in Registered : runners[k] = s
  /\ \A s \in LoadingSlots : slots[s] = NoRunner /\ loading[s] \notin Registered
  /\ \A s, u \in LoadingSlots : loading[s] = loading[u] => s = u

Live == {i \in Runners : proc[i] # NoProc}

\* Two living backend processes never listen on the socket of one slot, and
\* never serve the same key: run and wait happen outside the guard, so this
\* rests on the reservation in loading.
SlotExclusive ==
  \A i, j \in Live : proc[i].slot = proc[j].slot \/ proc[i].key = proc[j].key => i = j

Loads(r) == req[r].pc \in {"probing", "ready"}

\* No living process is forgotten: it is the registered runner of its slot, or
\* a request still loading it will register it or terminate it.
NoOrphan ==
  \A i \in Live :
    \/ slots[proc[i].slot] = i /\ runners[proc[i].key] = proc[i].slot
    \/ \E r \in Requests : Loads(r) /\ req[r].runner = i /\ req[r].slot = proc[i].slot

(***************************************************************************)
(* Properties: leases.                                                     *)
(***************************************************************************)
Holders(i) == {r \in Requests : req[r].pc = "serving" /\ req[r].runner = i}

\* The reference count of a slot is the number of requests using its runner.
RefCount ==
  \A s \in Slots : slots[s] # NoRunner => references[s] = Cardinality(Holders(slots[s]))

\* A runner is never evicted, so its process never terminated by the loader,
\* while a request is using it.
LeaseKept ==
  \A r \in Requests : req[r].pc = "serving" => slots[req[r].slot] = req[r].runner

\* Whatever process answers on the socket a request is proxied to serves the
\* key the request asked for: a slot is not reused under a request.
RightModelAnswers ==
  \A r \in Requests, i \in Live :
    req[r].pc = "serving" /\ proc[i].slot = req[r].slot => proc[i].key = req[r].key

(***************************************************************************)
(* Properties: signals.                                                    *)
(***************************************************************************)
\* No lost wakeup: a request that waits with an empty poll channel would still
\* have to wait if it looked now.  Evictions by unload, setRunnerConfig and the
\* idle timer do not broadcast, and need not.
\* Nor does the drain at shutdown sleep through the release of the last runner:
\* without a token in its channel there is a runner in use.
NoLostWakeup ==
  /\ \A r \in Requests :
       req[r].pc = "waiting" /\ r \notin poll => loadsEnabled /\ MustWait(req[r].key)
  /\ loop = "draining" /\ ~drainPoll => Registered \ UnusedKeys # {}

\* Nor does the idle timer: as long as the loop runs, a working runner that is
\* unused and may be evicted has a check pending or the timer armed early
\* enough to catch it the tick after its timeout.
IdleWatched ==
  loop = "running" =>
    \A k \in UnusedKeys :
      IdleTimeoutFor(k) >= 0 /\ ~idleCheck =>
        /\ timer # Off
        /\ timer <= IdleTimeoutFor(k) + 1 - timestamps[runners[k]] \/ timer = 0

(***************************************************************************)
(* Properties: what the documentation says of shutdown.                    *)
(***************************************************************************)
\* "By the time run returns, all runners will have been evicted."
StoppedMeansEvicted == loop = "stopped" => Registered = {} /\ Live = {}

(***************************************************************************)
(* Properties: progress, under FairSpec.                                   *)
(***************************************************************************)
\* A request that has been called returns, whatever the others do.
EveryRequestReturns ==
  \A r \in Requests :
    req[r].pc \notin {"idle", "done"} ~> req[r].pc \in {"idle", "done"}

\* The drain at shutdown ends once requests end.
DrainEnds == loop = "draining" ~> loop = "stopped"

\* An unused runner that may be evicted does not stay: it is evicted or used
\* again, unless the loop stops.
IdleEvicted ==
  \A k \in Keys :
    loop = "running" /\ k \in UnusedKeys /\ IdleTimeoutFor(k) >= 0
      ~> loop # "running" \/ k \notin UnusedKeys
=============================================================================
