---------------------------- MODULE LoaderProofs ----------------------------
(***************************************************************************)
(* Proofs about Loader: IInv is inductive, hence TypeOK, PoolConsistent,   *)
(* SlotExclusive and NoOrphan hold of every instance; then the leases, the *)
(* answers, the wakeups and the watch over idle runners; then that the     *)
(* loader implements the pool of RunnerPool; and in the end the guard.     *)
(***************************************************************************)
EXTENDS LoaderInv, LoaderPool, LoaderGuard, TLAPS, FiniteSetTheorems

\* The parts of IInv that relate variables to each other.
Structure == /\ PoolConsistent
             /\ RequestsOK
             /\ ReservationsApart
             /\ SlotsApart
             /\ ProcsOK

\* A step that takes the keys K out of the pool, may stop processes but starts
\* none, and leaves every request that loads where it is.
Frame(K) ==
  /\ \A k \in Keys : runners'[k] = IF k \in K THEN NoSlot ELSE runners[k]
  /\ \A s \in Slots : slots'[s] = IF s \in SlotsOf(K) THEN NoRunner ELSE slots[s]
  /\ \A s \in Slots : loading'[s] = loading[s]
  /\ \A i \in Runners : proc'[i] \in {proc[i], NoProc}
  /\ \A i \in RunnersOf(K) \cap Runners : proc'[i] = NoProc
  /\ \A r \in Requests :
       \/ req'[r] = req[r]
       \/ /\ req[r].pc \notin LoadingPcs
          /\ req'[r].pc \notin LoadingPcs
          /\ req'[r].pc \in {"waiting", "woken", "serving"} => req'[r].key \in Keys

\* Slot numbers are not NoSlot.
LEMMA SlotFacts == NoSlot \notin Slots /\ Slots \subseteq Int
  BY SlotsAssumption DEF Slots, NoSlot

\* Such a step keeps the structure of the pool.
LEMMA FrameKeeps ==
  ASSUME TypeOK, Structure, NEW K \in SUBSET Registered, Frame(K)
  PROVE  Structure'
<1> USE SlotFacts
<1>1. PoolConsistent'
  BY DEF TypeOK, Structure, PoolConsistent, Frame, SlotsOf, Registered, LoadingSlots
<1>2. RequestsOK'
  <2> SUFFICES ASSUME NEW r \in Requests PROVE RequestOK(r)'
    BY DEF RequestsOK
  <2>1. RequestOK(r)
    BY DEF Structure, RequestsOK
  <2>2. CASE req'[r] = req[r]
    BY <2>1, <2>2, SentinelAssumption, ZenonT(60) DEF RequestOK, Loads, LoadingPcs, Frame
  <2>3. CASE req'[r] # req[r]
    BY <2>3 DEF RequestOK, Loads, LoadingPcs, Frame
  <2> QED BY <2>2, <2>3
<1>3. ReservationsApart'
  BY DEF TypeOK, Structure, ReservationsApart, Loads, LoadingPcs, Frame
<1>4. SlotsApart'
  BY DEF TypeOK, Structure, SlotsApart, Frame
<1>5. ProcsOK'
  BY DEF TypeOK, Structure, ProcsOK, Loads, LoadingPcs, Frame, SlotsOf, RunnersOf, Registered, Processes
<1> QED BY <1>1, <1>2, <1>3, <1>4, <1>5 DEF Structure

(***************************************************************************)
(* The actions that only take runners out of the pool, or leave it alone,  *)
(* are frames.                                                             *)
(***************************************************************************)
LEMMA EvictFrame ==
  ASSUME TypeOK, NEW K \in SUBSET Registered, Evict(K), UNCHANGED <<loading, req>>
  PROVE  Frame(K)
<1>1. /\ \A i \in Runners : proc'[i] \in {proc[i], NoProc}
      /\ \A i \in RunnersOf(K) \cap Runners : proc'[i] = NoProc
  BY DEF Evict
<1> QED BY <1>1 DEF TypeOK, Evict, Frame

LEMMA NothingFrame ==
  ASSUME TypeOK, UNCHANGED <<runners, slots, loading, proc, req>>
  PROVE  Frame({})
BY DEF TypeOK, Frame, RunnersOf, SlotsOf

LEMMA ReturnFrame ==
  ASSUME TypeOK, NEW r \in Requests, req[r].pc \notin LoadingPcs, Return(r),
         UNCHANGED <<runners, slots, loading, proc>>
  PROVE  Frame({})
BY ReturnAssumption DEF TypeOK, Frame, RunnersOf, SlotsOf, Return, NoRequest, LoadingPcs

LEMMA EvictType ==
  ASSUME TypeOK, NEW K \in SUBSET Registered, Evict(K)
  PROVE  /\ runners' \in [Keys -> Slots \cup {NoSlot}]
         /\ slots' \in [Slots -> Runners \cup {NoRunner}]
         /\ timestamps' \in [Slots -> 0 .. MaxAge]
         /\ proc' \in [Runners -> Processes \cup {NoProc}]
BY TimeAssumption DEF TypeOK, Evict, ZeroTime

LEMMA NoRequestType ==
  /\ NoRequest(AfterReturn) \in RequestStates
  /\ \A k \in Keys, c \in MaybeConfigs :
       [NoRequest("waiting") EXCEPT !.key = k, !.config = c] \in RequestStates
BY ReturnAssumption DEF NoRequest, RequestStates, Pcs, MaybeConfigs

LEMMA UpdateType ==
  ASSUME NEW x \in RequestStates, NEW pc \in Pcs, NEW i \in Runners
  PROVE  [x EXCEPT !.pc = pc, !.runner = i] \in RequestStates
<1>1. [x EXCEPT !.pc = pc] \in RequestStates
  BY DEF RequestStates
<1>2. ASSUME NEW y \in RequestStates
      PROVE  [y EXCEPT !.runner = i] \in RequestStates
  BY DEF RequestStates
<1> QED BY <1>1, <1>2

LEMMA BroadcastType ==
  ASSUME TypeOK, Broadcast
  PROVE  poll' \subseteq Requests /\ drainPoll' \in BOOLEAN
BY DEF TypeOK, Broadcast, Waiting

\* The key and the configuration of a call.
LEMMA CallType ==
  ASSUME TypeOK, NEW t \in Targets
  PROVE  /\ ConfigFor(t) \in MaybeConfigs
         /\ RunnerKey(t, DraftOf(ConfigFor(t))) \in Keys
<1>1. t \in ConfigKeys /\ [t EXCEPT !.mode = "completion"] \in ConfigKeys
  BY TargetsAssumption DEF ConfigKeys, BackendModes
<1>2. ConfigFor(t) \in MaybeConfigs
  BY <1>1 DEF TypeOK, ConfigFor
<1>3. DraftOf(ConfigFor(t)) \in Drafts \cup {NoDraft}
  BY <1>2, ConfigsAssumption DEF DraftOf, MaybeConfigs
<1> QED BY <1>1, <1>2, <1>3 DEF RunnerKey, Keys, ConfigKeys

LEMMA FrameIInv ==
  ASSUME IInv, TypeOK', NEW K \in SUBSET Registered, Frame(K)
  PROVE  IInv'
BY FrameKeeps DEF IInv, Structure

(***************************************************************************)
(* One pass of load's loop.                                                *)
(***************************************************************************)
LEMMA RefuseOK ==
  ASSUME IInv, NEW r \in Requests, req[r].pc \notin LoadingPcs, Refuse(r)
  PROVE  IInv'
<1>1. Frame({})
  BY ReturnFrame DEF IInv, Refuse, poolVars
<1>2. TypeOK'
  BY NoRequestType DEF IInv, TypeOK, Refuse, Return, poolVars, loopVars
<1> QED BY <1>1, <1>2, FrameIInv

LEMMA WaitOK ==
  ASSUME IInv, NEW r \in Requests, req[r].pc \notin LoadingPcs,
         NEW k \in Keys, NEW c \in MaybeConfigs, Wait(r, k, c)
  PROVE  IInv'
<1>1. Frame({})
  BY DEF IInv, TypeOK, Wait, Frame, RunnersOf, SlotsOf, NoRequest, LoadingPcs, poolVars
<1>2. TypeOK'
  BY NoRequestType DEF IInv, TypeOK, Wait, poolVars, loopVars
<1> QED BY <1>1, <1>2, FrameIInv

LEMMA AcquireOK ==
  ASSUME IInv, NEW r \in Requests, req[r].pc \notin LoadingPcs,
         NEW k \in Keys, NEW c \in MaybeConfigs, Acquire(r, k, c)
  PROVE  IInv'
<1>1. Frame({})
  BY DEF IInv, TypeOK, Acquire, Frame, RunnersOf, SlotsOf, LoadingPcs
<1>2. runners[k] \in Slots /\ slots[runners[k]] \in Runners \cup {NoRunner}
  BY DEF IInv, TypeOK, Acquire, Registered
<1>3. Inc(references[runners[k]]) \in RefCounts
  BY <1>2, RefAssumption DEF IInv, TypeOK, Inc, RefCounts
<1>4. req' \in [Requests -> RequestStates]
  BY <1>2 DEF IInv, TypeOK, Acquire, RequestStates, Pcs
<1>5. timestamps' \in [Slots -> 0 .. MaxAge]
  BY <1>2, TimeAssumption DEF IInv, TypeOK, Acquire, ZeroTime
<1>6. references' \in [Slots -> RefCounts]
  BY <1>2, <1>3 DEF IInv, TypeOK, Acquire
<1>7. TypeOK'
  BY <1>4, <1>5, <1>6 DEF IInv, TypeOK, Acquire, loopVars
<1> QED BY <1>1, <1>7, FrameIInv

LEMMA ReserveOK ==
  ASSUME IInv, NEW r \in Requests, req[r].pc \notin LoadingPcs,
         NEW k \in Keys, NEW c \in MaybeConfigs, Reserve(r, k, c)
  PROVE  IInv'
<1> DEFINE K == Evictees(k)
           free == FreeSlots \cup SlotsOf(K)
<1> USE SlotFacts, SentinelAssumption
<1>1. K \subseteq Registered
  BY DEF Evictees, UnusedKeys, UnusedOf
<1>2. k \in Registered => k \in K
  BY DEF Reserve, Evictees, UnusedOf, UnusedKeys, Keys
<1>3. PICK s \in free :
        /\ loading' = [loading EXCEPT ![s] = k]
        /\ req' = [req EXCEPT ![r] = [pc |-> "starting", key |-> k, config |-> c,
                                      slot |-> s, runner |-> NoRunner]]
  BY DEF Reserve
<1>4. Evict(K)
  BY DEF Reserve
<1>5. s \in Slots /\ loading[s] = NoKey /\ slots'[s] = NoRunner
  BY <1>1, <1>4 DEF IInv, TypeOK, PoolConsistent, FreeSlots, SlotsOf, Registered,
                    LoadingSlots, Evict
<1>6. \A u \in Slots : loading[u] # k
  BY DEF Reserve, BeingLoaded, Keys
<1>7. TypeOK'
  <2>1. /\ runners' \in [Keys -> Slots \cup {NoSlot}]
        /\ slots' \in [Slots -> Runners \cup {NoRunner}]
        /\ timestamps' \in [Slots -> 0 .. MaxAge]
        /\ proc' \in [Runners -> Processes \cup {NoProc}]
    BY <1>1, <1>4, EvictType DEF IInv
  <2>2. req' \in [Requests -> RequestStates]
    BY <1>3, <1>5 DEF IInv, TypeOK, RequestStates, Pcs
  <2>3. loading' \in [Slots -> Keys \cup {NoKey}]
    BY <1>3, <1>5 DEF IInv, TypeOK
  <2> QED BY <2>1, <2>2, <2>3 DEF IInv, TypeOK, Reserve, loopVars
<1>8. PoolConsistent'
  <2>1. /\ \A j \in Keys : runners'[j] = IF j \in K THEN NoSlot ELSE runners[j]
        /\ \A u \in Slots : slots'[u] = IF u \in SlotsOf(K) THEN NoRunner ELSE slots[u]
        /\ \A u \in Slots : loading'[u] = IF u = s THEN k ELSE loading[u]
    BY <1>3, <1>4, <1>5 DEF IInv, TypeOK, Evict
  <2>2. runners'[k] = NoSlot /\ k # NoKey
    BY <1>2, <2>1 DEF Registered
  <2> QED
    BY <1>1, <1>5, <1>6, <2>1, <2>2
       DEF IInv, PoolConsistent, Registered, LoadingSlots, SlotsOf
<1>9. RequestsOK'
  <2> SUFFICES ASSUME NEW q \in Requests PROVE RequestOK(q)'
    BY DEF RequestsOK
  <2>1. RequestOK(q)
    BY DEF IInv, RequestsOK
  <2>2. CASE q = r
    BY <1>3, <1>5, <2>2 DEF IInv, TypeOK, RequestOK, Loads, LoadingPcs
  <2>3. CASE q # r
    BY <1>3, <1>4, <1>5, <2>1, <2>3 DEF IInv, TypeOK, RequestOK, Loads, LoadingPcs, Evict
  <2> QED BY <2>2, <2>3
<1>10. ReservationsApart'
  BY <1>3, <1>5 DEF IInv, TypeOK, RequestsOK, RequestOK, ReservationsApart, Loads, LoadingPcs
<1>11. SlotsApart'
  BY <1>4 DEF IInv, TypeOK, SlotsApart, Evict
<1>12. ProcsOK'
  BY <1>1, <1>3, <1>4 DEF IInv, TypeOK, ProcsOK, Loads, LoadingPcs, Evict, SlotsOf,
                          RunnersOf, Registered, Processes
<1> QED BY <1>7, <1>8, <1>9, <1>10, <1>11, <1>12 DEF IInv

LEMMA AttemptOK ==
  ASSUME IInv, NEW r \in Requests, req[r].pc \notin LoadingPcs,
         NEW k \in Keys, NEW c \in MaybeConfigs, Attempt(r, k, c)
  PROVE  IInv'
BY RefuseOK, WaitOK, AcquireOK, ReserveOK DEF Attempt

(***************************************************************************)
(* The steps of a request that loads.                                      *)
(***************************************************************************)
LEMMA StartRunnerOK ==
  ASSUME IInv, NEW r \in Requests, NEW i \in Runners, StartRunner(r, i)
  PROVE  IInv'
<1> USE SlotFacts, SentinelAssumption
<1>1. req[r].slot \in Slots /\ req[r].key \in Keys /\ req[r].config \in MaybeConfigs
  BY DEF IInv, TypeOK, RequestsOK, RequestOK, StartRunner, LoadingPcs, RequestStates
<1>2. TypeOK'
  <2>1. proc' \in [Runners -> Processes \cup {NoProc}]
    BY <1>1 DEF IInv, TypeOK, StartRunner, Processes
  <2>2. req' \in [Requests -> RequestStates]
    <3>1. [req[r] EXCEPT !.pc = "probing", !.runner = i] \in RequestStates
      BY UpdateType DEF IInv, TypeOK, Pcs
    <3> QED BY <3>1 DEF IInv, TypeOK, StartRunner
  <2> QED BY <2>1, <2>2 DEF IInv, TypeOK, StartRunner, poolVars, loopVars
<1>3. PoolConsistent'
  BY DEF IInv, PoolConsistent, StartRunner, poolVars, Registered, LoadingSlots
<1>4. RequestsOK'
  <2> SUFFICES ASSUME NEW q \in Requests PROVE RequestOK(q)'
    BY DEF RequestsOK
  <2>1. RequestOK(q)
    BY DEF IInv, RequestsOK
  <2>2. CASE q = r
    BY <2>1, <2>2 DEF IInv, TypeOK, StartRunner, RunnerInUse, RequestOK, Loads, LoadingPcs,
                      RequestStates, poolVars
  <2>3. CASE q # r
    BY <2>1, <2>3 DEF IInv, TypeOK, StartRunner, RequestOK, Loads, LoadingPcs, poolVars
  <2> QED BY <2>2, <2>3
<1>5. ReservationsApart'
  BY DEF IInv, TypeOK, StartRunner, RunnerInUse, ReservationsApart, Loads, LoadingPcs,
         RequestStates
<1>6. SlotsApart'
  BY DEF IInv, SlotsApart, StartRunner, poolVars
<1>7. ProcsOK'
  <2> SUFFICES ASSUME NEW j \in Runners, proc'[j] # NoProc
               PROVE  \/ slots[proc'[j].slot] = j /\ runners[proc'[j].key] = proc'[j].slot
                      \/ \E q \in Requests : /\ Loads(q)'
                                             /\ req'[q].runner = j
                                             /\ req'[q].slot = proc'[j].slot
                                             /\ req'[q].key = proc'[j].key
    BY DEF ProcsOK, StartRunner, poolVars
  <2>1. CASE j = i
    BY <2>1 DEF IInv, TypeOK, StartRunner, Loads, RequestStates
  <2>2. CASE j # i
    BY <2>2 DEF IInv, TypeOK, ProcsOK, StartRunner, Loads
  <2> QED BY <2>1, <2>2
<1> QED BY <1>2, <1>3, <1>4, <1>5, <1>6, <1>7 DEF IInv

\* A load fails: its process, if any, is gone, its reservation is not yet.
LEMMA LoadFailsOK ==
  ASSUME IInv, NEW r \in Requests, StartFails(r) \/ WaitFails(r)
  PROVE  IInv'
<1>1. TypeOK'
  BY SMTT(30) DEF IInv, TypeOK, StartFails, WaitFails, poolVars, loopVars, RequestStates, Pcs
<1>2. PoolConsistent' /\ SlotsApart'
  BY DEF IInv, PoolConsistent, SlotsApart, StartFails, WaitFails, poolVars, Registered,
         LoadingSlots
<1>3. RequestsOK'
  BY DEF IInv, TypeOK, RequestsOK, RequestOK, StartFails, WaitFails, poolVars, Loads,
         LoadingPcs, RequestStates
<1>4. ReservationsApart'
  BY DEF IInv, TypeOK, ReservationsApart, StartFails, WaitFails, Loads, LoadingPcs,
         RequestStates
<1>5. ProcsOK'
  <2> SUFFICES ASSUME NEW j \in Runners, proc'[j] # NoProc
               PROVE  \/ slots[proc'[j].slot] = j /\ runners[proc'[j].key] = proc'[j].slot
                      \/ \E q \in Requests : /\ Loads(q)'
                                             /\ req'[q].runner = j
                                             /\ req'[q].slot = proc'[j].slot
                                             /\ req'[q].key = proc'[j].key
    BY DEF ProcsOK, StartFails, WaitFails, poolVars
  <2>1. proc'[j] = proc[j]
    BY DEF IInv, TypeOK, StartFails, WaitFails
  <2>2. ASSUME NEW q \in Requests, Loads(q), req[q].runner = j
        PROVE  req'[q] = req[q]
    BY <2>2 DEF IInv, TypeOK, StartFails, WaitFails, Loads
  <2> QED BY <2>1, <2>2 DEF IInv, ProcsOK, Loads
<1> QED BY <1>1, <1>2, <1>3, <1>4, <1>5 DEF IInv

LEMMA HealthyOK ==
  ASSUME IInv, NEW r \in Requests, Healthy(r)
  PROVE  IInv'
<1>1. TypeOK'
  BY DEF IInv, TypeOK, Healthy, poolVars, loopVars, RequestStates, Pcs
<1>2. PoolConsistent' /\ SlotsApart'
  BY DEF IInv, PoolConsistent, SlotsApart, Healthy, poolVars, Registered, LoadingSlots
<1>3. RequestsOK'
  BY DEF IInv, TypeOK, RequestsOK, RequestOK, Healthy, poolVars, Loads, LoadingPcs,
         RequestStates
<1>4. ReservationsApart'
  BY DEF IInv, TypeOK, ReservationsApart, Healthy, Loads, LoadingPcs, RequestStates
<1>5. ProcsOK'
  <2>1. ASSUME NEW q \in Requests, Loads(q)
        PROVE  /\ Loads(q)'
               /\ req'[q].runner = req[q].runner
               /\ req'[q].slot = req[q].slot
               /\ req'[q].key = req[q].key
    BY <2>1 DEF IInv, TypeOK, Healthy, Loads, RequestStates
  <2> QED BY <2>1 DEF IInv, ProcsOK, Healthy, poolVars
<1> QED BY <1>1, <1>2, <1>3, <1>4, <1>5 DEF IInv

LEMMA UnreserveOK ==
  ASSUME IInv, NEW r \in Requests, Unreserve(r)
  PROVE  IInv'
<1> USE SentinelAssumption
<1> DEFINE s == req[r].slot
<1>1. s \in Slots /\ loading[s] # NoKey
  BY DEF IInv, RequestsOK, RequestOK, Unreserve, LoadingPcs
<1>2. TypeOK'
  BY <1>1, BroadcastType, NoRequestType DEF IInv, TypeOK, Unreserve
<1>3. PoolConsistent' /\ SlotsApart'
  BY <1>1 DEF IInv, TypeOK, PoolConsistent, SlotsApart, Unreserve, Registered, LoadingSlots
<1>4. RequestsOK'
  <2> SUFFICES ASSUME NEW q \in Requests PROVE RequestOK(q)'
    BY DEF RequestsOK
  <2>1. RequestOK(q)
    BY DEF IInv, RequestsOK
  <2>2. CASE q = r
    BY <2>2, ReturnAssumption DEF IInv, TypeOK, Unreserve, RequestOK, Loads, LoadingPcs, NoRequest
  <2>3. CASE q # r
    BY <1>1, <2>1, <2>3 DEF IInv, TypeOK, Unreserve, ReservationsApart, RequestOK, Loads,
                            LoadingPcs
  <2> QED BY <2>2, <2>3
<1>5. ReservationsApart'
  BY ReturnAssumption DEF IInv, TypeOK, ReservationsApart, Unreserve, Loads, LoadingPcs, NoRequest
<1>6. ProcsOK'
  BY DEF IInv, TypeOK, ProcsOK, Unreserve, Loads
<1> QED BY <1>2, <1>3, <1>4, <1>5, <1>6 DEF IInv

LEMMA RegisterOK ==
  ASSUME IInv, NEW r \in Requests, Register(r)
  PROVE  IInv'
<1> USE SlotFacts, SentinelAssumption
<1>1. PICK s \in Slots, k \in Keys, i \in Runners :
        /\ req[r].slot = s /\ req[r].key = k /\ req[r].runner = i
        /\ loading[s] = k /\ k # NoKey
        /\ \A u \in Slots : slots[u] # i
  BY DEF IInv, RequestsOK, RequestOK, Register, LoadingPcs, Loads
<1>2. slots[s] = NoRunner /\ runners[k] = NoSlot
  <2>1. s \in LoadingSlots
    BY <1>1 DEF LoadingSlots
  <2>2. slots[s] = NoRunner /\ loading[s] \notin Registered
    BY <2>1 DEF IInv, PoolConsistent
  <2> QED BY <1>1, <2>2 DEF Registered
<1>3. /\ \A j \in Keys : runners'[j] = IF j = k THEN s ELSE runners[j]
      /\ \A u \in Slots : slots'[u] = IF u = s THEN i ELSE slots[u]
      /\ \A u \in Slots : loading'[u] = IF u = s THEN NoKey ELSE loading[u]
      /\ \A q \in Requests : q # r => req'[q] = req[q]
      /\ req'[r].pc = "serving" /\ req'[r].key = k
      /\ proc' = proc
  BY <1>1 DEF IInv, TypeOK, Register, RequestStates
<1>4. TypeOK'
  <2>1. references' \in [Slots -> RefCounts]
    BY <1>1, RefAssumption DEF IInv, TypeOK, Register, RefCounts
  <2>2. req' \in [Requests -> RequestStates]
    BY DEF IInv, TypeOK, Register, RequestStates, Pcs
  <2> QED BY <1>1, <2>1, <2>2, BroadcastType DEF IInv, TypeOK, Register
<1>5. PoolConsistent'
  <2>1. Registered' = Registered \cup {k}
    BY <1>1, <1>3 DEF Registered
  <2>2. LoadingSlots' = LoadingSlots \ {s}
    BY <1>1, <1>3, ZenonT(60) DEF LoadingSlots
  <2>3. \A u \in Slots : (\E j \in Registered : runners[j] = u) <=> slots[u] # NoRunner
    BY DEF IInv, PoolConsistent
  <2>8. \A j \in Registered : runners[j] # s /\ j # k
    BY <1>2, <2>3 DEF Registered
  <2>4. \A j, m \in Registered' : runners'[j] = runners'[m] => j = m
    <3> SUFFICES ASSUME NEW j \in Registered', NEW m \in Registered',
                        runners'[j] = runners'[m], j # m
                 PROVE  FALSE
      OBVIOUS
    <3>1. CASE j = k \/ m = k
      BY <1>3, <2>1, <2>8, <3>1 DEF Registered
    <3>2. CASE j # k /\ m # k
      BY <1>3, <2>1, <3>2 DEF IInv, PoolConsistent, Registered
    <3> QED BY <3>1, <3>2
  <2>5. \A u \in Slots : slots'[u] # NoRunner <=> \E j \in Registered' : runners'[j] = u
    <3> SUFFICES ASSUME NEW u \in Slots
                 PROVE  slots'[u] # NoRunner <=> \E j \in Registered' : runners'[j] = u
      OBVIOUS
    <3>1. CASE u = s
      <4>1. slots'[u] # NoRunner
        BY <1>3, <3>1, ZenonT(60)
      <4>2. k \in Registered' /\ runners'[k] = u
        BY <1>3, <2>1, <3>1
      <4> QED BY <4>1, <4>2
    <3>2. CASE u # s
      BY <1>3, <2>1, <2>3, <2>8, <3>2 DEF Registered
    <3> QED BY <3>1, <3>2
  <2>6. \A u \in LoadingSlots' : slots'[u] = NoRunner /\ loading'[u] \notin Registered'
    <3> SUFFICES ASSUME NEW u \in LoadingSlots, u # s
                 PROVE  slots[u] = NoRunner /\ loading[u] \notin Registered \cup {k}
      BY <1>3, <2>1, <2>2 DEF LoadingSlots
    <3>1. s \in LoadingSlots
      BY <1>1 DEF LoadingSlots
    <3>2. slots[u] = NoRunner /\ loading[u] \notin Registered
      BY DEF IInv, PoolConsistent
    <3>3. loading[u] = loading[s] => u = s
      BY <3>1 DEF IInv, PoolConsistent
    <3> QED BY <1>1, <3>2, <3>3
  <2>7. \A u, v \in LoadingSlots' : loading'[u] = loading'[v] => u = v
    <3>1. \A u \in LoadingSlots' : u \in LoadingSlots /\ loading'[u] = loading[u]
      BY <1>3, <2>2 DEF LoadingSlots
    <3> QED BY <3>1 DEF IInv, PoolConsistent
  <2> QED BY <2>4, <2>5, <2>6, <2>7 DEF PoolConsistent
<1>6. RequestsOK'
  <2> SUFFICES ASSUME NEW q \in Requests PROVE RequestOK(q)'
    BY DEF RequestsOK
  <2>1. RequestOK(q)
    BY DEF IInv, RequestsOK
  <2>2. CASE q = r
    BY <1>1, <1>3, <2>2 DEF RequestOK, Loads, LoadingPcs
  <2>3. CASE q # r
    BY <1>1, <1>3, <2>1, <2>3 DEF IInv, Register, ReservationsApart, RequestOK, Loads, LoadingPcs
  <2> QED BY <2>2, <2>3
<1>7. ReservationsApart'
  BY <1>3 DEF IInv, ReservationsApart, Loads, LoadingPcs
<1>8. SlotsApart'
  <2>1. SlotsApart
    BY DEF IInv
  <2> QED BY <1>1, <1>3, <2>1 DEF SlotsApart
<1>9. ProcsOK'
  <2> SUFFICES ASSUME NEW j \in Runners, proc[j] # NoProc
               PROVE  \/ slots'[proc[j].slot] = j /\ runners'[proc[j].key] = proc[j].slot
                      \/ \E q \in Requests : /\ Loads(q)'
                                             /\ req'[q].runner = j
                                             /\ req'[q].slot = proc[j].slot
                                             /\ req'[q].key = proc[j].key
    BY <1>3 DEF ProcsOK
  <2>1. proc[j].slot \in Slots /\ proc[j].key \in Keys
    BY DEF IInv, TypeOK, Processes
  <2>2. CASE slots[proc[j].slot] = j /\ runners[proc[j].key] = proc[j].slot
    BY <1>2, <1>3, <2>1, <2>2, ZenonT(60)
  <2>3. CASE \E q \in Requests : /\ Loads(q)
                                 /\ req[q].runner = j
                                 /\ req[q].slot = proc[j].slot
                                 /\ req[q].key = proc[j].key
    <3>1. PICK q \in Requests : /\ Loads(q)
                               /\ req[q].runner = j
                               /\ req[q].slot = proc[j].slot
                               /\ req[q].key = proc[j].key
      BY <2>3
    <3>2. CASE q = r
      BY <1>1, <1>3, <2>1, <3>1, <3>2
    <3>3. CASE q # r
      BY <1>3, <3>1, <3>3 DEF Loads
    <3> QED BY <3>2, <3>3
  <2> QED BY <2>2, <2>3 DEF IInv, ProcsOK
<1> QED BY <1>4, <1>5, <1>6, <1>7, <1>8, <1>9 DEF IInv

(***************************************************************************)
(* The other steps of a request.                                           *)
(***************************************************************************)
LEMMA LoadOK ==
  ASSUME IInv, NEW r \in Requests, NEW t \in Targets, Load(r, t)
  PROVE  IInv'
BY CallType, AttemptOK DEF IInv, Load, LoadingPcs

LEMMA WakeOK ==
  ASSUME IInv, NEW r \in Requests, Wake(r)
  PROVE  IInv'
<1>1. Frame({})
  BY DEF IInv, TypeOK, RequestsOK, RequestOK, Wake, poolVars, Frame, RunnersOf, SlotsOf,
         LoadingPcs, RequestStates
<1>2. [req[r] EXCEPT !.pc = "woken"] \in RequestStates
  BY DEF IInv, TypeOK, RequestStates, Pcs
<1>3. TypeOK'
  BY <1>2 DEF IInv, TypeOK, Wake, poolVars, loopVars
<1> QED BY <1>1, <1>3, FrameIInv

LEMMA RetryOK ==
  ASSUME IInv, NEW r \in Requests, Retry(r)
  PROVE  IInv'
<1>1. req[r].key \in Keys /\ req[r].config \in MaybeConfigs
  BY DEF IInv, TypeOK, RequestsOK, RequestOK, Retry, RequestStates
<1> QED BY <1>1, AttemptOK DEF Retry, LoadingPcs

LEMMA CancelOK ==
  ASSUME IInv, NEW r \in Requests, Cancel(r)
  PROVE  IInv'
<1>1. Frame({})
  BY ReturnFrame DEF IInv, Cancel, poolVars, LoadingPcs
<1>2. TypeOK'
  BY NoRequestType DEF IInv, TypeOK, Cancel, Return, poolVars, loopVars
<1> QED BY <1>1, <1>2, FrameIInv

\* release may charge the wrong slot: it still leaves the pool in order.
LEMMA ReleaseOK ==
  ASSUME IInv, NEW r \in Requests, Release(r)
  PROVE  IInv'
<1> USE SlotFacts
<1> DEFINE k == req[r].key
           K == {j \in Registered : /\ references'[runners[j]] = 0
                                    /\ ConfigKey(j) = ConfigKey(k)}
<1>1. PICK s \in ReleaseSlots(k) :
        /\ references' = [references EXCEPT ![s] = Dec(@)]
        /\ \/ Evict(K) /\ UNCHANGED idleCheck
           \/ /\ timestamps' = [timestamps EXCEPT ![s] = 0]
              /\ idleCheck' = TRUE
              /\ UNCHANGED <<runners, slots, proc>>
           \/ UNCHANGED <<runners, slots, timestamps, idleCheck, proc>>
  BY DEF Release
<1>2. s \in Slots
  BY SlotsAssumption DEF IInv, TypeOK, ReleaseSlots, SlotsOf, Registered, Slots
<1>3. /\ req' = [req EXCEPT ![r] = NoRequest(AfterReturn)]
      /\ Broadcast
      /\ UNCHANGED <<loadsEnabled, loading, runnerConfigs, timer, loop>>
      /\ req[r].pc = "serving"
  BY DEF Release
<1>4. \A q \in Requests :
        \/ req'[q] = req[q]
        \/ /\ req[q].pc \notin LoadingPcs
           /\ req'[q].pc \notin LoadingPcs \cup {"waiting", "woken", "serving"}
  BY <1>3, ReturnAssumption DEF IInv, TypeOK, LoadingPcs, NoRequest
<1>5. references' \in [Slots -> RefCounts]
  BY <1>1, <1>2, RefAssumption DEF IInv, TypeOK, Dec, RefCounts
<1>6. req' \in [Requests -> RequestStates] /\ poll' \subseteq Requests /\ drainPoll' \in BOOLEAN
  BY <1>3, NoRequestType, BroadcastType DEF IInv, TypeOK
<1>7. CASE Evict(K) /\ UNCHANGED idleCheck
  <2>1. TypeOK'
    BY <1>3, <1>5, <1>6, <1>7, EvictType DEF IInv, TypeOK
  <2>2. Frame(K)
    BY <1>3, <1>4, <1>7 DEF IInv, TypeOK, Evict, Frame
  <2> QED BY <2>1, <2>2, FrameIInv
<1>8. CASE UNCHANGED <<runners, slots, proc>> /\ timestamps' \in [Slots -> 0 .. MaxAge]
           /\ idleCheck' \in BOOLEAN
  <2>1. TypeOK'
    BY <1>3, <1>5, <1>6, <1>8 DEF IInv, TypeOK
  <2>2. Frame({})
    BY <1>3, <1>4, <1>8 DEF IInv, TypeOK, Frame, RunnersOf, SlotsOf
  <2> QED BY <2>1, <2>2, FrameIInv
<1>9. [timestamps EXCEPT ![s] = 0] \in [Slots -> 0 .. MaxAge]
  BY <1>2, TimeAssumption DEF IInv, TypeOK
<1> QED BY <1>1, <1>7, <1>8, <1>9 DEF IInv, TypeOK

(***************************************************************************)
(* Configuration, unloading, the run loop and the environment.             *)
(***************************************************************************)
LEMMA EvictOK ==
  ASSUME IInv, NEW K \in SUBSET Registered, Evict(K),
         runnerConfigs' \in [ConfigKeys -> MaybeConfigs],
         timer' \in {Off} \cup 0 .. MaxAge,
         loop' \in {"starting", "running", "draining", "evicting", "stopped"},
         drainPoll' \in BOOLEAN,
         UNCHANGED <<loadsEnabled, loading, references, idleCheck, req, poll>>
  PROVE  IInv'
<1>1. TypeOK'
  BY EvictType DEF IInv, TypeOK
<1> QED BY <1>1, EvictFrame, FrameIInv DEF IInv

LEMMA UnloadOK ==
  ASSUME IInv,
         \/ UnloadAll
         \/ \E b \in Backends \cup {AnyBackend}, M \in SUBSET Models : UnloadModels(b, M)
         \/ \E b \in Backends : UnloadBackend(b)
  PROVE  IInv'
<1>1. CASE UnloadAll
  <2>1. UnusedKeys \subseteq Registered
    BY DEF UnusedKeys
  <2> QED BY <1>1, <2>1, EvictOK DEF IInv, TypeOK, UnloadAll, loopVars, MaybeConfigs
<1>2. ASSUME NEW b, NEW M, UnloadModels(b, M) PROVE IInv'
  <2>1. UnusedOf(b, M, BackendModes) \subseteq Registered
    BY DEF UnusedOf, UnusedKeys
  <2>2. runnerConfigs' \in [ConfigKeys -> MaybeConfigs]
    BY <1>2 DEF IInv, TypeOK, UnloadModels, MaybeConfigs
  <2> QED BY <1>2, <2>1, <2>2, EvictOK DEF IInv, TypeOK, UnloadModels, loopVars
<1>3. ASSUME NEW b, UnloadBackend(b) PROVE IInv'
  <2>1. {k \in UnusedKeys : k.backend = b} \subseteq Registered
    BY DEF UnusedKeys
  <2> QED BY <1>3, <2>1, EvictOK DEF IInv, TypeOK, UnloadBackend, loopVars
<1> QED BY <1>1, <1>2, <1>3

LEMMA SetConfigOK ==
  ASSUME IInv, NEW t \in Targets, NEW c \in Configs, SetConfig(t, c)
  PROVE  IInv'
<1> DEFINE k == RunnerKey(t, DraftOf(c))
           K == IF k \in Registered THEN UnusedOf(t.backend, {t.model}, {t.mode}) ELSE {}
<1>1. K \subseteq Registered
  BY DEF UnusedOf, UnusedKeys
<1>2. Evict(K) /\ UNCHANGED <<loadsEnabled, loading, references, loopVars, req, poll>>
  BY DEF SetConfig
<1>3. runnerConfigs' \in [ConfigKeys -> MaybeConfigs]
  BY TargetsAssumption DEF IInv, TypeOK, SetConfig, MaybeConfigs
<1> QED BY <1>1, <1>2, <1>3, EvictOK DEF IInv, TypeOK, loopVars

LEMMA IdleCheckType ==
  ASSUME TypeOK, NEW R \in SUBSET Registered
  PROVE  IdleCheckDurations(R) \subseteq {Off} \cup 0 .. MaxAge
<1>1. \A k \in R : IdleTimeoutFor(k) \in Int /\ IdleTimeoutFor(k) < MaxAge
  <2> SUFFICES ASSUME NEW k \in R
               PROVE  IdleTimeoutFor(k) \in Int /\ IdleTimeoutFor(k) < MaxAge
    OBVIOUS
  <2>1. ConfigKey(k) \in ConfigKeys
    BY DEF Registered, Keys, ConfigKey, ConfigKeys
  <2> QED BY <2>1, ConfigsAssumption, TimeAssumption DEF TypeOK, IdleTimeoutFor, MaybeConfigs
<1>2. \A k \in R : timestamps[runners[k]] \in 0 .. MaxAge
  BY SlotFacts DEF TypeOK, Registered
<1>3. \A k \in R :
        IdleTimeoutFor(k) >= 0 /\ ~Expired(k) =>
          IdleTimeoutFor(k) - timestamps[runners[k]] + 1 \in 0 .. MaxAge
  BY <1>1, <1>2, TimeAssumption DEF Expired
<1> QED BY <1>3, TimeAssumption DEF IdleCheckDurations

LEMMA LoopOK ==
  ASSUME IInv, LoopStart \/ LoopAbort \/ LoopCancel \/ LoopStep
  PROVE  IInv'
<1>1. CASE LoopStart \/ LoopAbort \/ LoopCancel \/ IdleCheck \/ DrainWake
  <2>1. IdleCheck => timer' \in {Off} \cup 0 .. MaxAge
    BY IdleCheckType DEF IInv, IdleCheck
  <2>2. TypeOK'
    BY <1>1, <2>1 DEF IInv, TypeOK, LoopStart, LoopAbort, LoopCancel, IdleCheck, DrainWake,
                      poolVars, Waiting
  <2>3. Frame({})
    BY <1>1, NothingFrame DEF IInv, LoopStart, LoopAbort, LoopCancel, IdleCheck, DrainWake,
                              poolVars
  <2> QED BY <2>2, <2>3, FrameIInv
<1>2. CASE IdleTimer
  <2> DEFINE K == {k \in UnusedKeys : Expired(k) \/ Defunct(k)}
  <2>1. K \subseteq Registered
    BY DEF UnusedKeys
  <2>2. Evict(K) /\ timer' \in {Off} \cup 0 .. MaxAge
    BY <1>2, IdleCheckType DEF IInv, IdleTimer
  <2> QED BY <1>2, <2>1, <2>2, EvictOK DEF IInv, TypeOK, IdleTimer
<1>3. CASE Drain
  <2>1. UnusedKeys \subseteq Registered
    BY DEF UnusedKeys
  <2>2. /\ Evict(UnusedKeys)
        /\ loop' \in {"starting", "running", "draining", "evicting", "stopped"}
        /\ drainPoll' \in BOOLEAN
    BY <1>3 DEF IInv, TypeOK, Drain
  <2> QED BY <1>3, <2>1, <2>2, EvictOK DEF IInv, TypeOK, Drain
<1> QED BY <1>1, <1>2, <1>3 DEF LoopStep

LEMMA EnvironmentOK ==
  ASSUME IInv, Tick \/ \E i \in Runners : Crash(i)
  PROVE  IInv'
<1>1. CASE Tick
  <2>1. timer' \in {Off} \cup 0 .. MaxAge
    BY <1>1, TimeAssumption DEF IInv, TypeOK, Tick, Off
  <2>2. timestamps' \in [Slots -> 0 .. MaxAge]
    BY <1>1, TimeAssumption DEF IInv, TypeOK, Tick
  <2>3. TypeOK'
    BY <1>1, <2>1, <2>2 DEF IInv, TypeOK, Tick
  <2> QED BY <1>1, <2>3, NothingFrame, FrameIInv DEF IInv, Tick
<1>2. ASSUME NEW i \in Runners, Crash(i) PROVE IInv'
  <2>1. TypeOK'
    BY <1>2 DEF IInv, TypeOK, Crash, poolVars, loopVars
  <2>2. Frame({})
    BY <1>2 DEF IInv, TypeOK, Crash, poolVars, Frame, RunnersOf, SlotsOf
  <2> QED BY <2>1, <2>2, FrameIInv
<1> QED BY <1>1, <1>2

(***************************************************************************)
(* IInv is inductive.                                                      *)
(***************************************************************************)
LEMMA InitOK == Init => IInv
<1> SUFFICES ASSUME Init PROVE IInv
  OBVIOUS
<1> USE SlotFacts DEF Init
<1>1. NoRequest("idle") \in RequestStates
  BY DEF NoRequest, RequestStates, Pcs, MaybeConfigs
<1>2. TypeOK
  <2>1. references \in [Slots -> RefCounts] /\ timestamps \in [Slots -> 0 .. MaxAge]
    BY TimeAssumption, RefAssumption DEF RefCounts, ZeroTime
  <2>2. req \in [Requests -> RequestStates] /\ runnerConfigs \in [ConfigKeys -> MaybeConfigs]
    BY <1>1 DEF MaybeConfigs
  <2> QED BY <2>1, <2>2 DEF TypeOK
<1>3. PoolConsistent
  BY DEF PoolConsistent, Registered, LoadingSlots
<1>4. RequestsOK /\ ReservationsApart
  BY DEF RequestsOK, RequestOK, ReservationsApart, Loads, LoadingPcs, NoRequest
<1>5. SlotsApart /\ ProcsOK
  BY DEF SlotsApart, ProcsOK
<1> QED BY <1>2, <1>3, <1>4, <1>5 DEF IInv

LEMMA NextOK == IInv /\ [Next]_vars => IInv'
<1> SUFFICES ASSUME IInv, [Next]_vars PROVE IInv'
  OBVIOUS
<1>1. ASSUME NEW r \in Requests, \/ \E t \in Targets : Load(r, t)
                                \/ Cancel(r)
                                \/ RequestStep(r)
      PROVE  IInv'
  BY <1>1, LoadOK, CancelOK, WakeOK, RetryOK, StartRunnerOK, LoadFailsOK, HealthyOK,
     UnreserveOK, RegisterOK, ReleaseOK DEF RequestStep
<1>2. CASE \E t \in Targets, c \in Configs : SetConfig(t, c)
  BY <1>2, SetConfigOK
<1>3. CASE \/ UnloadAll
           \/ \E b \in Backends \cup {AnyBackend}, M \in SUBSET Models : UnloadModels(b, M)
           \/ \E b \in Backends : UnloadBackend(b)
  BY <1>3, UnloadOK
<1>4. CASE LoopStart \/ LoopAbort \/ LoopCancel \/ LoopStep
  BY <1>4, LoopOK
<1>5. CASE Tick \/ \E i \in Runners : Crash(i)
  BY <1>5, EnvironmentOK
<1>6. CASE UNCHANGED vars
  <2>1. TypeOK'
    BY <1>6 DEF IInv, TypeOK, vars, poolVars, loopVars
  <2>2. Frame({})
    BY <1>6, NothingFrame DEF IInv, vars, poolVars
  <2> QED BY <2>1, <2>2, FrameIInv
<1> QED BY <1>1, <1>2, <1>3, <1>4, <1>5, <1>6 DEF Next

\* IInv is an invariant of the loader, for any number of slots, requests,
\* keys, drafts and configurations.
THEOREM Inductive == Spec => []IInv
<1>1. Init => IInv
  BY InitOK
<1>2. IInv /\ [Next]_vars => IInv'
  BY NextOK
<1> QED BY <1>1, <1>2, PTL DEF Spec

(***************************************************************************)
(* What it implies.                                                        *)
(***************************************************************************)
\* Two living processes share neither a slot nor a key: each is the runner of
\* its slot or belongs to the one request that reserved it, and a reserved
\* slot holds no runner.
LEMMA IInvExclusive == IInv => SlotExclusive
<1> SUFFICES ASSUME IInv, NEW i \in Live, NEW j \in Live,
                    proc[i].slot = proc[j].slot \/ proc[i].key = proc[j].key
             PROVE  i = j
  BY DEF SlotExclusive
<1> USE SlotFacts, SentinelAssumption
<1> DEFINE In(m) == slots[proc[m].slot] = m /\ runners[proc[m].key] = proc[m].slot
           By(m, r) == /\ Loads(r)
                       /\ req[r].runner = m
                       /\ req[r].slot = proc[m].slot
                       /\ req[r].key = proc[m].key
<1>1. \A m \in Live : /\ m \in Runners
                      /\ proc[m].slot \in Slots
                      /\ proc[m].key \in Keys
                      /\ In(m) \/ \E r \in Requests : By(m, r)
  BY DEF IInv, TypeOK, ProcsOK, Live, Processes
<1>2. \A m \in Live : In(m) => proc[m].key \in Registered /\ slots[proc[m].slot] # NoRunner
  BY <1>1 DEF Registered
<1>3. \A m \in Live, r \in Requests :
        By(m, r) => /\ loading[proc[m].slot] = proc[m].key
                    /\ proc[m].slot \in LoadingSlots
                    /\ slots[proc[m].slot] = NoRunner
                    /\ proc[m].key \notin Registered
  <2> SUFFICES ASSUME NEW m \in Live, NEW r \in Requests, By(m, r)
               PROVE  /\ loading[proc[m].slot] = proc[m].key
                      /\ proc[m].slot \in LoadingSlots
                      /\ slots[proc[m].slot] = NoRunner
                      /\ proc[m].key \notin Registered
    OBVIOUS
  <2>1. loading[proc[m].slot] = proc[m].key
    BY DEF IInv, RequestsOK, RequestOK, Loads, LoadingPcs
  <2>2. proc[m].slot \in LoadingSlots
    BY <1>1, <2>1 DEF LoadingSlots
  <2> QED BY <2>1, <2>2 DEF IInv, PoolConsistent
<1>4. CASE In(i) /\ In(j)
  BY <1>4
<1>5. CASE \E r, q \in Requests : By(i, r) /\ By(j, q)
  <2>1. PICK r \in Requests, q \in Requests : By(i, r) /\ By(j, q)
    BY <1>5
  <2>2. proc[i].slot = proc[j].slot
    BY <1>3, <2>1 DEF IInv, PoolConsistent
  <2> QED BY <2>1, <2>2 DEF IInv, ReservationsApart, Loads, LoadingPcs
<1>6. CASE In(i) /\ \E q \in Requests : By(j, q)
  BY <1>2, <1>3, <1>6
<1>7. CASE In(j) /\ \E r \in Requests : By(i, r)
  BY <1>2, <1>3, <1>7
<1> QED BY <1>1, <1>4, <1>5, <1>6, <1>7

\* Every variable has its type in every reachable state.
THEOREM TypeCorrect == Spec => []TypeOK
<1>1. IInv => TypeOK
  BY DEF IInv
<1> QED BY <1>1, Inductive, PTL

\* The tables of registered runners, of slots and of loads in progress agree.
THEOREM Consistent == Spec => []PoolConsistent
<1>1. IInv => PoolConsistent
  BY DEF IInv
<1> QED BY <1>1, Inductive, PTL

\* No two living backend processes listen on one socket or serve one key.
THEOREM Exclusive == Spec => []SlotExclusive
<1>1. IInv => SlotExclusive
  BY IInvExclusive
<1> QED BY <1>1, Inductive, PTL

\* No living backend process is lost to the loader.
THEOREM Orphanless == Spec => []NoOrphan
<1>1. IInv => NoOrphan
  BY DEF IInv, ProcsOK, NoOrphan, Live
<1> QED BY <1>1, Inductive, PTL

-----------------------------------------------------------------------------
(***************************************************************************)
(* The leases: as long as no configuration names a draft model, and there  *)
(* are fewer requests than a reference count can tell apart, the count of  *)
(* a slot is the number of requests that use its runner, and no runner     *)
(* goes while a request uses it.                                           *)
(*                                                                         *)
(* Without drafts a key is the runner key of its backend, model and mode,  *)
(* so release, which looks for those three only, charges the slot that was *)
(* leased.  With them it may charge another one (RefCount then fails).     *)
(***************************************************************************)
NoDrafts == Drafts \subseteq {NoDraft}
FewRequests == IsFiniteSet(Requests) /\ Cardinality(Requests) < RefMod

\* What a request that is served holds on to.
Leased(r) ==
  /\ req[r].key \in Registered
  /\ req[r].slot = runners[req[r].key]
  /\ req[r].runner \in Runners
  /\ slots[req[r].slot] = req[r].runner

LeasesOK == \A r \in Requests : req[r].pc = "serving" => Leased(r)

LInv == IInv /\ LeasesOK /\ RefCount

\* Such a step takes unused keys out of the pool and moves no request into service
\* or out of it.
Quiet(K) ==
  /\ \A k \in Keys : runners'[k] = IF k \in K THEN NoSlot ELSE runners[k]
  /\ \A s \in Slots : slots'[s] = IF s \in SlotsOf(K) THEN NoRunner ELSE slots[s]
  /\ \A s \in Slots : references'[s] = references[s]
  /\ \A r \in Requests :
       req[r].pc = "serving" \/ req'[r].pc = "serving" => req'[r] = req[r]

\* The requests that hold a runner are finitely many.
LEMMA HoldersFinite ==
  ASSUME FewRequests, NEW i
  PROVE  /\ IsFiniteSet(Holders(i))
         /\ Cardinality(Holders(i)) \in Nat
         /\ Cardinality(Holders(i)) = 0 <=> Holders(i) = {}
<1>1. Holders(i) \subseteq Requests
  BY DEF Holders
<1>2. IsFiniteSet(Holders(i))
  BY <1>1, FS_Subset DEF FewRequests
<1> QED BY <1>2, FS_EmptySet, FS_CardinalityType

\* A key in use is not among the unused ones.
LEMMA ServedInUse ==
  ASSUME FewRequests, LInv, NEW r \in Requests, req[r].pc = "serving"
  PROVE  req[r].key \notin UnusedKeys
<1> USE SlotFacts, SentinelAssumption
<1> DEFINE s == runners[req[r].key]
<1>1. s \in Slots /\ slots[s] = req[r].runner /\ req[r].runner # NoRunner
  BY DEF LInv, LeasesOK, Leased, IInv, TypeOK, Registered
<1>2. r \in Holders(slots[s])
  BY <1>1 DEF Holders
<1>3. references[s] # 0
  BY <1>1, <1>2, HoldersFinite DEF LInv, RefCount
<1> QED BY <1>3 DEF UnusedKeys, Unused

\* A quiet step keeps the leases.
LEMMA QuietKeeps ==
  ASSUME FewRequests, LInv, NEW K \in SUBSET UnusedKeys, Quiet(K)
  PROVE  LeasesOK' /\ RefCount'
<1> USE SlotFacts, SentinelAssumption
<1>1. \A i : Holders(i)' = Holders(i)
  BY DEF Quiet, Holders
<1>2. RefCount'
  BY <1>1 DEF LInv, RefCount, Quiet
<1>3. LeasesOK'
  <2> SUFFICES ASSUME NEW r \in Requests, req'[r].pc = "serving" PROVE Leased(r)'
    BY DEF LeasesOK
  <2>1. req'[r] = req[r] /\ req[r].pc = "serving" /\ Leased(r)
    BY DEF Quiet, LInv, LeasesOK
  <2>2. req[r].key \in Keys /\ req[r].key \notin K /\ req[r].slot \in Slots
    BY <2>1, ServedInUse DEF Leased, Registered, LInv, IInv, TypeOK
  <2>3. req[r].slot \notin SlotsOf(K)
    BY <2>1, <2>2 DEF SlotsOf, LInv, IInv, PoolConsistent, Leased, UnusedKeys
  <2> QED BY <2>1, <2>2, <2>3 DEF Quiet, Leased, Registered
<1> QED BY <1>2, <1>3

LEMMA EvictQuiet ==
  ASSUME TypeOK, NEW K \in SUBSET UnusedKeys, Evict(K), UNCHANGED <<references, req>>
  PROVE  Quiet(K)
BY DEF TypeOK, Evict, Quiet

LEMMA NothingQuiet ==
  ASSUME TypeOK, UNCHANGED <<runners, slots, references>>,
         \A r \in Requests :
           req[r].pc = "serving" \/ req'[r].pc = "serving" => req'[r] = req[r]
  PROVE  Quiet({})
BY DEF TypeOK, Quiet, SlotsOf

(***************************************************************************)
(* The steps of a request.                                                 *)
(***************************************************************************)
\* A request leases the runner that is registered for its key.
LEMMA AcquireLeases ==
  ASSUME FewRequests, LInv, NEW r \in Requests, req[r].pc # "serving",
         NEW k \in Keys, NEW c \in MaybeConfigs, Acquire(r, k, c)
  PROVE  LeasesOK' /\ RefCount'
<1> USE SlotFacts, SentinelAssumption
<1> DEFINE s == runners[k]
           i == slots[s]
<1>1. k \in Registered /\ s \in Slots /\ i \in Runners /\ i # NoRunner
  <2>1. k \in Registered
    BY DEF Acquire
  <2>2. s \in Slots
    BY <2>1 DEF LInv, IInv, TypeOK, Registered
  <2>3. i # NoRunner
    BY <2>1, <2>2 DEF LInv, IInv, PoolConsistent
  <2> QED BY <2>1, <2>2, <2>3 DEF LInv, IInv, TypeOK
<1>2. /\ req'[r].pc = "serving" /\ req'[r].key = k /\ req'[r].slot = s
      /\ req'[r].runner = i
      /\ \A q \in Requests : q # r => req'[q] = req[q]
      /\ UNCHANGED <<runners, slots>>
  BY DEF Acquire, LInv, IInv, TypeOK
<1>3. LeasesOK'
  BY <1>1, <1>2 DEF LeasesOK, Leased, LInv, Registered
<1>4. \A j : Holders(j)' = IF j = i THEN Holders(i) \cup {r} ELSE Holders(j)
  BY <1>2 DEF Holders
<1>5. references[s] = Cardinality(Holders(i)) /\ references[s] \in Nat
  BY <1>1, HoldersFinite DEF LInv, RefCount
<1>6. Cardinality(Holders(i) \cup {r}) = references[s] + 1
  <2>1. r \notin Holders(i)
    BY DEF Holders
  <2>2. IsFiniteSet(Holders(i))
    BY HoldersFinite
  <2> QED BY <1>5, <2>1, <2>2, FS_AddElement
<1>7. references[s] + 1 < RefMod
  <2>1. Holders(i) \cup {r} \subseteq Requests
    BY DEF Holders
  <2> QED BY <1>6, <2>1, FS_Subset, FS_CardinalityType, RefAssumption, <1>5 DEF FewRequests
<1>8. references'[s] = references[s] + 1
  BY <1>1, <1>5, <1>7, RefAssumption DEF Acquire, Inc, LInv, IInv, TypeOK
<1>9. \A u \in Slots : u # s => references'[u] = references[u] /\ slots[u] # i
  BY <1>1 DEF Acquire, LInv, IInv, TypeOK, SlotsApart
<1>10. RefCount'
  BY <1>1, <1>2, <1>4, <1>6, <1>8, <1>9 DEF RefCount, LInv
<1> QED BY <1>3, <1>10

\* A request that reserves a slot evicts only what is unused.
LEMMA ReserveLeases ==
  ASSUME FewRequests, LInv, NEW r \in Requests, req[r].pc # "serving",
         NEW k \in Keys, NEW c \in MaybeConfigs, Reserve(r, k, c)
  PROVE  LeasesOK' /\ RefCount'
<1>1. Evictees(k) \subseteq UnusedKeys
  BY DEF Evictees, UnusedOf
<1>2. PICK s : req' = [req EXCEPT ![r] = [pc |-> "starting", key |-> k, config |-> c,
                                         slot |-> s, runner |-> NoRunner]]
  BY DEF Reserve
<1>3. Quiet(Evictees(k))
  BY <1>2 DEF Reserve, Evict, Quiet, LInv, IInv, TypeOK
<1> QED BY <1>1, <1>3, QuietKeeps

LEMMA AttemptLeases ==
  ASSUME FewRequests, LInv, NEW r \in Requests, req[r].pc # "serving",
         NEW k \in Keys, NEW c \in MaybeConfigs, Attempt(r, k, c)
  PROVE  LeasesOK' /\ RefCount'
<1>1. CASE Refuse(r) \/ Wait(r, k, c)
  <2>1. UNCHANGED <<runners, slots, references>>
    BY <1>1 DEF Refuse, Wait, poolVars
  <2>2. PICK x : req' = [req EXCEPT ![r] = x] /\ x.pc # "serving"
    <3>1. NoRequest(AfterReturn).pc # "serving"
      BY ReturnAssumption DEF NoRequest
    <3>2. [NoRequest("waiting") EXCEPT !.key = k, !.config = c].pc # "serving"
      BY DEF NoRequest
    <3> QED BY <1>1, <3>1, <3>2 DEF Refuse, Wait, Return
  <2>4. req'[r].pc # "serving" /\ \A q \in Requests : q # r => req'[q] = req[q]
    BY <2>2 DEF LInv, IInv, TypeOK
  <2>3. Quiet({})
    BY <2>1, <2>4, NothingQuiet DEF LInv, IInv
  <2> QED BY <2>3, QuietKeeps
<1> QED BY <1>1, AcquireLeases, ReserveLeases DEF Attempt

\* The steps between a reservation and its end, and those of a waiting request.
LEMMA LoadingLeases ==
  ASSUME FewRequests, LInv, NEW r \in Requests,
         \/ Wake(r) \/ Cancel(r) \/ StartFails(r) \/ Healthy(r) \/ WaitFails(r) \/ Unreserve(r)
         \/ \E i \in Runners : StartRunner(r, i)
  PROVE  LeasesOK' /\ RefCount'
<1>1. Quiet({})
  <2>1. UNCHANGED <<runners, slots, references>>
    BY DEF Wake, Cancel, StartFails, Healthy, WaitFails, Unreserve, StartRunner, poolVars
  <2>2. req[r].pc # "serving"
    BY DEF Wake, Cancel, StartFails, Healthy, WaitFails, Unreserve, StartRunner
  <2>3. PICK x : req' = [req EXCEPT ![r] = x] /\ x.pc # "serving"
    <3>1. CASE Cancel(r) \/ Unreserve(r)
      BY <3>1, ReturnAssumption DEF Cancel, Unreserve, Return, NoRequest
    <3>2. CASE Wake(r) \/ StartFails(r) \/ Healthy(r) \/ WaitFails(r)
      BY <3>2 DEF Wake, StartFails, Healthy, WaitFails, LInv, IInv, TypeOK, RequestStates
    <3>3. ASSUME NEW i \in Runners, StartRunner(r, i)
          PROVE  \E x : req' = [req EXCEPT ![r] = x] /\ x.pc # "serving"
      <4>1. [req[r] EXCEPT !.pc = "probing", !.runner = i].pc # "serving"
        BY DEF LInv, IInv, TypeOK, RequestStates
      <4> QED BY <3>3, <4>1 DEF StartRunner
    <3> QED BY <3>1, <3>2, <3>3
  <2>4. req'[r].pc # "serving" /\ \A q \in Requests : q # r => req'[q] = req[q]
    BY <2>3 DEF LInv, IInv, TypeOK
  <2> QED BY <2>1, <2>2, <2>4, NothingQuiet DEF LInv, IInv
<1> QED BY <1>1, QuietKeeps

\* The request that loaded a runner is its only holder.
LEMMA RegisterLeases ==
  ASSUME FewRequests, LInv, NEW r \in Requests, Register(r)
  PROVE  LeasesOK' /\ RefCount'
<1> USE SlotFacts, SentinelAssumption
<1>1. PICK s \in Slots, k \in Keys, i \in Runners :
        /\ req[r].slot = s /\ req[r].key = k /\ req[r].runner = i
        /\ loading[s] = k
        /\ \A u \in Slots : slots[u] # i
  BY DEF LInv, IInv, RequestsOK, RequestOK, Register, LoadingPcs, Loads
<1>2. slots[s] = NoRunner /\ runners[k] = NoSlot
  <2>1. s \in LoadingSlots
    BY <1>1 DEF LoadingSlots
  <2>2. slots[s] = NoRunner /\ loading[s] \notin Registered
    BY <2>1 DEF LInv, IInv, PoolConsistent
  <2> QED BY <1>1, <2>2 DEF Registered
<1>3. /\ \A j \in Keys : runners'[j] = IF j = k THEN s ELSE runners[j]
      /\ \A u \in Slots : slots'[u] = IF u = s THEN i ELSE slots[u]
      /\ \A u \in Slots : references'[u] = IF u = s THEN 1 ELSE references[u]
      /\ \A q \in Requests : q # r => req'[q] = req[q]
      /\ req[r].pc # "serving"
      /\ req'[r].pc = "serving" /\ req'[r].key = k
      /\ req'[r].slot = s /\ req'[r].runner = i
  BY <1>1 DEF LInv, IInv, TypeOK, Register, RequestStates
<1>4. \A q \in Requests : req[q].pc = "serving" =>
        /\ q # r /\ req[q].key \in Keys /\ req[q].key # k
        /\ req[q].slot \in Slots /\ req[q].slot # s /\ req[q].runner # i
  <2> SUFFICES ASSUME NEW q \in Requests, req[q].pc = "serving"
               PROVE  /\ q # r /\ req[q].key \in Keys /\ req[q].key # k
                      /\ req[q].slot \in Slots /\ req[q].slot # s /\ req[q].runner # i
    OBVIOUS
  <2>1. Leased(q)
    BY DEF LInv, LeasesOK
  <2>2. req[q].key \in Keys /\ req[q].key # k /\ req[q].slot \in Slots
    BY <1>2, <2>1 DEF Leased, Registered, LInv, IInv, TypeOK
  <2>3. q # r
    BY <1>3
  <2>4. req[q].slot # s
    BY <1>2, <2>1 DEF Leased
  <2>5. req[q].runner # i
    BY <1>1, <2>1, <2>2 DEF Leased
  <2> QED BY <2>2, <2>3, <2>4, <2>5
<1>5. LeasesOK'
  <2> SUFFICES ASSUME NEW q \in Requests, req'[q].pc = "serving" PROVE Leased(q)'
    BY DEF LeasesOK
  <2>1. CASE q = r
    BY <1>1, <1>3, <2>1 DEF Leased, Registered
  <2>2. CASE q # r
    <3>1. req'[q] = req[q] /\ req[q].pc = "serving" /\ Leased(q)
      BY <1>3, <2>2 DEF LInv, LeasesOK
    <3>2. /\ runners'[req[q].key] = runners[req[q].key]
          /\ slots'[req[q].slot] = slots[req[q].slot]
      BY <1>3, <1>4, <3>1
    <3> QED BY <3>1, <3>2 DEF Leased, Registered
  <2> QED BY <2>1, <2>2
<1>6. Holders(i)' = {r}
  BY <1>3, <1>4 DEF Holders
<1>7. \A j : j # i => Holders(j)' = Holders(j)
  BY <1>3 DEF Holders
<1>8. RefCount'
  <2> SUFFICES ASSUME NEW u \in Slots, slots'[u] # NoRunner
               PROVE  (references[u] = Cardinality(Holders(slots[u])))'
    BY DEF RefCount
  <2>1. CASE u = s
    BY <1>3, <1>6, <2>1, FS_Singleton, SMTT(30)
  <2>2. CASE u # s
    BY <1>1, <1>3, <1>7, <2>2 DEF LInv, RefCount
  <2> QED BY <2>1, <2>2
<1> QED BY <1>5, <1>8

\* Without drafts release charges the slot of the request's own runner.
LEMMA ReleaseSlot ==
  ASSUME NoDrafts, FewRequests, LInv, NEW r \in Requests, req[r].pc = "serving"
  PROVE  /\ ReleaseSlots(req[r].key) = {req[r].slot}
         /\ \A j \in Registered : ConfigKey(j) = ConfigKey(req[r].key) => j = req[r].key
<1> DEFINE k == req[r].key
<1>1. k \in Registered /\ k \in Keys /\ req[r].slot = runners[k]
  BY DEF LInv, LeasesOK, Leased, Registered
<1>2. \A j \in Keys : ConfigKey(j) = ConfigKey(k) => j = k
  BY <1>1 DEF NoDrafts, Keys, ConfigKey
<1>3. {j \in Registered : ConfigKey(j) = ConfigKey(k)} = {k}
  BY <1>1, <1>2 DEF Registered
<1> QED BY <1>1, <1>3 DEF ReleaseSlots, SlotsOf, Registered

\* A request that is done gives back one lease; the last one may take the runner
\* with it.
LEMMA ReleaseLeases ==
  ASSUME NoDrafts, FewRequests, LInv, NEW r \in Requests, Release(r)
  PROVE  LeasesOK' /\ RefCount'
<1> USE SlotFacts, SentinelAssumption
<1> DEFINE k == req[r].key
           s == req[r].slot
           i == req[r].runner
           K == {j \in Registered : /\ references'[runners[j]] = 0
                                    /\ ConfigKey(j) = ConfigKey(k)}
<1>1. /\ req[r].pc = "serving" /\ k \in Registered /\ k \in Keys /\ s \in Slots
      /\ s = runners[k] /\ i \in Runners /\ slots[s] = i /\ i # NoRunner
  BY DEF Release, LInv, LeasesOK, Leased, IInv, TypeOK, Registered
<1>2. /\ references' = [references EXCEPT ![s] = Dec(@)]
      /\ \/ Evict(K) /\ references'[s] = 0
         \/ UNCHANGED <<runners, slots>>
      /\ req' = [req EXCEPT ![r] = NoRequest(AfterReturn)]
  <2>1. PICK u \in ReleaseSlots(k) :
          /\ references' = [references EXCEPT ![u] = Dec(@)]
          /\ \/ Evict(K) /\ references'[u] = 0
             \/ UNCHANGED <<runners, slots>>
    BY DEF Release
  <2>2. u = s
    BY <1>1, <2>1, ReleaseSlot
  <2> QED BY <2>1, <2>2 DEF Release
<1>3. K = {} \/ K = {k}
  BY <1>1, ReleaseSlot
<1>4. req'[r].pc # "serving" /\ \A q \in Requests : q # r => req'[q] = req[q]
  BY <1>2, ReturnAssumption DEF NoRequest, LInv, IInv, TypeOK
<1>5. \A j : Holders(j)' = IF j = i THEN Holders(i) \ {r} ELSE Holders(j)
  BY <1>1, <1>4 DEF Holders
<1>6. references[s] = Cardinality(Holders(i)) /\ r \in Holders(i)
  BY <1>1 DEF LInv, RefCount, Holders
<1>7. references'[s] = Cardinality(Holders(i) \ {r})
  <2>1. references[s] \in Nat /\ references[s] # 0
    BY <1>6, HoldersFinite
  <2>2. references'[s] = references[s] - 1
    BY <1>1, <1>2, <2>1 DEF Dec, LInv, IInv, TypeOK
  <2>3. IsFiniteSet(Holders(i))
    BY HoldersFinite
  <2> QED BY <1>6, <2>2, <2>3, FS_RemoveElement, ZenonT(60)
<1>8. \A u \in Slots : u # s => references'[u] = references[u] /\ slots[u] # i
  BY <1>1, <1>2 DEF LInv, IInv, TypeOK, SlotsApart
<1>9. \A u \in Slots : slots'[u] # NoRunner => slots'[u] = slots[u]
  <2> HIDE DEF K
  <2> QED BY <1>2 DEF Evict
<1>10. RefCount'
  BY <1>1, <1>5, <1>7, <1>8, <1>9 DEF RefCount, LInv
<1>11. LeasesOK'
  <2> SUFFICES ASSUME NEW q \in Requests, req'[q].pc = "serving" PROVE Leased(q)'
    BY DEF LeasesOK
  <2>1. q # r /\ req'[q] = req[q] /\ req[q].pc = "serving" /\ Leased(q)
    BY <1>4 DEF LInv, LeasesOK
  <2>2. CASE UNCHANGED <<runners, slots>>
    BY <2>1, <2>2 DEF Leased, Registered
  <2>3. CASE Evict(K) /\ references'[s] = 0
    <3>1. Holders(i) \ {r} = {}
      <4>1. IsFiniteSet(Holders(i) \ {r})
        BY HoldersFinite, FS_RemoveElement
      <4> QED BY <1>7, <2>3, <4>1, FS_EmptySet
    <3>2. req[q].runner # i
      BY <2>1, <3>1 DEF Holders
    <3>3. req[q].key \in Keys /\ req[q].key # k /\ req[q].slot # s /\ req[q].slot \in Slots
      BY <1>1, <2>1, <3>2 DEF Leased, Registered, LInv, IInv, TypeOK
    <3>4. req[q].key \notin K /\ req[q].slot \notin SlotsOf(K)
      BY <1>1, <1>3, <3>3 DEF SlotsOf
    <3> HIDE DEF K
    <3> QED BY <2>1, <2>3, <3>3, <3>4 DEF Evict, Leased, Registered, LInv, IInv, TypeOK
  <2> QED BY <1>2, <2>2, <2>3
<1> QED BY <1>10, <1>11

(***************************************************************************)
(* The other steps, and the invariant.                                     *)
(***************************************************************************)
LEMMA ManagedLeases ==
  ASSUME FewRequests, LInv,
         \/ \E t \in Targets, c \in Configs : SetConfig(t, c)
         \/ UnloadAll
         \/ \E b \in Backends \cup {AnyBackend}, M \in SUBSET Models : UnloadModels(b, M)
         \/ \E b \in Backends : UnloadBackend(b)
         \/ LoopStep
  PROVE  LeasesOK' /\ RefCount'
<1>1. \/ \E K \in SUBSET UnusedKeys : Evict(K) /\ UNCHANGED <<references, req>>
      \/ UNCHANGED <<runners, slots, references, req>>
  <2>1. \A t \in Targets, c \in Configs :
          SetConfig(t, c) => \E K \in SUBSET UnusedKeys : Evict(K) /\ UNCHANGED <<references, req>>
    <3> SUFFICES ASSUME NEW t \in Targets, NEW c \in Configs, SetConfig(t, c)
                 PROVE  \E K \in SUBSET UnusedKeys : Evict(K) /\ UNCHANGED <<references, req>>
      OBVIOUS
    <3> DEFINE j == RunnerKey(t, DraftOf(c))
               K == IF j \in Registered THEN UnusedOf(t.backend, {t.model}, {t.mode}) ELSE {}
    <3>1. K \subseteq UnusedKeys
      BY DEF UnusedOf
    <3>2. Evict(K) /\ UNCHANGED <<references, req>>
      BY DEF SetConfig
    <3> QED BY <3>1, <3>2
  <2>2. \A b, M : UnloadModels(b, M) =>
          \E K \in SUBSET UnusedKeys : Evict(K) /\ UNCHANGED <<references, req>>
    BY DEF UnloadModels, UnusedOf
  <2>3. \A b : UnloadBackend(b) =>
          \E K \in SUBSET UnusedKeys : Evict(K) /\ UNCHANGED <<references, req>>
    BY DEF UnloadBackend
  <2>4. UnloadAll \/ Drain \/ IdleTimer =>
          \E K \in SUBSET UnusedKeys : Evict(K) /\ UNCHANGED <<references, req>>
    <3>1. UnloadAll \/ Drain => Evict(UnusedKeys) /\ UNCHANGED <<references, req>>
      BY DEF UnloadAll, Drain
    <3>2. IdleTimer => /\ Evict({k \in UnusedKeys : Expired(k) \/ Defunct(k)})
                       /\ UNCHANGED <<references, req>>
      BY DEF IdleTimer
    <3> QED BY <3>1, <3>2
  <2>5. IdleCheck \/ DrainWake => UNCHANGED <<runners, slots, references, req>>
    BY DEF IdleCheck, DrainWake, poolVars
  <2> QED BY <2>1, <2>2, <2>3, <2>4, <2>5 DEF LoopStep
<1>2. \E K \in SUBSET UnusedKeys : Quiet(K)
  BY <1>1, EvictQuiet, NothingQuiet DEF LInv, IInv
<1> QED BY <1>2, QuietKeeps

LEMMA LInvNext ==
  ASSUME NoDrafts, FewRequests, LInv, [Next]_vars
  PROVE  LInv'
<1>1. IInv'
  BY NextOK DEF LInv
<1>2. ASSUME NEW r \in Requests, NEW t \in Targets, Load(r, t) PROVE LeasesOK' /\ RefCount'
  BY <1>2, CallType, AttemptLeases DEF LInv, IInv, Load
<1>3. ASSUME NEW r \in Requests, Retry(r) PROVE LeasesOK' /\ RefCount'
  <2>1. req[r].key \in Keys /\ req[r].config \in MaybeConfigs /\ req[r].pc # "serving"
    BY <1>3 DEF LInv, IInv, TypeOK, RequestsOK, RequestOK, Retry, RequestStates
  <2> QED BY <1>3, <2>1, AttemptLeases DEF Retry
<1>4. ASSUME NEW r \in Requests, Cancel(r) \/ RequestStep(r) PROVE LeasesOK' /\ RefCount'
  BY <1>3, <1>4, LoadingLeases, RegisterLeases, ReleaseLeases DEF RequestStep
<1>5. CASE \/ LoopStart \/ LoopAbort \/ LoopCancel \/ Tick \/ UNCHANGED vars
           \/ \E i \in Runners : Crash(i)
  <2>1. UNCHANGED <<runners, slots, references, req>>
    BY <1>5 DEF LoopStart, LoopAbort, LoopCancel, Tick, Crash, vars, poolVars
  <2>2. Quiet({})
    BY <2>1, NothingQuiet DEF LInv, IInv
  <2> QED BY <1>1, <2>2, QuietKeeps DEF LInv
<1> QED BY <1>1, <1>2, <1>4, <1>5, ManagedLeases DEF Next, LInv

LEMMA LInvInit == FewRequests /\ Init => LInv
<1>1. Init => LeasesOK /\ RefCount
  BY DEF Init, LeasesOK, RefCount, NoRequest
<1> QED BY <1>1, InitOK DEF LInv

LEMMA LInvAlways == ASSUME NoDrafts, FewRequests PROVE Spec => []LInv
<1>1. LInv /\ [Next]_vars => LInv'
  BY LInvNext
<1> QED BY <1>1, LInvInit, PTL DEF Spec

\* Without drafts the reference count of a slot is the number of requests using its
\* runner, for any number of requests that the count can hold.
THEOREM CountsTrue == ASSUME NoDrafts, FewRequests PROVE Spec => []RefCount
<1>1. LInv => RefCount
  BY DEF LInv
<1> QED BY <1>1, LInvAlways, PTL

\* Without drafts no runner is evicted while a request uses it.
THEOREM LeasesKept == ASSUME NoDrafts, FewRequests PROVE Spec => []LeaseKept
<1>1. LInv => LeaseKept
  BY DEF LInv, LeasesOK, Leased, LeaseKept
<1> QED BY <1>1, LInvAlways, PTL

\* Without drafts whatever answers on the socket of a leased slot serves the key that
\* was asked for.
THEOREM AnswersRight == ASSUME NoDrafts, FewRequests PROVE Spec => []RightModelAnswers
<1>1. LInv => RightModelAnswers
  <2> SUFFICES ASSUME LInv, NEW r \in Requests, NEW i \in Live,
                      req[r].pc = "serving", proc[i].slot = req[r].slot
               PROVE  proc[i].key = req[r].key
    BY DEF RightModelAnswers
  <2> USE SlotFacts, SentinelAssumption
  <2>1. /\ i \in Runners /\ proc[i] # NoProc
        /\ proc[i].slot \in Slots /\ proc[i].key \in Keys
        /\ slots[proc[i].slot] # NoRunner /\ Leased(r)
    BY DEF Live, LInv, LeasesOK, Leased, IInv, TypeOK, Processes
  <2>2. CASE slots[proc[i].slot] = i /\ runners[proc[i].key] = proc[i].slot
    BY <2>1, <2>2 DEF Leased, Registered, LInv, IInv, PoolConsistent
  <2>3. CASE \E q \in Requests : Loads(q) /\ req[q].slot = proc[i].slot
    <3>1. proc[i].slot \in LoadingSlots
      BY <2>1, <2>3 DEF LInv, IInv, RequestsOK, RequestOK, Loads, LoadingPcs, LoadingSlots
    <3> QED BY <2>1, <3>1 DEF LInv, IInv, PoolConsistent
  <2> QED BY <2>1, <2>2, <2>3 DEF LInv, IInv, ProcsOK
<1> QED BY <1>1, LInvAlways, PTL

(***************************************************************************)
(* Signals.  Waiting for a change is safe because every step that could    *)
(* end a wait sends tokens, and the others are calm: they take unused keys *)
(* out of the pool, and only when nobody waits for room.                   *)
(***************************************************************************)
Calm(K) ==
  /\ \A k \in Keys : runners'[k] = IF k \in K THEN NoSlot ELSE runners[k]
  /\ \A s \in Slots : slots'[s] = IF s \in SlotsOf(K) THEN NoRunner ELSE slots[s]
  /\ \A s \in Slots : loading[s] # NoKey => loading'[s] = loading[s]
  /\ Full /\ UnusedKeys = {} => \A s \in Slots : loading'[s] = loading[s]
  /\ \A s \in Slots : references'[s] = 0 => references[s] = 0
  /\ \A s \in Slots : slots[s] # NoRunner => proc'[slots[s]] \in {proc[slots[s]], NoProc}

\* A calm step ends no wait and keeps runners in use.
LEMMA CalmWaits ==
  ASSUME IInv, NEW K \in SUBSET UnusedKeys, Calm(K)
  PROVE  /\ \A k \in Keys : MustWait(k) => MustWait(k)'
         /\ Registered \ UnusedKeys \subseteq (Registered \ UnusedKeys)'
<1> USE SlotFacts, SentinelAssumption
<1>1. \A k \in Registered \ UnusedKeys :
        /\ k \in Keys /\ runners[k] \in Slots
        /\ slots[runners[k]] # NoRunner /\ runners[k] \notin SlotsOf(K)
  <2> SUFFICES ASSUME NEW k \in Registered \ UnusedKeys
               PROVE  /\ k \in Keys /\ runners[k] \in Slots
                      /\ slots[runners[k]] # NoRunner /\ runners[k] \notin SlotsOf(K)
    OBVIOUS
  <2>1. k \in Keys /\ runners[k] \in Slots
    BY DEF IInv, TypeOK, Registered
  <2>2. slots[runners[k]] # NoRunner
    BY <2>1 DEF IInv, PoolConsistent
  <2>3. \A j \in K : runners[j] # runners[k]
    BY DEF IInv, PoolConsistent, UnusedKeys
  <2> QED BY <2>1, <2>2, <2>3 DEF SlotsOf
<1>2. \A k \in Registered \ UnusedKeys :
        /\ runners'[k] = runners[k]
        /\ slots'[runners[k]] = slots[runners[k]]
        /\ references'[runners[k]] # 0
        /\ proc'[slots[runners[k]]] \in {proc[slots[runners[k]]], NoProc}
  BY <1>1 DEF Calm, UnusedKeys, Unused
<1>3. Registered \ UnusedKeys \subseteq (Registered \ UnusedKeys)'
  BY <1>1, <1>2 DEF Registered, UnusedKeys, Unused
<1>4. BeingLoaded \subseteq BeingLoaded'
  BY DEF BeingLoaded, Calm
<1>5. ASSUME NEW k \in Registered, Defunct(k), ~Unused(k)
      PROVE  k \in Registered' /\ Defunct(k)' /\ ~Unused(k)'
  BY <1>2, <1>3, <1>5 DEF Defunct, Unused, UnusedKeys
<1>6. ASSUME NEW k \in Keys, k \notin Registered, Full, UnusedKeys = {}
      PROVE  k \notin Registered' /\ Full' /\ UnusedKeys' = {}
  <2>1. K = {}
    BY <1>6
  <2>2. Registered' = Registered
    BY <2>1 DEF Calm, Registered
  <2>3. LoadingSlots' = LoadingSlots
    BY <1>6 DEF Calm, LoadingSlots
  <2>4. UnusedKeys' = {}
    BY <1>3, <1>6, <2>2 DEF UnusedKeys
  <2> QED BY <1>6, <2>2, <2>3, <2>4 DEF Full
<1>7. \A k \in Keys : MustWait(k) => MustWait(k)'
  BY <1>4, <1>5, <1>6 DEF MustWait
<1> QED BY <1>3, <1>7

LEMMA CalmKeeps ==
  ASSUME IInv, NoLostWakeup, NEW K \in SUBSET UnusedKeys, Calm(K),
         loadsEnabled => loadsEnabled',
         \A r \in Requests : req'[r].pc = "waiting" /\ r \notin poll' =>
           /\ req'[r].key \in Keys
           /\ \/ req[r].pc = "waiting" /\ r \notin poll /\ req'[r].key = req[r].key
              \/ loadsEnabled /\ MustWait(req'[r].key),
         loop' = "draining" /\ ~drainPoll' =>
           \/ loop = "draining" /\ ~drainPoll
           \/ Registered \ UnusedKeys # {}
  PROVE  NoLostWakeup'
<1>1. ASSUME NEW r \in Requests, req'[r].pc = "waiting", r \notin poll'
      PROVE  (loadsEnabled /\ MustWait(req[r].key))'
  <2> DEFINE k == req'[r].key
  <2>1. k \in Keys /\ loadsEnabled /\ MustWait(k)
    BY <1>1 DEF NoLostWakeup
  <2>2. \A j \in Keys : MustWait(j) => MustWait(j)'
    BY CalmWaits
  <2> QED BY <2>1, <2>2 DEF MustWait, BeingLoaded, Registered, Defunct, Unused, Full,
                            UnusedKeys, LoadingSlots
<1>2. (loop = "draining" /\ ~drainPoll => Registered \ UnusedKeys # {})'
  BY CalmWaits DEF NoLostWakeup
<1> QED BY <1>1, <1>2 DEF NoLostWakeup

\* A step that broadcasts leaves no waiter without a token.
LEMMA BroadcastWakes ==
  ASSUME Broadcast, loop' = loop,
         \A r \in Requests : req'[r].pc = "waiting" => req[r].pc = "waiting"
  PROVE  NoLostWakeup'
BY DEF Broadcast, NoLostWakeup, Waiting

\* A step that changes nothing of the pool but processes that stop.
LEMMA UnchangedCalm ==
  ASSUME IInv, UNCHANGED poolVars,
         \A s \in Slots : slots[s] # NoRunner => proc'[slots[s]] \in {proc[slots[s]], NoProc}
  PROVE  Calm({})
BY DEF poolVars, Calm, SlotsOf

LEMMA EvictCalm ==
  ASSUME IInv, NEW K \in SUBSET UnusedKeys, Evict(K), UNCHANGED <<loading, references>>
  PROVE  Calm(K)
<1>1. \A s \in Slots : slots[s] # NoRunner => slots[s] \in Runners
  BY DEF IInv, TypeOK
<1> QED BY <1>1 DEF Evict, Calm

\* One pass of load's loop.
LEMMA AttemptWakes ==
  ASSUME FewRequests, LInv, NoLostWakeup, NEW r \in Requests,
         req[r].pc \in {"idle", "woken"},
         NEW k \in Keys, NEW c \in MaybeConfigs, Attempt(r, k, c)
  PROVE  NoLostWakeup'
<1> USE SentinelAssumption DEF LInv
<1>0. \A q \in Requests : req[q].pc = "waiting" => req[q].key \in Keys
  BY DEF IInv, RequestsOK, RequestOK
<1>1. CASE Refuse(r)
  <2>1. Calm({})
    BY <1>1, UnchangedCalm DEF Refuse
  <2>2. \A q \in Requests : req'[q].pc = "waiting" /\ q \notin poll' =>
          q # r /\ req'[q] = req[q] /\ q \notin poll
    BY <1>1, ReturnAssumption DEF Refuse, Return, NoRequest, IInv, TypeOK
  <2> QED BY <1>0, <1>1, <2>1, <2>2, CalmKeeps DEF Refuse, poolVars, loopVars
<1>2. CASE Wait(r, k, c)
  <2>1. Calm({})
    BY <1>2, UnchangedCalm DEF Wait
  <2>2. \A q \in Requests : q # r => req'[q] = req[q]
    BY <1>2 DEF Wait, IInv, TypeOK
  <2>3. req'[r].key = k
    BY <1>2 DEF Wait, NoRequest, IInv, TypeOK
  <2>4. loadsEnabled /\ MustWait(k) /\ UNCHANGED <<loadsEnabled, loop, drainPoll, poll>>
    BY <1>2 DEF Wait, poolVars, loopVars
  <2> QED BY <1>0, <2>1, <2>2, <2>3, <2>4, CalmKeeps
<1>3. CASE Acquire(r, k, c)
  <2>1. references'[runners[k]] # 0
    <3>1. RefCount'
      BY <1>3, AcquireLeases
    <3>2. /\ runners[k] \in Slots /\ slots[runners[k]] # NoRunner
          /\ UNCHANGED slots
      <4>1. k \in Registered /\ UNCHANGED slots
        BY <1>3 DEF Acquire
      <4>2. runners[k] \in Slots
        BY <4>1 DEF IInv, TypeOK, Registered
      <4> QED BY <4>1, <4>2 DEF IInv, PoolConsistent
    <3>3. r \in Holders(slots[runners[k]])'
      BY <1>3, <3>2 DEF Acquire, IInv, TypeOK, Holders
    <3>4. Holders(slots[runners[k]])' \subseteq Requests
      BY DEF Holders
    <3>5. IsFiniteSet(Holders(slots[runners[k]])')
      BY <3>4, FS_Subset DEF FewRequests
    <3>6. Cardinality(Holders(slots[runners[k]])') # 0
      BY <3>3, <3>5, FS_EmptySet
    <3>7. (references[runners[k]] = Cardinality(Holders(slots[runners[k]])))'
      BY <1>3, <3>1, <3>2 DEF RefCount, Acquire
    <3>8. runners' = runners /\ slots' = slots
      BY <1>3 DEF Acquire
    <3> QED BY <3>6, <3>7, <3>8
  <2>2. Calm({})
    BY <1>3, <2>1 DEF Acquire, Calm, SlotsOf, IInv, TypeOK
  <2>3. \A q \in Requests : req'[q].pc = "waiting" /\ q \notin poll' =>
          q # r /\ req'[q] = req[q] /\ q \notin poll
    BY <1>3 DEF Acquire, IInv, TypeOK
  <2> QED BY <1>0, <1>3, <2>2, <2>3, CalmKeeps DEF Acquire, loopVars
<1>4. CASE Reserve(r, k, c)
  <2> DEFINE K == Evictees(k)
  <2>1. K \subseteq UnusedKeys /\ (Full => K # {}) /\ Evict(K)
    BY <1>4 DEF Reserve, Evictees, UnusedOf
  <2>2. PICK s \in FreeSlots \cup SlotsOf(K) :
          /\ loading' = [loading EXCEPT ![s] = k]
          /\ req' = [req EXCEPT ![r] = [pc |-> "starting", key |-> k, config |-> c,
                                        slot |-> s, runner |-> NoRunner]]
    BY <1>4 DEF Reserve
  <2>3. loading[s] = NoKey
    <3>1. CASE s \in FreeSlots
      BY <3>1 DEF FreeSlots
    <3>2. CASE s \in SlotsOf(K)
      <4>1. PICK j \in Registered : runners[j] = s /\ s \in Slots
        BY <2>1, <3>2 DEF SlotsOf, UnusedKeys, Registered, IInv, TypeOK
      <4>2. slots[s] # NoRunner
        BY <4>1 DEF IInv, PoolConsistent
      <4> QED BY <4>1, <4>2 DEF IInv, PoolConsistent, LoadingSlots
    <3> QED BY <3>1, <3>2
  <2>4. Calm(K)
    <3>1. \A u \in Slots : slots[u] # NoRunner => slots[u] \in Runners
      BY DEF IInv, TypeOK
    <3>2. \A u \in Slots : loading[u] # NoKey => loading'[u] = loading[u]
      BY <2>2, <2>3 DEF IInv, TypeOK
    <3>3. references' = references
      BY <1>4 DEF Reserve
    <3> HIDE DEF K
    <3> QED BY <2>1, <3>1, <3>2, <3>3 DEF Evict, Calm
  <2>5. \A q \in Requests : req'[q].pc = "waiting" /\ q \notin poll' =>
          q # r /\ req'[q] = req[q] /\ q \notin poll
    BY <1>4, <2>2 DEF Reserve, IInv, TypeOK
  <2> HIDE DEF K
  <2> QED BY <1>0, <1>4, <2>1, <2>4, <2>5, CalmKeeps DEF Reserve, loopVars
<1> QED BY <1>1, <1>2, <1>3, <1>4 DEF Attempt

\* The other steps of a request.
LEMMA RequestWakes ==
  ASSUME LInv, NoLostWakeup, NEW r \in Requests,
         \/ Wake(r) \/ Cancel(r) \/ StartFails(r) \/ Healthy(r) \/ WaitFails(r)
         \/ \E i \in Runners : StartRunner(r, i)
         \/ Unreserve(r) \/ Register(r) \/ Release(r)
  PROVE  NoLostWakeup'
<1> USE DEF LInv
<1>0. \A q \in Requests : req[q].pc = "waiting" => req[q].key \in Keys
  BY DEF IInv, RequestsOK, RequestOK
<1>1. \A q \in Requests : req'[q].pc = "waiting" =>
        req[q].pc = "waiting" /\ req'[q] = req[q]
  <2>1. PICK x : req' = [req EXCEPT ![r] = x] /\ x.pc # "waiting"
    <3>1. CASE Cancel(r) \/ Unreserve(r) \/ Release(r)
      BY <3>1, ReturnAssumption DEF Cancel, Unreserve, Release, Return, NoRequest
    <3>2. CASE Wake(r) \/ StartFails(r) \/ Healthy(r) \/ WaitFails(r) \/ Register(r)
      BY <3>2 DEF Wake, StartFails, Healthy, WaitFails, Register, IInv, TypeOK, RequestStates
    <3>3. ASSUME NEW i \in Runners, StartRunner(r, i)
          PROVE  \E x : req' = [req EXCEPT ![r] = x] /\ x.pc # "waiting"
      <4>1. [req[r] EXCEPT !.pc = "probing", !.runner = i].pc # "waiting"
        BY DEF IInv, TypeOK, RequestStates
      <4> QED BY <3>3, <4>1 DEF StartRunner
    <3> QED BY <3>1, <3>2, <3>3
  <2> QED BY <2>1 DEF IInv, TypeOK
<1>2. CASE Unreserve(r) \/ Register(r) \/ Release(r)
  <2>1. Broadcast /\ loop' = loop
    BY <1>2 DEF Unreserve, Register, Release
  <2> QED BY <1>1, <2>1, BroadcastWakes
<1>3. CASE \/ Wake(r) \/ Cancel(r) \/ StartFails(r) \/ Healthy(r) \/ WaitFails(r)
           \/ \E i \in Runners : StartRunner(r, i)
  <2>1. \A s \in Slots : slots[s] # NoRunner => proc'[slots[s]] \in {proc[slots[s]], NoProc}
    <3>1. ASSUME NEW i \in Runners, StartRunner(r, i)
          PROVE  \A s \in Slots : slots[s] \in Runners => proc'[slots[s]] = proc[slots[s]]
      <4>1. \A s \in Slots : slots[s] # i
        BY <3>1 DEF StartRunner, RunnerInUse
      <4> QED BY <3>1, <4>1 DEF StartRunner, IInv, TypeOK
    <3>2. WaitFails(r) => \A i \in Runners : proc'[i] \in {proc[i], NoProc}
      BY DEF WaitFails, IInv, TypeOK
    <3>3. \A s \in Slots : slots[s] # NoRunner => slots[s] \in Runners
      BY DEF IInv, TypeOK
    <3>4. CASE Wake(r) \/ Cancel(r) \/ StartFails(r) \/ Healthy(r)
      BY <3>4 DEF Wake, Cancel, StartFails, Healthy
    <3> QED BY <1>3, <3>1, <3>2, <3>3, <3>4
  <2>2. UNCHANGED <<poolVars, loopVars>>
    BY <1>3 DEF Wake, Cancel, StartFails, Healthy, WaitFails, StartRunner
  <2>3. Calm({})
    BY <2>1, <2>2, UnchangedCalm
  <2>4. UNCHANGED <<loadsEnabled, loop, drainPoll>>
    BY <2>2 DEF poolVars, loopVars
  <2>5. \A q \in Requests : req'[q].pc = "waiting" /\ q \notin poll' => q \notin poll
    <3>1. poll' = poll \/ (poll' = poll \ {r} /\ req'[r].pc # "waiting")
      <4>1. CASE Wake(r)
        BY <4>1 DEF Wake, IInv, TypeOK, RequestStates
      <4>2. CASE Cancel(r)
        BY <4>2, ReturnAssumption DEF Cancel, Return, NoRequest, IInv, TypeOK
      <4>3. CASE ~Wake(r) /\ ~Cancel(r)
        BY <1>3, <4>3 DEF StartFails, Healthy, WaitFails, StartRunner
      <4> QED BY <4>1, <4>2, <4>3
    <3> QED BY <3>1
  <2> QED BY <1>0, <1>1, <2>3, <2>4, <2>5, CalmKeeps
<1> QED BY <1>2, <1>3

\* Handlers, the loop and the environment.
LEMMA OthersWake ==
  ASSUME LInv, NoLostWakeup,
         \/ \E t \in Targets, c \in Configs : SetConfig(t, c)
         \/ UnloadAll
         \/ \E b \in Backends \cup {AnyBackend}, M \in SUBSET Models : UnloadModels(b, M)
         \/ \E b \in Backends : UnloadBackend(b)
         \/ LoopStart \/ LoopAbort \/ LoopCancel \/ LoopStep
         \/ \E i \in Runners : Crash(i)
         \/ Tick \/ UNCHANGED vars
  PROVE  NoLostWakeup'
<1> USE DEF LInv
<1>0. \A q \in Requests : req[q].pc = "waiting" => req[q].key \in Keys
  BY DEF IInv, RequestsOK, RequestOK
<1>1. CASE LoopCancel
  BY <1>1 DEF LoopCancel, NoLostWakeup, Waiting
<1>2. ASSUME NEW K \in SUBSET UnusedKeys, Evict(K),
             UNCHANGED <<loadsEnabled, loading, references, req, poll>>,
             \/ UNCHANGED <<loop, drainPoll>>
             \/ loop' = "draining" => Registered \ UnusedKeys # {}
      PROVE  NoLostWakeup'
  BY <1>0, <1>2, EvictCalm, CalmKeeps
<1>3. CASE \E t \in Targets, c \in Configs : SetConfig(t, c)
  <2> PICK t \in Targets, c \in Configs : SetConfig(t, c)
    BY <1>3
  <2> DEFINE j == RunnerKey(t, DraftOf(c))
             K == IF j \in Registered THEN UnusedOf(t.backend, {t.model}, {t.mode}) ELSE {}
  <2>1. K \subseteq UnusedKeys
    BY DEF UnusedOf
  <2>2. Evict(K) /\ UNCHANGED <<loadsEnabled, loading, references, loopVars, req, poll>>
    BY DEF SetConfig
  <2> HIDE DEF K
  <2> QED BY <1>2, <2>1, <2>2 DEF loopVars
<1>4. CASE UnloadAll
  BY <1>2, <1>4 DEF UnloadAll, loopVars
<1>5. ASSUME NEW b, NEW M, UnloadModels(b, M) PROVE NoLostWakeup'
  <2>1. UnusedOf(b, M, BackendModes) \subseteq UnusedKeys
    BY DEF UnusedOf
  <2> QED BY <1>2, <1>5, <2>1 DEF UnloadModels, loopVars
<1>6. ASSUME NEW b, UnloadBackend(b) PROVE NoLostWakeup'
  BY <1>2, <1>6 DEF UnloadBackend, loopVars
<1>7. CASE IdleTimer
  BY <1>2, <1>7 DEF IdleTimer
<1>8. CASE Drain
  <2>1. UnusedKeys \subseteq Registered
    BY DEF UnusedKeys
  <2>2. loop' = "draining" => Registered \ UnusedKeys # {}
    BY <1>8, <2>1 DEF Drain
  <2> QED BY <1>2, <1>8, <2>2 DEF Drain
<1>9. CASE LoopStart \/ LoopAbort \/ IdleCheck \/ DrainWake \/ Tick \/ UNCHANGED vars
           \/ \E i \in Runners : Crash(i)
  <2>1. /\ UNCHANGED <<runners, slots, loading, references, req, poll>>
        /\ loadsEnabled => loadsEnabled'
    BY <1>9 DEF LoopStart, LoopAbort, IdleCheck, DrainWake, Tick, Crash, vars, poolVars
  <2>2. loop' = "draining" /\ ~drainPoll' => loop = "draining" /\ ~drainPoll
    BY <1>9 DEF LoopStart, LoopAbort, IdleCheck, DrainWake, Tick, Crash, vars, loopVars
  <2>3. \A i \in Runners : proc'[i] \in {proc[i], NoProc}
    BY <1>9 DEF LoopStart, LoopAbort, IdleCheck, DrainWake, Tick, Crash, vars, IInv, TypeOK
  <2>4. \A s \in Slots : slots[s] # NoRunner => slots[s] \in Runners
    BY DEF IInv, TypeOK
  <2>5. Calm({})
    BY <2>1, <2>3, <2>4 DEF Calm, SlotsOf
  <2> QED BY <1>0, <2>1, <2>2, <2>5, CalmKeeps
<1> QED BY <1>1, <1>3, <1>4, <1>5, <1>6, <1>7, <1>8, <1>9 DEF LoopStep

LEMMA WakesNext ==
  ASSUME NoDrafts, FewRequests, LInv, NoLostWakeup, [Next]_vars
  PROVE  NoLostWakeup'
<1>1. ASSUME NEW r \in Requests, NEW t \in Targets, Load(r, t) PROVE NoLostWakeup'
  BY <1>1, CallType, AttemptWakes DEF LInv, IInv, Load
<1>2. ASSUME NEW r \in Requests, Retry(r) PROVE NoLostWakeup'
  <2>1. req[r].key \in Keys /\ req[r].config \in MaybeConfigs
    BY <1>2 DEF LInv, IInv, TypeOK, RequestsOK, RequestOK, Retry, RequestStates
  <2> QED BY <1>2, <2>1, AttemptWakes DEF Retry
<1>3. ASSUME NEW r \in Requests, Cancel(r) \/ RequestStep(r) PROVE NoLostWakeup'
  BY <1>2, <1>3, RequestWakes DEF RequestStep
<1> QED BY <1>1, <1>3, OthersWake DEF Next

\* Without drafts no wakeup is lost, neither that of a request that waits for a change
\* nor that of the drain at shutdown.
THEOREM WakeupsKept == ASSUME NoDrafts, FewRequests PROVE Spec => []NoLostWakeup
<1>1. Init => NoLostWakeup
  BY DEF Init, NoLostWakeup, NoRequest
<1>2. LInv /\ NoLostWakeup /\ [Next]_vars => NoLostWakeup'
  BY WakesNext
<1> QED BY <1>1, <1>2, LInvAlways, PTL DEF Spec

(***************************************************************************)
(* The idle timer.  Only a release makes a runner unused that stays, and   *)
(* it asks for a check; every change of a keep-alive evicts the unused     *)
(* runners it governs, or is refused.                                      *)
(***************************************************************************)
\* Before the loop starts nobody has been let in.
ClosedBefore ==
  loop = "starting" =>
    ~loadsEnabled /\ Registered = {} /\ \A r \in Requests : req[r].pc \in {"idle", "done"}

\* A step that makes no runner unused and leaves the unused ones and the timer alone.
Untouched ==
  /\ loop' = "running" => loop = "running"
  /\ UNCHANGED <<idleCheck, timer>>
  /\ \A k \in UnusedKeys' : /\ k \in UnusedKeys
                            /\ runners'[k] = runners[k]
                            /\ timestamps'[runners[k]] = timestamps[runners[k]]
                            /\ IdleTimeoutFor(k)' = IdleTimeoutFor(k)

LEMMA UntouchedKeeps ==
  ASSUME IdleWatched, Untouched PROVE IdleWatched'
<1> SUFFICES ASSUME loop' = "running", NEW k \in UnusedKeys', IdleTimeoutFor(k)' >= 0, ~idleCheck'
             PROVE  /\ timer' # Off
                    /\ \/ timer' <= IdleTimeoutFor(k)' + 1 - timestamps'[runners'[k]]
                       \/ timer' = 0
  BY DEF IdleWatched
<1>1. /\ loop = "running" /\ k \in UnusedKeys /\ ~idleCheck /\ timer' = timer
      /\ runners'[k] = runners[k] /\ timestamps'[runners[k]] = timestamps[runners[k]]
      /\ IdleTimeoutFor(k)' = IdleTimeoutFor(k)
  BY DEF Untouched
<1> QED BY <1>1 DEF IdleWatched

\* Eviction leaves the other unused runners alone.
LEMMA EvictUntouched ==
  ASSUME IInv, NEW K \in SUBSET Registered, Evict(K), UNCHANGED <<references>>
  PROVE  \A k \in UnusedKeys' : /\ k \in UnusedKeys \ K
                                /\ runners'[k] = runners[k]
                                /\ timestamps'[runners[k]] = timestamps[runners[k]]
<1> USE SlotFacts
<1> SUFFICES ASSUME NEW k \in UnusedKeys'
             PROVE  /\ k \in UnusedKeys \ K
                    /\ runners'[k] = runners[k]
                    /\ timestamps'[runners[k]] = timestamps[runners[k]]
  OBVIOUS
<1>1. k \in Keys /\ runners'[k] # NoSlot /\ references'[runners'[k]] = 0
  BY DEF UnusedKeys, Registered, Unused
<1>2. k \notin K /\ runners'[k] = runners[k]
  BY <1>1 DEF Evict
<1>3. k \in UnusedKeys /\ runners[k] \in Slots
  BY <1>1, <1>2 DEF UnusedKeys, Registered, Unused, IInv, TypeOK
<1>4. runners[k] \notin SlotsOf(K)
  BY <1>2, <1>3 DEF SlotsOf, IInv, PoolConsistent, UnusedKeys
<1> QED BY <1>2, <1>3, <1>4 DEF Evict

\* A step that only evicts.
LEMMA EvictWatched ==
  ASSUME IInv, IdleWatched, NEW K \in SUBSET Registered, Evict(K),
         UNCHANGED <<references, idleCheck, timer>>, loop' = "running" => loop = "running",
         \A k \in UnusedKeys \ K : runnerConfigs'[ConfigKey(k)] = runnerConfigs[ConfigKey(k)]
  PROVE  IdleWatched'
<1>1. \A k \in UnusedKeys' : /\ k \in UnusedKeys \ K
                             /\ runners'[k] = runners[k]
                             /\ timestamps'[runners[k]] = timestamps[runners[k]]
  BY EvictUntouched
<1>2. \A k \in UnusedKeys' : IdleTimeoutFor(k)' = IdleTimeoutFor(k)
  BY <1>1 DEF IdleTimeoutFor
<1> QED BY <1>1, <1>2, UntouchedKeeps DEF Untouched

\* A step that leaves the tables alone.
LEMMA TablesWatched ==
  ASSUME IdleWatched,
         UNCHANGED <<runners, references, timestamps, runnerConfigs, idleCheck, timer>>,
         loop' = "running" => loop = "running"
  PROVE  IdleWatched'
<1>1. UnusedKeys' = UnusedKeys
  BY DEF UnusedKeys, Registered, Unused
<1>2. \A k : IdleTimeoutFor(k)' = IdleTimeoutFor(k)
  BY DEF IdleTimeoutFor
<1> QED BY <1>1, <1>2, UntouchedKeeps DEF Untouched

\* The runner that is leased is no longer unused.
LEMMA AcquireWatched ==
  ASSUME FewRequests, LInv, IdleWatched, NEW r \in Requests, req[r].pc # "serving",
         NEW k \in Keys, NEW c \in MaybeConfigs, Acquire(r, k, c)
  PROVE  IdleWatched'
<1> USE SlotFacts DEF LInv
<1>1. k \in Registered /\ runners[k] \in Slots /\ slots[runners[k]] # NoRunner
  <2>1. k \in Registered
    BY DEF Acquire
  <2>2. runners[k] \in Slots
    BY <2>1 DEF IInv, TypeOK, Registered
  <2> QED BY <2>1, <2>2 DEF IInv, PoolConsistent
<1>2. references'[runners[k]] # 0
  <2>1. RefCount' /\ slots' = slots
    BY AcquireLeases DEF Acquire
  <2>2. r \in Holders(slots[runners[k]])'
    BY <2>1, <1>1 DEF Acquire, IInv, TypeOK, Holders
  <2>3. IsFiniteSet(Holders(slots[runners[k]])')
    <3>1. Holders(slots[runners[k]])' \subseteq Requests
      BY DEF Holders
    <3> QED BY <3>1, FS_Subset DEF FewRequests
  <2>4. Cardinality(Holders(slots[runners[k]])') # 0
    BY <2>2, <2>3, FS_EmptySet
  <2>5. (references[runners[k]] = Cardinality(Holders(slots[runners[k]])))'
    BY <1>1, <2>1 DEF RefCount, Acquire
  <2> QED BY <2>1, <2>4, <2>5 DEF Acquire
<1>3. \A s \in Slots : s # runners[k] =>
        references'[s] = references[s] /\ timestamps'[s] = timestamps[s]
  BY <1>1 DEF Acquire, IInv, TypeOK
<1>4. UNCHANGED <<runners, runnerConfigs, loopVars>>
  BY DEF Acquire
<1>5. \A j \in UnusedKeys' : runners[j] # runners[k] /\ runners[j] \in Slots
  BY <1>2, <1>4 DEF UnusedKeys, Registered, Unused, IInv, TypeOK
<1>6. \A j \in UnusedKeys' : j \in UnusedKeys /\ timestamps'[runners[j]] = timestamps[runners[j]]
  BY <1>3, <1>4, <1>5 DEF UnusedKeys, Registered, Unused
<1> QED BY <1>4, <1>6, UntouchedKeeps DEF Untouched, loopVars, IdleTimeoutFor

LEMMA AttemptWatched ==
  ASSUME FewRequests, LInv, IdleWatched, NEW r \in Requests, req[r].pc # "serving",
         NEW k \in Keys, NEW c \in MaybeConfigs, Attempt(r, k, c)
  PROVE  IdleWatched'
<1>1. CASE Refuse(r) \/ Wait(r, k, c)
  BY <1>1, TablesWatched DEF Refuse, Wait, poolVars, loopVars
<1>2. CASE Reserve(r, k, c)
  <2>1. Evictees(k) \subseteq Registered
    BY DEF Evictees, UnusedKeys, UnusedOf
  <2>2. Evict(Evictees(k)) /\ UNCHANGED <<references, runnerConfigs, loopVars>>
    BY <1>2 DEF Reserve
  <2> QED BY <2>1, <2>2, EvictWatched DEF LInv, loopVars
<1> QED BY <1>1, <1>2, AcquireWatched DEF Attempt

\* A runner is registered with a lease.
LEMMA RegisterWatched ==
  ASSUME LInv, IdleWatched, NEW r \in Requests, Register(r)
  PROVE  IdleWatched'
<1> USE SlotFacts DEF LInv
<1>1. PICK s \in Slots, k \in Keys : req[r].slot = s /\ req[r].key = k /\ loading[s] = k
  BY DEF IInv, RequestsOK, RequestOK, Register, LoadingPcs
<1>2. \A j \in Registered : runners[j] # s
  BY <1>1, SentinelAssumption DEF LoadingSlots, IInv, PoolConsistent
<1>3. /\ \A j \in Keys : runners'[j] = IF j = k THEN s ELSE runners[j]
      /\ \A u \in Slots : references'[u] = IF u = s THEN 1 ELSE references[u]
      /\ UNCHANGED <<timestamps, runnerConfigs, idleCheck, timer, loop>>
  BY <1>1 DEF Register, IInv, TypeOK
<1>4. \A j \in UnusedKeys' : j \in UnusedKeys /\ runners'[j] = runners[j]
  <2> SUFFICES ASSUME NEW j \in UnusedKeys' PROVE j \in UnusedKeys /\ runners'[j] = runners[j]
    OBVIOUS
  <2>1. j \in Keys /\ runners'[j] # NoSlot /\ references'[runners'[j]] = 0
    BY DEF UnusedKeys, Registered, Unused
  <2>2. j # k
    BY <1>3, <2>1
  <2>3. j \in Registered /\ runners[j] \in Slots /\ runners[j] # s /\ runners'[j] = runners[j]
    BY <1>2, <1>3, <2>1, <2>2 DEF Registered, IInv, TypeOK
  <2> QED BY <1>3, <2>1, <2>3 DEF UnusedKeys, Unused
<1> QED BY <1>3, <1>4, UntouchedKeeps DEF Untouched, IdleTimeoutFor

\* The last release asks for a check, unless the runner goes with it.
LEMMA ReleaseWatched ==
  ASSUME NoDrafts, FewRequests, LInv, IdleWatched, NEW r \in Requests, Release(r)
  PROVE  IdleWatched'
<1> USE SlotFacts DEF LInv
<1> DEFINE k == req[r].key
           s == req[r].slot
           K == {j \in Registered : /\ references'[runners[j]] = 0
                                    /\ ConfigKey(j) = ConfigKey(k)}
<1>1. req[r].pc = "serving" /\ k \in Registered /\ s = runners[k] /\ s \in Slots
  BY DEF Release, LeasesOK, Leased, IInv, TypeOK, Registered
<1>2. /\ references' = [references EXCEPT ![s] = Dec(@)]
      /\ IF references'[s] # 0
         THEN UNCHANGED <<runners, slots, timestamps, idleCheck, proc>>
         ELSE Evict(K) \/ idleCheck'
      /\ UNCHANGED <<runnerConfigs, timer, loop>>
      /\ references'[s] = 0 /\ ~idleCheck' => UNCHANGED idleCheck
  <2>1. ReleaseSlots(k) = {s}
    BY <1>1, ReleaseSlot
  <2> QED BY <2>1 DEF Release
<1>3. CASE references'[s] # 0
  <2>1. \A j \in UnusedKeys' : runners[j] # s /\ runners'[j] = runners[j] /\ runners[j] \in Slots
    BY <1>2, <1>3 DEF UnusedKeys, Registered, Unused, IInv, TypeOK
  <2>2. \A j \in UnusedKeys' : j \in UnusedKeys
    BY <1>2, <1>3, <2>1 DEF UnusedKeys, Registered, Unused, IInv, TypeOK
  <2> QED BY <1>2, <1>3, <2>1, <2>2, UntouchedKeeps DEF Untouched, IdleTimeoutFor
<1>4. CASE references'[s] = 0 /\ idleCheck'
  BY <1>4 DEF IdleWatched
<1>5. CASE references'[s] = 0 /\ ~idleCheck'
  <2>1. Evict(K) /\ UNCHANGED idleCheck
    BY <1>2, <1>5
  <2>2. k \in K
    BY <1>1, <1>5
  <2>3. \A j \in UnusedKeys' : /\ j \in UnusedKeys
                               /\ runners'[j] = runners[j]
                               /\ timestamps'[runners[j]] = timestamps[runners[j]]
    <3> SUFFICES ASSUME NEW j \in UnusedKeys'
                 PROVE  /\ j \in UnusedKeys
                        /\ runners'[j] = runners[j]
                        /\ timestamps'[runners[j]] = timestamps[runners[j]]
      OBVIOUS
    <3>1. j \in Keys /\ runners'[j] # NoSlot /\ references'[runners'[j]] = 0
      BY DEF UnusedKeys, Registered, Unused
    <3>2. j \notin K /\ runners'[j] = runners[j]
      BY <2>1, <3>1 DEF Evict
    <3>3. j \in Registered /\ runners[j] \in Slots /\ j # k
      BY <2>2, <3>1, <3>2 DEF Registered, IInv, TypeOK
    <3>4. runners[j] # s
      BY <1>1, <3>3 DEF IInv, PoolConsistent
    <3>5. references[runners[j]] = 0
      BY <1>2, <3>1, <3>2, <3>3, <3>4 DEF IInv, TypeOK
    <3>6. runners[j] \notin SlotsOf(K)
      BY <3>2, <3>3 DEF SlotsOf, IInv, PoolConsistent
    <3> QED BY <2>1, <3>2, <3>3, <3>5, <3>6 DEF Evict, UnusedKeys, Unused
  <2> QED BY <1>2, <2>1, <2>3, UntouchedKeeps DEF Untouched, IdleTimeoutFor
<1> QED BY <1>3, <1>4, <1>5

\* A configuration that is replaced governs no unused runner any more.
LEMMA SetConfigWatched ==
  ASSUME NoDrafts, LInv, IdleWatched, NEW t \in Targets, NEW c \in Configs, SetConfig(t, c)
  PROVE  IdleWatched'
<1> DEFINE k == RunnerKey(t, DraftOf(c))
           K == IF k \in Registered
                THEN UnusedOf(t.backend, {t.model}, {t.mode}) ELSE {}
<1>1. K \subseteq Registered
  BY DEF UnusedOf, UnusedKeys
<1>2. /\ Evict(K) /\ UNCHANGED <<references, loopVars>>
      /\ runnerConfigs' = IF k \in Registered \ K THEN runnerConfigs
                          ELSE [runnerConfigs EXCEPT ![t] = c]
  BY DEF SetConfig
<1>3. t \in ConfigKeys /\ DraftOf(c) = NoDraft
  BY TargetsAssumption, ConfigsAssumption, SentinelAssumption DEF NoDrafts, DraftOf
<1>4. \A j \in Keys : ConfigKey(j) = t => j = k
  BY <1>3 DEF NoDrafts, Keys, ConfigKey, RunnerKey
<1>5. \A j \in UnusedKeys \ K : runnerConfigs'[ConfigKey(j)] = runnerConfigs[ConfigKey(j)]
  <2> SUFFICES ASSUME NEW j \in UnusedKeys \ K, k \notin Registered \ K
               PROVE  runnerConfigs'[ConfigKey(j)] = runnerConfigs[ConfigKey(j)]
    BY <1>2
  <2>1. j \in Keys /\ j \in Registered /\ j # k
    BY DEF UnusedKeys, Registered
  <2>2. ConfigKey(j) # t
    BY <1>4, <2>1
  <2> QED BY <1>2, <2>2 DEF LInv, IInv, TypeOK
<1> HIDE DEF K
<1> QED BY <1>1, <1>2, <1>5, EvictWatched DEF LInv, loopVars

LEMMA UnloadWatched ==
  ASSUME LInv, IdleWatched,
         \/ UnloadAll
         \/ \E b \in Backends \cup {AnyBackend}, M \in SUBSET Models : UnloadModels(b, M)
         \/ \E b \in Backends : UnloadBackend(b)
  PROVE  IdleWatched'
<1> USE DEF LInv
<1>0. UnusedKeys \subseteq Registered
  BY DEF UnusedKeys
<1>1. CASE UnloadAll
  BY <1>0, <1>1, EvictWatched DEF UnloadAll, loopVars
<1>2. ASSUME NEW b \in Backends \cup {AnyBackend}, NEW M \in SUBSET Models, UnloadModels(b, M)
      PROVE  IdleWatched'
  <2> DEFINE K == UnusedOf(b, M, BackendModes)
  <2>1. K \subseteq Registered
    BY DEF UnusedOf, UnusedKeys
  <2>2. \A k \in UnusedKeys \ K : ~(k.backend = b /\ k.model \in M)
    BY DEF UnusedOf, UnusedKeys, Registered, Keys
  <2>3. \A k \in UnusedKeys : ConfigKey(k) \in ConfigKeys
    BY DEF UnusedKeys, Registered, Keys, ConfigKey, ConfigKeys
  <2>4. \A k \in UnusedKeys \ K : runnerConfigs'[ConfigKey(k)] = runnerConfigs[ConfigKey(k)]
    BY <1>2, <2>2, <2>3 DEF UnloadModels, ConfigKey
  <2>5. Evict(K) /\ UNCHANGED <<references, loopVars>>
    BY <1>2 DEF UnloadModels
  <2> HIDE DEF K
  <2> QED BY <2>1, <2>4, <2>5, EvictWatched DEF loopVars
<1>3. ASSUME NEW b \in Backends, UnloadBackend(b) PROVE IdleWatched'
  <2> DEFINE K == {k \in UnusedKeys : k.backend = b}
  <2>1. Evict(K) /\ K \subseteq Registered
    BY <1>0, <1>3 DEF UnloadBackend
  <2> HIDE DEF K
  <2> QED BY <1>3, <2>1, EvictWatched DEF UnloadBackend, loopVars
<1> QED BY <1>1, <1>2, <1>3

\* What idleCheckDuration returns is soon enough for every runner that stays unused.
LEMMA DurationWatches ==
  ASSUME TypeOK, NEW R \in SUBSET Registered, NEW d \in IdleCheckDurations(R),
         NEW k \in R, Unused(k), IdleTimeoutFor(k) >= 0
  PROVE  d # Off /\ (d <= IdleTimeoutFor(k) + 1 - timestamps[runners[k]] \/ d = 0)
<1> USE SlotFacts DEF Off
<1> DEFINE candidates == {j \in R : Unused(j) /\ IdleTimeoutFor(j) >= 0}
           Left(j) == IdleTimeoutFor(j) - timestamps[runners[j]] + 1
           remaining == {Left(j) : j \in candidates}
<1>1. CASE \E j \in R : Defunct(j) \/ (Unused(j) /\ Expired(j))
  BY <1>1 DEF IdleCheckDurations
<1>2. CASE ~ \E j \in R : Defunct(j) \/ (Unused(j) /\ Expired(j))
  <2>1. d \in remaining /\ \A e \in remaining : d <= e
    BY <1>2 DEF IdleCheckDurations
  <2>2. \A j \in candidates : Left(j) \in Int /\ Left(j) >= 1
    <3> SUFFICES ASSUME NEW j \in candidates PROVE Left(j) \in Int /\ Left(j) >= 1
      OBVIOUS
    <3>1. IdleTimeoutFor(j) \in Int
      <4>1. j \in Keys
        BY DEF Registered
      <4>2. runnerConfigs[ConfigKey(j)] \in MaybeConfigs
        BY <4>1 DEF TypeOK, ConfigKey, ConfigKeys, Keys
      <4> QED BY <4>2, ConfigsAssumption, TimeAssumption DEF IdleTimeoutFor, MaybeConfigs
    <3>2. timestamps[runners[j]] \in 0 .. MaxAge
      BY DEF TypeOK, Registered
    <3>3. ~(timestamps[runners[j]] > IdleTimeoutFor(j))
      BY <1>2 DEF Expired
    <3> HIDE DEF candidates
    <3> QED BY <3>1, <3>2, <3>3, TimeAssumption
  <2>3. Left(k) \in remaining /\ k \in candidates
    OBVIOUS
  <2>4. d >= 1 /\ d \in Int /\ d <= Left(k)
    <3> HIDE DEF Left, candidates
    <3> QED BY <2>1, <2>2, <2>3
  <2>5. IdleTimeoutFor(k) \in Int /\ timestamps[runners[k]] \in Int
    <3>1. k \in Keys
      BY DEF Registered
    <3>2. runnerConfigs[ConfigKey(k)] \in MaybeConfigs
      BY <3>1 DEF TypeOK, ConfigKey, ConfigKeys, Keys
    <3>3. timestamps[runners[k]] \in 0 .. MaxAge
      BY DEF TypeOK, Registered
    <3> QED BY <3>2, <3>3, ConfigsAssumption, TimeAssumption DEF IdleTimeoutFor, MaybeConfigs
  <2>6. IdleTimeoutFor(k) + 1 - timestamps[runners[k]] = Left(k)
    BY <2>5
  <2> QED BY <2>4, <2>5, <2>6
<1> QED BY <1>1, <1>2

\* The loop and the environment.
LEMMA LoopWatched ==
  ASSUME LInv, ClosedBefore, IdleWatched,
         \/ LoopStart \/ LoopAbort \/ LoopCancel \/ LoopStep
         \/ \E i \in Runners : Crash(i)
         \/ Tick \/ UNCHANGED vars
  PROVE  IdleWatched'
<1> USE DEF LInv
<1>1. CASE LoopStart
  BY <1>1 DEF LoopStart, ClosedBefore, IdleWatched, UnusedKeys, Registered
<1>2. CASE LoopAbort \/ LoopCancel \/ DrainWake \/ Drain
  BY <1>2 DEF LoopAbort, LoopCancel, DrainWake, Drain, IdleWatched
<1>3. CASE UNCHANGED vars \/ \E i \in Runners : Crash(i)
  BY <1>3, TablesWatched DEF Crash, vars, poolVars, loopVars
<1>4. CASE IdleCheck
  <2>1. \A k \in Registered : Unused(k) /\ IdleTimeoutFor(k) >= 0 =>
          /\ timer' # Off
          /\ timer' <= IdleTimeoutFor(k) + 1 - timestamps[runners[k]] \/ timer' = 0
    BY <1>4, DurationWatches DEF IdleCheck, IInv
  <2>2. UNCHANGED <<runners, references, timestamps, runnerConfigs>>
    BY <1>4 DEF IdleCheck, poolVars
  <2> QED BY <2>1, <2>2 DEF IdleWatched, UnusedKeys, Registered, Unused, IdleTimeoutFor
<1>5. CASE IdleTimer
  <2> DEFINE K == {k \in UnusedKeys : Expired(k) \/ Defunct(k)}
  <2>1. K \subseteq Registered /\ Evict(K) /\ timer' \in IdleCheckDurations(Registered \ K)
    BY <1>5 DEF IdleTimer, UnusedKeys
  <2>2. UNCHANGED <<references, runnerConfigs>>
    BY <1>5 DEF IdleTimer
  <2> HIDE DEF K
  <2>3. \A k \in UnusedKeys' : /\ k \in UnusedKeys \ K
                               /\ runners'[k] = runners[k]
                               /\ timestamps'[runners[k]] = timestamps[runners[k]]
    BY <2>1, <2>2, EvictUntouched
  <2>4. \A k \in UnusedKeys \ K : IdleTimeoutFor(k) >= 0 =>
          /\ timer' # Off
          /\ timer' <= IdleTimeoutFor(k) + 1 - timestamps[runners[k]] \/ timer' = 0
    BY <2>1, DurationWatches DEF IInv, UnusedKeys
  <2>5. \A k : IdleTimeoutFor(k)' = IdleTimeoutFor(k)
    BY <2>2 DEF IdleTimeoutFor
  <2> QED BY <2>3, <2>4, <2>5 DEF IdleWatched
<1>6. CASE Tick
  <2>1. /\ UNCHANGED <<runners, references, runnerConfigs, idleCheck, loop>>
        /\ timer' = IF timer > 0 THEN timer - 1 ELSE timer
        /\ \A s \in Slots : timestamps'[s] = IF timestamps[s] < MaxAge
                                             THEN timestamps[s] + 1 ELSE MaxAge
    BY <1>6 DEF Tick
  <2>2. UnusedKeys' = UnusedKeys /\ \A k : IdleTimeoutFor(k)' = IdleTimeoutFor(k)
    BY <2>1 DEF UnusedKeys, Registered, Unused, IdleTimeoutFor
  <2> SUFFICES ASSUME loop = "running", NEW k \in UnusedKeys, IdleTimeoutFor(k) >= 0, ~idleCheck
               PROVE  /\ timer' # Off
                      /\ \/ timer' <= IdleTimeoutFor(k) + 1 - timestamps'[runners[k]]
                         \/ timer' = 0
    BY <2>1, <2>2 DEF IdleWatched
  <2>3. /\ timer # Off
        /\ timer <= IdleTimeoutFor(k) + 1 - timestamps[runners[k]] \/ timer = 0
    BY DEF IdleWatched
  <2>4. k \in Keys /\ runners[k] \in Slots
    BY DEF UnusedKeys, Registered, IInv, TypeOK
  <2>5. timestamps[runners[k]] \in 0 .. MaxAge /\ timer \in {Off} \cup 0 .. MaxAge
    BY <2>4 DEF IInv, TypeOK
  <2>6. IdleTimeoutFor(k) \in Int /\ IdleTimeoutFor(k) < MaxAge
    <3>1. runnerConfigs[ConfigKey(k)] \in MaybeConfigs
      BY <2>4 DEF IInv, TypeOK, ConfigKey, ConfigKeys, Keys
    <3> QED BY <3>1, ConfigsAssumption, TimeAssumption DEF IdleTimeoutFor, MaybeConfigs
  <2>7. timestamps'[runners[k]] = IF timestamps[runners[k]] < MaxAge
                                  THEN timestamps[runners[k]] + 1 ELSE MaxAge
    BY <2>1, <2>4
  <2> QED BY <2>1, <2>3, <2>5, <2>6, <2>7, TimeAssumption DEF Off
<1> QED BY <1>1, <1>2, <1>3, <1>4, <1>5, <1>6 DEF LoopStep

\* Until the loop starts, load refuses everybody.
LEMMA ClosedNext ==
  ASSUME IInv, ClosedBefore, [Next]_vars PROVE ClosedBefore'
<1> SUFFICES ASSUME loop' = "starting"
             PROVE  /\ ~loadsEnabled' /\ Registered' = {}
                    /\ \A r \in Requests : req'[r].pc \in {"idle", "done"}
  BY DEF ClosedBefore
<1> USE SlotFacts, ReturnAssumption
<1>1. ASSUME NEW r \in Requests, NEW t \in Targets, Load(r, t), loop = "starting"
      PROVE  ~loadsEnabled' /\ Registered' = {} /\ \A q \in Requests : req'[q].pc \in {"idle", "done"}
  BY <1>1 DEF Load, Attempt, Refuse, Wait, Acquire, Reserve, Return, NoRequest, ClosedBefore,
              poolVars, Registered, IInv, TypeOK
<1>2. ASSUME NEW r \in Requests, Cancel(r) \/ RequestStep(r), loop = "starting" PROVE FALSE
  BY <1>2 DEF Cancel, RequestStep, Wake, Retry, StartRunner, StartFails, Healthy, WaitFails,
              Unreserve, Register, Release, ClosedBefore
<1>3. ASSUME NEW K, Evict(K), UNCHANGED <<loadsEnabled, req>>, loop = "starting"
      PROVE  ~loadsEnabled' /\ Registered' = {} /\ \A q \in Requests : req'[q].pc \in {"idle", "done"}
  BY <1>3 DEF Evict, ClosedBefore, Registered
<1>4. CASE UNCHANGED <<loadsEnabled, req, runners, loop>>
  BY <1>4 DEF ClosedBefore, Registered
<1>5. CASE \E r \in Requests, t \in Targets : Load(r, t)
  <2>1. loop = "starting"
    BY <1>5 DEF Load, Attempt, Refuse, Wait, Acquire, Reserve, loopVars
  <2> QED BY <1>1, <1>5, <2>1
<1>6. CASE \E r \in Requests : Cancel(r) \/ RequestStep(r)
  <2>1. loop = "starting"
    BY <1>6 DEF Cancel, RequestStep, Wake, Retry, StartRunner, StartFails, Healthy, WaitFails,
                Unreserve, Register, Release, Attempt, Refuse, Wait, Acquire, Reserve, loopVars
  <2> QED BY <1>2, <1>6, <2>1
<1>7. CASE \/ \E t \in Targets, c \in Configs : SetConfig(t, c)
           \/ UnloadAll
           \/ \E b \in Backends \cup {AnyBackend}, M \in SUBSET Models : UnloadModels(b, M)
           \/ \E b \in Backends : UnloadBackend(b)
  <2>1. loop = "starting" /\ UNCHANGED <<loadsEnabled, req>>
    BY <1>7 DEF SetConfig, UnloadAll, UnloadModels, UnloadBackend, loopVars
  <2>2. \E K : Evict(K)
    BY <1>7 DEF SetConfig, UnloadAll, UnloadModels, UnloadBackend
  <2> QED BY <1>3, <2>1, <2>2
<1>8. CASE LoopStart \/ LoopAbort \/ LoopCancel \/ LoopStep
  BY <1>8 DEF LoopStart, LoopAbort, LoopCancel, LoopStep, IdleTimer, IdleCheck, DrainWake, Drain
<1>9. CASE Tick \/ (\E i \in Runners : Crash(i)) \/ UNCHANGED vars
  BY <1>4, <1>9 DEF Tick, Crash, vars, poolVars, loopVars
<1> QED BY <1>5, <1>6, <1>7, <1>8, <1>9 DEF Next

LEMMA WatchedNext ==
  ASSUME NoDrafts, FewRequests, LInv, ClosedBefore, IdleWatched, [Next]_vars
  PROVE  IdleWatched'
<1>1. ASSUME NEW r \in Requests, NEW t \in Targets, Load(r, t) PROVE IdleWatched'
  BY <1>1, CallType, AttemptWatched DEF LInv, IInv, Load
<1>2. ASSUME NEW r \in Requests, Retry(r) PROVE IdleWatched'
  <2>1. req[r].key \in Keys /\ req[r].config \in MaybeConfigs
    BY <1>2 DEF LInv, IInv, TypeOK, RequestsOK, RequestOK, Retry, RequestStates
  <2> QED BY <1>2, <2>1, AttemptWatched DEF Retry
<1>3. ASSUME NEW r \in Requests,
             \/ Wake(r) \/ Cancel(r) \/ StartFails(r) \/ Healthy(r) \/ WaitFails(r) \/ Unreserve(r)
             \/ \E i \in Runners : StartRunner(r, i)
      PROVE  IdleWatched'
  BY <1>3, TablesWatched DEF Wake, Cancel, StartFails, Healthy, WaitFails, Unreserve, StartRunner,
                             poolVars, loopVars
<1>4. ASSUME NEW r \in Requests, Cancel(r) \/ RequestStep(r) PROVE IdleWatched'
  BY <1>2, <1>3, <1>4, RegisterWatched, ReleaseWatched DEF RequestStep
<1> QED BY <1>1, <1>4, SetConfigWatched, UnloadWatched, LoopWatched DEF Next

\* Without drafts no idle runner is overlooked: while the loop runs, every unused runner
\* that may be evicted has a check pending or the timer armed in time (evict,
\* idleCheckDuration and release of loader.go).
THEOREM IdleRunnersWatched == ASSUME NoDrafts, FewRequests PROVE Spec => []IdleWatched
<1>1. Init => ClosedBefore /\ IdleWatched
  BY DEF Init, ClosedBefore, IdleWatched, Registered, NoRequest
<1>2. LInv /\ ClosedBefore /\ [Next]_vars => ClosedBefore'
  BY ClosedNext DEF LInv
<1>3. LInv /\ ClosedBefore /\ IdleWatched /\ [Next]_vars => IdleWatched'
  BY WatchedNext
<1> QED BY <1>1, <1>2, <1>3, LInvAlways, PTL DEF Spec

(***************************************************************************)
(* The loader implements the pool of RunnerPool, whatever the numbers of   *)
(* slots, keys and requests: every step of the loader is a step of the     *)
(* pool or none.                                                           *)
(***************************************************************************)

\* What the phases say of the loader's tables, and what is known of the holders.
PhaseMeans ==
  \A k \in Keys :
    /\ Phase[k] = IF k \in Registered THEN "present"
                  ELSE IF k \in BeingLoaded THEN "loading" ELSE "absent"
    /\ k \in Registered => k \notin BeingLoaded

HeldPresent == \A k \in Keys : k \notin Registered => LeaseHolders[k] = {}

Fits == Cardinality(Pool!Occupied(Phase)) <= NSlots

LEMMA FunctionForms ==
  /\ Phase = [k \in Keys |-> Phase[k]] /\ Phase' = [k \in Keys |-> Phase'[k]]
  /\ LeaseHolders = [k \in Keys |-> LeaseHolders[k]]
  /\ LeaseHolders' = [k \in Keys |-> LeaseHolders'[k]]
BY DEF Phase, LeaseHolders

LEMMA LInvMeans == LInv => PhaseMeans /\ HeldPresent
<1> SUFFICES ASSUME LInv PROVE PhaseMeans /\ HeldPresent
  OBVIOUS
<1>1. \A k \in Keys : Phase[k] = IF k \in Registered THEN "present"
                                 ELSE IF k \in BeingLoaded THEN "loading" ELSE "absent"
  BY SentinelAssumption DEF Phase, Registered, BeingLoaded
<1>2. \A k \in Registered : k \notin BeingLoaded
  BY SentinelAssumption DEF LInv, IInv, PoolConsistent, BeingLoaded, LoadingSlots, Registered
<1>3. HeldPresent
  BY DEF LInv, LeasesOK, Leased, LeaseHolders, HeldPresent
<1> QED BY <1>1, <1>2, <1>3 DEF PhaseMeans

\* The keys that occupy the pool have slots of their own.
LEMMA LInvFits == LInv => Fits
<1> SUFFICES ASSUME LInv PROVE Fits
  OBVIOUS
<1> USE SlotFacts, SentinelAssumption
<1> DEFINE O == Pool!Occupied(Phase)
           f == [k \in O |-> IF k \in Registered THEN runners[k]
                             ELSE CHOOSE s \in Slots : loading[s] = k]
<1>1. O = {k \in Keys : k \in Registered \/ k \in BeingLoaded}
  BY LInvMeans DEF PhaseMeans, Pool!Occupied
<1>2. \A k \in O : /\ f[k] \in Slots
                   /\ k \in Registered => f[k] = runners[k] /\ slots[f[k]] # NoRunner
                   /\ k \notin Registered => loading[f[k]] = k /\ slots[f[k]] = NoRunner
  <2> SUFFICES ASSUME NEW k \in O
               PROVE  /\ f[k] \in Slots
                      /\ k \in Registered => f[k] = runners[k] /\ slots[f[k]] # NoRunner
                      /\ k \notin Registered => loading[f[k]] = k /\ slots[f[k]] = NoRunner
    OBVIOUS
  <2>1. CASE k \in Registered
    <3>1. f[k] = runners[k] /\ runners[k] \in Slots
      BY <2>1 DEF LInv, IInv, TypeOK, Registered
    <3> QED BY <2>1, <3>1 DEF LInv, IInv, PoolConsistent
  <2>2. CASE k \notin Registered
    <3>1. \E s \in Slots : loading[s] = k
      BY <1>1, <2>2 DEF BeingLoaded
    <3>2. f[k] \in Slots /\ loading[f[k]] = k
      BY <2>2, <3>1
    <3>3. k # NoKey
      BY <1>1
    <3> HIDE DEF f
    <3> QED BY <2>2, <3>2, <3>3 DEF LInv, IInv, PoolConsistent, LoadingSlots
  <2> QED BY <2>1, <2>2
<1> HIDE DEF f, O
<1>3. \A j, k \in O : f[j] = f[k] => j = k
  BY <1>2 DEF LInv, IInv, PoolConsistent
<1>4. f \in Injection(O, Slots)
  <2>1. f \in [O -> Slots]
    BY <1>2 DEF f
  <2> QED BY <1>3, <2>1 DEF Injection, IsInjective
<1>5. IsFiniteSet(Slots) /\ Cardinality(Slots) = NSlots
  BY SlotsAssumption, FS_Interval DEF Slots
<1>6. Cardinality(O) <= NSlots
  BY <1>4, <1>5, FS_Injection
<1> QED BY <1>6 DEF O, Fits

\* The same after a step.
LEMMA Meanings ==
  ASSUME LInv, LInv'
  PROVE  PhaseMeans /\ HeldPresent /\ PhaseMeans' /\ HeldPresent' /\ Fits'
<1>1. LInv' => PhaseMeans' /\ HeldPresent' /\ Fits'
  BY LInvMeans, LInvFits, PTL
<1> QED BY <1>1, LInvMeans

(***************************************************************************)
(* Steps that drop runners, or do nothing to the pool.                     *)
(***************************************************************************)
\* Requests that are not served come and go without the pool noticing.
LEMMA HoldersSame ==
  ASSUME \A r \in Requests :
           req[r].pc = "serving" \/ req'[r].pc = "serving" => req'[r] = req[r]
  PROVE  UNCHANGED LeaseHolders
BY DEF LeaseHolders

LEMMA DropStep ==
  ASSUME LInv, LInv', NEW K \in SUBSET UnusedKeys, Quiet(K),
         UNCHANGED <<loading, loadsEnabled>>
  PROVE  [Pool!Next]_Pool!pool
<1>1. UNCHANGED LeaseHolders
  BY HoldersSame DEF Quiet
<1>2. K \subseteq Keys /\ K \subseteq Registered
  BY DEF UnusedKeys, Registered
<1>3. \A k \in Keys : k \in Registered' <=> k \in Registered /\ k \notin K
  BY DEF Quiet, Registered
<1>4. BeingLoaded' = BeingLoaded
  BY DEF BeingLoaded
<1>5. \A k \in Keys : Phase'[k] = IF k \in K THEN "absent" ELSE Phase[k]
  BY <1>2, <1>3, <1>4, Meanings DEF PhaseMeans
<1>6. Phase' = Pool!Without(K)
  BY <1>5, FunctionForms DEF Pool!Without
<1>7. K \subseteq Pool!Free(LeaseHolders)
  <2>1. \A k \in K : Phase[k] = "present"
    BY <1>2, Meanings DEF PhaseMeans
  <2>2. \A k \in K : LeaseHolders'[k] = {}
    BY <1>2, <1>3, Meanings DEF HeldPresent
  <2> QED BY <1>1, <1>2, <2>1, <2>2 DEF Pool!Free
<1>8. CASE K = {}
  <2>1. Phase' = Phase
    BY <1>5, <1>8, FunctionForms
  <2> QED BY <1>1, <2>1 DEF Pool!pool
<1>9. CASE K # {}
  <2>1. K \in (SUBSET Pool!Free(LeaseHolders)) \ {{}}
    <3>1. K \in SUBSET Pool!Free(LeaseHolders)
      BY <1>7
    <3> QED BY <1>9, <3>1
  <2>2. Pool!Drop
    BY <1>1, <1>6, <2>1 DEF Pool!Drop
  <2> QED BY <2>2 DEF Pool!Next
<1> QED BY <1>8, <1>9

LEMMA Unnoticed ==
  ASSUME LInv, LInv', UNCHANGED <<runners, slots, references, loading, loadsEnabled>>,
         \A r \in Requests :
           req[r].pc = "serving" \/ req'[r].pc = "serving" => req'[r] = req[r]
  PROVE  [Pool!Next]_Pool!pool
BY NothingQuiet, DropStep DEF LInv, IInv

(***************************************************************************)
(* Leases and loads.                                                       *)
(***************************************************************************)
\* A request that is not served holds nothing.
LEMMA HoldsNothing ==
  ASSUME NEW r \in Requests, req[r].pc # "serving"
  PROVE  \A j \in Keys : r \notin LeaseHolders[j]
BY DEF LeaseHolders

LEMMA AcquireIsLease ==
  ASSUME LInv, LInv', NEW r \in Requests, req[r].pc # "serving",
         NEW k \in Keys, NEW c \in MaybeConfigs, Acquire(r, k, c)
  PROVE  Pool!Lease(r, k)
<1>1. loadsEnabled /\ k \in Registered /\ UNCHANGED <<loadsEnabled, runners, loading>>
  BY DEF Acquire
<1>2. Phase[k] = "present"
  BY <1>1, Meanings DEF PhaseMeans
<1>3. UNCHANGED Phase
  BY <1>1 DEF Phase
<1>4. /\ req'[r].pc = "serving" /\ req'[r].key = k
      /\ \A q \in Requests : q # r => req'[q] = req[q]
  BY DEF Acquire, LInv, IInv, TypeOK
<1>5. LeaseHolders' = [LeaseHolders EXCEPT ![k] = @ \cup {r}]
  BY <1>4 DEF LeaseHolders
<1> QED BY <1>1, <1>2, <1>3, <1>5, HoldsNothing DEF Pool!Lease

LEMMA ReserveIsBeginLoad ==
  ASSUME LInv, LInv', NEW r \in Requests, req[r].pc # "serving",
         NEW k \in Keys, NEW c \in MaybeConfigs, Reserve(r, k, c)
  PROVE  Pool!BeginLoad(k)
<1> USE SlotFacts, SentinelAssumption
<1> DEFINE K == Evictees(k)
<1>1. K \subseteq UnusedKeys /\ Evict(K) /\ loadsEnabled /\ UNCHANGED loadsEnabled
  BY DEF Reserve, Evictees, UnusedOf
<1>2. k \notin BeingLoaded /\ (k \in Registered => k \in K)
  BY DEF Reserve, Evictees, UnusedOf, UnusedKeys, Keys
<1>3. PICK s \in FreeSlots \cup SlotsOf(K) :
        /\ loading' = [loading EXCEPT ![s] = k]
        /\ req' = [req EXCEPT ![r] = [pc |-> "starting", key |-> k, config |-> c,
                                      slot |-> s, runner |-> NoRunner]]
  BY DEF Reserve
<1> HIDE DEF K
<1>4. s \in Slots /\ loading[s] = NoKey
  <2>1. CASE s \in FreeSlots
    BY <2>1 DEF FreeSlots
  <2>2. CASE s \in SlotsOf(K)
    <3>1. PICK j \in Registered : runners[j] = s /\ s \in Slots
      BY <1>1, <2>2 DEF SlotsOf, UnusedKeys, Registered, LInv, IInv, TypeOK
    <3>2. slots[s] # NoRunner
      BY <3>1 DEF LInv, IInv, PoolConsistent
    <3> QED BY <3>1, <3>2 DEF LInv, IInv, PoolConsistent, LoadingSlots
  <2> QED BY <2>1, <2>2
<1>5. UNCHANGED LeaseHolders
  BY <1>3, HoldersSame DEF LInv, IInv, TypeOK
<1>6. K \subseteq Keys /\ K \subseteq Registered
  BY <1>1 DEF UnusedKeys, Registered
<1>7. \A j \in Keys : j \in Registered' <=> j \in Registered /\ j \notin K
  BY <1>1 DEF Evict, Registered
<1>8. BeingLoaded' = BeingLoaded \cup {k}
  <2>1. \A u \in Slots : loading'[u] = IF u = s THEN k ELSE loading[u]
    BY <1>3, <1>4 DEF LInv, IInv, TypeOK
  <2> QED BY <1>4, <2>1 DEF BeingLoaded
<1>9. \A j \in K : Phase[j] = "present"
  BY <1>6, Meanings DEF PhaseMeans
<1>10. Pool!Without(K)[k] = "absent"
  BY <1>2, Meanings DEF PhaseMeans, Pool!Without
<1>11. Phase' = [Pool!Without(K) EXCEPT ![k] = "loading"]
  <2>1. \A j \in Keys : Phase'[j] = IF j = k THEN "loading"
                                    ELSE IF j \in K THEN "absent" ELSE Phase[j]
    BY <1>2, <1>6, <1>7, <1>8, Meanings DEF PhaseMeans
  <2> QED BY <2>1, FunctionForms DEF Pool!Without
<1>12. K \subseteq Pool!Free(LeaseHolders)
  <2>1. \A j \in K : LeaseHolders'[j] = {}
    BY <1>6, <1>7, Meanings DEF HeldPresent
  <2> QED BY <1>5, <1>6, <1>9, <2>1 DEF Pool!Free
<1>13. Cardinality(Pool!Occupied(Phase')) <= NSlots
  BY Meanings DEF Fits, Pool!Occupied
<1>14. \E D \in SUBSET Pool!Free(LeaseHolders) :
         /\ Pool!Without(D)[k] = "absent"
         /\ Phase' = [Pool!Without(D) EXCEPT ![k] = "loading"]
  BY <1>10, <1>11, <1>12
<1>15. loadsEnabled /\ loadsEnabled' = loadsEnabled /\ LeaseHolders' = LeaseHolders
  BY <1>1, <1>5
<1>16. Pool!Cardinality(Pool!Occupied(Phase')) = Cardinality(Pool!Occupied(Phase'))
  BY DEF Pool!Cardinality, Cardinality
<1> QED BY <1>13, <1>14, <1>15, <1>16 DEF Pool!BeginLoad

\* No two slots load one key.
LEMMA LoadedOnce ==
  ASSUME LInv, NEW s \in LoadingSlots
  PROVE  \A u \in Slots : u # s => loading[u] # loading[s]
<1> SUFFICES ASSUME NEW u \in Slots, u # s, loading[u] = loading[s] PROVE FALSE
  OBVIOUS
<1>1. u \in LoadingSlots
  BY DEF LoadingSlots
<1>2. \A t, v \in LoadingSlots : loading[t] = loading[v] => t = v
  BY DEF LInv, IInv, PoolConsistent
<1> QED BY <1>1, <1>2

LEMMA UnreserveIsLoadFailed ==
  ASSUME LInv, LInv', NEW r \in Requests, Unreserve(r)
  PROVE  Pool!LoadFailed(req[r].key)
<1> USE SentinelAssumption
<1> DEFINE k == req[r].key
           s == req[r].slot
<1>1. s \in Slots /\ k \in Keys /\ loading[s] = k /\ s \in LoadingSlots
  BY DEF LInv, IInv, RequestsOK, RequestOK, Unreserve, LoadingPcs, LoadingSlots
<1>2. k \notin Registered
  BY <1>1 DEF LInv, IInv, PoolConsistent
<1>3. /\ \A u \in Slots : loading'[u] = IF u = s THEN NoKey ELSE loading[u]
      /\ UNCHANGED <<runners, loadsEnabled>>
  BY <1>1 DEF Unreserve, LInv, IInv, TypeOK
<1>4. UNCHANGED LeaseHolders
  BY HoldersSame, ReturnAssumption DEF Unreserve, NoRequest, LInv, IInv, TypeOK
<1>5. Registered' = Registered
  BY <1>3 DEF Registered
<1>6. \A u \in Slots : u # s => loading[u] # k
  BY <1>1, LoadedOnce
<1>7. BeingLoaded' = BeingLoaded \ {k}
  BY <1>1, <1>3, <1>6 DEF BeingLoaded
<1>8. Phase[k] = "loading"
  BY <1>1, <1>2, Meanings DEF PhaseMeans, BeingLoaded
<1>9. Phase' = [Phase EXCEPT ![k] = "absent"]
  <2>1. \A j \in Keys : Phase'[j] = IF j = k THEN "absent" ELSE Phase[j]
    BY <1>2, <1>5, <1>7, Meanings DEF PhaseMeans
  <2> QED BY <2>1, FunctionForms
<1> QED BY <1>3, <1>4, <1>8, <1>9 DEF Pool!LoadFailed

LEMMA RegisterIsLoadDone ==
  ASSUME LInv, LInv', NEW r \in Requests, Register(r)
  PROVE  Pool!LoadDone(r, req[r].key)
<1> USE SentinelAssumption, SlotFacts
<1> DEFINE k == req[r].key
           s == req[r].slot
<1>1. s \in Slots /\ k \in Keys /\ loading[s] = k /\ s \in LoadingSlots
  BY DEF LInv, IInv, RequestsOK, RequestOK, Register, LoadingPcs, LoadingSlots
<1>2. k \notin Registered
  BY <1>1 DEF LInv, IInv, PoolConsistent
<1>3. /\ \A u \in Slots : loading'[u] = IF u = s THEN NoKey ELSE loading[u]
      /\ \A j \in Keys : runners'[j] = IF j = k THEN s ELSE runners[j]
      /\ UNCHANGED loadsEnabled
      /\ req[r].pc # "serving" /\ req'[r].pc = "serving" /\ req'[r].key = k
      /\ \A q \in Requests : q # r => req'[q] = req[q]
  BY <1>1 DEF Register, LInv, IInv, TypeOK, RequestStates
<1>4. \A j \in Keys : j \in Registered' <=> j \in Registered \/ j = k
  BY <1>1, <1>3 DEF Registered
<1>5. \A u \in Slots : u # s => loading[u] # k
  BY <1>1, LoadedOnce
<1>6. BeingLoaded' = BeingLoaded \ {k}
  <2>1. \A j : j \in BeingLoaded' <=> j # NoKey /\ \E u \in Slots : loading'[u] = j
    BY DEF BeingLoaded
  <2>2. \A j : j \in BeingLoaded <=> j # NoKey /\ \E u \in Slots : loading[u] = j
    BY DEF BeingLoaded
  <2>3. \A j : j \in BeingLoaded' <=> j \in BeingLoaded \ {k}
    BY <1>1, <1>3, <1>5, <2>1, <2>2
  <2> QED BY <2>3
<1>7. Phase[k] = "loading"
  BY <1>1, <1>2, Meanings DEF PhaseMeans, BeingLoaded
<1>8. Phase' = [Phase EXCEPT ![k] = "present"]
  <2>1. \A j \in Keys : Phase'[j] = IF j = k THEN "present" ELSE Phase[j]
    BY <1>1, <1>2, <1>4, <1>6, Meanings DEF PhaseMeans
  <2> QED BY <2>1, FunctionForms
<1>9. LeaseHolders[k] = {}
  BY <1>1, <1>2, Meanings DEF HeldPresent
<1>10. LeaseHolders' = [LeaseHolders EXCEPT ![k] = {r}]
  <2>1. \A j \in Keys : LeaseHolders'[j] = IF j = k THEN {r} ELSE LeaseHolders[j]
    <3>1. \A q \in Requests : ~(req[q].pc = "serving" /\ req[q].key = k)
      BY <1>1, <1>9 DEF LeaseHolders
    <3>2. {q \in Requests : req'[q].pc = "serving" /\ req'[q].key = k} = {r}
      BY <1>3, <3>1
    <3>3. ASSUME NEW j \in Keys, j # k PROVE LeaseHolders'[j] = LeaseHolders[j]
      BY <1>3, <3>3 DEF LeaseHolders
    <3> QED BY <1>1, <3>2, <3>3 DEF LeaseHolders
  <2> QED BY <2>1, FunctionForms
<1> QED BY <1>3, <1>7, <1>8, <1>10, HoldsNothing DEF Pool!LoadDone

LEMMA ReleaseIsGiveBack ==
  ASSUME NoDrafts, FewRequests, LInv, LInv', NEW r \in Requests, Release(r)
  PROVE  Pool!GiveBack(r, req[r].key)
<1> USE SlotFacts
<1> DEFINE k == req[r].key
           K == {j \in Registered : /\ references'[runners[j]] = 0
                                    /\ ConfigKey(j) = ConfigKey(k)}
<1>1. req[r].pc = "serving" /\ k \in Registered /\ k \in Keys
  BY DEF Release, LInv, LeasesOK, Leased, Registered
<1>2. /\ Evict(K) \/ UNCHANGED runners
      /\ UNCHANGED <<loading, loadsEnabled>>
      /\ req' = [req EXCEPT ![r] = NoRequest(AfterReturn)]
  BY DEF Release
<1>3. K \subseteq {k}
  BY <1>1, ReleaseSlot
<1> HIDE DEF K
<1>4. PICK D \in {{}, {k}} : \A j \in Keys : runners'[j] = IF j \in D THEN NoSlot ELSE runners[j]
  <2>1. CASE Evict(K)
    <3>1. K = {} \/ K = {k}
      BY <1>3
    <3> QED BY <2>1, <3>1 DEF Evict
  <2>2. CASE UNCHANGED runners
    BY <2>2
  <2> QED BY <1>2, <2>1, <2>2
<1>5. /\ req'[r].pc # "serving"
      /\ \A q \in Requests : q # r => req'[q] = req[q]
  BY <1>2, ReturnAssumption DEF NoRequest, LInv, IInv, TypeOK
<1>6. r \in LeaseHolders[k]
  BY <1>1 DEF LeaseHolders
<1>7. LeaseHolders' = [LeaseHolders EXCEPT ![k] = @ \ {r}]
  <2>1. \A j \in Keys : LeaseHolders'[j] = IF j = k THEN LeaseHolders[j] \ {r} ELSE LeaseHolders[j]
    BY <1>1, <1>5 DEF LeaseHolders
  <2> QED BY <2>1, FunctionForms
<1>8. \A j \in Keys : j \in Registered' <=> j \in Registered /\ j \notin D
  BY <1>4 DEF Registered
<1>9. BeingLoaded' = BeingLoaded
  BY <1>2 DEF BeingLoaded
<1>10. Phase' = Pool!Without(D)
  <2>1. \A j \in Keys : Phase'[j] = IF j \in D THEN "absent" ELSE Phase[j]
    BY <1>1, <1>4, <1>8, <1>9, Meanings DEF PhaseMeans
  <2> QED BY <2>1, FunctionForms DEF Pool!Without
<1>11. D \subseteq Pool!Free(LeaseHolders')
  <2>1. \A j \in D : j \in Keys /\ Phase[j] = "present"
    BY <1>1, <1>4, Meanings DEF PhaseMeans
  <2>2. \A j \in D : LeaseHolders'[j] = {}
    BY <1>8, <2>1, Meanings DEF HeldPresent
  <2> QED BY <2>1, <2>2 DEF Pool!Free
<1> QED BY <1>2, <1>6, <1>7, <1>10, <1>11 DEF Pool!GiveBack

(***************************************************************************)
(* Every step.                                                             *)
(***************************************************************************)
LEMMA AttemptImplements ==
  ASSUME LInv, LInv', NEW r \in Requests, req[r].pc \in {"idle", "woken"},
         NEW k \in Keys, NEW c \in MaybeConfigs, Attempt(r, k, c)
  PROVE  [Pool!Next]_Pool!pool
<1>1. CASE Refuse(r) \/ Wait(r, k, c)
  <2>1. PICK x : req' = [req EXCEPT ![r] = x] /\ x.pc # "serving"
    <3>1. NoRequest(AfterReturn).pc # "serving"
      BY ReturnAssumption DEF NoRequest
    <3>2. [NoRequest("waiting") EXCEPT !.key = k, !.config = c].pc # "serving"
      BY DEF NoRequest
    <3> QED BY <1>1, <3>1, <3>2 DEF Refuse, Wait, Return
  <2>2. \A q \in Requests :
          req[q].pc = "serving" \/ req'[q].pc = "serving" => req'[q] = req[q]
    BY <2>1 DEF LInv, IInv, TypeOK
  <2>3. UNCHANGED poolVars
    BY <1>1 DEF Refuse, Wait
  <2> QED BY <2>2, <2>3, Unnoticed DEF poolVars
<1>2. CASE Acquire(r, k, c)
  BY <1>2, AcquireIsLease DEF Pool!Next
<1>3. CASE Reserve(r, k, c)
  BY <1>3, ReserveIsBeginLoad DEF Pool!Next
<1> QED BY <1>1, <1>2, <1>3 DEF Attempt

LEMMA RequestImplements ==
  ASSUME NoDrafts, FewRequests, LInv, LInv', NEW r \in Requests,
         Cancel(r) \/ RequestStep(r)
  PROVE  [Pool!Next]_Pool!pool
<1>1. CASE \/ Wake(r) \/ Cancel(r) \/ StartFails(r) \/ Healthy(r) \/ WaitFails(r)
           \/ \E i \in Runners : StartRunner(r, i)
  <2>1. req[r].pc # "serving" /\ UNCHANGED poolVars
    BY <1>1 DEF Wake, Cancel, StartFails, Healthy, WaitFails, StartRunner
  <2>2. PICK x : req' = [req EXCEPT ![r] = x] /\ x.pc # "serving"
    <3>1. CASE Cancel(r)
      <4>1. NoRequest(AfterReturn).pc # "serving"
        BY ReturnAssumption DEF NoRequest
      <4> QED BY <3>1, <4>1 DEF Cancel, Return
    <3>2. CASE Wake(r) \/ StartFails(r) \/ Healthy(r) \/ WaitFails(r)
      BY <3>2 DEF Wake, StartFails, Healthy, WaitFails, LInv, IInv, TypeOK, RequestStates
    <3>3. ASSUME NEW i \in Runners, StartRunner(r, i)
          PROVE  \E x : req' = [req EXCEPT ![r] = x] /\ x.pc # "serving"
      <4>1. [req[r] EXCEPT !.pc = "probing", !.runner = i].pc # "serving"
        BY DEF LInv, IInv, TypeOK, RequestStates
      <4> QED BY <3>3, <4>1 DEF StartRunner
    <3> QED BY <1>1, <3>1, <3>2, <3>3
  <2>3. \A q \in Requests :
          req[q].pc = "serving" \/ req'[q].pc = "serving" => req'[q] = req[q]
    BY <2>1, <2>2 DEF LInv, IInv, TypeOK
  <2> QED BY <2>1, <2>3, Unnoticed DEF poolVars
<1>2. CASE Retry(r)
  <2>1. req[r].key \in Keys /\ req[r].config \in MaybeConfigs
    BY <1>2 DEF LInv, IInv, TypeOK, RequestsOK, RequestOK, Retry, RequestStates
  <2> QED BY <1>2, <2>1, AttemptImplements DEF Retry
<1>3. CASE Unreserve(r) \/ Register(r) \/ Release(r)
  <2>1. req[r].key \in Keys
    BY <1>3 DEF LInv, IInv, RequestsOK, RequestOK, Unreserve, Register, Release, LoadingPcs
  <2> QED BY <1>3, <2>1, UnreserveIsLoadFailed, RegisterIsLoadDone, ReleaseIsGiveBack
          DEF Pool!Next
<1> QED BY <1>1, <1>2, <1>3 DEF RequestStep

LEMMA OthersImplement ==
  ASSUME LInv, LInv',
         \/ \E t \in Targets, c \in Configs : SetConfig(t, c)
         \/ UnloadAll
         \/ \E b \in Backends \cup {AnyBackend}, M \in SUBSET Models : UnloadModels(b, M)
         \/ \E b \in Backends : UnloadBackend(b)
         \/ LoopStart \/ LoopAbort \/ LoopCancel \/ LoopStep
         \/ \E i \in Runners : Crash(i)
         \/ Tick \/ UNCHANGED vars
  PROVE  [Pool!Next]_Pool!pool
<1>1. ASSUME NEW K \in SUBSET UnusedKeys, Evict(K),
             UNCHANGED <<loadsEnabled, loading, references, req>>
      PROVE  [Pool!Next]_Pool!pool
  BY <1>1, EvictQuiet, DropStep DEF LInv, IInv
<1>2. CASE \E t \in Targets, c \in Configs : SetConfig(t, c)
  <2> PICK t \in Targets, c \in Configs : SetConfig(t, c)
    BY <1>2
  <2> DEFINE j == RunnerKey(t, DraftOf(c))
             K == IF j \in Registered THEN UnusedOf(t.backend, {t.model}, {t.mode}) ELSE {}
  <2>1. K \subseteq UnusedKeys
    BY DEF UnusedOf
  <2>2. Evict(K) /\ UNCHANGED <<loadsEnabled, loading, references, req>>
    BY DEF SetConfig
  <2> HIDE DEF K
  <2> QED BY <1>1, <2>1, <2>2
<1>3. CASE UnloadAll \/ Drain
  BY <1>1, <1>3 DEF UnloadAll, Drain
<1>4. ASSUME NEW b, NEW M, UnloadModels(b, M) PROVE [Pool!Next]_Pool!pool
  <2>1. UnusedOf(b, M, BackendModes) \subseteq UnusedKeys
    BY DEF UnusedOf
  <2> QED BY <1>1, <1>4, <2>1 DEF UnloadModels
<1>5. ASSUME NEW b, UnloadBackend(b) PROVE [Pool!Next]_Pool!pool
  BY <1>1, <1>5 DEF UnloadBackend
<1>6. CASE IdleTimer
  BY <1>1, <1>6 DEF IdleTimer
<1>7. CASE LoopAbort \/ IdleCheck \/ DrainWake \/ Tick \/ UNCHANGED vars
           \/ \E i \in Runners : Crash(i)
  <2>1. UNCHANGED <<runners, slots, references, loading, loadsEnabled, req>>
    BY <1>7 DEF LoopAbort, IdleCheck, DrainWake, Tick, Crash, vars, poolVars
  <2> QED BY <2>1, Unnoticed
<1>8. CASE LoopStart \/ LoopCancel
  <2>1. UNCHANGED <<runners, loading, req>> /\ loadsEnabled' \in BOOLEAN
    BY <1>8 DEF LoopStart, LoopCancel
  <2>2. UNCHANGED <<Phase, LeaseHolders>>
    BY <2>1 DEF Phase, LeaseHolders
  <2>3. loadsEnabled \in BOOLEAN
    BY DEF LInv, IInv, TypeOK
  <2> QED BY <2>1, <2>2, <2>3 DEF Pool!Next, Pool!OpenPool, Pool!ClosePool, Pool!pool
<1> QED BY <1>2, <1>3, <1>4, <1>5, <1>6, <1>7, <1>8 DEF LoopStep

LEMMA StepImplements ==
  ASSUME NoDrafts, FewRequests, LInv, LInv', [Next]_vars
  PROVE  [Pool!Next]_Pool!pool
<1>1. ASSUME NEW r \in Requests, NEW t \in Targets, Load(r, t) PROVE [Pool!Next]_Pool!pool
  BY <1>1, CallType, AttemptImplements DEF LInv, IInv, Load
<1>2. ASSUME NEW r \in Requests, Cancel(r) \/ RequestStep(r) PROVE [Pool!Next]_Pool!pool
  BY <1>2, RequestImplements
<1> QED BY <1>1, <1>2, OthersImplement DEF Next

LEMMA InitImplements == Init => Pool!Init
<1> SUFFICES ASSUME Init PROVE Pool!Init
  OBVIOUS
<1>1. \A k \in Keys : Phase[k] = "absent"
  BY SentinelAssumption DEF Init, Phase
<1>2. \A k \in Keys : LeaseHolders[k] = {}
  BY DEF Init, LeaseHolders, NoRequest
<1>3. Phase = [k \in Keys |-> "absent"] /\ LeaseHolders = [k \in Keys |-> {}]
  BY <1>1, <1>2, FunctionForms
<1> QED BY <1>3 DEF Init, Pool!Init

\* Without drafts the loader implements the pool: no runner in use leaves it, no key
\* is loaded twice at a time, and no more keys occupy it than it has slots.
THEOREM Implements == ASSUME NoDrafts, FewRequests PROVE Spec => PoolSpec
<1>1. LInv /\ LInv' /\ [Next]_vars => [Pool!Next]_Pool!pool
  BY StepImplements
<1> QED BY <1>1, InitImplements, LInvAlways, PTL DEF Spec, PoolSpec, Pool!Spec

(***************************************************************************)
(* The guard under which every step above is taken.  Its token is in the   *)
(* channel or with a caller, but for the callers of setRunnerConfig that   *)
(* went on without it, each of whom is counted.                            *)
(***************************************************************************)
GuardInv == GuardTypeOK /\ TokensCounted

LEMMA HoldingFacts ==
  ASSUME IsFiniteSet(Entrants)
  PROVE  /\ IsFiniteSet(Holding) /\ IsFiniteSet(Holding')
         /\ Cardinality(Holding) \in Nat /\ Cardinality(Holding') \in Nat
<1>1. Holding \subseteq Entrants /\ Holding' \subseteq Entrants
  BY DEF Holding
<1> QED BY <1>1, FS_Subset, FS_CardinalityType

\* A caller that gets in, and one that gets out.
LEMMA OneMore ==
  ASSUME IsFiniteSet(Entrants), NEW c \in Entrants, c \notin Holding,
         Holding' = Holding \cup {c}
  PROVE  Cardinality(Holding') = Cardinality(Holding) + 1
BY HoldingFacts, FS_AddElement

LEMMA OneLess ==
  ASSUME IsFiniteSet(Entrants), NEW c \in Holding, Holding' = Holding \ {c}
  PROVE  Cardinality(Holding') = Cardinality(Holding) - 1
BY HoldingFacts, FS_RemoveElement

\* The initial states: the channel is full and nobody holds the token.
LEMMA GuardStarts == GuardInit => GuardInv
<1> SUFFICES ASSUME GuardInit PROVE GuardInv
  OBVIOUS
<1>1. Holding = {}
  BY DEF GuardInit, Holding
<1>2. Cardinality(Holding) = 0
  BY <1>1, FS_EmptySet
<1> QED BY <1>2 DEF GuardInit, GuardInv, GuardTypeOK, TokensCounted, Capacity

\* No step of any caller breaks the invariant.
LEMMA GuardStep ==
  ASSUME IsFiniteSet(Entrants), GuardInv, [GuardNext]_guardVars
  PROVE  GuardInv'
<1> USE HoldingFacts DEF Capacity
<1>1. CASE UNCHANGED guardVars
  BY <1>1 DEF guardVars, GuardInv, GuardTypeOK, TokensCounted, Holding
<1>2. ASSUME NEW c \in Entrants, Call(c) \/ CancelCall(c) \/ Leave(c)
      PROVE  GuardInv'
  <2>1. Holding' = Holding /\ UNCHANGED <<guard, intrusions>>
    BY <1>2 DEF Call, CancelCall, Leave, Move, Holding, GuardInv, GuardTypeOK
  <2>2. GuardTypeOK'
    BY <1>2 DEF Call, CancelCall, Leave, Move, GuardInv, GuardTypeOK
  <2> QED BY <2>1, <2>2 DEF GuardInv, TokensCounted
<1>3. ASSUME NEW c \in Entrants, Lock(c)
      PROVE  GuardInv'
  <2>1. c \notin Holding /\ Holding' = Holding \cup {c}
    BY <1>3 DEF Lock, Move, Holding, GuardInv, GuardTypeOK
  <2>2. GuardTypeOK'
    BY <1>3 DEF Lock, Move, GuardInv, GuardTypeOK
  <2>3. Cardinality(Holding') = Cardinality(Holding) + 1
    BY <2>1, OneMore
  <2>4. guard' = guard - 1 /\ intrusions' = intrusions
    BY <1>3 DEF Lock
  <2> QED BY <2>2, <2>3, <2>4 DEF GuardInv, GuardTypeOK, TokensCounted
<1>4. ASSUME NEW c \in Entrants, LockFails(c), c \notin Setters
      PROVE  GuardInv'
  <2>1. Holding' = Holding /\ UNCHANGED <<guard, intrusions>>
    BY <1>4 DEF LockFails, Move, Holding, GuardInv, GuardTypeOK
  <2>2. GuardTypeOK'
    BY <1>4 DEF LockFails, Move, GuardInv, GuardTypeOK
  <2> QED BY <2>1, <2>2 DEF GuardInv, TokensCounted
<1>5. ASSUME NEW c \in Entrants, LockFails(c), c \in Setters
      PROVE  GuardInv'
  <2>1. c \notin Holding /\ Holding' = Holding \cup {c}
    BY <1>5 DEF LockFails, Move, Holding, GuardInv, GuardTypeOK
  <2>2. GuardTypeOK'
    BY <1>5 DEF LockFails, Move, GuardInv, GuardTypeOK
  <2>3. Cardinality(Holding') = Cardinality(Holding) + 1
    BY <2>1, OneMore
  <2>4. guard' = guard /\ intrusions' = intrusions + 1
    BY <1>5 DEF LockFails
  <2> QED BY <2>2, <2>3, <2>4 DEF GuardInv, GuardTypeOK, TokensCounted
<1>6. ASSUME NEW c \in Entrants, Unlock(c)
      PROVE  GuardInv'
  <2>1. c \in Holding /\ Holding' = Holding \ {c}
    BY <1>6 DEF Unlock, Move, Holding, GuardInv, GuardTypeOK
  <2>2. GuardTypeOK'
    BY <1>6 DEF Unlock, Move, GuardInv, GuardTypeOK
  <2> QED BY <1>6, <2>1, <2>2, OneLess DEF Unlock, GuardInv, GuardTypeOK, TokensCounted
<1> QED BY <1>1, <1>2, <1>3, <1>4, <1>5, <1>6 DEF GuardNext

\* The token is never lost, for any number of goroutines and whatever is
\* cancelled; and each time setRunnerConfig goes on without it, one more goroutine
\* is inside the guard for good.
THEOREM TokenConserved ==
  ASSUME IsFiniteSet(Entrants)
  PROVE  GuardSpec => []TokensCounted
<1>1. GuardInv /\ [GuardNext]_guardVars => GuardInv'
  BY GuardStep
<1>2. GuardInv => TokensCounted
  BY DEF GuardInv
<1> QED BY GuardStarts, <1>1, <1>2, PTL DEF GuardSpec

\* So the fields of the loader are operated on by one goroutine at a time until a
\* call of setRunnerConfig is cancelled while it waits for the guard.
THEOREM Serialised ==
  ASSUME IsFiniteSet(Entrants)
  PROVE  GuardSpec => []TakeTurns
<1>1. GuardInv /\ [GuardNext]_guardVars => GuardInv'
  BY GuardStep
<1>2. ASSUME GuardInv PROVE TakeTurns
  <2> SUFFICES ASSUME intrusions = 0, NEW c \in Holding, NEW d \in Holding PROVE c = d
    BY DEF TakeTurns, MutualExclusion
  <2>1. Cardinality(Holding) <= 1
    BY <1>2, HoldingFacts DEF GuardInv, GuardTypeOK, TokensCounted, Capacity
  <2>2. SUFFICES ASSUME c # d PROVE FALSE
    OBVIOUS
  <2>3. {c, d} \subseteq Holding /\ IsFiniteSet({c}) /\ Cardinality({c}) = 1 /\ d \notin {c}
    BY <2>2, FS_Singleton
  <2>4. Cardinality({c} \cup {d}) = 2
    BY <2>3, FS_AddElement
  <2>5. Cardinality({c} \cup {d}) <= Cardinality(Holding)
    BY <2>3, HoldingFacts, FS_Subset
  <2> QED BY <2>1, <2>4, <2>5, HoldingFacts
<1> QED BY GuardStarts, <1>1, <1>2, PTL DEF GuardSpec
=============================================================================
