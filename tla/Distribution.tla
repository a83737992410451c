---------------------------- MODULE Distribution ----------------------------
(***************************************************************************)
(* A model on its way from one store to another: RegistryPush writes it to *)
(* the registry, LayerPull fetches one of its layers from there.  A pull   *)
(* resolves the manifest before it asks for blobs (registry.Client.Model). *)
(***************************************************************************)
EXTENDS RegistryPush, LayerPull

CONSTANT Pulled  \* the layer the pulls are followed for

ASSUME PulledAssumption == Pulled \in Layers

distVars == <<pushVars, pullVars>>

Init == PushInit /\ PullInit

\* Without a manifest PullModel fails before anything else.
Resolve(p) == manifest /\ BeginPull(p)

PullerStep(p) == (Resolve(p) \/ BeginLoad(p) \/ PullStep(p)) /\ UNCHANGED pushVars

Next ==
  \/ PushNext /\ UNCHANGED pullVars
  \/ \E p \in Pullers : PullerStep(p)
  \/ CrashPulls /\ UNCHANGED pushVars

Fairness ==
  /\ PushFairness
  /\ \A p \in Pullers : WF_pullVars(PullStep(p)) /\ WF_pullVars(Resolve(p))

Spec == Init /\ [][Next]_distVars /\ Fairness

\* A published layer arrives, however often its download is interrupted:
\* nothing a fault leaves behind makes every later attempt fail.
PublishedArrives == manifest ~> [](blob # NoInode)
=============================================================================
