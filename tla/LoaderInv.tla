------------------------------ MODULE LoaderInv ------------------------------
(***************************************************************************)
(* An inductive invariant of Loader that implies PoolConsistent,           *)
(* SlotExclusive and NoOrphan, whatever drafts and configurations are used *)
(* and however the reference counts go wrong.  It says who owns a slot: a  *)
(* registered runner, or the one request that reserved it.                 *)
(***************************************************************************)
EXTENDS Loader

LoadingPcs == {"starting", "probing", "ready", "failed"}

\* A request that loads owns the reservation of its slot and its runner.
RequestOK(r) ==
  /\ req[r].pc \in {"waiting", "woken", "serving"} => req[r].key \in Keys
  /\ req[r].pc \in LoadingPcs => /\ req[r].slot \in Slots
                                 /\ req[r].key \in Keys
                                 /\ loading[req[r].slot] = req[r].key
  /\ Loads(r) => /\ req[r].runner \in Runners
                 /\ \A s \in Slots : slots[s] # req[r].runner

RequestsOK == \A r \in Requests : RequestOK(r)

\* Two requests never load into one slot, nor start the same runner.
ReservationsApart ==
  \A r, q \in Requests :
    req[r].pc \in LoadingPcs /\ req[q].pc \in LoadingPcs =>
      \/ r = q
      \/ /\ req[r].slot # req[q].slot
         /\ Loads(r) /\ Loads(q) => req[r].runner # req[q].runner

\* A runner sits in one slot.
SlotsApart ==
  \A s, u \in Slots : slots[s] = slots[u] /\ slots[s] # NoRunner => s = u

\* Every living process is where its record says it is.
ProcsOK ==
  \A i \in Runners : proc[i] # NoProc =>
    \/ slots[proc[i].slot] = i /\ runners[proc[i].key] = proc[i].slot
    \/ \E r \in Requests : /\ Loads(r)
                           /\ req[r].runner = i
                           /\ req[r].slot = proc[i].slot
                           /\ req[r].key = proc[i].key

IInv == /\ TypeOK
        /\ PoolConsistent
        /\ RequestsOK
        /\ ReservationsApart
        /\ SlotsApart
        /\ ProcsOK
=============================================================================
