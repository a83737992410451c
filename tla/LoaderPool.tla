----------------------------- MODULE LoaderPool -----------------------------
(***************************************************************************)
(* The loader implements the pool of RunnerPool: slots, reference counts,  *)
(* processes, timers and signals are hidden.                               *)
(***************************************************************************)
EXTENDS Loader

Phase == [k \in Keys |-> IF runners[k] # NoSlot THEN "present"
                         ELSE IF \E s \in Slots : loading[s] = k THEN "loading"
                         ELSE "absent"]

LeaseHolders == [k \in Keys |-> {r \in Requests : req[r].pc = "serving" /\ req[r].key = k}]

Pool == INSTANCE RunnerPool WITH
  Clients <- Requests, PoolKeys <- Keys, Capacity <- NSlots,
  open <- loadsEnabled, phase <- Phase, holders <- LeaseHolders

\* Every behaviour of the loader is one of the pool: no runner that a request
\* still uses leaves the pool, a key is loaded at most once at a time, and the
\* slots, those reserved for loads included, are never overcommitted.
PoolSpec == Pool!Spec
=============================================================================
