----------------------------- MODULE RunnerPool -----------------------------
(***************************************************************************)
(* What the loader promises to the rest of the scheduler: a bounded pool   *)
(* of runners, at most one per key, leased to requests.  A runner leaves   *)
(* the pool only while nobody holds it.  There are no slots here, and no   *)
(* reference counts: the pool knows who holds what.                        *)
(***************************************************************************)
EXTENDS Integers, FiniteSets

CONSTANTS Clients, PoolKeys, Capacity

VARIABLES
  open,     \* leases are being granted
  phase,    \* of each key's runner
  holders   \* the clients that hold each key's runner

pool == <<open, phase, holders>>

Occupied(ph) == {k \in PoolKeys : ph[k] # "absent"}

\* Runners that may go, if h says who holds them.
Free(h) == {k \in PoolKeys : phase[k] = "present" /\ h[k] = {}}

Without(K) == [k \in PoolKeys |-> IF k \in K THEN "absent" ELSE phase[k]]

Init ==
  /\ open = FALSE
  /\ phase = [k \in PoolKeys |-> "absent"]
  /\ holders = [k \in PoolKeys |-> {}]

OpenPool ==
  /\ ~open
  /\ open' = TRUE
  /\ UNCHANGED <<phase, holders>>

ClosePool ==
  /\ open
  /\ open' = FALSE
  /\ UNCHANGED <<phase, holders>>

\* Some runners nobody holds are dropped, and room is made for k's.
BeginLoad(k) ==
  /\ open
  /\ \E K \in SUBSET Free(holders) :
       /\ Without(K)[k] = "absent"
       /\ phase' = [Without(K) EXCEPT ![k] = "loading"]
  /\ Cardinality(Occupied(phase')) <= Capacity
  /\ UNCHANGED <<open, holders>>

LoadFailed(k) ==
  /\ phase[k] = "loading"
  /\ phase' = [phase EXCEPT ![k] = "absent"]
  /\ UNCHANGED <<open, holders>>

\* A load that was begun may end after the pool was closed.
LoadDone(c, k) ==
  /\ phase[k] = "loading"
  /\ \A j \in PoolKeys : c \notin holders[j]
  /\ phase' = [phase EXCEPT ![k] = "present"]
  /\ holders' = [holders EXCEPT ![k] = {c}]
  /\ UNCHANGED open

Lease(c, k) ==
  /\ open
  /\ phase[k] = "present"
  /\ \A j \in PoolKeys : c \notin holders[j]
  /\ holders' = [holders EXCEPT ![k] = @ \cup {c}]
  /\ UNCHANGED <<open, phase>>

\* The runner is dropped at once if this was its last holder and it is dead.
GiveBack(c, k) ==
  /\ c \in holders[k]
  /\ holders' = [holders EXCEPT ![k] = @ \ {c}]
  /\ \E K \in SUBSET Free(holders') : phase' = Without(K)
  /\ UNCHANGED open

Drop ==
  /\ \E K \in (SUBSET Free(holders)) \ {{}} : phase' = Without(K)
  /\ UNCHANGED <<open, holders>>

Next ==
  \/ OpenPool \/ ClosePool \/ Drop
  \/ \E k \in PoolKeys : BeginLoad(k) \/ LoadFailed(k)
  \/ \E c \in Clients, k \in PoolKeys :
       LoadDone(c, k) \/ Lease(c, k) \/ GiveBack(c, k)

Spec == Init /\ [][Next]_pool
=============================================================================
