----------------------------- MODULE LoaderGuard -----------------------------
(***************************************************************************)
(* The guard of the runner loader: a channel of one token, received by     *)
(* lock and sent back by unlock.  Loader.tla takes each critical section   *)
(* for one step; this module is about what that rests on.  lock gives up   *)
(* when the context of its caller is cancelled, and most callers then      *)
(* return; setRunnerConfig does not look at the result, and goes on.       *)
(***************************************************************************)
EXTENDS Integers, FiniteSets, Sequences

CONSTANTS
  Entrants,    \* goroutines that enter the loader, one call after another
  Setters,     \* those that call setRunnerConfig
  Cancellable  \* those whose context may be cancelled

ASSUME EntrantsAssumption == Setters \subseteq Entrants /\ Cancellable \subseteq Entrants

Capacity == 1

VARIABLES
  guard,      \* the tokens in l.guard
  place,      \* where each caller is
  recvq,      \* those that wait for the token, in the order they came
  cancelled,  \* callers whose context is cancelled
  intrusions  \* how often setRunnerConfig went on without the token (history)

guardVars == <<guard, place, recvq, cancelled, intrusions>>

GuardInit ==
  /\ guard = 1
  /\ place = [c \in Entrants |-> "outside"]
  /\ recvq = <<>>
  /\ cancelled = {}
  /\ intrusions = 0

Move(c, to) == place' = [place EXCEPT ![c] = to]

\* A call with a context of its own.
Call(c) ==
  /\ place[c] = "outside"
  /\ Move(c, "locking")
  /\ recvq' = Append(recvq, c)
  /\ cancelled' = cancelled \ {c}
  /\ UNCHANGED <<guard, intrusions>>

CancelCall(c) ==
  /\ c \in Cancellable \ cancelled
  /\ cancelled' = cancelled \cup {c}
  /\ UNCHANGED <<guard, place, recvq, intrusions>>

\* lock receives the token, in turn ...
Lock(c) ==
  /\ place[c] = "locking"
  /\ c = Head(recvq)
  /\ guard > 0
  /\ recvq' = Tail(recvq)
  /\ guard' = guard - 1
  /\ Move(c, "inside")
  /\ UNCHANGED <<cancelled, intrusions>>

\* Mutant: nobody looks at the result of lock.
LockFailsUnseen(c) ==
  /\ place[c] = "locking"
  /\ c \in cancelled
  /\ Move(c, "inside")
  /\ recvq' = SelectSeq(recvq, LAMBDA d : d # c)
  /\ UNCHANGED <<guard, cancelled, intrusions>>

\* ... or returns false: a caller goes home, setRunnerConfig goes on.
LockFails(c) ==
  /\ place[c] = "locking"
  /\ c \in cancelled
  /\ recvq' = SelectSeq(recvq, LAMBDA d : d # c)
  /\ IF c \in Setters THEN Move(c, "inside") /\ intrusions' = intrusions + 1
                       ELSE Move(c, "outside") /\ UNCHANGED intrusions
  /\ UNCHANGED <<guard, cancelled>>

\* Mutant: an early return that forgets to unlock.
LeaveLocked(c) ==
  /\ place[c] = "inside"
  /\ Move(c, "outside")
  /\ UNCHANGED <<guard, recvq, cancelled, intrusions>>

\* The critical section ends, at the (deferred) call of unlock.
Leave(c) ==
  /\ place[c] = "inside"
  /\ Move(c, "unlocking")
  /\ UNCHANGED <<guard, recvq, cancelled, intrusions>>

\* Mutant: the guard is unlocked by an early return and by the deferred call.
UnlockTwice(c) ==
  /\ place[c] = "unlocking"
  /\ guard' = guard + 2
  /\ Move(c, "outside")
  /\ UNCHANGED <<recvq, cancelled, intrusions>>

\* unlock sends the token back, which blocks while the channel is full.
Unlock(c) ==
  /\ place[c] = "unlocking"
  /\ guard < Capacity
  /\ guard' = guard + 1
  /\ Move(c, "outside")
  /\ UNCHANGED <<recvq, cancelled, intrusions>>

GuardNext ==
  \E c \in Entrants : \/ Call(c) \/ CancelCall(c)
                     \/ Lock(c) \/ LockFails(c)
                     \/ Leave(c) \/ Unlock(c)

GuardSpec == GuardInit /\ [][GuardNext]_guardVars

(***************************************************************************)
(* Properties.                                                             *)
(***************************************************************************)
Holding == {c \in Entrants : place[c] \in {"inside", "unlocking"}}

\* Every variable has its type.
GuardTypeOK ==
  /\ guard \in 0 .. Capacity
  /\ place \in [Entrants -> {"outside", "locking", "inside", "unlocking"}]
  /\ cancelled \subseteq Cancellable
  /\ intrusions \in Nat

\* "It is buffered (with size 1) and contains a single element that must be
\* held in order to operate on those fields": one caller at a time.
MutualExclusion == \A c, d \in Holding : c = d

\* The token is never lost: whatever is cancelled, the callers inside are as many
\* as the channel lacks tokens and setRunnerConfig has intruded.  The channel
\* holds one token at most, so each intrusion leaves one more caller inside for
\* good, at last in front of an unlock that blocks for ever.
TokensCounted == Cardinality(Holding) + guard = 1 + intrusions

\* Until the first intrusion the callers take turns.
TakeTurns == intrusions = 0 => MutualExclusion
=============================================================================
