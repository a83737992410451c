--------------------------- MODULE BackendProcess ---------------------------
(***************************************************************************)
(* Running a backend's program: RunBackend of backends/runner.go as the    *)
(* loader uses it.  The runs of one slot follow each other and share one   *)
(* socket path; each has the goroutine that calls Run and another one that *)
(* waits for the process.  The program is external: it opens its socket,   *)
(* answers an interrupt late or never, writes to stderr, and dies.         *)
(***************************************************************************)
EXTENDS Naturals, Sequences

CONSTANTS Lines,     \* what a program may write to stderr
          Kept,      \* lines the tail buffer keeps
          Runs       \* how many runs of the slot, one after another

ProcessAssumption == Kept \in Nat /\ Runs \in Nat \ {0}

VARIABLES
  run,        \* the current run; those before it have returned
  phase,      \* of Run: "new", "running", "leaving", "returned"
  cancelled,  \* its context was cancelled
  alive,      \* the runs whose process is up
  socket,     \* whose socket file is there, 0 for none
  waiter,     \* by run: "none", "waiting", "read", "sent", "done"
  written,    \* by run: what its process wrote to stderr
  told,       \* by run: the error that its waiter sent
  result      \* by run: what Run returned ("" while it runs) and the text of its error

bpVars == <<run, phase, cancelled, alive, socket, waiter, written, told, result>>
Ids == 1..Runs
Returned(how, text) == [how |-> how, text |-> text]
BPTypeOK ==
  /\ run \in Ids /\ phase \in {"new", "running", "leaving", "returned"}
  /\ cancelled \in BOOLEAN /\ alive \subseteq Ids /\ socket \in Ids \cup {0}
  /\ waiter \in [Ids -> {"none", "waiting", "read", "sent", "done"}]
  /\ written \in [Ids -> Seq(Lines)] /\ \A r \in Ids : Len(told[r]) <= Kept
  \* a process is watched for as long as it lives, its socket for a little longer
  /\ \A r \in alive : waiter[r] = "waiting"
  /\ socket # 0 => waiter[socket] \in {"waiting", "read", "sent"}

BPInit ==
  /\ run = 1 /\ phase = "new" /\ cancelled = FALSE /\ alive = {} /\ socket = 0
  /\ waiter = [r \in Ids |-> "none"] /\ written = [r \in Ids |-> <<>>]
  /\ told = [r \in Ids |-> <<>>] /\ result = [r \in Ids |-> Returned("", <<>>)]

(* The stale socket is removed and the process started; without a program on
   disk there is nothing to start, and Run returns the error at once. *)
Launch ==
  /\ phase = "new" /\ phase' = "running" /\ socket' = 0
  /\ alive' = alive \cup {run} /\ waiter' = [waiter EXCEPT ![run] = "waiting"]
  /\ UNCHANGED <<run, cancelled, written, told, result>>
CannotLaunch ==
  /\ phase = "new" /\ phase' = "returned" /\ socket' = 0
  /\ result' = [result EXCEPT ![run] = Returned("unable to start", <<>>)]
  /\ UNCHANGED <<run, cancelled, alive, waiter, written, told>>

-----------------------------------------------------------------------------
(* The process. *)
Listen(r) ==
  /\ r \in alive /\ socket' = r
  /\ UNCHANGED <<run, phase, cancelled, alive, waiter, written, told, result>>
WriteLine(r) ==
  /\ r \in alive /\ Len(written[r]) <= Kept
  /\ \E l \in Lines : written' = [written EXCEPT ![r] = Append(@, l)]
  /\ UNCHANGED <<run, phase, cancelled, alive, socket, waiter, told, result>>
Die(r) ==
  /\ r \in alive /\ alive' = alive \ {r}
  /\ UNCHANGED <<run, phase, cancelled, socket, waiter, written, told, result>>

(* The goroutine that waits for it: it reads the tail, sends the error, and
   then removes the socket file, when Run may have returned already and the
   slot may have another process. *)
TailOf(s) == SubSeq(s, IF Len(s) > Kept THEN Len(s) - Kept + 1 ELSE 1, Len(s))
EndedOrNot(r) == TRUE
Ended(r) == r \notin alive
ReadTail(r) ==
  /\ waiter[r] = "waiting" /\ Ended(r)
  /\ waiter' = [waiter EXCEPT ![r] = "read"] /\ told' = [told EXCEPT ![r] = TailOf(written[r])]
  /\ UNCHANGED <<run, phase, cancelled, alive, socket, written, result>>
SendError(r) ==
  /\ waiter[r] = "read" /\ waiter' = [waiter EXCEPT ![r] = "sent"]
  /\ UNCHANGED <<run, phase, cancelled, alive, socket, written, told, result>>
RemovedNot == socket
Removed == 0
RemoveSocket(r) ==
  /\ waiter[r] = "sent" /\ waiter' = [waiter EXCEPT ![r] = "done"] /\ socket' = Removed
  /\ UNCHANGED <<run, phase, cancelled, alive, written, told, result>>

-----------------------------------------------------------------------------
(* Run: the runner's terminate cancels its context; the select takes either
   ready case, and the cancelled context wins a second look; the deferred
   receive waits for the error, or for the closed channel after it. *)
Cancel ==
  /\ phase = "running" /\ ~cancelled /\ cancelled' = TRUE
  /\ UNCHANGED <<run, phase, alive, socket, waiter, written, told, result>>
Heard(r) == waiter[r] \in {"sent", "done"}
Leave ==
  /\ phase = "running" /\ (cancelled \/ Heard(run))
  /\ phase' = "leaving"
  /\ result' = [result EXCEPT ![run] =
       IF cancelled THEN Returned("nil", <<>>) ELSE Returned("terminated", told[run])]
  /\ UNCHANGED <<run, cancelled, alive, socket, waiter, written, told>>
MayReturnAtOnce(r) == TRUE
MayReturn(r) == Heard(r)
Return ==
  /\ phase = "leaving" /\ MayReturn(run) /\ phase' = "returned"
  /\ UNCHANGED <<run, cancelled, alive, socket, waiter, written, told, result>>

(* The loader frees the slot once Run has returned, and may use it again. *)
Reuse ==
  /\ phase = "returned" /\ run < Runs /\ run' = run + 1
  /\ phase' = "new" /\ cancelled' = FALSE
  /\ UNCHANGED <<alive, socket, waiter, written, told, result>>

BPNext ==
  \/ Launch \/ CannotLaunch \/ Cancel \/ Leave \/ Return \/ Reuse
  \/ \E r \in Ids : Listen(r) \/ WriteLine(r) \/ Die(r) \/ ReadTail(r) \/ SendError(r) \/ RemoveSocket(r)
BPSpec == BPInit /\ [][BPNext]_bpVars

-----------------------------------------------------------------------------
(* The slot's memory and socket belong to one process: a run that has
   returned has left none behind, so the loader never counts free what a
   dying process still holds (the deferred receive of runner.go:172-174). *)
OneProcess == alive \subseteq {run} /\ (phase = "returned" => alive = {})

(* A run that nobody cancelled fails with the end of what its process wrote,
   all of it that fits, and a cancelled one without an error, however the
   process ended. *)
ErrorIsTail ==
  \A r \in Ids : result[r].how = "terminated" => result[r].text = TailOf(written[r])
=============================================================================
