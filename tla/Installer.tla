------------------------------ MODULE Installer ------------------------------
(***************************************************************************)
(* The backend installer of pkg/inference/scheduling/installer.go and the  *)
(* HTTP requests that use it.  The run loop installs the backends that are *)
(* not deferred without taking installMu; deferred ones are installed on   *)
(* demand, under installMu, by the request that first needs them.  Each    *)
(* status object carries two channels, closed when an installation         *)
(* completes or fails; failures and uninstalls replace the object.         *)
(***************************************************************************)
EXTENDS Integers, FiniteSets

CONSTANTS
  Backends,
  Deferred,     \* backends installed on demand only
  Lenient,      \* llama.cpp: Install returns nil whatever it could not download,
                \* but after a cancellation, and Uninstall removes nothing
  Callers,      \* HTTP requests, each making one call
  InstallOf,    \* backends named by install-backend requests
  UninstallOf,  \* backends named by uninstall-backend requests
  MayShutDown,  \* whether the worker context may be cancelled
  RunLoop,      \* the goroutine of installer.run
  NoBackend, NoOne

ASSUME InstallerAssumption ==
  /\ Deferred \subseteq Backends
  /\ Lenient \subseteq Backends
  /\ InstallOf \subseteq Backends
  /\ UninstallOf \subseteq Backends
  /\ MayShutDown \in BOOLEAN
  /\ RunLoop \notin Callers
  /\ NoOne \notin Callers \cup {RunLoop}
  /\ NoBackend \notin Backends

Procs == Callers \cup {RunLoop}
\* Status objects of one backend, in the order they replace each other: at
\* most one replacement for each call, and one by the run loop.
Statuses == 0 .. Cardinality(Callers) + 1

VARIABLES
  started,   \* i.started
  shutdown,  \* the context of run is cancelled
  status,    \* i.statuses: the current status object of each backend
  closed,    \* the closed channels of each status object
  err,       \* the err field of each status object
  disk,      \* backends whose files are in place (a part of them is none)
  torn,      \* those an uninstall that failed has taken files from since they
             \* were last installed (history)
  installMu, \* who holds i.installMu
  todo,      \* backends run has still to visit
  proc,      \* where each goroutine is: pc, backend, and status object read
  crashed    \* close of a closed channel: the goroutine panicked

vars == <<started, shutdown, status, closed, err, disk, torn, installMu, todo, proc, crashed>>
world == <<started, shutdown, todo>>
files == <<disk, torn>>

At(pc, b, g) == [pc |-> pc, backend |-> b, status |-> g]

Is(b, g, channel) == channel \in closed[b][g]

\* Close a channel of status object g of b.
Close(b, g, channel) ==
  /\ closed' = [closed EXCEPT ![b][g] = @ \cup {channel}]
  /\ crashed' = (crashed \/ Is(b, g, channel))

\* Where p is at pc: a goroutine that has done its work forgets what it read.
Moved(p, pc) ==
  IF pc \in {"done", "next"} THEN At(pc, NoBackend, 0) ELSE [proc[p] EXCEPT !.pc = pc]

Go(p, pc) == proc' = [proc EXCEPT ![p] = Moved(p, pc)]

Init ==
  /\ started = FALSE
  /\ shutdown = FALSE
  /\ status = [b \in Backends |-> 0]
  /\ closed = [b \in Backends |-> [g \in Statuses |-> {}]]
  /\ err = [b \in Backends |-> [g \in Statuses |-> "none"]]
  /\ disk \in SUBSET Backends      \* bundled, or left by an earlier session
  /\ torn = {}
  /\ installMu = NoOne
  /\ todo = Backends
  /\ proc = [p \in Procs |-> At("idle", NoBackend, 0)]
  /\ crashed = FALSE

(***************************************************************************)
(* The run loop.  i.mu guards single accesses to the statuses map and is   *)
(* not modelled: a read of the map is one step, and so is an assignment.   *)
(***************************************************************************)
RunStart ==
  /\ proc[RunLoop].pc = "idle"
  /\ started' = TRUE
  /\ Go(RunLoop, "next")
  /\ UNCHANGED <<shutdown, status, closed, err, files, installMu, todo, crashed>>

\* The next backend of the map iteration is deferred: one that takes up disk
\* space, if only with the remains of an interrupted installation, is verified
\* by installBackend, the others are left alone.
RunVisitDeferred(b) ==
  /\ proc[RunLoop].pc = "next"
  /\ b \in todo \cap Deferred
  /\ todo' = todo \ {b}
  /\ \/ proc' = [proc EXCEPT ![RunLoop] = At("lock", b, 0)]
     \/ b \notin disk /\ UNCHANGED proc
  /\ UNCHANGED <<started, shutdown, status, closed, err, files, installMu, crashed>>

\* It is not deferred: it is installed unless it has been already.
RunVisit(b) ==
  /\ proc[RunLoop].pc = "next"
  /\ b \in todo \ Deferred
  /\ todo' = todo \ {b}
  /\ IF Is(b, status[b], "installed") \/ err[b][status[b]] = "error"
     THEN UNCHANGED proc
     ELSE proc' = [proc EXCEPT ![RunLoop] = At("running", b, status[b])]
  /\ UNCHANGED <<started, shutdown, status, closed, err, files, installMu, crashed>>

\* Install returns nil: a backend that is not deferred has checked that its
\* program is there, and llama.cpp has looked at nothing.
RunInstalled ==
  LET b == proc[RunLoop].backend
      g == proc[RunLoop].status
  IN  /\ proc[RunLoop].pc = "running"
      /\ b \in disk \cup Lenient
      /\ Close(b, g, "installed")
      /\ Go(RunLoop, "next")
      /\ UNCHANGED <<world, status, err, files, installMu>>

\* Mutant: the failure is recorded, its channel never closed.
RunFailedSilently ==
  /\ proc[RunLoop].pc = "running"
  /\ err' = [err EXCEPT ![proc[RunLoop].backend][proc[RunLoop].status] = "error"]
  /\ Go(RunLoop, "next")
  /\ UNCHANGED <<world, status, closed, files, installMu, crashed>>

\* Install fails: after a cancellation only err is set.
RunFailed ==
  LET b == proc[RunLoop].backend
      g == proc[RunLoop].status
  IN  /\ proc[RunLoop].pc = "running"
      /\ err' = [err EXCEPT ![b][g] = IF shutdown THEN "shutdown" ELSE "error"]
      /\ IF shutdown THEN UNCHANGED <<closed, crashed>> ELSE Close(b, g, "failed")
      /\ Go(RunLoop, "next")
      /\ UNCHANGED <<world, status, files, installMu>>

ShutDown ==
  /\ MayShutDown
  /\ ~shutdown
  /\ shutdown' = TRUE
  /\ UNCHANGED <<started, status, closed, err, files, installMu, todo, proc, crashed>>

(***************************************************************************)
(* installBackend, called by a request or by the run loop.                 *)
(***************************************************************************)
\* Mutant: an error or a success of a deferred backend ends the run loop.
ThenReturns(p, pc) == pc

\* Where a goroutine goes on when installBackend returns.
Then(p, pc) == IF p = RunLoop THEN "next" ELSE pc

\* Mutants: installMu is not taken; a status that failed is not replaced.
BeginInstallUnlocked(p) ==
  LET b == proc[p].backend
      retry == Is(b, status[b], "failed")
      g == IF retry THEN status[b] + 1 ELSE status[b]
  IN  /\ proc[p].pc = "lock"
      /\ IF Is(b, status[b], "installed")
         THEN Go(p, Then(p, "passed")) /\ UNCHANGED status
         ELSE /\ status' = [status EXCEPT ![b] = g]
              /\ proc' = [proc EXCEPT ![p] = At("installing", b, g)]
      /\ UNCHANGED <<world, closed, err, files, installMu, crashed>>

BeginInstallSameStatus(p) ==
  LET b == proc[p].backend
  IN  /\ proc[p].pc = "lock"
      /\ installMu = NoOne
      /\ IF Is(b, status[b], "installed")
         THEN Go(p, Then(p, "passed")) /\ UNCHANGED installMu
         ELSE /\ installMu' = p
              /\ proc' = [proc EXCEPT ![p] = At("installing", b, status[b])]
      /\ UNCHANGED <<world, status, closed, err, files, crashed>>

\* Under installMu: done already, or an installation, with a fresh status
\* object if the last one failed.
BeginInstall(p) ==
  LET b == proc[p].backend
      retry == Is(b, status[b], "failed")
      g == IF retry THEN status[b] + 1 ELSE status[b]
  IN  /\ proc[p].pc = "lock"
      /\ installMu = NoOne
      /\ IF Is(b, status[b], "installed")
         THEN Go(p, Then(p, "passed")) /\ UNCHANGED <<status, installMu>>
         ELSE /\ installMu' = p
              /\ status' = [status EXCEPT ![b] = g]
              /\ proc' = [proc EXCEPT ![p] = At("installing", b, g)]
      /\ UNCHANGED <<world, closed, err, files, crashed>>

\* Install returns nil: the files have been downloaded, or were found and
\* verified; those of llama.cpp may be missing as well, or be gone now.
Installed(p) ==
  LET b == proc[p].backend
  IN  /\ proc[p].pc = "installing"
      /\ \/ disk' = disk \cup {b} /\ torn' = torn \ {b}
         \/ b \in Lenient /\ disk' \in {disk, disk \ {b}} /\ UNCHANGED torn
      /\ Close(b, proc[p].status, "installed")
      /\ installMu' = NoOne
      /\ Go(p, Then(p, "passed"))
      /\ UNCHANGED <<world, status, err>>

\* Whether a failed installation closes the failed channel: not if the context
\* of the caller is cancelled, which a client may do at any time.
MarksFailure(p) == IF p = RunLoop THEN {~shutdown} ELSE BOOLEAN

\* Install fails, before or after it has cleared the directory.
InstallFailed(p) ==
  LET b == proc[p].backend
      g == proc[p].status
  IN  /\ proc[p].pc = "installing"
      /\ disk' \in {disk, disk \ {b}}
      /\ \E marked \in MarksFailure(p) :
           IF marked THEN /\ err' = [err EXCEPT ![b][g] = "error"]
                          /\ Close(b, g, "failed")
                     ELSE UNCHANGED <<err, closed, crashed>>
      /\ installMu' = NoOne
      /\ Go(p, Then(p, "done"))
      /\ UNCHANGED <<world, status, torn>>

(***************************************************************************)
(* Requests.                                                               *)
(***************************************************************************)
\* wait, called before a request is scheduled on b, reads the status object.
Wait(c, b) ==
  LET g == status[b]
  IN  /\ proc[c].pc = "idle"
      /\ proc' = [proc EXCEPT ![c] =
           At(IF b \in Deferred
              THEN IF Is(b, g, "installed") THEN "passed"
                   ELSE IF Is(b, g, "failed") THEN "done" ELSE "lock"
              ELSE IF started THEN "waiting" ELSE "done", b, g)]
      /\ UNCHANGED <<world, status, closed, err, files, installMu, crashed>>

\* The select at the end of wait.
WaitEnds(c) ==
  LET b == proc[c].backend
      g == proc[c].status
  IN  /\ proc[c].pc = "waiting"
      /\ \/ Is(b, g, "installed") /\ Go(c, "passed")
         \/ Is(b, g, "failed") /\ Go(c, "done")
      /\ UNCHANGED <<world, status, closed, err, files, installMu, crashed>>

\* The client goes away while its request waits for a backend.
WaitCancelled(c) ==
  /\ proc[c].pc = "waiting"
  /\ Go(c, "done")
  /\ UNCHANGED <<world, status, closed, err, files, installMu, crashed>>

\* The request runs on the backend, and ends.
Serve(c) ==
  /\ proc[c].pc = "passed"
  /\ Go(c, "done")
  /\ UNCHANGED <<world, status, closed, err, files, installMu, crashed>>

InstallRequest(c, b) ==
  /\ proc[c].pc = "idle"
  /\ proc' = [proc EXCEPT ![c] = At("lock", b, 0)]
  /\ UNCHANGED <<world, status, closed, err, files, installMu, crashed>>

UninstallRequest(c, b) ==
  /\ proc[c].pc = "idle"
  /\ proc' = [proc EXCEPT ![c] = At("uninstall", b, 0)]
  /\ UNCHANGED <<world, status, closed, err, files, installMu, crashed>>

\* The backends whose Uninstall removes a directory.
Removable == Deferred \ Lenient

\* uninstallBackend, under installMu: backend.Uninstall removes the files of the
\* backends that have any of their own, or fails, perhaps half-way, and then
\* the status object stays ...
Remove(c) ==
  LET b == proc[c].backend
  IN  /\ proc[c].pc = "uninstall"
      /\ installMu = NoOne
      /\ \/ /\ installMu' = c
            /\ disk' = IF b \in Removable THEN disk \ {b} ELSE disk
            /\ UNCHANGED torn
            /\ Go(c, "reset")
         \/ /\ b \in Removable
            /\ \/ disk' = disk \ {b} /\ torn' = torn \cup {b}
               \/ UNCHANGED files
            /\ Go(c, "done")
            /\ UNCHANGED installMu
      /\ UNCHANGED <<world, status, closed, err, crashed>>

\* Mutant: the status survives an uninstall.
ResetForgotten(c) ==
  /\ proc[c].pc = "reset"
  /\ installMu' = NoOne
  /\ Go(c, "done")
  /\ UNCHANGED <<world, status, closed, err, files, crashed>>

\* ... and a fresh status object takes the place of the old one.
Reset(c) ==
  /\ proc[c].pc = "reset"
  /\ status' = [status EXCEPT ![proc[c].backend] = @ + 1]
  /\ installMu' = NoOne
  /\ Go(c, "done")
  /\ UNCHANGED <<world, closed, err, files, crashed>>

RunStep == \/ RunStart \/ RunInstalled \/ RunFailed
           \/ \E b \in Backends : RunVisit(b) \/ RunVisitDeferred(b)

\* What a goroutine does once called; clients need not call or cancel.
Step(p) ==
  \/ BeginInstall(p) \/ Installed(p) \/ InstallFailed(p)
  \/ p \in Callers /\ (WaitEnds(p) \/ Serve(p) \/ Remove(p) \/ Reset(p))

\* Every call has returned: nothing else needs to happen.
Terminated ==
  /\ \A c \in Callers : proc[c].pc = "done"
  /\ proc[RunLoop].pc = "next" /\ todo = {}
  /\ UNCHANGED vars

Next ==
  \/ RunStep
  \/ ShutDown
  \/ \E p \in Procs : Step(p)
  \/ \E c \in Callers :
       \/ WaitCancelled(c)
       \/ \E b \in Backends : Wait(c, b)
       \/ \E b \in InstallOf : InstallRequest(c, b)
       \/ \E b \in UninstallOf : UninstallRequest(c, b)
  \/ Terminated

Spec == Init /\ [][Next]_vars

\* Installations end, run visits every backend, and a goroutine that can take
\* installMu or receive from a closed channel does.
Fairness == WF_vars(RunStep) /\ \A p \in Procs : WF_vars(Step(p))

FairSpec == Spec /\ Fairness

(***************************************************************************)
(* Properties.                                                             *)
(***************************************************************************)
RunPcs == {"idle", "next", "running", "lock", "installing"}
CallerPcs == {"idle", "lock", "installing", "waiting", "passed", "done",
              "uninstall", "reset"}

ProcStates(pcs) == [pc: pcs, backend: Backends \cup {NoBackend}, status: Statuses]

\* Every variable of the installer has its type.
TypeOK ==
  /\ started \in BOOLEAN /\ shutdown \in BOOLEAN /\ crashed \in BOOLEAN
  /\ status \in [Backends -> Statuses]
  /\ closed \in [Backends -> [Statuses -> SUBSET {"installed", "failed"}]]
  /\ err \in [Backends -> [Statuses -> {"none", "error", "shutdown"}]]
  /\ disk \subseteq Backends /\ torn \subseteq Backends
  /\ todo \subseteq Backends
  /\ installMu \in Procs \cup {NoOne}
  /\ proc \in [Procs -> ProcStates(RunPcs \cup CallerPcs)]
  /\ proc[RunLoop] \in ProcStates(RunPcs)
  /\ \A c \in Callers : proc[c] \in ProcStates(CallerPcs)

\* No goroutine closes a channel that is closed already, which would panic:
\* "installMu serializes actual downloads so only one goroutine installs at a
\* time".
NoDoubleClose == ~crashed

\* No status object says both that its installation completed and that it
\* failed: waiters of one object all see the same outcome.
OneOutcome == \A b \in Backends, g \in Statuses : closed[b][g] # {"installed", "failed"}

\* A current status object that says installed speaks of files that are there,
\* whoever installs, retries and uninstalls meanwhile.  There are two kinds of
\* exceptions: an uninstall that is between its two steps, or has failed after
\* it took files away; and llama.cpp, which is said to be installed whatever
\* became of its download.
InstalledOnDisk ==
  \A b \in Backends \ Lenient :
    Is(b, status[b], "installed") =>
      \/ b \in disk \cup torn
      \/ \E c \in Callers : proc[c].pc = "reset" /\ proc[c].backend = b

\* Every request that waits for a backend gets its answer, unless the run loop
\* is shut down while it waits for a backend that loop installs.
EveryWaitReturnsOrShutDown ==
  \A c \in Callers :
    /\ proc[c].pc = "waiting" ~> proc[c].pc = "done" \/ shutdown
    /\ proc[c].pc \in {"lock", "uninstall"} ~> proc[c].pc = "done"

\* "resets its install status so that a subsequent wait() will trigger
\* re-installation": without a shutdown every request is answered, after an
\* uninstall as well.
EveryWaitReturns ==
  \A c \in Callers : proc[c].pc = "waiting" ~> proc[c].pc = "done"
=============================================================================
