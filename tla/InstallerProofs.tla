-------------------------- MODULE InstallerProofs --------------------------
(***************************************************************************)
(* Proofs about Installer: if only deferred backends are named by install  *)
(* requests, no channel is closed twice, no status object has two          *)
(* outcomes, and what is said to be installed is on disk, for any number   *)
(* of backends and calls.                                                  *)
(*                                                                         *)
(* installMu keeps the installations of deferred backends apart, and each  *)
(* starts with a status object nothing has been said of; the others are    *)
(* installed by the run loop alone, which visits them once.  (An install   *)
(* request for one of those races the run loop and may close its channel   *)
(* a second time: see the assumption.)                                     *)
(***************************************************************************)
EXTENDS Installer, FiniteSetTheorems, TLAPS

OnlyDeferred == InstallOf \subseteq Deferred /\ IsFiniteSet(Callers)

(***************************************************************************)
(* There are enough status objects: each call replaces at most one.        *)
(***************************************************************************)
Spent == {c \in Callers : proc[c].pc \in {"installing", "passed", "done"}}

\* The run loop may have replaced the status object of b.
Visited(b) == IF \/ b \in todo
                 \/ proc[RunLoop].pc = "lock" /\ proc[RunLoop].backend = b
              THEN 0 ELSE 1

Bounded == \A b \in Backends : status[b] <= Cardinality(Spent) + Visited(b)

(***************************************************************************)
(* Who works on which backend.                                             *)
(***************************************************************************)
RunPlace ==
  /\ proc[RunLoop].pc \in {"running", "lock", "installing"} =>
       proc[RunLoop].backend \in Backends \ todo
  /\ proc[RunLoop].pc \in {"lock", "installing"} => proc[RunLoop].backend \in Deferred
  /\ proc[RunLoop].pc = "running" =>
       /\ proc[RunLoop].backend \notin Deferred
       /\ closed[proc[RunLoop].backend][proc[RunLoop].status] = {}
       /\ proc[RunLoop].status <= status[proc[RunLoop].backend]

CallerPlace ==
  \A c \in Callers :
    /\ proc[c].pc \in {"lock", "installing"} => proc[c].backend \in Deferred
    /\ proc[c].pc \in {"uninstall", "reset"} => proc[c].backend \in Backends

Locked == \A p \in Procs : proc[p].pc \in {"installing", "reset"} <=> installMu = p

\* What has been said of status objects.
Fresh == \A b \in Backends, g \in Statuses : g > status[b] => closed[b][g] = {}

Unsaid ==
  \A p \in Procs : proc[p].pc = "installing" =>
    /\ proc[p].status = status[proc[p].backend]
    /\ closed[proc[p].backend][proc[p].status] = {}

Unvisited == \A b \in todo \ Deferred, g \in Statuses : closed[b][g] = {}

\* InstalledOnDisk, with its exceptions in one set.
There == disk \cup torn \cup Lenient

Backed ==
  \A b \in Backends :
    Is(b, status[b], "installed") =>
      \/ b \in There
      \/ \E c \in Callers : proc[c].pc = "reset" /\ proc[c].backend = b

Placed == RunPlace /\ CallerPlace /\ Locked
Said == Fresh /\ Unsaid /\ Unvisited
Kept == NoDoubleClose /\ OneOutcome /\ Backed

IInv == TypeOK /\ Bounded /\ Placed /\ Said /\ Kept

LEMMA ProcFacts ==
  /\ RunLoop \in Procs /\ Callers \subseteq Procs /\ RunLoop \notin Callers
  /\ \A p \in Procs : p # NoOne
  /\ \A p \in Procs : p # RunLoop => p \in Callers
BY InstallerAssumption DEF Procs

LEMMA StatusFacts ==
  ASSUME OnlyDeferred
  PROVE  /\ Cardinality(Callers) \in Nat /\ Statuses \subseteq Nat
         /\ 0 \in Statuses
BY FS_CardinalityType DEF OnlyDeferred, Statuses

\* The calls that are spent are at most all.
LEMMA SpentFacts ==
  ASSUME OnlyDeferred
  PROVE  /\ IsFiniteSet(Spent) /\ Cardinality(Spent) \in Nat
         /\ Cardinality(Spent) <= Cardinality(Callers)
<1>1. Spent \subseteq Callers
  BY DEF Spent
<1> QED BY <1>1, FS_Subset, FS_CardinalityType DEF OnlyDeferred

LEMMA SpentNext ==
  ASSUME OnlyDeferred
  PROVE  /\ IsFiniteSet(Spent') /\ Cardinality(Spent') \in Nat
         /\ Cardinality(Spent') <= Cardinality(Callers)
         /\ Spent \subseteq Spent' => Cardinality(Spent) <= Cardinality(Spent')
         /\ \A c : Spent \subseteq Spent' /\ c \in Spent' \ Spent =>
              Cardinality(Spent) + 1 <= Cardinality(Spent')
<1>1. Spent' \subseteq Callers
  BY DEF Spent
<1>2. /\ IsFiniteSet(Spent') /\ Cardinality(Spent') \in Nat
      /\ Cardinality(Spent') <= Cardinality(Callers)
  BY <1>1, FS_Subset, FS_CardinalityType DEF OnlyDeferred
<1>3. Spent \subseteq Spent' => Cardinality(Spent) <= Cardinality(Spent')
  BY <1>2, FS_Subset
<1>4. ASSUME NEW c, Spent \subseteq Spent', c \in Spent' \ Spent
      PROVE  Cardinality(Spent) + 1 <= Cardinality(Spent')
  <2>1. IsFiniteSet(Spent)
    BY SpentFacts
  <2>2. Cardinality(Spent \cup {c}) = Cardinality(Spent) + 1
    BY <1>4, <2>1, FS_AddElement
  <2>3. Spent \cup {c} \subseteq Spent'
    BY <1>4
  <2> QED BY <1>2, <2>2, <2>3, FS_Subset
<1> QED BY <1>2, <1>3, <1>4

\* The bound keeps the numbers of status objects in range.
LEMMA InRange ==
  ASSUME OnlyDeferred, NEW n \in Nat, NEW b \in Backends,
         n <= Cardinality(Spent') + Visited(b)'
  PROVE  n \in Statuses
BY SpentNext, StatusFacts DEF Statuses, Visited

(***************************************************************************)
(* The steps of a caller that neither take nor release installMu.          *)
(***************************************************************************)
Elsewhere == CallerPcs \ {"installing", "reset"}

LEMMA CallerMoves ==
  ASSUME OnlyDeferred, IInv, NEW c \in Callers, NEW x \in ProcStates(CallerPcs),
         proc[c].pc \in Elsewhere, x.pc \in Elsewhere,
         proc[c].pc \in {"passed", "done"} => x.pc \in {"passed", "done"},
         x.pc = "lock" => x.backend \in Deferred,
         x.pc = "uninstall" => x.backend \in Backends,
         proc' = [proc EXCEPT ![c] = x],
         disk' \subseteq Backends, torn' \subseteq Backends, There \subseteq There',
         UNCHANGED <<started, shutdown, status, closed, err, installMu, todo, crashed>>
  PROVE  IInv'
<1> USE ProcFacts DEF IInv, Elsewhere
<1>1. /\ \A p \in Procs : p # c => proc'[p] = proc[p]
      /\ proc'[c] = x /\ proc'[RunLoop] = proc[RunLoop]
  BY DEF TypeOK
<1>2. TypeOK'
  <2>1. x \in ProcStates(RunPcs \cup CallerPcs)
    BY DEF ProcStates
  <2> QED BY <1>1, <2>1 DEF TypeOK
<1>3. Bounded'
  <2>1. Spent \subseteq Spent'
    BY <1>1 DEF Spent
  <2>2. Cardinality(Spent) <= Cardinality(Spent')
    BY <2>1, SpentNext
  <2>3. \A b \in Backends : Visited(b)' = Visited(b)
    BY <1>1 DEF Visited
  <2>4. \A b \in Backends : status[b] \in Nat /\ Visited(b) \in {0, 1}
    BY StatusFacts DEF TypeOK, Visited
  <2> QED BY <2>2, <2>3, <2>4, SpentFacts, SpentNext DEF Bounded
<1>4. Placed'
  BY <1>1 DEF Placed, RunPlace, CallerPlace, Locked
<1>5. Said'
  BY <1>1 DEF Said, Fresh, Unsaid, Unvisited
<1>6. Kept'
  <2>1. \A b \in Backends, d \in Callers :
          proc[d].pc = "reset" /\ proc[d].backend = b =>
            proc'[d].pc = "reset" /\ proc'[d].backend = b
    BY <1>1
  <2> QED BY <2>1 DEF Kept, NoDoubleClose, OneOutcome, Backed, Is
<1> QED BY <1>2, <1>3, <1>4, <1>5, <1>6

\* The same, when the files stay as they are.
LEMMA FilesStay ==
  ASSUME IInv, UNCHANGED <<disk, torn>>
  PROVE  disk' \subseteq Backends /\ torn' \subseteq Backends /\ There \subseteq There'
BY DEF IInv, TypeOK, There

LEMMA CallerStates ==
  ASSUME OnlyDeferred, IInv, NEW c \in Callers, NEW pc \in CallerPcs
  PROVE  /\ Moved(c, pc) \in ProcStates(CallerPcs)
         /\ Moved(c, pc).pc = pc
         /\ pc # "done" => Moved(c, pc).backend = proc[c].backend
BY StatusFacts DEF IInv, TypeOK, ProcStates, Moved, At, CallerPcs

LEMMA RunNext ==
  ASSUME OnlyDeferred
  PROVE  Moved(RunLoop, "next") \in ProcStates(RunPcs) /\ Moved(RunLoop, "next").pc = "next"
BY StatusFacts DEF ProcStates, Moved, At, RunPcs

LEMMA CallsOK ==
  ASSUME OnlyDeferred, IInv, NEW c \in Callers,
         \/ WaitEnds(c) \/ WaitCancelled(c) \/ Serve(c)
         \/ \E b \in Backends : Wait(c, b)
         \/ \E b \in InstallOf : InstallRequest(c, b)
         \/ \E b \in UninstallOf : UninstallRequest(c, b)
  PROVE  IInv'
<1>1. CASE WaitEnds(c) \/ WaitCancelled(c) \/ Serve(c)
  <2>1. PICK pc \in {"passed", "done"} :
          /\ proc' = [proc EXCEPT ![c] = Moved(c, pc)]
          /\ proc[c].pc \in {"waiting", "passed"}
          /\ UNCHANGED <<world, status, closed, err, disk, torn, installMu, crashed>>
    BY <1>1 DEF WaitEnds, WaitCancelled, Serve, Go, files
  <2>2. Moved(c, pc) \in ProcStates(CallerPcs) /\ Moved(c, pc).pc = pc
    BY CallerStates, ZenonT(60) DEF CallerPcs
  <2> QED BY <2>1, <2>2, FilesStay, CallerMoves DEF world, Elsewhere, CallerPcs
<1>2. ASSUME NEW x \in ProcStates(CallerPcs), proc[c].pc = "idle",
             proc' = [proc EXCEPT ![c] = x],
             x.pc \in {"passed", "done", "lock", "waiting", "uninstall"},
             x.pc = "lock" => x.backend \in Deferred, x.backend \in Backends,
             UNCHANGED <<world, status, closed, err, disk, torn, installMu, crashed>>
      PROVE  IInv'
  BY <1>2, FilesStay, CallerMoves DEF world, Elsewhere, CallerPcs
<1>3. ASSUME NEW pc \in CallerPcs, NEW b \in Backends, NEW g \in Statuses
      PROVE  /\ At(pc, b, g) \in ProcStates(CallerPcs)
             /\ At(pc, b, g).pc = pc /\ At(pc, b, g).backend = b
  BY DEF At, ProcStates
<1>4. ASSUME NEW b \in Backends, Wait(c, b) PROVE IInv'
  <2>1. PICK pc \in {"passed", "done", "lock", "waiting"} :
          /\ proc' = [proc EXCEPT ![c] = At(pc, b, status[b])]
          /\ pc = "lock" => b \in Deferred
    BY <1>4 DEF Wait
  <2>2. status[b] \in Statuses
    BY DEF IInv, TypeOK
  <2>3. /\ At(pc, b, status[b]) \in ProcStates(CallerPcs)
        /\ At(pc, b, status[b]).pc = pc /\ At(pc, b, status[b]).backend = b
    BY <1>3, <2>2 DEF CallerPcs
  <2>4. /\ proc[c].pc = "idle"
        /\ UNCHANGED <<world, status, closed, err, disk, torn, installMu, crashed>>
    BY <1>4 DEF Wait, files
  <2> QED BY <1>2, <2>1, <2>3, <2>4
<1>5. ASSUME NEW b \in InstallOf, InstallRequest(c, b) PROVE IInv'
  <2>1. b \in Deferred /\ b \in Backends
    BY InstallerAssumption DEF OnlyDeferred
  <2>2. /\ At("lock", b, 0) \in ProcStates(CallerPcs)
        /\ At("lock", b, 0).pc = "lock" /\ At("lock", b, 0).backend = b
    BY <1>3, <2>1, StatusFacts DEF CallerPcs
  <2>3. /\ proc[c].pc = "idle" /\ proc' = [proc EXCEPT ![c] = At("lock", b, 0)]
        /\ UNCHANGED <<world, status, closed, err, disk, torn, installMu, crashed>>
    BY <1>5 DEF InstallRequest, files
  <2> QED BY <1>2, <2>1, <2>2, <2>3
<1>6. ASSUME NEW b \in UninstallOf, UninstallRequest(c, b) PROVE IInv'
  <2>1. b \in Backends
    BY InstallerAssumption
  <2>2. /\ At("uninstall", b, 0) \in ProcStates(CallerPcs)
        /\ At("uninstall", b, 0).pc = "uninstall" /\ At("uninstall", b, 0).backend = b
    BY <1>3, <2>1, StatusFacts DEF CallerPcs
  <2>3. /\ proc[c].pc = "idle" /\ proc' = [proc EXCEPT ![c] = At("uninstall", b, 0)]
        /\ UNCHANGED <<world, status, closed, err, disk, torn, installMu, crashed>>
    BY <1>6 DEF UninstallRequest, files
  <2> QED BY <1>2, <2>1, <2>2, <2>3
<1> QED BY <1>1, <1>4, <1>5, <1>6

(***************************************************************************)
(* installBackend.                                                         *)
(***************************************************************************)
\* Where a goroutine is that calls it.
LEMMA InstallerPlace ==
  ASSUME IInv, NEW p \in Procs, proc[p].pc \in {"lock", "installing"}
  PROVE  /\ proc[p].backend \in Deferred /\ proc[p].backend \in Backends
         /\ status[proc[p].backend] \in Statuses
         /\ proc[p].status \in Statuses
<1>1. proc[p].backend \in Deferred
  BY ProcFacts DEF IInv, Placed, RunPlace, CallerPlace
<1> QED BY <1>1, InstallerAssumption DEF IInv, TypeOK, ProcStates

\* A goroutine finds its backend installed.
LEMMA InstallPasses ==
  ASSUME OnlyDeferred, IInv, NEW p \in Procs, proc[p].pc = "lock",
         Go(p, Then(p, "passed")),
         UNCHANGED <<started, shutdown, status, closed, err, disk, torn, installMu, todo, crashed>>
  PROVE  IInv'
<1>1. CASE p # RunLoop
  <2>1. p \in Callers /\ proc' = [proc EXCEPT ![p] = Moved(p, "passed")]
    BY <1>1, ProcFacts DEF Go, Then
  <2> QED BY <2>1, FilesStay, CallerStates, CallerMoves DEF CallerPcs, Elsewhere
<1>2. CASE p = RunLoop
  <2> USE ProcFacts DEF IInv
  <2>1. /\ \A q \in Procs : q # p => proc'[q] = proc[q]
        /\ proc'[p] = Moved(RunLoop, "next")
        /\ proc' \in [Procs -> ProcStates(RunPcs \cup CallerPcs)]
    BY <1>2, RunNext DEF Go, Then, TypeOK, ProcStates
  <2>2. proc'[p].pc = "next" /\ proc'[p] \in ProcStates(RunPcs)
    BY <1>2, <2>1, RunNext
  <2>3. \A c \in Callers : proc'[c] = proc[c]
    BY <1>2, <2>1
  <2>4. TypeOK'
    BY <1>2, <2>1, <2>2, <2>3 DEF TypeOK
  <2>5. Bounded'
    <3>1. Spent' = Spent
      BY <2>3 DEF Spent
    <3>2. \A b \in Backends : Visited(b) <= Visited(b)' /\ Visited(b) \in {0, 1} /\ Visited(b)' \in {0, 1}
      BY <1>2, <2>2 DEF Visited
    <3>3. \A b \in Backends : status[b] \in Nat
      BY StatusFacts DEF TypeOK
    <3> QED BY <3>1, <3>2, <3>3, SpentFacts DEF Bounded
  <2>6. Placed'
    BY <1>2, <2>1, <2>2, <2>3 DEF Placed, RunPlace, CallerPlace, Locked
  <2>7. Said'
    <3>1. Fresh' /\ Unvisited'
      BY DEF Said, Fresh, Unvisited
    <3>2. Unsaid'
      BY <2>1, <2>2, ZenonT(60) DEF Said, Unsaid
    <3> QED BY <3>1, <3>2 DEF Said
  <2>8. Kept'
    BY <2>3 DEF Kept, NoDoubleClose, OneOutcome, Backed, There, Is
  <2> QED BY <2>4, <2>5, <2>6, <2>7, <2>8
<1> QED BY <1>1, <1>2

\* A goroutine takes installMu, with a status object of which nothing is said.
LEMMA InstallBegins ==
  ASSUME OnlyDeferred, IInv, NEW p \in Procs, proc[p].pc = "lock", installMu = NoOne,
         NEW b \in Backends, b = proc[p].backend, NEW g \in Nat,
         g = IF Is(b, status[b], "failed") THEN status[b] + 1 ELSE status[b],
         ~Is(b, status[b], "installed"),
         installMu' = p,
         status' = [status EXCEPT ![b] = g],
         proc' = [proc EXCEPT ![p] = At("installing", b, g)],
         UNCHANGED <<started, shutdown, closed, err, disk, torn, todo, crashed>>
  PROVE  IInv'
<1> USE ProcFacts DEF IInv
<1>1. /\ \A q \in Procs : q # p => proc'[q] = proc[q]
      /\ proc'[p].pc = "installing" /\ proc'[p].backend = b /\ proc'[p].status = g
      /\ proc'[p] = At("installing", b, g)
  BY DEF TypeOK, At
<1>2. /\ \A d \in Backends : d # b => status'[d] = status[d]
      /\ status'[b] = g
  BY DEF TypeOK
<1>3. \A d \in Backends : status[d] \in Nat /\ status[d] \in Statuses
  BY StatusFacts DEF TypeOK
<1>4. \A q \in Procs : proc[q].pc \notin {"installing", "reset"}
  BY DEF Placed, Locked
<1>5. b \in Deferred
  BY InstallerPlace
<1>6. Bounded'
  <2>1. Spent \subseteq Spent'
    BY <1>1 DEF Spent
  <2>2. Cardinality(Spent) <= Cardinality(Spent')
    BY <2>1, SpentNext
  <2>3. \A d \in Backends : Visited(d) <= Visited(d)' /\ Visited(d) \in {0, 1} /\ Visited(d)' \in {0, 1}
    BY <1>1 DEF Visited
  <2>4. \A d \in Backends : status[d] <= Cardinality(Spent) + Visited(d)
    BY DEF Bounded
  <2>5. g <= Cardinality(Spent') + Visited(b)'
    <3>1. g <= status[b] + 1
      BY <1>3
    <3>2. CASE p = RunLoop
      <4>1. Visited(b) = 0 /\ Visited(b)' = 1
        BY <1>1, <3>2 DEF Visited, Placed, RunPlace
      <4> QED BY <1>3, <2>2, <2>4, <3>1, <4>1, SpentFacts, SpentNext
    <3>3. CASE p # RunLoop
      <4>1. p \in Spent' \ Spent
        BY <1>1, <3>3 DEF Spent
      <4>2. Cardinality(Spent) + 1 <= Cardinality(Spent')
        BY <2>1, <4>1, SpentNext
      <4> QED BY <1>3, <2>3, <2>4, <3>1, <4>2, SpentFacts, SpentNext
    <3> QED BY <3>2, <3>3
  <2>6. ASSUME NEW d \in Backends, d # b PROVE status'[d] <= Cardinality(Spent') + Visited(d)'
    BY <1>2, <1>3, <2>2, <2>3, <2>4, <2>6, SpentFacts, SpentNext
  <2> QED BY <1>2, <2>5, <2>6 DEF Bounded
<1>7. g \in Statuses
  BY <1>2, <1>6, InRange DEF Bounded
<1>8. TypeOK'
  <2>1. At("installing", b, g) \in ProcStates(RunPcs) /\ At("installing", b, g) \in ProcStates(CallerPcs)
        /\ At("installing", b, g) \in ProcStates(RunPcs \cup CallerPcs)
    BY <1>7 DEF At, ProcStates, RunPcs, CallerPcs
  <2>2. proc' \in [Procs -> ProcStates(RunPcs \cup CallerPcs)]
    BY <2>1 DEF TypeOK
  <2>3. proc'[RunLoop] \in ProcStates(RunPcs) /\ \A c \in Callers : proc'[c] \in ProcStates(CallerPcs)
    BY <1>1, <2>1 DEF TypeOK
  <2>4. status' \in [Backends -> Statuses]
    BY <1>7 DEF TypeOK
  <2> QED BY <2>2, <2>3, <2>4 DEF TypeOK
<1>9. closed[b][g] = {}
  <2>1. CASE Is(b, status[b], "failed")
    BY <1>3, <1>7, <2>1 DEF Said, Fresh
  <2>2. CASE ~Is(b, status[b], "failed")
    <3>1. g = status[b] /\ "installed" \notin closed[b][g] /\ "failed" \notin closed[b][g]
      BY <2>2 DEF Is
    <3>2. closed[b][g] \in SUBSET {"installed", "failed"}
      BY <1>3, <3>1 DEF TypeOK
    <3> QED BY <3>1, <3>2
  <2> QED BY <2>1, <2>2
<1>10. Placed'
  <2>1. Locked'
    BY <1>1, <1>4 DEF Locked
  <2>2. CallerPlace'
    BY <1>1, <1>5 DEF Placed, CallerPlace
  <2>3. RunPlace'
    <3>1. CASE p = RunLoop
      BY <1>1, <1>5, <3>1 DEF Placed, RunPlace
    <3>2. CASE p # RunLoop
      <4>1. proc'[RunLoop] = proc[RunLoop]
        BY <1>1, <3>2
      <4>2. proc[RunLoop].pc = "running" => /\ proc[RunLoop].backend \in Backends
                                            /\ proc[RunLoop].backend # b
        BY <1>5 DEF Placed, RunPlace
      <4> QED BY <1>2, <4>1, <4>2 DEF Placed, RunPlace
    <3> QED BY <3>1, <3>2
  <2> QED BY <2>1, <2>2, <2>3 DEF Placed
<1>11. Said'
  <2>1. Fresh'
    BY <1>2, <1>3, StatusFacts DEF Said, Fresh
  <2>2. Unsaid'
    BY <1>1, <1>2, <1>4, <1>9, ZenonT(60) DEF Unsaid
  <2>3. Unvisited'
    BY DEF Said, Unvisited
  <2> QED BY <2>1, <2>2, <2>3 DEF Said
<1>12. Kept'
  <2>2. \A d \in Backends : Is(d, status[d], "installed") => d \in There
    BY <1>4 DEF Kept, Backed
  <2>4. There' = There
    BY DEF There
  <2>3. Backed'
    BY <1>2, <1>9, <2>2, <2>4 DEF Backed, Is
  <2> QED BY <2>3 DEF Kept, NoDoubleClose, OneOutcome
<1> QED BY <1>6, <1>8, <1>10, <1>11, <1>12

LEMMA BeginInstallOK ==
  ASSUME OnlyDeferred, IInv, NEW p \in Procs, BeginInstall(p)
  PROVE  IInv'
<1> DEFINE b == proc[p].backend
           g == IF Is(b, status[b], "failed") THEN status[b] + 1 ELSE status[b]
<1>1. b \in Backends /\ status[b] \in Nat /\ g \in Nat /\ proc[p].pc = "lock" /\ installMu = NoOne
  BY InstallerPlace, StatusFacts DEF BeginInstall
<1>2. CASE Is(b, status[b], "installed")
  BY <1>1, <1>2, InstallPasses DEF BeginInstall, world, files
<1>3. CASE ~Is(b, status[b], "installed")
  <2>1. /\ installMu' = p
        /\ status' = [status EXCEPT ![b] = g]
        /\ proc' = [proc EXCEPT ![p] = At("installing", b, g)]
        /\ UNCHANGED <<started, shutdown, closed, err, disk, torn, todo, crashed>>
    BY <1>1, <1>3 DEF BeginInstall, world, files
  <2> QED BY <1>1, <1>3, <2>1, InstallBegins
<1> QED BY <1>2, <1>3

(***************************************************************************)
(* The end of an installation, and the uninstallation.                     *)
(***************************************************************************)
\* What each end of an installation by p has in common: the channels said are
\* closed, and p goes on to pc.
Ends(p, b, g, said, pc) ==
  /\ proc[p].pc = "installing"
  /\ b = proc[p].backend /\ g = proc[p].status
  /\ said # {"installed", "failed"}
  /\ closed' \in [Backends -> [Statuses -> SUBSET {"installed", "failed"}]]
  /\ \A d \in Backends, h \in Statuses :
       closed'[d][h] = IF d = b /\ h = g THEN said ELSE closed[d][h]
  /\ Go(p, Then(p, pc))
  /\ err' \in [Backends -> [Statuses -> {"none", "error", "shutdown"}]]
  /\ disk' \subseteq Backends /\ torn' \subseteq Backends /\ There \subseteq There' \cup {b}
  /\ "installed" \in said => b \in There'
  /\ installMu' = NoOne /\ crashed' = crashed
  /\ UNCHANGED <<world, status>>

LEMMA InstallEnds ==
  ASSUME OnlyDeferred, IInv, NEW p \in Procs, NEW b \in Backends, NEW g \in Statuses,
         NEW said \in SUBSET {"installed", "failed"}, NEW pc \in {"passed", "done"},
         Ends(p, b, g, said, pc)
  PROVE  IInv'
<1> USE ProcFacts DEF IInv, world, Ends
<1>1. /\ \A q \in Procs : q # p => proc'[q] = proc[q]
      /\ proc'[p] = Moved(p, Then(p, pc))
  BY DEF Go, TypeOK
<1>2. /\ proc'[p].pc = Then(p, pc)
      /\ Then(p, pc) \in {"passed", "done", "next"}
      /\ p = RunLoop <=> Then(p, pc) = "next"
      /\ p = RunLoop => proc'[p] \in ProcStates(RunPcs)
      /\ p # RunLoop => proc'[p] \in ProcStates(CallerPcs)
  <2>1. CASE p = RunLoop
    BY <1>1, <2>1, RunNext DEF Then
  <2>2. CASE p # RunLoop
    BY <1>1, <2>2, CallerStates DEF Then, CallerPcs
  <2> QED BY <2>1, <2>2
<1>3. /\ \A d \in Backends, h \in Statuses :
           closed'[d][h] = IF d = b /\ h = g THEN said ELSE closed[d][h]
      /\ closed' \in [Backends -> [Statuses -> SUBSET {"installed", "failed"}]]
  OBVIOUS
<1>4. \A q \in Procs : q # p => proc[q].pc \notin {"installing", "reset"}
  BY DEF Placed, Locked
<1>5. b \in Deferred /\ status[b] = g
  BY InstallerPlace DEF Said, Unsaid
<1>6. TypeOK'
  <2>1. CASE p = RunLoop
    <3>1. proc'[p] \in ProcStates(RunPcs) /\ proc'[p] \in ProcStates(RunPcs \cup CallerPcs)
      BY <1>2, <2>1 DEF ProcStates
    <3>2. proc' \in [Procs -> ProcStates(RunPcs \cup CallerPcs)]
      BY <1>1, <3>1 DEF Go, TypeOK
    <3> QED BY <1>1, <1>3, <2>1, <3>1, <3>2 DEF TypeOK
  <2>2. CASE p # RunLoop
    <3>1. proc'[p] \in ProcStates(CallerPcs) /\ proc'[p] \in ProcStates(RunPcs \cup CallerPcs)
      BY <1>2, <2>2 DEF ProcStates
    <3>2. proc' \in [Procs -> ProcStates(RunPcs \cup CallerPcs)]
      BY <1>1, <3>1 DEF Go, TypeOK
    <3> QED BY <1>1, <1>3, <2>2, <3>1, <3>2 DEF TypeOK
  <2> QED BY <2>1, <2>2
<1>7. Bounded'
  <2>1. \A c \in Callers : c # p => proc'[c] = proc[c]
    BY <1>1
  <2>5. \A c \in Callers : c = p => proc'[c].pc \in {"passed", "done"}
    BY <1>2
  <2>2. \A c \in Callers : c \in Spent' <=> c \in Spent
    BY <2>1, <2>5 DEF Spent
  <2>3. Spent' = Spent
    BY <2>2 DEF Spent
  <2>4. \A d \in Backends : Visited(d)' = Visited(d)
    BY <1>1, <1>2 DEF Visited
  <2> QED BY <2>3, <2>4 DEF Bounded
<1>8. Placed'
  <2>1. Locked'
    BY <1>1, <1>2, <1>4 DEF Locked
  <2>2. CallerPlace'
    BY <1>1, <1>2 DEF Placed, CallerPlace
  <2>3. RunPlace'
    <3>1. CASE p = RunLoop
      BY <1>2, <3>1 DEF RunPlace
    <3>2. CASE p # RunLoop
      <4>1. proc'[RunLoop] = proc[RunLoop] /\ proc[RunLoop] \in ProcStates(RunPcs)
        BY <1>1, <3>2 DEF TypeOK
      <4>2. proc[RunLoop].pc = "running" => /\ proc[RunLoop].backend \in Backends
                                            /\ proc[RunLoop].backend # b
                                            /\ proc[RunLoop].status \in Statuses
        BY <1>5, <4>1 DEF Placed, RunPlace, ProcStates
      <4>3. ASSUME proc[RunLoop].pc = "running"
            PROVE  closed'[proc[RunLoop].backend][proc[RunLoop].status] = {}
        <5>1. closed[proc[RunLoop].backend][proc[RunLoop].status] = {}
          BY <4>3 DEF Placed, RunPlace
        <5> QED BY <1>3, <4>2, <4>3, <5>1, ZenonT(60)
      <4>4. /\ todo' = todo
            /\ proc[RunLoop].pc \in {"running", "lock", "installing"} =>
                 proc[RunLoop].backend \in Backends \ todo
            /\ proc[RunLoop].pc \in {"lock", "installing"} => proc[RunLoop].backend \in Deferred
            /\ proc[RunLoop].pc = "running" =>
                 /\ proc[RunLoop].backend \notin Deferred
                 /\ proc[RunLoop].status <= status[proc[RunLoop].backend]
            /\ status' = status
        BY DEF Placed, RunPlace
      <4> HIDE DEF IInv
      <4> QED BY <4>1, <4>3, <4>4 DEF RunPlace
    <3> QED BY <3>1, <3>2
  <2> QED BY <2>1, <2>2, <2>3 DEF Placed
<1>9. Said'
  <2>1. Fresh'
    BY <1>3, <1>5, StatusFacts DEF Said, Fresh
  <2>2. Unsaid'
    <3>2. \A q \in Procs : q # p => proc'[q].pc # "installing"
      BY <1>1, <1>4
    <3>3. proc'[p].pc # "installing"
      BY <1>2
    <3>1. \A q \in Procs : proc'[q].pc # "installing"
      BY <3>2, <3>3
    <3> QED BY <3>1 DEF Unsaid
  <2>3. Unvisited'
    <3>1. \A d \in todo \ Deferred : d \in Backends /\ d # b
      BY <1>5 DEF TypeOK
    <3> QED BY <1>3, <3>1 DEF Said, Unvisited
  <2> QED BY <2>1, <2>2, <2>3 DEF Said
<1>10. Kept'
  <2>1. OneOutcome'
    BY <1>3 DEF Kept, OneOutcome
  <2>2. ASSUME NEW d \in Backends, Is(d, status[d], "installed")'
        PROVE  d \in There'
    <3>1. CASE d = b
      BY <1>3, <1>5, <2>2, <3>1 DEF Is
    <3>2. CASE d # b
      <4>1. status[d] \in Statuses /\ Is(d, status[d], "installed")
        BY <1>3, <2>2, <3>2 DEF Is, TypeOK
      <4>2. \A c \in Callers : proc[c].pc # "reset"
        BY <1>4
      <4>3. d \in There
        BY <4>1, <4>2 DEF Kept, Backed
      <4>4. There \subseteq There' \cup {b}
        OBVIOUS
      <4> HIDE DEF IInv, Ends
      <4> QED BY <3>2, <4>3, <4>4
    <3> QED BY <3>1, <3>2
  <2> QED BY <2>1, <2>2 DEF Kept, NoDoubleClose, Backed
<1> QED BY <1>6, <1>7, <1>8, <1>9, <1>10

LEMMA InstallOK ==
  ASSUME OnlyDeferred, IInv, NEW p \in Procs, Installed(p) \/ InstallFailed(p)
  PROVE  IInv'
<1>1. proc[p].pc = "installing"
  BY DEF Installed, InstallFailed
<1>2. PICK b \in Backends, g \in Statuses : b = proc[p].backend /\ g = proc[p].status
  BY <1>1, InstallerPlace
<1>3. closed[b][g] = {} /\ crashed = FALSE
  BY <1>1, <1>2 DEF IInv, TypeOK, Said, Unsaid, Kept, NoDoubleClose
<1>4. ASSUME NEW channel \in {"installed", "failed"}, Close(b, g, channel)
      PROVE  /\ closed' \in [Backends -> [Statuses -> SUBSET {"installed", "failed"}]]
             /\ \A d \in Backends, h \in Statuses :
                  closed'[d][h] = IF d = b /\ h = g THEN {channel} ELSE closed[d][h]
             /\ crashed' = crashed
             /\ {channel} \in SUBSET {"installed", "failed"}
             /\ {channel} # {"installed", "failed"}
  <2>1. closed' = [closed EXCEPT ![b][g] = {channel}] /\ crashed' = crashed
    BY <1>3, <1>4 DEF Close, Is
  <2> QED BY <1>2, <2>1 DEF IInv, TypeOK
<1>5. CASE Installed(p)
  <2>1. /\ installMu' = NoOne /\ Go(p, Then(p, "passed"))
        /\ Close(b, g, "installed") /\ UNCHANGED <<world, status, err>>
    BY <1>2, <1>5 DEF Installed
  <2>5. /\ disk' \subseteq Backends /\ torn' \subseteq Backends
        /\ There \subseteq There' \cup {b} /\ b \in There'
    BY <1>2, <1>5 DEF Installed, There, IInv, TypeOK
  <2>2. err' \in [Backends -> [Statuses -> {"none", "error", "shutdown"}]]
    BY <2>1 DEF IInv, TypeOK
  <2>3. /\ closed' \in [Backends -> [Statuses -> SUBSET {"installed", "failed"}]]
        /\ \A d \in Backends, h \in Statuses :
             closed'[d][h] = IF d = b /\ h = g THEN {"installed"} ELSE closed[d][h]
        /\ crashed' = crashed
        /\ {"installed"} \in SUBSET {"installed", "failed"}
        /\ {"installed"} # {"installed", "failed"}
    BY <1>4, <2>1
  <2>4. Ends(p, b, g, {"installed"}, "passed")
    BY <1>1, <1>2, <2>1, <2>2, <2>3, <2>5 DEF Ends
  <2> QED BY <2>3, <2>4, InstallEnds
<1>6. CASE InstallFailed(p)
  <2>1. /\ installMu' = NoOne /\ Go(p, Then(p, "done"))
        /\ UNCHANGED <<world, status>>
        /\ disk' \subseteq Backends /\ torn' \subseteq Backends
        /\ There \subseteq There' \cup {b}
    BY <1>2, <1>6 DEF InstallFailed, There, IInv, TypeOK
  <2>2. CASE err' = [err EXCEPT ![b][g] = "error"] /\ Close(b, g, "failed")
    <3>1. err' \in [Backends -> [Statuses -> {"none", "error", "shutdown"}]]
      BY <1>2, <2>2 DEF IInv, TypeOK
    <3>2. /\ closed' \in [Backends -> [Statuses -> SUBSET {"installed", "failed"}]]
          /\ \A d \in Backends, h \in Statuses :
               closed'[d][h] = IF d = b /\ h = g THEN {"failed"} ELSE closed[d][h]
          /\ crashed' = crashed
          /\ {"failed"} \in SUBSET {"installed", "failed"}
          /\ {"failed"} # {"installed", "failed"} /\ "installed" \notin {"failed"}
      BY <1>4, <2>2
    <3>3. Ends(p, b, g, {"failed"}, "done")
      BY <1>1, <1>2, <2>1, <3>1, <3>2 DEF Ends
    <3> QED BY <3>2, <3>3, InstallEnds
  <2>3. CASE UNCHANGED <<err, closed, crashed>>
    <3>1. /\ err' \in [Backends -> [Statuses -> {"none", "error", "shutdown"}]]
          /\ closed' \in [Backends -> [Statuses -> SUBSET {"installed", "failed"}]]
          /\ {} \in SUBSET {"installed", "failed"} /\ {} # {"installed", "failed"}
          /\ "installed" \notin {} /\ crashed' = crashed
      BY <2>3 DEF IInv, TypeOK
    <3>2. \A d \in Backends, h \in Statuses :
            closed'[d][h] = IF d = b /\ h = g THEN {} ELSE closed[d][h]
      BY <1>3, <2>3
    <3>3. Ends(p, b, g, {}, "done")
      BY <1>1, <1>2, <2>1, <3>1, <3>2 DEF Ends
    <3> QED BY <3>1, <3>3, InstallEnds
  <2> QED BY <1>2, <1>6, <2>2, <2>3 DEF InstallFailed
<1> QED BY <1>5, <1>6

LEMMA RemoveOK ==
  ASSUME OnlyDeferred, IInv, NEW c \in Callers, Remove(c)
  PROVE  IInv'
<1> USE ProcFacts
<1> DEFINE b == proc[c].backend
<1>1. proc[c].pc = "uninstall" /\ installMu = NoOne /\ b \in Backends
  BY DEF Remove, IInv, Placed, CallerPlace
<1>2. CASE /\ \/ disk' = disk \ {b} /\ torn' = torn \cup {b}
              \/ UNCHANGED <<disk, torn>>
           /\ Go(c, "done") /\ UNCHANGED installMu
  <2>1. proc' = [proc EXCEPT ![c] = Moved(c, "done")]
    BY <1>2 DEF Go
  <2>2. Moved(c, "done") \in ProcStates(CallerPcs) /\ Moved(c, "done").pc = "done"
    BY CallerStates DEF CallerPcs
  <2>3. UNCHANGED <<started, shutdown, status, closed, err, installMu, todo, crashed>>
    BY <1>2 DEF Remove, world
  <2>4. disk' \subseteq Backends /\ torn' \subseteq Backends /\ There \subseteq There'
    BY <1>1, <1>2 DEF There, IInv, TypeOK
  <2> QED BY <1>1, <2>1, <2>2, <2>3, <2>4, CallerMoves DEF Elsewhere, CallerPcs
<1>3. CASE /\ installMu' = c
           /\ disk' = IF b \in Removable THEN disk \ {b} ELSE disk
           /\ UNCHANGED torn
           /\ Go(c, "reset")
  <2> USE DEF IInv
  <2>1. /\ \A q \in Procs : q # c => proc'[q] = proc[q]
        /\ proc'[c].pc = "reset" /\ proc'[c].backend = b
        /\ proc'[RunLoop] = proc[RunLoop]
        /\ UNCHANGED <<world, status, closed, err, crashed>>
    BY <1>3, CallerStates DEF Go, TypeOK, Remove, CallerPcs
  <2>2. TypeOK'
    <3>1. /\ Moved(c, "reset") \in ProcStates(CallerPcs)
          /\ Moved(c, "reset") \in ProcStates(RunPcs \cup CallerPcs)
      BY CallerStates DEF ProcStates, CallerPcs
    <3>2. /\ proc' \in [Procs -> ProcStates(RunPcs \cup CallerPcs)]
          /\ \A d \in Callers : proc'[d] \in ProcStates(CallerPcs)
      BY <1>3, <3>1 DEF Go, TypeOK
    <3> QED BY <1>3, <2>1, <3>2 DEF TypeOK, world
  <2>3. Bounded'
    <3>1. Spent' = Spent
      BY <1>1, <2>1 DEF Spent
    <3> QED BY <2>1, <3>1 DEF Bounded, Visited, world
  <2>4. Placed'
    <3>1. \A q \in Procs : proc[q].pc \notin {"installing", "reset"}
      BY <1>1 DEF Placed, Locked
    <3>2. Locked'
      BY <1>3, <2>1, <3>1 DEF Locked
    <3> QED BY <1>1, <2>1, <3>2 DEF Placed, RunPlace, CallerPlace, world
  <2>5. Said'
    BY <2>1 DEF Said, Fresh, Unsaid, Unvisited, world
  <2>6. Kept'
    <3>1. \A q \in Procs : proc[q].pc \notin {"installing", "reset"}
      BY <1>1 DEF Placed, Locked
    <3>2. \A d \in Backends : Is(d, status[d], "installed") => d \in There
      BY <3>1 DEF Kept, Backed
    <3>3. \A d \in Backends : d \in There => d \in There' \/ d = b
      BY <1>3 DEF There
    <3>4. Backed'
      BY <2>1, <3>2, <3>3 DEF Backed, Is
    <3> QED BY <2>1, <3>4 DEF Kept, NoDoubleClose, OneOutcome
  <2> QED BY <2>2, <2>3, <2>4, <2>5, <2>6
<1> QED BY <1>2, <1>3 DEF Remove, files

LEMMA ResetOK ==
  ASSUME OnlyDeferred, IInv, NEW c \in Callers, Reset(c)
  PROVE  IInv'
<1> USE ProcFacts DEF IInv
<1> DEFINE b == proc[c].backend
<1>1. proc[c].pc = "reset" /\ b \in Backends
  BY DEF Reset, Placed, CallerPlace
<1>2. /\ \A q \in Procs : q # c => proc'[q] = proc[q]
      /\ proc'[c].pc = "done"
      /\ proc'[RunLoop] = proc[RunLoop]
      /\ UNCHANGED <<world, closed, err, disk, torn, crashed>>
  BY CallerStates DEF Reset, Go, TypeOK, files, CallerPcs
<1>3. /\ status' = [status EXCEPT ![b] = status[b] + 1]
      /\ \A d \in Backends : status'[d] = IF d = b THEN status[b] + 1 ELSE status[d]
  BY DEF Reset, TypeOK
<1>4. \A q \in Procs : q # c => proc[q].pc \notin {"installing", "reset"}
  BY <1>1 DEF Placed, Locked
<1>5. \A d \in Backends : status[d] \in Nat /\ status[d] \in Statuses
  BY StatusFacts DEF TypeOK
<1>6. Bounded'
  <2>1. Spent \subseteq Spent' /\ c \in Spent' \ Spent
    BY <1>1, <1>2 DEF Spent
  <2>2. Cardinality(Spent) + 1 <= Cardinality(Spent')
    BY <2>1, SpentNext
  <2>3. \A d \in Backends : Visited(d)' = Visited(d) /\ Visited(d) \in {0, 1}
    BY <1>2 DEF Visited, world
  <2> QED BY <1>3, <1>5, <2>2, <2>3, SpentFacts, SpentNext DEF Bounded
<1>7. status' \in [Backends -> Statuses]
  <2>1. \A d \in Backends : status'[d] \in Nat
    BY <1>3, <1>5
  <2>2. \A d \in Backends : status'[d] \in Statuses
    BY <1>6, <2>1, InRange DEF Bounded
  <2> QED BY <1>3, <2>2 DEF TypeOK
<1>8. TypeOK'
  <2>1. /\ Moved(c, "done") \in ProcStates(CallerPcs)
        /\ Moved(c, "done") \in ProcStates(RunPcs \cup CallerPcs)
    BY CallerStates DEF ProcStates, CallerPcs
  <2>2. /\ proc' \in [Procs -> ProcStates(RunPcs \cup CallerPcs)]
        /\ \A d \in Callers : proc'[d] \in ProcStates(CallerPcs)
    BY <2>1 DEF Reset, Go, TypeOK
  <2>3. installMu' = NoOne
    BY DEF Reset
  <2> QED BY <1>2, <1>7, <2>2, <2>3 DEF TypeOK, world
<1>9. Placed'
  <2>1. Locked'
    BY <1>2, <1>4 DEF Reset, Locked
  <2>2. RunPlace'
    <3>1. ASSUME proc[RunLoop].pc = "running"
          PROVE  proc[RunLoop].status <= status'[proc[RunLoop].backend]
      <4>1. /\ proc[RunLoop].backend \in Backends /\ proc[RunLoop].status \in Nat
            /\ proc[RunLoop].status <= status[proc[RunLoop].backend]
        BY <3>1, StatusFacts DEF Placed, RunPlace, TypeOK, ProcStates
      <4>2. \A d \in Backends : status[d] <= status'[d] /\ status'[d] \in Nat
        BY <1>3, <1>5
      <4> QED BY <1>5, <4>1, <4>2
    <3> QED BY <1>2, <3>1 DEF Placed, RunPlace, world
  <2> QED BY <1>2, <2>1, <2>2 DEF Placed, CallerPlace
<1>10. Said'
  <2>1. Fresh'
    BY <1>2, <1>3, <1>5, StatusFacts DEF Said, Fresh
  <2>2. Unsaid'
    BY <1>2, <1>4 DEF Unsaid
  <2>3. Unvisited'
    BY <1>2 DEF Said, Unvisited, world
  <2> QED BY <2>1, <2>2, <2>3 DEF Said
<1>11. Kept'
  <2>1. closed[b][status[b] + 1] = {}
    BY <1>1, <1>3, <1>5, <1>7 DEF Said, Fresh
  <2>2. ASSUME NEW d \in Backends, Is(d, status[d], "installed")'
        PROVE  d \in There'
    <3>1. d # b
      BY <1>2, <1>3, <2>1, <2>2 DEF Is
    <3>2. Is(d, status[d], "installed")
      BY <1>2, <1>3, <2>2, <3>1 DEF Is
    <3>3. \A e \in Callers : proc[e].pc = "reset" => e = c
      BY <1>4
    <3> QED BY <1>2, <3>1, <3>2, <3>3 DEF Kept, Backed, There
  <2> QED BY <1>2, <2>2 DEF Kept, NoDoubleClose, OneOutcome, Backed
<1> QED BY <1>6, <1>8, <1>9, <1>10, <1>11

(***************************************************************************)
(* The run loop.                                                           *)
(***************************************************************************)
\* It starts, or goes on to another backend.
LEMMA RunMoves ==
  ASSUME OnlyDeferred, IInv, NEW x \in ProcStates(RunPcs),
         proc[RunLoop].pc \in {"idle", "next"}, x.pc \in {"next", "lock", "running"},
         proc' = [proc EXCEPT ![RunLoop] = x],
         todo' \subseteq todo, started' \in BOOLEAN,
         x.pc \in {"lock", "running"} => x.backend \in todo \ todo',
         x.pc = "lock" => x.backend \in Deferred,
         x.pc = "running" => x.backend \notin Deferred /\ x.status = status[x.backend],
         UNCHANGED <<shutdown, status, closed, err, disk, torn, installMu, crashed>>
  PROVE  IInv'
<1> USE ProcFacts DEF IInv
<1>1. /\ \A p \in Procs : p # RunLoop => proc'[p] = proc[p]
      /\ proc'[RunLoop] = x
      /\ \A c \in Callers : proc'[c] = proc[c]
  BY DEF TypeOK
<1>2. TypeOK'
  <2>1. x \in ProcStates(RunPcs \cup CallerPcs)
    BY DEF ProcStates
  <2>2. proc' \in [Procs -> ProcStates(RunPcs \cup CallerPcs)]
    BY <2>1 DEF TypeOK
  <2> QED BY <1>1, <2>2 DEF TypeOK
<1>3. Bounded'
  <2>1. Spent' = Spent
    BY <1>1 DEF Spent
  <2>2. \A b \in Backends : Visited(b) <= Visited(b)' /\ Visited(b) \in {0, 1} /\ Visited(b)' \in {0, 1}
    BY <1>1 DEF Visited
  <2>3. \A b \in Backends : status[b] \in Nat
    BY StatusFacts DEF TypeOK
  <2> QED BY <2>1, <2>2, <2>3, SpentFacts DEF Bounded
<1>4. Placed'
  <2>1. Locked'
    BY <1>1 DEF Placed, Locked
  <2>2. CallerPlace'
    BY <1>1 DEF Placed, CallerPlace
  <2>3. ASSUME x.pc = "running"
        PROVE  closed[x.backend][x.status] = {} /\ x.status <= status[x.backend]
    <3>1. x.backend \in todo \ Deferred /\ x.backend \in Backends /\ x.status \in Statuses
      BY <2>3 DEF TypeOK, ProcStates
    <3> QED BY <2>3, <3>1, StatusFacts DEF Said, Unvisited
  <2>4. x.pc \in {"lock", "running"} => x.backend \in Backends \ todo'
    BY DEF TypeOK
  <2>5. RunPlace'
    BY <1>1, <2>3, <2>4 DEF RunPlace
  <2> QED BY <2>1, <2>2, <2>5 DEF Placed
<1>5. Said'
  <2>1. \A p \in Procs : proc'[p].pc = "installing" => proc'[p] = proc[p]
    BY <1>1
  <2>2. Fresh' /\ Unvisited'
    BY DEF Said, Fresh, Unvisited
  <2>3. Unsaid'
    BY <2>1, ZenonT(60) DEF Said, Unsaid
  <2> QED BY <2>2, <2>3 DEF Said
<1>6. Kept'
  BY <1>1 DEF Kept, NoDoubleClose, OneOutcome, Backed, There, Is
<1> QED BY <1>2, <1>3, <1>4, <1>5, <1>6

LEMMA RunStates ==
  ASSUME OnlyDeferred, IInv, NEW b \in Backends
  PROVE  /\ At("lock", b, 0) \in ProcStates(RunPcs)
         /\ At("running", b, status[b]) \in ProcStates(RunPcs)
         /\ proc[RunLoop] \in ProcStates(RunPcs)
         /\ proc' = proc => proc' = [proc EXCEPT ![RunLoop] = proc[RunLoop]]
<1>1. 0 \in Statuses /\ status[b] \in Statuses
  BY StatusFacts DEF IInv, TypeOK
<1> QED BY <1>1, ProcFacts DEF At, ProcStates, RunPcs, IInv, TypeOK

LEMMA RunVisitsOK ==
  ASSUME OnlyDeferred, IInv,
         \/ RunStart
         \/ \E b \in Backends : RunVisit(b) \/ RunVisitDeferred(b)
  PROVE  IInv'
<1>1. CASE RunStart
  <2> DEFINE x == Moved(RunLoop, "next")
  <2>1. /\ proc' = [proc EXCEPT ![RunLoop] = x] /\ proc[RunLoop].pc = "idle"
        /\ started' \in BOOLEAN /\ todo' = todo
        /\ UNCHANGED <<shutdown, status, closed, err, disk, torn, installMu, crashed>>
    BY <1>1 DEF RunStart, Go, files
  <2>2. x \in ProcStates(RunPcs) /\ x.pc = "next"
    BY RunNext
  <2> HIDE DEF x
  <2> QED BY <2>1, <2>2, RunMoves
<1>2. ASSUME NEW b \in Backends, RunVisitDeferred(b) PROVE IInv'
  <2>1. /\ proc[RunLoop].pc = "next" /\ b \in todo \cap Deferred /\ todo' = todo \ {b}
        /\ started' \in BOOLEAN
        /\ UNCHANGED <<shutdown, status, closed, err, disk, torn, installMu, crashed>>
    BY <1>2 DEF RunVisitDeferred, IInv, TypeOK, files
  <2>2. CASE proc' = [proc EXCEPT ![RunLoop] = At("lock", b, 0)]
    <3>1. /\ At("lock", b, 0) \in ProcStates(RunPcs)
          /\ At("lock", b, 0).pc = "lock" /\ At("lock", b, 0).backend = b
      BY RunStates DEF At
    <3> QED BY <2>1, <2>2, <3>1, RunMoves
  <2>3. CASE UNCHANGED proc
    BY <2>1, <2>3, RunStates, RunMoves
  <2> QED BY <1>2, <2>2, <2>3 DEF RunVisitDeferred
<1>3. ASSUME NEW b \in Backends, RunVisit(b) PROVE IInv'
  <2>1. /\ proc[RunLoop].pc = "next" /\ b \in todo \ Deferred /\ todo' = todo \ {b}
        /\ started' \in BOOLEAN
        /\ UNCHANGED <<shutdown, status, closed, err, disk, torn, installMu, crashed>>
    BY <1>3 DEF RunVisit, IInv, TypeOK, files
  <2>2. CASE proc' = [proc EXCEPT ![RunLoop] = At("running", b, status[b])]
    <3>1. /\ At("running", b, status[b]) \in ProcStates(RunPcs)
          /\ At("running", b, status[b]).pc = "running"
          /\ At("running", b, status[b]).backend = b
          /\ At("running", b, status[b]).status = status[b]
      BY RunStates DEF At
    <3> QED BY <2>1, <2>2, <3>1, RunMoves
  <2>3. CASE UNCHANGED proc
    BY <2>1, <2>3, RunStates, RunMoves
  <2> QED BY <1>3, <2>2, <2>3 DEF RunVisit
<1> QED BY <1>1, <1>2, <1>3

\* It ends an installation: the channels said are closed.
RunEnds(b, g, said) ==
  /\ proc[RunLoop].pc = "running"
  /\ b = proc[RunLoop].backend /\ g = proc[RunLoop].status
  /\ said # {"installed", "failed"}
  /\ closed' \in [Backends -> [Statuses -> SUBSET {"installed", "failed"}]]
  /\ \A d \in Backends, h \in Statuses :
       closed'[d][h] = IF d = b /\ h = g THEN said ELSE closed[d][h]
  /\ Go(RunLoop, "next")
  /\ err' \in [Backends -> [Statuses -> {"none", "error", "shutdown"}]]
  /\ disk' \subseteq Backends /\ torn' \subseteq Backends /\ There \subseteq There'
  /\ "installed" \in said => b \in There'
  /\ crashed' = crashed
  /\ UNCHANGED <<world, status, installMu>>

LEMMA RunInstallEnds ==
  ASSUME OnlyDeferred, IInv, NEW b \in Backends, NEW g \in Statuses,
         NEW said \in SUBSET {"installed", "failed"}, RunEnds(b, g, said)
  PROVE  IInv'
<1> USE ProcFacts DEF IInv, world, RunEnds
<1>1. /\ \A p \in Procs : p # RunLoop => proc'[p] = proc[p]
      /\ proc'[RunLoop].pc = "next"
      /\ \A c \in Callers : proc'[c] = proc[c]
  BY RunNext DEF Go, TypeOK
<1>2. b \notin Deferred /\ b \notin todo /\ g <= status[b]
  BY DEF Placed, RunPlace
<1>3. /\ \A d \in Backends, h \in Statuses :
           closed'[d][h] = IF d = b /\ h = g THEN said ELSE closed[d][h]
      /\ closed' \in [Backends -> [Statuses -> SUBSET {"installed", "failed"}]]
  OBVIOUS
<1>4. TypeOK'
  <2>1. proc'[RunLoop] \in ProcStates(RunPcs) /\ proc' \in [Procs -> ProcStates(RunPcs \cup CallerPcs)]
    BY RunNext DEF Go, TypeOK, ProcStates
  <2> QED BY <1>1, <1>3, <2>1 DEF TypeOK
<1>5. Bounded'
  <2>1. Spent' = Spent
    BY <1>1 DEF Spent
  <2>2. \A d \in Backends : Visited(d)' = Visited(d)
    BY <1>1 DEF Visited
  <2> QED BY <2>1, <2>2 DEF Bounded
<1>6. Placed'
  <2>1. Locked'
    BY <1>1 DEF Placed, Locked
  <2> QED BY <1>1, <2>1 DEF Placed, RunPlace, CallerPlace
<1>7. Said'
  <2>1. Fresh'
    <3>1. ASSUME NEW d \in Backends, NEW h \in Statuses, h > status[d]
          PROVE  closed'[d][h] = {}
      <4>1. closed[d][h] = {}
        BY <3>1 DEF Said, Fresh
      <4>2. status[b] \in Nat /\ g \in Nat /\ h \in Nat
        BY StatusFacts DEF TypeOK
      <4>3. ~(d = b /\ h = g)
        BY <1>2, <3>1, <4>2
      <4> QED BY <1>3, <4>1, <4>3
    <3> QED BY <3>1 DEF Fresh
  <2>2. ASSUME NEW p \in Procs, proc'[p].pc = "installing"
        PROVE  /\ proc'[p].status = status[proc'[p].backend]
               /\ closed'[proc'[p].backend][proc'[p].status] = {}
    <3>1. p # RunLoop /\ proc'[p] = proc[p]
      BY <1>1, <2>2
    <3>2. /\ proc[p].backend \in Backends /\ proc[p].backend # b /\ proc[p].status \in Statuses
      BY <1>2, <2>2, <3>1, InstallerPlace
    <3>3. proc[p].status = status[proc[p].backend] /\ closed[proc[p].backend][proc[p].status] = {}
      BY <2>2, <3>1 DEF Said, Unsaid
    <3>4. closed'[proc[p].backend][proc[p].status] = closed[proc[p].backend][proc[p].status]
      BY <1>3, <3>2
    <3> QED BY <3>1, <3>3, <3>4
  <2>3. Unsaid'
    BY <2>2 DEF Unsaid
  <2>4. Unvisited'
    <3>1. \A d \in todo \ Deferred : d \in Backends /\ d # b
      BY <1>2 DEF TypeOK
    <3> QED BY <1>3, <3>1 DEF Said, Unvisited
  <2> QED BY <2>1, <2>3, <2>4 DEF Said
<1>8. Kept'
  <2>1. OneOutcome'
    BY <1>3 DEF Kept, OneOutcome
  <2>2. ASSUME NEW d \in Backends, Is(d, status[d], "installed")'
        PROVE  d \in There' \/ \E c \in Callers : proc'[c].pc = "reset" /\ proc'[c].backend = d
    <3>1. CASE d = b /\ status[d] = g
      BY <1>3, <2>2, <3>1 DEF Is
    <3>2. CASE ~(d = b /\ status[d] = g)
      <4>1. status[d] \in Statuses /\ Is(d, status[d], "installed")
        BY <1>3, <2>2, <3>2 DEF Is, TypeOK
      <4>2. d \in There \/ \E c \in Callers : proc[c].pc = "reset" /\ proc[c].backend = d
        BY <4>1 DEF Kept, Backed
      <4>3. There \subseteq There'
        OBVIOUS
      <4> HIDE DEF IInv, RunEnds
      <4> QED BY <1>1, <4>2, <4>3
    <3> QED BY <3>1, <3>2
  <2> QED BY <2>1, <2>2 DEF Kept, NoDoubleClose, Backed
<1> QED BY <1>4, <1>5, <1>6, <1>7, <1>8

LEMMA RunInstallOK ==
  ASSUME OnlyDeferred, IInv, RunInstalled \/ RunFailed
  PROVE  IInv'
<1>1. proc[RunLoop].pc = "running"
  BY DEF RunInstalled, RunFailed
<1>2. PICK b \in Backends, g \in Statuses :
        b = proc[RunLoop].backend /\ g = proc[RunLoop].status
  BY <1>1 DEF IInv, Placed, RunPlace, TypeOK, ProcStates
<1>3. closed[b][g] = {} /\ crashed = FALSE
  BY <1>1, <1>2 DEF IInv, TypeOK, Placed, RunPlace, Kept, NoDoubleClose
<1>4. ASSUME NEW channel \in {"installed", "failed"}, Close(b, g, channel)
      PROVE  /\ closed' \in [Backends -> [Statuses -> SUBSET {"installed", "failed"}]]
             /\ \A d \in Backends, h \in Statuses :
                  closed'[d][h] = IF d = b /\ h = g THEN {channel} ELSE closed[d][h]
             /\ crashed' = crashed
             /\ {channel} \in SUBSET {"installed", "failed"}
             /\ {channel} # {"installed", "failed"}
  <2>1. closed' = [closed EXCEPT ![b][g] = {channel}] /\ crashed' = crashed
    BY <1>3, <1>4 DEF Close, Is
  <2> QED BY <1>2, <2>1 DEF IInv, TypeOK
<1>5. CASE RunInstalled
  <2>1. /\ Go(RunLoop, "next") /\ b \in disk \cup Lenient
        /\ Close(b, g, "installed") /\ UNCHANGED <<world, status, err, disk, torn, installMu>>
    BY <1>2, <1>5 DEF RunInstalled, files
  <2>4. /\ disk' \subseteq Backends /\ torn' \subseteq Backends
        /\ There \subseteq There' /\ b \in There'
    BY <2>1 DEF There, IInv, TypeOK
  <2>2. err' \in [Backends -> [Statuses -> {"none", "error", "shutdown"}]]
    BY <2>1 DEF IInv, TypeOK
  <2>3. RunEnds(b, g, {"installed"})
    BY <1>1, <1>2, <1>4, <2>1, <2>2, <2>4 DEF RunEnds
  <2> QED BY <2>3, RunInstallEnds
<1>6. CASE RunFailed
  <2>1. /\ Go(RunLoop, "next") /\ UNCHANGED <<world, status, disk, torn, installMu>>
        /\ \/ UNCHANGED <<closed, crashed>>
           \/ Close(b, g, "failed")
        /\ err' = [err EXCEPT ![b][g] = IF shutdown THEN "shutdown" ELSE "error"]
    BY <1>2, <1>6 DEF RunFailed, files
  <2>2. err' \in [Backends -> [Statuses -> {"none", "error", "shutdown"}]]
    BY <1>2, <2>1 DEF IInv, TypeOK
  <2>5. disk' \subseteq Backends /\ torn' \subseteq Backends /\ There \subseteq There'
    BY <2>1 DEF There, IInv, TypeOK
  <2>3. CASE Close(b, g, "failed")
    <3>1. RunEnds(b, g, {"failed"})
      BY <1>1, <1>2, <1>4, <2>1, <2>2, <2>3, <2>5 DEF RunEnds
    <3> QED BY <3>1, RunInstallEnds
  <2>4. CASE UNCHANGED <<closed, crashed>>
    <3>1. closed' \in [Backends -> [Statuses -> SUBSET {"installed", "failed"}]]
      BY <2>4 DEF IInv, TypeOK
    <3>2. \A d \in Backends, h \in Statuses :
            closed'[d][h] = IF d = b /\ h = g THEN {} ELSE closed[d][h]
      BY <1>3, <2>4
    <3>3. RunEnds(b, g, {})
      BY <1>1, <1>2, <2>1, <2>2, <2>4, <2>5, <3>1, <3>2 DEF RunEnds
    <3> QED BY <3>3, RunInstallEnds
  <2> QED BY <2>1, <2>3, <2>4
<1> QED BY <1>5, <1>6

(***************************************************************************)
(* The theorems.                                                           *)
(***************************************************************************)
LEMMA InstallerInit == OnlyDeferred /\ Init => IInv
<1> SUFFICES ASSUME OnlyDeferred, Init PROVE IInv
  OBVIOUS
<1> USE ProcFacts, StatusFacts DEF Init
<1>1. At("idle", NoBackend, 0) = [pc |-> "idle", backend |-> NoBackend, status |-> 0]
  BY DEF At
<1>2. TypeOK
  <2>1. /\ At("idle", NoBackend, 0) \in ProcStates(RunPcs)
        /\ At("idle", NoBackend, 0) \in ProcStates(CallerPcs)
        /\ At("idle", NoBackend, 0) \in ProcStates(RunPcs \cup CallerPcs)
    BY <1>1 DEF ProcStates, RunPcs, CallerPcs
  <2> QED BY <2>1, InstallerAssumption DEF TypeOK
<1>3. \A p \in Procs : proc[p].pc = "idle"
  BY <1>1
<1>4. Bounded
  BY <1>3, SpentFacts DEF Bounded, Visited
<1>5. Placed
  BY <1>3 DEF Placed, RunPlace, CallerPlace, Locked
<1>6. \A b \in Backends, g \in Statuses : closed[b][g] = {}
  OBVIOUS
<1>7. Said
  <2>1. todo = Backends
    OBVIOUS
  <2> QED BY <1>3, <1>6, <2>1 DEF Said, Fresh, Unsaid, Unvisited
<1>8. Kept
  <2>1. \A b \in Backends : status[b] \in Statuses
    OBVIOUS
  <2> QED BY <1>6, <2>1 DEF Kept, NoDoubleClose, OneOutcome, Backed, Is
<1> QED BY <1>2, <1>4, <1>5, <1>7, <1>8 DEF IInv

LEMMA InstallerNext == OnlyDeferred /\ IInv /\ [Next]_vars => IInv'
<1> SUFFICES ASSUME OnlyDeferred, IInv, [Next]_vars PROVE IInv'
  OBVIOUS
<1>1. CASE RunStep
  BY <1>1, RunVisitsOK, RunInstallOK DEF RunStep
<1>2. CASE ShutDown
  <2>1. shutdown' \in BOOLEAN
        /\ UNCHANGED <<started, status, closed, err, disk, torn, installMu, todo, proc, crashed>>
    BY <1>2 DEF ShutDown, files
  <2>2. TypeOK'
    BY <2>1 DEF IInv, TypeOK
  <2>3. Bounded' /\ Placed'
    BY <2>1 DEF IInv, Bounded, Spent, Visited, Placed, RunPlace, CallerPlace, Locked
  <2>4. Said' /\ Kept'
    BY <2>1 DEF IInv, Said, Fresh, Unsaid, Unvisited, Kept, NoDoubleClose, OneOutcome,
                Backed, There, Is
  <2> QED BY <2>2, <2>3, <2>4 DEF IInv
<1>3. ASSUME NEW p \in Procs, Step(p) PROVE IInv'
  BY <1>3, BeginInstallOK, InstallOK, CallsOK, RemoveOK, ResetOK DEF Step
<1>4. ASSUME NEW c \in Callers,
             \/ WaitCancelled(c)
             \/ \E b \in Backends : Wait(c, b)
             \/ \E b \in InstallOf : InstallRequest(c, b)
             \/ \E b \in UninstallOf : UninstallRequest(c, b)
      PROVE  IInv'
  BY <1>4, CallsOK
<1>5. CASE UNCHANGED vars
  <2>1. UNCHANGED <<started, shutdown, status, closed, err, disk, torn, installMu, todo, proc, crashed>>
    BY <1>5 DEF vars, files
  <2>2. TypeOK'
    BY <2>1 DEF IInv, TypeOK
  <2>3. Bounded' /\ Placed'
    BY <2>1 DEF IInv, Bounded, Spent, Visited, Placed, RunPlace, CallerPlace, Locked
  <2>4. Said' /\ Kept'
    BY <2>1 DEF IInv, Said, Fresh, Unsaid, Unvisited, Kept, NoDoubleClose, OneOutcome,
                Backed, There, Is
  <2> QED BY <2>2, <2>3, <2>4 DEF IInv
<1> QED BY <1>1, <1>2, <1>3, <1>4, <1>5 DEF Next, Terminated

\* The inductive invariant: types, enough status objects, who works where, what
\* has been said of each status object, and the properties.
THEOREM InstallerSafe == ASSUME OnlyDeferred PROVE Spec => []IInv
BY InstallerInit, InstallerNext, PTL DEF Spec

\* No goroutine closes a channel that is closed already: installMu, and the
\* fresh status object of every retry, keep installations apart.
THEOREM NeverClosedTwice == ASSUME OnlyDeferred PROVE Spec => []NoDoubleClose
<1>1. IInv => NoDoubleClose
  BY DEF IInv, Kept
<1> QED BY <1>1, InstallerSafe, PTL

\* No status object says both that its installation completed and that it
\* failed, so its waiters agree.
THEOREM OutcomeUnique == ASSUME OnlyDeferred PROVE Spec => []OneOutcome
<1>1. IInv => OneOutcome
  BY DEF IInv, Kept
<1> QED BY <1>1, InstallerSafe, PTL

\* The status that says installed of a backend other than llama.cpp is that of a
\* backend whose files are in place, whatever installs, fails and uninstalls
\* meanwhile, but for an uninstall that has taken them away and has not yet said
\* so, or has failed half-way and never will.
THEOREM InstalledMeansOnDisk == ASSUME OnlyDeferred PROVE Spec => []InstalledOnDisk
<1>1. IInv => InstalledOnDisk
  BY DEF IInv, Kept, Backed, There, InstalledOnDisk
<1> QED BY <1>1, InstallerSafe, PTL
=============================================================================
