----------------------------- MODULE Standalone -----------------------------
(***************************************************************************)
(* The standalone model runner: CLI processes that install, reinstall and  *)
(* remove one controller container in a Docker engine they share           *)
(* (cmd/cli/commands/install-runner.go, uninstall-runner.go and            *)
(* cmd/cli/pkg/standalone).  Nothing coordinates them but the container's  *)
(* name, which the engine keeps unique.                                    *)
(***************************************************************************)
EXTENDS Naturals

CONSTANTS
  Installers,   \* CLI processes
  Operations,   \* what each may do: ensure (by another command), install, reinstall, uninstall
  MaxTries,     \* bound of ensureContainerStarted: 10 in the code
  MaxContainers \* bound: containers created in a behaviour

StandaloneAssumption ==
  /\ Installers # {} /\ MaxTries \in Nat \ {0} /\ MaxContainers \in Nat

NoContainer == [id |-> 0, state |-> "none"]

VARIABLES
  controller, \* the container of the name, with the engine's state of it
  lastID,
  image,      \* the controller's image is in the engine
  installer   \* the processes

saVars == <<controller, lastID, image, installer>>

SaInit ==
  /\ controller \in {NoContainer} \cup [id : {1}, state : {"running", "exited"}]
  /\ lastID = 1
  /\ image \in BOOLEAN
  /\ installer = [p \in Installers |-> [pc |-> "idle"]]

SaGoto(p, pc) == installer' = [installer EXCEPT ![p].pc = pc]

Begin(p, op) ==
  /\ installer[p].pc = "idle"
  /\ installer' = [installer EXCEPT ![p] =
       [pc |-> "list", op |-> op, doomed |-> {}, own |-> 0, tries |-> MaxTries, again |-> FALSE]]
  /\ UNCHANGED <<controller, lastID, image>>

\* install and ensure keep a container that runs.
Spared(p) == installer[p].op \in {"ensure", "install"}

\* PruneControllerContainers: the list of what it will remove
PruneList(p) ==
  /\ installer[p].pc = "list"
  /\ installer' = [installer EXCEPT ![p].pc = "remove",
       ![p].doomed = IF controller = NoContainer \/ (Spared(p) /\ controller.state = "running") THEN {}
                     ELSE {controller.id}]
  /\ UNCHANGED <<controller, lastID, image>>

\* Mutant: a command that removed a container is done.
AfterPruneDone(op) == IF op \in {"uninstall", "reinstall"} THEN "done" ELSE "find"

\* The removal is all of an uninstall; the others look for a container or make one.
AfterPrune(op) == CASE op = "uninstall" -> "done" [] op = "reinstall" -> "pull" [] OTHER -> "find"

\* ... and the forced removal, whatever the state is by now.  A container that
\* is gone is an error of the whole command.
PruneRemove(p) ==
  LET doomed == installer[p].doomed
  IN  /\ installer[p].pc = "remove"
      /\ controller' = IF controller.id \in doomed THEN NoContainer ELSE controller
      /\ SaGoto(p, IF doomed \subseteq {controller.id} THEN AfterPrune(installer[p].op) ELSE "failed")
      /\ UNCHANGED <<lastID, image>>

IsUp(c) == c.state = "running"

\* FindControllerContainer, after its prune
FindController(p) ==
  /\ installer[p].pc = "find"
  /\ SaGoto(p, IF IsUp(controller) THEN "done" ELSE IF installer[p].again THEN "failed" ELSE "pull")
  /\ UNCHANGED <<controller, lastID, image>>

\* EnsureControllerImage: a failed pull falls back on the local image.
EnsureImage(p) ==
  /\ installer[p].pc = "pull"
  /\ \E pulled \in BOOLEAN :
       /\ image' = (image \/ pulled)
       /\ SaGoto(p, IF image' THEN "create" ELSE "failed")
  /\ UNCHANGED <<controller, lastID>>

\* A conflict is another installer at work: start its container.
CreateController(p) ==
  LET free == controller = NoContainer
  IN  /\ installer[p].pc = "create" /\ (free => lastID < MaxContainers)
      /\ controller' = IF free THEN [id |-> lastID + 1, state |-> "created"] ELSE controller
      /\ lastID' = IF free THEN lastID + 1 ELSE lastID
      /\ installer' = [installer EXCEPT ![p].pc = "start", ![p].own = IF free THEN lastID + 1 ELSE 0]
      /\ UNCHANGED image

\* ensureContainerStarted, by name
StartController(p) ==
  /\ installer[p].pc = "start" /\ controller # NoContainer
  /\ controller' = [controller EXCEPT !.state = "running"]
  /\ SaGoto(p, IF installer[p].own = 0 THEN "wait" ELSE "sync")
  /\ UNCHANGED <<lastID, image>>

\* ... a container that is not there is waited for, a number of times
StartMisses(p) ==
  /\ installer[p].pc = "start" /\ controller = NoContainer
  /\ installer' = [installer EXCEPT ![p].tries = @ - 1, ![p].pc = IF installer[p].tries = 1 THEN "failed" ELSE "start"]
  /\ UNCHANGED <<controller, lastID, image>>

\* What the creator of a container that cannot be started removes.
Cleaned(p) == IF controller.id = installer[p].own THEN NoContainer ELSE controller

\* Any other error, such as a port that is taken.
StartFails(p) ==
  /\ installer[p].pc = "start" /\ controller # NoContainer
  /\ controller' = Cleaned(p)
  /\ SaGoto(p, "failed")
  /\ UNCHANGED <<lastID, image>>

\* The creator copies the Docker configuration, and restarts the container
\* after the certificates of a proxy were added; errors are warnings.
SyncConfig(p) ==
  /\ installer[p].pc = "sync"
  /\ \E certificate \in BOOLEAN :
       /\ controller' = IF certificate /\ controller.id = installer[p].own THEN [controller EXCEPT !.state = "exited"] ELSE controller
       /\ SaGoto(p, IF certificate THEN "restart" ELSE "wait")
  /\ UNCHANGED <<lastID, image>>

RestartController(p) ==
  /\ installer[p].pc = "restart"
  /\ controller' = IF controller.id = installer[p].own THEN [controller EXCEPT !.state = "running"] ELSE controller
  /\ SaGoto(p, "wait")
  /\ UNCHANGED <<lastID, image>>

\* waitForStandaloneRunnerAfterInstall; ensure then looks for the container.
WaitForRunner(p) ==
  /\ installer[p].pc = "wait"
  /\ \E answered \in BOOLEAN :
       /\ answered => IsUp(controller)
       /\ installer' = [installer EXCEPT ![p].again = TRUE,
            ![p].pc = IF ~answered THEN "failed" ELSE IF installer[p].op = "ensure" THEN "list" ELSE "done"]
  /\ UNCHANGED <<controller, lastID, image>>

SaNext ==
  \E p \in Installers :
    \/ \E op \in Operations[p] : Begin(p, op)
    \/ PruneList(p) \/ PruneRemove(p) \/ FindController(p) \/ EnsureImage(p) \/ CreateController(p)
    \/ StartController(p) \/ StartMisses(p) \/ StartFails(p) \/ SyncConfig(p) \/ RestartController(p) \/ WaitForRunner(p)

SaSpec == SaInit /\ [][SaNext]_saVars

-----------------------------------------------------------------------------
(***************************************************************************)
(* Properties.                                                             *)
(***************************************************************************)
\* Installers work together: once every command has ended, none with an error
\* and none of them an uninstall, the runner is up.  A container that one of
\* them started may well have been removed by another, which took it from a list
\* made before the start; but whoever removes one goes on to look and to create.
WorkTogether ==
  (\A p \in Installers : installer[p].pc = "done" /\ installer[p].op # "uninstall") => IsUp(controller)
=============================================================================
