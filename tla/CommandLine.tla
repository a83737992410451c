----------------------------- MODULE CommandLine -----------------------------
(***************************************************************************)
(* The machines of the docker model command, side by side: a behaviour is  *)
(* one of one machine, the one in focus, and the variables of the others   *)
(* are off (those of Contexts, which this module extends, stay as they     *)
(* begin).  The machines share nothing in the program: what one of them    *)
(* does in the daemon is a machine of Services.                            *)
(***************************************************************************)
EXTENDS Contexts, Sequences, Integers

CONSTANTS
  Operations, MaxTries, MaxContainers,                              \* Standalone
  Runes, LineWidth, MaxTyped, MaxGaps, Saved, Limit, MaxCalls,      \* Readline
  LineKinds, Replies, KnownTools, MaxRounds, MaxTurns, Streams,
  Attempts,                                                         \* ChatClient
  Layers, Window                                                    \* Archive

Off == "off"
Focus == {"contexts", "standalone", "readline", "chat", "archive"}

VARIABLES
  focus,
  controller, lastID, image, installer,
  editor, lines, linePos, draft, reader, typed, plain,
  entry, system, history, talk, shownText, transfer,
  order, inStore, package, said, archive, writer, wire, body, unpacker, answer, fetched, daemonHas

SA == INSTANCE Standalone WITH Installers <- DOMAIN Operations
RL == INSTANCE Readline
CC == INSTANCE ChatClient
AR == INSTANCE Archive WITH
  command <- package, transfer <- archive, reader <- unpacker

ASSUME MachinesAssumption ==
  /\ SA!StandaloneAssumption /\ RL!ReadlineAssumption /\ CC!ChatAssumption
  /\ AR!ArchiveAssumption

standaloneVars == <<controller, lastID, image, installer>>
readlineVars == <<editor, lines, linePos, draft, reader, typed, plain>>
chatVars == <<entry, system, history, talk, shownText, transfer>>
archiveVars == <<order, inStore, package, said, archive, writer, wire, body, unpacker, answer,
                 fetched, daemonHas>>

StandaloneOff == controller = Off /\ lastID = Off /\ image = Off /\ installer = Off
ReadlineOff ==
  /\ editor = Off /\ lines = Off /\ linePos = Off /\ draft = Off /\ reader = Off
  /\ typed = Off /\ plain = Off
ChatOff ==
  entry = Off /\ system = Off /\ history = Off /\ talk = Off /\ shownText = Off /\ transfer = Off
ArchiveOff ==
  /\ order = Off /\ inStore = Off /\ package = Off /\ said = Off /\ archive = Off /\ writer = Off
  /\ wire = Off /\ body = Off /\ unpacker = Off /\ answer = Off /\ fetched = Off /\ daemonHas = Off

Init ==
  /\ focus \in Focus
  /\ CtxInit
  /\ IF focus = "standalone" THEN SA!SaInit ELSE StandaloneOff
  /\ IF focus = "readline" THEN RL!RLInit ELSE ReadlineOff
  /\ IF focus = "chat" THEN CC!CCInit ELSE ChatOff
  /\ IF focus = "archive" THEN AR!ArInit ELSE ArchiveOff

ContextsStep ==
  focus = "contexts" /\ CtxNext
  /\ UNCHANGED <<focus, standaloneVars, readlineVars, chatVars, archiveVars>>
StandaloneStep ==
  focus = "standalone" /\ SA!SaNext
  /\ UNCHANGED <<focus, ctxVars, readlineVars, chatVars, archiveVars>>
ReadlineStep ==
  focus = "readline" /\ RL!RLNext
  /\ UNCHANGED <<focus, ctxVars, standaloneVars, chatVars, archiveVars>>
ChatStep ==
  focus = "chat" /\ CC!CCNext
  /\ UNCHANGED <<focus, ctxVars, standaloneVars, readlineVars, archiveVars>>
ArchiveStep ==
  focus = "archive" /\ AR!ArNext
  /\ UNCHANGED <<focus, ctxVars, standaloneVars, readlineVars, chatVars>>
Next == ContextsStep \/ StandaloneStep \/ ReadlineStep \/ ChatStep \/ ArchiveStep

vars == <<focus, ctxVars, standaloneVars, readlineVars, chatVars, archiveVars>>
Spec == Init /\ [][Next]_vars

-----------------------------------------------------------------------------
(* The properties of the machines, each of its machine's behaviours; ContextsKept is
   used as it is, and the machines' modules state the conjuncts. *)
(* When every process that works on the controller is done, the last command that
   said it is running is right (cmd/cli/commands/install-runner.go). *)
WorkTogether == focus = "standalone" => SA!WorkTogether
(* What the terminal shows is the line that will be sent, and walking through the
   history gives the draft back (readline/buffer.go, readline/history.go). *)
EditorAgrees == focus = "readline" => RL!DisplayAgrees /\ RL!DraftKept
(* A request is one the server accepts, the history alternates questions and
   answers, all the text of an answer is shown, and no pull or push that failed is
   reported as a success (commands/run.go, desktop/desktop.go). *)
ChatTrue ==
  focus = "chat" =>
    CC!RequestWellFormed /\ CC!HistoryPaired /\ CC!ShownInFull /\ CC!NoFalseSuccess
(* What is loaded or built on is whole (commands/package.go, client.go). *)
ArchiveWhole == focus = "archive" => AR!PackagedWhole
(* Command, writer and reader do not wait for each other for good (package.go). *)
ArchiveMoves == focus = "archive" => AR!NobodyHangs
=============================================================================
