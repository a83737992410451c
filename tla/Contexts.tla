------------------------------ MODULE Contexts ------------------------------
(***************************************************************************)
(* Named contexts of the docker model CLI (cmd/cli/pkg/modelctx/store.go)  *)
(* and the detection of the model runner (cmd/cli/desktop/context.go):     *)
(* CLI processes create, remove, select and read contexts in one file,     *)
(* written under a lock file and replaced by a rename; any of them may be  *)
(* killed at any step.                                                     *)
(***************************************************************************)
EXTENDS Naturals, FiniteSets

CONSTANTS
  Commands,     \* CLI processes, each running one command
  ContextNames, \* names other than "default"
  Hosts,        \* configurations: [scheme, tls]; scheme is http, https or none
  Settings,     \* environments: [host, tls, docker], see Detected
  NoContext,    \* no configuration
  NoProcess

Default == "default"

ASSUME ContextsAssumption ==
  /\ Default \notin ContextNames
  /\ NoContext \notin Hosts
  /\ NoProcess \notin Commands

VARIABLES
  ctxFile,  \* contexts.json: current and contexts
  ctxLock,  \* who holds contexts.lock
  ctxTmp,   \* temporary files by the process that wrote them
  command,  \* the processes
  promised  \* history: the contexts by what the commands reported

ctxVars == <<ctxFile, ctxLock, ctxTmp, command, promised>>

Config == Hosts \cup {NoContext}
ContextFile == [current : ContextNames \cup {Default}, contexts : [ContextNames -> Config]]
EmptyFile == [current |-> Default, contexts |-> [n \in ContextNames |-> NoContext]]
NotRun == [pc |-> "idle"]

CtxInit ==
  /\ ctxFile = EmptyFile        \* a missing file
  /\ ctxLock = NoProcess
  /\ ctxTmp = [p \in Commands |-> EmptyFile]
  /\ command = [p \in Commands |-> NotRun]
  /\ promised = EmptyFile

(***************************************************************************)
(* What a command asks for: op is create, remove or use.                   *)
(***************************************************************************)
\* ValidateName, and Remove's refusal of the reserved name
Valid(op, n) == n \in ContextNames \/ op = "use"

CtxStart(p, op, n, h) ==
  /\ command[p] = NotRun
  /\ command' = [command EXCEPT ![p] =
       [pc |-> IF Valid(op, n) THEN "lock" ELSE "failed", op |-> op, name |-> n, host |-> h]]
  /\ UNCHANGED <<ctxFile, ctxLock, ctxTmp, promised>>

Known(f) == {Default} \cup {n \in ContextNames : f.contexts[n] # NoContext}

\* Mutant: the active context may be removed.
AllowedActive(op, n, f) ==
  \/ op = "create" /\ f.contexts[n] = NoContext
  \/ op = "remove" /\ f.contexts[n] # NoContext
  \/ op = "use" /\ n \in Known(f)

\* What the mutation functions refuse.
Allowed(op, n, f) ==
  \/ op = "create" /\ f.contexts[n] = NoContext
  \/ op = "remove" /\ f.contexts[n] # NoContext /\ f.current # n
  \/ op = "use" /\ n \in Known(f)

Mutated(op, n, h, f) ==
  IF op = "use" THEN [f EXCEPT !.current = n]
  ELSE [f EXCEPT !.contexts[n] = IF op = "create" THEN h ELSE NoContext]

\* Mutant: the lock is not waited for.
Lockable(p) == TRUE

Free(p) == ctxLock = NoProcess

\* lockFile, and the read of the file under the lock
CtxRead(p) ==
  /\ command[p].pc = "lock" /\ Free(p)
  /\ ctxLock' = p
  /\ command' = [command EXCEPT ![p] = [pc |-> "mutate", op |-> @.op, name |-> @.name, host |-> @.host, file |-> ctxFile]]
  /\ UNCHANGED <<ctxFile, ctxTmp, promised>>

CtxRefuse(p) ==
  LET c == command[p]
  IN  /\ c.pc = "mutate" /\ ~Allowed(c.op, c.name, c.file)
      /\ command' = [command EXCEPT ![p].pc = "failed"]
      /\ ctxLock' = NoProcess
      /\ UNCHANGED <<ctxFile, ctxTmp, promised>>

\* The temporary file is written and synced.
CtxWrite(p) ==
  LET c == command[p]
  IN  /\ c.pc = "mutate" /\ Allowed(c.op, c.name, c.file)
      /\ ctxTmp' = [ctxTmp EXCEPT ![p] = Mutated(c.op, c.name, c.host, c.file)]
      /\ command' = [command EXCEPT ![p].pc = "rename"]
      /\ UNCHANGED <<ctxFile, ctxLock, promised>>

\* A write, a sync or the rename fails: the temporary file is removed.
CtxWriteFails(p) ==
  /\ command[p].pc \in {"mutate", "rename"}
  /\ ctxTmp' = [ctxTmp EXCEPT ![p] = EmptyFile]
  /\ command' = [command EXCEPT ![p].pc = "failed"]
  /\ ctxLock' = NoProcess
  /\ UNCHANGED <<ctxFile, promised>>

\* The rename; the command still has to give up the lock and to report.
CtxRename(p) ==
  /\ command[p].pc = "rename"
  /\ ctxFile' = ctxTmp[p]
  /\ command' = [command EXCEPT ![p].pc = "report"]
  /\ promised' = Mutated(command[p].op, command[p].name, command[p].host, promised)
  /\ UNCHANGED <<ctxLock, ctxTmp>>

CtxReport(p) ==
  /\ command[p].pc = "report"
  /\ ctxLock' = IF ctxLock = p THEN NoProcess ELSE ctxLock
  /\ command' = [command EXCEPT ![p].pc = "done"]
  /\ UNCHANGED <<ctxFile, ctxTmp, promised>>

\* The process is killed; the system gives up its lock.
CtxKill(p) ==
  /\ command[p].pc \in {"lock", "mutate", "rename", "report"}
  /\ ctxLock' = IF ctxLock = p THEN NoProcess ELSE ctxLock
  /\ command' = [command EXCEPT ![p].pc = "failed"]
  /\ UNCHANGED <<ctxFile, ctxTmp, promised>>

(***************************************************************************)
(* DetectContext: MODEL_RUNNER_HOST or the active context, read in two     *)
(* steps without the lock.  env.host is a scheme or "", env.tls is         *)
(* "true", "false" or "unset", env.docker is the kind of the engine.       *)
(***************************************************************************)
DetectStart(p, env) ==
  /\ command[p] = NotRun
  /\ command' = [command EXCEPT ![p] =
       IF env.host # "" THEN [pc |-> "detect", env |-> env, cfg |-> NoContext]
       ELSE [pc |-> "active", env |-> env]]
  /\ UNCHANGED <<ctxFile, ctxLock, ctxTmp, promised>>

\* The rest of the detection, with the configuration of a context or none.
DetectWith(p, cfg) ==
  /\ command' = [command EXCEPT ![p] = [pc |-> "detect", env |-> @.env, cfg |-> cfg]]
  /\ UNCHANGED <<ctxFile, ctxLock, ctxTmp, promised>>

\* A file that cannot be read or parsed is a warning, here and in DetectGet.
DetectActive(p) ==
  /\ command[p].pc = "active"
  /\ \/ DetectWith(p, NoContext)
     \/ /\ ctxFile.current # Default
        /\ command' = [command EXCEPT ![p] =
             [pc |-> "get", env |-> @.env, name |-> ctxFile.current]]
        /\ UNCHANGED <<ctxFile, ctxLock, ctxTmp, promised>>

\* So is a context that is gone by now.
DetectGet(p) ==
  /\ command[p].pc = "get"
  /\ \E cfg \in {ctxFile.contexts[command[p].name], NoContext} : DetectWith(p, cfg)

\* The scheme the manual host gets, and the one of its TLS URL.
Scheme(host, tls) == IF host # "none" THEN host ELSE IF tls THEN "https" ELSE "http"

TLSScheme(scheme, tls) == IF tls THEN "https" ELSE scheme

\* Mutant: the context is not asked.
TLSOfEnv(env, cfg) == env.tls = "true"

\* The environment says, else the context.
UsesTLS(env, cfg) == IF env.tls = "unset" /\ cfg # NoContext THEN cfg.tls ELSE env.tls = "true"

Detected(env, cfg) ==
  LET tls == UsesTLS(env, cfg)
      host == IF env.host # "" THEN env.host ELSE IF cfg # NoContext THEN cfg.scheme ELSE ""
      manual == host # ""
      kind == IF manual THEN "manual" ELSE IF env.docker = "wsl" THEN "moby" ELSE env.docker
      plain == IF manual THEN Scheme(host, tls) ELSE "http"
      secure == IF manual THEN TLSScheme(plain, tls) ELSE IF kind = "desktop" THEN "http" ELSE "https"
  IN  IF tls /\ secure # "https" THEN [pc |-> "failed", why |-> "scheme"]
      ELSE IF tls /\ kind = "desktop" THEN [pc |-> "failed", why |-> "desktop"]
      ELSE [pc |-> "detected", kind |-> kind, tls |-> tls, wanted |-> env, cfg |-> cfg,
            url |-> IF tls THEN secure ELSE plain]

DetectEnd(p) ==
  /\ command[p].pc = "detect"
  /\ command' = [command EXCEPT ![p] = Detected(@.env, @.cfg)]
  /\ UNCHANGED <<ctxFile, ctxLock, ctxTmp, promised>>

CtxNext ==
  \E p \in Commands :
    \/ \E op \in {"create", "remove", "use"}, n \in ContextNames \cup {Default}, h \in Hosts : CtxStart(p, op, n, h)
    \/ CtxRead(p) \/ CtxRefuse(p) \/ CtxWrite(p) \/ CtxWriteFails(p) \/ CtxRename(p) \/ CtxReport(p) \/ CtxKill(p)
    \/ \E env \in Settings : DetectStart(p, env)
    \/ DetectActive(p) \/ DetectGet(p) \/ DetectEnd(p)

CtxSpec == CtxInit /\ [][CtxNext]_ctxVars

-----------------------------------------------------------------------------
(***************************************************************************)
(* Properties.                                                             *)
(***************************************************************************)
\* The context that is selected exists, whatever other commands remove.
ActiveExists == ctxFile.current \in Known(ctxFile)

\* No update is lost: the file holds every change that was committed, in the
\* order of the commits, although every command writes the whole file.
NoLostUpdate == ctxFile = promised

\* A detection that asks for TLS, in the environment or by the context and not
\* overridden there, ends with an https URL or with an error.
NeverPlaintext ==
  \A p \in Commands : command[p].pc = "detected" =>
    LET c == command[p]
    IN  (c.wanted.tls = "true" \/ (c.wanted.tls = "unset" /\ c.cfg # NoContext /\ c.cfg.tls)) => c.url = "https"

\* The file of contexts serves every command, whichever run at once and whichever are
\* killed: what is selected exists, no change is lost, and whoever reads it while
\* others write it never connects without the TLS that is asked for.
ContextsKept == ActiveExists /\ NoLostUpdate /\ NeverPlaintext
=============================================================================
