-------------------------- MODULE CommandLineProofs --------------------------
(***************************************************************************)
(* Proofs about the machines of the command line: for any number of        *)
(* commands, names and hosts, and whichever of the commands are killed,    *)
(* the selected context exists, no committed change is lost, and a         *)
(* detection that is to use TLS never ends with a plain URL; installers    *)
(* that work together leave a runner that is up; what a package loads or   *)
(* builds on is whole; and a chat asks only what the API accepts,          *)
(* remembers only what was answered, shows all of it and reports no        *)
(* transfer as done that failed.                                           *)
(*                                                                         *)
(* A machine moves only while it is in focus, so what holds of each alone  *)
(* holds of the command line.                                              *)
(***************************************************************************)
EXTENDS CommandLine, TLAPS, SequenceTheorems, FiniteSetTheorems, WellFoundedInduction

(***************************************************************************)
(* The context file.  The inductive invariant says why: the lock is held   *)
(* by whoever is between its read and its report, what that command has    *)
(* read is what the file still holds, and the temporary file it is about   *)
(* to rename is that file with its one change made.                        *)
(***************************************************************************)
Ops == {"create", "remove", "use"}
Names == ContextNames \cup {Default}
Places == {"lock", "mutate", "rename", "report", "failed", "done"}

(* A command that waits for the lock, and one that has got it. *)
Waiting == [pc : Places, op : Ops, name : Names, host : Hosts]
Locked == [pc : Places, op : Ops, name : Names, host : Hosts, file : ContextFile]

CommandOK(p) ==
  /\ command[p].pc = "lock" => command[p] \in Waiting
  /\ command[p].pc \in {"mutate", "rename", "report"} => command[p] \in Locked
  /\ command[p].pc \in {"lock", "mutate", "rename", "report"} =>
       Valid(command[p].op, command[p].name)

LockOK(p) == command[p].pc \in {"mutate", "rename", "report"} => ctxLock = p

FreshOK(p) == command[p].pc \in {"mutate", "rename"} => command[p].file = ctxFile

TmpOK(p) ==
  command[p].pc = "rename" =>
    LET c == command[p]
    IN  Allowed(c.op, c.name, c.file) /\ ctxTmp[p] = Mutated(c.op, c.name, c.host, c.file)

SecureOK(p) ==
  command[p].pc = "detected" =>
    LET c == command[p]
    IN  (c.wanted.tls = "true" \/ (c.wanted.tls = "unset" /\ c.cfg # NoContext /\ c.cfg.tls)) =>
          c.url = "https"

CtxInv ==
  /\ DOMAIN command = Commands /\ command = [p \in Commands |-> command[p]]
  /\ ctxTmp = [p \in Commands |-> ctxTmp[p]]
  /\ ctxFile \in ContextFile /\ ctxFile.current \in Known(ctxFile)
  /\ promised = ctxFile
  /\ \A p \in Commands : CommandOK(p) /\ LockOK(p) /\ FreshOK(p) /\ TmpOK(p) /\ SecureOK(p)

(* A change that is allowed leaves a file whose selected context exists. *)
LEMMA MutatedOK ==
  ASSUME NEW f \in ContextFile, f.current \in Known(f),
         NEW op \in Ops, NEW n \in Names, NEW h \in Hosts,
         Valid(op, n), Allowed(op, n, f)
  PROVE  /\ Mutated(op, n, h, f) \in ContextFile
         /\ Mutated(op, n, h, f).current \in Known(Mutated(op, n, h, f))
<1>1. CASE op = "create"
  BY <1>1, ContextsAssumption DEF ContextFile, Known, Valid, Allowed, Mutated, Names, Config
<1>2. CASE op = "remove"
  BY <1>2, ContextsAssumption DEF ContextFile, Known, Valid, Allowed, Mutated, Names, Config
<1>3. CASE op = "use"
  BY <1>3, ContextsAssumption DEF ContextFile, Known, Valid, Allowed, Mutated, Names, Config
<1> QED BY <1>1, <1>2, <1>3 DEF Ops

(* A detection that ends with a URL has found what TLS asks for. *)
LEMMA DetectedSecure ==
  ASSUME NEW env, NEW cfg, Detected(env, cfg).pc = "detected",
         env.tls = "true" \/ (env.tls = "unset" /\ cfg # NoContext /\ cfg.tls)
  PROVE  /\ Detected(env, cfg).url = "https"
  BY DEF Detected, UsesTLS, Scheme, TLSScheme

(* The invariant holds at the start. *)
LEMMA CtxInvInit == CtxInit => CtxInv
<1> SUFFICES ASSUME CtxInit PROVE CtxInv  OBVIOUS
<1> USE DEF CtxInit, NotRun
<1>1. EmptyFile \in ContextFile /\ EmptyFile.current \in Known(EmptyFile)
  BY DEF EmptyFile, ContextFile, Known, Config
<1>2. ASSUME NEW p \in Commands
      PROVE  CommandOK(p) /\ LockOK(p) /\ FreshOK(p) /\ TmpOK(p) /\ SecureOK(p)
  BY DEF CommandOK, LockOK, FreshOK, TmpOK, SecureOK
<1> QED BY <1>1, <1>2 DEF CtxInv

(* What another command does not disturb: a command that keeps its state and, if it
   is between its read and its report, the lock and the file. *)
LEMMA Undisturbed ==
  ASSUME CtxInv, NEW p \in Commands, NEW q \in Commands, p # q,
         command' = [command EXCEPT ![p] = command'[p]],
         ctxTmp' = [ctxTmp EXCEPT ![p] = ctxTmp'[p]],
         ctxLock # p => (ctxFile' = ctxFile /\ (ctxLock' = ctxLock \/ ctxLock = NoProcess))
  PROVE  CommandOK(q)' /\ LockOK(q)' /\ FreshOK(q)' /\ TmpOK(q)' /\ SecureOK(q)'
<1>1. command'[q] = command[q] /\ ctxTmp'[q] = ctxTmp[q]
  BY DEF CtxInv
<1>2. CommandOK(q) /\ LockOK(q) /\ FreshOK(q) /\ TmpOK(q) /\ SecureOK(q)
  BY DEF CtxInv
<1>3. command[q].pc \in {"mutate", "rename", "report"} => ctxFile' = ctxFile /\ ctxLock' = q
  BY <1>2, ContextsAssumption DEF LockOK
<1>4. CommandOK(q)'
  BY <1>1, <1>2 DEF CommandOK, Waiting, Locked, ContextFile, Config, Valid, Ops, Names
<1>5. LockOK(q)'  BY <1>1, <1>3 DEF LockOK
<1>6. FreshOK(q)'  BY <1>1, <1>2, <1>3 DEF FreshOK
<1>7. TmpOK(q)'  BY <1>1, <1>2 DEF TmpOK, Allowed, Mutated, Known
<1>8. SecureOK(q)'  BY <1>1, <1>2 DEF SecureOK
<1> QED BY <1>4, <1>5, <1>6, <1>7, <1>8

(* Moving on, a command keeps everything but its place. *)
LEMMA LockedMoves ==
  ASSUME NEW r \in Locked, NEW d \in Places, NEW s, s = [r EXCEPT !.pc = d]
  PROVE  /\ s \in Locked /\ s.pc = d
         /\ s.op = r.op /\ s.name = r.name /\ s.host = r.host /\ s.file = r.file
  BY DEF Locked

(* It is enough to look at the command that moves, and at the file. *)
LEMMA OneMoves ==
  ASSUME CtxInv, NEW p \in Commands,
         command' = [command EXCEPT ![p] = command'[p]],
         ctxTmp' = [ctxTmp EXCEPT ![p] = ctxTmp'[p]],
         ctxLock # p => (ctxFile' = ctxFile /\ (ctxLock' = ctxLock \/ ctxLock = NoProcess)),
         ctxFile' \in ContextFile, (ctxFile.current \in Known(ctxFile))', promised' = ctxFile',
         CommandOK(p)', LockOK(p)', FreshOK(p)', TmpOK(p)', SecureOK(p)'
  PROVE  CtxInv'
<1>1. ASSUME NEW q \in Commands
      PROVE  CommandOK(q)' /\ LockOK(q)' /\ FreshOK(q)' /\ TmpOK(q)' /\ SecureOK(q)'
  <2>1. CASE q = p  BY <2>1
  <2>2. CASE q # p  BY <2>2, Undisturbed
  <2> QED BY <2>1, <2>2
<1>2. DOMAIN command' = Commands /\ command' = [q \in Commands |-> command'[q]]
  BY DEF CtxInv
<1>3. ctxTmp' = [q \in Commands |-> ctxTmp'[q]]
  BY DEF CtxInv
<1> QED BY <1>1, <1>2, <1>3 DEF CtxInv

(* Steps that touch neither the file nor the lock, and lead the command to a state
   that claims nothing. *)
LEMMA Harmless ==
  ASSUME CtxInv, NEW p \in Commands, NEW c,
         command' = [command EXCEPT ![p] = c],
         c.pc \notin {"lock", "mutate", "rename", "report"},
         SecureOK(p)',
         UNCHANGED <<ctxFile, ctxLock, ctxTmp, promised>>
  PROVE  CtxInv'
<1>1. command'[p] = c  BY DEF CtxInv
<1>2. CommandOK(p)' /\ LockOK(p)' /\ FreshOK(p)' /\ TmpOK(p)'
  BY <1>1 DEF CommandOK, LockOK, FreshOK, TmpOK
<1>3. ctxTmp' = [ctxTmp EXCEPT ![p] = ctxTmp'[p]]
  BY DEF CtxInv
<1>4. ctxFile' \in ContextFile /\ (ctxFile.current \in Known(ctxFile))' /\ promised' = ctxFile'
  BY DEF CtxInv, Known, ContextFile
<1> QED BY <1>1, <1>2, <1>3, <1>4, OneMoves

(* Steps that only end a command, and give its lock up. *)
LEMMA Ends ==
  ASSUME CtxInv, NEW p \in Commands, NEW d \in {"failed", "done"},
         command[p].pc \in {"lock", "mutate", "rename", "report"},
         command' = [command EXCEPT ![p].pc = d],
         ctxLock # p => ctxLock' = ctxLock,
         ctxTmp' = [ctxTmp EXCEPT ![p] = ctxTmp'[p]],
         UNCHANGED <<ctxFile, promised>>
  PROVE  CtxInv'
<1>1. command'[p] = [command[p] EXCEPT !.pc = d]  BY DEF CtxInv
<1>2. command[p] \in Waiting \/ command[p] \in Locked
  BY DEF CtxInv, CommandOK
<1>3. command'[p].pc = d  BY <1>1, <1>2 DEF Waiting, Locked
<1>4. CommandOK(p)' /\ LockOK(p)' /\ FreshOK(p)' /\ TmpOK(p)' /\ SecureOK(p)'
  BY <1>3 DEF CommandOK, LockOK, FreshOK, TmpOK, SecureOK
<1>5. ctxFile' \in ContextFile /\ (ctxFile.current \in Known(ctxFile))' /\ promised' = ctxFile'
  BY DEF CtxInv, Known, ContextFile
<1>6. command' = [command EXCEPT ![p] = command'[p]]
  BY <1>1 DEF CtxInv
<1> QED BY <1>4, <1>5, <1>6, OneMoves

(* The invariant is kept by every step of every command. *)
LEMMA CtxInvNext == CtxInv /\ [CtxNext]_ctxVars => CtxInv'
<1> SUFFICES ASSUME CtxInv, [CtxNext]_ctxVars PROVE CtxInv'  OBVIOUS
<1>file. ctxFile \in ContextFile /\ ctxFile.current \in Known(ctxFile) /\ promised = ctxFile
  BY DEF CtxInv
<1>1. ASSUME NEW p \in Commands, NEW op \in Ops, NEW n \in Names, NEW h \in Hosts,
             CtxStart(p, op, n, h)
      PROVE  CtxInv'
  <2> DEFINE c ==
        [pc |-> IF Valid(op, n) THEN "lock" ELSE "failed", op |-> op, name |-> n, host |-> h]
  <2>1. command' = [command EXCEPT ![p] = c] /\ UNCHANGED <<ctxFile, ctxLock, ctxTmp, promised>>
    BY <1>1 DEF CtxStart
  <2>2. command'[p] = c  BY <2>1 DEF CtxInv
  <2>3. CommandOK(p)'
    <3>1. CASE Valid(op, n)
      <4>1. c \in Waiting /\ c.pc = "lock"  BY <3>1 DEF Waiting, Places
      <4>2. Valid(c.op, c.name)  BY <3>1
      <4> HIDE DEF c
      <4> QED BY <2>2, <4>1, <4>2 DEF CommandOK, Valid
    <3>2. CASE ~Valid(op, n)
      <4>1. command'[p].pc = "failed"  BY <2>2, <3>2
      <4> QED BY <4>1 DEF CommandOK
    <3> QED BY <3>1, <3>2
  <2>4. LockOK(p)' /\ FreshOK(p)' /\ TmpOK(p)' /\ SecureOK(p)'
    BY <2>2 DEF LockOK, FreshOK, TmpOK, SecureOK
  <2>5. ctxTmp' = [ctxTmp EXCEPT ![p] = ctxTmp'[p]]  BY <2>1 DEF CtxInv
  <2>6. (ctxFile.current \in Known(ctxFile))'  BY <2>1, <1>file DEF Known
  <2> QED BY <2>1, <2>2, <2>3, <2>4, <2>5, <2>6, <1>file, OneMoves
<1>2. ASSUME NEW p \in Commands, CtxRead(p)
      PROVE  CtxInv'
  <2> DEFINE c == [pc |-> "mutate", op |-> command[p].op, name |-> command[p].name,
                   host |-> command[p].host, file |-> ctxFile]
  <2>1. /\ command[p].pc = "lock" /\ ctxLock = NoProcess /\ ctxLock' = p
        /\ command' = [command EXCEPT ![p] = c] /\ UNCHANGED <<ctxFile, ctxTmp, promised>>
    BY <1>2 DEF CtxRead, Free
  <2>2. command'[p] = c  BY <2>1 DEF CtxInv
  <2>3. command[p] \in Waiting /\ Valid(command[p].op, command[p].name)
    BY <2>1 DEF CtxInv, CommandOK
  <2>4. CommandOK(p)'
    <3>1. c \in Locked /\ c.pc = "mutate"  BY <2>3, <1>file DEF Waiting, Locked, Places
    <3>2. Valid(c.op, c.name)  BY <2>3
    <3> HIDE DEF c
    <3> QED BY <2>2, <3>1, <3>2 DEF CommandOK, Valid
  <2>5. LockOK(p)' /\ FreshOK(p)' /\ TmpOK(p)' /\ SecureOK(p)'
    BY <2>1, <2>2 DEF LockOK, FreshOK, TmpOK, SecureOK
  <2>6. ctxTmp' = [ctxTmp EXCEPT ![p] = ctxTmp'[p]]  BY <2>1 DEF CtxInv
  <2>7. (ctxFile.current \in Known(ctxFile))'  BY <2>1, <1>file DEF Known
  <2> QED BY <2>1, <2>2, <2>4, <2>5, <2>6, <2>7, <1>file, OneMoves
<1>3. ASSUME NEW p \in Commands, CtxWrite(p)
      PROVE  CtxInv'
  <2> DEFINE d == command[p]
  <2>1. /\ d.pc = "mutate" /\ Allowed(d.op, d.name, d.file)
        /\ ctxTmp' = [ctxTmp EXCEPT ![p] = Mutated(d.op, d.name, d.host, d.file)]
        /\ command' = [command EXCEPT ![p].pc = "rename"]
        /\ UNCHANGED <<ctxFile, ctxLock, promised>>
    BY <1>3 DEF CtxWrite
  <2>2. d \in Locked /\ Valid(d.op, d.name) /\ ctxLock = p /\ d.file = ctxFile
    BY <2>1 DEF CtxInv, CommandOK, LockOK, FreshOK
  <2>3. command'[p] = [d EXCEPT !.pc = "rename"]  BY <2>1 DEF CtxInv
  <2>4. /\ command'[p] \in Locked /\ command'[p].pc = "rename"
        /\ command'[p].op = d.op /\ command'[p].name = d.name
        /\ command'[p].host = d.host /\ command'[p].file = d.file
    <3>1. d \in Locked  BY <2>2
    <3> HIDE DEF d
    <3> QED BY <2>3, <3>1, LockedMoves DEF Places
  <2>5. ctxTmp'[p] = Mutated(d.op, d.name, d.host, d.file)  BY <2>1 DEF CtxInv
  <2>6. CommandOK(p)'  BY <2>2, <2>4 DEF CommandOK, Valid
  <2>7. LockOK(p)' /\ FreshOK(p)' /\ SecureOK(p)'
    BY <2>1, <2>2, <2>4 DEF LockOK, FreshOK, SecureOK
  <2>8. TmpOK(p)'  BY <2>1, <2>4, <2>5 DEF TmpOK, Allowed, Mutated, Known
  <2>9. command' = [command EXCEPT ![p] = command'[p]]
        /\ ctxTmp' = [ctxTmp EXCEPT ![p] = ctxTmp'[p]]
    BY <2>1, <2>3, <2>5 DEF CtxInv
  <2>10. (ctxFile.current \in Known(ctxFile))'  BY <2>1, <1>file DEF Known
  <2> QED BY <2>1, <2>2, <2>6, <2>7, <2>8, <2>9, <2>10, <1>file, OneMoves
<1>4. ASSUME NEW p \in Commands, CtxRename(p)
      PROVE  CtxInv'
  <2> DEFINE d == command[p]
  <2>1. /\ d.pc = "rename" /\ ctxFile' = ctxTmp[p]
        /\ command' = [command EXCEPT ![p].pc = "report"]
        /\ promised' = Mutated(d.op, d.name, d.host, promised)
        /\ UNCHANGED <<ctxLock, ctxTmp>>
    BY <1>4 DEF CtxRename
  <2>2. /\ d \in Locked /\ Valid(d.op, d.name) /\ ctxLock = p /\ d.file = ctxFile
        /\ Allowed(d.op, d.name, d.file) /\ ctxTmp[p] = Mutated(d.op, d.name, d.host, d.file)
    BY <2>1 DEF CtxInv, CommandOK, LockOK, FreshOK, TmpOK
  <2>3. command'[p] = [d EXCEPT !.pc = "report"]  BY <2>1 DEF CtxInv
  <2>4. /\ command'[p] \in Locked /\ command'[p].pc = "report"
        /\ command'[p].op = d.op /\ command'[p].name = d.name
    <3>1. d \in Locked  BY <2>2
    <3> HIDE DEF d
    <3> QED BY <2>3, <3>1, LockedMoves DEF Places
  <2>5. CommandOK(p)'  BY <2>2, <2>4 DEF CommandOK, Valid
  <2>6. LockOK(p)' /\ FreshOK(p)' /\ TmpOK(p)' /\ SecureOK(p)'
    BY <2>1, <2>2, <2>4 DEF LockOK, FreshOK, TmpOK, SecureOK
  <2>7. ctxFile' = Mutated(d.op, d.name, d.host, ctxFile) /\ promised' = ctxFile'
    BY <2>1, <2>2, <1>file
  <2>8. d.op \in Ops /\ d.name \in Names /\ d.host \in Hosts  BY <2>2 DEF Locked
  <2>9. ctxFile' \in ContextFile /\ ctxFile'.current \in Known(ctxFile')
    BY <2>2, <2>7, <2>8, <1>file, MutatedOK
  <2>10. (ctxFile.current \in Known(ctxFile))'  BY <2>9 DEF Known
  <2>11. command' = [command EXCEPT ![p] = command'[p]]
        /\ ctxTmp' = [ctxTmp EXCEPT ![p] = ctxTmp'[p]]
    BY <2>1, <2>3 DEF CtxInv
  <2> QED BY <2>2, <2>5, <2>6, <2>7, <2>9, <2>10, <2>11, OneMoves
<1>5. ASSUME NEW p \in Commands, CtxRefuse(p) \/ CtxWriteFails(p) \/ CtxReport(p) \/ CtxKill(p)
      PROVE  CtxInv'
  <2>1. command[p].pc \in {"mutate", "rename", "report"} => ctxLock = p
    BY DEF CtxInv, LockOK
  <2>2. CASE CtxRefuse(p)
    <3>1. ctxTmp' = [ctxTmp EXCEPT ![p] = ctxTmp'[p]]  BY <2>2 DEF CtxRefuse, CtxInv
    <3> QED BY <2>1, <2>2, <3>1, Ends DEF CtxRefuse
  <2>3. CASE CtxWriteFails(p)
    <3>1. ctxTmp' = [ctxTmp EXCEPT ![p] = ctxTmp'[p]]  BY <2>3 DEF CtxWriteFails, CtxInv
    <3> QED BY <2>1, <2>3, <3>1, Ends DEF CtxWriteFails
  <2>4. CASE CtxReport(p)
    <3>1. ctxTmp' = [ctxTmp EXCEPT ![p] = ctxTmp'[p]]  BY <2>4 DEF CtxReport, CtxInv
    <3> QED BY <2>4, <3>1, Ends DEF CtxReport
  <2>5. CASE CtxKill(p)
    <3>1. ctxTmp' = [ctxTmp EXCEPT ![p] = ctxTmp'[p]]  BY <2>5 DEF CtxKill, CtxInv
    <3> QED BY <2>5, <3>1, Ends DEF CtxKill
  <2> QED BY <1>5, <2>2, <2>3, <2>4, <2>5
<1>6. ASSUME NEW p \in Commands,
             (\E env \in Settings : DetectStart(p, env)) \/ DetectActive(p) \/ DetectGet(p)
      PROVE  CtxInv'
  <2>1. PICK c : /\ command' = [command EXCEPT ![p] = c]
                 /\ c.pc \in {"active", "get", "detect"}
                 /\ UNCHANGED <<ctxFile, ctxLock, ctxTmp, promised>>
    <3>1. CASE \E env \in Settings : DetectStart(p, env)  BY <3>1 DEF DetectStart
    <3>2. CASE DetectActive(p)  BY <3>2 DEF DetectActive, DetectWith
    <3>3. CASE DetectGet(p)  BY <3>3 DEF DetectGet, DetectWith
    <3> QED BY <1>6, <3>1, <3>2, <3>3
  <2>2. command'[p] = c  BY <2>1 DEF CtxInv
  <2>3. SecureOK(p)'  BY <2>1, <2>2 DEF SecureOK
  <2> QED BY <2>1, <2>3, Harmless
<1>7. ASSUME NEW p \in Commands, DetectEnd(p)
      PROVE  CtxInv'
  <2> DEFINE env == command[p].env
             cfg == command[p].cfg
  <2>1. /\ command' = [command EXCEPT ![p] = Detected(env, cfg)]
        /\ UNCHANGED <<ctxFile, ctxLock, ctxTmp, promised>>
    BY <1>7 DEF DetectEnd
  <2>2. command'[p] = Detected(env, cfg)  BY <2>1 DEF CtxInv
  <2>3. Detected(env, cfg).pc \in {"failed", "detected"}  BY DEF Detected
  <2>4. Detected(env, cfg).pc = "detected" =>
          Detected(env, cfg).wanted = env /\ Detected(env, cfg).cfg = cfg
    BY DEF Detected
  <2>5. SecureOK(p)'  BY <2>2, <2>4, DetectedSecure DEF SecureOK
  <2> QED BY <2>1, <2>3, <2>5, Harmless
<1>8. CASE UNCHANGED ctxVars
  BY <1>8 DEF ctxVars, CtxInv, CommandOK, LockOK, FreshOK, TmpOK, SecureOK, Known,
             Allowed, Mutated, Valid
<1> QED BY <1>1, <1>2, <1>3, <1>4, <1>5, <1>6, <1>7, <1>8 DEF CtxNext, Ops, Names

(* The invariant gives the property. *)
LEMMA CtxInvKept == CtxInv => ContextsKept
  BY DEF CtxInv, SecureOK, ContextsKept, ActiveExists, NoLostUpdate, NeverPlaintext

(***************************************************************************)
(* Installers of the standalone runner.  Whoever leaves the container down *)
(* is not done itself, and whoever is done without removing it has seen it *)
(* up, so what is checked is inductive as it stands.                       *)
(***************************************************************************)
Installers == DOMAIN Operations
Stages ==
  {"list", "remove", "find", "pull", "create", "start", "sync", "restart", "wait", "done",
   "failed"}
Started(r) == r.pc \in Stages /\ {"pc", "op", "doomed", "own", "tries", "again"} = DOMAIN r

(* An installer has not begun or has all its fields. *)
InstallerOK(p) ==
  \/ installer[p].pc = "idle" /\ DOMAIN installer[p] = {"pc"}
  \/ Started(installer[p])

(* The shape of their records, and what is checked. *)
InstallersInv ==
  /\ DOMAIN installer = Installers
  /\ installer = [p \in Installers |-> [x \in DOMAIN installer[p] |-> installer[p][x]]]
  /\ \A p \in Installers : InstallerOK(p)
  /\ SA!WorkTogether

(* Nobody has begun at first. *)
LEMMA InstallersInit == SA!StandaloneAssumption /\ SA!SaInit => InstallersInv
<1> SUFFICES ASSUME SA!StandaloneAssumption, SA!SaInit PROVE InstallersInv
  OBVIOUS
<1>1. installer = [p \in Installers |-> [pc |-> "idle"]]
  BY DEF SA!SaInit, Installers
<1>2. PICK p \in Installers : TRUE
  BY DEF SA!StandaloneAssumption, Installers
<1>3. installer[p].pc = "idle"
  BY <1>1
<1>4. SA!WorkTogether
  BY <1>2, <1>3 DEF SA!WorkTogether, Installers
<1> HIDE DEF Installers
<1>5. \A q \in Installers : InstallerOK(q)
  BY <1>1 DEF InstallerOK
<1> QED BY <1>1, <1>4, <1>5 DEF InstallersInv

(* It is enough to look at the installer that moves: it is not done, or it is done and
   the container is up, or it removed it on purpose. *)
LEMMA OneInstaller ==
  ASSUME InstallersInv, NEW p \in Installers, NEW r,
         installer' = [installer EXCEPT ![p] = r],
         r = [x \in DOMAIN r |-> r[x]], Started(r),
         r.pc = "done" => r.op = "uninstall" \/ (SA!IsUp(controller))'
  PROVE  InstallersInv'
<1>1. /\ DOMAIN installer = Installers
      /\ installer = [q \in Installers |-> [x \in DOMAIN installer[q] |-> installer[q][x]]]
      /\ \A q \in Installers : InstallerOK(q)
  BY DEF InstallersInv
<1>2. installer'[p] = r /\ \A q \in Installers : q # p => installer'[q] = installer[q]
  BY <1>1
<1>3. DOMAIN installer' = Installers
  BY <1>1
<1>4. installer' = [q \in Installers |-> [x \in DOMAIN installer'[q] |-> installer'[q][x]]]
  <2>1. installer' = [q \in Installers |-> installer'[q]]
    BY <1>1
  <2>2. \A q \in Installers : installer[q] = [x \in DOMAIN installer[q] |-> installer[q][x]]
    BY <1>1
  <2>3. \A q \in Installers : installer'[q] = [x \in DOMAIN installer'[q] |-> installer'[q][x]]
    BY <1>2, <2>2
  <2> QED BY <2>1, <2>3
<1>5. \A q \in Installers : InstallerOK(q)'
  BY <1>1, <1>2 DEF InstallerOK, Started
<1>6. SA!WorkTogether'
  BY <1>2 DEF SA!WorkTogether, SA!IsUp, Installers
<1> QED BY <1>3, <1>4, <1>5, <1>6 DEF InstallersInv

(* What a step that is not its first keeps of an installer. *)
Goes(r, s, pc) ==
  /\ DOMAIN s = DOMAIN r /\ s = [x \in DOMAIN s |-> s[x]]
  /\ s.pc = pc /\ s.op = r.op

(* No step makes WorkTogether false. *)
LEMMA InstallersMove ==
  ASSUME InstallersInv, SA!SaNext \/ UNCHANGED SA!saVars PROVE InstallersInv'
<1>inv. /\ DOMAIN installer = Installers
        /\ \A q \in Installers : installer[q] = [x \in DOMAIN installer[q] |-> installer[q][x]]
        /\ \A q \in Installers : InstallerOK(q)
  BY DEF InstallersInv
<1>1. ASSUME NEW p \in Installers, NEW kind \in Operations[p], SA!Begin(p, kind)
      PROVE  InstallersInv'
  <2> DEFINE r == [pc |-> "list", op |-> kind, doomed |-> {}, own |-> 0, tries |-> MaxTries,
                   again |-> FALSE]
  <2>1. installer' = [installer EXCEPT ![p] = r]
    BY <1>1 DEF SA!Begin
  <2>2. r = [x \in DOMAIN r |-> r[x]] /\ Started(r) /\ r.pc # "done"
    BY DEF Started, Stages
  <2> HIDE DEF r
  <2> QED BY <2>1, <2>2, OneInstaller
<1>2. ASSUME NEW p \in Installers, NEW s, NEW pc \in Stages,
             installer[p].pc # "idle", installer' = [installer EXCEPT ![p] = s],
             Goes(installer[p], s, pc),
             pc = "done" => installer[p].op = "uninstall" \/ (SA!IsUp(controller))'
      PROVE  InstallersInv'
  <2>1. Started(installer[p])
    BY <1>inv, <1>2 DEF InstallerOK
  <2>2. s = [x \in DOMAIN s |-> s[x]] /\ Started(s) /\ s.pc = pc /\ s.op = installer[p].op
    BY <1>2, <2>1 DEF Goes, Started
  <2> QED BY <1>2, <2>2, OneInstaller
<1>has. \A p \in Installers : installer[p].pc # "idle" =>
          /\ DOMAIN installer[p] = {"pc", "op", "doomed", "own", "tries", "again"}
          /\ installer[p] =
               [x \in {"pc", "op", "doomed", "own", "tries", "again"} |-> installer[p][x]]
  BY <1>inv DEF InstallerOK, Started
<1>3. ASSUME NEW p \in Installers, NEW pc \in Stages, installer[p].pc # "idle", SA!SaGoto(p, pc),
             pc = "done" => installer[p].op = "uninstall" \/ (SA!IsUp(controller))'
      PROVE  InstallersInv'
  <2> DEFINE s == [installer[p] EXCEPT !.pc = pc]
  <2>1. installer' = [installer EXCEPT ![p] = s]
    BY <1>3 DEF SA!SaGoto
  <2>2. Goes(installer[p], s, pc)
    BY <1>3, <1>has DEF Goes
  <2> QED BY <1>2, <1>3, <2>1, <2>2
<1>4. ASSUME NEW p \in Installers, SA!PruneList(p) PROVE InstallersInv'
  <2>1. PICK doomed : installer' = [installer EXCEPT ![p] =
                                      [installer[p] EXCEPT !.pc = "remove", !.doomed = doomed]]
    BY <1>4 DEF SA!PruneList
  <2>2. installer[p].pc # "idle"
    BY <1>4 DEF SA!PruneList
  <2>3. Goes(installer[p], [installer[p] EXCEPT !.pc = "remove", !.doomed = doomed], "remove")
    BY <1>has, <2>2 DEF Goes
  <2> QED BY <1>2, <2>1, <2>2, <2>3 DEF Stages
<1>5. ASSUME NEW p \in Installers, SA!PruneRemove(p) PROVE InstallersInv'
  <2>1. PICK pc \in {"done", "pull", "find", "failed"} :
          SA!SaGoto(p, pc) /\ (pc = "done" => installer[p].op = "uninstall")
    BY <1>5 DEF SA!PruneRemove, SA!AfterPrune
  <2> QED BY <1>3, <1>5, <2>1 DEF SA!PruneRemove, Stages
<1>6. ASSUME NEW p \in Installers, SA!FindController(p) PROVE InstallersInv'
  <2>1. PICK pc \in {"done", "failed", "pull"} :
          SA!SaGoto(p, pc) /\ (pc = "done" => SA!IsUp(controller))
    BY <1>6 DEF SA!FindController
  <2> QED BY <1>3, <1>6, <2>1 DEF SA!FindController, Stages, SA!IsUp
<1>7. ASSUME NEW p \in Installers, SA!EnsureImage(p) PROVE InstallersInv'
  <2>1. PICK pc \in {"create", "failed"} : SA!SaGoto(p, pc)
    BY <1>7 DEF SA!EnsureImage
  <2> QED BY <1>3, <1>7, <2>1 DEF SA!EnsureImage, Stages
<1>8. ASSUME NEW p \in Installers, SA!CreateController(p) PROVE InstallersInv'
  <2>1. PICK own : installer' = [installer EXCEPT ![p] =
                                   [installer[p] EXCEPT !.pc = "start", !.own = own]]
    BY <1>8 DEF SA!CreateController
  <2>2. installer[p].pc # "idle"
    BY <1>8 DEF SA!CreateController
  <2>3. Goes(installer[p], [installer[p] EXCEPT !.pc = "start", !.own = own], "start")
    BY <1>has, <2>2 DEF Goes
  <2> QED BY <1>2, <2>1, <2>2, <2>3 DEF Stages
<1>9. ASSUME NEW p \in Installers, SA!StartController(p) PROVE InstallersInv'
  <2>1. PICK pc \in {"wait", "sync"} : SA!SaGoto(p, pc)
    BY <1>9 DEF SA!StartController
  <2> QED BY <1>3, <1>9, <2>1 DEF SA!StartController, Stages
<1>10. ASSUME NEW p \in Installers, SA!StartMisses(p) PROVE InstallersInv'
  <2>1. PICK pc \in {"failed", "start"} :
          installer' = [installer EXCEPT ![p] =
                          [installer[p] EXCEPT !.tries = installer[p].tries - 1, !.pc = pc]]
    BY <1>10 DEF SA!StartMisses
  <2>2. installer[p].pc # "idle"
    BY <1>10 DEF SA!StartMisses
  <2>3. Goes(installer[p], [installer[p] EXCEPT !.tries = installer[p].tries - 1, !.pc = pc], pc)
    BY <1>has, <2>2 DEF Goes
  <2> QED BY <1>2, <2>1, <2>2, <2>3 DEF Stages
<1>11. ASSUME NEW p \in Installers, SA!StartFails(p) PROVE InstallersInv'
  BY <1>3, <1>11 DEF SA!StartFails, Stages
<1>12. ASSUME NEW p \in Installers, SA!SyncConfig(p) PROVE InstallersInv'
  <2>1. PICK pc \in {"restart", "wait"} : SA!SaGoto(p, pc)
    BY <1>12 DEF SA!SyncConfig
  <2> QED BY <1>3, <1>12, <2>1 DEF SA!SyncConfig, Stages
<1>13. ASSUME NEW p \in Installers, SA!RestartController(p) PROVE InstallersInv'
  BY <1>3, <1>13 DEF SA!RestartController, Stages
<1>14. ASSUME NEW p \in Installers, SA!WaitForRunner(p) PROVE InstallersInv'
  <2>1. PICK pc \in {"failed", "list", "done"} :
          /\ installer' = [installer EXCEPT ![p] = [installer[p] EXCEPT !.again = TRUE, !.pc = pc]]
          /\ pc = "done" => (SA!IsUp(controller))'
    BY <1>14 DEF SA!WaitForRunner, SA!IsUp
  <2>2. installer[p].pc # "idle"
    BY <1>14 DEF SA!WaitForRunner
  <2>3. Goes(installer[p], [installer[p] EXCEPT !.again = TRUE, !.pc = pc], pc)
    BY <1>has, <2>2 DEF Goes
  <2> QED BY <1>2, <2>1, <2>2, <2>3 DEF Stages
<1>15. CASE UNCHANGED SA!saVars
  BY <1>15 DEF SA!saVars, InstallersInv, InstallerOK, SA!WorkTogether, SA!IsUp, Installers
<1>16. CASE SA!SaNext
  <2>1. PICK p \in Installers :
          \/ \E kind \in Operations[p] : SA!Begin(p, kind)
          \/ SA!PruneList(p) \/ SA!PruneRemove(p) \/ SA!FindController(p) \/ SA!EnsureImage(p)
          \/ SA!CreateController(p) \/ SA!StartController(p) \/ SA!StartMisses(p)
          \/ SA!StartFails(p) \/ SA!SyncConfig(p) \/ SA!RestartController(p) \/ SA!WaitForRunner(p)
    BY <1>16, Zenon DEF SA!SaNext, Installers
  <2> QED BY <2>1, <1>1, <1>4, <1>5, <1>6, <1>7, <1>8, <1>9, <1>10, <1>11, <1>12, <1>13, <1>14
<1> QED BY <1>15, <1>16

(***************************************************************************)
(* Packages and their archives.  An archive is under way only while the    *)
(* command waits for it; what the daemon lists it holds, and what was      *)
(* fetched with success is whole and stays so.  The store does not ask for *)
(* the configuration: it is there because the archive has it before the    *)
(* manifest, so as long as it is not, it is on its way ahead of that.      *)
(***************************************************************************)
IsStore(d) == d = [blobs |-> d.blobs, model |-> d.model, tagged |-> d.tagged]
IsWriter(w) ==
  /\ w = [next |-> w.next, header |-> w.header, ended |-> w.ended]
  /\ w.next \in Nat \ {0} /\ w.header \in BOOLEAN
IsReader(r) == r = [entry |-> r.entry, manifest |-> r.manifest]
EntryNames == AR!ToSet(Layers) \cup {"config", "manifest"}
Tokens == {"header", "data", "trailer", "text"} \X (EntryNames \cup {""})

(* The configuration is on the wire as the token j, after its header. *)
ConfigAt(j, w, r) ==
  /\ j \in 1 .. Len(w) /\ w[j] = <<"data", "config">>
  /\ IF j = 1 THEN r.entry = "config" ELSE w[j - 1] = <<"header", "config">>
(* Nothing of the manifest is ahead of it. *)
ConfigAhead(w, r, next, header, ended) ==
  /\ r.entry # "manifest" /\ ~r.manifest
  /\ \A i \in 1 .. Len(w) :
       w[i] = <<"header", "manifest">> => \E j \in 1 .. i - 1 : ConfigAt(j, w, r)
  /\ next >= Len(AR!Entries) => \E j \in 1 .. Len(w) : ConfigAt(j, w, r)
  /\ ended = "no" /\ header /\ next = Len(AR!Entries) - 1 =>
       IF w = <<>> THEN r.entry = "config" ELSE w[Len(w)] = <<"header", "config">>
ArchiveOrder ==
  /\ wire \in Seq(Tokens) /\ IsWriter(writer) /\ IsReader(unpacker)
  /\ archive # "none" /\ answer = "none" =>
       \/ "config" \in AR!Held.blobs
       \/ ConfigAhead(wire, unpacker, writer.next, writer.header, writer.ended)

ArchiveStores ==
  /\ package \in {"start", "fetch", "build", "load", "tag", "done"}
  /\ archive \in {"none", "export", "load"}
  /\ package = "fetch" <=> archive = "export"
  /\ package = "load" <=> archive = "load"
  /\ IsStore(fetched) /\ IsStore(daemonHas)
  /\ daemonHas.model => AR!Blobs \subseteq daemonHas.blobs
  /\ archive = "export" /\ answer = "ok" => AR!Whole(fetched)
  /\ package \in {"build", "load", "tag"} /\ order.from /\ ~inStore => AR!Whole(fetched)
  /\ said = "loaded" => package = "done" /\ daemonHas.model /\ daemonHas.tagged
ArchiveInv == ArchiveStores /\ ArchiveOrder

(* What is in an archive, and where. *)
LEMMA EntriesAre ==
  /\ AR!Entries \in Seq(EntryNames) /\ Len(AR!Entries) = Len(Layers) + 2 /\ Len(Layers) \in Nat
  /\ \A i \in 1 .. Len(AR!Entries) :
       /\ AR!Entries[i] = "manifest" => i = Len(AR!Entries)
       /\ AR!Entries[i] = "config" <=> i = Len(AR!Entries) - 1
  /\ "config" \in AR!Blobs
  /\ AR!Blobs \subseteq AR!ToSet(Layers) \cup {"config"}
<1> DEFINE n == Len(Layers)
<1>1. Layers \in Seq(AR!ToSet(Layers)) /\ n \in Nat
  BY MachinesAssumption DEF AR!ArchiveAssumption
<1>2. \A i \in 1 .. n : Layers[i] \in AR!ToSet(Layers)
  BY <1>1 DEF AR!ToSet
<1>3. \A i \in 1 .. n : Layers[i] \notin {"config", "manifest"}
  BY <1>2, MachinesAssumption DEF AR!ArchiveAssumption
<1>4. /\ AR!Entries \in Seq(EntryNames) /\ Len(AR!Entries) = n + 2
      /\ \A i \in 1 .. n + 2 :
           AR!Entries[i] = IF i <= n THEN Layers[i] ELSE <<"config", "manifest">>[i - n]
  <2> DEFINE last == <<"config", "manifest">>
  <2>1. last \in Seq(EntryNames) /\ Len(last) = 2
    BY DEF EntryNames
  <2>2. AR!Entries = Layers \o last
    BY DEF AR!Entries
  <2> HIDE DEF last
  <2>3. /\ Layers \o last \in Seq(EntryNames) /\ Len(Layers \o last) = n + Len(last)
        /\ \A i \in 1 .. n + Len(last) :
             (Layers \o last)[i] = IF i <= n THEN Layers[i] ELSE last[i - n]
    <3>1. Layers \in Seq(EntryNames)
      BY <1>1, SeqMonotonic DEF EntryNames
    <3> QED BY <2>1, <3>1, ConcatProperties
  <2> QED BY <2>1, <2>2, <2>3 DEF last
<1>5. AR!Entries[n + 1] = "config" /\ AR!Entries[n + 2] = "manifest"
  BY <1>1, <1>4
<1>6. \A i \in 1 .. n + 2 : i <= n \/ i = n + 1 \/ i = n + 2
  BY <1>1
<1>7. \A i \in 1 .. n : AR!Entries[i] = Layers[i]
  BY <1>1, <1>4
<1>8. "config" \in AR!Blobs
  BY <1>1, <1>4, <1>5 DEF AR!Blobs
<1>9. AR!Blobs \subseteq AR!ToSet(Layers) \cup {"config"}
  BY <1>1, <1>2, <1>4, <1>5, <1>7 DEF AR!Blobs
<1> HIDE DEF n
<1>10. \A i \in 1 .. n + 2 :
         /\ AR!Entries[i] = "manifest" => i = n + 2
         /\ AR!Entries[i] = "config" <=> i = n + 1
  BY <1>1, <1>3, <1>5, <1>6, <1>7 DEF n
<1> QED BY <1>1, <1>4, <1>8, <1>9, <1>10 DEF n

(* No archive is under way at first, and none of the next one is out when it begins. *)
LEMMA NothingAhead ==
  ConfigAhead(<<>>, AR!NewReader, 1, FALSE, "no")
BY EntriesAre DEF ConfigAhead, AR!NewReader
LEMMA ArchiveInit == AR!ArInit => ArchiveInv
<1> SUFFICES ASSUME AR!ArInit PROVE ArchiveInv
  OBVIOUS
<1>1. ArchiveStores
  BY DEF ArchiveStores, AR!ArInit, AR!NothingStored, IsStore
<1>2. wire \in Seq(Tokens)
  BY EmptySeq DEF AR!ArInit
<1>3. IsWriter(AR!NewWriter) /\ IsReader(AR!NewReader)
  BY DEF IsWriter, IsReader, AR!NewWriter, AR!NewReader
<1>4. archive = "none" /\ writer = AR!NewWriter /\ unpacker = AR!NewReader
  BY DEF AR!ArInit
<1>5. ArchiveOrder
  BY <1>2, <1>3, <1>4 DEF ArchiveOrder
<1> QED BY <1>1, <1>5 DEF ArchiveInv

(* What is added to the wire leaves the configuration where it is. *)
LEMMA StaysAhead ==
  ASSUME NEW w \in Seq(Tokens), NEW v \in Seq(Tokens), NEW r, NEW j, ConfigAt(j, w, r),
         Len(w) <= Len(v), \A k \in 1 .. Len(w) : v[k] = w[k]
  PROVE  ConfigAt(j, v, r)
<1>1. Len(w) \in Nat /\ Len(v) \in Nat /\ j \in 1 .. Len(w)
  BY LenProperties DEF ConfigAt
<1>2. j # 1 => j - 1 \in 1 .. Len(w)
  BY <1>1
<1> QED BY <1>1, <1>2 DEF ConfigAt

(* The header of the next entry, and its bytes: the manifest comes after the
   configuration. *)
LEMMA HeaderOut ==
  ASSUME NEW w \in Seq(Tokens), NEW r, NEW next \in 1 .. Len(AR!Entries),
         ConfigAhead(w, r, next, FALSE, "no")
  PROVE  /\ Append(w, <<"header", AR!Entries[next]>>) \in Seq(Tokens)
         /\ ConfigAhead(Append(w, <<"header", AR!Entries[next]>>), r, next, TRUE, "no")
<1> DEFINE t == <<"header", AR!Entries[next]>>
           v == Append(w, t)
<1>1. AR!Entries[next] \in EntryNames /\ Len(w) \in Nat /\ Len(AR!Entries) \in Nat
  BY EntriesAre, ElementOfSeq, LenProperties
<1>2. t \in Tokens
  BY <1>1 DEF Tokens
<1> HIDE DEF t
<1>3. /\ v \in Seq(Tokens) /\ Len(v) = Len(w) + 1 /\ v[Len(w) + 1] = t
      /\ \A k \in 1 .. Len(w) : v[k] = w[k]
  BY <1>2, AppendProperties
<1> HIDE DEF v
<1>4. \A j : ConfigAt(j, w, r) => ConfigAt(j, v, r)
  <2>1. Len(w) <= Len(v)
    BY <1>1, <1>3
  <2> QED BY <1>3, <2>1, StaysAhead
<1>5. next >= Len(AR!Entries) => \E j \in 1 .. Len(w) : ConfigAt(j, v, r)
  BY <1>4 DEF ConfigAhead
<1>6. ASSUME NEW i \in 1 .. Len(v), v[i] = <<"header", "manifest">>
      PROVE  \E j \in 1 .. i - 1 : ConfigAt(j, v, r)
  <2>1. CASE i \in 1 .. Len(w)
    BY <1>3, <1>4, <1>6, <2>1 DEF ConfigAhead
  <2>2. CASE i = Len(w) + 1
    <3>1. AR!Entries[next] = "manifest"
      BY <1>3, <1>6, <2>2 DEF t
    <3>2. next = Len(AR!Entries)
      BY <3>1, EntriesAre
    <3>3. \E j \in 1 .. Len(w) : ConfigAt(j, v, r)
      BY <1>1, <1>5, <3>2
    <3> QED BY <1>1, <2>2, <3>3
  <2> QED BY <1>1, <1>3, <2>1, <2>2
<1>7. next = Len(AR!Entries) - 1 => v # <<>> /\ v[Len(v)] = <<"header", "config">>
  BY <1>1, <1>3, EntriesAre DEF t
<1>8. next >= Len(AR!Entries) => \E j \in 1 .. Len(v) : ConfigAt(j, v, r)
  BY <1>1, <1>3, <1>5
<1> QED BY <1>3, <1>6, <1>7, <1>8 DEF ConfigAhead, v, t

LEMMA DataOut ==
  ASSUME NEW w \in Seq(Tokens), NEW r, NEW next \in 1 .. Len(AR!Entries),
         ConfigAhead(w, r, next, TRUE, "no")
  PROVE  /\ Append(w, <<"data", AR!Entries[next]>>) \in Seq(Tokens)
         /\ ConfigAhead(Append(w, <<"data", AR!Entries[next]>>), r, next + 1, FALSE, "no")
<1> DEFINE t == <<"data", AR!Entries[next]>>
           v == Append(w, t)
<1>1. AR!Entries[next] \in EntryNames /\ Len(w) \in Nat /\ Len(AR!Entries) \in Nat
  BY EntriesAre, ElementOfSeq, LenProperties
<1>2. t \in Tokens
  BY <1>1 DEF Tokens
<1> HIDE DEF t
<1>3. /\ v \in Seq(Tokens) /\ Len(v) = Len(w) + 1 /\ v[Len(w) + 1] = t
      /\ \A k \in 1 .. Len(w) : v[k] = w[k]
  BY <1>2, AppendProperties
<1> HIDE DEF v
<1>4. \A j : ConfigAt(j, w, r) => ConfigAt(j, v, r)
  <2>1. Len(w) <= Len(v)
    BY <1>1, <1>3
  <2> QED BY <1>3, <2>1, StaysAhead
<1>5. ASSUME NEW i \in 1 .. Len(v), v[i] = <<"header", "manifest">>
      PROVE  \E j \in 1 .. i - 1 : ConfigAt(j, v, r)
  <2>1. i \in 1 .. Len(w)
    BY <1>1, <1>3, <1>5 DEF t
  <2> QED BY <1>3, <1>4, <1>5, <2>1 DEF ConfigAhead
<1>6. ASSUME next + 1 >= Len(AR!Entries)
      PROVE  \E j \in 1 .. Len(v) : ConfigAt(j, v, r)
  <2>1. CASE next = Len(AR!Entries)
    BY <1>1, <1>3, <1>4, <2>1 DEF ConfigAhead
  <2>2. CASE next = Len(AR!Entries) - 1
    <3>1. v[Len(w) + 1] = <<"data", "config">>
      BY <1>3, <2>2, EntriesAre DEF t
    <3>2. IF w = <<>> THEN r.entry = "config" ELSE w[Len(w)] = <<"header", "config">>
      BY <2>2 DEF ConfigAhead
    <3>3. w = <<>> <=> Len(w) = 0
      BY EmptySeq
    <3>4. ConfigAt(Len(w) + 1, v, r)
      BY <1>1, <1>3, <3>1, <3>2, <3>3 DEF ConfigAt
    <3> QED BY <1>1, <1>3, <3>4
  <2> QED BY <1>1, <1>6, <2>1, <2>2
<1> QED BY <1>3, <1>5, <1>6 DEF ConfigAhead, v, t

(* What ends an archive is no entry of it. *)
LEMMA EndOut ==
  ASSUME NEW w \in Seq(Tokens), NEW r, NEW next \in Nat \ {0}, NEW header,
         NEW before, ConfigAhead(w, r, next, header, before), NEW ended, ended # "no",
         NEW last \in Seq(Tokens),
         \A k \in 1 .. Len(last) : last[k] # <<"header", "manifest">>
  PROVE  /\ w \o last \in Seq(Tokens)
         /\ ConfigAhead(w \o last, r, next, header, ended)
<1> DEFINE v == w \o last
<1>1. Len(w) \in Nat /\ Len(last) \in Nat /\ Len(AR!Entries) \in Nat
  BY EntriesAre, LenProperties
<1>2. /\ v \in Seq(Tokens) /\ Len(v) = Len(w) + Len(last)
      /\ \A k \in 1 .. Len(w) + Len(last) :
           v[k] = IF k <= Len(w) THEN w[k] ELSE last[k - Len(w)]
  BY ConcatProperties
<1> HIDE DEF v
<1>3. Len(w) <= Len(v) /\ \A k \in 1 .. Len(w) : v[k] = w[k]
  BY <1>1, <1>2
<1>4. \A j : ConfigAt(j, w, r) => ConfigAt(j, v, r)
  BY <1>2, <1>3, StaysAhead
<1>5. ASSUME NEW i \in 1 .. Len(v), v[i] = <<"header", "manifest">>
      PROVE  \E j \in 1 .. i - 1 : ConfigAt(j, v, r)
  <2>1. CASE i <= Len(w)
    <3>1. i \in 1 .. Len(w)
      BY <1>1, <2>1
    <3> QED BY <1>3, <1>4, <1>5, <3>1 DEF ConfigAhead
  <2>2. CASE ~(i <= Len(w))
    <3>1. i - Len(w) \in 1 .. Len(last) /\ i \in 1 .. Len(w) + Len(last)
      BY <1>1, <1>2, <2>2
    <3>2. v[i] = last[i - Len(w)]
      BY <1>2, <2>2, <3>1
    <3> QED BY <1>5, <3>1, <3>2
  <2> QED BY <2>1, <2>2
<1>6. ASSUME next >= Len(AR!Entries) PROVE \E j \in 1 .. Len(v) : ConfigAt(j, v, r)
  <2>1. PICK j \in 1 .. Len(w) : ConfigAt(j, w, r)
    BY <1>6 DEF ConfigAhead
  <2>2. j \in 1 .. Len(v)
    BY <1>1, <1>2
  <2> QED BY <1>4, <2>1, <2>2
<1> QED BY <1>2, <1>5, <1>6 DEF ConfigAhead, v

(* The reader takes what is next: once it has the bytes of the configuration the
   store has it. *)
LEMMA HeaderIn ==
  ASSUME NEW w \in Seq(Tokens), w # <<>>, NEW name, Head(w) = <<"header", name>>,
         NEW r, NEW next, NEW header, NEW ended, ConfigAhead(w, r, next, header, ended)
  PROVE  ConfigAhead(Tail(w), [entry |-> name, manifest |-> r.manifest], next, header, ended)
<1> DEFINE v == Tail(w)
           q == [entry |-> name, manifest |-> r.manifest]
<1>1. Len(w) \in Nat \ {0} /\ w[1] = <<"header", name>>
  BY EmptySeq, HeadTailProperties
<1>2. v \in Seq(Tokens) /\ Len(v) = Len(w) - 1 /\ \A k \in 1 .. Len(v) : v[k] = w[k + 1]
  BY <1>1, HeadTailProperties
<1>3. q.entry = name /\ q.manifest = r.manifest
  OBVIOUS
<1> HIDE DEF v, q
<1>4. ASSUME NEW j, ConfigAt(j, w, r) PROVE ConfigAt(j - 1, v, q)
  <2>1. j \in 1 .. Len(w) /\ w[j] = <<"data", "config">>
    BY <1>4 DEF ConfigAt
  <2>2. j # 1
    BY <1>1, <2>1
  <2>3. w[j - 1] = <<"header", "config">>
    BY <1>4, <2>2 DEF ConfigAt
  <2> DEFINE n == Len(w)
  <2>a. n \in Nat /\ j \in 1 .. n /\ j # 1 /\ Len(v) = n - 1
    BY <1>1, <1>2, <2>1, <2>2
  <2>b. j - 1 \in 1 .. n - 1 /\ (j - 1) + 1 = j
    <3> HIDE DEF n
    <3> QED BY <2>a
  <2>c. v[j - 1] = w[(j - 1) + 1]
    BY <1>2, <2>a, <2>b
  <2>4. j - 1 \in 1 .. Len(v) /\ v[j - 1] = w[j]
    BY <2>a, <2>b, <2>c
  <2> HIDE DEF n
  <2>5. CASE j = 2
    BY <1>1, <1>3, <2>1, <2>3, <2>4, <2>5 DEF ConfigAt
  <2>6. CASE j # 2
    <3>1. j - 2 \in 1 .. Len(v) /\ (j - 1) - 1 = j - 2 /\ (j - 2) + 1 = j - 1
      BY <1>1, <1>2, <2>1, <2>2, <2>6
    <3>2. v[(j - 1) - 1] = w[j - 1]
      BY <1>2, <3>1
    <3> QED BY <2>1, <2>2, <2>3, <2>4, <2>6, <3>2 DEF ConfigAt
  <2> QED BY <2>5, <2>6
<1>5. name # "manifest"
  <2> SUFFICES ASSUME name = "manifest" PROVE FALSE
    OBVIOUS
  <2>1. 1 \in 1 .. Len(w) /\ w[1] = <<"header", "manifest">>
    BY <1>1
  <2>2. \E j \in 1 .. 1 - 1 : ConfigAt(j, w, r)
    BY <2>1 DEF ConfigAhead
  <2> QED BY <2>2
<1>6. ASSUME NEW i \in 1 .. Len(v), v[i] = <<"header", "manifest">>
      PROVE  \E j \in 1 .. i - 1 : ConfigAt(j, v, q)
  <2>1. i + 1 \in 1 .. Len(w) /\ w[i + 1] = <<"header", "manifest">>
    BY <1>1, <1>2, <1>6
  <2>2. PICK j \in 1 .. (i + 1) - 1 : ConfigAt(j, w, r)
    BY <2>1 DEF ConfigAhead
  <2>3. ConfigAt(j - 1, v, q)
    BY <1>4, <2>2
  <2>4. j - 1 \in 1 .. i - 1
    BY <2>2, <2>3 DEF ConfigAt
  <2> QED BY <2>3, <2>4
<1>7. ASSUME next >= Len(AR!Entries) PROVE \E j \in 1 .. Len(v) : ConfigAt(j, v, q)
  <2>1. PICK j \in 1 .. Len(w) : ConfigAt(j, w, r)
    BY <1>7 DEF ConfigAhead
  <2>2. ConfigAt(j - 1, v, q)
    BY <1>4, <2>1
  <2> QED BY <2>2 DEF ConfigAt
<1>8. ASSUME ended = "no", header, next = Len(AR!Entries) - 1
      PROVE  IF v = <<>> THEN q.entry = "config" ELSE v[Len(v)] = <<"header", "config">>
  <2>1. w[Len(w)] = <<"header", "config">>
    BY <1>8 DEF ConfigAhead
  <2>2. CASE Len(v) = 0
    <3>1. v = <<>>
      BY <1>2, <2>2, EmptySeq
    <3>2. w[1] = <<"header", "config">>
      BY <1>1, <1>2, <2>1, <2>2
    <3> QED BY <1>1, <1>3, <3>1, <3>2
  <2>3. CASE Len(v) # 0
    <3>1. v # <<>> /\ v[Len(v)] = w[Len(v) + 1] /\ Len(v) + 1 = Len(w)
      BY <1>1, <1>2, <2>3, EmptySeq
    <3> QED BY <2>1, <3>1
  <2> QED BY <2>2, <2>3
<1>9. q.entry # "manifest" /\ ~q.manifest
  BY <1>3, <1>5 DEF ConfigAhead
<1> QED BY <1>6, <1>7, <1>8, <1>9 DEF ConfigAhead, v, q

LEMMA DataIn ==
  ASSUME NEW w \in Seq(Tokens), w # <<>>, NEW name, Head(w) = <<"data", name>>,
         NEW r, r.entry # "config",
         NEW next, NEW header, NEW ended, ConfigAhead(w, r, next, header, ended)
  PROVE  ConfigAhead(Tail(w), [entry |-> "none", manifest |-> FALSE], next, header, ended)
<1> DEFINE v == Tail(w)
           q == [entry |-> "none", manifest |-> FALSE]
<1>1. Len(w) \in Nat \ {0} /\ w[1] = <<"data", name>>
  BY EmptySeq, HeadTailProperties
<1>2. v \in Seq(Tokens) /\ Len(v) = Len(w) - 1 /\ \A k \in 1 .. Len(v) : v[k] = w[k + 1]
  BY <1>1, HeadTailProperties
<1>3. q.entry = "none" /\ q.manifest = FALSE
  OBVIOUS
<1> HIDE DEF v, q
<1>4. ASSUME NEW j, ConfigAt(j, w, r) PROVE ConfigAt(j - 1, v, q)
  <2>1. j \in 1 .. Len(w) /\ w[j] = <<"data", "config">> /\ j # 1
    BY <1>4 DEF ConfigAt
  <2>2. w[j - 1] = <<"header", "config">>
    BY <1>4, <2>1 DEF ConfigAt
  <2>3. j # 2
    BY <1>1, <2>2
  <2> DEFINE n == Len(w)
  <2>a. n \in Nat /\ j \in 1 .. n /\ j # 1 /\ j # 2 /\ Len(v) = n - 1
    BY <1>1, <1>2, <2>1, <2>3
  <2>b. /\ j - 1 \in 1 .. n - 1 /\ (j - 1) + 1 = j /\ j - 1 # 1
        /\ j - 2 \in 1 .. n - 1 /\ (j - 1) - 1 = j - 2 /\ (j - 2) + 1 = j - 1
    <3> HIDE DEF n
    <3> QED BY <2>a
  <2>c. v[j - 1] = w[(j - 1) + 1]
    BY <1>2, <2>a, <2>b
  <2>4. j - 1 \in 1 .. Len(v) /\ v[j - 1] = w[j] /\ j - 1 # 1
    BY <2>a, <2>b, <2>c
  <2>5. j - 2 \in 1 .. Len(v) /\ (j - 1) - 1 = j - 2 /\ (j - 2) + 1 = j - 1
    BY <2>a, <2>b
  <2> HIDE DEF n
  <2>6. v[(j - 1) - 1] = w[j - 1]
    BY <1>2, <2>5
  <2> QED BY <2>1, <2>2, <2>4, <2>6 DEF ConfigAt
<1>5. ASSUME NEW i \in 1 .. Len(v), v[i] = <<"header", "manifest">>
      PROVE  \E j \in 1 .. i - 1 : ConfigAt(j, v, q)
  <2>1. i + 1 \in 1 .. Len(w) /\ w[i + 1] = <<"header", "manifest">>
    BY <1>1, <1>2, <1>5
  <2>2. PICK j \in 1 .. (i + 1) - 1 : ConfigAt(j, w, r)
    BY <2>1 DEF ConfigAhead
  <2>3. ConfigAt(j - 1, v, q)
    BY <1>4, <2>2
  <2>4. j - 1 \in 1 .. i - 1
    BY <2>2, <2>3 DEF ConfigAt
  <2> QED BY <2>3, <2>4
<1>6. ASSUME next >= Len(AR!Entries) PROVE \E j \in 1 .. Len(v) : ConfigAt(j, v, q)
  <2>1. PICK j \in 1 .. Len(w) : ConfigAt(j, w, r)
    BY <1>6 DEF ConfigAhead
  <2>2. ConfigAt(j - 1, v, q)
    BY <1>4, <2>1
  <2> QED BY <2>2 DEF ConfigAt
<1>7. ASSUME ended = "no", header, next = Len(AR!Entries) - 1
      PROVE  v # <<>> /\ v[Len(v)] = <<"header", "config">>
  <2>1. w[Len(w)] = <<"header", "config">>
    BY <1>7 DEF ConfigAhead
  <2>2. Len(w) # 1
    BY <1>1, <2>1
  <2>3. Len(v) \in Nat \ {0} /\ v[Len(v)] = w[Len(v) + 1] /\ Len(v) + 1 = Len(w)
    BY <1>1, <1>2, <2>2
  <2> QED BY <2>1, <2>3, EmptySeq
<1> QED BY <1>3, <1>5, <1>6, <1>7 DEF ConfigAhead, v, q

(* Steps of the command and of the writer: the stores stay, or the daemon's gets a
   model that is whole, or a tag. *)
LEMMA CommandMoves ==
  ASSUME ArchiveStores,
         AR!Repackage \/ AR!InitializeBuilder \/ AR!Fetched \/ AR!WriteVariant \/ AR!Push
         \/ AR!Load \/ AR!Await \/ AR!Tag
  PROVE  ArchiveStores'
<1> USE DEF ArchiveStores, IsStore, AR!Says, AR!Command, AR!Begin, AR!TransferUnchanged
<1>1. CASE AR!Repackage
  BY <1>1 DEF AR!Repackage
<1>2. CASE AR!InitializeBuilder
  BY <1>2 DEF AR!InitializeBuilder
<1>3. CASE AR!Fetched
  BY <1>3 DEF AR!Fetched, AR!Whole
<1>4. CASE AR!WriteVariant
  BY <1>4 DEF AR!WriteVariant
<1>5. CASE AR!Push
  BY <1>5 DEF AR!Push
<1>6. CASE AR!Load
  BY <1>6 DEF AR!Load, AR!Whole
<1>7. CASE AR!Await
  BY <1>7 DEF AR!Await, AR!Whole
<1>8. CASE AR!Tag
  BY <1>8 DEF AR!Tag, AR!Whole
<1> QED BY <1>1, <1>2, <1>3, <1>4, <1>5, <1>6, <1>7, <1>8

(* The writer and the network touch neither store. *)
LEMMA WriterMoves ==
  ASSUME ArchiveStores,
         AR!WriteEntry \/ AR!WriteEnds \/ AR!WriteRefused \/ AR!SourceFails \/ AR!Cut
         \/ UNCHANGED AR!arVars
  PROVE  ArchiveStores'
<1>1. AR!WriterOnly \/ UNCHANGED AR!arVars
  BY DEF AR!WriteEntry, AR!WriteEnds, AR!WriteRefused, AR!SourceFails, AR!Cut
<1> QED BY <1>1 DEF AR!WriterOnly, AR!arVars, ArchiveStores, IsStore, AR!Whole

(* The reader adds to the store that it reads for, and lists a model there only when
   all of its blobs are there. *)
LEMMA ReaderMoves ==
  ASSUME ArchiveInv,
         AR!LosesConnection \/ AR!NextHeader \/ AR!ReadData \/ AR!ReadManifest
         \/ AR!UnexpectedEOF \/ AR!WriteBlobFails
  PROVE  ArchiveStores'
<1> USE DEF ArchiveInv
<1>1. AR!Reading /\ AR!ReaderOnly
  BY DEF AR!LosesConnection, AR!NextHeader, AR!ReadData, AR!ReadManifest, AR!UnexpectedEOF,
         AR!WriteBlobFails
<1>2. CASE answer' # "ok" /\ UNCHANGED <<fetched, daemonHas>>
  BY <1>1, <1>2 DEF ArchiveStores, IsStore, AR!Whole, AR!ReaderOnly
<1>3. CASE AR!ReadData
  <2>1. UNCHANGED answer
    BY <1>3 DEF AR!ReadData
  <2>2. PICK v : AR!Store(v) /\ IsStore(v) /\ v.model = AR!Held.model /\ v.tagged = AR!Held.tagged
                 /\ AR!Held.blobs \subseteq v.blobs
    <3>1. IsStore(AR!Held)
      BY DEF ArchiveStores, AR!Held
    <3>2. IsStore([AR!Held EXCEPT !.blobs = @ \cup {unpacker.entry}])
      BY <3>1 DEF IsStore
    <3>3. /\ [AR!Held EXCEPT !.blobs = @ \cup {unpacker.entry}].model = AR!Held.model
          /\ [AR!Held EXCEPT !.blobs = @ \cup {unpacker.entry}].tagged = AR!Held.tagged
          /\ AR!Held.blobs \subseteq [AR!Held EXCEPT !.blobs = @ \cup {unpacker.entry}].blobs
      BY <3>1 DEF IsStore
    <3> QED BY <1>3, <3>1, <3>2, <3>3 DEF AR!ReadData
  <2> QED BY <1>1, <2>1, <2>2 DEF ArchiveStores, IsStore, AR!Whole, AR!ReaderOnly,
                                     AR!Reading, AR!Store, AR!Held
<1>4. CASE AR!Complete /\ AR!Store([AR!Held EXCEPT !.model = TRUE])
  <2>1. IsStore(AR!Held) /\ AR!Blobs \subseteq AR!Held.blobs
    <3>1. IsStore(AR!Held) /\ AR!ToSet(Layers) \subseteq AR!Held.blobs
      BY <1>4 DEF ArchiveStores, AR!Held, AR!Complete
    <3>2. "config" \in AR!Held.blobs
      BY <1>1, <1>4 DEF ArchiveOrder, ConfigAhead, AR!Complete, AR!Reading
    <3> QED BY <3>1, <3>2, EntriesAre
  <2>2. PICK v : AR!Store(v) /\ IsStore(v) /\ v.model = TRUE /\ v.tagged = AR!Held.tagged
                 /\ v.blobs = AR!Held.blobs
    BY <1>4, <2>1 DEF IsStore
  <2> QED BY <1>1, <2>1, <2>2 DEF ArchiveStores, IsStore, AR!Whole, AR!ReaderOnly,
                                     AR!Reading, AR!Store, AR!Held
<1>5. AR!ReadManifest =>
        \/ answer' # "ok" /\ UNCHANGED <<fetched, daemonHas>>
        \/ AR!Complete /\ AR!Store([AR!Held EXCEPT !.model = TRUE])
  BY DEF AR!ReadManifest, AR!Returns
<1>6. AR!LosesConnection \/ AR!NextHeader \/ AR!UnexpectedEOF \/ AR!WriteBlobFails =>
        answer' # "ok" /\ UNCHANGED <<fetched, daemonHas>>
  BY <1>1 DEF AR!LosesConnection, AR!NextHeader, AR!UnexpectedEOF, AR!WriteBlobFails,
              AR!Returns, AR!Reading
<1> QED BY <1>2, <1>3, <1>4, <1>5, <1>6

(* The order of the archive is kept: by a command, which begins an archive or lets
   the one under way be, *)
LEMMA CommandOrder ==
  ASSUME ArchiveInv,
         AR!Repackage \/ AR!InitializeBuilder \/ AR!Fetched \/ AR!WriteVariant \/ AR!Push
         \/ AR!Load \/ AR!Await \/ AR!Tag
  PROVE  ArchiveOrder'
<1> USE DEF ArchiveInv
<1>1. CASE AR!Begin("export") \/ AR!Begin("load")
  <2>1. /\ wire' = <<>> /\ writer' = AR!NewWriter /\ unpacker' = AR!NewReader
        /\ answer' = "none" /\ <<>> \in Seq(Tokens)
    BY <1>1, EmptySeq DEF AR!Begin
  <2>2. /\ IsWriter(AR!NewWriter) /\ IsReader(AR!NewReader) /\ AR!NewWriter.next = 1
        /\ AR!NewWriter.header = FALSE /\ AR!NewWriter.ended = "no"
    BY DEF IsWriter, IsReader, AR!NewWriter, AR!NewReader
  <2>3. wire' \in Seq(Tokens) /\ IsWriter(writer') /\ IsReader(unpacker')
    BY <2>1, <2>2
  <2>4. ConfigAhead(wire', unpacker', writer'.next, writer'.header, writer'.ended)
    BY <2>1, <2>2, NothingAhead
  <2> QED BY <2>3, <2>4 DEF ArchiveOrder
<1>2. CASE archive' = "none" /\ UNCHANGED <<writer, wire, unpacker>>
  BY <1>2 DEF ArchiveOrder
<1>3. CASE /\ AR!TransferUnchanged /\ UNCHANGED fetched
           /\ "config" \in daemonHas.blobs => "config" \in daemonHas'.blobs
  <2>1. UNCHANGED <<archive, writer, wire, unpacker, answer>>
    BY <1>3 DEF AR!TransferUnchanged
  <2>2. "config" \in AR!Held.blobs => "config" \in AR!Held'.blobs
    BY <1>3, <2>1 DEF AR!Held
  <2> QED BY <2>1, <2>2 DEF ArchiveOrder
<1>4. AR!Repackage => "config" \in daemonHas'.blobs \/ UNCHANGED daemonHas
  BY EntriesAre DEF AR!Repackage, ArchiveStores, IsStore
<1>5. AR!Tag => daemonHas'.blobs = daemonHas.blobs
  BY DEF AR!Tag, ArchiveStores, IsStore
<1>6. AR!Repackage \/ AR!Tag => AR!TransferUnchanged /\ UNCHANGED fetched
  BY DEF AR!Repackage, AR!Tag
<1>7. AR!InitializeBuilder \/ AR!WriteVariant \/ AR!Push \/ AR!Load =>
        \/ AR!TransferUnchanged /\ UNCHANGED <<fetched, daemonHas>>
        \/ AR!Begin("export") \/ AR!Begin("load")
  BY DEF AR!InitializeBuilder, AR!WriteVariant, AR!Push, AR!Load
<1>8. AR!Fetched \/ AR!Await => archive' = "none" /\ UNCHANGED <<writer, wire, unpacker>>
  BY DEF AR!Fetched, AR!Await
<1> QED BY <1>1, <1>2, <1>3, <1>4, <1>5, <1>6, <1>7, <1>8

(* by the writer, whose entries follow the order, *)
LEMMA TokenOut ==
  ASSUME NEW w \in Seq(Tokens), NEW next \in 1 .. Len(AR!Entries), NEW kind \in {"header", "data"}
  PROVE  Append(w, <<kind, AR!Entries[next]>>) \in Seq(Tokens)
<1>1. AR!Entries[next] \in EntryNames
  BY EntriesAre, ElementOfSeq
<1>2. <<kind, AR!Entries[next]>> \in Tokens
  BY <1>1 DEF Tokens
<1> QED BY <1>2, AppendProperties

LEMMA WriterOrder ==
  ASSUME ArchiveInv,
         AR!WriteEntry \/ AR!WriteEnds \/ AR!WriteRefused \/ AR!SourceFails \/ AR!Cut
         \/ UNCHANGED AR!arVars
  PROVE  ArchiveOrder'
<1> DEFINE Ahead == ConfigAhead(wire, unpacker, writer.next, writer.header, writer.ended)
<1>1. UNCHANGED <<archive, unpacker, answer, fetched, daemonHas>>
  BY DEF AR!WriteEntry, AR!WriteEnds, AR!WriteRefused, AR!SourceFails, AR!Cut, AR!WriterOnly,
         AR!arVars
<1>2. wire \in Seq(Tokens) /\ IsWriter(writer) /\ IsReader(unpacker)
  BY DEF ArchiveInv, ArchiveOrder
<1>3. /\ wire' \in Seq(Tokens) /\ IsWriter(writer')
      /\ Ahead => Ahead'
  <2>1. CASE AR!WriteEntry
    <3>1. writer.ended = "no" /\ writer.next \in 1 .. Len(AR!Entries)
      BY <1>2, <2>1, EntriesAre DEF AR!WriteEntry, AR!Writing, IsWriter
    <3>2. CASE writer.header = TRUE
      <4>1. /\ wire' = Append(wire, <<"data", AR!Entries[writer.next]>>)
            /\ writer' = [writer EXCEPT !.header = FALSE, !.next = @ + 1]
        BY <2>1, <3>2 DEF AR!WriteEntry
      <4>2. /\ IsWriter(writer') /\ writer'.next = writer.next + 1
            /\ writer'.header = FALSE /\ writer'.ended = "no"
        <5>1. writer' = [next |-> writer.next + 1, header |-> FALSE, ended |-> "no"]
          BY <1>2, <3>1, <4>1 DEF IsWriter
        <5>2. writer.next + 1 \in Nat \ {0}
          BY <1>2 DEF IsWriter
        <5> QED BY <5>1, <5>2 DEF IsWriter
      <4> QED BY <1>1, <1>2, <3>1, <3>2, <4>1, <4>2, TokenOut, DataOut
    <3>3. CASE writer.header = FALSE
      <4>1. /\ wire' = Append(wire, <<"header", AR!Entries[writer.next]>>)
            /\ writer' = [writer EXCEPT !.header = TRUE]
        BY <2>1, <3>3 DEF AR!WriteEntry
      <4>2. /\ IsWriter(writer') /\ writer'.next = writer.next
            /\ writer'.header = TRUE /\ writer'.ended = "no"
        BY <1>2, <3>1, <4>1 DEF IsWriter
      <4> QED BY <1>1, <1>2, <3>1, <3>3, <4>1, <4>2, TokenOut, HeaderOut
    <3> QED BY <1>2, <3>2, <3>3 DEF IsWriter
  <2>2. CASE AR!WriteEnds \/ AR!SourceFails
    <3> DEFINE text == IF archive = "export" THEN <<<<"text", "">>>> ELSE <<>>
    <3>1. /\ writer.ended = "no" /\ IsWriter(writer') /\ writer'.next = writer.next
          /\ writer'.header = writer.header /\ writer'.ended # "no" /\ writer.next \in Nat \ {0}
      BY <1>2, <2>2 DEF AR!WriteEnds, AR!SourceFails, AR!Writing, IsWriter
    <3>2. ASSUME NEW t \in Tokens, t # <<"header", "manifest">>,
                 NEW last \in {<<t>>, <<>>}
          PROVE  /\ last \in Seq(Tokens)
                 /\ \A k \in 1 .. Len(last) : last[k] # <<"header", "manifest">>
      <4> HIDE DEF Tokens
      <4>1. <<t>> \in Seq(Tokens) /\ Len(<<t>>) = 1 /\ <<t>>[1] = t
        BY <3>2
      <4>2. <<>> \in Seq(Tokens) /\ Len(<<>>) = 0
        BY EmptySeq
      <4>3. CASE last = <<t>>
        <5>1. \A k \in 1 .. 1 : k = 1
          OBVIOUS
        <5> QED BY <3>2, <4>1, <4>3, <5>1
      <4>4. CASE last = <<>>
        <5>1. 1 .. 0 = {}
          OBVIOUS
        <5> QED BY <4>2, <4>4, <5>1
      <4> QED BY <4>3, <4>4
    <3>3. <<"trailer", "">> \in Tokens /\ <<"text", "">> \in Tokens
      BY DEF Tokens
    <3>4. /\ AR!Trailer \in {<<<<"trailer", "">>>>, <<>>}
          /\ text \in {<<<<"text", "">>>>, <<>>}
      BY DEF AR!Trailer
    <3> HIDE DEF text
    <3>5. /\ AR!Trailer \in Seq(Tokens) /\ text \in Seq(Tokens)
          /\ \A k \in 1 .. Len(AR!Trailer) : AR!Trailer[k] # <<"header", "manifest">>
          /\ \A k \in 1 .. Len(text) : text[k] # <<"header", "manifest">>
      BY <3>2, <3>3, <3>4
    <3>6. /\ wire \o AR!Trailer \in Seq(Tokens)
          /\ Ahead => ConfigAhead(wire \o AR!Trailer, unpacker, writer.next, writer.header,
                                  writer'.ended)
      BY <1>2, <3>1, <3>5, EndOut, ConcatProperties
    <3>7. CASE AR!WriteEnds
      BY <1>1, <3>1, <3>6, <3>7 DEF AR!WriteEnds
    <3>8. CASE AR!SourceFails
      <4>1. wire' = wire \o AR!Trailer \o text
        BY <3>8 DEF AR!SourceFails, text
      <4> DEFINE w == wire \o AR!Trailer
      <4>2. w \in Seq(Tokens) /\ (Ahead => ConfigAhead(w, unpacker, writer.next, writer.header,
                                                      writer'.ended))
        BY <3>6
      <4> HIDE DEF w
      <4>3. /\ w \o text \in Seq(Tokens)
            /\ Ahead => ConfigAhead(w \o text, unpacker, writer.next, writer.header, writer'.ended)
        BY <3>1, <3>5, <4>2, EndOut, ConcatProperties
      <4> QED BY <1>1, <3>1, <4>1, <4>3 DEF w
    <3> QED BY <2>2, <3>7, <3>8
  <2>3. CASE AR!WriteRefused
    <3>1. /\ UNCHANGED wire /\ writer.ended = "no" /\ IsWriter(writer') /\ writer'.ended = "failed"
          /\ writer'.next = writer.next /\ writer'.header = writer.header
      BY <1>2, <2>3 DEF AR!WriteRefused, AR!Writing, IsWriter
    <3> QED BY <1>1, <1>2, <3>1 DEF ConfigAhead
  <2>4. CASE AR!Cut \/ UNCHANGED AR!arVars
    <3>1. UNCHANGED <<wire, writer>>
      BY <2>4 DEF AR!Cut, AR!arVars
    <3> QED BY <1>1, <1>2, <3>1
  <2> QED BY <2>1, <2>2, <2>3, <2>4
<1>4. AR!Held' = AR!Held
  BY <1>1 DEF AR!Held
<1> HIDE DEF Ahead
<1>5. archive # "none" /\ answer = "none" => "config" \in AR!Held.blobs \/ Ahead
  BY DEF ArchiveInv, ArchiveOrder, Ahead
<1> QED BY <1>1, <1>2, <1>3, <1>4, <1>5 DEF ArchiveOrder, Ahead

(* and by the reader, which has the configuration stored before it reads on. *)
LEMMA ReaderOrder ==
  ASSUME ArchiveInv,
         AR!LosesConnection \/ AR!NextHeader \/ AR!ReadData \/ AR!ReadManifest
         \/ AR!UnexpectedEOF \/ AR!WriteBlobFails
  PROVE  ArchiveOrder'
<1>1. AR!Reading /\ UNCHANGED <<archive, writer>>
  BY DEF AR!LosesConnection, AR!NextHeader, AR!ReadData, AR!ReadManifest, AR!UnexpectedEOF,
         AR!WriteBlobFails, AR!ReaderOnly
<1>2. wire \in Seq(Tokens) /\ IsWriter(writer) /\ IsReader(unpacker)
  BY DEF ArchiveInv, ArchiveOrder
<1>3. \/ "config" \in AR!Held.blobs
      \/ ConfigAhead(wire, unpacker, writer.next, writer.header, writer.ended)
  BY <1>1 DEF ArchiveInv, ArchiveOrder, AR!Reading
<1>4. CASE \E how \in {"ok", "failed"} : AR!Returns(how)
  <2>1. wire' = <<>> /\ answer' # "none" /\ UNCHANGED unpacker
    BY <1>4 DEF AR!Returns
  <2>2. wire' \in Seq(Tokens)
    BY <2>1, EmptySeq
  <2> QED BY <1>1, <1>2, <2>1, <2>2 DEF ArchiveOrder
<1>5. ASSUME wire # <<>>
      PROVE  /\ Tail(wire) \in Seq(Tokens)
             /\ Head(wire) = <<Head(wire)[1], Head(wire)[2]>>
  <2>1. Head(wire) \in Tokens /\ Tail(wire) \in Seq(Tokens)
    BY <1>2, <1>5, HeadTailProperties
  <2>2. ASSUME NEW t \in Tokens PROVE t = <<t[1], t[2]>>
    <3> DEFINE kinds == {"header", "data", "trailer", "text"}
               names == EntryNames \cup {""}
    <3>1. t \in kinds \X names
      BY DEF Tokens
    <3> HIDE DEF kinds, names
    <3> QED BY <3>1
  <2> HIDE DEF Tokens
  <2> QED BY <2>1, <2>2
<1>6. CASE AR!NextHeader
  <2> DEFINE name == Head(wire)[2]
  <2>1. /\ wire # <<>> /\ wire' = Tail(wire) /\ Head(wire)[1] = "header"
        /\ unpacker' = [unpacker EXCEPT !.entry = name]
        /\ UNCHANGED <<answer, fetched, daemonHas>>
    BY <1>6 DEF AR!NextHeader
  <2>2. unpacker' = [entry |-> name, manifest |-> unpacker.manifest]
    BY <1>2, <2>1 DEF IsReader
  <2>3. Head(wire) = <<"header", name>> /\ wire' \in Seq(Tokens)
    BY <1>5, <2>1
  <2>4. AR!Held' = AR!Held
    BY <1>1, <2>1 DEF AR!Held
  <2> HIDE DEF name
  <2>5. IsReader(unpacker')
    BY <2>2 DEF IsReader
  <2>6. ConfigAhead(wire, unpacker, writer.next, writer.header, writer.ended)
          => ConfigAhead(Tail(wire), [entry |-> name, manifest |-> unpacker.manifest],
                         writer.next, writer.header, writer.ended)
    BY <1>2, <2>1, <2>3, HeaderIn
  <2>7. \/ "config" \in AR!Held'.blobs
        \/ ConfigAhead(wire', unpacker', writer'.next, writer'.header, writer'.ended)
    BY <1>1, <1>3, <2>1, <2>2, <2>4, <2>6
  <2> QED BY <1>1, <1>2, <2>3, <2>5, <2>7 DEF ArchiveOrder
<1>7. CASE AR!ReadData
  <2>1. /\ wire # <<>> /\ wire' = Tail(wire) /\ Head(wire)[1] = "data"
        /\ unpacker' = [entry |-> "none",
                        manifest |-> unpacker.manifest \/ unpacker.entry = "manifest"]
        /\ UNCHANGED answer
        /\ AR!Store(IF unpacker.entry = "manifest" THEN AR!Held
                    ELSE [AR!Held EXCEPT !.blobs = @ \cup {unpacker.entry}])
    BY <1>7 DEF AR!ReadData
  <2>2. wire' \in Seq(Tokens) /\ IsReader(unpacker') /\ Head(wire) = <<"data", Head(wire)[2]>>
    BY <1>5, <2>1 DEF IsReader
  <2>3. IsStore(AR!Held)
    BY DEF ArchiveInv, ArchiveStores, AR!Held
  <2>4. /\ "config" \in AR!Held.blobs => "config" \in AR!Held'.blobs
        /\ unpacker.entry = "config" => "config" \in AR!Held'.blobs
    <3>1. PICK v : /\ AR!Store(v)
                   /\ v = IF unpacker.entry = "manifest" THEN AR!Held
                          ELSE [AR!Held EXCEPT !.blobs = @ \cup {unpacker.entry}]
      BY <2>1
    <3>2. /\ "config" \in AR!Held.blobs => "config" \in v.blobs
          /\ unpacker.entry = "config" => "config" \in v.blobs
      BY <2>3, <3>1 DEF IsStore
    <3>3. AR!Held' = v
      BY <1>1, <3>1 DEF AR!Store, AR!Held
    <3> QED BY <3>2, <3>3
  <2>5. ASSUME ConfigAhead(wire, unpacker, writer.next, writer.header, writer.ended),
               unpacker.entry # "config"
        PROVE  ConfigAhead(wire', unpacker', writer.next, writer.header, writer.ended)
    <3>1. unpacker' = [entry |-> "none", manifest |-> FALSE]
      BY <2>1, <2>5 DEF ConfigAhead
    <3>2. ConfigAhead(Tail(wire), [entry |-> "none", manifest |-> FALSE], writer.next,
                      writer.header, writer.ended)
      BY <1>2, <2>1, <2>2, <2>5, DataIn
    <3> QED BY <2>1, <3>1, <3>2
  <2> QED BY <1>1, <1>2, <1>3, <2>2, <2>4, <2>5 DEF ArchiveOrder
<1>8. AR!LosesConnection \/ AR!ReadManifest \/ AR!UnexpectedEOF \/ AR!WriteBlobFails =>
        \E how \in {"ok", "failed"} : AR!Returns(how)
  BY DEF AR!LosesConnection, AR!ReadManifest, AR!UnexpectedEOF, AR!WriteBlobFails
<1> QED BY <1>4, <1>6, <1>7, <1>8

(* The invariant is kept by every step of a package and its archives. *)
LEMMA ArchivesMove == ArchiveInv /\ (AR!ArNext \/ UNCHANGED AR!arVars) => ArchiveInv'
<1> SUFFICES ASSUME ArchiveInv, AR!ArNext \/ UNCHANGED AR!arVars PROVE ArchiveInv'
  OBVIOUS
<1>1. ArchiveStores'
  BY CommandMoves, WriterMoves, ReaderMoves DEF AR!ArNext, AR!ArStep, ArchiveInv
<1>2. ArchiveOrder'
  BY CommandOrder, WriterOrder, ReaderOrder DEF AR!ArNext, AR!ArStep
<1> QED BY <1>1, <1>2 DEF ArchiveInv

(* What is loaded or built on is whole. *)
LEMMA ArchivesWhole == ArchiveInv => AR!PackagedWhole
BY DEF ArchiveInv, ArchiveStores, AR!PackagedWhole, AR!Whole

(***************************************************************************)
(* The chat.                                                               *)
(***************************************************************************)
Chunks == UNION {CC!ToSet(r.chunks) : r \in Replies}
Parts == {[index |-> c.index, name |-> c.name] : c \in Chunks}
Messages ==
  [role : {"system", "user", "assistant", "calls", "tool"}, turn : Nat, calls : SUBSET Parts]

(* What is shown is the text up to where it was flushed. *)
IsText(b) == b = [text |-> b.text, flushed |-> b.flushed, inCode |-> b.inCode, shown |-> b.shown]
TextOK(b) ==
  /\ IsText(b)
  /\ b.text \in Seq(CC!Pieces) /\ b.flushed \in 0 .. Len(b.text)
  /\ b.shown = SubSeq(b.text, 1, b.flushed)

(* One sequence after another. *)
LEMMA Joined ==
  ASSUME NEW S, NEW s \in Seq(S), NEW t \in Seq(S)
  PROVE  /\ s \o t \in Seq(S) /\ Len(s \o t) = Len(s) + Len(t)
         /\ \A p \in 1 .. Len(s) : (s \o t)[p] = s[p]
         /\ \A p \in 1 .. Len(t) : (s \o t)[Len(s) + p] = t[p]
<1>1. Len(s) \in Nat /\ Len(t) \in Nat
  BY LenProperties
<1>2. /\ s \o t \in Seq(S) /\ Len(s \o t) = Len(s) + Len(t)
      /\ \A p \in 1 .. Len(s) + Len(t) :
           (s \o t)[p] = IF p <= Len(s) THEN s[p] ELSE t[p - Len(s)]
  BY ConcatProperties
<1>3. ASSUME NEW p \in 1 .. Len(t) PROVE (s \o t)[Len(s) + p] = t[p]
  <2>1. Len(s) + p \in 1 .. Len(s) + Len(t) /\ ~(Len(s) + p <= Len(s)) /\ Len(s) + p - Len(s) = p
    BY <1>1
  <2> QED BY <1>2, <2>1
<1> QED BY <1>1, <1>2, <1>3

(* The first of some positions, if there is one, is the least of them. *)
LEMMA FirstIs ==
  ASSUME NEW S, S \subseteq Nat
  PROVE  S # {} => CC!First(S) \in S /\ \A x \in S : CC!First(S) <= x
<1> SUFFICES ASSUME S # {} PROVE CC!First(S) \in S /\ \A x \in S : CC!First(S) <= x
  OBVIOUS
<1>1. IsWellFoundedOn(OpToRel(<, Nat), Nat)
  BY NatLessThanWellFounded
<1>2. PICK m \in S : \A y \in S : ~(<<y, m>> \in OpToRel(<, Nat))
  BY <1>1, WFMin
<1>5. \A y \in S : ~(y < m)
  BY <1>2 DEF OpToRel
<1>3. m \in S /\ \A y \in S : m <= y
  BY <1>5
<1>4. CC!Min(S) \in S /\ \A y \in S : CC!Min(S) <= y
  BY <1>3 DEF CC!Min
<1> QED BY <1>4 DEF CC!First

(* A text that grew. *)
LEMMA Grown ==
  ASSUME NEW b, IsText(b), NEW text
  PROVE  [b EXCEPT !.text = text] =
           [text |-> text, flushed |-> b.flushed, inCode |-> b.inCode, shown |-> b.shown]
<1>1. PICK t, f, i, s : b = [text |-> t, flushed |-> f, inCode |-> i, shown |-> s]
  BY DEF IsText
<1> QED BY <1>1

(* Showing more of the text. *)
LEMMA EmitIs ==
  ASSUME NEW b, TextOK(b), NEW last \in b.flushed .. Len(b.text), NEW code
  PROVE  /\ TextOK(CC!Emit(b, last, code)) /\ CC!Emit(b, last, code).text = b.text
         /\ CC!Emit(b, last, code).flushed = last
<1> DEFINE e == CC!Emit(b, last, code)
           shown == b.shown \o SubSeq(b.text, b.flushed + 1, last)
<1>1. e = [text |-> b.text, flushed |-> last, inCode |-> code, shown |-> shown]
  BY DEF CC!Emit
<1>2. b.text \in Seq(CC!Pieces) /\ Len(b.text) \in Nat /\ b.flushed \in 0 .. Len(b.text)
  BY LenProperties DEF TextOK
<1>3. shown = SubSeq(b.text, 1, last)
  <2>1. /\ b.shown = SubSeq(b.text, 1, b.flushed)
    BY DEF TextOK
  <2>2. 1 \in 1 .. Len(b.text) + 1 /\ b.flushed \in 1 - 1 .. Len(b.text)
        /\ last \in b.flushed .. Len(b.text)
    BY <1>2
  <2>3. SubSeq(b.text, 1, b.flushed) \o SubSeq(b.text, b.flushed + 1, last) =
          SubSeq(b.text, 1, last)
    BY <1>2, <2>2, ConcatAdjacentSubSeq
  <2> QED BY <2>1, <2>3
<1>4. last \in 0 .. Len(b.text)
  BY <1>2
<1> HIDE DEF e, shown
<1>5. e.text = b.text /\ e.flushed = last /\ e.shown = SubSeq(b.text, 1, last) /\ IsText(e)
  BY <1>1, <1>3 DEF IsText
<1>6. TextOK(e) /\ e.text = b.text /\ e.flushed = last
  BY <1>2, <1>4, <1>5 DEF TextOK
<1> QED BY <1>6 DEF e

(* A piece that comes in: nothing is skipped and nothing shown twice. *)
LEMMA AddedIs ==
  ASSUME NEW b, TextOK(b), NEW chunk \in Seq(CC!Pieces)
  PROVE  TextOK(CC!Added(b, chunk)) 
<1> DEFINE c == [b EXCEPT !.text = @ \o chunk]
           fences == {p \in c.flushed + 1 .. Len(c.text) : c.text[p] = "f"}
           closes == {p \in c.flushed + 1 .. Len(c.text) - 1 :
                        c.text[p] = "f" /\ c.text[p + 1] = "n"}
           fence == CC!First(fences)
           close == CC!First(closes)
<1>1. TextOK(c)
  <2>1. /\ b.text \in Seq(CC!Pieces) /\ Len(b.text) \in Nat /\ b.flushed \in 0 .. Len(b.text)
        /\ b.shown = SubSeq(b.text, 1, b.flushed)
    BY LenProperties DEF TextOK
  <2>2. /\ b.text \o chunk \in Seq(CC!Pieces) /\ Len(b.text \o chunk) = Len(b.text) + Len(chunk)
        /\ Len(chunk) \in Nat
    BY <2>1, ConcatProperties, LenProperties
  <2>3. SubSeq(b.text \o chunk, 1, b.flushed) = SubSeq(b.text, 1, b.flushed)
    BY <2>1, <2>2, SubSeqOfConcat1
  <2>4. c = [text |-> b.text \o chunk, flushed |-> b.flushed, inCode |-> b.inCode,
              shown |-> b.shown]
    BY Grown DEF TextOK
  <2>5. b.flushed \in 0 .. Len(b.text \o chunk)
    BY <2>1, <2>2
  <2>6. /\ c.text = b.text \o chunk /\ c.flushed = b.flushed /\ c.shown = b.shown
        /\ IsText(c)
    BY <2>4 DEF IsText
  <2> HIDE DEF c
  <2> QED BY <2>1, <2>2, <2>3, <2>5, <2>6 DEF TextOK
<1>2. Len(c.text) \in Nat /\ c.flushed \in 0 .. Len(c.text)
  <2> HIDE DEF c
  <2> QED BY <1>1, LenProperties DEF TextOK
<1> HIDE DEF c
<1>3. fence # 0 => fence \in c.flushed + 1 .. Len(c.text)
  <2>1. fences \subseteq Nat
    BY <1>2
  <2>2. CASE fences = {}
    BY <2>2 DEF CC!First
  <2>3. CASE fences # {}
    BY <2>1, <2>3, FirstIs
  <2> QED BY <2>2, <2>3
<1>4. close # 0 => close \in c.flushed + 1 .. Len(c.text) - 1
  <2>1. closes \subseteq Nat
    BY <1>2
  <2>2. CASE closes = {}
    BY <2>2 DEF CC!First
  <2>3. CASE closes # {}
    BY <2>1, <2>3, FirstIs
  <2> QED BY <2>2, <2>3
<1>5. CC!Added(b, chunk) =
        IF ~c.inCode
        THEN IF fence = 0 THEN CC!Emit(c, Len(c.text), FALSE) ELSE CC!Emit(c, fence - 1, TRUE)
        ELSE IF close # 0 THEN CC!Emit(c, close + 1, FALSE)
        ELSE IF fence # 0 /\ fence = Len(c.text) THEN CC!Emit(c, fence, FALSE) ELSE c
  BY DEF CC!Added, c
<1> HIDE DEF fence, close
<1>6. Len(c.text) \in c.flushed .. Len(c.text)
  BY <1>2
<1>7. fence # 0 => fence - 1 \in c.flushed .. Len(c.text) /\ fence \in c.flushed .. Len(c.text)
  BY <1>2, <1>3
<1>8. close # 0 => close + 1 \in c.flushed .. Len(c.text)
  BY <1>2, <1>4
<1>9. \A n \in c.flushed .. Len(c.text), code \in BOOLEAN : TextOK(CC!Emit(c, n, code))
  BY <1>1, EmitIs
<1>10. \/ CC!Added(b, chunk) = c
       \/ \E n \in c.flushed .. Len(c.text), code \in BOOLEAN :
            CC!Added(b, chunk) = CC!Emit(c, n, code)
  BY <1>5, <1>6, <1>7, <1>8
<1> QED BY <1>1, <1>9, <1>10

(* At the end all of it is shown. *)
LEMMA FlushIs ==
  ASSUME NEW b, TextOK(b)
  PROVE  TextOK(CC!Flush(b)) /\ CC!Flush(b).shown = CC!Flush(b).text
<1>1. b.text \in Seq(CC!Pieces) /\ Len(b.text) \in b.flushed .. Len(b.text)
  BY LenProperties DEF TextOK
<1>2. TextOK(CC!Flush(b)) /\ CC!Flush(b).text = b.text /\ CC!Flush(b).flushed = Len(b.text)
  BY <1>1, EmitIs DEF CC!Flush
<1> QED BY <1>1, <1>2, SubSeqFull DEF TextOK

(* What follows the question: calls, each with a result for each of its parts. *)
Rounds(e) ==
  \A p \in 1 .. Len(e) :
    /\ e[p].role \in {"calls", "tool"}
    /\ e[p].role = "calls" =>
         \A c \in e[p].calls : \E q \in p + 1 .. Len(e) :
           e[q].calls = {c} /\ \A b \in p + 1 .. q : e[b].role = "tool"

(* The results of the calls of a round. *)
Results(n, made) == CC!SetToSeq({[role |-> "tool", turn |-> n, calls |-> {c}] : c \in made})

(* They are a sequence, with one for each call. *)
LEMMA ResultsAre ==
  ASSUME NEW made, made \subseteq Parts, IsFiniteSet(made), NEW n \in Nat
  PROVE  /\ Results(n, made) \in Seq(Messages)
         /\ \A j \in 1 .. Len(Results(n, made)) : Results(n, made)[j].role = "tool"
         /\ \A c \in made : \E j \in 1 .. Len(Results(n, made)) : Results(n, made)[j].calls = {c}
<1> DEFINE results == {[role |-> "tool", turn |-> n, calls |-> {c}] : c \in made}
           t == CC!SetToSeq(results)
<1>1. IsFiniteSet(results)
  <2> DEFINE f == [c \in made |-> [role |-> "tool", turn |-> n, calls |-> {c}]]
  <2>1. f \in Surjection(made, results)
    BY DEF Surjection
  <2> QED BY <2>1, FS_Surjection
<1>2. CC!Cardinality(results) = Cardinality(results)
  BY DEF CC!Cardinality, Cardinality
<1>3. PICK f \in [1 .. Cardinality(results) -> results] :
        (\A a, b \in 1 .. Cardinality(results) : f[a] = f[b] => a = b)
        /\ \A m \in results : \E j \in 1 .. Cardinality(results) : f[j] = m
  <2>1. ExistsBijection(1 .. Cardinality(results), results)
    BY <1>1, FS_CardinalityType
  <2> QED BY <2>1 DEF ExistsBijection, Bijection, Injection, Surjection, IsInjective
<1>4. t \in [1 .. Cardinality(results) -> results] /\ CC!IsInjective(t)
  <2>1. CC!IsInjective(f)
    BY <1>3 DEF CC!IsInjective
  <2>2. f \in [1 .. CC!Cardinality(results) -> results]
    BY <1>2
  <2>3. t \in [1 .. CC!Cardinality(results) -> results] /\ CC!IsInjective(t)
    BY <2>1, <2>2 DEF CC!SetToSeq
  <2> QED BY <2>3, <1>2
<1>5. Cardinality(results) \in Nat
  BY <1>1, FS_CardinalityType
<1>6. \A m \in results : \E j \in 1 .. Cardinality(results) : t[j] = m
  <2>1. t \in Injection(1 .. Cardinality(results), results)
    BY <1>4 DEF CC!IsInjective, IsInjective, Injection
  <2>2. /\ IsFiniteSet(1 .. Cardinality(results))
        /\ Cardinality(1 .. Cardinality(results)) = Cardinality(results)
    BY <1>5, FS_Interval
  <2>3. t \in Surjection(1 .. Cardinality(results), results)
    BY <1>1, <2>1, <2>2, FS_Injection
  <2> QED BY <2>3 DEF Surjection
<1>7. results \subseteq Messages /\ \A m \in results : m.role = "tool"
  BY DEF Messages
<1>8. t \in Seq(results) /\ Len(t) = Cardinality(results)
  <2> HIDE DEF results, t
  <2> QED BY <1>4, <1>5
<1>9. ASSUME NEW c \in made PROVE \E m \in results : m.calls = {c}
  <2>1. [role |-> "tool", turn |-> n, calls |-> {c}] \in results
    OBVIOUS
  <2>2. [role |-> "tool", turn |-> n, calls |-> {c}].calls = {c}
    OBVIOUS
  <2> HIDE DEF results
  <2> QED BY <2>1, <2>2
<1> HIDE DEF results, t
<1>10. t \in Seq(Messages)
  BY <1>7, <1>8, SeqMonotonic
<1>11. \A j \in 1 .. Len(t) : t[j].role = "tool"
  BY <1>4, <1>7, <1>8
<1>12. \A c \in made : \E j \in 1 .. Len(t) : t[j].calls = {c}
  BY <1>6, <1>8, <1>9
<1>13. t = Results(n, made)
  BY DEF t, results, Results
<1> QED BY <1>10, <1>11, <1>12, <1>13

(* A round more. *)
LEMMA RoundMore ==
  ASSUME NEW e \in Seq(Messages), Rounds(e), NEW m \in Messages, m.role = "calls",
         NEW t \in Seq(Messages), \A j \in 1 .. Len(t) : t[j].role = "tool",
         \A c \in m.calls : \E j \in 1 .. Len(t) : t[j].calls = {c}
  PROVE  e \o <<m>> \o t \in Seq(Messages) /\ Rounds(e \o <<m>> \o t)
<1> DEFINE f == e \o <<m>> \o t
<1>1. Len(e) \in Nat /\ Len(t) \in Nat /\ <<m>> \in Seq(Messages) /\ Len(<<m>>) = 1
  BY LenProperties
<1>2. e \o <<m>> \in Seq(Messages) /\ Len(e \o <<m>>) = Len(e) + 1
  BY <1>1, Joined
<1>3. f \in Seq(Messages) /\ Len(f) = Len(e) + 1 + Len(t)
  BY <1>1, <1>2, Joined
<1>4. \A p \in 1 .. Len(e) : f[p] = e[p]
  <2>1. \A p \in 1 .. Len(e) : (e \o <<m>>)[p] = e[p]
    BY <1>1, Joined
  <2>2. \A p \in 1 .. Len(e) + 1 : f[p] = (e \o <<m>>)[p]
    BY <1>1, <1>2, Joined
  <2> QED BY <1>1, <2>1, <2>2
<1>5. f[Len(e) + 1] = m
  <2>1. (e \o <<m>>)[Len(e) + 1] = m
    BY <1>1
  <2>2. f[Len(e) + 1] = (e \o <<m>>)[Len(e) + 1]
    BY <1>1, <1>2, Joined
  <2> QED BY <2>1, <2>2
<1>6. \A j \in 1 .. Len(t) : f[Len(e) + 1 + j] = t[j]
  BY <1>2, Joined
<1> HIDE DEF f
<1>7. ASSUME NEW p \in 1 .. Len(f)
      PROVE  /\ f[p].role \in {"calls", "tool"}
             /\ f[p].role = "calls" =>
                  \A c \in f[p].calls : \E q \in p + 1 .. Len(f) :
                    f[q].calls = {c} /\ \A b \in p + 1 .. q : f[b].role = "tool"
  <2>1. CASE p \in 1 .. Len(e)
    <3>1. ASSUME f[p].role = "calls", NEW c \in f[p].calls
          PROVE  \E q \in p + 1 .. Len(f) :
                   f[q].calls = {c} /\ \A b \in p + 1 .. q : f[b].role = "tool"
      <4>1. PICK q \in p + 1 .. Len(e) :
              e[q].calls = {c} /\ \A b \in p + 1 .. q : e[b].role = "tool"
        BY <1>4, <2>1, <3>1 DEF Rounds
      <4>2. q \in p + 1 .. Len(f) /\ q \in 1 .. Len(e) /\ \A b \in p + 1 .. q : b \in 1 .. Len(e)
        BY <1>1, <1>3, <2>1
      <4> QED BY <1>4, <4>1, <4>2
    <3> QED BY <1>4, <2>1, <3>1 DEF Rounds
  <2>2. CASE p = Len(e) + 1
    <3>1. ASSUME NEW c \in m.calls
          PROVE  \E q \in p + 1 .. Len(f) :
                   f[q].calls = {c} /\ \A b \in p + 1 .. q : f[b].role = "tool"
      <4>1. PICK j \in 1 .. Len(t) : t[j].calls = {c}
        OBVIOUS
      <4>2. Len(e) + 1 + j \in p + 1 .. Len(f) /\ f[Len(e) + 1 + j].calls = {c}
        BY <1>1, <1>3, <1>6, <2>2, <4>1
      <4>3. ASSUME NEW b \in p + 1 .. Len(e) + 1 + j PROVE f[b].role = "tool"
        <5>1. b - Len(e) - 1 \in 1 .. Len(t) /\ Len(e) + 1 + (b - Len(e) - 1) = b
          BY <1>1, <2>2
        <5> QED BY <1>6, <5>1
      <4> QED BY <4>2, <4>3
    <3> QED BY <1>5, <2>2, <3>1
  <2>3. CASE p > Len(e) + 1
    <3>1. p - Len(e) - 1 \in 1 .. Len(t) /\ Len(e) + 1 + (p - Len(e) - 1) = p
      BY <1>1, <1>3, <2>3
    <3> QED BY <1>6, <3>1
  <2>4. p \in 1 .. Len(e) \/ p = Len(e) + 1 \/ p > Len(e) + 1
    BY <1>1, <1>3
  <2> QED BY <2>1, <2>2, <2>3, <2>4, Zenon
<1> QED BY <1>3, <1>7 DEF Rounds, f

Fields ==
  {"pc", "turn", "messages", "initial", "tools", "supported", "rounds", "answer", "rest",
   "pending", "finish"}
Prefixes == {<<>>, <<CC!Said("system", 0)>>}

(* A message in progress: it is asked after the history, with whole rounds of tool
   calls after it; the calls come from a reply to a request that offered tools. *)
TalkOK(t) ==
  /\ DOMAIN t = Fields /\ t.turn \in Nat
  /\ \E prefix \in Prefixes : t.initial = prefix \o history \o <<CC!Said("user", t.turn)>>
  /\ \E e \in Seq(Messages) : Rounds(e) /\ t.messages = t.initial \o e /\ (e # <<>> => t.supported)
  /\ t.pending \subseteq Parts /\ IsFiniteSet(t.pending) /\ t.rest \in Seq(Chunks)
  /\ t.pc = "stream" /\ t.tools = {} =>
       t.pending = {} /\ \A i \in DOMAIN t.rest : t.rest[i].kind # "tool"
  /\ t.tools # {} => t.supported

ChatInv ==
  /\ history \in Seq(Messages) /\ CC!HistoryPaired
  /\ talk.turn \in Nat
  /\ talk.pc \in {"prompt", "request", "stream"}
  /\ \A p \in DOMAIN history :
       history[p].turn <= talk.turn /\ (talk.pc # "prompt" => history[p].turn < talk.turn)
  /\ talk.pc # "prompt" => TalkOK(talk)
  /\ TextOK(shownText) /\ CC!ShownInFull
  /\ CC!NoFalseSuccess

(* At first nothing was said. *)
LEMMA ChatInit == CC!CCInit => ChatInv
<1> SUFFICES ASSUME CC!CCInit PROVE ChatInv
  OBVIOUS
<1>1. history = <<>> /\ talk = [pc |-> "prompt", turn |-> 0] /\ transfer = [pc |-> "idle"]
      /\ shownText = [text |-> <<>>, flushed |-> 0, inCode |-> FALSE, shown |-> <<>>]
  BY DEF CC!CCInit, CC!NoTalk, CC!NoText, CC!NoTransfer
<1>2. /\ <<>> \in Seq(Messages) /\ <<>> \in Seq(CC!Pieces)
      /\ Len(<<>>) = 0 /\ SubSeq(<<>>, 1, 0) = <<>>
  BY EmptySeq, SubSeqEmpty
<1>3. TextOK(shownText)
  BY <1>1, <1>2 DEF TextOK, IsText
<1>4. CC!HistoryPaired /\ CC!ShownInFull /\ CC!NoFalseSuccess
  BY <1>1, <1>2 DEF CC!HistoryPaired, CC!ShownInFull, CC!NoFalseSuccess
<1> QED BY <1>1, <1>2, <1>3, <1>4 DEF ChatInv

(* Odd and even. *)
LEMMA Parity ==
  ASSUME NEW n \in Nat
  PROVE  /\ n % 2 = 0 => (n + 1) % 2 = 1 /\ (n + 2) % 2 = 0
         /\ n >= 1 /\ n % 2 = 0 => n >= 2
OBVIOUS

(* The history with two messages more. *)
LEMMA HistoryLonger ==
  ASSUME history \in Seq(Messages), NEW pair \in Seq(Messages), Len(pair) = 2
  PROVE  history' = history \o pair =>
           /\ history' \in Seq(Messages) /\ Len(history') = Len(history) + 2
           /\ \A p \in 1 .. Len(history) : history'[p] = history[p]
           /\ history'[Len(history) + 1] = pair[1] /\ history'[Len(history) + 2] = pair[2]
<1>1. /\ history \o pair \in Seq(Messages) /\ Len(history \o pair) = Len(history) + Len(pair)
      /\ \A p \in 1 .. Len(history) : (history \o pair)[p] = history[p]
      /\ \A p \in 1 .. Len(pair) : (history \o pair)[Len(history) + p] = pair[p]
  BY Joined
<1>2. 1 \in 1 .. Len(pair) /\ 2 \in 1 .. Len(pair)
  OBVIOUS
<1> QED BY <1>1, <1>2

(* The history after an answer. *)
LEMMA PairMore ==
  ASSUME history \in Seq(Messages), CC!HistoryPaired, NEW n \in Nat,
         \A p \in DOMAIN history : history[p].turn < n,
         history' = history \o <<CC!Said("user", n), CC!Said("assistant", n)>>
  PROVE  /\ history' \in Seq(Messages) /\ CC!HistoryPaired'
         /\ \A p \in DOMAIN history' : history'[p].turn <= n
<1> DEFINE pair == <<CC!Said("user", n), CC!Said("assistant", n)>>
<1>1. CC!Said("user", n) \in Messages /\ CC!Said("assistant", n) \in Messages
  BY DEF CC!Said, Messages
<1>2. /\ pair \in Seq(Messages) /\ Len(pair) = 2
      /\ pair[1].role = "user" /\ pair[2].role = "assistant"
      /\ pair[1].turn = n /\ pair[2].turn = n
  BY <1>1 DEF CC!Said
<1>3. Len(history) \in Nat /\ DOMAIN history = 1 .. Len(history)
  BY LenProperties
<1> HIDE DEF pair
<1>4. history' = history \o pair
  BY DEF pair
<1>5. /\ history' \in Seq(Messages) /\ Len(history') = Len(history) + 2
      /\ \A p \in 1 .. Len(history) : history'[p] = history[p]
      /\ history'[Len(history) + 1] = pair[1] /\ history'[Len(history) + 2] = pair[2]
  BY <1>2, <1>4, HistoryLonger
<1>6. DOMAIN history' = 1 .. Len(history) + 2
  BY <1>5, LenProperties
<1>8. \A p \in DOMAIN history' :
        p \in 1 .. Len(history) \/ p = Len(history) + 1 \/ p = Len(history) + 2
  BY <1>3, <1>6
<1>9. ASSUME NEW p \in DOMAIN history' PROVE history'[p].turn <= n
  <2>1. CASE p \in 1 .. Len(history)
    <3>1. history[p].turn < n /\ history[p] \in Messages
      BY <1>3, <2>1, ElementOfSeq
    <3>2. history[p].turn \in Nat
      BY <3>1 DEF Messages
    <3> QED BY <1>5, <2>1, <3>1, <3>2
  <2>2. CASE p = Len(history) + 1 \/ p = Len(history) + 2
    BY <1>2, <1>5, <2>2
  <2> QED BY <1>8, <2>1, <2>2
<1>10. Len(history) % 2 = 0 /\ (Len(history) + 1) % 2 = 1 /\ (Len(history) + 2) % 2 = 0
  <2>1. Len(history) % 2 = 0
    BY DEF CC!HistoryPaired
  <2> QED BY <1>3, <2>1, Parity
<1>11. ASSUME NEW p \in DOMAIN history'
       PROVE  /\ history'[p].role = IF p % 2 = 1 THEN "user" ELSE "assistant"
              /\ p % 2 = 0 => history'[p - 1].turn = history'[p].turn
  <2>1. CASE p \in 1 .. Len(history)
    <3>1. /\ history[p].role = IF p % 2 = 1 THEN "user" ELSE "assistant"
          /\ p % 2 = 0 => history[p - 1].turn = history[p].turn
      BY <1>3, <2>1 DEF CC!HistoryPaired
    <3>2. p % 2 = 0 => p - 1 \in 1 .. Len(history)
      <4>1. p \in Nat /\ p >= 1 /\ p <= Len(history)
        BY <1>3, <2>1
      <4>2. p % 2 = 0 => p >= 2
        BY <4>1, Parity
      <4> QED BY <1>3, <4>1, <4>2
    <3> QED BY <1>5, <2>1, <3>1, <3>2
  <2>2. CASE p = Len(history) + 1
    BY <1>2, <1>5, <1>10, <2>2
  <2>3. CASE p = Len(history) + 2
    <3>1. p - 1 = Len(history) + 1
      BY <1>3, <2>3
    <3> QED BY <1>2, <1>5, <1>10, <2>3, <3>1
  <2> QED BY <1>8, <2>1, <2>2, <2>3
<1>12. CC!HistoryPaired'
  BY <1>5, <1>10, <1>11 DEF CC!HistoryPaired
<1> QED BY <1>5, <1>9, <1>12

(* A conversation: what the request of a message asks, and what follows it. *)
Conversation(ms, n, offered) ==
  LET asked == CC!First({p \in DOMAIN ms : ms[p].role = "user" /\ ms[p].turn = n})
  IN  /\ asked % 2 = 1
      /\ \A p \in 1 .. asked : ms[p].role = IF p % 2 = 1 THEN "user" ELSE "assistant"
      /\ \A p \in asked + 1 .. Len(ms) :
           /\ ms[p].role \in {"calls", "tool"} /\ offered
           /\ ms[p].role = "calls" =>
                \A c \in ms[p].calls : \E q \in p + 1 .. Len(ms) :
                  ms[q].calls = {c} /\ \A b \in p + 1 .. q : ms[b].role = "tool"

(* The question after the history, and rounds of tool calls after it, are one. *)
LEMMA Asked ==
  ASSUME NEW h \in Seq(Messages), Len(h) % 2 = 0, NEW n \in Nat,
         \A p \in 1 .. Len(h) :
           h[p].role = (IF p % 2 = 1 THEN "user" ELSE "assistant") /\ h[p].turn < n,
         NEW e \in Seq(Messages), Rounds(e), NEW offered, e # <<>> => offered
  PROVE  Conversation((h \o <<CC!Said("user", n)>>) \o e, n, offered)
<1> DEFINE u == CC!Said("user", n)
           q == (h \o <<u>>) \o e
           users == {p \in DOMAIN q : q[p].role = "user" /\ q[p].turn = n}
           asked == CC!First(users)
<1>1. Len(h) \in Nat /\ Len(e) \in Nat
  BY LenProperties
<1>2. u \in Messages /\ u.role = "user" /\ u.turn = n
  BY DEF CC!Said, Messages
<1> HIDE DEF u
<1>3. <<u>> \in Seq(Messages) /\ Len(<<u>>) = 1 /\ <<u>>[1] = u
  BY <1>2
<1>4. /\ h \o <<u>> \in Seq(Messages) /\ Len(h \o <<u>>) = Len(h) + 1
      /\ \A p \in 1 .. Len(h) : (h \o <<u>>)[p] = h[p]
      /\ (h \o <<u>>)[Len(h) + 1] = u
  BY <1>3, Joined
<1>5. /\ q \in Seq(Messages) /\ Len(q) = Len(h) + 1 + Len(e)
      /\ \A p \in 1 .. Len(h) + 1 : q[p] = (h \o <<u>>)[p]
      /\ \A j \in 1 .. Len(e) : q[Len(h) + 1 + j] = e[j]
  BY <1>4, Joined
<1>6. DOMAIN q = 1 .. Len(q)
  BY <1>5, LenProperties
<1>7. (\A p \in 1 .. Len(h) : q[p] = h[p]) /\ q[Len(h) + 1] = u
  BY <1>1, <1>4, <1>5
<1> HIDE DEF q
<1>8. users \subseteq Nat /\ Len(h) + 1 \in users /\ \A p \in 1 .. Len(h) : p \notin users
  <2>1. DOMAIN q \subseteq Nat /\ Len(h) + 1 \in DOMAIN q
    BY <1>1, <1>5, <1>6
  <2>2. ASSUME NEW p \in 1 .. Len(h) PROVE p \notin users
    <3>1. h[p] \in Messages
      BY ElementOfSeq
    <3>2. h[p].turn < n /\ h[p].turn \in Nat
      BY <3>1 DEF Messages
    <3> QED BY <1>7, <3>2
  <2> QED BY <1>2, <1>7, <2>1, <2>2
<1> HIDE DEF users
<1>9. asked = Len(h) + 1
  <2>1. asked \in users /\ \A p \in users : asked <= p
    BY <1>8, FirstIs
  <2>2. asked \in Nat /\ asked <= Len(h) + 1 /\ asked \notin 1 .. Len(h) /\ asked # 0
    BY <1>6, <1>8, <2>1 DEF users
  <2> QED BY <1>1, <2>2
<1> HIDE DEF asked
<1>10. asked % 2 = 1
  BY <1>1, <1>9, Parity
<1>11. \A p \in 1 .. asked : q[p].role = IF p % 2 = 1 THEN "user" ELSE "assistant"
  <2>1. \A p \in 1 .. asked : p \in 1 .. Len(h) \/ p = asked
    BY <1>1, <1>9
  <2> QED BY <1>2, <1>7, <1>9, <1>10, <2>1
<1>12. ASSUME NEW p \in asked + 1 .. Len(q)
       PROVE  /\ q[p].role \in {"calls", "tool"} /\ offered
              /\ q[p].role = "calls" =>
                   \A c \in q[p].calls : \E r \in p + 1 .. Len(q) :
                     q[r].calls = {c} /\ \A b \in p + 1 .. r : q[b].role = "tool"
  <2> DEFINE j == p - asked
  <2>1. j \in 1 .. Len(e) /\ p = Len(h) + 1 + j
    BY <1>1, <1>5, <1>9
  <2>2. q[p] = e[j] /\ offered
    <3>1. e # <<>>
      BY <2>1, EmptySeq
    <3> QED BY <1>5, <2>1, <3>1
  <2>3. /\ e[j].role \in {"calls", "tool"}
        /\ e[j].role = "calls" =>
             \A c \in e[j].calls : \E i \in j + 1 .. Len(e) :
               e[i].calls = {c} /\ \A b \in j + 1 .. i : e[b].role = "tool"
    BY <2>1 DEF Rounds
  <2> HIDE DEF j
  <2>4. ASSUME q[p].role = "calls", NEW c \in q[p].calls
        PROVE  \E r \in p + 1 .. Len(q) :
                 q[r].calls = {c} /\ \A b \in p + 1 .. r : q[b].role = "tool"
    <3>1. PICK i \in j + 1 .. Len(e) :
            e[i].calls = {c} /\ \A b \in j + 1 .. i : e[b].role = "tool"
      BY <2>2, <2>3, <2>4
    <3>2. Len(h) + 1 + i \in p + 1 .. Len(q) /\ i \in 1 .. Len(e)
      BY <1>1, <1>5, <2>1
    <3>3. ASSUME NEW b \in p + 1 .. Len(h) + 1 + i PROVE q[b].role = "tool"
      <4> DEFINE k == b - Len(h) - 1
      <4>1. k \in j + 1 .. i /\ Len(h) + 1 + k = b /\ k \in 1 .. Len(e)
        BY <1>1, <2>1, <3>2
      <4> HIDE DEF k
      <4>2. e[k].role = "tool"
        BY <3>1, <4>1
      <4>3. q[Len(h) + 1 + k] = e[k]
        BY <1>5, <4>1
      <4> QED BY <4>1, <4>2, <4>3
    <3> QED BY <1>5, <3>1, <3>2, <3>3
  <2> QED BY <2>2, <2>3, <2>4
<1>13. Conversation(q, n, offered)
  BY <1>10, <1>11, <1>12, Zenon DEF Conversation, asked, users
<1> QED BY <1>13 DEF q, u

(* Without its first message. *)
LEMMA TailIs ==
  ASSUME NEW m \in Messages, NEW s \in Seq(Messages)
  PROVE  (<<m>> \o s)[1] = m /\ Tail(<<m>> \o s) = s
<1> DEFINE f == <<m>> \o s
<1>1. <<m>> \in Seq(Messages) /\ Len(<<m>>) = 1 /\ <<m>>[1] = m /\ Len(s) \in Nat
  BY LenProperties
<1>2. /\ f \in Seq(Messages) /\ Len(f) = 1 + Len(s)
      /\ f[1] = m /\ \A p \in 1 .. Len(s) : f[1 + p] = s[p]
  BY <1>1, Joined
<1> HIDE DEF f
<1>3. f # <<>>
  BY <1>1, <1>2, EmptySeq
<1>4. /\ Tail(f) \in Seq(Messages) /\ Len(Tail(f)) = Len(f) - 1
      /\ \A p \in 1 .. Len(Tail(f)) : Tail(f)[p] = f[p + 1]
  BY <1>2, <1>3, HeadTailProperties
<1>5. Len(Tail(f)) = Len(s) /\ \A p \in 1 .. Len(s) : Tail(f)[p] = s[p]
  BY <1>1, <1>2, <1>4
<1>6. Tail(f) = s
  BY <1>4, <1>5, SeqEqual
<1> QED BY <1>2, <1>6 DEF f

(* Every request is a conversation the API accepts. *)
LEMMA RequestsWellFormed == ChatInv => CC!RequestWellFormed
<1> SUFFICES ASSUME ChatInv, talk.pc = "request"
             PROVE  Conversation(IF talk.messages[1].role = "system" THEN Tail(talk.messages)
                                 ELSE talk.messages, talk.turn, talk.supported)
  BY DEF CC!RequestWellFormed, Conversation
<1>1. history \in Seq(Messages) /\ CC!HistoryPaired /\ TalkOK(talk) /\ talk.turn \in Nat
      /\ \A p \in DOMAIN history : history[p].turn < talk.turn
  BY DEF ChatInv
<1>2. PICK prefix \in Prefixes :
        talk.initial = prefix \o history \o <<CC!Said("user", talk.turn)>>
  BY <1>1 DEF TalkOK
<1>3. PICK e \in Seq(Messages) :
        Rounds(e) /\ talk.messages = talk.initial \o e /\ (e # <<>> => talk.supported)
  BY <1>1 DEF TalkOK
<1> DEFINE u == CC!Said("user", talk.turn)
           hu == history \o <<u>>
           q == hu \o e
<1>4. DOMAIN history = 1 .. Len(history) /\ Len(history) \in Nat
  BY <1>1, LenProperties
<1>5. Conversation(q, talk.turn, talk.supported)
  <2>1. Len(history) % 2 = 0
        /\ \A p \in 1 .. Len(history) :
             /\ history[p].role = (IF p % 2 = 1 THEN "user" ELSE "assistant")
             /\ history[p].turn < talk.turn
    BY <1>1, <1>4 DEF CC!HistoryPaired
  <2> QED BY <1>1, <1>3, <2>1, Asked
<1>6. u \in Messages /\ u.role = "user" /\ CC!Said("system", 0) \in Messages
      /\ CC!Said("system", 0).role = "system"
  BY <1>1 DEF CC!Said, Messages
<1> HIDE DEF u
<1>7. /\ <<u>> \in Seq(Messages) /\ Len(<<u>>) = 1 /\ <<u>>[1] = u
      /\ <<CC!Said("system", 0)>> \in Seq(Messages)
  BY <1>6
<1>8. hu \in Seq(Messages) /\ Len(hu) = Len(history) + 1 /\ hu[Len(history) + 1] = u
      /\ \A p \in 1 .. Len(history) : hu[p] = history[p]
  BY <1>1, <1>7, Joined
<1> HIDE DEF hu
<1>9. hu[1].role = "user"
  <2>1. CASE Len(history) = 0
    BY <1>6, <1>8, <2>1
  <2>2. CASE Len(history) # 0
    <3>1. 1 \in 1 .. Len(history) /\ 1 % 2 = 1
      BY <1>4, <2>2
    <3> QED BY <1>1, <1>4, <1>8, <3>1 DEF CC!HistoryPaired
  <2> QED BY <2>1, <2>2
<1>10. q \in Seq(Messages) /\ q[1].role = "user"
  <2>1. q \in Seq(Messages) /\ \A p \in 1 .. Len(hu) : q[p] = hu[p]
    BY <1>8, Joined
  <2>2. 1 \in 1 .. Len(hu)
    BY <1>4, <1>8
  <2> QED BY <1>9, <2>1, <2>2
<1>11. CASE prefix = <<>>
  <2>1. <<>> \o history = history
    BY <1>1, ConcatEmptySeq
  <2>2. talk.messages = q
    BY <1>2, <1>3, <1>11, <2>1 DEF hu, u
  <2> HIDE DEF q
  <2> QED BY <1>5, <1>10, <2>2
<1>12. CASE prefix = <<CC!Said("system", 0)>>
  <2> DEFINE s == CC!Said("system", 0)
  <2>1. (<<s>> \o history) \o <<u>> = <<s>> \o hu
    BY <1>1, <1>7, ConcatAssociative DEF hu
  <2>2. (<<s>> \o hu) \o e = <<s>> \o q
    BY <1>7, <1>8, ConcatAssociative
  <2>3. talk.messages = <<s>> \o q
    BY <1>2, <1>3, <1>12, <2>1, <2>2 DEF u
  <2> HIDE DEF q, s
  <2>4. (<<s>> \o q)[1] = s /\ Tail(<<s>> \o q) = q
    BY <1>6, <1>10, TailIs DEF s
  <2>5. s.role = "system"
    BY <1>6 DEF s
  <2> QED BY <1>5, <2>3, <2>4, <2>5
<1> QED BY <1>2, <1>11, <1>12 DEF Prefixes

(* The invariant speaks of what was said, asked, shown and transferred only. *)
LEMMA ChatStays ==
  ASSUME ChatInv, UNCHANGED <<history, talk, shownText, transfer>>
  PROVE  ChatInv'
<1>1. TalkOK(talk)' <=> TalkOK(talk)
  BY DEF TalkOK
<1>2. CC!HistoryPaired' /\ CC!ShownInFull' /\ CC!NoFalseSuccess'
  <2>1. CC!HistoryPaired /\ CC!ShownInFull /\ CC!NoFalseSuccess
    BY DEF ChatInv
  <2> QED BY <2>1 DEF CC!HistoryPaired, CC!ShownInFull, CC!NoFalseSuccess
<1> QED BY <1>1, <1>2 DEF ChatInv

(* A message that fails leaves no trace: the history has no message of its turn. *)
LEMMA MessageFails ==
  ASSUME ChatInv, talk.pc # "prompt", talk' = CC!NoTalk(talk.turn),
         UNCHANGED <<history, shownText, transfer>>
  PROVE  ChatInv'
<1>1. talk'.pc = "prompt" /\ talk'.turn = talk.turn
  BY DEF CC!NoTalk
<1>2. history \in Seq(Messages) /\ talk.turn \in Nat
      /\ \A p \in DOMAIN history : history[p].turn < talk.turn
  BY DEF ChatInv
<1>3. CC!ShownInFull'
  <2>1. ASSUME history # <<>> PROVE CC!Last(history).turn # talk.turn
    <3>1. Len(history) \in DOMAIN history /\ CC!Last(history) = history[Len(history)]
      BY <1>2, <2>1, EmptySeq, LenProperties DEF CC!Last
    <3>2. history[Len(history)] \in Messages /\ history[Len(history)].turn < talk.turn
      BY <1>2, <3>1, ElementOfSeq, LenProperties
    <3>3. history[Len(history)].turn \in Nat
      BY <3>2 DEF Messages
    <3> QED BY <1>2, <3>1, <3>2, <3>3
  <2> QED BY <1>1, <2>1 DEF CC!ShownInFull
<1>4. CC!HistoryPaired' /\ CC!NoFalseSuccess'
  <2>1. CC!HistoryPaired /\ CC!NoFalseSuccess
    BY DEF ChatInv
  <2> QED BY <2>1 DEF CC!HistoryPaired, CC!NoFalseSuccess
<1>5. \A p \in DOMAIN history' : history'[p].turn <= talk'.turn
  <2>1. ASSUME NEW p \in DOMAIN history PROVE history[p].turn \in Nat
    <3>1. history[p] \in Messages
      BY <1>2, ElementOfSeq, LenProperties
    <3> QED BY <3>1 DEF Messages
  <2> QED BY <1>1, <1>2, <2>1
<1> QED BY <1>1, <1>2, <1>3, <1>4, <1>5 DEF ChatInv

(* A message in progress goes on. *)
LEMMA MessageGoesOn ==
  ASSUME ChatInv, talk.pc # "prompt", TalkOK(talk)', talk'.turn = talk.turn,
         talk'.pc \in {"request", "stream"}, TextOK(shownText)', UNCHANGED <<history, transfer>>
  PROVE  ChatInv'
<1>1. CC!HistoryPaired' /\ CC!NoFalseSuccess'
  <2>1. CC!HistoryPaired /\ CC!NoFalseSuccess
    BY DEF ChatInv
  <2> QED BY <2>1 DEF CC!HistoryPaired, CC!NoFalseSuccess
<1>2. CC!ShownInFull'
  BY DEF CC!ShownInFull
<1> QED BY <1>1, <1>2 DEF ChatInv

(* A line that is sent begins a message after the history. *)
LEMMA LineSent ==
  ASSUME ChatInv, NEW kind, CC!Line(kind)
  PROVE  ChatInv'
<1>1. CASE UNCHANGED <<talk, shownText>>
  BY <1>1, ChatStays DEF CC!Line
<1>2. CASE ~UNCHANGED <<talk, shownText>>
  <2> DEFINE prefix == IF system THEN <<CC!Said("system", 0)>> ELSE <<>>
             u == CC!Said("user", talk.turn + 1)
             asking == prefix \o history \o <<u>>
  <2>1. /\ talk.pc = "prompt"
        /\ talk' = [pc |-> "request", turn |-> talk.turn + 1, messages |-> asking, initial |-> asking,
                    tools |-> KnownTools, supported |-> KnownTools # {}, rounds |-> 0,
                    answer |-> <<>>, rest |-> <<>>, pending |-> {}, finish |-> ""]
        /\ shownText' = CC!NoText /\ UNCHANGED <<history, transfer>>
    BY <1>2 DEF CC!Line
  <2>2. history \in Seq(Messages) /\ talk.turn \in Nat
        /\ \A p \in DOMAIN history : history[p].turn <= talk.turn
    BY <2>1 DEF ChatInv
  <2>3. prefix \in Prefixes /\ prefix \in Seq(Messages) /\ <<u>> \in Seq(Messages)
    <3>1. CC!Said("system", 0) \in Messages /\ u \in Messages
      BY <2>2 DEF CC!Said, Messages
    <3> HIDE DEF u
    <3> QED BY <3>1, EmptySeq DEF Prefixes
  <2> HIDE DEF prefix, u
  <2>4. asking \in Seq(Messages)
    <3>1. prefix \o history \in Seq(Messages)
      BY <2>2, <2>3, ConcatProperties
    <3> QED BY <2>3, <3>1, ConcatProperties
  <2>5. asking \o <<>> = asking /\ <<>> \in Seq(Messages)
    <3> HIDE DEF asking
    <3> QED BY <2>4, ConcatEmptySeq, EmptySeq
  <2>6. /\ talk'.pc = "request" /\ talk'.turn = talk.turn + 1 /\ talk'.initial = asking
        /\ talk'.messages = asking /\ DOMAIN talk' = Fields
        /\ talk'.pending = {} /\ talk'.rest = <<>> /\ talk'.tools = KnownTools
        /\ talk'.supported = (KnownTools # {})
    <3> HIDE DEF asking
    <3> QED BY <2>1 DEF Fields
  <2>7. \E e \in Seq(Messages) :
          Rounds(e) /\ talk'.messages = talk'.initial \o e /\ (e # <<>> => talk'.supported)
    <3>1. Rounds(<<>>)
      BY EmptySeq DEF Rounds
    <3> HIDE DEF asking
    <3> QED BY <2>5, <2>6, <3>1
  <2>8. \E p \in Prefixes : talk'.initial = p \o history' \o <<CC!Said("user", talk'.turn)>>
    BY <2>1, <2>3, <2>6 DEF u
  <2> HIDE DEF asking
  <2>9. TalkOK(talk)'
    <3>1. IsFiniteSet(talk'.pending) /\ talk'.pending \subseteq Parts
      BY <2>6, FS_EmptySet
    <3>2. talk'.rest \in Seq(Chunks) /\ talk'.turn \in Nat
      BY <2>2, <2>6, EmptySeq
    <3>3. talk'.tools # {} => talk'.supported
      BY <2>6
    <3> QED BY <2>6, <2>7, <2>8, <3>1, <3>2, <3>3 DEF TalkOK
  <2>10. \A p \in DOMAIN history' : history'[p].turn <= talk'.turn /\ history'[p].turn < talk'.turn
    <3>1. ASSUME NEW p \in DOMAIN history PROVE history[p].turn \in Nat
      <4>1. history[p] \in Messages
        BY <2>2, ElementOfSeq, LenProperties
      <4> QED BY <4>1 DEF Messages
    <3>2. UNCHANGED history
      BY <2>1
    <3>3. ASSUME NEW p \in DOMAIN history
          PROVE  history[p].turn <= talk'.turn /\ history[p].turn < talk'.turn
      <4>1. history[p].turn \in Nat /\ history[p].turn <= talk.turn /\ talk.turn \in Nat
        BY <2>2, <3>1
      <4>2. talk'.turn = talk.turn + 1
        BY <2>6
      <4> QED BY <4>1, <4>2
    <3> QED BY <3>2, <3>3
  <2>11. TextOK(shownText)'
    <3>1. shownText' = [text |-> <<>>, flushed |-> 0, inCode |-> FALSE, shown |-> <<>>]
      BY <2>1 DEF CC!NoText
    <3>2. <<>> \in Seq(CC!Pieces) /\ Len(<<>>) = 0 /\ SubSeq(<<>>, 1, 0) = <<>>
      BY EmptySeq, SubSeqEmpty
    <3> QED BY <3>1, <3>2 DEF TextOK, IsText
  <2>12. CC!HistoryPaired' /\ CC!NoFalseSuccess' /\ CC!ShownInFull'
    <3>1. CC!HistoryPaired /\ CC!NoFalseSuccess
      BY DEF ChatInv
    <3> QED BY <2>1, <2>6, <3>1 DEF CC!HistoryPaired, CC!NoFalseSuccess, CC!ShownInFull
  <2>13. history' \in Seq(Messages) /\ talk'.turn \in Nat /\ talk'.pc = "request"
    <3>1. UNCHANGED history
      BY <2>1
    <3>2. talk'.turn \in Nat /\ talk'.pc = "request"
      BY <2>2, <2>6
    <3> QED BY <2>2, <3>1, <3>2
  <2> QED BY <2>9, <2>10, <2>11, <2>12, <2>13 DEF ChatInv
<1> QED BY <1>1, <1>2

(* What a message asks is a sequence of messages. *)
LEMMA InitialOK ==
  ASSUME history \in Seq(Messages), TalkOK(talk)
  PROVE  talk.initial \in Seq(Messages)
<1>1. PICK prefix \in Prefixes :
        talk.initial = prefix \o history \o <<CC!Said("user", talk.turn)>>
  BY DEF TalkOK
<1>2. talk.turn \in Nat
  BY DEF TalkOK
<1>3. CC!Said("system", 0) \in Messages /\ CC!Said("user", talk.turn) \in Messages
  BY <1>2 DEF CC!Said, Messages
<1> DEFINE u == CC!Said("user", talk.turn)
           s == CC!Said("system", 0)
<1> HIDE DEF u, s
<1>4. <<u>> \in Seq(Messages) /\ <<s>> \in Seq(Messages) /\ <<>> \in Seq(Messages)
  BY <1>3, EmptySeq DEF u, s
<1>5. prefix \in Seq(Messages)
  BY <1>4 DEF Prefixes, s
<1>6. prefix \o history \in Seq(Messages)
  BY <1>5, ConcatProperties
<1>7. (prefix \o history) \o <<u>> \in Seq(Messages)
  BY <1>4, <1>6, ConcatProperties
<1> QED BY <1>1, <1>7 DEF u

(* A chunk of an answer. *)
LEMMA ChunkOK ==
  ASSUME CC!ChatAssumption, NEW c \in Chunks, c.kind = "content"
  PROVE  c.text \in Seq(CC!Pieces)
<1>1. PICK r \in Replies : c \in CC!ToSet(r.chunks)
  BY DEF Chunks
<1> QED BY <1>1 DEF CC!ChatAssumption

(* A request is answered, asked again without the tools, or fails. *)
LEMMA RequestMade ==
  ASSUME CC!ChatAssumption, ChatInv, NEW r \in Replies, CC!Request(r)
  PROVE  ChatInv'
<1>1. talk.pc = "request" /\ TalkOK(talk) /\ UNCHANGED <<history, shownText, transfer>>
      /\ TextOK(shownText)
  BY DEF CC!Request, ChatInv
<1>2. TextOK(shownText)'
  BY <1>1
<1>3. CASE talk' = [talk EXCEPT !.pc = "stream", !.rest = r.chunks, !.pending = {}, !.finish = ""]
           /\ (CC!Calls(r) => talk.tools # {})
  <2>1. /\ DOMAIN talk' = Fields /\ talk'.pc = "stream" /\ talk'.rest = r.chunks
        /\ talk'.pending = {}
        /\ talk'.turn = talk.turn /\ talk'.initial = talk.initial /\ talk'.messages = talk.messages
        /\ talk'.tools = talk.tools /\ talk'.supported = talk.supported
    BY <1>1, <1>3 DEF TalkOK, Fields
  <2>2. r.chunks \in Seq(CC!ToSet(r.chunks)) /\ CC!ToSet(r.chunks) \subseteq Chunks
    BY DEF CC!ChatAssumption, Chunks
  <2>3. r.chunks \in Seq(Chunks)
    BY <2>2, SeqMonotonic
  <2>4. talk.tools = {} => \A i \in DOMAIN r.chunks : r.chunks[i].kind # "tool"
    BY <1>3 DEF CC!Calls, CC!ToSet
  <2>5. TalkOK(talk)'
    BY <1>1, <2>1, <2>3, <2>4, FS_EmptySet DEF TalkOK
  <2> QED BY <1>1, <1>2, <2>1, <2>5, MessageGoesOn
<1>4. CASE talk' = [talk EXCEPT !.tools = {}, !.supported = FALSE, !.messages = CC!FallbackMessages,
                                !.answer = <<>>]
  <2>1. /\ DOMAIN talk' = Fields /\ talk'.pc = "request" /\ talk'.rest = talk.rest
        /\ talk'.pending = talk.pending
        /\ talk'.turn = talk.turn /\ talk'.initial = talk.initial /\ talk'.messages = talk.initial
        /\ talk'.tools = {} /\ talk'.supported = FALSE
    BY <1>1, <1>4 DEF TalkOK, Fields, CC!FallbackMessages
  <2>2. talk.initial \o <<>> = talk.initial
    <3>1. talk.initial \in Seq(Messages)
      BY <1>1, InitialOK DEF ChatInv
    <3> QED BY <3>1, ConcatEmptySeq
  <2>3. Rounds(<<>>) /\ <<>> \in Seq(Messages)
    BY EmptySeq DEF Rounds
  <2>4. \E e \in Seq(Messages) :
          Rounds(e) /\ talk'.messages = talk'.initial \o e /\ (e # <<>> => talk'.supported)
    BY <2>1, <2>2, <2>3
  <2>5. TalkOK(talk)'
    BY <1>1, <2>1, <2>4 DEF TalkOK
  <2> QED BY <1>1, <1>2, <2>1, <2>5, MessageGoesOn
<1>5. CASE CC!Failed
  BY <1>1, <1>5, MessageFails DEF CC!Failed
<1> QED BY <1>3, <1>4, <1>5 DEF CC!Request

(* An event of the stream: text is added and shown, or a call is noted. *)
LEMMA EventComes ==
  ASSUME CC!ChatAssumption, ChatInv, CC!Event
  PROVE  ChatInv'
<1> DEFINE c == Head(talk.rest)
<1>1. /\ talk.pc = "stream" /\ talk.rest # <<>> /\ UNCHANGED <<history, transfer>>
      /\ talk' = [talk EXCEPT !.rest = Tail(@),
           !.answer = IF c.kind = "content" THEN @ \o c.text ELSE @,
           !.pending = IF c.kind = "tool" THEN @ \cup {[index |-> c.index, name |-> c.name]} ELSE @,
           !.finish = IF c.kind = "finish" THEN c.reason ELSE @]
      /\ shownText' = IF c.kind = "content" THEN CC!Added(shownText, c.text) ELSE shownText
  BY DEF CC!Event
<1>2. TalkOK(talk) /\ TextOK(shownText)
  BY <1>1 DEF ChatInv
<1>3. /\ talk.rest \in Seq(Chunks) /\ talk.pending \subseteq Parts /\ IsFiniteSet(talk.pending)
      /\ DOMAIN talk = Fields
  BY <1>2 DEF TalkOK
<1>4. c \in Chunks /\ Tail(talk.rest) \in Seq(Chunks)
  BY <1>1, <1>3, HeadTailProperties
<1>5. talk.rest[1] = c /\ \A i \in DOMAIN Tail(talk.rest) : Tail(talk.rest)[i] = talk.rest[i + 1]
                                                    /\ i + 1 \in DOMAIN talk.rest
  <2>1. /\ Len(Tail(talk.rest)) = Len(talk.rest) - 1
        /\ \A i \in 1 .. Len(Tail(talk.rest)) : Tail(talk.rest)[i] = talk.rest[i + 1]
    BY <1>1, <1>3, HeadTailProperties
  <2>2. DOMAIN talk.rest = 1 .. Len(talk.rest) /\ Len(talk.rest) \in Nat \ {0}
    BY <1>1, <1>3, EmptySeq, LenProperties
  <2>3. DOMAIN Tail(talk.rest) = 1 .. Len(Tail(talk.rest))
    BY <1>4, LenProperties
  <2>4. talk.rest[1] = c
    BY <1>3
  <2> QED BY <2>1, <2>2, <2>3, <2>4
<1>6. 1 \in DOMAIN talk.rest
  <2>1. DOMAIN talk.rest = 1 .. Len(talk.rest) /\ Len(talk.rest) \in Nat \ {0}
    BY <1>1, <1>3, EmptySeq, LenProperties
  <2> QED BY <2>1
<1> HIDE DEF c
<1>7. /\ DOMAIN talk' = Fields /\ talk'.pc = "stream" /\ talk'.turn = talk.turn
      /\ talk'.initial = talk.initial /\ talk'.messages = talk.messages
      /\ talk'.tools = talk.tools /\ talk'.supported = talk.supported
      /\ talk'.rest = Tail(talk.rest)
      /\ talk'.pending = IF c.kind = "tool"
                         THEN talk.pending \cup {[index |-> c.index, name |-> c.name]}
                         ELSE talk.pending
  BY <1>1, <1>3 DEF Fields
<1>8. talk'.pending \subseteq Parts /\ IsFiniteSet(talk'.pending)
  <2>1. [index |-> c.index, name |-> c.name] \in Parts
    BY <1>4 DEF Parts
  <2>2. IsFiniteSet(talk.pending \cup {[index |-> c.index, name |-> c.name]})
    BY <1>3, FS_AddElement
  <2> QED BY <1>3, <1>7, <2>1, <2>2
<1>9. talk'.tools = {} =>
        talk'.pending = {} /\ \A i \in DOMAIN talk'.rest : talk'.rest[i].kind # "tool"
  <2>1. SUFFICES ASSUME talk.tools = {}
                 PROVE  /\ talk'.pending = {}
                        /\ \A i \in DOMAIN talk'.rest : talk'.rest[i].kind # "tool"
    BY <1>7
  <2>2. talk.pending = {} /\ \A i \in DOMAIN talk.rest : talk.rest[i].kind # "tool"
    BY <1>1, <1>2, <2>1 DEF TalkOK
  <2>3. c.kind # "tool"
    BY <1>5, <1>6, <2>2
  <2> QED BY <1>5, <1>7, <2>2, <2>3
<1>10. TalkOK(talk)'
  BY <1>1, <1>2, <1>4, <1>7, <1>8, <1>9 DEF TalkOK
<1>11. TextOK(shownText)'
  <2>1. CASE c.kind = "content"
    <3>1. c.text \in Seq(CC!Pieces)
      BY <1>4, <2>1, ChunkOK
    <3>2. TextOK(CC!Added(shownText, c.text))
      BY <1>2, <3>1, AddedIs
    <3>3. shownText' = CC!Added(shownText, c.text)
      BY <1>1, <2>1
    <3> QED BY <3>2, <3>3
  <2>2. CASE c.kind # "content"
    BY <1>1, <1>2, <2>2
  <2> QED BY <2>1, <2>2
<1> QED BY <1>1, <1>7, <1>10, <1>11, MessageGoesOn

(* The model called tools: the request that follows has a round more. *)
LEMMA ToolsCalled ==
  ASSUME ChatInv, CC!ToolRound
  PROVE  ChatInv'
<1>1. /\ talk.pc = "stream" /\ TalkOK(talk) /\ UNCHANGED <<history, shownText, transfer>>
      /\ TextOK(shownText) /\ talk.pending # {} /\ history \in Seq(Messages)
  BY DEF CC!ToolRound, CC!Over, CC!Called, ChatInv
<1>2. CASE CC!Failed
  BY <1>1, <1>2, MessageFails DEF CC!Failed
<1>3. CASE ~CC!Failed
  <2> DEFINE m == [role |-> "calls", turn |-> talk.turn, calls |-> CC!Made]
             t == Results(talk.turn, CC!Made)
  <2>1. talk' = [talk EXCEPT !.pc = "request", !.rounds = @ + 1, !.answer = <<>>, !.rest = <<>>,
                   !.messages = @ \o <<m>> \o t]
    BY <1>3 DEF CC!ToolRound, CC!Answered, Results
  <2>2. /\ CC!Made \subseteq Parts /\ IsFiniteSet(CC!Made) /\ talk.turn \in Nat
    <3>1. CC!Made \subseteq talk.pending
      BY DEF CC!Made
    <3> QED BY <1>1, <3>1, FS_Subset DEF TalkOK
  <2>3. m \in Messages /\ m.role = "calls" /\ m.calls = CC!Made
    BY <2>2 DEF Messages
  <2>4. /\ t \in Seq(Messages) /\ \A j \in 1 .. Len(t) : t[j].role = "tool"
        /\ \A c \in m.calls : \E j \in 1 .. Len(t) : t[j].calls = {c}
    <3> HIDE DEF m, t
    <3> DEFINE u == Results(talk.turn, CC!Made)
    <3>1. u \in Seq(Messages)
      BY <2>2, ResultsAre
    <3>2. \A j \in 1 .. Len(u) : u[j].role = "tool"
      BY <2>2, ResultsAre
    <3>3. \A c \in CC!Made : \E j \in 1 .. Len(u) : u[j].calls = {c}
      BY <2>2, ResultsAre
    <3> HIDE DEF u
    <3>4. t = u
      BY DEF t, u
    <3> QED BY <2>3, <3>1, <3>2, <3>3, <3>4
  <2> HIDE DEF m, t
  <2>5. PICK e \in Seq(Messages) :
          Rounds(e) /\ talk.messages = talk.initial \o e /\ (e # <<>> => talk.supported)
    BY <1>1 DEF TalkOK
  <2>6. e \o <<m>> \o t \in Seq(Messages) /\ Rounds(e \o <<m>> \o t)
    BY <2>3, <2>4, <2>5, RoundMore
  <2>7. (talk.messages \o <<m>>) \o t = talk.initial \o (e \o <<m>> \o t)
    <3> DEFINE l == <<m>>
               a == talk.initial
    <3>1. a \in Seq(Messages)
      BY <1>1, InitialOK
    <3>2. l \in Seq(Messages)
      BY <2>3
    <3>3. t \in Seq(Messages)
      BY <2>4
    <3> HIDE DEF l, a
    <3>4. ((a \o e) \o l) \o t = a \o (e \o l \o t)
      <4>1. (a \o e) \o l = a \o (e \o l)
        BY <3>1, <3>2, ConcatAssociative, SMTT(60)
      <4>2. e \o l \in Seq(Messages)
        BY <3>2, ConcatProperties
      <4>3. (a \o (e \o l)) \o t = a \o ((e \o l) \o t)
        <5> DEFINE k == e \o l
        <5>1. k \in Seq(Messages)
          BY <4>2
        <5> HIDE DEF k
        <5>2. (a \o k) \o t = a \o (k \o t)
          BY <3>1, <3>3, <5>1, ConcatAssociative, SMTT(60)
        <5> QED BY <5>2 DEF k
      <4> QED BY <4>1, <4>3
    <3> QED BY <2>5, <3>4 DEF l, a
  <2> DEFINE longer == e \o <<m>> \o t
             all == (talk.messages \o <<m>>) \o t
  <2>8. longer \in Seq(Messages) /\ Rounds(longer) /\ all = talk.initial \o longer
    BY <2>6, <2>7
  <2>9. talk' = [talk EXCEPT !.pc = "request", !.rounds = @ + 1, !.answer = <<>>, !.rest = <<>>,
                   !.messages = all]
    BY <2>1
  <2> HIDE DEF longer, all
  <2>10. /\ DOMAIN talk' = Fields /\ talk'.pc = "request" /\ talk'.turn = talk.turn
         /\ talk'.initial = talk.initial /\ talk'.messages = all
         /\ talk'.tools = talk.tools /\ talk'.supported = talk.supported
         /\ talk'.rest = <<>> /\ talk'.pending = talk.pending
    BY <1>1, <2>9 DEF TalkOK, Fields
  <2>11. talk.supported
    BY <1>1 DEF TalkOK
  <2>12. \E f \in Seq(Messages) :
           Rounds(f) /\ talk'.messages = talk'.initial \o f /\ (f # <<>> => talk'.supported)
    BY <2>8, <2>10, <2>11
  <2>13. talk'.rest \in Seq(Chunks)
    BY <2>10, EmptySeq
  <2>14. TalkOK(talk)'
    BY <1>1, <2>10, <2>12, <2>13 DEF TalkOK
  <2> QED BY <1>1, <2>10, <2>14, MessageGoesOn
<1> QED BY <1>2, <1>3

(* The answer goes into the history with its question, and all of it is shown. *)
LEMMA AnswerComes ==
  ASSUME ChatInv, CC!Answer
  PROVE  ChatInv'
<1>1. /\ talk.pc = "stream" /\ talk' = CC!NoTalk(talk.turn) /\ UNCHANGED transfer
      /\ history' = history \o <<CC!Said("user", talk.turn), CC!Said("assistant", talk.turn)>>
      /\ shownText' = CC!Flush(shownText)
  BY DEF CC!Answer, CC!Over, CC!HistoryAfter, CC!Remembered
<1>2. /\ history \in Seq(Messages) /\ CC!HistoryPaired /\ talk.turn \in Nat
      /\ \A p \in DOMAIN history : history[p].turn < talk.turn
      /\ TextOK(shownText) /\ CC!NoFalseSuccess
  BY <1>1 DEF ChatInv
<1>3. talk'.pc = "prompt" /\ talk'.turn = talk.turn
  BY <1>1 DEF CC!NoTalk
<1>4. /\ history' \in Seq(Messages) /\ CC!HistoryPaired'
      /\ \A p \in DOMAIN history' : history'[p].turn <= talk.turn
  BY <1>1, <1>2, PairMore
<1>5. TextOK(shownText)' /\ shownText'.shown = shownText'.text
  <2>1. TextOK(CC!Flush(shownText)) /\ CC!Flush(shownText).shown = CC!Flush(shownText).text
    BY <1>2, FlushIs
  <2> QED BY <1>1, <2>1
<1>6. CC!NoFalseSuccess' /\ CC!ShownInFull'
  BY <1>1, <1>2, <1>5 DEF CC!NoFalseSuccess, CC!ShownInFull
<1> QED BY <1>2, <1>3, <1>4, <1>5, <1>6 DEF ChatInv

(* Transfers disturb nothing that was said, and end well only if the stream did. *)
LEMMA TransferMoves ==
  ASSUME ChatInv, CC!TransferStart \/ \E s \in Streams : CC!Attempt(s)
  PROVE  ChatInv'
<1>1. UNCHANGED <<history, talk, shownText>>
  BY DEF CC!TransferStart, CC!Attempt
<1>2. CC!NoFalseSuccess'
  <2>1. CASE CC!TransferStart
    <3>1. transfer'.pc = "attempt"
      BY <2>1 DEF CC!TransferStart
    <3> QED BY <3>1 DEF CC!NoFalseSuccess
  <2>2. ASSUME NEW s \in Streams, CC!Attempt(s), transfer'.pc = "succeeded"
        PROVE  "error" \notin CC!ToSet(transfer'.last) /\ CC!ToSet(transfer'.last) # {"garbage"}
    <3>1. /\ transfer'.last = s.lines
          /\ transfer'.pc = CASE CC!Outcome(s) = "ok" -> "succeeded"
                              [] CC!Outcome(s) = "transient" /\ transfer.attempt < Attempts ->
                                   "attempt"
                              [] OTHER -> "failed"
      BY <2>2 DEF CC!Attempt
    <3>2. CC!Outcome(s) = "ok"
      BY <2>2, <3>1
    <3>3. CC!Read(s.lines, s.broken) = "ok"
      BY <3>2 DEF CC!Outcome
    <3> QED BY <3>1, <3>3 DEF CC!Read
  <2> QED BY <2>1, <2>2 DEF CC!NoFalseSuccess
<1>3. TalkOK(talk)' <=> TalkOK(talk)
  BY <1>1 DEF TalkOK
<1>4. CC!HistoryPaired' /\ CC!ShownInFull'
  <2>1. CC!HistoryPaired /\ CC!ShownInFull
    BY DEF ChatInv
  <2> QED BY <1>1, <2>1 DEF CC!HistoryPaired, CC!ShownInFull
<1> QED BY <1>1, <1>2, <1>3, <1>4 DEF ChatInv

(* The invariant is kept by every step of the chat. *)
LEMMA ChatMoves ==
  CC!ChatAssumption /\ ChatInv /\ (CC!CCNext \/ UNCHANGED CC!ccVars) => ChatInv'
<1> SUFFICES ASSUME CC!ChatAssumption, ChatInv, CC!CCNext \/ UNCHANGED CC!ccVars PROVE ChatInv'
  OBVIOUS
<1>1. CASE CC!Cancel
  <2>1. /\ talk.pc # "prompt" /\ talk' = CC!NoTalk(talk.turn)
        /\ UNCHANGED <<history, shownText, transfer>>
    BY <1>1 DEF CC!Cancel, CC!Failed
  <2> QED BY <2>1, MessageFails
<1>2. CASE UNCHANGED CC!ccVars
  BY <1>2, ChatStays DEF CC!ccVars
<1> QED BY <1>1, <1>2, LineSent, RequestMade, EventComes, ToolsCalled, AnswerComes, TransferMoves
        DEF CC!CCNext

(* What the invariant says of the chat. *)
LEMMA ChatInvTrue ==
  ChatInv => CC!RequestWellFormed /\ CC!HistoryPaired /\ CC!ShownInFull /\ CC!NoFalseSuccess
BY RequestsWellFormed DEF ChatInv

(***************************************************************************)
(* The command line.                                                       *)
(***************************************************************************)
(* A step is one of the machine in focus, and leaves the others alone. *)
LEMMA InFocus ==
  ASSUME [Next]_vars
  PROVE  /\ focus' = focus
         /\ CtxNext \/ UNCHANGED ctxVars
         /\ focus = "standalone" => SA!SaNext \/ UNCHANGED SA!saVars
         /\ focus = "chat" => CC!CCNext \/ UNCHANGED CC!ccVars
         /\ focus = "archive" => AR!ArNext \/ UNCHANGED AR!arVars
<1>1. /\ focus' = focus
      /\ CtxNext \/ UNCHANGED ctxVars
      /\ focus = "standalone" => SA!SaNext \/ UNCHANGED standaloneVars
      /\ focus = "chat" => CC!CCNext \/ UNCHANGED chatVars
      /\ focus = "archive" => AR!ArNext \/ UNCHANGED archiveVars
  BY DEF Next, vars, ContextsStep, StandaloneStep, ReadlineStep, ChatStep, ArchiveStep
<1>2. UNCHANGED standaloneVars => UNCHANGED SA!saVars
  BY DEF standaloneVars, SA!saVars
<1>3. UNCHANGED chatVars => UNCHANGED CC!ccVars
  BY DEF chatVars, CC!ccVars
<1>4. UNCHANGED archiveVars => UNCHANGED AR!arVars
  BY DEF archiveVars, AR!arVars
<1> QED BY <1>1, <1>2, <1>3, <1>4

(* Whichever commands run, and whenever they are killed: the selected context exists,
   no committed change is lost, and a detection that is to use TLS never ends with a
   plain URL (Store.update in modelctx/store.go, DetectContext in desktop/context.go). *)
THEOREM ContextsSafe == Spec => []ContextsKept
<1>1. Init => CtxInv
  BY CtxInvInit DEF Init
<1>2. CtxInv /\ [Next]_vars => CtxInv'
  BY InFocus, CtxInvNext
<1> QED BY <1>1, <1>2, CtxInvKept, PTL DEF Spec

(* However many commands install, reinstall and ensure the runner at once, and whatever
   they remove from under each other: when all of them have ended well the container
   is up (pkg/standalone/containers.go, commands/install-runner.go). *)
THEOREM InstallersWorkTogether == Spec => []WorkTogether
<1> DEFINE Inv == focus = "standalone" => InstallersInv
<1>1. SA!StandaloneAssumption
  BY Zenon, MachinesAssumption DEF MachinesAssumption
<1>2. Init => Inv
  <2> SUFFICES ASSUME Init, focus = "standalone" PROVE InstallersInv
    OBVIOUS
  <2>1. SA!SaInit
    BY DEF Init
  <2> QED BY <1>1, <2>1, InstallersInit
<1>3. Inv /\ [Next]_vars => Inv'
  <2> SUFFICES ASSUME Inv, [Next]_vars, focus' = "standalone" PROVE InstallersInv'
    OBVIOUS
  <2>1. focus = "standalone" /\ (SA!SaNext \/ UNCHANGED SA!saVars)
    BY InFocus
  <2> QED BY <2>1, InstallersMove
<1>4. Inv => WorkTogether
  BY DEF WorkTogether, InstallersInv
<1> QED BY <1>2, <1>3, <1>4, PTL DEF Spec

(* What is loaded or built on is whole: for any layers, whichever entry the archive
   breaks off at and on whichever side, a package that says it is loaded is a model the
   daemon holds all of, and a package made from a model starts from all of it
   (commands/package.go, distribution/client.go LoadModel, tarball/reader.go). *)
THEOREM PackagesWhole == Spec => []ArchiveWhole
<1> DEFINE Inv == focus = "archive" => ArchiveInv
<1>1. Init => Inv
  <2> SUFFICES ASSUME Init, focus = "archive" PROVE ArchiveInv
    OBVIOUS
  <2>1. AR!ArInit
    BY DEF Init
  <2> QED BY <2>1, ArchiveInit
<1>2. Inv /\ [Next]_vars => Inv'
  <2> SUFFICES ASSUME Inv, [Next]_vars, focus' = "archive" PROVE ArchiveInv'
    OBVIOUS
  <2>1. focus = "archive" /\ (AR!ArNext \/ UNCHANGED AR!arVars)
    BY InFocus
  <2> QED BY <2>1, ArchivesMove
<1>3. Inv => ArchiveWhole
  BY ArchivesWhole DEF ArchiveWhole
<1> QED BY <1>1, <1>2, <1>3, PTL DEF Spec

(* Whatever is typed, however the server answers and whenever Ctrl-C comes: a request
   is a conversation the API accepts, the history is of questions with their answers,
   an answered turn was shown once and in full, and no transfer whose last stream told
   of an error is reported as done (commands/run.go, desktop/desktop.go). *)
THEOREM ChatsAreTrue == Spec => []ChatTrue
<1> DEFINE Inv == focus = "chat" => ChatInv
<1>1. CC!ChatAssumption
  BY Zenon, MachinesAssumption DEF MachinesAssumption
<1>2. Init => Inv
  <2> SUFFICES ASSUME Init, focus = "chat" PROVE ChatInv
    OBVIOUS
  <2>1. CC!CCInit
    BY DEF Init
  <2> QED BY <2>1, ChatInit
<1>3. Inv /\ [Next]_vars => Inv'
  <2> SUFFICES ASSUME Inv, [Next]_vars, focus' = "chat" PROVE ChatInv'
    OBVIOUS
  <2>1. focus = "chat" /\ (CC!CCNext \/ UNCHANGED CC!ccVars)
    BY InFocus
  <2> QED BY <1>1, <2>1, ChatMoves
<1>4. Inv => ChatTrue
  BY ChatInvTrue DEF ChatTrue
<1> QED BY <1>2, <1>3, <1>4, PTL DEF Spec
=============================================================================
