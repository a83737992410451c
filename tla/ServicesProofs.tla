---------------------------- MODULE ServicesProofs ----------------------------
(***************************************************************************)
(* What the services keep, whichever machine is in focus.  MachineProofs   *)
(* and ExchangeProofs have the invariant of each machine and why its steps *)
(* keep it; here it is the invariant of Spec while the machine is in       *)
(* focus, and what the runs check follows.                                 *)
(***************************************************************************)
EXTENDS Services, MachineProofs, ExchangeProofs

(* A step is one of the machine in focus, which stays in focus. *)
LEMMA InFocus ==
  ASSUME [Next]_vars
  PROVE  /\ focus' = focus
         /\ focus = "modelsapi" => MA!MANext \/ UNCHANGED MA!maVars
         /\ focus = "backend" => BI!BINext \/ UNCHANGED BI!biVars
         /\ focus = "process" => BP!BPNext \/ UNCHANGED BP!bpVars
         /\ focus = "daemon" => DM!DMNext \/ UNCHANGED DM!dmVars
         /\ focus = "hub" => HT!HTNext \/ UNCHANGED HT!htVars
         /\ focus = "recorder" => RC!RecNext \/ UNCHANGED RC!recVars
         /\ focus = "requests" => RQ!ReqNext \/ UNCHANGED RQ!reqVars
         /\ focus = "logs" => LG!LGNext \/ UNCHANGED LG!lgVars
         /\ focus = "faults" => SF!Next \/ UNCHANGED storeVars
         /\ focus = "clients" => SC!Next \/ UNCHANGED storeVars
<1>1. /\ focus' = focus
      /\ focus = "modelsapi" => MA!MANext \/ UNCHANGED modelsapiVars
      /\ focus = "backend" => BI!BINext \/ UNCHANGED backendVars
      /\ focus = "process" => BP!BPNext \/ UNCHANGED processVars
      /\ focus = "daemon" => DM!DMNext \/ UNCHANGED daemonVars
      /\ focus = "hub" => HT!HTNext \/ UNCHANGED hubVars
      /\ focus = "recorder" => RC!RecNext \/ UNCHANGED recorderVars
      /\ focus = "requests" => RQ!ReqNext \/ UNCHANGED requestsVars
      /\ focus = "logs" => LG!LGNext \/ UNCHANGED logsVars
      /\ focus = "faults" => SF!Next \/ UNCHANGED storeVars
      /\ focus = "clients" => SC!Next \/ UNCHANGED storeVars
  BY DEF Next, vars, ResponsesStep, RecorderStep, RequestsStep, ModelsapiStep, PackagingStep,
         HubStep, BackendStep, ProcessStep, LogsStep, DaemonStep, FaultsStep, ClientsStep
<1>2. UNCHANGED modelsapiVars => UNCHANGED MA!maVars
  BY DEF modelsapiVars, MA!maVars
<1>3. UNCHANGED backendVars => UNCHANGED BI!biVars
  BY DEF backendVars, BI!biVars, BI!biFiles
<1>4. UNCHANGED processVars => UNCHANGED BP!bpVars
  BY DEF processVars, BP!bpVars
<1>5. UNCHANGED daemonVars => UNCHANGED DM!dmVars
  BY DEF daemonVars, DM!dmVars, DM!runVars, DM!certVars
<1>6. UNCHANGED hubVars => UNCHANGED HT!htVars
  BY DEF hubVars, HT!htVars
<1>7. UNCHANGED recorderVars => UNCHANGED RC!recVars
  BY DEF recorderVars, RC!recVars
<1>8. UNCHANGED requestsVars => UNCHANGED RQ!reqVars
  BY DEF requestsVars, RQ!reqVars
<1>9. UNCHANGED logsVars => UNCHANGED LG!lgVars
  BY DEF logsVars, LG!lgVars
<1> QED BY <1>1, <1>2, <1>3, <1>4, <1>5, <1>6, <1>7, <1>8, <1>9

(* A client that waits is told that its request failed, and is not told so of
   one that succeeded; a token is held by each pull and by nothing else. *)
THEOREM FailuresAreTold == Spec => []FailureTold
<1> DEFINE Inv == focus = "modelsapi" => ModelsInv
<1>1. MA!ModelsAssumption
  BY Zenon, MachinesAssumption DEF MachinesAssumption
<1>2. Init => Inv
  <2> SUFFICES ASSUME Init, focus = "modelsapi" PROVE ModelsInv
    OBVIOUS
  <2>1. MA!MAInit
    BY DEF Init
  <2> QED BY <1>1, <2>1, ModelsInit
<1>3. Inv /\ [Next]_vars => Inv'
  <2> SUFFICES ASSUME Inv, [Next]_vars, focus' = "modelsapi" PROVE ModelsInv'
    OBVIOUS
  <2>1. focus = "modelsapi" /\ (MA!MANext \/ UNCHANGED MA!maVars)
    BY InFocus
  <2> QED BY <1>1, <2>1, ModelsMoves
<1>4. Inv => FailureTold
  <2> SUFFICES ASSUME Inv, focus = "modelsapi" PROVE MA!MATypeOK /\ MA!FailureTold
    BY DEF FailureTold
  <2> QED BY ModelsTold DEF ModelsInv
<1> QED BY <1>2, <1>3, <1>4, PTL DEF Spec

(* What is said to be installed runs with its image's libraries, and a record
   tells the image; a run leaves no process and reports the tail of its log. *)
THEOREM BackendsAreSound == Spec => []BackendsSound
<1> DEFINE Inv == (focus = "backend" => InstallInv) /\ (focus = "process" => ProcessInv)
<1>1. BI!InstallAssumption /\ BP!ProcessAssumption
  BY Zenon, MachinesAssumption DEF MachinesAssumption
<1>2. Init => Inv
  <2>1. ASSUME Init, focus = "backend" PROVE InstallInv
    <3>1. BI!BIInit
      BY <2>1 DEF Init
    <3> QED BY <1>1, <3>1, InstallInit
  <2>2. ASSUME Init, focus = "process" PROVE ProcessInv
    <3>1. BP!BPInit
      BY <2>2 DEF Init
    <3> QED BY <1>1, <3>1, ProcessInit
  <2> QED BY <2>1, <2>2
<1>3. Inv /\ [Next]_vars => Inv'
  <2>1. ASSUME Inv, [Next]_vars, focus' = "backend" PROVE InstallInv'
    <3>1. focus = "backend" /\ (BI!BINext \/ UNCHANGED BI!biVars)
      BY <2>1, InFocus
    <3> QED BY <1>1, <2>1, <3>1, InstallMoves
  <2>2. ASSUME Inv, [Next]_vars, focus' = "process" PROVE ProcessInv'
    <3>1. focus = "process" /\ (BP!BPNext \/ UNCHANGED BP!bpVars)
      BY <2>2, InFocus
    <3> QED BY <1>1, <2>2, <3>1, ProcessMoves
  <2> QED BY <2>1, <2>2
<1>4. Inv => BackendsSound
  <2>1. ASSUME Inv, focus = "backend" PROVE BI!BITypeOK /\ BI!InstalledWhole /\ BI!RecordTellsImage
    BY <1>1, <2>1, TagsTellImages DEF InstallInv
  <2>2. ASSUME Inv, focus = "process" PROVE BP!BPTypeOK /\ BP!OneProcess /\ BP!ErrorIsTail
    BY <2>2, ProcessSound
  <2> QED BY <2>1, <2>2, Zenon DEF BackendsSound
<1> QED BY <1>2, <1>3, <1>4, PTL DEF Spec

(* A clean end has closed the servers and waited for the scheduler's loop, the
   certificate served can be verified, and a flag decides where it listens. *)
THEOREM DaemonIsKept == Spec => []DaemonKept
<1> DEFINE Inv == focus = "daemon" => DaemonInv
<1>1. DM!DaemonAssumption
  BY Zenon, MachinesAssumption DEF MachinesAssumption
<1>2. Init => Inv
  <2> SUFFICES ASSUME Init, focus = "daemon" PROVE DaemonInv
    OBVIOUS
  <2>1. DM!DMInit
    BY DEF Init
  <2>2. MaxCrashes \in Nat /\ MaxGen \in Nat
    BY <1>1 DEF DM!DaemonAssumption
  <2> QED BY <2>1, <2>2, DaemonInit
<1>3. Inv /\ [Next]_vars => Inv'
  <2> SUFFICES ASSUME Inv, [Next]_vars, focus' = "daemon" PROVE DaemonInv'
    OBVIOUS
  <2>1. focus = "daemon" /\ (DM!DMNext \/ UNCHANGED DM!dmVars)
    BY InFocus
  <2> QED BY <1>1, <2>1, DaemonMoves
<1>4. Inv => DaemonKept
  BY Zenon DEF DaemonKept, DaemonInv, DaemonTypes
<1> QED BY <1>2, <1>3, <1>4, PTL DEF Spec

(* A stored model has all the files and shards that were chosen for it, nobody
   writes into a directory that is gone, and a commit names stored objects, as
   long as it is weight files, projectors excepted, that are cut into shards. *)
THEOREM TransfersAreWhole == ASSUME ShardsAreWeights PROVE Spec => []TransfersWhole
<1> DEFINE Inv == focus = "hub" => HubInv
<1>1. HT!HubAssumption
  BY Zenon, MachinesAssumption DEF MachinesAssumption
<1>2. Init => Inv
  <2> SUFFICES ASSUME Init, focus = "hub" PROVE HubInv
    OBVIOUS
  <2>1. HT!HTInit
    BY DEF Init
  <2> QED BY <1>1, <2>1, HubInit
<1>3. Inv /\ [Next]_vars => Inv'
  <2> SUFFICES ASSUME Inv, [Next]_vars, focus' = "hub" PROVE HubInv'
    OBVIOUS
  <2>1. focus = "hub" /\ (HT!HTNext \/ UNCHANGED HT!htVars)
    BY InFocus
  <2> QED BY <1>1, <2>1, HubMoves
<1>4. Inv => TransfersWhole
  <2> SUFFICES ASSUME Inv, focus = "hub"
               PROVE  /\ HT!HTTypeOK /\ HT!AllFilesArrive /\ HT!NobodyWritesIntoTheVoid
                      /\ HT!WholeShardSets /\ HT!CommittedIsStored
    BY DEF TransfersWhole
  <2> QED BY <1>1, HubSound
<1> QED BY <1>2, <1>3, <1>4, PTL DEF Spec

(* A record says what its own request was answered, an answer is lost only to a
   name that moved, to ten more requests or to a runner that took the list
   along, a subscriber that kept up has seen every answer, and nobody sends on
   a channel that was closed. *)
THEOREM RecordsAreTrue == Spec => []RecordsTrue
<1> DEFINE Inv == focus = "recorder" => RecInv
<1>1. RC!RecorderAssumption /\ RC!UnansweredAssumption
  BY Zenon, MachinesAssumption DEF MachinesAssumption
<1>2. Init => Inv
  <2> SUFFICES ASSUME Init, focus = "recorder" PROVE RecInv
    OBVIOUS
  <2>1. RC!RecInit
    BY DEF Init
  <2> QED BY <1>1, <2>1, RecInit
<1>3. Inv /\ [Next]_vars => Inv'
  <2> SUFFICES ASSUME Inv, [Next]_vars, focus' = "recorder" PROVE RecInv'
    OBVIOUS
  <2>1. focus = "recorder" /\ (RC!RecNext \/ UNCHANGED RC!recVars)
    BY InFocus
  <2> QED BY <1>1, <2>1, RecMoves
<1>4. Inv => RecordsTrue
  BY RecSound DEF RecordsTrue
<1> QED BY <1>2, <1>3, <1>4, PTL DEF Spec

(* A runner that is used has the backend that its model's format asks for, and a
   runner that is ready runs with the configuration that was accepted last for
   its key, whoever reconfigured it meanwhile. *)
THEOREM RequestsAreHonoured == Spec => []RequestsHonoured
<1> DEFINE Inv == focus = "requests" => RequestsInv
<1>1. RQ!RequestsAssumption
  BY Zenon, MachinesAssumption DEF MachinesAssumption
<1>2. Init => Inv
  <2> SUFFICES ASSUME Init, focus = "requests" PROVE RequestsInv
    OBVIOUS
  <2>1. RQ!ReqInit
    BY DEF Init
  <2> QED BY <1>1, <2>1, RequestsInit
<1>3. Inv /\ [Next]_vars => Inv'
  <2> SUFFICES ASSUME Inv, [Next]_vars, focus' = "requests" PROVE RequestsInv'
    OBVIOUS
  <2>1. focus = "requests" /\ (RQ!ReqNext \/ UNCHANGED RQ!reqVars)
    BY InFocus
  <2> QED BY <1>1, <2>1, RequestsMoves
<1>4. Inv => RequestsHonoured
  BY <1>1, RequestsHonour DEF RequestsHonoured
<1> QED BY <1>2, <1>3, <1>4, PTL DEF Spec

(* What a client has been sent of a log is what the log holds, from its first
   byte, in order, nothing twice and nothing missing, although the log grows
   between the merge and the tail; and the merge is in the order of time when
   each of the two logs is. *)
THEOREM LogIsUnbroken == Spec => []LogUnbroken
<1> DEFINE Inv == focus = "logs" => LogInv
<1>1. LG!LogAssumption
  BY Zenon, MachinesAssumption DEF MachinesAssumption
<1>2. Init => Inv
  <2> SUFFICES ASSUME Init, focus = "logs" PROVE LogInv
    OBVIOUS
  <2>1. LG!LGInit
    BY DEF Init
  <2> QED BY <1>1, <2>1, LogInit
<1>3. Inv /\ [Next]_vars => Inv'
  <2> SUFFICES ASSUME Inv, [Next]_vars, focus' = "logs" PROVE LogInv'
    OBVIOUS
  <2>1. focus = "logs" /\ (LG!LGNext \/ UNCHANGED LG!lgVars)
    BY InFocus
  <2> QED BY <1>1, <2>1, LogMoves
<1>4. Inv => LogUnbroken
  BY LogKept DEF LogUnbroken
<1> QED BY <1>2, <1>3, <1>4, PTL DEF Spec

(***************************************************************************)
(* The two stores.  StoreProofs has the invariant of a store and why its   *)
(* steps keep it; here are its instances with the constants of the two     *)
(* machines, and that their steps are those of Machines.                   *)
(***************************************************************************)
SFP == INSTANCE StoreProofs WITH
  Clients <- FClients, Models <- FModels, Tags <- FTags, BadTags <- FBadTags, Rest <- FRest,
  LayersOf <- FLayersOf, ConfigOf <- FConfigOf, Canon <- FCanon, OldIndex <- FOldIndex,
  Ops <- FOps, Faults <- FFaults, MaxOps <- FMaxOps
SCP == INSTANCE StoreProofs WITH
  Clients <- SClients, Models <- SModels, Tags <- STags, BadTags <- SBadTags, Rest <- SRest,
  LayersOf <- SLayersOf, ConfigOf <- SConfigOf, Canon <- SCanon, OldIndex <- SOldIndex,
  Ops <- SOps, Faults <- SFaults, MaxOps <- SMaxOps

(* The migration of hf.co tags keeps the tags of two models apart. *)
OldTagsStayApart == SFP!MigrationKeepsApart /\ SCP!MigrationKeepsApart

(* The deletion of the store that meets every fault, which counts tags. *)
LEMMA FaultStoreDelete ==
  ASSUME NEW c, NEW ref, NEW force
  PROVE  SF!StartDelete(c, ref, force) <=> SFP!StartDelete(c, ref, force)
<1>1. SF!Starts(c, "delete") <=> SFP!Starts(c, "delete")
  BY DEF SF!Starts, SFP!Starts, SF!Idle, SFP!Idle, SF!At, SFP!At
<1>2. \A m : /\ m \in SF!Named(index, ref) <=> m \in SFP!Named(index, ref)
             /\ SF!Readable(m) <=> SFP!Readable(m)
  BY DEF SF!Named, SFP!Named, SF!Readable, SFP!Readable
<1>3. \A r : SF!Begin(c, r) <=> SFP!Begin(c, r)
  BY DEF SF!Begin, SFP!Begin, SF!Active, SFP!Active, SF!At, SFP!At, SF!Mine, SFP!Mine
<1>4. SF!IdleOp = SFP!IdleOp
  BY DEF SF!IdleOp, SFP!IdleOp, SF!NoIndex, SFP!NoIndex
<1>5. \A S : SF!Cardinality(S) = SFP!Cardinality(S)
  BY DEF SF!Cardinality, SFP!Cardinality
<1>6. ASSUME NEW m
      PROVE  (LET many == SF!Cardinality(index[m]) > 1
              IN  /\ ref \in FTags \/ ~many \/ force
                  /\ SF!Begin(c, [SF!IdleOp EXCEPT !.kind = "delete", !.model = m, !.tag = ref,
                       !.pc = IF ref \in FTags THEN "untagRead" ELSE "find",
                       !.many = many /\ ref \in FTags]))
             <=> (LET many == SFP!Cardinality(index[m]) > 1
                  IN  /\ ref \in FTags \/ ~many \/ force
                      /\ SFP!Begin(c, [SFP!IdleOp EXCEPT !.kind = "delete", !.model = m, !.tag = ref,
                           !.pc = IF ref \in FTags THEN "untagRead" ELSE "find",
                           !.many = many /\ ref \in FTags]))
  BY <1>3, <1>4, <1>5
<1> QED
  BY <1>1, <1>2, <1>6, Zenon
     DEF SF!StartDelete, SFP!StartDelete, SF!disk, SFP!disk, SF!files, SFP!files

(* The steps of the store that meets every fault. *)
LEMMA FaultStoreSteps ==
  SF!Next <=> SFP!Next
<1> USE DEF SF!Normal, SFP!Normal, SF!FilesOf, SFP!FilesOf, SF!Blobs, SFP!Blobs, SF!files,
            SFP!files, SF!disk, SFP!disk, SF!NoIndex, SFP!NoIndex, SF!Named, SFP!Named,
            SF!Tagged, SFP!Tagged, SF!CanTag, SFP!CanTag, SF!Untagged, SFP!Untagged, SF!Removed,
            SFP!Removed, SF!Added, SFP!Added, SF!Readable, SFP!Readable, SF!IdleOp, SFP!IdleOp,
            SF!Writes, SFP!Writes, SF!At, SFP!At, SF!Go, SFP!Go, SF!Mine, SFP!Mine, SF!End,
            SFP!End, SF!Fault, SFP!Fault, SF!Damage, SFP!Damage, SF!Active, SFP!Active, SF!Heal,
            SFP!Heal, SF!Begin, SFP!Begin, SF!Idle, SFP!Idle, SF!Starts, SFP!Starts, SF!Undo,
            SFP!Undo, SF!FailWrite, SFP!FailWrite, SF!WriteIndex, SFP!WriteIndex, SF!FailTag,
            SFP!FailTag, SF!Unshared, SFP!Unshared, SF!Parts, SFP!Parts, SF!Restrict,
            SFP!Restrict
<1>1. ASSUME NEW c PROVE SF!Work(c) <=> SFP!Work(c)
  BY DEF SF!BeginWrite, SFP!BeginWrite, SF!WriteConfig, SFP!WriteConfig, SF!WriteLayer,
         SFP!WriteLayer, SF!LayersDone, SFP!LayersDone, SF!WriteManifest, SFP!WriteManifest,
         SF!ReadIndexToAdd, SFP!ReadIndexToAdd, SF!AddEntry, SFP!AddEntry, SF!ReadIndexToTag,
         SFP!ReadIndexToTag, SF!WriteTags, SFP!WriteTags, SF!UndoIndex, SFP!UndoIndex,
         SF!UndoManifest, SFP!UndoManifest, SF!UndoConfig, SFP!UndoConfig, SF!EndUndo,
         SFP!EndUndo, SF!ReadIndexToUntag, SFP!ReadIndexToUntag, SF!WriteUntagged,
         SFP!WriteUntagged, SF!FindToDelete, SFP!FindToDelete, SF!RemoveManifest,
         SFP!RemoveManifest, SF!RemoveBundle, SFP!RemoveBundle, SF!RemoveBlob, SFP!RemoveBlob,
         SF!WriteRemoved, SFP!WriteRemoved, SF!RemovePart, SFP!RemovePart, SF!Work, SFP!Work
<1>2. ASSUME NEW c PROVE SF!Request(c) <=> SFP!Request(c)
  BY FaultStoreDelete
     DEF SF!StartPull, SFP!StartPull, SF!StartBuild, SFP!StartBuild, SF!StartLight,
         SFP!StartLight, SF!StartLoad, SFP!StartLoad, SF!StartTag, SFP!StartTag, SF!StartReset,
         SFP!StartReset, SF!Request, SFP!Request
<1> QED
  BY <1>1, <1>2
     DEF SF!Start, SFP!Start, SF!Crash, SFP!Crash, SF!MakeBundle, SFP!MakeBundle, SF!Next,
         SFP!Next

(* From the store that meets every fault to its invariant and to what the runs check. *)
LEMMA FaultStoreSound ==
  /\ SF!StoreAssumption => SFP!StoreAssumption
  /\ SF!Init => SFP!Init
  /\ SF!Next \/ UNCHANGED storeVars => [SFP!Next]_(SFP!vars)
  /\ SFP!TypeOK /\ SFP!OneOwner /\ SFP!DamageIsolated =>
       SF!TypeOK /\ SF!OneOwner /\ SF!DamageIsolated
<1>1. SF!StoreAssumption => SFP!StoreAssumption
  BY DEF SF!StoreAssumption, SFP!StoreAssumption, SF!Normal, SFP!Normal
<1>2. SF!Init => SFP!Init
  BY DEF SF!Init, SFP!Init, SF!FilesOf, SFP!FilesOf, SF!IdleOp, SFP!IdleOp, SF!NoIndex,
         SFP!NoIndex
<1>3. SF!Next \/ UNCHANGED storeVars => [SFP!Next]_(SFP!vars)
  BY FaultStoreSteps DEF storeVars, SFP!vars
<1>4. SFP!TypeOK => SF!TypeOK
  BY DEF SF!TypeOK, SFP!TypeOK, SF!OpRecord, SFP!OpRecord, SF!Places, SFP!Places, SF!IsIndex,
         SFP!IsIndex, SF!FilesOf, SFP!FilesOf, SF!Blobs, SFP!Blobs
<1>5. SFP!OneOwner => SF!OneOwner
  BY DEF SF!OneOwner, SFP!OneOwner
<1>6. SFP!DamageIsolated => SF!DamageIsolated
  BY DEF SF!DamageIsolated, SFP!DamageIsolated, SF!Whole, SFP!Whole, SF!Active, SFP!Active,
         SF!At, SFP!At, SF!Mine, SFP!Mine, SF!FilesOf, SFP!FilesOf
<1> QED BY <1>1, <1>2, <1>3, <1>4, <1>5, <1>6

(* The deletion of the store that clients share, which counts tags. *)
LEMMA SharedStoreDelete ==
  ASSUME NEW c, NEW ref, NEW force
  PROVE  SC!StartDelete(c, ref, force) <=> SCP!StartDelete(c, ref, force)
<1>1. SC!Starts(c, "delete") <=> SCP!Starts(c, "delete")
  BY DEF SC!Starts, SCP!Starts, SC!Idle, SCP!Idle, SC!At, SCP!At
<1>2. \A m : /\ m \in SC!Named(index, ref) <=> m \in SCP!Named(index, ref)
             /\ SC!Readable(m) <=> SCP!Readable(m)
  BY DEF SC!Named, SCP!Named, SC!Readable, SCP!Readable
<1>3. \A r : SC!Begin(c, r) <=> SCP!Begin(c, r)
  BY DEF SC!Begin, SCP!Begin, SC!Active, SCP!Active, SC!At, SCP!At, SC!Mine, SCP!Mine
<1>4. SC!IdleOp = SCP!IdleOp
  BY DEF SC!IdleOp, SCP!IdleOp, SC!NoIndex, SCP!NoIndex
<1>5. \A S : SC!Cardinality(S) = SCP!Cardinality(S)
  BY DEF SC!Cardinality, SCP!Cardinality
<1>6. ASSUME NEW m
      PROVE  (LET many == SC!Cardinality(index[m]) > 1
              IN  /\ ref \in STags \/ ~many \/ force
                  /\ SC!Begin(c, [SC!IdleOp EXCEPT !.kind = "delete", !.model = m, !.tag = ref,
                       !.pc = IF ref \in STags THEN "untagRead" ELSE "find",
                       !.many = many /\ ref \in STags]))
             <=> (LET many == SCP!Cardinality(index[m]) > 1
                  IN  /\ ref \in STags \/ ~many \/ force
                      /\ SCP!Begin(c, [SCP!IdleOp EXCEPT !.kind = "delete", !.model = m, !.tag = ref,
                           !.pc = IF ref \in STags THEN "untagRead" ELSE "find",
                           !.many = many /\ ref \in STags]))
  BY <1>3, <1>4, <1>5
<1> QED
  BY <1>1, <1>2, <1>6, Zenon
     DEF SC!StartDelete, SCP!StartDelete, SC!disk, SCP!disk, SC!files, SCP!files

(* The steps of the store that clients share. *)
LEMMA SharedStoreSteps ==
  SC!Next <=> SCP!Next
<1> USE DEF SC!Normal, SCP!Normal, SC!FilesOf, SCP!FilesOf, SC!Blobs, SCP!Blobs, SC!files,
            SCP!files, SC!disk, SCP!disk, SC!NoIndex, SCP!NoIndex, SC!Named, SCP!Named,
            SC!Tagged, SCP!Tagged, SC!CanTag, SCP!CanTag, SC!Untagged, SCP!Untagged, SC!Removed,
            SCP!Removed, SC!Added, SCP!Added, SC!Readable, SCP!Readable, SC!IdleOp, SCP!IdleOp,
            SC!Writes, SCP!Writes, SC!At, SCP!At, SC!Go, SCP!Go, SC!Mine, SCP!Mine, SC!End,
            SCP!End, SC!Fault, SCP!Fault, SC!Damage, SCP!Damage, SC!Active, SCP!Active, SC!Heal,
            SCP!Heal, SC!Begin, SCP!Begin, SC!Idle, SCP!Idle, SC!Starts, SCP!Starts, SC!Undo,
            SCP!Undo, SC!FailWrite, SCP!FailWrite, SC!WriteIndex, SCP!WriteIndex, SC!FailTag,
            SCP!FailTag, SC!Unshared, SCP!Unshared, SC!Parts, SCP!Parts, SC!Restrict,
            SCP!Restrict
<1>1. ASSUME NEW c PROVE SC!Work(c) <=> SCP!Work(c)
  BY DEF SC!BeginWrite, SCP!BeginWrite, SC!WriteConfig, SCP!WriteConfig, SC!WriteLayer,
         SCP!WriteLayer, SC!LayersDone, SCP!LayersDone, SC!WriteManifest, SCP!WriteManifest,
         SC!ReadIndexToAdd, SCP!ReadIndexToAdd, SC!AddEntry, SCP!AddEntry, SC!ReadIndexToTag,
         SCP!ReadIndexToTag, SC!WriteTags, SCP!WriteTags, SC!UndoIndex, SCP!UndoIndex,
         SC!UndoManifest, SCP!UndoManifest, SC!UndoConfig, SCP!UndoConfig, SC!EndUndo,
         SCP!EndUndo, SC!ReadIndexToUntag, SCP!ReadIndexToUntag, SC!WriteUntagged,
         SCP!WriteUntagged, SC!FindToDelete, SCP!FindToDelete, SC!RemoveManifest,
         SCP!RemoveManifest, SC!RemoveBundle, SCP!RemoveBundle, SC!RemoveBlob, SCP!RemoveBlob,
         SC!WriteRemoved, SCP!WriteRemoved, SC!RemovePart, SCP!RemovePart, SC!Work, SCP!Work
<1>2. ASSUME NEW c PROVE SC!Request(c) <=> SCP!Request(c)
  BY SharedStoreDelete
     DEF SC!StartPull, SCP!StartPull, SC!StartBuild, SCP!StartBuild, SC!StartLight,
         SCP!StartLight, SC!StartLoad, SCP!StartLoad, SC!StartTag, SCP!StartTag, SC!StartReset,
         SCP!StartReset, SC!Request, SCP!Request
<1> QED
  BY <1>1, <1>2
     DEF SC!Start, SCP!Start, SC!Crash, SCP!Crash, SC!MakeBundle, SCP!MakeBundle, SC!Next,
         SCP!Next

(* From the store that clients share to its invariant and to what the runs check. *)
LEMMA SharedStoreSound ==
  /\ SC!StoreAssumption => SCP!StoreAssumption
  /\ SC!Init => SCP!Init
  /\ SC!Next \/ UNCHANGED storeVars => [SCP!Next]_(SCP!vars)
  /\ SCP!TypeOK /\ SCP!OneOwner /\ SCP!DamageIsolated =>
       SC!TypeOK /\ SC!OneOwner /\ SC!DamageIsolated
<1>1. SC!StoreAssumption => SCP!StoreAssumption
  BY DEF SC!StoreAssumption, SCP!StoreAssumption, SC!Normal, SCP!Normal
<1>2. SC!Init => SCP!Init
  BY DEF SC!Init, SCP!Init, SC!FilesOf, SCP!FilesOf, SC!IdleOp, SCP!IdleOp, SC!NoIndex,
         SCP!NoIndex
<1>3. SC!Next \/ UNCHANGED storeVars => [SCP!Next]_(SCP!vars)
  BY SharedStoreSteps DEF storeVars, SCP!vars
<1>4. SCP!TypeOK => SC!TypeOK
  BY DEF SC!TypeOK, SCP!TypeOK, SC!OpRecord, SCP!OpRecord, SC!Places, SCP!Places, SC!IsIndex,
         SCP!IsIndex, SC!FilesOf, SCP!FilesOf, SC!Blobs, SCP!Blobs
<1>5. SCP!OneOwner => SC!OneOwner
  BY DEF SC!OneOwner, SCP!OneOwner
<1>6. SCP!DamageIsolated => SC!DamageIsolated
  BY DEF SC!DamageIsolated, SCP!DamageIsolated, SC!Whole, SCP!Whole, SC!Active, SCP!Active,
         SC!At, SCP!At, SC!Mine, SCP!Mine, SC!FilesOf, SCP!FilesOf
<1> QED BY <1>1, <1>2, <1>3, <1>4, <1>5, <1>6

(* A tag names at most one model, and a model is whole unless an operation on it
   met a fault or overlapped another or is under way; provided that the migration
   of tags gives no two models one tag. *)
THEOREM StoreIsSound == ASSUME OldTagsStayApart PROVE Spec => []StoreSound
<1> DEFINE Inv == (focus = "faults" => SFP!StoreInv) /\ (focus = "clients" => SCP!StoreInv)
<1>1. SFP!StoreAssumption /\ SCP!StoreAssumption
  BY FaultStoreSound, SharedStoreSound, MachinesAssumption DEF MachinesAssumption
<1>2. Init => Inv
  <2>1. ASSUME Init, focus = "faults" PROVE SFP!StoreInv
    <3>1. SFP!Init
      BY <2>1, FaultStoreSound DEF Init
    <3> QED BY <1>1, <3>1, SFP!StoreInit DEF OldTagsStayApart
  <2>2. ASSUME Init, focus = "clients" PROVE SCP!StoreInv
    <3>1. SCP!Init
      BY <2>2, SharedStoreSound DEF Init
    <3> QED BY <1>1, <3>1, SCP!StoreInit DEF OldTagsStayApart
  <2> QED BY <2>1, <2>2
<1>3. Inv /\ [Next]_vars => Inv'
  <2>1. ASSUME Inv, [Next]_vars, focus' = "faults" PROVE SFP!StoreInv'
    <3>1. focus = "faults" /\ (SF!Next \/ UNCHANGED storeVars)
      BY <2>1, InFocus
    <3>2. [SFP!Next]_(SFP!vars)
      BY <3>1, FaultStoreSound
    <3> QED BY <1>1, <2>1, <3>1, <3>2, SFP!StoreKeeps
  <2>2. ASSUME Inv, [Next]_vars, focus' = "clients" PROVE SCP!StoreInv'
    <3>1. focus = "clients" /\ (SC!Next \/ UNCHANGED storeVars)
      BY <2>2, InFocus
    <3>2. [SCP!Next]_(SCP!vars)
      BY <3>1, SharedStoreSound
    <3> QED BY <1>1, <2>2, <3>1, <3>2, SCP!StoreKeeps
  <2> QED BY <2>1, <2>2
<1>4. Inv => StoreSound
  BY SFP!StoreKept, SCP!StoreKept, FaultStoreSound, SharedStoreSound DEF StoreSound
<1> QED BY <1>2, <1>3, <1>4, PTL DEF Spec

(* No tag of the store that meets every fault is cut off the front of another one. *)
TagsAreUncut == SFP!NothingCut

(* The promises about single steps of that store are those of the runs. *)
LEMMA FaultStoreEffects ==
  ASSUME SFP!FailedWriteUndoneStep, SFP!TagNamesModelStep
  PROVE  SF!FailedWriteUndoneStep /\ SF!TagNamesModelStep
<1>1. SF!FailedWriteUndoneStep
  BY DEF SF!FailedWriteUndoneStep, SFP!FailedWriteUndoneStep, SF!At, SFP!At, SF!Mine, SFP!Mine
<1>2. SF!TagNamesModelStep
  BY DEF SF!TagNamesModelStep, SFP!TagNamesModelStep, SF!At, SFP!At, SF!Named, SFP!Named
<1> QED BY <1>1, <1>2

(* A model that is tagged by a partial name answers to that name; a write that is
   alone and fails leaves the index it found, and no manifest that the index does
   not list; and a tag that is added alone names just what its source names;
   provided that no tag is cut off the front of another, and that the migration of
   tags gives no two models one tag. *)
THEOREM StoreEffectsAreExact ==
  ASSUME OldTagsStayApart, TagsAreUncut PROVE Spec => [][StoreEffects]_vars
<1> DEFINE Inv == /\ focus = "modelsapi" => ModelsInv /\ TagsAsk
                  /\ focus = "faults" => SFP!StoreInv /\ SFP!Remembered
<1>1. MA!ModelsAssumption /\ SFP!StoreAssumption
  BY FaultStoreSound, MachinesAssumption, Zenon DEF MachinesAssumption
<1>2. Init => Inv
  <2>1. ASSUME Init, focus = "modelsapi" PROVE ModelsInv /\ TagsAsk
    <3>1. MA!MAInit
      BY <2>1 DEF Init
    <3> QED BY <1>1, <3>1, ModelsInit, TagsAskInit
  <2>2. ASSUME Init, focus = "faults" PROVE SFP!StoreInv /\ SFP!Remembered
    <3>1. SFP!Init
      BY <2>2, FaultStoreSound DEF Init
    <3> QED BY <1>1, <3>1, SFP!StoreInit, SFP!RememberedInit DEF OldTagsStayApart
  <2> QED BY <2>1, <2>2
<1>3. Inv /\ [Next]_vars => Inv'
  <2>1. ASSUME Inv, [Next]_vars, focus' = "modelsapi" PROVE (ModelsInv /\ TagsAsk)'
    <3>1. focus = "modelsapi" /\ (MA!MANext \/ UNCHANGED MA!maVars)
      BY <2>1, InFocus
    <3> QED BY <1>1, <2>1, <3>1, ModelsMoves, TagsAskMoves
  <2>2. ASSUME Inv, [Next]_vars, focus' = "faults" PROVE (SFP!StoreInv /\ SFP!Remembered)'
    <3>1. focus = "faults" /\ (SF!Next \/ UNCHANGED storeVars)
      BY <2>2, InFocus
    <3>2. [SFP!Next]_(SFP!vars)
      BY <3>1, FaultStoreSound
    <3>3. SFP!StoreInv'
      BY <1>1, <2>2, <3>1, <3>2, SFP!StoreKeeps
    <3>4. SFP!Remembered'
      BY <1>1, <2>2, <3>1, <3>2, SFP!StoreRemembers
    <3> QED BY <3>3, <3>4
  <2> QED BY <2>1, <2>2
<1>4. Inv /\ [Next]_vars => [StoreEffects]_vars
  <2> SUFFICES ASSUME Inv, Next PROVE StoreEffects
    OBVIOUS
  <2>1. ASSUME focus = "modelsapi" PROVE MA!TagByNameStep
    <3>1. MA!MANext
      BY <2>1 DEF Next, ModelsapiStep, ResponsesStep, RecorderStep, RequestsStep, PackagingStep,
         HubStep, BackendStep, ProcessStep, LogsStep, DaemonStep, FaultsStep, ClientsStep
    <3> QED BY <1>1, <2>1, <3>1, TagsByName
  <2>2. ASSUME focus = "faults" PROVE SF!FailedWriteUndoneStep /\ SF!TagNamesModelStep
    <3>1. SF!Next
      BY <2>2 DEF Next, ModelsapiStep, ResponsesStep, RecorderStep, RequestsStep, PackagingStep,
         HubStep, BackendStep, ProcessStep, LogsStep, DaemonStep, FaultsStep, ClientsStep
    <3>2. SFP!Next
      BY <3>1, FaultStoreSteps
    <3>3. SFP!FailedWriteUndoneStep /\ SFP!TagNamesModelStep
      BY <1>1, <2>2, <3>2, SFP!StepsExact DEF TagsAreUncut
    <3> QED BY <3>3, FaultStoreEffects
  <2> QED BY <2>1, <2>2 DEF StoreEffects
<1> QED BY <1>2, <1>3, <1>4, PTL DEF Spec
=============================================================================
