---------------------------- MODULE ExchangeProofs ----------------------------
(***************************************************************************)
(* What the machines of Exchanges keep: for each an invariant that its     *)
(* initial states satisfy, that its steps preserve, and that implies what  *)
(* the runs check.  ServicesProofs draws the conclusions.                  *)
(***************************************************************************)
EXTENDS Exchanges, Integers, FiniteSets, TLAPS, SequenceTheorems, FiniteSetTheorems,
        WellFoundedInduction

(* Every set of numbers that is not empty has a least one. *)
LEMMA NatMin ==
  ASSUME NEW T \in SUBSET Nat, T # {}
  PROVE  \E x \in T : \A y \in T : x <= y
<1>1. IsWellFoundedOn(OpToRel(<, Nat), Nat)
  BY NatLessThanWellFounded
<1>2. PICK x \in T : \A y \in T : ~(<<y, x>> \in OpToRel(<, Nat))
  BY <1>1, WFMin
<1>3. \A y \in T : ~(y < x)
  BY <1>2 DEF OpToRel
<1> QED BY <1>3

-----------------------------------------------------------------------------
(***************************************************************************)
(* Plain files on the hub.  A pull: how the files arrive in the directory, *)
(* and that nobody writes there after it ended.  A push: the large files   *)
(* up to where it is are stored, so all of them when it commits.           *)
(***************************************************************************)
Objects == {f.oid : f \in UNION {HT!Range(b) : b \in ObjectLists}}
Uploads ==
  [phase : {"none", "files", "uploading", "commit", "pushed", "failed"}, files : ObjectLists,
   next : Nat, actions : SUBSET Objects]
Hubs == [objects : SUBSET Objects, commit : SUBSET (UNION {HT!Range(b) : b \in ObjectLists})]

PullTypes ==
  /\ phase \in {"none", "start", "fetching", "stored", "failed"} /\ gone \in BOOLEAN
  /\ listing \in Repositories /\ selected \subseteq listing
  /\ fetch \in [selected -> {"waiting", "fetching", "done", "failed"}]
  /\ directory \in [selected -> {"absent", "partial", "whole"}]
FilesArrive ==
  /\ phase \in {"none", "start"} => selected = {}
  /\ selected # {} => selected \in HT!ToFetch(listing, quant)
  /\ phase \in {"fetching", "stored"} => selected # {}
  /\ phase \in {"none", "start", "fetching"} => ~gone
  /\ \A f \in selected : fetch[f] = "done" => directory[f] = "whole"
  /\ phase = "stored" => \A f \in selected : fetch[f] = "done"
  /\ phase = "failed" => \A f \in selected : fetch[f] \in {"done", "failed"}
  /\ Cardinality(HT!Busy) <= MaxConcurrent

(* The files up to here. *)
Stored(n) == \A i \in 1 .. n - 1 : i <= Len(upload.files) /\ HT!Large(upload.files[i])
               => upload.files[i].oid \in hub.objects
ObjectsStored ==
  /\ upload.next >= 1
  /\ upload.phase \in {"none", "files"} => upload.next = 1
  /\ upload.phase = "uploading" =>
       /\ Stored(upload.next)
       /\ \A f \in HT!LargeFiles : f.oid \in upload.actions \/ f.oid \in hub.objects
  /\ upload.phase \in {"commit", "pushed"} => \A f \in HT!LargeFiles : f.oid \in hub.objects
  /\ hub.commit # {} => hub.commit = HT!Range(upload.files) /\ upload.phase = "pushed"

HubInv ==
  /\ PullTypes /\ FilesArrive
  /\ upload \in Uploads /\ hub \in Hubs /\ ObjectsStored

(* The cardinality that the instance counts with is the one of the lemmas. *)
LEMMA HubCardinality ==
  ASSUME NEW S
  PROVE (HT!Cardinality(S) = Cardinality(S)) /\ (HT!IsFiniteSet(S) <=> IsFiniteSet(S))
BY DEF HT!Cardinality, Cardinality, HT!IsFiniteSet, IsFiniteSet

(* Of files that differ in name one comes first, so a choice finds one of them. *)
LEMMA FirstIsOne ==
  ASSUME HT!HubAssumption, NEW S \in Repositories, NEW T \in SUBSET HT!Weights(S), T # {}
  PROVE  HT!FirstByName(T) \in T
<1>1. \E f \in T : \A g \in T \ {f} : HT!Precedes(f, g)
  BY DEF HT!HubAssumption
<1> QED BY <1>1 DEF HT!FirstByName

(* A projector that may be taken is one of the repository's weights. *)
LEMMA ProjectorsAre ==
  ASSUME NEW w
  PROVE  \A f \in HT!Projectors(w) : f \in w /\ HT!IsProjector(f)
BY DEF HT!Projectors

(* The files that the choice leaves are those of the listing. *)
LEMMA ChosenAre ==
  ASSUME HT!HubAssumption, NEW S \in Repositories, NEW q
  PROVE  HT!Chosen(S, q) \subseteq HT!Weights(S)
<1> DEFINE w == HT!Weights(S)
           models == {f \in w : ~HT!IsProjector(f)}
<1>1. models \in SUBSET w
  OBVIOUS
<1>2. HT!OfQuant(models, q) \subseteq w /\ HT!OfQuant(models, HT!DefaultQuant) \subseteq w
  BY DEF HT!OfQuant
<1>3. ASSUME models # {} PROVE HT!FirstSet(models) \subseteq w
  <2>1. HT!FirstByName(models) \in models
    <3> HIDE DEF models, w
    <3> QED BY <1>1, <1>3, FirstIsOne DEF w
  <2> QED BY <2>1 DEF HT!FirstSet
<1>4. HT!Cardinality({}) <= 1
  BY FS_EmptySet, HubCardinality
<1>5. HT!SelectGGUFFiles(w, q) \subseteq w
  <2>1. CASE models = {}
    BY <1>4, <2>1 DEF HT!SelectGGUFFiles
  <2>2. CASE models # {}
    <3> HIDE DEF w
    <3> QED BY <1>1, <1>2, <1>3, <2>2 DEF HT!SelectGGUFFiles
  <2> QED BY <2>1, <2>2
<1> QED BY <1>5 DEF HT!Chosen

(* Whatever quantization is asked for, only files of the repository are fetched. *)
LEMMA ToFetchAre ==
  ASSUME HT!HubAssumption, NEW S \in Repositories, NEW q, NEW files \in HT!ToFetch(S, q)
  PROVE  /\ files \subseteq S /\ HT!Chosen(S, q) \subseteq files
         /\ \A f \in files : \/ f \in HT!Chosen(S, q) \/ HT!IsProjector(f)
                            \/ f \notin HT!Weights(S)
<1> DEFINE w == HT!Weights(S)
           one == IF HT!Cardinality(w) <= 1 \/ HT!Projectors(w) = {} THEN {{}}
                  ELSE {{p} : p \in HT!Projectors(w)}
<1>1. w \subseteq S
  BY DEF HT!Weights
<1>2. PICK p \in one : files = HT!Chosen(S, q) \cup p \cup (S \ w)
  BY DEF HT!ToFetch
<1>3. p \subseteq HT!Projectors(w)
  OBVIOUS
<1>4. p \subseteq w /\ \A f \in p : HT!IsProjector(f)
  <2> HIDE DEF w, one
  <2> QED BY <1>3, ProjectorsAre
<1>5. HT!Chosen(S, q) \subseteq w
  BY ChosenAre
<1> HIDE DEF one, w
<1> QED BY <1>1, <1>2, <1>4, <1>5 DEF w

(* Shards have the words of their names in common, and every choice goes by
   the words: whoever takes a shard takes all of its kind. *)
LEMMA ShardsTogether ==
  ASSUME HT!HubAssumption, NEW S \in Repositories, NEW q, NEW files \in HT!ToFetch(S, q),
         NEW f \in files, f.shard # 0, f.kind = "gguf", ~HT!IsProjector(f),
         NEW g \in S, g.kind = "gguf", g.shard # 0, g.words = f.words
  PROVE  g \in files
<1> DEFINE w == HT!Weights(S)
           models == {h \in w : ~HT!IsProjector(h)}
<1>1. f \in w /\ g \in w
  BY ToFetchAre DEF HT!Weights
<1>2. f \in HT!Chosen(S, q)
  BY <1>1, ToFetchAre
<1>3. f \in models /\ g \in models
  BY <1>1 DEF HT!IsProjector
<1>4. \A p : HT!Says(f, p) => HT!Says(g, p)
  BY DEF HT!Says
<1>5. g \in HT!Chosen(S, q)
  <2>1. CASE HT!Cardinality(w) <= 1
    BY <1>1, <2>1 DEF HT!Chosen
  <2>2. CASE ~(HT!Cardinality(w) <= 1)
    <3>1. f \in HT!SelectGGUFFiles(w, q)
      BY <1>2, <2>2 DEF HT!Chosen
    <3>2. ASSUME NEW p, f \in HT!OfQuant(models, p) PROVE g \in HT!OfQuant(models, p)
      BY <1>3, <1>4, <3>2 DEF HT!OfQuant
    <3>3. ASSUME f \in HT!FirstSet(models) PROVE g \in HT!FirstSet(models)
      <4>1. HT!FirstByName(models).shard # 0
        BY <3>3 DEF HT!FirstSet
      <4>2. HT!IsPrefix(HT!FirstByName(models).words, f.words)
        BY <3>3, <4>1 DEF HT!FirstSet
      <4> HIDE DEF models
      <4> QED BY <1>3, <4>1, <4>2 DEF HT!FirstSet
    <3>4. g \in HT!SelectGGUFFiles(w, q)
      <4> DEFINE asked == HT!OfQuant(models, q)
                 usual == HT!OfQuant(models, HT!DefaultQuant)
      <4>1. HT!SelectGGUFFiles(w, q) =
              IF HT!Cardinality(models) <= 1 THEN models
              ELSE IF asked # {} THEN asked
              ELSE IF usual # {} THEN usual
              ELSE HT!FirstSet(models)
        BY DEF HT!SelectGGUFFiles
      <4>2. /\ f \in asked => g \in asked
            /\ f \in usual => g \in usual
        BY <3>2
      <4> HIDE DEF models, asked, usual
      <4> QED BY <1>3, <3>1, <3>3, <4>1, <4>2
    <3> QED BY <2>2, <3>4 DEF HT!Chosen
  <2> QED BY <2>1, <2>2
<1> QED BY <1>5, ToFetchAre

(* A bundle is a sequence; its files are what stands at its indices. *)
LEMMA FilesOfABundle ==
  ASSUME HT!HubAssumption, NEW b \in ObjectLists
  PROVE  /\ Len(b) \in Nat
         /\ \A i \in 1 .. Len(b) : b[i] \in HT!Range(b)
         /\ \A f \in HT!Range(b) : \E i \in 1 .. Len(b) : b[i] = f
<1>1. b \in Seq(HT!Range(b))
  BY DEF HT!HubAssumption
<1>2. DOMAIN b = 1 .. Len(b) /\ Len(b) \in Nat
  BY <1>1, LenProperties
<1> QED BY <1>2 DEF HT!Range

(* A pull and a push that have not begun. *)
LEMMA HubInit == HT!HubAssumption /\ HT!HTInit => HubInv
<1> SUFFICES ASSUME HT!HubAssumption, HT!HTInit PROVE HubInv
  OBVIOUS
<1>1. PullTypes
  <2>1. \A R : <<>> \in [{} -> R]
    OBVIOUS
  <2> QED BY <2>1 DEF HT!HTInit, PullTypes
<1>2. HT!Busy = {}
  BY DEF HT!HTInit, HT!Busy
<1>3. HT!Cardinality(HT!Busy) = 0 /\ Cardinality(HT!Busy) = 0
  BY <1>2, FS_EmptySet, HubCardinality
<1>4. FilesArrive
  <2>1. Cardinality(HT!Busy) <= MaxConcurrent
    BY <1>3 DEF HT!HubAssumption
  <2> QED BY <2>1 DEF HT!HTInit, FilesArrive
<1>5. upload \in Uploads
  <2>1. PICK b \in ObjectLists :
          upload = [phase |-> IF phase = "none" THEN "files" ELSE "none", files |-> b, next |-> 1,
                    actions |-> {}]
    BY DEF HT!HTInit
  <2> QED BY <2>1 DEF Uploads
<1>6. hub \in Hubs /\ hub.commit = {}
  <2>1. {f.oid : f \in HT!Range(upload.files)} \subseteq Objects
    BY <1>5 DEF Uploads, Objects
  <2>2. PICK stored \in SUBSET {f.oid : f \in HT!Range(upload.files)} :
          hub = [objects |-> stored, commit |-> {}]
    BY DEF HT!HTInit
  <2> QED BY <2>1, <2>2 DEF Hubs
<1>7. upload.phase \in {"none", "files"} /\ upload.next = 1
  BY DEF HT!HTInit
<1>8. ObjectsStored
  BY <1>6, <1>7 DEF ObjectsStored
<1> QED BY <1>1, <1>4, <1>5, <1>6, <1>8 DEF HubInv

(* The pull leaves the push alone, and the push the pull. *)
LEMMA PushAside ==
  ASSUME HubInv, UNCHANGED <<upload, hub>>
  PROVE  upload' \in Uploads /\ hub' \in Hubs /\ ObjectsStored'
<1>1. HT!LargeFiles' = HT!LargeFiles
  BY DEF HT!LargeFiles
<1>2. \A n : Stored(n)' <=> Stored(n)
  BY DEF Stored
<1> QED BY <1>1, <1>2 DEF HubInv, ObjectsStored

(* What a push does leaves the pull's part of the invariant alone. *)
LEMMA PullAside ==
  ASSUME HubInv, UNCHANGED <<phase, listing, quant, selected, fetch, directory, gone, cancelled>>
  PROVE  PullTypes' /\ FilesArrive'
<1>1. HT!Busy' = HT!Busy
  BY DEF HT!Busy
<1> QED BY <1>1 DEF HubInv, PullTypes, FilesArrive

(* What a pull has chosen is a finite set, and so is what is under way. *)
LEMMA BusyIsFinite ==
  ASSUME HT!HubAssumption, HubInv
  PROVE  /\ IsFiniteSet(selected) /\ IsFiniteSet(HT!Busy) /\ Cardinality(HT!Busy) \in Nat
         /\ HT!Busy \subseteq selected
<1>1. IsFiniteSet(listing)
  BY HubCardinality DEF HT!HubAssumption, HubInv, PullTypes
<1>2. IsFiniteSet(selected)
  BY <1>1, FS_Subset DEF HubInv, PullTypes
<1>3. HT!Busy \subseteq selected
  BY DEF HT!Busy
<1>4. IsFiniteSet(HT!Busy)
  BY <1>2, <1>3, FS_Subset
<1> QED BY <1>2, <1>3, <1>4, FS_CardinalityType

(* The listing decides what is fetched, before anything is. *)
LEMMA HubListFiles ==
  ASSUME HT!HubAssumption, HubInv, HT!ListFiles
  PROVE  HubInv'
<1>1. UNCHANGED <<listing, quant, gone, upload, hub>>
  BY DEF HT!ListFiles, HT!pushSide
<1>2. /\ phase = "start" /\ phase' = "fetching" /\ selected' \in HT!ToFetch(listing, quant)
      /\ fetch' = [f \in selected' |-> "waiting"] /\ directory' = [f \in selected' |-> "absent"]
      /\ HT!Chosen(listing, quant) # {}
  BY DEF HT!ListFiles
<1>3. selected' \subseteq listing
  BY <1>2, ToFetchAre DEF HubInv, PullTypes
<1>4. PullTypes'
  BY <1>1, <1>2, <1>3 DEF HubInv, PullTypes
<1>5. selected' # {}
  BY <1>2, ToFetchAre DEF HubInv, PullTypes
<1>6. HT!Busy' = {}
  BY <1>2 DEF HT!Busy
<1>7. Cardinality(HT!Busy') <= MaxConcurrent
  BY <1>6, FS_EmptySet DEF HT!HubAssumption
<1>8. selected' \in HT!ToFetch(listing', quant')
  BY <1>1, <1>2
<1>9. FilesArrive'
  BY <1>1, <1>2, <1>5, <1>7, <1>8 DEF FilesArrive, HubInv
<1> QED BY <1>1, <1>4, <1>9, PushAside DEF HubInv

(* The end of the pull, stored or not, once everybody ended. *)
LEMMA HubEnds ==
  ASSUME HT!HubAssumption, HubInv, HT!ListFails \/ HT!BuildModel \/ HT!BuildFails
  PROVE  HubInv'
<1>1. UNCHANGED <<listing, quant, selected, fetch, directory, upload, hub>> /\ gone' = TRUE
  BY DEF HT!ListFails, HT!BuildModel, HT!BuildFails, HT!FailPull, HT!pushSide
<1>2. HT!Busy' = HT!Busy
  BY <1>1 DEF HT!Busy
<1>3. /\ phase' \in {"stored", "failed"}
      /\ phase' = "stored" => (selected # {} /\ \A f \in selected : fetch[f] = "done")
      /\ phase' = "failed" => \A f \in selected : fetch[f] \in {"done", "failed"}
  BY DEF HT!ListFails, HT!BuildModel, HT!BuildFails, HT!FailPull, HT!AllEnded, HT!NoError,
         HubInv, FilesArrive
<1>4. PullTypes'
  BY <1>1, <1>3 DEF HubInv, PullTypes
<1>5. FilesArrive'
  BY <1>1, <1>2, <1>3 DEF HubInv, FilesArrive
<1> QED BY <1>1, <1>4, <1>5, PushAside DEF HubInv

(* A download that fails cancels the others and changes nothing else. *)
LEMMA HubCancelPull ==
  ASSUME HT!HubAssumption, HubInv, HT!CancelPull
  PROVE  HubInv'
<1>1. UNCHANGED <<phase, listing, quant, selected, fetch, directory, gone, upload, hub>>
  BY DEF HT!CancelPull, HT!pushSide
<1>2. HT!Busy' = HT!Busy
  BY <1>1 DEF HT!Busy
<1> QED BY <1>1, <1>2, PushAside DEF HubInv, PullTypes, FilesArrive

(* A download's steps: nobody else is disturbed, and one more is under way
   only where there was place. *)
LEMMA HubFetches ==
  ASSUME HT!HubAssumption, HubInv, NEW f \in selected,
         HT!StartFetch(f) \/ HT!CreateFile(f) \/ HT!EndFetch(f) \/ HT!FetchFails(f)
  PROVE  HubInv'
<1> USE DEF HubInv
<1>1. UNCHANGED <<phase, listing, quant, selected, gone, upload, hub>>
  BY DEF HT!StartFetch, HT!CreateFile, HT!EndFetch, HT!FetchFails, HT!pushSide
<1>2. fetch[f] \in {"waiting", "fetching"}
  BY DEF HT!StartFetch, HT!CreateFile, HT!EndFetch, HT!FetchFails
<1>3. phase = "fetching"
  BY <1>2 DEF PullTypes, FilesArrive
<1>4. PICK s \in {"fetching", "failed", "done"}, d \in {"absent", "partial", "whole"} :
        /\ fetch' = [fetch EXCEPT ![f] = s] /\ directory' = [directory EXCEPT ![f] = d]
        /\ s = "done" => d = "whole"
        /\ s = "fetching" => (fetch[f] = "fetching" \/ HT!Place)
  <2>1. CASE HT!StartFetch(f)
    BY <2>1 DEF HT!StartFetch, PullTypes
  <2>2. CASE HT!CreateFile(f)
    BY <2>2 DEF HT!CreateFile, PullTypes
  <2>3. CASE HT!EndFetch(f)
    BY <2>3 DEF HT!EndFetch, PullTypes
  <2>4. CASE HT!FetchFails(f)
    BY <2>4 DEF HT!FetchFails, PullTypes
  <2> QED BY <2>1, <2>2, <2>3, <2>4
<1>5. PullTypes'
  BY <1>1, <1>4 DEF PullTypes
<1>6. \A g \in selected' : fetch'[g] = "done" => directory'[g] = "whole"
  BY <1>1, <1>4 DEF PullTypes, FilesArrive
<1>7. Cardinality(HT!Busy') <= MaxConcurrent
  <2>1. MaxConcurrent \in Nat /\ IsFiniteSet(HT!Busy) /\ Cardinality(HT!Busy) \in Nat
    BY BusyIsFinite DEF HT!HubAssumption
  <2>2. HT!Busy' \subseteq HT!Busy \cup {f}
    BY <1>1, <1>4 DEF HT!Busy, PullTypes
  <2>3. CASE s = "fetching" /\ fetch[f] # "fetching"
    <3>1. Cardinality(HT!Busy) < MaxConcurrent
      BY <1>4, <2>3, HubCardinality DEF HT!Place
    <3>2. f \notin HT!Busy
      BY <2>3 DEF HT!Busy
    <3>3. IsFiniteSet(HT!Busy \cup {f}) /\ Cardinality(HT!Busy \cup {f}) = Cardinality(HT!Busy) + 1
      BY <2>1, <3>2, FS_AddElement
    <3>4. Cardinality(HT!Busy') <= Cardinality(HT!Busy \cup {f})
      BY <2>2, <3>3, FS_Subset
    <3>5. Cardinality(HT!Busy') \in Nat
      BY <2>2, <3>3, FS_Subset, FS_CardinalityType
    <3> QED BY <2>1, <3>1, <3>3, <3>4, <3>5
  <2>4. CASE ~(s = "fetching" /\ fetch[f] # "fetching")
    <3>1. HT!Busy' \subseteq HT!Busy
      BY <1>1, <1>4, <2>4 DEF HT!Busy, PullTypes
    <3>2. Cardinality(HT!Busy') <= Cardinality(HT!Busy)
      BY <2>1, <3>1, FS_Subset
    <3>3. Cardinality(HT!Busy') \in Nat
      BY <2>1, <3>1, FS_Subset, FS_CardinalityType
    <3>4. Cardinality(HT!Busy) <= MaxConcurrent
      BY DEF FilesArrive
    <3> QED BY <2>1, <3>2, <3>3, <3>4
  <2> QED BY <2>3, <2>4
<1>8. FilesArrive'
  BY <1>1, <1>3, <1>6, <1>7 DEF FilesArrive
<1> QED BY <1>1, <1>5, <1>8, PushAside

(* The push.  Which of its large files are stored, as it goes. *)
LEMMA LargeFilesAre ==
  ASSUME HT!HubAssumption, HubInv
  PROVE  /\ Len(upload.files) \in Nat /\ upload.next \in Nat
         /\ \A i \in 1 .. Len(upload.files) :
              HT!Large(upload.files[i]) => upload.files[i] \in HT!LargeFiles
         /\ \A f \in HT!LargeFiles : \E i \in 1 .. Len(upload.files) : upload.files[i] = f
         /\ \A f \in HT!LargeFiles : f.oid \in Objects
<1>1. upload.files \in ObjectLists /\ upload.next \in Nat
  BY DEF HubInv, Uploads
<1> QED BY <1>1, FilesOfABundle DEF HT!LargeFiles, Objects

(* The hub has already what it does not ask for: those objects are stored. *)
LEMMA HubBatch ==
  ASSUME HT!HubAssumption, HubInv, HT!Batch
  PROVE  HubInv'
<1>1. /\ UNCHANGED hub
      /\ UNCHANGED <<phase, listing, quant, selected, fetch, directory, gone, cancelled>>
  BY DEF HT!Batch, HT!pullSide
<1>2. upload.phase = "files"
  BY DEF HT!Batch
<1>3. PICK needed \in SUBSET {f.oid : f \in HT!LargeFiles} :
        /\ {f.oid : f \in HT!LargeFiles} \ needed \subseteq hub.objects
        /\ upload' = [upload EXCEPT !.phase = "uploading", !.actions = needed]
  BY DEF HT!Batch
<1>4. needed \subseteq Objects
  BY LargeFilesAre
<1>5. upload' \in Uploads /\ upload'.files = upload.files
  BY <1>3, <1>4 DEF HubInv, Uploads
<1>6. upload'.phase = "uploading" /\ upload'.actions = needed /\ upload'.next = upload.next
  BY <1>3 DEF HubInv, Uploads
<1>7. upload.next = 1
  BY <1>2 DEF HubInv, ObjectsStored
<1>8. Stored(upload.next)'
  BY <1>6, <1>7 DEF Stored
<1>9. HT!LargeFiles' = HT!LargeFiles
  BY <1>5 DEF HT!LargeFiles
<1>10. hub.commit = {}
  BY <1>2 DEF HubInv, ObjectsStored
<1>11. ObjectsStored'
  BY <1>1, <1>3, <1>6, <1>7, <1>8, <1>9, <1>10 DEF ObjectsStored
<1> QED BY <1>1, <1>5, <1>11, PullAside DEF HubInv

(* A push that fails commits nothing. *)
LEMMA HubFailPush ==
  ASSUME HT!HubAssumption, HubInv, HT!FailPush
  PROVE  HubInv'
<1>1. /\ UNCHANGED hub
      /\ UNCHANGED <<phase, listing, quant, selected, fetch, directory, gone, cancelled>>
  BY DEF HT!FailPush, HT!pullSide
<1>2. upload.phase # "pushed" /\ upload' = [upload EXCEPT !.phase = "failed"]
  BY DEF HT!FailPush
<1>3. upload' \in Uploads /\ upload'.phase = "failed"
  BY <1>2 DEF HubInv, Uploads
<1>4. ObjectsStored'
  BY <1>1, <1>2, <1>3 DEF HubInv, ObjectsStored
<1> QED BY <1>1, <1>3, <1>4, PullAside DEF HubInv

(* An upload stores the next large object: all before it are stored. *)
LEMMA HubUploadObject ==
  ASSUME HT!HubAssumption, HubInv, HT!UploadObject
  PROVE  HubInv'
<1>1. UNCHANGED <<phase, listing, quant, selected, fetch, directory, gone, cancelled>>
  BY DEF HT!UploadObject, HT!pullSide
<1>2. upload.phase = "uploading"
  BY DEF HT!UploadObject
<1>3. PICK i \in HT!Left :
        LET f == upload.files[i]
        IN  /\ HT!IsNext(i)
            /\ \/ /\ hub' = [hub EXCEPT !.objects = @ \cup (IF f.oid \in upload.actions THEN {f.oid} ELSE {})]
                  /\ upload' = [upload EXCEPT !.next = i + 1]
               \/ /\ f.oid \in upload.actions /\ UNCHANGED hub
                  /\ upload' = [upload EXCEPT !.phase = "failed"]
  BY DEF HT!UploadObject
<1> DEFINE f == upload.files[i]
<1>4. hub.commit = {}
  BY <1>2 DEF HubInv, ObjectsStored
<1>5. CASE UNCHANGED hub /\ upload' = [upload EXCEPT !.phase = "failed"]
  <2>1. upload' \in Uploads /\ upload'.phase = "failed" /\ upload'.next = upload.next
    BY <1>5 DEF HubInv, Uploads
  <2>2. ObjectsStored'
    BY <1>4, <1>5, <2>1 DEF HubInv, ObjectsStored
  <2> QED BY <1>1, <1>5, <2>1, <2>2, PullAside DEF HubInv
<1>6. CASE /\ hub' = [hub EXCEPT !.objects = @ \cup (IF f.oid \in upload.actions THEN {f.oid} ELSE {})]
           /\ upload' = [upload EXCEPT !.next = i + 1]
  <2>1. i \in 1 .. Len(upload.files) /\ i \in Nat /\ upload.next <= i /\ HT!Large(f)
        /\ \A j \in upload.next .. i - 1 : ~HT!Large(upload.files[j])
    BY <1>3, LargeFilesAre DEF HT!Left, HT!IsNext, HubInv, ObjectsStored
  <2>2. f \in HT!LargeFiles /\ f.oid \in Objects
    BY <2>1, LargeFilesAre
  <2>3. upload' \in Uploads /\ upload'.next = i + 1
        /\ \A x \in {"phase", "files", "actions"} : upload'[x] = upload[x]
    BY <1>6, <2>1 DEF HubInv, Uploads
  <2>4. hub' \in Hubs /\ hub'.commit = {} /\ hub.objects \subseteq hub'.objects
        /\ (f.oid \in upload.actions => f.oid \in hub'.objects)
    BY <1>4, <1>6, <2>2 DEF HubInv, Hubs
  <2>5. HT!LargeFiles' = HT!LargeFiles
    BY <2>3 DEF HT!LargeFiles
  <2>6. f.oid \in hub'.objects
    BY <1>2, <2>2, <2>4 DEF HubInv, ObjectsStored
  <2>7. Stored(upload.next)'
    <3>1. \A j \in 1 .. upload.next - 1 : j <= Len(upload.files) /\ HT!Large(upload.files[j])
            => upload.files[j].oid \in hub.objects
      BY <1>2 DEF HubInv, ObjectsStored, Stored
    <3>2. ASSUME NEW j \in 1 .. i, j <= Len(upload.files), HT!Large(upload.files[j])
          PROVE  upload.files[j].oid \in hub'.objects
      <4>0. upload.next \in Nat
        BY LargeFilesAre
      <4>1. CASE j = i
        BY <2>6, <4>1
      <4>2. CASE j < upload.next
        BY <2>4, <3>1, <3>2, <4>0, <4>2
      <4>3. ~(upload.next <= j /\ j < i)
        BY <2>1, <3>2, <4>0
      <4> QED BY <2>1, <4>0, <4>1, <4>2, <4>3
    <3>3. upload'.next - 1 = i /\ upload'.files = upload.files
      BY <2>1, <2>3
    <3> QED BY <3>2, <3>3 DEF Stored, HT!Large
  <2>8. upload'.next >= 1
    BY <2>1, <2>3
  <2>9. upload'.phase = "uploading"
    BY <1>2, <2>3
  <2>10. \A g \in HT!LargeFiles : g.oid \in upload'.actions \/ g.oid \in hub'.objects
    BY <1>2, <2>3, <2>4 DEF HubInv, ObjectsStored
  <2>11. ObjectsStored'
    BY <2>4, <2>5, <2>7, <2>8, <2>9, <2>10 DEF ObjectsStored
  <2> QED BY <1>1, <2>3, <2>4, <2>11, PullAside DEF HubInv
<1> QED BY <1>3, <1>5, <1>6

(* When no large file is left, all objects of the bundle are stored. *)
LEMMA HubUploadsEnd ==
  ASSUME HT!HubAssumption, HubInv, HT!UploadsEnd
  PROVE  HubInv'
<1>1. /\ UNCHANGED hub
      /\ UNCHANGED <<phase, listing, quant, selected, fetch, directory, gone, cancelled>>
  BY DEF HT!UploadsEnd, HT!pullSide
<1>2. /\ upload.phase = "uploading" /\ upload' = [upload EXCEPT !.phase = "commit"]
      /\ \A i \in upload.next .. Len(upload.files) : ~HT!Large(upload.files[i])
  BY DEF HT!UploadsEnd, HT!Left
<1>3. /\ upload' \in Uploads /\ upload'.phase = "commit" /\ upload'.files = upload.files
      /\ upload'.next = upload.next
  BY <1>2 DEF HubInv, Uploads
<1>4. HT!LargeFiles' = HT!LargeFiles
  BY <1>3 DEF HT!LargeFiles
<1>5. \A f \in HT!LargeFiles : f.oid \in hub.objects
  <2> SUFFICES ASSUME NEW f \in HT!LargeFiles PROVE f.oid \in hub.objects
    OBVIOUS
  <2>1. PICK i \in 1 .. Len(upload.files) : upload.files[i] = f
    BY LargeFilesAre
  <2>2. HT!Large(f)
    BY DEF HT!LargeFiles
  <2>3. i \in 1 .. upload.next - 1 /\ i <= Len(upload.files)
    BY <1>2, <2>1, <2>2, LargeFilesAre
  <2> QED BY <1>2, <2>1, <2>2, <2>3 DEF HubInv, ObjectsStored, Stored
<1>6. hub.commit = {}
  BY <1>2 DEF HubInv, ObjectsStored
<1>7. ObjectsStored'
  BY <1>1, <1>3, <1>4, <1>5, <1>6 DEF HubInv, ObjectsStored
<1> QED BY <1>1, <1>3, <1>7, PullAside DEF HubInv

(* The commit names the files of the bundle, whose objects are stored. *)
LEMMA HubCreateCommit ==
  ASSUME HT!HubAssumption, HubInv, HT!CreateCommit
  PROVE  HubInv'
<1>1. UNCHANGED <<phase, listing, quant, selected, fetch, directory, gone, cancelled>>
  BY DEF HT!CreateCommit, HT!pullSide
<1>2. /\ upload.phase = "commit" /\ upload' = [upload EXCEPT !.phase = "pushed"]
      /\ hub' = [hub EXCEPT !.commit = HT!Range(upload.files)]
  BY DEF HT!CreateCommit
<1>3. /\ upload' \in Uploads /\ upload'.phase = "pushed" /\ upload'.files = upload.files
  BY <1>2 DEF HubInv, Uploads
<1>4. HT!LargeFiles' = HT!LargeFiles
  BY <1>3 DEF HT!LargeFiles
<1>5. HT!Range(upload.files) \subseteq UNION {HT!Range(b) : b \in ObjectLists}
  BY DEF HubInv, Uploads
<1>6. hub' \in Hubs /\ hub'.objects = hub.objects /\ hub'.commit = HT!Range(upload.files)
  BY <1>2, <1>5 DEF HubInv, Hubs
<1>7. ObjectsStored'
  BY <1>2, <1>3, <1>4, <1>6 DEF HubInv, ObjectsStored
<1> QED BY <1>1, <1>3, <1>6, <1>7, PullAside DEF HubInv

(* Every step of a pull or a push keeps the invariant. *)
LEMMA HubMoves ==
  ASSUME HT!HubAssumption, HubInv, [HT!HTNext]_HT!htVars
  PROVE  HubInv'
<1>1. CASE HT!ListFiles
  BY <1>1, HubListFiles
<1>2. CASE HT!ListFails \/ HT!BuildModel \/ HT!BuildFails
  BY <1>2, HubEnds
<1>3. CASE HT!CancelPull
  BY <1>3, HubCancelPull
<1>4. CASE \E f \in selected : \/ HT!StartFetch(f) \/ HT!CreateFile(f)
                               \/ HT!EndFetch(f) \/ HT!FetchFails(f)
  BY <1>4, HubFetches
<1>5. CASE HT!Batch
  BY <1>5, HubBatch
<1>6. CASE HT!UploadObject
  BY <1>6, HubUploadObject
<1>7. CASE HT!UploadsEnd
  BY <1>7, HubUploadsEnd
<1>8. CASE HT!CreateCommit
  BY <1>8, HubCreateCommit
<1>9. CASE HT!FailPush
  BY <1>9, HubFailPush
<1>10. CASE UNCHANGED HT!htVars
  BY <1>10, PullAside, PushAside DEF HT!htVars, HubInv
<1> QED BY <1>1, <1>2, <1>3, <1>4, <1>5, <1>6, <1>7, <1>8, <1>9, <1>10 DEF HT!HTNext

(* What the listings of the code are made of: only weight files are split
   into shards, and a projector is one file. *)
ShardsAreWeights ==
  \A S \in Repositories : \A f \in S : f.shard # 0 => f.kind = "gguf" /\ ~HT!IsProjector(f)

(* What the invariant says of the pull's files and of the commit. *)
LEMMA HubSound ==
  ASSUME HT!HubAssumption, HubInv
  PROVE  /\ HT!HTTypeOK /\ HT!AllFilesArrive /\ HT!NobodyWritesIntoTheVoid
         /\ HT!CommittedIsStored
         /\ ShardsAreWeights => HT!WholeShardSets
<1>1. HT!HTTypeOK
  <2>1. HT!Cardinality(HT!Busy) <= MaxConcurrent
    BY HubCardinality DEF HubInv, FilesArrive
  <2> QED BY <2>1 DEF HT!HTTypeOK, HubInv, PullTypes, Uploads
<1>2. HT!AllFilesArrive
  BY DEF HT!AllFilesArrive, HubInv, FilesArrive
<1>3. HT!NobodyWritesIntoTheVoid
  <2> SUFFICES ASSUME gone PROVE \A f \in selected : fetch[f] # "fetching"
    BY DEF HT!NobodyWritesIntoTheVoid, HT!Busy
  <2>1. phase \in {"stored", "failed"}
    BY DEF HubInv, PullTypes, FilesArrive
  <2> QED BY <2>1 DEF HubInv, FilesArrive
<1>4. HT!CommittedIsStored
  <2> SUFFICES ASSUME NEW f \in hub.commit, HT!Large(f) PROVE f.oid \in hub.objects
    BY DEF HT!CommittedIsStored
  <2>1. upload.phase = "pushed" /\ f \in HT!LargeFiles
    BY DEF HubInv, ObjectsStored, HT!LargeFiles
  <2> QED BY <2>1 DEF HubInv, ObjectsStored
<1>5. ASSUME ShardsAreWeights PROVE HT!WholeShardSets
  <2> SUFFICES ASSUME NEW f \in selected, f.shard # 0,
                      NEW g \in listing, g.kind = "gguf", g.shard # 0, g.words = f.words
               PROVE  g \in selected
    BY DEF HT!WholeShardSets
  <2>1. selected \in HT!ToFetch(listing, quant) /\ listing \in Repositories /\ f \in listing
    BY DEF HubInv, PullTypes, FilesArrive
  <2>2. f.kind = "gguf" /\ ~HT!IsProjector(f)
    BY <1>5, <2>1 DEF ShardsAreWeights
  <2> QED BY <2>1, <2>2, ShardsTogether
<1> QED BY <1>1, <1>2, <1>3, <1>4, <1>5

-----------------------------------------------------------------------------
(***************************************************************************)
(* The recorder.  A list holds each call at most once, under a record ID   *)
(* of its own, so what is found by the ID of a call is its own record.  A  *)
(* call that nothing excuses is in the list of the model its name has had  *)
(* all along.  A subscriber that did not fall behind has been shown every  *)
(* answer, or it is on the way, or in the lists still to be sent.          *)
(***************************************************************************)
Origins == {""} \cup {BodyOf[c].origin : c \in Calls}
Told == {NoBody} \cup {RC!Answer(BodyOf[c], o) : c \in Calls, o \in Origins}
RecordIDs == {RC!NoRecord} \cup (RunnerIDs \X Calls)
Pcs == {"loaded", "serving", "served", "converted", "recorded", "done"}
RunningCalls ==
  [pc : Pcs, ref : CallRefs, runner : RunnerIDs \X Modes, rid : RecordIDs, answer : Told]
Lists == [config : BOOLEAN, recs : Seq(Calls)]
Messages == [model : CallRefs, rec : Calls]
Subscriptions ==
  [pc : {"registered", "listing", "live"}, filter : Filters, list : Seq(Nat \X Nat), next : Nat,
   chan : Seq(Messages), seen : SUBSET (Calls \X Told), sure : BOOLEAN]
GoneSubscriber == [pc |-> "gone", chan |-> <<>>]

RecTypes ==
  /\ named \in [CallRefs -> RunnerIDs] /\ runners \subseteq RunnerIDs \X Modes
  /\ call \in [Calls -> {RC!Idle} \cup RunningCalls]
  /\ heap \in Seq(Lists) /\ records \in [RunnerIDs -> Nat]
  /\ answered \in [Calls -> Told]
  /\ pending \subseteq Calls \X Calls
  /\ sending \subseteq [to : Subscribers, by : Calls, rec : Calls]
  /\ sub \in [Subscribers -> {RC!NotSubscribed, GoneSubscriber} \cup Subscriptions]
  /\ excuse \in [Calls -> SUBSET {"moved", "removed", "shifted"}]
  /\ panicked = FALSE

(* What a list of the heap is like. *)
ListOK(l) ==
  /\ Len(l.recs) <= MaxRecords
  /\ \A i, j \in 1 .. Len(l.recs) : l.recs[i] = l.recs[j] => i = j
  /\ \A i \in 1 .. Len(l.recs) :
       /\ call[l.recs[i]].pc \in Pcs \ {"loaded"}
       /\ call[l.recs[i]].rid \in RunnerIDs \X {l.recs[i]}
HeapOK ==
  /\ \A id \in RunnerIDs : records[id] <= Len(heap)
  /\ \A i \in 1 .. Len(heap) : ListOK(heap[i])

InList(c, id) == \E i \in 1 .. Len(RC!Listed(id)) : RC!Listed(id)[i] = c
CallOK(c) ==
  /\ call[c].pc \in Pcs /\ call[c].pc # "loaded" => call[c].rid \in RunnerIDs \X {c}
  /\ call[c].pc \in {"loaded", "serving", "served", "converted"} =>
       /\ excuse[c] = {} => named[call[c].ref] = call[c].runner[1]
       /\ call[c].pc # "loaded" /\ excuse[c] = {} => InList(c, call[c].runner[1])
  /\ call[c].pc = "converted" =>
       \/ call[c].answer = RC!Answer(BodyOf[c], BodyOf[c].origin)
       \/ /\ call[c].answer = RC!Answer(BodyOf[c], "")
          /\ "moved" \in excuse[c] \/ ~InList(c, named[call[c].ref])
  /\ call[c].pc \in {"recorded", "done"} /\ excuse[c] = {} => answered[c] # NoBody
  /\ answered[c] # NoBody =>
       /\ call[c].pc \in {"recorded", "done"}
       /\ \/ answered[c] = RC!Answer(BodyOf[c], BodyOf[c].origin)
          \/ "moved" \in excuse[c] /\ answered[c] = RC!Answer(BodyOf[c], "")
CallsOK == \A c \in Calls : CallOK(c)

BroadcastsOK ==
  /\ \A b \in pending : b[1] = b[2] /\ call[b[1]].pc \in {"recorded", "done"}
  /\ \A m \in sending : /\ call[m.by].pc \in {"recorded", "done"}
                        /\ sub[m.to].pc \in {"registered", "listing", "live"}

(* Where an answer may be that a subscriber has not been shown. *)
Reachable(c) == \E id \in RunnerIDs : InList(c, id)
Shown(s, c) ==
  \/ <<c, answered[c]>> \in sub[s].seen
  \/ \E i \in 1 .. Len(sub[s].chan) : sub[s].chan[i].rec = c
OnTheWay(s, c) ==
  \/ answered[c] = NoBody
  \/ \E b \in pending : b[2] = c
  \/ \E m \in sending : m.to = s /\ m.rec = c
Remaining(s, c) ==
  \E k \in 1 .. Len(sub[s].list) : \E j \in 1 .. sub[s].list[k][2] :
    /\ k = 1 => j >= sub[s].next
    /\ heap[sub[s].list[k][1]].recs[j] = c
ListsToSend(s) ==
  /\ sub[s].next >= 1
  /\ sub[s].pc = "registered" => sub[s].next = 1
  /\ \A k \in 1 .. Len(sub[s].list) :
       /\ sub[s].list[k][1] \in 1 .. Len(heap)
       /\ sub[s].list[k][2] <= Len(heap[sub[s].list[k][1]].recs)
NothingMissed(s) ==
  /\ sub[s].pc \in {"registered", "listing", "live"} => ListsToSend(s)
  /\ sub[s].pc \in {"listing", "live"} /\ sub[s].sure /\ sub[s].filter = Every =>
       \A c \in Calls : Reachable(c) =>
         OnTheWay(s, c) \/ Shown(s, c) \/ (sub[s].pc = "listing" /\ Remaining(s, c))

RecInv ==
  /\ RecTypes /\ HeapOK /\ CallsOK /\ BroadcastsOK
  /\ \A s \in Subscribers : NothingMissed(s)

(* An answer is one of the texts a record may hold. *)
LEMMA AnswersAreTold ==
  ASSUME NEW c \in Calls
  PROVE  \A o \in Origins : RC!Answer(BodyOf[c], o) \in Told
BY DEF Told

(* The lists, as the heap has them. *)
LEMMA ListsAre ==
  ASSUME RecTypes, HeapOK, NEW id \in RunnerIDs
  PROVE  /\ RC!Listed(id) \in Seq(Calls) /\ Len(RC!Listed(id)) \in Nat
         /\ records[id] = 0 => Len(RC!Listed(id)) = 0
         /\ records[id] # 0 => /\ records[id] \in 1 .. Len(heap)
                               /\ RC!Listed(id) = heap[records[id]].recs
         /\ \A i, j \in 1 .. Len(RC!Listed(id)) : RC!Listed(id)[i] = RC!Listed(id)[j] => i = j
         /\ \A i \in 1 .. Len(RC!Listed(id)) :
              /\ RC!Listed(id)[i] \in Calls
              /\ call[RC!Listed(id)[i]].pc \in Pcs \ {"loaded"}
              /\ call[RC!Listed(id)[i]].rid \in RunnerIDs \X {RC!Listed(id)[i]}
<1>1. CASE records[id] = 0
  <2>1. RC!Listed(id) = <<>>
    BY <1>1 DEF RC!Listed
  <2> QED BY <1>1, <2>1
<1>2. CASE records[id] # 0
  <2>1. records[id] \in 1 .. Len(heap) /\ RC!Listed(id) = heap[records[id]].recs
    BY <1>2 DEF RecTypes, HeapOK, RC!Listed
  <2>2. heap[records[id]] \in Lists
    BY <2>1 DEF RecTypes
  <2>3. RC!Listed(id) \in Seq(Calls)
    BY <2>1, <2>2 DEF Lists
  <2>4. ListOK(heap[records[id]])
    BY <2>1 DEF HeapOK
  <2> QED BY <1>2, <2>1, <2>3, <2>4 DEF ListOK
<1> QED BY <1>1, <1>2

(* Who has not gone is a subscriber with all that belongs to one. *)
LEMMA OpenSubscribers ==
  ASSUME RecTypes, NEW s \in Subscribers, sub[s].pc \in {"registered", "listing", "live"}
  PROVE  sub[s] \in Subscriptions
<1>1. sub[s] \in {RC!NotSubscribed, GoneSubscriber} \cup Subscriptions
  BY DEF RecTypes
<1>2. RC!NotSubscribed.pc = "idle" /\ GoneSubscriber.pc = "gone"
  BY DEF RC!NotSubscribed, GoneSubscriber
<1> QED BY <1>1, <1>2

(* What is found by the ID of a call is its own record. *)
LEMMA OwnRecord ==
  ASSUME RecTypes, HeapOK, NEW c \in Calls, CallOK(c), call[c].pc \in Pcs \ {"loaded"},
         NEW id \in RunnerIDs
  PROVE  /\ RC!Matching(id, c) = {} <=> ~InList(c, id)
         /\ RC!Matching(id, c) # {} => RC!FirstMatching(id, c) = c
<1> DEFINE l == RC!Listed(id)
           found == RC!Matching(id, c)
<1>1. DOMAIN l = 1 .. Len(l) /\ found \subseteq 1 .. Len(l) /\ Len(l) \in Nat
  BY ListsAre DEF RC!Matching
<1>2. call[c].rid \in RunnerIDs \X {c}
  BY DEF CallOK
<1>3. \A i \in 1 .. Len(l) : i \in found <=> l[i] = c
  <2> SUFFICES ASSUME NEW i \in 1 .. Len(l) PROVE i \in found <=> l[i] = c
    OBVIOUS
  <2>1. call[l[i]].rid \in RunnerIDs \X {l[i]}
    BY ListsAre
  <2>2. call[l[i]].rid[2] = l[i] /\ call[c].rid[2] = c
    BY <1>2, <2>1
  <2> QED BY <1>1, <2>2 DEF RC!Matching
<1>4. found = {} <=> ~InList(c, id)
  BY <1>1, <1>3 DEF InList
<1>5. ASSUME found # {} PROVE RC!FirstMatching(id, c) = c
  <2>1. \E i \in found : \A j \in found : i <= j
    <3> HIDE DEF found
    <3>1. found \in SUBSET Nat
      BY <1>1
    <3> QED BY <1>5, <3>1, NatMin
  <2>2. (CHOOSE i \in found : \A j \in found : i <= j) \in found
    <3> HIDE DEF found
    <3> QED BY <2>1
  <2> QED BY <1>1, <1>3, <2>2 DEF RC!FirstMatching
<1> QED BY <1>4, <1>5

(* Frames: what stays true of a call, of the lists and of a subscriber when the
   step does not do more than it says. *)
(* A call that stays where it is, with its records where they were, keeps its part. *)
LEMMA CallFrame ==
  ASSUME NEW c \in Calls, CallOK(c),
         call'[c] = call[c], answered'[c] = answered[c], excuse[c] \subseteq excuse'[c],
         excuse'[c] = {} => /\ named'[call[c].ref] = named[call[c].ref]
                            /\ InList(c, call[c].runner[1]) => InList(c, call[c].runner[1])',
         \/ "moved" \in excuse'[c]
         \/ /\ named'[call[c].ref] = named[call[c].ref]
            /\ InList(c, named[call[c].ref])' => InList(c, named[call[c].ref])
  PROVE  CallOK(c)'
BY DEF CallOK

(* Lists that do not change stay good while their calls stay recorded. *)
LEMMA HeapFrame ==
  ASSUME RecTypes, HeapOK, UNCHANGED <<heap, records>>,
         \A c \in Calls : call[c].pc \in Pcs \ {"loaded"} =>
           call'[c].pc \in Pcs \ {"loaded"} /\ call'[c].rid = call[c].rid
  PROVE  HeapOK'
<1> SUFFICES ASSUME NEW i \in 1 .. Len(heap) PROVE ListOK(heap[i])'
  BY DEF HeapOK
<1>1. ListOK(heap[i])
  BY DEF HeapOK
<1>0. heap[i] \in Lists
  BY DEF RecTypes
<1>2. \A j \in 1 .. Len(heap[i].recs) : heap[i].recs[j] \in Calls
  BY <1>0 DEF Lists
<1> QED BY <1>1, <1>2 DEF ListOK

(* A subscriber that is left alone misses nothing new. *)
LEMMA MissedFrame ==
  ASSUME NEW s \in Subscribers, NothingMissed(s),
         /\ \A f \in {"pc", "filter", "list", "next"} : sub'[s][f] = sub[s][f]
         /\ sub'[s].sure => sub[s].sure,
         ListsToSend(s) => ListsToSend(s)',
         sub'[s].sure => \A c \in Calls :
           /\ Reachable(c)' => Reachable(c) \/ answered'[c] = NoBody
           /\ OnTheWay(s, c) \/ Shown(s, c) => OnTheWay(s, c)' \/ Shown(s, c)'
           /\ sub[s].pc = "listing" /\ Remaining(s, c) => Remaining(s, c)'
  PROVE  NothingMissed(s)'
<1>1. sub'[s].pc = sub[s].pc /\ sub'[s].filter = sub[s].filter
  OBVIOUS
<1> QED BY <1>1 DEF NothingMissed, OnTheWay

(* Before the first request nothing is recorded and nobody subscribes. *)
LEMMA RecInit ==
  ASSUME RC!RecorderAssumption, RC!RecInit
  PROVE  RecInv
<1>1. RunnerIDs # {}
  BY DEF RC!RecorderAssumption
<1>2. RecTypes
  <2>1. named \in [CallRefs -> RunnerIDs]
    BY <1>1 DEF RC!RecInit
  <2>2. <<>> \in Seq(Lists)
    OBVIOUS
  <2> QED BY <2>1, <2>2 DEF RC!RecInit, RecTypes, Told
<1>3. HeapOK
  BY DEF RC!RecInit, HeapOK
<1>4. CallsOK
  BY DEF RC!RecInit, CallsOK, CallOK, RC!Idle, Pcs
<1>5. BroadcastsOK
  BY DEF RC!RecInit, BroadcastsOK
<1>6. \A s \in Subscribers : NothingMissed(s)
  BY DEF RC!RecInit, NothingMissed, RC!NotSubscribed
<1> QED BY <1>2, <1>3, <1>4, <1>5, <1>6 DEF RecInv

(* Steps that leave the lists and the subscribers alone. *)
LEMMA QuietFrame ==
  ASSUME RecInv, RecTypes', CallsOK',
         UNCHANGED <<heap, records, sending, sub>>,
         pending \subseteq pending',
         \A b \in pending' : b[1] = b[2] /\ call'[b[1]].pc \in {"recorded", "done"},
         \A c \in Calls : call[c].pc \in {"recorded", "done"} =>
           call'[c].pc \in {"recorded", "done"},
         \A c \in Calls : call[c].pc \in Pcs \ {"loaded"} =>
           call'[c].pc \in Pcs \ {"loaded"} /\ call'[c].rid = call[c].rid,
         \A c \in Calls : answered'[c] = answered[c] \/ (\E b \in pending' : b[2] = c)
  PROVE  RecInv'
<1>1. HeapOK'
  BY HeapFrame DEF RecInv
<1>2. BroadcastsOK'
  BY DEF RecInv, BroadcastsOK, RecTypes
<1>3. \A c \in Calls : \A id \in RunnerIDs : InList(c, id)' <=> InList(c, id)
  BY DEF InList, RC!Listed
<1>4. ASSUME NEW s \in Subscribers PROVE NothingMissed(s)'
  <2>1. ListsToSend(s) => ListsToSend(s)'
    BY DEF ListsToSend
  <2>2. ASSUME NEW c \in Calls
        PROVE  /\ Reachable(c)' => Reachable(c)
               /\ OnTheWay(s, c) \/ Shown(s, c) => OnTheWay(s, c)' \/ Shown(s, c)'
               /\ Remaining(s, c) => Remaining(s, c)'
    <3>1. Reachable(c)' => Reachable(c)
      BY <1>3 DEF Reachable
    <3>2. OnTheWay(s, c) \/ Shown(s, c) => OnTheWay(s, c)' \/ Shown(s, c)'
      BY DEF OnTheWay, Shown
    <3>3. Remaining(s, c) => Remaining(s, c)'
      BY DEF Remaining
    <3> QED BY <3>1, <3>2, <3>3
  <2>3. NothingMissed(s)
    BY DEF RecInv
  <2> QED BY <2>1, <2>2, <2>3, MissedFrame
<1> QED BY <1>1, <1>2, <1>4 DEF RecInv

(* A name that moves excuses the calls that use it, and changes no list. *)
LEMMA RecRetag ==
  ASSUME RecInv, NEW n \in CallRefs, RC!Retag(n)
  PROVE  RecInv'
<1>1. UNCHANGED <<runners, call, heap, records, answered, pending, sending, sub, panicked>>
  BY DEF RC!Retag
<1>2. \E id \in RunnerIDs : named' = [named EXCEPT ![n] = id]
  BY DEF RC!Retag
<1>3. excuse' = [c \in Calls |-> IF c \in RC!Running /\ call[c].ref = n THEN excuse[c] \cup {"moved"}
                                 ELSE excuse[c]]
  BY DEF RC!Retag
<1>4. RecTypes'
  <2>1. named' \in [CallRefs -> RunnerIDs]
    BY <1>2 DEF RecInv, RecTypes
  <2>2. excuse' \in [Calls -> SUBSET {"moved", "removed", "shifted"}]
    BY <1>3 DEF RecInv, RecTypes
  <2> QED BY <1>1, <2>1, <2>2 DEF RecInv, RecTypes
<1>5. ASSUME NEW c \in Calls PROVE CallOK(c)'
  <2>1. CallOK(c)
    BY DEF RecInv, CallsOK
  <2>2. CASE call[c].pc \in {"idle", "recorded", "done"}
    BY <1>1, <1>3, <2>1, <2>2 DEF CallOK, Pcs
  <2>3. CASE call[c].pc \notin {"idle", "recorded", "done"}
    <3>1. c \in RC!Running
      BY <2>3 DEF RC!Running
    <3>2. CASE call[c].ref = n
      <4>1. "moved" \in excuse'[c] /\ excuse[c] \subseteq excuse'[c]
        BY <1>3, <3>1, <3>2
      <4>2. call'[c] = call[c] /\ answered'[c] = answered[c]
        BY <1>1
      <4> QED BY <2>1, <4>1, <4>2, CallFrame
    <3>3. CASE call[c].ref # n
      <4>1. excuse'[c] = excuse[c] /\ call'[c] = call[c] /\ answered'[c] = answered[c]
        BY <1>1, <1>3, <3>3
      <4>2. call[c].ref \in CallRefs
        BY <2>3 DEF RecInv, RecTypes, RC!Idle, RunningCalls
      <4>3. named'[call[c].ref] = named[call[c].ref]
        BY <1>2, <3>3, <4>2 DEF RecInv, RecTypes
      <4>4. \A id : InList(c, id)' <=> InList(c, id)
        BY <1>1 DEF InList, RC!Listed
      <4> QED BY <2>1, <4>1, <4>3, <4>4, CallFrame
    <3> QED BY <3>2, <3>3
  <2> QED BY <2>2, <2>3
<1>6. CallsOK'
  BY <1>5 DEF CallsOK
<1>7. /\ \A b \in pending' : b[1] = b[2] /\ call'[b[1]].pc \in {"recorded", "done"}
      /\ \A c \in Calls : answered'[c] = answered[c] /\ call'[c] = call[c]
  BY <1>1 DEF RecInv, BroadcastsOK
<1> QED BY <1>1, <1>4, <1>6, <1>7, QuietFrame

(* A step of a call that only moves it on, with the answer it was given. *)
LEMMA RecMovesOn ==
  ASSUME RecInv, RC!UnansweredAssumption, NEW c \in Calls,
         RC!ServeHTTP(c) \/ RC!Convert(c) \/ RC!Release(c)
  PROVE  RecInv'
<1>1. UNCHANGED <<named, runners, heap, records, answered, pending, sending, sub, excuse, panicked>>
  BY DEF RC!ServeHTTP, RC!Convert, RC!Release
<1>2. call[c].pc \in {"serving", "served", "recorded"} /\ call[c] \in RunningCalls
  <2>1. call[c].pc \in {"serving", "served", "recorded"}
    BY DEF RC!ServeHTTP, RC!Convert, RC!Release
  <2> QED BY <2>1 DEF RecInv, RecTypes, RC!Idle
<1>3. CallOK(c)
  BY DEF RecInv, CallsOK
<1> DEFINE id == named[call[c].ref]
           origin == IF RC!Matching(id, c) = {} THEN "" ELSE BodyOf[RC!FirstMatching(id, c)].origin
<1>4. id \in RunnerIDs
  BY <1>2 DEF RecInv, RecTypes, RunningCalls
<1>5. origin \in Origins /\ (origin = IF InList(c, id) THEN BodyOf[c].origin ELSE "")
  BY <1>2, <1>3, <1>4, OwnRecord DEF RecInv, Origins, Pcs
<1>6. PICK p \in Pcs, a \in Told :
        /\ call' = [call EXCEPT ![c].pc = p, ![c].answer = a]
        /\ \/ call[c].pc = "serving" /\ p = "served"
           \/ call[c].pc = "served" /\ p = "converted" /\ a = RC!Answer(BodyOf[c], origin)
           \/ call[c].pc = "recorded" /\ p = "done"
  <2> DEFINE a0 == call[c].answer
             a1 == RC!Answer(BodyOf[c], origin)
  <2>1. a0 \in Told /\ a1 \in Told
    BY <1>2, <1>5, AnswersAreTold DEF RunningCalls
  <2>2. CASE RC!ServeHTTP(c)
    <3>1. call[c].pc = "serving" /\ call' = [call EXCEPT ![c].pc = "served"]
      BY <2>2 DEF RC!ServeHTTP
    <3>2. call' = [call EXCEPT ![c].pc = "served", ![c].answer = a0]
      BY <1>2, <3>1 DEF RecInv, RecTypes, RunningCalls
    <3> HIDE DEF a0
    <3> QED BY <2>1, <3>1, <3>2 DEF Pcs
  <2>3. CASE RC!Convert(c)
    <3>1. /\ call[c].pc = "served"
          /\ call' = [call EXCEPT ![c].answer = a1, ![c].pc = "converted"]
      BY <2>3 DEF RC!Convert
    <3> HIDE DEF a1, a0
    <3>2. call' = [call EXCEPT ![c].pc = "converted", ![c].answer = a1]
      BY <1>2, <3>1 DEF RecInv, RecTypes, RunningCalls
    <3> QED BY <2>1, <3>1, <3>2 DEF Pcs, a1
  <2>4. CASE RC!Release(c)
    <3>1. call[c].pc = "recorded" /\ call' = [call EXCEPT ![c].pc = "done"]
      BY <2>4 DEF RC!Release
    <3>2. call' = [call EXCEPT ![c].pc = "done", ![c].answer = a0]
      BY <1>2, <3>1 DEF RecInv, RecTypes, RunningCalls
    <3> HIDE DEF a0
    <3> QED BY <2>1, <3>1, <3>2 DEF Pcs
  <2> QED BY <2>2, <2>3, <2>4
<1>7. /\ call' \in [Calls -> {RC!Idle} \cup RunningCalls]
      /\ call'[c].pc = p /\ call'[c].answer = a /\ call'[c].ref = call[c].ref
      /\ call'[c].runner = call[c].runner /\ call'[c].rid = call[c].rid
      /\ \A d \in Calls \ {c} : call'[d] = call[d]
  <2> DEFINE new == [call[c] EXCEPT !.pc = p, !.answer = a]
  <2>1. new \in RunningCalls /\ new.pc = p /\ new.answer = a /\ new.ref = call[c].ref
        /\ new.runner = call[c].runner /\ new.rid = call[c].rid
    BY <1>2, <1>6 DEF RunningCalls
  <2>2. call' = [call EXCEPT ![c] = new]
    BY <1>6
  <2> HIDE DEF new
  <2> QED BY <2>1, <2>2 DEF RecInv, RecTypes
<1>8. RecTypes'
  BY <1>1, <1>7 DEF RecInv, RecTypes
<1>9. \A d \in Calls : \A i : InList(d, i)' <=> InList(d, i)
  BY <1>1 DEF InList, RC!Listed
<1>10. CallOK(c)'
  <2>1. excuse'[c] = excuse[c] /\ answered'[c] = answered[c] /\ named' = named
    BY <1>1
  <2>2. CASE p = "served"
    BY <1>3, <1>6, <1>7, <1>9, <2>1, <2>2 DEF CallOK, Pcs
  <2>3. CASE p = "converted"
    <3>1. call[c].pc = "served" /\ a = RC!Answer(BodyOf[c], origin)
      BY <1>6, <2>3
    <3> HIDE DEF origin
    <3> QED BY <1>3, <1>5, <1>7, <1>9, <2>1, <2>3, <3>1 DEF CallOK, Pcs
  <2>4. CASE p = "done"
    BY <1>3, <1>6, <1>7, <1>9, <2>1, <2>4 DEF CallOK, Pcs
  <2> QED BY <1>6, <2>2, <2>3, <2>4
<1>11. ASSUME NEW d \in Calls \ {c} PROVE CallOK(d)'
  <2>1. /\ CallOK(d) /\ call'[d] = call[d] /\ answered'[d] = answered[d] /\ excuse'[d] = excuse[d]
        /\ named' = named
    BY <1>1, <1>7 DEF RecInv, CallsOK
  <2> QED BY <1>9, <2>1, CallFrame
<1>12. CallsOK'
  BY <1>10, <1>11 DEF CallsOK
<1>13. \A d \in Calls : /\ call[d].pc \in {"recorded", "done"} => call'[d].pc \in {"recorded", "done"}
                        /\ call[d].pc \in Pcs \ {"loaded"} =>
                             call'[d].pc \in Pcs \ {"loaded"} /\ call'[d].rid = call[d].rid
  BY <1>2, <1>6, <1>7 DEF Pcs
<1>14. \A b \in pending' : b[1] = b[2] /\ call'[b[1]].pc \in {"recorded", "done"}
  BY <1>1, <1>13 DEF RecInv, BroadcastsOK, RecTypes
<1> QED BY <1>1, <1>8, <1>12, <1>13, <1>14, QuietFrame

(* The record that matches is the call's own: identifiers tell calls apart. *)
LEMMA RecResponse ==
  ASSUME RecInv, RC!UnansweredAssumption, NEW c \in Calls, RC!RecordResponse(c)
  PROVE  RecInv'
<1>1. UNCHANGED <<named, runners, heap, records, sending, sub, excuse, panicked>>
  BY DEF RC!RecordResponse
<1>2. call[c].pc = "converted" /\ call' = [call EXCEPT ![c].pc = "recorded"]
  BY DEF RC!RecordResponse
<1>3. call[c] \in RunningCalls /\ CallOK(c)
  BY <1>2 DEF RecInv, RecTypes, RC!Idle, CallsOK
<1> DEFINE id == named[call[c].ref]
           new == [call[c] EXCEPT !.pc = "recorded"]
<1>4. /\ new \in RunningCalls /\ new.pc = "recorded" /\ new.answer = call[c].answer /\ new.ref = call[c].ref
      /\ new.runner = call[c].runner /\ new.rid = call[c].rid /\ call' = [call EXCEPT ![c] = new]
  BY <1>2, <1>3 DEF RunningCalls, Pcs
<1> HIDE DEF new
<1>5. id \in RunnerIDs
  BY <1>3 DEF RecInv, RecTypes, RunningCalls
<1>6. IF InList(c, id)
      THEN /\ answered' = [answered EXCEPT ![c] = call[c].answer]
           /\ pending' = pending \cup {<<c, c>>}
      ELSE UNCHANGED <<answered, pending>>
  <2>1. /\ RC!Matching(id, c) = {} <=> ~InList(c, id)
        /\ RC!Matching(id, c) # {} => RC!FirstMatching(id, c) = c
    BY <1>2, <1>3, <1>5, OwnRecord DEF RecInv, Pcs
  <2> DEFINE found == RC!FirstMatching(id, c)
  <2>2. IF RC!Matching(id, c) = {} THEN UNCHANGED <<answered, pending>>
        ELSE /\ answered' = [answered EXCEPT ![found] = call[c].answer]
             /\ pending' = pending \cup {<<c, found>>}
    BY DEF RC!RecordResponse
  <2> HIDE DEF found, id
  <2> QED BY <2>1, <2>2 DEF found
<1>7. call[c].answer \in Told /\ call[c].answer # NoBody
  <2>1. BodyOf[c].origin \in Origins /\ "" \in Origins
    BY DEF Origins
  <2> QED BY <1>2, <1>3, <2>1 DEF CallOK, RunningCalls, RC!UnansweredAssumption
<1>8. RecTypes'
  <2>1. call' \in [Calls -> {RC!Idle} \cup RunningCalls]
    BY <1>4 DEF RecInv, RecTypes
  <2>2. answered' \in [Calls -> Told] /\ pending' \subseteq Calls \X Calls
    <3>1. answered \in [Calls -> Told] /\ pending \subseteq Calls \X Calls
      BY DEF RecInv, RecTypes
    <3>2. CASE InList(c, id)
      BY <1>6, <1>7, <3>1, <3>2
    <3>3. CASE ~InList(c, id)
      BY <1>6, <3>1, <3>3
    <3> QED BY <3>2, <3>3
  <2> QED BY <1>1, <2>1, <2>2 DEF RecInv, RecTypes
<1>9. \A d \in Calls \ {c} : call'[d] = call[d] /\ answered'[d] = answered[d]
  BY <1>4, <1>6 DEF RecInv, RecTypes
<1>10. call'[c] = new /\ (InList(c, id) => answered'[c] = call[c].answer)
       /\ (~InList(c, id) => answered'[c] = answered[c])
  BY <1>4, <1>6 DEF RecInv, RecTypes
<1>11. \A d \in Calls : \A i : InList(d, i)' <=> InList(d, i)
  BY <1>1 DEF InList, RC!Listed
<1>12. CallOK(c)'
  <2>1. /\ call'[c].pc = "recorded" /\ call'[c].rid \in RunnerIDs \X {c} /\ excuse'[c] = excuse[c]
    BY <1>1, <1>2, <1>3, <1>4, <1>10 DEF CallOK, Pcs
  <2>2. answered[c] = NoBody
    BY <1>2, <1>3 DEF CallOK
  <2>3. excuse[c] = {} => InList(c, id)
    BY <1>2, <1>3 DEF CallOK
  <2>4. CASE InList(c, id)
    <3>1. \/ answered'[c] = RC!Answer(BodyOf[c], BodyOf[c].origin)
          \/ answered'[c] = RC!Answer(BodyOf[c], "") /\ "moved" \in excuse[c]
      BY <1>2, <1>3, <1>10, <2>4 DEF CallOK
    <3>2. answered'[c] # NoBody
      BY <1>7, <1>10, <2>4
    <3> QED BY <2>1, <3>1, <3>2 DEF CallOK
  <2>5. CASE ~InList(c, id)
    BY <1>10, <2>1, <2>2, <2>3, <2>5 DEF CallOK
  <2> QED BY <2>4, <2>5
<1>13. ASSUME NEW d \in Calls \ {c} PROVE CallOK(d)'
  <2>1. CallOK(d) /\ excuse'[d] = excuse[d] /\ named' = named
    BY <1>1 DEF RecInv, CallsOK
  <2> QED BY <1>9, <1>11, <2>1, CallFrame
<1>14. CallsOK'
  BY <1>12, <1>13 DEF CallsOK
<1>15. \A d \in Calls : /\ call[d].pc \in {"recorded", "done"} => call'[d].pc \in {"recorded", "done"}
                        /\ call[d].pc \in Pcs \ {"loaded"} =>
                             call'[d].pc \in Pcs \ {"loaded"} /\ call'[d].rid = call[d].rid
  BY <1>4, <1>9, <1>10 DEF Pcs
<1>16. /\ pending \subseteq pending'
       /\ \A b \in pending' : b[1] = b[2] /\ call'[b[1]].pc \in {"recorded", "done"}
  BY <1>4, <1>6, <1>10, <1>15 DEF RecInv, BroadcastsOK, RecTypes
<1>17. \A d \in Calls : answered'[d] = answered[d] \/ (\E b \in pending' : b[2] = d)
  <2>1. CASE InList(c, id)
    <3>1. <<c, c>> \in pending' /\ <<c, c>>[2] = c
      BY <1>6, <2>1
    <3> QED BY <1>9, <3>1
  <2>2. CASE ~InList(c, id)
    BY <1>9, <1>10, <2>2
  <2> QED BY <2>1, <2>2
<1> QED BY <1>1, <1>8, <1>14, <1>15, <1>16, <1>17, QuietFrame

(* A runner that is loaded may make the list of its model's records, empty and
   the last of the heap; the calls that wait for it go on. *)
LEMMA RecLoadRunner ==
  ASSUME RC!RecorderAssumption, RecInv, NEW c \in Calls, NEW n \in CallRefs, NEW mode \in Modes, RC!LoadRunner(c, n, mode)
  PROVE  RecInv'
<1> DEFINE id == named[n]
<1>1. UNCHANGED <<named, answered, pending, sending, sub, excuse, panicked>>
  BY DEF RC!LoadRunner
<1>2. /\ call[c] = RC!Idle /\ runners' = runners \cup {<<id, mode>>}
      /\ IF <<id, mode>> \in runners THEN UNCHANGED <<heap, records>> ELSE RC!SetConfig(id)
  BY DEF RC!LoadRunner
<1> DEFINE new == [pc |-> "loaded", ref |-> n, runner |-> <<id, mode>>, rid |-> RC!NoRecord,
                   answer |-> NoBody]
<1>3. id \in RunnerIDs
  BY DEF RecInv, RecTypes
<1>4. call' = [call EXCEPT ![c] = new]
  BY DEF RC!LoadRunner
<1>5. new \in RunningCalls /\ new.pc = "loaded" /\ new.ref = n /\ new.runner[1] = id
  BY <1>3 DEF RunningCalls, Pcs, RecordIDs, Told
<1> HIDE DEF new
<1>6. /\ heap' \in Seq(Lists) /\ records' \in [RunnerIDs -> Nat] /\ Len(heap) <= Len(heap')
      /\ \A i \in 1 .. Len(heap) : heap'[i].recs = heap[i].recs
      /\ \A i \in 1 .. Len(heap') : i \notin 1 .. Len(heap) => heap'[i].recs = <<>>
      /\ \A i \in RunnerIDs : records'[i] <= Len(heap') /\ RC!Listed(i)' = RC!Listed(i)
  <2>1. /\ heap \in Seq(Lists) /\ records \in [RunnerIDs -> Nat] /\ Len(heap) \in Nat
        /\ \A i \in RunnerIDs : records[i] <= Len(heap)
        /\ \A i \in 1 .. Len(heap) : heap[i] \in Lists
    BY DEF RecInv, RecTypes, HeapOK
  <2>2. CASE UNCHANGED <<heap, records>>
    BY <2>1, <2>2 DEF RC!Listed
  <2>3. CASE RC!SetConfig(id) /\ records[id] = 0
    <3> DEFINE empty == [config |-> TRUE, recs |-> <<>>]
    <3>1. /\ heap' = Append(heap, empty) /\ records' = [records EXCEPT ![id] = Len(heap) + 1]
      BY <2>3 DEF RC!SetConfig
    <3>2. empty \in Lists /\ empty.recs = <<>>
      BY DEF Lists
    <3> HIDE DEF empty
    <3>3. /\ heap' \in Seq(Lists) /\ Len(heap') = Len(heap) + 1 /\ heap'[Len(heap) + 1] = empty
          /\ \A i \in 1 .. Len(heap) : heap'[i] = heap[i]
      BY <2>1, <3>1, <3>2
    <3>4. /\ records' \in [RunnerIDs -> Nat] /\ records'[id] = Len(heap) + 1
          /\ \A i \in RunnerIDs \ {id} : records'[i] = records[i]
      BY <1>3, <2>1, <3>1
    <3>5. ASSUME NEW i \in RunnerIDs PROVE records'[i] <= Len(heap') /\ RC!Listed(i)' = RC!Listed(i)
      <4>1. CASE i = id
        <5>1. RC!Listed(i) = <<>>
          BY <2>3, <4>1 DEF RC!Listed
        <5>2. RC!Listed(i)' = <<>>
          BY <2>1, <3>2, <3>3, <3>4, <4>1 DEF RC!Listed
        <5> QED BY <2>1, <3>3, <3>4, <4>1, <5>1, <5>2
      <4>2. CASE i # id
        <5>1. records'[i] = records[i] /\ records[i] \in Nat /\ records[i] <= Len(heap)
          BY <2>1, <3>4, <4>2
        <5> QED BY <2>1, <3>3, <5>1 DEF RC!Listed
      <4> QED BY <4>1, <4>2
    <3>6. /\ \A i \in 1 .. Len(heap) : heap'[i].recs = heap[i].recs
          /\ \A i \in 1 .. Len(heap') : i \notin 1 .. Len(heap) => heap'[i].recs = <<>>
      BY <2>1, <3>2, <3>3
    <3> QED BY <2>1, <3>3, <3>4, <3>5, <3>6
  <2>4. CASE RC!SetConfig(id) /\ records[id] # 0
    <3> DEFINE l == [heap[records[id]] EXCEPT !.config = TRUE]
    <3>1. heap' = [heap EXCEPT ![records[id]].config = TRUE] /\ records' = records
      BY <2>4 DEF RC!SetConfig
    <3>2. records[id] \in 1 .. Len(heap)
      BY <1>3, <2>1, <2>4
    <3>3. l \in Lists /\ l.recs = heap[records[id]].recs /\ heap' = [heap EXCEPT ![records[id]] = l]
      BY <2>1, <3>1, <3>2 DEF Lists
    <3> HIDE DEF l
    <3>4. heap' \in Seq(Lists) /\ Len(heap') = Len(heap)
          /\ \A i \in 1 .. Len(heap) : heap'[i] = IF i = records[id] THEN l ELSE heap[i]
      BY <2>1, <3>2, <3>3
    <3>5. \A i \in 1 .. Len(heap) : heap'[i].recs = heap[i].recs
      BY <3>3, <3>4
    <3>6. \A i \in RunnerIDs : RC!Listed(i)' = RC!Listed(i)
      BY <2>1, <3>1, <3>5 DEF RC!Listed
    <3> QED BY <2>1, <3>1, <3>4, <3>5, <3>6
  <2> QED BY <1>2, <2>2, <2>3, <2>4
<1>7. RecTypes'
  <2>1. runners' \subseteq RunnerIDs \X Modes
    BY <1>2, <1>3 DEF RecInv, RecTypes
  <2>2. call' \in [Calls -> {RC!Idle} \cup RunningCalls]
    BY <1>4, <1>5 DEF RecInv, RecTypes
  <2> QED BY <1>1, <1>6, <2>1, <2>2 DEF RecInv, RecTypes
<1>8. call'[c] = new /\ \A d \in Calls \ {c} : call'[d] = call[d]
  BY <1>4 DEF RecInv, RecTypes
<1>9. call[c].pc = "idle"
  BY <1>2 DEF RC!Idle
<1>10. HeapOK'
  <2>1. ASSUME NEW i \in 1 .. Len(heap'), i \in 1 .. Len(heap) PROVE ListOK(heap[i])'
    <3>1. ListOK(heap[i]) /\ heap'[i].recs = heap[i].recs
      BY <1>6, <2>1 DEF RecInv, HeapOK
    <3>2. heap[i] \in Lists
      BY <2>1 DEF RecInv, RecTypes
    <3>3. \A j \in 1 .. Len(heap[i].recs) : heap[i].recs[j] \in Calls \ {c}
      BY <1>9, <3>1, <3>2 DEF ListOK, Lists, Pcs
    <3> QED BY <1>8, <3>1, <3>3 DEF ListOK
  <2>2. ASSUME NEW i \in 1 .. Len(heap'), i \notin 1 .. Len(heap) PROVE ListOK(heap[i])'
    <3>1. heap'[i].recs = <<>> /\ MaxRecords \in Nat
      BY <1>6, <2>2 DEF RC!RecorderAssumption
    <3> QED BY <3>1 DEF ListOK
  <2> QED BY <1>6, <2>1, <2>2 DEF HeapOK
<1>11. \A d \in Calls : \A i \in RunnerIDs : InList(d, i)' <=> InList(d, i)
  BY <1>6 DEF InList
<1>12. CallOK(c)'
  <2>1. answered'[c] = NoBody
    BY <1>1, <1>9 DEF RecInv, CallsOK, CallOK
  <2>2. call'[c].pc = "loaded" /\ named'[call'[c].ref] = call'[c].runner[1]
    BY <1>1, <1>5, <1>8
  <2> QED BY <2>1, <2>2 DEF CallOK
<1>13. ASSUME NEW d \in Calls \ {c} PROVE CallOK(d)'
  <2>1. /\ CallOK(d) /\ call'[d] = call[d] /\ answered'[d] = answered[d] /\ excuse'[d] = excuse[d]
        /\ named' = named
    BY <1>1, <1>8 DEF RecInv, CallsOK
  <2>2. CASE call[d].pc = "idle"
    BY <2>1, <2>2 DEF CallOK, Pcs
  <2>3. CASE call[d].pc # "idle"
    <3>1. call[d].ref \in CallRefs /\ call[d].runner[1] \in RunnerIDs
      BY <2>3 DEF RecInv, RecTypes, RC!Idle, RunningCalls
    <3>2. named[call[d].ref] \in RunnerIDs
      BY <3>1 DEF RecInv, RecTypes
    <3> QED BY <1>11, <2>1, <3>1, <3>2, CallFrame
  <2> QED BY <2>2, <2>3
<1>14. BroadcastsOK'
  <2>1. \A d \in Calls : call[d].pc \in {"recorded", "done"} => call'[d] = call[d]
    BY <1>8, <1>9
  <2> QED BY <1>1, <2>1 DEF RecInv, RecTypes, BroadcastsOK
<1>15. ASSUME NEW s \in Subscribers PROVE NothingMissed(s)'
  <2>1. NothingMissed(s) /\ sub'[s] = sub[s]
    BY <1>1 DEF RecInv
  <2>2. CASE sub[s].pc \notin {"registered", "listing", "live"}
    BY <2>1, <2>2 DEF NothingMissed
  <2>3. CASE sub[s].pc \in {"registered", "listing", "live"}
    <3>1. ListsToSend(s)
      BY <2>1, <2>3 DEF NothingMissed
    <3>0. sub[s] \in Subscriptions
      BY <2>3, OpenSubscribers DEF RecInv
    <3>2. \A k \in 1 .. Len(sub[s].list) : sub[s].list[k] \in Nat \X Nat
      BY <3>0 DEF Subscriptions
    <3>3. ListsToSend(s)'
      <4>1. Len(heap) \in Nat /\ Len(heap') \in Nat
        BY <1>6 DEF RecInv, RecTypes
      <4>2. \A k \in 1 .. Len(sub[s].list) : sub[s].list[k][1] \in 1 .. Len(heap')
        BY <1>6, <3>1, <4>1 DEF ListsToSend
      <4> QED BY <1>6, <2>1, <3>1, <4>2 DEF ListsToSend
    <3>4. ASSUME NEW d \in Calls
          PROVE  /\ Reachable(d)' => Reachable(d)
                 /\ OnTheWay(s, d) \/ Shown(s, d) => OnTheWay(s, d)' \/ Shown(s, d)'
                 /\ Remaining(s, d) => Remaining(s, d)'
      <4>1. Reachable(d)' => Reachable(d)
        BY <1>11 DEF Reachable
      <4>2. (OnTheWay(s, d) <=> OnTheWay(s, d)') /\ (Shown(s, d) <=> Shown(s, d)')
        BY <1>1 DEF OnTheWay, Shown
      <4>3. Remaining(s, d) => Remaining(s, d)'
        BY <1>6, <2>1, <3>1 DEF Remaining, ListsToSend
      <4> QED BY <4>1, <4>2, <4>3
    <3> QED BY <2>1, <3>3, <3>4, MissedFrame
  <2> QED BY <2>2, <2>3
<1> QED BY <1>7, <1>10, <1>12, <1>13, <1>14, <1>15 DEF RecInv, CallsOK

(* A runner that ends takes the list of its model along. *)
LEMMA RecTerminate ==
  ASSUME RecInv, NEW r \in runners, RC!Terminate(r)
  PROVE  RecInv'
<1>1. UNCHANGED <<named, call, heap, answered, pending, sending, sub, panicked>>
  BY DEF RC!Terminate
<1>2. /\ \A c \in RC!Running : call[c].runner # r
      /\ runners' = runners \ {r} /\ records' = [records EXCEPT ![r[1]] = 0]
      /\ excuse' = [c \in Calls |-> IF c \in RC!OfOtherRunners(r) THEN excuse[c] \cup {"removed"}
                                    ELSE excuse[c]]
  BY DEF RC!Terminate, RC!RemoveModel, RC!Unleased
<1>3. r \in RunnerIDs \X Modes
  BY DEF RecInv, RecTypes
<1>4. /\ records' \in [RunnerIDs -> Nat]
      /\ \A id \in RunnerIDs : records'[id] = IF id = r[1] THEN 0 ELSE records[id]
  BY <1>2, <1>3 DEF RecInv, RecTypes
<1>5. excuse' \in [Calls -> SUBSET {"moved", "removed", "shifted"}]
  BY <1>2 DEF RecInv, RecTypes
<1>6. RecTypes'
  BY <1>1, <1>2, <1>4, <1>5 DEF RecInv, RecTypes
<1>7. HeapOK'
  <2>1. \A i : ListOK(heap[i]) => ListOK(heap[i])'
    BY <1>1 DEF ListOK
  <2>2. Len(heap) \in Nat
    BY DEF RecInv, RecTypes
  <2>3. \A id \in RunnerIDs : records'[id] <= Len(heap)
    BY <1>4, <2>2 DEF RecInv, HeapOK
  <2> QED BY <1>1, <2>1, <2>3 DEF RecInv, HeapOK
<1>8. \A id \in RunnerIDs : /\ id # r[1] => RC!Listed(id)' = RC!Listed(id)
                            /\ id = r[1] => RC!Listed(id)' = <<>>
  BY <1>1, <1>4 DEF RC!Listed
<1>9. \A c \in Calls, id \in RunnerIDs : /\ InList(c, id)' => InList(c, id)
                                         /\ id # r[1] => (InList(c, id) => InList(c, id)')
  <2> SUFFICES ASSUME NEW c \in Calls, NEW id \in RunnerIDs
               PROVE  /\ InList(c, id)' => InList(c, id)
                      /\ id # r[1] => (InList(c, id) => InList(c, id)')
    OBVIOUS
  <2>1. CASE id = r[1]
    <3>1. ~InList(c, id)'
      BY <1>8, <2>1 DEF InList
    <3> QED BY <2>1, <3>1
  <2>2. CASE id # r[1]
    BY <1>8, <2>2 DEF InList
  <2> QED BY <2>1, <2>2
<1>10. ASSUME NEW c \in Calls PROVE CallOK(c)'
  <2>1. /\ CallOK(c) /\ call'[c] = call[c] /\ answered'[c] = answered[c] /\ named' = named
        /\ excuse[c] \subseteq excuse'[c]
    BY <1>1, <1>2 DEF RecInv, CallsOK
  <2>2. CASE call[c].pc \in {"idle", "done"}
    BY <2>1, <2>2 DEF CallOK, Pcs
  <2>3. CASE call[c].pc \notin {"idle", "done"}
    <3>1. call[c] \in RunningCalls /\ c \in RC!Running
      BY <2>3 DEF RecInv, RecTypes, RC!Idle, RC!Running
    <3>2. /\ call[c].ref \in CallRefs /\ call[c].runner \in RunnerIDs \X Modes
          /\ named[call[c].ref] \in RunnerIDs
      BY <3>1 DEF RecInv, RecTypes, RunningCalls
    <3>3. ASSUME excuse'[c] = {} PROVE call[c].runner[1] # r[1]
      <4>1. c \notin RC!OfOtherRunners(r)
        BY <1>2, <3>3
      <4> QED BY <1>2, <3>1, <4>1 DEF RC!OfOtherRunners
    <3>4. excuse'[c] = {} => (InList(c, call[c].runner[1]) => InList(c, call[c].runner[1])')
      <4>1. call[c].runner[1] \in RunnerIDs /\ call'[c].runner[1] = call[c].runner[1]
        BY <2>1, <3>2
      <4> QED BY <1>9, <3>3, <4>1
    <3> QED BY <1>9, <2>1, <3>2, <3>4, CallFrame
  <2> QED BY <2>2, <2>3
<1>11. BroadcastsOK'
  BY <1>1 DEF RecInv, BroadcastsOK
<1>12. ASSUME NEW s \in Subscribers PROVE NothingMissed(s)'
  <2>1. NothingMissed(s) /\ sub'[s] = sub[s]
    BY <1>1 DEF RecInv
  <2>2. ListsToSend(s) => ListsToSend(s)'
    BY <1>1 DEF ListsToSend
  <2>3. ASSUME NEW c \in Calls
        PROVE  /\ Reachable(c)' => Reachable(c)
               /\ OnTheWay(s, c) \/ Shown(s, c) => OnTheWay(s, c)' \/ Shown(s, c)'
               /\ Remaining(s, c) => Remaining(s, c)'
    <3>1. Reachable(c)' => Reachable(c)
      BY <1>9 DEF Reachable
    <3>2. (OnTheWay(s, c) <=> OnTheWay(s, c)') /\ (Shown(s, c) <=> Shown(s, c)')
      BY <1>1 DEF OnTheWay, Shown
    <3>3. Remaining(s, c) => Remaining(s, c)'
      BY <1>1 DEF Remaining
    <3> QED BY <3>1, <3>2, <3>3
  <2> QED BY <2>1, <2>2, <2>3, MissedFrame
<1> QED BY <1>6, <1>7, <1>10, <1>11, <1>12 DEF RecInv, CallsOK

(* The list with one record more.  It loses its first record when it is full. *)
LEMMA PushedIs ==
  ASSUME RC!RecorderAssumption, NEW recs \in Seq(Calls), Len(recs) <= MaxRecords, NEW c \in Calls,
         \A i, j \in 1 .. Len(recs) : recs[i] = recs[j] => i = j,
         \A i \in 1 .. Len(recs) : recs[i] # c
  PROVE  LET new == RC!Pushed(recs, c)
             full == Len(recs) = MaxRecords
         IN  /\ new \in Seq(Calls) /\ Len(new) \in 1 .. MaxRecords /\ Len(recs) <= Len(new)
             /\ new[Len(new)] = c
             /\ ~full => Len(new) = Len(recs) + 1 /\ \A i \in 1 .. Len(recs) : new[i] = recs[i]
             /\ full => Len(new) = Len(recs) /\ \A i \in 1 .. Len(recs) - 1 : new[i] = recs[i + 1]
             /\ \A i, j \in 1 .. Len(new) : new[i] = new[j] => i = j
             /\ \A i \in 1 .. Len(new) : new[i] = c \/ \E j \in 1 .. Len(recs) : new[i] = recs[j]
             /\ full => recs[1] \in RC!Range(recs) \ RC!Range(new)
<1> DEFINE new == RC!Pushed(recs, c)
<1>1. MaxRecords \in Nat \ {0} /\ Len(recs) \in Nat
  BY DEF RC!RecorderAssumption
<1>2. CASE Len(recs) = MaxRecords
  <2>1. new = Append(Tail(recs), c)
    BY <1>2 DEF RC!Pushed
  <2>2. recs # <<>>
    BY <1>1, <1>2
  <2>3. Tail(recs) \in Seq(Calls) /\ Len(Tail(recs)) = Len(recs) - 1
        /\ \A i \in 1 .. Len(recs) - 1 : Tail(recs)[i] = recs[i + 1]
    BY <2>2, HeadTailProperties
  <2> DEFINE t == Tail(recs)
  <2> HIDE DEF t
  <2>4. /\ new \in Seq(Calls) /\ Len(new) = Len(recs) /\ new[Len(recs)] = c
        /\ \A i \in 1 .. Len(recs) - 1 : new[i] = recs[i + 1]
    <3>1. new = Append(t, c) /\ t \in Seq(Calls) /\ Len(t) = Len(recs) - 1
          /\ \A i \in 1 .. Len(recs) - 1 : t[i] = recs[i + 1]
      BY <2>1, <2>3 DEF t
    <3> HIDE DEF new
    <3> QED BY <1>1, <3>1
  <2> HIDE DEF new
  <2>5. \A i, j \in 1 .. Len(new) : new[i] = new[j] => i = j
    <3> SUFFICES ASSUME NEW i \in 1 .. Len(recs), NEW j \in 1 .. Len(recs), new[i] = new[j] PROVE i = j
      BY <2>4
    <3>1. CASE i < Len(recs) /\ j < Len(recs)
      <4>1. recs[i + 1] = recs[j + 1] /\ i + 1 \in 1 .. Len(recs) /\ j + 1 \in 1 .. Len(recs)
        BY <1>1, <2>4, <3>1
      <4>2. i + 1 = j + 1
        BY <4>1
      <4> QED BY <4>2
    <3>2. CASE i = Len(recs) /\ j < Len(recs)
      BY <1>1, <2>4, <3>2
    <3>3. CASE i < Len(recs) /\ j = Len(recs)
      BY <1>1, <2>4, <3>3
    <3> QED BY <1>1, <3>1, <3>2, <3>3
  <2>6. \A i \in 1 .. Len(new) : new[i] = c \/ \E j \in 1 .. Len(recs) : new[i] = recs[j]
    <3> SUFFICES ASSUME NEW i \in 1 .. Len(recs), i # Len(recs) PROVE \E j \in 1 .. Len(recs) : new[i] = recs[j]
      BY <2>4
    <3>1. i + 1 \in 1 .. Len(recs) /\ new[i] = recs[i + 1]
      BY <1>1, <2>4
    <3> QED BY <3>1
  <2>7. recs[1] \in RC!Range(recs) /\ recs[1] \notin RC!Range(new)
    <3>1. DOMAIN recs = 1 .. Len(recs) /\ DOMAIN new = 1 .. Len(new) /\ 1 \in 1 .. Len(recs)
      BY <1>1, <1>2, <2>4
    <3>2. ASSUME NEW i \in 1 .. Len(recs) PROVE new[i] # recs[1]
      <4>1. CASE i = Len(recs)
        BY <2>4, <3>1, <4>1
      <4>2. CASE i < Len(recs)
        <5>1. new[i] = recs[i + 1] /\ i + 1 \in 1 .. Len(recs) /\ i + 1 # 1
          BY <1>1, <2>4, <4>2
        <5> QED BY <3>1, <5>1
      <4> QED BY <1>1, <4>1, <4>2
    <3> QED BY <2>4, <3>1, <3>2 DEF RC!Range
  <2> QED BY <1>1, <1>2, <2>4, <2>5, <2>6, <2>7 DEF new
<1>3. CASE Len(recs) # MaxRecords
  <2>1. new = Append(recs, c)
    BY <1>3 DEF RC!Pushed
  <2> HIDE DEF new
  <2>2. /\ new \in Seq(Calls) /\ Len(new) = Len(recs) + 1 /\ new[Len(recs) + 1] = c
        /\ \A i \in 1 .. Len(recs) : new[i] = recs[i]
    BY <1>1, <2>1
  <2>3. Len(new) \in 1 .. MaxRecords
    BY <1>1, <1>3, <2>2
  <2>4. \A i, j \in 1 .. Len(new) : new[i] = new[j] => i = j
    <3> SUFFICES ASSUME NEW i \in 1 .. Len(recs) + 1, NEW j \in 1 .. Len(recs) + 1, new[i] = new[j]
                 PROVE  i = j
      BY <2>2
    <3>1. CASE i \in 1 .. Len(recs) /\ j \in 1 .. Len(recs)
      BY <2>2, <3>1
    <3>2. CASE i = Len(recs) + 1 /\ j \in 1 .. Len(recs)
      BY <2>2, <3>2
    <3>3. CASE i \in 1 .. Len(recs) /\ j = Len(recs) + 1
      BY <2>2, <3>3
    <3> QED BY <1>1, <3>1, <3>2, <3>3
  <2>5. \A i \in 1 .. Len(new) : new[i] = c \/ \E j \in 1 .. Len(recs) : new[i] = recs[j]
    BY <1>1, <2>2
  <2> QED BY <1>1, <1>3, <2>2, <2>3, <2>4, <2>5 DEF new
<1> QED BY <1>2, <1>3

(* A record is made: the call enters the list of the model its name has. *)
LEMMA RecRequest ==
  ASSUME RC!RecorderAssumption, RecInv, NEW c \in Calls, RC!RecordRequest(c)
  PROVE  RecInv'
<1>a. PICK id : id = named[call[c].ref]
  OBVIOUS
<1>b. PICK old : old = IF records[id] = 0 THEN [config |-> FALSE, recs |-> <<>>] ELSE heap[records[id]]
  OBVIOUS
<1>c. PICK at : at = IF records[id] = 0 THEN Len(heap) + 1 ELSE records[id]
  OBVIOUS
<1>d. PICK recs : recs = RC!Pushed(old.recs, c)
  OBVIOUS
<1>e. PICK new : new = [old EXCEPT !.recs = recs]
  OBVIOUS
<1>f. PICK shifted : shifted = RC!Range(old.recs) \ RC!Range(new.recs)
  OBVIOUS
<1> DEFINE listens(s) == \E l \in RC!Range(sub[s].list) : l[1] = at
           full == Len(old.recs) = MaxRecords
<1>1. UNCHANGED <<named, runners, answered, pending, sending, panicked>>
  BY DEF RC!RecordRequest
<1>2. /\ call[c].pc = "loaded"
      /\ call' = [call EXCEPT ![c].rid = RC!RecordID(id, c), ![c].pc = "serving"]
      /\ heap' = IF at > Len(heap) THEN Append(heap, new) ELSE [heap EXCEPT ![at] = new]
      /\ records' = [records EXCEPT ![id] = at]
      /\ excuse' = [d \in Calls |-> IF d \in shifted THEN excuse[d] \cup {"shifted"} ELSE excuse[d]]
      /\ sub' = [s \in Subscribers |->
                   IF sub[s].pc = "listing" /\ shifted # {} /\ listens(s)
                   THEN [sub[s] EXCEPT !.sure = FALSE] ELSE sub[s]]
  BY <1>a, <1>b, <1>c, <1>d, <1>e, <1>f DEF RC!RecordRequest
<1>3. call[c] \in RunningCalls /\ CallOK(c)
  BY <1>2 DEF RecInv, RecTypes, RC!Idle, CallsOK
<1>4. id \in RunnerIDs
  BY <1>a, <1>3 DEF RecInv, RecTypes, RunningCalls
<1>5. MaxRecords \in Nat \ {0} /\ Len(heap) \in Nat /\ heap \in Seq(Lists)
      /\ records \in [RunnerIDs -> Nat] /\ \A i \in RunnerIDs : records[i] <= Len(heap)
  BY DEF RC!RecorderAssumption, RecInv, RecTypes, HeapOK
<1>6. /\ old \in Lists /\ old.recs = RC!Listed(id) /\ at \in 1 .. Len(heap) + 1
      /\ records[id] # 0 => at = records[id] /\ at \in 1 .. Len(heap) /\ heap[at] = old
      /\ records[id] = 0 => at = Len(heap) + 1 /\ old.recs = <<>>
  <2>1. CASE records[id] = 0
    BY <1>b, <1>c, <1>5, <2>1 DEF Lists, RC!Listed
  <2>2. CASE records[id] # 0
    BY <1>b, <1>c, <1>4, <1>5, <2>2 DEF RC!Listed
  <2> QED BY <2>1, <2>2
<1>7. /\ old.recs \in Seq(Calls) /\ Len(old.recs) \in Nat /\ Len(old.recs) <= MaxRecords
      /\ \A i, j \in 1 .. Len(old.recs) : old.recs[i] = old.recs[j] => i = j
      /\ \A i \in 1 .. Len(old.recs) : /\ old.recs[i] \in Calls \ {c}
                                       /\ call[old.recs[i]].pc \in Pcs \ {"loaded"}
                                       /\ call[old.recs[i]].rid \in RunnerIDs \X {old.recs[i]}
  <2>1. Len(old.recs) <= MaxRecords
    <3>1. CASE records[id] = 0
      BY <1>5, <1>6, <3>1
    <3>2. CASE records[id] # 0
      BY <1>6, <3>2 DEF RecInv, HeapOK, ListOK
    <3> QED BY <3>1, <3>2
  <2>2. RecTypes /\ HeapOK
    BY DEF RecInv
  <2>3. ASSUME NEW i \in 1 .. Len(old.recs)
        PROVE  /\ old.recs[i] \in Calls \ {c}
               /\ call[old.recs[i]].pc \in Pcs \ {"loaded"}
               /\ call[old.recs[i]].rid \in RunnerIDs \X {old.recs[i]}
    <3>1. /\ old.recs[i] \in Calls
          /\ call[old.recs[i]].pc \in Pcs \ {"loaded"}
          /\ call[old.recs[i]].rid \in RunnerIDs \X {old.recs[i]}
      BY <1>4, <1>6, <2>2, ListsAre
    <3> QED BY <1>2, <3>1
  <2> QED BY <1>4, <1>6, <2>1, <2>2, <2>3, ListsAre
<1>8. new \in Lists /\ new.recs = recs
  <2>1. recs \in Seq(Calls)
    BY <1>d, <1>7, PushedIs
  <2> QED BY <1>e, <1>6, <2>1 DEF Lists
<1>9. /\ recs \in Seq(Calls) /\ Len(recs) \in 1 .. MaxRecords /\ Len(old.recs) <= Len(recs)
      /\ recs[Len(recs)] = c
      /\ ~full => Len(recs) = Len(old.recs) + 1 /\ \A i \in 1 .. Len(old.recs) : recs[i] = old.recs[i]
      /\ full => Len(recs) = Len(old.recs) /\ \A i \in 1 .. Len(old.recs) - 1 : recs[i] = old.recs[i + 1]
      /\ \A i, j \in 1 .. Len(recs) : recs[i] = recs[j] => i = j
      /\ \A i \in 1 .. Len(recs) : recs[i] = c \/ \E j \in 1 .. Len(old.recs) : recs[i] = old.recs[j]
      /\ full => shifted # {}
  <2>1. full => old.recs[1] \in RC!Range(old.recs) \ RC!Range(recs)
    BY <1>d, <1>7, PushedIs
  <2>2. shifted = RC!Range(old.recs) \ RC!Range(recs)
    BY <1>f, <1>8
  <2> QED BY <1>d, <1>7, <2>1, <2>2, PushedIs
<1>10. \A d \in Calls : (\E i \in 1 .. Len(old.recs) : old.recs[i] = d) =>
                           d \in shifted \/ \E i \in 1 .. Len(recs) : recs[i] = d
  <2>1. DOMAIN old.recs = 1 .. Len(old.recs) /\ DOMAIN recs = 1 .. Len(recs)
    BY <1>7, <1>9, LenProperties
  <2> QED BY <1>f, <1>8, <2>1 DEF RC!Range
<1>g. PICK mine : mine = [call[c] EXCEPT !.rid = RC!RecordID(id, c), !.pc = "serving"]
  OBVIOUS
<1>11. /\ mine \in RunningCalls /\ mine.pc = "serving" /\ mine.rid = <<id, c>> /\ mine.ref = call[c].ref
       /\ mine.runner = call[c].runner /\ call' = [call EXCEPT ![c] = mine]
  <2>1. RC!RecordID(id, c) = <<id, c>> /\ <<id, c>> \in RecordIDs
    BY <1>4 DEF RC!RecordID, RecordIDs
  <2> QED BY <1>g, <1>2, <1>3, <2>1 DEF RunningCalls, Pcs
<1>12. /\ heap' \in Seq(Lists) /\ Len(heap) <= Len(heap') /\ Len(heap') \in Nat /\ at \in 1 .. Len(heap')
       /\ heap'[at] = new /\ \A i \in 1 .. Len(heap') : i # at => i \in 1 .. Len(heap) /\ heap'[i] = heap[i]
       /\ \A i \in 1 .. Len(heap) : i \in 1 .. Len(heap')
  <2>1. CASE records[id] = 0
    <3>1. at = Len(heap) + 1 /\ heap' = Append(heap, new)
      BY <1>2, <1>5, <1>6, <2>1
    <3> QED BY <1>5, <1>8, <3>1
  <2>2. CASE records[id] # 0
    <3>1. at \in 1 .. Len(heap) /\ heap' = [heap EXCEPT ![at] = new]
      BY <1>2, <1>5, <1>6, <2>2
    <3> QED BY <1>5, <1>8, <3>1
  <2> QED BY <2>1, <2>2
<1>13. /\ records' \in [RunnerIDs -> Nat] /\ records'[id] = at
       /\ \A i \in RunnerIDs : i # id => records'[i] = records[i]
       /\ at \in Nat \ {0}
  <2>1. at \in Nat \ {0}
    BY <1>5, <1>6
  <2> QED BY <1>2, <1>4, <1>5, <2>1
<1>14. /\ call' \in [Calls -> {RC!Idle} \cup RunningCalls] /\ call'[c] = mine
       /\ \A d \in Calls \ {c} : call'[d] = call[d]
  BY <1>11 DEF RecInv, RecTypes
<1>15. /\ \A s \in Subscribers : sub'[s] = sub[s] \/ (/\ sub[s].pc = "listing"
                                                      /\ sub'[s] = [sub[s] EXCEPT !.sure = FALSE])
       /\ \A s \in Subscribers : sub[s].pc = "listing" /\ shifted # {} /\ listens(s)
                                   => sub'[s] = [sub[s] EXCEPT !.sure = FALSE]
  BY <1>2
<1>16. ASSUME NEW s \in Subscribers, sub[s].pc = "listing"
       PROVE  LET off == [sub[s] EXCEPT !.sure = FALSE]
              IN  /\ off \in Subscriptions /\ off.sure = FALSE
                  /\ \A f \in {"pc", "filter", "list", "next", "chan", "seen"} : off[f] = sub[s][f]
  <2>1. sub[s] \in Subscriptions
    BY <1>16, OpenSubscribers DEF RecInv
  <2> QED BY <2>1 DEF Subscriptions
<1>17. ASSUME NEW s \in Subscribers
       PROVE  /\ sub'[s] \in {RC!NotSubscribed, GoneSubscriber} \cup Subscriptions
              /\ \A f \in {"pc", "filter", "list", "next"} : sub'[s][f] = sub[s][f]
              /\ sub'[s].seen = sub[s].seen /\ sub'[s].chan = sub[s].chan
              /\ sub'[s].sure => sub[s].sure
  <2>1. CASE sub'[s] = sub[s]
    BY <2>1 DEF RecInv, RecTypes
  <2>2. CASE sub'[s] # sub[s]
    <3> DEFINE off == [sub[s] EXCEPT !.sure = FALSE]
    <3>1. sub[s].pc = "listing" /\ sub'[s] = off
      BY <1>15, <2>2
    <3>2. /\ off \in Subscriptions /\ off.sure = FALSE
          /\ \A f \in {"pc", "filter", "list", "next", "chan", "seen"} : off[f] = sub[s][f]
      BY <1>16, <3>1, Zenon
    <3> HIDE DEF off
    <3> QED BY <3>1, <3>2
  <2> QED BY <2>1, <2>2
<1>18. RecTypes'
  <2>1. sub' \in [Subscribers -> {RC!NotSubscribed, GoneSubscriber} \cup Subscriptions]
    <3>1. sub' = [s \in Subscribers |-> sub'[s]]
      BY <1>2
    <3> QED BY <1>17, <3>1
  <2>2. excuse' \in [Calls -> SUBSET {"moved", "removed", "shifted"}]
    <3> QED BY <1>2 DEF RecInv, RecTypes
  <2> QED BY <1>1, <1>12, <1>13, <1>14, <2>1, <2>2 DEF RecInv, RecTypes
(* The lists, before and after. *)
<1>19. ASSUME NEW d \in Calls, NEW i \in RunnerIDs
       PROVE  /\ InList(d, i)' => d = c \/ InList(d, i)
              /\ InList(d, i) => d \in shifted \/ InList(d, i)'
              /\ InList(c, id)'
  <2>1. ASSUME NEW k \in RunnerIDs, records'[k] = at
        PROVE  /\ RC!Listed(k)' = recs
               /\ InList(d, k)' => d = c \/ \E j \in 1 .. Len(old.recs) : old.recs[j] = d
    <3>1. RC!Listed(k)' = recs
      BY <1>8, <1>12, <1>13, <2>1 DEF RC!Listed
    <3> QED BY <1>9, <3>1 DEF InList
  <2>2. InList(c, id)'
    <3>1. RC!Listed(id)' = recs
      BY <1>4, <1>13, <2>1
    <3>2. Len(recs) \in 1 .. Len(recs) /\ recs[Len(recs)] = c
      BY <1>9
    <3> QED BY <3>1, <3>2 DEF InList
  <2>3. CASE i = id
    <3>1. RC!Listed(i) = old.recs /\ RC!Listed(i)' = recs
      BY <1>6, <1>13, <2>1, <2>3
    <3> QED BY <1>9, <1>10, <2>2, <3>1 DEF InList
  <2>4. CASE i # id /\ records[i] = at
    <3>1. records'[i] = at /\ at \in 1 .. Len(heap)
      BY <1>5, <1>13, <2>4
    <3>2. records[id] # 0 /\ heap[at] = old
      BY <1>5, <1>6, <3>1
    <3>3. RC!Listed(i) = old.recs /\ RC!Listed(i)' = recs
      BY <1>13, <2>1, <2>4, <3>1, <3>2 DEF RC!Listed
    <3> QED BY <1>9, <1>10, <2>2, <3>3 DEF InList
  <2>5. CASE i # id /\ records[i] # at
    <3>1. records'[i] = records[i] /\ records[i] <= Len(heap) /\ records[i] \in Nat
      BY <1>5, <1>13, <2>5
    <3>2. records[i] # 0 => heap'[records[i]] = heap[records[i]]
      BY <1>5, <1>12, <2>5, <3>1
    <3>3. RC!Listed(i)' = RC!Listed(i)
      BY <3>1, <3>2 DEF RC!Listed
    <3> QED BY <2>2, <3>3 DEF InList
  <2> QED BY <2>3, <2>4, <2>5
<1>20. HeapOK'
  <2>1. \A i \in RunnerIDs : records'[i] <= Len(heap')
    BY <1>5, <1>12, <1>13
  <2>2. ListOK(heap[at])'
    <3>1. heap'[at].recs = recs
      BY <1>8, <1>12
    <3>2. ASSUME NEW i \in 1 .. Len(recs)
          PROVE  call'[recs[i]].pc \in Pcs \ {"loaded"} /\ call'[recs[i]].rid \in RunnerIDs \X {recs[i]}
      <4>1. CASE recs[i] = c
        <5>1. call'[c].pc = "serving" /\ call'[c].rid = <<id, c>>
          BY <1>11, <1>14
        <5> QED BY <1>4, <4>1, <5>1 DEF Pcs
      <4>2. CASE recs[i] # c
        <5>1. PICK j \in 1 .. Len(old.recs) : recs[i] = old.recs[j]
          BY <1>9, <4>2
        <5> QED BY <1>7, <1>14, <5>1
      <4> QED BY <4>1, <4>2
    <3>3. \A i, j \in 1 .. Len(recs) : recs[i] = recs[j] => i = j
      BY <1>9
    <3>4. Len(recs) <= MaxRecords
      BY <1>5, <1>9
    <3> QED BY <3>1, <3>2, <3>3, <3>4 DEF ListOK
  <2>3. ASSUME NEW i \in 1 .. Len(heap'), i # at PROVE ListOK(heap[i])'
    <3>1. i \in 1 .. Len(heap) /\ heap'[i] = heap[i]
      BY <1>12, <2>3
    <3>2. ListOK(heap[i])
      BY <3>1 DEF RecInv, HeapOK
    <3>3. heap[i] \in Lists
      BY <1>5, <3>1
    <3>4. \A j \in 1 .. Len(heap[i].recs) : heap[i].recs[j] \in Calls \ {c}
      BY <1>2, <3>2, <3>3 DEF ListOK, Lists
    <3> PICK l : l = heap[i]
      OBVIOUS
    <3>5. /\ Len(l.recs) <= MaxRecords
          /\ \A j, k \in 1 .. Len(l.recs) : l.recs[j] = l.recs[k] => j = k
          /\ \A j \in 1 .. Len(l.recs) :
               call[l.recs[j]].pc \in Pcs \ {"loaded"} /\ call[l.recs[j]].rid \in RunnerIDs \X {l.recs[j]}
      BY <3>2 DEF ListOK
    <3>6. \A j \in 1 .. Len(l.recs) : call'[l.recs[j]] = call[l.recs[j]]
      BY <1>14, <3>4
    <3>7. ListOK(l)'
      BY <3>5, <3>6 DEF ListOK
    <3> QED BY <3>1, <3>7
  <2> QED BY <2>1, <2>2, <2>3 DEF HeapOK
<1>21. ASSUME NEW d \in Calls PROVE CallOK(d)'
  <2>1. CallOK(d) /\ answered'[d] = answered[d] /\ named' = named /\ excuse[d] \subseteq excuse'[d]
    BY <1>1, <1>2 DEF RecInv, CallsOK
  <2>2. excuse'[d] = {} => d \notin shifted
    BY <1>2
  <2>3. CASE d = c
    <3>1. /\ call'[c].pc = "serving" /\ call'[c].rid \in RunnerIDs \X {c} /\ call'[c].ref = call[c].ref
          /\ call'[c].runner = call[c].runner
      BY <1>4, <1>11, <1>14
    <3>2. answered'[c] = NoBody
      BY <1>2, <2>1, <2>3 DEF CallOK
    <3>3. excuse'[c] = {} => named'[call[c].ref] = call[c].runner[1] /\ call[c].runner[1] = id
      BY <1>a, <1>2, <2>1, <2>3 DEF CallOK
    <3>4. InList(c, id)'
      BY <1>4, <1>19
    <3>5. excuse'[c] = {} => InList(c, call[c].runner[1])'
      <4>1. ASSUME excuse'[c] = {} PROVE call'[c].runner[1] = id
        BY <3>1, <3>3, <4>1
      <4> QED BY <3>4, <4>1 DEF InList
    <3> QED BY <2>3, <3>1, <3>2, <3>3, <3>5 DEF CallOK
  <2>4. CASE d # c /\ call[d].pc = "idle"
    BY <1>14, <2>1, <2>4 DEF CallOK, Pcs
  <2>5. CASE d # c /\ call[d].pc # "idle"
    <3>1. call[d] \in RunningCalls /\ call'[d] = call[d]
      BY <1>14, <2>5 DEF RecInv, RecTypes, RC!Idle
    <3>2. call[d].runner[1] \in RunnerIDs /\ named[call[d].ref] \in RunnerIDs
      BY <3>1 DEF RunningCalls, RecInv, RecTypes
    <3>3. InList(d, named[call[d].ref])' => InList(d, named[call[d].ref])
      BY <1>19, <2>1, <2>5, <3>1, <3>2
    <3>4. excuse'[d] = {} => (InList(d, call[d].runner[1]) => InList(d, call[d].runner[1])')
      BY <1>19, <2>2, <2>5, <3>1, <3>2
    <3> QED BY <2>1, <3>1, <3>3, <3>4, CallFrame
  <2> QED BY <2>3, <2>4, <2>5
<1>22. BroadcastsOK'
  <2>1. \A d \in Calls : call[d].pc \in {"recorded", "done"} => call'[d] = call[d]
    BY <1>2, <1>14
  <2>2. \A s \in Subscribers : sub'[s].pc = sub[s].pc
    BY <1>17
  <2> QED BY <1>1, <2>1, <2>2 DEF RecInv, RecTypes, BroadcastsOK
<1>23. ASSUME NEW s \in Subscribers PROVE NothingMissed(s)'
  <2>1. NothingMissed(s)
    BY DEF RecInv
  <2>2. CASE sub[s].pc \notin {"registered", "listing", "live"}
    BY <1>17, <2>1, <2>2 DEF NothingMissed
  <2>3. CASE sub[s].pc \in {"registered", "listing", "live"}
    <3>1. ListsToSend(s)
      BY <2>1, <2>3 DEF NothingMissed
    <3>2. sub[s] \in Subscriptions
      BY <2>3, OpenSubscribers DEF RecInv
    <3>3. \A k \in 1 .. Len(sub[s].list) : /\ sub[s].list[k] \in Nat \X Nat
                                           /\ sub[s].list[k][1] \in 1 .. Len(heap)
                                           /\ sub[s].list[k][2] <= Len(heap[sub[s].list[k][1]].recs)
      BY <3>1, <3>2 DEF Subscriptions, ListsToSend
    <3>4. ASSUME NEW i \in 1 .. Len(heap) PROVE Len(heap[i].recs) \in Nat /\ Len(heap'[i].recs) \in Nat
                                                /\ Len(heap[i].recs) <= Len(heap'[i].recs)
      <4>1. heap[i] \in Lists
        BY <1>5, <3>4
      <4>2. heap'[i] \in Lists
        BY <1>12
      <4>3. Len(heap[i].recs) \in Nat /\ Len(heap'[i].recs) \in Nat
        BY <4>1, <4>2 DEF Lists
      <4>4. CASE i = at
        <5>1. heap[i] = old /\ heap'[i].recs = recs
          BY <1>5, <1>6, <1>8, <1>12, <4>4
        <5> QED BY <1>9, <4>3, <5>1
      <4>5. CASE i # at
        BY <1>12, <4>3, <4>5
      <4> QED BY <4>4, <4>5
    <3>5. ListsToSend(s)'
      <4>1. \A f \in {"pc", "list", "next"} : sub'[s][f] = sub[s][f]
        BY <1>17
      <4>2. ASSUME NEW k \in 1 .. Len(sub[s].list)
            PROVE  /\ sub[s].list[k][1] \in 1 .. Len(heap')
                   /\ sub[s].list[k][2] <= Len(heap'[sub[s].list[k][1]].recs)
        <5>1. PICK i \in 1 .. Len(heap), n \in Nat : sub[s].list[k][1] = i /\ sub[s].list[k][2] = n
          BY <3>3
        <5>2. n <= Len(heap[i].recs)
          BY <3>3, <5>1
        <5>3. i \in 1 .. Len(heap')
          BY <1>12
        <5> QED BY <3>4, <5>1, <5>2, <5>3
      <4> QED BY <3>1, <4>1, <4>2 DEF ListsToSend
    <3>6. ASSUME NEW d \in Calls
          PROVE  /\ Reachable(d)' => Reachable(d) \/ answered'[d] = NoBody
                 /\ OnTheWay(s, d) \/ Shown(s, d) => OnTheWay(s, d)' \/ Shown(s, d)'
      <4>1. Reachable(d)' => d = c \/ Reachable(d)
        BY <1>19 DEF Reachable
      <4>2. answered'[c] = NoBody
        BY <1>1, <1>2, <1>3 DEF CallOK
      <4>3. (OnTheWay(s, d) <=> OnTheWay(s, d)') /\ (Shown(s, d) <=> Shown(s, d)')
        BY <1>1, <1>17 DEF OnTheWay, Shown
      <4> QED BY <4>1, <4>2, <4>3
    <3>7. ASSUME NEW d \in Calls, sub'[s].sure, sub[s].pc = "listing", Remaining(s, d) PROVE Remaining(s, d)'
      <4>0. PICK k \in 1 .. Len(sub[s].list) : \E j \in 1 .. sub[s].list[k][2] :
              (k = 1 => j >= sub[s].next) /\ heap[sub[s].list[k][1]].recs[j] = d
        BY <3>7 DEF Remaining
      <4>1. PICK j \in 1 .. sub[s].list[k][2] :
              (k = 1 => j >= sub[s].next) /\ heap[sub[s].list[k][1]].recs[j] = d
        BY <4>0
      <4> DEFINE i == sub[s].list[k][1]
      <4>2. i \in 1 .. Len(heap) /\ j \in 1 .. Len(heap[i].recs)
        BY <3>3, <3>4
      <4>3. heap'[i].recs[j] = d
        <5>1. CASE i # at
          BY <1>12, <4>1, <4>2, <5>1
        <5>2. CASE i = at
          <6>1. heap[i] = old /\ heap'[i].recs = recs
            BY <1>5, <1>6, <1>8, <1>12, <4>2, <5>2
          <6>2. DOMAIN sub[s].list = 1 .. Len(sub[s].list)
            BY <3>2 DEF Subscriptions
          <6>3. listens(s)
            BY <5>2, <6>2 DEF RC!Range
          <6>4. ~full
            <7>1. ASSUME full PROVE FALSE
              <8>1. shifted # {}
                BY <1>9, <7>1
              <8>2. sub'[s] = [sub[s] EXCEPT !.sure = FALSE]
                BY <1>15, <3>7, <6>3, <8>1
              <8>3. [sub[s] EXCEPT !.sure = FALSE].sure = FALSE
                BY <3>2 DEF Subscriptions
              <8> QED BY <3>7, <8>2, <8>3
            <7> QED BY <7>1
          <6> QED BY <1>9, <4>1, <4>2, <6>1, <6>4
        <5> QED BY <5>1, <5>2
      <4> QED BY <1>17, <4>1, <4>3 DEF Remaining
    <3> QED BY <1>17, <2>1, <3>5, <3>6, <3>7, MissedFrame
  <2> QED BY <2>2, <2>3
<1> QED BY <1>18, <1>20, <1>21, <1>22, <1>23 DEF RecInv, CallsOK

(* A broadcast gets the lock: its messages are on the way to all who listen. *)
LEMMA RecBegin ==
  ASSUME RecInv, NEW b \in pending, RC!BroadcastBegin(b)
  PROVE  RecInv'
<1> DEFINE sent == {[to |-> s, by |-> b[1], rec |-> b[2]] : s \in RC!Registered}
<1>1. /\ UNCHANGED <<named, runners, call, heap, records, answered, sub, excuse, panicked>>
      /\ pending' = pending \ {b} /\ sending' = sending \cup sent
  BY DEF RC!BroadcastBegin
<1>2. /\ b \in Calls \X Calls /\ b[1] = b[2] /\ call[b[1]].pc \in {"recorded", "done"}
      /\ RC!Registered \subseteq Subscribers
      /\ \A s \in RC!Registered : sub[s].pc \in {"registered", "listing", "live"}
  BY DEF RecInv, RecTypes, BroadcastsOK, RC!Registered
<1>3. \A m \in sent : /\ m \in [to : Subscribers, by : Calls, rec : Calls]
                      /\ m.by = b[1] /\ m.to \in RC!Registered
  BY <1>2
<1>4. \A s \in RC!Registered : \E m \in sent : m.to = s /\ m.rec = b[2]
  <2> SUFFICES ASSUME NEW s \in RC!Registered PROVE \E m \in sent : m.to = s /\ m.rec = b[2]
    OBVIOUS
  <2>1. [to |-> s, by |-> b[1], rec |-> b[2]] \in sent
    OBVIOUS
  <2> QED BY <2>1
<1> HIDE DEF sent
<1>5. RecTypes'
  BY <1>1, <1>3 DEF RecInv, RecTypes
<1>6. HeapOK'
  BY <1>1, HeapFrame DEF RecInv
<1>7. \A c \in Calls : \A i : InList(c, i)' <=> InList(c, i)
  BY <1>1 DEF InList, RC!Listed
<1>8. ASSUME NEW c \in Calls PROVE CallOK(c)'
  <2>1. /\ CallOK(c) /\ call'[c] = call[c] /\ answered'[c] = answered[c] /\ excuse'[c] = excuse[c]
        /\ named' = named
    BY <1>1 DEF RecInv, CallsOK
  <2> QED BY <1>7, <2>1, CallFrame
<1>9. BroadcastsOK'
  BY <1>1, <1>2, <1>3 DEF RecInv, BroadcastsOK
<1>10. ASSUME NEW s \in Subscribers PROVE NothingMissed(s)'
  <2>1. NothingMissed(s) /\ sub'[s] = sub[s]
    BY <1>1 DEF RecInv
  <2>2. CASE sub[s].pc \notin {"registered", "listing", "live"}
    BY <2>1, <2>2 DEF NothingMissed
  <2>3. CASE sub[s].pc \in {"registered", "listing", "live"}
    <3>1. ListsToSend(s) => ListsToSend(s)'
      BY <1>1 DEF ListsToSend
    <3>2. s \in RC!Registered
      BY <2>3 DEF RC!Registered
    <3>3. PICK m \in sent : m.to = s /\ m.rec = b[2]
      BY <1>4, <3>2
    <3>4. ASSUME NEW c \in Calls
          PROVE  /\ Reachable(c)' => Reachable(c)
                 /\ OnTheWay(s, c) \/ Shown(s, c) => OnTheWay(s, c)' \/ Shown(s, c)'
                 /\ Remaining(s, c) => Remaining(s, c)'
      <4>1. Reachable(c)' => Reachable(c)
        BY <1>7 DEF Reachable
      <4>2. OnTheWay(s, c) => OnTheWay(s, c)'
        BY <1>1, <3>3 DEF OnTheWay
      <4>3. Shown(s, c) => Shown(s, c)'
        BY <1>1 DEF Shown
      <4>4. Remaining(s, c) => Remaining(s, c)'
        BY <1>1 DEF Remaining
      <4> QED BY <4>1, <4>2, <4>3, <4>4
    <3> QED BY <2>1, <3>1, <3>4, MissedFrame
  <2> QED BY <2>2, <2>3
<1> QED BY <1>5, <1>6, <1>8, <1>9, <1>10 DEF RecInv, CallsOK

(* A step of the subscribers alone. *)
LEMMA SubFrame ==
  ASSUME RecInv, RecTypes', UNCHANGED <<named, runners, call, heap, records, answered, pending, excuse>>,
         sending' \subseteq sending,
         \A m \in sending' : sub'[m.to].pc \in {"registered", "listing", "live"},
         \A s \in Subscribers : NothingMissed(s)'
  PROVE  RecInv'
<1>1. HeapOK'
  BY HeapFrame DEF RecInv
<1>2. \A c \in Calls : \A i : InList(c, i)' <=> InList(c, i)
  BY DEF InList, RC!Listed
<1>3. ASSUME NEW c \in Calls PROVE CallOK(c)'
  <2>1. /\ CallOK(c) /\ call'[c] = call[c] /\ answered'[c] = answered[c] /\ excuse'[c] = excuse[c]
        /\ named' = named
    BY DEF RecInv, CallsOK
  <2> QED BY <1>2, <2>1, CallFrame
<1>4. BroadcastsOK'
  BY DEF RecInv, BroadcastsOK
<1> QED BY <1>1, <1>3, <1>4 DEF RecInv, CallsOK

(* What is still on the way to a subscriber, when nothing else moves. *)
LEMMA MissedOthers ==
  ASSUME RecInv, NEW s \in Subscribers, sub'[s] = sub[s],
         UNCHANGED <<heap, records, answered, pending>>,
         \A m \in sending : m.to = s => m \in sending'
  PROVE  NothingMissed(s)'
<1>1. NothingMissed(s)
  BY DEF RecInv
<1>2. ListsToSend(s) => ListsToSend(s)'
  BY DEF ListsToSend
<1>3. ASSUME NEW c \in Calls
      PROVE  /\ Reachable(c)' => Reachable(c)
             /\ OnTheWay(s, c) \/ Shown(s, c) => OnTheWay(s, c)' \/ Shown(s, c)'
             /\ Remaining(s, c) => Remaining(s, c)'
  <2>1. Reachable(c)' => Reachable(c)
    BY DEF Reachable, InList, RC!Listed
  <2>2. OnTheWay(s, c) => OnTheWay(s, c)'
    BY DEF OnTheWay
  <2>3. Shown(s, c) => Shown(s, c)'
    BY DEF Shown
  <2>4. Remaining(s, c) => Remaining(s, c)'
    BY DEF Remaining
  <2> QED BY <2>1, <2>2, <2>3, <2>4
<1> QED BY <1>1, <1>2, <1>3, MissedFrame

(* What is sent to a subscriber was on its way to it, and is in its channel now. *)
LEMMA RecSend ==
  ASSUME RecInv, NEW m \in sending, RC!BroadcastSend(m)
  PROVE  RecInv'
<1>a. PICK t : t = m.to
  OBVIOUS
<1>b. PICK note : note = [model |-> call[m.by].ref, rec |-> m.rec]
  OBVIOUS
<1>1. /\ m \in [to : Subscribers, by : Calls, rec : Calls] /\ t \in Subscribers
      /\ call[m.by].pc \in {"recorded", "done"}
      /\ sub[t].pc \in {"registered", "listing", "live"}
  BY <1>a DEF RecInv, RecTypes, BroadcastsOK
<1>2. /\ UNCHANGED <<named, runners, call, heap, records, answered, pending, excuse>>
      /\ sending' = sending \ {m} /\ panicked' = FALSE
      /\ sub' = IF Len(sub[t].chan) < Buffer THEN [sub EXCEPT ![t].chan = Append(@, note)]
                ELSE [sub EXCEPT ![t].sure = FALSE]
  BY <1>a, <1>b, <1>1 DEF RC!BroadcastSend, RecInv, RecTypes
<1>3. note \in Messages /\ note.rec = m.rec
  <2>1. call[m.by] \in RunningCalls
    BY <1>1 DEF RecInv, RecTypes, RC!Idle
  <2> QED BY <1>b, <1>1, <2>1 DEF Messages, RunningCalls
<1>4. sub[t] \in Subscriptions
  BY <1>1, OpenSubscribers DEF RecInv
<1>5. PICK new \in Subscriptions :
        /\ sub' = [sub EXCEPT ![t] = new]
        /\ \A f \in {"pc", "filter", "list", "next", "seen"} : new[f] = sub[t][f]
        /\ new.sure => sub[t].sure /\ new.chan = Append(sub[t].chan, note)
  <2>1. CASE Len(sub[t].chan) < Buffer
    <3>1. PICK new : new = [sub[t] EXCEPT !.chan = Append(@, note)]
      OBVIOUS
    <3>2. Append(sub[t].chan, note) \in Seq(Messages)
      BY <1>3, <1>4 DEF Subscriptions
    <3>3. /\ new \in Subscriptions /\ new.chan = Append(sub[t].chan, note) /\ new.sure = sub[t].sure
          /\ \A f \in {"pc", "filter", "list", "next", "seen"} : new[f] = sub[t][f]
      BY <1>4, <3>1, <3>2 DEF Subscriptions
    <3>4. sub' = [sub EXCEPT ![t] = new]
      BY <1>2, <2>1, <3>1
    <3> QED BY <3>3, <3>4
  <2>2. CASE ~(Len(sub[t].chan) < Buffer)
    <3>1. PICK new : new = [sub[t] EXCEPT !.sure = FALSE]
      OBVIOUS
    <3>2. /\ new \in Subscriptions /\ new.sure = FALSE
          /\ \A f \in {"pc", "filter", "list", "next", "seen"} : new[f] = sub[t][f]
      BY <1>4, <3>1 DEF Subscriptions
    <3>3. sub' = [sub EXCEPT ![t] = new]
      BY <1>2, <2>2, <3>1
    <3> QED BY <3>2, <3>3
  <2> QED BY <2>1, <2>2
<1>6. sub'[t] = new /\ \A s \in Subscribers \ {t} : sub'[s] = sub[s]
  BY <1>1, <1>5 DEF RecInv, RecTypes
<1>7. RecTypes'
  BY <1>2, <1>5 DEF RecInv, RecTypes
<1>8. ASSUME NEW n \in sending' PROVE sub'[n.to].pc \in {"registered", "listing", "live"}
  <2>1. n \in sending /\ n.to \in Subscribers /\ sub[n.to].pc \in {"registered", "listing", "live"}
    BY <1>2 DEF RecInv, RecTypes, BroadcastsOK
  <2>2. new.pc = sub[t].pc
    BY <1>5
  <2> QED BY <1>6, <2>1, <2>2
<1>9. ASSUME NEW s \in Subscribers PROVE NothingMissed(s)'
  <2>1. CASE s # t
    BY <1>a, <1>2, <1>6, <2>1, MissedOthers
  <2>2. CASE s = t
    <3>1. NothingMissed(s) /\ s \in Subscribers
      BY DEF RecInv
    <3>2. \A f \in {"pc", "filter", "list", "next", "seen"} : sub'[s][f] = sub[s][f]
      BY <1>5, <1>6, <2>2
    <3>3. ListsToSend(s) => ListsToSend(s)'
      BY <1>2, <3>2 DEF ListsToSend
    <3>4. ASSUME NEW c \in Calls, sub'[s].sure
          PROVE  /\ Reachable(c)' => Reachable(c)
                 /\ OnTheWay(s, c) \/ Shown(s, c) => OnTheWay(s, c)' \/ Shown(s, c)'
                 /\ Remaining(s, c) => Remaining(s, c)'
      <4>1. Reachable(c)' => Reachable(c)
        BY <1>2 DEF Reachable, InList, RC!Listed
      <4>2. /\ sub[s].chan \in Seq(Messages) /\ sub'[s].chan = Append(sub[s].chan, note)
        BY <1>4, <1>5, <1>6, <2>2, <3>4 DEF Subscriptions
      <4>3. /\ Len(sub'[s].chan) = Len(sub[s].chan) + 1 /\ Len(sub[s].chan) \in Nat
            /\ sub'[s].chan[Len(sub[s].chan) + 1].rec = m.rec
            /\ \A i \in 1 .. Len(sub[s].chan) : sub'[s].chan[i] = sub[s].chan[i]
        BY <1>3, <4>2
      <4>4. \A i \in 1 .. Len(sub[s].chan) + 1 : i \in 1 .. Len(sub'[s].chan)
        BY <4>3
      <4>5. Shown(s, c) => Shown(s, c)'
        <5>1. CASE <<c, answered[c]>> \in sub[s].seen
          BY <1>2, <3>2, <5>1 DEF Shown
        <5>2. ASSUME NEW i \in 1 .. Len(sub[s].chan), sub[s].chan[i].rec = c PROVE Shown(s, c)'
          <6>1. i \in 1 .. Len(sub'[s].chan) /\ sub'[s].chan[i].rec = c
            BY <4>3, <5>2
          <6> QED BY <6>1 DEF Shown
        <5> QED BY <5>1, <5>2 DEF Shown
      <4>6. OnTheWay(s, c) => OnTheWay(s, c)' \/ Shown(s, c)'
        <5>1. CASE m.rec = c
          <6>1. Len(sub[s].chan) + 1 \in 1 .. Len(sub'[s].chan)
            BY <4>3
          <6> QED BY <4>3, <5>1, <6>1 DEF Shown
        <5>2. CASE m.rec # c
          BY <1>2, <5>2 DEF OnTheWay
        <5> QED BY <5>1, <5>2
      <4>7. Remaining(s, c) => Remaining(s, c)'
        BY <1>2, <3>2 DEF Remaining
      <4> QED BY <4>1, <4>5, <4>6, <4>7
    <3>5. sub'[s].sure => sub[s].sure
      BY <1>5, <1>6, <2>2
    <3> QED BY <3>1, <3>2, <3>3, <3>4, <3>5, MissedFrame
  <2> QED BY <2>1, <2>2
<1>10. sending' \subseteq sending
  BY <1>2
<1> QED BY <1>2, <1>7, <1>8, <1>9, <1>10, SubFrame

(* A step of one subscriber, to what new is. *)
LEMMA OneSubscriber ==
  ASSUME RecInv, NEW s \in Subscribers, NEW new \in Subscriptions \cup {GoneSubscriber},
         UNCHANGED <<named, runners, call, heap, records, answered, pending, sending, excuse, panicked>>,
         sub' = [sub EXCEPT ![s] = new],
         \/ new.pc \in {"registered", "listing", "live"}
         \/ \A m \in sending : m.to # s,
         NothingMissed(s)'
  PROVE  RecInv'
<1>1. RecTypes'
  BY DEF RecInv, RecTypes
<1>2. sub'[s] = new /\ \A t \in Subscribers \ {s} : sub'[t] = sub[t]
  BY DEF RecInv, RecTypes
<1>3. ASSUME NEW m \in sending' PROVE sub'[m.to].pc \in {"registered", "listing", "live"}
  <2>1. m.to \in Subscribers /\ sub[m.to].pc \in {"registered", "listing", "live"}
    BY DEF RecInv, RecTypes, BroadcastsOK
  <2> QED BY <1>2, <2>1
<1>4. ASSUME NEW t \in Subscribers PROVE NothingMissed(t)'
  BY <1>2, MissedOthers
<1> QED BY <1>1, <1>3, <1>4, SubFrame

(* A new subscriber has everything ahead of it: it is registered first. *)
LEMMA RecSubscribe ==
  ASSUME RecInv, NEW s \in Subscribers, NEW f \in Filters, RC!Subscribe(s, f)
  PROVE  RecInv'
<1>1. PICK new : new = [pc |-> "registered", filter |-> f, list |-> <<>>, next |-> 1,
                        chan |-> <<>>, seen |-> {}, sure |-> TRUE]
  OBVIOUS
<1>2. /\ sub' = [sub EXCEPT ![s] = new] /\ sending = {}
      /\ UNCHANGED <<named, runners, call, heap, records, answered, pending, sending, excuse, panicked>>
  BY <1>1 DEF RC!Subscribe, RC!UnchangedButSub, RC!WriteLocked
<1>3. new \in Subscriptions
  BY <1>1 DEF Subscriptions
<1>4. new.pc = "registered" /\ new.next = 1 /\ new.list = <<>>
  BY <1>1
<1>5. sub'[s] = new
  BY <1>2 DEF RecInv, RecTypes
<1>6. NothingMissed(s)'
  BY <1>4, <1>5 DEF NothingMissed, ListsToSend
<1> QED BY <1>2, <1>3, <1>6, OneSubscriber

(* The lists a subscriber takes hold every answer that is not on its way to it. *)
LEMMA RecListExisting ==
  ASSUME RC!RecorderAssumption, RecInv, NEW s \in Subscribers, RC!ListExisting(s)
  PROVE  RecInv'
<1>1. PICK wanted : wanted = {id \in RunnerIDs : /\ records[id] # 0
                                                 /\ sub[s].filter = Every \/ id = named[sub[s].filter]}
  OBVIOUS
<1>2. PICK lists : lists = {<<records[id], Len(heap[records[id]].recs)>> : id \in wanted}
  OBVIOUS
<1>3. PICK order \in [1 .. RC!Cardinality(lists) -> lists] :
        RC!Range(order) = lists /\ sub' = [sub EXCEPT ![s].pc = "listing", ![s].list = order]
  BY <1>1, <1>2 DEF RC!ListExisting
<1>4. /\ sub[s].pc = "registered"
      /\ UNCHANGED <<named, runners, call, heap, records, answered, pending, sending, excuse, panicked>>
  BY DEF RC!ListExisting, RC!UnchangedButSub
<1>5. RC!Cardinality(lists) \in Nat
  <2>1. IsFiniteSet(wanted)
    <3>1. IsFiniteSet(RunnerIDs) /\ wanted \subseteq RunnerIDs
      BY <1>1 DEF RC!RecorderAssumption, RC!IsFiniteSet, IsFiniteSet
    <3> QED BY <3>1, FS_Subset
  <2>2. IsFiniteSet(lists)
    <3> DEFINE pair == [id \in wanted |-> <<records[id], Len(heap[records[id]].recs)>>]
    <3>1. pair \in Surjection(wanted, lists)
      BY <1>2 DEF Surjection
    <3> QED BY <2>1, <3>1, FS_Surjection
  <2>3. RC!Cardinality(lists) = Cardinality(lists)
    BY DEF RC!Cardinality, Cardinality, RC!IsFiniteSet, IsFiniteSet
  <2> QED BY <2>2, <2>3, FS_CardinalityType
<1>6. ASSUME NEW id \in wanted
      PROVE  /\ records[id] \in 1 .. Len(heap) /\ Len(heap[records[id]].recs) \in Nat
             /\ <<records[id], Len(heap[records[id]].recs)>> \in lists
  <2>1. id \in RunnerIDs /\ records[id] # 0
    BY <1>1
  <2>2. records[id] \in 1 .. Len(heap) /\ heap[records[id]] \in Lists
    BY <2>1 DEF RecInv, RecTypes, HeapOK
  <2> QED BY <1>2, <2>2 DEF Lists
<1>7. \A l \in lists : /\ l \in Nat \X Nat /\ l[1] \in 1 .. Len(heap)
                       /\ l[2] = Len(heap[l[1]].recs)
  BY <1>2, <1>6
<1>8. order \in Seq(Nat \X Nat) /\ Len(order) = RC!Cardinality(lists)
      /\ \A k \in 1 .. Len(order) : order[k] \in lists
  BY <1>3, <1>5, <1>7
<1>9. sub[s] \in Subscriptions /\ sub[s].next = 1
  BY <1>4, OpenSubscribers DEF RecInv, NothingMissed, ListsToSend
<1>10. PICK new : new = [sub[s] EXCEPT !.pc = "listing", !.list = order]
  OBVIOUS
<1>11. /\ new \in Subscriptions /\ new.pc = "listing" /\ new.list = order /\ new.next = 1
       /\ new.filter = sub[s].filter
  BY <1>8, <1>9, <1>10 DEF Subscriptions
<1>12. sub' = [sub EXCEPT ![s] = new]
  BY <1>3, <1>10
<1>13. sub'[s] = new
  BY <1>12 DEF RecInv, RecTypes
<1>14. NothingMissed(s)'
  <2>1. ListsToSend(s)'
    BY <1>4, <1>7, <1>8, <1>11, <1>13 DEF ListsToSend
  <2>2. ASSUME new.filter = Every, NEW c \in Calls, Reachable(c) PROVE Remaining(s, c)'
    <3>1. PICK id \in RunnerIDs : InList(c, id)
      BY <2>2 DEF Reachable
    <3>2. PICK j \in 1 .. Len(RC!Listed(id)) : RC!Listed(id)[j] = c
      BY <3>1 DEF InList
    <3>3. /\ records[id] \in 1 .. Len(heap) /\ RC!Listed(id) = heap[records[id]].recs
          /\ Len(RC!Listed(id)) \in Nat
      BY <3>2, ListsAre DEF RecInv
    <3>4. id \in wanted
      BY <1>1, <1>11, <2>2, <3>3
    <3>5. PICK k \in DOMAIN order : order[k] = <<records[id], Len(heap[records[id]].recs)>>
      BY <1>3, <1>6, <3>4 DEF RC!Range
    <3>6. k \in 1 .. Len(order) /\ order[k][1] = records[id] /\ order[k][2] = Len(RC!Listed(id)) /\ j >= 1
      BY <1>8, <3>2, <3>3, <3>5
    <3>7. j \in 1 .. order[k][2] /\ heap'[order[k][1]].recs[j] = c
      BY <1>4, <3>2, <3>3, <3>6
    <3> QED BY <1>11, <1>13, <3>6, <3>7 DEF Remaining
  <2>3. \A c \in Calls : Reachable(c)' => Reachable(c)
    BY <1>4 DEF Reachable, InList, RC!Listed
  <2> QED BY <1>11, <1>13, <2>1, <2>2, <2>3 DEF NothingMissed
<1> QED BY <1>4, <1>11, <1>12, <1>14, OneSubscriber

(* A record that is sent is seen; one that is passed over is in no list to send. *)
LEMMA RecSendExisting ==
  ASSUME RecInv, NEW s \in Subscribers, RC!SendExisting(s)
  PROVE  RecInv'
<1>a. PICK l : l = sub[s].list[1]
  OBVIOUS
<1>b. PICK c : c = heap[l[1]].recs[sub[s].next]
  OBVIOUS
<1>c. PICK list : list = sub[s].list
  OBVIOUS
<1>d. PICK n : n = sub[s].next
  OBVIOUS
<1>1. /\ sub[s].pc = "listing" /\ list # <<>>
      /\ sub' = IF n > l[2] THEN [sub EXCEPT ![s].list = Tail(@), ![s].next = 1]
                ELSE [sub EXCEPT ![s].seen = @ \cup {<<c, answered[c]>>}, ![s].next = @ + 1]
      /\ UNCHANGED <<named, runners, call, heap, records, answered, pending, sending, excuse, panicked>>
  BY <1>a, <1>b, <1>c, <1>d DEF RC!SendExisting, RC!UnchangedButSub
<1>2. sub[s] \in Subscriptions /\ NothingMissed(s) /\ ListsToSend(s)
  BY <1>1, OpenSubscribers DEF RecInv, NothingMissed
<1>3. /\ list \in Seq(Nat \X Nat) /\ Len(list) \in Nat /\ Len(list) >= 1 /\ n \in Nat /\ n >= 1 /\ l = list[1]
      /\ l[1] \in Nat /\ l[2] \in Nat
  BY <1>a, <1>c, <1>d, <1>1, <1>2 DEF Subscriptions, ListsToSend
<1>4. \A k \in 1 .. Len(list) : list[k][1] \in 1 .. Len(heap) /\ list[k][2] <= Len(heap[list[k][1]].recs)
  BY <1>c, <1>2 DEF ListsToSend
<1>5. PICK new \in Subscriptions :
        /\ sub' = [sub EXCEPT ![s] = new]
        /\ new.pc = "listing" /\ \A f \in {"filter", "chan", "sure"} : new[f] = sub[s][f]
        /\ \/ n > l[2] /\ new.list = Tail(list) /\ new.next = 1 /\ new.seen = sub[s].seen
           \/ /\ n <= l[2] /\ new.list = list /\ new.next = n + 1
              /\ new.seen = sub[s].seen \cup {<<c, answered[c]>>}
  <2>1. CASE n > l[2]
    <3>1. PICK new : new = [sub[s] EXCEPT !.list = Tail(list), !.next = 1]
      OBVIOUS
    <3>2. Tail(list) \in Seq(Nat \X Nat)
      BY <1>3
    <3>3. /\ new \in Subscriptions /\ new.list = Tail(list) /\ new.next = 1
          /\ \A f \in {"pc", "filter", "chan", "sure", "seen"} : new[f] = sub[s][f]
      BY <1>2, <3>1, <3>2 DEF Subscriptions
    <3>4. sub' = [sub EXCEPT ![s] = new]
      BY <1>c, <1>1, <2>1, <3>1
    <3> QED BY <1>1, <2>1, <3>3, <3>4
  <2>2. CASE n <= l[2]
    <3>0. ~(n > l[2])
      BY <1>3, <2>2
    <3>1. PICK new : new = [sub[s] EXCEPT !.seen = sub[s].seen \cup {<<c, answered[c]>>}, !.next = n + 1]
      OBVIOUS
    <3>2. c \in Calls
      <4>1. l[1] \in 1 .. Len(heap) /\ l[2] <= Len(heap[l[1]].recs)
        BY <1>3, <1>4
      <4>2. heap[l[1]] \in Lists
        BY <4>1 DEF RecInv, RecTypes
      <4>3. heap[l[1]].recs \in Seq(Calls) /\ Len(heap[l[1]].recs) \in Nat
        BY <4>2 DEF Lists
      <4>4. n \in 1 .. Len(heap[l[1]].recs)
        BY <1>3, <2>2, <4>1, <4>3
      <4> QED BY <1>b, <1>d, <4>3, <4>4
    <3>3. <<c, answered[c]>> \in Calls \X Told /\ n + 1 \in Nat
      BY <1>3, <3>2 DEF RecInv, RecTypes
    <3>4. /\ new \in Subscriptions /\ new.seen = sub[s].seen \cup {<<c, answered[c]>>} /\ new.next = n + 1
          /\ \A f \in {"pc", "filter", "chan", "sure", "list"} : new[f] = sub[s][f]
      BY <1>2, <3>1, <3>3 DEF Subscriptions
    <3>5. sub' = [sub EXCEPT ![s] = new]
      BY <1>d, <1>1, <3>0, <3>1
    <3> QED BY <1>c, <1>1, <2>2, <3>4, <3>5
  <2> QED BY <1>3, <2>1, <2>2
<1>6. sub'[s] = new
  BY <1>5 DEF RecInv, RecTypes
<1>7. ListsToSend(s)'
  <2>0. ASSUME new.next >= 1,
               \A k \in 1 .. Len(new.list) : /\ new.list[k][1] \in 1 .. Len(heap)
                                             /\ new.list[k][2] <= Len(heap[new.list[k][1]].recs)
        PROVE  ListsToSend(s)'
    <3>1. sub'[s].pc = "listing" /\ sub'[s].next = new.next /\ sub'[s].list = new.list /\ heap' = heap
      BY <1>1, <1>5, <1>6
    <3>2. sub'[s].pc # "registered"
      BY <3>1
    <3> QED BY <2>0, <3>1, <3>2 DEF ListsToSend
  <2>1. CASE new.list = Tail(list) /\ new.next = 1
    <3>1. Len(new.list) = Len(list) - 1 /\ \A k \in 1 .. Len(list) - 1 : new.list[k] = list[k + 1]
      BY <1>3, <2>1
    <3>2. ASSUME NEW k \in 1 .. Len(new.list)
          PROVE  new.list[k][1] \in 1 .. Len(heap) /\ new.list[k][2] <= Len(heap[new.list[k][1]].recs)
      <4>1. k + 1 \in 1 .. Len(list) /\ new.list[k] = list[k + 1]
        BY <1>3, <3>1
      <4> QED BY <1>4, <4>1
    <3> QED BY <2>0, <2>1, <3>2
  <2>2. CASE new.list = list /\ new.next = n + 1
    BY <1>3, <1>4, <2>0, <2>2
  <2> QED BY <1>5, <2>1, <2>2
<1>8. ASSUME NEW d \in Calls, Remaining(s, d)
      PROVE  Remaining(s, d)' \/ <<d, answered[d]>> \in new.seen
  <2>1. PICK k \in 1 .. Len(list) : \E j \in 1 .. list[k][2] :
          (k = 1 => j >= n) /\ heap[list[k][1]].recs[j] = d
    BY <1>c, <1>d, <1>8 DEF Remaining
  <2>2. PICK j \in 1 .. list[k][2] : (k = 1 => j >= n) /\ heap[list[k][1]].recs[j] = d
    BY <2>1
  <2>3. CASE n > l[2] /\ new.list = Tail(list) /\ new.next = 1
    <3>1. k # 1
      BY <1>3, <2>2, <2>3
    <3>2. k - 1 \in 1 .. Len(new.list) /\ new.list[k - 1] = list[k]
      BY <1>3, <2>3, <3>1
    <3>3. PICK i \in 1 .. Len(new.list) : i = k - 1 /\ new.list[i] = list[k]
      BY <3>2
    <3>4. j \in 1 .. new.list[i][2] /\ heap'[new.list[i][1]].recs[j] = d /\ j >= 1
      BY <1>1, <1>3, <2>2, <3>3
    <3> QED BY <1>6, <2>3, <3>4 DEF Remaining
  <2>4. CASE n <= l[2] /\ new.list = list /\ new.next = n + 1 /\ new.seen = sub[s].seen \cup {<<c, answered[c]>>}
    <3>1. CASE k = 1 /\ j = n
      <4>1. d = c
        BY <1>b, <1>d, <1>3, <2>2, <3>1
      <4> QED BY <2>4, <4>1
    <3>2. CASE ~(k = 1 /\ j = n)
      <4>0. j \in Nat
        BY <1>3, <2>2
      <4>1. k = 1 => j >= n + 1
        BY <1>3, <2>2, <3>2, <4>0
      <4> QED BY <1>1, <1>6, <2>2, <2>4, <4>1 DEF Remaining
    <3> QED BY <3>1, <3>2
  <2> QED BY <1>5, <2>3, <2>4
<1>9. ASSUME NEW d \in Calls
      PROVE  /\ Reachable(d)' => Reachable(d)
             /\ OnTheWay(s, d) => OnTheWay(s, d)'
             /\ Shown(s, d) => Shown(s, d)'
             /\ <<d, answered[d]>> \in new.seen => Shown(s, d)'
  <2>1. sub[s].seen \subseteq new.seen /\ new.chan = sub[s].chan
    BY <1>5
  <2>2. Reachable(d)' => Reachable(d)
    BY <1>1 DEF Reachable, InList, RC!Listed
  <2>3. OnTheWay(s, d) => OnTheWay(s, d)'
    BY <1>1 DEF OnTheWay
  <2> QED BY <1>1, <1>6, <2>1, <2>2, <2>3 DEF Shown
<1>10. NothingMissed(s)'
  <2>1. new.pc = "listing" /\ new.sure = sub[s].sure /\ new.filter = sub[s].filter
    BY <1>5
  <2> QED BY <1>1, <1>2, <1>6, <1>7, <1>8, <1>9, <2>1 DEF NothingMissed
<1>11. new.pc = "listing"
  BY <1>5
<1> QED BY <1>1, <1>5, <1>10, <1>11, OneSubscriber

(* When the existing records are sent, nothing is left of them to miss. *)
LEMMA RecConnected ==
  ASSUME RecInv, NEW s \in Subscribers, RC!Connected(s)
  PROVE  RecInv'
<1>1. /\ sub[s].pc = "listing" /\ sub[s].list = <<>> /\ sub' = [sub EXCEPT ![s].pc = "live"]
      /\ UNCHANGED <<named, runners, call, heap, records, answered, pending, sending, excuse, panicked>>
  BY DEF RC!Connected, RC!UnchangedButSub
<1>2. sub[s] \in Subscriptions /\ NothingMissed(s)
  BY <1>1, OpenSubscribers DEF RecInv
<1>3. PICK new : new = [sub[s] EXCEPT !.pc = "live"]
  OBVIOUS
<1>4. /\ new \in Subscriptions /\ new.pc = "live"
      /\ \A f \in {"filter", "list", "next", "chan", "seen", "sure"} : new[f] = sub[s][f]
  BY <1>2, <1>3 DEF Subscriptions
<1>5. sub' = [sub EXCEPT ![s] = new]
  BY <1>1, <1>3
<1>6. sub'[s] = new
  BY <1>5 DEF RecInv, RecTypes
<1>7. ListsToSend(s)'
  <2>1. new.pc # "registered"
    BY <1>4
  <2> QED BY <1>1, <1>2, <1>4, <1>6, <2>1 DEF ListsToSend, NothingMissed
<1>8. ASSUME NEW c \in Calls
      PROVE  /\ ~Remaining(s, c)
             /\ Reachable(c)' => Reachable(c)
             /\ OnTheWay(s, c) => OnTheWay(s, c)'
             /\ Shown(s, c) => Shown(s, c)'
  <2>1. ~Remaining(s, c)
    BY <1>1 DEF Remaining
  <2>2. Reachable(c)' => Reachable(c)
    BY <1>1 DEF Reachable, InList, RC!Listed
  <2>3. OnTheWay(s, c) => OnTheWay(s, c)'
    BY <1>1 DEF OnTheWay
  <2>4. Shown(s, c) => Shown(s, c)'
    BY <1>1, <1>4, <1>6 DEF Shown
  <2> QED BY <2>1, <2>2, <2>3, <2>4
<1>9. NothingMissed(s)'
  <2>1. new.sure = sub[s].sure /\ new.filter = sub[s].filter /\ new.pc # "listing"
    BY <1>4
  <2>2. \A c \in Calls : /\ ~Remaining(s, c)
                         /\ Reachable(c)' => Reachable(c)
    BY <1>8
  <2> QED BY <1>1, <1>2, <1>6, <1>7, <1>8, <2>1, <2>2 DEF NothingMissed
<1> QED BY <1>1, <1>4, <1>5, <1>9, OneSubscriber

(* What a subscriber takes from its channel it has seen. *)
LEMMA RecReceive ==
  ASSUME RecInv, NEW s \in Subscribers, RC!Receive(s)
  PROVE  RecInv'
<1>a. PICK m : m = Head(sub[s].chan)
  OBVIOUS
<1>b. PICK more : more = IF sub[s].filter \in {Every, m.model} THEN {<<m.rec, answered[m.rec]>>} ELSE {}
  OBVIOUS
<1>1. /\ sub[s].pc = "live" /\ sub[s].chan # <<>>
      /\ sub' = [sub EXCEPT ![s].chan = Tail(@), ![s].seen = @ \cup more]
      /\ UNCHANGED <<named, runners, call, heap, records, answered, pending, sending, excuse, panicked>>
  BY <1>a, <1>b DEF RC!Receive, RC!UnchangedButSub
<1>2. sub[s] \in Subscriptions /\ NothingMissed(s)
  BY <1>1, OpenSubscribers DEF RecInv
<1>3. PICK chan : chan = sub[s].chan
  OBVIOUS
<1>4. /\ chan \in Seq(Messages) /\ Len(chan) \in Nat /\ Len(chan) >= 1 /\ m = chan[1] /\ m \in Messages
      /\ Tail(chan) \in Seq(Messages) /\ Len(Tail(chan)) = Len(chan) - 1
      /\ \A i \in 1 .. Len(chan) - 1 : Tail(chan)[i] = chan[i + 1]
  BY <1>a, <1>1, <1>2, <1>3 DEF Subscriptions
<1>5. /\ m.rec \in Calls /\ more \subseteq Calls \X Told
      /\ sub[s].filter = Every => more = {<<m.rec, answered[m.rec]>>}
  BY <1>b, <1>4 DEF Messages, RecInv, RecTypes
<1>6. PICK new : new = [sub[s] EXCEPT !.chan = Tail(chan), !.seen = sub[s].seen \cup more]
  OBVIOUS
<1>7. /\ new \in Subscriptions /\ new.chan = Tail(chan) /\ new.seen = sub[s].seen \cup more
      /\ \A f \in {"pc", "filter", "list", "next", "sure"} : new[f] = sub[s][f]
  BY <1>2, <1>4, <1>5, <1>6 DEF Subscriptions
<1>8. sub' = [sub EXCEPT ![s] = new]
  BY <1>1, <1>3, <1>6
<1>9. sub'[s] = new
  BY <1>8 DEF RecInv, RecTypes
<1>10. ListsToSend(s)'
  <2>1. new.pc # "registered" /\ new.list = sub[s].list /\ new.next = sub[s].next
    BY <1>1, <1>7
  <2> QED BY <1>1, <1>2, <1>9, <2>1 DEF ListsToSend, NothingMissed
<1>11. ASSUME NEW c \in Calls, sub[s].filter = Every
       PROVE  /\ Reachable(c)' => Reachable(c)
              /\ OnTheWay(s, c) => OnTheWay(s, c)'
              /\ Shown(s, c) => Shown(s, c)'
  <2>1. Reachable(c)' => Reachable(c)
    BY <1>1 DEF Reachable, InList, RC!Listed
  <2>2. OnTheWay(s, c) => OnTheWay(s, c)'
    BY <1>1 DEF OnTheWay
  <2>3. CASE <<c, answered[c]>> \in sub[s].seen
    BY <1>1, <1>7, <1>9, <2>1, <2>2, <2>3 DEF Shown
  <2>4. ASSUME NEW i \in 1 .. Len(chan), chan[i].rec = c PROVE Shown(s, c)'
    <3>1. CASE i = 1
      <4>1. <<c, answered[c]>> \in new.seen
        BY <1>4, <1>5, <1>7, <1>11, <2>4, <3>1
      <4> QED BY <1>1, <1>9, <4>1 DEF Shown
    <3>2. CASE i # 1
      <4>1. i - 1 \in 1 .. Len(new.chan) /\ new.chan[i - 1] = chan[i]
        BY <1>4, <1>7, <3>2
      <4>2. PICK j \in 1 .. Len(new.chan) : new.chan[j] = chan[i]
        BY <4>1
      <4> QED BY <1>9, <2>4, <4>2 DEF Shown
    <3> QED BY <3>1, <3>2
  <2> QED BY <1>3, <2>1, <2>2, <2>3, <2>4 DEF Shown
<1>12. NothingMissed(s)'
  <2>1. new.pc = "live" /\ new.sure = sub[s].sure /\ new.filter = sub[s].filter
    BY <1>1, <1>7
  <2> QED BY <1>1, <1>2, <1>9, <1>10, <1>11, <2>1 DEF NothingMissed
<1>13. new.pc = "live"
  BY <1>1, <1>7
<1> QED BY <1>1, <1>7, <1>8, <1>12, <1>13, OneSubscriber

(* A subscriber goes only while nobody sends: no channel is closed under a sender. *)
LEMMA RecUnsubscribe ==
  ASSUME RecInv, NEW s \in Subscribers, RC!Unsubscribe(s)
  PROVE  RecInv'
<1>1. /\ sub' = [sub EXCEPT ![s] = GoneSubscriber] /\ sending = {}
      /\ UNCHANGED <<named, runners, call, heap, records, answered, pending, sending, excuse, panicked>>
  BY DEF RC!Unsubscribe, RC!UnchangedButSub, RC!WriteLocked, GoneSubscriber
<1>2. GoneSubscriber.pc = "gone"
  BY DEF GoneSubscriber
<1>3. sub'[s] = GoneSubscriber
  BY <1>1 DEF RecInv, RecTypes
<1>4. NothingMissed(s)'
  BY <1>2, <1>3 DEF NothingMissed
<1>5. \A m \in sending : m.to # s
  BY <1>1
<1>6. GoneSubscriber \in Subscriptions \cup {GoneSubscriber}
  OBVIOUS
<1> QED BY <1>1, <1>4, <1>5, <1>6, OneSubscriber

(* Every step of the recorder keeps the invariant. *)
LEMMA RecMoves ==
  ASSUME RC!RecorderAssumption, RC!UnansweredAssumption, RecInv, [RC!RecNext]_(RC!recVars)
  PROVE  RecInv'
<1>1. CASE UNCHANGED RC!recVars
  <2>1. UNCHANGED <<named, runners, call, heap, records, answered, pending, sending, sub, excuse, panicked>>
    BY <1>1 DEF RC!recVars
  <2>2. ASSUME NEW c \in Calls PROVE CallOK(c)'
    <3>1. CallOK(c)
      BY DEF RecInv, CallsOK
    <3> QED BY <2>1, <3>1 DEF CallOK, InList, RC!Listed
  <2>3. CallsOK' /\ RecTypes'
    BY <2>1, <2>2 DEF RecInv, RecTypes, CallsOK
  <2>4. \A b \in pending' : b[1] = b[2] /\ call'[b[1]].pc \in {"recorded", "done"}
    BY <2>1 DEF RecInv, BroadcastsOK
  <2> QED BY <2>1, <2>3, <2>4, QuietFrame
<1>2. ASSUME NEW n \in CallRefs, RC!Retag(n) PROVE RecInv'
  BY <1>2, RecRetag
<1>3. ASSUME NEW c \in Calls, NEW n \in CallRefs, NEW mode \in BodyOf[c].modes, RC!LoadRunner(c, n, mode)
      PROVE  RecInv'
  <2>1. mode \in Modes
    BY DEF RC!RecorderAssumption
  <2> QED BY <1>3, <2>1, RecLoadRunner
<1>4. ASSUME NEW c \in Calls,
             RC!RecordRequest(c) \/ RC!ServeHTTP(c) \/ RC!Convert(c) \/ RC!RecordResponse(c) \/ RC!Release(c)
      PROVE  RecInv'
  BY <1>4, RecRequest, RecMovesOn, RecResponse
<1>5. ASSUME NEW r \in runners, RC!Terminate(r) PROVE RecInv'
  BY <1>5, RecTerminate
<1>6. ASSUME NEW b \in pending, RC!BroadcastBegin(b) PROVE RecInv'
  BY <1>6, RecBegin
<1>7. ASSUME NEW m \in sending, RC!BroadcastSend(m) PROVE RecInv'
  BY <1>7, RecSend
<1>8. ASSUME NEW s \in Subscribers, NEW f \in Filters, RC!Subscribe(s, f) PROVE RecInv'
  BY <1>8, RecSubscribe
<1>9. ASSUME NEW s \in Subscribers,
             RC!ListExisting(s) \/ RC!SendExisting(s) \/ RC!Connected(s) \/ RC!Receive(s) \/ RC!Unsubscribe(s)
      PROVE  RecInv'
  BY <1>9, RecListExisting, RecSendExisting, RecConnected, RecReceive, RecUnsubscribe
<1> QED BY <1>1, <1>2, <1>3, <1>4, <1>5, <1>6, <1>7, <1>8, <1>9 DEF RC!RecNext

(* What the invariant says of records and of subscribers. *)
LEMMA RecSound ==
  ASSUME RecInv
  PROVE  /\ RC!RecTypeOK /\ RC!ResponseMatches /\ RC!AnswerRecorded
         /\ RC!NothingFallsBetween /\ RC!NoPanic
<1>1. RC!RecTypeOK
  <2>1. ASSUME NEW i \in DOMAIN heap
        PROVE  Len(heap[i].recs) <= MaxRecords /\ RC!Range(heap[i].recs) \subseteq Calls
    <3>1. i \in 1 .. Len(heap) /\ heap[i] \in Lists
      BY DEF RecInv, RecTypes
    <3>2. heap[i].recs \in Seq(Calls)
      BY <3>1 DEF Lists
    <3>3. RC!Range(heap[i].recs) \subseteq Calls
      BY <3>2 DEF RC!Range
    <3> QED BY <3>1, <3>3 DEF RecInv, HeapOK, ListOK
  <2>2. \A id \in RunnerIDs : records[id] \in 0 .. Len(heap)
    BY DEF RecInv, RecTypes, HeapOK
  <2> QED BY <2>1, <2>2 DEF RC!RecTypeOK, RecInv, RecTypes
<1>2. RC!ResponseMatches
  BY DEF RecInv, CallsOK, CallOK, RC!ResponseMatches
<1>3. RC!AnswerRecorded
  BY DEF RecInv, CallsOK, CallOK, RC!AnswerRecorded
<1>4. RC!NothingFallsBetween
  <2> SUFFICES ASSUME NEW s \in Subscribers, NEW c \in Calls,
                      sub[s].pc = "live", sub[s].sure, sub[s].filter = Every, answered[c] # NoBody,
                      NEW id \in RunnerIDs, records[id] # 0, c \in RC!Range(heap[records[id]].recs),
                      \A b \in pending : b[2] # c, \A m \in sending : m.rec # c
               PROVE  <<c, answered[c]>> \in {<<m.rec, answered[m.rec]>> : m \in RC!Range(sub[s].chan)}
                                             \cup sub[s].seen
    BY DEF RC!NothingFallsBetween
  <2>1. /\ records[id] \in 1 .. Len(heap) /\ RC!Listed(id) = heap[records[id]].recs
        /\ RC!Listed(id) \in Seq(Calls)
    BY ListsAre DEF RecInv
  <2>2. PICK i \in DOMAIN RC!Listed(id) : RC!Listed(id)[i] = c
    BY <2>1 DEF RC!Range
  <2>3. Reachable(c)
    BY <2>1, <2>2 DEF Reachable, InList
  <2>4. ~OnTheWay(s, c)
    BY DEF OnTheWay
  <2>5. Shown(s, c)
    BY <2>3, <2>4 DEF RecInv, NothingMissed
  <2>6. sub[s].chan \in Seq(Messages)
    BY OpenSubscribers DEF RecInv, Subscriptions
  <2>7. ASSUME NEW j \in 1 .. Len(sub[s].chan), sub[s].chan[j].rec = c
        PROVE  \E m \in RC!Range(sub[s].chan) : m.rec = c
    <3>1. j \in DOMAIN sub[s].chan
      BY <2>6
    <3> QED BY <2>7, <3>1 DEF RC!Range
  <2> QED BY <2>5, <2>7 DEF Shown
<1>5. RC!NoPanic
  BY DEF RecInv, RecTypes, RC!NoPanic
<1> QED BY <1>1, <1>2, <1>3, <1>4, <1>5
=============================================================================
