---------------------------- MODULE HubTransfer ----------------------------
(***************************************************************************)
(* Models that live as plain files on the Hugging Face hub: choosing the   *)
(* files of a pull (huggingface/repository.go, model.go), fetching them in *)
(* parallel into a temporary directory (downloader.go), and the upload of  *)
(* a bundle as one commit (uploader.go).  The hub is external; a name is   *)
(* the sequence of the words its separators cut it into.                   *)
(***************************************************************************)
EXTENDS Integers, FiniteSets, SequencesExt

CONSTANTS Repositories,   \* what a listing may show: sets of files
          Quants,         \* what a pull may ask for, <<>> for "latest"
          Bundles,        \* what a push may upload: sequences of files
          MaxConcurrent   \* downloads at a time (4 in the code)

DefaultQuant == <<"q4", "k", "m">>
(* A weight file: its words, its shard number (0 for an unsharded file). *)
Gguf(words, shard) == [kind |-> "gguf", words |-> words, shard |-> shard]
ConfigFile == [kind |-> "config", words |-> <<>>, shard |-> 0]

VARIABLES
  phase,       \* of the pull: "none", "start", "fetching", "stored", "failed"
  listing, quant,
  selected,    \* the files it decided to fetch
  fetch,       \* by selected file: "waiting", "fetching", "done", "failed"
  directory,   \* the files of the temporary directory; "partial" or "whole"
  gone,        \* the temporary directory was removed
  cancelled,
  upload,      \* the push: its phase, its files, where it is in them
  hub          \* the hub: the objects stored and the files committed

htVars == <<phase, listing, quant, selected, fetch, directory, gone, cancelled, upload, hub>>
pullSide == <<phase, listing, quant, selected, fetch, directory, gone, cancelled>>
pushSide == <<upload, hub>>

-----------------------------------------------------------------------------
(* Which files: a quantization counts wherever it stands between separators,
   so "q4_k" names both q4_k_m and q4_k_s. *)
Says(f, q) == \E i \in 2..Len(f.words) : i + Len(q) - 1 <= Len(f.words)
                                           /\ SubSeq(f.words, i, i + Len(q) - 1) = q
IsProjector(f) == \E i \in 1..Len(f.words) : f.words[i] = "mmproj"
Weights(S) == {f \in S : f.kind = "gguf"}
OfQuant(S, q) == IF q = <<>> THEN {} ELSE {f \in S : Says(f, q)}

(* The order of the file names, on words: the first by name stands for what
   sort.Slice puts first. *)
WordOrder == <<"model", "other", "iq1", "q4", "k", "m", "s", "xl", "f16", "mmproj">>
RankOf(w) == CHOOSE i \in 1..Len(WordOrder) : WordOrder[i] = w
FileKey(f) == [i \in 1..4 |-> IF i <= Len(f.words) THEN RankOf(f.words[i]) ELSE 0] \o <<f.shard>>
Precedes(a, b) ==
  \E i \in 1..5 : FileKey(a)[i] < FileKey(b)[i] /\ \A j \in 1..i - 1 : FileKey(a)[j] = FileKey(b)[j]
FirstByName(S) == CHOOSE f \in S : \A g \in S \ {f} : Precedes(f, g)

(* No two files have one name, so any weight files have a first one. *)
HubAssumption ==
  /\ MaxConcurrent \in Nat
  /\ \A S \in Repositories : IsFiniteSet(S)
  /\ \A S \in Repositories : \A T \in SUBSET Weights(S) :
       T # {} => \E f \in T : \A g \in T \ {f} : Precedes(f, g)
  /\ \A b \in Bundles : b \in Seq(Range(b))

(* findAllShards takes every shard whose name begins like the first one. *)
FirstShardOnly(S) == {FirstByName(S)}
FirstSet(S) ==
  LET first == FirstByName(S)
  IN IF first.shard = 0 THEN {first}
     ELSE {f \in S : f.shard # 0 /\ IsPrefix(first.words, f.words)}
(* The projectors that selectMMProj may take: which one is the first of a
   listing, the hub decides. *)
Projectors(S) ==
  LET all == {f \in S : IsProjector(f)}
      f16 == {f \in all : Says(f, <<"f16">>)}
  IN IF f16 # {} THEN f16 ELSE all

SelectGGUFFiles(S, q) ==
  LET models == {f \in S : ~IsProjector(f)}
      asked == OfQuant(models, q)
      usual == OfQuant(models, DefaultQuant)
  IN IF Cardinality(models) <= 1 THEN models
     ELSE IF asked # {} THEN asked
     ELSE IF usual # {} THEN usual
     ELSE FirstSet(models)
Chosen(S, q) ==
  LET w == Weights(S)
  IN IF Cardinality(w) <= 1 THEN w ELSE SelectGGUFFiles(w, q)
(* The sets of files that a pull of the repository may fetch. *)
ToFetch(S, q) ==
  LET w == Weights(S)
      one == IF Cardinality(w) <= 1 \/ Projectors(w) = {} THEN {{}} ELSE {{p} : p \in Projectors(w)}
  IN {Chosen(S, q) \cup p \cup (S \ w) : p \in one}

-----------------------------------------------------------------------------
HTInit ==
  /\ phase \in {"start", "none"}             \* a pull, or a push
  /\ listing \in Repositories /\ quant \in Quants
  /\ selected = {} /\ fetch = <<>> /\ directory = <<>> /\ gone = FALSE /\ cancelled = FALSE
  /\ upload \in {[phase |-> IF phase = "none" THEN "files" ELSE "none", files |-> b, next |-> 1,
                  actions |-> {}] : b \in Bundles}
  /\ \E stored \in SUBSET {f.oid : f \in Range(upload.files)} :
       (phase = "none" \/ stored = {}) /\ hub = [objects |-> stored, commit |-> {}]

FailPull ==
  /\ phase' = "failed" /\ gone' = TRUE
  /\ UNCHANGED <<listing, quant, selected, fetch, directory, cancelled, pushSide>>

(* ListFiles, then the choice; a listing without weights ends the pull. *)
ListFiles ==
  /\ phase = "start" /\ ~cancelled
  /\ \E files \in ToFetch(listing, quant) :
        /\ Chosen(listing, quant) # {}
        /\ selected' = files /\ fetch' = [f \in files |-> "waiting"]
        /\ directory' = [f \in files |-> "absent"] /\ phase' = "fetching"
  /\ UNCHANGED <<listing, quant, gone, cancelled, pushSide>>
ListFails == phase = "start" /\ FailPull

(* One goroutine per file: a place in the semaphore or the end of the context,
   whichever select takes; the file is created once the answer is there. *)
Busy == {f \in selected : fetch[f] = "fetching"}
PlaceOrOneMore == Cardinality(Busy) <= MaxConcurrent
Place == Cardinality(Busy) < MaxConcurrent
StartFetch(f) ==
  /\ phase = "fetching" /\ fetch[f] = "waiting"
  /\ \/ /\ Place /\ fetch' = [fetch EXCEPT ![f] = "fetching"]
     \/ cancelled /\ fetch' = [fetch EXCEPT ![f] = "failed"]
  /\ UNCHANGED <<phase, listing, quant, selected, directory, gone, cancelled, pushSide>>
CreateFile(f) ==
  /\ fetch[f] = "fetching" /\ directory[f] = "absent" /\ ~cancelled
  /\ directory' = [directory EXCEPT ![f] = "partial"]
  /\ UNCHANGED <<phase, listing, quant, selected, fetch, gone, cancelled, pushSide>>
EndFetch(f) ==
  /\ fetch[f] = "fetching" /\ directory[f] = "partial"
  /\ fetch' = [fetch EXCEPT ![f] = "done"] /\ directory' = [directory EXCEPT ![f] = "whole"]
  /\ UNCHANGED <<phase, listing, quant, selected, gone, cancelled, pushSide>>
(* A refused request leaves no file, a copy that breaks off removes it. *)
FetchFails(f) ==
  /\ fetch[f] = "fetching"
  /\ fetch' = [fetch EXCEPT ![f] = "failed"] /\ directory' = [directory EXCEPT ![f] = "absent"]
  /\ UNCHANGED <<phase, listing, quant, selected, gone, cancelled, pushSide>>
CancelPull ==
  /\ ~cancelled /\ phase \in {"start", "fetching"} /\ cancelled' = TRUE
  /\ UNCHANGED <<phase, listing, quant, selected, fetch, directory, gone, pushSide>>

(* DownloadAll waits for every goroutine before it looks at the errors; the
   model is built and written to the store while the directory exists. *)
FirstError == \/ \A f \in selected : fetch[f] \in {"done", "failed"}
              \/ \E f \in selected : fetch[f] = "failed"
AllEnded == \A f \in selected : fetch[f] \in {"done", "failed"}
SomeArrived == \E f \in selected : fetch[f] = "done"
NoError == \A f \in selected : fetch[f] = "done"
BuildModel ==
  /\ phase = "fetching" /\ AllEnded /\ NoError
  /\ phase' = "stored" /\ gone' = TRUE
  /\ UNCHANGED <<listing, quant, selected, fetch, directory, cancelled, pushSide>>
(* With an error, or when the built model cannot be written to the store. *)
BuildFails == phase = "fetching" /\ AllEnded /\ FailPull

-----------------------------------------------------------------------------
(* The push: files at or above the threshold go to the object store first,
   one after another; the commit names them and carries the others. *)
Large(f) == f.size = "large"
LargeFiles == {f \in Range(upload.files) : Large(f)}
Batch ==
  /\ upload.phase = "files"
  /\ \E needed \in SUBSET {f.oid : f \in LargeFiles} :
       /\ {f.oid : f \in LargeFiles} \ needed \subseteq hub.objects
       /\ upload' = [upload EXCEPT !.phase = "uploading", !.actions = needed]
  /\ UNCHANGED <<hub, pullSide>>
FailPush ==
  /\ upload.phase \in {"none", "files", "uploading", "commit"} /\ upload' = [upload EXCEPT !.phase = "failed"]
  /\ UNCHANGED <<hub, pullSide>>

(* The next large file from the one that upload.next says. *)
Left == upload.next .. Len(upload.files)
IsNext(i) == Large(upload.files[i]) /\ \A j \in upload.next .. i - 1 : ~Large(upload.files[j])
UploadObject ==
  /\ upload.phase = "uploading"
  /\ \E i \in Left :
       LET f == upload.files[i]
       IN  /\ IsNext(i)
           /\ \/ /\ hub' = [hub EXCEPT !.objects = @ \cup (IF f.oid \in upload.actions THEN {f.oid} ELSE {})]
                 /\ upload' = [upload EXCEPT !.next = i + 1]
              \/ /\ f.oid \in upload.actions /\ UNCHANGED hub
                 /\ upload' = [upload EXCEPT !.phase = "failed"]
  /\ UNCHANGED pullSide
UploadsEnd ==
  /\ upload.phase = "uploading" /\ \A i \in Left : ~Large(upload.files[i])
  /\ upload' = [upload EXCEPT !.phase = "commit"]
  /\ UNCHANGED <<hub, pullSide>>
CreateCommit ==
  /\ upload.phase = "commit" /\ upload' = [upload EXCEPT !.phase = "pushed"]
  /\ hub' = [hub EXCEPT !.commit = Range(upload.files)]
  /\ UNCHANGED pullSide

HTNext ==
  \/ ListFiles \/ ListFails \/ CancelPull \/ BuildModel \/ BuildFails
  \/ \E f \in selected : StartFetch(f) \/ CreateFile(f) \/ EndFetch(f) \/ FetchFails(f)
  \/ Batch \/ UploadObject \/ UploadsEnd \/ CreateCommit \/ FailPush
HTSpec == HTInit /\ [][HTNext]_htVars

-----------------------------------------------------------------------------
HTTypeOK ==
  /\ phase \in {"none", "start", "fetching", "stored", "failed"}
  /\ selected \subseteq listing /\ DOMAIN fetch = DOMAIN directory
  /\ \A f \in DOMAIN fetch : fetch[f] \in {"waiting", "fetching", "done", "failed"}
  /\ upload.phase \in {"none", "files", "uploading", "commit", "pushed", "failed"}
  /\ Cardinality(Busy) <= MaxConcurrent

(* A pulled model has every file it was made of, whole: an error of any of
   the parallel downloads, also after a cancellation, keeps it out of the
   store. *)
AllFilesArrive ==
  phase = "stored" => selected # {} /\ \A f \in selected : directory[f] = "whole"

(* The temporary directory is removed when nobody writes into it any more:
   the downloads that go on after another one failed are waited for. *)
NobodyWritesIntoTheVoid == gone => Busy = {}

(* A sharded model is pulled with all the shards the repository has of it. *)
WholeShardSets ==
  \A f \in selected : f.shard # 0 =>
    \A g \in listing : g.kind = "gguf" /\ g.shard # 0 /\ g.words = f.words => g \in selected

(* A commit names only large files whose content the hub has. *)
CommittedIsStored == \A f \in hub.commit : Large(f) => f.oid \in hub.objects
=============================================================================
