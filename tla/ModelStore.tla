----------------------------- MODULE ModelStore -----------------------------
(***************************************************************************)
(* The local model store of pkg/distribution/internal/store, with the      *)
(* client of pkg/distribution/distribution that works on it.  The store    *)
(* has no lock: models.json is read whole, changed in memory and written   *)
(* whole, so each operation is a sequence of file accesses, one action     *)
(* each, that other operations, failures and crashes fall between.         *)
(***************************************************************************)
EXTENDS Naturals, FiniteSets, Sequences, Functions

CONSTANTS
  Clients,   \* concurrent callers of the distribution client
  Models,    \* manifest digests
  Tags,
  BadTags,   \* tags that are no valid reference
  Rest,      \* Rest[r][t]: what is left of tag t without its prefix r
  LayersOf, ConfigOf,  \* blobs of each manifest
  Canon,     \* the tag the migration of hf.co references makes of a tag
  OldIndex,  \* the index an earlier version left behind
  Ops,       \* operations of this instance
  Faults,    \* file operations that may fail: "download", "config",
             \* "manifest", "index", "remove", "undo"; and "crash"
  MaxOps,    \* bound: operations started in one behaviour
  NoModel, NoTag

\* normalizeModelName: no request carries a tag the migration would rewrite.
Normal == {Canon[t] : t \in Tags}
FilesOf(m) == LayersOf[m] \cup {ConfigOf[m]}
Blobs == UNION {FilesOf(m) : m \in Models}

StoreAssumption ==
  /\ BadTags \subseteq Tags
  /\ Models \cap Tags = {}
  /\ NoTag \notin Tags /\ NoModel \notin Models /\ MaxOps \in Nat
  /\ DOMAIN OldIndex \subseteq Models /\ OldIndex \in [DOMAIN OldIndex -> SUBSET Tags]
  /\ Canon \in [Tags -> Tags] /\ \A t \in Tags : Canon[Canon[t]] = Canon[t]
  /\ \A t \in Tags : Rest[t][t] = NoTag
  /\ \A r, t \in Normal : Rest[r][t] \in Normal \cup {NoTag}

VARIABLES
  index,      \* models.json: the listed models, each with its tags
  manifests,  \* manifest files
  blobs,      \* blob files (complete ones)
  bundles,    \* models with a runtime bundle
  hasLayout,  \* layout.json exists
  up,         \* the service runs
  op,         \* the operation of each client
  started,    \* operations started, for the bound
  hurt        \* history: models whose operation met a fault or overlapped one

vars == <<index, manifests, blobs, bundles, hasLayout, up, op, started, hurt>>
files == <<manifests, blobs, bundles>>
disk == <<index, files, hasLayout>>

NoIndex == [m \in {} |-> {}]
IsIndex(idx) == DOMAIN idx \subseteq Models /\ idx \in [DOMAIN idx -> SUBSET Tags]

(***************************************************************************)
(* index.go                                                                *)
(***************************************************************************)
\* IndexEntry.MatchesReference: the entries ref names, by digest or by tag.
Named(idx, ref) == {m \in DOMAIN idx : ref = m \/ ref \in idx[m]}

\* Mutants: an empty rest is added as a tag; a tag stays with the entry that
\* had it.
TaggedRest(idx, ref, tag) ==
  LET t == IF ref \in Tags THEN Rest[ref][tag] ELSE tag
  IN  [m \in DOMAIN idx |->
         IF m \in Named(idx, ref) THEN idx[m] \cup {t} ELSE idx[m] \ {t}]

TaggedShared(idx, ref, tag) ==
  [m \in DOMAIN idx |-> IF m \in Named(idx, ref) THEN idx[m] \cup {tag} ELSE idx[m]]

\* Index.Tag: ref is cut off the front of the tag; the rest goes to the named
\* entries and leaves the others.  A tag that equals ref changes nothing.
Tagged(idx, ref, tag) ==
  LET t == IF ref \in Tags THEN Rest[ref][tag] ELSE tag
  IN  IF t = NoTag THEN idx
      ELSE [m \in DOMAIN idx |->
              IF m \in Named(idx, ref) THEN idx[m] \cup {t} ELSE idx[m] \ {t}]

CanTag(idx, ref, tag) ==
  LET t == IF ref \in Tags THEN Rest[ref][tag] ELSE tag
  IN  t = NoTag \/ (t \notin BadTags /\ Named(idx, ref) # {})

Untagged(idx, tag) == [m \in DOMAIN idx |-> idx[m] \ {tag}]
Removed(idx, m) == Restrict(idx, DOMAIN idx \ {m})
\* Mutant: the new index starts empty.
AddedAlone(idx, m) == [x \in {m} |-> {}]
Added(idx, m) == IF m \in DOMAIN idx THEN idx
                 ELSE [x \in DOMAIN idx \cup {m} |-> IF x = m THEN {} ELSE idx[x]]

\* LocalStore.Read: an entry is readable with its manifest and its config.
Readable(m) == m \in DOMAIN index /\ m \in manifests /\ ConfigOf[m] \in blobs

(***************************************************************************)
(* The operation of a client: where it is, what it works on, the index it  *)
(* read (snap), and for a write the index it started from (init), what it  *)
(* has to undo if it fails (made), and blobs still to write or remove.     *)
(***************************************************************************)
IdleOp == [kind |-> "none", pc |-> "idle", model |-> NoModel, tag |-> NoTag,
           snap |-> NoIndex, init |-> NoIndex, made |-> {}, existed |-> FALSE,
           failed |-> FALSE, many |-> FALSE, todo |-> {},
           alone |-> FALSE]
Writes == {"pull", "light"}

At(c, pc) == op[c].pc = pc
Go(c, pc) == op' = [op EXCEPT ![c].pc = pc]
Mine(c) == op[c].model

End(c) == op' = [op EXCEPT ![c] = IdleOp]

Fault(kind) == kind \in Faults
Damage(c) == hurt' = hurt \cup {Mine(c)}

Active == {c \in Clients : ~At(c, "idle")}
\* A model is whole again once an operation on it has succeeded alone.
Heal(c) == hurt' = IF op[c].alone THEN hurt \ {Mine(c)} ELSE hurt

\* An operation starts.  If it overlaps others, their models and its own are
\* marked: nothing orders the accesses of the two to the files.
Begin(c, r) ==
  /\ started' = started + 1
  /\ op' = [d \in Clients |-> IF d = c THEN [r EXCEPT !.alone = (Active = {})]
                              ELSE [op[d] EXCEPT !.alone = FALSE]]
  /\ hurt' = hurt \cup (IF Active = {} THEN {}
                        ELSE Models \cap ({r.model} \cup {Mine(d) : d \in Active}))

Init ==
  /\ index = OldIndex
  /\ manifests = DOMAIN OldIndex
  /\ blobs = UNION {FilesOf(m) : m \in DOMAIN OldIndex}
  /\ bundles = {}
  /\ hasLayout \in BOOLEAN
  /\ up = FALSE
  /\ op = [c \in Clients |-> IdleOp]
  /\ started = 0
  /\ hurt = {}

\* store.New and migrateHFTags, before the service takes requests.
Start ==
  /\ ~up
  /\ up' = TRUE
  /\ hasLayout' = TRUE
  /\ index' = [m \in DOMAIN index |-> {Canon[t] : t \in index[m]}]
  /\ UNCHANGED <<files, op, started, hurt>>

\* The process dies with operations under way; the disk stays as it is.
Crash ==
  /\ up /\ Fault("crash")
  /\ up' = FALSE
  /\ hurt' = hurt \cup IF \E c \in Active : op[c].kind = "reset" THEN Models
                        ELSE {Mine(c) : c \in {d \in Active : op[d].kind # "tag"}}
  /\ op' = [c \in Clients |-> IdleOp]
  /\ UNCHANGED <<disk, started>>

Idle(c) == up /\ At(c, "idle")
Starts(c, kind) == Idle(c) /\ kind \in Ops /\ started < MaxOps

(***************************************************************************)
(* Pulls, light-weight writes and loads                                    *)
(***************************************************************************)
\* PullModel: a readable model is only tagged, any other one written.
StartPull(c, m, t) ==
  /\ Starts(c, "pull")
  /\ t \notin BadTags
  /\ Begin(c, IF Readable(m)
               THEN [IdleOp EXCEPT !.kind = "tag", !.pc = "tagRead", !.model = m, !.tag = t]
               ELSE [IdleOp EXCEPT !.kind = "pull", !.pc = "write", !.model = m, !.tag = t])
  /\ UNCHANGED <<disk, up>>

\* pullNativeHuggingFace, and the builder's writes: the model is written
\* unless the tag is known, whether or not its digest is.
StartBuild(c, m, t) ==
  /\ Starts(c, "build")
  /\ Named(index, t) = {}
  /\ Begin(c, [IdleOp EXCEPT !.kind = "pull", !.pc = "write", !.model = m, !.tag = t])
  /\ UNCHANGED <<disk, up>>

\* RepackageModel: a readable source of the same layers.
StartLight(c, source, m, t) ==
  /\ Starts(c, "light")
  /\ Readable(source) /\ LayersOf[m] = LayersOf[source]
  /\ Begin(c, [IdleOp EXCEPT !.kind = "light", !.pc = "write", !.model = m, !.tag = t])
  /\ UNCHANGED <<disk, up>>

\* LoadModel: the blobs of the tarball, config among them, one by one.
StartLoad(c, m) ==
  /\ Starts(c, "load")
  /\ Begin(c, [IdleOp EXCEPT !.kind = "load", !.pc = "layers", !.model = m,
                              !.todo = FilesOf(m)])
  /\ UNCHANGED <<disk, up>>

\* Write and WriteLightweight read the index they would restore.
BeginWrite(c) ==
  /\ At(c, "write")
  /\ op' = [op EXCEPT ![c].init = index, ![c].pc = "config"]
  /\ UNCHANGED <<disk, up, started, hurt>>

\* A write fails: what it made is undone, newest first.
Undo(c) == op' = [op EXCEPT ![c].pc = "undo", ![c].failed = TRUE]

\* writeConfigFile; a light-weight write first looks for its layers.
WriteConfig(c) ==
  /\ At(c, "config")
  /\ LET new == ConfigOf[Mine(c)] \notin blobs
     IN  \/ /\ op[c].kind = "light" => LayersOf[Mine(c)] \subseteq blobs
            /\ blobs' = blobs \cup {ConfigOf[Mine(c)]}
            /\ op' = [op EXCEPT
                 ![c].made = IF new THEN {"config"} ELSE {},
                 ![c].pc = IF op[c].kind = "light" THEN "manifest" ELSE "layers",
                 ![c].todo = IF op[c].kind = "light" THEN {} ELSE LayersOf[Mine(c)]]
         \/ /\ \/ op[c].kind = "light" /\ ~(LayersOf[Mine(c)] \subseteq blobs)
               \/ new /\ Fault("config")
            /\ Undo(c)
            /\ UNCHANGED blobs
  /\ UNCHANGED <<index, manifests, bundles, hasLayout, up, started, hurt>>

\* writeLayer: the layers are fetched concurrently, each one to its end even
\* when another has failed; WriteBlob of a load stops at the first failure.
WriteLayer(c, l) ==
  /\ At(c, "layers")
  /\ l \in op[c].todo
  /\ \/ /\ blobs' = blobs \cup {l}
        /\ op' = [op EXCEPT ![c].todo = @ \ {l}]
     \/ /\ l \notin blobs /\ Fault("download")
        /\ IF op[c].kind = "load" THEN End(c)
           ELSE op' = [op EXCEPT ![c].todo = @ \ {l}, ![c].failed = TRUE]
        /\ UNCHANGED blobs
  /\ UNCHANGED <<index, manifests, bundles, hasLayout, up, started, hurt>>

LayersDone(c) ==
  /\ At(c, "layers")
  /\ op[c].todo = {}
  /\ IF op[c].failed THEN Undo(c) ELSE Go(c, "manifest")
  /\ UNCHANGED <<disk, up, started, hurt>>

FailWrite(c) == IF op[c].kind = "load" THEN End(c) ELSE Undo(c)

\* WriteManifest, first half: the file, refused while a layer is missing.
WriteManifest(c) ==
  /\ At(c, "manifest")
  /\ \/ /\ LayersOf[Mine(c)] \subseteq blobs
        /\ manifests' = manifests \cup {Mine(c)}
        /\ op' = [op EXCEPT ![c].pc = "addRead", ![c].existed = Mine(c) \in manifests]
     \/ /\ ~(LayersOf[Mine(c)] \subseteq blobs) \/ Fault("manifest")
        /\ FailWrite(c)
        /\ UNCHANGED manifests
  /\ UNCHANGED <<index, blobs, bundles, hasLayout, up, started, hurt>>

ReadIndexToAdd(c) ==
  /\ At(c, "addRead")
  /\ op' = [op EXCEPT ![c].snap = Added(index, Mine(c)), ![c].pc = "addWrite"]
  /\ UNCHANGED <<disk, up, started, hurt>>

WriteIndex(idx) == index' = idx /\ hasLayout' = TRUE

\* Its second half: the entry.  If that fails the manifest is removed, also
\* one that had been there before.
AddEntry(c) ==
  /\ At(c, "addWrite")
  /\ \/ /\ WriteIndex(op[c].snap)
        /\ IF op[c].kind = "load" THEN Heal(c) /\ End(c)
           ELSE /\ op' = [op EXCEPT ![c].pc = "tagRead", ![c].made =
                            @ \cup {"index"} \cup (IF op[c].existed THEN {} ELSE {"manifest"})]
                /\ UNCHANGED hurt
        /\ UNCHANGED manifests
     \/ /\ Fault("index")
        /\ manifests' = manifests \ {Mine(c)}
        /\ IF op[c].existed THEN Damage(c) ELSE UNCHANGED hurt
        /\ FailWrite(c)
        /\ UNCHANGED <<index, hasLayout>>
  /\ UNCHANGED <<blobs, bundles, up, started>>

(***************************************************************************)
(* AddTags, of Tag, of a pull of a known model, and at the end of a write  *)
(***************************************************************************)
\* Client.Tag, by any reference; other operations tag their own digest.
StartTag(c, ref, t) ==
  /\ Starts(c, "tag")
  /\ Begin(c, [IdleOp EXCEPT !.kind = "tag", !.pc = "tagRead", !.model = ref, !.tag = t])
  /\ UNCHANGED <<disk, up>>

FailTag(c) == IF op[c].kind = "tag" THEN End(c) ELSE Undo(c)

ReadIndexToTag(c) ==
  /\ At(c, "tagRead")
  /\ IF CanTag(index, op[c].model, op[c].tag)
     THEN /\ op' = [op EXCEPT ![c].snap = Tagged(index, op[c].model, op[c].tag),
                              ![c].pc = "tagWrite"]
     ELSE FailTag(c)
  /\ UNCHANGED <<disk, up, started, hurt>>

WriteTags(c) ==
  /\ At(c, "tagWrite")
  /\ \/ /\ WriteIndex(op[c].snap)
        /\ IF op[c].kind \in Writes THEN Heal(c) ELSE UNCHANGED hurt
        /\ End(c)
     \/ /\ Fault("index")
        /\ FailTag(c)
        /\ UNCHANGED <<index, hasLayout, hurt>>
  /\ UNCHANGED <<files, up, started>>

(***************************************************************************)
(* The cleanups of a failed write                                          *)
(***************************************************************************)
\* Mutant: the entry is removed again instead of the index restored.
UndoIndexByRemoval(c) ==
  /\ At(c, "undo") /\ "index" \in op[c].made
  /\ op' = [op EXCEPT ![c].made = @ \ {"index"}]
  /\ WriteIndex(Removed(index, Mine(c)))
  /\ UNCHANGED <<files, up, started, hurt>>

UndoIndex(c) ==
  /\ At(c, "undo") /\ "index" \in op[c].made
  /\ op' = [op EXCEPT ![c].made = @ \ {"index"}]
  /\ \/ WriteIndex(op[c].init) /\ UNCHANGED hurt
     \/ Fault("undo") /\ Damage(c) /\ UNCHANGED <<index, hasLayout>>
  /\ UNCHANGED <<files, up, started>>

UndoManifest(c) ==
  /\ At(c, "undo") /\ "manifest" \in op[c].made /\ "index" \notin op[c].made
  /\ op' = [op EXCEPT ![c].made = @ \ {"manifest"}]
  /\ \/ manifests' = manifests \ {Mine(c)} /\ UNCHANGED hurt
     \/ Fault("undo") /\ Damage(c) /\ UNCHANGED manifests
  /\ UNCHANGED <<index, blobs, bundles, hasLayout, up, started>>

UndoConfig(c) ==
  /\ At(c, "undo") /\ op[c].made = {"config"}
  /\ op' = [op EXCEPT ![c].made = {}]
  /\ \/ blobs' = blobs \ {ConfigOf[Mine(c)]} /\ UNCHANGED hurt
     \/ Fault("undo") /\ Damage(c) /\ UNCHANGED blobs
  /\ UNCHANGED <<index, manifests, bundles, hasLayout, up, started>>

EndUndo(c) ==
  /\ At(c, "undo") /\ op[c].made = {}
  /\ End(c)
  /\ UNCHANGED <<disk, up, started, hurt>>

(***************************************************************************)
(* DeleteModel: untag, and delete the model with its last tag              *)
(***************************************************************************)
StartDelete(c, ref, force) ==
  /\ Starts(c, "delete")
  /\ \E m \in Named(index, ref) :
       /\ Readable(m)
       /\ LET many == Cardinality(index[m]) > 1
          IN  /\ ref \in Tags \/ ~many \/ force
              /\ Begin(c, [IdleOp EXCEPT !.kind = "delete", !.model = m, !.tag = ref,
                   !.pc = IF ref \in Tags THEN "untagRead" ELSE "find",
                   !.many = many /\ ref \in Tags])
  /\ UNCHANGED <<disk, up>>

ReadIndexToUntag(c) ==
  /\ At(c, "untagRead")
  /\ op' = [op EXCEPT ![c].snap = Untagged(index, op[c].tag), ![c].pc = "untagWrite"]
  /\ UNCHANGED <<disk, up, started, hurt>>

WriteUntagged(c) ==
  /\ At(c, "untagWrite")
  /\ \/ /\ WriteIndex(op[c].snap)
        /\ IF op[c].many THEN End(c) ELSE Go(c, "find")
     \/ /\ Fault("index")
        /\ End(c)
        /\ UNCHANGED <<index, hasLayout>>
  /\ UNCHANGED <<files, up, started, hurt>>

\* Mutant: the references of other models are not counted.
AllFiles(idx, m) == FilesOf(m)
\* Blobs to delete with m: those no other entry of the index lists.
Unshared(idx, m) == FilesOf(m) \ UNION {FilesOf(x) : x \in DOMAIN idx \ {m}}

\* LocalStore.Delete reads the index once and works on what it read.
FindToDelete(c) ==
  /\ At(c, "find")
  /\ IF Mine(c) \in DOMAIN index
     THEN /\ op' = [op EXCEPT ![c].snap = Removed(index, Mine(c)), ![c].pc = "rmManifest",
                              ![c].todo = Unshared(index, Mine(c))]
     ELSE End(c)
  /\ UNCHANGED <<disk, up, started, hurt>>

\* Failures to remove a file are logged and ignored.
RemoveManifest(c) ==
  /\ At(c, "rmManifest")
  /\ Go(c, "rmBundle")
  /\ \/ manifests' = manifests \ {Mine(c)} /\ UNCHANGED hurt
     \/ Fault("remove") /\ Damage(c) /\ UNCHANGED manifests
  /\ UNCHANGED <<index, blobs, bundles, hasLayout, up, started>>

RemoveBundle(c) ==
  /\ At(c, "rmBundle")
  /\ Go(c, "rmBlobs")
  /\ \/ bundles' = bundles \ {Mine(c)} /\ UNCHANGED hurt
     \/ Fault("remove") /\ Damage(c) /\ UNCHANGED bundles
  /\ UNCHANGED <<index, manifests, blobs, hasLayout, up, started>>

RemoveBlob(c, b) ==
  /\ At(c, "rmBlobs")
  /\ b \in op[c].todo
  /\ op' = [op EXCEPT ![c].todo = @ \ {b}]
  /\ blobs' = blobs \ {b} \/ (Fault("remove") /\ UNCHANGED blobs)
  /\ UNCHANGED <<index, manifests, bundles, hasLayout, up, started, hurt>>

WriteRemoved(c) ==
  /\ At(c, "rmBlobs")
  /\ op[c].todo = {}
  /\ \/ /\ WriteIndex(op[c].snap)
        /\ IF Mine(c) \in manifests \cup bundles THEN UNCHANGED hurt ELSE Heal(c)
        /\ End(c)
     \/ /\ Fault("index")
        /\ Damage(c)
        /\ End(c)
        /\ UNCHANGED <<index, hasLayout>>
  /\ UNCHANGED <<files, up, started>>

(***************************************************************************)
(* Reset: every entry of the store directory, in the order of ReadDir,     *)
(* only if layout.json marks it as a store; then it is initialized anew.   *)
(***************************************************************************)
Parts == <<"blobs", "bundles", "layout.json", "manifests", "models.json">>

StartReset(c) ==
  /\ Starts(c, "reset")
  /\ hasLayout
  /\ Begin(c, [IdleOp EXCEPT !.kind = "reset", !.pc = Parts[1]])
  /\ UNCHANGED <<disk, up>>

RemovePart(c, i) ==
  /\ At(c, Parts[i])
  /\ op[c].kind = "reset"
  /\ \/ /\ blobs' = IF Parts[i] = "blobs" THEN {} ELSE blobs
        /\ bundles' = IF Parts[i] = "bundles" THEN {} ELSE bundles
        /\ manifests' = IF Parts[i] = "manifests" THEN {} ELSE manifests
        /\ hasLayout' = (Parts[i] = "models.json" \/ (hasLayout /\ Parts[i] # "layout.json"))
        /\ IF Parts[i] = "models.json"
           THEN index' = NoIndex /\ hurt' = (IF op[c].alone THEN {} ELSE Models) /\ End(c)
           ELSE Go(c, Parts[i + 1]) /\ UNCHANGED <<index, hurt>>
     \/ /\ Fault("remove")
        /\ hurt' = Models
        /\ End(c)
        /\ UNCHANGED disk
  /\ UNCHANGED <<up, started>>

\* BundleForModel, while a runner starts: the bundle of a readable model is
\* made when it is missing (Packaging has the steps).
MakeBundle(m) ==
  /\ up /\ "bundle" \in Ops
  /\ Readable(m) /\ LayersOf[m] \subseteq blobs
  /\ m \notin bundles
  /\ bundles' = bundles \cup {m}
  /\ hurt' = hurt \cup {x \in {m} : \E c \in Active : Mine(c) = x}
  /\ UNCHANGED <<index, manifests, blobs, hasLayout, up, started, op>>

Work(c) ==
  \/ BeginWrite(c) \/ WriteConfig(c) \/ (\E l \in op[c].todo : WriteLayer(c, l))
  \/ LayersDone(c) \/ WriteManifest(c) \/ ReadIndexToAdd(c) \/ AddEntry(c)
  \/ ReadIndexToTag(c) \/ WriteTags(c)
  \/ UndoIndex(c) \/ UndoManifest(c) \/ UndoConfig(c) \/ EndUndo(c)
  \/ ReadIndexToUntag(c) \/ WriteUntagged(c) \/ FindToDelete(c)
  \/ RemoveManifest(c) \/ RemoveBundle(c) \/ (\E b \in op[c].todo : RemoveBlob(c, b))
  \/ WriteRemoved(c) \/ (\E i \in DOMAIN Parts : RemovePart(c, i))

Request(c) ==
  \/ \E m \in Models, t \in Normal : StartPull(c, m, t) \/ StartBuild(c, m, t)
  \/ \E s, m \in Models, t \in Normal : StartLight(c, s, m, t)
  \/ \E m \in Models : StartLoad(c, m)
  \/ \E ref \in Models \cup Normal, t \in Normal : StartTag(c, ref, t)
  \/ \E ref \in Models \cup Normal, force \in BOOLEAN : StartDelete(c, ref, force)
  \/ StartReset(c)

Next ==
  \/ Start \/ Crash
  \/ \E c \in Clients : Request(c) \/ Work(c)
  \/ \E m \in Models : MakeBundle(m)

Spec == Init /\ [][Next]_vars

(***************************************************************************)
(* Properties                                                              *)
(***************************************************************************)
\* Where an operation can be.
Places == {"idle", "write", "config", "layers", "manifest", "addRead", "addWrite", "tagRead",
           "tagWrite", "undo", "untagRead", "untagWrite", "find", "rmManifest", "rmBundle",
           "rmBlobs", "blobs", "bundles", "layout.json", "manifests", "models.json"}

OpRecord(o) ==
  [kind : {"none", "delete", "load", "pull", "light", "reset", "tag"},
   pc : Places, model : Models \cup Tags \cup {NoModel},
   tag : Models \cup Tags \cup {NoTag}, snap : {o.snap}, init : {o.init},
   made : SUBSET {"config", "manifest", "index"}, existed : BOOLEAN,
   failed : BOOLEAN, many : BOOLEAN, todo : SUBSET Blobs, alone : BOOLEAN]

\* Types: the index lists each manifest digest once, with a set of tags.
TypeOK ==
  /\ IsIndex(index)
  /\ manifests \subseteq Models /\ bundles \subseteq Models /\ hurt \subseteq Models
  /\ blobs \subseteq Blobs
  /\ hasLayout \in BOOLEAN /\ up \in BOOLEAN
  /\ started \in 0 .. MaxOps
  /\ \A c \in Clients : /\ op[c] \in OpRecord(op[c])
                        /\ IsIndex(op[c].snap) /\ IsIndex(op[c].init)

\* A tag names at most one model, whatever operations interleave, fail or are
\* cut short: each index written is one that was read, with one change that
\* takes the tag from every other entry.
OneOwner == \A m, n \in DOMAIN index : m # n => index[m] \cap index[n] = {}

\* All that belongs to a listed model is there, and nothing is left of one
\* that is not listed.
Whole(m) == IF m \in DOMAIN index THEN m \in manifests /\ FilesOf(m) \subseteq blobs
            ELSE m \notin manifests \cup bundles

\* Damage stays where it happens: only models an operation on which was cut
\* short by a fault, or overlapped another operation, can be incomplete.  The
\* others keep manifest, config and layers, shared ones too, through deletions,
\* rollbacks, crashes and lost updates of the index.
DamageIsolated ==
  (\E c \in Clients : op[c].kind = "reset") \/
  \A m \in Models \ hurt : (\A c \in Active : Mine(c) # m) => Whole(m)

\* A write that fails alone and is undone without a fault leaves the index it
\* found, and a manifest only of a model that was listed before.
FailedWriteUndoneStep ==
  \A c \in Clients :
    (At(c, "undo") /\ op'[c].pc = "idle" /\ up' /\ op[c].alone /\ Mine(c) \notin hurt)
      => index' = op[c].init /\ (Mine(c) \in manifests' => Mine(c) \in DOMAIN index')

\* Client.Tag makes the new tag name what the source named.
TagNamesModelStep ==
  \A c \in Clients :
    (At(c, "tagWrite") /\ op'[c].pc = "idle" /\ up' /\ op[c].alone /\ index' = op[c].snap)
      => Named(index', op[c].tag) = Named(index, op[c].model)
=============================================================================
