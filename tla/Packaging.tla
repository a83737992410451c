------------------------------ MODULE Packaging ------------------------------
(***************************************************************************)
(* From files to a model artifact (pkg/distribution/builder, modelpack,    *)
(* files) and from the artifact in the store to the runtime bundle that    *)
(* backends are started on (internal/bundle, internal/store/bundles.go).   *)
(* A file is known by its directory, its rank in the order of names, its   *)
(* extension and the word in its name that matters; content is a blob,     *)
(* named by the file it came from.  Tar layers are not modelled.           *)
(***************************************************************************)
EXTENDS Naturals, FiniteSets, Sequences, SequencesExt, Functions

CONSTANTS
  Files,      \* files a directory to be packaged may hold
  MaxFiles,   \* bound: files in one directory
  Shards,     \* sequences of weight files packaged by path
  Projectors, Templates,  \* files that --mmproj and --chat-template add
  DirRank,    \* rank of each directory among the names at the top
  MaxCalls,   \* bound: calls of BundleForModel in one behaviour
  MaxFaults,  \* bound: crashes, and removals that fail half-way
  None        \* no file

Top == ""
Weights == {"gguf", "safetensors", "dduf"}

PackagingAssumption ==
  /\ MaxFiles \in Nat /\ MaxCalls \in Nat /\ MaxFaults \in Nat
  /\ None \notin Files

(***************************************************************************)
(* Files and layers                                                        *)
(***************************************************************************)
\* files.Classify
Classify(f) ==
  CASE f.ext \in Weights -> f.ext
    [] f.ext = "jinja" \/ f.word = "chat_template" -> "template"
    [] f.word = "license" -> "license"
    [] f.ext \in {"json", "md", "txt"} -> "config"
    [] OTHER -> "unknown"

IsMMProj(f) == f.word = "mmproj"

\* The order of filepath.Walk.
Rank(f) == IF f.dir = Top THEN f.n ELSE DirRank[f.dir] + f.n
Walked(S) == SetToSortSeq(S, LAMBDA f, g : Rank(f) < Rank(g))
Base(f) == [f EXCEPT !.dir = Top]
First(S) == IF S = {} THEN None ELSE Walked(S)[1]

\* fileTypeToMediaType
DockerType(f) ==
  LET t == Classify(f) IN IF t \in Weights \cup {"license", "template"} THEN t ELSE "file"

\* modelpack.MapLayerMediaType; every type the builder makes is listed there.
CNCFType(type) ==
  CASE type \in {"license", "doc"} -> "doc"
    [] type \in {"template", "file", "weightConfig"} -> "weightConfig"
    [] OTHER -> "raw"

Layer(f, path, type, cncf) ==
  [path |-> path, blob |-> f, type |-> IF cncf THEN CNCFType(type) ELSE type]

\* layered: config V0.2, or CNCF: unpacked by annotation.
Model(layers, layered, cncf, format) ==
  [layers |-> layers, layered |-> layered, cncf |-> cncf, format |-> format]

\* builder.FromDirectory: a layer for each file, named by its relative path.
Packable(S) == \E f \in S : Classify(f) \in Weights
FromDirectory(S, cncf) ==
  LET files == Walked(S)
      weights == SelectSeq(files, LAMBDA f : Classify(f) \in Weights)
  IN  Model([i \in DOMAIN files |-> Layer(files[i], files[i], DockerType(files[i]), cncf)],
            TRUE, cncf, Classify(weights[1]))

\* builder.FromPath, FromPaths: the shards of one format, named by their base.
FromPaths(paths, cncf) ==
  LET type == Classify(paths[1])
  IN  Model([i \in DOMAIN paths |-> Layer(paths[i], Base(paths[i]), type, cncf)], cncf, cncf, type)

\* WithMultimodalProjector, WithChatTemplateFile
With(m, f, type) ==
  IF f = None THEN m
  ELSE [m EXCEPT !.layers = Append(@, Layer(f, Base(f), type, m.cncf))]

\* builder.FromModel with another format: convertToCNCF.
ToCNCF(m) ==
  [m EXCEPT !.layers = [i \in DOMAIN @ |-> [@[i] EXCEPT !.type = CNCFType(@)]],
            !.layered = TRUE, !.cncf = TRUE]

\* The models that docker model package and a pull from Hugging Face make.
Packaged ==
  LET made == {FromDirectory(S, cncf) :
                 S \in {D \in SUBSET Files : Cardinality(D) <= MaxFiles /\ Packable(D)},
                 cncf \in BOOLEAN}
              \cup {With(With(FromPaths(s, cncf), p, "mmproj"), t, "template") :
                      s \in Shards, cncf \in BOOLEAN,
                      p \in Projectors \cup {None}, t \in Templates \cup {None}}
  IN  made \cup {ToCNCF(m) : m \in made}

(***************************************************************************)
(* Unpack.  An answer names the files of a bundle backends ask for.        *)
(***************************************************************************)
NoAnswer == [gguf |-> None, safetensors |-> None, dduf |-> None, mmproj |-> None,
             template |-> None]

\* partial.layerPathsByMediaType, with matchesMediaType: types of the format,
\* and raw weights by the format of the config.
BlobsOf(m, type) ==
  LET Matches(l) == \/ l.type = type
                    \/ l.type = "raw" /\ type \in Weights /\ type = m.format
                    \/ l.type = "weightConfig" /\ type = "template"
      found == SelectSeq(m.layers, Matches)
  IN  [i \in DOMAIN found |-> found[i].blob]

Named(ext, n) == [dir |-> Top, n |-> n, ext |-> ext, word |-> ""]
Link(path, blob) == [path |-> path, blob |-> blob]

\* unpackGGUFs, unpackDDUF, unpackSafetensorsWithAnnotations: the format of a
\* V0.1 model is the first of these it has layers of.
LegacyFormat(m) ==
  CASE BlobsOf(m, "gguf") # <<>> -> "gguf"
    [] BlobsOf(m, "safetensors") # <<>> -> "safetensors"
    [] OTHER -> "dduf"

LegacyWeights(m) ==
  LET f == LegacyFormat(m)
      blobs == BlobsOf(m, f)
      name(i) == CASE f = "gguf" -> Named("gguf", i)
                   [] f = "safetensors" -> Base(blobs[i])
                   [] OTHER -> Named("dduf", 1)
  IN  [i \in (IF f = "dduf" THEN {1} ELSE DOMAIN blobs) |-> Link(name(i), blobs[i])]

\* unpackMultiModalProjector, unpackTemplate: only when there is exactly one.
LegacySingle(m, type, ext) ==
  IF Len(BlobsOf(m, type)) = 1 THEN <<Link(Named(ext, 1), BlobsOf(m, type)[1])>> ELSE <<>>

LegacyLinks(m) ==
  LegacyWeights(m) \o LegacySingle(m, "mmproj", "mmproj") \o LegacySingle(m, "template", "jinja")

\* The last GGUF shard, the first safetensors shard.
LegacyAnswer(m) ==
  LET f == LegacyFormat(m)
      w == LegacyWeights(m)
      single(type, ext) == IF Len(BlobsOf(m, type)) = 1 THEN Named(ext, 1) ELSE None
  IN  [NoAnswer EXCEPT ![f] = (IF f = "gguf" THEN w[Len(w)] ELSE w[1]).path,
                       !.mmproj = single("mmproj", "mmproj"),
                       !.template = single("template", "jinja")]

\* UnpackFromLayers: of layers with one path the first is unpacked.
Kept(m) == {i \in DOMAIN m.layers : \A j \in 1 .. i - 1 : m.layers[j].path # m.layers[i].path}
LayeredLinks(m) ==
  LET order == SetToSortSeq(Kept(m), <)
  IN  [k \in DOMAIN order |-> Link(m.layers[order[k]].path, m.layers[order[k]].blob)]

\* Mutant: the raw weights of CNCF models are not known.
FieldDocker(m, l) == IF l.type \in Weights \cup {"mmproj", "template"} THEN l.type ELSE None

\* updateBundleFieldsFromLayer: the field of a layer, if it has one.
Field(m, l) ==
  CASE l.type \in Weights \cup {"mmproj", "template"} -> l.type
    [] l.type = "raw" /\ IsMMProj(l.path) -> "mmproj"
    [] l.type = "raw" /\ ~IsMMProj(l.path) -> m.format
    [] OTHER -> None

LayeredAnswer(m) ==
  [field \in DOMAIN NoAnswer |->
     LET own == {i \in Kept(m) : Field(m, m.layers[i]) = field}
     IN  IF own = {} THEN None ELSE m.layers[CHOOSE i \in own : \A j \in own : i <= j].path]

Links(m) == IF m.layered THEN LayeredLinks(m) ELSE LegacyLinks(m)
Answer(m) == IF m.layered THEN LayeredAnswer(m) ELSE LegacyAnswer(m)

(***************************************************************************)
(* Parse                                                                   *)
(***************************************************************************)
TopOf(files, ext) == {f \in DOMAIN files : f.dir = Top /\ f.ext = ext}
Nested(files, ext) == {f \in DOMAIN files : f.dir # Top /\ f.ext = ext}

\* findModelFileExcluding: at the top first, then in the order of the walk.
FindModel(files, ext) ==
  LET model(S) == {f \in S : ext = "gguf" => ~IsMMProj(f)}
  IN  IF model(TopOf(files, ext)) # {} THEN First(model(TopOf(files, ext)))
      ELSE First(model(Nested(files, ext)))

\* Mutant: the projector is known by its name only.
ProjectorByName(files) == {f \in TopOf(files, "gguf") : IsMMProj(f)}

\* findMultiModalProjectorFile: by extension, else a GGUF file by its name.
Projector(files) ==
  IF TopOf(files, "mmproj") # {} THEN TopOf(files, "mmproj")
  ELSE {f \in TopOf(files, "gguf") : IsMMProj(f)}

\* Mutant: the projector and the template are not looked for.
ParsedWeights(files) == [field \in Weights |-> FindModel(files, field)]

Parsed(files) ==
  [field \in DOMAIN NoAnswer |->
     CASE field \in Weights -> FindModel(files, field)
       [] field = "mmproj" -> First(Projector(files))
       [] OTHER -> First(TopOf(files, "jinja"))]

HasWeights(a) == \E w \in Weights : a[w] # None
Parses(files) ==
  /\ HasWeights(Parsed(files))
  /\ Cardinality(Projector(files)) <= 1
  /\ Cardinality(TopOf(files, "jinja")) <= 1

(***************************************************************************)
(* The bundle directory of one model, and the calls of BundleForModel and  *)
(* Delete on it.                                                           *)
(***************************************************************************)
VARIABLES
  model,    \* the model in the store
  stored,   \* it is there
  bundle,   \* its directory: the model files and config.json
  pc, todo, \* the operation under way, and the links it still has to make
  answers,  \* answers of BundleForModel since the service has started
  scarred,  \* history: a removal was cut short before config.json went, nothing made anew
  calls, faults  \* so far, for the bounds

vars == <<model, stored, bundle, pc, todo, answers, scarred, calls, faults>>

NoFiles == [f \in {} |-> None]
Empty == [subdir |-> FALSE, files |-> NoFiles, config |-> "none"]

Init ==
  /\ model \in Packaged
  /\ stored = TRUE
  /\ bundle = Empty
  /\ pc = "idle" /\ todo = <<>>
  /\ answers = {} /\ scarred = FALSE
  /\ calls = 0 /\ faults = 0

\* BundleForModel: a bundle that parses is returned as it is.
Usable == bundle.subdir /\ Parses(bundle.files) /\ bundle.config = "full"

BundleForModel ==
  /\ pc = "idle" /\ stored /\ calls < MaxCalls
  /\ calls' = calls + 1
  /\ IF Usable
     THEN answers' = answers \cup {Parsed(bundle.files)} /\ UNCHANGED pc
     ELSE pc' = "remove" /\ UNCHANGED answers
  /\ UNCHANGED <<model, stored, bundle, todo, scarred, faults>>

\* os.RemoveAll, entry by entry in any order.
Gone == bundle.files = NoFiles /\ bundle.config = "none"
RemoveEntry ==
  /\ pc \in {"remove", "delete"}
  /\ \/ /\ bundle.config # "none"
        /\ bundle' = [bundle EXCEPT !.config = "none"]
     \/ \E f \in DOMAIN bundle.files :
          bundle' = [bundle EXCEPT !.files = Restrict(@, DOMAIN @ \ {f})]
  /\ UNCHANGED <<model, stored, pc, todo, answers, scarred, calls, faults>>

\* Mutant: the runtime config is written before the files.
RemovedConfigFirst ==
  /\ pc = "remove" /\ Gone
  /\ bundle' = [Empty EXCEPT !.subdir = TRUE, !.config = "full"]
  /\ pc' = "link"
  /\ todo' = Links(model) /\ scarred' = FALSE
  /\ UNCHANGED <<model, stored, answers, calls, faults>>

\* createBundle goes on with Unpack.
Removed ==
  /\ pc = "remove" /\ Gone
  /\ bundle' = [Empty EXCEPT !.subdir = TRUE]
  /\ pc' = "link"
  /\ todo' = Links(model) /\ scarred' = FALSE
  /\ UNCHANGED <<model, stored, answers, calls, faults>>

\* unpackFile: os.Link fails if the name is taken.
LinkFile ==
  /\ pc = "link" /\ todo # <<>>
  /\ LET l == Head(todo)
     IN  IF l.path \in DOMAIN bundle.files
         THEN pc' = "idle" /\ todo' = <<>> /\ UNCHANGED bundle
         ELSE /\ bundle' = [bundle EXCEPT !.files =
                   [f \in DOMAIN @ \cup {l.path} |-> IF f = l.path THEN l.blob ELSE @[f]]]
              /\ todo' = Tail(todo)
              /\ UNCHANGED pc
  /\ UNCHANGED <<model, stored, answers, scarred, calls, faults>>

\* unpackRuntimeConfig: the file is created, then written.
CreateConfig ==
  /\ pc = "link" /\ todo = <<>>
  /\ bundle' = [bundle EXCEPT !.config = "partial"]
  /\ pc' = "config"
  /\ UNCHANGED <<model, stored, todo, answers, scarred, calls, faults>>

WriteConfig ==
  /\ pc = "config"
  /\ bundle' = [bundle EXCEPT !.config = "full"]
  /\ answers' = answers \cup {Answer(model)}
  /\ pc' = "idle"
  /\ UNCHANGED <<model, stored, todo, scarred, calls, faults>>

\* LocalStore.Delete removes the bundle; the model may be pulled again.
Delete ==
  /\ pc = "idle" /\ stored
  /\ pc' = "delete" /\ stored' = FALSE
  /\ answers' = {}
  /\ UNCHANGED <<model, bundle, todo, scarred, calls, faults>>

Deleted ==
  /\ pc = "delete" /\ Gone
  /\ bundle' = Empty /\ scarred' = FALSE
  /\ pc' = "idle"
  /\ UNCHANGED <<model, stored, todo, answers, calls, faults>>

PullAgain ==
  /\ pc = "idle" /\ ~stored
  /\ stored' = TRUE
  /\ UNCHANGED <<model, bundle, pc, todo, answers, scarred, calls, faults>>

\* Whoever is cut short now leaves a bundle that may still parse.
Scarred == scarred \/ (pc \in {"remove", "delete"} /\ bundle.config = "full")

\* RemoveAll fails half-way: Delete only warns, BundleForModel returns the error.
RemoveFails ==
  /\ pc \in {"remove", "delete"} /\ faults < MaxFaults /\ faults' = faults + 1
  /\ pc' = "idle" /\ answers' = {} /\ scarred' = Scarred
  /\ UNCHANGED <<model, stored, bundle, todo, calls>>

Crash ==
  /\ faults < MaxFaults
  /\ faults' = faults + 1
  /\ pc' = "idle" /\ todo' = <<>> /\ answers' = {} /\ scarred' = Scarred
  /\ UNCHANGED <<model, stored, bundle, calls>>

Next ==
  \/ BundleForModel \/ RemoveEntry \/ Removed \/ LinkFile \/ CreateConfig \/ WriteConfig
  \/ Delete \/ Deleted \/ PullAgain \/ RemoveFails \/ Crash

Spec == Init /\ [][Next]_vars

(***************************************************************************)
(* Properties                                                              *)
(***************************************************************************)
\* Types; an answer is a choice of files.
TypeOK ==
  /\ model.layers # <<>> /\ model.format \in Weights /\ stored \in BOOLEAN
  /\ bundle.subdir \in BOOLEAN /\ bundle.config \in {"none", "partial", "full"}
  /\ pc \in {"idle", "remove", "link", "config", "delete"} /\ scarred \in BOOLEAN
  /\ \A a \in answers : DOMAIN a = DOMAIN NoAnswer
  /\ calls \in 0 .. MaxCalls /\ faults \in 0 .. MaxFaults

\* A bundle that was answered with is whole until the model is deleted or the
\* bundle replaced: each file the model was packaged from is in it, with its
\* own content, also after crashes at any point of an earlier attempt.  Only a
\* removal that is cut short before config.json goes can leave something that
\* parses: of a deleted model that is pulled again (store.go:138-141), or of a
\* bundle that did not parse for its two templates (bundles.go:44).  Then files
\* may be missing, but none has another's content.
WholeBundle ==
  (pc = "idle" /\ answers # {}) =>
    /\ bundle.config = "full"
    /\ \A i \in DOMAIN Links(model) :
         LET l == Links(model)[i]
         IN  /\ l.path \in DOMAIN bundle.files \/ scarred
             /\ l.path \in DOMAIN bundle.files => bundle.files[l.path] = l.blob

WeightFiles(m) == {i \in DOMAIN m.layers :
                     \/ m.layers[i].type \in Weights \cup {"raw"}
                     \/ m.layers[i].path.ext \in Weights}

\* Backends get the same weight file whether the bundle was just made (Unpack)
\* or found (Parse), for each model with a single weight file, in whatever
\* directory; and a V0.1 model gets the same projector and template too.
SameAnswer ==
  Cardinality(WeightFiles(model)) = 1 =>
    \A a, b \in answers :
      /\ \A w \in Weights : a[w] = b[w]
      /\ ~model.layered => a = b

\* Every answer names a weight file that is in the bundle: no model that has
\* weights besides a projector leaves a backend without a model.
AlwaysWeights ==
  (pc = "idle" /\ \E i \in WeightFiles(model) : ~IsMMProj(model.layers[i].path)) =>
    \A a \in answers : \E w \in Weights : a[w] \in DOMAIN bundle.files
=============================================================================
