----------------------------- MODULE StoreProofs -----------------------------
(***************************************************************************)
(* The store, for every instance of ModelStore: StoreInv is inductive, and *)
(* TypeOK, OneOwner and DamageIsolated follow from it.  A model on which   *)
(* no operation was cut short or overlapped another is whole between       *)
(* operations; the invariant says of every operation under way, from its   *)
(* place, what it has done so far, as long as it is alone (Alone), and     *)
(* that it leaves the other models as they are (Spares).  An operation     *)
(* that is not alone has marked its model, and owes it nothing.            *)
(***************************************************************************)
EXTENDS ModelStore, TLAPS

(* What the migration at the start does to the tags of an old index: no two of
   its models end up with one tag. *)
MigrationKeepsApart ==
  \A m, n \in DOMAIN OldIndex : m # n =>
    {Canon[t] : t \in OldIndex[m]} \cap {Canon[t] : t \in OldIndex[n]} = {}

(* An index that a service which is up reads and writes. *)
Good(idx) ==
  /\ \A m \in DOMAIN idx : idx[m] \subseteq Normal
  /\ \A m, n \in DOMAIN idx : m # n => idx[m] \cap idx[n] = {}

(* No two models claim a tag, migrated or not. *)
Apart ==
  \A m, n \in DOMAIN index : m # n =>
    {Canon[t] : t \in index[m]} \cap {Canon[t] : t \in index[n]} = {}

(* The places of a delete that removes files. *)
Removing == {"rmManifest", "rmBundle", "rmBlobs"}

(* The operation of a client: the places it passes, by its kind, and what it
   has noted there. *)
Shape(o) ==
  \/ o = IdleOp
  \/ /\ o.kind \in Writes /\ o.model \in Models /\ o.tag \in Normal
     /\ o.pc \in {"write", "config", "layers", "manifest", "addRead", "addWrite", "tagRead",
                  "tagWrite", "undo"}
     /\ o.pc \in {"write", "config"} => o.made = {}
     /\ o.pc \in {"layers", "manifest", "addRead", "addWrite"} => o.made \subseteq {"config"}
     /\ o.pc \in {"tagRead", "tagWrite"} => "index" \in o.made
     /\ o.pc \notin {"layers", "undo"} => ~o.failed
  \/ /\ o.kind = "load" /\ o.model \in Models /\ o.made = {} /\ ~o.failed
     /\ o.pc \in {"layers", "manifest", "addRead", "addWrite"}
  \/ /\ o.kind = "tag" /\ o.model \in Models \cup Normal /\ o.tag \in Normal /\ o.made = {}
     /\ o.pc \in {"tagRead", "tagWrite"}
  \/ /\ o.kind = "delete" /\ o.model \in Models /\ o.made = {}
     /\ o.pc \in {"untagRead", "untagWrite", "find", "rmManifest", "rmBundle", "rmBlobs"}
  \/ /\ o.kind = "reset" /\ o.model = NoModel /\ o.made = {}
     /\ o.pc \in {"blobs", "bundles", "layout.json", "manifests", "models.json"}

(* Nobody removes everything. *)
NoReset == \A c \in Clients : op[c].kind # "reset"

(* Who is alone is so, and who is not has marked its model. *)
Marked ==
  \A c \in Clients : ~At(c, "idle") =>
    IF op[c].alone THEN \A d \in Clients : d # c => At(d, "idle")
    ELSE Mine(c) \in Models => Mine(c) \in hurt

(* What an operation does leaves other models alone. *)
Spares(c, n) ==
  /\ op[c].pc \in {"addWrite", "tagWrite", "untagWrite"} \cup Removing =>
       (n \in DOMAIN op[c].snap <=> n \in DOMAIN index)
  /\ op[c].kind \in Writes /\ op[c].pc # "write" =>
       (n \in DOMAIN op[c].init <=> n \in DOMAIN index)
  /\ n \in DOMAIN index =>
       /\ op[c].pc \in Removing => op[c].todo \cap FilesOf(n) = {}
       /\ "config" \in op[c].made => ConfigOf[Mine(c)] \notin FilesOf(n)

(* An operation that is alone knows how far its own model is. *)
TagAlone(c) ==
  op[c].kind = "tag" =>
    /\ Mine(c) \in Models \ hurt => Whole(Mine(c))
    /\ At(c, "tagWrite") => (Mine(c) \in DOMAIN op[c].snap <=> Mine(c) \in DOMAIN index)

DeleteAlone(c) ==
  op[c].kind = "delete" =>
    /\ op[c].pc \notin Removing => (Mine(c) \notin hurt => Whole(Mine(c)))
    /\ At(c, "untagWrite") => (Mine(c) \in DOMAIN op[c].snap <=> Mine(c) \in DOMAIN index)
    /\ op[c].pc \in Removing => Mine(c) \notin DOMAIN op[c].snap
    /\ op[c].pc \in {"rmBundle", "rmBlobs"} => (Mine(c) \notin hurt => Mine(c) \notin manifests)
    /\ At(c, "rmBlobs") => (Mine(c) \notin hurt => Mine(c) \notin bundles)

FillAlone(c) ==
  op[c].kind \in Writes \cup {"load"} =>
    /\ op[c].pc \in {"write", "config", "layers", "manifest"} =>
         (Mine(c) \notin hurt => Whole(Mine(c)))
    /\ At(c, "layers") /\ ~op[c].failed => FilesOf(Mine(c)) \ op[c].todo \subseteq blobs
    /\ op[c].pc \in {"manifest", "addRead", "addWrite", "tagRead", "tagWrite"} =>
         FilesOf(Mine(c)) \subseteq blobs
    /\ op[c].pc \in {"addRead", "addWrite", "tagRead", "tagWrite"} => Mine(c) \in manifests
    /\ op[c].pc \in {"addRead", "addWrite"} /\ Mine(c) \notin hurt =>
         IF Mine(c) \in DOMAIN index THEN op[c].existed
         ELSE ~op[c].existed /\ Mine(c) \notin bundles
    /\ op[c].pc \in {"addWrite", "tagWrite"} => Mine(c) \in DOMAIN op[c].snap
    /\ At(c, "tagRead") => Mine(c) \in DOMAIN index

WriteAlone(c) ==
  op[c].kind \in Writes /\ Mine(c) \notin hurt =>
    /\ ~At(c, "write") /\ "index" \notin op[c].made =>
         (Mine(c) \in DOMAIN op[c].init <=> Mine(c) \in DOMAIN index)
    /\ "config" \in op[c].made => Mine(c) \notin DOMAIN op[c].init
    /\ "index" \in op[c].made =>
         /\ Mine(c) \in DOMAIN index /\ Whole(Mine(c))
         /\ IF Mine(c) \in DOMAIN op[c].init THEN "manifest" \notin op[c].made
            ELSE "manifest" \in op[c].made /\ Mine(c) \notin bundles
    /\ At(c, "undo") /\ "index" \notin op[c].made =>
         IF "manifest" \in op[c].made THEN Mine(c) \notin DOMAIN index \cup bundles
         ELSE Whole(Mine(c))

ResetAlone(c) ==
  op[c].kind = "reset" =>
    /\ ~At(c, "blobs") => blobs = {}
    /\ op[c].pc \notin {"blobs", "bundles"} => bundles = {}
    /\ At(c, "models.json") => manifests = {}

(* The same, whatever it does. *)
Alone(c) == TagAlone(c) /\ DeleteAlone(c) /\ FillAlone(c) /\ WriteAlone(c) /\ ResetAlone(c)

(* A model that is not hurt is whole unless an operation works on it, and the
   operations on other models leave it alone. *)
Kept ==
  \A n \in Models \ hurt :
    /\ (\A c \in Active : Mine(c) # n) => Whole(n)
    /\ \A c \in Clients : Mine(c) # n => Spares(c, n)

(* The inductive invariant. *)
StoreInv ==
  /\ TypeOK /\ DOMAIN op = Clients
  /\ up \/ \A c \in Clients : op[c] = IdleOp
  /\ Apart /\ (up => Good(index))
  /\ \A c \in Clients : Shape(op[c]) /\ Good(op[c].snap) /\ Good(op[c].init)
  /\ Marked
  /\ NoReset => Kept
  /\ \A c \in Clients : op[c].alone => Alone(c)

(***************************************************************************)
(* The operations on the index                                             *)
(***************************************************************************)
(* An empty index is good. *)
LEMMA EmptyIndex ==
  IsIndex(NoIndex) /\ Good(NoIndex) /\ DOMAIN NoIndex = {}
BY DEF IsIndex, Good, NoIndex

(* Adding a tag takes it from every other model. *)
LEMMA TaggedKeeps ==
  ASSUME StoreAssumption, NEW idx, IsIndex(idx), Good(idx), NEW ref \in Models \cup Normal,
         NEW tag \in Normal
  PROVE  /\ IsIndex(Tagged(idx, ref, tag)) /\ Good(Tagged(idx, ref, tag))
         /\ DOMAIN Tagged(idx, ref, tag) = DOMAIN idx
<1> DEFINE t == IF ref \in Tags THEN Rest[ref][tag] ELSE tag
           new == [m \in DOMAIN idx |-> IF m \in Named(idx, ref) THEN idx[m] \cup {t} ELSE idx[m] \ {t}]
<1>1. Normal \subseteq Tags
  BY DEF Normal, StoreAssumption
<1>2. CASE t = NoTag
  BY <1>2 DEF Tagged
<1>3. CASE t # NoTag
  <2>1. t \in Normal
    <3>1. CASE ref \in Tags
      <4>1. ref \in Normal
        BY <3>1 DEF StoreAssumption
      <4> QED BY <1>3, <3>1, <4>1 DEF StoreAssumption
    <3> QED BY <3>1
  <2>2. \A m, n \in Named(idx, ref) : m = n
    <3> SUFFICES ASSUME NEW m \in Named(idx, ref), NEW n \in Named(idx, ref), m # n PROVE FALSE
      OBVIOUS
    <3>1. m \in DOMAIN idx /\ n \in DOMAIN idx /\ m \in Models /\ n \in Models
      BY DEF Named, IsIndex
    <3>2. CASE ref \in Models
      BY <1>1, <3>1, <3>2 DEF Named, Good, StoreAssumption
    <3>3. CASE ref \in Normal
      <4>1. ref # m /\ ref # n
        BY <1>1, <3>1, <3>3 DEF StoreAssumption
      <4> QED BY <3>1, <4>1 DEF Named, Good
    <3> QED BY <3>2, <3>3
  <2>3. Tagged(idx, ref, tag) = new
    BY <1>3 DEF Tagged
  <2>4. /\ DOMAIN new = DOMAIN idx
        /\ \A m \in DOMAIN idx : new[m] = IF m \in Named(idx, ref) THEN idx[m] \cup {t} ELSE idx[m] \ {t}
    OBVIOUS
  <2> HIDE DEF t, new
  <2>5. IsIndex(new)
    <3>1. \A m \in DOMAIN idx : new[m] \subseteq Tags
      BY <1>1, <2>1, <2>4 DEF IsIndex
    <3>2. new = [m \in DOMAIN idx |-> new[m]]
      BY DEF new
    <3> QED BY <2>4, <3>1, <3>2 DEF IsIndex
  <2>6. Good(new)
    <3>1. \A m \in DOMAIN new : new[m] \subseteq Normal
      BY <2>1, <2>4 DEF Good
    <3>2. ASSUME NEW m \in DOMAIN new, NEW n \in DOMAIN new, m # n PROVE new[m] \cap new[n] = {}
      BY <2>2, <2>4, <3>2 DEF Good
    <3> QED BY <3>1, <3>2 DEF Good
  <2> QED BY <2>3, <2>4, <2>5, <2>6
<1> QED BY <1>2, <1>3

(* Removing a tag keeps an index good. *)
LEMMA UntaggedKeeps ==
  ASSUME NEW idx, IsIndex(idx), Good(idx), NEW tag
  PROVE  /\ IsIndex(Untagged(idx, tag)) /\ Good(Untagged(idx, tag))
         /\ DOMAIN Untagged(idx, tag) = DOMAIN idx
BY DEF IsIndex, Good, Untagged

(* So does the removal of an entry. *)
LEMMA RemovedKeeps ==
  ASSUME NEW idx, IsIndex(idx), Good(idx), NEW m
  PROVE  /\ IsIndex(Removed(idx, m)) /\ Good(Removed(idx, m))
         /\ DOMAIN Removed(idx, m) = DOMAIN idx \ {m}
BY DEF IsIndex, Good, Removed, Restrict

(* An entry is added without tags. *)
LEMMA AddedKeeps ==
  ASSUME NEW idx, IsIndex(idx), Good(idx), NEW m \in Models
  PROVE  /\ IsIndex(Added(idx, m)) /\ Good(Added(idx, m))
         /\ DOMAIN Added(idx, m) = DOMAIN idx \cup {m}
<1>1. CASE m \in DOMAIN idx
  BY <1>1 DEF Added
<1>2. CASE m \notin DOMAIN idx
  BY <1>2 DEF Added, IsIndex, Good
<1> QED BY <1>1, <1>2

(* On the tags of a service that is up the migration does nothing. *)
LEMMA GoodIsApart ==
  ASSUME StoreAssumption, IsIndex(index), Good(index)
  PROVE  Apart
<1>1. \A t \in Normal : Canon[t] = t
  BY DEF StoreAssumption, Normal
<1>2. ASSUME NEW m \in DOMAIN index PROVE {Canon[t] : t \in index[m]} = index[m]
  BY <1>1 DEF Good
<1> QED BY <1>2 DEF Good, Apart

(* Starting the service makes the index good. *)
LEMMA MigratedKeeps ==
  ASSUME StoreAssumption, IsIndex(index), Apart,
         index' = [m \in DOMAIN index |-> {Canon[t] : t \in index[m]}]
  PROVE  IsIndex(index') /\ Good(index') /\ DOMAIN index' = DOMAIN index
<1>1. DOMAIN index' = DOMAIN index
  OBVIOUS
<1>2. ASSUME NEW m \in DOMAIN index PROVE index'[m] \subseteq Normal /\ index'[m] \subseteq Tags
  BY DEF IsIndex, Normal, StoreAssumption
<1>3. IsIndex(index')
  BY <1>2 DEF IsIndex
<1>4. Good(index')
  BY <1>1, <1>2 DEF Good, Apart
<1> QED BY <1>1, <1>3, <1>4

(***************************************************************************)
(* Steps in general                                                        *)
(***************************************************************************)
(* What a step leaves of a model on which its operation does not work. *)
Untouched(n) ==
  /\ n \in DOMAIN index' <=> n \in DOMAIN index
  /\ n \in manifests' <=> n \in manifests
  /\ n \in bundles' <=> n \in bundles
  /\ n \in DOMAIN index /\ FilesOf(n) \subseteq blobs => FilesOf(n) \subseteq blobs'

(* TypeOK, but for the operations ... *)
DiskTyped ==
  /\ IsIndex(index)
  /\ manifests \subseteq Models /\ bundles \subseteq Models /\ hurt \subseteq Models
  /\ blobs \subseteq Blobs
  /\ hasLayout \in BOOLEAN /\ up \in BOOLEAN /\ started \in 0 .. MaxOps

(* ... and the operation of one client. *)
OpTyped(c) == op[c] \in OpRecord(op[c]) /\ IsIndex(op[c].snap) /\ IsIndex(op[c].init)

(* Its shape, and the indexes it has read. *)
OpSound(c) == Shape(op[c]) /\ Good(op[c].snap) /\ Good(op[c].init)

(* What a step of the operation of one client has to see to. *)
Works(c) ==
  /\ up' = up /\ started' = started
  /\ DOMAIN op' = Clients /\ \A d \in Clients \ {c} : op'[d] = op[d]
  /\ DiskTyped' /\ OpTyped(c)' /\ Good(index') /\ OpSound(c)'
  /\ \/ op'[c] = IdleOp
     \/ /\ op'[c].pc # "idle" /\ op'[c].alone = op[c].alone
        /\ op'[c].model = op[c].model /\ op'[c].kind = op[c].kind
  /\ IF op[c].alone THEN hurt \subseteq hurt' \cup {Mine(c)} ELSE hurt \subseteq hurt'
  /\ NoReset => \A n \in Models \ hurt' : n # Mine(c) => Untouched(n) /\ Spares(c, n)'
  /\ op[c].alone /\ op'[c] = IdleOp => \A n \in Models \ hurt' : n = Mine(c) => Whole(n)'
  /\ op[c].alone /\ op'[c] # IdleOp => Alone(c)'

(* An idle client has no operation to describe. *)
LEMMA IdleShape ==
  ASSUME NEW o, Shape(o)
  PROVE  o.pc = "idle" <=> o = IdleOp
BY DEF Shape, IdleOp

(* While an operation works on one model the others, but for those that are
   hurt, are whole. *)
LEMMA OthersWhole ==
  ASSUME StoreInv, NoReset, NEW c \in Clients, ~At(c, "idle"),
         NEW n \in Models \ hurt, n # Mine(c)
  PROVE  Whole(n)
<1> SUFFICES ASSUME NEW d \in Active, Mine(d) = n PROVE FALSE
  BY DEF StoreInv, Kept
<1>1. d \in Clients /\ ~At(d, "idle") /\ d # c
  BY DEF Active
<1> QED BY <1>1 DEF StoreInv, Marked

(* A step of an operation that spares the other models and leaves its own as it
   should be keeps the invariant. *)
LEMMA WorkKeeps ==
  ASSUME StoreAssumption, StoreInv, NEW c \in Clients, ~At(c, "idle"), op[c].kind # "reset",
         Works(c)
  PROVE  StoreInv'
<1>1. \A d \in Clients : d # c => op'[d] = op[d]
  BY DEF Works
<1>2. up /\ up'
  <2>1. op[c] # IdleOp
    BY DEF At, IdleOp
  <2> QED BY <2>1 DEF StoreInv, Works
<1>3. TypeOK' /\ DOMAIN op' = Clients
  <2>1. ASSUME NEW d \in Clients PROVE OpTyped(d)'
    <3>1. CASE d = c
      BY <3>1 DEF Works
    <3>2. CASE d # c
      BY <1>1, <3>2 DEF StoreInv, TypeOK, OpTyped
    <3> QED BY <3>1, <3>2
  <2> QED BY <2>1 DEF Works, TypeOK, DiskTyped, OpTyped
<1>4. Apart' /\ Good(index')
  <2>1. IsIndex(index')
    BY <1>3 DEF TypeOK
  <2>2. Good(index')
    BY DEF Works
  <2>3. \A t \in Normal : Canon[t] = t
    BY DEF StoreAssumption, Normal
  <2>4. ASSUME NEW m \in DOMAIN index' PROVE {Canon[t] : t \in index'[m]} = index'[m]
    BY <2>2, <2>3 DEF Good
  <2> QED BY <2>2, <2>4 DEF Good, Apart
<1>5. ASSUME NEW d \in Clients PROVE OpSound(d)'
  <2>1. CASE d = c
    BY <2>1 DEF Works
  <2>2. CASE d # c
    BY <1>1, <2>2 DEF StoreInv, OpSound
  <2> QED BY <2>1, <2>2
<1>6. op'[c].pc = "idle" <=> op'[c] = IdleOp
  BY <1>5, IdleShape DEF OpSound
(* Who else is there is not alone, and its model is marked before and after. *)
<1>7. ASSUME NEW d \in Clients, d # c, ~At(d, "idle")
      PROVE  /\ ~op[c].alone /\ ~op[d].alone
             /\ Mine(d) \in Models => Mine(d) \in hurt /\ Mine(d) \in hurt'
             /\ Mine(c) \in Models => Mine(c) \in hurt /\ Mine(c) \in hurt'
  <2>1. ~op[c].alone /\ ~op[d].alone
    BY <1>7 DEF StoreInv, Marked
  <2>2. hurt \subseteq hurt'
    BY <2>1 DEF Works
  <2> QED BY <1>7, <2>1, <2>2 DEF StoreInv, Marked
<1>8. Marked'
  <2> SUFFICES ASSUME NEW d \in Clients, ~At(d, "idle")'
               PROVE IF op'[d].alone THEN \A e \in Clients : e # d => At(e, "idle")'
                     ELSE Mine(d)' \in Models => Mine(d)' \in hurt'
    BY DEF Marked
  <2>1. CASE d = c
    <3>1. op'[c].alone = op[c].alone /\ op'[c].model = op[c].model
      BY <2>1 DEF Works, At, IdleOp
    <3>2. CASE op[c].alone
      <4>1. \A e \in Clients : e # c => At(e, "idle")'
        BY <1>1, <3>2 DEF StoreInv, Marked, At
      <4> QED BY <2>1, <3>1, <3>2, <4>1
    <3>3. CASE ~op[c].alone
      <4>1. hurt \subseteq hurt'
        BY <3>3 DEF Works
      <4> QED BY <2>1, <3>1, <3>3, <4>1 DEF StoreInv, Marked, Mine
    <3> QED BY <3>2, <3>3 DEF StoreInv, TypeOK, OpRecord
  <2>2. CASE d # c
    <3>1. op'[d] = op[d] /\ ~At(d, "idle")
      BY <1>1, <2>2 DEF At
    <3>2. ~op[d].alone /\ (Mine(d) \in Models => Mine(d) \in hurt')
      BY <1>7, <2>2, <3>1
    <3> QED BY <3>1, <3>2 DEF Mine
  <2> QED BY <2>1, <2>2
<1>9. ASSUME NoReset' PROVE NoReset
  <2> SUFFICES ASSUME NEW d \in Clients PROVE op[d].kind # "reset"
    BY DEF NoReset
  <2> QED BY <1>1, <1>9 DEF NoReset
<1>10. ASSUME NoReset' PROVE Kept'
  <2> SUFFICES ASSUME NEW n \in Models \ hurt'
               PROVE  /\ (\A d \in Active' : Mine(d)' # n) => Whole(n)'
                      /\ \A d \in Clients : Mine(d)' # n => Spares(d, n)'
    BY DEF Kept
  <2>1. NoReset
    BY <1>9, <1>10
  <2>2. CASE n = Mine(c)
    <3>1. \A d \in Clients : d # c => At(d, "idle") /\ op[d] = IdleOp /\ op'[d] = IdleOp
      BY <1>1, <1>7, <2>2, IdleShape DEF StoreInv, At
    <3>2. op[c].alone
      BY <2>2 DEF StoreInv, Marked, Works
    <3>3. ASSUME \A d \in Active' : Mine(d)' # n PROVE Whole(n)'
      <4>1. op'[c] = IdleOp
        BY <1>6, <2>2, <3>3 DEF Works, Active, At, Mine
      <4> QED BY <2>2, <3>2, <4>1 DEF Works
    <3>4. ASSUME NEW d \in Clients, Mine(d)' # n PROVE Spares(d, n)'
      <4>1. op'[d] = IdleOp
        BY <1>6, <2>2, <3>1, <3>4 DEF Works, Mine
      <4> QED BY <4>1 DEF Spares, IdleOp, Removing, Writes
    <3> QED BY <3>3, <3>4
  <2>3. CASE n # Mine(c)
    <3>1. n \in Models \ hurt /\ Untouched(n) /\ Spares(c, n)'
      BY <2>1, <2>3 DEF Works
    <3>2. Whole(n)
      BY <2>1, <2>3, <3>1, OthersWhole
    <3>3. Whole(n)'
      BY <3>1, <3>2 DEF Whole, Untouched
    <3>4. ASSUME NEW d \in Clients, Mine(d)' # n PROVE Spares(d, n)'
      <4>1. CASE d = c
        BY <3>1, <4>1
      <4>2. CASE d # c
        <5>1. op'[d] = op[d] /\ Mine(d) # n
          BY <1>1, <3>4, <4>2 DEF Mine
        <5>2. Spares(d, n)
          BY <2>1, <3>1, <5>1 DEF StoreInv, Kept
        <5> QED BY <3>1, <5>1, <5>2 DEF Spares, Untouched, Mine
      <4> QED BY <4>1, <4>2
    <3> QED BY <3>3, <3>4
  <2> QED BY <2>2, <2>3
<1>11. ASSUME NEW d \in Clients, op'[d].alone PROVE Alone(d)'
  <2>1. CASE d = c
    <3>1. op'[c] # IdleOp /\ op[c].alone
      BY <1>11, <2>1 DEF Works, IdleOp
    <3> QED BY <2>1, <3>1 DEF Works
  <2>2. CASE d # c
    <3>1. op'[d] = op[d]
      BY <1>1, <2>2
    <3>2. At(d, "idle")
      BY <1>7, <1>11, <2>2, <3>1
    <3>3. op[d] = IdleOp
      BY <3>2, IdleShape DEF StoreInv, At
    <3> QED BY <1>11, <3>1, <3>3 DEF IdleOp
  <2> QED BY <2>1, <2>2
<1> QED
  BY <1>2, <1>3, <1>4, <1>5, <1>8, <1>10, <1>11 DEF StoreInv, OpSound

(* The operations that a request can start. *)
Starting(r) ==
  /\ r \in OpRecord(r) /\ Shape(r)
  /\ ~r.alone /\ r.snap = NoIndex /\ r.init = NoIndex /\ r.made = {}
  /\ \/ r.kind \in Writes /\ r.pc = "write"
     \/ r.kind = "load" /\ r.pc = "layers" /\ r.todo = FilesOf(r.model)
     \/ r.kind = "tag" /\ r.pc = "tagRead"
     \/ r.kind = "delete" /\ r.pc \in {"untagRead", "find"}
     \/ r.kind = "reset" /\ r.pc = "blobs"

(* A request that begins as its kind does keeps the invariant. *)
LEMMA BeginKeeps ==
  ASSUME StoreAssumption, StoreInv, NEW c \in Clients, Idle(c), started < MaxOps,
         NEW r, Starting(r), Begin(c, r), UNCHANGED <<disk, up>>
  PROVE  StoreInv'
<1> DEFINE p == op'[c]
<1>1. /\ index' = index /\ manifests' = manifests /\ blobs' = blobs /\ bundles' = bundles
      /\ hasLayout' = hasLayout /\ up' = up /\ up /\ started' = started + 1
  BY DEF disk, files, Begin, Idle
<1>2. /\ p = [r EXCEPT !.alone = (Active = {})]
      /\ DOMAIN op' = Clients
      /\ \A d \in Clients : d # c => op'[d] = [op[d] EXCEPT !.alone = FALSE]
  BY DEF Begin
<1>3. /\ p \in OpRecord(p)
      /\ p.kind = r.kind /\ p.pc = r.pc /\ p.model = r.model /\ p.tag = r.tag /\ p.made = r.made
      /\ p.snap = r.snap /\ p.init = r.init /\ p.todo = r.todo /\ p.failed = r.failed
      /\ p.alone = (Active = {})
  BY <1>2 DEF Starting, OpRecord
<1>4. ASSUME NEW d \in Clients, d # c
      PROVE  LET q == op'[d]
                 o == op[d]
             IN  /\ q \in OpRecord(q)
                 /\ q.kind = o.kind /\ q.pc = o.pc /\ q.model = o.model /\ q.tag = o.tag
                 /\ q.made = o.made
                 /\ q.snap = o.snap /\ q.init = o.init /\ q.todo = o.todo /\ q.failed = o.failed
                 /\ ~q.alone
  <2>1. op[d] \in OpRecord(op[d])
    BY DEF StoreInv, TypeOK
  <2>2. op'[d] = [op[d] EXCEPT !.alone = FALSE]
    BY <1>2, <1>4
  <2> QED BY <2>1, <2>2 DEF OpRecord
<1>5. /\ op[c] = IdleOp /\ p # IdleOp
      /\ \A d \in Clients : d # c /\ op[d] = IdleOp => op'[d] = IdleOp
  <2>1. op[c] = IdleOp
    BY IdleShape DEF StoreInv, Idle, At
  <2>2. p # IdleOp
    BY <1>3 DEF Starting, IdleOp, Writes
  <2>3. [IdleOp EXCEPT !.alone = FALSE] = IdleOp
    <3>1. IdleOp.alone = FALSE /\ IdleOp = [x \in DOMAIN IdleOp |-> IdleOp[x]]
      BY DEF IdleOp
    <3> QED BY <3>1
  <2>4. ASSUME NEW d \in Clients, d # c, op[d] = IdleOp PROVE op'[d] = IdleOp
    <3>1. op'[d] = [IdleOp EXCEPT !.alone = FALSE]
      BY <1>2, <2>4, Zenon
    <3> QED BY <2>3, <3>1, Zenon
  <2> QED BY <2>1, <2>2, <2>4
<1> HIDE DEF p
<1>6. \A d \in Clients : op'[d].pc = "idle" <=> d # c /\ At(d, "idle")
  <2>1. p.pc # "idle"
    BY <1>3 DEF Starting
  <2> QED BY <1>4, <2>1 DEF p, At
<1>7. hurt \subseteq hurt' /\ hurt' \subseteq Models
  BY DEF Begin, StoreInv, TypeOK
<1>8. TypeOK'
  <2>1. ASSUME NEW d \in Clients PROVE OpTyped(d)'
    <3>1. CASE d = c
      BY <1>3, <3>1, EmptyIndex DEF p, Starting, OpTyped
    <3>2. CASE d # c
      BY <1>4, <3>2 DEF StoreInv, TypeOK, OpTyped
    <3> QED BY <3>1, <3>2
  <2>2. started' \in 0 .. MaxOps
    BY <1>1 DEF StoreInv, TypeOK, StoreAssumption
  <2> QED BY <1>1, <1>7, <2>1, <2>2 DEF StoreInv, TypeOK, OpTyped
<1>9. Apart' /\ Good(index')
  BY <1>1 DEF StoreInv, Apart
<1>10. ASSUME NEW d \in Clients PROVE OpSound(d)'
  <2>1. CASE d = c
    <3>1. Shape(p)
      BY <1>3 DEF Starting, Shape, IdleOp, Writes
    <3> QED BY <1>3, <2>1, <3>1, EmptyIndex DEF p, Starting, OpSound
  <2>2. CASE d # c
    <3>1. Shape(op[d]) /\ Good(op[d].snap) /\ Good(op[d].init)
      BY DEF StoreInv
    <3>2. Shape(op'[d])
      BY <1>4, <1>5, <2>2, <3>1 DEF Shape
    <3> QED BY <1>4, <2>2, <3>1, <3>2 DEF OpSound
  <2> QED BY <2>1, <2>2
<1>11. ASSUME Active = {}
       PROVE  hurt' = hurt /\ \A d \in Clients : At(d, "idle") /\ op[d] = IdleOp
  BY <1>11, IdleShape DEF Begin, Active, StoreInv, At
<1>12. Marked'
  <2> SUFFICES ASSUME NEW d \in Clients, ~At(d, "idle")'
               PROVE IF op'[d].alone THEN \A e \in Clients : e # d => At(e, "idle")'
                     ELSE Mine(d)' \in Models => Mine(d)' \in hurt'
    BY DEF Marked
  <2>1. CASE d = c /\ Active = {}
    BY <1>3, <1>6, <1>11, <2>1 DEF p, At
  <2>2. CASE d = c /\ Active # {}
    <3>1. ~p.alone /\ (r.model \in Models => r.model \in hurt')
      BY <1>3, <2>2 DEF Begin
    <3> QED BY <1>3, <2>2, <3>1 DEF p, Mine
  <2>3. CASE d # c
    <3>1. d \in Active
      BY <1>6, <2>3 DEF Active, At
    <3>2. Mine(d) \in Models => Mine(d) \in hurt'
      BY <3>1 DEF Begin
    <3> QED BY <1>4, <2>3, <3>2 DEF Mine
  <2> QED BY <2>1, <2>2, <2>3
<1>13. ASSUME NoReset' PROVE Kept'
  <2>1. NoReset
    <3> SUFFICES ASSUME NEW d \in Clients PROVE op[d].kind # "reset"
      BY DEF NoReset
    <3> QED BY <1>4, <1>5, <1>13 DEF NoReset, IdleOp
  <2> SUFFICES ASSUME NEW n \in Models \ hurt'
               PROVE  /\ (\A d \in Active' : Mine(d)' # n) => Whole(n)'
                      /\ \A d \in Clients : Mine(d)' # n => Spares(d, n)'
    BY DEF Kept
  <2>2. n \in Models \ hurt
    BY <1>7
  <2>3. ASSUME \A d \in Active' : Mine(d)' # n PROVE Whole(n)'
    <3>1. ASSUME NEW d \in Active PROVE Mine(d) # n
      BY <1>4, <1>6, <2>3 DEF Active, Idle, At, Mine
    <3> QED BY <1>1, <2>1, <2>2, <3>1 DEF StoreInv, Kept, Whole
  <2>4. ASSUME NEW d \in Clients, Mine(d)' # n PROVE Spares(d, n)'
    <3>1. CASE d = c
      <4>1. /\ p.pc \notin {"addWrite", "tagWrite", "untagWrite"} \cup Removing
            /\ p.kind \in Writes => p.pc = "write"
            /\ p.made = {}
        BY <1>3 DEF Starting, Removing, Writes
      <4> QED BY <3>1, <4>1 DEF p, Spares
    <3>2. CASE d # c
      <4>1. Spares(d, n)
        BY <1>4, <2>1, <2>2, <2>4, <3>2 DEF StoreInv, Kept, Mine
      <4> QED BY <1>1, <1>4, <3>2, <4>1 DEF Spares, Mine
    <3> QED BY <3>1, <3>2
  <2> QED BY <2>3, <2>4
<1>14. ASSUME NEW d \in Clients, op'[d].alone PROVE Alone(d)'
  <2>1. d = c /\ Active = {}
    BY <1>3, <1>4, <1>14 DEF p
  <2>2. \A n \in Models \ hurt : Whole(n)
    BY <1>11, <2>1 DEF StoreInv, Kept, NoReset, IdleOp
  <2>3. \A n \in Models \ hurt' : Whole(n)'
    BY <1>1, <1>11, <2>1, <2>2 DEF Whole
  <2>4. TagAlone(c)'
    BY <1>3, <2>3 DEF Starting, p, TagAlone, At, Mine, Writes
  <2>5. DeleteAlone(c)'
    BY <1>3, <2>3 DEF Starting, p, DeleteAlone, At, Mine, Writes, Removing, Shape, IdleOp
  <2>6. FillAlone(c)' /\ WriteAlone(c)'
    BY <1>3, <2>3 DEF Starting, p, FillAlone, WriteAlone, At, Mine, Writes, Shape, IdleOp
  <2>7. ResetAlone(c)'
    BY <1>3 DEF Starting, p, ResetAlone, At, Writes
  <2> QED BY <2>1, <2>4, <2>5, <2>6, <2>7 DEF Alone
<1> QED
  BY <1>1, <1>2, <1>8, <1>9, <1>10, <1>12, <1>13, <1>14 DEF StoreInv, OpSound

(* A request begins one operation of a client that was idle. *)
LEMMA RequestBegins ==
  ASSUME StoreAssumption, StoreInv, NEW c \in Clients, Request(c)
  PROVE  /\ Idle(c) /\ started < MaxOps /\ UNCHANGED <<disk, up>>
         /\ \E r : Starting(r) /\ Begin(c, r)
<1>1. Normal \subseteq Tags
  BY DEF Normal, StoreAssumption
<1>0. "write" \in Places /\ "tagRead" \in Places
  BY DEF Places
<1> DEFINE Made(r) == Starting(r) /\ Begin(c, r)
<1>2. SUFFICES Idle(c) /\ started < MaxOps /\ UNCHANGED <<disk, up>> /\ \E r : Made(r)
  OBVIOUS
<1>3. ASSUME NEW m \in Models, NEW t \in Normal, StartPull(c, m, t) \/ StartBuild(c, m, t)
      PROVE  Idle(c) /\ started < MaxOps /\ UNCHANGED <<disk, up>> /\ \E r : Made(r)
  <2>0. m \in Models \cup Tags \cup {NoModel} /\ t \in Models \cup Tags \cup {NoTag}
    BY <1>1
  <2> DEFINE w == [IdleOp EXCEPT !.kind = "pull", !.pc = "write", !.model = m, !.tag = t]
             g == [IdleOp EXCEPT !.kind = "tag", !.pc = "tagRead", !.model = m, !.tag = t]
  <2>1. Begin(c, w) \/ Begin(c, g)
    BY <1>3, Zenon DEF StartPull, StartBuild
  <2>2. Starting(w)
    <3>1. /\ w \in OpRecord(w)
        /\ w.kind = "pull" /\ w.pc = "write" /\ w.model = m /\ w.tag = t
        /\ ~w.alone /\ w.snap = NoIndex /\ w.init = NoIndex /\ w.made = {} /\ ~w.failed
      BY <1>0, <2>0 DEF IdleOp, OpRecord
    <3> HIDE DEF w
    <3> QED BY <1>1, <3>1 DEF Starting, Shape, Writes
  <2>3. Starting(g)
    <3>1. /\ g \in OpRecord(g)
        /\ g.kind = "tag" /\ g.pc = "tagRead" /\ g.model = m /\ g.tag = t
        /\ ~g.alone /\ g.snap = NoIndex /\ g.init = NoIndex /\ g.made = {} /\ ~g.failed
      BY <1>0, <2>0 DEF IdleOp, OpRecord
    <3> HIDE DEF g
    <3> QED BY <1>1, <3>1 DEF Starting, Shape, Writes
  <2>4. Idle(c) /\ started < MaxOps /\ UNCHANGED <<disk, up>>
    BY <1>3 DEF StartPull, StartBuild, Starts
  <2> QED BY <2>1, <2>2, <2>3, <2>4, Zenon
<1>4. ASSUME NEW s \in Models, NEW m \in Models, NEW t \in Normal, StartLight(c, s, m, t)
      PROVE  Idle(c) /\ started < MaxOps /\ UNCHANGED <<disk, up>> /\ \E r : Made(r)
  <2>0. m \in Models \cup Tags \cup {NoModel} /\ t \in Models \cup Tags \cup {NoTag}
    BY <1>1
  <2> DEFINE w == [IdleOp EXCEPT !.kind = "light", !.pc = "write", !.model = m, !.tag = t]
  <2>1. Begin(c, w)
    BY <1>4, Zenon DEF StartLight
  <2>2. Starting(w)
    <3>1. /\ w \in OpRecord(w)
        /\ w.kind = "light" /\ w.pc = "write" /\ w.model = m /\ w.tag = t
        /\ ~w.alone /\ w.snap = NoIndex /\ w.init = NoIndex /\ w.made = {} /\ ~w.failed
      BY <1>0, <2>0 DEF IdleOp, OpRecord
    <3> HIDE DEF w
    <3> QED BY <1>1, <3>1 DEF Starting, Shape, Writes
  <2>3. Idle(c) /\ started < MaxOps /\ UNCHANGED <<disk, up>>
    BY <1>4 DEF StartLight, Starts
  <2> QED BY <2>1, <2>2, <2>3, Zenon
<1>5. ASSUME NEW m \in Models, StartLoad(c, m)
      PROVE  Idle(c) /\ started < MaxOps /\ UNCHANGED <<disk, up>> /\ \E r : Made(r)
  <2> DEFINE w == [IdleOp EXCEPT !.kind = "load", !.pc = "layers", !.model = m, !.todo = FilesOf(m)]
  <2>1. Begin(c, w)
    BY <1>5, Zenon DEF StartLoad
  <2>2. /\ w \in OpRecord(w)
        /\ w.kind = "load" /\ w.pc = "layers" /\ w.model = m /\ w.todo = FilesOf(m)
        /\ ~w.alone /\ w.snap = NoIndex /\ w.init = NoIndex /\ w.made = {} /\ ~w.failed
    <3>1. FilesOf(m) \in SUBSET Blobs
      BY DEF Blobs
    <3> QED BY <3>1 DEF IdleOp, OpRecord, Places
  <2>3. Starting(w)
    BY <2>2 DEF Starting, Shape
  <2>4. Idle(c) /\ started < MaxOps /\ UNCHANGED <<disk, up>>
    BY <1>5 DEF StartLoad, Starts
  <2> QED BY <2>1, <2>3, <2>4, Zenon
<1>6. ASSUME NEW ref \in Models \cup Normal, NEW t \in Normal, StartTag(c, ref, t)
      PROVE  Idle(c) /\ started < MaxOps /\ UNCHANGED <<disk, up>> /\ \E r : Made(r)
  <2>0. ref \in Models \cup Tags \cup {NoModel} /\ t \in Models \cup Tags \cup {NoTag}
    BY <1>1
  <2> DEFINE w == [IdleOp EXCEPT !.kind = "tag", !.pc = "tagRead", !.model = ref, !.tag = t]
  <2>1. Begin(c, w)
    BY <1>6, Zenon DEF StartTag
  <2>2. Starting(w)
    <3>1. /\ w \in OpRecord(w)
        /\ w.kind = "tag" /\ w.pc = "tagRead" /\ w.model = ref /\ w.tag = t
        /\ ~w.alone /\ w.snap = NoIndex /\ w.init = NoIndex /\ w.made = {} /\ ~w.failed
      BY <1>0, <2>0 DEF IdleOp, OpRecord
    <3> HIDE DEF w
    <3> QED BY <1>1, <3>1 DEF Starting, Shape, Writes
  <2>3. Idle(c) /\ started < MaxOps /\ UNCHANGED <<disk, up>>
    BY <1>6 DEF StartTag, Starts
  <2> QED BY <2>1, <2>2, <2>3, Zenon
<1>7. ASSUME NEW ref \in Models \cup Normal, NEW force \in BOOLEAN, StartDelete(c, ref, force)
      PROVE  Idle(c) /\ started < MaxOps /\ UNCHANGED <<disk, up>> /\ \E r : Made(r)
  <2>1. PICK m \in Named(index, ref), many \in BOOLEAN :
          Begin(c, [IdleOp EXCEPT !.kind = "delete", !.model = m, !.tag = ref,
                      !.pc = IF ref \in Tags THEN "untagRead" ELSE "find", !.many = many])
    <3>1. \A m : (LET many == Cardinality(index[m]) > 1 IN many /\ ref \in Tags) \in BOOLEAN
      OBVIOUS
    <3> QED BY <1>7, <3>1, Zenon DEF StartDelete
  <2>2. m \in Models
    BY DEF Named, StoreInv, TypeOK, IsIndex
  <2> DEFINE w == [IdleOp EXCEPT !.kind = "delete", !.model = m, !.tag = ref,
                     !.pc = IF ref \in Tags THEN "untagRead" ELSE "find", !.many = many]
  <2>3. /\ w \in OpRecord(w)
        /\ w.kind = "delete" /\ w.pc \in {"untagRead", "find"} /\ w.model = m
        /\ ~w.alone /\ w.snap = NoIndex /\ w.init = NoIndex /\ w.made = {} /\ ~w.failed
    <3>1. ref \in Models \cup Tags \cup {NoTag} /\ m \in Models \cup Tags \cup {NoModel}
      BY <1>1, <2>2
    <3> QED BY <3>1 DEF IdleOp, OpRecord, Places
  <2>4. Starting(w)
    BY <2>2, <2>3 DEF Starting, Shape
  <2>5. Idle(c) /\ started < MaxOps /\ UNCHANGED <<disk, up>>
    BY <1>7 DEF StartDelete, Starts
  <2> QED BY <2>1, <2>4, <2>5, Zenon
<1>8. ASSUME StartReset(c)
      PROVE  Idle(c) /\ started < MaxOps /\ UNCHANGED <<disk, up>> /\ \E r : Made(r)
  <2> DEFINE w == [IdleOp EXCEPT !.kind = "reset", !.pc = Parts[1]]
  <2>1. Begin(c, w)
    BY <1>8, Zenon DEF StartReset
  <2>2. /\ w \in OpRecord(w)
        /\ w.kind = "reset" /\ w.pc = "blobs" /\ w.model = NoModel
        /\ ~w.alone /\ w.snap = NoIndex /\ w.init = NoIndex /\ w.made = {} /\ ~w.failed
    <3>1. Parts[1] = "blobs"
      BY DEF Parts
    <3> QED BY <3>1 DEF IdleOp, OpRecord, Places
  <2>3. Starting(w)
    BY <2>2 DEF Starting, Shape
  <2>4. Idle(c) /\ started < MaxOps /\ UNCHANGED <<disk, up>>
    BY <1>8 DEF StartReset, Starts
  <2> QED BY <2>1, <2>3, <2>4, Zenon
<1> HIDE DEF Made
<1> QED BY <1>3, <1>4, <1>5, <1>6, <1>7, <1>8 DEF Request

(* Every request keeps the invariant. *)
LEMMA RequestKeeps ==
  ASSUME StoreAssumption, StoreInv, NEW c \in Clients, Request(c)
  PROVE  StoreInv'
BY RequestBegins, BeginKeeps

(* The initial states: the service is down, what is on the disk is whole. *)
LEMMA StoreInit ==
  ASSUME StoreAssumption, MigrationKeepsApart, Init
  PROVE  StoreInv
<1>1. IdleOp \in OpRecord(IdleOp) /\ Shape(IdleOp)
  <2>1. IdleOp \in OpRecord(IdleOp)
    BY DEF IdleOp, OpRecord, Places
  <2> QED BY <2>1 DEF Shape
<1>2. DOMAIN op = Clients /\ \A c \in Clients : op[c] = IdleOp
  BY DEF Init
<1>3. DiskTyped
  <2>1. IsIndex(index) /\ manifests \subseteq Models
    BY DEF Init, StoreAssumption, IsIndex
  <2>2. blobs \subseteq Blobs
    BY DEF Init, StoreAssumption, Blobs
  <2>3. started \in 0 .. MaxOps
    BY DEF Init, StoreAssumption
  <2> QED BY <2>1, <2>2, <2>3 DEF Init, DiskTyped
<1>4. TypeOK
  <2>1. IdleOp.snap = NoIndex /\ IdleOp.init = NoIndex
    BY DEF IdleOp
  <2> QED BY <1>1, <1>2, <1>3, <2>1, EmptyIndex DEF TypeOK, DiskTyped
<1>5. Apart /\ ~up
  BY DEF Init, Apart, MigrationKeepsApart
<1>6. \A c \in Clients : Shape(op[c]) /\ Good(op[c].snap) /\ Good(op[c].init)
  <2>1. IdleOp.snap = NoIndex /\ IdleOp.init = NoIndex
    BY DEF IdleOp
  <2> QED BY <1>1, <1>2, <2>1, EmptyIndex
<1>7. Marked /\ \A c \in Clients : ~op[c].alone
  BY <1>2 DEF Marked, At, IdleOp
<1>8. \A n \in Models : Whole(n)
  BY DEF Init, Whole
<1>9. \A c \in Clients, n \in Models : Spares(c, n)
  BY <1>2 DEF Spares, IdleOp, Removing, Writes
<1> QED BY <1>2, <1>4, <1>5, <1>6, <1>7, <1>8, <1>9 DEF StoreInv, Kept

(* The service starts and migrates the tags. *)
LEMMA StartKeeps ==
  ASSUME StoreAssumption, StoreInv, Start
  PROVE  StoreInv'
<1>1. /\ index' = [m \in DOMAIN index |-> {Canon[t] : t \in index[m]}]
      /\ manifests' = manifests /\ blobs' = blobs /\ bundles' = bundles
      /\ hasLayout' \in BOOLEAN /\ up' = TRUE /\ op' = op /\ started' = started /\ hurt' = hurt
  BY DEF Start, files
<1>2. IsIndex(index') /\ Good(index') /\ DOMAIN index' = DOMAIN index
  BY <1>1, MigratedKeeps DEF StoreInv, TypeOK
<1>3. \A c \in Clients : op'[c] = IdleOp
  BY <1>1 DEF StoreInv, Start
<1>4. TypeOK'
  BY <1>1, <1>2 DEF StoreInv, TypeOK
<1>5. Apart'
  <2>1. \A t \in Normal : Canon[t] = t
    BY DEF StoreAssumption, Normal
  <2>2. ASSUME NEW m \in DOMAIN index' PROVE {Canon[t] : t \in index'[m]} = index'[m]
    BY <1>2, <2>1 DEF Good
  <2> QED BY <1>2, <2>2 DEF Good, Apart
<1>6. Marked' /\ \A c \in Clients : ~op'[c].alone
  BY <1>3 DEF Marked, At, IdleOp
<1>7. ASSUME NoReset' PROVE Kept'
  <2>1. NoReset /\ Active' = Active
    BY <1>1, <1>7 DEF NoReset, Active, At
  <2>2. \A c \in Clients : \A n \in Models : Spares(c, n)'
    BY <1>3 DEF Spares, IdleOp, Removing, Writes
  <2>3. \A n : Whole(n) => Whole(n)'
    BY <1>1, <1>2 DEF Whole
  <2>4. \A n \in Models \ hurt' : (\A c \in Active' : Mine(c)' # n) => Whole(n)'
    BY <1>1, <2>1, <2>3 DEF StoreInv, Kept, Mine
  <2> QED BY <2>2, <2>4 DEF Kept
<1> QED BY <1>1, <1>2, <1>4, <1>5, <1>6, <1>7 DEF StoreInv

(* It crashes, which hurts the models it worked on. *)
LEMMA CrashKeeps ==
  ASSUME StoreAssumption, StoreInv, Crash
  PROVE  StoreInv'
<1> DEFINE reset == \E c \in Active : op[c].kind = "reset"
           met == {Mine(c) : c \in {d \in Active : op[d].kind # "tag"}}
<1>1. /\ index' = index /\ manifests' = manifests /\ blobs' = blobs /\ bundles' = bundles
      /\ hasLayout' = hasLayout /\ up' = FALSE /\ started' = started
      /\ DOMAIN op' = Clients /\ \A c \in Clients : op'[c] = IdleOp
      /\ hurt' = hurt \cup IF reset THEN Models ELSE met
  BY DEF Crash, disk, files
<1>2. ASSUME ~reset PROVE met \subseteq Models
  <2> SUFFICES ASSUME NEW c \in Active, op[c].kind # "tag" PROVE Mine(c) \in Models
    OBVIOUS
  <2>1. c \in Clients /\ op[c] # IdleOp /\ op[c].kind # "reset" /\ Shape(op[c])
    BY <1>2 DEF Active, At, IdleOp, StoreInv
  <2> QED BY <2>1 DEF Shape, Mine
<1>3. hurt \subseteq hurt' /\ hurt' \subseteq Models
  BY <1>1, <1>2 DEF StoreInv, TypeOK
<1>4. IdleOp.snap = NoIndex /\ IdleOp.init = NoIndex /\ ~IdleOp.alone /\ Shape(IdleOp)
  BY DEF IdleOp, Shape
<1>5. IdleOp \in OpRecord(IdleOp)
  BY DEF IdleOp, OpRecord, Places
<1>6. TypeOK'
  BY <1>1, <1>3, <1>4, <1>5, EmptyIndex DEF StoreInv, TypeOK
<1>7. Apart' /\ Marked'
  BY <1>1 DEF StoreInv, Apart, Marked, At, IdleOp
<1>8. Kept'
  <2> SUFFICES ASSUME NEW n \in Models \ hurt'
               PROVE  Whole(n)' /\ \A c \in Clients : Spares(c, n)'
    BY DEF Kept
  <2>1. ~reset /\ n \notin hurt /\ n \notin met
    BY <1>1, <1>3
  <2>2. NoReset
    BY <2>1 DEF NoReset, Active, At, StoreInv, Shape, IdleOp
  <2>3. Whole(n)
    <3>1. CASE \A c \in Active : Mine(c) # n
      BY <2>1, <2>2, <3>1 DEF StoreInv, Kept
    <3>2. CASE \E c \in Active : Mine(c) = n
      <4>1. PICK c \in Active : Mine(c) = n
        BY <3>2
      <4>2. c \in Clients /\ ~At(c, "idle") /\ op[c].kind = "tag"
        BY <2>1, <4>1 DEF Active
      <4>3. op[c].alone
        BY <2>1, <4>1, <4>2 DEF StoreInv, Marked
      <4> QED BY <2>1, <4>1, <4>2, <4>3 DEF StoreInv, Alone, TagAlone
    <3> QED BY <3>1, <3>2
  <2>4. \A c \in Clients : Spares(c, n)'
    BY <1>1 DEF Spares, IdleOp, Removing, Writes
  <2> QED BY <1>1, <2>3, <2>4 DEF Whole
<1> QED BY <1>1, <1>4, <1>6, <1>7, <1>8, EmptyIndex DEF StoreInv

(* A bundle is made of a model that is whole. *)
LEMMA MakeBundleKeeps ==
  ASSUME StoreInv, NEW m \in Models, MakeBundle(m)
  PROVE  StoreInv'
<1>1. /\ index' = index /\ manifests' = manifests /\ blobs' = blobs /\ bundles' = bundles \cup {m}
      /\ hasLayout' = hasLayout /\ up' = up /\ up /\ started' = started /\ op' = op
      /\ m \in DOMAIN index /\ ConfigOf[m] \in blobs
      /\ hurt' = hurt \cup {x \in {m} : \E c \in Active : Mine(c) = x}
  BY DEF MakeBundle, Readable
<1>2. hurt \subseteq hurt' /\ hurt' \subseteq Models
  BY <1>1 DEF StoreInv, TypeOK
<1>3. TypeOK'
  BY <1>1, <1>2 DEF StoreInv, TypeOK
<1>4. Apart' /\ Marked'
  BY <1>1, <1>2 DEF StoreInv, Apart, Marked, At, Mine
<1>5. \A n : Whole(n) => Whole(n)'
  BY <1>1 DEF Whole
<1>6. ASSUME NoReset' PROVE Kept'
  <2>1. NoReset /\ Active' = Active
    BY <1>1, <1>6 DEF NoReset, Active, At
  <2>2. \A n \in Models \ hurt' : (\A c \in Active' : Mine(c)' # n) => Whole(n)'
    BY <1>1, <1>2, <1>5, <2>1 DEF StoreInv, Kept, Mine
  <2>3. ASSUME NEW n \in Models \ hurt', NEW c \in Clients, Mine(c)' # n PROVE Spares(c, n)'
    <3>1. Spares(c, n)
      BY <1>1, <1>2, <2>1, <2>3 DEF StoreInv, Kept, Mine
    <3> QED BY <1>1, <3>1 DEF Spares, Mine
  <2> QED BY <2>2, <2>3 DEF Kept
<1>7. ASSUME NEW c \in Clients, op'[c].alone PROVE Alone(c)'
  <2>1. Alone(c) /\ Shape(op[c])
    BY <1>1, <1>7 DEF StoreInv
  <2>2. CASE op[c] = IdleOp
    BY <1>1, <1>7, <2>2 DEF IdleOp
  <2>3. CASE op[c] # IdleOp
    <3>1. c \in Active
      BY <2>1, <2>3, IdleShape DEF Active, At
    <3>2. Mine(c) = m => m \in hurt'
      BY <1>1, <3>1
    <3>3. TagAlone(c)' /\ DeleteAlone(c)'
      BY <1>1, <1>2, <1>5, <2>1, <3>2 DEF Alone, TagAlone, DeleteAlone, Mine, At
    <3>4. FillAlone(c)'
      BY <1>1, <1>2, <1>5, <2>1, <3>2 DEF Alone, FillAlone, Mine, At
    <3>5. WriteAlone(c)'
      BY <1>1, <1>2, <1>5, <2>1, <3>2 DEF Alone, WriteAlone, Mine, At
    <3>6. ResetAlone(c)'
      BY <1>1, <2>1 DEF Alone, ResetAlone, Mine, At
    <3> QED BY <3>3, <3>4, <3>5, <3>6 DEF Alone
  <2> QED BY <2>2, <2>3
<1> QED BY <1>1, <1>3, <1>4, <1>6, <1>7 DEF StoreInv

(* A reset removes everything, part after part. *)
LEMMA RemovePartKeeps ==
  ASSUME StoreAssumption, StoreInv, NEW c \in Clients, NEW i \in DOMAIN Parts, RemovePart(c, i)
  PROVE  StoreInv'
<1>1. /\ DOMAIN Parts = 1 .. 5
      /\ Parts[1] = "blobs" /\ Parts[2] = "bundles" /\ Parts[3] = "layout.json"
      /\ Parts[4] = "manifests" /\ Parts[5] = "models.json"
  BY DEF Parts
<1>2. /\ op[c].kind = "reset" /\ op[c].pc = Parts[i] /\ op[c].model = NoModel /\ op[c].made = {}
      /\ op[c] # IdleOp /\ op[c] \in OpRecord(op[c]) /\ ~At(c, "idle")
  BY <1>1, IdleShape DEF RemovePart, At, StoreInv, Shape, IdleOp, Writes, TypeOK
<1>3. up /\ up' = up /\ started' = started
  BY <1>2 DEF RemovePart, StoreInv
<1>4. /\ IdleOp.snap = NoIndex /\ IdleOp.init = NoIndex /\ ~IdleOp.alone /\ Shape(IdleOp)
      /\ IdleOp.pc = "idle"
  BY DEF IdleOp, Shape
<1>5. IdleOp \in OpRecord(IdleOp)
  BY DEF IdleOp, OpRecord, Places
(* It ends: with a failure, or with everything removed. *)
<1>6. ASSUME End(c), IsIndex(index'), Good(index'),
             manifests' \subseteq Models, bundles' \subseteq Models, blobs' \subseteq Blobs, hasLayout' \in BOOLEAN,
             \/ hurt' = Models
             \/ /\ op[c].alone /\ hurt' = {}
                /\ DOMAIN index' = {} /\ manifests' = {} /\ bundles' = {}
      PROVE  StoreInv'
  <2>1. /\ DOMAIN op' = Clients /\ op'[c] = IdleOp
        /\ \A d \in Clients : d # c => op'[d] = op[d] /\ ~op[d].alone
    <3>1. DOMAIN op' = Clients /\ op'[c] = IdleOp /\ \A d \in Clients : d # c => op'[d] = op[d]
      BY <1>6 DEF End, StoreInv
    <3>2. ASSUME NEW d \in Clients, d # c PROVE ~op[d].alone
      <4>1. CASE At(d, "idle")
        BY <1>4, <4>1, IdleShape DEF StoreInv, At
      <4>2. CASE ~At(d, "idle")
        BY <1>2, <3>2, <4>2 DEF StoreInv, Marked
      <4> QED BY <4>1, <4>2
    <3> QED BY <3>1, <3>2
  <2>2. TypeOK'
    <3>1. ASSUME NEW d \in Clients PROVE OpTyped(d)'
      <4>1. CASE d = c
        BY <1>4, <1>5, <2>1, <4>1, EmptyIndex DEF OpTyped
      <4>2. CASE d # c
        BY <2>1, <4>2 DEF OpTyped, StoreInv, TypeOK
      <4> QED BY <4>1, <4>2
    <3> QED BY <1>3, <1>6, <3>1 DEF OpTyped, StoreInv, TypeOK
  <2>3. Apart'
    <3>1. \A t \in Normal : Canon[t] = t
      BY DEF StoreAssumption, Normal
    <3>2. ASSUME NEW m \in DOMAIN index' PROVE {Canon[t] : t \in index'[m]} = index'[m]
      BY <1>6, <3>1 DEF Good
    <3> QED BY <1>6, <3>2 DEF Good, Apart
  <2>4. ASSUME NEW d \in Clients PROVE OpSound(d)'
    <3>1. CASE d = c
      BY <1>4, <2>1, <3>1, EmptyIndex DEF OpSound
    <3>2. CASE d # c
      BY <2>1, <3>2 DEF OpSound, StoreInv
    <3> QED BY <3>1, <3>2
  <2>5. ASSUME op[c].alone PROVE \A d \in Clients : op'[d] = IdleOp
    BY <1>2, <2>1, <2>5, IdleShape DEF StoreInv, Marked, At
  <2>6. Marked'
    <3>1. CASE hurt' = Models
      BY <1>4, <2>1, <3>1 DEF Marked, At, Mine
    <3>2. CASE op[c].alone
      BY <1>4, <2>5, <3>2 DEF Marked, At
    <3> QED BY <1>6, <3>1, <3>2
  <2>7. Kept'
    <3>1. CASE hurt' = Models
      BY <3>1 DEF Kept
    <3>2. CASE op[c].alone /\ DOMAIN index' = {} /\ manifests' = {} /\ bundles' = {}
      <4>1. \A n : Whole(n)'
        BY <3>2 DEF Whole
      <4>2. \A d \in Clients : \A n \in Models : Spares(d, n)'
        BY <2>5, <3>2 DEF Spares, IdleOp, Removing, Writes
      <4> QED BY <4>1, <4>2 DEF Kept
    <3> QED BY <1>6, <3>1, <3>2
  <2>8. \A d \in Clients : ~op'[d].alone
    BY <1>4, <2>1
  <2> QED BY <1>3, <1>6, <2>1, <2>2, <2>3, <2>4, <2>6, <2>7, <2>8 DEF StoreInv, OpSound
<1>7. CASE hurt' = Models /\ End(c) /\ UNCHANGED disk
  <2>1. /\ index' = index /\ manifests' = manifests /\ bundles' = bundles /\ blobs' = blobs
        /\ hasLayout' = hasLayout
    BY <1>7 DEF disk, files
  <2> QED BY <1>3, <1>6, <1>7, <2>1 DEF StoreInv, TypeOK
<1>8. CASE i = 5 /\ ~(hurt' = Models /\ End(c) /\ UNCHANGED disk)
  <2>1. /\ blobs' = blobs /\ bundles' = bundles /\ manifests' = manifests
        /\ hasLayout' \in BOOLEAN
        /\ index' = NoIndex /\ hurt' = (IF op[c].alone THEN {} ELSE Models) /\ End(c)
    BY <1>1, <1>8 DEF RemovePart
  <2>2. op[c].alone => manifests = {} /\ bundles = {}
    BY <1>1, <1>2, <1>8 DEF StoreInv, Alone, ResetAlone, At
  <2> QED BY <1>6, <2>1, <2>2, EmptyIndex DEF StoreInv, TypeOK
(* It goes on to the next part. *)
<1>9. CASE i # 5 /\ ~(hurt' = Models /\ End(c) /\ UNCHANGED disk)
  <2>1. /\ blobs' = IF i = 1 THEN {} ELSE blobs
        /\ bundles' = IF i = 2 THEN {} ELSE bundles
        /\ manifests' = IF i = 4 THEN {} ELSE manifests
        /\ hasLayout' \in BOOLEAN
        /\ index' = index /\ hurt' = hurt
        /\ op' = [op EXCEPT ![c].pc = Parts[i + 1]]
    <3>1. /\ Parts[i] = "blobs" <=> i = 1
          /\ Parts[i] = "bundles" <=> i = 2
          /\ Parts[i] = "manifests" <=> i = 4
          /\ Parts[i] # "models.json"
      BY <1>1, <1>9
    <3>2. (hasLayout /\ Parts[i] # "layout.json") \in BOOLEAN
      BY DEF StoreInv, TypeOK
    <3> QED BY <1>9, <3>1, <3>2 DEF RemovePart, Go
  <2> DEFINE p == op'[c]
  <2>2. /\ p \in OpRecord(p) /\ p.pc = Parts[i + 1]
        /\ p.kind = "reset" /\ p.model = NoModel /\ p.made = {} /\ p.alone = op[c].alone
        /\ p.snap = op[c].snap /\ p.init = op[c].init
        /\ DOMAIN op' = Clients /\ \A d \in Clients : d # c => op'[d] = op[d]
    <3>1. Parts[i + 1] \in Places
      BY <1>1, <1>9 DEF Places
    <3>2. /\ p = [op[c] EXCEPT !.pc = Parts[i + 1]]
          /\ DOMAIN op' = Clients /\ \A d \in Clients : d # c => op'[d] = op[d]
      BY <2>1 DEF StoreInv
    <3> QED BY <1>2, <3>1, <3>2 DEF OpRecord
  <2> HIDE DEF p
  <2>3. TypeOK'
    <3>1. ASSUME NEW d \in Clients PROVE OpTyped(d)'
      <4>1. CASE d = c
        BY <2>2, <4>1 DEF p, OpTyped, StoreInv, TypeOK
      <4>2. CASE d # c
        BY <2>2, <4>2 DEF OpTyped, StoreInv, TypeOK
      <4> QED BY <4>1, <4>2
    <3>2. /\ manifests' \subseteq Models /\ bundles' \subseteq Models /\ blobs' \subseteq Blobs
      BY <2>1 DEF StoreInv, TypeOK
    <3> QED BY <1>3, <2>1, <3>1, <3>2 DEF OpTyped, StoreInv, TypeOK
  <2>4. Apart' /\ Good(index')
    BY <1>3, <2>1 DEF StoreInv, Apart
  <2>5. p.pc \in {"bundles", "layout.json", "manifests", "models.json"}
    BY <1>1, <1>9, <2>2
  <2>6. ASSUME NEW d \in Clients PROVE OpSound(d)'
    <3>1. CASE d = c
      BY <2>2, <2>5, <3>1 DEF p, OpSound, StoreInv, Shape
    <3>2. CASE d # c
      BY <2>2, <3>2 DEF OpSound, StoreInv
    <3> QED BY <3>1, <3>2
  <2>7. Marked'
    BY <1>2, <2>1, <2>2, <2>5 DEF p, StoreInv, Marked, At, Mine
  <2>8. ~NoReset'
    BY <2>2 DEF p, NoReset
  <2>9. ASSUME NEW d \in Clients, op'[d].alone PROVE Alone(d)'
    <3>1. d = c
      BY <1>2, <2>2, <2>9 DEF StoreInv, Marked, At, IdleOp, Shape
    <3>2. Alone(c)
      BY <2>2, <2>9, <3>1 DEF p, StoreInv
    <3>3. ResetAlone(c)'
      BY <1>1, <1>2, <1>9, <2>1, <2>2, <3>2 DEF p, Alone, ResetAlone, At
    <3>4. TagAlone(c)' /\ DeleteAlone(c)' /\ FillAlone(c)' /\ WriteAlone(c)'
      BY <2>2 DEF p, TagAlone, DeleteAlone, FillAlone, WriteAlone, Writes
    <3> QED BY <3>1, <3>3, <3>4 DEF Alone
  <2> QED BY <1>3, <2>2, <2>3, <2>4, <2>6, <2>7, <2>8, <2>9 DEF StoreInv, OpSound
<1> QED BY <1>7, <1>8, <1>9

(***************************************************************************)
(* The steps of an operation                                               *)
(***************************************************************************)
(* What is known of an operation under way. *)
LEMMA Busy ==
  ASSUME StoreInv, NEW c \in Clients, ~At(c, "idle")
  PROVE  /\ up /\ DiskTyped /\ DOMAIN op = Clients /\ Good(index) /\ IsIndex(index)
         /\ op[c] # IdleOp /\ Shape(op[c]) /\ OpTyped(c) /\ OpSound(c)
         /\ op[c].alone => Alone(c)
<1>1. op[c] # IdleOp
  BY DEF At, IdleOp
<1> QED BY <1>1 DEF StoreInv, TypeOK, DiskTyped, OpTyped, OpSound

(* An operation that ends leaves an idle client. *)
LEMMA EndKeeps ==
  ASSUME StoreAssumption, StoreInv, NEW c \in Clients, ~At(c, "idle"), op[c].kind # "reset",
         End(c), up' = up, started' = started, DiskTyped', Good(index'),
         IF op[c].alone THEN hurt \subseteq hurt' \cup {Mine(c)} ELSE hurt \subseteq hurt',
         NoReset => \A n \in Models \ hurt' : n # Mine(c) => Untouched(n),
         op[c].alone => \A n \in Models \ hurt' : n = Mine(c) => Whole(n)'
  PROVE  StoreInv'
<1>1. op'[c] = IdleOp /\ DOMAIN op' = Clients /\ \A d \in Clients \ {c} : op'[d] = op[d]
  BY DEF End, StoreInv
<1>2. IdleOp.snap = NoIndex /\ IdleOp.init = NoIndex /\ Shape(IdleOp)
  BY DEF IdleOp, Shape
<1>3. IdleOp \in OpRecord(IdleOp)
  BY DEF IdleOp, OpRecord, Places
<1>4. OpTyped(c)' /\ OpSound(c)'
  BY <1>1, <1>2, <1>3, EmptyIndex DEF OpTyped, OpSound
<1>5. \A n : Spares(c, n)'
  BY <1>1 DEF Spares, IdleOp, Removing, Writes
<1>6. Works(c)
  BY <1>1, <1>4, <1>5, Zenon DEF Works
<1> QED BY <1>6, WorkKeeps

(* Nothing changes on the disk. *)
LEMMA SameDisk ==
  ASSUME StoreInv, up, UNCHANGED <<disk, up, started>>, hurt' = hurt
  PROVE  /\ DiskTyped' /\ Good(index') /\ up' = up /\ started' = started
         /\ index' = index /\ manifests' = manifests /\ bundles' = bundles /\ blobs' = blobs
         /\ \A n : Untouched(n) /\ (Whole(n) <=> Whole(n)')
<1>1. /\ index' = index /\ manifests' = manifests /\ bundles' = bundles /\ blobs' = blobs
      /\ hasLayout' = hasLayout /\ up' = up /\ started' = started
  BY DEF disk, files
<1> QED BY <1>1 DEF StoreInv, TypeOK, DiskTyped, Untouched, Whole

(* A write reads the index it will restore. *)
LEMMA BeginWriteKeeps ==
  ASSUME StoreAssumption, StoreInv, NEW c \in Clients, BeginWrite(c)
  PROVE  StoreInv'
<1> DEFINE o == op[c]
           p == op'[c]
<1>1. /\ ~At(c, "idle") /\ o.kind \in Writes /\ o.kind # "reset" /\ o.pc = "write"
      /\ o.made = {} /\ o.model \in Models
  BY DEF BeginWrite, At, StoreInv, Shape, IdleOp, Writes
<1>2. /\ p = [o EXCEPT !.init = index, !.pc = "config"] /\ DOMAIN op' = Clients
      /\ \A d \in Clients \ {c} : op'[d] = op[d]
  BY DEF BeginWrite, StoreInv
<1>3. /\ p \in OpRecord(p) /\ p.kind = o.kind /\ p.pc = "config" /\ p.model = o.model
      /\ p.tag = o.tag
      /\ p.snap = o.snap /\ p.init = index /\ p.made = o.made /\ p.existed = o.existed
      /\ p.failed = o.failed /\ p.todo = o.todo /\ p.alone = o.alone
  <2>1. o \in OpRecord(o) /\ "config" \in Places
    BY DEF StoreInv, TypeOK, Places
  <2> QED BY <1>2, <2>1 DEF OpRecord
<1>4. /\ DiskTyped' /\ Good(index') /\ up' = up /\ started' = started /\ hurt' = hurt
      /\ index' = index /\ manifests' = manifests /\ bundles' = bundles /\ blobs' = blobs
      /\ \A n : Untouched(n) /\ (Whole(n) <=> Whole(n)')
  BY <1>1, Busy, SameDisk DEF BeginWrite
<1> HIDE DEF p
<1>5. OpTyped(c)' /\ OpSound(c)' /\ p # IdleOp
  BY <1>1, <1>3, Busy DEF p, OpTyped, OpSound, Shape, IdleOp
<1>6. ASSUME NEW n PROVE Spares(c, n)'
  BY <1>1, <1>3, <1>4 DEF p, Spares, Removing, Mine
<1>7. ASSUME op[c].alone PROVE Alone(c)'
  <2>1. Alone(c)
    BY <1>1, <1>7, Busy
  <2>2. TagAlone(c)' /\ DeleteAlone(c)' /\ ResetAlone(c)'
    BY <1>1, <1>3 DEF p, TagAlone, DeleteAlone, ResetAlone, Writes
  <2>3. FillAlone(c)'
    BY <1>1, <1>3, <1>4, <2>1 DEF p, Alone, FillAlone, Mine, At
  <2>4. WriteAlone(c)'
    BY <1>1, <1>3, <1>4, <2>1 DEF p, Alone, WriteAlone, Mine, At
  <2> QED BY <2>2, <2>3, <2>4 DEF Alone
<1>8. Works(c)
  BY <1>1, <1>2, <1>3, <1>4, <1>5, <1>6, <1>7 DEF p, Works
<1> QED BY <1>1, <1>8, WorkKeeps

(* An operation ends and leaves the disk alone. *)
LEMMA EndsSame ==
  ASSUME StoreAssumption, StoreInv, NEW c \in Clients, ~At(c, "idle"), op[c].kind # "reset",
         End(c), UNCHANGED <<disk, up, started, hurt>>,
         op[c].alone /\ Mine(c) \in Models \ hurt => Whole(Mine(c))
  PROVE  StoreInv'
<1>1. /\ DiskTyped' /\ Good(index') /\ up' = up /\ started' = started /\ hurt' = hurt
      /\ \A n : Untouched(n) /\ (Whole(n) <=> Whole(n)')
  BY Busy, SameDisk
<1> QED BY <1>1, EndKeeps

(* A write fails: its model is as it was. *)
LEMMA UndoKeeps ==
  ASSUME StoreAssumption, StoreInv, NEW c \in Clients,
         op[c].pc \in {"config", "layers", "manifest", "tagRead", "tagWrite"},
         op[c].kind \in Writes,
         Undo(c),
         UNCHANGED <<disk, up, started>>,
         hurt' = hurt
  PROVE  StoreInv'
<1> DEFINE o == op[c]
           p == op'[c]
<1>1. /\ ~At(c, "idle") /\ o.kind # "reset" /\ o.kind \in Writes
      /\ o.pc \in {"config", "layers", "manifest", "tagRead", "tagWrite"}
  BY DEF At, StoreInv, Shape, IdleOp, Writes
<1>2. /\ up /\ DiskTyped /\ DOMAIN op = Clients /\ Good(index) /\ IsIndex(index)
      /\ Shape(o) /\ OpTyped(c) /\ OpSound(c) /\ (o.alone => Alone(c))
  BY <1>1, Busy
<1>3. /\ p = [o EXCEPT !.pc = "undo", !.failed = TRUE] /\ DOMAIN op' = Clients
      /\ \A d \in Clients \ {c} : op'[d] = op[d]
  BY <1>2 DEF Undo
<1>4. /\ p \in OpRecord(p)
      /\ p.kind = o.kind /\ p.pc = "undo" /\ p.model = o.model /\ p.tag = o.tag /\ p.snap = o.snap
      /\ p.init = o.init /\ p.made = o.made /\ p.existed = o.existed /\ p.failed = TRUE
      /\ p.todo = o.todo /\ p.alone = o.alone
  <2>1. o \in OpRecord(o) /\ "undo" \in Places
    BY <1>2 DEF OpTyped, Places
  <2> QED BY <1>1, <1>3, <2>1 DEF OpRecord
<1>5. /\ DiskTyped' /\ Good(index') /\ up' = up /\ started' = started /\ hurt' = hurt
      /\ index' = index /\ manifests' = manifests /\ bundles' = bundles /\ blobs' = blobs
      /\ \A n : Untouched(n) /\ (Whole(n) <=> Whole(n)')
  BY <1>2, SameDisk
<1> HIDE DEF p
<1>6. OpTyped(c)' /\ OpSound(c)' /\ p # IdleOp
  BY <1>1, <1>2, <1>4 DEF p, OpTyped, OpSound, Shape, IdleOp, Writes
<1>7. ASSUME NoReset, NEW n \in Models \ hurt', n # Mine(c) PROVE Spares(c, n)'
  <2>1. Spares(c, n)
    BY <1>2, <1>1, <1>4, <1>5, <1>7 DEF StoreInv, Kept, Mine
  <2> QED BY <1>1, <1>4, <1>5, <1>7, <2>1 DEF p, Spares, Removing, Mine, Untouched, Writes
<1>8. ASSUME op[c].alone PROVE Alone(c)'
  <2>1. Alone(c)
    BY <1>2, <1>8
  <2>2. TagAlone(c)' /\ DeleteAlone(c)' /\ ResetAlone(c)'
    BY <1>1, <1>4 DEF p, TagAlone, DeleteAlone, ResetAlone, Writes
  <2>3. FillAlone(c)'
    BY <1>1, <1>2, <1>4, <1>5, <2>1 DEF p, Alone, Mine, At, FillAlone
  <2>4. WriteAlone(c)'
    BY <1>1, <1>2, <1>4, <1>5, <2>1
       DEF p, Alone, Mine, At, WriteAlone, FillAlone, Shape, IdleOp, Writes
  <2> QED BY <2>2, <2>3, <2>4 DEF Alone
<1>9. Works(c)
  BY <1>1, <1>3, <1>4, <1>5, <1>6, <1>7, <1>8 DEF p, Works
<1> QED BY <1>1, <1>9, WorkKeeps

(* The config is there; what is new of it is on the list of what to undo. *)
LEMMA ConfigKeeps ==
  ASSUME StoreAssumption, StoreInv, NEW c \in Clients,
         At(c, "config"),
         blobs' = blobs \cup {ConfigOf[Mine(c)]},
         op[c].kind = "light" => LayersOf[Mine(c)] \subseteq blobs,
         op' = [op EXCEPT
                 ![c].made = IF ConfigOf[Mine(c)] \notin blobs THEN {"config"} ELSE {},
                 ![c].pc = IF op[c].kind = "light" THEN "manifest" ELSE "layers",
                 ![c].todo = IF op[c].kind = "light" THEN {} ELSE LayersOf[Mine(c)]],
         UNCHANGED <<index, manifests, bundles, hasLayout, up, started, hurt>>
  PROVE  StoreInv'
<1> DEFINE o == op[c]
           p == op'[c]
           made == IF ConfigOf[Mine(c)] \notin blobs THEN {"config"} ELSE {}
           next == IF o.kind = "light" THEN "manifest" ELSE "layers"
           todo == IF o.kind = "light" THEN {} ELSE LayersOf[Mine(c)]
<1>1. /\ ~At(c, "idle") /\ o.kind # "reset" /\ o.pc = "config" /\ o.kind \in Writes
      /\ o.model \in Models /\ o.made = {} /\ ~o.failed
  BY DEF At, StoreInv, Shape, IdleOp, Writes
<1>2. /\ up /\ DiskTyped /\ DOMAIN op = Clients /\ Good(index) /\ IsIndex(index)
      /\ Shape(o) /\ OpTyped(c) /\ OpSound(c) /\ (o.alone => Alone(c))
  BY <1>1, Busy
<1>3. /\ made \in SUBSET {"config"} /\ next \in {"manifest", "layers"}
      /\ (next = "manifest" <=> o.kind = "light")
  BY <1>1
<1>4. ConfigOf[o.model] \in Blobs /\ LayersOf[o.model] \in SUBSET Blobs
  BY <1>1 DEF Blobs, FilesOf
<1>5. todo \in SUBSET Blobs
  BY <1>4 DEF Mine
<1>6. /\ (~(o.kind = "light") => todo = LayersOf[o.model])
      /\ (o.kind = "light" => todo = {} /\ LayersOf[o.model] \subseteq blobs)
      /\ (made = {} \/ ConfigOf[o.model] \notin blobs)
  BY <1>1 DEF Mine
<1>7. /\ p = [o EXCEPT !.made = made, !.pc = next, !.todo = todo] /\ DOMAIN op' = Clients
      /\ \A d \in Clients \ {c} : op'[d] = op[d]
  BY <1>2
<1>8. /\ p \in OpRecord(p)
      /\ p.kind = o.kind /\ p.pc = next /\ p.model = o.model /\ p.tag = o.tag /\ p.snap = o.snap
      /\ p.init = o.init /\ p.made = made /\ p.existed = o.existed /\ p.failed = o.failed
      /\ p.todo = todo /\ p.alone = o.alone
  <2>1. o \in OpRecord(o) /\ next \in Places
    BY <1>2 DEF OpTyped, Places
  <2> QED BY <1>1, <1>3, <1>4, <1>5, <1>6, <1>7, <2>1 DEF OpRecord
<1>9. /\ index' = index /\ manifests' = manifests /\ bundles' = bundles /\ hurt' = hurt
      /\ blobs' = blobs \cup {ConfigOf[o.model]} /\ hasLayout' = hasLayout /\ up' = up
      /\ started' = started
  BY DEF Mine
<1>10. /\ DiskTyped' /\ Good(index') /\ up' = up /\ started' = started
       /\ (IF o.alone THEN hurt \subseteq hurt' \cup {Mine(c)} ELSE hurt \subseteq hurt')
  BY <1>1, <1>2, <1>3, <1>4, <1>5, <1>6, <1>9 DEF DiskTyped, OpSound, OpTyped, Mine, Blobs
<1>11. ASSUME NoReset, NEW n \in Models \ hurt', n # Mine(c) PROVE Untouched(n)
  BY <1>9, <1>11 DEF Untouched
<1> HIDE DEF p, made, next, todo
<1>12. OpTyped(c)' /\ OpSound(c)' /\ p # IdleOp
  <2>1. Shape(p)
    BY <1>1, <1>2, <1>3, <1>4, <1>5, <1>6, <1>8 DEF Shape, IdleOp, Writes
  <2>2. p # IdleOp
    BY <1>1, <1>3, <1>4, <1>5, <1>6, <1>8 DEF IdleOp
  <2> QED BY <1>1, <1>2, <1>3, <1>4, <1>5, <1>6, <1>8, <2>1, <2>2 DEF p, OpTyped, OpSound
<1>13. ASSUME NoReset, NEW n \in Models \ hurt', n # Mine(c) PROVE Spares(c, n)'
  <2>1. Spares(c, n) /\ Whole(n)
    BY <1>1, <1>2, <1>9, <1>10, <1>11, <1>13, OthersWhole DEF StoreInv, Kept, Mine
  <2>2. n \in DOMAIN index => ConfigOf[o.model] \in blobs \/ ConfigOf[o.model] \notin FilesOf(n)
    BY <2>1 DEF Whole
  <2> QED BY <1>1, <1>3, <1>4, <1>5, <1>6, <1>8, <1>9, <1>10, <1>11, <1>13, <2>1, <2>2
     DEF p, Spares, Removing, Mine, Writes
<1>14. ASSUME op[c].alone PROVE Alone(c)'
  <2>1. Alone(c)
    BY <1>2, <1>14
  <2>2. TagAlone(c)' /\ DeleteAlone(c)' /\ ResetAlone(c)'
    BY <1>1, <1>8 DEF p, TagAlone, DeleteAlone, ResetAlone, Writes
  <2>3. FillAlone(c)'
    BY <1>1, <1>2, <1>3, <1>4, <1>5, <1>6, <1>8, <1>9, <1>10, <1>11, <2>1
       DEF p, Alone, Mine, At, FillAlone, FilesOf, Whole, Writes
  <2>4. WriteAlone(c)'
    BY <1>1, <1>2, <1>3, <1>4, <1>5, <1>6, <1>8, <1>9, <1>10, <1>11, <2>1
       DEF p, Alone, Mine, At, WriteAlone, FillAlone, FilesOf, Whole, Writes
  <2> QED BY <2>2, <2>3, <2>4 DEF Alone
<1>15. Works(c)
  BY <1>1, <1>7, <1>8, <1>9, <1>10, <1>11, <1>12, <1>13, <1>14 DEF p, Works
<1> QED BY <1>1, <1>15, WorkKeeps

(* A layer is there. *)
LEMMA LayerKeeps ==
  ASSUME StoreAssumption, StoreInv, NEW c \in Clients, NEW l \in op[c].todo,
         At(c, "layers"),
         blobs' = blobs \cup {l},
         op' = [op EXCEPT ![c].todo = @ \ {l}],
         UNCHANGED <<index, manifests, bundles, hasLayout, up, started, hurt>>
  PROVE  StoreInv'
<1> DEFINE o == op[c]
           p == op'[c]
<1>1. /\ ~At(c, "idle") /\ o.kind # "reset" /\ o.pc = "layers"
      /\ o.kind \in Writes \cup {"load"} /\ o.model \in Models
      /\ o.made \subseteq {"config"}
  BY DEF At, StoreInv, Shape, IdleOp, Writes
<1>2. /\ up /\ DiskTyped /\ DOMAIN op = Clients /\ Good(index) /\ IsIndex(index)
      /\ Shape(o) /\ OpTyped(c) /\ OpSound(c) /\ (o.alone => Alone(c))
  BY <1>1, Busy
<1>3. l \in Blobs
  BY <1>2 DEF OpTyped, OpRecord
<1>4. /\ p = [o EXCEPT !.todo = o.todo \ {l}] /\ DOMAIN op' = Clients
      /\ \A d \in Clients \ {c} : op'[d] = op[d]
  BY <1>2
<1>5. /\ p \in OpRecord(p)
      /\ p.kind = o.kind /\ p.pc = o.pc /\ p.model = o.model /\ p.tag = o.tag /\ p.snap = o.snap
      /\ p.init = o.init /\ p.made = o.made /\ p.existed = o.existed /\ p.failed = o.failed
      /\ p.todo = o.todo \ {l} /\ p.alone = o.alone
  <2>1. o \in OpRecord(o)
    BY <1>2 DEF OpTyped
  <2> QED BY <1>1, <1>3, <1>4, <2>1 DEF OpRecord
<1>6. /\ index' = index /\ manifests' = manifests /\ bundles' = bundles /\ hurt' = hurt
      /\ blobs' = blobs \cup {l} /\ hasLayout' = hasLayout /\ up' = up /\ started' = started
  BY <1>1
<1>7. /\ DiskTyped' /\ Good(index') /\ up' = up /\ started' = started
      /\ (IF o.alone THEN hurt \subseteq hurt' \cup {Mine(c)} ELSE hurt \subseteq hurt')
  BY <1>1, <1>2, <1>3, <1>6 DEF DiskTyped, OpSound, OpTyped, Mine, Blobs
<1>8. ASSUME NoReset, NEW n \in Models \ hurt', n # Mine(c) PROVE Untouched(n)
  BY <1>6, <1>8 DEF Untouched
<1> HIDE DEF p
<1>9. OpTyped(c)' /\ OpSound(c)' /\ p # IdleOp
  <2>1. Shape(p)
    BY <1>1, <1>2, <1>3, <1>5 DEF Shape, IdleOp, Writes
  <2>2. p # IdleOp
    BY <1>1, <1>3, <1>5 DEF IdleOp
  <2> QED BY <1>1, <1>2, <1>3, <1>5, <2>1, <2>2 DEF p, OpTyped, OpSound
<1>10. ASSUME NoReset, NEW n \in Models \ hurt', n # Mine(c) PROVE Spares(c, n)'
  <2>1. Spares(c, n)
    BY <1>2, <1>1, <1>5, <1>6, <1>7, <1>8, <1>10 DEF StoreInv, Kept, Mine
  <2> QED BY <1>1, <1>5, <1>6, <1>7, <1>8, <1>10, <2>1
     DEF p, Spares, Removing, Mine, Untouched, Writes
<1>11. ASSUME op[c].alone PROVE Alone(c)'
  <2>1. Alone(c)
    BY <1>2, <1>11
  <2>2. TagAlone(c)' /\ DeleteAlone(c)' /\ ResetAlone(c)'
    BY <1>1, <1>5 DEF p, TagAlone, DeleteAlone, ResetAlone, Writes
  <2>3. FillAlone(c)'
    BY <1>1, <1>2, <1>3, <1>5, <1>6, <1>7, <1>8, <2>1
       DEF p, Alone, Mine, At, FillAlone, FilesOf, Whole, Writes
  <2>4. WriteAlone(c)'
    BY <1>1, <1>2, <1>3, <1>5, <1>6, <1>7, <1>8, <2>1
       DEF p, Alone, Mine, At, WriteAlone, FillAlone, FilesOf, Whole, Writes
  <2> QED BY <2>2, <2>3, <2>4 DEF Alone
<1>12. Works(c)
  BY <1>1, <1>4, <1>5, <1>6, <1>7, <1>8, <1>9, <1>10, <1>11 DEF p, Works
<1> QED BY <1>1, <1>12, WorkKeeps

(* A layer could not be fetched; the others are fetched still. *)
LEMMA LayerFails ==
  ASSUME StoreAssumption, StoreInv, NEW c \in Clients, NEW l \in op[c].todo,
         At(c, "layers"),
         op[c].kind # "load",
         op' = [op EXCEPT ![c].todo = @ \ {l}, ![c].failed = TRUE],
         UNCHANGED <<disk, up, started, hurt>>
  PROVE  StoreInv'
<1> DEFINE o == op[c]
           p == op'[c]
<1>1. /\ ~At(c, "idle") /\ o.kind # "reset" /\ o.pc = "layers" /\ o.kind \in Writes
      /\ o.model \in Models /\ o.made \subseteq {"config"}
  BY DEF At, StoreInv, Shape, IdleOp, Writes
<1>2. /\ up /\ DiskTyped /\ DOMAIN op = Clients /\ Good(index) /\ IsIndex(index)
      /\ Shape(o) /\ OpTyped(c) /\ OpSound(c) /\ (o.alone => Alone(c))
  BY <1>1, Busy
<1>3. /\ p = [o EXCEPT !.todo = o.todo \ {l}, !.failed = TRUE] /\ DOMAIN op' = Clients
      /\ \A d \in Clients \ {c} : op'[d] = op[d]
  BY <1>2
<1>4. /\ p \in OpRecord(p)
      /\ p.kind = o.kind /\ p.pc = o.pc /\ p.model = o.model /\ p.tag = o.tag /\ p.snap = o.snap
      /\ p.init = o.init /\ p.made = o.made /\ p.existed = o.existed /\ p.failed = TRUE
      /\ p.todo = o.todo \ {l} /\ p.alone = o.alone
  <2>1. o \in OpRecord(o)
    BY <1>2 DEF OpTyped
  <2> QED BY <1>1, <1>3, <2>1 DEF OpRecord
<1>5. /\ DiskTyped' /\ Good(index') /\ up' = up /\ started' = started /\ hurt' = hurt
      /\ index' = index /\ manifests' = manifests /\ bundles' = bundles /\ blobs' = blobs
      /\ \A n : Untouched(n) /\ (Whole(n) <=> Whole(n)')
  BY <1>2, SameDisk
<1> HIDE DEF p
<1>6. OpTyped(c)' /\ OpSound(c)' /\ p # IdleOp
  <2>1. Shape(p)
    BY <1>1, <1>2, <1>4 DEF Shape, IdleOp, Writes
  <2>2. p # IdleOp
    BY <1>1, <1>4 DEF IdleOp
  <2> QED BY <1>1, <1>2, <1>4, <2>1, <2>2 DEF p, OpTyped, OpSound
<1>7. ASSUME NoReset, NEW n \in Models \ hurt', n # Mine(c) PROVE Spares(c, n)'
  <2>1. Spares(c, n)
    BY <1>2, <1>1, <1>4, <1>5, <1>7 DEF StoreInv, Kept, Mine
  <2> QED BY <1>1, <1>4, <1>5, <1>7, <2>1 DEF p, Spares, Removing, Mine, Untouched, Writes
<1>8. ASSUME op[c].alone PROVE Alone(c)'
  <2>1. Alone(c)
    BY <1>2, <1>8
  <2>2. TagAlone(c)' /\ DeleteAlone(c)' /\ ResetAlone(c)'
    BY <1>1, <1>4 DEF p, TagAlone, DeleteAlone, ResetAlone, Writes
  <2>3. FillAlone(c)'
    BY <1>1, <1>2, <1>4, <1>5, <2>1 DEF p, Alone, Mine, At, FillAlone
  <2>4. WriteAlone(c)'
    BY <1>1, <1>2, <1>4, <1>5, <2>1 DEF p, Alone, Mine, At, WriteAlone, FillAlone
  <2> QED BY <2>2, <2>3, <2>4 DEF Alone
<1>9. Works(c)
  BY <1>1, <1>3, <1>4, <1>5, <1>6, <1>7, <1>8 DEF p, Works
<1> QED BY <1>1, <1>9, WorkKeeps

(* All layers are there. *)
LEMMA LayersDoneKeeps ==
  ASSUME StoreAssumption, StoreInv, NEW c \in Clients,
         At(c, "layers"),
         op[c].todo = {},
         ~op[c].failed,
         Go(c, "manifest"),
         UNCHANGED <<disk, up, started, hurt>>
  PROVE  StoreInv'
<1> DEFINE o == op[c]
           p == op'[c]
<1>1. /\ ~At(c, "idle") /\ o.kind # "reset" /\ o.pc = "layers"
      /\ o.kind \in Writes \cup {"load"} /\ o.model \in Models
      /\ o.made \subseteq {"config"} /\ ~o.failed /\ o.todo = {}
  BY DEF At, StoreInv, Shape, IdleOp, Writes
<1>2. /\ up /\ DiskTyped /\ DOMAIN op = Clients /\ Good(index) /\ IsIndex(index)
      /\ Shape(o) /\ OpTyped(c) /\ OpSound(c) /\ (o.alone => Alone(c))
  BY <1>1, Busy
<1>3. /\ p = [o EXCEPT !.pc = "manifest"] /\ DOMAIN op' = Clients
      /\ \A d \in Clients \ {c} : op'[d] = op[d]
  BY <1>2 DEF Go
<1>4. /\ p \in OpRecord(p)
      /\ p.kind = o.kind /\ p.pc = "manifest" /\ p.model = o.model /\ p.tag = o.tag
      /\ p.snap = o.snap
      /\ p.init = o.init /\ p.made = o.made /\ p.existed = o.existed /\ p.failed = o.failed
      /\ p.todo = o.todo /\ p.alone = o.alone
  <2>1. o \in OpRecord(o) /\ "manifest" \in Places
    BY <1>2 DEF OpTyped, Places
  <2> QED BY <1>1, <1>3, <2>1 DEF OpRecord
<1>5. /\ DiskTyped' /\ Good(index') /\ up' = up /\ started' = started /\ hurt' = hurt
      /\ index' = index /\ manifests' = manifests /\ bundles' = bundles /\ blobs' = blobs
      /\ \A n : Untouched(n) /\ (Whole(n) <=> Whole(n)')
  BY <1>2, SameDisk
<1> HIDE DEF p
<1>6. OpTyped(c)' /\ OpSound(c)' /\ p # IdleOp
  <2>1. Shape(p)
    BY <1>1, <1>2, <1>4 DEF Shape, IdleOp, Writes
  <2>2. p # IdleOp
    BY <1>1, <1>4 DEF IdleOp
  <2> QED BY <1>1, <1>2, <1>4, <2>1, <2>2 DEF p, OpTyped, OpSound
<1>7. ASSUME NoReset, NEW n \in Models \ hurt', n # Mine(c) PROVE Spares(c, n)'
  <2>1. Spares(c, n)
    BY <1>2, <1>1, <1>4, <1>5, <1>7 DEF StoreInv, Kept, Mine
  <2> QED BY <1>1, <1>4, <1>5, <1>7, <2>1 DEF p, Spares, Removing, Mine, Untouched, Writes
<1>8. ASSUME op[c].alone PROVE Alone(c)'
  <2>1. Alone(c)
    BY <1>2, <1>8
  <2>2. TagAlone(c)' /\ DeleteAlone(c)' /\ ResetAlone(c)'
    BY <1>1, <1>4 DEF p, TagAlone, DeleteAlone, ResetAlone, Writes
  <2>3. FillAlone(c)'
    BY <1>1, <1>2, <1>4, <1>5, <2>1 DEF p, Alone, Mine, At, FillAlone
  <2>4. WriteAlone(c)'
    BY <1>1, <1>2, <1>4, <1>5, <2>1 DEF p, Alone, Mine, At, WriteAlone, FillAlone
  <2> QED BY <2>2, <2>3, <2>4 DEF Alone
<1>9. Works(c)
  BY <1>1, <1>3, <1>4, <1>5, <1>6, <1>7, <1>8 DEF p, Works
<1> QED BY <1>1, <1>9, WorkKeeps

(* The manifest is there. *)
LEMMA ManifestKeeps ==
  ASSUME StoreAssumption, StoreInv, NEW c \in Clients,
         At(c, "manifest"),
         LayersOf[Mine(c)] \subseteq blobs,
         manifests' = manifests \cup {Mine(c)},
         op' = [op EXCEPT ![c].pc = "addRead", ![c].existed = Mine(c) \in manifests],
         UNCHANGED <<index, blobs, bundles, hasLayout, up, started, hurt>>
  PROVE  StoreInv'
<1> DEFINE o == op[c]
           p == op'[c]
           known == o.model \in manifests
<1>1. /\ ~At(c, "idle") /\ o.kind # "reset" /\ o.pc = "manifest"
      /\ o.kind \in Writes \cup {"load"} /\ o.model \in Models
      /\ o.made \subseteq {"config"} /\ ~o.failed
  BY DEF At, StoreInv, Shape, IdleOp, Writes
<1>2. /\ up /\ DiskTyped /\ DOMAIN op = Clients /\ Good(index) /\ IsIndex(index)
      /\ Shape(o) /\ OpTyped(c) /\ OpSound(c) /\ (o.alone => Alone(c))
  BY <1>1, Busy
<1>3. known \in BOOLEAN
  OBVIOUS
<1>4. /\ p = [o EXCEPT !.pc = "addRead", !.existed = known] /\ DOMAIN op' = Clients
      /\ \A d \in Clients \ {c} : op'[d] = op[d]
  BY <1>2 DEF Mine
<1>5. /\ p \in OpRecord(p)
      /\ p.kind = o.kind /\ p.pc = "addRead" /\ p.model = o.model /\ p.tag = o.tag
      /\ p.snap = o.snap
      /\ p.init = o.init /\ p.made = o.made /\ p.existed = known /\ p.failed = o.failed
      /\ p.todo = o.todo /\ p.alone = o.alone
  <2>1. o \in OpRecord(o) /\ "addRead" \in Places
    BY <1>2 DEF OpTyped, Places
  <2> HIDE DEF known
  <2> QED BY <1>1, <1>3, <1>4, <2>1 DEF OpRecord
<1>6. /\ index' = index /\ manifests' = manifests \cup {o.model} /\ bundles' = bundles
      /\ hurt' = hurt /\ blobs' = blobs /\ hasLayout' = hasLayout /\ up' = up
      /\ started' = started
  BY DEF Mine
<1>7. /\ DiskTyped' /\ Good(index') /\ up' = up /\ started' = started
      /\ (IF o.alone THEN hurt \subseteq hurt' \cup {Mine(c)} ELSE hurt \subseteq hurt')
  BY <1>1, <1>2, <1>3, <1>6 DEF DiskTyped, OpSound, OpTyped, Mine, Blobs
<1>8. ASSUME NoReset, NEW n \in Models \ hurt', n # Mine(c) PROVE Untouched(n)
  BY <1>1, <1>6, <1>8 DEF Untouched, Mine
<1> HIDE DEF p
<1>9. OpTyped(c)' /\ OpSound(c)' /\ p # IdleOp
  <2>1. Shape(p)
    BY <1>1, <1>2, <1>3, <1>5 DEF Shape, IdleOp, Writes
  <2>2. p # IdleOp
    BY <1>1, <1>3, <1>5 DEF IdleOp
  <2> QED BY <1>1, <1>2, <1>3, <1>5, <2>1, <2>2 DEF p, OpTyped, OpSound
<1>10. ASSUME NoReset, NEW n \in Models \ hurt', n # Mine(c) PROVE Spares(c, n)'
  <2>1. Spares(c, n)
    BY <1>2, <1>1, <1>5, <1>6, <1>7, <1>8, <1>10 DEF StoreInv, Kept, Mine
  <2> QED BY <1>1, <1>5, <1>6, <1>7, <1>8, <1>10, <2>1
     DEF p, Spares, Removing, Mine, Untouched, Writes
<1>11. ASSUME op[c].alone PROVE Alone(c)'
  <2>1. Alone(c)
    BY <1>2, <1>11
  <2>2. TagAlone(c)' /\ DeleteAlone(c)' /\ ResetAlone(c)'
    BY <1>1, <1>5 DEF p, TagAlone, DeleteAlone, ResetAlone, Writes
  <2>3. FillAlone(c)'
    BY <1>1, <1>2, <1>3, <1>5, <1>6, <1>7, <1>8, <2>1
       DEF p, Alone, Mine, At, FillAlone, Whole, Writes
  <2>4. WriteAlone(c)'
    BY <1>1, <1>2, <1>3, <1>5, <1>6, <1>7, <1>8, <2>1
       DEF p, Alone, Mine, At, WriteAlone, FillAlone, Whole, Writes
  <2> QED BY <2>2, <2>3, <2>4 DEF Alone
<1>12. Works(c)
  BY <1>1, <1>4, <1>5, <1>6, <1>7, <1>8, <1>9, <1>10, <1>11 DEF p, Works
<1> QED BY <1>1, <1>12, WorkKeeps

(* The index is read to add the entry. *)
LEMMA AddReadKeeps ==
  ASSUME StoreAssumption, StoreInv, NEW c \in Clients,
         ReadIndexToAdd(c)
  PROVE  StoreInv'
<1> DEFINE o == op[c]
           p == op'[c]
<1>1. /\ ~At(c, "idle") /\ o.kind # "reset" /\ o.pc = "addRead"
      /\ o.kind \in Writes \cup {"load"} /\ o.model \in Models
      /\ o.made \subseteq {"config"} /\ ~o.failed
  BY DEF ReadIndexToAdd, At, StoreInv, Shape, IdleOp, Writes
<1>2. /\ up /\ DiskTyped /\ DOMAIN op = Clients /\ Good(index) /\ IsIndex(index)
      /\ Shape(o) /\ OpTyped(c) /\ OpSound(c) /\ (o.alone => Alone(c))
  BY <1>1, Busy
<1>3. /\ IsIndex(Added(index, o.model)) /\ Good(Added(index, o.model))
      /\ DOMAIN Added(index, o.model) = DOMAIN index \cup {o.model}
  BY <1>1, <1>2, AddedKeeps
<1>4. /\ p = [o EXCEPT !.snap = Added(index, o.model), !.pc = "addWrite"]
      /\ DOMAIN op' = Clients
      /\ \A d \in Clients \ {c} : op'[d] = op[d]
  BY <1>2 DEF ReadIndexToAdd, Mine
<1>5. /\ p \in OpRecord(p)
      /\ p.kind = o.kind /\ p.pc = "addWrite" /\ p.model = o.model /\ p.tag = o.tag
      /\ p.snap = Added(index, o.model)
      /\ p.init = o.init /\ p.made = o.made /\ p.existed = o.existed /\ p.failed = o.failed
      /\ p.todo = o.todo /\ p.alone = o.alone
  <2>1. o \in OpRecord(o) /\ "addWrite" \in Places
    BY <1>2 DEF OpTyped, Places
  <2> QED BY <1>1, <1>3, <1>4, <2>1 DEF OpRecord
<1>6. /\ DiskTyped' /\ Good(index') /\ up' = up /\ started' = started /\ hurt' = hurt
      /\ index' = index /\ manifests' = manifests /\ bundles' = bundles /\ blobs' = blobs
      /\ \A n : Untouched(n) /\ (Whole(n) <=> Whole(n)')
  BY <1>2, SameDisk DEF ReadIndexToAdd
<1> HIDE DEF p
<1>7. OpTyped(c)' /\ OpSound(c)' /\ p # IdleOp
  <2>1. Shape(p)
    BY <1>1, <1>2, <1>3, <1>5 DEF Shape, IdleOp, Writes
  <2>2. p # IdleOp
    BY <1>1, <1>3, <1>5 DEF IdleOp
  <2> QED BY <1>1, <1>2, <1>3, <1>5, <2>1, <2>2 DEF p, OpTyped, OpSound
<1>8. ASSUME NoReset, NEW n \in Models \ hurt', n # Mine(c) PROVE Spares(c, n)'
  <2>1. Spares(c, n)
    BY <1>2, <1>1, <1>5, <1>6, <1>8 DEF StoreInv, Kept, Mine
  <2> QED BY <1>1, <1>3, <1>5, <1>6, <1>8, <2>1 DEF p, Spares, Removing, Mine, Untouched, Writes
<1>9. ASSUME op[c].alone PROVE Alone(c)'
  <2>1. Alone(c)
    BY <1>2, <1>9
  <2>2. TagAlone(c)' /\ DeleteAlone(c)' /\ ResetAlone(c)'
    BY <1>1, <1>5 DEF p, TagAlone, DeleteAlone, ResetAlone, Writes
  <2>3. FillAlone(c)'
    BY <1>1, <1>2, <1>3, <1>5, <1>6, <2>1 DEF p, Alone, Mine, At, FillAlone
  <2>4. WriteAlone(c)'
    BY <1>1, <1>2, <1>3, <1>5, <1>6, <2>1 DEF p, Alone, Mine, At, WriteAlone, FillAlone
  <2> QED BY <2>2, <2>3, <2>4 DEF Alone
<1>10. Works(c)
  BY <1>1, <1>4, <1>5, <1>6, <1>7, <1>8, <1>9 DEF p, Works
<1> QED BY <1>1, <1>10, WorkKeeps

(* A write has entered its model and goes on to tag it. *)
LEMMA AddKeeps ==
  ASSUME StoreAssumption, StoreInv, NEW c \in Clients,
         At(c, "addWrite"),
         op[c].kind \in Writes,
         WriteIndex(op[c].snap),
         op' = [op EXCEPT ![c].pc = "tagRead", ![c].made =
                            @ \cup {"index"} \cup (IF op[c].existed THEN {} ELSE {"manifest"})],
         UNCHANGED <<manifests, hurt, blobs, bundles, up, started>>
  PROVE  StoreInv'
<1> DEFINE o == op[c]
           p == op'[c]
           made == (o.made \cup {"index"} \cup (IF o.existed THEN {} ELSE {"manifest"}))
<1>1. /\ ~At(c, "idle") /\ o.kind # "reset" /\ o.pc = "addWrite" /\ o.kind \in Writes
      /\ o.model \in Models /\ o.made \subseteq {"config"} /\ ~o.failed
  BY DEF At, StoreInv, Shape, IdleOp, Writes
<1>2. /\ up /\ DiskTyped /\ DOMAIN op = Clients /\ Good(index) /\ IsIndex(index)
      /\ Shape(o) /\ OpTyped(c) /\ OpSound(c) /\ (o.alone => Alone(c))
  BY <1>1, Busy
<1>3. /\ made \in SUBSET {"config", "manifest", "index"} /\ "index" \in made
      /\ ("config" \in made <=> "config" \in o.made) /\ ("manifest" \in made <=> ~o.existed)
  BY <1>1, <1>2 DEF OpTyped, OpRecord
<1>4. /\ p = [o EXCEPT !.pc = "tagRead", !.made = made] /\ DOMAIN op' = Clients
      /\ \A d \in Clients \ {c} : op'[d] = op[d]
  BY <1>2
<1>5. /\ p \in OpRecord(p)
      /\ p.kind = o.kind /\ p.pc = "tagRead" /\ p.model = o.model /\ p.tag = o.tag
      /\ p.snap = o.snap
      /\ p.init = o.init /\ p.made = made /\ p.existed = o.existed /\ p.failed = o.failed
      /\ p.todo = o.todo /\ p.alone = o.alone
  <2>1. o \in OpRecord(o) /\ "tagRead" \in Places
    BY <1>2 DEF OpTyped, Places
  <2> QED BY <1>1, <1>3, <1>4, <2>1 DEF OpRecord
<1>6. /\ index' = o.snap /\ manifests' = manifests /\ bundles' = bundles /\ hurt' = hurt
      /\ blobs' = blobs /\ hasLayout' = TRUE /\ up' = up /\ started' = started
  BY DEF WriteIndex
<1>7. /\ DiskTyped' /\ Good(index') /\ up' = up /\ started' = started
      /\ (IF o.alone THEN hurt \subseteq hurt' \cup {Mine(c)} ELSE hurt \subseteq hurt')
  BY <1>1, <1>2, <1>3, <1>6 DEF DiskTyped, OpSound, OpTyped, Mine, Blobs
<1>8. ASSUME NoReset, NEW n \in Models \ hurt', n # Mine(c) PROVE Untouched(n)
  <2>1. Spares(c, n)
    BY <1>6, <1>8 DEF StoreInv, Kept
  <2> QED BY <1>1, <1>6, <1>8, <2>1 DEF Untouched, Spares
<1> HIDE DEF p, made
<1>9. OpTyped(c)' /\ OpSound(c)' /\ p # IdleOp
  <2>1. Shape(p)
    BY <1>1, <1>2, <1>3, <1>5 DEF Shape, IdleOp, Writes
  <2>2. p # IdleOp
    BY <1>1, <1>3, <1>5 DEF IdleOp
  <2> QED BY <1>1, <1>2, <1>3, <1>5, <2>1, <2>2 DEF p, OpTyped, OpSound
<1>10. ASSUME NoReset, NEW n \in Models \ hurt', n # Mine(c) PROVE Spares(c, n)'
  <2>1. Spares(c, n)
    BY <1>2, <1>1, <1>5, <1>6, <1>7, <1>8, <1>10 DEF StoreInv, Kept, Mine
  <2> QED BY <1>1, <1>3, <1>5, <1>6, <1>7, <1>8, <1>10, <2>1
     DEF p, Spares, Removing, Mine, Untouched, Writes
<1>11. ASSUME op[c].alone PROVE Alone(c)'
  <2>1. Alone(c)
    BY <1>2, <1>11
  <2>2. TagAlone(c)' /\ DeleteAlone(c)' /\ ResetAlone(c)'
    BY <1>1, <1>5 DEF p, TagAlone, DeleteAlone, ResetAlone, Writes
  <2>3. FillAlone(c)'
    BY <1>1, <1>2, <1>3, <1>5, <1>6, <1>7, <1>8, <2>1
       DEF p, Alone, Mine, At, FillAlone, Whole, Writes
  <2>4. WriteAlone(c)'
    BY <1>1, <1>2, <1>3, <1>5, <1>6, <1>7, <1>8, <2>1
       DEF p, Alone, Mine, At, WriteAlone, FillAlone, Whole, Writes
  <2> QED BY <2>2, <2>3, <2>4 DEF Alone
<1>12. Works(c)
  BY <1>1, <1>4, <1>5, <1>6, <1>7, <1>8, <1>9, <1>10, <1>11 DEF p, Works
<1> QED BY <1>1, <1>12, WorkKeeps

(* The entry could not be written: the manifest goes again. *)
LEMMA AddFails ==
  ASSUME StoreAssumption, StoreInv, NEW c \in Clients,
         At(c, "addWrite"),
         op[c].kind \in Writes,
         Undo(c),
         manifests' = manifests \ {Mine(c)},
         IF op[c].existed THEN Damage(c) ELSE UNCHANGED hurt,
         UNCHANGED <<index, hasLayout, blobs, bundles, up, started>>
  PROVE  StoreInv'
<1> DEFINE o == op[c]
           p == op'[c]
<1>1. /\ ~At(c, "idle") /\ o.kind # "reset" /\ o.pc = "addWrite" /\ o.kind \in Writes
      /\ o.model \in Models /\ o.made \subseteq {"config"} /\ ~o.failed
  BY DEF At, StoreInv, Shape, IdleOp, Writes
<1>2. /\ up /\ DiskTyped /\ DOMAIN op = Clients /\ Good(index) /\ IsIndex(index)
      /\ Shape(o) /\ OpTyped(c) /\ OpSound(c) /\ (o.alone => Alone(c))
  BY <1>1, Busy
<1>3. /\ p = [o EXCEPT !.pc = "undo", !.failed = TRUE] /\ DOMAIN op' = Clients
      /\ \A d \in Clients \ {c} : op'[d] = op[d]
  BY <1>2 DEF Undo
<1>4. /\ p \in OpRecord(p)
      /\ p.kind = o.kind /\ p.pc = "undo" /\ p.model = o.model /\ p.tag = o.tag /\ p.snap = o.snap
      /\ p.init = o.init /\ p.made = o.made /\ p.existed = o.existed /\ p.failed = TRUE
      /\ p.todo = o.todo /\ p.alone = o.alone
  <2>1. o \in OpRecord(o) /\ "undo" \in Places
    BY <1>2 DEF OpTyped, Places
  <2> QED BY <1>1, <1>3, <2>1 DEF OpRecord
<1>5. /\ index' = index /\ manifests' = manifests \ {o.model} /\ bundles' = bundles
      /\ hurt' = (IF o.existed THEN hurt \cup {o.model} ELSE hurt) /\ blobs' = blobs
      /\ hasLayout' = hasLayout /\ up' = up /\ started' = started
  BY DEF Damage, Mine
<1>6. /\ DiskTyped' /\ Good(index') /\ up' = up /\ started' = started
      /\ (IF o.alone THEN hurt \subseteq hurt' \cup {Mine(c)} ELSE hurt \subseteq hurt')
  BY <1>1, <1>2, <1>5 DEF DiskTyped, OpSound, OpTyped, Mine, Blobs
<1>7. ASSUME NoReset, NEW n \in Models \ hurt', n # Mine(c) PROVE Untouched(n)
  BY <1>1, <1>5, <1>7 DEF Untouched, Mine
<1> HIDE DEF p
<1>8. OpTyped(c)' /\ OpSound(c)' /\ p # IdleOp
  <2>1. Shape(p)
    BY <1>1, <1>2, <1>4 DEF Shape, IdleOp, Writes
  <2>2. p # IdleOp
    BY <1>1, <1>4 DEF IdleOp
  <2> QED BY <1>1, <1>2, <1>4, <2>1, <2>2 DEF p, OpTyped, OpSound
<1>9. ASSUME NoReset, NEW n \in Models \ hurt', n # Mine(c) PROVE Spares(c, n)'
  <2>1. Spares(c, n)
    BY <1>2, <1>1, <1>4, <1>5, <1>6, <1>7, <1>9 DEF StoreInv, Kept, Mine
  <2> QED BY <1>1, <1>4, <1>5, <1>6, <1>7, <1>9, <2>1
     DEF p, Spares, Removing, Mine, Untouched, Writes
<1>10. ASSUME op[c].alone PROVE Alone(c)'
  <2>1. Alone(c)
    BY <1>2, <1>10
  <2>2. TagAlone(c)' /\ DeleteAlone(c)' /\ ResetAlone(c)'
    BY <1>1, <1>4 DEF p, TagAlone, DeleteAlone, ResetAlone, Writes
  <2>3. FillAlone(c)'
    BY <1>1, <1>2, <1>4, <1>5, <1>6, <1>7, <2>1 DEF p, Alone, Mine, At, FillAlone, Whole, Writes
  <2>4. WriteAlone(c)'
    BY <1>1, <1>2, <1>4, <1>5, <1>6, <1>7, <2>1
       DEF p, Alone, Mine, At, WriteAlone, FillAlone, Whole, Writes
  <2> QED BY <2>2, <2>3, <2>4 DEF Alone
<1>11. Works(c)
  BY <1>1, <1>3, <1>4, <1>5, <1>6, <1>7, <1>8, <1>9, <1>10 DEF p, Works
<1> QED BY <1>1, <1>11, WorkKeeps

(* The index is read to tag. *)
LEMMA TagReadKeeps ==
  ASSUME StoreAssumption, StoreInv, NEW c \in Clients,
         At(c, "tagRead"),
         CanTag(index, op[c].model, op[c].tag),
         op' = [op EXCEPT ![c].snap = Tagged(index, op[c].model, op[c].tag),
                              ![c].pc = "tagWrite"],
         UNCHANGED <<disk, up, started, hurt>>
  PROVE  StoreInv'
<1> DEFINE o == op[c]
           p == op'[c]
<1>1. /\ ~At(c, "idle") /\ o.kind # "reset" /\ o.pc = "tagRead"
      /\ o.kind \in Writes \cup {"tag"} /\ o.model \in Models \cup Normal
      /\ o.tag \in Normal /\ ~(o.kind \in Writes /\ o.failed)
      /\ (o.kind \in Writes => "index" \in o.made)
  BY DEF At, StoreInv, Shape, IdleOp, Writes
<1>2. /\ up /\ DiskTyped /\ DOMAIN op = Clients /\ Good(index) /\ IsIndex(index)
      /\ Shape(o) /\ OpTyped(c) /\ OpSound(c) /\ (o.alone => Alone(c))
  BY <1>1, Busy
<1>3. /\ IsIndex(Tagged(index, o.model, o.tag)) /\ Good(Tagged(index, o.model, o.tag))
      /\ DOMAIN Tagged(index, o.model, o.tag) = DOMAIN index
  BY <1>1, <1>2, TaggedKeeps
<1>4. /\ p = [o EXCEPT !.snap = Tagged(index, o.model, o.tag), !.pc = "tagWrite"]
      /\ DOMAIN op' = Clients
      /\ \A d \in Clients \ {c} : op'[d] = op[d]
  BY <1>2
<1>5. /\ p \in OpRecord(p)
      /\ p.kind = o.kind /\ p.pc = "tagWrite" /\ p.model = o.model /\ p.tag = o.tag
      /\ p.snap = Tagged(index, o.model, o.tag)
      /\ p.init = o.init /\ p.made = o.made /\ p.existed = o.existed /\ p.failed = o.failed
      /\ p.todo = o.todo /\ p.alone = o.alone
  <2>1. o \in OpRecord(o) /\ "tagWrite" \in Places
    BY <1>2 DEF OpTyped, Places
  <2> QED BY <1>1, <1>3, <1>4, <2>1 DEF OpRecord
<1>6. /\ DiskTyped' /\ Good(index') /\ up' = up /\ started' = started /\ hurt' = hurt
      /\ index' = index /\ manifests' = manifests /\ bundles' = bundles /\ blobs' = blobs
      /\ \A n : Untouched(n) /\ (Whole(n) <=> Whole(n)')
  BY <1>2, SameDisk
<1> HIDE DEF p
<1>7. OpTyped(c)' /\ OpSound(c)' /\ p # IdleOp
  <2>1. Shape(p)
    BY <1>1, <1>2, <1>3, <1>5 DEF Shape, IdleOp, Writes
  <2>2. p # IdleOp
    BY <1>1, <1>3, <1>5 DEF IdleOp
  <2> QED BY <1>1, <1>2, <1>3, <1>5, <2>1, <2>2 DEF p, OpTyped, OpSound
<1>8. ASSUME NoReset, NEW n \in Models \ hurt', n # Mine(c) PROVE Spares(c, n)'
  <2>1. Spares(c, n)
    BY <1>2, <1>1, <1>5, <1>6, <1>8 DEF StoreInv, Kept, Mine
  <2> QED BY <1>1, <1>3, <1>5, <1>6, <1>8, <2>1 DEF p, Spares, Removing, Mine, Untouched, Writes
<1>9. ASSUME op[c].alone PROVE Alone(c)'
  <2>1. Alone(c)
    BY <1>2, <1>9
  <2>2. DeleteAlone(c)' /\ ResetAlone(c)'
    BY <1>1, <1>5 DEF p, DeleteAlone, ResetAlone, Writes
  <2>3. TagAlone(c)'
    BY <1>1, <1>2, <1>3, <1>5, <1>6, <2>1 DEF p, Alone, Mine, At, TagAlone, Writes
  <2>4. FillAlone(c)'
    BY <1>1, <1>2, <1>3, <1>5, <1>6, <2>1 DEF p, Alone, Mine, At, FillAlone, Writes
  <2>5. WriteAlone(c)'
    BY <1>1, <1>2, <1>3, <1>5, <1>6, <2>1 DEF p, Alone, Mine, At, WriteAlone, FillAlone, Writes
  <2> QED BY <2>2, <2>3, <2>4, <2>5 DEF Alone
<1>10. Works(c)
  BY <1>1, <1>4, <1>5, <1>6, <1>7, <1>8, <1>9 DEF p, Works
<1> QED BY <1>1, <1>10, WorkKeeps

(* What could not be undone is noted. *)
LEMMA UndoFails ==
  ASSUME StoreAssumption, StoreInv, NEW c \in Clients, NEW made \in SUBSET op[c].made,
         At(c, "undo"),
         op' = [op EXCEPT ![c].made = made],
         Damage(c),
         UNCHANGED <<disk, up, started>>
  PROVE  StoreInv'
<1> DEFINE o == op[c]
           p == op'[c]
<1>1. /\ ~At(c, "idle") /\ o.kind # "reset" /\ o.pc = "undo" /\ o.kind \in Writes
      /\ o.model \in Models
  BY DEF At, StoreInv, Shape, IdleOp, Writes
<1>2. /\ up /\ DiskTyped /\ DOMAIN op = Clients /\ Good(index) /\ IsIndex(index)
      /\ Shape(o) /\ OpTyped(c) /\ OpSound(c) /\ (o.alone => Alone(c))
  BY <1>1, Busy
<1>3. made \in SUBSET {"config", "manifest", "index"} /\ made \subseteq o.made
  BY <1>2 DEF OpTyped, OpRecord
<1>4. /\ p = [o EXCEPT !.made = made] /\ DOMAIN op' = Clients
      /\ \A d \in Clients \ {c} : op'[d] = op[d]
  BY <1>2
<1>5. /\ p \in OpRecord(p)
      /\ p.kind = o.kind /\ p.pc = o.pc /\ p.model = o.model /\ p.tag = o.tag /\ p.snap = o.snap
      /\ p.init = o.init /\ p.made = made /\ p.existed = o.existed /\ p.failed = o.failed
      /\ p.todo = o.todo /\ p.alone = o.alone
  <2>1. o \in OpRecord(o)
    BY <1>2 DEF OpTyped
  <2> QED BY <1>1, <1>3, <1>4, <2>1 DEF OpRecord
<1>6. /\ index' = index /\ manifests' = manifests /\ bundles' = bundles
      /\ hurt' = hurt \cup {o.model} /\ blobs' = blobs /\ hasLayout' = hasLayout /\ up' = up
      /\ started' = started
  BY DEF Damage, Mine, disk, files
<1>7. /\ DiskTyped' /\ Good(index') /\ up' = up /\ started' = started
      /\ (IF o.alone THEN hurt \subseteq hurt' \cup {Mine(c)} ELSE hurt \subseteq hurt')
  BY <1>1, <1>2, <1>3, <1>6 DEF DiskTyped, OpSound, OpTyped, Mine, Blobs
<1>8. ASSUME NoReset, NEW n \in Models \ hurt', n # Mine(c) PROVE Untouched(n)
  BY <1>1, <1>6, <1>8 DEF Untouched, Mine
<1> HIDE DEF p
<1>9. OpTyped(c)' /\ OpSound(c)' /\ p # IdleOp
  <2>1. Shape(p)
    BY <1>1, <1>2, <1>3, <1>5 DEF Shape, IdleOp, Writes
  <2>2. p # IdleOp
    BY <1>1, <1>3, <1>5 DEF IdleOp
  <2> QED BY <1>1, <1>2, <1>3, <1>5, <2>1, <2>2 DEF p, OpTyped, OpSound
<1>10. ASSUME NoReset, NEW n \in Models \ hurt', n # Mine(c) PROVE Spares(c, n)'
  <2>1. Spares(c, n)
    BY <1>2, <1>1, <1>5, <1>6, <1>7, <1>8, <1>10 DEF StoreInv, Kept, Mine
  <2> QED BY <1>1, <1>3, <1>5, <1>6, <1>7, <1>8, <1>10, <2>1
     DEF p, Spares, Removing, Mine, Untouched, Writes
<1>11. ASSUME op[c].alone PROVE Alone(c)'
  <2>1. Alone(c)
    BY <1>2, <1>11
  <2>2. TagAlone(c)' /\ DeleteAlone(c)' /\ ResetAlone(c)'
    BY <1>1, <1>5 DEF p, TagAlone, DeleteAlone, ResetAlone, Writes
  <2>3. FillAlone(c)'
    BY <1>1, <1>2, <1>3, <1>5, <1>6, <1>7, <1>8, <2>1 DEF p, Alone, Mine, At, FillAlone, Writes
  <2>4. WriteAlone(c)'
    BY <1>1, <1>2, <1>3, <1>5, <1>6, <1>7, <1>8, <2>1
       DEF p, Alone, Mine, At, WriteAlone, FillAlone, Writes
  <2> QED BY <2>2, <2>3, <2>4 DEF Alone
<1>12. Works(c)
  BY <1>1, <1>4, <1>5, <1>6, <1>7, <1>8, <1>9, <1>10, <1>11 DEF p, Works
<1> QED BY <1>1, <1>12, WorkKeeps

(* The index is as it was. *)
LEMMA UndoIndexKeeps ==
  ASSUME StoreAssumption, StoreInv, NEW c \in Clients,
         At(c, "undo"),
         "index" \in op[c].made,
         op' = [op EXCEPT ![c].made = @ \ {"index"}],
         WriteIndex(op[c].init),
         UNCHANGED <<files, up, started, hurt>>
  PROVE  StoreInv'
<1> DEFINE o == op[c]
           p == op'[c]
<1>1. /\ ~At(c, "idle") /\ o.kind # "reset" /\ o.pc = "undo" /\ o.kind \in Writes
      /\ o.model \in Models /\ "index" \in o.made
  BY DEF At, StoreInv, Shape, IdleOp, Writes
<1>2. /\ up /\ DiskTyped /\ DOMAIN op = Clients /\ Good(index) /\ IsIndex(index)
      /\ Shape(o) /\ OpTyped(c) /\ OpSound(c) /\ (o.alone => Alone(c))
  BY <1>1, Busy
<1>3. o.made \ {"index"} \in SUBSET {"config", "manifest", "index"}
  BY <1>2 DEF OpTyped, OpRecord
<1>4. /\ p = [o EXCEPT !.made = o.made \ {"index"}] /\ DOMAIN op' = Clients
      /\ \A d \in Clients \ {c} : op'[d] = op[d]
  BY <1>2
<1>5. /\ p \in OpRecord(p)
      /\ p.kind = o.kind /\ p.pc = o.pc /\ p.model = o.model /\ p.tag = o.tag /\ p.snap = o.snap
      /\ p.init = o.init /\ p.made = o.made \ {"index"} /\ p.existed = o.existed
      /\ p.failed = o.failed /\ p.todo = o.todo /\ p.alone = o.alone
  <2>1. o \in OpRecord(o)
    BY <1>2 DEF OpTyped
  <2> QED BY <1>1, <1>3, <1>4, <2>1 DEF OpRecord
<1>6. /\ index' = o.init /\ manifests' = manifests /\ bundles' = bundles /\ hurt' = hurt
      /\ blobs' = blobs /\ hasLayout' = TRUE /\ up' = up /\ started' = started
  BY DEF WriteIndex, files
<1>7. /\ DiskTyped' /\ Good(index') /\ up' = up /\ started' = started
      /\ (IF o.alone THEN hurt \subseteq hurt' \cup {Mine(c)} ELSE hurt \subseteq hurt')
  BY <1>1, <1>2, <1>3, <1>6 DEF DiskTyped, OpSound, OpTyped, Mine, Blobs
<1>8. ASSUME NoReset, NEW n \in Models \ hurt', n # Mine(c) PROVE Untouched(n)
  <2>1. Spares(c, n)
    BY <1>6, <1>8 DEF StoreInv, Kept
  <2> QED BY <1>1, <1>6, <1>8, <2>1 DEF Untouched, Spares
<1> HIDE DEF p
<1>9. OpTyped(c)' /\ OpSound(c)' /\ p # IdleOp
  <2>1. Shape(p)
    BY <1>1, <1>2, <1>3, <1>5 DEF Shape, IdleOp, Writes
  <2>2. p # IdleOp
    BY <1>1, <1>3, <1>5 DEF IdleOp
  <2> QED BY <1>1, <1>2, <1>3, <1>5, <2>1, <2>2 DEF p, OpTyped, OpSound
<1>10. ASSUME NoReset, NEW n \in Models \ hurt', n # Mine(c) PROVE Spares(c, n)'
  <2>1. Spares(c, n)
    BY <1>2, <1>1, <1>5, <1>6, <1>7, <1>8, <1>10 DEF StoreInv, Kept, Mine
  <2> QED BY <1>1, <1>3, <1>5, <1>6, <1>7, <1>8, <1>10, <2>1
     DEF p, Spares, Removing, Mine, Untouched, Writes
<1>11. ASSUME op[c].alone PROVE Alone(c)'
  <2>1. Alone(c)
    BY <1>2, <1>11
  <2>2. TagAlone(c)' /\ DeleteAlone(c)' /\ ResetAlone(c)'
    BY <1>1, <1>5 DEF p, TagAlone, DeleteAlone, ResetAlone, Writes
  <2>3. FillAlone(c)'
    BY <1>1, <1>2, <1>3, <1>5, <1>6, <1>7, <1>8, <2>1 DEF p, Alone, Mine, At, FillAlone, Writes
  <2>4. WriteAlone(c)'
    BY <1>1, <1>2, <1>3, <1>5, <1>6, <1>7, <1>8, <2>1
       DEF p, Alone, Mine, At, WriteAlone, FillAlone, Whole, Writes
  <2> QED BY <2>2, <2>3, <2>4 DEF Alone
<1>12. Works(c)
  BY <1>1, <1>4, <1>5, <1>6, <1>7, <1>8, <1>9, <1>10, <1>11 DEF p, Works
<1> QED BY <1>1, <1>12, WorkKeeps

(* The manifest is away again. *)
LEMMA UndoManifestKeeps ==
  ASSUME StoreAssumption, StoreInv, NEW c \in Clients,
         At(c, "undo"),
         "manifest" \in op[c].made,
         "index" \notin op[c].made,
         op' = [op EXCEPT ![c].made = @ \ {"manifest"}],
         manifests' = manifests \ {Mine(c)},
         UNCHANGED <<index, blobs, bundles, hasLayout, up, started, hurt>>
  PROVE  StoreInv'
<1> DEFINE o == op[c]
           p == op'[c]
<1>1. /\ ~At(c, "idle") /\ o.kind # "reset" /\ o.pc = "undo" /\ o.kind \in Writes
      /\ o.model \in Models /\ "manifest" \in o.made /\ "index" \notin o.made
  BY DEF At, StoreInv, Shape, IdleOp, Writes
<1>2. /\ up /\ DiskTyped /\ DOMAIN op = Clients /\ Good(index) /\ IsIndex(index)
      /\ Shape(o) /\ OpTyped(c) /\ OpSound(c) /\ (o.alone => Alone(c))
  BY <1>1, Busy
<1>3. o.made \ {"manifest"} \in SUBSET {"config", "manifest", "index"}
  BY <1>2 DEF OpTyped, OpRecord
<1>4. /\ p = [o EXCEPT !.made = o.made \ {"manifest"}] /\ DOMAIN op' = Clients
      /\ \A d \in Clients \ {c} : op'[d] = op[d]
  BY <1>2
<1>5. /\ p \in OpRecord(p)
      /\ p.kind = o.kind /\ p.pc = o.pc /\ p.model = o.model /\ p.tag = o.tag /\ p.snap = o.snap
      /\ p.init = o.init /\ p.made = o.made \ {"manifest"} /\ p.existed = o.existed
      /\ p.failed = o.failed /\ p.todo = o.todo /\ p.alone = o.alone
  <2>1. o \in OpRecord(o)
    BY <1>2 DEF OpTyped
  <2> QED BY <1>1, <1>3, <1>4, <2>1 DEF OpRecord
<1>6. /\ index' = index /\ manifests' = manifests \ {o.model} /\ bundles' = bundles
      /\ hurt' = hurt /\ blobs' = blobs /\ hasLayout' = hasLayout /\ up' = up
      /\ started' = started
  BY DEF Mine
<1>7. /\ DiskTyped' /\ Good(index') /\ up' = up /\ started' = started
      /\ (IF o.alone THEN hurt \subseteq hurt' \cup {Mine(c)} ELSE hurt \subseteq hurt')
  BY <1>1, <1>2, <1>3, <1>6 DEF DiskTyped, OpSound, OpTyped, Mine, Blobs
<1>8. ASSUME NoReset, NEW n \in Models \ hurt', n # Mine(c) PROVE Untouched(n)
  BY <1>1, <1>6, <1>8 DEF Untouched, Mine
<1> HIDE DEF p
<1>9. OpTyped(c)' /\ OpSound(c)' /\ p # IdleOp
  <2>1. Shape(p)
    BY <1>1, <1>2, <1>3, <1>5 DEF Shape, IdleOp, Writes
  <2>2. p # IdleOp
    BY <1>1, <1>3, <1>5 DEF IdleOp
  <2> QED BY <1>1, <1>2, <1>3, <1>5, <2>1, <2>2 DEF p, OpTyped, OpSound
<1>10. ASSUME NoReset, NEW n \in Models \ hurt', n # Mine(c) PROVE Spares(c, n)'
  <2>1. Spares(c, n)
    BY <1>2, <1>1, <1>5, <1>6, <1>7, <1>8, <1>10 DEF StoreInv, Kept, Mine
  <2> QED BY <1>1, <1>3, <1>5, <1>6, <1>7, <1>8, <1>10, <2>1
     DEF p, Spares, Removing, Mine, Untouched, Writes
<1>11. ASSUME op[c].alone PROVE Alone(c)'
  <2>1. Alone(c)
    BY <1>2, <1>11
  <2>2. TagAlone(c)' /\ DeleteAlone(c)' /\ ResetAlone(c)'
    BY <1>1, <1>5 DEF p, TagAlone, DeleteAlone, ResetAlone, Writes
  <2>3. FillAlone(c)'
    BY <1>1, <1>2, <1>3, <1>5, <1>6, <1>7, <1>8, <2>1 DEF p, Alone, Mine, At, FillAlone, Writes
  <2>4. WriteAlone(c)'
    BY <1>1, <1>2, <1>3, <1>5, <1>6, <1>7, <1>8, <2>1
       DEF p, Alone, Mine, At, WriteAlone, FillAlone, Whole, Writes
  <2> QED BY <2>2, <2>3, <2>4 DEF Alone
<1>12. Works(c)
  BY <1>1, <1>4, <1>5, <1>6, <1>7, <1>8, <1>9, <1>10, <1>11 DEF p, Works
<1> QED BY <1>1, <1>12, WorkKeeps

(* The new config is away again. *)
LEMMA UndoConfigKeeps ==
  ASSUME StoreAssumption, StoreInv, NEW c \in Clients,
         At(c, "undo"),
         op[c].made = {"config"},
         op' = [op EXCEPT ![c].made = {}],
         blobs' = blobs \ {ConfigOf[Mine(c)]},
         UNCHANGED <<index, manifests, bundles, hasLayout, up, started, hurt>>
  PROVE  StoreInv'
<1> DEFINE o == op[c]
           p == op'[c]
<1>1. /\ ~At(c, "idle") /\ o.kind # "reset" /\ o.pc = "undo" /\ o.kind \in Writes
      /\ o.model \in Models /\ o.made = {"config"}
  BY DEF At, StoreInv, Shape, IdleOp, Writes
<1>2. /\ up /\ DiskTyped /\ DOMAIN op = Clients /\ Good(index) /\ IsIndex(index)
      /\ Shape(o) /\ OpTyped(c) /\ OpSound(c) /\ (o.alone => Alone(c))
  BY <1>1, Busy
<1>3. {} \in SUBSET {"config", "manifest", "index"}
  BY <1>2 DEF OpTyped, OpRecord
<1>4. /\ p = [o EXCEPT !.made = {}] /\ DOMAIN op' = Clients
      /\ \A d \in Clients \ {c} : op'[d] = op[d]
  BY <1>2
<1>5. /\ p \in OpRecord(p)
      /\ p.kind = o.kind /\ p.pc = o.pc /\ p.model = o.model /\ p.tag = o.tag /\ p.snap = o.snap
      /\ p.init = o.init /\ p.made = {} /\ p.existed = o.existed /\ p.failed = o.failed
      /\ p.todo = o.todo /\ p.alone = o.alone
  <2>1. o \in OpRecord(o)
    BY <1>2 DEF OpTyped
  <2> QED BY <1>1, <1>3, <1>4, <2>1 DEF OpRecord
<1>6. /\ index' = index /\ manifests' = manifests /\ bundles' = bundles /\ hurt' = hurt
      /\ blobs' = blobs \ {ConfigOf[o.model]} /\ hasLayout' = hasLayout /\ up' = up
      /\ started' = started
  BY DEF Mine
<1>7. /\ DiskTyped' /\ Good(index') /\ up' = up /\ started' = started
      /\ (IF o.alone THEN hurt \subseteq hurt' \cup {Mine(c)} ELSE hurt \subseteq hurt')
  BY <1>1, <1>2, <1>3, <1>6 DEF DiskTyped, OpSound, OpTyped, Mine, Blobs
<1>8. ASSUME NoReset, NEW n \in Models \ hurt', n # Mine(c) PROVE Untouched(n)
  <2>1. Spares(c, n)
    BY <1>6, <1>8 DEF StoreInv, Kept
  <2> QED BY <1>1, <1>6, <1>8, <2>1 DEF Untouched, Spares, Mine
<1> HIDE DEF p
<1>9. OpTyped(c)' /\ OpSound(c)' /\ p # IdleOp
  <2>1. Shape(p)
    BY <1>1, <1>2, <1>3, <1>5 DEF Shape, IdleOp, Writes
  <2>2. p # IdleOp
    BY <1>1, <1>3, <1>5 DEF IdleOp
  <2> QED BY <1>1, <1>2, <1>3, <1>5, <2>1, <2>2 DEF p, OpTyped, OpSound
<1>10. ASSUME NoReset, NEW n \in Models \ hurt', n # Mine(c) PROVE Spares(c, n)'
  <2>1. Spares(c, n)
    BY <1>2, <1>1, <1>5, <1>6, <1>7, <1>8, <1>10 DEF StoreInv, Kept, Mine
  <2> QED BY <1>1, <1>3, <1>5, <1>6, <1>7, <1>8, <1>10, <2>1
     DEF p, Spares, Removing, Mine, Untouched, Writes
<1>11. ASSUME op[c].alone PROVE Alone(c)'
  <2>1. Alone(c)
    BY <1>2, <1>11
  <2>2. TagAlone(c)' /\ DeleteAlone(c)' /\ ResetAlone(c)'
    BY <1>1, <1>5 DEF p, TagAlone, DeleteAlone, ResetAlone, Writes
  <2>3. FillAlone(c)'
    BY <1>1, <1>2, <1>3, <1>5, <1>6, <1>7, <1>8, <2>1 DEF p, Alone, Mine, At, FillAlone, Writes
  <2>4. WriteAlone(c)'
    BY <1>1, <1>2, <1>3, <1>5, <1>6, <1>7, <1>8, <2>1
       DEF p, Alone, Mine, At, WriteAlone, FillAlone, Whole, Writes
  <2> QED BY <2>2, <2>3, <2>4 DEF Alone
<1>12. Works(c)
  BY <1>1, <1>4, <1>5, <1>6, <1>7, <1>8, <1>9, <1>10, <1>11 DEF p, Works
<1> QED BY <1>1, <1>12, WorkKeeps

(* The index is read to take a tag away. *)
LEMMA UntagReadKeeps ==
  ASSUME StoreAssumption, StoreInv, NEW c \in Clients,
         At(c, "untagRead"),
         op' = [op EXCEPT ![c].snap = Untagged(index, op[c].tag), ![c].pc = "untagWrite"],
         UNCHANGED <<disk, up, started, hurt>>
  PROVE  StoreInv'
<1> DEFINE o == op[c]
           p == op'[c]
<1>1. /\ ~At(c, "idle") /\ o.kind # "reset" /\ o.pc = "untagRead" /\ o.kind = "delete"
      /\ o.model \in Models /\ o.made = {}
  BY DEF At, StoreInv, Shape, IdleOp, Writes
<1>2. /\ up /\ DiskTyped /\ DOMAIN op = Clients /\ Good(index) /\ IsIndex(index)
      /\ Shape(o) /\ OpTyped(c) /\ OpSound(c) /\ (o.alone => Alone(c))
  BY <1>1, Busy
<1>3. /\ IsIndex(Untagged(index, o.tag)) /\ Good(Untagged(index, o.tag))
      /\ DOMAIN Untagged(index, o.tag) = DOMAIN index
  BY <1>2, UntaggedKeeps
<1>4. /\ p = [o EXCEPT !.snap = Untagged(index, o.tag), !.pc = "untagWrite"]
      /\ DOMAIN op' = Clients
      /\ \A d \in Clients \ {c} : op'[d] = op[d]
  BY <1>2
<1>5. /\ p \in OpRecord(p)
      /\ p.kind = o.kind /\ p.pc = "untagWrite" /\ p.model = o.model /\ p.tag = o.tag
      /\ p.snap = Untagged(index, o.tag)
      /\ p.init = o.init /\ p.made = o.made /\ p.existed = o.existed /\ p.failed = o.failed
      /\ p.todo = o.todo /\ p.alone = o.alone
  <2>1. o \in OpRecord(o) /\ "untagWrite" \in Places
    BY <1>2 DEF OpTyped, Places
  <2> QED BY <1>1, <1>3, <1>4, <2>1 DEF OpRecord
<1>6. /\ DiskTyped' /\ Good(index') /\ up' = up /\ started' = started /\ hurt' = hurt
      /\ index' = index /\ manifests' = manifests /\ bundles' = bundles /\ blobs' = blobs
      /\ \A n : Untouched(n) /\ (Whole(n) <=> Whole(n)')
  BY <1>2, SameDisk
<1> HIDE DEF p
<1>7. OpTyped(c)' /\ OpSound(c)' /\ p # IdleOp
  <2>1. Shape(p)
    BY <1>1, <1>2, <1>3, <1>5 DEF Shape, IdleOp, Writes
  <2>2. p # IdleOp
    BY <1>1, <1>3, <1>5 DEF IdleOp
  <2> QED BY <1>1, <1>2, <1>3, <1>5, <2>1, <2>2 DEF p, OpTyped, OpSound
<1>8. ASSUME NoReset, NEW n \in Models \ hurt', n # Mine(c) PROVE Spares(c, n)'
  <2>1. Spares(c, n)
    BY <1>2, <1>1, <1>5, <1>6, <1>8 DEF StoreInv, Kept, Mine
  <2> QED BY <1>1, <1>3, <1>5, <1>6, <1>8, <2>1 DEF p, Spares, Removing, Mine, Untouched, Writes
<1>9. ASSUME op[c].alone PROVE Alone(c)'
  <2>1. Alone(c)
    BY <1>2, <1>9
  <2>2. TagAlone(c)' /\ FillAlone(c)' /\ WriteAlone(c)' /\ ResetAlone(c)'
    BY <1>1, <1>5 DEF p, TagAlone, FillAlone, WriteAlone, ResetAlone, Writes
  <2>3. DeleteAlone(c)'
    BY <1>1, <1>2, <1>3, <1>5, <1>6, <2>1 DEF p, Alone, Mine, At, DeleteAlone, Removing
  <2> QED BY <2>2, <2>3 DEF Alone
<1>10. Works(c)
  BY <1>1, <1>4, <1>5, <1>6, <1>7, <1>8, <1>9 DEF p, Works
<1> QED BY <1>1, <1>10, WorkKeeps

(* The tag is away, and it was the last. *)
LEMMA UntagKeeps ==
  ASSUME StoreAssumption, StoreInv, NEW c \in Clients,
         At(c, "untagWrite"),
         WriteIndex(op[c].snap),
         Go(c, "find"),
         UNCHANGED <<files, up, started, hurt>>
  PROVE  StoreInv'
<1> DEFINE o == op[c]
           p == op'[c]
<1>1. /\ ~At(c, "idle") /\ o.kind # "reset" /\ o.pc = "untagWrite" /\ o.kind = "delete"
      /\ o.model \in Models /\ o.made = {}
  BY DEF At, StoreInv, Shape, IdleOp, Writes
<1>2. /\ up /\ DiskTyped /\ DOMAIN op = Clients /\ Good(index) /\ IsIndex(index)
      /\ Shape(o) /\ OpTyped(c) /\ OpSound(c) /\ (o.alone => Alone(c))
  BY <1>1, Busy
<1>3. /\ p = [o EXCEPT !.pc = "find"] /\ DOMAIN op' = Clients
      /\ \A d \in Clients \ {c} : op'[d] = op[d]
  BY <1>2 DEF Go
<1>4. /\ p \in OpRecord(p)
      /\ p.kind = o.kind /\ p.pc = "find" /\ p.model = o.model /\ p.tag = o.tag /\ p.snap = o.snap
      /\ p.init = o.init /\ p.made = o.made /\ p.existed = o.existed /\ p.failed = o.failed
      /\ p.todo = o.todo /\ p.alone = o.alone
  <2>1. o \in OpRecord(o) /\ "find" \in Places
    BY <1>2 DEF OpTyped, Places
  <2> QED BY <1>1, <1>3, <2>1 DEF OpRecord
<1>5. /\ index' = o.snap /\ manifests' = manifests /\ bundles' = bundles /\ hurt' = hurt
      /\ blobs' = blobs /\ hasLayout' = TRUE /\ up' = up /\ started' = started
  BY DEF WriteIndex, files
<1>6. /\ DiskTyped' /\ Good(index') /\ up' = up /\ started' = started
      /\ (IF o.alone THEN hurt \subseteq hurt' \cup {Mine(c)} ELSE hurt \subseteq hurt')
  BY <1>1, <1>2, <1>5 DEF DiskTyped, OpSound, OpTyped, Mine, Blobs
<1>7. ASSUME NoReset, NEW n \in Models \ hurt', n # Mine(c) PROVE Untouched(n)
  <2>1. Spares(c, n)
    BY <1>5, <1>7 DEF StoreInv, Kept
  <2> QED BY <1>1, <1>5, <1>7, <2>1 DEF Untouched, Spares
<1> HIDE DEF p
<1>8. OpTyped(c)' /\ OpSound(c)' /\ p # IdleOp
  <2>1. Shape(p)
    BY <1>1, <1>2, <1>4 DEF Shape, IdleOp, Writes
  <2>2. p # IdleOp
    BY <1>1, <1>4 DEF IdleOp
  <2> QED BY <1>1, <1>2, <1>4, <2>1, <2>2 DEF p, OpTyped, OpSound
<1>9. ASSUME NoReset, NEW n \in Models \ hurt', n # Mine(c) PROVE Spares(c, n)'
  <2>1. Spares(c, n)
    BY <1>2, <1>1, <1>4, <1>5, <1>6, <1>7, <1>9 DEF StoreInv, Kept, Mine
  <2> QED BY <1>1, <1>4, <1>5, <1>6, <1>7, <1>9, <2>1
     DEF p, Spares, Removing, Mine, Untouched, Writes
<1>10. ASSUME op[c].alone PROVE Alone(c)'
  <2>1. Alone(c)
    BY <1>2, <1>10
  <2>2. TagAlone(c)' /\ FillAlone(c)' /\ WriteAlone(c)' /\ ResetAlone(c)'
    BY <1>1, <1>4 DEF p, TagAlone, FillAlone, WriteAlone, ResetAlone, Writes
  <2>3. DeleteAlone(c)'
    BY <1>1, <1>2, <1>4, <1>5, <1>6, <1>7, <2>1
       DEF p, Alone, Mine, At, DeleteAlone, Removing, Whole
  <2> QED BY <2>2, <2>3 DEF Alone
<1>11. Works(c)
  BY <1>1, <1>3, <1>4, <1>5, <1>6, <1>7, <1>8, <1>9, <1>10 DEF p, Works
<1> QED BY <1>1, <1>11, WorkKeeps

(* The entry is found; the blobs no other entry lists are to go with it. *)
LEMMA FindKeeps ==
  ASSUME StoreAssumption, StoreInv, NEW c \in Clients,
         At(c, "find"),
         op' = [op EXCEPT ![c].snap = Removed(index, Mine(c)), ![c].pc = "rmManifest",
                              ![c].todo = Unshared(index, Mine(c))],
         UNCHANGED <<disk, up, started, hurt>>
  PROVE  StoreInv'
<1> DEFINE o == op[c]
           p == op'[c]
<1>1. /\ ~At(c, "idle") /\ o.kind # "reset" /\ o.pc = "find" /\ o.kind = "delete"
      /\ o.model \in Models /\ o.made = {}
  BY DEF At, StoreInv, Shape, IdleOp, Writes
<1>2. /\ up /\ DiskTyped /\ DOMAIN op = Clients /\ Good(index) /\ IsIndex(index)
      /\ Shape(o) /\ OpTyped(c) /\ OpSound(c) /\ (o.alone => Alone(c))
  BY <1>1, Busy
<1>3. /\ IsIndex(Removed(index, o.model)) /\ Good(Removed(index, o.model))
      /\ DOMAIN Removed(index, o.model) = DOMAIN index \ {o.model}
  BY <1>2, RemovedKeeps
<1>4. Unshared(index, o.model) \in SUBSET Blobs
  BY <1>1 DEF Unshared, Blobs
<1>5. \A n \in DOMAIN index : n # o.model => Unshared(index, o.model) \cap FilesOf(n) = {}
  BY DEF Unshared
<1>6. /\ p = [o EXCEPT !.snap = Removed(index, o.model), !.pc = "rmManifest", !.todo = Unshared(index, o.model)]
      /\ DOMAIN op' = Clients
      /\ \A d \in Clients \ {c} : op'[d] = op[d]
  BY <1>2 DEF Mine
<1>7. /\ p \in OpRecord(p)
      /\ p.kind = o.kind /\ p.pc = "rmManifest" /\ p.model = o.model /\ p.tag = o.tag
      /\ p.snap = Removed(index, o.model)
      /\ p.init = o.init /\ p.made = o.made /\ p.existed = o.existed /\ p.failed = o.failed
      /\ p.todo = Unshared(index, o.model) /\ p.alone = o.alone
  <2>1. o \in OpRecord(o) /\ "rmManifest" \in Places
    BY <1>2 DEF OpTyped, Places
  <2> QED BY <1>1, <1>3, <1>4, <1>5, <1>6, <2>1 DEF OpRecord
<1>8. /\ DiskTyped' /\ Good(index') /\ up' = up /\ started' = started /\ hurt' = hurt
      /\ index' = index /\ manifests' = manifests /\ bundles' = bundles /\ blobs' = blobs
      /\ \A n : Untouched(n) /\ (Whole(n) <=> Whole(n)')
  BY <1>2, SameDisk
<1> HIDE DEF p
<1>9. OpTyped(c)' /\ OpSound(c)' /\ p # IdleOp
  <2>1. Shape(p)
    BY <1>1, <1>2, <1>3, <1>4, <1>5, <1>7 DEF Shape, IdleOp, Writes
  <2>2. p # IdleOp
    BY <1>1, <1>3, <1>4, <1>5, <1>7 DEF IdleOp
  <2> QED BY <1>1, <1>2, <1>3, <1>4, <1>5, <1>7, <2>1, <2>2 DEF p, OpTyped, OpSound
<1>10. ASSUME NoReset, NEW n \in Models \ hurt', n # Mine(c) PROVE Spares(c, n)'
  BY <1>1, <1>3, <1>4, <1>5, <1>7, <1>8, <1>10 DEF p, Spares, Removing, Mine, Writes
<1>11. ASSUME op[c].alone PROVE Alone(c)'
  <2>1. Alone(c)
    BY <1>2, <1>11
  <2>2. TagAlone(c)' /\ FillAlone(c)' /\ WriteAlone(c)' /\ ResetAlone(c)'
    BY <1>1, <1>7 DEF p, TagAlone, FillAlone, WriteAlone, ResetAlone, Writes
  <2>3. DeleteAlone(c)'
    BY <1>1, <1>2, <1>3, <1>4, <1>5, <1>7, <1>8, <2>1
       DEF p, Alone, Mine, At, DeleteAlone, Removing
  <2> QED BY <2>2, <2>3 DEF Alone
<1>12. Works(c)
  BY <1>1, <1>6, <1>7, <1>8, <1>9, <1>10, <1>11 DEF p, Works
<1> QED BY <1>1, <1>12, WorkKeeps

(* The manifest is removed, or it is noted. *)
LEMMA RemoveManifestKeeps ==
  ASSUME StoreAssumption, StoreInv, NEW c \in Clients,
         RemoveManifest(c)
  PROVE  StoreInv'
<1> DEFINE o == op[c]
           p == op'[c]
<1>1. /\ ~At(c, "idle") /\ o.kind # "reset" /\ o.pc = "rmManifest" /\ o.kind = "delete"
      /\ o.model \in Models /\ o.made = {}
  BY DEF RemoveManifest, At, StoreInv, Shape, IdleOp, Writes
<1>2. /\ up /\ DiskTyped /\ DOMAIN op = Clients /\ Good(index) /\ IsIndex(index)
      /\ Shape(o) /\ OpTyped(c) /\ OpSound(c) /\ (o.alone => Alone(c))
  BY <1>1, Busy
<1>3. /\ p = [o EXCEPT !.pc = "rmBundle"] /\ DOMAIN op' = Clients
      /\ \A d \in Clients \ {c} : op'[d] = op[d]
  BY <1>2 DEF RemoveManifest, Go
<1>4. /\ p \in OpRecord(p)
      /\ p.kind = o.kind /\ p.pc = "rmBundle" /\ p.model = o.model /\ p.tag = o.tag
      /\ p.snap = o.snap
      /\ p.init = o.init /\ p.made = o.made /\ p.existed = o.existed /\ p.failed = o.failed
      /\ p.todo = o.todo /\ p.alone = o.alone
  <2>1. o \in OpRecord(o) /\ "rmBundle" \in Places
    BY <1>2 DEF OpTyped, Places
  <2> QED BY <1>1, <1>3, <2>1 DEF OpRecord
<1>5. /\ index' = index /\ bundles' = bundles /\ blobs' = blobs /\ hasLayout' = hasLayout
      /\ up' = up /\ started' = started
      /\ manifests \ {o.model} \subseteq manifests' /\ manifests' \subseteq manifests
      /\ hurt \subseteq hurt' /\ hurt' \subseteq hurt \cup {o.model}
      /\ (o.model \notin hurt' => o.model \notin manifests')
  BY DEF RemoveManifest, Damage, Mine
<1>6. /\ DiskTyped' /\ Good(index') /\ up' = up /\ started' = started
      /\ (IF o.alone THEN hurt \subseteq hurt' \cup {Mine(c)} ELSE hurt \subseteq hurt')
  BY <1>1, <1>2, <1>5 DEF DiskTyped, OpSound, OpTyped, Mine, Blobs
<1>7. ASSUME NoReset, NEW n \in Models \ hurt', n # Mine(c) PROVE Untouched(n)
  BY <1>1, <1>5, <1>7 DEF Untouched, Mine
<1> HIDE DEF p
<1>8. OpTyped(c)' /\ OpSound(c)' /\ p # IdleOp
  <2>1. Shape(p)
    BY <1>1, <1>2, <1>4 DEF Shape, IdleOp, Writes
  <2>2. p # IdleOp
    BY <1>1, <1>4 DEF IdleOp
  <2> QED BY <1>1, <1>2, <1>4, <2>1, <2>2 DEF p, OpTyped, OpSound
<1>9. ASSUME NoReset, NEW n \in Models \ hurt', n # Mine(c) PROVE Spares(c, n)'
  <2>1. Spares(c, n)
    BY <1>2, <1>1, <1>4, <1>5, <1>6, <1>7, <1>9 DEF StoreInv, Kept, Mine
  <2> QED BY <1>1, <1>4, <1>5, <1>6, <1>7, <1>9, <2>1
     DEF p, Spares, Removing, Mine, Untouched, Writes
<1>10. ASSUME op[c].alone PROVE Alone(c)'
  <2>1. Alone(c)
    BY <1>2, <1>10
  <2>2. TagAlone(c)' /\ FillAlone(c)' /\ WriteAlone(c)' /\ ResetAlone(c)'
    BY <1>1, <1>4 DEF p, TagAlone, FillAlone, WriteAlone, ResetAlone, Writes
  <2>3. DeleteAlone(c)'
    BY <1>1, <1>2, <1>4, <1>5, <1>6, <1>7, <2>1 DEF p, Alone, Mine, At, DeleteAlone, Removing
  <2> QED BY <2>2, <2>3 DEF Alone
<1>11. Works(c)
  BY <1>1, <1>3, <1>4, <1>5, <1>6, <1>7, <1>8, <1>9, <1>10 DEF p, Works
<1> QED BY <1>1, <1>11, WorkKeeps

(* The bundle is removed, or it is noted. *)
LEMMA RemoveBundleKeeps ==
  ASSUME StoreAssumption, StoreInv, NEW c \in Clients,
         RemoveBundle(c)
  PROVE  StoreInv'
<1> DEFINE o == op[c]
           p == op'[c]
<1>1. /\ ~At(c, "idle") /\ o.kind # "reset" /\ o.pc = "rmBundle" /\ o.kind = "delete"
      /\ o.model \in Models /\ o.made = {}
  BY DEF RemoveBundle, At, StoreInv, Shape, IdleOp, Writes
<1>2. /\ up /\ DiskTyped /\ DOMAIN op = Clients /\ Good(index) /\ IsIndex(index)
      /\ Shape(o) /\ OpTyped(c) /\ OpSound(c) /\ (o.alone => Alone(c))
  BY <1>1, Busy
<1>3. /\ p = [o EXCEPT !.pc = "rmBlobs"] /\ DOMAIN op' = Clients
      /\ \A d \in Clients \ {c} : op'[d] = op[d]
  BY <1>2 DEF RemoveBundle, Go
<1>4. /\ p \in OpRecord(p)
      /\ p.kind = o.kind /\ p.pc = "rmBlobs" /\ p.model = o.model /\ p.tag = o.tag
      /\ p.snap = o.snap
      /\ p.init = o.init /\ p.made = o.made /\ p.existed = o.existed /\ p.failed = o.failed
      /\ p.todo = o.todo /\ p.alone = o.alone
  <2>1. o \in OpRecord(o) /\ "rmBlobs" \in Places
    BY <1>2 DEF OpTyped, Places
  <2> QED BY <1>1, <1>3, <2>1 DEF OpRecord
<1>5. /\ index' = index /\ manifests' = manifests /\ blobs' = blobs
      /\ hasLayout' = hasLayout /\ up' = up /\ started' = started
      /\ bundles \ {o.model} \subseteq bundles' /\ bundles' \subseteq bundles
      /\ hurt \subseteq hurt' /\ hurt' \subseteq hurt \cup {o.model}
      /\ (o.model \notin hurt' => o.model \notin bundles')
  BY DEF RemoveBundle, Damage, Mine
<1>6. /\ DiskTyped' /\ Good(index') /\ up' = up /\ started' = started
      /\ (IF o.alone THEN hurt \subseteq hurt' \cup {Mine(c)} ELSE hurt \subseteq hurt')
  BY <1>1, <1>2, <1>5 DEF DiskTyped, OpSound, OpTyped, Mine, Blobs
<1>7. ASSUME NoReset, NEW n \in Models \ hurt', n # Mine(c) PROVE Untouched(n)
  BY <1>1, <1>5, <1>7 DEF Untouched, Mine
<1> HIDE DEF p
<1>8. OpTyped(c)' /\ OpSound(c)' /\ p # IdleOp
  <2>1. Shape(p)
    BY <1>1, <1>2, <1>4 DEF Shape, IdleOp, Writes
  <2>2. p # IdleOp
    BY <1>1, <1>4 DEF IdleOp
  <2> QED BY <1>1, <1>2, <1>4, <2>1, <2>2 DEF p, OpTyped, OpSound
<1>9. ASSUME NoReset, NEW n \in Models \ hurt', n # Mine(c) PROVE Spares(c, n)'
  <2>1. Spares(c, n)
    BY <1>2, <1>1, <1>4, <1>5, <1>6, <1>7, <1>9 DEF StoreInv, Kept, Mine
  <2> QED BY <1>1, <1>4, <1>5, <1>6, <1>7, <1>9, <2>1
     DEF p, Spares, Removing, Mine, Untouched, Writes
<1>10. ASSUME op[c].alone PROVE Alone(c)'
  <2>1. Alone(c)
    BY <1>2, <1>10
  <2>2. TagAlone(c)' /\ FillAlone(c)' /\ WriteAlone(c)' /\ ResetAlone(c)'
    BY <1>1, <1>4 DEF p, TagAlone, FillAlone, WriteAlone, ResetAlone, Writes
  <2>3. DeleteAlone(c)'
    BY <1>1, <1>2, <1>4, <1>5, <1>6, <1>7, <2>1 DEF p, Alone, Mine, At, DeleteAlone, Removing
  <2> QED BY <2>2, <2>3 DEF Alone
<1>11. Works(c)
  BY <1>1, <1>3, <1>4, <1>5, <1>6, <1>7, <1>8, <1>9, <1>10 DEF p, Works
<1> QED BY <1>1, <1>11, WorkKeeps

(* A blob of no other entry is removed. *)
LEMMA RemoveBlobKeeps ==
  ASSUME StoreAssumption, StoreInv, NEW c \in Clients, NEW b \in op[c].todo,
         RemoveBlob(c, b)
  PROVE  StoreInv'
<1> DEFINE o == op[c]
           p == op'[c]
<1>1. /\ ~At(c, "idle") /\ o.kind # "reset" /\ o.pc = "rmBlobs" /\ o.kind = "delete"
      /\ o.model \in Models /\ o.made = {}
  BY DEF RemoveBlob, At, StoreInv, Shape, IdleOp, Writes
<1>2. /\ up /\ DiskTyped /\ DOMAIN op = Clients /\ Good(index) /\ IsIndex(index)
      /\ Shape(o) /\ OpTyped(c) /\ OpSound(c) /\ (o.alone => Alone(c))
  BY <1>1, Busy
<1>3. o.todo \ {b} \in SUBSET Blobs
  BY <1>2 DEF OpTyped, OpRecord
<1>4. /\ p = [o EXCEPT !.todo = o.todo \ {b}] /\ DOMAIN op' = Clients
      /\ \A d \in Clients \ {c} : op'[d] = op[d]
  BY <1>2 DEF RemoveBlob
<1>5. /\ p \in OpRecord(p)
      /\ p.kind = o.kind /\ p.pc = o.pc /\ p.model = o.model /\ p.tag = o.tag /\ p.snap = o.snap
      /\ p.init = o.init /\ p.made = o.made /\ p.existed = o.existed /\ p.failed = o.failed
      /\ p.todo = o.todo \ {b} /\ p.alone = o.alone
  <2>1. o \in OpRecord(o)
    BY <1>2 DEF OpTyped
  <2> QED BY <1>1, <1>3, <1>4, <2>1 DEF OpRecord
<1>6. /\ index' = index /\ manifests' = manifests /\ bundles' = bundles
      /\ hasLayout' = hasLayout /\ up' = up /\ started' = started
      /\ hurt' = hurt /\ blobs \ {b} \subseteq blobs' /\ blobs' \subseteq blobs
  BY DEF RemoveBlob
<1>7. /\ DiskTyped' /\ Good(index') /\ up' = up /\ started' = started
      /\ (IF o.alone THEN hurt \subseteq hurt' \cup {Mine(c)} ELSE hurt \subseteq hurt')
  BY <1>1, <1>2, <1>3, <1>6 DEF DiskTyped, OpSound, OpTyped, Mine, Blobs
<1>8. ASSUME NoReset, NEW n \in Models \ hurt', n # Mine(c) PROVE Untouched(n)
  <2>1. Spares(c, n)
    BY <1>6, <1>8 DEF StoreInv, Kept
  <2> QED BY <1>1, <1>6, <1>8, <2>1 DEF Untouched, Spares, Removing
<1> HIDE DEF p
<1>9. OpTyped(c)' /\ OpSound(c)' /\ p # IdleOp
  <2>1. Shape(p)
    BY <1>1, <1>2, <1>3, <1>5 DEF Shape, IdleOp, Writes
  <2>2. p # IdleOp
    BY <1>1, <1>3, <1>5 DEF IdleOp
  <2> QED BY <1>1, <1>2, <1>3, <1>5, <2>1, <2>2 DEF p, OpTyped, OpSound
<1>10. ASSUME NoReset, NEW n \in Models \ hurt', n # Mine(c) PROVE Spares(c, n)'
  <2>1. Spares(c, n)
    BY <1>2, <1>1, <1>5, <1>6, <1>7, <1>8, <1>10 DEF StoreInv, Kept, Mine
  <2> QED BY <1>1, <1>3, <1>5, <1>6, <1>7, <1>8, <1>10, <2>1
     DEF p, Spares, Removing, Mine, Untouched, Writes
<1>11. ASSUME op[c].alone PROVE Alone(c)'
  <2>1. Alone(c)
    BY <1>2, <1>11
  <2>2. TagAlone(c)' /\ FillAlone(c)' /\ WriteAlone(c)' /\ ResetAlone(c)'
    BY <1>1, <1>5 DEF p, TagAlone, FillAlone, WriteAlone, ResetAlone, Writes
  <2>3. DeleteAlone(c)'
    BY <1>1, <1>2, <1>3, <1>5, <1>6, <1>7, <1>8, <2>1
       DEF p, Alone, Mine, At, DeleteAlone, Removing
  <2> QED BY <2>2, <2>3 DEF Alone
<1>12. Works(c)
  BY <1>1, <1>4, <1>5, <1>6, <1>7, <1>8, <1>9, <1>10, <1>11 DEF p, Works
<1> QED BY <1>1, <1>12, WorkKeeps

(* The last access of an operation changes the disk. *)
LEMMA LoadEnds ==
  ASSUME StoreAssumption, StoreInv, NEW c \in Clients, At(c, "addWrite"), op[c].kind = "load",
         AddEntry(c)
  PROVE  StoreInv'
<1>1. /\ ~At(c, "idle") /\ op[c].kind # "reset" /\ op[c].pc = "addWrite" /\ op[c].model \in Models
      /\ End(c) /\ bundles' = bundles /\ blobs' = blobs /\ up' = up /\ started' = started
  BY DEF At, StoreInv, Shape, IdleOp, Writes, AddEntry, FailWrite
<1>2. /\ up /\ DiskTyped /\ Good(index) /\ OpTyped(c) /\ OpSound(c) /\ (op[c].alone => Alone(c))
  BY <1>1, Busy
<1>3. CASE WriteIndex(op[c].snap) /\ Heal(c) /\ UNCHANGED manifests
  <2>1. index' = op[c].snap /\ hasLayout' = TRUE /\ manifests' = manifests
        /\ hurt' = IF op[c].alone THEN hurt \ {Mine(c)} ELSE hurt
    BY <1>3 DEF WriteIndex, Heal
  <2>2. DiskTyped' /\ Good(index')
    BY <1>1, <1>2, <2>1 DEF DiskTyped, OpTyped, OpSound
  <2>3. ASSUME NoReset, NEW n \in Models \ hurt', n # Mine(c) PROVE Untouched(n)
    <3>1. Spares(c, n)
      BY <2>1, <2>3 DEF StoreInv, Kept
    <3> QED BY <1>1, <2>1, <3>1 DEF Untouched, Spares
  <2>4. ASSUME op[c].alone, NEW n \in Models \ hurt', n = Mine(c) PROVE Whole(n)'
    BY <1>1, <1>2, <2>1, <2>4 DEF Alone, FillAlone, Whole, Mine
  <2> QED BY <1>1, <2>1, <2>2, <2>3, <2>4, EndKeeps
<1>4. CASE /\ manifests' = manifests \ {Mine(c)} /\ UNCHANGED <<index, hasLayout>>
           /\ IF op[c].existed THEN Damage(c) ELSE UNCHANGED hurt
  <2>1. /\ hurt \subseteq hurt' /\ hurt' \subseteq hurt \cup {Mine(c)}
        /\ (~op[c].existed => hurt' = hurt)
        /\ (op[c].existed => Mine(c) \in hurt')
    BY <1>4 DEF Damage
  <2>2. DiskTyped' /\ Good(index')
    BY <1>1, <1>2, <1>4, <2>1 DEF DiskTyped, Mine
  <2>3. ASSUME NoReset, NEW n \in Models \ hurt', n # Mine(c) PROVE Untouched(n)
    BY <1>1, <1>4, <2>3 DEF Untouched
  <2>4. ASSUME op[c].alone, NEW n \in Models \ hurt', n = Mine(c) PROVE Whole(n)'
    BY <1>1, <1>2, <1>4, <2>1, <2>4 DEF Alone, FillAlone, Whole, Mine
  <2> QED BY <1>1, <2>1, <2>2, <2>3, <2>4, EndKeeps
<1> QED BY <1>1, <1>3, <1>4 DEF AddEntry

(* A tag is written, the request ends. *)
LEMMA TagEnds ==
  ASSUME StoreAssumption, StoreInv, NEW c \in Clients, At(c, "tagWrite"), WriteIndex(op[c].snap),
         IF op[c].kind \in Writes THEN Heal(c) ELSE UNCHANGED hurt,
         End(c), UNCHANGED <<files, up, started>>
  PROVE  StoreInv'
<1>1. /\ ~At(c, "idle") /\ op[c].kind # "reset" /\ op[c].pc = "tagWrite"
      /\ op[c].kind \in Writes \/ (op[c].kind = "tag" /\ op[c].kind \notin Writes)
  BY DEF At, StoreInv, Shape, IdleOp, Writes
<1>2. /\ up /\ DiskTyped /\ Good(index) /\ OpTyped(c) /\ OpSound(c) /\ (op[c].alone => Alone(c))
  BY <1>1, Busy
<1>3. /\ index' = op[c].snap /\ hasLayout' = TRUE
      /\ manifests' = manifests /\ bundles' = bundles /\ blobs' = blobs /\ up' = up
      /\ started' = started
      /\ IF op[c].alone THEN hurt \subseteq hurt' \cup {Mine(c)} ELSE hurt \subseteq hurt'
      /\ hurt' \subseteq hurt /\ (op[c].kind \notin Writes => hurt' = hurt)
  BY DEF WriteIndex, Heal, files
<1>4. DiskTyped' /\ Good(index')
  BY <1>2, <1>3 DEF DiskTyped, OpTyped, OpSound
<1>5. ASSUME NoReset, NEW n \in Models \ hurt', n # Mine(c) PROVE Untouched(n)
  <2>1. Spares(c, n)
    BY <1>3, <1>5 DEF StoreInv, Kept
  <2> QED BY <1>1, <1>3, <2>1 DEF Untouched, Spares
<1>6. ASSUME op[c].alone, NEW n \in Models \ hurt', n = Mine(c) PROVE Whole(n)'
  <2>1. CASE op[c].kind \in Writes
    BY <1>1, <1>2, <1>3, <1>6, <2>1 DEF Alone, FillAlone, Whole, Mine
  <2>2. CASE op[c].kind = "tag"
    BY <1>1, <1>2, <1>3, <1>6, <2>2 DEF Alone, TagAlone, Whole, Mine, At, Writes
  <2> QED BY <1>1, <2>1, <2>2
<1> QED BY <1>1, <1>3, <1>4, <1>5, <1>6, EndKeeps

(* A tag is removed, the request ends. *)
LEMMA UntagEnds ==
  ASSUME StoreAssumption, StoreInv, NEW c \in Clients, At(c, "untagWrite"),
         WriteIndex(op[c].snap),
         End(c), UNCHANGED <<files, up, started, hurt>>
  PROVE  StoreInv'
<1>1. ~At(c, "idle") /\ op[c].kind # "reset" /\ op[c].pc = "untagWrite" /\ op[c].kind = "delete"
  BY DEF At, StoreInv, Shape, IdleOp, Writes
<1>2. /\ up /\ DiskTyped /\ Good(index) /\ OpTyped(c) /\ OpSound(c) /\ (op[c].alone => Alone(c))
  BY <1>1, Busy
<1>3. /\ index' = op[c].snap /\ hasLayout' = TRUE /\ hurt' = hurt
      /\ manifests' = manifests /\ bundles' = bundles /\ blobs' = blobs /\ up' = up
      /\ started' = started
  BY DEF WriteIndex, files
<1>4. DiskTyped' /\ Good(index')
  BY <1>2, <1>3 DEF DiskTyped, OpTyped, OpSound
<1>5. ASSUME NoReset, NEW n \in Models \ hurt', n # Mine(c) PROVE Untouched(n)
  <2>1. Spares(c, n)
    BY <1>3, <1>5 DEF StoreInv, Kept
  <2> QED BY <1>1, <1>3, <2>1 DEF Untouched, Spares
<1>6. ASSUME op[c].alone, NEW n \in Models \ hurt', n = Mine(c) PROVE Whole(n)'
  BY <1>1, <1>2, <1>3, <1>6 DEF Alone, DeleteAlone, Whole, Mine, At, Removing
<1> QED BY <1>1, <1>3, <1>4, <1>5, <1>6, EndKeeps

(* The index is written without the model, the delete ends. *)
LEMMA RemovedEnds ==
  ASSUME StoreAssumption, StoreInv, NEW c \in Clients, WriteRemoved(c)
  PROVE  StoreInv'
<1>1. /\ ~At(c, "idle") /\ op[c].kind # "reset" /\ op[c].pc = "rmBlobs" /\ op[c].kind = "delete"
      /\ op[c].model \in Models /\ End(c)
  BY DEF WriteRemoved, At, StoreInv, Shape, IdleOp, Writes
<1>2. /\ up /\ DiskTyped /\ Good(index) /\ OpTyped(c) /\ OpSound(c) /\ (op[c].alone => Alone(c))
  BY <1>1, Busy
<1>3. /\ manifests' = manifests /\ bundles' = bundles /\ blobs' = blobs /\ up' = up
      /\ started' = started
      /\ \/ /\ index' = op[c].snap /\ hasLayout' = TRUE
            /\ hurt' = IF Mine(c) \in manifests \cup bundles \/ ~op[c].alone THEN hurt ELSE hurt \ {Mine(c)}
         \/ index' = index /\ hasLayout' = hasLayout /\ hurt' = hurt \cup {Mine(c)}
  BY DEF WriteRemoved, WriteIndex, Heal, Damage, files
<1>4. DiskTyped' /\ Good(index')
  BY <1>1, <1>2, <1>3 DEF DiskTyped, OpTyped, OpSound, Mine
<1>5. IF op[c].alone THEN hurt \subseteq hurt' \cup {Mine(c)} ELSE hurt \subseteq hurt'
  BY <1>3
<1>6. ASSUME NoReset, NEW n \in Models \ hurt', n # Mine(c) PROVE Untouched(n)
  <2>1. Spares(c, n)
    BY <1>3, <1>6 DEF StoreInv, Kept
  <2> QED BY <1>1, <1>3, <2>1 DEF Untouched, Spares, Removing
<1>7. ASSUME op[c].alone, NEW n \in Models \ hurt', n = Mine(c) PROVE Whole(n)'
  BY <1>1, <1>2, <1>3, <1>7 DEF Alone, DeleteAlone, Whole, Mine, At, Removing
<1> QED BY <1>1, <1>3, <1>4, <1>5, <1>6, <1>7, EndKeeps

(* Each access of an operation, in the order of Work. *)
LEMMA WriteStepsKeep ==
  ASSUME StoreAssumption, StoreInv, NEW c \in Clients,
         \/ BeginWrite(c) \/ WriteConfig(c) \/ (\E l \in op[c].todo : WriteLayer(c, l))
         \/ LayersDone(c) \/ WriteManifest(c) \/ ReadIndexToAdd(c) \/ AddEntry(c)
  PROVE  StoreInv'
<1>1. CASE BeginWrite(c)
  BY <1>1, BeginWriteKeeps
<1>2. CASE WriteConfig(c)
  <2>1. At(c, "config") /\ op[c].pc = "config" /\ op[c].kind \in Writes
    BY <1>2 DEF WriteConfig, At, StoreInv, Shape, IdleOp, Writes
  <2>2. CASE Undo(c) /\ UNCHANGED blobs
    <3>1. UNCHANGED <<disk, up, started>> /\ hurt' = hurt
      BY <1>2, <2>2 DEF WriteConfig, disk, files
    <3> QED BY <2>1, <2>2, <3>1, UndoKeeps
  <2>3. CASE ~(Undo(c) /\ UNCHANGED blobs)
    BY <1>2, <2>1, <2>3, ConfigKeeps DEF WriteConfig
  <2> QED BY <2>2, <2>3
<1>3. CASE \E l \in op[c].todo : WriteLayer(c, l)
  <2>1. PICK l \in op[c].todo : WriteLayer(c, l)
    BY <1>3
  <2>2. CASE blobs' = blobs \cup {l} /\ op' = [op EXCEPT ![c].todo = @ \ {l}]
    BY <2>1, <2>2, LayerKeeps DEF WriteLayer
  <2>3. CASE UNCHANGED blobs /\ op[c].kind = "load" /\ End(c)
    <3>1. At(c, "layers") /\ UNCHANGED <<disk, up, started, hurt>>
      BY <2>1, <2>3 DEF WriteLayer, disk, files
    <3>2. ~At(c, "idle") /\ (op[c].alone => Alone(c))
      BY <3>1, Busy DEF At
    <3>3. op[c].alone /\ Mine(c) \in Models \ hurt => Whole(Mine(c))
      BY <2>3, <3>1, <3>2 DEF Alone, FillAlone, At
    <3> QED BY <2>3, <3>1, <3>2, <3>3, EndsSame
  <2>4. CASE UNCHANGED blobs /\ op[c].kind # "load" /\ op' = [op EXCEPT ![c].todo = @ \ {l}, ![c].failed = TRUE]
    <3>1. At(c, "layers") /\ UNCHANGED <<disk, up, started, hurt>>
      BY <2>1, <2>4 DEF WriteLayer, disk, files
    <3> QED BY <2>4, <3>1, LayerFails
  <2> QED BY <2>1, <2>2, <2>3, <2>4 DEF WriteLayer
<1>4. CASE LayersDone(c)
  <2>1. /\ At(c, "layers") /\ op[c].pc = "layers" /\ op[c].todo = {}
        /\ UNCHANGED <<disk, up, started, hurt>>
    BY <1>4 DEF LayersDone, At
  <2>2. CASE op[c].failed
    <3>1. op[c].kind \in Writes /\ Undo(c)
      BY <1>4, <2>1, <2>2 DEF LayersDone, StoreInv, Shape, IdleOp
    <3> QED BY <2>1, <3>1, UndoKeeps
  <2>3. CASE ~op[c].failed
    BY <1>4, <2>1, <2>3, LayersDoneKeeps DEF LayersDone
  <2> QED BY <2>2, <2>3
<1>5. CASE WriteManifest(c)
  <2>1. /\ At(c, "manifest") /\ op[c].pc = "manifest" /\ op[c].kind \in Writes \cup {"load"}
        /\ ~At(c, "idle")
    BY <1>5 DEF WriteManifest, At, StoreInv, Shape, IdleOp, Writes
  <2>2. CASE FailWrite(c) /\ UNCHANGED manifests
    <3>1. UNCHANGED <<disk, up, started, hurt>>
      BY <1>5, <2>2 DEF WriteManifest, disk, files
    <3>2. CASE op[c].kind = "load"
      <4>1. op[c].alone => Alone(c)
        BY <2>1, Busy
      <4>2. op[c].alone /\ Mine(c) \in Models \ hurt => Whole(Mine(c))
        BY <2>1, <4>1 DEF Alone, FillAlone
      <4> QED BY <2>1, <2>2, <3>1, <3>2, <4>2, EndsSame DEF FailWrite
    <3>3. CASE op[c].kind # "load"
      BY <2>1, <2>2, <3>1, <3>3, UndoKeeps DEF FailWrite
    <3> QED BY <3>2, <3>3
  <2>3. CASE ~(FailWrite(c) /\ UNCHANGED manifests)
    BY <1>5, <2>1, <2>3, ManifestKeeps DEF WriteManifest
  <2> QED BY <2>2, <2>3
<1>6. CASE ReadIndexToAdd(c)
  BY <1>6, AddReadKeeps
<1>7. CASE AddEntry(c)
  <2>1. At(c, "addWrite") /\ op[c].kind \in Writes \cup {"load"}
    BY <1>7 DEF AddEntry, At, StoreInv, Shape, IdleOp, Writes
  <2>2. CASE op[c].kind = "load"
    BY <1>7, <2>1, <2>2, LoadEnds
  <2>3. CASE op[c].kind # "load"
    <3>1. op[c].kind \in Writes
      BY <2>1, <2>3
    <3>2. CASE WriteIndex(op[c].snap) /\ UNCHANGED manifests /\ UNCHANGED hurt
      BY <1>7, <2>1, <2>3, <3>1, <3>2, AddKeeps, AddFails DEF AddEntry, FailWrite
    <3>3. CASE ~(WriteIndex(op[c].snap) /\ UNCHANGED manifests /\ UNCHANGED hurt)
      BY <1>7, <2>1, <2>3, <3>1, <3>3, AddFails DEF AddEntry, FailWrite
    <3> QED BY <3>2, <3>3
  <2> QED BY <2>2, <2>3
<1> QED BY <1>1, <1>2, <1>3, <1>4, <1>5, <1>6, <1>7

(* The steps that tag. *)
LEMMA TagStepsKeep ==
  ASSUME StoreAssumption, StoreInv, NEW c \in Clients, ReadIndexToTag(c) \/ WriteTags(c)
  PROVE  StoreInv'
<1>1. /\ op[c].pc \in {"tagRead", "tagWrite"} /\ op[c].kind \in Writes \cup {"tag"}
      /\ ~At(c, "idle") /\ op[c].kind # "reset"
  BY DEF ReadIndexToTag, WriteTags, At, StoreInv, Shape, IdleOp, Writes
<1>2. ASSUME FailTag(c), UNCHANGED <<disk, up, started, hurt>> PROVE StoreInv'
  <2>1. CASE op[c].kind = "tag"
    <3>1. op[c].alone /\ Mine(c) \in Models \ hurt => Whole(Mine(c))
      BY <1>1, <2>1, Busy DEF Alone, TagAlone
    <3> QED BY <1>1, <1>2, <2>1, <3>1, EndsSame DEF FailTag
  <2>2. CASE op[c].kind # "tag"
    BY <1>1, <1>2, <2>2, UndoKeeps DEF FailTag
  <2> QED BY <2>1, <2>2
<1>3. CASE ReadIndexToTag(c)
  BY <1>2, <1>3, TagReadKeeps DEF ReadIndexToTag, At
<1>4. CASE WriteTags(c)
  <2>1. CASE FailTag(c) /\ UNCHANGED <<index, hasLayout, hurt>>
    <3>1. UNCHANGED <<disk, up, started, hurt>>
      BY <1>4, <2>1 DEF WriteTags, disk
    <3> QED BY <1>2, <2>1, <3>1
  <2>2. CASE ~(FailTag(c) /\ UNCHANGED <<index, hasLayout, hurt>>)
    BY <1>4, <2>2, TagEnds DEF WriteTags
  <2> QED BY <2>1, <2>2
<1> QED BY <1>3, <1>4

(* The steps that undo a write. *)
LEMMA UndoStepsKeep ==
  ASSUME StoreAssumption, StoreInv, NEW c \in Clients,
         UndoIndex(c) \/ UndoManifest(c) \/ UndoConfig(c) \/ EndUndo(c)
  PROVE  StoreInv'
<1>1. /\ At(c, "undo") /\ op[c].pc = "undo" /\ op[c].kind \in Writes /\ op[c].kind # "reset"
      /\ ~At(c, "idle")
  BY DEF UndoIndex, UndoManifest, UndoConfig, EndUndo, At, StoreInv, Shape, IdleOp, Writes
<1>2. ASSUME NEW made \in SUBSET op[c].made, op' = [op EXCEPT ![c].made = made], Damage(c),
             UNCHANGED <<disk, up, started>>
      PROVE  StoreInv'
  BY <1>1, <1>2, UndoFails
<1>3. CASE UndoIndex(c)
  <2>1. CASE WriteIndex(op[c].init) /\ UNCHANGED hurt
    BY <1>1, <1>3, <2>1, UndoIndexKeeps DEF UndoIndex
  <2>2. CASE Damage(c) /\ UNCHANGED <<index, hasLayout>>
    <3>1. /\ op' = [op EXCEPT ![c].made = op[c].made \ {"index"}]
          /\ UNCHANGED <<disk, up, started>>
      BY <1>3, <2>2 DEF UndoIndex, disk
    <3> QED BY <1>2, <2>2, <3>1
  <2> QED BY <1>3, <2>1, <2>2 DEF UndoIndex
<1>4. CASE UndoManifest(c)
  <2>1. CASE manifests' = manifests \ {Mine(c)} /\ UNCHANGED hurt
    BY <1>1, <1>4, <2>1, UndoManifestKeeps DEF UndoManifest
  <2>2. CASE Damage(c) /\ UNCHANGED manifests
    <3>1. /\ op' = [op EXCEPT ![c].made = op[c].made \ {"manifest"}]
          /\ UNCHANGED <<disk, up, started>>
      BY <1>4, <2>2 DEF UndoManifest, disk, files
    <3> QED BY <1>2, <2>2, <3>1
  <2> QED BY <1>4, <2>1, <2>2 DEF UndoManifest
<1>5. CASE UndoConfig(c)
  <2>1. CASE blobs' = blobs \ {ConfigOf[Mine(c)]} /\ UNCHANGED hurt
    BY <1>1, <1>5, <2>1, UndoConfigKeeps DEF UndoConfig
  <2>2. CASE Damage(c) /\ UNCHANGED blobs
    <3>1. op' = [op EXCEPT ![c].made = {}] /\ UNCHANGED <<disk, up, started>>
      BY <1>5, <2>2 DEF UndoConfig, disk, files
    <3>2. {} \in SUBSET op[c].made
      OBVIOUS
    <3> QED BY <1>2, <2>2, <3>1, <3>2
  <2> QED BY <1>5, <2>1, <2>2 DEF UndoConfig
<1>6. CASE EndUndo(c)
  <2>1. End(c) /\ op[c].made = {} /\ UNCHANGED <<disk, up, started, hurt>>
    BY <1>6 DEF EndUndo
  <2>2. op[c].alone /\ Mine(c) \in Models \ hurt => Whole(Mine(c))
    BY <1>1, <2>1, Busy DEF Alone, WriteAlone
  <2> QED BY <1>1, <2>1, <2>2, EndsSame
<1> QED BY <1>3, <1>4, <1>5, <1>6

(* The steps of a delete. *)
LEMMA DeleteStepsKeep ==
  ASSUME StoreAssumption, StoreInv, NEW c \in Clients,
         \/ ReadIndexToUntag(c) \/ WriteUntagged(c) \/ FindToDelete(c)
         \/ RemoveManifest(c) \/ RemoveBundle(c) \/ (\E b \in op[c].todo : RemoveBlob(c, b))
         \/ WriteRemoved(c)
  PROVE  StoreInv'
<1>1. ASSUME op[c].pc \in {"untagWrite", "find"}, End(c),
             UNCHANGED <<disk, up, started, hurt>> PROVE StoreInv'
  <2>1. ~At(c, "idle") /\ op[c].kind = "delete"
    BY <1>1 DEF At, StoreInv, Shape, IdleOp, Writes
  <2>2. op[c].alone /\ Mine(c) \in Models \ hurt => Whole(Mine(c))
    BY <1>1, <2>1, Busy DEF Alone, DeleteAlone, Removing
  <2> QED BY <1>1, <2>1, <2>2, EndsSame
<1>2. CASE ReadIndexToUntag(c)
  BY <1>2, UntagReadKeeps DEF ReadIndexToUntag
<1>3. CASE WriteUntagged(c)
  <2>1. CASE WriteIndex(op[c].snap)
    BY <1>3, <2>1, UntagEnds, UntagKeeps DEF WriteUntagged
  <2>2. CASE End(c) /\ UNCHANGED <<index, hasLayout>>
    <3>1. op[c].pc = "untagWrite" /\ UNCHANGED <<disk, up, started, hurt>>
      BY <1>3, <2>2 DEF WriteUntagged, At, disk
    <3> QED BY <1>1, <2>2, <3>1
  <2> QED BY <1>3, <2>1, <2>2 DEF WriteUntagged
<1>4. CASE FindToDelete(c)
  <2>1. At(c, "find") /\ op[c].pc = "find" /\ UNCHANGED <<disk, up, started, hurt>>
    BY <1>4 DEF FindToDelete, At
  <2>2. CASE Mine(c) \in DOMAIN index
    BY <1>4, <2>1, <2>2, FindKeeps DEF FindToDelete
  <2>3. CASE Mine(c) \notin DOMAIN index
    BY <1>1, <1>4, <2>1, <2>3 DEF FindToDelete
  <2> QED BY <2>2, <2>3
<1>5. CASE RemoveManifest(c)
  BY <1>5, RemoveManifestKeeps
<1>6. CASE RemoveBundle(c)
  BY <1>6, RemoveBundleKeeps
<1>7. CASE \E b \in op[c].todo : RemoveBlob(c, b)
  BY <1>7, RemoveBlobKeeps
<1>8. CASE WriteRemoved(c)
  BY <1>8, RemovedEnds
<1> QED BY <1>2, <1>3, <1>4, <1>5, <1>6, <1>7, <1>8

(* No step of the store breaks the invariant. *)
LEMMA StoreKeeps ==
  ASSUME StoreAssumption, StoreInv, [Next]_vars
  PROVE  StoreInv'
<1>1. CASE UNCHANGED vars
  <2>1. /\ index' = index /\ manifests' = manifests /\ blobs' = blobs /\ bundles' = bundles
        /\ hasLayout' = hasLayout /\ up' = up /\ op' = op /\ started' = started /\ hurt' = hurt
    BY <1>1 DEF vars
  <2>2. TypeOK'
    BY <2>1 DEF StoreInv, TypeOK
  <2>3. Apart' /\ Marked'
    BY <2>1 DEF StoreInv, Apart, Marked, At, Mine
  <2>4. \A n : Whole(n) <=> Whole(n)'
    BY <2>1 DEF Whole
  <2>5. \A c, n : Spares(c, n) <=> Spares(c, n)'
    BY <2>1 DEF Spares, Mine
  <2>6. NoReset' => Kept'
    BY <2>1, <2>4, <2>5 DEF StoreInv, NoReset, Kept, Active, At, Mine
  <2>7. ASSUME NEW c PROVE Alone(c) <=> Alone(c)'
    <3>1. TagAlone(c) <=> TagAlone(c)'
      BY <2>1, <2>4 DEF TagAlone, At, Mine
    <3>2. DeleteAlone(c) <=> DeleteAlone(c)'
      BY <2>1, <2>4 DEF DeleteAlone, At, Mine
    <3>3. FillAlone(c) <=> FillAlone(c)'
      BY <2>1, <2>4 DEF FillAlone, At, Mine
    <3>4. WriteAlone(c) <=> WriteAlone(c)'
      BY <2>1, <2>4 DEF WriteAlone, At, Mine
    <3>5. ResetAlone(c) <=> ResetAlone(c)'
      BY <2>1 DEF ResetAlone, At
    <3> QED BY <3>1, <3>2, <3>3, <3>4, <3>5 DEF Alone
  <2> QED BY <2>1, <2>2, <2>3, <2>6, <2>7 DEF StoreInv
<1>2. CASE Start
  BY <1>2, StartKeeps
<1>3. CASE Crash
  BY <1>3, CrashKeeps
<1>4. ASSUME NEW c \in Clients, Request(c) PROVE StoreInv'
  BY <1>4, RequestKeeps
<1>5. ASSUME NEW c \in Clients, Work(c) PROVE StoreInv'
  BY <1>5, WriteStepsKeep, TagStepsKeep, UndoStepsKeep, DeleteStepsKeep, RemovePartKeeps DEF Work
<1>6. ASSUME NEW m \in Models, MakeBundle(m) PROVE StoreInv'
  BY <1>6, MakeBundleKeeps
<1> QED BY <1>1, <1>2, <1>3, <1>4, <1>5, <1>6 DEF Next

(* What the runs check of the store follows from the invariant. *)
LEMMA StoreKept ==
  ASSUME StoreInv
  PROVE  TypeOK /\ OneOwner /\ DamageIsolated
<1>1. OneOwner
  BY DEF StoreInv, Apart, OneOwner
<1>2. DamageIsolated
  BY DEF StoreInv, NoReset, Kept, DamageIsolated
<1> QED BY <1>1, <1>2 DEF StoreInv

-----------------------------------------------------------------------------
(***************************************************************************)
(* What an operation that is alone remembers: a write the index that it    *)
(* would restore, a tagging the index that it is about to write.  From it  *)
(* follow two promises about single steps.                                 *)
(***************************************************************************)
Remembers(c) ==
  op[c].alone =>
    /\ op[c].kind \in Writes /\ ~At(c, "write") /\ "index" \notin op[c].made /\ Mine(c) \notin hurt
         => index = op[c].init
    /\ At(c, "tagWrite") => op[c].snap = Tagged(index, op[c].model, op[c].tag)
Remembered == \A c \in Clients : Remembers(c)

LEMMA RememberedInit ==
  ASSUME Init PROVE Remembered
BY DEF Init, IdleOp, Remembered, Remembers, At, Writes

(* An operation that ends, or goes on and leaves the index alone. *)
LEMMA EndRemembers ==
  ASSUME NEW c, op'[c] = IdleOp PROVE Remembers(c)'
BY DEF Remembers, IdleOp

LEMMA StillRemembers ==
  ASSUME NEW c, Remembers(c), ~At(c, "write"), op'[c].pc # "tagWrite", index' = index,
         op'[c].kind = op[c].kind, op'[c].alone = op[c].alone, op'[c].model = op[c].model,
         op'[c].init = op[c].init, "index" \in op[c].made => "index" \in op'[c].made,
         hurt \subseteq hurt'
  PROVE  Remembers(c)'
BY DEF Remembers, At, Mine

(* The fields of an operation that moves. *)
LEMMA FieldsOf ==
  ASSUME StoreInv, NEW c \in Clients
  PROVE  /\ op[c] \in OpRecord(op[c]) /\ DOMAIN op = Clients
         /\ op[c].kind \in Writes /\ op[c].pc = "tagWrite" => "index" \in op[c].made
         /\ op[c].pc \in {"config", "layers", "manifest", "addRead", "addWrite"} => "index" \notin op[c].made
         /\ op[c].pc \in {"config", "layers", "manifest", "addRead", "addWrite"} => op[c].kind \in Writes \cup {"load"}
         /\ op[c].pc = "undo" => op[c].kind \in Writes
         /\ op[c].pc \in {"untagRead", "untagWrite", "find"} \cup Removing => op[c].kind = "delete"
         /\ op[c].pc = "idle" => op[c] = IdleOp
BY DEF StoreInv, TypeOK, Shape, IdleOp, Writes, Removing

LEMMA WritingRemembers ==
  ASSUME StoreInv, NEW c \in Clients, Remembers(c),
         \/ BeginWrite(c) \/ WriteConfig(c) \/ (\E l \in op[c].todo : WriteLayer(c, l))
         \/ LayersDone(c) \/ WriteManifest(c) \/ ReadIndexToAdd(c)
  PROVE  Remembers(c)'
<1>1. /\ op[c] \in OpRecord(op[c]) /\ DOMAIN op = Clients
      /\ op[c].pc \in {"config", "layers", "manifest", "addRead"} => "index" \notin op[c].made
  BY FieldsOf
<1>2. ASSUME BeginWrite(c) PROVE Remembers(c)'
  <2>1. index' = index /\ op'[c] = [op[c] EXCEPT !.init = index, !.pc = "config"]
    BY <1>1, <1>2 DEF BeginWrite, disk
  <2>2. op'[c].init = index' /\ op'[c].pc = "config"
    BY <1>1, <2>1 DEF OpRecord
  <2> QED BY <2>2 DEF Remembers, At
<1>3. ASSUME End(c) PROVE Remembers(c)'
  BY <1>1, <1>3, EndRemembers DEF End
<1>4. ASSUME Undo(c), index' = index, hurt' = hurt, ~At(c, "write") PROVE Remembers(c)'
  <2>1. op'[c] = [op[c] EXCEPT !.pc = "undo", !.failed = TRUE]
    BY <1>1, <1>4 DEF Undo
  <2>2. /\ op'[c].pc = "undo" /\ op'[c].kind = op[c].kind /\ op'[c].alone = op[c].alone
        /\ op'[c].model = op[c].model /\ op'[c].init = op[c].init /\ op'[c].made = op[c].made
    BY <1>1, <2>1 DEF OpRecord
  <2> QED BY <1>4, <2>2, StillRemembers
<1>5. ASSUME WriteConfig(c) PROVE Remembers(c)'
  <2>1. index' = index /\ hurt' = hurt /\ op[c].pc = "config" /\ ~At(c, "write")
    BY <1>5 DEF WriteConfig, At
  <2>2. CASE Undo(c)
    BY <1>4, <2>1, <2>2
  <2>3. CASE ~Undo(c)
    <3> DEFINE new == IF ConfigOf[Mine(c)] \notin blobs THEN {"config"} ELSE {}
               next == IF op[c].kind = "light" THEN "manifest" ELSE "layers"
               left == IF op[c].kind = "light" THEN {} ELSE LayersOf[Mine(c)]
    <3>0. op' = [op EXCEPT ![c].made = new, ![c].pc = next, ![c].todo = left]
      BY <1>5, <2>3 DEF WriteConfig
    <3>1. next \in {"manifest", "layers"}
      OBVIOUS
    <3> HIDE DEF new, next, left
    <3>2. op'[c] = [op[c] EXCEPT !.made = new, !.pc = next, !.todo = left]
      BY <1>1, <3>0
    <3>3. /\ op'[c].pc = next /\ op'[c].kind = op[c].kind /\ op'[c].alone = op[c].alone
          /\ op'[c].model = op[c].model /\ op'[c].init = op[c].init
      BY <1>1, <3>2 DEF OpRecord
    <3> QED BY <1>1, <2>1, <3>1, <3>3, StillRemembers
  <2> QED BY <2>2, <2>3
<1>6. ASSUME NEW l \in op[c].todo, WriteLayer(c, l) PROVE Remembers(c)'
  <2>1. index' = index /\ hurt' = hurt /\ op[c].pc = "layers" /\ ~At(c, "write")
    BY <1>6 DEF WriteLayer, At
  <2>2. CASE End(c)
    BY <1>3, <2>2
  <2>3. CASE ~End(c)
    <3>1. \/ op' = [op EXCEPT ![c].todo = @ \ {l}]
          \/ op' = [op EXCEPT ![c].todo = @ \ {l}, ![c].failed = TRUE]
      BY <1>6, <2>3 DEF WriteLayer
    <3>2. /\ op'[c].pc = op[c].pc /\ op'[c].kind = op[c].kind /\ op'[c].alone = op[c].alone
          /\ op'[c].model = op[c].model /\ op'[c].init = op[c].init /\ op'[c].made = op[c].made
      BY <1>1, <3>1 DEF OpRecord
    <3> QED BY <2>1, <3>2, StillRemembers
  <2> QED BY <2>2, <2>3
<1>7. ASSUME op[c].pc = "layers" \/ op[c].pc = "manifest", index' = index, hurt' = hurt,
             NEW pc, pc # "tagWrite", NEW existed,
             op' = [op EXCEPT ![c].pc = pc] \/ op' = [op EXCEPT ![c].pc = pc, ![c].existed = existed]
      PROVE  Remembers(c)'
  <2>1. /\ op'[c].pc = pc /\ op'[c].kind = op[c].kind /\ op'[c].alone = op[c].alone
        /\ op'[c].model = op[c].model /\ op'[c].init = op[c].init /\ op'[c].made = op[c].made
    BY <1>1, <1>7 DEF OpRecord
  <2> QED BY <1>7, <2>1, StillRemembers DEF At
<1>8. ASSUME LayersDone(c) PROVE Remembers(c)'
  <2>1. index' = index /\ hurt' = hurt /\ op[c].pc = "layers" /\ ~At(c, "write")
    BY <1>8 DEF LayersDone, At, disk
  <2>2. Undo(c) \/ Go(c, "manifest")
    BY <1>8 DEF LayersDone
  <2> QED BY <1>4, <1>7, <2>1, <2>2 DEF Go
<1>9. ASSUME WriteManifest(c) PROVE Remembers(c)'
  <2>1. index' = index /\ hurt' = hurt /\ op[c].pc = "manifest" /\ ~At(c, "write")
    BY <1>9 DEF WriteManifest, At
  <2>2. \/ End(c) \/ Undo(c)
        \/ op' = [op EXCEPT ![c].pc = "addRead", ![c].existed = Mine(c) \in manifests]
    BY <1>9 DEF WriteManifest, FailWrite
  <2> QED BY <1>3, <1>4, <1>7, <2>1, <2>2
<1>10. ASSUME ReadIndexToAdd(c) PROVE Remembers(c)'
  <2>1. index' = index /\ hurt' = hurt /\ op[c].pc = "addRead"
        /\ op' = [op EXCEPT ![c].snap = Added(index, Mine(c)), ![c].pc = "addWrite"]
    BY <1>10 DEF ReadIndexToAdd, At, disk
  <2>2. /\ op'[c].pc = "addWrite" /\ op'[c].kind = op[c].kind /\ op'[c].alone = op[c].alone
        /\ op'[c].model = op[c].model /\ op'[c].init = op[c].init /\ op'[c].made = op[c].made
    BY <1>1, <2>1 DEF OpRecord
  <2> QED BY <2>1, <2>2, StillRemembers DEF At
<1> QED BY <1>2, <1>5, <1>6, <1>8, <1>9, <1>10

LEMMA EntryRemembers ==
  ASSUME StoreInv, NEW c \in Clients, Remembers(c), AddEntry(c) \/ ReadIndexToTag(c) \/ WriteTags(c)
  PROVE  Remembers(c)'
<1>1. /\ op[c] \in OpRecord(op[c]) /\ DOMAIN op = Clients
      /\ op[c].kind \in Writes /\ op[c].pc = "tagWrite" => "index" \in op[c].made
  BY FieldsOf
<1>3. ASSUME End(c) PROVE Remembers(c)'
  BY <1>1, <1>3, EndRemembers DEF End
<1>4. ASSUME Undo(c), index' = index, hurt \subseteq hurt', ~At(c, "write") PROVE Remembers(c)'
  <2>1. op'[c] = [op[c] EXCEPT !.pc = "undo", !.failed = TRUE]
    BY <1>1, <1>4 DEF Undo
  <2>2. /\ op'[c].pc = "undo" /\ op'[c].kind = op[c].kind /\ op'[c].alone = op[c].alone
        /\ op'[c].model = op[c].model /\ op'[c].init = op[c].init /\ op'[c].made = op[c].made
    BY <1>1, <2>1 DEF OpRecord
  <2> QED BY <1>4, <2>2, StillRemembers
<1>5. ASSUME AddEntry(c) PROVE Remembers(c)'
  <2>1. CASE End(c)
    BY <1>3, <2>1
  <2>2. CASE Undo(c) /\ index' = index /\ hurt \subseteq hurt'
    <3>1. ~At(c, "write")
      BY <1>5 DEF AddEntry, At
    <3> QED BY <1>4, <2>2, <3>1
  <2>3. CASE op' = [op EXCEPT ![c].pc = "tagRead", ![c].made = @ \cup {"index"} \cup (IF op[c].existed THEN {} ELSE {"manifest"})]
    <3> DEFINE more == IF op[c].existed THEN {} ELSE {"manifest"}
    <3>1. op' = [op EXCEPT ![c].pc = "tagRead", ![c].made = @ \cup {"index"} \cup more]
      BY <2>3
    <3> HIDE DEF more
    <3>2. op'[c].pc = "tagRead" /\ "index" \in op'[c].made
      BY <1>1, <3>1 DEF OpRecord
    <3> QED BY <3>2 DEF Remembers, At
  <2> QED BY ONLY <1>5, <2>1, <2>2, <2>3 DEF AddEntry, FailWrite, Damage
<1>6. ASSUME FailTag(c), index' = index, hurt' = hurt, ~At(c, "write") PROVE Remembers(c)'
  BY <1>3, <1>4, <1>6 DEF FailTag
<1>7. ASSUME ReadIndexToTag(c) PROVE Remembers(c)'
  <2>1. index' = index /\ hurt' = hurt /\ op[c].pc = "tagRead" /\ ~At(c, "write")
    BY <1>7 DEF ReadIndexToTag, At, disk
  <2>2. CASE FailTag(c)
    BY <1>6, <2>1, <2>2
  <2>3. CASE ~FailTag(c)
    <3>1. op' = [op EXCEPT ![c].snap = Tagged(index, op[c].model, op[c].tag), ![c].pc = "tagWrite"]
      BY <1>7, <2>3 DEF ReadIndexToTag
    <3>2. /\ op'[c].pc = "tagWrite" /\ op'[c].kind = op[c].kind /\ op'[c].alone = op[c].alone
          /\ op'[c].model = op[c].model /\ op'[c].init = op[c].init /\ op'[c].made = op[c].made
          /\ op'[c].tag = op[c].tag /\ op'[c].snap = Tagged(index, op[c].model, op[c].tag)
      BY <1>1, <3>1 DEF OpRecord
    <3>3. Tagged(index, op[c].model, op[c].tag)' = Tagged(index, op[c].model, op[c].tag)
      BY <2>1, <3>2 DEF Tagged, Named
    <3> QED BY <2>1, <3>2, <3>3 DEF Remembers, At, Mine
  <2> QED BY <2>2, <2>3
<1>8. ASSUME WriteTags(c) PROVE Remembers(c)'
  <2>1. CASE End(c)
    BY <1>3, <2>1
  <2>2. CASE FailTag(c) /\ UNCHANGED <<index, hasLayout, hurt>>
    BY <1>6, <1>8, <2>2 DEF WriteTags, At
  <2> QED BY <1>8, <2>1, <2>2 DEF WriteTags
<1> QED BY <1>5, <1>7, <1>8

LEMMA UndoingRemembers ==
  ASSUME StoreInv, NEW c \in Clients, Remembers(c),
         UndoIndex(c) \/ UndoManifest(c) \/ UndoConfig(c) \/ EndUndo(c)
  PROVE  Remembers(c)'
<1>1. op[c] \in OpRecord(op[c]) /\ DOMAIN op = Clients
  BY FieldsOf
<1>2. CASE EndUndo(c)
  BY <1>1, <1>2, EndRemembers DEF EndUndo, End
<1>3. ASSUME NEW gone, op' = [op EXCEPT ![c].made = gone]
      PROVE  /\ op'[c].pc = op[c].pc /\ op'[c].kind = op[c].kind /\ op'[c].alone = op[c].alone
             /\ op'[c].model = op[c].model /\ op'[c].init = op[c].init /\ op'[c].made = gone
  BY <1>1, <1>3 DEF OpRecord
<1>4. CASE UndoIndex(c)
  <2>1. op'[c].pc = "undo" /\ op'[c].init = op[c].init /\ op'[c].model = op[c].model
    BY <1>3, <1>4 DEF UndoIndex, At
  <2>2. index' = op[c].init \/ Mine(c) \in hurt'
    BY <1>4 DEF UndoIndex, WriteIndex, Damage
  <2> QED BY <2>1, <2>2 DEF Remembers, At, Mine
<1>5. CASE UndoManifest(c) \/ UndoConfig(c)
  <2>1. op[c].pc = "undo" /\ index' = index /\ hurt \subseteq hurt' /\ "index" \notin op[c].made
    BY <1>5 DEF UndoManifest, UndoConfig, Damage, At
  <2>2. \E gone : op' = [op EXCEPT ![c].made = gone]
    BY <1>5 DEF UndoManifest, UndoConfig
  <2> QED BY <1>3, <2>1, <2>2, StillRemembers DEF At
<1> QED BY <1>2, <1>4, <1>5

LEMMA OthersRemember ==
  ASSUME StoreInv, NEW c \in Clients, Remembers(c),
         \/ ReadIndexToUntag(c) \/ WriteUntagged(c) \/ FindToDelete(c)
         \/ RemoveManifest(c) \/ RemoveBundle(c) \/ (\E b \in op[c].todo : RemoveBlob(c, b))
         \/ WriteRemoved(c) \/ (\E i \in DOMAIN Parts : RemovePart(c, i))
  PROVE  Remembers(c)'
<1>1. op[c] \in OpRecord(op[c]) /\ DOMAIN op = Clients
  BY FieldsOf
<1>2. op[c].kind \notin Writes
  <2>1. CASE \E i \in DOMAIN Parts : RemovePart(c, i)
    BY <2>1 DEF RemovePart, Writes
  <2>2. CASE ~\E i \in DOMAIN Parts : RemovePart(c, i)
    BY <2>2, FieldsOf DEF ReadIndexToUntag, WriteUntagged, FindToDelete, RemoveManifest, RemoveBundle,
       RemoveBlob, WriteRemoved, At, Removing, Writes
  <2> QED BY <2>1, <2>2
<1>3. ASSUME op'[c].kind = op[c].kind, op'[c].pc # "tagWrite" PROVE Remembers(c)'
  BY <1>2, <1>3 DEF Remembers, At
<1>4. CASE End(c)
  BY <1>1, <1>4, EndRemembers DEF End
<1>5. ASSUME NEW pc, pc # "tagWrite", Go(c, pc) PROVE Remembers(c)'
  <2>1. op'[c].kind = op[c].kind /\ op'[c].pc = pc
    BY <1>1, <1>5 DEF Go, OpRecord
  <2> QED BY <1>3, <1>5, <2>1
<1>6. CASE ReadIndexToUntag(c) \/ FindToDelete(c)
  <2>1. CASE ~End(c)
    <3>1. op'[c].kind = op[c].kind /\ op'[c].pc \in {"untagWrite", "rmManifest"}
      BY <1>1, <1>6, <2>1 DEF ReadIndexToUntag, FindToDelete, OpRecord
    <3> QED BY <1>3, <3>1
  <2> QED BY <1>4, <2>1
<1>7. CASE WriteUntagged(c) \/ RemoveManifest(c) \/ RemoveBundle(c) \/ WriteRemoved(c)
  <2>1. End(c) \/ Go(c, "find") \/ Go(c, "rmBundle") \/ Go(c, "rmBlobs")
    BY <1>7 DEF WriteUntagged, RemoveManifest, RemoveBundle, WriteRemoved
  <2> QED BY <1>4, <1>5, <2>1
<1>8. ASSUME NEW b \in op[c].todo, RemoveBlob(c, b) PROVE Remembers(c)'
  <2>1. op'[c].kind = op[c].kind /\ op'[c].pc = "rmBlobs"
    BY <1>1, <1>8 DEF RemoveBlob, At, OpRecord
  <2> QED BY <1>3, <2>1
<1>9. ASSUME NEW i \in DOMAIN Parts, RemovePart(c, i) PROVE Remembers(c)'
  <2>1. CASE End(c)
    BY <1>4, <2>1
  <2>2. CASE ~End(c)
    <3>1. Go(c, Parts[i + 1]) /\ Parts[i] # "models.json"
      BY <1>9, <2>2 DEF RemovePart
    <3>2. Parts[i + 1] # "tagWrite"
      <4>1. i \in 1 .. 4
        BY <3>1 DEF Parts
      <4> QED BY <4>1 DEF Parts
    <3> QED BY <1>5, <3>1, <3>2
  <2> QED BY <2>1, <2>2
<1> QED BY <1>6, <1>7, <1>8, <1>9

(* A client at work moves its own operation, which is under way. *)
LEMMA WorkIsOwn ==
  ASSUME StoreInv, NEW d \in Clients, Work(d)
  PROVE  ~At(d, "idle") /\ \A c \in Clients : c # d => op'[c] = op[c]
<1> DOMAIN op = Clients
  BY FieldsOf
<1>1. CASE BeginWrite(d) \/ WriteConfig(d)
  BY <1>1 DEF BeginWrite, WriteConfig, At, Undo
<1>2. CASE \E l \in op[d].todo : WriteLayer(d, l)
  BY <1>2 DEF WriteLayer, At, End
<1>3. CASE LayersDone(d)
  BY <1>3 DEF LayersDone, At, Undo, Go
<1>4. CASE WriteManifest(d) \/ AddEntry(d)
  <2>1. CASE WriteManifest(d)
    BY <2>1 DEF WriteManifest, At, FailWrite, Undo, End
  <2>2. CASE AddEntry(d)
    BY <2>2 DEF AddEntry, At, FailWrite, Undo, End
  <2> QED BY <1>4, <2>1, <2>2
<1>5. CASE ReadIndexToAdd(d) \/ ReadIndexToUntag(d)
  BY <1>5 DEF ReadIndexToAdd, ReadIndexToUntag, At
<1>6. CASE ReadIndexToTag(d) \/ WriteTags(d)
  BY <1>6 DEF ReadIndexToTag, WriteTags, At, FailTag, End, Undo
<1>7. CASE UndoIndex(d) \/ UndoManifest(d) \/ UndoConfig(d) \/ EndUndo(d)
  BY <1>7 DEF UndoIndex, UndoManifest, UndoConfig, EndUndo, At, End
<1>8. CASE WriteUntagged(d) \/ FindToDelete(d) \/ RemoveManifest(d) \/ RemoveBundle(d) \/ WriteRemoved(d)
  BY <1>8 DEF WriteUntagged, FindToDelete, RemoveManifest, RemoveBundle, WriteRemoved, At, End, Go
<1>9. CASE \E b \in op[d].todo : RemoveBlob(d, b)
  BY <1>9 DEF RemoveBlob, At
<1>10. CASE \E i \in DOMAIN Parts : RemovePart(d, i)
  <2>1. PICK i \in DOMAIN Parts : RemovePart(d, i)
    BY <1>10
  <2>2. Parts[i] # "idle"
    BY DEF Parts
  <2>3. op[d].pc = Parts[i] /\ (End(d) \/ Go(d, Parts[i + 1]))
    BY <2>1 DEF RemovePart, At
  <2> QED BY <2>2, <2>3 DEF At, End, Go
<1> QED BY <1>1, <1>2, <1>3, <1>4, <1>5, <1>6, <1>7, <1>8, <1>9, <1>10 DEF Work

(* While a write is undone, its client does nothing else. *)
LEMMA UndoWorks ==
  ASSUME NEW c \in Clients, Work(c), At(c, "undo")
  PROVE  UndoIndex(c) \/ UndoManifest(c) \/ UndoConfig(c) \/ EndUndo(c)
<1>1. /\ ~BeginWrite(c) /\ ~WriteConfig(c) /\ ~LayersDone(c) /\ ~WriteManifest(c)
      /\ ~ReadIndexToAdd(c) /\ ~AddEntry(c) /\ ~ReadIndexToTag(c) /\ ~WriteTags(c)
  BY DEF BeginWrite, WriteConfig, LayersDone, WriteManifest, ReadIndexToAdd, AddEntry,
     ReadIndexToTag, WriteTags, At
<1>2. /\ ~ReadIndexToUntag(c) /\ ~WriteUntagged(c) /\ ~FindToDelete(c) /\ ~RemoveManifest(c)
      /\ ~RemoveBundle(c) /\ ~WriteRemoved(c)
  BY DEF ReadIndexToUntag, WriteUntagged, FindToDelete, RemoveManifest, RemoveBundle, WriteRemoved, At
<1>3. (\A l \in op[c].todo : ~WriteLayer(c, l)) /\ \A b \in op[c].todo : ~RemoveBlob(c, b)
  BY DEF WriteLayer, RemoveBlob, At
<1>4. ASSUME NEW i \in DOMAIN Parts PROVE ~RemovePart(c, i)
  <2>1. Parts[i] # "undo"
    BY DEF Parts
  <2> QED BY <2>1 DEF RemovePart, At
<1> QED BY <1>1, <1>2, <1>3, <1>4 DEF Work

LEMMA StoreRemembers ==
  ASSUME StoreAssumption, StoreInv, Remembered, Next \/ UNCHANGED vars
  PROVE  Remembered'
<1> SUFFICES ASSUME NEW c \in Clients PROVE Remembers(c)'
  BY DEF Remembered
<1>1. Remembers(c)
  BY DEF Remembered
<1>2. CASE UNCHANGED vars
  <2>1. index' = index /\ hurt' = hurt /\ op' = op
    BY <1>2 DEF vars
  <2> QED BY <1>1, <2>1 DEF Remembers, At, Mine, Tagged, Named
<1>3. CASE Start
  <2>1. op[c] = IdleOp /\ op' = op
    BY <1>3 DEF Start, StoreInv
  <2> QED BY <2>1, EndRemembers
<1>4. CASE Crash
  BY <1>4, EndRemembers DEF Crash
<1>5. CASE \E m \in Models : MakeBundle(m)
  <2>1. index' = index /\ op' = op /\ hurt \subseteq hurt'
    BY <1>5 DEF MakeBundle
  <2> QED BY <1>1, <2>1 DEF Remembers, At, Mine, Tagged, Named
<1>6. ASSUME NEW d \in Clients, Request(d) PROVE Remembers(c)'
  <2>1. PICK r : Starting(r) /\ Begin(d, r)
    BY <1>6, RequestBegins
  <2>2. op'[c] = IF c = d THEN [r EXCEPT !.alone = (Active = {})] ELSE [op[c] EXCEPT !.alone = FALSE]
    BY <2>1 DEF Begin
  <2>3. CASE c = d
    <3>1. op'[c].kind = r.kind /\ op'[c].pc = r.pc
      BY <2>1, <2>2, <2>3 DEF Starting, OpRecord
    <3> QED BY <2>1, <3>1 DEF Starting, Remembers, At, Writes
  <2>4. CASE c # d
    <3>1. ~op'[c].alone
      BY <2>2, <2>4, FieldsOf DEF OpRecord
    <3> QED BY <3>1 DEF Remembers
  <2> QED BY <2>3, <2>4
<1>7. ASSUME NEW d \in Clients, Work(d) PROVE Remembers(c)'
  <2>1. CASE c = d
    BY <1>1, <1>7, <2>1, WritingRemembers, EntryRemembers, UndoingRemembers, OthersRemember DEF Work
  <2>2. CASE c # d
    <3>1. ~At(d, "idle") /\ op'[c] = op[c]
      BY <1>7, <2>2, WorkIsOwn
    <3>2. CASE At(c, "idle")
      BY <3>1, <3>2, FieldsOf, EndRemembers DEF At
    <3>3. CASE ~At(c, "idle")
      <4>1. ~op[c].alone
        BY <2>2, <3>1, <3>3 DEF StoreInv, Marked
      <4> QED BY <3>1, <4>1 DEF Remembers
    <3> QED BY <3>2, <3>3
  <2> QED BY <2>1, <2>2
<1> QED BY <1>2, <1>3, <1>4, <1>5, <1>6, <1>7 DEF Next

(* No tag is cut off the front of another one. *)
NothingCut == \A r, t \in Normal : Rest[r][t] = IF r = t THEN NoTag ELSE t

LEMMA TagNames ==
  ASSUME StoreAssumption, NothingCut, NEW idx, IsIndex(idx), NEW ref \in Models \cup Normal,
         NEW tag \in Normal
  PROVE  Named(Tagged(idx, ref, tag), tag) = Named(idx, ref)
<1>1. Normal \subseteq Tags /\ DOMAIN idx \subseteq Models
  BY DEF Normal, StoreAssumption, IsIndex
<1>2. tag # NoTag /\ tag \notin Models
  BY <1>1 DEF StoreAssumption
<1>3. CASE ref \in Normal /\ ref = tag
  BY <1>1, <1>3 DEF NothingCut, Tagged
<1>4. CASE ref # tag
  <2>1. (IF ref \in Tags THEN Rest[ref][tag] ELSE tag) = tag
    <3>1. ref \in Tags => ref \in Normal
      BY DEF StoreAssumption
    <3> QED BY <1>4, <3>1 DEF NothingCut
  <2>2. Tagged(idx, ref, tag) =
          [m \in DOMAIN idx |-> IF m \in Named(idx, ref) THEN idx[m] \cup {tag} ELSE idx[m] \ {tag}]
    BY <1>2, <2>1 DEF Tagged
  <2> QED BY <1>1, <1>2, <2>2 DEF Named
<1> QED BY <1>2, <1>3, <1>4

(* The two promises about single steps. *)
LEMMA StepsExact ==
  ASSUME StoreAssumption, StoreInv, Remembered, NothingCut, Next
  PROVE  FailedWriteUndoneStep /\ TagNamesModelStep
<1>1. FailedWriteUndoneStep
  <2> SUFFICES ASSUME NEW c \in Clients, At(c, "undo"), op'[c].pc = "idle", up', op[c].alone, Mine(c) \notin hurt
               PROVE  index' = op[c].init /\ (Mine(c) \in manifests' => Mine(c) \in DOMAIN index')
    BY DEF FailedWriteUndoneStep
  <2>1. op[c].kind \in Writes /\ ~At(c, "idle") /\ ~At(c, "write") /\ op[c] \in OpRecord(op[c])
        /\ DOMAIN op = Clients
    BY FieldsOf DEF At
  <2>2. EndUndo(c)
    <3>1. \A d \in Clients : d # c => At(d, "idle")
      BY <2>1 DEF StoreInv, Marked
    <3>2. ~Start /\ ~Crash /\ ~\E m \in Models : MakeBundle(m)
      BY <2>1, Busy DEF Start, Crash, MakeBundle, At
    <3>3. ASSUME NEW d \in Clients, Request(d) PROVE FALSE
      <4>1. PICK r : Idle(d) /\ Starting(r) /\ Begin(d, r)
        BY <3>3, RequestBegins
      <4>2. d # c
        BY <2>1, <4>1 DEF Idle
      <4>3. op'[c] = [op[c] EXCEPT !.alone = FALSE]
        BY <4>1, <4>2 DEF Begin
      <4> QED BY <2>1, <4>3 DEF OpRecord, At
    <3>4. ASSUME NEW d \in Clients, Work(d) PROVE EndUndo(c)
      <4>1. ~At(d, "idle")
        BY <3>4, WorkIsOwn
      <4>2. d = c
        BY <3>1, <4>1
      <4>3. UndoIndex(c) \/ UndoManifest(c) \/ UndoConfig(c) \/ EndUndo(c)
        BY <3>4, <4>2, UndoWorks DEF At
      <4>4. ASSUME NEW gone, op' = [op EXCEPT ![c].made = gone] PROVE FALSE
        BY <2>1, <4>4 DEF OpRecord, At
      <4> QED BY <4>3, <4>4 DEF UndoIndex, UndoManifest, UndoConfig
    <3> QED BY <3>2, <3>3, <3>4 DEF Next
  <2>3. op[c].made = {} /\ index' = index /\ manifests' = manifests
    BY <2>2 DEF EndUndo, disk, files
  <2>4. index = op[c].init
    BY <2>1, <2>3 DEF Remembered, Remembers
  <2>5. Mine(c) \in manifests => Mine(c) \in DOMAIN index
    <3>1. Whole(Mine(c))
      BY <2>1, <2>3, Busy DEF Alone, WriteAlone
    <3> QED BY <3>1 DEF Whole
  <2> QED BY <2>3, <2>4, <2>5
<1>2. TagNamesModelStep
  <2> SUFFICES ASSUME NEW c \in Clients, At(c, "tagWrite"), op[c].alone, index' = op[c].snap
               PROVE  Named(index', op[c].tag) = Named(index, op[c].model)
    BY DEF TagNamesModelStep
  <2>1. op[c].snap = Tagged(index, op[c].model, op[c].tag)
    BY DEF Remembered, Remembers
  <2>2. op[c].model \in Models \cup Normal /\ op[c].tag \in Normal /\ IsIndex(index)
    BY DEF StoreInv, TypeOK, Shape, At, IdleOp
  <2> QED BY <2>1, <2>2, TagNames
<1> QED BY <1>1, <1>2
=============================================================================
