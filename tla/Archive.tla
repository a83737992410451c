------------------------------ MODULE Archive ------------------------------
(***************************************************************************)
(* docker model package, and the archives it sends and fetches: the        *)
(* command (cmd/cli/commands/package.go) builds a model from files or from *)
(* an existing model, and either pushes it, lets the daemon copy it, writes *)
(* a variant of it beside its source, or loads it into the daemon as a tar *)
(* archive: one goroutine writes the archive into a pipe                   *)
(* (pkg/distribution/tarball), whose other end is the body of a request    *)
(* that the daemon reads (Client.LoadModel).  A model the command's own    *)
(* store does not hold is fetched from the daemon the same way, the other  *)
(* direction, into a temporary store.                                      *)
(***************************************************************************)
EXTENDS Naturals, Sequences, SequencesExt

CONSTANTS
  Layers,         \* the layers of the model, a sequence
  Window          \* how much of an archive pipe and connection hold

ArchiveAssumption ==
  Layers \in Seq(ToSet(Layers)) /\ {"config", "manifest"} \cap ToSet(Layers) = {}

Entries == Layers \o <<"config", "manifest">>
Blobs == {Entries[i] : i \in 1 .. Len(Entries) - 1}
Sources == [from : BOOLEAN, push : BOOLEAN, contextSize : BOOLEAN, cncf : BOOLEAN, more : BOOLEAN]

VARIABLES
  order, inStore,         \* the command line; the source is in the command's own store
  command, said,          \* where the command is, and what it printed at the end
  transfer,               \* which archive is on its way: "load", "export" or "none"
  writer,                 \* the next entry, whether its header is out, and how it ended
  wire, body,             \* what is on its way; the connection: "open", "ended", "cut"
  reader, answer,         \* the entry being read, the manifest read; what LoadModel returned
  fetched, daemonHas      \* the blobs and models of the temporary store and the daemon's

arVars == <<order, inStore, command, said, transfer, writer, wire, body, reader, answer,
            fetched, daemonHas>>

NothingStored == [blobs |-> {}, model |-> FALSE, tagged |-> FALSE]
NewWriter == [next |-> 1, header |-> FALSE, ended |-> "no"]
NewReader == [entry |-> "none", manifest |-> FALSE]

\* A context size decides the path taken only together with --from: with files it is
\* one more field of the configuration, whatever is packaged.
ArInit ==
  /\ order \in Sources /\ (order.from \/ ~order.contextSize)
  /\ inStore \in BOOLEAN
  /\ command = "start" /\ said = "" /\ transfer = "none"
  /\ writer = NewWriter /\ wire = <<>> /\ body = "open" /\ reader = NewReader /\ answer = "none"
  /\ fetched = NothingStored
  /\ \E blobs \in SUBSET Blobs : daemonHas = [NothingStored EXCEPT !.blobs = blobs]

-----------------------------------------------------------------------------
(* packageModel *)
Says(what) == said' = what /\ command' = "done"
Command(step) == command' = step /\ UNCHANGED said
Begin(kind) ==
  /\ transfer' = kind /\ writer' = NewWriter /\ wire' = <<>> /\ body' = "open"
  /\ reader' = NewReader /\ answer' = "none"
TransferUnchanged == UNCHANGED <<transfer, writer, wire, body, reader, answer>>

(* A change of the context size alone is left to the daemon, unless the result
   is pushed or in the CNCF format. *)
DaemonRepackages == order.from /\ ~order.push /\ ~order.cncf /\ ~order.more /\ order.contextSize
Repackage ==
  /\ command = "start" /\ DaemonRepackages
  /\ \/ /\ ToSet(Layers) \subseteq daemonHas.blobs /\ Says("variant")
        /\ daemonHas' = [daemonHas EXCEPT !.model = TRUE, !.tagged = TRUE, !.blobs = Blobs]
     \/ Says("failed") /\ UNCHANGED daemonHas
  /\ TransferUnchanged /\ UNCHANGED <<order, inStore, fetched>>

(* initializeBuilder: files, a model of the command's own store, or one to be
   fetched from the daemon, which may not have it either. *)
InitializeBuilder ==
  /\ command = "start" /\ ~DaemonRepackages
  /\ \/ Says("failed") /\ TransferUnchanged
     \/ (~order.from \/ inStore) /\ Command("build") /\ TransferUnchanged
     \/ order.from /\ ~inStore /\ Command("fetch") /\ Begin("export")
  /\ UNCHANGED <<order, inStore, fetched, daemonHas>>

(* fetchModelFromDaemon, once LoadModel into the temporary store returned. *)
Fetched ==
  /\ command = "fetch" /\ answer # "none"
  /\ IF answer = "ok" THEN Command("build") ELSE Says("failed")
  /\ transfer' = "none" /\ UNCHANGED <<writer, wire, body, reader, answer>>
  /\ UNCHANGED <<order, inStore, fetched, daemonHas>>

(* A model whose layers are those of its source is written beside it: nothing
   is pushed or loaded, even if the source was fetched to a temporary store. *)
HasOnlyConfigChanges == order.from /\ ~order.more
WriteVariant ==
  /\ command = "build" /\ HasOnlyConfigChanges
  /\ Says("variant") \/ Says("failed")
  /\ TransferUnchanged /\ UNCHANGED <<order, inStore, fetched, daemonHas>>
Push ==
  /\ command = "build" /\ ~HasOnlyConfigChanges /\ order.push
  /\ Says("pushed") \/ Says("failed")
  /\ TransferUnchanged /\ UNCHANGED <<order, inStore, fetched, daemonHas>>
Load ==
  /\ command = "build" /\ ~HasOnlyConfigChanges /\ ~order.push
  /\ Command("load") /\ Begin("load")
  /\ UNCHANGED <<order, inStore, fetched, daemonHas>>

(* modelRunnerTarget.Write: first the request, then the writer, and only then
   what the two said. *)
Await ==
  /\ command = "load" /\ answer # "none" /\ writer.ended # "no"
  /\ IF answer = "ok" /\ writer.ended = "ok" THEN Command("tag") ELSE Says("failed")
  /\ transfer' = "none" /\ UNCHANGED <<writer, wire, body, reader, answer>>
  /\ UNCHANGED <<order, inStore, fetched, daemonHas>>
Tag ==
  /\ command = "tag"
  /\ \/ Says("loaded") /\ daemonHas.model /\ daemonHas' = [daemonHas EXCEPT !.tagged = TRUE]
     \/ Says("failed") /\ UNCHANGED daemonHas
  /\ TransferUnchanged /\ UNCHANGED <<order, inStore, fetched>>

-----------------------------------------------------------------------------
(* tarball.Target.Write, and the two ends it writes to: the pipe, closed when
   the goroutine ends; a response, ended when the handler returns. *)
Writing == transfer # "none" /\ writer.ended = "no"
WriterOnly == UNCHANGED <<order, inStore, command, said, transfer, reader, answer, fetched, daemonHas>>

WriteEntry ==
  /\ Writing /\ body = "open" /\ Len(wire) < Window /\ writer.next <= Len(Entries)
  /\ LET e == Entries[writer.next]
     IN  IF writer.header
         THEN /\ wire' = Append(wire, <<"data", e>>)
              /\ writer' = [writer EXCEPT !.header = FALSE, !.next = @ + 1]
         ELSE wire' = Append(wire, <<"header", e>>) /\ writer' = [writer EXCEPT !.header = TRUE]
  /\ UNCHANGED body /\ WriterOnly

(* The archive's trailer is written after whole entries only; an export that
   fails appends its error to the response. *)
Trailer == IF writer.header THEN <<>> ELSE <<<<"trailer", "">>>>
WriteEnds ==
  /\ Writing /\ body = "open" /\ writer.next > Len(Entries)
  /\ wire' = wire \o Trailer /\ body' = "ended" /\ writer' = [writer EXCEPT !.ended = "ok"]
  /\ WriterOnly
BodyAfterFailureOpen == "open"
BodyAfterFailure == "ended"
SourceFails ==
  /\ Writing /\ body = "open" /\ writer.next <= Len(Entries)
  /\ wire' = wire \o Trailer \o (IF transfer = "export" THEN <<<<"text", "">>>> ELSE <<>>)
  /\ body' = BodyAfterFailure /\ writer' = [writer EXCEPT !.ended = "failed"]
  /\ WriterOnly
(* The other end is gone: the write fails. *)
WriteRefused ==
  /\ Writing /\ body = "cut" /\ writer' = [writer EXCEPT !.ended = "failed"]
  /\ UNCHANGED <<wire, body>> /\ WriterOnly
Cut ==
  /\ transfer # "none" /\ body # "cut" /\ answer = "none" /\ body' = "cut"
  /\ UNCHANGED <<writer, wire>> /\ WriterOnly

-----------------------------------------------------------------------------
(* LoadModel over tarball.Reader, in the daemon's store or the temporary one. *)
Reading == transfer # "none" /\ answer = "none"
Held == IF transfer = "load" THEN daemonHas ELSE fetched
Store(value) ==
  IF transfer = "load" THEN daemonHas' = value /\ UNCHANGED fetched
  ELSE fetched' = value /\ UNCHANGED daemonHas
ReaderOnly == UNCHANGED <<order, inStore, command, said, transfer, writer>>

(* The reader returns, and the connection closes: what is still being written
   to it is refused.  An answer may be lost on the way. *)
Returns(how) ==
  /\ answer' = how /\ body' = IF body = "open" THEN "cut" ELSE body
  /\ wire' = <<>> /\ UNCHANGED reader
LosesConnection ==
  /\ Reading /\ body = "cut" /\ wire = <<>> /\ Returns("failed")
  /\ UNCHANGED <<fetched, daemonHas>> /\ ReaderOnly

NextHeader ==
  /\ Reading /\ wire # <<>> /\ Head(wire)[1] = "header"
  /\ reader' = [reader EXCEPT !.entry = Head(wire)[2]] /\ wire' = Tail(wire)
  /\ UNCHANGED <<body, answer, fetched, daemonHas>> /\ ReaderOnly
(* A blob that is there is skipped; another is written, and verified. *)
ReadData ==
  /\ Reading /\ wire # <<>> /\ Head(wire)[1] = "data" /\ reader.entry # "none"
  /\ wire' = Tail(wire)
  /\ reader' = [entry |-> "none", manifest |-> reader.manifest \/ reader.entry = "manifest"]
  /\ Store(IF reader.entry = "manifest" THEN Held ELSE [Held EXCEPT !.blobs = @ \cup {reader.entry}])
  /\ UNCHANGED <<body, answer>> /\ ReaderOnly
WriteBlobFails ==
  /\ Reading /\ reader.entry \in Blobs \ Held.blobs /\ Returns("failed")
  /\ UNCHANGED <<fetched, daemonHas>> /\ ReaderOnly

(* The end of the archive: its trailer, or no more of it between two entries.
   The manifest must have come, and the store asks for the layers it names, but
   not for the configuration. *)
AtEnd == \/ wire # <<>> /\ Head(wire)[1] = "trailer"
         \/ wire = <<>> /\ body = "ended" /\ reader.entry = "none"
Anything == TRUE
Complete == reader.manifest /\ ToSet(Layers) \subseteq Held.blobs
ReadManifest ==
  /\ Reading /\ AtEnd
  /\ \/ Complete /\ Store([Held EXCEPT !.model = TRUE]) /\ \E how \in {"ok", "failed"} : Returns(how)
     \/ Returns("failed") /\ UNCHANGED <<fetched, daemonHas>>
  /\ ReaderOnly
(* The end of the stream inside an entry, or what is no archive. *)
UnexpectedEOF ==
  /\ Reading
  /\ \/ wire = <<>> /\ body = "ended" /\ reader.entry # "none"
     \/ wire # <<>> /\ Head(wire)[1] = "text"
  /\ Returns("failed") /\ UNCHANGED <<fetched, daemonHas>> /\ ReaderOnly

ArStep ==
  \/ Repackage \/ InitializeBuilder \/ Fetched \/ WriteVariant \/ Push \/ Load \/ Await \/ Tag
  \/ WriteEntry \/ WriteEnds \/ WriteRefused
  \/ LosesConnection \/ NextHeader \/ ReadData \/ ReadManifest \/ UnexpectedEOF
ArNext == ArStep \/ SourceFails \/ Cut \/ WriteBlobFails
ArSpec == ArInit /\ [][ArNext]_arVars

-----------------------------------------------------------------------------
(* A model fetched from the daemon is whole before anything is built from it,
   and "Model loaded successfully" is true: the daemon lists the model under
   its tag with every blob.  An export that fails has already answered 200, and
   a writer that fails closes its pipe as if it were done, so only the archive
   itself tells (client.go:436-463, package.go:500 and 573-581). *)
Whole(store) == store.model /\ Blobs \subseteq store.blobs
PackagedWhole ==
  /\ command \in {"build", "load", "tag"} /\ order.from /\ ~inStore => Whole(fetched)
  /\ said = "loaded" => Whole(daemonHas) /\ daemonHas.tagged

(* Command, writer and reader never wait for each other for good: whatever
   end broke, a step that is no further failure is left until the command has
   printed its result
   (package.go:573-574 waits for the request before it looks at the writer,
   whose pipe only the request's end can drain). *)
NobodyHangs == command # "done" => ENABLED ArStep
=============================================================================
