------------------------------ MODULE LayerPull ------------------------------
(***************************************************************************)
(* The download of one layer into the store: WriteBlobWithResume of        *)
(* internal/store/blobs.go, the resume offsets of PullModel and the range  *)
(* transport of oci/remote.  Bytes go to the path <digest>.incomplete,     *)
(* which is renamed to <digest> when they are complete.  Files are inodes: *)
(* a path that is removed or renamed leaves the descriptors that are open  *)
(* on its inode as they are.                                               *)
(***************************************************************************)
EXTENDS Integers, Sequences, FiniteSets, SequencesExt

CONSTANTS
  Pullers,    \* callers of Manager.Pull and Manager.Load
  Inodes, NoInode,
  Size,       \* bytes of the layer
  MaxTokens,  \* maximumConcurrentModelPulls
  Faults,     \* what may go wrong: "network", "crash"; the server ignores the
              \* range ("ignored"), sends another one ("range"), ends a response
              \* early ("short"), even with its first byte ("abrupt")
  MaxFaults   \* bound: faults in one behaviour

ASSUME PullAssumption ==
  /\ Size \in Nat \ {0, 1} /\ MaxTokens \in Nat \ {0} /\ MaxFaults \in Nat
  /\ NoInode \notin Inodes

VARIABLES
  data,        \* the bytes of each inode: which byte of the layer (0: a hole)
  incomplete,  \* the inode that <digest>.incomplete names
  blob,        \* the inode that <digest> names
  tokens,      \* pullTokens
  job,         \* what each puller is doing
  faults       \* faults so far, for the bound

pullVars == <<data, incomplete, blob, tokens, job, faults>>

Layer == [i \in 1 .. Size |-> i]
NoGrant == -1

\* offset: the resume offset of PullModel; size: of the incomplete file at the
\* Stat; next: the next byte of the response; granted: RangeSuccess; held: a
\* first byte read and not yet written; fd, at, append: the open file.
NoJob == [pc |-> "idle", kind |-> "pull", offset |-> 0, size |-> 0, next |-> 0,
          granted |-> NoGrant, held |-> 0, eof |-> FALSE, fd |-> NoInode, at |-> 0,
          append |-> FALSE]

PullInit ==
  /\ data = [n \in Inodes |-> <<>>]
  /\ incomplete = NoInode /\ blob = NoInode
  /\ tokens = MaxTokens
  /\ job = [p \in Pullers |-> NoJob]
  /\ faults = 0

At(p, pc) == job[p].pc = pc
Go(p, pc) == job' = [job EXCEPT ![p].pc = pc]
Fault(kind) == kind \in Faults /\ faults < MaxFaults /\ faults' = faults + 1

Whole(n) == n # NoInode /\ data[n] = Layer
SizeOf(n) == IF n = NoInode THEN 0 ELSE Len(data[n])

\* Mutant: every call gives a token back.
ReturnToken(p) ==
  /\ job' = [job EXCEPT ![p] = NoJob]
  /\ tokens' = tokens + 1

\* The call returns, with an error or without; a pull gives its token back.
Return(p) ==
  /\ job' = [job EXCEPT ![p] = NoJob]
  /\ tokens' = IF job[p].kind = "pull" THEN tokens + 1 ELSE tokens

(***************************************************************************)
(* Manager.Pull, Manager.Load                                              *)
(***************************************************************************)
BeginPull(p) ==
  /\ At(p, "idle") /\ tokens > 0
  /\ tokens' = tokens - 1
  /\ Go(p, "offset")
  /\ UNCHANGED <<data, incomplete, blob, faults>>

BeginLoad(p) ==
  /\ At(p, "idle")
  /\ job' = [job EXCEPT ![p].pc = "stat", ![p].kind = "load"]
  /\ UNCHANGED <<data, incomplete, blob, tokens, faults>>

\* PullModel: the size of the incomplete file becomes the offset to resume at.
ReadOffset(p) ==
  /\ At(p, "offset")
  /\ job' = [job EXCEPT ![p].pc = "stat", ![p].offset = SizeOf(incomplete)]
  /\ UNCHANGED <<data, incomplete, blob, tokens, faults>>

(***************************************************************************)
(* WriteBlobWithResume                                                     *)
(***************************************************************************)
\* hasBlob, and the Stat of the incomplete file.
Stat(p) ==
  /\ At(p, "stat")
  /\ \/ blob # NoInode /\ Return(p)
     \/ /\ blob = NoInode
        /\ job' = [job EXCEPT ![p].pc = IF incomplete = NoInode THEN "create" ELSE "verify",
                              ![p].size = IF incomplete = NoInode THEN NoGrant
                                          ELSE SizeOf(incomplete)]
        /\ UNCHANGED tokens
  /\ UNCHANGED <<data, incomplete, blob, faults>>

\* Mutant: a complete file is not recognised.
VerifyNothing(p) ==
  /\ At(p, "verify")
  /\ IF incomplete = NoInode THEN Return(p) ELSE Go(p, "request") /\ UNCHANGED tokens
  /\ UNCHANGED <<data, incomplete, blob, faults>>

\* An incomplete file with the right digest only needs its name.
Verify(p) ==
  /\ At(p, "verify")
  /\ IF incomplete = NoInode THEN Return(p)
     ELSE Go(p, IF Whole(incomplete) THEN "rename" ELSE "request") /\ UNCHANGED tokens
  /\ UNCHANGED <<data, incomplete, blob, faults>>

\* rangeTransport.RoundTrip records a range only when the server answered 206
\* and Content-Range starts where the request did.
Granted(p, start, partial) ==
  IF partial /\ start = job[p].offset THEN job[p].offset ELSE NoGrant

\* The response: the rest of the layer from the offset, or all of it; or, by
\* fault, another range, all of it against the request, or an error.  A range
\* beyond the end is refused.  first: the read came from WriteBlobWithResume
\* itself, which holds one byte, perhaps with the end of the response.
Response(p, first) ==
  LET asked == job[p].offset
      Starts(start, partial, eof) ==
        job' = [job EXCEPT ![p].pc = IF first THEN "open" ELSE "copy",
                           ![p].granted = Granted(p, start, partial),
                           ![p].held = IF first THEN start + 1 ELSE 0,
                           ![p].next = IF first THEN start + 2 ELSE start + 1,
                           ![p].eof = eof]
      Answer(start, partial) ==
        \E eof \in BOOLEAN : (eof => first /\ start + 1 = Size) /\ Starts(start, partial, eof)
  IN  \/ asked < Size /\ Answer(asked, asked > 0) /\ UNCHANGED <<tokens, faults>>
      \/ first /\ asked < Size /\ Fault("abrupt") /\ Starts(asked, asked > 0, TRUE) /\ UNCHANGED tokens
      \/ asked >= Size /\ Return(p) /\ UNCHANGED faults
      \/ asked > 0 /\ Fault("ignored") /\ Answer(0, FALSE) /\ UNCHANGED tokens
      \/ /\ asked > 0 /\ Fault("range") /\ UNCHANGED tokens
         /\ \E start \in 0 .. Size - 1 : Answer(start, TRUE)
      \/ Fault("network") /\ Return(p)

Request(p) ==
  /\ At(p, "request")
  /\ Response(p, TRUE)
  /\ UNCHANGED <<data, incomplete, blob>>

\* Append if the range granted is the one missing, else start again.
Open(p) ==
  /\ At(p, "open")
  /\ IF job[p].granted = job[p].size /\ job[p].kind = "pull"
     THEN IF incomplete = NoInode THEN Return(p) /\ UNCHANGED incomplete
          ELSE /\ job' = [job EXCEPT ![p].pc = "first", ![p].fd = incomplete,
                                     ![p].append = TRUE]
               /\ UNCHANGED <<tokens, incomplete>>
     ELSE IF incomplete = NoInode THEN Return(p) /\ UNCHANGED incomplete
          ELSE Go(p, "create") /\ incomplete' = NoInode /\ UNCHANGED tokens
  /\ UNCHANGED <<data, blob, faults>>

\* Inodes that nothing names or holds are free.
Free == {n \in Inodes : n \notin {incomplete, blob} /\ \A p \in Pullers : job[p].fd # n}

\* os.Create: a new inode, or the one that is there, truncated.
Create(p) ==
  /\ At(p, "create")
  /\ \E n \in IF incomplete # NoInode THEN {incomplete} ELSE Free :
       /\ data' = [data EXCEPT ![n] = <<>>]
       /\ incomplete' = n
       /\ job' = [job EXCEPT ![p].pc = IF job[p].held = 0 THEN "body" ELSE "first",
                             ![p].fd = n]
  /\ UNCHANGED <<blob, tokens, faults>>

\* write(2): at the end of an append-only file, else where the descriptor is.
Written(p, byte) ==
  LET old == data[job[p].fd]
      pos == IF job[p].append THEN Len(old) + 1 ELSE job[p].at + 1
  IN  [i \in 1 .. (IF pos > Len(old) THEN pos ELSE Len(old)) |->
         IF i = pos THEN byte ELSE IF i <= Len(old) THEN old[i] ELSE 0]

\* Mutant: the first byte is read but not written.
WriteFirstLost(p) ==
  /\ At(p, "first")
  /\ job' = [job EXCEPT ![p].pc = IF job[p].eof THEN "rename" ELSE "copy", ![p].held = 0]
  /\ UNCHANGED <<data, incomplete, blob, tokens, faults>>

\* The byte that triggered the request; at the end of the response the file is
\* renamed as it is.
WriteFirst(p) ==
  /\ At(p, "first")
  /\ data' = [data EXCEPT ![job[p].fd] = Written(p, job[p].held)]
  /\ job' = [job EXCEPT ![p].pc = IF job[p].eof THEN "rename" ELSE "copy",
                        ![p].at = @ + 1, ![p].held = 0]
  /\ UNCHANGED <<incomplete, blob, tokens, faults>>

\* io.Copy: the request, if no byte has been read yet, and byte after byte.
\* On errors the incomplete file stays.
Body(p) ==
  /\ At(p, "body")
  /\ Response(p, FALSE)
  /\ UNCHANGED <<data, incomplete, blob>>

Copy(p) ==
  /\ At(p, "copy")
  /\ \/ /\ job[p].next <= Size
        /\ data' = [data EXCEPT ![job[p].fd] = Written(p, job[p].next)]
        /\ job' = [job EXCEPT ![p].next = @ + 1, ![p].at = @ + 1]
        /\ UNCHANGED <<tokens, faults>>
     \/ /\ job[p].next > Size
        /\ Go(p, "check")
        /\ UNCHANGED <<data, tokens, faults>>
     \/ Fault("short") /\ Go(p, "check") /\ UNCHANGED <<data, tokens>>
     \/ Fault("network") /\ Return(p) /\ UNCHANGED data
  /\ UNCHANGED <<incomplete, blob>>

\* Mutant: as before the digest was verified.
CheckNothing(p) ==
  /\ At(p, "check")
  /\ Go(p, "rename")
  /\ UNCHANGED <<data, incomplete, blob, tokens, faults>>

\* The digest of the whole file, read again by its path.
Check(p) ==
  /\ At(p, "check")
  /\ IF incomplete = NoInode THEN Return(p)
     ELSE Go(p, IF Whole(incomplete) THEN "rename" ELSE "discard") /\ UNCHANGED tokens
  /\ UNCHANGED <<data, incomplete, blob, faults>>

Discard(p) ==
  /\ At(p, "discard")
  /\ incomplete' = NoInode
  /\ Return(p)
  /\ UNCHANGED <<data, blob, faults>>

\* os.Rename: whatever the path names becomes the blob.
Rename(p) ==
  /\ At(p, "rename")
  /\ IF incomplete = NoInode THEN Return(p) /\ UNCHANGED <<incomplete, blob>>
     ELSE /\ blob' = incomplete /\ incomplete' = NoInode
          /\ IF job[p].fd = NoInode THEN Return(p) ELSE Go(p, "cleanup") /\ UNCHANGED tokens
  /\ UNCHANGED <<data, faults>>

\* "Safety cleanup in case rename didn't remove the source".
Cleanup(p) ==
  /\ At(p, "cleanup")
  /\ incomplete' = NoInode
  /\ Return(p)
  /\ UNCHANGED <<data, blob, faults>>

\* The service dies and starts again; it may find the incomplete file older
\* than seven days (CleanupStaleIncompleteFiles).
CrashPulls ==
  /\ Fault("crash")
  /\ job' = [p \in Pullers |-> NoJob]
  /\ tokens' = MaxTokens
  /\ incomplete' \in {incomplete, NoInode}
  /\ UNCHANGED <<data, blob>>

PullStep(p) ==
  \/ ReadOffset(p) \/ Stat(p) \/ Verify(p) \/ Request(p) \/ Open(p) \/ Create(p)
  \/ WriteFirst(p) \/ Body(p) \/ Copy(p) \/ Check(p) \/ Discard(p) \/ Rename(p)
  \/ Cleanup(p)

(***************************************************************************)
(* Properties                                                              *)
(***************************************************************************)
\* Types; no token of the pull semaphore is made or given back twice.
PullTypeOK ==
  /\ data \in [Inodes -> Seq(0 .. Size)]
  /\ incomplete \in Inodes \cup {NoInode} /\ blob \in Inodes \cup {NoInode}
  /\ tokens \in 0 .. MaxTokens
  /\ \A p \in Pullers : job[p].fd \in Inodes \cup {NoInode} /\ job[p].size \in -1 .. 2 * Size
  /\ faults \in 0 .. MaxFaults

\* A blob that can be found has the content its name is the digest of.
BlobWhole == blob # NoInode => Whole(blob)

\* What a failed or killed download leaves is a prefix of the layer, so that
\* the next one can go on from there.
Resumable ==
  ((\A p \in Pullers : At(p, "idle")) /\ incomplete # NoInode) =>
     IsPrefix(data[incomplete], Layer)

\* A pull is sound: it gives back the tokens it took, once each, and what it leaves
\* when it is broken off can be resumed (blobs.go, writeBlob).
PullSound == PullTypeOK /\ Resumable
=============================================================================
