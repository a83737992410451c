------------------------- MODULE DistributionProofs -------------------------
(***************************************************************************)
(* Proofs about a model on its way.  The push, for any layers, any number  *)
(* of goroutines and of pushes, and any faults of the pulls beside it: the *)
(* channels keep to their capacity, and whoever finds the manifest in the  *)
(* registry finds every blob it names.  The pull, for any size of a layer, *)
(* any number of interruptions and crashes: the tokens of the semaphore,   *)
(* what a broken download leaves, and what a blob's name finds.            *)
(*                                                                         *)
(* The manifest is complete because of what each goroutine knows when it   *)
(* ends: its layer is in the registry, or its error is in the results that *)
(* are looked at before the config is pushed.                              *)
(***************************************************************************)
EXTENDS Distribution, TLAPS, SequenceTheorems, FiniteSetTheorems

(* A goroutine that is past its transfer has its layer stored, or has failed. *)
StoredOrFailed ==
  \A l \in Layers :
    /\ worker[l] = "total" => l \in registry
    /\ worker[l] \in {"closing", "end"} => l \in registry \cup failed

(* The push goes on only with what is stored. *)
StoredBefore ==
  /\ main \in {"config", "manifest"} => Layers \subseteq registry
  /\ main = "manifest" => Config \in registry

PushInv == PushTypeOK /\ ManifestComplete /\ StoredOrFailed /\ StoredBefore

(* The invariant holds before the first push. *)
LEMMA PushInvInit == PushInit => PushInv
<1> SUFFICES ASSUME PushInit PROVE PushInv  OBVIOUS
<1>1. PushTypeOK
  <2>1. /\ worker \in [Layers -> {"none", "open", "copy", "commit", "total", "closing", "end"}]
        /\ queue \in [Layers -> 0 .. 1] /\ closed \in [Layers -> BOOLEAN]
        /\ reporter \in [Layers -> {"none", "runs", "done"}]
    BY DEF PushInit
  <2>2. pushes \in 0 .. MaxPushes  BY PushAssumption DEF PushInit
  <2>3. /\ registry \subseteq Layers \cup {Config} /\ manifest \in BOOLEAN
        /\ main \in {"idle", "layers", "config", "manifest", "ok", "failed"}
        /\ failed \subseteq Layers
    BY DEF PushInit
  <2> QED BY <2>1, <2>2, <2>3 DEF PushTypeOK
<1>2. ManifestComplete /\ StoredBefore  BY DEF PushInit, ManifestComplete, StoredBefore
<1>3. StoredOrFailed  BY DEF PushInit, StoredOrFailed
<1> QED BY <1>1, <1>2, <1>3 DEF PushInv

(* Each step of a goroutine or of its reporter keeps the invariant. *)
LEMMA LayerInv ==
  ASSUME PushInv, NEW l \in Layers, LayerStep(l)
  PROVE  PushInv'
<1> USE DEF PushInv
<1>1. PushTypeOK'
  <2>1. CASE StartLayer(l)  BY <2>1 DEF PushTypeOK, StartLayer
  <2>2. CASE OpenLayer(l)  BY <2>2 DEF PushTypeOK, OpenLayer, Goto, FailLayer, CloseProgress
  <2>3. CASE ReadSome(l)
    <3>1. CASE FailLayer(l) /\ UNCHANGED queue
      BY <2>3, <3>1 DEF PushTypeOK, ReadSome, Goto, FailLayer, CloseProgress
    <3>2. CASE queue' = [queue EXCEPT ![l] = 1] /\ UNCHANGED <<worker, failed, closed>>
      BY <2>3, <3>2 DEF PushTypeOK, ReadSome
    <3> QED BY <2>3, <3>1, <3>2 DEF ReadSome
  <2>4. CASE ReadEOF(l)  BY <2>4 DEF PushTypeOK, ReadEOF, Goto
  <2>5. CASE CommitLayer(l)  BY <2>5 DEF PushTypeOK, CommitLayer, Goto, FailLayer, CloseProgress
  <2>6. CASE SendTotal(l)  BY <2>6 DEF PushTypeOK, SendTotal, Goto, CloseProgress
  <2>7. CASE LayerEnds(l)  BY <2>7 DEF PushTypeOK, LayerEnds, Goto
  <2>8. CASE Report(l)  BY <2>8 DEF PushTypeOK, Report
  <2> QED BY <2>1, <2>2, <2>3, <2>4, <2>5, <2>6, <2>7, <2>8 DEF LayerStep
<1>2. registry \subseteq registry' /\ UNCHANGED <<manifest, main>> /\ failed \subseteq failed'
  BY DEF LayerStep, StartLayer, OpenLayer, ReadSome, ReadEOF, CommitLayer, SendTotal, LayerEnds,
         Report, Goto, FailLayer, CloseProgress
<1>3. ManifestComplete' /\ StoredBefore'
  BY <1>2 DEF ManifestComplete, StoredBefore
<1>4. StoredOrFailed'
  <2> USE DEF PushTypeOK, StoredOrFailed
  <2>1. CASE StartLayer(l)  BY <2>1 DEF StartLayer
  <2>2. CASE OpenLayer(l)  BY <2>2 DEF OpenLayer, Goto, FailLayer, CloseProgress
  <2>3. CASE ReadSome(l)  BY <2>3 DEF ReadSome, Goto, FailLayer, CloseProgress
  <2>4. CASE ReadEOF(l)  BY <2>4 DEF ReadEOF, Goto
  <2>5. CASE CommitLayer(l)  BY <2>5 DEF CommitLayer, Goto, FailLayer, CloseProgress
  <2>6. CASE SendTotal(l)  BY <2>6 DEF SendTotal, Goto, CloseProgress
  <2>7. CASE LayerEnds(l)  BY <2>7 DEF LayerEnds, Goto
  <2>8. CASE Report(l)  BY <2>8 DEF Report
  <2> QED BY <2>1, <2>2, <2>3, <2>4, <2>5, <2>6, <2>7, <2>8 DEF LayerStep
<1> QED BY <1>1, <1>3, <1>4

(* So does every step of the push itself. *)
LEMMA PushInvNext == PushInv /\ [PushNext]_pushVars => PushInv'
<1> SUFFICES ASSUME PushInv, [PushNext]_pushVars PROVE PushInv'  OBVIOUS
<1> USE DEF PushInv
<1>1. CASE BeginPush
  BY <1>1, PushAssumption
  DEF BeginPush, PushTypeOK, ManifestComplete, StoredOrFailed, StoredBefore
<1>2. CASE LayersPushed
  <2>1. PushTypeOK' /\ ManifestComplete' /\ StoredOrFailed'
    BY <1>2 DEF LayersPushed, layerVars, PushTypeOK, ManifestComplete, StoredOrFailed
  <2>2. main' = "config" => Layers \subseteq registry
    BY <1>2 DEF LayersPushed, StoredOrFailed
  <2>3. main' \in {"config", "failed"} /\ registry' = registry
    BY <1>2 DEF LayersPushed
  <2>4. StoredBefore'  BY <2>2, <2>3 DEF StoredBefore
  <2> QED BY <2>1, <2>4
<1>3. CASE PushConfig
  BY <1>3 DEF PushConfig, layerVars, PushTypeOK, ManifestComplete, StoredOrFailed, StoredBefore
<1>4. CASE PushManifest
  BY <1>4 DEF PushManifest, layerVars, PushTypeOK, ManifestComplete, StoredOrFailed, StoredBefore
<1>5. CASE \E l \in Layers : LayerStep(l)
  BY <1>5, LayerInv
<1>6. CASE UNCHANGED pushVars
  BY <1>6 DEF pushVars, PushTypeOK, ManifestComplete, StoredOrFailed, StoredBefore
<1> QED BY <1>1, <1>2, <1>3, <1>4, <1>5, <1>6 DEF PushNext

(* Pulls do not write to the registry. *)
LEMMA NextPushes == [Next]_distVars => [PushNext]_pushVars
  BY DEF Next, distVars, PullerStep

(* Whatever pulls, faults and repeated pushes go on: no reporter's channel holds more
   than it has room for, and a published manifest is complete (remote.Write). *)
THEOREM PushIsSound == Spec => []PushSound
<1>1. Init => PushInv
  BY PushInvInit DEF Init
<1>2. PushInv /\ [Next]_distVars => PushInv'
  BY PushInvNext, NextPushes
<1>3. PushInv => PushSound
  BY DEF PushInv, PushSound
<1> QED BY <1>1, <1>2, <1>3, PTL DEF Spec

(***************************************************************************)
(* The pull.  Whoever downloads knows how much of the layer the incomplete *)
(* file holds: its length is the offset it asked for, and then the byte    *)
(* before the next one of the response.                                    *)
(***************************************************************************)
\* One caller at a time works on the layer.
OnePuller == \A p, q \in Pullers : p = q
\* Servers that answer 206 send the range that was asked for, and no response ends
\* with its first byte.
RangesKept == Faults \cap {"range", "abrupt"} = {}

Jobs == [pc : {"idle", "offset", "stat", "create", "verify", "request", "open", "first", "body",
               "copy", "check", "discard", "rename", "cleanup"},
         kind : {"pull", "load"}, offset : Nat, size : Int, next : 0 .. Size + 1,
         granted : Int, held : 0 .. Size, eof : BOOLEAN, fd : Inodes \cup {NoInode},
         at : Nat, append : BOOLEAN]

Pulling == {p \in Pullers : job[p].pc # "idle" /\ job[p].kind = "pull"}

\* Types, for any number of pullers: who writes has a file open, and every token
\* that is not there is with a pull.
PullShape ==
  /\ data \in [Inodes -> Seq(0 .. Size)]
  /\ incomplete \in Inodes \cup {NoInode} /\ blob \in Inodes \cup {NoInode}
  /\ job \in [Pullers -> Jobs]
  /\ \A p \in Pullers : /\ job[p].pc \in {"first", "body", "copy"} => job[p].fd \in Inodes
                        /\ job[p].pc = "idle" => job[p] = NoJob
  /\ tokens \in Nat /\ tokens + Cardinality(Pulling) = MaxTokens
  /\ faults \in 0 .. MaxFaults

\* The first bytes of the layer.
Begins(n) ==
  /\ Len(data[n]) <= Size
  /\ \A i \in 1 .. Len(data[n]) : data[n][i] = i

Fresh(p) ==
  job[p].fd = NoInode /\ ~job[p].append /\ job[p].at = 0

\* What the puller knows at each step.
Knows(p) ==
  LET j == job[p]
  IN  /\ j.size \in -1 .. Size
      /\ j.pc = "offset" => Fresh(p) /\ j.held = 0 /\ j.kind = "pull"
      /\ j.pc = "stat" =>
           Fresh(p) /\ j.held = 0 /\ j.offset = IF j.kind = "pull" THEN SizeOf(incomplete) ELSE 0
      /\ j.pc = "create" =>
           /\ Fresh(p) /\ incomplete = NoInode
           /\ j.held = 0 => j.offset = 0
           /\ j.held # 0 => j.held = 1 /\ j.next = 2 /\ ~j.eof
      /\ j.pc \in {"verify", "request", "open"} =>
           /\ Fresh(p) /\ incomplete # NoInode /\ j.size = SizeOf(incomplete)
           /\ j.offset = IF j.kind = "pull" THEN j.size ELSE 0
      /\ j.pc \in {"verify", "request"} => j.held = 0
      /\ j.pc = "open" =>
           /\ j.next = j.held + 1
           /\ IF j.granted = j.size /\ j.kind = "pull"
              THEN j.held = j.size + 1 /\ (j.eof => j.held = Size)
              ELSE j.held = 1 /\ ~j.eof
      /\ j.pc = "first" =>
           /\ j.fd = incomplete /\ j.fd # NoInode
           /\ j.held = Len(data[j.fd]) + 1 /\ j.next = j.held + 1
           /\ ~j.append => j.at = Len(data[j.fd])
           /\ j.eof => j.held = Size
      /\ j.pc = "body" =>
           /\ j.fd = incomplete /\ j.fd # NoInode /\ data[j.fd] = <<>>
           /\ ~j.append /\ j.at = 0 /\ j.offset = 0
      /\ j.pc = "copy" =>
           /\ j.fd = incomplete /\ j.fd # NoInode /\ j.next = Len(data[j.fd]) + 1
           /\ ~j.append => j.at = Len(data[j.fd])
      /\ j.pc \in {"check", "discard"} => incomplete # NoInode
      /\ j.pc = "rename" => incomplete # NoInode /\ data[incomplete] = Layer
      /\ j.pc = "cleanup" => incomplete = NoInode

FilesOK ==
  /\ incomplete # NoInode => Begins(incomplete)
  /\ blob # NoInode => Whole(blob) /\ blob # incomplete

PullInv == PullShape /\ FilesOK /\ \A p \in Pullers : Knows(p)


(***************************************************************************)
(* Bytes.                                                                  *)
(***************************************************************************)
LEMMA SeqOfLength ==
  ASSUME NEW S, NEW n \in Nat, NEW f \in [1 .. n -> S]
  PROVE  f \in Seq(S) /\ Len(f) = n
<1>1. f \in Seq(S)
  BY SeqDef
<1>2. 1 .. Len(f) = 1 .. n /\ Len(f) \in Nat
  BY <1>1, LenProperties
<1> QED BY <1>1, <1>2

LEMMA LayerFacts == Layer \in Seq(0 .. Size) /\ Len(Layer) = Size
<1>1. Layer \in [1 .. Size -> 0 .. Size] /\ Size \in Nat
  BY PullAssumption DEF Layer
<1> QED BY <1>1, SeqOfLength

\* A file that begins the layer can be resumed, and is the layer when it is as long.
LEMMA BeginsFacts ==
  ASSUME NEW s \in Seq(0 .. Size), Len(s) <= Size, \A i \in 1 .. Len(s) : s[i] = i
  PROVE  IsPrefix(s, Layer) /\ (Len(s) = Size => s = Layer)
<1>0. Len(s) \in 0 .. Size /\ Size \in Nat
  BY LenProperties, PullAssumption
<1>1. \A i \in 1 .. Len(s) : s[i] = Layer[i]
  BY <1>0 DEF Layer
<1>2. SubSeq(s, 1, Len(s)) = SubSeq(Layer, 1, Len(s))
  <2>1. /\ SubSeq(s, 1, Len(s)) \in Seq(0 .. Size) /\ Len(SubSeq(s, 1, Len(s))) = Len(s)
        /\ \A i \in 1 .. Len(s) : SubSeq(s, 1, Len(s))[i] = s[i]
    <3>1. \A i \in 1 .. Len(s) : s[i] \in 0 .. Size
      BY <1>0, ElementOfSeq
    <3> QED BY <1>0, <3>1, SubSeqProperties
  <2>2. /\ SubSeq(Layer, 1, Len(s)) \in Seq(0 .. Size) /\ Len(SubSeq(Layer, 1, Len(s))) = Len(s)
        /\ \A i \in 1 .. Len(s) : SubSeq(Layer, 1, Len(s))[i] = Layer[i]
    <3>1. \A i \in 1 .. Len(s) : Layer[i] \in 0 .. Size
      BY <1>0 DEF Layer
    <3> QED BY <1>0, <3>1, SubSeqProperties
  <2> QED BY <1>1, <2>1, <2>2, SeqEqual
<1>3. Len(s) = Size => s = Layer
  BY <1>1, LayerFacts, SeqEqual
<1> QED BY <1>0, <1>2, <1>3, LayerFacts DEF IsPrefix

\* write(2) gives a sequence of bytes; at the end of a file that begins the layer, the
\* next byte gives a longer beginning.
LEMMA WrittenFacts ==
  ASSUME PullShape, NEW p \in Pullers, job[p].fd \in Inodes, NEW byte \in 0 .. Size
  PROVE  /\ Written(p, byte) \in Seq(0 .. Size)
         /\ (/\ Begins(job[p].fd) /\ byte = Len(data[job[p].fd]) + 1
             /\ ~job[p].append => job[p].at = Len(data[job[p].fd])) =>
              /\ Len(Written(p, byte)) = byte
              /\ \A i \in 1 .. byte : Written(p, byte)[i] = i
<1> DEFINE old == data[job[p].fd]
           pos == IF job[p].append THEN Len(old) + 1 ELSE job[p].at + 1
           n == IF pos > Len(old) THEN pos ELSE Len(old)
           w == [i \in 1 .. n |-> IF i = pos THEN byte ELSE IF i <= Len(old) THEN old[i] ELSE 0]
<1>1. old \in Seq(0 .. Size) /\ Len(old) \in Nat /\ job[p].at \in Nat
  <2>1. old \in Seq(0 .. Size) /\ job[p].at \in Nat
    BY DEF PullShape, Jobs
  <2> QED BY <2>1, LenProperties
<1>2. pos \in Nat /\ n \in Nat /\ Size \in Nat
  BY <1>1, PullAssumption
<1>3. \A i \in 1 .. Len(old) : old[i] \in 0 .. Size
  BY <1>1, ElementOfSeq
<1>4. w \in [1 .. n -> 0 .. Size]
  BY <1>1, <1>2, <1>3
<1>5. w \in Seq(0 .. Size) /\ Len(w) = n
  <2> HIDE DEF w, n
  <2> QED BY <1>2, <1>4, SeqOfLength
<1>6. ASSUME Begins(job[p].fd), byte = Len(old) + 1, ~job[p].append => job[p].at = Len(old)
      PROVE  n = byte /\ \A i \in 1 .. byte : w[i] = i
  BY <1>1, <1>2, <1>6 DEF Begins
<1> QED BY <1>5, <1>6 DEF Written

(***************************************************************************)
(* The shape of the state, for any number of pullers.                      *)
(***************************************************************************)
LEMMA PullingFinite ==
  ASSUME IsFiniteSet(Pullers), NEW S \in SUBSET Pullers
  PROVE  IsFiniteSet(S) /\ Cardinality(S) \in Nat
BY FS_Subset, FS_CardinalityType

LEMMA NoJobFacts ==
  /\ NoJob \in Jobs /\ NoJob.pc = "idle" /\ NoJob.kind = "pull" /\ NoJob.fd = NoInode
  /\ NoJob.offset = 0 /\ NoJob.size = 0 /\ NoJob.held = 0 /\ NoJob.at = 0 /\ ~NoJob.append
<1>1. NoJob \in Jobs /\ NoJob.pc = "idle" /\ NoJob.kind = "pull" /\ NoJob.fd = NoInode
      /\ NoJob.offset = 0 /\ NoJob.size = 0 /\ NoJob.held = 0 /\ NoJob.at = 0
  BY PullAssumption DEF NoJob, Jobs, NoGrant
<1>2. ~NoJob.append
  BY DEF NoJob
<1> QED BY <1>1, <1>2

\* The call goes on with or without its token.
LEMMA GoesOn ==
  ASSUME PullShape, NEW p \in Pullers, NEW x \in Jobs, job' = [job EXCEPT ![p] = x],
         ~At(p, "idle"), x.pc # "idle", x.kind = job[p].kind,
         x.pc \in {"first", "body", "copy"} => x.fd \in Inodes,
         data' \in [Inodes -> Seq(0 .. Size)],
         incomplete' \in Inodes \cup {NoInode}, blob' \in Inodes \cup {NoInode},
         UNCHANGED tokens, faults' \in 0 .. MaxFaults
  PROVE  PullShape'
<1>1. job' \in [Pullers -> Jobs] /\ job'[p] = x /\ \A q \in Pullers : q # p => job'[q] = job[q]
  BY DEF PullShape
<1>2. Pulling' = Pulling
  BY <1>1 DEF Pulling, At
<1> QED BY <1>1, <1>2 DEF PullShape

\* The call returns.
LEMMA Returns ==
  ASSUME PullShape, IsFiniteSet(Pullers), NEW p \in Pullers, ~At(p, "idle"), Return(p),
         UNCHANGED data,
         incomplete' \in Inodes \cup {NoInode}, blob' \in Inodes \cup {NoInode},
         faults' \in 0 .. MaxFaults
  PROVE  PullShape'
<1>1. NoJob \in Jobs /\ NoJob.pc = "idle"
  BY NoJobFacts
<1>2. job' \in [Pullers -> Jobs] /\ job'[p] = NoJob /\ \A q \in Pullers : q # p => job'[q] = job[q]
  BY <1>1 DEF PullShape, Return
<1>3. tokens' + Cardinality(Pulling') = MaxTokens /\ tokens' \in Nat
  <2>1. Pulling' = Pulling \ {p}
    BY <1>1, <1>2 DEF Pulling
  <2>2. IsFiniteSet(Pulling) /\ Cardinality(Pulling) \in Nat
    BY PullingFinite DEF Pulling
  <2>3. p \in Pulling <=> job[p].kind = "pull"
    BY DEF Pulling, At
  <2>4. CASE p \in Pulling
    <3>1. Cardinality(Pulling \ {p}) = Cardinality(Pulling) - 1
      BY <2>2, <2>4, FS_RemoveElement
    <3> QED BY <2>1, <2>2, <2>3, <2>4, <3>1 DEF PullShape, Return
  <2>5. CASE p \notin Pulling
    <3>1. Pulling \ {p} = Pulling
      BY <2>5
    <3> QED BY <2>1, <2>3, <2>5, <3>1 DEF PullShape, Return
  <2> QED BY <2>4, <2>5
<1> QED BY <1>1, <1>2, <1>3 DEF PullShape

LEMMA BeginShape ==
  ASSUME PullShape, IsFiniteSet(Pullers), NEW p \in Pullers, BeginPull(p) \/ BeginLoad(p)
  PROVE  PullShape'
<1>1. job[p] = NoJob /\ At(p, "idle")
  BY DEF PullShape, BeginPull, BeginLoad, At
<1>2. PICK x \in Jobs : job' = [job EXCEPT ![p] = x] /\ x.pc \in {"offset", "stat"}
                        /\ (BeginPull(p) => x.kind = "pull") /\ (BeginLoad(p) /\ ~BeginPull(p) => x.kind = "load")
  <2> DEFINE x == [NoJob EXCEPT !.pc = "offset"]
             y == [NoJob EXCEPT !.pc = "stat", !.kind = "load"]
  <2>0. NoJob \in Jobs /\ NoJob.kind = "pull"
    BY NoJobFacts DEF NoJob
  <2>1. x \in Jobs /\ x.kind = "pull" /\ x.pc = "offset"
    BY <2>0 DEF Jobs
  <2>2. y \in Jobs /\ y.kind = "load" /\ y.pc = "stat"
    BY <2>0 DEF Jobs
  <2>3. CASE BeginPull(p)
    <3>1. job' = [job EXCEPT ![p] = x]
      BY <1>1, <2>3 DEF BeginPull, Go
    <3>2. ~(BeginLoad(p) /\ ~BeginPull(p))
      BY <2>3
    <3> HIDE DEF x, y
    <3> QED BY <2>1, <3>1, <3>2
  <2>4. CASE BeginLoad(p) /\ ~BeginPull(p)
    <3>1. job' = [job EXCEPT ![p] = y]
      BY <1>1, <2>4 DEF BeginLoad
    <3> HIDE DEF x, y
    <3> QED BY <2>2, <2>4, <3>1
  <2> QED BY <2>3, <2>4
<1>3. job' \in [Pullers -> Jobs] /\ job'[p] = x /\ \A q \in Pullers : q # p => job'[q] = job[q]
  BY <1>2 DEF PullShape
<1>4. p \notin Pulling /\ IsFiniteSet(Pulling) /\ Cardinality(Pulling) \in Nat
  BY <1>1, PullingFinite DEF Pulling, At
<1>5. CASE BeginPull(p)
  <2>1. Pulling' = Pulling \cup {p}
    BY <1>2, <1>3, <1>5 DEF Pulling
  <2>2. Cardinality(Pulling') = Cardinality(Pulling) + 1
    BY <1>4, <2>1, FS_AddElement
  <2> QED BY <1>2, <1>3, <1>4, <1>5, <2>2 DEF PullShape, BeginPull
<1>6. CASE BeginLoad(p) /\ ~BeginPull(p)
  <2>1. Pulling' = Pulling
    BY <1>2, <1>3, <1>4, <1>6 DEF Pulling
  <2> QED BY <1>2, <1>3, <1>6, <2>1 DEF PullShape, BeginLoad
<1> QED BY <1>5, <1>6

\* A response that starts at some byte of the layer; if the server keeps to the ranges,
\* at the offset asked for or at the start.
GivenAt(p, first, start, eof, granted) ==
  /\ job' = [job EXCEPT ![p].pc = IF first THEN "open" ELSE "copy",
                        ![p].granted = granted,
                        ![p].held = IF first THEN start + 1 ELSE 0,
                        ![p].next = IF first THEN start + 2 ELSE start + 1,
                        ![p].eof = eof]
  /\ RangesKept =>
       /\ eof => first /\ start + 1 = Size
       /\ \/ start = 0 /\ granted = NoGrant
          \/ start = job[p].offset /\ granted = job[p].offset

Given(p, first) ==
  \E start \in 0 .. Size - 1, eof \in BOOLEAN, granted \in {NoGrant, job[p].offset} :
    GivenAt(p, first, start, eof, granted)

LEMMA ResponseGives ==
  ASSUME PullShape, NEW p \in Pullers, NEW first \in BOOLEAN, Response(p, first)
  PROVE  /\ faults' \in 0 .. MaxFaults
         /\ \/ Return(p)
            \/ UNCHANGED tokens /\ Given(p, first)
<1> DEFINE asked == job[p].offset
           Starts(start, partial, eof) ==
             job' = [job EXCEPT ![p].pc = IF first THEN "open" ELSE "copy",
                                ![p].granted = Granted(p, start, partial),
                                ![p].held = IF first THEN start + 1 ELSE 0,
                                ![p].next = IF first THEN start + 2 ELSE start + 1,
                                ![p].eof = eof]
           Answer(start, partial) ==
             \E eof \in BOOLEAN : (eof => first /\ start + 1 = Size) /\ Starts(start, partial, eof)
<1>1. asked \in Nat /\ Size \in Nat /\ Size > 1
  BY PullAssumption DEF PullShape, Jobs
<1>3. ASSUME NEW start \in 0 .. Size - 1, NEW partial \in BOOLEAN, NEW eof \in BOOLEAN,
             Starts(start, partial, eof),
             RangesKept => /\ eof => first /\ start + 1 = Size
                           /\ (start = 0 /\ ~partial) \/ (start = asked /\ partial)
      PROVE  Given(p, first)
  <2>1. Granted(p, start, partial) \in {NoGrant, asked}
    BY DEF Granted
  <2>2. RangesKept => \/ start = 0 /\ Granted(p, start, partial) = NoGrant
                      \/ start = asked /\ Granted(p, start, partial) = asked
    BY <1>3 DEF Granted
  <2> QED BY <1>3, <2>1, <2>2 DEF Given, GivenAt
<1>4. ASSUME NEW start \in 0 .. Size - 1, NEW partial \in BOOLEAN, Answer(start, partial),
             RangesKept => (start = 0 /\ ~partial) \/ (start = asked /\ partial)
      PROVE  Given(p, first)
  <2>1. PICK eof \in BOOLEAN : (eof => first /\ start + 1 = Size) /\ Starts(start, partial, eof)
    BY <1>4
  <2> HIDE DEF Starts
  <2> QED BY <1>3, <1>4, <2>1
<1>5. \/ asked < Size /\ Answer(asked, asked > 0) /\ UNCHANGED <<tokens, faults>>
      \/ first /\ asked < Size /\ Fault("abrupt") /\ Starts(asked, asked > 0, TRUE) /\ UNCHANGED tokens
      \/ asked >= Size /\ Return(p) /\ UNCHANGED faults
      \/ asked > 0 /\ Fault("ignored") /\ Answer(0, FALSE) /\ UNCHANGED tokens
      \/ /\ asked > 0 /\ Fault("range") /\ UNCHANGED tokens
         /\ \E start \in 0 .. Size - 1 : Answer(start, TRUE)
      \/ Fault("network") /\ Return(p)
  BY DEF Response
<1>2. faults' \in 0 .. MaxFaults
  <2> HIDE DEF Starts, Answer
  <2>1. \A kind : Fault(kind) => faults' \in 0 .. MaxFaults
    BY PullAssumption DEF PullShape, Fault
  <2> QED BY <1>5, <2>1 DEF PullShape
<1>6. Return(p) \/ (UNCHANGED tokens /\ Given(p, first))
  <2>1. ASSUME NEW kind, Fault(kind), kind \in {"range", "abrupt"}
        PROVE  ~RangesKept
    BY <2>1 DEF Fault, RangesKept
  <2> HIDE DEF Starts, Answer
  <2>2. CASE asked < Size /\ Answer(asked, asked > 0) /\ UNCHANGED <<tokens, faults>>
    <3> DEFINE more == asked > 0
    <3>1. asked \in 0 .. Size - 1 /\ more \in BOOLEAN
      BY <1>1, <2>2
    <3>2. RangesKept => (asked = 0 /\ ~more) \/ (asked = asked /\ more)
      BY <1>1
    <3>3. Answer(asked, more)
      BY <2>2
    <3> HIDE DEF asked, more
    <3>4. Given(p, first)
      BY <1>4, <3>1, <3>2, <3>3, Zenon
    <3> QED BY <2>2, <3>4
  <2>3. CASE first /\ asked < Size /\ Fault("abrupt") /\ Starts(asked, asked > 0, TRUE) /\ UNCHANGED tokens
    <3>1. asked \in 0 .. Size - 1 /\ (asked > 0) \in BOOLEAN /\ ~RangesKept
      BY <1>1, <2>1, <2>3
    <3>2. TRUE \in BOOLEAN
      OBVIOUS
    <3>3. Given(p, first)
      BY <1>3, <2>3, <3>1, <3>2, Zenon
    <3> QED BY <2>3, <3>3
  <2>4. CASE asked > 0 /\ Fault("ignored") /\ Answer(0, FALSE) /\ UNCHANGED tokens
    <3>1. 0 \in 0 .. Size - 1 /\ FALSE \in BOOLEAN /\ ~FALSE /\ 0 = 0
      BY <1>1
    <3>2. Given(p, first)
      BY <1>4, <2>4, <3>1, Zenon
    <3> QED BY <2>4, <3>2
  <2>5. CASE asked > 0 /\ Fault("range") /\ UNCHANGED tokens
             /\ \E start \in 0 .. Size - 1 : Answer(start, TRUE)
    <3>1. ~RangesKept /\ TRUE \in BOOLEAN
      BY <2>1, <2>5
    <3>2. Given(p, first)
      BY <1>4, <2>5, <3>1, Zenon
    <3> QED BY <2>5, <3>2
  <2> QED BY <1>5, <2>2, <2>3, <2>4, <2>5
<1> QED BY <1>2, <1>6

LEMMA SizeOfType == PullShape => SizeOf(incomplete) \in Nat
<1> SUFFICES ASSUME PullShape PROVE SizeOf(incomplete) \in Nat  OBVIOUS
<1>1. incomplete # NoInode => data[incomplete] \in Seq(0 .. Size)
  BY DEF PullShape
<1> QED BY <1>1, LenProperties DEF SizeOf

\* Every step of a call keeps the types and the tokens.
LEMMA StepShape ==
  ASSUME PullShape, IsFiniteSet(Pullers), NEW p \in Pullers, PullStep(p)
  PROVE  PullShape'
<1>1. job[p] \in Jobs /\ faults \in 0 .. MaxFaults /\ data \in [Inodes -> Seq(0 .. Size)]
      /\ incomplete \in Inodes \cup {NoInode} /\ blob \in Inodes \cup {NoInode}
  BY DEF PullShape
<1>2. ~At(p, "idle")
  BY DEF PullStep, At, ReadOffset, Stat, Verify, Request, Open, Create, WriteFirst, Body, Copy,
         Check, Discard, Rename, Cleanup
<1>3. SizeOf(incomplete) \in Nat /\ Size \in Nat /\ Size > 1 /\ NoInode \notin Inodes
  BY SizeOfType, PullAssumption
<1>4. ASSUME NEW pc \in {"verify", "request", "check", "discard", "rename", "cleanup", "create"},
             Go(p, pc), UNCHANGED <<data, tokens>>, faults' \in 0 .. MaxFaults,
             incomplete' \in Inodes \cup {NoInode}, blob' \in Inodes \cup {NoInode}
      PROVE  PullShape'
  <2> DEFINE x == [job[p] EXCEPT !.pc = pc]
  <2>1. x \in Jobs /\ x.pc = pc /\ x.kind = job[p].kind
    BY <1>1 DEF Jobs
  <2>2. job' = [job EXCEPT ![p] = x]
    BY <1>4 DEF Go
  <2> HIDE DEF x
  <2> QED BY <1>1, <1>2, <1>4, <2>1, <2>2, GoesOn
<1>5. ASSUME NEW first \in BOOLEAN, Response(p, first), UNCHANGED <<data, incomplete, blob>>,
             ~first => job[p].fd \in Inodes
      PROVE  PullShape'
  <2>1. faults' \in 0 .. MaxFaults
    BY <1>5, ResponseGives
  <2>2. CASE Return(p)
    BY <1>1, <1>2, <1>5, <2>1, <2>2, Returns
  <2>3. CASE ~Return(p)
    <3>0. Given(p, first)
      BY <1>5, <2>3, ResponseGives
    <3>1. PICK start \in 0 .. Size - 1, eof \in BOOLEAN, granted \in {NoGrant, job[p].offset} :
            GivenAt(p, first, start, eof, granted)
      BY <3>0 DEF Given
    <3> DEFINE pc == IF first THEN "open" ELSE "copy"
               held == IF first THEN start + 1 ELSE 0
               next == IF first THEN start + 2 ELSE start + 1
               x == [job[p] EXCEPT !.pc = pc, !.granted = granted, !.held = held, !.next = next,
                                   !.eof = eof]
    <3>2. pc \in {"open", "copy"} /\ held \in 0 .. Size /\ next \in 0 .. Size + 1 /\ granted \in Int
          /\ (pc = "copy" => job[p].fd \in Inodes)
      <4>1. job[p].offset \in Nat
        BY <1>1 DEF Jobs
      <4>2. granted \in Int
        BY <4>1 DEF NoGrant
      <4> QED BY <1>3, <1>5, <4>2
    <3>3. job' = [job EXCEPT ![p] = x]
      BY <3>1 DEF GivenAt
    <3> HIDE DEF pc, held, next
    <3>4. x \in Jobs /\ x.pc = pc /\ x.kind = job[p].kind /\ x.fd = job[p].fd
      BY <1>1, <3>2 DEF Jobs
    <3>5. UNCHANGED tokens
      BY <1>5, <2>3, ResponseGives
    <3> HIDE DEF x
    <3> QED BY <1>1, <1>2, <1>5, <2>1, <3>2, <3>3, <3>4, <3>5, GoesOn
  <2> QED BY <2>2, <2>3
<1>6. CASE ReadOffset(p)
  <2> DEFINE x == [job[p] EXCEPT !.pc = "stat", !.offset = SizeOf(incomplete)]
  <2>1. x \in Jobs /\ x.pc = "stat" /\ x.kind = job[p].kind
    BY <1>1, <1>3 DEF Jobs
  <2>2. job' = [job EXCEPT ![p] = x] /\ UNCHANGED <<data, incomplete, blob, tokens, faults>>
    BY <1>6 DEF ReadOffset
  <2> HIDE DEF x
  <2> QED BY <1>1, <1>2, <2>1, <2>2, GoesOn
<1>7. CASE Stat(p)
  <2>1. UNCHANGED <<data, incomplete, blob, faults>>
    BY <1>7 DEF Stat
  <2>2. CASE Return(p)
    BY <1>1, <1>2, <2>1, <2>2, Returns
  <2>3. CASE ~Return(p)
    <3> DEFINE pc == IF incomplete = NoInode THEN "create" ELSE "verify"
               size == IF incomplete = NoInode THEN NoGrant ELSE SizeOf(incomplete)
               x == [job[p] EXCEPT !.pc = pc, !.size = size]
    <3>1. pc \in {"create", "verify"} /\ size \in Int
      BY <1>3 DEF NoGrant
    <3>2. job' = [job EXCEPT ![p] = x] /\ UNCHANGED tokens
      BY <1>7, <2>3 DEF Stat
    <3> HIDE DEF pc, size
    <3>3. x \in Jobs /\ x.pc = pc /\ x.kind = job[p].kind
      BY <1>1, <3>1 DEF Jobs
    <3> HIDE DEF x
    <3> QED BY <1>1, <1>2, <2>1, <3>1, <3>2, <3>3, GoesOn
  <2> QED BY <2>2, <2>3
<1>8. CASE Verify(p)
  <2>1. UNCHANGED <<data, incomplete, blob, faults>>
        /\ (Return(p) \/ (\E pc \in {"rename", "request"} : Go(p, pc) /\ UNCHANGED tokens))
    BY <1>8 DEF Verify
  <2> QED BY <1>1, <1>2, <1>4, <2>1, Returns
<1>9. CASE Request(p)
  BY <1>5, <1>9 DEF Request
<1>10. CASE Open(p)
  <2>1. UNCHANGED <<data, blob, faults>> /\ incomplete' \in Inodes \cup {NoInode}
    BY <1>1, <1>10 DEF Open
  <2>2. \/ Return(p) \/ (Go(p, "create") /\ UNCHANGED tokens)
        \/ /\ job' = [job EXCEPT ![p].pc = "first", ![p].fd = incomplete, ![p].append = TRUE]
           /\ incomplete # NoInode /\ UNCHANGED tokens
    BY <1>10 DEF Open
  <2>3. CASE job' = [job EXCEPT ![p].pc = "first", ![p].fd = incomplete, ![p].append = TRUE]
             /\ incomplete # NoInode /\ UNCHANGED tokens
    <3> DEFINE y == TRUE
               x == [job[p] EXCEPT !.pc = "first", !.fd = incomplete, !.append = y]
    <3>1. job' = [job EXCEPT ![p] = x] /\ y \in BOOLEAN
      BY <2>3
    <3> HIDE DEF y
    <3>2. x \in Jobs /\ x.pc = "first" /\ x.kind = job[p].kind /\ x.fd = incomplete
      BY <1>1, <3>1 DEF Jobs
    <3> HIDE DEF x
    <3> QED BY <1>1, <1>2, <2>1, <2>3, <3>1, <3>2, GoesOn
  <2> QED BY <1>1, <1>2, <1>4, <2>1, <2>2, <2>3, Returns
<1>11. CASE Create(p)
  <2>1. PICK n \in Inodes :
          /\ data' = [data EXCEPT ![n] = <<>>] /\ incomplete' = n
          /\ job' = [job EXCEPT ![p].pc = IF job[p].held = 0 THEN "body" ELSE "first", ![p].fd = n]
          /\ UNCHANGED <<blob, tokens, faults>>
    BY <1>1, <1>11 DEF Create, Free
  <2> DEFINE pc == IF job[p].held = 0 THEN "body" ELSE "first"
             x == [job[p] EXCEPT !.pc = pc, !.fd = n]
  <2>2. pc \in {"body", "first"} /\ job' = [job EXCEPT ![p] = x]
    BY <2>1
  <2> HIDE DEF pc
  <2>3. x \in Jobs /\ x.pc = pc /\ x.kind = job[p].kind /\ x.fd = n
    BY <1>1, <2>2 DEF Jobs
  <2>4. <<>> \in Seq(0 .. Size)
    BY EmptySeq
  <2>5. data' \in [Inodes -> Seq(0 .. Size)]
    BY <1>1, <2>1, <2>4
  <2> HIDE DEF x
  <2> QED BY <1>1, <1>2, <2>1, <2>2, <2>3, <2>5, GoesOn
<1>12. CASE WriteFirst(p)
  <2> DEFINE pc == IF job[p].eof THEN "rename" ELSE "copy"
             at == job[p].at + 1
             held == 0
             x == [job[p] EXCEPT !.pc = pc, !.at = at, !.held = held]
  <2>0. at \in Nat /\ held \in 0 .. Size
    BY <1>1, <1>3 DEF Jobs
  <2>1. pc \in {"rename", "copy"} /\ job' = [job EXCEPT ![p] = x]
        /\ UNCHANGED <<incomplete, blob, tokens, faults>>
    BY <1>12 DEF WriteFirst
  <2> HIDE DEF pc, at, held
  <2>2. x \in Jobs /\ x.pc = pc /\ x.kind = job[p].kind /\ x.fd = job[p].fd
    BY <1>1, <1>3, <2>0, <2>1 DEF Jobs
  <2>3. job[p].fd \in Inodes /\ job[p].held \in 0 .. Size
    BY <1>1, <1>12 DEF WriteFirst, At, PullShape, Jobs
  <2>4. Written(p, job[p].held) \in Seq(0 .. Size)
    BY <2>3, WrittenFacts
  <2>5. data' \in [Inodes -> Seq(0 .. Size)]
    BY <1>1, <1>12, <2>3, <2>4 DEF WriteFirst
  <2> HIDE DEF x
  <2> QED BY <1>1, <1>2, <2>1, <2>2, <2>3, <2>5, GoesOn
<1>13. CASE Body(p)
  <2>1. job[p].fd \in Inodes /\ FALSE \in BOOLEAN
    BY <1>13 DEF Body, At, PullShape
  <2>2. Response(p, FALSE) /\ UNCHANGED <<data, incomplete, blob>>
    BY <1>13 DEF Body
  <2> QED BY <1>5, <2>1, <2>2, Zenon
<1>14. CASE Copy(p)
  <2>0. job[p].fd \in Inodes /\ UNCHANGED <<incomplete, blob>>
    BY <1>14 DEF Copy, At, PullShape
  <2>1. \/ /\ job[p].next <= Size /\ data' = [data EXCEPT ![job[p].fd] = Written(p, job[p].next)]
           /\ job' = [job EXCEPT ![p].next = @ + 1, ![p].at = @ + 1]
           /\ UNCHANGED <<tokens, faults>>
        \/ /\ Go(p, "check") /\ UNCHANGED <<data, tokens>> /\ faults' \in 0 .. MaxFaults
        \/ Return(p) /\ UNCHANGED data /\ faults' \in 0 .. MaxFaults
    <3>1. \A kind : Fault(kind) => faults' \in 0 .. MaxFaults
      BY <1>1, PullAssumption DEF Fault
    <3>2. faults' = faults => faults' \in 0 .. MaxFaults
      BY <1>1
    <3> QED BY <1>14, <3>1, <3>2 DEF Copy
  <2>2. CASE /\ job[p].next <= Size /\ data' = [data EXCEPT ![job[p].fd] = Written(p, job[p].next)]
             /\ job' = [job EXCEPT ![p].next = @ + 1, ![p].at = @ + 1]
             /\ UNCHANGED <<tokens, faults>>
    <3> DEFINE next == job[p].next + 1
               at == job[p].at + 1
               x == [job[p] EXCEPT !.next = next, !.at = at]
    <3>0. at \in Nat /\ job[p].next \in 0 .. Size
      BY <1>1, <1>3, <2>2 DEF Jobs
    <3>1a. next \in 0 .. Size + 1
      BY <1>3, <3>0
    <3>1. job' = [job EXCEPT ![p] = x]
      BY <2>2
    <3> HIDE DEF next, at
    <3>2. x \in Jobs /\ x.pc = job[p].pc /\ x.kind = job[p].kind /\ x.fd = job[p].fd
      BY <1>1, <3>0, <3>1a DEF Jobs
    <3>3. Written(p, job[p].next) \in Seq(0 .. Size)
      BY <2>0, <3>0, WrittenFacts
    <3>4. data' \in [Inodes -> Seq(0 .. Size)]
      BY <1>1, <2>2, <3>3
    <3> HIDE DEF x
    <3> QED BY <1>1, <1>2, <2>0, <2>2, <3>1, <3>2, <3>4, GoesOn DEF At
  <2> QED BY <1>1, <1>2, <1>4, <2>0, <2>1, <2>2, Returns
<1>15. CASE Check(p)
  <2>1. UNCHANGED <<data, incomplete, blob, faults>>
        /\ (Return(p) \/ (\E pc \in {"rename", "discard"} : Go(p, pc) /\ UNCHANGED tokens))
    BY <1>15 DEF Check
  <2> QED BY <1>1, <1>2, <1>4, <2>1, Returns
<1>16. CASE Discard(p) \/ Cleanup(p)
  <2>1. Return(p) /\ UNCHANGED <<data, blob, faults>> /\ incomplete' = NoInode
    BY <1>16 DEF Discard, Cleanup
  <2> QED BY <1>1, <1>2, <2>1, Returns
<1>17. CASE Rename(p)
  <2>1. UNCHANGED <<data, faults>> /\ incomplete' \in Inodes \cup {NoInode}
        /\ blob' \in Inodes \cup {NoInode} /\ (Return(p) \/ (Go(p, "cleanup") /\ UNCHANGED tokens))
    BY <1>1, <1>17 DEF Rename
  <2> QED BY <1>1, <1>2, <1>4, <2>1, Returns
<1> QED BY <1>6, <1>7, <1>8, <1>9, <1>10, <1>11, <1>12, <1>13, <1>14, <1>15, <1>16, <1>17
        DEF PullStep

\* A crash ends every pull.
LEMMA CrashShape == PullShape /\ CrashPulls => PullShape'
<1> SUFFICES ASSUME PullShape, CrashPulls PROVE PullShape'  OBVIOUS
<1>1. NoJob \in Jobs /\ NoJob.pc = "idle"
  BY NoJobFacts
<1>2. job' = [p \in Pullers |-> NoJob] /\ UNCHANGED <<data, blob>> /\ tokens' = MaxTokens
      /\ incomplete' \in {incomplete, NoInode}
  BY DEF CrashPulls
<1>3. faults' \in 0 .. MaxFaults
  BY PullAssumption DEF PullShape, CrashPulls, Fault
<1>4. Pulling' = {}
  BY <1>1, <1>2 DEF Pulling
<1>5. tokens' \in Nat /\ tokens' + Cardinality(Pulling') = MaxTokens
  BY <1>2, <1>4, FS_EmptySet, PullAssumption
<1> QED BY <1>1, <1>2, <1>3, <1>5 DEF PullShape

LEMMA ShapeInit == PullInit => PullShape
<1> SUFFICES ASSUME PullInit PROVE PullShape  OBVIOUS
<1>1. Pulling = {} /\ job \in [Pullers -> Jobs]
  BY NoJobFacts DEF PullInit, Pulling
<1>2. <<>> \in Seq(0 .. Size)
  BY EmptySeq
<1>3. tokens \in Nat /\ tokens + Cardinality(Pulling) = MaxTokens
  BY <1>1, FS_EmptySet, PullAssumption DEF PullInit
<1> QED BY <1>1, <1>2, <1>3, NoJobFacts, PullAssumption DEF PullInit, PullShape

LEMMA ShapeNext ==
  ASSUME PullShape, IsFiniteSet(Pullers), [Next]_distVars
  PROVE  PullShape'
<1>1. CASE \E p \in Pullers : PullerStep(p)
  BY <1>1, BeginShape, StepShape DEF PullerStep, Resolve
<1>2. CASE CrashPulls
  BY <1>2, CrashShape
<1>3. CASE UNCHANGED pullVars
  BY <1>3 DEF pullVars, PullShape, Pulling
<1> QED BY <1>1, <1>2, <1>3 DEF Next, distVars

(***************************************************************************)
(* What the puller knows, when there is one.                               *)
(***************************************************************************)
\* The call returns and leaves the files in order.
LEMMA ReturnKeeps ==
  ASSUME PullInv, OnePuller, NEW p \in Pullers, Return(p), PullShape', FilesOK'
  PROVE  PullInv'
<1>1. job'[p] = NoJob
  BY DEF PullInv, PullShape, Return
<1>2. job'[p].pc = "idle" /\ job'[p].size = 0
  BY <1>1, NoJobFacts
<1>3. Knows(p)'
  <2>1. 0 \in -1 .. Size
    BY PullAssumption
  <2> QED BY <1>2, <2>1 DEF Knows
<1> QED BY <1>3 DEF PullInv, OnePuller

\* Files that a step leaves alone stay in order.
LEMMA SameFiles == FilesOK /\ UNCHANGED <<data, incomplete, blob>> => FilesOK'
BY DEF FilesOK, Begins, Whole

LEMMA BeginKeeps ==
  ASSUME PullInv, OnePuller, NEW p \in Pullers, BeginPull(p) \/ BeginLoad(p), PullShape'
  PROVE  PullInv'
<1>1. job[p] = NoJob /\ job \in [Pullers -> Jobs] /\ UNCHANGED <<data, incomplete, blob>>
  BY DEF PullInv, PullShape, BeginPull, BeginLoad, At
<1>2. FilesOK'
  BY <1>1, SameFiles DEF PullInv
<1>3. \/ job'[p] = [NoJob EXCEPT !.pc = "offset"]
      \/ job'[p] = [NoJob EXCEPT !.pc = "stat", !.kind = "load"]
  BY <1>1 DEF BeginPull, BeginLoad, Go
<1>4. /\ job'[p].size = 0 /\ job'[p].held = 0 /\ job'[p].fd = NoInode /\ job'[p].at = 0
      /\ ~job'[p].append /\ job'[p].offset = 0
      /\ \/ job'[p].pc = "offset" /\ job'[p].kind = "pull"
         \/ job'[p].pc = "stat" /\ job'[p].kind = "load"
  BY <1>3, NoJobFacts DEF Jobs
<1>5. Knows(p)'
  <2>1. 0 \in -1 .. Size
    BY PullAssumption
  <2> QED BY <1>4, <2>1 DEF Knows, Fresh
<1> QED BY <1>2, <1>5 DEF PullInv, OnePuller

\* Looking at the files: the offset, the blob, the length, the digest.
LEMMA LookKeeps ==
  ASSUME PullInv, OnePuller, NEW p \in Pullers, PullShape',
         ReadOffset(p) \/ Stat(p) \/ Verify(p) \/ Check(p)
  PROVE  PullInv'
<1>1. job[p] \in Jobs /\ job \in [Pullers -> Jobs] /\ UNCHANGED <<data, incomplete, blob>>
  BY DEF PullInv, PullShape, ReadOffset, Stat, Verify, Check
<1>2. FilesOK'
  BY <1>1, SameFiles DEF PullInv
<1>3. CASE Return(p)
  BY <1>2, <1>3, ReturnKeeps
<1>4. Knows(p) /\ FilesOK /\ SizeOf(incomplete) \in 0 .. Size
  <2>1. Knows(p) /\ FilesOK /\ (incomplete # NoInode => data[incomplete] \in Seq(0 .. Size))
    BY DEF PullInv, PullShape
  <2> QED BY <2>1, LenProperties, PullAssumption DEF FilesOK, Begins, SizeOf
<1>5. ASSUME ~Return(p) PROVE Knows(p)'
  <2>1. CASE ReadOffset(p)
    <3>1. job[p].pc = "offset" /\ job'[p] = [job[p] EXCEPT !.pc = "stat", !.offset = SizeOf(incomplete)]
      BY <1>1, <2>1 DEF ReadOffset, At
    <3>2. /\ job'[p].pc = "stat" /\ job'[p].offset = SizeOf(incomplete)
          /\ \A f \in {"kind", "size", "held", "fd", "append", "at"} : job'[p][f] = job[p][f]
      BY <1>1, <3>1 DEF Jobs
    <3> QED BY <1>1, <1>4, <3>1, <3>2 DEF Knows, Fresh, SizeOf
  <2>2. CASE Stat(p)
    <3>1. /\ job[p].pc = "stat" 
          /\ job'[p].pc = (IF incomplete = NoInode THEN "create" ELSE "verify")
          /\ job'[p].size = (IF incomplete = NoInode THEN NoGrant ELSE SizeOf(incomplete))
          /\ \A f \in {"offset", "kind", "held", "fd", "append", "at"} : job'[p][f] = job[p][f]
      BY <1>1, <1>5, <2>2 DEF Stat, At, Jobs
    <3> QED BY <1>1, <1>4, <3>1, PullAssumption DEF Knows, Fresh, SizeOf, NoGrant
  <2>3. CASE Verify(p)
    <3>1. /\ job[p].pc = "verify" /\ incomplete # NoInode
          /\ job'[p].pc = (IF Whole(incomplete) THEN "rename" ELSE "request")
          /\ \A f \in {"offset", "kind", "size", "held", "fd", "append", "at"} : job'[p][f] = job[p][f]
      BY <1>1, <1>5, <2>3 DEF Verify, At, Jobs, Go
    <3> QED BY <1>1, <1>4, <3>1 DEF Knows, Fresh, SizeOf, Whole
  <2>4. CASE Check(p)
    <3>1. /\ job[p].pc = "check" /\ incomplete # NoInode
          /\ job'[p].pc = (IF Whole(incomplete) THEN "rename" ELSE "discard")
          /\ job'[p].size = job[p].size
      BY <1>1, <1>5, <2>4 DEF Check, At, Jobs, Go
    <3> QED BY <1>1, <1>4, <3>1 DEF Knows, Whole
  <2> QED BY <2>1, <2>2, <2>3, <2>4
<1> QED BY <1>2, <1>3, <1>5 DEF PullInv, OnePuller

\* The response is a file to append to, or one to write from its first byte.
LEMMA RequestKeeps ==
  ASSUME PullInv, OnePuller, RangesKept, NEW p \in Pullers, PullShape', Request(p) \/ Body(p)
  PROVE  PullInv'
<1>1. job[p] \in Jobs /\ job \in [Pullers -> Jobs] /\ UNCHANGED <<data, incomplete, blob>>
      /\ PullShape /\ Knows(p) /\ FilesOK
  BY DEF PullInv, PullShape, Request, Body
<1>2. FilesOK'
  BY <1>1, SameFiles DEF PullInv
<1>3. CASE Return(p)
  BY <1>2, <1>3, ReturnKeeps
<1>4. job[p].offset \in Nat /\ job[p].size \in Int /\ job[p].kind \in {"pull", "load"}
      /\ Size \in Nat /\ Size > 1
  BY <1>1, PullAssumption DEF Jobs
<1>5. CASE ~Return(p) /\ Request(p)
  <2>1. Given(p, TRUE)
    <3>1. Response(p, TRUE) /\ TRUE \in BOOLEAN
      BY <1>5 DEF Request
    <3> QED BY <1>1, <1>5, <3>1, ResponseGives, Zenon
  <2>2. PICK start \in 0 .. Size - 1, eof \in BOOLEAN, granted \in {NoGrant, job[p].offset} :
          GivenAt(p, TRUE, start, eof, granted)
    BY <2>1 DEF Given
  <2>3. /\ job'[p].pc = "open" /\ job'[p].granted = granted /\ job'[p].held = start + 1
        /\ job'[p].next = start + 2 /\ job'[p].eof = eof
        /\ \A f \in {"kind", "offset", "size", "fd", "append", "at"} : job'[p][f] = job[p][f]
    BY <1>1, <2>2 DEF GivenAt, Jobs
  <2>4. /\ eof => start + 1 = Size
        /\ \/ start = 0 /\ granted = -1
           \/ start = job[p].offset /\ granted = job[p].offset
    BY <2>2 DEF GivenAt, NoGrant
  <2>5. /\ job[p].pc = "request" /\ Fresh(p) /\ incomplete # NoInode
        /\ job[p].size = SizeOf(incomplete) /\ job[p].size \in -1 .. Size
        /\ job[p].offset = IF job[p].kind = "pull" THEN job[p].size ELSE 0
    BY <1>1, <1>5 DEF Knows, Request, At
  <2>6. IF granted = job[p].size /\ job[p].kind = "pull"
        THEN start = job[p].size ELSE start = 0 /\ ~eof
    BY <1>4, <2>4, <2>5
  <2>7. SizeOf(incomplete)' = SizeOf(incomplete) /\ Fresh(p)'
    BY <1>1, <2>3, <2>5 DEF SizeOf, Fresh
  <2>8. Knows(p)'
    BY <1>1, <1>4, <2>3, <2>4, <2>5, <2>6, <2>7 DEF Knows
  <2> QED BY <1>2, <2>8 DEF PullInv, OnePuller
<1>6. CASE ~Return(p) /\ Body(p)
  <2>1. Given(p, FALSE)
    <3>1. Response(p, FALSE) /\ FALSE \in BOOLEAN
      BY <1>6 DEF Body
    <3> QED BY <1>1, <1>6, <3>1, ResponseGives, Zenon
  <2>2. PICK start \in 0 .. Size - 1, eof \in BOOLEAN, granted \in {NoGrant, job[p].offset} :
          GivenAt(p, FALSE, start, eof, granted)
    BY <2>1 DEF Given
  <2>3. /\ job'[p].pc = "copy" /\ job'[p].next = start + 1
        /\ \A f \in {"kind", "offset", "size", "fd", "append", "at"} : job'[p][f] = job[p][f]
    BY <1>1, <2>2 DEF GivenAt, Jobs
  <2>4. start = 0 \/ start = job[p].offset
    BY <2>2 DEF GivenAt, NoGrant
  <2>5. /\ job[p].fd = incomplete /\ job[p].fd # NoInode /\ data[job[p].fd] = <<>>
        /\ ~job[p].append /\ job[p].at = 0 /\ job[p].offset = 0 /\ job[p].size \in -1 .. Size
    BY <1>1, <1>6 DEF Knows, Body, At
  <2>6. Len(data[job[p].fd]) = 0
    BY <2>5
  <2>7. Knows(p)'
    BY <1>1, <1>4, <2>3, <2>4, <2>5, <2>6 DEF Knows
  <2> QED BY <1>2, <2>7 DEF PullInv, OnePuller
<1> QED BY <1>3, <1>5, <1>6

\* Opening the file, or a new one in its place.
LEMMA OpenKeeps ==
  ASSUME PullInv, OnePuller, NEW p \in Pullers, PullShape', Open(p)
  PROVE  PullInv'
<1>1. /\ job[p] \in Jobs /\ job \in [Pullers -> Jobs] /\ UNCHANGED <<data, blob>>
      /\ Knows(p) /\ FilesOK /\ job[p].pc = "open" /\ incomplete # NoInode
  BY DEF PullInv, PullShape, Open, At, Knows
<1>2. FilesOK'
  BY <1>1 DEF Open, FilesOK, Begins, Whole, PullInv, PullShape
<1>3. CASE job[p].granted = job[p].size /\ job[p].kind = "pull"
  <2>1. job' = [job EXCEPT ![p].pc = "first", ![p].fd = incomplete, ![p].append = TRUE]
        /\ incomplete' = incomplete
    BY <1>1, <1>3 DEF Open
  <2>2. /\ job'[p].pc = "first" /\ job'[p].fd = incomplete /\ job'[p].append
        /\ \A f \in {"size", "held", "next", "eof"} : job'[p][f] = job[p][f]
    BY <1>1, <2>1 DEF Jobs
  <2>3. Knows(p)'
    BY <1>1, <1>3, <2>1, <2>2 DEF Knows, SizeOf
  <2> QED BY <1>2, <2>3 DEF PullInv, OnePuller
<1>4. CASE ~(job[p].granted = job[p].size /\ job[p].kind = "pull")
  <2>1. job' = [job EXCEPT ![p].pc = "create"] /\ incomplete' = NoInode
    BY <1>1, <1>4 DEF Open, Go
  <2>2. /\ job'[p].pc = "create"
        /\ \A f \in {"size", "held", "next", "eof", "fd", "append", "at"} : job'[p][f] = job[p][f]
    BY <1>1, <2>1 DEF Jobs
  <2>3. Knows(p)'
    BY <1>1, <1>4, <2>1, <2>2 DEF Knows, Fresh
  <2> QED BY <1>2, <2>3 DEF PullInv, OnePuller
<1> QED BY <1>3, <1>4

LEMMA CreateKeeps ==
  ASSUME PullInv, OnePuller, NEW p \in Pullers, PullShape', Create(p)
  PROVE  PullInv'
<1>1. /\ job[p] \in Jobs /\ job \in [Pullers -> Jobs] /\ data \in [Inodes -> Seq(0 .. Size)]
      /\ Knows(p) /\ FilesOK /\ job[p].pc = "create" /\ incomplete = NoInode /\ Fresh(p)
  BY DEF PullInv, PullShape, Create, At, Knows
<1>2. PICK n \in Free :
        /\ data' = [data EXCEPT ![n] = <<>>] /\ incomplete' = n /\ blob' = blob
        /\ job' = [job EXCEPT ![p].pc = IF job[p].held = 0 THEN "body" ELSE "first", ![p].fd = n]
  BY <1>1 DEF Create
<1>3. n \in Inodes /\ n # blob /\ n # NoInode
  BY <1>2, PullAssumption DEF Free
<1>4. data'[n] = <<>> /\ (blob # NoInode => data'[blob] = data[blob])
  BY <1>1, <1>2, <1>3 DEF PullInv, PullShape
<1>5. Len(data'[n]) = 0 /\ Size \in Nat
  BY <1>4, PullAssumption
<1>6. FilesOK'
  BY <1>1, <1>2, <1>3, <1>4, <1>5 DEF FilesOK, Begins, Whole
<1>7. /\ job'[p].pc = (IF job[p].held = 0 THEN "body" ELSE "first") /\ job'[p].fd = n
      /\ \A f \in {"offset", "size", "held", "next", "eof", "append", "at"} : job'[p][f] = job[p][f]
  BY <1>1, <1>2 DEF Jobs
<1>8. Knows(p)'
  BY <1>1, <1>2, <1>3, <1>4, <1>5, <1>7 DEF Knows, Fresh
<1> QED BY <1>6, <1>8 DEF PullInv, OnePuller

\* Bytes are written where they belong.
LEMMA WriteKeeps ==
  ASSUME PullInv, NEW p \in Pullers, PullShape', job[p].fd = incomplete, incomplete \in Inodes,
         NEW byte \in 0 .. Size, byte = Len(data[incomplete]) + 1,
         ~job[p].append => job[p].at = Len(data[incomplete]),
         data' = [data EXCEPT ![incomplete] = Written(p, byte)], UNCHANGED <<incomplete, blob>>
  PROVE  /\ FilesOK' /\ Len(data'[incomplete]) = byte
         /\ byte = Size => data'[incomplete] = Layer
<1>1. PullShape /\ FilesOK /\ data \in [Inodes -> Seq(0 .. Size)] /\ incomplete # NoInode
  BY PullAssumption DEF PullInv, PullShape
<1>2. Begins(incomplete)
  BY <1>1 DEF FilesOK
<1>3. data'[incomplete] = Written(p, byte) /\ Written(p, byte) \in Seq(0 .. Size)
      /\ Len(Written(p, byte)) = byte /\ \A i \in 1 .. byte : Written(p, byte)[i] = i
  BY <1>1, <1>2, WrittenFacts
<1>4. byte <= Size
  BY PullAssumption
<1>5. byte = Size => data'[incomplete] = Layer
  BY <1>3, <1>4, BeginsFacts
<1>6. blob # NoInode => Whole(blob)' /\ blob # incomplete
  <2>1. blob # NoInode => blob # incomplete /\ data[blob] = Layer /\ blob \in Inodes
    BY <1>1 DEF FilesOK, Whole, PullShape
  <2>2. blob # NoInode => data'[blob] = data[blob]
    BY <1>1, <2>1
  <2> QED BY <2>1, <2>2 DEF Whole
<1>7. Begins(incomplete)'
  BY <1>3, <1>4 DEF Begins
<1> QED BY <1>3, <1>5, <1>6, <1>7 DEF FilesOK

LEMMA FirstKeeps ==
  ASSUME PullInv, OnePuller, NEW p \in Pullers, PullShape', WriteFirst(p)
  PROVE  PullInv'
<1>1. /\ job[p] \in Jobs /\ job \in [Pullers -> Jobs] /\ Knows(p) /\ job[p].pc = "first"
      /\ UNCHANGED <<incomplete, blob>>
  BY DEF PullInv, PullShape, WriteFirst, At
<1>2. /\ job[p].fd = incomplete /\ incomplete # NoInode /\ job[p].held = Len(data[incomplete]) + 1
      /\ job[p].next = job[p].held + 1 /\ job[p].size \in -1 .. Size
      /\ ~job[p].append => job[p].at = Len(data[incomplete])
      /\ job[p].eof => job[p].held = Size
  BY <1>1 DEF Knows
<1>3. incomplete \in Inodes /\ job[p].held \in 0 .. Size /\ job[p].at \in Nat
  BY <1>1, <1>2 DEF Jobs, PullInv, PullShape
<1>4. data' = [data EXCEPT ![incomplete] = Written(p, job[p].held)]
  BY <1>2 DEF WriteFirst
<1>5. /\ FilesOK' /\ Len(data'[incomplete]) = job[p].held
      /\ job[p].held = Size => data'[incomplete] = Layer
  BY <1>1, <1>2, <1>3, <1>4, WriteKeeps
<1>6. /\ job'[p].pc = (IF job[p].eof THEN "rename" ELSE "copy") /\ job'[p].at = job[p].at + 1
      /\ \A f \in {"size", "next", "fd", "append"} : job'[p][f] = job[p][f]
  BY <1>1 DEF Jobs, WriteFirst
<1>7. Knows(p)'
  BY <1>1, <1>2, <1>3, <1>5, <1>6 DEF Knows
<1> QED BY <1>5, <1>7 DEF PullInv, OnePuller

LEMMA CopyKeeps ==
  ASSUME PullInv, OnePuller, NEW p \in Pullers, PullShape', Copy(p)
  PROVE  PullInv'
<1>1. /\ job[p] \in Jobs /\ job \in [Pullers -> Jobs] /\ Knows(p) /\ job[p].pc = "copy"
      /\ UNCHANGED <<incomplete, blob>>
  BY DEF PullInv, PullShape, Copy, At
<1>2. /\ job[p].fd = incomplete /\ incomplete # NoInode /\ job[p].next = Len(data[incomplete]) + 1
      /\ job[p].size \in -1 .. Size
      /\ ~job[p].append => job[p].at = Len(data[incomplete])
  BY <1>1 DEF Knows
<1>3. incomplete \in Inodes /\ job[p].next \in 0 .. Size + 1 /\ job[p].at \in Nat
  BY <1>1, <1>2 DEF Jobs, PullInv, PullShape
<1>4. CASE Return(p) /\ UNCHANGED data
  BY <1>1, <1>4, SameFiles, ReturnKeeps DEF PullInv
<1>5. CASE Go(p, "check") /\ UNCHANGED data
  <2>1. job'[p].pc = "check" /\ job'[p].size = job[p].size
    BY <1>1, <1>5 DEF Jobs, Go
  <2>2. Knows(p)'
    BY <1>1, <1>2, <2>1 DEF Knows
  <2>3. FilesOK'
    BY <1>1, <1>5, SameFiles DEF PullInv
  <2> QED BY <2>2, <2>3 DEF PullInv, OnePuller
<1>6. CASE /\ job[p].next <= Size /\ data' = [data EXCEPT ![job[p].fd] = Written(p, job[p].next)]
           /\ job' = [job EXCEPT ![p].next = @ + 1, ![p].at = @ + 1]
  <2>1. job[p].next \in 0 .. Size
    BY <1>3, <1>6, PullAssumption
  <2>2. FilesOK' /\ Len(data'[incomplete]) = job[p].next
    BY <1>1, <1>2, <1>3, <1>6, <2>1, WriteKeeps
  <2>3. /\ job'[p].next = job[p].next + 1 /\ job'[p].at = job[p].at + 1
        /\ \A f \in {"pc", "size", "fd", "append"} : job'[p][f] = job[p][f]
    BY <1>1, <1>6 DEF Jobs
  <2>4. Knows(p)'
    BY <1>1, <1>2, <1>3, <2>1, <2>2, <2>3 DEF Knows
  <2> QED BY <2>2, <2>4 DEF PullInv, OnePuller
<1> QED BY <1>4, <1>5, <1>6 DEF Copy

\* The incomplete file is thrown away, or becomes the blob.
LEMMA EndKeeps ==
  ASSUME PullInv, OnePuller, NEW p \in Pullers, PullShape', Discard(p) \/ Rename(p) \/ Cleanup(p)
  PROVE  PullInv'
<1>1. /\ job[p] \in Jobs /\ job \in [Pullers -> Jobs] /\ Knows(p) /\ FilesOK /\ UNCHANGED data
      /\ incomplete \in Inodes \cup {NoInode}
  BY DEF PullInv, PullShape, Discard, Rename, Cleanup
<1>2. CASE Discard(p) \/ Cleanup(p)
  <2>1. Return(p) /\ incomplete' = NoInode /\ blob' = blob
    BY <1>2 DEF Discard, Cleanup
  <2>2. FilesOK'
    BY <1>1, <2>1, PullAssumption DEF FilesOK, Whole
  <2> QED BY <2>1, <2>2, ReturnKeeps
<1>3. CASE Rename(p)
  <2>1. incomplete # NoInode /\ data[incomplete] = Layer
    BY <1>1, <1>3 DEF Knows, Rename, At
  <2>2. blob' = incomplete /\ incomplete' = NoInode
        /\ (Return(p) \/ Go(p, "cleanup"))
    BY <1>3, <2>1 DEF Rename
  <2>3. FilesOK'
    BY <1>1, <2>1, <2>2 DEF FilesOK, Whole
  <2>4. CASE Go(p, "cleanup")
    <3>1. job'[p].pc = "cleanup" /\ job'[p].size = job[p].size
      BY <1>1, <2>4 DEF Jobs, Go
    <3>2. Knows(p)'
      BY <1>1, <2>2, <3>1 DEF Knows
    <3> QED BY <2>3, <3>2 DEF PullInv, OnePuller
  <2> QED BY <2>2, <2>3, <2>4, ReturnKeeps
<1> QED BY <1>2, <1>3

LEMMA CrashKeeps ==
  ASSUME PullInv, CrashPulls, PullShape'
  PROVE  PullInv'
<1>1. job' = [p \in Pullers |-> NoJob] /\ UNCHANGED <<data, blob>> /\ incomplete' \in {incomplete, NoInode}
      /\ FilesOK
  BY DEF CrashPulls, PullInv
<1>2. FilesOK'
  <2>1. blob # NoInode => Whole(blob)' /\ blob # incomplete'
    BY <1>1 DEF FilesOK, Whole
  <2>2. incomplete' # NoInode => Begins(incomplete)'
    BY <1>1 DEF FilesOK, Begins
  <2> QED BY <1>1, <2>1, <2>2 DEF FilesOK
<1>3. ASSUME NEW p \in Pullers PROVE Knows(p)'
  <2>1. job'[p].pc = "idle" /\ job'[p].size = 0
    BY <1>1, NoJobFacts
  <2>2. 0 \in -1 .. Size
    BY PullAssumption
  <2> QED BY <2>1, <2>2 DEF Knows
<1> QED BY <1>2, <1>3 DEF PullInv

LEMMA PullInvInit == PullInit => PullInv
<1> SUFFICES ASSUME PullInit PROVE PullInv  OBVIOUS
<1>1. FilesOK
  BY DEF PullInit, FilesOK
<1>2. ASSUME NEW p \in Pullers PROVE Knows(p)
  <2>1. job[p].pc = "idle" /\ job[p].size = 0
    BY NoJobFacts DEF PullInit
  <2>2. 0 \in -1 .. Size
    BY PullAssumption
  <2> QED BY <2>1, <2>2 DEF Knows
<1> QED BY <1>1, <1>2, ShapeInit DEF PullInv

LEMMA PullersFinite == OnePuller => IsFiniteSet(Pullers)
<1> SUFFICES ASSUME OnePuller PROVE IsFiniteSet(Pullers)  OBVIOUS
<1>1. CASE Pullers = {}
  BY <1>1, FS_EmptySet
<1>2. CASE Pullers # {}
  <2>1. PICK p \in Pullers : Pullers = {p}
    BY <1>2 DEF OnePuller
  <2> QED BY <2>1, FS_Singleton
<1> QED BY <1>1, <1>2

LEMMA PullInvNext ==
  ASSUME PullInv, OnePuller, RangesKept, [Next]_distVars
  PROVE  PullInv'
<1>1. PullShape'
  BY ShapeNext, PullersFinite DEF PullInv
<1>2. ASSUME NEW p \in Pullers, PullStep(p) PROVE PullInv'
  BY <1>1, <1>2, LookKeeps, RequestKeeps, OpenKeeps, CreateKeeps, FirstKeeps, CopyKeeps, EndKeeps
     DEF PullStep
<1>3. CASE \E p \in Pullers : PullerStep(p)
  BY <1>1, <1>2, <1>3, BeginKeeps DEF PullerStep, Resolve
<1>4. CASE CrashPulls
  BY <1>1, <1>4, CrashKeeps
<1>5. CASE UNCHANGED pullVars
  <2>1. FilesOK'
    BY <1>5, SameFiles DEF PullInv, pullVars
  <2>2. ASSUME NEW p \in Pullers PROVE Knows(p)'
    BY <1>5 DEF PullInv, pullVars, Knows, Fresh, SizeOf
  <2> QED BY <1>1, <2>1, <2>2 DEF PullInv
<1> QED BY <1>3, <1>4, <1>5 DEF Next, distVars

\* Every token of the semaphore that is not there is with one pull.
TokensKept == tokens \in 0 .. MaxTokens /\ tokens + Cardinality(Pulling) = MaxTokens

(* Whoever pulls and whatever goes wrong, no token of the pull semaphore is made or lost
   (Manager.Pull). *)
THEOREM TokensAreKept == ASSUME IsFiniteSet(Pullers) PROVE Spec => []TokensKept
<1>1. Init => PullShape
  BY ShapeInit DEF Init
<1>2. PullShape /\ [Next]_distVars => PullShape'
  BY ShapeNext
<1>3. PullShape => TokensKept
  <2> SUFFICES ASSUME PullShape PROVE TokensKept  OBVIOUS
  <2>1. Cardinality(Pulling) \in Nat
    BY PullingFinite DEF Pulling
  <2> QED BY <2>1, PullAssumption DEF PullShape, TokensKept
<1> QED BY <1>1, <1>2, <1>3, PTL DEF Spec

(* However often the download is broken off and taken up again, a blob that can be found
   has the content its name is the digest of (WriteBlobWithResume). *)
THEOREM BlobIsWhole == ASSUME OnePuller, RangesKept PROVE Spec => []BlobWhole
<1>1. Init => PullInv
  BY PullInvInit DEF Init
<1>2. PullInv /\ [Next]_distVars => PullInv'
  BY PullInvNext
<1>3. PullInv => BlobWhole
  BY DEF PullInv, FilesOK, BlobWhole
<1> QED BY <1>1, <1>2, <1>3, PTL DEF Spec

(* Under the same conditions what a broken download leaves is a prefix of the layer, and
   every token comes back once (WriteBlobWithResume, writeBlob). *)
THEOREM PullIsSound == ASSUME OnePuller, RangesKept PROVE Spec => []PullSound
<1>1. Init => PullInv
  BY PullInvInit DEF Init
<1>2. PullInv /\ [Next]_distVars => PullInv'
  BY PullInvNext
<1>3. PullInv => PullSound
  <2> SUFFICES ASSUME PullInv PROVE PullSound  OBVIOUS
  <2>1. PullShape /\ FilesOK /\ \A p \in Pullers : Knows(p)
    BY DEF PullInv
  <2>2. Resumable
    <3>1. ASSUME incomplete # NoInode PROVE IsPrefix(data[incomplete], Layer)
      BY <2>1, <3>1, BeginsFacts DEF PullShape, FilesOK, Begins
    <3> QED BY <3>1 DEF Resumable
  <2>3. tokens \in 0 .. MaxTokens
    <3>1. Cardinality(Pulling) \in Nat
      BY PullersFinite, PullingFinite DEF Pulling
    <3> QED BY <2>1, <3>1, PullAssumption DEF PullShape
  <2>4. ASSUME NEW p \in Pullers
        PROVE  job[p].fd \in Inodes \cup {NoInode} /\ job[p].size \in -1 .. 2 * Size
    <3>1. job[p].fd \in Inodes \cup {NoInode}
      BY <2>1 DEF PullShape, Jobs
    <3>2. job[p].size \in -1 .. Size /\ Size \in Nat
      BY <2>1, PullAssumption DEF Knows
    <3> QED BY <3>1, <3>2
  <2> QED BY <2>1, <2>2, <2>3, <2>4 DEF PullSound, PullTypeOK, PullShape
<1> QED BY <1>1, <1>2, <1>3, PTL DEF Spec
=============================================================================
