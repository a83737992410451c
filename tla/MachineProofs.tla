---------------------------- MODULE MachineProofs ----------------------------
(***************************************************************************)
(* What the machines of the daemon keep, each by itself: an inductive      *)
(* invariant of each and the proof that its initial states have it and its *)
(* steps keep it.  ServicesProofs puts the machines into focus and         *)
(* concludes what the runs check.                                          *)
(***************************************************************************)
EXTENDS Machines, Integers, FiniteSets, TLAPS, SequenceTheorems, FiniteSetTheorems

-----------------------------------------------------------------------------
(***************************************************************************)
(* The models API.  A request that has not ended has told its client       *)
(* nothing that says error, and has not failed; each way to end says so if *)
(* and only if it failed.                                                  *)
(***************************************************************************)
Reasons == {"", "cancelled", "timeout", "invalid", "unauthorized", "unknown", "media", "other", "conflict"}
Request ==
  [op : {"create", "tag", "inspect", "delete"}, at : MA!Ats, ref : MA!Refs \cup {MA!None},
   target : APITags \cup {MA!None}, force : BOOLEAN, found : APITags \cup {MA!None},
   model : APIModels \cup {MA!None}, several : BOOLEAN, gone : BOOLEAN, failed : Reasons,
   status : MA!Statuses, lines : SUBSET {"progress", "success", "error", "text"}]

(* What a request has of what its step needs. *)
Ready(r) ==
  /\ r.at \in {"new", "pulling", "lookup", "apply", "untag", "delete"} => r.ref \in MA!Refs
  /\ r.at \in {"new", "pulling"} /\ r.op = "create" => r.ref \in APITags
  /\ r.at = "pulling" => r.op = "create"
  /\ r.at = "apply" => r.found \in APITags
  /\ r.at \in {"new", "lookup", "apply"} /\ r.op = "tag" => r.target \in APITags
  /\ r.at = "apply" => r.op = "tag"
  /\ r.at = "lookup" => r.op \in {"tag", "inspect"}
  /\ r.at = "untag" => r.ref \in APITags \cup ShortNames
Silent(r) ==
  r.at # "done" => r.failed = "" /\ r.status < 400 /\ r.lines \cap {"error", "text"} = {}
ToldRight(r) ==
  r.at = "done" /\ ~r.gone /\ (r.failed = "timeout" => r.lines # {}) => (MA!Told(r) <=> r.failed # "")
Sound(r) == r \in Request /\ Ready(r) /\ Silent(r) /\ ToldRight(r)

ModelsInv ==
  /\ MA!MATypeOK /\ tokens \in Int
  /\ reqs \in [Requests -> Request]
  /\ \A q \in Requests : Sound(reqs[q])

Pulling == {q \in Requests : reqs[q].at = "pulling"}
TokensAccounted == tokens \in Int /\ tokens + Cardinality(Pulling) = MaxPulls

(* Sizes of sets, as the instance has them and as the library's theorems do. *)
LEMMA SameCardinality ==
  ASSUME NEW S
  PROVE (MA!Cardinality(S) = Cardinality(S)) /\ (MA!IsFiniteSet(S) <=> IsFiniteSet(S))
BY DEF MA!Cardinality, Cardinality, MA!IsFiniteSet, IsFiniteSet

(* The types of the models API, one by one. *)
LEMMA TypesAre ==
  MA!MATypeOK <=>
    /\ models \subseteq APIModels /\ tags \in [APITags -> models \cup {MA!None}]
    /\ \A q \in Requests : reqs[q].at \in MA!Ats /\ reqs[q].status \in MA!Statuses
    /\ tokens + Cardinality(Pulling) = MaxPulls
<1>1. MA!Cardinality({q \in Requests : reqs[q].at = "pulling"}) = Cardinality(Pulling)
  BY SameCardinality DEF Pulling
<1> QED BY <1>1, Zenon DEF MA!MATypeOK

(* How a token goes with a request that becomes v. *)
TokenMoves(q, v) ==
  \/ tokens' = tokens /\ (v.at = "pulling" <=> reqs[q].at = "pulling")
  \/ tokens' = tokens - 1 /\ v.at = "pulling" /\ reqs[q].at # "pulling"
  \/ tokens' = tokens + 1 /\ v.at # "pulling" /\ reqs[q].at = "pulling"

(* A request that takes a token pulls, and one that stops gives its token back. *)
LEMMA TokensCounted ==
  ASSUME IsFiniteSet(Requests), NEW q \in Requests, NEW v, reqs \in [Requests -> Request],
         reqs' = [reqs EXCEPT ![q] = v], TokensAccounted, TokenMoves(q, v)
  PROVE  TokensAccounted'
<1>1. IsFiniteSet(Pulling) /\ Cardinality(Pulling) \in Nat
  BY FS_Subset, FS_CardinalityType DEF Pulling
<1>2. Pulling' = IF v.at = "pulling" THEN Pulling \cup {q} ELSE Pulling \ {q}
  BY DEF Pulling
<1>3. q \in Pulling <=> reqs[q].at = "pulling"
  BY DEF Pulling
<1>4. CASE v.at = "pulling" <=> reqs[q].at = "pulling"
  <2>1. Pulling' = Pulling
    BY <1>2, <1>3, <1>4
  <2>2. tokens' = tokens
    BY <1>4 DEF TokenMoves
  <2> QED BY <2>1, <2>2 DEF TokensAccounted
<1>5. CASE v.at = "pulling" /\ reqs[q].at # "pulling"
  <2>1. Cardinality(Pulling') = Cardinality(Pulling) + 1
    BY <1>1, <1>2, <1>3, <1>5, FS_AddElement
  <2>2. tokens' = tokens - 1
    BY <1>5 DEF TokenMoves
  <2> QED BY <1>1, <2>1, <2>2 DEF TokensAccounted
<1>6. CASE v.at # "pulling" /\ reqs[q].at = "pulling"
  <2>1. Cardinality(Pulling') = Cardinality(Pulling) - 1
    BY <1>1, <1>2, <1>3, <1>6, FS_RemoveElement
  <2>2. tokens' = tokens + 1
    BY <1>6 DEF TokenMoves
  <2> QED BY <1>1, <2>1, <2>2 DEF TokensAccounted
<1> QED BY <1>4, <1>5, <1>6

(* One request changes, and the store with it. *)
LEMMA OneRequestMoves ==
  ASSUME IsFiniteSet(Requests), ModelsInv, NEW q \in Requests, NEW v, Sound(v),
         reqs' = [reqs EXCEPT ![q] = v], TokenMoves(q, v),
         models' \subseteq APIModels, tags' \in [APITags -> models' \cup {MA!None}]
  PROVE  ModelsInv'
<1>1. TokensAccounted'
  <2>1. TokensAccounted
    BY TypesAre DEF ModelsInv, TokensAccounted
  <2> QED BY <2>1, TokensCounted DEF ModelsInv
<1>2. reqs' \in [Requests -> Request] /\ \A p \in Requests : Sound(reqs'[p])
  BY DEF ModelsInv, Sound
<1>3. \A p \in Requests : reqs'[p].at \in MA!Ats /\ reqs'[p].status \in MA!Statuses
  BY <1>2 DEF Request
<1>4. MA!MATypeOK'
  <2>1. MA!MATypeOK' <=>
          /\ models' \subseteq APIModels /\ tags' \in [APITags -> models' \cup {MA!None}]
          /\ \A p \in Requests : reqs'[p].at \in MA!Ats /\ reqs'[p].status \in MA!Statuses
          /\ tokens' + Cardinality(Pulling') = MaxPulls
    <3>1. MA!Cardinality({p \in Requests : reqs'[p].at = "pulling"}) = Cardinality(Pulling')
      BY SameCardinality DEF Pulling
    <3> QED BY <3>1, Zenon DEF MA!MATypeOK, MA!Ats, MA!Statuses, MA!None
  <2> QED BY <1>1, <1>3, <2>1 DEF TokensAccounted
<1>5. (\A p \in Requests : Sound(reqs[p]))'
  <2> QED BY <1>2 DEF Sound, Request, Ready, Silent, ToldRight, MA!Told, MA!Ats, MA!Statuses, MA!Refs
<1> QED BY <1>1, <1>2, <1>4, <1>5 DEF ModelsInv, TokensAccounted, Request, MA!Ats, MA!Statuses, MA!Refs

(***************************************************************************)
(* The operators that make a request out of the one before.                *)
(***************************************************************************)
LEMMA WroteIs ==
  ASSUME NEW r \in Request, NEW line \in {"progress", "success", "error", "text"}
  PROVE  /\ MA!Wrote(r, line) \in Request
         /\ MA!Wrote(r, line).lines = r.lines \cup {line}
         /\ MA!Wrote(r, line).status = IF r.status = 0 THEN 200 ELSE r.status
         /\ \A f \in {"op", "at", "ref", "target", "found", "gone", "failed"} :
              MA!Wrote(r, line)[f] = r[f]
<1> DEFINE status == IF r.status = 0 THEN 200 ELSE r.status
           lines == r.lines \cup {line}
<1>1. status \in MA!Statuses /\ lines \in SUBSET {"progress", "success", "error", "text"}
  BY DEF Request, MA!Statuses
<1>2. MA!Wrote(r, line) = [r EXCEPT !.lines = lines, !.status = status]
  BY DEF MA!Wrote, Request
<1> HIDE DEF status, lines
<1>3. /\ [r EXCEPT !.lines = lines, !.status = status] \in Request
      /\ [r EXCEPT !.lines = lines, !.status = status].lines = lines
      /\ [r EXCEPT !.lines = lines, !.status = status].status = status
      /\ \A f \in {"op", "at", "ref", "target", "found", "gone", "failed"} :
           [r EXCEPT !.lines = lines, !.status = status][f] = r[f]
  BY <1>1 DEF Request
<1> QED BY <1>2, <1>3 DEF status, lines

(* A request that ends keeps the status it has, or gets the one it is given. *)
LEMMA DoneIs ==
  ASSUME NEW r \in Request, NEW s \in MA!Statuses
  PROVE  /\ MA!Done(r, s) \in Request /\ MA!Done(r, s).at = "done"
         /\ MA!Done(r, s).status = IF r.status = 0 THEN s ELSE r.status
         /\ \A f \in {"op", "ref", "target", "found", "gone", "failed", "lines"} :
              MA!Done(r, s)[f] = r[f]
<1> DEFINE status == IF r.status = 0 THEN s ELSE r.status
           at2 == "done"
<1>1. status \in MA!Statuses /\ at2 \in MA!Ats
  BY DEF Request, MA!Ats
<1>2. MA!Done(r, s) = [r EXCEPT !.at = at2, !.status = status]
  BY DEF MA!Done, Request
<1> HIDE DEF status, at2
<1>3. /\ [r EXCEPT !.at = at2, !.status = status] \in Request
      /\ [r EXCEPT !.at = at2, !.status = status].at = at2
      /\ [r EXCEPT !.at = at2, !.status = status].status = status
      /\ \A f \in {"op", "ref", "target", "found", "gone", "failed", "lines"} :
           [r EXCEPT !.at = at2, !.status = status][f] = r[f]
  BY <1>1 DEF Request
<1> QED BY <1>2, <1>3 DEF status, at2

(* A request that notes why it fails changes in nothing else. *)
LEMMA FailedIs ==
  ASSUME NEW r \in Request, NEW why \in Reasons
  PROVE  /\ [r EXCEPT !.failed = why] \in Request /\ [r EXCEPT !.failed = why].failed = why
         /\ \A f \in {"op", "at", "ref", "target", "found", "gone", "status", "lines"} :
              [r EXCEPT !.failed = why][f] = r[f]
BY DEF Request

(* Whatever ended so is sound: an error said after nothing wrong was said. *)
LEMMA ErrorEnds ==
  ASSUME NEW r \in Request, NEW why \in Reasons \ {""}, NEW s \in MA!Statuses
  PROVE  Sound(MA!HttpError(r, why, s)) /\ MA!HttpError(r, why, s).at = "done"
<1> DEFINE d == MA!Done(r, s)
           w == MA!Wrote(d, "text")
<1>1. d \in Request /\ d.at = "done"
  BY DoneIs
<1> HIDE DEF d
<1>2. w \in Request /\ w.at = "done" /\ "text" \in w.lines
  BY <1>1, WroteIs
<1> HIDE DEF w
<1>3. /\ [w EXCEPT !.failed = why] \in Request /\ [w EXCEPT !.failed = why].failed = why
      /\ [w EXCEPT !.failed = why].at = "done" /\ "text" \in [w EXCEPT !.failed = why].lines
  BY <1>2, FailedIs
<1>4. MA!HttpError(r, why, s) = [w EXCEPT !.failed = why]
  BY DEF MA!HttpError, w, d
<1> QED BY <1>3, <1>4 DEF Sound, Ready, Silent, ToldRight, MA!Told

(* A request that failed in nothing may end with a success. *)
LEMMA WellEnds ==
  ASSUME NEW r \in Request, Silent(r), r.at # "done", NEW s \in {200, 201}
  PROVE  Sound(MA!Done(r, s)) /\ MA!Done(r, s).at = "done"
<1> DEFINE d == MA!Done(r, s)
<1>1. s \in MA!Statuses /\ s < 400 /\ s \in Int
  BY DEF MA!Statuses
<1>2. r.failed = "" /\ r.lines \cap {"error", "text"} = {}
  BY DEF Silent
<1>9. r.status < 400
  BY DEF Silent
<1>3. d \in Request /\ d.at = "done" /\ d.status = IF r.status = 0 THEN s ELSE r.status
  BY <1>1, DoneIs
<1>4. \A f \in {"op", "ref", "target", "found", "gone", "failed", "lines"} : d[f] = r[f]
  BY <1>1, DoneIs
<1>5. d.failed = r.failed /\ d.lines = r.lines
  BY <1>4
<1> HIDE DEF d
<1>6. d.status \in Int /\ d.status < 400 /\ ~(d.status >= 400)
  <2>1. r.status \in Int
    BY DEF Request, MA!Statuses
  <2>2. CASE r.status = 0
    <3>1. d.status = s
      BY <1>3, <2>2
    <3> QED BY <1>1, <3>1
  <2>3. CASE r.status # 0
    <3>1. d.status = r.status
      BY <1>3, <2>3
    <3> QED BY <1>9, <2>1, <3>1
  <2> QED BY <2>2, <2>3
<1>7. ~MA!Told(d) /\ d.failed = ""
  BY <1>2, <1>5, <1>6 DEF MA!Told
<1>8. Sound(d)
  BY <1>3, <1>7 DEF Sound, Ready, Silent, ToldRight
<1> QED BY <1>3, <1>8 DEF d

(* Before the first request all tokens are there. *)
LEMMA ModelsInit ==
  ASSUME MA!ModelsAssumption, MA!MAInit
  PROVE  ModelsInv
<1> DEFINE fresh == MA!Fresh("inspect", MA!None, MA!None, FALSE)
           none == "none"
           waiting == [fresh EXCEPT !.at = none]
<1>1. fresh \in Request /\ fresh.status = 0 /\ fresh.failed = "" /\ fresh.lines = {}
  BY DEF MA!Fresh, Request, Reasons, MA!Ats, MA!Statuses
<1>0. tokens = MaxPulls /\ reqs = [q \in Requests |-> waiting]
  BY DEF MA!MAInit
<1> HIDE DEF fresh
<1>2. waiting \in Request
  BY <1>1 DEF Request, MA!Ats
<1>3. waiting.at = "none" /\ waiting.status = 0 /\ waiting.failed = "" /\ waiting.lines = {}
  BY <1>1 DEF Request
<1> HIDE DEF waiting
<1>5. Sound(waiting)
  <2>1. waiting.at \notin {"new", "pulling", "lookup", "apply", "untag", "delete", "done"}
    BY <1>3
  <2>2. Ready(waiting) /\ ToldRight(waiting)
    BY <2>1 DEF Ready, ToldRight
  <2>3. Silent(waiting)
    <3>2. waiting.status = 0
      BY <1>3
    <3>1. waiting.status < 400
      BY <3>2
    <3> QED BY <1>3, <3>1 DEF Silent
  <2> QED BY <1>2, <2>2, <2>3 DEF Sound
<1>6. \A q \in Requests : reqs[q] = waiting /\ reqs[q].at \in MA!Ats /\ reqs[q].status \in MA!Statuses
  BY <1>0, <1>3 DEF MA!Ats, MA!Statuses
<1>7. models \subseteq APIModels /\ tags \in [APITags -> models \cup {MA!None}]
  <2>1. tags \in [APITags -> APIModels \cup {MA!None}] /\ models = {tags[t] : t \in APITags} \ {MA!None}
    BY DEF MA!MAInit, MA!ModelsAssumption, MA!None
  <2> QED BY <2>1
<1>8. tokens \in Int /\ tokens + Cardinality(Pulling) = MaxPulls
  <2>1. Pulling = {}
    <3>1. \A q \in Requests : reqs[q].at # "pulling"
      BY <1>3, <1>6
    <3> QED BY <3>1 DEF Pulling
  <2>2. Cardinality({}) = 0
    BY FS_EmptySet
  <2>3. Cardinality(Pulling) = 0
    BY <2>1, <2>2
  <2>4. MaxPulls \in Nat
    BY Zenon DEF MA!ModelsAssumption
  <2> QED BY <1>0, <2>3, <2>4
<1>9. MA!MATypeOK
  BY <1>6, <1>7, <1>8, TypesAre
<1>10. reqs \in [Requests -> Request]
  BY <1>0, <1>2
<1> QED BY <1>5, <1>6, <1>8, <1>9, <1>10 DEF ModelsInv

(* A request that has just come in has failed in nothing. *)
LEMMA FreshIs ==
  ASSUME NEW op \in {"create", "tag", "inspect", "delete"}, NEW r \in MA!Refs,
         NEW t \in APITags \cup {MA!None}, NEW force \in BOOLEAN,
         op = "create" => r \in APITags, op = "tag" => t \in APITags
  PROVE  Sound(MA!Fresh(op, r, t, force)) /\ MA!Fresh(op, r, t, force).at = "new"
<1> DEFINE f == MA!Fresh(op, r, t, force)
<1>1. f \in Request
  BY DEF MA!Fresh, Request, Reasons, MA!Ats, MA!Statuses
<1>2. f.op = op /\ f.at = "new" /\ f.ref = r /\ f.target = t
  BY DEF MA!Fresh
<1>3. f.failed = "" /\ f.lines = {}
  BY DEF MA!Fresh
<1>4. f.status = 0
  BY DEF MA!Fresh
<1> HIDE DEF f
<1>5. f.status < 400
  BY <1>4
<1>6. Ready(f) /\ ToldRight(f)
  BY <1>2 DEF Ready, ToldRight
<1>7. Silent(f)
  BY <1>3, <1>5 DEF Silent
<1> QED BY <1>1, <1>2, <1>6, <1>7 DEF Sound, f

(* A request that goes on has not said more than before. *)
LEMMA GoesOn ==
  ASSUME NEW r, Sound(r), r.at # "done", NEW v \in Request, v.at # "done", Ready(v),
         v.failed = r.failed, v.status = r.status, v.lines = r.lines
  PROVE  Sound(v)
<1>1. Silent(v)
  <2>1. r.failed = "" /\ r.lines \cap {"error", "text"} = {}
    BY DEF Sound, Silent
  <2>2. r.status < 400
    BY DEF Sound, Silent
  <2> QED BY <2>1, <2>2 DEF Silent
<1> QED BY <1>1 DEF Sound, ToldRight

(* A request that moves on changes in nothing else. *)
LEMMA AtIs ==
  ASSUME NEW r \in Request, NEW a \in MA!Ats
  PROVE  /\ [r EXCEPT !.at = a] \in Request /\ [r EXCEPT !.at = a].at = a
         /\ \A f \in {"op", "ref", "target", "found", "model", "several", "gone", "failed", "status", "lines"} :
              [r EXCEPT !.at = a][f] = r[f]
BY DEF Request

(* To write something that is no error leaves a request as silent as it was. *)
LEMMA WroteQuietly ==
  ASSUME NEW r, Sound(r), r.at # "done", NEW line \in {"progress", "success"}
  PROVE  /\ Sound(MA!Wrote(r, line))
         /\ \A f \in {"op", "at", "ref", "target", "found", "gone", "failed"} : MA!Wrote(r, line)[f] = r[f]
<1> DEFINE w == MA!Wrote(r, line)
<1>1. r \in Request /\ r.failed = "" /\ r.lines \cap {"error", "text"} = {}
  BY DEF Sound, Silent
<1>2. r.status < 400
  BY DEF Sound, Silent
<1>12. r \in Request /\ line \in {"progress", "success", "error", "text"}
  BY <1>1
<1>3. w \in Request /\ w.lines = r.lines \cup {line}
  BY <1>12, WroteIs
<1>4. \A f \in {"op", "at", "ref", "target", "found", "gone", "failed"} : w[f] = r[f]
  BY <1>12, WroteIs, Zenon
<1>5. w.status = IF r.status = 0 THEN 200 ELSE r.status
  BY <1>12, WroteIs, Zenon
<1> HIDE DEF w
<1>6. w.status < 400
  <2>1. CASE r.status = 0
    <3>1. w.status = 200
      BY <1>5, <2>1
    <3> QED BY <3>1
  <2>2. CASE r.status # 0
    <3>1. w.status = r.status
      BY <1>5, <2>2
    <3> QED BY <1>2, <3>1
  <2> QED BY <2>1, <2>2
<1>7. /\ w.op = r.op /\ w.at = r.at /\ w.ref = r.ref /\ w.target = r.target /\ w.found = r.found
      /\ w.failed = r.failed
  BY <1>4
<1>8. Ready(w)
  BY <1>7 DEF Sound, Ready
<1>9. w.lines \cap {"error", "text"} = {}
  BY <1>1, <1>3
<1>10. Silent(w)
  BY <1>1, <1>6, <1>7, <1>9 DEF Silent
<1>11. ToldRight(w)
  BY <1>7 DEF ToldRight
<1> QED BY <1>3, <1>4, <1>8, <1>10, <1>11 DEF Sound, w

(* A pull that says nothing: its client left, or no line was written, or the
   stream ended with an error. *)
LEMMA SilentEnds ==
  ASSUME NEW r \in Request, NEW d \in Request, NEW why \in {"cancelled", "timeout"},
         d.at = "done", why = "cancelled" => d.gone,
         d.lines = {} \/ "error" \in d.lines \/ why = "cancelled"
  PROVE  Sound([d EXCEPT !.failed = why]) /\ [d EXCEPT !.failed = why].at = "done"
<1> DEFINE v == [d EXCEPT !.failed = why]
<1>1. why \in Reasons
  BY DEF Reasons
<1>2. v \in Request /\ v.failed = why /\ \A f \in {"at", "gone", "lines"} : v[f] = d[f]
  BY <1>1, FailedIs
<1>3. v.at = "done" /\ (v.gone <=> d.gone) /\ v.lines = d.lines
  BY <1>2
<1> HIDE DEF v
<1>4. ToldRight(v)
  BY <1>2, <1>3 DEF ToldRight, MA!Told
<1>5. Ready(v) /\ Silent(v)
  BY <1>3 DEF Ready, Silent
<1> QED BY <1>2, <1>3, <1>4, <1>5 DEF Sound, v

(***************************************************************************)
(* The steps of the models API.                                            *)
(***************************************************************************)
LEMMA ArriveKeeps ==
  ASSUME IsFiniteSet(Requests), ModelsInv, NEW q \in Requests, MA!Arrive(q)
  PROVE  ModelsInv'
<1>1. PICK op \in {"create", "tag", "inspect", "delete"}, r \in MA!Refs, t \in APITags \cup {MA!None}, f \in BOOLEAN :
        /\ reqs' = [reqs EXCEPT ![q] = MA!Fresh(op, r, t, f)]
        /\ op = "create" => r \in APITags
        /\ op = "tag" => t \in APITags
  BY DEF MA!Arrive, MA!Goes, MA!Refs
<1> DEFINE v == MA!Fresh(op, r, t, f)
<1>2. Sound(v) /\ v.at = "new"
  BY <1>1, FreshIs
<1>3. reqs' = [reqs EXCEPT ![q] = v]
  BY <1>1
<1> HIDE DEF v
<1>4. tokens' = tokens /\ models' = models /\ tags' = tags /\ reqs[q].at = "none"
  BY DEF MA!Arrive
<1>5. TokenMoves(q, v)
  BY <1>2, <1>4 DEF TokenMoves
<1>6. models' \subseteq APIModels /\ tags' \in [APITags -> models' \cup {MA!None}]
  BY <1>4, TypesAre DEF ModelsInv
<1> QED BY <1>2, <1>3, <1>5, <1>6, OneRequestMoves

(* The steps of a pull. *)
LEMMA PullKeeps ==
  ASSUME IsFiniteSet(Requests), ModelsInv, NEW q \in Requests,
         MA!TakeToken(q) \/ MA!ClientLeaves(q) \/ MA!GiveUpWaiting(q) \/ MA!PullProgress(q)
           \/ MA!PullRefused(q) \/ MA!PullBreaks(q) \/ MA!CachedNotTagged(q) \/ MA!PullSilent(q)
  PROVE  ModelsInv'
<1> DEFINE r == reqs[q]
<1>1. r \in Request /\ Sound(r)
  BY DEF ModelsInv
<1>2. models' \subseteq APIModels /\ tags' \in [APITags -> models' \cup {MA!None}]
  <2>1. models' = models /\ tags' = tags
    BY DEF MA!TakeToken, MA!ClientLeaves, MA!GiveUpWaiting, MA!PullProgress, MA!PullRefused,
           MA!PullBreaks, MA!CachedNotTagged, MA!PullSilent
  <2> QED BY <2>1, TypesAre DEF ModelsInv
<1>3. ASSUME NEW v, Sound(v), MA!Goes(q, v), TokenMoves(q, v)
      PROVE  ModelsInv'
  BY <1>2, <1>3, OneRequestMoves DEF MA!Goes
<1>4. ASSUME NEW v, v.at = "done", r.at = "pulling", tokens' = MA!GivenBack
      PROVE  TokenMoves(q, v)
  BY <1>4 DEF TokenMoves, MA!GivenBack
<1> HIDE DEF r
<1>5. CASE MA!TakeToken(q)
  <2> DEFINE a == "pulling"
             v == [r EXCEPT !.at = a]
  <2>1. r.at = "new" /\ r.op = "create" /\ tokens' = tokens - 1 /\ MA!Goes(q, v)
    BY <1>5 DEF MA!TakeToken, MA!At, r
  <2>2. a \in MA!Ats
    BY DEF MA!Ats
  <2> HIDE DEF a
  <2>3. v \in Request /\ v.at = a
    BY <1>1, <2>2, AtIs
  <2>4. \A f \in {"op", "ref", "target", "found", "model", "several", "gone", "failed", "status", "lines"} :
          v[f] = r[f]
    BY <1>1, <2>2, AtIs, Zenon
  <2> HIDE DEF v
  <2>5. v.at = "pulling" /\ v.op = "create" /\ v.ref = r.ref
    BY <2>1, <2>3, <2>4 DEF a
  <2>6. Ready(v)
    BY <1>1, <2>1, <2>5 DEF Ready, Sound, MA!Refs
  <2>7. v.failed = r.failed /\ v.status = r.status /\ v.lines = r.lines
    BY <2>4
  <2>8. Sound(v)
    BY <1>1, <2>1, <2>3, <2>5, <2>6, <2>7, GoesOn
  <2>9. TokenMoves(q, v)
    BY <2>1, <2>5 DEF TokenMoves, r
  <2> QED BY <1>3, <2>1, <2>8, <2>9
<1>6. CASE MA!ClientLeaves(q)
  <2> DEFINE g == TRUE
             v == [r EXCEPT !.gone = g]
  <2>1. r.at \in {"new", "pulling"} /\ tokens' = tokens /\ MA!Goes(q, v)
    BY <1>6 DEF MA!ClientLeaves, r
  <2>2. g \in BOOLEAN
    OBVIOUS
  <2> HIDE DEF g
  <2>3. v \in Request /\ \A f \in {"op", "at", "ref", "target", "found", "failed", "status", "lines"} : v[f] = r[f]
    BY <1>1, <2>2 DEF Request
  <2> HIDE DEF v
  <2>4. /\ v.op = r.op /\ v.at = r.at /\ v.ref = r.ref /\ v.target = r.target /\ v.found = r.found
    BY <2>3
  <2>5. v.failed = r.failed /\ v.status = r.status /\ v.lines = r.lines
    BY <2>3
  <2>6. Ready(v)
    BY <1>1, <2>4 DEF Ready, Sound
  <2>7. Sound(v)
    BY <1>1, <2>1, <2>3, <2>4, <2>5, <2>6, GoesOn
  <2>8. TokenMoves(q, v)
    BY <2>1, <2>4 DEF TokenMoves, r
  <2> QED BY <1>3, <2>1, <2>7, <2>8
<1>7. CASE MA!GiveUpWaiting(q)
  <2> DEFINE d == MA!Done(r, 200)
             why == "cancelled"
             v == [d EXCEPT !.failed = why]
  <2>1. r.at = "new" /\ r.gone /\ tokens' = tokens /\ MA!Goes(q, v)
    BY <1>7 DEF MA!GiveUpWaiting, MA!At, MA!NotTaken, r
  <2>2. d \in Request /\ d.at = "done"
    BY <1>1, DoneIs DEF MA!Statuses
  <2>3. d["gone"] = r["gone"]
    BY <1>1, DoneIs DEF MA!Statuses
  <2> HIDE DEF d
  <2>4. Sound(v) /\ v.at = "done"
    BY <1>1, <2>1, <2>2, <2>3, SilentEnds
  <2>5. TokenMoves(q, v)
    BY <2>1, <2>4 DEF TokenMoves, r
  <2> QED BY <1>3, <2>1, <2>4, <2>5
<1>8. CASE MA!PullProgress(q)
  <2> DEFINE v == MA!Wrote(r, "progress")
  <2>1. r.at = "pulling" /\ tokens' = tokens /\ MA!Goes(q, v)
    BY <1>8 DEF MA!PullProgress, MA!At, r
  <2>2. Sound(v) /\ v["at"] = r["at"]
    BY <1>1, <2>1, WroteQuietly
  <2>3. TokenMoves(q, v)
    BY <2>1, <2>2 DEF TokenMoves, r
  <2> QED BY <1>3, <2>1, <2>2, <2>3
<1>9. CASE MA!PullRefused(q)
  <2>1. PICK why \in DOMAIN MA!Refusals : MA!Goes(q, MA!HttpError(r, why, MA!Refusals[why]))
    BY <1>9 DEF MA!PullRefused, r
  <2>2. why \in Reasons \ {""} /\ MA!Refusals[why] \in MA!Statuses
    <3>1. why \in {"invalid", "unauthorized", "unknown", "media", "other"}
      BY DEF MA!Refusals
    <3>2. MA!Refusals[why] \in {400, 401, 404, 422, 500}
      BY <3>1 DEF MA!Refusals
    <3>3. MA!Refusals[why] \in MA!Statuses
      BY <3>2 DEF MA!Statuses
    <3>4. why \in Reasons \ {""}
      BY <3>1 DEF Reasons
    <3> QED BY <3>3, <3>4
  <2>3. r.at = "pulling" /\ tokens' = MA!GivenBack
    BY <1>9 DEF MA!PullRefused, MA!At, r
  <2> DEFINE v == MA!HttpError(r, why, MA!Refusals[why])
  <2>4. Sound(v) /\ v.at = "done"
    BY <1>1, <2>2, ErrorEnds
  <2> HIDE DEF v
  <2> QED BY <1>3, <1>4, <2>1, <2>3, <2>4 DEF v
<1>10. CASE MA!PullBreaks(q)
  <2> DEFINE w == MA!Wrote(r, "error")
             why == "other"
             status == 500
             v == MA!HttpError(w, why, status)
  <2>1. r.at = "pulling" /\ tokens' = MA!GivenBack /\ MA!Goes(q, v)
    BY <1>10 DEF MA!PullBreaks, MA!At, r
  <2>2. w \in Request
    BY <1>1, WroteIs
  <2> HIDE DEF w
  <2>4. why \in Reasons \ {""} /\ status \in MA!Statuses
    BY DEF Reasons, MA!Statuses
  <2> HIDE DEF why, status
  <2>3. Sound(v) /\ v.at = "done"
    BY <2>2, <2>4, ErrorEnds
  <2> QED BY <1>3, <1>4, <2>1, <2>3
<1>11. CASE MA!CachedNotTagged(q)
  <2> DEFINE w == MA!Wrote(r, "success")
             why == "other"
             status == 500
             v == MA!HttpError(w, why, status)
  <2>1. r.at = "pulling" /\ tokens' = MA!GivenBack /\ MA!Goes(q, v)
    BY <1>11 DEF MA!CachedNotTagged, MA!At, r
  <2>2. w \in Request
    BY <1>1, WroteIs
  <2> HIDE DEF w
  <2>4. why \in Reasons \ {""} /\ status \in MA!Statuses
    BY DEF Reasons, MA!Statuses
  <2> HIDE DEF why, status
  <2>3. Sound(v) /\ v.at = "done"
    BY <2>2, <2>4, ErrorEnds
  <2> QED BY <1>3, <1>4, <2>1, <2>3
<1>12. CASE MA!PullSilent(q)
  <2> DEFINE w == IF r.lines = {} THEN r ELSE MA!Wrote(r, "error")
             d == MA!Done(w, 200)
  <2>1. PICK why \in {"cancelled", "timeout"} :
          (why = "cancelled" => r.gone) /\ MA!Goes(q, [d EXCEPT !.failed = why])
    BY <1>12 DEF MA!PullSilent, r
  <2>2. r.at = "pulling" /\ tokens' = MA!GivenBack
    BY <1>12 DEF MA!PullSilent, MA!At, r
  <2>3. w \in Request /\ (w.lines = {} \/ "error" \in w.lines)
    BY <1>1, WroteIs
  <2>4. w["gone"] = r["gone"]
    BY <1>1, WroteIs
  <2> HIDE DEF w
  <2>5. d \in Request /\ d.at = "done"
    BY <2>3, DoneIs DEF MA!Statuses
  <2>6. d["gone"] = w["gone"] /\ d["lines"] = w["lines"]
    BY <2>3, DoneIs DEF MA!Statuses
  <2> HIDE DEF d
  <2> DEFINE v == [d EXCEPT !.failed = why]
  <2>7. (why = "cancelled" => d.gone) /\ (d.lines = {} \/ "error" \in d.lines)
    BY <2>1, <2>3, <2>4, <2>6
  <2>8. Sound(v) /\ v.at = "done"
    BY <1>1, <2>5, <2>7, SilentEnds
  <2> HIDE DEF v
  <2> QED BY <1>3, <1>4, <2>1, <2>2, <2>8 DEF v
<1> QED BY <1>5, <1>6, <1>7, <1>8, <1>9, <1>10, <1>11, <1>12

(* A pull that stores a model under its tag. *)
LEMMA StoresKeeps ==
  ASSUME IsFiniteSet(Requests), ModelsInv, NEW q \in Requests, MA!PullStores(q)
  PROVE  ModelsInv'
<1> DEFINE r == reqs[q]
           w == MA!Wrote(r, "success")
           v == MA!Done(w, 200)
<1>1. r \in Request /\ Sound(r)
  BY DEF ModelsInv
<1>2. r.at = "pulling" /\ r.op = "create" /\ tokens' = tokens + 1 /\ MA!Goes(q, v)
  BY DEF MA!PullStores, MA!At, MA!GivenBack
<1>3. PICK m \in APIModels : models' = models \cup {m} /\ tags' = [tags EXCEPT ![r.ref] = m]
  BY DEF MA!PullStores
<1> HIDE DEF r
<1>4. Sound(w) /\ w["at"] = r["at"]
  BY <1>1, <1>2, WroteQuietly
<1> HIDE DEF w
<1>5. Sound(v) /\ v.at = "done"
  BY <1>2, <1>4, WellEnds DEF Sound
<1>6. models' \subseteq APIModels /\ tags' \in [APITags -> models' \cup {MA!None}]
  BY <1>3, TypesAre DEF ModelsInv
<1>7. TokenMoves(q, v)
  BY <1>2, <1>5 DEF TokenMoves, r
<1> HIDE DEF v
<1> QED BY <1>2, <1>5, <1>6, <1>7, OneRequestMoves DEF MA!Goes

(* What a reference denotes is a model of the store, or none. *)
LEMMA DenotedIs ==
  ASSUME MA!ModelsAssumption, ModelsInv, NEW r \in MA!Refs
  PROVE  MA!Denoted(r) \in models \cup {MA!None}
<1>1. LatestOf \in [ShortNames -> APITags]
  BY Zenon DEF MA!ModelsAssumption
<1>2. tags \in [APITags -> models \cup {MA!None}]
  BY TypesAre DEF ModelsInv
<1> QED BY <1>1, <1>2 DEF MA!Denoted, MA!Refs

(* The steps of a request to tag, to inspect or to delete, none of which holds a token. *)
LEMMA AnswerKeeps ==
  ASSUME MA!ModelsAssumption, IsFiniteSet(Requests), ModelsInv, NEW q \in Requests,
         MA!Ask(q) \/ MA!Lookup(q) \/ MA!ApplyTag(q) \/ MA!DeleteRead(q) \/ MA!DeleteUntag(q)
           \/ MA!DeleteAll(q)
  PROVE  ModelsInv'
<1> DEFINE r == reqs[q]
<1>1. r \in Request /\ Sound(r) /\ r.at \notin {"pulling", "done"}
  BY DEF ModelsInv, MA!Ask, MA!Lookup, MA!ApplyTag, MA!DeleteRead, MA!DeleteUntag, MA!DeleteAll, MA!At
<1>2. Silent(r) /\ Ready(r) /\ models \subseteq APIModels /\ tags \in [APITags -> models \cup {MA!None}]
  BY <1>1, TypesAre DEF Sound, ModelsInv
<1>3. ASSUME NEW v, Sound(v), MA!Goes(q, v), v.at # "pulling",
             models' \subseteq APIModels, tags' \in [APITags -> models' \cup {MA!None}]
      PROVE  ModelsInv'
  <2>1. tokens' = tokens
    BY DEF MA!Ask, MA!Lookup, MA!ApplyTag, MA!DeleteRead, MA!DeleteUntag, MA!DeleteAll
  <2>2. TokenMoves(q, v)
    BY <1>1, <1>3, <2>1 DEF TokenMoves
  <2> QED BY <1>3, <2>2, OneRequestMoves DEF MA!Goes
<1>u. models' = models /\ tags' = tags => models' \subseteq APIModels /\ tags' \in [APITags -> models' \cup {MA!None}]
  BY <1>2
<1>t. ASSUME NEW t \in APITags, NEW m \in models \cup {MA!None}, models' = models, tags' = [tags EXCEPT ![t] = m]
      PROVE  models' \subseteq APIModels /\ tags' \in [APITags -> models' \cup {MA!None}]
  BY <1>2, <1>t
<1> HIDE DEF r
<1>4. Sound(MA!Done(r, 200)) /\ MA!Done(r, 200).at = "done"
  BY <1>1, <1>2, WellEnds
<1>5. Sound(MA!Done(r, 201)) /\ MA!Done(r, 201).at = "done"
  BY <1>1, <1>2, WellEnds
<1>6. Sound(MA!HttpError(r, "unknown", 404)) /\ MA!HttpError(r, "unknown", 404).at = "done"
  <2> DEFINE why == "unknown"
             status == 404
  <2>1. why \in Reasons \ {""} /\ status \in MA!Statuses
    BY DEF Reasons, MA!Statuses
  <2> HIDE DEF why, status
  <2>2. Sound(MA!HttpError(r, why, status)) /\ MA!HttpError(r, why, status).at = "done"
    BY <1>1, <2>1, ErrorEnds
  <2> QED BY <2>2 DEF why, status
<1>7. Sound(MA!HttpError(r, "conflict", 409)) /\ MA!HttpError(r, "conflict", 409).at = "done"
  <2> DEFINE why == "conflict"
             status == 409
  <2>1. why \in Reasons \ {""} /\ status \in MA!Statuses
    BY DEF Reasons, MA!Statuses
  <2> HIDE DEF why, status
  <2>2. Sound(MA!HttpError(r, why, status)) /\ MA!HttpError(r, why, status).at = "done"
    BY <1>1, <2>1, ErrorEnds
  <2> QED BY <2>2 DEF why, status
<1>8. CASE MA!Ask(q)
  <2>1. r.op \in {"tag", "inspect"} /\ r.at = "new" /\ models' = models
    BY <1>8 DEF MA!Ask, r
  <2>2. CASE MA!Denoted(r.ref) = MA!None
    <3> DEFINE a == "lookup"
               v == [r EXCEPT !.at = a]
    <3>1. MA!Goes(q, v) /\ tags' = tags
      BY <1>8, <2>2 DEF MA!Ask, r
    <3>2. a \in MA!Ats
      BY DEF MA!Ats
    <3> HIDE DEF a
    <3>3. v \in Request /\ v.at = a
      BY <1>1, <3>2, AtIs
    <3>4. \A f \in {"op", "ref", "target", "found", "model", "several", "gone", "failed", "status", "lines"} :
            v[f] = r[f]
      BY <1>1, <3>2, AtIs, Zenon
    <3> HIDE DEF v
    <3>5. v.at = "lookup" /\ v.op = r.op /\ v.ref = r.ref /\ v.target = r.target
      BY <3>3, <3>4 DEF a
    <3>6. v.failed = r.failed /\ v.status = r.status /\ v.lines = r.lines
      BY <3>4
    <3>7. Ready(v)
      BY <1>2, <2>1, <3>5 DEF Ready
    <3>8. Sound(v)
      BY <1>1, <3>3, <3>5, <3>6, <3>7, GoesOn
    <3> QED BY <1>3, <1>u, <2>1, <3>1, <3>5, <3>8
  <2>3. CASE MA!Denoted(r.ref) # MA!None /\ r.op = "tag"
    <3>1. r.target \in APITags /\ r.ref \in MA!Refs
      BY <1>2, <2>1, <2>3 DEF Ready
    <3>2. MA!Goes(q, MA!Done(r, 201)) /\ tags' = [tags EXCEPT ![r.target] = MA!Denoted(r.ref)]
      BY <1>8, <2>3 DEF MA!Ask, r
    <3>3. MA!Denoted(r.ref) \in models \cup {MA!None}
      BY <3>1, DenotedIs
    <3> QED BY <1>3, <1>5, <1>t, <2>1, <3>1, <3>2, <3>3
  <2>4. CASE MA!Denoted(r.ref) # MA!None /\ r.op # "tag"
    <3>1. MA!Goes(q, MA!Done(r, 200)) /\ tags' = tags
      BY <1>8, <2>4 DEF MA!Ask, r
    <3> QED BY <1>3, <1>4, <1>u, <2>1, <3>1
  <2> QED BY <2>2, <2>3, <2>4
<1>9. CASE MA!Lookup(q)
  <2>1. r.at = "lookup" /\ models' = models /\ tags' = tags
    BY <1>9 DEF MA!Lookup, r
  <2>2. CASE MA!Matching(r.ref) = {}
    <3>1. MA!Goes(q, MA!HttpError(r, "unknown", 404))
      BY <1>9, <2>2 DEF MA!Lookup, r
    <3> QED BY <1>3, <1>6, <1>u, <2>1, <3>1
  <2>3. CASE MA!Matching(r.ref) # {} /\ r.op = "inspect"
    <3>1. MA!Goes(q, MA!Done(r, 200))
      BY <1>9, <2>3 DEF MA!Lookup, r
    <3> QED BY <1>3, <1>4, <1>u, <2>1, <3>1
  <2>4. CASE MA!Matching(r.ref) # {} /\ r.op # "inspect"
    <3> DEFINE a == "apply"
    <3>1. PICK t \in MA!Matching(r.ref) : MA!Goes(q, [r EXCEPT !.at = a, !.found = t, !.model = tags[t]])
      BY <1>9, <2>4 DEF MA!Lookup, r
    <3> DEFINE v == [r EXCEPT !.at = a, !.found = t, !.model = tags[t]]
    <3>2. a \in MA!Ats /\ t \in APITags /\ tags[t] \in APIModels \cup {MA!None}
      BY <1>2 DEF MA!Ats, MA!Matching
    <3> HIDE DEF a
    <3>3. /\ v \in Request /\ v.at = a /\ v.found = t
          /\ \A f \in {"op", "ref", "target", "failed", "status", "lines"} : v[f] = r[f]
      BY <1>1, <3>2 DEF Request
    <3> HIDE DEF v
    <3>5. v.at = "apply" /\ v.op = r.op /\ v.ref = r.ref /\ v.target = r.target /\ v.found \in APITags
      BY <3>2, <3>3 DEF a
    <3>6. v.failed = r.failed /\ v.status = r.status /\ v.lines = r.lines
      BY <3>3
    <3>7. Ready(v)
      BY <1>2, <2>1, <2>4, <3>5 DEF Ready
    <3>8. Sound(v)
      BY <1>1, <3>3, <3>5, <3>6, <3>7, GoesOn
    <3>9. MA!Goes(q, v)
      BY <3>1 DEF v
    <3> QED BY <1>3, <1>u, <2>1, <3>5, <3>8, <3>9
  <2> QED BY <2>2, <2>3, <2>4
<1>10. CASE MA!ApplyTag(q)
  <2>1. r.at = "apply" /\ models' = models /\ r.op = "tag" /\ r.found \in APITags /\ r.target \in APITags
    BY <1>2, <1>10 DEF MA!ApplyTag, Ready, r
  <2>2. CASE MA!AsTagged(r) = MA!None
    <3>1. MA!Goes(q, MA!HttpError(r, "unknown", 404)) /\ tags' = tags
      BY <1>10, <2>2 DEF MA!ApplyTag, r
    <3> QED BY <1>3, <1>6, <1>u, <2>1, <3>1
  <2>3. CASE MA!AsTagged(r) # MA!None
    <3>1. MA!Goes(q, MA!Done(r, 201)) /\ tags' = [tags EXCEPT ![r.target] = MA!AsTagged(r)]
      BY <1>10, <2>3 DEF MA!ApplyTag, r
    <3>2. MA!AsTagged(r) \in models \cup {MA!None}
      BY <1>2, <2>1 DEF MA!AsTagged
    <3> QED BY <1>3, <1>5, <1>t, <2>1, <3>1, <3>2
  <2> QED BY <2>2, <2>3
<1>11. CASE MA!DeleteRead(q)
  <2> DEFINE m == MA!Denoted(r.ref)
             several == MA!Cardinality(MA!TagsOf(m)) > 1
  <2>1. r.at = "new" /\ models' = models /\ tags' = tags /\ r.ref \in MA!Refs
    BY <1>2, <1>11 DEF MA!DeleteRead, MA!At, Ready, r
  <2>2. MA!Goes(q, IF m = MA!None THEN MA!HttpError(r, "unknown", 404)
                   ELSE IF r.ref \notin APIModels
                   THEN [r EXCEPT !.at = "untag", !.model = m, !.several = several]
                   ELSE IF several /\ ~r.force THEN MA!HttpError(r, "conflict", 409)
                   ELSE [r EXCEPT !.at = "delete", !.model = m])
    BY <1>11 DEF MA!DeleteRead, r
  <2>3. m \in APIModels \cup {MA!None} /\ several \in BOOLEAN
    BY <1>2, <2>1, DenotedIs
  <2> HIDE DEF m, several
  <2>4. CASE m = MA!None
    <3>1. MA!Goes(q, MA!HttpError(r, "unknown", 404))
      BY <2>2, <2>4
    <3> QED BY <1>3, <1>6, <1>u, <2>1, <3>1
  <2>5. CASE m # MA!None /\ r.ref \notin APIModels
    <3> DEFINE a == "untag"
               v == [r EXCEPT !.at = a, !.model = m, !.several = several]
    <3>1. MA!Goes(q, v)
      BY <2>2, <2>5
    <3>2. a \in MA!Ats
      BY DEF MA!Ats
    <3> HIDE DEF a
    <3>3. /\ v \in Request /\ v.at = a
          /\ \A f \in {"op", "ref", "failed", "status", "lines"} : v[f] = r[f]
      BY <1>1, <2>3, <3>2 DEF Request
    <3> HIDE DEF v
    <3>5. v.at = "untag" /\ v.ref = r.ref
      BY <3>3 DEF a
    <3>6. v.failed = r.failed /\ v.status = r.status /\ v.lines = r.lines
      BY <3>3
    <3>7. Ready(v)
      BY <2>1, <2>5, <3>5 DEF Ready, MA!Refs
    <3>8. Sound(v)
      BY <1>1, <3>3, <3>5, <3>6, <3>7, GoesOn
    <3> QED BY <1>3, <1>u, <2>1, <3>1, <3>5, <3>8
  <2>6. CASE m # MA!None /\ r.ref \in APIModels /\ several /\ ~r.force
    <3>1. MA!Goes(q, MA!HttpError(r, "conflict", 409))
      BY <2>2, <2>6
    <3> QED BY <1>3, <1>7, <1>u, <2>1, <3>1
  <2>7. CASE m # MA!None /\ r.ref \in APIModels /\ ~(several /\ ~r.force)
    <3> DEFINE a == "delete"
               v == [r EXCEPT !.at = a, !.model = m]
    <3>1. MA!Goes(q, v)
      BY <2>2, <2>7
    <3>2. a \in MA!Ats
      BY DEF MA!Ats
    <3> HIDE DEF a
    <3>3. /\ v \in Request /\ v.at = a
          /\ \A f \in {"op", "ref", "failed", "status", "lines"} : v[f] = r[f]
      BY <1>1, <2>3, <3>2 DEF Request
    <3> HIDE DEF v
    <3>5. v.at = "delete" /\ v.ref = r.ref
      BY <3>3 DEF a
    <3>6. v.failed = r.failed /\ v.status = r.status /\ v.lines = r.lines
      BY <3>3
    <3>7. Ready(v)
      BY <2>1, <3>5 DEF Ready
    <3>8. Sound(v)
      BY <1>1, <3>3, <3>5, <3>6, <3>7, GoesOn
    <3> QED BY <1>3, <1>u, <2>1, <3>1, <3>5, <3>8
  <2> QED BY <2>4, <2>5, <2>6, <2>7
<1>12. CASE MA!DeleteUntag(q)
  <2> DEFINE t == IF r.ref \in ShortNames THEN LatestOf[r.ref] ELSE r.ref
             a == "delete"
             v == [r EXCEPT !.at = a]
  <2>1. /\ r.at = "untag" /\ models' = models /\ tags' = [tags EXCEPT ![t] = MA!None]
        /\ MA!Goes(q, IF r.several THEN MA!Done(r, 200) ELSE v)
    BY <1>12 DEF MA!DeleteUntag, r
  <2>2. LatestOf \in [ShortNames -> APITags]
    BY Zenon DEF MA!ModelsAssumption
  <2>3. t \in APITags
    BY <1>2, <2>1, <2>2 DEF Ready
  <2>4. a \in MA!Ats
    BY DEF MA!Ats
  <2> HIDE DEF t, a
  <2>5. v \in Request /\ v.at = a
    BY <1>1, <2>4, AtIs
  <2>6. \A f \in {"op", "ref", "target", "found", "model", "several", "gone", "failed", "status", "lines"} :
          v[f] = r[f]
    BY <1>1, <2>4, AtIs, Zenon
  <2> HIDE DEF v
  <2>7. v.at = "delete" /\ v.ref = r.ref /\ v.failed = r.failed /\ v.status = r.status /\ v.lines = r.lines
    BY <2>5, <2>6 DEF a
  <2>8. Ready(v)
    BY <1>2, <2>1, <2>7 DEF Ready
  <2>9. Sound(v)
    BY <1>1, <2>5, <2>7, <2>8, GoesOn
  <2>10. models' \subseteq APIModels /\ tags' \in [APITags -> models' \cup {MA!None}]
    BY <1>t, <2>1, <2>3
  <2>11. CASE r.several
    <3>1. MA!Goes(q, MA!Done(r, 200))
      BY <2>1, <2>11
    <3> QED BY <1>3, <1>4, <2>10, <3>1
  <2>12. CASE ~r.several
    <3>1. MA!Goes(q, v)
      BY <2>1, <2>12
    <3> QED BY <1>3, <2>7, <2>9, <2>10, <3>1
  <2> QED BY <2>11, <2>12
<1>13. CASE MA!DeleteAll(q)
  <2>1. /\ models' = models \ {r.model}
        /\ tags' = [t \in APITags |-> IF tags[t] = r.model THEN MA!None ELSE tags[t]]
        /\ MA!Goes(q, IF r.model \in models THEN MA!Done(r, 200) ELSE MA!HttpError(r, "unknown", 404))
    BY <1>13 DEF MA!DeleteAll, r
  <2>2. models' \subseteq APIModels /\ tags' \in [APITags -> models' \cup {MA!None}]
    BY <1>2, <2>1
  <2>3. CASE r.model \in models
    <3>1. MA!Goes(q, MA!Done(r, 200))
      BY <2>1, <2>3
    <3> QED BY <1>3, <1>4, <2>2, <3>1
  <2>4. CASE r.model \notin models
    <3>1. MA!Goes(q, MA!HttpError(r, "unknown", 404))
      BY <2>1, <2>4
    <3> QED BY <1>3, <1>6, <2>2, <3>1
  <2> QED BY <2>3, <2>4
<1> QED BY <1>8, <1>9, <1>10, <1>11, <1>12, <1>13

(* Every step of the models API keeps the invariant. *)
LEMMA ModelsMoves ==
  ASSUME MA!ModelsAssumption, ModelsInv, MA!MANext \/ UNCHANGED MA!maVars
  PROVE  ModelsInv'
<1>1. IsFiniteSet(Requests)
  <2>1. MA!IsFiniteSet(Requests)
    BY Zenon DEF MA!ModelsAssumption
  <2> QED BY <2>1, SameCardinality
<1>2. CASE MA!MANext
  <2>1. PICK q \in Requests :
          \/ MA!Arrive(q) \/ MA!PullStores(q)
          \/ MA!TakeToken(q) \/ MA!ClientLeaves(q) \/ MA!GiveUpWaiting(q) \/ MA!PullProgress(q)
             \/ MA!PullRefused(q) \/ MA!PullBreaks(q) \/ MA!CachedNotTagged(q) \/ MA!PullSilent(q)
          \/ MA!Ask(q) \/ MA!Lookup(q) \/ MA!ApplyTag(q) \/ MA!DeleteRead(q) \/ MA!DeleteUntag(q)
             \/ MA!DeleteAll(q)
    BY <1>2, Zenon DEF MA!MANext
  <2> QED BY <1>1, <2>1, ArriveKeeps, StoresKeeps, PullKeeps, AnswerKeeps
<1>3. CASE UNCHANGED MA!maVars
  <2>1. tokens' = tokens /\ models' = models /\ tags' = tags /\ reqs' = reqs
    BY <1>3 DEF MA!maVars
  <2>2. MA!MATypeOK'
    BY <2>1, Zenon DEF ModelsInv, MA!MATypeOK
  <2>3. (\A q \in Requests : Sound(reqs[q]))'
    BY <2>1, Zenon DEF ModelsInv
  <2>4. (tokens \in Int /\ reqs \in [Requests -> Request])'
    BY <2>1, Zenon DEF ModelsInv
  <2> QED BY <2>2, <2>3, <2>4, Zenon DEF ModelsInv
<1> QED BY <1>2, <1>3

(* What the invariant says of failures. *)
LEMMA ModelsTold ==
  ASSUME ModelsInv
  PROVE  MA!FailureTold
BY DEF ModelsInv, Sound, ToldRight, MA!FailureTold

(* A request to tag that has not ended has no status yet, and what it found for
   a partial name is a tag of that name. *)
TagAsks(r) ==
  r.op = "tag" =>
    /\ r.at \in {"new", "lookup", "apply", "done"}
    /\ r.at # "done" => r.status = 0
    /\ r.at = "apply" /\ r.ref \in ShortNames => NameOf[r.found] = r.ref
TagsAsk == \A q \in Requests : TagAsks(reqs[q])

(* What a request asks for does not change as it is answered. *)
LEMMA DoneOp ==
  ASSUME NEW r \in Request, NEW s \in MA!Statuses
  PROVE  MA!Done(r, s) \in Request /\ MA!Done(r, s).op = r.op
<1>1. /\ MA!Done(r, s) \in Request
      /\ \A f \in {"op", "ref", "target", "found", "gone", "failed", "lines"} : MA!Done(r, s)[f] = r[f]
  BY DoneIs, Zenon
<1> QED BY <1>1

LEMMA WroteOp ==
  ASSUME NEW r \in Request, NEW line \in {"progress", "success", "error", "text"}
  PROVE  MA!Wrote(r, line) \in Request /\ MA!Wrote(r, line).op = r.op
<1>1. /\ MA!Wrote(r, line) \in Request
      /\ \A f \in {"op", "at", "ref", "target", "found", "gone", "failed"} : MA!Wrote(r, line)[f] = r[f]
  BY WroteIs, Zenon
<1> QED BY <1>1

LEMMA ErrorOp ==
  ASSUME NEW r \in Request, NEW s \in MA!Statuses, NEW why
  PROVE  MA!HttpError(r, why, s).op = r.op
<1> DEFINE d == MA!Done(r, s)
           w == MA!Wrote(d, "text")
           v == [w EXCEPT !.failed = why]
<1>1. d \in Request /\ d.op = r.op
  BY DoneOp
<1>2. MA!HttpError(r, why, s) = v
  BY DEF MA!HttpError
<1> HIDE DEF d
<1>3. w \in Request /\ w.op = d.op
  BY <1>1, WroteOp
<1> HIDE DEF w
<1>4. v.op = w.op
  BY <1>3 DEF Request
<1> HIDE DEF v
<1> QED BY <1>1, <1>2, <1>3, <1>4

(* Whatever moves a request that does not ask for a tag, it asks for none then,
   unless it comes in. *)
LEMMA OtherRequests ==
  ASSUME ModelsInv, NEW q \in Requests, reqs[q].op # "tag",
         \/ MA!PullStores(q)
         \/ MA!TakeToken(q) \/ MA!ClientLeaves(q) \/ MA!GiveUpWaiting(q) \/ MA!PullProgress(q)
         \/ MA!PullRefused(q) \/ MA!PullBreaks(q) \/ MA!CachedNotTagged(q) \/ MA!PullSilent(q)
         \/ MA!Ask(q) \/ MA!Lookup(q) \/ MA!ApplyTag(q) \/ MA!DeleteRead(q) \/ MA!DeleteUntag(q)
         \/ MA!DeleteAll(q)
  PROVE  reqs'[q].op # "tag"
<1> DEFINE r == reqs[q]
<1>1. r \in Request /\ Ready(r) /\ reqs \in [Requests -> Request] /\ r.op # "tag"
  BY DEF ModelsInv, Sound
<1>2. ASSUME NEW v, MA!Goes(q, v), v.op = r.op PROVE reqs'[q].op # "tag"
  <2>1. reqs'[q] = v
    BY <1>1, <1>2 DEF MA!Goes
  <2> QED BY <1>1, <1>2, <2>1
<1>3. 200 \in MA!Statuses /\ 201 \in MA!Statuses /\ 404 \in MA!Statuses /\ 409 \in MA!Statuses /\ 500 \in MA!Statuses
  BY DEF MA!Statuses
<1>4. ASSUME NEW x \in Request, x.op = r.op, NEW s \in MA!Statuses, NEW why, MA!Goes(q, MA!HttpError(x, why, s))
      PROVE  reqs'[q].op # "tag"
  BY <1>2, <1>4, ErrorOp
<1>5. ASSUME NEW x \in Request, x.op = r.op, NEW s \in MA!Statuses, MA!Goes(q, MA!Done(x, s))
      PROVE  reqs'[q].op # "tag"
  BY <1>2, <1>5, DoneOp
<1>6. ASSUME NEW x \in Request, x.op = r.op, NEW why, MA!Goes(q, [MA!Done(x, 200) EXCEPT !.failed = why])
      PROVE  reqs'[q].op # "tag"
  <2> DEFINE d == MA!Done(x, 200)
             v == [d EXCEPT !.failed = why]
  <2>1. MA!Goes(q, v)
    BY <1>6
  <2>2. d \in Request /\ d.op = x.op
    BY <1>3, DoneOp
  <2> HIDE DEF d
  <2>3. v.op = d.op
    BY <2>2 DEF Request
  <2> HIDE DEF v
  <2> QED BY <1>2, <1>6, <2>1, <2>2, <2>3
<1>7. ASSUME NEW a, NEW m, NEW b, NEW v,
             \/ v = [r EXCEPT !.at = a] \/ v = [r EXCEPT !.gone = b]
             \/ v = [r EXCEPT !.at = a, !.model = m] \/ v = [r EXCEPT !.at = a, !.model = m, !.several = b],
             MA!Goes(q, v)
      PROVE  reqs'[q].op # "tag"
  <2> HIDE DEF r
  <2>1. v = [r EXCEPT !.at = a] \/ v = [r EXCEPT !.gone = b] => v.op = r.op
    BY <1>1 DEF Request
  <2>2. v = [r EXCEPT !.at = a, !.model = m] => v.op = r.op
    BY <1>1 DEF Request
  <2>3. v = [r EXCEPT !.at = a, !.model = m, !.several = b] => v.op = r.op
    BY <1>1 DEF Request
  <2> QED BY <1>2, <1>7, <2>1, <2>2, <2>3
<1>w. /\ MA!Wrote(r, "progress") \in Request /\ MA!Wrote(r, "progress").op = r.op
      /\ MA!Wrote(r, "success") \in Request /\ MA!Wrote(r, "success").op = r.op
      /\ MA!Wrote(r, "error") \in Request /\ MA!Wrote(r, "error").op = r.op
  BY <1>1, WroteOp
<1> HIDE DEF r
<1>8. CASE MA!TakeToken(q) \/ MA!ClientLeaves(q)
  <2>1. MA!Goes(q, [r EXCEPT !.at = "pulling"]) \/ MA!Goes(q, [r EXCEPT !.gone = TRUE])
    BY <1>8 DEF MA!TakeToken, MA!ClientLeaves, r
  <2> QED BY <1>7, <2>1
<1>9. CASE MA!GiveUpWaiting(q)
  <2>1. MA!Goes(q, [MA!Done(r, 200) EXCEPT !.failed = "cancelled"])
    BY <1>9 DEF MA!GiveUpWaiting, r
  <2> QED BY <1>1, <1>6, <2>1
<1>10. CASE MA!PullProgress(q)
  <2>1. MA!Goes(q, MA!Wrote(r, "progress"))
    BY <1>10 DEF MA!PullProgress, r
  <2> QED BY <1>2, <1>w, <2>1
<1>11. CASE MA!PullStores(q)
  <2>1. MA!Goes(q, MA!Done(MA!Wrote(r, "success"), 200))
    BY <1>11 DEF MA!PullStores, r
  <2> QED BY <1>3, <1>5, <1>w, <2>1
<1>12. CASE MA!PullRefused(q)
  <2>1. PICK why \in DOMAIN MA!Refusals : MA!Goes(q, MA!HttpError(r, why, MA!Refusals[why]))
    BY <1>12 DEF MA!PullRefused, r
  <2>2. MA!Refusals[why] \in MA!Statuses
    <3>1. why \in {"invalid", "unauthorized", "unknown", "media", "other"}
      BY DEF MA!Refusals
    <3>2. MA!Refusals[why] \in {400, 401, 404, 422, 500}
      BY <3>1 DEF MA!Refusals
    <3> QED BY <3>2 DEF MA!Statuses
  <2> QED BY <1>1, <1>4, <2>1, <2>2
<1>13. CASE MA!PullBreaks(q) \/ MA!CachedNotTagged(q)
  <2>1. \/ MA!Goes(q, MA!HttpError(MA!Wrote(r, "error"), "other", 500))
        \/ MA!Goes(q, MA!HttpError(MA!Wrote(r, "success"), "other", 500))
    BY <1>13 DEF MA!PullBreaks, MA!CachedNotTagged, r
  <2> QED BY <1>3, <1>4, <1>w, <2>1
<1>14. CASE MA!PullSilent(q)
  <2>1. PICK why \in {"cancelled", "timeout"} :
          MA!Goes(q, [MA!Done(IF r.lines = {} THEN r ELSE MA!Wrote(r, "error"), 200) EXCEPT !.failed = why])
    BY <1>14 DEF MA!PullSilent, r
  <2> DEFINE x == IF r.lines = {} THEN r ELSE MA!Wrote(r, "error")
  <2>2. x \in Request /\ x.op = r.op
    BY <1>1, <1>w
  <2> HIDE DEF x
  <2>3. MA!Goes(q, [MA!Done(x, 200) EXCEPT !.failed = why])
    BY <2>1 DEF x
  <2> QED BY <1>6, <2>2, <2>3
<1>15. CASE MA!Ask(q)
  <2>1. \/ MA!Goes(q, [r EXCEPT !.at = "lookup"])
        \/ MA!Goes(q, MA!Done(r, IF r.op = "tag" THEN 201 ELSE 200))
    BY <1>15 DEF MA!Ask, r
  <2> QED BY <1>1, <1>3, <1>5, <1>7, <2>1 DEF r
<1>16. CASE MA!Lookup(q)
  <2>1. r.op = "inspect"
    BY <1>1, <1>16 DEF MA!Lookup, Ready, r
  <2>2. MA!Goes(q, MA!HttpError(r, "unknown", 404)) \/ MA!Goes(q, MA!Done(r, 200))
    BY <1>16, <2>1 DEF MA!Lookup, r
  <2> QED BY <1>1, <1>3, <1>4, <1>5, <2>2 DEF r
<1>17. CASE MA!ApplyTag(q)
  BY <1>1, <1>17 DEF MA!ApplyTag, Ready, r
<1>18. CASE MA!DeleteRead(q)
  <2>1. \/ MA!Goes(q, MA!HttpError(r, "unknown", 404)) \/ MA!Goes(q, MA!HttpError(r, "conflict", 409))
        \/ \E m, b : MA!Goes(q, [r EXCEPT !.at = "untag", !.model = m, !.several = b])
        \/ \E m : MA!Goes(q, [r EXCEPT !.at = "delete", !.model = m])
    BY <1>18 DEF MA!DeleteRead, r
  <2>2. CASE MA!Goes(q, MA!HttpError(r, "unknown", 404)) \/ MA!Goes(q, MA!HttpError(r, "conflict", 409))
    BY <1>1, <1>3, <1>4, <2>2
  <2>3. ASSUME NEW m, NEW b, MA!Goes(q, [r EXCEPT !.at = "untag", !.model = m, !.several = b])
        PROVE  reqs'[q].op # "tag"
    BY <1>7, <2>3
  <2>4. ASSUME NEW m, MA!Goes(q, [r EXCEPT !.at = "delete", !.model = m])
        PROVE  reqs'[q].op # "tag"
    BY <1>7, <2>4
  <2> QED BY <2>1, <2>2, <2>3, <2>4
<1>19. CASE MA!DeleteUntag(q)
  <2>1. MA!Goes(q, MA!Done(r, 200)) \/ MA!Goes(q, [r EXCEPT !.at = "delete"])
    BY <1>19 DEF MA!DeleteUntag, r
  <2> QED BY <1>1, <1>3, <1>5, <1>7, <2>1
<1>20. CASE MA!DeleteAll(q)
  <2>1. MA!Goes(q, MA!Done(r, 200)) \/ MA!Goes(q, MA!HttpError(r, "unknown", 404))
    BY <1>20 DEF MA!DeleteAll, r
  <2> QED BY <1>1, <1>3, <1>4, <1>5, <2>1
<1> QED BY <1>8, <1>9, <1>10, <1>11, <1>12, <1>13, <1>14, <1>15, <1>16, <1>17, <1>18, <1>19, <1>20

(* A request to tag is asked, looks its name up, and applies what it found. *)
LEMMA TagRequests ==
  ASSUME MA!ModelsAssumption, ModelsInv, NEW q \in Requests, reqs[q].op = "tag", TagAsks(reqs[q]),
         \/ MA!Arrive(q) \/ MA!PullStores(q)
         \/ MA!TakeToken(q) \/ MA!ClientLeaves(q) \/ MA!GiveUpWaiting(q) \/ MA!PullProgress(q)
         \/ MA!PullRefused(q) \/ MA!PullBreaks(q) \/ MA!CachedNotTagged(q) \/ MA!PullSilent(q)
         \/ MA!Ask(q) \/ MA!Lookup(q) \/ MA!ApplyTag(q) \/ MA!DeleteRead(q) \/ MA!DeleteUntag(q)
         \/ MA!DeleteAll(q)
  PROVE  /\ TagAsks(reqs'[q])
         /\ reqs[q].ref \in ShortNames /\ reqs'[q].status = 201 =>
              \E t \in MA!TagsOf(tags'[reqs[q].target]) : NameOf[t] = reqs[q].ref \/ t = LatestOf[reqs[q].ref]
<1> DEFINE r == reqs[q]
<1>1. /\ r \in Request /\ Ready(r) /\ reqs \in [Requests -> Request] /\ r.op = "tag"
      /\ r.at \in {"new", "lookup", "apply", "done"} /\ (r.at # "done" => r.status = 0)
      /\ r.at = "apply" /\ r.ref \in ShortNames => NameOf[r.found] = r.ref
      /\ tags \in [APITags -> models \cup {MA!None}]
  BY TypesAre DEF ModelsInv, Sound, TagAsks
<1>2. MA!Ask(q) \/ MA!Lookup(q) \/ MA!ApplyTag(q)
  <2>1. ~MA!Arrive(q) /\ ~MA!DeleteUntag(q) /\ ~MA!DeleteAll(q)
    BY <1>1 DEF MA!Arrive, MA!DeleteUntag, MA!DeleteAll
  <2>2. ~MA!PullStores(q) /\ ~MA!TakeToken(q) /\ ~MA!ClientLeaves(q) /\ ~MA!GiveUpWaiting(q)
        /\ ~MA!PullProgress(q)
    BY <1>1 DEF MA!PullStores, MA!TakeToken, MA!ClientLeaves, MA!GiveUpWaiting, MA!PullProgress, MA!At
  <2>3. ~MA!PullRefused(q) /\ ~MA!PullBreaks(q) /\ ~MA!CachedNotTagged(q) /\ ~MA!PullSilent(q)
        /\ ~MA!DeleteRead(q)
    BY <1>1 DEF MA!PullRefused, MA!PullBreaks, MA!CachedNotTagged, MA!PullSilent, MA!DeleteRead, MA!At
  <2> QED BY <2>1, <2>2, <2>3
<1>3. r.at # "done" /\ r.status = 0 /\ r.target \in APITags
  BY <1>1, <1>2 DEF MA!Ask, MA!Lookup, MA!ApplyTag, Ready
<1>4. ASSUME NEW v, MA!Goes(q, v) PROVE reqs'[q] = v
  BY <1>1, <1>4 DEF MA!Goes
<1>5. ASSUME NEW v, MA!Goes(q, v), v.at = "done" PROVE TagAsks(reqs'[q])
  BY <1>4, <1>5 DEF TagAsks
<1>6. MA!HttpError(r, "unknown", 404).at = "done" /\ MA!HttpError(r, "unknown", 404).status # 201
  <2> DEFINE d == MA!Done(r, 404)
             w == MA!Wrote(d, "text")
  <2>1. d \in Request /\ d.at = "done" /\ d.status = 404
    BY <1>1, <1>3, DoneIs DEF MA!Statuses
  <2>2. MA!HttpError(r, "unknown", 404) = [w EXCEPT !.failed = "unknown"]
    BY DEF MA!HttpError
  <2> HIDE DEF d
  <2>3. w \in Request /\ w.at = "done" /\ w.status = 404
    BY <2>1, WroteIs
  <2> HIDE DEF w
  <2>4. "unknown" \in Reasons
    BY DEF Reasons
  <2>5. [w EXCEPT !.failed = "unknown"].at = "done" /\ [w EXCEPT !.failed = "unknown"].status = 404
    BY <2>3, <2>4, FailedIs
  <2> DEFINE v == [w EXCEPT !.failed = "unknown"]
  <2>6. v.at = "done" /\ v.status # 201
    BY <2>5
  <2>7. MA!HttpError(r, "unknown", 404) = v
    BY <2>2
  <2> HIDE DEF v
  <2> QED BY <2>6, <2>7, Zenon
<1>7. MA!Done(r, 201).at = "done"
  BY <1>1, DoneIs DEF MA!Statuses
<1>8. ASSUME NEW a, NEW t, NEW m
      PROVE  /\ [r EXCEPT !.at = a].op = r.op /\ [r EXCEPT !.at = a].at = a /\ [r EXCEPT !.at = a].status = r.status
             /\ [r EXCEPT !.at = a, !.found = t, !.model = m].op = r.op
             /\ [r EXCEPT !.at = a, !.found = t, !.model = m].at = a
             /\ [r EXCEPT !.at = a, !.found = t, !.model = m].status = r.status
             /\ [r EXCEPT !.at = a, !.found = t, !.model = m].ref = r.ref
             /\ [r EXCEPT !.at = a, !.found = t, !.model = m].found = t
  BY <1>1 DEF Request
<1>9. ShortNames \cap APIModels = {} /\ LatestOf \in [ShortNames -> APITags]
  BY Zenon DEF MA!ModelsAssumption
<1> HIDE DEF r
<1>10. CASE MA!Ask(q)
  <2>1. CASE MA!Denoted(r.ref) = MA!None
    <3>1. MA!Goes(q, [r EXCEPT !.at = "lookup"])
      BY <1>10, <2>1 DEF MA!Ask, r
    <3>2. reqs'[q] = [r EXCEPT !.at = "lookup"]
      BY <1>4, <3>1
    <3>3. reqs'[q].at = "lookup" /\ reqs'[q].status = 0
      BY <1>3, <1>8, <3>2
    <3> QED BY <3>3 DEF TagAsks
  <2>2. CASE MA!Denoted(r.ref) # MA!None
    <3>1. MA!Goes(q, MA!Done(r, 201)) /\ tags' = [tags EXCEPT ![r.target] = MA!Denoted(r.ref)]
      BY <1>1, <1>10, <2>2 DEF MA!Ask, r
    <3>2. TagAsks(reqs'[q])
      BY <1>5, <1>7, <3>1
    <3>3. ASSUME r.ref \in ShortNames
          PROVE  \E t \in MA!TagsOf(tags'[r.target]) : t = LatestOf[r.ref]
      <4>1. MA!Denoted(r.ref) = tags[LatestOf[r.ref]]
        BY <1>9, <3>3 DEF MA!Denoted
      <4>2. tags'[r.target] = tags[LatestOf[r.ref]]
        BY <1>1, <1>3, <3>1, <4>1
      <4> QED BY <1>9, <3>3, <4>2 DEF MA!TagsOf
    <3> QED BY <3>2, <3>3 DEF r
  <2> QED BY <2>1, <2>2
<1>11. CASE MA!Lookup(q)
  <2>1. CASE MA!Matching(r.ref) = {}
    <3>1. MA!Goes(q, MA!HttpError(r, "unknown", 404))
      BY <1>11, <2>1 DEF MA!Lookup, r
    <3>2. reqs'[q] = MA!HttpError(r, "unknown", 404)
      BY <1>4, <3>1
    <3> QED BY <1>5, <1>6, <3>1, <3>2
  <2>2. CASE MA!Matching(r.ref) # {}
    <3>1. PICK t \in MA!Matching(r.ref) :
            MA!Goes(q, [r EXCEPT !.at = "apply", !.found = t, !.model = tags[t]])
      BY <1>1, <1>11, <2>2 DEF MA!Lookup, r
    <3>2. r.ref \in ShortNames => NameOf[t] = r.ref
      BY <1>9, <3>1 DEF MA!Matching
    <3> DEFINE v == [r EXCEPT !.at = "apply", !.found = t, !.model = tags[t]]
    <3>3. reqs'[q] = v
      BY <1>4, <3>1
    <3>4. v.op = "tag" /\ v.at = "apply" /\ v.status = 0 /\ v.ref = r.ref /\ v.found = t
      BY <1>1, <1>3, <1>8
    <3> HIDE DEF v
    <3> QED BY <3>2, <3>3, <3>4 DEF TagAsks
  <2> QED BY <2>1, <2>2
<1>12. CASE MA!ApplyTag(q)
  <2>0. r.at = "apply" /\ r.found \in APITags
    BY <1>1, <1>12 DEF MA!ApplyTag, Ready, r
  <2>1. CASE MA!AsTagged(r) = MA!None
    <3>1. MA!Goes(q, MA!HttpError(r, "unknown", 404))
      BY <1>12, <2>1 DEF MA!ApplyTag, r
    <3>2. reqs'[q] = MA!HttpError(r, "unknown", 404)
      BY <1>4, <3>1
    <3> QED BY <1>5, <1>6, <3>1, <3>2
  <2>2. CASE MA!AsTagged(r) # MA!None
    <3>1. MA!Goes(q, MA!Done(r, 201)) /\ tags' = [tags EXCEPT ![r.target] = tags[r.found]]
      BY <1>12, <2>2 DEF MA!ApplyTag, MA!AsTagged, r
    <3>2. tags'[r.target] = tags[r.found]
      BY <1>1, <1>3, <3>1
    <3>3. r.found \in MA!TagsOf(tags'[r.target])
      BY <2>0, <3>2 DEF MA!TagsOf
    <3>4. r.ref \in ShortNames => NameOf[r.found] = r.ref
      BY <1>1, <2>0 DEF r
    <3> QED BY <1>5, <1>7, <3>1, <3>3, <3>4 DEF r
  <2> QED BY <2>1, <2>2
<1> QED BY <1>2, <1>10, <1>11, <1>12

(* The steps of the models API, by the request that moves. *)
LEMMA OneMoves ==
  ASSUME ModelsInv, MA!MANext
  PROVE  \E q \in Requests :
           /\ \A p \in Requests : p # q => reqs'[p] = reqs[p]
           /\ \/ MA!Arrive(q) \/ MA!PullStores(q)
              \/ MA!TakeToken(q) \/ MA!ClientLeaves(q) \/ MA!GiveUpWaiting(q) \/ MA!PullProgress(q)
              \/ MA!PullRefused(q) \/ MA!PullBreaks(q) \/ MA!CachedNotTagged(q) \/ MA!PullSilent(q)
              \/ MA!Ask(q) \/ MA!Lookup(q) \/ MA!ApplyTag(q) \/ MA!DeleteRead(q) \/ MA!DeleteUntag(q)
              \/ MA!DeleteAll(q)
<1>1. PICK q \in Requests :
        \/ MA!Arrive(q) \/ MA!PullStores(q)
        \/ MA!TakeToken(q) \/ MA!ClientLeaves(q) \/ MA!GiveUpWaiting(q) \/ MA!PullProgress(q)
        \/ MA!PullRefused(q) \/ MA!PullBreaks(q) \/ MA!CachedNotTagged(q) \/ MA!PullSilent(q)
        \/ MA!Ask(q) \/ MA!Lookup(q) \/ MA!ApplyTag(q) \/ MA!DeleteRead(q) \/ MA!DeleteUntag(q)
        \/ MA!DeleteAll(q)
  BY Zenon DEF MA!MANext
<1>2. \E v : MA!Goes(q, v)
  <2>1. CASE MA!Arrive(q)
    BY <2>1 DEF MA!Arrive
  <2>2. CASE MA!PullStores(q) \/ MA!TakeToken(q) \/ MA!ClientLeaves(q) \/ MA!GiveUpWaiting(q) \/ MA!PullProgress(q)
    BY <2>2 DEF MA!PullStores, MA!TakeToken, MA!ClientLeaves, MA!GiveUpWaiting, MA!PullProgress
  <2>3. CASE MA!PullRefused(q) \/ MA!PullBreaks(q) \/ MA!CachedNotTagged(q) \/ MA!PullSilent(q)
    BY <2>3 DEF MA!PullRefused, MA!PullBreaks, MA!CachedNotTagged, MA!PullSilent
  <2>4. CASE MA!Ask(q) \/ MA!Lookup(q)
    BY <2>4 DEF MA!Ask, MA!Lookup
  <2>5. CASE MA!ApplyTag(q) \/ MA!DeleteRead(q) \/ MA!DeleteUntag(q) \/ MA!DeleteAll(q)
    BY <2>5 DEF MA!ApplyTag, MA!DeleteRead, MA!DeleteUntag, MA!DeleteAll
  <2> QED BY <1>1, <2>1, <2>2, <2>3, <2>4, <2>5
<1>3. \A p \in Requests : p # q => reqs'[p] = reqs[p]
  BY <1>2 DEF MA!Goes, ModelsInv
<1> QED BY <1>1, <1>3

LEMMA TagsAskInit ==
  ASSUME MA!MAInit PROVE TagsAsk
BY DEF MA!MAInit, MA!Fresh, TagsAsk, TagAsks

LEMMA TagsAskMoves ==
  ASSUME MA!ModelsAssumption, ModelsInv, TagsAsk, MA!MANext \/ UNCHANGED MA!maVars
  PROVE  TagsAsk'
<1>1. CASE MA!MANext
  <2> SUFFICES ASSUME NEW p \in Requests PROVE TagAsks(reqs'[p])
    BY DEF TagsAsk, TagAsks
  <2>1. PICK q \in Requests :
          /\ \A o \in Requests : o # q => reqs'[o] = reqs[o]
          /\ \/ MA!Arrive(q) \/ MA!PullStores(q)
             \/ MA!TakeToken(q) \/ MA!ClientLeaves(q) \/ MA!GiveUpWaiting(q) \/ MA!PullProgress(q)
             \/ MA!PullRefused(q) \/ MA!PullBreaks(q) \/ MA!CachedNotTagged(q) \/ MA!PullSilent(q)
             \/ MA!Ask(q) \/ MA!Lookup(q) \/ MA!ApplyTag(q) \/ MA!DeleteRead(q) \/ MA!DeleteUntag(q)
             \/ MA!DeleteAll(q)
    BY <1>1, OneMoves, Zenon
  <2>2. TagAsks(reqs[p])
    BY DEF TagsAsk
  <2>3. CASE p # q
    BY <2>1, <2>2, <2>3
  <2>4. CASE p = q /\ reqs[q].op = "tag"
    BY <2>1, <2>2, <2>4, TagRequests
  <2>5. CASE p = q /\ reqs[q].op # "tag"
    <3>1. CASE MA!Arrive(q)
      <4>1. PICK o, r, t, f : MA!Goes(q, MA!Fresh(o, r, t, f))
        BY <3>1 DEF MA!Arrive
      <4>2. reqs'[q] = MA!Fresh(o, r, t, f)
        BY <4>1 DEF MA!Goes, ModelsInv
      <4>3. MA!Fresh(o, r, t, f).at = "new" /\ MA!Fresh(o, r, t, f).status = 0
        BY DEF MA!Fresh
      <4>4. reqs'[q].at = "new" /\ reqs'[q].status = 0
        BY <4>2, <4>3, Zenon
      <4> QED BY <2>5, <4>4 DEF TagAsks
    <3>2. CASE ~MA!Arrive(q)
      <4>1. reqs'[q].op # "tag"
        BY <2>1, <2>5, <3>2, OtherRequests
      <4> QED BY <2>5, <4>1 DEF TagAsks
    <3> QED BY <3>1, <3>2
  <2> QED BY <2>3, <2>4, <2>5
<1>2. CASE UNCHANGED MA!maVars
  BY <1>2 DEF MA!maVars, TagsAsk
<1> QED BY <1>1, <1>2

(* A tag by a partial name tags a model that answers to it. *)
LEMMA TagsByName ==
  ASSUME MA!ModelsAssumption, ModelsInv, TagsAsk, MA!MANext
  PROVE  MA!TagByNameStep
<1> SUFFICES ASSUME NEW p \in Requests, reqs[p].op = "tag", reqs[p].ref \in ShortNames,
                    reqs[p].at # "done", reqs'[p].status = 201
             PROVE  \E t \in MA!TagsOf(tags'[reqs[p].target]) :
                      NameOf[t] = reqs[p].ref \/ t = LatestOf[reqs[p].ref]
  BY DEF MA!TagByNameStep
<1>1. PICK q \in Requests :
        /\ \A o \in Requests : o # q => reqs'[o] = reqs[o]
        /\ \/ MA!Arrive(q) \/ MA!PullStores(q)
           \/ MA!TakeToken(q) \/ MA!ClientLeaves(q) \/ MA!GiveUpWaiting(q) \/ MA!PullProgress(q)
           \/ MA!PullRefused(q) \/ MA!PullBreaks(q) \/ MA!CachedNotTagged(q) \/ MA!PullSilent(q)
           \/ MA!Ask(q) \/ MA!Lookup(q) \/ MA!ApplyTag(q) \/ MA!DeleteRead(q) \/ MA!DeleteUntag(q)
           \/ MA!DeleteAll(q)
  BY OneMoves, Zenon
<1>2. TagAsks(reqs[p]) /\ reqs[p].status = 0
  BY DEF TagsAsk, TagAsks
<1>3. p = q
  BY <1>1, <1>2
<1> QED BY <1>1, <1>2, <1>3, TagRequests

-----------------------------------------------------------------------------
(***************************************************************************)
(* Installing a backend.  The record is what decides whether a later       *)
(* installation does anything, so the invariant says what the record, if   *)
(* there is one, tells of the files, and how far the files have come at    *)
(* each step.                                                              *)
(***************************************************************************)
(* A version on record is that of the program beside it; only a Python
   environment can have lost its libraries meanwhile. *)
RecordTells ==
  /\ record # BI!NoRecord =>
       /\ record.digest \in BI!Images
       /\ record.tag \in ServerTags => record.digest = record.tag
  /\ record # BI!NoRecord /\ server # BI!NoImage =>
       /\ server = record.digest /\ runnable
       /\ family = "llamacpp" => libraries = server
  /\ family = "python" /\ server # BI!NoImage => libraries \in {BI!NoImage, server}
  /\ record # BI!NoRecord /\ server # BI!NoImage /\ ~cut /\ ~BI!Removing => others = server

(* How far the files have come. *)
Placed ==
  /\ step \in {"download", "clear", "clearLibraries", "server", "chmod", "libraries", "record"} =>
       image \in BI!Images /\ (asked \in ServerTags => image = asked)
  /\ step \in {"resolve", "clearLibraries"} => family = "llamacpp"
  /\ step \in {"verify", "uninstall"} => family = "python"
  /\ step \in {"clearLibraries", "server"} => server = BI!NoImage /\ record = BI!NoRecord
  /\ step \in {"server", "libraries"} => libraries = BI!NoImage
  /\ step \in {"chmod", "libraries"} => server = image
  /\ step = "chmod" => libraries = IF family = "python" THEN image ELSE BI!NoImage
  /\ step = "libraries" /\ family = "llamacpp" => runnable /\ others = image
  /\ step = "chmod" => others = image
  /\ step = "verify" => others = server \/ cut
  /\ step = "record" => BI!Whole(image) /\ record = BI!NoRecord

InstallInv == BI!BITypeOK /\ BI!InstalledWhole /\ RecordTells /\ Placed

(* A record of a pinned version is not the empty record, so it tells the image. *)
LEMMA TagsTellImages ==
  ASSUME BI!InstallAssumption, RecordTells
  PROVE  BI!RecordTellsImage
<1> SUFFICES ASSUME record.tag \in ServerTags, server # BI!NoImage PROVE server = record.tag
  BY DEF BI!RecordTellsImage
<1>1. BI!NoRecord.tag = "" /\ "" \notin ServerTags
  BY DEF BI!InstallAssumption, BI!NoRecord
<1>2. record # BI!NoRecord
  BY <1>1
<1> QED BY <1>2 DEF RecordTells

(* What an earlier process left behind is whole, or is not recorded. *)
LEMMA InstallInit ==
  ASSUME BI!InstallAssumption, BI!BIInit
  PROVE  InstallInv
<1> USE DEF BI!NoImage, BI!NoRecord, BI!Images
<1>1. /\ newest \in Pushes /\ newest # "none"
      /\ \/ record = BI!NoRecord \/ record = [tag |-> "", digest |-> newest]
      /\ server = record.digest /\ libraries = record.digest /\ runnable = (record # BI!NoRecord)
  BY DEF BI!BIInit, BI!InstallAssumption
<1>2. /\ record \in [tag : ServerTags \cup {"latest", ""}, digest : BI!Images \cup {BI!NoImage}]
      /\ record.tag = "" /\ record.digest \in {"none", newest}
      /\ runnable \in BOOLEAN /\ (runnable => server # "none")
  <2>1. CASE record = BI!NoRecord
    BY <1>1, <2>1
  <2>2. CASE record = [tag |-> "", digest |-> newest]
    BY <1>1, <2>2
  <2> QED BY <1>1, <2>1, <2>2
<1>3. BI!BITypeOK
  BY <1>1, <1>2 DEF BI!BIInit, BI!BITypeOK
<1>4. RecordTells
  BY <1>1, <1>2 DEF RecordTells, BI!InstallAssumption, BI!BIInit
<1> QED BY <1>3, <1>4 DEF InstallInv, Placed, BI!InstalledWhole, BI!BIInit

(* One case per step of an installation, with the kill that may come at any. *)
LEMMA InstallKeeps ==
  ASSUME BI!InstallAssumption, InstallInv, BI!BINext
  PROVE  InstallInv'
<1> USE DEF BI!NoImage, BI!biFiles, BI!Done, BI!Digest, BI!Removing
<1>1. BI!BITypeOK /\ BI!InstalledWhole /\ RecordTells /\ Placed
  BY DEF InstallInv
<1>2. "none" \notin BI!Images /\ ServerTags \subseteq BI!Images /\ Pushes \subseteq BI!Images
  BY DEF BI!InstallAssumption, BI!Images
<1>3. BI!NoRecord = [tag |-> "", digest |-> "none"] /\ "" \notin ServerTags /\ "latest" \notin ServerTags
  BY DEF BI!NoRecord, BI!InstallAssumption
<1>0. /\ BI!NoRecord.tag = "" /\ BI!NoRecord.digest = "none" /\ "" \notin ServerTags \cup {"latest"}
      /\ BI!NoRecord \in [tag : ServerTags \cup {"latest", ""}, digest : BI!Images \cup {"none"}]
  BY <1>3
<1>4. ASSUME BI!SetInstallVersion PROVE InstallInv'
  <2>1. BI!BITypeOK'
    <3>1. /\ desired' \in ServerTags \cup {"latest"} /\ UNCHANGED <<family, updates, newest,
                        server, runnable, libraries, others, record, cut, step, asked, image, outcome>>
      BY <1>4 DEF BI!SetInstallVersion
    <3>2. record' \in [tag : ServerTags \cup {"latest", ""}, digest : BI!Images \cup {"none"}]
      BY <1>1, <3>1 DEF BI!BITypeOK
    <3> QED BY <1>1, <3>1, <3>2 DEF BI!BITypeOK
  <2>2. RecordTells'
    BY <1>1, <1>2, <1>3, <1>4 DEF BI!BITypeOK, RecordTells, Placed, BI!Whole, BI!SetInstallVersion
  <2>3. Placed'
    BY <1>1, <1>2, <1>3, <1>4 DEF BI!BITypeOK, RecordTells, Placed, BI!Whole, BI!SetInstallVersion
  <2>4. BI!InstalledWhole'
    BY <1>1, <1>2, <1>3, <1>4 DEF BI!BITypeOK, RecordTells, Placed, BI!Whole, BI!Works, BI!InstalledWhole, BI!SetInstallVersion
  <2> QED BY <2>1, <2>2, <2>3, <2>4 DEF InstallInv
<1>5. ASSUME BI!PushLatest PROVE InstallInv'
  <2>1. BI!BITypeOK'
    <3>1. /\ newest' \in Pushes /\ UNCHANGED <<family, updates, desired,
                        server, runnable, libraries, others, record, cut, step, asked, image, outcome>>
      BY <1>5 DEF BI!PushLatest
    <3>2. record' \in [tag : ServerTags \cup {"latest", ""}, digest : BI!Images \cup {"none"}]
      BY <1>1, <3>1 DEF BI!BITypeOK
    <3> QED BY <1>1, <3>1, <3>2 DEF BI!BITypeOK
  <2>2. RecordTells'
    BY <1>1, <1>2, <1>3, <1>5 DEF BI!BITypeOK, RecordTells, Placed, BI!Whole, BI!PushLatest
  <2>3. Placed'
    BY <1>1, <1>2, <1>3, <1>5 DEF BI!BITypeOK, RecordTells, Placed, BI!Whole, BI!PushLatest
  <2>4. BI!InstalledWhole'
    BY <1>1, <1>2, <1>3, <1>5 DEF BI!BITypeOK, RecordTells, Placed, BI!Whole, BI!Works, BI!InstalledWhole, BI!PushLatest
  <2> QED BY <2>1, <2>2, <2>3, <2>4 DEF InstallInv
<1>6. ASSUME BI!InstallLlamaCpp PROVE InstallInv'
  <2>1. BI!BITypeOK'
    BY <1>1, <1>2, <1>3, <1>6 DEF BI!BITypeOK, Placed, BI!InstallLlamaCpp, BI!Resolves, BI!Recorded
  <2>2. RecordTells'
    BY <1>1, <1>2, <1>3, <1>6 DEF BI!BITypeOK, RecordTells, Placed, BI!Whole, BI!InstallLlamaCpp, BI!Resolves, BI!Recorded
  <2>3. Placed'
    BY <1>1, <1>2, <1>3, <1>6 DEF BI!BITypeOK, RecordTells, Placed, BI!Whole, BI!InstallLlamaCpp, BI!Resolves, BI!Recorded
  <2>4. BI!InstalledWhole'
    <3> SUFFICES ASSUME step' = "idle", outcome' = "installed", updates'
                 PROVE  \E i \in BI!Images : BI!Works(i)'
      BY DEF BI!InstalledWhole
    <3>1. /\ step = "idle" /\ UNCHANGED <<server, runnable, libraries, others, cut, updates>>
          /\ family = "llamacpp" /\ BI!Recorded /\ desired # "latest"
      BY <1>6 DEF BI!InstallLlamaCpp, BI!Resolves
    <3>2. desired # "" /\ record.tag = desired /\ server # "none"
      BY <1>1, <1>3, <3>1 DEF BI!BITypeOK, BI!Recorded
    <3>3. record # BI!NoRecord
      BY <1>0, <3>2
    <3>4. BI!Works(record.digest) /\ record.digest \in BI!Images
      BY <1>1, <3>1, <3>2, <3>3 DEF RecordTells, BI!Works
    <3> QED BY <3>1, <3>4 DEF BI!Works
  <2> QED BY <2>1, <2>2, <2>3, <2>4 DEF InstallInv
<1>7. ASSUME BI!InstallPython PROVE InstallInv'
  <2>1. BI!BITypeOK'
    BY <1>1, <1>2, <1>3, <1>7 DEF BI!BITypeOK, Placed, BI!InstallPython, BI!Recorded
  <2>2. RecordTells'
    BY <1>1, <1>2, <1>3, <1>7 DEF BI!BITypeOK, RecordTells, Placed, BI!Whole, BI!InstallPython, BI!Recorded
  <2>3. Placed'
    <3>1. /\ step = "idle" /\ family = "python" /\ UNCHANGED <<family, server, others, record, cut>>
          /\ asked' = desired /\ image' = BI!Digest(desired)
          /\ \/ step' = "verify" /\ server # "none" /\ record.tag = desired
             \/ step' = "download"
      BY <1>7 DEF BI!InstallPython, BI!Recorded
    <3>2. image' \in BI!Images /\ (asked' \in ServerTags => image' = asked')
      BY <1>1, <1>2, <1>3, <3>1 DEF BI!BITypeOK
    <3>3. step' = "verify" => others = server \/ cut
      <4>1. step' = "verify" => record # BI!NoRecord
        BY <1>0, <1>1, <3>1 DEF BI!BITypeOK
      <4> QED BY <1>1, <3>1, <4>1 DEF RecordTells
    <3> QED BY <3>1, <3>2, <3>3 DEF Placed
  <2>4. BI!InstalledWhole'
    BY <1>1, <1>2, <1>3, <1>7 DEF BI!BITypeOK, RecordTells, Placed, BI!Whole, BI!Works, BI!InstalledWhole, BI!InstallPython, BI!Recorded
  <2> QED BY <2>1, <2>2, <2>3, <2>4 DEF InstallInv
<1>8. ASSUME BI!Resolve PROVE InstallInv'
  <2>1. BI!BITypeOK'
    BY <1>1, <1>2, <1>3, <1>8 DEF BI!BITypeOK, Placed, BI!Resolve
  <2>2. RecordTells'
    BY <1>1, <1>2, <1>3, <1>8 DEF BI!BITypeOK, RecordTells, Placed, BI!Whole, BI!Resolve
  <2>3. Placed'
    BY <1>1, <1>2, <1>3, <1>8 DEF BI!BITypeOK, RecordTells, Placed, BI!Whole, BI!Resolve
  <2>4. BI!InstalledWhole'
    <3> SUFFICES ASSUME step' = "idle" PROVE \E i \in BI!Images : BI!Works(i)'
      BY DEF BI!InstalledWhole
    <3>1. /\ UNCHANGED <<server, runnable, libraries, others, cut, family, asked>>
          /\ server # "none" /\ record.digest = image' /\ step = "resolve"
          /\ image' = BI!Digest(asked)
      BY <1>8 DEF BI!Resolve
    <3>2. image' \in BI!Images /\ family = "llamacpp"
      BY <1>1, <1>2, <3>1 DEF BI!BITypeOK, Placed
    <3>3. record # BI!NoRecord
      BY <1>0, <1>2, <3>1, <3>2
    <3>4. BI!Works(record.digest)
      BY <1>1, <3>1, <3>2, <3>3 DEF RecordTells, BI!Works
    <3> QED BY <3>1, <3>2, <3>4 DEF BI!Works
  <2> QED BY <2>1, <2>2, <2>3, <2>4 DEF InstallInv
<1>9. ASSUME BI!Download PROVE InstallInv'
  <2>1. BI!BITypeOK'
    BY <1>1, <1>2, <1>3, <1>9 DEF BI!BITypeOK, Placed, BI!Download
  <2>2. RecordTells'
    BY <1>1, <1>2, <1>3, <1>9 DEF BI!BITypeOK, RecordTells, Placed, BI!Whole, BI!Download
  <2>3. Placed'
    BY <1>1, <1>2, <1>3, <1>9 DEF BI!BITypeOK, RecordTells, Placed, BI!Whole, BI!Download
  <2>4. BI!InstalledWhole'
    BY <1>1, <1>2, <1>3, <1>9 DEF BI!BITypeOK, RecordTells, Placed, BI!Whole, BI!Works, BI!InstalledWhole, BI!Download
  <2> QED BY <2>1, <2>2, <2>3, <2>4 DEF InstallInv
<1>10. ASSUME BI!Unreachable PROVE InstallInv'
  <2>1. BI!BITypeOK'
    BY <1>1, <1>2, <1>3, <1>10 DEF BI!BITypeOK, Placed, BI!Unreachable, BI!Fails
  <2>2. RecordTells'
    BY <1>1, <1>2, <1>3, <1>10 DEF BI!BITypeOK, RecordTells, Placed, BI!Whole, BI!Unreachable
  <2>3. Placed'
    BY <1>1, <1>2, <1>3, <1>10 DEF BI!BITypeOK, RecordTells, Placed, BI!Whole, BI!Unreachable
  <2>4. BI!InstalledWhole'
    BY <1>1, <1>2, <1>3, <1>10 DEF BI!BITypeOK, RecordTells, Placed, BI!Whole, BI!Works, BI!InstalledWhole, BI!Unreachable, BI!Fails
  <2> QED BY <2>1, <2>2, <2>3, <2>4 DEF InstallInv
<1>11. ASSUME BI!Clear PROVE InstallInv'
  <2>1. BI!BITypeOK'
    <3>1. /\ step \in {"clear", "uninstall"}
          /\ server' \in {server, "none"} /\ libraries' \in {libraries, "none"}
          /\ others' \in {others, "none"} /\ cut' = cut
          /\ record' \in {record, BI!NoRecord} /\ runnable' \in BOOLEAN
          /\ runnable' => runnable /\ server' = server
          /\ UNCHANGED <<family, updates, newest, desired, step, asked, image, outcome>>
      BY <1>1, <1>11 DEF BI!BITypeOK, BI!Clear, BI!Entries, BI!RemoveEntry
    <3>2. record' \in [tag : ServerTags \cup {"latest", ""}, digest : BI!Images \cup {"none"}]
      BY <1>0, <1>1, <3>1 DEF BI!BITypeOK
    <3> QED BY <1>1, <3>1, <3>2 DEF BI!BITypeOK
  <2>2. RecordTells'
    BY <1>1, <1>2, <1>3, <1>11 DEF BI!BITypeOK, RecordTells, Placed, BI!Whole, BI!Clear, BI!Entries, BI!RemoveEntry, BI!Present
  <2>3. Placed'
    BY <1>1, <1>2, <1>3, <1>11 DEF BI!BITypeOK, RecordTells, Placed, BI!Whole, BI!Clear, BI!Entries, BI!RemoveEntry, BI!Present
  <2>4. BI!InstalledWhole'
    BY <1>1, <1>2, <1>3, <1>11 DEF BI!BITypeOK, RecordTells, Placed, BI!Whole, BI!Works, BI!InstalledWhole, BI!Clear, BI!Entries, BI!RemoveEntry, BI!Present
  <2> QED BY <2>1, <2>2, <2>3, <2>4 DEF InstallInv
<1>12. ASSUME BI!ClearEnds PROVE InstallInv'
  <2>1. BI!BITypeOK'
    BY <1>1, <1>2, <1>3, <1>12 DEF BI!BITypeOK, Placed, BI!ClearEnds, BI!Entries, BI!Present
  <2>2. RecordTells'
    BY <1>1, <1>2, <1>3, <1>12 DEF BI!BITypeOK, RecordTells, Placed, BI!Whole, BI!ClearEnds, BI!Entries, BI!Present
  <2>3. Placed'
    <3>1. /\ step = "clear" /\ step' = IF family = "llamacpp" THEN "clearLibraries" ELSE "server"
          /\ UNCHANGED <<family, server, runnable, libraries, record, image, asked>>
      BY <1>12 DEF BI!ClearEnds
    <3>2. /\ server = "none" /\ record = BI!NoRecord
          /\ family = "python" => libraries = "none"
      BY <1>12 DEF BI!ClearEnds, BI!Entries, BI!Present
    <3>3. family = "llamacpp" \/ family = "python"
      BY <1>1 DEF BI!BITypeOK
    <3> QED BY <1>1, <3>1, <3>2, <3>3 DEF Placed
  <2>4. BI!InstalledWhole'
    BY <1>1, <1>2, <1>3, <1>12 DEF BI!BITypeOK, RecordTells, Placed, BI!Whole, BI!Works, BI!InstalledWhole, BI!ClearEnds, BI!Entries, BI!Present
  <2> QED BY <2>1, <2>2, <2>3, <2>4 DEF InstallInv
<1>13. ASSUME BI!ClearLibraries PROVE InstallInv'
  <2>1. BI!BITypeOK'
    BY <1>1, <1>2, <1>3, <1>13 DEF BI!BITypeOK, Placed, BI!ClearLibraries
  <2>2. RecordTells'
    BY <1>1, <1>2, <1>3, <1>13 DEF BI!BITypeOK, RecordTells, Placed, BI!Whole, BI!ClearLibraries
  <2>3. Placed'
    BY <1>1, <1>2, <1>3, <1>13 DEF BI!BITypeOK, RecordTells, Placed, BI!Whole, BI!ClearLibraries
  <2>4. BI!InstalledWhole'
    BY <1>1, <1>2, <1>3, <1>13 DEF BI!BITypeOK, RecordTells, Placed, BI!Whole, BI!Works, BI!InstalledWhole, BI!ClearLibraries
  <2> QED BY <2>1, <2>2, <2>3, <2>4 DEF InstallInv
<1>14. ASSUME BI!MoveServer PROVE InstallInv'
  <2>1. BI!BITypeOK'
    BY <1>1, <1>2, <1>3, <1>14 DEF BI!BITypeOK, Placed, BI!MoveServer
  <2>2. RecordTells'
    BY <1>1, <1>2, <1>3, <1>14 DEF BI!BITypeOK, RecordTells, Placed, BI!Whole, BI!MoveServer
  <2>3. Placed'
    BY <1>1, <1>2, <1>3, <1>14 DEF BI!BITypeOK, RecordTells, Placed, BI!Whole, BI!MoveServer
  <2>4. BI!InstalledWhole'
    BY <1>1, <1>2, <1>3, <1>14 DEF BI!BITypeOK, RecordTells, Placed, BI!Whole, BI!Works, BI!InstalledWhole, BI!MoveServer
  <2> QED BY <2>1, <2>2, <2>3, <2>4 DEF InstallInv
<1>15. ASSUME BI!Chmod PROVE InstallInv'
  <2>1. BI!BITypeOK'
    BY <1>1, <1>2, <1>3, <1>15 DEF BI!BITypeOK, Placed, BI!Chmod
  <2>2. RecordTells'
    BY <1>1, <1>2, <1>3, <1>15 DEF BI!BITypeOK, RecordTells, Placed, BI!Whole, BI!Chmod
  <2>3. Placed'
    BY <1>1, <1>2, <1>3, <1>15 DEF BI!BITypeOK, RecordTells, Placed, BI!Whole, BI!Chmod
  <2>4. BI!InstalledWhole'
    BY <1>1, <1>2, <1>3, <1>15 DEF BI!BITypeOK, RecordTells, Placed, BI!Whole, BI!Works, BI!InstalledWhole, BI!Chmod
  <2> QED BY <2>1, <2>2, <2>3, <2>4 DEF InstallInv
<1>16. ASSUME BI!MoveLibraries PROVE InstallInv'
  <2>1. BI!BITypeOK'
    BY <1>1, <1>2, <1>3, <1>16 DEF BI!BITypeOK, Placed, BI!MoveLibraries
  <2>2. RecordTells'
    BY <1>1, <1>2, <1>3, <1>16 DEF BI!BITypeOK, RecordTells, Placed, BI!Whole, BI!MoveLibraries
  <2>3. Placed'
    BY <1>1, <1>2, <1>3, <1>16 DEF BI!BITypeOK, RecordTells, Placed, BI!Whole, BI!MoveLibraries
  <2>4. BI!InstalledWhole'
    BY <1>1, <1>2, <1>3, <1>16 DEF BI!BITypeOK, RecordTells, Placed, BI!Whole, BI!Works, BI!InstalledWhole, BI!MoveLibraries
  <2> QED BY <2>1, <2>2, <2>3, <2>4 DEF InstallInv
<1>17. ASSUME BI!WriteRecord PROVE InstallInv'
  <2>1. BI!BITypeOK'
    <3>1. /\ step = "record" /\ step' \in {"idle", "verify"} /\ outcome' \in {outcome, "installed"}
          /\ record' = [tag |-> asked, digest |-> image] \/ record' = record
          /\ UNCHANGED <<family, updates, newest, desired, asked, image, server, runnable, libraries, others, cut>>
      BY <1>17 DEF BI!WriteRecord
    <3>2. record' \in [tag : ServerTags \cup {"latest", ""}, digest : BI!Images \cup {"none"}]
      <4>1. asked \in ServerTags \cup {"latest", ""} /\ image \in BI!Images \cup {"none"}
        BY <1>1 DEF BI!BITypeOK
      <4>2. record \in [tag : ServerTags \cup {"latest", ""}, digest : BI!Images \cup {"none"}]
        BY <1>1 DEF BI!BITypeOK
      <4>3. [tag |-> asked, digest |-> image]
              \in [tag : ServerTags \cup {"latest", ""}, digest : BI!Images \cup {"none"}]
        BY <4>1
      <4> QED BY <3>1, <4>2, <4>3
    <3> QED BY <1>1, <3>1, <3>2 DEF BI!BITypeOK
  <2>2. RecordTells'
    <3>1. /\ step = "record" /\ (record' = [tag |-> asked, digest |-> image] \/ record' = record)
          /\ UNCHANGED <<family, server, runnable, libraries, others, cut>>
      BY <1>17 DEF BI!WriteRecord
    <3>2. image \in BI!Images /\ (asked \in ServerTags => image = asked) /\ BI!Whole(image)
      BY <1>1, <3>1 DEF Placed
    <3>3. CASE record' = [tag |-> asked, digest |-> image]
      <4>1. record'.tag = asked /\ record'.digest = image
        BY <3>3
      <4> HIDE <3>3
      <4> QED BY <3>1, <3>2, <4>1 DEF RecordTells, BI!Whole
    <3>4. CASE record' = record
      BY <1>1, <3>1, <3>4 DEF RecordTells
    <3> QED BY <3>1, <3>3, <3>4
  <2>3. Placed'
    BY <1>1, <1>2, <1>3, <1>17 DEF BI!BITypeOK, RecordTells, Placed, BI!Whole, BI!WriteRecord
  <2>4. BI!InstalledWhole'
    BY <1>1, <1>2, <1>3, <1>17 DEF BI!BITypeOK, RecordTells, Placed, BI!Whole, BI!Works, BI!InstalledWhole, BI!WriteRecord
  <2> QED BY <2>1, <2>2, <2>3, <2>4 DEF InstallInv
<1>18. ASSUME BI!StepFails PROVE InstallInv'
  <2>1. BI!BITypeOK'
    BY <1>1, <1>2, <1>3, <1>18 DEF BI!BITypeOK, Placed, BI!StepFails, BI!Fails
  <2>2. RecordTells'
    BY <1>1, <1>2, <1>3, <1>18 DEF BI!BITypeOK, RecordTells, Placed, BI!Whole, BI!StepFails
  <2>3. Placed'
    BY <1>1, <1>2, <1>3, <1>18 DEF BI!BITypeOK, RecordTells, Placed, BI!Whole, BI!StepFails
  <2>4. BI!InstalledWhole'
    BY <1>1, <1>2, <1>3, <1>18 DEF BI!BITypeOK, RecordTells, Placed, BI!Whole, BI!Works, BI!InstalledWhole, BI!StepFails, BI!Fails
  <2> QED BY <2>1, <2>2, <2>3, <2>4 DEF InstallInv
<1>19. ASSUME BI!Verify PROVE InstallInv'
  <2>1. BI!BITypeOK'
    BY <1>1, <1>2, <1>3, <1>19 DEF BI!BITypeOK, Placed, BI!Verify, BI!Verified
  <2>2. RecordTells'
    BY <1>1, <1>2, <1>3, <1>19 DEF BI!BITypeOK, RecordTells, Placed, BI!Whole, BI!Verify, BI!Verified
  <2>3. Placed'
    BY <1>1, <1>2, <1>3, <1>19 DEF BI!BITypeOK, RecordTells, Placed, BI!Whole, BI!Verify, BI!Verified
  <2>4. BI!InstalledWhole'
    BY <1>1, <1>2, <1>3, <1>19 DEF BI!BITypeOK, RecordTells, Placed, BI!Whole, BI!Works, BI!InstalledWhole, BI!Verify, BI!Verified
  <2> QED BY <2>1, <2>2, <2>3, <2>4 DEF InstallInv
<1>20. ASSUME BI!Uninstall PROVE InstallInv'
  <2>1. BI!BITypeOK'
    BY <1>1, <1>2, <1>3, <1>20 DEF BI!BITypeOK, Placed, BI!Uninstall
  <2>2. RecordTells'
    BY <1>1, <1>2, <1>3, <1>20 DEF BI!BITypeOK, RecordTells, Placed, BI!Whole, BI!Uninstall
  <2>3. Placed'
    BY <1>1, <1>2, <1>3, <1>20 DEF BI!BITypeOK, RecordTells, Placed, BI!Whole, BI!Uninstall
  <2>4. BI!InstalledWhole'
    BY <1>1, <1>2, <1>3, <1>20 DEF BI!BITypeOK, RecordTells, Placed, BI!Whole, BI!Works, BI!InstalledWhole, BI!Uninstall
  <2> QED BY <2>1, <2>2, <2>3, <2>4 DEF InstallInv
<1>21. ASSUME BI!Uninstalled PROVE InstallInv'
  <2>1. BI!BITypeOK'
    BY <1>1, <1>2, <1>3, <1>21 DEF BI!BITypeOK, Placed, BI!Uninstalled, BI!Entries, BI!Present
  <2>2. RecordTells'
    BY <1>1, <1>2, <1>3, <1>21 DEF BI!BITypeOK, RecordTells, Placed, BI!Whole, BI!Uninstalled, BI!Entries, BI!Present
  <2>3. Placed'
    BY <1>1, <1>2, <1>3, <1>21 DEF BI!BITypeOK, RecordTells, Placed, BI!Whole, BI!Uninstalled, BI!Entries, BI!Present
  <2>4. BI!InstalledWhole'
    BY <1>1, <1>2, <1>3, <1>21 DEF BI!BITypeOK, RecordTells, Placed, BI!Whole, BI!Works, BI!InstalledWhole, BI!Uninstalled, BI!Entries, BI!Present
  <2> QED BY <2>1, <2>2, <2>3, <2>4 DEF InstallInv
<1>22. ASSUME BI!Kill PROVE InstallInv'
  <2>1. BI!BITypeOK'
    BY <1>1, <1>2, <1>3, <1>22 DEF BI!BITypeOK, Placed, BI!Kill
  <2>2. RecordTells'
    BY <1>1, <1>2, <1>3, <1>22 DEF BI!BITypeOK, RecordTells, Placed, BI!Whole, BI!Kill
  <2>3. Placed'
    BY <1>1, <1>2, <1>3, <1>22 DEF BI!BITypeOK, RecordTells, Placed, BI!Whole, BI!Kill
  <2>4. BI!InstalledWhole'
    BY <1>1, <1>2, <1>3, <1>22 DEF BI!BITypeOK, RecordTells, Placed, BI!Whole, BI!Works, BI!InstalledWhole, BI!Kill
  <2> QED BY <2>1, <2>2, <2>3, <2>4 DEF InstallInv
<1> QED BY <1>4, <1>5, <1>6, <1>7, <1>8, <1>9, <1>10, <1>11, <1>12, <1>13, <1>14, <1>15, <1>16, <1>17, <1>18, <1>19, <1>20, <1>21, <1>22 DEF BI!BINext

(* Every step of an installation, or none, keeps the invariant. *)
LEMMA InstallMoves ==
  ASSUME BI!InstallAssumption, InstallInv, BI!BINext \/ UNCHANGED BI!biVars
  PROVE  InstallInv'
<1>1. CASE UNCHANGED BI!biVars
  <2>0. BI!BITypeOK /\ RecordTells /\ UNCHANGED <<family, updates, newest, desired, server, runnable,
                                               libraries, others, record, cut, step, asked, image, outcome>>
    BY <1>1 DEF BI!biVars, BI!biFiles, InstallInv
  <2>1. BI!BITypeOK'
    <3>1. record' \in [tag : ServerTags \cup {"latest", ""}, digest : BI!Images \cup {BI!NoImage}]
      BY <2>0 DEF BI!BITypeOK
    <3> QED BY <2>0, <3>1 DEF BI!BITypeOK
  <2>3. RecordTells'
    BY <2>0 DEF RecordTells, BI!Removing
  <2>2. BI!InstalledWhole' /\ Placed'
    BY <1>1 DEF BI!biVars, BI!biFiles, InstallInv, BI!InstalledWhole, Placed, BI!Whole, BI!Works, BI!Removing
  <2> QED BY <2>1, <2>2, <2>3 DEF InstallInv
<1> QED BY <1>1, InstallKeeps

-----------------------------------------------------------------------------
(***************************************************************************)
(* Running a backend.  A process is watched by the waiter of its run, and  *)
(* the waiter speaks only when the process has ended; what it says is read *)
(* then, so nothing is written after it.                                   *)
(***************************************************************************)
Outcomes == {"", "unable to start", "nil", "terminated"}

ProcessTypes ==
  /\ BP!BPTypeOK
  /\ told \in [BP!Ids -> Seq(Lines)]
  /\ result \in [BP!Ids -> [how : Outcomes, text : Seq(Lines)]]

(* What the waiter of a run has seen, by how far it is. *)
WaiterKnows(r) ==
  /\ waiter[r] # "waiting" => r \notin alive
  /\ waiter[r] \in {"read", "sent", "done"} => told[r] = BP!TailOf(written[r])

(* Earlier runs have returned, later ones have not begun. *)
RunsInTurn ==
  /\ \A r \in BP!Ids : r < run => waiter[r] \in {"none", "sent", "done"}
  /\ \A r \in BP!Ids : r > run => waiter[r] = "none"
  /\ life = "new" => waiter[run] = "none"
  /\ life \in {"running", "leaving"} => waiter[run] # "none"
  /\ life = "returned" => waiter[run] \in {"none", "sent", "done"}

ProcessInv ==
  /\ ProcessTypes /\ RunsInTurn
  /\ \A r \in BP!Ids : WaiterKnows(r)
  /\ \A r \in BP!Ids : result[r].how = "terminated" =>
       result[r].text = told[r] /\ waiter[r] \in {"sent", "done"}

(* The tail of a log has at most the lines that are kept. *)
LEMMA TailFits ==
  ASSUME KeptLines \in Nat, NEW s \in Seq(Lines)
  PROVE  BP!TailOf(s) \in Seq(Lines) /\ Len(BP!TailOf(s)) <= KeptLines
<1> DEFINE from == IF Len(s) > KeptLines THEN Len(s) - KeptLines + 1 ELSE 1
<1>1. Len(s) \in Nat /\ from \in Int /\ from >= 1
  OBVIOUS
<1>2. \A i \in from .. Len(s) : s[i] \in Lines
  BY <1>1, ElementOfSeq
<1>3. /\ SubSeq(s, from, Len(s)) \in Seq(Lines)
      /\ Len(SubSeq(s, from, Len(s))) = IF from <= Len(s) THEN Len(s) - from + 1 ELSE 0
  <2> HIDE DEF from
  <2> QED BY <1>1, <1>2, SubSeqProperties
<1> QED BY <1>1, <1>3 DEF BP!TailOf

(* What the run promises follows. *)
LEMMA ProcessSound ==
  ASSUME ProcessInv
  PROVE  BP!BPTypeOK /\ BP!OneProcess /\ BP!ErrorIsTail
<1>1. BP!BPTypeOK /\ RunsInTurn
  BY DEF ProcessInv, ProcessTypes
<1>2. \A r \in alive : r = run
  <2> SUFFICES ASSUME NEW r \in alive PROVE r = run
    OBVIOUS
  <2>1. r \in BP!Ids /\ waiter[r] = "waiting" /\ run \in BP!Ids
    BY <1>1 DEF BP!BPTypeOK
  <2>2. ~(r < run) /\ ~(r > run)
    BY <1>1, <2>1 DEF RunsInTurn
  <2>3. r \in Int /\ run \in Int
    BY <2>1 DEF BP!Ids
  <2> QED BY <2>2, <2>3
<1>3. BP!OneProcess
  <2>1. life = "returned" => run \notin alive
    BY <1>1 DEF BP!BPTypeOK, RunsInTurn
  <2> QED BY <1>2, <2>1 DEF BP!OneProcess
<1>4. BP!ErrorIsTail
  BY DEF ProcessInv, WaiterKnows, BP!ErrorIsTail
<1> QED BY <1>1, <1>3, <1>4

(* The first run has not begun to write. *)
LEMMA ProcessInit ==
  ASSUME BP!ProcessAssumption, BP!BPInit
  PROVE  ProcessInv
<1>1. 1 \in BP!Ids /\ KeptLines \in Nat
  BY DEF BP!Ids, BP!ProcessAssumption
<1>2. <<>> \in Seq(Lines) /\ Len(<<>>) = 0
  OBVIOUS
<1>3. /\ run = 1 /\ life = "new" /\ stopping = FALSE /\ alive = {} /\ socket = 0
      /\ waiter = [r \in BP!Ids |-> "none"] /\ written = [r \in BP!Ids |-> <<>>]
      /\ told = [r \in BP!Ids |-> <<>>]
      /\ result = [r \in BP!Ids |-> [how |-> "", text |-> <<>>]]
  BY DEF BP!BPInit, BP!Returned
<1>4. ProcessTypes
  <2>1. BP!BPTypeOK
    <3>1. \A r \in BP!Ids : waiter[r] = "none" /\ Len(told[r]) <= KeptLines
      <4>1. \A r \in BP!Ids : waiter[r] = "none" /\ told[r] = <<>>
        BY <1>3
      <4> QED BY <1>1, <1>2, <4>1
    <3>2. waiter \in [BP!Ids -> {"none", "waiting", "read", "sent", "done"}]
          /\ written \in [BP!Ids -> Seq(Lines)]
      BY <1>2, <1>3
    <3> QED BY <1>1, <1>3, <3>1, <3>2 DEF BP!BPTypeOK
  <2>2. result \in [BP!Ids -> [how : Outcomes, text : Seq(Lines)]]
    BY <1>2, <1>3 DEF Outcomes
  <2> QED BY <1>2, <1>3, <2>1, <2>2 DEF ProcessTypes
<1>5. RunsInTurn
  BY <1>1, <1>3 DEF RunsInTurn
<1>6. \A r \in BP!Ids : WaiterKnows(r) /\ result[r].how = ""
  BY <1>3 DEF WaiterKnows
<1> QED BY <1>4, <1>5, <1>6 DEF ProcessInv

(* One case per step of a run, its process and the goroutine that waits. *)
LEMMA ProcessKeeps ==
  ASSUME BP!ProcessAssumption, ProcessInv, BP!BPNext
  PROVE  ProcessInv'
<1> USE DEF BP!Heard, BP!Ended, BP!Removed, BP!MayReturn
<1> DEFINE Told(r) == result[r].how = "terminated" =>
                        result[r].text = told[r] /\ waiter[r] \in {"sent", "done"}
<1>1. /\ BP!BPTypeOK /\ told \in [BP!Ids -> Seq(Lines)]
      /\ result \in [BP!Ids -> [how : Outcomes, text : Seq(Lines)]]
  BY DEF ProcessInv, ProcessTypes
<1>2. RunsInTurn /\ \A r \in BP!Ids : WaiterKnows(r) /\ Told(r)
  BY DEF ProcessInv
<1>3. BP!Ids \subseteq Int /\ 0 \notin BP!Ids /\ KeptLines \in Nat /\ run \in BP!Ids
  BY <1>1 DEF BP!Ids, BP!ProcessAssumption, BP!BPTypeOK
<1> HIDE DEF Told
<1>4. ASSUME BP!Launch PROVE ProcessInv'
  <2>1. BP!BPTypeOK'
    BY <1>1, <1>2, <1>3, <1>4 DEF BP!BPTypeOK, RunsInTurn, BP!Launch
  <2>2. (/\ told \in [BP!Ids -> Seq(Lines)]
         /\ result \in [BP!Ids -> [how : Outcomes, text : Seq(Lines)]])'
    BY <1>1, <1>3, <1>4 DEF BP!BPTypeOK, BP!Returned, Outcomes, BP!Launch
  <2>3. RunsInTurn'
    BY <1>1, <1>2, <1>3, <1>4 DEF BP!BPTypeOK, RunsInTurn, WaiterKnows, BP!Launch
  <2>4. \A r \in BP!Ids : WaiterKnows(r)' /\ Told(r)'
    BY <1>1, <1>2, <1>3, <1>4 DEF BP!BPTypeOK, RunsInTurn, WaiterKnows, Told, BP!Returned, BP!Launch
  <2> QED BY <2>1, <2>2, <2>3, <2>4 DEF ProcessInv, ProcessTypes, Told, BP!Ids
<1>5. ASSUME BP!CannotLaunch PROVE ProcessInv'
  <2>1. BP!BPTypeOK'
    BY <1>1, <1>2, <1>3, <1>5 DEF BP!BPTypeOK, RunsInTurn, BP!CannotLaunch
  <2>2. (/\ told \in [BP!Ids -> Seq(Lines)]
         /\ result \in [BP!Ids -> [how : Outcomes, text : Seq(Lines)]])'
    <3> DEFINE returned == [how |-> "unable to start", text |-> <<>>]
    <3>1. returned \in [how : Outcomes, text : Seq(Lines)]
      BY DEF Outcomes
    <3>2. told' = told /\ result' = [result EXCEPT ![run] = returned]
      BY <1>5 DEF BP!CannotLaunch, BP!Returned
    <3> HIDE DEF returned
    <3> QED BY <1>1, <3>1, <3>2 DEF BP!Ids
  <2>3. RunsInTurn'
    BY <1>1, <1>2, <1>3, <1>5 DEF BP!BPTypeOK, RunsInTurn, WaiterKnows, BP!CannotLaunch
  <2>4. \A r \in BP!Ids : WaiterKnows(r)' /\ Told(r)'
    BY <1>1, <1>2, <1>3, <1>5 DEF BP!BPTypeOK, RunsInTurn, WaiterKnows, Told, BP!Returned, BP!CannotLaunch
  <2> QED BY <2>1, <2>2, <2>3, <2>4 DEF ProcessInv, ProcessTypes, Told, BP!Ids
<1>6. ASSUME BP!Cancel PROVE ProcessInv'
  <2>1. BP!BPTypeOK'
    BY <1>1, <1>2, <1>3, <1>6 DEF BP!BPTypeOK, RunsInTurn, BP!Cancel
  <2>2. (/\ told \in [BP!Ids -> Seq(Lines)]
         /\ result \in [BP!Ids -> [how : Outcomes, text : Seq(Lines)]])'
    BY <1>1, <1>3, <1>6 DEF BP!BPTypeOK, BP!Returned, Outcomes, BP!Cancel
  <2>3. RunsInTurn'
    BY <1>1, <1>2, <1>3, <1>6 DEF BP!BPTypeOK, RunsInTurn, WaiterKnows, BP!Cancel
  <2>4. \A r \in BP!Ids : WaiterKnows(r)' /\ Told(r)'
    BY <1>1, <1>2, <1>3, <1>6 DEF BP!BPTypeOK, RunsInTurn, WaiterKnows, Told, BP!Returned, BP!Cancel
  <2> QED BY <2>1, <2>2, <2>3, <2>4 DEF ProcessInv, ProcessTypes, Told, BP!Ids
<1>7. ASSUME BP!Leave PROVE ProcessInv'
  <2>1. BP!BPTypeOK'
    BY <1>1, <1>2, <1>3, <1>7 DEF BP!BPTypeOK, RunsInTurn, BP!Leave
  <2>2. (/\ told \in [BP!Ids -> Seq(Lines)]
         /\ result \in [BP!Ids -> [how : Outcomes, text : Seq(Lines)]])'
    <3> DEFINE returned == IF stopping THEN [how |-> "nil", text |-> <<>>]
                           ELSE [how |-> "terminated", text |-> told[run]]
    <3>1. [how |-> "nil", text |-> <<>>] \in [how : Outcomes, text : Seq(Lines)]
      BY DEF Outcomes
    <3>2. [how |-> "terminated", text |-> told[run]] \in [how : Outcomes, text : Seq(Lines)]
      BY <1>1, <1>3 DEF Outcomes
    <3>3. returned \in [how : Outcomes, text : Seq(Lines)]
      BY <3>1, <3>2
    <3>4. told' = told /\ result' = [result EXCEPT ![run] = returned]
      BY <1>7 DEF BP!Leave, BP!Returned
    <3> HIDE DEF returned
    <3> QED BY <1>1, <3>3, <3>4 DEF BP!Ids
  <2>3. RunsInTurn'
    BY <1>1, <1>2, <1>3, <1>7 DEF BP!BPTypeOK, RunsInTurn, WaiterKnows, BP!Leave
  <2>4. \A r \in BP!Ids : WaiterKnows(r)' /\ Told(r)'
    BY <1>1, <1>2, <1>3, <1>7 DEF BP!BPTypeOK, RunsInTurn, WaiterKnows, Told, BP!Returned, BP!Leave
  <2> QED BY <2>1, <2>2, <2>3, <2>4 DEF ProcessInv, ProcessTypes, Told, BP!Ids
<1>8. ASSUME BP!Return PROVE ProcessInv'
  <2>1. BP!BPTypeOK'
    BY <1>1, <1>2, <1>3, <1>8 DEF BP!BPTypeOK, RunsInTurn, BP!Return
  <2>2. (/\ told \in [BP!Ids -> Seq(Lines)]
         /\ result \in [BP!Ids -> [how : Outcomes, text : Seq(Lines)]])'
    BY <1>1, <1>3, <1>8 DEF BP!BPTypeOK, BP!Returned, Outcomes, BP!Return
  <2>3. RunsInTurn'
    BY <1>1, <1>2, <1>3, <1>8 DEF BP!BPTypeOK, RunsInTurn, WaiterKnows, BP!Return
  <2>4. \A r \in BP!Ids : WaiterKnows(r)' /\ Told(r)'
    BY <1>1, <1>2, <1>3, <1>8 DEF BP!BPTypeOK, RunsInTurn, WaiterKnows, Told, BP!Returned, BP!Return
  <2> QED BY <2>1, <2>2, <2>3, <2>4 DEF ProcessInv, ProcessTypes, Told, BP!Ids
<1>9. ASSUME BP!Reuse PROVE ProcessInv'
  <2>0. /\ life = "returned" /\ run' = run + 1 /\ run' \in BP!Ids /\ life' = "new" /\ stopping' = FALSE
        /\ UNCHANGED <<alive, socket, waiter, written, told, result>>
    BY <1>9, <1>3 DEF BP!Reuse, BP!Ids, BP!ProcessAssumption
  <2>1. BP!BPTypeOK'
    BY <1>1, <2>0 DEF BP!BPTypeOK, BP!Ids
  <2>2. (/\ told \in [BP!Ids -> Seq(Lines)]
         /\ result \in [BP!Ids -> [how : Outcomes, text : Seq(Lines)]])'
    BY <1>1, <1>3, <1>9 DEF BP!BPTypeOK, BP!Returned, Outcomes, BP!Reuse
  <2>3. RunsInTurn'
    <3>1. /\ \A r \in BP!Ids : r < run' => r < run \/ r = run
          /\ \A r \in BP!Ids : r > run' => r > run
          /\ run' > run
      BY <1>3, <2>0
    <3>2. /\ \A r \in BP!Ids : r < run' => waiter[r] \in {"none", "sent", "done"}
          /\ \A r \in BP!Ids : r > run' => waiter[r] = "none"
          /\ waiter[run'] = "none"
      BY <1>2, <2>0, <3>1 DEF RunsInTurn
    <3> QED BY <2>0, <3>2 DEF RunsInTurn, BP!Ids
  <2>4. \A r \in BP!Ids : WaiterKnows(r)' /\ Told(r)'
    BY <1>1, <1>2, <1>3, <1>9 DEF BP!BPTypeOK, RunsInTurn, WaiterKnows, Told, BP!Returned, BP!Reuse
  <2> QED BY <2>1, <2>2, <2>3, <2>4 DEF ProcessInv, ProcessTypes, Told, BP!Ids
<1>10. ASSUME NEW q \in BP!Ids, BP!Listen(q) PROVE ProcessInv'
  <2>1. BP!BPTypeOK'
    BY <1>1, <1>2, <1>3, <1>10 DEF BP!BPTypeOK, RunsInTurn, BP!Listen
  <2>2. (/\ told \in [BP!Ids -> Seq(Lines)]
         /\ result \in [BP!Ids -> [how : Outcomes, text : Seq(Lines)]])'
    BY <1>1, <1>3, <1>10 DEF BP!BPTypeOK, BP!Returned, Outcomes, BP!Listen
  <2>3. RunsInTurn'
    BY <1>1, <1>2, <1>3, <1>10 DEF BP!BPTypeOK, RunsInTurn, WaiterKnows, BP!Listen
  <2>4. \A r \in BP!Ids : WaiterKnows(r)' /\ Told(r)'
    BY <1>1, <1>2, <1>3, <1>10 DEF BP!BPTypeOK, RunsInTurn, WaiterKnows, Told, BP!Returned, BP!Listen
  <2> QED BY <2>1, <2>2, <2>3, <2>4 DEF ProcessInv, ProcessTypes, Told, BP!Ids
<1>11. ASSUME NEW q \in BP!Ids, BP!WriteLine(q) PROVE ProcessInv'
  <2>1. BP!BPTypeOK'
    BY <1>1, <1>2, <1>3, <1>11 DEF BP!BPTypeOK, RunsInTurn, BP!WriteLine
  <2>2. (/\ told \in [BP!Ids -> Seq(Lines)]
         /\ result \in [BP!Ids -> [how : Outcomes, text : Seq(Lines)]])'
    BY <1>1, <1>3, <1>11 DEF BP!BPTypeOK, BP!Returned, Outcomes, BP!WriteLine
  <2>3. RunsInTurn'
    BY <1>1, <1>2, <1>3, <1>11 DEF BP!BPTypeOK, RunsInTurn, WaiterKnows, BP!WriteLine
  <2>4. \A r \in BP!Ids : WaiterKnows(r)' /\ Told(r)'
    BY <1>1, <1>2, <1>3, <1>11 DEF BP!BPTypeOK, RunsInTurn, WaiterKnows, Told, BP!Returned, BP!WriteLine
  <2> QED BY <2>1, <2>2, <2>3, <2>4 DEF ProcessInv, ProcessTypes, Told, BP!Ids
<1>12. ASSUME NEW q \in BP!Ids, BP!Die(q) PROVE ProcessInv'
  <2>1. BP!BPTypeOK'
    BY <1>1, <1>2, <1>3, <1>12 DEF BP!BPTypeOK, RunsInTurn, BP!Die
  <2>2. (/\ told \in [BP!Ids -> Seq(Lines)]
         /\ result \in [BP!Ids -> [how : Outcomes, text : Seq(Lines)]])'
    BY <1>1, <1>3, <1>12 DEF BP!BPTypeOK, BP!Returned, Outcomes, BP!Die
  <2>3. RunsInTurn'
    BY <1>1, <1>2, <1>3, <1>12 DEF BP!BPTypeOK, RunsInTurn, WaiterKnows, BP!Die
  <2>4. \A r \in BP!Ids : WaiterKnows(r)' /\ Told(r)'
    BY <1>1, <1>2, <1>3, <1>12 DEF BP!BPTypeOK, RunsInTurn, WaiterKnows, Told, BP!Returned, BP!Die
  <2> QED BY <2>1, <2>2, <2>3, <2>4 DEF ProcessInv, ProcessTypes, Told, BP!Ids
<1>13. ASSUME NEW q \in BP!Ids, BP!ReadTail(q) PROVE ProcessInv'
  <2>0. /\ waiter[q] = "waiting" /\ q \notin alive
        /\ waiter' = [waiter EXCEPT ![q] = "read"]
        /\ told' = [told EXCEPT ![q] = BP!TailOf(written[q])]
        /\ UNCHANGED <<run, life, stopping, alive, socket, written, result>>
        /\ BP!TailOf(written[q]) \in Seq(Lines) /\ Len(BP!TailOf(written[q])) <= KeptLines
    <3>1. written[q] \in Seq(Lines)
      BY <1>1 DEF BP!BPTypeOK
    <3> QED BY <1>3, <1>13, <3>1, TailFits DEF BP!ReadTail
  <2>1. BP!BPTypeOK'
    <3>1. \A r \in BP!Ids : Len(told'[r]) <= KeptLines
      BY <1>1, <2>0 DEF BP!BPTypeOK
    <3> QED BY <1>1, <1>3, <2>0, <3>1 DEF BP!BPTypeOK, BP!Ids
  <2>2. (/\ told \in [BP!Ids -> Seq(Lines)]
         /\ result \in [BP!Ids -> [how : Outcomes, text : Seq(Lines)]])'
    BY <1>1, <2>0 DEF BP!Ids
  <2>3. RunsInTurn'
    BY <1>1, <1>2, <1>3, <1>13 DEF BP!BPTypeOK, RunsInTurn, WaiterKnows, BP!ReadTail
  <2>4. \A r \in BP!Ids : WaiterKnows(r)' /\ Told(r)'
    BY <1>1, <1>2, <1>3, <1>13 DEF BP!BPTypeOK, RunsInTurn, WaiterKnows, Told, BP!Returned, BP!ReadTail
  <2> QED BY <2>1, <2>2, <2>3, <2>4 DEF ProcessInv, ProcessTypes, Told, BP!Ids
<1>14. ASSUME NEW q \in BP!Ids, BP!SendError(q) PROVE ProcessInv'
  <2>1. BP!BPTypeOK'
    BY <1>1, <1>2, <1>3, <1>14 DEF BP!BPTypeOK, RunsInTurn, BP!SendError
  <2>2. (/\ told \in [BP!Ids -> Seq(Lines)]
         /\ result \in [BP!Ids -> [how : Outcomes, text : Seq(Lines)]])'
    BY <1>1, <1>3, <1>14 DEF BP!BPTypeOK, BP!Returned, Outcomes, BP!SendError
  <2>3. RunsInTurn'
    BY <1>1, <1>2, <1>3, <1>14 DEF BP!BPTypeOK, RunsInTurn, WaiterKnows, BP!SendError
  <2>4. \A r \in BP!Ids : WaiterKnows(r)' /\ Told(r)'
    BY <1>1, <1>2, <1>3, <1>14 DEF BP!BPTypeOK, RunsInTurn, WaiterKnows, Told, BP!Returned, BP!SendError
  <2> QED BY <2>1, <2>2, <2>3, <2>4 DEF ProcessInv, ProcessTypes, Told, BP!Ids
<1>15. ASSUME NEW q \in BP!Ids, BP!RemoveSocket(q) PROVE ProcessInv'
  <2>1. BP!BPTypeOK'
    BY <1>1, <1>2, <1>3, <1>15 DEF BP!BPTypeOK, RunsInTurn, BP!RemoveSocket
  <2>2. (/\ told \in [BP!Ids -> Seq(Lines)]
         /\ result \in [BP!Ids -> [how : Outcomes, text : Seq(Lines)]])'
    BY <1>1, <1>3, <1>15 DEF BP!BPTypeOK, BP!Returned, Outcomes, BP!RemoveSocket
  <2>3. RunsInTurn'
    BY <1>1, <1>2, <1>3, <1>15 DEF BP!BPTypeOK, RunsInTurn, WaiterKnows, BP!RemoveSocket
  <2>4. \A r \in BP!Ids : WaiterKnows(r)' /\ Told(r)'
    BY <1>1, <1>2, <1>3, <1>15 DEF BP!BPTypeOK, RunsInTurn, WaiterKnows, Told, BP!Returned, BP!RemoveSocket
  <2> QED BY <2>1, <2>2, <2>3, <2>4 DEF ProcessInv, ProcessTypes, Told, BP!Ids
<1> QED BY <1>4, <1>5, <1>6, <1>7, <1>8, <1>9, <1>10, <1>11, <1>12, <1>13, <1>14, <1>15 DEF BP!BPNext

(* Every step of a run, or none, keeps the invariant. *)
LEMMA ProcessMoves ==
  ASSUME BP!ProcessAssumption, ProcessInv, BP!BPNext \/ UNCHANGED BP!bpVars
  PROVE  ProcessInv'
<1>1. CASE UNCHANGED BP!bpVars
  <2>1. ProcessTypes'
    BY <1>1 DEF BP!bpVars, ProcessInv, ProcessTypes, BP!BPTypeOK, BP!Ids
  <2>2. RunsInTurn' /\ \A r \in BP!Ids : WaiterKnows(r)'
    BY <1>1 DEF BP!bpVars, ProcessInv, RunsInTurn, WaiterKnows, BP!Ids, BP!TailOf
  <2> QED BY <1>1, <2>1, <2>2 DEF BP!bpVars, ProcessInv, BP!Ids
<1> QED BY <1>1, ProcessKeeps

-----------------------------------------------------------------------------
(***************************************************************************)
(* The daemon.  Files are written in one order, each truncated first, so   *)
(* the generations on disk tell how far the last GenerateCertificates came *)
(* and whether what it replaced could be used.                             *)
(***************************************************************************)
Certificate == [gen : Nat, whole : BOOLEAN]
CertFiles == {"ca.crt", "ca.key", "server.crt", "server.key"}

(* How far the file has come whose first write is step n of the generation. *)
Progress(f, n) ==
  /\ steps <= n => files[f].gen < gen
  /\ steps = n + 1 => files[f].gen = gen /\ ~files[f].whole
  /\ steps > n + 1 => files[f].gen = gen /\ files[f].whole

(* What is on disk, whoever was killed. *)
DiskOK ==
  /\ files["server.key"].gen <= files["server.crt"].gen
  /\ files["server.crt"].gen <= files["ca.key"].gen
  /\ files["ca.key"].gen <= files["ca.crt"].gen
  /\ files["ca.crt"].gen = files["server.crt"].gen /\ files["ca.crt"].gen # 0 => files["ca.crt"].whole
  /\ files["ca.crt"].gen # files["server.crt"].gen => ~DM!Usable

DaemonTypes ==
  /\ DM!DMTypeOK
  /\ files \in [CertFiles -> Certificate]

DaemonInv ==
  /\ DaemonTypes /\ DiskOK
  /\ DM!StoppedInFull /\ DM!ClientsCanVerify /\ DM!FlagDecides
  /\ at = "wait" => listens = {}
  /\ at \in {"wiring", "listen", "tls", "generate", "load"} => "tls" \notin listens
  /\ at \in {"wiring", "listen", "tls"} => steps = 0
  /\ at = "generate" =>
       /\ Progress("ca.crt", 0) /\ Progress("ca.key", 2)
       /\ Progress("server.crt", 4) /\ Progress("server.key", 6)
       /\ steps <= 4 => ~DM!Usable
       /\ steps < 8
  /\ at = "load" =>
       \/ DM!Usable
       \/ /\ files["ca.crt"].gen = gen /\ files["ca.crt"].whole
          /\ files["server.crt"].gen = gen

(* The four files of the certificates. *)
LEMMA CertFileNames == DM!FileNames = CertFiles
<1>1. /\ DM!Written[1] = "ca.crt" /\ DM!Written[2] = "ca.key"
      /\ DM!Written[3] = "server.crt" /\ DM!Written[4] = "server.key"
  BY DEF DM!Written
<1>2. \A i \in 1 .. 4 : DM!Written[i] \in CertFiles
  <2> SUFFICES ASSUME NEW i \in 1 .. 4 PROVE DM!Written[i] \in CertFiles  OBVIOUS
  <2>1. i = 1 \/ i = 2 \/ i = 3 \/ i = 4
    OBVIOUS
  <2> QED BY <1>1, <2>1 DEF CertFiles
<1>3. \A f \in CertFiles : \E i \in 1 .. 4 : f = DM!Written[i]
  BY <1>1 DEF CertFiles
<1> QED BY <1>2, <1>3 DEF DM!FileNames

(* A pair that can be used is there in full, and has not expired. *)
LEMMA UsableIs ==
  DM!Usable <=> /\ \A f \in CertFiles : files[f].gen # 0
                /\ files["server.crt"].whole /\ files["server.crt"].gen \notin old
BY CertFileNames DEF DM!Usable

(* A first start finds no certificates. *)
LEMMA DaemonInit ==
  ASSUME MaxCrashes \in Nat, MaxGen \in Nat, DM!DMInit
  PROVE  DaemonInv
<1>1. files = [f \in CertFiles |-> [gen |-> 0, whole |-> FALSE]]
  BY CertFileNames DEF DM!DMInit
<1>2. \A f \in CertFiles : files[f].gen = 0 /\ files[f].whole \in BOOLEAN
  BY <1>1
<1>3. files \in [CertFiles -> Certificate]
  BY <1>1 DEF Certificate
<1>4. DM!DMTypeOK
  <2>0. gen = 0 /\ crashes = 0 /\ steps = 0
    BY DEF DM!DMInit
  <2>1. \A f \in DM!FileNames : files[f].gen \in 0 .. gen /\ files[f].whole \in BOOLEAN
    BY <1>2, <2>0, CertFileNames
  <2>2. gen \in 0 .. MaxGen /\ crashes \in 0 .. MaxCrashes /\ steps \in 0 .. 8
    BY <2>0
  <2> QED BY <2>1, <2>2 DEF DM!DMInit, DM!DMTypeOK, DM!Flags
<1>5. DiskOK
  BY <1>2 DEF DiskOK, CertFiles
<1> QED BY <1>3, <1>4, <1>5
        DEF DaemonInv, DaemonTypes, DM!DMInit, DM!StoppedInFull, DM!ClientsCanVerify, DM!FlagDecides

(* Certificates that nobody writes stay as they are on disk, though they may expire. *)
LEMMA DiskStays ==
  ASSUME DiskOK, UNCHANGED files, old \subseteq old'
  PROVE  DiskOK' /\ (DM!Usable' => DM!Usable) /\ (old' = old => (DM!Usable' <=> DM!Usable))
<1>1. DM!Usable' <=> /\ \A f \in CertFiles : files[f].gen # 0
                     /\ files["server.crt"].whole /\ files["server.crt"].gen \notin old'
  BY CertFileNames DEF DM!Usable
<1>2. DM!Usable' => DM!Usable
  BY <1>1, UsableIs
<1>3. old' = old => (DM!Usable' <=> DM!Usable)
  BY <1>1, UsableIs
<1> QED BY <1>2, <1>3 DEF DiskOK

(* The parts of the invariant that say nothing of the certificates on disk. *)
Places ==
  /\ at \in {"off", "wiring", "listen", "tls", "generate", "load", "schedule", "select",
              "close", "wait"}
  /\ (at # "off" => exit = "")
  /\ listens \subseteq DM!Servers /\ failed \subseteq DM!Servers
  /\ flag \in DM!Flags /\ env \subseteq {"port", "socket"}
  /\ scheduler \in {"none", "running", "stopped"}

Course ==
  /\ DM!StoppedInFull /\ DM!ClientsCanVerify /\ DM!FlagDecides
  /\ at = "wait" => listens = {}
  /\ at \in {"wiring", "listen", "tls", "generate", "load"} => "tls" \notin listens
  /\ at \in {"wiring", "listen", "tls"} => steps = 0

(* Steps that leave the certificates alone, except that loading them is apart. *)
RunStep ==
  \/ DM!Start \/ DM!Wire \/ DM!Listen \/ DM!CannotWrite
  \/ DM!StartScheduler \/ DM!StopScheduler \/ DM!Signal
  \/ \E s \in DM!Servers : DM!ServerFails(s)
  \/ DM!SelectError \/ DM!SelectDone \/ DM!Close \/ DM!Wait \/ DM!Kill

(* The steps that do not touch the certificates. *)
LEMMA RunKeeps ==
  ASSUME MaxCrashes \in Nat, MaxGen \in Nat, DaemonInv, RunStep
  PROVE  DaemonInv'
<1> DEFINE Stays == /\ at' = "generate" => at = "generate" /\ steps' = steps
                    /\ at' = "load" => at = "load"
           Kept == /\ Places' /\ Course' /\ Stays
                   /\ steps' \in 0 .. 8 /\ crashes' \in 0 .. MaxCrashes
<1> HIDE DEF Stays, Kept
<1> USE DEF DM!certVars, DM!runVars, DM!Goto, DM!Leave, DM!Servers, DM!Flags
<1>1. Places /\ Course /\ steps \in 0 .. 8 /\ crashes \in 0 .. MaxCrashes
  BY DEF DaemonInv, DaemonTypes, DM!DMTypeOK, Places, Course
<1>2. UNCHANGED <<gen, old, files>>
  BY DEF RunStep, DM!Start, DM!Wire, DM!Listen, DM!CannotWrite, DM!StartScheduler, DM!StopScheduler, DM!Signal, DM!ServerFails, DM!SelectError, DM!SelectDone, DM!Close,
         DM!Wait, DM!Kill
<1>3. ASSUME DM!Start PROVE Kept
  <2>1. Places'
    BY <1>1, <1>3 DEF Places, DM!Start
  <2>2. Course' /\ Stays
    BY <1>1, <1>2, <1>3 DEF Stays, Places, Course, DM!StoppedInFull, DM!ClientsCanVerify,
          DM!FlagDecides, DM!Start
  <2>3. steps' \in 0 .. 8 /\ crashes' \in 0 .. MaxCrashes
    <3>1. steps' = 0 /\ crashes' = crashes
      BY <1>3 DEF DM!Start
    <3> QED BY <1>1, <3>1
  <2> QED BY <2>1, <2>2, <2>3 DEF Kept
<1>4. ASSUME DM!Wire PROVE Kept
  <2>1. Places'
    <3>1. listens' = listens /\ failed' = failed /\ flag' = flag /\ env' = env /\ scheduler' = scheduler
      BY <1>4 DEF DM!Wire
    <3>2. \/ at' = "listen" /\ exit' = exit /\ at = "wiring"
          \/ at' = "off"
      BY <1>4 DEF DM!Wire
    <3> QED BY <1>1, <3>1, <3>2 DEF Places
  <2>2. Course' /\ Stays
    BY <1>1, <1>2, <1>4 DEF Stays, Places, Course, DM!StoppedInFull, DM!ClientsCanVerify,
          DM!FlagDecides, DM!Wire
  <2>3. steps' \in 0 .. 8 /\ crashes' \in 0 .. MaxCrashes
    BY <1>1, <1>4 DEF DM!Wire
  <2> QED BY <2>1, <2>2, <2>3 DEF Kept
<1>5. ASSUME DM!Listen PROVE Kept
  <2>0. /\ at = "listen" /\ UNCHANGED <<failed, flag, env, scheduler, signalled>>
        /\ UNCHANGED <<steps, crashes>>
        /\ \/ /\ at' = "tls" /\ exit' = exit
              /\ listens' = {IF "port" \in DM!ServeEnv THEN "tcp" ELSE "unix"}
           \/ at' = "off" /\ listens' = listens /\ exit' = "error"
    BY <1>5 DEF DM!Listen
  <2>1. Places'
    BY <1>1, <2>0 DEF Places
  <2>2. Course' /\ Stays
    <3>1. /\ flag = "socket" => "port" \notin DM!ServeEnv
          /\ flag = "port" => "port" \in DM!ServeEnv
      BY DEF DM!ServeEnv
    <3>2. /\ listens' = {"tcp"} \/ listens' = {"unix"} \/ (at' = "off" /\ exit' = "error")
          /\ at' = "tls" /\ flag = "socket" => listens' = {"unix"}
          /\ at' = "tls" /\ flag = "port" => listens' = {"tcp"}
      <4>1. \/ at' = "off" /\ exit' = "error"
            \/ at' = "tls" /\ IF "port" \in DM!ServeEnv THEN listens' = {"tcp"}
                                                       ELSE listens' = {"unix"}
        BY <2>0
      <4> QED BY <3>1, <4>1
    <3>3. (DM!StoppedInFull /\ DM!ClientsCanVerify /\ DM!FlagDecides)'
      BY <1>1, <2>0, <3>2 DEF Places, DM!StoppedInFull, DM!ClientsCanVerify, DM!FlagDecides
    <3> QED BY <1>1, <2>0, <3>2, <3>3 DEF Stays, Course
  <2>3. steps' \in 0 .. 8 /\ crashes' \in 0 .. MaxCrashes
    BY <1>1, <1>5 DEF DM!Listen, DM!ServeEnv
  <2> QED BY <2>1, <2>2, <2>3 DEF Kept
<1>6. ASSUME DM!CannotWrite PROVE Kept
  <2>1. Places'
    BY <1>1, <1>6 DEF Places, DM!CannotWrite
  <2>2. Course' /\ Stays
    BY <1>1, <1>2, <1>6 DEF Stays, Places, Course, DM!StoppedInFull, DM!ClientsCanVerify,
          DM!FlagDecides, DM!CannotWrite
  <2>3. steps' \in 0 .. 8 /\ crashes' \in 0 .. MaxCrashes
    BY <1>1, <1>6 DEF DM!CannotWrite
  <2> QED BY <2>1, <2>2, <2>3 DEF Kept
<1>7. ASSUME DM!StartScheduler PROVE Kept
  <2>1. Places'
    BY <1>1, <1>7 DEF Places, DM!StartScheduler
  <2>2. Course' /\ Stays
    BY <1>1, <1>2, <1>7 DEF Stays, Places, Course, DM!StoppedInFull, DM!ClientsCanVerify,
          DM!FlagDecides, DM!StartScheduler
  <2>3. steps' \in 0 .. 8 /\ crashes' \in 0 .. MaxCrashes
    BY <1>1, <1>7 DEF DM!StartScheduler
  <2> QED BY <2>1, <2>2, <2>3 DEF Kept
<1>9. ASSUME DM!StopScheduler PROVE Kept
  <2>1. Places'
    BY <1>1, <1>9 DEF Places, DM!StopScheduler
  <2>2. Course' /\ Stays
    BY <1>1, <1>2, <1>9 DEF Stays, Places, Course, DM!StoppedInFull, DM!ClientsCanVerify,
          DM!FlagDecides, DM!StopScheduler
  <2>3. steps' \in 0 .. 8 /\ crashes' \in 0 .. MaxCrashes
    BY <1>1, <1>9 DEF DM!StopScheduler
  <2> QED BY <2>1, <2>2, <2>3 DEF Kept
<1>10. ASSUME DM!Signal PROVE Kept
  <2>1. Places'
    BY <1>1, <1>10 DEF Places, DM!Signal
  <2>2. Course' /\ Stays
    BY <1>1, <1>2, <1>10 DEF Stays, Places, Course, DM!StoppedInFull, DM!ClientsCanVerify,
          DM!FlagDecides, DM!Signal
  <2>3. steps' \in 0 .. 8 /\ crashes' \in 0 .. MaxCrashes
    BY <1>1, <1>10 DEF DM!Signal
  <2> QED BY <2>1, <2>2, <2>3 DEF Kept
<1>11. ASSUME \E s \in DM!Servers : DM!ServerFails(s) PROVE Kept
  <2>1. Places'
    <3>1. PICK s \in DM!Servers : DM!ServerFails(s)
      BY <1>11
    <3>2. /\ UNCHANGED <<at, flag, env, exit, scheduler>>
          /\ listens' = listens \ {s} /\ failed' = failed \cup {s}
      BY <3>1 DEF DM!ServerFails
    <3> QED BY <1>1, <3>2 DEF Places
  <2>2. Course' /\ Stays
    BY <1>1, <1>2, <1>11 DEF Stays, Places, Course, DM!StoppedInFull, DM!ClientsCanVerify,
          DM!FlagDecides, DM!ServerFails
  <2>3. steps' \in 0 .. 8 /\ crashes' \in 0 .. MaxCrashes
    BY <1>1, <1>11 DEF DM!ServerFails
  <2> QED BY <2>1, <2>2, <2>3 DEF Kept
<1>12. ASSUME DM!SelectError PROVE Kept
  <2>1. Places'
    BY <1>1, <1>12 DEF Places, DM!SelectError
  <2>2. Course' /\ Stays
    BY <1>1, <1>2, <1>12 DEF Stays, Places, Course, DM!StoppedInFull, DM!ClientsCanVerify,
          DM!FlagDecides, DM!SelectError
  <2>3. steps' \in 0 .. 8 /\ crashes' \in 0 .. MaxCrashes
    BY <1>1, <1>12 DEF DM!SelectError
  <2> QED BY <2>1, <2>2, <2>3 DEF Kept
<1>13. ASSUME DM!SelectDone PROVE Kept
  <2>1. Places'
    BY <1>1, <1>13 DEF Places, DM!SelectDone
  <2>2. Course' /\ Stays
    BY <1>1, <1>2, <1>13 DEF Stays, Places, Course, DM!StoppedInFull, DM!ClientsCanVerify,
          DM!FlagDecides, DM!SelectDone
  <2>3. steps' \in 0 .. 8 /\ crashes' \in 0 .. MaxCrashes
    BY <1>1, <1>13 DEF DM!SelectDone
  <2> QED BY <2>1, <2>2, <2>3 DEF Kept
<1>14. ASSUME DM!Close PROVE Kept
  <2>1. Places'
    BY <1>1, <1>14 DEF Places, DM!Close
  <2>2. Course' /\ Stays
    BY <1>1, <1>2, <1>14 DEF Stays, Places, Course, DM!StoppedInFull, DM!ClientsCanVerify,
          DM!FlagDecides, DM!Close
  <2>3. steps' \in 0 .. 8 /\ crashes' \in 0 .. MaxCrashes
    BY <1>1, <1>14 DEF DM!Close
  <2> QED BY <2>1, <2>2, <2>3 DEF Kept
<1>15. ASSUME DM!Wait PROVE Kept
  <2>1. Places'
    BY <1>1, <1>15 DEF Places, DM!Wait, DM!SchedulerEnded
  <2>2. Course' /\ Stays
    BY <1>1, <1>2, <1>15 DEF Stays, Places, Course, DM!StoppedInFull, DM!ClientsCanVerify,
          DM!FlagDecides, DM!Wait, DM!SchedulerEnded
  <2>3. steps' \in 0 .. 8 /\ crashes' \in 0 .. MaxCrashes
    BY <1>1, <1>15 DEF DM!Wait, DM!SchedulerEnded
  <2> QED BY <2>1, <2>2, <2>3 DEF Kept
<1>16. ASSUME DM!Kill PROVE Kept
  <2>1. Places'
    BY <1>1, <1>16 DEF Places, DM!Kill
  <2>2. Course' /\ Stays
    BY <1>1, <1>2, <1>16 DEF Stays, Places, Course, DM!StoppedInFull, DM!ClientsCanVerify,
          DM!FlagDecides, DM!Kill
  <2>3. steps' \in 0 .. 8 /\ crashes' \in 0 .. MaxCrashes
    BY <1>1, <1>16 DEF DM!Kill
  <2> QED BY <2>1, <2>2, <2>3 DEF Kept
<1>17. Kept
  BY <1>3, <1>4, <1>5, <1>6, <1>7, <1>9, <1>10, <1>11, <1>12, <1>13, <1>14, <1>15, <1>16 DEF RunStep
<1>18. DaemonTypes'
  BY <1>2, <1>17 DEF Kept, DaemonInv, DaemonTypes, DM!DMTypeOK, Places, DM!FileNames, DM!Written
<1>19. DiskOK' /\ (DM!Usable' <=> DM!Usable)
  BY <1>2, DiskStays DEF DaemonInv
<1> QED BY <1>2, <1>17, <1>18, <1>19 DEF Kept, DaemonInv, Course, Progress, Stays

(* What is loaded is a pair that clients can verify, or the start fails. *)
LEMMA LoadKeeps ==
  ASSUME DaemonInv, DM!LoadTLSConfig
  PROVE  DaemonInv'
<1> USE DEF DM!certVars, DM!runVars, DM!Goto, DM!Leave, DM!Servers, DM!Flags
<1>1. Places /\ Course /\ steps \in 0 .. 8 /\ crashes \in 0 .. MaxCrashes
  BY DEF DaemonInv, DaemonTypes, DM!DMTypeOK, Places, Course
<1>2. /\ at = "load" /\ UNCHANGED <<steps, gen, old, files, crashes, failed, signalled, scheduler,
                                     flag, env>>
      /\ \/ DM!Pair /\ at' = "schedule" /\ exit' = exit /\ listens' = listens \cup {"tls"}
         \/ at' = "off" /\ exit' = "error" /\ listens' = listens
  BY DEF DM!LoadTLSConfig
<1>3. Places'
  BY <1>1, <1>2 DEF Places
<1>4. DM!Pair => files["ca.crt"].whole /\ files["ca.crt"].gen = files["server.crt"].gen
  <2>1. DiskOK /\ files \in [CertFiles -> Certificate]
    BY DEF DaemonInv, DaemonTypes
  <2>2. CASE DM!Usable
    <3> SUFFICES ASSUME DM!Pair
                 PROVE  files["ca.crt"].whole /\ files["ca.crt"].gen = files["server.crt"].gen
      OBVIOUS
    <3>1. files["server.crt"].gen # 0 /\ files["ca.crt"].gen = files["server.crt"].gen
      BY <2>1, <2>2, UsableIs DEF DiskOK, CertFiles
    <3> QED BY <2>1, <3>1 DEF DiskOK
  <2>3. CASE ~DM!Usable
    BY <1>2, <2>3 DEF DaemonInv
  <2> QED BY <2>2, <2>3
<1>5. Course'
  BY <1>1, <1>2, <1>4 DEF Places, Course, DM!StoppedInFull, DM!ClientsCanVerify, DM!FlagDecides
<1>6. DaemonTypes'
  BY <1>1, <1>2, <1>3 DEF DaemonInv, DaemonTypes, DM!DMTypeOK, Places, DM!FileNames, DM!Written
<1>7. DiskOK'
  BY <1>2, DiskStays DEF DaemonInv
<1> QED BY <1>2, <1>5, <1>6, <1>7 DEF DaemonInv, Course

(* Time only passes while the daemon is off. *)
LEMMA TimeKeeps ==
  ASSUME MaxCrashes \in Nat, MaxGen \in Nat, DaemonInv, DM!TimePasses
  PROVE  DaemonInv'
<1> USE DEF DM!runVars, DM!Servers, DM!Flags
<1>1. /\ at = "off" /\ gen # 0 /\ old' = old \cup {gen}
      /\ UNCHANGED <<at, listens, flag, env, exit, steps, gen, files, crashes, failed, signalled,
                     scheduler>>
  BY DEF DM!TimePasses
<1>2. DM!DMTypeOK /\ files \in [CertFiles -> Certificate] /\ DiskOK
  BY DEF DaemonInv, DaemonTypes
<1>3. DM!DMTypeOK'
  <2>1. gen \in 1 .. MaxGen
    BY <1>1, <1>2 DEF DM!DMTypeOK
  <2> QED BY <1>1, <1>2, <2>1 DEF DM!DMTypeOK, DM!FileNames, DM!Written
<1>4. DiskOK'
  BY <1>1, <1>2, DiskStays
<1> QED BY <1>1, <1>2, <1>3, <1>4
        DEF DaemonInv, DaemonTypes, DM!StoppedInFull, DM!ClientsCanVerify, DM!FlagDecides

(* A pair that cannot be used is replaced by the next generation. *)
LEMMA EnsureKeeps ==
  ASSUME MaxCrashes \in Nat, MaxGen \in Nat, DaemonInv, DM!EnsureCertificates
  PROVE  DaemonInv'
<1> USE DEF DM!runVars, DM!Servers, DM!Flags, DM!Goto
<1>1. /\ at = "tls"
      /\ UNCHANGED <<listens, flag, env, exit, steps, old, files, crashes, failed, signalled,
                     scheduler>>
      /\ \/ at' = "schedule" /\ gen' = gen
         \/ at' = "load" /\ gen' = gen /\ DM!Usable
         \/ at' = "generate" /\ gen' = gen + 1 /\ gen < MaxGen /\ ~DM!Usable
  BY DEF DM!EnsureCertificates
<1>2. DM!DMTypeOK /\ files \in [CertFiles -> Certificate] /\ DiskOK /\ Course
  BY DEF DaemonInv, DaemonTypes, Course
<1>3. gen' \in gen .. MaxGen /\ gen \in Nat /\ gen' \in Nat
  <2>1. gen \in 0 .. MaxGen
    BY <1>2 DEF DM!DMTypeOK
  <2>2. gen' = gen \/ (gen' = gen + 1 /\ gen < MaxGen)
    BY <1>1
  <2> QED BY <2>1, <2>2
<1>4. \A f \in CertFiles : files[f].gen \in 0 .. gen /\ files[f].whole \in BOOLEAN
  BY <1>2, CertFileNames DEF DM!DMTypeOK
<1>5. DM!DMTypeOK'
  <2>1. \A f \in CertFiles : files'[f].gen \in 0 .. gen' /\ files'[f].whole \in BOOLEAN
    BY <1>1, <1>3, <1>4
  <2>2. gen' \in 0 .. MaxGen
    BY <1>3
  <2>3. DM!FileNames' = CertFiles
    BY CertFileNames DEF DM!FileNames, DM!Written
  <2> QED BY <1>1, <1>2, <2>1, <2>2, <2>3 DEF DM!DMTypeOK
<1>6. DiskOK' /\ (DM!Usable' <=> DM!Usable)
  BY <1>1, <1>2, DiskStays
<1>7. at' = "generate" => /\ (Progress("ca.crt", 0) /\ Progress("ca.key", 2))'
                          /\ (Progress("server.crt", 4) /\ Progress("server.key", 6))'
                          /\ steps' = 0 /\ ~DM!Usable'
  <2> SUFFICES ASSUME at' = "generate"
               PROVE  /\ (Progress("ca.crt", 0) /\ Progress("ca.key", 2))'
                      /\ (Progress("server.crt", 4) /\ Progress("server.key", 6))'
                      /\ steps' = 0 /\ ~DM!Usable'
    OBVIOUS
  <2>1. gen' = gen + 1 /\ steps' = 0 /\ ~DM!Usable'
    BY <1>1, <1>2, <1>6 DEF Course
  <2>2. \A f \in CertFiles : files'[f].gen < gen'
    BY <1>1, <1>3, <1>4, <2>1
  <2> QED BY <2>1, <2>2 DEF Progress, CertFiles
<1>8. Course'
  BY <1>1, <1>2 DEF Course, DM!StoppedInFull, DM!ClientsCanVerify, DM!FlagDecides
<1> QED BY <1>1, <1>2, <1>5, <1>6, <1>7, <1>8 DEF DaemonInv, DaemonTypes, Course
(* The next write: at an even step a file is truncated, at an odd one it is
   written in full. *)
LEMMA WriteKeeps ==
  ASSUME MaxCrashes \in Nat, MaxGen \in Nat, DaemonInv, DM!WriteCertificate
  PROVE  DaemonInv'
<1> USE DEF DM!runVars, DM!Servers, DM!Flags, DM!Goto
<1> DEFINE file == DM!Written[steps \div 2 + 1]
           put == [gen |-> gen, whole |-> steps % 2 = 1]
<1>1. /\ at = "generate" /\ steps < 8 /\ steps' = steps + 1
      /\ files' = [files EXCEPT ![file] = put]
      /\ UNCHANGED <<listens, flag, env, exit, gen, old, crashes, failed, signalled, scheduler>>
      /\ at' = IF steps' = 8 THEN "load" ELSE "generate"
  BY DEF DM!WriteCertificate, DM!WriteOrder
<1>2. DM!DMTypeOK /\ files \in [CertFiles -> Certificate] /\ DiskOK /\ Course
  BY DEF DaemonInv, DaemonTypes, Course
<1>3. /\ Progress("ca.crt", 0) /\ Progress("ca.key", 2)
      /\ Progress("server.crt", 4) /\ Progress("server.key", 6)
      /\ steps <= 4 => ~DM!Usable
  BY <1>1 DEF DaemonInv
<1>4. gen \in 0 .. MaxGen /\ steps \in 0 .. 7 /\ gen \in Nat
  <2>1. gen \in 0 .. MaxGen /\ steps \in 0 .. 8
    BY <1>2 DEF DM!DMTypeOK
  <2> QED BY <1>1, <2>1
<1>5. /\ \/ steps \in {0, 1} /\ file = "ca.crt"
         \/ steps \in {2, 3} /\ file = "ca.key"
         \/ steps \in {4, 5} /\ file = "server.crt"
         \/ steps \in {6, 7} /\ file = "server.key"
      /\ put.gen = gen /\ (put.whole <=> steps % 2 = 1) /\ put \in Certificate
  <2>1. \/ steps \in {0, 1} /\ steps \div 2 = 0
        \/ steps \in {2, 3} /\ steps \div 2 = 1
        \/ steps \in {4, 5} /\ steps \div 2 = 2
        \/ steps \in {6, 7} /\ steps \div 2 = 3
    BY <1>4
  <2>2. /\ DM!Written[1] = "ca.crt" /\ DM!Written[2] = "ca.key"
        /\ DM!Written[3] = "server.crt" /\ DM!Written[4] = "server.key"
    BY DEF DM!Written
  <2>3. put \in Certificate
    <3>1. (steps % 2 = 1) \in BOOLEAN
      OBVIOUS
    <3> QED BY <1>4, <3>1 DEF Certificate
  <2>4. put.gen = gen /\ (put.whole <=> steps % 2 = 1)
    OBVIOUS
  <2>5. steps \div 2 + 1 \in 1 .. 4
    BY <1>4
  <2> HIDE DEF put
  <2> QED BY <2>1, <2>2, <2>3, <2>4, <2>5
<1>6. /\ file \in CertFiles /\ files' \in [CertFiles -> Certificate] /\ files'[file] = put
      /\ \A f \in CertFiles \ {file} : files'[f] = files[f]
  BY <1>1, <1>2, <1>5 DEF CertFiles
<1>7. \A f \in CertFiles : files[f].gen \in 0 .. gen /\ files[f].whole \in BOOLEAN
  BY <1>2, CertFileNames DEF DM!DMTypeOK
<1> HIDE DEF file, put
<1>8. DM!DMTypeOK'
  <2>1. \A f \in CertFiles : files'[f].gen \in 0 .. gen' /\ files'[f].whole \in BOOLEAN
    <3>1. \A f \in CertFiles \ {file} : files'[f].gen \in 0 .. gen' /\ files'[f].whole \in BOOLEAN
      BY <1>1, <1>6, <1>7
    <3>2. files'[file].gen \in 0 .. gen' /\ files'[file].whole \in BOOLEAN
      BY <1>1, <1>4, <1>5, <1>6 DEF Certificate
    <3> QED BY <3>1, <3>2
  <2>2. steps' \in 0 .. 8 /\ gen' \in 0 .. MaxGen
    BY <1>1, <1>4
  <2>3. DM!FileNames' = CertFiles
    BY CertFileNames DEF DM!FileNames, DM!Written
  <2> QED BY <1>1, <1>2, <2>1, <2>2, <2>3 DEF DM!DMTypeOK
<1>9. /\ Progress("ca.crt", 0)' /\ Progress("ca.key", 2)'
      /\ Progress("server.crt", 4)' /\ Progress("server.key", 6)'
  <2>1. CASE steps \in {0, 1}
    BY <1>1, <1>3, <1>4, <1>5, <1>6, <2>1 DEF Progress, CertFiles
  <2>2. CASE steps \in {2, 3}
    BY <1>1, <1>3, <1>4, <1>5, <1>6, <2>2 DEF Progress, CertFiles
  <2>3. CASE steps \in {4, 5}
    BY <1>1, <1>3, <1>4, <1>5, <1>6, <2>3 DEF Progress, CertFiles
  <2>4. CASE steps \in {6, 7}
    BY <1>1, <1>3, <1>4, <1>5, <1>6, <2>4 DEF Progress, CertFiles
  <2> QED BY <1>4, <2>1, <2>2, <2>3, <2>4
<1>10. /\ files'["server.key"].gen <= files'["server.crt"].gen
       /\ files'["server.crt"].gen <= files'["ca.key"].gen
       /\ files'["ca.key"].gen <= files'["ca.crt"].gen
  <2>1. \A f \in CertFiles : files[f].gen <= gen /\ files[f].gen \in Nat
    BY <1>4, <1>7
  <2>2. CASE steps \in {0, 1}
    BY <1>2, <1>5, <1>6, <2>1, <2>2 DEF DiskOK, CertFiles
  <2>3. CASE steps \in {2, 3}
    BY <1>2, <1>3, <1>4, <1>5, <1>6, <2>1, <2>3 DEF DiskOK, CertFiles, Progress
  <2>4. CASE steps \in {4, 5}
    BY <1>2, <1>3, <1>4, <1>5, <1>6, <2>1, <2>4 DEF DiskOK, CertFiles, Progress
  <2>5. CASE steps \in {6, 7}
    BY <1>2, <1>3, <1>4, <1>5, <1>6, <2>1, <2>5 DEF DiskOK, CertFiles, Progress
  <2> QED BY <1>4, <2>2, <2>3, <2>4, <2>5
(* A pair that could not be used before the authority was replaced still cannot:
   were a file of the authority missing, so would be the server's. *)
<1>11. steps' <= 4 => ~DM!Usable'
  <2> SUFFICES ASSUME steps' <= 4, DM!Usable' PROVE FALSE
    OBVIOUS
  <2>1. steps \in 0 .. 3 /\ ~DM!Usable /\ file \in {"ca.crt", "ca.key"}
    BY <1>1, <1>3, <1>4, <1>5
  <2>2. files'["server.crt"] = files["server.crt"] /\ files'["server.key"] = files["server.key"]
    BY <1>6, <2>1 DEF CertFiles
  <2>3. DM!FileNames' = CertFiles
    BY CertFileNames DEF DM!FileNames, DM!Written
  <2>4. /\ files["server.key"].gen # 0 /\ files["server.crt"].gen # 0
        /\ files["server.crt"].whole /\ files["server.crt"].gen \notin old
    BY <1>1, <2>2, <2>3 DEF DM!Usable, CertFiles
  <2>5. files["ca.crt"].gen # 0 /\ files["ca.key"].gen # 0
    BY <1>2, <1>7, <2>4 DEF DiskOK, CertFiles
  <2> QED BY <2>1, <2>4, <2>5, UsableIs DEF CertFiles
<1>12. DiskOK'
  <2>1. CASE steps' <= 4
    <3>1. files'["server.crt"].gen < gen' /\ (files'["ca.crt"].gen = gen')
      BY <1>1, <1>4, <1>5, <1>6, <1>9, <2>1 DEF Progress, Certificate
    <3> QED BY <1>4, <1>1, <1>10, <1>11, <2>1, <3>1 DEF DiskOK
  <2>2. CASE steps' > 4
    <3>1. files'["server.crt"].gen = gen' /\ files'["ca.crt"].gen = gen' /\ files'["ca.crt"].whole
      BY <1>1, <1>4, <1>9, <2>2 DEF Progress
    <3> QED BY <1>10, <3>1 DEF DiskOK
  <2> QED BY <1>1, <1>4, <2>1, <2>2
<1>13. at' = "load" => /\ files'["ca.crt"].gen = gen' /\ files'["ca.crt"].whole
                       /\ files'["server.crt"].gen = gen'
  BY <1>1, <1>4, <1>9 DEF Progress
<1>14. Course' /\ (at' = "generate" => steps' < 8)
  BY <1>1, <1>2, <1>4 DEF Course, DM!StoppedInFull, DM!ClientsCanVerify, DM!FlagDecides
<1> QED BY <1>1, <1>6, <1>8, <1>9, <1>11, <1>12, <1>13, <1>14 DEF DaemonInv, DaemonTypes, Course

(* Every step of the daemon, or none, keeps the invariant. *)
LEMMA DaemonMoves ==
  ASSUME DM!DaemonAssumption, DaemonInv, DM!DMNext \/ UNCHANGED DM!dmVars
  PROVE  DaemonInv'
<1>1. MaxCrashes \in Nat /\ MaxGen \in Nat
  BY DEF DM!DaemonAssumption
<1>2. CASE DM!DMNext
  BY <1>1, <1>2, RunKeeps, LoadKeeps, TimeKeeps, EnsureKeeps, WriteKeeps DEF DM!DMNext, RunStep
<1>3. CASE UNCHANGED DM!dmVars
  <2>1. DaemonTypes' /\ DiskOK' /\ (DM!Usable' <=> DM!Usable)
    BY <1>3 DEF DM!dmVars, DaemonInv, DaemonTypes, DM!DMTypeOK, DM!FileNames, DM!Written, DiskOK, DM!Usable
  <2> QED BY <1>3, <2>1 DEF DM!dmVars, DaemonInv, DM!StoppedInFull, DM!ClientsCanVerify,
         DM!FlagDecides, Progress
<1> QED BY <1>2, <1>3

-----------------------------------------------------------------------------
(***************************************************************************)
(* Requests to the scheduler: the runners that are started and leased are  *)
(* those of the requests that start and lease them.                        *)
(***************************************************************************)
RequestFields ==
  {"kind", "name", "cli", "status", "out", "setting", "backend", "selected", "key", "todo",
   "rest", "pc"}
Using == {"loading", "leased", "streaming"}
BackendChosen(m) == IF m = RQ!Untagged THEN RQ!LlamaCpp ELSE RQ!BackendFor(m)

RequestOK(r) ==
  /\ DOMAIN r = RequestFields /\ r.name \in Names /\ r.key \in RQ!Keys
  /\ r.backend \in RQ!Engines /\ r.selected \in RQ!TheModels \cup {RQ!Untagged}
  /\ r.pc # "idle"
  /\ r.pc \in {"wait", "resolve", "set", "load"} \cup Using => r.backend = BackendChosen(r.selected)
  /\ r.pc \in {"set", "load"} \cup Using => r.key[1] = r.backend
RequestsOK ==
  DOMAIN request = Users /\ \A c \in Users : request[c] = RQ!NoRequest \/ RequestOK(request[c])

EngineOK(e) ==
  /\ DOMAIN e = {"state", "config", "crossed"}
  /\ e.state \in {"none", "starting", "ready"} /\ e.crossed \in BOOLEAN
EnginesOK ==
  /\ DOMAIN engine = RQ!Keys /\ DOMAIN config = RQ!Keys
  /\ \A k \in RQ!Keys : EngineOK(engine[k])

Loading(c, k) == request[c].pc = "loading" /\ request[c].key = k
Leasing(c, k) == request[c].pc \in {"leased", "streaming"} /\ request[c].key = k
(* A runner is being started while one request starts it, and ready while it
   is leased. *)
StartedByOne ==
  /\ \A k \in RQ!Keys : engine[k].state = "starting" <=> \E c \in Users : Loading(c, k)
  /\ \A k \in RQ!Keys, c \in Users, d \in Users : Loading(c, k) /\ Loading(d, k) => c = d
LeasedReady == \A k \in RQ!Keys, c \in Users : Leasing(c, k) => engine[k].state = "ready"
(* The configuration is that accepted last, from the start on. *)
ConfiguredLast ==
  \A k \in RQ!Keys : engine[k].state # "none" /\ ~engine[k].crossed => engine[k].config = config[k]

Tagging ==
  tagged \in [Names -> RQ!TheModels \cup {RQ!Untagged}] /\ installed \subseteq RQ!Engines
RequestsInv == Tagging /\ RequestsOK /\ EnginesOK /\ StartedByOne /\ LeasedReady /\ ConfiguredLast

-----------------------------------------------------------------------------
LEMMA RequestsInit == ASSUME RQ!RequestsAssumption, RQ!ReqInit PROVE RequestsInv
<1>1. Tagging
  BY DEF RQ!RequestsAssumption, RQ!ReqInit, Tagging
<1>2. RequestsOK
  BY DEF RQ!ReqInit, RequestsOK
<1>3. EnginesOK
  BY DEF RQ!ReqInit, EnginesOK, EngineOK, RQ!NoEngine
<1>4. \A c \in Users : request[c].pc = "idle"
  BY DEF RQ!ReqInit, RQ!NoRequest
<1>5. \A k \in RQ!Keys : engine[k].state = "none"
  BY DEF RQ!ReqInit, RQ!NoEngine
<1> QED BY <1>1, <1>2, <1>3, <1>4, <1>5
        DEF RequestsInv, StartedByOne, LeasedReady, ConfiguredLast, Loading, Leasing

(* One request changes. *)
Changes(c) ==
  /\ DOMAIN request' = Users /\ \A d \in Users \ {c} : request'[d] = request[d]
  /\ RequestOK(request'[c])
LEMMA ChangesOK ==
  ASSUME RequestsOK, NEW c \in Users, Changes(c)
  PROVE  RequestsOK'
BY DEF RequestsOK, Changes

(* What the runners are does not change with a request that used none and uses none, *)
LEMMA Elsewhere ==
  ASSUME RequestsInv, NEW c \in Users, Changes(c), UNCHANGED <<engine, config>>,
         request[c].pc \notin Using, request'[c].pc \notin Using
  PROVE  EnginesOK' /\ StartedByOne' /\ LeasedReady' /\ ConfiguredLast'
<1>1. \A d \in Users, k \in RQ!Keys :
        (Loading(d, k)' <=> Loading(d, k)) /\ (Leasing(d, k)' <=> Leasing(d, k))
  BY DEF Changes, Loading, Leasing, Using
<1> QED BY <1>1 DEF RequestsInv, EnginesOK, StartedByOne, LeasedReady, ConfiguredLast

(* nor when a lease goes on or ends. *)
LEMMA LeaseMoves ==
  ASSUME RequestsInv, NEW c \in Users, Changes(c), UNCHANGED <<engine, config>>,
         request[c].pc \in {"leased", "streaming"}, request'[c].pc \in {"streaming", "done"},
         request'[c].key = request[c].key
  PROVE  EnginesOK' /\ StartedByOne' /\ LeasedReady' /\ ConfiguredLast'
<1>1. \A d \in Users, k \in RQ!Keys :
        (Loading(d, k)' <=> Loading(d, k)) /\ (Leasing(d, k)' => Leasing(d, k))
  BY DEF Changes, Loading, Leasing
<1> QED BY <1>1 DEF RequestsInv, EnginesOK, StartedByOne, LeasedReady, ConfiguredLast

(* Unused runners go, those being started are marked, the rest stays. *)
Cleared(k) ==
  \/ engine'[k] = engine[k] /\ config'[k] = config[k]
  \/ engine'[k] = RQ!NoEngine /\ RQ!Unused(k)
  \/ engine[k].state = "starting" /\ engine'[k] = [engine[k] EXCEPT !.crossed = TRUE]
  \/ engine'[k] = engine[k] /\ engine[k].state = "none"
LEMMA ClearedMoves ==
  ASSUME RequestsInv, NEW c \in Users, Changes(c),
         request[c].pc \notin Using, request'[c].pc \notin Using,
         DOMAIN engine' = RQ!Keys, DOMAIN config' = RQ!Keys, \A k \in RQ!Keys : Cleared(k)
  PROVE  EnginesOK' /\ StartedByOne' /\ LeasedReady' /\ ConfiguredLast'
<1>1. \A d \in Users, k \in RQ!Keys :
        (Loading(d, k)' <=> Loading(d, k)) /\ (Leasing(d, k)' <=> Leasing(d, k))
  BY DEF Changes, Loading, Leasing, Using
<1>2. \A k \in RQ!Keys : RQ!Unused(k) =>
        engine[k].state = "ready" /\ \A d \in Users : ~Leasing(d, k)
  BY DEF RQ!Unused, RQ!Holders, RQ!IsReady, Leasing
<1>3. \A k \in RQ!Keys :
        /\ EngineOK(engine'[k])
        /\ engine'[k].state = "starting" <=> engine[k].state = "starting"
        /\ engine[k].state = "ready" => engine'[k].state = "ready" \/ RQ!Unused(k)
        /\ \/ engine'[k].state = "none" \/ engine'[k].crossed
           \/ engine'[k] = engine[k] /\ config'[k] = config[k]
  <2> SUFFICES ASSUME NEW k \in RQ!Keys
               PROVE  /\ EngineOK(engine'[k])
                      /\ engine'[k].state = "starting" <=> engine[k].state = "starting"
                      /\ engine[k].state = "ready" => engine'[k].state = "ready" \/ RQ!Unused(k)
                      /\ \/ engine'[k].state = "none" \/ engine'[k].crossed
                         \/ engine'[k] = engine[k] /\ config'[k] = config[k]
    OBVIOUS
  <2>1. Cleared(k) /\ EngineOK(engine[k])
    BY DEF RequestsInv, EnginesOK
  <2>2. CASE engine'[k] = engine[k] /\ config'[k] = config[k]
    BY <2>1, <2>2
  <2>3. CASE engine'[k] = RQ!NoEngine /\ RQ!Unused(k)
    BY <1>2, <2>3 DEF EngineOK, RQ!NoEngine
  <2>4. CASE engine[k].state = "starting" /\ engine'[k] = [engine[k] EXCEPT !.crossed = TRUE]
    BY <2>1, <2>4 DEF EngineOK
  <2>5. CASE engine'[k] = engine[k] /\ engine[k].state = "none"
    BY <2>1, <2>5
  <2> QED BY <2>1, <2>2, <2>3, <2>4, <2>5 DEF Cleared
<1>4. EnginesOK'
  BY <1>3 DEF EnginesOK
<1>5. StartedByOne'
  BY <1>1, <1>3 DEF RequestsInv, StartedByOne
<1>6. LeasedReady'
  BY <1>1, <1>2, <1>3 DEF RequestsInv, LeasedReady
<1>7. ConfiguredLast'
  BY <1>3 DEF RequestsInv, ConfiguredLast
<1> QED BY <1>4, <1>5, <1>6, <1>7

(* A runner is leased, *)
LEMMA LeaseBegins ==
  ASSUME RequestsInv, NEW c \in Users, Changes(c), UNCHANGED <<engine, config>>,
         request[c].pc \notin Using, request'[c].pc = "leased",
         request[c].key \in RQ!Keys, request'[c].key = request[c].key,
         engine[request[c].key].state = "ready"
  PROVE  EnginesOK' /\ StartedByOne' /\ LeasedReady' /\ ConfiguredLast'
<1>1. \A d \in Users, k \in RQ!Keys :
        /\ Loading(d, k)' <=> Loading(d, k)
        /\ Leasing(d, k)' <=> Leasing(d, k) \/ (d = c /\ k = request[c].key)
  BY DEF Changes, Loading, Leasing, Using
<1> QED BY <1>1 DEF RequestsInv, EnginesOK, StartedByOne, LeasedReady, ConfiguredLast

(* started, *)
Starting(e, x) ==
  EngineOK(e) /\ e.state = "starting" /\ e.config = x /\ ~e.crossed
LEMMA StartBegins ==
  ASSUME RequestsInv, NEW c \in Users, Changes(c), UNCHANGED config,
         request[c].pc \notin Using, request'[c].pc = "loading",
         request[c].key \in RQ!Keys, request'[c].key = request[c].key,
         engine[request[c].key].state = "none",
         NEW e, Starting(e, config[request[c].key]),
         engine' = [engine EXCEPT ![request[c].key] = e]
  PROVE  EnginesOK' /\ StartedByOne' /\ LeasedReady' /\ ConfiguredLast'
<1> DEFINE key == request[c].key
<1>1. \A d \in Users, k \in RQ!Keys :
        /\ Leasing(d, k)' <=> Leasing(d, k)
        /\ Loading(d, k)' <=> Loading(d, k) \/ (d = c /\ k = key)
  BY DEF Changes, Loading, Leasing, Using
<1>2. /\ DOMAIN engine' = RQ!Keys
      /\ Starting(engine'[key], config[key])
      /\ \A k \in RQ!Keys \ {key} : engine'[k] = engine[k]
  BY DEF RequestsInv, EnginesOK
<1>3. key \in RQ!Keys /\ engine[key].state = "none"
  OBVIOUS
<1> HIDE DEF key
<1>4. EnginesOK'
  BY <1>2, <1>3 DEF RequestsInv, EnginesOK, Starting
<1>5. StartedByOne'
  BY <1>1, <1>2, <1>3 DEF RequestsInv, StartedByOne, Starting
<1>6. LeasedReady'
  BY <1>1, <1>2, <1>3 DEF RequestsInv, LeasedReady
<1>7. ConfiguredLast'
  BY <1>2, <1>3 DEF RequestsInv, ConfiguredLast, Starting
<1> QED BY <1>4, <1>5, <1>6, <1>7

LEMMA NoEngineOK == EngineOK(RQ!NoEngine) /\ RQ!NoEngine.state = "none"
BY DEF EngineOK, RQ!NoEngine

(* and the start ends, with a lease or without a runner. *)
LEMMA StartEnds ==
  ASSUME RequestsInv, NEW c \in Users, Changes(c), UNCHANGED config,
         request[c].pc = "loading", request[c].key \in RQ!Keys,
         \/ /\ request'[c].pc = "leased" /\ request'[c].key = request[c].key
            /\ engine' = [engine EXCEPT ![request[c].key].state = "ready"]
         \/ /\ request'[c].pc = "done"
            /\ engine' = [engine EXCEPT ![request[c].key] = RQ!NoEngine]
  PROVE  EnginesOK' /\ StartedByOne' /\ LeasedReady' /\ ConfiguredLast'
<1> DEFINE key == request[c].key
           kept == request'[c].pc = "leased" /\ request'[c].key = key
<1>1. \A d \in Users, k \in RQ!Keys :
        /\ Loading(d, k)' <=> Loading(d, k) /\ d # c
        /\ Leasing(d, k)' <=> Leasing(d, k) \/ (d = c /\ k = key /\ kept)
  BY DEF Changes, Loading, Leasing
<1>2. /\ DOMAIN engine' = RQ!Keys
      /\ \A k \in RQ!Keys \ {key} : engine'[k] = engine[k]
      /\ kept => engine'[key] = [engine[key] EXCEPT !.state = "ready"]
      /\ ~kept => engine'[key] = RQ!NoEngine
  BY DEF RequestsInv, EnginesOK
<1>3. key \in RQ!Keys /\ Loading(c, key)
  BY DEF Loading
<1> HIDE DEF key, kept
<1>4. /\ engine[key].state = "starting" /\ EngineOK(engine[key])
      /\ \A d \in Users : ~Leasing(d, key)
      /\ \A d \in Users : Loading(d, key) => d = c
      /\ \A k \in RQ!Keys : Loading(c, k) => k = key
  BY <1>3 DEF RequestsInv, EnginesOK, StartedByOne, LeasedReady, Loading
<1>5. /\ EngineOK(engine'[key]) /\ engine'[key].state = (IF kept THEN "ready" ELSE "none")
      /\ kept => engine'[key].config = engine[key].config /\ engine'[key].crossed = engine[key].crossed
  <2>1. CASE kept
    <3>1. engine'[key] = [engine[key] EXCEPT !.state = "ready"]
      BY <1>2, <2>1
    <3>2. EngineOK(engine[key])
      BY <1>4
    <3> QED BY <2>1, <3>1, <3>2 DEF EngineOK
  <2>2. CASE ~kept
    <3>1. engine'[key] = RQ!NoEngine
      BY <1>2, <2>2
    <3> QED BY <2>2, <3>1, NoEngineOK
  <2> QED BY <2>1, <2>2
<1>6. EnginesOK'
  BY <1>2, <1>5 DEF RequestsInv, EnginesOK
<1>7. StartedByOne'
  BY <1>1, <1>2, <1>3, <1>4, <1>5 DEF RequestsInv, StartedByOne
<1>8. LeasedReady'
  BY <1>1, <1>2, <1>3, <1>4, <1>5 DEF RequestsInv, LeasedReady
<1>9. ConfiguredLast'
  BY <1>2, <1>4, <1>5 DEF RequestsInv, ConfiguredLast
<1> QED BY <1>6, <1>7, <1>8, <1>9

-----------------------------------------------------------------------------
(* What each action does to the request it is about. *)
LEMMA RequestField ==
  ASSUME RequestsOK, NEW c \in Users, request[c].pc # "idle" PROVE RequestOK(request[c])
BY DEF RequestsOK, RQ!NoRequest

LEMMA ChangesTo ==
  ASSUME RequestsOK, NEW c \in Users, NEW r, RequestOK(r), request' = [request EXCEPT ![c] = r]
  PROVE  Changes(c) /\ request'[c] = r
BY DEF RequestsOK, Changes

(* A response only tells, and ends the request. *)
LEMMA Responded ==
  ASSUME NEW r, RequestOK(r), NEW status, NEW text
  PROVE  RequestOK(RQ!Respond(r, status, text)) /\ RQ!Respond(r, status, text).pc = "done"
<1> DEFINE s == RQ!Respond(r, status, text)
<1>1. /\ DOMAIN s = DOMAIN r /\ s.name = r.name /\ s.key = r.key /\ s.backend = r.backend
      /\ s.selected = r.selected /\ s.pc = "done"
  BY DEF RQ!Respond, RequestOK, RequestFields
<1> HIDE DEF s
<1>2. RequestOK(s)
  BY <1>1 DEF RequestOK, Using
<1> QED BY <1>1, <1>2 DEF s

LEMMA Refused ==
  ASSUME RequestsOK, NEW c \in Users, request[c].pc # "idle", NEW status, RQ!Refuse(c, status)
  PROVE  Changes(c) /\ request'[c].pc = "done"
<1> DEFINE r == RQ!Respond(request[c], status, IF request[c].kind = "chat" THEN "" ELSE "error")
<1>1. request' = [request EXCEPT ![c] = r]
  BY DEF RQ!Refuse, RequestsOK
<1>2. RequestOK(r) /\ r.pc = "done"
  BY RequestField, Responded
<1> HIDE DEF r
<1> QED BY <1>1, <1>2, ChangesTo

LEMMA ArriveMoves ==
  ASSUME RequestsInv, NEW c \in Users, NEW kind \in Kinds, NEW n \in Names, NEW cli \in BOOLEAN,
         RQ!Arrive(c, kind, n, cli)
  PROVE  RequestsInv'
<1> DEFINE r == [kind |-> kind, name |-> n, cli |-> cli, status |-> 0, out |-> <<>>,
        setting |-> kind \in {"chat", "configure"}, backend |-> RQ!LlamaCpp, selected |-> RQ!Untagged,
        key |-> <<RQ!LlamaCpp, n>>, todo |-> <<>>, rest |-> <<>>,
        pc |-> IF kind \in {"unload", "delete", "install", "uninstall"} THEN kind ELSE "select"]
<1>1. request' = [request EXCEPT ![c] = r] /\ request[c] = RQ!NoRequest
  BY DEF RQ!Arrive
<1>2. <<RQ!LlamaCpp, n>> \in RQ!Keys /\ RQ!LlamaCpp \in RQ!Engines
  BY DEF RQ!Keys, RQ!Engines
<1>3. r.pc \in {"unload", "delete", "install", "uninstall", "select"}
  OBVIOUS
<1>4. RequestOK(r)
  BY <1>2, <1>3 DEF RequestOK, RequestFields, Using
<1> HIDE DEF r
<1>5. Changes(c) /\ request'[c].pc \notin Using /\ request[c].pc \notin Using
  <2>1. RequestsOK
    BY DEF RequestsInv
  <2>2. Changes(c) /\ request'[c] = r
    BY <1>1, <1>4, <2>1, ChangesTo
  <2> QED BY <1>1, <1>3, <2>2 DEF RQ!NoRequest, Using
<1>6. UNCHANGED <<tagged, installed, engine, config>>
  BY DEF RQ!Arrive
<1> QED BY <1>5, <1>6, ChangesOK, Elsewhere DEF RequestsInv, Tagging

LEMMA SelectBackendMoves ==
  ASSUME RQ!RequestsAssumption, RequestsInv, NEW c \in Users, RQ!SelectBackend(c)
  PROVE  RequestsInv'
<1> DEFINE m == tagged[request[c].name]
           r == [request[c] EXCEPT !.backend = BackendChosen(m), !.selected = m,
                                   !.pc = IF request[c].setting THEN "resolve" ELSE "wait"]
<1>1. request[c].pc = "select" /\ UNCHANGED <<tagged, installed, engine, config>>
  BY DEF RQ!SelectBackend
<1>2. RequestOK(request[c])
  BY <1>1, RequestField DEF RequestsInv
<1>3. RQ!Refuse(c, 404) \/ request' = [request EXCEPT ![c] = r]
  BY DEF RQ!SelectBackend, BackendChosen, RequestsInv, RequestsOK
<1>4. m \in RQ!TheModels \cup {RQ!Untagged}
  BY <1>2 DEF RequestsInv, Tagging, RequestOK
<1>5. /\ DOMAIN r = RequestFields /\ r.name = request[c].name /\ r.key = request[c].key
      /\ r.backend = BackendChosen(m) /\ r.selected = m /\ r.pc \in {"resolve", "wait"}
  BY <1>2 DEF RequestOK, RequestFields
<1>6. BackendChosen(m) \in RQ!Engines
  BY DEF BackendChosen, RQ!BackendFor, RQ!Engines
<1> HIDE DEF m, r
<1>7. RequestOK(r)
  BY <1>2, <1>4, <1>5, <1>6 DEF RequestOK, Using
<1>8. Changes(c) /\ request'[c].pc \notin Using /\ request[c].pc \notin Using
  BY <1>1, <1>3, <1>5, <1>7, ChangesTo, Refused DEF RequestsInv, Using
<1> QED BY <1>1, <1>8, ChangesOK, Elsewhere DEF RequestsInv, Tagging

LEMMA AwaitInstalledMoves ==
  ASSUME RequestsInv, NEW c \in Users, RQ!AwaitInstalled(c)
  PROVE  RequestsInv'
<1> DEFINE before == request[c]
           says == before.cli /\ before.backend \in DeferredOnes \ installed
           telling == IF says THEN [before EXCEPT !.status = IF @ = 0 THEN 200 ELSE @, !.out = Append(@, "installing")] ELSE before
<1>1. request[c].pc = "wait" /\ UNCHANGED <<tagged, engine, config>>
  BY DEF RQ!AwaitInstalled
<1>2. RequestOK(before)
  BY <1>1, RequestField DEF RequestsInv
<1>3. /\ DOMAIN telling = DOMAIN before /\ telling.name = before.name /\ telling.key = before.key
      /\ telling.backend = before.backend /\ telling.selected = before.selected /\ telling.pc = "wait"
  BY <1>1, <1>2 DEF RequestOK, RequestFields
<1>4. \/ installed' = installed \cup {before.backend} /\ request' = [request EXCEPT ![c] = [telling EXCEPT !.pc = "resolve"]]
      \/ /\ request' = [request EXCEPT ![c] = RQ!Respond(telling, 503, IF before.kind = "chat" THEN "" ELSE "error")]
         /\ UNCHANGED installed
  BY DEF RQ!AwaitInstalled
<1> HIDE DEF telling
<1>5. RequestOK(telling)
  BY <1>1, <1>2, <1>3 DEF RequestOK
<1>6. RequestOK([telling EXCEPT !.pc = "resolve"]) /\ [telling EXCEPT !.pc = "resolve"].pc = "resolve"
  BY <1>3, <1>5 DEF RequestOK, RequestFields, Using
<1>7. Changes(c) /\ request'[c].pc \in {"resolve", "done"}
  <2>1. RequestsOK
    BY DEF RequestsInv
  <2>2. CASE request' = [request EXCEPT ![c] = [telling EXCEPT !.pc = "resolve"]]
    BY <1>6, <2>1, <2>2, ChangesTo
  <2> DEFINE text == IF before.kind = "chat" THEN "" ELSE "error"
  <2>3. CASE request' = [request EXCEPT ![c] = RQ!Respond(telling, 503, text)]
    <3> HIDE DEF text
    <3>1. RequestOK(RQ!Respond(telling, 503, text)) /\ RQ!Respond(telling, 503, text).pc = "done"
      BY <1>5, Responded
    <3>2. Changes(c) /\ request'[c] = RQ!Respond(telling, 503, text)
      BY <2>1, <2>3, <3>1, ChangesTo
    <3> QED BY <3>1, <3>2
  <2> QED BY <1>4, <2>2, <2>3
<1>8. installed' \subseteq RQ!Engines
  BY <1>2, <1>4 DEF RequestsInv, Tagging, RequestOK
<1> QED BY <1>1, <1>7, <1>8, ChangesOK, Elsewhere DEF RequestsInv, Tagging, Using

LEMMA ResolveIDMoves ==
  ASSUME RequestsInv, NEW c \in Users, RQ!ResolveID(c)
  PROVE  RequestsInv'
<1> DEFINE m == tagged[request[c].name]
           key == <<request[c].backend, IF m = RQ!Untagged THEN request[c].name ELSE m>>
           r == [request[c] EXCEPT !.key = key, !.pc = IF request[c].setting THEN "set" ELSE "load"]
<1>1. request[c].pc = "resolve" /\ UNCHANGED <<tagged, installed, engine, config>>
  BY DEF RQ!ResolveID
<1>2. RequestOK(request[c])
  BY <1>1, RequestField DEF RequestsInv
<1>3. request' = [request EXCEPT ![c] = r]
  BY DEF RQ!ResolveID, RequestsInv, RequestsOK
<1>4. m \in RQ!TheModels \cup {RQ!Untagged}
  BY <1>2 DEF RequestsInv, Tagging, RequestOK
<1>5. key \in RQ!Keys /\ key[1] = request[c].backend
  BY <1>2, <1>4 DEF RequestOK, RQ!Keys
<1> HIDE DEF key
<1>6. /\ DOMAIN r = RequestFields /\ r.name = request[c].name /\ r.key = key
      /\ r.backend = request[c].backend /\ r.selected = request[c].selected /\ r.pc \in {"set", "load"}
  BY <1>2 DEF RequestOK, RequestFields
<1> HIDE DEF m, r
<1>7. RequestOK(r)
  BY <1>1, <1>2, <1>5, <1>6 DEF RequestOK, Using
<1>8. Changes(c) /\ request'[c].pc \notin Using /\ request[c].pc \notin Using
  BY <1>1, <1>3, <1>6, <1>7, ChangesTo DEF RequestsInv, Using
<1> QED BY <1>1, <1>8, ChangesOK, Elsewhere DEF RequestsInv, Tagging

LEMMA SetRunnerConfigMoves ==
  ASSUME RequestsInv, NEW c \in Users, RQ!SetRunnerConfig(c)
  PROVE  RequestsInv'
<1> DEFINE key == request[c].key
           go == [request[c] EXCEPT !.pc = "select", !.setting = FALSE]
           bg == [go EXCEPT !.kind = "preload", !.status = 202]
<1>1. request[c].pc = "set" /\ UNCHANGED <<tagged, installed>>
  BY DEF RQ!SetRunnerConfig
<1>2. RequestOK(request[c])
  BY <1>1, RequestField DEF RequestsInv
<1>3. key \in RQ!Keys
  BY <1>2 DEF RequestOK
<1>4. \/ request' = [request EXCEPT ![c] = go]
      \/ request' = [request EXCEPT ![c] = bg]
      \/ request' = [request EXCEPT ![c] = RQ!Respond(request[c], 409, "error")]
  BY DEF RQ!SetRunnerConfig, RequestsInv, RequestsOK
<1>5. \/ /\ RQ!Accepts(key)
         /\ config' = [config EXCEPT ![key] = c] /\ engine' = [engine EXCEPT ![key] = RQ!Reconfigured(key)]
      \/ UNCHANGED <<config, engine>>
  BY DEF RQ!SetRunnerConfig
<1>6. /\ DOMAIN go = RequestFields /\ go.name = request[c].name /\ go.key = request[c].key
      /\ go.backend = request[c].backend /\ go.selected = request[c].selected /\ go.pc = "select"
  BY <1>2 DEF RequestOK, RequestFields
<1> HIDE DEF go
<1>7. /\ DOMAIN bg = RequestFields /\ bg.name = request[c].name /\ bg.key = request[c].key
      /\ bg.backend = request[c].backend /\ bg.selected = request[c].selected /\ bg.pc = "select"
  BY <1>6 DEF RequestFields
<1> HIDE DEF bg
<1>8. RequestOK(go) /\ RequestOK(bg)
  BY <1>2, <1>6, <1>7 DEF RequestOK, Using
<1>9. Changes(c) /\ request'[c].pc \in {"select", "done"}
  <2>1. RequestsOK
    BY DEF RequestsInv
  <2>2. CASE request' = [request EXCEPT ![c] = go]
    BY <1>6, <1>8, <2>1, <2>2, ChangesTo
  <2>3. CASE request' = [request EXCEPT ![c] = bg]
    BY <1>7, <1>8, <2>1, <2>3, ChangesTo
  <2>4. CASE request' = [request EXCEPT ![c] = RQ!Respond(request[c], 409, "error")]
    <3>1. RequestOK(RQ!Respond(request[c], 409, "error")) /\ RQ!Respond(request[c], 409, "error").pc = "done"
      BY <1>2, Responded
    <3>2. Changes(c) /\ request'[c] = RQ!Respond(request[c], 409, "error")
      BY <2>1, <2>4, <3>1, ChangesTo
    <3> QED BY <3>1, <3>2
  <2> QED BY <1>4, <2>2, <2>3, <2>4
<1>10. /\ DOMAIN engine' = RQ!Keys /\ DOMAIN config' = RQ!Keys
       /\ \A k \in RQ!Keys : Cleared(k)
  <2>1. DOMAIN engine = RQ!Keys /\ DOMAIN config = RQ!Keys /\ EngineOK(engine[key])
    BY <1>3 DEF RequestsInv, EnginesOK
  <2>2. CASE UNCHANGED <<config, engine>>
    BY <2>1, <2>2 DEF Cleared
  <2>3. CASE /\ RQ!Accepts(key) /\ config' = [config EXCEPT ![key] = c]
             /\ engine' = [engine EXCEPT ![key] = RQ!Reconfigured(key)]
    <3> HIDE DEF key
    <3>1. /\ DOMAIN engine' = RQ!Keys /\ DOMAIN config' = RQ!Keys
          /\ engine'[key] = RQ!Reconfigured(key)
          /\ \A k \in RQ!Keys \ {key} : engine'[k] = engine[k] /\ config'[k] = config[k]
      BY <1>3, <2>1, <2>3
    <3>2. \/ engine'[key] = RQ!NoEngine /\ RQ!Unused(key)
          \/ engine[key].state = "starting" /\ engine'[key] = [engine[key] EXCEPT !.crossed = TRUE]
          \/ engine'[key] = engine[key] /\ engine[key].state = "none"
      BY <2>1, <2>3, <3>1 DEF RQ!Reconfigured, RQ!Accepts, RQ!IsReady, EngineOK
    <3> QED BY <3>1, <3>2 DEF Cleared
  <2> QED BY <1>5, <2>2, <2>3
<1>11. request[c].pc \notin Using /\ request'[c].pc \notin Using
  BY <1>1, <1>9 DEF Using
<1>12. EnginesOK' /\ StartedByOne' /\ LeasedReady' /\ ConfiguredLast'
  BY <1>9, <1>10, <1>11, ClearedMoves
<1> QED BY <1>1, <1>9, <1>12, ChangesOK DEF RequestsInv, Tagging

(* A request goes on with its key and its backend. *)
LEMMA Goes ==
  ASSUME RequestsOK, NEW c \in Users, NEW pc, RQ!Goto(c, pc), pc # "idle",
         \/ request[c].pc \in {"load"} \cup Using
         \/ request[c].pc # "idle" /\ pc \notin {"wait", "resolve", "set", "load"} \cup Using
  PROVE  Changes(c) /\ request'[c].pc = pc /\ request'[c].key = request[c].key
<1> DEFINE r == [request[c] EXCEPT !.pc = pc]
<1>1. RequestOK(request[c])
  BY RequestField DEF Using
<1>2. request' = [request EXCEPT ![c] = r]
  BY DEF RQ!Goto, RequestsOK
<1>3. /\ DOMAIN r = RequestFields /\ r.name = request[c].name /\ r.key = request[c].key
      /\ r.backend = request[c].backend /\ r.selected = request[c].selected /\ r.pc = pc
  BY <1>1 DEF RequestOK, RequestFields
<1> HIDE DEF r
<1>4. RequestOK(r)
  BY <1>1, <1>3 DEF RequestOK
<1>5. Changes(c) /\ request'[c] = r
  BY <1>2, <1>4, ChangesTo
<1> QED BY <1>3, <1>5

LEMMA StartingFresh ==
  ASSUME NEW x
  PROVE  Starting([RQ!NoEngine EXCEPT !.state = "starting", !.config = x], x)
BY DEF Starting, EngineOK, RQ!NoEngine

LEMMA LoadBeginMoves ==
  ASSUME RequestsInv, NEW c \in Users, RQ!LoadBegin(c)
  PROVE  RequestsInv'
<1> DEFINE key == request[c].key
<1>1. /\ request[c].pc = "load" /\ UNCHANGED <<tagged, installed, config>>
      /\ engine[key].state # "starting" /\ request[c].pc \notin Using
  BY DEF RQ!LoadBegin, Using
<1>2. key \in RQ!Keys /\ EngineOK(engine[key])
  BY <1>1, RequestField DEF RequestsInv, RequestOK, EnginesOK
<1>3. RequestsOK
  BY DEF RequestsInv
<1>4. CASE RQ!IsReady(key)
  <2>1. RQ!Goto(c, "leased") /\ UNCHANGED engine
    BY <1>4 DEF RQ!LoadBegin
  <2>2. Changes(c) /\ request'[c].pc = "leased" /\ request'[c].key = key
    BY <1>1, <1>3, <2>1, Goes
  <2>3. engine[key].state = "ready"
    BY <1>4 DEF RQ!IsReady
  <2>4. EnginesOK' /\ StartedByOne' /\ LeasedReady' /\ ConfiguredLast'
    BY <1>1, <1>2, <2>1, <2>2, <2>3, LeaseBegins
  <2> QED BY <1>1, <1>3, <2>2, <2>4, ChangesOK DEF RequestsInv, Tagging
<1>5. CASE ~RQ!IsReady(key)
  <2> DEFINE e == [RQ!NoEngine EXCEPT !.state = "starting", !.config = config[key]]
  <2>1. RQ!Goto(c, "loading") /\ engine' = [engine EXCEPT ![key] = e]
    BY <1>5 DEF RQ!LoadBegin
  <2>2. Starting(e, config[key])
    BY StartingFresh
  <2> HIDE DEF e
  <2>3. Changes(c) /\ request'[c].pc = "loading" /\ request'[c].key = key
    BY <1>1, <1>3, <2>1, Goes
  <2>4. engine[key].state = "none"
    BY <1>1, <1>2, <1>5 DEF RQ!IsReady, EngineOK
  <2>5. EnginesOK' /\ StartedByOne' /\ LeasedReady' /\ ConfiguredLast'
    BY <1>1, <1>2, <2>1, <2>2, <2>3, <2>4, StartBegins
  <2> QED BY <1>1, <1>3, <2>3, <2>5, ChangesOK DEF RequestsInv, Tagging
<1> QED BY <1>4, <1>5

LEMMA LoadEndMoves ==
  ASSUME RequestsInv, NEW c \in Users, RQ!LoadEnd(c)
  PROVE  RequestsInv'
<1> DEFINE key == request[c].key
<1>1. request[c].pc = "loading" /\ UNCHANGED <<tagged, installed, config>>
  BY DEF RQ!LoadEnd
<1>2. key \in RQ!Keys /\ RequestsOK
  BY <1>1, RequestField DEF RequestsInv, RequestOK
<1>3. \/ RQ!Goto(c, "leased") /\ engine' = [engine EXCEPT ![key].state = "ready"]
      \/ RQ!Refuse(c, 500) /\ engine' = [engine EXCEPT ![key] = RQ!NoEngine]
  BY DEF RQ!LoadEnd
<1>4. RQ!Goto(c, "leased") => Changes(c) /\ request'[c].pc = "leased" /\ request'[c].key = key
  BY <1>1, <1>2, Goes DEF Using
<1>5. RQ!Refuse(c, 500) => Changes(c) /\ request'[c].pc = "done"
  BY <1>1, <1>2, Refused
<1>6. EnginesOK' /\ StartedByOne' /\ LeasedReady' /\ ConfiguredLast'
  BY <1>1, <1>2, <1>3, <1>4, <1>5, StartEnds
<1> QED BY <1>1, <1>2, <1>3, <1>4, <1>5, <1>6, ChangesOK DEF RequestsInv, Tagging

LEMMA ForwardMoves ==
  ASSUME RequestsInv, NEW c \in Users, RQ!Forward(c)
  PROVE  RequestsInv'
<1>1. request[c].pc = "leased" /\ UNCHANGED <<tagged, installed, engine, config>>
  BY DEF RQ!Forward
<1>2. RequestsOK /\ RequestOK(request[c])
  BY <1>1, RequestField DEF RequestsInv
<1>3. Changes(c) /\ request'[c].pc \in {"streaming", "done"} /\ request'[c].key = request[c].key
  <2>1. CASE RQ!Goto(c, "done")
    BY <1>1, <1>2, <2>1, Goes DEF Using
  <2>2. ASSUME NEW halves, request' = [request EXCEPT ![c].pc = "streaming", ![c].todo = halves,
                                            ![c].status = IF @ = 0 THEN 200 ELSE @]
        PROVE  Changes(c) /\ request'[c].pc = "streaming" /\ request'[c].key = request[c].key
    <3> DEFINE r == [request[c] EXCEPT !.pc = "streaming", !.todo = halves,
                                       !.status = IF @ = 0 THEN 200 ELSE @]
    <3>1. request' = [request EXCEPT ![c] = r]
      BY <1>2, <2>2 DEF RequestsOK
    <3>2. /\ DOMAIN r = RequestFields /\ r.name = request[c].name /\ r.key = request[c].key
          /\ r.backend = request[c].backend /\ r.selected = request[c].selected /\ r.pc = "streaming"
      BY <1>2 DEF RequestOK, RequestFields
    <3> HIDE DEF r
    <3>3. RequestOK(r)
      BY <1>1, <1>2, <3>2 DEF RequestOK, Using
    <3>4. Changes(c) /\ request'[c] = r
      BY <1>2, <3>1, <3>3, ChangesTo
    <3> QED BY <3>2, <3>4
  <2>3. RQ!Goto(c, "done") \/ \E halves :
          request' = [request EXCEPT ![c].pc = "streaming", ![c].todo = halves,
                                     ![c].status = IF @ = 0 THEN 200 ELSE @]
    BY DEF RQ!Forward
  <2>4. CASE ~RQ!Goto(c, "done")
    <3>1. PICK halves : request' = [request EXCEPT ![c].pc = "streaming", ![c].todo = halves,
                                                   ![c].status = IF @ = 0 THEN 200 ELSE @]
      BY <2>3, <2>4
    <3> QED BY <2>2, <3>1
  <2> QED BY <2>1, <2>4
<1>4. EnginesOK' /\ StartedByOne' /\ LeasedReady' /\ ConfiguredLast'
  BY <1>1, <1>3, LeaseMoves
<1> QED BY <1>1, <1>2, <1>3, <1>4, ChangesOK DEF RequestsInv, Tagging

LEMMA StreamedWriteMoves ==
  ASSUME RequestsInv, NEW c \in Users, RQ!StreamedWrite(c)
  PROVE  RequestsInv'
<1>1. request[c].pc = "streaming" /\ UNCHANGED <<tagged, installed, engine, config>>
  BY DEF RQ!StreamedWrite
<1>2. RequestsOK /\ RequestOK(request[c])
  BY <1>1, RequestField DEF RequestsInv
<1>3. PICK todo, rest, out :
        request' = [request EXCEPT ![c].todo = todo, ![c].rest = rest, ![c].out = out]
  BY DEF RQ!StreamedWrite
<1> DEFINE r == [request[c] EXCEPT !.todo = todo, !.rest = rest, !.out = out]
<1>4. request' = [request EXCEPT ![c] = r]
  BY <1>2, <1>3 DEF RequestsOK
<1>5. /\ DOMAIN r = RequestFields /\ r.name = request[c].name /\ r.key = request[c].key
      /\ r.backend = request[c].backend /\ r.selected = request[c].selected /\ r.pc = "streaming"
  BY <1>1, <1>2 DEF RequestOK, RequestFields
<1> HIDE DEF r
<1>6. RequestOK(r)
  BY <1>1, <1>2, <1>5 DEF RequestOK, Using
<1>7. Changes(c) /\ request'[c] = r
  BY <1>2, <1>4, <1>6, ChangesTo
<1>8. EnginesOK' /\ StartedByOne' /\ LeasedReady' /\ ConfiguredLast'
  BY <1>1, <1>5, <1>7, LeaseMoves
<1> QED BY <1>1, <1>2, <1>7, <1>8, ChangesOK DEF RequestsInv, Tagging

LEMMA StreamedEndMoves ==
  ASSUME RequestsInv, NEW c \in Users, RQ!StreamedEnd(c)
  PROVE  RequestsInv'
<1>1. /\ request[c].pc = "streaming" /\ RQ!Goto(c, "done")
      /\ UNCHANGED <<tagged, installed, engine, config>>
  BY DEF RQ!StreamedEnd
<1>2. Changes(c) /\ request'[c].pc = "done" /\ request'[c].key = request[c].key
  BY <1>1, Goes DEF RequestsInv, Using
<1>3. EnginesOK' /\ StartedByOne' /\ LeasedReady' /\ ConfiguredLast'
  BY <1>1, <1>2, LeaseMoves
<1> QED BY <1>1, <1>2, <1>3, ChangesOK DEF RequestsInv, Tagging

(* Runners that are unused go. *)
LEMMA UnloadClears ==
  ASSUME RequestsInv, NEW T \in SUBSET RQ!Keys, UNCHANGED config,
         engine' = [k \in RQ!Keys |-> IF k \in T /\ RQ!Unused(k) THEN RQ!NoEngine ELSE engine[k]]
  PROVE  DOMAIN engine' = RQ!Keys /\ DOMAIN config' = RQ!Keys /\ \A k \in RQ!Keys : Cleared(k)
BY DEF Cleared, RequestsInv, EnginesOK

LEMMA UnloadModelMoves ==
  ASSUME RequestsInv, NEW c \in Users, RQ!UnloadModel(c)
  PROVE  RequestsInv'
<1> DEFINE T == {k \in RQ!Keys : k[2] = RQ!ModelNow(c)}
           r == [request[c] EXCEPT !.pc = "remove"]
<1>1. /\ request[c].pc \in {"unload", "delete"} /\ UNCHANGED <<tagged, installed, config>>
      /\ engine' = [k \in RQ!Keys |-> IF k \in T /\ RQ!Unused(k) THEN RQ!NoEngine ELSE engine[k]]
  BY DEF RQ!UnloadModel
<1>2. RequestsOK /\ RequestOK(request[c])
  BY <1>1, RequestField DEF RequestsInv
<1>3. \/ request' = [request EXCEPT ![c] = RQ!Respond(request[c], 200, "{}")]
      \/ request' = [request EXCEPT ![c] = r]
  BY <1>2 DEF RQ!UnloadModel, RequestsOK
<1>4. /\ DOMAIN r = RequestFields /\ r.name = request[c].name /\ r.key = request[c].key
      /\ r.backend = request[c].backend /\ r.selected = request[c].selected /\ r.pc = "remove"
  BY <1>2 DEF RequestOK, RequestFields
<1> HIDE DEF r
<1>5. RequestOK(r)
  BY <1>2, <1>4 DEF RequestOK, Using
<1>6. /\ RequestOK(RQ!Respond(request[c], 200, "{}"))
      /\ RQ!Respond(request[c], 200, "{}").pc = "done"
  BY <1>2, Responded
<1>7. Changes(c) /\ request'[c].pc \in {"done", "remove"}
  BY <1>2, <1>3, <1>4, <1>5, <1>6, ChangesTo
<1>8. DOMAIN engine' = RQ!Keys /\ DOMAIN config' = RQ!Keys /\ \A k \in RQ!Keys : Cleared(k)
  <2>1. T \in SUBSET RQ!Keys
    OBVIOUS
  <2> HIDE DEF T
  <2> QED BY <1>1, <2>1, UnloadClears
<1>9. request[c].pc \notin Using /\ request'[c].pc \notin Using
  BY <1>1, <1>7 DEF Using
<1>10. EnginesOK' /\ StartedByOne' /\ LeasedReady' /\ ConfiguredLast'
  BY <1>7, <1>8, <1>9, ClearedMoves
<1> QED BY <1>1, <1>2, <1>7, <1>10, ChangesOK DEF RequestsInv, Tagging

LEMMA UninstallBackendMoves ==
  ASSUME RQ!RequestsAssumption, RequestsInv, NEW c \in Users, RQ!UninstallBackend(c)
  PROVE  RequestsInv'
<1>1. PICK b \in DeferredOnes :
        /\ engine' = [k \in RQ!Keys |-> IF k[1] = b /\ RQ!Unused(k) THEN RQ!NoEngine ELSE engine[k]]
        /\ request' = [request EXCEPT ![c].pc = "removeFiles", ![c].backend = b]
  BY DEF RQ!UninstallBackend
<1>2. request[c].pc = "uninstall" /\ UNCHANGED <<tagged, installed, config>>
  BY DEF RQ!UninstallBackend
<1> DEFINE T == {k \in RQ!Keys : k[1] = b}
           r == [request[c] EXCEPT !.pc = "removeFiles", !.backend = b]
<1>3. RequestsOK /\ RequestOK(request[c])
  BY <1>2, RequestField DEF RequestsInv
<1>4. request' = [request EXCEPT ![c] = r]
  BY <1>1, <1>3 DEF RequestsOK
<1>5. /\ DOMAIN r = RequestFields /\ r.name = request[c].name /\ r.key = request[c].key
      /\ r.backend = b /\ r.selected = request[c].selected /\ r.pc = "removeFiles"
  BY <1>3 DEF RequestOK, RequestFields
<1> HIDE DEF r
<1>6. RequestOK(r)
  BY <1>3, <1>5 DEF RequestOK, Using, RQ!RequestsAssumption
<1>7. Changes(c) /\ request'[c] = r
  BY <1>3, <1>4, <1>6, ChangesTo
<1>8. DOMAIN engine' = RQ!Keys /\ DOMAIN config' = RQ!Keys /\ \A k \in RQ!Keys : Cleared(k)
  <2>1. /\ T \in SUBSET RQ!Keys
        /\ engine' = [k \in RQ!Keys |-> IF k \in T /\ RQ!Unused(k) THEN RQ!NoEngine ELSE engine[k]]
    BY <1>1
  <2> HIDE DEF T
  <2> QED BY <1>2, <2>1, UnloadClears
<1>9. request[c].pc \notin Using /\ request'[c].pc \notin Using
  BY <1>2, <1>5, <1>7 DEF Using
<1>10. EnginesOK' /\ StartedByOne' /\ LeasedReady' /\ ConfiguredLast'
  BY <1>7, <1>8, <1>9, ClearedMoves
<1> QED BY <1>2, <1>3, <1>7, <1>10, ChangesOK DEF RequestsInv, Tagging

(* What only removes or installs leaves the runners alone. *)
LEMMA OnlyEnds ==
  ASSUME RequestsInv, NEW c \in Users, Changes(c), request'[c].pc = "done",
         request[c].pc \in {"remove", "install", "removeFiles"}, UNCHANGED <<engine, config>>,
         Tagging'
  PROVE  RequestsInv'
<1>1. request[c].pc \notin Using /\ request'[c].pc \notin Using
  BY DEF Using
<1> QED BY <1>1, ChangesOK, Elsewhere DEF RequestsInv

LEMMA RemovalMoves ==
  ASSUME RQ!RequestsAssumption, RequestsInv, NEW c \in Users,
         RQ!DeleteModel(c) \/ RQ!InstallBackend(c) \/ RQ!RemoveBackend(c)
  PROVE  RequestsInv'
<1>1. CASE RQ!DeleteModel(c)
  <2>1. /\ request[c].pc = "remove" /\ UNCHANGED <<installed, engine, config>>
        /\ tagged' = [tagged EXCEPT ![request[c].name] = RQ!Untagged]
    BY <1>1 DEF RQ!DeleteModel
  <2>2. \/ request' = [request EXCEPT ![c] = RQ!Respond(request[c], 500, "error")]
        \/ request' = [request EXCEPT ![c] = RQ!Respond(request[c], 200, "{}")]
    BY <1>1 DEF RQ!DeleteModel, RequestsInv, RequestsOK
  <2>3. RequestOK(request[c])
    BY <2>1, RequestField DEF RequestsInv
  <2>4. Tagging'
    BY <2>1, <2>3 DEF RequestsInv, Tagging, RequestOK
  <2>5. Changes(c) /\ request'[c].pc = "done"
    <3>1. /\ RequestOK(RQ!Respond(request[c], 500, "error"))
          /\ RQ!Respond(request[c], 500, "error").pc = "done"
      BY <2>3, Responded
    <3>2. /\ RequestOK(RQ!Respond(request[c], 200, "{}"))
          /\ RQ!Respond(request[c], 200, "{}").pc = "done"
      BY <2>3, Responded
    <3>3. RequestsOK
      BY DEF RequestsInv
    <3>4. CASE request' = [request EXCEPT ![c] = RQ!Respond(request[c], 500, "error")]
      <4>1. Changes(c) /\ request'[c] = RQ!Respond(request[c], 500, "error")
        BY <3>1, <3>3, <3>4, ChangesTo
      <4> QED BY <3>1, <4>1
    <3>5. CASE request' = [request EXCEPT ![c] = RQ!Respond(request[c], 200, "{}")]
      <4>1. Changes(c) /\ request'[c] = RQ!Respond(request[c], 200, "{}")
        BY <3>2, <3>3, <3>5, ChangesTo
      <4> QED BY <3>2, <4>1
    <3> QED BY <2>2, <3>4, <3>5
  <2> QED BY <2>1, <2>4, <2>5, OnlyEnds
<1>2. CASE RQ!InstallBackend(c)
  <2>1. PICK b \in DeferredOnes :
          \/ /\ installed' = installed \cup {b}
             /\ request' = [request EXCEPT ![c] = RQ!Respond(request[c], 200, "")]
          \/ RQ!Refuse(c, 500) /\ UNCHANGED installed
    BY <1>2 DEF RQ!InstallBackend, RequestsInv, RequestsOK
  <2>2. request[c].pc = "install" /\ UNCHANGED <<tagged, engine, config>>
    BY <1>2 DEF RQ!InstallBackend
  <2>3. Tagging'
    BY <2>1, <2>2 DEF RequestsInv, Tagging, RQ!RequestsAssumption
  <2>4. Changes(c) /\ request'[c].pc = "done"
    <3>1. RequestOK(request[c])
      BY <2>2, RequestField DEF RequestsInv
    <3>2. /\ RequestOK(RQ!Respond(request[c], 200, ""))
          /\ RQ!Respond(request[c], 200, "").pc = "done"
      BY <3>1, Responded
    <3>3. RQ!Refuse(c, 500) => Changes(c) /\ request'[c].pc = "done"
      BY <2>2, Refused DEF RequestsInv
    <3> QED BY <2>1, <3>2, <3>3, ChangesTo DEF RequestsInv
  <2> QED BY <2>2, <2>3, <2>4, OnlyEnds
<1>3. CASE RQ!RemoveBackend(c)
  <2>1. /\ request[c].pc = "removeFiles" /\ UNCHANGED <<tagged, engine, config>>
        /\ installed' = installed \ {request[c].backend}
        /\ request' = [request EXCEPT ![c] = RQ!Respond(request[c], 200, "")]
    BY <1>3 DEF RQ!RemoveBackend, RequestsInv, RequestsOK
  <2>2. Tagging'
    BY <2>1 DEF RequestsInv, Tagging
  <2>3. Changes(c) /\ request'[c].pc = "done"
    <3>1. RequestOK(request[c])
      BY <2>1, RequestField DEF RequestsInv
    <3>2. /\ RequestOK(RQ!Respond(request[c], 200, ""))
          /\ RQ!Respond(request[c], 200, "").pc = "done"
      BY <3>1, Responded
    <3> QED BY <2>1, <3>2, ChangesTo DEF RequestsInv
  <2> QED BY <2>1, <2>2, <2>3, OnlyEnds
<1> QED BY <1>1, <1>2, <1>3

(* A name moves, or nothing does. *)
LEMMA RetagMoves ==
  ASSUME RequestsInv, UNCHANGED <<installed, engine, config, request>>,
         UNCHANGED tagged \/ \E n \in Names, m \in RQ!TheModels : tagged' = [tagged EXCEPT ![n] = m]
  PROVE  RequestsInv'
<1>1. Tagging'
  BY DEF RequestsInv, Tagging
<1> QED BY <1>1 DEF RequestsInv, RequestsOK, EnginesOK, StartedByOne, LeasedReady,
                    ConfiguredLast, Loading, Leasing

LEMMA RequestsMoves ==
  ASSUME RQ!RequestsAssumption, RequestsInv, RQ!ReqNext \/ UNCHANGED RQ!reqVars
  PROVE  RequestsInv'
<1>1. CASE UNCHANGED RQ!reqVars
  BY <1>1, RetagMoves DEF RQ!reqVars
<1>2. CASE \E n \in Names, m \in RQ!TheModels : RQ!ReqRetag(n, m)
  BY <1>2, RetagMoves DEF RQ!ReqRetag
<1>3. ASSUME NEW c \in Users,
             \E kind \in Kinds, n \in Names, cli \in BOOLEAN : RQ!Arrive(c, kind, n, cli)
      PROVE  RequestsInv'
  BY <1>3, ArriveMoves
<1>4. ASSUME NEW c \in Users,
             \/ RQ!SelectBackend(c) \/ RQ!AwaitInstalled(c) \/ RQ!ResolveID(c) \/ RQ!SetRunnerConfig(c)
             \/ RQ!LoadBegin(c) \/ RQ!LoadEnd(c) \/ RQ!Forward(c) \/ RQ!StreamedWrite(c)
             \/ RQ!StreamedEnd(c) \/ RQ!UnloadModel(c) \/ RQ!DeleteModel(c)
             \/ RQ!InstallBackend(c) \/ RQ!UninstallBackend(c) \/ RQ!RemoveBackend(c)
      PROVE  RequestsInv'
  BY <1>4, SelectBackendMoves, AwaitInstalledMoves, ResolveIDMoves, SetRunnerConfigMoves,
     LoadBeginMoves, LoadEndMoves, ForwardMoves, StreamedWriteMoves, StreamedEndMoves,
     UnloadModelMoves, UninstallBackendMoves, RemovalMoves
<1> QED BY <1>1, <1>2, <1>3, <1>4 DEF RQ!ReqNext

LEMMA RequestsCardinality == \A S : RQ!Cardinality(S) = Cardinality(S)
BY DEF RQ!Cardinality, Cardinality, RQ!IsFiniteSet, IsFiniteSet

(* One request starts a runner, so the set of those that do has one element. *)
LEMMA RequestsHonour ==
  ASSUME RQ!RequestsAssumption, RequestsInv
  PROVE  RQ!ReqTypeOK /\ RQ!BackendSuits /\ RQ!ConfigHonoured
<1>1. RQ!ReqTypeOK
  <2>1. ASSUME NEW k \in RQ!Keys
        PROVE  Cardinality({c \in RQ!Holders(k) : request[c].pc = "loading"}) =
                 IF engine[k].state = "starting" THEN 1 ELSE 0
    <3> DEFINE S == {c \in RQ!Holders(k) : request[c].pc = "loading"}
    <3>1. \A c : c \in S <=> c \in Users /\ Loading(c, k)
      BY DEF RQ!Holders, Loading
    <3> HIDE DEF S
    <3>2. CASE engine[k].state = "starting"
      <4>1. PICK c \in Users : Loading(c, k)
        BY <3>2 DEF RequestsInv, StartedByOne
      <4>2. S = {c}
        BY <3>1, <4>1 DEF RequestsInv, StartedByOne
      <4> QED BY <3>2, <4>2, FS_Singleton DEF S
    <3>3. CASE engine[k].state # "starting"
      <4>1. S = {}
        BY <3>1, <3>3 DEF RequestsInv, StartedByOne
      <4> QED BY <3>3, <4>1, FS_EmptySet DEF S
    <3> QED BY <3>2, <3>3
  <2>2. ASSUME NEW k \in RQ!Keys, NEW c \in RQ!Holders(k), request[c].pc # "loading"
        PROVE  RQ!IsReady(k)
    <3>1. c \in Users /\ Leasing(c, k)
      BY <2>2 DEF RQ!Holders, Leasing
    <3> QED BY <3>1 DEF RequestsInv, LeasedReady, RQ!IsReady
  <2>3. \A k \in RQ!Keys :
          RQ!Cardinality({c \in RQ!Holders(k) : request[c].pc = "loading"}) =
            IF engine[k].state = "starting" THEN 1 ELSE 0
    BY <2>1, RequestsCardinality
  <2> QED BY <2>2, <2>3 DEF RQ!ReqTypeOK, RequestsInv, Tagging
<1>2. RQ!BackendSuits
  <2> SUFFICES ASSUME NEW c \in Users, request[c].pc \in {"loading", "leased", "streaming"},
                      request[c].key[2] = request[c].selected
               PROVE  \/ FormatOf[request[c].selected] = "safetensors" <=> request[c].key[1] # RQ!LlamaCpp
                      \/ Platform \subseteq {RQ!LlamaCpp}
    BY DEF RQ!BackendSuits
  <2>1. RequestOK(request[c])
    BY RequestField DEF RequestsInv
  <2>2. request[c].key[1] = BackendChosen(request[c].selected)
    BY <2>1 DEF RequestOK, Using
  <2>3. request[c].selected # RQ!Untagged
    BY <2>1 DEF RequestOK, RQ!Keys, RQ!RequestsAssumption
  <2>4. request[c].key[1] = RQ!BackendFor(request[c].selected)
    BY <2>2, <2>3 DEF BackendChosen
  <2> QED BY <2>4 DEF RQ!BackendFor, RQ!LlamaCpp, RQ!Engines, RQ!RequestsAssumption
<1>3. RQ!ConfigHonoured
  BY DEF RequestsInv, ConfiguredLast, RQ!ConfigHonoured, RQ!IsReady
<1> QED BY <1>1, <1>2, <1>3

-----------------------------------------------------------------------------
(***************************************************************************)
(* Log streaming: what was output of a file ends where the line that is    *)
(* held begins, or where the file was read to.                             *)
(***************************************************************************)
OutputTo(f) == IF LG!Held(f) THEN partial[f].from ELSE offset[f]
LogPieces == [log : LG!Logs, from : Nat, to : Nat]
Line(f, n) == n \in 1 .. Len(LG!Times(f)) /\ LG!Times(f)[n] # 0

LogTypes ==
  /\ present \subseteq LG!Logs /\ size \in [LG!Logs -> Nat] /\ offset \in [LG!Logs -> Nat]
  /\ reading \in {"checked", "merge", "follow", "ended"} /\ sawEnd \in [LG!Logs -> BOOLEAN]
  /\ partial \in [LG!Logs -> [from : Nat, to : Nat]] /\ output \in Seq(LogPieces)
  /\ \A i \in 1 .. Len(output) : output[i].from < output[i].to
Within == \A f \in LG!Logs : offset[f] <= size[f] /\ size[f] <= 2 * Len(LG!Times(f))
(* A held line is the one read last, and has a time; reading stops at the end
   of a line until the end of the file. *)
HeldLast ==
  \A f \in LG!Logs :
    /\ reading # "merge" => ~LG!Held(f)
    /\ reading = "checked" => offset[f] = 0
    /\ LG!Held(f) =>
         /\ partial[f].from < partial[f].to /\ partial[f].to = offset[f]
         /\ partial[f].from % 2 = 0 /\ LG!TimeOf(f, partial[f]) # 0
    /\ reading = "merge" /\ ~sawEnd[f] => offset[f] % 2 = 0
AllSeen == \A f \in LG!Logs : LG!Seen(f, Len(output), OutputTo(f))
(* A time that is out is not later than a line that the merge may still put out. *)
Live(f) == LG!Held(f) \/ ~sawEnd[f]
NothingLater ==
  reading = "merge" /\ (\A f \in LG!Logs : LG!Sorted(LG!Times(f))) =>
    \A i \in 1 .. Len(output), f \in LG!Logs, n \in Nat :
      LG!TimeOut(i) # 0 /\ Live(f) /\ Line(f, n) /\ OutputTo(f) <= 2 * (n - 1)
        => LG!TimeOut(i) <= LG!Times(f)[n]
Quiet == reading = "checked" => output = <<>>

LogInv ==
  LogTypes /\ Within /\ HeldLast /\ AllSeen /\ LG!NoGap /\ Quiet /\ NothingLater /\ LG!InOrder

-----------------------------------------------------------------------------
LEMMA TimesType == ASSUME LG!LogAssumption PROVE \A f \in LG!Logs : LG!Times(f) \in Seq(Nat)
BY DEF LG!LogAssumption, LG!Times, LG!Logs

(* The line of an offset. *)
LEMMA LineOf ==
  ASSUME NEW pos \in Nat
  PROVE  /\ LG!LineAt(pos) \in Nat /\ LG!LineAt(pos) >= 1 /\ pos < 2 * LG!LineAt(pos)
         /\ 2 * (LG!LineAt(pos) - 1) <= pos
         /\ pos % 2 = 0 => pos = 2 * (LG!LineAt(pos) - 1)
BY DEF LG!LineAt

LEMMA LineOfEven ==
  ASSUME NEW n \in Nat, n >= 1 PROVE LG!LineAt(2 * (n - 1)) = n
BY DEF LG!LineAt

LEMMA ReadTypes ==
  ASSUME LogTypes, NEW f \in LG!Logs, offset[f] <= size[f]
  PROVE  LET r == LG!ReadLine(f, offset[f])
         IN  /\ r \in [from : Nat, to : Nat] /\ r.from = offset[f]
             /\ r.from <= r.to /\ r.to <= size[f] /\ r.to <= 2 * LG!LineAt(offset[f])
             /\ r.to = size[f] \/ r.to = 2 * LG!LineAt(offset[f])
<1>1. offset[f] \in Nat /\ size[f] \in Nat
  BY DEF LogTypes
<1>2. LG!LineAt(offset[f]) \in Nat /\ offset[f] < 2 * LG!LineAt(offset[f])
  BY <1>1, LineOf
<1> QED BY <1>1, <1>2 DEF LG!ReadLine, LG!Smaller

(* A piece more. *)
LEMMA MoreSeen ==
  ASSUME NEW p \in LogPieces, output \in Seq(LogPieces), output' = Append(output, p),
         NEW f, NEW n \in 0 .. Len(output), NEW pos, LG!Seen(f, n, pos)
  PROVE  LG!Seen(f, n, pos)'
<1>1. \A j \in 1 .. n : output'[j] = output[j]
  OBVIOUS
<1> QED BY <1>1 DEF LG!Seen

LEMMA PieceOut ==
  ASSUME LogTypes, AllSeen, LG!NoGap, NEW f \in LG!Logs, NEW from \in Nat, NEW to \in Nat,
         from = OutputTo(f), from < to, output' = Append(output, LG!Piece(f, from, to)),
         OutputTo(f)' = to, \A g \in LG!Logs \ {f} : OutputTo(g)' = OutputTo(g)
  PROVE  /\ output' \in Seq(LogPieces) /\ \A i \in 1 .. Len(output') : output'[i].from < output'[i].to
         /\ AllSeen' /\ LG!NoGap'
<1> DEFINE p == LG!Piece(f, from, to)
<1>1. p \in LogPieces /\ p.log = f /\ p.from = from /\ p.to = to
  BY DEF LG!Piece, LogPieces
<1>2. output \in Seq(LogPieces) /\ output' = Append(output, p)
  BY DEF LogTypes
<1> HIDE DEF p
<1>3. /\ output' \in Seq(LogPieces) /\ Len(output') = Len(output) + 1 /\ Len(output) \in Nat
      /\ output'[Len(output) + 1] = p /\ \A i \in 1 .. Len(output) : output'[i] = output[i]
  BY <1>1, <1>2
<1>4. \A i \in 1 .. Len(output') : output'[i].from < output'[i].to
  BY <1>1, <1>3 DEF LogTypes
<1> PICK len \in Nat : len = Len(output)
  BY <1>3
<1>5. \A g, pos : LG!Seen(g, len, pos) => LG!Seen(g, len, pos)'
  BY <1>1, <1>2, <1>3, MoreSeen
<1>6. AllSeen'
  <2>1. LG!Seen(f, Len(output), OutputTo(f))'
    BY <1>1, <1>3 DEF LG!Seen
  <2>2. ASSUME NEW g \in LG!Logs \ {f} PROVE LG!Seen(g, Len(output), OutputTo(g))'
    BY <1>1, <1>3 DEF LG!Seen, AllSeen
  <2> QED BY <2>1, <2>2 DEF AllSeen
<1>7. LG!NoGap'
  <2> SUFFICES ASSUME NEW i \in 1 .. Len(output')
               PROVE  LG!Seen(output[i].log, i - 1, output[i].from)'
    BY DEF LG!NoGap
  <2>1. CASE i = Len(output) + 1
    <3>1. LG!Seen(f, len, from)'
      BY <1>5 DEF AllSeen
    <3>2. output'[i].log = f /\ output'[i].from = from /\ i - 1 = len
      BY <1>1, <1>3, <2>1
    <3> QED BY <3>1, <3>2
  <2>2. CASE i \in 1 .. Len(output)
    <3>1. LG!Seen(output[i].log, i - 1, output[i].from) /\ i - 1 \in 0 .. Len(output)
      BY <1>3, <2>2 DEF LG!NoGap
    <3> QED BY <1>1, <1>2, <1>3, <2>2, <3>1, MoreSeen
  <2> QED BY <1>3, <2>1, <2>2
<1> QED BY <1>3, <1>4, <1>6, <1>7

-----------------------------------------------------------------------------
LEMMA LogInit == ASSUME LG!LogAssumption, LG!LGInit PROVE LogInv
<1>1. /\ output = <<>> /\ Len(output) = 0 /\ reading = "checked"
      /\ \A f \in LG!Logs : ~LG!Held(f) /\ offset[f] = 0 /\ size[f] = 0
  BY DEF LG!LGInit, LG!Held
<1>2. LogTypes
  BY <1>1 DEF LG!LGInit, LogTypes, LG!Logs, LG!Nothing
<1>3. Within /\ HeldLast
  BY <1>1, TimesType DEF Within, HeldLast
<1>4. AllSeen /\ LG!NoGap /\ Quiet /\ NothingLater /\ LG!InOrder
  BY <1>1 DEF AllSeen, LG!NoGap, Quiet, NothingLater, LG!InOrder, LG!Seen, OutputTo
<1> QED BY <1>2, <1>3, <1>4 DEF LogInv

(* What the runner writes is not yet read. *)
LEMMA WriteLogMoves ==
  ASSUME LG!LogAssumption, LogInv, NEW f \in LG!Logs, LG!WriteLog(f)
  PROVE  LogInv'
<1>1. UNCHANGED <<reading, offset, sawEnd, partial, output>>
  BY DEF LG!WriteLog
<1>2. PICK n \in {1, 2} :
        /\ size' = [size EXCEPT ![f] = @ + n] /\ size[f] < 2 * Len(LG!Times(f))
        /\ n = 2 => size[f] % 2 = 0
  <2>1. PICK n \in {1, IF size[f] % 2 = 0 THEN 2 ELSE 1} : size' = [size EXCEPT ![f] = @ + n]
    BY DEF LG!WriteLog
  <2>2. n \in {1, 2} /\ (n = 2 => size[f] % 2 = 0)
    BY <2>1
  <2>3. size[f] < 2 * Len(LG!Times(f))
    BY DEF LG!WriteLog
  <2> QED BY <2>1, <2>2, <2>3
<1>3. size \in [LG!Logs -> Nat] /\ Len(LG!Times(f)) \in Nat
  BY TimesType DEF LogInv, LogTypes
<1>4. size[f] + n <= 2 * Len(LG!Times(f))
  <2> DEFINE a == size[f]
             b == Len(LG!Times(f))
  <2>1. a \in Nat /\ b \in Nat /\ a < 2 * b /\ (n = 2 => a % 2 = 0)
    BY <1>2, <1>3
  <2> HIDE DEF a, b
  <2>2. a + n <= 2 * b
    BY <2>1
  <2> QED BY <2>2 DEF a, b
<1>5. size' \in [LG!Logs -> Nat] /\ size'[f] = size[f] + n /\ \A g \in LG!Logs \ {f} : size'[g] = size[g]
  BY <1>2, <1>3
<1>6. LogTypes'
  BY <1>1, <1>5 DEF LogInv, LogTypes, LG!WriteLog
<1>7. Within' /\ HeldLast'
  <2>1. Within'
    <3>1. \A g \in LG!Logs : offset[g] \in Nat /\ offset[g] <= size[g] /\ size[g] <= 2 * Len(LG!Times(g))
      BY DEF LogInv, LogTypes, Within
    <3>2. ASSUME NEW g \in LG!Logs PROVE offset[g] <= size'[g] /\ size'[g] <= 2 * Len(LG!Times(g))
      <4>1. CASE g = f
        BY <1>3, <1>4, <1>5, <3>1, <4>1
      <4>2. CASE g # f
        BY <1>5, <3>1, <4>2
      <4> QED BY <4>1, <4>2
    <3> QED BY <1>1, <3>2 DEF Within
  <2>2. HeldLast'
    BY <1>1 DEF LogInv, HeldLast, LG!Held, LG!TimeOf, LG!LineAt
  <2> QED BY <2>1, <2>2
<1>8. AllSeen' /\ LG!NoGap' /\ Quiet' /\ NothingLater' /\ LG!InOrder'
  BY <1>1 DEF LogInv, AllSeen, LG!NoGap, LG!Seen, Quiet, NothingLater, LG!InOrder, OutputTo,
     LG!Held, Live, LG!TimeOut, LG!TimeOf, LG!LineAt
<1> QED BY <1>6, <1>7, <1>8 DEF LogInv

(* The files are opened, or the answer ends: nothing is read. *)
LEMMA OpenLogsMoves ==
  ASSUME LG!LogAssumption, LogInv, LG!OpenLogs
  PROVE  LogInv'
<1>1. /\ reading = "checked" /\ reading' \in {"merge", "ended"}
      /\ UNCHANGED <<present, size, offset, partial, output>>
      /\ sawEnd' \in [LG!Logs -> BOOLEAN]
  BY DEF LG!OpenLogs, LogInv, LogTypes
<1>2. LogTypes'
  BY <1>1 DEF LogInv, LogTypes
<1>3. \A f \in LG!Logs : offset[f] % 2 = 0
  BY <1>1 DEF LogInv, HeldLast
<1>4. Within' /\ HeldLast'
  BY <1>1, <1>3 DEF LogInv, Within, HeldLast, LG!Held, LG!TimeOf, LG!LineAt
<1>5. output' = <<>> /\ Len(output') = 0
  BY <1>1 DEF LogInv, Quiet
<1>6. AllSeen' /\ LG!NoGap'
  BY <1>1 DEF LogInv, AllSeen, LG!NoGap, LG!Seen, OutputTo, LG!Held
<1>7. Quiet' /\ NothingLater' /\ LG!InOrder'
  BY <1>1, <1>5 DEF Quiet, NothingLater, LG!InOrder
<1> QED BY <1>2, <1>4, <1>6, <1>7 DEF LogInv

LEMMA MergeEndsMoves ==
  ASSUME LG!LogAssumption, LogInv, LG!MergeEnds \/ LG!StopFollowing
  PROVE  LogInv'
<1>1. /\ reading' \in {"follow", "ended"} /\ reading # "checked"
      /\ UNCHANGED <<present, size, sawEnd, partial, output>>
      /\ \A f \in LG!Logs : ~LG!Held(f)
  BY DEF LG!MergeEnds, LG!StopFollowing, LogInv, HeldLast
<1>2. offset' = offset
  BY DEF LG!MergeEnds, LG!StopFollowing, LG!Reached, LogInv, LogTypes
<1>3. LogTypes'
  BY <1>1, <1>2 DEF LogInv, LogTypes
<1>4. Within' /\ HeldLast'
  BY <1>1, <1>2 DEF LogInv, Within, HeldLast, LG!Held
<1>5. AllSeen' /\ LG!NoGap' /\ Quiet' /\ NothingLater' /\ LG!InOrder'
  BY <1>1, <1>2 DEF LogInv, AllSeen, LG!NoGap, LG!Seen, Quiet, NothingLater, LG!InOrder, OutputTo,
     LG!Held
<1> QED BY <1>3, <1>4, <1>5 DEF LogInv

LEMMA FollowLineMoves ==
  ASSUME LG!LogAssumption, LogInv, NEW f \in LG!Logs, LG!FollowLine(f)
  PROVE  LogInv'
<1> DEFINE r == LG!ReadLine(f, offset[f])
<1>1. /\ reading = "follow" /\ UNCHANGED <<present, size, reading, sawEnd, partial>>
      /\ offset[f] < size[f] /\ offset' = [offset EXCEPT ![f] = r.to]
      /\ output' = Append(output, LG!Piece(f, r.from, r.to))
  BY DEF LG!FollowLine
<1>2. /\ LogTypes /\ Within /\ offset \in [LG!Logs -> Nat]
      /\ offset[f] \in Nat /\ size[f] \in Nat /\ offset[f] <= size[f]
  BY DEF LogInv, LogTypes, Within
<1>3. /\ r.from = offset[f] /\ r.from < r.to /\ r.to <= size[f] /\ r.from \in Nat /\ r.to \in Nat
  <2>1. offset[f] < 2 * LG!LineAt(offset[f]) /\ LG!LineAt(offset[f]) \in Nat
    BY <1>2, LineOf
  <2> QED BY <1>1, <1>2, <2>1 DEF LG!ReadLine, LG!Smaller
<1> HIDE DEF r
<1>4. /\ offset' \in [LG!Logs -> Nat] /\ offset'[f] = r.to
      /\ \A g \in LG!Logs \ {f} : offset'[g] = offset[g]
  BY <1>1, <1>2, <1>3
<1>5. \A g \in LG!Logs : ~LG!Held(g) /\ ~LG!Held(g)'
  BY <1>1 DEF LogInv, HeldLast, LG!Held
<1>6. /\ output' \in Seq(LogPieces) /\ \A i \in 1 .. Len(output') : output'[i].from < output'[i].to
      /\ AllSeen' /\ LG!NoGap'
  <2>1. r.from = OutputTo(f) /\ OutputTo(f)' = r.to
    BY <1>3, <1>4, <1>5 DEF OutputTo
  <2>2. \A g \in LG!Logs \ {f} : OutputTo(g)' = OutputTo(g)
    BY <1>4, <1>5 DEF OutputTo
  <2>3. AllSeen /\ LG!NoGap
    BY DEF LogInv
  <2> QED BY <1>1, <1>2, <1>3, <2>1, <2>2, <2>3, PieceOut
<1>7. LogTypes'
  BY <1>1, <1>2, <1>4, <1>6 DEF LogTypes
<1>8. Within'
  BY <1>1, <1>2, <1>3, <1>4 DEF Within
<1>9. HeldLast'
  BY <1>1, <1>5 DEF HeldLast
<1>10. Quiet' /\ NothingLater' /\ LG!InOrder'
  BY <1>1 DEF Quiet, NothingLater, LG!InOrder
<1> QED BY <1>6, <1>7, <1>8, <1>9, <1>10 DEF LogInv

(***************************************************************************)
(* The merge.  Times that are out stay what they are.                      *)
(***************************************************************************)
LEMMA TimesStay ==
  ASSUME output \in Seq(LogPieces), NEW p \in LogPieces, output' = Append(output, p),
         NEW len, len = Len(output)
  PROVE  /\ len \in Nat /\ Len(output') = len + 1
         /\ \A i \in 1 .. len : LG!TimeOut(i)' = LG!TimeOut(i)
         /\ LG!TimeOut(len + 1)' = LG!TimeOf(p.log, p)
<1>1. /\ len \in Nat /\ Len(output') = len + 1 /\ output'[len + 1] = p
      /\ \A i \in 1 .. len : output'[i] = output[i]
  OBVIOUS
<1> QED BY <1>1 DEF LG!TimeOut, LG!TimeOf, LG!LineAt

LEMMA HeldLine ==
  ASSUME LG!LogAssumption, LogInv, NEW f \in LG!Logs, LG!Held(f)
  PROVE  LET n == LG!LineAt(partial[f].from)
         IN  /\ n \in Nat /\ Line(f, n) /\ partial[f].from = 2 * (n - 1) /\ OutputTo(f) = 2 * (n - 1)
             /\ LG!HeldTime(f) = LG!Times(f)[n] /\ LG!HeldTime(f) \in Nat /\ LG!HeldTime(f) # 0
<1> DEFINE from == partial[f].from
           n == LG!LineAt(from)
<1>1. /\ from \in Nat /\ partial[f].to \in Nat /\ offset[f] \in Nat /\ size[f] \in Nat
      /\ from < partial[f].to /\ partial[f].to = offset[f] /\ offset[f] <= size[f]
      /\ size[f] <= 2 * Len(LG!Times(f)) /\ from % 2 = 0 /\ LG!TimeOf(f, partial[f]) # 0
  BY DEF LogInv, LogTypes, Within, HeldLast
<1>2. LG!Times(f) \in Seq(Nat) /\ Len(LG!Times(f)) \in Nat
  BY TimesType
<1>3. n \in Nat /\ n >= 1 /\ from = 2 * (n - 1)
  BY <1>1, LineOf
<1>4. LG!TimeOf(f, partial[f]) = LG!Times(f)[n]
  BY <1>1 DEF LG!TimeOf
<1> HIDE DEF n, from
<1>5. n \in 1 .. Len(LG!Times(f))
  BY <1>1, <1>2, <1>3
<1>6. LG!Times(f)[n] \in Nat
  BY <1>2, <1>5
<1>7. OutputTo(f) = from
  BY DEF OutputTo, from
<1> QED BY <1>1, <1>3, <1>4, <1>5, <1>6, <1>7 DEF n, from, Line, LG!HeldTime

(* The file of the next line. *)
LEMMA NextIsEarliest ==
  ASSUME LG!LogAssumption, LogInv, \E f \in LG!Logs : LG!Held(f)
  PROVE  /\ LG!NextLog \in LG!Logs /\ LG!Held(LG!NextLog)
         /\ \A g \in LG!Logs : LG!Held(g) => LG!HeldTime(LG!NextLog) <= LG!HeldTime(g)
<1>1. \A g \in LG!Logs : LG!Held(g) => LG!HeldTime(g) \in Nat
  BY HeldLine
<1>2. \A g : g \in LG!Logs <=> g = "service" \/ g = "engine"
  BY DEF LG!Logs
<1>3. CASE LG!Held("service") /\ LG!Held("engine")
  <2>1. LG!HeldTime("service") \in Nat /\ LG!HeldTime("engine") \in Nat
    BY <1>1, <1>2, <1>3
  <2>2. CASE LG!Earlier
    <3>1. LG!NextLog = "service"
      BY <1>3, <2>2 DEF LG!NextLog
    <3>2. LG!HeldTime("service") <= LG!HeldTime("engine")
      BY <2>2 DEF LG!Earlier
    <3> QED BY <1>2, <1>3, <2>1, <3>1, <3>2
  <2>3. CASE ~LG!Earlier
    <3>1. LG!NextLog = "engine"
      BY <1>3, <2>3 DEF LG!NextLog
    <3>2. LG!HeldTime("engine") <= LG!HeldTime("service")
      BY <2>1, <2>3 DEF LG!Earlier
    <3> QED BY <1>2, <1>3, <2>1, <3>1, <3>2
  <2> QED BY <2>2, <2>3
<1>4. CASE LG!Held("service") /\ ~LG!Held("engine")
  BY <1>1, <1>2, <1>4 DEF LG!NextLog
<1>5. CASE ~LG!Held("service")
  BY <1>1, <1>2, <1>5 DEF LG!NextLog
<1> QED BY <1>3, <1>4, <1>5

LEMMA MergeLineMoves ==
  ASSUME LG!LogAssumption, LogInv, LG!MergeLine
  PROVE  LogInv'
<1> PICK f : f = LG!NextLog
  OBVIOUS
<1> PICK from, to : from = partial[f].from /\ to = partial[f].to
  OBVIOUS
<1> PICK t : t = LG!HeldTime(f)
  OBVIOUS
<1> DEFINE p == LG!Piece(f, from, to)
<1>1. /\ reading = "merge" /\ \A g \in LG!Logs : ~LG!Advancing(g)
      /\ output' = Append(output, p) /\ partial' = [partial EXCEPT ![f] = LG!Nothing]
      /\ UNCHANGED <<present, size, reading, offset, sawEnd>>
  BY DEF LG!MergeLine
<1>2. f \in LG!Logs /\ LG!Held(f) /\ \A g \in LG!Logs : LG!Held(g) => t <= LG!HeldTime(g)
  BY NextIsEarliest DEF LG!MergeLine
<1>3. /\ LogTypes /\ Within /\ HeldLast /\ AllSeen /\ LG!NoGap /\ NothingLater /\ LG!InOrder
      /\ from \in Nat /\ to \in Nat /\ output \in Seq(LogPieces)
      /\ from < to /\ to = offset[f]
  BY <1>2 DEF LogInv, LogTypes, HeldLast
<1>4. /\ p \in LogPieces /\ p.log = f /\ LG!TimeOf(p.log, p) = t
  BY <1>2, <1>3 DEF LG!Piece, LogPieces, LG!HeldTime, LG!TimeOf
<1>5. /\ partial' \in [LG!Logs -> [from : Nat, to : Nat]]
      /\ ~LG!Held(f)' /\ \A g \in LG!Logs \ {f} : partial'[g] = partial[g]
  BY <1>1, <1>2, <1>3 DEF LogTypes, LG!Held, LG!Nothing
<1>6. OutputTo(f) = from /\ OutputTo(f)' = to
  BY <1>1, <1>2, <1>3, <1>5 DEF OutputTo
<1>7. \A g \in LG!Logs \ {f} : (LG!Held(g)' <=> LG!Held(g)) /\ OutputTo(g)' = OutputTo(g)
  BY <1>1, <1>5 DEF OutputTo, LG!Held
<1>8. /\ output' \in Seq(LogPieces) /\ \A i \in 1 .. Len(output') : output'[i].from < output'[i].to
      /\ AllSeen' /\ LG!NoGap'
  BY <1>1, <1>2, <1>3, <1>6, <1>7, PieceOut
<1>9. LogTypes' /\ Within'
  BY <1>1, <1>3, <1>5, <1>8 DEF LogTypes, Within
<1>10. HeldLast'
  <2> SUFFICES ASSUME NEW g \in LG!Logs
               PROVE  (/\ reading # "merge" => ~LG!Held(g)
                       /\ reading = "checked" => offset[g] = 0
                       /\ LG!Held(g) =>
                            /\ partial[g].from < partial[g].to /\ partial[g].to = offset[g]
                            /\ partial[g].from % 2 = 0 /\ LG!TimeOf(g, partial[g]) # 0
                       /\ reading = "merge" /\ ~sawEnd[g] => offset[g] % 2 = 0)'
    BY DEF HeldLast
  <2>1. CASE g = f
    BY <1>1, <1>2, <1>3, <1>5, <2>1 DEF HeldLast
  <2>2. CASE g # f
    BY <1>1, <1>3, <1>5, <1>7, <2>2 DEF HeldLast, LG!TimeOf, LG!LineAt
  <2> QED BY <2>1, <2>2
<1> PICK len : len = Len(output)
  OBVIOUS
<1> HIDE DEF p
<1>11. /\ len \in Nat /\ Len(output') = len + 1
       /\ \A i \in 1 .. len : LG!TimeOut(i)' = LG!TimeOut(i)
       /\ LG!TimeOut(len + 1)' = t
  BY <1>1, <1>3, <1>4, TimesStay
<1>12. \A i \in 1 .. len : LG!TimeOut(i) # 0 /\ (\A g \in LG!Logs : LG!Sorted(LG!Times(g)))
          => LG!TimeOut(i) <= t
  <2> DEFINE n == LG!LineAt(partial[f].from)
  <2>1. /\ n \in Nat /\ Line(f, n) /\ OutputTo(f) = 2 * (n - 1) /\ t = LG!Times(f)[n]
    BY <1>2, HeldLine
  <2> HIDE DEF n
  <2>2. OutputTo(f) <= 2 * (n - 1)
    BY <2>1
  <2> QED BY <1>1, <1>2, <1>3, <2>1, <2>2 DEF NothingLater, Live
<1>13. LG!InOrder'
  <2> SUFFICES ASSUME \A g \in LG!Logs : LG!Sorted(LG!Times(g)),
                      NEW i \in 1 .. len + 1, NEW j \in 1 .. len + 1, i < j,
                      LG!TimeOut(i)' # 0, LG!TimeOut(j)' # 0
               PROVE  LG!TimeOut(i)' <= LG!TimeOut(j)'
    BY <1>11 DEF LG!InOrder, LG!Sorted, LG!Times
  <2>1. i \in 1 .. len
    BY <1>11
  <2>2. CASE j = len + 1
    BY <1>11, <1>12, <2>1, <2>2
  <2>3. CASE j \in 1 .. len
    BY <1>1, <1>3, <1>11, <2>1, <2>3 DEF LG!InOrder
  <2> QED BY <1>11, <2>2, <2>3
<1>14. NothingLater'
  <2> SUFFICES ASSUME \A g \in LG!Logs : LG!Sorted(LG!Times(g)),
                      NEW i \in 1 .. len + 1, NEW g \in LG!Logs, NEW n \in Nat,
                      LG!TimeOut(i)' # 0, Live(g)', Line(g, n), OutputTo(g)' <= 2 * (n - 1)
               PROVE  LG!TimeOut(i)' <= LG!Times(g)[n]
    BY <1>11 DEF NothingLater, LG!Sorted, LG!Times, Line
  <2>1. LG!Held(g)
    BY <1>1, <1>2, <1>5, <1>7 DEF Live, LG!Advancing
  <2> DEFINE m == LG!LineAt(partial[g].from)
  <2>2. /\ m \in Nat /\ Line(g, m) /\ partial[g].from = 2 * (m - 1) /\ OutputTo(g) = 2 * (m - 1)
        /\ LG!HeldTime(g) = LG!Times(g)[m] /\ LG!HeldTime(g) \in Nat
    BY <2>1, HeldLine
  <2> HIDE DEF m
  <2>3. m <= n
    <3>1. CASE g = f
      BY <1>3, <1>6, <2>2, <3>1
    <3>2. CASE g # f
      BY <1>7, <2>2, <3>2
    <3> QED BY <3>1, <3>2
  <2>4. LG!Times(g)[m] <= LG!Times(g)[n]
    <3>1. CASE m = n
      BY <2>2, <3>1
    <3>2. CASE m < n
      BY <2>2, <3>2 DEF LG!Sorted, Line
    <3> QED BY <2>2, <2>3, <3>1, <3>2
  <2>5. LG!Times(g)[n] \in Nat
    BY TimesType DEF Line
  <2>6. CASE i = len + 1
    <3>1. t <= LG!HeldTime(g) /\ t \in Nat
      BY <1>2, <2>1, HeldLine
    <3> QED BY <1>11, <2>2, <2>4, <2>5, <2>6, <3>1
  <2>7. CASE i \in 1 .. len
    <3>1. LG!TimeOut(i) # 0 /\ LG!TimeOut(i)' = LG!TimeOut(i)
      BY <1>11, <2>7
    <3>2. OutputTo(g) <= 2 * (n - 1)
      BY <2>2, <2>3
    <3>3. LG!TimeOut(i) <= LG!Times(g)[n]
      BY <1>1, <1>3, <2>1, <2>7, <3>1, <3>2 DEF NothingLater, Live
    <3> QED BY <3>1, <3>3
  <2> QED BY <1>11, <2>6, <2>7
<1>15. Quiet'
  BY <1>1 DEF Quiet
<1> QED BY <1>8, <1>9, <1>10, <1>13, <1>14, <1>15 DEF LogInv

LEMMA AdvanceMoves ==
  ASSUME LG!LogAssumption, LogInv, NEW f \in LG!Logs, LG!Advance(f)
  PROVE  LogInv'
<1> PICK from : from = offset[f]
  OBVIOUS
<1> PICK r : r = LG!ReadLine(f, offset[f])
  OBVIOUS
<1>1. /\ reading = "merge" /\ ~LG!Held(f) /\ ~sawEnd[f] /\ UNCHANGED <<present, size, reading>>
      /\ offset' = [offset EXCEPT ![f] = r.to]
      /\ sawEnd' = [sawEnd EXCEPT ![f] = r.to = r.from \/ r.to % 2 = 1]
      /\ \/ r.to = r.from /\ UNCHANGED <<partial, output>>
         \/ /\ r.to # r.from /\ LG!TimeOf(f, r) # 0
            /\ partial' = [partial EXCEPT ![f] = r] /\ UNCHANGED output
         \/ /\ r.to # r.from /\ LG!TimeOf(f, r) = 0
            /\ output' = Append(output, LG!Piece(f, r.from, r.to)) /\ UNCHANGED partial
  BY DEF LG!Advance, LG!Advancing
<1>2. /\ LogTypes /\ Within /\ HeldLast /\ AllSeen /\ LG!NoGap /\ NothingLater /\ LG!InOrder
      /\ output \in Seq(LogPieces) /\ sawEnd \in [LG!Logs -> BOOLEAN]
      /\ partial \in [LG!Logs -> [from : Nat, to : Nat]] /\ offset \in [LG!Logs -> Nat]
  BY DEF LogInv, LogTypes
<1>3. /\ r \in [from : Nat, to : Nat] /\ r.from = from /\ r.from <= r.to /\ r.to <= size[f]
      /\ from \in Nat /\ r.from \in Nat /\ r.to \in Nat
  BY <1>2, ReadTypes DEF Within
<1>4. r.from % 2 = 0
  BY <1>1, <1>2, <1>3 DEF HeldLast
<1>5. /\ offset' \in [LG!Logs -> Nat] /\ offset'[f] = r.to
      /\ \A g \in LG!Logs \ {f} : offset'[g] = offset[g] /\ sawEnd'[g] = sawEnd[g]
      /\ sawEnd' \in [LG!Logs -> BOOLEAN] /\ sawEnd'[f] = (r.to = r.from \/ r.to % 2 = 1)
  BY <1>1, <1>2, <1>3
<1>6. ~sawEnd'[f] => r.to % 2 = 0
  <2>1. \A n \in Nat : n % 2 # 1 => n % 2 = 0
    OBVIOUS
  <2> QED BY <1>3, <1>5, <2>1
<1>7. \A g \in LG!Logs \ {f} : partial'[g] = partial[g]
  BY <1>1, <1>2
<1>8. OutputTo(f) = r.from
  BY <1>1, <1>3 DEF OutputTo
<1>9. \A g \in LG!Logs \ {f} :
        (LG!Held(g)' <=> LG!Held(g)) /\ OutputTo(g)' = OutputTo(g) /\ (Live(g)' <=> Live(g))
  BY <1>5, <1>7 DEF LG!Held, OutputTo, Live
<1>10. Within'
  BY <1>1, <1>2, <1>3, <1>5 DEF Within
<1>11. Quiet'
  BY <1>1 DEF Quiet
<1>12. ASSUME /\ LG!Held(f)' => r.from < r.to /\ partial'[f] = r /\ LG!TimeOf(f, r) # 0
       PROVE  HeldLast'
  <2> SUFFICES ASSUME NEW g \in LG!Logs
               PROVE  (/\ reading # "merge" => ~LG!Held(g)
                       /\ reading = "checked" => offset[g] = 0
                       /\ LG!Held(g) =>
                            /\ partial[g].from < partial[g].to /\ partial[g].to = offset[g]
                            /\ partial[g].from % 2 = 0 /\ LG!TimeOf(g, partial[g]) # 0
                       /\ reading = "merge" /\ ~sawEnd[g] => offset[g] % 2 = 0)'
    BY DEF HeldLast
  <2>1. CASE g = f
    <3>1. LG!Held(f)' => LG!TimeOf(f, partial[f])' # 0
      BY <1>12 DEF LG!TimeOf, LG!LineAt
    <3> QED BY <1>1, <1>4, <1>5, <1>6, <1>12, <2>1, <3>1
  <2>2. CASE g # f
    <3>1. partial'[g] = partial[g] /\ offset'[g] = offset[g] /\ sawEnd'[g] = sawEnd[g]
      BY <1>5, <1>7, <2>2
    <3>2. (LG!Held(g)' <=> LG!Held(g)) /\ LG!TimeOf(g, partial[g])' = LG!TimeOf(g, partial[g])
      BY <1>9, <2>2, <3>1 DEF LG!TimeOf, LG!LineAt
    <3> QED BY <1>1, <1>2, <3>1, <3>2 DEF HeldLast
  <2> QED BY <2>1, <2>2
<1>13. CASE UNCHANGED output /\ OutputTo(f)' = OutputTo(f)
  <2> PICK len : len = Len(output)
    OBVIOUS
  <2>5. output' = output /\ Len(output') = len /\ \A g \in LG!Logs : OutputTo(g)' = OutputTo(g)
    BY <1>9, <1>13
  <2>6. ASSUME NEW g, NEW n, NEW pos PROVE LG!Seen(g, n, pos)' <=> LG!Seen(g, n, pos)
    BY <2>5 DEF LG!Seen
  <2>7. AllSeen'
    <3> SUFFICES ASSUME NEW g \in LG!Logs PROVE LG!Seen(g, Len(output), OutputTo(g))'
      BY DEF AllSeen
    <3> PICK pos : pos = OutputTo(g)
      OBVIOUS
    <3>1. LG!Seen(g, len, pos)
      BY <1>2 DEF AllSeen
    <3>2. LG!Seen(g, len, pos)'
      BY <2>6, <3>1
    <3> QED BY <2>5, <3>2
  <2>8. LG!NoGap'
    <3> SUFFICES ASSUME NEW i \in 1 .. len
                 PROVE  LG!Seen(output[i].log, i - 1, output[i].from)'
      BY <2>5 DEF LG!NoGap
    <3>1. LG!Seen(output[i].log, i - 1, output[i].from)
      BY <1>2 DEF LG!NoGap
    <3> PICK g, pos : g = output[i].log /\ pos = output[i].from
      OBVIOUS
    <3>2. LG!Seen(g, i - 1, pos)'
      BY <2>6, <3>1
    <3> QED BY <2>5, <3>2
  <2>1. AllSeen' /\ LG!NoGap'
    BY <2>7, <2>8
  <2>2. NothingLater'
    BY <1>1, <1>2, <1>9, <1>13 DEF NothingLater, Live, LG!TimeOut, LG!TimeOf, LG!LineAt, LG!Sorted, Line
  <2>3. LG!InOrder'
    BY <1>1, <1>2, <1>13 DEF LG!InOrder, LG!TimeOut, LG!TimeOf, LG!LineAt
  <2>4. HeldLast' /\ LogTypes'
    <3>1. CASE UNCHANGED partial
      <4>1. ~LG!Held(f)'
        BY <1>1, <3>1 DEF LG!Held
      <4> QED BY <1>1, <1>2, <1>5, <1>12, <1>13, <3>1, <4>1 DEF LogTypes
    <3>2. CASE ~UNCHANGED partial
      <4>1. r.to # r.from /\ LG!TimeOf(f, r) # 0 /\ partial' = [partial EXCEPT ![f] = r]
        BY <1>1, <3>2
      <4>2. partial'[f] = r /\ r.from < r.to /\ partial' \in [LG!Logs -> [from : Nat, to : Nat]]
        BY <1>2, <1>3, <4>1
      <4>3. HeldLast'
        BY <1>12, <4>1, <4>2
      <4> QED BY <1>1, <1>2, <1>5, <1>13, <4>2, <4>3 DEF LogTypes
    <3> QED BY <3>1, <3>2
  <2> QED BY <1>10, <1>11, <2>1, <2>2, <2>3, <2>4 DEF LogInv
<1>14. CASE r.to = r.from
  <2>1. UNCHANGED <<output, partial>>
    BY <1>1, <1>14
  <2>2. OutputTo(f)' = OutputTo(f)
    BY <1>1, <1>3, <1>5, <1>8, <1>14, <2>1 DEF OutputTo, LG!Held
  <2> QED BY <1>13, <2>1, <2>2
<1>15. CASE r.to # r.from /\ LG!TimeOf(f, r) # 0
  <2>1. partial' = [partial EXCEPT ![f] = r] /\ UNCHANGED output
    BY <1>1, <1>15
  <2>2. LG!Held(f)' /\ partial'[f] = r
    <3>1. partial'[f] = r
      BY <1>2, <2>1
    <3>2. r # LG!Nothing
      BY <1>3, <1>15 DEF LG!Nothing
    <3> QED BY <3>1, <3>2 DEF LG!Held
  <2>3. OutputTo(f)' = OutputTo(f)
    BY <1>8, <2>2 DEF OutputTo
  <2> QED BY <1>13, <2>1, <2>3
<1>16. CASE r.to # r.from /\ LG!TimeOf(f, r) = 0
  <2> PICK begin, end : begin = r.from /\ end = r.to
    OBVIOUS
  <2> DEFINE p == LG!Piece(f, begin, end)
  <2>1. output' = Append(output, p) /\ UNCHANGED partial
    BY <1>1, <1>16
  <2>2. ~LG!Held(f)' /\ OutputTo(f)' = r.to
    BY <1>1, <1>5, <2>1 DEF OutputTo, LG!Held
  <2>3. /\ p \in LogPieces /\ LG!TimeOf(p.log, p) = 0
    BY <1>3, <1>16 DEF LG!Piece, LogPieces, LG!TimeOf
  <2>4. r.from < r.to
    BY <1>3, <1>16
  <2>5. /\ output' \in Seq(LogPieces) /\ \A i \in 1 .. Len(output') : output'[i].from < output'[i].to
        /\ AllSeen' /\ LG!NoGap'
    BY <1>2, <1>3, <1>8, <1>9, <2>1, <2>2, <2>4, PieceOut
  <2>6. LogTypes' /\ HeldLast'
    BY <1>1, <1>2, <1>5, <1>12, <2>1, <2>2, <2>5 DEF LogTypes
  <2> PICK len : len = Len(output)
    OBVIOUS
  <2> HIDE DEF p
  <2>7. /\ len \in Nat /\ Len(output') = len + 1
        /\ \A i \in 1 .. len : LG!TimeOut(i)' = LG!TimeOut(i)
        /\ LG!TimeOut(len + 1)' = 0
    BY <1>2, <2>1, <2>3, TimesStay
  <2>8. LG!InOrder'
    <3> SUFFICES ASSUME \A g \in LG!Logs : LG!Sorted(LG!Times(g)),
                        NEW i \in 1 .. len + 1, NEW j \in 1 .. len + 1, i < j,
                        LG!TimeOut(i)' # 0, LG!TimeOut(j)' # 0
                 PROVE  LG!TimeOut(i)' <= LG!TimeOut(j)'
      BY <2>7 DEF LG!InOrder, LG!Sorted, LG!Times
    <3>1. i \in 1 .. len /\ j \in 1 .. len
      BY <2>7
    <3> QED BY <1>1, <1>2, <2>7, <3>1 DEF LG!InOrder
  <2>9. NothingLater'
    <3> SUFFICES ASSUME \A g \in LG!Logs : LG!Sorted(LG!Times(g)),
                        NEW i \in 1 .. len + 1, NEW g \in LG!Logs, NEW n \in Nat,
                        LG!TimeOut(i)' # 0, Live(g)', Line(g, n), OutputTo(g)' <= 2 * (n - 1)
                 PROVE  LG!TimeOut(i)' <= LG!Times(g)[n]
      BY <2>7 DEF NothingLater, LG!Sorted, LG!Times, Line
    <3>1. i \in 1 .. len
      BY <2>7
    <3>2. Live(g) /\ OutputTo(g) <= 2 * (n - 1)
      <4>1. CASE g = f
        BY <1>1, <1>3, <1>8, <2>2, <4>1 DEF Live
      <4>2. CASE g # f
        BY <1>9, <4>2
      <4> QED BY <4>1, <4>2
    <3>3. LG!TimeOut(i) # 0 /\ LG!TimeOut(i)' = LG!TimeOut(i)
      BY <2>7, <3>1
    <3> QED BY <1>1, <1>2, <2>7, <3>1, <3>2, <3>3 DEF NothingLater
  <2> QED BY <1>10, <1>11, <2>5, <2>6, <2>8, <2>9 DEF LogInv
<1> QED BY <1>14, <1>15, <1>16

LEMMA LogMoves ==
  ASSUME LG!LogAssumption, LogInv, LG!LGNext \/ UNCHANGED LG!lgVars
  PROVE  LogInv'
<1>1. CASE UNCHANGED LG!lgVars
  <2>1. UNCHANGED <<present, size, reading, offset, sawEnd, partial, output>>
    BY <1>1 DEF LG!lgVars
  <2>2. LogTypes' /\ Within' /\ Quiet'
    BY <2>1 DEF LogInv, LogTypes, Within, Quiet
  <2>3. HeldLast'
    BY <2>1 DEF LogInv, HeldLast, LG!Held, LG!TimeOf, LG!LineAt
  <2>4. AllSeen'
    BY <2>1 DEF LogInv, AllSeen, LG!Seen, OutputTo, LG!Held
  <2>5. LG!NoGap'
    BY <2>1 DEF LogInv, LG!NoGap, LG!Seen
  <2>6. NothingLater'
    BY <2>1 DEF LogInv, NothingLater, LG!TimeOut, LG!TimeOf, LG!LineAt, Live, OutputTo, LG!Held,
                LG!Sorted, Line
  <2>7. LG!InOrder'
    BY <2>1 DEF LogInv, LG!InOrder, LG!TimeOut, LG!TimeOf, LG!LineAt, LG!Sorted
  <2> QED BY <2>2, <2>3, <2>4, <2>5, <2>6, <2>7 DEF LogInv
<1>2. CASE LG!LGNext
  BY <1>2, OpenLogsMoves, MergeLineMoves, MergeEndsMoves, WriteLogMoves, AdvanceMoves, FollowLineMoves
     DEF LG!LGNext
<1> QED BY <1>1, <1>2

LEMMA LogKept ==
  ASSUME LogInv PROVE LG!LGTypeOK /\ LG!NoGap /\ LG!InOrder
<1>1. ASSUME NEW f \in LG!Logs PROVE offset[f] <= size[f] /\ partial[f].to <= offset[f]
  <2>1. /\ offset[f] <= size[f] /\ offset[f] \in Nat
        /\ partial[f] \in [from : Nat, to : Nat]
        /\ LG!Held(f) => partial[f].to = offset[f]
    BY DEF LogInv, LogTypes, Within, HeldLast
  <2>2. ~LG!Held(f) => partial[f].to = 0
    BY DEF LG!Held, LG!Nothing
  <2> QED BY <2>1, <2>2
<1>2. \A i \in 1 .. Len(output) : output[i].log \in LG!Logs /\ output[i].from < output[i].to
  <2> SUFFICES ASSUME NEW i \in 1 .. Len(output)
               PROVE  output[i].log \in LG!Logs /\ output[i].from < output[i].to
    OBVIOUS
  <2>1. output \in Seq(LogPieces) /\ output[i].from < output[i].to
    BY DEF LogInv, LogTypes
  <2>2. output[i] \in LogPieces
    BY <2>1
  <2> QED BY <2>1, <2>2 DEF LogPieces
<1> QED BY <1>1, <1>2 DEF LogInv, LogTypes, LG!LGTypeOK
=============================================================================
