------------------------------ MODULE ModelsAPI ------------------------------
(***************************************************************************)
(* The models API: pkg/inference/models (manager.go, http_handler.go) over *)
(* the distribution client.  Requests interleave: what one of them read    *)
(* from the store may have changed when it acts on it.  One operation of   *)
(* the store is one step here; ModelStore looks inside it.                 *)
(***************************************************************************)
EXTENDS Naturals, FiniteSets, Sequences

CONSTANTS Requests, Models, Tags, Names,
          NameOf,    \* by tag: its name without organization and version
          LatestOf,  \* by name: the tag that normalizeModelName makes of it
          Kept,      \* the tags that a store may have at first
          MaxPulls   \* maximumConcurrentModelPulls

\* A partial name is never an ID: those begin with "sha256:".
ModelsAssumption ==
  /\ IsFiniteSet(Requests) /\ MaxPulls \in Nat
  /\ LatestOf \in [Names -> Tags] /\ Kept \subseteq [Tags -> Models \cup {""}]
  /\ Names \cap Models = {}

VARIABLES
  tokens,  \* pullTokens
  stored,  \* the models of the store
  tags,    \* by tag: its model, "" for none
  reqs     \* by request: what it asks, where it is, and its answer

maVars == <<tokens, stored, tags, reqs>>
None == ""
Refs == Tags \cup Names \cup Models
Denoted(r) ==
  IF r \in Models THEN (IF r \in stored THEN r ELSE None)
  ELSE tags[IF r \in Names THEN LatestOf[r] ELSE r]
TagsOf(m) == {t \in Tags : tags[t] = m}
\* "sha256:..." is looked up among the IDs, any other text among the names.
Matching(r) ==
  {t \in Tags : tags[t] # None /\ (IF r \in Models THEN tags[t] = r ELSE NameOf[t] = r)}

Statuses == {0, 200, 201, 400, 401, 404, 409, 422, 500}
Fresh(op, r, t, force) ==
  [op |-> op, at |-> "new", ref |-> r, target |-> t, force |-> force, found |-> None, model |-> None,
   several |-> FALSE, gone |-> FALSE, failed |-> "", status |-> 0, lines |-> {}]
Ats == {"none", "new", "pulling", "lookup", "apply", "untag", "delete", "done"}
MATypeOK ==
  /\ stored \subseteq Models /\ tags \in [Tags -> stored \cup {None}]
  /\ \A q \in Requests : reqs[q].at \in Ats /\ reqs[q].status \in Statuses
  \* a token is held by each pull, and by nothing else
  /\ tokens + Cardinality({q \in Requests : reqs[q].at = "pulling"}) = MaxPulls

MAInit ==
  /\ tokens = MaxPulls /\ tags \in Kept /\ stored = {tags[t] : t \in Tags} \ {None}
  /\ reqs = [q \in Requests |-> [Fresh("inspect", None, None, FALSE) EXCEPT !.at = "none"]]

At(q, op, at) == reqs[q].op = op /\ reqs[q].at = at
Goes(q, changes) == reqs' = [reqs EXCEPT ![q] = changes]
\* The first write of a body sends status 200; http.Error can then only add text.
Wrote(r, line) == [r EXCEPT !.lines = @ \cup {line}, !.status = IF @ = 0 THEN 200 ELSE @]
Done(r, status) == [r EXCEPT !.at = "done", !.status = IF @ = 0 THEN status ELSE @]
HttpErrorLost(r, why, status) == [Done(r, 200) EXCEPT !.failed = why]
HttpError(r, why, status) == [Wrote(Done(r, status), "text") EXCEPT !.failed = why]

Arrive(q) ==
  /\ reqs[q].at = "none"
  /\ \/ \E t \in Tags : Goes(q, Fresh("create", t, None, FALSE))
     \/ \E r \in Refs, t \in Tags : Goes(q, Fresh("tag", r, t, FALSE))
     \/ \E r \in Refs : Goes(q, Fresh("inspect", r, None, FALSE))
     \/ \E r \in Refs, f \in BOOLEAN : Goes(q, Fresh("delete", r, None, f))
  /\ UNCHANGED <<tokens, stored, tags>>

-----------------------------------------------------------------------------
(* Pull.  A request that waits for a token or pulls may lose its client. *)
TakeToken(q) ==
  /\ At(q, "create", "new") /\ tokens > 0 /\ tokens' = tokens - 1
  /\ Goes(q, [reqs[q] EXCEPT !.at = "pulling"]) /\ UNCHANGED <<stored, tags>>
ClientLeaves(q) ==
  /\ reqs[q].op = "create" /\ reqs[q].at \in {"new", "pulling"} /\ ~reqs[q].gone
  /\ Goes(q, [reqs[q] EXCEPT !.gone = TRUE]) /\ UNCHANGED <<tokens, stored, tags>>
GivenBack == tokens + 1
TakenBack == GivenBack
NotTaken == tokens
GiveUpWaiting(q) ==
  /\ At(q, "create", "new") /\ reqs[q].gone
  /\ Goes(q, [Done(reqs[q], 200) EXCEPT !.failed = "cancelled"])
  /\ tokens' = NotTaken /\ UNCHANGED <<stored, tags>>
PullProgress(q) ==
  /\ At(q, "create", "pulling") /\ "progress" \notin reqs[q].lines
  /\ Goes(q, Wrote(reqs[q], "progress")) /\ UNCHANGED <<tokens, stored, tags>>
PullStores(q) ==
  /\ At(q, "create", "pulling") /\ tokens' = GivenBack
  /\ \E m \in Models : stored' = stored \cup {m} /\ tags' = [tags EXCEPT ![reqs[q].ref] = m]
  /\ Goes(q, Done(Wrote(reqs[q], "success"), 200))
\* Before anything is written, by what errors.Is finds in the error.
Refusals == [invalid |-> 400, unauthorized |-> 401, unknown |-> 404, media |-> 422, other |-> 500]
PullRefused(q) ==
  /\ At(q, "create", "pulling") /\ reqs[q].lines = {} /\ tokens' = GivenBack
  /\ \E why \in DOMAIN Refusals : Goes(q, HttpError(reqs[q], why, Refusals[why]))
  /\ UNCHANGED <<stored, tags>>
\* While the store writes: PullModel tells the stream itself, then the handler adds its text.
PullBreaks(q) ==
  /\ At(q, "create", "pulling") /\ tokens' = GivenBack
  /\ Goes(q, HttpError(Wrote(reqs[q], "error"), "other", 500)) /\ UNCHANGED <<stored, tags>>
\* A cached model is announced before its tag is added, which may fail.
CachedNotTagged(q) ==
  /\ At(q, "create", "pulling") /\ stored # {} /\ tokens' = GivenBack
  /\ Goes(q, HttpError(Wrote(reqs[q], "success"), "other", 500)) /\ UNCHANGED <<stored, tags>>
\* Cancelled, or the deadline of a dial passed: the handler says nothing.
PullSilent(q) ==
  /\ At(q, "create", "pulling") /\ tokens' = GivenBack
  /\ \E why \in {"cancelled", "timeout"} :
       /\ why = "cancelled" => reqs[q].gone
       /\ Goes(q, [Done(IF reqs[q].lines = {} THEN reqs[q] ELSE Wrote(reqs[q], "error"), 200) EXCEPT !.failed = why])
  /\ UNCHANGED <<stored, tags>>

-----------------------------------------------------------------------------
(* Tag and inspect: the reference as it is, then as an ID or a partial name. *)
Ask(q) ==
  /\ reqs[q].op \in {"tag", "inspect"} /\ reqs[q].at = "new"
  /\ IF Denoted(reqs[q].ref) = None
     THEN Goes(q, [reqs[q] EXCEPT !.at = "lookup"]) /\ UNCHANGED tags
     ELSE /\ Goes(q, Done(reqs[q], IF reqs[q].op = "tag" THEN 201 ELSE 200))
          /\ tags' = IF reqs[q].op = "tag" THEN [tags EXCEPT ![reqs[q].target] = Denoted(reqs[q].ref)] ELSE tags
  /\ UNCHANGED <<tokens, stored>>
Lookup(q) ==
  /\ reqs[q].at = "lookup" /\ UNCHANGED <<tokens, stored, tags>>
  /\ IF Matching(reqs[q].ref) = {} THEN Goes(q, HttpError(reqs[q], "unknown", 404))
     ELSE \E t \in Matching(reqs[q].ref) :
            Goes(q, IF reqs[q].op = "inspect" THEN Done(reqs[q], 200)
                    ELSE [reqs[q] EXCEPT !.at = "apply", !.found = t, !.model = tags[t]])
AsFound(r) == IF r.model \in stored THEN r.model ELSE None
AsTagged(r) == tags[r.found]
ApplyTag(q) ==
  /\ reqs[q].at = "apply" /\ UNCHANGED <<tokens, stored>>
  /\ IF AsTagged(reqs[q]) = None
     THEN Goes(q, HttpError(reqs[q], "unknown", 404)) /\ UNCHANGED tags
     ELSE tags' = [tags EXCEPT ![reqs[q].target] = AsTagged(reqs[q])] /\ Goes(q, Done(reqs[q], 201))

-----------------------------------------------------------------------------
(* Delete: the model is read, its tag removed, and the model deleted when it
   had no other tag at the time it was read. *)
DeleteRead(q) ==
  /\ At(q, "delete", "new") /\ UNCHANGED <<tokens, stored, tags>>
  /\ LET m == Denoted(reqs[q].ref)
         several == Cardinality(TagsOf(m)) > 1
     IN  Goes(q, IF m = None THEN HttpError(reqs[q], "unknown", 404)
                 ELSE IF reqs[q].ref \notin Models
                 THEN [reqs[q] EXCEPT !.at = "untag", !.model = m, !.several = several]
                 ELSE IF several /\ ~reqs[q].force THEN HttpError(reqs[q], "conflict", 409)
                 ELSE [reqs[q] EXCEPT !.at = "delete", !.model = m])
DeleteUntag(q) ==
  /\ reqs[q].at = "untag" /\ UNCHANGED <<tokens, stored>>
  /\ tags' = [tags EXCEPT ![IF reqs[q].ref \in Names THEN LatestOf[reqs[q].ref] ELSE reqs[q].ref] = None]
  /\ Goes(q, IF reqs[q].several THEN Done(reqs[q], 200) ELSE [reqs[q] EXCEPT !.at = "delete"])
DeleteAll(q) ==
  /\ reqs[q].at = "delete" /\ UNCHANGED tokens
  /\ stored' = stored \ {reqs[q].model}
  /\ tags' = [t \in Tags |-> IF tags[t] = reqs[q].model THEN None ELSE tags[t]]
  /\ Goes(q, IF reqs[q].model \in stored THEN Done(reqs[q], 200) ELSE HttpError(reqs[q], "unknown", 404))

MANext ==
  \E q \in Requests :
    \/ Arrive(q) \/ TakeToken(q) \/ ClientLeaves(q) \/ GiveUpWaiting(q) \/ PullProgress(q) \/ PullStores(q)
    \/ PullRefused(q) \/ PullBreaks(q) \/ CachedNotTagged(q) \/ PullSilent(q)
    \/ Ask(q) \/ Lookup(q) \/ ApplyTag(q) \/ DeleteRead(q) \/ DeleteUntag(q) \/ DeleteAll(q)
MASpec == MAInit /\ [][MANext]_maVars

-----------------------------------------------------------------------------
(* A client that waits learns that its request failed, from the status or,
   when the stream had begun, from what ends it, and is not told so of one
   that succeeded (handleCreateModel and PullModel).  A dial that times out
   before the first line is the exception: it is taken for a client that
   left, and answered by 200 and nothing. *)
Told(r) == r.status >= 400 \/ r.lines \cap {"error", "text"} # {}
FailureTold ==
  \A q \in Requests : LET r == reqs[q] IN
    r.at = "done" /\ ~r.gone /\ (r.failed = "timeout" => r.lines # {}) => (Told(r) <=> r.failed # "")

(* A model tagged by a partial name answers to that name when it is tagged,
   whatever other requests retagged since the lookup (Manager.Tag). *)
TagByNameStep ==
  \A q \in Requests : LET r == reqs[q] IN
    r.op = "tag" /\ r.ref \in Names /\ r.at # "done" /\ reqs'[q].status = 201
      => \E t \in TagsOf(tags'[r.target]) : NameOf[t] = r.ref \/ t = LatestOf[r.ref]
TagByName == [][TagByNameStep]_maVars
=============================================================================
