------------------------------ MODULE Recorder ------------------------------
(***************************************************************************)
(* Inference requests and the OpenAI recorder (pkg/metrics), as the        *)
(* handlers and runners of pkg/inference/scheduling use it: requests are   *)
(* recorded in a short list per model, answered, and streamed to           *)
(* subscribers; a runner that ends takes its model's records with it.      *)
(* Record pointers are shared: a record is named by its request, the lists *)
(* are a heap, and readers walk a list after the lock is given up.         *)
(***************************************************************************)
EXTENDS Integers, Sequences, SequencesExt, FiniteSets

CONSTANTS
  Calls,       \* inference requests
  Refs, IDs,   \* names of models, and the models
  Modes,       \* of runners
  BodyOf,      \* per request, its origin, the modes its path may ask for and the
               \* backend's answer: [origin, modes, status, lines]
  Filters,     \* the model a subscriber asks for, Every for all
  Subscribers, \* clients of GET requests with an event stream
  MaxRecords,  \* maximumRecordsPerModel
  Buffer,      \* subscriberChannelBuffer
  MaxMoves,    \* bound: times a name moves to another model
  NoBody, Every

RecorderAssumption ==
  /\ MaxRecords \in Nat \ {0} /\ Buffer \in Nat \ {0} /\ MaxMoves \in Nat
  /\ \A c \in Calls : BodyOf[c].modes \subseteq Modes
  /\ IDs # {} /\ IsFiniteSet(IDs)

VARIABLES
  named,      \* the model of each name; moved by pulls and tags
  moves,
  runners,    \* <<model, mode>> of the registered runners
  call,       \* the requests
  heap,       \* ModelData objects: config and list of records
  records,    \* OpenAIRecorder.records: index into heap, 0 if there is none
  answered,   \* what each record says of the response, NoBody before
  pending,    \* broadcasts that have not got the lock yet
  sending,    \* broadcasts with the read lock: messages still to be sent
  sub,        \* the subscribers, and what they have been sent
  excuse,     \* per request: what took its record away before the answer
  panicked    \* a send on a closed channel

recVars == <<named, moves, runners, call, heap, records, answered, pending, sending, sub, excuse, panicked>>

NoRecord == <<>>
Idle == [pc |-> "idle"]
NotSubscribed == [pc |-> "idle", chan |-> <<>>]
Running == {c \in Calls : call[c].pc \notin {"idle", "done"}}
Serving == {c \in Calls : call[c].pc \in {"serving", "served", "converted"}}

\* Mutant: requests of one moment share a record ID.
RecordIDCoarse(id, c) == <<id>>

\* time.Now().UnixNano() is different for any two requests.
RecordID(id, c) == <<id, c>>

RecInit ==
  /\ named = [n \in Refs |-> CHOOSE id \in IDs : TRUE]
  /\ moves = 0
  /\ runners = {}
  /\ call = [c \in Calls |-> Idle]
  /\ heap = <<>>
  /\ records = [id \in IDs |-> 0]
  /\ answered = [c \in Calls |-> NoBody]
  /\ pending = {}
  /\ sending = {}
  /\ sub = [s \in Subscribers |-> NotSubscribed]
  /\ excuse = [c \in Calls |-> {}]
  /\ panicked = FALSE

Retag(n) ==
  /\ moves < MaxMoves
  /\ moves' = moves + 1
  /\ \E id \in IDs : id # named[n] /\ named' = [named EXCEPT ![n] = id]
  /\ excuse' = [c \in Calls |-> IF c \in Running /\ call[c].ref = n THEN excuse[c] \cup {"moved"} ELSE excuse[c]]
  /\ UNCHANGED <<runners, call, heap, records, answered, pending, sending, sub, panicked>>

\* SetConfigForModel, from run
SetConfig(id) ==
  IF records[id] = 0
  THEN /\ heap' = Append(heap, [config |-> TRUE, recs |-> <<>>])
       /\ records' = [records EXCEPT ![id] = Len(heap) + 1]
  ELSE /\ heap' = [heap EXCEPT ![records[id]].config = TRUE]
       /\ UNCHANGED records

\* load: a runner is leased, and started if there is none.
LoadRunner(c, n, mode) ==
  LET id == named[n]
  IN  /\ call[c] = Idle
      /\ call' = [call EXCEPT ![c] = [pc |-> "loaded", ref |-> n, runner |-> <<id, mode>>,
                                      rid |-> NoRecord, answer |-> NoBody]]
      /\ runners' = runners \cup {<<id, mode>>}
      /\ IF <<id, mode>> \in runners THEN UNCHANGED <<heap, records>> ELSE SetConfig(id)
      /\ UNCHANGED <<named, moves, answered, pending, sending, sub, excuse, panicked>>

\* terminate, and RemoveModel in it: the records go, whatever runner they
\* were written for.
RemoveModel(id, who) ==
  /\ records' = [records EXCEPT ![id] = 0]
  /\ excuse' = [c \in Calls |-> IF c \in who THEN excuse[c] \cup {"removed"} ELSE excuse[c]]

OfOtherRunners(r) == {c \in Running : call[c].runner # r /\ call[c].runner[1] = r[1]}

\* Mutant: the loader does not look at the lease.
UnleasedOrNot(r) == r \in runners

Unleased(r) == r \in runners /\ \A c \in Running : call[c].runner # r

Terminate(r) ==
  /\ Unleased(r)
  /\ runners' = runners \ {r}
  /\ RemoveModel(r[1], OfOtherRunners(r))
  /\ UNCHANGED <<named, moves, call, heap, answered, pending, sending, sub, panicked>>

\* Mutant: the list grows by one more.
PushedOver(recs, c) == IF Len(recs) > MaxRecords THEN Append(Tail(recs), c) ELSE Append(recs, c)

\* The list with one record more: in place, shifted when it is full.
Pushed(recs, c) == IF Len(recs) = MaxRecords THEN Append(Tail(recs), c) ELSE Append(recs, c)

\* RecordRequest resolves the name again.  A subscriber that is reading the
\* list reads the shifted one.
RecordRequest(c) ==
  LET id == named[call[c].ref]
      old == IF records[id] = 0 THEN [config |-> FALSE, recs |-> <<>>] ELSE heap[records[id]]
      at == IF records[id] = 0 THEN Len(heap) + 1 ELSE records[id]
      new == [old EXCEPT !.recs = Pushed(@, c)]
      shifted == Range(old.recs) \ Range(new.recs)
  IN  /\ call[c].pc = "loaded"
      /\ call' = [call EXCEPT ![c].rid = RecordID(id, c), ![c].pc = "serving"]
      /\ heap' = IF at > Len(heap) THEN Append(heap, new) ELSE [heap EXCEPT ![at] = new]
      /\ records' = [records EXCEPT ![id] = at]
      /\ excuse' = [d \in Calls |-> IF d \in shifted THEN excuse[d] \cup {"shifted"} ELSE excuse[d]]
      /\ sub' = [s \in Subscribers |->
                   IF sub[s].pc = "listing" /\ shifted # {} /\ \E l \in Range(sub[s].list) : l[1] = at
                   THEN [sub[s] EXCEPT !.sure = FALSE] ELSE sub[s]]
      /\ UNCHANGED <<named, moves, runners, answered, pending, sending, panicked>>

\* The proxy has forwarded the response.
ServeHTTP(c) ==
  /\ call[c].pc = "serving"
  /\ call' = [call EXCEPT ![c].pc = "served"]
  /\ UNCHANGED <<named, moves, runners, heap, records, answered, pending, sending, sub, excuse, panicked>>

(***************************************************************************)
(* What the record says of the response.  Lines are text, start, err, done *)
(* and note; status 0 is a request that ended without a response.          *)
(***************************************************************************)
Texts(lines) == SelectSeq(lines, LAMBDA l : l \notin {"start", "err", "done", "note"})
FirstOf(lines, kinds) == SelectInSeq(lines, LAMBDA l : l \in kinds)
UpTo(lines, n) == IF n = 0 THEN lines ELSE SubSeq(lines, 1, n - 1)

\* convertStreamingResponse
OpenAIText(lines) ==
  LET stop == FirstOf(lines, {"err", "done"})
  IN  IF stop # 0 /\ lines[stop] = "err" THEN <<"error">> ELSE Texts(UpTo(lines, stop))

\* convertAnthropicStreamingResponse
AnthropicText(lines) == IF FirstOf(lines, {"err"}) # 0 THEN <<"error">> ELSE Texts(lines)

\* RecordResponse: nothing was answered.
Status(body) == IF body.status = 0 THEN 408 ELSE body.status

\* handleErrorRecording
Answer(body, origin) ==
  LET text == IF origin = "anthropic" THEN AnthropicText(body.lines) ELSE OpenAIText(body.lines)
  IN  [status |-> Status(body), text |-> IF Status(body) >= 400 THEN <<"error">> ELSE text]

\* NoBody stands for a record without an answer.
UnansweredAssumption ==
  \A c \in Calls : \A origin \in {"", BodyOf[c].origin} : Answer(BodyOf[c], origin) # NoBody

\* The records of the list with the record ID of call c, and the first of them.
Listed(id) == IF records[id] = 0 THEN <<>> ELSE heap[records[id]].recs
Matching(id, c) == {i \in DOMAIN Listed(id) : call[Listed(id)[i]].rid = call[c].rid}
FirstMatching(id, c) ==
  Listed(id)[CHOOSE i \in Matching(id, c) : \A j \in Matching(id, c) : i <= j]

\* getRecordOrigin, and the conversion outside the lock.
Convert(c) ==
  LET id == named[call[c].ref]
      origin == IF Matching(id, c) = {} THEN "" ELSE BodyOf[FirstMatching(id, c)].origin
  IN  /\ call[c].pc = "served"
      /\ call' = [call EXCEPT ![c].answer = Answer(BodyOf[c], origin), ![c].pc = "converted"]
      /\ UNCHANGED <<named, moves, runners, heap, records, answered, pending, sending, sub, excuse, panicked>>

\* RecordResponse finds the record and starts the broadcast.
RecordResponse(c) ==
  LET id == named[call[c].ref]
      found == FirstMatching(id, c)
  IN  /\ call[c].pc = "converted"
      /\ call' = [call EXCEPT ![c].pc = "recorded"]
      /\ IF Matching(id, c) = {} THEN UNCHANGED <<answered, pending>>
         ELSE /\ answered' = [answered EXCEPT ![found] = call[c].answer]
              /\ pending' = pending \cup {<<c, found>>}
      /\ UNCHANGED <<named, moves, runners, heap, records, sending, sub, excuse, panicked>>

\* The deferred release of the runner, after the deferred RecordResponse.
Release(c) ==
  /\ call[c].pc = "recorded"
  /\ call' = [call EXCEPT ![c].pc = "done"]
  /\ UNCHANGED <<named, moves, runners, heap, records, answered, pending, sending, sub, excuse, panicked>>

\* Mutant: registered after the existing records are sent.
RegisteredLate == {s \in Subscribers : sub[s].pc = "live"}

(***************************************************************************)
(* Subscribers, all with include_existing.  sending holds the read lock;   *)
(* a step on the subscribers needs the write lock.  sure is given up when  *)
(* a full channel skips the subscriber or a list is shifted under it.      *)
(***************************************************************************)
Registered == {s \in Subscribers : sub[s].pc \in {"registered", "listing", "live"}}

\* Mutant: without the lock.
NotLocked == TRUE

WriteLocked == sending = {}

BroadcastBegin(b) ==
  /\ b \in pending
  /\ pending' = pending \ {b}
  /\ sending' = sending \cup {[to |-> s, by |-> b[1], rec |-> b[2]] : s \in Registered}
  /\ UNCHANGED <<named, moves, runners, call, heap, records, answered, sub, excuse, panicked>>

\* broadcastToSubscribers: a full channel is skipped.
BroadcastSend(m) ==
  LET s == m.to
      open == sub[s].pc # "gone"
  IN  /\ m \in sending
      /\ sending' = sending \ {m}
      /\ panicked' = (panicked \/ ~open)
      /\ sub' = IF ~open THEN sub
                ELSE IF Len(sub[s].chan) < Buffer
                THEN [sub EXCEPT ![s].chan = Append(@, [model |-> call[m.by].ref, rec |-> m.rec])]
                ELSE [sub EXCEPT ![s].sure = FALSE]
      /\ UNCHANGED <<named, moves, runners, call, heap, records, answered, pending, excuse>>

UnchangedButSub == UNCHANGED <<named, moves, runners, call, heap, records, answered, pending, sending, excuse, panicked>>

\* handleStreamingRequests registers,
Subscribe(s, filter) ==
  /\ WriteLocked /\ sub[s].pc = "idle"
  /\ sub' = [sub EXCEPT ![s] = [pc |-> "registered", filter |-> filter, list |-> <<>>, next |-> 1,
                                chan |-> <<>>, seen |-> {}, sure |-> TRUE]]
  /\ UnchangedButSub

\* takes the lists and their lengths (getAllRecords, getRecordsByModel), in the
\* order in which Go walks the map,
ListExisting(s) ==
  LET wanted == {id \in IDs : records[id] # 0 /\ (sub[s].filter = Every \/ id = named[sub[s].filter])}
      lists == {<<records[id], Len(heap[records[id]].recs)>> : id \in wanted}
  IN  /\ sub[s].pc = "registered"
      /\ \E order \in [1 .. Cardinality(lists) -> lists] :
           /\ Range(order) = lists
           /\ sub' = [sub EXCEPT ![s].pc = "listing", ![s].list = order]
      /\ UnchangedButSub

\* and sends what is in them by now, one record after the other.
SendExisting(s) ==
  LET l == sub[s].list[1]
      c == heap[l[1]].recs[sub[s].next]
  IN  /\ sub[s].pc = "listing" /\ sub[s].list # <<>>
      /\ sub' = IF sub[s].next > l[2]
                THEN [sub EXCEPT ![s].list = Tail(@), ![s].next = 1]
                ELSE [sub EXCEPT ![s].seen = @ \cup {<<c, answered[c]>>}, ![s].next = @ + 1]
      /\ UnchangedButSub

Connected(s) ==
  /\ sub[s].pc = "listing" /\ sub[s].list = <<>>
  /\ sub' = [sub EXCEPT ![s].pc = "live"]
  /\ UnchangedButSub

\* The filter compares the name the request used.
Receive(s) ==
  LET m == Head(sub[s].chan)
      new == IF sub[s].filter \in {Every, m.model} THEN {<<m.rec, answered[m.rec]>>} ELSE {}
  IN  /\ sub[s].pc = "live" /\ sub[s].chan # <<>>
      /\ sub' = [sub EXCEPT ![s].chan = Tail(@), ![s].seen = @ \cup new]
      /\ UnchangedButSub

\* The client is gone: delete and close.
Unsubscribe(s) ==
  /\ WriteLocked /\ sub[s].pc = "live"
  /\ sub' = [sub EXCEPT ![s] = [pc |-> "gone", chan |-> <<>>]]
  /\ UnchangedButSub

RecNext ==
  \/ \E n \in Refs : Retag(n)
  \/ \E c \in Calls :
       \/ \E n \in Refs, mode \in BodyOf[c].modes : LoadRunner(c, n, mode)
       \/ RecordRequest(c) \/ ServeHTTP(c) \/ Convert(c) \/ RecordResponse(c) \/ Release(c)
  \/ \E r \in runners : Terminate(r)
  \/ \E b \in pending : BroadcastBegin(b)
  \/ \E m \in sending : BroadcastSend(m)
  \/ \E s \in Subscribers :
       \/ \E f \in Filters : Subscribe(s, f)
       \/ ListExisting(s) \/ SendExisting(s) \/ Connected(s) \/ Receive(s) \/ Unsubscribe(s)

RecSpec == RecInit /\ [][RecNext]_recVars

-----------------------------------------------------------------------------
(***************************************************************************)
(* Properties.                                                             *)
(***************************************************************************)
\* Every list that records points to keeps at most MaxRecords records, all of
\* requests that were made.
RecTypeOK ==
  /\ named \in [Refs -> IDs] /\ runners \subseteq IDs \X Modes
  /\ \A id \in IDs : records[id] \in 0..Len(heap)
  /\ \A i \in DOMAIN heap : Len(heap[i].recs) <= MaxRecords /\ Range(heap[i].recs) \subseteq Calls

\* What a record says of a response is what its own request was answered, all
\* the text up to the end of the stream or the error in it, never another
\* request's answer, although names move.  It is read in the format of the API
\* the request came by, unless the name was away at the lookup of the origin
\* and back at the lookup of the record.
ResponseMatches ==
  \A c \in Calls : answered[c] # NoBody =>
    \/ answered[c] = Answer(BodyOf[c], BodyOf[c].origin)
    \/ "moved" \in excuse[c] /\ answered[c] = Answer(BodyOf[c], "")

\* A request that is over has its answer on record, unless its name moved, ten
\* more requests came or a runner of another mode took the model's records
\* with it while it was running: its own runner never does.
AnswerRecorded ==
  \A c \in Calls : call[c].pc = "done" /\ answered[c] = NoBody => excuse[c] # {}

\* A subscriber that asked for the existing records and never fell behind
\* misses no answer that is on record: what was answered before it registered
\* is in the lists, what comes later in its channel.
NothingFallsBetween ==
  \A s \in Subscribers, c \in Calls :
    LET shown == {<<m.rec, answered[m.rec]>> : m \in Range(sub[s].chan)} \cup sub[s].seen
    IN  /\ sub[s].pc = "live" /\ sub[s].sure /\ sub[s].filter = Every
        /\ answered[c] # NoBody /\ (\E id \in IDs : records[id] # 0 /\ c \in Range(heap[records[id]].recs))
        /\ (\A b \in pending : b[2] # c) /\ (\A m \in sending : m.rec # c)
        => <<c, answered[c]>> \in shown

\* A broadcast never sends on a channel that its subscriber has closed.
NoPanic == ~panicked
=============================================================================
