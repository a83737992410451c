----------------------------- MODULE Responses -----------------------------
(***************************************************************************)
(* The Responses API (pkg/responses): POST, GET and DELETE of responses,   *)
(* the conversion of a chat completion, streamed or whole, and the store   *)
(* with its time to live.  The scheduler is upstream: it answers with one  *)
(* of a set of scripts, a status and the lines of its event stream, cut    *)
(* into writes at any place.  A line is cut into a head and an end.        *)
(***************************************************************************)
EXTENDS Naturals, Sequences, SequencesExt, FiniteSets

CONSTANTS
  Answers,    \* what upstream may answer: [status, lines]
  RespIDs,    \* responses that clients create, each once
  Streamed,   \* bound: those that may be streamed
  TTL,        \* of a stored response
  MaxNow,     \* bound: ticks of the clock
  NoResp

ResponsesAssumption == RespIDs \subseteq Nat /\ TTL \in Nat \ {0} /\ MaxNow \in Nat

VARIABLES
  resp,       \* the Response objects, shared by their writers and the store
  writer,     \* the StreamingResponseWriter or capture of each request
  events,     \* the events each client has been sent
  stored,     \* Store.responses: when the entry expires, or NoResp
  history,    \* the messages of earlier responses sent upstream
  now

respVars == <<resp, writer, events, stored, history, now>>

(***************************************************************************)
(* Lines: text, tool (id, piece of the arguments, index of the call),      *)
(* finish (reason), usage, bad (not JSON), odd (JSON, but no chunk), done, *)
(* and note (no data).  Upstream numbers the calls from 0; of the pieces   *)
(* of a call perhaps only the first has its id.                            *)
(***************************************************************************)
Message(text) == [type |-> "message", id |-> "msg", text |-> text]
ToolCall(id, args) == [type |-> "call", id |-> id, text |-> args]

WellFormed(answer) == \A i \in DOMAIN answer.lines : answer.lines[i].k \notin {"bad", "odd"}
Tools(lines) == SelectSeq(lines, LAMBDA l : l.k = "tool")
Text(lines) ==
  LET own == SelectSeq(lines, LAMBDA l : l.k = "text") IN [i \in DOMAIN own |-> own[i].b]
Arguments(tools) ==
  LET own == SelectSeq(tools, LAMBDA l : l.b # "") IN [i \in DOMAIN own |-> own[i].b]

\* TransformChatCompletionToResponse, on the message whose pieces are streamed:
\* the tool calls, then the text.
Whole(lines) ==
  LET tools == Tools(lines)
      call(n) == SelectSeq(tools, LAMBDA l : l.i = n - 1)
      calls == [n \in 1 .. Cardinality({l.i : l \in ToSet(tools)}) |->
                  ToolCall(Head(call(n)).a, Arguments(call(n)))]
  IN  IF Text(lines) = <<>> THEN calls ELSE Append(calls, Message(Text(lines)))

(***************************************************************************)
(* StreamingResponseWriter.  w is the writer, together with its response,  *)
(* what it sends (out) and whether it saves the response.                  *)
(***************************************************************************)
Send(w, type, item) ==
  [w EXCEPT !.seq = @ + 1, !.out = Append(@, [type |-> type, seq |-> w.seq + 1, item |-> item])]

\* An error event, response.failed, and the store.
Fail(w) ==
  [Send(Send([w EXCEPT !.r.status = "failed"], "error", ""), "failed", "") EXCEPT !.save = TRUE]

\* StreamingResponseWriter.WriteHeader
WriteHeader(w, status) ==
  IF status # 200 THEN [Fail(w) EXCEPT !.headers = TRUE]
  ELSE Send([Send([w EXCEPT !.headers = TRUE], "created", "") EXCEPT !.r.status = "in_progress"],
            "in_progress", "")

\* Mutant: a delta does not announce the message.
ContentDeltaAlone(w, piece) == Send([w EXCEPT !.item = TRUE, !.text = Append(@, piece)], "delta", "msg")

\* handleContentDelta
ContentDelta(w, piece) ==
  LET open == IF w.item THEN w
              ELSE Send(Send([w EXCEPT !.item = TRUE], "item.added", "msg"), "part.added", "msg")
  IN  Send([open EXCEPT !.text = Append(@, piece)], "delta", "msg")

\* A piece of the arguments is sent on, the empty one of a call's beginning not.
Argue(w, at, piece) ==
  IF piece = "" THEN w ELSE Send([w EXCEPT !.calls[at].text = Append(@, piece)], "delta", w.calls[at].id)

\* Mutant: a call is looked up among the calls by its place only.
ToolDeltaLast(w, id, piece) ==
  LET new == [w EXCEPT !.calls = <<ToolCall(id, <<>>)>>]
      open == IF w.calls # <<>> THEN w ELSE Send(new, "item.added", id)
  IN  Argue(open, Len(open.calls), piece)

\* handleToolCallDelta: a piece without the id of a call begins a new call.
ToolDelta(w, id, piece) ==
  LET known == {i \in DOMAIN w.calls : w.calls[i].id = id}
      callID == IF id = "" THEN "call" \o ToString(Len(w.calls)) ELSE id
      new == [w EXCEPT !.calls = Append(@, ToolCall(callID, <<>>))]
      at == IF known # {} THEN CHOOSE i \in known : TRUE ELSE Len(w.calls) + 1
  IN  Argue(IF known # {} THEN w ELSE Send(new, "item.added", callID), at, piece)

\* finalize: the message is closed, then every call, then the response.
Finalize(w) ==
  LET message == IF ~w.item THEN w
                 ELSE [Send(Send(Send(w, "text.done", "msg"), "part.done", "msg"), "item.done", "msg")
                         EXCEPT !.r.output = Append(@, Message(w.text)), !.r.text = w.text]
      calls == FoldLeft(LAMBDA v, c : [Send(Send(v, "args.done", c.id), "item.done", c.id)
                                         EXCEPT !.r.output = Append(@, c)],
                        message, w.calls)
  IN  [Send([calls EXCEPT !.r.status = "completed"], "completed", "") EXCEPT !.save = TRUE]

\* Mutant: the response is stored with its finish reason.
FinishSaved(w, why) == [w EXCEPT !.r.finish = why, !.r.status = "completed", !.save = TRUE]

\* A chunk's finish reason sets the status; finalize overwrites it.
Finish(w, why) ==
  [w EXCEPT !.r.finish = why,
            !.r.status = IF why = "content_filter" THEN "failed" ELSE "completed",
            !.r.incomplete = @ \/ why = "length"]

\* One line in Write.  Usage is read under the names of the Responses API,
\* which a chat completion does not have: the counts become 0.  A line that is
\* not JSON ends the call of Write, not the stream; one that is JSON but no
\* chunk does not even that.
OnLine(w, l) ==
  IF w.returned THEN w
  ELSE CASE l.k = "bad" -> [Fail(w) EXCEPT !.returned = TRUE]
         [] l.k = "odd" -> Fail(w)
         [] l.k = "text" -> ContentDelta(w, l.b)
         [] l.k = "tool" -> ToolDelta(w, l.a, l.b)
         [] l.k = "finish" -> Finish(w, l.a)
         [] l.k = "usage" -> [w EXCEPT !.r.usage = IF @ = NoResp THEN 0 ELSE @]
         [] l.k = "done" -> Finalize(w)
         [] OTHER -> w

\* The lines that end in what was buffered and what has come (0: none, or one
\* whose head is gone), and the rest.
Half(i, end) == [line |-> i, end |-> end]
Halves(from, to) == [k \in 1 .. to - from |-> Half((from + k + 1) \div 2, (from + k) % 2 = 0)]
Received(buffered, data) ==
  LET all == buffered \o data
  IN  [k \in DOMAIN all |-> IF all[k].end /\ k > 1 THEN all[k - 1].line ELSE 0]

\* Mutant: an incomplete line is dropped.
RestDropped(buffered, data) == <<>>

\* Mutant: whole lines stay in the buffer.
RestKept(buffered, data) == buffered \o data

Rest(buffered, data) == IF Last(data).end THEN <<>> ELSE <<Last(data)>>

\* StreamingResponseWriter.Write
OnWrite(w, lines, data) ==
  LET begun == IF w.headers THEN w ELSE WriteHeader(w, 200)
      got == Received(w.buffer, data)
  IN  [FoldLeft(LAMBDA v, i : IF i = 0 THEN v ELSE OnLine(v, lines[i]), begun, got)
         EXCEPT !.buffer = Rest(w.buffer, data), !.returned = FALSE]

(***************************************************************************)
(* Store                                                                   *)
(***************************************************************************)
\* Store.Get
Found(id) == id # NoResp /\ stored[id] # NoResp /\ now <= stored[id]

\* Store.Save, with the expiry it sets.
Save(w, id) == stored' = IF w.save /\ w.store THEN [stored EXCEPT ![id] = now + TTL] ELSE stored

(***************************************************************************)
(* Handlers                                                                *)
(***************************************************************************)
NewResponse(prev) ==
  [status |-> "in_progress", output |-> <<>>, text |-> <<>>, finish |-> "", incomplete |-> FALSE,
   usage |-> NoResp, prev |-> prev]

NoWriter == [pc |-> "idle"]
NewWriter(answer, stream, store) ==
  [pc |-> IF stream THEN "stream" ELSE "capture", answer |-> answer, stream |-> stream,
   store |-> store, at |-> 0, buffer |-> <<>>, headers |-> FALSE, seq |-> 0, item |-> FALSE,
   text |-> <<>>, calls |-> <<>>]

\* The writer in the middle of a call, with its response, and its state after.
Opened(id) == writer[id] @@ [r |-> resp[id], out |-> <<>>, save |-> FALSE, returned |-> FALSE]
Closed(w) == [f \in DOMAIN w \ {"r", "out", "save", "returned"} |-> w[f]]
Commit(id, w) ==
  /\ writer' = [writer EXCEPT ![id] = Closed(w)]
  /\ resp' = [resp EXCEPT ![id] = w.r]
  /\ events' = [events EXCEPT ![id] = @ \o w.out]
  /\ Save(w, id)
  /\ UNCHANGED <<history, now>>

RespInit ==
  /\ resp = [id \in RespIDs |-> NoResp]
  /\ writer = [id \in RespIDs |-> NoWriter]
  /\ events = [id \in RespIDs |-> <<>>]
  /\ stored = [id \in RespIDs |-> NoResp]
  /\ history = [id \in RespIDs |-> <<>>]
  /\ now = 0

\* Mutant: the response is put before the ones it answers.
HistoryReversed(id) ==
  LET all[n \in Nat, i \in RespIDs] ==
        LET p == resp[i].prev
        IN  resp[i].output \o IF n > 0 /\ Found(p) THEN all[n - 1, p] ELSE <<>>
  IN  all[Cardinality(RespIDs), id]

\* getConversationHistory: as far back as the store still goes.
History(id) ==
  LET all[n \in Nat, i \in RespIDs] ==
        LET p == resp[i].prev
        IN  (IF n > 0 /\ Found(p) THEN all[n - 1, p] ELSE <<>>) \o resp[i].output
  IN  all[Cardinality(RespIDs), id]

\* handleCreate.  Response IDs are unique: they are numbered as they are made.
\* A previous response that is not found refuses the request.
Create(id) ==
  /\ resp[id] = NoResp /\ \A other \in RespIDs : other < id => resp[other] # NoResp
  /\ \E stream, store \in BOOLEAN, prev \in RespIDs \cup {NoResp} :
     \E answer \in IF stream THEN Answers ELSE {NoResp} :   \* what is captured is known at its end
       /\ prev # NoResp => Found(prev)
       /\ stream => id \in Streamed
       /\ resp' = [resp EXCEPT ![id] = NewResponse(prev)]
       /\ writer' = [writer EXCEPT ![id] = NewWriter(answer, stream, store)]
       /\ history' = [history EXCEPT ![id] = IF prev = NoResp THEN <<>> ELSE History(prev)]
  /\ UNCHANGED <<events, stored, now>>

\* Upstream answers with an error status.
StreamFails(id) ==
  /\ writer[id].pc = "stream" /\ writer[id].answer.status # 200
  /\ Commit(id, [WriteHeader(Opened(id), writer[id].answer.status) EXCEPT !.pc = "done"])

\* Upstream writes the next part of its lines.
StreamWrite(id) ==
  LET w == writer[id]
      lines == w.answer.lines
  IN  /\ w.pc = "stream" /\ w.answer.status = 200
      /\ \E to \in w.at + 1 .. 2 * Len(lines) :
           Commit(id, [OnWrite(Opened(id), lines, Halves(w.at, to)) EXCEPT !.at = to])

\* Upstream has returned, at the end or because the client has gone.
StreamEnd(id) ==
  /\ writer[id].pc = "stream" /\ writer[id].answer.status = 200
  /\ writer' = [writer EXCEPT ![id].pc = "done"]
  /\ UNCHANGED <<resp, events, stored, history, now>>

\* handleNonStreaming: an error status and a body that does not parse end alike.
Captured(id) ==
  /\ writer[id].pc = "capture"
  /\ \E a \in Answers :
       LET w == [Opened(id) EXCEPT !.pc = "done", !.save = TRUE]
       IN  Commit(id, IF a.status # 200 \/ ~WellFormed(a) THEN [w EXCEPT !.r.status = "failed"]
                      ELSE [w EXCEPT !.r.status = "completed", !.r.output = Whole(a.lines),
                                     !.r.text = Text(a.lines)])

\* handleDelete
DeleteResponse(id) ==
  /\ stored[id] # NoResp
  /\ stored' = [stored EXCEPT ![id] = NoResp]
  /\ UNCHANGED <<resp, writer, events, history, now>>

\* cleanup, once in a while.
Cleanup ==
  /\ \E id \in RespIDs : stored[id] # NoResp /\ now > stored[id]
  /\ stored' = [id \in RespIDs |-> IF stored[id] # NoResp /\ now > stored[id] THEN NoResp ELSE stored[id]]
  /\ UNCHANGED <<resp, writer, events, history, now>>

RespTick ==
  /\ now < MaxNow
  /\ now' = now + 1
  /\ UNCHANGED <<resp, writer, events, stored, history>>

RespNext ==
  \/ \E id \in RespIDs :
       \/ Create(id) \/ StreamFails(id) \/ StreamWrite(id) \/ StreamEnd(id) \/ Captured(id) \/ DeleteResponse(id)
  \/ Cleanup \/ RespTick

(***************************************************************************)
(* Properties                                                              *)
(***************************************************************************)
Terminal == {"completed", "failed"}
\* A stream in which a line cannot be read is saved as failed, and goes on.
GoesOn(id) == writer[id].pc # "idle" /\ writer[id].stream /\ ~WellFormed(writer[id].answer)
Ended(id) == \E i \in DOMAIN events[id] : events[id][i].type \in Terminal

\* Types of the tables.
RespTypeOK ==
  \A id \in RespIDs :
    /\ writer[id].pc \in {"idle", "stream", "capture", "done"}
    /\ stored[id] \in Nat \cup {NoResp}
    /\ writer[id].pc # "idle" => resp[id].prev \in RespIDs \cup {NoResp}
    /\ writer[id].pc = "stream" => Len(writer[id].buffer) <= 1

\* However upstream cuts its stream into writes, the finished response holds
\* what the same answer has when it is not streamed: the whole text, and each
\* call once with all its arguments if every piece names it.  A piece without the
\* id of its call, as OpenAI sends all but the first, becomes a call of its own
\* (streaming.go:324-346); even so each piece of the arguments is there once.
CallsOf(output) == SelectSeq(output, LAMBDA c : c.type = "call")
Argued(output) == FlattenSeq([i \in DOMAIN CallsOf(output) |-> CallsOf(output)[i].text])
Count(s, b) == Len(SelectSeq(s, LAMBDA x : x = b))
Named(tools, call) == \A l \in ToSet(tools) : (\E m \in ToSet(tools) : m.a = call.id /\ m.i = l.i) => l.a # ""
StreamEqualsWhole ==
  \A id \in RespIDs :
    LET a == writer[id].answer
        output == resp[id].output
        tools == Tools(a.lines)
    IN  (Ended(id) /\ a.status = 200 /\ WellFormed(a)) =>
          /\ resp[id].text = Text(a.lines)
          /\ Text(a.lines) # <<>> => Count(output, Message(Text(a.lines))) = 1
          /\ \A c \in ToSet(CallsOf(Whole(a.lines))) : Named(tools, c) => Count(output, c) = 1
          /\ Len(CallsOf(output)) = Cardinality({l.a : l \in ToSet(tools)} \ {""})
                                     + Len(SelectSeq(tools, LAMBDA l : l.a = ""))
          /\ \A b \in {l.b : l \in ToSet(tools)} \ {""} : Count(Argued(output), b) = Count(Arguments(tools), b)

\* The events of a stream are numbered from 1 without a gap, announce an item
\* before its deltas and its end, and end with one terminal event; only a stream
\* in which a line cannot be read goes on after it was told that it failed.
Before(s, i, type, item) == \E j \in 1 .. i - 1 : s[j].type = type /\ s[j].item = item
EventsInOrder ==
  \A id \in RespIDs :
    LET s == events[id]
    IN  \A i \in DOMAIN s :
          /\ s[i].seq = i
          /\ s[i].type \in {"delta", "part.added", "item.done", "args.done"} =>
               Before(s, i, "item.added", s[i].item)
          /\ s[i].type \in {"text.done", "part.done"} => Before(s, i, "part.added", s[i].item)
          /\ s[i].type = "delta" => ~Before(s, i, "item.done", s[i].item)
          /\ s[i].type \in Terminal => i = Len(s) \/ GoesOn(id)

\* A response that can be fetched, or answered to, has ended, and changes no
\* more, although the store and its writer share one object without a lock;
\* excepted is a stream that goes on after a line it could not read.
SavedIsFinalStep ==
  \A id \in RespIDs :
    stored[id] # NoResp =>
      /\ resp[id].status \in Terminal
      /\ GoesOn(id) \/ resp'[id] = resp[id]
SavedIsFinal == [][SavedIsFinalStep]_respVars

\* The messages sent along with a response that answers another are the outputs
\* of an unbroken run of earlier responses, the oldest first, up to that one, as
\* long as none of them goes on after it was saved.
Chain(id, n) ==
  LET at[k \in Nat] == IF k = 0 THEN id ELSE IF at[k - 1] = NoResp THEN NoResp ELSE resp[at[k - 1]].prev
  IN  at[n]
HistoryInOrder ==
  \A id \in RespIDs :
    (writer[id].pc # "idle" /\ resp[id].prev # NoResp) =>
      \E n \in 1 .. Cardinality(RespIDs) :
        /\ Chain(id, n) # NoResp
        /\ \/ \E k \in 1 .. n : GoesOn(Chain(id, k))
           \/ history[id] = FoldLeft(LAMBDA m, k : resp[Chain(id, k)].output \o m, <<>>,
                                    [k \in 1 .. n |-> k])

RespSpec == RespInit /\ [][RespNext]_respVars
=============================================================================
