----------------------------- MODULE ChatClient -----------------------------
(***************************************************************************)
(* The interactive chat of the CLI (cmd/cli/commands/run.go) and the HTTP  *)
(* client under it (cmd/cli/desktop/desktop.go, progress.go): lines become *)
(* messages, a message becomes a series of requests as the model calls     *)
(* tools, the streamed answer is shown with code blocks held back, and the *)
(* history grows by what was answered.  Pulls and pushes are attempts that *)
(* follow the progress stream of the server and are repeated.              *)
(***************************************************************************)
EXTENDS Integers, Sequences, SequencesExt, FiniteSets

CONSTANTS
  LineKinds,  \* what is typed: see Line
  Replies,    \* of the server: [status, jinja, chunks]
  KnownTools, \* tools of the client; none without --websearch
  MaxRounds,  \* maxToolCallIterations: 10 in the code
  MaxTurns,   \* bound: messages
  Streams,    \* of a pull or push: [status, lines, broken]
  Attempts    \* of a transfer, the first included: 5 in the code

\* A piece of text: a fence, a newline or anything else.
Pieces == {"f", "n", "t"}

ChatAssumption ==
  /\ MaxRounds \in Nat \ {0} /\ MaxTurns \in Nat /\ Attempts \in Nat \ {0}
  /\ \A r \in Replies :
       /\ r.chunks \in Seq(ToSet(r.chunks))
       /\ \A c \in ToSet(r.chunks) : c.kind = "content" => c.text \in Seq(Pieces)

VARIABLES
  entry,     \* the line editor's part: multiline, alt (the prompt), sb (lines so far)
  system,    \* a system message is set
  history,   \* conversationHistory
  talk,      \* the message in progress
  shownText, \* StreamingMarkdownBuffer, and what was printed
  transfer   \* a pull or push

ccVars == <<entry, system, history, talk, shownText, transfer>>

NoEntry == [multiline |-> FALSE, alt |-> FALSE, sb |-> 0]
NoText == [text |-> <<>>, flushed |-> 0, inCode |-> FALSE, shown |-> <<>>]
NoTalk(n) == [pc |-> "prompt", turn |-> n]
NoTransfer == [pc |-> "idle"]

CCInit ==
  /\ entry = NoEntry /\ system = FALSE /\ history = <<>>
  /\ talk = NoTalk(0) /\ shownText = NoText /\ transfer = NoTransfer

Said(role, n) == [role |-> role, turn |-> n, calls |-> {}]

(***************************************************************************)
(* A line: text, open and close of a multi-line message, a pasted line, a  *)
(* /set system, or Ctrl-C, which resets the prompt but not multiline.      *)
(***************************************************************************)
Taken(e, kind) ==
  CASE kind = "interrupt" -> [e EXCEPT !.alt = FALSE, !.sb = 0]
    [] e.multiline /\ kind # "interrupt" ->
         [multiline |-> kind # "close", alt |-> e.alt /\ kind # "close", sb |-> e.sb + 1]
    [] ~e.multiline /\ kind = "open" -> [multiline |-> TRUE, alt |-> TRUE, sb |-> e.sb + 1]
    [] ~e.multiline /\ kind \in {"text", "close", "pasted"} -> [e EXCEPT !.sb = @ + 1]
    [] OTHER -> e

Sends(e, kind) == kind \notin {"interrupt", "set"} /\ (kind = "pasted" => e.multiline) /\ ~Taken(e, kind).multiline

Line(kind) ==
  LET said == (IF system THEN <<Said("system", 0)>> ELSE <<>>) \o history \o <<Said("user", talk.turn + 1)>>
  IN  /\ talk.pc = "prompt" /\ entry.sb < 3
      /\ entry' = Taken(entry, kind)
      /\ system' = IF kind = "set" /\ ~entry.multiline THEN ~system ELSE system
      /\ IF Sends(entry, kind)
         THEN /\ talk.turn < MaxTurns
              /\ talk' = [pc |-> "request", turn |-> talk.turn + 1, messages |-> said, initial |-> said,
                          tools |-> KnownTools, supported |-> KnownTools # {}, rounds |-> 0, answer |-> <<>>,
                          rest |-> <<>>, pending |-> {}, finish |-> ""]
              /\ shownText' = NoText
         ELSE UNCHANGED <<talk, shownText>>
      /\ UNCHANGED <<history, transfer>>

(***************************************************************************)
(* ChatWithMessagesContext                                                 *)
(***************************************************************************)
\* The turn ends without an answer: the history does not get the message.
Failed == talk' = NoTalk(talk.turn) /\ entry' = [entry EXCEPT !.sb = 0]

FallbackMessages == talk.initial

\* The server: a model calls tools only if the request offers some.
Calls(r) == \E c \in ToSet(r.chunks) : c.kind = "tool"

\* A model whose template rejects the tools is asked again without them.
Request(r) ==
  /\ talk.pc = "request" /\ (Calls(r) => talk.tools # {})
  /\ IF r.status = 200
     THEN /\ talk' = [talk EXCEPT !.pc = "stream", !.rest = r.chunks, !.pending = {}, !.finish = ""]
          /\ UNCHANGED entry
     ELSE IF talk.supported /\ r.jinja
     THEN /\ talk' = [talk EXCEPT !.tools = {}, !.supported = FALSE, !.messages = FallbackMessages, !.answer = <<>>]
          /\ UNCHANGED entry
     ELSE Failed
  /\ UNCHANGED <<system, history, shownText, transfer>>

\* Ctrl-C cancels the request, and so does a broken connection or a bad event.
Cancel ==
  /\ talk.pc \in {"request", "stream"}
  /\ Failed
  /\ UNCHANGED <<system, history, shownText, transfer>>

\* The first of some positions of a sequence.
First(positions) == IF positions = {} THEN 0 ELSE Min(positions)

\* AddContent: "f" is a fence and "n" a newline.  A code block is held back until
\* it is closed; the search for the end begins at the opening fence itself.
Emit(b, last, inCode) ==
  [text |-> b.text, flushed |-> last, inCode |-> inCode,
   shown |-> b.shown \o SubSeq(b.text, b.flushed + 1, last)]

Added(b, chunk) ==
  LET c == [b EXCEPT !.text = @ \o chunk]
      fence == First({p \in c.flushed + 1 .. Len(c.text) : c.text[p] = "f"})
      close == First({p \in c.flushed + 1 .. Len(c.text) - 1 : c.text[p] = "f" /\ c.text[p + 1] = "n"})
  IN  IF ~c.inCode THEN IF fence = 0 THEN Emit(c, Len(c.text), FALSE) ELSE Emit(c, fence - 1, TRUE)
      ELSE IF close # 0 THEN Emit(c, close + 1, FALSE)
      ELSE IF fence # 0 /\ fence = Len(c.text) THEN Emit(c, fence, FALSE) ELSE c

Flush(b) == Emit(b, Len(b.text), b.inCode)

\* One event: content, a fragment of a tool call or the reason it finished.
Event ==
  /\ talk.pc = "stream" /\ talk.rest # <<>>
  /\ LET c == Head(talk.rest)
     IN  /\ talk' = [talk EXCEPT !.rest = Tail(@),
              !.answer = IF c.kind = "content" THEN @ \o c.text ELSE @,
              !.pending = IF c.kind = "tool" THEN @ \cup {[index |-> c.index, name |-> c.name]} ELSE @,
              !.finish = IF c.kind = "finish" THEN c.reason ELSE @]
         /\ shownText' = IF c.kind = "content" THEN Added(shownText, c.text) ELSE shownText
  /\ UNCHANGED <<entry, system, history, transfer>>

\* The end of the stream, or [DONE]
Over == talk.pc = "stream" /\ talk.rest = <<>>
Called == talk.finish = "tool_calls" /\ talk.pending # {}

\* The calls that are made: the loop over the indices stops at their number.
Made == {c \in talk.pending : c.index < Cardinality(talk.pending)}

Answered(calls) == calls

ToolRound ==
  /\ Over /\ Called
  /\ IF talk.rounds + 1 >= MaxRounds THEN Failed
     ELSE /\ talk' = [talk EXCEPT !.pc = "request", !.rounds = @ + 1, !.answer = <<>>, !.rest = <<>>,
                !.messages = @ \o <<[role |-> "calls", turn |-> talk.turn, calls |-> Made]>>
                               \o SetToSeq({[role |-> "tool", turn |-> talk.turn, calls |-> {c}] : c \in Answered(Made)})]
          /\ UNCHANGED entry
  /\ UNCHANGED <<system, history, shownText, transfer>>

\* The answer, with the message it answers, goes into the history.
Remembered == history \o <<Said("user", talk.turn), Said("assistant", talk.turn)>>

\* Mutant: the answer alone is remembered.
RememberedAnswer == Append(history, Said("assistant", talk.turn))

HistoryAfter == Remembered

Answer ==
  /\ Over /\ ~Called
  /\ history' = HistoryAfter
  /\ shownText' = Flush(shownText)
  /\ talk' = NoTalk(talk.turn)
  /\ entry' = [entry EXCEPT !.sb = 0]
  /\ UNCHANGED <<system, transfer>>

(***************************************************************************)
(* Pull and Push: withRetries around a request and DisplayProgress.        *)
(***************************************************************************)
TransferStart ==
  /\ transfer = NoTransfer /\ talk = NoTalk(0)
  /\ transfer' = [pc |-> "attempt", attempt |-> 1, shown |-> FALSE, last |-> <<>>]
  /\ UNCHANGED <<entry, system, history, talk, shownText>>

\* DisplayProgress: an error line ends it; a broken connection is transient, and
\* a stream of nothing but garbage is an error.
Read(lines, broken) ==
  LET kinds == ToSet(lines)
  IN  IF "error" \in kinds THEN "error"
      ELSE IF broken THEN "transient"
      ELSE IF "garbage" \in kinds /\ kinds \cap {"progress", "success"} = {} THEN "error"
      ELSE "ok"

Outcome(s) == IF s.status \in {502, 503, 504} THEN "transient" ELSE IF s.status # 200 THEN "error" ELSE Read(s.lines, s.broken)

Attempt(s) ==
  LET outcome == Outcome(s)
  IN  /\ transfer.pc = "attempt"
      /\ transfer' = [
           attempt |-> transfer.attempt + 1, last |-> s.lines,
           shown |-> transfer.shown \/ (s.status = 200 /\ outcome = "ok" /\ "progress" \in ToSet(s.lines)),
           pc |-> CASE outcome = "ok" -> "succeeded"
                    [] outcome = "transient" /\ transfer.attempt < Attempts -> "attempt"
                    [] OTHER -> "failed"]
      /\ UNCHANGED <<entry, system, history, talk, shownText>>

CCNext ==
  \/ \E kind \in LineKinds : Line(kind)
  \/ \E r \in Replies : Request(r)
  \/ Cancel \/ Event \/ ToolRound \/ Answer
  \/ TransferStart
  \/ \E s \in Streams : Attempt(s)

CCSpec == CCInit /\ [][CCNext]_ccVars

-----------------------------------------------------------------------------
(***************************************************************************)
(* Properties.                                                             *)
(***************************************************************************)
\* Every request is a conversation the API accepts: a system message only first,
\* questions and answers that alternate and end with the question, and what follows
\* it is tool calls, each with a result for every call in it; none once the
\* template rejected tools.
RequestWellFormed ==
  talk.pc = "request" =>
    LET all == talk.messages
        ms == IF all[1].role = "system" THEN Tail(all) ELSE all
        asked == First({p \in DOMAIN ms : ms[p].role = "user" /\ ms[p].turn = talk.turn})
    IN  /\ asked % 2 = 1
        /\ \A p \in 1..asked : ms[p].role = IF p % 2 = 1 THEN "user" ELSE "assistant"
        /\ \A p \in (asked + 1)..Len(ms) :
             /\ ms[p].role \in {"calls", "tool"} /\ talk.supported
             /\ ms[p].role = "calls" =>
                  \A c \in ms[p].calls : \E q \in (p + 1)..Len(ms) :
                     ms[q].calls = {c} /\ \A b \in (p + 1)..q : ms[b].role = "tool"

\* A turn that was cancelled or failed leaves no trace in the history, and one
\* that was answered leaves the question and the answer of the same turn.
HistoryPaired ==
  /\ Len(history) % 2 = 0
  /\ \A p \in DOMAIN history :
       /\ history[p].role = IF p % 2 = 1 THEN "user" ELSE "assistant"
       /\ p % 2 = 0 => history[p - 1].turn = history[p].turn

\* What the model wrote in a turn that was answered was shown once, in full and
\* in order, although code blocks were held back while it came in.
ShownInFull == talk.pc = "prompt" /\ history # <<>> /\ Last(history).turn = talk.turn => shownText.shown = shownText.text

\* A transfer that is reported as done had no error in its last stream, and saw
\* something of the server if it saw anything.
NoFalseSuccess ==
  transfer.pc = "succeeded" =>
    "error" \notin ToSet(transfer.last) /\ ToSet(transfer.last) # {"garbage"}
=============================================================================
