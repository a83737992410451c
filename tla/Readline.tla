------------------------------ MODULE Readline ------------------------------
(***************************************************************************)
(* The line editor of the interactive chat (cmd/cli/readline): a buffer of *)
(* runes one or two columns wide that is wrapped at the width of the line, *)
(* and the history with its file.  The escape sequences that draw are left *)
(* out; the bookkeeping they are computed from is kept: the position in    *)
(* the buffer, the position on the display, and for each line whether a    *)
(* wide rune that did not fit left its last column free.                   *)
(***************************************************************************)
EXTENDS Integers, Sequences, SequencesExt

CONSTANTS
  Runes,     \* what can be typed: records [width, space]
  LineWidth, \* columns of a line after the prompt
  MaxTyped,  \* bound: runes typed in a behaviour
  MaxGaps,   \* bound: lines that are kept account of, which Replace never forgets
  Saved,     \* histories that may be in the file, as sequences of texts
  Limit,     \* lines the history keeps: 100 in the code
  MaxCalls   \* bound: calls of Readline

ReadlineAssumption ==
  /\ LineWidth \in Nat \ {0, 1} /\ Limit \in Nat \ {0} /\ MaxCalls \in Nat /\ {MaxTyped, MaxGaps} \subseteq Nat
  /\ \A r \in Runes : r.width \in 1..2 /\ r.space \in BOOLEAN

VARIABLES
  editor,  \* buf, pos, disp (DisplayPos) and gaps (LineHasSpace) of the Buffer
  lines,   \* History.Buf
  linePos, \* History.Pos
  draft,   \* currentLineBuf
  reader,  \* the call: its number, whether it began on the newest line, and the runes typed so far
  typed,   \* history: the text the user has on the newest line
  plain    \* history: all texts of this call were plain

rlVars == <<editor, lines, linePos, draft, reader, typed, plain>>

\* Runes of one column, short of two full lines
Plain(text) == Len(text) < 2 * LineWidth /\ \A i \in DOMAIN text : text[i].width = 1

NoBuffer == [buf |-> <<>>, pos |-> 0, disp |-> 0, gaps |-> <<>>]

(***************************************************************************)
(* Lists as arraylist has them: Set appends at the end, and an index out   *)
(* of range is ignored, or false.                                          *)
(***************************************************************************)
GetAt(s, i) == i \in 0..(Len(s) - 1) /\ s[i + 1]
SetAt(s, i, v) == IF i = Len(s) THEN Append(s, v) ELSE IF i \in 0..(Len(s) - 1) THEN [s EXCEPT ![i + 1] = v] ELSE s
RemoveAtIndex(s, i) == IF i \in 0..(Len(s) - 1) THEN SubSeq(s, 1, i) \o SubSeq(s, i + 2, Len(s)) ELSE s

WidthOf(s) == FoldLeft(LAMBDA n, r : n + r.width, 0, s)
DisplaySize(e) == WidthOf(e.buf)
LineOf(e) == e.disp \div LineWidth
Rest(e) == SubSeq(e.buf, e.pos + 1, Len(e.buf))
AtEnd(e) == e.pos = Len(e.buf)

(***************************************************************************)
(* drawRemaining: what is right of the cursor is drawn again.              *)
(***************************************************************************)
\* countRemainingLineWidth: the runes that fit on the line from place on
Fitting(s, place) ==
  LET fit(k) == place + WidthOf(SubSeq(s, 1, k)) <= LineWidth
  IN  CHOOSE k \in 0..Len(s) : fit(k) /\ \A j \in (k + 1)..Len(s) : ~fit(j)

\* The other lines: a line is begun by the first rune and by one that wraps.
Wrapped(gaps, line, first, s) ==
  FoldLeft(LAMBDA a, r :
      LET new == a.shown = 0 \/ (a.shown + r.width) % LineWidth < a.shown % LineWidth
          n == IF new THEN a.n + 1 ELSE a.n
      IN  [n |-> n, shown |-> a.shown + r.width, length |-> (IF new THEN 0 ELSE a.length) + r.width,
           gaps |-> IF new /\ a.shown # 0 THEN SetAt(a.gaps, line + n - 1, a.length # LineWidth) ELSE a.gaps],
    [n |-> 0, shown |-> 0, length |-> first, gaps |-> gaps], s).gaps

DrawRemaining(e) ==
  LET place == IF e.pos > 0 THEN e.disp % LineWidth ELSE 0
      rest == Rest(e)
      k == Fitting(rest, place)
      current == WidthOf(SubSeq(rest, 1, k))
      gaps == IF current = LineWidth - place THEN SetAt(e.gaps, LineOf(e), FALSE)
              ELSE IF current = WidthOf(rest) THEN RemoveAtIndex(e.gaps, LineOf(e))
              ELSE SetAt(e.gaps, LineOf(e), TRUE)
  IN  [e EXCEPT !.gaps = IF WidthOf(rest) > current
                         THEN Wrapped(gaps, LineOf(e), current, SubSeq(rest, k + 1, Len(rest))) ELSE gaps]

(***************************************************************************)
(* Adding and removing runes                                               *)
(***************************************************************************)
AddRune(e, r) ==
  LET insert == ~AtEnd(e)
      next == e.disp + r.width
      full == e.pos > 0 /\ next % LineWidth = 0
      crosses == e.pos > 0 /\ ~full /\ next % LineWidth < (next - r.width) % LineWidth
      disp == IF crosses THEN next + 1 ELSE next
      noted == IF ~full /\ ~crosses THEN e.gaps
               ELSE IF insert THEN SetAt(e.gaps, disp \div LineWidth - 1, crosses) ELSE Append(e.gaps, crosses)
      added == [buf |-> SubSeq(e.buf, 1, e.pos) \o <<r>> \o Rest(e), pos |-> e.pos + 1, disp |-> disp, gaps |-> noted]
  IN  IF insert THEN DrawRemaining(added) ELSE added

\* Remove: backspace
Backspace(e) ==
  IF e.pos = 0 THEN e ELSE
  LET w == e.buf[e.pos].width
      size == DisplaySize(e)
      gap == GetAt(e.gaps, LineOf(e) - 1)
      without(g) == RemoveAtIndex(g, LineOf(e) - 1)
      start == e.disp % LineWidth = 0
      wrapped == ~start /\ gap /\ (e.disp - w) % LineWidth = 0
      gaps == IF start /\ size % LineWidth < (size - w) % LineWidth THEN without(e.gaps)
              ELSE IF wrapped /\ AtEnd(e) THEN without(e.gaps) ELSE e.gaps
      removed == [buf |-> RemoveAtIndex(e.buf, e.pos - 1), pos |-> e.pos - 1,
                  disp |-> e.disp - w - (IF (start /\ gap) \/ wrapped THEN 1 ELSE 0), gaps |-> gaps]
  IN  IF AtEnd(removed) THEN removed ELSE DrawRemaining(removed)

DeleteRune(e) == IF AtEnd(e) THEN e ELSE DrawRemaining([e EXCEPT !.buf = RemoveAtIndex(@, e.pos)])

(***************************************************************************)
(* Moving                                                                  *)
(***************************************************************************)
MoveLeft(e) ==
  IF e.pos = 0 THEN e ELSE
  LET gap == e.disp % LineWidth = 0 /\ GetAt(e.gaps, LineOf(e) - 1)
  IN  [e EXCEPT !.pos = @ - 1, !.disp = @ - e.buf[e.pos].width - (IF gap THEN 1 ELSE 0)]

MoveRight(e) ==
  IF AtEnd(e) THEN e ELSE
  LET w == e.buf[e.pos + 1].width
      gap == GetAt(e.gaps, LineOf(e))
      next == e.disp + w
      over == /\ next % LineWidth # 0 /\ gap
              /\ (next - w) % LineWidth = LineWidth - 1 \/ next % LineWidth = LineWidth - 1
  IN  [e EXCEPT !.pos = @ + 1, !.disp = IF over THEN next + 1 ELSE next]

\* Mutant: MoveToEnd moves in the text only.
MoveToEndOfText(e) == [e EXCEPT !.pos = Len(e.buf)]

MoveToStart(e) == [e EXCEPT !.pos = 0, !.disp = 0]
MoveToEnd(e) == IF AtEnd(e) THEN e ELSE [e EXCEPT !.pos = Len(e.buf), !.disp = DisplaySize(e)]

\* Applies step n times.
Times(step(_), n, e) == FoldLeft(LAMBDA a, i : step(a), e, [i \in 1..n |-> i])

\* The start of the word left of the cursor, and the space right of it
IsSpace(e, i) == e.buf[i].space
WordStart(e) ==
  LET inWord(i) == \E j \in i..e.pos : ~IsSpace(e, j)
  IN  IF \E i \in 1..e.pos : IsSpace(e, i) /\ inWord(i)
      THEN CHOOSE i \in 1..e.pos : /\ IsSpace(e, i) /\ inWord(i)
                                  /\ \A j \in (i + 1)..e.pos : IsSpace(e, j) => ~inWord(j)
      ELSE 0
NextSpace(e) ==
  IF \E i \in (e.pos + 2)..Len(e.buf) : IsSpace(e, i)
  THEN CHOOSE i \in (e.pos + 2)..Len(e.buf) : IsSpace(e, i) /\ \A j \in (e.pos + 2)..(i - 1) : ~IsSpace(e, j)
  ELSE Len(e.buf) + 1

MoveLeftWord(e) == Times(MoveLeft, e.pos - WordStart(e), e)
MoveRightWord(e) == IF AtEnd(e) THEN e ELSE Times(MoveRight, NextSpace(e) - 1 - e.pos, e)
DeleteWord(e) == Times(Backspace, e.pos - WordStart(e), e)
DeleteBefore(e) == Times(Backspace, e.pos, e)
DeleteRemaining(e) == Times(DeleteRune, Len(e.buf) - e.pos, e)

\* Replace: the gaps stay.
Replaced(e, text) == FoldLeft(AddRune, [NoBuffer EXCEPT !.gaps = e.gaps], text)

(***************************************************************************)
(* Readline                                                                *)
(***************************************************************************)
Newest == linePos = Len(lines)
Kept(s) == IF Len(s) > Limit THEN Tail(s) ELSE s

RLInit ==
  /\ editor = NoBuffer
  /\ lines \in Saved /\ linePos = Len(lines)
  /\ draft = <<>> /\ typed = <<>> /\ plain = TRUE
  /\ reader = [call |-> 1, fresh |-> TRUE, count |-> 0]

\* A key that edits or moves, with the number of runes it types.
Edit(e, n) ==
  /\ editor' = e /\ Len(e.gaps) <= MaxGaps
  /\ typed' = IF Newest THEN e.buf ELSE typed
  /\ plain' = (plain /\ Plain(e.buf))
  /\ reader' = [reader EXCEPT !.count = @ + n]
  /\ UNCHANGED <<lines, linePos, draft>>

Type(r) == reader.count < MaxTyped /\ Edit(AddRune(editor, r), 1)
Move == \E e \in {MoveLeft(editor), MoveRight(editor), MoveToStart(editor), MoveToEnd(editor), MoveLeftWord(editor), MoveRightWord(editor)} : Edit(e, 0)
Erase == \E e \in {Backspace(editor), DeleteRune(editor), DeleteWord(editor), DeleteBefore(editor), DeleteRemaining(editor)} : Edit(e, 0)

Recall(text) ==
  /\ editor' = Replaced(editor, text) /\ Len(editor'.gaps) <= MaxGaps
  /\ plain' = (plain /\ Plain(text))

\* Mutant: the draft is taken at every step up.
LeavesAny == TRUE

\* Going up leaves the draft, which is kept.
Leaves == Newest

HistoryPrev ==
  /\ linePos > 0
  /\ draft' = IF Leaves THEN editor.buf ELSE draft
  /\ linePos' = linePos - 1
  /\ Recall(lines[linePos])
  /\ UNCHANGED <<lines, reader, typed>>

\* Past the newest line the draft comes back, by a second replacement.
HistoryNext ==
  /\ ~Newest
  /\ linePos' = linePos + 1
  /\ IF linePos' = Len(lines)
     THEN /\ editor' = Replaced(Replaced(editor, <<>>), draft) /\ Len(editor'.gaps) <= MaxGaps
          /\ plain' = (plain /\ Plain(draft))
     ELSE Recall(lines[linePos' + 1])
  /\ UNCHANGED <<lines, draft, reader, typed>>

\* The next call has a buffer and a draft of its own, and the history's position.
NextCall(ls, pos) ==
  /\ reader.call < MaxCalls
  /\ reader' = [call |-> reader.call + 1, fresh |-> pos = Len(ls), count |-> reader.count]
  /\ lines' = ls /\ linePos' = pos
  /\ editor' = NoBuffer /\ draft' = <<>> /\ typed' = <<>> /\ plain' = TRUE

Enter == NextCall(IF editor.buf = <<>> THEN lines ELSE Kept(Append(lines, editor.buf)),
                  IF editor.buf = <<>> THEN linePos ELSE Len(Kept(Append(lines, editor.buf))))
\* Ctrl-C ends the call as it is, and Ctrl-Z does.
Interrupt == NextCall(lines, linePos)

RLNext == (\E r \in Runes : Type(r)) \/ Move \/ Erase \/ HistoryPrev \/ HistoryNext \/ Enter \/ Interrupt

RLSpec == RLInit /\ [][RLNext]_rlVars

-----------------------------------------------------------------------------
(***************************************************************************)
(* Properties.                                                             *)
(***************************************************************************)
\* The display agrees with the text after any keys, as long as there are neither
\* wide runes nor two full lines: there the code loses count (see the README).
DisplayAgrees ==
  plain => /\ editor.disp = editor.pos /\ editor.pos \in 0..Len(editor.buf)
            /\ \A i \in DOMAIN editor.gaps : ~editor.gaps[i]

\* A draft survives a walk through the history, whatever is recalled and edited
\* on the way, in a call that began on the newest line.
DraftKept == reader.fresh /\ Newest => editor.buf = typed
=============================================================================
