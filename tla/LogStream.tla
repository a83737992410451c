----------------------------- MODULE LogStream -----------------------------
(***************************************************************************)
(* `docker model logs`: the service log and the engine log, merged by      *)
(* time and then followed from the offsets the merge has reached           *)
(* (pkg/logs/merge.go, follow.go, http_handler.go; the CLI takes the same  *)
(* path on local files).  Both files grow meanwhile, a line sometimes in   *)
(* two halves: an offset counts halves.                                    *)
(***************************************************************************)
EXTENDS Integers, Sequences

CONSTANTS ServiceTimes, EngineTimes   \* by line: its timestamp, 0 for a line without one

LogAssumption == ServiceTimes \in Seq(Nat) /\ EngineTimes \in Seq(Nat)

Logs == {"service", "engine"}
Times(f) == IF f = "service" THEN ServiceTimes ELSE EngineTimes
Nothing == [from |-> 0, to |-> 0]

VARIABLES
  present,   \* the files that exist
  size,      \* by file: the halves written
  reading,   \* "checked", "merge", "follow", "ended"
  offset,    \* by file: the halves read
  sawEnd,    \* by file: the reader met the end of the file
  pending,   \* by file: the line held back for its turn
  output     \* what was written to the client

lgVars == <<present, size, reading, offset, sawEnd, pending, output>>
Piece(f, from, to) == [log |-> f, from |-> from, to |-> to]
LineAt(at) == (at \div 2) + 1                          \* the line of the next half
TimeOf(f, r) == IF r.from % 2 = 0 THEN Times(f)[LineAt(r.from)] ELSE 0
Smaller(a, b) == IF a < b THEN a ELSE b

LGInit ==
  /\ present \in {Logs, {"service"}, {"engine"}} /\ size = [f \in Logs |-> 0]
  /\ reading = "checked" /\ offset = [f \in Logs |-> 0] /\ sawEnd = [f \in Logs |-> FALSE]
  /\ pending = [f \in Logs |-> Nothing] /\ output = <<>>

(* The runner writes: a whole line, or the half of one. *)
WriteLog(f) ==
  /\ size[f] < 2 * Len(Times(f)) /\ present' = present \cup {f}
  /\ \E n \in {1, IF size[f] % 2 = 0 THEN 2 ELSE 1} : size' = [size EXCEPT ![f] = @ + n]
  /\ UNCHANGED <<reading, offset, sawEnd, pending, output>>

-----------------------------------------------------------------------------
(* readLine: to the end of the line or of the file, whichever is first; the
   offset counts what was read. *)
WholeLine(f, at) == [from |-> at, to |-> 2 * LineAt(at)]
ReadLine(f, at) == [from |-> at, to |-> Smaller(2 * LineAt(at), size[f])]

Held(f) == pending[f] # Nothing

(* Both readers are primed; a service log that is not there is an error, an
   engine log that is not there is left out. *)
OpenLogs ==
  /\ reading = "checked"
  /\ IF "service" \in present
     THEN reading' = "merge" /\ sawEnd' = [f \in Logs |-> f \notin present]
     ELSE reading' = "ended" /\ UNCHANGED sawEnd
  /\ UNCHANGED <<present, size, offset, pending, output>>

(* advance, a line at a time: lines without a time go out at once, the next one
   with a time is held; a line that the end of the file cuts is taken as it is.
   The service log's reader is primed first; later only one reader has no line. *)
Advancing(f) == reading = "merge" /\ ~Held(f) /\ ~sawEnd[f]
Advance(f) ==
  /\ Advancing(f) /\ (f = "engine" => ~Advancing("service"))
  /\ LET r == ReadLine(f, offset[f])
     IN /\ offset' = [offset EXCEPT ![f] = r.to]
        /\ sawEnd' = [sawEnd EXCEPT ![f] = r.to = r.from \/ r.to % 2 = 1]
        /\ \/ r.to = r.from /\ UNCHANGED <<pending, output>>
           \/ /\ r.to # r.from /\ TimeOf(f, r) # 0
              /\ pending' = [pending EXCEPT ![f] = r] /\ UNCHANGED output
           \/ /\ r.to # r.from /\ TimeOf(f, r) = 0
              /\ output' = Append(output, Piece(f, r.from, r.to)) /\ UNCHANGED pending
  /\ UNCHANGED <<present, size, reading>>

HeldTime(f) == TimeOf(f, pending[f])
Earlier == HeldTime("service") <= HeldTime("engine")     \* ties go to the service log
NextLog == IF Held("service") /\ (Held("engine") => Earlier) THEN "service" ELSE "engine"
MergeLine ==
  /\ reading = "merge" /\ \A f \in Logs : ~Advancing(f)
  /\ \E f \in Logs : Held(f)
  /\ LET f == NextLog
     IN /\ output' = Append(output, Piece(f, pending[f].from, pending[f].to))
        /\ pending' = [pending EXCEPT ![f] = Nothing]
  /\ UNCHANGED <<present, size, reading, offset, sawEnd>>

(* Without follow the answer ends here; otherwise both files are tailed from
   where the readers stopped, an engine log that was not there from its
   beginning, and one loop writes what either has.  The tail library is
   external: it may hand on a line before its newline is there. *)
EndOfFile(f) == size[f]
Reached(f) == offset[f]
MergeEnds ==
  /\ reading = "merge" /\ \A f \in Logs : ~Held(f) /\ ~Advancing(f)
  /\ reading' \in {"follow", "ended"}
  /\ offset' = [f \in Logs |-> Reached(f)]
  /\ UNCHANGED <<present, size, sawEnd, pending, output>>
FollowLine(f) ==
  /\ reading = "follow" /\ offset[f] < size[f]
  /\ LET r == ReadLine(f, offset[f])
     IN /\ output' = Append(output, Piece(f, r.from, r.to)) /\ offset' = [offset EXCEPT ![f] = r.to]
  /\ UNCHANGED <<present, size, reading, sawEnd, pending>>
StopFollowing ==
  /\ reading = "follow" /\ reading' = "ended"
  /\ UNCHANGED <<present, size, offset, sawEnd, pending, output>>

LGNext ==
  \/ OpenLogs \/ MergeLine \/ MergeEnds \/ StopFollowing
  \/ \E f \in Logs : WriteLog(f) \/ Advance(f) \/ FollowLine(f)
LGSpec == LGInit /\ [][LGNext]_lgVars

-----------------------------------------------------------------------------
LGTypeOK ==
  /\ present \subseteq Logs /\ size \in [Logs -> Nat]
  /\ reading \in {"checked", "merge", "follow", "ended"}
  /\ \A f \in Logs : offset[f] <= size[f] /\ pending[f].to <= offset[f]
  /\ \A i \in 1..Len(output) : output[i].log \in Logs /\ output[i].from < output[i].to

(* Of the first n pieces of the output, those of a file end here. *)
Seen(f, n, at) ==
  \/ at = 0 /\ \A j \in 1..n : output[j].log # f
  \/ \E j \in 1..n : /\ output[j].log = f /\ output[j].to = at
                     /\ \A k \in j + 1..n : output[k].log # f

(* What a client has seen of a file is what the file holds, from its first
   byte, in order, nothing twice and nothing missing, although the file grows
   between the merge and the tail ("with no gap", merge.go:34). *)
NoGap == \A i \in 1..Len(output) : Seen(output[i].log, i - 1, output[i].from)

(* The merged part is in the order of time when each file is. *)
TimeOut(i) == TimeOf(output[i].log, output[i])
Sorted(s) == \A i, j \in 1..Len(s) : i < j /\ s[i] # 0 /\ s[j] # 0 => s[i] <= s[j]
InOrder ==
  reading = "merge" /\ (\A f \in Logs : Sorted(Times(f))) =>
    \A i, j \in 1..Len(output) :
      i < j /\ TimeOut(i) # 0 /\ TimeOut(j) # 0 => TimeOut(i) <= TimeOut(j)
=============================================================================
