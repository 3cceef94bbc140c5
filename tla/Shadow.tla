-------------------------------- MODULE Shadow --------------------------------
(***************************************************************************)
(* `uta shadow run` (internal/shadow/shadow.go, internal/cli/shadow.go):   *)
(* the recent sessions of a mode are replayed under its present profile    *)
(* and compared, while other processes go on writing sessions; and the two *)
(* diffs that show what changed, the lockstep one of its report and the    *)
(* longest-common-subsequence one of `uta mission fmt` (missionfmt.go).    *)
(* A text is the sequence of its lines, "" for an empty one; it has a last *)
(* empty line when it ends with a newline.                                 *)
(***************************************************************************)
EXTENDS Integers, FiniteSets, Sequences, SequencesExt

CONSTANTS Originals, Answers,   \* texts: of the recorded sessions, and of their replays
          Workers, Registered,  \* the workers sessions were made with, and those there are now
          MaxHistory,           \* bound: sessions of the mode
          MaxSessions,          \* --max-sessions
          Threshold,            \* of drift, in words
          Context               \* lines around a change, 3 in the code

VARIABLES history,      \* the sessions of the mode, oldest first
          since,        \* the first session within --since
          dryRun, flag, \* --dry-run; --worker, or ""
          pc, worker,
          todo,         \* the sessions still to be replayed
          wanted,       \* the sessions RunMode has selected (history)
          report,       \* per replayed session, what is said of it
          compared,     \* the texts compared last (history)
          interrupted, exit

request == <<since, dryRun, flag>>
vars == <<history, request, pc, worker, todo, wanted, report, compared, interrupted, exit>>

Session(w, status, text) == [worker |-> w, status |-> status, text |-> text]

Init ==
  /\ history \in {<<>>} \union
                 {<<Session(w, status, text)>> :
                    w \in Workers, status \in {"completed", "running"}, text \in Originals}
  /\ since \in {1, 2} /\ dryRun \in BOOLEAN /\ flag \in {""} \union Registered
  /\ pc = "start" /\ worker = "" /\ todo = <<>> /\ wanted = <<>> /\ report = <<>>
  /\ compared = <<<<"">>, <<"">>>> /\ interrupted = FALSE /\ exit = -1

-----------------------------------------------------------------------------
(* The diff of the report walks both texts in lockstep.                    *)
RECURSIVE TrimRight(_)
TrimRight(text) ==
  IF Len(text) > 1 /\ Last(text) = "" THEN TrimRight(Front(text)) ELSE text

Op(sign, line) == [sign |-> sign, line |-> line]

\* broken: takes a line from each side when they differ
Step_Both(a, b) ==
  IF a # <<>> /\ b # <<>> /\ Head(a) = Head(b) THEN <<Op(" ", Head(a)), Tail(a), Tail(b)>>
  ELSE IF a # <<>> /\ b # <<>> THEN <<Op("-", Head(a)), Tail(a), Tail(b)>>
  ELSE IF a # <<>> THEN <<Op("-", Head(a)), Tail(a), b>> ELSE <<Op("+", Head(b)), a, Tail(b)>>

(* One line of it, and what is left of the two texts.                      *)
Step(a, b) ==
  IF a # <<>> /\ b # <<>> /\ Head(a) = Head(b) THEN <<Op(" ", Head(a)), Tail(a), Tail(b)>>
  ELSE IF a # <<>> THEN <<Op("-", Head(a)), Tail(a), b>> ELSE <<Op("+", Head(b)), a, Tail(b)>>

RECURSIVE Lockstep(_, _)
Lockstep(a, b) ==
  IF a = <<>> /\ b = <<>> THEN <<>>
  ELSE LET s == Step(a, b) IN <<s[1]>> \o Lockstep(s[2], s[3])

ReportDiff(a, b) == IF a = b THEN <<>> ELSE Lockstep(TrimRight(a), TrimRight(b))

-----------------------------------------------------------------------------
(* diffSplit, and diffOps with its table.                                  *)
Split(text) ==
  IF text \in {<<"">>, <<"", "">>} THEN <<>>
  ELSE IF Last(text) = "" THEN Front(text) ELSE text

RECURSIVE LCS(_, _)
LCS(a, b) ==
  IF a = <<>> \/ b = <<>> THEN 0
  ELSE IF Head(a) = Head(b) THEN LCS(Tail(a), Tail(b)) + 1
  ELSE LET down == LCS(Tail(a), b)  right == LCS(a, Tail(b)) IN
       IF down >= right THEN down ELSE right

RECURSIVE DiffOps(_, _)
DiffOps(a, b) ==
  CASE a = <<>> \/ b = <<>> ->
         [i \in DOMAIN a |-> Op("-", a[i])] \o [i \in DOMAIN b |-> Op("+", b[i])]
    [] a # <<>> /\ b # <<>> /\ Head(a) = Head(b) ->
         <<Op(" ", Head(a))>> \o DiffOps(Tail(a), Tail(b))
    [] OTHER ->
         IF LCS(Tail(a), b) >= LCS(a, Tail(b))
           THEN <<Op("-", Head(a))>> \o DiffOps(Tail(a), b)
           ELSE <<Op("+", Head(b))>> \o DiffOps(a, Tail(b))

(* The hunks: every change with its context, joined where they touch.      *)
Grow(hunks, lo, hi) ==
  IF hunks # <<>> /\ lo <= Last(hunks)[2]
    THEN [hunks EXCEPT ![Len(hunks)][2] = IF hi > @ THEN hi ELSE @]
    ELSE Append(hunks, <<lo, hi>>)

Hunks(ops) ==
  FoldLeft(LAMBDA hunks, i :
             IF ops[i].sign = " " THEN hunks
             ELSE Grow(hunks, IF i - 1 < Context THEN 0 ELSE i - 1 - Context,
                       IF i + Context > Len(ops) THEN Len(ops) ELSE i + Context),
           <<>>, [i \in DOMAIN ops |-> i])

Side(ops, other) ==
  LET kept == SelectSeq(ops, LAMBDA op : op.sign # other) IN
  [i \in DOMAIN kept |-> kept[i].line]

(* A hunk as it is printed: where it begins on each side, and its lines.   *)
Printed(ops, h) ==
  [at |-> Len(Side(SubSeq(ops, 1, h[1]), "+")) + 1,
   to |-> Len(Side(SubSeq(ops, 1, h[1]), "-")) + 1,
   ops |-> SubSeq(ops, h[1] + 1, h[2])]

FmtDiff(ops) == [i \in DOMAIN Hunks(ops) |-> Printed(ops, Hunks(ops)[i])]

-----------------------------------------------------------------------------
(* SelectSessions: the newest of the mode, of these the ones in the        *)
(* window, oldest first.                                                   *)
Selected ==
  SelectSeq([i \in DOMAIN history |-> i],
            LAMBDA i : i > Len(history) - MaxSessions /\ i >= since)

(* countTokens, of texts whose lines have one word or none.                *)
Words(text) == Len(SelectSeq(text, LAMBDA line : line # ""))

Drifted(s, new) ==
  \/ new.err
  \/ s.status # new.status /\ new.status # ""
  \/ Words(new.text) - Words(s.text) >= Threshold
  \/ Words(s.text) - Words(new.text) >= Threshold

Leave(code) == pc' = "exited" /\ exit' = code

(* The worker of every replay: the one asked for, else the newest matching *)
(* session's, else the first there is.                                     *)
WorkerFor(listed) ==
  IF flag # "" THEN flag
  ELSE IF history[Last(listed)].worker # "" THEN history[Last(listed)].worker
  ELSE CHOOSE w \in Registered : TRUE

Resolve ==
  /\ pc = "start"
  /\ IF dryRun \/ Selected = <<>> THEN Leave(0) /\ UNCHANGED worker
     ELSE /\ worker' = WorkerFor(Selected)
          /\ IF worker' \in Registered THEN pc' = "select" /\ UNCHANGED exit ELSE Leave(1)
  /\ UNCHANGED <<history, request, todo, wanted, report, compared, interrupted>>

(* RunMode selects once more, after the sandbox has been staged.           *)
Select ==
  /\ pc = "select"
  /\ pc' = "replay" /\ todo' = Selected /\ wanted' = Selected
  /\ UNCHANGED <<history, request, worker, report, compared, interrupted, exit>>

(* replaySession.  The row was read when the sessions were selected: what  *)
(* becomes of a session that was still running is not seen.                *)
Replay ==
  /\ pc = "replay" /\ todo # <<>>
  /\ LET s == history[Head(todo)] IN
     \E text \in Answers, status \in {"completed", "failed", "partial", ""}, err \in BOOLEAN :
       /\ status \in {"", "failed"} => err
       /\ err => text = <<"">>
       /\ report' = Append(report, Drifted(s, [text |-> text, status |-> status, err |-> err]))
       /\ compared' = <<s.text, text>>
  /\ todo' = Tail(todo)
  /\ UNCHANGED <<history, request, pc, worker, wanted, interrupted, exit>>

(* Ctrl-C ends the replay under way with an error, or comes between two.   *)
Interrupt ==
  /\ pc = "replay" /\ ~interrupted
  /\ interrupted' = TRUE
  /\ UNCHANGED <<history, request, pc, worker, todo, wanted, report, compared, exit>>

Conclude ==
  /\ pc = "replay" /\ (todo = <<>> \/ interrupted)
  /\ Leave(IF TRUE \in Range(report) THEN 5 ELSE 0)
  /\ UNCHANGED <<history, request, worker, todo, wanted, report, compared, interrupted>>

(* Another process starts a session of the mode.                           *)
Record ==
  /\ pc \in {"start", "select"} /\ Len(history) < MaxHistory
  /\ \E w \in Workers, text \in Originals :
       history' = Append(history, Session(w, "completed", text))
  /\ UNCHANGED <<request, pc, worker, todo, wanted, report, compared, interrupted, exit>>

Next == Resolve \/ Select \/ Replay \/ Interrupt \/ Conclude \/ Record

Spec == Init /\ [][Next]_vars

-----------------------------------------------------------------------------
(* What the command shows is what happened.  The diff of the report holds  *)
(* both texts, but for the newlines at their end.  The diff of mission fmt *)
(* has a hunk for every change, no longer than it must be, and its hunks,  *)
(* applied where they say they begin, turn the one text into the other.    *)
(* A replay not reported as drifted neither grew nor shrank by the         *)
(* threshold or more, and an exit with 0 that was not cut short has        *)
(* replayed every session selected, none of them drifted (unifiedDiff of   *)
(* both packages, diffOps, RunMode, isDrifted).                            *)
Apply(hunks, a) ==
  FoldLeft(LAMBDA b, h :
             SubSeq(b, 1, h.to - 1) \o Side(h.ops, "-")
               \o SubSeq(b, h.to + Len(Side(h.ops, "+")), Len(b)),
           a, hunks)

DiffsAreFaithful(a, b) ==
  /\ a # b => /\ Side(ReportDiff(a, b), "+") = TrimRight(a)
              /\ Side(ReportDiff(a, b), "-") = TrimRight(b)
  /\ LET ops == DiffOps(Split(a), Split(b)) IN
     /\ \A h \in Range(FmtDiff(ops)) :
          SubSeq(Split(a), h.at, h.at + Len(Side(h.ops, "+")) - 1) = Side(h.ops, "+")
     /\ Apply(FmtDiff(ops), Split(a)) = Split(b)
     /\ Len(SelectSeq(ops, LAMBDA op : op.sign = " ")) = LCS(Split(a), Split(b))

ReportIsTrue ==
  /\ DiffsAreFaithful(compared[1], compared[2])
  /\ report # <<>> /\ ~Last(report) =>
       Words(compared[1]) - Words(compared[2]) \in (1 - Threshold)..(Threshold - 1)
  /\ exit = 0 /\ wanted # <<>> /\ ~interrupted =>
       Len(report) = Len(wanted) /\ TRUE \notin Range(report)
=============================================================================
