----------------------------- MODULE AuditLoop -----------------------------
(***************************************************************************)
(* The reflector (engine/reflector.go, engine/findings.go): critics and    *)
(* analysis tools review the material in one wave, their findings are      *)
(* merged into a report, and a reviser edits the material before the next  *)
(* wave, until the report is good enough or the iterations are used up.    *)
(*                                                                         *)
(* A reviewer is a critic or a tool; Label is the id its findings are      *)
(* stored under.  What is read from the reviewers' texts is a sequence of  *)
(* findings [id, spot, severity]: id may be missing (None), a spot is a    *)
(* (file, line, title) or None.  Severities are ranks, 4 is HIGH.          *)
(***************************************************************************)
EXTENDS Naturals, Sequences, FiniteSets, SequencesExt

CONSTANTS Critics, Tools, Label, Order,  \* Order: the labels as sort.Strings puts them
          Answers,        \* the findings a reviewer may report
          StopWhen,       \* "max_iterations", "no_high", "no_med", "no_findings"
          HasReviser,
          MaxIterations,
          MaxParallel,
          None

Reviewers == Critics \union Tools

HIGH == 4
MEDIUM == 3

VARIABLES
  phase,      \* "wave", "revise", "ended"
  iter,
  row,        \* reviewer -> its row of this wave: "running", "completed", "failed"
  active,     \* the reviewers that hold a slot of the semaphore
  over,       \* the reviewers whose goroutine has returned
  said,       \* label -> the findings stored under it in this wave
  poor,       \* firstBudgetErr is set
  ended,      \* why the context of the run ended: "no", "cancel", "denied"
  report,     \* res.FinalFindings: a sequence of findings, or None
  status      \* of the session

vars == <<phase, iter, row, active, over, said, poor, ended, report, status>>

-----------------------------------------------------------------------------
(* Aggregate: one pass keeps the worst finding per key, in its place.      *)
\* broken: the first finding of a key stays, whatever comes later.
Worse_Never(f, g) == FALSE
Worse(f, g) == f.severity > g.severity

(* withinCriticKey: the id of the critic, else the spot; crossCriticKey:   *)
(* the spot alone.                                                         *)
Key(f, across) ==
  IF ~ across /\ f.id # None THEN <<"id", f.id>>
  ELSE IF f.spot # None THEN <<"at", f.spot>> ELSE None

Merge(kept, f, across) ==
  LET key  == Key(f, across)
      same == {i \in DOMAIN kept : key # None /\ Key(kept[i], across) = key} IN
  IF same = {} THEN Append(kept, f)
  ELSE [i \in DOMAIN kept |-> IF i \in same /\ Worse(f, kept[i]) THEN f ELSE kept[i]]

Collapse(findings, across) ==
  LET kept[i \in 0..Len(findings)] ==
        IF i = 0 THEN <<>> ELSE Merge(kept[i - 1], findings[i], across)
  IN kept[Len(findings)]

Join(all, perLabel, label) ==
  IF label \in DOMAIN perLabel THEN all \o Collapse(perLabel[label], FALSE) ELSE all

Aggregate(perLabel) ==
  LET all[i \in 0..Len(Order)] == IF i = 0 THEN <<>> ELSE Join(all[i - 1], perLabel, Order[i])
  IN Collapse(all[Len(Order)], TRUE)

Highest(findings) == Max({0} \union {findings[i].severity : i \in DOMAIN findings})

(* shouldStop; the iteration limit comes first.                           *)
ShouldStop(findings) ==
  \/ iter >= MaxIterations
  \/ CASE StopWhen = "no_findings" -> findings = <<>>
       [] StopWhen = "no_med" -> Highest(findings) < MEDIUM
       [] StopWhen = "no_high" -> Highest(findings) < HIGH
       [] OTHER -> FALSE

-----------------------------------------------------------------------------
StartsWave ==
  /\ phase' = "wave"
  /\ row' = [j \in Reviewers |-> "running"]
  /\ active' = {} /\ over' = {} /\ said' = <<>>

(* A goroutine takes a slot, or finds the context over before it has one   *)
(* and returns: its row stays "running".                                   *)
TakeSlot(j) ==
  /\ phase = "wave" /\ j \notin active \union over
  /\ Cardinality(active) < MaxParallel
  /\ active' = active \union {j}
  /\ UNCHANGED <<phase, iter, row, over, said, poor, ended, report, status>>
NoSlot(j) ==
  /\ phase = "wave" /\ j \notin active \union over
  /\ ended # "no"
  /\ over' = over \union {j}
  /\ UNCHANGED <<phase, iter, row, active, said, poor, ended, report, status>>

(* The slot is released and the row settled.                               *)
Returns(j, outcome) ==
  /\ active' = active \ {j} /\ over' = over \union {j}
  /\ row' = [row EXCEPT ![j] = outcome]
  /\ UNCHANGED <<phase, iter, ended, report, status>>

(* The reviewer answers and its findings can be read.  A tool that is told *)
(* to go on after a failure is read up to where it was killed.             *)
Answer(j, findings) ==
  /\ phase = "wave" /\ j \in active
  /\ said' = [l \in DOMAIN said \union {Label[j]} |-> IF l = Label[j] THEN findings ELSE said[l]]
  /\ Returns(j, "completed") /\ UNCHANGED poor

(* A provider or tool error, or a text without findings in it.             *)
Fail(j) ==
  /\ phase = "wave" /\ j \in active
  /\ Returns(j, "failed") /\ UNCHANGED <<said, poor>>

(* callProvider's budget check, before or after the call of a critic.      *)
OverBudget(j) ==
  /\ phase = "wave" /\ j \in active \intersect Critics
  /\ poor' = TRUE
  /\ Returns(j, "failed") /\ UNCHANGED said

(* A tool call of a provider is denied by a human: the run is cancelled    *)
(* with that cause; the calls in flight end as they may.                   *)
Deny ==
  /\ \/ phase = "wave" /\ active \intersect Critics # {}
     \/ phase = "revise"
  /\ ended = "no" /\ ended' = "denied"
  /\ UNCHANGED <<phase, iter, row, active, over, said, poor, report, status>>

(* Ctrl-C, the run timeout, or the sentinel.                               *)
Cancel ==
  /\ phase # "ended" /\ ended = "no" /\ ended' = "cancel"
  /\ UNCHANGED <<phase, iter, row, active, over, said, poor, report, status>>

Ends(with) == phase' = "ended" /\ status' = with

(* What wg.Wait finds.                                                     *)
WaveVerdict ==
  IF poor THEN "budget_exhausted"
  ELSE IF ended = "denied" THEN "hitl_denied" ELSE "reviewed"

WaveBreaks ==
  /\ phase = "wave" /\ over = Reviewers /\ WaveVerdict # "reviewed"
  /\ Ends(WaveVerdict)
  /\ UNCHANGED <<iter, row, active, over, said, poor, ended, report>>

(* The report, which replaces the last one, and the stop conditions.       *)
WaveReported ==
  LET merged == Aggregate(said) IN
  /\ phase = "wave" /\ over = Reviewers /\ WaveVerdict = "reviewed"
  /\ report' = merged
  /\ IF ShouldStop(merged) \/ ~ HasReviser THEN Ends("completed")
     ELSE phase' = "revise" /\ UNCHANGED status
  /\ UNCHANGED <<iter, row, active, over, said, poor, ended>>

(* runReviser: the reviser answers and its gate, if any, passes ...        *)
Revised ==
  /\ phase = "revise"
  /\ iter' = iter + 1
  /\ StartsWave
  /\ UNCHANGED <<poor, ended, report, status>>
(* ... or it fails, is out of budget, or its gate fails.                   *)
ReviseFails ==
  /\ phase = "revise"
  /\ Ends(IF ended = "denied" THEN "hitl_denied" ELSE "failed")
  /\ UNCHANGED <<iter, row, active, over, said, poor, ended, report>>
ReviseOverBudget ==
  /\ phase = "revise"
  /\ Ends("budget_exhausted") /\ poor' = TRUE
  /\ UNCHANGED <<iter, row, active, over, said, ended, report>>

Init ==
  /\ phase = "wave" /\ iter = 1
  /\ row = [j \in Reviewers |-> "running"]
  /\ active = {} /\ over = {} /\ said = <<>>
  /\ poor = FALSE /\ ended = "no" /\ report = None /\ status = "running"

Wave ==
  \E j \in Reviewers :
    \/ TakeSlot(j) \/ NoSlot(j)
    \/ \E findings \in Answers : Answer(j, findings)
    \/ Fail(j) \/ OverBudget(j)

Next ==
  \/ Wave \/ Deny \/ Cancel
  \/ WaveBreaks \/ WaveReported
  \/ Revised \/ ReviseFails \/ ReviseOverBudget

Spec == Init /\ [][Next]_vars

(* Provider and tool calls have timeouts; the loop itself never waits.     *)
Fairness ==
  /\ WF_vars(Wave)
  /\ WF_vars(WaveBreaks \/ WaveReported)
  /\ WF_vars(Revised \/ ReviseFails \/ ReviseOverBudget)

FairSpec == Spec /\ Fairness

-----------------------------------------------------------------------------
(* `uta audit` exits 5 when HIGH findings remain, 4 or 130 on an error.    *)
ExitCode ==
  IF status # "completed" THEN 4
  ELSE IF report # None /\ Highest(report) = HIGH THEN 5 ELSE 0

Complete == \A j \in Reviewers : row[j] = "completed"

(* A clean exit after a wave in which every reviewer answered: none of     *)
(* them reported a HIGH finding.  Neither pass of the deduplication loses  *)
(* the worst finding, and the report is the last wave's.                   *)
CleanIsClean ==
  phase = "ended" /\ ExitCode = 0 /\ Complete
    => \A l \in DOMAIN said : Highest(said[l]) < HIGH
=============================================================================
