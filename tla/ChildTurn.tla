------------------------------ MODULE ChildTurn ------------------------------
(***************************************************************************)
(* One attempt of Supervisor.callProvider with a provider that drives a    *)
(* CLI: claude, gemini, agy or a declarative one ("yaml").  The child      *)
(* writes lines to a pipe and a scanner parses them into a small channel   *)
(* of events, which the drain goroutine passes through the capability gate *)
(* and the HITL triggers into the trajectory.  The context may end at any  *)
(* moment, and what the child itself started may outlive it and hold its   *)
(* pipes.                                                                  *)
(***************************************************************************)
EXTENDS Naturals, Sequences, FiniteSets, SequencesExt

CONSTANTS Kinds,        \* the providers: of "claude", "gemini", "agy", "yaml"
          Lines,        \* what a child writes, see EventOf; "long" overflows the scanner
          MaxLines,     \* BOUND: lines a child writes
          PipeSize,     \* lines the pipe holds
          BufferSize,   \* events the channel holds (64)
          Outlives      \* a tool process may outlive the child

VARIABLES
  kind,      \* the provider of the turn
  ctx,       \* "live", "deadline" (opts.Timeout), "cancelled"
  child,     \* "running", "done" (exit 0), "failed", "killed"
  stderr,    \* what a failed child says there: of {"quota", "auth"}
  wrote,     \* how many lines it wrote
  holder,    \* something it started holds its pipes
  pipe,      \* lines written, not yet read
  stdin,     \* the goroutine writing the prompt: "none", "writing", "written", "failed"
  reader,    \* runHeadless: "scanning", "waiting" (cmd.Wait), "waited", "returned"
  lines,     \* the lines the scanner returned
  badScan,   \* scanner.Err() # nil
  usage,     \* claudeUsage: [cost, final]
  events,    \* the channel: [no, whole] for each, no the line it came from
  asking,    \* the event the drain goroutine asks a human about, or none
  judged,    \* the tool calls the capability gate saw
  recorded,  \* the events in the trajectory: [no, as, whole]
  result     \* what RunHeadless returned, or none

vars == <<kind, ctx, child, stderr, wrote, holder, pipe, stdin, reader, lines, badScan,
          usage, events, asking, judged, recorded, result>>
process == <<child, stderr, wrote, holder, stdin>>
drain == <<asking, judged, recorded>>

None == <<>>
ToolCalls == {"call", "denied", "risky"}

TypeOK ==
  /\ kind \in Kinds /\ ctx \in {"live", "deadline", "cancelled"}
  /\ child \in {"running", "done", "failed", "killed"} /\ stderr \subseteq {"quota", "auth"}
  /\ wrote \in 0..MaxLines /\ holder \in BOOLEAN
  /\ pipe \in Seq(Lines) /\ lines \in Seq(Lines) /\ Len(pipe) <= PipeSize
  /\ stdin \in {"none", "writing", "written", "failed"}
  /\ reader \in {"scanning", "waiting", "waited", "returned"} /\ badScan \in BOOLEAN
  /\ usage \in [cost : Nat, final : BOOLEAN]
  /\ events \in Seq([no : Nat, whole : BOOLEAN]) /\ Len(events) <= BufferSize
  /\ judged \subseteq 1..MaxLines

-----------------------------------------------------------------------------
(* What a parser makes of a line.                                          *)

(* The event it emits.  An echo of the prompt and a result emit none.      *)
EventOf(line) ==
  CASE line = "init" -> "session"
    [] line = "text" -> "text"
    [] line \in ToolCalls -> "tool_call"
    [] line = "noise" -> "chunk"
    [] OTHER -> "none"

(* A line that is not JSON is passed on as the scanner's own bytes; agy    *)
(* copies it first.  Every other payload is marshalled anew.               *)
Aliased(k, line) == line = "noise" /\ k # "agy"

(* The final text, as the numbers of the lines it is made of.  claude and  *)
(* a declarative provider take the last result; gemini joins the           *)
(* assistant's messages; agy does too unless a result came.                *)
AnswerFrom(k) == {"text"}

Answer(k, seen) ==
  LET Of(sorts) == SelectSeq([i \in DOMAIN seen |-> i], LAMBDA i : seen[i] \in sorts)
      results == Of({"result", "bare"}) IN
  IF k = "gemini" \/ (k = "agy" /\ results = <<>>) THEN Of(AnswerFrom(k))
  ELSE IF results = <<>> THEN <<>> ELSE <<Last(results)>>

(* claudeUsage.merge: messages add up until a result comes, whose total    *)
(* stands from then on, also when it names no usage ("bare").  gemini and  *)
(* agy estimate from what was said; a declarative provider reports none.   *)
Messages(seen) == Cardinality({i \in DOMAIN seen : seen[i] \in {"text"} \union ToolCalls})

\* broken: a result's total is added to the sum of the messages.
Merge_Adds(used, seen) ==
  CASE Last(seen) = "result" -> [cost |-> used.cost + Messages(seen), final |-> TRUE]
    [] Last(seen) = "bare"   -> [cost |-> used.cost, final |-> TRUE]
    [] OTHER -> IF used.final THEN used ELSE [used EXCEPT !.cost = @ + Messages(<<Last(seen)>>)]
Merge(used, seen) ==
  CASE Last(seen) = "result" -> [cost |-> Messages(seen), final |-> TRUE]
    [] Last(seen) = "bare"   -> [cost |-> 0, final |-> TRUE]
    [] OTHER -> IF used.final THEN used ELSE [used EXCEPT !.cost = @ + Messages(<<Last(seen)>>)]

-----------------------------------------------------------------------------
(* The child, its prompt and its context.                                  *)

Write(line) ==
  /\ child = "running" /\ wrote < MaxLines /\ Len(pipe) < PipeSize
  /\ wrote' = wrote + 1 /\ pipe' = Append(pipe, line)
  /\ UNCHANGED <<kind, ctx, child, stderr, holder, stdin, reader, lines, badScan, usage, events, drain, result>>

(* A tool the child runs, with the child's stdout and stderr.              *)
Spawn ==
  /\ Outlives /\ child = "running" /\ ~ holder /\ holder' = TRUE
  /\ UNCHANGED <<kind, ctx, child, stderr, wrote, pipe, stdin, reader, lines, badScan, usage, events, drain, result>>
ToolExits ==
  /\ holder /\ holder' = FALSE
  /\ UNCHANGED <<kind, ctx, child, stderr, wrote, pipe, stdin, reader, lines, badScan, usage, events, drain, result>>

Exit(status, said) ==
  /\ child = "running" /\ child' = status /\ stderr' = said
  /\ UNCHANGED <<kind, ctx, wrote, holder, pipe, stdin, reader, lines, badScan, usage, events, drain, result>>

(* exec.CommandContext kills the child alone.                              *)
Kill == ctx # "live" /\ Exit("killed", {})

(* The prompt goes to stdin unless it is an argument (gemini, agy).        *)
PromptWritten ==
  /\ stdin = "writing" /\ stdin' = IF child = "running" THEN "written" ELSE "failed"
  /\ UNCHANGED <<kind, ctx, child, stderr, wrote, holder, pipe, reader, lines, badScan, usage, events, drain, result>>

ContextEnds(how) ==
  /\ ctx = "live" /\ reader # "returned" /\ ctx' = how
  /\ UNCHANGED <<kind, process, pipe, reader, lines, badScan, usage, events, drain, result>>

-----------------------------------------------------------------------------
(* runHeadless.                                                            *)

(* safeEmit drops what the channel has no room for.                        *)
Emitted(line, no) ==
  IF EventOf(line) = "none" \/ Len(events) = BufferSize THEN events
  ELSE Append(events, [no |-> no, whole |-> TRUE])

(* The scanner's buffer is used again: what the channel still holds of an  *)
(* earlier line may be overwritten.                                        *)
Reused(channel) ==
  [i \in DOMAIN channel |-> [channel[i] EXCEPT !.whole = @ /\ ~ Aliased(kind, lines[channel[i].no])]]

ScanLine ==
  /\ reader = "scanning" /\ pipe # <<>> /\ Head(pipe) # "long"
  /\ pipe' = Tail(pipe) /\ lines' = Append(lines, Head(pipe))
  /\ \E channel \in {Emitted(Head(pipe), Len(lines) + 1)} :
       events' \in {channel, Reused(events) \o SubSeq(channel, Len(events) + 1, Len(channel))}
  /\ usage' = Merge(usage, lines')
  /\ UNCHANGED <<kind, ctx, process, reader, badScan, drain, result>>

(* bufio.ErrTooLong; a declarative provider does not ask for it.           *)
ScanBreaks ==
  /\ reader = "scanning" /\ pipe # <<>> /\ Head(pipe) = "long"
  /\ badScan' = TRUE /\ reader' = "waiting"
  /\ UNCHANGED <<kind, ctx, process, pipe, lines, usage, events, drain, result>>

(* End of file: every writer of the pipe is gone.                          *)
ScanEnds ==
  /\ reader = "scanning" /\ pipe = <<>> /\ child # "running" /\ ~ holder
  /\ reader' = "waiting"
  /\ UNCHANGED <<kind, ctx, process, pipe, lines, badScan, usage, events, drain, result>>

(* cmd.Wait also copies stderr to its end.                                 *)
WaitReturns ==
  /\ reader = "waiting" /\ child # "running" /\ ~ holder
  /\ reader' = "waited"
  /\ UNCHANGED <<kind, ctx, process, pipe, lines, badScan, usage, events, drain, result>>

(* What stderr says; where it says both, the one the provider looks for    *)
(* first.                                                                  *)
LooksFirst == IF kind = "yaml" THEN "auth" ELSE "quota"
Blamed == IF LooksFirst \in stderr THEN {LooksFirst} ELSE stderr

Verdict ==
  IF child # "done"
  THEN IF ctx # "live" THEN IF ctx = "deadline" THEN "timeout" ELSE "cancelled"
       ELSE IF Blamed # {} THEN CHOOSE said \in Blamed : TRUE ELSE "worker"
  ELSE IF (badScan /\ kind # "yaml") \/ stdin = "failed" THEN "transport" ELSE "ok"

(* RunHeadless returns after the prompt's goroutine has said how it went.  *)
Return ==
  /\ reader = "waited" /\ stdin # "writing" /\ reader' = "returned"
  /\ result' = [err |-> Verdict, answer |-> Answer(kind, lines), cost |-> usage.cost]
  /\ UNCHANGED <<kind, ctx, process, pipe, lines, badScan, usage, events, drain>>

-----------------------------------------------------------------------------
(* The drain goroutine: publishProviderEvent for each event.               *)

Records(event, as) == recorded \union {[no |-> event.no, as |-> as, whole |-> event.whole]}

Publish ==
  /\ events # <<>> /\ asking = None
  /\ LET event == Head(events)
         line  == lines[event.no]
         as    == IF line = "denied" THEN "capability_gate_denied" ELSE EventOf(line) IN
     /\ judged' = IF line \in ToolCalls THEN judged \union {event.no} ELSE judged
     /\ IF line = "risky" THEN asking' = <<event>> /\ UNCHANGED recorded
        ELSE /\ UNCHANGED asking  \* a session id is kept in the row only
             /\ recorded' = IF as = "session" THEN recorded ELSE Records(event, as)
  /\ events' = Tail(events)
  /\ UNCHANGED <<kind, ctx, process, pipe, reader, lines, badScan, usage, result>>

(* A trigger asks a human (askHITL); a denial cancels the run and the      *)
(* event goes unrecorded, as when the context ends the question.           *)
Approve ==
  /\ asking # None /\ asking' = None /\ recorded' = Records(Head(asking), "tool_call")
  /\ UNCHANGED <<kind, ctx, process, pipe, reader, lines, badScan, usage, events, judged, result>>
Deny ==
  /\ asking # None /\ asking' = None
  /\ ctx' = IF ctx = "live" THEN "cancelled" ELSE ctx
  /\ UNCHANGED <<kind, process, pipe, reader, lines, badScan, usage, events, judged, recorded, result>>
\* broken: the question is put without the context of the run.
QuestionEnds_Never == FALSE /\ UNCHANGED vars
QuestionEnds ==
  /\ asking # None /\ ctx # "live" /\ asking' = None
  /\ UNCHANGED <<kind, ctx, process, pipe, reader, lines, badScan, usage, events, judged, recorded, result>>

(* callProvider goes on once the channel is closed and drained.            *)
Over == reader = "returned" /\ events = <<>> /\ asking = None

-----------------------------------------------------------------------------
Init ==
  /\ kind \in Kinds /\ ctx = "live" /\ child = "running" /\ stderr = {} /\ wrote = 0 /\ holder = FALSE
  /\ pipe = <<>> /\ stdin = IF kind \in {"claude", "yaml"} THEN "writing" ELSE "none"
  /\ reader = "scanning" /\ lines = <<>> /\ badScan = FALSE /\ usage = [cost |-> 0, final |-> FALSE]
  /\ events = <<>> /\ asking = None /\ judged = {} /\ recorded = {} /\ result = None

Reader == ScanLine \/ ScanBreaks \/ ScanEnds \/ WaitReturns \/ Return
Next ==
  \/ \E line \in Lines : Write(line)
  \/ Spawn \/ ToolExits
  \/ Exit("done", {}) \/ \E said \in SUBSET {"quota", "auth"} : Exit("failed", said)
  \/ \E how \in {"deadline", "cancelled"} : ContextEnds(how)
  \/ Kill \/ PromptWritten \/ Reader
  \/ Publish \/ Approve \/ Deny \/ QuestionEnds

(* The engine's goroutines run, a kill arrives, and a write to a child     *)
(* that is gone fails; neither the child nor what it started need ever     *)
(* stop or read, and no human need ever answer.                            *)
Fairness ==
  /\ WF_vars(Reader) /\ WF_vars(Publish) /\ WF_vars(QuestionEnds) /\ WF_vars(Kill)
  /\ WF_vars(PromptWritten /\ child # "running")
Spec == Init /\ [][Next]_vars /\ Fairness
-----------------------------------------------------------------------------
(* A turn tells what became of it. One of a built-in provider that returns *)
(* without an error has read all its child wrote and delivered the whole   *)
(* prompt (claude.go:214-220, gemini.go, agy.go). One ended by its context *)
(* says so, for callProvider would retry a transport error and a mission   *)
(* would go to the next provider. claude's cost counts each message once,  *)
(* unless a result without usage came, or a message after it.              *)
WholeOrTold ==
  result.err = "ok" /\ kind # "yaml" => Len(lines) = wrote /\ stdin # "failed"
CauseTold == child = "killed" => result.err \in {"timeout", "cancelled"}
CountedOnce ==
  kind = "claude" =>
    /\ result.cost <= Messages(lines)
    /\ (\A i \in DOMAIN lines : lines[i] \in {"result", "bare"} => lines[i] = "result" /\ i = Len(lines))
         => result.cost = Messages(lines)
TurnIsTold == result # None => WholeOrTold /\ CauseTold /\ CountedOnce

(* Once the context of a turn has ended the turn ends, also while the      *)
(* drain goroutine waits for a human or the child for a full pipe; unless  *)
(* a tool process lives on, for nothing closes what it holds.              *)
CancelReturns == ctx # "live" ~> (Over \/ holder)
(* A payload reaches the trajectory as the child wrote it: it is stored    *)
(* raw, "without losing fidelity" (provider.go:136-138), and agy.go:250    *)
(* copies a line so that the scanner's buffer "never aliases               *)
(* Event.Payload across goroutines".                                       *)
PayloadKept == \A event \in recorded : event.whole
=============================================================================
