------------------------------- MODULE Watch -------------------------------
(***************************************************************************)
(* The trajectory of a session while it runs: the goroutines of the engine *)
(* emit events (allocate a number, persist, publish on the bus), and the   *)
(* sentinel reads them from its subscription, keeps its windows, emits its *)
(* own alerts on the same bus and cancels the run when its wall clock is   *)
(* used up.                                                                *)
(***************************************************************************)
EXTENDS Naturals, Sequences, FiniteSets, SequencesExt

CONSTANTS Emitters,      \* goroutines of the engine
          Sentinel,      \* the watcher's goroutine
          MaxEvents,     \* BOUND: events the engine emits
          Buffer,        \* what a subscription holds (256)
          ErrorWindow, ErrorMax,   \* 20, 5
          DenyWindow, DenyAt,      \* 10, 3
          RepeatAt                 \* 8

VARIABLES
  at,         \* emitter -> the kind of the event it has in hand, or "none"
  emitted,    \* how many the engine has begun
  channel,    \* the sentinel's subscription
  shut,       \* the bus is shut down
  got,        \* history: what the sentinel has processed and raised on it
  recent,     \* its windows: [tools, errors, all]
  due,        \* alerts it has still to emit
  clock,      \* of the wall-clock budget: "early", "late" (80%), "over"
  told,       \* alerted80 and alertedMax, as a subset of {"late", "over"}
  cancelled   \* the context of the run

vars == <<at, emitted, channel, shut, got, recent, due, clock, told, cancelled>>

Kinds == {"call", "failed", "denied", "other"}
Rules == {"repeated_tool_loop", "error_rate_spike", "capability_gate_probing",
          "budget_warning", "budget_exhausted"}
All == Emitters \union {Sentinel}

TypeOK ==
  /\ at \in [All -> Kinds \union Rules \union {"none"}] /\ emitted \in 0..MaxEvents
  /\ Len(channel) <= Buffer /\ ToSet(channel) \subseteq Kinds \union Rules
  /\ due \in Seq(Rules) /\ clock \in {"early", "late", "over"} /\ told \subseteq {"late", "over"}
  /\ shut \in BOOLEAN /\ cancelled \in BOOLEAN

Trailing(s, n) == IF Len(s) > n THEN SubSeq(s, Len(s) - n + 1, Len(s)) ELSE s
Count(s, kind) == Len(SelectSeq(s, LAMBDA k : k = kind))

-----------------------------------------------------------------------------
(* Supervisor.emit: the recorder keeps the event (an insert that fails is  *)
(* only counted), then the bus hands a copy to each subscriber.            *)
Emit(e, kind) ==
  /\ e \in Emitters /\ at[e] = "none" /\ emitted < MaxEvents /\ ~ shut
  /\ emitted' = emitted + 1 /\ at' = [at EXCEPT ![e] = kind]
  /\ UNCHANGED <<channel, shut, got, recent, due, clock, told, cancelled>>

(* Bus.Publish drops the copy of a subscriber whose buffer is full.        *)
\* broken: a full buffer blocks the publisher.
Publish_Blocks(e) ==
  /\ at[e] # "none" /\ (shut \/ Len(channel) < Buffer)
  /\ at' = [at EXCEPT ![e] = "none"]
  /\ channel' = IF shut THEN channel ELSE Append(channel, at[e])
  /\ UNCHANGED <<emitted, shut, got, recent, due, clock, told, cancelled>>
Publish(e) ==
  /\ at[e] # "none"
  /\ at' = [at EXCEPT ![e] = "none"]
  /\ channel' = IF shut \/ Len(channel) = Buffer THEN channel ELSE Append(channel, at[e])
  /\ UNCHANGED <<emitted, shut, got, recent, due, clock, told, cancelled>>

(* The run is over: its goroutines are done, the bus is shut down.         *)
Shutdown ==
  /\ ~ shut /\ \A e \in Emitters : at[e] = "none"
  /\ shut' = TRUE
  /\ UNCHANGED <<at, emitted, channel, got, recent, due, clock, told, cancelled>>

-----------------------------------------------------------------------------
(* Sentinel.Watch: one event, one tick or the end of the context.          *)

Watching == at[Sentinel] = "none" /\ due = <<>> /\ ~ cancelled /\ ~ (shut /\ channel = <<>>)

(* The windows: tool calls in a row, failed events, and every event but    *)
(* the sentinel's own.                                                     *)
Windows(kind) ==
  [tools  |-> IF kind = "call" THEN Trailing(Append(recent.tools, kind), 2 * RepeatAt) ELSE recent.tools,
   errors |-> IF kind = "failed" THEN Trailing(Append(recent.errors, kind), ErrorWindow) ELSE recent.errors,
   all    |-> IF kind \in Rules THEN recent.all ELSE Trailing(Append(recent.all, kind), DenyWindow)]

AlertsOn(kind) ==
  LET seen == Windows(kind)
      When(test, rule) == IF test THEN <<rule>> ELSE <<>> IN
  When(kind = "call" /\ Len(seen.tools) >= RepeatAt, "repeated_tool_loop")
    \o When(kind = "failed" /\ Len(seen.errors) >= ErrorMax, "error_rate_spike")
    \o When(kind = "denied" /\ Count(seen.all, "denied") >= DenyAt, "capability_gate_probing")

Process ==
  /\ Watching /\ channel # <<>>
  /\ LET kind == Head(channel) IN
     /\ recent' = Windows(kind) /\ due' = AlertsOn(kind) /\ got' = Append(got, [kind |-> kind, raised |-> ToSet(AlertsOn(kind))])
  /\ channel' = Tail(channel)
  /\ UNCHANGED <<at, emitted, shut, clock, told, cancelled>>

(* fire: an alert before the first event knows no session and is not       *)
(* emitted.                                                                *)
Fire ==
  /\ at[Sentinel] = "none" /\ due # <<>> /\ due' = Tail(due)
  /\ at' = IF got = <<>> THEN at ELSE [at EXCEPT ![Sentinel] = Head(due)]
  /\ cancelled' = (cancelled \/ Head(due) = "budget_exhausted")
  /\ UNCHANGED <<emitted, channel, shut, got, recent, clock, told>>

(* tickBudget; the run is cancelled after the alert.                       *)
Tick ==
  /\ Watching /\ clock # "early"
  /\ LET what == IF clock = "over" /\ "over" \notin told THEN "over" ELSE "late" IN
     /\ what \notin told /\ told' = told \union {what}
     /\ due' = <<IF what = "over" THEN "budget_exhausted" ELSE "budget_warning">>
  /\ UNCHANGED <<at, emitted, channel, shut, got, recent, clock, cancelled>>

TimePasses ==
  /\ ~ shut /\ clock # "over" /\ clock' = IF clock = "early" THEN "late" ELSE "over"
  /\ UNCHANGED <<at, emitted, channel, shut, got, recent, due, told, cancelled>>

-----------------------------------------------------------------------------
Init ==
  /\ at = [e \in All |-> "none"] /\ emitted = 0
  /\ channel = <<>> /\ shut = FALSE /\ got = <<>>
  /\ recent = [tools |-> <<>>, errors |-> <<>>, all |-> <<>>] /\ due = <<>>
  /\ clock = "early" /\ told = {} /\ cancelled = FALSE

Next ==
  \/ \E e \in Emitters, kind \in Kinds : Emit(e, kind)
  \/ \E e \in All : Publish(e)
  \/ Shutdown \/ Process \/ Fire \/ Tick \/ TimePasses

(* Goroutines run; select chooses at random among what is ready, so a tick *)
(* that is ready again and again is taken.                                 *)
Fairness ==
  /\ \A e \in All : WF_vars(Publish(e))
  /\ WF_vars(Process) /\ WF_vars(Fire) /\ SF_vars(Tick)
Spec == Init /\ [][Next]_vars /\ Fairness
-----------------------------------------------------------------------------
(* A run whose wall clock is used up is cancelled or ends, however many    *)
(* events come and however full the sentinel's own buffer is: it publishes *)
(* on the bus it reads from.                                               *)
DeadlineCancels == clock = "over" ~> (cancelled \/ shut)
=============================================================================
