------------------------------- MODULE Progress -------------------------------
(***************************************************************************)
(* The progress renderer of internal/cli/progress.go: it follows a run on  *)
(* the trajectory bus, which may lose any event, and writes to a terminal  *)
(* phases with dots, the prose of a lone subtask on gutter lines, tool     *)
(* calls, diffs and interjections.  The terminal is modelled by the line   *)
(* the cursor is on.                                                       *)
(***************************************************************************)
EXTENDS Integers, FiniteSets, Sequences, SequencesExt

CONSTANTS Subtasks,
          MaxSessions,   \* bound: sessions of one renderer (a handoff chain has several)
          Width,         \* columns of the terminal
          Texts          \* the prose a worker may emit: characters " ", "\n" and others

VARIABLES session,   \* how far the current session is
          count,     \* sessions so far
          sub,       \* per subtask: "idle", "running", "done"
          renderer   \* the Renderer, and the line it is writing

vars == <<session, count, sub, renderer>>

Row(kind, voices) == [kind |-> kind, voices |-> voices]
Blank == Row("blank", {})

(* spoiled and widest are history: something was written where it does not *)
(* belong; the last column that prose has reached.                         *)
NewRenderer ==
  [phase |-> "", running |-> {}, streaming |-> FALSE, streamCol |-> 0,
   line |-> Blank, spoiled |-> FALSE, widest |-> 0]

Init ==
  /\ session = "none" /\ count = 0
  /\ sub = [t \in Subtasks |-> "idle"]
  /\ renderer = NewRenderer

-----------------------------------------------------------------------------
(* What reaches the terminal.                                              *)
Newline(r) == [r EXCEPT !.line = Blank]

(* Anything but prose: a gutter line is no place for it.                   *)
Write(r, kind) ==
  [r EXCEPT !.line = Row(IF @.kind = "blank" THEN kind ELSE @.kind, @.voices),
            !.spoiled = @ \/ r.line.kind = "gutter"]

Line(r) == Newline(Write(r, "text"))
(* The session's id and the final line are written wherever the cursor is. *)
Announce(r) == Newline(r)
Label(r) == Write(r, "label")

Gutter(r) == [r EXCEPT !.line = Row("gutter", {}), !.streamCol = 0]

(* A character of prose of subtask t, within the limits of a gutter line.  *)
HardLimit == Width - 6
SoftLimit == IF Width - 30 < 20 THEN HardLimit - 1 ELSE Width - 30

Put(r, t) ==
  [r EXCEPT !.streamCol = @ + 1,
            !.line = Row(@.kind, @.voices \union {t}),
            !.spoiled = @ \/ r.line.kind # "gutter" \/ r.line.voices \ {t} # {},
            !.widest = IF r.streamCol + 5 > @ THEN r.streamCol + 5 ELSE @]

Char(r, c, t) ==
  IF c = "\n" \/ (c = " " /\ r.streamCol >= SoftLimit) THEN Gutter(r)
  ELSE IF r.streamCol >= HardLimit THEN Put(Gutter(r), t) ELSE Put(r, t)

(* streamTextLocked.                                                       *)
TrimLeft(text) ==
  IF \A i \in DOMAIN text : text[i] = "\n" THEN <<>>
  ELSE SubSeq(text, SelectInSeq(text, LAMBDA c : c # "\n"), Len(text))

Emitted(r, text, t) ==
  LET shown[i \in 0..Len(text)] == IF i = 0 THEN r ELSE Char(shown[i - 1], text[i], t)
  IN shown[Len(text)]

StreamText(r, text, t) ==
  IF r.streaming THEN Emitted(r, text, t)
  ELSE Emitted(Gutter([r EXCEPT !.streaming = TRUE]), TrimLeft(text), t)

-----------------------------------------------------------------------------
(* The phases.                                                             *)
EndStream(r) == IF r.streaming THEN Label(Newline([r EXCEPT !.streaming = FALSE])) ELSE r

StartPhase(r, label) ==
  Label([(IF r.phase = "" THEN r ELSE Newline(r)) EXCEPT !.phase = label])

EndPhase(r) == IF r.phase = "" THEN r ELSE [Line(EndStream(r)) EXCEPT !.phase = ""]

Dot(r) == IF r.phase = "" THEN r ELSE Write(EndStream(r), "dots")

Interject(r) ==
  IF r.phase = "" THEN Line(r)
  ELSE Label(Line(Newline([r EXCEPT !.streaming = FALSE])))

(* toolCallLocked and diffLocked leave the cursor on an empty line.        *)
ToolCall(r) == Line(Newline([r EXCEPT !.streaming = FALSE]))
Diff(r) == Line(IF r.streaming THEN Newline([r EXCEPT !.streaming = FALSE]) ELSE r)

\* broken: streams whatever text arrives while one subtask is known to run
Alone_AnyText(r, t) == r.phase # "" /\ Cardinality(r.running) = 1

(* Prose and tools are shown while one subtask is known to run.            *)
Alone(r, t) == r.phase # "" /\ r.running = {t}

Prose(r, t, text) ==
  IF Alone(r, t) /\ \E i \in DOMAIN text : text[i] \notin {" ", "\n"}
    THEN StreamText(r, text, t) ELSE Dot(r)

Result(r, t, how) ==
  CASE Alone(r, t) /\ how = "diff" -> Diff(r)
    [] Alone(r, t) /\ how = "error" -> Interject(r)
    [] OTHER -> Dot(r)

Started(r, t) == Dot([r EXCEPT !.running = @ \union {t}])
Over(r, t) == Dot([r EXCEPT !.running = @ \ {t}])

-----------------------------------------------------------------------------
(* An event is published, and delivered unless the subscriber's channel is *)
(* full.                                                                   *)
Publish(shown) == renderer' \in {shown, renderer}

Quiet == \A t \in Subtasks : sub[t] # "running"
Ongoing == session \notin {"none", "over", "closed"}

GoalReceived ==
  /\ session \in {"none", "over"} /\ count < MaxSessions
  /\ session' = "planning" /\ count' = count + 1
  /\ Publish(StartPhase(Announce(renderer), "Planning"))
  /\ UNCHANGED sub

PlanFallback ==
  /\ session = "planning"
  /\ session' = "fallback"
  /\ Publish(StartPhase(EndPhase(renderer), "Running"))
  /\ UNCHANGED <<count, sub>>

(* Also with a payload that cannot be read.                                *)
PlanProposed ==
  /\ session \in {"planning", "fallback"}
  /\ session' = "running"
  /\ Publish(StartPhase(EndPhase(renderer), "Running"))
  /\ UNCHANGED <<count, sub>>

(* What a subtask publishes, from its start to its end; one that is        *)
(* skipped never starts.                                                   *)
Subtask(t) ==
  /\ session = "running"
  /\ \/ sub[t] = "idle" /\ sub' = [sub EXCEPT ![t] = "running"] /\ Publish(Started(renderer, t))
     \/ sub[t] = "idle" /\ sub' = [sub EXCEPT ![t] = "done"] /\ Publish(Over(renderer, t))
     \/ sub[t] = "running" /\ sub' = [sub EXCEPT ![t] = "done"] /\ Publish(Over(renderer, t))
     \/ /\ sub[t] = "running" /\ UNCHANGED sub
        /\ \/ \E text \in Texts : Publish(Prose(renderer, t, text))
           \/ Publish(IF Alone(renderer, t) THEN ToolCall(renderer) ELSE Dot(renderer))
           \/ \E how \in {"diff", "error", "output"} : Publish(Result(renderer, t, how))
  /\ UNCHANGED <<session, count>>

(* Warnings, denials and the provider calls that belong to no subtask, the *)
(* planner's and the moderator's, whose prose is a dot.                    *)
Aside ==
  /\ Ongoing
  /\ Publish(Interject(renderer)) \/ Publish(Dot(renderer))
  /\ UNCHANGED <<session, count, sub>>

SynthesisStarted ==
  /\ session = "running" /\ Quiet
  /\ session' = "synthesis"
  /\ Publish(StartPhase(EndPhase(renderer), "Synthesizing"))
  /\ UNCHANGED <<count, sub>>

(* Without a synthesis the outcomes are joined and completed at once.      *)
SynthesisCompleted ==
  /\ session \in {"running", "synthesis"} /\ Quiet
  /\ session' = "joined"
  /\ Publish(EndPhase(renderer))
  /\ UNCHANGED <<count, sub>>

(* RunCompleted leaves the phase as it is; a run that failed or was        *)
(* cancelled ends it.                                                      *)
RunEnds ==
  /\ session' = "over"
  /\ \/ session = "joined" /\ Publish(Announce(renderer))
     \/ /\ Ongoing /\ Quiet
        /\ Publish(Announce(EndPhase(renderer)))
  /\ UNCHANGED <<count, sub>>

(* finish, once the bus is shut down.                                      *)
Finish ==
  /\ session = "over" /\ session' = "closed"
  /\ renderer' = IF renderer.phase = "" THEN renderer
                 ELSE [Newline(renderer) EXCEPT !.phase = ""]
  /\ UNCHANGED <<count, sub>>

Next ==
  \/ GoalReceived \/ PlanFallback \/ PlanProposed \/ SynthesisStarted \/ SynthesisCompleted
  \/ RunEnds \/ Finish \/ Aside
  \/ \E t \in Subtasks : Subtask(t)

Spec == Init /\ [][Next]_vars

-----------------------------------------------------------------------------
(* Whatever events are lost, the prose on a gutter line is that of one     *)
(* subtask, no dot, label or tool is written on it, no prose is written    *)
(* elsewhere, and it stays clear of the last column ("with parallel        *)
(* subtasks the streams would interleave, so they stay dots", and "never   *)
(* let the line reach the terminal edge").                                 *)
OneVoice == ~renderer.spoiled /\ renderer.widest < Width
=============================================================================
