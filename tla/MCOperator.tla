------------------------------ MODULE MCOperator ------------------------------
(***************************************************************************)
(* What an operator sits at, and what stands between an agent and what it  *)
(* wants to do: the permissions gate of native tool calls and the HITL     *)
(* gate, which a human answers, the capability gate that decides by        *)
(* itself, and `uta shell` with its line editor.  A behaviour exercises    *)
(* one of them, `side`; the others stay where they start.                  *)
(***************************************************************************)
EXTENDS ToolGate

CONSTANTS run, a, b, x, y

OneRun == [w \in Workers |-> run]
\* two names, two files
Plain == [n \in Names |-> n]
MCCalls == {[tool |-> t, name |-> x] : t \in {"write_file", "edit_file", "run_command"}}
NoRules == [list \in Lists |-> {}]
AllowWrites == [NoRules EXCEPT !["allow"] = {<<"write_file", Every>>}]
TwoAndOne == [w \in Workers |-> IF w = a THEN 2 ELSE 1]

CONSTANTS Requests, None, Empty, Torn, WriteFailures
VARIABLES gate_pc, decision, pending, pointer, open, approved, denied, seen, side

Hitl == INSTANCE HitlGate WITH pc <- gate_pc
hitlVars == <<gate_pc, decision, pending, pointer, open, approved, denied, seen>>

CONSTANTS Tools, Letters, MaxGlob, MaxArg
ASSUME CapabilityBounds == MaxGlob \in Nat /\ MaxArg \in Nat
VARIABLES grant, cap

Capability == INSTANCE CapabilityGate
capVars == <<grant, cap>>

CONSTANTS Agents, Resumable, MaxTurns
VARIABLES alive, worker, direct, attached, sessions, busy, turn, asked

Sh == INSTANCE Shell WITH Workers <- Agents, rows <- sessions
shellVars == <<alive, worker, direct, attached, sessions, busy, turn, asked>>

CONSTANTS Runes, Wide, Prompt, Width, MaxLen, MaxHistory
VARIABLES buf, cur, hist, browsing, typed, curRow, term, reading

(* An editor needs a column, a prompt to start behind, and a history.      *)
ASSUME LineBounds == Width \in Nat \ {0} /\ MaxHistory \in Nat \ {0}
ASSUME PromptBounds == Prompt # <<>> /\ Prompt \in Seq({Prompt[i] : i \in DOMAIN Prompt})

MCPrompt == <<">">>
Line == INSTANCE LineEdit WITH Letters <- Runes, pending <- typed
lineVars == <<buf, cur, hist, browsing, typed, curRow, term, reading>>

MCInit ==
  /\ Init /\ Hitl!Init /\ Capability!Init /\ Sh!Init /\ Line!Init
  /\ side \in {"tool", "hitl", "capability", "shell", "line"}
  /\ side # "tool" => file = [f \in Files |-> Absent]  \* any one, as below
  /\ side # "capability" => capVars = CHOOSE two \in Capability!Patterns \X Capability!Patterns : TRUE
  /\ side # "shell" => worker = CHOOSE w \in Agents : TRUE
MCNext ==
  /\ side' = side
  /\ \/ side = "tool" /\ Next /\ UNCHANGED <<hitlVars, capVars, shellVars, lineVars>>
     \/ side = "hitl" /\ Hitl!Next /\ UNCHANGED <<vars, capVars, shellVars, lineVars>>
     \/ side = "capability" /\ Capability!Next /\ UNCHANGED <<vars, hitlVars, shellVars, lineVars>>
     \/ side = "shell" /\ Sh!Next /\ UNCHANGED <<vars, hitlVars, capVars, lineVars>>
     \/ side = "line" /\ Line!Next /\ UNCHANGED <<vars, hitlVars, capVars, shellVars>>

\* requests of the HITL gate go on; nothing is assumed of the other gate
MCSpec ==
  /\ MCInit /\ [][MCNext]_<<vars, hitlVars, capVars, shellVars, lineVars, side>>
  /\ \A q \in Requests : WF_hitlVars(side = "hitl" /\ Hitl!Step(q))

DirectIsAsked == Sh!DirectIsAsked
ScreenShowsLine == Line!ScreenShowsLine
RaiseIsBacked == Capability!RaiseIsBacked
AnsweredReturns == Hitl!AnsweredReturns
=============================================================================
