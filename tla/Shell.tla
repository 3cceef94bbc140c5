-------------------------------- MODULE Shell --------------------------------
(***************************************************************************)
(* `uta shell`: the state a line of input reads and changes - worker,  *)
(* direct mode, the attached session - and the turns it starts, each a Run *)
(* or a Resume of the engine that Ctrl-C cancels.                          *)
(***************************************************************************)
EXTENDS Naturals, Sequences, FiniteSets

CONSTANTS Workers,      \* registered providers
          Resumable,    \* those that can resume
          None,
          MaxTurns      \* BOUND: sessions the turns create

VARIABLES
  alive,      \* the process
  worker, direct, attached,   \* of utaShell; attached is an index of rows, or 0
  rows,       \* the sessions: <<[by, psid, status, fanout, planned], ...>>
  busy,       \* "prompt", "turn", "local" (!command, /image)
  turn,       \* the turn in flight: [by, fanout, was, resumes, from, cut]
  asked       \* history: the direct mode the user last asked for

vars == <<alive, worker, direct, attached, rows, busy, turn, asked>>
settings == <<worker, direct, asked>>

NoTurn == [by |-> None]

TypeOK ==
  /\ alive \in BOOLEAN /\ direct \in BOOLEAN /\ asked \in BOOLEAN
  /\ worker \in Workers
  /\ attached \in {0} \union DOMAIN rows
  /\ busy \in {"prompt", "turn", "local"}
  /\ (busy = "turn") = (turn # NoTurn)
  /\ Len(rows) <= MaxTurns

At(what) == alive /\ busy = what

-----------------------------------------------------------------------------
(* Commands that only set (handleShellCommand).                            *)

Leave ==     \* exit, /exit, Ctrl-D
  /\ At("prompt") /\ alive' = FALSE
  /\ UNCHANGED <<worker, direct, attached, rows, busy, turn, asked>>

NewConversation ==     \* /new, /clear, /compact
  /\ At("prompt") /\ attached' = 0
  /\ UNCHANGED <<alive, settings, rows, busy, turn>>

Attach(s) ==     \* /use
  /\ At("prompt") /\ attached' = s
  /\ UNCHANGED <<alive, settings, rows, busy, turn>>

SetWorker(w) ==     \* /worker, /nebius <tier>
  /\ At("prompt") /\ worker' = w
  /\ UNCHANGED <<alive, direct, asked, attached, rows, busy, turn>>

SetDirect(on) ==
  /\ At("prompt") /\ direct' = on /\ asked' = on
  /\ UNCHANGED <<alive, worker, attached, rows, busy, turn>>

(* !command and /image run under the shell's own context, with the         *)
(* terminal cooked and no handler: Ctrl-C ends the process.                *)
LocalBegins ==
  /\ At("prompt") /\ busy' = "local"
  /\ UNCHANGED <<alive, settings, attached, rows, turn>>
LocalEnds ==
  /\ At("local") /\ busy' = "prompt"
  /\ UNCHANGED <<alive, settings, attached, rows, turn>>

CtrlC ==
  /\ alive
  /\ \/ busy = "local" /\ alive' = FALSE /\ UNCHANGED turn
     \/ busy = "turn" /\ ~ turn.cut /\ turn' = [turn EXCEPT !.cut = TRUE] /\ UNCHANGED alive
  /\ UNCHANGED <<settings, attached, rows, busy>>

-----------------------------------------------------------------------------
(* A turn: plain text, @agent, or /fanout (execTurn).                      *)

TurnBegins(by, fanout) ==
  /\ At("prompt") /\ Len(rows) < MaxTurns
  /\ busy' = "turn" /\ direct' = (direct /\ ~ fanout)
  /\ turn' = [by |-> by, fanout |-> fanout, was |-> direct, resumes |-> attached,
              from |-> None, cut |-> FALSE]
  /\ UNCHANGED <<alive, worker, asked, attached, rows>>

(* The defer of ExecFanout.                                                *)
\* broken: put back after a turn that went well only.
Restored_OnSuccess(ok) == IF turn.fanout /\ ok THEN turn.was ELSE direct
Restored(ok) == IF turn.fanout THEN turn.was ELSE direct

Ends(ok) ==
  /\ busy' = "prompt" /\ turn' = NoTurn /\ direct' = Restored(ok)
  /\ UNCHANGED <<alive, worker, asked>>

(* What refuses a turn before it has a session: the permissions files, the *)
(* profile, a prior session without a provider session, a provider that    *)
(* cannot resume.                                                          *)
CanResume == rows[turn.resumes].psid # None /\ turn.by \in Resumable
Refused ==
  /\ At("turn") /\ turn.from = None
  /\ Ends(FALSE) /\ UNCHANGED <<attached, rows>>

(* Supervisor.Run creates the session; Resume does, with the last          *)
(* subtask's provider session, whoever the turn is for.                    *)
Given ==
  /\ At("turn") /\ turn.from = None /\ (turn.resumes # 0 => CanResume)
  /\ rows' = Append(rows, [by |-> turn.by, psid |-> None, status |-> "running", fanout |-> turn.fanout,
                           planned |-> turn.resumes = 0 /\ ~ direct])
  /\ turn' = [turn EXCEPT !.from = "engine"]
  /\ UNCHANGED <<alive, settings, attached, busy>>

(* The session of the turn is the one the next turn continues, however it  *)
(* ended, and a provider session is known once a provider has answered.    *)
Answered(status, psid) ==
  /\ At("turn") /\ turn.from = "engine"
  /\ rows' = [rows EXCEPT ![Len(rows)].status = status, ![Len(rows)].psid = psid]
  /\ attached' = Len(rows)
  /\ Ends(status = "completed")

Finishes ==
  \E psid \in {None, turn.by} :
    \/ \E status \in {"completed", "failed"} : Answered(status, psid)
    \/ At("turn") /\ turn.cut /\ Answered("cancelled", psid)

(* /mission: a turn with a session of its own, unless the program does not *)
(* compile; the attached conversation is left as it is (RunMissionFile).   *)
MissionBegins ==
  /\ At("prompt") /\ Len(rows) < MaxTurns
  /\ busy' = "turn"
  /\ turn' = [by |-> worker, fanout |-> FALSE, was |-> direct, resumes |-> 0,
              from |-> "mission", cut |-> FALSE]
  /\ UNCHANGED <<alive, settings, attached, rows>>

MissionEnds ==
  /\ At("turn") /\ turn.from = "mission"
  /\ \/ UNCHANGED rows
     \/ \E psid \in {None, turn.by},
           status \in {"completed", "suspended", "failed", IF turn.cut THEN "cancelled" ELSE "failed"} :
          rows' = Append(rows, [by |-> turn.by, psid |-> psid, status |-> status,
                                fanout |-> FALSE, planned |-> FALSE])
  /\ UNCHANGED attached /\ Ends(TRUE)

-----------------------------------------------------------------------------
Init ==
  /\ alive = TRUE /\ worker \in Workers /\ direct = FALSE /\ attached = 0
  /\ rows = <<>>
  /\ busy = "prompt" /\ turn = NoTurn /\ asked = FALSE

Next ==
  \/ Leave \/ NewConversation \/ LocalBegins \/ LocalEnds \/ CtrlC
  \/ \E s \in DOMAIN rows : Attach(s)
  \/ \E w \in Workers : SetWorker(w) \/ TurnBegins(w, FALSE)
  \/ \E on \in BOOLEAN : SetDirect(on)
  \/ TurnBegins(worker, TRUE)
  \/ Refused \/ Given \/ Finishes \/ MissionBegins \/ MissionEnds

Spec == Init /\ [][Next]_vars
-----------------------------------------------------------------------------
(* Outside a turn direct mode is what the user last asked for, whatever    *)
(* became of the /fanout in between (shell.go:834-839).                    *)
DirectIsAsked == busy # "turn" => direct = asked
=============================================================================
