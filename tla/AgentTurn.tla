------------------------------ MODULE AgentTurn ------------------------------
(***************************************************************************)
(* The conversation of the built-in Nebius provider: runTurn of            *)
(* provider/builtin/nebius.go and compactHistory of nebius_history.go.  A  *)
(* turn copies the session's messages, may have the older ones summarised, *)
(* and then alternates requests and tool calls until the model answers     *)
(* without a call or the rounds are used up; only a turn that ends well    *)
(* saves its messages.  The model's server and the tools are external.     *)
(***************************************************************************)
EXTENDS Integers, Sequences

CONSTANTS MaxRounds,    \* rounds with tools before the closing one
          MaxRetries,   \* attempts after the first on a transport error, 429 or 5xx
          KeepRecent,   \* messages that compaction leaves as they are
          MaxCalls,     \* bound: the tool calls of one response
          MaxTurns      \* bound: the turns of the session

VARIABLES saved,     \* n.sessions: the messages of the turns that ended well
          hist,      \* the running turn's messages
          pc,        \* where the turn is
          round,     \* rounds begun
          attempt,   \* attempts of the current request
          thinking,  \* reasoning is on
          redone,    \* the turn was redone once without reasoning
          due,       \* tool calls of the last response that are still to run
          over,      \* the turn's context has ended (its timeout, or a cancellation)
          told,      \* tokens of the turn's complete responses (history)
          screened,  \* of these, the ones of the sentinel's verdicts (history)
          counted,   \* totalTokensIn + totalTokensOut
          result,    \* what the turn returned: [ok, tokens]
          turns      \* turns begun

request == <<round, attempt, thinking, redone, due>>
usage == <<told, screened, counted>>
vars == <<saved, hist, pc, request, over, usage, result, turns>>

NoResult == [ok |-> FALSE, tokens |-> -1]
Estimate == -2   \* a number of tokens that nobody was told of
Message(role) == [role |-> role, calls |-> 0, stray |-> 0, of |-> 0]
Assistant(n) == [Message("assistant") EXCEPT !.calls = n]
Closer(n) == [Message("assistant") EXCEPT !.stray = n]   \* its calls are not run
ToolResult(i) == [Message("tool") EXCEPT !.of = i]   \* answers the i-th call

TypeOK ==
    /\ pc \in {"idle", "compact", "round", "request", "retry", "tools", "save"}
    /\ round \in 0..MaxRounds
    /\ attempt \in 0..MaxRetries
    /\ due \in 0..MaxCalls
    /\ turns \in 0..MaxTurns

Init ==
    /\ saved = <<>> /\ hist = <<>>
    /\ pc = "idle"
    /\ round = 0 /\ attempt = 0 /\ thinking = TRUE /\ redone = FALSE /\ due = 0
    /\ over = FALSE
    /\ told = 0 /\ screened = 0 /\ counted = 0
    /\ result = NoResult
    /\ turns = 0

Closing == round = MaxRounds

-----------------------------------------------------------------------------
(* The messages.                                                           *)

(* The cut moves to the left past the results of a call.                   *)
\* broken: cuts wherever the recent messages begin
CutAt_Anywhere(h, start) == Len(h) - KeepRecent

CutAt(h, start) ==
    LET last == Len(h) - KeepRecent
    IN  CHOOSE c \in start..last :
            /\ c = start \/ h[c + 1].role # "tool"
            /\ \A d \in (c + 1)..last : h[d + 1].role = "tool"

(* compactHistory: the messages after the system prompt and before the cut *)
(* become a summary and an acknowledgement.                                *)
Start(h) == IF h # <<>> /\ h[1].role = "system" THEN 1 ELSE 0
Compactable(h) == Len(h) > KeepRecent + 2 /\ CutAt(h, Start(h)) > Start(h)
Compacted(h) ==
    SubSeq(h, 1, Start(h)) \o <<Message("user"), Assistant(0)>>
        \o SubSeq(h, CutAt(h, Start(h)) + 1, Len(h))

-----------------------------------------------------------------------------
(* One turn.                                                               *)
Return(ok, tokens) ==
    /\ pc' = "idle"
    /\ result' = [ok |-> ok, tokens |-> tokens]
    /\ hist' = <<>>
    /\ round' = 0 /\ attempt' = 0 /\ thinking' = TRUE /\ redone' = FALSE /\ due' = 0
    /\ over' = FALSE

(* A system prompt starts a session that has no messages.                  *)
BeginTurn ==
    /\ pc = "idle"
    /\ turns < MaxTurns
    /\ turns' = turns + 1
    /\ hist' \in IF saved = <<>> THEN {<<>>, <<Message("system")>>} ELSE {saved}
    /\ pc' = "compact"
    /\ thinking' \in BOOLEAN
    /\ UNCHANGED <<round, attempt, redone, due, over>>
    /\ told' = 0 /\ screened' = 0 /\ counted' = 0
    /\ result' = NoResult
    /\ UNCHANGED saved

(* A history over the token threshold is compacted by a call of its own,   *)
(* which is counted; without a summary the full history is kept.           *)
Compact ==
    /\ pc = "compact"
    /\ pc' = "round"
    /\ \/ hist' = Append(hist, Message("user")) /\ UNCHANGED <<told, counted>>
       \/ /\ Compactable(hist)
          /\ told' = told + 1 /\ counted' = counted + 1
          /\ \/ ~over /\ hist' = Append(Compacted(hist), Message("user"))
             \/ hist' = Append(hist, Message("user"))
    /\ UNCHANGED <<saved, request, over, screened, result, turns>>

(* The last round offers no tools and asks for a closing report.           *)
BeginRound ==
    /\ pc = "round"
    /\ pc' = "request"
    /\ attempt' = 0
    /\ hist' = IF Closing THEN Append(hist, Message("user")) ELSE hist
    /\ UNCHANGED <<saved, round, thinking, redone, due, over, usage, result, turns>>

(* No answer, 429 or 5xx: another attempt after a delay while any is left; *)
(* every other error ends the turn, and reports no tokens.                 *)
RequestFails ==
    /\ pc = "request"
    /\ \/ Return(FALSE, 0)
       \/ /\ ~over /\ attempt < MaxRetries
          /\ pc' = "retry"
          /\ UNCHANGED <<hist, request, over, result>>
    /\ UNCHANGED <<saved, usage, turns>>

(* nebiusSleep.                                                            *)
Retry ==
    /\ pc = "retry"
    /\ IF over THEN Return(FALSE, 0)
       ELSE /\ pc' = "request"
            /\ attempt' = attempt + 1
            /\ UNCHANGED <<hist, round, thinking, redone, due, over, result>>
    /\ UNCHANGED <<saved, usage, turns>>

Redo == redone' = TRUE /\ thinking' = FALSE /\ pc' = "round"

(* What a response does to the turn: n tool calls, and text or none.  An   *)
(* empty one is asked for again, once, with reasoning off.  The calls of a *)
(* closing report, for which no tools were offered, are kept and not run.  *)
Responded(n, text) ==
    IF n = 0 /\ ~text /\ thinking /\ ~redone
    THEN Redo /\ UNCHANGED <<hist, round, due>>
    ELSE /\ hist' = Append(hist, IF Closing THEN Closer(n) ELSE Assistant(n))
         /\ due' = IF Closing THEN 0 ELSE n
         /\ pc' = IF n = 0 \/ Closing THEN "save" ELSE "tools"
         /\ UNCHANGED <<round, thinking, redone>>

Response ==
    /\ pc = "request"
    /\ ~over
    /\ \E n \in 0..MaxCalls, text \in BOOLEAN : Responded(n, text)
    /\ told' = told + 1 /\ counted' = counted + 1
    /\ UNCHANGED <<saved, attempt, over, screened, result, turns>>

(* parseNebiusSSEStream does not look at the scanner's error: a stream     *)
(* that breaks, or ends with the context, is taken for the whole response. *)
(* The usage comes with its last chunk.                                    *)
StreamBreaks ==
    /\ pc = "request"
    /\ \E n \in 0..MaxCalls, text \in BOOLEAN : Responded(n, text)
    /\ UNCHANGED <<saved, attempt, over, usage, result, turns>>

ContextEnds ==
    /\ pc # "idle"
    /\ ~over
    /\ over' = TRUE
    /\ UNCHANGED <<saved, hist, pc, request, usage, result, turns>>

(* sentinelCheck: a write, an edit or a command that the gate allows is    *)
(* first put to a guard model.  Its tokens come with the verdict, and are  *)
(* added to nothing; a check that fails lets the tool run.                 *)
SentinelCheck ==
    \/ UNCHANGED <<told, screened>>
    \/ ~over /\ told' = told + 1 /\ screened' = screened + 1

(* The next call of the response is denied, blocked or run: each has its   *)
(* result message.  A gate that fails ends the turn.                       *)
RunTool ==
    /\ pc = "tools"
    /\ hist' = Append(hist, ToolResult(hist[Len(hist)].of + 1))
    /\ due' = due - 1
    /\ IF due = 1 THEN pc' = "round" /\ round' = round + 1 ELSE UNCHANGED <<pc, round>>
    /\ SentinelCheck
    /\ UNCHANGED <<saved, attempt, thinking, redone, over, counted, result, turns>>

GateFails ==
    /\ pc = "tools"
    /\ Return(FALSE, 0)
    /\ UNCHANGED <<saved, usage, turns>>

(* A total of zero, where no response came with its usage, is reported as  *)
(* an estimate from the texts.                                             *)
Reported(total) == IF total = 0 THEN Estimate ELSE total

Save ==
    /\ pc = "save"
    /\ saved' = hist
    /\ Return(TRUE, Reported(counted))
    /\ UNCHANGED <<usage, turns>>

(* The sessions are kept in memory.                                        *)
Restart ==
    /\ pc = "idle"
    /\ saved # <<>>
    /\ saved' = <<>>
    /\ UNCHANGED <<hist, pc, request, over, usage, result, turns>>

TurnStep ==
    \/ Compact \/ BeginRound \/ RequestFails \/ Retry \/ Response \/ StreamBreaks
    \/ RunTool \/ GateFails \/ Save

Next == BeginTurn \/ TurnStep \/ ContextEnds \/ Restart

Spec == Init /\ [][Next]_vars
(* The server answers or the connection fails, and tools return.           *)
FairSpec == Spec /\ WF_vars(TurnStep)

-----------------------------------------------------------------------------
(* Every request sends a conversation the server accepts: the calls of an  *)
(* assistant message are followed by their results, all of them and in     *)
(* order, and a result follows its call.  That outlives failed tools,      *)
(* redone rounds, turns that failed half-way and compaction ("Never split  *)
(* a tool call from its results").  The calls of a closing report, which   *)
(* nobody runs and the session keeps, are excepted.                        *)
Paired(h) ==
    \A i \in DOMAIN h :
        /\ \A k \in 1..h[i].calls : i + k \in DOMAIN h /\ h[i + k] = ToolResult(k)
        /\ h[i].role = "tool" =>
            i > h[i].of /\ h[i - h[i].of].calls >= h[i].of

HistoryPaired == (pc = "request" => Paired(hist)) /\ Paired(saved)

(* A turn that ends well reports every token it was told of, the ones of   *)
(* the compaction and of a response it threw away included, but for those  *)
(* of the sentinel; if it was told of none, it reports an estimate.        *)
SuccessReportsAll == result.ok => result.tokens = Reported(told - screened)

(* Not so: every call the session keeps has its result.                    *)
NoStrayCalls == \A i \in DOMAIN saved : saved[i].stray = 0

(* A turn keeps calls and results paired, and accounts for its own tokens. *)
TurnIsSound == HistoryPaired /\ SuccessReportsAll

(* A turn ends, however the server answers: attempts, redone rounds and    *)
(* tool calls are all limited.                                             *)
TurnEnds == pc # "idle" ~> pc = "idle"
=============================================================================
