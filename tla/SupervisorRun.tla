---------------------------- MODULE SupervisorRun ----------------------------
(***************************************************************************)
(* One run of the supervisor, internal/engine/supervisor.go: planning,     *)
(* the fan-out and race strategies, callProvider with its budget, retry    *)
(* and human-in-the-loop checks, the checks after dispatch, compaction,    *)
(* synthesis, and the status the session row ends with.                    *)
(*                                                                         *)
(* Callers are the goroutines that call a provider: one per subtask, and   *)
(* the main goroutine as planner and as synthesizer.  Each action is what  *)
(* one goroutine does between two points where another one can interfere.  *)
(***************************************************************************)
EXTENDS Budget, FiniteSets, RunVerdict

CONSTANTS Subtasks,        \* the subtasks a plan can have
          NoSubtask,       \* not a subtask
          Planner, Synth,  \* the main goroutine in its two provider calls
          Requests,        \* the RunRequests: strategy ("fanout" or "race"),
                           \* preSet (the plan comes with the request: no
                           \* planner), skipSynthesis, failFast, maxParallel
          MaxRetries,      \* transport retries of one call
          MaxCompactions,  \* bound: oversized outcomes compacted per run
          Usages,          \* bound: what one call can cost
          MaxUse,          \* the most tokens one call can cost
          ToolTriggers,    \* the profile has HITL tool triggers
          ApproverErrs,    \* an approval request can end with an error, or
                           \* at the call's timeout, while the run goes on
          TokenThreshold   \* HITL token threshold in percent, 0 disables it

Callers == Subtasks \cup {Planner, Synth}

ASSUME RunAssumption ==
    /\ IsFiniteSet(Subtasks)
    /\ NoSubtask \notin Subtasks
    /\ Planner \notin Subtasks
    /\ Synth \notin Subtasks
    /\ Planner # Synth
    /\ Requests \subseteq [strategy : {"fanout", "race"}, preSet : BOOLEAN,
                            skipSynthesis : BOOLEAN, failFast : BOOLEAN,
                            maxParallel : Nat \ {0}]
    /\ {ToolTriggers, ApproverErrs} \subseteq BOOLEAN
    /\ MaxRetries \in Nat
    /\ MaxCompactions \in Nat
    /\ MaxUse \in Nat
    /\ Usages \subseteq [tok : 0..MaxUse, usd : Nat]
    /\ TokenThreshold \in Nat

VARIABLES req,           \* the request
          phase,         \* where the main goroutine is
          sess,          \* the session row's status
          ctx,           \* the run context: "live", or why it ended
          plan,          \* the subtasks of the plan
          pc,            \* per caller: where it is
          attempt,       \* per caller: transport retries made by this call
          res,           \* per caller: how its call ended
          row,           \* per subtask: the status in its database row
          out,           \* per subtask: its entry in the outcomes slice
          stopSubs,      \* the strategy's derived context is cancelled
          anyFailed,     \* the strategy's flag
          winner,        \* the race's winner
          budgetFired,   \* the one-shot flag of the threshold prompt
          prompts,       \* threshold prompts shown so far
          compacted      \* compaction calls made so far

callVars == <<pc, attempt, res>>
taskVars == <<row, out, stopSubs, anyFailed, winner>>
hitlVars == <<budgetFired, prompts>>
mainVars == <<req, phase, sess, plan, compacted>>
vars == <<budgetVars, mainVars, ctx, callVars, taskVars, hitlVars>>

\* a goroutine between taking its slot and giving it back
InCall == {"enter", "inflight", "toolask", "threshold", "ask", "backoff", "finish"}
Stages == InCall \cup {"idle", "queued", "done"}
Settled == {"completed", "failed", "skipped"}
Outcomes == {"none", "ok", "empty", "failed", "skipped"}
CallResults == {"none", "ok", "empty", "transport", "err", "budget", "denied"}

TypeOK ==
    /\ BudgetTypeOK
    /\ req \in Requests
    /\ phase \in {"start", "plan", "dispatch", "compact", "synth", "done"}
    /\ sess \in SessionStatuses
    /\ ctx \in CtxStates
    /\ plan \subseteq Subtasks
    /\ pc \in [Callers -> Stages]
    /\ attempt \in [Callers -> 0..MaxRetries]
    /\ res \in [Callers -> CallResults]
    /\ row \in [Subtasks -> Settled \cup {"none", "pending", "running"}]
    /\ out \in [Subtasks -> Outcomes]
    /\ {stopSubs, anyFailed, budgetFired} \subseteq BOOLEAN
    /\ winner \in Subtasks \cup {NoSubtask}
    /\ prompts \in Nat
    /\ compacted \in 0..MaxCompactions

Init ==
    /\ BudgetInit
    /\ req \in Requests
    /\ phase = "start"
    /\ sess = "none"
    /\ ctx = "live"
    /\ plan = {}
    /\ pc = [c \in Callers |-> "idle"]
    /\ attempt = [c \in Callers |-> 0]
    /\ res = [c \in Callers |-> "none"]
    /\ row = [s \in Subtasks |-> "none"]
    /\ out = [s \in Subtasks |-> "none"]
    /\ stopSubs = FALSE
    /\ anyFailed = FALSE
    /\ winner = NoSubtask
    /\ budgetFired = FALSE
    /\ prompts = 0
    /\ compacted = 0

Go(c, stage) == pc' = [pc EXCEPT ![c] = stage]
Ends(c, r) == Go(c, "finish") /\ res' = [res EXCEPT ![c] = r]
Busy == {c \in Callers : pc[c] \in InCall}

\* broken: a finished subtask keeps its slot
Running_Leaky == {s \in Subtasks : pc[s] \in InCall \cup {"done"}}

Running == {s \in Subtasks : pc[s] \in InCall}
Interrupted(c) == ctx # "live" \/ (c \in Subtasks /\ stopSubs)

-----------------------------------------------------------------------------
(* callProvider.  The pre-flight check is made once per call, before the   *)
(* first attempt; the usage limits of the provider before every attempt.   *)
Attempt(c) ==
    \/ Go(c, "inflight") /\ UNCHANGED res
    \/ Ends(c, "err")                       \* refused by the usage limits

\* broken: no pre-flight check
PreCall_Unchecked(c) ==
    /\ pc[c] = "enter"
    /\ Attempt(c)
    /\ attempt' = [attempt EXCEPT ![c] = 0]
    /\ UNCHANGED <<budgetVars, mainVars, ctx, taskVars, hitlVars>>

PreCall(c) ==
    /\ pc[c] = "enter"
    /\ IF Refuses THEN Ends(c, "budget") ELSE Attempt(c)
    /\ attempt' = [attempt EXCEPT ![c] = 0]
    /\ UNCHANGED <<budgetVars, mainVars, ctx, taskVars, hitlVars>>

ThresholdTrip == (MaxTokens * TokenThreshold) \div 100

AfterAnswer(c, r) ==
    IF r = "transport" /\ attempt[c] < MaxRetries
    THEN Go(c, "backoff") /\ res' = [res EXCEPT ![c] = r]
    ELSE Ends(c, IF r \in {"ok", "empty"} THEN r ELSE "err")

(* The provider answers; a cancelled one may still answer ok.  Its usage   *)
(* is charged whatever the answer, and a cap it trips overrides the answer.*)
Respond(c) ==
    /\ pc[c] = "inflight"
    /\ \E u \in Usages, r \in {"ok", "empty", "transport", "err"} :
         /\ AddOutcome(u)
         /\ IF Exceeds(u) THEN Ends(c, "budget")
            ELSE IF ThresholdTrip > 0
                 THEN Go(c, "threshold") /\ res' = [res EXCEPT ![c] = r]
                 ELSE AfterAnswer(c, r)
    /\ UNCHANGED <<mainVars, ctx, attempt, taskVars, hitlVars>>

(* The token-threshold prompt: the first call past the threshold asks.     *)
Threshold(c) ==
    /\ pc[c] = "threshold"
    /\ IF ~budgetFired /\ tokens >= ThresholdTrip
       THEN /\ budgetFired' = TRUE
            /\ prompts' = prompts + 1
            /\ Go(c, "ask")
            /\ UNCHANGED res
       ELSE AfterAnswer(c, res[c]) /\ UNCHANGED hitlVars
    /\ UNCHANGED <<budgetVars, mainVars, ctx, attempt, taskVars>>

(* A tool call of the provider in flight matches a trigger: the drain      *)
(* goroutine asks, and callProvider cannot return before it is answered.   *)
ToolCall(c) ==
    /\ pc[c] = "inflight"
    /\ ToolTriggers
    /\ Go(c, "toolask")
    /\ UNCHANGED <<budgetVars, mainVars, ctx, attempt, res, taskVars,
                   hitlVars>>

(* askHITL: a denial, or a request that ends in an error, cancels the run  *)
(* unless something else ended it first.  The request runs under the       *)
(* call's own context, so the end of that context is such an error.        *)
CancelRun(cause) == ctx' = IF ctx = "live" THEN cause ELSE ctx
AskFails(c) == ApproverErrs \/ Interrupted(c)

ToolAnswer(c) ==
    /\ pc[c] = "toolask"
    /\ Go(c, "inflight")
    /\ \/ UNCHANGED ctx
       \/ CancelRun("denied")
       \/ AskFails(c) /\ CancelRun("approver")
    /\ UNCHANGED <<budgetVars, mainVars, attempt, res, taskVars, hitlVars>>

ThresholdAnswer(c) ==
    /\ pc[c] = "ask"
    /\ \/ AfterAnswer(c, res[c]) /\ UNCHANGED ctx
       \/ Ends(c, "denied") /\ CancelRun("denied")
       \/ AskFails(c) /\ Ends(c, "err") /\ CancelRun("approver")
    /\ UNCHANGED <<budgetVars, mainVars, attempt, taskVars, hitlVars>>

(* The backoff timer fires, or the call's context ends first: with the     *)
(* run's, with the strategy's, or at the call's own timeout.               *)
Backoff(c) ==
    /\ pc[c] = "backoff"
    /\ \/ Attempt(c) /\ attempt' = [attempt EXCEPT ![c] = @ + 1]
       \/ Ends(c, "err") /\ UNCHANGED attempt
    /\ UNCHANGED <<budgetVars, mainVars, ctx, taskVars, hitlVars>>

-----------------------------------------------------------------------------
(* The strategies.  The main goroutine creates the rows one by one while   *)
(* the goroutines of earlier subtasks already run.  A row that cannot be   *)
(* created is a failed outcome, and only a race counts it as a failure.    *)
NotCreated(s) ==
    /\ Go(s, "done")
    /\ out' = [out EXCEPT ![s] = "failed"]
    /\ anyFailed' = (anyFailed \/ req.strategy = "race")
    /\ UNCHANGED row

CreateSubtask(s) ==
    /\ phase = "dispatch"
    /\ s \in plan
    /\ pc[s] = "idle"
    /\ \/ Go(s, "queued") /\ row' = [row EXCEPT ![s] = "pending"]
          /\ UNCHANGED <<out, anyFailed>>
       \/ NotCreated(s)
    /\ UNCHANGED <<budgetVars, mainVars, ctx, attempt, res, stopSubs, winner,
                   hitlVars>>

Acquire(s) ==
    /\ pc[s] = "queued"
    /\ Cardinality(Running) < req.maxParallel
    /\ Go(s, "enter")
    /\ row' = [row EXCEPT ![s] = "running"]
    /\ UNCHANGED <<budgetVars, mainVars, ctx, attempt, res, out, stopSubs,
                   anyFailed, winner, hitlVars>>

(* The context ended before a slot came free: a fan-out reports a failed   *)
(* outcome and leaves the row alone, a race marks both as skipped.         *)
CancelledBeforeStart(s) ==
    /\ pc[s] = "queued"
    /\ Interrupted(s)
    /\ Go(s, "done")
    /\ IF req.strategy = "race"
       THEN /\ out' = [out EXCEPT ![s] = "skipped"]
            /\ row' = [row EXCEPT ![s] = "skipped"]
       ELSE out' = [out EXCEPT ![s] = "failed"] /\ UNCHANGED row
    /\ UNCHANGED <<budgetVars, mainVars, ctx, attempt, res, stopSubs,
                   anyFailed,
                   winner, hitlVars>>

Failure(s) == res[s] \notin {"ok", "empty"}

Wins(s) == req.strategy = "race" /\ res[s] = "ok" /\ winner = NoSubtask

(* runSubtask settles the row, then the strategy records the outcome under *)
(* its mutex: the first useful answer of a race wins and stops the rest,   *)
(* a failure under fail-fast stops the rest of a fan-out.                  *)
FinishSubtask(s) ==
    /\ pc[s] = "finish"
    /\ Go(s, "done")
    /\ row' = [row EXCEPT ![s] = IF Failure(s) THEN "failed" ELSE "completed"]
    /\ out' = [out EXCEPT ![s] = IF Failure(s) THEN "failed" ELSE res[s]]
    /\ anyFailed' = (anyFailed \/ Failure(s))
    /\ winner' = IF Wins(s) THEN s ELSE winner
    /\ stopSubs' = (stopSubs \/ Wins(s)
                    \/ (req.strategy = "fanout" /\ req.failFast /\ Failure(s)))
    /\ UNCHANGED <<budgetVars, mainVars, ctx, attempt, res, hitlVars>>

-----------------------------------------------------------------------------
(* The main goroutine.  A session that cannot be created is no session.    *)
Concludes(status) == phase' = "done" /\ sess' = status

Dispatch(P) ==
    /\ P # {}
    /\ P \subseteq Subtasks
    /\ plan' = P
    /\ phase' = "dispatch"
    /\ UNCHANGED sess

Start ==
    /\ phase = "start"
    /\ \/ Concludes("none") /\ UNCHANGED <<plan, pc>>
       \/ /\ sess' = "running"
          /\ IF req.preSet
             THEN /\ plan' \in SUBSET Subtasks \ {{}}
                  /\ phase' = "dispatch"
                  /\ UNCHANGED pc
             ELSE phase' = "plan" /\ Go(Planner, "enter") /\ UNCHANGED plan
    /\ UNCHANGED <<budgetVars, req, compacted, ctx, attempt, res, taskVars,
                   hitlVars>>

(* A planner that fails, or whose answer does not parse, leaves a plan of  *)
(* one subtask unless the budget or a denial is behind it.                 *)
PlanDone ==
    /\ phase = "plan"
    /\ pc[Planner] = "finish"
    /\ Go(Planner, "done")
    /\ \/ res[Planner] = "ok" /\ \E P \in SUBSET Subtasks : Dispatch(P)
       \/ IF res[Planner] = "budget"
          THEN Concludes("budget_exhausted") /\ UNCHANGED plan
          ELSE IF res[Planner] = "denied" \/ ctx = "denied"
          THEN Concludes("hitl_denied") /\ UNCHANGED plan
          ELSE \E s \in Subtasks : Dispatch({s})
    /\ UNCHANGED <<budgetVars, req, compacted, ctx, attempt, res, taskVars,
                   hitlVars>>

\* broken: a failure counts under fail-fast only
RunFailed_FailFastOnly == anyFailed /\ winner = NoSubtask /\ req.failFast

RunFailed == anyFailed /\ winner = NoSubtask

(* wg.Wait returned: the checks after dispatch.  A race with a winner      *)
(* returns the winner's outcome alone, and no failure.                     *)
StrategyDone ==
    /\ phase = "dispatch"
    /\ \A s \in plan : pc[s] = "done"
    /\ LET v == PostDispatch(FALSE, Refuses, ctx, req.failFast, RunFailed)
       IN IF v # "proceed" THEN Concludes(v)
          ELSE IF req.skipSynthesis THEN Concludes(FinalStatus(RunFailed))
          ELSE phase' = "compact" /\ UNCHANGED sess
    /\ UNCHANGED <<budgetVars, req, plan, compacted, ctx, callVars, taskVars,
                   hitlVars>>

(* compactOutcomes calls the synthesizer once per oversized outcome and    *)
(* keeps the original whatever goes wrong.                                 *)
Compact ==
    /\ phase = "compact"
    /\ \/ /\ pc[Synth] = "idle"
          /\ compacted < MaxCompactions
          /\ \E s \in plan : out[s] = "ok"
          /\ compacted' = compacted + 1
          /\ Go(Synth, "enter")
       \/ /\ pc[Synth] = "finish"
          /\ Go(Synth, "idle")
          /\ UNCHANGED compacted
    /\ UNCHANGED <<budgetVars, req, phase, sess, plan, ctx, attempt, res,
                   taskVars, hitlVars>>

StartSynthesis ==
    /\ phase = "compact"
    /\ pc[Synth] = "idle"
    /\ phase' = "synth"
    /\ Go(Synth, "enter")
    /\ UNCHANGED <<budgetVars, req, sess, plan, compacted, ctx, attempt, res,
                   taskVars, hitlVars>>

\* broken: a synthesis the budget stopped falls back like any other
SynthesisDone_Joined ==
    /\ phase = "synth"
    /\ pc[Synth] = "finish"
    /\ Go(Synth, "done")
    /\ Concludes(FinalStatus(RunFailed))
    /\ UNCHANGED <<budgetVars, req, plan, compacted, ctx, attempt, res,
                   taskVars, hitlVars>>

(* A synthesis that fails for any reason but the budget is replaced by the *)
(* joined outcomes.                                                        *)
SynthesisDone ==
    /\ phase = "synth"
    /\ pc[Synth] = "finish"
    /\ Go(Synth, "done")
    /\ Concludes(IF res[Synth] = "budget" THEN "budget_exhausted"
                 ELSE FinalStatus(RunFailed))
    /\ UNCHANGED <<budgetVars, req, plan, compacted, ctx, attempt, res,
                   taskVars, hitlVars>>

(* From outside: the user or the wall-clock timer, or the run's timeout.   *)
Interrupt ==
    /\ ctx = "live"
    /\ phase # "done"
    /\ ctx' \in {"cancelled", "deadline"}
    /\ UNCHANGED <<budgetVars, mainVars, callVars, taskVars, hitlVars>>

CallStep(c) ==
    \/ PreCall(c) \/ Respond(c) \/ Threshold(c) \/ ToolCall(c) \/ ToolAnswer(c)
    \/ ThresholdAnswer(c) \/ Backoff(c)
SubtaskStep(s) == Acquire(s) \/ CancelledBeforeStart(s) \/ FinishSubtask(s)
MainStep ==
    \/ Start \/ PlanDone \/ StrategyDone \/ Compact \/ StartSynthesis
    \/ SynthesisDone

Next ==
    \/ MainStep
    \/ Interrupt
    \/ \E c \in Callers : CallStep(c)
    \/ \E s \in Subtasks : CreateSubtask(s) \/ SubtaskStep(s)

(* Every goroutine keeps running: the main one with its provider calls,    *)
(* and each subtask's from the creation of its row on.  A provider answers *)
(* in the end, however often it asks for approval, and an approver does:   *)
(* both run under the call's timeout.                                      *)
MainRespond == Respond(Planner) \/ Respond(Synth)
MainGoroutine == MainStep \/ CallStep(Planner) \/ CallStep(Synth)
Goroutine(s) == CreateSubtask(s) \/ SubtaskStep(s) \/ CallStep(s)

Fairness ==
    /\ WF_vars(MainGoroutine) /\ SF_vars(MainRespond)
    /\ \A s \in Subtasks : WF_vars(Goroutine(s)) /\ SF_vars(Respond(s))

Spec == Init /\ [][Next]_vars
FairSpec == Spec /\ Fairness

-----------------------------------------------------------------------------
(* The token cap is overshot by at most one call per slot: calls that were *)
(* already admitted when the cap tripped are charged, nobody else's are,   *)
(* whatever is retried meanwhile.                                          *)
OvershootBounded ==
    MaxTokens > 0 => tokens <= MaxTokens - 1 + MaxUse * req.maxParallel

(* The human is asked about the token threshold once per run, however many *)
(* calls pass it together.                                                 *)
OnePrompt == prompts <= 1

(* A run whose budget has tripped is reported as budget_exhausted, never   *)
(* as a result that hides the breach, in whichever call it tripped.        *)
BudgetNotHidden ==
    (sess \in TerminalStatuses /\ Refuses) => sess = "budget_exhausted"

(* When Run has returned no goroutine of it is left in a provider call and *)
(* no subtask row says running.                                            *)
NoOrphans ==
    phase = "done" =>
        /\ Busy = {}
        /\ \A s \in Subtasks : row[s] # "running"

(* A human denial is how a run without synthesis is reported to have       *)
(* ended, unless the budget had run out as well: whoever was asked, and    *)
(* whatever the other subtasks and the outside did in the meantime.        *)
DirectDenialIsTerminal ==
    (req.skipSynthesis /\ sess \in TerminalStatuses /\ ctx = "denied") =>
        sess \in {"hitl_denied", "budget_exhausted"}

(* A run is reported completed only if no subtask that ran failed, except  *)
(* the losers of a won race.                                               *)
CompletedHidesNoFailure ==
    (sess = "completed" /\ winner = NoSubtask) =>
        \A s \in Subtasks : row[s] # "failed"

(* A won race is not reported as partial or failed for its losers' sake,   *)
(* and the winner's row says completed.                                    *)
WonRaceSucceeds ==
    winner # NoSubtask =>
        /\ row[winner] = "completed"
        /\ sess \notin {"partial", "failed"}

(* The status a run ends with tells the truth about its budget, a denial,  *)
(* its failed subtasks and its race (supervisor.go:600-740).               *)
StatusIsTrue ==
    /\ BudgetNotHidden
    /\ DirectDenialIsTerminal
    /\ CompletedHidesNoFailure
    /\ WonRaceSucceeds

(* The first useful answer stays the winner: an answer that arrives while  *)
(* the losers are being cancelled does not replace it.                     *)
WinnerIsFinal == [][winner # NoSubtask => winner' = winner]_vars

(* When a race is over every row it created is settled.                    *)
RaceRowsSettled ==
    (req.strategy = "race" /\ phase = "done") =>
        \A s \in Subtasks : row[s] \in Settled \cup {"none"}

(* Every session that was created reaches a terminal status.               *)
EverySessionEnds == sess = "running" ~> sess \in TerminalStatuses

-----------------------------------------------------------------------------
(* What the repository says of a run and the code does not keep.           *)

(* A denial ends the run: askHITL cancels it "so the supervisor's strategy *)
(* and synthesis layers short-circuit".  One during compaction or          *)
(* synthesis does not.                                                     *)
DenialIsTerminal ==
    (sess \in TerminalStatuses /\ ctx = "denied") =>
        sess \in {"hitl_denied", "budget_exhausted"}

(* Winning a race cancels the remaining workers, not the run.  A loser     *)
(* that waits for an approval cancels the run.                             *)
WonRaceIsReported ==
    (winner # NoSubtask /\ sess = "cancelled") => ctx = "cancelled"

(* A run is reported completed only if every subtask of its plan gave an   *)
(* answer.  A fan-out does not count the ones that never started.          *)
CompletedIsClean ==
    sess = "completed" => \A s \in plan : out[s] \in {"ok", "empty"}

(* Once a cap has tripped no new request is sent.  A retry is not checked. *)
NoRequestAfterTrip ==
    [][\A c \in Callers :
         (Refuses /\ pc[c] \in {"enter", "backoff"}) => pc'[c] # "inflight"]_vars
=============================================================================
