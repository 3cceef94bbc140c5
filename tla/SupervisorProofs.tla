--------------------------- MODULE SupervisorProofs ---------------------------
(***************************************************************************)
(* What SupervisorRun keeps for every plan, budget, number of slots and    *)
(* number of retries.                                                      *)
(***************************************************************************)
EXTENDS SupervisorRun, FiniteSetTheorems, TLAPS

(* A caller waiting to retry has a retry left.                             *)
RetryLeft == \A c \in Callers : pc[c] = "backoff" => attempt[c] < MaxRetries

TypeInv == TypeOK /\ RetryLeft

(* A charge keeps the types of the budget.                                 *)
LEMMA ChargeTyped ==
    ASSUME BudgetTypeOK, NEW u \in Usages, AddOutcome(u)
    PROVE  BudgetTypeOK'
<1>1. u.tok \in Nat /\ u.usd \in Nat
  BY RunAssumption
<1>2. tokens' \in Nat /\ usdCents' \in Nat
  BY <1>1 DEF AddOutcome, BudgetTypeOK
<1>3. FirstExceeded(u) \in CapKinds
  BY DEF FirstExceeded, CapKinds
<1>4. tripped' \in CapKinds \cup {NoTrip}
  BY <1>3 DEF AddOutcome, BudgetTypeOK
<1>5. warned80T' \in BOOLEAN /\ warned80U' \in BOOLEAN
  BY Zenon DEF AddOutcome, BudgetTypeOK, WarnsTokens, WarnsUSD, InWarnBand
<1>. QED
  BY <1>2, <1>4, <1>5 DEF BudgetTypeOK

USE RunAssumption

LEMMA BudgetUnchanged == BudgetTypeOK /\ UNCHANGED budgetVars => BudgetTypeOK'
  BY DEF BudgetTypeOK, budgetVars

LEMMA CallStepTyped ==
    ASSUME TypeInv, NEW c \in Callers, CallStep(c)
    PROVE  TypeInv'
<1>. USE DEF TypeInv, TypeOK, RetryLeft, Go, Ends, Stages, InCall, CallResults,
             mainVars, taskVars, hitlVars
<1>1. CASE PreCall(c)
  BY <1>1, BudgetUnchanged DEF PreCall, Attempt
<1>2. CASE Respond(c)
  <2>1. PICK u \in Usages, r \in {"ok", "empty", "transport", "err"} :
           /\ AddOutcome(u)
           /\ IF Exceeds(u) THEN Ends(c, "budget")
              ELSE IF ThresholdTrip > 0
                   THEN Go(c, "threshold") /\ res' = [res EXCEPT ![c] = r]
                   ELSE AfterAnswer(c, r)
    BY <1>2 DEF Respond
  <2>2. BudgetTypeOK'
    BY <2>1, ChargeTyped
  <2>. QED
    BY <1>2, <2>1, <2>2 DEF Respond, AfterAnswer
<1>3. CASE Threshold(c)
  <2>1. CASE ~budgetFired /\ tokens >= ThresholdTrip
    BY <1>3, <2>1, BudgetUnchanged DEF Threshold
  <2>2. CASE ~(~budgetFired /\ tokens >= ThresholdTrip)
    <3>1. AfterAnswer(c, res[c]) /\ UNCHANGED hitlVars
      BY <1>3, <2>2 DEF Threshold
    <3>. QED
      BY <1>3, <3>1, BudgetUnchanged DEF Threshold, AfterAnswer
  <2>. QED
    BY <2>1, <2>2
<1>4. CASE ToolCall(c)
  BY <1>4, BudgetUnchanged DEF ToolCall
<1>5. CASE ToolAnswer(c)
  BY <1>5, BudgetUnchanged DEF ToolAnswer, CancelRun, CtxStates, Causes
<1>6. CASE ThresholdAnswer(c)
  BY <1>6, BudgetUnchanged
     DEF ThresholdAnswer, CancelRun, CtxStates, Causes, AfterAnswer
<1>7. CASE Backoff(c)
  BY <1>7, BudgetUnchanged DEF Backoff, Attempt
<1>. QED
  BY <1>1, <1>2, <1>3, <1>4, <1>5, <1>6, <1>7 DEF CallStep

LEMMA SubtaskStepTyped ==
    ASSUME TypeInv, NEW s \in Subtasks, CreateSubtask(s) \/ SubtaskStep(s)
    PROVE  TypeInv'
<1>. USE BudgetUnchanged
     DEF TypeInv, TypeOK, RetryLeft, Go, Stages, InCall, Outcomes, Settled,
         mainVars, hitlVars, Callers
<1>1. CASE CreateSubtask(s)
  <2>1. anyFailed' \in BOOLEAN
    BY <1>1, Zenon DEF CreateSubtask, NotCreated
  <2>. QED
    BY <1>1, <2>1 DEF CreateSubtask, NotCreated
<1>2. CASE Acquire(s)
  BY <1>2 DEF Acquire
<1>3. CASE CancelledBeforeStart(s)
  BY <1>3 DEF CancelledBeforeStart
<1>4. CASE FinishSubtask(s)
  BY <1>4 DEF FinishSubtask, Failure, Wins
<1>. QED
  BY <1>1, <1>2, <1>3, <1>4 DEF SubtaskStep

LEMMA MainStepTyped ==
    ASSUME TypeInv, MainStep \/ Interrupt
    PROVE  TypeInv'
<1>. USE BudgetUnchanged
     DEF TypeInv, TypeOK, RetryLeft, Go, Stages, InCall, mainVars, taskVars,
         hitlVars, callVars, Callers, Concludes, Dispatch, SessionStatuses,
         TerminalStatuses, FinalStatus
<1>1. CASE Start
  BY <1>1 DEF Start
<1>2. CASE PlanDone
  <2>1. /\ plan' \subseteq Subtasks
        /\ phase' \in {"dispatch", "done"}
        /\ sess' \in SessionStatuses
    BY <1>2 DEF PlanDone
  <2>. QED
    BY <1>2, <2>1 DEF PlanDone
<1>3. CASE StrategyDone
  <2>. DEFINE v == PostDispatch(FALSE, Refuses, ctx, req.failFast, RunFailed)
  <2>0. v \in TerminalStatuses \cup {"proceed"}
    BY DEF PostDispatch
  <2>. HIDE DEF v
  <2>1. phase' \in {"compact", "done"} /\ sess' \in SessionStatuses
    BY <1>3, <2>0 DEF StrategyDone, v
  <2>. QED
    BY <1>3, <2>1 DEF StrategyDone
<1>4. CASE Compact
  BY <1>4 DEF Compact
<1>5. CASE StartSynthesis
  BY <1>5 DEF StartSynthesis
<1>6. CASE SynthesisDone
  BY <1>6 DEF SynthesisDone
<1>7. CASE Interrupt
  BY <1>7 DEF Interrupt, CtxStates, Causes
<1>. QED
  BY <1>1, <1>2, <1>3, <1>4, <1>5, <1>6, <1>7 DEF MainStep

LEMMA TypeInvInit == Init => TypeInv
<1>. SUFFICES ASSUME Init PROVE TypeInv
  OBVIOUS
<1>1. BudgetTypeOK
  BY DEF Init, BudgetInit, BudgetTypeOK
<1>2. pc \in [Callers -> Stages] /\ res \in [Callers -> CallResults]
  BY DEF Init, Stages, CallResults
<1>3. attempt \in [Callers -> 0..MaxRetries] /\ compacted \in 0..MaxCompactions
  BY DEF Init
<1>4. RetryLeft
  BY DEF Init, RetryLeft
<1>5. /\ row \in [Subtasks -> Settled \cup {"none", "pending", "running"}]
      /\ out \in [Subtasks -> Outcomes]
  BY DEF Init, Outcomes
<1>. QED
  BY <1>1, <1>2, <1>3, <1>4, <1>5
     DEF Init, TypeInv, TypeOK, SessionStatuses, CtxStates

LEMMA TypeInvStep == TypeInv /\ [Next]_vars => TypeInv'
<1>1. TypeInv /\ UNCHANGED vars => TypeInv'
  BY DEF TypeInv, TypeOK, RetryLeft, vars, budgetVars, mainVars, callVars,
         taskVars, hitlVars, BudgetTypeOK
<1>. QED
  BY <1>1, CallStepTyped, SubtaskStepTyped, MainStepTyped DEF Next

-----------------------------------------------------------------------------
(* The inductive invariant.                                                *)

(* Subtasks run only while the strategy is dispatched, the planner and the *)
(* synthesizer only in their own phases.                                   *)
PhaseAgrees ==
    /\ \A s \in Subtasks :
         pc[s] \in InCall \cup {"queued"} => phase = "dispatch" /\ s \in plan
    /\ pc[Planner] \in InCall => phase = "plan"
    /\ pc[Synth] \in InCall => phase \in {"compact", "synth"}
    /\ phase \in {"plan", "dispatch", "compact", "synth"} => sess = "running"
    /\ phase = "start" => sess = "none"

SlotBound == Cardinality(Running) <= req.maxParallel

(* The callers that can still charge the budget once a cap has tripped.    *)
Charging == {c \in Callers :
                pc[c] \in {"inflight", "toolask", "threshold", "ask", "backoff"}}

Overshoot ==
    MaxTokens > 0 /\ tokens >= MaxTokens =>
        tokens <= MaxTokens - 1 + MaxUse * (req.maxParallel - Cardinality(Charging))

(* A row that is not settled belongs to a goroutine that will settle it;   *)
(* a fan-out leaves those pending that never started.                      *)
RowsAgree ==
    \A s \in Subtasks :
        /\ row[s] = "running" => pc[s] \in InCall
        /\ req.strategy = "race" /\ row[s] = "pending" => pc[s] = "queued"

PromptOnce == prompts = IF budgetFired THEN 1 ELSE 0

(* Outside the strategy a breach is seen by the one call that is running.  *)
BreachSeen ==
    Refuses =>
        /\ phase # "start"
        /\ phase = "plan" => pc[Planner] = "finish" /\ res[Planner] = "budget"
        /\ phase = "synth" =>
              \/ pc[Synth] = "enter"
              \/ pc[Synth] = "finish" /\ res[Synth] = "budget"
        /\ phase = "done" => sess \in {"none", "budget_exhausted"}

DenialSeen ==
    req.skipSynthesis =>
        /\ phase \notin {"compact", "synth"}
        /\ phase = "done" /\ ctx = "denied" =>
              sess \in {"none", "hitl_denied", "budget_exhausted"}

WinnerAgrees ==
    winner # NoSubtask =>
        /\ winner \in Subtasks
        /\ pc[winner] = "done"
        /\ row[winner] = "completed"
        /\ sess \notin {"partial", "failed"}

RunInv ==
    /\ PhaseAgrees
    /\ SlotBound
    /\ Overshoot
    /\ RowsAgree
    /\ PromptOnce
    /\ BreachSeen
    /\ DenialSeen
    /\ WinnerAgrees

-----------------------------------------------------------------------------
(* Cardinalities.                                                          *)
LEMMA CallerSetFinite ==
    ASSUME NEW S \in SUBSET Callers
    PROVE  IsFiniteSet(S) /\ Cardinality(S) \in Nat
<1>1. IsFiniteSet(Subtasks \cup {Planner})
  BY FS_AddElement
<1>2. IsFiniteSet((Subtasks \cup {Planner}) \cup {Synth})
  BY <1>1, FS_AddElement
<1>3. Callers = (Subtasks \cup {Planner}) \cup {Synth}
  BY DEF Callers
<1>4. IsFiniteSet(S)
  BY <1>2, <1>3, FS_Subset
<1>. QED
  BY <1>4, FS_CardinalityType

LEMMA SmallerSet ==
    ASSUME NEW S \in SUBSET Callers, NEW T \in SUBSET Callers, S \subseteq T
    PROVE  Cardinality(S) <= Cardinality(T)
  BY CallerSetFinite, FS_Subset

LEMMA OneLess ==
    ASSUME NEW T \in SUBSET Callers, NEW c \in T
    PROVE  Cardinality(T \ {c}) = Cardinality(T) - 1
  BY CallerSetFinite, FS_RemoveElement

LEMMA OneMore ==
    ASSUME NEW T \in SUBSET Callers, NEW c \in Callers
    PROVE  Cardinality(T \cup {c}) <= Cardinality(T) + 1
<1>1. IsFiniteSet(T) /\ Cardinality(T) \in Nat
  BY CallerSetFinite
<1>2. \/ Cardinality(T \cup {c}) = Cardinality(T)
      \/ Cardinality(T \cup {c}) = Cardinality(T) + 1
  BY <1>1, FS_AddElement
<1>. QED
  BY <1>1, <1>2

LEMMA Product ==
    ASSUME NEW m \in Nat, NEW i \in Int, NEW j \in Int
    PROVE  /\ j >= i => m * j >= m * i
           /\ j >= i + 1 => m * j >= m * i + m
<1>1. m * (j - i) = m * j - m * i /\ m * (j - i - 1) = m * j - m * i - m
  BY SMT
<1>2. ASSUME NEW k \in Nat PROVE m * k >= 0
  BY SMT
<1>3. j >= i => m * (j - i) >= 0
  BY <1>2
<1>4. j >= i + 1 => m * (j - i - 1) >= 0
  BY <1>2
<1>5. m * j \in Int /\ m * i \in Int
  BY SMT
<1>. QED
  BY <1>1, <1>3, <1>4, <1>5

LEMMA SlotsTyped ==
    ASSUME TypeInv
    PROVE  req.maxParallel \in Nat /\ req.maxParallel >= 1
<1>1. req \in Requests
  BY DEF TypeInv, TypeOK
<1>2. req.maxParallel \in Nat \ {0}
  BY <1>1
<1>. QED
  BY <1>2

(* Never more callers can charge than there are slots.                     *)
LEMMA ChargingBounded ==
    ASSUME TypeInv, PhaseAgrees, SlotBound
    PROVE  Cardinality(Charging) \in 0..req.maxParallel
<1>0. Charging \in SUBSET Callers /\ Cardinality(Charging) \in Nat
  BY CallerSetFinite DEF Charging
<1>1. CASE phase = "dispatch"
  <2>1. Charging \subseteq Running /\ Running \in SUBSET Callers
    BY <1>1 DEF Charging, Running, Callers, PhaseAgrees, InCall
  <2>. QED
    BY <1>0, <2>1, SmallerSet, CallerSetFinite, SlotsTyped DEF SlotBound
<1>2. CASE phase # "dispatch"
  <2>1. PICK c \in {Planner, Synth} : Charging \subseteq {c}
    BY <1>2 DEF Charging, Callers, PhaseAgrees, InCall
  <2>2. Cardinality({c}) = 1 /\ {c} \in SUBSET Callers
    BY FS_Singleton DEF Callers
  <2>. QED
    BY <1>0, <2>1, <2>2, SmallerSet, SlotsTyped
<1>. QED
  BY <1>1, <1>2

-----------------------------------------------------------------------------
(* What a step of a call leaves alone: its caller stays in the call, and   *)
(* nobody else moves.                                                      *)
LEMMA CallFrame ==
    ASSUME TypeInv, NEW c \in Callers, CallStep(c)
    PROVE  /\ pc[c] \in InCall /\ pc'[c] \in InCall
           /\ pc' = [pc EXCEPT ![c] = pc'[c]]
           /\ \A d \in Callers : d # c => res'[d] = res[d]
           /\ UNCHANGED <<mainVars, taskVars>>
           /\ req' = req
<1>. USE DEF TypeInv, TypeOK, Go, Ends, InCall, mainVars
<1>1. CASE PreCall(c)
  BY <1>1 DEF PreCall, Attempt
<1>2. CASE Respond(c)
  BY <1>2 DEF Respond, AfterAnswer
<1>3. CASE Threshold(c)
  BY <1>3 DEF Threshold, AfterAnswer
<1>4. CASE ToolCall(c)
  BY <1>4 DEF ToolCall
<1>5. CASE ToolAnswer(c)
  BY <1>5 DEF ToolAnswer
<1>6. CASE ThresholdAnswer(c)
  BY <1>6 DEF ThresholdAnswer, AfterAnswer
<1>7. CASE Backoff(c)
  BY <1>7 DEF Backoff, Attempt
<1>. QED
  BY <1>1, <1>2, <1>3, <1>4, <1>5, <1>6, <1>7 DEF CallStep

(* A call step changes the budget only by Respond, and once the budget     *)
(* refuses no caller joins the charging ones.                              *)
LEMMA CallAdmission ==
    ASSUME TypeInv, NEW c \in Callers, CallStep(c), ~Respond(c)
    PROVE  /\ UNCHANGED budgetVars
           /\ Refuses => Charging' \subseteq Charging
           /\ Refuses /\ pc[c] = "enter" => pc'[c] = "finish" /\ res'[c] = "budget"
<1>. USE DEF TypeInv, TypeOK, Go, Ends, InCall, Charging
<1>1. CASE PreCall(c)
  BY <1>1 DEF PreCall, Attempt
<1>3. CASE Threshold(c)
  BY <1>3 DEF Threshold, AfterAnswer
<1>4. CASE ToolCall(c)
  BY <1>4 DEF ToolCall
<1>5. CASE ToolAnswer(c)
  BY <1>5 DEF ToolAnswer
<1>6. CASE ThresholdAnswer(c)
  BY <1>6 DEF ThresholdAnswer, AfterAnswer
<1>7. CASE Backoff(c)
  BY <1>7 DEF Backoff, Attempt
<1>. QED
  BY <1>1, <1>3, <1>4, <1>5, <1>6, <1>7 DEF CallStep

(* An answer that exceeds no cap leaves a budget that does not refuse.     *)
LEMMA AdmittedCharge ==
    ASSUME BudgetTypeOK, NEW u \in Usages, AddOutcome(u), ~Refuses, ~Exceeds(u)
    PROVE  ~Refuses'
<1>1. tripped' = NoTrip
  BY DEF Refuses, AddOutcome
<1>2. "tokens" \notin ExceededBy(u) /\ "usd_cents" \notin ExceededBy(u)
  BY DEF Exceeds
<1>3. ~Reached(tokens + u.tok, MaxTokens) /\ ~Reached(usdCents + u.usd, MaxUSDCents)
  BY <1>2 DEF ExceededBy, CapKinds
<1>4. ~Reached(tokens', MaxTokens) /\ ~Reached(usdCents', MaxUSDCents)
  BY <1>3 DEF AddOutcome
<1>. QED
  BY <1>1, <1>4 DEF Refuses

(* The answer of a call: it charges at most MaxUse tokens and, when the    *)
(* budget refuses afterwards, ends the call.                               *)
LEMMA AnswerCharges ==
    ASSUME TypeInv, NEW c \in Callers, Respond(c)
    PROVE  /\ tokens' \in tokens..(tokens + MaxUse)
           /\ pc[c] = "inflight"
           /\ Refuses' => Refuses \/ (pc'[c] = "finish" /\ res'[c] = "budget")
           /\ MaxTokens > 0 /\ tokens' >= MaxTokens =>
                  pc'[c] = "finish" /\ res'[c] = "budget"
<1>1. PICK u \in Usages, r \in {"ok", "empty", "transport", "err"} :
         /\ AddOutcome(u)
         /\ IF Exceeds(u) THEN Ends(c, "budget")
            ELSE IF ThresholdTrip > 0
                 THEN Go(c, "threshold") /\ res' = [res EXCEPT ![c] = r]
                 ELSE AfterAnswer(c, r)
  BY DEF Respond
<1>2. pc[c] = "inflight"
  BY DEF Respond
<1>3. u.tok \in 0..MaxUse /\ tokens \in Nat /\ tokens' = tokens + u.tok
  BY <1>1 DEF AddOutcome, TypeInv, TypeOK, BudgetTypeOK
<1>4. Exceeds(u) => pc'[c] = "finish" /\ res'[c] = "budget"
  BY <1>1 DEF Ends, Go, TypeInv, TypeOK
<1>5. MaxTokens > 0 /\ tokens' >= MaxTokens => Exceeds(u)
  BY <1>3 DEF Exceeds, ExceededBy, CapKinds, Reached
<1>6. Refuses' => Refuses \/ Exceeds(u)
  BY <1>1, AdmittedCharge DEF TypeInv, TypeOK
<1>. QED
  BY <1>2, <1>3, <1>4, <1>5, <1>6

LEMMA CallStepOvershoot ==
    ASSUME TypeInv, RunInv, NEW c \in Callers, CallStep(c)
    PROVE  Overshoot'
<1>. SUFFICES ASSUME (MaxTokens > 0 /\ tokens >= MaxTokens)'
     PROVE  (tokens <= MaxTokens - 1
                       + MaxUse * (req.maxParallel - Cardinality(Charging)))'
  BY DEF Overshoot
<1>. DEFINE k == Cardinality(Charging)
            l == Cardinality(Charging')
<1>0. /\ tokens \in Nat /\ MaxTokens \in Nat /\ MaxUse \in Nat /\ req.maxParallel \in Nat
      /\ k \in 0..req.maxParallel
      /\ Charging \in SUBSET Callers /\ Charging' \in SUBSET Callers
      /\ l \in Nat /\ req' = req
  <2>1. k \in 0..req.maxParallel
    BY ChargingBounded DEF RunInv
  <2>2. Charging \in SUBSET Callers /\ Charging' \in SUBSET Callers
    BY DEF Charging
  <2>3. l \in Nat
    BY <2>2, CallerSetFinite
  <2>. QED
    BY <2>1, <2>2, <2>3, CallFrame, SlotsTyped, BudgetAssumption
       DEF TypeInv, TypeOK, BudgetTypeOK
<1>1. MaxTokens > 0 /\ tokens >= MaxTokens =>
         tokens <= MaxTokens - 1 + MaxUse * (req.maxParallel - k)
  BY DEF RunInv, Overshoot
<1>2. CASE Respond(c)
  <2>1. c \in Charging /\ Charging' = Charging \ {c}
    <3>1. pc[c] = "inflight" /\ pc'[c] = "finish"
      BY <1>2, AnswerCharges
    <3>. QED
      BY <3>1, CallFrame DEF Charging, TypeInv, TypeOK
  <2>2. l = k - 1
    BY <1>0, <2>1, OneLess
  <2>3. tokens' \in tokens..(tokens + MaxUse)
    BY <1>2, AnswerCharges
  <2>4. CASE tokens >= MaxTokens
    <3>1. MaxUse * (req.maxParallel - l) >= MaxUse * (req.maxParallel - k) + MaxUse
      <4>. HIDE DEF k, l
      <4>. QED
        BY <1>0, <2>2, Product
    <3>2. tokens <= MaxTokens - 1 + MaxUse * (req.maxParallel - k)
      BY <1>0, <1>1, <2>4
    <3>3. MaxUse * (req.maxParallel - l) \in Int /\ MaxUse * (req.maxParallel - k) \in Int
      BY <1>0
    <3>. HIDE DEF k, l
    <3>4. tokens' <= MaxTokens - 1 + MaxUse * (req.maxParallel - l)
      BY <1>0, <2>3, <3>1, <3>2, <3>3
    <3>. QED
      BY <1>0, <3>4 DEF l
  <2>5. CASE tokens < MaxTokens
    <3>1. MaxUse * (req.maxParallel - l) >= MaxUse * 0 + MaxUse
      <4>. HIDE DEF k, l
      <4>. QED
        BY <1>0, <2>2, Product
    <3>2. MaxUse * (req.maxParallel - l) \in Int
      BY <1>0
    <3>. HIDE DEF k, l
    <3>4. tokens' <= MaxTokens - 1 + MaxUse * (req.maxParallel - l)
      BY <1>0, <2>3, <2>5, <3>1, <3>2
    <3>. QED
      BY <1>0, <3>4 DEF l
  <2>. QED
    BY <1>0, <2>4, <2>5
<1>3. CASE ~Respond(c)
  <2>1. tokens' = tokens
    BY <1>3, CallAdmission DEF budgetVars
  <2>2. Refuses
    BY <1>0, <2>1 DEF Refuses, Reached
  <2>3. l <= k
    BY <1>0, <1>3, <2>2, CallAdmission, SmallerSet
  <2>. HIDE DEF k, l
  <2>4. MaxUse * (req.maxParallel - l) >= MaxUse * (req.maxParallel - k)
    BY <1>0, <2>3, Product
  <2>5. MaxUse * (req.maxParallel - l) \in Int /\ MaxUse * (req.maxParallel - k) \in Int
    BY <1>0
  <2>6. tokens' <= MaxTokens - 1 + MaxUse * (req.maxParallel - l)
    BY <1>0, <1>1, <2>1, <2>4, <2>5
  <2>. QED
    BY <1>0, <2>6 DEF l
<1>. QED
  BY <1>2, <1>3

LEMMA CallStepInv ==
    ASSUME TypeInv, RunInv, NEW c \in Callers, CallStep(c)
    PROVE  RunInv'
<1>0. /\ pc[c] \in InCall /\ pc'[c] \in InCall
      /\ pc' = [pc EXCEPT ![c] = pc'[c]]
      /\ pc \in [Callers -> Stages]
      /\ \A d \in Callers : d # c => res'[d] = res[d]
      /\ UNCHANGED <<req, phase, sess, plan, row, out, winner>>
  BY CallFrame DEF TypeInv, TypeOK, mainVars, taskVars
<1>1. PhaseAgrees'
  BY <1>0 DEF RunInv, PhaseAgrees, Callers, InCall
<1>2. SlotBound'
  <2>1. Running' = Running
    BY <1>0 DEF Running, Callers
  <2>. QED
    BY <1>0, <2>1 DEF RunInv, SlotBound
<1>3. Overshoot'
  BY CallStepOvershoot
<1>4. RowsAgree'
  BY <1>0 DEF RunInv, RowsAgree, InCall, Callers
<1>5. PromptOnce'
  <2>1. CASE Threshold(c)
    BY <2>1 DEF Threshold, RunInv, PromptOnce, TypeInv, TypeOK, hitlVars
  <2>2. CASE ~Threshold(c)
    <3>1. UNCHANGED hitlVars
      BY <2>2 DEF CallStep, PreCall, Respond, ToolCall, ToolAnswer,
                  ThresholdAnswer, Backoff
    <3>. QED
      BY <3>1 DEF RunInv, PromptOnce, hitlVars
  <2>. QED
    BY <2>1, <2>2
<1>6. BreachSeen'
  <2>. SUFFICES ASSUME Refuses' PROVE BreachSeen'
    BY DEF BreachSeen
  <2>1. phase \notin {"start", "done"}
    BY <1>0 DEF RunInv, PhaseAgrees, Callers
  <2>2. CASE c \in Subtasks
    <3>1. phase = "dispatch"
      BY <1>0, <2>2 DEF RunInv, PhaseAgrees
    <3>. QED
      BY <1>0, <3>1 DEF BreachSeen
  <2>3. CASE c \in {Planner, Synth}
    <3>1. phase = "plan" => c = Planner
      BY <1>0, <2>3 DEF RunInv, PhaseAgrees
    <3>2. phase = "synth" => c = Synth
      BY <1>0, <2>3 DEF RunInv, PhaseAgrees
    <3>3. CASE Respond(c)
      <4>1. pc[c] = "inflight"
        BY <3>3, AnswerCharges
      <4>2. ~Refuses \/ phase \notin {"plan", "synth"}
        BY <3>1, <3>2, <4>1 DEF RunInv, BreachSeen
      <4>3. CASE Refuses
        BY <1>0, <2>1, <4>2, <4>3 DEF BreachSeen
      <4>4. CASE ~Refuses
        <5>1. pc'[c] = "finish" /\ res'[c] = "budget"
          BY <3>3, <4>4, AnswerCharges
        <5>. QED
          BY <1>0, <2>1, <3>1, <3>2, <5>1 DEF BreachSeen
      <4>. QED
        BY <4>3, <4>4
    <3>4. CASE ~Respond(c)
      <4>1. Refuses
        BY <3>4, CallAdmission DEF Refuses, budgetVars
      <4>2. pc[c] # "finish"
        BY DEF CallStep, PreCall, Respond, Threshold, ToolCall, ToolAnswer,
               ThresholdAnswer, Backoff
      <4>3. phase # "plan"
        BY <3>1, <4>1, <4>2 DEF RunInv, BreachSeen
      <4>4. phase = "synth" => pc'[c] = "finish" /\ res'[c] = "budget"
        BY <3>2, <3>4, <4>1, <4>2, CallAdmission DEF RunInv, BreachSeen
      <4>. QED
        BY <1>0, <2>1, <3>2, <4>3, <4>4 DEF BreachSeen
    <3>. QED
      BY <3>3, <3>4
  <2>. QED
    BY <2>2, <2>3 DEF Callers
<1>7. DenialSeen'
  <2>1. phase # "done"
    BY <1>0 DEF RunInv, PhaseAgrees, Callers
  <2>. QED
    BY <1>0, <2>1 DEF RunInv, DenialSeen
<1>8. WinnerAgrees'
  BY <1>0 DEF RunInv, WinnerAgrees, InCall, Callers
<1>. QED
  BY <1>1, <1>2, <1>3, <1>4, <1>5, <1>6, <1>7, <1>8 DEF RunInv

(* The steps of the strategies charge nothing and keep the context.        *)
LEMMA SubtaskStepInv ==
    ASSUME TypeInv, RunInv, NEW s \in Subtasks, CreateSubtask(s) \/ SubtaskStep(s)
    PROVE  RunInv'
<1>0. /\ UNCHANGED <<budgetVars, mainVars, ctx, hitlVars, res>>
      /\ pc' = [pc EXCEPT ![s] = pc'[s]]
      /\ pc \in [Callers -> Stages] /\ row \in [Subtasks -> Settled \cup {"none", "pending", "running"}]
      /\ req' = req /\ phase = "dispatch" /\ s \in plan
      /\ s \in Callers /\ s # Planner /\ s # Synth /\ s # NoSubtask
      /\ \A d \in Callers : d # s => pc'[d] = pc[d]
      /\ \A d \in Subtasks : d # s => row'[d] = row[d]
  <2>1. phase = "dispatch" /\ s \in plan
    BY DEF CreateSubtask, NotCreated, SubtaskStep, Acquire, CancelledBeforeStart,
           FinishSubtask, RunInv, PhaseAgrees, InCall
  <2>2. s \in Callers /\ s # Planner /\ s # Synth /\ s # NoSubtask
    BY DEF Callers
  <2>3. pc \in [Callers -> Stages] /\ row \in [Subtasks -> Settled \cup {"none", "pending", "running"}]
    BY DEF TypeInv, TypeOK
  <2>4. /\ UNCHANGED <<budgetVars, mainVars, ctx, hitlVars, res>>
        /\ pc' = [pc EXCEPT ![s] = pc'[s]]
        /\ \A d \in Subtasks : d # s => row'[d] = row[d]
    BY <2>2, <2>3
       DEF CreateSubtask, NotCreated, SubtaskStep, Acquire, CancelledBeforeStart,
           FinishSubtask, Go
  <2>. QED
    BY <2>1, <2>2, <2>3, <2>4 DEF mainVars
<1>1. PhaseAgrees'
  BY <1>0 DEF RunInv, PhaseAgrees, mainVars, Callers
<1>2. SlotBound'
  <2>1. CASE Acquire(s)
    <3>1. Running' \subseteq Running \cup {s}
      BY <1>0 DEF Running, Callers
    <3>2. Running \in SUBSET Callers /\ Running' \in SUBSET Callers
          /\ Running \cup {s} \in SUBSET Callers
      BY <1>0 DEF Running, Callers
    <3>3. Cardinality(Running') <= Cardinality(Running \cup {s})
      BY <3>1, <3>2, SmallerSet
    <3>4. Cardinality(Running \cup {s}) <= Cardinality(Running) + 1
      BY <1>0, <3>2, OneMore
    <3>5. Cardinality(Running) < req.maxParallel
      BY <2>1 DEF Acquire
    <3>6. /\ Cardinality(Running) \in Nat
          /\ Cardinality(Running') \in Nat
          /\ Cardinality(Running \cup {s}) \in Nat
      BY <3>2, CallerSetFinite
    <3>. QED
      BY <1>0, <3>3, <3>4, <3>5, <3>6, SlotsTyped DEF SlotBound
  <2>2. CASE ~Acquire(s)
    <3>1. pc'[s] \notin InCall
      BY <1>0, <2>2
         DEF CreateSubtask, NotCreated, SubtaskStep, CancelledBeforeStart, FinishSubtask,
             Go, InCall
    <3>2. Running' \subseteq Running
      BY <1>0, <3>1 DEF Running, Callers
    <3>3. Running \in SUBSET Callers /\ Running' \in SUBSET Callers
      BY DEF Running, Callers
    <3>4. Cardinality(Running') <= Cardinality(Running)
      BY <3>2, <3>3, SmallerSet
    <3>5. Cardinality(Running) \in Nat /\ Cardinality(Running') \in Nat
      BY <3>3, CallerSetFinite
    <3>. QED
      BY <1>0, <3>4, <3>5, SlotsTyped DEF SlotBound, RunInv
  <2>. QED
    BY <2>1, <2>2
<1>3. Overshoot'
  <2>1. Charging' = Charging
    BY <1>0
       DEF CreateSubtask, NotCreated, SubtaskStep, Acquire, CancelledBeforeStart,
           FinishSubtask, Go, Charging
  <2>. QED
    BY <1>0, <2>1 DEF Overshoot, RunInv, budgetVars
<1>4. RowsAgree'
  <2>1. /\ row'[s] = "running" => pc'[s] \in InCall
        /\ req.strategy = "race" /\ row'[s] = "pending" => pc'[s] = "queued"
    <3>. USE DEF Go, InCall, RunInv, RowsAgree
    <3>1. CASE CreateSubtask(s)
      BY <1>0, <3>1 DEF CreateSubtask, NotCreated
    <3>2. CASE Acquire(s)
      BY <1>0, <3>2 DEF Acquire
    <3>3. CASE CancelledBeforeStart(s)
      BY <1>0, <3>3 DEF CancelledBeforeStart
    <3>4. CASE FinishSubtask(s)
      BY <1>0, <3>4 DEF FinishSubtask
    <3>. QED
      BY <3>1, <3>2, <3>3, <3>4 DEF SubtaskStep
  <2>. QED
    BY <1>0, <2>1 DEF RunInv, RowsAgree, Callers
<1>5. PromptOnce'
  BY <1>0 DEF RunInv, PromptOnce, hitlVars
<1>6. BreachSeen'
  <2>1. Refuses' = Refuses
    BY <1>0 DEF Refuses, budgetVars
  <2>. QED
    BY <1>0, <2>1 DEF RunInv, BreachSeen, mainVars
<1>7. DenialSeen'
  BY <1>0 DEF RunInv, DenialSeen, mainVars
<1>8. WinnerAgrees'
  <2>1. CASE FinishSubtask(s)
    <3>1. pc'[s] = "done" /\ sess = "running" /\ pc[s] = "finish"
      BY <1>0, <2>1 DEF FinishSubtask, Go, RunInv, PhaseAgrees
    <3>2. Wins(s) => row'[s] = "completed"
      BY <1>0, <2>1 DEF FinishSubtask, Wins, Failure
    <3>3. winner' = IF Wins(s) THEN s ELSE winner
      BY <2>1 DEF FinishSubtask
    <3>. QED
      BY <1>0, <3>1, <3>2, <3>3 DEF RunInv, WinnerAgrees, mainVars, Callers
  <2>2. CASE ~FinishSubtask(s)
    <3>1. UNCHANGED winner /\ pc[s] # "done"
      BY <2>2 DEF CreateSubtask, NotCreated, SubtaskStep, Acquire, CancelledBeforeStart,
                  taskVars
    <3>. QED
      BY <1>0, <3>1 DEF RunInv, WinnerAgrees, mainVars, Callers
  <2>. QED
    BY <2>1, <2>2
<1>. QED
  BY <1>1, <1>2, <1>3, <1>4, <1>5, <1>6, <1>7, <1>8 DEF RunInv

(* The steps of the main goroutine touch no subtask and no charge.         *)
LEMMA MainFrame ==
    ASSUME TypeInv, RunInv, MainStep \/ Interrupt
    PROVE  /\ UNCHANGED <<budgetVars, res, taskVars, hitlVars>>
           /\ \A s \in Subtasks : pc'[s] = pc[s]
           /\ req' = req
           /\ Running' = Running
           /\ Charging' = Charging
<1>1. \A s \in Subtasks : s \in Callers /\ s # Planner /\ s # Synth
  BY DEF Callers
<1>2. pc \in [Callers -> Stages]
  BY DEF TypeInv, TypeOK
<1>3. UNCHANGED <<budgetVars, res, taskVars, hitlVars>> /\ req' = req
  BY DEF MainStep, Interrupt, Start, PlanDone, StrategyDone, Compact,
         StartSynthesis, SynthesisDone, callVars, mainVars
<1>4. \/ pc' = pc
      \/ \E c \in {Planner, Synth}, v \in {"enter", "idle", "done"} :
            /\ pc[c] \notin InCall \/ pc[c] = "finish"
            /\ pc' = [pc EXCEPT ![c] = v]
  <2>1. CASE Start
    BY <2>1 DEF Start, Go, RunInv, PhaseAgrees
  <2>2. CASE PlanDone
    BY <2>2 DEF PlanDone, Go
  <2>3. CASE StrategyDone \/ Interrupt
    BY <2>3 DEF StrategyDone, Interrupt, callVars
  <2>4. CASE Compact
    BY <2>4 DEF Compact, Go, InCall
  <2>5. CASE StartSynthesis
    BY <2>5 DEF StartSynthesis, Go, InCall
  <2>6. CASE SynthesisDone
    BY <2>6 DEF SynthesisDone, Go
  <2>. QED
    BY <2>1, <2>2, <2>3, <2>4, <2>5, <2>6 DEF MainStep
<1>5. \A s \in Subtasks : pc'[s] = pc[s]
  BY <1>1, <1>2, <1>4
<1>6. Charging' = Charging
  BY <1>1, <1>2, <1>4 DEF Charging, InCall
<1>. QED
  BY <1>3, <1>5, <1>6 DEF Running

(* The verdict after dispatch hides neither a breach nor a denial, and is  *)
(* failed only when the strategy's failure counts.                         *)
LEMMA Verdict ==
    ASSUME NEW v, v = PostDispatch(FALSE, Refuses, ctx, req.failFast, RunFailed)
    PROVE  /\ v \in TerminalStatuses \cup {"proceed"}
           /\ v # "partial"
           /\ Refuses => v = "budget_exhausted"
           /\ ctx = "denied" => v \in {"budget_exhausted", "hitl_denied"}
           /\ v = "failed" => RunFailed
  BY Zenon DEF PostDispatch, TerminalStatuses

(* Whatever the main goroutine does, it stays in step with its calls.      *)
LEMMA MainStepPhase ==
    ASSUME TypeInv, RunInv, MainStep \/ Interrupt
    PROVE  PhaseAgrees'
<1>. USE DEF Go, RunInv, PhaseAgrees, TypeInv, TypeOK, InCall, Concludes, Dispatch
<1>0. \A s \in Subtasks : s \in Callers /\ s # Planner /\ s # Synth
  BY DEF Callers
<1>00. Planner \in Callers /\ Synth \in Callers
  BY DEF Callers
<1>1. CASE Start
  BY <1>0, <1>00, <1>1 DEF Start
<1>2. CASE PlanDone
  BY <1>0, <1>00, <1>2 DEF PlanDone
<1>3. CASE StrategyDone
  <2>1. /\ pc' = pc /\ plan' = plan
        /\ phase' \in {"compact", "done"}
        /\ phase' = "compact" => sess' = sess
    BY <1>3 DEF StrategyDone, callVars
  <2>. QED
    BY <1>0, <1>00, <1>3, <2>1 DEF StrategyDone
<1>4. CASE Compact
  BY <1>0, <1>00, <1>4 DEF Compact
<1>5. CASE StartSynthesis
  BY <1>0, <1>00, <1>5 DEF StartSynthesis
<1>6. CASE SynthesisDone
  BY <1>0, <1>00, <1>6 DEF SynthesisDone
<1>7. CASE Interrupt
  BY <1>7 DEF Interrupt, mainVars, callVars
<1>. QED
  BY <1>1, <1>2, <1>3, <1>4, <1>5, <1>6, <1>7 DEF MainStep

LEMMA MainStepBreach ==
    ASSUME TypeInv, RunInv, MainStep \/ Interrupt
    PROVE  BreachSeen'
<1>. SUFFICES ASSUME Refuses PROVE BreachSeen'
  BY MainFrame DEF BreachSeen, Refuses, budgetVars
<1>. USE MainFrame DEF RunInv, BreachSeen, TypeInv, TypeOK, Concludes
<1>0. Planner \in Callers /\ Synth \in Callers
  BY DEF Callers
<1>1. CASE Start
  BY <1>1 DEF Start
<1>2. CASE PlanDone
  BY <1>2 DEF PlanDone
<1>3. CASE StrategyDone
  <2>1. phase' = "done" /\ sess' = "budget_exhausted"
    BY <1>3, Verdict DEF StrategyDone
  <2>. QED
    BY <2>1
<1>4. CASE Compact
  BY <1>4 DEF Compact
<1>5. CASE StartSynthesis
  BY <1>0, <1>5 DEF StartSynthesis, Go
<1>6. CASE SynthesisDone
  BY <1>6 DEF SynthesisDone
<1>7. CASE Interrupt
  BY <1>7 DEF Interrupt, mainVars, callVars
<1>. QED
  BY <1>1, <1>2, <1>3, <1>4, <1>5, <1>6, <1>7 DEF MainStep

LEMMA MainStepDenial ==
    ASSUME TypeInv, RunInv, MainStep \/ Interrupt
    PROVE  DenialSeen'
<1>. SUFFICES ASSUME req.skipSynthesis PROVE DenialSeen'
  BY MainFrame DEF DenialSeen
<1>. USE DEF RunInv, DenialSeen, Concludes
<1>1. CASE Start
  BY <1>1 DEF Start
<1>2. CASE PlanDone
  BY <1>2 DEF PlanDone, Dispatch
<1>3. CASE StrategyDone
  <2>1. phase' = "done" /\ ctx' = ctx
    BY <1>3 DEF StrategyDone
  <2>2. ctx = "denied" => sess' \in {"hitl_denied", "budget_exhausted"}
    BY <1>3, Verdict DEF StrategyDone
  <2>. QED
    BY <2>1, <2>2
<1>4. CASE Compact \/ StartSynthesis \/ SynthesisDone
  BY <1>4 DEF Compact, StartSynthesis, SynthesisDone
<1>5. CASE Interrupt
  BY <1>5 DEF Interrupt, mainVars
<1>. QED
  BY <1>1, <1>2, <1>3, <1>4, <1>5 DEF MainStep

LEMMA MainStepWinner ==
    ASSUME TypeInv, RunInv, MainStep \/ Interrupt
    PROVE  WinnerAgrees'
<1>. SUFFICES ASSUME winner' # NoSubtask PROVE WinnerAgrees'
  BY DEF WinnerAgrees
<1>1. /\ winner' = winner /\ row' = row
      /\ winner \in Subtasks /\ pc'[winner] = "done" /\ row[winner] = "completed"
      /\ sess \notin {"partial", "failed"}
      /\ ~RunFailed
  BY MainFrame DEF taskVars, RunInv, WinnerAgrees, RunFailed
<1>2. sess' \notin {"partial", "failed"}
  <2>. USE <1>1 DEF Concludes, FinalStatus
  <2>1. CASE Start \/ PlanDone \/ Compact \/ StartSynthesis \/ SynthesisDone \/ Interrupt
    BY <2>1 DEF Start, PlanDone, Dispatch, Compact, StartSynthesis,
                SynthesisDone, Interrupt, mainVars
  <2>2. CASE StrategyDone
    BY <2>2, Verdict DEF StrategyDone
  <2>. QED
    BY <2>1, <2>2 DEF MainStep
<1>. QED
  BY <1>1, <1>2 DEF WinnerAgrees

LEMMA MainStepInv ==
    ASSUME TypeInv, RunInv, MainStep \/ Interrupt
    PROVE  RunInv'
<1>1. SlotBound' /\ Overshoot' /\ RowsAgree' /\ PromptOnce'
  BY MainFrame
     DEF RunInv, SlotBound, Overshoot, RowsAgree, PromptOnce, budgetVars,
         taskVars, hitlVars
<1>. QED
  BY <1>1, MainStepPhase, MainStepBreach, MainStepDenial, MainStepWinner DEF RunInv

LEMMA RunInvInit ==
    ASSUME Init PROVE RunInv
<1>1. Planner \in Callers /\ Synth \in Callers /\ Subtasks \subseteq Callers
  BY DEF Callers
<1>2. PhaseAgrees
  BY <1>1 DEF Init, PhaseAgrees, InCall
<1>3. SlotBound
  <2>1. Running = {}
    BY <1>1 DEF Init, Running, InCall
  <2>. QED
    BY <2>1, FS_EmptySet, SlotsTyped, TypeInvInit DEF SlotBound
<1>4. ~Refuses /\ ~(MaxTokens > 0 /\ tokens >= MaxTokens)
  BY BudgetAssumption DEF Init, BudgetInit, Refuses, Reached, NoTrip
<1>5. RowsAgree /\ PromptOnce /\ DenialSeen /\ WinnerAgrees
  BY DEF Init, RowsAgree, PromptOnce, DenialSeen, WinnerAgrees
<1>. QED
  BY <1>2, <1>3, <1>4, <1>5 DEF RunInv, Overshoot, BreachSeen

(* The invariant of a run.                                                 *)
THEOREM RunInvariant == Spec => [](TypeInv /\ RunInv)
<1>1. Init => TypeInv /\ RunInv
  BY TypeInvInit, RunInvInit
<1>2. TypeInv /\ RunInv /\ [Next]_vars => RunInv'
  <2>1. TypeInv /\ RunInv /\ UNCHANGED vars => RunInv'
    <3>. SUFFICES ASSUME TypeInv, RunInv, UNCHANGED vars PROVE RunInv'
      OBVIOUS
    <3>. USE DEF vars, budgetVars, mainVars, callVars, taskVars, hitlVars, RunInv
    <3>1. Refuses' = Refuses /\ Running' = Running /\ Charging' = Charging
      BY DEF Refuses, Running, Charging
    <3>2. PhaseAgrees' /\ RowsAgree' /\ PromptOnce' /\ DenialSeen' /\ WinnerAgrees'
      BY DEF PhaseAgrees, RowsAgree, PromptOnce, DenialSeen, WinnerAgrees
    <3>. QED
      BY <3>1, <3>2 DEF SlotBound, Overshoot, BreachSeen
  <2>. QED
    BY <2>1, CallStepInv, SubtaskStepInv, MainStepInv DEF Next
<1>3. TypeInv /\ [Next]_vars => TypeInv'
  BY TypeInvStep
<1>. QED
  BY <1>1, <1>2, <1>3, PTL DEF Spec

-----------------------------------------------------------------------------
(* Every variable of a run keeps its type; a call never retries more often *)
(* than callProvider's loop allows.                                        *)
THEOREM RunTyped == Spec => []TypeOK
  BY RunInvariant, PTL DEF TypeInv

(* However calls, retries and prompts interleave, the charges that arrive  *)
(* after the token cap tripped are those of calls already admitted: one    *)
(* per slot.                                                               *)
THEOREM RunOvershootBounded == Spec => []OvershootBounded
<1>1. TypeInv /\ RunInv => OvershootBounded
  <2>. SUFFICES ASSUME TypeInv, RunInv, MaxTokens > 0
       PROVE  tokens <= MaxTokens - 1 + MaxUse * req.maxParallel
    BY DEF OvershootBounded
  <2>. DEFINE k == Cardinality(Charging)
  <2>1. /\ k \in 0..req.maxParallel /\ tokens \in Nat /\ MaxTokens \in Nat
        /\ MaxUse \in Nat /\ req.maxParallel \in Nat
    BY ChargingBounded, BudgetAssumption DEF RunInv, TypeInv, TypeOK, BudgetTypeOK
  <2>2. tokens >= MaxTokens => tokens <= MaxTokens - 1 + MaxUse * (req.maxParallel - k)
    BY DEF RunInv, Overshoot
  <2>. HIDE DEF k
  <2>3. /\ MaxUse * req.maxParallel >= MaxUse * (req.maxParallel - k)
        /\ MaxUse * req.maxParallel >= MaxUse * 0
    BY <2>1, Product
  <2>4. MaxUse * req.maxParallel \in Int /\ MaxUse * (req.maxParallel - k) \in Int
    BY <2>1
  <2>. QED
    BY <2>1, <2>2, <2>3, <2>4
<1>. QED
  BY <1>1, RunInvariant, PTL

(* The token-threshold prompt is shown at most once.                       *)
THEOREM RunOnePrompt == Spec => []OnePrompt
<1>1. RunInv => OnePrompt
  BY DEF RunInv, PromptOnce, OnePrompt
<1>. QED
  BY <1>1, RunInvariant, PTL

(* A breach of the budget, whichever call it happens in, is the status the *)
(* run ends with.                                                          *)
THEOREM RunBudgetNotHidden == Spec => []BudgetNotHidden
<1>1. TypeInv /\ RunInv => BudgetNotHidden
  BY DEF RunInv, BreachSeen, PhaseAgrees, BudgetNotHidden, TerminalStatuses,
         TypeInv, TypeOK
<1>. QED
  BY <1>1, RunInvariant, PTL

(* Run returns with no goroutine in a call and no row left running.        *)
THEOREM RunNoOrphans == Spec => []NoOrphans
<1>1. RunInv => NoOrphans
  BY DEF RunInv, PhaseAgrees, RowsAgree, NoOrphans, Busy, Callers, InCall
<1>. QED
  BY <1>1, RunInvariant, PTL

(* Without a synthesis step a denial is never reported as anything else.   *)
THEOREM RunDirectDenialIsTerminal == Spec => []DirectDenialIsTerminal
<1>1. TypeInv /\ RunInv => DirectDenialIsTerminal
  BY DEF RunInv, DenialSeen, PhaseAgrees, DirectDenialIsTerminal,
         TerminalStatuses, TypeInv, TypeOK
<1>. QED
  BY <1>1, RunInvariant, PTL

(* A won race is never reported for its losers' failures.                  *)
THEOREM RunWonRaceSucceeds == Spec => []WonRaceSucceeds
<1>1. RunInv => WonRaceSucceeds
  BY DEF RunInv, WinnerAgrees, WonRaceSucceeds
<1>. QED
  BY <1>1, RunInvariant, PTL

(* When a race is over every row it created is settled.                    *)
THEOREM RunRaceRowsSettled == Spec => []RaceRowsSettled
<1>1. TypeInv /\ RunInv => RaceRowsSettled
  BY DEF RunInv, PhaseAgrees, RowsAgree, RaceRowsSettled, InCall, TypeInv, TypeOK
<1>. QED
  BY <1>1, RunInvariant, PTL

(* The winner of a race stays the winner.                                  *)
THEOREM RunWinnerIsFinal == Spec => WinnerIsFinal
<1>1. TypeInv /\ RunInv /\ [Next]_vars => (winner # NoSubtask => winner' = winner)
  <2>. SUFFICES ASSUME TypeInv, RunInv, [Next]_vars, winner # NoSubtask
       PROVE  winner' = winner
    OBVIOUS
  <2>1. CASE \E c \in Callers : CallStep(c)
    BY <2>1, CallFrame DEF taskVars
  <2>2. CASE \E s \in Subtasks : CreateSubtask(s) \/ SubtaskStep(s)
    BY <2>2 DEF CreateSubtask, NotCreated, SubtaskStep, Acquire, CancelledBeforeStart,
                FinishSubtask, Wins
  <2>3. CASE MainStep \/ Interrupt
    BY <2>3, MainFrame DEF taskVars
  <2>4. CASE UNCHANGED vars
    BY <2>4 DEF vars, taskVars
  <2>. QED
    BY <2>1, <2>2, <2>3, <2>4 DEF Next
<1>. QED
  BY <1>1, RunInvariant, PTL DEF WinnerIsFinal, Spec

-----------------------------------------------------------------------------
(* The strategy's flag knows of every failed row, and a session is called  *)
(* completed only when the flag does not count.                            *)
FlagAgrees ==
    /\ \A s \in Subtasks : row[s] = "failed" => anyFailed
    /\ sess = "completed" => phase = "done" /\ ~RunFailed

LEMMA FlagAgreesStep ==
    ASSUME TypeInv, RunInv, FlagAgrees, [Next]_vars
    PROVE  FlagAgrees'
<1>. USE DEF FlagAgrees, RunFailed
<1>1. CASE \E c \in Callers : CallStep(c)
  BY <1>1, CallFrame DEF taskVars, mainVars
<1>2. CASE \E s \in Subtasks : CreateSubtask(s) \/ SubtaskStep(s)
  <2>1. PICK s \in Subtasks : CreateSubtask(s) \/ SubtaskStep(s)
    BY <1>2
  <2>2. phase = "dispatch"
    BY <2>1 DEF CreateSubtask, NotCreated, SubtaskStep, Acquire, CancelledBeforeStart,
                FinishSubtask, RunInv, PhaseAgrees, InCall
  <2>3. sess = "running" /\ sess' = sess
    BY <2>1, <2>2
       DEF CreateSubtask, NotCreated, SubtaskStep, Acquire, CancelledBeforeStart,
           FinishSubtask, RunInv, PhaseAgrees, mainVars
  <2>4. ASSUME NEW u \in Subtasks, row'[u] = "failed" PROVE anyFailed'
    <3>. row \in [Subtasks -> Settled \cup {"none", "pending", "running"}] /\ anyFailed \in BOOLEAN
      BY DEF TypeInv, TypeOK
    <3>1. CASE CreateSubtask(s)
      BY <2>4, <3>1 DEF CreateSubtask, NotCreated
    <3>2. CASE Acquire(s) \/ CancelledBeforeStart(s)
      BY <2>4, <3>2 DEF Acquire, CancelledBeforeStart
    <3>3. CASE FinishSubtask(s)
      BY <2>4, <3>3 DEF FinishSubtask
    <3>. QED
      BY <2>1, <3>1, <3>2, <3>3 DEF SubtaskStep
  <2>. QED
    BY <2>3, <2>4
<1>3. CASE MainStep \/ Interrupt
  <2>1. UNCHANGED <<row, anyFailed, winner>>
    BY <1>3, MainFrame DEF taskVars
  <2>2. CASE Start \/ PlanDone \/ Compact \/ StartSynthesis \/ Interrupt
    BY <2>1, <2>2
       DEF Start, PlanDone, Dispatch, Concludes, Compact, StartSynthesis,
           Interrupt, mainVars, RunInv, PhaseAgrees
  <2>3. CASE StrategyDone
    <3>1. sess' = "completed" => phase' = "done" /\ ~RunFailed
      BY <2>3, Verdict
         DEF StrategyDone, Concludes, FinalStatus, PostDispatch, RunInv, PhaseAgrees
    <3>. QED
      BY <2>1, <3>1
  <2>4. CASE SynthesisDone
    BY <2>1, <2>4 DEF SynthesisDone, Concludes, FinalStatus
  <2>. QED
    BY <1>3, <2>2, <2>3, <2>4 DEF MainStep
<1>4. CASE UNCHANGED vars
  BY <1>4 DEF vars, mainVars, taskVars
<1>. QED
  BY <1>1, <1>2, <1>3, <1>4 DEF Next

(* A session that is reported completed hides no failure of a subtask that *)
(* ran, unless a race was won.                                             *)
THEOREM RunCompletedHidesNoFailure == Spec => []CompletedHidesNoFailure
<1>1. Init => FlagAgrees
  BY DEF Init, FlagAgrees
<1>2. TypeInv /\ RunInv /\ FlagAgrees /\ [Next]_vars => FlagAgrees'
  BY FlagAgreesStep
<1>3. FlagAgrees => CompletedHidesNoFailure
  BY DEF FlagAgrees, CompletedHidesNoFailure, RunFailed
<1>. QED
  BY <1>1, <1>2, <1>3, RunInvariant, PTL DEF Spec

(* The status a run ends with tells the truth, whatever its plan, its      *)
(* strategy, its cap and the number of its slots.                          *)
THEOREM RunStatusIsTrue == Spec => []StatusIsTrue
<1>1. BudgetNotHidden /\ DirectDenialIsTerminal /\ CompletedHidesNoFailure /\ WonRaceSucceeds
        => StatusIsTrue
  BY DEF StatusIsTrue
<1>. QED
  BY <1>1, RunBudgetNotHidden, RunDirectDenialIsTerminal, RunCompletedHidesNoFailure,
     RunWonRaceSucceeds, PTL
=============================================================================
