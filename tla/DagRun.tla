------------------------------- MODULE DagRun -------------------------------
(***************************************************************************)
(* The DAG strategy of the supervisor, internal/engine/dag.go: runDAG      *)
(* dispatches a plan wave by wave, each wave being the tasks whose needs   *)
(* have all completed; runDAGSubtask runs one task and its verification    *)
(* gate, sending the producer back when the gate fails.  The tasks of the  *)
(* plan are numbered in the order the plan lists them, which is the order  *)
(* the scan for the next wave visits them.                                 *)
(*                                                                         *)
(* One action per critical section: the goroutines of a wave interleave    *)
(* freely, the scan runs in the main goroutine one task at a time.  A      *)
(* provider call is reduced to its outcome (SupervisorRun has the whole of *)
(* it); synthesis is skipped, so the session's status follows from the     *)
(* checks after dispatch.                                                  *)
(***************************************************************************)
EXTENDS Integers, FiniteSets, RunVerdict

CONSTANTS N,              \* number of tasks in the plan
          MaxParallel,    \* slots of the semaphore (Run defaults it to 4)
          Gated,          \* the tasks that carry a verification gate
          RetryProducer,  \* a failed gate sends the producer back
          GateMaxRetries  \* the gate's max_retries as written in the plan

ASSUME DagAssumption ==
    /\ N \in Nat
    /\ MaxParallel \in Nat \ {0}
    /\ Gated \subseteq 1..N
    /\ RetryProducer \in BOOLEAN
    /\ GateMaxRetries \in Nat

Tasks == 1..N

VARIABLES failFast,   \* the request's fail-fast flag
          needs,      \* the plan's dependency lists, as sets
          st,         \* per task: where it is (see TaskStates)
          attempt,    \* per task: producer attempts already sent back
          main,       \* where the main goroutine is
          cursor,     \* the scan's position in the plan
          allDone,    \* no unsettled task met in this scan so far
          anyFailed,  \* a task of the plan failed
          ret,        \* what runDAG returned
          ctx,        \* the run context
          tripped,    \* a budget cap has tripped
          sess        \* the session row's status

vars == <<failFast, needs, st, attempt, main, cursor, allDone, anyFailed, ret,
          ctx, tripped, sess>>
control == <<main, cursor, allDone, ret, sess>>

\* "todo" and "wave" are rows still pending; "queued" waits for a slot;
\* "call" and "gate" hold a slot
Settled == {"completed", "failed", "skipped"}
Holding == {"call", "gate"}
TaskStates == Settled \cup Holding \cup {"todo", "wave", "queued"}

InState(S) == {t \in Tasks : st[t] \in S}

TypeOK ==
    /\ failFast \in BOOLEAN
    /\ needs \in [Tasks -> SUBSET Tasks]
    /\ st \in [Tasks -> TaskStates]
    /\ attempt \in [Tasks -> Nat]
    /\ main \in {"validate", "scan", "wait", "returned", "done"}
    /\ cursor \in 1..(N + 1)
    /\ allDone \in BOOLEAN
    /\ anyFailed \in BOOLEAN
    /\ ret \in {"none", "invalid", "ok", "stuck", "aborted"}
    /\ ctx \in CtxStates
    /\ tripped \in BOOLEAN
    /\ sess \in SessionStatuses

Init ==
    /\ failFast \in BOOLEAN
    /\ needs \in [Tasks -> SUBSET Tasks]
    /\ st = [t \in Tasks |-> "todo"]
    /\ attempt = [t \in Tasks |-> 0]
    /\ main = "validate"
    /\ cursor = 1
    /\ allDone = TRUE
    /\ anyFailed = FALSE
    /\ ret = "none"
    /\ ctx = "live"
    /\ tripped = FALSE
    /\ sess = "running"

-----------------------------------------------------------------------------

(* validateDAG rejects a cyclic plan; MCDagRun has the search it makes.    *)
(* A plan is acyclic when its tasks can be ranked below the tasks that     *)
(* need them.                                                              *)
Acyclic ==
    \E rank \in [Tasks -> Tasks] :
        \A t \in Tasks : \A d \in needs[t] : rank[d] < rank[t]

Validate ==
    /\ main = "validate"
    /\ IF Acyclic
       THEN main' = "scan" /\ UNCHANGED <<ret, anyFailed>>
       ELSE main' = "returned" /\ ret' = "invalid" /\ anyFailed' = TRUE
    /\ UNCHANGED <<failFast, needs, st, attempt, cursor, allDone, ctx,
                   tripped, sess>>

-----------------------------------------------------------------------------

DepBlocked(t) == \E d \in needs[t] : st[d] \in {"failed", "skipped"}
DepsMet(t) == \A d \in needs[t] : st[d] = "completed"

(* One step of the scan for the next wave.                                 *)
ScanTask ==
    /\ main = "scan"
    /\ cursor <= N
    /\ cursor' = cursor + 1
    /\ \/ st[cursor] \in Settled /\ UNCHANGED <<st, allDone>>
       \/ /\ st[cursor] = "todo"
          /\ allDone' = FALSE
          /\ st' = [st EXCEPT ![cursor] =
                      IF DepBlocked(cursor) THEN "skipped"
                      ELSE IF DepsMet(cursor) THEN "wave" ELSE "todo"]
    /\ UNCHANGED <<failFast, needs, attempt, main, anyFailed, ret, ctx,
                   tripped, sess>>

(* The scan is over: everything is settled, or nothing can run (the        *)
(* "defensive" error of runDAG), or the wave's goroutines are launched.    *)
ScanEnd ==
    /\ main = "scan"
    /\ cursor = N + 1
    /\ \/ allDone /\ main' = "returned" /\ ret' = "ok"
                  /\ UNCHANGED <<st, anyFailed>>
       \/ /\ ~allDone /\ InState({"wave"}) = {}
          /\ main' = "returned" /\ ret' = "stuck" /\ anyFailed' = TRUE
          /\ UNCHANGED st
       \/ /\ ~allDone /\ InState({"wave"}) # {}
          /\ main' = "wait"
          /\ st' = [t \in Tasks |-> IF st[t] = "wave" THEN "queued" ELSE st[t]]
          /\ UNCHANGED <<ret, anyFailed>>
    /\ UNCHANGED <<failFast, needs, attempt, cursor, allDone, ctx, tripped,
                   sess>>

\* broken: failed tasks are put back for the next wave
WaveDone_Requeues ==
    /\ main = "wait"
    /\ InState(Holding \cup {"queued"}) = {}
    /\ main' = "scan"
    /\ cursor' = 1
    /\ allDone' = TRUE
    /\ st' = [t \in Tasks |-> IF st[t] = "failed" THEN "todo" ELSE st[t]]
    /\ UNCHANGED <<failFast, needs, attempt, anyFailed, ret, ctx, tripped,
                   sess>>

\* broken: fail-fast returns without dropping what is pending
WaveDone_KeepsPending ==
    /\ main = "wait"
    /\ InState(Holding \cup {"queued"}) = {}
    /\ IF anyFailed /\ failFast
       THEN main' = "returned" /\ ret' = "aborted" /\ UNCHANGED <<cursor, allDone>>
       ELSE main' = "scan" /\ cursor' = 1 /\ allDone' = TRUE /\ UNCHANGED ret
    /\ UNCHANGED <<failFast, needs, st, attempt, anyFailed, ctx, tripped,
                   sess>>

(* wg.Wait returned.  Under fail-fast a failure drops everything still     *)
(* pending; otherwise the next scan starts.                                *)
WaveDone ==
    /\ main = "wait"
    /\ InState(Holding \cup {"queued"}) = {}
    /\ IF anyFailed /\ failFast
       THEN /\ st' = [t \in Tasks |-> IF st[t] = "todo" THEN "skipped" ELSE st[t]]
            /\ main' = "returned"
            /\ ret' = "aborted"
            /\ UNCHANGED <<cursor, allDone>>
       ELSE /\ main' = "scan"
            /\ cursor' = 1
            /\ allDone' = TRUE
            /\ UNCHANGED <<st, ret>>
    /\ UNCHANGED <<failFast, needs, attempt, anyFailed, ctx, tripped, sess>>

-----------------------------------------------------------------------------
Fail(t) ==
    /\ st' = [st EXCEPT ![t] = "failed"]
    /\ anyFailed' = TRUE

(* The goroutine of a task.  A call is made only when CheckPreCall admits  *)
(* it, on the first attempt and after every failed gate alike.             *)
TryCall(t) ==
    IF tripped THEN Fail(t)
    ELSE st' = [st EXCEPT ![t] = "call"] /\ UNCHANGED anyFailed

Acquire(t) ==
    /\ st[t] = "queued"
    /\ Cardinality(InState(Holding)) < MaxParallel
    /\ TryCall(t)
    /\ UNCHANGED <<failFast, needs, attempt, control, ctx, tripped>>

CancelledBeforeSlot(t) ==
    /\ st[t] = "queued"
    /\ ctx # "live"
    /\ Fail(t)
    /\ UNCHANGED <<failFast, needs, attempt, control, ctx, tripped>>

Return(t) ==
    /\ st[t] = "call"
    /\ \/ /\ st' = [st EXCEPT ![t] = IF t \in Gated THEN "gate" ELSE "completed"]
          /\ UNCHANGED <<anyFailed, tripped>>
       \/ Fail(t) /\ UNCHANGED tripped
       \/ Fail(t) /\ tripped' = TRUE        \* the charge tripped a cap
    /\ UNCHANGED <<failFast, needs, attempt, control, ctx>>

(* A gate that asks for retries gets at least one.                         *)
MaxRetries ==
    IF ~RetryProducer THEN 0
    ELSE IF GateMaxRetries = 0 THEN 1 ELSE GateMaxRetries

\* broken: attempts are not counted
GateResult_Uncounted(t) ==
    /\ st[t] = "gate"
    /\ \/ st' = [st EXCEPT ![t] = "completed"] /\ UNCHANGED anyFailed
       \/ TryCall(t)
    /\ UNCHANGED <<failFast, needs, attempt, control, ctx, tripped>>

GateResult(t) ==
    /\ st[t] = "gate"
    /\ \/ /\ st' = [st EXCEPT ![t] = "completed"]
          /\ UNCHANGED <<attempt, anyFailed>>
       \/ attempt[t] >= MaxRetries /\ Fail(t) /\ UNCHANGED attempt
       \/ /\ attempt[t] < MaxRetries
          /\ attempt' = [attempt EXCEPT ![t] = @ + 1]
          /\ TryCall(t)
    /\ UNCHANGED <<failFast, needs, control, ctx, tripped>>

-----------------------------------------------------------------------------
(* The context ends, once: a denial comes from a tool call in flight, the  *)
(* rest from outside.                                                      *)
Interrupt ==
    /\ ctx = "live"
    /\ main # "done"
    /\ \E c \in Causes :
         /\ c \in {"denied", "approver"} => InState({"call"}) # {}
         /\ ctx' = c
    /\ UNCHANGED <<failFast, needs, st, attempt, control, anyFailed, tripped>>

(* Back in Supervisor.Run.                                                 *)
Conclude ==
    /\ main = "returned"
    /\ main' = "done"
    /\ LET v == PostDispatch(ret \in {"invalid", "stuck"}, tripped, ctx,
                             failFast, anyFailed)
       IN sess' = IF v = "proceed" THEN FinalStatus(anyFailed) ELSE v
    /\ UNCHANGED <<failFast, needs, st, attempt, cursor, allDone, anyFailed,
                   ret, ctx,
                   tripped>>

TaskStep(t) ==
    Acquire(t) \/ CancelledBeforeSlot(t) \/ Return(t) \/ GateResult(t)
MainStep == Validate \/ ScanTask \/ ScanEnd \/ WaveDone \/ Conclude

Next == MainStep \/ Interrupt \/ \E t \in Tasks : TaskStep(t)

(* Every goroutine keeps running: calls and gates are bounded by the       *)
(* subtask, gate and run timeouts, and a slot is always given back.        *)
Fairness ==
    /\ WF_vars(MainStep)
    /\ \A t \in Tasks : WF_vars(TaskStep(t))

Spec == Init /\ [][Next]_vars
FairSpec == Spec /\ Fairness

-----------------------------------------------------------------------------
(* A task that has left the queue ran on the results of everything it      *)
(* needs: all of it had completed (the upstream summary of its prompt      *)
(* is complete).                                                           *)
DepsCompleted ==
    \A t \in InState(Holding \cup {"wave", "queued", "completed", "failed"}) :
        DepsMet(t)

(* No more than MaxParallel tasks of the plan are calling a provider or    *)
(* running a gate at the same time.                                        *)
SlotBound == Cardinality(InState(Holding)) <= MaxParallel

(* A task is skipped only below a failure, or because fail-fast gave up    *)
(* after one ("a failed subtask cascades").                                *)
SkipHasCause ==
    \A t \in InState({"skipped"}) :
        DepBlocked(t) \/ (ret = "aborted" /\ InState({"failed"}) # {})

(* When runDAG returns without an error every task of the plan has an      *)
(* outcome, and no goroutine of it is left.                                *)
ReturnSettles ==
    ret \in {"ok", "aborted"} => InState(TaskStates \ Settled) = {}

(* A session is reported completed only if every task of its plan          *)
(* completed.                                                              *)
CompletedIsClean == sess = "completed" => InState({"completed"}) = Tasks

(* What runDAG returns and the session is closed with is true of its rows. *)
ReturnIsTrue == ReturnSettles /\ CompletedIsClean

(* runDAG returns and the session reaches a terminal status, whatever the  *)
(* calls and gates answer and whenever the context ends.                   *)
EventuallyConcludes == <>(sess \in TerminalStatuses)

(* "Defensive": after validateDAG accepted the plan, the scan never runs   *)
(* out of runnable tasks while some are unsettled (runDAG's comment).      *)
NeverStuck == ret # "stuck"

(* What does hold of the stuck error: runDAG gives up only over a plan in  *)
(* which a task failed, and only when no unsettled task could still run.   *)
StuckBelowFailure ==
    ret = "stuck" =>
        /\ InState({"failed"}) # {}
        /\ \A t \in InState({"todo"}) : ~DepsMet(t)

(* A run whose budget tripped is reported as such, never as something that *)
(* hides the breach (the post-dispatch check's comment).                   *)
TripIsReported ==
    (sess \in TerminalStatuses /\ tripped) => sess = "budget_exhausted"

(* The strategy keeps the promises of the task board.                      *)
rowOf(s) == IF s \in {"todo", "wave", "queued"} THEN "pending"
            ELSE IF s \in Holding THEN "running" ELSE s
Board == INSTANCE TaskBoard
            WITH Task <- Tasks, deps <- needs, row <- [t \in Tasks |-> rowOf(st[t])]
ImplementsBoard == Board!BoardSpec
=============================================================================
