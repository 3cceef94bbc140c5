---------------------------- MODULE DagRunProofs ----------------------------
(***************************************************************************)
(* Proofs about DagRun, for every plan, slot count and gate setting, and   *)
(* about validateDAG, for every plan.                                      *)
(***************************************************************************)
EXTENDS MCDagRun, FiniteSetTheorems, WellFoundedInduction, TLAPS

(* Goroutines of a wave exist only while the main goroutine waits for it,  *)
(* and the picked tasks of a scan only during that scan.                   *)
WaveBarrier ==
    /\ main # "wait" => InState(Holding \cup {"queued"}) = {}
    /\ main # "scan" => InState({"wave"}) = {}
    /\ main = "validate" => /\ InState(TaskStates \ {"todo"}) = {}
                            /\ ~anyFailed
                            /\ cursor = 1

(* What the scan has learnt up to its cursor.                              *)
ScanKnows ==
    main = "scan" /\ allDone => \A t \in Tasks : t < cursor => st[t] \in Settled

(* The flag and the failed tasks agree while the plan is dispatched, and   *)
(* nothing is skipped before something failed.                             *)
FailureIsFlagged ==
    /\ InState({"failed"}) # {} => anyFailed
    /\ main \in {"scan", "wait"} /\ anyFailed => InState({"failed"}) # {}
    /\ InState({"skipped"}) # {} => InState({"failed"}) # {}

(* The return value is set exactly when runDAG has returned.               *)
RetAgrees ==
    /\ main \in {"validate", "scan", "wait"} <=> ret = "none"
    /\ sess = "completed" => main = "done" /\ ret = "ok" /\ ~anyFailed
    /\ main # "done" => sess = "running"
    /\ ret = "aborted" => anyFailed

DagInv ==
    /\ TypeOK
    /\ WaveBarrier
    /\ ScanKnows
    /\ FailureIsFlagged
    /\ RetAgrees
    /\ DepsCompleted
    /\ SkipHasCause
    /\ ReturnSettles
    /\ SlotBound

-----------------------------------------------------------------------------
(* Sets of tasks are finite, so their cardinalities are numbers that grow  *)
(* with the set.                                                           *)
LEMMA TaskSetFinite ==
    ASSUME NEW S \in SUBSET Tasks
    PROVE  IsFiniteSet(S) /\ Cardinality(S) \in Nat
  <1>1. IsFiniteSet(Tasks)
    BY FS_Interval, DagAssumption DEF Tasks
  <1>2. IsFiniteSet(S)
    BY <1>1, FS_Subset
  <1> QED
    BY <1>2, FS_CardinalityType

LEMMA SmallerSet ==
    ASSUME NEW S \in SUBSET Tasks, NEW T \in SUBSET Tasks, S \subseteq T
    PROVE  Cardinality(S) <= Cardinality(T)
  <1>1. IsFiniteSet(T)
    BY TaskSetFinite
  <1> QED
    BY <1>1, FS_Subset

LEMMA OneMore ==
    ASSUME NEW S \in SUBSET Tasks, NEW T \in SUBSET Tasks, NEW t \in Tasks,
           T \subseteq S \cup {t}
    PROVE  Cardinality(T) <= Cardinality(S) + 1
  <1>1. IsFiniteSet(S)
    BY TaskSetFinite
  <1>2. /\ IsFiniteSet(S \cup {t})
        /\ Cardinality(S \cup {t}) <= Cardinality(S) + 1
    BY <1>1, FS_AddElement, TaskSetFinite
  <1>3. Cardinality(T) <= Cardinality(S \cup {t})
    BY <1>2, FS_Subset
  <1>4. /\ Cardinality(T) \in Nat
        /\ Cardinality(S) \in Nat
        /\ Cardinality(S \cup {t}) \in Nat
    BY TaskSetFinite
  <1> QED
    BY <1>2, <1>3, <1>4

-----------------------------------------------------------------------------
LEMMA InitInv == Init => DagInv
  <1> SUFFICES ASSUME Init PROVE DagInv
    OBVIOUS
  <1>0. 1 \in 1..(N + 1)
    BY DagAssumption
  <1>1. TypeOK
    BY <1>0 DEF Init, TypeOK, TaskStates, CtxStates, SessionStatuses
  <1>2. \A S : "todo" \notin S => InState(S) = {}
    BY DEF Init, InState
  <1>3. InState(Holding) = {} /\ "todo" \notin Holding \cup {"queued"}
    BY <1>2 DEF Holding
  <1>4. SlotBound
    BY <1>3, FS_EmptySet, DagAssumption DEF SlotBound
  <1> QED
    BY <1>1, <1>2, <1>3, <1>4
    DEF Init, DagInv, WaveBarrier, ScanKnows, FailureIsFlagged, RetAgrees,
        DepsCompleted, SkipHasCause, ReturnSettles, InState, Holding, Tasks

(* A step that takes no slot keeps the slot bound.                         *)
LEMMA SlotsKept ==
    ASSUME SlotBound, TypeOK, InState(Holding)' \subseteq InState(Holding)
    PROVE  SlotBound'
  <1>1. InState(Holding) \in SUBSET Tasks /\ InState(Holding)' \in SUBSET Tasks
    BY DEF InState, Tasks
  <1>2. Cardinality(InState(Holding)') <= Cardinality(InState(Holding))
    BY <1>1, SmallerSet
  <1>3. Cardinality(InState(Holding)') \in Nat /\ Cardinality(InState(Holding)) \in Nat
    BY <1>1, TaskSetFinite
  <1> QED
    BY <1>2, <1>3, DagAssumption DEF SlotBound

LEMMA ValidateInv == DagInv /\ Validate => DagInv'
  <1> SUFFICES ASSUME DagInv, Validate PROVE DagInv'
    OBVIOUS
  <1> USE DEF DagInv, Validate
  <1>1. TypeOK'
    BY DEF TypeOK
  <1>2. WaveBarrier' /\ RetAgrees'
    BY DEF WaveBarrier, RetAgrees, InState
  <1>5. ScanKnows'
    BY DEF ScanKnows, WaveBarrier, TypeOK, Tasks
  <1>6. InState({"failed"}) = {} /\ InState({"skipped"}) = {}
    BY DEF WaveBarrier, InState, TaskStates, Settled
  <1>7. FailureIsFlagged'
    BY <1>6 DEF FailureIsFlagged, InState, WaveBarrier
  <1>3. DepsCompleted' /\ SkipHasCause' /\ ReturnSettles'
    BY DEF DepsCompleted, DepsMet, SkipHasCause, DepBlocked, ReturnSettles,
           InState, RetAgrees
  <1>4. SlotBound'
    BY SlotsKept DEF InState
  <1> QED
    BY <1>1, <1>2, <1>3, <1>4, <1>5, <1>7

LEMMA ScanTaskInv == DagInv /\ ScanTask => DagInv'
  <1> SUFFICES ASSUME DagInv, ScanTask PROVE DagInv'
    OBVIOUS
  <1> USE DEF DagInv, ScanTask
  <1>0. cursor \in Tasks
    BY DagAssumption DEF TypeOK, Tasks
  <1>1. TypeOK'
    <2>1. cursor' \in 1..(N + 1)
      BY <1>0, DagAssumption DEF Tasks
    <2>2. st' \in [Tasks -> TaskStates]
      BY DEF TypeOK, TaskStates, Settled
    <2> QED
      BY <2>1, <2>2 DEF TypeOK
  <1>2. WaveBarrier'
    BY <1>0 DEF WaveBarrier, InState, Holding, TypeOK
  <1>3. ScanKnows'
    <2>1. allDone' => st[cursor] \in Settled /\ st' = st /\ allDone
      OBVIOUS
    <2>2. ASSUME NEW t \in Tasks, t < cursor + 1, allDone'
          PROVE  st'[t] \in Settled
      <3>1. t = cursor \/ t < cursor
        BY <1>0, <2>2 DEF Tasks
      <3> QED
        BY <2>1, <2>2, <3>1 DEF ScanKnows
    <2> QED
      BY <2>2 DEF ScanKnows
  <1>4. FailureIsFlagged'
    BY <1>0 DEF FailureIsFlagged, InState, TypeOK, DepBlocked, Settled
  <1>5. RetAgrees'
    BY DEF RetAgrees
  <1>6. DepsCompleted'
    BY <1>0 DEF DepsCompleted, DepsMet, InState, Holding, TypeOK
  <1>7. SkipHasCause'
    BY <1>0 DEF SkipHasCause, DepBlocked, InState, TypeOK
  <1>8. ReturnSettles'
    BY DEF ReturnSettles, RetAgrees
  <1>9. SlotBound'
    BY <1>0, SlotsKept DEF InState, TypeOK, Holding
  <1> QED
    BY <1>1, <1>2, <1>3, <1>4, <1>5, <1>6, <1>7, <1>8, <1>9

LEMMA ScanEndInv == DagInv /\ ScanEnd => DagInv'
  <1> SUFFICES ASSUME DagInv, ScanEnd PROVE DagInv'
    OBVIOUS
  <1> USE DEF DagInv, ScanEnd
  <1>1. TypeOK'
    BY DEF TypeOK, TaskStates
  <1>2. WaveBarrier'
    <2>1. allDone => InState({"wave"}) = {}
      BY DagAssumption DEF ScanKnows, InState, Settled, Tasks
    <2>3. CASE main' = "returned"
      BY <2>1, <2>3 DEF WaveBarrier, InState
    <2>2. CASE main' = "wait"
      BY <2>2 DEF WaveBarrier, InState, TypeOK
    <2> QED
      BY <2>2, <2>3
  <1>3. ScanKnows' /\ RetAgrees'
    BY DEF ScanKnows, RetAgrees
  <1>4. FailureIsFlagged'
    BY DEF FailureIsFlagged, InState, TypeOK
  <1>5. DepsCompleted'
    BY DEF DepsCompleted, DepsMet, InState, Holding, TypeOK
  <1>6. SkipHasCause'
    <2>1. \A u \in Tasks : \A s \in {"failed", "skipped"} : st'[u] = s <=> st[u] = s
      BY DEF TypeOK
    <2>2. ret # "aborted"
      BY DEF RetAgrees
    <2>3. ASSUME NEW u \in Tasks, st'[u] = "skipped" PROVE DepBlocked(u)'
      BY <2>1, <2>2, <2>3 DEF SkipHasCause, DepBlocked, InState, TypeOK
    <2> QED
      BY <2>3 DEF SkipHasCause, InState
  <1>7. ReturnSettles'
    BY DagAssumption DEF ReturnSettles, RetAgrees, ScanKnows, InState, TypeOK, Tasks
  <1>8. SlotBound'
    BY SlotsKept DEF InState, TypeOK, Holding
  <1> QED
    BY <1>1, <1>2, <1>3, <1>4, <1>5, <1>6, <1>7, <1>8

LEMMA WaveDoneInv == DagInv /\ WaveDone => DagInv'
  <1> SUFFICES ASSUME DagInv, WaveDone PROVE DagInv'
    OBVIOUS
  <1> USE DEF DagInv, WaveDone
  <1>1. TypeOK'
    <2>1. st' \in [Tasks -> TaskStates]
      BY DEF TypeOK, TaskStates, Settled
    <2>0. 1 \in 1..(N + 1)
      BY DagAssumption
    <2>2. cursor' \in 1..(N + 1) /\ allDone' \in BOOLEAN
      BY <2>0 DEF TypeOK
    <2>3. main' \in {"scan", "returned"} /\ ret' \in {ret, "aborted"}
      OBVIOUS
    <2> QED
      BY <2>1, <2>2, <2>3 DEF TypeOK
  <1>2. WaveBarrier'
    BY DEF WaveBarrier, InState, Holding, TypeOK
  <1>3. ScanKnows' /\ RetAgrees'
    BY DEF ScanKnows, RetAgrees, TypeOK, Tasks
  <1>4. FailureIsFlagged'
    BY DEF FailureIsFlagged, InState, TypeOK
  <1>5. DepsCompleted'
    BY DEF DepsCompleted, DepsMet, InState, Holding, TypeOK
  <1>6. SkipHasCause'
    BY DEF SkipHasCause, DepBlocked, InState, TypeOK, FailureIsFlagged, RetAgrees
  <1>7. ReturnSettles'
    BY DEF ReturnSettles, RetAgrees, WaveBarrier, InState, TypeOK, TaskStates,
           Settled, Holding
  <1>8. SlotBound'
    BY SlotsKept DEF InState, TypeOK, Holding
  <1> QED
    BY <1>1, <1>2, <1>3, <1>4, <1>5, <1>6, <1>7, <1>8

-----------------------------------------------------------------------------
(* The steps of a task's goroutine share their effect on the invariant:    *)
(* the task was queued or held a slot, so the main goroutine waits; it     *)
(* moves to a later state and no other task moves.                         *)
LEMMA TaskMoves ==
    ASSUME DagInv, NEW t \in Tasks, NEW s \in Holding \cup {"completed", "failed"},
           st[t] \in Holding \cup {"queued"},
           st' = [st EXCEPT ![t] = s],
           anyFailed' = (anyFailed \/ s = "failed"),
           attempt' \in [Tasks -> Nat],
           tripped' \in BOOLEAN,
           UNCHANGED <<failFast, needs, control, ctx>>,
           s \in Holding =>
              \/ st[t] \in Holding
              \/ Cardinality(InState(Holding)) < MaxParallel
    PROVE  DagInv'
  <1> USE DEF DagInv, control
  <1>1. main = "wait" /\ ret = "none"
    BY DEF WaveBarrier, InState, RetAgrees
  <1>2. TypeOK'
    BY DEF TypeOK, TaskStates, Settled
  <1>3. WaveBarrier' /\ ScanKnows' /\ RetAgrees' /\ ReturnSettles'
    BY <1>1 DEF WaveBarrier, ScanKnows, RetAgrees, ReturnSettles, InState,
                TypeOK, Holding
  <1>4. FailureIsFlagged'
    BY <1>1 DEF FailureIsFlagged, InState, TypeOK, Holding
  <1>5. DepsMet(t)
    BY DEF DepsCompleted, InState
  <1>6. DepsCompleted'
    BY <1>5 DEF DepsCompleted, DepsMet, InState, TypeOK, Holding
  <1>7. SkipHasCause'
    BY <1>1 DEF SkipHasCause, DepBlocked, InState, TypeOK, Holding
  <1>8. SlotBound'
    <2>1. CASE s \in Holding /\ st[t] \notin Holding
      <3>1. InState(Holding)' \subseteq InState(Holding) \cup {t}
        BY DEF InState, TypeOK
      <3>2. InState(Holding) \in SUBSET Tasks /\ InState(Holding)' \in SUBSET Tasks
        BY DEF InState
      <3>3. Cardinality(InState(Holding)') <= Cardinality(InState(Holding)) + 1
        BY <3>1, <3>2, OneMore
      <3> QED
        BY <2>1, <3>2, <3>3, TaskSetFinite, DagAssumption DEF SlotBound
    <2>2. CASE ~(s \in Holding /\ st[t] \notin Holding)
      BY <2>2, SlotsKept DEF InState, TypeOK
    <2> QED
      BY <2>1, <2>2
  <1> QED
    BY <1>2, <1>3, <1>4, <1>6, <1>7, <1>8

LEMMA TaskStepInv == DagInv /\ (\E t \in Tasks : TaskStep(t)) => DagInv'
  <1> SUFFICES ASSUME DagInv, NEW t \in Tasks, TaskStep(t) PROVE DagInv'
    OBVIOUS
  <1>0. TypeOK /\ anyFailed \in BOOLEAN /\ attempt \in [Tasks -> Nat]
        /\ tripped \in BOOLEAN
    BY DEF DagInv, TypeOK
  <1>1. CASE Acquire(t)
    <2>1. CASE tripped
      BY <1>0, <1>1, <2>1, TaskMoves DEF Acquire, TryCall, Fail
    <2>2. CASE ~tripped
      BY <1>0, <1>1, <2>2, TaskMoves DEF Acquire, TryCall, Holding
    <2> QED
      BY <2>1, <2>2
  <1>2. CASE CancelledBeforeSlot(t)
    <2>1. /\ st[t] \in Holding \cup {"queued"}
          /\ st' = [st EXCEPT ![t] = "failed"]
          /\ anyFailed' = TRUE
          /\ UNCHANGED <<failFast, needs, attempt, control, ctx, tripped>>
      BY <1>2 DEF CancelledBeforeSlot, Fail
    <2>2. "failed" \notin Holding /\ attempt' \in [Tasks -> Nat] /\ tripped' \in BOOLEAN
      BY <1>0, <2>1 DEF Holding
    <2> QED
      BY <1>0, <2>1, <2>2, TaskMoves
  <1>3. CASE Return(t)
    <2>1. CASE st' = [st EXCEPT ![t] = IF t \in Gated THEN "gate" ELSE "completed"]
               /\ UNCHANGED <<anyFailed, tripped>>
      <3>1. CASE t \in Gated
        BY <1>0, <1>3, <2>1, <3>1, TaskMoves DEF Return, Holding
      <3>2. CASE t \notin Gated
        BY <1>0, <1>3, <2>1, <3>2, TaskMoves DEF Return, Holding
      <3> QED
        BY <3>1, <3>2
    <2>2. CASE Fail(t) /\ tripped' \in BOOLEAN
      BY <1>0, <1>3, <2>2, TaskMoves DEF Return, Fail, Holding
    <2> QED
      BY <1>0, <1>3, <2>1, <2>2 DEF Return
  <1>4. CASE GateResult(t)
    <2>1. CASE st' = [st EXCEPT ![t] = "completed"] /\ UNCHANGED <<attempt, anyFailed>>
      BY <1>0, <1>4, <2>1, TaskMoves DEF GateResult, Holding
    <2>2. CASE Fail(t) /\ UNCHANGED attempt
      BY <1>0, <1>4, <2>2, TaskMoves DEF GateResult, Fail, Holding
    <2>3. CASE attempt' = [attempt EXCEPT ![t] = @ + 1] /\ TryCall(t)
      <3>1. attempt' \in [Tasks -> Nat]
        BY <1>0, <2>3
      <3>2. CASE tripped
        BY <1>0, <1>4, <2>3, <3>1, <3>2, TaskMoves DEF GateResult, TryCall, Fail, Holding
      <3>3. CASE ~tripped
        BY <1>0, <1>4, <2>3, <3>1, <3>3, TaskMoves DEF GateResult, TryCall, Holding
      <3> QED
        BY <3>2, <3>3
    <2> QED
      BY <1>4, <2>1, <2>2, <2>3 DEF GateResult
  <1> QED
    BY <1>1, <1>2, <1>3, <1>4 DEF TaskStep

-----------------------------------------------------------------------------
LEMMA ConcludeInv == DagInv /\ Conclude => DagInv'
  <1> SUFFICES ASSUME DagInv, Conclude PROVE DagInv'
    OBVIOUS
  <1> USE DEF DagInv, Conclude
  <1> DEFINE v == PostDispatch(ret \in {"invalid", "stuck"}, tripped, ctx,
                               failFast, anyFailed)
  <1>1. v \in TerminalStatuses \cup {"proceed"} /\ v # "completed"
    BY DEF PostDispatch, TerminalStatuses
  <1>2. sess' \in SessionStatuses
    BY <1>1 DEF SessionStatuses, TerminalStatuses, FinalStatus
  <1>3. TypeOK'
    BY <1>2 DEF TypeOK
  <1>4. sess' = "completed" => ret = "ok" /\ ~anyFailed
    <2>1. sess' = "completed" => v = "proceed" /\ ~anyFailed
      BY <1>1 DEF FinalStatus
    <2>2. v = "proceed" => ret \notin {"invalid", "stuck"}
      BY DEF PostDispatch
    <2>3. v = "proceed" /\ ~anyFailed => ret # "aborted"
      BY DEF SkipHasCause, ReturnSettles, FailureIsFlagged, InState, RetAgrees
    <2> QED
      BY <2>1, <2>2, <2>3 DEF TypeOK, RetAgrees
  <1>5. WaveBarrier' /\ ScanKnows' /\ FailureIsFlagged' /\ RetAgrees'
    BY <1>4 DEF WaveBarrier, ScanKnows, FailureIsFlagged, RetAgrees, InState
  <1>6. DepsCompleted' /\ SkipHasCause' /\ ReturnSettles'
    BY DEF DepsCompleted, DepsMet, SkipHasCause, DepBlocked, ReturnSettles, InState
  <1>7. SlotBound'
    BY SlotsKept DEF InState
  <1> QED
    BY <1>3, <1>5, <1>6, <1>7

(* A step that leaves the plan's dispatch alone: the context ends, or the  *)
(* step stutters.                                                          *)
LEMMA QuietInv ==
    ASSUME DagInv, ctx' \in CtxStates,
           UNCHANGED <<failFast, needs, st, attempt, control, anyFailed, tripped>>
    PROVE  DagInv'
  <1> USE DEF DagInv, control
  <1>1. TypeOK'
    BY DEF TypeOK
  <1>2. WaveBarrier' /\ ScanKnows' /\ FailureIsFlagged' /\ RetAgrees'
    BY DEF WaveBarrier, ScanKnows, FailureIsFlagged, RetAgrees, InState
  <1>3. DepsCompleted' /\ SkipHasCause' /\ ReturnSettles'
    BY DEF DepsCompleted, DepsMet, SkipHasCause, DepBlocked, ReturnSettles, InState
  <1>4. SlotBound'
    BY SlotsKept DEF InState
  <1> QED
    BY <1>1, <1>2, <1>3, <1>4

LEMMA NextInv == DagInv /\ [Next]_vars => DagInv'
  <1> SUFFICES ASSUME DagInv, [Next]_vars PROVE DagInv'
    OBVIOUS
  <1>1. CASE MainStep
    BY <1>1, ValidateInv, ScanTaskInv, ScanEndInv, WaveDoneInv, ConcludeInv
    DEF MainStep
  <1>2. CASE Interrupt
    <2>1. /\ ctx' \in CtxStates
          /\ UNCHANGED <<failFast, needs, st, attempt, control, anyFailed, tripped>>
      BY <1>2 DEF Interrupt, CtxStates
    <2> QED
      BY <2>1, QuietInv
  <1>3. CASE \E t \in Tasks : TaskStep(t)
    BY <1>3, TaskStepInv
  <1>4. CASE UNCHANGED vars
    <2>1. /\ ctx' \in CtxStates
          /\ UNCHANGED <<failFast, needs, st, attempt, control, anyFailed, tripped>>
      BY <1>4 DEF vars, control, DagInv, TypeOK
    <2> QED
      BY <2>1, QuietInv
  <1> QED
    BY <1>1, <1>2, <1>3, <1>4 DEF Next

LEMMA DagInvariant == Spec => []DagInv
  <1> QED
    BY InitInv, NextInv, PTL DEF Spec

-----------------------------------------------------------------------------
(* The variables keep their types (the rows of subtasks, the scan's state  *)
(* and the session status written by runDAG and Run).                      *)
THEOREM DagTyped == Spec => []TypeOK
  <1>1. DagInv => TypeOK
    BY DEF DagInv
  <1> QED
    BY <1>1, DagInvariant, PTL

(* For every plan: a task is dispatched only after everything it needs     *)
(* has completed (runDAG's wave selection).                                *)
THEOREM DagDepsCompleted == Spec => []DepsCompleted
  <1>1. DagInv => DepsCompleted
    BY DEF DagInv
  <1> QED
    BY <1>1, DagInvariant, PTL

(* For every MaxParallel: the semaphore of runDAG bounds the tasks that    *)
(* call a provider or run a gate.                                          *)
THEOREM DagSlotBound == Spec => []SlotBound
  <1>1. DagInv => SlotBound
    BY DEF DagInv
  <1> QED
    BY <1>1, DagInvariant, PTL

(* A skipped task has a failed or skipped dependency, or fail-fast gave    *)
(* up after a failure (runDAG's two cascades).                             *)
THEOREM DagSkipHasCause == Spec => []SkipHasCause
  <1>1. DagInv => SkipHasCause
    BY DEF DagInv
  <1> QED
    BY <1>1, DagInvariant, PTL

(* runDAG that returns without an error leaves no task unsettled.          *)
THEOREM DagReturnSettles == Spec => []ReturnSettles
  <1>1. DagInv => ReturnSettles
    BY DEF DagInv
  <1> QED
    BY <1>1, DagInvariant, PTL

(* A session ends as completed only when every task completed: the status  *)
(* Run writes after a DAG hides no failure and no skip.                    *)
THEOREM DagCompletedIsClean == Spec => []CompletedIsClean
  <1>1. DagInv => CompletedIsClean
    <2> SUFFICES ASSUME DagInv, sess = "completed" PROVE InState({"completed"}) = Tasks
      BY DEF CompletedIsClean
    <2>1. ret = "ok" /\ ~anyFailed
      BY DEF DagInv, RetAgrees
    <2>2. InState({"failed"}) = {} /\ InState({"skipped"}) = {}
      BY <2>1 DEF DagInv, FailureIsFlagged
    <2>3. InState(TaskStates \ Settled) = {}
      BY <2>1 DEF DagInv, ReturnSettles
    <2>4. st \in [Tasks -> TaskStates]
      BY DEF DagInv, TypeOK
    <2> QED
      BY <2>2, <2>3, <2>4 DEF InState, Settled, TaskStates
  <1> QED
    BY <1>1, DagInvariant, PTL

(* What runDAG returns and the session is closed with is true of its rows. *)
THEOREM DagReturnIsTrue == Spec => []ReturnIsTrue
  <1>1. ReturnSettles /\ CompletedIsClean => ReturnIsTrue
    BY DEF ReturnIsTrue
  <1> QED
    BY <1>1, DagReturnSettles, DagCompletedIsClean, PTL

-----------------------------------------------------------------------------
(* What the scan leaves behind, and why it can only run dry below a        *)
(* failure: the plan is acyclic once it is past validateDAG; a task the    *)
(* scan passed over still waits for something; a scan that met an          *)
(* unsettled task has left it unsettled, picked or skipped.                *)
ScanLeaves ==
    /\ main = "validate" => allDone
    /\ main \in {"scan", "wait"} => Acyclic
    /\ main = "scan" =>
          \A t \in Tasks : t < cursor /\ st[t] = "todo" => ~DepsMet(t)
    /\ main = "scan" /\ ~allDone => InState({"todo", "wave", "skipped"}) # {}

(* Among tasks of an acyclic plan one needs none of the others.            *)
LEMMA LowestTask ==
    ASSUME NEW rank \in [Tasks -> Tasks], NEW S \in SUBSET Tasks, S # {}
    PROVE  \E t \in S : \A d \in S : ~(rank[d] < rank[t])
  <1> DEFINE Ranks == {rank[t] : t \in S}
             Below == OpToRel(<, Nat)
  <1>1. \A t \in S : rank[t] \in Nat
    BY DEF Tasks
  <1>2. Ranks \subseteq Nat
    BY <1>1
  <1>3. Ranks # {}
    BY Zenon
  <1>4. \A m, n \in Nat : m < n => <<m, n>> \in Below
    BY DEF OpToRel
  <1>5. IsWellFoundedOn(Below, Nat)
    BY NatLessThanWellFounded, Zenon DEF OpToRel
  <1> HIDE DEF Below
  <1>6. \E n \in Ranks : \A m \in Ranks : ~(<<m, n>> \in Below)
    <2> HIDE DEF Ranks
    <2> QED
      BY <1>2, <1>3, <1>5, WFMin
  <1>7. PICK t \in S : \A d \in S : ~(<<rank[d], rank[t]>> \in Below)
    BY <1>6, Zenon
  <1>8. \A d \in S : ~(rank[d] < rank[t])
    BY <1>1, <1>4, <1>7
  <1> QED
    BY <1>8

(* The scan found nothing to run in an acyclic plan: something failed.     *)
LEMMA DryScanBelowFailure ==
    ASSUME DagInv, ScanLeaves, main = "scan", cursor = N + 1, ~allDone,
           InState({"wave"}) = {}
    PROVE  /\ InState({"failed"}) # {}
           /\ \A t \in InState({"todo"}) : ~DepsMet(t)
  <1>1. \A t \in Tasks : st[t] = "todo" => ~DepsMet(t)
    BY DagAssumption DEF ScanLeaves, Tasks
  <1>2. CASE InState({"skipped"}) # {}
    BY <1>1, <1>2 DEF DagInv, FailureIsFlagged, InState
  <1>3. CASE InState({"skipped"}) = {}
    <2>1. InState({"todo"}) # {}
      BY <1>3 DEF ScanLeaves, InState
    <2>2. PICK rank \in [Tasks -> Tasks] :
             \A t \in Tasks : \A d \in needs[t] : rank[d] < rank[t]
      BY DEF ScanLeaves, Acyclic
    <2>3. PICK t \in InState({"todo"}) :
             \A d \in InState({"todo"}) : ~(rank[d] < rank[t])
      BY <2>1, LowestTask DEF InState
    <2>4. t \in Tasks /\ ~DepsMet(t)
      BY <1>1 DEF InState
    <2>5. PICK d \in needs[t] : st[d] # "completed"
      BY <2>4 DEF DepsMet
    <2>6. d \in Tasks /\ st[d] # "todo"
      BY <2>2, <2>3, <2>4, <2>5 DEF DagInv, TypeOK, InState
    <2>7. st[d] \in TaskStates /\ st[d] \notin Holding \cup {"queued", "wave", "skipped"}
      BY <1>3, <2>6 DEF DagInv, TypeOK, WaveBarrier, InState
    <2>8. st[d] = "failed"
      BY <2>5, <2>6, <2>7 DEF TaskStates, Settled
    <2> QED
      BY <1>1, <2>6, <2>8 DEF InState
  <1> QED
    BY <1>2, <1>3

LEMMA ScanLeavesInit == Init => ScanLeaves /\ StuckBelowFailure
  BY DEF Init, ScanLeaves, StuckBelowFailure

LEMMA ScanLeavesStep ==
    ASSUME DagInv, ScanLeaves, StuckBelowFailure, [Next]_vars
    PROVE  ScanLeaves' /\ StuckBelowFailure'
  <1> USE DEF ScanLeaves, StuckBelowFailure
  <1>0. /\ st \in [Tasks -> TaskStates]
        /\ ret # "none" => main \in {"returned", "done"}
    BY DEF DagInv, TypeOK, RetAgrees
  <1>1. CASE Validate
    <2>1. /\ main' = "scan" => Acyclic /\ cursor = 1 /\ allDone
          /\ main' \in {"scan", "returned"}
          /\ ret' # "stuck"
          /\ UNCHANGED <<needs, cursor, allDone>>
      BY <1>0, <1>1 DEF Validate, DagInv, WaveBarrier, RetAgrees
    <2>2. Acyclic => Acyclic'
      BY <2>1 DEF Acyclic
    <2>3. StuckBelowFailure'
      BY <2>1
    <2>4. main' = "scan" => \A t \in Tasks : ~(t < cursor')
      BY <2>1, DagAssumption DEF Tasks
    <2> QED
      BY <2>1, <2>2, <2>3, <2>4
  <1>2. CASE ScanTask
    <2>1. cursor \in Tasks /\ needs' = needs /\ ret' = "none" /\ main' = "scan" /\ main = "scan"
      BY <1>0, <1>2, DagAssumption DEF ScanTask, DagInv, TypeOK, Tasks, RetAgrees
    <2>2. \A d \in Tasks : st'[d] = "completed" <=> st[d] = "completed"
      BY <1>0, <1>2, <2>1 DEF ScanTask
    <2>3. \A t \in Tasks : DepsMet(t)' <=> DepsMet(t)
      BY <2>1, <2>2 DEF DepsMet, DagInv, TypeOK
    <2>4. ASSUME NEW t \in Tasks, t < cursor', st'[t] = "todo" PROVE ~DepsMet(t)
      <3>1. t = cursor \/ t < cursor
        BY <1>2, <2>1, <2>4 DEF ScanTask, Tasks
      <3>2. CASE t = cursor
        BY <1>0, <1>2, <2>1, <2>4, <3>2 DEF ScanTask, Settled
      <3>3. CASE t < cursor
        <4>1. st[t] = "todo"
          BY <1>0, <1>2, <2>1, <2>4, <3>3 DEF ScanTask, Tasks
        <4> QED
          BY <2>1, <3>3, <4>1
      <3> QED
        BY <3>1, <3>2, <3>3
    <2>5. ~allDone' => InState({"todo", "wave", "skipped"})' # {}
      BY <1>0, <1>2, <2>1 DEF ScanTask, InState
    <2>6. Acyclic'
      BY <2>1 DEF Acyclic
    <2> QED
      BY <2>1, <2>3, <2>4, <2>5, <2>6
  <1>3. CASE ScanEnd
    <2>1. CASE ret' = "stuck"
      <3>1. /\ InState({"failed"}) # {} /\ \A t \in InState({"todo"}) : ~DepsMet(t)
            /\ st' = st /\ needs' = needs /\ main' = "returned"
        BY <1>0, <1>3, <2>1, DryScanBelowFailure DEF ScanEnd
      <3> QED
        BY <3>1 DEF InState, DepsMet
    <2>2. CASE ret' # "stuck"
      BY <1>3, <2>2 DEF ScanEnd, Acyclic
    <2> QED
      BY <2>1, <2>2
  <1>4. CASE WaveDone
    BY <1>0, <1>4 DEF WaveDone, Acyclic, Tasks
  <1>5. CASE Conclude
    BY <1>5 DEF Conclude, InState, DepsMet
  <1>6. CASE \E t \in Tasks : TaskStep(t)
    <2>1. /\ main = "wait" /\ ret = "none"
          /\ UNCHANGED <<needs, main, ret>>
      BY <1>0, <1>6
      DEF TaskStep, Acquire, CancelledBeforeSlot, Return, GateResult, control,
          DagInv, WaveBarrier, RetAgrees, InState, Holding
    <2> QED
      BY <2>1 DEF Acyclic
  <1>7. CASE Interrupt \/ UNCHANGED vars
    BY <1>7 DEF Interrupt, control, vars, Acyclic, DepsMet, InState
  <1> QED
    BY <1>1, <1>2, <1>3, <1>4, <1>5, <1>6, <1>7 DEF Next, MainStep

(* For every plan: runDAG's stuck error means that something failed and    *)
(* that nothing could have run, never a cycle that validateDAG missed.     *)
THEOREM DagStuckBelowFailure == Spec => []StuckBelowFailure
  <1>1. Init => ScanLeaves /\ StuckBelowFailure
    BY ScanLeavesInit
  <1>2. DagInv /\ ScanLeaves /\ StuckBelowFailure /\ [Next]_vars
           => ScanLeaves' /\ StuckBelowFailure'
    BY ScanLeavesStep
  <1> QED
    BY <1>1, <1>2, DagInvariant, PTL DEF Spec

-----------------------------------------------------------------------------
(* The rows of the board, as the mapping of DagRun defines them.           *)
Rows == [t \in Tasks |-> rowOf(st[t])]

LEMMA RowsOfState ==
    ASSUME TypeOK, NEW t \in Tasks
    PROVE  /\ Rows[t] = "running" <=> st[t] \in Holding
           /\ Rows[t] = "pending" <=> st[t] \in {"todo", "wave", "queued"}
           /\ \A s \in Settled : Rows[t] = s <=> st[t] = s
  BY DEF TypeOK, Rows, rowOf, TaskStates, Holding, Settled

(* The cardinality the instance uses is the one of FiniteSets.             *)
LEMMA SameCardinality ==
    ASSUME NEW S
    PROVE  Board!Cardinality(S) = Cardinality(S)
  BY Zenon DEF Board!Cardinality, Cardinality

LEMMA RunningIsHolding ==
    ASSUME TypeOK
    PROVE  Board!InState({"running"}) = InState(Holding)
  BY RowsOfState DEF Board!InState, InState, Rows

LEMMA ReadyIsMet ==
    ASSUME TypeOK, NEW t \in Tasks
    PROVE  Board!Ready(t) <=> DepsMet(t)
  BY RowsOfState DEF Board!Ready, DepsMet, Rows, TypeOK, Settled

(* One row of the board moves as one task of the plan does.                *)
LEMMA RowMoves ==
    ASSUME TypeOK, NEW t \in Tasks, NEW s, st' = [st EXCEPT ![t] = s]
    PROVE  Rows' = [Rows EXCEPT ![t] = rowOf(s)]
  BY DEF TypeOK, Rows

LEMMA RowsSame ==
    ASSUME TypeOK, needs' = needs, Rows' = Rows
    PROVE  UNCHANGED Board!boardVars
  BY DEF Board!boardVars, Rows

LEMMA RowSteps ==
    ASSUME TypeOK, NEW t \in Tasks, NEW s, st' = [st EXCEPT ![t] = s], needs' = needs
    PROVE  /\ rowOf(s) = Rows[t] => UNCHANGED Board!boardVars
           /\ Board!Start(t) \/ Board!Finish(t) \/ Board!Abandon(t) \/ Board!Skip(t)
                => Board!BoardNext
           /\ \A from : Board!Move(t, from, rowOf(s)) <=> Rows[t] = from
  <1>1. Rows' = [Rows EXCEPT ![t] = rowOf(s)]
    BY RowMoves
  <1>2. rowOf(s) = Rows[t] => Rows' = Rows
    BY <1>1 DEF Rows
  <1>3. \A from : Board!Move(t, from, rowOf(s)) <=> Rows[t] = from
    BY <1>1 DEF Board!Move, Rows
  <1> QED
    BY <1>2, <1>3, RowsSame DEF Board!BoardNext

LEMMA TaskStepRefines ==
    ASSUME DagInv, NEW t \in Tasks, TaskStep(t)
    PROVE  [Board!BoardNext]_Board!boardVars
  <1>0. TypeOK /\ needs' = needs /\ UNCHANGED control
    BY DEF DagInv, TaskStep, Acquire, CancelledBeforeSlot, Return, GateResult
  <1>1. /\ rowOf("failed") = "failed" /\ rowOf("completed") = "completed"
        /\ rowOf("call") = "running" /\ rowOf("gate") = "running"
    BY DEF rowOf, Holding
  <1>2. st[t] = "queued" => Board!Ready(t) /\ Rows[t] = "pending"
    BY <1>0, ReadyIsMet, RowsOfState DEF DagInv, DepsCompleted, InState
  <1>3. st[t] \in Holding => Rows[t] = "running"
    BY <1>0, RowsOfState
  <1>4. CASE st[t] = "queued" /\ st' = [st EXCEPT ![t] = "failed"]
    <2>1. Board!Abandon(t)
      BY <1>0, <1>1, <1>2, <1>4, RowSteps DEF Board!Abandon
    <2> QED
      BY <1>0, <1>4, <2>1, RowSteps
  <1>5. CASE /\ st[t] = "queued" /\ st' = [st EXCEPT ![t] = "call"]
             /\ Cardinality(InState(Holding)) < MaxParallel
    <2>2. Board!Move(t, "pending", "running")
      BY <1>0, <1>1, <1>2, <1>5, RowSteps
    <2>3. Board!Cardinality(Board!InState({"running"})) < MaxParallel
      BY <1>0, <1>5, RunningIsHolding, SameCardinality
    <2>1. Board!Start(t)
      BY <1>2, <1>5, <2>2, <2>3 DEF Board!Start
    <2> QED
      BY <1>0, <1>5, <2>1, RowSteps
  <1>6. ASSUME NEW s \in {"completed", "failed"},
               st[t] \in Holding, st' = [st EXCEPT ![t] = s]
        PROVE  [Board!BoardNext]_Board!boardVars
    <2>1. Board!Finish(t)
      BY <1>0, <1>1, <1>3, <1>6, RowSteps DEF Board!Finish
    <2> QED
      BY <1>0, <1>6, <2>1, RowSteps
  <1>7. ASSUME NEW s \in Holding, st[t] \in Holding, st' = [st EXCEPT ![t] = s]
        PROVE  [Board!BoardNext]_Board!boardVars
    BY <1>0, <1>1, <1>3, <1>7, RowSteps DEF Holding
  <1>8. CASE Acquire(t)
    BY <1>4, <1>5, <1>8 DEF Acquire, TryCall, Fail
  <1>9. CASE CancelledBeforeSlot(t)
    BY <1>4, <1>9 DEF CancelledBeforeSlot, Fail
  <1>10. CASE Return(t)
    <2>1. st[t] \in Holding
      BY <1>10 DEF Return, Holding
    <2>2. \/ st' = [st EXCEPT ![t] = "gate"] \/ st' = [st EXCEPT ![t] = "completed"]
          \/ st' = [st EXCEPT ![t] = "failed"]
      BY <1>10 DEF Return, Fail
    <2> QED
      BY <1>6, <1>7, <2>1, <2>2 DEF Holding
  <1>11. CASE GateResult(t)
    <2>1. st[t] \in Holding
      BY <1>11 DEF GateResult, Holding
    <2>2. \/ st' = [st EXCEPT ![t] = "call"] \/ st' = [st EXCEPT ![t] = "completed"]
          \/ st' = [st EXCEPT ![t] = "failed"]
      BY <1>11 DEF GateResult, TryCall, Fail
    <2> QED
      BY <1>6, <1>7, <2>1, <2>2 DEF Holding
  <1> QED
    BY <1>8, <1>9, <1>10, <1>11 DEF TaskStep

LEMMA MainStepRefines ==
    ASSUME DagInv, MainStep
    PROVE  [Board!BoardNext]_Board!boardVars
  <1>0. TypeOK /\ needs' = needs
    BY DEF DagInv, MainStep, Validate, ScanTask, ScanEnd, WaveDone, Conclude
  <1>1. CASE Validate \/ Conclude
    <2>1. Rows' = Rows
      BY <1>1 DEF Validate, Conclude, Rows
    <2> QED
      BY <1>0, <2>1, RowsSame
  <1>2. CASE ScanTask
    <2>0. cursor \in Tasks
      BY <1>0, <1>2, DagAssumption DEF ScanTask, TypeOK, Tasks
    <2>1. CASE st' = st
      BY <1>0, <2>1, RowsSame DEF Rows
    <2>2. CASE st' = [st EXCEPT ![cursor] = "skipped"] /\ st[cursor] = "todo" /\ DepBlocked(cursor)
      <3>1. Rows[cursor] = "pending" /\ rowOf("skipped") = "skipped"
        BY <1>0, <2>0, <2>2, RowsOfState DEF rowOf, Holding
      <3>2. Board!Blocked(cursor)
        BY <1>0, <2>0, <2>2, RowsOfState DEF Board!Blocked, DepBlocked, Rows, TypeOK, Settled
      <3>3. Board!Skip(cursor)
        BY <1>0, <2>0, <2>2, <3>1, <3>2, RowSteps DEF Board!Skip
      <3> QED
        BY <1>0, <2>0, <2>2, <3>3, RowSteps
    <2>3. CASE /\ st[cursor] = "todo"
               /\ \/ st' = [st EXCEPT ![cursor] = "wave"]
                  \/ st' = [st EXCEPT ![cursor] = "todo"]
      <3>1. Rows[cursor] = "pending" /\ rowOf("wave") = "pending" /\ rowOf("todo") = "pending"
        BY <1>0, <2>0, <2>3, RowsOfState DEF rowOf, Holding
      <3> QED
        BY <1>0, <2>0, <2>3, <3>1, RowSteps
    <2> QED
      BY <1>2, <2>1, <2>2, <2>3 DEF ScanTask
  <1>3. CASE ScanEnd
    <2>1. Rows' = Rows
      BY <1>0, <1>3 DEF ScanEnd, Rows, rowOf, TypeOK
    <2> QED
      BY <1>0, <2>1, RowsSame
  <1>4. CASE WaveDone
    <2>1. CASE st' = st
      BY <1>0, <2>1, RowsSame DEF Rows
    <2>2. CASE /\ anyFailed
               /\ st' = [t \in Tasks |-> IF st[t] = "todo" THEN "skipped" ELSE st[t]]
      <3>1. InState(Holding \cup {"queued", "wave"}) = {}
        BY <1>4 DEF WaveDone, DagInv, WaveBarrier, InState
      <3>2. Board!InState({"running"}) = {}
        BY <1>0, <3>1, RunningIsHolding DEF InState
      <3>3. InState({"failed"}) # {}
        BY <1>4, <2>2 DEF WaveDone, DagInv, FailureIsFlagged
      <3>4. Board!InState({"failed"}) # {}
        BY <1>0, <3>3, RowsOfState DEF Board!InState, InState, Rows, Settled
      <3>5. \A t \in Tasks : rowOf(st'[t]) = IF Rows[t] = "pending" THEN "skipped" ELSE Rows[t]
        <4> SUFFICES ASSUME NEW t \in Tasks
                     PROVE  rowOf(st'[t]) = IF Rows[t] = "pending" THEN "skipped" ELSE Rows[t]
          OBVIOUS
        <4>1. st[t] = "todo" => Rows[t] = "pending" /\ st'[t] = "skipped"
          BY <1>0, <2>2, RowsOfState
        <4>2. st[t] # "todo" => Rows[t] # "pending" /\ st'[t] = st[t]
          BY <1>0, <2>2, <3>1, RowsOfState DEF InState
        <4>3. rowOf("skipped") = "skipped" /\ Rows[t] = rowOf(st[t])
          BY DEF rowOf, Holding, Rows
        <4> QED
          BY <4>1, <4>2, <4>3
      <3>6. Board!DropRest
        BY <3>2, <3>4, <3>5 DEF Board!DropRest, Rows
      <3> QED
        BY <1>0, <3>6 DEF Board!BoardNext
    <2> QED
      BY <1>4, <2>1, <2>2 DEF WaveDone
  <1> QED
    BY <1>1, <1>2, <1>3, <1>4 DEF MainStep

(* The DAG strategy implements the task board for every plan: whatever the *)
(* waves, slots, gates and cancellations do, the rows only move as         *)
(* TaskBoard allows.                                                       *)
THEOREM DagImplementsBoard == Spec => ImplementsBoard
  <1>1. Init => Board!BoardInit
    <2> SUFFICES ASSUME Init PROVE Board!BoardInit
      OBVIOUS
    <2>1. \A t \in Tasks : rowOf(st[t]) = "pending"
      BY DEF Init, rowOf
    <2> QED
      BY <2>1 DEF Init, Board!BoardInit
  <1>2. DagInv /\ [Next]_vars => [Board!BoardNext]_Board!boardVars
    <2> SUFFICES ASSUME DagInv, [Next]_vars PROVE [Board!BoardNext]_Board!boardVars
      OBVIOUS
    <2>1. CASE MainStep
      BY <2>1, MainStepRefines
    <2>2. CASE \E t \in Tasks : TaskStep(t)
      BY <2>2, TaskStepRefines
    <2>3. CASE Interrupt \/ UNCHANGED vars
      <3>1. UNCHANGED <<failFast, needs, st>>
        BY <2>3 DEF Interrupt, vars
      <3> QED
        BY <3>1 DEF Board!boardVars
    <2> QED
      BY <2>1, <2>2, <2>3 DEF Next
  <1> QED
    BY <1>1, <1>2, DagInvariant, PTL DEF Spec, ImplementsBoard, Board!BoardSpec

-----------------------------------------------------------------------------
(* validateDAG.  A function defined by recursion exists if each value      *)
(* depends only on values at places of a lower rank, and ranks are bounded.*)
LEMMA LeastNat ==
    ASSUME NEW T \in SUBSET Nat, T # {}
    PROVE  \E n \in T : \A m \in T : n <= m
<1>1. PICK n \in T : \A m \in T : ~(<<m, n>> \in OpToRel(<, Nat))
  BY NatLessThanWellFounded, WFMin
<1>2. ASSUME NEW m \in T PROVE n <= m
  <2>1. ~(m < n) /\ n \in Nat /\ m \in Nat
    BY <1>1 DEF OpToRel
  <2>. QED
    BY <2>1
<1>. QED
  BY <1>2, Zenon

WellFounded(S, V, B, rank, f0, F) ==
    /\ B \in Nat /\ rank \in [S -> 0..B] /\ f0 \in [S -> V]
    /\ F \in [[S -> V] -> [S -> V]]
    /\ \A f, g \in [S -> V], s \in S :
         (\A t \in S : rank[t] < rank[s] => f[t] = g[t]) => F[f][s] = F[g][s]
HasFixpoint(S, V, F) == \E f \in [S -> V] : F[f] = f

LEMMA RecursionExists ==
    ASSUME NEW S, NEW V, NEW B, NEW rank, NEW f0, NEW F, WellFounded(S, V, B, rank, f0, F)
    PROVE  HasFixpoint(S, V, F)
<1>. USE DEF WellFounded, HasFixpoint
<1>. DEFINE Upto(n) == \E f \in [S -> V] : \A s \in S : rank[s] < n => F[f][s] = f[s]
<1>1. Upto(0)
  OBVIOUS
<1>2. ASSUME NEW n \in Nat, Upto(n) PROVE Upto(n + 1)
  <2>1. PICK f \in [S -> V] : \A s \in S : rank[s] < n => F[f][s] = f[s]
    BY <1>2
  <2>2. F[f] \in [S -> V]
    OBVIOUS
  <2>3. ASSUME NEW s \in S, rank[s] < n + 1 PROVE F[F[f]][s] = F[f][s]
    <3>1. \A t \in S : rank[t] < rank[s] => rank[t] < n
      BY <2>3
    <3>2. \A t \in S : rank[t] < rank[s] => F[f][t] = f[t]
      BY <2>1, <3>1, Zenon
    <3>. QED
      BY <2>2, <3>2, Zenon
  <2>. QED
    BY <2>2, <2>3
<1>3. Upto(B + 1)
  <2>. DEFINE T == {n \in Nat : ~Upto(n)}
  <2>1. SUFFICES ASSUME ~Upto(B + 1) PROVE FALSE
    OBVIOUS
  <2>. HIDE DEF Upto
  <2>2. B + 1 \in T
    BY <2>1
  <2>3. PICK n \in T : \A m \in T : n <= m
    BY <2>2, LeastNat
  <2>4. n # 0
    BY <1>1, <2>3
  <2>5. n - 1 \in Nat /\ n - 1 \notin T
    BY <2>3, <2>4
  <2>6. Upto((n - 1) + 1)
    BY <1>2, <2>5
  <2>7. (n - 1) + 1 = n
    BY <2>3
  <2>. QED
    BY <2>3, <2>6, <2>7
<1>4. PICK f \in [S -> V] : \A s \in S : rank[s] < B + 1 => F[f][s] = f[s]
  BY <1>3
<1>5. \A s \in S : rank[s] < B + 1
  OBVIOUS
<1>6. F[f] \in [S -> V]
  OBVIOUS
<1>. QED
  BY <1>4, <1>5, <1>6

Found(ids) == [cycle : BOOLEAN, black : SUBSET ids]
Picked(at) == CHOOSE id \in at.todo : TRUE
Below(f, need, at) == f[At(need[Picked(at)], at.grey \cup {Picked(at)}, at.black)]
NextOf(f, at, black) == f[At(at.todo \ {Picked(at)}, at.grey, black)]
Visit(f, need, at) ==
    IF at.todo = {} THEN [cycle |-> FALSE, black |-> at.black]
    ELSE IF Picked(at) \in at.grey THEN [cycle |-> TRUE, black |-> at.black]
    ELSE IF Picked(at) \in at.black THEN NextOf(f, at, at.black)
    ELSE IF Below(f, need, at).cycle THEN Below(f, need, at)
    ELSE NextOf(f, at, Below(f, need, at).black \cup {Picked(at)})

(* The longer the path, the lower the place; on a path, the fewer are left. *)
RankOf(ids, at) ==
    (Cardinality(ids) - Cardinality(at.grey)) * (Cardinality(ids) + 1) + Cardinality(at.todo)

LEMMA PlaceParts ==
    ASSUME NEW ids, NEW at \in Places(ids)
    PROVE  /\ at.todo \in SUBSET ids /\ at.grey \in SUBSET ids /\ at.black \in SUBSET ids
           /\ at.todo # {} => Picked(at) \in at.todo /\ Picked(at) \in ids
<1>1. at.todo \in SUBSET ids /\ at.grey \in SUBSET ids /\ at.black \in SUBSET ids
  BY DEF Places
<1>2. ASSUME at.todo # {} PROVE Picked(at) \in at.todo
  BY <1>2, Zenon DEF Picked
<1>. QED
  BY <1>1, <1>2

LEMMA AtPlace ==
    ASSUME NEW ids, NEW todo \in SUBSET ids, NEW grey \in SUBSET ids, NEW black \in SUBSET ids
    PROVE  /\ At(todo, grey, black) \in Places(ids)
           /\ At(todo, grey, black).todo = todo /\ At(todo, grey, black).grey = grey
           /\ At(todo, grey, black).black = black
  BY DEF At, Places

LEMMA RankIsNat ==
    ASSUME NEW ids, IsFiniteSet(ids), NEW at \in Places(ids)
    PROVE  RankOf(ids, at) \in 0..(Cardinality(ids) + 1) * (Cardinality(ids) + 1)
<1>1. at.todo \in SUBSET ids /\ at.grey \in SUBSET ids
  BY PlaceParts
<1>. DEFINE n == Cardinality(ids)
            g == Cardinality(at.grey)
            t == Cardinality(at.todo)
<1>2. n \in Nat /\ g \in Nat /\ t \in Nat /\ g <= n /\ t <= n
  BY <1>1, FS_Subset, FS_CardinalityType
<1>3. (n - g) * (n + 1) + t \in 0..(n + 1) * (n + 1)
  <2>. HIDE DEF n, g, t
  <2>1. PICK d \in Nat : d = n - g /\ d <= n
    BY <1>2
  <2>2. d * (n + 1) <= n * (n + 1) /\ d * (n + 1) \in Nat
    BY <1>2, <2>1
  <2>3. n * (n + 1) + n <= (n + 1) * (n + 1)
    BY <1>2
  <2>4. (n + 1) * (n + 1) \in Nat /\ n * (n + 1) \in Nat
    BY <1>2
  <2>. QED
    BY <1>2, <2>1, <2>2, <2>3, <2>4
<1>. QED
  BY <1>3 DEF RankOf

LEMMA LowestPlace ==
    ASSUME NEW ids, IsFiniteSet(ids), NEW Wrong \in SUBSET Places(ids), Wrong # {}
    PROVE  \E at \in Wrong : \A lower \in Places(ids) : RankOf(ids, lower) < RankOf(ids, at) => lower \notin Wrong
<1>. DEFINE T == {RankOf(ids, at) : at \in Wrong}
<1>1. \A at \in Places(ids) : RankOf(ids, at) \in Nat
  <2>. TAKE at \in Places(ids)
  <2>1. (Cardinality(ids) + 1) * (Cardinality(ids) + 1) \in Nat
    BY FS_CardinalityType
  <2>. QED
    BY <2>1, RankIsNat
<1>2. T \in SUBSET Nat /\ T # {}
  BY <1>1
<1>3. PICK k \in T : \A m \in T : k <= m
  <2>. HIDE DEF T
  <2>. QED
    BY <1>2, LeastNat, Zenon
<1>4. PICK at \in Wrong : k = RankOf(ids, at)
  BY <1>3
<1>5. ASSUME NEW lower \in Wrong, RankOf(ids, lower) < RankOf(ids, at) PROVE FALSE
  <2>1. RankOf(ids, lower) \in T /\ RankOf(ids, lower) \in Nat /\ RankOf(ids, at) \in Nat
    BY <1>1
  <2>2. k <= RankOf(ids, lower)
    BY <1>3, <2>1, Zenon
  <2>. QED
    BY <1>4, <1>5, <2>1, <2>2
<1>. QED
  BY <1>5, Zenon

LEMMA RankFalls ==
    ASSUME NEW ids, IsFiniteSet(ids), NEW need \in [ids -> SUBSET ids],
           NEW at \in Places(ids), at.todo # {}
    PROVE  /\ Picked(at) \notin at.grey =>
                /\ At(need[Picked(at)], at.grey \cup {Picked(at)}, at.black) \in Places(ids)
                /\ RankOf(ids, At(need[Picked(at)], at.grey \cup {Picked(at)}, at.black)) < RankOf(ids, at)
           /\ \A black \in SUBSET ids :
                /\ At(at.todo \ {Picked(at)}, at.grey, black) \in Places(ids)
                /\ RankOf(ids, At(at.todo \ {Picked(at)}, at.grey, black)) < RankOf(ids, at)
<1>. DEFINE id == Picked(at)
            n == Cardinality(ids)
            g == Cardinality(at.grey)
            t == Cardinality(at.todo)
<1>1. /\ at.todo \in SUBSET ids /\ at.grey \in SUBSET ids /\ at.black \in SUBSET ids
      /\ id \in at.todo /\ id \in ids
  BY PlaceParts
<1>. HIDE DEF id
<1>2. n \in Nat /\ g \in Nat /\ t \in Nat /\ g <= n /\ t <= n /\ IsFiniteSet(at.grey) /\ IsFiniteSet(at.todo)
  BY <1>1, FS_Subset, FS_CardinalityType
<1>3. ASSUME id \notin at.grey
      PROVE  /\ At(need[id], at.grey \cup {id}, at.black) \in Places(ids)
             /\ RankOf(ids, At(need[id], at.grey \cup {id}, at.black)) < RankOf(ids, at)
  <2>1. need[id] \in SUBSET ids /\ at.grey \cup {id} \in SUBSET ids
    BY <1>1
  <2>2. Cardinality(at.grey \cup {id}) = g + 1
    BY <1>2, <1>3, FS_AddElement
  <2>. DEFINE u == Cardinality(need[id])
  <2>3. u \in Nat /\ u <= n /\ g + 1 <= n
    <3>1. Cardinality(at.grey \cup {id}) <= n
      BY <2>1, FS_Subset
    <3>. QED
      BY <2>1, <2>2, <3>1, FS_Subset, FS_CardinalityType
  <2>4. (n - (g + 1)) * (n + 1) + u < (n - g) * (n + 1) + t
    <3>. HIDE DEF n, g, t, u
    <3>1. PICK d \in Nat : d = n - (g + 1)
      BY <1>2, <2>3
    <3>2. n - g = d + 1
      BY <1>2, <3>1
    <3>3. (d + 1) * (n + 1) = d * (n + 1) + (n + 1) /\ d * (n + 1) \in Nat
      BY <1>2
    <3>. QED
      BY <1>2, <2>3, <3>1, <3>2, <3>3
  <2>5. /\ At(need[id], at.grey \cup {id}, at.black) \in Places(ids)
        /\ At(need[id], at.grey \cup {id}, at.black).todo = need[id]
        /\ At(need[id], at.grey \cup {id}, at.black).grey = at.grey \cup {id}
    BY <1>1, <2>1, AtPlace
  <2>. QED
    BY <2>2, <2>4, <2>5, Zenon DEF RankOf
<1>4. ASSUME NEW black \in SUBSET ids
      PROVE  /\ At(at.todo \ {id}, at.grey, black) \in Places(ids)
             /\ RankOf(ids, At(at.todo \ {id}, at.grey, black)) < RankOf(ids, at)
  <2>1. at.todo \ {id} \in SUBSET ids
    BY <1>1
  <2>2. Cardinality(at.todo \ {id}) = t - 1
    BY <1>1, <1>2, FS_RemoveElement
  <2>3. (n - g) * (n + 1) + (t - 1) < (n - g) * (n + 1) + t
    <3>. HIDE DEF n, g, t
    <3>1. (n - g) * (n + 1) \in Int
      BY <1>2
    <3>. QED
      BY <1>2, <3>1
  <2>5. /\ At(at.todo \ {id}, at.grey, black) \in Places(ids)
        /\ At(at.todo \ {id}, at.grey, black).todo = at.todo \ {id}
        /\ At(at.todo \ {id}, at.grey, black).grey = at.grey
    BY <1>1, <2>1, AtPlace
  <2>. QED
    BY <2>2, <2>3, <2>5, Zenon DEF RankOf
<1>. QED
  BY <1>3, <1>4 DEF id

LEMMA FoundBlack ==
    ASSUME NEW ids, NEW r \in Found(ids)
    PROVE  r.black \in SUBSET ids /\ r.cycle \in BOOLEAN
  BY DEF Found

LEMMA StillWithin == ASSUME NEW S, NEW T \in SUBSET S, NEW e \in S PROVE T \cup {e} \in SUBSET S
  OBVIOUS

LEMMA VisitTyped ==
    ASSUME NEW ids, NEW need \in [ids -> SUBSET ids], NEW at \in Places(ids),
           IsFiniteSet(ids), NEW f,
           \A lower \in Places(ids) : RankOf(ids, lower) < RankOf(ids, at) => f[lower] \in Found(ids)
    PROVE  Visit(f, need, at) \in Found(ids)
<1>1. /\ at.black \in SUBSET ids
      /\ at.todo # {} => Picked(at) \in ids
      /\ [cycle |-> FALSE, black |-> at.black] \in Found(ids)
      /\ [cycle |-> TRUE, black |-> at.black] \in Found(ids)
  BY PlaceParts DEF Found
<1>2. ASSUME at.todo # {}, Picked(at) \notin at.grey PROVE Below(f, need, at) \in Found(ids)
  BY <1>2, RankFalls DEF Below
<1>3. ASSUME at.todo # {}, NEW black \in SUBSET ids PROVE NextOf(f, at, black) \in Found(ids)
  BY <1>3, RankFalls DEF NextOf
<1>4. ASSUME at.todo # {}, Picked(at) \notin at.grey
      PROVE  Below(f, need, at).black \cup {Picked(at)} \in SUBSET ids
  <2>1. Below(f, need, at).black \in SUBSET ids
    BY <1>2, <1>4, FoundBlack
  <2>2. Picked(at) \in ids
    BY <1>1, <1>4, Zenon
  <2>. QED
    BY <2>1, <2>2, StillWithin, Zenon
<1>5. CASE at.todo = {}
  BY <1>1, <1>5, Zenon DEF Visit
<1>6. CASE at.todo # {} /\ Picked(at) \in at.grey
  BY <1>1, <1>6, Zenon DEF Visit
<1>7. CASE at.todo # {} /\ Picked(at) \notin at.grey
  <2>1. CASE Picked(at) \in at.black
    <3>1. NextOf(f, at, at.black) \in Found(ids)
      BY <1>1, <1>3, <1>7, Zenon
    <3>2. Visit(f, need, at) = NextOf(f, at, at.black)
      BY <1>7, <2>1, Zenon DEF Visit
    <3>. QED
      BY <3>1, <3>2, Zenon
  <2>2. CASE Picked(at) \notin at.black /\ Below(f, need, at).cycle
    BY <1>2, <1>7, <2>2, Zenon DEF Visit
  <2>3. CASE Picked(at) \notin at.black /\ ~Below(f, need, at).cycle
    BY <1>2, <1>3, <1>4, <1>7, <2>3, Zenon DEF Visit
  <2>. QED
    BY <2>1, <2>2, <2>3, Zenon
<1>. QED
  BY <1>5, <1>6, <1>7, Zenon

LEMMA VisitLocal ==
    ASSUME NEW ids, NEW need \in [ids -> SUBSET ids], NEW at \in Places(ids), IsFiniteSet(ids),
           NEW f \in [Places(ids) -> Found(ids)], NEW g \in [Places(ids) -> Found(ids)],
           \A lower \in Places(ids) : RankOf(ids, lower) < RankOf(ids, at) => f[lower] = g[lower]
    PROVE  Visit(f, need, at) = Visit(g, need, at)
<1>1. /\ at.black \in SUBSET ids
      /\ at.todo # {} => Picked(at) \in ids
  BY PlaceParts
<1>2. ASSUME at.todo # {}, Picked(at) \notin at.grey
      PROVE  Below(f, need, at) = Below(g, need, at) /\ Below(f, need, at) \in Found(ids)
  BY <1>2, RankFalls DEF Below
<1>3. ASSUME at.todo # {}, NEW black \in SUBSET ids PROVE NextOf(f, at, black) = NextOf(g, at, black)
  BY <1>3, RankFalls DEF NextOf
<1>4. ASSUME at.todo # {}, Picked(at) \notin at.grey
      PROVE  Below(f, need, at).black \cup {Picked(at)} \in SUBSET ids
  <2>1. Below(f, need, at).black \in SUBSET ids
    BY <1>2, <1>4, FoundBlack
  <2>2. Picked(at) \in ids
    BY <1>1, <1>4, Zenon
  <2>. QED
    BY <2>1, <2>2, StillWithin, Zenon
<1>5. CASE at.todo = {}
  BY <1>5, Zenon DEF Visit
<1>6. CASE at.todo # {} /\ Picked(at) \in at.grey
  BY <1>6, Zenon DEF Visit
<1>7. CASE at.todo # {} /\ Picked(at) \notin at.grey
  <2>1. CASE Picked(at) \in at.black
    <3>1. NextOf(f, at, at.black) = NextOf(g, at, at.black)
      BY <1>1, <1>3, <1>7, Zenon
    <3>2. /\ Visit(f, need, at) = NextOf(f, at, at.black)
          /\ Visit(g, need, at) = NextOf(g, at, at.black)
      BY <1>7, <2>1, Zenon DEF Visit
    <3>. QED
      BY <3>1, <3>2, Zenon
  <2>2. CASE Picked(at) \notin at.black /\ Below(f, need, at).cycle
    BY <1>2, <1>7, <2>2, Zenon DEF Visit
  <2>3. CASE Picked(at) \notin at.black /\ ~Below(f, need, at).cycle
    BY <1>2, <1>3, <1>4, <1>7, <2>3, Zenon DEF Visit
  <2>. QED
    BY <2>1, <2>2, <2>3, Zenon
<1>. QED
  BY <1>5, <1>6, <1>7, Zenon

(* The search is what its equation says.                                   *)
LEMMA DfsIs ==
    ASSUME NEW ids, IsFiniteSet(ids), NEW need \in [ids -> SUBSET ids]
    PROVE  /\ Dfs(ids, need) \in [Places(ids) -> Found(ids)]
           /\ \A at \in Places(ids) : Dfs(ids, need)[at] = Visit(Dfs(ids, need), need, at)
<1>. DEFINE S == Places(ids)
            V == Found(ids)
            n == Cardinality(ids)
            Bound == (n + 1) * (n + 1)
            rank == [at \in S |-> RankOf(ids, at)]
            Eq(f) == f = [at \in S |-> Visit(f, need, at)]
            F == [f \in [S -> V] |-> [at \in S |-> Visit(f, need, at)]]
            f0 == [at \in S |-> [cycle |-> FALSE, black |-> {}]]
<1>1. Bound \in Nat /\ rank \in [S -> 0..Bound]
  BY FS_CardinalityType, RankIsNat
<1>2. f0 \in [S -> V]
  BY DEF Found
<1>3. F \in [[S -> V] -> [S -> V]]
  <2>1. ASSUME NEW f \in [S -> V], NEW at \in S PROVE Visit(f, need, at) \in V
    BY VisitTyped
  <2>. QED
    BY <2>1
<1>4. ASSUME NEW f \in [S -> V], NEW g \in [S -> V], NEW at \in S,
             \A lower \in S : rank[lower] < rank[at] => f[lower] = g[lower]
      PROVE  F[f][at] = F[g][at]
  <2>1. Visit(f, need, at) = Visit(g, need, at)
    BY <1>4, VisitLocal
  <2>. QED
    BY <2>1
<1>5. PICK d \in [S -> V] : F[d] = d
  <2>. HIDE DEF S, V, Bound, rank, F, f0
  <2>1. WellFounded(S, V, Bound, rank, f0, F)
    BY <1>1, <1>2, <1>3, <1>4 DEF WellFounded
  <2>2. HasFixpoint(S, V, F)
    BY <2>1, RecursionExists, Zenon
  <2>. QED
    BY <2>2, Zenon DEF HasFixpoint
<1>6. Eq(d)
  BY <1>5
<1>7. Dfs(ids, need) = CHOOSE f : Eq(f)
  BY Zenon DEF Dfs, Visit, Below, NextOf, Picked
<1>8. Eq(Dfs(ids, need))
  <2>. HIDE DEF Eq
  <2>. QED
    BY <1>6, <1>7, Zenon
<1>9. \A at \in S : Dfs(ids, need)[at] = Visit(Dfs(ids, need), need, at)
  BY <1>8, Zenon
<1>10. \A at \in S : Dfs(ids, need)[at] \in V
  <2>. DEFINE Wrong == {at \in S : Dfs(ids, need)[at] \notin V}
  <2>1. SUFFICES ASSUME Wrong # {} PROVE FALSE
    OBVIOUS
  <2>2. PICK at \in Wrong : \A lower \in S : RankOf(ids, lower) < RankOf(ids, at) => lower \notin Wrong
    BY <2>1, LowestPlace
  <2>3. \A lower \in S : RankOf(ids, lower) < RankOf(ids, at) => Dfs(ids, need)[lower] \in V
    BY <2>2, Zenon
  <2>4. Visit(Dfs(ids, need), need, at) \in V
    BY <2>3, VisitTyped
  <2>. QED
    BY <1>9, <2>4
<1>. QED
  BY <1>8, <1>9, <1>10

Ordered(o, B, need) ==
    /\ o \in [B -> 1..Cardinality(B)]
    /\ \A b, c \in B : o[b] = o[c] => b = c
    /\ \A b \in B : \A d \in need[b] : d \in B /\ o[d] < o[b]
Orderable(B, need) == \E o : Ordered(o, B, need)

LEMMA LastInOrder ==
    ASSUME NEW B, IsFiniteSet(B), NEW need, NEW id, id \notin B, Orderable(B, need),
           \A d \in need[id] : d \in B
    PROVE  Orderable(B \cup {id}, need)
<1>1. PICK o : Ordered(o, B, need)
  BY DEF Orderable
<1>. DEFINE n == Cardinality(B)
            q == [b \in B \cup {id} |-> IF b = id THEN n + 1 ELSE o[b]]
<1>2. n \in Nat /\ Cardinality(B \cup {id}) = n + 1
  BY FS_AddElement, FS_CardinalityType
<1>. HIDE DEF n
<1>3. \A b \in B : o[b] \in 1..n /\ q[b] = o[b] /\ b # id
  BY <1>1 DEF Ordered, n
<1>4. q[id] = n + 1
  OBVIOUS
<1>5. q \in [B \cup {id} -> 1..n + 1]
  BY <1>2, <1>3
<1>. HIDE DEF q
<1>6. ASSUME NEW b \in B \cup {id}, NEW c \in B \cup {id}, q[b] = q[c] PROVE b = c
  <2>1. CASE b = id
    BY <1>2, <1>3, <1>4, <1>6, <2>1
  <2>2. CASE c = id
    BY <1>2, <1>3, <1>4, <1>6, <2>2
  <2>3. CASE b \in B /\ c \in B
    BY <1>1, <1>3, <1>6, <2>3 DEF Ordered
  <2>. QED
    BY <2>1, <2>2, <2>3
<1>7. ASSUME NEW b \in B \cup {id}, NEW d \in need[b] PROVE d \in B \cup {id} /\ q[d] < q[b]
  <2>1. CASE b = id
    BY <1>2, <1>3, <1>4, <1>7, <2>1
  <2>2. CASE b \in B
    BY <1>1, <1>3, <1>7, <2>2 DEF Ordered
  <2>. QED
    BY <2>1, <2>2
<1>8. Ordered(q, B \cup {id}, need)
  BY <1>2, <1>5, <1>6, <1>7 DEF Ordered
<1>. QED
  BY <1>8 DEF Orderable

(* What the search has finished can be ordered, and covers what it was     *)
(* given to visit.                                                         *)
LEMMA DfsOrders ==
    ASSUME NEW ids, IsFiniteSet(ids), NEW need \in [ids -> SUBSET ids], NEW at \in Places(ids),
           Orderable(at.black, need), ~Dfs(ids, need)[at].cycle
    PROVE  /\ Orderable(Dfs(ids, need)[at].black, need)
           /\ at.todo \subseteq Dfs(ids, need)[at].black
           /\ at.black \subseteq Dfs(ids, need)[at].black
<1>. DEFINE f == Dfs(ids, need)
            Good(x) == Orderable(x.black, need) /\ ~f[x].cycle =>
                         /\ Orderable(f[x].black, need)
                         /\ x.todo \subseteq f[x].black
                         /\ x.black \subseteq f[x].black
            Wrong == {x \in Places(ids) : ~Good(x)}
<1>1. SUFFICES ASSUME Wrong # {} PROVE FALSE
  BY Zenon
<1>2. PICK x \in Wrong : \A lower \in Places(ids) : RankOf(ids, lower) < RankOf(ids, x) => lower \notin Wrong
  <2>. HIDE DEF Good
  <2>1. Wrong \in SUBSET Places(ids)
    OBVIOUS
  <2>. HIDE DEF Wrong
  <2>. QED
    BY <1>1, <2>1, LowestPlace
<1>3. x \in Places(ids) /\ Orderable(x.black, need) /\ ~f[x].cycle
  BY Zenon
<1>4. ~(Orderable(f[x].black, need) /\ x.todo \subseteq f[x].black /\ x.black \subseteq f[x].black)
  BY Zenon
<1>5. f[x] = Visit(f, need, x) /\ f \in [Places(ids) -> Found(ids)]
  BY <1>3, DfsIs, Zenon
<1>6. \A lower \in Places(ids) : RankOf(ids, lower) < RankOf(ids, x) => Good(lower)
  BY <1>2, Zenon
<1>. HIDE DEF f, Wrong
<1>7. x.todo # {}
  <2>1. SUFFICES ASSUME x.todo = {} PROVE FALSE
    BY Zenon
  <2>2. f[x].black = x.black
    BY <1>5, <2>1 DEF Visit
  <2>. QED
    BY <1>3, <1>4, <2>1, <2>2
<1>. DEFINE id == Picked(x)
<1>8. /\ x.todo \in SUBSET ids /\ x.grey \in SUBSET ids /\ x.black \in SUBSET ids
      /\ id \in x.todo /\ id \in ids /\ need[id] \in SUBSET ids
  BY <1>3, <1>7, PlaceParts
<1>. HIDE DEF id
<1>9. id \notin x.grey
  <2>1. SUFFICES ASSUME id \in x.grey PROVE FALSE
    BY Zenon
  <2>2. f[x] = [cycle |-> TRUE, black |-> x.black]
    BY <1>5, <1>7, <2>1, Zenon DEF Visit, id
  <2>. QED
    BY <1>3, <2>2
(* The rest of the list, from a finished set with this task in it.         *)
<1>10. ASSUME NEW black \in SUBSET ids, Orderable(black, need), id \in black, x.black \subseteq black,
              f[x] = NextOf(f, x, black)
       PROVE  FALSE
  <2>. DEFINE y == At(x.todo \ {id}, x.grey, black)
  <2>1. y \in Places(ids) /\ RankOf(ids, y) < RankOf(ids, x)
    BY <1>3, <1>7, RankFalls, Zenon DEF id
  <2>2. f[x] = f[y]
    BY <1>10, Zenon DEF NextOf, id
  <2>3. y.todo = x.todo \ {id} /\ y.black = black
    BY DEF At
  <2>. HIDE DEF y
  <2>4. Good(y)
    BY <1>6, <2>1, Zenon
  <2>5. Orderable(f[y].black, need) /\ y.todo \subseteq f[y].black /\ y.black \subseteq f[y].black
    BY <1>3, <1>10, <2>2, <2>3, <2>4, Zenon
  <2>6. x.todo \subseteq f[x].black /\ x.black \subseteq f[x].black
    BY <1>10, <2>2, <2>3, <2>5
  <2>. QED
    BY <1>4, <2>2, <2>5, <2>6
<1>11. CASE id \in x.black
  <2>1. f[x] = NextOf(f, x, x.black)
    BY <1>5, <1>7, <1>9, <1>11, Zenon DEF Visit, id
  <2>. QED
    BY <1>3, <1>8, <1>10, <1>11, <2>1
<1>12. CASE id \notin x.black
  <2>. DEFINE y == At(need[id], x.grey \cup {id}, x.black)
  <2>1. y \in Places(ids) /\ RankOf(ids, y) < RankOf(ids, x)
    BY <1>3, <1>7, <1>9, RankFalls, Zenon DEF id
  <2>2. Below(f, need, x) = f[y]
    BY Zenon DEF Below, id
  <2>3. y.todo = need[id] /\ y.black = x.black
    BY DEF At
  <2>. HIDE DEF y
  <2>4. ~f[y].cycle
    <3>1. SUFFICES ASSUME f[y].cycle PROVE FALSE
      BY Zenon
    <3>2. f[x] = f[y]
      BY <1>5, <1>7, <1>9, <1>12, <2>2, <3>1, Zenon DEF Visit, id
    <3>. QED
      BY <1>3, <3>1, <3>2, Zenon
  <2>5. f[x] = NextOf(f, x, f[y].black \cup {id})
    BY <1>5, <1>7, <1>9, <1>12, <2>2, <2>4, Zenon DEF Visit, id
  <2>6. Good(y)
    BY <1>6, <2>1, Zenon
  <2>7. Orderable(f[y].black, need) /\ y.todo \subseteq f[y].black /\ y.black \subseteq f[y].black
    BY <1>3, <2>3, <2>4, <2>6, Zenon
  <2>8. f[y].black \in SUBSET ids
    BY <1>5, <2>1, FoundBlack
  <2>9. Orderable(f[y].black \cup {id}, need)
    <3>1. CASE id \in f[y].black
      <4>1. f[y].black \cup {id} = f[y].black
        BY <3>1
      <4>. QED
        BY <2>7, <4>1, Zenon
    <3>2. CASE id \notin f[y].black
      <4>1. IsFiniteSet(f[y].black)
        BY <2>8, FS_Subset
      <4>2. \A d \in need[id] : d \in f[y].black
        BY <2>3, <2>7
      <4>. QED
        BY <2>7, <3>2, <4>1, <4>2, LastInOrder
    <3>. QED
      BY <3>1, <3>2
  <2>10. f[y].black \cup {id} \in SUBSET ids /\ x.black \subseteq f[y].black \cup {id}
    BY <1>8, <2>3, <2>7, <2>8
  <2>. QED
    BY <1>10, <2>5, <2>9, <2>10
<1>. QED
  BY <1>11, <1>12

(* A search below a ranking finds no cycle: what it visits ranks below its *)
(* path.                                                                   *)
LEMMA DfsFindsNone ==
    ASSUME NEW ids, IsFiniteSet(ids), NEW need \in [ids -> SUBSET ids], NEW at \in Places(ids),
           NEW o \in [ids -> Nat], \A b \in ids : \A d \in need[b] : o[d] < o[b],
           \A g \in at.grey, t \in at.todo : o[t] < o[g]
    PROVE  ~Dfs(ids, need)[at].cycle
<1>. DEFINE f == Dfs(ids, need)
            Apart(x) == \A g \in x.grey, t \in x.todo : o[t] < o[g]
            Wrong == {x \in Places(ids) : Apart(x) /\ f[x].cycle}
<1>1. SUFFICES ASSUME Wrong # {} PROVE FALSE
  BY Zenon
<1>2. PICK x \in Wrong : \A lower \in Places(ids) : RankOf(ids, lower) < RankOf(ids, x) => lower \notin Wrong
  <2>1. Wrong \in SUBSET Places(ids)
    OBVIOUS
  <2>. HIDE DEF Wrong
  <2>. QED
    BY <1>1, <2>1, LowestPlace
<1>3. x \in Places(ids) /\ Apart(x) /\ f[x].cycle
  OBVIOUS
<1>4. f[x] = Visit(f, need, x) /\ f \in [Places(ids) -> Found(ids)]
  BY <1>3, DfsIs, Zenon
<1>5. \A lower \in Places(ids) : RankOf(ids, lower) < RankOf(ids, x) /\ Apart(lower) => ~f[lower].cycle
  BY <1>2, Zenon
<1>. HIDE DEF f, Wrong
<1>6. x.todo # {}
  BY <1>3, <1>4 DEF Visit
<1>. DEFINE id == Picked(x)
<1>7. /\ x.todo \in SUBSET ids /\ x.grey \in SUBSET ids /\ x.black \in SUBSET ids
      /\ id \in x.todo /\ id \in ids /\ need[id] \in SUBSET ids
  BY <1>3, <1>6, PlaceParts
<1>. HIDE DEF id
<1>8. id \notin x.grey
  <2>1. SUFFICES ASSUME id \in x.grey PROVE FALSE
    BY Zenon
  <2>2. o[id] < o[id] /\ o[id] \in Nat
    BY <1>3, <1>7, <2>1
  <2>. QED
    BY <2>2
<1>9. ASSUME NEW black \in SUBSET ids PROVE ~NextOf(f, x, black).cycle
  <2>. DEFINE y == At(x.todo \ {id}, x.grey, black)
  <2>1. y \in Places(ids) /\ RankOf(ids, y) < RankOf(ids, x)
    BY <1>3, <1>6, RankFalls, Zenon DEF id
  <2>2. NextOf(f, x, black) = f[y]
    BY Zenon DEF NextOf, id
  <2>3. Apart(y)
    BY <1>3 DEF At
  <2>. QED
    BY <1>5, <2>1, <2>2, <2>3
<1>10. ~Below(f, need, x).cycle
  <2>. DEFINE y == At(need[id], x.grey \cup {id}, x.black)
  <2>1. y \in Places(ids) /\ RankOf(ids, y) < RankOf(ids, x)
    BY <1>3, <1>6, <1>8, RankFalls, Zenon DEF id
  <2>2. Below(f, need, x) = f[y]
    BY Zenon DEF Below, id
  <2>3. Apart(y)
    <3>1. SUFFICES ASSUME NEW g \in x.grey \cup {id}, NEW t \in need[id] PROVE o[t] < o[g]
      BY DEF At
    <3>2. o[t] < o[id] /\ o[t] \in Nat /\ o[id] \in Nat
      BY <1>7
    <3>3. CASE g \in x.grey
      <4>1. o[id] < o[g] /\ o[g] \in Nat
        BY <1>3, <1>7, <3>3
      <4>. QED
        BY <3>2, <4>1
    <3>. QED
      BY <3>2, <3>3
  <2>. QED
    BY <1>5, <2>1, <2>2, <2>3
<1>11. Below(f, need, x).black \cup {id} \in SUBSET ids
  <2>1. Below(f, need, x) \in Found(ids)
    BY <1>3, <1>4, <1>6, <1>8, RankFalls DEF Below, id
  <2>. QED
    BY <1>7, <2>1, FoundBlack
<1>12. CASE id \in x.black
  <2>1. f[x] = NextOf(f, x, x.black)
    BY <1>4, <1>6, <1>8, <1>12, Zenon DEF Visit, id
  <2>. QED
    BY <1>3, <1>7, <1>9, <2>1
<1>13. CASE id \notin x.black
  <2>1. f[x] = NextOf(f, x, Below(f, need, x).black \cup {id})
    BY <1>4, <1>6, <1>8, <1>10, <1>13, Zenon DEF Visit, id
  <2>. QED
    BY <1>3, <1>9, <1>11, <2>1
<1>. QED
  BY <1>12, <1>13

LEMMA NamesAreGood ==
    ASSUME NEW n \in Nat, NEW p, DOMAIN p = 1..n
    PROVE  BadIds(p) = {} <=> NamesDistinct(p)
<1>1. ASSUME BadIds(p) = {} PROVE NamesDistinct(p)
  <2>1. \A i \in 1..n : ~BadAt(p, i)
    BY <1>1 DEF BadIds
  <2>2. \A i \in 1..n : p[i].id # NoId
    BY <2>1, Zenon DEF BadAt
  <2>3. ASSUME NEW i \in 1..n, NEW j \in 1..n, p[i].id = p[j].id, j < i PROVE FALSE
    <3>1. j \in 1..(i - 1)
      BY <2>3
    <3>. QED
      BY <2>1, <2>3, <3>1, Zenon DEF BadAt
  <2>4. ASSUME NEW i \in 1..n, NEW j \in 1..n, p[i].id = p[j].id PROVE i = j
    <3>1. i < j \/ j < i \/ i = j
      OBVIOUS
    <3>. QED
      BY <2>3, <2>4, <3>1
  <2>. QED
    BY <2>2, <2>4 DEF NamesDistinct
<1>2. ASSUME NamesDistinct(p), NEW i \in 1..n, BadAt(p, i) PROVE FALSE
  <2>1. p[i].id # NoId
    BY <1>2 DEF NamesDistinct
  <2>2. PICK j \in 1..(i - 1) : p[j].id = p[i].id
    BY <1>2, <2>1, Zenon DEF BadAt
  <2>3. j \in 1..n /\ j # i
    OBVIOUS
  <2>. QED
    BY <1>2, <2>2, <2>3 DEF NamesDistinct
<1>. QED
  BY <1>1, <1>2 DEF BadIds

LEMMA AcceptedIs ==
    ASSUME NEW n \in Nat, NEW p, DOMAIN p = 1..n
    PROVE  Verdict(p) = "accepted" <=> NamesDistinct(p) /\ ~Missing(p) /\ ~HasCycle(p)
<1>1. BadIds(p) = {} <=> NamesDistinct(p)
  BY NamesAreGood
<1>2. CASE BadIds(p) # {}
  <2>1. Verdict(p) \in {"empty_id", "duplicate"}
    BY <1>2, Zenon DEF Verdict
  <2>. QED
    BY <1>1, <1>2, <2>1
<1>3. CASE BadIds(p) = {} /\ Missing(p)
  <2>1. Verdict(p) = "missing"
    BY <1>3, Zenon DEF Verdict
  <2>. QED
    BY <1>3, <2>1
<1>4. CASE BadIds(p) = {} /\ ~Missing(p) /\ HasCycle(p)
  <2>1. Verdict(p) = "cycle"
    BY <1>4, Zenon DEF Verdict
  <2>. QED
    BY <1>4, <2>1
<1>5. CASE BadIds(p) = {} /\ ~Missing(p) /\ ~HasCycle(p)
  <2>1. Verdict(p) = "accepted"
    BY <1>5, Zenon DEF Verdict
  <2>. QED
    BY <1>1, <1>5, <2>1
<1>. QED
  BY <1>2, <1>3, <1>4, <1>5, Zenon

LEMMA PlanParts ==
    ASSUME NEW n \in Nat, NEW p, DOMAIN p = 1..n, NamesDistinct(p)
    PROVE  /\ IsFiniteSet(IdsOf(p)) /\ Cardinality(IdsOf(p)) <= n
           /\ \A i \in 1..n : p[i].id \in IdsOf(p) /\ Idx(p, p[i].id) = i
           /\ \A id \in IdsOf(p) : Idx(p, id) \in 1..n /\ p[Idx(p, id)].id = id
<1>1. IsFiniteSet(1..n) /\ Cardinality(1..n) = n
  BY FS_Interval
<1>2. IsFiniteSet(IdsOf(p)) /\ Cardinality(IdsOf(p)) <= n
  <2>. DEFINE h == [i \in 1..n |-> p[i].id]
  <2>1. h \in Surjection(1..n, IdsOf(p))
    BY DEF Surjection, IdsOf
  <2>. QED
    BY <1>1, <2>1, FS_Surjection
<1>3. ASSUME NEW i \in 1..n PROVE p[i].id \in IdsOf(p) /\ Idx(p, p[i].id) = i
  <2>1. p[i].id \in IdsOf(p)
    BY DEF IdsOf
  <2>2. Idx(p, p[i].id) \in DOMAIN p /\ p[Idx(p, p[i].id)].id = p[i].id
    BY Zenon DEF Idx
  <2>. QED
    BY <2>1, <2>2 DEF NamesDistinct
<1>4. ASSUME NEW id \in IdsOf(p) PROVE Idx(p, id) \in 1..n /\ p[Idx(p, id)].id = id
  <2>1. PICK i \in 1..n : id = p[i].id
    BY DEF IdsOf
  <2>. QED
    BY <1>3, <2>1, Zenon
<1>. QED
  BY <1>2, <1>3, <1>4

LEMMA NeedsParts ==
    ASSUME NEW n \in Nat, NEW p, DOMAIN p = 1..n, NamesDistinct(p), ~Missing(p)
    PROVE  /\ NeedsOf(p) \in [IdsOf(p) -> SUBSET IdsOf(p)]
           /\ \A i \in 1..n : NeedsOf(p)[p[i].id] = p[i].needs
<1>1. \A i \in 1..n : p[i].needs \in SUBSET IdsOf(p)
  BY DEF Missing
<1>2. ASSUME NEW i \in 1..n PROVE NeedsOf(p)[p[i].id] = p[i].needs
  <2>1. p[i].id \in IdsOf(p) /\ Idx(p, p[i].id) = i
    BY PlanParts
  <2>. QED
    BY <2>1, Zenon DEF NeedsOf
<1>3. \A id \in IdsOf(p) : Idx(p, id) \in 1..n
  BY PlanParts
<1>4. \A id \in IdsOf(p) : p[Idx(p, id)].needs \in SUBSET IdsOf(p)
  BY <1>1, <1>3
<1>. QED
  BY <1>2, <1>4, Zenon DEF NeedsOf

(* Both directions, for any ranking of the ids.                            *)
LEMMA NoCycleOrders ==
    ASSUME NEW n \in Nat, NEW p, DOMAIN p = 1..n, NamesDistinct(p), ~Missing(p), ~HasCycle(p)
    PROVE  Orderable(IdsOf(p), NeedsOf(p))
<1>. DEFINE ids == IdsOf(p)
            need == NeedsOf(p)
            at == At(ids, {}, {})
<1>1. IsFiniteSet(ids) /\ need \in [ids -> SUBSET ids]
  BY PlanParts, NeedsParts
<1>2. at \in Places(ids) /\ at.todo = ids /\ at.black = {}
  BY AtPlace
<1>3. Orderable({}, need)
  <2>1. [b \in {} |-> 0] \in [{} -> 1..Cardinality({})]
    OBVIOUS
  <2>2. Ordered([b \in {} |-> 0], {}, need)
    BY <2>1 DEF Ordered
  <2>. QED
    BY <2>2 DEF Orderable
<1>4. ~Dfs(ids, need)[at].cycle
  BY DEF HasCycle
<1>. HIDE DEF ids, need, at
<1>5. Orderable(Dfs(ids, need)[at].black, need) /\ ids \subseteq Dfs(ids, need)[at].black
  BY <1>1, <1>2, <1>3, <1>4, DfsOrders
<1>6. Dfs(ids, need)[at].black \in SUBSET ids
  BY <1>1, <1>2, DfsIs, FoundBlack
<1>7. Dfs(ids, need)[at].black = ids
  BY <1>5, <1>6
<1>. QED
  BY <1>5, <1>7, Zenon DEF ids, need

LEMMA RankedHasNone ==
    ASSUME NEW n \in Nat, NEW p, DOMAIN p = 1..n, NamesDistinct(p), ~Missing(p),
           NEW o \in [IdsOf(p) -> Nat],
           \A i \in 1..n : \A d \in p[i].needs : o[d] < o[p[i].id]
    PROVE  ~HasCycle(p)
<1>. DEFINE ids == IdsOf(p)
            need == NeedsOf(p)
            at == At(ids, {}, {})
<1>1. IsFiniteSet(ids) /\ need \in [ids -> SUBSET ids]
  BY PlanParts, NeedsParts
<1>2. at \in Places(ids) /\ at.todo = ids /\ at.grey = {}
  BY AtPlace
<1>3. ASSUME NEW b \in ids, NEW d \in need[b] PROVE o[d] < o[b]
  <2>1. PICK i \in 1..n : b = p[i].id
    BY DEF IdsOf
  <2>2. need[b] = p[i].needs
    BY <2>1, NeedsParts
  <2>. QED
    BY <1>3, <2>1, <2>2
<1>4. ~Dfs(ids, need)[at].cycle
  <2>. HIDE DEF need, at
  <2>. QED
    BY <1>1, <1>2, <1>3, DfsFindsNone
<1>. QED
  BY <1>4 DEF HasCycle

(* validateDAG accepts the plans that have names of their own and an order.*)
LEMMA AcceptedIsRunnable ==
    ASSUME NEW n \in Nat, NEW p, DOMAIN p = 1..n
    PROVE  Verdict(p) = "accepted" <=> NamesDistinct(p) /\ Schedulable(p)
<1>1. ASSUME NamesDistinct(p), ~Missing(p), ~HasCycle(p) PROVE Schedulable(p)
  <2>1. PICK o : Ordered(o, IdsOf(p), NeedsOf(p))
    BY <1>1, NoCycleOrders DEF Orderable
  <2>. DEFINE order == [i \in 1..n |-> o[p[i].id]]
  <2>2. \A i \in 1..n : p[i].id \in IdsOf(p) /\ NeedsOf(p)[p[i].id] = p[i].needs
    BY <1>1, PlanParts, NeedsParts
  <2>3. order \in [DOMAIN p -> DOMAIN p]
    <3>1. Cardinality(IdsOf(p)) <= n /\ Cardinality(IdsOf(p)) \in Nat
      BY <1>1, PlanParts, FS_CardinalityType
    <3>2. ASSUME NEW i \in 1..n PROVE o[p[i].id] \in 1..n
      <4>1. o[p[i].id] \in 1..Cardinality(IdsOf(p))
        BY <2>1, <2>2 DEF Ordered
      <4>. QED
        BY <3>1, <4>1
    <3>. QED
      BY <3>2
  <2>4. IsInjective(order)
    <3>1. ASSUME NEW i \in 1..n, NEW j \in 1..n, order[i] = order[j] PROVE i = j
      <4>1. p[i].id = p[j].id
        BY <2>1, <2>2, <3>1 DEF Ordered
      <4>. QED
        BY <1>1, <4>1 DEF NamesDistinct
    <3>. QED
      BY <3>1 DEF IsInjective
  <2>5. ASSUME NEW i \in 1..n, NEW dep \in p[i].needs
        PROVE  \E j \in 1..n : p[j].id = dep /\ order[j] < order[i]
    <3>1. dep \in IdsOf(p) /\ o[dep] < o[p[i].id]
      BY <2>1, <2>2 DEF Ordered
    <3>2. PICK j \in 1..n : p[j].id = dep
      BY <3>1 DEF IdsOf
    <3>. QED
      BY <3>1, <3>2
  <2>. HIDE DEF order
  <2>. QED
    BY <2>3, <2>4, <2>5, Zenon DEF Schedulable
<1>2. ASSUME NamesDistinct(p), Schedulable(p) PROVE ~Missing(p) /\ ~HasCycle(p)
  <2>1. PICK order \in [1..n -> 1..n] :
          \A i \in 1..n : \A dep \in p[i].needs : \E j \in 1..n : p[j].id = dep /\ order[j] < order[i]
    BY <1>2 DEF Schedulable
  <2>2. ~Missing(p)
    BY <2>1 DEF Missing, IdsOf
  <2>. DEFINE o == [id \in IdsOf(p) |-> order[Idx(p, id)]]
  <2>3. o \in [IdsOf(p) -> Nat]
    BY <1>2, PlanParts
  <2>4. ASSUME NEW i \in 1..n PROVE o[p[i].id] = order[i]
    <3>1. p[i].id \in IdsOf(p) /\ Idx(p, p[i].id) = i
      BY <1>2, PlanParts
    <3>. QED
      BY <3>1
  <2>5. ASSUME NEW i \in 1..n, NEW d \in p[i].needs PROVE o[d] < o[p[i].id]
    <3>1. PICK j \in 1..n : p[j].id = d /\ order[j] < order[i]
      BY <2>1
    <3>. QED
      BY <2>4, <3>1, Zenon
  <2>. HIDE DEF o
  <2>. QED
    BY <1>2, <2>2, <2>3, <2>5, RankedHasNone
<1>. QED
  BY <1>1, <1>2, AcceptedIs

(* For a plan of N tasks under their own numbers that is what Validate     *)
(* asks.                                                                   *)
LEMMA AcceptedIsAcyclic ==
    ASSUME needs \in [Tasks -> SUBSET Tasks]
    PROVE  Verdict(Named(N, [t \in Tasks |-> t])) = "accepted" <=> Acyclic
<1>. DEFINE p == Named(N, [t \in Tasks |-> t])
<1>1. N \in Nat /\ Tasks = 1..N
  BY DagAssumption DEF Tasks
<1>2. DOMAIN p = 1..N /\ \A t \in 1..N : p[t].id = t /\ p[t].needs = needs[t]
  BY <1>1 DEF Named
<1>. HIDE DEF p
<1>3. NamesDistinct(p)
  BY <1>1, <1>2, NamesAssumption DEF NamesDistinct
<1>4. ASSUME Schedulable(p) PROVE Acyclic
  <2>1. PICK order \in [1..N -> 1..N] :
          \A i \in 1..N : \A dep \in p[i].needs : \E j \in 1..N : p[j].id = dep /\ order[j] < order[i]
    BY <1>2, <1>4 DEF Schedulable
  <2>2. ASSUME NEW t \in 1..N, NEW d \in needs[t] PROVE order[d] < order[t]
    <3>1. PICK j \in 1..N : p[j].id = d /\ order[j] < order[t]
      BY <1>2, <2>1
    <3>. QED
      BY <1>2, <3>1
  <2>. QED
    BY <1>1, <2>1, <2>2, Zenon DEF Acyclic
<1>5. ASSUME Acyclic PROVE ~Missing(p) /\ ~HasCycle(p)
  <2>1. PICK rank \in [Tasks -> Tasks] : \A t \in Tasks : \A d \in needs[t] : rank[d] < rank[t]
    BY <1>5 DEF Acyclic
  <2>2. IdsOf(p) = Tasks
    BY <1>1, <1>2 DEF IdsOf
  <2>3. ~Missing(p)
    BY <1>1, <1>2, <2>2 DEF Missing
  <2>4. rank \in [IdsOf(p) -> Nat]
    BY <1>1, <2>1, <2>2
  <2>5. \A i \in 1..N : \A d \in p[i].needs : rank[d] < rank[p[i].id]
    BY <1>1, <1>2, <2>1
  <2>. QED
    BY <1>1, <1>2, <1>3, <2>3, <2>4, <2>5, RankedHasNone
<1>. QED
  BY <1>1, <1>2, <1>3, <1>4, <1>5, AcceptedIs, AcceptedIsRunnable DEF p

(* validateDAG's depth-first search lets exactly the plans through whose   *)
(* subtasks have names of their own and can be put in an order that        *)
(* respects every need, whatever its names and however long the plan.      *)
THEOREM DagAcceptsExactlyRunnable == Spec => []AcceptsExactlyRunnable
<1>1. TypeOK => AcceptsExactlyRunnable
  <2>. SUFFICES ASSUME TypeOK PROVE AcceptsExactlyRunnable
    OBVIOUS
  <2>1. Verdict(Named(N, [t \in Tasks |-> t])) = "accepted" <=> Acyclic
    BY AcceptedIsAcyclic DEF TypeOK
  <2>2. ASSUME NEW n \in 0..N, NEW name \in [Tasks -> Ids \cup {NoId}]
        PROVE  Verdict(Named(n, name)) = "accepted" <=>
                 NamesDistinct(Named(n, name)) /\ Schedulable(Named(n, name))
    <3>1. n \in Nat /\ DOMAIN Named(n, name) = 1..n
      BY DagAssumption DEF Named
    <3>. QED
      BY <3>1, AcceptedIsRunnable
  <2>. QED
    BY <2>1, <2>2, Zenon DEF AcceptsExactlyRunnable
<1>. QED
  BY <1>1, DagTyped, PTL
=============================================================================
