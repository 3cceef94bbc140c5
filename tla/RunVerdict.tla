----------------------------- MODULE RunVerdict -----------------------------
(***************************************************************************)
(* The checks Supervisor.Run makes between the strategy's return and the   *)
(* synthesis step, in their order: the first one that applies names the    *)
(* terminal status of the session (internal/engine/supervisor.go).         *)
(***************************************************************************)

(* Why the run context is done.  The first cause wins, as in               *)
(* context.WithCancelCause: a human denial, an approver error, a user or   *)
(* wall-clock cancel, or the run timeout.                                  *)
Causes == {"denied", "approver", "cancelled", "deadline"}
CtxStates == Causes \cup {"live"}

TerminalStatuses == {"completed", "partial", "failed", "cancelled",
                     "budget_exhausted", "hitl_denied"}
SessionStatuses == TerminalStatuses \cup {"none", "running"}

\* broken: a cancelled context is looked at before its cause
PostDispatch_CancelFirst(stratErr, overBudget, ctx, failFast, anyFailed) ==
    IF overBudget THEN "budget_exhausted"
    ELSE IF ctx \notin {"live", "deadline"} THEN "cancelled"
    ELSE IF anyFailed /\ failFast THEN "failed"
    ELSE "proceed"

(* stratErr: the strategy returned an error (never a budget error: no      *)
(* strategy propagates one).  "proceed" lets the run go on to synthesis.   *)
(* A deadline does not end the run here, and neither does a cancelled      *)
(* context under fail-fast.                                                *)
PostDispatch(stratErr, overBudget, ctx, failFast, anyFailed) ==
    IF stratErr THEN IF ctx = "denied" THEN "hitl_denied" ELSE "failed"
    ELSE IF overBudget THEN "budget_exhausted"
    ELSE IF ctx = "denied" THEN "hitl_denied"
    ELSE IF ctx \in {"cancelled", "approver"} /\ ~failFast THEN "cancelled"
    ELSE IF anyFailed /\ failFast THEN "failed"
    ELSE "proceed"

FinalStatus(anyFailed) == IF anyFailed THEN "partial" ELSE "completed"
=============================================================================
