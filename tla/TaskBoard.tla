------------------------------ MODULE TaskBoard ------------------------------
(***************************************************************************)
(* What a dispatch strategy promises about the rows of a plan's subtasks,  *)
(* without waves, slots or gates: a task starts only when every task it    *)
(* needs has completed, at most MaxParallel run at a time, a settled task  *)
(* never changes, and a task is skipped only because something failed.     *)
(***************************************************************************)
EXTENDS Integers, FiniteSets

CONSTANTS Task, MaxParallel

VARIABLES deps,     \* the dependencies of each task, fixed by the plan
          row       \* the status of each task

boardVars == <<deps, row>>

Settled == {"completed", "failed", "skipped"}
RowStatus == Settled \cup {"pending", "running"}

InState(S) == {t \in Task : row[t] \in S}
Ready(t) == \A d \in deps[t] : row[d] = "completed"
Blocked(t) == \E d \in deps[t] : row[d] \in {"failed", "skipped"}

BoardInit ==
    /\ deps \in [Task -> SUBSET Task]
    /\ row = [t \in Task |-> "pending"]

Move(t, from, to) ==
    /\ row[t] = from
    /\ row' = [row EXCEPT ![t] = to]

Start(t) ==
    /\ Ready(t)
    /\ Cardinality(InState({"running"})) < MaxParallel
    /\ Move(t, "pending", "running")

Finish(t) == Move(t, "running", "completed") \/ Move(t, "running", "failed")

\* a ready task that is refused or cancelled before it runs
Abandon(t) == Ready(t) /\ Move(t, "pending", "failed")

Skip(t) == Blocked(t) /\ Move(t, "pending", "skipped")

\* fail-fast: with a failure recorded and nothing running, the rest is dropped
DropRest ==
    /\ InState({"failed"}) # {}
    /\ InState({"running"}) = {}
    /\ row' = [t \in Task |-> IF row[t] = "pending" THEN "skipped" ELSE row[t]]

BoardNext ==
    /\ UNCHANGED deps
    /\ \/ \E t \in Task : Start(t) \/ Finish(t) \/ Abandon(t) \/ Skip(t)
       \/ DropRest

BoardSpec == BoardInit /\ [][BoardNext]_boardVars
=============================================================================
