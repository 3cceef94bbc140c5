--------------------------- MODULE MCSupervisorRun ---------------------------
(***************************************************************************)
(* Small runs of the supervisor: two subtasks, calls that cost nothing or  *)
(* CallTokens tokens, and the kinds of request the command line makes.     *)
(***************************************************************************)
EXTENDS SupervisorRun

CONSTANTS CallTokens    \* bound: what a call that costs something costs

MCUsages == [tok : {0, CallTokens}, usd : {0}]

Request(strategy, preSet, skip, failFast, slots) ==
    [strategy |-> strategy, preSet |-> preSet, skipSynthesis |-> skip,
     failFast |-> failFast, maxParallel |-> slots]

\* a goal with planner and synthesis, a workflow of fixed subtasks that
\* fails fast through one slot, a race through two slots and through one
Planned == Request("fanout", FALSE, FALSE, FALSE, 2)
Workflow == Request("fanout", TRUE, TRUE, TRUE, 1)
Race(slots) == Request("race", TRUE, TRUE, FALSE, slots)

AllRequests == {Planned, Workflow, Race(1), Race(2)}
RaceRequests == {Race(2)}
SynthRequests == {Request("fanout", TRUE, FALSE, FALSE, 2)}
=============================================================================
