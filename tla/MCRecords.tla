------------------------------ MODULE MCRecords ------------------------------
(***************************************************************************)
(* What is kept of a run and who reads it back: the session rows and their *)
(* re-entry, the sentinel that reads the events, and their replay against  *)
(* a changed profile.  A behaviour exercises one of them, `side`; the      *)
(* others stay where they start.                                           *)
(***************************************************************************)
EXTENDS SessionChain

\* a fan-out and a DAG of two tasks, and a profile that hands off to itself
Fanout == <<TaskOf("a", {}), TaskOf("b", {})>>
Steps == <<TaskOf("a", {}), TaskOf("b", {"a"})>>
MCPlans == {Fanout, Steps}
MCModes == [audit |-> "audit"]
MCThreads == {"A"}

CONSTANTS Emitters, Sentinel, MaxEvents, Buffer, ErrorWindow, ErrorMax, DenyWindow, DenyAt,
          RepeatAt
VARIABLES at, emitted, channel, shut, got, recent, due, clock, told, cancelled

Guard == INSTANCE Watch
watchVars == <<at, emitted, channel, shut, got, recent, due, clock, told, cancelled>>

CONSTANTS Workers, Registered, MaxHistory, MaxReplayed, Threshold, Context
VARIABLES history, since, dryRun, flag, pc, worker, todo, wanted, report, compared,
          interrupted, exit, side

Lines == {"", "x", "y"}
Originals == {<<"x", "">>, <<"x", "", "y">>, <<"x", "y", "y", "y", "y", "x">>}
Answers == {<<l>> : l \in Lines} \union {<<l, m, n>> : l, m, n \in Lines}
             \union {<<"y", "y", "y", "y", "x", "x">>, <<"x", "y", "y", "x", "y", "x">>,
                     <<"x", "x", "y", "y", "y", "y", "x", "x">>}
Replays == INSTANCE Shadow WITH MaxSessions <- MaxReplayed
replayVars == <<history, since, dryRun, flag, pc, worker, todo, wanted, report, compared,
                interrupted, exit>>

MCInit ==
  /\ side \in {"chain", "watch", "replay"}
  /\ Init /\ Guard!Init /\ Replays!Init
  /\ side # "replay" => history = <<>> /\ since = 1 /\ ~dryRun /\ flag = ""
MCNext ==
  /\ side' = side
  /\ \/ side = "chain" /\ Next /\ UNCHANGED <<watchVars, replayVars>>
     \/ side = "watch" /\ Guard!Next /\ UNCHANGED <<vars, replayVars>>
     \/ side = "replay" /\ Replays!Next /\ UNCHANGED <<vars, watchVars>>

\* the fairness of the sentinel's goroutines, disabled where it does not run
MCSpec == MCInit /\ [][MCNext]_<<vars, watchVars, replayVars, side>> /\ Guard!Fairness

DeadlineCancels == Guard!DeadlineCancels
ReportIsTrue == Replays!ReportIsTrue
=============================================================================
