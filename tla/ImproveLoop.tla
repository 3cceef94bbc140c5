----------------------------- MODULE ImproveLoop -----------------------------
(***************************************************************************)
(* The self-improvement loop of internal/improve (Loop, executeIdea and    *)
(* runGatherStep of loop.go over the idea board of board.go) with the      *)
(* operator's `uta ideas` commands.  Several `uta improve` processes may   *)
(* share a board, be killed and be run again; each statement on the        *)
(* database is atomic, nothing larger is.                                  *)
(***************************************************************************)
EXTENDS Integers, FiniteSets, FiniteSetsExt

CONSTANTS NumIdeas,       \* bound: ideas ever on the board
          Loops,          \* the `uta improve` processes
          Gathers,        \* --gather-when-empty
          MaxIterations,  \* per process: --max-iter, 0 is no ceiling
          MaxAccepts,     \* bound: `uta ideas accept` commands
          MaxMishaps,     \* bound: writes the database refuses, and kills
          Severities      \* bound: how the ideas can be ranked, 0 first

ASSUME LoopAssumption ==
    /\ {NumIdeas, MaxAccepts, MaxMishaps} \subseteq Nat
    /\ Severities \subseteq [1..NumIdeas -> 0..3]
    /\ MaxIterations \in [Loops -> Nat]
    /\ Gathers \in BOOLEAN /\ IsFiniteSet(Loops)

Ideas == 1..NumIdeas      \* in the order of their creation

VARIABLES severity,   \* per idea: its rank, 0 is the highest
          status,     \* per idea: its status on the board
          attempts,   \* per idea: the attempts the board has counted
          accepts,    \* per idea: `uta ideas accept` commands so far
          starts,     \* per process and idea: runs begun (history)
          runs,       \* per idea: runs begun by whichever process (history)
          pc,         \* per process: where Loop is
          idea,       \* per process: the idea NextActionable returned, 0 is none
          iterations, \* per process: res.Iterations, kept if there is a
                      \* ceiling (nothing else in the loop reads it)
          gathered,   \* per process: ideas of the gather call under way
          mishaps     \* writes refused and processes killed so far

board == <<severity, status, attempts, accepts>>
loop == <<pc, idea, iterations, gathered>>
history == <<starts, runs>>
vars == <<board, history, loop, mishaps>>

Stopped == {"stopped", "killed"}
Working == {"run", "record"}
OnBoard == {"proposed", "accepted", "in_progress", "done", "failed", "rejected"}

TypeOK ==
    /\ severity \in [Ideas -> 0..3]
    /\ status \in [Ideas -> OnBoard \cup {"absent", "removed"}]
    /\ attempts \in [Ideas -> Nat]
    /\ accepts \in [Ideas -> 0..MaxAccepts]
    /\ starts \in [Loops -> [Ideas -> Nat]]
    /\ runs \in [Ideas -> Nat]
    /\ pc \in [Loops -> {"top", "gather", "mark"} \cup Working \cup Stopped]
    /\ idea \in [Loops -> Ideas \cup {0}]
    /\ iterations \in [Loops -> Nat]
    /\ gathered \in [Loops -> 0..NumIdeas]
    /\ mishaps \in 0..MaxMishaps
    /\ \A p \in Loops :
          /\ pc[p] \in {"mark"} \cup Working => idea[p] # 0
          /\ MaxIterations[p] > 0 => iterations[p] <= MaxIterations[p]

Init ==
    /\ severity \in Severities
    /\ status \in [Ideas -> {"absent", "proposed"}]
    /\ attempts = [i \in Ideas |-> 0]
    /\ accepts = [i \in Ideas |-> 0]
    /\ starts = [p \in Loops |-> [i \in Ideas |-> 0]]
    /\ runs = [i \in Ideas |-> 0]
    /\ pc = [p \in Loops |-> "top"]
    /\ idea = [p \in Loops |-> 0]
    /\ iterations = [p \in Loops |-> 0]
    /\ gathered = [p \in Loops |-> 0]
    /\ mishaps = 0

Go(p, stage) == pc' = [pc EXCEPT ![p] = stage]
Leaves(p, stage) == Go(p, stage) /\ idea' = [idea EXCEPT ![p] = 0]
Mishap == mishaps < MaxMishaps /\ mishaps' = mishaps + 1
Refused == Mishap

-----------------------------------------------------------------------------
\* broken: what failed is tried again
Actionable_Failed == {i \in Ideas : status[i] \in {"proposed", "accepted", "failed"}}

Actionable == {i \in Ideas : status[i] \in {"proposed", "accepted"}}

(* NextActionable: the highest severity, then the oldest.                  *)
Before(i, j) ==
    \/ severity[i] < severity[j]
    \/ severity[i] = severity[j] /\ i <= j
NextActionable == CHOOSE i \in Actionable : \A j \in Actionable : Before(i, j)

CeilingReached(p) == MaxIterations[p] > 0 /\ iterations[p] >= MaxIterations[p]

(* The top of the loop.  The context or the time budget may have ended.    *)
Top(p) ==
    /\ pc[p] = "top"
    /\ \/ Go(p, "stopped") /\ UNCHANGED <<idea, iterations>>
       \/ /\ ~CeilingReached(p)
          /\ Actionable = {}
          /\ Gathers
          /\ Go(p, "gather")
          /\ UNCHANGED <<idea, iterations>>
       \/ /\ ~CeilingReached(p)
          /\ Actionable # {}
          /\ Go(p, "mark")
          /\ idea' = [idea EXCEPT ![p] = NextActionable]
          /\ iterations' = [iterations EXCEPT ![p] =
                                IF MaxIterations[p] > 0 THEN @ + 1 ELSE @]
    /\ UNCHANGED <<board, history, gathered, mishaps>>

\* broken: a gatherer with nothing to say is asked again
AfterGather_AsksAgain(p) == "top"

AfterGather(p) == IF gathered[p] = 0 THEN "stopped" ELSE "top"

(* runGatherStep: the ideas of the reply are inserted one by one; an error *)
(* of the gatherer, or of an insert, ends the loop.                        *)
Gather(p) ==
    /\ pc[p] = "gather"
    /\ \/ \E i \in Ideas :
            /\ status[i] = "absent"
            /\ \A j \in 1..(i - 1) : status[j] # "absent"
            /\ status' = [status EXCEPT ![i] = "proposed"]
            /\ gathered' = [gathered EXCEPT ![p] = @ + 1]
            /\ UNCHANGED <<pc, mishaps>>
       \/ /\ Go(p, AfterGather(p))
          /\ gathered' = [gathered EXCEPT ![p] = 0]
          /\ UNCHANGED <<status, mishaps>>
       \/ /\ Refused
          /\ Go(p, "stopped")
          /\ gathered' = [gathered EXCEPT ![p] = 0]
          /\ UNCHANGED status
    /\ UNCHANGED <<severity, attempts, accepts, history, idea, iterations>>

(* executeIdea records the attempt first; if the board refuses, or has     *)
(* lost the idea, the work does not start and the loop goes on.            *)
MarkInProgress(p) ==
    /\ pc[p] = "mark"
    /\ \/ /\ status[idea[p]] # "removed"
          /\ status' = [status EXCEPT ![idea[p]] = "in_progress"]
          /\ attempts' = [attempts EXCEPT ![idea[p]] = @ + 1]
          /\ Go(p, "run")
          /\ UNCHANGED <<idea, mishaps>>
       \/ /\ status[idea[p]] = "removed"
          /\ Leaves(p, "top")
          /\ UNCHANGED <<status, attempts, mishaps>>
       \/ Refused /\ Leaves(p, "top") /\ UNCHANGED <<status, attempts>>
    /\ UNCHANGED <<severity, accepts, history, iterations, gathered>>

(* The supervisor's run, and what it comes to.                             *)
Run(p) ==
    /\ pc[p] = "run"
    /\ starts' = [starts EXCEPT ![p][idea[p]] = @ + 1]
    /\ runs' = [runs EXCEPT ![idea[p]] = @ + 1]
    /\ Go(p, "record")
    /\ UNCHANGED <<board, idea, iterations, gathered, mishaps>>

Terminal == {"done", "failed"}

(* The outcome replaces whatever status the idea has by now.               *)
Record(p) ==
    /\ pc[p] = "record"
    /\ \/ /\ status[idea[p]] # "removed"
          /\ \E s \in Terminal : status' = [status EXCEPT ![idea[p]] = s]
          /\ UNCHANGED mishaps
       \/ status[idea[p]] = "removed" /\ UNCHANGED <<status, mishaps>>
       \/ Refused /\ UNCHANGED status
    /\ Leaves(p, "top")
    /\ UNCHANGED <<severity, attempts, accepts, history, iterations, gathered>>

(* The process is killed; running the command again starts a new one.      *)
Kill(p) ==
    /\ pc[p] \notin Stopped
    /\ Mishap
    /\ Leaves(p, "killed")
    /\ iterations' = [iterations EXCEPT ![p] = 0]
    /\ gathered' = [gathered EXCEPT ![p] = 0]
    /\ UNCHANGED <<board, history>>

RunAgain(p) ==
    /\ pc[p] = "killed"
    /\ Go(p, "top")
    /\ UNCHANGED <<board, history, idea, iterations, gathered, mishaps>>

-----------------------------------------------------------------------------
(* The operator: `uta ideas accept`, `reject`, `done` and `rm`, whatever   *)
(* the status is.                                                          *)
Accept(i) ==
    /\ status[i] \in OnBoard
    /\ MapThenSumSet(LAMBDA j : accepts[j], Ideas) < MaxAccepts
    /\ status' = [status EXCEPT ![i] = "accepted"]
    /\ accepts' = [accepts EXCEPT ![i] = @ + 1]
    /\ UNCHANGED <<severity, attempts, history, loop, mishaps>>

Settle(i) ==
    /\ status[i] \in OnBoard
    /\ \E s \in {"rejected", "done", "removed"} : status' = [status EXCEPT ![i] = s]
    /\ UNCHANGED <<severity, attempts, accepts, history, loop, mishaps>>

LoopStep(p) == Top(p) \/ Gather(p) \/ MarkInProgress(p) \/ Run(p) \/ Record(p)

Next ==
    \/ \E p \in Loops : LoopStep(p) \/ Kill(p) \/ RunAgain(p)
    \/ \E i \in Ideas : Accept(i) \/ Settle(i)

Spec == Init /\ [][Next]_vars
(* A run ends with its RunTimeout and a gather call with its own.          *)
Fairness == \A p \in Loops : WF_vars(LoopStep(p))
FairSpec == Spec /\ Fairness

-----------------------------------------------------------------------------
(* No work is done off the books: every run of an idea is one of the       *)
(* attempts its row counts, across processes, kills and refused writes.    *)
WorkIsCounted == \A i \in Ideas : runs[i] <= attempts[i]

(* No process burns an idea twice on its own account: it runs one again    *)
(* only after the operator has accepted it again.                          *)
OncePerAccept ==
    \A p \in Loops, i \in Ideas : starts[p][i] <= 1 + accepts[i]

(* Attempts are paid for once each and counted, whoever pays.              *)
AttemptsAgree == WorkIsCounted /\ OncePerAccept

(* The loop of a finite backlog ends by itself, with no ceiling and no     *)
(* time budget, whatever the runs come to.                                 *)
LoopEnds == \A p \in Loops : pc[p] = "top" ~> pc[p] \in Stopped

(* Killing the loop and running the command again is a no-op (the          *)
(* command's help): an idea that is in progress has a process at work on   *)
(* it, or it would never be picked again.                                  *)
InProgressIsWorkedOn ==
    \A i \in Ideas :
        status[i] = "in_progress" => \E p \in Loops : pc[p] \in Working /\ idea[p] = i
=============================================================================
