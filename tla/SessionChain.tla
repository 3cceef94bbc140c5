------------------------------ MODULE SessionChain -----------------------------
(***************************************************************************)
(* The sessions of one project, as several `uta` processes write them:     *)
(* `uta run` with its handoff chain, `uta run --resume-session` that       *)
(* re-enters a run which died, `uta resume` that adds a turn to one, and   *)
(* the thread index of state.json they all update.  A run is kept to the   *)
(* rows it writes; its slots, prompts and budget are those of              *)
(* SupervisorRun and DagRun.                                               *)
(***************************************************************************)
EXTENDS Naturals, Sequences, FiniteSetsExt

CONSTANTS Procs,        \* processes of the operator
          Runners,      \* those that run sessions, the others switch threads
          Plans,        \* what the planner or a workflow file may propose
          Modes,        \* profile -> the profile it hands off to, or NoMode
          NoMode,
          Threads,      \* named threads
          NoThread,
          Unsaveable,   \* tasks whose prompt blob may not get written
          MaxDepth,     \* handoffs in one chain
          MaxSessions   \* bound: sessions ever started

ASSUME ChainAssumption ==
    /\ MaxDepth \in Nat /\ MaxSessions \in Nat
    /\ NoMode \notin DOMAIN Modes /\ NoThread \notin Threads
    /\ \A m \in DOMAIN Modes : Modes[m] \in DOMAIN Modes \cup {NoMode}
    /\ \A plan \in Plans : DOMAIN plan \subseteq Nat

VARIABLES
    db,      \* the session rows, oldest first, each with its subtask rows
    index,   \* state.json: active thread, last session per thread, its version
    proc     \* what each process is doing

vars == <<db, index, proc>>

NoIndex == [active |-> NoThread, last |-> [t \in Threads |-> 0]]
Turn == "turn"                    \* the id of a resumed turn's only row
Idle == [at |-> "idle"]

(* A task as a run dispatches it; a row as the store holds it.  What the   *)
(* plan asked to come first is kept along as history.                      *)
TaskOf(id, needs) == [id |-> id, needs |-> needs, asked |-> needs]
Again(row) == [id |-> row.id, needs |-> {}, asked |-> row.asked]
Pending(task, saved) ==
    [id |-> task.id, st |-> "pending", saved |-> saved, asked |-> task.asked]

Sess(p) == db[proc[p].s]
RowAt(s, id) == CHOOSE i \in DOMAIN db[s].rows : db[s].rows[i].id = id
HasRow(s, id) == \E i \in DOMAIN db[s].rows : db[s].rows[i].id = id
Row(s, id) == db[s].rows[RowAt(s, id)]
SetRow(s, id, st) == db' = [db EXCEPT ![s].rows[RowAt(s, id)].st = st]
To(p, at) == proc' = [proc EXCEPT ![p].at = at]

-----------------------------------------------------------------------------
(* Commands begin.                                                         *)
NewSession(kind, from) ==
    [kind |-> kind, from |-> from, status |-> "running", rows |-> <<>>,
     answer |-> {}, told |-> "none", over |-> FALSE, afterEnd |-> TRUE]

Working(at, s, mode) ==
    [at |-> at, s |-> s, mode |-> mode, plan |-> <<>>, todo |-> {}, prior |-> {},
     out |-> {}, cancelled |-> FALSE, denied |-> FALSE, parent |-> 0, depth |-> 0,
     index |-> NoIndex]

Room == Len(db) < MaxSessions
Newest == Len(db) + 1

(* uta run: the session row exists before the planner has answered.        *)
Begin(p) ==
    /\ proc[p] = Idle /\ p \in Runners /\ Room
    /\ \E mode \in DOMAIN Modes :
         proc' = [proc EXCEPT ![p] = Working("plan", Newest, mode)]
    /\ db' = Append(db, NewSession("run", 0))
    /\ UNCHANGED index

Planned(p) ==
    /\ proc[p].at = "plan"
    /\ \E plan \in Plans :
         proc' = [proc EXCEPT ![p].at = "work", ![p].plan = plan, ![p].todo = DOMAIN plan]
    /\ UNCHANGED <<db, index>>

(* BuildResumeRunRequest: what the rows of the session are now.  The row   *)
(* has no needs and no gate to recover; a prompt that was not saved is a   *)
(* failed outcome.  The tasks asked for again keep the places of their     *)
(* rows, which is the order they are created in.                           *)
Finished(row) == row.st = "completed"
\* broken: a session is asked for again whole
Recovered_Nothing(rows) ==
    [prior |-> {},
     rerun |-> [i \in DOMAIN rows |-> Again(rows[i])]]

Recovered(rows) ==
    LET again == {i \in DOMAIN rows : ~Finished(rows[i]) /\ rows[i].saved} IN
    [prior |-> {[id |-> rows[i].id, ok |-> Finished(rows[i])] : i \in DOMAIN rows \ again},
     rerun |-> [i \in again |-> Again(rows[i])]]

Reenter(p, s) ==
    /\ proc[p] = Idle /\ p \in Runners /\ Room
    /\ db[s].status # "completed"
    /\ LET r == Recovered(db[s].rows) IN
       /\ DOMAIN r.rerun # {}
       /\ \E mode \in DOMAIN Modes :
            proc' = [proc EXCEPT ![p] =
              [Working("work", Newest, mode) EXCEPT !.plan = r.rerun, !.todo = DOMAIN r.rerun,
                                                 !.prior = r.prior]]
       /\ db' = Append(db, [NewSession("run", s) EXCEPT !.afterEnd = db[s].over])
    /\ UNCHANGED index

(* uta resume: one more turn of the provider session behind the last row.  *)
Follow(p, s) ==
    /\ proc[p] = Idle /\ p \in Runners /\ Room
    /\ db[s].rows # <<>> /\ Finished(db[s].rows[Len(db[s].rows)])
    /\ db' = Append(db, [NewSession("turn", s) EXCEPT
                           !.rows = <<[Pending(TaskOf(Turn, {}), TRUE) EXCEPT !.st = "running"]>>])
    /\ \E mode \in DOMAIN Modes :
         proc' = [proc EXCEPT ![p] = Working("turn", Newest, mode)]
    /\ UNCHANGED index

-----------------------------------------------------------------------------
(* A run dispatches its tasks.                                             *)
Dag(p) == \E i \in DOMAIN proc[p].plan : proc[p].plan[i].needs # {}
Created(p) == proc[p].todo = {}
Settled(p) == {o.id : o \in proc[p].out}
Ids(p) == {proc[p].plan[i].id : i \in DOMAIN proc[p].plan}
Done(p) == {o.id : o \in {x \in proc[p].out : x.ok}}
Outcome(p, id, ok) ==
    proc' = [proc EXCEPT ![p].out = @ \cup {[id |-> id, ok |-> ok]}]

(* Rows are created one by one, each with its prompt blob if that can be   *)
(* written.  Fan-out starts a task as soon as its row is there, a DAG when *)
(* all rows are and what the task needs is completed.                      *)
CreateRow(p) ==
    /\ proc[p].at = "work" /\ ~Created(p)
    /\ LET spec == proc[p].plan[Min(proc[p].todo)] IN
       \E saved \in IF spec.id \in Unsaveable THEN BOOLEAN ELSE {TRUE} :
         db' = [db EXCEPT ![proc[p].s].rows = Append(@, Pending(spec, saved))]
    /\ proc' = [proc EXCEPT ![p].todo = @ \ {Min(@)}]
    /\ UNCHANGED index

Ready(p, spec) ==
    /\ HasRow(proc[p].s, spec.id)
    /\ Row(proc[p].s, spec.id).st = "pending"
    /\ spec.id \notin Settled(p)
    /\ Dag(p) => Created(p)

StartTask(p, spec) ==
    /\ proc[p].at = "work"
    /\ Ready(p, spec)
    /\ spec.needs \subseteq Done(p)
    /\ SetRow(proc[p].s, spec.id, "running")
    /\ UNCHANGED <<index, proc>>

(* The provider answered or failed, its gate included.                     *)
EndTask(p, id) ==
    /\ proc[p].at = "work"
    /\ HasRow(proc[p].s, id) /\ Row(proc[p].s, id).st = "running"
    /\ \E ok \in BOOLEAN :
         /\ SetRow(proc[p].s, id, IF ok THEN "completed" ELSE "failed")
         /\ Outcome(p, id, ok)
    /\ UNCHANGED index

(* A need failed: the row says skipped.                                    *)
SkipTask(p, spec) ==
    /\ proc[p].at = "work"
    /\ Ready(p, spec)
    /\ spec.needs \cap (Settled(p) \ Done(p)) # {}
    /\ SetRow(proc[p].s, spec.id, "skipped")
    /\ Outcome(p, spec.id, FALSE)
    /\ UNCHANGED index

(* Ctrl-C before the task had a slot: fan-out leaves its row pending, a    *)
(* DAG marks it failed.                                                    *)
NeverStarts(p, spec) ==
    /\ proc[p].at = "work" /\ proc[p].cancelled
    /\ Ready(p, spec)
    /\ spec.needs \subseteq Done(p)
    /\ IF Dag(p) THEN SetRow(proc[p].s, spec.id, "failed") ELSE UNCHANGED db
    /\ Outcome(p, spec.id, FALSE)
    /\ UNCHANGED index

(* The terminal status.  Outcomes recovered from the session re-entered    *)
(* join the answer, not the count of failures.                             *)
Answer(p) == proc[p].prior \cup proc[p].out
Failed(p) == \E o \in proc[p].out : ~o.ok
Statuses(p) ==
    IF proc[p].cancelled THEN {"cancelled"}
    ELSE IF ~Failed(p) THEN {"completed"}
    ELSE IF \E i \in DOMAIN Sess(p).rows : Sess(p).rows[i].st = "skipped"
         THEN {"failed", "partial"} ELSE {"partial"}

Conclude(p) ==
    /\ proc[p].at = "work"
    /\ Settled(p) = Ids(p)
    /\ \E status \in Statuses(p) :
         db' = [db EXCEPT ![proc[p].s].status = status,
                  ![proc[p].s].over = TRUE,
                  ![proc[p].s].answer =
                     IF status \in {"completed", "partial"} THEN Answer(p) ELSE {}]
    /\ To(p, "touch")
    /\ UNCHANGED index

(* A resumed turn: a denied prompt cancels it, and its provider may answer *)
(* all the same.                                                           *)
TurnDenied(p) ==
    /\ proc[p].at = "turn" /\ ~proc[p].denied
    /\ proc' = [proc EXCEPT ![p].denied = TRUE]
    /\ UNCHANGED <<db, index>>

TurnEnds(p) ==
    /\ proc[p].at = "turn"
    /\ \E end \in {"answered", "error", "over budget"} :
         db' = [db EXCEPT ![proc[p].s].status =
                    CASE end = "answered" -> "completed"
                      [] end = "over budget" -> "budget_exhausted"
                      [] OTHER -> IF proc[p].denied THEN "hitl_denied" ELSE "failed",
                  ![proc[p].s].over = TRUE,
                  ![proc[p].s].rows[1].st =
                    IF end = "answered" THEN "completed" ELSE "failed"]
    /\ To(p, "touch")
    /\ UNCHANGED index

-----------------------------------------------------------------------------
(* state.json is read, changed and replaced as a whole.                    *)
TouchLoad(p) ==
    /\ proc[p].at = "touch"
    /\ proc' = [proc EXCEPT ![p].at = IF index.active = NoThread THEN "chain" ELSE "save",
                            ![p].index = index]
    /\ UNCHANGED <<db, index>>

TouchSave(p) ==
    /\ proc[p].at = "save"
    /\ LET read == proc[p].index IN
       index' = [read EXCEPT !.last[read.active] = proc[p].s]
    /\ proc' = [proc EXCEPT ![p].at = "chain", ![p].index = NoIndex]
    /\ UNCHANGED db

(* uta thread new / switch, between their own load and save.               *)
ThreadLoad(p) ==
    /\ proc[p] = Idle
    /\ proc' = [proc EXCEPT ![p] = [at |-> "switch", index |-> index]]
    /\ UNCHANGED <<db, index>>

ThreadSave(p) ==
    /\ proc[p].at = "switch"
    /\ \E t \in Threads : index' = [proc[p].index EXCEPT !.active = t]
    /\ proc' = [proc EXCEPT ![p] = Idle]
    /\ UNCHANGED db

-----------------------------------------------------------------------------
(* The handoff chain.  A link that fails or is cancelled is reported on    *)
(* the session that handed off.                                            *)
Clean(s) == db[s].status \in {"completed", "partial"}
Told(p, status) == [db EXCEPT ![proc[p].parent].told = status]

(* The chained session is over: its end is told to the one before it.      *)

LinkEnds(p) ==
    /\ proc[p].at = "chain" /\ proc[p].parent # 0
    /\ proc' = [proc EXCEPT ![p].parent = 0]
    /\ db' = Told(p, Sess(p).status)
    /\ UNCHANGED index

MayHandOff(p) ==
    /\ Sess(p).kind = "run" /\ Sess(p).status = "completed"
    /\ Modes[proc[p].mode] # NoMode
    /\ proc[p].depth < MaxDepth
    /\ ~proc[p].cancelled

(* The first handoff whose condition the changed files meet, and whose     *)
(* target is found, starts a run of the target profile.                    *)
HandOff(p) ==
    /\ proc[p].at = "chain" /\ proc[p].parent = 0
    /\ MayHandOff(p) /\ Room
    /\ proc' = [proc EXCEPT ![p] =
                  [Working("plan", Newest, Modes[proc[p].mode]) EXCEPT
                     !.depth = proc[p].depth + 1, !.parent = proc[p].s]]
    /\ db' = Append([db EXCEPT ![proc[p].s].told = "started"], NewSession("run", 0))
    /\ UNCHANGED index

(* No handoff matches, or none is due: the command returns.                *)
Return(p) ==
    /\ proc[p].at = "chain" /\ proc[p].parent = 0
    /\ proc' = [proc EXCEPT ![p] = Idle]
    /\ UNCHANGED <<db, index>>

-----------------------------------------------------------------------------
(* Ctrl-C; while the thread index is written it is noticed only after.      *)
Cancel(p) ==
    /\ proc[p].at \in {"plan", "work", "chain"}
    /\ ~proc[p].cancelled
    /\ proc' = [proc EXCEPT ![p].cancelled = TRUE]
    /\ UNCHANGED <<db, index>>

(* The process dies; the session it was working on stays running for ever, *)
(* and one that handed off to it never hears of it.                        *)
Crash(p) ==
    /\ proc[p].at \in {"plan", "work", "turn", "touch", "save", "chain"}
    /\ db' = [IF proc[p].parent = 0 THEN db ELSE Told(p, "lost")
                EXCEPT ![proc[p].s].over = TRUE]
    /\ proc' = [proc EXCEPT ![p] = Idle]
    /\ UNCHANGED index

Init ==
    /\ db = <<>>
    /\ index = NoIndex
    /\ proc = [p \in Procs |-> Idle]

Task(p) ==
    \/ \E id \in Ids(p) : EndTask(p, id)
    \/ \E i \in DOMAIN proc[p].plan :
         LET spec == proc[p].plan[i] IN
         StartTask(p, spec) \/ SkipTask(p, spec) \/ NeverStarts(p, spec)

Proceed(p) ==
    \/ Planned(p) \/ CreateRow(p) \/ (proc[p].at = "work" /\ Task(p)) \/ Conclude(p)
    \/ TurnEnds(p) \/ TouchLoad(p) \/ TouchSave(p) \/ ThreadSave(p)
    \/ LinkEnds(p) \/ HandOff(p) \/ Return(p)

Next == \E p \in Procs :
    \/ Begin(p) \/ ThreadLoad(p)
    \/ \E s \in DOMAIN db : Reenter(p, s) \/ Follow(p, s)
    \/ Proceed(p) \/ TurnDenied(p) \/ Cancel(p) \/ Crash(p)

Spec == Init /\ [][Next]_vars

-----------------------------------------------------------------------------
(* Re-entering a run that is over asks for nothing again that it finished, *)
(* and an answer that comes out of it has an outcome for every row of it,  *)
(* the finished ones as finished.                                          *)
Reentered == {s \in DOMAIN db : db[s].kind = "run" /\ db[s].from # 0 /\ db[s].afterEnd}
ReentryIsWhole ==
    \A s \in Reentered : \A i \in DOMAIN db[db[s].from].rows :
        LET row == db[db[s].from].rows[i] IN
        /\ Finished(row) => ~HasRow(s, row.id)
        /\ Clean(s) => \E o \in db[s].answer : o.id = row.id /\ (Finished(row) => o.ok)

(* The session and those it re-enters, one after the other.                *)
Line(s) ==
    LET line[k \in 0..MaxSessions] ==
          IF k = 0 THEN {} ELSE {k} \cup line[db[k].from]
    IN line[s]

(* What a task needs has been completed, in its session or in one that     *)
(* session re-enters, before it runs: SubtaskSpec.Needs are the "subtask   *)
(* IDs that must complete first".                                          *)
Completed(s, id) == HasRow(s, id) /\ Finished(Row(s, id))
NeedsFirst ==
    \A s \in DOMAIN db : \A i \in DOMAIN db[s].rows :
        db[s].rows[i].st \in {"running", "completed"} =>
            \A n \in db[s].rows[i].asked : \E k \in Line(s) : Completed(k, n)

(* "completed subtasks are recovered (not re-paid), the remainder re-runs, *)
(* synthesis covers the whole plan": also when the session re-entered was  *)
(* a re-entry itself.                                                      *)
WholePlan ==
    \A s \in DOMAIN db : (db[s].kind = "run" /\ Clean(s)) =>
        \A k \in Line(s) : \A i \in DOMAIN db[k].rows :
            \E o \in db[s].answer : o.id = db[k].rows[i].id
=============================================================================
