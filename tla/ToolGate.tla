------------------------------ MODULE ToolGate ------------------------------
(***************************************************************************)
(* The permissions gate in front of native tool calls (cli/toolgate.go,    *)
(* policy/policy.go), the file tools behind it (provider/builtin) and the  *)
(* checkpoints that `uta undo` restores (cli/undo.go).                     *)
(*                                                                         *)
(* A run is one process with one gate; its workers are subtasks in flight  *)
(* at once.  The rules file and the work directory are shared by every run *)
(* and by `uta permissions`.  A file is known to the gate by a NAME: the   *)
(* path of the call.  The gate snapshots the file Snapped[n], the tool     *)
(* writes the file Written[n]: they differ for a path with a leading blank *)
(* (only the tool trims it), and two names may be one file (a symbolic     *)
(* link inside the work directory).                                        *)
(*                                                                         *)
(* Abstractions.  What a file holds is the set of the calls whose text is  *)
(* in it, or Absent.  A rule is a tool with one name (the glob of a        *)
(* command) or with Every. A hook that blocks, a snapshot or a row that     *)
(* fails, a sentinel that blocks are choices.                              *)
(***************************************************************************)
EXTENDS Naturals, Sequences, FiniteSetsExt

CONSTANTS Runs, Workers, RunOf, Names, Files, Snapped, Written,
          Calls,        \* the calls workers make: [tool, name]
          FirstRules,   \* the rules file at the start
          Terminals,    \* the runs whose stdin is a terminal
          PreApproved,  \* tools of --pre-approve
          MaxCalls,     \* BOUND: worker -> its calls
          MaxCancels    \* BOUND: workers cancelled (subtask timeouts, Ctrl-C)

CONSTANTS Every, Nobody, Absent

FileTools == {"write_file", "edit_file"}
ReadOnly == {"read_file"}
Lists == {"allow", "ask", "deny"}

ASSUME ToolGateAssumption ==
  /\ RunOf \in [Workers -> Runs] /\ Nobody \notin Workers
  /\ Snapped \in [Names -> Files] /\ Written \in [Names -> Files]
  /\ Calls \subseteq [tool : FileTools \union ReadOnly \union {"run_command"}, name : Names]
  /\ MaxCalls \in [Workers -> Nat] /\ MaxCancels \in Nat

VARIABLES
  rules,      \* permissions.yaml: list -> set of rules
  loaded,     \* run -> the rules AddRule has loaded, or Nobody
  policy,     \* run -> the rules its gate uses
  answered,   \* run -> sessionAllow: rules answered "s" or "a"
  lock,       \* run -> the worker that holds the gate's mutex, or Nobody
  stale,      \* run -> readers of prompts that were cancelled
  pc, call, held, made, cancelled,   \* per worker
  file,       \* file -> the calls whose text it holds, or Absent
  rows,       \* the file_checkpoints table, in seq order
  undo,       \* the undo in flight: run, restorations left; or Nobody
  before,     \* HISTORY: <<run, file>> -> what it held before the first write of the run
  spoiled,    \* HISTORY: <<run, file>> whose checkpoint failed, or that somebody else wrote
  undone      \* HISTORY: the runs an undo has put back whole

gate == <<rules, loaded, policy, answered, lock, stale>>
disk == <<file, rows, undo, before, spoiled, undone>>
vars == <<gate, disk, pc, call, held, made, cancelled>>

Idle == [tool |-> "none", name |-> Every]

-----------------------------------------------------------------------------
(* policy.Decide: deny > ask > allow > the default of the tool.            *)
Covers(rule, c) == rule[1] = c.tool /\ rule[2] \in {Every, c.name}
Matched(list, c) == \E rule \in list : Covers(rule, c)

Decide(p, c) ==
  IF Matched(p["deny"], c) THEN "deny"
  ELSE IF Matched(p["ask"], c) THEN "ask"
  ELSE IF Matched(p["allow"], c) \/ c.tool \in ReadOnly THEN "allow"
  ELSE "ask"

(* policy.AlwaysPattern: file tools outright, commands by their prefix.    *)
AlwaysPattern(c) == IF c.tool = "run_command" THEN <<c.tool, c.name>> ELSE <<c.tool, Every>>

SessionOK(r, c) == <<c.tool, Every>> \in answered[r] \/ AlwaysPattern(c) \in answered[r]

\* broken: the answer is looked up before the mutex and never again.
StillOpen_Once(w) == TRUE
(* prompt's re-check under the mutex.                                      *)
StillOpen(w) == ~ SessionOK(RunOf[w], call[w])

Goes(w, place) == pc' = [pc EXCEPT ![w] = place]
Ends(w) == /\ Goes(w, IF w \in cancelled THEN "done" ELSE "idle")
           /\ held' = [held EXCEPT ![w] = Absent]
           /\ call' = [call EXCEPT ![w] = Idle]

-----------------------------------------------------------------------------
(* Check, before the mutex: the verdict of the policy, --pre-approve, the  *)
(* answers of this run; a gate without a terminal refuses what is left.    *)
Check(w, c) ==
  LET r == RunOf[w]
      verdict == Decide(policy[r], c)
      open == verdict = "allow" \/ (verdict = "ask" /\ (c.tool \in PreApproved \/ SessionOK(r, c)))
  IN /\ pc[w] = "idle" /\ w \notin cancelled /\ made[w] < MaxCalls[w]
     /\ made' = [made EXCEPT ![w] = @ + 1]
     /\ IF open \/ (verdict = "ask" /\ r \in Terminals)
        THEN Goes(w, IF open THEN "hooks" ELSE "waiting") /\ call' = [call EXCEPT ![w] = c]
        ELSE UNCHANGED <<pc, call>>
     /\ UNCHANGED <<gate, disk, held, cancelled>>

(* prompt takes the mutex; the reader goroutine of the prompt starts.      *)
TakeMutex(w) ==
  LET r == RunOf[w] IN
  /\ pc[w] = "waiting" /\ lock[r] = Nobody
  /\ IF StillOpen(w)
     THEN Goes(w, "asking") /\ lock' = [lock EXCEPT ![r] = w]
     ELSE Goes(w, "hooks") /\ UNCHANGED lock
  /\ UNCHANGED <<disk, rules, loaded, policy, answered, stale, call, held, made, cancelled>>

(* A line reaches the reader of the prompt on screen.                      *)
Answer(w, line) ==
  LET r == RunOf[w] IN
  /\ pc[w] = "asking"
  /\ answered' = [answered EXCEPT ![r] = @ \union
        (CASE line = "s" -> {<<call[w].tool, Every>>}
           [] line = "a" -> {AlwaysPattern(call[w])}
           [] OTHER -> {})]
  /\ lock' = [lock EXCEPT ![r] = IF line = "a" THEN w ELSE Nobody]
  /\ IF line = "n" THEN Ends(w)
     ELSE Goes(w, IF line = "a" THEN "saving" ELSE "hooks") /\ UNCHANGED <<call, held>>
  /\ loaded' = [loaded EXCEPT ![r] = IF line = "a" THEN rules ELSE @]  \* AddRule's Load
  /\ UNCHANGED <<disk, rules, policy, stale, made, cancelled>>

(* Readers of cancelled prompts still wait on the same terminal: one of    *)
(* them may take the line instead, and nobody reads its channel.           *)
LineLost(r) ==
  /\ lock[r] # Nobody /\ pc[lock[r]] = "asking" /\ stale[r] > 0
  /\ stale' = [stale EXCEPT ![r] = @ - 1]
  /\ UNCHANGED <<disk, rules, loaded, policy, answered, lock, pc, call, held, made, cancelled>>

(* The context of the worker ends (timeout, Ctrl-C).                       *)
Cancel(w) ==
  /\ w \notin cancelled /\ Cardinality(cancelled) < MaxCancels
  /\ cancelled' = cancelled \union {w}
  /\ pc' = [pc EXCEPT ![w] = IF @ = "idle" THEN "done" ELSE @]
  /\ UNCHANGED <<gate, disk, call, held, made>>

(* The prompt on screen gives up, its reader stays behind.                 *)
PromptCancelled(w) ==
  /\ pc[w] = "asking" /\ w \in cancelled
  /\ stale' = [stale EXCEPT ![RunOf[w]] = @ + 1]
  /\ lock' = [lock EXCEPT ![RunOf[w]] = Nobody]
  /\ Ends(w)
  /\ UNCHANGED <<disk, rules, loaded, policy, answered, made, cancelled>>

(* AddRule's Save and LoadMerged: the file is rewritten from what was      *)
(* loaded; a save that fails keeps the old rules and the old policy.       *)
SaveRule(w) ==
  LET r == RunOf[w]
      updated == [loaded[r] EXCEPT !["allow"] = @ \union {AlwaysPattern(call[w])}]
  IN /\ pc[w] = "saving"
     /\ \/ rules' = updated /\ policy' = [policy EXCEPT ![r] = updated]
        \/ UNCHANGED <<rules, policy>>
     /\ lock' = [lock EXCEPT ![r] = Nobody]
     /\ loaded' = [loaded EXCEPT ![r] = Nobody]
     /\ Goes(w, "hooks")
     /\ UNCHANGED <<disk, answered, stale, call, held, made, cancelled>>

-----------------------------------------------------------------------------
(* Pre hooks run on an allowed call; one that exits 2 blocks it.           *)
Blocked(w) == /\ pc[w] = "hooks" /\ Ends(w)
              /\ UNCHANGED <<gate, disk, made, cancelled>>
Unhooked(w) ==
  /\ pc[w] = "hooks"
  /\ Goes(w, IF call[w].tool \in FileTools THEN "snapshot" ELSE "run")
  /\ UNCHANGED <<gate, disk, call, held, made, cancelled>>

(* checkpoint reads the file and stores the blob ...                       *)
Snapshot(w) ==
  /\ pc[w] = "snapshot"
  /\ held' = [held EXCEPT ![w] = file[Snapped[call[w].name]]]
  /\ Goes(w, "row")
  /\ UNCHANGED <<gate, disk, call, made, cancelled>>

(* ... then inserts the row with the next seq of the session.              *)
InsertRow(w) ==
  /\ pc[w] = "row"
  /\ rows' = Append(rows, [run |-> RunOf[w], name |-> call[w].name, before |-> held[w]])
  /\ Goes(w, "run")
  /\ held' = [held EXCEPT ![w] = Absent]
  /\ UNCHANGED <<gate, file, undo, before, spoiled, undone, call, made, cancelled>>

(* A checkpoint that fails is a warning: the call goes on.                 *)
CheckpointFails(w) ==
  /\ pc[w] \in {"snapshot", "row"}
  /\ spoiled' = spoiled \union {<<RunOf[w], Written[call[w].name]>>}
  /\ Goes(w, "run")
  /\ held' = [held EXCEPT ![w] = Absent]
  /\ UNCHANGED <<gate, file, rows, undo, before, undone, call, made, cancelled>>

-----------------------------------------------------------------------------
(* The sentinel refuses the call after the gate and the checkpoint, or the *)
(* tool returns an error and changes nothing.                              *)
NoEffect(w) == /\ pc[w] = "run" /\ Ends(w)
               /\ UNCHANGED <<gate, disk, made, cancelled>>

(* WriteFile: the new content, and what the history remembers of it.       *)
Puts(w, content) ==
  LET r == RunOf[w]
      f == Written[call[w].name]
  IN /\ file' = [file EXCEPT ![f] = content]
     /\ before' = IF <<r, f>> \in DOMAIN before THEN before
                  ELSE [at \in DOMAIN before \union {<<r, f>>} |->
                          IF at = <<r, f>> THEN file[f] ELSE before[at]]
     /\ spoiled' = spoiled \union {<<other, f>> : other \in Runs \ {r}}
     /\ undone' = undone \ {r}
     /\ UNCHANGED <<rows, undo>>

WriteFile(w) ==
  /\ pc[w] = "run" /\ call[w].tool = "write_file"
  /\ Puts(w, {<<w, made[w]>>})
  /\ Ends(w)
  /\ UNCHANGED <<gate, made, cancelled>>

(* edit_file reads, replaces, writes: nothing keeps another worker out.    *)
EditRead(w) ==
  /\ pc[w] = "run" /\ call[w].tool = "edit_file"
  /\ file[Written[call[w].name]] # Absent
  /\ held' = [held EXCEPT ![w] = file[Written[call[w].name]]]
  /\ Goes(w, "edit")
  /\ UNCHANGED <<gate, disk, call, made, cancelled>>
EditWrite(w) ==
  /\ pc[w] = "edit"
  /\ Puts(w, held[w] \union {<<w, made[w]>>})
  /\ Ends(w)
  /\ UNCHANGED <<gate, made, cancelled>>

(* A command may change any file; no checkpoint is taken.                  *)
RunCommand(w, f) ==
  /\ pc[w] = "run" /\ call[w].tool = "run_command"
  /\ file' = [file EXCEPT ![f] = {<<w, made[w]>>}]
  /\ spoiled' = spoiled \union {<<r, f>> : r \in Runs}
  /\ Ends(w)
  /\ UNCHANGED <<gate, rows, undo, before, undone, made, cancelled>>

-----------------------------------------------------------------------------
(* The seqs of the run's rows, and of those of one path.                   *)
RowsOf(r) == {seq \in DOMAIN rows : rows[seq].run = r}
Checkpoints(r, n) == {seq \in RowsOf(r) : rows[seq].name = n}

\* broken: the last checkpoint of a path wins.
Earliest_Last(r, n) == rows[Max(Checkpoints(r, n))].before
(* sessionFileChanges keeps the first checkpoint of each path.             *)
Earliest(r, n) == rows[Min(Checkpoints(r, n))].before

Quiet(r) == \A w \in Workers : RunOf[w] = r => pc[w] \in {"idle", "done"}

(* `uta undo r`, typed when the run is at rest.                            *)
UndoStarts(r) ==
  /\ undo = Nobody /\ Quiet(r) /\ r \notin undone /\ RowsOf(r) # {}
  /\ undo' = [run |-> r, left |-> {rows[seq].name : seq \in RowsOf(r)}, made |-> made]
  /\ UNCHANGED <<gate, file, rows, before, spoiled, undone, pc, call, held, made, cancelled>>

(* One file: removed if it did not exist, rewritten otherwise (paths in    *)
(* their order, which names stand for no particular one of).               *)
UndoOne(n) ==
  /\ undo # Nobody /\ n \in undo.left
  /\ file' = [file EXCEPT ![Snapped[n]] = Earliest(undo.run, n)]
  /\ spoiled' = spoiled \union {<<r, Snapped[n]>> : r \in Runs \ {undo.run}}
  /\ undo' = [undo EXCEPT !.left = @ \ {n}]
  /\ UNCHANGED <<gate, rows, before, undone, pc, call, held, made, cancelled>>
(* The first file that cannot be put back ends the undo.                   *)
UndoFails ==
  /\ undo # Nobody /\ undo.left # {} /\ undo' = Nobody
  /\ UNCHANGED <<gate, file, rows, before, spoiled, undone, pc, call, held, made, cancelled>>
UndoEnds ==
  /\ undo # Nobody /\ undo.left = {}
  /\ undone' = IF made = undo.made THEN undone \union {undo.run} ELSE undone
  /\ undo' = Nobody
  /\ UNCHANGED <<gate, file, rows, before, spoiled, pc, call, held, made, cancelled>>

-----------------------------------------------------------------------------
Init ==
  /\ rules = FirstRules
  /\ loaded = [r \in Runs |-> Nobody]
  /\ policy = [r \in Runs |-> FirstRules]
  /\ answered = [r \in Runs |-> {}]
  /\ lock = [r \in Runs |-> Nobody]
  /\ stale = [r \in Runs |-> 0]
  /\ pc = [w \in Workers |-> "idle"]
  /\ call = [w \in Workers |-> Idle]
  /\ held = [w \in Workers |-> Absent]
  /\ made = [w \in Workers |-> 0]
  /\ cancelled = {}
  /\ file \in [Files -> {Absent, {}}]
  /\ rows = <<>> /\ undo = Nobody
  /\ before = <<>> /\ spoiled = {} /\ undone = {}

Prompting(w) ==
  \/ \E c \in Calls : Check(w, c)
  \/ TakeMutex(w)
  \/ \E line \in {"y", "s", "a", "n"} : Answer(w, line)
  \/ Cancel(w)
  \/ PromptCancelled(w)
  \/ SaveRule(w)

Acting(w) ==
  \/ Blocked(w) \/ Unhooked(w)
  \/ Snapshot(w) \/ InsertRow(w) \/ CheckpointFails(w)
  \/ NoEffect(w)
  \/ WriteFile(w) \/ EditRead(w) \/ EditWrite(w)
  \/ \E f \in Files : RunCommand(w, f)

Undoing ==
  \/ \E r \in Runs : UndoStarts(r)
  \/ \E n \in Names : UndoOne(n)
  \/ UndoFails \/ UndoEnds

Next ==
  \/ \E w \in Workers : Prompting(w) \/ Acting(w)
  \/ \E r \in Runs : LineLost(r)
  \/ Undoing

Spec == Init /\ [][Next]_vars

-----------------------------------------------------------------------------
(* An undo that ended without an error put every file the run wrote back   *)
(* to what it held before the run's first write, however the checkpoints   *)
(* of its workers interleaved with their writes - unless a checkpoint of   *)
(* that file failed or somebody else (another run, a command) wrote it.    *)
UndoRestores ==
  \A at \in DOMAIN before :
    at[1] \in undone /\ at \notin spoiled => file[at[2]] = before[at]

(* While a prompt is on screen no earlier answer of the run covers its     *)
(* call: "s" and "a" given to one worker reach the workers already waiting *)
(* for the mutex.                                                          *)
NotAskedAgain ==
  \A w \in Workers :
    pc[w] = "asking" => ~ SessionOK(RunOf[w], call[w])
=============================================================================
