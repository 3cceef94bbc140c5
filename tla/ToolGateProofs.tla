---------------------------- MODULE ToolGateProofs ----------------------------
(***************************************************************************)
(* What the permissions gate and the checkpoints keep for every number of  *)
(* runs and workers sharing a work directory, and every rules file; and    *)
(* what the shell, its line editor and the capability gate keep.           *)
(***************************************************************************)
EXTENDS MCOperator, WellFoundedInduction, TLAPS

ToolNames == FileTools \union ReadOnly \union {"run_command"}
Asking == {"asking", "saving"}                        \* with the mutex held
Acts == {"hooks", "snapshot", "row", "run", "edit"}   \* allowed, and under way
Patterns == ToolNames \X (Names \union {Every})

(* The prompts: who waits, who has been answered, who holds the mutex.     *)
PromptsTyped ==
  /\ answered \in [Runs -> SUBSET Patterns]
  /\ lock \in [Runs -> Workers \union {Nobody}]
  /\ pc \in [Workers -> {"idle", "waiting", "done"} \union Asking \union Acts]
  /\ call \in [Workers -> Calls \union {Idle}]
  /\ \A w \in Workers : pc[w] \notin {"idle", "done"} => call[w] \in Calls

(* The mutex of a run is held by the worker whose prompt is on screen, or  *)
(* whose answer is being saved.                                            *)
AskerHoldsLock == \A w \in Workers : pc[w] \in Asking => lock[RunOf[w]] = w

PromptInv == PromptsTyped /\ AskerHoldsLock /\ NotAskedAgain

LEMMA PromptInitInv == Init => PromptInv
  BY DEF Init, PromptInv, PromptsTyped, AskerHoldsLock, NotAskedAgain, Asking, Acts

(* A worker that is not asking moves on without a new answer.              *)
LEMMA PromptKept ==
    ASSUME PromptInv, NEW w \in Workers, UNCHANGED <<answered, lock>>, PromptsTyped',
           pc'[w] \notin Asking,
           \A v \in Workers \ {w} : pc'[v] = pc[v] /\ call'[v] = call[v]
    PROVE  PromptInv'
  BY DEF PromptInv, PromptsTyped, AskerHoldsLock, NotAskedAgain, SessionOK, AlwaysPattern, Asking

LEMMA EndsPrompt ==
    ASSUME PromptInv, NEW w \in Workers, Ends(w)
    PROVE  /\ pc'[w] \in {"idle", "done"} /\ call'[w] = Idle
           /\ pc' \in [Workers -> {"idle", "waiting", "done"} \union Asking \union Acts]
           /\ call' \in [Workers -> Calls \union {Idle}]
           /\ \A v \in Workers \ {w} : pc'[v] = pc[v] /\ call'[v] = call[v]
  BY DEF Ends, Goes, PromptInv, PromptsTyped

LEMMA CheckPrompt ==
    ASSUME PromptInv, NEW w \in Workers, NEW c \in Calls, Check(w, c) PROVE PromptInv'
<1>1. /\ pc[w] = "idle" /\ UNCHANGED <<answered, lock>>
      /\ \/ UNCHANGED <<pc, call>>
         \/ \E place \in {"hooks", "waiting"} : Goes(w, place) /\ call' = [call EXCEPT ![w] = c]
  BY DEF Check, gate
<1>2. PromptsTyped'
  BY <1>1 DEF PromptInv, PromptsTyped, Goes, Acts
<1>. QED
  BY <1>1, <1>2, PromptKept DEF PromptInv, PromptsTyped, Goes, Asking

LEMMA MutexPrompt ==
    ASSUME PromptInv, NEW w \in Workers, TakeMutex(w) PROVE PromptInv'
<1>1. /\ pc[w] = "waiting" /\ lock[RunOf[w]] = Nobody /\ UNCHANGED <<answered, call>>
      /\ RunOf[w] \in Runs
  BY ToolGateAssumption DEF TakeMutex
<1>2. CASE ~SessionOK(RunOf[w], call[w]) /\ Goes(w, "asking") /\ lock' = [lock EXCEPT ![RunOf[w]] = w]
  BY <1>1, <1>2, ToolGateAssumption
  DEF PromptInv, PromptsTyped, AskerHoldsLock, NotAskedAgain, SessionOK, AlwaysPattern, Goes, Asking
<1>3. CASE Goes(w, "hooks") /\ UNCHANGED lock
  <2>1. PromptsTyped'
    BY <1>1, <1>3 DEF PromptInv, PromptsTyped, Goes, Acts
  <2>. QED
    BY <1>1, <1>3, <2>1, PromptKept DEF PromptInv, PromptsTyped, Goes, Asking
<1>. QED
  BY <1>2, <1>3 DEF TakeMutex, StillOpen

(* The worker that holds the mutex is answered, gives up, or has its rule  *)
(* saved: no other prompt of its run is on screen.                         *)
LEMMA AskerMoves ==
    ASSUME PromptInv, NEW w \in Workers, pc[w] \in Asking, pc'[w] # "asking",
           pc'[w] = "saving" => lock'[RunOf[w]] = w,
           \A v \in Workers \ {w} : pc'[v] = pc[v] /\ call'[v] = call[v],
           \A r \in Runs \ {RunOf[w]} : lock'[r] = lock[r] /\ answered'[r] = answered[r],
           PromptsTyped'
    PROVE  PromptInv'
<1>1. \A v \in Workers \ {w} : pc[v] \in Asking => RunOf[v] \in Runs \ {RunOf[w]}
  BY ToolGateAssumption DEF PromptInv, AskerHoldsLock
<1>2. AskerHoldsLock'
  BY <1>1, ToolGateAssumption DEF PromptInv, AskerHoldsLock, Asking
<1>3. ASSUME NEW v \in Workers, pc'[v] = "asking"
      PROVE  ~SessionOK(RunOf[v], call[v])'
  <2>1. /\ v # w /\ pc[v] = "asking" /\ call'[v] = call[v]
        /\ answered'[RunOf[v]] = answered[RunOf[v]]
    BY <1>1, <1>3 DEF Asking
  <2>2. ~SessionOK(RunOf[v], call[v])
    BY <2>1 DEF PromptInv, NotAskedAgain
  <2>. QED
    BY <2>1, <2>2 DEF SessionOK
<1>. QED
  BY <1>2, <1>3 DEF PromptInv, NotAskedAgain

LEMMA AnswerPrompt ==
    ASSUME PromptInv, NEW w \in Workers, NEW line \in {"y", "s", "a", "n"}, Answer(w, line)
    PROVE  PromptInv'
<1>1. /\ pc[w] = "asking" /\ RunOf[w] \in Runs /\ call[w] \in Calls /\ PromptsTyped
      /\ lock' = [lock EXCEPT ![RunOf[w]] = IF line = "a" THEN w ELSE Nobody]
  BY ToolGateAssumption DEF Answer, PromptInv, PromptsTyped
<1>2. \/ line = "n" /\ Ends(w)
      \/ /\ line # "n" /\ Goes(w, IF line = "a" THEN "saving" ELSE "hooks")
         /\ UNCHANGED call
  BY DEF Answer
<1>3. PICK new \in SUBSET Patterns :
         answered' = [answered EXCEPT ![RunOf[w]] = @ \union new]
  <2>1. {<<call[w].tool, Every>>} \in SUBSET Patterns /\ {AlwaysPattern(call[w])} \in SUBSET Patterns
    BY <1>1, ToolGateAssumption DEF Patterns, ToolNames, AlwaysPattern
  <2>. QED
    BY <1>1, <2>1 DEF Answer
<1>4. answered' \in [Runs -> SUBSET Patterns] /\ lock' \in [Runs -> Workers \union {Nobody}]
  BY <1>1, <1>3 DEF PromptsTyped
<1>5. PromptsTyped' /\ pc'[w] # "asking" /\ (pc'[w] = "saving" => line = "a")
      /\ \A v \in Workers \ {w} : pc'[v] = pc[v] /\ call'[v] = call[v]
  BY <1>1, <1>2, <1>4, EndsPrompt DEF PromptsTyped, Goes, Asking, Acts
<1>6. \A r \in Runs \ {RunOf[w]} : lock'[r] = lock[r] /\ answered'[r] = answered[r]
  BY <1>1, <1>3 DEF PromptsTyped
<1>. QED
  BY <1>1, <1>5, <1>6, AskerMoves DEF Asking, PromptsTyped

LEMMA PromptCancelledPrompt ==
    ASSUME PromptInv, NEW w \in Workers, PromptCancelled(w) PROVE PromptInv'
<1>1. /\ pc[w] = "asking" /\ RunOf[w] \in Runs /\ PromptsTyped /\ Ends(w)
      /\ lock' = [lock EXCEPT ![RunOf[w]] = Nobody] /\ answered' = answered
  BY ToolGateAssumption DEF PromptCancelled, PromptInv
<1>2. PromptsTyped'
  BY <1>1, EndsPrompt DEF PromptsTyped
<1>. QED
  BY <1>1, <1>2, EndsPrompt, AskerMoves DEF Asking, PromptsTyped

LEMMA SaveRulePrompt ==
    ASSUME PromptInv, NEW w \in Workers, SaveRule(w) PROVE PromptInv'
<1>1. /\ pc[w] = "saving" /\ RunOf[w] \in Runs /\ PromptsTyped /\ Goes(w, "hooks")
      /\ lock' = [lock EXCEPT ![RunOf[w]] = Nobody] /\ UNCHANGED <<answered, call>>
  BY ToolGateAssumption DEF SaveRule, PromptInv
<1>2. PromptsTyped'
  BY <1>1 DEF PromptsTyped, Goes, Asking, Acts
<1>. QED
  BY <1>1, <1>2, AskerMoves DEF Goes, Asking, PromptsTyped

LEMMA CancelPrompt ==
    ASSUME PromptInv, NEW w \in Workers, Cancel(w) PROVE PromptInv'
<1>1. /\ pc' = [pc EXCEPT ![w] = IF @ = "idle" THEN "done" ELSE @]
      /\ UNCHANGED <<answered, lock, call>>
  BY DEF Cancel, gate
<1>. QED
  BY <1>1 DEF PromptInv, PromptsTyped, AskerHoldsLock, NotAskedAgain, SessionOK, AlwaysPattern,
     Asking

(* What an allowed call does is no business of the prompts.                *)
LEMMA ActingPrompt ==
    ASSUME PromptInv, NEW w \in Workers, Acting(w) PROVE PromptInv'
<1>1. UNCHANGED <<answered, lock>> /\ pc[w] \in Acts
  BY DEF Acting, Blocked, Unhooked, Snapshot, InsertRow, CheckpointFails, NoEffect, WriteFile,
     EditRead, EditWrite, RunCommand, gate, Acts
<1>2. Ends(w) \/ \E place \in Acts : Goes(w, place) /\ UNCHANGED call
  BY DEF Acting, Blocked, Unhooked, Snapshot, InsertRow, CheckpointFails, NoEffect, WriteFile,
     EditRead, EditWrite, RunCommand, Acts
<1>3. CASE Ends(w)
  <2>1. PromptsTyped'
    BY <1>1, <1>3, EndsPrompt DEF PromptInv, PromptsTyped
  <2>. QED
    BY <1>1, <1>3, <2>1, EndsPrompt, PromptKept DEF Asking
<1>4. CASE \E place \in Acts : Goes(w, place) /\ UNCHANGED call
  <2>1. PromptsTyped'
    BY <1>1, <1>4 DEF PromptInv, PromptsTyped, Goes, Acts
  <2>. QED
    BY <1>1, <1>4, <2>1, PromptKept DEF PromptInv, PromptsTyped, Goes, Asking, Acts
<1>. QED
  BY <1>2, <1>3, <1>4

LEMMA PromptStepInv == PromptInv /\ [Next]_vars => PromptInv'
<1>1. ASSUME PromptInv, Undoing \/ (\E r \in Runs : LineLost(r)) \/ UNCHANGED vars
      PROVE  PromptInv'
  <2>1. UNCHANGED <<answered, lock, pc, call>>
    BY <1>1 DEF Undoing, UndoStarts, UndoOne, UndoFails, UndoEnds, LineLost, vars, gate
  <2>. QED
    BY <1>1, <2>1 DEF PromptInv, PromptsTyped, AskerHoldsLock, NotAskedAgain, SessionOK, AlwaysPattern
<1>. QED
  BY <1>1, CheckPrompt, MutexPrompt, AnswerPrompt, PromptCancelledPrompt, SaveRulePrompt,
     CancelPrompt, ActingPrompt
  DEF Next, Prompting

(* While a prompt is on screen no answer the run was given before covers   *)
(* its call: prompt looks again once it has the gate's mutex, and only the *)
(* worker that holds the mutex is given answers.                           *)
THEOREM GateNotAskedAgain == Spec => []NotAskedAgain
<1>1. PromptInv => NotAskedAgain
  BY DEF PromptInv
<1>. QED
  BY PromptInitInv, PromptStepInv, <1>1, PTL DEF Spec

-----------------------------------------------------------------------------
(* Where UndoRestores holds: the gate and the tool agree on the file of a  *)
(* path, and no file has two paths.                                        *)
OneNamePerFile ==
  /\ \A n \in Names : Snapped[n] = Written[n]
  /\ \A m, n \in Names : Written[m] = Written[n] => m = n

Texts == SUBSET (Workers \X Nat)
Contents == Texts \union {Absent}
Row == [run : Runs, name : Names, before : Contents]
Undo == [run : Runs, left : SUBSET Names, made : [Workers -> Nat]]

FilesTyped ==
  /\ file \in [Files -> Contents] /\ held \in [Workers -> Contents]
  /\ made \in [Workers -> Nat] /\ rows \in Seq(Row)
  /\ spoiled \subseteq Runs \X Files
  /\ \A at \in DOMAIN before : \E r \in Runs, n \in Names : at = <<r, Written[n]>>
  /\ \A w \in Workers : pc[w] \in {"snapshot", "row", "edit"} => call[w].tool \in FileTools
  /\ \A w \in Workers : pc[w] = "edit" => held[w] \in Texts

(* An undo puts back files its run has checkpoints of; while no call has   *)
(* been made since it started, the run is at rest.                         *)
UndoTyped ==
  undo # Nobody =>
    /\ undo \in Undo
    /\ \A n \in undo.left : Checkpoints(undo.run, n) # {}
    /\ \A w \in Workers : undo.made[w] <= made[w]
    /\ undo.made = made => Quiet(undo.run)

(* What a run has to do with a file that nobody else has touched and no    *)
(* checkpoint of which has failed.                                         *)
NotWritten(r, n) ==      \* until its first write, what is kept is what is there
  <<r, Written[n]>> \notin DOMAIN before =>
    /\ \A seq \in Checkpoints(r, n) : rows[seq].before = file[Written[n]]
    /\ \A w \in Workers :
         RunOf[w] = r /\ pc[w] = "row" /\ call[w].name = n => held[w] = file[Written[n]]

Kept(r, n) ==            \* no write without a checkpoint before it
  \A w \in Workers :
    RunOf[w] = r /\ pc[w] \in {"run", "edit"} /\ call[w].tool \in FileTools /\ call[w].name = n
      => Checkpoints(r, n) # {}

PutBack(r, n) == file[Written[n]] = before[<<r, Written[n]>>]
IsUndone(r, n) ==        \* an undo is over, or past this file, with no call since
  \/ r \in undone
  \/ undo # Nobody /\ undo.run = r /\ undo.made = made /\ n \notin undo.left

WasWritten(r, n) ==
  <<r, Written[n]>> \in DOMAIN before =>
    /\ Checkpoints(r, n) # {}
    /\ Earliest(r, n) = before[<<r, Written[n]>>]
    /\ IsUndone(r, n) => PutBack(r, n)

CheckpointOK(r, n) ==
  <<r, Written[n]>> \notin spoiled => NotWritten(r, n) /\ Kept(r, n) /\ WasWritten(r, n)

CheckpointsOK == \A r \in Runs, n \in Names : CheckpointOK(r, n)

FilesInv == PromptsTyped /\ FilesTyped /\ UndoTyped /\ CheckpointsOK

-----------------------------------------------------------------------------
LEMMA MinIsLeast ==
    ASSUME NEW S \in SUBSET Nat, S # {}
    PROVE  Min(S) \in S /\ \A n \in S : Min(S) <= n
<1>. DEFINE Less == OpToRel(<, Nat)
<1>1. \A m, n \in Nat : m < n => <<m, n>> \in Less
  BY DEF OpToRel
<1>2. IsWellFoundedOn(Less, Nat)
  BY NatLessThanWellFounded, Zenon DEF OpToRel
<1>. HIDE DEF Less
<1>3. PICK m \in S : \A n \in S : ~(<<n, m>> \in Less)
  BY <1>2, WFMin
<1>4. \A n \in S : m <= n
  <2>1. \A n \in S : n \in Nat /\ m \in Nat /\ ~(n < m)
    BY <1>1, <1>3
  <2>. QED
    BY <2>1
<1>. QED
  BY <1>4, Zenon DEF Min

LEMMA CheckpointSeqs ==
    ASSUME rows \in Seq(Row), NEW r \in Runs, NEW n \in Names
    PROVE  /\ Checkpoints(r, n) \subseteq DOMAIN rows /\ DOMAIN rows \subseteq Nat
           /\ Checkpoints(r, n) # {} =>
                 /\ Min(Checkpoints(r, n)) \in Checkpoints(r, n)
                 /\ Earliest(r, n) \in Contents
<1>1. Checkpoints(r, n) \subseteq DOMAIN rows /\ DOMAIN rows \subseteq Nat
  BY DEF Checkpoints, RowsOf
<1>2. Checkpoints(r, n) # {} => Min(Checkpoints(r, n)) \in Checkpoints(r, n)
  BY <1>1, MinIsLeast
<1>3. \A seq \in DOMAIN rows : rows[seq] \in Row
  OBVIOUS
<1>. QED
  BY <1>1, <1>2, <1>3 DEF Earliest, Row

(* A row that is inserted has the highest seq: what was the first          *)
(* checkpoint of a path stays the first.                                   *)
LEMMA RowInserted ==
    ASSUME rows \in Seq(Row), NEW row \in Row, rows' = Append(rows, row),
           NEW r \in Runs, NEW n \in Names
    PROVE  /\ rows' \in Seq(Row)
           /\ Checkpoints(r, n) \subseteq Checkpoints(r, n)'
           /\ row.run = r /\ row.name = n => Checkpoints(r, n)' # {}
           /\ \A seq \in Checkpoints(r, n)' :
                 \/ seq \in Checkpoints(r, n) /\ rows'[seq] = rows[seq]
                 \/ row.run = r /\ row.name = n /\ rows'[seq] = row
           /\ Checkpoints(r, n) # {} => Earliest(r, n)' = Earliest(r, n)
<1>. DEFINE new == Len(rows) + 1
            Old == Checkpoints(r, n)
<1>1. /\ rows' \in Seq(Row) /\ DOMAIN rows' = DOMAIN rows \union {new} /\ rows'[new] = row
      /\ \A seq \in DOMAIN rows : rows'[seq] = rows[seq] /\ seq < new
      /\ DOMAIN rows \subseteq Nat /\ new \in Nat
  OBVIOUS
<1>2. Checkpoints(r, n)' = Old \union {seq \in {new} : row.run = r /\ row.name = n}
  BY <1>1 DEF Checkpoints, RowsOf
<1>3. Old \subseteq DOMAIN rows
  BY DEF Checkpoints, RowsOf
<1>4. ASSUME Old # {} PROVE Earliest(r, n)' = Earliest(r, n)
  <2>1. /\ Old \in SUBSET Nat /\ Checkpoints(r, n)' \in SUBSET Nat /\ Checkpoints(r, n)' # {}
    BY <1>1, <1>2, <1>3, <1>4
  <2>2. Min(Old) \in Old /\ \A m \in Old : Min(Old) <= m
    BY <1>4, <2>1, MinIsLeast
  <2>3. Min(Checkpoints(r, n)') \in Checkpoints(r, n)'
        /\ \A m \in Checkpoints(r, n)' : Min(Checkpoints(r, n)') <= m
    BY <2>1, MinIsLeast
  <2>4. Min(Checkpoints(r, n)') <= Min(Old) /\ Min(Checkpoints(r, n)') # new
    <3>1. Min(Old) \in Checkpoints(r, n)' /\ Min(Old) \in DOMAIN rows
      BY <1>2, <1>3, <2>2
    <3>2. Min(Checkpoints(r, n)') <= Min(Old) /\ Min(Old) < new
      BY <1>1, <2>3, <3>1
    <3>. QED
      BY <1>1, <2>1, <2>3, <3>1, <3>2
  <2>5. Min(Checkpoints(r, n)') \in Old
    BY <1>2, <2>3, <2>4
  <2>6. Min(Checkpoints(r, n)') = Min(Old)
    <3>1. /\ Min(Checkpoints(r, n)') \in Nat /\ Min(Old) \in Nat
          /\ Min(Checkpoints(r, n)') <= Min(Old) /\ Min(Old) <= Min(Checkpoints(r, n)')
      BY <2>1, <2>2, <2>4, <2>5
    <3>. QED
      BY <3>1
  <2>. QED
    BY <1>1, <1>3, <2>2, <2>6 DEF Earliest
<1>. QED
  BY <1>1, <1>2, <1>3, <1>4

-----------------------------------------------------------------------------
LEMMA FilesInit == Init => FilesInv
<1>. SUFFICES ASSUME Init PROVE FilesInv
  OBVIOUS
<1>1. rows = <<>> /\ before = <<>> /\ undo = Nobody /\ undone = {}
  BY DEF Init
<1>2. rows \in Seq(Row) /\ DOMAIN before = {} /\ \A r \in Runs, n \in Names : Checkpoints(r, n) = {}
  BY <1>1 DEF Checkpoints, RowsOf
<1>3. file \in [Files -> Contents]
  BY DEF Init, Contents, Texts
<1>4. \A w \in Workers : pc[w] = "idle"
  BY DEF Init
<1>5. FilesTyped
  BY <1>2, <1>3, <1>4 DEF Init, FilesTyped, Contents
<1>6. CheckpointsOK
  BY <1>2, <1>4 DEF CheckpointsOK, CheckpointOK, NotWritten, Kept, WasWritten
<1>. QED
  BY <1>1, <1>5, <1>6, PromptInitInv DEF FilesInv, UndoTyped, PromptInv

(* The undo does not notice a step of a worker, but for a call it makes.   *)
LEMMA UndoKept ==
    ASSUME FilesInv, undo' = undo, NEW w \in Workers,
           \A v \in Workers \ {w} : pc'[v] = pc[v],
           \/ made' = [made EXCEPT ![w] = @ + 1]
           \/ made' = made /\ (pc[w] \in {"idle", "done"} => pc'[w] \in {"idle", "done"}),
           \A r \in Runs, n \in Names : Checkpoints(r, n) # {} => Checkpoints(r, n)' # {}
    PROVE  UndoTyped' /\ (undo # Nobody /\ undo.made = made' => made' = made)
<1>. SUFFICES ASSUME undo # Nobody
              PROVE  UndoTyped' /\ (undo.made = made' => made' = made)
  BY DEF UndoTyped
<1>1. /\ undo \in Undo /\ made \in [Workers -> Nat]
      /\ \A n \in undo.left : Checkpoints(undo.run, n) # {}
      /\ \A v \in Workers : undo.made[v] <= made[v]
      /\ undo.made = made => Quiet(undo.run)
  BY DEF FilesInv, UndoTyped, FilesTyped
<1>2. undo.run \in Runs /\ undo.left \subseteq Names /\ undo.made \in [Workers -> Nat]
  BY <1>1 DEF Undo
<1>3. /\ \A v \in Workers : undo.made[v] <= made'[v]
      /\ undo.made = made' => made' = made
  BY <1>1, <1>2
<1>4. ASSUME undo.made = made' PROVE Quiet(undo.run)'
  <2>1. Quiet(undo.run) /\ (pc[w] \in {"idle", "done"} => pc'[w] \in {"idle", "done"})
    BY <1>1, <1>2, <1>3, <1>4
  <2>. QED
    BY <2>1 DEF Quiet
<1>. QED
  BY <1>1, <1>2, <1>3, <1>4 DEF UndoTyped

(* A step that writes no file and inserts no row: a worker that snapshots  *)
(* reads what is there, one that goes on without a row has spoiled it.     *)
LEMMA CheckpointsKept ==
    ASSUME CheckpointsOK, UNCHANGED <<file, rows, before, undone, undo>>, spoiled \subseteq spoiled',
           undo # Nobody /\ undo.made = made' => made' = made,
           NEW w \in Workers,
           \A v \in Workers \ {w} : pc'[v] = pc[v] /\ call'[v] = call[v] /\ held'[v] = held[v],
           pc'[w] = "row" =>
              \/ pc[w] = "row" /\ call'[w] = call[w] /\ held'[w] = held[w]
              \/ held'[w] = file[Written[call'[w].name]],
           pc'[w] \in {"run", "edit"} /\ call'[w].tool \in FileTools =>
              \/ pc[w] \in {"run", "edit"} /\ call'[w] = call[w]
              \/ <<RunOf[w], Written[call'[w].name]>> \in spoiled'
    PROVE  CheckpointsOK'
<1>. SUFFICES ASSUME NEW r \in Runs, NEW n \in Names, <<r, Written[n]>> \notin spoiled'
              PROVE  NotWritten(r, n)' /\ Kept(r, n)' /\ WasWritten(r, n)'
  BY DEF CheckpointsOK, CheckpointOK
<1>1. NotWritten(r, n) /\ Kept(r, n) /\ WasWritten(r, n)
  BY DEF CheckpointsOK, CheckpointOK
<1>2. Checkpoints(r, n)' = Checkpoints(r, n) /\ Earliest(r, n)' = Earliest(r, n)
  BY DEF Checkpoints, RowsOf, Earliest
<1>3. NotWritten(r, n)'
  BY <1>1, <1>2 DEF NotWritten
<1>4. Kept(r, n)'
  BY <1>1, <1>2 DEF Kept
<1>5. WasWritten(r, n)'
  BY <1>1, <1>2 DEF WasWritten, IsUndone, PutBack
<1>. QED
  BY <1>3, <1>4, <1>5

-----------------------------------------------------------------------------
(* Only w moves, and its types are kept.                                   *)
Alone(w) ==
  \A v \in Workers \ {w} :
     pc'[v] = pc[v] /\ call'[v] = call[v] /\ held'[v] = held[v] /\ made'[v] = made[v]

LEMMA EndsAlone ==
    ASSUME FilesInv, NEW w \in Workers, Ends(w), made' = made
    PROVE  /\ Alone(w) /\ pc'[w] \in {"idle", "done"}
           /\ held' \in [Workers -> Contents]
  BY DEF FilesInv, PromptsTyped, FilesTyped, Contents, Ends, Goes, Alone

LEMMA GoesAlone ==
    ASSUME FilesInv, NEW w \in Workers, NEW place, Goes(w, place), made' = made, call' = call,
           held' = held \/ \E content \in Contents : held' = [held EXCEPT ![w] = content]
    PROVE  /\ Alone(w) /\ pc'[w] = place
           /\ held' \in [Workers -> Contents]
  BY DEF FilesInv, PromptsTyped, FilesTyped, Goes, Alone

(* Before a call is allowed nothing is read or written.                    *)
LEMMA PromptingFiles ==
    ASSUME FilesInv, PromptsTyped', NEW w \in Workers, Prompting(w)
    PROVE  FilesInv'
<1>1. UNCHANGED disk
  BY DEF Prompting, Check, TakeMutex, Answer, Cancel, PromptCancelled, SaveRule
<1>2. /\ Alone(w) /\ held' \in [Workers -> Contents] /\ made' \in [Workers -> Nat]
      /\ \/ made' = [made EXCEPT ![w] = @ + 1]
         \/ made' = made /\ (pc[w] \in {"idle", "done"} => pc'[w] \in {"idle", "done"})
      /\ \/ pc'[w] = pc[w] /\ call'[w] = call[w] /\ held'[w] = held[w]
         \/ pc'[w] \notin {"snapshot", "row", "run", "edit"}
  <2>0. PromptsTyped /\ FilesTyped
    BY DEF FilesInv
  <2>1. ASSUME NEW c \in Calls, Check(w, c)
        PROVE  /\ \A v \in Workers \ {w} : pc'[v] = pc[v] /\ call'[v] = call[v]
               /\ held' = held /\ made' = [made EXCEPT ![w] = @ + 1]
               /\ (pc' = pc /\ call' = call) \/ pc'[w] \in {"hooks", "waiting"}
    BY <2>0, <2>1 DEF Check, Goes, PromptsTyped
  <2>2. CASE \E c \in Calls : Check(w, c)
    <3>1. /\ \A v \in Workers \ {w} : pc'[v] = pc[v] /\ call'[v] = call[v]
          /\ held' = held /\ made' = [made EXCEPT ![w] = @ + 1]
          /\ (pc' = pc /\ call' = call) \/ pc'[w] \in {"hooks", "waiting"}
      BY <2>1, <2>2
    <3>2. made' \in [Workers -> Nat] /\ \A v \in Workers \ {w} : made'[v] = made[v]
      BY <2>0, <3>1 DEF FilesTyped
    <3>3. held' \in [Workers -> Contents]
      BY <2>0, <3>1 DEF FilesTyped
    <3>4. Alone(w)
      BY <3>1, <3>2 DEF Alone
    <3>. QED
      BY <3>1, <3>2, <3>3, <3>4
  <2>3. CASE TakeMutex(w) \/ SaveRule(w)
    <3>1. \E place \in {"asking", "hooks"} : Goes(w, place)
      BY <2>3 DEF TakeMutex, SaveRule
    <3>2. call' = call /\ held' = held /\ made' = made /\ pc[w] \in {"waiting", "saving"}
      BY <2>3 DEF TakeMutex, SaveRule
    <3>. QED
      BY <2>0, <3>1, <3>2, GoesAlone DEF FilesTyped
  <2>4. ASSUME NEW line \in {"y", "s", "a", "n"}, Answer(w, line)
        PROVE  /\ made' = made /\ pc[w] = "asking"
               /\ \/ Ends(w)
                  \/ held' = held /\ call' = call /\ \E place \in {"saving", "hooks"} : Goes(w, place)
    BY <2>4 DEF Answer
  <2>5. CASE \E line \in {"y", "s", "a", "n"} : Answer(w, line)
    BY <2>0, <2>4, <2>5, EndsAlone, GoesAlone DEF FilesTyped
  <2>6. CASE Cancel(w)
    BY <2>0, <2>6 DEF Cancel, FilesTyped, PromptsTyped, Alone
  <2>7. CASE PromptCancelled(w)
    <3>1. Ends(w) /\ made' = made /\ pc[w] = "asking"
      BY <2>7 DEF PromptCancelled
    <3>. QED
      BY <2>0, <3>1, EndsAlone DEF FilesTyped
  <2>. QED
    BY <2>2, <2>3, <2>5, <2>6, <2>7 DEF Prompting
<1>3. FilesTyped'
  BY <1>1, <1>2 DEF FilesInv, FilesTyped, disk, Alone
<1>4. UndoTyped' /\ (undo # Nobody /\ undo.made = made' => made' = made)
  <2>1. \A r \in Runs, n \in Names : Checkpoints(r, n)' = Checkpoints(r, n)
    BY <1>1 DEF Checkpoints, RowsOf, disk
  <2>. QED
    BY <1>1, <1>2, <2>1, UndoKept DEF disk, Alone
<1>5. CheckpointsOK'
  BY <1>1, <1>2, <1>4, CheckpointsKept DEF FilesInv, disk, Alone
<1>. QED
  BY <1>3, <1>4, <1>5 DEF FilesInv

(* Up to its write a call reads, and inserts a row; or it ends.            *)
LEMMA ReadingFiles ==
    ASSUME FilesInv, PromptsTyped', OneNamePerFile, NEW w \in Workers,
           \/ Blocked(w) \/ Unhooked(w) \/ NoEffect(w)
           \/ Snapshot(w) \/ CheckpointFails(w) \/ EditRead(w)
    PROVE  FilesInv'
<1>0. /\ PromptsTyped /\ FilesTyped /\ RunOf[w] \in Runs /\ made' = made
      /\ UNCHANGED <<file, rows, undo, before, undone>>
  BY ToolGateAssumption
  DEF FilesInv, Blocked, Unhooked, NoEffect, Snapshot, CheckpointFails, EditRead, disk
<1>1. pc[w] \in {"hooks", "snapshot", "row", "run"} /\ call[w] \in Calls
  BY <1>0 DEF Blocked, Unhooked, NoEffect, Snapshot, CheckpointFails, EditRead, PromptsTyped
<1>2. call[w].name \in Names
  BY <1>1, ToolGateAssumption
<1>3. /\ Alone(w) /\ held' \in [Workers -> Contents] /\ spoiled \subseteq spoiled'
      /\ pc'[w] \notin {"idle", "done"} => call'[w] = call[w]
      /\ spoiled' \subseteq Runs \X Files
      /\ \/ pc'[w] \in {"idle", "done"}
         \/ pc'[w] = "snapshot" /\ call[w].tool \in FileTools
         \/ pc'[w] = "run" /\ call[w].tool \notin FileTools
         \/ pc'[w] = "row" /\ pc[w] = "snapshot" /\ held'[w] = file[Written[call[w].name]]
         \/ pc'[w] = "run" /\ <<RunOf[w], Written[call[w].name]>> \in spoiled'
         \/ pc'[w] = "edit" /\ pc[w] = "run" /\ call[w].tool \in FileTools /\ held'[w] \in Texts
  <2>1. CASE Blocked(w) \/ NoEffect(w)
    <3>1. Ends(w) /\ spoiled' = spoiled
      BY <2>1 DEF Blocked, NoEffect, disk
    <3>. QED
      BY <1>0, <3>1, EndsAlone DEF FilesTyped
  <2>2. CASE Unhooked(w)
    <3>1. /\ Goes(w, IF call[w].tool \in FileTools THEN "snapshot" ELSE "run")
          /\ spoiled' = spoiled /\ call' = call /\ held' = held
      BY <2>2 DEF Unhooked, disk
    <3>. QED
      BY <1>0, <3>1, GoesAlone DEF FilesTyped
  <2>3. CASE Snapshot(w)
    <3>1. /\ held' = [held EXCEPT ![w] = file[Written[call[w].name]]] /\ Goes(w, "row")
          /\ spoiled' = spoiled /\ call' = call /\ pc[w] = "snapshot"
      BY <1>2, <2>3 DEF Snapshot, disk, OneNamePerFile
    <3>2. file[Written[call[w].name]] \in Contents
      BY <1>0, <1>2, ToolGateAssumption DEF FilesTyped
    <3>3. held'[w] = file[Written[call[w].name]]
      BY <1>0, <3>1 DEF FilesTyped
    <3>. QED
      BY <1>0, <3>1, <3>2, <3>3, GoesAlone DEF FilesTyped
  <2>4. CASE CheckpointFails(w)
    <3>1. /\ held' = [held EXCEPT ![w] = Absent] /\ Goes(w, "run") /\ call' = call
          /\ spoiled' = spoiled \union {<<RunOf[w], Written[call[w].name]>>}
      BY <2>4 DEF CheckpointFails
    <3>2. Absent \in Contents /\ <<RunOf[w], Written[call[w].name]>> \in Runs \X Files
      BY <1>0, <1>2, ToolGateAssumption DEF Contents
    <3>3. Alone(w) /\ held' \in [Workers -> Contents] /\ pc'[w] = "run"
      BY <1>0, <3>1, <3>2, GoesAlone
    <3>. QED
      BY <1>0, <3>1, <3>2, <3>3 DEF FilesTyped
  <2>5. CASE EditRead(w)
    <3>1. /\ held' = [held EXCEPT ![w] = file[Written[call[w].name]]] /\ Goes(w, "edit")
          /\ spoiled' = spoiled /\ call' = call /\ pc[w] = "run" /\ call[w].tool = "edit_file"
          /\ file[Written[call[w].name]] # Absent
      BY <2>5 DEF EditRead, disk
    <3>2. file[Written[call[w].name]] \in Texts /\ file[Written[call[w].name]] \in Contents
      BY <1>0, <1>2, <3>1, ToolGateAssumption DEF FilesTyped, Contents
    <3>3. held'[w] = file[Written[call[w].name]]
      BY <1>0, <3>1 DEF FilesTyped
    <3>. QED
      BY <1>0, <3>1, <3>2, <3>3, GoesAlone DEF FilesTyped, FileTools
  <2>. QED
    BY <2>1, <2>2, <2>3, <2>4, <2>5
<1>4. FilesTyped'
  BY <1>0, <1>3 DEF FilesTyped, Alone
<1>5. UndoTyped' /\ (undo # Nobody /\ undo.made = made' => made' = made)
  <2>1. \A r \in Runs, n \in Names : Checkpoints(r, n)' = Checkpoints(r, n)
    BY <1>0 DEF Checkpoints, RowsOf
  <2>. QED
    BY <1>0, <1>1, <1>3, <2>1, UndoKept DEF Alone
<1>6. CheckpointsOK'
  BY <1>0, <1>3, <1>5, CheckpointsKept DEF FilesInv, Alone
<1>. QED
  BY <1>4, <1>5, <1>6 DEF FilesInv

LEMMA InsertRowFiles ==
    ASSUME FilesInv, PromptsTyped', NEW w \in Workers, InsertRow(w)
    PROVE  FilesInv'
<1>. DEFINE row == [run |-> RunOf[w], name |-> call[w].name, before |-> held[w]]
<1>0. /\ PromptsTyped /\ FilesTyped /\ made' = made
      /\ UNCHANGED <<file, undo, before, spoiled, undone, call>>
      /\ pc[w] = "row" /\ rows' = Append(rows, row) /\ Goes(w, "run")
      /\ held' = [held EXCEPT ![w] = Absent]
  BY DEF FilesInv, InsertRow
<1>1. call[w] \in Calls /\ row \in Row /\ rows \in Seq(Row)
  BY <1>0, ToolGateAssumption DEF PromptsTyped, FilesTyped, Row
<1>2. Alone(w) /\ held' \in [Workers -> Contents] /\ pc'[w] = "run"
  BY <1>0, GoesAlone DEF Contents
<1>3. /\ rows' \in Seq(Row)
      /\ \A r \in Runs, n \in Names :
            /\ Checkpoints(r, n) \subseteq Checkpoints(r, n)'
            /\ row.run = r /\ row.name = n => Checkpoints(r, n)' # {}
            /\ \A seq \in Checkpoints(r, n)' :
                  \/ seq \in Checkpoints(r, n) /\ rows'[seq] = rows[seq]
                  \/ row.run = r /\ row.name = n /\ rows'[seq] = row
            /\ Checkpoints(r, n) # {} => Earliest(r, n)' = Earliest(r, n)
  <2>. HIDE DEF row
  <2>1. rows' \in Seq(Row)
    BY <1>0, <1>1
  <2>. QED
    BY <1>0, <1>1, <2>1, RowInserted
<1>4. FilesTyped'
  BY <1>0, <1>2, <1>3 DEF FilesTyped, Alone
<1>5. UndoTyped' /\ (undo # Nobody /\ undo.made = made' => made' = made)
  BY <1>0, <1>2, <1>3, UndoKept DEF Alone
<1>6. ASSUME NEW r \in Runs, NEW n \in Names, <<r, Written[n]>> \notin spoiled
      PROVE  NotWritten(r, n)' /\ Kept(r, n)' /\ WasWritten(r, n)'
  <2>0. NotWritten(r, n) /\ Kept(r, n) /\ WasWritten(r, n)
    BY <1>6 DEF FilesInv, CheckpointsOK, CheckpointOK
  <2>1. NotWritten(r, n)'
    <3>. SUFFICES ASSUME <<r, Written[n]>> \notin DOMAIN before
                  PROVE  /\ \A seq \in Checkpoints(r, n)' : rows'[seq].before = file[Written[n]]
                         /\ \A v \in Workers :
                              RunOf[v] = r /\ pc'[v] = "row" /\ call'[v].name = n
                                => held'[v] = file[Written[n]]
      BY <1>0 DEF NotWritten
    <3>1. /\ \A seq \in Checkpoints(r, n) : rows[seq].before = file[Written[n]]
          /\ \A v \in Workers :
               RunOf[v] = r /\ pc[v] = "row" /\ call[v].name = n => held[v] = file[Written[n]]
      BY <2>0 DEF NotWritten
    <3>2. row.run = r /\ row.name = n => row.before = file[Written[n]]
      BY <1>0, <3>1
    <3>3. \A seq \in Checkpoints(r, n)' : rows'[seq].before = file[Written[n]]
      <4>. HIDE DEF row
      <4>. QED
        BY <1>3, <3>1, <3>2
    <3>4. \A v \in Workers :
            RunOf[v] = r /\ pc'[v] = "row" /\ call'[v].name = n => held'[v] = file[Written[n]]
      BY <1>2, <3>1 DEF Alone
    <3>. QED
      BY <3>3, <3>4
  <2>2. Kept(r, n)'
    BY <1>0, <1>2, <1>3, <2>0 DEF Kept, Alone
  <2>3. WasWritten(r, n)'
    BY <1>0, <1>3, <2>0 DEF WasWritten, IsUndone, PutBack
  <2>. QED
    BY <2>1, <2>2, <2>3
<1>7. CheckpointsOK'
  BY <1>0, <1>6 DEF CheckpointsOK, CheckpointOK
<1>. QED
  BY <1>4, <1>5, <1>7 DEF FilesInv

(* A write: the run that makes it has a checkpoint of what was there, and  *)
(* is not at rest; for every other run the file is spoiled.                *)
LEMMA PutsFiles ==
    ASSUME FilesInv, PromptsTyped', OneNamePerFile, NEW w \in Workers, NEW content \in Texts,
           pc[w] \in {"run", "edit"}, call[w].tool \in FileTools,
           Puts(w, content), Ends(w), made' = made
    PROVE  FilesInv'
<1>. DEFINE m == call[w].name
            s == RunOf[w]
            f == Written[m]
<1>0. /\ PromptsTyped /\ FilesTyped /\ s \in Runs /\ m \in Names /\ f \in Files
      /\ UNCHANGED <<rows, undo>> /\ file' = [file EXCEPT ![f] = content]
      /\ spoiled' = spoiled \union {<<other, f>> : other \in Runs \ {s}}
      /\ undone' = undone \ {s}
  <2>1. call[w] \in Calls
    BY DEF FilesInv, PromptsTyped
  <2>. QED
    BY <2>1, ToolGateAssumption DEF FilesInv, Puts
<1>1. /\ DOMAIN before' = DOMAIN before \union {<<s, f>>}
      /\ \A at \in DOMAIN before : before'[at] = before[at]
      /\ <<s, f>> \notin DOMAIN before => before'[<<s, f>>] = file[f]
  BY DEF Puts
<1>2. Alone(w) /\ pc'[w] \in {"idle", "done"} /\ held' \in [Workers -> Contents]
  BY EndsAlone
<1>3. FilesTyped'
  <2>1. file' \in [Files -> Contents] /\ spoiled' \subseteq Runs \X Files
    BY <1>0 DEF FilesTyped, Contents
  <2>2. \A at \in DOMAIN before' : \E r \in Runs, n \in Names : at = <<r, Written[n]>>
    BY <1>0, <1>1 DEF FilesTyped
  <2>. QED
    BY <1>0, <1>2, <2>1, <2>2 DEF FilesTyped, Alone
<1>4. \A r \in Runs, n \in Names :
         Checkpoints(r, n)' = Checkpoints(r, n) /\ Earliest(r, n)' = Earliest(r, n)
  BY <1>0 DEF Checkpoints, RowsOf, Earliest
<1>5. UndoTyped'
  BY <1>0, <1>2, <1>4, UndoKept DEF Alone
<1>6. ASSUME NEW r \in Runs, NEW n \in Names, <<r, Written[n]>> \notin spoiled'
      PROVE  NotWritten(r, n)' /\ Kept(r, n)' /\ WasWritten(r, n)'
  <2>0. NotWritten(r, n) /\ Kept(r, n) /\ WasWritten(r, n)
    BY <1>0, <1>6 DEF FilesInv, CheckpointsOK, CheckpointOK
  <2>1. Kept(r, n)'
    BY <1>2, <1>4, <2>0 DEF Kept, Alone
  <2>2. CASE n # m
    <3>1. Written[n] # f /\ Written[n] \in Files
      BY <1>0, <2>2, ToolGateAssumption DEF OneNamePerFile
    <3>2. /\ file'[Written[n]] = file[Written[n]]
          /\ <<r, Written[n]>> \in DOMAIN before' <=> <<r, Written[n]>> \in DOMAIN before
          /\ <<r, Written[n]>> \in DOMAIN before =>
                before'[<<r, Written[n]>>] = before[<<r, Written[n]>>]
      <4>1. <<r, Written[n]>> # <<s, f>>
        BY <3>1
      <4>. QED
        BY <1>0, <1>1, <3>1, <4>1 DEF FilesTyped
    <3>3. NotWritten(r, n)'
      BY <1>0, <1>2, <1>4, <2>0, <3>2 DEF NotWritten, Alone
    <3>4. WasWritten(r, n)'
      BY <1>0, <1>4, <2>0, <3>2 DEF WasWritten, IsUndone, PutBack
    <3>. QED
      BY <2>1, <3>3, <3>4
  <2>3. CASE n = m
    <3>1. r = s
      BY <1>0, <1>6, <2>3
    <3>2. <<r, Written[n]>> \in DOMAIN before'
      BY <1>1, <2>3, <3>1
    <3>3. Checkpoints(r, n) # {}
      BY <2>0, <2>3, <3>1 DEF Kept
    <3>4. Earliest(r, n) = before'[<<r, Written[n]>>]
      <4>1. CASE <<r, Written[n]>> \in DOMAIN before
        BY <1>1, <2>0, <4>1 DEF WasWritten
      <4>2. CASE <<r, Written[n]>> \notin DOMAIN before
        <5>1. Min(Checkpoints(r, n)) \in Checkpoints(r, n)
          BY <1>0, <3>3, CheckpointSeqs DEF FilesTyped
        <5>. QED
          BY <1>1, <2>0, <2>3, <3>1, <4>2, <5>1 DEF NotWritten, Earliest
      <4>. QED
        BY <4>1, <4>2
    <3>5. ~IsUndone(r, n)'
      <4>1. ~Quiet(r)
        BY <3>1 DEF Quiet
      <4>. QED
        BY <1>0, <3>1, <4>1 DEF IsUndone, FilesInv, UndoTyped
    <3>. QED
      BY <1>4, <2>1, <3>2, <3>3, <3>4, <3>5 DEF NotWritten, WasWritten
  <2>. QED
    BY <2>2, <2>3
<1>7. CheckpointsOK'
  BY <1>6 DEF CheckpointsOK, CheckpointOK
<1>. QED
  BY <1>3, <1>5, <1>7 DEF FilesInv

(* A command spoils the file it changes for every run.                     *)
LEMMA RunCommandFiles ==
    ASSUME FilesInv, PromptsTyped', NEW w \in Workers, NEW f \in Files, RunCommand(w, f)
    PROVE  FilesInv'
<1>0. /\ PromptsTyped /\ FilesTyped /\ made' = made /\ pc[w] = "run" /\ Ends(w)
      /\ UNCHANGED <<rows, undo, before, undone>>
      /\ file' = [file EXCEPT ![f] = {<<w, made[w]>>}]
      /\ spoiled' = spoiled \union {<<r, f>> : r \in Runs}
  BY DEF FilesInv, RunCommand
<1>1. Alone(w) /\ pc'[w] \in {"idle", "done"} /\ held' \in [Workers -> Contents]
  BY <1>0, EndsAlone
<1>2. FilesTyped'
  <2>1. {<<w, made[w]>>} \in Contents
    BY <1>0 DEF FilesTyped, Contents, Texts
  <2>2. file' \in [Files -> Contents] /\ spoiled' \subseteq Runs \X Files
    BY <1>0, <2>1 DEF FilesTyped
  <2>. QED
    BY <1>0, <1>1, <2>2 DEF FilesTyped, Alone
<1>3. \A r \in Runs, n \in Names :
         Checkpoints(r, n)' = Checkpoints(r, n) /\ Earliest(r, n)' = Earliest(r, n)
  BY <1>0 DEF Checkpoints, RowsOf, Earliest
<1>4. UndoTyped'
  BY <1>0, <1>1, <1>3, UndoKept DEF Alone
<1>5. ASSUME NEW r \in Runs, NEW n \in Names, <<r, Written[n]>> \notin spoiled'
      PROVE  NotWritten(r, n)' /\ Kept(r, n)' /\ WasWritten(r, n)'
  <2>0. NotWritten(r, n) /\ Kept(r, n) /\ WasWritten(r, n)
    BY <1>0, <1>5 DEF FilesInv, CheckpointsOK, CheckpointOK
  <2>1. file'[Written[n]] = file[Written[n]]
    <3>1. Written[n] # f /\ Written[n] \in Files
      BY <1>0, <1>5, ToolGateAssumption
    <3>. QED
      BY <1>0, <3>1 DEF FilesTyped
  <2>2. NotWritten(r, n)'
    BY <1>0, <1>1, <1>3, <2>0, <2>1 DEF NotWritten, Alone
  <2>3. Kept(r, n)'
    BY <1>1, <1>3, <2>0 DEF Kept, Alone
  <2>4. WasWritten(r, n)'
    BY <1>0, <1>3, <2>0, <2>1 DEF WasWritten, IsUndone, PutBack
  <2>. QED
    BY <2>2, <2>3, <2>4
<1>6. CheckpointsOK'
  BY <1>5 DEF CheckpointsOK, CheckpointOK
<1>. QED
  BY <1>2, <1>4, <1>6 DEF FilesInv

LEMMA ActingFiles ==
    ASSUME FilesInv, PromptsTyped', OneNamePerFile, NEW w \in Workers, Acting(w)
    PROVE  FilesInv'
<1>1. CASE WriteFile(w)
  <2>1. {<<w, made[w]>>} \in Texts
    BY DEF FilesInv, FilesTyped, Texts
  <2>. QED
    BY <1>1, <2>1, PutsFiles DEF WriteFile, FileTools
<1>2. CASE EditWrite(w)
  <2>1. /\ held[w] \union {<<w, made[w]>>} \in Texts
        /\ pc[w] = "edit" /\ call[w].tool \in FileTools
    BY <1>2 DEF EditWrite, FilesInv, FilesTyped, Texts
  <2>. QED
    BY <1>2, <2>1, PutsFiles DEF EditWrite
<1>. QED
  BY <1>1, <1>2, ReadingFiles, InsertRowFiles, RunCommandFiles DEF Acting

-----------------------------------------------------------------------------
LEMMA UndoStartsFiles ==
    ASSUME FilesInv, PromptsTyped', NEW s \in Runs, UndoStarts(s)
    PROVE  FilesInv'
<1>0. /\ FilesTyped /\ CheckpointsOK
      /\ UNCHANGED <<file, rows, before, spoiled, undone, pc, call, held, made>>
      /\ undo' = [run |-> s, left |-> {rows[seq].name : seq \in RowsOf(s)}, made |-> made]
      /\ Quiet(s)
  BY DEF FilesInv, UndoStarts
<1>1. FilesTyped'
  BY <1>0 DEF FilesTyped
<1>2. \A r \in Runs, n \in Names :
         Checkpoints(r, n)' = Checkpoints(r, n) /\ Earliest(r, n)' = Earliest(r, n)
  BY <1>0 DEF Checkpoints, RowsOf, Earliest
<1>3. \A n \in Names : n \in undo'.left <=> Checkpoints(s, n) # {}
  BY <1>0 DEF Checkpoints
<1>4. UndoTyped'
  <2>1. undo'.left \subseteq Names
    <3>1. \A seq \in DOMAIN rows : rows[seq] \in Row
      BY <1>0 DEF FilesTyped
    <3>. QED
      BY <1>0, <3>1 DEF RowsOf, Row
  <2>2. undo' \in Undo /\ \A w \in Workers : undo'.made[w] <= made[w]
    BY <1>0, <2>1 DEF Undo, FilesTyped
  <2>3. Quiet(s)'
    BY <1>0 DEF Quiet
  <2>. QED
    BY <1>0, <1>2, <1>3, <2>1, <2>2, <2>3 DEF UndoTyped
<1>5. ASSUME NEW r \in Runs, NEW n \in Names, <<r, Written[n]>> \notin spoiled
      PROVE  NotWritten(r, n)' /\ Kept(r, n)' /\ WasWritten(r, n)'
  <2>0. NotWritten(r, n) /\ Kept(r, n) /\ WasWritten(r, n)
    BY <1>0, <1>5 DEF CheckpointsOK, CheckpointOK
  <2>1. NotWritten(r, n)' /\ Kept(r, n)'
    BY <1>0, <1>2, <2>0 DEF NotWritten, Kept
  <2>2. IsUndone(r, n)' /\ Checkpoints(r, n) # {} => IsUndone(r, n)
    BY <1>0, <1>3 DEF IsUndone
  <2>3. WasWritten(r, n)'
    BY <1>0, <1>2, <2>0, <2>2 DEF WasWritten, PutBack
  <2>. QED
    BY <2>1, <2>3
<1>6. CheckpointsOK'
  BY <1>0, <1>5 DEF CheckpointsOK, CheckpointOK
<1>. QED
  BY <1>1, <1>4, <1>6 DEF FilesInv

(* One file back: to what was there before the first write of the run, or, *)
(* when the run wrote nothing there, to what is there already.             *)
LEMMA UndoOneFiles ==
    ASSUME FilesInv, PromptsTyped', OneNamePerFile, NEW m \in Names, UndoOne(m)
    PROVE  FilesInv'
<1>. DEFINE s == undo.run
            f == Written[m]
<1>0. /\ FilesTyped /\ UndoTyped /\ CheckpointsOK
      /\ UNCHANGED <<rows, before, undone, pc, call, held, made>>
      /\ undo # Nobody /\ m \in undo.left /\ undo' = [undo EXCEPT !.left = @ \ {m}]
      /\ file' = [file EXCEPT ![f] = Earliest(s, m)]
      /\ spoiled' = spoiled \union {<<r, f>> : r \in Runs \ {s}}
  BY DEF FilesInv, UndoOne, OneNamePerFile
<1>1. /\ undo \in Undo /\ s \in Runs /\ f \in Files
      /\ \A n \in undo.left : Checkpoints(undo.run, n) # {}
      /\ \A w \in Workers : undo.made[w] <= made[w]
      /\ undo.made = made => Quiet(undo.run)
  BY <1>0, ToolGateAssumption DEF UndoTyped, Undo
<1>2. Min(Checkpoints(s, m)) \in Checkpoints(s, m) /\ Earliest(s, m) \in Contents
  BY <1>0, <1>1, CheckpointSeqs DEF FilesTyped
<1>3. FilesTyped'
  <2>1. file' \in [Files -> Contents] /\ spoiled' \subseteq Runs \X Files
    BY <1>0, <1>1, <1>2 DEF FilesTyped
  <2>. QED
    BY <1>0, <2>1 DEF FilesTyped
<1>4. \A r \in Runs, n \in Names :
         Checkpoints(r, n)' = Checkpoints(r, n) /\ Earliest(r, n)' = Earliest(r, n)
  BY <1>0 DEF Checkpoints, RowsOf, Earliest
<1>5. /\ undo' \in Undo /\ undo'.run = s /\ undo'.made = undo.made
      /\ undo'.left = undo.left \ {m} /\ undo.left \subseteq Names
  BY <1>0, <1>1 DEF Undo
<1>6. UndoTyped'
  <2>1. \A n \in undo'.left : Checkpoints(s, n)' # {}
    BY <1>1, <1>4, <1>5
  <2>2. undo'.made = made' => Quiet(s)'
    BY <1>0, <1>1, <1>5 DEF Quiet
  <2>. QED
    BY <1>0, <1>1, <1>5, <2>1, <2>2 DEF UndoTyped
<1>7. ASSUME NEW r \in Runs, NEW n \in Names, <<r, Written[n]>> \notin spoiled'
      PROVE  NotWritten(r, n)' /\ Kept(r, n)' /\ WasWritten(r, n)'
  <2>0. NotWritten(r, n) /\ Kept(r, n) /\ WasWritten(r, n)
    BY <1>0, <1>7 DEF CheckpointsOK, CheckpointOK
  <2>1. Kept(r, n)'
    BY <1>0, <1>4, <2>0 DEF Kept
  <2>2. CASE n # m
    <3>1. Written[n] # f /\ Written[n] \in Files
      BY <1>1, <2>2, ToolGateAssumption DEF OneNamePerFile
    <3>2. file'[Written[n]] = file[Written[n]]
      BY <1>0, <3>1 DEF FilesTyped
    <3>3. IsUndone(r, n)' => IsUndone(r, n)
      BY <1>0, <1>5, <2>2 DEF IsUndone
    <3>4. NotWritten(r, n)'
      BY <1>0, <1>4, <2>0, <3>2 DEF NotWritten
    <3>5. WasWritten(r, n)'
      BY <1>0, <1>4, <2>0, <3>2, <3>3 DEF WasWritten, PutBack
    <3>. QED
      BY <2>1, <3>4, <3>5
  <2>3. CASE n = m
    <3>1. r = s /\ file'[f] = Earliest(s, m)
      BY <1>0, <1>1, <1>7, <2>3 DEF FilesTyped
    <3>2. <<r, f>> \notin DOMAIN before => file'[f] = file[f]
      BY <1>2, <2>0, <2>3, <3>1 DEF NotWritten, Earliest
    <3>3. NotWritten(r, n)'
      BY <1>0, <1>4, <2>0, <2>3, <3>2 DEF NotWritten
    <3>4. WasWritten(r, n)'
      BY <1>0, <1>4, <2>0, <2>3, <3>1 DEF WasWritten, PutBack
    <3>. QED
      BY <2>1, <3>3, <3>4
  <2>. QED
    BY <2>2, <2>3
<1>8. CheckpointsOK'
  BY <1>7 DEF CheckpointsOK, CheckpointOK
<1>. QED
  BY <1>3, <1>6, <1>8 DEF FilesInv

(* The undo is over, or given up; or a line is lost, or nothing happens.   *)
LEMMA UndoOverFiles ==
    ASSUME FilesInv, PromptsTyped',
           UndoFails \/ UndoEnds \/ (\E r \in Runs : LineLost(r)) \/ UNCHANGED vars
    PROVE  FilesInv'
<1>0. /\ FilesTyped /\ UndoTyped /\ CheckpointsOK
      /\ UNCHANGED <<file, rows, before, spoiled, pc, call, held, made>>
      /\ \/ undo' = undo /\ undone' = undone
         \/ /\ undo # Nobody /\ undo' = Nobody
            /\ \/ undone' = undone
               \/ made = undo.made /\ undo.left = {} /\ undone' = undone \union {undo.run}
  BY DEF FilesInv, UndoFails, UndoEnds, LineLost, vars, disk
<1>1. FilesTyped'
  BY <1>0 DEF FilesTyped
<1>2. \A r \in Runs, n \in Names :
         Checkpoints(r, n)' = Checkpoints(r, n) /\ Earliest(r, n)' = Earliest(r, n)
  BY <1>0 DEF Checkpoints, RowsOf, Earliest
<1>3. UndoTyped'
  <2>1. CASE undo' = undo
    <3>1. undo # Nobody => undo.run \in Runs /\ undo.left \subseteq Names
      BY <1>0 DEF UndoTyped, Undo
    <3>. QED
      BY <1>0, <1>2, <2>1, <3>1 DEF UndoTyped, Quiet
  <2>2. CASE undo' = Nobody
    BY <2>2 DEF UndoTyped
  <2>. QED
    BY <1>0, <2>1, <2>2
<1>4. \A r \in Runs, n \in Names : IsUndone(r, n)' => IsUndone(r, n)
  BY <1>0 DEF IsUndone
<1>5. ASSUME NEW r \in Runs, NEW n \in Names, CheckpointOK(r, n)
      PROVE  CheckpointOK(r, n)'
  BY <1>0, <1>2, <1>4, <1>5 DEF CheckpointOK, NotWritten, Kept, WasWritten, PutBack
<1>6. CheckpointsOK'
  BY <1>0, <1>5 DEF CheckpointsOK
<1>. QED
  BY <1>1, <1>3, <1>6 DEF FilesInv

LEMMA FilesStep ==
    ASSUME OneNamePerFile PROVE FilesInv /\ PromptInv /\ [Next]_vars => FilesInv'
<1>. SUFFICES ASSUME FilesInv, PromptInv, [Next]_vars PROVE FilesInv'
  OBVIOUS
<1>1. PromptsTyped'
  BY PromptStepInv DEF PromptInv
<1>. QED
  BY <1>1, PromptingFiles, ActingFiles, UndoStartsFiles, UndoOneFiles, UndoOverFiles
  DEF Next, Undoing

(* An undo that ended without an error put every file its run wrote back   *)
(* to what it held before the first write of the run, however the          *)
(* checkpoints and the writes of its workers and of other runs interleaved,*)
(* unless a checkpoint of that file failed or somebody else wrote it.      *)
THEOREM GateUndoRestores == ASSUME OneNamePerFile PROVE Spec => []UndoRestores
<1>1. FilesInv => UndoRestores
  <2>. SUFFICES ASSUME FilesInv, NEW at \in DOMAIN before, at[1] \in undone, at \notin spoiled
                PROVE  file[at[2]] = before[at]
    BY DEF UndoRestores
  <2>1. PICK r \in Runs, n \in Names : at = <<r, Written[n]>>
    BY DEF FilesInv, FilesTyped
  <2>2. r \in undone /\ <<r, Written[n]>> \in DOMAIN before /\ <<r, Written[n]>> \notin spoiled
    BY <2>1
  <2>3. PutBack(r, n)
    BY <2>2 DEF FilesInv, CheckpointsOK, CheckpointOK, WasWritten, IsUndone
  <2>. QED
    BY <2>1, <2>3 DEF PutBack
<1>. QED
  BY PromptInitInv, FilesInit, PromptStepInv, FilesStep, <1>1, PTL DEF Spec

-----------------------------------------------------------------------------
(* `uta shell`: what a turn will put back, or leave as it is, is what the  *)
(* user last asked for; nothing the user types meanwhile changes it.       *)
TurnRecord ==
  [by : Agents, fanout : BOOLEAN, was : BOOLEAN, resumes : {turn.resumes},
   from : {None, "engine", "mission"}, cut : BOOLEAN]
ShellInv ==
  /\ worker \in Agents /\ direct \in BOOLEAN /\ asked \in BOOLEAN
  /\ busy = "turn" => turn \in TurnRecord /\ (IF turn.fanout THEN turn.was ELSE direct) = asked
  /\ busy # "turn" => direct = asked

LEMMA ShellStepInv == ShellInv /\ [Sh!Next]_(Sh!vars) => ShellInv'
<1>. SUFFICES ASSUME ShellInv, [Sh!Next]_(Sh!vars) PROVE ShellInv'
  OBVIOUS
<1>1. CASE UNCHANGED Sh!vars
  BY <1>1 DEF ShellInv, TurnRecord, Sh!vars
<1>2. CASE Sh!Leave \/ Sh!NewConversation \/ Sh!LocalBegins \/ Sh!LocalEnds
  BY <1>2 DEF ShellInv, TurnRecord, Sh!Leave, Sh!NewConversation, Sh!LocalBegins, Sh!LocalEnds, Sh!settings, Sh!At
<1>3. CASE Sh!CtrlC
  <2>1. UNCHANGED <<worker, direct, asked, busy>>
    BY <1>3 DEF Sh!CtrlC, Sh!settings
  <2>2. CASE UNCHANGED turn
    BY <2>1, <2>2 DEF ShellInv, TurnRecord
  <2>3. CASE busy = "turn" /\ turn' = [turn EXCEPT !.cut = TRUE]
    <3>1. turn \in TurnRecord
      BY <2>3 DEF ShellInv
    <3>2. /\ turn' \in TurnRecord /\ turn'.resumes = turn.resumes
          /\ turn'.fanout = turn.fanout /\ turn'.was = turn.was
      BY <2>3, <3>1 DEF TurnRecord
    <3>. QED
      BY <2>1, <2>3, <3>2 DEF ShellInv, TurnRecord
  <2>. QED
    BY <1>3, <2>2, <2>3 DEF Sh!CtrlC
<1>4. ASSUME NEW s \in DOMAIN sessions, Sh!Attach(s) PROVE ShellInv'
  BY <1>4 DEF ShellInv, TurnRecord, Sh!Attach, Sh!settings, Sh!At
<1>5. ASSUME NEW w \in Agents, Sh!SetWorker(w) PROVE ShellInv'
  BY <1>5 DEF ShellInv, TurnRecord, Sh!SetWorker, Sh!At
<1>6. ASSUME NEW w \in Agents, NEW fanout \in BOOLEAN, Sh!TurnBegins(w, fanout) PROVE ShellInv'
  BY <1>6 DEF ShellInv, TurnRecord, Sh!TurnBegins, Sh!At
<1>7. ASSUME NEW on \in BOOLEAN, Sh!SetDirect(on) PROVE ShellInv'
  BY <1>7 DEF ShellInv, TurnRecord, Sh!SetDirect, Sh!At
<1>8. CASE Sh!Refused
  BY <1>8 DEF ShellInv, TurnRecord, Sh!Refused, Sh!Ends, Sh!Restored, Sh!At
<1>9. CASE Sh!Given
  BY <1>9 DEF ShellInv, TurnRecord, Sh!Given, Sh!settings, Sh!At
<1>10. CASE Sh!Finishes
  BY <1>10 DEF ShellInv, TurnRecord, Sh!Finishes, Sh!Answered, Sh!Ends, Sh!Restored, Sh!At
<1>11. CASE Sh!MissionBegins
  BY <1>11 DEF ShellInv, TurnRecord, Sh!MissionBegins, Sh!settings, Sh!At
<1>12. CASE Sh!MissionEnds
  BY <1>12 DEF ShellInv, TurnRecord, Sh!MissionEnds, Sh!Ends, Sh!Restored, Sh!At
<1>. QED
  BY <1>1, <1>2, <1>3, <1>4, <1>5, <1>6, <1>7, <1>8, <1>9, <1>10, <1>11, <1>12
  DEF Sh!Next, ShellInv, TurnRecord

(* Direct mode survives a /fanout, however its turn ends: refused,         *)
(* answered, cancelled or failed.                                          *)
THEOREM ShellDirectIsAsked == Sh!Spec => []DirectIsAsked
<1>1. Sh!Init => ShellInv
  BY DEF Sh!Init, ShellInv, TurnRecord
<1>2. ShellInv => DirectIsAsked
  BY DEF ShellInv, DirectIsAsked, Sh!DirectIsAsked
<1>. QED
  BY <1>1, <1>2, ShellStepInv, PTL DEF Sh!Spec

-----------------------------------------------------------------------------
(* Globs.  Both searches, that of a glob for an argument and that of a     *)
(* grant for a cap, are monotone, so that their recursive functions exist: *)
(* the greatest set of places from which the search succeeds is one.       *)
LEMMA GreatestFixpoint ==
    ASSUME NEW S, NEW F \in [SUBSET S -> SUBSET S],
           \A P, Q \in SUBSET S : P \subseteq Q => F[P] \subseteq F[Q]
    PROVE  \E P \in SUBSET S : F[P] = P
<1>. DEFINE Post == {P \in SUBSET S : P \subseteq F[P]}
            G == UNION Post
<1>1. G \in SUBSET S
  OBVIOUS
<1>2. ASSUME NEW e \in G PROVE e \in F[G]
  <2>1. PICK P \in Post : e \in P
    OBVIOUS
  <2>2. P \in SUBSET S /\ P \subseteq G /\ P \subseteq F[P]
    BY <2>1
  <2>3. F[P] \subseteq F[G]
    BY <1>1, <2>2
  <2>. QED
    BY <2>1, <2>2, <2>3
<1>3. F[G] \in SUBSET S /\ G \subseteq F[G]
  BY <1>1, <1>2
<1>4. F[G] \subseteq F[F[G]]
  BY <1>1, <1>3
<1>5. F[G] \in Post
  BY <1>3, <1>4
<1>6. F[G] \subseteq G
  BY <1>5
<1>. QED
  BY <1>1, <1>3, <1>6

Places(a1, a2) == (1..Len(a1) + 1) \X (1..Len(a2) + 1)

(* From (i, j) a glob matches, or covers, if it does from the places in P. *)
MatchesFrom(P, g, s, i, j) ==
    IF i > Len(g) THEN j > Len(s)
    ELSE IF g[i] = "*" THEN <<i + 1, j>> \in P \/ (j <= Len(s) /\ <<i, j + 1>> \in P)
    ELSE j <= Len(s) /\ g[i] \in {"?", s[j]} /\ <<i + 1, j + 1>> \in P
CoversFrom(P, g, c, i, j) ==
    IF i > Len(g) THEN j > Len(c)
    ELSE IF g[i] = "*" THEN <<i + 1, j>> \in P \/ (j <= Len(c) /\ <<i, j + 1>> \in P)
    ELSE /\ j <= Len(c) /\ c[j] # "*"
         /\ IF c[j] = "?" THEN g[i] = "?" ELSE g[i] \in {c[j], "?"}
         /\ <<i + 1, j + 1>> \in P

LEMMA PlaceIs ==
    ASSUME NEW a1, NEW a2, Len(a1) \in Nat, Len(a2) \in Nat
    PROVE  /\ \A at \in Places(a1, a2) :
                at = <<at[1], at[2]>> /\ at[1] \in 1..Len(a1) + 1 /\ at[2] \in 1..Len(a2) + 1
           /\ \A i \in 1..Len(a1) + 1, j \in 1..Len(a2) + 1 :
                <<i, j>> \in Places(a1, a2) /\ <<i, j>>[1] = i /\ <<i, j>>[2] = j
           /\ \A i \in 1..Len(a1) + 1, j \in 1..Len(a2) + 1 : ~(i > Len(a1)) =>
                /\ <<i + 1, j>> \in Places(a1, a2)
                /\ j <= Len(a2) => <<i, j + 1>> \in Places(a1, a2) /\ <<i + 1, j + 1>> \in Places(a1, a2)
  BY DEF Places

LEMMA MatchPlaces ==
    ASSUME NEW g, NEW s, Len(g) \in Nat, Len(s) \in Nat
    PROVE  \E P : /\ \A i \in 1..Len(g) + 1, j \in 1..Len(s) + 1 :
                       <<i, j>> \in P <=> MatchesFrom(P, g, s, i, j)
                  /\ Capability!GlobMatches(g, s) <=> <<1, 1>> \in P
<1>. DEFINE S == Places(g, s)
            Body(f, i, j) ==
              IF i > Len(g) THEN j > Len(s)
              ELSE IF g[i] = "*" THEN f[<<i + 1, j>>] \/ (j <= Len(s) /\ f[<<i, j + 1>>])
              ELSE j <= Len(s) /\ g[i] \in {"?", s[j]} /\ f[<<i + 1, j + 1>>]
            Eq(f) == f = [at \in S |-> Body(f, at[1], at[2])]
            F == [P \in SUBSET S |-> {at \in S : MatchesFrom(P, g, s, at[1], at[2])}]
<1>1. \A P, Q : P \subseteq Q =>
        \A i, j : MatchesFrom(P, g, s, i, j) => MatchesFrom(Q, g, s, i, j)
  BY Zenon DEF MatchesFrom
<1>2. PICK G \in SUBSET S : F[G] = G
  <2>1. F \in [SUBSET S -> SUBSET S]
    OBVIOUS
  <2>2. \A P, Q \in SUBSET S : P \subseteq Q => F[P] \subseteq F[Q]
    BY <1>1
  <2>. HIDE DEF F, S
  <2>. QED
    BY <2>1, <2>2, GreatestFixpoint, Zenon
<1>3. \A at \in S : at \in G <=> MatchesFrom(G, g, s, at[1], at[2])
  BY <1>2
<1>. HIDE DEF F
<1>. DEFINE h == [at \in S |-> at \in G]
<1>4. Eq(h)
  <2>1. ASSUME NEW at \in S PROVE h[at] = Body(h, at[1], at[2])
    <3>1. at[1] \in 1..Len(g) + 1 /\ at[2] \in 1..Len(s) + 1
      BY PlaceIs, Zenon
    <3>2. \A place \in S : h[place] = (place \in G)
      OBVIOUS
    <3>. HIDE DEF h
    <3>3. \A i \in 1..Len(g) + 1, j \in 1..Len(s) + 1 : Body(h, i, j) <=> MatchesFrom(G, g, s, i, j)
      <4>. TAKE i \in 1..Len(g) + 1, j \in 1..Len(s) + 1
      <4>. QED
        BY <3>2, PlaceIs, Zenon DEF MatchesFrom
    <3>4. Body(h, at[1], at[2]) \in BOOLEAN
      <4>1. (at[2] > Len(s)) \in BOOLEAN
        BY <3>1
      <4>2. CASE at[1] > Len(g)
        BY <4>1, <4>2, Zenon
      <4>3. CASE ~(at[1] > Len(g)) /\ g[at[1]] = "*"
        BY <4>3
      <4>4. CASE ~(at[1] > Len(g)) /\ g[at[1]] # "*"
        BY <4>4
      <4>. QED
        BY <4>2, <4>3, <4>4, Zenon
    <3>5. Body(h, at[1], at[2]) <=> at \in G
      BY <1>3, <3>1, <3>3, Zenon
    <3>6. h[at] = (at \in G)
      BY <3>2, Zenon
    <3>. HIDE DEF Body
    <3>7. CASE at \in G
      BY <3>4, <3>5, <3>6, <3>7
    <3>8. CASE at \notin G
      BY <3>4, <3>5, <3>6, <3>8
    <3>. QED
      BY <3>7, <3>8
  <2>. QED
    BY <2>1, Zenon
<1>. HIDE DEF h
<1>5. PICK m : m = CHOOSE f : Eq(f)
  OBVIOUS
<1>6. Eq(m)
  <2>. HIDE DEF Eq
  <2>. QED
    BY <1>4, <1>5, Zenon
<1>7. Capability!GlobMatches(g, s) = m[<<1, 1>>]
  BY <1>5, Zenon DEF Capability!GlobMatches, Places
<1>8. \A at \in S : m[at] = Body(m, at[1], at[2])
  BY <1>6, Zenon
<1>. DEFINE P == {at \in S : m[at]}
<1>9. ASSUME NEW i \in 1..Len(g) + 1, NEW j \in 1..Len(s) + 1
      PROVE  <<i, j>> \in P <=> MatchesFrom(P, g, s, i, j)
  <2>1. <<i, j>> \in S /\ <<i, j>>[1] = i /\ <<i, j>>[2] = j
    BY PlaceIs, Zenon
  <2>2. m[<<i, j>>] = Body(m, i, j)
    BY <1>8, <2>1, Zenon
  <2>3. Body(m, i, j) <=> MatchesFrom(P, g, s, i, j)
    BY PlaceIs, Zenon DEF MatchesFrom
  <2>. QED
    BY <2>1, <2>2, <2>3, Zenon
<1>10. <<1, 1>> \in S
  BY DEF Places
<1>11. Capability!GlobMatches(g, s) <=> <<1, 1>> \in P
  BY <1>7, <1>10, Zenon
<1>. QED
  BY <1>9, <1>11, Zenon

LEMMA CoverPlaces ==
    ASSUME NEW g, NEW c, Len(g) \in Nat, Len(c) \in Nat
    PROVE  \E P : /\ \A i \in 1..Len(g) + 1, j \in 1..Len(c) + 1 :
                       <<i, j>> \in P <=> CoversFrom(P, g, c, i, j)
                  /\ Capability!CoversRest(g, c) <=> <<1, 1>> \in P
<1>. DEFINE S == Places(g, c)
            Body(f, i, j) ==
              IF i > Len(g) THEN j > Len(c)
              ELSE IF g[i] = "*" THEN f[<<i + 1, j>>] \/ (j <= Len(c) /\ f[<<i, j + 1>>])
              ELSE /\ j <= Len(c) /\ c[j] # "*"
                   /\ IF c[j] = "?" THEN g[i] = "?" ELSE g[i] \in {c[j], "?"}
                   /\ f[<<i + 1, j + 1>>]
            Eq(f) == f = [at \in S |-> Body(f, at[1], at[2])]
            F == [P \in SUBSET S |-> {at \in S : CoversFrom(P, g, c, at[1], at[2])}]
<1>1. \A P, Q : P \subseteq Q =>
        \A i, j : CoversFrom(P, g, c, i, j) => CoversFrom(Q, g, c, i, j)
  BY Zenon DEF CoversFrom
<1>2. PICK G \in SUBSET S : F[G] = G
  <2>1. F \in [SUBSET S -> SUBSET S]
    OBVIOUS
  <2>2. \A P, Q \in SUBSET S : P \subseteq Q => F[P] \subseteq F[Q]
    BY <1>1
  <2>. HIDE DEF F, S
  <2>. QED
    BY <2>1, <2>2, GreatestFixpoint, Zenon
<1>3. \A at \in S : at \in G <=> CoversFrom(G, g, c, at[1], at[2])
  BY <1>2
<1>. HIDE DEF F
<1>. DEFINE h == [at \in S |-> at \in G]
<1>4. Eq(h)
  <2>1. ASSUME NEW at \in S PROVE h[at] = Body(h, at[1], at[2])
    <3>1. at[1] \in 1..Len(g) + 1 /\ at[2] \in 1..Len(c) + 1
      BY PlaceIs, Zenon
    <3>2. \A place \in S : h[place] = (place \in G)
      OBVIOUS
    <3>. HIDE DEF h
    <3>3. \A i \in 1..Len(g) + 1, j \in 1..Len(c) + 1 : Body(h, i, j) <=> CoversFrom(G, g, c, i, j)
      <4>. TAKE i \in 1..Len(g) + 1, j \in 1..Len(c) + 1
      <4>. QED
        BY <3>2, PlaceIs, Zenon DEF CoversFrom
    <3>4. Body(h, at[1], at[2]) \in BOOLEAN
      <4>1. (at[2] > Len(c)) \in BOOLEAN
        BY <3>1
      <4>2. CASE at[1] > Len(g)
        BY <4>1, <4>2, Zenon
      <4>3. CASE ~(at[1] > Len(g)) /\ g[at[1]] = "*"
        BY <4>3
      <4>4. CASE ~(at[1] > Len(g)) /\ g[at[1]] # "*"
        BY <4>4
      <4>. QED
        BY <4>2, <4>3, <4>4, Zenon
    <3>5. Body(h, at[1], at[2]) <=> at \in G
      BY <1>3, <3>1, <3>3, Zenon
    <3>6. h[at] = (at \in G)
      BY <3>2, Zenon
    <3>. HIDE DEF Body
    <3>7. CASE at \in G
      BY <3>4, <3>5, <3>6, <3>7
    <3>8. CASE at \notin G
      BY <3>4, <3>5, <3>6, <3>8
    <3>. QED
      BY <3>7, <3>8
  <2>. QED
    BY <2>1, Zenon
<1>. HIDE DEF h
<1>5. PICK m : m = CHOOSE f : Eq(f)
  OBVIOUS
<1>6. Eq(m)
  <2>. HIDE DEF Eq
  <2>. QED
    BY <1>4, <1>5, Zenon
<1>7. Capability!CoversRest(g, c) = m[<<1, 1>>]
  BY <1>5, Zenon DEF Capability!CoversRest, Places
<1>8. \A at \in S : m[at] = Body(m, at[1], at[2])
  BY <1>6, Zenon
<1>. DEFINE P == {at \in S : m[at]}
<1>9. ASSUME NEW i \in 1..Len(g) + 1, NEW j \in 1..Len(c) + 1
      PROVE  <<i, j>> \in P <=> CoversFrom(P, g, c, i, j)
  <2>1. <<i, j>> \in S /\ <<i, j>>[1] = i /\ <<i, j>>[2] = j
    BY PlaceIs, Zenon
  <2>2. m[<<i, j>>] = Body(m, i, j)
    BY <1>8, <2>1, Zenon
  <2>3. Body(m, i, j) <=> CoversFrom(P, g, c, i, j)
    BY PlaceIs, Zenon DEF CoversFrom
  <2>. QED
    BY <2>1, <2>2, <2>3, Zenon
<1>10. <<1, 1>> \in S
  BY DEF Places
<1>11. Capability!CoversRest(g, c) <=> <<1, 1>> \in P
  BY <1>7, <1>10, Zenon
<1>. QED
  BY <1>9, <1>11, Zenon

LEMMA LeastNat ==
    ASSUME NEW T \in SUBSET Nat, T # {}
    PROVE  \E n \in T : \A m \in T : n <= m
<1>1. PICK n \in T : \A m \in T : ~(<<m, n>> \in OpToRel(<, Nat))
  BY NatLessThanWellFounded, WFMin
<1>2. ASSUME NEW m \in T PROVE n <= m
  <2>1. ~(m < n) /\ n \in Nat /\ m \in Nat
    BY <1>1 DEF OpToRel
  <2>. QED
    BY <2>1
<1>. QED
  BY <1>2, Zenon

(* What a glob that covers another matches: every argument the other does. *)
(* By the least place at which it would fail: each step of the cover and   *)
(* of the match of the covered glob is one step of the match to find.      *)
LEMMA CoverIsSound ==
    ASSUME NEW g, NEW c, NEW s, Len(g) \in Nat, Len(c) \in Nat, Len(s) \in Nat,
           Capability!CoversRest(g, c), Capability!GlobMatches(c, s)
    PROVE  Capability!GlobMatches(g, s)
<1>1. PICK C : /\ \A i \in 1..Len(g) + 1, k \in 1..Len(c) + 1 :
                    <<i, k>> \in C <=> CoversFrom(C, g, c, i, k)
               /\ Capability!CoversRest(g, c) <=> <<1, 1>> \in C
  BY CoverPlaces, Zenon
<1>2. PICK D : /\ \A k \in 1..Len(c) + 1, j \in 1..Len(s) + 1 :
                    <<k, j>> \in D <=> MatchesFrom(D, c, s, k, j)
               /\ Capability!GlobMatches(c, s) <=> <<1, 1>> \in D
  BY MatchPlaces, Zenon
<1>3. PICK M : /\ \A i \in 1..Len(g) + 1, j \in 1..Len(s) + 1 :
                    <<i, j>> \in M <=> MatchesFrom(M, g, s, i, j)
               /\ Capability!GlobMatches(g, s) <=> <<1, 1>> \in M
  BY MatchPlaces, Zenon
<1>. DEFINE I == 1..Len(g) + 1
            K == 1..Len(c) + 1
            J == 1..Len(s) + 1
            Fails(i, k, j) == <<i, k>> \in C /\ <<k, j>> \in D /\ ~(<<i, j>> \in M)
            Left(i, k, j) == (Len(g) + 1 - i) + (Len(c) + 1 - k) + (Len(s) + 1 - j)
            T == {n \in Nat : \E i \in I, k \in K, j \in J : n = Left(i, k, j) /\ Fails(i, k, j)}
<1>4. \A i \in I, k \in K, j \in J : ~Fails(i, k, j)
  <2>1. SUFFICES ASSUME NEW i0 \in I, NEW k0 \in K, NEW j0 \in J, Fails(i0, k0, j0)
                 PROVE  FALSE
    BY Zenon
  <2>2. \A i \in I, k \in K, j \in J : Left(i, k, j) \in Nat
    OBVIOUS
  <2>3. Left(i0, k0, j0) \in T
    <3>. HIDE DEF I, K, J, Left, Fails
    <3>. QED
      BY <2>1, <2>2, Zenon
  <2>4. PICK n \in T : \A m \in T : n <= m
    <3>. HIDE DEF I, K, J, Left, Fails
    <3>1. T \in SUBSET Nat /\ T # {}
      BY <2>3
    <3>. HIDE DEF T
    <3>. QED
      BY <3>1, LeastNat, Zenon
  <2>5. PICK i \in I, k \in K, j \in J : n = Left(i, k, j) /\ Fails(i, k, j)
    <3>. HIDE DEF I, K, J, Left, Fails
    <3>. QED
      BY <2>4, Zenon
  <2>6. ASSUME NEW i2 \in I, NEW k2 \in K, NEW j2 \in J, Left(i2, k2, j2) < Left(i, k, j),
               <<i2, k2>> \in C, <<k2, j2>> \in D
        PROVE  <<i2, j2>> \in M
    <3>1. Left(i2, k2, j2) \in Nat /\ Left(i, k, j) \in Nat
      BY <2>2, Zenon
    <3>. HIDE DEF I, K, J, Left
    <3>2. SUFFICES ASSUME ~(<<i2, j2>> \in M) PROVE FALSE
      BY Zenon
    <3>3. Left(i2, k2, j2) \in T
      BY <2>6, <3>1, <3>2, Zenon
    <3>4. n <= Left(i2, k2, j2)
      BY <2>4, <3>3, Zenon
    <3>. QED
      BY <2>5, <2>6, <3>1, <3>4
  <2>. HIDE DEF T
  <2>7. /\ k <= Len(c) => k + 1 \in K
        /\ j <= Len(s) => j + 1 \in J
        /\ ~(i > Len(g)) => i + 1 \in I
        /\ ~(i > Len(g)) => Left(i + 1, k, j) < Left(i, k, j)
        /\ k <= Len(c) => Left(i, k + 1, j) < Left(i, k, j)
        /\ j <= Len(s) => Left(i, k, j + 1) < Left(i, k, j)
        /\ k <= Len(c) /\ j <= Len(s) => Left(i, k + 1, j + 1) < Left(i, k, j)
        /\ ~(i > Len(g)) /\ k <= Len(c) /\ j <= Len(s) => Left(i + 1, k + 1, j + 1) < Left(i, k, j)
        /\ k > Len(c) <=> ~(k <= Len(c))
    OBVIOUS
  <2>. HIDE DEF I, K, J, Left
  <2>8. CoversFrom(C, g, c, i, k) /\ MatchesFrom(D, c, s, k, j) /\ ~MatchesFrom(M, g, s, i, j)
    BY <1>1, <1>2, <1>3, <2>5, Zenon DEF I, K, J
  <2>9. CASE i > Len(g)
    BY <2>7, <2>8, <2>9, Zenon DEF CoversFrom, MatchesFrom
  <2>10. CASE ~(i > Len(g)) /\ g[i] = "*"
    <3>1. ~(<<i + 1, j>> \in M) /\ (j <= Len(s) => ~(<<i, j + 1>> \in M))
      BY <2>8, <2>10, Zenon DEF MatchesFrom
    <3>2. <<i + 1, k>> \in C \/ (k <= Len(c) /\ <<i, k + 1>> \in C)
      BY <2>8, <2>10, Zenon DEF CoversFrom
    <3>3. CASE <<i + 1, k>> \in C
      BY <2>5, <2>6, <2>7, <2>10, <3>1, <3>3, Zenon
    <3>4. CASE k <= Len(c) /\ <<i, k + 1>> \in C
      <4>1. CASE c[k] = "*"
        <5>1. <<k + 1, j>> \in D \/ (j <= Len(s) /\ <<k, j + 1>> \in D)
          BY <2>7, <2>8, <3>4, <4>1, Zenon DEF MatchesFrom
        <5>2. CASE <<k + 1, j>> \in D
          BY <2>5, <2>6, <2>7, <3>4, <5>2, Zenon
        <5>3. CASE j <= Len(s) /\ <<k, j + 1>> \in D
          BY <2>5, <2>6, <2>7, <3>1, <5>3, Zenon
        <5>. QED
          BY <5>1, <5>2, <5>3, Zenon
      <4>2. CASE c[k] # "*"
        <5>1. j <= Len(s) /\ <<k + 1, j + 1>> \in D
          BY <2>7, <2>8, <3>4, <4>2, Zenon DEF MatchesFrom
        <5>. QED
          BY <2>6, <2>7, <3>1, <3>4, <5>1, Zenon
      <4>. QED
        BY <4>1, <4>2, Zenon
    <3>. QED
      BY <3>2, <3>3, <3>4, Zenon
  <2>11. CASE ~(i > Len(g)) /\ g[i] # "*"
    <3>1. /\ k <= Len(c) /\ c[k] # "*"
          /\ IF c[k] = "?" THEN g[i] = "?" ELSE g[i] \in {c[k], "?"}
          /\ <<i + 1, k + 1>> \in C
      BY <2>8, <2>11, Zenon DEF CoversFrom
    <3>2. j <= Len(s) /\ c[k] \in {"?", s[j]} /\ <<k + 1, j + 1>> \in D
      BY <2>7, <2>8, <3>1, Zenon DEF MatchesFrom
    <3>3. <<i + 1, j + 1>> \in M
      BY <2>6, <2>7, <2>11, <3>1, <3>2, Zenon
    <3>4. g[i] \in {"?", s[j]}
      BY <3>1, <3>2, Zenon
    <3>. QED
      BY <2>8, <2>11, <3>2, <3>3, <3>4, Zenon DEF MatchesFrom
  <2>. QED
    BY <2>9, <2>10, <2>11, Zenon
<1>5. 1 \in I /\ 1 \in K /\ 1 \in J
  OBVIOUS
<1>. HIDE DEF I, K, J
<1>. QED
  BY <1>1, <1>2, <1>3, <1>4, <1>5, Zenon

LEMMA GlobLengths ==
    ASSUME NEW g \in Capability!Globs \union Capability!Args
    PROVE  Len(g) \in Nat
<1>1. ASSUME NEW n \in Nat, NEW S, g \in [1..n -> S] PROVE Len(g) \in Nat
  <2>1. g \in Seq(S)
    BY <1>1
  <2>. QED
    BY <2>1
<1>2. CASE g \in Capability!Globs
  <2>1. PICK n \in 0..MaxGlob : g \in [1..n -> Letters \union {"*", "?"}]
    BY <1>2, Zenon DEF Capability!Globs
  <2>2. n \in Nat
    BY CapabilityBounds
  <2>. QED
    BY <1>1, <2>1, <2>2, Zenon
<1>3. CASE g \in Capability!Args
  <2>1. PICK n \in 0..MaxArg : g \in [1..n -> Letters]
    BY <1>3, Zenon DEF Capability!Args
  <2>2. n \in Nat
    BY CapabilityBounds
  <2>. QED
    BY <1>1, <2>1, <2>2, Zenon
<1>. QED
  BY <1>2, <1>3, Zenon

LEMMA InspectOne ==
    ASSUME NEW p \in Capability!Patterns, p # Capability!Malformed, NEW tool, NEW arg
    PROVE  Capability!Inspect({p}, {}, tool, arg) = "allow" <=> Capability!Matches(p, tool, arg)
<1>1. Capability!Parsed({}) = {} /\ Capability!Parsed({p}) = {p}
  BY Zenon DEF Capability!Parsed
<1>. HIDE DEF Capability!Parsed
<1>2. ~(\E q \in Capability!Parsed({}) : Capability!Matches(q, tool, arg))
  BY <1>1, Zenon
<1>3. Capability!Inspect({p}, {}, tool, arg) =
        IF Capability!Matches(p, tool, arg) THEN "allow" ELSE "deny"
  <2>1. Capability!Parsed({p}) # {}
    BY <1>1, Zenon
  <2>2. (\E q \in Capability!Parsed({p}) : Capability!Matches(q, tool, arg)) <=> Capability!Matches(p, tool, arg)
    BY <1>1, Zenon
  <2>. QED
    BY <1>2, <2>1, <2>2, Zenon DEF Capability!Inspect
<1>. QED
  BY <1>3

(* What `uta mission check` lets pass, the gate of the run does not: a     *)
(* pattern the grant is found to cover allows nothing the grant forbids,   *)
(* whatever the globs and the arguments, however long.                     *)
THEOREM GateRaiseIsBacked == Capability!Spec => []RaiseIsBacked
<1>. DEFINE CapInv == grant \in Capability!Patterns /\ cap \in Capability!Patterns
<1>1. Capability!Init => CapInv
  BY Zenon DEF Capability!Init
<1>2. CapInv /\ [Capability!Next]_(Capability!vars) => CapInv'
  BY Zenon DEF Capability!Next, Capability!vars
<1>3. CapInv => RaiseIsBacked
  <2>. SUFFICES ASSUME CapInv, Capability!Subsumes(grant, cap), NEW tool \in Tools, NEW arg \in Capability!Args,
                       Capability!Inspect({cap}, {}, tool, arg) = "allow"
                PROVE  Capability!Inspect({grant}, {}, tool, arg) = "allow"
    BY Zenon DEF RaiseIsBacked, Capability!RaiseIsBacked
  <2>1. CASE grant = cap
    BY <2>1, Zenon
  <2>2. CASE grant # cap
    <3>1. /\ grant # Capability!Malformed /\ cap # Capability!Malformed /\ grant.tool = cap.tool
          /\ grant.glob = Capability!Bare \/
               (cap.glob # Capability!Bare /\ Capability!CoversRest(grant.glob, cap.glob))
      BY <2>2, Zenon DEF Capability!Subsumes
    <3>2. Capability!Matches(cap, tool, arg)
      BY <3>1, InspectOne, Zenon
    <3>3. cap.tool = tool /\ (cap.glob = Capability!Bare \/ Capability!GlobMatches(cap.glob, arg))
      BY <3>2, Zenon DEF Capability!Matches
    <3>4. grant.glob \in Capability!Globs /\ cap.glob \in Capability!Globs
      BY <3>1 DEF Capability!Patterns
    <3>5. Len(grant.glob) \in Nat /\ Len(cap.glob) \in Nat /\ Len(arg) \in Nat
      BY <3>4, GlobLengths, Zenon
    <3>6. grant.glob = Capability!Bare \/ Capability!GlobMatches(grant.glob, arg)
      BY <3>1, <3>3, <3>5, CoverIsSound, Zenon
    <3>7. Capability!Matches(grant, tool, arg)
      BY <3>1, <3>3, <3>6, Zenon DEF Capability!Matches
    <3>. QED
      BY <3>1, <3>7, InspectOne, Zenon
  <2>. QED
    BY <2>1, <2>2, Zenon
<1>. QED
  BY <1>1, <1>2, <1>3, PTL DEF Capability!Spec
-----------------------------------------------------------------------------
(* The line editor.  What holds at the first place of a walk and is passed *)
(* on at each holds at the last.                                           *)
LEMMA Upwards ==
    ASSUME NEW n \in Nat, NEW G, 0 \in G, \A i \in 1..n : i - 1 \in G => i \in G
    PROVE  n \in G
<1>. DEFINE Out == {k \in 0..n : k \notin G}
<1>1. ASSUME Out # {} PROVE FALSE
  <2>1. Out \in SUBSET Nat
    OBVIOUS
  <2>2. PICK k \in Out : \A j \in Out : k <= j
    <3>. HIDE DEF Out
    <3>. QED
      BY <1>1, <2>1, LeastNat, Zenon
  <2>3. k \in 1..n /\ k - 1 \in 0..n /\ k - 1 < k
    BY <2>2
  <2>4. k - 1 \in G
    BY <2>2, <2>3
  <2>. QED
    BY <2>2, <2>3, <2>4
<1>. QED
  BY <1>1

Walked(n, first, step, f) ==
    f = [i \in 0..n |-> IF i = 0 THEN first ELSE step[i][f[i - 1]]]
IsWalked(n, R, first, step) == \E f \in [0..n -> R] : Walked(n, first, step, f)

LEMMA WalkExists ==
    ASSUME NEW n \in Nat, NEW R, NEW first \in R, NEW step \in [1..n -> [R -> R]]
    PROVE  IsWalked(n, R, first, step)
<1>. DEFINE Reaches(k, f) == f \in [0..k -> R] /\ f[0] = first /\ \A i \in 1..k : f[i] = step[i][f[i - 1]]
            G == {k \in Nat : k <= n => \E f : Reaches(k, f)}
<1>1. 0 \in G
  <2>1. Reaches(0, [i \in 0..0 |-> first])
    OBVIOUS
  <2>. QED
    BY <2>1
<1>2. ASSUME NEW k \in 1..n, k - 1 \in G PROVE k \in G
  <2>1. PICK f : Reaches(k - 1, f)
    BY <1>2
  <2>. DEFINE g == [i \in 0..k |-> IF i = k THEN step[k][f[k - 1]] ELSE f[i]]
  <2>2. step[k][f[k - 1]] \in R
    BY <2>1
  <2>3. g \in [0..k -> R] /\ g[0] = first
    BY <2>1, <2>2
  <2>4. ASSUME NEW i \in 1..k PROVE g[i] = step[i][g[i - 1]]
    BY <2>1
  <2>5. Reaches(k, g)
    BY <2>3, <2>4
  <2>6. \E h : Reaches(k, h)
    <3>. HIDE DEF Reaches, g
    <3>. QED
      BY <2>5, Zenon
  <2>. HIDE DEF Reaches
  <2>. QED
    BY <2>6
<1>3. n \in G
  <2>. HIDE DEF G
  <2>. QED
    BY <1>1, <1>2, Upwards
<1>4. PICK f : Reaches(n, f)
  BY <1>3
<1>5. Walked(n, first, step, f)
  BY <1>4 DEF Walked
<1>. QED
  BY <1>4, <1>5 DEF IsWalked

(* Division, and that a place in rows of a width is one quotient and rest. *)
LEMMA RowsAndColumns ==
    ASSUME NEW k \in Nat, NEW w \in Nat \ {0}
    PROVE  /\ k \div w \in Nat /\ k % w \in 0..w - 1 /\ k = w * (k \div w) + (k % w)
           /\ \A q \in Int, r \in 0..w - 1 : w * q + r = k => q = k \div w /\ r = k % w
<1>1. k \div w \in Nat /\ k % w \in 0..w - 1 /\ k = w * (k \div w) + (k % w)
  OBVIOUS
<1>2. ASSUME NEW q \in Int, NEW r \in 0..w - 1, w * q + r = k PROVE q = k \div w /\ r = k % w
  <2>. DEFINE p == k \div w
              s == k % w
  <2>1. p \in Nat /\ s \in 0..w - 1 /\ k = w * p + s
    BY <1>1
  <2>. HIDE DEF p, s
  <2>2. w * q + r = w * p + s
    BY <1>2, <2>1
  <2>3. ASSUME q < p PROVE FALSE
    <3>1. PICK d \in Nat : p = q + 1 + d
      <4>1. p - q - 1 \in Nat
        BY <2>1, <2>3
      <4>. QED
        BY <2>1, <4>1
    <3>2. w * p = w * q + w + w * d /\ w * d \in Nat /\ w * q \in Int
      BY <3>1
    <3>. QED
      BY <2>1, <2>2, <3>2
  <2>4. ASSUME p < q PROVE FALSE
    <3>1. PICK d \in Nat : q = p + 1 + d
      <4>1. q - p - 1 \in Nat
        BY <2>1, <2>4
      <4>. QED
        BY <2>1, <4>1
    <3>2. w * q = w * p + w + w * d /\ w * d \in Nat /\ w * p \in Int
      BY <2>1, <3>1
    <3>. QED
      BY <2>1, <2>2, <3>2
  <2>5. q = p
    BY <2>1, <2>3, <2>4
  <2>6. r = s
    <3>1. w * q \in Int
      OBVIOUS
    <3>. QED
      BY <2>1, <2>2, <2>5, <3>1
  <2>. QED
    BY <2>5, <2>6 DEF p, s
<1>. QED
  BY <1>1, <1>2


(* The terminal.                                                           *)
Cells == -Line!MaxRow..Line!MaxRow
Shown == Runes \cup {Prompt[i] : i \in DOMAIN Prompt} \cup {" ", "^", "C"}
Screens == [cell : [Cells -> Seq(Shown)], row : Int, col : Nat]
EmptyBelow(t) == \A r \in Cells : r > t.row => t.cell[r] = <<>>

LEMMA BlankIsScreen ==
    /\ Line!Blank \in Screens /\ Line!Blank.row = 0 /\ Line!Blank.col = 0
    /\ \A r \in Cells : Line!Blank.cell[r] = <<>>
  BY DEF Line!Blank, Screens, Cells

LEMMA ScreenFields ==
    ASSUME NEW t \in Screens, NEW cell, NEW row, NEW col
    PROVE  [t EXCEPT !.cell = cell, !.row = row, !.col = col] = [cell |-> cell, row |-> row, col |-> col]
<1>1. PICK t1 : t1 = [t EXCEPT !.cell = cell]
  OBVIOUS
<1>2. t1 = [cell |-> cell, row |-> t.row, col |-> t.col]
  BY <1>1 DEF Screens
<1>3. PICK t2 : t2 = [t1 EXCEPT !.row = row]
  OBVIOUS
<1>4. t2 = [cell |-> cell, row |-> row, col |-> t.col]
  BY <1>2, <1>3
<1>5. [t2 EXCEPT !.col = col] = [cell |-> cell, row |-> row, col |-> col]
  BY <1>4
<1>. QED
  BY <1>1, <1>3, <1>5

LEMMA PutIsScreen ==
    ASSUME NEW t \in Screens, NEW ch \in Shown, Wide = {}
    PROVE  /\ Line!PutRune(t, ch) \in Screens
           /\ t.col + 1 > Width => Line!PutRune(t, ch).row = t.row + 1 /\ Line!PutRune(t, ch).col = 1
           /\ ~(t.col + 1 > Width) => Line!PutRune(t, ch).row = t.row /\ Line!PutRune(t, ch).col = t.col + 1
           /\ \A r \in Cells : r # Line!PutRune(t, ch).row => Line!PutRune(t, ch).cell[r] = t.cell[r]
<1>. DEFINE wraps == t.col + 1 > Width
            r0 == IF wraps THEN t.row + 1 ELSE t.row
            c0 == IF wraps THEN 0 ELSE t.col
            old == t.cell[r0]
            new == Line!Padded(old, c0) \o [i \in 1..1 |-> ch] \o SubSeq(old, c0 + 1 + 1, Len(old))
            put == [t EXCEPT !.cell[r0] = new, !.row = r0, !.col = c0 + 1]
<1>1. Line!PutRune(t, ch) = put
  BY Zenon DEF Line!PutRune
<1>2. t.cell \in [Cells -> Seq(Shown)] /\ t.row \in Int /\ t.col \in Nat
  BY DEF Screens
<1>3. r0 \in Int /\ c0 \in Nat
  BY <1>2
<1>4. ASSUME r0 \in Cells PROVE new \in Seq(Shown)
  <2>1. old \in Seq(Shown) /\ Len(old) \in Nat
    BY <1>2, <1>4
  <2>. HIDE DEF old, r0
  <2>2. ASSUME NEW i \in 1..c0 PROVE (IF i <= Len(old) THEN old[i] ELSE " ") \in Shown
    <3>1. " " \in Shown
      BY Zenon DEF Shown
    <3>. HIDE DEF c0
    <3>2. i <= Len(old) => old[i] \in Shown
      BY <1>3, <2>1
    <3>. QED
      BY <3>1, <3>2, Zenon
  <2>3. Line!Padded(old, c0) \in Seq(Shown)
    <3>1. Line!Padded(old, c0) \in [1..c0 -> Shown]
      BY <2>2 DEF Line!Padded
    <3>. QED
      BY <1>3, <3>1
  <2>4. [i \in 1..1 |-> ch] \in Seq(Shown)
    BY [i \in 1..1 |-> ch] \in [1..1 -> Shown]
  <2>5. SubSeq(old, c0 + 1 + 1, Len(old)) \in Seq(Shown)
    BY <1>3, <2>1
  <2>. HIDE DEF c0
  <2>. QED
    BY <2>3, <2>4, <2>5
<1>. HIDE DEF new
<1>5. [t.cell EXCEPT ![r0] = new] \in [Cells -> Seq(Shown)]
  BY <1>2, <1>4
<1>6. /\ put \in Screens /\ put.row = r0 /\ put.col = c0 + 1 /\ put.cell = [t.cell EXCEPT ![r0] = new]
  <2>. HIDE DEF r0, c0
  <2>2. put = [cell |-> [t.cell EXCEPT ![r0] = new], row |-> r0, col |-> c0 + 1]
    BY ScreenFields, Zenon
  <2>. HIDE DEF put
  <2>. QED
    BY <1>3, <1>5, <2>2 DEF Screens
<1>. HIDE DEF put
<1>7. \A r \in Cells : r # r0 => put.cell[r] = t.cell[r]
  BY <1>2, <1>6
<1>. QED
  BY <1>1, <1>6, <1>7


LEMMA CellsAreInts == \A r \in Cells : r \in Int
<1>1. \A i, j : \A r \in i..j : r \in Int
  OBVIOUS
<1>. QED
  BY <1>1, Zenon DEF Cells

(* A text is written rune by rune.                                         *)
LEMMA WriteIs ==
    ASSUME NEW t \in Screens, NEW text \in Seq(Shown), Wide = {}
    PROVE  \E f : /\ f \in [0..Len(text) -> Screens] /\ f[0] = t
                  /\ \A i \in 1..Len(text) : f[i] = Line!PutRune(f[i - 1], text[i])
                  /\ Line!Write(t, text) = f[Len(text)]
<1>. DEFINE n == Len(text)
            step == [i \in 1..n |-> [u \in Screens |-> Line!PutRune(u, text[i])]]
            Eq(f) == f = [i \in 0..n |-> IF i = 0 THEN t ELSE Line!PutRune(f[i - 1], text[i])]
<1>1. n \in Nat /\ \A i \in 1..n : text[i] \in Shown
  OBVIOUS
<1>2. step \in [1..n -> [Screens -> Screens]]
  BY <1>1, PutIsScreen
<1>3. PICK d \in [0..n -> Screens] : Walked(n, t, step, d)
  <2>1. IsWalked(n, Screens, t, step)
    <3>. HIDE DEF n, step
    <3>. QED
      BY <1>1, <1>2, WalkExists
  <2>. QED
    BY <2>1, Zenon DEF IsWalked
<1>4. Eq(d)
  <2>1. ASSUME NEW i \in 0..n PROVE d[i] = IF i = 0 THEN t ELSE Line!PutRune(d[i - 1], text[i])
    <3>1. d[i] = IF i = 0 THEN t ELSE step[i][d[i - 1]]
      BY <1>3 DEF Walked
    <3>2. ASSUME i # 0 PROVE step[i][d[i - 1]] = Line!PutRune(d[i - 1], text[i])
      <4>1. i \in 1..n /\ d[i - 1] \in Screens
        BY <1>1, <3>2
      <4>. QED
        BY <4>1
    <3>. QED
      BY <3>1, <3>2, Zenon
  <2>2. d = [i \in 0..n |-> d[i]]
    OBVIOUS
  <2>. HIDE DEF n, step
  <2>. QED
    BY <2>1, <2>2, Zenon
<1>5. PICK f : f = CHOOSE g : Eq(g)
  OBVIOUS
<1>6. Eq(f)
  <2>. HIDE DEF Eq
  <2>. QED
    BY <1>4, <1>5, Zenon
<1>7. Line!Write(t, text) = f[n]
  BY <1>5, Zenon DEF Line!Write
<1>8. f[0] = t /\ \A i \in 1..n : f[i] = Line!PutRune(f[i - 1], text[i])
  <2>. HIDE DEF step
  <2>1. 0 \in 0..n /\ \A i \in 1..n : i \in 0..n /\ i # 0
    BY <1>1
  <2>. HIDE DEF n
  <2>2. \A i \in 0..n : f[i] = IF i = 0 THEN t ELSE Line!PutRune(f[i - 1], text[i])
    BY <1>6, Zenon
  <2>. QED
    BY <2>1, <2>2, Zenon
<1>9. \A i \in 0..n : f[i] \in Screens
  <2>. DEFINE G == {i \in 0..n : f[i] \in Screens}
  <2>1. SUFFICES ASSUME NEW m \in 0..n PROVE m \in G
    OBVIOUS
  <2>2. 0 \in G
    BY <1>1, <1>8
  <2>3. ASSUME NEW i \in 1..m, i - 1 \in G PROVE i \in G
    <3>1. i \in 1..n /\ i \in 0..n
      BY <1>1
    <3>2. Line!PutRune(f[i - 1], text[i]) \in Screens
      BY <1>1, <2>3, <3>1, PutIsScreen
    <3>. QED
      BY <1>8, <3>1, <3>2
  <2>4. m \in Nat
    BY <1>1
  <2>. HIDE DEF G
  <2>. QED
    BY <2>2, <2>3, <2>4, Upwards
<1>10. f \in [0..n -> Screens]
  BY <1>6, <1>9
<1>. QED
  BY <1>7, <1>8, <1>10

(* What is printed anywhere leaves nothing below the row it ends in, if    *)
(* nothing was below the row it began in.                                  *)
LEMMA WriteGoesDown ==
    ASSUME NEW t \in Screens, NEW text \in Seq(Shown), Wide = {}, EmptyBelow(t)
    PROVE  Line!Write(t, text) \in Screens /\ EmptyBelow(Line!Write(t, text))
<1>. DEFINE n == Len(text)
<1>1. n \in Nat /\ \A i \in 1..n : text[i] \in Shown
  OBVIOUS
<1>2. PICK f : /\ f \in [0..n -> Screens] /\ f[0] = t
               /\ \A i \in 1..n : f[i] = Line!PutRune(f[i - 1], text[i])
               /\ Line!Write(t, text) = f[n]
  BY WriteIs
<1>. DEFINE G == {i \in 0..n : EmptyBelow(f[i])}
<1>3. 0 \in G
  BY <1>1, <1>2
<1>4. ASSUME NEW i \in 1..n, i - 1 \in G PROVE i \in G
  <2>. DEFINE u == f[i - 1]
  <2>1. u \in Screens /\ EmptyBelow(u) /\ i \in 0..n
    BY <1>1, <1>2, <1>4
  <2>2. f[i] = Line!PutRune(u, text[i]) /\ text[i] \in Shown
    BY <1>1, <1>2
  <2>. HIDE DEF u
  <2>3. /\ f[i].row = u.row \/ f[i].row = u.row + 1
        /\ \A r \in Cells : r # f[i].row => f[i].cell[r] = u.cell[r]
    <3>. DEFINE v == Line!PutRune(u, text[i])
                wraps == u.col + 1 > Width
    <3>1. /\ wraps => v.row = u.row + 1
          /\ ~ wraps => v.row = u.row
          /\ \A r \in Cells : r # v.row => v.cell[r] = u.cell[r]
      BY <2>1, <2>2, PutIsScreen
    <3>. HIDE DEF v, wraps
    <3>2. v.row = u.row \/ v.row = u.row + 1
      BY <3>1, Zenon
    <3>3. f[i] = v
      BY <2>2, Zenon DEF v
    <3>. QED
      BY <3>1, <3>2, <3>3, Zenon
  <2>4. EmptyBelow(f[i])
    <3>1. u.row \in Int /\ \A r \in Cells : r \in Int
      BY <2>1, CellsAreInts DEF Screens
    <3>. QED
      BY <2>1, <2>3, <3>1 DEF EmptyBelow
  <2>. QED
    BY <2>1, <2>4
<1>5. n \in G
  <2>. HIDE DEF G
  <2>. QED
    BY <1>1, <1>3, <1>4, Upwards
<1>. QED
  BY <1>1, <1>2, <1>5

(* Where a text ends that is written on a blank terminal.                  *)
At(t, k) ==
    /\ t.row >= 0 /\ t.col \in 0..Width /\ t.row * Width + t.col = k
    /\ k > 0 => t.col > 0
    /\ \A r \in Cells : r < 0 \/ r > t.row => t.cell[r] = <<>>

LEMMA PutMoves ==
    ASSUME NEW t \in Screens, NEW ch \in Shown, Wide = {}, NEW k \in Nat, At(t, k)
    PROVE  At(Line!PutRune(t, ch), k + 1)
<1>. DEFINE u == Line!PutRune(t, ch)
<1>1. t.row \in Nat /\ t.col \in 0..Width /\ t.row * Width + t.col = k /\ Width \in Nat \ {0}
  BY LineBounds DEF At, Screens
<1>2. u \in Screens
  BY PutIsScreen
<1>3. /\ t.col + 1 > Width => u.row = t.row + 1 /\ u.col = 1
      /\ ~(t.col + 1 > Width) => u.row = t.row /\ u.col = t.col + 1
      /\ \A r \in Cells : r # u.row => u.cell[r] = t.cell[r]
  BY PutIsScreen, Zenon
<1>. HIDE DEF u
<1>4. u.row >= t.row /\ u.row >= 0 /\ u.col \in 1..Width
  BY <1>1, <1>3
<1>5. u.row * Width + u.col = k + 1
  <2>1. CASE t.col + 1 > Width
    <3>1. t.col = Width
      BY <1>1, <2>1
    <3>2. (t.row + 1) * Width = t.row * Width + Width /\ t.row * Width \in Nat
      BY <1>1
    <3>. QED
      BY <1>1, <1>3, <2>1, <3>1, <3>2
  <2>2. CASE ~(t.col + 1 > Width)
    <3>1. t.row * Width \in Nat
      BY <1>1
    <3>. QED
      BY <1>1, <1>3, <2>2, <3>1
  <2>. QED
    BY <2>1, <2>2
<1>6. ASSUME NEW r \in Cells, r < 0 \/ r > u.row PROVE u.cell[r] = <<>>
  <2>1. r \in Int
    BY CellsAreInts
  <2>2. r # u.row /\ (r < 0 \/ r > t.row)
    BY <1>1, <1>3, <1>4, <1>6, <2>1
  <2>. QED
    BY <1>3, <2>2 DEF At
<1>. QED
  BY <1>4, <1>5, <1>6 DEF At, u

LEMMA WriteOnBlank ==
    ASSUME NEW text \in Seq(Shown), Wide = {}
    PROVE  Line!Write(Line!Blank, text) \in Screens /\ At(Line!Write(Line!Blank, text), Len(text))
<1>. DEFINE n == Len(text)
<1>1. n \in Nat /\ \A i \in 1..n : text[i] \in Shown
  OBVIOUS
<1>2. PICK f : /\ f \in [0..n -> Screens] /\ f[0] = Line!Blank
               /\ \A i \in 1..n : f[i] = Line!PutRune(f[i - 1], text[i])
               /\ Line!Write(Line!Blank, text) = f[n]
  BY BlankIsScreen, WriteIs
<1>. DEFINE G == {i \in 0..n : At(f[i], i)}
<1>3. 0 \in G
  <2>1. At(Line!Blank, 0)
    BY BlankIsScreen, LineBounds DEF At
  <2>. QED
    BY <1>1, <1>2, <2>1
<1>4. ASSUME NEW i \in 1..n, i - 1 \in G PROVE i \in G
  <2>1. f[i - 1] \in Screens /\ At(f[i - 1], i - 1) /\ i \in 0..n /\ i - 1 \in Nat /\ (i - 1) + 1 = i
    BY <1>1, <1>2, <1>4
  <2>2. f[i] = Line!PutRune(f[i - 1], text[i]) /\ text[i] \in Shown
    BY <1>1, <1>2
  <2>3. At(f[i], (i - 1) + 1)
    BY <2>1, <2>2, PutMoves, Zenon
  <2>. QED
    BY <2>1, <2>3
<1>5. n \in G
  <2>. HIDE DEF G
  <2>. QED
    BY <1>1, <1>3, <1>4, Upwards
<1>. QED
  BY <1>1, <1>2, <1>5

LEMMA PromptIs ==
    /\ Prompt \in Seq(Shown) /\ Len(Prompt) \in Nat \ {0}
<1>1. Len(Prompt) \in Nat \ {0}
  <2>. DEFINE S == {Prompt[i] : i \in DOMAIN Prompt}
  <2>1. Prompt # <<>> /\ Prompt \in Seq(S)
    BY PromptBounds, Zenon
  <2>. HIDE DEF S
  <2>. QED
    BY <2>1
<1>2. Prompt \in Seq(Shown)
  <2>. DEFINE S == {Prompt[i] : i \in DOMAIN Prompt}
  <2>1. Prompt \in Seq(S) /\ S \subseteq Shown
    BY PromptBounds, Zenon DEF Shown
  <2>. HIDE DEF S
  <2>. QED
    BY <2>1
<1>. QED
  BY <1>1, <1>2

LEMMA LineIsShown ==
    ASSUME NEW line \in Seq(Runes)
    PROVE  Prompt \o line \in Seq(Shown) /\ Len(Prompt \o line) = Len(Prompt) + Len(line)
<1>1. Runes \subseteq Shown
  BY Zenon DEF Shown
<1>. QED
  BY <1>1, PromptIs

LEMMA Moves ==
    ASSUME NEW t \in Screens, NEW n
    PROVE  /\ Line!Return(t) = [cell |-> t.cell, row |-> t.row, col |-> 0]
           /\ Line!NewLine(t) = [cell |-> t.cell, row |-> t.row + 1, col |-> 0]
           /\ Line!MoveUp(t, n) = [cell |-> t.cell, row |-> t.row - n, col |-> t.col]
           /\ Line!MoveDown(t, n) = [cell |-> t.cell, row |-> t.row + n, col |-> t.col]
<1>1. t = [cell |-> t.cell, row |-> t.row, col |-> t.col]
  BY DEF Screens
<1>2. /\ [t EXCEPT !.col = 0] = [cell |-> t.cell, row |-> t.row, col |-> 0]
      /\ [t EXCEPT !.row = t.row - n] = [cell |-> t.cell, row |-> t.row - n, col |-> t.col]
      /\ [t EXCEPT !.row = t.row + n] = [cell |-> t.cell, row |-> t.row + n, col |-> t.col]
  BY <1>1
<1>3. [t EXCEPT !.col = 0, !.row = t.row + 1] = [cell |-> t.cell, row |-> t.row + 1, col |-> 0]
  <2>1. PICK t1 : t1 = [t EXCEPT !.col = 0]
    OBVIOUS
  <2>2. t1 = [cell |-> t.cell, row |-> t.row, col |-> 0]
    BY <1>2, <2>1
  <2>3. [t1 EXCEPT !.row = t.row + 1] = [cell |-> t.cell, row |-> t.row + 1, col |-> 0]
    BY <2>2
  <2>. QED
    BY <2>1, <2>3
<1>. QED
  BY <1>2, <1>3 DEF Line!Return, Line!NewLine, Line!MoveUp, Line!MoveDown

(* Above row 0 there is never anything, so the redraw always starts on a   *)
(* terminal as good as blank.                                              *)
LEMMA ClearedIsBlank ==
    ASSUME NEW t \in Screens, \A r \in Cells : r < 0 => t.cell[r] = <<>>
    PROVE  Line!ClearBelow(Line!Return(Line!MoveUp(t, t.row))) = Line!Blank
<1>1. t.cell \in [Cells -> Seq(Shown)] /\ t.row \in Int /\ t.col \in Nat
  BY DEF Screens
<1>2. PICK u : u = Line!MoveUp(t, t.row)
  OBVIOUS
<1>3. u = [cell |-> t.cell, row |-> 0, col |-> t.col]
  <2>1. u = [cell |-> t.cell, row |-> t.row - t.row, col |-> t.col]
    BY <1>2, Moves
  <2>. QED
    BY <1>1, <2>1
<1>4. PICK v : v = Line!Return(u)
  OBVIOUS
<1>5. v = [cell |-> t.cell, row |-> 0, col |-> 0]
  <2>1. u \in Screens /\ u.cell = t.cell /\ u.row = 0
    BY <1>1, <1>3 DEF Screens
  <2>. QED
    BY <1>4, <2>1, Moves
<1>. DEFINE wiped == [r \in DOMAIN v.cell |-> IF r < v.row THEN v.cell[r]
                                ELSE IF r = v.row THEN SubSeq(v.cell[r], 1, v.col) ELSE <<>>]
<1>6. wiped = [r \in Cells |-> <<>>]
  <2>1. DOMAIN v.cell = Cells /\ v.cell = t.cell /\ v.row = 0 /\ v.col = 0
    BY <1>1, <1>5
  <2>2. ASSUME NEW r \in Cells PROVE wiped[r] = <<>>
    <3>1. r \in Int /\ t.cell[r] \in Seq(Shown)
      BY <1>1, CellsAreInts
    <3>2. wiped[r] = IF r < 0 THEN t.cell[r] ELSE IF r = 0 THEN SubSeq(t.cell[r], 1, 0) ELSE <<>>
      BY <2>1
    <3>3. SubSeq(t.cell[r], 1, 0) = <<>>
      BY <3>1
    <3>. QED
      BY <3>1, <3>2, <3>3
  <2>3. wiped = [r \in DOMAIN wiped |-> wiped[r]] /\ DOMAIN wiped = Cells
    BY <2>1
  <2>. HIDE DEF wiped
  <2>. QED
    BY <2>2, <2>3, Zenon
<1>7. Line!ClearBelow(v) = [v EXCEPT !.cell = wiped]
  BY Zenon DEF Line!ClearBelow
<1>8. [v EXCEPT !.cell = wiped] = [cell |-> wiped, row |-> 0, col |-> 0]
  <2>. HIDE DEF wiped
  <2>. QED
    BY <1>5
<1>9. Line!Blank = [cell |-> [r \in Cells |-> <<>>], row |-> 0, col |-> 0]
  BY Zenon DEF Line!Blank, Cells
<1>. HIDE DEF wiped
<1>. QED
  BY <1>2, <1>4, <1>6, <1>7, <1>8, <1>9, Zenon

(* Where a written text ends, in rows and columns: a full last row leaves  *)
(* the cursor behind its last cell.                                        *)
LEMMA EndsAt ==
    ASSUME NEW t \in Screens, NEW k \in Nat \ {0}, At(t, k)
    PROVE  /\ k \div Width \in Nat /\ k % Width \in 0..Width - 1
           /\ t.col = Width => k \div Width = t.row + 1 /\ k % Width = 0
           /\ t.col # Width => k \div Width = t.row /\ k % Width = t.col /\ k % Width # 0
<1>1. /\ t.row \in Nat /\ t.col \in 1..Width /\ t.row * Width + t.col = k /\ Width \in Nat \ {0}
  BY LineBounds DEF At, Screens
<1>2. /\ k \div Width \in Nat /\ k % Width \in 0..Width - 1
      /\ \A q \in Int, r \in 0..Width - 1 : Width * q + r = k => q = k \div Width /\ r = k % Width
  BY <1>1, RowsAndColumns
<1>3. ASSUME t.col = Width PROVE k \div Width = t.row + 1 /\ k % Width = 0
  <2>1. Width * (t.row + 1) + 0 = k
    BY <1>1, <1>3
  <2>2. t.row + 1 \in Int /\ 0 \in 0..Width - 1
    BY <1>1
  <2>. QED
    BY <1>2, <2>1, <2>2
<1>4. ASSUME t.col # Width PROVE k \div Width = t.row /\ k % Width = t.col /\ k % Width # 0
  <2>1. Width * t.row + t.col = k
    BY <1>1
  <2>2. t.row \in Int /\ t.col \in 0..Width - 1
    BY <1>1, <1>4
  <2>. QED
    BY <1>1, <1>2, <2>1, <2>2
<1>. QED
  BY <1>2, <1>3, <1>4

(* The redraw: the text as it is written on a blank terminal, and the      *)
(* cursor where the next rune goes.                                        *)
Drawn(t, line, at) ==
    /\ t \in Screens
    /\ t.cell = Line!Write(Line!Blank, Prompt \o line).cell
    /\ t.row = Line!RowOf(at) /\ t.col = (Len(Prompt) + at) % Width
    /\ Line!RowOf(Len(line)) \in Nat /\ Line!RowOf(at) \in Nat
    /\ \A r \in Cells : r < 0 \/ r > Line!RowOf(Len(line)) => t.cell[r] = <<>>

LEMMA LinePlace ==
    ASSUME NEW n \in Nat
    PROVE  Line!RowOf(n) \in Nat /\ (Len(Prompt) + n) % Width \in 0..Width - 1
<1>1. Len(Prompt) + n \in Nat /\ Width \in Nat \ {0}
  BY PromptIs, LineBounds
<1>2. (Len(Prompt) + n) \div Width \in Nat /\ (Len(Prompt) + n) % Width \in 0..Width - 1
  BY <1>1, RowsAndColumns
<1>. QED
  BY <1>2, Zenon DEF Line!RowOf

LEMMA RedrawnIsDrawn ==
    ASSUME NEW t \in Screens, \A r \in Cells : r < 0 => t.cell[r] = <<>>, Wide = {},
           NEW line \in Seq(Runes), NEW at \in 0..Len(line)
    PROVE  Drawn(Line!Redrawn(t, t.row, line, at), line, at)
<1>. DEFINE k == Len(Prompt) + Len(line)
            painted == Line!Write(Line!Blank, Prompt \o line)
            forced == Line!Forced(painted, line)
            up == Line!MoveUp(forced, Line!RowOf(Len(line)) - Line!RowOf(at))
            back == Line!Return(up)
            n == (Len(Prompt) + at) % Width
            right == Line!MoveRight(back, n)
<1>1. Line!Redrawn(t, t.row, line, at) = right
  BY ClearedIsBlank, Zenon DEF Line!Redrawn
<1>2. k \in Nat \ {0} /\ at \in Nat /\ Len(line) \in Nat /\ Width \in Nat \ {0}
  BY PromptIs, LineBounds
<1>3. /\ Line!RowOf(Len(line)) \in Nat /\ Line!RowOf(at) \in Nat /\ n \in 0..Width - 1
      /\ Line!RowOf(Len(line)) = k \div Width
  BY <1>2, LinePlace DEF Line!RowOf
<1>4. painted \in Screens /\ At(painted, k)
  <2>1. Prompt \o line \in Seq(Shown) /\ Len(Prompt \o line) = k
    BY LineIsShown
  <2>. QED
    BY <2>1, WriteOnBlank, Zenon
<1>5. /\ painted.col = Width => k \div Width = painted.row + 1 /\ k % Width = 0
      /\ painted.col # Width => k \div Width = painted.row /\ k % Width # 0
  BY <1>2, <1>4, EndsAt
<1>6. /\ painted.cell \in [Cells -> Seq(Shown)] /\ painted.row \in Int
      /\ \A r \in Cells : r < 0 \/ r > painted.row => painted.cell[r] = <<>>
  BY <1>4 DEF At, Screens
<1>. HIDE DEF painted
<1>7. forced \in Screens /\ forced.cell = painted.cell /\ forced.row = k \div Width
  <2>1. CASE k % Width = 0
    <3>1. forced = Line!NewLine(painted)
      BY <2>1, Zenon DEF Line!Forced
    <3>2. forced = [cell |-> painted.cell, row |-> painted.row + 1, col |-> 0]
      BY <1>4, <3>1, Moves
    <3>3. forced \in Screens
      BY <1>6, <3>2 DEF Screens
    <3>. QED
      BY <1>5, <2>1, <3>2, <3>3
  <2>2. CASE k % Width # 0
    <3>1. forced = painted
      BY <2>2, Zenon DEF Line!Forced
    <3>. QED
      BY <1>4, <1>5, <2>2, <3>1
  <2>. QED
    BY <2>1, <2>2
<1>. HIDE DEF forced
<1>8. up \in Screens /\ up.cell = painted.cell /\ up.row = Line!RowOf(at)
  <2>1. up = [cell |-> forced.cell, row |-> forced.row - (Line!RowOf(Len(line)) - Line!RowOf(at)), col |-> forced.col]
    BY <1>7, Moves
  <2>2. forced.row - (Line!RowOf(Len(line)) - Line!RowOf(at)) = Line!RowOf(at)
    BY <1>3, <1>7
  <2>3. forced.cell = painted.cell /\ forced.col \in Nat
    BY <1>7 DEF Screens
  <2>. HIDE DEF up
  <2>. QED
    BY <1>3, <1>6, <2>1, <2>2, <2>3 DEF Screens
<1>. HIDE DEF up
<1>9. back = [cell |-> painted.cell, row |-> Line!RowOf(at), col |-> 0]
  BY <1>8, Moves
<1>. HIDE DEF back
<1>10. right = [cell |-> painted.cell, row |-> Line!RowOf(at), col |-> n]
  <2>1. right = [back EXCEPT !.col = IF back.col + n < Width THEN back.col + n ELSE Width - 1]
    BY Zenon DEF Line!MoveRight
  <2>. HIDE DEF right, n
  <2>2. (IF back.col + n < Width THEN back.col + n ELSE Width - 1) = n
    BY <1>2, <1>3, <1>9
  <2>. QED
    BY <1>9, <2>1, <2>2
<1>11. \A r \in Cells : r < 0 \/ r > Line!RowOf(Len(line)) => painted.cell[r] = <<>>
  <2>1. painted.row \in Int /\ Line!RowOf(Len(line)) >= painted.row /\ Line!RowOf(Len(line)) \in Int
    BY <1>3, <1>5, <1>6
  <2>. QED
    BY <1>6, <2>1, CellsAreInts
<1>12. right \in Screens
  BY <1>3, <1>6, <1>10 DEF Screens
<1>13. right.cell = painted.cell /\ right.row = Line!RowOf(at) /\ right.col = n
  BY <1>10
<1>. HIDE DEF right, n
<1>14. Drawn(right, line, at)
  BY <1>3, <1>11, <1>12, <1>13, Zenon DEF Drawn, painted, n
<1>. QED
  BY <1>1, <1>14, Zenon

LineTypes ==
    /\ buf \in Seq(Runes) /\ cur \in 0..Len(buf) /\ hist \in Seq(Seq(Runes)) /\ typed \in Seq(Runes)
    /\ reading \in BOOLEAN /\ (reading => browsing \in 1..Len(hist) + 1)
LineScreen ==
    /\ reading => Drawn(term, buf, cur) /\ curRow = Line!RowOf(cur)
    /\ ~ reading => term \in Screens /\ \A r \in Cells : r >= term.row => term.cell[r] = <<>>
LineInv == LineTypes /\ LineScreen

LEMMA DrawnIsShown ==
    ASSUME LineInv, Wide = {}
    PROVE  Line!ScreenShowsLine
<1>1. CASE reading
  <2>. DEFINE k == Len(Prompt) + cur
              text == Prompt \o Line!Before
              w == Line!Write(Line!Blank, text)
  <2>1. /\ Drawn(term, buf, cur) /\ buf \in Seq(Runes) /\ cur \in 0..Len(buf)
    BY <1>1 DEF LineInv, LineTypes, LineScreen
  <2>2. Line!Before \in Seq(Runes) /\ Len(Line!Before) = cur /\ cur \in Nat
    BY <2>1 DEF Line!Before
  <2>3. text \in Seq(Shown) /\ Len(text) = k
    BY <2>2, LineIsShown
  <2>4. k \in Nat \ {0} /\ Width \in Nat \ {0}
    BY <2>2, PromptIs, LineBounds
  <2>5. w \in Screens /\ At(w, k)
    <3>. HIDE DEF k, text
    <3>. QED
      BY <2>3, WriteOnBlank, Zenon
  <2>6. /\ k % Width \in 0..Width - 1
        /\ w.col = Width => k \div Width = w.row + 1 /\ k % Width = 0
        /\ w.col # Width => k \div Width = w.row /\ k % Width = w.col
    <3>. HIDE DEF k, w
    <3>. QED
      BY <2>4, <2>5, EndsAt
  <2>7. term.row = k \div Width /\ term.col = k % Width /\ term.cell = Line!Write(Line!Blank, Prompt \o buf).cell
    BY <2>1, Zenon DEF Drawn, Line!RowOf
  <2>8. Line!CursorAt(term) = <<k \div Width, k % Width>>
    <3>1. term.col # Width
      BY <2>4, <2>6, <2>7
    <3>. QED
      BY <2>7, <3>1, Zenon DEF Line!CursorAt
  <2>9. Line!CursorAt(w) = <<k \div Width, k % Width>>
    <3>. HIDE DEF w, k
    <3>. QED
      BY <2>6, Zenon DEF Line!CursorAt
  <2>. QED
    BY <1>1, <2>7, <2>8, <2>9, Zenon DEF Line!ScreenShowsLine
<1>2. CASE ~ reading
  <2>1. term \in Screens /\ \A r \in Cells : r >= term.row => term.cell[r] = <<>>
    BY <1>2 DEF LineInv, LineScreen
  <2>2. DOMAIN term.cell = Cells
    BY <2>1 DEF Screens
  <2>. QED
    BY <1>2, <2>1, <2>2, Zenon DEF Line!ScreenShowsLine
<1>. QED
  BY <1>1, <1>2

(* A key that changes the line or moves in it.                             *)
LEMMA ShowsDraws ==
    ASSUME LineInv, reading, Wide = {}, NEW line \in Seq(Runes), NEW at \in 0..Len(line), Line!Shows(line, at)
    PROVE  /\ buf' = line /\ cur' = at /\ hist' = hist /\ reading' = reading
           /\ LineScreen'
<1>1. /\ buf' = line /\ cur' = at /\ curRow' = Line!RowOf(at) /\ hist' = hist /\ reading' = reading
      /\ term' = Line!Redrawn(term, curRow, line, at)
  BY Zenon DEF Line!Shows
<1>2. term \in Screens /\ curRow = term.row /\ \A r \in Cells : r < 0 => term.cell[r] = <<>>
  BY Zenon DEF LineInv, LineScreen, Drawn
<1>3. Drawn(Line!Redrawn(term, term.row, line, at), line, at)
  BY <1>2, RedrawnIsDrawn
<1>4. Drawn(term', line, at)
  BY <1>1, <1>2, <1>3, Zenon
<1>5. Drawn(term, buf, cur)'
  BY <1>1, <1>4, Zenon DEF Drawn
<1>6. (curRow = Line!RowOf(cur))'
  BY <1>1, Zenon
<1>. QED
  BY <1>1, <1>5, <1>6, Zenon DEF LineScreen

LEMMA StaysPut ==
    ASSUME LineInv, reading, Wide = {}, NEW line \in Seq(Runes), NEW at \in 0..Len(line),
           Line!Shows(line, at), Line!Stays
    PROVE  LineInv'
<1>1. /\ buf' = line /\ cur' = at /\ hist' = hist /\ reading' = reading /\ LineScreen'
  BY ShowsDraws
<1>2. browsing' = browsing /\ typed' = typed
  BY Zenon DEF Line!Stays
<1>3. LineTypes'
  BY <1>1, <1>2 DEF LineInv, LineTypes
<1>. QED
  BY <1>1, <1>3 DEF LineInv

(* The line on a terminal that has nothing on it.                          *)
LEMMA DrawnOnBlank ==
    ASSUME Wide = {}, NEW line \in Seq(Runes), NEW at \in 0..Len(line)
    PROVE  Drawn(Line!Redrawn(Line!Blank, 0, line, at), line, at)
<1>1. /\ Line!Blank \in Screens /\ Line!Blank.row = 0
      /\ \A r \in Cells : r < 0 => Line!Blank.cell[r] = <<>>
  BY BlankIsScreen, Zenon
<1>2. Drawn(Line!Redrawn(Line!Blank, Line!Blank.row, line, at), line, at)
  BY <1>1, RedrawnIsDrawn
<1>. QED
  BY <1>1, <1>2, Zenon

(* What ends a line is printed below all of it.                            *)
LEMMA FinishedBelow ==
    ASSUME LineInv, reading, Wide = {}, NEW text \in Seq(Shown)
    PROVE  /\ Line!Finished(text) \in Screens
           /\ \A r \in Cells : r >= Line!Finished(text).row => Line!Finished(text).cell[r] = <<>>
<1>. DEFINE low == Line!MoveDown(term, Line!RowOf(Len(buf)) - curRow)
            said == Line!Write(low, text)
            back == Line!Return(said)
            next == Line!NewLine(back)
<1>1. Line!Finished(text) = next
  BY Zenon DEF Line!Finished
<1>2. /\ term \in Screens /\ term.row = curRow /\ curRow \in Nat /\ Line!RowOf(Len(buf)) \in Nat
      /\ \A r \in Cells : r > Line!RowOf(Len(buf)) => term.cell[r] = <<>>
  BY Zenon DEF LineInv, LineScreen, Drawn
<1>3. low \in Screens /\ EmptyBelow(low)
  <2>1. low = [cell |-> term.cell, row |-> term.row + (Line!RowOf(Len(buf)) - curRow), col |-> term.col]
    BY <1>2, Moves
  <2>2. term.row + (Line!RowOf(Len(buf)) - curRow) = Line!RowOf(Len(buf))
    BY <1>2
  <2>3. term.cell \in [Cells -> Seq(Shown)] /\ term.col \in Nat
    BY <1>2 DEF Screens
  <2>. HIDE DEF low
  <2>4. low \in Screens
    BY <1>2, <2>1, <2>2, <2>3 DEF Screens
  <2>. QED
    BY <1>2, <2>1, <2>2, <2>4 DEF EmptyBelow
<1>. HIDE DEF low
<1>4. said \in Screens /\ EmptyBelow(said)
  BY <1>3, WriteGoesDown
<1>. HIDE DEF said
<1>5. said.cell \in [Cells -> Seq(Shown)] /\ said.row \in Int
  BY <1>4 DEF Screens
<1>6. back = [cell |-> said.cell, row |-> said.row, col |-> 0] /\ back \in Screens
  <2>1. back = [cell |-> said.cell, row |-> said.row, col |-> 0]
    BY <1>4, Moves
  <2>. HIDE DEF back
  <2>. QED
    BY <1>5, <2>1 DEF Screens
<1>. HIDE DEF back
<1>7. next = [cell |-> said.cell, row |-> said.row + 1, col |-> 0]
  <2>1. next = [cell |-> back.cell, row |-> back.row + 1, col |-> 0]
    BY <1>6, Moves
  <2>. QED
    BY <1>6, <2>1
<1>. HIDE DEF next
<1>8. next \in Screens
  BY <1>5, <1>7 DEF Screens
<1>9. ASSUME NEW r \in Cells, r >= next.row PROVE next.cell[r] = <<>>
  <2>1. r > said.row
    BY <1>5, <1>7, <1>9, CellsAreInts
  <2>. QED
    BY <1>4, <1>7, <2>1 DEF EmptyBelow
<1>. QED
  BY <1>1, <1>8, <1>9, Zenon

(* The keys' words and lines.                                              *)
LEMMA LeastOf ==
    ASSUME NEW S \in SUBSET Nat, S # {}
    PROVE  (CHOOSE i \in S : \A j \in S : i <= j) \in S
<1>1. \E i \in S : \A j \in S : i <= j
  BY LeastNat, Zenon
<1>. QED
  BY <1>1, Zenon

LEMMA WordStarts ==
    ASSUME cur \in Nat
    PROVE  Line!WordStart \in 0..cur
<1>. DEFINE blank == {i \in 0..cur : \A j \in i + 1..cur : buf[j] = " "}
            end == CHOOSE i \in blank : \A j \in blank : i <= j
            word == {i \in 0..end : \A j \in i + 1..end : buf[j] # " "}
            start == CHOOSE i \in word : \A j \in word : i <= j
<1>1. end \in 0..cur
  <2>1. cur \in 0..cur /\ cur + 1..cur = {}
    OBVIOUS
  <2>2. cur \in blank
    BY <2>1, Zenon
  <2>3. blank \in SUBSET Nat /\ blank \subseteq 0..cur
    <3>1. \A i \in 0..cur : i \in Nat
      OBVIOUS
    <3>2. blank \subseteq 0..cur
      BY Zenon
    <3>. HIDE DEF blank
    <3>. QED
      BY <3>1, <3>2
  <2>. HIDE DEF blank
  <2>4. end \in blank
    BY <2>2, <2>3, LeastOf
  <2>. QED
    BY <2>3, <2>4
<1>. HIDE DEF end
<1>2. start \in 0..end
  <2>1. end \in 0..end /\ end + 1..end = {}
    BY <1>1
  <2>2. end \in word
    BY <2>1, Zenon
  <2>3. word \in SUBSET Nat /\ word \subseteq 0..end
    <3>1. \A i \in 0..end : i \in Nat
      OBVIOUS
    <3>2. word \subseteq 0..end
      BY Zenon
    <3>. HIDE DEF word
    <3>. QED
      BY <3>1, <3>2
  <2>. HIDE DEF word
  <2>4. start \in word
    BY <2>2, <2>3, LeastOf
  <2>. QED
    BY <2>3, <2>4
<1>3. Line!WordStart = start
  BY Zenon DEF Line!WordStart, end
<1>. HIDE DEF start
<1>. QED
  BY <1>1, <1>2, <1>3

LEMMA Bounds ==
    ASSUME NEW n \in Nat, NEW S \in SUBSET (1..n), S # {}
    PROVE  Line!Min(S) \in S /\ Line!Max(S) \in S
<1>1. \E i \in S : \A j \in S : i <= j
  BY LeastNat
<1>2. \E i \in S : \A j \in S : i >= j
  <2>. DEFINE T == {n - i : i \in S}
  <2>1. T \in SUBSET Nat /\ T # {}
    <3>1. \A i \in S : n - i \in Nat
      OBVIOUS
    <3>2. \A t \in T : t \in Nat
      BY <3>1, Zenon
    <3>3. T # {}
      <4>1. PICK i : i \in S
        OBVIOUS
      <4>2. n - i \in T
        BY <4>1, Zenon
      <4>. QED
        BY <4>2, Zenon
    <3>. HIDE DEF T
    <3>. QED
      BY <3>2, <3>3
  <2>. HIDE DEF T
  <2>2. PICK t \in T : \A u \in T : t <= u
    BY <2>1, LeastNat
  <2>3. PICK i \in S : t = n - i
    BY DEF T
  <2>4. ASSUME NEW j \in S PROVE i >= j
    <3>1. n - j \in T
      BY DEF T
    <3>2. n - i <= n - j
      BY <2>2, <2>3, <3>1
    <3>. QED
      BY <3>2
  <2>. QED
    BY <2>4
<1>. QED
  BY <1>1, <1>2, Zenon DEF Line!Min, Line!Max

LEMMA RemembersLines ==
    ASSUME LineTypes
    PROVE  Line!Remembered \in Seq(Seq(Runes))
<1>. DEFINE inked == {i \in DOMAIN buf : buf[i] # " "}
            line == SubSeq(buf, Line!Min(inked), Line!Max(inked))
            new == IF inked = {} \/ (hist # <<>> /\ Line!Last(hist) = line) THEN hist
                   ELSE IF Len(hist) = MaxHistory THEN Append(Tail(hist), line) ELSE Append(hist, line)
<1>1. Line!Remembered = new
  BY Zenon DEF Line!Remembered
<1>2. buf \in Seq(Runes) /\ hist \in Seq(Seq(Runes))
  BY DEF LineTypes
<1>3. DOMAIN buf = 1..Len(buf) /\ Len(buf) \in Nat
  BY <1>2
<1>4. inked \in SUBSET (1..Len(buf))
  BY <1>3, Zenon
<1>5. ASSUME inked # {} PROVE line \in Seq(Runes)
  <2>. HIDE DEF inked
  <2>1. Line!Min(inked) \in 1..Len(buf) /\ Line!Max(inked) \in 1..Len(buf)
    BY <1>3, <1>4, <1>5, Bounds
  <2>. QED
    BY <1>2, <2>1
<1>6. ASSUME line \in Seq(Runes) PROVE Append(hist, line) \in Seq(Seq(Runes))
  <2>. HIDE DEF line
  <2>. QED
    BY <1>2, <1>6
<1>7. ASSUME line \in Seq(Runes), Len(hist) = MaxHistory PROVE Append(Tail(hist), line) \in Seq(Seq(Runes))
  <2>. HIDE DEF line
  <2>1. hist # <<>>
    BY <1>2, <1>7, LineBounds
  <2>. QED
    BY <1>2, <1>7, <2>1
<1>. HIDE DEF inked, line
<1>. QED
  BY <1>1, <1>2, <1>5, <1>6, <1>7, Zenon

LEMMA LineStep ==
    ASSUME LineInv, Line!Next, Wide = {}
    PROVE  LineInv'
<1>1. /\ buf \in Seq(Runes) /\ cur \in 0..Len(buf) /\ cur \in Nat /\ Len(buf) \in Nat
      /\ hist \in Seq(Seq(Runes)) /\ typed \in Seq(Runes)
  BY DEF LineInv, LineTypes
<1>2. /\ Line!Before \in Seq(Runes) /\ Len(Line!Before) = cur
      /\ Line!After \in Seq(Runes) /\ Len(Line!After) = Len(buf) - cur
  BY <1>1 DEF Line!Before, Line!After
<1>3. ASSUME NEW ch \in Runes, Line!Type(ch) PROVE LineInv'
  <2>. DEFINE line == Line!Before \o <<ch>> \o Line!After
  <2>1. line \in Seq(Runes) /\ cur + 1 \in 0..Len(line)
    BY <1>1, <1>2
  <2>2. reading /\ Line!Shows(line, cur + 1) /\ Line!Stays
    BY <1>3, Zenon DEF Line!Type
  <2>. HIDE DEF line
  <2>. QED
    BY <2>1, <2>2, StaysPut
<1>4. CASE Line!Backspace
  <2>. DEFINE line == Line!Front(Line!Before) \o Line!After
  <2>1. reading /\ cur > 0 /\ Line!Shows(line, cur - 1) /\ Line!Stays
    BY <1>4, Zenon DEF Line!Backspace
  <2>2. Line!Front(Line!Before) \in Seq(Runes) /\ Len(Line!Front(Line!Before)) = cur - 1
    BY <1>1, <1>2, <2>1 DEF Line!Front
  <2>3. line \in Seq(Runes) /\ cur - 1 \in 0..Len(line)
    BY <1>1, <1>2, <2>1, <2>2
  <2>. HIDE DEF line
  <2>. QED
    BY <2>1, <2>3, StaysPut
<1>5. CASE Line!Delete
  <2>. DEFINE line == Line!Before \o Tail(Line!After)
  <2>1. reading /\ cur < Len(buf) /\ Line!Shows(line, cur) /\ Line!Stays
    BY <1>5, Zenon DEF Line!Delete
  <2>2. Tail(Line!After) \in Seq(Runes)
    BY <1>1, <1>2, <2>1
  <2>3. line \in Seq(Runes) /\ cur \in 0..Len(line)
    BY <1>1, <1>2, <2>2
  <2>. HIDE DEF line
  <2>. QED
    BY <2>1, <2>3, StaysPut
<1>6. CASE Line!Left \/ Line!Right \/ Line!Home \/ Line!End
  <2>1. \E at \in 0..Len(buf) : reading /\ Line!Shows(buf, at) /\ Line!Stays
    <3>1. cur > 0 => cur - 1 \in 0..Len(buf)
      BY <1>1
    <3>2. cur < Len(buf) => cur + 1 \in 0..Len(buf)
      BY <1>1
    <3>3. 0 \in 0..Len(buf) /\ Len(buf) \in 0..Len(buf)
      BY <1>1
    <3>. QED
      BY <1>6, <3>1, <3>2, <3>3, Zenon DEF Line!Left, Line!Right, Line!Home, Line!End
  <2>. QED
    BY <1>1, <2>1, StaysPut, Zenon
<1>7. CASE Line!KillToEnd
  <2>1. reading /\ Line!Shows(Line!Before, cur) /\ Line!Stays
    BY <1>7, Zenon DEF Line!KillToEnd
  <2>2. cur \in 0..Len(Line!Before)
    BY <1>1, <1>2
  <2>. QED
    BY <1>2, <2>1, <2>2, StaysPut, Zenon
<1>8. CASE Line!KillToStart
  <2>1. reading /\ Line!Shows(Line!After, 0) /\ Line!Stays
    BY <1>8, Zenon DEF Line!KillToStart
  <2>2. 0 \in 0..Len(Line!After)
    BY <1>1, <1>2
  <2>. QED
    BY <1>2, <2>1, <2>2, StaysPut, Zenon
<1>9. CASE Line!KillWord
  <2>. DEFINE s == Line!WordStart
              line == SubSeq(buf, 1, s) \o Line!After
  <2>1. reading /\ Line!Shows(line, s) /\ Line!Stays
    BY <1>9, Zenon DEF Line!KillWord
  <2>2. s \in 0..cur
    BY <1>1, WordStarts
  <2>. HIDE DEF s
  <2>3. SubSeq(buf, 1, s) \in Seq(Runes) /\ Len(SubSeq(buf, 1, s)) = s
    BY <1>1, <2>2
  <2>4. line \in Seq(Runes) /\ s \in 0..Len(line)
    BY <1>1, <1>2, <2>2, <2>3
  <2>. HIDE DEF line
  <2>. QED
    BY <2>1, <2>4, StaysPut
<1>10. CASE Line!Up
  <2>1. /\ reading /\ browsing > 1 /\ browsing' = browsing - 1
        /\ typed' = IF browsing = Len(hist) + 1 THEN buf ELSE typed
        /\ Line!Shows(hist[browsing - 1], Len(hist[browsing - 1]))
    BY <1>10, Zenon DEF Line!Up
  <2>2. browsing \in 1..Len(hist) + 1
    BY <2>1 DEF LineInv, LineTypes
  <2>3. hist[browsing - 1] \in Seq(Runes) /\ browsing - 1 \in 1..Len(hist) + 1
    BY <1>1, <2>1, <2>2
  <2>4. Len(hist[browsing - 1]) \in 0..Len(hist[browsing - 1])
    BY <2>3
  <2>5. /\ buf' = hist[browsing - 1] /\ cur' = Len(hist[browsing - 1]) /\ hist' = hist /\ reading' = reading
        /\ LineScreen'
    BY <2>1, <2>3, <2>4, ShowsDraws, Zenon
  <2>6. typed' \in Seq(Runes)
    BY <1>1, <2>1, Zenon
  <2>7. LineTypes'
    BY <1>1, <2>1, <2>3, <2>4, <2>5, <2>6, Zenon DEF LineTypes
  <2>. QED
    BY <2>5, <2>7 DEF LineInv
<1>11. CASE Line!Down
  <2>. DEFINE line == IF browsing = Len(hist) THEN typed ELSE hist[browsing + 1]
  <2>1. /\ reading /\ browsing <= Len(hist) /\ browsing' = browsing + 1
        /\ typed' = typed /\ Line!Shows(line, Len(line))
    BY <1>11, Zenon DEF Line!Down
  <2>2. browsing \in 1..Len(hist) + 1
    BY <2>1 DEF LineInv, LineTypes
  <2>3. line \in Seq(Runes) /\ browsing + 1 \in 1..Len(hist) + 1
    BY <1>1, <2>1, <2>2
  <2>. HIDE DEF line
  <2>4. Len(line) \in 0..Len(line)
    BY <2>3
  <2>5. /\ buf' = line /\ cur' = Len(line) /\ hist' = hist /\ reading' = reading /\ LineScreen'
    BY <2>1, <2>3, <2>4, ShowsDraws, Zenon
  <2>7. LineTypes'
    BY <1>1, <2>1, <2>3, <2>4, <2>5, Zenon DEF LineTypes
  <2>. QED
    BY <2>5, <2>7 DEF LineInv
<1>12. CASE Line!ClearScreen
  <2>1. /\ reading /\ term' = Line!Redrawn(Line!Blank, 0, buf, cur) /\ curRow' = Line!RowOf(cur)
        /\ UNCHANGED <<browsing, typed, buf, cur, hist, reading>>
    BY <1>12, Zenon DEF Line!ClearScreen, Line!Stays
  <2>2. Drawn(term, buf, cur)'
    BY <1>1, <2>1, DrawnOnBlank, Zenon DEF Drawn
  <2>3. LineScreen'
    <3>1. (curRow = Line!RowOf(cur))'
      BY <2>1, Zenon
    <3>. QED
      BY <2>1, <2>2, <3>1, Zenon DEF LineScreen
  <2>4. LineTypes'
    BY <2>1 DEF LineInv, LineTypes
  <2>. QED
    BY <2>3, <2>4 DEF LineInv
<1>13. CASE Line!Enter \/ Line!Interrupt
  <2>1. /\ reading /\ reading' = FALSE /\ (hist' = hist \/ hist' = Line!Remembered)
        /\ UNCHANGED <<buf, cur, browsing, typed>>
        /\ \E text \in {<<>>, <<"^", "C">>} : term' = Line!Finished(text)
    BY <1>13, Zenon DEF Line!Enter, Line!Interrupt
  <2>2. PICK text \in Seq(Shown) : term' = Line!Finished(text)
    <3>1. <<>> \in Seq(Shown) /\ <<"^", "C">> \in Seq(Shown)
      <4>1. "^" \in Shown /\ "C" \in Shown
        BY Zenon DEF Shown
      <4>2. \A p, q \in Shown : <<p, q>> \in Seq(Shown)
        OBVIOUS
      <4>3. <<>> \in Seq(Shown)
        OBVIOUS
      <4>. QED
        BY <4>1, <4>2, <4>3, Zenon
    <3>. QED
      BY <2>1, <3>1, Zenon
  <2>3. term' \in Screens /\ \A r \in Cells : r >= term'.row => term'.cell[r] = <<>>
    BY <2>1, <2>2, FinishedBelow, Zenon
  <2>4. LineScreen'
    BY <2>1, <2>3, Zenon DEF LineScreen
  <2>5. hist' \in Seq(Seq(Runes))
    <3>1. LineTypes
      BY DEF LineInv
    <3>. QED
      BY <1>1, <2>1, <3>1, RemembersLines, Zenon
  <2>6. LineTypes'
    BY <1>1, <2>1, <2>5, Zenon DEF LineTypes
  <2>. QED
    BY <2>4, <2>6 DEF LineInv
<1>14. CASE Line!ReadLine
  <2>1. /\ reading' = TRUE /\ buf' = <<>> /\ cur' = 0 /\ browsing' = Len(hist) + 1 /\ typed' = <<>>
        /\ term' = Line!Redrawn(Line!Blank, 0, <<>>, 0) /\ curRow' = Line!RowOf(0) /\ hist' = hist
    BY <1>14, Zenon DEF Line!ReadLine
  <2>2. <<>> \in Seq(Runes) /\ 0 \in 0..Len(<<>>)
    OBVIOUS
  <2>3. Drawn(term', <<>>, 0)
    BY <2>1, <2>2, DrawnOnBlank, Zenon
  <2>4. Drawn(term, buf, cur)'
    BY <2>1, <2>3, Zenon DEF Drawn
  <2>5. LineScreen'
    <3>1. (curRow = Line!RowOf(cur))'
      BY <2>1, Zenon
    <3>. QED
      BY <2>1, <2>4, <3>1, Zenon DEF LineScreen
  <2>6. Len(hist) + 1 \in 1..Len(hist) + 1
    BY <1>1
  <2>7. LineTypes'
    BY <1>1, <2>1, <2>2, <2>6, Zenon DEF LineTypes
  <2>. QED
    BY <2>5, <2>7 DEF LineInv
<1>. QED
  BY <1>3, <1>4, <1>5, <1>6, <1>7, <1>8, <1>9, <1>10, <1>11, <1>12, <1>13, <1>14, Zenon DEF Line!Next

(* While a line is edited the terminal shows all of it, wrapped, with the  *)
(* cursor where the next rune goes, and what ends the line is printed      *)
(* below all of it (redraw and finishLine): for every width, prompt, line  *)
(* and history, of runes that take one cell each.                          *)
THEOREM LineScreenShowsLine ==
    ASSUME Wide = {}
    PROVE  Line!Spec => []ScreenShowsLine
<1>1. ASSUME Line!Init PROVE LineInv
  <2>1. /\ buf = <<>> /\ cur = 0 /\ hist = <<>> /\ browsing = 1 /\ typed = <<>>
        /\ term = Line!Redrawn(Line!Blank, 0, <<>>, 0) /\ curRow = Line!RowOf(0) /\ reading = TRUE
    BY <1>1, Zenon DEF Line!Init
  <2>2. <<>> \in Seq(Runes) /\ 0 \in 0..Len(<<>>) /\ <<>> \in Seq(Seq(Runes)) /\ 1 \in 1..Len(<<>>) + 1
    OBVIOUS
  <2>3. Drawn(term, buf, cur)
    BY <2>1, <2>2, DrawnOnBlank, Zenon
  <2>. QED
    BY <2>1, <2>2, <2>3, Zenon DEF LineInv, LineTypes, LineScreen
<1>2. ASSUME LineInv, [Line!Next]_(Line!vars) PROVE LineInv'
  <2>1. CASE Line!Next
    BY <1>2, <2>1, LineStep
  <2>2. CASE UNCHANGED Line!vars
    <3>1. UNCHANGED <<buf, cur, hist, browsing, typed, curRow, term, reading>>
      BY <2>2, Zenon DEF Line!vars
    <3>2. LineTypes'
      BY <1>2, <3>1, Zenon DEF LineInv, LineTypes
    <3>3. LineScreen'
      BY <1>2, <3>1, Zenon DEF LineInv, LineScreen, Drawn
    <3>. QED
      BY <3>2, <3>3 DEF LineInv
  <2>. QED
    BY <1>2, <2>1, <2>2
<1>3. LineInv => ScreenShowsLine
  BY DrawnIsShown, Zenon DEF ScreenShowsLine
<1>. QED
  BY <1>1, <1>2, <1>3, PTL DEF Line!Spec
=============================================================================
