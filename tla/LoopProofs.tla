----------------------------- MODULE LoopProofs -----------------------------
(***************************************************************************)
(* What the improve loop owes the board for every number of ideas and of   *)
(* processes, however often they are killed and the board refuses a write; *)
(* that a debate is reported as it went, whatever its lineup, rounds,      *)
(* limits and budget; and that an audit's clean exit hides no finding.     *)
(***************************************************************************)
EXTENDS MCLoops, FiniteSetTheorems, SequenceTheorems, WellFoundedInduction, TLAPS

LoopTyped ==
    /\ severity \in [Ideas -> 0..3]
    /\ status \in [Ideas -> OnBoard \cup {"absent", "removed"}]
    /\ attempts \in [Ideas -> Nat] /\ accepts \in [Ideas -> Nat]
    /\ starts \in [Loops -> [Ideas -> Nat]] /\ runs \in [Ideas -> Nat]
    /\ pc \in [Loops -> {"top", "gather", "mark"} \cup Working \cup Stopped]
    /\ idea \in [Loops -> Ideas \cup {0}]
    /\ \A p \in Loops : pc[p] \in {"mark"} \cup Working => idea[p] \in Ideas

(* The attempts on the books that have not become runs yet.                *)
AboutToRun(i) == {p \in Loops : pc[p] = "run" /\ idea[p] = i}

AttemptPerRun ==
    \A i \in Ideas : runs[i] + Cardinality(AboutToRun(i)) <= attempts[i]

(* What a process has used up of an idea: the runs it began, the one it is *)
(* about to begin, and the one it may come to, as the idea can be picked   *)
(* or it has picked it.                                                    *)
One(condition) == IF condition THEN 1 ELSE 0
MayBePicked(i) == status[i] \in {"absent", "proposed", "accepted"}
UsedUp(p, i) ==
    starts[p][i] + One(pc[p] = "run" /\ idea[p] = i)
                 + One(MayBePicked(i) \/ (pc[p] = "mark" /\ idea[p] = i))

StartPerAccept == \A p \in Loops, i \in Ideas : UsedUp(p, i) <= 1 + accepts[i]

LoopInv == LoopTyped /\ AttemptPerRun /\ StartPerAccept

-----------------------------------------------------------------------------
(* Of a nonempty set of ideas one has the least number of any kind.        *)
LEMMA LeastBy ==
    ASSUME NEW f \in [Ideas -> Nat], NEW S \in SUBSET Ideas, S # {}
    PROVE  \E i \in S : \A j \in S : f[i] <= f[j]
<1>. DEFINE Values == {f[i] : i \in S}
            Less == OpToRel(<, Nat)
<1>1. Values \subseteq Nat /\ Values # {}
  OBVIOUS
<1>2. \A m, n \in Nat : m < n => <<m, n>> \in Less
  BY DEF OpToRel
<1>3. IsWellFoundedOn(Less, Nat)
  BY NatLessThanWellFounded, Zenon DEF OpToRel
<1>. HIDE DEF Less
<1>4. \E n \in Values : \A m \in Values : ~(<<m, n>> \in Less)
  <2>. HIDE DEF Values
  <2>. QED
    BY <1>1, <1>3, WFMin
<1>5. PICK i \in S : \A j \in S : ~(<<f[j], f[i]>> \in Less)
  BY <1>4, Zenon
<1>6. \A j \in S : ~(f[j] < f[i])
  BY <1>2, <1>5
<1>. QED
  BY <1>6

(* The query of NextActionable finds an idea if one can be acted on.       *)
LEMMA NextIsActionable ==
    ASSUME LoopTyped, Actionable # {}
    PROVE  NextActionable \in Actionable
<1>1. severity \in [Ideas -> Nat] /\ Actionable \subseteq Ideas
  BY DEF LoopTyped, Actionable
<1>2. PICK first \in Actionable : \A j \in Actionable : severity[first] <= severity[j]
  BY <1>1, LeastBy
<1>. DEFINE Level == {j \in Actionable : severity[j] = severity[first]}
            Age == [j \in Ideas |-> j]
<1>3. Age \in [Ideas -> Nat]
  BY LoopAssumption DEF Ideas
<1>6. Level \in SUBSET Ideas /\ Level # {}
  BY <1>1, <1>2
<1>4. PICK i \in Level : \A j \in Level : Age[i] <= Age[j]
  <2>. HIDE DEF Level, Age
  <2>. QED
    BY <1>3, <1>6, LeastBy
<1>5. i \in Actionable /\ \A j \in Actionable : Before(i, j)
  <2>1. i \in Actionable /\ severity[i] = severity[first]
    BY <1>4
  <2>2. ASSUME NEW j \in Actionable PROVE Before(i, j)
    <3>1. CASE j \in Level
      <4>1. Age[i] = i /\ Age[j] = j
        BY <1>1, <2>1, <2>2
      <4>. QED
        BY <1>4, <2>1, <3>1, <4>1 DEF Before
    <3>2. CASE j \notin Level
      BY <1>1, <1>2, <2>1, <2>2, <3>2 DEF Before
    <3>. QED
      BY <3>1, <3>2
  <2>. QED
    BY <2>1, <2>2
<1>. QED
  BY <1>5, Zenon DEF NextActionable

-----------------------------------------------------------------------------
LEMMA ImproveInitInv == Init => LoopInv
<1>. SUFFICES ASSUME Init PROVE LoopInv
  OBVIOUS
<1>1. severity \in [Ideas -> 0..3]
  BY LoopAssumption DEF Init, Ideas
<1>2. LoopTyped
  BY <1>1 DEF Init, LoopTyped, OnBoard, Working, Stopped
<1>3. \A i \in Ideas : AboutToRun(i) = {}
  BY DEF Init, AboutToRun
<1>4. AttemptPerRun
  BY <1>3, FS_EmptySet DEF Init, AttemptPerRun
<1>5. StartPerAccept
  BY DEF Init, StartPerAccept, UsedUp, One, MayBePicked, Working, Stopped
<1>. QED
  BY <1>2, <1>4, <1>5 DEF LoopInv

(* A step that begins no attempt and no run leaves the books in order.     *)
LEMMA NoNewAttempt ==
    ASSUME LoopInv, UNCHANGED <<attempts, runs>>, LoopTyped',
           \A q \in Loops : pc'[q] = "run" => pc[q] = "run" /\ idea'[q] = idea[q]
    PROVE  AttemptPerRun'
<1>. SUFFICES ASSUME NEW i \in Ideas
              PROVE  runs[i] + Cardinality(AboutToRun(i)') <= attempts[i]
  BY DEF AttemptPerRun
<1>1. AboutToRun(i)' \subseteq AboutToRun(i) /\ IsFiniteSet(AboutToRun(i))
  BY LoopAssumption, FS_Subset DEF AboutToRun
<1>2. /\ Cardinality(AboutToRun(i)') <= Cardinality(AboutToRun(i))
      /\ Cardinality(AboutToRun(i)') \in Nat /\ Cardinality(AboutToRun(i)) \in Nat
  BY <1>1, FS_Subset, FS_CardinalityType
<1>. QED
  BY <1>2 DEF LoopInv, LoopTyped, AttemptPerRun

(* A step after which no process can do more with an idea than before.     *)
LEMMA NothingUsedUp ==
    ASSUME LoopInv, UNCHANGED <<accepts, starts>>, LoopTyped',
           \A q \in Loops, i \in Ideas :
              /\ pc'[q] = "run" /\ idea'[q] = i => pc[q] = "run" /\ idea[q] = i
              /\ pc'[q] = "mark" /\ idea'[q] = i => MayBePicked(i) \/ (pc[q] = "mark" /\ idea[q] = i)
              /\ MayBePicked(i)' => MayBePicked(i)
    PROVE  StartPerAccept'
<1>. SUFFICES ASSUME NEW q \in Loops, NEW i \in Ideas
              PROVE  UsedUp(q, i)' <= 1 + accepts[i]
  BY DEF StartPerAccept
<1>1. UsedUp(q, i) <= 1 + accepts[i] /\ starts[q][i] \in Nat /\ accepts[i] \in Nat
  BY DEF LoopInv, LoopTyped, StartPerAccept
<1>. QED
  BY <1>1 DEF UsedUp, One

LEMMA TopInv == ASSUME LoopInv, NEW p \in Loops, Top(p) PROVE LoopInv'
<1>1. UNCHANGED <<board, history>> /\ LoopTyped
  BY DEF Top, LoopInv
<1>2. CASE Actionable # {} /\ Go(p, "mark") /\ idea' = [idea EXCEPT ![p] = NextActionable]
  <2>1. NextActionable \in Ideas /\ MayBePicked(NextActionable)
    BY <1>1, <1>2, NextIsActionable DEF Actionable, MayBePicked
  <2>2. LoopTyped'
    BY <1>1, <1>2, <2>1 DEF LoopTyped, Go, board, history, Working, Stopped
  <2>3. AttemptPerRun'
    BY <1>1, <1>2, <2>2, NoNewAttempt DEF Go, board, history, LoopTyped
  <2>4. StartPerAccept'
    BY <1>1, <1>2, <2>1, <2>2, NothingUsedUp DEF Go, board, history, LoopTyped, MayBePicked
  <2>. QED
    BY <2>2, <2>3, <2>4 DEF LoopInv
<1>3. CASE idea' = idea /\ \E stage \in {"stopped", "gather"} : Go(p, stage)
  <2>2. LoopTyped'
    BY <1>1, <1>3 DEF LoopTyped, Go, board, history, Working, Stopped
  <2>3. AttemptPerRun'
    BY <1>1, <1>3, <2>2, NoNewAttempt DEF Go, board, history, LoopTyped
  <2>4. StartPerAccept'
    BY <1>1, <1>3, <2>2, NothingUsedUp DEF Go, board, history, LoopTyped, MayBePicked
  <2>. QED
    BY <2>2, <2>3, <2>4 DEF LoopInv
<1>. QED
  BY <1>2, <1>3 DEF Top

(* Gathered ideas appear as proposed: they can be picked, as they could    *)
(* before they were on the board.                                          *)
LEMMA GatherInv == ASSUME LoopInv, NEW p \in Loops, Gather(p) PROVE LoopInv'
<1>1. /\ UNCHANGED <<severity, attempts, accepts, history, idea>> /\ LoopTyped
      /\ pc' = pc \/ \E stage \in {"stopped", "top"} : Go(p, stage)
      /\ status' = status \/ \E i \in Ideas : status[i] = "absent" /\ status' = [status EXCEPT ![i] = "proposed"]
  BY DEF Gather, LoopInv, AfterGather
<1>2. LoopTyped'
  BY <1>1 DEF LoopTyped, Go, history, Working, Stopped, OnBoard
<1>3. AttemptPerRun'
  BY <1>1, <1>2, NoNewAttempt DEF Go, history, LoopTyped
<1>4. StartPerAccept'
  BY <1>1, <1>2, NothingUsedUp DEF Go, history, LoopTyped, MayBePicked
<1>. QED
  BY <1>2, <1>3, <1>4 DEF LoopInv

(* The process stops working on its idea: nothing begun, nothing recorded. *)
LEMMA LeaveInv ==
    ASSUME LoopInv, NEW p \in Loops, UNCHANGED <<severity, attempts, accepts, history>>,
           \E stage \in {"top", "killed"} : Leaves(p, stage),
           status' = status \/ \E i \in Ideas, s \in OnBoard \cup {"removed"} :
                                  /\ s \notin {"proposed", "accepted"}
                                  /\ status' = [status EXCEPT ![i] = s]
    PROVE  LoopInv'
<1>1. LoopTyped /\ LoopTyped'
  BY DEF LoopInv, LoopTyped, Leaves, Go, history, Working, Stopped, OnBoard
<1>2. AttemptPerRun'
  BY <1>1, NoNewAttempt DEF Leaves, Go, history, LoopTyped
<1>3. StartPerAccept'
  BY <1>1, NothingUsedUp DEF Leaves, Go, history, LoopTyped, MayBePicked, OnBoard
<1>. QED
  BY <1>1, <1>2, <1>3 DEF LoopInv

LEMMA MarkInv == ASSUME LoopInv, NEW p \in Loops, MarkInProgress(p) PROVE LoopInv'
<1>. DEFINE k == idea[p]
<1>1. CASE /\ status' = [status EXCEPT ![k] = "in_progress"]
           /\ attempts' = [attempts EXCEPT ![k] = @ + 1]
           /\ Go(p, "run") /\ UNCHANGED idea
  <2>1. /\ LoopTyped /\ k \in Ideas /\ pc[p] = "mark"
        /\ UNCHANGED <<severity, accepts, history, iterations, gathered>>
    BY DEF MarkInProgress, LoopInv, LoopTyped
  <2>2. LoopTyped'
    BY <1>1, <2>1 DEF LoopTyped, Go, history, Working, OnBoard
  <2>3. ASSUME NEW i \in Ideas
        PROVE  runs[i] + Cardinality(AboutToRun(i)') <= attempts'[i]
    <3>1. AboutToRun(i)' = IF i = k THEN AboutToRun(i) \cup {p} ELSE AboutToRun(i)
      BY <1>1, <2>1 DEF AboutToRun, Go, LoopTyped
    <3>2. IsFiniteSet(AboutToRun(i)) /\ p \notin AboutToRun(i)
      BY <2>1, LoopAssumption, FS_Subset DEF AboutToRun
    <3>3. Cardinality(AboutToRun(i)') = Cardinality(AboutToRun(i)) + One(i = k)
      <4>1. Cardinality(AboutToRun(i)) \in Nat
        BY <3>2, FS_CardinalityType
      <4>2. Cardinality(AboutToRun(i) \cup {p}) = Cardinality(AboutToRun(i)) + 1
        BY <3>2, FS_AddElement
      <4>. QED
        BY <3>1, <4>1, <4>2 DEF One
    <3>4. attempts'[i] = attempts[i] + One(i = k)
      BY <1>1, <2>1, <2>3 DEF LoopTyped, One
    <3>. QED
      BY <2>1, <2>3, <3>2, <3>3, <3>4, FS_CardinalityType DEF LoopInv, LoopTyped, AttemptPerRun, One
  <2>4. AttemptPerRun'
    BY <2>1, <2>3 DEF AttemptPerRun, history
  <2>5. ASSUME NEW q \in Loops, NEW i \in Ideas
        PROVE  UsedUp(q, i)' <= 1 + accepts[i]
    <3>1. UsedUp(q, i) <= 1 + accepts[i] /\ starts[q][i] \in Nat /\ accepts[i] \in Nat
      BY <2>1, <2>5 DEF LoopInv, LoopTyped, StartPerAccept
    <3>2. pc'[q] = IF q = p THEN "run" ELSE pc[q]
      BY <1>1, <2>1 DEF Go, LoopTyped
    <3>3. MayBePicked(i)' <=> i # k /\ MayBePicked(i)
      BY <1>1, <2>1 DEF MayBePicked, LoopTyped
    <3>4. starts'[q][i] = starts[q][i] /\ idea' = idea
      BY <1>1, <2>1 DEF history
    <3>5. CASE q = p /\ i = k
      BY <2>1, <3>1, <3>2, <3>3, <3>4, <3>5 DEF UsedUp, One
    <3>6. CASE q # p
      BY <3>1, <3>2, <3>3, <3>4, <3>6 DEF UsedUp, One
    <3>7. CASE i # k
      BY <3>1, <3>2, <3>3, <3>4, <3>7 DEF UsedUp, One
    <3>. QED
      BY <3>5, <3>6, <3>7
  <2>6. StartPerAccept'
    BY <2>1, <2>5 DEF StartPerAccept
  <2>. QED
    BY <2>2, <2>4, <2>6 DEF LoopInv
<1>2. CASE Leaves(p, "top") /\ UNCHANGED <<status, attempts>>
  BY <1>2, LeaveInv DEF MarkInProgress
<1>. QED
  BY <1>1, <1>2 DEF MarkInProgress

(* The run begins: one of the attempts on the books becomes a run.         *)
LEMMA RunInv == ASSUME LoopInv, NEW p \in Loops, Run(p) PROVE LoopInv'
<1>. DEFINE k == idea[p]
<1>1. /\ LoopTyped /\ k \in Ideas /\ pc[p] = "run"
      /\ starts' = [starts EXCEPT ![p][k] = @ + 1] /\ runs' = [runs EXCEPT ![k] = @ + 1]
      /\ pc' = [pc EXCEPT ![p] = "record"] /\ UNCHANGED <<board, idea>>
  BY DEF Run, Go, LoopInv, LoopTyped, Working
<1>2. LoopTyped'
  BY <1>1 DEF LoopTyped, board, Working
<1>3. ASSUME NEW i \in Ideas
      PROVE  runs'[i] + Cardinality(AboutToRun(i)') <= attempts[i]
  <2>1. AboutToRun(i)' = IF i = k THEN AboutToRun(i) \ {p} ELSE AboutToRun(i)
    BY <1>1 DEF AboutToRun, LoopTyped
  <2>2. IsFiniteSet(AboutToRun(i)) /\ (i = k => p \in AboutToRun(i))
    BY <1>1, LoopAssumption, FS_Subset DEF AboutToRun
  <2>3. i = k => Cardinality(AboutToRun(i) \ {p}) = Cardinality(AboutToRun(i)) - 1
    BY <2>2, FS_RemoveElement
  <2>4. runs[i] + Cardinality(AboutToRun(i)) <= attempts[i] /\ Cardinality(AboutToRun(i)) \in Nat
    BY <1>3, <2>2, FS_CardinalityType DEF LoopInv, AttemptPerRun
  <2>5. runs'[i] = runs[i] + One(i = k) /\ runs[i] \in Nat /\ attempts[i] \in Nat
    BY <1>1, <1>3 DEF LoopTyped, One
  <2>. QED
    BY <2>1, <2>3, <2>4, <2>5 DEF One
<1>4. AttemptPerRun'
  BY <1>1, <1>3 DEF AttemptPerRun, board
<1>5. ASSUME NEW q \in Loops, NEW i \in Ideas
      PROVE  UsedUp(q, i)' <= 1 + accepts[i]
  <2>1. UsedUp(q, i) <= 1 + accepts[i] /\ starts[q][i] \in Nat /\ accepts[i] \in Nat
    BY <1>1, <1>5 DEF LoopInv, LoopTyped, StartPerAccept
  <2>2. /\ pc'[q] = IF q = p THEN "record" ELSE pc[q]
        /\ idea' = idea
        /\ MayBePicked(i)' <=> MayBePicked(i)
    BY <1>1, <1>5 DEF LoopTyped, MayBePicked, board
  <2>3. starts'[q][i] = starts[q][i] + One(q = p /\ i = k)
    BY <1>1, <1>5 DEF LoopTyped, One
  <2>4. CASE q = p /\ i = k
    BY <1>1, <2>1, <2>2, <2>3, <2>4 DEF UsedUp, One
  <2>5. CASE q # p
    BY <2>1, <2>2, <2>3, <2>5 DEF UsedUp, One
  <2>6. CASE i # k
    BY <2>1, <2>2, <2>3, <2>6 DEF UsedUp, One
  <2>. QED
    BY <2>4, <2>5, <2>6
<1>6. StartPerAccept'
  BY <1>1, <1>5 DEF StartPerAccept, board
<1>. QED
  BY <1>2, <1>4, <1>6 DEF LoopInv

LEMMA RecordInv == ASSUME LoopInv, NEW p \in Loops, Record(p) PROVE LoopInv'
<1>1. idea[p] \in Ideas
  BY DEF Record, LoopInv, LoopTyped, Working
<1>. QED
  BY <1>1, LeaveInv DEF Record, Terminal, OnBoard, history

LEMMA KillInv == ASSUME LoopInv, NEW p \in Loops, Kill(p) PROVE LoopInv'
  BY LeaveInv DEF Kill, board, history

LEMMA RunAgainInv == ASSUME LoopInv, NEW p \in Loops, RunAgain(p) PROVE LoopInv'
<1>1. UNCHANGED <<board, history, idea>> /\ LoopTyped /\ Go(p, "top")
  BY DEF RunAgain, LoopInv
<1>2. LoopTyped'
  BY <1>1 DEF LoopTyped, Go, board, history, Working, Stopped
<1>3. AttemptPerRun'
  BY <1>1, <1>2, NoNewAttempt DEF Go, board, history, LoopTyped
<1>4. StartPerAccept'
  BY <1>1, <1>2, NothingUsedUp DEF Go, board, history, LoopTyped, MayBePicked
<1>. QED
  BY <1>2, <1>3, <1>4 DEF LoopInv

(* `uta ideas accept` grants one more start; the other commands none.      *)
LEMMA OperatorInv ==
    ASSUME LoopInv, NEW i \in Ideas, Accept(i) \/ Settle(i) PROVE LoopInv'
<1>1. LoopTyped /\ UNCHANGED <<severity, attempts, history, pc, idea>>
  BY DEF Accept, Settle, loop, LoopInv
<1>2. CASE Accept(i)
  <2>1. /\ status' = [status EXCEPT ![i] = "accepted"]
        /\ accepts' = [accepts EXCEPT ![i] = @ + 1]
    BY <1>2 DEF Accept
  <2>2. LoopTyped'
    BY <1>1, <2>1 DEF LoopTyped, OnBoard, history
  <2>3. AttemptPerRun'
    BY <1>1, <2>2, NoNewAttempt DEF history
  <2>4. ASSUME NEW q \in Loops, NEW j \in Ideas
        PROVE  UsedUp(q, j)' <= 1 + accepts'[j]
    <3>1. /\ UsedUp(q, j) <= 1 + accepts[j] /\ starts[q][j] \in Nat /\ accepts[j] \in Nat
          /\ accepts'[j] = accepts[j] + One(j = i) /\ (j # i => (MayBePicked(j)' <=> MayBePicked(j)))
      BY <1>1, <2>1, <2>4 DEF LoopInv, LoopTyped, StartPerAccept, One, MayBePicked
    <3>. QED
      BY <1>1, <3>1 DEF UsedUp, One, history
  <2>. QED
    BY <2>2, <2>3, <2>4 DEF LoopInv, StartPerAccept
<1>3. CASE Settle(i)
  <2>1. accepts' = accepts /\ \E s \in {"rejected", "done", "removed"} : status' = [status EXCEPT ![i] = s]
    BY <1>3 DEF Settle
  <2>2. LoopTyped'
    BY <1>1, <2>1 DEF LoopTyped, OnBoard, history
  <2>3. AttemptPerRun'
    BY <1>1, <2>2, NoNewAttempt DEF history
  <2>4. StartPerAccept'
    BY <1>1, <2>1, <2>2, NothingUsedUp DEF history, LoopTyped, MayBePicked
  <2>. QED
    BY <2>2, <2>3, <2>4 DEF LoopInv
<1>. QED
  BY <1>2, <1>3

-----------------------------------------------------------------------------
LEMMA ImproveStepInv == LoopInv /\ [Next]_vars => LoopInv'
<1>1. ASSUME LoopInv, UNCHANGED vars PROVE LoopInv'
  BY <1>1 DEF vars, board, history, loop, LoopInv, LoopTyped, AttemptPerRun, AboutToRun,
     StartPerAccept, UsedUp, MayBePicked
<1>. QED
  BY <1>1, TopInv, GatherInv, MarkInv, RunInv, RecordInv, KillInv, RunAgainInv, OperatorInv
  DEF Next, LoopStep

(* Every run of an idea is one of the attempts on its row, and no process  *)
(* begins a second one before the operator has accepted the idea again:    *)
(* MarkInProgress comes before the run, and NextActionable never returns   *)
(* what was marked.                                                        *)
THEOREM ImproveAttemptsAgree == Spec => []AttemptsAgree
<1>1. LoopInv => AttemptsAgree
  <2>. SUFFICES ASSUME LoopInv PROVE AttemptsAgree
    OBVIOUS
  <2>1. ASSUME NEW i \in Ideas PROVE runs[i] <= attempts[i]
    <3>1. IsFiniteSet(AboutToRun(i))
      BY LoopAssumption, FS_Subset DEF AboutToRun
    <3>. QED
      BY <2>1, <3>1, FS_CardinalityType DEF LoopInv, LoopTyped, AttemptPerRun
  <2>2. ASSUME NEW p \in Loops, NEW i \in Ideas PROVE starts[p][i] <= 1 + accepts[i]
    BY <2>2 DEF LoopInv, LoopTyped, StartPerAccept, UsedUp, One
  <2>. QED
    BY <2>1, <2>2 DEF AttemptsAgree, WorkIsCounted, OncePerAccept
<1>. QED
  BY ImproveInitInv, ImproveStepInv, <1>1, PTL DEF Spec

-----------------------------------------------------------------------------
(* A debate.  Its turns, and the rows written for them.                    *)
DebateTurn == [agent : Range(available), round : Int, orders : {"open", "close", "rebut"}]
RowStatus == {"none", "running", "completed", "failed"}
Waiting == debate \in {"asking", "backoff"}
Over == debate \in {"returned", "exited"}

Amounts == tokens \in Nat /\ counted \in Nat /\ owed \in Nat /\ counted + owed <= tokens
Request ==
    /\ flag \in Flags /\ available \in Installed /\ asked \in RoundsAsked
    /\ asJSON \in BOOLEAN /\ rounds \in Nat
    /\ sess # "none" => agents \in Seq(Range(available)) /\ Len(agents) = 2
Lists ==
    /\ turns \in Seq(DebateTurn)
    /\ rows \in Seq(RowStatus) /\ dropped \in BOOLEAN
Stage ==
    /\ debate \in {"start", "loop", "asking", "backoff", "returned", "exited"}
    /\ debate = "start" => turns = <<>> /\ rows = <<>> /\ queue = <<>> /\ sess = "none"
    /\ debate \notin {"start", "exited"} => sess # "none"
    /\ Len(turns) <= 2 * rounds

DebateTyped == Amounts /\ Request /\ Lists /\ Stage

(* A row for each turn, and one for the turn that is being taken; what     *)
(* they say unless a write was lost.                                       *)
RowsFollow ==
    /\ debate \in {"start", "loop"} => Len(rows) = Len(turns)
    /\ Waiting => Len(rows) = Len(turns) + (IF Debate!Talking THEN 1 ELSE 0)
    /\ ~dropped =>
        /\ Debate!Completed = DOMAIN turns
        /\ Waiting /\ Debate!Talking => rows[Len(rows)] = "running"
        /\ \A i \in DOMAIN rows : rows[i] = "running" => Waiting /\ i = Len(turns) + 1
        /\ sess # "none" => sess = IF Over THEN result.status ELSE "running"

(* How a debate ends.                                                      *)
EndsTruly ==
    /\ tripped # Debate!NoTrip => Over /\ result.status = "budget_exhausted"
    /\ Over /\ sess # "none" =>
        /\ result.err = "none" <=> result.status = "completed"
        /\ result.err = "cancelled" => result.status = "cancelled" /\ ctx = "cancelled"
        /\ result.status = "completed" => ~Debate!Talking
    /\ debate = "exited" =>
        /\ queue = <<>>
        /\ sess # "none" =>
            exit = IF result.err = "none" THEN 0 ELSE IF result.err = "cancelled" THEN 130 ELSE 4

(* What has been printed, and what is on its way to be: places of turns,   *)
(* each later than the one before, among events without a turn.  Every     *)
(* turn taken is there or is lost.                                         *)
Places(s) == {s[i] : i \in DOMAIN s} \ {0}
Rising(s) == \A i, j \in DOMAIN s : i < j /\ s[i] # 0 /\ s[j] # 0 => s[i] < s[j]

Shown == printed \o queue
ShownTruly ==
    /\ printed \in Seq(Nat) /\ queue \in Seq(Nat) /\ Len(queue) <= Buffer
    /\ \A i \in DOMAIN printed : printed[i] # 0
    /\ ~asJSON => /\ Rising(Shown)
                  /\ Places(Shown) \cap lost = {} /\ Places(Shown) \cup lost = DOMAIN turns
    /\ asJSON => /\ queue = <<>>
                 /\ debate # "exited" => printed = <<>>
                 /\ debate = "exited" /\ sess # "none" /\ result.err = "none" =>
                      printed = [i \in DOMAIN turns |-> i]
                 /\ debate = "exited" /\ result.err # "none" => printed = <<>>

DebateInv == DebateTyped /\ RowsFollow /\ EndsTruly /\ ShownTruly

-----------------------------------------------------------------------------
(* Events added to a list of rising places: none with a turn but the last, *)
(* and that one a turn later than all of before.                           *)
LEMMA Extended ==
    ASSUME NEW s \in Seq(Nat), NEW e \in Seq(Nat), NEW m \in Nat, Rising(s),
           \A i \in DOMAIN s : s[i] <= m,
           \A i \in DOMAIN e : e[i] = 0 \/ (i = Len(e) /\ e[i] = m + 1)
    PROVE  Rising(s \o e) /\ Places(s \o e) = Places(s) \cup Places(e)
<1>. DEFINE w == s \o e
<1>1. /\ DOMAIN s = 1..Len(s) /\ DOMAIN e = 1..Len(e) /\ DOMAIN w = 1..(Len(s) + Len(e))
      /\ Len(s) \in Nat /\ Len(e) \in Nat
      /\ \A i \in 1..Len(s) : w[i] = s[i]
      /\ \A i \in 1..Len(e) : w[Len(s) + i] = e[i]
  OBVIOUS
<1> HIDE DEF w
<1>2. \A k \in DOMAIN w : k \in DOMAIN s \/ \E i \in DOMAIN e : k = Len(s) + i
  <2>. TAKE k \in DOMAIN w
  <2>1. CASE k > Len(s)
    <3>1. k - Len(s) \in DOMAIN e /\ k = Len(s) + (k - Len(s))
      BY <1>1, <2>1
    <3>. QED
      BY <3>1
  <2>. QED
    BY <1>1, <2>1
<1>3. Rising(w)
  <2>. SUFFICES ASSUME NEW k \in DOMAIN w, NEW l \in DOMAIN w, k < l, w[k] # 0, w[l] # 0
                PROVE  w[k] < w[l]
    BY DEF Rising
  <2>1. CASE l \in DOMAIN s
    <3>1. k \in DOMAIN s /\ w[k] = s[k] /\ w[l] = s[l]
      BY <1>1, <2>1
    <3>. QED
      BY <2>1, <3>1 DEF Rising
  <2>2. ASSUME NEW i \in DOMAIN e, l = Len(s) + i PROVE w[k] < w[l]
    <3>1. w[l] = m + 1 /\ i = Len(e)
      BY <1>1, <2>2
    <3>2. CASE k \in DOMAIN s
      <4>1. w[k] = s[k] /\ s[k] <= m /\ s[k] \in Nat
        BY <1>1, <3>2
      <4>. QED
        BY <3>1, <4>1
    <3>3. ASSUME NEW g \in DOMAIN e, k = Len(s) + g PROVE FALSE
      <4>1. g # Len(e) /\ w[k] = e[g]
        BY <1>1, <2>2, <3>1, <3>3
      <4>. QED
        BY <4>1
    <3>. QED
      BY <1>2, <3>2, <3>3
  <2>. QED
    BY <1>2, <2>1, <2>2
<1>4. Places(w) = Places(s) \cup Places(e)
  <2>1. \A k \in DOMAIN w : w[k] \in {s[i] : i \in DOMAIN s} \cup {e[i] : i \in DOMAIN e}
    BY <1>1, <1>2
  <2>2. \A i \in DOMAIN s : i \in DOMAIN w /\ w[i] = s[i]
    BY <1>1
  <2>3. \A i \in DOMAIN e : Len(s) + i \in DOMAIN w /\ w[Len(s) + i] = e[i]
    BY <1>1
  <2>4. {w[k] : k \in DOMAIN w} = {s[i] : i \in DOMAIN s} \cup {e[i] : i \in DOMAIN e}
    <3>1. ASSUME NEW k \in DOMAIN w
          PROVE  w[k] \in {s[i] : i \in DOMAIN s} \cup {e[i] : i \in DOMAIN e}
      BY <2>1
    <3>2. ASSUME NEW i \in DOMAIN s PROVE s[i] \in {w[k] : k \in DOMAIN w}
      BY <2>2
    <3>3. ASSUME NEW i \in DOMAIN e PROVE e[i] \in {w[k] : k \in DOMAIN w}
      BY <2>3
    <3>. QED
      BY <3>1, <3>2, <3>3
  <2>. QED
    BY <2>4, Zenon DEF Places
<1>. QED
  BY <1>3, <1>4 DEF w

(* The display takes the first of the events that wait.                    *)
LEMMA Taken ==
    ASSUME NEW p \in Seq(Nat), NEW q \in Seq(Nat), q # <<>>, Rising(p \o q),
           \A i \in DOMAIN p : p[i] # 0,
           NEW n, n = IF Head(q) = 0 THEN p ELSE Append(p, Head(q))
    PROVE  /\ n \in Seq(Nat) /\ \A i \in DOMAIN n : n[i] # 0
           /\ Rising(n \o Tail(q)) /\ Places(n \o Tail(q)) = Places(p \o q)
<1>1. Head(q) \in Nat /\ Tail(q) \in Seq(Nat) /\ n \in Seq(Nat) /\ p \o q \in Seq(Nat)
  BY HeadTailProperties, AppendProperties, ConcatProperties
<1>2. \A i \in DOMAIN n : n[i] # 0
  BY <1>1
<1>3. CASE Head(q) # 0
  <2>1. q = <<Head(q)>> \o Tail(q) /\ <<Head(q)>> \in Seq(Nat) /\ n = p \o <<Head(q)>>
    BY <1>1, <1>3, HeadTailProperties, AppendIsConcat
  <2>2. (p \o <<Head(q)>>) \o Tail(q) = p \o (<<Head(q)>> \o Tail(q))
    BY <1>1, <2>1, ConcatAssociative
  <2>3. n \o Tail(q) = p \o q
    BY <2>1, <2>2, Zenon
  <2>. QED
    BY <1>1, <1>2, <2>3
<1>4. CASE Head(q) = 0
  <2>. DEFINE t == Tail(q)
              v == p \o q
              w == p \o t
  <2>1. /\ n = p /\ Len(p) \in Nat /\ Len(t) \in Nat /\ Len(q) = Len(t) + 1 /\ q[1] = 0
        /\ \A i \in 1..Len(t) : t[i] = q[i + 1]
    BY <1>1, <1>4, HeadTailProperties
  <2>2. /\ DOMAIN v = 1..(Len(p) + Len(q)) /\ DOMAIN w = 1..(Len(p) + Len(t))
        /\ \A i \in 1..Len(p) : v[i] = p[i] /\ w[i] = p[i]
        /\ \A i \in 1..Len(q) : v[Len(p) + i] = q[i]
        /\ \A i \in 1..Len(t) : w[Len(p) + i] = t[i]
    BY <1>1
  <2> HIDE DEF t, v, w
  <2>. DEFINE at(i) == IF i <= Len(p) THEN i ELSE i + 1
  <2>3. \A i \in DOMAIN w : at(i) \in DOMAIN v
    BY <2>1, <2>2
  <2>4. ASSUME NEW i \in DOMAIN w PROVE w[i] = v[at(i)]
    <3>1. CASE i <= Len(p)
      BY <2>1, <2>2, <3>1
    <3>2. CASE i > Len(p)
      <4>1. PICK d \in 1..Len(t) : i = Len(p) + d
        <5>1. i - Len(p) \in 1..Len(t) /\ i = Len(p) + (i - Len(p))
          BY <2>1, <2>2, <3>2
        <5>. QED
          BY <5>1
      <4>2. d + 1 \in 1..Len(q) /\ i + 1 = Len(p) + (d + 1)
        BY <2>1, <4>1
      <4>3. v[i + 1] = q[d + 1]
        BY <2>2, <4>2, Zenon
      <4>4. w[i] = q[d + 1]
        BY <2>1, <2>2, <4>1, Zenon
      <4>5. at(i) = i + 1
        BY <2>1, <2>2, <3>2
      <4>. QED
        BY <4>3, <4>4, <4>5, Zenon
    <3>. QED
      BY <2>1, <2>2, <3>1, <3>2
  <2>5. \A i, j \in DOMAIN w : i < j => at(i) < at(j)
    BY <2>1, <2>2
  <2>6. \A k \in DOMAIN v : v[k] = 0 \/ \E i \in DOMAIN w : at(i) = k
    <3>. SUFFICES ASSUME NEW k \in DOMAIN v PROVE v[k] = 0 \/ \E i \in DOMAIN w : at(i) = k
      OBVIOUS
    <3>1. CASE k <= Len(p)
      <4>1. k \in DOMAIN w /\ at(k) = k
        BY <2>1, <2>2, <3>1
      <4>. QED
        BY <4>1
    <3>2. CASE k = Len(p) + 1
      BY <2>1, <2>2, <3>2
    <3>3. CASE k > Len(p) + 1
      <4>1. k - 1 \in DOMAIN w /\ at(k - 1) = k
        BY <2>1, <2>2, <3>3
      <4>. QED
        BY <4>1
    <3>. QED
      BY <2>1, <2>2, <3>1, <3>2, <3>3
  <2> HIDE DEF at
  <2>7. Rising(w)
    BY <2>3, <2>4, <2>5 DEF Rising, v
  <2>8. Places(w) = Places(v)
    BY <2>3, <2>4, <2>6 DEF Places
  <2>. QED
    BY <1>1, <1>2, <2>1, <2>7, <2>8 DEF t, v, w
<1>. QED
  BY <1>3, <1>4

LEMMA ThreeLists ==
    ASSUME NEW p \in Seq(Nat), NEW q \in Seq(Nat), NEW e \in Seq(Nat)
    PROVE  p \o (q \o e) = (p \o q) \o e
  BY ConcatAssociative

LEMMA WithinPart ==
    \A n \in Nat : \A k \in 0..n : \A i \in 1..k : i \in 1..n /\ (i = n => i = k)
  OBVIOUS

(* Events published: at most one of a turn, the last of them, and it is    *)
(* that of the turn that has just been taken.                              *)
LEMMA Published ==
    ASSUME ShownTruly, debate # "exited", debate' # "exited", turns \in Seq(DebateTurn),
           asJSON \in BOOLEAN, UNCHANGED <<printed, asJSON>>,
           NEW events \in Seq(Nat), Debate!Publish(events),
           \A i \in DOMAIN events :
               events[i] = 0 \/ (i = Len(events) /\ events[i] = Len(turns) + 1),
           DOMAIN turns' = DOMAIN turns \cup Places(events)
    PROVE  ShownTruly'
<1>. DEFINE kept == IF Len(events) <= Buffer - Len(queue) THEN Len(events) ELSE Buffer - Len(queue)
            e == SubSeq(events, 1, kept)
<1>1. CASE asJSON
  BY <1>1 DEF ShownTruly, Debate!Publish
<1>2. CASE ~asJSON
  <2>1. /\ printed \in Seq(Nat) /\ queue \in Seq(Nat) /\ Len(queue) \in Nat /\ Len(queue) <= Buffer
        /\ Len(events) \in Nat /\ Buffer \in Nat /\ Len(turns) \in Nat
        /\ DOMAIN turns = 1..Len(turns)
    BY DebateAssumption DEF ShownTruly
  <2>2. kept \in 0..Len(events) /\ kept <= Buffer - Len(queue)
    BY <2>1
  <2>3. /\ queue' = queue \o e
        /\ lost' = (lost \cup {events[i] : i \in (kept + 1)..Len(events)}) \ {0}
    BY <1>2 DEF Debate!Publish, Debate!Other
  <2> HIDE DEF kept
  <2>4. e \in Seq(Nat) /\ Len(e) = kept /\ \A i \in 1..kept : e[i] = events[i]
    BY <2>1, <2>2, SubSeqProperties
  <2> HIDE DEF e
  <2>5. /\ queue' \in Seq(Nat) /\ Len(queue') <= Buffer
        /\ Shown \in Seq(Nat) /\ Shown' = Shown \o e
    <3>1. /\ queue \o e \in Seq(Nat) /\ Len(queue \o e) = Len(queue) + kept
          /\ printed \o queue \in Seq(Nat)
      BY <2>1, <2>4, ConcatProperties
    <3>2. printed \o (queue \o e) = (printed \o queue) \o e
      BY <2>1, <2>4, ThreeLists, Zenon
    <3>3. Len(queue) + kept <= Buffer
      BY <2>1, <2>2
    <3>4. Shown' = printed \o (queue \o e)
      BY <2>3, Zenon DEF Shown
    <3>. QED
      BY <2>3, <3>1, <3>2, <3>3, <3>4 DEF Shown
  <2>6. \A i \in DOMAIN Shown : Shown[i] <= Len(turns)
    <3>1. Places(Shown) \subseteq 1..Len(turns)
      BY <1>2, <2>1 DEF ShownTruly
    <3>2. ASSUME NEW i \in DOMAIN Shown PROVE Shown[i] <= Len(turns)
      <4>1. Shown[i] = 0 \/ Shown[i] \in Places(Shown)
        BY DEF Places
      <4>. QED
        BY <2>1, <3>1, <4>1
    <3>. QED
      BY <3>2
  <2>7. \A i \in DOMAIN e : e[i] = 0 \/ (i = Len(e) /\ e[i] = Len(turns) + 1)
    <3>1. DOMAIN e = 1..kept /\ DOMAIN events = 1..Len(events)
      BY <2>4
    <3>2. ASSUME NEW i \in 1..kept PROVE e[i] = 0 \/ (i = kept /\ e[i] = Len(turns) + 1)
      <4>1. e[i] = events[i]
        BY <2>4
      <4>2. i \in DOMAIN events /\ (i = Len(events) => i = kept)
        BY <2>1, <2>2, <3>1, WithinPart, Zenon
      <4>. QED
        BY <4>1, <4>2, Zenon
    <3>. QED
      BY <2>4, <3>1, <3>2, Zenon
  <2>8. Rising(Shown \o e) /\ Places(Shown \o e) = Places(Shown) \cup Places(e)
    <3>1. Rising(Shown)
      BY <1>2 DEF ShownTruly
    <3>. QED
      BY <2>1, <2>4, <2>5, <2>6, <2>7, <3>1, Extended
  <2>. DEFINE out == {events[i] : i \in (kept + 1)..Len(events)} \ {0}
  <2>9. Places(events) = Places(e) \cup out /\ Places(e) \cap out = {}
    <3>1. /\ DOMAIN events = 1..Len(events) /\ DOMAIN e = 1..kept
          /\ 1..Len(events) = (1..kept) \cup ((kept + 1)..Len(events))
      BY <2>1, <2>2, <2>4
    <3>2. Places(events) = Places(e) \cup out
      <4>1. {e[i] : i \in DOMAIN e} = {events[i] : i \in 1..kept}
        BY <2>4, <3>1
      <4>2. {events[i] : i \in DOMAIN events}
              = {events[i] : i \in 1..kept} \cup {events[i] : i \in (kept + 1)..Len(events)}
        <5>. DEFINE low == 1..kept
                    high == (kept + 1)..Len(events)
        <5>1. DOMAIN events = low \cup high
          BY <3>1
        <5> HIDE DEF low, high
        <5>2. {events[i] : i \in low \cup high}
                = {events[i] : i \in low} \cup {events[i] : i \in high}
          OBVIOUS
        <5>. QED
          BY <5>1, <5>2 DEF low, high
      <4>. QED
        BY <4>1, <4>2, Zenon DEF Places
    <3>3. ASSUME NEW x \in Places(e), x \in out PROVE FALSE
      <4>1. PICK i \in 1..kept : x = events[i] /\ x # 0
        BY <2>4, <3>1, <3>3 DEF Places
      <4>2. i = Len(events)
        BY <3>1, <4>1
      <4>3. (kept + 1)..Len(events) = {}
        BY <2>1, <2>2, <4>2
      <4>. QED
        BY <3>3, <4>3
    <3>. QED
      BY <3>2, <3>3
  <2>10. Places(events) \cap DOMAIN turns = {}
    <3>1. \A x \in Places(events) : x = Len(turns) + 1
      BY DEF Places
    <3>. QED
      BY <2>1, <3>1
  <2>11. /\ Places(Shown) \cap lost = {} /\ Places(Shown) \cup lost = DOMAIN turns
         /\ lost' = lost \cup out
    <3>1. Places(Shown) \cap lost = {} /\ Places(Shown) \cup lost = DOMAIN turns
      BY <1>2 DEF ShownTruly
    <3>2. 0 \notin lost
      BY <2>1, <3>1
    <3>. QED
      BY <2>3, <3>1, <3>2
  <2> HIDE DEF out
  <2>12. Places(Shown') \cap lost' = {} /\ Places(Shown') \cup lost' = DOMAIN turns'
    BY <2>5, <2>8, <2>9, <2>10, <2>11
  <2>. QED
    BY <1>2, <2>1, <2>5, <2>8, <2>12 DEF ShownTruly, Rising, Places
<1>. QED
  BY <1>1, <1>2

LEMMA ShownKept ==
    ASSUME ShownTruly, UNCHANGED <<printed, queue, lost, turns, asJSON>>,
           UNCHANGED <<debate, sess, result>> \/ (debate # "exited" /\ debate' # "exited")
    PROVE  ShownTruly'
<1>1. Shown' = Shown
  BY DEF Shown
<1>2. Rising(Shown') <=> Rising(Shown)
  BY <1>1
<1>3. Places(Shown') = Places(Shown)
  BY <1>1
<1>. DEFINE Live == Rising(Shown) /\ Places(Shown) \cap lost = {} /\ Places(Shown) \cup lost = DOMAIN turns
<1>4. Live => Live'
  BY <1>1, Zenon DEF Rising, Places
<1> HIDE DEF Live
<1>5. ShownTruly <=>
        /\ printed \in Seq(Nat) /\ queue \in Seq(Nat) /\ Len(queue) <= Buffer
        /\ \A i \in DOMAIN printed : printed[i] # 0
        /\ ~asJSON => Live
        /\ asJSON => /\ queue = <<>>
                     /\ debate # "exited" => printed = <<>>
                     /\ debate = "exited" /\ sess # "none" /\ result.err = "none" =>
                          printed = [i \in DOMAIN turns |-> i]
                     /\ debate = "exited" /\ result.err # "none" => printed = <<>>
  BY DEF ShownTruly, Live
<1>. QED
  BY <1>4, <1>5, Zenon DEF ShownTruly, Live

LEMMA ShownLeft ==
    ASSUME ShownTruly, UNCHANGED <<printed, queue, lost, turns, asJSON>>,
           asJSON => printed = <<>> /\ (sess' = "none" \/ result'.err # "none")
    PROVE  ShownTruly'
<1>1. Shown' = Shown
  BY DEF Shown
<1>. DEFINE Live == Rising(Shown) /\ Places(Shown) \cap lost = {} /\ Places(Shown) \cup lost = DOMAIN turns
<1>2. Live => Live'
  BY <1>1, Zenon DEF Rising, Places
<1>3. ~asJSON => Live
  BY DEF ShownTruly
<1> HIDE DEF Live
<1>. QED
  BY <1>2, <1>3 DEF ShownTruly, Live

(* Events of no turn, of a failed write, and those of an end.              *)
LEMMA OtherEvents ==
    /\ \A n \in Nat : /\ Debate!Others(n) \in Seq(Nat)
                      /\ \A i \in DOMAIN Debate!Others(n) : Debate!Others(n)[i] = 0
    /\ \A i \in DOMAIN Debate!Reported : Debate!Reported[i] = 0
    /\ Debate!Reported \in Seq(Nat)
  BY DEF Debate!Others, Debate!Other, Debate!Reported

LEMMA NothingEvent ==
    ASSUME NEW e \in Seq(Nat), \A i \in DOMAIN e : e[i] = 0
    PROVE  /\ Append(e, 0) \in Seq(Nat)
           /\ \A i \in DOMAIN Append(e, 0) : Append(e, 0)[i] = 0
  OBVIOUS

LEMMA TurnEvent ==
    ASSUME NEW e \in Seq(Nat), NEW n \in Nat, \A i \in DOMAIN e : e[i] = 0
    PROVE  /\ Append(e, n + 1) \in Seq(Nat)
           /\ \A i \in DOMAIN Append(e, n + 1) :
                \/ Append(e, n + 1)[i] = 0
                \/ i = Len(Append(e, n + 1)) /\ Append(e, n + 1)[i] = n + 1
           /\ Places(Append(e, n + 1)) = {n + 1}
<1>. DEFINE a == Append(e, n + 1)
<1>1. /\ a \in Seq(Nat) /\ DOMAIN a = 1..Len(a) /\ Len(a) = Len(e) + 1 /\ a[Len(e) + 1] = n + 1
      /\ DOMAIN e = 1..Len(e) /\ Len(e) \in Nat /\ \A i \in 1..Len(e) : a[i] = e[i]
  OBVIOUS
<1> HIDE DEF a
<1>2. \A i \in DOMAIN a : a[i] = 0 \/ (i = Len(a) /\ a[i] = n + 1)
  <2>. TAKE i \in DOMAIN a
  <2>1. i \in 1..Len(e) \/ i = Len(e) + 1
    BY <1>1
  <2>. QED
    BY <1>1, <2>1
<1>3. Places(a) = {n + 1}
  <2>1. Len(a) \in DOMAIN a /\ a[Len(a)] = n + 1 /\ n + 1 # 0
    BY <1>1
  <2>. QED
    BY <1>2, <2>1 DEF Places
<1>. QED
  BY <1>1, <1>2, <1>3 DEF a

LEMMA PublishedNoTurn ==
    ASSUME ShownTruly, debate # "exited", debate' # "exited", turns \in Seq(DebateTurn),
           asJSON \in BOOLEAN, UNCHANGED <<printed, asJSON, turns>>,
           NEW events \in Seq(Nat), Debate!Publish(events),
           \A i \in DOMAIN events : events[i] = 0
    PROVE  ShownTruly'
<1>1. Places(events) = {}
  BY DEF Places
<1>. QED
  BY <1>1, Published

LEMMA PublishedEnd ==
    ASSUME ShownTruly, debate # "exited", debate' # "exited", turns \in Seq(DebateTurn),
           asJSON \in BOOLEAN, UNCHANGED <<printed, asJSON, turns>>, Debate!PublishEnd
    PROVE  ShownTruly'
<1>1. PICK n \in 1..Buffer : Debate!Publish(Debate!Others(n))
  BY DEF Debate!PublishEnd
<1>2. n \in Nat
  BY DebateAssumption
<1>. QED
  BY <1>1, <1>2, OtherEvents, PublishedNoTurn
-----------------------------------------------------------------------------
LEMMA DebateInitInv == Debate!Init => DebateInv
<1>. SUFFICES ASSUME Debate!Init PROVE DebateInv
  OBVIOUS
<1>1. /\ tokens = 0 /\ counted = 0 /\ owed = 0 /\ rounds = 0 /\ tripped = Debate!NoTrip
      /\ debate = "start" /\ sess = "none" /\ dropped = FALSE
      /\ flag \in Flags /\ available \in Installed /\ asked \in RoundsAsked /\ asJSON \in BOOLEAN
  BY Zenon DEF Debate!Init, Debate!BudgetInit
<1>2. /\ turns = <<>> /\ queue = <<>> /\ printed = <<>> /\ rows = <<>> /\ lost = {}
  BY Zenon DEF Debate!Init
<1>3. /\ \A S : <<>> \in Seq(S)
      /\ Len(turns) = 0 /\ Len(rows) = 0 /\ DOMAIN turns = {} /\ DOMAIN rows = {}
  BY <1>2
<1>4. DebateTyped
  <2>1. Amounts /\ Request
    BY <1>1 DEF Amounts, Request
  <2>2. Lists
    BY <1>1, <1>2, <1>3 DEF Lists
  <2>3. Stage
    BY <1>1, <1>2, <1>3 DEF Stage
  <2>. QED
    BY <2>1, <2>2, <2>3 DEF DebateTyped
<1>5. RowsFollow
  BY <1>1, <1>3 DEF RowsFollow, Waiting, Over, Debate!Completed
<1>6. EndsTruly
  BY <1>1 DEF EndsTruly, Over
<1>7. ShownTruly
  <2>1. Shown = <<>> /\ DOMAIN printed = {} /\ Len(queue) = 0
    BY <1>2, <1>3 DEF Shown
  <2>2. DOMAIN Shown = {}
    BY <2>1
  <2>3. Rising(Shown) /\ Places(Shown) = {}
    BY <2>2 DEF Rising, Places
  <2>. QED
    BY <1>1, <1>2, <1>3, <2>1, <2>3, DebateAssumption DEF ShownTruly
<1>. QED
  BY <1>4, <1>5, <1>6, <1>7 DEF DebateInv

(* The row of a turn that is over says so, and no other row changes.       *)
LEMMA RowWritten ==
    ASSUME DebateTyped, RowsFollow, Waiting, NEW outcome \in RowStatus
    PROVE  /\ Debate!Row(outcome) \in Seq(RowStatus)
           /\ Len(Debate!Row(outcome)) = Len(rows)
           /\ ~Debate!Talking => Debate!Row(outcome) = rows
           /\ Debate!Talking /\ ~dropped =>
                Debate!Row(outcome) = [rows EXCEPT ![Len(turns) + 1] = outcome]
<1>1. rows \in Seq(RowStatus) /\ Len(turns) \in Nat
  BY DEF DebateTyped, Lists
<1>2. Debate!Talking => Len(rows) = Len(turns) + 1
  BY DEF RowsFollow
<1>3. Debate!Talking /\ ~dropped => Debate!Last(rows) = "running"
  BY DEF RowsFollow, Debate!Last
<1>4. CASE Debate!Talking /\ Debate!Last(rows) # "none"
  <2>1. Debate!Row(outcome) = [rows EXCEPT ![Len(rows)] = outcome]
    BY <1>4 DEF Debate!Row
  <2>2. Len(rows) \in DOMAIN rows
    BY <1>1, <1>2, <1>4
  <2>3. Debate!Row(outcome) \in Seq(RowStatus) /\ Len(Debate!Row(outcome)) = Len(rows)
    BY <1>1, <2>1, <2>2, ExceptSeq
  <2>. QED
    BY <1>2, <1>4, <2>1, <2>3, Zenon
<1>5. CASE ~(Debate!Talking /\ Debate!Last(rows) # "none")
  <2>1. Debate!Row(outcome) = rows /\ ~(Debate!Talking /\ ~dropped)
    BY <1>3, <1>5 DEF Debate!Row
  <2>. QED
    BY <1>1, <2>1
<1>. QED
  BY <1>4, <1>5

(* A call that fails ends the debate.                                      *)
LEMMA DebateFails ==
    ASSUME DebateInv, Waiting, NEW err, err # "none",
           err = "cancelled" => ctx = "cancelled",
           Debate!Fails(err),
           UNCHANGED <<flag, available, asked, noSynth, asJSON, rounds, agents, ctx, printed, exit>>,
           Amounts', tripped' # Debate!NoTrip => err = "budget"
    PROVE  DebateInv'
<1> DEFINE verdict1 == Debate!Verdict(err)
<1>1. /\ UNCHANGED turns /\ debate' = "returned" /\ Debate!PublishEnd
      /\ result'.status = verdict1
      /\ result'.err = IF verdict1 = "completed" THEN "none" ELSE err
  BY DEF Debate!Fails, Debate!Returns
<1>2. /\ verdict1 \in {"budget_exhausted", "cancelled", "failed", "completed"}
      /\ verdict1 = "completed" => ~Debate!Talking /\ err # "cancelled"
      /\ err = "budget" => verdict1 = "budget_exhausted"
      /\ err = "cancelled" => verdict1 = "cancelled"
  BY DEF Debate!Verdict
<1>3. Debate!Talking' = Debate!Talking
  BY <1>1 DEF Debate!Talking
<1>4. \/ rows' = Debate!Row("failed") /\ sess' = verdict1 /\ UNCHANGED dropped
      \/ dropped' = TRUE /\ rows' \in {Debate!Row("failed"), rows} /\ sess' \in {verdict1, sess}
  BY DEF Debate!Fails, Debate!Stores
<1>5. sess # "none" /\ dropped \in BOOLEAN
  BY DEF DebateInv, DebateTyped, Lists, Stage, Waiting
<1> HIDE DEF verdict1
<1>6. DebateTyped'
  <2>1. rows' \in Seq(RowStatus)
    BY <1>4, RowWritten DEF DebateInv, DebateTyped, Lists, RowStatus
  <2>2. sess' # "none"
    BY <1>2, <1>4, <1>5
  <2>3. DebateTurn' = DebateTurn
    BY DEF DebateTurn
  <2>5. Request'
    BY <1>5 DEF DebateInv, DebateTyped, Request
  <2>6. Lists'
    BY <1>1, <1>4, <1>5, <2>1, <2>3 DEF DebateInv, DebateTyped, Lists
  <2>7. Stage'
    BY <1>1, <2>2 DEF DebateInv, DebateTyped, Stage
  <2>. QED
    BY <2>5, <2>6, <2>7 DEF DebateTyped
<1>7. RowsFollow'
  <2>. SUFFICES ASSUME ~dropped'
                PROVE  /\ Debate!Completed' = DOMAIN turns
                       /\ \A i \in DOMAIN rows' : rows'[i] # "running"
                       /\ sess' = result'.status
    BY <1>1 DEF RowsFollow, Waiting, Over
  <2>1. rows' = Debate!Row("failed") /\ sess' = verdict1 /\ ~dropped
    BY <1>4
  <2>2. /\ rows \in Seq(RowStatus) /\ Len(turns) \in Nat /\ DOMAIN turns = 1..Len(turns)
        /\ Debate!Completed = DOMAIN turns
        /\ \A i \in DOMAIN rows : rows[i] = "running" => i = Len(turns) + 1
        /\ Debate!Talking => Len(rows) = Len(turns) + 1
        /\ ~Debate!Talking => Len(rows) = Len(turns)
    BY <2>1 DEF DebateInv, DebateTyped, Lists, RowsFollow
  <2>3. CASE Debate!Talking
    <3>1. rows' = [rows EXCEPT ![Len(turns) + 1] = "failed"]
      BY <2>1, <2>3, RowWritten DEF DebateInv, RowStatus
    <3>2. /\ DOMAIN rows' = DOMAIN rows
          /\ \A i \in DOMAIN rows : rows'[i] = IF i = Len(turns) + 1 THEN "failed" ELSE rows[i]
      BY <2>2, <3>1
    <3>. QED
      BY <1>1, <2>1, <2>2, <2>3, <3>2 DEF Debate!Completed
  <2>4. CASE ~Debate!Talking
    <3>1. rows' = rows
      BY <2>1, <2>4, RowWritten DEF DebateInv, RowStatus
    <3>. QED
      BY <1>1, <2>1, <2>2, <2>4, <3>1 DEF Debate!Completed
  <2>. QED
    BY <2>3, <2>4
<1>8. EndsTruly'
  BY <1>1, <1>2, <1>3 DEF EndsTruly, Over, Debate!NoTrip
<1>9. ShownTruly'
  BY <1>1, PublishedEnd DEF DebateInv, DebateTyped, Lists, Request, Waiting
<1>. QED
  BY <1>6, <1>7, <1>8, <1>9 DEF DebateInv

(* An answer is a turn, with its row, or the synthesis.                    *)
LEMMA DebateAnswers ==
    ASSUME DebateInv, debate = "asking", Debate!Answers,
           UNCHANGED <<flag, available, asked, noSynth, asJSON, rounds, agents, ctx, printed, exit>>,
           Amounts', UNCHANGED tripped
    PROVE  DebateInv'
<1>1. /\ rows \in Seq(RowStatus) /\ turns \in Seq(DebateTurn) /\ asJSON \in BOOLEAN
      /\ Len(turns) \in Nat /\ DOMAIN turns = 1..Len(turns)
      /\ sess # "none" /\ dropped \in BOOLEAN /\ rounds \in Nat /\ tripped = Debate!NoTrip
  BY DEF DebateInv, DebateTyped, Lists, Stage, Request, EndsTruly, Over
<1>2. DebateTurn' = DebateTurn
  BY DEF DebateTurn
<1>3. Request'
  <2>1. sess' # "none"
    BY <1>1 DEF Debate!Answers, Debate!Stores
  <2>. QED
    BY <1>1, <2>1 DEF DebateInv, DebateTyped, Request
<1>4. CASE Debate!Talking
  <2>1. PICK x : x = Debate!NextTurn
    OBVIOUS
  <2>2. x \in DebateTurn
    <3>1. agents \in Seq(Range(available)) /\ Len(agents) = 2
      BY <1>1 DEF DebateInv, DebateTyped, Request
    <3>2. PICK k \in 1..2, r \in Int : x = [agent |-> agents[k], round |-> r, orders |-> Debate!Orders(r)]
      <4>1. (Len(turns) % 2) + 1 \in 1..2 /\ (Len(turns) \div 2) + 1 \in Int
        BY <1>1
      <4>. QED
        BY <2>1, <4>1 DEF Debate!NextTurn
    <3>3. agents[k] \in Range(available)
      BY <3>1
    <3>4. Debate!Orders(r) \in {"open", "close", "rebut"}
      BY DEF Debate!Orders
    <3>. QED
      BY <3>2, <3>3, <3>4 DEF DebateTurn
  <2>3. /\ turns' = Append(turns, x) /\ debate' = "loop" /\ UNCHANGED <<result, synthesis>>
        /\ Debate!Publish(Append(Debate!Reported, Len(turns) + 1))
        /\ \/ rows' = Debate!Row("completed") /\ sess' = sess /\ UNCHANGED dropped
           \/ dropped' = TRUE /\ rows' \in {Debate!Row("completed"), rows} /\ sess' = sess
    BY <1>4, <2>1 DEF Debate!Answers, Debate!Stores
  <2>4. /\ turns' \in Seq(DebateTurn) /\ Len(turns') = Len(turns) + 1
        /\ DOMAIN turns' = 1..(Len(turns) + 1)
    BY <1>1, <2>2, <2>3
  <2>5. /\ Debate!Row("completed") \in Seq(RowStatus)
        /\ Len(Debate!Row("completed")) = Len(rows) /\ Len(rows) = Len(turns) + 1
        /\ ~dropped => Debate!Row("completed") = [rows EXCEPT ![Len(turns) + 1] = "completed"]
    BY <1>4, RowWritten DEF DebateInv, RowStatus, Waiting, RowsFollow
  <2>6. Lists'
    BY <1>1, <1>2, <2>3, <2>4, <2>5 DEF Lists
  <2>7. Stage'
    <3>1. Len(turns) < 2 * rounds
      BY <1>4 DEF Debate!Talking
    <3>. QED
      BY <1>1, <2>3, <2>4, <3>1 DEF Stage
  <2>8. RowsFollow'
    <3>1. Len(rows') = Len(turns')
      BY <2>3, <2>4, <2>5
    <3>2. ASSUME ~dropped'
          PROVE  /\ Debate!Completed' = DOMAIN turns'
                 /\ \A i \in DOMAIN rows' : rows'[i] # "running"
                 /\ sess' = "running"
      <4>1. /\ ~dropped /\ rows' = [rows EXCEPT ![Len(turns) + 1] = "completed"] /\ sess' = sess
        BY <2>3, <2>5, <3>2
      <4>2. /\ Debate!Completed = DOMAIN turns /\ sess = "running"
            /\ \A i \in DOMAIN rows : rows[i] = "running" => i = Len(turns) + 1
        BY <1>1, <4>1 DEF DebateInv, RowsFollow, Over
      <4>3. /\ DOMAIN rows = 1..(Len(turns) + 1) /\ DOMAIN rows' = DOMAIN rows
            /\ \A i \in DOMAIN rows :
                 rows'[i] = IF i = Len(turns) + 1 THEN "completed" ELSE rows[i]
        BY <1>1, <2>5, <4>1
      <4>4. \A i \in DOMAIN rows : i \in DOMAIN turns <=> i # Len(turns) + 1
        BY <1>1, <4>3
      <4>. QED
        BY <2>4, <4>1, <4>2, <4>3, <4>4 DEF Debate!Completed
    <3>. QED
      BY <2>3, <3>1, <3>2 DEF RowsFollow, Waiting, Over
  <2>9. EndsTruly'
    BY <1>1, <2>3 DEF EndsTruly, Over, Debate!NoTrip
  <2>10. ShownTruly'
    <3>. DEFINE events == Append(Debate!Reported, Len(turns) + 1)
    <3>1. events \in Seq(Nat) /\ Places(events) = {Len(turns) + 1}
      BY <1>1, OtherEvents, TurnEvent
    <3>2. \A i \in DOMAIN events : events[i] = 0 \/ (i = Len(events) /\ events[i] = Len(turns) + 1)
      BY <1>1, OtherEvents, TurnEvent
    <3>3. Debate!Publish(events)
      BY <2>3
    <3> HIDE DEF events
    <3>5. DOMAIN turns' = DOMAIN turns \cup Places(events)
      BY <1>1, <2>4, <3>1
    <3>6. debate # "exited" /\ debate' # "exited" /\ ShownTruly
      BY <2>3 DEF DebateInv
    <3>. QED
      BY <1>1, <3>1, <3>2, <3>3, <3>5, <3>6, Published
  <2>. QED
    BY <1>3, <2>6, <2>7, <2>8, <2>9, <2>10 DEF DebateInv, DebateTyped
<1>5. CASE ~Debate!Talking
  <2>1. /\ UNCHANGED turns /\ debate' = "returned" /\ Debate!PublishEnd
        /\ result'.status = "completed" /\ result'.err = "none"
        /\ \/ rows' = rows /\ sess' = "completed" /\ UNCHANGED dropped
           \/ dropped' = TRUE /\ rows' = rows /\ sess' \in {"completed", sess}
    BY <1>5 DEF Debate!Answers, Debate!Stores, Debate!Returns
  <2>2. Lists' /\ Stage'
    BY <1>1, <1>2, <2>1 DEF DebateInv, DebateTyped, Lists, Stage
  <2>3. RowsFollow'
    <3>1. /\ Len(rows) = Len(turns)
          /\ ~dropped => /\ Debate!Completed = DOMAIN turns
                         /\ \A i \in DOMAIN rows : rows[i] # "running"
      BY <1>1, <1>5 DEF DebateInv, RowsFollow, Waiting, Over
    <3>. QED
      BY <2>1, <3>1 DEF RowsFollow, Waiting, Over, Debate!Completed
  <2>4. EndsTruly'
    BY <1>1, <1>5, <2>1 DEF EndsTruly, Over, Debate!NoTrip, Debate!Talking
  <2>5. ShownTruly'
    BY <1>1, <2>1, PublishedEnd DEF DebateInv
  <2>. QED
    BY <1>3, <2>2, <2>3, <2>4, <2>5 DEF DebateInv, DebateTyped
<1>. QED
  BY <1>4, <1>5

-----------------------------------------------------------------------------
LEMMA DebateStarts ==
    ASSUME DebateInv, Debate!Start
    PROVE  DebateInv'
<1>1. /\ debate = "start" /\ turns = <<>> /\ rows = <<>> /\ queue = <<>> /\ sess = "none"
      /\ tripped = Debate!NoTrip /\ flag \in Flags /\ available \in Installed /\ asked \in RoundsAsked
  BY DEF Debate!Start, DebateInv, DebateTyped, Stage, Request, EndsTruly, Over
<1>2. /\ UNCHANGED <<tokens, counted, owed, tripped, flag, available, asked, asJSON, ctx>>
      /\ UNCHANGED <<turns, rows, dropped, result, printed>>
  BY DEF Debate!Start, Debate!budgetVars
<1>3. rounds' \in Nat /\ agents' = Debate!Lineup
  BY <1>1, DebateAssumption DEF Debate!Start
<1>4. \/ debate' = "exited" /\ sess' = "none" /\ UNCHANGED <<queue, lost>>
      \/ debate' = "loop" /\ sess' = "running" /\ Debate!Lineup # <<>> /\ Debate!Publish(<<Debate!Other>>)
  BY <1>1 DEF Debate!Start, Debate!Leave
<1>5. Len(turns) = 0 /\ Len(rows) = 0 /\ DOMAIN turns = {} /\ DOMAIN rows = {}
  BY <1>1
<1>6. Amounts'
  BY <1>2 DEF DebateInv, DebateTyped, Amounts
<1>7. Request'
  <2>1. ASSUME Debate!Lineup # <<>>
        PROVE  Debate!Lineup \in Seq(Range(available)) /\ Len(Debate!Lineup) = 2
    <3>1. available \in Seq(Range(available)) /\ flag \in Seq(Range(flag))
      BY <1>1, DebateAssumption
    <3>2. CASE flag # <<>>
      <4>1. /\ Debate!Lineup = flag /\ Len(flag) = 2
            /\ Debate!Range(flag) \subseteq Debate!Range(available)
        BY <2>1, <3>2 DEF Debate!Lineup
      <4>2. Debate!Range(flag) = Range(flag) /\ Debate!Range(available) = Range(available)
        BY DEF Debate!Range, Range
      <4>3. \A k \in DOMAIN flag : flag[k] \in Range(available)
        BY <4>1, <4>2 DEF Range
      <4>4. flag \in Seq(Range(available))
        BY <3>1, <4>3, SeqDef
      <4>. QED
        BY <4>1, <4>4
    <3>3. CASE flag = <<>>
      <4>1. Debate!Lineup = SubSeq(available, 1, 2) /\ Len(available) >= 2
        BY <2>1, <3>3 DEF Debate!Lineup
      <4>2. \A k \in 1..2 : available[k] \in Range(available)
        BY <3>1, <4>1
      <4>. QED
        BY <4>1, <4>2, SubSeqProperties
    <3>. QED
      BY <3>2, <3>3
  <2>. QED
    BY <1>2, <1>3, <1>4, <2>1 DEF DebateInv, DebateTyped, Request
<1>8. Lists'
  BY <1>2 DEF DebateInv, DebateTyped, Lists, DebateTurn
<1>9. Stage'
  <2>1. Len(turns') <= 2 * rounds'
    <3>1. Len(turns') = 0
      BY <1>2, <1>5, Zenon
    <3>2. \A n \in Nat : 0 <= 2 * n
      OBVIOUS
    <3>. QED
      BY <1>3, <3>1, <3>2, Zenon
  <2>2. debate' \in {"exited", "loop"} /\ (debate' # "exited" => sess' # "none")
    BY <1>4
  <2>. QED
    BY <2>1, <2>2 DEF Stage
<1>10. RowsFollow'
  BY <1>2, <1>4, <1>5 DEF RowsFollow, Waiting, Over, Debate!Completed
<1>11. EndsTruly'
  BY <1>1, <1>2, <1>4 DEF EndsTruly, Over, Debate!NoTrip
<1>12. ShownTruly'
  <2>1. CASE debate' = "exited" /\ sess' = "none" /\ UNCHANGED <<queue, lost>>
    <3>1. \A i \in DOMAIN turns : FALSE
      BY <1>1
    <3>2. /\ asJSON => printed = <<>>
          /\ ShownTruly /\ UNCHANGED <<printed, queue, lost, turns, asJSON, result>>
      BY <1>1, <1>2, <2>1 DEF DebateInv, ShownTruly
    <3>. QED
      BY <2>1, <3>2, ShownLeft
  <2>2. CASE debate' = "loop" /\ Debate!Publish(<<Debate!Other>>)
    <3>. DEFINE events == <<Debate!Other>>
    <3>1. events \in Seq(Nat) /\ \A i \in DOMAIN events : events[i] = 0
      BY DEF Debate!Other
    <3>2. /\ ShownTruly /\ debate # "exited" /\ debate' # "exited" /\ Debate!Publish(events)
          /\ turns \in Seq(DebateTurn) /\ asJSON \in BOOLEAN
      BY <1>1, <2>2 DEF DebateInv, DebateTyped, Lists, Request
    <3> HIDE DEF events
    <3>. QED
      BY <1>2, <3>1, <3>2, PublishedNoTurn
  <2>. QED
    BY <1>4, <2>1, <2>2
<1>. QED
  BY <1>6, <1>7, <1>8, <1>9, <1>10, <1>11, <1>12 DEF DebateInv, DebateTyped

(* A row for the turn that begins; none for the moderator.                 *)
LEMMA DebateAsks ==
    ASSUME DebateInv, Debate!BeginTurn \/ Debate!BeginSynthesis
    PROVE  DebateInv'
<1>1. /\ debate = "loop" /\ debate' = "asking"
      /\ UNCHANGED <<tokens, counted, owed, tripped, flag, available, asked, asJSON, ctx, rounds, agents>>
      /\ UNCHANGED <<turns, sess, result, printed>>
      /\ \/ Debate!Publish(Debate!Reported \o <<Debate!Other>>)
         \/ Debate!Publish(<<Debate!Other>>)
  BY DEF Debate!BeginTurn, Debate!BeginSynthesis, Debate!budgetVars, Debate!request, Debate!store
<1>2. IF Debate!Talking
        THEN \/ rows' = Append(rows, "running") /\ UNCHANGED dropped
             \/ rows' = Append(rows, "none") /\ dropped' = TRUE
        ELSE UNCHANGED <<rows, dropped>>
  BY DEF Debate!BeginTurn, Debate!BeginSynthesis, Debate!store
<1>3. /\ rows \in Seq(RowStatus) /\ Len(turns) \in Nat /\ DOMAIN turns = 1..Len(turns)
      /\ Len(rows) = Len(turns) /\ dropped \in BOOLEAN /\ tripped = Debate!NoTrip
      /\ ~dropped => /\ Debate!Completed = DOMAIN turns
                     /\ \A i \in DOMAIN rows : rows[i] # "running"
                     /\ sess # "none" => sess = "running"
  BY <1>1 DEF DebateInv, DebateTyped, Lists, RowsFollow, EndsTruly, Waiting, Over
<1>4. Debate!Talking' = Debate!Talking
  BY <1>1 DEF Debate!Talking
<1>5. Amounts' /\ Request'
  BY <1>1 DEF DebateInv, DebateTyped, Amounts, Request
<1>6. Lists'
  <2>1. rows' \in Seq(RowStatus) /\ dropped' \in BOOLEAN
    <3>1. "running" \in RowStatus /\ "none" \in RowStatus
      BY DEF RowStatus
    <3>2. Append(rows, "running") \in Seq(RowStatus) /\ Append(rows, "none") \in Seq(RowStatus)
      BY <1>3, <3>1, AppendProperties
    <3>. QED
      BY <1>2, <1>3, <3>2, Zenon
  <2>2. DebateTurn' = DebateTurn
    BY <1>1 DEF DebateTurn
  <2>. QED
    BY <1>1, <2>1, <2>2 DEF DebateInv, DebateTyped, Lists
<1>7. Stage'
  BY <1>1 DEF DebateInv, DebateTyped, Stage
<1>8. RowsFollow'
  <2>1. CASE Debate!Talking
    <3>1. rows' \in Seq(RowStatus) /\ Len(rows') = Len(turns) + 1
      BY <1>2, <1>3, <2>1 DEF RowStatus
    <3>2. ASSUME ~dropped'
          PROVE  /\ Debate!Completed' = DOMAIN turns
                 /\ rows'[Len(turns) + 1] = "running"
                 /\ \A i \in DOMAIN rows' : rows'[i] = "running" => i = Len(turns) + 1
      <4>1. ~dropped /\ rows' = Append(rows, "running")
        BY <1>2, <2>1, <3>2
      <4>2. /\ DOMAIN rows = DOMAIN turns /\ DOMAIN rows' = 1..(Len(turns) + 1)
            /\ rows'[Len(turns) + 1] = "running"
            /\ \A i \in DOMAIN rows : rows'[i] = rows[i]
        BY <1>3, <4>1
      <4>3. \A i \in DOMAIN rows' : i \in DOMAIN rows \/ i = Len(turns) + 1
        BY <1>3, <4>2
      <4>. QED
        BY <1>3, <4>1, <4>2, <4>3 DEF Debate!Completed
    <3>. QED
      BY <1>1, <1>2, <1>3, <1>4, <2>1, <3>1, <3>2 DEF RowsFollow, Waiting, Over
  <2>2. CASE ~Debate!Talking
    BY <1>1, <1>2, <1>3, <1>4, <2>2 DEF RowsFollow, Waiting, Over, Debate!Completed
  <2>. QED
    BY <2>1, <2>2
<1>9. EndsTruly'
  BY <1>1, <1>3 DEF EndsTruly, Over, Debate!NoTrip
<1>10. ShownTruly'
  <2>1. PICK events \in {Debate!Reported \o <<Debate!Other>>, <<Debate!Other>>} :
            Debate!Publish(events)
    BY <1>1
  <2>2. events \in Seq(Nat) /\ \A i \in DOMAIN events : events[i] = 0
    <3>1. CASE events = <<Debate!Other>>
      BY <3>1 DEF Debate!Other
    <3>2. CASE events = Debate!Reported \o <<Debate!Other>>
      <4>1. events = Append(Debate!Reported, 0)
        BY <3>2, OtherEvents, AppendIsConcat DEF Debate!Other
      <4>. QED
        BY <4>1, OtherEvents, NothingEvent
    <3>. QED
      BY <2>1, <3>1, <3>2
  <2>. QED
    BY <1>1, <2>1, <2>2, PublishedNoTurn DEF DebateInv, DebateTyped, Lists, Request
<1>. QED
  BY <1>5, <1>6, <1>7, <1>8, <1>9, <1>10 DEF DebateInv, DebateTyped

(* An attempt is charged to the budget, and to the result unless it is to  *)
(* be repeated.                                                            *)
LEMMA DebateAttempts ==
    ASSUME DebateInv, Debate!Attempt
    PROVE  DebateInv'
<1>1. PICK u \in Usages, answer \in {"ok", "transport", "other"} \union Debate!Ended :
        /\ Debate!AddOutcome(u)
        /\ CASE Debate!Exceeds(u) ->
                  Debate!Fails("budget") /\ counted' = counted + u.tok /\ owed' = 0 /\ UNCHANGED attempt
             [] ~Debate!Exceeds(u) /\ answer = "ok" ->
                  Debate!Answers /\ counted' = counted + u.tok /\ owed' = 0 /\ UNCHANGED attempt
             [] ~Debate!Exceeds(u) /\ answer = "transport" /\ attempt < MaxRetries ->
                  /\ debate' = "backoff" /\ attempt' = attempt + 1 /\ owed' = u.tok
                  /\ UNCHANGED <<turns, Debate!store, counted, result, synthesis, queue, lost>>
             [] OTHER ->
                  Debate!Fails(answer) /\ counted' = counted + u.tok /\ owed' = 0 /\ UNCHANGED attempt
  BY DEF Debate!Attempt
<1>2. /\ debate = "asking"
      /\ UNCHANGED <<flag, available, asked, noSynth, asJSON, rounds, agents, ctx, printed, exit>>
  BY DEF Debate!Attempt, Debate!request
<1>3. u.tok \in Nat /\ tokens' = tokens + u.tok
  BY <1>1, DebateAssumption DEF Debate!AddOutcome
<1>4. Amounts
  BY DEF DebateInv, DebateTyped
<1>5. tripped = Debate!NoTrip
  BY <1>2 DEF DebateInv, EndsTruly, Over
<1>6. ~Debate!Exceeds(u) => UNCHANGED tripped
  BY <1>1 DEF Debate!AddOutcome
<1>7. CASE Debate!Exceeds(u)
  <2>1. Debate!Fails("budget") /\ counted' = counted + u.tok /\ owed' = 0
    BY <1>1, <1>7
  <2>2. Amounts'
    BY <1>3, <1>4, <2>1 DEF Amounts
  <2>3. Waiting /\ "budget" # "none" /\ "budget" # "cancelled"
    BY <1>2 DEF Waiting
  <2>. QED
    BY <1>2, <2>1, <2>2, <2>3, DebateFails, Zenon
<1>8. CASE ~Debate!Exceeds(u) /\ answer = "ok"
  <2>1. Debate!Answers /\ counted' = counted + u.tok /\ owed' = 0
    BY <1>1, <1>8
  <2>2. Amounts'
    BY <1>3, <1>4, <2>1 DEF Amounts
  <2>. QED
    BY <1>2, <1>6, <1>8, <2>1, <2>2, DebateAnswers
<1>9. CASE ~Debate!Exceeds(u) /\ answer = "transport" /\ attempt < MaxRetries
  <2>1. /\ debate' = "backoff" /\ owed' = u.tok
        /\ UNCHANGED <<turns, rows, sess, dropped, counted, result, queue, lost>>
    BY <1>1, <1>9 DEF Debate!store
  <2>2. Amounts'
    BY <1>3, <1>4, <2>1 DEF Amounts
  <2>3. Request' /\ Lists'
    BY <1>2, <2>1 DEF DebateInv, DebateTyped, Request, Lists, DebateTurn
  <2>4. Stage'
    BY <1>2, <2>1 DEF DebateInv, DebateTyped, Stage
  <2>5. RowsFollow'
    BY <1>2, <2>1 DEF DebateInv, RowsFollow, Waiting, Over, Debate!Completed, Debate!Talking
  <2>6. EndsTruly'
    BY <1>5, <1>6, <1>9, <2>1 DEF EndsTruly, Over, Debate!NoTrip
  <2>7. ShownTruly'
    BY <1>2, <2>1, ShownKept DEF DebateInv
  <2>. QED
    BY <2>2, <2>3, <2>4, <2>5, <2>6, <2>7 DEF DebateInv, DebateTyped
<1>10. CASE /\ ~Debate!Exceeds(u) /\ answer # "ok"
            /\ ~(answer = "transport" /\ attempt < MaxRetries)
  <2>1. Debate!Fails(answer) /\ counted' = counted + u.tok /\ owed' = 0
    BY <1>1, <1>10
  <2>2. Amounts'
    BY <1>3, <1>4, <2>1 DEF Amounts
  <2>3. answer # "none" /\ (answer = "cancelled" => ctx = "cancelled")
    BY DEF Debate!Ended
  <2>4. Waiting /\ tripped' = Debate!NoTrip
    BY <1>2, <1>5, <1>6, <1>10 DEF Waiting
  <2>. QED
    BY <1>2, <2>1, <2>2, <2>3, <2>4, DebateFails, Zenon
<1>. QED
  BY <1>7, <1>8, <1>9, <1>10

(* A limit of the provider's own, or the end of a wait.                    *)
LEMMA DebateStopsWaiting ==
    ASSUME DebateInv, Debate!Limited \/ Debate!Backoff
    PROVE  DebateInv'
<1>1. /\ Waiting
      /\ UNCHANGED <<flag, available, asked, noSynth, asJSON, rounds, agents, ctx, printed, exit>>
      /\ UNCHANGED <<tokens, tripped>>
  BY DEF Debate!Limited, Debate!Backoff, Debate!request, Debate!budgetVars, Waiting
<1>2. Amounts /\ tripped = Debate!NoTrip
  BY <1>1 DEF DebateInv, DebateTyped, EndsTruly, Over, Waiting
<1>3. CASE Debate!Limited
  <2>1. Debate!Fails("limit") /\ UNCHANGED <<counted, owed>>
    BY <1>3 DEF Debate!Limited
  <2>2. Amounts'
    BY <1>1, <1>2, <2>1 DEF Amounts
  <2>3. "limit" # "none" /\ "limit" # "cancelled" /\ tripped' = Debate!NoTrip
    BY <1>1, <1>2
  <2>. QED
    BY <1>1, <2>1, <2>2, <2>3, DebateFails, Zenon
<1>4. ASSUME Debate!Backoff, NEW err \in Debate!Ended, Debate!Fails(err), counted' = counted + owed
      PROVE  DebateInv'
  <2>1. Amounts'
    BY <1>1, <1>2, <1>4 DEF Amounts, Debate!Backoff
  <2>2. err # "none" /\ (err = "cancelled" => ctx = "cancelled") /\ tripped' = Debate!NoTrip
    BY <1>1, <1>2 DEF Debate!Ended
  <2>. QED
    BY <1>1, <1>4, <2>1, <2>2, DebateFails, Zenon
<1>5. ASSUME Debate!Backoff, debate' = "asking",
             UNCHANGED <<turns, Debate!store, counted, result, synthesis, queue, lost>>
      PROVE  DebateInv'
  <2>1. /\ UNCHANGED <<turns, rows, sess, dropped, counted, result, queue, lost>>
        /\ owed' = 0 /\ debate = "backoff" /\ debate' = "asking"
    BY <1>5 DEF Debate!store, Debate!Backoff
  <2>2. Amounts'
    BY <1>1, <1>2, <2>1 DEF Amounts
  <2>3. Request' /\ Lists'
    BY <1>1, <2>1 DEF DebateInv, DebateTyped, Request, Lists, DebateTurn
  <2>4. Stage'
    BY <1>1, <2>1 DEF DebateInv, DebateTyped, Stage
  <2>5. RowsFollow'
    BY <1>1, <2>1 DEF DebateInv, RowsFollow, Waiting, Over, Debate!Completed, Debate!Talking
  <2>6. EndsTruly'
    BY <1>1, <1>2, <2>1 DEF EndsTruly, Over, Debate!NoTrip
  <2>7. ShownTruly'
    BY <1>1, <2>1, ShownKept DEF DebateInv
  <2>. QED
    BY <2>2, <2>3, <2>4, <2>5, <2>6, <2>7 DEF DebateInv, DebateTyped
<1>. QED
  BY <1>3, <1>4, <1>5 DEF Debate!Backoff

(* With --no-synth the transcript is the outcome.                          *)
LEMMA DebateFinishes ==
    ASSUME DebateInv, Debate!Finish
    PROVE  DebateInv'
<1>1. /\ debate = "loop" /\ debate' = "returned" /\ ~Debate!Talking
      /\ UNCHANGED <<tokens, counted, owed, tripped, flag, available, asked, asJSON, ctx, rounds, agents>>
      /\ UNCHANGED <<turns, printed, exit>> /\ Debate!PublishEnd
      /\ result'.status = "completed" /\ result'.err = "none"
      /\ \/ rows' = rows /\ sess' = "completed" /\ UNCHANGED dropped
         \/ dropped' = TRUE /\ rows' = rows /\ sess' \in {"completed", sess}
  BY DEF Debate!Finish, Debate!Returns, Debate!Stores, Debate!budgetVars, Debate!request
<1>2. sess # "none" /\ dropped \in BOOLEAN /\ tripped = Debate!NoTrip
  BY <1>1 DEF DebateInv, DebateTyped, Stage, Lists, EndsTruly, Over
<1>3. Amounts' /\ Request'
  BY <1>1, <1>2 DEF DebateInv, DebateTyped, Amounts, Request
<1>4. Lists'
  BY <1>1, <1>2 DEF DebateInv, DebateTyped, Lists, DebateTurn
<1>5. Stage'
  BY <1>1, <1>2 DEF DebateInv, DebateTyped, Stage
<1>6. RowsFollow'
  <2>1. ~dropped => /\ Debate!Completed = DOMAIN turns
                    /\ \A i \in DOMAIN rows : rows[i] # "running"
    BY <1>1 DEF DebateInv, RowsFollow, Waiting
  <2>. QED
    BY <1>1, <2>1 DEF RowsFollow, Waiting, Over, Debate!Completed
<1>7. EndsTruly'
  BY <1>1, <1>2 DEF EndsTruly, Over, Debate!NoTrip, Debate!Talking
<1>8. ShownTruly'
  BY <1>1, PublishedEnd DEF DebateInv, DebateTyped, Lists, Request
<1>. QED
  BY <1>3, <1>4, <1>5, <1>6, <1>7, <1>8 DEF DebateInv, DebateTyped

(* An event of a provider, a signal or the clock, the display, and the end *)
(* of the command.                                                         *)
LEMMA DebateScreens ==
    ASSUME DebateInv, Debate!ProviderEvent \/ Debate!Interrupt \/ Debate!Render \/ Debate!Conclude
    PROVE  DebateInv'
<1>1. /\ UNCHANGED <<tokens, counted, owed, tripped, flag, available, asked, asJSON, rounds, agents>>
      /\ UNCHANGED <<turns, rows, sess, dropped, result>>
  BY DEF Debate!ProviderEvent, Debate!Interrupt, Debate!Render, Debate!Conclude, Debate!budgetVars, Debate!request,
         Debate!store, Debate!screen
<1>2. Amounts' /\ Request'
  BY <1>1 DEF DebateInv, DebateTyped, Amounts, Request
<1>3. /\ turns \in Seq(DebateTurn) /\ queue \in Seq(Nat) /\ printed \in Seq(Nat)
      /\ asJSON \in BOOLEAN /\ DebateTurn' = DebateTurn
  BY <1>1 DEF DebateInv, DebateTyped, Lists, Request, DebateTurn, ShownTruly
<1>4. CASE Debate!Interrupt
  <2>1. /\ UNCHANGED <<debate, queue, printed, lost, exit>>
        /\ ctx = "live"
    BY <1>4 DEF Debate!Interrupt, Debate!screen
  <2>2. Lists' /\ Stage'
    BY <1>1, <1>3, <2>1 DEF DebateInv, DebateTyped, Lists, Stage
  <2>3. RowsFollow'
    BY <1>1, <2>1 DEF DebateInv, RowsFollow, Waiting, Over, Debate!Completed, Debate!Talking
  <2>4. EndsTruly'
    BY <1>1, <2>1 DEF DebateInv, EndsTruly, Over, Debate!NoTrip, Debate!Talking
  <2>5. ShownTruly'
    BY <1>1, <2>1, ShownKept DEF DebateInv
  <2>. QED
    BY <1>2, <2>2, <2>3, <2>4, <2>5 DEF DebateInv, DebateTyped
<1>5. CASE Debate!Render
  <2>1. /\ UNCHANGED <<debate, ctx, exit, lost>> /\ queue # <<>>
        /\ printed' = IF Head(queue) = 0 THEN printed ELSE Append(printed, Head(queue))
        /\ queue' = Tail(queue)
    BY <1>5 DEF Debate!Render, Debate!Other
  <2>2. queue' \in Seq(Nat) /\ Len(queue') <= Buffer
    BY <1>3, <2>1, HeadTailProperties, DebateAssumption DEF DebateInv, ShownTruly
  <2>3. ~asJSON
    BY <2>1 DEF DebateInv, ShownTruly
  <2>4. Lists' /\ Stage'
    BY <1>1, <1>3, <2>1 DEF DebateInv, DebateTyped, Lists, Stage
  <2>5. RowsFollow'
    BY <1>1, <2>1 DEF DebateInv, RowsFollow, Waiting, Over, Debate!Completed, Debate!Talking
  <2>6. EndsTruly'
    BY <1>1, <2>1 DEF DebateInv, EndsTruly, Over, Debate!NoTrip, Debate!Talking
  <2>7. ShownTruly'
    <3>1. Rising(printed \o queue) /\ \A i \in DOMAIN printed : printed[i] # 0
      BY <2>3 DEF DebateInv, ShownTruly, Shown
    <3>2. /\ printed' \in Seq(Nat) /\ \A i \in DOMAIN printed' : printed'[i] # 0
          /\ Rising(Shown') /\ Places(Shown') = Places(Shown)
      BY <1>3, <2>1, <3>1, Taken DEF Shown
    <3>3. /\ Places(Shown) \cap lost = {} /\ Places(Shown) \cup lost = DOMAIN turns
          /\ UNCHANGED <<lost, turns, asJSON>>
      BY <1>1, <2>1, <2>3 DEF DebateInv, ShownTruly
    <3>. QED
      BY <2>2, <2>3, <3>2, <3>3 DEF ShownTruly, Rising, Places
  <2>. QED
    BY <1>2, <2>4, <2>5, <2>6, <2>7 DEF DebateInv, DebateTyped
<1>6. CASE Debate!Conclude
  <2>1. /\ debate = "returned" /\ debate' = "exited" /\ queue = <<>> /\ UNCHANGED <<ctx, queue, lost>>
        /\ exit' = IF result.err = "none" THEN 0 ELSE IF result.err = "cancelled" THEN 130 ELSE 4
        /\ printed' = IF asJSON /\ result.err = "none" THEN [i \in DOMAIN turns |-> i] ELSE printed
    BY <1>6 DEF Debate!Conclude, Debate!Leave
  <2>2. Lists' /\ Stage'
    BY <1>1, <1>3, <2>1 DEF DebateInv, DebateTyped, Lists, Stage
  <2>3. RowsFollow'
    BY <1>1, <2>1 DEF DebateInv, RowsFollow, Waiting, Over, Debate!Completed, Debate!Talking
  <2>4. EndsTruly'
    BY <1>1, <2>1 DEF DebateInv, EndsTruly, Over, Debate!NoTrip, Debate!Talking
  <2>5. ShownTruly'
    <3>1. CASE asJSON /\ result.err = "none"
      <4>1. /\ DOMAIN turns = 1..Len(turns) /\ Len(turns) \in Nat
            /\ printed' = [i \in 1..Len(turns) |-> i]
        BY <1>3, <2>1, <3>1
      <4>2. printed' \in Seq(Nat) /\ \A i \in DOMAIN printed' : printed'[i] # 0
        BY <4>1
      <4>. QED
        BY <1>1, <2>1, <3>1, <4>1, <4>2 DEF DebateInv, ShownTruly
    <3>2. CASE ~(asJSON /\ result.err = "none")
      <4>1. UNCHANGED <<printed, queue, lost, turns, asJSON, result>> /\ ShownTruly
        BY <1>1, <2>1, <3>2 DEF DebateInv
      <4>2. asJSON => printed = <<>> /\ result.err # "none"
        BY <2>1, <3>2, <4>1 DEF ShownTruly
      <4>. QED
        BY <4>1, <4>2, ShownLeft
    <3>. QED
      BY <3>1, <3>2
  <2>. QED
    BY <1>2, <2>2, <2>3, <2>4, <2>5 DEF DebateInv, DebateTyped
<1>7. CASE Debate!ProviderEvent
  <2>1. /\ UNCHANGED <<debate, ctx, printed, exit>> /\ debate \in {"asking", "backoff"}
    BY <1>7 DEF Debate!ProviderEvent
  <2>2. Lists' /\ Stage'
    BY <1>1, <1>3, <2>1 DEF DebateInv, DebateTyped, Lists, Stage
  <2>3. RowsFollow'
    BY <1>1, <2>1 DEF DebateInv, RowsFollow, Waiting, Over, Debate!Completed, Debate!Talking
  <2>4. EndsTruly'
    BY <1>1, <2>1 DEF DebateInv, EndsTruly, Over, Debate!NoTrip, Debate!Talking
  <2>5. ShownTruly'
    <3>. DEFINE events == <<Debate!Other>>
    <3>1. events \in Seq(Nat) /\ \A i \in DOMAIN events : events[i] = 0
      BY DEF Debate!Other
    <3>2. ShownTruly /\ debate # "exited" /\ debate' # "exited" /\ Debate!Publish(events)
      BY <1>7, <2>1 DEF DebateInv, Debate!ProviderEvent
    <3> HIDE DEF events
    <3>. QED
      BY <1>1, <1>3, <2>1, <3>1, <3>2, PublishedNoTurn
  <2>. QED
    BY <1>2, <2>2, <2>3, <2>4, <2>5 DEF DebateInv, DebateTyped
<1>. QED
  BY <1>4, <1>5, <1>6, <1>7

LEMMA DebateStepInv == DebateInv /\ [Debate!Next]_(Debate!vars) => DebateInv'
<1>1. ASSUME DebateInv, UNCHANGED Debate!vars PROVE DebateInv'
  <2>1. /\ UNCHANGED <<tokens, counted, owed, tripped, flag, available, asked, asJSON, rounds, agents, ctx>>
        /\ UNCHANGED <<debate, turns, rows, sess, dropped, result, queue, printed, lost, exit>>
    BY <1>1 DEF Debate!vars, Debate!budgetVars, Debate!request, Debate!store, Debate!screen
  <2>2. DebateTyped'
    BY <1>1, <2>1 DEF DebateInv, DebateTyped, Amounts, Request, Lists, Stage, DebateTurn
  <2>3. RowsFollow' /\ EndsTruly'
    BY <1>1, <2>1 DEF DebateInv, RowsFollow, EndsTruly, Waiting, Over, Debate!Completed, Debate!Talking,
                      Debate!NoTrip
  <2>4. ShownTruly'
    BY <1>1, <2>1, ShownKept DEF DebateInv
  <2>. QED
    BY <2>2, <2>3, <2>4 DEF DebateInv
<1>. QED
  BY <1>1, DebateStarts, DebateAsks, DebateAttempts, DebateStopsWaiting, DebateFinishes, DebateScreens
     DEF Debate!Next

(* What `uta discuss` says of a debate agrees with what happened in it:    *)
(* exit code, status, budget, rows, transcript, live output (every turn    *)
(* whose event the subscription had room for) and reported total, for any  *)
(* line-up, number of rounds, usage and size of the subscription.          *)
THEOREM DebateReportIsTrue == Debate!Spec => []DebateIsTrue
<1>1. DebateInv => DebateIsTrue
  <2>. SUFFICES ASSUME DebateInv, debate = "exited", sess # "none" PROVE DebateIsTrue
    BY DEF DebateIsTrue, Debate!DebateIsTrue
  <2>1. /\ queue = <<>>
        /\ exit = IF result.err = "none" THEN 0 ELSE IF result.err = "cancelled" THEN 130 ELSE 4
        /\ result.err = "none" <=> result.status = "completed"
        /\ result.err = "cancelled" => result.status = "cancelled" /\ ctx = "cancelled"
        /\ result.status = "completed" => ~Debate!Talking
        /\ tripped # Debate!NoTrip => result.status = "budget_exhausted"
    BY DEF DebateInv, DebateTyped, Lists, EndsTruly, Over
  <2>2. exit = 0 <=> result.status = "completed"
    BY <2>1
  <2>3. exit = 0 => Len(turns) = 2 * rounds /\ agents[1] \in Debate!Range(available)
    <3>1. /\ Len(turns) \in Nat /\ rounds \in Nat /\ Len(turns) <= 2 * rounds
          /\ agents \in Seq(Range(available)) /\ Len(agents) = 2
      BY DEF DebateInv, DebateTyped, Lists, Stage, Request
    <3>2. agents[1] \in Debate!Range(available)
      <4>1. agents[1] \in Range(available)
        BY <3>1
      <4>. QED
        BY <4>1 DEF Range, Debate!Range
    <3>. QED
      BY <2>1, <2>2, <3>1, <3>2 DEF Debate!Talking
  <2>4. exit = 130 => result.status = "cancelled" /\ ctx = "cancelled"
    BY <2>1
  <2>5. \/ dropped
        \/ /\ sess = result.status /\ Debate!Completed = DOMAIN turns
           /\ "running" \notin Debate!Range(rows)
    BY DEF DebateInv, RowsFollow, Waiting, Over, Debate!Range
  <2>6. /\ \A i, j \in DOMAIN printed : i < j => printed[i] < printed[j]
        /\ ~asJSON => Debate!Range(printed) = DOMAIN turns \ lost
        /\ asJSON /\ exit = 0 => Debate!Range(printed) = DOMAIN turns
    <3>1. printed \in Seq(Nat) /\ \A i \in DOMAIN printed : printed[i] # 0
      BY DEF DebateInv, ShownTruly
    <3>2. CASE ~asJSON
      <4>1. Shown = printed
        BY <2>1, <3>1, ConcatEmptySeq DEF Shown
      <4>2. Rising(printed) /\ Places(printed) = DOMAIN turns \ lost
        BY <3>2, <4>1 DEF DebateInv, ShownTruly
      <4>. QED
        BY <3>1, <3>2, <4>2 DEF Rising, Places, Debate!Range
    <3>3. CASE asJSON /\ result.err # "none"
      <4>1. printed = <<>> /\ exit # 0
        BY <2>1, <3>3 DEF DebateInv, ShownTruly
      <4>. QED
        BY <3>3, <4>1
    <3>4. CASE asJSON /\ result.err = "none"
      <4>1. printed = [i \in DOMAIN turns |-> i] /\ DOMAIN turns = 1..Len(turns) /\ Len(turns) \in Nat
        BY <3>4 DEF DebateInv, ShownTruly, DebateTyped, Lists
      <4>. QED
        BY <3>4, <4>1 DEF Debate!Range
    <3>. QED
      BY <3>2, <3>3, <3>4
  <2>7. counted <= tokens
    BY DEF DebateInv, DebateTyped, Amounts
  <2>. QED
    BY <2>1, <2>2, <2>3, <2>4, <2>5, <2>6, <2>7 DEF DebateIsTrue, Debate!DebateIsTrue
<1>. QED
  BY <1>1, DebateInitInv, DebateStepInv, PTL DEF Debate!Spec
-----------------------------------------------------------------------------
(* The reports of an audit.                                                *)

(* Iteration: for any step there is what it leads to, one after the other. *)
Leads(n, R, base, step, f) ==
    f \in [0..n -> R] /\ f[0] = base /\ \A i \in 1..n : f[i] = step[i][f[i - 1]]

LEMMA Iterates ==
    ASSUME NEW n \in Nat, NEW R, NEW base \in R, NEW step \in [1..n -> [R -> R]]
    PROVE  \E f : Leads(n, R, base, step, f)
<1>. DEFINE Reaches(k, f) == f \in [0..k -> R] /\ f[0] = base /\ \A i \in 1..k : f[i] = step[i][f[i - 1]]
            Short == {k \in Nat : k <= n /\ ~\E f : Reaches(k, f)}
            Below == OpToRel(<, Nat)
<1>1. CASE Short = {}
  <2>1. PICK f : Reaches(n, f)
    BY <1>1
  <2>. QED
    BY <2>1, Zenon DEF Leads
<1>2. CASE Short # {}
  <2>1. PICK k \in Short : \A j \in Short : <<j, k>> \notin Below
    BY <1>2, NatLessThanWellFounded, WFMin
  <2>2. \A j, m \in Nat : m < j => <<m, j>> \in Below
    BY DEF OpToRel
  <2>3. k # 0
    <3>1. Reaches(0, [i \in 0..0 |-> base])
      OBVIOUS
    <3>. QED
      BY <3>1
  <2>4. k - 1 \in Nat /\ k \in 1..n /\ k - 1 < k /\ k - 1 <= n
    BY <2>3
  <2>5. k - 1 \notin Short
    BY <2>1, <2>2, <2>4
  <2>6. PICK f : Reaches(k - 1, f)
    BY <2>4, <2>5
  <2>. DEFINE g == [i \in 0..k |-> IF i = k THEN step[k][f[k - 1]] ELSE f[i]]
  <2>7. Reaches(k, g)
    <3>1. step[k][f[k - 1]] \in R
      BY <2>4, <2>6
    <3>2. g \in [0..k -> R] /\ g[0] = base
      BY <2>3, <2>4, <2>6, <3>1
    <3>3. ASSUME NEW i \in 1..k PROVE g[i] = step[i][g[i - 1]]
      BY <2>3, <2>4, <2>6
    <3>. QED
      BY <3>2, <3>3
  <2>. QED
    BY <2>7
<1>. QED
  BY <1>1, <1>2

(* What holds at first and is kept by every step holds at last.            *)
LEMMA Carried ==
    ASSUME NEW n \in Nat, NEW R, NEW f, f[0] \in R, \A i \in 1..n : f[i - 1] \in R => f[i] \in R
    PROVE  f[n] \in R
<1>. DEFINE Out == {k \in 0..n : f[k] \notin R}
            Below == OpToRel(<, Nat)
<1>1. ASSUME Out # {} PROVE FALSE
  <2>1. Out \subseteq Nat
    OBVIOUS
  <2>2. PICK k \in Out : \A j \in Out : <<j, k>> \notin Below
    BY <1>1, <2>1, NatLessThanWellFounded, WFMin
  <2>3. \A j, m \in Nat : m < j => <<m, j>> \in Below
    BY DEF OpToRel
  <2>. HIDE DEF Below
  <2>4. k # 0 /\ k \in 1..n /\ k - 1 \in 0..n /\ k - 1 < k
    OBVIOUS
  <2>5. k - 1 \in Nat /\ k \in Nat
    BY <2>1, <2>4
  <2>6. <<k - 1, k>> \in Below
    BY <2>3, <2>4, <2>5
  <2>7. k - 1 \notin Out
    BY <2>2, <2>6, Zenon
  <2>. QED
    BY <2>4, <2>7
<1>. QED
  BY <1>1

(* What one step brings about and no step undoes.                          *)
LEMMA Lasts ==
    ASSUME NEW n \in Nat, NEW R, NEW base, NEW step, NEW g, Leads(n, R, base, step, g),
           NEW G, \A i \in 1..n, q \in R : q \in G => step[i][q] \in G,
           NEW j \in 1..n, \A q \in R : step[j][q] \in G
    PROVE  g[n] \in G
<1>. DEFINE h == [i \in 0..(n - j) |-> g[j + i]]
<1>1. \A i \in 1..n : g[i - 1] \in R /\ g[i] = step[i][g[i - 1]]
  BY DEF Leads
<1>2. n - j \in Nat /\ h[0] = g[j] /\ h[n - j] = g[n]
  OBVIOUS
<1>3. g[j] \in G
  BY <1>1
<1>4. ASSUME NEW i \in 1..(n - j), h[i - 1] \in G PROVE h[i] \in G
  <2>1. j + i \in 1..n /\ (j + i) - 1 = j + (i - 1) /\ i - 1 \in 0..(n - j)
    OBVIOUS
  <2>2. g[(j + i) - 1] \in G
    BY <1>4, <2>1
  <2>3. g[j + i] \in G
    BY <1>1, <2>1, <2>2
  <2>. QED
    BY <2>3
<1>. HIDE DEF h
<1>5. h[n - j] \in G
  BY <1>2, <1>3, <1>4, Carried
<1>. QED
  BY <1>2, <1>5

High(findings) == \E i \in DOMAIN findings : findings[i].severity = Audit!HIGH

LEMMA Ranked == ASSUME NEW f \in Findings PROVE f.severity \in 0..4
  BY AuditAssumption DEF Audit!HIGH

(* The worst rank is that of a finding, and no finding is worse.           *)
LEMMA HighestIs ==
    ASSUME NEW findings \in Seq(Findings)
    PROVE  /\ Audit!Highest(findings) \in 0..4
           /\ Audit!Highest(findings) = Audit!HIGH <=> High(findings)
<1>1. PICK ranks : ranks = {0} \union {findings[i].severity : i \in DOMAIN findings}
  OBVIOUS
<1>2. \A i \in DOMAIN findings : findings[i] \in Findings
  OBVIOUS
<1>3. \A i \in DOMAIN findings : findings[i].severity \in 0..4
  BY <1>2, Ranked, Zenon
<1>4. ranks \subseteq 0..4 /\ 0 \in ranks
  BY <1>1, <1>3
<1>5. \E x \in ranks : \A y \in ranks : x >= y
  BY <1>4
<1>6. PICK worst : worst = CHOOSE x \in ranks : \A y \in ranks : x >= y
  OBVIOUS
<1>7. worst \in ranks /\ \A y \in ranks : worst >= y
  BY <1>5, <1>6, Zenon
<1>8. Audit!Highest(findings) = worst
  BY <1>1, <1>6, Zenon DEF Audit!Highest, Audit!Max
<1>9. worst = 4 <=> 4 \in ranks
  BY <1>4, <1>7
<1>10. 4 \in ranks <=> High(findings)
  BY <1>1 DEF High, Audit!HIGH
<1>11. worst \in 0..4
  BY <1>4, <1>7
<1>. QED
  BY <1>8, <1>9, <1>10, <1>11, Zenon DEF Audit!HIGH

(* One more finding: none of rank 4 is lost.                               *)
LEMMA MergeKeeps ==
    ASSUME NEW kept \in Seq(Findings), NEW f \in Findings, NEW across
    PROVE  LET q == Audit!Merge(kept, f, across)
           IN q \in Seq(Findings) /\ (High(kept) \/ f.severity = 4 => High(q))
<1>1. PICK same : same = {i \in DOMAIN kept : Audit!Key(f, across) # None
                                             /\ Audit!Key(kept[i], across) = Audit!Key(f, across)}
  OBVIOUS
<1>2. PICK q : q = Audit!Merge(kept, f, across)
  OBVIOUS
<1>3. q = IF same = {} THEN Append(kept, f)
          ELSE [i \in DOMAIN kept |-> IF i \in same /\ Audit!Worse(f, kept[i]) THEN f ELSE kept[i]]
  BY <1>1, <1>2, Zenon DEF Audit!Merge
<1>4. same \subseteq DOMAIN kept
  BY <1>1
<1>5. f.severity \in 0..4 /\ \A i \in DOMAIN kept : kept[i].severity \in 0..4
  <2>1. \A i \in DOMAIN kept : kept[i] \in Findings
    OBVIOUS
  <2>. QED
    BY <2>1, Ranked, Zenon
<1>6. CASE same = {}
  <2>1. q = Append(kept, f)
    BY <1>3, <1>6
  <2>2. q \in Seq(Findings)
    BY <2>1
  <2>3. /\ \A i \in DOMAIN kept : i \in DOMAIN q /\ q[i] = kept[i]
        /\ Len(kept) + 1 \in DOMAIN q /\ q[Len(kept) + 1] = f
    BY <2>1
  <2>4. High(kept) \/ f.severity = 4 => High(q)
    BY <2>3 DEF High, Audit!HIGH
  <2>. QED
    BY <1>2, <2>2, <2>4, Zenon
<1>7. CASE same # {}
  <2>1. q = [i \in DOMAIN kept |-> IF i \in same /\ Audit!Worse(f, kept[i]) THEN f ELSE kept[i]]
    BY <1>3, <1>7
  <2>2. DOMAIN q = DOMAIN kept
        /\ \A i \in DOMAIN kept : q[i] = IF i \in same /\ Audit!Worse(f, kept[i]) THEN f ELSE kept[i]
    BY <2>1
  <2>3. q \in Seq(Findings)
    <3>1. Len(kept) \in Nat /\ DOMAIN kept = 1..Len(kept) /\ \A i \in DOMAIN kept : kept[i] \in Findings
      OBVIOUS
    <3>2. q \in [1..Len(kept) -> Findings]
      BY <2>1, <3>1
    <3>. QED
      BY <3>1, <3>2
  <2>4. ASSUME High(kept) PROVE High(q)
    <3>1. PICK i \in DOMAIN kept : kept[i].severity = 4
      BY <2>4 DEF High, Audit!HIGH
    <3>2. ~Audit!Worse(f, kept[i])
      BY <1>5, <3>1 DEF Audit!Worse
    <3>3. q[i] = kept[i] /\ i \in DOMAIN q
      BY <2>2, <3>2
    <3>. QED
      BY <3>1, <3>3 DEF High, Audit!HIGH
  <2>5. ASSUME f.severity = 4 PROVE High(q)
    <3>1. PICK i \in same : TRUE
      BY <1>7
    <3>2. i \in DOMAIN kept /\ i \in DOMAIN q /\ q[i] \in {f, kept[i]}
      BY <1>4, <2>2, <3>1
    <3>3. CASE Audit!Worse(f, kept[i])
      <4>1. q[i] = f
        BY <2>2, <3>1, <3>2, <3>3
      <4>. QED
        BY <2>5, <3>2, <4>1 DEF High, Audit!HIGH
    <3>4. CASE ~Audit!Worse(f, kept[i])
      <4>1. q[i] = kept[i]
        BY <2>2, <3>2, <3>4
      <4>2. kept[i].severity = 4
        BY <1>5, <2>5, <3>2, <3>4 DEF Audit!Worse
      <4>. QED
        BY <3>2, <4>1, <4>2 DEF High, Audit!HIGH
    <3>. QED
      BY <3>3, <3>4
  <2>. QED
    BY <1>2, <2>3, <2>4, <2>5, Zenon
<1>. QED
  BY <1>6, <1>7

LEMMA CollapseKeeps ==
    ASSUME NEW findings \in Seq(Findings), NEW across
    PROVE  LET q == Audit!Collapse(findings, across)
           IN q \in Seq(Findings) /\ (High(findings) => High(q))
<1>1. PICK n \in Nat : n = Len(findings)
  OBVIOUS
<1>2. PICK R : R = Seq(Findings)
  OBVIOUS
<1>3. DOMAIN findings = 1..n /\ \A i \in 1..n : findings[i] \in Findings
  BY <1>1
<1>4. PICK none \in R : none = <<>>
  BY <1>2, EmptySeq, Zenon
<1>. DEFINE Eq(f) == f = [i \in 0..n |-> IF i = 0 THEN <<>> ELSE Audit!Merge(f[i - 1], findings[i], across)]
            step == [i \in 1..n |-> [q \in R |-> Audit!Merge(q, findings[i], across)]]
<1>5. \A i \in 1..n, q \in R :
         /\ Audit!Merge(q, findings[i], across) \in R
         /\ High(q) \/ findings[i].severity = 4 => High(Audit!Merge(q, findings[i], across))
  BY <1>2, <1>3, MergeKeeps, Zenon
<1>6. step \in [1..n -> [R -> R]]
  BY <1>5, Zenon
<1>7. \A i \in 1..n, q \in R : step[i][q] = Audit!Merge(q, findings[i], across)
  OBVIOUS
<1>. HIDE DEF step
<1>8. ASSUME NEW f, Leads(n, R, none, step, f) PROVE Eq(f)
  <2>1. f \in [0..n -> R] /\ f[0] = <<>> /\ \A i \in 1..n : f[i - 1] \in R
    BY <1>4, <1>8 DEF Leads
  <2>2. \A i \in 1..n : f[i] = Audit!Merge(f[i - 1], findings[i], across)
    BY <1>7, <1>8, <2>1, Zenon DEF Leads
  <2>. QED
    BY <2>1, <2>2
<1>9. \E f : Eq(f)
  <2>1. PICK f : Leads(n, R, none, step, f)
    BY <1>6, Iterates, Zenon
  <2>2. Eq(f)
    BY <1>8, <2>1
  <2>. QED
    BY <2>2
<1>10. PICK g : g = CHOOSE f : Eq(f)
  OBVIOUS
<1>11. Eq(g)
  <2>. HIDE DEF Eq
  <2>. QED
    BY <1>9, <1>10, Zenon
<1>12. g[0] = <<>> /\ \A i \in 1..n : g[i] = Audit!Merge(g[i - 1], findings[i], across)
  BY <1>11
<1>13. ASSUME NEW k \in 0..n PROVE g[k] \in R
  <2>1. g[0] \in R
    BY <1>4, <1>12
  <2>2. \A i \in 1..k : g[i - 1] \in R => g[i] \in R
    BY <1>5, <1>12
  <2>3. k \in Nat
    OBVIOUS
  <2>. QED
    BY <2>1, <2>2, <2>3, Carried, Zenon
<1>14. Leads(n, R, none, step, g)
  <2>1. g \in [0..n -> R]
    BY <1>11, <1>13
  <2>2. \A i \in 1..n : g[i - 1] \in R
    BY <1>13
  <2>. QED
    BY <1>4, <1>7, <1>12, <2>1, <2>2, Zenon DEF Leads
<1>15. Audit!Collapse(findings, across) = g[n]
  BY <1>1, <1>10, Zenon DEF Audit!Collapse
<1>16. ASSUME High(findings) PROVE High(g[n])
  <2>1. PICK j \in 1..n : findings[j].severity = 4
    BY <1>3, <1>16 DEF High, Audit!HIGH
  <2>2. PICK G : G = {q \in R : High(q)}
    OBVIOUS
  <2>3. \A i \in 1..n, q \in R : q \in G => step[i][q] \in G
    BY <1>5, <1>7, <2>2
  <2>4. \A q \in R : step[j][q] \in G
    BY <1>5, <1>7, <2>1, <2>2
  <2>5. g[n] \in G
    BY <1>14, <2>3, <2>4, Lasts, Zenon
  <2>. QED
    BY <2>2, <2>5
<1>17. g[n] \in Seq(Findings)
  BY <1>2, <1>13
<1>. QED
  BY <1>15, <1>16, <1>17, Zenon

(* What was reported under the labels.                                     *)
Stored(perLabel) ==
    /\ DOMAIN perLabel \subseteq Range(Order)
    /\ \A l \in DOMAIN perLabel : perLabel[l] \in Seq(Findings)

LEMMA JoinKeeps ==
    ASSUME NEW perLabel, Stored(perLabel), NEW all \in Seq(Findings), NEW l
    PROVE  LET q == Audit!Join(all, perLabel, l)
           IN /\ q \in Seq(Findings) /\ (High(all) => High(q))
              /\ l \in DOMAIN perLabel /\ High(perLabel[l]) => High(q)
<1>1. CASE l \notin DOMAIN perLabel
  <2>1. Audit!Join(all, perLabel, l) = all
    BY <1>1, Zenon DEF Audit!Join
  <2>. QED
    BY <1>1, <2>1
<1>2. CASE l \in DOMAIN perLabel
  <2>1. PICK own : own = Audit!Collapse(perLabel[l], FALSE)
    OBVIOUS
  <2>2. own \in Seq(Findings) /\ (High(perLabel[l]) => High(own))
    <3>1. perLabel[l] \in Seq(Findings)
      BY <1>2 DEF Stored
    <3>. QED
      BY <2>1, <3>1, CollapseKeeps, Zenon
  <2>3. PICK q : q = all \o own
    OBVIOUS
  <2>4. q \in Seq(Findings)
    BY <2>2, <2>3
  <2>5. ASSUME High(all) PROVE High(q)
    <3>1. PICK i \in DOMAIN all : all[i].severity = 4
      BY <2>5 DEF High, Audit!HIGH
    <3>2. i \in DOMAIN q /\ q[i] = all[i]
      BY <2>2, <2>3
    <3>. QED
      BY <3>1, <3>2 DEF High, Audit!HIGH
  <2>6. ASSUME High(own) PROVE High(q)
    <3>1. PICK i \in DOMAIN own : own[i].severity = 4
      BY <2>6 DEF High, Audit!HIGH
    <3>2. Len(all) + i \in DOMAIN q /\ q[Len(all) + i] = own[i]
      BY <2>2, <2>3
    <3>. QED
      BY <3>1, <3>2 DEF High, Audit!HIGH
  <2>7. q = Audit!Join(all, perLabel, l)
    BY <1>2, <2>1, <2>3, Zenon DEF Audit!Join
  <2>. QED
    BY <2>2, <2>4, <2>5, <2>6, <2>7, Zenon
<1>. QED
  BY <1>1, <1>2

LEMMA AggregateKeeps ==
    ASSUME NEW perLabel, Stored(perLabel)
    PROVE  LET q == Audit!Aggregate(perLabel)
           IN q \in Seq(Findings) /\ \A l \in DOMAIN perLabel : High(perLabel[l]) => High(q)
<1>1. PICK n \in Nat : n = Len(Order)
  BY AuditAssumption
<1>2. PICK R : R = Seq(Findings)
  OBVIOUS
<1>3. DOMAIN Order = 1..n
  BY <1>1, AuditAssumption
<1>4. PICK none \in R : none = <<>>
  BY <1>2, EmptySeq, Zenon
<1>. DEFINE Eq(f) == f = [i \in 0..n |-> IF i = 0 THEN <<>> ELSE Audit!Join(f[i - 1], perLabel, Order[i])]
            step == [i \in 1..n |-> [q \in R |-> Audit!Join(q, perLabel, Order[i])]]
<1>5. \A i \in 1..n, q \in R :
         /\ Audit!Join(q, perLabel, Order[i]) \in R
         /\ High(q) \/ (Order[i] \in DOMAIN perLabel /\ High(perLabel[Order[i]]))
              => High(Audit!Join(q, perLabel, Order[i]))
  BY <1>2, JoinKeeps, Zenon
<1>6. step \in [1..n -> [R -> R]]
  BY <1>5, Zenon
<1>7. \A i \in 1..n, q \in R : step[i][q] = Audit!Join(q, perLabel, Order[i])
  OBVIOUS
<1>. HIDE DEF step
<1>8. ASSUME NEW f, Leads(n, R, none, step, f) PROVE Eq(f)
  <2>1. f \in [0..n -> R] /\ f[0] = <<>> /\ \A i \in 1..n : f[i - 1] \in R
    BY <1>4, <1>8 DEF Leads
  <2>2. \A i \in 1..n : f[i] = Audit!Join(f[i - 1], perLabel, Order[i])
    BY <1>7, <1>8, <2>1, Zenon DEF Leads
  <2>. QED
    BY <2>1, <2>2
<1>9. \E f : Eq(f)
  <2>1. PICK f : Leads(n, R, none, step, f)
    BY <1>6, Iterates, Zenon
  <2>2. Eq(f)
    BY <1>8, <2>1
  <2>. QED
    BY <2>2
<1>10. PICK g : g = CHOOSE f : Eq(f)
  OBVIOUS
<1>11. Eq(g)
  <2>. HIDE DEF Eq
  <2>. QED
    BY <1>9, <1>10, Zenon
<1>12. g[0] = <<>> /\ \A i \in 1..n : g[i] = Audit!Join(g[i - 1], perLabel, Order[i])
  BY <1>11
<1>13. ASSUME NEW k \in 0..n PROVE g[k] \in R
  <2>1. g[0] \in R
    BY <1>4, <1>12
  <2>2. \A i \in 1..k : g[i - 1] \in R => g[i] \in R
    BY <1>5, <1>12
  <2>3. k \in Nat
    OBVIOUS
  <2>. QED
    BY <2>1, <2>2, <2>3, Carried, Zenon
<1>14. Leads(n, R, none, step, g)
  <2>1. g \in [0..n -> R]
    BY <1>11, <1>13
  <2>2. \A i \in 1..n : g[i - 1] \in R
    BY <1>13
  <2>. QED
    BY <1>4, <1>7, <1>12, <2>1, <2>2, Zenon DEF Leads
<1>15. Audit!Aggregate(perLabel) = Audit!Collapse(g[n], TRUE)
  BY <1>1, <1>10, Zenon DEF Audit!Aggregate
<1>16. ASSUME NEW l \in DOMAIN perLabel, High(perLabel[l]) PROVE High(g[n])
  <2>1. PICK j \in 1..n : Order[j] = l
    BY <1>3 DEF Stored, Range
  <2>2. PICK G : G = {q \in R : High(q)}
    OBVIOUS
  <2>3. \A i \in 1..n, q \in R : q \in G => step[i][q] \in G
    BY <1>5, <1>7, <2>2
  <2>4. \A q \in R : step[j][q] \in G
    BY <1>5, <1>7, <1>16, <2>1, <2>2
  <2>5. g[n] \in G
    BY <1>14, <2>3, <2>4, Lasts, Zenon
  <2>. QED
    BY <2>2, <2>5
<1>17. g[n] \in Seq(Findings)
  BY <1>2, <1>13
<1>18. /\ Audit!Collapse(g[n], TRUE) \in Seq(Findings)
       /\ High(g[n]) => High(Audit!Collapse(g[n], TRUE))
  BY <1>17, CollapseKeeps, Zenon
<1>. QED
  BY <1>15, <1>16, <1>18, Zenon

(* The invariant: a completed session has the report of its last wave.     *)
AuditInv ==
    /\ Stored(said)
    /\ phase # "ended" => verdict # "completed"
    /\ verdict = "completed" => report = Audit!Aggregate(said)

LEMMA AuditInitInv == Audit!Init => AuditInv
<1>. SUFFICES ASSUME Audit!Init PROVE AuditInv
  OBVIOUS
<1>1. said = <<>> /\ phase = "wave" /\ verdict = "running"
  BY Zenon DEF Audit!Init
<1>2. DOMAIN said = {}
  BY <1>1
<1>. QED
  BY <1>1, <1>2 DEF AuditInv, Stored

LEMMA SameReport ==
    ASSUME AuditInv, said' = said, report' = report, verdict' = verdict,
           phase' # phase => phase' # "ended" /\ phase # "ended"
    PROVE  AuditInv'
  BY DEF AuditInv, Stored

LEMMA AuditStepKeeps == ASSUME AuditInv, [Audit!Next]_(Audit!vars) PROVE AuditInv'
<1>1. CASE UNCHANGED Audit!vars
  BY <1>1, SameReport DEF Audit!vars
<1>2. ASSUME NEW j \in Audit!Reviewers,
             Audit!TakeSlot(j) \/ Audit!NoSlot(j) \/ Audit!Fail(j) \/ Audit!OverBudget(j)
      PROVE  AuditInv'
  BY <1>2, SameReport DEF Audit!TakeSlot, Audit!NoSlot, Audit!Fail, Audit!OverBudget, Audit!Returns
<1>3. ASSUME NEW j \in Audit!Reviewers, NEW findings \in AuditAnswers, Audit!Answer(j, findings)
      PROVE  AuditInv'
  <2>1. /\ said' = [l \in DOMAIN said \union {Label[j]} |->
                      IF l = Label[j] THEN findings ELSE said[l]]
        /\ phase = "wave" /\ phase' = phase /\ verdict' = verdict
    BY <1>3 DEF Audit!Answer, Audit!Returns
  <2>2. Label[j] \in Range(Order)
    BY AuditAssumption DEF Audit!Reviewers
  <2>3. findings \in Seq(Findings)
    <3>1. findings \in Seq(Range(findings)) /\ Range(findings) \subseteq Findings
      BY AuditAssumption DEF Findings
    <3>. QED
      BY <3>1
  <2>4. Stored(said')
    BY <2>1, <2>2, <2>3 DEF AuditInv, Stored
  <2>. QED
    BY <2>1, <2>4 DEF AuditInv, Stored
<1>4. CASE Audit!Deny \/ Audit!Cancel
  BY <1>4, SameReport DEF Audit!Deny, Audit!Cancel
<1>5. CASE Audit!WaveBreaks
  <2>1. Audit!WaveVerdict # "completed"
    BY DEF Audit!WaveVerdict
  <2>2. phase' = "ended" /\ verdict' # "completed" /\ said' = said
    BY <1>5, <2>1 DEF Audit!WaveBreaks, Audit!Ends
  <2>. QED
    BY <2>2 DEF AuditInv, Stored
<1>6. CASE Audit!WaveReported
  <2>1. /\ report' = Audit!Aggregate(said) /\ said' = said
        /\ phase = "wave"
        /\ \/ phase' = "ended" /\ verdict' = "completed"
           \/ phase' = "revise" /\ verdict' = verdict
    BY <1>6, Zenon DEF Audit!WaveReported, Audit!Ends
  <2>. QED
    BY <2>1 DEF AuditInv, Stored
<1>7. CASE Audit!Revised
  <2>1. phase = "revise" /\ phase' = "wave" /\ said' = <<>> /\ verdict' = verdict
    BY <1>7, Zenon DEF Audit!Revised, Audit!StartsWave
  <2>2. Stored(said')
    <3>1. DOMAIN said' = {}
      BY <2>1
    <3>. QED
      BY <3>1 DEF Stored
  <2>. QED
    BY <2>1, <2>2 DEF AuditInv, Stored
<1>8. CASE Audit!ReviseFails \/ Audit!ReviseOverBudget
  <2>1. phase' = "ended" /\ said' = said /\ verdict' # "completed"
    BY <1>8 DEF Audit!ReviseFails, Audit!ReviseOverBudget, Audit!Ends
  <2>. QED
    BY <2>1 DEF AuditInv, Stored
<1>. QED
  BY <1>1, <1>2, <1>3, <1>4, <1>5, <1>6, <1>7, <1>8, Zenon DEF Audit!Next, Audit!Wave

LEMMA InvIsClean == ASSUME AuditInv PROVE CleanIsClean
<1>. SUFFICES ASSUME Audit!ExitCode = 0, NEW l \in DOMAIN said PROVE Audit!Highest(said[l]) < Audit!HIGH
  BY DEF CleanIsClean, Audit!CleanIsClean
<1>1. verdict = "completed" /\ (report = None \/ Audit!Highest(report) # Audit!HIGH)
  BY DEF Audit!ExitCode
<1>2. /\ report = Audit!Aggregate(said) /\ report \in Seq(Findings)
      /\ High(said[l]) => High(report)
  BY <1>1, AggregateKeeps, Zenon DEF AuditInv
<1>3. report # None
  BY <1>2, AuditAssumption
<1>4. ~High(report)
  BY <1>1, <1>2, <1>3, HighestIs
<1>5. said[l] \in Seq(Findings)
  BY DEF AuditInv, Stored
<1>6. Audit!Highest(said[l]) \in 0..4 /\ Audit!Highest(said[l]) # Audit!HIGH
  BY <1>2, <1>4, <1>5, HighestIs
<1>. QED
  BY <1>6 DEF Audit!HIGH

(* Whoever reviews, in whatever order the answers come and however often   *)
(* the material is revised: an audit that exits 0 has in its last wave no  *)
(* HIGH finding under any label, so neither pass of the deduplication and  *)
(* no merging of labels has hidden one (Aggregate of engine/findings.go,   *)
(* RunReflector, and the exit code of cli/audit.go).                       *)
THEOREM AuditCleanIsClean == Audit!Spec => []CleanIsClean
<1>1. Audit!Init => AuditInv
  BY AuditInitInv
<1>2. AuditInv /\ [Audit!Next]_(Audit!vars) => AuditInv'
  BY AuditStepKeeps
<1>3. AuditInv => CleanIsClean
  BY InvIsClean
<1>. QED
  BY <1>1, <1>2, <1>3, PTL DEF Audit!Spec
=============================================================================
