------------------------------ MODULE MCDagRun ------------------------------
(***************************************************************************)
(* Every plan of N tasks, cyclic ones included, with fail-fast and         *)
(* without, under every interleaving; and validateDAG's search on each of  *)
(* these plans, in every naming and cut off after every task.              *)
(***************************************************************************)
EXTENDS DagRun, Sequences, FiniteSetsExt, Functions

CONSTANTS NoId,   \* the empty id
          Ids     \* bound: the ids subtasks are named by

ASSUME NamesAssumption == NoId \notin Tasks

-----------------------------------------------------------------------------
(* validateDAG of internal/engine/dag.go: what a plan must satisfy before  *)
(* the DAG strategy creates a single row for it.  A plan is a sequence of  *)
(* subtasks [id, needs]; the colours of the search are those of the code.  *)

IdsOf(p) == {p[i].id : i \in DOMAIN p}

-----------------------------------------------------------------------------
(* The first subtask, in the plan's order, whose id is empty or taken      *)
(* decides which of the two errors is reported.                            *)
BadAt(p, i) == p[i].id = NoId \/ \E j \in 1..(i - 1) : p[j].id = p[i].id
BadIds(p) == {i \in DOMAIN p : BadAt(p, i)}

Missing(p) == \E i \in DOMAIN p : p[i].needs \ IdsOf(p) # {}

(* idx maps an id to the position of the subtask that has it.              *)
Idx(p, id) == CHOOSE i \in DOMAIN p : p[i].id = id

NeedsOf(p) == [id \in IdsOf(p) |-> p[Idx(p, id)].needs]

(* dfs, over what is left to visit of a list: grey is on the path, black   *)
(* is finished.  A search that meets a grey subtask has failed and visits  *)
(* nothing more; one that is done with a list says what is black then.     *)
At(todo, grey, black) == [todo |-> todo, grey |-> grey, black |-> black]
Places(ids) == [todo : SUBSET ids, grey : SUBSET ids, black : SUBSET ids]

Dfs(ids, need) ==
    LET dfs[at \in Places(ids)] ==
          LET id == CHOOSE id \in at.todo : TRUE
              below == dfs[At(need[id], at.grey \cup {id}, at.black)]
              next(black) == dfs[At(at.todo \ {id}, at.grey, black)]
          IN IF at.todo = {} THEN [cycle |-> FALSE, black |-> at.black]
             ELSE IF id \in at.grey THEN [cycle |-> TRUE, black |-> at.black]
             ELSE IF id \in at.black THEN next(at.black)
             ELSE IF below.cycle THEN below ELSE next(below.black \cup {id})
    IN dfs

\* broken: searches from the first subtask only
HasCycle_FirstOnly(p) ==
    p # <<>> /\ Dfs(IdsOf(p), NeedsOf(p))[At({p[1].id}, {}, {})].cycle

HasCycle(p) == Dfs(IdsOf(p), NeedsOf(p))[At(IdsOf(p), {}, {})].cycle

Verdict(p) ==
    IF BadIds(p) # {}
    THEN IF p[Min(BadIds(p))].id = NoId THEN "empty_id" ELSE "duplicate"
    ELSE IF Missing(p) THEN "missing"
    ELSE IF HasCycle(p) THEN "cycle" ELSE "accepted"

-----------------------------------------------------------------------------
(* What validateDAG is to find out: whether the subtasks have names of     *)
(* their own and can be ordered so that each comes after everything it     *)
(* needs.                                                                  *)
Schedulable(p) ==
    \E order \in [DOMAIN p -> DOMAIN p] :
        /\ IsInjective(order)
        /\ \A i \in DOMAIN p : \A dep \in p[i].needs :
             \E j \in DOMAIN p : p[j].id = dep /\ order[j] < order[i]

NamesDistinct(p) ==
    /\ \A i \in DOMAIN p : p[i].id # NoId
    /\ \A i, j \in DOMAIN p : p[i].id = p[j].id => i = j

-----------------------------------------------------------------------------
Named(n, name) ==
    [t \in 1..n |-> [id |-> name[t], needs |-> {name[d] : d \in needs[t]}]]

(* validateDAG accepts exactly the plans runDAG can carry out: distinct    *)
(* names and an order that respects every need, which for a well-named     *)
(* plan is what Validate takes it to be.  A wrong colour or a branch that  *)
(* returns early would accept a cycle or reject a diamond.                 *)
AcceptsExactlyRunnable ==
    main = "validate" /\ ctx = "live" =>
        /\ \A n \in 0..N, name \in [Tasks -> Ids \cup {NoId}] :
              LET p == Named(n, name)
              IN (Verdict(p) = "accepted") <=> (NamesDistinct(p) /\ Schedulable(p))
        /\ (Verdict(Named(N, [t \in Tasks |-> t])) = "accepted") <=> Acyclic
=============================================================================
