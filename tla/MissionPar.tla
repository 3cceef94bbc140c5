------------------------------ MODULE MissionPar ------------------------------
(***************************************************************************)
(* A mission's `par for` whose body is a `judge V by f1, ..., fn require K *)
(* of N` (evalParFor and evalJudge of internal/engine/mission.go).  Every  *)
(* branch and every verifier is a goroutine that takes a slot of the one   *)
(* semaphore of the walk for its whole life; a branch keeps its slot while *)
(* it waits for its verifiers, and no acquire watches the context.         *)
(***************************************************************************)
EXTENDS Integers, FiniteSets

CONSTANTS Branches,     \* the items of the par
          Verifiers,    \* the calls of the judge's by-list
          K,            \* stands required
          Slots,        \* of the walk's semaphore: --max-parallel, 4 unless set
          ValueCalls    \* the judged value is itself an agent call

ASSUME MissionAssumption ==
    /\ IsFiniteSet(Branches)
    /\ IsFiniteSet(Verifiers)
    /\ K \in Nat
    /\ Slots \in Nat \ {0}
    /\ ValueCalls \in BOOLEAN

VARIABLES br,          \* per branch: where it is
          ver,         \* per branch and verifier: where it is, or its verdict
          parTripped,  \* the mission's budget has tripped
          parRet       \* what the par expression evaluated to

parVars == <<br, ver, parTripped, parRet>>

Verdicts == {"stands", "refuted", "unclear", "error", "budget"}
BranchEnds == {"ok", "rejected", "error", "budget"}

ParTypeOK ==
    /\ br \in [Branches -> BranchEnds \cup {"queued", "value", "judging"}]
    /\ ver \in [Branches -> [Verifiers -> Verdicts \cup {"none", "queued", "calling"}]]
    /\ parTripped \in BOOLEAN
    /\ parRet \in {"none", "ok", "budget", "error"}

ParInit ==
    /\ br = [b \in Branches |-> "queued"]
    /\ ver = [b \in Branches |-> [v \in Verifiers |-> "none"]]
    /\ parTripped = FALSE
    /\ parRet = "none"

-----------------------------------------------------------------------------
SlotHolders == {b \in Branches : br[b] \in {"value", "judging"}}
Calling == {p \in Branches \X Verifiers : ver[p[1]][p[2]] = "calling"}

\* broken: one slot too few
FreeSlot_OneLess == Cardinality(SlotHolders) + Cardinality(Calling) < Slots - 1

FreeSlot == Cardinality(SlotHolders) + Cardinality(Calling) < Slots

BranchIs(b, state) == br' = [br EXCEPT ![b] = state]
VerifierIs(b, v, state) == ver' = [ver EXCEPT ![b][v] = state]

(* The value is there: the verifiers' goroutines are launched.             *)
Judge(b) ==
    /\ BranchIs(b, "judging")
    /\ ver' = [ver EXCEPT ![b] = [v \in Verifiers |-> "queued"]]

BranchAcquire(b) ==
    /\ br[b] = "queued"
    /\ FreeSlot
    /\ IF ~ValueCalls THEN Judge(b)
       ELSE BranchIs(b, IF parTripped THEN "budget" ELSE "value") /\ UNCHANGED ver
    /\ UNCHANGED <<parTripped, parRet>>

ValueAnswer(b) ==
    /\ br[b] = "value"
    /\ \/ Judge(b) /\ UNCHANGED parTripped
       \/ BranchIs(b, "error") /\ UNCHANGED <<ver, parTripped>>
       \/ BranchIs(b, "budget") /\ parTripped' = TRUE /\ UNCHANGED ver
    /\ UNCHANGED parRet

VerifierAcquire(b, v) ==
    /\ ver[b][v] = "queued"
    /\ FreeSlot
    /\ VerifierIs(b, v, IF parTripped THEN "budget" ELSE "calling")
    /\ UNCHANGED <<br, parTripped, parRet>>

VerifierAnswer(b, v) ==
    /\ ver[b][v] = "calling"
    /\ \E verdict \in Verdicts :
         /\ VerifierIs(b, v, verdict)
         /\ parTripped' = (parTripped \/ verdict = "budget")
    /\ UNCHANGED <<br, parRet>>

Answered(b) == \A v \in Verifiers : ver[b][v] \in Verdicts
Standing(b) == {v \in Verifiers : ver[b][v] = "stands"}

\* broken: whatever does not refute lets the value stand
Tally_NotRefuted(b) ==
    /\ br[b] = "judging"
    /\ Answered(b)
    /\ BranchIs(b, IF \E v \in Verifiers : ver[b][v] = "budget" THEN "budget"
                   ELSE IF Cardinality({v \in Verifiers : ver[b][v] # "refuted"}) >= K
                   THEN "ok" ELSE "rejected")
    /\ UNCHANGED <<ver, parTripped, parRet>>

(* A budget error outranks the tally; a verifier that failed otherwise     *)
(* does not count toward K.                                                *)
Tally(b) ==
    /\ br[b] = "judging"
    /\ Answered(b)
    /\ BranchIs(b, IF \E v \in Verifiers : ver[b][v] = "budget" THEN "budget"
                   ELSE IF Cardinality(Standing(b)) >= K THEN "ok"
                   ELSE "rejected")
    /\ UNCHANGED <<ver, parTripped, parRet>>

AllEnded == \A b \in Branches : br[b] \in BranchEnds

(* wg.Wait returned: a budget error outranks every other failure.          *)
Join ==
    /\ parRet = "none"
    /\ AllEnded
    /\ parRet' = IF \E b \in Branches : br[b] = "budget" THEN "budget"
              ELSE IF \E b \in Branches : br[b] # "ok" THEN "error" ELSE "ok"
    /\ UNCHANGED <<br, ver, parTripped>>

ParNext ==
    \/ Join
    \/ \E b \in Branches : BranchAcquire(b) \/ ValueAnswer(b) \/ Tally(b)
    \/ \E b \in Branches, v \in Verifiers :
          VerifierAcquire(b, v) \/ VerifierAnswer(b, v)

(* Calls end at CallTimeout; a channel send is served in the end when the  *)
(* channel has room again and again.                                       *)
ParFairness ==
    /\ WF_parVars(Join)
    /\ \A b \in Branches :
         SF_parVars(BranchAcquire(b)) /\ WF_parVars(ValueAnswer(b)) /\ WF_parVars(Tally(b))
    /\ \A b \in Branches, v \in Verifiers :
         SF_parVars(VerifierAcquire(b, v)) /\ WF_parVars(VerifierAnswer(b, v))

ParSpec == ParInit /\ [][ParNext]_parVars
ParFairSpec == ParSpec /\ ParFairness

-----------------------------------------------------------------------------
(* Branches and verifiers together never hold more slots than there are.   *)
SlotsBounded == Cardinality(SlotHolders) + Cardinality(Calling) <= Slots

(* The @K refinement of a par's value is earned: when the par yields a     *)
(* value, K verifiers of every single branch let it stand.                 *)
RefinementEarned ==
    parRet = "ok" => \A b \in Branches : Cardinality(Standing(b)) >= K

(* A budget that tripped in any call of any branch is what the par fails   *)
(* with, so the session closes as budget_exhausted.                        *)
BudgetOutranks == (parRet # "none" /\ parTripped) => parRet = "budget"

(* Something goes on: a call is out, a tally or the join is due, or a slot *)
(* is free for a goroutine that wants one.                                 *)
Moves ==
    \/ AllEnded
    \/ \E b \in Branches : br[b] = "value"
    \/ \E b \in Branches : br[b] = "judging" /\ Answered(b)
    \/ Calling # {}
    \/ FreeSlot

(* The goroutines of a par wait for one another in one way only: as many   *)
(* branches as there are slots are judging at once, so that each waits for *)
(* verifiers which wait for a slot (the acquires of evalParFor and of      *)
(* evalJudge on one semaphore).                                            *)
OnlyJudgesWedge ==
    parRet = "none" /\ ~Moves =>
        Cardinality({b \in Branches : br[b] = "judging"}) = Slots

(* "The body runs once per item, concurrently (bounded by --max-parallel,  *)
(* default 4), and the expression's value is the branch results joined in  *)
(* item order" (docs/steer.md): however many items there are, the par      *)
(* returns.                                                                *)
ParReturns == <>(parRet # "none")
=============================================================================
