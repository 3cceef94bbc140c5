--------------------------- MODULE MissionParProofs ---------------------------
(***************************************************************************)
(* What a par of judges keeps for every number of items, verifiers and     *)
(* slots.                                                                  *)
(***************************************************************************)
EXTENDS MissionPar, FiniteSetTheorems, TLAPS

(* Verifiers exist while their branch judges, and stay answered after.     *)
BranchOK(b) ==
    /\ br[b] \in {"queued", "value"} => \A v \in Verifiers : ver[b][v] = "none"
    /\ br[b] \in BranchEnds =>
          \A v \in Verifiers : ver[b][v] \notin {"queued", "calling"}
    /\ br[b] = "ok" => Cardinality(Standing(b)) >= K

BranchAgrees == \A b \in Branches : BranchOK(b)

(* A parTripped budget has a branch that reports it, or will.                 *)
TripHasBranch ==
    parTripped => \E b \in Branches :
                  \/ br[b] = "budget"
                  \/ br[b] = "judging" /\ \E v \in Verifiers : ver[b][v] = "budget"

RetAgrees ==
    parRet # "none" =>
        /\ AllEnded
        /\ parRet = "ok" => \A b \in Branches : br[b] = "ok"
        /\ parTripped => parRet = "budget"

ParInv == ParTypeOK /\ BranchAgrees /\ TripHasBranch /\ RetAgrees /\ SlotsBounded

LEMMA OthersOK ==
    ASSUME ParInv, NEW c \in Branches, br'[c] = br[c], ver'[c] = ver[c]
    PROVE  BranchOK(c)'
<1>1. Standing(c)' = Standing(c)
  BY DEF Standing
<1>. QED
  BY <1>1 DEF ParInv, BranchAgrees, BranchOK

LEMMA BranchStepInv ==
    ASSUME ParInv, NEW b \in Branches,
           BranchAcquire(b) \/ ValueAnswer(b) \/ Tally(b)
    PROVE  ParTypeOK' /\ BranchAgrees' /\ TripHasBranch' /\ RetAgrees'
<1>. DEFINE States == Verdicts \cup {"none", "queued", "calling"}
            launched == [v \in Verifiers |-> "queued"]
<1>0. /\ br \in [Branches -> BranchEnds \cup {"queued", "value", "judging"}]
      /\ ver \in [Branches -> [Verifiers -> States]]
      /\ parTripped \in BOOLEAN /\ parRet \in {"none", "ok", "budget", "error"}
      /\ BranchOK(b) /\ launched \in [Verifiers -> States]
  BY DEF ParInv, BranchAgrees, ParTypeOK
<1>1. /\ \A c \in Branches : c # b => br'[c] = br[c] /\ ver'[c] = ver[c]
      /\ br[b] \notin BranchEnds /\ parRet' = parRet
  BY <1>0 DEF BranchAcquire, ValueAnswer, Tally, BranchIs, Judge, BranchEnds
<1>2. RetAgrees'
  <2>1. parRet = "none"
    BY <1>1 DEF ParInv, RetAgrees, AllEnded
  <2>. QED
    BY <1>1, <2>1 DEF RetAgrees
<1>3. /\ br' = [br EXCEPT ![b] = br'[b]]
      /\ br'[b] \in BranchEnds \cup {"value", "judging"}
      /\ \/ ver' = ver /\ br'[b] # "judging"
         \/ ver' = [ver EXCEPT ![b] = launched] /\ br'[b] = "judging"
      /\ br'[b] = "value" => br[b] = "queued"
      /\ br[b] = "judging" =>
            /\ Answered(b)
            /\ parTripped' = parTripped
            /\ br'[b] = "ok" => Cardinality(Standing(b)) >= K
            /\ (\E v \in Verifiers : ver[b][v] = "budget") => br'[b] = "budget"
      /\ br[b] # "judging" =>
            /\ br'[b] # "ok"
            /\ parTripped' \in BOOLEAN
            /\ parTripped' # parTripped => br'[b] = "budget"
  <2>1. CASE BranchAcquire(b)
    BY <1>0, <2>1 DEF BranchAcquire, BranchIs, Judge, BranchEnds
  <2>2. CASE ValueAnswer(b)
    BY <1>0, <2>2 DEF ValueAnswer, BranchIs, Judge, BranchEnds
  <2>3. CASE Tally(b)
    BY <1>0, <2>3 DEF Tally, BranchIs, BranchEnds
  <2>. QED
    BY <2>1, <2>2, <2>3
<1>4. ParTypeOK'
  <2>1. parTripped' \in BOOLEAN
    BY <1>0, <1>3
  <2>2. ver' \in [Branches -> [Verifiers -> States]]
    BY <1>0, <1>3
  <2>3. br' \in [Branches -> BranchEnds \cup {"queued", "value", "judging"}]
    <3>. HIDE DEF States, launched
    <3>. QED
      BY <1>0, <1>3 DEF BranchEnds
  <2>. QED
    BY <1>0, <1>1, <2>1, <2>2, <2>3 DEF ParTypeOK
<1>5. BranchOK(b)'
  <2>1. Standing(b)' = Standing(b) \/ br'[b] = "judging"
    BY <1>3 DEF Standing
  <2>2. br[b] \in {"queued", "value", "judging"}
    BY <1>0, <1>1
  <2>3. br'[b] \in BranchEnds =>
           /\ ver' = ver
           /\ \A v \in Verifiers : ver[b][v] \notin {"queued", "calling"}
    BY <1>0, <1>3, <2>2 DEF BranchOK, BranchEnds, Answered, Verdicts
  <2>4. br'[b] \in {"queued", "value"} => \A v \in Verifiers : ver'[b][v] = "none"
    BY <1>0, <1>3 DEF BranchOK, BranchEnds
  <2>5. br'[b] = "ok" => Cardinality(Standing(b)') >= K
    BY <1>3, <2>1, <2>2
  <2>. QED
    BY <2>3, <2>4, <2>5 DEF BranchOK
<1>6. BranchAgrees'
  BY <1>1, <1>5, OthersOK DEF BranchAgrees
<1>7. TripHasBranch'
  <2>. SUFFICES ASSUME parTripped' PROVE TripHasBranch'
    BY DEF TripHasBranch
  <2>1. CASE br'[b] = "budget"
    BY <2>1 DEF TripHasBranch
  <2>2. CASE br'[b] # "budget"
    <3>1. parTripped
      BY <1>0, <1>3, <2>2
    <3>2. PICK c \in Branches :
             \/ br[c] = "budget"
             \/ br[c] = "judging" /\ \E v \in Verifiers : ver[c][v] = "budget"
      BY <3>1 DEF ParInv, TripHasBranch
    <3>3. c # b
      BY <1>1, <1>3, <2>2, <3>2 DEF BranchEnds
    <3>. QED
      BY <1>1, <3>2, <3>3 DEF TripHasBranch
  <2>. QED
    BY <2>1, <2>2
<1>. QED
  BY <1>2, <1>4, <1>6, <1>7

LEMMA VerifierStepInv ==
    ASSUME ParInv, NEW b \in Branches, NEW v \in Verifiers,
           VerifierAcquire(b, v) \/ VerifierAnswer(b, v)
    PROVE  ParTypeOK' /\ BranchAgrees' /\ TripHasBranch' /\ RetAgrees'
<1>. DEFINE States == Verdicts \cup {"none", "queued", "calling"}
<1>0. /\ br \in [Branches -> BranchEnds \cup {"queued", "value", "judging"}]
      /\ ver \in [Branches -> [Verifiers -> States]]
      /\ parTripped \in BOOLEAN /\ BranchOK(b)
      /\ ver[b] \in [Verifiers -> States]
  BY DEF ParInv, BranchAgrees, ParTypeOK
<1>1. /\ br' = br /\ parRet' = parRet
      /\ ver[b][v] \in {"queued", "calling"}
      /\ ver' = [ver EXCEPT ![b][v] = ver'[b][v]]
      /\ ver'[b][v] \in Verdicts \cup {"calling"}
      /\ parTripped' \in BOOLEAN
      /\ parTripped' => parTripped \/ ver'[b][v] = "budget"
  <2>1. ASSUME NEW x, VerifierIs(b, v, x)
        PROVE  ver'[b][v] = x /\ ver' = [ver EXCEPT ![b][v] = ver'[b][v]]
    BY <1>0, <2>1 DEF VerifierIs
  <2>2. CASE VerifierAcquire(b, v)
    BY <1>0, <2>1, <2>2 DEF VerifierAcquire, Verdicts
  <2>3. CASE VerifierAnswer(b, v)
    BY <1>0, <2>1, <2>3 DEF VerifierAnswer
  <2>. QED
    BY <2>2, <2>3
<1>2. br[b] = "judging"
  BY <1>0, <1>1 DEF BranchOK
<1>3. RetAgrees'
  <2>1. parRet = "none"
    BY <1>2 DEF ParInv, RetAgrees, AllEnded, BranchEnds
  <2>. QED
    BY <1>1, <2>1 DEF RetAgrees
<1>4. ver' \in [Branches -> [Verifiers -> States]]
  BY <1>0, <1>1
<1>5. ParTypeOK'
  BY <1>0, <1>1, <1>4 DEF ParInv, ParTypeOK
<1>6. \A c \in Branches : c # b => ver'[c] = ver[c]
  BY <1>0, <1>1
<1>7. BranchOK(b)'
  BY <1>1, <1>2 DEF BranchOK, BranchEnds
<1>8. BranchAgrees'
  BY <1>1, <1>6, <1>7, OthersOK DEF BranchAgrees
<1>9. TripHasBranch'
  <2>. SUFFICES ASSUME parTripped' PROVE TripHasBranch'
    BY DEF TripHasBranch
  <2>1. CASE ver'[b][v] = "budget"
    BY <1>1, <1>2, <2>1 DEF TripHasBranch
  <2>2. CASE ver'[b][v] # "budget"
    <3>1. PICK c \in Branches :
             \/ br[c] = "budget"
             \/ br[c] = "judging" /\ \E w \in Verifiers : ver[c][w] = "budget"
      BY <1>1, <2>2 DEF ParInv, TripHasBranch
    <3>2. \A w \in Verifiers : ver[c][w] = "budget" => ver'[c][w] = "budget"
      BY <1>0, <1>1
    <3>. QED
      BY <1>1, <3>1, <3>2 DEF TripHasBranch
  <2>. QED
    BY <2>1, <2>2
<1>. QED
  BY <1>3, <1>5, <1>8, <1>9

LEMMA JoinInv ==
    ASSUME ParInv, Join
    PROVE  ParTypeOK' /\ BranchAgrees' /\ TripHasBranch' /\ RetAgrees'
<1>1. UNCHANGED <<br, ver, parTripped>> /\ AllEnded
  BY DEF Join
<1>2. BranchAgrees'
  BY <1>1, OthersOK DEF BranchAgrees
<1>3. ParTypeOK' /\ TripHasBranch' /\ AllEnded'
  BY <1>1 DEF ParInv, ParTypeOK, TripHasBranch, AllEnded, Join
<1>4. parTripped => parRet' = "budget"
  BY <1>1 DEF ParInv, TripHasBranch, AllEnded, Join, BranchEnds
<1>5. parRet' = "ok" => \A b \in Branches : br[b] = "ok"
  BY DEF Join
<1>. QED
  BY <1>1, <1>2, <1>3, <1>4, <1>5 DEF RetAgrees

-----------------------------------------------------------------------------
(* The slots.                                                              *)
LEMMA Finite ==
    /\ \A S \in SUBSET Branches : IsFiniteSet(S) /\ Cardinality(S) \in Nat
    /\ \A T \in SUBSET (Branches \X Verifiers) :
          IsFiniteSet(T) /\ Cardinality(T) \in Nat
<1>1. IsFiniteSet(Branches \X Verifiers)
  BY MissionAssumption, FS_Product
<1>. QED
  BY <1>1, MissionAssumption, FS_Subset, FS_CardinalityType

LEMMA SlotStep ==
    ASSUME ParInv, ParTypeOK', ParNext
    PROVE  SlotsBounded'
<1>0. /\ SlotHolders \in SUBSET Branches /\ SlotHolders' \in SUBSET Branches
      /\ Calling \in SUBSET (Branches \X Verifiers)
      /\ Calling' \in SUBSET (Branches \X Verifiers)
  BY DEF SlotHolders, Calling
<1>1. /\ Cardinality(SlotHolders) \in Nat /\ Cardinality(SlotHolders') \in Nat
      /\ Cardinality(Calling) \in Nat /\ Cardinality(Calling') \in Nat
      /\ IsFiniteSet(SlotHolders) /\ IsFiniteSet(Calling)
      /\ Slots \in Nat
  BY <1>0, Finite, MissionAssumption
<1>2. CASE SlotHolders' \subseteq SlotHolders /\ Calling' \subseteq Calling
  <2>1. /\ Cardinality(SlotHolders') <= Cardinality(SlotHolders)
        /\ Cardinality(Calling') <= Cardinality(Calling)
    BY <1>1, <1>2, FS_Subset
  <2>. QED
    BY <1>1, <2>1 DEF ParInv, SlotsBounded
<1>3. ASSUME FreeSlot, NEW b \in Branches,
             SlotHolders' \subseteq SlotHolders \cup {b}, Calling' \subseteq Calling
      PROVE  SlotsBounded'
  <2>1. /\ IsFiniteSet(SlotHolders \cup {b})
        /\ \/ Cardinality(SlotHolders \cup {b}) = Cardinality(SlotHolders) + 1
           \/ Cardinality(SlotHolders \cup {b}) = Cardinality(SlotHolders)
    BY <1>1, FS_AddElement
  <2>2. /\ Cardinality(SlotHolders') <= Cardinality(SlotHolders \cup {b})
        /\ Cardinality(Calling') <= Cardinality(Calling)
    BY <1>1, <1>3, <2>1, FS_Subset
  <2>. QED
    BY <1>1, <1>3, <2>1, <2>2 DEF FreeSlot, SlotsBounded
<1>4. ASSUME FreeSlot, NEW p \in Branches \X Verifiers,
             SlotHolders' \subseteq SlotHolders, Calling' \subseteq Calling \cup {p}
      PROVE  SlotsBounded'
  <2>1. /\ IsFiniteSet(Calling \cup {p})
        /\ \/ Cardinality(Calling \cup {p}) = Cardinality(Calling) + 1
           \/ Cardinality(Calling \cup {p}) = Cardinality(Calling)
    BY <1>1, FS_AddElement
  <2>2. /\ Cardinality(Calling') <= Cardinality(Calling \cup {p})
        /\ Cardinality(SlotHolders') <= Cardinality(SlotHolders)
    BY <1>1, <1>4, <2>1, FS_Subset
  <2>. QED
    BY <1>1, <1>4, <2>1, <2>2 DEF FreeSlot, SlotsBounded
<1>. USE DEF ParInv, ParTypeOK, BranchAgrees, SlotHolders, Calling, BranchIs,
             VerifierIs, Judge, BranchEnds, Verdicts
<1>5. CASE Join
  BY <1>2, <1>5 DEF Join
<1>6. ASSUME NEW b \in Branches, BranchAcquire(b)
      PROVE  SlotsBounded'
  BY <1>3, <1>6 DEF BranchAcquire
<1>7. ASSUME NEW b \in Branches, ValueAnswer(b) \/ Tally(b)
      PROVE  SlotsBounded'
  BY <1>2, <1>7 DEF ValueAnswer, Tally
<1>8. ASSUME NEW b \in Branches, NEW v \in Verifiers, VerifierAcquire(b, v)
      PROVE  SlotsBounded'
  <2>1. FreeSlot /\ SlotHolders' = SlotHolders
    BY <1>8 DEF VerifierAcquire
  <2>2. \A p \in Branches \X Verifiers :
           p # <<b, v>> => ver'[p[1]][p[2]] = ver[p[1]][p[2]]
    BY <1>8 DEF VerifierAcquire
  <2>3. Calling' \subseteq Calling \cup {<<b, v>>}
    BY <2>2
  <2>. QED
    <3>1. <<b, v>> \in Branches \X Verifiers
      OBVIOUS
    <3>. HIDE DEF ParInv, ParTypeOK, BranchAgrees, SlotHolders, Calling, BranchIs,
                  VerifierIs, Judge, BranchEnds, Verdicts
    <3>. QED
      BY <1>4, <2>1, <2>3, <3>1
<1>9. ASSUME NEW b \in Branches, NEW v \in Verifiers, VerifierAnswer(b, v)
      PROVE  SlotsBounded'
  <2>1. SlotHolders' = SlotHolders
    BY <1>9 DEF VerifierAnswer
  <2>2. \A p \in Branches \X Verifiers :
           ver'[p[1]][p[2]] = ver[p[1]][p[2]] \/ ver'[p[1]][p[2]] # "calling"
    BY <1>9 DEF VerifierAnswer
  <2>. QED
    BY <1>2, <2>1, <2>2
<1>. QED
  BY <1>5, <1>6, <1>7, <1>8, <1>9 DEF ParNext

(* The invariant of a par.                                                 *)
THEOREM ParInvariant == ParSpec => []ParInv
<1>1. ParInit => ParInv
  <2>. SUFFICES ASSUME ParInit PROVE ParInv
    OBVIOUS
  <2>1. SlotHolders = {} /\ Calling = {}
    BY DEF ParInit, SlotHolders, Calling
  <2>2. SlotsBounded
    BY <2>1, FS_EmptySet, MissionAssumption DEF SlotsBounded
  <2>. QED
    BY <2>2 DEF ParInit, ParInv, ParTypeOK, BranchAgrees, BranchOK, TripHasBranch,
                RetAgrees, BranchEnds
<1>2. ParInv /\ [ParNext]_parVars => ParInv'
  <2>. SUFFICES ASSUME ParInv, [ParNext]_parVars PROVE ParInv'
    OBVIOUS
  <2>1. CASE ParNext
    <3>1. ParTypeOK' /\ BranchAgrees' /\ TripHasBranch' /\ RetAgrees'
      BY <2>1, BranchStepInv, VerifierStepInv, JoinInv DEF ParNext
    <3>. QED
      BY <2>1, <3>1, SlotStep DEF ParInv
  <2>2. CASE UNCHANGED parVars
    <3>1. BranchAgrees'
      BY <2>2, OthersOK DEF parVars, BranchAgrees
    <3>2. ParTypeOK' /\ TripHasBranch' /\ RetAgrees'
      BY <2>2 DEF parVars, ParInv, ParTypeOK, TripHasBranch, RetAgrees, AllEnded
    <3>3. SlotsBounded'
      BY <2>2 DEF parVars, ParInv, SlotsBounded, SlotHolders, Calling
    <3>. QED
      BY <3>1, <3>2, <3>3 DEF ParInv
  <2>. QED
    BY <2>1, <2>2
<1>. QED
  BY <1>1, <1>2, PTL DEF ParSpec

(* Every variable of a par keeps its type.                                 *)
THEOREM ParTyped == ParSpec => []ParTypeOK
  BY ParInvariant, PTL DEF ParInv

(* The semaphore bounds branches and verifiers together.                   *)
THEOREM ParSlotsBounded == ParSpec => []SlotsBounded
  BY ParInvariant, PTL DEF ParInv

(* A value the par yields was let stand by K verifiers in every branch.    *)
THEOREM ParRefinementEarned == ParSpec => []RefinementEarned
<1>1. ParInv => RefinementEarned
  BY DEF ParInv, BranchAgrees, BranchOK, RetAgrees, RefinementEarned
<1>. QED
  BY <1>1, ParInvariant, PTL

(* A parTripped budget is what the par fails with.                            *)
THEOREM ParBudgetOutranks == ParSpec => []BudgetOutranks
<1>1. ParInv => BudgetOutranks
  BY DEF ParInv, RetAgrees, BudgetOutranks
<1>. QED
  BY <1>1, ParInvariant, PTL

(* A par whose goroutines all wait has a judging branch in every slot.     *)
THEOREM ParOnlyJudgesWedge == ParSpec => []OnlyJudgesWedge
<1>1. ParInv => OnlyJudgesWedge
  <2>. SUFFICES ASSUME ParInv, ~Moves
       PROVE  Cardinality({b \in Branches : br[b] = "judging"}) = Slots
    BY DEF OnlyJudgesWedge
  <2>1. SlotHolders = {b \in Branches : br[b] = "judging"}
    BY DEF SlotHolders, Moves
  <2>2. Calling = {} /\ ~FreeSlot
    BY DEF Moves
  <2>3. Cardinality(Calling) = 0
    BY <2>2, FS_EmptySet
  <2>4. SlotHolders \in SUBSET Branches
    BY DEF SlotHolders
  <2>5. Cardinality(SlotHolders) \in Nat /\ Slots \in Nat
    BY <2>4, Finite, MissionAssumption
  <2>. QED
    BY <2>1, <2>2, <2>3, <2>5 DEF FreeSlot, ParInv, SlotsBounded
<1>. QED
  BY <1>1, ParInvariant, PTL
=============================================================================
