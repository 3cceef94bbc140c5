---------------------------- MODULE ProviderProofs ----------------------------
(***************************************************************************)
(* What holds of a provider call for every number of calls, every cap and  *)
(* every usage.                                                            *)
(***************************************************************************)
EXTENDS MCProvider, FiniteSetTheorems, SequenceTheorems, WellFoundedInduction, TLAPS

(* The calls the caps are about; of them, those that were admitted and not *)
(* yet returned, and those whose line may still be written or given up.    *)
Guarded == RunCalls \cup VisionCalls
InFlight == {c \in Guarded : pc[c] = "calling" /\ Counted(c)}
Owing == {c \in Guarded : pc[c] = "cut" \/ (pc[c] = "paid" /\ Counted(c))}

(* The tokens of the calls of S, counted one by one.                       *)
Tokens(S, f) == Cardinality({x \in S \X (1..MaxUse) : x[2] <= f[x[1]].tok})

(* The current windows miss no more than what is owed, of windows to come  *)
(* nothing is known, and a call in flight has left room for itself.        *)
NowCovered == \A w \in Windows(today) : spent[w] <= booked[w] + Tokens(Owing, used)
FutureEmpty ==
    \A w \in AllWindows :
        (\A d \in 0..today : w \notin Windows(d)) => booked[w] = 0 /\ spent[w] = 0
RoomKept ==
    \A w \in AllWindows : CapOf(w) > 0 =>
        spent[w] <= CapOf(w) - 1
                    + MaxUse * (IF w \in Windows(today)
                                THEN Cardinality(Guarded) - Cardinality(InFlight)
                                ELSE Cardinality(Guarded))

CutIsDead == \A c \in Calls : pc[c] = "cut" => caps[ProcOf(c)] = "dead"

SpendInv == SpendTypeOK /\ NowCovered /\ FutureEmpty /\ RoomKept /\ CutIsDead

-----------------------------------------------------------------------------
(* Numbers and sets.                                                       *)
LEMMA Product ==
    ASSUME NEW k \in Nat, NEW i \in Int, NEW j \in Int
    PROVE  /\ k * i \in Int
           /\ j >= i => k * j >= k * i
           /\ j >= i + 1 => k * j >= k * i + k
<1>1. k * (j - i) = k * j - k * i /\ k * (j - i - 1) = k * j - k * i - k
  BY SMT
<1>2. ASSUME NEW n \in Nat PROVE k * n >= 0
  BY SMT
<1>3. j >= i => k * (j - i) >= 0
  BY <1>2
<1>4. j >= i + 1 => k * (j - i - 1) >= 0
  BY <1>2
<1>5. k * j \in Int /\ k * i \in Int
  BY SMT
<1>. QED
  BY <1>1, <1>3, <1>4, <1>5

LEMMA RowOf ==
    ASSUME NEW n \in Nat, NEW x
    PROVE  IsFiniteSet({x} \X (1..n)) /\ Cardinality({x} \X (1..n)) = n
<1>1. IsFiniteSet(1..n) /\ Cardinality(1..n) = n
  BY FS_Interval
<1>2. IsFiniteSet({x}) /\ Cardinality({x}) = 1
  BY FS_Singleton
<1>3. /\ IsFiniteSet({x} \X (1..n))
      /\ Cardinality({x} \X (1..n)) = Cardinality({x}) * Cardinality(1..n)
  BY <1>1, <1>2, FS_Product, Zenon
<1>. QED
  BY <1>1, <1>2, <1>3

LEMMA GuardedFinite ==
    ASSUME NEW S \in SUBSET Guarded
    PROVE  IsFiniteSet(S) /\ Cardinality(S) \in Nat /\ Cardinality(S) <= Cardinality(Guarded)
  BY SpendAssumption, FS_Subset, FS_CardinalityType DEF Guarded

LEMMA DisjointFit ==
    ASSUME NEW S \in SUBSET Guarded, NEW T \in SUBSET Guarded, S \cap T = {}
    PROVE  Cardinality(S) + Cardinality(T) <= Cardinality(Guarded)
<1>1. S \cup T \in SUBSET Guarded
  OBVIOUS
<1>2. Cardinality(S \cup T) = Cardinality(S) + Cardinality(T)
  <2>1. /\ IsFiniteSet(S) /\ Cardinality(S) \in Nat
        /\ IsFiniteSet(T) /\ Cardinality(T) \in Nat
    BY GuardedFinite
  <2>2. Cardinality(S \cap T) = 0
    BY FS_EmptySet
  <2>3. Cardinality(S \cup T) = Cardinality(S) + Cardinality(T) - Cardinality(S \cap T)
    BY <2>1, FS_Union
  <2>. QED
    BY <2>1, <2>2, <2>3
<1>. QED
  BY <1>1, <1>2, GuardedFinite

(* Cells of the table that Tokens counts.                                  *)
LEMMA CellsFinite ==
    ASSUME NEW S \in SUBSET Guarded, NEW f
    PROVE  /\ IsFiniteSet({x \in S \X (1..MaxUse) : x[2] <= f[x[1]].tok})
           /\ Tokens(S, f) \in Nat
           /\ Tokens(S, f) <= MaxUse * Cardinality(S)
<1>. DEFINE cells == {x \in S \X (1..MaxUse) : x[2] <= f[x[1]].tok}
<1>1. IsFiniteSet(1..MaxUse) /\ Cardinality(1..MaxUse) = MaxUse
  BY SpendAssumption, FS_Interval
<1>2. IsFiniteSet(S \X (1..MaxUse))
      /\ Cardinality(S \X (1..MaxUse)) = Cardinality(S) * MaxUse
  BY <1>1, GuardedFinite, FS_Product
<1>3. cells \in SUBSET (S \X (1..MaxUse))
  OBVIOUS
<1>4. IsFiniteSet(cells) /\ Cardinality(cells) <= Cardinality(S \X (1..MaxUse))
  BY <1>2, <1>3, FS_Subset
<1>5. Cardinality(cells) \in Nat
  BY <1>4, FS_CardinalityType
<1>6. Cardinality(S) \in Nat /\ MaxUse \in Nat
  BY GuardedFinite, SpendAssumption
<1>7. Cardinality(S) * MaxUse = MaxUse * Cardinality(S)
  BY <1>6
<1>. QED
  BY <1>2, <1>4, <1>5, <1>7 DEF Tokens

LEMMA SameTokens ==
    ASSUME NEW S \in SUBSET Guarded, NEW f, NEW g, \A c \in S : f[c] = g[c]
    PROVE  Tokens(S, f) = Tokens(S, g)
<1>1. {x \in S \X (1..MaxUse) : x[2] <= f[x[1]].tok}
        = {x \in S \X (1..MaxUse) : x[2] <= g[x[1]].tok}
  OBVIOUS
<1>. QED
  BY <1>1 DEF Tokens

LEMMA TokensAdd ==
    ASSUME NEW S \in SUBSET Guarded, NEW c \in Guarded, c \notin S, NEW f,
           f[c].tok \in 0..MaxUse
    PROVE  Tokens(S \cup {c}, f) = Tokens(S, f) + f[c].tok
<1>. DEFINE cells(T) == {x \in T \X (1..MaxUse) : x[2] <= f[x[1]].tok}
            row == {c} \X (1..(f[c].tok))
<1>1. cells(S \cup {c}) = cells(S) \cup row
  BY SpendAssumption
<1>2. cells(S) \cap row = {}
  OBVIOUS
<1>3. IsFiniteSet(row) /\ Cardinality(row) = f[c].tok
  <2>1. f[c].tok \in Nat
    BY SpendAssumption
  <2>. QED
    BY <2>1, RowOf
<1>4. IsFiniteSet(cells(S)) /\ Cardinality(cells(S)) \in Nat
  BY CellsFinite, FS_CardinalityType
<1>. HIDE DEF cells, row
<1>5. Cardinality(cells(S) \cup row) = Cardinality(cells(S)) + Cardinality(row)
  <2>1. Cardinality(cells(S) \cap row) = 0
    BY <1>2, FS_EmptySet
  <2>2. Cardinality(cells(S) \cup row)
          = Cardinality(cells(S)) + Cardinality(row) - Cardinality(cells(S) \cap row)
    BY <1>3, <1>4, FS_Union
  <2>3. f[c].tok \in Int
    BY SpendAssumption
  <2>. QED
    BY <1>3, <1>4, <2>1, <2>2, <2>3
<1>. QED
  BY <1>1, <1>3, <1>5 DEF Tokens, cells

-----------------------------------------------------------------------------
(* Types.                                                                  *)
LEMMA SpendTypedInit == Init => SpendTypeOK
<1>. SUFFICES ASSUME Init PROVE SpendTypeOK
  OBVIOUS
<1>1. BudgetTypeOK
  BY DEF Init, BudgetInit, BudgetTypeOK, NoTrip
<1>2. 0 \in 0..MaxRetries /\ 0 \in Days
  BY SpendAssumption DEF Days
<1>3. caps \in [Procs -> {"set", "none", "dead"}]
  BY DEF Init
<1>4. /\ pc \in [Calls -> {"idle", "checked", "calling", "paid", "charging", "deciding", "cut", "done"}]
      /\ used \in [Calls -> Usages \cup {NoUse}]
      /\ attempt \in [Calls -> 0..MaxRetries]
  BY <1>2 DEF Init
<1>5. today \in Days /\ torn \in BOOLEAN /\ unread \in SUBSET Calls
  BY <1>2 DEF Init
<1>6. booked \in [AllWindows -> Nat] /\ spent \in [AllWindows -> Int]
  BY DEF Init
<1>. QED
  BY <1>1, <1>3, <1>4, <1>5, <1>6 DEF SpendTypeOK

LEMMA ChargeTyped ==
    ASSUME BudgetTypeOK, NEW u \in Usages \cup {NoUse}, AddOutcome(u)
    PROVE  BudgetTypeOK'
<1>1. u.tok \in Nat /\ u.usd \in Nat
  BY SpendAssumption DEF NoUse
<1>2. tokens' \in Nat /\ usdCents' \in Nat
  BY <1>1 DEF AddOutcome, BudgetTypeOK
<1>3. FirstExceeded(u) \in CapKinds
  BY DEF FirstExceeded, CapKinds
<1>4. tripped' \in CapKinds \cup {NoTrip}
  BY <1>3 DEF AddOutcome, BudgetTypeOK
<1>5. warned80T' \in BOOLEAN /\ warned80U' \in BOOLEAN
  BY Zenon DEF AddOutcome, BudgetTypeOK, WarnsTokens, WarnsUSD, InWarnBand
<1>. QED
  BY <1>2, <1>4, <1>5 DEF BudgetTypeOK

LEMMA TodayTyped ==
    ASSUME SpendTypeOK, NEW n \in Nat
    PROVE  /\ Today(booked, n) \in [AllWindows -> Nat]
           /\ Today(spent, n) \in [AllWindows -> Int]
           /\ Today(spent, -n) \in [AllWindows -> Int]
  BY DEF Today, SpendTypeOK

LEMMA UseTyped ==
    ASSUME SpendTypeOK, NEW c \in Calls
    PROVE  used[c] \in Usages \cup {NoUse} /\ used[c].tok \in 0..MaxUse
<1>1. used[c] \in Usages \cup {NoUse}
  BY DEF SpendTypeOK
<1>. QED
  BY <1>1, SpendAssumption DEF NoUse

LEMMA LosingTyped ==
    ASSUME SpendTypeOK, NEW c, NEW n \in Int, n \in Nat \/ -n \in Nat, Losing(c, n)
    PROVE  spent' \in [AllWindows -> Int]
<1>1. Today(spent, -n) \in [AllWindows -> Int]
  BY DEF Today, SpendTypeOK
<1>. QED
  BY <1>1 DEF Losing, SpendTypeOK

LEMMA CallStepTyped ==
    ASSUME SpendTypeOK, NEW c \in Calls,
           Enter(c) \/ BeforeCall(c) \/ RunHeadless(c) \/ ChargeBudget(c) \/ Decide(c)
    PROVE  SpendTypeOK'
<1>. USE DEF SpendTypeOK, budgetVars, ledger, Go, Leave
<1>1. CASE Enter(c)
  BY <1>1 DEF Enter, BudgetTypeOK
<1>2. CASE BeforeCall(c)
  BY <1>2, SpendAssumption DEF BeforeCall, BudgetTypeOK
<1>3. CASE RunHeadless(c)
  <2>1. PICK u \in Usages \cup {NoUse} :
          /\ used' = [used EXCEPT ![c] = u]
          /\ Go(c, IF u # NoUse THEN "paid" ELSE AfterRecord(c))
          /\ Losing(c, -u.tok)
    BY <1>3 DEF RunHeadless
  <2>2. u.tok \in Nat
    BY SpendAssumption DEF NoUse
  <2>3. spent' \in [AllWindows -> Int]
    <3>1. -u.tok \in Int /\ -(-u.tok) \in Nat
      BY <2>2
    <3>. QED
      BY <2>1, <3>1, LosingTyped
  <2>. QED
    BY <1>3, <2>1, <2>3 DEF RunHeadless, BudgetTypeOK, AfterRecord
<1>4. CASE ChargeBudget(c)
  <2>1. BudgetTypeOK'
    BY <1>4, UseTyped, ChargeTyped DEF ChargeBudget
  <2>. QED
    BY <1>4, <2>1, SpendAssumption DEF ChargeBudget
<1>5. CASE Decide(c)
  BY <1>5, SpendAssumption DEF Decide, BudgetTypeOK
<1>. QED
  BY <1>1, <1>2, <1>3, <1>4, <1>5

LEMMA LedgerStepTyped ==
    ASSUME SpendTypeOK,
           \/ \E c \in Calls : AfterCall(c) \/ Forget(c)
           \/ \E p \in Procs : Kill(p)
           \/ Midnight
    PROVE  SpendTypeOK'
<1>. USE DEF SpendTypeOK, budgetVars, ledger, Go, Leave
<1>1. ASSUME NEW c \in Calls, AfterCall(c) PROVE SpendTypeOK'
  <2>1. used[c].tok \in Nat
    BY UseTyped, SpendAssumption
  <2>2. /\ booked' \in [AllWindows -> Nat]
        /\ spent' \in [AllWindows -> Int]
        /\ torn' \in BOOLEAN
    <3>1. CASE ~torn /\ booked' = Today(booked, used[c].tok) /\ UNCHANGED <<torn, spent>>
      BY <2>1, <3>1, TodayTyped
    <3>2. ASSUME Losing(c, used[c].tok), UNCHANGED booked, torn' \in {torn, TRUE, FALSE}
          PROVE  /\ booked' \in [AllWindows -> Nat]
                 /\ spent' \in [AllWindows -> Int]
                 /\ torn' \in BOOLEAN
      <4>1. spent' \in [AllWindows -> Int]
        BY <2>1, <3>2, LosingTyped
      <4>. QED
        BY <3>2, <4>1
    <3>. QED
      BY <1>1, <3>1, <3>2 DEF AfterCall, Record
  <2>. QED
    BY <1>1, <2>2 DEF AfterCall, AfterRecord, BudgetTypeOK
<1>2. ASSUME NEW c \in Calls, Forget(c) PROVE SpendTypeOK'
  <2>1. Today(spent, -used[c].tok) \in [AllWindows -> Int]
    BY UseTyped, TodayTyped, SpendAssumption
  <2>. QED
    BY <1>2, <2>1, SpendAssumption DEF Forget, BudgetTypeOK
<1>3. ASSUME NEW p \in Procs, Kill(p) PROVE SpendTypeOK'
  <2>1. torn' \in BOOLEAN
    BY <1>3, Zenon DEF Kill
  <2>. QED
    BY <1>3, <2>1, SpendAssumption DEF Kill, BudgetTypeOK
<1>4. CASE Midnight
  BY <1>4, SpendAssumption DEF Midnight, BudgetTypeOK, Days
<1>. QED
  BY <1>1, <1>2, <1>3, <1>4

LEMMA SpendTypedStep == SpendTypeOK /\ [Next]_vars => SpendTypeOK'
<1>1. ASSUME SpendTypeOK, UNCHANGED vars PROVE SpendTypeOK'
  BY <1>1 DEF vars, budgetVars, ledger, SpendTypeOK, BudgetTypeOK
<1>. QED
  BY <1>1, CallStepTyped, LedgerStepTyped DEF Next

-----------------------------------------------------------------------------
(* The ledger.                                                             *)
LEMMA WindowsTyped ==
    /\ SpendTypeOK => Windows(today) \subseteq AllWindows
    /\ \A w \in AllWindows : CapOf(w) \in Nat
  BY SpendAssumption DEF SpendTypeOK, AllWindows, CapOf

LEMMA CountsTyped ==
    /\ InFlight \in SUBSET Guarded /\ Owing \in SUBSET Guarded
    /\ Cardinality(InFlight) \in 0..Cardinality(Guarded)
    /\ Cardinality(Owing) \in 0..Cardinality(Guarded)
    /\ Cardinality(Guarded) \in Nat
    /\ Tokens(Owing, used) \in Nat
    /\ Tokens(Owing, used) <= MaxUse * Cardinality(Owing)
<1>1. InFlight \in SUBSET Guarded /\ Owing \in SUBSET Guarded
  BY DEF InFlight, Owing
<1>2. Cardinality(Guarded) \in Nat
  BY GuardedFinite
<1>3. /\ Cardinality(InFlight) \in 0..Cardinality(Guarded)
      /\ Cardinality(Owing) \in 0..Cardinality(Guarded)
  BY <1>1, <1>2, GuardedFinite
<1>4. /\ Tokens(Owing, used) \in Nat
      /\ Tokens(Owing, used) <= MaxUse * Cardinality(Owing)
  BY <1>1, CellsFinite
<1>. QED
  BY <1>1, <1>2, <1>3, <1>4

(* Whatever leaves the table of what is owed goes to the ledger, or is     *)
(* given up, and nobody takes off.                                         *)
LEMMA Settles ==
    ASSUME SpendInv, SpendTypeOK', CutIsDead', NEW m \in Nat, NEW n \in Nat, today' = today,
           booked' = Today(booked, m), spent' = Today(spent, -n), InFlight' \subseteq InFlight,
           Tokens(Owing, used) <= Tokens(Owing, used)' + m + n
    PROVE  SpendInv'
<1>1. /\ Windows(today)' = Windows(today) /\ Windows(today) \subseteq AllWindows
      /\ AllWindows' = AllWindows
  BY WindowsTyped DEF SpendInv, Windows, AllWindows
<1>2. /\ booked \in [AllWindows -> Nat] /\ spent \in [AllWindows -> Int]
  BY DEF SpendInv, SpendTypeOK
<1>3. \A w \in Windows(today) : booked'[w] = booked[w] + m /\ spent'[w] = spent[w] - n
  BY <1>1, <1>2 DEF Today
<1>4. \A w \in AllWindows \ Windows(today) : booked'[w] = booked[w] /\ spent'[w] = spent[w]
  BY <1>1, <1>2 DEF Today
<1>5. Tokens(Owing, used) \in Nat /\ Tokens(Owing, used)' \in Nat
  <2>1. (Tokens(Owing, used) \in Nat)'
    BY CountsTyped, PTL
  <2>. QED
    BY <2>1, CountsTyped
<1>6. NowCovered'
  <2>. SUFFICES ASSUME NEW w \in Windows(today)
                PROVE  spent'[w] <= booked'[w] + Tokens(Owing, used)'
    BY <1>1 DEF NowCovered
  <2>1. spent[w] <= booked[w] + Tokens(Owing, used)
    BY DEF SpendInv, NowCovered
  <2>2. spent[w] \in Int /\ booked[w] \in Int
    BY <1>1, <1>2
  <2>. QED
    BY <1>3, <1>5, <2>1, <2>2
<1>7. FutureEmpty'
  <2>. SUFFICES ASSUME NEW w \in AllWindows, \A d \in 0..today : w \notin Windows(d)
                PROVE  booked'[w] = 0 /\ spent'[w] = 0
    BY <1>1 DEF FutureEmpty, Windows
  <2>1. w \notin Windows(today)
    BY DEF SpendInv, SpendTypeOK, Days
  <2>. QED
    BY <1>4, <2>1 DEF SpendInv, FutureEmpty
<1>8. RoomKept'
  <2>. DEFINE room(k) == Cardinality(Guarded) - k
  <2>. SUFFICES ASSUME NEW w \in AllWindows, CapOf(w) > 0
                PROVE  spent'[w] <= CapOf(w) - 1
                          + MaxUse * (IF w \in Windows(today)
                                      THEN room(Cardinality(InFlight'))
                                      ELSE Cardinality(Guarded))
    BY <1>1 DEF RoomKept, CapOf
  <2>1. spent[w] <= CapOf(w) - 1
                      + MaxUse * (IF w \in Windows(today) THEN room(Cardinality(InFlight))
                                  ELSE Cardinality(Guarded))
    BY DEF SpendInv, RoomKept
  <2>2. CASE w \in Windows(today)
    <3>1. Cardinality(InFlight') <= Cardinality(InFlight) /\ Cardinality(InFlight') \in Nat
      BY CountsTyped, GuardedFinite, FS_Subset
    <3>2. MaxUse * room(Cardinality(InFlight)) <= MaxUse * room(Cardinality(InFlight'))
          /\ MaxUse * room(Cardinality(InFlight)) \in Int
          /\ MaxUse * room(Cardinality(InFlight')) \in Int
      BY <3>1, CountsTyped, Product, SpendAssumption
    <3>3. spent[w] \in Int /\ CapOf(w) \in Nat
      BY <1>2, WindowsTyped
    <3>4. spent'[w] <= spent[w] /\ spent'[w] \in Int
      BY <1>3, <2>2, <3>3
    <3>. HIDE DEF room
    <3>. QED
      BY <2>1, <2>2, <3>2, <3>3, <3>4
  <2>3. CASE w \notin Windows(today)
    BY <1>4, <2>1, <2>3
  <2>. QED
    BY <2>2, <2>3
<1>. QED
  BY <1>6, <1>7, <1>8 DEF SpendInv

(* Nothing is written.                                                     *)
LEMMA Rests ==
    ASSUME SpendInv, SpendTypeOK', CutIsDead', UNCHANGED <<today, booked, spent>>,
           InFlight' \subseteq InFlight, Owing' = Owing,
           \A c \in Owing : used'[c] = used[c]
    PROVE  SpendInv'
<1>1. booked' = Today(booked, 0) /\ spent' = Today(spent, -0)
  BY DEF Today, SpendInv, SpendTypeOK
<1>2. Tokens(Owing, used)' = Tokens(Owing, used)
  BY CountsTyped, SameTokens DEF Tokens
<1>. QED
  BY <1>1, <1>2, CountsTyped, Settles

-----------------------------------------------------------------------------
(* One call.                                                               *)
LEMMA CountedIsGuarded == \A c \in Calls : Counted(c) => c \in Guarded
  BY DEF Counted, Capped, Calls, Guarded

LEMMA SpendInvInit == Init => SpendInv
<1>. SUFFICES ASSUME Init PROVE SpendInv
  OBVIOUS
<1>1. SpendTypeOK
  BY SpendTypedInit
<1>2. \A w \in AllWindows : booked[w] = 0 /\ spent[w] = 0
  BY DEF Init
<1>3. NowCovered
  BY <1>1, <1>2, CountsTyped, WindowsTyped DEF NowCovered
<1>4. FutureEmpty
  BY <1>2 DEF FutureEmpty
<1>5. RoomKept
  <2>. SUFFICES ASSUME NEW w \in AllWindows, CapOf(w) > 0, NEW k \in 0..Cardinality(Guarded)
                PROVE  spent[w] <= CapOf(w) - 1 + MaxUse * k
    BY CountsTyped DEF RoomKept
  <2>1. k \in Int /\ k >= 0
    BY CountsTyped
  <2>2. MaxUse * k \in Int /\ MaxUse * k >= MaxUse * 0 /\ MaxUse * 0 = 0
    BY <2>1, Product, SpendAssumption
  <2>3. CapOf(w) \in Nat
    BY WindowsTyped
  <2>. QED
    BY <1>2, <2>2, <2>3
<1>6. CutIsDead
  BY DEF Init, CutIsDead
<1>. QED
  BY <1>1, <1>3, <1>4, <1>5, <1>6 DEF SpendInv

(* Only a killed process has calls that are cut.                           *)
LEMMA CutStep ==
    ASSUME SpendTypeOK, CutIsDead, SpendTypeOK', [Next]_vars
    PROVE  CutIsDead'
<1>. USE DEF SpendTypeOK, CutIsDead
<1>1. ASSUME NEW p \in Procs, Kill(p) PROVE CutIsDead'
  BY <1>1 DEF Kill
<1>2. ASSUME NEW c \in Calls,
             \/ Enter(c) \/ BeforeCall(c) \/ RunHeadless(c) \/ AfterCall(c)
             \/ ChargeBudget(c) \/ Decide(c) \/ Forget(c)
      PROVE  caps' = caps /\ \A i \in Calls : pc'[i] = "cut" => pc[i] = "cut"
  BY <1>2 DEF Enter, BeforeCall, RunHeadless, AfterCall, ChargeBudget, Decide, Forget,
     Go, Leave, AfterRecord
<1>3. CASE Midnight
  BY <1>3 DEF Midnight
<1>4. CASE UNCHANGED vars
  BY <1>4 DEF vars
<1>. QED
  BY <1>1, <1>2, <1>3, <1>4 DEF Next

(* What a call does elsewhere than at its admission, its answer and its    *)
(* line.                                                                   *)
LEMMA QuietStep ==
    ASSUME SpendInv, SpendTypeOK', CutIsDead', NEW c \in Calls,
           Enter(c) \/ ChargeBudget(c) \/ Decide(c)
    PROVE  SpendInv'
<1>1. /\ UNCHANGED <<today, booked, spent, caps>>
      /\ \A i \in Calls \ {c} :
           pc'[i] = pc[i] /\ used'[i] = used[i] /\ (i \in unread' <=> i \in unread)
      /\ pc[c] \notin {"calling", "paid", "cut"} /\ pc'[c] \notin {"calling", "paid", "cut"}
  BY DEF Enter, ChargeBudget, Decide, Go, Leave, ledger, SpendInv, SpendTypeOK
<1>2. Guarded \subseteq Calls
  BY DEF Guarded, Calls
<1>3. InFlight' = InFlight /\ Owing' = Owing /\ c \notin Owing
  BY <1>1, <1>2 DEF InFlight, Owing, Counted, Capped
<1>. QED
  BY <1>1, <1>2, <1>3, CountsTyped, Rests

(* A call that a cap admits finds room: what the ledger misses is owed by  *)
(* others than those in flight.                                            *)
LEMMA AdmitStep ==
    ASSUME SpendInv, SpendTypeOK', CutIsDead', NEW c \in Calls, BeforeCall(c)
    PROVE  SpendInv'
<1>1. /\ UNCHANGED <<today, booked, spent, caps>>
      /\ \A i \in Calls \ {c} :
           pc'[i] = pc[i] /\ used'[i] = used[i] /\ (i \in unread' <=> i \in unread)
      /\ pc[c] = "checked" /\ pc'[c] \in {"calling", "done"}
      /\ pc'[c] = "calling" /\ c \notin unread' => Admits(c)
  BY DEF BeforeCall, Go, Leave, ledger, SpendInv, SpendTypeOK
<1>2. Guarded \subseteq Calls
  BY DEF Guarded, Calls
<1>3. Owing' = Owing /\ c \notin Owing
  BY <1>1, <1>2 DEF Owing, Counted, Capped
<1>4. CASE pc'[c] = "done" \/ ~Counted(c)'
  <2>1. InFlight' = InFlight
    BY <1>1, <1>2, <1>4 DEF InFlight, Counted, Capped
  <2>. QED
    BY <1>1, <1>2, <1>3, <2>1, CountsTyped, Rests
<1>5. CASE pc'[c] = "calling" /\ Counted(c)'
  <2>1. Tokens(Owing, used)' = Tokens(Owing, used)
    BY <1>1, <1>2, <1>3, CountsTyped, SameTokens DEF Tokens
  <2>2. InFlight' \in SUBSET Guarded /\ InFlight' \cap Owing = {}
    BY <1>1, <1>3 DEF InFlight, Owing
  <2>3. NowCovered' /\ FutureEmpty'
    BY <1>1, <2>1 DEF SpendInv, NowCovered, FutureEmpty, Windows, AllWindows
  <2>4. ASSUME NEW w \in Windows(today), CapOf(w) > 0
        PROVE  spent[w] <= CapOf(w) - 1 + MaxUse * (Cardinality(Guarded) - Cardinality(InFlight'))
    <3>1. w \in AllWindows
      BY WindowsTyped DEF SpendInv
    <3>2. spent[w] \in Int /\ booked[w] \in Int /\ CapOf(w) \in Int
      BY <3>1, WindowsTyped DEF SpendInv, SpendTypeOK
    <3>3. booked[w] < CapOf(w)
      BY <1>1, <1>5, <2>4, <3>2 DEF Admits, Exceeded, Reached, Counted, Capped
    <3>4. spent[w] <= booked[w] + Tokens(Owing, used)
      BY DEF SpendInv, NowCovered
    <3>5. Cardinality(Owing) + Cardinality(InFlight') <= Cardinality(Guarded)
          /\ Cardinality(InFlight') \in Nat
      BY <2>2, CountsTyped, DisjointFit, GuardedFinite
    <3>6. /\ MaxUse * (Cardinality(Guarded) - Cardinality(InFlight')) \in Int
          /\ MaxUse * Cardinality(Owing) \in Int
          /\ MaxUse * Cardinality(Owing) <= MaxUse * (Cardinality(Guarded) - Cardinality(InFlight'))
      <4>1. /\ Cardinality(Guarded) - Cardinality(InFlight') \in Int
            /\ Cardinality(Owing) \in Int
            /\ Cardinality(Guarded) - Cardinality(InFlight') >= Cardinality(Owing)
        BY <3>5, CountsTyped
      <4>. QED
        BY <4>1, Product, SpendAssumption
    <3>. QED
      BY <3>2, <3>3, <3>4, <3>6, CountsTyped
  <2>5. RoomKept'
    BY <1>1, <2>4 DEF SpendInv, RoomKept, Windows, AllWindows, CapOf
  <2>. QED
    BY <2>3, <2>5 DEF SpendInv
<1>. QED
  BY <1>1, <1>4, <1>5

(* An answer is paid for out of the room its call has kept.                *)
LEMMA AnswerStep ==
    ASSUME SpendInv, SpendTypeOK', CutIsDead', NEW c \in Calls, RunHeadless(c)
    PROVE  SpendInv'
<1>1. PICK u \in Usages \cup {NoUse} :
        /\ used' = [used EXCEPT ![c] = u]
        /\ pc' = [pc EXCEPT ![c] = IF u # NoUse THEN "paid" ELSE AfterRecord(c)]
        /\ Losing(c, -u.tok)
  BY DEF RunHeadless, Go
<1>2. u.tok \in 0..MaxUse /\ u.tok \in Nat /\ (u = NoUse => u.tok = 0)
  BY SpendAssumption DEF NoUse
<1>3. /\ UNCHANGED <<today, booked, caps, unread>> /\ pc[c] = "calling"
      /\ \A i \in Calls \ {c} :
           pc'[i] = pc[i] /\ used'[i] = used[i] /\ (i \in unread' <=> i \in unread)
      /\ used'[c] = u /\ pc'[c] = (IF u # NoUse THEN "paid" ELSE AfterRecord(c))
      /\ AfterRecord(c) \in {"charging", "deciding"}
  BY <1>1 DEF RunHeadless, SpendInv, SpendTypeOK, AfterRecord
<1>4. Guarded \subseteq Calls /\ c \notin Owing
  BY <1>3 DEF Guarded, Calls, Owing
<1>5. CASE ~Counted(c)
  <2>1. spent' = spent
    BY <1>1, <1>5 DEF Losing
  <2>2. InFlight' = InFlight /\ Owing' = Owing
    BY <1>3, <1>4, <1>5 DEF InFlight, Owing, Counted, Capped
  <2>. QED
    BY <1>3, <1>4, <2>1, <2>2, CountsTyped, Rests
<1>6. CASE Counted(c)
  <2>1. c \in Guarded /\ c \in InFlight
    BY <1>3, <1>6, CountedIsGuarded DEF InFlight
  <2>2. spent' = Today(spent, u.tok)
    BY <1>1, <1>2, <1>6 DEF Losing
  <2>3. InFlight' = InFlight \ {c}
    BY <1>3, <1>4, <2>1 DEF InFlight, Counted, Capped
  <2>4. Cardinality(InFlight') = Cardinality(InFlight) - 1
    BY <2>1, <2>3, CountsTyped, GuardedFinite, FS_RemoveElement
  <2>5. Tokens(Owing, used') = Tokens(Owing, used)
    BY <1>3, <1>4, CountsTyped, SameTokens
  <2>6. Tokens(Owing, used)' = Tokens(Owing, used) + u.tok
    <3>1. CASE u = NoUse
      <4>1. Owing' = Owing
        BY <1>3, <1>4, <3>1 DEF Owing, Counted, Capped
      <4>2. Tokens(Owing, used)' = Tokens(Owing, used')
        BY <4>1 DEF Tokens
      <4>. QED
        BY <1>2, <2>5, <3>1, <4>2, CountsTyped
    <3>2. CASE u # NoUse
      <4>1. Owing' = Owing \cup {c}
        BY <1>3, <1>4, <1>6, <2>1, <3>2 DEF Owing, Counted, Capped
      <4>2. Tokens(Owing, used)' = Tokens(Owing \cup {c}, used')
        BY <4>1 DEF Tokens
      <4>. QED
        BY <1>2, <1>3, <1>4, <2>1, <2>5, <4>2, CountsTyped, TokensAdd
    <3>. QED
      BY <3>1, <3>2
  <2>7. /\ Windows(today)' = Windows(today) /\ Windows(today) \subseteq AllWindows
        /\ AllWindows' = AllWindows
        /\ booked \in [AllWindows -> Nat] /\ spent \in [AllWindows -> Int]
    BY <1>3, WindowsTyped DEF SpendInv, SpendTypeOK, Windows, AllWindows
  <2>8. \A w \in AllWindows :
          spent'[w] = IF w \in Windows(today) THEN spent[w] + u.tok ELSE spent[w]
    BY <2>2, <2>7 DEF Today
  <2>9. NowCovered'
    <3>. SUFFICES ASSUME NEW w \in Windows(today)
                  PROVE  spent'[w] <= booked[w] + Tokens(Owing, used)'
      BY <1>3, <2>7 DEF NowCovered
    <3>1. spent[w] <= booked[w] + Tokens(Owing, used)
      BY DEF SpendInv, NowCovered
    <3>2. spent[w] \in Int /\ booked[w] \in Int /\ spent'[w] = spent[w] + u.tok
      BY <2>7, <2>8
    <3>. QED
      BY <1>2, <2>6, <3>1, <3>2, CountsTyped
  <2>10. FutureEmpty'
    <3>. SUFFICES ASSUME NEW w \in AllWindows, \A d \in 0..today : w \notin Windows(d)
                  PROVE  booked[w] = 0 /\ spent'[w] = 0
      BY <1>3, <2>7 DEF FutureEmpty, Windows
    <3>1. w \notin Windows(today)
      BY DEF SpendInv, SpendTypeOK, Days
    <3>. QED
      BY <2>8, <3>1 DEF SpendInv, FutureEmpty
  <2>11. RoomKept'
    <3>. SUFFICES ASSUME NEW w \in AllWindows, CapOf(w) > 0
                  PROVE  spent'[w] <= CapOf(w) - 1
                            + MaxUse * (IF w \in Windows(today)
                                        THEN Cardinality(Guarded) - Cardinality(InFlight')
                                        ELSE Cardinality(Guarded))
      BY <2>7 DEF RoomKept, CapOf
    <3>1. spent[w] <= CapOf(w) - 1
                        + MaxUse * (IF w \in Windows(today)
                                    THEN Cardinality(Guarded) - Cardinality(InFlight)
                                    ELSE Cardinality(Guarded))
      BY DEF SpendInv, RoomKept
    <3>2. CASE w \in Windows(today)
      <4>. DEFINE i == Cardinality(Guarded) - Cardinality(InFlight)
                  j == Cardinality(Guarded) - Cardinality(InFlight')
      <4>1. i \in Int /\ j \in Int /\ j >= i + 1
        BY <2>4, CountsTyped
      <4>2. spent[w] <= CapOf(w) - 1 + MaxUse * i
        BY <3>1, <3>2
      <4>3. spent[w] \in Int /\ CapOf(w) \in Int /\ spent'[w] = spent[w] + u.tok
        BY <2>7, <2>8, <3>2, WindowsTyped
      <4>. HIDE DEF i, j
      <4>4. MaxUse * j >= MaxUse * i + MaxUse /\ MaxUse * i \in Int /\ MaxUse * j \in Int
        BY <4>1, Product, SpendAssumption
      <4>5. spent'[w] <= CapOf(w) - 1 + MaxUse * j
        BY <1>2, <4>2, <4>3, <4>4, SpendAssumption
      <4>. QED
        BY <3>2, <4>5 DEF j
    <3>3. CASE w \notin Windows(today)
      BY <2>8, <3>1, <3>3
    <3>. QED
      BY <3>2, <3>3
  <2>. QED
    BY <2>9, <2>10, <2>11 DEF SpendInv
<1>. QED
  BY <1>5, <1>6

(* A line is written, or lost.                                             *)
LEMMA LineStep ==
    ASSUME SpendInv, SpendTypeOK', CutIsDead', NEW c \in Calls, AfterCall(c) \/ Forget(c)
    PROVE  SpendInv'
<1>. DEFINE n == used[c].tok
<1>1. n \in 0..MaxUse /\ n \in Nat
  BY UseTyped, SpendAssumption DEF SpendInv
<1>2. /\ today' = today /\ caps' = caps /\ pc[c] \in {"paid", "cut"}
      /\ \A i \in Calls \ {c} :
           pc'[i] = pc[i] /\ used'[i] = used[i] /\ (i \in unread' <=> i \in unread)
      /\ pc'[c] \notin {"paid", "cut", "calling"}
  BY DEF AfterCall, Forget, Go, Leave, AfterRecord, SpendInv, SpendTypeOK
<1>3. Guarded \subseteq Calls
  BY DEF Guarded, Calls
<1>4. InFlight' = InFlight /\ Owing' = Owing \ {c}
  <2>1. \A i \in Calls \ {c} : Counted(i)' <=> Counted(i)
    BY <1>2 DEF Counted, Capped
  <2>. QED
    BY <1>2, <1>3, <2>1 DEF InFlight, Owing
<1>5. Tokens(Owing, used)' = Tokens(Owing \ {c}, used)
  BY <1>2, <1>3, <1>4, CountsTyped, SameTokens DEF Tokens
<1>6. Tokens(Owing \ {c}, used) \in Nat
  BY CountsTyped, CellsFinite
<1>7. Tokens(Owing, used) = IF c \in Owing THEN Tokens(Owing \ {c}, used) + n
                                            ELSE Tokens(Owing \ {c}, used)
  <2>1. CASE c \in Owing
    <3>1. Owing = (Owing \ {c}) \cup {c} /\ c \in Guarded /\ Owing \ {c} \in SUBSET Guarded
      BY <2>1, CountsTyped
    <3>2. Tokens((Owing \ {c}) \cup {c}, used) = Tokens(Owing \ {c}, used) + n
      BY <1>1, <3>1, TokensAdd
    <3>. QED
      BY <2>1, <3>1, <3>2
  <2>2. CASE c \notin Owing
    <3>1. Owing \ {c} = Owing
      BY <2>2
    <3>. QED
      BY <2>2, <3>1
  <2>. QED
    BY <2>1, <2>2
<1>8. c \in Owing /\ pc[c] = "paid" => Counted(c)
  BY <1>2 DEF Owing
<1>9. booked = Today(booked, 0) /\ spent = Today(spent, -0)
  BY DEF Today, SpendInv, SpendTypeOK
<1>. HIDE DEF n
<1>10. CASE booked' = Today(booked, n) /\ spent' = spent
  <2>1. booked' = Today(booked, n) /\ spent' = Today(spent, -0)
    BY <1>9, <1>10
  <2>2. Tokens(Owing, used) <= Tokens(Owing, used)' + n + 0
    BY <1>1, <1>5, <1>6, <1>7
  <2>. QED
    BY <1>1, <1>2, <1>4, <2>1, <2>2, Settles
<1>11. CASE booked' = booked /\ spent' = Today(spent, -n)
  <2>1. booked' = Today(booked, 0) /\ spent' = Today(spent, -n)
    BY <1>9, <1>11
  <2>2. Tokens(Owing, used) <= Tokens(Owing, used)' + 0 + n
    BY <1>1, <1>5, <1>6, <1>7
  <2>. QED
    BY <1>1, <1>2, <1>4, <2>1, <2>2, Settles
<1>12. CASE booked' = booked /\ spent' = spent /\ c \notin Owing
  <2>1. booked' = Today(booked, 0) /\ spent' = Today(spent, -0)
    BY <1>9, <1>12
  <2>2. Tokens(Owing, used) <= Tokens(Owing, used)' + 0 + 0
    BY <1>5, <1>6, <1>7, <1>12
  <2>. QED
    BY <1>2, <1>4, <2>1, <2>2, Settles
<1>13. ASSUME AfterCall(c)
       PROVE  \/ booked' = Today(booked, n) /\ spent' = spent
              \/ booked' = booked /\ spent' = Today(spent, -n)
              \/ booked' = booked /\ spent' = spent /\ c \notin Owing
  <2>1. pc[c] = "paid"
    BY <1>13 DEF AfterCall
  <2>2. c \in BareCalls => ~Counted(c)
    BY DEF Counted, Capped
  <2>. QED
    BY <1>8, <1>13, <2>1, <2>2 DEF AfterCall, Record, Losing, n
<1>14. Forget(c) => booked' = booked /\ spent' = Today(spent, -n)
  BY DEF Forget, n
<1>. QED
  BY <1>10, <1>11, <1>12, <1>13, <1>14

(* What a killed process owed is owed still.                               *)
LEMMA KillStep ==
    ASSUME SpendInv, SpendTypeOK', CutIsDead', NEW p \in Procs, Kill(p)
    PROVE  SpendInv'
<1>. DEFINE mine == {c \in Calls : ProcOf(c) = p}
            unbooked == {c \in mine : pc[c] = "paid" /\ Counted(c)}
<1>1. /\ UNCHANGED <<today, booked, spent>> /\ unread' = unread \ mine
      /\ caps[p] # "dead" /\ caps' = [caps EXCEPT ![p] = "dead"]
      /\ pc' = [c \in Calls |-> IF c \in unbooked THEN "cut"
                                ELSE IF c \in mine THEN "done" ELSE pc[c]]
      /\ used' = [c \in Calls |-> IF c \in mine \ unbooked THEN NoUse ELSE used[c]]
  BY DEF Kill
<1>2. \A c \in mine : pc[c] # "cut"
  BY <1>1 DEF SpendInv, CutIsDead
<1>3. Guarded \subseteq Calls
  BY DEF Guarded, Calls
<1>4. ASSUME NEW c \in Calls, c \notin mine
      PROVE  pc'[c] = pc[c] /\ used'[c] = used[c] /\ (Counted(c)' <=> Counted(c))
  <2>1. ProcOf(c) # p /\ ProcOf(c) \in Procs
    BY <1>4 DEF Procs
  <2>2. caps'[ProcOf(c)] = caps[ProcOf(c)]
    BY <1>1, <2>1 DEF SpendInv, SpendTypeOK
  <2>3. c \in unread' <=> c \in unread
    BY <1>1, <1>4
  <2>4. Counted(c)' <=> Counted(c)
    BY <2>2, <2>3 DEF Counted, Capped
  <2>5. c \notin unbooked
    BY <1>4
  <2>. HIDE DEF mine, unbooked
  <2>. QED
    BY <1>1, <1>4, <2>4, <2>5
<1>5. ASSUME NEW c \in Calls, c \in mine
      PROVE  /\ c \in unbooked => pc'[c] = "cut" /\ used'[c] = used[c]
             /\ c \notin unbooked => pc'[c] = "done"
  BY <1>1, <1>5
<1>6. ASSUME NEW c \in Guarded
      PROVE  /\ c \in Owing' <=> c \in Owing
             /\ c \in InFlight' => c \in InFlight
             /\ c \in Owing => used'[c] = used[c]
  <2>1. CASE c \in mine
    BY <1>2, <1>3, <1>5, <2>1 DEF Owing, InFlight
  <2>2. CASE c \notin mine
    BY <1>3, <1>4, <2>2 DEF Owing, InFlight
  <2>. QED
    BY <2>1, <2>2
<1>7. Owing' \in SUBSET Guarded /\ InFlight' \in SUBSET Guarded
  BY DEF Owing, InFlight
<1>8. Owing' = Owing /\ InFlight' \subseteq InFlight /\ \A c \in Owing : used'[c] = used[c]
  BY <1>6, <1>7, CountsTyped
<1>. QED
  BY <1>1, <1>8, Rests

(* A new day begins with a window of its own, and the month with it or not. *)
LEMMA MidnightStep ==
    ASSUME SpendInv, SpendTypeOK', CutIsDead', Midnight
    PROVE  SpendInv'
<1>1. /\ today \in 0..LastDay /\ today + 1 \in 0..LastDay /\ today' = today + 1
      /\ UNCHANGED <<caps, pc, used, unread, booked, spent>>
  BY SpendAssumption DEF Midnight, SpendInv, SpendTypeOK, Days
<1>2. /\ Windows(today)' = Windows(today + 1) /\ AllWindows' = AllWindows
      /\ Windows(today + 1) \subseteq AllWindows
  BY <1>1 DEF Windows, AllWindows, Days
<1>3. /\ InFlight' = InFlight /\ Tokens(Owing, used)' = Tokens(Owing, used)
  BY <1>1 DEF InFlight, Owing, Tokens, Counted, Capped
<1>4. /\ booked \in [AllWindows -> Nat] /\ spent \in [AllWindows -> Int]
  BY DEF SpendInv, SpendTypeOK
<1>5. ASSUME NEW w \in Windows(today + 1), w \notin Windows(today)
      PROVE  booked[w] = 0 /\ spent[w] = 0
  <2>. SUFFICES ASSUME NEW d \in 0..today, w \in Windows(d) PROVE FALSE
    BY <1>2, <1>5 DEF SpendInv, FutureEmpty
  <2>1. d \in 0..LastDay /\ d <= today /\ today <= today + 1 /\ d # today + 1
    BY <1>1, SpendAssumption
  <2>2. CASE w = <<"day", today + 1>>
    BY <2>1, <2>2 DEF Windows
  <2>3. CASE w = <<"month", MonthOf(today + 1)>>
    <3>1. MonthOf(d) = MonthOf(today + 1) /\ MonthOf(today) # MonthOf(today + 1)
      BY <1>5, <2>3 DEF Windows
    <3>2. /\ MonthOf(d) \in Nat /\ MonthOf(today) \in Nat /\ MonthOf(today + 1) \in Nat
          /\ MonthOf(d) <= MonthOf(today) /\ MonthOf(today) <= MonthOf(today + 1)
      BY <1>1, <2>1, SpendAssumption
    <3>. QED
      BY <3>1, <3>2
  <2>. QED
    BY <2>2, <2>3 DEF Windows
<1>6. NowCovered'
  <2>. SUFFICES ASSUME NEW w \in Windows(today + 1)
                PROVE  spent[w] <= booked[w] + Tokens(Owing, used)
    BY <1>1, <1>2, <1>3 DEF NowCovered
  <2>1. CASE w \in Windows(today)
    BY <2>1 DEF SpendInv, NowCovered
  <2>2. CASE w \notin Windows(today)
    BY <1>5, <2>2, CountsTyped
  <2>. QED
    BY <2>1, <2>2
<1>7. FutureEmpty'
  <2>. SUFFICES ASSUME NEW w \in AllWindows, \A d \in 0..(today + 1) : w \notin Windows(d)
                PROVE  booked[w] = 0 /\ spent[w] = 0
    BY <1>1, <1>2 DEF FutureEmpty, Windows
  <2>1. \A d \in 0..today : d \in 0..(today + 1)
    BY <1>1
  <2>. QED
    BY <2>1 DEF SpendInv, FutureEmpty
<1>8. RoomKept'
  <2>. SUFFICES ASSUME NEW w \in AllWindows, CapOf(w) > 0
                PROVE  spent[w] <= CapOf(w) - 1
                          + MaxUse * (IF w \in Windows(today + 1)
                                      THEN Cardinality(Guarded) - Cardinality(InFlight)
                                      ELSE Cardinality(Guarded))
    BY <1>1, <1>2, <1>3 DEF RoomKept, CapOf
  <2>. DEFINE i == Cardinality(Guarded) - Cardinality(InFlight)
  <2>1. i \in Nat /\ i <= Cardinality(Guarded) /\ Cardinality(Guarded) \in Nat
    BY CountsTyped
  <2>2. spent[w] <= CapOf(w) - 1
                      + MaxUse * (IF w \in Windows(today) THEN i ELSE Cardinality(Guarded))
    BY DEF SpendInv, RoomKept
  <2>3. spent[w] \in Int /\ CapOf(w) \in Nat
    BY <1>4, WindowsTyped
  <2>. HIDE DEF i
  <2>4. /\ MaxUse * i \in Int /\ MaxUse * Cardinality(Guarded) \in Int
        /\ MaxUse * i <= MaxUse * Cardinality(Guarded) /\ MaxUse * i >= 0
    <3>1. MaxUse * i >= MaxUse * 0 /\ MaxUse * 0 = 0
      BY <2>1, Product, SpendAssumption
    <3>. QED
      BY <2>1, <3>1, Product, SpendAssumption
  <2>5. CASE w \notin Windows(today + 1)
    BY <2>2, <2>3, <2>4, <2>5
  <2>6. CASE w \in Windows(today + 1) /\ w \in Windows(today)
    BY <2>2, <2>6 DEF i
  <2>7. CASE w \in Windows(today + 1) /\ w \notin Windows(today)
    <3>1. spent[w] = 0
      BY <1>5, <2>7
    <3>2. spent[w] <= CapOf(w) - 1 + MaxUse * i
      BY <2>3, <2>4, <3>1
    <3>. QED
      BY <2>7, <3>2 DEF i
  <2>. QED
    BY <2>5, <2>6, <2>7
<1>. QED
  BY <1>6, <1>7, <1>8 DEF SpendInv

LEMMA SpendInvStep == SpendInv /\ [Next]_vars => SpendInv'
<1>. SUFFICES ASSUME SpendInv, [Next]_vars PROVE SpendInv'
  OBVIOUS
<1>1. SpendTypeOK' /\ CutIsDead'
  BY SpendTypedStep, CutStep DEF SpendInv
<1>2. CASE UNCHANGED vars
  <2>1. /\ UNCHANGED <<today, booked, spent>> /\ InFlight' = InFlight /\ Owing' = Owing
        /\ used' = used
    BY <1>2 DEF vars, ledger, InFlight, Owing, Counted, Capped
  <2>. QED
    BY <1>1, <2>1, Rests
<1>3. ASSUME NEW c \in Calls,
             \/ Enter(c) \/ BeforeCall(c) \/ RunHeadless(c) \/ AfterCall(c)
             \/ ChargeBudget(c) \/ Decide(c) \/ Forget(c)
      PROVE  SpendInv'
  BY <1>1, <1>3, QuietStep, AdmitStep, AnswerStep, LineStep
<1>. QED
  BY <1>1, <1>2, <1>3, KillStep, MidnightStep DEF Next

-----------------------------------------------------------------------------
(* However many processes check and record on one ledger without a lock,   *)
(* the calls they admit having read it cost less, in a day and in a month, *)
(* than the cap, one call of each caller beyond it, and what the ledger    *)
(* lost of them.                                                           *)
THEOREM ProviderSpendBounded == Spec => []SpendBounded
<1>1. SpendInv => SpendBounded
  <2>. SUFFICES ASSUME SpendInv, NEW w \in AllWindows, CapOf(w) > 0
                PROVE  spent[w] < CapOf(w) + Overshoot
    BY DEF SpendBounded
  <2>1. PICK k \in 0..Cardinality(Guarded) : spent[w] <= CapOf(w) - 1 + MaxUse * k
    <3>1. Cardinality(Guarded) - Cardinality(InFlight) \in 0..Cardinality(Guarded)
          /\ Cardinality(Guarded) \in 0..Cardinality(Guarded)
      BY CountsTyped
    <3>2. spent[w] <= CapOf(w) - 1
                        + MaxUse * (IF w \in Windows(today)
                                    THEN Cardinality(Guarded) - Cardinality(InFlight)
                                    ELSE Cardinality(Guarded))
      BY DEF SpendInv, RoomKept
    <3>. QED
      BY <3>1, <3>2
  <2>2. k \in Int /\ Cardinality(Guarded) \in Int /\ k <= Cardinality(Guarded)
    BY CountsTyped
  <2>3. /\ MaxUse * k \in Int /\ MaxUse * Cardinality(Guarded) \in Int
        /\ MaxUse * k <= MaxUse * Cardinality(Guarded)
    BY <2>2, Product, SpendAssumption
  <2>4. spent[w] \in Int /\ CapOf(w) \in Int
    BY WindowsTyped DEF SpendInv, SpendTypeOK
  <2>. QED
    BY <2>1, <2>3, <2>4 DEF Overshoot, Guarded
<1>. QED
  BY <1>1, SpendInvInit, SpendInvStep, PTL DEF Spec

-----------------------------------------------------------------------------
(* The conversation of the built-in provider.                              *)
TurnMessage ==
    {m \in [role : {"system", "user", "assistant", "tool"}, calls : Nat, stray : Nat, of : Nat] :
        /\ m.role # "assistant" => m.calls = 0
        /\ m.role = "tool" <=> m.of > 0}

(* The calls of the i-th message have their results, and the i-th message, *)
(* if it is a result, its call.                                            *)
ResultsFollow(h, i) ==
    \A k \in 1..h[i].calls : i + k \in DOMAIN h /\ h[i + k] = Turn!ToolResult(k)
CallBefore(h, i) == h[i].role = "tool" => i > h[i].of /\ h[i - h[i].of].calls >= h[i].of

(* The same of a history whose message o awaits the results of n more of   *)
(* its calls.                                                              *)
Awaits(h, o, n) ==
    /\ o \in DOMAIN h
    /\ h[o].calls = Len(h) - o + n
    /\ \A k \in 1..(Len(h) - o) : h[o + k] = Turn!ToolResult(k)
    /\ \A i \in DOMAIN h : CallBefore(h, i) /\ (i # o => ResultsFollow(h, i))

TurnInv ==
    /\ hist \in Seq(TurnMessage) /\ saved \in Seq(TurnMessage)
    /\ due \in Nat /\ told \in Nat /\ screened \in Nat
    /\ Turn!Paired(saved)
    /\ turn_pc # "tools" => Turn!Paired(hist)
    /\ turn_pc = "tools" => due > 0 /\ \E o \in DOMAIN hist : Awaits(hist, o, due)
    /\ counted = told - screened
    /\ turn_pc # "idle" => ~result.ok
    /\ result.ok => result.tokens = Turn!Reported(told - screened)

LEMMA Difference ==
    /\ \A i, j \in Int : i <= j => \E k \in Nat : i + k = j
    /\ \A i, j, k \in Int : i + k = j => j - i = k
<1>1. ASSUME NEW i \in Int, NEW j \in Int, i <= j PROVE \E k \in Nat : i + k = j
  <2>1. j - i \in Nat /\ i + (j - i) = j
    BY <1>1
  <2>. QED
    BY <2>1
<1>2. \A i, j, k \in Int : i + k = j => j - i = k
  OBVIOUS
<1>. QED
  BY <1>1, <1>2

LEMMA Between ==
    ASSUME NEW i \in Int, NEW j \in Int, NEW n \in Nat, i <= j, j < i + n
    PROVE  \E k \in 1..n : k \in Nat \ {0} /\ k = j + 1 - i /\ i + k = j + 1
BY SMT

LEMMA PairedParts ==
    ASSUME NEW h
    PROVE  Turn!Paired(h) <=> \A i \in DOMAIN h : ResultsFollow(h, i) /\ CallBefore(h, i)
BY DEF Turn!Paired, ResultsFollow, CallBefore

LEMMA MessagesTyped ==
    /\ Turn!Message("system") \in TurnMessage
    /\ Turn!Message("user") \in TurnMessage
    /\ \A n \in Nat : Turn!Assistant(n) \in TurnMessage /\ Turn!Assistant(n).calls = n
                      /\ Turn!Assistant(n).role = "assistant"
                      /\ Turn!Closer(n) \in TurnMessage /\ Turn!Closer(n).calls = 0
                      /\ Turn!Closer(n).role = "assistant"
    /\ \A k \in Nat \ {0} : Turn!ToolResult(k) \in TurnMessage /\ Turn!ToolResult(k).of = k
                            /\ Turn!ToolResult(k).calls = 0 /\ Turn!ToolResult(k).role = "tool"
    /\ Turn!Message("user").calls = 0 /\ Turn!Message("user").role = "user"
    /\ Turn!Message("system").calls = 0 /\ Turn!Message("system").role = "system"
BY DEF TurnMessage, Turn!Message, Turn!Assistant, Turn!Closer, Turn!ToolResult

(* A message without calls that is no result, at the end.                  *)
LEMMA PairedAppend ==
    ASSUME NEW h \in Seq(TurnMessage), Turn!Paired(h),
           NEW m \in TurnMessage, m.calls = 0, m.role # "tool"
    PROVE  Turn!Paired(Append(h, m))
<1> DEFINE q == Append(h, m)
<1>1. /\ DOMAIN q = 1..(Len(h) + 1) /\ DOMAIN h = 1..Len(h) /\ Len(h) \in Nat
      /\ \A i \in 1..Len(h) : q[i] = h[i] /\ h[i] \in TurnMessage
      /\ q[Len(h) + 1] = m
  OBVIOUS
<1> HIDE DEF q
<1>2. ASSUME NEW i \in DOMAIN h PROVE ResultsFollow(q, i) /\ CallBefore(q, i)
  <2>1. ResultsFollow(h, i) /\ CallBefore(h, i)
    BY PairedParts
  <2>2. ResultsFollow(q, i)
    BY <2>1, <1>1 DEF ResultsFollow, TurnMessage
  <2>3. CallBefore(q, i)
    <3>1. q[i] = h[i] /\ h[i].of \in Nat /\ (h[i].role = "tool" => h[i].of > 0)
      BY <1>1 DEF TurnMessage
    <3>2. h[i].role = "tool" => i > h[i].of /\ h[i - h[i].of].calls >= h[i].of
      BY <2>1 DEF CallBefore
    <3>3. h[i].role = "tool" => q[i - h[i].of] = h[i - h[i].of]
      BY <1>1, <3>1, <3>2
    <3>. QED
      BY <3>1, <3>2, <3>3 DEF CallBefore
  <2>. QED
    BY <2>2, <2>3
<1>3. ResultsFollow(q, Len(h) + 1) /\ CallBefore(q, Len(h) + 1)
  BY <1>1 DEF ResultsFollow, CallBefore
<1>4. Turn!Paired(q)
  BY <1>1, <1>2, <1>3, PairedParts
<1>. QED
  BY <1>4 DEF q

(* A message with calls, at the end.                                       *)
LEMMA AwaitsAppend ==
    ASSUME NEW h \in Seq(TurnMessage), Turn!Paired(h), NEW n \in Nat
    PROVE  Awaits(Append(h, Turn!Assistant(n)), Len(h) + 1, n)
<1> DEFINE m == Turn!Assistant(n)
           q == Append(h, m)
<1>1. m \in TurnMessage /\ m.calls = n /\ m.role = "assistant"
  BY MessagesTyped
<1> HIDE DEF m
<1>2. /\ DOMAIN q = 1..(Len(h) + 1) /\ DOMAIN h = 1..Len(h) /\ Len(h) \in Nat
      /\ Len(q) = Len(h) + 1
      /\ \A i \in 1..Len(h) : q[i] = h[i] /\ h[i] \in TurnMessage
      /\ q[Len(h) + 1] = m
  BY <1>1
<1> HIDE DEF q
<1>3. ASSUME NEW i \in DOMAIN h PROVE ResultsFollow(q, i) /\ CallBefore(q, i)
  <2>1. ResultsFollow(h, i) /\ CallBefore(h, i)
    BY PairedParts
  <2>2. ResultsFollow(q, i)
    BY <2>1, <1>2 DEF ResultsFollow, TurnMessage
  <2>3. CallBefore(q, i)
    <3>1. q[i] = h[i] /\ h[i].of \in Nat /\ (h[i].role = "tool" => h[i].of > 0)
      BY <1>2 DEF TurnMessage
    <3>2. h[i].role = "tool" => i > h[i].of /\ h[i - h[i].of].calls >= h[i].of
      BY <2>1 DEF CallBefore
    <3>3. h[i].role = "tool" => q[i - h[i].of] = h[i - h[i].of]
      BY <1>2, <3>1, <3>2
    <3>. QED
      BY <3>1, <3>2, <3>3 DEF CallBefore
  <2>. QED
    BY <2>2, <2>3
<1>4. CallBefore(q, Len(h) + 1)
  BY <1>1, <1>2 DEF CallBefore
<1>5. Awaits(q, Len(h) + 1, n)
  BY <1>1, <1>2, <1>3, <1>4 DEF Awaits
<1>. QED
  BY <1>5 DEF q, m

(* The next result.                                                        *)
LEMMA ResultAppend ==
    ASSUME NEW h \in Seq(TurnMessage), NEW o, NEW n \in Nat \ {0}, Awaits(h, o, n),
           NEW q, q = Append(h, Turn!ToolResult(h[Len(h)].of + 1))
    PROVE  /\ q \in Seq(TurnMessage) /\ o \in DOMAIN q
           /\ n = 1 => Turn!Paired(q)
           /\ n > 1 => Awaits(q, o, n - 1)
<1>0. DOMAIN h = 1..Len(h) /\ Len(h) \in Nat /\ o \in 1..Len(h)
  BY DEF Awaits
<1>a. PICK k \in Nat : o + k = Len(h)
  <2>1. Len(h) \in Int /\ o \in Int /\ o <= Len(h)
    BY <1>0
  <2>. QED
    BY <2>1, Difference
<1>1. /\ DOMAIN h = 1..Len(h) /\ Len(h) \in Nat /\ o \in 1..Len(h) /\ k \in Nat
      /\ o + k = Len(h)
  BY <1>0, <1>a, Zenon
<1> DEFINE m == Turn!ToolResult(k + 1)
<1>2. h[Len(h)].of = k
  <2>1. h[Len(h)] \in TurnMessage
    BY <1>1
  <2>2. CASE k = 0
    <3>1. h[Len(h)].calls > 0
      BY <1>1, <2>2 DEF Awaits
    <3>. QED
      BY <2>1, <2>2, <3>1 DEF TurnMessage
  <2>3. CASE k > 0
    <3>1. h[o + k] = Turn!ToolResult(k)
      BY <1>1, <2>3 DEF Awaits
    <3>2. Turn!ToolResult(k).of = k
      BY <2>3, MessagesTyped
    <3>. QED
      BY <1>1, <3>1, <3>2
  <2>4. k = 0 \/ k > 0
    OBVIOUS
  <2>. QED
    BY <2>2, <2>3, <2>4
<1>3. m \in TurnMessage /\ m.of = k + 1 /\ m.calls = 0 /\ m.role = "tool"
  BY <1>1, MessagesTyped
<1>4. q = Append(h, m)
  BY <1>2
<1>5. h[o].calls = k + n /\ \A j \in 1..k : h[o + j] = Turn!ToolResult(j)
  <2>1. Len(h) - o = k
    <3>1. Len(h) \in Int /\ o \in Int /\ k \in Int
      BY <1>0
    <3>2. \A j \in Int : o + k = j => j - o = k
      BY <3>1
    <3>. QED
      BY <1>a, <3>1, <3>2, Zenon
  <2>. QED
    BY <2>1 DEF Awaits
<1>6. m = Turn!ToolResult(k + 1) /\ o + k = Len(h)
  BY <1>1, Zenon
<1> HIDE DEF m
<1>7. /\ DOMAIN q = 1..(Len(h) + 1) /\ Len(q) = Len(h) + 1 /\ q \in Seq(TurnMessage)
      /\ \A i \in 1..Len(h) : q[i] = h[i] /\ h[i] \in TurnMessage
      /\ q[Len(h) + 1] = m
  BY <1>3, <1>4
<1>8. ASSUME NEW i \in DOMAIN q
      PROVE  CallBefore(q, i) /\ (i # o => ResultsFollow(q, i))
  <2>1. CASE i = Len(h) + 1
    <3>1. i - m.of = o
      BY <1>1, <1>3, <1>6, <2>1
    <3>2. i > m.of /\ q[o].calls >= m.of
      BY <1>1, <1>3, <1>5, <1>6, <1>7, <2>1
    <3>3. q[i] = m
      BY <1>7, <2>1
    <3>4. CallBefore(q, i)
      BY <3>1, <3>2, <3>3 DEF CallBefore
    <3>5. ResultsFollow(q, i)
      BY <1>3, <3>3 DEF ResultsFollow
    <3>. QED
      BY <3>4, <3>5
  <2>2. CASE i \in DOMAIN h
    <3>1. CallBefore(h, i) /\ (i # o => ResultsFollow(h, i))
      BY <2>2 DEF Awaits
    <3>2. CallBefore(q, i)
      <4>1. q[i] = h[i] /\ h[i].of \in Nat /\ (h[i].role = "tool" => h[i].of > 0)
        BY <1>1, <1>7, <2>2 DEF TurnMessage
      <4>2. h[i].role = "tool" => i > h[i].of /\ h[i - h[i].of].calls >= h[i].of
        BY <3>1 DEF CallBefore
      <4>3. h[i].role = "tool" => q[i - h[i].of] = h[i - h[i].of]
        BY <1>1, <1>7, <2>2, <4>1, <4>2
      <4>. QED
        BY <4>1, <4>2, <4>3 DEF CallBefore
    <3>3. ASSUME i # o, NEW j \in 1..q[i].calls
          PROVE  i + j \in DOMAIN q /\ q[i + j] = Turn!ToolResult(j)
      <4>1. q[i] = h[i]
        BY <1>1, <1>7, <2>2
      <4>2. i + j \in DOMAIN h /\ h[i + j] = Turn!ToolResult(j)
        BY <3>1, <3>3, <4>1 DEF ResultsFollow
      <4>. QED
        BY <1>1, <1>7, <4>2
    <3>. QED
      BY <3>2, <3>3 DEF ResultsFollow
  <2>. QED
    BY <1>1, <1>7, <2>1, <2>2
<1>9. \A j \in 1..(k + 1) : o + j \in DOMAIN q /\ q[o + j] = Turn!ToolResult(j)
  <2>1. ASSUME NEW j \in 1..(k + 1) PROVE o + j \in DOMAIN q /\ q[o + j] = Turn!ToolResult(j)
    <3>1. CASE j = k + 1
      BY <1>1, <1>6, <1>7, <3>1
    <3>2. CASE j \in 1..k
      BY <1>1, <1>5, <1>6, <1>7, <3>2
    <3>. QED
      BY <1>1, <3>1, <3>2
  <2>. QED
    BY <2>1
<1>10. o \in DOMAIN q /\ q[o].calls = k + n /\ Len(q) - o = k + 1
  BY <1>1, <1>5, <1>6, <1>7
<1>11. ASSUME n = 1 PROVE Turn!Paired(q)
  <2>1. ResultsFollow(q, o)
    BY <1>9, <1>10, <1>11 DEF ResultsFollow
  <2>. QED
    BY <1>8, <2>1, PairedParts
<1>12. ASSUME n > 1 PROVE Awaits(q, o, n - 1)
  <2>1. q[o].calls = Len(q) - o + (n - 1)
    BY <1>1, <1>10
  <2>2. \A j \in 1..(Len(q) - o) : q[o + j] = Turn!ToolResult(j)
    BY <1>9, <1>10
  <2>. QED
    BY <1>8, <1>10, <2>1, <2>2 DEF Awaits
<1>. QED
  BY <1>7, <1>10, <1>11, <1>12

-----------------------------------------------------------------------------
(* Compaction.  The cut it makes is where the code's loop stops.           *)
LEMMA CutExists ==
    ASSUME NEW h \in Seq(TurnMessage), NEW s \in {0, 1}, Len(h) > KeepRecent + 2
    PROVE  LET c == Turn!CutAt(h, s)
           IN  c \in s..(Len(h) - KeepRecent) /\ (c = s \/ h[c + 1].role # "tool")
<1> DEFINE top == Len(h) - KeepRecent
           Stop(c) == c = s \/ h[c + 1].role # "tool"
           Back == {top - c : c \in {d \in s..top : Stop(d)}}
           Below == OpToRel(<, Nat)
<1>1. top \in Nat /\ s <= top /\ s \in Nat
  BY TurnAssumption
<1> HIDE DEF top
<1>2. Back \subseteq Nat /\ (top - s) \in Back
  <2>1. s \in s..top /\ Stop(s)
    BY <1>1
  <2>. QED
    BY <1>1, <2>1
<1>3. \A i, j \in Nat : i < j => <<i, j>> \in Below
  BY DEF OpToRel
<1>4. IsWellFoundedOn(Below, Nat)
  BY NatLessThanWellFounded, Zenon DEF OpToRel
<1> HIDE DEF Below
<1>5. PICK i \in Back : \A j \in Back : ~(<<j, i>> \in Below)
  <2> HIDE DEF Back
  <2>. QED
    BY <1>2, <1>4, WFMin
<1>6. PICK c \in s..top : Stop(c) /\ i = top - c
  BY <1>5
<1>7. ASSUME NEW d \in (c + 1)..top PROVE h[d + 1].role = "tool"
  <2>1. CASE ~Stop(d)
    BY <2>1
  <2>2. CASE Stop(d)
    <3>1. d \in s..top
      BY <1>1, <1>6, <1>7
    <3>2. (top - d) \in Back
      BY <2>2, <3>1
    <3>3. top - d \in Nat /\ top - c \in Nat /\ top - d < top - c
      BY <1>1, <1>6, <1>7, <3>1
    <3>4. <<top - d, i>> \in Below
      BY <1>3, <1>6, <3>3
    <3>. QED
      BY <1>5, <3>2, <3>4
  <2>. QED
    BY <2>1, <2>2
<1> DEFINE Right(c2) == /\ c2 = s \/ h[c2 + 1].role # "tool"
                       /\ \A d \in (c2 + 1)..top : h[d + 1].role = "tool"
<1>8. Right(c)
  BY <1>6, <1>7
<1>9. Turn!CutAt(h, s) = CHOOSE c2 \in s..top : Right(c2)
  BY DEF Turn!CutAt, top
<1> HIDE DEF Right
<1>10. Turn!CutAt(h, s) \in s..top /\ Right(Turn!CutAt(h, s))
  BY <1>8, <1>9
<1>. QED
  BY <1>10 DEF Right, top

(* "Never split a tool call from its results": the messages kept begin     *)
(* with no result, so that each result kept has its call among them.       *)
LEMMA CompactedPaired ==
    ASSUME NEW h \in Seq(TurnMessage), Turn!Paired(h), Turn!Compactable(h)
    PROVE  Turn!Compacted(h) \in Seq(TurnMessage) /\ Turn!Paired(Turn!Compacted(h))
<1> DEFINE s == Turn!Start(h)
           c == Turn!CutAt(h, s)
           u == Turn!Message("user")
           v == Turn!Assistant(0)
           q == Turn!Compacted(h)
<1>1. Len(h) \in Nat /\ DOMAIN h = 1..Len(h) /\ \A i \in 1..Len(h) : h[i] \in TurnMessage
  OBVIOUS
<1>2. Len(h) > KeepRecent + 2 /\ c > s
  BY DEF Turn!Compactable
<1>3. s \in {0, 1} /\ (s = 1 => h[1].role = "system")
  BY DEF Turn!Start
<1>4. c \in s..(Len(h) - KeepRecent) /\ h[c + 1].role # "tool"
  <2> HIDE DEF s
  <2>. QED
    BY <1>2, <1>3, CutExists
<1>5. c \in Nat /\ c < Len(h)
  BY <1>1, <1>3, <1>4, TurnAssumption
<1>6. /\ u \in TurnMessage /\ u.calls = 0 /\ u.role = "user"
      /\ v \in TurnMessage /\ v.calls = 0 /\ v.role = "assistant"
  BY MessagesTyped
<1>7. q = SubSeq(h, 1, s) \o <<u, v>> \o SubSeq(h, c + 1, Len(h))
  BY DEF Turn!Compacted
<1> HIDE DEF u, v, q, s, c
<1> DEFINE x == SubSeq(h, 1, s)
           y == SubSeq(h, c + 1, Len(h))
<1>a. x \in Seq(TurnMessage) /\ Len(x) = s /\ \A i \in 1..s : x[i] = h[i]
  BY <1>1, <1>3, <1>5
<1>b. /\ y \in Seq(TurnMessage) /\ Len(y) = Len(h) - c
      /\ \A i \in 1..(Len(h) - c) : y[i] = h[c + i]
  <2>0. c + 1 \in Int /\ Len(h) \in Int
    BY <1>1, <1>5
  <2>1. PICK m \in Int, n \in Int : m = c + 1 /\ n = Len(h)
    BY <2>0, Zenon
  <2>2. y = SubSeq(h, m, n)
    BY <2>1
  <2>3. \A i \in m..n : h[i] \in TurnMessage
    BY <1>1, <1>5, <2>1
  <2> HIDE DEF y
  <2>4. /\ SubSeq(h, m, n) \in Seq(TurnMessage)
        /\ Len(SubSeq(h, m, n)) = IF m <= n THEN n - m + 1 ELSE 0
        /\ \A i \in 1..(n - m + 1) : SubSeq(h, m, n)[i] = h[m + i - 1]
    BY <2>3, SubSeqProperties
  <2>5. m <= n /\ n - m + 1 = Len(h) - c
    BY <1>1, <1>5, <2>1
  <2>6. \A i \in 1..(Len(h) - c) : m + i - 1 = c + i
    BY <1>5, <2>1
  <2>. QED
    BY <2>2, <2>4, <2>5, <2>6
<1>c. q = (x \o <<u, v>>) \o y
  BY <1>7
<1> HIDE DEF x, y
<1> DEFINE z == x \o <<u, v>>
<1>d. /\ z \in Seq(TurnMessage) /\ Len(z) = s + 2
      /\ \A i \in 1..s : z[i] = h[i]
      /\ z[s + 1] = u /\ z[s + 2] = v
  <2>1. <<u, v>> \in Seq(TurnMessage) /\ Len(<<u, v>>) = 2
        /\ <<u, v>>[1] = u /\ <<u, v>>[2] = v
    BY <1>6
  <2>. QED
    BY <1>3, <1>a, <2>1
<1>e. q = z \o y
  BY <1>c
<1> HIDE DEF z
<1>f. /\ q \in Seq(TurnMessage) /\ Len(q) = Len(z) + Len(y)
      /\ \A i \in 1..(Len(z) + Len(y)) : q[i] = IF i <= Len(z) THEN z[i] ELSE y[i - Len(z)]
  BY <1>b, <1>d, <1>e, ConcatProperties
<1>8. /\ q \in Seq(TurnMessage)
      /\ Len(q) = s + 2 + (Len(h) - c)
      /\ DOMAIN q = 1..(s + 2 + (Len(h) - c))
  BY <1>1, <1>3, <1>5, <1>b, <1>d, <1>f
<1>9. \A i \in 1..(s + 2) : q[i] = z[i]
  <2>1. \A i \in 1..(s + 2) : i \in 1..(Len(z) + Len(y)) /\ i <= Len(z)
    BY <1>3, <1>5, <1>b, <1>d
  <2>. QED
    BY <2>1, <1>f
<1>10. \A n \in 1..(Len(h) - c) : q[s + 2 + n] = h[c + n]
  <2>1. ASSUME NEW n \in 1..(Len(h) - c) PROVE q[s + 2 + n] = h[c + n]
    <3>1. s + 2 + n \in 1..(Len(z) + Len(y)) /\ ~(s + 2 + n <= Len(z))
          /\ (s + 2 + n) - Len(z) = n
      BY <1>1, <1>3, <1>5, <1>b, <1>d
    <3>2. q[s + 2 + n] = y[n]
      BY <1>f, <3>1
    <3>. QED
      BY <1>b, <3>2
  <2>. QED
    BY <2>1
<1>12. ASSUME NEW i \in 1..(s + 2) PROVE ResultsFollow(q, i) /\ CallBefore(q, i)
  <2>1. q[i].calls = 0 /\ q[i].role # "tool"
    <3>1. CASE i \in 1..s
      <4>1. s = 1 /\ i = 1 /\ q[1] = h[1] /\ h[1] \in TurnMessage
        BY <1>1, <1>3, <1>5, <1>9, <1>d, <3>1
      <4>. QED
        BY <1>3, <4>1 DEF TurnMessage
    <3>2. CASE i = s + 1 \/ i = s + 2
      BY <1>3, <1>6, <1>9, <1>d, <3>2
    <3>. QED
      BY <1>3, <3>1, <3>2
  <2>. QED
    BY <2>1 DEF ResultsFollow, CallBefore
<1>13. ASSUME NEW n \in 1..(Len(h) - c)
       PROVE  ResultsFollow(q, s + 2 + n) /\ CallBefore(q, s + 2 + n)
  <2> DEFINE i == s + 2 + n
             j == c + n
  <2>1. n \in Nat /\ i \in Nat /\ j \in 1..Len(h) /\ q[i] = h[j] /\ h[j] \in TurnMessage
    BY <1>1, <1>3, <1>5, <1>10
  <2>2. ResultsFollow(h, j) /\ CallBefore(h, j)
    BY <1>1, <2>1, PairedParts
  <2>3. h[j].calls \in Nat /\ h[j].of \in Nat /\ (h[j].role = "tool" => h[j].of > 0)
    BY <2>1 DEF TurnMessage
  <2>4. ASSUME NEW k \in 1..h[j].calls
        PROVE  i + k \in DOMAIN q /\ q[i + k] = Turn!ToolResult(k)
    <3>1. j + k \in 1..Len(h) /\ h[j + k] = Turn!ToolResult(k)
      BY <1>1, <2>2 DEF ResultsFollow
    <3>2. /\ k \in Nat /\ n + k \in 1..(Len(h) - c) /\ c + (n + k) = j + k
          /\ s + 2 + (n + k) = i + k /\ i + k \in 1..(s + 2 + (Len(h) - c))
      BY <1>1, <1>3, <1>5, <2>1, <2>3, <3>1
    <3>3. q[s + 2 + (n + k)] = h[c + (n + k)]
      BY <1>10, <3>2
    <3>. QED
      BY <1>8, <3>1, <3>2, <3>3
  <2>5. ASSUME h[j].role = "tool" PROVE i > h[j].of /\ q[i - h[j].of].calls >= h[j].of
    <3>0. PICK m \in Nat \ {0} : m = h[j].of
      BY <2>3, <2>5
    <3>1. j > m /\ h[j - m].calls >= m /\ j - m \in 1..Len(h)
      BY <1>1, <2>1, <2>2, <2>5, <3>0 DEF CallBefore
    <3>2. ResultsFollow(h, j - m) /\ h[j - m].calls \in Nat
      BY <1>1, <3>1, PairedParts DEF TurnMessage
    <3>3. ~(j - m <= c)
      <4>1. SUFFICES ASSUME j - m <= c PROVE FALSE
        OBVIOUS
      <4>2. j - m \in Int /\ c \in Int /\ c < (j - m) + h[j - m].calls
        BY <1>5, <2>1, <3>1, <3>2
      <4>3. PICK k \in 1..h[j - m].calls : (j - m) + k = c + 1 /\ k \in Nat \ {0}
        BY <3>2, <4>1, <4>2, Between
      <4>4. h[c + 1] = Turn!ToolResult(k)
        BY <3>2, <4>3 DEF ResultsFollow
      <4>. QED
        BY <1>4, <4>3, <4>4, MessagesTyped
    <3>4. /\ n - m \in 1..(Len(h) - c) /\ c + (n - m) = j - m
          /\ s + 2 + (n - m) = i - m /\ i > m
      BY <1>1, <1>3, <1>5, <2>1, <3>1, <3>3
    <3>5. q[s + 2 + (n - m)] = h[c + (n - m)]
      BY <1>10, <3>4
    <3>. QED
      BY <3>0, <3>1, <3>4, <3>5
  <2>6. ResultsFollow(q, i)
    BY <2>1, <2>4 DEF ResultsFollow
  <2>7. CallBefore(q, i)
    BY <2>1, <2>5 DEF CallBefore
  <2>. QED
    BY <2>6, <2>7
<1>14. ASSUME NEW i \in DOMAIN q PROVE ResultsFollow(q, i) /\ CallBefore(q, i)
  <2>1. i \in 1..(s + 2) \/ (i - (s + 2) \in 1..(Len(h) - c) /\ s + 2 + (i - (s + 2)) = i)
    BY <1>1, <1>3, <1>5, <1>8
  <2>. QED
    BY <1>12, <1>13, <2>1
<1>15. Turn!Paired(q)
  BY <1>14, PairedParts
<1>. QED
  BY <1>8, <1>15 DEF q

-----------------------------------------------------------------------------
LEMMA TurnInvInit == Turn!Init => TurnInv
<1>. SUFFICES ASSUME Turn!Init PROVE TurnInv
  OBVIOUS
<1>1. Turn!Paired(<<>>) /\ <<>> \in Seq(TurnMessage)
  BY DEF Turn!Paired
<1>. QED
  BY <1>1 DEF Turn!Init, TurnInv, Turn!NoResult

LEMMA ReturnKeeps ==
    ASSUME TurnInv, NEW ok \in BOOLEAN, NEW n, Turn!Return(ok, n),
           ok => n = Turn!Reported(told - screened),
           saved' \in Seq(TurnMessage), Turn!Paired(saved'), UNCHANGED Turn!usage
    PROVE  TurnInv'
<1>1. Turn!Paired(<<>>) /\ <<>> \in Seq(TurnMessage)
  BY DEF Turn!Paired
<1>. QED
  BY <1>1 DEF Turn!Return, Turn!Reported, Turn!usage, TurnInv

LEMMA RespondedKeeps ==
    ASSUME TurnInv, turn_pc = "request",
           NEW n \in Nat, NEW text \in BOOLEAN, Turn!Responded(n, text),
           saved' = saved, told' \in Nat, screened' = screened,
           counted' = told' - screened, result' = result
    PROVE  TurnInv'
<1>1. hist \in Seq(TurnMessage) /\ Turn!Paired(hist)
  BY DEF TurnInv
<1>2. CASE n = 0 /\ ~text /\ thinking /\ ~redone
  BY <1>1, <1>2 DEF Turn!Responded, Turn!Redo, TurnInv
<1>3. CASE ~(n = 0 /\ ~text /\ thinking /\ ~redone)
  <2>1. /\ hist' = Append(hist, IF Turn!Closing THEN Turn!Closer(n) ELSE Turn!Assistant(n))
        /\ due' = IF Turn!Closing THEN 0 ELSE n
        /\ turn_pc' = IF n = 0 \/ Turn!Closing THEN "save" ELSE "tools"
    BY <1>3 DEF Turn!Responded
  <2>2. /\ Turn!Assistant(n) \in TurnMessage /\ Turn!Assistant(n).role = "assistant"
        /\ Turn!Assistant(n).calls = n
        /\ Turn!Closer(n) \in TurnMessage /\ Turn!Closer(n).role = "assistant"
        /\ Turn!Closer(n).calls = 0
    BY MessagesTyped
  <2>3. hist' \in Seq(TurnMessage) /\ due' \in Nat
    BY <1>1, <2>1, <2>2
  <2>4. ASSUME n = 0 \/ Turn!Closing PROVE turn_pc' = "save" /\ Turn!Paired(hist')
    <3>1. PICK m \in TurnMessage : m.calls = 0 /\ m.role = "assistant" /\ hist' = Append(hist, m)
      BY <2>1, <2>2, <2>4
    <3>. QED
      BY <1>1, <2>1, <2>4, <3>1, PairedAppend
  <2>5. ASSUME n # 0, ~Turn!Closing
        PROVE  turn_pc' = "tools" /\ due' = n /\ \E o \in DOMAIN hist' : Awaits(hist', o, n)
    BY <1>1, <2>1, <2>5, AwaitsAppend DEF Awaits
  <2>. QED
    BY <2>1, <2>3, <2>4, <2>5 DEF TurnInv
<1>. QED
  BY <1>2, <1>3

LEMMA TurnInvStep == TurnInv /\ [Turn!Next]_(Turn!vars) => TurnInv'
<1>. SUFFICES ASSUME TurnInv, [Turn!Next]_(Turn!vars) PROVE TurnInv'
  OBVIOUS
<1>a. /\ hist \in Seq(TurnMessage) /\ saved \in Seq(TurnMessage)
      /\ due \in Nat /\ told \in Nat /\ screened \in Nat /\ counted = told - screened
  BY DEF TurnInv
<1>b. turn_pc # "tools" => Turn!Paired(hist)
  BY DEF TurnInv
<1>u. /\ Turn!Message("user") \in TurnMessage
      /\ Turn!Message("user").calls = 0 /\ Turn!Message("user").role # "tool"
  BY MessagesTyped
<1>c. ASSUME NEW h \in Seq(TurnMessage), Turn!Paired(h)
      PROVE  /\ Append(h, Turn!Message("user")) \in Seq(TurnMessage)
             /\ Turn!Paired(Append(h, Turn!Message("user")))
  BY <1>c, <1>u, PairedAppend
<1>1. CASE UNCHANGED Turn!vars
  BY <1>1 DEF TurnInv, Turn!vars, Turn!request, Turn!usage
<1>2. CASE Turn!BeginTurn
  <2>1. hist' \in {<<>>, <<Turn!Message("system")>>, saved}
    BY <1>2 DEF Turn!BeginTurn
  <2>2. hist' \in Seq(TurnMessage)
    <3>1. <<Turn!Message("system")>> \in Seq(TurnMessage) /\ <<>> \in Seq(TurnMessage)
      BY MessagesTyped
    <3>. QED
      BY <1>a, <2>1, <3>1, Zenon
  <2>3. Turn!Paired(hist')
    <3>1. Turn!Paired(<<>>)
      BY DEF Turn!Paired
    <3>2. Turn!Paired(<<Turn!Message("system")>>)
      BY MessagesTyped DEF Turn!Paired
    <3>. QED
      BY <2>1, <3>1, <3>2 DEF TurnInv
  <2>. QED
    BY <1>2, <1>a, <2>2, <2>3 DEF Turn!BeginTurn, Turn!NoResult, TurnInv
<1>3. CASE Turn!Compact
  <2>1. turn_pc = "compact" /\ turn_pc' = "round" /\ UNCHANGED <<saved, due, result>>
    BY <1>3 DEF Turn!Compact, Turn!request
  <2>2. Turn!Paired(hist)
    BY <1>b, <2>1
  <2>3. \/ hist' = Append(hist, Turn!Message("user"))
        \/ Turn!Compactable(hist) /\ hist' = Append(Turn!Compacted(hist), Turn!Message("user"))
    BY <1>3 DEF Turn!Compact
  <2>4. hist' \in Seq(TurnMessage) /\ Turn!Paired(hist')
    BY <1>a, <1>c, <2>2, <2>3, CompactedPaired
  <2>5. told' \in Nat /\ counted' = told' - screened /\ screened' = screened
    BY <1>3, <1>a DEF Turn!Compact
  <2>. QED
    BY <2>1, <2>4, <2>5 DEF TurnInv
<1>4. CASE Turn!BeginRound
  <2>1. Turn!Paired(hist) /\ turn_pc' = "request"
    BY <1>4, <1>b DEF Turn!BeginRound
  <2>2. hist' = hist \/ hist' = Append(hist, Turn!Message("user"))
    BY <1>4 DEF Turn!BeginRound
  <2>3. hist' \in Seq(TurnMessage) /\ Turn!Paired(hist')
    BY <1>a, <1>c, <2>1, <2>2
  <2>. QED
    BY <1>4, <2>1, <2>3 DEF Turn!BeginRound, Turn!usage, TurnInv
<1>5. CASE Turn!RequestFails
  <2>1. CASE Turn!Return(FALSE, 0)
    BY <1>5, <2>1, ReturnKeeps DEF Turn!RequestFails, TurnInv
  <2>2. CASE ~Turn!Return(FALSE, 0)
    BY <1>5, <2>2, <1>b DEF Turn!RequestFails, Turn!request, Turn!usage, TurnInv
  <2>. QED
    BY <2>1, <2>2
<1>6. CASE Turn!Retry
  <2>1. CASE over
    BY <1>6, <2>1, ReturnKeeps DEF Turn!Retry, TurnInv
  <2>2. CASE ~over
    BY <1>6, <2>2, <1>b DEF Turn!Retry, Turn!usage, TurnInv
  <2>. QED
    BY <2>1, <2>2
<1>7. CASE Turn!Response
  <2>1. PICK n \in 0..MaxCalls, text \in BOOLEAN :
            Turn!Responded(n, text)
    BY <1>7 DEF Turn!Response
  <2>2. n \in Nat
    BY <2>1, TurnAssumption
  <2>3. told' = told + 1 /\ counted' = counted + 1 /\ UNCHANGED <<saved, screened, result>>
        /\ turn_pc = "request"
    BY <1>7 DEF Turn!Response
  <2>. QED
    BY <1>a, <2>1, <2>2, <2>3, RespondedKeeps
<1>8. CASE Turn!StreamBreaks
  <2>1. PICK n \in 0..MaxCalls, text \in BOOLEAN :
            Turn!Responded(n, text)
    BY <1>8 DEF Turn!StreamBreaks
  <2>2. n \in Nat
    BY <2>1, TurnAssumption
  <2>3. turn_pc = "request" /\ UNCHANGED <<saved, told, screened, counted, result>>
    BY <1>8 DEF Turn!StreamBreaks, Turn!usage
  <2>. QED
    BY <1>a, <2>1, <2>2, <2>3, RespondedKeeps
<1>9. CASE Turn!RunTool
  <2>1. PICK o \in DOMAIN hist : Awaits(hist, o, due)
    BY <1>9 DEF Turn!RunTool, TurnInv
  <2>2. due \in Nat \ {0} /\ hist' = Append(hist, Turn!ToolResult(hist[Len(hist)].of + 1))
        /\ due' = due - 1 /\ turn_pc' = IF due = 1 THEN "round" ELSE "tools"
    BY <1>9 DEF Turn!RunTool, TurnInv
  <2>3. /\ hist' \in Seq(TurnMessage) /\ o \in DOMAIN hist'
        /\ due = 1 => Turn!Paired(hist')
        /\ due > 1 => Awaits(hist', o, due - 1)
    BY <1>a, <2>1, <2>2, ResultAppend
  <2>4. due' \in Nat /\ (due # 1 => due > 1 /\ due' > 0)
    BY <2>2
  <2>5. told' \in Nat /\ screened' \in Nat /\ counted' = told' - screened'
    BY <1>9, <1>a DEF Turn!RunTool, Turn!SentinelCheck
  <2>. QED
    BY <1>9, <2>2, <2>3, <2>4, <2>5 DEF Turn!RunTool, TurnInv
<1>10. CASE Turn!GateFails
  BY <1>10, ReturnKeeps DEF Turn!GateFails, TurnInv
<1>11. CASE Turn!Save
  <2>1. saved' \in Seq(TurnMessage) /\ Turn!Paired(saved')
    BY <1>11, <1>a, <1>b DEF Turn!Save
  <2>2. Turn!Return(TRUE, Turn!Reported(told - screened)) /\ UNCHANGED Turn!usage
    BY <1>11, <1>a DEF Turn!Save
  <2>. QED
    BY <2>1, <2>2, ReturnKeeps
<1>12. CASE Turn!ContextEnds
  BY <1>12 DEF Turn!ContextEnds, Turn!request, Turn!usage, TurnInv
<1>13. CASE Turn!Restart
  <2>1. Turn!Paired(<<>>) /\ <<>> \in Seq(TurnMessage)
    BY DEF Turn!Paired
  <2>. QED
    BY <1>13, <2>1 DEF Turn!Restart, Turn!request, Turn!usage, TurnInv
<1>. QED
  BY <1>1, <1>2, <1>3, <1>4, <1>5, <1>6, <1>7, <1>8, <1>9, <1>10, <1>11, <1>12, <1>13
     DEF Turn!Next, Turn!TurnStep

(* Every request sends, and every session keeps, a conversation whose      *)
(* calls, but for those of a closing report, have their results and whose  *)
(* results their calls, for any number of rounds, calls and turns, however *)
(* often it is compacted; and a turn that ends well reports all it was     *)
(* told of but the sentinel's tokens.                                      *)
THEOREM ProviderTurnIsSound == Turn!Spec => []TurnIsSound
<1>1. TurnInv => TurnIsSound
  BY DEF TurnInv, TurnIsSound, Turn!TurnIsSound, Turn!HistoryPaired, Turn!SuccessReportsAll
<1>. QED
  BY <1>1, TurnInvInit, TurnInvStep, PTL DEF Turn!Spec

-----------------------------------------------------------------------------
(* The MCP servers of a run.                                               *)

IsOffer(o) == o = [name |-> o.name, server |-> o.server, tool |-> o.tool]

(* What the model may call: a tool of a server that was launched.          *)
Offered(o) ==
    /\ IsOffer(o) /\ o.server \in Tools!Entries
    /\ o.tool \in Tools!Range(ToolsOf[o.server])
    /\ o.name = Tools!ToolName(o.server.name, o.tool)
Launched(o) == conn[o.server] \in {"live", "dead"}

BridgeTyped ==
    /\ config \subseteq Declared /\ dotMCP \subseteq Tools!Entries
    /\ conn \in [Tools!Entries -> {"none", "live", "failed", "dead"}]
    /\ bridge_pc \in [BridgeTurns -> {"idle", "asking", "calling", "over"}]
    /\ offered = [t \in BridgeTurns |-> offered[t]]
    /\ call = [t \in BridgeTurns |-> call[t]]
    /\ answer = [t \in BridgeTurns |-> answer[t]]
    /\ read = [t \in BridgeTurns |-> read[t]]
    /\ probe \in [Declared -> {"todo", "ok", "failed"}]

(* The file is written, and the patterns approved, when all are probed.    *)
Answering == {s \in Declared : probe[s] = "ok"}
BridgeDone ==
    IF bridged
    THEN /\ \A s \in Declared : probe[s] # "todo"
         /\ preApproved = Tools!AllowPatterns(Answering) /\ config \subseteq Answering
    ELSE /\ preApproved = {} /\ config = {}
         /\ \A t \in BridgeTurns : bridge_pc[t] = "idle" /\ offered[t] = {}

TurnRouted(t) ==
    /\ \A o \in offered[t] : Offered(o) /\ Launched(o)
    /\ bridge_pc[t] = "calling" => Offered(call[t]) /\ Launched(call[t])
    /\ bridge_pc[t] # "over" => answer[t] = Tools!Unanswered
    /\ bridge_pc[t] = "over" /\ answer[t] # Tools!Unanswered =>
          Tools!Home(call[t], read[t], answer[t])

BridgeInv == BridgeTyped /\ BridgeDone /\ \A t \in BridgeTurns : TurnRouted(t)

-----------------------------------------------------------------------------
(* Names.                                                                  *)
LEMMA ServerNames ==
    /\ \A e \in Tools!Entries :
          e.name \in Seq(Chars) /\ \E i \in DOMAIN Servers : Servers[i] = e.name
    /\ \A e \in Tools!Entries : \A i \in DOMAIN ToolsOf[e] :
          ToolsOf[e][i] \in Tools!Range(ToolsOf[e])
    /\ \A e \in Tools!Entries : \A x \in Tools!Range(ToolsOf[e]) :
          x \in Seq(Chars) /\ \E i \in DOMAIN ToolsOf[e] : ToolsOf[e][i] = x
<1>1. /\ Servers \in Seq(Seq(Chars)) /\ \A e \in Tools!Entries : e.name \in Tools!Names
      /\ \A e \in Tools!Entries : ToolsOf[e] \in Seq(Seq(Chars))
  BY BridgeAssumption
<1>2. ASSUME NEW q \in Seq(Seq(Chars))
      PROVE  /\ Tools!Range(q) \subseteq Seq(Chars)
             /\ \A i \in DOMAIN q : q[i] \in Tools!Range(q)
             /\ \A x \in Tools!Range(q) : \E i \in DOMAIN q : q[i] = x
  <2>1. \A i \in DOMAIN q : q[i] \in Seq(Chars)
    BY <1>2
  <2>. QED
    BY <2>1, Zenon DEF Tools!Range
<1>. QED
  BY <1>1, <1>2, Zenon DEF Tools!Names

(* Nothing is said of the letters that stand for a dot and between names.  *)
LEMMA Letters ==
    /\ Tools!Under \in Seq(Chars) /\ Len(Tools!Under) = 2
    /\ \E put \in [Chars -> Chars] :
          \A s \in Seq(Chars) : Tools!Clean(s) = [i \in DOMAIN s |-> put[s[i]]]
<1>1. \A u \in Chars : <<u, u>> \in Seq(Chars) /\ Len(<<u, u>>) = 2
  OBVIOUS
<1>2. "_" \in Chars
  BY BridgeAssumption, Zenon
<1>3. Tools!Under \in Seq(Chars) /\ Len(Tools!Under) = 2
  BY <1>1, <1>2, Zenon DEF Tools!Under
<1>. DEFINE Put(c) == IF c = "." THEN "_" ELSE c
            put == [c \in Chars |-> Put(c)]
<1>4. \A c \in Chars : Put(c) \in Chars
  BY <1>2, Zenon
<1>5. \A s : Tools!Clean(s) = [i \in DOMAIN s |-> Put(s[i])]
  BY Zenon DEF Tools!Clean
<1>. HIDE DEF Put
<1>6. put \in [Chars -> Chars]
  BY <1>4
<1>7. ASSUME NEW s \in Seq(Chars)
      PROVE  [i \in DOMAIN s |-> Put(s[i])] = [i \in DOMAIN s |-> put[s[i]]]
  <2>1. \A i \in DOMAIN s : s[i] \in Chars
    OBVIOUS
  <2>. QED
    BY <2>1, Zenon
<1>. HIDE DEF put
<1>8. \A s \in Seq(Chars) : Tools!Clean(s) = [i \in DOMAIN s |-> put[s[i]]]
  BY <1>5, <1>7, Zenon
<1>. QED
  BY <1>3, <1>6, <1>8, Zenon

LEMMA Cleaned ==
    ASSUME NEW s \in Seq(Chars)
    PROVE  Tools!Clean(s) \in Seq(Chars) /\ Len(Tools!Clean(s)) = Len(s)
<1>1. PICK put \in [Chars -> Chars] : Tools!Clean(s) = [i \in DOMAIN s |-> put[s[i]]]
  BY Letters, Zenon
<1>2. [i \in DOMAIN s |-> put[s[i]]] \in [1..Len(s) -> Chars] /\ Len(s) \in Nat
  <2>1. DOMAIN s = 1..Len(s) /\ Len(s) \in Nat /\ \A i \in DOMAIN s : s[i] \in Chars
    OBVIOUS
  <2>2. \A i \in DOMAIN s : put[s[i]] \in Chars
    BY <2>1
  <2>. QED
    BY <2>1, <2>2, Zenon
<1>3. Tools!Clean(s) \in [1..Len(s) -> Chars] /\ Len(s) \in Nat
  BY <1>1, <1>2, Zenon
<1>. HIDE DEF Tools!Clean
<1>. QED
  BY <1>3

LEMMA Lowest ==
    ASSUME NEW I, I \subseteq Nat, I # {}
    PROVE  Tools!First(I) \in I /\ \A i \in I : Tools!First(I) <= i
<1>. DEFINE Below == OpToRel(<, Nat)
<1>1. PICK i \in I : \A j \in I : <<j, i>> \notin Below
  BY NatLessThanWellFounded, WFMin
<1>2. \A j, k \in Nat : k < j => <<k, j>> \in Below
  BY DEF OpToRel
<1>. HIDE DEF Below
<1>3. \A j \in I : i <= j
  <2>1. i \in Nat /\ \A j \in I : j \in Nat /\ ~ (j < i)
    BY <1>1, <1>2
  <2>. QED
    BY <2>1
<1>. QED
  BY <1>3 DEF Tools!First

IsJoin(r, p, q, S) ==
    /\ r \in Seq(S) /\ Len(r) = Len(p) + Len(q)
    /\ Len(p) \in Nat /\ Len(q) \in Nat
    /\ \A i \in 1..Len(p) : r[i] = p[i]
    /\ \A i \in 1..Len(q) : r[Len(p) + i] = q[i]
LEMMA Joined ==
    ASSUME NEW S, NEW p \in Seq(S), NEW q \in Seq(S)
    PROVE  IsJoin(p \o q, p, q, S)
  BY DEF IsJoin

LEMMA Pair ==
    ASSUME NEW S, NEW p \in Seq(S), NEW q \in Seq(S), Len(q) = 2, NEW i \in 1..(Len(p) - 1)
    PROVE  SubSeq(p, i, i + 1) = q <=> p[i] = q[1] /\ p[i + 1] = q[2]
<1>. DEFINE r == SubSeq(p, i, i + 1)
<1>1. Len(p) \in Nat /\ i \in Int /\ i + 1 \in Int /\ \A j \in i..(i + 1) : p[j] \in S
  OBVIOUS
<1>2. r \in Seq(S) /\ Len(r) = 2 /\ r[1] = p[i] /\ r[2] = p[i + 1]
  <2>1. /\ r \in Seq(S) /\ Len(r) = IF i <= i + 1 THEN (i + 1) - i + 1 ELSE 0
        /\ \A j \in 1..((i + 1) - i + 1) : r[j] = p[i + j - 1]
    BY <1>1, SubSeqProperties, SMTT(30)
  <2>. HIDE DEF r
  <2>2. (i + 1) - i + 1 = 2 /\ i + 1 - 1 = i /\ i + 2 - 1 = i + 1
    BY <1>1
  <2>. QED
    BY <1>1, <2>1, <2>2
<1>. HIDE DEF r
<1>3. r[1] = q[1] /\ r[2] = q[2] => r = q
  <2>1. 1..Len(r) = {1, 2} /\ Len(r) = Len(q)
    BY <1>2
  <2>. QED
    BY <1>2, <2>1, SeqEqual
<1>. QED
  BY <1>2, <1>3 DEF r

(* The part before the first "__" is the server, if it has none itself.    *)
LEMMA ServerOfName ==
    ASSUME NEW s \in Seq(Chars), NEW x \in Seq(Chars), Tools!Plain(s)
    PROVE  Tools!ServerPart(Tools!ToolName(s, x)) = Tools!Clean(s)
<1>. DEFINE u == Tools!Under
            head == Tools!Clean(s) \o u
            name == head \o Tools!Clean(x)
            n == Len(s)
<1>1. /\ Tools!Clean(s) \in Seq(Chars) /\ Len(Tools!Clean(s)) = n /\ n \in Nat
      /\ Tools!Clean(x) \in Seq(Chars)
      /\ u \in Seq(Chars) /\ Len(u) = 2
  BY Cleaned, Letters
<1>2. Tools!ToolName(s, x) = name
  BY Zenon DEF Tools!ToolName
<1>. HIDE DEF u
<1>3. /\ head \in Seq(Chars) /\ Len(head) = n + 2
      /\ \A i \in 1..n : head[i] = Tools!Clean(s)[i]
      /\ head[n + 1] = u[1] /\ head[n + 2] = u[2]
  <2>. DEFINE c == Tools!Clean(s)
  <2>1. IsJoin(head, c, u, Chars)
    BY <1>1, Joined, Zenon
  <2>. HIDE DEF head, c
  <2>2. Len(c) = n /\ Len(u) = 2 /\ n \in Nat /\ \A i \in 1..n : c[i] = Tools!Clean(s)[i]
    BY <1>1, Zenon DEF c
  <2>. QED
    BY <2>1, <2>2 DEF IsJoin
<1>. HIDE DEF head
<1>4. /\ name \in Seq(Chars) /\ Len(name) \in Nat /\ Len(name) >= n + 2
      /\ \A i \in 1..(n + 2) : name[i] = head[i]
  <2>. DEFINE c == Tools!Clean(x)
  <2>1. IsJoin(name, head, c, Chars)
    BY <1>1, <1>3, Joined, Zenon
  <2>. HIDE DEF name, c
  <2>2. Len(head) = n + 2 /\ n \in Nat
    BY <1>1, <1>3
  <2>. QED
    BY <2>1, <2>2 DEF IsJoin
<1>. HIDE DEF name
<1>5. ASSUME NEW seq \in Seq(Chars), NEW i \in 1..(Len(seq) - 1)
      PROVE  SubSeq(seq, i, i + 1) = u <=> seq[i] = u[1] /\ seq[i + 1] = u[2]
  BY <1>1, <1>5, Pair, Zenon
<1>6. ASSUME NEW seq \in Seq(Chars)
      PROVE  Tools!UnderAt(seq) = {i \in 1..(Len(seq) - 1) : seq[i] = u[1] /\ seq[i + 1] = u[2]}
  BY <1>5, Zenon DEF Tools!UnderAt, u
<1>a. /\ Tools!UnderAt(name) = {i \in 1..(Len(name) - 1) : name[i] = u[1] /\ name[i + 1] = u[2]}
      /\ Tools!UnderAt(head) = {i \in 1..(n + 1) : head[i] = u[1] /\ head[i + 1] = u[2]}
  <2>1. Len(head) - 1 = n + 1
    BY <1>1, <1>3
  <2>. QED
    BY <1>3, <1>4, <1>6, <2>1
<1>. HIDE DEF n
<1>7. n + 1 \in Tools!UnderAt(name)
  BY <1>1, <1>3, <1>4, <1>a
<1>8. \A i \in Tools!UnderAt(name) : i <= n => i \in Tools!UnderAt(head)
  BY <1>1, <1>3, <1>4, <1>a
<1>9. \A i \in Tools!UnderAt(head) : i > n
  BY DEF Tools!Plain, head, u, n
<1>10. Tools!UnderAt(name) \subseteq Nat
  BY <1>4, <1>a
<1>11. Tools!CutAt(name) = n + 1
  <2>1. \A i \in Tools!UnderAt(name) : n + 1 <= i
    BY <1>1, <1>8, <1>9, <1>10
  <2>. QED
    BY <1>1, <1>7, <1>10, <2>1 DEF Tools!CutAt
<1>12. SubSeq(name, 1, n) = Tools!Clean(s)
  BY <1>1, <1>3, <1>4
<1>. QED
  BY <1>1, <1>2, <1>11, <1>12 DEF Tools!ServerPart

(* Tools of one server that are called the same are named the same.        *)
LEMMA SameTool ==
    ASSUME NEW s \in Seq(Chars), NEW x \in Seq(Chars), NEW y \in Seq(Chars),
           Tools!ToolName(s, x) = Tools!ToolName(s, y)
    PROVE  Tools!Clean(x) = Tools!Clean(y)
<1>. DEFINE head == Tools!Clean(s) \o Tools!Under
<1>1. head \in Seq(Chars) /\ Tools!Clean(x) \in Seq(Chars) /\ Tools!Clean(y) \in Seq(Chars)
  BY Cleaned, Letters, Joined, Zenon DEF IsJoin
<1>2. head \o Tools!Clean(x) = head \o Tools!Clean(y)
  BY Zenon DEF Tools!ToolName
<1>. HIDE DEF head
<1>. QED
  BY <1>1, <1>2, ConcatSimplifications

-----------------------------------------------------------------------------
(* A server that was launched stays so, live or dead.                      *)
StaysUp ==
    \A e \in Tools!Entries : conn[e] \in {"live", "dead"} => conn'[e] \in {"live", "dead"}

LEMMA ConnectedKeeps ==
    ASSUME BridgeTyped, NEW S \in SUBSET Tools!Entries, NEW up, conn' = Tools!Connected(S, up)
    PROVE  /\ conn' \in [Tools!Entries -> {"none", "live", "failed", "dead"}] /\ StaysUp
           /\ \A e \in S : conn'[e] # "none"
<1>1. /\ conn' = [e \in Tools!Entries |-> IF e \in S /\ conn[e] = "none"
                    THEN IF e \in up THEN "live" ELSE "failed" ELSE conn[e]]
      /\ conn \in [Tools!Entries -> {"none", "live", "failed", "dead"}]
  BY Zenon DEF Tools!Connected, BridgeTyped
<1>. QED
  BY <1>1 DEF StaysUp

LEMMA LaunchedKept == ASSUME NEW o, Offered(o), Launched(o), StaysUp PROVE Launched(o)'
  BY Zenon DEF Offered, Launched, StaysUp

LEMMA RoutedKept ==
    ASSUME BridgeInv, NEW t \in BridgeTurns, StaysUp,
           offered'[t] = offered[t], call'[t] = call[t], read'[t] = read[t],
           bridge_pc'[t] = bridge_pc[t], answer'[t] = answer[t]
    PROVE  TurnRouted(t)'
<1>1. TurnRouted(t)
  BY Zenon DEF BridgeInv
<1>2. \A o : Offered(o) /\ conn[o.server] \in {"live", "dead"} => conn'[o.server] \in {"live", "dead"}
  BY Zenon DEF Offered, StaysUp
<1>3. \A o \in offered'[t] : Offered(o) /\ conn'[o.server] \in {"live", "dead"}
  BY <1>1, <1>2, Zenon DEF TurnRouted, Launched
<1>4. bridge_pc'[t] = "calling" =>
         Offered(call'[t]) /\ conn'[call'[t].server] \in {"live", "dead"}
  BY <1>1, <1>2, Zenon DEF TurnRouted, Launched
<1>5. bridge_pc'[t] = "over" /\ answer'[t] # Tools!Unanswered =>
         Tools!Home(call'[t], read'[t], answer'[t])
  BY <1>1, Zenon DEF TurnRouted
<1>. QED
  BY <1>1, <1>3, <1>4, <1>5, Zenon DEF TurnRouted, Launched

LEMMA BridgeInitInv == Tools!Init => BridgeInv
<1>. SUFFICES ASSUME Tools!Init PROVE BridgeInv
  OBVIOUS
<1>1. BridgeTyped
  BY BridgeAssumption DEF Tools!Init, BridgeTyped
<1>2. BridgeDone
  BY DEF Tools!Init, BridgeDone
<1>3. ASSUME NEW t \in BridgeTurns PROVE TurnRouted(t)
  <2>1. bridge_pc[t] = "idle" /\ offered[t] = {} /\ answer[t] = Tools!Unanswered
    BY DEF Tools!Init
  <2>. QED
    BY <2>1, Zenon DEF TurnRouted
<1>. QED
  BY <1>1, <1>2, <1>3, Zenon DEF BridgeInv

LEMMA BridgeKeeps == BridgeInv /\ (Tools!Probe \/ Tools!Bridge) => BridgeInv'
<1>1. ASSUME BridgeInv, Tools!Probe PROVE BridgeInv'
  <2>1. /\ UNCHANGED <<config, preApproved, bridged, dotMCP, conn, offered, call, answer, read, bridge_pc>>
        /\ ~bridged /\ probe' \in [Declared -> {"todo", "ok", "failed"}]
    BY <1>1 DEF Tools!Probe, Tools!turnVars, BridgeInv, BridgeDone, BridgeTyped
  <2>2. BridgeTyped'
    BY <1>1, <2>1, Zenon DEF BridgeInv, BridgeTyped
  <2>3. BridgeDone'
    BY <1>1, <2>1 DEF BridgeInv, BridgeDone
  <2>4. \A t \in BridgeTurns : TurnRouted(t)'
    BY <1>1, <2>1, RoutedKept, Zenon DEF StaysUp
  <2>. QED
    BY <2>2, <2>3, <2>4 DEF BridgeInv
<1>2. ASSUME BridgeInv, Tools!Bridge PROVE BridgeInv'
  <2>1. /\ UNCHANGED <<probe, dotMCP, conn, offered, call, answer, read, bridge_pc>> /\ bridged'
        /\ \A s \in Declared : probe[s] # "todo"
        /\ preApproved' = Tools!AllowPatterns(Answering) /\ config' \subseteq Answering
    BY <1>2 DEF Tools!Bridge, Tools!turnVars, Answering
  <2>2. BridgeTyped'
    <3>1. config' \subseteq Declared
      BY <2>1 DEF Answering
    <3>. QED
      BY <1>2, <2>1, <3>1, Zenon DEF BridgeInv, BridgeTyped
  <2>3. Answering' = Answering /\ Tools!AllowPatterns(Answering)' = Tools!AllowPatterns(Answering')
    BY <2>1, Zenon DEF Answering, Tools!AllowPatterns
  <2>4. BridgeDone'
    BY <2>1, <2>3 DEF BridgeDone
  <2>5. ASSUME NEW t \in BridgeTurns PROVE TurnRouted(t)'
    <3>1. bridge_pc[t] = "idle" /\ offered[t] = {}
      BY <1>2, Zenon DEF BridgeInv, BridgeDone, Tools!Bridge
    <3>2. answer[t] = Tools!Unanswered
      BY <1>2, <3>1 DEF BridgeInv, TurnRouted
    <3>. QED
      BY <2>1, <3>1, <3>2 DEF TurnRouted
  <2>. QED
    BY <2>2, <2>4, <2>5 DEF BridgeInv
<1>. QED
  BY <1>1, <1>2

(* A step of turn t that the bridge does not notice.                       *)
LEMMA TurnStepKeeps ==
    ASSUME BridgeInv, NEW t \in BridgeTurns, bridged,
           UNCHANGED <<probe, config, preApproved, bridged>>,
           dotMCP' \subseteq Tools!Entries,
           conn' \in [Tools!Entries -> {"none", "live", "failed", "dead"}], StaysUp,
           bridge_pc' \in [BridgeTurns -> {"idle", "asking", "calling", "over"}],
           offered' = [u \in BridgeTurns |-> offered'[u]],
           call' = [u \in BridgeTurns |-> call'[u]],
           answer' = [u \in BridgeTurns |-> answer'[u]],
           read' = [u \in BridgeTurns |-> read'[u]],
           \A u \in BridgeTurns \ {t} :
              /\ offered'[u] = offered[u] /\ call'[u] = call[u] /\ read'[u] = read[u]
              /\ bridge_pc'[u] = bridge_pc[u] /\ answer'[u] = answer[u],
           TurnRouted(t)'
    PROVE  BridgeInv'
<1>1. BridgeTyped'
  BY Zenon DEF BridgeInv, BridgeTyped
<1>2. BridgeDone'
  <2>1. Answering' = Answering /\ Tools!AllowPatterns(Answering)' = Tools!AllowPatterns(Answering')
    BY Zenon DEF Answering, Tools!AllowPatterns
  <2>. QED
    BY <2>1, Zenon DEF BridgeInv, BridgeDone
<1>3. \A u \in BridgeTurns \ {t} : TurnRouted(u)'
  BY RoutedKept, Zenon
<1>. QED
  BY <1>1, <1>2, <1>3, Zenon DEF BridgeInv

LEMMA DieOrEditKeeps ==
    BridgeInv /\ (Tools!Edit \/ \E e \in Tools!Entries : Tools!Die(e)) => BridgeInv'
<1>1. ASSUME BridgeInv, Tools!Edit PROVE BridgeInv'
  <2>1. PICK t \in BridgeTurns : bridge_pc[t] = "calling"
    BY <1>1, Zenon DEF Tools!Edit
  <2>2. /\ UNCHANGED <<probe, config, preApproved, bridged, conn, offered, call, answer, read, bridge_pc>>
        /\ dotMCP' \subseteq Tools!Entries
    BY <1>1, BridgeAssumption DEF Tools!Edit, Tools!turnVars
  <2>3. bridged
    BY <1>1, <2>1 DEF BridgeInv, BridgeDone
  <2>4. \A u \in BridgeTurns : TurnRouted(u)'
    BY <1>1, <2>2, RoutedKept, Zenon DEF StaysUp
  <2>5. BridgeTyped'
    BY <1>1, <2>2, Zenon DEF BridgeInv, BridgeTyped
  <2>6. BridgeDone'
    BY <1>1, <2>2 DEF BridgeInv, BridgeDone, Answering
  <2>. QED
    BY <2>4, <2>5, <2>6 DEF BridgeInv
<1>2. ASSUME BridgeInv, NEW e \in Tools!Entries, Tools!Die(e) PROVE BridgeInv'
  <2>1. /\ UNCHANGED <<probe, config, preApproved, bridged, dotMCP, offered, call, answer, read, bridge_pc>>
        /\ conn' = [conn EXCEPT ![e] = "dead"]
    BY <1>2 DEF Tools!Die, Tools!turnVars
  <2>2. StaysUp /\ conn' \in [Tools!Entries -> {"none", "live", "failed", "dead"}]
    BY <1>2, <2>1 DEF StaysUp, BridgeInv, BridgeTyped
  <2>4. \A u \in BridgeTurns : TurnRouted(u)'
    BY <1>2, <2>1, <2>2, RoutedKept, Zenon
  <2>5. BridgeTyped'
    BY <1>2, <2>1, <2>2, Zenon DEF BridgeInv, BridgeTyped
  <2>6. BridgeDone'
    BY <1>2, <2>1 DEF BridgeInv, BridgeDone, Answering
  <2>. QED
    BY <2>4, <2>5, <2>6 DEF BridgeInv
<1>. QED
  BY <1>1, <1>2

LEMMA Served == BridgeTyped => \A S \in Tools!Configured : S \in SUBSET Tools!Entries
<1>1. Declared \subseteq Tools!Entries
  BY BridgeAssumption, Zenon
<1>. QED
  BY <1>1 DEF BridgeTyped, Tools!Configured

LEMMA OfferKeeps ==
    ASSUME BridgeInv, NEW t \in BridgeTurns, Tools!Offer(t)
    PROVE  BridgeInv'
<1>0. PICK S \in Tools!Configured :
        /\ \E up : conn' = Tools!Connected(S, up)
        /\ offered' = [offered EXCEPT ![t] =
             UNION {{[name |-> Tools!ToolName(e.name, x), server |-> e, tool |-> x] :
                        x \in Tools!Range(ToolsOf[e])} :
                      e \in {d \in S : conn'[d] # "failed"}}]
  BY Zenon DEF Tools!Offer
<1>. DEFINE listed ==
       UNION {{[name |-> Tools!ToolName(e.name, x), server |-> e, tool |-> x] :
                  x \in Tools!Range(ToolsOf[e])} :
                e \in {d \in S : conn'[d] # "failed"}}
<1>1. /\ bridged /\ bridge_pc[t] = "idle"
      /\ \E up : conn' = Tools!Connected(S, up)
      /\ offered' = [offered EXCEPT ![t] = listed]
      /\ bridge_pc' = [bridge_pc EXCEPT ![t] = "asking"]
      /\ UNCHANGED <<probe, config, preApproved, bridged, dotMCP, call, answer, read>>
  BY <1>0, Zenon DEF Tools!Offer
<1>2. BridgeTyped /\ S \in SUBSET Tools!Entries
  BY Served DEF BridgeInv
<1>3. /\ StaysUp /\ conn' \in [Tools!Entries -> {"none", "live", "failed", "dead"}]
      /\ \A e \in S : conn'[e] # "none"
  BY <1>1, <1>2, ConnectedKeeps
<1>4. ASSUME NEW o \in listed PROVE Offered(o) /\ conn'[o.server] \in {"live", "dead"}
  <2>a. PICK e \in S : /\ conn'[e] # "failed"
                       /\ \E x \in Tools!Range(ToolsOf[e]) :
                            o = [name |-> Tools!ToolName(e.name, x), server |-> e, tool |-> x]
    BY <1>4, Zenon
  <2>1. PICK x \in Tools!Range(ToolsOf[e]) :
          o = [name |-> Tools!ToolName(e.name, x), server |-> e, tool |-> x]
    BY <2>a, Zenon
  <2>. DEFINE n == Tools!ToolName(e.name, x)
  <2>2. o = [name |-> n, server |-> e, tool |-> x]
    BY <2>1
  <2>. HIDE DEF n
  <2>3. IsOffer(o) /\ o.name = n /\ o.server = e /\ o.tool = x
    BY <2>2 DEF IsOffer
  <2>4. conn'[e] \in {"live", "dead"}
    BY <1>2, <1>3, <2>a
  <2>. QED
    BY <1>2, <2>1, <2>3, <2>4, Zenon DEF Offered, n
<1>. HIDE DEF listed
<1>5. /\ bridge_pc' \in [BridgeTurns -> {"idle", "asking", "calling", "over"}]
      /\ offered' = [u \in BridgeTurns |-> offered'[u]]
      /\ offered'[t] = listed /\ bridge_pc'[t] = "asking"
      /\ \A u \in BridgeTurns \ {t} : offered'[u] = offered[u] /\ bridge_pc'[u] = bridge_pc[u]
  BY <1>1, <1>2 DEF BridgeTyped
<1>6. TurnRouted(t)'
  <2>1. answer[t] = Tools!Unanswered
    BY <1>1, Zenon DEF BridgeInv, TurnRouted
  <2>. QED
    BY <1>1, <1>4, <1>5, <2>1 DEF TurnRouted, Launched
<1>7. /\ call' = [u \in BridgeTurns |-> call'[u]] /\ answer' = [u \in BridgeTurns |-> answer'[u]]
      /\ read' = [u \in BridgeTurns |-> read'[u]] /\ dotMCP' \subseteq Tools!Entries
  BY <1>1, <1>2, Zenon DEF BridgeTyped
<1>. QED
  BY <1>1, <1>3, <1>5, <1>6, <1>7, TurnStepKeeps, Zenon

LEMMA AskKeeps ==
    ASSUME BridgeInv, NEW t \in BridgeTurns, Tools!Ask(t)
    PROVE  BridgeInv'
<1>1. /\ bridge_pc[t] = "asking"
      /\ UNCHANGED <<probe, config, preApproved, bridged, dotMCP, conn, offered, answer, read>>
      /\ \/ /\ \E o \in offered[t] : call' = [call EXCEPT ![t] = o]
            /\ bridge_pc' = [bridge_pc EXCEPT ![t] = "calling"]
         \/ bridge_pc' = [bridge_pc EXCEPT ![t] = "over"] /\ UNCHANGED call
  BY Zenon DEF Tools!Ask
<1>2. bridged /\ BridgeTyped /\ TurnRouted(t) /\ StaysUp
  BY <1>1 DEF BridgeInv, BridgeDone, StaysUp
<1>3. /\ bridge_pc' \in [BridgeTurns -> {"idle", "asking", "calling", "over"}]
      /\ call' = [u \in BridgeTurns |-> call'[u]]
      /\ \A u \in BridgeTurns \ {t} : call'[u] = call[u] /\ bridge_pc'[u] = bridge_pc[u]
      /\ bridge_pc'[t] \in {"calling", "over"}
      /\ bridge_pc'[t] = "calling" => call'[t] \in offered[t]
  BY <1>1, <1>2 DEF BridgeTyped
<1>4. TurnRouted(t)'
  <2>1. answer'[t] = Tools!Unanswered /\ \A o \in offered[t] : Offered(o) /\ Launched(o)
    BY <1>1, <1>2, Zenon DEF TurnRouted
  <2>. QED
    BY <1>1, <1>3, <2>1 DEF TurnRouted, Launched
<1>5. /\ offered' = [u \in BridgeTurns |-> offered'[u]]
      /\ answer' = [u \in BridgeTurns |-> answer'[u]]
      /\ read' = [u \in BridgeTurns |-> read'[u]] /\ dotMCP' \subseteq Tools!Entries
      /\ conn' \in [Tools!Entries -> {"none", "live", "failed", "dead"}]
  BY <1>1, <1>2, Zenon DEF BridgeTyped
<1>. QED
  BY <1>1, <1>2, <1>3, <1>4, <1>5, TurnStepKeeps, Zenon

(* What the server that fits is asked for is what was offered, where       *)
(* nothing else is called the same.                                        *)
LEMMA OnlyServer ==
    ASSUME NEW o, Offered(o), Tools!Plain(o.server.name), NEW S, Tools!Alone(o, S),
           NEW e \in S, Tools!Clean(e.name) = Tools!ServerPart(o.name)
    PROVE  e = o.server
<1>1. o.server.name \in Seq(Chars) /\ o.tool \in Seq(Chars)
  BY ServerNames, Zenon DEF Offered
<1>2. Tools!ServerPart(o.name) = Tools!Clean(o.server.name)
  BY <1>1, ServerOfName, Zenon DEF Offered
<1>. QED
  BY <1>2, Zenon DEF Tools!Alone

LEMMA OnlyTool ==
    ASSUME NEW o, Offered(o), NEW S, Tools!Alone(o, S),
           NEW i \in Tools!ToolNamed(o.server, o.name)
    PROVE  ToolsOf[o.server][i] = o.tool
<1>1. /\ i \in DOMAIN ToolsOf[o.server]
      /\ Tools!ToolName(o.server.name, ToolsOf[o.server][i])
            = Tools!ToolName(o.server.name, o.tool)
  BY Zenon DEF Tools!ToolNamed, Offered
<1>2. /\ o.server.name \in Seq(Chars) /\ o.tool \in Seq(Chars)
      /\ ToolsOf[o.server][i] \in Tools!Range(ToolsOf[o.server])
      /\ ToolsOf[o.server][i] \in Seq(Chars)
  BY <1>1, ServerNames, Zenon DEF Offered
<1>3. Tools!Clean(ToolsOf[o.server][i]) = Tools!Clean(o.tool)
  BY <1>1, <1>2, SameTool, Zenon
<1>. QED
  BY <1>2, <1>3, Zenon DEF Tools!Alone

LEMMA FittingServer ==
    ASSUME NEW o, Offered(o), NEW S
    PROVE  /\ Tools!Plain(o.server.name) /\ o.server \in S => Tools!Fitting(S, o.name) # {}
           /\ Tools!Fitting(S, o.name) # {} =>
                Tools!Clean(Servers[Tools!First(Tools!Fitting(S, o.name))])
                  = Tools!ServerPart(o.name)
<1>1. ASSUME Tools!Plain(o.server.name), o.server \in S PROVE Tools!Fitting(S, o.name) # {}
  <2>1. Tools!ServerPart(o.name) = Tools!Clean(o.server.name)
    <3>1. o.server.name \in Seq(Chars) /\ o.tool \in Seq(Chars)
      BY ServerNames, Zenon DEF Offered
    <3>. QED
      BY <1>1, <3>1, ServerOfName, Zenon DEF Offered
  <2>2. PICK i \in DOMAIN Servers : Servers[i] = o.server.name
    BY ServerNames, Zenon DEF Offered
  <2>3. i \in Tools!Fitting(S, o.name)
    BY <1>1, <2>1, <2>2, Zenon DEF Tools!Fitting
  <2>. QED
    BY <2>3
<1>2. ASSUME Tools!Fitting(S, o.name) # {}
      PROVE  Tools!Clean(Servers[Tools!First(Tools!Fitting(S, o.name))])
               = Tools!ServerPart(o.name)
  <2>a. Servers \in Seq(Seq(Chars))
    BY BridgeAssumption, Zenon
  <2>1. DOMAIN Servers \subseteq Nat
    BY <2>a
  <2>2. Tools!First(Tools!Fitting(S, o.name)) \in Tools!Fitting(S, o.name)
    <3>1. Tools!Fitting(S, o.name) \subseteq Nat
      BY <2>1 DEF Tools!Fitting
    <3>. QED
      BY <1>2, <3>1, Lowest
  <2>. QED
    BY <2>2, Zenon DEF Tools!Fitting
<1>. QED
  BY <1>1, <1>2, Zenon

(* No tool is asked: the one offered is not to be had there.               *)
LEMMA ErrorIsHome ==
    ASSUME NEW o, NEW S,
           ~ (o.server \in S /\ Tools!Plain(o.server.name) /\ Tools!Alone(o, S))
    PROVE  Tools!Home(o, S, Tools!Error)
<1>1. ~Tools!Sent(Tools!Error)
  BY DEF Tools!Sent, Tools!Error, Tools!Unanswered
<1>. QED
  BY <1>1, Zenon DEF Tools!Home

LEMMA AskedIsHome ==
    ASSUME NEW t \in BridgeTurns, NEW o, o = call[t], Offered(o), Launched(o), StaysUp,
           NEW S \in SUBSET Tools!Entries, NEW e \in S,
           Tools!Clean(e.name) = Tools!ServerPart(o.name), Tools!Asked(t, e)
    PROVE  \E r : Tools!Answers(t, r) /\ Tools!Home(o, S, r)
<1>. DEFINE named == Tools!ToolNamed(e, o.name)
            Only == o.server \in S /\ Tools!Plain(o.server.name) /\ Tools!Alone(o, S)
<1>0. named # {} => Tools!First(named) \in named
  <2>1. ToolsOf[e] \in Seq(Seq(Chars))
    BY BridgeAssumption
  <2>2. DOMAIN ToolsOf[e] \subseteq Nat
    BY <2>1
  <2>3. named \subseteq Nat
    BY <2>2 DEF Tools!ToolNamed
  <2>. HIDE DEF named
  <2>. QED
    BY <2>3, Lowest
<1>1. Only => e = o.server
  BY OnlyServer, Zenon
<1>2. Only => conn'[e] # "failed" /\ named # {}
  <2>. SUFFICES ASSUME Only PROVE conn'[e] # "failed" /\ named # {}
    OBVIOUS
  <2>1. conn'[e] \in {"live", "dead"}
    BY <1>1, LaunchedKept, Zenon DEF Launched
  <2>2. PICK i \in DOMAIN ToolsOf[e] : ToolsOf[e][i] = o.tool
    BY <1>1, ServerNames, Zenon DEF Offered
  <2>3. i \in named
    BY <1>1, <2>2, Zenon DEF Tools!ToolNamed, Offered
  <2>4. "failed" \notin {"live", "dead"}
    OBVIOUS
  <2>. QED
    BY <2>1, <2>3, <2>4
<1>3. CASE conn'[e] = "failed" \/ named = {}
  <2>1. Tools!Answers(t, Tools!Error)
    BY <1>3, Zenon DEF Tools!Asked
  <2>2. ~Only
    BY <1>2, <1>3
  <2>. QED
    BY <2>1, <2>2, ErrorIsHome
<1>4. CASE ~ (conn'[e] = "failed" \/ named = {})
  <2>. DEFINE x == ToolsOf[e][Tools!First(named)]
  <2>1. PICK kind \in {"answered", "failed"} : Tools!Answers(t, Tools!By(e, x, kind))
    BY <1>4, Zenon DEF Tools!Asked
  <2>2. Tools!First(named) \in named
    BY <1>0, <1>4
  <2>3. Tools!ToolName(e.name, x) = o.name
    BY <2>2, Zenon DEF Tools!ToolNamed
  <2>4. Only => x = o.tool
    BY <1>1, <2>2, OnlyTool, Zenon
  <2>. HIDE DEF x
  <2>. DEFINE r == Tools!By(e, x, kind)
  <2>5. r.kind = kind /\ r.server = e /\ r.tool = x
    BY DEF Tools!By
  <2>. HIDE DEF r
  <2>6. Tools!Home(o, S, r)
    BY <1>1, <2>1, <2>3, <2>4, <2>5, Zenon DEF Tools!Home, Tools!Sent
  <2>. QED
    BY <2>1, <2>6 DEF r
<1>. QED
  BY <1>3, <1>4

LEMMA RouteKeeps ==
    ASSUME BridgeInv, NEW t \in BridgeTurns, Tools!Route(t)
    PROVE  BridgeInv'
<1>1. /\ bridge_pc[t] = "calling"
      /\ UNCHANGED <<probe, config, preApproved, bridged, dotMCP, offered, call>>
  BY Zenon DEF Tools!Route
<1>2. /\ bridged /\ BridgeTyped /\ TurnRouted(t)
      /\ Offered(call[t]) /\ Launched(call[t])
  BY <1>1 DEF BridgeInv, BridgeDone, TurnRouted
<1>a. PICK S \in Tools!Configured :
        LET fits == Tools!Fitting(S, call[t].name) IN
        /\ read' = [read EXCEPT ![t] = S]
        /\ IF fits = {} THEN Tools!Answers(t, Tools!Error) /\ UNCHANGED conn
           ELSE \E e \in S : e.name = Servers[Tools!First(fits)] /\ Tools!Asked(t, e)
  BY Zenon DEF Tools!Route
<1>. DEFINE fits == Tools!Fitting(S, call[t].name)
<1>b. S \in SUBSET Tools!Entries
  BY <1>2, Served
<1>3. \E r : /\ Tools!Answers(t, r) /\ Tools!Home(call[t], S, r)
             /\ conn' \in [Tools!Entries -> {"none", "live", "failed", "dead"}] /\ StaysUp
  <2>1. CASE fits = {}
    <3>1. Tools!Answers(t, Tools!Error) /\ conn' = conn
      BY <1>a, <2>1
    <3>2. ~ (call[t].server \in S /\ Tools!Plain(call[t].server.name))
      BY <1>2, <2>1, FittingServer, Zenon
    <3>3. Tools!Home(call[t], S, Tools!Error)
      BY <3>2, ErrorIsHome, Zenon
    <3>. QED
      BY <1>2, <3>1, <3>3, Zenon DEF StaysUp, BridgeTyped
  <2>2. CASE fits # {}
    <3>1. Tools!Clean(Servers[Tools!First(fits)]) = Tools!ServerPart(call[t].name)
      BY <1>2, <2>2, FittingServer, Zenon
    <3>2. PICK e \in S : e.name = Servers[Tools!First(fits)] /\ Tools!Asked(t, e)
      BY <1>a, <2>2
    <3>3. PICK up : conn' = Tools!Connected({e}, up)
      BY <3>2, Zenon DEF Tools!Asked
    <3>4. {e} \in SUBSET Tools!Entries
      BY <1>b
    <3>5. conn' \in [Tools!Entries -> {"none", "live", "failed", "dead"}] /\ StaysUp
      BY <1>2, <3>3, <3>4, ConnectedKeeps
    <3>6. Tools!Clean(e.name) = Tools!ServerPart(call[t].name)
      BY <3>1, <3>2
    <3>. HIDE DEF fits
    <3>7. \E r : Tools!Answers(t, r) /\ Tools!Home(call[t], S, r)
      BY <1>2, <1>b, <3>2, <3>5, <3>6, AskedIsHome
    <3>. QED
      BY <3>5, <3>7
  <2>. QED
    BY <2>1, <2>2
<1>. HIDE DEF fits
<1>4. PICK r : /\ Tools!Answers(t, r) /\ Tools!Home(call[t], S, r)
               /\ conn' \in [Tools!Entries -> {"none", "live", "failed", "dead"}] /\ StaysUp
  BY <1>3, Zenon
<1>5. /\ answer' = [answer EXCEPT ![t] = r] /\ bridge_pc' = [bridge_pc EXCEPT ![t] = "over"]
      /\ read' = [read EXCEPT ![t] = S]
  BY <1>4, <1>a, Zenon DEF Tools!Answers
<1>6. /\ bridge_pc' \in [BridgeTurns -> {"idle", "asking", "calling", "over"}]
      /\ answer' = [u \in BridgeTurns |-> answer'[u]]
      /\ read' = [u \in BridgeTurns |-> read'[u]]
      /\ \A u \in BridgeTurns \ {t} :
           answer'[u] = answer[u] /\ bridge_pc'[u] = bridge_pc[u] /\ read'[u] = read[u]
      /\ bridge_pc'[t] = "over" /\ answer'[t] = r /\ read'[t] = S
  BY <1>2, <1>5 DEF BridgeTyped
<1>7. TurnRouted(t)'
  <2>1. \A p \in offered[t] : Offered(p) /\ Launched(p)'
    BY <1>2, <1>4, LaunchedKept, Zenon DEF TurnRouted
  <2>2. Tools!Home(call'[t], read'[t], answer'[t])
    BY <1>1, <1>4, <1>6
  <2>3. bridge_pc'[t] # "calling"
    BY <1>6
  <2>. QED
    BY <1>1, <1>6, <2>1, <2>2, <2>3, Zenon DEF TurnRouted, Launched
<1>8. /\ offered' = [u \in BridgeTurns |-> offered'[u]]
      /\ call' = [u \in BridgeTurns |-> call'[u]] /\ dotMCP' \subseteq Tools!Entries
  BY <1>1, <1>2, Zenon DEF BridgeTyped
<1>. QED
  BY <1>1, <1>2, <1>4, <1>6, <1>7, <1>8, TurnStepKeeps, Zenon

LEMMA BridgeStepInv == BridgeInv /\ [Tools!Next]_(Tools!vars) => BridgeInv'
<1>1. ASSUME BridgeInv, UNCHANGED Tools!vars PROVE BridgeInv'
  <2>1. UNCHANGED <<probe, config, preApproved, bridged, dotMCP, conn, offered, call, answer,
                    read, bridge_pc>>
    BY <1>1 DEF Tools!vars, Tools!turnVars
  <2>2. BridgeTyped'
    BY <1>1, <2>1, Zenon DEF BridgeInv, BridgeTyped
  <2>3. BridgeDone'
    BY <1>1, <2>1 DEF BridgeInv, BridgeDone, Answering
  <2>4. \A t \in BridgeTurns : TurnRouted(t)'
    BY <1>1, <2>1, RoutedKept, Zenon DEF StaysUp
  <2>. QED
    BY <2>2, <2>3, <2>4 DEF BridgeInv
<1>2. ASSUME BridgeInv, Tools!Next PROVE BridgeInv'
  BY <1>2, BridgeKeeps, DieOrEditKeeps, OfferKeeps, AskKeeps, RouteKeeps, Zenon DEF Tools!Next
<1>. QED
  BY <1>1, <1>2

(* A call reaches a tool of the name it has, and the one that was offered  *)
(* where the config read for it has that entry and nothing else is called  *)
(* the same, whatever servers die or fail to start, however the config is  *)
(* edited and whichever read of it fails; and only tools of servers that   *)
(* answered are approved.                                                  *)
THEOREM ProviderRoutedHome == Tools!Spec => []RoutedHome
<1>1. ASSUME BridgeInv PROVE RoutedHome
  <2>1. \A t \in BridgeTurns :
          bridge_pc[t] = "over" /\ answer[t] # Tools!Unanswered =>
            Tools!Home(call[t], read[t], answer[t])
    BY <1>1, Zenon DEF BridgeInv, TurnRouted
  <2>2. Tools!Approved
    <3>1. CASE bridged
      <4>1. preApproved = Tools!AllowPatterns(Answering) /\ config \subseteq Answering
        BY <1>1, <3>1 DEF BridgeInv, BridgeDone
      <4>. DEFINE Of(s) == {s.name \o Tools!Under \o x : x \in Tools!Range(ToolsOf[s])}
      <4>2. \A S : Tools!AllowPatterns(S) = UNION {Of(s) : s \in S}
        BY Zenon DEF Tools!AllowPatterns
      <4>3. \A s : \A x \in Tools!Range(ToolsOf[s]) : s.name \o Tools!Under \o x \in Of(s)
        BY Zenon
      <4>. HIDE DEF Of
      <4>4. \A x : x \in preApproved => \E s \in Answering : x \in Tools!AllowPatterns({s})
        BY <4>1, <4>2
      <4>5. \A s \in config : \A x \in Of(s) : x \in preApproved
        BY <4>1, <4>2
      <4>. QED
        BY <4>3, <4>4, <4>5, Zenon DEF Tools!Approved, Answering
    <3>2. CASE ~bridged
      BY <1>1, <3>2, Zenon DEF BridgeInv, BridgeDone, Tools!Approved
    <3>. QED
      BY <3>1, <3>2
  <2>. QED
    BY <2>1, <2>2, Zenon DEF RoutedHome, Tools!RoutedHome
<1>. QED
  BY BridgeInitInv, BridgeStepInv, <1>1, PTL DEF Tools!Spec

-----------------------------------------------------------------------------
(* What earlier runs left behind.                                          *)

IndexSteps == {"doc", "fts", "embed", "create", "pin", "vector"}
ResetSteps == {"empty docs", "empty fts", "drop vec", "empty meta", "read facts"}

Task(step, op, embedder, queue, doc, goal, words, near, found) ==
    [pc |-> step, op |-> op, embedder |-> embedder, queue |-> queue, doc |-> doc,
     goal |-> goal, words |-> words, near |-> near, answer |-> found]
IsTask(r) ==
    r = Task(r.pc, r.op, r.embedder, r.queue, r.doc, r.goal, r.words, r.near, r.answer)
Ids == Nat \ {0}
IdList(s) == \E n \in 0..50 : s \in [1..n -> Ids]

(* A process at a step of its operation, when there are facts F.           *)
TaskFits(r, F) ==
    /\ IsTask(r)
    /\ r.pc = "idle" => r = Recall!Idle
    /\ r.op \in {"write", "reindex"} <=> r.pc \in IndexSteps \cup ResetSteps
    /\ r.pc \in ResetSteps => r.op = "reindex"
    /\ r.pc \in IndexSteps <=> r.queue # <<>>
    /\ r.queue \in Seq(F)
    /\ \A i, j \in DOMAIN r.queue : r.queue[i] = r.queue[j] => i = j
    /\ r.op = "write" => Len(r.queue) = 1
    /\ r.pc \in {"embed", "create", "pin", "vector"} => r.embedder # NoEmbedder
    /\ r.pc \in IndexSteps \ {"doc"} => r.doc \in Ids
    /\ IdList(r.words) /\ IdList(r.near)

DataTyped ==
    /\ facts \in Seq(Recall!Range(FactInputs))
    /\ docs = <<>> \/ \E n \in Ids : DOMAIN docs = 1..n
    /\ \A id \in DOMAIN docs :
          docs[id].ref \in DOMAIN facts /\ docs[id].words = facts[docs[id].ref].words
    /\ DOMAIN fts \subseteq Ids /\ IsFiniteSet(DOMAIN fts)
    /\ vec = [exists |-> vec.exists, dim |-> vec.dim, rows |-> vec.rows]
    /\ DOMAIN vec.rows \subseteq Ids /\ IsFiniteSet(DOMAIN vec.rows)
    /\ ~vec.exists => DOMAIN vec.rows = {}

MemoryTyped ==
    /\ DataTyped
    /\ task = [p \in Writers |-> task[p]]
    /\ \A p \in Writers : TaskFits(task[p], DOMAIN facts)
    /\ \A p \in Writers : task[p].op = "reindex" => reindexed
    /\ disturbed \in BOOLEAN /\ (disturbed => reindexed)

(* The document a process is at is the one of the fact it is at.           *)
Intact(r) == r.doc \in DOMAIN docs /\ docs[r.doc].ref = Head(r.queue)

(* A fact is still to be indexed by a process.                             *)
Covers(r, f) ==
    /\ f \in Recall!Range(r.queue)
    /\ f = Head(r.queue) => r.pc = "doc" \/ (r.pc = "fts" /\ Intact(r))

FactsKept ==
    /\ (\A p \in Writers : ~Recall!Resetting(p)) =>
         \A f \in DOMAIN facts :
            f \in cut \/ Recall!Searchable(f) \/ \E p \in Writers : Covers(task[p], f)
    /\ \A p \in Writers :
          task[p].pc = "fts" /\ task[p].op = "reindex" /\ last = p => Intact(task[p])

(* A reindex is alone, and a fact is on one queue or has one document.     *)
Pending(r) == {f \in Recall!Range(r.queue) : f = Head(r.queue) => r.pc = "doc"}
FactsOnce ==
    /\ \A p, q \in Writers : p # q /\ task[p].op = "reindex" => task[q].op \notin {"write", "reindex"}
    /\ \A p, q \in Writers : p # q =>
          \A f \in Recall!Range(task[p].queue) : f \notin Recall!Range(task[q].queue)
    /\ \A x, y \in DOMAIN docs : docs[x].ref = docs[y].ref => x = y
    /\ \A p \in Writers : \A f \in Pending(task[p]) : \A id \in DOMAIN docs : docs[id].ref # f
    /\ \A p \in Writers : task[p].pc \in IndexSteps \ {"doc"} => Intact(task[p])
    /\ \A p \in Writers : task[p].pc \in ResetSteps \ {"empty docs"} => DOMAIN docs = {}

(* The vectors are of the model the row names, and of the documents there, *)
(* until a reset that emptied the documents has dropped them too.          *)
VectorsFit ==
    /\ meta = NoEmbedder => DOMAIN vec.rows = {}
    /\ \A p \in Writers : task[p].pc = "vector" => meta = task[p].embedder
    /\ \A p \in Writers : task[p].pc \in {"empty meta", "read facts"} => DOMAIN vec.rows = {}
    /\ \A id \in DOMAIN vec.rows :
          /\ vec.rows[id].name = meta.name
          /\ id \in DOMAIN docs => vec.rows[id].ref = docs[id].ref
          /\ id \in DOMAIN docs \/ \E p \in Writers : task[p].pc \in {"empty fts", "drop vec"}

(* Until an index is built anew a document is found by words it has.       *)
WordsFit ==
    /\ \A id \in DOMAIN fts : id \in DOMAIN docs /\ fts[id] \subseteq docs[id].words
    /\ \A p \in Writers : \A id \in Recall!Range(task[p].words) :
          id \in DOMAIN docs /\ docs[id].words \intersect task[p].goal # {}

(* An answer, also when facts have been added since.                       *)
InBoth(r, id) == id \in Recall!Range(r.words) /\ id \in Recall!Range(r.near)
AnswerFits(r) ==
    \A i \in DOMAIN r.answer :
       /\ r.answer[i].ref \in DOMAIN facts
       /\ \A j \in DOMAIN r.answer :
             j < i /\ InBoth(r, r.answer[i].id) => InBoth(r, r.answer[j].id)
       /\ ~reindexed /\ r.answer[i].id \in Recall!Range(r.words) =>
             facts[r.answer[i].ref].words \intersect r.goal # {}

MemoryInv ==
    /\ MemoryTyped /\ FactsKept
    /\ ~disturbed => FactsOnce /\ VectorsFit
    /\ ~reindexed => WordsFit
    /\ \A p \in Writers : task[p].pc = "answered" => AnswerFits(task[p])

-----------------------------------------------------------------------------
(* Tasks.                                                                  *)
Others(p) ==
    task' = [q \in Writers |-> task'[q]] /\ \A q \in Writers \ {p} : task'[q] = task[q]
Moved(r, t, step) ==
    /\ IsTask(t) /\ t.pc = step
    /\ t.op = r.op /\ t.embedder = r.embedder /\ t.queue = r.queue /\ t.doc = r.doc
    /\ t.goal = r.goal /\ t.words = r.words /\ t.near = r.near /\ t.answer = r.answer
(* Of the five fields that are set with the step, all but one are kept.    *)
Altered(r, t, field, step) ==
    /\ IsTask(t) /\ t.pc = step /\ t.op = r.op /\ t.embedder = r.embedder /\ t.goal = r.goal
    /\ field = "queue" \/ t.queue = r.queue
    /\ field = "doc" \/ t.doc = r.doc
    /\ field = "words" \/ t.words = r.words
    /\ field = "near" \/ t.near = r.near
    /\ field = "answer" \/ t.answer = r.answer
Advanced(r, t) ==
    \/ Len(r.queue) = 1 /\ t = Recall!Idle
    \/ /\ Len(r.queue) # 1 /\ IsTask(t) /\ t.pc = "doc" /\ t.queue = Tail(r.queue)
       /\ t.op = r.op /\ t.embedder = r.embedder /\ t.doc = r.doc
       /\ t.goal = r.goal /\ t.words = r.words /\ t.near = r.near /\ t.answer = r.answer

LEMMA StepSet ==
    ASSUME NEW r, IsTask(r), NEW step PROVE Moved(r, [r EXCEPT !.pc = step], step)
<1>1. [r EXCEPT !.pc = step] =
        [pc |-> step, op |-> r.op, embedder |-> r.embedder, queue |-> r.queue, doc |-> r.doc,
         goal |-> r.goal, words |-> r.words, near |-> r.near, answer |-> r.answer]
  BY DEF IsTask, Task
<1>. QED
  BY <1>1 DEF Moved, IsTask, Task

(* The fields that are set with the step.                                  *)
PutQueue(r, v, step) == [r EXCEPT !.queue = v, !.pc = step]
PutDoc(r, v, step) == [r EXCEPT !.doc = v, !.pc = step]
PutWords(r, v, step) == [r EXCEPT !.words = v, !.pc = step]
PutNear(r, v, step) == [r EXCEPT !.near = v, !.pc = step]
PutAnswer(r, v, step) == [r EXCEPT !.answer = v, !.pc = step]

Agree(r, t) ==
    /\ t.queue = r.queue /\ t.doc = r.doc
    /\ t.words = r.words /\ t.near = r.near /\ t.answer = r.answer

LEMMA ThenStep ==
    ASSUME NEW r, NEW u, NEW field, Altered(r, u, field, r.pc), NEW step,
           NEW t, t = [u EXCEPT !.pc = step]
    PROVE  Altered(r, t, field, step) /\ Agree(u, t)
<1>1. Moved(u, t, step)
  BY StepSet DEF Altered
<1>. QED
  BY <1>1 DEF Altered, Moved, Agree

LEMMA QueueSet ==
    ASSUME NEW r, IsTask(r), NEW v, NEW step
    PROVE  Altered(r, PutQueue(r, v, step), "queue", step) /\ PutQueue(r, v, step).queue = v
<1>. DEFINE t == PutQueue(r, v, step)
<1>1. PICK u : u = [r EXCEPT !.queue = v]
  OBVIOUS
<1>2. u = Task(r.pc, r.op, r.embedder, v, r.doc, r.goal, r.words, r.near, r.answer)
  BY <1>1 DEF IsTask, Task
<1>3. Altered(r, u, "queue", r.pc) /\ u.queue = v
  BY <1>2 DEF Altered, IsTask, Task
<1>4. t = [u EXCEPT !.pc = step]
  BY <1>1, Zenon DEF PutQueue
<1>. HIDE DEF t
<1>5. Altered(r, t, "queue", step) /\ Agree(u, t)
  BY <1>3, <1>4, ThenStep
<1>. QED
  BY <1>3, <1>5, Zenon DEF Agree, t

LEMMA DocSet ==
    ASSUME NEW r, IsTask(r), NEW v, NEW step
    PROVE  Altered(r, PutDoc(r, v, step), "doc", step) /\ PutDoc(r, v, step).doc = v
<1>. DEFINE t == PutDoc(r, v, step)
<1>1. PICK u : u = [r EXCEPT !.doc = v]
  OBVIOUS
<1>2. u = Task(r.pc, r.op, r.embedder, r.queue, v, r.goal, r.words, r.near, r.answer)
  BY <1>1 DEF IsTask, Task
<1>3. Altered(r, u, "doc", r.pc) /\ u.doc = v
  BY <1>2 DEF Altered, IsTask, Task
<1>4. t = [u EXCEPT !.pc = step]
  BY <1>1, Zenon DEF PutDoc
<1>. HIDE DEF t
<1>5. Altered(r, t, "doc", step) /\ Agree(u, t)
  BY <1>3, <1>4, ThenStep
<1>. QED
  BY <1>3, <1>5, Zenon DEF Agree, t

LEMMA WordsSet ==
    ASSUME NEW r, IsTask(r), NEW v, NEW step
    PROVE  Altered(r, PutWords(r, v, step), "words", step) /\ PutWords(r, v, step).words = v
<1>. DEFINE t == PutWords(r, v, step)
<1>1. PICK u : u = [r EXCEPT !.words = v]
  OBVIOUS
<1>2. u = Task(r.pc, r.op, r.embedder, r.queue, r.doc, r.goal, v, r.near, r.answer)
  BY <1>1 DEF IsTask, Task
<1>3. Altered(r, u, "words", r.pc) /\ u.words = v
  BY <1>2 DEF Altered, IsTask, Task
<1>4. t = [u EXCEPT !.pc = step]
  BY <1>1, Zenon DEF PutWords
<1>. HIDE DEF t
<1>5. Altered(r, t, "words", step) /\ Agree(u, t)
  BY <1>3, <1>4, ThenStep
<1>. QED
  BY <1>3, <1>5, Zenon DEF Agree, t

LEMMA NearSet ==
    ASSUME NEW r, IsTask(r), NEW v, NEW step
    PROVE  Altered(r, PutNear(r, v, step), "near", step) /\ PutNear(r, v, step).near = v
<1>. DEFINE t == PutNear(r, v, step)
<1>1. PICK u : u = [r EXCEPT !.near = v]
  OBVIOUS
<1>2. u = Task(r.pc, r.op, r.embedder, r.queue, r.doc, r.goal, r.words, v, r.answer)
  BY <1>1 DEF IsTask, Task
<1>3. Altered(r, u, "near", r.pc) /\ u.near = v
  BY <1>2 DEF Altered, IsTask, Task
<1>4. t = [u EXCEPT !.pc = step]
  BY <1>1, Zenon DEF PutNear
<1>. HIDE DEF t
<1>5. Altered(r, t, "near", step) /\ Agree(u, t)
  BY <1>3, <1>4, ThenStep
<1>. QED
  BY <1>3, <1>5, Zenon DEF Agree, t

LEMMA AnswerSet ==
    ASSUME NEW r, IsTask(r), NEW v, NEW step
    PROVE  Altered(r, PutAnswer(r, v, step), "answer", step) /\ PutAnswer(r, v, step).answer = v
<1>. DEFINE t == PutAnswer(r, v, step)
<1>1. PICK u : u = [r EXCEPT !.answer = v]
  OBVIOUS
<1>2. u = Task(r.pc, r.op, r.embedder, r.queue, r.doc, r.goal, r.words, r.near, v)
  BY <1>1 DEF IsTask, Task
<1>3. Altered(r, u, "answer", r.pc) /\ u.answer = v
  BY <1>2 DEF Altered, IsTask, Task
<1>4. t = [u EXCEPT !.pc = step]
  BY <1>1, Zenon DEF PutAnswer
<1>. HIDE DEF t
<1>5. Altered(r, t, "answer", step) /\ Agree(u, t)
  BY <1>3, <1>4, ThenStep
<1>. QED
  BY <1>3, <1>5, Zenon DEF Agree, t

LEMMA IdleTask ==
    /\ IsTask(Recall!Idle) /\ Recall!Idle.pc = "idle" /\ Recall!Idle.op = "none"
    /\ Recall!Idle.queue = <<>> /\ Recall!Idle.words = <<>> /\ Recall!Idle.near = <<>>
    /\ Recall!Idle.embedder = NoEmbedder
<1>1. IsTask(Recall!Idle)
  BY Zenon DEF IsTask, Task, Recall!Idle
<1>. QED
  BY <1>1 DEF Recall!Idle

LEMMA EmptyRange == Recall!Range(<<>>) = {}
  BY DEF Recall!Range

LEMMA InRange ==
    ASSUME NEW s, NEW x
    PROVE  x \in Recall!Range(s) <=> \E i \in DOMAIN s : s[i] = x
  BY Zenon DEF Recall!Range

LEMMA IdleFits == ASSUME NEW F PROVE TaskFits(Recall!Idle, F)
<1>1. IdList(<<>>)
  <2>1. <<>> \in [1..0 -> Ids]
    OBVIOUS
  <2>. QED
    BY <2>1 DEF IdList
<1>2. <<>> \in Seq(F) /\ DOMAIN <<>> = {}
  OBVIOUS
<1>. QED
  BY <1>1, <1>2, IdleTask DEF TaskFits, IndexSteps, ResetSteps

LEMMA Going ==
    ASSUME MemoryTyped, NEW p \in Writers, NEW step, Recall!Goto(p, step)
    PROVE  Others(p) /\ Moved(task[p], task'[p], step)
<1>1. task = [q \in Writers |-> task[q]] /\ IsTask(task[p])
  BY Zenon DEF MemoryTyped, TaskFits
<1>2. task' = [task EXCEPT ![p] = [task[p] EXCEPT !.pc = step]]
  BY Zenon DEF Recall!Goto
<1>3. task'[p] = [task[p] EXCEPT !.pc = step] /\ Others(p)
  BY <1>1, <1>2, Zenon DEF Others
<1>4. Moved(task[p], [task[p] EXCEPT !.pc = step], step)
  BY <1>1, StepSet, Zenon
<1>. QED
  BY <1>3, <1>4, Zenon

LEMMA Leaving ==
    ASSUME MemoryTyped, NEW p \in Writers, Recall!Leave(p)
    PROVE  Others(p) /\ task'[p] = Recall!Idle
<1>1. task = [q \in Writers |-> task[q]]
  BY Zenon DEF MemoryTyped
<1>2. task' = [task EXCEPT ![p] = Recall!Idle]
  BY Zenon DEF Recall!Leave
<1>. QED
  BY <1>1, <1>2, Zenon DEF Others

LEMMA Finishing ==
    ASSUME MemoryTyped, NEW p \in Writers, Recall!Finish(p)
    PROVE  Others(p) /\ Advanced(task[p], task'[p])
<1>1. CASE Len(task[p].queue) = 1
  <2>1. Recall!Leave(p)
    BY <1>1, Zenon DEF Recall!Finish
  <2>. QED
    BY <1>1, <2>1, Leaving, Zenon DEF Advanced
<1>2. CASE Len(task[p].queue) # 1
  <2>1. task = [q \in Writers |-> task[q]] /\ IsTask(task[p])
    BY Zenon DEF MemoryTyped, TaskFits
  <2>2. task' = [task EXCEPT ![p] = PutQueue(task[p], Tail(task[p].queue), "doc")]
    BY <1>2, Zenon DEF Recall!Finish, PutQueue
  <2>3. task'[p] = PutQueue(task[p], Tail(task[p].queue), "doc") /\ Others(p)
    BY <2>1, <2>2, Zenon DEF Others
  <2>4. /\ Altered(task[p], task'[p], "queue", "doc")
        /\ task'[p].queue = Tail(task[p].queue)
    BY <2>1, <2>3, QueueSet
  <2>. QED
    BY <1>2, <2>3, <2>4 DEF Advanced, Altered
<1>. QED
  BY <1>1, <1>2

LEMMA FitsGrows ==
    ASSUME NEW r, NEW F, NEW G, F \subseteq G, TaskFits(r, F)
    PROVE  TaskFits(r, G)
<1>1. r.queue \in Seq(F) /\ \A q \in Seq(F) : q \in Seq(G)
  BY DEF TaskFits
<1>. QED
  BY <1>1, Zenon DEF TaskFits

LEMMA FitsMoved ==
    ASSUME NEW r, NEW t, NEW F, NEW step, TaskFits(r, F), Moved(r, t, step), step # "idle",
           step \in IndexSteps <=> r.pc \in IndexSteps,
           step \in ResetSteps <=> r.pc \in ResetSteps,
           step \in {"embed", "create", "pin", "vector"} => r.embedder # NoEmbedder,
           step \in IndexSteps \ {"doc"} => r.doc \in Ids
    PROVE  TaskFits(t, F)
<1>1. IsTask(t) /\ (t.pc = "idle" => t = Recall!Idle) /\ (t.pc \in IndexSteps <=> t.queue # <<>>)
  BY DEF Moved, TaskFits
<1>2. /\ t.op \in {"write", "reindex"} <=> t.pc \in IndexSteps \cup ResetSteps
      /\ t.pc \in ResetSteps => t.op = "reindex"
  BY Zenon DEF Moved, TaskFits
<1>3. /\ t.queue \in Seq(F) /\ (t.op = "write" => Len(t.queue) = 1)
      /\ \A i, j \in DOMAIN t.queue : t.queue[i] = t.queue[j] => i = j
      /\ IdList(t.words) /\ IdList(t.near)
      /\ t.pc \in {"embed", "create", "pin", "vector"} => t.embedder # NoEmbedder
      /\ t.pc \in IndexSteps \ {"doc"} => t.doc \in Ids
  BY Zenon DEF Moved, TaskFits
<1>. QED
  BY <1>1, <1>2, <1>3, Zenon DEF TaskFits

LEMMA QueueParts ==
    ASSUME NEW r, NEW F, TaskFits(r, F), r.pc \in IndexSteps
    PROVE  /\ Len(r.queue) \in Nat \ {0} /\ Head(r.queue) \in F
           /\ Head(r.queue) \in Recall!Range(r.queue) /\ Recall!Range(r.queue) \subseteq F
           /\ Len(r.queue) = 1 => Recall!Range(r.queue) = {Head(r.queue)}
           /\ Tail(r.queue) \in Seq(F)
           /\ Len(r.queue) # 1 => Tail(r.queue) # <<>>
           /\ \A i, j \in DOMAIN Tail(r.queue) : Tail(r.queue)[i] = Tail(r.queue)[j] => i = j
           /\ Recall!Range(Tail(r.queue)) = Recall!Range(r.queue) \ {Head(r.queue)}
<1>1. r.queue \in Seq(F) /\ r.queue # <<>>
  BY DEF TaskFits
<1>2. \A i, j \in DOMAIN r.queue : r.queue[i] = r.queue[j] => i = j
  BY DEF TaskFits
<1>. DEFINE q == r.queue
<1>. HIDE DEF q
<1>3. /\ Len(q) \in Nat \ {0} /\ Head(q) \in F /\ Head(q) = q[1] /\ DOMAIN q = 1..Len(q)
      /\ Tail(q) \in Seq(F) /\ Len(Tail(q)) = Len(q) - 1 /\ DOMAIN Tail(q) = 1..(Len(q) - 1)
      /\ \A i \in 1..(Len(q) - 1) : Tail(q)[i] = q[i + 1]
      /\ \A i \in 1..Len(q) : q[i] \in F
  BY <1>1 DEF q
<1>4. Len(q) # 1 => Tail(q) # <<>>
  <2>1. Len(<<>>) = 0
    OBVIOUS
  <2>2. Tail(q) = <<>> => Len(q) - 1 = 0
    BY <1>3, <2>1, Zenon
  <2>. QED
    BY <1>3, <2>2
<1>5. Recall!Range(q) = {q[i] : i \in 1..Len(q)}
  BY <1>3, Zenon DEF Recall!Range
<1>6. Recall!Range(Tail(q)) = {Tail(q)[i] : i \in 1..(Len(q) - 1)}
  BY <1>3, Zenon DEF Recall!Range
<1>7. \A i, j \in 1..Len(q) : q[i] = q[j] => i = j
  BY <1>2, <1>3 DEF q
<1>8. Recall!Range(Tail(q)) = {q[i] : i \in 2..Len(q)}
  <2>1. \A i \in 1..(Len(q) - 1) : i + 1 \in 2..Len(q) /\ Tail(q)[i] = q[i + 1]
    BY <1>3
  <2>2. \A i \in 2..Len(q) : i - 1 \in 1..(Len(q) - 1) /\ Tail(q)[i - 1] = q[i]
    BY <1>3
  <2>3. \A x : (\E i \in 1..(Len(q) - 1) : x = Tail(q)[i]) <=> \E i \in 2..Len(q) : x = q[i]
    BY <2>1, <2>2, Zenon
  <2>. QED
    BY <1>6, <2>3, Zenon
<1>9. {q[i] : i \in 2..Len(q)} = {q[i] : i \in 1..Len(q)} \ {q[1]}
  BY <1>3, <1>7
<1>10. \A i, j \in DOMAIN Tail(q) : Tail(q)[i] = Tail(q)[j] => i = j
  BY <1>3, <1>7
<1>11. /\ Recall!Range(q) \subseteq F /\ Head(q) \in Recall!Range(q)
       /\ Len(q) = 1 => Recall!Range(q) = {Head(q)}
  BY <1>3, <1>5
<1>12. Recall!Range(Tail(q)) = Recall!Range(q) \ {Head(q)}
  BY <1>3, <1>5, <1>8, <1>9, Zenon
<1>. QED
  BY <1>3, <1>4, <1>10, <1>11, <1>12 DEF q

(* The head of a queue is done with.                                       *)
LEMMA AdvancedFits ==
    ASSUME NEW r, NEW t, NEW F, TaskFits(r, F), r.pc \in IndexSteps, Advanced(r, t)
    PROVE  /\ TaskFits(t, F) /\ t.pc \in {"idle", "doc"} /\ t.op \in {"none", r.op}
           /\ t.queue # <<>> => t.pc = "doc"
           /\ Recall!Range(t.queue) = Recall!Range(r.queue) \ {Head(r.queue)}
           /\ t.words = <<>> \/ (t.words = r.words /\ t.goal = r.goal)
<1>1. CASE Len(r.queue) = 1 /\ t = Recall!Idle
  BY <1>1, IdleFits, IdleTask, EmptyRange, QueueParts
<1>2. CASE Len(r.queue) # 1 /\ t.pc = "doc" /\ t.queue = Tail(r.queue)
  <2>1. /\ IsTask(t) /\ t.op = r.op /\ t.goal = r.goal
        /\ t.words = r.words /\ t.near = r.near
    BY <1>2 DEF Advanced, TaskFits, IdleTask
  <2>2. /\ t.queue \in Seq(F) /\ t.queue # <<>>
        /\ \A i, j \in DOMAIN t.queue : t.queue[i] = t.queue[j] => i = j
        /\ Recall!Range(t.queue) = Recall!Range(r.queue) \ {Head(r.queue)}
    <3>. DEFINE q == Tail(r.queue)
    <3>1. /\ q \in Seq(F) /\ q # <<>> /\ (\A i, j \in DOMAIN q : q[i] = q[j] => i = j)
          /\ Recall!Range(q) = Recall!Range(r.queue) \ {Head(r.queue)}
      BY <1>2, QueueParts
    <3>. QED
      BY <1>2, <3>1, Zenon
  <2>3. t.op \in {"write", "reindex"} /\ t.op # "write"
    BY <1>2, <2>1 DEF TaskFits
  <2>4. IdList(t.words) /\ IdList(t.near)
    BY <2>1 DEF TaskFits
  <2>5. t.pc = "doc"
    BY <1>2
  <2>6. /\ t.pc \in IndexSteps /\ t.pc \notin ResetSteps /\ t.pc # "idle"
        /\ t.pc \notin {"embed", "create", "pin", "vector"} /\ t.pc \notin IndexSteps \ {"doc"}
    BY <2>5 DEF IndexSteps, ResetSteps
  <2>7. TaskFits(t, F)
    BY <2>1, <2>2, <2>3, <2>4, <2>6, Zenon DEF TaskFits
  <2>. QED
    BY <2>1, <2>2, <2>5, <2>7
<1>. QED
  BY <1>1, <1>2 DEF Advanced

LEMMA TasksFit ==
    ASSUME MemoryTyped, NEW p \in Writers, Others(p), DOMAIN facts \subseteq DOMAIN facts',
           reindexed => reindexed', TaskFits(task'[p], DOMAIN facts'),
           task'[p].op = "reindex" => reindexed'
    PROVE  /\ task' = [q \in Writers |-> task'[q]]
           /\ \A q \in Writers : TaskFits(task'[q], DOMAIN facts')
           /\ \A q \in Writers : task'[q].op = "reindex" => reindexed'
<1>1. ASSUME NEW q \in Writers, q # p
      PROVE  TaskFits(task'[q], DOMAIN facts') /\ (task'[q].op = "reindex" => reindexed')
  <2>1. task'[q] = task[q] /\ TaskFits(task[q], DOMAIN facts) /\ (task[q].op = "reindex" => reindexed)
    BY <1>1, Zenon DEF Others, MemoryTyped
  <2>2. TaskFits(task[q], DOMAIN facts')
    BY <2>1, FitsGrows
  <2>. QED
    BY <2>1, <2>2
<1>. QED
  BY <1>1, Zenon DEF Others

-----------------------------------------------------------------------------
(* What a step of one process keeps.                                       *)
FactsGrown == \A f \in DOMAIN facts : f \in DOMAIN facts' /\ facts'[f] = facts[f]
DocsGrown == \A id \in DOMAIN docs : id \in DOMAIN docs' /\ docs'[id] = docs[id]
FtsGrown == \A id \in DOMAIN fts : id \in DOMAIN fts' /\ fts[id] \subseteq fts'[id]

LEMMA StillSearchable ==
    ASSUME FactsGrown, DocsGrown, FtsGrown, NEW f \in DOMAIN facts, Recall!Searchable(f)
    PROVE  Recall!Searchable(f)'
<1>1. PICK id \in DOMAIN docs : id \in DOMAIN fts /\ docs[id].ref = f /\ facts[f].words \subseteq fts[id]
  BY Zenon DEF Recall!Searchable
<1>2. /\ id \in DOMAIN docs' /\ docs'[id].ref = f
      /\ id \in DOMAIN fts' /\ facts'[f].words \subseteq fts'[id]
  BY <1>1, Zenon DEF FactsGrown, DocsGrown, FtsGrown
<1>. QED
  BY <1>2, Zenon DEF Recall!Searchable

LEMMA OthersIntact ==
    ASSUME NEW p \in Writers, Others(p), DocsGrown, NEW q \in Writers, q # p
    PROVE  /\ Intact(task[q]) => Intact(task[q])'
           /\ \A f : Covers(task[q], f) => Covers(task[q], f)'
<1>1. task'[q] = task[q]
  BY DEF Others
<1>2. Intact(task[q]) => Intact(task[q])'
  BY <1>1, Zenon DEF Intact, DocsGrown
<1>. QED
  BY <1>1, <1>2, Zenon DEF Covers

LEMMA FactsKeep ==
    ASSUME FactsKept, NEW p \in Writers, Others(p), FactsGrown, DocsGrown, FtsGrown,
           task[p].pc \notin ResetSteps, last' = last,
           \A f \in DOMAIN facts' : f \in DOMAIN facts \/ Covers(task[p], f)',
           \A f \in DOMAIN facts : Covers(task[p], f) =>
              f \in cut' \/ Recall!Searchable(f)' \/ Covers(task[p], f)',
           \A f \in cut : f \in cut' \/ Recall!Searchable(f)',
           task'[p].pc = "fts" => Intact(task[p])' \/ (task[p].pc = "fts" /\ task'[p] = task[p])
    PROVE  FactsKept'
<1>1. ASSUME NEW q \in Writers, task'[q].pc = "fts", task'[q].op = "reindex", last' = q
      PROVE  Intact(task[q])'
  <2>1. CASE q # p
    BY <1>1, <2>1, OthersIntact, Zenon DEF FactsKept, Others
  <2>2. CASE q = p
    <3>1. CASE task[p].pc = "fts" /\ task'[p] = task[p]
      <4>1. Intact(task[p])
        BY <1>1, <2>2, <3>1 DEF FactsKept
      <4>. QED
        BY <2>2, <3>1, <4>1, Zenon DEF Intact, DocsGrown
    <3>. QED
      BY <1>1, <2>2, <3>1
  <2>. QED
    BY <2>1, <2>2
<1>2. ASSUME \A q \in Writers : ~Recall!Resetting(q)', NEW f \in DOMAIN facts'
      PROVE  f \in cut' \/ Recall!Searchable(f)' \/ \E q \in Writers : Covers(task[q], f)'
  <2>1. CASE f \in DOMAIN facts
    <3>1. \A q \in Writers : ~Recall!Resetting(q)
      BY <1>2, Zenon DEF Recall!Resetting, Others, ResetSteps
    <3>2. f \in cut \/ Recall!Searchable(f) \/ \E q \in Writers : Covers(task[q], f)
      BY <2>1, <3>1, Zenon DEF FactsKept
    <3>3. CASE Recall!Searchable(f)
      BY <2>1, <3>3, StillSearchable
    <3>4. CASE \E q \in Writers : Covers(task[q], f)
      <4>1. PICK q \in Writers : Covers(task[q], f)
        BY <3>4
      <4>2. CASE q = p
        BY <2>1, <4>1, <4>2, Zenon
      <4>3. CASE q # p
        BY <4>1, <4>3, OthersIntact, Zenon
      <4>. QED
        BY <4>2, <4>3
    <3>. QED
      BY <3>2, <3>3, <3>4, Zenon
  <2>. QED
    BY <2>1, Zenon
<1>. QED
  BY <1>1, <1>2, Zenon DEF FactsKept

LEMMA FactsKeptInReset ==
    ASSUME FactsKept, NEW p \in Writers, Others(p), task'[p].pc \in ResetSteps,
           (docs' = docs /\ last' = last) \/ last' = p
    PROVE  FactsKept'
<1>1. Recall!Resetting(p)' /\ task'[p].pc # "fts"
  BY DEF Recall!Resetting, ResetSteps
<1>2. ASSUME NEW q \in Writers, task'[q].pc = "fts", task'[q].op = "reindex", last' = q
      PROVE  Intact(task[q])'
  <2>1. q # p /\ task'[q] = task[q]
    BY <1>1, <1>2, Zenon DEF Others
  <2>2. docs' = docs /\ last' = last
    BY <1>2, <2>1
  <2>3. Intact(task[q])
    BY <1>2, <2>1, <2>2, Zenon DEF FactsKept
  <2>. QED
    BY <2>1, <2>2, <2>3, Zenon DEF Intact
<1>. QED
  BY <1>1, <1>2, Zenon DEF FactsKept

LEMMA OnceKeepsAlone ==
    ASSUME FactsOnce, NEW p \in Writers, Others(p), docs' = docs,
           \A q \in Writers \ {p} :
              /\ task'[p].op = "reindex" => task[q].op \notin {"write", "reindex"}
              /\ task[q].op = "reindex" => task'[p].op \notin {"write", "reindex"},
           Recall!Range(task'[p].queue) \subseteq Recall!Range(task[p].queue),
           Pending(task'[p]) \subseteq Pending(task[p]),
           task'[p].pc \in IndexSteps \ {"doc"} => Intact(task[p])',
           task'[p].pc \in ResetSteps \ {"empty docs"} => DOMAIN docs = {}
    PROVE  FactsOnce'
<1>1. \A q \in Writers : q # p => task'[q] = task[q]
  BY DEF Others
<1>2. \A q \in Writers :
         /\ Recall!Range(task'[q].queue) \subseteq Recall!Range(task[q].queue)
         /\ Pending(task'[q]) \subseteq Pending(task[q])
         /\ task'[q].pc \in ResetSteps \ {"empty docs"} => DOMAIN docs = {}
  BY <1>1, Zenon DEF FactsOnce
<1>3. \A q \in Writers : task'[q].pc \in IndexSteps \ {"doc"} => Intact(task[q])'
  BY <1>1, Zenon DEF FactsOnce, Intact
<1>4. \A q, r \in Writers : q # r /\ task'[q].op = "reindex" => task'[r].op \notin {"write", "reindex"}
  BY <1>1, Zenon DEF FactsOnce
<1>5. \A q, r \in Writers : q # r =>
         \A f \in Recall!Range(task'[q].queue) : f \notin Recall!Range(task'[r].queue)
  BY <1>2, Zenon DEF FactsOnce
<1>6. \A q \in Writers : \A f \in Pending(task'[q]) : \A id \in DOMAIN docs : docs[id].ref # f
  BY <1>2, Zenon DEF FactsOnce
<1>7. \A x, y \in DOMAIN docs : docs[x].ref = docs[y].ref => x = y
  BY Zenon DEF FactsOnce
<1>. QED
  BY <1>2, <1>3, <1>4, <1>5, <1>6, <1>7, Zenon DEF FactsOnce

LEMMA OnceKeeps ==
    ASSUME FactsOnce, NEW p \in Writers, Others(p), docs' = docs,
           task'[p].op \in {"write", "reindex"} => task'[p].op = task[p].op,
           Recall!Range(task'[p].queue) \subseteq Recall!Range(task[p].queue),
           Pending(task'[p]) \subseteq Pending(task[p]),
           task'[p].pc \in IndexSteps \ {"doc"} => Intact(task[p])',
           task'[p].pc \in ResetSteps \ {"empty docs"} => DOMAIN docs = {}
    PROVE  FactsOnce'
<1>1. \A q \in Writers \ {p} :
         /\ task'[p].op = "reindex" => task[q].op \notin {"write", "reindex"}
         /\ task[q].op = "reindex" => task'[p].op \notin {"write", "reindex"}
  BY DEF FactsOnce
<1>. QED
  BY <1>1, OnceKeepsAlone

LEMMA VectorsKeep ==
    ASSUME VectorsFit, NEW p \in Writers, Others(p), meta' = meta, vec' = vec, DocsGrown,
           \A id \in DOMAIN vec.rows : id \in DOMAIN docs' => id \in DOMAIN docs,
           task'[p].pc = "vector" => meta = task'[p].embedder,
           task'[p].pc \in {"empty meta", "read facts"} => DOMAIN vec.rows = {},
           task[p].pc \in {"empty fts", "drop vec"} =>
              task'[p].pc \in {"empty fts", "drop vec"} \/ DOMAIN vec.rows = {}
    PROVE  VectorsFit'
<1>1. \A q \in Writers : q # p => task'[q] = task[q]
  BY DEF Others
<1>2. /\ meta' = NoEmbedder => DOMAIN vec'.rows = {}
      /\ \A q \in Writers : task'[q].pc = "vector" => meta' = task'[q].embedder
      /\ \A q \in Writers : task'[q].pc \in {"empty meta", "read facts"} => DOMAIN vec'.rows = {}
  BY <1>1, Zenon DEF VectorsFit
<1>3. ASSUME NEW id \in DOMAIN vec.rows
      PROVE  /\ vec.rows[id].name = meta.name
             /\ id \in DOMAIN docs' => vec.rows[id].ref = docs'[id].ref
             /\ id \in DOMAIN docs' \/ \E q \in Writers : task'[q].pc \in {"empty fts", "drop vec"}
  <2>1. id \in DOMAIN docs => id \in DOMAIN docs' /\ docs'[id] = docs[id]
    BY DEF DocsGrown
  <2>2. vec.rows[id].name = meta.name /\ (id \in DOMAIN docs' => vec.rows[id].ref = docs'[id].ref)
    BY <2>1, Zenon DEF VectorsFit
  <2>3. CASE id \in DOMAIN docs
    BY <2>1, <2>2, <2>3
  <2>4. CASE id \notin DOMAIN docs
    <3>1. PICK q \in Writers : task[q].pc \in {"empty fts", "drop vec"}
      BY <2>4, Zenon DEF VectorsFit
    <3>2. task'[q].pc \in {"empty fts", "drop vec"}
      BY <1>1, <3>1, Zenon
    <3>. QED
      BY <2>2, <3>2
  <2>. QED
    BY <2>3, <2>4
<1>. QED
  BY <1>2, <1>3, Zenon DEF VectorsFit

LEMMA WordsKeep ==
    ASSUME WordsFit, NEW p \in Writers, Others(p), DocsGrown,
           \A id \in DOMAIN fts' : id \in DOMAIN docs' /\ fts'[id] \subseteq docs'[id].words,
           \A id \in Recall!Range(task'[p].words) :
              id \in DOMAIN docs /\ docs[id].words \intersect task'[p].goal # {}
    PROVE  WordsFit'
<1>1. \A q \in Writers : q # p => task'[q] = task[q]
  BY DEF Others
<1>2. ASSUME NEW q \in Writers, NEW id \in Recall!Range(task'[q].words)
      PROVE  id \in DOMAIN docs /\ docs[id].words \intersect task'[q].goal # {}
  BY <1>1, <1>2, Zenon DEF WordsFit
<1>3. ASSUME NEW q \in Writers, NEW id \in Recall!Range(task'[q].words)
      PROVE  id \in DOMAIN docs' /\ docs'[id].words \intersect task'[q].goal # {}
  BY <1>2, Zenon DEF DocsGrown
<1>. QED
  BY <1>3, Zenon DEF WordsFit

LEMMA AnswersKeep ==
    ASSUME NEW p \in Writers, Others(p), FactsGrown, reindexed => reindexed',
           \A q \in Writers : task[q].pc = "answered" => AnswerFits(task[q]),
           task'[p].pc = "answered" => AnswerFits(task[p])'
    PROVE  \A q \in Writers : task'[q].pc = "answered" => AnswerFits(task[q])'
<1>1. ASSUME NEW q \in Writers, q # p, task'[q].pc = "answered" PROVE AnswerFits(task[q])'
  <2>1. task'[q] = task[q] /\ AnswerFits(task[q])
    BY <1>1, Zenon DEF Others
  <2>. QED
    BY <2>1, Zenon DEF AnswerFits, InBoth, FactsGrown
<1>. QED
  BY <1>1

LEMMA Beginning ==
    ASSUME MemoryTyped, NEW p \in Writers, NEW what, NEW step, NEW queue, NEW goal,
           Recall!Begin(p, what, step, queue, goal)
    PROVE  /\ Others(p) /\ task[p] = Recall!Idle
           /\ IsTask(task'[p]) /\ task'[p].pc = step /\ task'[p].op = what
           /\ task'[p].queue = queue /\ task'[p].goal = goal
           /\ task'[p].words = <<>> /\ task'[p].near = <<>>
<1>1. task = [q \in Writers |-> task[q]] /\ task[p] = Recall!Idle
  BY Zenon DEF MemoryTyped, TaskFits, Recall!Begin
<1>. DEFINE New(e) == [Recall!Idle EXCEPT !.pc = step, !.op = what, !.embedder = e,
                                          !.queue = queue, !.goal = goal]
<1>2. PICK e : task' = [task EXCEPT ![p] = New(e)]
  BY Zenon DEF Recall!Begin
<1>3. New(e) = Task(step, what, e, queue, 0, goal, <<>>, <<>>, <<>>)
  <2>1. PICK c, o, n, q, d, g, w :
          /\ Recall!Idle = Task(c, o, n, q, d, g, w, w, w) /\ d = 0 /\ w = <<>>
    BY Zenon DEF Recall!Idle, Task
  <2>2. PICK u1 : u1 = [Recall!Idle EXCEPT !.pc = step]
    OBVIOUS
  <2>3. u1 = Task(step, o, n, q, d, g, w, w, w)
    BY <2>1, <2>2 DEF Task
  <2>4. PICK u2 : u2 = [u1 EXCEPT !.op = what]
    OBVIOUS
  <2>5. u2 = Task(step, what, n, q, d, g, w, w, w)
    BY <2>3, <2>4 DEF Task
  <2>6. PICK u3 : u3 = [u2 EXCEPT !.embedder = e]
    OBVIOUS
  <2>7. u3 = Task(step, what, e, q, d, g, w, w, w)
    BY <2>5, <2>6 DEF Task
  <2>8. PICK u4 : u4 = [u3 EXCEPT !.queue = queue]
    OBVIOUS
  <2>9. u4 = Task(step, what, e, queue, d, g, w, w, w)
    BY <2>7, <2>8 DEF Task
  <2>10. PICK u5 : u5 = [u4 EXCEPT !.goal = goal]
    OBVIOUS
  <2>11. u5 = Task(step, what, e, queue, d, goal, w, w, w)
    BY <2>9, <2>10 DEF Task
  <2>12. New(e) = u5
    BY <2>2, <2>4, <2>6, <2>8, <2>10, Zenon
  <2>. QED
    BY <2>1, <2>11, <2>12, Zenon
<1>. HIDE DEF New
<1>4. task'[p] = Task(step, what, e, queue, 0, goal, <<>>, <<>>, <<>>) /\ Others(p)
  BY <1>1, <1>2, <1>3, Zenon DEF Others
<1>5. PICK t : t = task'[p]
  OBVIOUS
<1>6. /\ t.pc = step /\ t.op = what /\ t.embedder = e /\ t.queue = queue /\ t.doc = 0
      /\ t.goal = goal /\ t.words = <<>> /\ t.near = <<>> /\ t.answer = <<>>
  BY <1>4, <1>5 DEF Task
<1>7. IsTask(t)
  BY <1>4, <1>5, <1>6, Zenon DEF IsTask
<1>. QED
  BY <1>1, <1>4, <1>5, <1>6, <1>7, Zenon

(* A process that is not indexing.                                         *)
LEMMA NotIndexing ==
    ASSUME NEW r, NEW F, TaskFits(r, F), r.pc \notin IndexSteps \cup ResetSteps
    PROVE  /\ r.op \notin {"write", "reindex"} /\ r.queue = <<>> /\ Recall!Range(r.queue) = {}
           /\ Pending(r) = {} /\ (\A f : ~Covers(r, f))
           /\ r.pc \notin {"doc", "fts", "vector", "empty fts", "drop vec", "empty meta", "read facts"}
           /\ r.pc \notin IndexSteps /\ r.pc \notin ResetSteps
<1>1. r.op \notin {"write", "reindex"} /\ r.queue = <<>>
  BY Zenon DEF TaskFits
<1>2. Recall!Range(r.queue) = {}
  BY <1>1, EmptyRange
<1>3. Pending(r) = {} /\ (\A f : ~Covers(r, f))
  BY <1>2, Zenon DEF Pending, Covers
<1>4. r.pc \notin {"doc", "fts", "vector", "empty fts", "drop vec", "empty meta", "read facts"}
  BY DEF IndexSteps, ResetSteps
<1>. QED
  BY <1>1, <1>2, <1>3, <1>4

LEMMA SearchKeeps ==
    ASSUME MemoryInv, NEW p \in Writers, Others(p),
           UNCHANGED <<facts, docs, fts, vec, meta, cut, last, disturbed, reindexed>>,
           task[p].pc \notin IndexSteps \cup ResetSteps,
           task'[p].pc \notin IndexSteps \cup ResetSteps,
           TaskFits(task'[p], DOMAIN facts),
           ~reindexed => \A id \in Recall!Range(task'[p].words) :
              id \in DOMAIN docs /\ docs[id].words \intersect task'[p].goal # {},
           task'[p].pc = "answered" => AnswerFits(task[p])'
    PROVE  MemoryInv'
<1>1. TaskFits(task[p], DOMAIN facts) /\ MemoryTyped
  BY Zenon DEF MemoryInv, MemoryTyped
<1>2. /\ task[p].op \notin {"write", "reindex"} /\ Recall!Range(task[p].queue) = {}
      /\ Pending(task[p]) = {} /\ (\A f : ~Covers(task[p], f))
      /\ task[p].pc \notin {"doc", "fts", "vector", "empty fts", "drop vec", "empty meta", "read facts"}
      /\ task[p].pc \notin ResetSteps
  BY <1>1, NotIndexing
<1>3. /\ task'[p].op \notin {"write", "reindex"} /\ Recall!Range(task'[p].queue) = {}
      /\ Pending(task'[p]) = {}
      /\ task'[p].pc \notin {"doc", "fts", "vector", "empty fts", "drop vec", "empty meta", "read facts"}
      /\ task'[p].pc \notin IndexSteps /\ task'[p].pc \notin ResetSteps
  BY NotIndexing
<1>4. FactsGrown /\ DocsGrown /\ FtsGrown
  BY DEF FactsGrown, DocsGrown, FtsGrown
<1>5. MemoryTyped'
  <2>1. /\ task' = [q \in Writers |-> task'[q]]
        /\ \A q \in Writers : TaskFits(task'[q], DOMAIN facts')
        /\ \A q \in Writers : task'[q].op = "reindex" => reindexed'
    BY <1>1, <1>3, TasksFit
  <2>2. DataTyped'
    BY <1>1, Zenon DEF MemoryTyped, DataTyped
  <2>. QED
    BY <1>1, <2>1, <2>2, Zenon DEF MemoryTyped
<1>6. FactsKept'
  BY <1>2, <1>3, <1>4, FactsKeep DEF MemoryInv
<1>7. FactsOnce => FactsOnce'
  BY <1>2, <1>3, OnceKeeps
<1>8. VectorsFit => VectorsFit'
  BY <1>2, <1>3, <1>4, VectorsKeep
<1>9. ~reindexed => WordsFit'
  <2>1. WordsFit => \A id \in DOMAIN fts' : id \in DOMAIN docs' /\ fts'[id] \subseteq docs'[id].words
    BY Zenon DEF WordsFit
  <2>. QED
    BY <1>4, <2>1, WordsKeep DEF MemoryInv
<1>10. \A q \in Writers : task'[q].pc = "answered" => AnswerFits(task[q])'
  <2>1. \A q \in Writers : task[q].pc = "answered" => AnswerFits(task[q])
    BY Zenon DEF MemoryInv
  <2>. QED
    BY <1>4, <2>1, AnswersKeep
<1>. QED
  BY <1>5, <1>6, <1>7, <1>8, <1>9, <1>10, Zenon DEF MemoryInv

-----------------------------------------------------------------------------
(* Searches.  A list has at most fifty ids, so that two places outweigh    *)
(* one: 1/(60+i) + 1/(60+j) > 1/(60+k).                                    *)
LEMMA BestList ==
    ASSUME NEW S \in SUBSET Ids, IsFiniteSet(S),
           NEW s \in Recall!Best(S, Recall!PerListLimit)
    PROVE  IdList(s) /\ Recall!Range(s) \subseteq S
<1>1. Recall!Cardinality(S) = Cardinality(S)
  BY Zenon DEF Recall!Cardinality, Cardinality
<1>2. Cardinality(S) \in Nat
  BY FS_CardinalityType
<1>3. PICK n \in 0..50 : s \in [1..n -> S]
  <2>. DEFINE n == IF Cardinality(S) < 50 THEN Cardinality(S) ELSE 50
  <2>1. n \in 0..50
    BY <1>2
  <2>2. s \in [1..n -> S]
    BY <1>1, Zenon DEF Recall!Best, Recall!PerListLimit
  <2>. QED
    BY <2>1, <2>2
<1>4. s \in [1..n -> Ids]
  BY <1>3
<1>5. \A i \in DOMAIN s : s[i] \in S
  BY <1>3
<1>. QED
  BY <1>4, <1>5, Zenon DEF IdList, Recall!Range

LEMMA ShareOf ==
    ASSUME NEW list, IdList(list), NEW id
    PROVE  /\ id \in Recall!Range(list) => \E k \in 61..110 : Recall!Share(list, id) = <<1, k>>
           /\ id \notin Recall!Range(list) => Recall!Share(list, id) = <<0, 1>>
<1>1. ASSUME id \in Recall!Range(list)
      PROVE  \E k \in 61..110 : Recall!Share(list, id) = <<1, k>>
  <2>1. PICK n \in 0..50 : DOMAIN list = 1..n
    BY DEF IdList
  <2>. DEFINE place == CHOOSE i \in DOMAIN list : list[i] = id
  <2>2. \E i \in DOMAIN list : list[i] = id
    BY <1>1, InRange
  <2>3. place \in DOMAIN list
    BY <2>2, Zenon
  <2>. HIDE DEF place
  <2>4. 60 + place \in 61..110
    <3>1. \A i \in 1..n : 60 + i \in 61..110
      OBVIOUS
    <3>. QED
      BY <2>1, <2>3, <3>1, Zenon
  <2>5. Recall!Share(list, id) = <<1, 60 + place>>
    BY <1>1, Zenon DEF Recall!Share, Recall!RrfK, place
  <2>. QED
    BY <2>4, <2>5, Zenon
<1>2. id \notin Recall!Range(list) => Recall!Share(list, id) = <<0, 1>>
  BY Zenon DEF Recall!Share
<1>. QED
  BY <1>1, <1>2

LEMMA TwoOutweighOne ==
    ASSUME NEW i \in 61..110, NEW j \in 61..110, NEW k \in 61..110
    PROVE  (j + i) * k > i * j
<1>1. j * 110 >= j * i /\ i * 110 >= i * j
  BY Product
<1>2. (j + i) * k >= (j + i) * 61
  BY Product
<1>3. j * i = i * j /\ i * j \in Nat /\ (j + i) * k \in Nat
  BY SMT
<1>. QED
  BY <1>1, <1>2, <1>3

LEMMA BothFirst ==
    ASSUME NEW p \in Writers, IdList(task[p].words), IdList(task[p].near), NEW x, NEW y,
           InBoth(task[p], x), ~InBoth(task[p], y),
           y \in Recall!Range(task[p].words) \cup Recall!Range(task[p].near)
    PROVE  Recall!Beats(p, x, y)
<1>. DEFINE w == task[p].words  v == task[p].near
<1>1. PICK i \in 61..110 : Recall!Share(w, x) = <<1, i>>
  BY ShareOf DEF InBoth
<1>2. PICK j \in 61..110 : Recall!Share(v, x) = <<1, j>>
  BY ShareOf DEF InBoth
<1>3. Recall!Score(p, x) = <<j + i, i * j>>
  BY <1>1, <1>2 DEF Recall!Score
<1>4. \E k \in 61..110 : Recall!Score(p, y) = <<1, k>>
  <2>1. CASE y \in Recall!Range(w)
    <3>1. PICK k \in 61..110 : Recall!Share(w, y) = <<1, k>>
      BY <2>1, ShareOf
    <3>2. Recall!Share(v, y) = <<0, 1>>
      BY <2>1, ShareOf DEF InBoth
    <3>. QED
      BY <3>1, <3>2 DEF Recall!Score
  <2>2. CASE y \notin Recall!Range(w)
    <3>1. PICK k \in 61..110 : Recall!Share(v, y) = <<1, k>>
      BY <2>2, ShareOf
    <3>2. Recall!Share(w, y) = <<0, 1>>
      BY <2>2, ShareOf
    <3>. QED
      BY <3>1, <3>2 DEF Recall!Score
  <2>. QED
    BY <2>1, <2>2
<1>5. PICK k \in 61..110 : Recall!Score(p, y) = <<1, k>>
  BY <1>4
<1>6. (j + i) * k > 1 * (i * j)
  <2>1. i * j \in Nat
    BY SMT
  <2>. QED
    BY <2>1, TwoOutweighOne
<1>. QED
  BY <1>3, <1>5, <1>6 DEF Recall!Beats

LEMMA SearchFits ==
    ASSUME NEW r, NEW F, TaskFits(r, F), r.pc \notin IndexSteps \cup ResetSteps,
           NEW t, NEW field, NEW step, Altered(r, t, field, step), field \in {"none", "words", "near", "answer"},
           step \in {"near", "fetch", "fallback", "answered"}, IdList(t.words), IdList(t.near)
    PROVE  TaskFits(t, F) /\ t.pc \notin IndexSteps \cup ResetSteps
<1>1. /\ t.pc # "idle" /\ t.pc \notin IndexSteps \cup ResetSteps
      /\ t.pc \notin {"embed", "create", "pin", "vector"}
  BY DEF Altered, IndexSteps, ResetSteps
<1>2. r.op \notin {"write", "reindex"} /\ r.queue = <<>> /\ r.queue \in Seq(F) /\ DOMAIN r.queue = {}
  BY DEF TaskFits
<1>3. IsTask(t) /\ t.op = r.op /\ t.queue = r.queue
  BY DEF Altered
<1>. QED
  BY <1>1, <1>2, <1>3, Zenon DEF TaskFits

LEMMA MovedAltered ==
    ASSUME NEW r, NEW t, NEW step, Moved(r, t, step)
    PROVE  Altered(r, t, "none", step)
  BY Zenon DEF Moved, Altered

(* The words of a search that goes on are those it had.                    *)
LEMMA WordsStay ==
    ASSUME MemoryInv, NEW p \in Writers, NEW t, t.words = task[p].words, t.goal = task[p].goal
    PROVE  ~reindexed => \A id \in Recall!Range(t.words) :
              id \in DOMAIN docs /\ docs[id].words \intersect t.goal # {}
  BY Zenon DEF MemoryInv, WordsFit

LEMMA SearchingAt ==
    ASSUME MemoryInv, NEW p \in Writers,
           task[p].pc \in {"keywords", "near", "fetch", "fallback", "answered"}
    PROVE  /\ MemoryTyped /\ DataTyped /\ TaskFits(task[p], DOMAIN facts) /\ IsTask(task[p])
           /\ task = [q \in Writers |-> task[q]]
           /\ task[p].pc \notin IndexSteps \cup ResetSteps
           /\ IdList(task[p].words) /\ IdList(task[p].near)
<1>1. MemoryTyped /\ DataTyped /\ TaskFits(task[p], DOMAIN facts) /\ task = [q \in Writers |-> task[q]]
  BY Zenon DEF MemoryInv, MemoryTyped
<1>2. IsTask(task[p]) /\ IdList(task[p].words) /\ IdList(task[p].near)
  BY <1>1, Zenon DEF TaskFits
<1>3. task[p].pc \notin IndexSteps \cup ResetSteps
  BY DEF IndexSteps, ResetSteps
<1>. QED
  BY <1>1, <1>2, <1>3

LEMMA AskKeepsFacts ==
    ASSUME MemoryInv, NEW p \in Writers, Recall!Ask(p)
    PROVE  MemoryInv'
<1>1. PICK what \in {"plan", "recall"}, goal \in Goals : Recall!Begin(p, what, "keywords", <<>>, goal)
  BY DEF Recall!Ask
<1>2. MemoryTyped
  BY DEF MemoryInv
<1>3. /\ Others(p) /\ task[p] = Recall!Idle
      /\ IsTask(task'[p]) /\ task'[p].pc = "keywords" /\ task'[p].op = what
      /\ task'[p].queue = <<>> /\ task'[p].words = <<>> /\ task'[p].near = <<>>
  BY <1>1, <1>2, Beginning
<1>4. task[p].pc \notin IndexSteps \cup ResetSteps
  BY <1>3, IdleTask DEF IndexSteps, ResetSteps
<1>5. /\ task'[p].pc \notin IndexSteps \cup ResetSteps /\ task'[p].pc # "idle"
      /\ task'[p].pc \notin {"embed", "create", "pin", "vector"}
  BY <1>3 DEF IndexSteps, ResetSteps
<1>6. TaskFits(task'[p], DOMAIN facts)
  <2>1. IdList(<<>>) /\ <<>> \in Seq(DOMAIN facts) /\ DOMAIN <<>> = {}
    BY IdleFits, IdleTask DEF TaskFits
  <2>2. what \notin {"write", "reindex"}
    BY <1>1
  <2>. QED
    BY <1>3, <1>5, <2>1, <2>2, Zenon DEF TaskFits
<1>7. Recall!Range(task'[p].words) = {} /\ task'[p].pc # "answered"
  BY <1>3, EmptyRange
<1>8. UNCHANGED <<facts, docs, fts, vec, meta, cut, last, disturbed, reindexed>>
  BY DEF Recall!Ask, Recall!history
<1>. QED
  BY <1>3, <1>4, <1>5, <1>6, <1>7, <1>8, SearchKeeps

LEMMA KeywordsKeep ==
    ASSUME MemoryInv, NEW p \in Writers, Recall!Keywords(p)
    PROVE  MemoryInv'
<1>. DEFINE S == {id \in DOMAIN fts : fts[id] \intersect task[p].goal # {}}
<1>1. PICK s \in Recall!Best(S, Recall!PerListLimit) :
         task' = [task EXCEPT ![p].words = s, ![p].pc = "near"]
  BY DEF Recall!Keywords
<1>2. task[p].pc = "keywords" /\ UNCHANGED <<facts, docs, fts, vec, meta, cut, last, disturbed, reindexed>>
  BY DEF Recall!Keywords, Recall!history
<1>3. /\ MemoryTyped /\ DataTyped /\ TaskFits(task[p], DOMAIN facts) /\ IsTask(task[p])
      /\ task = [q \in Writers |-> task[q]]
      /\ task[p].pc \notin IndexSteps \cup ResetSteps /\ IdList(task[p].near)
  BY <1>2, SearchingAt
<1>4. S \in SUBSET Ids /\ IsFiniteSet(S)
  <2>1. DOMAIN fts \in SUBSET Ids /\ IsFiniteSet(DOMAIN fts) /\ S \subseteq DOMAIN fts
    BY <1>3 DEF DataTyped
  <2>. QED
    BY <2>1, FS_Subset
<1>5. IdList(s) /\ Recall!Range(s) \subseteq S
  BY <1>1, <1>4, BestList
<1>6. task' = [task EXCEPT ![p] = PutWords(task[p], s, "near")]
  BY <1>1, <1>3, Zenon DEF PutWords
<1>7. task'[p] = PutWords(task[p], s, "near") /\ Others(p)
  BY <1>3, <1>6, Zenon DEF Others
<1>8. Altered(task[p], task'[p], "words", "near") /\ task'[p].words = s
  BY <1>3, <1>7, WordsSet
<1>9. task'[p].near = task[p].near /\ task'[p].goal = task[p].goal /\ task'[p].pc = "near"
  BY <1>8 DEF Altered
<1>10. TaskFits(task'[p], DOMAIN facts) /\ task'[p].pc \notin IndexSteps \cup ResetSteps
  BY <1>3, <1>5, <1>8, <1>9, SearchFits
<1>11. ASSUME ~reindexed, NEW id \in Recall!Range(task'[p].words)
       PROVE  id \in DOMAIN docs /\ docs[id].words \intersect task'[p].goal # {}
  <2>1. id \in DOMAIN fts /\ fts[id] \intersect task'[p].goal # {}
    BY <1>5, <1>8, <1>9, <1>11
  <2>2. id \in DOMAIN docs /\ fts[id] \subseteq docs[id].words
    BY <1>11, <2>1, Zenon DEF MemoryInv, WordsFit
  <2>. QED
    BY <2>1, <2>2
<1>. QED
  BY <1>2, <1>3, <1>7, <1>9, <1>10, <1>11, SearchKeeps

LEMMA NeighboursKeep ==
    ASSUME MemoryInv, NEW p \in Writers, Recall!Neighbours(p)
    PROVE  MemoryInv'
<1>2. task[p].pc = "near" /\ UNCHANGED <<facts, docs, fts, vec, meta, cut, last, disturbed, reindexed>>
  BY DEF Recall!Neighbours, Recall!history
<1>3. /\ MemoryTyped /\ DataTyped /\ TaskFits(task[p], DOMAIN facts) /\ IsTask(task[p])
      /\ task = [q \in Writers |-> task[q]]
      /\ task[p].pc \notin IndexSteps \cup ResetSteps
      /\ IdList(task[p].words) /\ IdList(task[p].near)
  BY <1>2, SearchingAt
<1>4. /\ Others(p) /\ IdList(task'[p].near)
      /\ \E field \in {"none", "near"} : Altered(task[p], task'[p], field, "fetch")
  <2>1. CASE Recall!Goto(p, "fetch")
    <3>1. Others(p) /\ Moved(task[p], task'[p], "fetch")
      BY <1>3, <2>1, Going
    <3>2. Altered(task[p], task'[p], "none", "fetch")
      BY <3>1, MovedAltered
    <3>3. task'[p].near = task[p].near
      BY <3>1 DEF Moved
    <3>. QED
      BY <1>3, <3>1, <3>2, <3>3
  <2>2. CASE \E s \in Recall!Best(DOMAIN vec.rows, Recall!PerListLimit) :
                task' = [task EXCEPT ![p].near = s, ![p].pc = "fetch"]
    <3>1. PICK s \in Recall!Best(DOMAIN vec.rows, Recall!PerListLimit) :
             task' = [task EXCEPT ![p].near = s, ![p].pc = "fetch"]
      BY <2>2
    <3>2. DOMAIN vec.rows \in SUBSET Ids /\ IsFiniteSet(DOMAIN vec.rows)
      BY <1>3 DEF DataTyped
    <3>3. IdList(s)
      BY <3>2, BestList
    <3>4. task' = [task EXCEPT ![p] = PutNear(task[p], s, "fetch")]
      BY <1>3, <3>1, Zenon DEF PutNear
    <3>5. task'[p] = PutNear(task[p], s, "fetch") /\ Others(p)
      BY <1>3, <3>4, Zenon DEF Others
    <3>6. Altered(task[p], task'[p], "near", "fetch") /\ task'[p].near = s
      BY <1>3, <3>5, NearSet
    <3>. QED
      BY <3>3, <3>5, <3>6
  <2>. QED
    BY <2>1, <2>2, Zenon DEF Recall!Neighbours
<1>5. PICK field \in {"none", "near"} : Altered(task[p], task'[p], field, "fetch")
  BY <1>4
<1>6. task'[p].words = task[p].words /\ task'[p].goal = task[p].goal /\ task'[p].pc = "fetch"
  BY <1>5 DEF Altered
<1>7. TaskFits(task'[p], DOMAIN facts) /\ task'[p].pc \notin IndexSteps \cup ResetSteps
  BY <1>3, <1>4, <1>5, <1>6, SearchFits
<1>8. ~reindexed => \A id \in Recall!Range(task'[p].words) :
         id \in DOMAIN docs /\ docs[id].words \intersect task'[p].goal # {}
  BY <1>6, WordsStay
<1>. QED
  BY <1>2, <1>3, <1>4, <1>6, <1>7, <1>8, SearchKeeps

(* An answer of a search that was at its last step.                        *)
LEMMA AnswerKeeps ==
    ASSUME MemoryInv, NEW p \in Writers, task[p].pc \in {"fetch", "fallback"},
           UNCHANGED <<facts, docs, fts, vec, meta, cut, last, disturbed, reindexed>>,
           NEW found, NEW step \in {"fallback", "answered"},
           task' = [task EXCEPT ![p] = PutAnswer(task[p], found, step)],
           \A i \in DOMAIN found :
              /\ found[i].ref \in DOMAIN facts
              /\ \A j \in DOMAIN found :
                    j < i /\ InBoth(task[p], found[i].id) => InBoth(task[p], found[j].id)
              /\ ~reindexed /\ found[i].id \in Recall!Range(task[p].words) =>
                    facts[found[i].ref].words \intersect task[p].goal # {}
    PROVE  MemoryInv'
<1>1. /\ MemoryTyped /\ TaskFits(task[p], DOMAIN facts) /\ IsTask(task[p])
      /\ task = [q \in Writers |-> task[q]]
      /\ task[p].pc \notin IndexSteps \cup ResetSteps
      /\ IdList(task[p].words) /\ IdList(task[p].near)
  BY SearchingAt
<1>3. task'[p] = PutAnswer(task[p], found, step) /\ Others(p)
  BY <1>1, Zenon DEF Others
<1>4. Altered(task[p], task'[p], "answer", step) /\ task'[p].answer = found
  BY <1>1, <1>3, AnswerSet
<1>5. /\ task'[p].words = task[p].words /\ task'[p].near = task[p].near
      /\ task'[p].goal = task[p].goal /\ task'[p].pc = step
  BY <1>4 DEF Altered
<1>6. TaskFits(task'[p], DOMAIN facts) /\ task'[p].pc \notin IndexSteps \cup ResetSteps
  <2>1. "answer" \in {"none", "words", "near", "answer"}
        /\ step \in {"near", "fetch", "fallback", "answered"}
    OBVIOUS
  <2>. QED
    BY <1>1, <1>4, <1>5, <2>1, SearchFits
<1>7. ~reindexed => \A id \in Recall!Range(task'[p].words) :
         id \in DOMAIN docs /\ docs[id].words \intersect task'[p].goal # {}
  BY <1>5, WordsStay
<1>8. AnswerFits(task[p])'
  <2>1. \A id : InBoth(task[p], id)' <=> InBoth(task[p], id)
    BY <1>5, Zenon DEF InBoth
  <2>. QED
    BY <1>4, <1>5, <2>1, Zenon DEF AnswerFits
<1>. QED
  BY <1>1, <1>3, <1>6, <1>7, <1>8, SearchKeeps

LEMMA FetchKeeps ==
    ASSUME MemoryInv, NEW p \in Writers, Recall!Fetch(p)
    PROVE  MemoryInv'
<1>1. PICK s \in Recall!Fused(p) :
         task' = [task EXCEPT ![p].answer = Recall!Found(s),
                    ![p].pc = IF task[p].op = "plan" /\ DOMAIN Recall!Found(s) = {} THEN "fallback"
                              ELSE "answered"]
  BY DEF Recall!Fetch
<1>2. task[p].pc = "fetch" /\ UNCHANGED <<facts, docs, fts, vec, meta, cut, last, disturbed, reindexed>>
  BY DEF Recall!Fetch, Recall!history
<1>3. DataTyped /\ IdList(task[p].words) /\ IdList(task[p].near)
  BY <1>2, SearchingAt
<1>. DEFINE found == Recall!Found(s)
<1>4. \A i \in DOMAIN found :
         i \in DOMAIN s /\ s[i] \in DOMAIN docs /\ found[i].id = s[i] /\ found[i].ref = docs[s[i]].ref
  BY DEF Recall!Found, Recall!Kept
<1>5. /\ \A i \in DOMAIN s : s[i] \in Recall!Range(task[p].words) \cup Recall!Range(task[p].near)
      /\ \A i, j \in DOMAIN s : i < j => ~Recall!Beats(p, s[j], s[i])
  BY DEF Recall!Fused, Recall!Orders, Recall!Best
<1>. HIDE DEF found
<1>6. ASSUME NEW i \in DOMAIN found PROVE
              /\ found[i].ref \in DOMAIN facts
              /\ \A j \in DOMAIN found :
                    j < i /\ InBoth(task[p], found[i].id) => InBoth(task[p], found[j].id)
              /\ ~reindexed /\ found[i].id \in Recall!Range(task[p].words) =>
                    facts[found[i].ref].words \intersect task[p].goal # {}
  <2>1. found[i].ref \in DOMAIN facts /\ docs[s[i]].words = facts[found[i].ref].words
    BY <1>3, <1>4, Zenon DEF DataTyped
  <2>2. ASSUME NEW j \in DOMAIN found, j < i, InBoth(task[p], found[i].id)
        PROVE  InBoth(task[p], found[j].id)
    <3>1. ~InBoth(task[p], s[j]) => Recall!Beats(p, s[i], s[j])
      BY <1>3, <1>4, <1>5, <2>2, BothFirst
    <3>2. ~Recall!Beats(p, s[i], s[j])
      BY <1>4, <1>5, <2>2
    <3>. QED
      BY <1>4, <3>1, <3>2
  <2>3. ASSUME ~reindexed, found[i].id \in Recall!Range(task[p].words)
        PROVE  facts[found[i].ref].words \intersect task[p].goal # {}
    BY <1>4, <2>1, <2>3, Zenon DEF MemoryInv, WordsFit
  <2>. QED
    BY <2>1, <2>2, <2>3
<1>7. PICK step \in {"fallback", "answered"} :
         task' = [task EXCEPT ![p] = PutAnswer(task[p], found, step)]
  <2>1. PICK step \in {"fallback", "answered"} :
           task' = [task EXCEPT ![p].answer = found, ![p].pc = step]
    BY <1>1, Zenon DEF found
  <2>2. task = [q \in Writers |-> task[q]]
    BY <1>2, SearchingAt
  <2>. QED
    BY <2>1, <2>2, Zenon DEF PutAnswer
<1>. QED
  BY <1>2, <1>6, <1>7, AnswerKeeps

LEMMA TopRelevantKeeps ==
    ASSUME MemoryInv, NEW p \in Writers, Recall!TopRelevant(p)
    PROVE  MemoryInv'
<1>. DEFINE S == {f \in DOMAIN facts : Recall!Overlap(p, f) > 0}
            Hits(s) == [i \in Recall!Kept(s) |-> [id |-> 0, ref |-> s[i]]]
<1>1. PICK s \in Recall!Orders(S) : task' = [task EXCEPT ![p].answer = Hits(s), ![p].pc = "answered"]
  BY Zenon DEF Recall!TopRelevant
<1>2. task[p].pc = "fallback" /\ UNCHANGED <<facts, docs, fts, vec, meta, cut, last, disturbed, reindexed>>
  BY DEF Recall!TopRelevant, Recall!history
<1>3. \A i \in Recall!Kept(s) : s[i] \in DOMAIN facts
  BY DEF Recall!Kept, Recall!Orders, Recall!Best
<1>4. \A i \in DOMAIN Hits(s) : Hits(s)[i].ref \in DOMAIN facts /\ Hits(s)[i].id = 0
  BY <1>3
<1>5. 0 \notin Recall!Range(task[p].words)
  <2>1. IdList(task[p].words)
    BY <1>2, SearchingAt
  <2>2. \A i \in DOMAIN task[p].words : task[p].words[i] # 0
    BY <2>1 DEF IdList, Ids
  <2>. QED
    BY <2>2, InRange, Zenon
<1>. DEFINE found == Hits(s)
<1>. HIDE DEF Hits, found
<1>6. \A i \in DOMAIN found :
         /\ found[i].ref \in DOMAIN facts
         /\ \A j \in DOMAIN found :
               j < i /\ InBoth(task[p], found[i].id) => InBoth(task[p], found[j].id)
         /\ ~reindexed /\ found[i].id \in Recall!Range(task[p].words) =>
               facts[found[i].ref].words \intersect task[p].goal # {}
  BY <1>4, <1>5, Zenon DEF found, InBoth
<1>7. task' = [task EXCEPT ![p] = PutAnswer(task[p], found, "answered")]
  <2>1. task = [q \in Writers |-> task[q]]
    BY <1>2, SearchingAt
  <2>. QED
    BY <1>1, <2>1, Zenon DEF found, PutAnswer
<1>. QED
  BY <1>2, <1>6, <1>7, AnswerKeeps

LEMMA AnsweredKeeps ==
    ASSUME MemoryInv, NEW p \in Writers, Recall!Answered(p)
    PROVE  MemoryInv'
<1>1. task[p].pc = "answered" /\ UNCHANGED <<facts, docs, fts, vec, meta, cut, last, disturbed, reindexed>>
  BY DEF Recall!Answered, Recall!history
<1>2. MemoryTyped /\ task[p].pc \notin IndexSteps \cup ResetSteps
  BY <1>1, SearchingAt
<1>3. Others(p) /\ task'[p] = Recall!Idle
  BY <1>2, Leaving DEF Recall!Answered
<1>4. TaskFits(task'[p], DOMAIN facts)
  BY <1>3, IdleFits
<1>5. /\ task'[p].pc \notin IndexSteps \cup ResetSteps /\ task'[p].pc # "answered"
      /\ Recall!Range(task'[p].words) = {}
  BY <1>3, IdleTask, EmptyRange DEF IndexSteps, ResetSteps
<1>. QED
  BY <1>1, <1>2, <1>3, <1>4, <1>5, SearchKeeps

-----------------------------------------------------------------------------
(* Indexing.  A process moves on with the fact it is at, or is done with   *)
(* it.                                                                     *)
Onward(r, t) ==
    Advanced(r, t) \/ \E step \in {"embed", "create", "pin", "vector"} : Moved(r, t, step)

LEMMA OnwardFits ==
    ASSUME NEW r, NEW t, NEW F, TaskFits(r, F), r.pc \in IndexSteps \ {"doc"}, Onward(r, t),
           ~Advanced(r, t) => r.embedder # NoEmbedder
    PROVE  /\ TaskFits(t, F)
           /\ t.op \in {"write", "reindex"} => t.op = r.op
           /\ Recall!Range(t.queue) \subseteq Recall!Range(r.queue)
           /\ Pending(t) \subseteq Pending(r)
           /\ \A f \in Recall!Range(r.queue) : f # Head(r.queue) =>
                 f \in Recall!Range(t.queue) /\ (f = Head(t.queue) => t.pc = "doc")
           /\ t.pc \in IndexSteps \ {"doc"} =>
                 t.doc = r.doc /\ t.queue = r.queue /\ t.embedder = r.embedder
           /\ t.pc \in {"idle", "doc", "embed", "create", "pin", "vector"}
           /\ Recall!Range(t.words) = {} \/ (t.words = r.words /\ t.goal = r.goal)
<1>1. CASE Advanced(r, t)
  <2>1. /\ TaskFits(t, F) /\ t.pc \in {"idle", "doc"} /\ t.op \in {"none", r.op}
        /\ t.queue # <<>> => t.pc = "doc"
        /\ Recall!Range(t.queue) = Recall!Range(r.queue) \ {Head(r.queue)}
        /\ t.words = <<>> \/ (t.words = r.words /\ t.goal = r.goal)
    BY <1>1, AdvancedFits
  <2>2. t.pc \notin IndexSteps \ {"doc"}
    BY <2>1 DEF IndexSteps
  <2>3. \A f \in Recall!Range(t.queue) : t.queue # <<>>
    BY EmptyRange, Zenon
  <2>4. Pending(t) \subseteq Pending(r)
    BY <2>1 DEF Pending
  <2>. QED
    BY <2>1, <2>2, <2>3, <2>4, EmptyRange
<1>2. CASE ~Advanced(r, t)
  <2>1. PICK step \in {"embed", "create", "pin", "vector"} : Moved(r, t, step)
    BY <1>2 DEF Onward
  <2>2. TaskFits(t, F)
    <3>1. /\ step # "idle" /\ (step \in IndexSteps <=> r.pc \in IndexSteps)
          /\ step \in ResetSteps <=> r.pc \in ResetSteps
      BY DEF IndexSteps, ResetSteps
    <3>2. r.doc \in Ids
      BY DEF TaskFits
    <3>. QED
      BY <1>2, <2>1, <3>1, <3>2, FitsMoved
  <2>3. /\ t.pc = step /\ t.op = r.op /\ t.queue = r.queue /\ t.doc = r.doc
        /\ t.embedder = r.embedder /\ t.words = r.words /\ t.goal = r.goal
    BY <2>1 DEF Moved
  <2>4. Pending(t) \subseteq Pending(r) /\ t.pc # "doc"
    BY <2>3 DEF Pending
  <2>. QED
    BY <2>2, <2>3, <2>4
<1>. QED
  BY <1>1, <1>2

LEMMA IndexingAt ==
    ASSUME MemoryInv, NEW p \in Writers, task[p].pc \in IndexSteps
    PROVE  /\ MemoryTyped /\ DataTyped /\ TaskFits(task[p], DOMAIN facts) /\ IsTask(task[p])
           /\ task = [q \in Writers |-> task[q]] /\ FactsKept
           /\ task[p].op \in {"write", "reindex"} /\ task[p].pc \notin ResetSteps
           /\ task[p].op = "reindex" => reindexed
           /\ Len(task[p].queue) \in Nat \ {0} /\ Head(task[p].queue) \in DOMAIN facts
           /\ Head(task[p].queue) \in Recall!Range(task[p].queue)
           /\ Recall!Range(task[p].queue) \subseteq DOMAIN facts
<1>1. /\ MemoryTyped /\ DataTyped /\ TaskFits(task[p], DOMAIN facts) /\ FactsKept
      /\ task = [q \in Writers |-> task[q]] /\ (task[p].op = "reindex" => reindexed)
  BY Zenon DEF MemoryInv, MemoryTyped
<1>2. IsTask(task[p]) /\ task[p].op \in {"write", "reindex"}
  BY <1>1, Zenon DEF TaskFits
<1>3. task[p].pc \notin ResetSteps
  BY DEF IndexSteps, ResetSteps
<1>. QED
  BY <1>1, <1>2, <1>3, QueueParts

LEMMA OnwardKeeps ==
    ASSUME MemoryInv, NEW p \in Writers, Others(p),
           UNCHANGED <<facts, docs, last, disturbed, reindexed>>, FtsGrown,
           task[p].pc \in IndexSteps \ {"doc"}, Onward(task[p], task'[p]),
           ~Advanced(task[p], task'[p]) => task[p].embedder # NoEmbedder,
           DataTyped', ~disturbed => VectorsFit',
           ~reindexed =>
              \A id \in DOMAIN fts' : id \in DOMAIN docs /\ fts'[id] \subseteq docs[id].words,
           \A f \in cut : f \in cut' \/ Recall!Searchable(f)',
           task[p].pc = "fts" /\ Intact(task[p]) =>
              \A f \in DOMAIN facts : f = Head(task[p].queue) => f \in cut' \/ Recall!Searchable(f)'
    PROVE  MemoryInv'
<1>1. task[p].pc \in IndexSteps /\ task[p].pc # "doc"
  OBVIOUS
<1>2. /\ MemoryTyped /\ TaskFits(task[p], DOMAIN facts) /\ FactsKept
      /\ task[p].pc \notin ResetSteps /\ (task[p].op = "reindex" => reindexed)
  BY <1>1, IndexingAt
<1>4. /\ TaskFits(task'[p], DOMAIN facts)
      /\ task'[p].op \in {"write", "reindex"} => task'[p].op = task[p].op
      /\ Recall!Range(task'[p].queue) \subseteq Recall!Range(task[p].queue)
      /\ Pending(task'[p]) \subseteq Pending(task[p])
      /\ \A f \in Recall!Range(task[p].queue) : f # Head(task[p].queue) =>
            f \in Recall!Range(task'[p].queue) /\ (f = Head(task'[p].queue) => task'[p].pc = "doc")
      /\ task'[p].pc \in IndexSteps \ {"doc"} =>
            task'[p].doc = task[p].doc /\ task'[p].queue = task[p].queue
      /\ task'[p].pc \in {"idle", "doc", "embed", "create", "pin", "vector"}
      /\ Recall!Range(task'[p].words) = {} \/
            (task'[p].words = task[p].words /\ task'[p].goal = task[p].goal)
  BY <1>2, OnwardFits
<1>5. FactsGrown /\ DocsGrown
  BY DEF FactsGrown, DocsGrown
<1>6. task'[p].pc # "fts" /\ task'[p].pc # "answered" /\ task'[p].pc \notin ResetSteps
  BY <1>4 DEF ResetSteps
<1>7. MemoryTyped'
  <2>1. /\ task' = [q \in Writers |-> task'[q]]
        /\ \A q \in Writers : TaskFits(task'[q], DOMAIN facts')
        /\ \A q \in Writers : task'[q].op = "reindex" => reindexed'
    BY <1>2, <1>4, TasksFit
  <2>. QED
    BY <1>2, <2>1, Zenon DEF MemoryTyped
<1>8. FactsKept'
  <2>1. ASSUME NEW f \in DOMAIN facts, Covers(task[p], f)
        PROVE  f \in cut' \/ Recall!Searchable(f)' \/ Covers(task[p], f)'
    <3>1. CASE f = Head(task[p].queue)
      <4>1. task[p].pc = "fts" /\ Intact(task[p])
        BY <1>1, <2>1, <3>1 DEF Covers
      <4>. QED
        BY <3>1, <4>1
    <3>2. CASE f # Head(task[p].queue)
      BY <1>4, <2>1, <3>2 DEF Covers
    <3>. QED
      BY <3>1, <3>2
  <2>. QED
    BY <1>2, <1>5, <1>6, <2>1, FactsKeep
<1>9. FactsOnce => FactsOnce'
  <2>1. ASSUME FactsOnce, task'[p].pc \in IndexSteps \ {"doc"} PROVE Intact(task[p])'
    <3>1. Intact(task[p])
      BY <1>1, <2>1 DEF FactsOnce
    <3>2. task'[p].doc = task[p].doc /\ task'[p].queue = task[p].queue
      BY <1>4, <2>1
    <3>. QED
      BY <3>1, <3>2, Zenon DEF Intact
  <2>. QED
    BY <1>4, <1>6, <2>1, OnceKeeps
<1>10. ~reindexed => WordsFit'
  <2>1. ~reindexed =>
           \A id \in DOMAIN fts' : id \in DOMAIN docs' /\ fts'[id] \subseteq docs'[id].words
    BY Zenon
  <2>2. WordsFit => \A id \in Recall!Range(task'[p].words) :
           id \in DOMAIN docs /\ docs[id].words \intersect task'[p].goal # {}
    BY <1>4, Zenon DEF WordsFit
  <2>. QED
    BY <1>5, <2>1, <2>2, WordsKeep DEF MemoryInv
<1>11. \A q \in Writers : task'[q].pc = "answered" => AnswerFits(task[q])'
  <2>1. \A q \in Writers : task[q].pc = "answered" => AnswerFits(task[q])
    BY Zenon DEF MemoryInv
  <2>. QED
    BY <1>5, <1>6, <2>1, AnswersKeep
<1>. QED
  BY <1>7, <1>8, <1>9, <1>10, <1>11, Zenon DEF MemoryInv

(* Of a fact that is in rag_fts only the vector is still to come.          *)
LEMMA VectorStepKeeps ==
    ASSUME MemoryInv, NEW p \in Writers, Others(p),
           UNCHANGED <<facts, docs, fts, cut, last, disturbed, reindexed>>,
           task[p].pc \in {"embed", "create", "pin", "vector"}, Onward(task[p], task'[p]),
           DataTyped', ~disturbed => VectorsFit'
    PROVE  MemoryInv'
<1>1. task[p].pc \in IndexSteps \ {"doc"} /\ task[p].pc # "fts"
  BY DEF IndexSteps
<1>2. task[p].embedder # NoEmbedder
  BY <1>1, IndexingAt DEF TaskFits
<1>3. FtsGrown
  BY DEF FtsGrown
<1>4. ~reindexed =>
         \A id \in DOMAIN fts' : id \in DOMAIN docs /\ fts'[id] \subseteq docs[id].words
  BY Zenon DEF MemoryInv, WordsFit
<1>. QED
  BY <1>1, <1>2, <1>3, <1>4, OnwardKeeps

LEMMA GoingOn ==
    ASSUME MemoryTyped, NEW p \in Writers,
           Recall!Finish(p) \/ \E step \in {"embed", "create", "pin", "vector"} : Recall!Goto(p, step)
    PROVE  Others(p) /\ Onward(task[p], task'[p])
<1>1. CASE Recall!Finish(p)
  BY <1>1, Finishing, Zenon DEF Onward
<1>2. CASE \E step \in {"embed", "create", "pin", "vector"} : Recall!Goto(p, step)
  <2>1. PICK step \in {"embed", "create", "pin", "vector"} : Recall!Goto(p, step)
    BY <1>2
  <2>2. Others(p) /\ Moved(task[p], task'[p], step)
    BY <2>1, Going
  <2>. QED
    BY <2>2, Zenon DEF Onward
<1>. QED
  BY <1>1, <1>2

LEMMA GoesTo ==
    ASSUME MemoryTyped, NEW p \in Writers, NEW step, Recall!Goto(p, step)
    PROVE  task'[p].pc = step /\ task'[p].embedder = task[p].embedder
<1>1. Moved(task[p], task'[p], step)
  BY Going
<1>. QED
  BY <1>1, Zenon DEF Moved

LEMMA FinishedAt ==
    ASSUME MemoryTyped, NEW p \in Writers, task[p].pc \in IndexSteps, Recall!Finish(p)
    PROVE  task'[p].pc \in {"idle", "doc"}
<1>1. TaskFits(task[p], DOMAIN facts)
  BY Zenon DEF MemoryTyped
<1>2. Advanced(task[p], task'[p])
  BY Finishing
<1>. QED
  BY <1>1, <1>2, AdvancedFits

LEMMA EmbedKeeps ==
    ASSUME MemoryInv, NEW p \in Writers, Recall!Embed(p)
    PROVE  MemoryInv'
<1>1. /\ task[p].pc = "embed" /\ task[p].pc \in IndexSteps
      /\ UNCHANGED <<facts, docs, fts, vec, meta, cut, last, disturbed, reindexed>>
  BY DEF Recall!Embed, Recall!history, IndexSteps
<1>2. MemoryTyped /\ DataTyped
  BY <1>1, IndexingAt
<1>3. \/ Recall!Finish(p)
      \/ Recall!Goto(p, "create")
      \/ meta = task[p].embedder /\ Recall!Goto(p, "vector")
  BY DEF Recall!Embed, Recall!Fits
<1>4. Others(p) /\ Onward(task[p], task'[p])
  BY <1>2, <1>3, GoingOn
<1>5. /\ task'[p].pc \in {"idle", "doc", "create", "vector"}
      /\ task'[p].pc = "vector" => meta = task'[p].embedder
  BY <1>1, <1>2, <1>3, FinishedAt, GoesTo
<1>6. VectorsFit => VectorsFit'
  <2>1. DocsGrown
    BY <1>1 DEF DocsGrown
  <2>. QED
    BY <1>1, <1>4, <1>5, <2>1, VectorsKeep
<1>7. DataTyped'
  BY <1>1, <1>2, Zenon DEF DataTyped
<1>. QED
  BY <1>1, <1>4, <1>6, <1>7, VectorStepKeeps DEF MemoryInv

LEMMA CreateVecKeeps ==
    ASSUME MemoryInv, NEW p \in Writers, Recall!CreateVec(p)
    PROVE  MemoryInv'
<1>1. /\ task[p].pc = "create" /\ task[p].pc \in IndexSteps /\ Recall!Goto(p, "pin")
      /\ UNCHANGED <<facts, docs, fts, meta, cut, last, disturbed, reindexed>>
  BY DEF Recall!CreateVec, Recall!history, IndexSteps
<1>2. MemoryTyped /\ DataTyped
  BY <1>1, IndexingAt
<1>3. Others(p) /\ Onward(task[p], task'[p]) /\ task'[p].pc = "pin"
  BY <1>1, <1>2, GoingOn, GoesTo
<1>4. CASE vec.exists
  <2>1. vec' = vec
    BY <1>4 DEF Recall!CreateVec
  <2>2. DataTyped'
    BY <1>1, <1>2, <2>1, Zenon DEF DataTyped
  <2>3. VectorsFit => VectorsFit'
    <3>1. DocsGrown
      BY <1>1 DEF DocsGrown
    <3>. QED
      BY <1>1, <1>3, <2>1, <3>1, VectorsKeep
  <2>. QED
    BY <1>1, <1>3, <2>2, <2>3, VectorStepKeeps DEF MemoryInv
<1>5. CASE ~vec.exists
  <2>1. vec' = [exists |-> TRUE, dim |-> task[p].embedder.dim, rows |-> <<>>]
    BY <1>5 DEF Recall!CreateVec
  <2>2. /\ DOMAIN vec'.rows = {} /\ vec'.exists
        /\ vec' = [exists |-> vec'.exists, dim |-> vec'.dim, rows |-> vec'.rows]
    BY <2>1
  <2>3. IsFiniteSet(DOMAIN vec'.rows) /\ DOMAIN vec'.rows \subseteq Ids
    BY <2>2, FS_EmptySet
  <2>4. DataTyped'
    BY <1>1, <1>2, <2>2, <2>3, Zenon DEF DataTyped
  <2>5. VectorsFit => VectorsFit'
    <3>1. \A q \in Writers : q # p => task'[q] = task[q]
      BY <1>3 DEF Others
    <3>2. VectorsFit => \A q \in Writers : task'[q].pc = "vector" => meta' = task'[q].embedder
      BY <1>1, <1>3, <3>1 DEF VectorsFit
    <3>. QED
      BY <2>2, <3>2, Zenon DEF VectorsFit
  <2>. QED
    BY <1>1, <1>3, <2>4, <2>5, VectorStepKeeps DEF MemoryInv
<1>. QED
  BY <1>4, <1>5

LEMMA PinKeeps ==
    ASSUME MemoryInv, NEW p \in Writers, Recall!Pin(p)
    PROVE  MemoryInv'
<1>1. /\ task[p].pc = "pin" /\ task[p].pc \in IndexSteps
      /\ UNCHANGED <<facts, docs, fts, vec, cut, last, disturbed, reindexed>>
  BY DEF Recall!Pin, Recall!history, IndexSteps
<1>2. MemoryTyped /\ DataTyped
  BY <1>1, IndexingAt
<1>3. DataTyped'
  BY <1>1, <1>2, Zenon DEF DataTyped
<1>4. CASE meta = NoEmbedder
  <2>1. meta' = task[p].embedder /\ Recall!Goto(p, "vector")
    BY <1>4 DEF Recall!Pin
  <2>2. Others(p) /\ Onward(task[p], task'[p]) /\ task'[p].embedder = task[p].embedder /\ task'[p].pc = "vector"
    BY <1>2, <2>1, GoingOn, GoesTo
  <2>3. \A q \in Writers : task[q].pc \in {"pin", "vector"} => task[q].embedder # NoEmbedder
    BY <1>2 DEF MemoryTyped, TaskFits
  <2>4. VectorsFit => VectorsFit'
    <3>1. \A q \in Writers : q # p => task'[q] = task[q]
      BY <2>2 DEF Others
    <3>2. VectorsFit => \A q \in Writers : task[q].pc # "vector"
      BY <1>4, <2>3 DEF VectorsFit
    <3>3. VectorsFit => \A q \in Writers : task'[q].pc = "vector" => meta' = task'[q].embedder
      BY <2>1, <2>2, <3>1, <3>2, Zenon
    <3>4. VectorsFit => DOMAIN vec'.rows = {}
      BY <1>1, <1>4 DEF VectorsFit
    <3>. QED
      BY <3>3, <3>4, Zenon DEF VectorsFit
  <2>. QED
    BY <1>1, <1>3, <2>2, <2>4, VectorStepKeeps DEF MemoryInv
<1>5. CASE meta # NoEmbedder
  <2>1. Recall!Finish(p) /\ meta' = meta
    BY <1>5 DEF Recall!Pin
  <2>2. Others(p) /\ Onward(task[p], task'[p]) /\ task'[p].pc \in {"idle", "doc"}
    BY <1>1, <1>2, <2>1, GoingOn, FinishedAt
  <2>3. VectorsFit => VectorsFit'
    <3>1. DocsGrown
      BY <1>1 DEF DocsGrown
    <3>. QED
      BY <1>1, <2>1, <2>2, <3>1, VectorsKeep
  <2>. QED
    BY <1>1, <1>3, <2>2, <2>3, VectorStepKeeps DEF MemoryInv
<1>. QED
  BY <1>4, <1>5

Added(f, g, x, v) ==
    /\ DOMAIN g = DOMAIN f \cup {x} /\ g[x] = v
    /\ \A y \in DOMAIN f : y # x => g[y] = f[y]

LEMMA Adding ==
    ASSUME NEW f, NEW x, NEW v, NEW g, g = Recall!With(f, x, v)
    PROVE  Added(f, g, x, v)
  BY DEF Recall!With, Added

LEMMA InsertVecKeeps ==
    ASSUME MemoryInv, NEW p \in Writers, Recall!InsertVec(p)
    PROVE  MemoryInv'
<1>. DEFINE e == task[p].embedder  id == task[p].doc
            row == [name |-> e.name, ref |-> Head(task[p].queue)]
<1>1. /\ task[p].pc = "vector" /\ task[p].pc \in IndexSteps /\ Recall!Finish(p)
      /\ UNCHANGED <<facts, docs, fts, meta, cut, last, disturbed, reindexed>>
  BY DEF Recall!InsertVec, Recall!history, IndexSteps
<1>2. MemoryTyped /\ DataTyped /\ TaskFits(task[p], DOMAIN facts)
  BY <1>1, IndexingAt
<1>3. Others(p) /\ Onward(task[p], task'[p]) /\ task'[p].pc \in {"idle", "doc"}
  BY <1>1, <1>2, GoingOn, FinishedAt
<1>4. CASE vec' = vec
  <2>1. DataTyped'
    BY <1>1, <1>2, <1>4, Zenon DEF DataTyped
  <2>2. VectorsFit => VectorsFit'
    <3>1. DocsGrown
      BY <1>1 DEF DocsGrown
    <3>. QED
      BY <1>1, <1>3, <1>4, <3>1, VectorsKeep
  <2>. QED
    BY <1>1, <1>3, <2>1, <2>2, VectorStepKeeps DEF MemoryInv
<1>5. CASE vec' # vec
  <2>1. vec.exists /\ vec' = [vec EXCEPT !.rows = Recall!With(vec.rows, id, row)]
    BY <1>2, <1>5, Zenon DEF Recall!InsertVec, DataTyped
  <2>2. PICK rows, v, old, x : rows = Recall!With(old, x, v) /\ v = row /\ old = vec.rows /\ x = id
    OBVIOUS
  <2>3. vec' = [exists |-> vec.exists, dim |-> vec.dim, rows |-> rows]
    <3>1. vec = [exists |-> vec.exists, dim |-> vec.dim, rows |-> vec.rows]
      BY <1>2 DEF DataTyped
    <3>2. vec' = [vec EXCEPT !.rows = rows]
      BY <2>1, <2>2, Zenon
    <3>. QED
      BY <3>1, <3>2
  <2>4. /\ DOMAIN vec'.rows = DOMAIN vec.rows \cup {id} /\ vec'.rows[id] = row
        /\ \A y \in DOMAIN vec.rows : y # id => vec'.rows[y] = vec.rows[y]
        /\ vec'.exists /\ vec' = [exists |-> vec'.exists, dim |-> vec'.dim, rows |-> vec'.rows]
    <3>1. /\ DOMAIN rows = DOMAIN vec.rows \cup {id} /\ rows[id] = row
          /\ \A y \in DOMAIN vec.rows : y # id => rows[y] = vec.rows[y]
      <4>1. Added(old, rows, x, v)
        BY <2>2, Adding
      <4>. QED
        BY <2>2, <4>1, Zenon DEF Added
    <3>2. vec'.rows = rows /\ vec'.exists = vec.exists /\ vec'.dim = vec.dim
      BY <2>3
    <3>. QED
      BY <2>1, <2>3, <3>1, <3>2, Zenon
  <2>5. id \in Ids
    BY <1>1, <1>2 DEF TaskFits, IndexSteps
  <2>6. DataTyped'
    <3>1. DOMAIN vec.rows \subseteq Ids /\ IsFiniteSet(DOMAIN vec.rows)
      BY <1>2 DEF DataTyped
    <3>2. DOMAIN vec'.rows \subseteq Ids /\ IsFiniteSet(DOMAIN vec'.rows)
      <4>1. IsFiniteSet(DOMAIN vec.rows \cup {id})
        BY <3>1, FS_AddElement
      <4>. QED
        BY <2>4, <2>5, <3>1, <4>1
    <3>. QED
      BY <1>1, <1>2, <2>4, <3>2, Zenon DEF DataTyped
  <2>7. ASSUME FactsOnce, VectorsFit PROVE VectorsFit'
    <3>1. meta = e /\ e # NoEmbedder
      BY <1>1, <1>2, <2>7 DEF VectorsFit, TaskFits
    <3>2. id \in DOMAIN docs /\ docs[id].ref = Head(task[p].queue)
      BY <1>1, <2>7 DEF FactsOnce, Intact, IndexSteps
    <3>3. row.name = meta.name /\ row.ref = docs[id].ref
      BY <3>1, <3>2
    <3>. HIDE DEF row
    <3>4. \A q \in Writers : q # p => task'[q] = task[q]
      BY <1>3 DEF Others
    <3>5. \A q \in Writers : task'[q].pc = "vector" => meta' = task'[q].embedder
      BY <1>1, <1>3, <2>7, <3>4 DEF VectorsFit
    <3>6. ASSUME NEW q \in Writers, task'[q].pc \in {"empty meta", "read facts"} PROVE FALSE
      <4>1. q # p /\ task[q].pc \in ResetSteps \ {"empty docs"}
        BY <1>3, <3>4, <3>6 DEF ResetSteps
      <4>2. DOMAIN docs = {}
        BY <2>7, <4>1 DEF FactsOnce
      <4>. QED
        BY <3>2, <4>2
    <3>7. ASSUME NEW y \in DOMAIN vec'.rows
          PROVE  /\ vec'.rows[y].name = meta'.name
                 /\ y \in DOMAIN docs' => vec'.rows[y].ref = docs'[y].ref
                 /\ y \in DOMAIN docs' \/ \E q \in Writers : task'[q].pc \in {"empty fts", "drop vec"}
      <4>1. CASE y = id
        BY <1>1, <2>4, <3>2, <3>3, <4>1
      <4>2. CASE y # id
        <5>1. y \in DOMAIN vec.rows /\ vec'.rows[y] = vec.rows[y]
          BY <2>4, <4>2
        <5>2. /\ vec.rows[y].name = meta.name
              /\ y \in DOMAIN docs => vec.rows[y].ref = docs[y].ref
              /\ y \in DOMAIN docs \/ \E q \in Writers : task[q].pc \in {"empty fts", "drop vec"}
          BY <2>7, <5>1, Zenon DEF VectorsFit
        <5>3. \A q \in Writers : task[q].pc \in {"empty fts", "drop vec"} => task'[q].pc \in {"empty fts", "drop vec"}
          BY <1>1, <3>4
        <5>. QED
          BY <1>1, <5>1, <5>2, <5>3, Zenon
      <4>. QED
        BY <4>1, <4>2
    <3>. QED
      BY <1>1, <3>1, <3>5, <3>6, <3>7, Zenon DEF VectorsFit
  <2>. QED
    BY <1>1, <1>3, <2>6, <2>7, VectorStepKeeps DEF MemoryInv
<1>. QED
  BY <1>4, <1>5

(* A process gives up what it was at, or ends.                             *)
LEMMA LeaveKeeps ==
    ASSUME MemoryInv, NEW p \in Writers, task[p].op \in {"write", "reindex"}, Recall!Leave(p),
           UNCHANGED <<facts, docs, fts, vec, meta, last, reindexed>>,
           disturbed' \in BOOLEAN, cut \subseteq cut', Recall!Range(task[p].queue) \subseteq cut',
           task[p].pc \in ResetSteps => DOMAIN facts \subseteq cut' /\ disturbed',
           task[p].pc \notin ResetSteps => disturbed' = disturbed
    PROVE  MemoryInv'
<1>1. /\ MemoryTyped /\ DataTyped /\ TaskFits(task[p], DOMAIN facts) /\ FactsKept
      /\ task[p].op = "reindex" => reindexed
  BY Zenon DEF MemoryInv, MemoryTyped
<1>2. Others(p) /\ task'[p] = Recall!Idle
  BY <1>1, Leaving
<1>3. /\ TaskFits(task'[p], DOMAIN facts) /\ task'[p].op = "none" /\ task'[p].pc = "idle"
      /\ Recall!Range(task'[p].queue) = {} /\ Recall!Range(task'[p].words) = {}
      /\ Pending(task'[p]) = {}
  BY <1>2, IdleFits, IdleTask, EmptyRange DEF Pending
<1>4. task'[p].pc \notin IndexSteps /\ task'[p].pc \notin ResetSteps
  BY <1>3 DEF IndexSteps, ResetSteps
<1>5. FactsGrown /\ DocsGrown /\ FtsGrown
  BY DEF FactsGrown, DocsGrown, FtsGrown
<1>6. MemoryTyped'
  <2>1. /\ task' = [q \in Writers |-> task'[q]]
        /\ \A q \in Writers : TaskFits(task'[q], DOMAIN facts')
        /\ \A q \in Writers : task'[q].op = "reindex" => reindexed'
    BY <1>1, <1>2, <1>3, TasksFit
  <2>2. DataTyped'
    BY <1>1, Zenon DEF DataTyped
  <2>3. disturbed' => reindexed'
    <3>1. task[p].pc \in ResetSteps => reindexed
      BY <1>1 DEF TaskFits
    <3>. QED
      BY <1>1, <3>1 DEF MemoryTyped
  <2>. QED
    BY <2>1, <2>2, <2>3, Zenon DEF MemoryTyped
<1>7. FactsKept'
  <2>1. CASE task[p].pc \notin ResetSteps
    <3>1. \A f : Covers(task[p], f) => f \in cut'
      BY DEF Covers
    <3>. QED
      BY <1>1, <1>2, <1>3, <1>5, <2>1, <3>1, FactsKeep
  <2>2. CASE task[p].pc \in ResetSteps
    <3>1. \A f \in DOMAIN facts' : f \in cut'
      BY <2>2
    <3>2. ASSUME NEW q \in Writers, task'[q].pc = "fts", task'[q].op = "reindex", last' = q
          PROVE  Intact(task[q])'
      <4>1. q # p
        BY <1>3, <3>2
      <4>2. task'[q] = task[q]
        BY <1>2, <4>1 DEF Others
      <4>. QED
        BY <1>1, <1>2, <1>5, <3>2, <4>1, <4>2, OthersIntact DEF FactsKept
    <3>. QED
      BY <3>1, <3>2, Zenon DEF FactsKept
  <2>. QED
    BY <2>1, <2>2
<1>8. ~disturbed' => FactsOnce' /\ VectorsFit'
  <2>1. SUFFICES ASSUME ~disturbed' PROVE FactsOnce' /\ VectorsFit'
    OBVIOUS
  <2>2. FactsOnce /\ VectorsFit /\ task[p].pc \notin ResetSteps
    BY <2>1, Zenon DEF MemoryInv
  <2>3. FactsOnce'
    BY <1>2, <1>3, <1>4, <2>2, OnceKeeps
  <2>4. VectorsFit'
    <3>1. task[p].pc \notin {"empty fts", "drop vec"}
      BY <2>2 DEF ResetSteps
    <3>. QED
      BY <1>2, <1>3, <1>5, <2>2, <3>1, VectorsKeep
  <2>. QED
    BY <2>3, <2>4
<1>9. ~reindexed => WordsFit'
  <2>1. WordsFit => \A id \in DOMAIN fts' : id \in DOMAIN docs' /\ fts'[id] \subseteq docs'[id].words
    BY Zenon DEF WordsFit
  <2>. QED
    BY <1>2, <1>3, <1>5, <2>1, WordsKeep DEF MemoryInv
<1>10. \A q \in Writers : task'[q].pc = "answered" => AnswerFits(task[q])'
  <2>1. \A q \in Writers : task[q].pc = "answered" => AnswerFits(task[q])
    BY Zenon DEF MemoryInv
  <2>. QED
    BY <1>2, <1>3, <1>5, <2>1, AnswersKeep
<1>. QED
  BY <1>6, <1>7, <1>8, <1>9, <1>10, Zenon DEF MemoryInv

LEMMA CrashKeeps ==
    ASSUME MemoryInv, NEW p \in Writers, Recall!Crash(p)
    PROVE  MemoryInv'
<1>1. /\ task[p].op \in {"write", "reindex"} /\ Recall!Leave(p)
      /\ UNCHANGED <<facts, docs, fts, vec, meta, last, reindexed>>
  BY DEF Recall!Crash
<1>2. Recall!Resetting(p) <=> task[p].pc \in ResetSteps
  BY DEF Recall!Resetting, ResetSteps
<1>3. /\ cut' = cut \union (IF task[p].pc \in ResetSteps THEN DOMAIN facts ELSE Recall!Range(task[p].queue))
      /\ disturbed' = (disturbed \/ task[p].pc \in ResetSteps)
  BY <1>2, Zenon DEF Recall!Crash
<1>4. task[p].pc \in ResetSteps => Recall!Range(task[p].queue) = {}
  <2>1. TaskFits(task[p], DOMAIN facts)
    BY Zenon DEF MemoryInv, MemoryTyped
  <2>2. task[p].pc \in ResetSteps => task[p].pc \notin IndexSteps
    BY DEF IndexSteps, ResetSteps
  <2>. QED
    BY <2>1, <2>2, EmptyRange DEF TaskFits
<1>5. disturbed' \in BOOLEAN /\ (task[p].pc \notin ResetSteps => disturbed' = disturbed)
  BY <1>3, Zenon DEF MemoryInv, MemoryTyped
<1>6. /\ cut \subseteq cut' /\ Recall!Range(task[p].queue) \subseteq cut'
      /\ task[p].pc \in ResetSteps => DOMAIN facts \subseteq cut' /\ disturbed'
  BY <1>3, <1>4
<1>. QED
  BY <1>1, <1>3, <1>5, <1>6, LeaveKeeps

LEMMA NextId ==
    ASSUME DataTyped
    PROVE  /\ Recall!NewId \in Ids /\ Recall!NewId \notin DOMAIN docs
           /\ DOMAIN docs \cup {Recall!NewId} = 1..Recall!NewId
<1>1. CASE docs = <<>>
  <2>1. Recall!NewId = 1 /\ DOMAIN docs = {}
    BY <1>1 DEF Recall!NewId
  <2>. QED
    BY <2>1 DEF Ids
<1>2. CASE docs # <<>>
  <2>1. PICK n \in Ids : DOMAIN docs = 1..n
    BY <1>2 DEF DataTyped
  <2>. DEFINE Top(m) == m \in DOMAIN docs /\ \A k \in DOMAIN docs : k <= m
  <2>2. Top(n) /\ \A m : Top(m) => m = n
    <3>1. n \in 1..n /\ (\A k \in 1..n : k <= n) /\ \A m \in 1..n : n <= m => m = n
      BY DEF Ids
    <3>. QED
      BY <2>1, <3>1, Zenon
  <2>3. (CHOOSE m \in DOMAIN docs : \A k \in DOMAIN docs : k <= m) = n
    BY <2>2, Zenon
  <2>4. Recall!NewId = 1 + n
    BY <1>2, <2>3, Zenon DEF Recall!NewId
  <2>. QED
    BY <2>1, <2>4 DEF Ids
<1>. QED
  BY <1>1, <1>2

LEMMA InsertDocKeeps ==
    ASSUME MemoryInv, NEW p \in Writers, Recall!InsertDoc(p)
    PROVE  MemoryInv'
<1>. DEFINE f == Head(task[p].queue)  id == Recall!NewId
            row == [ref |-> f, words |-> facts[f].words]
<1>1. /\ task[p].pc = "doc" /\ task[p].pc \in IndexSteps
      /\ UNCHANGED <<facts, fts, vec, meta, last, disturbed, reindexed>>
  BY DEF Recall!InsertDoc, IndexSteps
<1>2. /\ MemoryTyped /\ DataTyped /\ TaskFits(task[p], DOMAIN facts) /\ IsTask(task[p])
      /\ task = [q \in Writers |-> task[q]] /\ FactsKept
      /\ task[p].op \in {"write", "reindex"} /\ task[p].pc \notin ResetSteps
      /\ f \in DOMAIN facts /\ f \in Recall!Range(task[p].queue)
  BY <1>1, IndexingAt
<1>3. CASE cut' = cut \union Recall!Range(task[p].queue) /\ Recall!Leave(p) /\ docs' = docs
  <2>1. disturbed' \in BOOLEAN
    BY <1>1, <1>2 DEF MemoryTyped
  <2>. QED
    BY <1>1, <1>2, <1>3, <2>1, LeaveKeeps
<1>4. CASE /\ docs' = Recall!With(docs, id, row) /\ cut' = cut
           /\ task' = [task EXCEPT ![p].doc = id, ![p].pc = "fts"]
  <2>1. task' = [task EXCEPT ![p] = PutDoc(task[p], id, "fts")]
    BY <1>2, <1>4, Zenon DEF PutDoc
  <2>2. task'[p] = PutDoc(task[p], id, "fts") /\ Others(p)
    BY <1>2, <2>1, Zenon DEF Others
  <2>3. PICK x, t : x = id /\ t = PutDoc(task[p], x, "fts")
    OBVIOUS
  <2>4. Altered(task[p], t, "doc", "fts") /\ t.doc = x
    BY <1>2, <2>3, DocSet
  <2>5. /\ task'[p] = t /\ task'[p].doc = id /\ task'[p].queue = task[p].queue /\ task'[p].pc = "fts"
        /\ task'[p].op = task[p].op /\ task'[p].words = task[p].words /\ task'[p].goal = task[p].goal
        /\ task'[p].near = task[p].near /\ IsTask(task'[p])
    BY <2>2, <2>3, <2>4, Zenon DEF Altered
  <2>6. /\ id \in Ids /\ id \notin DOMAIN docs /\ DOMAIN docs \cup {id} = 1..id
    BY <1>2, NextId
  <2>7. PICK new : new = row
    OBVIOUS
  <2>8. /\ DOMAIN docs' = DOMAIN docs \cup {id} /\ docs'[id] = new
        /\ \A y \in DOMAIN docs : docs'[y] = docs[y]
    <3>1. Added(docs, docs', id, new)
      BY <1>4, <2>7, Zenon DEF Added, Recall!With
    <3>. QED
      BY <2>6, <3>1, Zenon DEF Added
  <2>9. new.ref = f /\ new.words = facts[f].words
    BY <2>7
  <2>. HIDE DEF row, id
  <2>10. DocsGrown /\ FactsGrown /\ FtsGrown
    BY <1>1, <2>8 DEF DocsGrown, FactsGrown, FtsGrown
  <2>11. DataTyped'
    <3>1. \E n \in Ids : DOMAIN docs' = 1..n
      BY <2>6, <2>8, Zenon
    <3>2. ASSUME NEW y \in DOMAIN docs'
          PROVE  docs'[y].ref \in DOMAIN facts /\ docs'[y].words = facts[docs'[y].ref].words
      BY <1>2, <2>8, <2>9, Zenon DEF DataTyped
    <3>. QED
      BY <1>1, <1>2, <3>1, <3>2, Zenon DEF DataTyped
  <2>12. TaskFits(task'[p], DOMAIN facts)
    <3>1. /\ task'[p].pc \in IndexSteps /\ task'[p].pc # "idle"
          /\ task'[p].pc \notin ResetSteps
          /\ task'[p].pc \notin {"embed", "create", "pin", "vector"}
      BY <2>5 DEF IndexSteps, ResetSteps
    <3>. QED
      BY <1>1, <1>2, <2>5, <2>6, <3>1, Zenon DEF TaskFits
  <2>13. MemoryTyped'
    <3>1. /\ task' = [q \in Writers |-> task'[q]]
          /\ \A q \in Writers : TaskFits(task'[q], DOMAIN facts')
          /\ \A q \in Writers : task'[q].op = "reindex" => reindexed'
      BY <1>1, <1>2, <2>2, <2>5, <2>12, TasksFit DEF MemoryTyped
    <3>. QED
      BY <1>1, <1>2, <2>11, <3>1, Zenon DEF MemoryTyped
  <2>14. Intact(task[p])'
    BY <2>5, <2>8, <2>9 DEF Intact
  <2>15. FactsKept'
    <3>1. \A g : Covers(task[p], g) => Covers(task[p], g)'
      BY <2>5, <2>14, Zenon DEF Covers
    <3>. QED
      BY <1>1, <1>2, <1>4, <2>2, <2>10, <2>14, <3>1, FactsKeep
  <2>16. ASSUME FactsOnce PROVE FactsOnce'
    <3>1. \A q \in Writers : q # p => task'[q] = task[q]
      BY <2>2 DEF Others
    <3>2. \A q \in Writers : task'[q].op = task[q].op /\ task'[q].queue = task[q].queue
      BY <2>5, <3>1, Zenon
    <3>3. \A q \in Writers : task[q].pc \notin ResetSteps
      <4>1. ASSUME NEW q \in Writers, task[q].pc \in ResetSteps PROVE FALSE
        <5>1. q # p /\ task[q].op = "reindex"
          BY <1>2, <4>1 DEF MemoryTyped, TaskFits
        <5>. QED
          BY <1>2, <2>16, <5>1, Zenon DEF FactsOnce
      <4>. QED
        BY <4>1
    <3>4. f \in Pending(task[p])
      BY <1>1, <1>2 DEF Pending
    <3>5. \A y \in DOMAIN docs : docs[y].ref # f
      BY <2>16, <3>4, Zenon DEF FactsOnce
    <3>6. \A x1, y1 \in DOMAIN docs' : docs'[x1].ref = docs'[y1].ref => x1 = y1
      BY <2>8, <2>9, <2>16, <3>5, Zenon DEF FactsOnce
    <3>7. ASSUME NEW q \in Writers, NEW g \in Pending(task'[q])
          PROVE  g \in Pending(task[q]) /\ g # f
      <4>1. CASE q = p
        BY <2>5, <4>1 DEF Pending
      <4>2. CASE q # p
        <5>1. g \in Pending(task[q]) /\ g \in Recall!Range(task[q].queue)
          BY <3>1, <4>2 DEF Pending
        <5>. QED
          BY <1>2, <2>16, <4>2, <5>1, Zenon DEF FactsOnce
      <4>. QED
        BY <4>1, <4>2
    <3>8. \A q \in Writers : \A g \in Pending(task'[q]) : \A y \in DOMAIN docs' : docs'[y].ref # g
      BY <2>8, <2>9, <2>16, <3>7, Zenon DEF FactsOnce
    <3>9. \A q \in Writers : task'[q].pc \in IndexSteps \ {"doc"} => Intact(task[q])'
      <4>1. ASSUME NEW q \in Writers, q # p, task'[q].pc \in IndexSteps \ {"doc"} PROVE Intact(task[q])'
        <5>1. Intact(task[q])
          BY <2>16, <3>1, <4>1, Zenon DEF FactsOnce
        <5>. QED
          BY <2>2, <2>10, <4>1, <5>1, OthersIntact
      <4>. QED
        BY <2>14, <4>1
    <3>10. \A q \in Writers : task'[q].pc \notin ResetSteps
      BY <2>5, <3>1, <3>3 DEF ResetSteps
    <3>11. /\ \A q, r \in Writers : q # r /\ task'[q].op = "reindex" => task'[r].op \notin {"write", "reindex"}
           /\ \A q, r \in Writers : q # r =>
                 \A g \in Recall!Range(task'[q].queue) : g \notin Recall!Range(task'[r].queue)
      BY <2>16, <3>2, Zenon DEF FactsOnce
    <3>. QED
      BY <3>6, <3>8, <3>9, <3>10, <3>11, Zenon DEF FactsOnce
  <2>17. ASSUME FactsOnce, VectorsFit PROVE VectorsFit'
    <3>1. ASSUME NEW q \in Writers, task[q].pc \in {"empty fts", "drop vec"} PROVE FALSE
      <4>1. q # p /\ task[q].op = "reindex"
        BY <1>1, <1>2, <3>1 DEF MemoryTyped, TaskFits, ResetSteps
      <4>. QED
        BY <1>2, <2>17, <4>1, Zenon DEF FactsOnce
    <3>2. \A y \in DOMAIN vec.rows : y \in DOMAIN docs
      BY <2>17, <3>1, Zenon DEF VectorsFit
    <3>. QED
      BY <1>1, <2>2, <2>5, <2>10, <2>17, <3>2, VectorsKeep
  <2>18. ~reindexed => WordsFit'
    <3>1. WordsFit => \A y \in DOMAIN fts' : y \in DOMAIN docs' /\ fts'[y] \subseteq docs'[y].words
      BY <1>1, <2>10, Zenon DEF WordsFit, DocsGrown
    <3>2. WordsFit => \A y \in Recall!Range(task'[p].words) :
             y \in DOMAIN docs /\ docs[y].words \intersect task'[p].goal # {}
      BY <2>5, Zenon DEF WordsFit
    <3>. QED
      BY <2>2, <2>10, <3>1, <3>2, WordsKeep DEF MemoryInv
  <2>19. \A q \in Writers : task'[q].pc = "answered" => AnswerFits(task[q])'
    <3>1. \A q \in Writers : task[q].pc = "answered" => AnswerFits(task[q])
      BY Zenon DEF MemoryInv
    <3>. QED
      BY <1>1, <2>2, <2>5, <2>10, <3>1, AnswersKeep
  <2>. QED
    BY <1>1, <2>13, <2>15, <2>16, <2>17, <2>18, <2>19, Zenon DEF MemoryInv
<1>. QED
  BY <1>3, <1>4, Zenon DEF Recall!InsertDoc

LEMMA InsertFtsKeeps ==
    ASSUME MemoryInv, NEW p \in Writers, Recall!InsertFts(p)
    PROVE  MemoryInv'
<1>. DEFINE f == Head(task[p].queue)  id == task[p].doc
            found == facts[f].words \union (IF id \in DOMAIN fts THEN fts[id] ELSE {})
<1>1. /\ task[p].pc = "fts" /\ task[p].pc \in IndexSteps \ {"doc"} /\ task[p].pc \in IndexSteps
      /\ UNCHANGED <<facts, docs, vec, meta, last, disturbed, reindexed>>
  BY DEF Recall!InsertFts, IndexSteps
<1>2. /\ MemoryTyped /\ DataTyped /\ TaskFits(task[p], DOMAIN facts) /\ FactsKept
      /\ f \in DOMAIN facts
  BY <1>1, IndexingAt
<1>3. DocsGrown
  BY <1>1 DEF DocsGrown
<1>4. CASE cut' = cut \union {f} /\ Recall!Finish(p) /\ fts' = fts
  <2>1. Others(p) /\ Advanced(task[p], task'[p]) /\ task'[p].pc \in {"idle", "doc"}
    BY <1>1, <1>2, <1>4, Finishing, FinishedAt
  <2>2. Onward(task[p], task'[p]) /\ FtsGrown
    BY <1>4, <2>1 DEF Onward, FtsGrown
  <2>3. DataTyped'
    BY <1>1, <1>2, <1>4, Zenon DEF DataTyped
  <2>4. ~disturbed => VectorsFit'
    BY <1>1, <1>3, <2>1, VectorsKeep DEF MemoryInv
  <2>5. ~reindexed => \A y \in DOMAIN fts' : y \in DOMAIN docs /\ fts'[y] \subseteq docs[y].words
    BY <1>4, Zenon DEF MemoryInv, WordsFit
  <2>. QED
    BY <1>1, <1>4, <2>1, <2>2, <2>3, <2>4, <2>5, OnwardKeeps
<1>5. CASE /\ fts' = Recall!With(fts, id, found)
           /\ cut' = IF task[p].op = "reindex" /\ last = p THEN cut \ {f} ELSE cut
           /\ IF task[p].embedder = NoEmbedder THEN Recall!Finish(p) ELSE Recall!Goto(p, "embed")
  <2>1. /\ Others(p) /\ Onward(task[p], task'[p]) /\ task'[p].pc \in {"idle", "doc", "embed"}
        /\ ~Advanced(task[p], task'[p]) => task[p].embedder # NoEmbedder
    <3>1. CASE task[p].embedder = NoEmbedder
      BY <1>1, <1>2, <1>5, <3>1, Finishing, FinishedAt DEF Onward
    <3>2. CASE task[p].embedder # NoEmbedder
      BY <1>1, <1>2, <1>5, <3>2, GoingOn, GoesTo
    <3>. QED
      BY <3>1, <3>2
  <2>2. Added(fts, fts', id, found)
    BY <1>5, Zenon DEF Added, Recall!With
  <2>3. facts[f].words \subseteq found /\ (id \in DOMAIN fts => fts[id] \subseteq found)
    OBVIOUS
  <2>4. \A s : facts[f].words \subseteq s /\ (id \in DOMAIN fts => fts[id] \subseteq s) => found \subseteq s
    OBVIOUS
  <2>. HIDE DEF found
  <2>5. /\ DOMAIN fts' = DOMAIN fts \cup {id} /\ fts'[id] = found
        /\ \A y \in DOMAIN fts : y # id => fts'[y] = fts[y]
    BY <2>2, Zenon DEF Added
  <2>6. FtsGrown
    BY <2>3, <2>5 DEF FtsGrown
  <2>7. DataTyped'
    <3>1. DOMAIN fts \subseteq Ids /\ IsFiniteSet(DOMAIN fts) /\ id \in Ids
      BY <1>1, <1>2 DEF DataTyped, TaskFits
    <3>2. IsFiniteSet(DOMAIN fts \cup {id})
      BY <3>1, FS_AddElement
    <3>3. DOMAIN fts' \subseteq Ids /\ IsFiniteSet(DOMAIN fts')
      BY <2>5, <3>1, <3>2
    <3>. QED
      BY <1>1, <1>2, <3>3, Zenon DEF DataTyped
  <2>8. ASSUME NEW g \in DOMAIN facts, g = f, Intact(task[p]) PROVE Recall!Searchable(g)'
    <3>1. id \in DOMAIN docs' /\ docs'[id].ref = g
      BY <1>1, <2>8 DEF Intact
    <3>2. id \in DOMAIN fts' /\ facts'[g].words \subseteq fts'[id]
      BY <1>1, <2>3, <2>5, <2>8
    <3>. QED
      BY <3>1, <3>2, Zenon DEF Recall!Searchable
  <2>9. ASSUME NEW g \in cut PROVE g \in cut' \/ Recall!Searchable(g)'
    <3>1. CASE g = f /\ task[p].op = "reindex" /\ last = p
      <4>1. Intact(task[p])
        BY <1>1, <1>2, <3>1 DEF FactsKept
      <4>. QED
        BY <1>2, <2>8, <3>1, <4>1
    <3>2. CASE ~ (g = f /\ task[p].op = "reindex" /\ last = p)
      BY <1>5, <2>9, <3>2
    <3>. QED
      BY <3>1, <3>2
  <2>10. ASSUME ~reindexed, NEW y \in DOMAIN fts'
         PROVE  y \in DOMAIN docs /\ fts'[y] \subseteq docs[y].words
    <3>1. CASE y = id
      <4>1. FactsOnce
        BY <1>2, <2>10 DEF MemoryInv, MemoryTyped
      <4>2. id \in DOMAIN docs /\ docs[id].ref = f
        BY <1>1, <4>1 DEF FactsOnce, Intact
      <4>3. docs[id].words = facts[f].words
        BY <1>2, <4>2, Zenon DEF DataTyped
      <4>4. id \in DOMAIN fts => fts[id] \subseteq docs[id].words
        BY <2>10, Zenon DEF MemoryInv, WordsFit
      <4>5. found \subseteq docs[id].words
        BY <2>4, <4>3, <4>4
      <4>. QED
        BY <2>5, <3>1, <4>2, <4>5
    <3>2. CASE y # id
      <4>1. y \in DOMAIN fts /\ fts'[y] = fts[y]
        BY <2>5, <2>10, <3>2
      <4>. QED
        BY <2>10, <4>1, Zenon DEF MemoryInv, WordsFit
    <3>. QED
      BY <3>1, <3>2
  <2>11. ~disturbed => VectorsFit'
    BY <1>1, <1>3, <2>1, VectorsKeep DEF MemoryInv
  <2>. QED
    BY <1>1, <2>1, <2>6, <2>7, <2>8, <2>9, <2>10, <2>11, OnwardKeeps
<1>. QED
  BY <1>4, <1>5, Zenon DEF Recall!InsertFts

-----------------------------------------------------------------------------
(* Beginning an operation, and the reset of a reindex.                     *)
LEMMA WriteKeeps ==
    ASSUME MemoryInv, NEW p \in Writers, Recall!Write(p)
    PROVE  MemoryInv'
<1>. DEFINE m == Len(facts) + 1
<1>1. /\ MemoryTyped /\ DataTyped /\ FactsKept
      /\ UNCHANGED <<docs, fts, vec, meta, cut, last, reindexed>>
      /\ Len(facts) < Len(FactInputs) /\ facts' = Append(facts, FactInputs[m])
  BY DEF MemoryInv, MemoryTyped, Recall!Write
<1>2. /\ facts' \in Seq(Recall!Range(FactInputs)) /\ Len(facts') = m /\ m \in Nat
      /\ DOMAIN facts' = DOMAIN facts \cup {m} /\ m \notin DOMAIN facts
      /\ \A f \in DOMAIN facts : facts'[f] = facts[f]
  <2>1. facts \in Seq(Recall!Range(FactInputs)) /\ FactInputs \in Seq(Recall!Range(FactInputs))
    BY <1>1, MemoryAssumption DEF DataTyped
  <2>2. FactInputs[m] \in Recall!Range(FactInputs)
    BY <1>1, <2>1
  <2>. QED
    BY <1>1, <2>1, <2>2
<1>. HIDE DEF m
<1>3. /\ Others(p) /\ task[p] = Recall!Idle
      /\ IsTask(task'[p]) /\ task'[p].pc = "doc" /\ task'[p].op = "write"
      /\ task'[p].queue = <<m>> /\ task'[p].words = <<>> /\ task'[p].near = <<>>
  <2>1. Recall!Begin(p, "write", "doc", <<m>>, {})
    BY <1>2, Zenon DEF Recall!Write
  <2>. QED
    BY <1>1, <2>1, Beginning
<1>4. FactsGrown /\ DocsGrown /\ FtsGrown
  BY <1>1, <1>2 DEF FactsGrown, DocsGrown, FtsGrown
<1>5. /\ Recall!Range(<<m>>) = {m} /\ <<m>> \in Seq(DOMAIN facts') /\ Len(<<m>>) = 1 /\ <<m>> # <<>>
      /\ Head(<<m>>) = m /\ \A i, j \in DOMAIN <<m>> : <<m>>[i] = <<m>>[j] => i = j
  BY <1>2 DEF Recall!Range
<1>6. /\ task'[p].pc \in IndexSteps /\ task'[p].pc \notin ResetSteps /\ task'[p].pc # "idle"
      /\ task'[p].pc \notin {"embed", "create", "pin", "vector"}
      /\ task'[p].pc \notin IndexSteps \ {"doc"}
      /\ task[p].pc \notin ResetSteps /\ task[p].pc \notin IndexSteps
  BY <1>3, IdleTask DEF IndexSteps, ResetSteps
<1>7. TaskFits(task'[p], DOMAIN facts')
  <2>1. IdList(<<>>)
    BY IdleFits, IdleTask DEF TaskFits
  <2>. QED
    BY <1>3, <1>5, <1>6, <2>1, Zenon DEF TaskFits
<1>8. disturbed' \in BOOLEAN /\ (disturbed' => reindexed)
      /\ (~disturbed' => ~disturbed /\ \A q \in Writers \ {p} : task[q].op # "reindex")
  <2>1. disturbed' = (disturbed \/ \E q \in Writers \ {p} : task[q].op \in {"reindex"})
    BY DEF Recall!Write, Recall!Busy
  <2>. QED
    BY <1>1, <2>1, Zenon DEF MemoryTyped
<1>9. MemoryTyped'
  <2>1. /\ task' = [q \in Writers |-> task'[q]]
        /\ \A q \in Writers : TaskFits(task'[q], DOMAIN facts')
        /\ \A q \in Writers : task'[q].op = "reindex" => reindexed'
    <3>1. DOMAIN facts \subseteq DOMAIN facts'
      BY <1>2
    <3>. QED
      BY <1>1, <1>3, <1>7, <3>1, TasksFit
  <2>2. DataTyped'
    <3>1. ASSUME NEW id \in DOMAIN docs
          PROVE  docs[id].ref \in DOMAIN facts' /\ docs[id].words = facts'[docs[id].ref].words
      BY <1>1, <1>2, Zenon DEF DataTyped
    <3>. QED
      BY <1>1, <1>2, <3>1, Zenon DEF DataTyped
  <2>. QED
    BY <1>1, <1>8, <2>1, <2>2, Zenon DEF MemoryTyped
<1>10. FactsKept'
  <2>1. \A f : ~Covers(task[p], f)
    BY <1>3, IdleTask, EmptyRange DEF Covers
  <2>2. \A f \in DOMAIN facts' : f \in DOMAIN facts \/ Covers(task[p], f)'
    BY <1>2, <1>3, <1>5, Zenon DEF Covers
  <2>. QED
    BY <1>1, <1>3, <1>4, <1>6, <2>1, <2>2, FactsKeep
<1>11. ~disturbed' => FactsOnce' /\ VectorsFit'
  <2>1. SUFFICES ASSUME ~disturbed' PROVE FactsOnce' /\ VectorsFit'
    OBVIOUS
  <2>2. FactsOnce /\ VectorsFit /\ \A q \in Writers \ {p} : task[q].op # "reindex"
    BY <1>8, <2>1 DEF MemoryInv
  <2>3. \A q \in Writers : q # p => task'[q] = task[q]
    BY <1>3 DEF Others
  <2>4. \A q \in Writers : task'[q].op # "reindex"
    BY <1>3, <2>2, <2>3
  <2>5. \A q \in Writers : Recall!Range(task[q].queue) \subseteq DOMAIN facts
    <3>1. ASSUME NEW q \in Writers PROVE Recall!Range(task[q].queue) \subseteq DOMAIN facts
      <4>1. task[q].queue \in Seq(DOMAIN facts)
        BY <1>1, Zenon DEF MemoryTyped, TaskFits
      <4>2. \A i \in DOMAIN task[q].queue : task[q].queue[i] \in DOMAIN facts
        BY <4>1
      <4>. QED
        BY <4>2, Zenon DEF Recall!Range
    <3>. QED
      BY <3>1
  <2>6. ASSUME NEW q \in Writers, NEW r \in Writers, q # r, NEW f \in Recall!Range(task'[q].queue)
        PROVE  f \notin Recall!Range(task'[r].queue)
    <3>1. CASE q = p
      <4>1. f = m /\ task'[r] = task[r]
        BY <1>3, <1>5, <2>3, <2>6, <3>1
      <4>. QED
        BY <1>2, <2>5, <4>1
    <3>2. CASE r = p
      <4>1. f \in DOMAIN facts /\ Recall!Range(task'[r].queue) = {m}
        BY <1>3, <1>5, <2>3, <2>5, <2>6, <3>2
      <4>. QED
        BY <1>2, <4>1
    <3>3. CASE q # p /\ r # p
      BY <2>2, <2>3, <2>6, <3>3, Zenon DEF FactsOnce
    <3>. QED
      BY <3>1, <3>2, <3>3
  <2>7. ASSUME NEW q \in Writers, NEW f \in Pending(task'[q]), NEW id \in DOMAIN docs
        PROVE  docs[id].ref # f
    <3>1. CASE q = p
      <4>1. f = m
        BY <1>3, <1>5, <2>7, <3>1 DEF Pending
      <4>. QED
        BY <1>1, <1>2, <4>1, Zenon DEF DataTyped
    <3>2. CASE q # p
      BY <2>2, <2>3, <2>7, <3>2, Zenon DEF FactsOnce
    <3>. QED
      BY <3>1, <3>2
  <2>8. ASSUME NEW q \in Writers
        PROVE  /\ task'[q].pc \in IndexSteps \ {"doc"} => Intact(task[q])'
               /\ task'[q].pc \in ResetSteps \ {"empty docs"} => DOMAIN docs = {}
    <3>1. CASE q = p
      BY <1>6, <3>1
    <3>2. CASE q # p
      BY <1>3, <1>4, <2>2, <2>3, <3>2, OthersIntact DEF FactsOnce
    <3>. QED
      BY <3>1, <3>2
  <2>9. \A x, y \in DOMAIN docs : docs[x].ref = docs[y].ref => x = y
    BY <2>2, Zenon DEF FactsOnce
  <2>10. FactsOnce'
    BY <1>1, <2>4, <2>6, <2>7, <2>8, <2>9, Zenon DEF FactsOnce
  <2>11. VectorsFit'
    <3>1. /\ task'[p].pc \notin {"vector", "empty meta", "read facts"}
          /\ task[p].pc \notin {"empty fts", "drop vec"}
      BY <1>3, IdleTask
    <3>. QED
      BY <1>1, <1>3, <1>4, <2>2, <3>1, VectorsKeep
  <2>. QED
    BY <2>10, <2>11
<1>12. ~reindexed => WordsFit'
  <2>1. WordsFit => \A id \in DOMAIN fts' : id \in DOMAIN docs' /\ fts'[id] \subseteq docs'[id].words
    BY <1>1, Zenon DEF WordsFit
  <2>2. Recall!Range(task'[p].words) = {}
    BY <1>3, EmptyRange
  <2>. QED
    BY <1>3, <1>4, <2>1, <2>2, WordsKeep DEF MemoryInv
<1>13. \A q \in Writers : task'[q].pc = "answered" => AnswerFits(task[q])'
  <2>1. \A q \in Writers : task[q].pc = "answered" => AnswerFits(task[q])
    BY Zenon DEF MemoryInv
  <2>2. task'[p].pc # "answered"
    BY <1>3
  <2>. QED
    BY <1>1, <1>3, <1>4, <2>1, <2>2, AnswersKeep
<1>. QED
  BY <1>1, <1>9, <1>10, <1>11, <1>12, <1>13, Zenon DEF MemoryInv

LEMMA BeginReindexKeeps ==
    ASSUME MemoryInv, NEW p \in Writers, Recall!BeginReindex(p)
    PROVE  MemoryInv'
<1>1. /\ MemoryTyped /\ DataTyped /\ FactsKept
      /\ UNCHANGED <<facts, docs, fts, vec, meta, cut, last>> /\ reindexed' = TRUE
  BY DEF MemoryInv, MemoryTyped, Recall!BeginReindex
<1>2. /\ Others(p) /\ task[p] = Recall!Idle
      /\ IsTask(task'[p]) /\ task'[p].pc = "empty docs" /\ task'[p].op = "reindex"
      /\ task'[p].queue = <<>> /\ task'[p].words = <<>> /\ task'[p].near = <<>>
  <2>1. PICK what, step, queue, goal :
          /\ what = "reindex" /\ step = "empty docs" /\ queue = <<>> /\ goal = {}
          /\ Recall!Begin(p, what, step, queue, goal)
    BY Zenon DEF Recall!BeginReindex
  <2>2. Recall!Begin(p, what, step, queue, goal)
    BY <2>1, Zenon
  <2>3. /\ Others(p) /\ task[p] = Recall!Idle
        /\ IsTask(task'[p]) /\ task'[p].pc = step /\ task'[p].op = what
        /\ task'[p].queue = queue /\ task'[p].words = <<>> /\ task'[p].near = <<>>
    BY <1>1, <2>2, Beginning, Zenon
  <2>. QED
    BY <2>1, <2>3, Zenon
<1>3. /\ task'[p].pc \notin IndexSteps /\ task'[p].pc \in ResetSteps /\ task'[p].pc # "idle"
      /\ task'[p].pc \notin {"embed", "create", "pin", "vector"}
      /\ task'[p].pc \notin ResetSteps \ {"empty docs"} /\ task'[p].pc \notin IndexSteps \ {"doc"}
  BY <1>2 DEF IndexSteps, ResetSteps
<1>4. FactsGrown /\ DocsGrown
  BY <1>1 DEF FactsGrown, DocsGrown
<1>5. TaskFits(task'[p], DOMAIN facts)
  <2>1. IdList(<<>>) /\ <<>> \in Seq(DOMAIN facts) /\ DOMAIN <<>> = {}
    BY IdleFits, IdleTask DEF TaskFits
  <2>. QED
    BY <1>2, <1>3, <2>1, Zenon DEF TaskFits
<1>6. /\ disturbed' \in BOOLEAN
      /\ ~disturbed' => ~disturbed /\ \A q \in Writers \ {p} : task[q].op \notin {"write", "reindex"}
  <2>1. disturbed' = (disturbed \/ \E q \in Writers \ {p} : task[q].op \in {"write", "reindex"})
    BY DEF Recall!BeginReindex, Recall!Busy
  <2>. QED
    BY <1>1, <2>1, Zenon DEF MemoryTyped
<1>7. MemoryTyped'
  <2>1. /\ task' = [q \in Writers |-> task'[q]]
        /\ \A q \in Writers : TaskFits(task'[q], DOMAIN facts')
        /\ \A q \in Writers : task'[q].op = "reindex" => reindexed'
    BY <1>1, <1>2, <1>5, TasksFit
  <2>2. DataTyped'
    BY <1>1, Zenon DEF DataTyped
  <2>. QED
    BY <1>1, <1>6, <2>1, <2>2, Zenon DEF MemoryTyped
<1>8. FactsKept'
  BY <1>1, <1>2, <1>3, FactsKeptInReset
<1>9. ~disturbed' => FactsOnce' /\ VectorsFit'
  <2>1. SUFFICES ASSUME ~disturbed' PROVE FactsOnce' /\ VectorsFit'
    OBVIOUS
  <2>2. FactsOnce /\ VectorsFit /\ \A q \in Writers \ {p} : task[q].op \notin {"write", "reindex"}
    BY <1>6, <2>1 DEF MemoryInv
  <2>3. Recall!Range(task'[p].queue) = {} /\ Pending(task'[p]) = {}
    BY <1>2, EmptyRange DEF Pending
  <2>4. FactsOnce'
    BY <1>1, <1>2, <1>3, <2>2, <2>3, OnceKeepsAlone
  <2>5. VectorsFit'
    <3>1. /\ task'[p].pc \notin {"vector", "empty meta", "read facts"}
          /\ task[p].pc \notin {"empty fts", "drop vec"}
      BY <1>2, IdleTask
    <3>. QED
      BY <1>1, <1>2, <1>4, <2>2, <3>1, VectorsKeep
  <2>. QED
    BY <2>4, <2>5
<1>10. \A q \in Writers : task'[q].pc = "answered" => AnswerFits(task[q])'
  <2>1. \A q \in Writers : task[q].pc = "answered" => AnswerFits(task[q])
    BY Zenon DEF MemoryInv
  <2>2. task'[p].pc # "answered"
    BY <1>2
  <2>. QED
    BY <1>1, <1>2, <1>4, <2>1, <2>2, AnswersKeep
<1>. QED
  BY <1>1, <1>7, <1>8, <1>9, <1>10, Zenon DEF MemoryInv

LEMMA NoDomain == DOMAIN <<>> = {}
  OBVIOUS

LEMMA ResettingAt ==
    ASSUME MemoryInv, NEW p \in Writers, task[p].pc \in ResetSteps
    PROVE  /\ MemoryTyped /\ DataTyped /\ TaskFits(task[p], DOMAIN facts) /\ FactsKept
           /\ task[p].op = "reindex" /\ reindexed /\ task[p].queue = <<>>
           /\ task[p].pc \notin IndexSteps /\ task[p].pc # "idle"
           /\ ~disturbed => FactsOnce /\ VectorsFit
           /\ ~disturbed => \A q \in Writers : q # p =>
                 /\ task[q].op \notin {"write", "reindex"}
                 /\ task[q].pc \notin IndexSteps /\ task[q].pc \notin ResetSteps
                 /\ Recall!Range(task[q].queue) = {} /\ Pending(task[q]) = {}
<1>1. MemoryTyped /\ FactsKept /\ (~disturbed => FactsOnce /\ VectorsFit)
  BY Zenon DEF MemoryInv
<1>2. DataTyped /\ \A q \in Writers : TaskFits(task[q], DOMAIN facts)
  BY <1>1, Zenon DEF MemoryTyped
<1>3. task[p].pc \notin IndexSteps /\ task[p].pc # "idle"
  BY DEF IndexSteps, ResetSteps
<1>4. task[p].op = "reindex" /\ task[p].queue = <<>>
  BY <1>2, <1>3, Zenon DEF TaskFits
<1>5. reindexed
  BY <1>1, <1>4, Zenon DEF MemoryTyped
<1>6. ASSUME ~disturbed, NEW q \in Writers, q # p
      PROVE  /\ task[q].op \notin {"write", "reindex"}
             /\ task[q].pc \notin IndexSteps /\ task[q].pc \notin ResetSteps
             /\ Recall!Range(task[q].queue) = {} /\ Pending(task[q]) = {}
  <2>1. task[q].op \notin {"write", "reindex"}
    BY <1>1, <1>4, <1>6 DEF FactsOnce
  <2>2. task[q].pc \notin IndexSteps \cup ResetSteps
    BY <1>2, <2>1, Zenon DEF TaskFits
  <2>. QED
    BY <1>2, <2>1, <2>2, NotIndexing
<1>. QED
  BY <1>1, <1>2, <1>3, <1>4, <1>5, <1>6

(* A statement of the reset, of which the vectors' tables are the last.    *)
LEMMA ResetStepKeeps ==
    ASSUME MemoryInv, NEW p \in Writers, task[p].pc \in ResetSteps,
           NEW step \in ResetSteps \ {"empty docs"}, Recall!Goto(p, step),
           UNCHANGED <<facts, cut, disturbed, reindexed>>,
           \/ docs' = docs /\ last' = last /\ task[p].pc # "empty docs"
           \/ DOMAIN docs' = {} /\ last' = p,
           DataTyped',
           ~disturbed =>
              /\ meta' = NoEmbedder => DOMAIN vec'.rows = {}
              /\ step \in {"empty meta", "read facts"} => DOMAIN vec'.rows = {}
              /\ \A id \in DOMAIN vec'.rows :
                    vec'.rows[id].name = meta'.name /\ step \in {"empty fts", "drop vec"}
    PROVE  MemoryInv'
<1>1. /\ MemoryTyped /\ DataTyped /\ TaskFits(task[p], DOMAIN facts) /\ FactsKept
      /\ task[p].op = "reindex" /\ reindexed /\ task[p].queue = <<>>
      /\ task[p].pc \notin IndexSteps /\ task[p].pc # "idle"
      /\ ~disturbed => FactsOnce /\ VectorsFit
      /\ ~disturbed => \A q \in Writers : q # p =>
            /\ task[q].op \notin {"write", "reindex"}
            /\ task[q].pc \notin IndexSteps /\ task[q].pc \notin ResetSteps
            /\ Recall!Range(task[q].queue) = {} /\ Pending(task[q]) = {}
  BY ResettingAt
<1>2. Others(p) /\ Moved(task[p], task'[p], step)
  BY <1>1, Going
<1>3. task'[p].pc = step /\ task'[p].op = "reindex" /\ task'[p].queue = <<>>
  BY <1>1, <1>2, Zenon DEF Moved
<1>4. /\ step \in ResetSteps /\ step # "idle" /\ step \notin IndexSteps /\ step # "answered"
      /\ step \notin {"embed", "create", "pin", "vector"} /\ step \notin IndexSteps \ {"doc"}
  BY DEF IndexSteps, ResetSteps
<1>5. TaskFits(task'[p], DOMAIN facts)
  BY <1>1, <1>2, <1>4, FitsMoved
<1>6. MemoryTyped'
  <2>1. /\ task' = [q \in Writers |-> task'[q]]
        /\ \A q \in Writers : TaskFits(task'[q], DOMAIN facts')
        /\ \A q \in Writers : task'[q].op = "reindex" => reindexed'
    BY <1>1, <1>2, <1>5, TasksFit
  <2>. QED
    BY <1>1, <2>1, Zenon DEF MemoryTyped
<1>7. FactsKept'
  BY <1>1, <1>2, <1>3, FactsKeptInReset
<1>8. ~disturbed => FactsOnce' /\ VectorsFit'
  <2>. SUFFICES ASSUME ~disturbed PROVE FactsOnce' /\ VectorsFit'
    OBVIOUS
  <2>1. \A q \in Writers : q # p =>
            /\ task'[q].op \notin {"write", "reindex"}
            /\ task'[q].pc \notin IndexSteps /\ task'[q].pc \notin ResetSteps
            /\ Recall!Range(task'[q].queue) = {} /\ Pending(task'[q]) = {}
    BY <1>1, <1>2 DEF Others
  <2>2. Recall!Range(task'[p].queue) = {} /\ Pending(task'[p]) = {}
    BY <1>3, EmptyRange DEF Pending
  <2>3. DOMAIN docs' = {}
    BY <1>1, Zenon DEF FactsOnce
  <2>4. \A q \in Writers : task'[q].pc \notin IndexSteps
    BY <1>3, <1>4, <2>1
  <2>5. \A q, r \in Writers : q # r /\ task'[q].op = "reindex" => task'[r].op \notin {"write", "reindex"}
    BY <2>1, Zenon
  <2>6. \A q \in Writers : Recall!Range(task'[q].queue) = {} /\ Pending(task'[q]) = {}
    BY <2>1, <2>2
  <2>7. FactsOnce'
    BY <2>3, <2>4, <2>5, <2>6, Zenon DEF FactsOnce
  <2>8. \A q \in Writers : /\ task'[q].pc # "vector"
                           /\ task'[q].pc \in {"empty meta", "read facts"} => DOMAIN vec'.rows = {}
    BY <1>3, <2>1, <2>4 DEF IndexSteps, ResetSteps
  <2>9. \A id \in DOMAIN vec'.rows :
          vec'.rows[id].name = meta'.name /\ \E q \in Writers : task'[q].pc \in {"empty fts", "drop vec"}
    BY <1>3
  <2>10. VectorsFit'
    BY <2>3, <2>8, <2>9, Zenon DEF VectorsFit
  <2>. QED
    BY <2>7, <2>10
<1>9. \A q \in Writers : task'[q].pc = "answered" => AnswerFits(task[q])'
  <2>1. FactsGrown
    BY DEF FactsGrown
  <2>2. \A q \in Writers : task[q].pc = "answered" => AnswerFits(task[q])
    BY Zenon DEF MemoryInv
  <2>. QED
    BY <1>2, <1>3, <1>4, <2>1, <2>2, AnswersKeep
<1>. QED
  BY <1>1, <1>6, <1>7, <1>8, <1>9, Zenon DEF MemoryInv

LEMMA EmptyDocsKeeps ==
    ASSUME MemoryInv, NEW p \in Writers, Recall!EmptyDocs(p)
    PROVE  MemoryInv'
<1>1. /\ task[p].pc = "empty docs" /\ docs' = <<>> /\ last' = p /\ Recall!Goto(p, "empty fts")
      /\ UNCHANGED <<facts, fts, vec, meta, cut, disturbed, reindexed>>
  BY DEF Recall!EmptyDocs
<1>2. DOMAIN docs' = {}
  BY <1>1, NoDomain, Zenon
<1>3. task[p].pc \in ResetSteps /\ "empty fts" \in ResetSteps \ {"empty docs"}
  BY <1>1 DEF ResetSteps
<1>4. DataTyped /\ (~disturbed => VectorsFit)
  BY <1>3, ResettingAt
<1>5. DataTyped'
  BY <1>1, <1>2, <1>4, Zenon DEF DataTyped
<1>6. ~disturbed =>
        /\ meta' = NoEmbedder => DOMAIN vec'.rows = {}
        /\ \A id \in DOMAIN vec'.rows : vec'.rows[id].name = meta'.name
  BY <1>1, <1>4, Zenon DEF VectorsFit
<1>. QED
  BY <1>1, <1>2, <1>3, <1>5, <1>6, ResetStepKeeps

LEMMA EmptyFtsKeeps ==
    ASSUME MemoryInv, NEW p \in Writers, Recall!EmptyFts(p)
    PROVE  MemoryInv'
<1>1. /\ task[p].pc = "empty fts" /\ Recall!Goto(p, "drop vec") /\ DOMAIN fts' = DOMAIN fts
      /\ UNCHANGED <<facts, docs, vec, meta, cut, last, disturbed, reindexed>>
  BY DEF Recall!EmptyFts, Recall!history
<1>2. task[p].pc \in ResetSteps /\ "drop vec" \in ResetSteps \ {"empty docs"}
  BY <1>1 DEF ResetSteps
<1>3. DataTyped /\ (~disturbed => VectorsFit)
  BY <1>2, ResettingAt
<1>4. DataTyped'
  BY <1>1, <1>3, Zenon DEF DataTyped
<1>5. ~disturbed =>
        /\ meta' = NoEmbedder => DOMAIN vec'.rows = {}
        /\ \A id \in DOMAIN vec'.rows : vec'.rows[id].name = meta'.name
  BY <1>1, <1>3, Zenon DEF VectorsFit
<1>. QED
  BY <1>1, <1>2, <1>4, <1>5, ResetStepKeeps

LEMMA DropVecKeeps ==
    ASSUME MemoryInv, NEW p \in Writers, Recall!DropVec(p)
    PROVE  MemoryInv'
<1>1. /\ task[p].pc = "drop vec" /\ Recall!Goto(p, "empty meta") /\ vec' = Recall!NoTable
      /\ UNCHANGED <<facts, docs, fts, meta, cut, last, disturbed, reindexed>>
  BY DEF Recall!DropVec, Recall!history
<1>2. /\ DOMAIN vec'.rows = {} /\ vec' = [exists |-> vec'.exists, dim |-> vec'.dim, rows |-> vec'.rows]
  <2>1. PICK rows : rows = <<>>
    OBVIOUS
  <2>2. vec' = [exists |-> FALSE, dim |-> 0, rows |-> rows] /\ DOMAIN rows = {}
    BY <1>1, <2>1, NoDomain, Zenon DEF Recall!NoTable
  <2>. QED
    BY <2>2
<1>3. task[p].pc \in ResetSteps /\ "empty meta" \in ResetSteps \ {"empty docs"}
  BY <1>1 DEF ResetSteps
<1>4. DataTyped
  BY <1>3, ResettingAt
<1>5. DataTyped'
  BY <1>1, <1>2, <1>4, FS_EmptySet, Zenon DEF DataTyped
<1>. QED
  BY <1>1, <1>2, <1>3, <1>5, ResetStepKeeps

LEMMA EmptyMetaKeeps ==
    ASSUME MemoryInv, NEW p \in Writers, Recall!EmptyMeta(p)
    PROVE  MemoryInv'
<1>1. /\ task[p].pc = "empty meta" /\ Recall!Goto(p, "read facts")
      /\ UNCHANGED <<facts, docs, fts, vec, cut, last, disturbed, reindexed>>
  BY DEF Recall!EmptyMeta, Recall!history
<1>2. task[p].pc \in ResetSteps /\ "read facts" \in ResetSteps \ {"empty docs"}
  BY <1>1 DEF ResetSteps
<1>3. DataTyped /\ (~disturbed => VectorsFit)
  BY <1>2, ResettingAt
<1>4. DataTyped'
  BY <1>1, <1>3, Zenon DEF DataTyped
<1>5. ~disturbed => DOMAIN vec.rows = {}
  BY <1>1, <1>3 DEF VectorsFit
<1>. QED
  BY <1>1, <1>2, <1>4, <1>5, ResetStepKeeps

(* The facts are read after the reset: every one is to be indexed again.   *)
LEMMA ReadKeeps ==
    ASSUME MemoryInv, NEW p \in Writers, task[p].pc = "read facts", Others(p),
           UNCHANGED <<facts, docs, fts, vec, meta, cut, last, disturbed, reindexed>>,
           TaskFits(task'[p], DOMAIN facts), task'[p].pc \in {"idle", "doc"},
           \A f \in DOMAIN facts : Covers(task[p], f)'
    PROVE  MemoryInv'
<1>1. task[p].pc \in ResetSteps
  BY DEF ResetSteps
<1>2. /\ MemoryTyped /\ DataTyped /\ FactsKept /\ reindexed
      /\ ~disturbed => FactsOnce /\ VectorsFit
      /\ ~disturbed => \A q \in Writers : q # p =>
            /\ task[q].op \notin {"write", "reindex"}
            /\ task[q].pc \notin IndexSteps /\ task[q].pc \notin ResetSteps
            /\ Recall!Range(task[q].queue) = {} /\ Pending(task[q]) = {}
  BY <1>1, ResettingAt
<1>3. MemoryTyped'
  <2>1. /\ task' = [q \in Writers |-> task'[q]]
        /\ \A q \in Writers : TaskFits(task'[q], DOMAIN facts')
        /\ \A q \in Writers : task'[q].op = "reindex" => reindexed'
    BY <1>2, TasksFit
  <2>2. DataTyped'
    BY <1>2, Zenon DEF DataTyped
  <2>. QED
    BY <1>2, <2>1, <2>2, Zenon DEF MemoryTyped
<1>4. FactsKept'
  <2>1. \A q \in Writers : q # p => task'[q] = task[q]
    BY DEF Others
  <2>2. ASSUME NEW q \in Writers, task'[q].pc = "fts", task'[q].op = "reindex", last' = q
        PROVE  Intact(task[q])'
    <3>1. q # p
      BY <2>2
    <3>2. Intact(task[q])
      BY <1>2, <2>1, <2>2, <3>1, Zenon DEF FactsKept
    <3>. QED
      BY <2>1, <3>1, <3>2, Zenon DEF Intact
  <2>3. \A f \in DOMAIN facts' : \E q \in Writers : Covers(task[q], f)'
    OBVIOUS
  <2>. QED
    BY <2>2, <2>3, Zenon DEF FactsKept
<1>5. ~disturbed => FactsOnce' /\ VectorsFit'
  <2>. SUFFICES ASSUME ~disturbed PROVE FactsOnce' /\ VectorsFit'
    OBVIOUS
  <2>1. \A q \in Writers : q # p =>
            /\ task'[q].op \notin {"write", "reindex"}
            /\ task'[q].pc \notin IndexSteps /\ task'[q].pc \notin ResetSteps
            /\ Recall!Range(task'[q].queue) = {}
    BY <1>2 DEF Others
  <2>2. DOMAIN docs' = {}
    <3>1. task[p].pc \in ResetSteps \ {"empty docs"}
      BY <1>1
    <3>. QED
      BY <1>2, <3>1, Zenon DEF FactsOnce
  <2>3. DOMAIN vec'.rows = {}
    BY <1>2 DEF VectorsFit
  <2>4. ASSUME NEW q \in Writers
        PROVE  /\ task'[q].pc \notin IndexSteps \ {"doc"} /\ task'[q].pc # "vector"
    BY <2>1 DEF IndexSteps
  <2>5. ASSUME NEW q \in Writers, NEW r \in Writers, q # r
        PROVE  /\ task'[q].op = "reindex" => task'[r].op \notin {"write", "reindex"}
               /\ \A f \in Recall!Range(task'[q].queue) : f \notin Recall!Range(task'[r].queue)
    <3>1. CASE q = p
      BY <2>1, <2>5, <3>1
    <3>2. CASE q # p
      BY <2>1, <3>2
    <3>. QED
      BY <3>1, <3>2
  <2>6. FactsOnce'
    BY <2>2, <2>4, <2>5, Zenon DEF FactsOnce
  <2>7. VectorsFit'
    BY <2>3, <2>4, Zenon DEF VectorsFit
  <2>. QED
    BY <2>6, <2>7
<1>6. \A q \in Writers : task'[q].pc = "answered" => AnswerFits(task[q])'
  <2>1. FactsGrown /\ task'[p].pc # "answered"
    BY DEF FactsGrown
  <2>2. \A q \in Writers : task[q].pc = "answered" => AnswerFits(task[q])
    BY Zenon DEF MemoryInv
  <2>. QED
    BY <1>2, <2>1, <2>2, AnswersKeep
<1>. QED
  BY <1>2, <1>3, <1>4, <1>5, <1>6, Zenon DEF MemoryInv

LEMMA ReadFactsKeeps ==
    ASSUME MemoryInv, NEW p \in Writers, Recall!ReadFacts(p)
    PROVE  MemoryInv'
<1>1. /\ task[p].pc = "read facts"
      /\ UNCHANGED <<facts, docs, fts, vec, meta, cut, last, disturbed, reindexed>>
  BY DEF Recall!ReadFacts, Recall!history
<1>2. task[p].pc \in ResetSteps
  BY <1>1 DEF ResetSteps
<1>3. MemoryTyped /\ DataTyped /\ TaskFits(task[p], DOMAIN facts) /\ task[p].op = "reindex"
  BY <1>2, ResettingAt
<1>4. CASE facts = <<>>
  <2>1. Recall!Leave(p)
    BY <1>4 DEF Recall!ReadFacts
  <2>2. Others(p) /\ task'[p] = Recall!Idle
    BY <1>3, <2>1, Leaving
  <2>3. TaskFits(task'[p], DOMAIN facts) /\ task'[p].pc = "idle"
    BY <2>2, IdleTask, IdleFits
  <2>4. DOMAIN facts = {}
    BY <1>4, NoDomain, Zenon
  <2>. QED
    BY <1>1, <2>2, <2>3, <2>4, ReadKeeps
<1>5. CASE facts # <<>>
  <2>. DEFINE queue == [i \in DOMAIN facts |-> i]
  <2>1. task' = [task EXCEPT ![p] = PutQueue(task[p], queue, "doc")]
    BY <1>5, Zenon DEF Recall!ReadFacts, PutQueue
  <2>2. /\ queue \in Seq(DOMAIN facts) /\ queue # <<>> /\ Recall!Range(queue) = DOMAIN facts
        /\ \A i, j \in DOMAIN queue : queue[i] = queue[j] => i = j
    <3>1. facts \in Seq(Recall!Range(FactInputs))
      BY <1>3, Zenon DEF DataTyped
    <3>2. DOMAIN facts = 1..Len(facts) /\ Len(facts) \in Nat \ {0}
      BY <1>5, <3>1
    <3>3. queue \in Seq(DOMAIN facts) /\ Len(queue) = Len(facts)
      BY <3>2
    <3>4. queue # <<>>
      BY <3>2, <3>3
    <3>5. Recall!Range(queue) = DOMAIN facts
      BY DEF Recall!Range
    <3>. QED
      BY <3>3, <3>4, <3>5
  <2>. HIDE DEF queue
  <2>3. /\ Others(p) /\ task'[p] = PutQueue(task[p], queue, "doc")
    <3>1. task = [q \in Writers |-> task[q]]
      BY <1>3, Zenon DEF MemoryTyped
    <3>. QED
      BY <2>1, <3>1, Zenon DEF Others
  <2>4. Altered(task[p], task'[p], "queue", "doc") /\ task'[p].queue = queue
    BY <1>3, <2>3, QueueSet DEF TaskFits
  <2>5. /\ IsTask(task'[p]) /\ task'[p].pc = "doc" /\ task'[p].op = "reindex"
        /\ task'[p].words = task[p].words /\ task'[p].near = task[p].near
    BY <1>3, <2>4 DEF Altered
  <2>6. TaskFits(task'[p], DOMAIN facts)
    <3>1. /\ task'[p].pc # "idle" /\ task'[p].pc \in IndexSteps /\ task'[p].pc \notin ResetSteps
          /\ task'[p].pc \notin {"embed", "create", "pin", "vector"}
          /\ task'[p].pc \notin IndexSteps \ {"doc"} /\ task'[p].op # "write"
      BY <2>5 DEF IndexSteps, ResetSteps
    <3>2. IdList(task'[p].words) /\ IdList(task'[p].near)
      BY <1>3, <2>5, Zenon DEF TaskFits
    <3>. QED
      BY <2>2, <2>4, <2>5, <3>1, <3>2, Zenon DEF TaskFits
  <2>7. \A f \in DOMAIN facts : Covers(task[p], f)'
    BY <2>2, <2>4, <2>5, Zenon DEF Covers
  <2>. QED
    BY <1>1, <2>3, <2>5, <2>6, <2>7, ReadKeeps
<1>. QED
  BY <1>4, <1>5

-----------------------------------------------------------------------------
LEMMA MemoryInitInv == Recall!Init => MemoryInv
<1>. SUFFICES ASSUME Recall!Init PROVE MemoryInv
  OBVIOUS
<1>1. /\ facts = <<>> /\ docs = <<>> /\ fts = <<>> /\ vec = Recall!NoTable /\ meta = NoEmbedder
      /\ task = [p \in Writers |-> Recall!Idle] /\ cut = {} /\ last = Recall!Nobody
      /\ disturbed = FALSE /\ reindexed = FALSE
  BY DEF Recall!Init
<1>2. \A p \in Writers : task[p] = Recall!Idle
  BY <1>1, Zenon
<1>3. DOMAIN facts = {} /\ DOMAIN docs = {} /\ DOMAIN fts = {}
  BY <1>1, NoDomain, Zenon
<1>4. /\ DOMAIN vec.rows = {} /\ vec = [exists |-> vec.exists, dim |-> vec.dim, rows |-> vec.rows]
  <2>1. PICK rows : rows = <<>>
    OBVIOUS
  <2>2. vec = [exists |-> FALSE, dim |-> 0, rows |-> rows] /\ DOMAIN rows = {}
    BY <1>1, <2>1, NoDomain, Zenon DEF Recall!NoTable
  <2>. QED
    BY <2>2
<1>5. facts \in Seq(Recall!Range(FactInputs))
  BY <1>1
<1>6. DataTyped
  BY <1>1, <1>3, <1>4, <1>5, FS_EmptySet, Zenon DEF DataTyped
<1>7. /\ Recall!Idle.pc \notin IndexSteps /\ Recall!Idle.pc \notin ResetSteps
      /\ Recall!Idle.pc \notin {"vector", "empty meta", "read facts", "answered", "fts"}
      /\ Recall!Range(Recall!Idle.queue) = {} /\ Recall!Range(Recall!Idle.words) = {}
      /\ Recall!Idle.op \notin {"write", "reindex"} /\ Recall!Idle.op # "reindex"
      /\ Pending(Recall!Idle) = {}
  BY IdleTask, EmptyRange DEF IndexSteps, ResetSteps, Pending
<1>8. MemoryTyped
  <2>1. task = [p \in Writers |-> task[p]]
    BY <1>1, Zenon
  <2>. QED
    BY <1>1, <1>2, <1>6, <1>7, <2>1, IdleFits, Zenon DEF MemoryTyped
<1>9. FactsKept
  BY <1>2, <1>3, <1>7, Zenon DEF FactsKept
<1>10. FactsOnce
  BY <1>2, <1>3, <1>7, Zenon DEF FactsOnce
<1>11. VectorsFit
  BY <1>2, <1>4, <1>7, Zenon DEF VectorsFit
<1>12. WordsFit
  BY <1>2, <1>3, <1>7, Zenon DEF WordsFit
<1>. QED
  BY <1>2, <1>7, <1>8, <1>9, <1>10, <1>11, <1>12, Zenon DEF MemoryInv

LEMMA MemoryStepKeeps ==
    ASSUME MemoryInv, [Recall!Next]_(Recall!vars) PROVE MemoryInv'
<1>1. CASE UNCHANGED Recall!vars
  <2>1. UNCHANGED <<facts, docs, fts, vec, meta, task, cut, last, disturbed, reindexed>>
    BY <1>1 DEF Recall!vars, Recall!history
  <2>2. MemoryTyped' /\ FactsKept' /\ (~reindexed => WordsFit')
    BY <2>1, Zenon DEF MemoryInv, MemoryTyped, DataTyped, FactsKept, WordsFit, Covers, Intact,
                       Recall!Searchable, Recall!Resetting
  <2>3. ~disturbed => FactsOnce' /\ VectorsFit'
    BY <2>1, Zenon DEF MemoryInv, FactsOnce, VectorsFit, Intact
  <2>4. \A p \in Writers : task'[p].pc = "answered" => AnswerFits(task[p])'
    BY <2>1, Zenon DEF MemoryInv, AnswerFits
  <2>. QED
    BY <2>1, <2>2, <2>3, <2>4, Zenon DEF MemoryInv
<1>2. ASSUME NEW p \in Writers, Recall!Step(p) PROVE MemoryInv'
  BY <1>2, WriteKeeps, BeginReindexKeeps, EmptyDocsKeeps, EmptyFtsKeeps, DropVecKeeps,
     EmptyMetaKeeps, ReadFactsKeeps, InsertDocKeeps, InsertFtsKeeps, EmbedKeeps, CreateVecKeeps,
     PinKeeps, InsertVecKeeps, AskKeepsFacts, KeywordsKeep, NeighboursKeep, FetchKeeps,
     TopRelevantKeeps, AnsweredKeeps, CrashKeeps, Zenon DEF Recall!Step
<1>. QED
  BY <1>1, <1>2, Zenon DEF Recall!Next

LEMMA InvIsWhole == ASSUME MemoryInv PROVE MemoryIsWhole
<1>1. MemoryTyped /\ FactsKept /\ (~disturbed => FactsOnce /\ VectorsFit)
  BY Zenon DEF MemoryInv
<1>2. Recall!NothingLost
  <2>1. SUFFICES ASSUME NEW f \in Recall!Settled PROVE Recall!Searchable(f)
    BY DEF Recall!NothingLost
  <2>2. CASE \E p \in Writers : Recall!Resetting(p)
    BY <2>1, <2>2 DEF Recall!Settled
  <2>3. CASE ~\E p \in Writers : Recall!Resetting(p)
    <3>1. Recall!Settled = DOMAIN facts \ (cut \cup UNION {Recall!Range(task[p].queue) : p \in Writers})
      BY <2>3, Zenon DEF Recall!Settled
    <3>2. f \in DOMAIN facts /\ f \notin cut /\ \A p \in Writers : f \notin Recall!Range(task[p].queue)
      BY <3>1
    <3>3. \A p \in Writers : ~Covers(task[p], f)
      BY <3>2, Zenon DEF Covers
    <3>. QED
      BY <1>1, <2>3, <3>2, <3>3, Zenon DEF FactsKept
  <2>. QED
    BY <2>2, <2>3
<1>3. Recall!OneSpace
  BY <1>1, Zenon DEF Recall!OneSpace, FactsOnce, VectorsFit
<1>4. Recall!AnswersFit
  <2>1. \A p \in Writers : task[p].pc = "answered" => AnswerFits(task[p])
    BY Zenon DEF MemoryInv
  <2>. QED
    BY <2>1, Zenon DEF Recall!AnswersFit, AnswerFits, InBoth
<1>. QED
  BY <1>2, <1>3, <1>4, Zenon DEF MemoryIsWhole, Recall!MemoryIsWhole

(* However writes, reindexes and searches of several processes overlap: a  *)
(* fact nobody has still to index is found by each of its words, unless a  *)
(* crash or a failed statement kept it out; while no reindex was disturbed *)
(* every fact is indexed once and all vectors are of the one model that is *)
(* named; and what both indexes found comes first in an answer (Write,     *)
(* Reindex, IndexDocument, ensureVecTable and SearchHybrid of              *)
(* internal/memory).                                                       *)
THEOREM ProviderMemoryIsWhole == Recall!Spec => []MemoryIsWhole
<1>1. Recall!Init => MemoryInv
  BY MemoryInitInv
<1>2. MemoryInv /\ [Recall!Next]_(Recall!vars) => MemoryInv'
  BY MemoryStepKeeps
<1>3. MemoryInv => MemoryIsWhole
  BY InvIsWhole
<1>. QED
  BY <1>1, <1>2, <1>3, PTL DEF Recall!Spec
-----------------------------------------------------------------------------
(* The terminal of a run.                                                  *)

(* Iteration: for any step there is what it leads to, one after the other. *)
Leads(n, R, base, step, f) ==
    f \in [0..n -> R] /\ f[0] = base /\ \A i \in 1..n : f[i] = step[i][f[i - 1]]

LEMMA Iterates ==
    ASSUME NEW n \in Nat, NEW R, NEW base \in R, NEW step \in [1..n -> [R -> R]]
    PROVE  \E f : Leads(n, R, base, step, f)
<1>. DEFINE Reaches(k, f) == f \in [0..k -> R] /\ f[0] = base /\ \A i \in 1..k : f[i] = step[i][f[i - 1]]
            Short == {k \in Nat : k <= n /\ ~\E f : Reaches(k, f)}
            Below == OpToRel(<, Nat)
<1>1. CASE Short = {}
  <2>1. PICK f : Reaches(n, f)
    BY <1>1
  <2>. QED
    BY <2>1, Zenon DEF Leads
<1>2. CASE Short # {}
  <2>1. PICK k \in Short : \A j \in Short : <<j, k>> \notin Below
    BY <1>2, NatLessThanWellFounded, WFMin
  <2>2. \A j, m \in Nat : m < j => <<m, j>> \in Below
    BY DEF OpToRel
  <2>3. k # 0
    <3>1. Reaches(0, [i \in 0..0 |-> base])
      OBVIOUS
    <3>. QED
      BY <3>1
  <2>4. k - 1 \in Nat /\ k \in 1..n /\ k - 1 < k /\ k - 1 <= n
    BY <2>3
  <2>5. k - 1 \notin Short
    BY <2>1, <2>2, <2>4
  <2>6. PICK f : Reaches(k - 1, f)
    BY <2>4, <2>5
  <2>. DEFINE g == [i \in 0..k |-> IF i = k THEN step[k][f[k - 1]] ELSE f[i]]
  <2>7. Reaches(k, g)
    <3>1. step[k][f[k - 1]] \in R
      BY <2>4, <2>6
    <3>2. g \in [0..k -> R] /\ g[0] = base
      BY <2>3, <2>4, <2>6, <3>1
    <3>3. ASSUME NEW i \in 1..k PROVE g[i] = step[i][g[i - 1]]
      BY <2>3, <2>4, <2>6
    <3>. QED
      BY <3>2, <3>3
  <2>. QED
    BY <2>7
<1>. QED
  BY <1>1, <1>2

(* What holds at first and is kept by every step holds at last.            *)
LEMMA Carried ==
    ASSUME NEW n \in Nat, NEW R, NEW f, f[0] \in R, \A i \in 1..n : f[i - 1] \in R => f[i] \in R
    PROVE  f[n] \in R
<1>. DEFINE Out == {k \in 0..n : f[k] \notin R}
            Below == OpToRel(<, Nat)
<1>1. ASSUME Out # {} PROVE FALSE
  <2>1. Out \subseteq Nat
    OBVIOUS
  <2>2. PICK k \in Out : \A j \in Out : <<j, k>> \notin Below
    BY <1>1, <2>1, NatLessThanWellFounded, WFMin
  <2>3. \A j, m \in Nat : m < j => <<m, j>> \in Below
    BY DEF OpToRel
  <2>. HIDE DEF Below
  <2>4. k # 0 /\ k \in 1..n /\ k - 1 \in 0..n /\ k - 1 < k
    OBVIOUS
  <2>5. k - 1 \in Nat /\ k \in Nat
    BY <2>1, <2>4
  <2>6. <<k - 1, k>> \in Below
    BY <2>3, <2>4, <2>5
  <2>7. k - 1 \notin Out
    BY <2>2, <2>6, Zenon
  <2>. QED
    BY <2>4, <2>7
<1>. QED
  BY <1>1

(* A renderer, and one that differs from it in one field.                  *)
IsRenderer(r) ==
    r = [phase |-> r.phase, running |-> r.running, streaming |-> r.streaming,
         streamCol |-> r.streamCol, line |-> r.line, spoiled |-> r.spoiled, widest |-> r.widest]
OnlyIn(r, q, field) ==
    /\ IsRenderer(q)
    /\ field = "phase" \/ q.phase = r.phase
    /\ field = "running" \/ q.running = r.running
    /\ field = "streaming" \/ q.streaming = r.streaming
    /\ field = "streamCol" \/ q.streamCol = r.streamCol
    /\ field = "line" \/ q.line = r.line
    /\ field = "spoiled" \/ q.spoiled = r.spoiled
    /\ field = "widest" \/ q.widest = r.widest

LEMMA PhaseSet ==
    ASSUME NEW r, IsRenderer(r), NEW v
    PROVE  OnlyIn(r, [r EXCEPT !.phase = v], "phase") /\ [r EXCEPT !.phase = v].phase = v
  BY DEF IsRenderer, OnlyIn

LEMMA RunningSet ==
    ASSUME NEW r, IsRenderer(r), NEW v
    PROVE  OnlyIn(r, [r EXCEPT !.running = v], "running") /\ [r EXCEPT !.running = v].running = v
  BY DEF IsRenderer, OnlyIn

LEMMA StreamingSet ==
    ASSUME NEW r, IsRenderer(r), NEW v
    PROVE  OnlyIn(r, [r EXCEPT !.streaming = v], "streaming") /\ [r EXCEPT !.streaming = v].streaming = v
  BY DEF IsRenderer, OnlyIn

LEMMA StreamColSet ==
    ASSUME NEW r, IsRenderer(r), NEW v
    PROVE  OnlyIn(r, [r EXCEPT !.streamCol = v], "streamCol") /\ [r EXCEPT !.streamCol = v].streamCol = v
  BY DEF IsRenderer, OnlyIn

LEMMA LineSet ==
    ASSUME NEW r, IsRenderer(r), NEW v
    PROVE  OnlyIn(r, [r EXCEPT !.line = v], "line") /\ [r EXCEPT !.line = v].line = v
  BY DEF IsRenderer, OnlyIn

LEMMA SpoiledSet ==
    ASSUME NEW r, IsRenderer(r), NEW v
    PROVE  OnlyIn(r, [r EXCEPT !.spoiled = v], "spoiled") /\ [r EXCEPT !.spoiled = v].spoiled = v
  BY DEF IsRenderer, OnlyIn

LEMMA WidestSet ==
    ASSUME NEW r, IsRenderer(r), NEW v
    PROVE  OnlyIn(r, [r EXCEPT !.widest = v], "widest") /\ [r EXCEPT !.widest = v].widest = v
  BY DEF IsRenderer, OnlyIn

Shown(r) ==
    /\ IsRenderer(r) /\ IsFiniteSet(r.running) /\ r.streaming \in BOOLEAN /\ r.spoiled = FALSE
    /\ r.streamCol \in Nat /\ r.widest \in Nat /\ r.widest < Width
Keeps(r, q) == q.phase = r.phase /\ q.running = r.running

(* Nothing streams.                                                        *)
Still(r) == Shown(r) /\ r.streaming = FALSE /\ r.line.kind # "gutter"

InPhase(r) == r.phase # ""

(* Of the subtasks that run, only the one that is alone may be streaming,  *)
(* and it is where it left the line.                                       *)
Fine(r, live) ==
    /\ Shown(r)
    /\ r.line.kind = "gutter" => r.streaming = TRUE
    /\ r.streaming = TRUE => InPhase(r)
    /\ r.streaming = TRUE =>
         \A t \in live : r.running = {t} => r.line.kind = "gutter" /\ r.line.voices \subseteq {t}

LEMMA StillIsFine ==
    ASSUME NEW r, Still(r), NEW live PROVE Fine(r, live)
  BY Zenon DEF Still, Fine, Shown

LEMMA RowIs ==
    ASSUME NEW kind, NEW voices
    PROVE  Screen!Row(kind, voices).kind = kind /\ Screen!Row(kind, voices).voices = voices
  BY DEF Screen!Row

LEMMA NewlineShown ==
    ASSUME NEW r, Shown(r)
    PROVE  /\ Shown(Screen!Newline(r)) /\ Keeps(r, Screen!Newline(r))
           /\ Screen!Newline(r).streaming = r.streaming
           /\ Screen!Newline(r).line.kind = "blank"
<1>. DEFINE q == Screen!Newline(r)
<1>1. OnlyIn(r, q, "line") /\ q.line = Screen!Blank
  BY LineSet, Zenon DEF Shown, Screen!Newline
<1>2. Screen!Blank.kind = "blank"
  BY DEF Screen!Blank, Screen!Row
<1>. HIDE DEF q
<1>3. Shown(q) /\ Keeps(r, q) /\ q.streaming = r.streaming
  BY <1>1 DEF OnlyIn, Shown, Keeps
<1>4. q.line.kind = "blank"
  BY <1>1, <1>2
<1>. QED
  BY <1>3, <1>4, Zenon DEF q

LEMMA WriteShown ==
    ASSUME NEW r, Shown(r), r.line.kind # "gutter", NEW kind
    PROVE  /\ Shown(Screen!Write(r, kind)) /\ Keeps(r, Screen!Write(r, kind))
           /\ Screen!Write(r, kind).streaming = r.streaming
           /\ Screen!Write(r, kind).line.kind \in {kind, r.line.kind}
<1>1. PICK line : line = Screen!Row(IF r.line.kind = "blank" THEN kind ELSE r.line.kind, r.line.voices)
  OBVIOUS
<1>2. PICK u : u = [r EXCEPT !.line = line]
  OBVIOUS
<1>3. PICK spoiled : spoiled = (r.spoiled \/ r.line.kind = "gutter")
  OBVIOUS
<1>4. PICK q : q = Screen!Write(r, kind)
  OBVIOUS
<1>5. q = [u EXCEPT !.spoiled = spoiled]
  <2>1. u.spoiled = r.spoiled
    BY <1>2, LineSet DEF Shown, OnlyIn
  <2>. QED
    BY <1>1, <1>2, <1>3, <1>4, <2>1, Zenon DEF Screen!Write
<1>6. spoiled = FALSE
  BY <1>3 DEF Shown
<1>7. OnlyIn(r, u, "line") /\ u.line = line
  BY <1>2, LineSet DEF Shown
<1>8. OnlyIn(u, q, "spoiled") /\ q.spoiled = FALSE
  BY <1>5, <1>6, <1>7, SpoiledSet DEF OnlyIn
<1>9. q.line.kind \in {kind, r.line.kind}
  <2>1. line.kind = IF r.line.kind = "blank" THEN kind ELSE r.line.kind
    BY <1>1, RowIs
  <2>2. q.line = line
    BY <1>7, <1>8 DEF OnlyIn
  <2>. QED
    BY <2>1, <2>2
<1>10. Shown(q) /\ Keeps(r, q) /\ q.streaming = r.streaming
  BY <1>7, <1>8 DEF OnlyIn, Shown, Keeps
<1>. QED
  BY <1>4, <1>9, <1>10, Zenon

LEMMA StreamingShown ==
    ASSUME NEW r, Shown(r), NEW v \in BOOLEAN, NEW q, q = [r EXCEPT !.streaming = v]
    PROVE  Shown(q) /\ Keeps(r, q) /\ q.streaming = v /\ q.line = r.line
<1>1. OnlyIn(r, q, "streaming") /\ q.streaming = v
  BY StreamingSet, Zenon DEF Shown
<1>. QED
  BY <1>1 DEF OnlyIn, Shown, Keeps

(* What is written on a line of its own, and what waits at the end of one. *)
LEMMA LineShown ==
    ASSUME NEW r, Shown(r), r.line.kind # "gutter"
    PROVE  /\ Shown(Screen!Line(r)) /\ Keeps(r, Screen!Line(r))
           /\ Screen!Line(r).streaming = r.streaming /\ Screen!Line(r).line.kind # "gutter"
<1>1. PICK w : w = Screen!Write(r, "text")
  OBVIOUS
<1>2. Shown(w) /\ Keeps(r, w) /\ w.streaming = r.streaming
  BY <1>1, WriteShown
<1>3. PICK q : q = Screen!Line(r) /\ q = Screen!Newline(w)
  BY <1>1, Zenon DEF Screen!Line
<1>4. Shown(q) /\ Keeps(w, q) /\ q.streaming = w.streaming /\ q.line.kind = "blank"
  BY <1>2, <1>3, NewlineShown
<1>5. Shown(q) /\ Keeps(r, q) /\ q.streaming = r.streaming /\ q.line.kind # "gutter"
  BY <1>2, <1>4 DEF Keeps
<1>. QED
  BY <1>3, <1>5, Zenon

LEMMA LabelShown ==
    ASSUME NEW r, Shown(r), r.line.kind # "gutter"
    PROVE  /\ Shown(Screen!Label(r)) /\ Keeps(r, Screen!Label(r))
           /\ Screen!Label(r).streaming = r.streaming /\ Screen!Label(r).line.kind # "gutter"
<1>1. PICK w : w = Screen!Write(r, "label")
  OBVIOUS
<1>2. Shown(w) /\ Keeps(r, w) /\ w.streaming = r.streaming /\ w.line.kind # "gutter"
  BY <1>1, WriteShown
<1>. QED
  BY <1>1, <1>2, Zenon DEF Screen!Label

(* When nothing streams, nothing streams on.                               *)
LEMMA EndStreamStill ==
    ASSUME NEW r, NEW live, Fine(r, live)
    PROVE  Still(Screen!EndStream(r)) /\ Keeps(r, Screen!EndStream(r))
<1>1. CASE r.streaming = TRUE
  <2>1. PICK u : u = [r EXCEPT !.streaming = FALSE]
    OBVIOUS
  <2>2. Shown(u) /\ Keeps(r, u) /\ u.streaming = FALSE
    BY <2>1, StreamingShown DEF Fine
  <2>3. PICK v : v = Screen!Newline(u)
    OBVIOUS
  <2>4. Shown(v) /\ Keeps(u, v) /\ v.streaming = FALSE /\ v.line.kind # "gutter"
    BY <2>2, <2>3, NewlineShown
  <2>5. PICK q : q = Screen!Label(v)
    OBVIOUS
  <2>6. Shown(q) /\ Keeps(v, q) /\ q.streaming = FALSE /\ q.line.kind # "gutter"
    BY <2>4, <2>5, LabelShown
  <2>7. q = Screen!EndStream(r)
    BY <1>1, <2>1, <2>3, <2>5, Zenon DEF Screen!EndStream
  <2>8. Still(q) /\ Keeps(r, q)
    BY <2>2, <2>4, <2>6 DEF Still, Keeps
  <2>. QED
    BY <2>7, <2>8, Zenon
<1>2. CASE r.streaming # TRUE
  <2>1. r.streaming = FALSE
    BY <1>2 DEF Fine, Shown
  <2>2. Screen!EndStream(r) = r
    BY <2>1, Zenon DEF Screen!EndStream
  <2>3. Still(r) /\ Keeps(r, r)
    BY <2>1 DEF Fine, Still, Keeps
  <2>. QED
    BY <2>2, <2>3, Zenon
<1>. QED
  BY <1>1, <1>2

LEMMA NoPhaseStill ==
    ASSUME NEW r, NEW live, Fine(r, live), r.phase = ""
    PROVE  Still(r)
  BY DEF Fine, Shown, Still, InPhase

LEMMA DotStill ==
    ASSUME NEW r, NEW live, Fine(r, live)
    PROVE  Still(Screen!Dot(r)) /\ Keeps(r, Screen!Dot(r))
<1>1. CASE r.phase = ""
  <2>1. Screen!Dot(r) = r
    BY <1>1, Zenon DEF Screen!Dot
  <2>2. Still(r) /\ Keeps(r, r)
    BY <1>1, NoPhaseStill DEF Keeps
  <2>. QED
    BY <2>1, <2>2, Zenon
<1>2. CASE r.phase # ""
  <2>1. PICK u : u = Screen!EndStream(r)
    OBVIOUS
  <2>2. Still(u) /\ Keeps(r, u)
    BY <2>1, EndStreamStill
  <2>3. PICK q : q = Screen!Write(u, "dots")
    OBVIOUS
  <2>4. Shown(q) /\ Keeps(u, q) /\ q.streaming = u.streaming /\ q.line.kind \in {"dots", u.line.kind}
    BY <2>2, <2>3, WriteShown DEF Still
  <2>5. Still(q) /\ Keeps(r, q)
    BY <2>2, <2>4 DEF Still, Keeps
  <2>6. q = Screen!Dot(r)
    BY <1>2, <2>1, <2>3, Zenon DEF Screen!Dot
  <2>. QED
    BY <2>5, <2>6, Zenon
<1>. QED
  BY <1>1, <1>2

(* A stream cut short: the line under it is left.                          *)
LEMMA CutStill ==
    ASSUME NEW r, Shown(r)
    PROVE  LET q == Screen!Newline([r EXCEPT !.streaming = FALSE]) IN Still(q) /\ Keeps(r, q)
<1>1. PICK u : u = [r EXCEPT !.streaming = FALSE]
  OBVIOUS
<1>2. Shown(u) /\ Keeps(r, u) /\ u.streaming = FALSE
  BY <1>1, StreamingShown
<1>3. PICK q : q = Screen!Newline(u)
  OBVIOUS
<1>4. Shown(q) /\ Keeps(u, q) /\ q.streaming = FALSE /\ q.line.kind = "blank"
  BY <1>2, <1>3, NewlineShown
<1>5. Still(q) /\ Keeps(r, q)
  BY <1>2, <1>4 DEF Still, Keeps
<1>. QED
  BY <1>1, <1>3, <1>5, Zenon

LEMMA LineStill ==
    ASSUME NEW r, Still(r)
    PROVE  Still(Screen!Line(r)) /\ Keeps(r, Screen!Line(r))
  BY LineShown DEF Still

LEMMA LabelStill ==
    ASSUME NEW r, Still(r)
    PROVE  Still(Screen!Label(r)) /\ Keeps(r, Screen!Label(r))
  BY LabelShown DEF Still

LEMMA ToolCallStill ==
    ASSUME NEW r, Shown(r)
    PROVE  Still(Screen!ToolCall(r)) /\ Keeps(r, Screen!ToolCall(r))
<1>1. PICK u : u = Screen!Newline([r EXCEPT !.streaming = FALSE])
  OBVIOUS
<1>2. Still(u) /\ Keeps(r, u)
  BY <1>1, CutStill, Zenon
<1>3. PICK q : q = Screen!Line(u)
  OBVIOUS
<1>4. Still(q) /\ Keeps(u, q)
  BY <1>2, <1>3, LineStill
<1>5. Still(q) /\ Keeps(r, q)
  BY <1>2, <1>4 DEF Keeps
<1>6. q = Screen!ToolCall(r)
  BY <1>1, <1>3, Zenon DEF Screen!ToolCall
<1>. QED
  BY <1>5, <1>6, Zenon

LEMMA DiffStill ==
    ASSUME NEW r, NEW live, Fine(r, live)
    PROVE  Still(Screen!Diff(r)) /\ Keeps(r, Screen!Diff(r))
<1>1. PICK u : u = IF r.streaming THEN Screen!Newline([r EXCEPT !.streaming = FALSE]) ELSE r
  OBVIOUS
<1>2. Still(u) /\ Keeps(r, u)
  <2>1. CASE r.streaming = TRUE
    <3>1. u = Screen!Newline([r EXCEPT !.streaming = FALSE])
      BY <1>1, <2>1, Zenon
    <3>. QED
      BY <3>1, CutStill, Zenon DEF Fine
  <2>2. CASE r.streaming = FALSE
    <3>1. u = r
      BY <1>1, <2>2, Zenon
    <3>. QED
      BY <2>2, <3>1 DEF Fine, Still, Keeps
  <2>. QED
    BY <2>1, <2>2 DEF Fine, Shown
<1>3. PICK q : q = Screen!Line(u)
  OBVIOUS
<1>4. Still(q) /\ Keeps(u, q)
  BY <1>2, <1>3, LineStill
<1>5. Still(q) /\ Keeps(r, q)
  BY <1>2, <1>4 DEF Keeps
<1>6. q = Screen!Diff(r)
  BY <1>1, <1>3, Zenon DEF Screen!Diff
<1>. QED
  BY <1>5, <1>6, Zenon

LEMMA InterjectStill ==
    ASSUME NEW r, NEW live, Fine(r, live)
    PROVE  Still(Screen!Interject(r)) /\ Keeps(r, Screen!Interject(r))
<1>1. CASE r.phase = ""
  <2>1. Screen!Interject(r) = Screen!Line(r)
    BY <1>1, Zenon DEF Screen!Interject
  <2>. QED
    BY <1>1, <2>1, NoPhaseStill, LineStill
<1>2. CASE r.phase # ""
  <2>1. PICK u : u = Screen!Newline([r EXCEPT !.streaming = FALSE])
    OBVIOUS
  <2>2. Still(u) /\ Keeps(r, u)
    BY <2>1, CutStill, Zenon DEF Fine
  <2>3. PICK v : v = Screen!Line(u)
    OBVIOUS
  <2>4. Still(v) /\ Keeps(u, v)
    BY <2>2, <2>3, LineStill
  <2>5. PICK q : q = Screen!Label(v)
    OBVIOUS
  <2>6. Still(q) /\ Keeps(v, q)
    BY <2>4, <2>5, LabelStill
  <2>7. Still(q) /\ Keeps(r, q)
    BY <2>2, <2>4, <2>6 DEF Keeps
  <2>8. q = Screen!Interject(r)
    BY <1>2, <2>1, <2>3, <2>5, Zenon DEF Screen!Interject
  <2>. QED
    BY <2>7, <2>8, Zenon
<1>. QED
  BY <1>1, <1>2

(* A phase ends and another starts.                                        *)
LEMMA EndPhaseStill ==
    ASSUME NEW r, NEW live, Fine(r, live)
    PROVE  /\ Still(Screen!EndPhase(r)) /\ Screen!EndPhase(r).running = r.running
           /\ Screen!EndPhase(r).phase = ""
<1>1. CASE r.phase = ""
  <2>1. Screen!EndPhase(r) = r
    BY <1>1, Zenon DEF Screen!EndPhase
  <2>. QED
    BY <1>1, <2>1, NoPhaseStill
<1>2. CASE r.phase # ""
  <2>1. PICK u : u = Screen!EndStream(r)
    OBVIOUS
  <2>2. Still(u) /\ Keeps(r, u)
    BY <2>1, EndStreamStill
  <2>3. PICK v : v = Screen!Line(u)
    OBVIOUS
  <2>4. Still(v) /\ Keeps(u, v)
    BY <2>2, <2>3, LineStill
  <2>5. PICK q : q = [v EXCEPT !.phase = ""]
    OBVIOUS
  <2>6. Shown(q) /\ q.phase = "" /\ q.running = v.running /\ q.streaming = v.streaming /\ q.line = v.line
    <3>1. OnlyIn(v, q, "phase") /\ q.phase = ""
      BY <2>4, <2>5, PhaseSet, Zenon DEF Still, Shown
    <3>. QED
      BY <2>4, <3>1 DEF OnlyIn, Shown, Still
  <2>7. Still(q) /\ q.running = r.running
    BY <2>2, <2>4, <2>6 DEF Still, Keeps
  <2>8. q = Screen!EndPhase(r)
    BY <1>2, <2>1, <2>3, <2>5, Zenon DEF Screen!EndPhase
  <2>. QED
    BY <2>6, <2>7, <2>8, Zenon
<1>. QED
  BY <1>1, <1>2

LEMMA StartPhaseShown ==
    ASSUME NEW r, Shown(r), r.line.kind # "gutter", NEW label
    PROVE  LET q == Screen!StartPhase(r, label)
           IN Shown(q) /\ q.phase = label /\ q.running = r.running
              /\ q.streaming = r.streaming /\ q.line.kind # "gutter"
<1>1. PICK u : u = IF r.phase = "" THEN r ELSE Screen!Newline(r)
  OBVIOUS
<1>2. Shown(u) /\ u.running = r.running /\ u.streaming = r.streaming /\ u.line.kind # "gutter"
  <2>1. CASE r.phase = ""
    BY <1>1, <2>1
  <2>2. CASE r.phase # ""
    <3>1. u = Screen!Newline(r)
      BY <1>1, <2>2, Zenon
    <3>2. Shown(u) /\ Keeps(r, u) /\ u.streaming = r.streaming /\ u.line.kind = "blank"
      BY <3>1, NewlineShown
    <3>. QED
      BY <3>2 DEF Keeps
  <2>. QED
    BY <2>1, <2>2
<1>3. PICK v : v = [u EXCEPT !.phase = label]
  OBVIOUS
<1>4. Shown(v) /\ v.phase = label /\ v.running = u.running /\ v.streaming = u.streaming /\ v.line = u.line
  <2>1. OnlyIn(u, v, "phase") /\ v.phase = label
    BY <1>2, <1>3, PhaseSet, Zenon DEF Shown
  <2>. QED
    BY <1>2, <2>1 DEF OnlyIn, Shown
<1>5. PICK q : q = Screen!Label(v)
  OBVIOUS
<1>6. Shown(q) /\ Keeps(v, q) /\ q.streaming = v.streaming /\ q.line.kind # "gutter"
  BY <1>2, <1>4, <1>5, LabelShown
<1>7. q = Screen!StartPhase(r, label)
  BY <1>1, <1>3, <1>5, Zenon DEF Screen!StartPhase
<1>8. Shown(q) /\ q.phase = label /\ q.running = r.running /\ q.streaming = r.streaming
      /\ q.line.kind # "gutter"
  BY <1>2, <1>4, <1>6 DEF Keeps
<1>. QED
  BY <1>7, <1>8, Zenon

(* What the prose of t makes of the renderer r.                            *)
InStream(r, t) ==
    [phase : {r.phase}, running : {r.running}, streaming : {TRUE}, streamCol : Nat,
     line : {r.line} \union {Screen!Row("gutter", voices) : voices \in SUBSET {t}},
     spoiled : {FALSE}, widest : 0..(Width - 1)]
OnGutter(row, t) == row.kind = "gutter" /\ row.voices \subseteq {t}

LEMMA InStreamIs ==
    ASSUME NEW r, NEW t, NEW q
    PROVE  q \in InStream(r, t) <=>
             /\ IsRenderer(q) /\ Keeps(r, q) /\ q.streaming = TRUE /\ q.streamCol \in Nat
             /\ q.line \in {r.line} \union {Screen!Row("gutter", voices) : voices \in SUBSET {t}}
             /\ q.spoiled = FALSE /\ q.widest \in 0..(Width - 1)
<1>. DEFINE rows == {r.line} \union {Screen!Row("gutter", voices) : voices \in SUBSET {t}}
<1>. HIDE DEF rows
<1>1. q \in [phase : {r.phase}, running : {r.running}, streaming : {TRUE}, streamCol : Nat,
             line : rows, spoiled : {FALSE}, widest : 0..(Width - 1)]
      <=> /\ IsRenderer(q) /\ Keeps(r, q) /\ q.streaming = TRUE /\ q.streamCol \in Nat
          /\ q.line \in rows
          /\ q.spoiled = FALSE /\ q.widest \in 0..(Width - 1)
  BY DEF IsRenderer, Keeps
<1>. QED
  BY <1>1, Zenon DEF rows, InStream

LEMMA RowsOnGutter ==
    ASSUME NEW r, NEW t, OnGutter(r.line, t),
           NEW row \in {r.line} \union {Screen!Row("gutter", voices) : voices \in SUBSET {t}}
    PROVE  OnGutter(row, t)
<1>1. CASE row = r.line
  BY <1>1
<1>2. CASE row # r.line
  <2>1. PICK voices \in SUBSET {t} : row = Screen!Row("gutter", voices)
    BY <1>2
  <2>2. row.kind = "gutter" /\ row.voices = voices
    BY <2>1, RowIs
  <2>. QED
    BY <2>2 DEF OnGutter
<1>. QED
  BY <1>1, <1>2

LEMMA GutterInStream ==
    ASSUME NEW r, NEW t, NEW q \in InStream(r, t)
    PROVE  /\ Screen!Gutter(q) \in InStream(r, t)
           /\ Screen!Gutter(q).streamCol = 0 /\ OnGutter(Screen!Gutter(q).line, t)
<1>1. PICK row : row = Screen!Row("gutter", {})
  OBVIOUS
<1>2. PICK u : u = [q EXCEPT !.line = row]
  OBVIOUS
<1>3. PICK v : v = [u EXCEPT !.streamCol = 0]
  OBVIOUS
<1>4. v = Screen!Gutter(q)
  BY <1>1, <1>2, <1>3, Zenon DEF Screen!Gutter
<1>5. IsRenderer(q)
  BY InStreamIs
<1>6. OnlyIn(q, u, "line") /\ u.line = row
  BY <1>2, <1>5, LineSet, Zenon
<1>7. OnlyIn(u, v, "streamCol") /\ v.streamCol = 0
  <2>1. IsRenderer(u)
    BY <1>6 DEF OnlyIn
  <2>. QED
    BY <1>3, <2>1, StreamColSet, Zenon
<1>8. row.kind = "gutter" /\ row.voices = {}
  BY <1>1, RowIs, Zenon
<1>9. row \in {r.line} \union {Screen!Row("gutter", voices) : voices \in SUBSET {t}}
  <2>1. {} \in SUBSET {t}
    OBVIOUS
  <2>. QED
    BY <1>1, <2>1, Zenon
<1>10. v \in InStream(r, t)
  <2>. DEFINE rows == {r.line} \union {Screen!Row("gutter", voices) : voices \in SUBSET {t}}
  <2>1. /\ Keeps(r, q) /\ q.streaming = TRUE /\ q.streamCol \in Nat
        /\ q.spoiled = FALSE /\ q.widest \in 0..(Width - 1)
    BY InStreamIs, Zenon
  <2>2. row \in rows
    BY <1>9
  <2>. HIDE DEF rows
  <2>3. /\ IsRenderer(v) /\ Keeps(r, v) /\ v.streaming = TRUE /\ v.streamCol \in Nat
        /\ v.line \in rows /\ v.spoiled = FALSE /\ v.widest \in 0..(Width - 1)
    BY <1>6, <1>7, <2>1, <2>2 DEF OnlyIn, Keeps
  <2>. QED
    BY <2>3, InStreamIs, Zenon DEF rows
<1>11. v.streamCol = 0 /\ OnGutter(v.line, t)
  BY <1>6, <1>7, <1>8 DEF OnlyIn, OnGutter
<1>. QED
  BY <1>4, <1>10, <1>11, Zenon

(* A character that fits on the line.                                      *)
LEMMA PutInStream ==
    ASSUME NEW r, NEW t, NEW q \in InStream(r, t), OnGutter(q.line, t), q.streamCol + 5 < Width
    PROVE  Screen!Put(q, t) \in InStream(r, t)
<1>1. PICK col : col = q.streamCol + 1
  OBVIOUS
<1>2. PICK row : row = Screen!Row(q.line.kind, q.line.voices \union {t})
  OBVIOUS
<1>3. PICK bad : bad = (q.spoiled \/ q.line.kind # "gutter" \/ q.line.voices \ {t} # {})
  OBVIOUS
<1>4. PICK far : far = IF q.streamCol + 5 > q.widest THEN q.streamCol + 5 ELSE q.widest
  OBVIOUS
<1>. DEFINE rows == {r.line} \union {Screen!Row("gutter", voices) : voices \in SUBSET {t}}
<1>5. row \in rows
  <2>1. q.line.kind = "gutter" /\ q.line.voices \union {t} \in SUBSET {t}
    BY DEF OnGutter
  <2>. QED
    BY <1>2, <2>1, Zenon
<1>6. /\ IsRenderer(q) /\ Keeps(r, q) /\ q.streaming = TRUE /\ q.streamCol \in Nat
      /\ q.spoiled = FALSE /\ q.widest \in 0..(Width - 1)
  BY InStreamIs, Zenon
<1>7. bad = FALSE
  <2>1. q.line.kind = "gutter" /\ q.line.voices \ {t} = {}
    BY DEF OnGutter
  <2>. QED
    BY <1>3, <1>6, <2>1
<1>8. col \in Nat /\ far \in 0..(Width - 1)
  BY <1>1, <1>4, <1>6, ScreenAssumption
<1>9. PICK a : a = [q EXCEPT !.streamCol = col]
  OBVIOUS
<1>10. PICK b : b = [a EXCEPT !.line = row]
  OBVIOUS
<1>11. PICK c : c = [b EXCEPT !.spoiled = bad]
  OBVIOUS
<1>12. PICK d : d = [c EXCEPT !.widest = far]
  OBVIOUS
<1>13. OnlyIn(q, a, "streamCol") /\ a.streamCol = col
  BY <1>6, <1>9, StreamColSet, Zenon
<1>14. OnlyIn(a, b, "line") /\ b.line = row
  <2>1. IsRenderer(a)
    BY <1>13 DEF OnlyIn
  <2>. QED
    BY <1>10, <2>1, LineSet, Zenon
<1>15. OnlyIn(b, c, "spoiled") /\ c.spoiled = bad
  <2>1. IsRenderer(b)
    BY <1>14 DEF OnlyIn
  <2>. QED
    BY <1>11, <2>1, SpoiledSet, Zenon
<1>16. OnlyIn(c, d, "widest") /\ d.widest = far
  <2>1. IsRenderer(c)
    BY <1>15 DEF OnlyIn
  <2>. QED
    BY <1>12, <2>1, WidestSet, Zenon
<1>17. a.line = q.line /\ b.spoiled = q.spoiled /\ c.widest = q.widest
  BY <1>13, <1>14, <1>15 DEF OnlyIn
<1>18. d = Screen!Put(q, t)
  BY <1>1, <1>2, <1>3, <1>4, <1>9, <1>10, <1>11, <1>12, <1>17, Zenon DEF Screen!Put
<1>. HIDE DEF rows
<1>19. /\ IsRenderer(d) /\ Keeps(r, d) /\ d.streaming = TRUE /\ d.streamCol \in Nat
       /\ d.line \in rows /\ d.spoiled = FALSE /\ d.widest \in 0..(Width - 1)
  BY <1>5, <1>6, <1>7, <1>8, <1>13, <1>14, <1>15, <1>16 DEF OnlyIn, Keeps
<1>20. d \in InStream(r, t)
  BY <1>19, InStreamIs, Zenon DEF rows
<1>. QED
  BY <1>18, <1>20, Zenon

LEMMA CharInStream ==
    ASSUME NEW r, NEW t, OnGutter(r.line, t), NEW q \in InStream(r, t), NEW char
    PROVE  Screen!Char(q, char, t) \in InStream(r, t)
<1>1. PICK g : g = Screen!Gutter(q)
  OBVIOUS
<1>2. g \in InStream(r, t) /\ g.streamCol = 0 /\ OnGutter(g.line, t)
  BY <1>1, GutterInStream
<1>3. OnGutter(q.line, t)
  BY InStreamIs, RowsOnGutter, Zenon
<1>4. CASE Screen!Char(q, char, t) = g
  BY <1>2, <1>4
<1>5. CASE Screen!Char(q, char, t) = Screen!Put(g, t)
  <2>1. g.streamCol + 5 < Width
    BY <1>2, ScreenAssumption
  <2>2. Screen!Put(g, t) \in InStream(r, t)
    BY <1>2, <2>1, PutInStream
  <2>. QED
    BY <1>5, <2>2
<1>6. CASE Screen!Char(q, char, t) = Screen!Put(q, t) /\ ~(q.streamCol >= Screen!HardLimit)
  <2>1. q.streamCol \in Nat
    BY InStreamIs
  <2>2. q.streamCol + 5 < Width
    BY <1>6, <2>1, ScreenAssumption DEF Screen!HardLimit
  <2>3. Screen!Put(q, t) \in InStream(r, t)
    BY <1>3, <2>2, PutInStream
  <2>. QED
    BY <1>6, <2>3
<1>. QED
  BY <1>1, <1>4, <1>5, <1>6, Zenon DEF Screen!Char

LEMMA WidthIs == Width \in Nat /\ Width > 5
  BY ScreenAssumption, Zenon

(* A text emitted one character after the other.                           *)
LEMMA EmittedInStream ==
    ASSUME NEW r, NEW t, Shown(r), r.streaming = TRUE, OnGutter(r.line, t),
           NEW text, Len(text) \in Nat
    PROVE  Screen!Emitted(r, text, t) \in InStream(r, t)
<1>1. PICK n \in Nat : n = Len(text)
  OBVIOUS
<1>2. PICK R : R = InStream(r, t)
  OBVIOUS
<1>3. r \in R
  <2>1. Keeps(r, r) /\ r.widest \in 0..(Width - 1)
    BY WidthIs DEF Shown, Keeps
  <2>. QED
    BY <1>2, <2>1, InStreamIs, Zenon DEF Shown
<1>. DEFINE Eq(f) == f = [i \in 0..n |-> IF i = 0 THEN r ELSE Screen!Char(f[i - 1], text[i], t)]
<1>4. \A q \in R : \A char : Screen!Char(q, char, t) \in R
  BY <1>2, CharInStream, Zenon
<1>5. \E f : Eq(f)
  <2>. DEFINE step == [i \in 1..n |-> [q \in R |-> Screen!Char(q, text[i], t)]]
  <2>1. step \in [1..n -> [R -> R]]
    BY <1>4, Zenon
  <2>2. \A i \in 1..n, q \in R : step[i][q] = Screen!Char(q, text[i], t)
    OBVIOUS
  <2>. HIDE DEF step
  <2>3. PICK f : Leads(n, R, r, step, f)
    BY <1>3, <2>1, Iterates, Zenon
  <2>4. \A i \in 1..n : f[i] = Screen!Char(f[i - 1], text[i], t)
    <3>1. \A i \in 1..n : f[i - 1] \in R
      BY <2>3 DEF Leads
    <3>. QED
      BY <2>2, <2>3, <3>1, Zenon DEF Leads
  <2>5. Eq(f)
    BY <2>3, <2>4 DEF Leads
  <2>. QED
    BY <2>5
<1>6. PICK g : g = CHOOSE f : Eq(f)
  OBVIOUS
<1>7. Eq(g)
  <2>. HIDE DEF Eq
  <2>. QED
    BY <1>5, <1>6, Zenon
<1>8. g[0] \in R /\ \A i \in 1..n : g[i - 1] \in R => g[i] \in R
  <2>1. g[0] = r /\ \A i \in 1..n : g[i] = Screen!Char(g[i - 1], text[i], t)
    BY <1>7
  <2>. QED
    BY <1>3, <1>4, <2>1, Zenon
<1>9. g[n] \in R
  BY <1>8, Carried, Zenon
<1>10. Screen!Emitted(r, text, t) = g[n]
  BY <1>1, <1>6, Zenon DEF Screen!Emitted
<1>. QED
  BY <1>2, <1>9, <1>10, Zenon

LEMMA TrimLeftLen ==
    ASSUME NEW S, NEW text \in Seq(S)
    PROVE  Len(Screen!TrimLeft(text)) \in Nat
<1>. DEFINE other == {i \in 1..Len(text) : text[i] # "\n"}
            Below == OpToRel(<, Nat)
<1>1. CASE \A i \in DOMAIN text : text[i] = "\n"
  <2>1. Screen!TrimLeft(text) = <<>>
    BY <1>1, Zenon DEF Screen!TrimLeft
  <2>. QED
    BY <2>1
<1>2. CASE ~\A i \in DOMAIN text : text[i] = "\n"
  <2>1. other \subseteq Nat /\ other # {}
    BY <1>2
  <2>2. PICK k \in other : \A j \in other : <<j, k>> \notin Below
    BY <2>1, NatLessThanWellFounded, WFMin
  <2>3. \A j, m \in Nat : m < j => <<m, j>> \in Below
    BY DEF OpToRel
  <2>4. \A j \in other : k <= j
    <3>. HIDE DEF other, Below
    <3>1. ASSUME NEW j \in other PROVE k <= j
      <4>1. k \in Nat /\ j \in Nat
        BY <2>1
      <4>2. ~(j < k)
        BY <2>2, <2>3, <4>1, Zenon
      <4>. QED
        BY <4>1, <4>2
    <3>. QED
      BY <3>1
  <2>5. PICK first : first = CHOOSE x \in other : \A y \in other : x <= y
    OBVIOUS
  <2>6. first \in other
    <3>. HIDE DEF other
    <3>. QED
      BY <2>4, <2>5, Zenon
  <2>7. Screen!TrimLeft(text) = SubSeq(text, first, Len(text))
    BY <1>2, <2>1, <2>5, Zenon DEF Screen!TrimLeft, Screen!SelectInSeq, Screen!Min
  <2>8. SubSeq(text, first, Len(text)) \in Seq(S)
    BY <2>6
  <2>. QED
    BY <2>7, <2>8
<1>. QED
  BY <1>1, <1>2

LEMMA TextLen ==
    ASSUME NEW S, NEW text \in Seq(S) PROVE Len(text) \in Nat
  OBVIOUS

LEMMA StreamShown ==
    ASSUME NEW r, Shown(r), NEW q, IsRenderer(q), Keeps(r, q), q.streaming = TRUE,
           q.streamCol \in Nat, q.spoiled = FALSE, q.widest \in 0..(Width - 1)
    PROVE  Shown(q)
<1>1. PICK w : w = q.widest
  OBVIOUS
<1>2. w \in Nat /\ w < Width
  <2>1. w \in 0..(Width - 1)
    BY <1>1
  <2>. QED
    BY <2>1, WidthIs
<1>3. IsFiniteSet(q.running)
  BY Zenon DEF Shown, Keeps
<1>. QED
  BY <1>1, <1>2, <1>3, Zenon DEF Shown

LEMMA InStreamFine ==
    ASSUME NEW r, NEW t, Shown(r), InPhase(r), r.running = {t}, OnGutter(r.line, t),
           NEW q \in InStream(r, t), NEW live
    PROVE  Fine(q, live) /\ q.running = r.running
<1>1. /\ IsRenderer(q) /\ Keeps(r, q) /\ q.streaming = TRUE /\ q.streamCol \in Nat
      /\ q.spoiled = FALSE /\ q.widest \in 0..(Width - 1)
  BY InStreamIs, Zenon
<1>2. OnGutter(q.line, t)
  BY InStreamIs, RowsOnGutter, Zenon
<1>3. Shown(q)
  BY <1>1, StreamShown, Zenon
<1>4. InPhase(q) /\ q.running = {t}
  BY <1>1 DEF Keeps, InPhase
<1>5. \A s \in live : q.running = {s} => q.line.kind = "gutter" /\ q.line.voices \subseteq {s}
  BY <1>2, <1>4 DEF OnGutter
<1>. QED
  BY <1>1, <1>3, <1>4, <1>5 DEF Fine

(* The prose of a subtask that is alone.                                   *)
LEMMA StreamTextFine ==
    ASSUME NEW r, NEW live, NEW t \in live, Fine(r, live), InPhase(r), r.running = {t},
           NEW S, NEW text \in Seq(S)
    PROVE  /\ Fine(Screen!StreamText(r, text, t), live)
           /\ Screen!StreamText(r, text, t).running = r.running
<1>1. CASE r.streaming = TRUE
  <2>1. OnGutter(r.line, t)
    BY <1>1 DEF Fine, OnGutter
  <2>2. Len(text) \in Nat
    BY TextLen
  <2>3. PICK q : q = Screen!Emitted(r, text, t)
    OBVIOUS
  <2>4. q \in InStream(r, t)
    BY <1>1, <2>1, <2>2, <2>3, EmittedInStream DEF Fine
  <2>5. Fine(q, live) /\ q.running = r.running
    BY <2>1, <2>4, InStreamFine DEF Fine
  <2>6. q = Screen!StreamText(r, text, t)
    BY <1>1, <2>3, Zenon DEF Screen!StreamText
  <2>. QED
    BY <2>5, <2>6, Zenon
<1>2. CASE r.streaming = FALSE
  <2>1. PICK u : u = [r EXCEPT !.streaming = TRUE]
    OBVIOUS
  <2>2. Shown(u) /\ Keeps(r, u) /\ u.streaming = TRUE
    BY <2>1, StreamingShown DEF Fine
  <2>3. PICK v : v = Screen!Gutter(u)
    OBVIOUS
  <2>4. u \in InStream(u, t)
    <3>1. Keeps(u, u) /\ u.widest \in 0..(Width - 1)
      BY <2>2, WidthIs DEF Shown, Keeps
    <3>. QED
      BY <2>2, <3>1, InStreamIs, Zenon DEF Shown
  <2>5. v \in InStream(u, t) /\ OnGutter(v.line, t)
    BY <2>3, <2>4, GutterInStream
  <2>6. /\ IsRenderer(v) /\ Keeps(u, v) /\ v.streaming = TRUE /\ v.streamCol \in Nat
        /\ v.spoiled = FALSE /\ v.widest \in 0..(Width - 1)
    BY <2>5, InStreamIs, Zenon
  <2>7. Shown(v) /\ InPhase(v) /\ v.running = {t}
    <3>1. Shown(v)
      BY <2>2, <2>6, StreamShown, Zenon
    <3>. QED
      BY <2>2, <2>6, <3>1, Zenon DEF Keeps, InPhase
  <2>8. Len(Screen!TrimLeft(text)) \in Nat
    BY TrimLeftLen
  <2>9. PICK q : q = Screen!Emitted(v, Screen!TrimLeft(text), t)
    OBVIOUS
  <2>10. q \in InStream(v, t)
    BY <2>5, <2>6, <2>7, <2>8, <2>9, EmittedInStream
  <2>11. Fine(q, live) /\ q.running = v.running
    BY <2>5, <2>7, <2>10, InStreamFine
  <2>12. q = Screen!StreamText(r, text, t)
    BY <1>2, <2>1, <2>3, <2>9, Zenon DEF Screen!StreamText
  <2>13. q.running = r.running
    BY <2>7, <2>11
  <2>. QED
    BY <2>11, <2>12, <2>13, Zenon
<1>. QED
  BY <1>1, <1>2 DEF Fine, Shown

(* A renderer that lost sight of subtasks is as well off.                  *)
LEMMA FineLess ==
    ASSUME NEW r, NEW live, Fine(r, live), NEW less, \A t \in less : t \in live \/ t \notin r.running
    PROVE  Fine(r, less)
<1>1. ASSUME NEW t \in less, r.running = {t} PROVE t \in live
  BY <1>1
<1>. QED
  BY <1>1, Zenon DEF Fine

LEMMA RunningFine ==
    ASSUME NEW r, NEW live, Fine(r, live), NEW known, IsFiniteSet(known)
    PROVE  Fine([r EXCEPT !.running = known], {}) /\ [r EXCEPT !.running = known].running = known
<1>1. PICK q : q = [r EXCEPT !.running = known]
  OBVIOUS
<1>2. OnlyIn(r, q, "running") /\ q.running = known
  BY <1>1, RunningSet, Zenon DEF Fine, Shown
<1>3. Shown(q) /\ q.line = r.line /\ q.streaming = r.streaming /\ q.phase = r.phase
  BY <1>2 DEF OnlyIn, Fine, Shown
<1>4. Fine(q, {})
  BY <1>3 DEF Fine, InPhase
<1>. QED
  BY <1>1, <1>2, <1>4, Zenon

LEMMA StartedStill ==
    ASSUME NEW r, NEW live, Fine(r, live), NEW t
    PROVE  /\ Still(Screen!Started(r, t))
           /\ Screen!Started(r, t).running = r.running \union {t}
<1>1. PICK known : known = r.running \union {t}
  OBVIOUS
<1>2. IsFiniteSet(known)
  BY <1>1, FS_AddElement, Zenon DEF Fine, Shown
<1>3. PICK u : u = [r EXCEPT !.running = known]
  OBVIOUS
<1>4. Fine(u, {}) /\ u.running = known
  BY <1>2, <1>3, RunningFine, Zenon
<1>5. PICK q : q = Screen!Dot(u)
  OBVIOUS
<1>6. Still(q) /\ Keeps(u, q)
  BY <1>4, <1>5, DotStill
<1>7. q = Screen!Started(r, t)
  BY <1>1, <1>3, <1>5, Zenon DEF Screen!Started
<1>8. q.running = known
  BY <1>4, <1>6 DEF Keeps
<1>. QED
  BY <1>1, <1>6, <1>7, <1>8, Zenon

LEMMA OverStill ==
    ASSUME NEW r, NEW live, Fine(r, live), NEW t
    PROVE  Still(Screen!Over(r, t)) /\ Screen!Over(r, t).running = r.running \ {t}
<1>1. PICK known : known = r.running \ {t}
  OBVIOUS
<1>2. IsFiniteSet(known)
  BY <1>1, FS_RemoveElement, Zenon DEF Fine, Shown
<1>3. PICK u : u = [r EXCEPT !.running = known]
  OBVIOUS
<1>4. Fine(u, {}) /\ u.running = known
  BY <1>2, <1>3, RunningFine, Zenon
<1>5. PICK q : q = Screen!Dot(u)
  OBVIOUS
<1>6. Still(q) /\ Keeps(u, q)
  BY <1>4, <1>5, DotStill
<1>7. q = Screen!Over(r, t)
  BY <1>1, <1>3, <1>5, Zenon DEF Screen!Over
<1>8. q.running = known
  BY <1>4, <1>6 DEF Keeps
<1>. QED
  BY <1>1, <1>6, <1>7, <1>8, Zenon

(* What a running subtask sends.                                           *)
LEMMA AloneIs ==
    ASSUME NEW r, NEW t, Screen!Alone(r, t)
    PROVE  InPhase(r) /\ r.running = {t}
  BY Zenon DEF Screen!Alone, InPhase

LEMMA ProseFine ==
    ASSUME NEW r, NEW live, NEW t \in live, Fine(r, live), NEW text \in Texts
    PROVE  /\ Fine(Screen!Prose(r, t, text), live)
           /\ Screen!Prose(r, t, text).running = r.running
<1>1. CASE Screen!Prose(r, t, text) = Screen!StreamText(r, text, t) /\ Screen!Alone(r, t)
  <2>1. InPhase(r) /\ r.running = {t}
    BY <1>1, AloneIs, Zenon
  <2>2. PICK S : text \in Seq(S)
    BY ScreenAssumption, Zenon
  <2>3. PICK q : q = Screen!StreamText(r, text, t)
    OBVIOUS
  <2>4. Fine(q, live) /\ q.running = r.running
    BY <2>1, <2>2, <2>3, StreamTextFine
  <2>. QED
    BY <1>1, <2>3, <2>4, Zenon
<1>2. CASE Screen!Prose(r, t, text) = Screen!Dot(r)
  BY <1>2, DotStill, StillIsFine, Zenon DEF Keeps
<1>. QED
  BY <1>1, <1>2, Zenon DEF Screen!Prose

LEMMA ResultFine ==
    ASSUME NEW r, NEW live, Fine(r, live), NEW t, NEW how
    PROVE  /\ Fine(Screen!Result(r, t, how), live)
           /\ Screen!Result(r, t, how).running = r.running
<1>1. Screen!Result(r, t, how) \in {Screen!Diff(r), Screen!Interject(r), Screen!Dot(r)}
  BY DEF Screen!Result
<1>2. ASSUME NEW q, Still(q), Keeps(r, q) PROVE Fine(q, live) /\ q.running = r.running
  BY <1>2, StillIsFine, Zenon DEF Keeps
<1>3. \A q \in {Screen!Diff(r), Screen!Interject(r), Screen!Dot(r)} : Still(q) /\ Keeps(r, q)
  BY DiffStill, InterjectStill, DotStill
<1>. QED
  BY <1>1, <1>2, <1>3, Zenon

(* Between sessions.                                                       *)
LEMMA AnnounceFine ==
    ASSUME NEW r, Fine(r, {})
    PROVE  /\ Fine(Screen!Announce(r), {}) /\ Keeps(r, Screen!Announce(r))
           /\ Screen!Announce(r).line.kind # "gutter"
<1>1. PICK q : q = Screen!Newline(r)
  OBVIOUS
<1>2. Shown(q) /\ Keeps(r, q) /\ q.streaming = r.streaming /\ q.line.kind = "blank"
  BY <1>1, NewlineShown DEF Fine
<1>3. q.line.kind # "gutter"
  BY <1>2
<1>4. Fine(q, {})
  BY <1>2, <1>3 DEF Fine, Keeps, InPhase
<1>. QED
  BY <1>1, <1>2, <1>3, <1>4, Zenon DEF Screen!Announce

LEMMA NextPhaseStill ==
    ASSUME NEW r, NEW live, Fine(r, live), NEW label
    PROVE  /\ Still(Screen!StartPhase(Screen!EndPhase(r), label))
           /\ Screen!StartPhase(Screen!EndPhase(r), label).running = r.running
<1>1. PICK u : u = Screen!EndPhase(r)
  OBVIOUS
<1>2. Still(u) /\ u.running = r.running
  BY <1>1, EndPhaseStill
<1>3. PICK q : q = Screen!StartPhase(u, label)
  OBVIOUS
<1>4. Shown(q) /\ q.running = u.running /\ q.streaming = u.streaming /\ q.line.kind # "gutter"
  <2>1. Shown(u) /\ u.line.kind # "gutter"
    BY <1>2 DEF Still
  <2>. QED
    BY <1>3, <2>1, StartPhaseShown, Zenon
<1>5. Still(q) /\ q.running = r.running
  BY <1>2, <1>4 DEF Still
<1>. QED
  BY <1>1, <1>3, <1>5, Zenon

LEMMA FirstPhaseFine ==
    ASSUME NEW r, Fine(r, {})
    PROVE  LET q == Screen!StartPhase(Screen!Announce(r), "Planning")
           IN Fine(q, {}) /\ q.running = r.running
<1>1. PICK u : u = Screen!Announce(r)
  OBVIOUS
<1>2. Fine(u, {}) /\ Keeps(r, u) /\ u.line.kind # "gutter"
  BY <1>1, AnnounceFine
<1>3. PICK q : q = Screen!StartPhase(u, "Planning")
  OBVIOUS
<1>4. /\ Shown(q) /\ q.phase = "Planning" /\ q.running = u.running /\ q.streaming = u.streaming
      /\ q.line.kind # "gutter"
  BY <1>2, <1>3, StartPhaseShown, Zenon DEF Fine
<1>5. "Planning" # ""
  OBVIOUS
<1>6. InPhase(q)
  BY <1>4, <1>5, Zenon DEF InPhase
<1>7. Fine(q, {})
  BY <1>4, <1>6 DEF Fine
<1>8. q.running = r.running
  BY <1>2, <1>4 DEF Keeps
<1>. QED
  BY <1>1, <1>3, <1>7, <1>8, Zenon

LEMMA LastLineFine ==
    ASSUME NEW r, Fine(r, {})
    PROVE  LET q == Screen!Announce(Screen!EndPhase(r)) IN Fine(q, {}) /\ q.running = r.running
<1>1. PICK u : u = Screen!EndPhase(r)
  OBVIOUS
<1>2. Fine(u, {}) /\ u.running = r.running
  BY <1>1, EndPhaseStill, StillIsFine
<1>3. PICK q : q = Screen!Announce(u)
  OBVIOUS
<1>4. Fine(q, {}) /\ Keeps(u, q)
  BY <1>2, <1>3, AnnounceFine
<1>5. q.running = r.running
  BY <1>2, <1>4 DEF Keeps
<1>. QED
  BY <1>1, <1>3, <1>4, <1>5, Zenon

LEMMA FinishedShown ==
    ASSUME NEW r, Shown(r), NEW q,
           q = IF r.phase = "" THEN r ELSE [Screen!Newline(r) EXCEPT !.phase = ""]
    PROVE  Shown(q) /\ q.running = r.running
<1>1. PICK u : u = Screen!Newline(r)
  OBVIOUS
<1>2. Shown(u) /\ Keeps(r, u)
  BY <1>1, NewlineShown
<1>3. PICK v : v = [u EXCEPT !.phase = ""]
  OBVIOUS
<1>4. OnlyIn(u, v, "phase")
  BY <1>2, <1>3, PhaseSet, Zenon DEF Shown
<1>5. Shown(v) /\ v.running = r.running
  BY <1>2, <1>4 DEF OnlyIn, Shown, Keeps
<1>6. q = r \/ q = v
  BY <1>1, <1>3, Zenon
<1>. QED
  BY <1>5, <1>6

(* The invariant: the renderer may have missed the start or the end of any *)
(* subtask, but knows of none that never began; so if it sees the one that *)
(* runs alone, no other has streamed since the last gutter line.           *)
LiveOf(u) == {t \in Subtasks : u[t] = "running"}
Begun(u) == {t \in Subtasks : u[t] # "idle"}
ScreenIs(s, u, r) ==
    /\ s \in {"none", "planning", "fallback", "running", "synthesis", "joined", "over", "closed"}
    /\ u \in [Subtasks -> {"idle", "running", "done"}]
    /\ LiveOf(u) # {} => s = "running"
    /\ r.running \subseteq Begun(u)
    /\ Shown(r)
    /\ s # "closed" => Fine(r, LiveOf(u))
ScreenInv == ScreenIs(session, sub, renderer)

LEMMA ScreenInitInv == Screen!Init => ScreenInv
<1>. SUFFICES ASSUME Screen!Init PROVE ScreenInv
  OBVIOUS
<1>1. PICK none : none = {}
  OBVIOUS
<1>2. PICK row : row = Screen!Blank
  OBVIOUS
<1>3. renderer = [phase |-> "", running |-> none, streaming |-> FALSE, streamCol |-> 0,
                  line |-> row, spoiled |-> FALSE, widest |-> 0]
  BY <1>1, <1>2, Zenon DEF Screen!Init, Screen!NewRenderer
<1>4. /\ IsRenderer(renderer) /\ renderer.running = none /\ renderer.streaming = FALSE
      /\ renderer.streamCol = 0 /\ renderer.line = row /\ renderer.spoiled = FALSE
      /\ renderer.widest = 0
  BY <1>3 DEF IsRenderer
<1>5. IsFiniteSet(none)
  BY <1>1, FS_EmptySet, Zenon
<1>6. row.kind # "gutter"
  BY <1>2, RowIs DEF Screen!Blank
<1>7. Shown(renderer)
  <2>1. 0 \in Nat /\ 0 < Width /\ FALSE \in BOOLEAN
    BY WidthIs
  <2>. QED
    BY <1>4, <1>5, <2>1, Zenon DEF Shown
<1>8. Still(renderer)
  BY <1>4, <1>6, <1>7 DEF Still
<1>9. session = "none" /\ sub = [t \in Subtasks |-> "idle"]
  BY Zenon DEF Screen!Init
<1>10. LiveOf(sub) = {} /\ sub \in [Subtasks -> {"idle", "running", "done"}]
  BY <1>9 DEF LiveOf
<1>. QED
  BY <1>1, <1>4, <1>7, <1>8, <1>9, <1>10, StillIsFine DEF ScreenInv, ScreenIs

(* The session moves on and the subtasks stand still.                      *)
LEMMA ScreenMoves ==
    ASSUME NEW s, NEW u, NEW r, ScreenIs(s, u, r), s # "closed",
           NEW s2 \in {"planning", "fallback", "running", "synthesis", "joined", "over"},
           LiveOf(u) # {} => s2 = "running",
           NEW q, Fine(q, LiveOf(u)), q.running = r.running,
           NEW next, next \in {q, r}
    PROVE  ScreenIs(s2, u, next)
<1>1. Fine(next, LiveOf(u)) /\ next.running = r.running
  BY DEF ScreenIs
<1>. QED
  BY <1>1 DEF ScreenIs, Fine

LEMMA StillMoves ==
    ASSUME NEW s, NEW u, NEW r, ScreenIs(s, u, r), s # "closed",
           NEW s2 \in {"planning", "fallback", "running", "synthesis", "joined", "over"},
           LiveOf(u) # {} => s2 = "running",
           NEW q, Still(q), q.running = r.running,
           NEW next, next \in {q, r}
    PROVE  ScreenIs(s2, u, next)
<1>1. Fine(q, LiveOf(u))
  BY StillIsFine
<1>. QED
  BY <1>1, ScreenMoves

LEMMA GoalReceivedKeeps ==
    ASSUME ScreenInv, Screen!GoalReceived PROVE ScreenInv'
<1>1. PICK q : q = Screen!StartPhase(Screen!Announce(renderer), "Planning")
  OBVIOUS
<1>2. /\ session \in {"none", "over"} /\ session' = "planning" /\ sub' = sub
      /\ renderer' \in {q, renderer}
  BY <1>1, Zenon DEF Screen!GoalReceived, Screen!Publish
<1>3. LiveOf(sub) = {} /\ ScreenIs(session, sub, renderer)
  BY <1>2 DEF ScreenInv, ScreenIs
<1>4. Fine(renderer, {})
  BY <1>2, <1>3 DEF ScreenIs
<1>5. Fine(q, {}) /\ q.running = renderer.running
  BY <1>1, <1>4, FirstPhaseFine, Zenon
<1>6. ScreenIs("planning", sub, renderer')
  BY <1>2, <1>3, <1>5, ScreenMoves
<1>. QED
  BY <1>2, <1>6 DEF ScreenInv

LEMMA NextPhaseKeeps ==
    ASSUME ScreenInv, NEW label, NEW s2 \in {"fallback", "running", "synthesis"},
           session \in {"planning", "fallback", "running"}, LiveOf(sub) # {} => s2 = "running",
           session' = s2, sub' = sub,
           Screen!Publish(Screen!StartPhase(Screen!EndPhase(renderer), label))
    PROVE  ScreenInv'
<1>1. PICK q : q = Screen!StartPhase(Screen!EndPhase(renderer), label)
  OBVIOUS
<1>2. renderer' \in {q, renderer}
  BY <1>1, Zenon DEF Screen!Publish
<1>3. ScreenIs(session, sub, renderer) /\ session # "closed"
  BY DEF ScreenInv
<1>4. Fine(renderer, LiveOf(sub))
  BY <1>3 DEF ScreenIs
<1>5. Still(q) /\ q.running = renderer.running
  BY <1>1, <1>4, NextPhaseStill, Zenon
<1>6. ScreenIs(s2, sub, renderer')
  BY <1>2, <1>3, <1>5, StillMoves
<1>. QED
  BY <1>6 DEF ScreenInv

LEMMA QuietIs == ASSUME Screen!Quiet PROVE LiveOf(sub) = {}
  BY DEF Screen!Quiet, LiveOf

LEMMA LiveRuns == ASSUME ScreenInv, session # "running" PROVE LiveOf(sub) = {}
  BY DEF ScreenInv, ScreenIs

LEMMA PhasesKeep ==
    ASSUME ScreenInv, Screen!PlanFallback \/ Screen!PlanProposed \/ Screen!SynthesisStarted
    PROVE  ScreenInv'
<1>1. CASE Screen!PlanFallback
  <2>1. /\ session = "planning" /\ session' = "fallback" /\ sub' = sub
        /\ Screen!Publish(Screen!StartPhase(Screen!EndPhase(renderer), "Running"))
    BY <1>1, Zenon DEF Screen!PlanFallback
  <2>2. LiveOf(sub) = {}
    BY <2>1, LiveRuns
  <2>. QED
    BY <2>1, <2>2, NextPhaseKeeps
<1>2. CASE Screen!PlanProposed
  <2>1. /\ session \in {"planning", "fallback"} /\ session' = "running" /\ sub' = sub
        /\ Screen!Publish(Screen!StartPhase(Screen!EndPhase(renderer), "Running"))
    BY <1>2, Zenon DEF Screen!PlanProposed
  <2>. QED
    BY <2>1, NextPhaseKeeps
<1>3. CASE Screen!SynthesisStarted
  <2>1. /\ session = "running" /\ Screen!Quiet /\ session' = "synthesis" /\ sub' = sub
        /\ Screen!Publish(Screen!StartPhase(Screen!EndPhase(renderer), "Synthesizing"))
    BY <1>3, Zenon DEF Screen!SynthesisStarted
  <2>2. LiveOf(sub) = {}
    BY <2>1, QuietIs
  <2>. QED
    BY <2>1, <2>2, NextPhaseKeeps
<1>. QED
  BY <1>1, <1>2, <1>3

LEMMA AsideKeeps == ASSUME ScreenInv, Screen!Aside PROVE ScreenInv'
<1>1. PICK d : d = Screen!Dot(renderer)
  OBVIOUS
<1>2. PICK i : i = Screen!Interject(renderer)
  OBVIOUS
<1>3. /\ session \notin {"none", "over", "closed"} /\ session' = session /\ sub' = sub
      /\ renderer' \in {i, renderer} \/ renderer' \in {d, renderer}
  BY <1>1, <1>2, Zenon DEF Screen!Aside, Screen!Publish, Screen!Ongoing
<1>4. ScreenIs(session, sub, renderer) /\ session # "closed"
  BY <1>3 DEF ScreenInv
<1>5. Fine(renderer, LiveOf(sub))
  BY <1>4 DEF ScreenIs
<1>6. Still(d) /\ Keeps(renderer, d) /\ Still(i) /\ Keeps(renderer, i)
  BY <1>1, <1>2, <1>5, DotStill, InterjectStill
<1>7. session \in {"planning", "fallback", "running", "synthesis", "joined", "over"}
      /\ (LiveOf(sub) # {} => session = "running")
  BY <1>3, <1>4 DEF ScreenIs
<1>8. ScreenIs(session, sub, renderer')
  BY <1>3, <1>4, <1>6, <1>7, StillMoves DEF Keeps
<1>. QED
  BY <1>3, <1>8 DEF ScreenInv

LEMMA CompletedKeeps == ASSUME ScreenInv, Screen!SynthesisCompleted PROVE ScreenInv'
<1>1. PICK q : q = Screen!EndPhase(renderer)
  OBVIOUS
<1>2. /\ session \in {"running", "synthesis"} /\ session' = "joined" /\ sub' = sub
      /\ renderer' \in {q, renderer} /\ Screen!Quiet
  BY <1>1, Zenon DEF Screen!SynthesisCompleted, Screen!Publish
<1>3. ScreenIs(session, sub, renderer) /\ session # "closed" /\ LiveOf(sub) = {}
  BY <1>2, QuietIs DEF ScreenInv
<1>4. Fine(renderer, LiveOf(sub))
  BY <1>3 DEF ScreenIs
<1>5. Still(q) /\ q.running = renderer.running
  BY <1>1, <1>4, EndPhaseStill
<1>6. ScreenIs("joined", sub, renderer')
  BY <1>2, <1>3, <1>5, StillMoves
<1>. QED
  BY <1>2, <1>6 DEF ScreenInv

LEMMA RunEndsKeeps == ASSUME ScreenInv, Screen!RunEnds PROVE ScreenInv'
<1>1. PICK q : q = Screen!Announce(renderer)
  OBVIOUS
<1>2. PICK z : z = Screen!Announce(Screen!EndPhase(renderer))
  OBVIOUS
<1>3. /\ session' = "over" /\ sub' = sub
      /\ \/ session = "joined" /\ renderer' \in {q, renderer}
         \/ /\ session \notin {"none", "over", "closed"} /\ Screen!Quiet
            /\ renderer' \in {z, renderer}
  BY <1>1, <1>2, Zenon DEF Screen!RunEnds, Screen!Publish, Screen!Ongoing
<1>4. ScreenIs(session, sub, renderer) /\ session # "closed" /\ LiveOf(sub) = {}
  BY <1>3, QuietIs, LiveRuns DEF ScreenInv
<1>5. Fine(renderer, {})
  BY <1>4 DEF ScreenIs
<1>6. Fine(q, {}) /\ q.running = renderer.running
  BY <1>1, <1>5, AnnounceFine DEF Keeps
<1>7. Fine(z, {}) /\ z.running = renderer.running
  BY <1>2, <1>5, LastLineFine, Zenon
<1>8. ScreenIs("over", sub, renderer')
  <2>1. CASE renderer' \in {q, renderer}
    BY <1>4, <1>6, <2>1, ScreenMoves
  <2>2. CASE renderer' \in {z, renderer}
    BY <1>4, <1>7, <2>2, ScreenMoves
  <2>. QED
    BY <1>3, <2>1, <2>2
<1>. QED
  BY <1>3, <1>8 DEF ScreenInv

LEMMA FinishKeeps == ASSUME ScreenInv, Screen!Finish PROVE ScreenInv'
<1>1. PICK q : q = IF renderer.phase = "" THEN renderer
                   ELSE [Screen!Newline(renderer) EXCEPT !.phase = ""]
  OBVIOUS
<1>2. session = "over" /\ session' = "closed" /\ sub' = sub /\ renderer' = q
  BY <1>1, Zenon DEF Screen!Finish
<1>3. ScreenIs(session, sub, renderer) /\ LiveOf(sub) = {}
  BY <1>2, LiveRuns DEF ScreenInv
<1>4. Shown(q) /\ q.running = renderer.running
  <2>1. Shown(renderer)
    BY <1>3 DEF ScreenIs
  <2>. QED
    BY <1>1, <2>1, FinishedShown, Zenon
<1>5. ScreenIs("closed", sub, q)
  BY <1>3, <1>4 DEF ScreenIs
<1>. QED
  BY <1>2, <1>5 DEF ScreenInv

(* A subtask starts, publishes and ends.                                   *)
LEMMA SubtaskCases ==
    ASSUME NEW t \in Subtasks, Screen!Subtask(t)
    PROVE  /\ session = "running" /\ session' = session
           /\ \/ /\ sub[t] = "idle" /\ sub' = [sub EXCEPT ![t] = "running"]
                 /\ renderer' \in {Screen!Started(renderer, t), renderer}
              \/ /\ sub[t] \in {"idle", "running"} /\ sub' = [sub EXCEPT ![t] = "done"]
                 /\ renderer' \in {Screen!Over(renderer, t), renderer}
              \/ /\ sub[t] = "running" /\ sub' = sub
                 /\ \/ \E text \in Texts : renderer' \in {Screen!Prose(renderer, t, text), renderer}
                    \/ renderer' \in {Screen!ToolCall(renderer), renderer}
                    \/ renderer' \in {Screen!Dot(renderer), renderer}
                    \/ \E how : renderer' \in {Screen!Result(renderer, t, how), renderer}
  BY Zenon DEF Screen!Subtask, Screen!Publish

LEMMA StartKeeps ==
    ASSUME ScreenInv, NEW t \in Subtasks, session = "running", session' = session,
           sub[t] = "idle", sub' = [sub EXCEPT ![t] = "running"],
           renderer' \in {Screen!Started(renderer, t), renderer}
    PROVE  ScreenInv'
<1>1. PICK next : next = sub'
  OBVIOUS
<1>2. ScreenIs(session, sub, renderer) /\ Fine(renderer, LiveOf(sub))
  BY DEF ScreenInv, ScreenIs
<1>3. sub \in [Subtasks -> {"idle", "running", "done"}] /\ renderer.running \subseteq Begun(sub)
  BY <1>2 DEF ScreenIs
<1>4. next \in [Subtasks -> {"idle", "running", "done"}]
  BY <1>1, <1>3
<1>5. LiveOf(next) = LiveOf(sub) \union {t} /\ Begun(next) = Begun(sub) \union {t}
      /\ t \notin Begun(sub)
  BY <1>1, <1>3 DEF LiveOf, Begun
<1>6. CASE renderer' = renderer
  <2>1. Fine(renderer, LiveOf(next))
    BY <1>2, <1>3, <1>5, FineLess
  <2>2. renderer.running \subseteq Begun(next)
    BY <1>3, <1>5
  <2>3. ScreenIs(session, next, renderer)
    BY <1>4, <2>1, <2>2 DEF ScreenIs, Fine
  <2>. QED
    BY <1>1, <1>6, <2>3 DEF ScreenInv
<1>7. CASE renderer' = Screen!Started(renderer, t)
  <2>1. PICK q : q = Screen!Started(renderer, t)
    OBVIOUS
  <2>2. Still(q) /\ q.running = renderer.running \union {t}
    BY <1>2, <2>1, StartedStill
  <2>3. Fine(q, LiveOf(next))
    BY <2>2, StillIsFine
  <2>4. q.running \subseteq Begun(next)
    BY <1>3, <1>5, <2>2
  <2>5. ScreenIs(session, next, q)
    BY <1>4, <2>3, <2>4 DEF ScreenIs, Fine
  <2>. QED
    BY <1>1, <1>7, <2>1, <2>5 DEF ScreenInv
<1>. QED
  BY <1>6, <1>7

LEMMA OverKeeps ==
    ASSUME ScreenInv, NEW t \in Subtasks, session = "running", session' = session,
           sub[t] \in {"idle", "running"}, sub' = [sub EXCEPT ![t] = "done"],
           renderer' \in {Screen!Over(renderer, t), renderer}
    PROVE  ScreenInv'
<1>1. PICK next : next = sub'
  OBVIOUS
<1>2. ScreenIs(session, sub, renderer) /\ Fine(renderer, LiveOf(sub))
  BY DEF ScreenInv, ScreenIs
<1>3. sub \in [Subtasks -> {"idle", "running", "done"}] /\ renderer.running \subseteq Begun(sub)
  BY <1>2 DEF ScreenIs
<1>4. next \in [Subtasks -> {"idle", "running", "done"}]
  BY <1>1, <1>3
<1>5. LiveOf(next) \subseteq LiveOf(sub) /\ Begun(sub) \subseteq Begun(next)
  BY <1>1, <1>3 DEF LiveOf, Begun
<1>6. CASE renderer' = renderer
  <2>1. Fine(renderer, LiveOf(next))
    BY <1>2, <1>5, FineLess
  <2>2. renderer.running \subseteq Begun(next)
    BY <1>3, <1>5
  <2>3. ScreenIs(session, next, renderer)
    BY <1>4, <2>1, <2>2 DEF ScreenIs, Fine
  <2>. QED
    BY <1>1, <1>6, <2>3 DEF ScreenInv
<1>7. CASE renderer' = Screen!Over(renderer, t)
  <2>1. PICK q : q = Screen!Over(renderer, t)
    OBVIOUS
  <2>2. Still(q) /\ q.running = renderer.running \ {t}
    BY <1>2, <2>1, OverStill
  <2>3. Fine(q, LiveOf(next))
    BY <2>2, StillIsFine
  <2>4. q.running \subseteq Begun(next)
    BY <1>3, <1>5, <2>2
  <2>5. ScreenIs(session, next, q)
    BY <1>4, <2>3, <2>4 DEF ScreenIs, Fine
  <2>. QED
    BY <1>1, <1>7, <2>1, <2>5 DEF ScreenInv
<1>. QED
  BY <1>6, <1>7

LEMMA TalkKeeps ==
    ASSUME ScreenInv, session = "running", session' = session, sub' = sub,
           NEW q, Fine(q, LiveOf(sub)), q.running = renderer.running, renderer' \in {q, renderer}
    PROVE  ScreenInv'
<1>1. ScreenIs(session, sub, renderer)
  BY DEF ScreenInv
<1>2. ScreenIs("running", sub, renderer')
  BY <1>1, ScreenMoves
<1>. QED
  BY <1>2 DEF ScreenInv

LEMMA SubtaskKeeps == ASSUME ScreenInv, NEW t \in Subtasks, Screen!Subtask(t) PROVE ScreenInv'
<1>1. session = "running" /\ session' = session
  BY SubtaskCases
<1>2. CASE /\ sub[t] = "idle" /\ sub' = [sub EXCEPT ![t] = "running"]
           /\ renderer' \in {Screen!Started(renderer, t), renderer}
  BY <1>1, <1>2, StartKeeps
<1>3. CASE /\ sub[t] \in {"idle", "running"} /\ sub' = [sub EXCEPT ![t] = "done"]
           /\ renderer' \in {Screen!Over(renderer, t), renderer}
  BY <1>1, <1>3, OverKeeps
<1>4. CASE /\ sub[t] = "running" /\ sub' = sub
           /\ \/ \E text \in Texts : renderer' \in {Screen!Prose(renderer, t, text), renderer}
              \/ renderer' \in {Screen!ToolCall(renderer), renderer}
              \/ renderer' \in {Screen!Dot(renderer), renderer}
              \/ \E how : renderer' \in {Screen!Result(renderer, t, how), renderer}
  <2>1. Fine(renderer, LiveOf(sub)) /\ t \in LiveOf(sub)
    BY <1>1, <1>4 DEF ScreenInv, ScreenIs, LiveOf
  <2>2. ASSUME NEW text \in Texts, renderer' \in {Screen!Prose(renderer, t, text), renderer}
        PROVE  ScreenInv'
    <3>1. PICK q : q = Screen!Prose(renderer, t, text)
      OBVIOUS
    <3>2. Fine(q, LiveOf(sub)) /\ q.running = renderer.running
      BY <2>1, <3>1, ProseFine
    <3>. QED
      BY <1>1, <1>4, <2>2, <3>1, <3>2, TalkKeeps
  <2>3. ASSUME renderer' \in {Screen!ToolCall(renderer), renderer} PROVE ScreenInv'
    <3>1. PICK q : q = Screen!ToolCall(renderer)
      OBVIOUS
    <3>2. Still(q) /\ Keeps(renderer, q)
      BY <2>1, <3>1, ToolCallStill DEF Fine
    <3>3. Fine(q, LiveOf(sub)) /\ q.running = renderer.running
      BY <3>2, StillIsFine DEF Keeps
    <3>. QED
      BY <1>1, <1>4, <2>3, <3>1, <3>3, TalkKeeps
  <2>4. ASSUME renderer' \in {Screen!Dot(renderer), renderer} PROVE ScreenInv'
    <3>1. PICK q : q = Screen!Dot(renderer)
      OBVIOUS
    <3>2. Still(q) /\ Keeps(renderer, q)
      BY <2>1, <3>1, DotStill
    <3>3. Fine(q, LiveOf(sub)) /\ q.running = renderer.running
      BY <3>2, StillIsFine DEF Keeps
    <3>. QED
      BY <1>1, <1>4, <2>4, <3>1, <3>3, TalkKeeps
  <2>5. ASSUME NEW how, renderer' \in {Screen!Result(renderer, t, how), renderer}
        PROVE  ScreenInv'
    <3>1. PICK q : q = Screen!Result(renderer, t, how)
      OBVIOUS
    <3>2. Fine(q, LiveOf(sub)) /\ q.running = renderer.running
      BY <2>1, <3>1, ResultFine
    <3>. QED
      BY <1>1, <1>4, <2>5, <3>1, <3>2, TalkKeeps
  <2>. QED
    BY <1>4, <2>2, <2>3, <2>4, <2>5
<1>. QED
  BY <1>2, <1>3, <1>4, SubtaskCases, Zenon

LEMMA ScreenStepKeeps ==
    ASSUME ScreenInv, [Screen!Next]_(Screen!vars) PROVE ScreenInv'
<1>1. CASE UNCHANGED Screen!vars
  <2>1. session' = session /\ sub' = sub /\ renderer' = renderer
    BY <1>1 DEF Screen!vars
  <2>. QED
    BY <2>1 DEF ScreenInv
<1>2. ASSUME NEW t \in Subtasks, Screen!Subtask(t) PROVE ScreenInv'
  BY <1>2, SubtaskKeeps
<1>. QED
  BY <1>1, <1>2, GoalReceivedKeeps, PhasesKeep, AsideKeeps, CompletedKeeps, RunEndsKeeps,
     FinishKeeps, Zenon DEF Screen!Next

(* Whatever events the bus loses, the prose on a gutter line is that of    *)
(* one subtask, nothing else is written on that line, no prose is written  *)
(* off it, and it stays clear of the last column (Renderer.handle and      *)
(* streamTextLocked of internal/cli/progress.go).                          *)
THEOREM ProviderOneVoice == Screen!Spec => []OneVoice
<1>1. Screen!Init => ScreenInv
  BY ScreenInitInv
<1>2. ScreenInv /\ [Screen!Next]_(Screen!vars) => ScreenInv'
  BY ScreenStepKeeps
<1>3. ScreenInv => OneVoice
  BY DEF ScreenInv, ScreenIs, Shown, OneVoice, Screen!OneVoice
<1>. QED
  BY <1>1, <1>2, <1>3, PTL DEF Screen!Spec
=============================================================================
