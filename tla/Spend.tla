-------------------------------- MODULE Spend --------------------------------
(***************************************************************************)
(* The user-level spend caps of internal/limits, in the places a provider  *)
(* is called from.  A process reads limits.yaml when it starts: one that   *)
(* finds it cut short, by a typo or because a command is writing it just   *)
(* then, has a guard without caps (loadUsageGuard).  Otherwise its guard   *)
(* sums the usage ledger before a call (BeforeCall) and appends a line     *)
(* after it (AfterCall).  The ledger is one file for every process of the  *)
(* user, there is no lock across the two steps, and a guard that cannot    *)
(* read it lets the call through.  The calls of a run also share its       *)
(* Budget (callProvider of engine/supervisor.go), a vision call has the    *)
(* guard alone (describeImage of cli/shell_tools.go), and the calls of a   *)
(* resumed turn and of the improve loop's gathering and retrospective      *)
(* reach the provider without a guard.                                     *)
(***************************************************************************)
EXTENDS Budget, FiniteSets

CONSTANTS RunCalls, VisionCalls, BareCalls,  \* the calls made, by path
          DailyTokens,     \* the provider's caps, 0 is none
          MonthlyTokens,
          Usages,          \* what a call may use: [tok, usd]
          MaxUse,          \* tokens of the largest of them
          MaxRetries,      \* transport retries of one call
          LastDay,         \* bound: the days that pass
          MonthOf(_)       \* the calendar month of a day

(* A month that is over does not come again.                               *)
ASSUME SpendAssumption ==
    /\ IsFiniteSet(RunCalls \cup VisionCalls)
    /\ DailyTokens \in Nat /\ MonthlyTokens \in Nat
    /\ MaxUse \in Nat
    /\ Usages \subseteq [tok : 0..MaxUse, usd : Nat]
    /\ MaxRetries \in Nat /\ LastDay \in Nat
    /\ \A d, e \in 0..LastDay : d <= e => MonthOf(d) \in Nat /\ MonthOf(d) <= MonthOf(e)

Calls == RunCalls \cup VisionCalls \cup BareCalls
ProcOf(c) == IF c \in RunCalls THEN "run" ELSE IF c \in VisionCalls THEN "vision" ELSE "bare"
Procs == {ProcOf(c) : c \in Calls}
Days == 0..LastDay
NoUse == [tok |-> 0, usd |-> 0]

(* The day and the month a cap is about, and all of them.                  *)
Windows(d) == {<<"day", d>>, <<"month", MonthOf(d)>>}
AllWindows == UNION {Windows(d) : d \in Days}
CapOf(w) == IF w[1] = "day" THEN DailyTokens ELSE MonthlyTokens

VARIABLES caps,        \* per process: what its guard enforces
          pc,          \* per call: where it is
          used,        \* per call: the usage the provider returned
          attempt,     \* per call: transport retries so far
          unread,      \* the calls let through as the ledger could not be read (history)
          today,
          booked,      \* per window: the tokens of the ledger's readable lines
          torn,        \* the ledger's last line is cut short
          spent        \* per window: the tokens of the calls that the caps admitted on a
                       \* ledger they read, but for those whose line was lost (history)

ledger == <<today, booked, torn, spent>>
vars == <<budgetVars, caps, pc, used, attempt, unread, ledger>>

SpendTypeOK ==
    /\ BudgetTypeOK
    /\ caps \in [Procs -> {"set", "none", "dead"}]
    /\ pc \in [Calls -> {"idle", "checked", "calling", "paid", "charging", "deciding", "cut", "done"}]
    /\ used \in [Calls -> Usages \cup {NoUse}]
    /\ attempt \in [Calls -> 0..MaxRetries]
    /\ unread \in SUBSET Calls
    /\ today \in Days
    /\ booked \in [AllWindows -> Nat]
    /\ torn \in BOOLEAN
    /\ spent \in [AllWindows -> Int]

Init ==
    /\ BudgetInit
    /\ caps \in [Procs -> {"set", "none"}]
    /\ pc = [c \in Calls |-> "idle"]
    /\ used = [c \in Calls |-> NoUse]
    /\ attempt = [c \in Calls |-> 0]
    /\ unread = {}
    /\ today = 0
    /\ booked = [w \in AllWindows |-> 0]
    /\ torn = FALSE
    /\ spent = [w \in AllWindows |-> 0]

-----------------------------------------------------------------------------
(* The two files.                                                          *)

(* SpendSince for the day and for the month; a cap is reached at its value. *)
Exceeded == \E w \in Windows(today) : Reached(booked[w], CapOf(w))

Today(f, amount) ==
    [w \in AllWindows |-> IF w \in Windows(today) THEN f[w] + amount ELSE f[w]]

Capped(c) == c \notin BareCalls /\ caps[ProcOf(c)] = "set"

\* broken: reads the spend once, before the first attempt
Admits_FirstAttempt(c) == Capped(c) /\ attempt[c] = 0 => ~Exceeded

(* BeforeCall: a guard without caps admits everything.                     *)
Admits(c) == Capped(c) => ~Exceeded

Counted(c) == Capped(c) /\ c \notin unread

(* Record appends one line.  A line that follows a torn one is read as     *)
(* part of it; a write may fail, or be cut short.                          *)
Losing(c, amount) ==
    spent' = IF Counted(c) THEN Today(spent, -amount) ELSE spent

Record(c) ==
    \/ ~torn /\ booked' = Today(booked, used[c].tok) /\ UNCHANGED <<torn, spent>>
    \/ torn /\ torn' = FALSE /\ Losing(c, used[c].tok) /\ UNCHANGED booked
    \/ torn' \in {torn, TRUE} /\ Losing(c, used[c].tok) /\ UNCHANGED booked

Midnight ==
    /\ today < LastDay
    /\ today' = today + 1
    /\ UNCHANGED <<budgetVars, caps, pc, used, attempt, unread, booked, torn, spent>>

-----------------------------------------------------------------------------
(* One call.                                                               *)
Go(c, stage) == pc' = [pc EXCEPT ![c] = stage]

Leave(c) ==
    /\ Go(c, "done")
    /\ used' = [used EXCEPT ![c] = NoUse]
    /\ attempt' = [attempt EXCEPT ![c] = 0]
    /\ unread' = unread \ {c}

AfterRecord(c) == IF c \in RunCalls THEN "charging" ELSE "deciding"

(* CheckPreCall, once per call; only a run has a budget.                   *)
Enter(c) ==
    /\ pc[c] = "idle"
    /\ caps[ProcOf(c)] \in {"set", "none"}
    /\ c \in RunCalls => ~Refuses
    /\ Go(c, "checked")
    /\ UNCHANGED <<budgetVars, caps, used, attempt, unread, ledger>>

(* BeforeCall, before each attempt: a refusal is the call's error, and a   *)
(* ledger that cannot be read (an I/O error, a line too long for the       *)
(* scanner) refuses nothing.                                               *)
BeforeCall(c) ==
    /\ pc[c] = "checked"
    /\ \/ Admits(c) /\ Go(c, "calling") /\ UNCHANGED <<used, attempt, unread>>
       \/ ~Admits(c) /\ Leave(c)
       \/ /\ Capped(c)
          /\ Go(c, "calling")
          /\ unread' = unread \union {c}
          /\ UNCHANGED <<used, attempt>>
    /\ UNCHANGED <<budgetVars, caps, ledger>>

(* RunHeadless returns what it used, with its answer or with an error; one *)
(* that used nothing has nothing to record, and is charged all the same.   *)
RunHeadless(c) ==
    /\ pc[c] = "calling"
    /\ \E u \in Usages \cup {NoUse} :
        /\ used' = [used EXCEPT ![c] = u]
        /\ Go(c, IF u # NoUse THEN "paid" ELSE AfterRecord(c))
        /\ Losing(c, -u.tok)
    /\ UNCHANGED <<budgetVars, caps, attempt, unread, today, booked, torn>>

(* AfterCall, of the paths that have a guard.                              *)
AfterCall(c) ==
    /\ pc[c] = "paid"
    /\ IF c \in BareCalls THEN UNCHANGED <<booked, torn, spent>> ELSE Record(c)
    /\ Go(c, AfterRecord(c))
    /\ UNCHANGED <<budgetVars, caps, used, attempt, unread, today>>

(* AddOutcome: a cap that trips ends the call whatever it answered.        *)
ChargeBudget(c) ==
    /\ pc[c] = "charging"
    /\ AddOutcome(used[c])
    /\ IF Exceeds(used[c]) THEN Leave(c) ELSE Go(c, "deciding") /\ UNCHANGED <<used, attempt, unread>>
    /\ UNCHANGED <<caps, ledger>>

(* A run's call retries a transport error without asking its budget again. *)
Decide(c) ==
    /\ pc[c] = "deciding"
    /\ \/ Leave(c)
       \/ /\ c \in RunCalls
          /\ attempt[c] < MaxRetries
          /\ attempt' = [attempt EXCEPT ![c] = @ + 1]
          /\ used' = [used EXCEPT ![c] = NoUse]
          /\ unread' = unread \ {c}
          /\ Go(c, "checked")
    /\ UNCHANGED <<budgetVars, caps, ledger>>

(* The process is killed: what it has not appended is not on the ledger,   *)
(* and a line it was appending may be cut.                                 *)
Kill(p) ==
    LET mine == {c \in Calls : ProcOf(c) = p}
        unbooked == {c \in mine : pc[c] = "paid" /\ Counted(c)}
    IN  /\ caps[p] \in {"set", "none"}
        /\ \E c \in mine : pc[c] \notin {"idle", "done"}
        /\ caps' = [caps EXCEPT ![p] = "dead"]
        /\ torn' \in {torn, torn \/ \E c \in mine \ BareCalls : pc[c] = "paid"}
        /\ pc' = [c \in Calls |-> IF c \in unbooked THEN "cut" ELSE IF c \in mine THEN "done" ELSE pc[c]]
        /\ used' = [c \in Calls |-> IF c \in mine \ unbooked THEN NoUse ELSE used[c]]
        /\ attempt' = [c \in Calls |-> IF c \in mine THEN 0 ELSE attempt[c]]
        /\ unread' = unread \ mine
        /\ UNCHANGED <<budgetVars, today, booked, spent>>

(* Nobody will ever write the line of such a call (history).               *)
Forget(c) ==
    /\ pc[c] = "cut"
    /\ spent' = Today(spent, -used[c].tok)
    /\ Leave(c)
    /\ UNCHANGED <<budgetVars, caps, today, booked, torn>>

Next ==
    \/ \E p \in Procs : Kill(p)
    \/ Midnight
    \/ \E c \in Calls :
        \/ Enter(c) \/ BeforeCall(c) \/ RunHeadless(c) \/ AfterCall(c)
        \/ ChargeBudget(c) \/ Decide(c) \/ Forget(c)

Spec == Init /\ [][Next]_vars

-----------------------------------------------------------------------------
(* What the caps are worth when several processes check and record on one  *)
(* ledger without a lock: the calls they admit on a ledger they could read *)
(* spend at most what each of them has in flight beyond the cap, plus what *)
(* the ledger lost, in a day and in a month (BeforeCall and AfterCall      *)
(* around RunHeadless).  What is let through unread is beyond any bound.   *)
Overshoot == MaxUse * Cardinality(RunCalls \cup VisionCalls)

SpendBounded ==
    \A w \in AllWindows : CapOf(w) > 0 => spent[w] < CapOf(w) + Overshoot

(* "The engine consults a Guard before every provider call": none starts   *)
(* while the provider is at a cap, but for a guard without caps or one     *)
(* that cannot read the ledger (limits.go:9 and :290).                     *)
EveryCallGuarded ==
    [][\A c \in Calls :
        pc[c] = "checked" /\ pc'[c] = "calling" =>
            ~Exceeded \/ caps[ProcOf(c)] = "none" \/ c \in unread']_vars
=============================================================================
