------------------------------- MODULE Budget -------------------------------
(***************************************************************************)
(* The per-run spend accumulator of internal/budget/budget.go: cumulative  *)
(* tokens and cents, a per-call ceiling, the one-shot 80% warnings and the *)
(* latch that remembers the first cap that tripped.  Every operation runs  *)
(* under Budget.mu, so each one is a single atomic step here.              *)
(***************************************************************************)
EXTENDS Integers

CONSTANTS MaxTokens,         \* cumulative token cap, 0 disables it
          MaxUSDCents,       \* cumulative cents cap, 0 disables it
          PerCallMaxTokens   \* ceiling on one call's tokens, 0 disables it

ASSUME BudgetAssumption ==
    /\ MaxTokens \in Nat
    /\ MaxUSDCents \in Nat
    /\ PerCallMaxTokens \in Nat

VARIABLES tokens,      \* cumulative tokens charged
          usdCents,    \* cumulative cents charged
          tripped,     \* kind of the first cap that was exceeded, or NoTrip
          warned80T,   \* the token warning has been issued
          warned80U    \* the cents warning has been issued

budgetVars == <<tokens, usdCents, tripped, warned80T, warned80U>>

NoTrip == "none"
CapKinds == {"per_call_tokens", "tokens", "usd_cents"}

BudgetTypeOK ==
    /\ tokens \in Nat
    /\ usdCents \in Nat
    /\ tripped \in CapKinds \cup {NoTrip}
    /\ warned80T \in BOOLEAN
    /\ warned80U \in BOOLEAN

BudgetInit ==
    /\ tokens = 0
    /\ usdCents = 0
    /\ tripped = NoTrip
    /\ warned80T = FALSE
    /\ warned80U = FALSE

-----------------------------------------------------------------------------
(* A cap of zero is no cap.  The cumulative caps trip when the total       *)
(* reaches them, the per-call cap only when the call goes past it.         *)
Reached(total, cap) == cap > 0 /\ total >= cap
Passed(used, cap) == cap > 0 /\ used > cap
InWarnBand(total, cap) == cap > 0 /\ total * 10 >= cap * 8 /\ total < cap

(* CheckPreCall returns an error: no further provider call may start.      *)
Refuses ==
    \/ tripped # NoTrip
    \/ Reached(tokens, MaxTokens)
    \/ Reached(usdCents, MaxUSDCents)

(* The caps a call with usage u exceeds, and the one AddOutcome reports.   *)
ExceededBy(u) ==
    {k \in CapKinds :
        \/ k = "per_call_tokens" /\ Passed(u.tok, PerCallMaxTokens)
        \/ k = "tokens" /\ Reached(tokens + u.tok, MaxTokens)
        \/ k = "usd_cents" /\ Reached(usdCents + u.usd, MaxUSDCents)}

Exceeds(u) == ExceededBy(u) # {}

FirstExceeded(u) ==
    IF "per_call_tokens" \in ExceededBy(u) THEN "per_call_tokens"
    ELSE IF "tokens" \in ExceededBy(u) THEN "tokens" ELSE "usd_cents"

WarnsTokens(u) == ~warned80T /\ InWarnBand(tokens + u.tok, MaxTokens)
(* One WarnSignal per call: a token warning leaves no room for a cents one. *)
WarnsUSD(u) ==
    /\ ~WarnsTokens(u)
    /\ ~warned80U
    /\ InWarnBand(usdCents + u.usd, MaxUSDCents)

(* AddOutcome charges what the provider already spent, whatever comes of   *)
(* the call, and latches the first cap that trips.                         *)
AddOutcome(u) ==
    /\ tokens' = tokens + u.tok
    /\ usdCents' = usdCents + u.usd
    /\ tripped' = IF tripped = NoTrip /\ Exceeds(u)
                  THEN FirstExceeded(u) ELSE tripped
    /\ warned80T' = (warned80T \/ WarnsTokens(u))
    /\ warned80U' = (warned80U \/ WarnsUSD(u))

-----------------------------------------------------------------------------
(* Once the running token total is in the 80% band, the warning for tokens *)
(* has been issued (AddOutcome's "one-time-per-dimension WarnSignal").     *)
TokenBandWarned == InWarnBand(tokens, MaxTokens) => warned80T

(* The same for the dollar dimension.                                      *)
USDBandWarned == InWarnBand(usdCents, MaxUSDCents) => warned80U
=============================================================================
