-------------------------------- MODULE Budget --------------------------------
(* The arithmetic of the run's hard caps (caps.py): what each method of RunBudget
   makes of the counters it finds.  An operator takes the budget and returns the
   budget the method leaves behind; the method raises CapExceeded exactly when
   the result has a fired cap.  Money is counted in whole price units, so that a
   price is an integer number of units per token. *)
EXTENDS Integers

CONSTANTS
    MaxToolCalls, MaxTotalTokens, MaxWallSeconds, MaxCost,   \* CapConfig's four hard caps
    InputPrice, CachedPrice, CacheWritePrice, OutputPrice,   \* its price table
    LongContext                                              \* the input size above which prices rise

ASSUME CapConfigAssumption ==
    /\ MaxToolCalls \in Nat \ {0} /\ MaxTotalTokens \in Nat \ {0}
    /\ MaxWallSeconds \in Nat \ {0} /\ MaxCost \in Nat

ASSUME PriceAssumption ==
    /\ InputPrice \in Nat /\ CachedPrice \in Nat /\ CacheWritePrice \in Nat
    /\ OutputPrice \in Nat /\ OutputPrice % 2 = 0
    /\ LongContext \in Nat

\* The code's own price table: 0.50 for a token read from the prompt cache, 5.00 for another.
ASSUME CachedAssumption == CachedPrice =< InputPrice

NoCap == "NONE"
CapKind == {"TOOL_CALLS", "TOTAL_TOKENS", "WALL_SECONDS", "COST_USD"}

\* What a provider reports of one response (ModelUsage).
Usage == [input : Nat, cached : Nat, cacheWrite : Nat, output : Nat, providerTotal : Nat]

BudgetState == [toolCalls : Nat, tokens : Nat, cost : Nat, fired : CapKind \cup {NoCap}]

FreshBudget == [toolCalls |-> 0, tokens |-> 0, cost |-> 0, fired |-> NoCap]

\* _validate_usage: the component sum is the provider's own, cached parts are parts of the input.
ValidUsage(u) ==
    /\ u.providerTotal \in {0, u.input + u.output}
    /\ u.cached + u.cacheWrite =< u.input

InputFactor(input)  == IF input > LongContext THEN 2 ELSE 1
OutputRate(input)   == IF input > LongContext THEN 3 * (OutputPrice \div 2) ELSE OutputPrice

\* estimate_usage_cost, of a valid usage.
UsageCost(u) ==
    InputFactor(u.input) * ((u.input - u.cached - u.cacheWrite) * InputPrice
                            + u.cached * CachedPrice
                            + u.cacheWrite * CacheWritePrice)
    + OutputRate(u.input) * u.output

-------------------------------------------------------------------------------

\* _fire_unlocked: the first cap to fire is the one the run reports.
Fire(b, kind) == IF b.fired = NoCap THEN [b EXCEPT !.fired = kind] ELSE b

\* check, and remaining_wall_seconds: the wall deadline, at the instant now.
Checked(b, now) == IF now >= MaxWallSeconds THEN Fire(b, "WALL_SECONDS") ELSE b

\* Mutant: the reservation is counted before it is compared with the cap.
ReservedThenTested(b, count, now) ==
    LET c == Checked(b, now)
        d == [c EXCEPT !.toolCalls = @ + count]
    IN  IF c.fired # NoCap THEN c
        ELSE IF d.toolCalls > MaxToolCalls THEN Fire(d, "TOOL_CALLS") ELSE d

\* reserve_tool_calls: the whole reservation or none of it.
Reserved(b, count, now) ==
    LET c == Checked(b, now)
    IN  IF c.fired # NoCap THEN c
        ELSE IF c.toolCalls + count > MaxToolCalls THEN Fire(c, "TOOL_CALLS")
        ELSE [c EXCEPT !.toolCalls = @ + count]

\* Mutant: the dollar cap is compared only when the token cap fires.
ChargedTokensOnly(b, u) ==
    LET c == [b EXCEPT !.tokens = @ + (u.input + u.output), !.cost = @ + UsageCost(u)]
    IN  IF b.fired = NoCap /\ c.tokens > MaxTotalTokens THEN Fire(c, "TOTAL_TOKENS")
        ELSE IF b.fired = NoCap THEN c ELSE b

\* Mutant: a response is charged to a run whose cap has already fired.
ChargedAfterFired(b, u) ==
    LET c == [b EXCEPT !.tokens = @ + (u.input + u.output), !.cost = @ + UsageCost(u)]
    IN  IF c.tokens > MaxTotalTokens THEN Fire(c, "TOTAL_TOKENS")
        ELSE IF c.cost > MaxCost THEN Fire(c, "COST_USD")
        ELSE c

\* record_model_usage, of a valid usage: charged in full, then compared with the caps.
Charged(b, u) ==
    LET c == [b EXCEPT !.tokens = @ + (u.input + u.output), !.cost = @ + UsageCost(u)]
    IN  IF b.fired # NoCap THEN b
        ELSE IF c.tokens > MaxTotalTokens THEN Fire(c, "TOTAL_TOKENS")
        ELSE IF c.cost > MaxCost THEN Fire(c, "COST_USD")
        ELSE c

\* Mutant: the money already spent is forgotten.
AffordableAfresh(b, est) ==
    LET left == MaxCost - InputFactor(est) * est * InputPrice
    IN  IF left =< 0 THEN 0
        ELSE IF OutputRate(est) = 0 THEN MaxTotalTokens - b.tokens - est
        ELSE left \div OutputRate(est)

\* The response tokens that the money left after an uncached request of est tokens buys.
Affordable(b, est) ==
    LET left == MaxCost - b.cost - InputFactor(est) * est * InputPrice
    IN  IF left =< 0 THEN 0
        ELSE IF OutputRate(est) = 0 THEN MaxTotalTokens - b.tokens - est
        ELSE left \div OutputRate(est)

Least(i, j) == IF i =< j THEN i ELSE j

\* Mutant: the request's own input is not set aside.
AllowanceOfWhole(b, est, preferred) ==
    Least(preferred, Least(MaxTotalTokens - b.tokens, Affordable(b, est)))

\* prepare_model_request's answer when no cap fires.
Allowance(b, est, preferred) ==
    Least(preferred, Least(MaxTotalTokens - b.tokens - est, Affordable(b, est)))

\* Mutant: only the clock is consulted before a request.
PreparedByClock(b, est, preferred, minimum, now) == Checked(b, now)

\* prepare_model_request: tokens, then money, then the phase's minimum response.
Prepared(b, est, preferred, minimum, now) ==
    LET c == Checked(b, now)
        left == MaxTotalTokens - c.tokens - est
    IN  IF c.fired # NoCap THEN c
        ELSE IF left < 1 THEN Fire(c, "TOTAL_TOKENS")
        ELSE IF Affordable(c, est) < 1 THEN Fire(c, "COST_USD")
        ELSE IF Allowance(c, est, preferred) >= minimum THEN c
        ELSE Fire(c, IF left < minimum THEN "TOTAL_TOKENS" ELSE "COST_USD")
===============================================================================
