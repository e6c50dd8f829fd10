------------------------------ MODULE BudgetProofs ------------------------------
(* Lemmas on the operators of Budget, for every cap and every price table: each result is
   a budget again, a fired cap stays, and what is granted fits under its cap. *)
EXTENDS Budget, TLAPS

\* The price of a valid usage is a natural number (estimate_usage_cost).
LEMMA UsageCostNat ==
    ASSUME NEW u \in Usage, ValidUsage(u)
    PROVE  UsageCost(u) \in Nat
<1> DEFINE plain == u.input - u.cached - u.cacheWrite
<1>1. plain \in Nat /\ u.cached \in Nat /\ u.cacheWrite \in Nat /\ u.output \in Nat
  BY DEF Usage, ValidUsage
<1>2. \A m, n \in Nat : m * n \in Nat
  OBVIOUS
<1>3. InputFactor(u.input) \in Nat /\ OutputRate(u.input) \in Nat
  BY PriceAssumption DEF InputFactor, OutputRate
<1>4. /\ plain * InputPrice \in Nat
      /\ u.cached * CachedPrice \in Nat
      /\ u.cacheWrite * CacheWritePrice \in Nat
      /\ OutputRate(u.input) * u.output \in Nat
  BY <1>1, <1>2, <1>3, PriceAssumption
<1> DEFINE inner == plain * InputPrice + u.cached * CachedPrice + u.cacheWrite * CacheWritePrice
<1>5. inner \in Nat
  BY <1>4
<1> HIDE DEF inner
<1>6. InputFactor(u.input) * inner \in Nat
  BY <1>2, <1>3, <1>5
<1> QED
  BY <1>4, <1>6 DEF inner, UsageCost

\* The wall test keeps the counters and never unfires a cap (check).
LEMMA CheckedLemma ==
    ASSUME NEW b \in BudgetState, NEW now \in Nat
    PROVE  /\ Checked(b, now) \in BudgetState
           /\ b.fired # NoCap => Checked(b, now) = b
           /\ Checked(b, now).fired = NoCap => Checked(b, now) = b
           /\ Checked(b, now).toolCalls = b.toolCalls
           /\ Checked(b, now).tokens = b.tokens
           /\ Checked(b, now).cost = b.cost
  BY DEF BudgetState, Checked, Fire, CapKind, NoCap

\* A reservation is granted whole and within the cap, or counts nothing (reserve_tool_calls).
LEMMA ReservedLemma ==
    ASSUME NEW b \in BudgetState, NEW count \in Nat, NEW now \in Nat
    PROVE  /\ Reserved(b, count, now) \in BudgetState
           /\ b.fired # NoCap => Reserved(b, count, now) = b
           /\ Reserved(b, count, now).fired = NoCap =>
                /\ b.fired = NoCap
                /\ Reserved(b, count, now).toolCalls = b.toolCalls + count
                /\ b.toolCalls + count =< MaxToolCalls
           /\ Reserved(b, count, now).fired # NoCap =>
                Reserved(b, count, now).toolCalls = b.toolCalls
           /\ Reserved(b, count, now).tokens = b.tokens
           /\ Reserved(b, count, now).cost = b.cost
<1> DEFINE c == Checked(b, now)
<1>1. /\ c \in BudgetState
      /\ b.fired # NoCap => c = b
      /\ c.fired = NoCap => c = b
      /\ c.toolCalls = b.toolCalls /\ c.tokens = b.tokens /\ c.cost = b.cost
  BY CheckedLemma
<1> HIDE DEF c
<1>2. Reserved(b, count, now) =
        IF c.fired # NoCap THEN c
        ELSE IF c.toolCalls + count > MaxToolCalls THEN Fire(c, "TOOL_CALLS")
        ELSE [c EXCEPT !.toolCalls = @ + count]
  BY DEF Reserved, c
<1> QED
  BY <1>1, <1>2, CapConfigAssumption DEF BudgetState, Fire, CapKind, NoCap

\* A charge counts the whole usage, and leaves the run open only within its caps
\* (record_model_usage).
LEMMA ChargedLemma ==
    ASSUME NEW b \in BudgetState, NEW u \in Usage, ValidUsage(u)
    PROVE  /\ Charged(b, u) \in BudgetState
           /\ b.fired # NoCap => Charged(b, u) = b
           /\ b.fired = NoCap => Charged(b, u).tokens = b.tokens + u.input + u.output
           /\ Charged(b, u).toolCalls = b.toolCalls
           /\ Charged(b, u).fired = NoCap =>
                /\ Charged(b, u).tokens =< MaxTotalTokens
                /\ Charged(b, u).cost =< MaxCost
<1>1. UsageCost(u) \in Nat /\ u.input \in Nat /\ u.output \in Nat
  BY UsageCostNat DEF Usage
<1> DEFINE k == UsageCost(u)
           n == u.input + u.output
           c == [b EXCEPT !.tokens = @ + (u.input + u.output), !.cost = @ + UsageCost(u)]
           r == Charged(b, u)
           d == [b EXCEPT !.tokens = b.tokens + n]
<1>1a. c = [d EXCEPT !.cost = b.cost + k]
  OBVIOUS
<1>1b. n \in Nat /\ k \in Nat
  BY <1>1
<1> HIDE DEF n, k, c
<1>1c. /\ d \in BudgetState
       /\ d.fired = b.fired /\ d.toolCalls = b.toolCalls /\ d.tokens = b.tokens + n
  BY <1>1b DEF BudgetState
<1>1d. b.cost + k \in Nat
  BY <1>1b DEF BudgetState
<1> HIDE DEF d
<1>2. /\ c \in BudgetState
      /\ c.fired = b.fired /\ c.toolCalls = b.toolCalls
      /\ c.tokens = b.tokens + n
  BY <1>1a, <1>1c, <1>1d DEF BudgetState
<1>3. r = IF b.fired # NoCap THEN b
          ELSE IF c.tokens > MaxTotalTokens THEN Fire(c, "TOTAL_TOKENS")
          ELSE IF c.cost > MaxCost THEN Fire(c, "COST_USD")
          ELSE c
  BY DEF Charged, c, r
<1> HIDE DEF r
<1>4. r \in BudgetState /\ r.toolCalls = b.toolCalls
  BY <1>2, <1>3 DEF BudgetState, Fire, CapKind, NoCap
<1>5. b.fired = NoCap => r.tokens = b.tokens + u.input + u.output
  BY <1>1, <1>2, <1>3 DEF n, BudgetState, Fire, CapKind, NoCap
<1>6. r.fired = NoCap => r.tokens =< MaxTotalTokens /\ r.cost =< MaxCost
  BY <1>2, <1>3, CapConfigAssumption DEF BudgetState, Fire, CapKind, NoCap
<1>7. b.fired # NoCap => r = b
  BY <1>3
<1> QED
  BY <1>4, <1>5, <1>6, <1>7 DEF r

\* A preflight changes no counter, and admits only a request whose estimate and
\* allowance fit in the tokens left (prepare_model_request).
LEMMA PreparedLemma ==
    ASSUME NEW b \in BudgetState, NEW est \in Nat, NEW preferred \in Nat, NEW minimum \in Nat,
           NEW now \in Nat
    PROVE  /\ Prepared(b, est, preferred, minimum, now) \in BudgetState
           /\ b.fired # NoCap => Prepared(b, est, preferred, minimum, now) = b
           /\ Prepared(b, est, preferred, minimum, now).toolCalls = b.toolCalls
           /\ Prepared(b, est, preferred, minimum, now).tokens = b.tokens
           /\ Prepared(b, est, preferred, minimum, now).cost = b.cost
           /\ Prepared(b, est, preferred, minimum, now).fired = NoCap =>
                /\ Prepared(b, est, preferred, minimum, now) = b
                /\ Allowance(b, est, preferred) \in Nat
                /\ b.tokens + est + Allowance(b, est, preferred) =< MaxTotalTokens
<1> DEFINE c == Checked(b, now)
           a == Affordable(c, est)
           left == MaxTotalTokens - c.tokens - est
           p == Prepared(b, est, preferred, minimum, now)
<1>1. /\ c \in BudgetState
      /\ b.fired # NoCap => c = b
      /\ c.fired = NoCap => c = b
      /\ c.toolCalls = b.toolCalls /\ c.tokens = b.tokens /\ c.cost = b.cost
  BY CheckedLemma
<1>2. a \in Int
  <2>1. InputFactor(est) \in Nat /\ OutputRate(est) \in Nat
    BY PriceAssumption DEF InputFactor, OutputRate
  <2>2. \A m, n \in Nat : m * n \in Nat
    OBVIOUS
  <2>3. InputFactor(est) * est * InputPrice \in Nat
    BY <2>1, <2>2, PriceAssumption
  <2> DEFINE money == MaxCost - c.cost - InputFactor(est) * est * InputPrice
  <2>4. money \in Int
    BY <1>1, <2>3, CapConfigAssumption DEF BudgetState
  <2>5. a = IF money =< 0 THEN 0 ELSE IF OutputRate(est) = 0 THEN left ELSE money \div OutputRate(est)
    BY DEF Affordable
  <2>6. left \in Int
    BY <1>1, CapConfigAssumption DEF BudgetState
  <2> HIDE DEF money
  <2> QED
    BY <2>1, <2>4, <2>5, <2>6
<1> DEFINE g == Allowance(c, est, preferred)
<1>3. g = Least(preferred, Least(left, a))
  BY DEF Allowance
<1> HIDE DEF a, g
<1>4. p = IF c.fired # NoCap THEN c
          ELSE IF left < 1 THEN Fire(c, "TOTAL_TOKENS")
          ELSE IF a < 1 THEN Fire(c, "COST_USD")
          ELSE IF g >= minimum THEN c
          ELSE Fire(c, IF left < minimum THEN "TOTAL_TOKENS" ELSE "COST_USD")
  BY DEF Prepared, a, g
<1> HIDE DEF c, p
<1>5. left \in Int
  BY <1>1, CapConfigAssumption DEF BudgetState
<1>6. g \in Int /\ g =< left
  BY <1>2, <1>3, <1>5 DEF Least
<1>7. /\ p \in BudgetState
      /\ b.fired # NoCap => p = b
      /\ p.toolCalls = b.toolCalls /\ p.tokens = b.tokens /\ p.cost = b.cost
  BY <1>1, <1>4 DEF BudgetState, Fire, CapKind, NoCap
<1>8. p.fired = NoCap => p = c /\ c.fired = NoCap /\ g >= minimum
  BY <1>1, <1>4, <1>5, <1>2 DEF BudgetState, Fire, CapKind, NoCap
<1>9. ASSUME p.fired = NoCap
      PROVE  /\ p = b
             /\ g \in Nat
             /\ b.tokens + est + g =< MaxTotalTokens
  BY <1>1, <1>5, <1>6, <1>8, <1>9, CapConfigAssumption DEF BudgetState
<1>10. p.fired = NoCap => g = Allowance(b, est, preferred)
  BY <1>1, <1>8 DEF g
<1> QED
  BY <1>7, <1>9, <1>10 DEF p

-------------------------------------------------------------------------------
\* What an admitted request may cost.

\* The price that the preflight sets aside: an uncached request and all that it allows.
RequestCost(est, allowed) == InputFactor(est) * est * InputPrice + OutputRate(est) * allowed

\* Products of natural numbers grow with their factors.
LEMMA Products ==
    ASSUME NEW k \in Nat, NEW l \in Nat, NEW m \in Nat, NEW n \in Nat, k =< l, m =< n
    PROVE  k * m \in Nat /\ k * m =< l * n
<1> DEFINE i == l - k
           j == n - m
<1>1. i \in Nat /\ j \in Nat /\ l = k + i /\ n = m + j
  OBVIOUS
<1> HIDE DEF i, j
<1>2. \A p, q \in Nat : p * q \in Nat
  OBVIOUS
<1>3. k * m \in Nat /\ k * j \in Nat /\ i * m \in Nat /\ i * j \in Nat
  BY <1>1, <1>2
<1>4. l * n = k * m + k * j + i * m + i * j
  BY <1>1
<1> QED
  BY <1>3, <1>4

\* Longer requests are not cheaper: 1.5 times an even output price is a whole number.
LEMMA RatesGrow ==
    ASSUME NEW i \in Nat, NEW j \in Nat, i =< j
    PROVE  /\ InputFactor(i) \in Nat /\ InputFactor(j) \in Nat
           /\ OutputRate(i) \in Nat /\ OutputRate(j) \in Nat
           /\ InputFactor(i) =< InputFactor(j) /\ OutputRate(i) =< OutputRate(j)
  BY PriceAssumption DEF InputFactor, OutputRate

\* What is set aside is a natural number.
LEMMA RequestCostNat ==
    ASSUME NEW est \in Nat, NEW allowed \in Nat
    PROVE  RequestCost(est, allowed) \in Nat
<1>1. InputFactor(est) \in Nat /\ OutputRate(est) \in Nat
  BY RatesGrow
<1>2. InputFactor(est) * est * InputPrice \in Nat /\ OutputRate(est) * allowed \in Nat
  BY <1>1, Products, PriceAssumption
<1> QED
  BY <1>2 DEF RequestCost

\* A response within its preflight costs no more than was set aside, unless it writes to the
\* prompt cache (caps.py: "ordinary uncached input is still the safe preflight price").
LEMMA UncachedIsWorst ==
    ASSUME NEW u \in Usage, ValidUsage(u), NEW est \in Nat, NEW allowed \in Nat,
           u.input =< est, u.output =< allowed, u.cacheWrite = 0
    PROVE  UsageCost(u) =< RequestCost(est, allowed)
<1> DEFINE plain == u.input - u.cached
           f == InputFactor(u.input)
           g == InputFactor(est)
           inner == plain * InputPrice + u.cached * CachedPrice
<1>1. /\ plain \in Nat /\ u.cached \in Nat /\ u.output \in Nat /\ u.input \in Nat
      /\ plain + u.cached = u.input
  BY DEF Usage, ValidUsage
<1>2. f \in Nat /\ g \in Nat /\ f =< g /\ OutputRate(u.input) \in Nat /\ OutputRate(est) \in Nat
      /\ OutputRate(u.input) =< OutputRate(est)
  BY <1>1, RatesGrow
<1>3. plain * InputPrice \in Nat /\ u.cached * InputPrice \in Nat
      /\ u.cached * CachedPrice \in Nat /\ u.cached * CachedPrice =< u.cached * InputPrice
  BY <1>1, Products, PriceAssumption, CachedAssumption
<1>4. plain * InputPrice + u.cached * InputPrice = u.input * InputPrice
  BY <1>1, PriceAssumption
<1>5. u.input * InputPrice \in Nat /\ u.input * InputPrice =< est * InputPrice
  BY <1>1, Products, PriceAssumption
<1>6. inner \in Nat /\ est * InputPrice \in Nat /\ inner =< est * InputPrice
  <2>1. est * InputPrice \in Nat
    BY Products, PriceAssumption
  <2> QED BY <1>3, <1>4, <1>5, <2>1
<1>7. UsageCost(u) = f * inner + OutputRate(u.input) * u.output
  <2>1. u.cacheWrite * CacheWritePrice = 0
    BY PriceAssumption
  <2>2. u.input - u.cached - u.cacheWrite = plain
    BY <1>1
  <2> DEFINE a == plain * InputPrice
             c == u.cached * CachedPrice
  <2>3. a + c + u.cacheWrite * CacheWritePrice = a + c
    <3> HIDE DEF a, c
    <3>1. a \in Int /\ c \in Int
      BY <1>3 DEF a, c
    <3> QED BY <2>1, <3>1
  <2> QED BY <2>2, <2>3 DEF UsageCost
<1>8. g * (est * InputPrice) = g * est * InputPrice
  BY <1>2, PriceAssumption
<1> HIDE DEF inner, f, g
<1>9. f * inner \in Nat /\ f * inner =< g * (est * InputPrice)
  BY <1>2, <1>6, Products
<1>10. OutputRate(u.input) * u.output \in Nat
       /\ OutputRate(u.input) * u.output =< OutputRate(est) * allowed
  BY <1>1, <1>2, Products
<1>11. g * (est * InputPrice) \in Nat /\ OutputRate(est) * allowed \in Nat
  BY <1>2, <1>6, Products
<1> QED
  BY <1>7, <1>8, <1>9, <1>10, <1>11 DEF RequestCost, g

\* A preflight admits only a request that the money left pays for (prepare_model_request).
LEMMA PreparedPays ==
    ASSUME NEW b \in BudgetState, NEW est \in Nat, NEW preferred \in Nat,
           NEW minimum \in Nat, NEW now \in Nat,
           Prepared(b, est, preferred, minimum, now).fired = NoCap
    PROVE  b.cost + RequestCost(est, Allowance(b, est, preferred)) =< MaxCost
<1> DEFINE a == Affordable(b, est)
           g == Allowance(b, est, preferred)
           r == OutputRate(est)
           input == InputFactor(est) * est * InputPrice
           money == MaxCost - b.cost - input
           left == MaxTotalTokens - b.tokens - est
           p == Prepared(b, est, preferred, minimum, now)
<1>1. p = b /\ b.fired = NoCap /\ g \in Nat
  BY PreparedLemma
<1>2. Checked(b, now) = b
  BY <1>1, CheckedLemma DEF Prepared, Checked, Fire, BudgetState, CapKind, NoCap
<1>3. ~(a < 1)
  BY <1>1, <1>2 DEF Prepared, Fire, BudgetState, CapKind, NoCap
<1>4. a = IF money =< 0 THEN 0 ELSE IF r = 0 THEN left ELSE money \div r
  BY DEF Affordable
<1>5. r \in Nat /\ input \in Nat
  <2>1. InputFactor(est) \in Nat /\ r \in Nat
    BY RatesGrow
  <2> QED BY <2>1, Products, PriceAssumption
<1>6. g = Least(preferred, Least(left, a))
  BY DEF Allowance
<1>7. b.cost \in Nat /\ left \in Int
  BY CapConfigAssumption DEF BudgetState
<1> SUFFICES b.cost + (input + r * g) =< MaxCost
  BY DEF RequestCost
<1> HIDE DEF a, g, r, input, p, left
<1>8. money \in Int
  BY <1>5, <1>7, CapConfigAssumption
<1>9. money > 0
  BY <1>3, <1>4, <1>8
<1>10. r * g \in Nat /\ r * g =< money
  <2>1. CASE r = 0
    BY <1>1, <1>8, <1>9, <2>1
  <2>2. CASE r # 0
    <3> DEFINE q == money \div r
    <3>1. q \in Nat /\ r * q =< money
      <4> HIDE DEF money
      <4> QED BY <1>5, <1>8, <1>9, <2>2
    <3>2. g =< q
      <4>1. a = q
        BY <1>4, <1>9, <2>2, <1>8
      <4> HIDE DEF q
      <4> QED BY <1>6, <1>7, <3>1, <4>1 DEF Least
    <3> HIDE DEF q, money
    <3>3. r * g \in Nat /\ r * g =< r * q /\ r * q \in Nat
      BY <1>1, <1>5, <3>1, <3>2, Products
    <3> QED BY <1>8, <3>1, <3>3
  <2> QED BY <2>1, <2>2
<1> QED
  BY <1>5, <1>7, <1>10, CapConfigAssumption

\* A charge adds the whole price of the usage (record_model_usage).
LEMMA ChargedCost ==
    ASSUME NEW b \in BudgetState, NEW u \in Usage, ValidUsage(u), b.fired = NoCap
    PROVE  Charged(b, u).cost = b.cost + UsageCost(u)
  BY DEF Charged, BudgetState, Fire
===============================================================================
