--------------------------- MODULE RunBudgetProofs ---------------------------
(* For every number of threads, every cap and every price table: the safety of
   RunBudget, and that its locked methods are atomic.  The inductive invariant
   says that the lock excludes, that what a thread inside a method has read is
   still current, and that the request the client has out fits in the tokens and in the
   money left. *)
EXTENDS RunBudget, BudgetProofs, TLAPS

(* At most one thread is inside a method. *)
Exclusive == \A s, t \in holders : s = t

(* A thread inside a method works on the current counters and a timely reading. *)
ReadsCurrent ==
    \A t \in holders :
        /\ seen[t].budget = budget
        /\ asOf =< seen[t].now /\ seen[t].now =< clock

(* While the run is open, the request that is out fits under the token cap. *)
RequestFits ==
    budget.fired = NoCap => budget.tokens + request.est + request.allowed =< MaxTotalTokens

\* And what it may cost fits under the dollar cap.
RequestPaid ==
    budget.fired = NoCap => budget.cost + RequestCost(request.est, request.allowed) =< MaxCost

IInv ==
    /\ TypeOK
    /\ Exclusive
    /\ ReadsCurrent
    /\ asOf =< clock
    /\ GrantsWithinCap
    /\ OpenWithinCaps
    /\ RequestFits
    /\ RequestPaid
    /\ PreflightHoldsTokens
    /\ PreflightHoldsCost

-------------------------------------------------------------------------------
\* What every method that returns does to the invariant.

\* A call's kind tells what it carries.
LEMMA CallKinds ==
    ASSUME NEW c \in Calls \cup {Idle}
    PROVE  /\ c.kind = "reserve" => c \in ReserveCall
           /\ c.kind = "prepare" => c \in PrepareCall
           /\ c.kind = "record" => c \in RecordCall
<1>1. CASE c \in CheckCall
  BY <1>1 DEF CheckCall
<1>2. CASE c \in ReserveCall
  BY <1>2 DEF ReserveCall
<1>3. CASE c \in PrepareCall
  BY <1>3 DEF PrepareCall
<1>4. CASE c \in RecordCall
  BY <1>4 DEF RecordCall
<1>5. CASE c = Idle
  BY <1>5 DEF Idle
<1> QED
  BY <1>1, <1>2, <1>3, <1>4, <1>5 DEF Calls

\* No request costs nothing.
LEMMA NothingOut == RequestCost(NoRequest.est, NoRequest.allowed) = 0
<1>1. InputFactor(0) \in Nat /\ OutputRate(0) \in Nat
  BY RatesGrow
<1>2. InputFactor(0) * 0 * InputPrice = 0 /\ OutputRate(0) * 0 = 0
  BY <1>1, PriceAssumption
<1> QED
  BY <1>2 DEF RequestCost, NoRequest

\* The initial state satisfies the invariant.
LEMMA InitIInv == Init => IInv
<1> SUFFICES ASSUME Init PROVE IInv
  OBVIOUS
<1>1. FreshBudget \in BudgetState /\ FreshBudget.fired = NoCap
  BY DEF FreshBudget, BudgetState, NoCap
<1>2. TypeOK
  BY <1>1 DEF Init, TypeOK, NothingSeen, NoRequest, Preflight, NoUsage, Usage
<1>3. Init => RequestPaid
  BY NothingOut, CapConfigAssumption DEF Init, RequestPaid, FreshBudget
<1> QED
  BY <1>2, <1>3, CapConfigAssumption
  DEF Init, IInv, Exclusive, ReadsCurrent, GrantsWithinCap, OpenWithinCaps, RequestFits,
      PreflightHoldsTokens, PreflightHoldsCost, FreshBudget, NoRequest, NoCap

\* A thread that returns from a method held the lock alone and worked on the current budget.
LEMMA LeaveLemma ==
    ASSUME IInv, NEW t \in Threads, NEW kind, NEW result \in BudgetState, Leave(t, kind, result)
    PROVE  /\ seen[t].budget = budget /\ seen[t].now \in Nat
           /\ asOf =< seen[t].now /\ seen[t].now =< clock
           /\ clock' \in Nat /\ asOf' \in Nat /\ asOf' =< clock'
           /\ budget' \in BudgetState
           /\ holders' = {}
           /\ call' \in [Threads -> Calls \cup {Idle}]
           /\ seen' \in [Threads -> [budget : BudgetState, now : Nat]]
<1>1. holders = {t}
  BY DEF IInv, Exclusive, Leave
<1>2. NothingSeen \in [budget : BudgetState, now : Nat]
  BY DEF NothingSeen, FreshBudget, BudgetState, NoCap
<1> QED
  BY <1>1, <1>2 DEF IInv, TypeOK, ReadsCurrent, Leave

\* Each step keeps the invariant.
LEMMA NextIInv == IInv /\ [Next]_vars => IInv'
<1> SUFFICES ASSUME IInv, [Next]_vars PROVE IInv'
  OBVIOUS
<1> USE DEF IInv
<1>1. CASE Tick
  BY <1>1 DEF Tick, TypeOK, Exclusive, ReadsCurrent, GrantsWithinCap, OpenWithinCaps,
              RequestFits, RequestPaid, PreflightHoldsTokens, PreflightHoldsCost
<1>2. ASSUME NEW t \in Threads, Invoke(t) PROVE IInv'
  <2>1. TypeOK'
    BY <1>2 DEF Invoke, TypeOK
  <2> QED
    BY <1>2, <2>1 DEF Invoke, Exclusive, ReadsCurrent, GrantsWithinCap, OpenWithinCaps,
                      RequestFits, RequestPaid, PreflightHoldsTokens, PreflightHoldsCost
<1>3. ASSUME NEW t \in Threads, Enter(t) PROVE IInv'
  <2>1. TypeOK'
    BY <1>3 DEF Enter, TypeOK
  <2>2. holders' = {t} /\ seen'[t] = [budget |-> budget, now |-> clock]
    BY <1>3 DEF Enter, TypeOK
  <2>3. Exclusive' /\ ReadsCurrent'
    BY <1>3, <2>2 DEF Enter, Exclusive, ReadsCurrent, TypeOK
  <2> QED
    BY <1>3, <2>1, <2>3 DEF Enter, GrantsWithinCap, OpenWithinCaps, RequestFits,
                            RequestPaid, PreflightHoldsTokens, PreflightHoldsCost
<1>4. ASSUME NEW t \in Threads, Check(t) PROVE IInv'
  <2>0. seen[t].budget \in BudgetState /\ seen[t].now \in Nat
    BY DEF TypeOK
  <2> DEFINE r == Checked(seen[t].budget, seen[t].now)
  <2>1. /\ r \in BudgetState
        /\ r.fired = NoCap => r = seen[t].budget
        /\ r.toolCalls = seen[t].budget.toolCalls /\ r.tokens = seen[t].budget.tokens
        /\ r.cost = seen[t].budget.cost
    BY <2>0, CheckedLemma
  <2> HIDE DEF r
  <2>2. Leave(t, "check", r) /\ UNCHANGED <<granted, request, charge>>
    BY <1>4 DEF Check, r
  <2>3. /\ seen[t].budget = budget /\ budget' = r /\ holders' = {}
        /\ TypeOK' /\ (asOf =< clock)'
    <3>1. /\ seen[t].budget = budget /\ holders' = {} /\ budget' \in BudgetState
          /\ clock' \in Nat /\ asOf' \in Nat /\ asOf' =< clock'
          /\ call' \in [Threads -> Calls \cup {Idle}]
          /\ seen' \in [Threads -> [budget : BudgetState, now : Nat]]
      BY <2>1, <2>2, LeaveLemma
    <3> QED
      BY <2>2, <3>1 DEF Leave, TypeOK
  <2>4. GrantsWithinCap' /\ OpenWithinCaps' /\ RequestFits' /\ PreflightHoldsTokens'
    BY <2>1, <2>2, <2>3 DEF GrantsWithinCap, OpenWithinCaps, RequestFits, PreflightHoldsTokens
  <2>5. RequestPaid' /\ PreflightHoldsCost'
    BY <2>1, <2>2, <2>3 DEF RequestPaid, PreflightHoldsCost
  <2> QED
    BY <2>3, <2>4, <2>5 DEF Exclusive, ReadsCurrent
<1>5. ASSUME NEW t \in Threads, Reserve(t) PROVE IInv'
  <2>0. /\ seen[t].budget \in BudgetState /\ seen[t].now \in Nat
        /\ call[t].count \in Nat
    <3>1. call[t] \in Calls \cup {Idle} /\ seen[t] \in [budget : BudgetState, now : Nat]
      BY DEF TypeOK
    <3>2. call[t].kind = "reserve"
      BY <1>5 DEF Reserve, Leave
    <3>3. call[t] \in ReserveCall
      BY <3>1, <3>2, CallKinds
    <3> QED
      BY <3>1, <3>3, CallAssumption DEF ReserveCall
  <2> DEFINE n == call[t].count
             b == seen[t].budget
             r == Reserved(b, n, seen[t].now)
  <2>1. /\ r \in BudgetState
        /\ r.fired = NoCap => b.fired = NoCap /\ r.toolCalls = b.toolCalls + n
                              /\ b.toolCalls + n =< MaxToolCalls
        /\ r.fired # NoCap => r.toolCalls = b.toolCalls
        /\ r.tokens = b.tokens /\ r.cost = b.cost
    BY <2>0, ReservedLemma
  <2> HIDE DEF r
  <2>2. /\ Leave(t, "reserve", r)
        /\ granted' = IF budget'.fired = NoCap THEN granted + n ELSE granted
        /\ UNCHANGED <<request, charge>>
    BY <1>5 DEF Reserve, r
  <2> HIDE DEF n
  <2>3. /\ b = budget /\ budget' = r /\ holders' = {}
        /\ TypeOK' /\ (asOf =< clock)'
    <3>1. /\ seen[t].budget = budget /\ holders' = {} /\ budget' \in BudgetState
          /\ clock' \in Nat /\ asOf' \in Nat /\ asOf' =< clock'
          /\ call' \in [Threads -> Calls \cup {Idle}]
          /\ seen' \in [Threads -> [budget : BudgetState, now : Nat]]
      BY <2>1, <2>2, LeaveLemma
    <3>2. granted' \in Nat
      BY <2>0, <2>2 DEF TypeOK, n
    <3> QED
      BY <2>2, <3>1, <3>2 DEF Leave, TypeOK
  <2> HIDE DEF b
  <2>4. GrantsWithinCap'
    BY <2>1, <2>2, <2>3 DEF GrantsWithinCap
  <2>5. OpenWithinCaps' /\ RequestFits' /\ PreflightHoldsTokens'
    BY <2>1, <2>2, <2>3 DEF OpenWithinCaps, RequestFits, PreflightHoldsTokens
  <2>6. RequestPaid' /\ PreflightHoldsCost'
    BY <2>1, <2>2, <2>3 DEF RequestPaid, PreflightHoldsCost
  <2> QED
    BY <2>3, <2>4, <2>5, <2>6 DEF Exclusive, ReadsCurrent
<1>6. ASSUME NEW t \in Threads, Prepare(t) PROVE IInv'
  <2>0. /\ seen[t].budget \in BudgetState /\ seen[t].now \in Nat
        /\ call[t].est \in Nat /\ call[t].preferred \in Nat /\ call[t].minimum \in Nat
    <3>1. call[t] \in Calls \cup {Idle} /\ seen[t] \in [budget : BudgetState, now : Nat]
      BY DEF TypeOK
    <3>2. call[t].kind = "prepare"
      BY <1>6 DEF Prepare, Leave
    <3>3. call[t] \in PrepareCall
      BY <3>1, <3>2, CallKinds
    <3> QED
      BY <3>1, <3>3, CallAssumption DEF PrepareCall
  <2> DEFINE b == seen[t].budget
             est == call[t].est
             preferred == call[t].preferred
             minimum == call[t].minimum
             now == seen[t].now
             a == Allowance(b, est, preferred)
             r == Prepared(b, est, preferred, minimum, now)
  <2>0a. b \in BudgetState /\ est \in Nat /\ preferred \in Nat /\ minimum \in Nat /\ now \in Nat
    BY <2>0
  <2> HIDE DEF b, est, preferred, minimum, now
  <2>1. /\ r \in BudgetState
        /\ r.toolCalls = b.toolCalls /\ r.tokens = b.tokens /\ r.cost = b.cost
        /\ r.fired = NoCap => r = b /\ a \in Nat /\ b.tokens + est + a =< MaxTotalTokens
                              /\ b.cost + RequestCost(est, a) =< MaxCost
    BY <2>0a, PreparedLemma, PreparedPays
  <2> HIDE DEF r, a
  <2>2. /\ Leave(t, "prepare", r)
        /\ request' = IF budget'.fired = NoCap THEN [est |-> est, allowed |-> a] ELSE NoRequest
        /\ UNCHANGED <<granted, charge>>
    BY <1>6 DEF Prepare, r, a, b, est, preferred, minimum, now
  <2>3. /\ b = budget /\ budget' = r /\ holders' = {}
        /\ TypeOK' /\ (asOf =< clock)'
    <3>1. /\ seen[t].budget = budget /\ holders' = {} /\ budget' \in BudgetState
          /\ clock' \in Nat /\ asOf' \in Nat /\ asOf' =< clock'
          /\ call' \in [Threads -> Calls \cup {Idle}]
          /\ seen' \in [Threads -> [budget : BudgetState, now : Nat]]
      BY <2>1, <2>2, LeaveLemma
    <3>2. budget' = r
      BY <2>2 DEF Leave
    <3>3. request' \in Preflight
      BY <2>0a, <2>1, <2>2, <3>2 DEF Preflight, NoRequest
    <3> QED
      BY <2>2, <3>1, <3>2, <3>3 DEF TypeOK, b
  <2>4. RequestFits'
    <3> SUFFICES ASSUME budget'.fired = NoCap
                 PROVE  budget'.tokens + request'.est + request'.allowed =< MaxTotalTokens
      BY DEF RequestFits
    <3>1. request'.est = est /\ request'.allowed = a
      BY <2>2
    <3> QED
      BY <2>1, <2>3, <3>1
  <2>5. GrantsWithinCap' /\ OpenWithinCaps' /\ PreflightHoldsTokens' /\ PreflightHoldsCost'
    BY <2>1, <2>2, <2>3
    DEF GrantsWithinCap, OpenWithinCaps, PreflightHoldsTokens, PreflightHoldsCost
  <2>6. RequestPaid'
    <3> SUFFICES ASSUME budget'.fired = NoCap
                 PROVE  budget'.cost + RequestCost(request'.est, request'.allowed) =< MaxCost
      BY DEF RequestPaid
    <3>1. request'.est = est /\ request'.allowed = a
      BY <2>2
    <3> QED
      BY <2>1, <2>3, <3>1
  <2> QED
    BY <2>3, <2>4, <2>5, <2>6 DEF Exclusive, ReadsCurrent
<1>7. ASSUME NEW t \in Threads, Record(t) PROVE IInv'
  <2>0. seen[t].budget \in BudgetState /\ call[t].usage \in Usage
    <3>1. call[t] \in Calls \cup {Idle} /\ seen[t] \in [budget : BudgetState, now : Nat]
      BY DEF TypeOK
    <3>2. call[t].kind = "record"
      BY <1>7 DEF Record, Leave
    <3>3. call[t] \in RecordCall
      BY <3>1, <3>2, CallKinds
    <3> QED
      BY <3>1, <3>3, CallAssumption DEF RecordCall
  <2> DEFINE u == call[t].usage
             b == seen[t].budget
             r == IF ValidUsage(u) THEN Charged(b, u) ELSE b
  <2>1. /\ r \in BudgetState /\ r.toolCalls = b.toolCalls
        /\ ValidUsage(u) /\ b.fired = NoCap => r.tokens = b.tokens + u.input + u.output
        /\ ~ValidUsage(u) \/ b.fired # NoCap => r = b
        /\ r.fired = NoCap /\ ValidUsage(u) => r.tokens =< MaxTotalTokens /\ r.cost =< MaxCost
        /\ ValidUsage(u) /\ b.fired = NoCap => r.cost = b.cost + UsageCost(u)
    BY <2>0, ChargedLemma, ChargedCost
  <2> HIDE DEF r
  <2>2. /\ Leave(t, "record", r)
        /\ charge' = IF ValidUsage(u) /\ b.fired = NoCap
                     THEN [usage |-> u, preflight |-> request] ELSE charge
        /\ request' = NoRequest
        /\ UNCHANGED granted
    BY <1>7 DEF Record, r
  <2>3. /\ b = budget /\ budget' = r /\ holders' = {}
        /\ TypeOK' /\ (asOf =< clock)'
    <3>1. /\ seen[t].budget = budget /\ holders' = {} /\ budget' \in BudgetState
          /\ clock' \in Nat /\ asOf' \in Nat /\ asOf' =< clock'
          /\ call' \in [Threads -> Calls \cup {Idle}]
          /\ seen' \in [Threads -> [budget : BudgetState, now : Nat]]
      BY <2>1, <2>2, LeaveLemma
    <3>2. budget' = r /\ request' \in Preflight
      BY <2>2 DEF Leave, NoRequest, Preflight
    <3>3. charge' \in [usage : Usage, preflight : Preflight]
      BY <2>0, <2>2 DEF TypeOK
    <3> QED
      BY <2>2, <3>1, <3>2, <3>3 DEF TypeOK
  <2>3a. u \in Usage /\ u.input \in Nat /\ u.output \in Nat
    BY <2>0 DEF Usage
  <2> HIDE DEF b, u
  <2>4. OpenWithinCaps'
    BY <2>1, <2>2, <2>3 DEF OpenWithinCaps
  <2>5. RequestFits'
    BY <2>1, <2>2, <2>3, <2>4, CapConfigAssumption
    DEF RequestFits, OpenWithinCaps, NoRequest, TypeOK, BudgetState
  <2>6. PreflightHoldsTokens'
    <3>1. CASE ValidUsage(u) /\ b.fired = NoCap
      <4>1. charge'.usage = u /\ charge'.preflight = request
        BY <2>2, <3>1
      <4>2. budget.tokens + request.est + request.allowed =< MaxTotalTokens
        BY <2>3, <3>1 DEF RequestFits
      <4>3. budget'.tokens = budget.tokens + u.input + u.output
        BY <2>1, <2>3, <3>1
      <4>4. budget.tokens \in Nat /\ request.est \in Nat /\ request.allowed \in Nat
        BY DEF TypeOK, BudgetState, Preflight
      <4> QED
        BY <2>3a, <4>1, <4>2, <4>3, <4>4, CapConfigAssumption DEF PreflightHoldsTokens
    <3>2. CASE ~(ValidUsage(u) /\ b.fired = NoCap)
      BY <2>1, <2>2, <2>3, <3>2 DEF PreflightHoldsTokens
    <3> QED
      BY <3>1, <3>2
  <2>7. GrantsWithinCap'
    BY <2>1, <2>2, <2>3 DEF GrantsWithinCap
  <2>8. RequestPaid'
    <3>1. RequestCost(request'.est, request'.allowed) = 0
      BY <2>2, NothingOut
    <3>2. budget'.fired = NoCap => budget'.cost =< MaxCost
      BY <2>4 DEF OpenWithinCaps
    <3> QED
      BY <2>3, <3>1, <3>2 DEF RequestPaid, TypeOK, BudgetState
  <2>9. PreflightHoldsCost'
    <3>1. CASE ValidUsage(u) /\ b.fired = NoCap
      <4> SUFFICES ASSUME u.input =< request.est, u.output =< request.allowed,
                          ~(u.cacheWrite > 0)
                   PROVE  budget'.cost =< MaxCost
        <5>1. charge'.usage = u /\ charge'.preflight = request
          BY <2>2, <3>1
        <5>2. budget'.cost \in Nat /\ request.est \in Nat /\ request.allowed \in Nat
          BY <2>3 DEF TypeOK, BudgetState, Preflight
        <5> QED
          BY <2>3a, <5>1, <5>2, CapConfigAssumption DEF PreflightHoldsCost
      <4>1. budget.cost + RequestCost(request.est, request.allowed) =< MaxCost
        BY <2>3, <3>1 DEF RequestPaid
      <4>2. budget'.cost = budget.cost + UsageCost(u)
        BY <2>1, <2>3, <3>1
      <4>3. UsageCost(u) \in Nat
        BY <2>3a, <3>1, UsageCostNat
      <4>4. request.est \in Nat /\ request.allowed \in Nat /\ u.cacheWrite = 0
        BY <2>3a DEF TypeOK, Preflight, Usage
      <4>5. UsageCost(u) =< RequestCost(request.est, request.allowed)
        BY <2>3a, <3>1, <4>4, UncachedIsWorst
      <4>6. RequestCost(request.est, request.allowed) \in Nat
        BY <4>4, RequestCostNat
      <4> QED
        BY <4>1, <4>2, <4>3, <4>5, <4>6, CapConfigAssumption DEF TypeOK, BudgetState
    <3>2. CASE ~(ValidUsage(u) /\ b.fired = NoCap)
      BY <2>1, <2>2, <2>3, <3>2 DEF PreflightHoldsCost
    <3> QED
      BY <3>1, <3>2
  <2> QED
    BY <2>3, <2>4, <2>5, <2>6, <2>7, <2>8, <2>9 DEF Exclusive, ReadsCurrent
<1>8. CASE UNCHANGED vars
  BY <1>8 DEF vars, TypeOK, Exclusive, ReadsCurrent, GrantsWithinCap, OpenWithinCaps,
              RequestFits, RequestPaid, PreflightHoldsTokens, PreflightHoldsCost
<1> QED
  BY <1>1, <1>2, <1>3, <1>4, <1>5, <1>6, <1>7, <1>8 DEF Next

-------------------------------------------------------------------------------
\* The theorems.

\* The invariant holds in every reachable state.
LEMMA Invariant == Spec => []IInv
  BY InitIInv, NextIInv, PTL DEF Spec

(* RunBudget keeps its types: in particular an admitted request's allowance is a
   natural number, whatever the prices and however little is left (caps.py). *)
THEOREM TypeCorrect == Spec => []TypeOK
<1>1. IInv => TypeOK
  BY DEF IInv
<1> QED
  BY <1>1, Invariant, PTL

(* Parallel callers are never granted more tool calls than the cap
   (reserve_tool_calls). *)
THEOREM NoOvergrant == Spec => []GrantsWithinCap
<1>1. IInv => GrantsWithinCap
  BY DEF IInv
<1> QED
  BY <1>1, Invariant, PTL

(* A run whose caps have not fired has spent within all of them (record_model_usage). *)
THEOREM OpenIsWithinCaps == Spec => []OpenWithinCaps
<1>1. IInv => OpenWithinCaps
  BY DEF IInv
<1> QED
  BY <1>1, Invariant, PTL

(* A response within its preflight never passes the token cap, whatever happened
   between preflight and charge (prepare_model_request, record_model_usage). *)
THEOREM PreflightIsEnough == Spec => []PreflightHoldsTokens
<1>1. IInv => PreflightHoldsTokens
  BY DEF IInv
<1> QED
  BY <1>1, Invariant, PTL

(* A response within its preflight that writes nothing to the prompt cache never passes the
   dollar cap (prepare_model_request, record_model_usage). *)
THEOREM PreflightPays == Spec => []PreflightHoldsCost
<1>1. IInv => PreflightHoldsCost
  BY DEF IInv
<1> QED
  BY <1>1, Invariant, PTL

(* Once a cap has fired, nothing is granted or charged and the cap does not change
   (_raise_fired_unlocked at the head of every method). *)
THEOREM FiredStays == Spec => FiredIsFinal
<1>1. IInv /\ [Next]_vars =>
        [budget.fired # NoCap => budget' = budget /\ granted' = granted]_<<budget, granted>>
  <2> SUFFICES ASSUME IInv, [Next]_vars, budget.fired # NoCap
               PROVE  budget' = budget /\ granted' = granted
    OBVIOUS
  <2> USE DEF IInv
  <2>1. ASSUME NEW t \in Threads, NEW kind, NEW result, Leave(t, kind, result)
        PROVE  seen[t].budget = budget /\ budget' = result
    BY <2>1 DEF ReadsCurrent, Leave
  <2>2. CASE Tick
    BY <2>2 DEF Tick
  <2>3. ASSUME NEW t \in Threads, Invoke(t) \/ Enter(t) PROVE budget' = budget /\ granted' = granted
    BY <2>3 DEF Invoke, Enter
  <2>4. ASSUME NEW t \in Threads, Check(t) PROVE budget' = budget /\ granted' = granted
    <3>1. seen[t].budget = budget /\ budget' = Checked(seen[t].budget, seen[t].now)
      BY <2>1, <2>4 DEF Check
    <3> QED
      BY <2>4, <3>1 DEF Check, Checked, Fire
  <2>5. ASSUME NEW t \in Threads, Reserve(t) PROVE budget' = budget /\ granted' = granted
    <3>1. /\ seen[t].budget = budget
          /\ budget' = Reserved(seen[t].budget, call[t].count, seen[t].now)
      BY <2>1, <2>5 DEF Reserve
    <3>2. budget' = budget
      BY <3>1 DEF Reserved, Checked, Fire
    <3> QED
      BY <2>5, <3>2 DEF Reserve
  <2>6. ASSUME NEW t \in Threads, Prepare(t) PROVE budget' = budget /\ granted' = granted
    <3>1. /\ seen[t].budget = budget
          /\ budget' = Prepared(seen[t].budget, call[t].est, call[t].preferred,
                                call[t].minimum, seen[t].now)
      BY <2>1, <2>6 DEF Prepare
    <3> QED
      BY <2>6, <3>1 DEF Prepare, Prepared, Checked, Fire
  <2>7. ASSUME NEW t \in Threads, Record(t) PROVE budget' = budget /\ granted' = granted
    <3>1. /\ seen[t].budget = budget
          /\ budget' = IF ValidUsage(call[t].usage)
                       THEN Charged(seen[t].budget, call[t].usage) ELSE seen[t].budget
      BY <2>1, <2>7 DEF Record
    <3>2. budget' = budget
      BY <3>1 DEF Charged
    <3> QED
      BY <2>7, <3>2 DEF Record
  <2> QED
    BY <2>2, <2>3, <2>4, <2>5, <2>6, <2>7 DEF Next, vars
<1> QED
  BY <1>1, Invariant, PTL DEF Spec, FiredIsFinal

\* The abstract budget's arithmetic is this module's: both read the same constants.
LEMMA SameArithmetic ==
    /\ Atomic!FreshBudget = FreshBudget /\ Atomic!NoCap = NoCap
    /\ \A b, now : Atomic!Checked(b, now) = Checked(b, now)
    /\ \A b, n, now : Atomic!Reserved(b, n, now) = Reserved(b, n, now)
    /\ \A b, e, p, m, now : Atomic!Prepared(b, e, p, m, now) = Prepared(b, e, p, m, now)
    /\ \A u : Atomic!ValidUsage(u) = ValidUsage(u)
    /\ \A b, u : Atomic!Charged(b, u) = Charged(b, u)
<1>1. Atomic!NoCap = NoCap /\ \A b, kind : Atomic!Fire(b, kind) = Fire(b, kind)
  BY DEF Atomic!NoCap, NoCap, Atomic!Fire, Fire
<1>2. Atomic!FreshBudget = FreshBudget
  BY <1>1 DEF Atomic!FreshBudget, FreshBudget
<1>3. \A b, now : Atomic!Checked(b, now) = Checked(b, now)
  BY <1>1 DEF Atomic!Checked, Checked
<1>4. \A b, n, now : Atomic!Reserved(b, n, now) = Reserved(b, n, now)
  BY <1>1, <1>3 DEF Atomic!Reserved, Reserved
<1>5. \A i : Atomic!InputFactor(i) = InputFactor(i) /\ Atomic!OutputRate(i) = OutputRate(i)
  BY DEF Atomic!InputFactor, InputFactor, Atomic!OutputRate, OutputRate
<1>6. \A b, e : Atomic!Affordable(b, e) = Affordable(b, e)
  BY <1>5 DEF Atomic!Affordable, Affordable
<1>7. \A b, e, p : Atomic!Allowance(b, e, p) = Allowance(b, e, p)
  BY <1>6 DEF Atomic!Allowance, Allowance, Atomic!Least, Least
<1>8. \A b, e, p, m, now : Atomic!Prepared(b, e, p, m, now) = Prepared(b, e, p, m, now)
  BY <1>1, <1>3, <1>6, <1>7 DEF Atomic!Prepared, Prepared
<1>9. \A u : Atomic!ValidUsage(u) = ValidUsage(u)
  BY DEF Atomic!ValidUsage, ValidUsage
<1>10. \A u : Atomic!UsageCost(u) = UsageCost(u)
  BY <1>5 DEF Atomic!UsageCost, UsageCost
<1>11. \A b, u : Atomic!Charged(b, u) = Charged(b, u)
  BY <1>1, <1>10 DEF Atomic!Charged, Charged
<1> QED
  BY <1>1, <1>2, <1>3, <1>4, <1>8, <1>9, <1>11

(* The lock makes every method atomic: RunBudget implements AtomicBudget. *)
THEOREM LockMakesAtomic == Spec => Linearizable
<1>1. Init => Atomic!Init
  BY SameArithmetic DEF Init, Atomic!Init
<1>2. IInv /\ [Next]_vars => [Atomic!Next]_Atomic!vars
  <2> SUFFICES ASSUME IInv, [Next]_vars PROVE Atomic!Next \/ UNCHANGED Atomic!vars
    OBVIOUS
  <2> USE DEF IInv
  <2>1. ASSUME NEW t \in Threads, NEW kind, NEW result, Leave(t, kind, result)
        PROVE  /\ seen[t].budget = budget /\ budget' = result
               /\ call[t] \in Calls \cup {Idle} /\ call[t].kind = kind
               /\ seen[t].now \in asOf..clock /\ Atomic!At(seen[t].now)
    BY <2>1 DEF ReadsCurrent, TypeOK, Leave, Atomic!At
  <2>2. CASE Tick
    BY <2>2 DEF Tick, TypeOK, Atomic!Next, Atomic!Tick
  <2>3. ASSUME NEW t \in Threads, Invoke(t) \/ Enter(t) PROVE UNCHANGED Atomic!vars
    BY <2>3 DEF Invoke, Enter, Atomic!vars
  <2>4. ASSUME NEW t \in Threads, Check(t) PROVE Atomic!Check
    <3>1. /\ seen[t].budget = budget /\ budget' = Checked(budget, seen[t].now)
          /\ seen[t].now \in asOf..clock /\ Atomic!At(seen[t].now)
      BY <2>1, <2>4 DEF Check
    <3> QED
      BY <2>4, <3>1, SameArithmetic DEF Check, Atomic!Check
  <2>5. ASSUME NEW t \in Threads, Reserve(t) PROVE Atomic!Reserve
    <3>1. /\ seen[t].budget = budget /\ budget' = Reserved(budget, call[t].count, seen[t].now)
          /\ call[t] \in Calls \cup {Idle} /\ call[t].kind = "reserve"
          /\ seen[t].now \in asOf..clock /\ Atomic!At(seen[t].now)
      BY <2>1, <2>5 DEF Reserve
    <3>2. call[t].count \in Counts
      BY <3>1, CallKinds DEF ReserveCall
    <3> QED
      BY <2>5, <3>1, <3>2, SameArithmetic DEF Reserve, Atomic!Reserve
  <2>6. ASSUME NEW t \in Threads, Prepare(t) PROVE Atomic!Prepare
    <3>1. /\ seen[t].budget = budget
          /\ budget' = Prepared(budget, call[t].est, call[t].preferred, call[t].minimum, seen[t].now)
          /\ call[t] \in Calls \cup {Idle} /\ call[t].kind = "prepare"
          /\ seen[t].now \in asOf..clock /\ Atomic!At(seen[t].now)
      BY <2>1, <2>6 DEF Prepare
    <3>2. /\ call[t].est \in Estimates
          /\ call[t].preferred \in Outputs /\ call[t].minimum \in Outputs
          /\ call[t].minimum =< call[t].preferred
      BY <3>1, CallKinds DEF PrepareCall
    <3> QED
      BY <2>6, <3>1, <3>2, SameArithmetic DEF Prepare, Atomic!Prepare
  <2>7. ASSUME NEW t \in Threads, Record(t) PROVE Atomic!Record
    <3>1. /\ seen[t].budget = budget
          /\ budget' = IF ValidUsage(call[t].usage) THEN Charged(budget, call[t].usage) ELSE budget
          /\ call[t] \in Calls \cup {Idle} /\ call[t].kind = "record"
          /\ seen[t].now \in asOf..clock /\ Atomic!At(seen[t].now)
      BY <2>1, <2>7 DEF Record
    <3>2. call[t].usage \in Usages
      BY <3>1, CallKinds DEF RecordCall
    <3> QED
      BY <2>7, <3>1, <3>2, SameArithmetic DEF Record, Atomic!Record
  <2>8. CASE UNCHANGED vars
    BY <2>8 DEF vars, Atomic!vars
  <2> QED
    BY <2>2, <2>3, <2>4, <2>5, <2>6, <2>7, <2>8 DEF Next, Atomic!Next
<1> QED
  BY <1>1, <1>2, Invariant, PTL DEF Spec, Linearizable, Atomic!Spec
===============================================================================
