------------------------------- MODULE RunBudget -------------------------------
(* RunBudget of caps.py, one process for every thread that calls it: the thread
   that runs the investigation (Client) and the workers of the tool pool.  A
   method takes the lock, reads the counters and the clock, then stores what it
   computed from them and releases the lock; another thread may be scheduled
   between the two. *)
EXTENDS Budget

CONSTANTS
    Threads, Client,
    Counts,         \* sizes of the reservations callers ask for
    Estimates,      \* estimated input sizes of model requests
    Outputs,        \* preferred and minimum response sizes
    Usages,         \* usages a provider may report
    Horizon         \* bound on the clock

ASSUME ThreadAssumption == Client \in Threads

ASSUME CallAssumption ==
    /\ Counts \subseteq Nat \ {0}
    /\ Estimates \subseteq Nat \ {0} /\ Outputs \subseteq Nat \ {0}
    /\ Usages \subseteq Usage
    /\ Horizon \in Nat

VARIABLES
    clock, budget,
    holders,        \* the threads inside a method, holding the lock
    call,           \* the method each thread is in, Idle outside
    seen,           \* the counters and the clock a thread read when it took the lock
    asOf,           \* history: the reading the latest method acted on
    granted,        \* history: tool calls that callers were told they may launch
    request,        \* the preflight of the request the client has out, or NoRequest
    charge          \* history: the latest usage charged, with its preflight

vars == <<clock, budget, holders, call, seen, asOf, granted, request, charge>>

Idle == [kind |-> "idle"]
CheckCall   == [kind : {"check"}]
ReserveCall == [kind : {"reserve"}, count : Counts]
PrepareCall == {c \in [kind : {"prepare"}, est : Estimates, preferred : Outputs, minimum : Outputs] :
                    c.minimum =< c.preferred}
RecordCall  == [kind : {"record"}, usage : Usages]
Calls == CheckCall \cup ReserveCall \cup PrepareCall \cup RecordCall

NothingSeen == [budget |-> FreshBudget, now |-> 0]
NoRequest == [est |-> 0, allowed |-> 0]
Preflight == [est : Nat, allowed : Nat]
NoUsage   == [input |-> 0, cached |-> 0, cacheWrite |-> 0, output |-> 0, providerTotal |-> 0]

Init ==
    /\ clock = 0 /\ asOf = 0 /\ granted = 0
    /\ budget = FreshBudget
    /\ holders = {}
    /\ call = [t \in Threads |-> Idle]
    /\ seen = [t \in Threads |-> NothingSeen]
    /\ request = NoRequest
    /\ charge = [usage |-> NoUsage, preflight |-> NoRequest]

Tick ==
    /\ clock < Horizon
    /\ clock' = clock + 1
    /\ UNCHANGED <<budget, holders, call, seen, asOf, granted, request, charge>>

\* Workers check and reserve; only the client sends requests, and charges the one it has out.
Invoke(t) ==
    /\ call[t] = Idle
    /\ \E c \in Calls :
        /\ c.kind \in {"prepare", "record"} => t = Client
        /\ c.kind = "record" => request # NoRequest
        /\ call' = [call EXCEPT ![t] = c]
    /\ UNCHANGED <<clock, budget, holders, seen, asOf, granted, request, charge>>

\* Mutant: a method that reads the counters without holding the lock.
EnterUnlocked(t) ==
    /\ call[t] # Idle /\ t \notin holders
    /\ holders' = holders \cup {t}
    /\ seen' = [seen EXCEPT ![t] = [budget |-> budget, now |-> clock]]
    /\ UNCHANGED <<clock, budget, call, asOf, granted, request, charge>>

\* with self._lock: take the lock, read the counters and the clock.
Enter(t) ==
    /\ call[t] # Idle /\ holders = {}
    /\ holders' = holders \cup {t}
    /\ seen' = [seen EXCEPT ![t] = [budget |-> budget, now |-> clock]]
    /\ UNCHANGED <<clock, budget, call, asOf, granted, request, charge>>

\* Store what was computed, release the lock and return to the caller.
Leave(t, kind, result) ==
    /\ t \in holders /\ call[t].kind = kind
    /\ budget' = result
    /\ holders' = holders \ {t}
    /\ call' = [call EXCEPT ![t] = Idle]
    /\ asOf' = seen[t].now
    /\ seen' = [seen EXCEPT ![t] = NothingSeen]
    /\ UNCHANGED clock

Check(t) ==
    /\ Leave(t, "check", Checked(seen[t].budget, seen[t].now))
    /\ UNCHANGED <<granted, request, charge>>

Reserve(t) ==
    /\ Leave(t, "reserve", Reserved(seen[t].budget, call[t].count, seen[t].now))
    /\ granted' = IF budget'.fired = NoCap THEN granted + call[t].count ELSE granted
    /\ UNCHANGED <<request, charge>>

Prepare(t) ==
    LET c == call[t]
        b == seen[t].budget
    IN  /\ Leave(t, "prepare", Prepared(b, c.est, c.preferred, c.minimum, seen[t].now))
        /\ request' = IF budget'.fired = NoCap
                      THEN [est |-> c.est, allowed |-> Allowance(b, c.est, c.preferred)]
                      ELSE NoRequest
        /\ UNCHANGED <<granted, charge>>

\* A malformed usage raises ValueError before anything is charged.
Record(t) ==
    LET u == call[t].usage
        b == seen[t].budget
    IN  /\ Leave(t, "record", IF ValidUsage(u) THEN Charged(b, u) ELSE b)
        /\ charge' = IF ValidUsage(u) /\ b.fired = NoCap
                     THEN [usage |-> u, preflight |-> request] ELSE charge
        /\ request' = NoRequest
        /\ UNCHANGED granted

Next ==
    \/ Tick
    \/ \E t \in Threads :
        Invoke(t) \/ Enter(t) \/ Check(t) \/ Reserve(t) \/ Prepare(t) \/ Record(t)

Spec == Init /\ [][Next]_vars

-------------------------------------------------------------------------------

TypeOK ==
    /\ clock \in Nat /\ asOf \in Nat /\ granted \in Nat
    /\ budget \in BudgetState
    /\ holders \subseteq Threads
    /\ call \in [Threads -> Calls \cup {Idle}]
    /\ seen \in [Threads -> [budget : BudgetState, now : Nat]]
    /\ request \in Preflight
    /\ charge \in [usage : Usage, preflight : Preflight]

(* Parallel workers cannot race past the tool cap: what all callers together were
   granted is exactly what is counted, and never more than the cap
   (reserve_tool_calls, "so parallel workers cannot race past the cap"). *)
GrantsWithinCap == granted = budget.toolCalls /\ granted =< MaxToolCalls

(* While no cap has fired, nothing spent exceeds a cap: a run that goes on is
   within every cap it was given. *)
OpenWithinCaps ==
    budget.fired = NoCap => budget.tokens =< MaxTotalTokens /\ budget.cost =< MaxCost

(* The preflight leaves room for the response it admits, whatever other threads do
   between preflight and charge: the token total passes the cap only by a response
   that reads more than was estimated or writes more than was allowed. *)
PreflightHoldsTokens ==
    budget.tokens > MaxTotalTokens =>
        \/ charge.usage.input > charge.preflight.est
        \/ charge.usage.output > charge.preflight.allowed

(* The same of money, for a response that writes nothing to the prompt cache. *)
PreflightHoldsCost ==
    budget.cost > MaxCost =>
        \/ charge.usage.input > charge.preflight.est
        \/ charge.usage.output > charge.preflight.allowed
        \/ charge.usage.cacheWrite > 0

(* caps.py:272 says that ordinary uncached input is "the safe preflight price"
   whatever the cache does: an admitted response never passes the dollar cap. *)
UncachedPriceIsSafe ==
    budget.cost > MaxCost =>
        \/ charge.usage.input > charge.preflight.est
        \/ charge.usage.output > charge.preflight.allowed

(* A fired cap is final: the first cap to fire stays the one reported, and nothing
   is granted or charged after it. *)
FiredIsFinal ==
    [][budget.fired # NoCap => budget' = budget /\ granted' = granted]_<<budget, granted>>

\* The methods are atomic: every behaviour is one of AtomicBudget.
Atomic == INSTANCE AtomicBudget
Linearizable == Atomic!Spec

===============================================================================
