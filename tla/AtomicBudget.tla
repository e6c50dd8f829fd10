----------------------------- MODULE AtomicBudget -----------------------------
(* What RunBudget promises its callers: whatever threads call it, the run's
   counters move as if every method happened at one instant, in an order that
   agrees with the clock readings the methods were given. *)
EXTENDS Budget

CONSTANTS Counts, Estimates, Outputs, Usages

VARIABLES
    clock,      \* seconds since the budget was created
    asOf,       \* the clock reading the latest method acted on
    budget,     \* the counters and the fired cap
    granted     \* tool calls that callers were told they may launch

vars == <<clock, asOf, budget, granted>>

Init ==
    /\ clock = 0 /\ asOf = 0
    /\ budget = FreshBudget
    /\ granted = 0

Tick ==
    /\ clock' \in {t \in Nat : t > clock}
    /\ UNCHANGED <<asOf, budget, granted>>

At(now) == now \in asOf..clock /\ asOf' = now /\ UNCHANGED clock

Check == \E now \in asOf..clock :
    At(now) /\ budget' = Checked(budget, now) /\ UNCHANGED granted

Reserve == \E now \in asOf..clock, count \in Counts :
    /\ At(now)
    /\ budget' = Reserved(budget, count, now)
    /\ granted' = IF budget'.fired = NoCap THEN granted + count ELSE granted

Prepare == \E now \in asOf..clock, est \in Estimates, preferred, minimum \in Outputs :
    /\ minimum =< preferred
    /\ At(now)
    /\ budget' = Prepared(budget, est, preferred, minimum, now)
    /\ UNCHANGED granted

Record == \E now \in asOf..clock, usage \in Usages :
    /\ At(now)
    /\ budget' = IF ValidUsage(usage) THEN Charged(budget, usage) ELSE budget
    /\ UNCHANGED granted

Next == Tick \/ Check \/ Reserve \/ Prepare \/ Record

Spec == Init /\ [][Next]_vars
===============================================================================
