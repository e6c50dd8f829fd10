------------------------------ MODULE ModelCall ------------------------------
(* What one call of AuditedModel.create comes to for the agent: the request is sent
   only within the budget, at most one response is charged for it, and the call ends
   accepted, failed, or stopped by a cap that has fired. *)
EXTENDS Budget

CONSTANTS Estimates, Outputs, Usages

VARIABLES clock, budget, call

vars == <<clock, budget, call>>

Ended == {"accepted", "failed", "capped"}

Init == clock = 0 /\ budget = FreshBudget /\ call = "idle"

Tick == clock' = clock + 1 /\ UNCHANGED <<budget, call>>

\* The agent makes another call only after one that was accepted.
Send ==
    /\ call \in {"idle", "accepted"}
    /\ \E est \in Estimates, preferred, minimum \in Outputs :
        budget' = Prepared(budget, est, preferred, minimum, clock)
    /\ call' = IF budget'.fired = NoCap THEN "out" ELSE "capped"
    /\ UNCHANGED clock

\* A cap or the deadline stops the call while it is out.
Expire ==
    /\ call = "out"
    /\ budget' = Checked(budget, clock)
    /\ budget'.fired # NoCap
    /\ call' = "capped"
    /\ UNCHANGED clock

\* One response is charged; a cap it fires stops the call.
Charge ==
    /\ call = "out"
    /\ \E u \in Usages : ValidUsage(u) /\ budget' = Charged(budget, u)
    /\ call' = IF budget'.fired = NoCap THEN "charged" ELSE "capped"
    /\ UNCHANGED clock

\* The charged response is accepted, or found malformed, or too late.
Accept ==
    /\ call = "charged"
    /\ budget' = Checked(budget, clock)
    /\ call' \in IF budget'.fired = NoCap THEN {"accepted", "failed"} ELSE {"capped"}
    /\ UNCHANGED clock

\* No attempt brings a response that can be charged.
Fail ==
    /\ call = "out"
    /\ call' = "failed"
    /\ UNCHANGED <<clock, budget>>

Next == Tick \/ Send \/ Expire \/ Charge \/ Accept \/ Fail

Spec == Init /\ [][Next]_vars
===============================================================================
