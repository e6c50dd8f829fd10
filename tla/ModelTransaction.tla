--------------------------- MODULE ModelTransaction ---------------------------
(* AuditedModel.create of model.py: preflight, at most two audited retries of a
   transient failure, one charge, validation.  One tick of the clock is the first
   backoff delay.  Time may pass between any two steps; the provider may answer, fail
   for a while or for good, or report a usage or a response that breaks the protocol.
   Requests and options are audited as one event each, payloads left out. *)
EXTENDS Budget, Sequences

CONSTANTS
    Estimates, Outputs, Usages,
    MaxRetries,     \* _MAX_TRANSIENT_RETRIES
    MaxCalls,       \* bound on the calls of create
    Horizon         \* bound on the clock

ASSUME TransactionAssumption ==
    /\ Estimates \subseteq Nat \ {0} /\ Outputs \subseteq Nat \ {0} /\ Usages \subseteq Usage
    /\ MaxRetries \in 0..2 /\ MaxCalls \in Nat /\ Horizon \in Nat

VARIABLES
    clock, budget,
    pc,
    attempt,        \* the provider attempt, from 1
    allowed,        \* max_output_tokens of the bounded request
    wakeAt,         \* when the backoff before the next attempt is over
    reply,          \* the response received, or NoReply
    log,            \* the events of this call
    calls,          \* calls of create so far
    reported        \* history: tokens of the valid usages in all model.response events

vars == <<clock, budget, pc, attempt, allowed, wakeAt, reply, log, calls, reported>>

Places == {"idle", "preflighted", "ready", "dispatched", "failing", "backoff", "sleeping",
           "received", "charged", "accepted", "failed", "capped"}
Ended == {"accepted", "failed", "capped"}
Event == {"model.request", "model.request.options", "model.attempt.error", "model.retry.scheduled",
          "model.retry.skipped", "model.retry.succeeded", "model.response", "model.error",
          "cap.fired"}

NoReply == [usage |-> [input |-> 0, cached |-> 0, cacheWrite |-> 0, output |-> 0,
                       providerTotal |-> 0], sound |-> FALSE]

Init ==
    /\ clock = 0 /\ budget = FreshBudget
    /\ pc = "idle" /\ attempt = 0 /\ allowed = 0 /\ wakeAt = 0
    /\ reply = NoReply /\ log = <<>> /\ calls = 0 /\ reported = 0

Tick ==
    /\ clock < Horizon
    /\ clock' = clock + 1
    /\ UNCHANGED <<budget, pc, attempt, allowed, wakeAt, reply, log, calls, reported>>

\* 0.25 * 2 ** (attempt - 1) seconds, in ticks of a quarter second.
Delay(n) == 2^(n - 1)

\* A method of the budget is called; a cap it fires ends the call with the events given.
Guarded(b, place, events) ==
    /\ budget' = b
    /\ IF b.fired # NoCap
       THEN pc' = "capped" /\ log' = log \o events
       ELSE pc' = place

\* check and prepare_model_request; a cap that fires here is left for the agent to record.
Preflight ==
    /\ pc \in {"idle", "accepted"} /\ calls < MaxCalls
    /\ \E est \in Estimates, preferred, minimum \in Outputs :
        /\ minimum =< preferred
        /\ LET b == Prepared(budget, est, preferred, minimum, clock)
           IN  /\ budget' = b
               /\ pc' = IF b.fired = NoCap THEN "preflighted" ELSE "capped"
               /\ allowed' = IF b.fired = NoCap THEN Allowance(b, est, preferred) ELSE 0
    /\ calls' = calls + 1
    /\ attempt' = 1 /\ log' = <<>> /\ reply' = NoReply
    /\ UNCHANGED <<clock, wakeAt, reported>>

\* remaining_wall_seconds bounds the request, which is audited before it is sent.
AuditRequest ==
    /\ pc = "preflighted"
    /\ budget' = Checked(budget, clock)
    /\ IF budget'.fired # NoCap
       THEN pc' = "capped" /\ UNCHANGED log
       ELSE pc' = "ready" /\ log' = <<"model.request", "model.request.options">>
    /\ UNCHANGED <<clock, attempt, allowed, wakeAt, reply, calls, reported>>

\* Mutant: a retry is dispatched without looking at the clock again.
DispatchUnchecked ==
    /\ pc = "ready"
    /\ pc' = "dispatched"
    /\ UNCHANGED <<clock, budget, log, attempt, allowed, wakeAt, reply, calls, reported>>

\* Mutant: an attempt that has no wall time left waits for some.
DispatchInTime ==
    /\ pc = "ready" /\ clock < MaxWallSeconds
    /\ pc' = "dispatched"
    /\ UNCHANGED <<clock, budget, log, attempt, allowed, wakeAt, reply, calls, reported>>

\* Each attempt is dispatched with the wall time that is left.
Dispatch ==
    /\ pc = "ready"
    /\ Guarded(Checked(budget, clock), "dispatched", <<"cap.fired">>)
    /\ budget'.fired = NoCap => UNCHANGED log
    /\ UNCHANGED <<clock, attempt, allowed, wakeAt, reply, calls, reported>>

\* Mutant: a recovered attempt is not recorded.
RespondSilently ==
    /\ pc = "dispatched"
    /\ \E u \in Usages, sound \in BOOLEAN : reply' = [usage |-> u, sound |-> sound]
    /\ UNCHANGED log
    /\ pc' = "received"
    /\ UNCHANGED <<clock, budget, attempt, allowed, wakeAt, calls, reported>>

\* The provider answers: with some usage, well formed or not.
Respond ==
    /\ pc = "dispatched"
    /\ \E u \in Usages, sound \in BOOLEAN : reply' = [usage |-> u, sound |-> sound]
    /\ log' = IF attempt > 1 THEN Append(log, "model.retry.succeeded") ELSE log
    /\ pc' = "received"
    /\ UNCHANGED <<clock, budget, attempt, allowed, wakeAt, calls, reported>>

\* Mutant: one attempt too many.
FailAttemptLate ==
    /\ pc = "dispatched"
    /\ \E transient \in BOOLEAN :
        IF transient /\ attempt =< MaxRetries + 1
        THEN /\ log' = Append(log, "model.attempt.error")
             /\ pc' = "backoff"
        ELSE /\ log' = log \o <<"model.attempt.error", "model.error">>
             /\ pc' = "failing"
    /\ UNCHANGED <<clock, budget, attempt, allowed, wakeAt, reply, calls, reported>>

\* The attempt raises: a transient failure may be retried, a definite or a last one not.
FailAttempt ==
    /\ pc = "dispatched"
    /\ \E transient \in BOOLEAN :
        IF transient /\ attempt =< MaxRetries
        THEN /\ log' = Append(log, "model.attempt.error")
             /\ pc' = "backoff"
        ELSE /\ log' = log \o <<"model.attempt.error", "model.error">>
             /\ pc' = "failing"
    /\ UNCHANGED <<clock, budget, attempt, allowed, wakeAt, reply, calls, reported>>

\* After a terminal failure the cap, if it is the cause, is the one reported.
GiveUp ==
    /\ pc = "failing"
    /\ Guarded(Checked(budget, clock), "failed", <<"cap.fired">>)
    /\ budget'.fired = NoCap => UNCHANGED log
    /\ UNCHANGED <<clock, attempt, allowed, wakeAt, reply, calls, reported>>

\* Mutant: a retry that does not fit in the time left is dropped without an error.
BackoffSkipsSilently ==
    /\ pc = "backoff"
    /\ budget' = Checked(budget, clock)
    /\ IF budget'.fired # NoCap THEN pc' = "capped" /\ log' = Append(log, "cap.fired")
       ELSE IF MaxWallSeconds - clock =< Delay(attempt)
       THEN pc' = "failed" /\ UNCHANGED log
       ELSE pc' = "sleeping" /\ log' = Append(log, "model.retry.scheduled")
    /\ wakeAt' = clock + Delay(attempt)
    /\ UNCHANGED <<clock, attempt, allowed, reply, calls, reported>>

\* A retry is scheduled only if its backoff fits in the wall time left.
Backoff ==
    /\ pc = "backoff"
    /\ budget' = Checked(budget, clock)
    /\ IF budget'.fired # NoCap THEN pc' = "capped" /\ log' = Append(log, "cap.fired")
       ELSE IF MaxWallSeconds - clock =< Delay(attempt)
       THEN pc' = "failed" /\ log' = log \o <<"model.retry.skipped", "model.error">>
       ELSE pc' = "sleeping" /\ log' = Append(log, "model.retry.scheduled")
    /\ wakeAt' = clock + Delay(attempt)
    /\ UNCHANGED <<clock, attempt, allowed, reply, calls, reported>>

Wake ==
    /\ pc = "sleeping" /\ clock >= wakeAt
    /\ pc' = "ready"
    /\ attempt' = attempt + 1
    /\ UNCHANGED <<clock, budget, allowed, wakeAt, reply, log, calls, reported>>

\* Mutant: a response that came after a retry is charged for every attempt.
ChargePerAttempt ==
    LET u == reply.usage
        b == Charged([budget EXCEPT !.tokens = @ + (attempt - 1) * (u.input + u.output)], u)
    IN  /\ pc = "received"
        /\ IF ~ValidUsage(u)
           THEN /\ log' = log \o <<"model.response", "model.error">> /\ pc' = "failed"
                /\ UNCHANGED <<budget, reported>>
           ELSE /\ budget' = b
                /\ log' = log \o IF b.fired = NoCap THEN <<"model.response">>
                                 ELSE <<"model.response", "cap.fired">>
                /\ pc' = IF b.fired = NoCap THEN "charged" ELSE "capped"
                /\ reported' = reported + u.input + u.output
        /\ UNCHANGED <<clock, attempt, allowed, wakeAt, reply, calls>>

\* The response is charged, then audited, then a cap it fired is raised.  A usage that
\* does not add up is audited at no cost and ends the call.
Charge ==
    LET u == reply.usage
        b == Charged(budget, u)
    IN  /\ pc = "received"
        /\ IF ~ValidUsage(u)
           THEN /\ log' = log \o <<"model.response", "model.error">> /\ pc' = "failed"
                /\ UNCHANGED <<budget, reported>>
           ELSE /\ budget' = b
                /\ log' = log \o IF b.fired = NoCap THEN <<"model.response">>
                                 ELSE <<"model.response", "cap.fired">>
                /\ pc' = IF b.fired = NoCap THEN "charged" ELSE "capped"
                /\ reported' = reported + u.input + u.output
        /\ UNCHANGED <<clock, attempt, allowed, wakeAt, reply, calls>>

\* _validate_response: identity, status and calls, and no more output than was allowed.
Valid(r) == r.sound /\ r.usage.output =< allowed

\* The deadline comes first, then the response.
Accept ==
    /\ pc = "charged"
    /\ budget' = Checked(budget, clock)
    /\ IF budget'.fired # NoCap THEN pc' = "capped" /\ log' = Append(log, "cap.fired")
       ELSE IF Valid(reply)
       THEN pc' = "accepted" /\ UNCHANGED log
       ELSE pc' = "failed" /\ log' = Append(log, "model.error")
    /\ UNCHANGED <<clock, attempt, allowed, wakeAt, reply, calls, reported>>

Provider == Respond \/ FailAttempt

Own == AuditRequest \/ Dispatch \/ GiveUp \/ Backoff \/ Wake \/ Charge \/ Accept

Next == Tick \/ Preflight \/ Own \/ Provider

\* The caller's thread runs on, the clock too, and a dispatched attempt ends because it
\* is bounded by the wall time left.
Fairness == WF_vars(Own) /\ WF_vars(Provider) /\ WF_vars(Tick)

Spec == Init /\ [][Next]_vars /\ Fairness

-------------------------------------------------------------------------------

TypeOK ==
    /\ clock \in Nat /\ budget \in BudgetState
    /\ pc \in Places /\ attempt \in 0..(MaxRetries + 1)
    /\ allowed \in Nat /\ wakeAt \in Nat
    /\ reply \in [usage : Usage, sound : BOOLEAN]
    /\ log \in Seq(Event) /\ calls \in 0..MaxCalls /\ reported \in Nat

\* _verify_model_transaction_window: what may stand between options and response.
WindowAccepted(between) ==
    \/ between = <<>>
    \/ LET failed == (Len(between) - 1) \div 2
       IN  /\ Len(between) >= 3 /\ Len(between) % 2 = 1 /\ failed =< 2
           /\ \A k \in 1..failed : /\ between[2 * k - 1] = "model.attempt.error"
                                   /\ between[2 * k] = "model.retry.scheduled"
           /\ between[Len(between)] = "model.retry.succeeded"

(* A call that is accepted has left exactly the events that the offline verifier
   requires of a transaction of a complete run, whatever was retried. *)
AcceptedCallVerifies ==
    pc = "accepted" =>
        /\ SubSeq(log, 1, 2) = <<"model.request", "model.request.options">>
        /\ log[Len(log)] = "model.response"
        /\ WindowAccepted(SubSeq(log, 3, Len(log) - 1))

(* Each response is charged once however often its request was dispatched: the budget's
   tokens are those of the responses on record, which the verifier adds up again. *)
ChargesMatchLog == budget.tokens = reported

(* A call that does not end accepted is on record as a failure, except a cap that fired
   before anything was sent, which the agent records. *)
FailureIsRecorded ==
    /\ pc = "failed" => log[Len(log)] = "model.error"
    /\ pc = "capped" => log = <<>> \/ log[Len(log)] = "cap.fired"

(* No attempt is dispatched once a cap has fired or the deadline has passed, also after
   a backoff ("a cap firing before dispatch ends the run as PARTIAL"). *)
NoDispatchAfterCap ==
    [][pc' = "dispatched" /\ pc # "dispatched" =>
            budget.fired = NoCap /\ clock < MaxWallSeconds]_vars

(* Every call ends: attempts and backoffs are bounded. *)
CallEnds == pc \notin Ended \cup {"idle"} ~> pc \in Ended

\* Seen from the agent, a call is one ModelCall.
Abstract == INSTANCE ModelCall WITH
    call <- IF pc \in Ended \cup {"idle", "charged"} THEN pc ELSE "out"
ImplementsModelCall == Abstract!Spec
===============================================================================
