------------------------- MODULE ModelTransactionProofs -------------------------
(* One call of AuditedModel.create, for any usages, estimates, caps, prices and numbers of
   calls: what it leaves in the log, what it charges, and that it implements ModelCall.
   The inductive invariant says, for each place of a call, what it has logged so far. *)
EXTENDS ModelTransaction, BudgetProofs, SequenceTheorems, TLAPS

(* A call goes on only with a budget whose caps have not fired. *)
Open == pc # "capped" => budget.fired = NoCap

(* A failed attempt that is retried is attempt number MaxRetries or an earlier one. *)
Retries ==
    /\ pc \in {"backoff", "sleeping"} => attempt =< MaxRetries
    /\ pc # "idle" => attempt >= 1

(* The log begins with the request, and with an error and a schedule for each of the n - 1
   attempts before attempt n. *)
Attempts(n) ==
    /\ Len(log) >= 2 * n /\ log[1] = "model.request" /\ log[2] = "model.request.options"
    /\ \A k \in 1..(n - 1) : /\ log[2 * k + 1] = "model.attempt.error"
                             /\ log[2 * k + 2] = "model.retry.scheduled"

(* After the attempts comes the recovery, if the last was a retry. *)
Answered ==
    /\ Attempts(attempt)
    /\ attempt > 1 => Len(log) > 2 * attempt
                      /\ log[2 * attempt + 1] = "model.retry.succeeded"

(* The number of events up to the answer. *)
Length == IF attempt > 1 THEN 2 * attempt + 1 ELSE 2

(* What is in the log, by the place of the call. *)
Recorded ==
    /\ pc = "preflighted" => log = <<>> /\ attempt = 1
    /\ pc \in {"ready", "dispatched"} => Len(log) = 2 * attempt /\ Attempts(attempt)
    /\ pc = "backoff" => /\ Len(log) = 2 * attempt + 1 /\ Attempts(attempt)
                         /\ log[2 * attempt + 1] = "model.attempt.error"
    /\ pc = "sleeping" => Len(log) = 2 * attempt + 2 /\ Attempts(attempt + 1)
    /\ pc = "received" => Len(log) = Length /\ Answered /\ reply.usage \in Usages
    /\ pc \in {"charged", "accepted"} =>
        Len(log) = Length + 1 /\ Answered /\ log[Length + 1] = "model.response"
    /\ pc = "failing" => log[Len(log)] = "model.error"

IInv == TypeOK /\ Open /\ Retries /\ Recorded /\ ChargesMatchLog /\ FailureIsRecorded

-------------------------------------------------------------------------------

\* A backoff of the first or the second retry is a number of ticks.
LEMMA DelayNat == ASSUME NEW n \in 1..2 PROVE Delay(n) \in Nat
<1>1. 2^0 = 1 /\ 2^1 = 2
  OBVIOUS
<1>2. CASE n = 1
  <2>1. n - 1 = 0
    BY <1>2
  <2> QED BY <1>1, <2>1 DEF Delay
<1>3. CASE n = 2
  <2>1. n - 1 = 1
    BY <1>3
  <2> QED BY <1>1, <2>1 DEF Delay
<1> QED BY <1>2, <1>3

\* Two events more: the sequence, its length and its elements.
LEMMA TwoMore ==
    ASSUME NEW l \in Seq(Event), NEW a \in Event, NEW b \in Event
    PROVE  /\ l \o <<a, b>> \in Seq(Event)
           /\ Len(l \o <<a, b>>) = Len(l) + 2
           /\ \A i \in 1..Len(l) : (l \o <<a, b>>)[i] = l[i]
           /\ (l \o <<a, b>>)[Len(l) + 1] = a /\ (l \o <<a, b>>)[Len(l) + 2] = b
<1>1. <<a, b>> \in Seq(Event) /\ Len(<<a, b>>) = 2 /\ <<a, b>>[1] = a /\ <<a, b>>[2] = b
  OBVIOUS
<1> DEFINE two == <<a, b>>
<1>2. Len(l) \in Nat
  OBVIOUS
<1> HIDE DEF two
<1>3. /\ l \o two \in Seq(Event) /\ Len(l \o two) = Len(l) + 2
      /\ \A i \in 1..(Len(l) + 2) :
            (l \o two)[i] = IF i =< Len(l) THEN l[i] ELSE two[i - Len(l)]
  BY <1>1, ConcatProperties DEF two
<1>4. two[1] = a /\ two[2] = b
  BY <1>1 DEF two
<1>5. /\ (Len(l) + 1) - Len(l) = 1 /\ (Len(l) + 2) - Len(l) = 2
      /\ Len(l) + 1 \in 1..(Len(l) + 2) /\ Len(l) + 2 \in 1..(Len(l) + 2)
      /\ ~(Len(l) + 1 =< Len(l)) /\ ~(Len(l) + 2 =< Len(l))
      /\ \A i \in 1..Len(l) : i \in 1..(Len(l) + 2) /\ i =< Len(l)
  BY <1>2
<1> QED BY <1>3, <1>4, <1>5 DEF two

\* One event more, as an Append or as a concatenation.
LEMMA OneMore ==
    ASSUME NEW l \in Seq(Event), NEW a \in Event
    PROVE  /\ Append(l, a) \in Seq(Event) /\ l \o <<a>> = Append(l, a)
           /\ Len(Append(l, a)) = Len(l) + 1
           /\ \A i \in 1..Len(l) : Append(l, a)[i] = l[i]
           /\ Append(l, a)[Len(l) + 1] = a
  BY AppendProperties, AppendIsConcat

\* The attempts on record stay where they are when events are added.
LEMMA AttemptsStay ==
    ASSUME NEW n \in Nat \ {0}, Attempts(n), log \in Seq(Event), log' \in Seq(Event),
           Len(log) =< Len(log)', \A i \in 1..Len(log) : log'[i] = log[i]
    PROVE  Attempts(n)'
<1>1. Len(log) \in Nat /\ Len(log)' \in Nat
  OBVIOUS
<1>2. 1 \in 1..Len(log) /\ 2 \in 1..Len(log)
  BY <1>1 DEF Attempts
<1>3. \A k \in 1..(n - 1) : 2 * k + 1 \in 1..Len(log) /\ 2 * k + 2 \in 1..Len(log)
  BY <1>1 DEF Attempts
<1>4. Len(log)' >= 2 * n
  BY <1>1 DEF Attempts
<1> QED BY <1>2, <1>3, <1>4 DEF Attempts

\* A call that ends with a cap or an error is on record when its last event says so.
LEMMA EndsOnRecord ==
    ASSUME IInv, TypeOK', pc # "idle", attempt' = attempt, ChargesMatchLog',
           \/ pc' = "capped" /\ (log' = <<>> \/ log'[Len(log')] = "cap.fired")
           \/ pc' = "failed" /\ budget'.fired = NoCap /\ log'[Len(log')] = "model.error"
    PROVE  IInv'
<1>1. Open' /\ Recorded' /\ FailureIsRecorded'
  BY DEF Open, Recorded, FailureIsRecorded
<1>2. Retries'
  BY DEF IInv, Retries
<1> QED BY <1>1, <1>2 DEF IInv

\* The invariant holds before the first call.
LEMMA InitHolds == Init => IInv
<1> SUFFICES ASSUME Init PROVE IInv
  OBVIOUS
<1>1. TypeOK
  <2>1. budget \in BudgetState
    BY DEF Init, FreshBudget, BudgetState
  <2>2. reply \in [usage : Usage, sound : BOOLEAN]
    BY DEF Init, NoReply, Usage
  <2>3. log \in Seq(Event)
    BY EmptySeq DEF Init
  <2> QED BY <2>1, <2>2, <2>3, TransactionAssumption DEF Init, TypeOK, Places
<1>2. Open /\ Retries /\ Recorded /\ FailureIsRecorded
  BY DEF Init, FreshBudget, Open, Retries, Recorded, FailureIsRecorded
<1>3. ChargesMatchLog
  BY DEF Init, FreshBudget, ChargesMatchLog
<1> QED BY <1>1, <1>2, <1>3 DEF IInv

\* Only the clock moves.
LEMMA TickKeeps == ASSUME IInv, Tick PROVE IInv'
<1>1. TypeOK'
  BY DEF IInv, TypeOK, Tick
<1> QED BY <1>1 DEF IInv, Tick, Open, Retries, Recorded, Answered, Attempts, Length,
                    ChargesMatchLog, FailureIsRecorded

\* What the preflight admits leaves the counters as they were, and grants some output.
LEMMA PreflightGrants ==
    ASSUME NEW b \in BudgetState, NEW est \in Nat, NEW preferred \in Nat, NEW minimum \in Nat,
           NEW now \in Nat
    PROVE  /\ Prepared(b, est, preferred, minimum, now) \in BudgetState
           /\ Prepared(b, est, preferred, minimum, now).tokens = b.tokens
           /\ Prepared(b, est, preferred, minimum, now).fired = NoCap =>
                /\ Prepared(b, est, preferred, minimum, now) = b
                /\ Allowance(Prepared(b, est, preferred, minimum, now), est, preferred) \in Nat
<1> DEFINE r == Prepared(b, est, preferred, minimum, now)
           a == Allowance(b, est, preferred)
<1>1. /\ r \in BudgetState /\ r.tokens = b.tokens
      /\ r.fired = NoCap => r = b /\ a \in Nat /\ b.tokens + est + a =< MaxTotalTokens
  BY PreparedLemma
<1> HIDE DEF r
<1> QED BY <1>1 DEF r

\* The budget and the allowance that a preflight leaves behind.
LEMMA PreflightEffect ==
    ASSUME budget \in BudgetState, clock \in Nat, Preflight
    PROVE  /\ budget' \in BudgetState /\ budget'.tokens = budget.tokens /\ allowed' \in Nat
           /\ pc' = IF budget'.fired = NoCap THEN "preflighted" ELSE "capped"
<1>1. \A est, preferred, minimum \in Nat :
        LET b == Prepared(budget, est, preferred, minimum, clock)
        IN  /\ b \in BudgetState /\ b.tokens = budget.tokens
            /\ b.fired = NoCap => b = budget /\ Allowance(b, est, preferred) \in Nat
  BY PreflightGrants
<1>2. \A n \in Estimates \cup Outputs : n \in Nat
  BY TransactionAssumption
<1>3. PICK est \in Estimates, preferred \in Outputs, minimum \in Outputs :
        LET b == Prepared(budget, est, preferred, minimum, clock)
        IN  /\ budget' = b
            /\ pc' = IF b.fired = NoCap THEN "preflighted" ELSE "capped"
            /\ allowed' = IF b.fired = NoCap THEN Allowance(b, est, preferred) ELSE 0
  BY DEF Preflight
<1>4. est \in Nat /\ preferred \in Nat /\ minimum \in Nat
  BY <1>2
<1> DEFINE b == Prepared(budget, est, preferred, minimum, clock)
<1>5. /\ b \in BudgetState /\ b.tokens = budget.tokens
      /\ b.fired = NoCap => b = budget /\ Allowance(b, est, preferred) \in Nat
  BY <1>1, <1>4
<1> QED BY <1>3, <1>5

\* The preflight leaves the counters alone, and a call begins without events.
LEMMA PreflightKeeps == ASSUME IInv, Preflight PROVE IInv'
<1>1. budget \in BudgetState /\ clock \in Nat /\ budget.tokens = reported
  BY DEF IInv, TypeOK, ChargesMatchLog
<1>2. /\ budget' \in BudgetState /\ budget'.tokens = budget.tokens /\ allowed' \in Nat
      /\ pc' = IF budget'.fired = NoCap THEN "preflighted" ELSE "capped"
  BY <1>1, PreflightEffect
<1>3. /\ calls < MaxCalls /\ calls' = calls + 1 /\ attempt' = 1 /\ log' = <<>>
      /\ reply' = NoReply /\ clock' = clock /\ wakeAt' = wakeAt /\ reported' = reported
  BY DEF Preflight
<1>4. TypeOK'
  <2>1. NoReply \in [usage : Usage, sound : BOOLEAN]
    BY DEF NoReply, Usage
  <2>2. /\ pc' \in Places /\ log' \in Seq(Event)
        /\ reply' \in [usage : Usage, sound : BOOLEAN]
    BY <1>2, <1>3, <2>1 DEF Places
  <2>3. calls' \in 0..MaxCalls /\ attempt' \in 0..(MaxRetries + 1)
    BY <1>3, TransactionAssumption DEF IInv, TypeOK
  <2> QED BY <1>2, <1>3, <2>2, <2>3 DEF IInv, TypeOK
<1>5. Open' /\ ChargesMatchLog'
  BY <1>1, <1>2, <1>3 DEF Open, ChargesMatchLog
<1>6. Retries' /\ Recorded' /\ FailureIsRecorded'
  BY <1>2, <1>3 DEF Retries, Recorded, FailureIsRecorded
<1> QED BY <1>4, <1>5, <1>6 DEF IInv

\* The request goes on record with its options, or a cap stops it before.
LEMMA AuditRequestKeeps == ASSUME IInv, AuditRequest PROVE IInv'
<1>1. budget \in BudgetState /\ clock \in Nat /\ budget.tokens = reported /\ pc = "preflighted"
  BY DEF IInv, TypeOK, ChargesMatchLog, AuditRequest
<1>2. budget' \in BudgetState /\ budget'.tokens = reported'
  BY <1>1, CheckedLemma DEF AuditRequest
<1>3. log = <<>> /\ attempt = 1 /\ attempt' = 1
  BY <1>1 DEF IInv, Recorded, AuditRequest
<1> DEFINE request == <<"model.request", "model.request.options">>
<1>4. request \in Seq(Event) /\ Len(request) = 2 /\ request[1] = "model.request"
      /\ request[2] = "model.request.options"
  BY DEF Event
<1> HIDE DEF request
<1>5. CASE budget'.fired # NoCap
  <2>1. pc' = "capped" /\ log' = log
    BY <1>5 DEF AuditRequest
  <2>2. TypeOK'
    BY <1>2, <2>1 DEF IInv, TypeOK, AuditRequest, Places
  <2> QED BY <1>1, <1>2, <1>3, <2>1, <2>2, EndsOnRecord DEF ChargesMatchLog
<1>6. CASE budget'.fired = NoCap
  <2>1. pc' = "ready" /\ log' = request
    BY <1>6 DEF AuditRequest, request
  <2>2. TypeOK'
    BY <1>2, <1>4, <2>1 DEF IInv, TypeOK, AuditRequest, Places
  <2>3. Open' /\ Retries' /\ ChargesMatchLog' /\ FailureIsRecorded'
    BY <1>2, <1>3, <1>6, <2>1 DEF Open, Retries, ChargesMatchLog, FailureIsRecorded
  <2>4. Attempts(attempt)' /\ Len(log') = 2 * attempt'
    BY <1>3, <1>4, <2>1 DEF Attempts
  <2>5. Recorded'
    BY <2>1, <2>4 DEF Recorded
  <2> QED BY <2>2, <2>3, <2>5 DEF IInv
<1> QED BY <1>5, <1>6

\* An attempt is sent, or the deadline has passed and the cap ends the call.
LEMMA DispatchKeeps == ASSUME IInv, Dispatch PROVE IInv'
<1>1. /\ budget \in BudgetState /\ clock \in Nat /\ budget.tokens = reported /\ pc = "ready"
      /\ log \in Seq(Event)
  BY DEF IInv, TypeOK, ChargesMatchLog, Dispatch
<1>2. budget' \in BudgetState /\ budget'.tokens = reported'
  BY <1>1, CheckedLemma DEF Dispatch, Guarded
<1>3. CASE budget'.fired # NoCap
  <2>1. pc' = "capped" /\ log' = Append(log, "cap.fired")
    BY <1>1, <1>3, OneMore DEF Dispatch, Guarded, Event
  <2>2. log' \in Seq(Event) /\ log'[Len(log')] = "cap.fired"
    BY <1>1, <2>1, OneMore DEF Event
  <2>3. TypeOK'
    BY <1>2, <2>1, <2>2 DEF IInv, TypeOK, Dispatch, Places
  <2> QED BY <1>1, <1>2, <2>1, <2>2, <2>3, EndsOnRecord DEF ChargesMatchLog, Dispatch
<1>4. CASE budget'.fired = NoCap
  <2>1. pc' = "dispatched" /\ log' = log /\ attempt' = attempt
    BY <1>4 DEF Dispatch, Guarded
  <2>2. TypeOK'
    BY <1>2, <2>1 DEF IInv, TypeOK, Dispatch, Places
  <2>3. Open' /\ ChargesMatchLog' /\ FailureIsRecorded'
    BY <1>2, <1>4, <2>1 DEF Open, ChargesMatchLog, FailureIsRecorded
  <2>4. Retries' /\ Recorded'
    BY <1>1, <2>1 DEF IInv, Retries, Recorded, Attempts
  <2> QED BY <2>2, <2>3, <2>4 DEF IInv
<1> QED BY <1>3, <1>4

\* The provider answers, with whatever usage: the events of the attempts stay, the recovery
\* of a retry is added.
LEMMA RespondKeeps == ASSUME IInv, Respond PROVE IInv'
<1>1. /\ pc = "dispatched" /\ log \in Seq(Event) /\ Len(log) = 2 * attempt
      /\ Attempts(attempt) /\ attempt \in Nat \ {0}
  BY TransactionAssumption DEF IInv, TypeOK, Retries, Recorded, Respond
<1>2. PICK u \in Usages, sound \in BOOLEAN : reply' = [usage |-> u, sound |-> sound]
  BY DEF Respond
<1>3. reply' \in [usage : Usage, sound : BOOLEAN]
  BY <1>2, TransactionAssumption
<1>4. /\ pc' = "received" /\ attempt' = attempt /\ budget' = budget /\ reported' = reported
      /\ log' = IF attempt > 1 THEN Append(log, "model.retry.succeeded") ELSE log
  BY DEF Respond
<1>5. /\ log' \in Seq(Event) /\ Len(log') = Len(log) + (IF attempt > 1 THEN 1 ELSE 0)
      /\ \A i \in 1..Len(log) : log'[i] = log[i]
      /\ attempt > 1 => log'[Len(log) + 1] = "model.retry.succeeded"
  BY <1>1, <1>4, OneMore DEF Event
<1>6. Attempts(attempt)'
  <2>1. Len(log) =< Len(log')
    BY <1>1, <1>5
  <2>2. attempt' = attempt
    BY <1>4
  <2>3. Attempts(attempt)' 
    BY <1>1, <1>5, <2>1, <2>2, AttemptsStay DEF Attempts
  <2> QED BY <2>3
<1>7. TypeOK'
  BY <1>3, <1>4, <1>5 DEF IInv, TypeOK, Respond, Places
<1>8. Open' /\ Retries' /\ ChargesMatchLog' /\ FailureIsRecorded'
  BY <1>1, <1>4 DEF IInv, Open, Retries, ChargesMatchLog, FailureIsRecorded
<1>9. Answered' /\ Len(log') = Length'
  BY <1>1, <1>4, <1>5, <1>6 DEF Answered, Length
<1>10. Recorded'
  BY <1>2, <1>4, <1>9 DEF Recorded
<1> QED BY <1>7, <1>8, <1>10 DEF IInv

\* An attempt raises: its error is added, and the call goes on to a backoff or gives up.
LEMMA FailAttemptKeeps == ASSUME IInv, FailAttempt PROVE IInv'
<1>1. /\ pc = "dispatched" /\ log \in Seq(Event) /\ Len(log) = 2 * attempt
      /\ Attempts(attempt) /\ attempt \in Nat \ {0}
  BY TransactionAssumption DEF IInv, TypeOK, Retries, Recorded, FailAttempt
<1>2. attempt' = attempt /\ budget' = budget /\ reported' = reported
  BY DEF FailAttempt
<1>3. CASE /\ attempt =< MaxRetries /\ pc' = "backoff"
           /\ log' = Append(log, "model.attempt.error")
  <2>1. /\ log' \in Seq(Event) /\ Len(log') = Len(log) + 1
        /\ \A i \in 1..Len(log) : log'[i] = log[i]
        /\ log'[Len(log) + 1] = "model.attempt.error"
    BY <1>1, <1>3, OneMore DEF Event
  <2>2. TypeOK'
    BY <1>2, <1>3, <2>1 DEF IInv, TypeOK, FailAttempt, Places
  <2>3. Open' /\ Retries' /\ ChargesMatchLog' /\ FailureIsRecorded'
    BY <1>1, <1>2, <1>3 DEF IInv, Open, Retries, ChargesMatchLog, FailureIsRecorded
  <2>4. Len(log) =< Len(log')
    BY <1>1, <2>1
  <2>5. Attempts(attempt)'
    BY <1>1, <1>2, <2>1, <2>4, AttemptsStay DEF Attempts
  <2>6. Len(log') = 2 * attempt' + 1 /\ log'[2 * attempt' + 1] = "model.attempt.error"
    BY <1>1, <1>2, <2>1
  <2>7. Recorded'
    BY <1>3, <2>5, <2>6 DEF Recorded
  <2> QED BY <2>2, <2>3, <2>7 DEF IInv
<1>4. CASE pc' = "failing" /\ log' = log \o <<"model.attempt.error", "model.error">>
  <2>1. log' \in Seq(Event) /\ log'[Len(log')] = "model.error"
    BY <1>1, <1>4, TwoMore DEF Event
  <2>2. TypeOK'
    BY <1>2, <1>4, <2>1 DEF IInv, TypeOK, FailAttempt, Places
  <2>3. Open' /\ Retries' /\ ChargesMatchLog' /\ FailureIsRecorded' /\ Recorded'
    BY <1>1, <1>2, <1>4, <2>1
       DEF IInv, Open, Retries, ChargesMatchLog, FailureIsRecorded, Recorded
  <2> QED BY <2>2, <2>3 DEF IInv
<1> QED BY <1>3, <1>4 DEF FailAttempt

\* A terminal failure already on record stays the last event, unless a cap is the cause.
LEMMA GiveUpKeeps == ASSUME IInv, GiveUp PROVE IInv'
<1>1. /\ budget \in BudgetState /\ clock \in Nat /\ budget.tokens = reported /\ pc = "failing"
      /\ log \in Seq(Event) /\ log[Len(log)] = "model.error"
  BY DEF IInv, TypeOK, ChargesMatchLog, Recorded, GiveUp
<1>2. budget' \in BudgetState /\ budget'.tokens = reported' /\ attempt' = attempt
  BY <1>1, CheckedLemma DEF GiveUp, Guarded
<1>3. CASE budget'.fired # NoCap
  <2>1. pc' = "capped" /\ log' = Append(log, "cap.fired")
    BY <1>1, <1>3, OneMore DEF GiveUp, Guarded, Event
  <2>2. log' \in Seq(Event) /\ log'[Len(log')] = "cap.fired"
    BY <1>1, <2>1, OneMore DEF Event
  <2>3. TypeOK'
    BY <1>2, <2>1, <2>2 DEF IInv, TypeOK, GiveUp, Places
  <2> QED BY <1>1, <1>2, <2>1, <2>2, <2>3, EndsOnRecord DEF ChargesMatchLog
<1>4. CASE budget'.fired = NoCap
  <2>1. pc' = "failed" /\ log' = log
    BY <1>4 DEF GiveUp, Guarded
  <2>2. TypeOK'
    BY <1>2, <2>1 DEF IInv, TypeOK, GiveUp, Places
  <2> QED BY <1>1, <1>2, <1>4, <2>1, <2>2, EndsOnRecord DEF ChargesMatchLog
<1> QED BY <1>3, <1>4

\* A retry is scheduled, skipped for want of time, or stopped by the deadline.
LEMMA BackoffKeeps == ASSUME IInv, Backoff PROVE IInv'
<1>1. /\ budget \in BudgetState /\ clock \in Nat /\ budget.tokens = reported /\ pc = "backoff"
      /\ log \in Seq(Event) /\ attempt \in Nat \ {0} /\ attempt =< MaxRetries
      /\ Len(log) = 2 * attempt + 1 /\ Attempts(attempt)
      /\ log[2 * attempt + 1] = "model.attempt.error"
  BY TransactionAssumption DEF IInv, TypeOK, ChargesMatchLog, Retries, Recorded, Backoff
<1>2. budget' \in BudgetState /\ budget'.tokens = reported' /\ attempt' = attempt
  BY <1>1, CheckedLemma DEF Backoff
<1>3. wakeAt' \in Nat
  <2>1. attempt \in 1..2
    BY <1>1, TransactionAssumption
  <2>2. Delay(attempt) \in Nat
    BY <2>1, DelayNat
  <2> QED BY <1>1, <2>2 DEF Backoff
<1>4. CASE pc' = "capped" /\ log' = Append(log, "cap.fired")
  <2>1. log' \in Seq(Event) /\ log'[Len(log')] = "cap.fired"
    BY <1>1, <1>4, OneMore DEF Event
  <2>2. TypeOK'
    BY <1>2, <1>3, <1>4, <2>1 DEF IInv, TypeOK, Backoff, Places
  <2> QED BY <1>1, <1>2, <1>4, <2>1, <2>2, EndsOnRecord DEF ChargesMatchLog
<1>5. CASE /\ budget'.fired = NoCap /\ pc' = "failed"
           /\ log' = log \o <<"model.retry.skipped", "model.error">>
  <2>1. log' \in Seq(Event) /\ log'[Len(log')] = "model.error"
    BY <1>1, <1>5, TwoMore DEF Event
  <2>2. TypeOK'
    BY <1>2, <1>3, <1>5, <2>1 DEF IInv, TypeOK, Backoff, Places
  <2> QED BY <1>1, <1>2, <1>5, <2>1, <2>2, EndsOnRecord DEF ChargesMatchLog
<1>6. CASE /\ budget'.fired = NoCap /\ pc' = "sleeping"
           /\ log' = Append(log, "model.retry.scheduled")
  <2>1. /\ log' \in Seq(Event) /\ Len(log') = Len(log) + 1
        /\ \A i \in 1..Len(log) : log'[i] = log[i]
        /\ log'[Len(log) + 1] = "model.retry.scheduled"
    BY <1>1, <1>6, OneMore DEF Event
  <2>2. TypeOK'
    BY <1>2, <1>3, <1>6, <2>1 DEF IInv, TypeOK, Backoff, Places
  <2>3. Open' /\ Retries' /\ ChargesMatchLog' /\ FailureIsRecorded'
    BY <1>1, <1>2, <1>6 DEF Open, Retries, ChargesMatchLog, FailureIsRecorded
  <2>4. Len(log) =< Len(log')
    BY <1>1, <2>1
  <2>5. Attempts(attempt)'
    BY <1>1, <1>2, <2>1, <2>4, AttemptsStay DEF Attempts
  <2>6. Len(log') = 2 * attempt + 2 /\ 2 * attempt + 1 \in 1..Len(log)
    BY <1>1, <2>1
  <2>7. log'[2 * attempt + 1] = "model.attempt.error"
        /\ log'[2 * attempt + 2] = "model.retry.scheduled"
    BY <1>1, <2>1, <2>6
  <2>8. Attempts(attempt + 1)'
    <3>1. \A k \in 1..((attempt + 1) - 1) : k \in 1..(attempt - 1) \/ k = attempt
      BY <1>1
    <3>2. Len(log') >= 2 * (attempt + 1)
      BY <1>1, <2>6
    <3> QED BY <1>2, <2>5, <2>7, <3>1, <3>2 DEF Attempts
  <2>9. Recorded'
    BY <1>2, <1>6, <2>6, <2>8 DEF Recorded, Attempts
  <2> QED BY <2>2, <2>3, <2>9 DEF IInv
<1> QED BY <1>4, <1>5, <1>6 DEF Backoff

\* The backoff is over: the next attempt finds its predecessors on record.
LEMMA WakeKeeps == ASSUME IInv, Wake PROVE IInv'
<1>1. /\ pc = "sleeping" /\ attempt \in Nat \ {0} /\ attempt =< MaxRetries
      /\ Len(log) = 2 * attempt + 2 /\ Attempts(attempt + 1)
      /\ pc' = "ready" /\ attempt' = attempt + 1 /\ log' = log
  BY TransactionAssumption DEF IInv, TypeOK, Retries, Recorded, Wake
<1>2. TypeOK'
  BY <1>1, TransactionAssumption DEF IInv, TypeOK, Wake, Places
<1>3. Open' /\ Retries' /\ ChargesMatchLog' /\ FailureIsRecorded'
  BY <1>1 DEF IInv, Open, Retries, ChargesMatchLog, FailureIsRecorded, Wake
<1>4. Recorded'
  <2>1. Len(log') = 2 * attempt'
    BY <1>1
  <2>2. Attempts(attempt)'
    BY <1>1 DEF Attempts
  <2> QED BY <1>1, <2>1, <2>2 DEF Recorded
<1> QED BY <1>2, <1>3, <1>4 DEF IInv

\* A valid usage is charged once and counted once as reported; an invalid one is neither.
LEMMA ChargeKeeps == ASSUME IInv, Charge PROVE IInv'
<1> DEFINE u == reply.usage
           b == Charged(budget, u)
<1>1. /\ budget \in BudgetState /\ budget.fired = NoCap /\ budget.tokens = reported
      /\ pc = "received" /\ reported \in Nat /\ u \in Usage
      /\ log \in Seq(Event) /\ attempt \in Nat \ {0} /\ Len(log) = Length /\ Answered
  BY TransactionAssumption
     DEF IInv, TypeOK, Open, ChargesMatchLog, Retries, Recorded, Charge
<1>2. attempt' = attempt
  BY DEF Charge
<1>3. ASSUME ValidUsage(u)
      PROVE  b \in BudgetState /\ b.tokens = reported + u.input + u.output
             /\ reported + u.input + u.output \in Nat
  <2>1. b \in BudgetState /\ b.tokens = budget.tokens + u.input + u.output
    <3> HIDE DEF u
    <3> QED BY <1>1, <1>3, ChargedLemma
  <2>2. u.input \in Nat /\ u.output \in Nat
    BY <1>1 DEF Usage
  <2> QED BY <1>1, <2>1, <2>2
<1>4. CASE ~ValidUsage(u)
  <2>1. /\ pc' = "failed" /\ log' = log \o <<"model.response", "model.error">>
        /\ budget' = budget /\ reported' = reported
    BY <1>4 DEF Charge
  <2>2. log' \in Seq(Event) /\ log'[Len(log')] = "model.error"
    BY <1>1, <2>1, TwoMore DEF Event
  <2>3. TypeOK'
    BY <2>1, <2>2 DEF IInv, TypeOK, Charge, Places
  <2> QED BY <1>1, <1>2, <2>1, <2>2, <2>3, EndsOnRecord DEF ChargesMatchLog
<1> HIDE DEF b
<1>5. CASE ValidUsage(u) /\ b.fired # NoCap
  <2>1. /\ pc' = "capped" /\ log' = log \o <<"model.response", "cap.fired">>
        /\ budget' = b /\ reported' = reported + u.input + u.output
    BY <1>5 DEF Charge, b
  <2>2. log' \in Seq(Event) /\ log'[Len(log')] = "cap.fired"
    BY <1>1, <2>1, TwoMore DEF Event
  <2>3. TypeOK'
    BY <1>3, <1>5, <2>1, <2>2 DEF IInv, TypeOK, Charge, Places
  <2>4. ChargesMatchLog'
    BY <1>3, <1>5, <2>1 DEF ChargesMatchLog
  <2> QED BY <1>1, <1>2, <2>1, <2>2, <2>3, <2>4, EndsOnRecord
<1>6. CASE ValidUsage(u) /\ b.fired = NoCap
  <2>1. /\ pc' = "charged" /\ log' = Append(log, "model.response")
        /\ budget' = b /\ reported' = reported + u.input + u.output
    BY <1>1, <1>6, OneMore DEF Charge, b, Event
  <2>2. /\ log' \in Seq(Event) /\ Len(log') = Len(log) + 1
        /\ \A i \in 1..Len(log) : log'[i] = log[i]
        /\ log'[Len(log) + 1] = "model.response"
    BY <1>1, <2>1, OneMore DEF Event
  <2>3. TypeOK'
    BY <1>3, <1>6, <2>1, <2>2 DEF IInv, TypeOK, Charge, Places
  <2>4. Open' /\ Retries' /\ ChargesMatchLog' /\ FailureIsRecorded'
    BY <1>1, <1>2, <1>3, <1>6, <2>1
       DEF IInv, Open, Retries, ChargesMatchLog, FailureIsRecorded
  <2>5. Attempts(attempt)'
    <3>1. Len(log) =< Len(log')
      BY <1>1, <2>2
    <3> QED BY <1>1, <1>2, <2>2, <3>1, AttemptsStay DEF Answered, Attempts
  <2>6. attempt > 1 => 2 * attempt + 1 \in 1..Len(log) /\ Len(log') > 2 * attempt
    BY <1>1, <2>2 DEF Length
  <2>7. Answered'
    BY <1>1, <1>2, <2>2, <2>5, <2>6 DEF Answered
  <2>8. Len(log') = Length' + 1 /\ log'[Length' + 1] = "model.response"
    BY <1>1, <1>2, <2>2 DEF Length
  <2>9. Recorded'
    BY <2>1, <2>7, <2>8 DEF Recorded
  <2> QED BY <2>3, <2>4, <2>9 DEF IInv
<1> QED BY <1>4, <1>5, <1>6

\* The deadline, then the response: a refusal of either kind is on record.
LEMMA AcceptKeeps == ASSUME IInv, Accept PROVE IInv'
<1>1. /\ budget \in BudgetState /\ clock \in Nat /\ budget.tokens = reported /\ pc = "charged"
      /\ log \in Seq(Event)
  BY DEF IInv, TypeOK, ChargesMatchLog, Accept
<1>2. budget' \in BudgetState /\ budget'.tokens = reported' /\ attempt' = attempt
  BY <1>1, CheckedLemma DEF Accept
<1>3. CASE \/ pc' = "capped" /\ log' = Append(log, "cap.fired")
           \/ budget'.fired = NoCap /\ pc' = "failed" /\ log' = Append(log, "model.error")
  <2>1. /\ log' \in Seq(Event)
        /\ \/ pc' = "capped" /\ log'[Len(log')] = "cap.fired"
           \/ budget'.fired = NoCap /\ pc' = "failed" /\ log'[Len(log')] = "model.error"
    BY <1>1, <1>3, OneMore DEF Event
  <2>2. TypeOK'
    BY <1>2, <1>3, <2>1 DEF IInv, TypeOK, Accept, Places
  <2> QED BY <1>1, <1>2, <2>1, <2>2, EndsOnRecord DEF ChargesMatchLog
<1>4. CASE budget'.fired = NoCap /\ pc' = "accepted" /\ log' = log
  <2>1. TypeOK'
    BY <1>2, <1>4 DEF IInv, TypeOK, Accept, Places
  <2>2. Open' /\ Retries' /\ ChargesMatchLog' /\ FailureIsRecorded'
    BY <1>1, <1>2, <1>4 DEF IInv, Open, Retries, ChargesMatchLog, FailureIsRecorded
  <2>3. Recorded'
    BY <1>1, <1>2, <1>4 DEF IInv, Recorded, Answered, Attempts, Length
  <2> QED BY <2>1, <2>2, <2>3 DEF IInv
<1> QED BY <1>3, <1>4 DEF Accept

\* Every step keeps the invariant.
LEMMA StepKeeps == ASSUME IInv, [Next]_vars PROVE IInv'
<1>1. CASE UNCHANGED vars
  BY <1>1 DEF IInv, TypeOK, Open, Retries, Recorded, Answered, Attempts, Length,
              ChargesMatchLog, FailureIsRecorded, vars
<1>2. CASE Tick
  BY <1>2, TickKeeps
<1>3. CASE Preflight
  BY <1>3, PreflightKeeps
<1>4. CASE Own
  BY <1>4, AuditRequestKeeps, DispatchKeeps, GiveUpKeeps, BackoffKeeps, WakeKeeps,
     ChargeKeeps, AcceptKeeps DEF Own
<1>5. CASE Provider
  BY <1>5, RespondKeeps, FailAttemptKeeps DEF Provider
<1> QED BY <1>1, <1>2, <1>3, <1>4, <1>5 DEF Next

-------------------------------------------------------------------------------

\* The inductive invariant of a call of AuditedModel.create.
THEOREM Inductive == Spec => []IInv
  BY InitHolds, StepKeeps, PTL DEF Spec

\* Every variable keeps its type.
THEOREM TypeCorrect == Spec => []TypeOK
<1>1. IInv => TypeOK
  BY DEF IInv
<1> QED BY Inductive, <1>1, PTL

(* However often a request was retried, its response is charged once: the tokens of the
   budget are those of the responses on record. *)
THEOREM ChargedOnce == Spec => []ChargesMatchLog
<1>1. IInv => ChargesMatchLog
  BY DEF IInv
<1> QED BY Inductive, <1>1, PTL

(* A call that ends without an accepted response has said so in the log, unless a cap
   stopped it before it sent anything. *)
THEOREM FailureRecorded == Spec => []FailureIsRecorded
<1>1. IInv => FailureIsRecorded
  BY DEF IInv
<1> QED BY Inductive, <1>1, PTL

\* What stands between the options and the response is what the verifier accepts there.
LEMMA WindowHolds ==
    ASSUME log \in Seq(Event), attempt \in 1..3, Len(log) = Length + 1, Answered
    PROVE  WindowAccepted(SubSeq(log, 3, Len(log) - 1))
<1> DEFINE w == SubSeq(log, 3, Len(log) - 1)
<1>1. CASE attempt = 1
  <2>1. Len(log) - 1 = 2
    BY <1>1 DEF Length
  <2>2. w = <<>>
    BY <2>1, SubSeqEmpty
  <2> QED BY <2>2 DEF WindowAccepted
<1>2. CASE attempt > 1
  <2>1. Len(log) - 1 = 2 * attempt + 1 /\ Len(log) = 2 * attempt + 2
    BY <1>2 DEF Length
  <2>2. \A i \in 3..(Len(log) - 1) : log[i] \in Event
    BY <2>1
  <2>3. /\ Len(w) = 2 * attempt - 1
        /\ \A i \in 1..(2 * attempt - 1) : w[i] = log[i + 2]
    <3> DEFINE last == Len(log) - 1
    <3>1. last \in Int /\ last = 2 * attempt + 1
      BY <2>1
    <3> HIDE DEF last
    <3>2. /\ Len(SubSeq(log, 3, last)) = IF 3 =< last THEN last - 3 + 1 ELSE 0
          /\ \A i \in 1..(last - 3 + 1) : SubSeq(log, 3, last)[i] = log[3 + i - 1]
      BY <2>2, <3>1, SubSeqProperties DEF last
    <3>3. \A i \in Int : 3 + i - 1 = i + 2
      OBVIOUS
    <3>4. 3 =< last /\ last - 3 + 1 = 2 * attempt - 1
      BY <1>2, <3>1
    <3> QED BY <3>2, <3>3, <3>4 DEF last
  <2> HIDE DEF w
  <2>4. /\ (Len(w) - 1) \div 2 = attempt - 1
        /\ Len(w) >= 3 /\ Len(w) % 2 = 1 /\ attempt - 1 =< 2
    <3>1. CASE attempt = 2
      <4>1. Len(w) = 3
        BY <2>3, <3>1
      <4> QED BY ONLY <3>1, <4>1
    <3>2. CASE attempt = 3
      <4>1. Len(w) = 5
        BY <2>3, <3>2
      <4> QED BY ONLY <3>2, <4>1
    <3> QED BY <1>2, <3>1, <3>2
  <2>6. ASSUME NEW k \in 1..(attempt - 1)
        PROVE  w[2 * k - 1] = "model.attempt.error" /\ w[2 * k] = "model.retry.scheduled"
    <3>1. /\ 2 * k - 1 \in 1..(2 * attempt - 1) /\ 2 * k \in 1..(2 * attempt - 1)
          /\ (2 * k - 1) + 2 = 2 * k + 1
      BY <1>2
    <3>2. w[2 * k - 1] = log[2 * k + 1] /\ w[2 * k] = log[2 * k + 2]
      BY <2>3, <3>1
    <3> QED BY <3>2 DEF Answered, Attempts
  <2>7. w[Len(w)] = "model.retry.succeeded"
    <3>1. 2 * attempt - 1 \in 1..(2 * attempt - 1) /\ (2 * attempt - 1) + 2 = 2 * attempt + 1
      BY <1>2
    <3>2. w[Len(w)] = log[2 * attempt + 1]
      BY <2>3, <3>1
    <3> QED BY <1>2, <3>2 DEF Answered
  <2>8. WindowAccepted(w)
    BY <2>4, <2>6, <2>7 DEF WindowAccepted
  <2> QED BY <2>8 DEF w
<1> QED BY <1>1, <1>2

(* An accepted call has left exactly the events that the offline verifier requires of a
   model transaction (_verify_model_transaction_window), whatever was retried. *)
THEOREM AcceptedVerifies == Spec => []AcceptedCallVerifies
<1>1. IInv => AcceptedCallVerifies
  <2> SUFFICES ASSUME IInv, pc = "accepted" PROVE AcceptedCallVerifies
    BY DEF AcceptedCallVerifies
  <2>1. /\ log \in Seq(Event) /\ attempt \in 1..3 /\ Len(log) = Length + 1
        /\ Answered /\ log[Length + 1] = "model.response"
    BY TransactionAssumption DEF IInv, TypeOK, Retries, Recorded
  <2>2. WindowAccepted(SubSeq(log, 3, Len(log) - 1))
    BY <2>1, WindowHolds
  <2>3. SubSeq(log, 1, 2) = <<"model.request", "model.request.options">>
    <3> DEFINE s == SubSeq(log, 1, 2)
               request == <<"model.request", "model.request.options">>
    <3>1. /\ request \in Seq(Event) /\ Len(request) = 2
          /\ request[1] = "model.request" /\ request[2] = "model.request.options"
      BY DEF Event
    <3>2. Len(log) >= 3 /\ log[1] = "model.request" /\ log[2] = "model.request.options"
      BY <2>1 DEF Answered, Attempts, Length
    <3>3. \A i \in 1..2 : log[i] \in Event
      BY <2>1, <3>2
    <3>4. s \in Seq(Event) /\ Len(s) = 2 /\ \A i \in 1..2 : s[i] = log[1 + i - 1]
      BY <3>3, SubSeqProperties
    <3>5. s[1] = log[1] /\ s[2] = log[2]
      BY <3>4
    <3> HIDE DEF s, request
    <3>6. \A i \in 1..2 : s[i] = request[i]
      BY <3>1, <3>2, <3>5
    <3>7. s = request
      BY <3>1, <3>4, <3>6, SeqEqual
    <3> QED BY <3>7 DEF s, request
  <2>4. log[Len(log)] = "model.response"
    BY <2>1
  <2> QED BY <2>2, <2>3, <2>4 DEF AcceptedCallVerifies
<1> QED BY Inductive, <1>1, PTL

(* No attempt, first or retried, is dispatched after a cap has fired or the deadline has
   passed: the wall is looked at before each. *)
THEOREM DispatchedInTime == Spec => NoDispatchAfterCap
<1> DEFINE A == pc' = "dispatched" /\ pc # "dispatched" =>
                    budget.fired = NoCap /\ clock < MaxWallSeconds
<1>1. TypeOK /\ [Next]_vars => [A]_vars
  <2> SUFFICES ASSUME TypeOK, [Next]_vars, pc' = "dispatched", pc # "dispatched"
               PROVE  budget.fired = NoCap /\ clock < MaxWallSeconds
    OBVIOUS
  <2>1. Dispatch
    BY DEF vars, Next, Own, Provider, Tick, Preflight, AuditRequest, GiveUp, Backoff, Wake,
           Charge, Accept, Respond, FailAttempt, Guarded
  <2>2. Checked(budget, clock).fired = NoCap
    BY <2>1 DEF Dispatch, Guarded
  <2> QED BY <2>2, CapConfigAssumption DEF TypeOK, BudgetState, Checked, Fire, NoCap
<1> QED BY TypeCorrect, <1>1, PTL DEF Spec, NoDispatchAfterCap

-------------------------------------------------------------------------------

\* The budget of the abstract call is the same: both read the same constants.
LEMMA SameArithmetic ==
    /\ Abstract!FreshBudget = FreshBudget /\ Abstract!NoCap = NoCap
    /\ \A b, now : Abstract!Checked(b, now) = Checked(b, now)
    /\ \A b, e, p, m, now : Abstract!Prepared(b, e, p, m, now) = Prepared(b, e, p, m, now)
    /\ \A u : Abstract!ValidUsage(u) = ValidUsage(u)
    /\ \A b, u : Abstract!Charged(b, u) = Charged(b, u)
<1>1. Abstract!NoCap = NoCap /\ \A b, kind : Abstract!Fire(b, kind) = Fire(b, kind)
  BY DEF Abstract!NoCap, NoCap, Abstract!Fire, Fire
<1>2. Abstract!FreshBudget = FreshBudget
  BY <1>1 DEF Abstract!FreshBudget, FreshBudget
<1>3. \A b, now : Abstract!Checked(b, now) = Checked(b, now)
  BY <1>1 DEF Abstract!Checked, Checked
<1>4. \A i : Abstract!InputFactor(i) = InputFactor(i) /\ Abstract!OutputRate(i) = OutputRate(i)
  BY DEF Abstract!InputFactor, InputFactor, Abstract!OutputRate, OutputRate
<1>5. \A b, e : Abstract!Affordable(b, e) = Affordable(b, e)
  BY <1>4 DEF Abstract!Affordable, Affordable
<1>6. \A b, e, p : Abstract!Allowance(b, e, p) = Allowance(b, e, p)
  BY <1>5 DEF Abstract!Allowance, Allowance, Abstract!Least, Least
<1>7. \A b, e, p, m, now : Abstract!Prepared(b, e, p, m, now) = Prepared(b, e, p, m, now)
  BY <1>1, <1>3, <1>5, <1>6 DEF Abstract!Prepared, Prepared
<1>8. \A u : Abstract!ValidUsage(u) = ValidUsage(u)
  BY DEF Abstract!ValidUsage, ValidUsage
<1>9. \A u : Abstract!UsageCost(u) = UsageCost(u)
  BY <1>4 DEF Abstract!UsageCost, UsageCost
<1>10. \A b, u : Abstract!Charged(b, u) = Charged(b, u)
  BY <1>1, <1>9 DEF Abstract!Charged, Charged
<1> QED BY <1>1, <1>2, <1>3, <1>7, <1>8, <1>10

\* What the agent sees of a place.
Seen(place) == IF place \in Ended \cup {"idle", "charged"} THEN place ELSE "out"

\* A call of the budget that fires no cap leaves it as it was; one that does ends the call.
LEMMA LooksAtTheClock ==
    ASSUME IInv, budget' = Checked(budget, clock), clock' = clock, Seen(pc) = "out",
           IF budget'.fired = NoCap THEN Seen(pc') \in {"out", "failed"} ELSE pc' = "capped"
    PROVE  [Abstract!Next]_(Abstract!vars)
<1> DEFINE call == IF pc \in Ended \cup {"idle", "charged"} THEN pc ELSE "out"
<1>1. call = Seen(pc) /\ call' = Seen(pc')
  BY DEF Seen
<1>2. CASE budget'.fired # NoCap
  <2>1. call' = "capped"
    BY <1>1, <1>2 DEF Seen, Ended
  <2>2. Abstract!Expire
    BY <1>1, <1>2, <2>1, SameArithmetic DEF Abstract!Expire
  <2> QED BY <2>2 DEF Abstract!Next
<1>3. CASE budget'.fired = NoCap
  <2>1. budget' = budget
    BY <1>3, CheckedLemma DEF IInv, TypeOK
  <2>2. CASE call' = "failed"
    <3>1. Abstract!Fail
      BY <1>1, <2>1, <2>2 DEF Abstract!Fail
    <3> QED BY <3>1 DEF Abstract!Next
  <2>3. CASE call' = "out"
    BY <1>1, <2>1, <2>3 DEF Abstract!vars
  <2> QED BY <1>1, <1>3, <2>2, <2>3
<1> QED BY <1>2, <1>3

(* Seen from the agent, a call with all its retries is one ModelCall: at most one charge,
   and no way out but accepted, failed, or a cap that has fired. *)
THEOREM ImplementsCall == Spec => ImplementsModelCall
<1> DEFINE call == IF pc \in Ended \cup {"idle", "charged"} THEN pc ELSE "out"
<1>1. Init => Abstract!Init
  BY SameArithmetic DEF Init, Abstract!Init
<1>2. IInv /\ [Next]_vars => [Abstract!Next]_(Abstract!vars)
  <2> SUFFICES ASSUME IInv, [Next]_vars PROVE [Abstract!Next]_(Abstract!vars)
    OBVIOUS
  <2>1. CASE UNCHANGED vars
    BY <2>1 DEF vars, Abstract!vars
  <2>2. CASE Tick
    <3>1. Abstract!Tick
      BY <2>2 DEF Tick, Abstract!Tick
    <3> QED BY <3>1 DEF Abstract!Next
  <2>3. CASE Preflight
    <3>1. Abstract!Send
      <4>1. call \in {"idle", "accepted"} /\ clock' = clock
        BY <2>3 DEF Preflight, Ended
      <4>2. \E est \in Estimates, preferred, minimum \in Outputs :
                budget' = Prepared(budget, est, preferred, minimum, clock)
        BY <2>3 DEF Preflight
      <4>3. call' = IF budget'.fired = NoCap THEN "out" ELSE "capped"
        BY <2>3 DEF Preflight, Ended
      <4> QED BY <4>1, <4>2, <4>3, SameArithmetic DEF Abstract!Send
    <3> QED BY <3>1 DEF Abstract!Next
  <2>4. CASE AuditRequest
    BY <2>4, LooksAtTheClock DEF AuditRequest, Seen, Ended
  <2>5. CASE Dispatch
    BY <2>5, LooksAtTheClock DEF Dispatch, Guarded, Seen, Ended
  <2>6. CASE GiveUp
    BY <2>6, LooksAtTheClock DEF GiveUp, Guarded, Seen, Ended
  <2>7. CASE Backoff
    BY <2>7, LooksAtTheClock DEF Backoff, Seen, Ended
  <2>8. CASE Wake \/ Provider
    BY <2>8 DEF Wake, Provider, Respond, FailAttempt, Abstract!vars, Ended
  <2>9. CASE Charge
    <3>1. call = "out" /\ clock' = clock /\ reply.usage \in Usages
      BY <2>9 DEF Charge, Ended, IInv, Recorded
    <3>2. CASE ValidUsage(reply.usage)
      <4>1. budget' = Charged(budget, reply.usage)
            /\ call' = IF budget'.fired = NoCap THEN "charged" ELSE "capped"
        BY <2>9, <3>2 DEF Charge, Ended
      <4>2. Abstract!Charge
        BY <3>1, <3>2, <4>1, SameArithmetic DEF Abstract!Charge
      <4> QED BY <4>2 DEF Abstract!Next
    <3>3. CASE ~ValidUsage(reply.usage)
      <4>1. Abstract!Fail
        BY <2>9, <3>1, <3>3 DEF Charge, Ended, Abstract!Fail
      <4> QED BY <4>1 DEF Abstract!Next
    <3> QED BY <3>2, <3>3
  <2>10. CASE Accept
    <3>1. Abstract!Accept
      BY <2>10, SameArithmetic DEF Accept, Ended, Abstract!Accept
    <3> QED BY <3>1 DEF Abstract!Next
  <2> QED BY <2>1, <2>2, <2>3, <2>4, <2>5, <2>6, <2>7, <2>8, <2>9, <2>10 DEF Next, Own
<1> QED BY <1>1, <1>2, Inductive, PTL DEF Spec, ImplementsModelCall, Abstract!Spec
===============================================================================
