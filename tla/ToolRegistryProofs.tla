-------------------------- MODULE ToolRegistryProofs --------------------------
(* For every set of call ids, every batch, pool size and cap: the safety of
   ToolRegistry.  The inductive invariant says how far a call can have come with the
   receipts it has, which calls the controller, the queue and the budget account for,
   and what has been collected of the batch. *)
EXTENDS ToolRegistry, BudgetProofs, FiniteSetTheorems, TLAPS

\* The statuses of a call that ran, and its two events.
Ran == Statuses \ {"capped"}
Receipt(s) == <<"started", s>>

(* A call is admitted before it runs, its receipt follows its progress, and one that was
   admitted and failed holds the exception that its future will raise. *)
CallFits(id) ==
    /\ stage[id] = "unknown" => id \notin admitted /\ log[id] \in {<<>>, <<"started">>}
    /\ stage[id] \in {"queued", "starting"} => id \in admitted /\ log[id] = <<>>
    /\ stage[id] \in {"launching", "granted", "running", "held", "settling"} =>
            id \in admitted /\ log[id] = <<"started">>
    /\ stage[id] \notin {"settling", "done", "failed"} => status[id] = None
    /\ stage[id] \in {"settling", "done"} => status[id] \in Ran
    /\ stage[id] = "done" => id \in admitted /\ log[id] = Receipt(status[id])
    /\ stage[id] = "failed" /\ id \notin admitted => log[id] = Receipt("capped")
    /\ stage[id] = "failed" /\ id \in admitted =>
            /\ failure[id] # None
            /\ log[id] \in {<<>>, <<"started">>} \cup {Receipt(s) : s \in Ran}
            /\ failure[id] # "audit" => \E s \in Ran : log[id] = Receipt(s)

CallsFit == \A id \in Ids : CallFits(id)

(* An id that no batch claimed, or whose batch is not reserved yet, has left no trace. *)
NewFits ==
    \A id \in Ids : id \notin claimed \/ (phase = "claimed" /\ id \in Range(batch)) =>
        stage[id] = "unknown" /\ log[id] = <<>>

(* Claimed batches share no id, and each is admitted whole or not at all. *)
BatchesFit ==
    /\ admitted \subseteq claimed
    /\ \A b \in batches :
        /\ Range(b) \subseteq claimed
        /\ Range(b) \subseteq admitted \/ Range(b) \cap admitted = {}
    /\ \A b, c \in batches : b = c \/ Range(b) \cap Range(c) = {}
    /\ phase # "idle" => batch \in batches
    /\ phase = "claimed" => IsInjective(batch)
    /\ phase \in {"claimed", "refusing"} => Range(batch) \cap admitted = {}
    /\ phase = "running" => Range(batch) \subseteq admitted

(* Only calls of the batch that is running are queued or being run. *)
OnlyOwn ==
    \A id \in Ids : stage[id] \in Active \cup {"queued"} =>
        phase = "running" /\ id \in Range(batch)

(* What waits is queued for the pool, or still without its capped receipt. *)
WaitingFits ==
    phase \in {"refusing", "running"} =>
        /\ IsInjective(waiting)
        /\ Range(waiting) \subseteq Range(batch)
        /\ \A id \in Range(waiting) :
            /\ log[id] = <<>>
            /\ stage[id] = IF phase = "running" THEN "queued" ELSE "unknown"

(* What has been collected stands in its place and is done, and all of it is there once
   the batch has returned. *)
ResultsFit ==
    /\ error = None =>
        \A i \in DOMAIN batch :
            ordered[i] # None => ordered[i] = batch[i] /\ stage[batch[i]] = "done"
    /\ phase = "idle" /\ error = None => \A i \in DOMAIN batch : ordered[i] # None

(* The budget has counted exactly the calls that were admitted. *)
CountFits == budget.toolCalls = Cardinality(admitted)

IInv ==
    /\ TypeOK
    /\ CallsFit
    /\ NewFits
    /\ BatchesFit
    /\ OnlyOwn
    /\ WaitingFits
    /\ ResultsFit
    /\ CountFits

-------------------------------------------------------------------------------
\* Facts about sequences of calls and events.

\* What a queue of calls holds, without its head and as a whole.
LEMMA Queue ==
    ASSUME NEW s \in Seq(Ids)
    PROVE  /\ Range(s) \subseteq Ids
           /\ \A i \in DOMAIN s : s[i] \in Range(s)
           /\ s # <<>> => /\ Head(s) \in Ids /\ Head(s) \in Range(s)
                          /\ Tail(s) \in Seq(Ids) /\ Range(Tail(s)) \subseteq Range(s)
                          /\ IsInjective(s) =>
                                IsInjective(Tail(s)) /\ Head(s) \notin Range(Tail(s))
<1>1. Range(s) \subseteq Ids /\ \A i \in DOMAIN s : s[i] \in Range(s)
  BY DEF Range
<1>2. ASSUME s # <<>>
      PROVE  /\ Head(s) \in Ids /\ Head(s) \in Range(s)
             /\ Tail(s) \in Seq(Ids) /\ Range(Tail(s)) \subseteq Range(s)
             /\ IsInjective(s) => IsInjective(Tail(s)) /\ Head(s) \notin Range(Tail(s))
  <2>1. Len(s) \in Nat \ {0} /\ DOMAIN s = 1..Len(s)
    BY <1>2
  <2>2. Head(s) = s[1] /\ 1 \in DOMAIN s
    BY <1>2, <2>1
  <2>3. /\ Tail(s) \in Seq(Ids) /\ DOMAIN Tail(s) = 1..(Len(s) - 1)
        /\ \A i \in 1..(Len(s) - 1) : Tail(s)[i] = s[i + 1]
    BY <1>2, <2>1
  <2>4. \A i \in DOMAIN Tail(s) : i + 1 \in DOMAIN s /\ i + 1 # 1
    BY <2>1, <2>3
  <2>5. Range(Tail(s)) \subseteq Range(s)
    BY <2>3, <2>4 DEF Range
  <2>6. ASSUME IsInjective(s) PROVE IsInjective(Tail(s)) /\ Head(s) \notin Range(Tail(s))
    <3>1. \A i, j \in DOMAIN s : s[i] = s[j] => i = j
      BY <2>6 DEF IsInjective
    <3>2. Head(s) \notin Range(Tail(s))
      BY <2>2, <2>3, <2>4, <3>1 DEF Range
    <3>3. \A i, j \in DOMAIN Tail(s) : Tail(s)[i] = Tail(s)[j] => i = j
      BY <2>1, <2>3, <2>4, <3>1
    <3> QED
      BY <3>2, <3>3 DEF IsInjective
  <2> QED
    BY <1>1, <2>2, <2>3, <2>5, <2>6
<1> QED
  BY <1>1, <1>2

\* A batch without a repeated id has as many ids as calls.
LEMMA BatchSize ==
    ASSUME NEW s \in Seq(Ids), IsInjective(s)
    PROVE  IsFiniteSet(Range(s)) /\ Cardinality(Range(s)) = Len(s) /\ Len(s) \in Nat
<1>1. DOMAIN s = 1..Len(s) /\ Len(s) \in Nat
  OBVIOUS
<1>2. s \in Bijection(1..Len(s), Range(s))
  BY <1>1 DEF Bijection, Injection, Surjection, IsInjective, Range
<1>3. ExistsBijection(1..Len(s), Range(s))
  BY <1>2 DEF ExistsBijection
<1>4. IsFiniteSet(1..Len(s)) /\ Cardinality(1..Len(s)) = Len(s)
  BY <1>1, FS_Interval
<1> QED
  BY <1>1, <1>3, <1>4, FS_Bijection

\* The receipts of a call, from its log.
LEMMA EventLog ==
    /\ Append(<<>>, "started") = <<"started">>
    /\ <<>> \o <<"started", "capped">> = Receipt("capped")
    /\ \A s \in Statuses : Append(<<"started">>, s) = Receipt(s)
    /\ <<>> \in Seq(Events) /\ <<"started">> \in Seq(Events)
    /\ \A s \in Statuses : Receipt(s) \in Seq(Events)
<1>1. Append(<<>>, "started") = <<"started">>
  OBVIOUS
<1>2. <<>> \o <<"started", "capped">> = <<"started", "capped">>
  OBVIOUS
<1>3. "started" \in Events /\ Statuses \subseteq Events
  BY DEF Events
<1>4. <<>> \in Seq(Events) /\ <<"started">> \in Seq(Events)
  BY <1>3
<1>5. ASSUME NEW s \in Statuses PROVE <<"started", s>> \in Seq(Events)
  BY <1>3
<1>6. ASSUME NEW s \in Statuses PROVE Append(<<"started">>, s) = <<"started", s>>
  <2> DEFINE a == Append(<<"started">>, s)
             r == <<"started", s>>
  <2>1. a \in Seq(Events) /\ Len(a) = 2 /\ a[1] = "started" /\ a[2] = s
    BY <1>3, <1>4
  <2>2. r \in Seq(Events) /\ Len(r) = 2 /\ r[1] = "started" /\ r[2] = s
    BY <1>5
  <2> HIDE DEF a, r
  <2>3. \A i \in 1..2 : i = 1 \/ i = 2
    OBVIOUS
  <2>4. \A i \in 1..2 : a[i] = r[i]
    BY <2>1, <2>2, <2>3
  <2>5. a \in [1..2 -> Events] /\ r \in [1..2 -> Events]
    BY <2>1, <2>2
  <2>6. a = r
    BY <2>4, <2>5
  <2> QED
    BY <2>6 DEF a, r
<1> QED
  BY <1>1, <1>2, <1>4, <1>5, <1>6 DEF Receipt

\* The outcomes on record in a receipt: none, none yet, one.
LEMMA ReceiptRange ==
    /\ Range(<<>>) \ {"started"} = {}
    /\ Range(<<"started">>) \ {"started"} = {}
    /\ \A s \in Statuses : Range(Receipt(s)) \ {"started"} = {s}
  BY DEF Range, Receipt, Statuses

-------------------------------------------------------------------------------
\* The steps of the invariant.

\* It holds before the first batch.
LEMMA InitIInv == Init => IInv
<1> SUFFICES ASSUME Init PROVE IInv
  OBVIOUS
<1>1. FreshBudget \in BudgetState /\ FreshBudget.toolCalls = 0
  BY DEF FreshBudget, BudgetState, NoCap
<1>2. Busy = {} /\ Cardinality(Busy) =< PoolSize
  <2>1. Busy = {}
    BY DEF Init, Busy, Active
  <2> QED
    BY <2>1, FS_EmptySet, RegistryAssumption
<1>3. TypeOK
  BY <1>1, <1>2 DEF Init, TypeOK, Phases, Stages, Errors, None
<1>4. CallsFit /\ NewFits
  BY DEF Init, CallsFit, CallFits, NewFits
<1>5. BatchesFit /\ OnlyOwn /\ WaitingFits /\ ResultsFit
  BY DEF Init, BatchesFit, OnlyOwn, Active, WaitingFits, ResultsFit
<1>6. CountFits
  BY <1>1, FS_EmptySet DEF Init, CountFits
<1> QED
  BY <1>3, <1>4, <1>5, <1>6 DEF IInv

\* Fewer calls are busy after a step that starts none.
LEMMA BusyShrinks ==
    ASSUME IInv, \A j \in Ids : stage'[j] \in Active => stage[j] \in Active
    PROVE  (Cardinality(Busy) =< PoolSize)'
<1>1. IsFiniteSet(Busy)
  BY FS_Subset, RegistryAssumption DEF Busy
<1>2. Busy' \in SUBSET Busy
  BY DEF Busy
<1>3. Cardinality(Busy') =< Cardinality(Busy) /\ IsFiniteSet(Busy')
  BY <1>1, <1>2, FS_Subset
<1>4. Cardinality(Busy) \in Nat /\ Cardinality(Busy') \in Nat
  BY <1>1, <1>3, FS_CardinalityType
<1> QED
  BY <1>3, <1>4, RegistryAssumption DEF IInv, TypeOK

\* A step of a pool thread touches nothing but its own call and the budget's cap.
LEMMA CallStep ==
    ASSUME IInv, NEW id \in Ids, stage[id] \in Active, UNCHANGED <<clock, control>>,
           budget' \in BudgetState, budget'.toolCalls = budget.toolCalls,
           stage' \in [Ids -> Stages], status' \in [Ids -> Statuses \cup {None}],
           failure' \in [Ids -> Errors], log' \in [Ids -> Seq(Events)], late' \subseteq Ids,
           stage'[id] \in Active \cup Settled,
           \A j \in Ids \ {id} : /\ stage'[j] = stage[j] /\ status'[j] = status[j]
                                 /\ failure'[j] = failure[j] /\ log'[j] = log[j],
           CallFits(id)'
    PROVE  IInv'
<1> USE DEF control
<1>1. (Cardinality(Busy) =< PoolSize)'
  BY BusyShrinks
<1>2. TypeOK'
  BY <1>1 DEF IInv, TypeOK
<1>3. CallsFit'
  BY DEF IInv, CallsFit, CallFits
<1>4. phase = "running" /\ id \in Range(batch) /\ stage[id] \notin {"unknown", "queued", "done"}
  BY DEF IInv, OnlyOwn, Active
<1>5. NewFits'
  <2>1. id \in claimed
    BY <1>4 DEF IInv, BatchesFit
  <2> QED
    BY <1>4, <2>1 DEF IInv, NewFits
<1>6. BatchesFit'
  BY DEF IInv, BatchesFit
<1>7. OnlyOwn'
  BY <1>4 DEF IInv, OnlyOwn
<1>8. WaitingFits'
  <2>1. Range(waiting) \subseteq Ids
    BY Queue DEF IInv, TypeOK
  <2> QED
    BY <1>4, <2>1 DEF IInv, WaitingFits
<1>9. ResultsFit'
  <2>1. \A i \in DOMAIN batch : batch[i] \in Ids
    BY DEF IInv, TypeOK
  <2> QED
    BY <1>4, <2>1 DEF IInv, ResultsFit
<1>10. CountFits'
  BY DEF IInv, CountFits
<1> QED
  BY <1>2, <1>3, <1>5, <1>6, <1>7, <1>8, <1>9, <1>10 DEF IInv

\* Every step of a pool thread is such a step.
LEMMA WorkStep ==
    ASSUME IInv, NEW id \in Ids, Work(id) \/ Hold(id)
    PROVE  IInv'
<1>1. /\ clock \in Nat /\ budget \in BudgetState
      /\ stage \in [Ids -> Stages] /\ status \in [Ids -> Statuses \cup {None}]
      /\ failure \in [Ids -> Errors] /\ log \in [Ids -> Seq(Events)] /\ late \subseteq Ids
      /\ CallFits(id)
  BY DEF IInv, TypeOK, CallsFit
<1> DEFINE r == Checked(budget, clock)
<1>2. r \in BudgetState /\ r.toolCalls = budget.toolCalls
  BY <1>1, CheckedLemma
<1> HIDE DEF r
<1>3. CASE Start(id)
  <2>1. log[id] = <<>> /\ id \in admitted
    BY <1>1, <1>3 DEF Start, CallFits
  <2>2. log' = [log EXCEPT ![id] = <<"started">>]
    BY <1>3, <2>1, EventLog DEF Start, Log
  <2>3. CallFits(id)'
    BY <1>1, <1>3, <2>1, <2>2 DEF Start, CallFits, control
  <2> QED
    BY <1>1, <1>3, <2>2, <2>3, CallStep, EventLog DEF Start, Active, Stages
<1>4. CASE Grant(id)
  <2>1. log[id] = <<"started">> /\ id \in admitted /\ log' = log /\ status[id] = None
    BY <1>1, <1>4 DEF Grant, CallFits, Settled
  <2>2. /\ budget' = r
        /\ \/ stage' = [stage EXCEPT ![id] = "granted"] /\ status' = status
           \/ /\ stage' = [stage EXCEPT ![id] = "settling"]
              /\ status' = [status EXCEPT ![id] = "timeout"]
    BY <1>4 DEF Grant, r
  <2>3. CallFits(id)'
    BY <1>1, <1>4, <2>1, <2>2 DEF Grant, CallFits, control, Ran, Statuses, Settled
  <2>4. status' \in [Ids -> Statuses \cup {None}] /\ failure' \in [Ids -> Errors]
    BY <1>1, <1>4 DEF Grant, Statuses, Errors
  <2>5. \A j \in Ids \ {id} : stage'[j] = stage[j] /\ status'[j] = status[j]
                              /\ failure'[j] = failure[j] /\ log'[j] = log[j]
    BY <1>1, <1>4 DEF Grant
  <2>6. stage[id] \in Active /\ UNCHANGED <<clock, control>> /\ late' \subseteq Ids
    BY <1>1, <1>4 DEF Grant, Active
  <2>7. stage' \in [Ids -> Stages] /\ stage'[id] \in Active \cup Settled
    BY <1>1, <2>2 DEF Active, Stages
  <2>8. log' \in [Ids -> Seq(Events)] /\ budget' \in BudgetState
        /\ budget'.toolCalls = budget.toolCalls
    BY <1>1, <1>2, <2>1, <2>2
  <2> QED
    BY <2>3, <2>4, <2>5, <2>6, <2>7, <2>8, CallStep
<1>5. CASE Finish(id)
  <2>1. log[id] = <<"started">> /\ id \in admitted /\ log' = log
    BY <1>1, <1>5 DEF Finish, CallFits
  <2>2. /\ budget' = r
        /\ stage' = [stage EXCEPT ![id] = "settling"]
        /\ \E s \in Ran : status' = [status EXCEPT ![id] = s]
    BY <1>5 DEF Finish, r, Ran, Statuses
  <2>3. CallFits(id)'
    BY <1>1, <1>5, <2>1, <2>2 DEF Finish, CallFits, control
  <2>4. status' \in [Ids -> Statuses \cup {None}] /\ failure' \in [Ids -> Errors]
    BY <1>1, <1>5, <2>2 DEF Finish, Errors, Ran
  <2>5. \A j \in Ids \ {id} : stage'[j] = stage[j] /\ status'[j] = status[j]
                              /\ failure'[j] = failure[j] /\ log'[j] = log[j]
    BY <1>1, <1>5 DEF Finish
  <2>6. stage[id] \in Active /\ UNCHANGED <<clock, control>> /\ late' \subseteq Ids
    BY <1>1, <1>5, <2>4 DEF Finish, Active
  <2>7. stage' \in [Ids -> Stages] /\ stage'[id] \in Active \cup Settled
    BY <1>1, <2>2 DEF Active, Stages
  <2>8. log' \in [Ids -> Seq(Events)] /\ budget' \in BudgetState
        /\ budget'.toolCalls = budget.toolCalls
    BY <1>1, <1>2, <2>1, <2>2
  <2> QED
    BY <2>3, <2>4, <2>5, <2>6, <2>7, <2>8, CallStep
<1>6. CASE Raise(id)
  <2>1. log[id] = <<"started">> /\ id \in admitted /\ log' = log
    BY <1>1, <1>6 DEF Raise, CallFits
  <2>2. CallFits(id)'
    BY <1>1, <1>6, <2>1 DEF Raise, CallFits, control, Ran, Statuses
  <2> QED
    BY <1>1, <1>6, <2>1, <2>2, CallStep DEF Raise, Active, Stages, Statuses
<1>7. CASE Complete(id)
  <2>1. log[id] = <<"started">> /\ id \in admitted /\ status[id] \in Ran
    BY <1>1, <1>7 DEF Complete, CallFits
  <2>2. log' = [log EXCEPT ![id] = Receipt(status[id])] /\ status[id] \in Statuses
    BY <1>7, <2>1, EventLog DEF Complete, Log, Ran
  <2>3. CallFits(id)'
    BY <1>1, <1>7, <2>1, <2>2 DEF Complete, CallFits, control
  <2>4. log' \in [Ids -> Seq(Events)]
    BY <1>1, <2>2, EventLog
  <2> QED
    BY <1>1, <1>7, <2>2, <2>3, <2>4, CallStep DEF Complete, Active, Settled, Stages
<1>8. CASE AuditFails(id)
  <2>1. log[id] \in {<<>>, <<"started">>} /\ id \in admitted /\ log' = log
    BY <1>1, <1>8 DEF AuditFails, CallFits
  <2>2. CallFits(id)'
    BY <1>1, <1>8, <2>1 DEF AuditFails, CallFits, control, None
  <2> QED
    BY <1>1, <1>8, <2>1, <2>2, CallStep DEF AuditFails, Active, Settled, Stages, Errors
<1>9. CASE Launch(id) \/ Hold(id)
  <2>1. /\ stage[id] \in {"granted", "running"} /\ late' \subseteq Ids
        /\ \E s \in {"running", "held"} : stage' = [stage EXCEPT ![id] = s]
        /\ UNCHANGED <<clock, budget, control, status, failure, log>>
    BY <1>1, <1>9 DEF Launch, Hold
  <2>2. CallFits(id)'
    BY <1>1, <2>1 DEF CallFits, control, Settled
  <2>3. stage' \in [Ids -> Stages] /\ stage'[id] \in Active
        /\ \A j \in Ids \ {id} : stage'[j] = stage[j]
    BY <1>1, <2>1 DEF Active, Stages
  <2> QED
    BY <1>1, <2>1, <2>2, <2>3, CallStep DEF Active
<1> QED
  BY <1>3, <1>4, <1>5, <1>6, <1>7, <1>8, <1>9 DEF Work

\* A batch is claimed: its ids are new.
LEMMA SubmitStep ==
    ASSUME IInv, Submit
    PROVE  IInv'
<1>1. PICK b \in Batches : Acceptable(b) /\ batch' = b /\ claimed' = claimed \cup Range(b)
                           /\ batches' = batches \cup {b}
  BY DEF Submit
<1>2. /\ phase = "idle" /\ phase' = "claimed" /\ error' = None
      /\ ordered' = [i \in DOMAIN b |-> None]
      /\ UNCHANGED <<clock, budget, waiting, stage, status, failure, late, log, admitted>>
  BY <1>1 DEF Submit, calls
<1>3. /\ b \in Seq(Ids) /\ Range(b) \subseteq Ids
      /\ IsInjective(b) /\ Range(b) \cap claimed = {}
  BY <1>1, RegistryAssumption, Queue DEF Acceptable
<1>4. TypeOK'
  <2>1. Busy' = Busy
    BY <1>2 DEF Busy
  <2>2. ordered' \in [DOMAIN batch' -> Ids \cup {None}]
    BY <1>1, <1>2
  <2>3. batch' \in Seq(Ids) /\ claimed' \subseteq Ids /\ batches' \subseteq Seq(Ids)
    BY <1>1, <1>3 DEF IInv, TypeOK
  <2> QED
    BY <1>2, <2>1, <2>2, <2>3 DEF IInv, TypeOK, Phases, Errors
<1>5. CallsFit'
  BY <1>2 DEF IInv, CallsFit, CallFits
<1>6. NewFits'
  <2>1. \A id \in Ids : id \notin claimed => stage[id] = "unknown" /\ log[id] = <<>>
    BY DEF IInv, NewFits
  <2> QED
    BY <1>1, <1>2, <1>3, <2>1 DEF NewFits
<1>7. BatchesFit'
  <2>1. \A c \in batches : Range(b) \cap Range(c) = {}
    BY <1>3 DEF IInv, BatchesFit
  <2>2. Range(b) \cap admitted = {}
    BY <1>3 DEF IInv, BatchesFit
  <2> QED
    BY <1>1, <1>2, <1>3, <2>1, <2>2 DEF IInv, BatchesFit
<1>8. OnlyOwn' /\ WaitingFits' /\ ResultsFit' /\ CountFits'
  BY <1>1, <1>2 DEF IInv, OnlyOwn, WaitingFits, ResultsFit, CountFits
<1> QED
  BY <1>4, <1>5, <1>6, <1>7, <1>8 DEF IInv

\* The whole batch is charged and admitted, or none of it.
LEMMA ReserveStep ==
    ASSUME IInv, Reserve
    PROVE  IInv'
<1> DEFINE r == Reserved(budget, Len(batch), clock)
<1>1. /\ phase = "claimed" /\ budget' = r /\ waiting' = batch
      /\ UNCHANGED <<clock, batch, claimed, status, failure, error, ordered, log, late, batches>>
  BY DEF Reserve
<1>2. /\ batch \in Seq(Ids) /\ batch \in batches /\ IsInjective(batch)
      /\ Range(batch) \subseteq Ids /\ Range(batch) \subseteq claimed
      /\ Range(batch) \cap admitted = {}
      /\ \A id \in Range(batch) : stage[id] = "unknown" /\ log[id] = <<>>
  BY <1>1, Queue DEF IInv, TypeOK, BatchesFit, NewFits
<1>3. IsFiniteSet(Range(batch)) /\ Cardinality(Range(batch)) = Len(batch) /\ Len(batch) \in Nat
  BY <1>2, BatchSize
<1>4. /\ r \in BudgetState
      /\ r.fired = NoCap => r.toolCalls = budget.toolCalls + Len(batch)
      /\ r.fired # NoCap => r.toolCalls = budget.toolCalls
  BY <1>3, ReservedLemma DEF IInv, TypeOK
<1>5. \/ /\ r.fired = NoCap /\ phase' = "running" /\ admitted' = admitted \cup Range(batch)
         /\ stage' = [id \in Ids |-> IF id \in Range(batch) THEN "queued" ELSE stage[id]]
      \/ r.fired # NoCap /\ phase' = "refusing" /\ UNCHANGED <<admitted, stage>>
  BY <1>1 DEF Reserve
<1> HIDE DEF r
<1>6. TypeOK'
  <2>1. stage' \in [Ids -> Stages]
    BY <1>5 DEF IInv, TypeOK, Stages
  <2>2. \A j \in Ids : stage'[j] \in Active => stage[j] \in Active
    BY <1>5 DEF Active
  <2>3. (Cardinality(Busy) =< PoolSize)'
    BY <2>2, BusyShrinks
  <2>4. admitted' \subseteq Ids /\ phase' \in Phases
    BY <1>2, <1>5 DEF IInv, TypeOK, Phases
  <2> QED
    BY <1>1, <1>2, <1>4, <2>1, <2>3, <2>4 DEF IInv, TypeOK
<1>7. CallsFit'
  <2> SUFFICES ASSUME NEW id \in Ids PROVE CallFits(id)'
    BY DEF CallsFit
  <2>1. CallFits(id)
    BY DEF IInv, CallsFit
  <2>2. CASE id \in Range(batch) /\ r.fired = NoCap
    <3>1. status'[id] = None
      BY <1>1, <1>2, <2>1, <2>2 DEF CallFits
    <3> QED
      BY <1>1, <1>2, <1>5, <2>2, <3>1 DEF CallFits
  <2>3. CASE ~(id \in Range(batch) /\ r.fired = NoCap)
    <3>1. stage'[id] = stage[id] /\ (id \in admitted' <=> id \in admitted)
      BY <1>5, <2>3
    <3> QED
      BY <1>1, <2>1, <3>1 DEF CallFits
  <2> QED
    BY <2>2, <2>3
<1>8. NewFits'
  BY <1>1, <1>2, <1>5 DEF IInv, NewFits
<1>9. BatchesFit'
  <2>1. \A b \in batches : b = batch \/ Range(b) \cap Range(batch) = {}
    BY <1>2 DEF IInv, BatchesFit
  <2> QED
    BY <1>1, <1>2, <1>5, <2>1 DEF IInv, BatchesFit
<1>10. OnlyOwn'
  BY <1>1, <1>5 DEF IInv, OnlyOwn, Active
<1>11. WaitingFits'
  BY <1>1, <1>2, <1>5 DEF IInv, WaitingFits
<1>12. ResultsFit'
  <2>1. \A i \in DOMAIN batch : batch[i] \in Range(batch)
    BY <1>2, Queue
  <2> QED
    BY <1>1, <1>2, <1>5, <2>1 DEF IInv, ResultsFit
<1>13. CountFits'
  <2>1. IsFiniteSet(admitted) /\ Cardinality(admitted) \in Nat
    BY RegistryAssumption, FS_Subset, FS_CardinalityType DEF IInv, TypeOK
  <2>2. Cardinality(admitted \cup Range(batch)) =
            Cardinality(admitted) + Cardinality(Range(batch)) - Cardinality(admitted \cap Range(batch))
    BY <1>3, <2>1, FS_Union
  <2>3. Cardinality(admitted \cap Range(batch)) = 0
    BY <1>2, FS_EmptySet
  <2>4. budget.toolCalls = Cardinality(admitted)
    BY DEF IInv, CountFits
  <2>5. CASE r.fired = NoCap
    <3>0. admitted' = admitted \cup Range(batch)
      BY <1>5, <2>5
    <3>1. Cardinality(admitted') = Cardinality(admitted) + Len(batch)
      BY ONLY <1>3, <2>1, <2>2, <2>3, <3>0
    <3>2. budget'.toolCalls = Cardinality(admitted) + Len(batch)
      BY <1>1, <1>4, <2>4, <2>5
    <3> QED
      BY <3>1, <3>2 DEF CountFits
  <2>6. CASE r.fired # NoCap
    BY <1>1, <1>4, <1>5, <2>4, <2>6 DEF CountFits
  <2> QED
    BY <2>5, <2>6
<1> QED
  BY <1>6, <1>7, <1>8, <1>9, <1>10, <1>11, <1>12, <1>13 DEF IInv

\* A refused call gets its capped receipt, and waits no more.
LEMMA RefuseStep ==
    ASSUME IInv, Refuse, NEW id \in Ids, id = Head(waiting)
    PROVE  IInv'
<1>1. /\ phase = "refusing" /\ waiting # <<>> /\ waiting' = Tail(waiting)
      /\ log' = [log EXCEPT ![id] = @ \o <<"started", "capped">>]
      /\ status' = [status EXCEPT ![id] = "capped"]
      /\ stage' = [stage EXCEPT ![id] = "failed"]
      /\ UNCHANGED <<clock, budget, phase, batch, claimed, failure, error, ordered, late,
                     admitted, batches>>
  BY DEF Refuse
<1>2. /\ id \in Ids /\ id \in Range(waiting) /\ waiting' \in Seq(Ids)
      /\ Range(waiting') \subseteq Range(waiting) /\ Range(waiting) \subseteq Ids
      /\ IsInjective(waiting) => IsInjective(waiting') /\ id \notin Range(waiting')
  BY <1>1, Queue DEF IInv, TypeOK
<1>3. /\ IsInjective(waiting) /\ id \in Range(batch) /\ stage[id] = "unknown" /\ log[id] = <<>>
      /\ id \notin admitted
  BY <1>1, <1>2 DEF IInv, WaitingFits, BatchesFit
<1>4. log' = [log EXCEPT ![id] = Receipt("capped")]
  BY <1>1, <1>2, <1>3, EventLog DEF IInv, TypeOK
<1>5. TypeOK'
  <2>1. log' \in [Ids -> Seq(Events)] /\ status' \in [Ids -> Statuses \cup {None}]
    BY <1>1, <1>4, EventLog DEF IInv, TypeOK, Statuses
  <2>2. stage' \in [Ids -> Stages]
    BY <1>1 DEF IInv, TypeOK, Stages
  <2>3. (Cardinality(Busy) =< PoolSize)'
    <3>1. \A j \in Ids : stage'[j] \in Active => stage[j] \in Active
      BY <1>1 DEF IInv, TypeOK, Active
    <3> QED
      BY <3>1, BusyShrinks
  <2> QED
    BY <1>1, <1>2, <2>1, <2>2, <2>3 DEF IInv, TypeOK
<1>6. CallsFit'
  <2>1. CallFits(id)'
    BY <1>1, <1>2, <1>3, <1>4 DEF IInv, TypeOK, CallFits
  <2>2. ASSUME NEW j \in Ids \ {id} PROVE CallFits(j)'
    <3>1. stage'[j] = stage[j] /\ log'[j] = log[j] /\ status'[j] = status[j]
      BY <1>1, <1>4 DEF IInv, TypeOK
    <3> QED
      BY <1>1, <3>1 DEF IInv, CallsFit, CallFits
  <2> QED
    BY <2>1, <2>2 DEF CallsFit
<1>7. NewFits'
  <2>1. id \in claimed
    BY <1>1, <1>3 DEF IInv, BatchesFit
  <2> QED
    BY <1>1, <1>4, <2>1 DEF IInv, TypeOK, NewFits
<1>8. BatchesFit' /\ CountFits'
  BY <1>1 DEF IInv, BatchesFit, CountFits
<1>9. OnlyOwn'
  BY <1>1 DEF IInv, TypeOK, OnlyOwn, Active
<1>10. WaitingFits'
  <2>1. \A j \in Range(waiting') : j \in Ids /\ j # id /\ log'[j] = log[j] /\ stage'[j] = stage[j]
    BY <1>1, <1>2, <1>3, <1>4 DEF IInv, TypeOK
  <2> QED
    BY <1>1, <1>2, <1>3, <2>1 DEF IInv, WaitingFits
<1>11. ResultsFit'
  <2>1. \A i \in DOMAIN batch : batch[i] \in Ids
    BY DEF IInv, TypeOK
  <2> QED
    BY <1>1, <1>3, <2>1 DEF IInv, TypeOK, ResultsFit
<1> QED
  BY <1>5, <1>6, <1>7, <1>8, <1>9, <1>10, <1>11 DEF IInv

\* A receipt that cannot be written ends the refusal with that failure.
LEMMA RefuseFailsStep ==
    ASSUME IInv, RefuseFails, NEW id \in Ids, id = Head(waiting)
    PROVE  IInv'
<1>1. /\ phase = "refusing" /\ waiting # <<>> /\ waiting' = <<>> /\ error' = "audit"
      /\ log' = log \/ log' = [log EXCEPT ![id] = Append(@, "started")]
      /\ UNCHANGED <<clock, budget, phase, batch, claimed, ordered, stage, status, failure,
                     late, admitted, batches>>
  BY DEF RefuseFails, Log, calls
<1>2. id \in Ids /\ id \in Range(waiting)
  BY <1>1, Queue DEF IInv, TypeOK
<1>3. /\ id \in Range(batch) /\ stage[id] = "unknown" /\ log[id] = <<>>
      /\ id \notin admitted
  BY <1>1, <1>2 DEF IInv, WaitingFits, BatchesFit
<1>4. log' = log \/ log' = [log EXCEPT ![id] = <<"started">>]
  BY <1>1, <1>2, <1>3, EventLog DEF IInv, TypeOK
<1>5. log' \in [Ids -> Seq(Events)] /\ \A j \in Ids \ {id} : log'[j] = log[j]
  BY <1>4, EventLog DEF IInv, TypeOK
<1>6. TypeOK'
  <2>1. Busy' = Busy
    BY <1>1 DEF Busy
  <2> QED
    BY <1>1, <1>5, <2>1 DEF IInv, TypeOK, Errors
<1>7. CallsFit'
  <2>1. CallFits(id)'
    BY <1>1, <1>2, <1>3, <1>4 DEF IInv, TypeOK, CallsFit, CallFits
  <2>2. ASSUME NEW j \in Ids \ {id} PROVE CallFits(j)'
    BY <1>1, <1>5 DEF IInv, CallsFit, CallFits
  <2> QED
    BY <2>1, <2>2 DEF CallsFit
<1>8. NewFits'
  <2>1. id \in claimed
    BY <1>1, <1>3 DEF IInv, BatchesFit
  <2> QED
    BY <1>1, <1>5, <2>1 DEF IInv, NewFits
<1>9. BatchesFit' /\ CountFits' /\ OnlyOwn'
  BY <1>1 DEF IInv, BatchesFit, CountFits, OnlyOwn
<1>10. WaitingFits'
  <2>1. Range(<<>>) = {} /\ IsInjective(<<>>)
    BY DEF Range, IsInjective
  <2> QED
    BY <1>1, <2>1 DEF WaitingFits
<1>11. ResultsFit'
  BY <1>1 DEF ResultsFit, None
<1> QED
  BY <1>6, <1>7, <1>8, <1>9, <1>10, <1>11 DEF IInv

\* A thread of the pool that is free takes the head of the queue.
LEMMA TakeStep ==
    ASSUME IInv, Take, NEW id \in Ids, id = Head(waiting)
    PROVE  IInv'
<1>1. /\ phase = "running" /\ waiting # <<>> /\ waiting' = Tail(waiting)
      /\ Cardinality(Busy) < Least(PoolSize, Len(batch))
      /\ stage' = [stage EXCEPT ![id] = "starting"]
      /\ UNCHANGED <<clock, budget, phase, batch, claimed, status, failure, error, ordered, log,
                     late, admitted, batches>>
  BY DEF Take
<1>2. /\ id \in Ids /\ id \in Range(waiting) /\ waiting' \in Seq(Ids)
      /\ Range(waiting') \subseteq Range(waiting) /\ Range(waiting) \subseteq Ids
      /\ IsInjective(waiting) => IsInjective(waiting') /\ id \notin Range(waiting')
  BY <1>1, Queue DEF IInv, TypeOK
<1>3. IsInjective(waiting) /\ id \in Range(batch) /\ stage[id] = "queued" /\ log[id] = <<>>
  BY <1>1, <1>2 DEF IInv, WaitingFits
<1>4. TypeOK'
  <2>1. stage' \in [Ids -> Stages]
    BY <1>1 DEF IInv, TypeOK, Active, Stages
  <2>2. Busy' = Busy \cup {id}
    BY <1>1, <1>2 DEF IInv, TypeOK, Busy, Active
  <2>3. IsFiniteSet(Busy) /\ Cardinality(Busy) \in Nat
    BY FS_Subset, FS_CardinalityType, RegistryAssumption DEF Busy
  <2>4. Cardinality(Busy \cup {id}) =
            IF id \in Busy THEN Cardinality(Busy) ELSE Cardinality(Busy) + 1
    BY <2>3, FS_AddElement
  <2>5. Cardinality(Busy) < PoolSize
    BY <1>1, <2>3, RegistryAssumption DEF IInv, TypeOK, Least
  <2>6. Cardinality(Busy') =< PoolSize
    BY <2>2, <2>3, <2>4, <2>5, RegistryAssumption
  <2> QED
    BY <1>1, <1>2, <2>1, <2>6 DEF IInv, TypeOK
<1>5. CallsFit'
  <2>1. CallFits(id)'
    BY <1>1, <1>2, <1>3 DEF IInv, TypeOK, CallsFit, CallFits
  <2>2. ASSUME NEW j \in Ids \ {id} PROVE CallFits(j)'
    <3>1. stage'[j] = stage[j]
      BY <1>1 DEF IInv, TypeOK
    <3> QED
      BY <1>1, <3>1 DEF IInv, CallsFit, CallFits
  <2> QED
    BY <2>1, <2>2 DEF CallsFit
<1>6. NewFits'
  <2>1. id \in claimed
    BY <1>1, <1>3 DEF IInv, BatchesFit
  <2> QED
    BY <1>1, <2>1 DEF IInv, TypeOK, NewFits
<1>7. BatchesFit' /\ CountFits'
  BY <1>1 DEF IInv, BatchesFit, CountFits
<1>8. OnlyOwn'
  BY <1>1, <1>3 DEF IInv, TypeOK, OnlyOwn
<1>9. WaitingFits'
  <2>1. \A j \in Range(waiting') : j \in Ids /\ j # id /\ stage'[j] = stage[j]
    BY <1>1, <1>2, <1>3 DEF IInv, TypeOK
  <2> QED
    BY <1>1, <1>2, <1>3, <2>1 DEF IInv, WaitingFits
<1>10. ResultsFit'
  <2>1. \A i \in DOMAIN batch : batch[i] \in Ids
    BY DEF IInv, TypeOK
  <2> QED
    BY <1>1, <1>3, <2>1 DEF IInv, TypeOK, ResultsFit
<1> QED
  BY <1>4, <1>5, <1>6, <1>7, <1>8, <1>9, <1>10 DEF IInv

\* A collected result is that of a call which is done, since one that failed in the pool
\* holds an exception.
LEMMA CollectStep ==
    ASSUME IInv, NEW i \in DOMAIN batch, Collect(i)
    PROVE  IInv'
<1>1. /\ phase = "running" /\ error = None /\ stage[batch[i]] \in Settled
      /\ \/ /\ failure[batch[i]] = None /\ ordered' = [ordered EXCEPT ![i] = batch[i]]
            /\ error' = error
         \/ failure[batch[i]] # None /\ error' = failure[batch[i]] /\ ordered' = ordered
      /\ UNCHANGED <<clock, budget, phase, batch, claimed, waiting, stage, status, failure,
                     late, log, admitted, batches>>
  BY DEF Collect, calls
<1>2. batch[i] \in Ids /\ batch[i] \in Range(batch)
  BY Queue DEF IInv, TypeOK
<1>3. TypeOK'
  <2>1. ordered' \in [DOMAIN batch -> Ids \cup {None}] /\ error' \in Errors
    BY <1>1, <1>2 DEF IInv, TypeOK
  <2>2. Busy' = Busy
    BY <1>1 DEF Busy
  <2> QED
    BY <1>1, <2>1, <2>2 DEF IInv, TypeOK
<1>4. CallsFit'
  BY <1>1 DEF IInv, CallsFit, CallFits
<1>5. NewFits' /\ BatchesFit' /\ OnlyOwn' /\ WaitingFits' /\ CountFits'
  BY <1>1 DEF IInv, NewFits, BatchesFit, OnlyOwn, WaitingFits, CountFits
<1>6. ResultsFit'
  <2>1. failure[batch[i]] = None => stage[batch[i]] = "done"
    BY <1>1, <1>2 DEF IInv, CallsFit, CallFits, BatchesFit, Settled
  <2>2. ordered \in [DOMAIN batch -> Ids \cup {None}]
    BY DEF IInv, TypeOK
  <2> QED
    BY <1>1, <2>1, <2>2 DEF IInv, ResultsFit
<1> QED
  BY <1>3, <1>4, <1>5, <1>6 DEF IInv

\* A batch ends: refused, or with every call settled.
LEMMA ReturnStep ==
    ASSUME IInv, Return \/ ReturnRefused
    PROVE  IInv'
<1>1. /\ phase \in {"running", "refusing"} /\ phase' = "idle"
      /\ phase = "running" => /\ \A i \in DOMAIN batch : stage[batch[i]] \in Settled
                              /\ error' = error
                              /\ error # None \/ \A i \in DOMAIN ordered : ordered[i] # None
      /\ phase = "refusing" => error' \in {"cap", error} /\ error' # None
      /\ UNCHANGED <<clock, budget, batch, claimed, waiting, ordered, stage, status, failure,
                     late, log, admitted, batches>>
  BY DEF Return, ReturnRefused, calls, None
<1>2. TypeOK'
  <2>1. Busy' = Busy
    BY <1>1 DEF Busy
  <2>2. error' \in Errors
    BY <1>1 DEF IInv, TypeOK, Errors
  <2> QED
    BY <1>1, <2>1, <2>2 DEF IInv, TypeOK, Phases
<1>3. CallsFit'
  BY <1>1 DEF IInv, CallsFit, CallFits
<1>4. NewFits' /\ BatchesFit' /\ WaitingFits' /\ CountFits'
  BY <1>1 DEF IInv, NewFits, BatchesFit, WaitingFits, CountFits
<1>5. OnlyOwn'
  <2>1. \A id \in Range(batch) : phase = "running" => stage[id] \in Settled
    BY <1>1 DEF Range
  <2> QED
    BY <1>1, <2>1 DEF IInv, OnlyOwn, Active, Settled
<1>6. ResultsFit'
  BY <1>1 DEF IInv, TypeOK, ResultsFit
<1> QED
  BY <1>2, <1>3, <1>4, <1>5, <1>6 DEF IInv

\* Time passes, or nothing happens.
LEMMA IdleStep ==
    ASSUME IInv, Tick \/ UNCHANGED vars
    PROVE  IInv'
<1>1. /\ clock' \in Nat
      /\ UNCHANGED <<budget, phase, batch, claimed, waiting, stage, status, failure, error,
                     ordered, log, late, admitted, batches>>
  BY DEF IInv, TypeOK, Tick, vars, control, calls
<1>2. TypeOK'
  <2>1. Busy' = Busy
    BY <1>1 DEF Busy
  <2> QED
    BY <1>1, <2>1 DEF IInv, TypeOK
<1>3. CallsFit'
  BY <1>1 DEF IInv, CallsFit, CallFits
<1> QED
  BY <1>1, <1>2, <1>3 DEF IInv, NewFits, BatchesFit, OnlyOwn, WaitingFits, ResultsFit, CountFits

\* Every step keeps it.
LEMMA NextIInv == IInv /\ [Next]_vars => IInv'
<1> SUFFICES ASSUME IInv, [Next]_vars PROVE IInv'
  OBVIOUS
<1>1. waiting # <<>> => \E id \in Ids : id = Head(waiting)
  BY Queue DEF IInv, TypeOK
<1>2. CASE Submit
  BY <1>2, SubmitStep
<1>3. CASE Reserve
  BY <1>3, ReserveStep
<1>4. CASE Refuse
  <2>1. PICK id \in Ids : id = Head(waiting)
    BY <1>1, <1>4 DEF Refuse
  <2> QED
    BY <1>4, <2>1, RefuseStep
<1>5. CASE RefuseFails
  <2>1. PICK id \in Ids : id = Head(waiting)
    BY <1>1, <1>5 DEF RefuseFails
  <2> QED
    BY <1>5, <2>1, RefuseFailsStep
<1>6. CASE Take
  <2>1. PICK id \in Ids : id = Head(waiting)
    BY <1>1, <1>6 DEF Take
  <2> QED
    BY <1>6, <2>1, TakeStep
<1>7. CASE Return \/ ReturnRefused
  BY <1>7, ReturnStep
<1>8. CASE \E i \in DOMAIN batch : Collect(i)
  BY <1>8, CollectStep
<1>9. CASE \E id \in Ids : Work(id) \/ Hold(id)
  BY <1>9, WorkStep
<1>10. CASE Tick \/ UNCHANGED vars
  BY <1>10, IdleStep
<1> QED
  BY <1>2, <1>3, <1>4, <1>5, <1>6, <1>7, <1>8, <1>9, <1>10 DEF Next, Controller

(* In every behaviour the inductive invariant holds. *)
THEOREM Invariant == Spec => []IInv
BY InitIInv, NextIInv, PTL DEF Spec

(* Type correctness of the registry, the bound on the pool's busy threads included. *)
THEOREM TypeCorrect == Spec => []TypeOK
<1>1. IInv => TypeOK
  BY DEF IInv
<1> QED
  BY <1>1, Invariant, PTL

-------------------------------------------------------------------------------
\* What the receipts say.

\* A call's log, in the shapes it can have.
LEMMA LogShapes ==
    ASSUME IInv, NEW id \in Ids
    PROVE  /\ log[id] \in {<<>>, <<"started">>} \cup {Receipt(s) : s \in Statuses}
           /\ "capped" \in Receipts(id) => id \notin admitted
           /\ id \notin admitted => Receipts(id) \subseteq {"capped"}
<1>1. CallFits(id) /\ stage[id] \in Stages
  BY DEF IInv, TypeOK, CallsFit
<1>2. "capped" \in Statuses /\ Ran \subseteq Statuses /\ "capped" \notin Ran
  BY DEF Statuses, Ran
<1>3. \/ log[id] \in {<<>>, <<"started">>}
      \/ id \in admitted /\ \E s \in Ran : log[id] = Receipt(s)
      \/ id \notin admitted /\ log[id] = Receipt("capped")
  BY <1>1 DEF CallFits, Active, Stages
<1> QED
  BY <1>2, <1>3, ReceiptRange DEF Receipts

(* For every pool and every interleaving, an id has at most one start and one completion,
   in that order, over all batches of the run. *)
THEOREM ReceiptsAreUnique == Spec => []OneReceipt
<1>1. IInv => OneReceipt
  BY LogShapes DEF OneReceipt, Receipt
<1> QED
  BY <1>1, Invariant, PTL

(* No batch is run in part: a capped receipt of one call means no call of it was admitted. *)
THEOREM BatchesAreWhole == Spec => []AllOrNone
<1>1. IInv => AllOrNone
  <2> SUFFICES ASSUME IInv, NEW b \in batches, NEW id \in Range(b), "capped" \in Receipts(id)
               PROVE  Range(b) \cap admitted = {}
    BY DEF AllOrNone
  <2>1. id \in Ids
    BY DEF IInv, TypeOK, BatchesFit
  <2>2. id \notin admitted
    BY <2>1, LogShapes
  <2> QED
    BY <2>2 DEF IInv, BatchesFit
<1> QED
  BY <1>1, Invariant, PTL

(* Whatever the pool does, the budget's count of tool calls is that of the receipts which
   are not capped, whenever no batch is under way and the audit log has held. *)
THEOREM BudgetIsAccountedFor == Spec => []ReceiptsAccountForBudget
<1>1. IInv => ReceiptsAccountForBudget
  <2> SUFFICES ASSUME IInv, phase = "idle", \A id \in Ids : failure[id] # "audit"
               PROVE  admitted = {id \in Ids : Receipts(id) \ {"capped"} # {}}
    BY DEF IInv, CountFits, ReceiptsAccountForBudget
  <2>1. ASSUME NEW id \in Ids, id \in admitted PROVE Receipts(id) \ {"capped"} # {}
    <3>1. CallFits(id) /\ stage[id] \in Stages /\ stage[id] \notin Active \cup {"queued"}
      BY DEF IInv, TypeOK, CallsFit, OnlyOwn
    <3>2. \E s \in Ran : log[id] = Receipt(s)
      BY <2>1, <3>1 DEF CallFits, Stages, Active
    <3>3. Ran \subseteq Statuses /\ "capped" \notin Ran
      BY DEF Ran
    <3> QED
      BY <3>2, <3>3, ReceiptRange DEF Receipts
  <2>2. ASSUME NEW id \in Ids, id \notin admitted PROVE Receipts(id) \ {"capped"} = {}
    BY <2>2, LogShapes
  <2>3. admitted \subseteq Ids
    BY DEF IInv, TypeOK
  <2> QED
    BY <2>1, <2>2, <2>3
<1> QED
  BY <1>1, Invariant, PTL

(* When execute_batch has returned or raised, no call is queued or in the pool. *)
THEOREM NothingIsLeftRunning == Spec => []NothingOutlivesBatch
<1>1. IInv => NothingOutlivesBatch
  BY DEF IInv, OnlyOwn, NothingOutlivesBatch
<1> QED
  BY <1>1, Invariant, PTL

(* Results come back in request order, each with its receipt, in whatever order the pool
   finished them. *)
THEOREM ResultsKeepOrder == Spec => []ResultsInOrder
<1>1. IInv => ResultsInOrder
  <2> SUFFICES ASSUME IInv, phase = "idle", error = None
               PROVE  ordered = batch /\ \A id \in Range(batch) : Receipts(id) = {status[id]}
    BY DEF ResultsInOrder
  <2>1. \A i \in DOMAIN batch : ordered[i] = batch[i] /\ stage[batch[i]] = "done"
    BY DEF IInv, ResultsFit
  <2>2. batch \in Seq(Ids) /\ ordered \in [DOMAIN batch -> Ids \cup {None}]
    BY DEF IInv, TypeOK
  <2>3. ordered = batch
    <3>1. batch \in [DOMAIN batch -> Ids]
      BY <2>2
    <3> QED
      BY <2>1, <2>2, <3>1
  <2>4. ASSUME NEW id \in Range(batch) PROVE Receipts(id) = {status[id]}
    <3>1. id \in Ids /\ stage[id] = "done"
      BY <2>1, <2>2, Queue DEF Range
    <3>2. log[id] = Receipt(status[id]) /\ status[id] \in Statuses
      BY <3>1 DEF IInv, CallsFit, CallFits, Ran
    <3> QED
      BY <3>2, ReceiptRange DEF Receipts
  <2> QED
    BY <2>3, <2>4
<1> QED
  BY <1>1, Invariant, PTL

-------------------------------------------------------------------------------
\* What still starts once no tool may run.

Granted == {id \in Ids : stage[id] = "granted"}

(* A process starts late only by a grant from before; the grants then outstanding belong to
   busy threads, and none is given any more.  The look after the process finds the cap. *)
LateFits ==
    /\ ~Capped => late = {}
    /\ Cardinality(late \cup Granted) =< PoolSize
    /\ \A id \in late : /\ stage[id] \in {"running", "held", "settling", "done", "failed"}
                        /\ status[id] \in {None, "timeout", "error"}

\* Once a cap has fired or the deadline has passed, it stays so.
LEMMA CappedStays ==
    ASSUME IInv, [Next]_vars
    PROVE  Capped => Capped'
<1>1. clock \in Nat /\ budget \in BudgetState /\ MaxWallSeconds \in Nat
  BY CapConfigAssumption DEF IInv, TypeOK
<1>2. Len(batch) \in Nat
  BY DEF IInv, TypeOK
<1>3. /\ clock' \in {clock, clock + 1}
      /\ budget' \in {budget, Checked(budget, clock), Reserved(budget, Len(batch), clock)}
  BY DEF Next, Controller, Tick, Submit, Reserve, Refuse, RefuseFails, ReturnRefused, Return,
         Collect, Take, Work, Start, Grant, Launch, Hold, Finish, Raise, Complete, AuditFails,
         vars
<1>4. budget.fired # NoCap => budget'.fired # NoCap
  BY <1>1, <1>2, <1>3, CheckedLemma, ReservedLemma
<1> QED
  BY <1>1, <1>3, <1>4 DEF Capped

\* The look at the clock sees what is in force.
LEMMA CheckedSees ==
    ASSUME IInv
    PROVE  Checked(budget, clock).fired = NoCap <=> ~Capped
  BY CapConfigAssumption DEF IInv, TypeOK, BudgetState, CapKind, Checked, Fire, Capped, NoCap

\* A call that is late is none of those that a controller's step touches.
LEMMA ControllerIsPlain ==
    ASSUME IInv, LateFits, Reserve \/ Refuse \/ Take
    PROVE  /\ late' = late /\ Granted' \subseteq Granted
           /\ \A id \in late : stage'[id] = stage[id] /\ status'[id] = status[id]
<1>1. stage \in [Ids -> Stages] /\ status \in [Ids -> Statuses \cup {None}] /\ late \subseteq Ids
  BY DEF IInv, TypeOK
<1>2. CASE Reserve
  <2>1. \A id \in Range(batch) : stage[id] = "unknown"
    BY <1>2, Queue DEF Reserve, IInv, TypeOK, NewFits
  <2>2. status' = status /\ late' = late
        /\ \/ UNCHANGED stage
           \/ stage' = [id \in Ids |-> IF id \in Range(batch) THEN "queued" ELSE stage[id]]
    BY <1>2 DEF Reserve
  <2> QED
    BY <1>1, <2>1, <2>2 DEF LateFits, Granted
<1>3. CASE Refuse \/ Take
  <2>1. PICK id \in Ids : id = Head(waiting) /\ stage[id] \in {"unknown", "queued"}
    BY <1>3, Queue DEF Refuse, Take, IInv, TypeOK, WaitingFits
  <2>2. /\ late' = late
        /\ stage' = [stage EXCEPT ![id] = "failed"] \/ stage' = [stage EXCEPT ![id] = "starting"]
        /\ status' = status \/ status' = [status EXCEPT ![id] = "capped"]
    BY <1>3, <2>1 DEF Refuse, Take
  <2>3. id \notin late
    BY <2>1 DEF LateFits
  <2>4. \A j \in Ids \ {id} : stage'[j] = stage[j] /\ status'[j] = status[j]
    BY <1>1, <2>2
  <2>5. stage'[id] # "granted"
    BY <1>1, <2>2
  <2> QED
    BY <1>1, <2>2, <2>3, <2>4, <2>5 DEF Granted
<1> QED
  BY <1>2, <1>3

\* A step of a call that grants nothing makes late only the call, if that had its grant;
\* and a late call ends by the cap or by an error.
LEMMA WorkIsPlain ==
    ASSUME IInv, LateFits, NEW id \in Ids, Work(id) \/ Hold(id), ~Grant(id)
    PROVE  /\ late' \cup Granted' \subseteq late \cup Granted
           /\ ~Capped => late' = late
           /\ \A j \in late' : /\ stage'[j] \in {"running", "held", "settling", "done", "failed"}
                               /\ status'[j] \in {None, "timeout", "error"}
<1>1. stage \in [Ids -> Stages] /\ status \in [Ids -> Statuses \cup {None}] /\ late \subseteq Ids
  BY DEF IInv, TypeOK
<1>2. CASE Launch(id)
  <2>1. stage[id] = "granted" /\ status[id] = None
    BY <1>2 DEF Launch, IInv, CallsFit, CallFits
  <2>2. stage' = [stage EXCEPT ![id] = "running"] /\ status' = status
        /\ late' = IF Capped THEN late \cup {id} ELSE late
    BY <1>2 DEF Launch
  <2> QED
    BY <1>1, <2>1, <2>2 DEF LateFits, Granted
<1>3. CASE Finish(id)
  <2>1. late' = late /\ stage' = [stage EXCEPT ![id] = "settling"]
        /\ \E x \in Statuses : status' = [status EXCEPT ![id] = x]
    BY <1>3 DEF Finish, Statuses
  <2>2. Capped => status' = [status EXCEPT ![id] = "timeout"]
    BY <1>3, CheckedSees DEF Finish
  <2>3. late # {} => Capped
    BY DEF LateFits
  <2> QED
    BY <1>1, <2>1, <2>2, <2>3 DEF LateFits, Granted
<1>4. CASE Start(id) \/ Hold(id) \/ Raise(id) \/ Complete(id) \/ AuditFails(id)
  <2>1. /\ late' = late
        /\ status' = status \/ status' = [status EXCEPT ![id] = "error"]
        /\ \/ stage[id] = "starting" /\ stage' = [stage EXCEPT ![id] = "launching"]
           \/ \E x \in {"held", "settling", "done", "failed"} : stage' = [stage EXCEPT ![id] = x]
    BY <1>4 DEF Start, Hold, Raise, Complete, AuditFails
  <2> QED
    BY <1>1, <2>1 DEF LateFits, Granted
<1> QED
  BY <1>2, <1>3, <1>4 DEF Work

\* Every step keeps it.
LEMMA LateStep == ASSUME IInv, IInv', LateFits, [Next]_vars PROVE LateFits'
<1>1. stage \in [Ids -> Stages] /\ status \in [Ids -> Statuses \cup {None}] /\ late \subseteq Ids
  BY DEF IInv, TypeOK
<1>2. IsFiniteSet(late \cup Granted)
  BY <1>1, FS_Subset, RegistryAssumption DEF Granted
<1>3. ASSUME late' \cup Granted' \subseteq late \cup Granted
      PROVE  Cardinality(late' \cup Granted') =< PoolSize
  <2>1. Cardinality(late' \cup Granted') =< Cardinality(late \cup Granted)
        /\ IsFiniteSet(late' \cup Granted')
    BY <1>2, <1>3, FS_Subset
  <2> QED
    BY <1>2, <2>1, FS_CardinalityType, RegistryAssumption DEF LateFits
<1>4. Capped => Capped'
  BY CappedStays
<1>5. CASE Reserve \/ Refuse \/ Take
  BY <1>3, <1>4, <1>5, ControllerIsPlain DEF LateFits
<1>6. ASSUME NEW id \in Ids, Work(id) \/ Hold(id), ~Grant(id) PROVE LateFits'
  BY <1>3, <1>4, <1>6, WorkIsPlain DEF LateFits
<1>7. ASSUME NEW id \in Ids, Grant(id) PROVE LateFits'
  <2>1. /\ late' = late
        /\ \/ stage' = [stage EXCEPT ![id] = "granted"] /\ status' = status /\ ~Capped
           \/ /\ stage' = [stage EXCEPT ![id] = "settling"]
              /\ status' = [status EXCEPT ![id] = "timeout"]
    BY <1>7, CheckedSees DEF Grant
  <2>2. stage[id] = "launching"
    BY <1>7 DEF Grant
  <2>3. CASE Capped
    <3>1. late' \cup Granted' \subseteq late \cup Granted
      BY <1>1, <2>1, <2>3 DEF Granted
    <3> QED
      BY <1>1, <1>3, <1>4, <2>1, <2>2, <2>3, <3>1 DEF LateFits
  <2>4. CASE ~Capped
    <3>1. late' = {}
      BY <2>1, <2>4 DEF LateFits
    <3>2. late' \cup Granted' \subseteq Busy' /\ IsFiniteSet(Busy')
      BY <3>1, FS_Subset, RegistryAssumption DEF Granted, Busy, Active
    <3>3. Cardinality(Busy') =< PoolSize
      BY DEF IInv, TypeOK
    <3>4. Cardinality(late' \cup Granted') =< Cardinality(Busy')
          /\ IsFiniteSet(late' \cup Granted')
      BY <3>2, FS_Subset
    <3>5. Cardinality(late' \cup Granted') =< PoolSize
      BY <3>2, <3>3, <3>4, FS_CardinalityType, RegistryAssumption
    <3> QED
      BY <3>1, <3>5 DEF LateFits
  <2> QED
    BY <2>3, <2>4
<1>8. CASE UNCHANGED calls
  BY <1>3, <1>4, <1>8 DEF LateFits, calls, Granted
<1>9. \/ Reserve \/ Refuse \/ Take \/ UNCHANGED calls
      \/ \E id \in Ids : Work(id) \/ Hold(id)
  BY DEF Next, Controller, Tick, Submit, RefuseFails, ReturnRefused, Return, Collect, vars, calls
<1> QED
  BY <1>5, <1>6, <1>7, <1>8, <1>9

(* However many calls are queued, at most as many processes start after a cap or the
   deadline, over the whole run, as the pool has threads, and each of them ends by the cap
   or by an error. *)
THEOREM LateStartsAreFew == Spec => []LateStartsBounded
<1>1. Init => LateFits
  <2>1. ASSUME Init PROVE late = {} /\ late \cup Granted = {}
    BY <2>1 DEF Init, Granted
  <2> QED
    BY <2>1, FS_EmptySet, RegistryAssumption DEF LateFits
<1>2. IInv /\ IInv' /\ LateFits /\ [Next]_vars => LateFits'
  BY LateStep
<1>3. IInv /\ LateFits => LateStartsBounded
  <2>1. ASSUME IInv, LateFits PROVE Cardinality(late) =< PoolSize
    <3>1. IsFiniteSet(late \cup Granted)
      BY <2>1, FS_Subset, RegistryAssumption DEF IInv, TypeOK, Granted
    <3>2. IsFiniteSet(late) /\ Cardinality(late) =< Cardinality(late \cup Granted)
      BY <3>1, FS_Subset
    <3> QED
      BY <2>1, <3>1, <3>2, FS_CardinalityType, RegistryAssumption DEF LateFits
  <2> QED
    BY <2>1 DEF LateFits, LateStartsBounded
<1> QED
  BY <1>1, <1>2, <1>3, Invariant, PTL DEF Spec
===============================================================================
