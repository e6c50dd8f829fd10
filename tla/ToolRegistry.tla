----------------------------- MODULE ToolRegistry -----------------------------
(* ToolRegistry of tools.py: the controller hands over a batch of calls; each call id
   is claimed once, the whole batch is reserved or refused, a pool of threads runs the
   calls, and every call leaves one audited receipt.  execute is a batch of one run by
   the controller's own thread.  The budget's methods are atomic (RunBudgetProofs shows
   that they are), and so are the appends of the audit log; an append, or the storing
   of an output, may fail. *)
EXTENDS Budget, Sequences, FiniteSets, Functions

CONSTANTS
    Ids,            \* call ids
    Invalid,        \* those whose call does not fit a trusted schema
    Batches,        \* the sequences of calls the model may ask for
    MaxOpening,     \* MAX_OPENING_TOOLS
    PoolSize,       \* the most threads of a pool (six)
    Horizon         \* bound on the clock

ASSUME RegistryAssumption ==
    /\ IsFiniteSet(Ids) /\ Invalid \subseteq Ids
    /\ Batches \subseteq Seq(Ids) \ {<<>>}
    /\ MaxOpening \in Nat \ {0} /\ PoolSize \in Nat \ {0} /\ Horizon \in Nat

VARIABLES
    clock, budget,
    phase,          \* where the controller is in execute_batch
    batch,          \* the calls of the current batch, in request order
    claimed,        \* _claimed_call_ids
    waiting,        \* the calls not yet taken: by the pool, or for their capped receipt
    stage,          \* how far each call has come
    status,         \* the status each call's receipt carries, or will
    failure,        \* the exception each call's future holds, or None
    error,          \* the exception execute_batch will raise, or None
    ordered,        \* the results collected so far, by position
    log,            \* the audit events of each call, in order
    late,           \* history: calls whose process was started when a cap was already in force
    admitted,       \* history: calls whose reservation was granted
    batches         \* history: the batches claimed

control == <<phase, batch, claimed, waiting, error, ordered, admitted, batches>>
calls   == <<stage, status, failure, late>>
vars    == <<clock, budget, phase, batch, claimed, waiting, stage, status, failure, error,
             ordered, log, late, admitted, batches>>

None == "none"
Phases == {"idle", "claimed", "refusing", "running"}
Active == {"starting", "launching", "granted", "running", "held", "settling"}
Stages == Active \cup {"unknown", "queued", "done", "failed"}
Settled == {"done", "failed"}
Statuses == {"success", "error", "timeout", "capped"}   \* "not-applicable" counts as "error"
Errors == {"cap", "audit", None}
Events == {"started"} \cup Statuses    \* tool.started; tool.completed, by its status

\* One more audit event of a call.
Log(id, e) == log' = [log EXCEPT ![id] = Append(@, e)]

Init ==
    /\ clock = 0 /\ budget = FreshBudget
    /\ phase = "idle" /\ batch = <<>> /\ claimed = {} /\ waiting = <<>>
    /\ stage = [id \in Ids |-> "unknown"]
    /\ status = [id \in Ids |-> None]
    /\ failure = [id \in Ids |-> None]
    /\ error = None /\ ordered = <<>>
    /\ log = [id \in Ids |-> <<>>] /\ late = {} /\ admitted = {} /\ batches = {}

Tick ==
    /\ clock < Horizon
    /\ clock' = clock + 1
    /\ UNCHANGED <<budget, control, calls, log>>

-------------------------------------------------------------------------------
\* The controller's thread.

\* Mutant: an id used by an earlier batch is accepted again.
AcceptableAgain(b) ==
    /\ Len(b) =< MaxOpening
    /\ Range(b) \cap Invalid = {}
    /\ IsInjective(b)

\* validate and _claim_calls: every call fits its schema, ids are distinct and unused.
Acceptable(b) ==
    /\ Len(b) =< MaxOpening
    /\ Range(b) \cap Invalid = {}
    /\ IsInjective(b)
    /\ Range(b) \cap claimed = {}

\* execute_batch up to the claim; a batch that is not acceptable raises ToolProtocolError
\* and leaves no trace.
Submit ==
    /\ phase = "idle"
    /\ \E b \in Batches :
        /\ Acceptable(b)
        /\ batch' = b
        /\ claimed' = claimed \cup Range(b)
        /\ batches' = batches \cup {b}
    /\ phase' = "claimed"
    /\ error' = None /\ ordered' = [i \in DOMAIN batch' |-> None]
    /\ UNCHANGED <<clock, budget, waiting, calls, log, admitted>>

\* Mutant: the calls that fit under the cap are admitted, the others are refused.
ReservePart ==
    LET n == Least(Len(batch), MaxToolCalls - budget.toolCalls)
    IN  /\ phase = "claimed"
        /\ budget' = Reserved(budget, n, clock)
        /\ waiting' = IF budget'.fired = NoCap THEN SubSeq(batch, n + 1, Len(batch)) ELSE batch
        /\ phase' = "refusing"
        /\ admitted' = IF budget'.fired = NoCap THEN admitted \cup Range(SubSeq(batch, 1, n)) ELSE admitted
        /\ UNCHANGED <<clock, batch, claimed, calls, error, ordered, log, batches>>

\* reserve_tool_calls for the whole batch, then submission to the pool.
Reserve ==
    /\ phase = "claimed"
    /\ budget' = Reserved(budget, Len(batch), clock)
    /\ waiting' = batch
    /\ IF budget'.fired = NoCap
       THEN /\ phase' = "running"
            /\ admitted' = admitted \cup Range(batch)
            /\ stage' = [id \in Ids |-> IF id \in Range(batch) THEN "queued" ELSE stage[id]]
       ELSE /\ phase' = "refusing"
            /\ UNCHANGED <<admitted, stage>>
    /\ UNCHANGED <<clock, batch, claimed, status, failure, error, ordered, log, late, batches>>

\* _record_unstarted: a call that never ran gets its complete receipt all the same.
Refuse ==
    /\ phase = "refusing" /\ waiting # <<>>
    /\ LET id == Head(waiting)
       IN  /\ log' = [log EXCEPT ![id] = @ \o <<"started", "capped">>]
           /\ status' = [status EXCEPT ![id] = "capped"]
           /\ stage' = [stage EXCEPT ![id] = "failed"]
    /\ waiting' = Tail(waiting)
    /\ UNCHANGED <<clock, budget, phase, batch, claimed, failure, error, ordered, late,
                   admitted, batches>>

\* The receipt cannot be written, before or after its start: the failure is raised instead.
RefuseFails ==
    /\ phase = "refusing" /\ waiting # <<>>
    /\ UNCHANGED log \/ Log(Head(waiting), "started")
    /\ waiting' = <<>>
    /\ error' = "audit"
    /\ UNCHANGED <<clock, budget, phase, batch, claimed, ordered, calls, admitted, batches>>

\* Every refused call has its receipt: the CapExceeded of the reservation is raised.
ReturnRefused ==
    /\ phase = "refusing" /\ waiting = <<>>
    /\ phase' = "idle"
    /\ error' = IF error = None THEN "cap" ELSE error
    /\ UNCHANGED <<clock, budget, batch, claimed, waiting, ordered, calls, log, admitted, batches>>

\* Mutant: results are kept in the order in which the calls ended.
CollectByCompletion(i) ==
    /\ phase = "running" /\ error = None
    /\ stage[batch[i]] \in Settled
    /\ \A j \in DOMAIN ordered : ordered[j] # batch[i]
    /\ IF failure[batch[i]] = None
       THEN LET free == {j \in DOMAIN ordered : ordered[j] = None}
                next == CHOOSE j \in free : \A k \in free : j =< k
            IN  ordered' = [ordered EXCEPT ![next] = batch[i]] /\ UNCHANGED error
       ELSE error' = failure[batch[i]] /\ UNCHANGED ordered
    /\ UNCHANGED <<clock, budget, phase, batch, claimed, waiting, calls, log, admitted, batches>>

\* Mutant: a future that holds an exception is passed over.
CollectResultsOnly(i) ==
    /\ phase = "running" /\ error = None
    /\ ordered[i] = None /\ stage[batch[i]] = "done"
    /\ ordered' = [ordered EXCEPT ![i] = batch[i]]
    /\ UNCHANGED <<clock, budget, phase, batch, claimed, waiting, error, calls, log, admitted, batches>>

\* as_completed: a settled future's result goes to its place; the first exception met
\* ends the collecting.
Collect(i) ==
    /\ phase = "running" /\ error = None
    /\ ordered[i] = None /\ stage[batch[i]] \in Settled
    /\ IF failure[batch[i]] = None
       THEN ordered' = [ordered EXCEPT ![i] = batch[i]] /\ UNCHANGED error
       ELSE error' = failure[batch[i]] /\ UNCHANGED ordered
    /\ UNCHANGED <<clock, budget, phase, batch, claimed, waiting, calls, log, admitted, batches>>

\* Mutant: an exception leaves the pool without waiting for the calls still in it.
ReturnAtOnce ==
    /\ phase = "running"
    /\ error # None \/ \A i \in DOMAIN ordered : ordered[i] # None
    /\ phase' = "idle"
    /\ UNCHANGED <<clock, budget, batch, claimed, waiting, error, ordered, calls, log, admitted,
                   batches>>

\* Leaving the pool waits for every call of the batch, the queued ones included.
Return ==
    /\ phase = "running"
    /\ error # None \/ \A i \in DOMAIN ordered : ordered[i] # None
    /\ \A i \in DOMAIN batch : stage[batch[i]] \in Settled
    /\ phase' = "idle"
    /\ UNCHANGED <<clock, budget, batch, claimed, waiting, error, ordered, calls, log, admitted,
                   batches>>

-------------------------------------------------------------------------------
\* The pool's threads: _execute_reserved.

Busy == {id \in Ids : stage[id] \in Active}

\* Mutant: one thread per call.
TakeUnbounded ==
    /\ phase = "running" /\ waiting # <<>>
    /\ stage' = [stage EXCEPT ![Head(waiting)] = "starting"]
    /\ waiting' = Tail(waiting)
    /\ UNCHANGED <<clock, budget, phase, batch, claimed, status, failure, error, ordered, log,
                   late, admitted, batches>>

\* An idle thread of the pool takes the next call; the pool has min(6, len(batch)) threads.
Take ==
    /\ phase = "running" /\ waiting # <<>>
    /\ Cardinality(Busy) < Least(PoolSize, Len(batch))
    /\ stage' = [stage EXCEPT ![Head(waiting)] = "starting"]
    /\ waiting' = Tail(waiting)
    /\ UNCHANGED <<clock, budget, phase, batch, claimed, status, failure, error, ordered, log,
                   late, admitted, batches>>

Start(id) ==
    /\ stage[id] = "starting"
    /\ Log(id, "started")
    /\ stage' = [stage EXCEPT ![id] = "launching"]
    /\ UNCHANGED <<clock, budget, control, status, failure, late>>

\* Mutant: a process is granted without asking how much time is left.
GrantUnchecked(id) ==
    /\ stage[id] = "launching"
    /\ stage' = [stage EXCEPT ![id] = "granted"]
    /\ UNCHANGED <<clock, budget, control, status, failure, late, log>>

\* remaining_wall_seconds grants the process its time, or raises CapExceeded.
Grant(id) ==
    /\ stage[id] = "launching"
    /\ budget' = Checked(budget, clock)
    /\ IF budget'.fired = NoCap
       THEN /\ stage' = [stage EXCEPT ![id] = "granted"]
            /\ UNCHANGED <<status, failure>>
       ELSE /\ stage' = [stage EXCEPT ![id] = "settling"]
            /\ status' = [status EXCEPT ![id] = "timeout"]
            /\ failure' = [failure EXCEPT ![id] = "cap"]
    /\ UNCHANGED <<clock, control, late, log>>

\* No tool may run any more: a cap has fired, or the wall deadline has passed.
Capped == budget.fired # NoCap \/ clock >= MaxWallSeconds

\* Popen starts the process that was granted; between the two the deadline may have passed,
\* or another thread have fired the cap.
Launch(id) ==
    /\ stage[id] = "granted"
    /\ stage' = [stage EXCEPT ![id] = "running"]
    /\ late' = IF Capped THEN late \cup {id} ELSE late
    /\ UNCHANGED <<clock, budget, control, status, failure, log>>

\* The group is killed, but a descendant outside it keeps the output pipe: closing it waits
\* for the reader, without bound.
Hold(id) ==
    /\ stage[id] = "running"
    /\ stage' = [stage EXCEPT ![id] = "held"]
    /\ UNCHANGED <<clock, budget, control, status, failure, late, log>>

\* The process ends, is killed at its deadline, or could not be started, which is an error;
\* the budget is checked after it.
Finish(id) ==
    /\ stage[id] \in {"granted", "running", "held"}
    /\ budget' = Checked(budget, clock)
    /\ stage' = [stage EXCEPT ![id] = "settling"]
    /\ IF budget'.fired = NoCap
       THEN /\ \E s \in Statuses \ {"capped"} :
                   /\ stage[id] = "granted" => s = "error"
                   /\ status' = [status EXCEPT ![id] = s]
            /\ UNCHANGED failure
       ELSE /\ status' = [status EXCEPT ![id] = "timeout"]
            /\ failure' = [failure EXCEPT ![id] = "cap"]
    /\ UNCHANGED <<clock, control, late, log>>

\* The executor raises anything else (a pipe to a worker that died): an error receipt, and
\* the clock is not looked at.
Raise(id) ==
    /\ stage[id] = "running"
    /\ stage' = [stage EXCEPT ![id] = "settling"]
    /\ status' = [status EXCEPT ![id] = "error"]
    /\ UNCHANGED <<clock, budget, control, failure, late, log>>

\* Mutant: a call stopped by a cap raises before its receipt is written.
CompleteUnlessCapped(id) ==
    /\ stage[id] = "settling"
    /\ IF failure[id] = None THEN Log(id, status[id]) ELSE UNCHANGED log
    /\ stage' = [stage EXCEPT ![id] = IF failure[id] = None THEN "done" ELSE "failed"]
    /\ UNCHANGED <<clock, budget, control, status, failure, late>>

\* tool_completed, then the cap, if one fired, is raised in the future.
Complete(id) ==
    /\ stage[id] = "settling"
    /\ Log(id, status[id])
    /\ stage' = [stage EXCEPT ![id] = IF failure[id] = None THEN "done" ELSE "failed"]
    /\ UNCHANGED <<clock, budget, control, status, failure, late>>

\* The audit log cannot take the start or the completion: the future holds that failure.
AuditFails(id) ==
    /\ stage[id] \in {"starting", "settling"}
    /\ stage' = [stage EXCEPT ![id] = "failed"]
    /\ failure' = [failure EXCEPT ![id] = "audit"]
    /\ UNCHANGED <<clock, budget, control, status, late, log>>

Work(id) ==
    Start(id) \/ Grant(id) \/ Launch(id) \/ Finish(id) \/ Raise(id) \/ Complete(id) \/ AuditFails(id)

Controller ==
    \/ Reserve \/ Refuse \/ RefuseFails \/ ReturnRefused \/ Return
    \/ \E i \in DOMAIN batch : Collect(i)

Next == Tick \/ Submit \/ Controller \/ Take \/ \E id \in Ids : Work(id) \/ Hold(id)

\* Threads that can go on do; a forensic process ends because its deadline kills it, and
\* its call goes on unless a descendant holds its pipe.
Fairness ==
    /\ WF_vars(Controller)
    /\ WF_vars(Take)
    /\ \A id \in Ids : WF_vars(stage[id] # "held" /\ Work(id))

Spec == Init /\ [][Next]_vars /\ Fairness

-------------------------------------------------------------------------------

TypeOK ==
    /\ clock \in Nat /\ budget \in BudgetState
    /\ phase \in Phases /\ batch \in Seq(Ids) /\ claimed \subseteq Ids /\ waiting \in Seq(Ids)
    /\ stage \in [Ids -> Stages] /\ status \in [Ids -> Statuses \cup {None}]
    /\ failure \in [Ids -> Errors] /\ error \in Errors
    /\ ordered \in [DOMAIN batch -> Ids \cup {None}]
    /\ log \in [Ids -> Seq(Events)] /\ late \subseteq Ids /\ admitted \subseteq Ids
    /\ batches \subseteq Seq(Ids)
    /\ Cardinality(Busy) =< PoolSize

Receipts(id) == Range(log[id]) \ {"started"}

(* Across batches and threads, an id has at most one start and one completion, in that
   order (_claim_calls, "globally unique receipt ids"; the verifier rejects a second). *)
OneReceipt ==
    \A id \in Ids :
        log[id] \in {<<>>, <<"started">>} \cup {<<"started", s>> : s \in Statuses}

(* A batch is run or refused as a whole: no receipt of a batch says capped while another
   of its calls was admitted (execute_batch, "all-or-none opening batch"). *)
AllOrNone ==
    \A b \in batches :
        (\E id \in Range(b) : "capped" \in Receipts(id)) => Range(b) \cap admitted = {}

(* Between batches, unless the audit log failed, the budget's count of tool calls is
   the number of receipts that are not capped: nothing was charged without a receipt
   or run without being charged. *)
ReceiptsAccountForBudget ==
    phase = "idle" /\ error # "audit" /\ (\A id \in Ids : failure[id] # "audit") =>
        budget.toolCalls =
            Cardinality({id \in Ids : Receipts(id) \ {"capped"} # {}})

(* When the batch returns or raises, none of its calls is still running or queued: the
   controller may close the evidence (leaving the executor waits). *)
NothingOutlivesBatch == phase = "idle" => \A id \in Ids : stage[id] \notin Active \cup {"queued"}

(* A batch that returns gives the results in request order, each of a call that has its
   receipt ("results in request order"). *)
ResultsInOrder ==
    phase = "idle" /\ error = None =>
        ordered = batch /\ \A id \in Range(batch) : Receipts(id) = {status[id]}

(* A process may still start after a cap has fired or the wall deadline has passed, since
   the clock is asked before Popen: but no more of them, over the whole run, than the pool
   has threads, however many calls were queued, and none of them gives a plain result
   (_run_forensic_worker looks at the clock again after the process). *)
LateStartsBounded ==
    /\ Cardinality(late) =< PoolSize
    /\ \A id \in late : status[id] \in {None, "timeout", "error"}

(* Every batch that was claimed returns or raises, unless a stray descendant holds a
   call's pipe for ever (execute_batch leaves its pool). *)
BatchEnds ==
    (\A id \in Ids : []<>(stage[id] # "held")) => (phase # "idle" ~> phase = "idle")
===============================================================================
