---------------------------- MODULE Investigation ----------------------------
(* UnchainedAgent.run of agent.py: the phases opening, investigate (one typed action a
   turn until finish_investigation), investigation-finalize, judge and report, the model
   and the tools seen from the controller, and what a cap or a broken protocol makes of
   the run.  A model call is one ModelCall; a batch of tools starts and finishes.  What
   the model answers is free; texts, prompts and rendered reports are left out.  Each
   log entry is an audit event with the phase it belongs to; the request and the options
   of a call stand just before its response and are left out, and so is the budget
   notice, which no one reads back. *)
EXTENDS Budget, Sequences, FiniteSets

CONSTANTS
    Estimates, Outputs, Usages,    \* what ModelCall ranges over
    CallIds,                       \* ids that a response may give its calls
    FindingIds,
    MaxOpeningTools,
    Horizon                        \* bound on the clock

ASSUME InvestigationAssumption ==
    /\ IsFiniteSet(CallIds) /\ IsFiniteSet(FindingIds)
    /\ MaxOpeningTools \in Nat \ {0} /\ Horizon \in Nat
    /\ Estimates \subseteq Nat \ {0} /\ Outputs \subseteq Nat \ {0} /\ Usages \subseteq Usage

VARIABLES
    clock, budget, call,   \* shared with ModelCall
    phase,
    step,                  \* where in the phase the controller is
    pending,               \* the calls of the batch in execution
    claimed,               \* the registry's ids in use
    receipts,              \* [id, status] of the tool.completed events
    findings, verdicts,    \* of the finalizer and of the judge, by finding id
    terminal,              \* id of the finish_investigation action
    log,
    status,                \* of AgentRun
    completedAt            \* elapsed_seconds in investigation.completed

tooling == <<pending, claimed, receipts>>
outcome == <<findings, verdicts, terminal>>
ending == <<status, completedAt>>
agentVars == <<phase, step, tooling, outcome, log, ending>>
vars == <<clock, budget, call, agentVars>>

Model == INSTANCE ModelCall

NoId == "none"
PhaseOrder == <<"new", "opening", "investigate", "investigation-finalize", "judge", "report",
                "closing", "ended">>
Phase == {PhaseOrder[i] : i \in 1..Len(PhaseOrder)}
Steps == {"ask", "await", "act", "tools", "check", "checked", "capped", "broken", "end"}
Rank == [UNSUPPORTED |-> 0, NEEDS_REVIEW |-> 1, CONFIRMED |-> 2]
Claim == [status : DOMAIN Rank, cites : SUBSET CallIds]

Entry(event) == [event |-> event, phase |-> phase]
Logged(events) == log' = log \o [i \in DOMAIN events |-> Entry(events[i])]
Succeeded(ids) == \E r \in receipts : r.id \in ids /\ r.status = "success"
ReceiptIds == {r.id : r \in receipts}

Init ==
    /\ Model!Init
    /\ phase = "new" /\ step = "ask" /\ pending = {} /\ claimed = {} /\ receipts = {}
    /\ findings = <<>> /\ verdicts = <<>> /\ terminal = NoId /\ log = <<>>
    /\ status = "running" /\ completedAt = 0

Tick == clock < Horizon /\ Model!Tick /\ UNCHANGED agentVars

Start ==
    /\ phase = "new"
    /\ Logged(<<"investigation.started">>)
    /\ phase' = "opening"
    /\ UNCHANGED <<clock, budget, call, step, tooling, outcome, ending>>

Asking == phase \in {"opening", "investigate", "investigation-finalize", "judge", "report"}

\* Mutant: a request that no longer fits in the budget is tried again.
OutcomeRetried(c) ==
    CASE c = "accepted" -> "act" [] c = "capped" -> "ask" [] c = "failed" -> "broken"
      [] OTHER -> "await"

\* What create comes to for its caller: it returns, raises, or is still at it.
Outcome(c) ==
    CASE c = "accepted" -> "act" [] c = "capped" -> "capped" [] c = "failed" -> "broken"
      [] OTHER -> "await"

\* The preflight of the phase's request; its cap is left for the controller to record.
Ask ==
    /\ Asking /\ step = "ask"
    /\ Model!Send
    /\ Logged(CASE phase = "judge" -> <<"judge.started">>
                [] phase = "report" -> <<"report.started">>
                [] OTHER -> <<>>)
    /\ step' = Outcome(call')
    /\ UNCHANGED <<phase, tooling, outcome, ending>>

\* The call goes on.  A deadline met before the first dispatch is not recorded by the
\* model client; a response whose usage is invalid is recorded but not charged.
Await ==
    /\ step = "await"
    /\ \/ /\ Model!Expire
          /\ Logged(<<>>) \/ Logged(<<"cap.fired">>) \/ Logged(<<"model.error", "cap.fired">>)
       \/ /\ Model!Charge
          /\ Logged(IF call' = "capped" THEN <<"model.response", "cap.fired">>
                                        ELSE <<"model.response">>)
       \/ /\ Model!Accept
          /\ Logged(CASE call' = "capped" -> <<"cap.fired">>
                      [] call' = "failed" -> <<"model.error">>
                      [] OTHER -> <<>>)
       \/ /\ Model!Fail
          /\ Logged(<<"model.error">>) \/ Logged(<<"model.response", "model.error">>)
    /\ step' = Outcome(call')
    /\ UNCHANGED <<phase, tooling, outcome, ending>>

-------------------------------------------------------------------------------

\* AgentProtocolError or ToolProtocolError, recorded first at some of its places.
Break(events) ==
    /\ Logged(events)
    /\ step' = "broken"
    /\ UNCHANGED <<clock, budget, call, phase, tooling, outcome, ending>>

\* Mutant: the ids are claimed only where a cap has refused them.
LaunchUnclaimed(ids, before) ==
    /\ ids \cap claimed = {}
    /\ budget' = Reserved(budget, Cardinality(ids), clock)
    /\ IF budget'.fired # NoCap
       THEN /\ receipts' = receipts \cup {[id |-> i, status |-> "capped"] : i \in ids}
            /\ claimed' = claimed \cup ids
            /\ step' = "capped"
            /\ Logged(before \o <<"tool.started", "tool.completed">>)
            /\ UNCHANGED pending
       ELSE /\ pending' = ids /\ step' = "tools"
            /\ Logged(Append(before, "tool.started"))
            /\ UNCHANGED <<claimed, receipts>>
    /\ UNCHANGED <<clock, call, phase, outcome, ending>>

\* execute and execute_batch up to the start of the tools: claim the ids, reserve the
\* slots; a cap that fires leaves a capped receipt for each call.
Launch(ids, before) ==
    /\ ids \cap claimed = {}
    /\ claimed' = claimed \cup ids
    /\ budget' = Reserved(budget, Cardinality(ids), clock)
    /\ IF budget'.fired # NoCap
       THEN /\ receipts' = receipts \cup {[id |-> i, status |-> "capped"] : i \in ids}
            /\ step' = "capped"
            /\ Logged(before \o <<"tool.started", "tool.completed">>)
            /\ UNCHANGED pending
       ELSE /\ pending' = ids /\ step' = "tools"
            /\ Logged(Append(before, "tool.started"))
            /\ UNCHANGED receipts
    /\ UNCHANGED <<clock, call, phase, outcome, ending>>

\* Mutant: a response without calls opens the investigation.
SelectableOrNone(n, distinct) == n =< MaxOpeningTools /\ distinct

\* How many calls the opening response may make, each of another function.
Selectable(n, distinct) == 0 < n /\ n =< MaxOpeningTools /\ distinct

\* _opening: the response's n calls, of distinct functions or not, all with arguments
\* that validate admits or not, and as many ids as calls or not; all are run at once.
Open ==
    /\ phase = "opening" /\ step = "act"
    /\ \E n \in 0..(MaxOpeningTools + 1), distinct, sound \in BOOLEAN, ids \in SUBSET CallIds :
        /\ Cardinality(ids) =< n
        /\ IF ~Selectable(n, distinct) \/ ~sound THEN Break(<<"model.protocol_error">>)
           ELSE IF Cardinality(ids) < n THEN Break(<<>>)
           ELSE Launch(ids, <<>>)

\* A forensic turn: a visible ledger update, recorded before the tool starts.  The turn is
\* lost when it has not one call or no update, when its text is a raw DONE, and, the
\* update recorded, when its arguments are invalid or its id is taken.
Act ==
    /\ phase = "investigate" /\ step = "act"
    /\ \/ Break(<<"model.protocol_error">>) \/ Break(<<>>)
       \/ Break(<<"investigator.notes.updated">>)
       \/ \E id \in CallIds : Launch({id}, <<"investigator.notes.updated">>)

\* Mutant: the terminal action's id is not compared with those of the receipts.
TerminalUnder(id) == TRUE

\* The terminal action must not carry the id of a forensic call.
TerminalId(id) == id \notin ReceiptIds

\* finish_investigation, its only argument status DONE.
Done ==
    /\ phase = "investigate" /\ step = "act"
    /\ \E id \in CallIds :
        IF ~TerminalId(id) THEN Break(<<"model.protocol_error">>)
        ELSE /\ terminal' = id
             /\ Logged(<<"investigator.done">>)
             /\ phase' = "investigation-finalize" /\ step' = "ask"
             /\ UNCHANGED <<clock, budget, call, tooling, findings, verdicts, ending>>

\* The tools return; one that ends after the deadline is given a timeout receipt, the
\* others keep theirs, and the cap stops the run once all are in.  Tools that ended before
\* the deadline, or raised after it, have not met it.
Observe ==
    /\ step = "tools"
    /\ budget' \in {budget, Checked(budget, clock)}
    /\ \E result \in [pending -> {"success", "error", "timeout"}] :
        /\ budget'.fired # NoCap => \E id \in pending : result[id] = "timeout"
        /\ receipts' = receipts \cup {[id |-> id, status |-> result[id]] : id \in pending}
    /\ pending' = {}
    /\ IF budget'.fired # NoCap
       THEN Logged(<<"tool.completed">>) /\ step' = "capped" /\ UNCHANGED phase
       ELSE /\ Logged(IF phase = "opening" THEN <<"tool.completed", "opening.completed">>
                                           ELSE <<"tool.completed", "investigator.action">>)
            /\ phase' = "investigate" /\ step' = "ask"
    /\ UNCHANGED <<clock, call, claimed, outcome, ending>>

-------------------------------------------------------------------------------

\* _parse_investigation of one finding: it cites results of this run, and a confirmed one
\* a result that succeeded.
Grounded(claim) ==
    /\ claim.cites # {} /\ claim.cites \subseteq ReceiptIds
    /\ claim.status = "CONFIRMED" => Succeeded(claim.cites)

Finalize ==
    /\ phase = "investigation-finalize" /\ step = "act"
    /\ \/ Break(<<>>)
       \/ \E ids \in SUBSET FindingIds : \E submitted \in [ids -> Claim] :
            /\ \A f \in ids : Grounded(submitted[f])
            /\ findings' = submitted
            /\ Logged(<<"investigator.finished">>)
            /\ phase' = "judge" /\ step' = "ask"
            /\ UNCHANGED <<clock, budget, call, tooling, verdicts, terminal, ending>>

\* Mutant: the judge's status stands.
KeptAsSubmitted(proposed, submitted) == submitted

\* An upgrade is not applied.
Kept(proposed, submitted) == IF Rank[submitted] > Rank[proposed] THEN proposed ELSE submitted

\* _parse_verdicts: one verdict for every finding, none for another, within the citations
\* of the finding; the receipts are looked at again for the status that is kept.
Judge ==
    /\ phase = "judge" /\ step = "act"
    /\ \/ Break(<<>>) \/ Break(<<"judge.unknown_finding_rejected">>)
       \/ \E submitted \in [DOMAIN findings -> Claim] :
            LET kept == [f \in DOMAIN findings |->
                           [submitted[f] EXCEPT !.status = Kept(findings[f].status, @)]]
            IN  /\ \A f \in DOMAIN findings :
                    /\ kept[f].cites # {} /\ kept[f].cites \subseteq findings[f].cites
                    /\ kept[f].status = "CONFIRMED" => Succeeded(kept[f].cites)
                /\ verdicts' = kept
                /\ Logged(<<"judge.completed">>)
                /\ phase' = "report" /\ step' = "ask"
                /\ UNCHANGED <<clock, budget, call, tooling, findings, terminal, ending>>

\* The draft must name every finding; the controller renders the report.
Report ==
    /\ phase = "report" /\ step = "act"
    /\ \/ Break(<<>>)
       \/ /\ Logged(<<"report.completed">>)
          /\ phase' = "closing" /\ step' = "check"
          /\ UNCHANGED <<clock, budget, call, tooling, outcome, ending>>

\* run, after the report: the last look at the deadline ...
CheckLast ==
    /\ step = "check"
    /\ budget' = Checked(budget, clock)
    /\ step' = IF budget'.fired = NoCap THEN "checked" ELSE "capped"
    /\ UNCHANGED <<clock, call, phase, tooling, outcome, log, ending>>

\* The run's last event: no action of the agent follows.
Conclude(events, result) ==
    /\ Logged(Append(events, "investigation.completed"))
    /\ status' = result /\ phase' = "ended" /\ step' = "end"
    /\ UNCHANGED <<clock, budget, call, tooling, outcome>>

\* ... and the snapshot that is recorded, which reads the clock again.
Complete ==
    /\ step = "checked"
    /\ Conclude(<<>>, "COMPLETE")
    /\ completedAt' = clock

Recorded(event) == \E i \in DOMAIN log : log[i].event = event

\* Mutant: the cap is recorded whoever has recorded it.
MissingAlways(event) == TRUE

\* _record_cap looks for the event in the log that it reads back.
Missing(event) == ~Recorded(event)

\* The handler of CapExceeded.
StopCapped ==
    /\ step = "capped"
    /\ Conclude(IF Missing("cap.fired") THEN <<"cap.fired">> ELSE <<>>, "PARTIAL")
    /\ UNCHANGED completedAt

\* The handler of the protocol, provider and tool errors.
StopBroken ==
    /\ step = "broken"
    /\ Conclude(<<>>, "PARTIAL")
    /\ UNCHANGED completedAt

Agent ==
    \/ Start \/ Ask \/ Await \/ Open \/ Act \/ Done \/ Observe \/ Finalize \/ Judge \/ Report
    \/ CheckLast \/ Complete \/ StopCapped \/ StopBroken

Next == Tick \/ Agent

\* The run has one thread of control; model calls end (ModelTransaction!CallEnds), and so do
\* tools (ToolRegistry!BatchEnds).  The deadline need not come.
Spec == Init /\ [][Next]_vars /\ WF_vars(Agent)

-------------------------------------------------------------------------------

TypeOK ==
    /\ clock \in Nat /\ budget \in BudgetState
    /\ call \in {"idle", "out", "charged", "accepted", "failed", "capped"}
    /\ phase \in Phase /\ step \in Steps
    /\ pending \subseteq claimed /\ claimed \subseteq CallIds
    /\ \A r \in receipts : /\ r.id \in claimed \ pending
                           /\ r.status \in {"success", "error", "timeout", "capped"}
    /\ DOMAIN findings \subseteq FindingIds /\ DOMAIN verdicts \subseteq DOMAIN findings
    /\ \A f \in DOMAIN findings : findings[f] \in Claim
    /\ \A f \in DOMAIN verdicts : verdicts[f] \in Claim
    /\ terminal \in CallIds \cup {NoId}
    /\ \A i \in DOMAIN log : log[i].phase \in Phase
    /\ status \in {"running", "COMPLETE", "PARTIAL"} /\ completedAt \in Nat

\* What _verify_complete_lifecycle and its helpers ask of the agent's part of the log.
Required == <<"investigation.started", "opening.completed", "investigator.done",
              "investigator.finished", "judge.started", "judge.completed", "report.started",
              "report.completed", "investigation.completed">>
Failures == {"model.error", "model.protocol_error", "model.retry.skipped", "cap.fired"}

At(event) == {i \in DOMAIN log : log[i].event = event}
Window(p) == CASE p = "opening" -> <<"investigation.started", "opening.completed">>
               [] p = "investigate" -> <<"opening.completed", "investigator.done">>
               [] p = "investigation-finalize" -> <<"investigator.done", "investigator.finished">>
               [] p = "judge" -> <<"judge.started", "judge.completed">>
               [] OTHER -> <<"report.started", "report.completed">>

\* Each lifecycle event once and in order, and no failure.
LifecycleAccepted ==
    /\ \A k \in DOMAIN Required : Cardinality(At(Required[k])) = 1
    /\ \A k \in 1..(Len(Required) - 1) :
        \A i \in At(Required[k]), j \in At(Required[k + 1]) : i < j
    /\ \A event \in Failures : At(event) = {}

\* The responses' phases, each in its window, and a turn between any two responses of the
\* loop: the update, the tool, the action.
PhasesAccepted ==
    LET responses == At("model.response")
        turns == {i \in responses : log[i].phase = "investigate"}
        between(i, j) == [k \in 1..(j - i - 1) |-> log[i + k].event]
    IN  /\ \A i \in responses : \A b \in At(Window(log[i].phase)[1]),
                                  e \in At(Window(log[i].phase)[2]) : b < i /\ i < e
        /\ turns # {}
        /\ \A p \in {"opening", "investigation-finalize", "judge", "report"} :
            Cardinality({i \in responses : log[i].phase = p}) = 1
        /\ \A i \in turns : \E j \in DOMAIN log :
            /\ i < j
            /\ \/ between(i, j) = <<>> /\ log[j].event = "investigator.done"
               \/ /\ j \in turns
                  /\ between(i, j) = <<"investigator.notes.updated", "tool.started",
                                       "tool.completed", "investigator.action">>

(* A run that ends COMPLETE leaves a log that the offline verifier's strict completion
   accepts: its lifecycle and phases, no call without a proper receipt, the receipts that
   the final budget counts, and a terminal action that shares no receipt's id. *)
CompleteVerifies ==
    status = "COMPLETE" =>
        /\ LifecycleAccepted /\ PhasesAccepted
        /\ \A r \in receipts : r.status # "capped"
        /\ ReceiptIds = claimed /\ terminal \notin ReceiptIds
        /\ budget.toolCalls = Cardinality(receipts) /\ budget.fired = NoCap

(* The verdicts of a completed run are one for each finding, none stronger than its
   finding, and each confirmed one rests on a tool that succeeded, whatever the judge
   answered ("preserve or downgrade, never promote"). *)
VerdictsHold ==
    status = "COMPLETE" =>
        /\ DOMAIN verdicts = DOMAIN findings
        /\ \A f \in DOMAIN findings :
            /\ Rank[verdicts[f].status] =< Rank[findings[f].status]
            /\ verdicts[f].cites \subseteq findings[f].cites
            /\ verdicts[f].status = "CONFIRMED" => Succeeded(verdicts[f].cites)

(* A run stopped by a cap has the cap on record exactly once, although the model client,
   the tools and the controller all meet it and only some of them record it; and nothing
   else ends COMPLETE with a fired cap. *)
CapOnRecordOnce ==
    step = "end" => Cardinality(At("cap.fired")) = IF budget.fired = NoCap THEN 0 ELSE 1

(* The tool cap bounds the loop: every response of the loop but the last costs one call,
   so that a run makes at most MaxToolCalls + 4 model requests. *)
RequestsBounded == Cardinality(At("model.response")) =< MaxToolCalls + 4

(* Whatever the model answers, the run ends, also when the deadline never comes: the other
   caps see to it. *)
RunEnds == <>(step = "end")

(* The verifier: "final budget reaches or exceeds max_wall_seconds" (verify.py) is an error
   in a run recorded COMPLETE. *)
CompleteBeforeDeadline == status = "COMPLETE" => completedAt < MaxWallSeconds
===============================================================================
