-------------------------- MODULE InvestigationProofs --------------------------
(* The controller, for any responses, findings, tools, caps and prices: a run that ends
   COMPLETE leaves a log that the verifier's strict completion accepts, its verdicts hold,
   a cap is on record once, and the tool cap bounds the model requests.  The inductive
   invariant says what the log holds at each place of the run, as long as nothing has gone
   wrong. *)
EXTENDS Investigation, BudgetProofs, FiniteSetTheorems, SequenceTheorems, TLAPS

\* What the log is made of.
Event ==
    {"investigation.started", "opening.completed", "investigator.done", "investigator.finished",
     "judge.started", "judge.completed", "report.started", "report.completed",
     "investigation.completed", "model.response", "model.error", "model.protocol_error",
     "judge.unknown_finding_rejected", "cap.fired", "tool.started", "tool.completed",
     "investigator.notes.updated", "investigator.action"}
LogEntry == [event : Event, phase : Phase]

\* A response of the phase stands in the log and has not been spent yet.
Owing == ~(step \in {"ask", "tools"} \/ call = "out")

\* Where the controller may be in each phase, and what the call is there.
Control ==
    /\ step = "ask" => phase = "new" \/ Asking
    /\ step = "ask" => call \in {"idle", "accepted"}
    /\ step \in {"await", "act"} => Asking
    /\ step = "await" <=> call \in {"out", "charged"}
    /\ step = "act" => call = "accepted"
    /\ step = "tools" => phase \in {"opening", "investigate"}
    /\ step = "tools" => call = "accepted"
    /\ step \in {"check", "checked"} => phase = "closing"
    /\ phase = "new" => step = "ask"
    /\ phase = "closing" => step \in {"check", "checked", "capped"}
    /\ step = "end" <=> phase = "ended"
    /\ step = "end" <=> status # "running"
    /\ pending # {} => step = "tools"

\* A fired cap stops the controller, and no one has recorded it twice.
Capped ==
    /\ budget.fired = NoCap => At("cap.fired") = {}
    /\ budget.fired # NoCap => step \in {"capped", "end"}
    /\ step = "capped" => budget.fired # NoCap
    /\ At("cap.fired") = {} \/ \E i \in Nat : At("cap.fired") = {i}
    /\ step = "end" /\ budget.fired # NoCap => At("cap.fired") # {}
    /\ status = "COMPLETE" => budget.fired = NoCap

\* The judge's verdicts, once given, answer the findings.
Answering ==
    /\ DOMAIN verdicts = DOMAIN findings
    /\ \A f \in DOMAIN findings :
        /\ Rank[verdicts[f].status] =< Rank[findings[f].status]
        /\ verdicts[f].cites \subseteq findings[f].cites
        /\ verdicts[f].status = "CONFIRMED" => Succeeded(verdicts[f].cites)

Judged ==
    /\ phase \in {"report", "closing"} \/ status = "COMPLETE" => Answering
    /\ phase \in {"new", "opening", "investigate", "investigation-finalize"} => DOMAIN findings = {}
    /\ phase = "judge" => DOMAIN verdicts = {}

\* How many responses beyond the tool calls the earlier phases have had.
Spare == CASE phase = "investigation-finalize" -> 1 [] phase = "judge" -> 2
           [] phase \in {"report", "closing", "ended"} -> 3 [] OTHER -> 0

Bounded ==
    /\ budget.toolCalls =< MaxToolCalls
    /\ IsFiniteSet(At("model.response"))
    /\ Cardinality(At("model.response")) =< budget.toolCalls + Spare + IF Owing THEN 1 ELSE 0

-------------------------------------------------------------------------------

\* Nothing has gone wrong yet.
Smooth == budget.fired = NoCap /\ step # "broken" /\ status # "PARTIAL"

\* The registry's side: a receipt for every call but those in execution, each counted.
Accounted ==
    /\ ReceiptIds = claimed \ pending
    /\ \A r \in receipts : r.status # "capped"
    /\ IsFiniteSet(receipts)
    /\ budget.toolCalls = Cardinality(receipts) + Cardinality(pending)
    /\ phase \in {"new", "opening", "investigate"} \/ terminal \notin ReceiptIds

\* How many of the required events the log holds.
Stage ==
    CASE phase = "new" -> 0 [] phase = "opening" -> 1 [] phase = "investigate" -> 2
      [] phase = "investigation-finalize" -> 3
      [] phase = "judge" -> IF step = "ask" THEN 4 ELSE 5
      [] phase = "report" -> IF step = "ask" THEN 6 ELSE 7
      [] phase = "closing" -> 8 [] OTHER -> 9

OnStage ==
    \A k \in 1..9 : IF k =< Stage THEN \E i \in Nat : At(Required[k]) = {i}
                                  ELSE At(Required[k]) = {}

Ordered ==
    \A k \in 1..8 : \A i \in At(Required[k]), j \in At(Required[k + 1]) : i < j

Unfailed == \A event \in Failures : At(event) = {}

\* The phases with a model call, and the stage in which each has it.
Single == {"opening", "investigation-finalize", "judge", "report"}
First(p) == CASE p = "opening" -> 1 [] p = "investigate" -> 2
              [] p = "investigation-finalize" -> 3 [] p = "judge" -> 5 [] OTHER -> 7

Of(p) == {i \in At("model.response") : log[i].phase = p}

\* Whether a phase has had its response, the loop that of its turn.
Answered(p) == Stage > First(p) \/ (Stage = First(p) /\ ~(step = "ask" \/ call = "out"))

Once ==
    /\ \A p \in Single : IF Answered(p) THEN \E i \in Nat : Of(p) = {i} ELSE Of(p) = {}
    /\ Stage < 2 => Of("investigate") = {}
    /\ Answered("investigate") => Of("investigate") # {}
    /\ \A i \in At("model.response") : log[i].phase \in Single \cup {"investigate"}

Within ==
    \A p \in Single \cup {"investigate"} : \A i \in Of(p) :
        /\ \A b \in At(Required[First(p)]) : b < i
        /\ \A e \in At(Required[First(p) + 1]) : i < e

\* The turn that the response at i opened has been taken: it ended with the work, or the
\* next response follows the action.
TurnAt(i) ==
    /\ log[i + 1].event = "investigator.notes.updated" /\ log[i + 2].event = "tool.started"
    /\ log[i + 3].event = "tool.completed" /\ log[i + 4].event = "investigator.action"

Taken(i) ==
    \/ i + 1 =< Len(log) /\ log[i + 1].event = "investigator.done"
    \/ i + 5 \in Of("investigate") /\ TurnAt(i)

\* ... or the controller is at it.
Taking(i) ==
    /\ phase = "investigate"
    /\ step = "tools" => /\ Len(log) = i + 2
                         /\ log[i + 1].event = "investigator.notes.updated"
                         /\ log[i + 2].event = "tool.started"
    /\ step = "ask" \/ call = "out" => Len(log) = i + 4 /\ TurnAt(i)
    /\ ~(step \in {"ask", "tools"} \/ call = "out") => Len(log) = i

Followed == \A i \in Of("investigate") : Taken(i) \/ Taking(i)

OnCourse ==
    Smooth => /\ Accounted /\ OnStage /\ Ordered /\ Unfailed
              /\ Once /\ Within /\ Followed

IInv == /\ TypeOK /\ log \in Seq(LogEntry)
        /\ Control /\ Capped /\ Judged /\ Bounded /\ OnCourse
-------------------------------------------------------------------------------

\* Lists of one and of two.
LEMMA Lists ==
    ASSUME NEW S, NEW a \in S, NEW b \in S
    PROVE  /\ <<a>> \in Seq(S) /\ Len(<<a>>) = 1 /\ <<a>>[1] = a
           /\ <<a, b>> \in Seq(S) /\ Len(<<a, b>>) = 2 /\ <<a, b>>[1] = a /\ <<a, b>>[2] = b
  OBVIOUS

\* Appending to a list of one.
LEMMA AppendedTwo ==
    ASSUME NEW S, NEW a \in S, NEW b \in S
    PROVE  Append(<<a>>, b) = <<a, b>>
<1> DEFINE s == Append(<<a>>, b)
           t == <<a, b>>
<1>1. <<a>> \in Seq(S) /\ Len(<<a>>) = 1 /\ <<a>>[1] = a
  BY Lists
<1>2. s \in Seq(S) /\ Len(s) = 2 /\ s[1] = a /\ s[2] = b
  BY <1>1, AppendProperties
<1>3. t \in Seq(S) /\ Len(t) = 2 /\ t[1] = a /\ t[2] = b
  BY Lists
<1>4. \A i \in 1..2 : i = 1 \/ i = 2
  OBVIOUS
<1> HIDE DEF s, t
<1>5. s = t
  BY <1>2, <1>3, <1>4, SeqEqual
<1> QED BY <1>5 DEF s, t

\* A logged list of events: the log before it stays, and each event follows with the
\* phase it was logged in.
LEMMA LogStep ==
    ASSUME log \in Seq(LogEntry), phase \in Phase, NEW events \in Seq(Event), Logged(events)
    PROVE  /\ log' \in Seq(LogEntry)
           /\ Len(log') = Len(log) + Len(events)
           /\ \A i \in 1..Len(log) : log'[i] = log[i]
           /\ \A i \in 1..Len(events) : log'[Len(log) + i] = Entry(events[i])
<1> DEFINE more == [i \in DOMAIN events |-> Entry(events[i])]
<1>1. more \in Seq(LogEntry) /\ Len(more) = Len(events) /\ Len(events) \in Nat
  <2>1. \A i \in 1..Len(events) : Entry(events[i]) \in LogEntry
    BY DEF LogEntry, Entry
  <2>2. DOMAIN events = 1..Len(events) /\ Len(events) \in Nat
    OBVIOUS
  <2>3. more \in [1..Len(events) -> LogEntry]
    BY <2>1, <2>2
  <2> QED BY <2>2, <2>3
<1>2. \A i \in 1..Len(events) : more[i] = Entry(events[i])
  BY <1>1
<1>3. log' = log \o more
  BY DEF Logged
<1>4. Len(log) \in Nat
  OBVIOUS
<1> HIDE DEF more
<1>5. /\ log' \in Seq(LogEntry) /\ Len(log') = Len(log) + Len(events)
      /\ \A i \in 1..(Len(log) + Len(events)) :
            log'[i] = IF i =< Len(log) THEN log[i] ELSE more[i - Len(log)]
  <2>1. more \in Seq(LogEntry) /\ log \in Seq(LogEntry)
    BY <1>1
  <2>2. /\ log \o more \in Seq(LogEntry) /\ Len(log \o more) = Len(log) + Len(more)
        /\ \A i \in 1..(Len(log) + Len(more)) :
              (log \o more)[i] = IF i =< Len(log) THEN log[i] ELSE more[i - Len(log)]
    BY <2>1, ConcatProperties
  <2> QED BY <1>1, <1>3, <2>2
<1>6. \A i \in 1..Len(log) : i \in 1..(Len(log) + Len(events)) /\ i =< Len(log)
  BY <1>1, <1>4
<1>7. \A i \in 1..Len(events) : /\ Len(log) + i \in 1..(Len(log) + Len(events))
                                /\ ~(Len(log) + i =< Len(log)) /\ (Len(log) + i) - Len(log) = i
  BY <1>1, <1>4
<1> QED BY <1>2, <1>5, <1>6, <1>7

\* Nothing logged.
LEMMA LogNone ==
    ASSUME log \in Seq(LogEntry), Logged(<<>>)
    PROVE  log' = log
<1>1. [i \in DOMAIN <<>> |-> Entry(<<>>[i])] = <<>>
  OBVIOUS
<1> QED BY <1>1, ConcatEmptySeq DEF Logged

\* One event logged.
LEMMA LogOne ==
    ASSUME log \in Seq(LogEntry), phase \in Phase, NEW a \in Event, Logged(<<a>>)
    PROVE  /\ log' \in Seq(LogEntry) /\ Len(log) \in Nat /\ Len(log') = Len(log) + 1
           /\ \A i \in 1..Len(log) : log'[i] = log[i]
           /\ log'[Len(log) + 1].event = a /\ log'[Len(log) + 1].phase = phase
           /\ \A e : At(e)' = IF e = a THEN At(e) \cup {Len(log) + 1} ELSE At(e)
<1> DEFINE events == <<a>>
<1>0. Len(log) \in Nat
  OBVIOUS
<1>1. events \in Seq(Event) /\ Len(events) = 1 /\ events[1] = a /\ Len(log) \in Nat
  BY <1>0, Lists
<1>1a. Logged(events)
  BY DEF events
<1> HIDE DEF events
<1>2. /\ log' \in Seq(LogEntry) /\ Len(log') = Len(log) + 1
      /\ \A i \in 1..Len(log) : log'[i] = log[i]
      /\ log'[Len(log) + 1] = Entry(a)
  <2>1. /\ log' \in Seq(LogEntry) /\ Len(log') = Len(log) + Len(events)
        /\ \A i \in 1..Len(log) : log'[i] = log[i]
        /\ \A i \in 1..Len(events) : log'[Len(log) + i] = Entry(events[i])
    BY <1>1, <1>1a, LogStep
  <2> QED BY <1>1, <2>1
<1>3. log'[Len(log) + 1].event = a /\ log'[Len(log) + 1].phase = phase
  BY <1>2 DEF Entry
<1>4. DOMAIN log = 1..Len(log) /\ DOMAIN log' = 1..Len(log')
  BY <1>2
<1>5. \A e : At(e)' = IF e = a THEN At(e) \cup {Len(log) + 1} ELSE At(e)
  BY <1>1, <1>2, <1>3, <1>4 DEF At
<1> QED BY <1>1, <1>2, <1>3, <1>5

\* Two events logged.
LEMMA LogTwo ==
    ASSUME log \in Seq(LogEntry), phase \in Phase, NEW a \in Event, NEW b \in Event, a # b,
           Logged(<<a, b>>)
    PROVE  /\ log' \in Seq(LogEntry) /\ Len(log) \in Nat /\ Len(log') = Len(log) + 2
           /\ \A i \in 1..Len(log) : log'[i] = log[i]
           /\ log'[Len(log) + 1].event = a /\ log'[Len(log) + 1].phase = phase
           /\ log'[Len(log) + 2].event = b /\ log'[Len(log) + 2].phase = phase
           /\ \A e : At(e)' = IF e = a THEN At(e) \cup {Len(log) + 1}
                                ELSE IF e = b THEN At(e) \cup {Len(log) + 2} ELSE At(e)
<1> DEFINE events == <<a, b>>
<1>0. Len(log) \in Nat
  OBVIOUS
<1>1. /\ events \in Seq(Event) /\ Len(events) = 2 /\ events[1] = a /\ events[2] = b
      /\ Len(log) \in Nat
  BY <1>0, Lists
<1>1a. Logged(events)
  BY DEF events
<1> HIDE DEF events
<1>2. /\ log' \in Seq(LogEntry) /\ Len(log') = Len(log) + 2
      /\ \A i \in 1..Len(log) : log'[i] = log[i]
      /\ log'[Len(log) + 1] = Entry(a) /\ log'[Len(log) + 2] = Entry(b)
  <2>0. 1 \in 1..2 /\ 2 \in 1..2
    OBVIOUS
  <2>1. /\ log' \in Seq(LogEntry) /\ Len(log') = Len(log) + Len(events)
        /\ \A i \in 1..Len(log) : log'[i] = log[i]
        /\ \A i \in 1..Len(events) : log'[Len(log) + i] = Entry(events[i])
    BY <1>1, <1>1a, LogStep
  <2> QED BY <1>1, <2>0, <2>1
<1>3. /\ log'[Len(log) + 1].event = a /\ log'[Len(log) + 1].phase = phase
      /\ log'[Len(log) + 2].event = b /\ log'[Len(log) + 2].phase = phase
  BY <1>2 DEF Entry
<1>4. DOMAIN log = 1..Len(log) /\ DOMAIN log' = 1..Len(log')
  BY <1>2
<1>5. \A i \in 1..Len(log') : i \in 1..Len(log) \/ i = Len(log) + 1 \/ i = Len(log) + 2
  BY <1>1, <1>2
<1>5a. /\ \A i \in 1..Len(log) : i \in 1..Len(log')
       /\ Len(log) + 1 \in 1..Len(log') /\ Len(log) + 2 \in 1..Len(log')
  BY <1>1, <1>2
<1>6. \A e : At(e)' = IF e = a THEN At(e) \cup {Len(log) + 1}
                        ELSE IF e = b THEN At(e) \cup {Len(log) + 2} ELSE At(e)
  <2> SUFFICES ASSUME NEW e
               PROVE  At(e)' = IF e = a THEN At(e) \cup {Len(log) + 1}
                                 ELSE IF e = b THEN At(e) \cup {Len(log) + 2} ELSE At(e)
    OBVIOUS
  <2>1. CASE e = a
    BY <1>2, <1>3, <1>4, <1>5, <1>5a, <2>1 DEF At
  <2>2. CASE e = b
    BY <1>2, <1>3, <1>4, <1>5, <1>5a, <2>2 DEF At
  <2>3. CASE e # a /\ e # b
    BY <1>2, <1>3, <1>4, <1>5, <1>5a, <2>3 DEF At
  <2> QED BY <2>1, <2>2, <2>3
<1> QED BY <1>1, <1>2, <1>3, <1>6

\* The positions of an event are numbers up to the log's length.
LEMMA AtRange ==
    ASSUME log \in Seq(LogEntry)
    PROVE  /\ \A e : At(e) \subseteq 1..Len(log)
           /\ \A p : Of(p) \subseteq 1..Len(log)
  BY DEF At, Of

-------------------------------------------------------------------------------

\* The model client's budget is the controller's: ModelCall does Budget's arithmetic.
LEMMA SameArithmetic ==
    /\ Model!FreshBudget = FreshBudget /\ Model!NoCap = NoCap
    /\ \A b, now : Model!Checked(b, now) = Checked(b, now)
    /\ \A b, e, p, m, now : Model!Prepared(b, e, p, m, now) = Prepared(b, e, p, m, now)
    /\ \A u : Model!ValidUsage(u) = ValidUsage(u)
    /\ \A b, u : Model!Charged(b, u) = Charged(b, u)
<1>1. Model!NoCap = NoCap /\ \A b, kind : Model!Fire(b, kind) = Fire(b, kind)
  BY DEF Model!NoCap, NoCap, Model!Fire, Fire
<1>2. Model!FreshBudget = FreshBudget
  BY <1>1 DEF Model!FreshBudget, FreshBudget
<1>3. \A b, now : Model!Checked(b, now) = Checked(b, now)
  BY <1>1 DEF Model!Checked, Checked
<1>4. \A i : Model!InputFactor(i) = InputFactor(i) /\ Model!OutputRate(i) = OutputRate(i)
  BY DEF Model!InputFactor, InputFactor, Model!OutputRate, OutputRate
<1>5. \A b, e : Model!Affordable(b, e) = Affordable(b, e)
  BY <1>4 DEF Model!Affordable, Affordable
<1>6. \A b, e, p : Model!Allowance(b, e, p) = Allowance(b, e, p)
  BY <1>5 DEF Model!Allowance, Allowance, Model!Least, Least
<1>7. \A b, e, p, m, now : Model!Prepared(b, e, p, m, now) = Prepared(b, e, p, m, now)
  BY <1>1, <1>3, <1>5, <1>6 DEF Model!Prepared, Prepared
<1>8. \A u : Model!ValidUsage(u) = ValidUsage(u)
  BY DEF Model!ValidUsage, ValidUsage
<1>9. \A u : Model!UsageCost(u) = UsageCost(u)
  BY <1>4 DEF Model!UsageCost, UsageCost
<1>10. \A b, u : Model!Charged(b, u) = Charged(b, u)
  BY <1>1, <1>9 DEF Model!Charged, Charged
<1> QED BY <1>1, <1>2, <1>3, <1>7, <1>8, <1>10

\* The step leaves a budget with the same tool calls, and never unfires a cap.
BudgetKept ==
    /\ budget' \in BudgetState /\ budget'.toolCalls = budget.toolCalls
    /\ budget'.fired = NoCap => budget.fired = NoCap

\* A preflight admits the request or fires a cap.
LEMMA SendEffect ==
    ASSUME budget \in BudgetState, clock \in Nat, Model!Send
    PROVE  /\ BudgetKept /\ clock' = clock /\ call \in {"idle", "accepted"}
           /\ call' = IF budget'.fired = NoCap THEN "out" ELSE "capped"
<1>1. \A est, preferred, minimum \in Nat :
        LET b == Prepared(budget, est, preferred, minimum, clock)
        IN  /\ b \in BudgetState /\ b.toolCalls = budget.toolCalls
            /\ budget.fired # NoCap => b = budget
  BY PreparedLemma
<1>2. PICK est \in Estimates : \E preferred \in Outputs, minimum \in Outputs :
        budget' = Prepared(budget, est, preferred, minimum, clock)
  BY SameArithmetic DEF Model!Send
<1>3. PICK preferred \in Outputs, minimum \in Outputs :
        budget' = Prepared(budget, est, preferred, minimum, clock)
  BY <1>2
<1>4. est \in Nat /\ preferred \in Nat /\ minimum \in Nat
  BY InvestigationAssumption
<1>5. BudgetKept
  BY <1>1, <1>3, <1>4 DEF BudgetKept
<1> QED BY <1>5, SameArithmetic DEF Model!Send

\* A response is charged in full, within the caps or with one that it fires.
LEMMA ChargeEffect ==
    ASSUME budget \in BudgetState, clock \in Nat, Model!Charge
    PROVE  /\ BudgetKept /\ clock' = clock /\ call = "out"
           /\ call' = IF budget'.fired = NoCap THEN "charged" ELSE "capped"
<1>1. PICK u \in Usages : ValidUsage(u) /\ budget' = Charged(budget, u)
  BY SameArithmetic DEF Model!Charge
<1>2. u \in Usage
  BY InvestigationAssumption
<1>3. BudgetKept
  BY <1>1, <1>2, ChargedLemma DEF BudgetKept
<1> QED BY <1>3, SameArithmetic DEF Model!Charge

\* The other ends of a call: a cap, an answer, a failure.
LEMMA EndEffect ==
    ASSUME budget \in BudgetState, clock \in Nat
    PROVE  /\ Model!Expire => /\ BudgetKept /\ clock' = clock /\ call = "out"
                              /\ budget'.fired # NoCap /\ call' = "capped"
           /\ Model!Accept => /\ BudgetKept /\ clock' = clock /\ call = "charged"
                              /\ call' \in IF budget'.fired = NoCap THEN {"accepted", "failed"}
                                                                    ELSE {"capped"}
           /\ Model!Fail => /\ BudgetKept /\ clock' = clock /\ call = "out"
                            /\ budget' = budget /\ call' = "failed"
<1>1. ASSUME budget' = Checked(budget, clock) PROVE BudgetKept
  BY <1>1, CheckedLemma DEF BudgetKept
<1>2. ASSUME budget' = budget PROVE BudgetKept
  BY <1>2 DEF BudgetKept
<1> QED BY <1>1, <1>2, SameArithmetic DEF Model!Expire, Model!Accept, Model!Fail

\* The required events are nine different ones, and no other event is one of them.
LEMMA RequiredEvents ==
    /\ Required[1] = "investigation.started" /\ Required[2] = "opening.completed"
    /\ Required[3] = "investigator.done" /\ Required[4] = "investigator.finished"
    /\ Required[5] = "judge.started" /\ Required[6] = "judge.completed"
    /\ Required[7] = "report.started" /\ Required[8] = "report.completed"
    /\ Required[9] = "investigation.completed"
    /\ \A j, k \in 1..9 : Required[j] = Required[k] => j = k
    /\ \A k \in 1..9 : Required[k] \notin
         {"model.response", "tool.started", "tool.completed", "investigator.notes.updated",
          "investigator.action"} \cup Failures
<1>1. /\ Required[1] = "investigation.started" /\ Required[2] = "opening.completed"
      /\ Required[3] = "investigator.done" /\ Required[4] = "investigator.finished"
      /\ Required[5] = "judge.started" /\ Required[6] = "judge.completed"
      /\ Required[7] = "report.started" /\ Required[8] = "report.completed"
      /\ Required[9] = "investigation.completed"
  BY DEF Required
<1>2. \A k \in 1..9 : k = 1 \/ k = 2 \/ k = 3 \/ k = 4 \/ k = 5 \/ k = 6 \/ k = 7 \/ k = 8 \/ k = 9
  OBVIOUS
<1>3. \A j, k \in 1..9 : Required[j] = Required[k] => j = k
  BY ONLY <1>1, <1>2
<1>4. \A k \in 1..9 : Required[k] \notin
         {"model.response", "tool.started", "tool.completed", "investigator.notes.updated",
          "investigator.action"} \cup Failures
  BY <1>1, <1>2 DEF Failures
<1> QED BY <1>1, <1>3, <1>4

-------------------------------------------------------------------------------
\* Initially, and when the clock ticks.

\* The invariant holds when the run begins.
LEMMA InitHolds == Init => IInv
<1> SUFFICES ASSUME Init PROVE IInv
  OBVIOUS
<1>1. budget = FreshBudget /\ budget \in BudgetState /\ clock = 0 /\ call = "idle"
  BY SameArithmetic DEF Init, Model!Init, FreshBudget, BudgetState
<1>2. log = <<>> /\ log \in Seq(LogEntry)
  BY DEF Init
<1>3. \A e : At(e) = {}
  BY <1>2 DEF At
<1>4. DOMAIN findings = {} /\ DOMAIN verdicts = {}
  BY DEF Init
<1>5. TypeOK
  BY <1>1, <1>2, <1>4 DEF Init, TypeOK, Phase, PhaseOrder, Steps
<1>6. Control
  BY <1>1 DEF Init, Control
<1>7. Capped
  BY <1>1, <1>3 DEF Init, Capped, FreshBudget
<1>8. Judged
  BY <1>4 DEF Init, Judged
<1>9. Bounded
  <2>1. IsFiniteSet({}) /\ Cardinality({}) = 0
    BY FS_EmptySet
  <2>2. budget.toolCalls = 0 /\ Spare = 0 /\ ~Owing
    BY <1>1 DEF Init, FreshBudget, Spare, Owing
  <2> QED BY <1>3, <2>1, <2>2, CapConfigAssumption DEF Bounded
<1>10. OnCourse
  <2>1. Accounted
    <3>1. ReceiptIds = {} /\ IsFiniteSet(receipts) /\ Cardinality(receipts) = 0
          /\ Cardinality(pending) = 0
      BY FS_EmptySet DEF Init, ReceiptIds
    <3> QED BY <1>1, <3>1 DEF Init, Accounted, FreshBudget
  <2>2. Stage = 0
    BY DEF Init, Stage
  <2>3. OnStage /\ Ordered /\ Unfailed
    BY <1>3, <2>2 DEF OnStage, Ordered, Unfailed
  <2>4. \A p : Of(p) = {}
    BY <1>3 DEF Of
  <2>5. \A p : ~Answered(p)
    BY <2>2 DEF Answered, First
  <2>6. Once /\ Within /\ Followed
    BY <1>3, <2>4, <2>5 DEF Once, Within, Followed
  <2> QED BY <2>1, <2>3, <2>6 DEF OnCourse
<1> QED BY <1>2, <1>5, <1>6, <1>7, <1>8, <1>9, <1>10 DEF IInv

\* A step that leaves the run itself alone leaves the invariant.
LEMMA SameRun ==
    ASSUME IInv, clock' \in Nat, UNCHANGED <<budget, call, agentVars>>
    PROVE  IInv'
<1>0. UNCHANGED <<budget, call, phase, step, pending, claimed, receipts, findings, verdicts,
                  terminal, log, status, completedAt>>
  BY DEF agentVars, tooling, outcome, ending
<1>1. TypeOK' /\ log' \in Seq(LogEntry)
  BY <1>0 DEF IInv, TypeOK
<1>2. Control'
  BY <1>0 DEF IInv, Control, Asking
<1>3. (\A e : At(e)' = At(e)) /\ Stage' = Stage
  BY <1>0 DEF At, Stage
<1>4. (\A p : Of(p)' = Of(p)) /\ \A p : Answered(p)' <=> Answered(p)
  BY <1>0, <1>3 DEF Of, Answered
<1>5. Capped'
  BY <1>0, <1>3 DEF IInv, Capped
<1>6. Judged'
  <2>1. \A ids : Succeeded(ids)' <=> Succeeded(ids)
    BY <1>0 DEF Succeeded
  <2>2. Answering' <=> Answering
    BY <1>0, <2>1 DEF Answering
  <2> QED BY <1>0, <2>2 DEF IInv, Judged
<1>7. Bounded'
  BY <1>0, <1>3 DEF IInv, Bounded, Spare, Owing
<1>8. Smooth' <=> Smooth
  BY <1>0 DEF Smooth
<1>9. Accounted' <=> Accounted
  BY <1>0 DEF Accounted, ReceiptIds
<1>10. OnStage' <=> OnStage
  BY <1>3 DEF OnStage
<1>11. (Ordered' <=> Ordered) /\ (Unfailed' <=> Unfailed)
  BY <1>3 DEF Ordered, Unfailed
<1>12. Once' <=> Once
  BY <1>0, <1>3, <1>4 DEF Once
<1>13. Within' <=> Within
  BY <1>3, <1>4 DEF Within
<1>14. Followed' <=> Followed
  <2>1. \A i : Taken(i)' <=> Taken(i)
    BY <1>0, <1>4 DEF Taken, TurnAt
  <2>2. \A i : Taking(i)' <=> Taking(i)
    BY <1>0 DEF Taking, TurnAt
  <2> QED BY <1>4, <2>1, <2>2 DEF Followed
<1>15. OnCourse'
  BY <1>8, <1>9, <1>10, <1>11, <1>12, <1>13, <1>14 DEF IInv, OnCourse
<1> QED BY <1>1, <1>2, <1>5, <1>6, <1>7, <1>15 DEF IInv

\* Only the clock moves.
LEMMA TickKeeps == ASSUME IInv, Tick PROVE IInv'
<1>1. UNCHANGED <<budget, call, agentVars>> /\ clock' = clock + 1
  BY DEF Tick, Model!Tick
<1>2. clock' \in Nat
  BY <1>1 DEF IInv, TypeOK
<1> QED BY <1>1, <1>2, SameRun

-------------------------------------------------------------------------------
\* What a run on course keeps when its log grows.

\* The log keeps what it has.
Grows ==
    /\ log \in Seq(LogEntry) /\ log' \in Seq(LogEntry)
    /\ Len(log) \in Nat /\ Len(log') \in Nat /\ Len(log) =< Len(log')
    /\ \A i \in 1..Len(log) : log'[i] = log[i]

\* Without a new response every phase has the responses that it had.
LEMMA OfKept ==
    ASSUME Grows, At("model.response")' = At("model.response")
    PROVE  \A p : Of(p)' = Of(p)
<1>1. At("model.response") \subseteq 1..Len(log)
  BY AtRange DEF Grows
<1> QED BY <1>1 DEF Of, Grows

\* Without a required event the lifecycle stays at its stage.
LEMMA StageKept ==
    ASSUME OnStage, Ordered, Stage' = Stage,
           \A k \in 1..9 : At(Required[k])' = At(Required[k])
    PROVE  OnStage' /\ Ordered'
<1>1. OnStage'
  BY DEF OnStage
<1>2. \A k \in 1..8 : k \in 1..9 /\ k + 1 \in 1..9
  OBVIOUS
<1>3. Ordered'
  BY <1>2 DEF Ordered
<1> QED BY <1>1, <1>3

\* The next required event comes after the others, and after the responses of its phase.
LEMMA StageNext ==
    ASSUME Grows, OnStage, Ordered, Once, Within,
           NEW k \in 1..9, NEW n \in Nat, Len(log) < n, Stage = k - 1, Stage' = k,
           \A j \in 1..9 : At(Required[j])' = IF j = k THEN At(Required[j]) \cup {n}
                                                       ELSE At(Required[j]),
           \A p : Of(p)' = Of(p)
    PROVE  OnStage' /\ Ordered' /\ Within'
<1>1. \A e : At(e) \subseteq 1..Len(log)
  BY AtRange DEF Grows
<1>2. \A j \in 1..9 : j >= k => At(Required[j]) = {}
  <2> SUFFICES ASSUME NEW j \in 1..9, j >= k PROVE At(Required[j]) = {}
    OBVIOUS
  <2>1. ~(j =< Stage)
    OBVIOUS
  <2> QED BY <2>1 DEF OnStage
<1>3. OnStage'
  <2> SUFFICES ASSUME NEW j \in 1..9
               PROVE  IF j =< k THEN \E i \in Nat : At(Required[j])' = {i}
                                ELSE At(Required[j])' = {}
    BY DEF OnStage
  <2>1. CASE j = k
    BY <1>2, <2>1
  <2>2. CASE j < k
    <3>1. j =< Stage
      BY <2>2
    <3> QED BY <2>2, <3>1 DEF OnStage
  <2>3. CASE j > k
    BY <1>2, <2>3
  <2> QED BY <2>1, <2>2, <2>3
<1>4. Ordered'
  <2> SUFFICES ASSUME NEW m \in 1..8, NEW i \in At(Required[m])', NEW j \in At(Required[m + 1])'
               PROVE  i < j
    BY DEF Ordered
  <2>1. m \in 1..9 /\ m + 1 \in 1..9
    OBVIOUS
  <2>2. CASE m = k
    <3>1. At(Required[m + 1])' = {}
      BY <1>2, <2>1, <2>2
    <3> QED BY <3>1
  <2>3. CASE m + 1 = k
    <3>1. j = n
      BY <1>2, <2>1, <2>3
    <3>2. i \in At(Required[m])
      BY <2>1, <2>3
    <3>3. i \in 1..Len(log)
      BY <1>1, <3>2
    <3> QED BY <3>1, <3>3 DEF Grows
  <2>4. CASE m # k /\ m + 1 # k
    <3>1. i \in At(Required[m]) /\ j \in At(Required[m + 1])
      BY <2>1, <2>4
    <3> QED BY <3>1 DEF Ordered
  <2> QED BY <2>2, <2>3, <2>4
<1>5. Within'
  <2> SUFFICES ASSUME NEW p \in Single \cup {"investigate"}, NEW i \in Of(p)
               PROVE  /\ \A b \in At(Required[First(p)])' : b < i
                      /\ \A e \in At(Required[First(p) + 1])' : i < e
    BY DEF Within
  <2>1. First(p) \in 1..9 /\ First(p) + 1 \in 1..9 /\ (p = "investigate" <=> First(p) = 2)
    BY DEF First, Single
  <2>2. First(p) # k
    <3> SUFFICES ASSUME First(p) = k PROVE FALSE
      OBVIOUS
    <3>1. Stage < First(p)
      OBVIOUS
    <3>2. ~Answered(p)
      BY <2>1, <3>1 DEF Answered
    <3>3. CASE p = "investigate"
      BY <2>1, <3>1, <3>3 DEF Once
    <3>4. CASE p \in Single
      BY <3>2, <3>4 DEF Once
    <3> QED BY <3>3, <3>4
  <2>3. At(Required[First(p)])' = At(Required[First(p)])
    BY <2>1, <2>2
  <2>4. i \in 1..Len(log)
    BY <1>1 DEF Of
  <2>5. i < n
    BY <2>4 DEF Grows
  <2>6. \A e \in At(Required[First(p) + 1])' : e \in At(Required[First(p) + 1]) \/ e = n
    BY <2>1
  <2> QED BY <2>3, <2>5, <2>6 DEF Within
<1> QED BY <1>3, <1>4, <1>5

\* Without a new response the counts of responses stand, if no phase has gone back.
LEMMA OnceKept ==
    ASSUME Grows, Once, At("model.response")' = At("model.response"),
           \A p \in Single : Answered(p)' <=> Answered(p),
           Stage' < 2 => Stage < 2,
           Answered("investigate")' => Answered("investigate")
    PROVE  Once'
<1>1. \A p : Of(p)' = Of(p)
  BY OfKept
<1>2. \A i \in At("model.response") : log'[i] = log[i]
  BY AtRange DEF Grows
<1> QED BY <1>1, <1>2 DEF Once

\* Without a new response each stands in the window of its phase.
LEMMA WithinKept ==
    ASSUME Within, \A p : Of(p)' = Of(p), \A k \in 1..9 : At(Required[k])' = At(Required[k])
    PROVE  Within'
<1>1. \A p \in Single \cup {"investigate"} : First(p) \in 1..9 /\ First(p) + 1 \in 1..9
  BY DEF First, Single
<1> QED BY <1>1 DEF Within

\* A turn taken stays taken.
LEMMA TakenKept ==
    ASSUME Grows, Of("investigate") \subseteq Of("investigate")', NEW i \in Of("investigate"),
           Taken(i)
    PROVE  Taken(i)'
<1>1. Of("investigate") \subseteq 1..Len(log)
  BY AtRange DEF Grows
<1>2. i \in 1..Len(log)
  BY <1>1
<1>3. CASE i + 1 =< Len(log) /\ log[i + 1].event = "investigator.done"
  <2>1. i + 1 \in 1..Len(log) /\ i + 1 =< Len(log')
    BY <1>2, <1>3 DEF Grows
  <2> QED BY <1>3, <2>1 DEF Taken, Grows
<1>4. CASE i + 5 \in Of("investigate") /\ TurnAt(i)
  <2>1. i + 5 \in 1..Len(log)
    BY <1>1, <1>4
  <2>2. i + 1 \in 1..Len(log) /\ i + 2 \in 1..Len(log) /\ i + 3 \in 1..Len(log)
        /\ i + 4 \in 1..Len(log)
    BY <1>2, <2>1 DEF Grows
  <2>3. TurnAt(i)'
    BY <1>4, <2>2 DEF TurnAt, Grows
  <2> QED BY <1>4, <2>3 DEF Taken
<1> QED BY <1>3, <1>4 DEF Taken

\* Outside the loop all turns have been taken, and stay so.
LEMMA FollowedKept ==
    ASSUME Grows, Followed, phase # "investigate", Of("investigate")' = Of("investigate")
    PROVE  Followed'
<1>1. \A i \in Of("investigate") : Taken(i)
  BY DEF Followed, Taking
<1>2. \A i \in Of("investigate") : Taken(i)'
  BY <1>1, TakenKept
<1> QED BY <1>2 DEF Followed

-------------------------------------------------------------------------------
\* What the actions have in common.

\* One event more is growth.
LEMMA GrowsOne ==
    ASSUME log \in Seq(LogEntry), phase \in Phase, NEW a \in Event, Logged(<<a>>)
    PROVE  Grows /\ Len(log') = Len(log) + 1
<1>1. /\ log' \in Seq(LogEntry) /\ Len(log) \in Nat /\ Len(log') = Len(log) + 1
      /\ \A i \in 1..Len(log) : log'[i] = log[i]
  BY LogOne
<1> QED BY <1>1 DEF Grows

\* So are two.
LEMMA GrowsTwo ==
    ASSUME log \in Seq(LogEntry), phase \in Phase, NEW a \in Event, NEW b \in Event, a # b,
           Logged(<<a, b>>)
    PROVE  Grows /\ Len(log') = Len(log) + 2
<1>1. /\ log' \in Seq(LogEntry) /\ Len(log) \in Nat /\ Len(log') = Len(log) + 2
      /\ \A i \in 1..Len(log) : log'[i] = log[i]
  BY LogTwo
<1> QED BY <1>1 DEF Grows

\* Verdicts given stay good, and none are given early.
LEMMA JudgedKept ==
    ASSUME Judged, receipts \subseteq receipts', UNCHANGED <<findings, verdicts>>,
           phase' \in {"report", "closing"} \/ status' = "COMPLETE" =>
               phase \in {"report", "closing"} \/ status = "COMPLETE",
           phase' \in {"new", "opening", "investigate", "investigation-finalize"} =>
               phase \in {"new", "opening", "investigate", "investigation-finalize"},
           phase' = "judge" => phase = "judge"
    PROVE  Judged'
<1>1. \A ids : Succeeded(ids) => Succeeded(ids)'
  BY DEF Succeeded
<1>2. Answering => Answering'
  BY <1>1 DEF Answering
<1> QED BY <1>2 DEF Judged

\* A step without a tool leaves the registry's accounts.
LEMMA AccountedKept ==
    ASSUME Accounted, UNCHANGED <<pending, claimed, receipts>>,
           budget'.toolCalls = budget.toolCalls,
           phase' \in {"new", "opening", "investigate"} \/
              (phase \notin {"new", "opening", "investigate"} /\ terminal' = terminal)
    PROVE  Accounted'
  BY DEF Accounted, ReceiptIds

\* The log's entries have a phase.
LEMMA LogPhases == \A l \in Seq(LogEntry) : \A i \in DOMAIN l : l[i].phase \in Phase
<1> SUFFICES ASSUME NEW l \in Seq(LogEntry), NEW i \in DOMAIN l PROVE l[i].phase \in Phase
  OBVIOUS
<1>1. l[i] \in LogEntry
  OBVIOUS
<1> QED BY <1>1 DEF LogEntry

\* A required event and nothing else: the run is one stage further.
LEMMA Milestone ==
    ASSUME log \in Seq(LogEntry), phase \in Phase,
           OnStage, Ordered, Unfailed, Once, Within,
           NEW k \in 1..9, NEW a \in Event, a = Required[k], Logged(<<a>>),
           Stage = k - 1, Stage' = k,
           \A p \in Single : Answered(p)' <=> Answered(p),
           Answered("investigate")' => Answered("investigate")
    PROVE  OnStage' /\ Ordered' /\ Unfailed' /\ Once' /\ Within'
<1>1. /\ Grows /\ Len(log) \in Nat
      /\ \A e : At(e)' = IF e = a THEN At(e) \cup {Len(log) + 1} ELSE At(e)
  BY GrowsOne, LogOne
<1>2. \A j \in 1..9 : At(Required[j])' = IF j = k THEN At(Required[j]) \cup {Len(log) + 1}
                                                  ELSE At(Required[j])
  BY <1>1, RequiredEvents
<1>3. a # "model.response" /\ a \notin Failures
  BY RequiredEvents
<1>4. At("model.response")' = At("model.response")
  BY <1>1, <1>3
<1>5. \A p : Of(p)' = Of(p)
  BY <1>1, <1>4, OfKept
<1>6. Len(log) + 1 \in Nat /\ Len(log) < Len(log) + 1
  BY <1>1
<1>7. OnStage' /\ Ordered' /\ Within'
  BY <1>1, <1>2, <1>5, <1>6, StageNext
<1>8. Unfailed'
  BY <1>1, <1>3 DEF Unfailed
<1>9. Once'
  BY <1>1, <1>4, OnceKept
<1> QED BY <1>7, <1>8, <1>9

-------------------------------------------------------------------------------
\* The run begins; the model is asked and answers.

\* The first event opens the run.
LEMMA StartKeeps == ASSUME IInv, Start PROVE IInv'
<1>1. /\ phase = "new" /\ step = "ask" /\ phase' = "opening"
      /\ UNCHANGED <<clock, budget, call, step, pending, claimed, receipts, findings, verdicts,
                     terminal, status, completedAt>>
      /\ log \in Seq(LogEntry) /\ phase \in Phase
  BY DEF Start, IInv, Control, TypeOK, tooling, outcome, ending
<1>1a. Logged(<<"investigation.started">>) /\ "investigation.started" \in Event
  BY DEF Start, Event
<1>2. /\ log' \in Seq(LogEntry) /\ Len(log) \in Nat
      /\ \A e : At(e)' = IF e = "investigation.started" THEN At(e) \cup {Len(log) + 1} ELSE At(e)
      /\ Grows
  BY <1>1, <1>1a, LogOne, GrowsOne
<1>3. TypeOK'
  <2>1. phase' \in Phase
    BY <1>1 DEF Phase, PhaseOrder
  <2>2. \A i \in DOMAIN log' : log'[i].phase \in Phase
    BY <1>2, LogPhases
  <2> QED BY <1>1, <2>1, <2>2 DEF IInv, TypeOK
<1>4. Control'
  BY <1>1 DEF IInv, Control, Asking
<1>5. Capped'
  BY <1>1, <1>2 DEF IInv, Capped
<1>6. Judged'
  BY <1>1, JudgedKept DEF IInv
<1>7. Bounded'
  BY <1>1, <1>2 DEF IInv, Bounded, Spare, Owing
<1>8. ASSUME Smooth' PROVE OnCourse'
  <2>1. Smooth
    BY <1>1, <1>8 DEF Smooth
  <2>2. Accounted'
    BY <1>1, <2>1, AccountedKept DEF IInv, OnCourse
  <2>3. Stage = 0 /\ Stage' = 1
    BY <1>1 DEF Stage
  <2>4. \A p \in Single \cup {"investigate"} : ~Answered(p) /\ ~Answered(p)'
    BY <1>1, <2>3 DEF Answered, First
  <2>5. OnStage' /\ Ordered' /\ Unfailed' /\ Once' /\ Within'
    <3>1. Required[1] = "investigation.started" /\ 1 \in 1..9
      BY RequiredEvents
    <3>2. OnStage /\ Ordered /\ Unfailed /\ Once /\ Within
      BY <2>1 DEF IInv, OnCourse
    <3> QED BY <1>1, <1>1a, <2>3, <2>4, <3>1, <3>2, Milestone
  <2>6. Of("investigate")' = Of("investigate")
    BY <1>2, OfKept
  <2>7. Followed'
    BY <1>1, <1>2, <2>1, <2>6, FollowedKept DEF IInv, OnCourse
  <2> QED BY <2>2, <2>5, <2>7 DEF OnCourse
<1> QED BY <1>2, <1>3, <1>4, <1>5, <1>6, <1>7, <1>8 DEF IInv, OnCourse

\* A step that stops the course of the run: a cap has fired or the protocol is broken, and
\* there is at most one response more, answering a request.
LEMMA GoneWrong ==
    ASSUME IInv, TypeOK', Judged', log' \in Seq(LogEntry), UNCHANGED <<phase, status>>,
           step # "end", pending' = {}, budget'.toolCalls = budget.toolCalls,
           step' \in {"capped", "broken"}, call' \in {"idle", "accepted", "failed", "capped"},
           step' = "capped" <=> budget'.fired # NoCap,
           \/ At("cap.fired")' = {}
           \/ budget'.fired # NoCap /\ \E n \in Nat : At("cap.fired")' = {n},
           \/ At("model.response")' = At("model.response")
           \/ ~Owing /\ \E n : At("model.response")' = At("model.response") \cup {n},
           Asking \/ (phase = "closing" /\ step' = "capped")
    PROVE  IInv'
<1>1. status' = "running" /\ phase # "ended"
  BY DEF IInv, Control, TypeOK
<1>2. Control'
  BY <1>1 DEF Control, Asking
<1>3. Capped'
  BY <1>1 DEF Capped
<1>4. Bounded'
  <2> DEFINE n == Cardinality(At("model.response"))
             m == Cardinality(At("model.response"))'
  <2>1. n \in Nat /\ IsFiniteSet(At("model.response"))
    BY FS_CardinalityType DEF IInv, Bounded
  <2>2. Owing' /\ Spare' = Spare
    BY DEF Owing, Spare
  <2>3. IsFiniteSet(At("model.response"))' /\ m =< budget.toolCalls + Spare + 1
    <3>0. budget.toolCalls \in Nat /\ Spare \in Nat
      BY DEF IInv, TypeOK, BudgetState, Spare
    <3>1. CASE At("model.response")' = At("model.response")
      BY <2>1, <3>0, <3>1 DEF IInv, Bounded
    <3>2. CASE ~Owing /\ \E x : At("model.response")' = At("model.response") \cup {x}
      <4>1. PICK x : At("model.response")' = At("model.response") \cup {x}
        BY <3>2
      <4>2. n =< budget.toolCalls + Spare
        BY <2>1, <3>0, <3>2 DEF IInv, Bounded
      <4>3. IsFiniteSet(At("model.response"))' /\ m =< n + 1
        <5>1. /\ IsFiniteSet(At("model.response") \cup {x})
              /\ Cardinality(At("model.response") \cup {x}) =
                   IF x \in At("model.response") THEN n ELSE n + 1
          BY <2>1, FS_AddElement
        <5>2. m = Cardinality(At("model.response") \cup {x})
          BY <4>1
        <5>3. IsFiniteSet(At("model.response"))'
          BY <4>1, <5>1
        <5> HIDE DEF n, m
        <5>4. m = n \/ m = n + 1
          BY <5>1, <5>2
        <5> QED BY <2>1, <5>3, <5>4
      <4>4. m \in Nat
        BY <4>3, FS_CardinalityType
      <4> QED BY <2>1, <3>0, <4>2, <4>3, <4>4
    <3> QED BY <3>1, <3>2
  <2> QED BY <2>2, <2>3 DEF IInv, Bounded
<1>5. ~Smooth'
  BY DEF Smooth
<1> QED BY <1>2, <1>3, <1>4, <1>5 DEF IInv, OnCourse

\* An open call has left the budget open.
LEMMA OpenBudget ==
    ASSUME IInv, step \notin {"capped", "end"}
    PROVE  budget.fired = NoCap /\ At("cap.fired") = {}
  BY DEF IInv, Capped

\* The preflight of the next request.
LEMMA AskKeeps == ASSUME IInv, Ask PROVE IInv'
<1>1. /\ Asking /\ step = "ask" /\ step' = Outcome(call')
      /\ UNCHANGED <<phase, pending, claimed, receipts, findings, verdicts, terminal, status,
                     completedAt>>
      /\ log \in Seq(LogEntry) /\ phase \in Phase /\ budget \in BudgetState /\ clock \in Nat
      /\ pending = {} /\ status = "running"
  BY DEF Ask, IInv, Control, TypeOK, tooling, outcome, ending
<1>2. /\ BudgetKept /\ clock' = clock /\ call \in {"idle", "accepted"}
      /\ call' = IF budget'.fired = NoCap THEN "out" ELSE "capped"
  BY <1>1, SendEffect DEF Ask
<1>3. budget.fired = NoCap /\ At("cap.fired") = {}
  BY <1>1, OpenBudget
<1>4. /\ Grows /\ At("cap.fired")' = {} /\ At("model.response")' = At("model.response")
      /\ phase = "judge" => Logged(<<"judge.started">>)
      /\ phase = "report" => Logged(<<"report.started">>)
      /\ phase \notin {"judge", "report"} => log' = log
  <2>1. CASE phase \notin {"judge", "report"}
    <3>1. Logged(<<>>)
      BY <2>1 DEF Ask
    <3>2. log' = log
      BY <1>1, <3>1, LogNone
    <3>3. Grows /\ \A e : At(e)' = At(e)
      <4>1. Len(log) \in Nat
        BY <1>1
      <4> QED BY <1>1, <3>2, <4>1 DEF Grows, At
    <3> QED BY <1>3, <2>1, <3>2, <3>3
  <2>2. CASE phase = "judge"
    <3>1. Logged(<<"judge.started">>) /\ "judge.started" \in Event
      BY <2>2 DEF Ask, Event
    <3>2. Grows /\ \A e : At(e)' = IF e = "judge.started" THEN At(e) \cup {Len(log) + 1} ELSE At(e)
      BY <1>1, <3>1, GrowsOne, LogOne
    <3> QED BY <1>3, <2>2, <3>1, <3>2
  <2>3. CASE phase = "report"
    <3>1. Logged(<<"report.started">>) /\ "report.started" \in Event
      BY <2>3 DEF Ask, Event
    <3>2. Grows /\ \A e : At(e)' = IF e = "report.started" THEN At(e) \cup {Len(log) + 1} ELSE At(e)
      BY <1>1, <3>1, GrowsOne, LogOne
    <3> QED BY <1>3, <2>3, <3>1, <3>2
  <2> QED BY <2>1, <2>2, <2>3
<1>5. TypeOK'
  <2>1. step' \in {"await", "capped"} /\ call' \in {"out", "capped"}
    BY <1>1, <1>2 DEF Outcome
  <2>2. \A i \in DOMAIN log' : log'[i].phase \in Phase
    BY <1>4, LogPhases DEF Grows
  <2>3. step' \in Steps /\ budget' \in BudgetState /\ clock' \in Nat
    BY <1>1, <1>2, <2>1 DEF Steps, BudgetKept
  <2> QED BY <1>1, <2>1, <2>2, <2>3 DEF IInv, TypeOK
<1>6. Judged'
  BY <1>1, JudgedKept DEF IInv
<1>7. CASE budget'.fired # NoCap
  <2>1. step' = "capped" /\ call' = "capped" /\ pending' = {} /\ step # "end"
    BY <1>1, <1>2, <1>7 DEF Outcome
  <2> QED BY <1>1, <1>2, <1>4, <1>5, <1>6, <1>7, <2>1, GoneWrong DEF BudgetKept, Grows
<1>8. CASE budget'.fired = NoCap
  <2>1. step' = "await" /\ call' = "out"
    BY <1>1, <1>2, <1>8 DEF Outcome
  <2>2. Control'
    BY <1>1, <2>1 DEF IInv, Control, Asking
  <2>3. Capped'
    BY <1>1, <1>4, <1>8, <2>1 DEF IInv, Capped
  <2>4. Bounded'
    BY <1>1, <1>2, <1>4, <2>1 DEF IInv, Bounded, BudgetKept, Spare, Owing
  <2>5. Smooth
    BY <1>1, <1>3 DEF Smooth
  <2>6. Accounted'
    <3>1. phase' \in {"new", "opening", "investigate"} \/
            (phase \notin {"new", "opening", "investigate"} /\ terminal' = terminal)
      BY <1>1
    <3> QED BY <1>1, <1>2, <2>5, <3>1, AccountedKept DEF IInv, OnCourse, BudgetKept
  <2>7. /\ OnStage /\ Ordered /\ Unfailed /\ Once /\ Within /\ Followed
    BY <2>5 DEF IInv, OnCourse
  <2>8. /\ phase = "judge" => Stage = 4 /\ Stage' = 5
        /\ phase = "report" => Stage = 6 /\ Stage' = 7
        /\ phase \notin {"judge", "report"} => Stage' = Stage
    BY <1>1, <2>1 DEF Stage, Asking
  <2>9. Stage \in Nat
    BY DEF Stage
  <2>10. \A p \in Single \cup {"investigate"} : Answered(p)' <=> Answered(p)
    BY <1>1, <2>1, <2>8, <2>9 DEF Answered, First, Single
  <2>11. OnStage' /\ Ordered' /\ Unfailed' /\ Once' /\ Within'
    <3>1. CASE phase = "judge"
      <4>1. "judge.started" = Required[5] /\ 5 \in 1..9 /\ "judge.started" \in Event
        BY RequiredEvents DEF Event
      <4> QED BY <1>1, <1>4, <2>7, <2>8, <2>10, <3>1, <4>1, Milestone
    <3>2. CASE phase = "report"
      <4>1. "report.started" = Required[7] /\ 7 \in 1..9 /\ "report.started" \in Event
        BY RequiredEvents DEF Event
      <4> QED BY <1>1, <1>4, <2>7, <2>8, <2>10, <3>2, <4>1, Milestone
    <3>3. CASE phase \notin {"judge", "report"}
      <4>1. \A e : At(e)' = At(e)
        BY <1>4, <3>3 DEF At
      <4>2. \A p : Of(p)' = Of(p)
        BY <1>4, OfKept
      <4>3. OnStage' /\ Ordered' /\ Within'
        BY <2>7, <2>8, <3>3, <4>1, <4>2, StageKept, WithinKept
      <4>4. Unfailed'
        BY <2>7, <4>1 DEF Unfailed
      <4>5. Once'
        BY <1>4, <2>7, <2>8, <2>10, <3>3, OnceKept
      <4> QED BY <4>3, <4>4, <4>5
    <3> QED BY <3>1, <3>2, <3>3
  <2>12. Followed'
    <3>1. Of("investigate")' = Of("investigate")
      BY <1>4, OfKept
    <3>2. CASE phase # "investigate"
      BY <1>4, <2>7, <3>1, <3>2, FollowedKept
    <3>3. CASE phase = "investigate"
      <4>1. log' = log
        BY <1>4, <3>3
      <4>2. \A i : (Taken(i)' <=> Taken(i)) /\ (TurnAt(i)' <=> TurnAt(i))
        BY <3>1, <4>1 DEF Taken, TurnAt
      <4>3. \A i : Taking(i) => Taking(i)'
        BY <1>1, <2>1, <4>1, <4>2 DEF Taking
      <4> QED BY <2>7, <3>1, <4>2, <4>3 DEF Followed
    <3> QED BY <3>2, <3>3
  <2>13. OnCourse'
    BY <2>6, <2>11, <2>12 DEF OnCourse
  <2> QED BY <1>4, <1>5, <1>6, <2>2, <2>3, <2>4, <2>13 DEF IInv, Grows
<1> QED BY <1>7, <1>8

\* What the events that go with a stop leave of the caps and the responses on record.
LEMMA StopLog ==
    ASSUME log \in Seq(LogEntry), phase \in Phase, At("cap.fired") = {}
    PROVE  /\ Logged(<<>>) => /\ log' \in Seq(LogEntry) /\ At("cap.fired")' = {}
                              /\ At("model.response")' = At("model.response")
           /\ \A a \in Event : Logged(<<a>>) =>
                /\ log' \in Seq(LogEntry)
                /\ IF a = "cap.fired" THEN \E n \in Nat : At("cap.fired")' = {n}
                                      ELSE At("cap.fired")' = {}
                /\ IF a = "model.response"
                   THEN \E n : At("model.response")' = At("model.response") \cup {n}
                   ELSE At("model.response")' = At("model.response")
           /\ \A a, b \in Event : a # b /\ Logged(<<a, b>>) =>
                /\ log' \in Seq(LogEntry)
                /\ IF "cap.fired" \in {a, b} THEN \E n \in Nat : At("cap.fired")' = {n}
                                             ELSE At("cap.fired")' = {}
                /\ IF "model.response" \in {a, b}
                   THEN \E n : At("model.response")' = At("model.response") \cup {n}
                   ELSE At("model.response")' = At("model.response")
<1>0. Len(log) \in Nat
  OBVIOUS
<1>1. ASSUME Logged(<<>>)
      PROVE  /\ log' \in Seq(LogEntry) /\ At("cap.fired")' = {}
             /\ At("model.response")' = At("model.response")
  BY <1>1, LogNone DEF At
<1>2. ASSUME NEW a \in Event, Logged(<<a>>)
      PROVE  /\ log' \in Seq(LogEntry)
             /\ IF a = "cap.fired" THEN \E n \in Nat : At("cap.fired")' = {n}
                                   ELSE At("cap.fired")' = {}
             /\ IF a = "model.response"
                THEN \E n : At("model.response")' = At("model.response") \cup {n}
                ELSE At("model.response")' = At("model.response")
  <2>1. /\ log' \in Seq(LogEntry)
        /\ \A e : At(e)' = IF e = a THEN At(e) \cup {Len(log) + 1} ELSE At(e)
    BY <1>2, LogOne
  <2>2. Len(log) + 1 \in Nat /\ {} \cup {Len(log) + 1} = {Len(log) + 1}
    BY <1>0
  <2> QED BY <2>1, <2>2
<1>3. ASSUME NEW a \in Event, NEW b \in Event, a # b, Logged(<<a, b>>)
      PROVE  /\ log' \in Seq(LogEntry)
             /\ IF "cap.fired" \in {a, b} THEN \E n \in Nat : At("cap.fired")' = {n}
                                          ELSE At("cap.fired")' = {}
             /\ IF "model.response" \in {a, b}
                THEN \E n : At("model.response")' = At("model.response") \cup {n}
                ELSE At("model.response")' = At("model.response")
  <2>1. /\ log' \in Seq(LogEntry)
        /\ \A e : At(e)' = IF e = a THEN At(e) \cup {Len(log) + 1}
                           ELSE IF e = b THEN At(e) \cup {Len(log) + 2} ELSE At(e)
    BY <1>3, LogTwo
  <2>2. /\ Len(log) + 1 \in Nat /\ {} \cup {Len(log) + 1} = {Len(log) + 1}
        /\ Len(log) + 2 \in Nat /\ {} \cup {Len(log) + 2} = {Len(log) + 2}
    BY <1>0
  <2> QED BY <1>3, <2>1, <2>2
<1> QED BY <1>1, <1>2, <1>3

\* What holds whenever a call is out.
AwaitFacts ==
    /\ Asking /\ step = "await" /\ step' = Outcome(call')
    /\ UNCHANGED <<phase, pending, claimed, receipts, findings, verdicts, terminal, status,
                   completedAt>>
    /\ log \in Seq(LogEntry) /\ phase \in Phase /\ budget \in BudgetState /\ clock \in Nat
    /\ pending = {} /\ status = "running" /\ budget.fired = NoCap /\ At("cap.fired") = {}

\* They hold in an Await step.
LEMMA AwaitHas == ASSUME IInv, Await PROVE AwaitFacts
<1>1. step = "await" /\ budget.fired = NoCap /\ At("cap.fired") = {}
  BY OpenBudget DEF Await
<1> QED BY <1>1 DEF AwaitFacts, Await, IInv, Control, TypeOK, tooling, outcome, ending

\* The types after a step of the call.
LEMMA AwaitTypes ==
    ASSUME IInv, AwaitFacts, BudgetKept, clock' = clock, log' \in Seq(LogEntry),
           call' \in {"charged", "accepted", "failed", "capped"}
    PROVE  TypeOK' /\ Judged'
<1>1. step' \in Steps
  BY DEF AwaitFacts, Outcome, Steps
<1>2. \A i \in DOMAIN log' : log'[i].phase \in Phase
  BY LogPhases
<1>3. TypeOK'
  BY <1>1, <1>2 DEF AwaitFacts, IInv, TypeOK, BudgetKept
<1>4. Judged'
  BY JudgedKept DEF AwaitFacts, IInv
<1> QED BY <1>3, <1>4

\* A call that ends without an answer stops the run.
LEMMA AwaitStops ==
    ASSUME IInv, AwaitFacts, BudgetKept, clock' = clock, log' \in Seq(LogEntry),
           call' \in {"failed", "capped"}, call' = "capped" <=> budget'.fired # NoCap,
           \/ At("cap.fired")' = {}
           \/ budget'.fired # NoCap /\ \E n \in Nat : At("cap.fired")' = {n},
           \/ At("model.response")' = At("model.response")
           \/ /\ call = "out"
              /\ \E n : At("model.response")' = At("model.response") \cup {n}
    PROVE  IInv'
<1>1. TypeOK' /\ Judged'
  BY AwaitTypes
<1>2. step' = IF call' = "capped" THEN "capped" ELSE "broken"
  BY DEF AwaitFacts, Outcome
<1>3. call = "out" => ~Owing
  BY DEF Owing
<1>4. UNCHANGED <<phase, status>> /\ step # "end" /\ pending' = {} /\ Asking
      /\ budget'.toolCalls = budget.toolCalls
  BY DEF AwaitFacts, BudgetKept
<1>5. step' \in {"capped", "broken"} /\ (step' = "capped" <=> budget'.fired # NoCap)
      /\ call' \in {"idle", "accepted", "failed", "capped"}
  BY <1>2
<1>6. \/ At("model.response")' = At("model.response")
      \/ ~Owing /\ \E n : At("model.response")' = At("model.response") \cup {n}
  BY <1>3
<1> QED BY <1>1, <1>4, <1>5, <1>6, GoneWrong

\* A cap or the deadline ends it.
LEMMA ExpireKeeps ==
    ASSUME IInv, Await, Model!Expire,
           Logged(<<>>) \/ Logged(<<"cap.fired">>) \/ Logged(<<"model.error", "cap.fired">>)
    PROVE  IInv'
<1>1. AwaitFacts
  BY AwaitHas
<1>2. /\ BudgetKept /\ clock' = clock /\ call = "out"
      /\ budget'.fired # NoCap /\ call' = "capped"
  BY <1>1, EndEffect DEF AwaitFacts
<1>3. "cap.fired" \in Event /\ "model.error" \in Event
  BY DEF Event
<1>4. /\ log' \in Seq(LogEntry)
      /\ At("cap.fired")' = {} \/ \E n \in Nat : At("cap.fired")' = {n}
      /\ At("model.response")' = At("model.response")
  BY <1>1, <1>3, StopLog DEF AwaitFacts
<1> QED BY <1>1, <1>2, <1>4, AwaitStops

\* No attempt answers, or the answer cannot be charged.
LEMMA FailKeeps ==
    ASSUME IInv, Await, Model!Fail,
           Logged(<<"model.error">>) \/ Logged(<<"model.response", "model.error">>)
    PROVE  IInv'
<1>1. AwaitFacts
  BY AwaitHas
<1>2. /\ BudgetKept /\ clock' = clock /\ call = "out"
      /\ budget'.fired = NoCap /\ call' = "failed"
  BY <1>1, EndEffect DEF AwaitFacts
<1>3. "model.response" \in Event /\ "model.error" \in Event
  BY DEF Event
<1>4. /\ log' \in Seq(LogEntry) /\ At("cap.fired")' = {}
      /\ \/ At("model.response")' = At("model.response")
         \/ \E n : At("model.response")' = At("model.response") \cup {n}
  BY <1>1, <1>3, StopLog DEF AwaitFacts
<1> QED BY <1>1, <1>2, <1>4, AwaitStops

\* The answer is accepted, or found malformed or late.
LEMMA AcceptKeeps ==
    ASSUME IInv, Await, Model!Accept,
           Logged(CASE call' = "capped" -> <<"cap.fired">>
                    [] call' = "failed" -> <<"model.error">>
                    [] OTHER -> <<>>)
    PROVE  IInv'
<1>1. AwaitFacts
  BY AwaitHas
<1>2. /\ BudgetKept /\ clock' = clock /\ call = "charged"
      /\ call' \in IF budget'.fired = NoCap THEN {"accepted", "failed"} ELSE {"capped"}
  BY <1>1, EndEffect DEF AwaitFacts
<1>3. "cap.fired" \in Event /\ "model.error" \in Event
  BY DEF Event
<1>4. CASE call' = "capped"
  <2>1. Logged(<<"cap.fired">>)
    BY <1>4
  <2>2. /\ log' \in Seq(LogEntry) /\ \E n \in Nat : At("cap.fired")' = {n}
        /\ At("model.response")' = At("model.response")
    BY <1>1, <1>3, <2>1, StopLog DEF AwaitFacts
  <2> QED BY <1>1, <1>2, <1>4, <2>2, AwaitStops
<1>5. CASE call' = "failed"
  <2>1. Logged(<<"model.error">>)
    BY <1>5
  <2>2. /\ log' \in Seq(LogEntry) /\ At("cap.fired")' = {}
        /\ At("model.response")' = At("model.response")
    BY <1>1, <1>3, <2>1, StopLog DEF AwaitFacts
  <2> QED BY <1>1, <1>2, <1>5, <2>2, AwaitStops
<1>6. CASE call' = "accepted"
  <2>1. log' = log
    <3>1. Logged(<<>>)
      BY <1>6
    <3> QED BY <1>1, <3>1, LogNone DEF AwaitFacts
  <2>2. step' = "act" /\ budget'.fired = NoCap
    BY <1>1, <1>2, <1>6 DEF AwaitFacts, Outcome
  <2>3. Grows /\ \A e : At(e)' = At(e)
    <3>1. Len(log) \in Nat
      BY <1>1 DEF AwaitFacts
    <3> QED BY <1>1, <2>1, <3>1 DEF Grows, At, AwaitFacts
  <2>4. TypeOK' /\ Judged'
    BY <1>1, <1>2, <1>6, <2>3, AwaitTypes DEF Grows
  <2>5. Control'
    BY <1>1, <1>2, <1>6, <2>2 DEF IInv, Control, Asking, AwaitFacts
  <2>6. Capped'
    BY <1>1, <2>2, <2>3 DEF IInv, Capped, AwaitFacts
  <2>7. Owing' /\ Owing /\ Spare' = Spare
    BY <1>1, <1>2, <1>6, <2>2 DEF Owing, Spare, AwaitFacts
  <2>8. Bounded'
    BY <1>2, <2>3, <2>7 DEF IInv, Bounded, BudgetKept
  <2>9. Smooth
    BY <1>1 DEF Smooth, AwaitFacts
  <2>10. /\ Accounted /\ OnStage /\ Ordered /\ Unfailed /\ Once /\ Within /\ Followed
    BY <2>9 DEF IInv, OnCourse
  <2>11. Accounted'
    <3>1. phase' \in {"new", "opening", "investigate"} \/
            (phase \notin {"new", "opening", "investigate"} /\ terminal' = terminal)
      BY <1>1 DEF AwaitFacts
    <3> QED BY <1>1, <1>2, <2>10, <3>1, AccountedKept DEF BudgetKept, AwaitFacts
  <2>12. Stage' = Stage
    BY <1>1, <2>2 DEF Stage, AwaitFacts
  <2>13. \A p \in Single \cup {"investigate"} : Answered(p)' <=> Answered(p)
    BY <1>1, <1>2, <1>6, <2>2, <2>12 DEF Answered, AwaitFacts
  <2>14. \A p : Of(p)' = Of(p)
    BY <2>3, OfKept
  <2>15. OnStage' /\ Ordered' /\ Within'
    BY <2>3, <2>10, <2>12, <2>14, StageKept, WithinKept
  <2>16. Unfailed'
    BY <2>3, <2>10 DEF Unfailed
  <2>17. Once'
    BY <2>3, <2>10, <2>12, <2>13, OnceKept
  <2>18. Followed'
    <3>1. \A i : Taken(i)' <=> Taken(i)
      BY <2>1, <2>14 DEF Taken, TurnAt
    <3>2. \A i : Taking(i) => Taking(i)'
      BY <1>1, <1>2, <1>6, <2>1, <2>2 DEF Taking, AwaitFacts
    <3> QED BY <2>10, <2>14, <3>1, <3>2 DEF Followed
  <2> QED BY <2>3, <2>4, <2>5, <2>6, <2>8, <2>11, <2>15, <2>16, <2>17, <2>18
          DEF IInv, OnCourse, Grows
<1> QED BY <1>2, <1>4, <1>5, <1>6

\* The answer is on record: it is the phase's one response, or the next turn of the loop.
LEMMA ChargeKeeps ==
    ASSUME IInv, Await, Model!Charge,
           Logged(IF call' = "capped" THEN <<"model.response", "cap.fired">>
                                      ELSE <<"model.response">>)
    PROVE  IInv'
<1>1. AwaitFacts
  BY AwaitHas
<1>2. /\ BudgetKept /\ clock' = clock /\ call = "out"
      /\ call' = IF budget'.fired = NoCap THEN "charged" ELSE "capped"
  BY <1>1, ChargeEffect DEF AwaitFacts
<1>3. "cap.fired" \in Event /\ "model.response" \in Event
  BY DEF Event
<1>4. CASE call' = "capped"
  <2>1. Logged(<<"model.response", "cap.fired">>)
    BY <1>4
  <2>2. /\ log' \in Seq(LogEntry) /\ \E n \in Nat : At("cap.fired")' = {n}
        /\ \E n : At("model.response")' = At("model.response") \cup {n}
    BY <1>1, <1>3, <2>1, StopLog DEF AwaitFacts
  <2> QED BY <1>1, <1>2, <1>4, <2>2, AwaitStops
<1>5. CASE call' = "charged"
  <2>1. /\ log' \in Seq(LogEntry) /\ Len(log) \in Nat /\ Len(log') = Len(log) + 1
        /\ \A i \in 1..Len(log) : log'[i] = log[i]
        /\ log'[Len(log) + 1].event = "model.response" /\ log'[Len(log) + 1].phase = phase
        /\ \A e : At(e)' = IF e = "model.response" THEN At(e) \cup {Len(log) + 1} ELSE At(e)
    <3>1. Logged(<<"model.response">>)
      BY <1>5
    <3> QED BY <1>1, <1>3, <3>1, LogOne DEF AwaitFacts
  <2>2. step' = "await" /\ budget'.fired = NoCap
    BY <1>1, <1>2, <1>5 DEF AwaitFacts, Outcome
  <2>3. Grows
    BY <1>1, <2>1 DEF Grows, AwaitFacts
  <2>4. TypeOK' /\ Judged'
    BY <1>1, <1>2, <1>5, <2>3, AwaitTypes DEF Grows
  <2>5. Control'
    BY <1>1, <1>2, <1>5, <2>2 DEF IInv, Control, Asking, AwaitFacts
  <2>6. Capped'
    BY <1>1, <2>1, <2>2 DEF IInv, Capped, AwaitFacts
  <2>7. Owing' /\ ~Owing /\ Spare' = Spare /\ Spare \in Nat
    BY <1>1, <1>2, <1>5, <2>2 DEF Owing, Spare, AwaitFacts
  <2>8. Bounded'
    <3> DEFINE S == At("model.response")
               n == Len(log) + 1
    <3>1. IsFiniteSet(S) /\ Cardinality(S) \in Nat
      BY FS_CardinalityType DEF IInv, Bounded
    <3>2. /\ IsFiniteSet(S \cup {n})
          /\ Cardinality(S \cup {n}) = IF n \in S THEN Cardinality(S) ELSE Cardinality(S) + 1
      BY <3>1, FS_AddElement
    <3>3. Cardinality(S) =< budget.toolCalls + Spare
      BY <2>7, <3>1 DEF IInv, Bounded, TypeOK, BudgetState
    <3>4. At("model.response")' = S \cup {n}
      BY <2>1
    <3> HIDE DEF S, n
    <3>5. Cardinality(S \cup {n}) =< budget.toolCalls + Spare + 1
      BY <2>7, <3>1, <3>2, <3>3 DEF IInv, TypeOK, BudgetState
    <3> QED BY <1>2, <2>7, <3>2, <3>4, <3>5 DEF IInv, Bounded, BudgetKept
  <2>9. Smooth
    BY <1>1 DEF Smooth, AwaitFacts
  <2>10. /\ Accounted /\ OnStage /\ Ordered /\ Unfailed /\ Once /\ Within /\ Followed
    BY <2>9 DEF IInv, OnCourse
  <2>11. Accounted'
    <3>1. phase' \in {"new", "opening", "investigate"} \/
            (phase \notin {"new", "opening", "investigate"} /\ terminal' = terminal)
      BY <1>1 DEF AwaitFacts
    <3> QED BY <1>1, <1>2, <2>10, <3>1, AccountedKept DEF BudgetKept, AwaitFacts
  <2> DEFINE n == Len(log) + 1
  <2>12. /\ Stage' = Stage /\ Stage = First(phase) /\ Stage \in 1..7
         /\ phase \in Single \cup {"investigate"}
    BY <1>1, <2>2 DEF Stage, First, AwaitFacts, Asking, Single
  <2>13. \A p \in Single \cup {"investigate"} : First(p) = First(phase) => p = phase
    BY <2>12 DEF First, Single
  <2>14. \A p \in Single \cup {"investigate"} :
            IF p = phase THEN ~Answered(p) /\ Answered(p)'
                         ELSE Answered(p)' <=> Answered(p)
    <3>1. ~(step = "ask" \/ call = "out")'
      BY <1>5, <2>2
    <3>2. (step = "ask" \/ call = "out") /\ Stage \in Int /\ phase' = phase
      BY <1>1, <1>2, <2>12 DEF AwaitFacts
    <3>3. \A p \in Single \cup {"investigate"} : First(p) \in Int
      BY DEF First
    <3> QED BY <2>12, <2>13, <3>1, <3>2, <3>3 DEF Answered
  <2>15. At("model.response") \subseteq 1..Len(log) /\ n \notin At("model.response")
    <3>1. At("model.response") \subseteq 1..Len(log)
      BY <2>3, AtRange DEF Grows
    <3> QED BY <2>1, <3>1
  <2>16. \A i \in At("model.response") : log'[i] = log[i]
    BY <2>1, <2>15
  <2>17. At("model.response")' = At("model.response") \cup {n}
    BY <2>1
  <2>18. \A p : Of(p)' = IF p = phase THEN Of(p) \cup {n} ELSE Of(p)
    BY <2>1, <2>16, <2>17 DEF Of
  <2>19. \A k \in 1..9 : At(Required[k])' = At(Required[k])
    BY <2>1, RequiredEvents
  <2> HIDE DEF n
  <2>20. OnStage' /\ Ordered'
    BY <2>10, <2>12, <2>19, StageKept
  <2>21. Unfailed'
    BY <2>1, <2>10 DEF Unfailed, Failures
  <2>22. n \in Nat /\ Len(log) < n /\ Len(log') = n
    BY <2>1 DEF n
  <2>23. Once'
    <3>1. \A p \in Single : IF Answered(p)' THEN \E i \in Nat : Of(p)' = {i} ELSE Of(p)' = {}
      <4> SUFFICES ASSUME NEW p \in Single
                   PROVE  IF Answered(p)' THEN \E i \in Nat : Of(p)' = {i} ELSE Of(p)' = {}
        OBVIOUS
      <4>1. CASE p = phase
        <5>1. ~Answered(p) /\ Answered(p)'
          BY <2>14, <4>1
        <5>2. Of(p) = {}
          BY <2>10, <5>1 DEF Once
        <5>3. Of(p)' = {n}
          BY <2>18, <4>1, <5>2
        <5> QED BY <2>22, <5>1, <5>3
      <4>2. CASE p # phase
        <5>1. (Answered(p)' <=> Answered(p)) /\ Of(p)' = Of(p)
          BY <2>14, <2>18, <4>2
        <5> QED BY <2>10, <5>1 DEF Once
      <4> QED BY <4>1, <4>2
    <3>2. Stage' < 2 => Of("investigate")' = {}
      <4>1. Stage < 2 => phase # "investigate"
        BY <2>12 DEF First
      <4> QED BY <2>10, <2>12, <2>18, <4>1 DEF Once
    <3>3. Answered("investigate")' => Of("investigate")' # {}
      BY <2>10, <2>14, <2>18 DEF Once
    <3>4. \A i \in At("model.response")' : log'[i].phase \in Single \cup {"investigate"}
      <4>1. log'[n].phase = phase
        BY <2>1 DEF n
      <4> QED BY <2>10, <2>12, <2>16, <2>17, <4>1 DEF Once
    <3> QED BY <3>1, <3>2, <3>3, <3>4 DEF Once
  <2>24. Within'
    <3>1. \A p \in Single \cup {"investigate"} : First(p) \in 1..9 /\ First(p) + 1 \in 1..9
      BY DEF First, Single
    <3>2. At(Required[First(phase) + 1]) = {}
      BY <2>10, <2>12, <3>1 DEF OnStage
    <3>3. \A b \in At(Required[First(phase)]) : b < n
      <4>1. At(Required[First(phase)]) \subseteq 1..Len(log)
        BY <2>3, AtRange DEF Grows
      <4> QED BY <2>1, <2>22, <4>1
    <3> SUFFICES ASSUME NEW p \in Single \cup {"investigate"}, NEW i \in Of(p)'
                 PROVE  /\ \A b \in At(Required[First(p)]) : b < i
                        /\ \A e \in At(Required[First(p) + 1]) : i < e
      <4>1. \A p \in Single \cup {"investigate"} :
              /\ At(Required[First(p)])' = At(Required[First(p)])
              /\ At(Required[First(p) + 1])' = At(Required[First(p) + 1])
        BY <2>19, <3>1
      <4> QED BY <4>1 DEF Within
    <3>4. CASE i \in Of(p)
      BY <2>10, <3>4 DEF Within
    <3>5. CASE i \notin Of(p)
      <4>1. i = n /\ p = phase
        BY <2>18, <3>5
      <4> QED BY <3>2, <3>3, <4>1
    <3> QED BY <3>4, <3>5
  <2>25. Followed'
    <3>1. CASE phase # "investigate"
      <4>1. Of("investigate")' = Of("investigate")
        BY <2>18, <3>1
      <4> QED BY <2>3, <2>10, <3>1, <4>1, FollowedKept
    <3>2. CASE phase = "investigate"
      <4>1. Of("investigate")' = Of("investigate") \cup {n}
        BY <2>18, <3>2
      <4> SUFFICES ASSUME NEW i \in Of("investigate")' PROVE Taken(i)' \/ Taking(i)'
        BY DEF Followed
      <4>2. CASE i = n
        <5>1. phase' = "investigate" /\ step' = "await" /\ call' = "charged" /\ Len(log') = i
          BY <1>1, <1>5, <2>2, <2>22, <3>2, <4>2 DEF AwaitFacts
        <5> QED BY <5>1 DEF Taking
      <4>3. CASE i \in Of("investigate") /\ Taken(i)
        BY <2>3, <4>1, <4>3, TakenKept
      <4>4. CASE i \in Of("investigate") /\ Taking(i)
        <5>1. Len(log) = i + 4 /\ TurnAt(i)
          BY <1>1, <1>2, <4>4 DEF Taking, AwaitFacts
        <5>2. i \in 1..Len(log)
          BY <2>15, <4>4 DEF Of
        <5>3. /\ i + 1 \in 1..Len(log) /\ i + 2 \in 1..Len(log) /\ i + 3 \in 1..Len(log)
              /\ i + 4 \in 1..Len(log) /\ i + 5 = n
          BY <2>1, <5>1, <5>2 DEF n
        <5>4. TurnAt(i)'
          BY <2>1, <5>1, <5>3 DEF TurnAt
        <5> QED BY <4>1, <5>3, <5>4 DEF Taken
      <4> QED BY <2>10, <4>1, <4>2, <4>3, <4>4 DEF Followed
    <3> QED BY <3>1, <3>2
  <2> QED BY <2>3, <2>4, <2>5, <2>6, <2>8, <2>11, <2>20, <2>21, <2>23, <2>24, <2>25
          DEF IInv, OnCourse, Grows
<1> QED BY <1>2, <1>4, <1>5

\* A call goes on.
LEMMA AwaitKeeps == ASSUME IInv, Await PROVE IInv'
  BY ExpireKeeps, FailKeeps, AcceptKeeps, ChargeKeeps DEF Await

-------------------------------------------------------------------------------
\* The protocol breaks; tools are launched and observed.

\* Events that are not listed keep their places.
LEMMA LogOther ==
    ASSUME log \in Seq(LogEntry), phase \in Phase, NEW events \in Seq(Event), Logged(events),
           NEW e, \A i \in 1..Len(events) : events[i] # e
    PROVE  log' \in Seq(LogEntry) /\ At(e)' = At(e)
<1>1. /\ log' \in Seq(LogEntry) /\ Len(log') = Len(log) + Len(events)
      /\ \A i \in 1..Len(log) : log'[i] = log[i]
      /\ \A i \in 1..Len(events) : log'[Len(log) + i] = Entry(events[i])
  BY LogStep
<1>2. Len(log) \in Nat /\ Len(events) \in Nat
  OBVIOUS
<1>3. DOMAIN log = 1..Len(log) /\ DOMAIN log' = 1..Len(log')
  BY <1>1
<1>4. \A i \in DOMAIN log' : i \in 1..Len(log) \/ \E j \in 1..Len(events) : i = Len(log) + j
  <2> SUFFICES ASSUME NEW i \in 1..Len(log'), i \notin 1..Len(log)
               PROVE  \E j \in 1..Len(events) : i = Len(log) + j
    BY <1>3
  <2>1. i - Len(log) \in 1..Len(events) /\ i = Len(log) + (i - Len(log))
    BY <1>1, <1>2
  <2> QED BY <2>1
<1>5. \A j \in 1..Len(events) : log'[Len(log) + j].event # e
  <2>1. \A x : Entry(x).event = x
    BY DEF Entry
  <2> QED BY <1>1, <2>1
<1>6. \A i \in 1..Len(log) : i \in DOMAIN log'
  BY <1>1, <1>2, <1>3
<1> QED BY <1>1, <1>3, <1>4, <1>5, <1>6 DEF At

\* What holds when the agent acts on an answer.
LEMMA ActFacts ==
    ASSUME IInv, step = "act"
    PROVE  /\ Asking /\ call = "accepted" /\ pending = {} /\ status = "running" /\ Smooth /\ Owing
           /\ log \in Seq(LogEntry) /\ Len(log) \in Nat /\ phase \in Phase
           /\ budget \in BudgetState /\ clock \in Nat
           /\ budget.fired = NoCap /\ At("cap.fired") = {}
<1>1. budget.fired = NoCap /\ At("cap.fired") = {}
  BY OpenBudget
<1>2. Asking /\ call = "accepted" /\ pending = {} /\ status = "running"
  BY DEF IInv, Control, TypeOK
<1>3. log \in Seq(LogEntry) /\ phase \in Phase /\ budget \in BudgetState /\ clock \in Nat
  BY DEF IInv, TypeOK
<1>4. Len(log) \in Nat
  BY <1>3
<1> QED BY <1>1, <1>2, <1>3, <1>4 DEF Smooth, Owing

\* A broken protocol stops the run.
LEMMA BreakKeeps ==
    ASSUME IInv, step = "act", NEW events, Break(events),
           events \in {<<>>, <<"model.protocol_error">>, <<"investigator.notes.updated">>,
                       <<"judge.unknown_finding_rejected">>}
    PROVE  IInv'
<1>1. /\ step' = "broken" /\ Logged(events)
      /\ UNCHANGED <<clock, budget, call, phase, pending, claimed, receipts, findings, verdicts,
                     terminal, status, completedAt>>
  BY DEF Break, tooling, outcome, ending
<1>2. /\ Asking /\ call = "accepted" /\ pending = {} /\ status = "running"
      /\ log \in Seq(LogEntry) /\ phase \in Phase
      /\ budget.fired = NoCap /\ At("cap.fired") = {}
  BY ActFacts
<1>3. {"model.protocol_error", "investigator.notes.updated", "judge.unknown_finding_rejected"}
        \subseteq Event
  BY DEF Event
<1>4. /\ log' \in Seq(LogEntry) /\ At("cap.fired")' = {}
      /\ At("model.response")' = At("model.response")
  BY <1>1, <1>2, <1>3, StopLog
<1>5. TypeOK'
  <2>1. step' \in Steps /\ \A i \in DOMAIN log' : log'[i].phase \in Phase
    BY <1>1, <1>4, LogPhases DEF Steps
  <2> QED BY <1>1, <2>1 DEF IInv, TypeOK
<1>6. Judged'
  BY <1>1, JudgedKept DEF IInv
<1> QED BY <1>1, <1>2, <1>4, <1>5, <1>6, GoneWrong

\* Tools are launched, or a cap refuses them.
LEMMA LaunchKeeps ==
    ASSUME IInv, step = "act", phase \in {"opening", "investigate"},
           NEW ids \in SUBSET CallIds, ids # {}, NEW before, Launch(ids, before),
           \/ phase = "opening" /\ before = <<>>
           \/ phase = "investigate" /\ before = <<"investigator.notes.updated">>
    PROVE  IInv'
<1>1. /\ ids \cap claimed = {} /\ claimed' = claimed \cup ids
      /\ budget' = Reserved(budget, Cardinality(ids), clock)
      /\ UNCHANGED <<clock, call, phase, findings, verdicts, terminal, status, completedAt>>
  BY DEF Launch, outcome, ending
<1>2. /\ Asking /\ call = "accepted" /\ pending = {} /\ status = "running" /\ Smooth /\ Owing
      /\ log \in Seq(LogEntry) /\ Len(log) \in Nat /\ phase \in Phase
      /\ budget \in BudgetState /\ clock \in Nat
      /\ budget.fired = NoCap /\ At("cap.fired") = {}
  BY ActFacts
<1>3. IsFiniteSet(ids) /\ Cardinality(ids) \in Nat \ {0}
  <2>1. IsFiniteSet(ids)
    BY InvestigationAssumption, FS_Subset
  <2>2. Cardinality(ids) \in Nat /\ Cardinality(ids) # 0
    BY <2>1, FS_CardinalityType, FS_EmptySet
  <2> QED BY <2>1, <2>2
<1>4. /\ budget' \in BudgetState
      /\ budget'.fired = NoCap => /\ budget'.toolCalls = budget.toolCalls + Cardinality(ids)
                                  /\ budget.toolCalls + Cardinality(ids) =< MaxToolCalls
      /\ budget'.fired # NoCap => budget'.toolCalls = budget.toolCalls
  BY <1>1, <1>2, <1>3, ReservedLemma
<1>5. {"tool.started", "tool.completed", "investigator.notes.updated"} \subseteq Event
  BY DEF Event
<1>6. CASE budget'.fired # NoCap
  <2>1. /\ receipts' = receipts \cup {[id |-> i, status |-> "capped"] : i \in ids}
        /\ step' = "capped" /\ pending' = pending
        /\ Logged(before \o <<"tool.started", "tool.completed">>)
    BY <1>6 DEF Launch
  <2>2. /\ log' \in Seq(LogEntry)
        /\ At("cap.fired")' = At("cap.fired") /\ At("model.response")' = At("model.response")
    <3> DEFINE events == before \o <<"tool.started", "tool.completed">>
    <3>1. /\ events \in Seq(Event)
          /\ \A i \in 1..Len(events) :
                events[i] \in {"investigator.notes.updated", "tool.started", "tool.completed"}
      <4> DEFINE Kind == {"investigator.notes.updated", "tool.started", "tool.completed"}
      <4>1. before \in Seq(Kind)
        <5>1. <<>> \in Seq(Kind)
          OBVIOUS
        <5>2. <<"investigator.notes.updated">> \in Seq(Kind)
          BY Lists
        <5> QED BY <5>1, <5>2
      <4>2. <<"tool.started", "tool.completed">> \in Seq(Kind)
        BY Lists
      <4>3. events \in Seq(Kind)
        BY <4>1, <4>2, ConcatProperties
      <4>4. Kind \subseteq Event
        BY <1>5
      <4> HIDE DEF events, Kind
      <4>5. events \in Seq(Event) /\ \A i \in 1..Len(events) : events[i] \in Kind
        BY <4>3, <4>4
      <4> QED BY <4>5 DEF Kind
    <3>2. Logged(events)
      BY <2>1
    <3> HIDE DEF events
    <3> QED BY <1>2, <3>1, <3>2, LogOther
  <2>3. TypeOK'
    <3>1. step' \in Steps /\ \A i \in DOMAIN log' : log'[i].phase \in Phase
      BY <2>1, <2>2, LogPhases DEF Steps
    <3>2. \A r \in receipts' : /\ r.id \in claimed' \ pending'
                               /\ r.status \in {"success", "error", "timeout", "capped"}
      BY <1>1, <1>2, <2>1 DEF IInv, TypeOK
    <3>3. pending' \subseteq claimed' /\ claimed' \subseteq CallIds
      BY <1>1, <1>2, <2>1 DEF IInv, TypeOK
    <3> QED BY <1>1, <1>4, <3>1, <3>2, <3>3 DEF IInv, TypeOK
  <2>4. Judged'
    BY <1>1, <2>1, JudgedKept DEF IInv
  <2> QED BY <1>1, <1>2, <1>4, <1>6, <2>1, <2>2, <2>3, <2>4, GoneWrong
<1>7. CASE budget'.fired = NoCap
  <2>1. /\ receipts' = receipts /\ pending' = ids /\ step' = "tools"
        /\ Logged(Append(before, "tool.started"))
    BY <1>7 DEF Launch
  <2>2. /\ Grows
        /\ \A e : e \notin {"tool.started", "investigator.notes.updated"} => At(e)' = At(e)
        /\ phase = "investigate" => /\ Len(log') = Len(log) + 2
                                    /\ log'[Len(log) + 1].event = "investigator.notes.updated"
                                    /\ log'[Len(log) + 2].event = "tool.started"
    <3>1. CASE phase = "opening" /\ before = <<>>
      <4>1. Append(<<>>, "tool.started") = <<"tool.started">>
        OBVIOUS
      <4>2. Logged(<<"tool.started">>)
        BY <2>1, <3>1, <4>1
      <4> QED BY <1>2, <1>5, <3>1, <4>2, LogOne, GrowsOne
    <3>2. CASE phase = "investigate" /\ before = <<"investigator.notes.updated">>
      <4>1. Append(<<"investigator.notes.updated">>, "tool.started")
              = <<"investigator.notes.updated", "tool.started">>
        BY <1>5, AppendedTwo
      <4>2. Logged(<<"investigator.notes.updated", "tool.started">>)
        BY <2>1, <3>2, <4>1
      <4> QED BY <1>2, <1>5, <4>2, LogTwo, GrowsTwo
    <3> QED BY <3>1, <3>2
  <2>3. TypeOK'
    <3>1. step' \in Steps /\ \A i \in DOMAIN log' : log'[i].phase \in Phase
      BY <2>1, <2>2, LogPhases DEF Steps, Grows
    <3>2. \A r \in receipts' : /\ r.id \in claimed' \ pending'
                               /\ r.status \in {"success", "error", "timeout", "capped"}
      BY <1>1, <2>1 DEF IInv, TypeOK
    <3>3. pending' \subseteq claimed' /\ claimed' \subseteq CallIds
      BY <1>1, <2>1 DEF IInv, TypeOK
    <3> QED BY <1>1, <1>4, <3>1, <3>2, <3>3 DEF IInv, TypeOK
  <2>4. Judged'
    BY <1>1, <2>1, JudgedKept DEF IInv
  <2>5. Control'
    BY <1>1, <1>2, <2>1 DEF IInv, Control, Asking
  <2>6. Capped'
    BY <1>1, <1>2, <1>7, <2>1, <2>2 DEF Capped
  <2>7. Bounded'
    <3>1. ~Owing' /\ Spare = 0 /\ Spare' = 0
      BY <1>1, <2>1 DEF Owing, Spare
    <3>2. /\ IsFiniteSet(At("model.response")) /\ Cardinality(At("model.response")) \in Nat
          /\ Cardinality(At("model.response")) =< budget.toolCalls + 1
      BY <1>2, <3>1, FS_CardinalityType DEF IInv, Bounded, BudgetState
    <3>3. budget.toolCalls + 1 =< budget'.toolCalls /\ budget'.toolCalls =< MaxToolCalls
      BY <1>2, <1>3, <1>4, <1>7, CapConfigAssumption DEF BudgetState
    <3>4. budget.toolCalls \in Nat /\ budget'.toolCalls \in Nat
      BY <1>2, <1>4 DEF BudgetState
    <3>5. At("model.response")' = At("model.response")
      BY <2>2
    <3> QED BY <3>1, <3>2, <3>3, <3>4, <3>5 DEF Bounded
  <2>8. /\ Accounted /\ OnStage /\ Ordered /\ Unfailed /\ Once /\ Within /\ Followed
    BY <1>2 DEF IInv, OnCourse
  <2>9. Accounted'
    <3>1. ReceiptIds' = ReceiptIds /\ ReceiptIds = claimed
      BY <1>2, <2>1, <2>8 DEF Accounted, ReceiptIds
    <3>2. ReceiptIds' = claimed' \ pending'
      BY <1>1, <2>1, <3>1
    <3>3. budget'.toolCalls = Cardinality(receipts') + Cardinality(pending')
      <4>1. Cardinality(pending) = 0
        BY <1>2, FS_EmptySet
      <4>2. Cardinality(receipts) \in Nat
        BY <2>8, FS_CardinalityType DEF Accounted
      <4> QED BY <1>3, <1>4, <1>7, <2>1, <2>8, <4>1, <4>2 DEF Accounted
    <3> QED BY <1>1, <2>1, <2>8, <3>2, <3>3 DEF Accounted
  <2>10. Stage' = Stage /\ \A p : Answered(p)' <=> Answered(p)
    <3>1. Stage' = Stage
      BY <1>1, <2>1 DEF Stage
    <3> QED BY <1>1, <1>2, <2>1, <3>1 DEF Answered
  <2>11. /\ At("model.response")' = At("model.response")
         /\ \A k \in 1..9 : At(Required[k])' = At(Required[k])
    <3>1. \A k \in 1..9 : Required[k] \notin {"tool.started", "investigator.notes.updated"}
      BY RequiredEvents
    <3> QED BY <2>2, <3>1
  <2>12. \A p : Of(p)' = Of(p)
    BY <2>2, <2>11, OfKept
  <2>13. OnStage' /\ Ordered' /\ Within'
    BY <2>8, <2>10, <2>11, <2>12, StageKept, WithinKept
  <2>14. Unfailed'
    BY <2>2, <2>8 DEF Unfailed, Failures
  <2>15. Once'
    BY <2>2, <2>8, <2>10, <2>11, OnceKept
  <2>16. Followed'
    <3>1. CASE phase = "opening"
      BY <2>2, <2>8, <2>12, <3>1, FollowedKept
    <3>2. CASE phase = "investigate"
      <4> SUFFICES ASSUME NEW i \in Of("investigate") PROVE Taken(i)' \/ Taking(i)'
        BY <2>12 DEF Followed
      <4>1. CASE Taken(i)
        BY <2>2, <2>12, <4>1, TakenKept
      <4>2. CASE Taking(i)
        <5>1. Len(log) = i
          BY <1>2, <4>2 DEF Taking
        <5>2. /\ Len(log') = i + 2 /\ log'[i + 1].event = "investigator.notes.updated"
              /\ log'[i + 2].event = "tool.started"
          BY <2>2, <3>2, <5>1
        <5>3. phase' = "investigate" /\ step' = "tools" /\ call' # "out"
          BY <1>1, <1>2, <2>1, <3>2
        <5> QED BY <5>2, <5>3 DEF Taking
      <4> QED BY <2>8, <4>1, <4>2 DEF Followed
    <3> QED BY <3>1, <3>2
  <2> QED BY <2>2, <2>3, <2>4, <2>5, <2>6, <2>7, <2>9, <2>13, <2>14, <2>15, <2>16
          DEF IInv, OnCourse, Grows
<1> QED BY <1>6, <1>7

\* The receipts of a batch: one for each of its calls, none of them there before.
LEMMA BatchReceipts ==
    ASSUME IsFiniteSet(receipts), IsFiniteSet(pending), NEW result,
           \A r \in receipts : r.id \notin pending,
           NEW added, added = {[id |-> id, status |-> result[id]] : id \in pending}
    PROVE  /\ IsFiniteSet(receipts \cup added)
           /\ Cardinality(receipts \cup added) = Cardinality(receipts) + Cardinality(pending)
<1> DEFINE f == [id \in pending |-> [id |-> id, status |-> result[id]]]
<1>1. f \in Bijection(pending, added)
  <2>1. f \in [pending -> added]
    OBVIOUS
  <2>2. \A i, j \in pending : f[i] = f[j] => i = j
    <3>1. \A i \in pending : f[i].id = i
      OBVIOUS
    <3> QED BY <3>1
  <2>3. \A a \in added : \E i \in pending : f[i] = a
    OBVIOUS
  <2> QED BY <2>1, <2>2, <2>3 DEF Bijection, Injection, Surjection, IsInjective
<1>2. IsFiniteSet(added) /\ Cardinality(added) = Cardinality(pending)
  <2>1. ExistsBijection(pending, added)
    BY <1>1 DEF ExistsBijection
  <2> QED BY <2>1, FS_Bijection
<1>3. receipts \cap added = {}
  OBVIOUS
<1>4. Cardinality({}) = 0 /\ Cardinality(receipts) \in Nat /\ Cardinality(added) \in Nat
  BY <1>2, FS_EmptySet, FS_CardinalityType
<1>5. /\ IsFiniteSet(receipts \cup added)
      /\ Cardinality(receipts \cup added) =
           Cardinality(receipts) + Cardinality(added) - Cardinality(receipts \cap added)
  BY <1>2, FS_Union
<1>6. Cardinality(receipts \cap added) = 0
  BY <1>3, <1>4
<1> QED BY <1>2, <1>4, <1>5, <1>6

\* The tools return.
LEMMA ObserveKeeps == ASSUME IInv, Observe PROVE IInv'
<1>1. /\ step = "tools" /\ phase \in {"opening", "investigate"} /\ call = "accepted"
      /\ Asking /\ status = "running" /\ pending' = {} /\ ~Owing /\ Smooth
      /\ UNCHANGED <<clock, call, claimed, findings, verdicts, terminal, status, completedAt>>
      /\ log \in Seq(LogEntry) /\ phase \in Phase /\ budget \in BudgetState /\ clock \in Nat
      /\ budget.fired = NoCap /\ At("cap.fired") = {}
  <2>1. step = "tools"
    BY DEF Observe
  <2>2. budget.fired = NoCap /\ At("cap.fired") = {}
    BY <2>1, OpenBudget
  <2> QED BY <2>1, <2>2 DEF Observe, IInv, Control, TypeOK, outcome, ending, Owing, Smooth, Asking
<1>2. /\ budget' \in BudgetState /\ budget'.toolCalls = budget.toolCalls
      /\ budget'.fired = NoCap => budget' = budget
  <2>1. budget' = budget \/ budget' = Checked(budget, clock)
    BY DEF Observe
  <2> QED BY <1>1, <2>1, CheckedLemma
<1>3. PICK result \in [pending -> {"success", "error", "timeout"}] :
        receipts' = receipts \cup {[id |-> id, status |-> result[id]] : id \in pending}
  BY DEF Observe
<1>4. /\ Len(log) \in Nat
      /\ {"tool.completed", "opening.completed", "investigator.action"} \subseteq Event
  BY <1>1 DEF Event
<1>5. /\ \A r \in receipts' : /\ r.id \in claimed' \ pending'
                              /\ r.status \in {"success", "error", "timeout", "capped"}
      /\ pending' \subseteq claimed' /\ claimed' \subseteq CallIds
  <2>1. \A r \in receipts : /\ r.id \in claimed
                            /\ r.status \in {"success", "error", "timeout", "capped"}
    BY DEF IInv, TypeOK
  <2>2. pending \subseteq claimed /\ claimed \subseteq CallIds
    BY DEF IInv, TypeOK
  <2>3. \A id \in pending : result[id] \in {"success", "error", "timeout", "capped"}
    BY <1>3
  <2> QED BY <1>1, <1>3, <2>1, <2>2, <2>3
<1>6. CASE budget'.fired # NoCap
  <2>1. step' = "capped" /\ phase' = phase /\ Logged(<<"tool.completed">>)
    BY <1>6 DEF Observe
  <2>2. /\ log' \in Seq(LogEntry) /\ At("cap.fired")' = {}
        /\ At("model.response")' = At("model.response")
    BY <1>1, <1>4, <2>1, StopLog
  <2>3. TypeOK'
    <3>1. step' \in Steps /\ \A i \in DOMAIN log' : log'[i].phase \in Phase
      BY <2>1, <2>2, LogPhases DEF Steps
    <3> QED BY <1>1, <1>2, <1>5, <2>1, <3>1 DEF IInv, TypeOK
  <2>4. Judged'
    BY <1>1, <1>3, <2>1, JudgedKept DEF IInv
  <2> QED BY <1>1, <1>2, <1>6, <2>1, <2>2, <2>3, <2>4, GoneWrong
<1>7. CASE budget'.fired = NoCap
  <2> DEFINE last == IF phase = "opening" THEN "opening.completed" ELSE "investigator.action"
  <2>1. step' = "ask" /\ phase' = "investigate"
    BY <1>7 DEF Observe
  <2>2. /\ Grows /\ Len(log') = Len(log) + 2
        /\ log'[Len(log) + 1].event = "tool.completed" /\ log'[Len(log) + 2].event = last
        /\ \A e : At(e)' = IF e = "tool.completed" THEN At(e) \cup {Len(log) + 1}
                           ELSE IF e = last THEN At(e) \cup {Len(log) + 2} ELSE At(e)
    <3>1. Logged(<<"tool.completed", last>>)
      <4>1. CASE phase = "opening"
        BY <1>7, <4>1 DEF Observe
      <4>2. CASE phase # "opening"
        BY <1>7, <4>2 DEF Observe
      <4> QED BY <4>1, <4>2
    <3>2. last \in Event /\ last # "tool.completed" /\ "tool.completed" \in Event
      BY <1>4
    <3> HIDE DEF last
    <3> QED BY <1>1, <3>1, <3>2, LogTwo, GrowsTwo
  <2>3. TypeOK'
    <3>1. step' \in Steps /\ phase' \in Phase
      BY <2>1 DEF Steps, Phase, PhaseOrder
    <3>2. \A i \in DOMAIN log' : log'[i].phase \in Phase
      BY <2>2, LogPhases DEF Grows
    <3> QED BY <1>1, <1>2, <1>5, <3>1, <3>2 DEF IInv, TypeOK
  <2>4. Judged'
    BY <1>1, <1>3, <2>1, JudgedKept DEF IInv
  <2>5. Control'
    BY <1>1, <2>1 DEF Control, Asking
  <2>6. At("cap.fired")' = {} /\ At("model.response")' = At("model.response")
        /\ \A e \in Failures : At(e)' = At(e)
    BY <1>1, <2>2 DEF Failures
  <2>7. Capped'
    BY <1>1, <1>7, <2>1, <2>6 DEF Capped
  <2>8. Bounded'
    <3>1. ~Owing' /\ Spare = 0 /\ Spare' = 0
      BY <1>1, <2>1 DEF Owing, Spare
    <3> QED BY <1>1, <1>2, <2>6, <3>1 DEF IInv, Bounded
  <2>9. /\ Accounted /\ OnStage /\ Ordered /\ Unfailed /\ Once /\ Within /\ Followed
    BY <1>1 DEF IInv, OnCourse
  <2>10. Accounted'
    <3>1. IsFiniteSet(pending)
      <4>1. pending \subseteq CallIds
        BY DEF IInv, TypeOK
      <4> QED BY <4>1, InvestigationAssumption, FS_Subset
    <3>2. IsFiniteSet(receipts) /\ \A r \in receipts : r.id \notin pending
      BY <2>9 DEF Accounted, IInv, TypeOK
    <3>3. /\ IsFiniteSet(receipts')
          /\ Cardinality(receipts') = Cardinality(receipts) + Cardinality(pending)
      BY <1>3, <3>1, <3>2, BatchReceipts
    <3>4. Cardinality(pending') = 0
      BY <1>1, FS_EmptySet
    <3>5. ReceiptIds' = claimed' \ pending'
      <4>1. ReceiptIds' = ReceiptIds \cup pending
        <5>1. \A id \in pending : [id |-> id, status |-> result[id]].id = id
          OBVIOUS
        <5>2. ReceiptIds' = {r.id : r \in receipts'}
          BY DEF ReceiptIds
        <5>3. \A r \in receipts' : r \in receipts \/ \E id \in pending : r.id = id
          BY <1>3, <5>1
        <5>4. \A r \in receipts : r \in receipts'
          BY <1>3
        <5>5. \A id \in pending : \E r \in receipts' : r.id = id
          BY <1>3, <5>1
        <5> QED BY <5>2, <5>3, <5>4, <5>5 DEF ReceiptIds
      <4>2. ReceiptIds = claimed \ pending /\ pending \subseteq claimed
        BY <2>9 DEF Accounted, IInv, TypeOK
      <4> QED BY <1>1, <4>1, <4>2
    <3>6. \A r \in receipts' : r.status # "capped"
      <4>1. \A r \in receipts : r.status # "capped"
        BY <2>9 DEF Accounted
      <4>2. \A id \in pending : result[id] # "capped"
        BY <1>3
      <4> QED BY <1>3, <4>1, <4>2
    <3>7. budget'.toolCalls = Cardinality(receipts') + Cardinality(pending')
      <4>1. Cardinality(receipts) \in Nat /\ Cardinality(pending) \in Nat
        BY <3>1, <3>2, FS_CardinalityType
      <4> QED BY <1>2, <2>9, <3>3, <3>4, <4>1 DEF Accounted
    <3> QED BY <2>1, <3>3, <3>5, <3>6, <3>7 DEF Accounted
  <2>11. \A p : Of(p)' = Of(p)
    BY <2>2, <2>6, OfKept
  <2>12. /\ Stage' = 2 /\ (phase = "opening" => Stage = 1) /\ (phase # "opening" => Stage = 2)
    BY <1>1, <2>1 DEF Stage
  <2>13. /\ \A p \in Single : Answered(p)' <=> Answered(p)
         /\ ~Answered("investigate")'
    BY <1>1, <2>1, <2>12 DEF Answered, First, Single
  <2>14. OnStage' /\ Ordered' /\ Within'
    <3>1. CASE phase = "opening"
      <4>1. \A j \in 1..9 : At(Required[j])' = IF j = 2 THEN At(Required[j]) \cup {Len(log) + 2}
                                                        ELSE At(Required[j])
        <5>1. last = Required[2] /\ 2 \in 1..9
          BY <3>1, RequiredEvents
        <5>2. \A j \in 1..9 : Required[j] # "tool.completed" /\ (Required[j] = last <=> j = 2)
          BY <5>1, RequiredEvents
        <5> HIDE DEF last
        <5> QED BY <2>2, <5>2
      <4>2. Len(log) + 2 \in Nat /\ Len(log) < Len(log) + 2 /\ Stage = 2 - 1 /\ 2 \in 1..9
        BY <1>4, <2>12, <3>1
      <4> QED BY <2>2, <2>9, <2>11, <2>12, <4>1, <4>2, StageNext
    <3>2. CASE phase # "opening"
      <4>1. \A j \in 1..9 : At(Required[j])' = At(Required[j])
        BY <2>2, <3>2, RequiredEvents
      <4> QED BY <2>9, <2>11, <2>12, <3>2, <4>1, StageKept, WithinKept
    <3> QED BY <3>1, <3>2
  <2>15. Unfailed'
    BY <2>6, <2>9 DEF Unfailed
  <2>16. Once'
    <3>1. ~(Stage' < 2)
      BY <2>12
    <3> QED BY <2>2, <2>6, <2>9, <2>13, <3>1, OnceKept
  <2>17. Followed'
    <3>1. CASE phase = "opening"
      BY <2>2, <2>9, <2>11, <3>1, FollowedKept
    <3>2. CASE phase = "investigate"
      <4> SUFFICES ASSUME NEW i \in Of("investigate") PROVE Taken(i)' \/ Taking(i)'
        BY <2>11 DEF Followed
      <4>1. CASE Taken(i)
        BY <2>2, <2>11, <4>1, TakenKept
      <4>2. CASE Taking(i)
        <5>1. /\ Len(log) = i + 2 /\ log[i + 1].event = "investigator.notes.updated"
              /\ log[i + 2].event = "tool.started"
          BY <1>1, <4>2 DEF Taking
        <5>2. i \in 1..Len(log)
          <6>1. Of("investigate") \subseteq 1..Len(log)
            BY <1>1, AtRange
          <6> QED BY <6>1
        <5>3. i + 1 \in 1..Len(log) /\ i + 2 \in 1..Len(log) /\ (i + 2) + 1 = i + 3
              /\ (i + 2) + 2 = i + 4
          BY <5>1, <5>2
        <5>4. Len(log') = i + 4 /\ log'[i + 3].event = "tool.completed"
              /\ log'[i + 4].event = "investigator.action"
          BY <2>2, <3>2, <5>1, <5>3
        <5>5. log'[i + 1] = log[i + 1] /\ log'[i + 2] = log[i + 2]
          BY <2>2, <5>3 DEF Grows
        <5>6. TurnAt(i)'
          BY <5>1, <5>4, <5>5 DEF TurnAt
        <5> QED BY <1>1, <2>1, <5>4, <5>6 DEF Taking
      <4> QED BY <2>9, <4>1, <4>2 DEF Followed
    <3> QED BY <1>1, <3>1, <3>2
  <2> HIDE DEF last
  <2> QED BY <2>2, <2>3, <2>4, <2>5, <2>7, <2>8, <2>10, <2>14, <2>15, <2>16, <2>17
          DEF IInv, OnCourse, Grows
<1> QED BY <1>6, <1>7

-------------------------------------------------------------------------------
\* The phases after the loop.

\* An answer taken brings the run from the loop to the findings, to the judge, to the
\* report and to its close.
LEMMA PassKeeps ==
    ASSUME IInv, step = "act", TypeOK', Judged',
           UNCHANGED <<clock, budget, call, pending, claimed, receipts, status, completedAt>>,
           NEW k, NEW a \in Event, a = Required[k], Logged(<<a>>),
           \/ /\ k = 3 /\ phase = "investigate" /\ phase' = "investigation-finalize"
              /\ step' = "ask" /\ terminal' \notin ReceiptIds
           \/ /\ k = 4 /\ phase = "investigation-finalize" /\ phase' = "judge"
              /\ step' = "ask" /\ terminal' = terminal
           \/ /\ k = 6 /\ phase = "judge" /\ phase' = "report"
              /\ step' = "ask" /\ terminal' = terminal
           \/ /\ k = 8 /\ phase = "report" /\ phase' = "closing"
              /\ step' = "check" /\ terminal' = terminal
    PROVE  IInv'
<1>1. /\ Asking /\ call = "accepted" /\ pending = {} /\ status = "running" /\ Smooth /\ Owing
      /\ log \in Seq(LogEntry) /\ Len(log) \in Nat /\ phase \in Phase
      /\ budget \in BudgetState /\ clock \in Nat
      /\ budget.fired = NoCap /\ At("cap.fired") = {}
  BY ActFacts
<1>2. /\ Grows /\ Len(log') = Len(log) + 1 /\ log'[Len(log) + 1].event = a
      /\ \A e : At(e)' = IF e = a THEN At(e) \cup {Len(log) + 1} ELSE At(e)
  BY <1>1, LogOne, GrowsOne
<1>3. k \in 1..9 /\ a # "cap.fired" /\ a # "model.response"
  <2>1. k \in 1..9
    OBVIOUS
  <2> QED BY <2>1, RequiredEvents DEF Failures
<1>4. Control'
  BY <1>1 DEF Control, Asking
<1>5. Capped'
  BY <1>1, <1>2, <1>3 DEF Capped
<1>6. Bounded'
  <2>1. Cardinality(At("model.response")) \in Nat /\ budget.toolCalls \in Nat
    BY <1>1, FS_CardinalityType DEF IInv, Bounded, BudgetState
  <2>2. At("model.response")' = At("model.response")
    BY <1>2, <1>3
  <2>3. Spare \in Nat /\ Spare' + (IF Owing' THEN 1 ELSE 0) = Spare + 1 /\ Spare' \in Nat
    BY <1>1 DEF Spare, Owing
  <2>4. Cardinality(At("model.response")) =< budget.toolCalls + Spare + 1
    BY <1>1, <2>1, <2>3 DEF IInv, Bounded
  <2>5. Cardinality(At("model.response")) =< budget.toolCalls + Spare' + (IF Owing' THEN 1 ELSE 0)
    <3> DEFINE n == Cardinality(At("model.response"))
               c == budget.toolCalls
               s == Spare
               t == Spare'
               o == IF Owing' THEN 1 ELSE 0
    <3>1. n \in Nat /\ c \in Nat /\ s \in Nat /\ t \in Nat /\ o \in Nat /\ t + o = s + 1
          /\ n =< c + s + 1
      BY <2>1, <2>3, <2>4
    <3> HIDE DEF n, c, s, t, o
    <3>2. n =< c + t + o
      BY <3>1
    <3> QED BY <3>2 DEF n, c, t, o
  <2> QED BY <2>2, <2>5 DEF IInv, Bounded
<1>7. /\ Accounted /\ OnStage /\ Ordered /\ Unfailed /\ Once /\ Within /\ Followed
  BY <1>1 DEF IInv, OnCourse
<1>8. Accounted'
  <2>1. ReceiptIds' = ReceiptIds
    BY DEF ReceiptIds
  <2>2. terminal' \notin ReceiptIds
    BY <1>7 DEF Accounted
  <2> QED BY <1>7, <2>1, <2>2 DEF Accounted
<1>9. Stage = k - 1 /\ Stage' = k
  BY <1>1 DEF Stage
<1>10. \A p \in Single \cup {"investigate"} : Answered(p)' <=> Answered(p)
  <2>1. ~(step = "ask" \/ call = "out")
    BY <1>1
  <2>2. \A p \in Single \cup {"investigate"} : First(p) \in {1, 2, 3, 5, 7}
    BY DEF First
  <2>3. \A p \in Single \cup {"investigate"} : Answered(p) <=> First(p) =< Stage
    BY <1>9, <2>1, <2>2 DEF Answered
  <2>4. CASE k \in {3, 4, 6}
    <3>1. step' = "ask"
      BY <2>4
    <3>2. \A p \in Single \cup {"investigate"} : Answered(p)' <=> First(p) < k
      BY <1>9, <2>2, <3>1 DEF Answered
    <3>3. \A m \in {1, 2, 3, 5, 7} : (m < k <=> m =< k - 1)
      BY <2>4
    <3> QED BY <1>9, <2>2, <2>3, <3>2, <3>3
  <2>5. CASE k = 8
    <3>1. \A p \in Single \cup {"investigate"} : Answered(p)'
      BY <1>9, <2>2, <2>5 DEF Answered
    <3> QED BY <1>9, <2>2, <2>3, <2>5, <3>1
  <2> QED BY <2>4, <2>5
<1>11. OnStage' /\ Ordered' /\ Unfailed' /\ Once' /\ Within'
  BY <1>1, <1>3, <1>7, <1>9, <1>10, Milestone
<1>12. Of("investigate")' = Of("investigate")
  BY <1>2, <1>3, OfKept
<1>13. Followed'
  <2>1. CASE phase # "investigate"
    BY <1>2, <1>7, <1>12, <2>1, FollowedKept
  <2>2. CASE phase = "investigate"
    <3> SUFFICES ASSUME NEW i \in Of("investigate") PROVE Taken(i)'
      BY <1>12 DEF Followed
    <3>1. CASE Taken(i)
      BY <1>2, <1>12, <3>1, TakenKept
    <3>2. CASE Taking(i)
      <4>1. Len(log) = i
        BY <1>1, <3>2 DEF Taking
      <4>2. a = "investigator.done"
        BY <2>2, RequiredEvents
      <4> QED BY <1>1, <1>2, <4>1, <4>2 DEF Taken
    <3> QED BY <1>7, <3>1, <3>2 DEF Followed
  <2> QED BY <2>1, <2>2
<1> QED BY <1>2, <1>4, <1>5, <1>6, <1>8, <1>11, <1>13 DEF IInv, OnCourse, Grows

\* The terminal action.
LEMMA DoneKeeps == ASSUME IInv, Done PROVE IInv'
<1>1. PICK id \in CallIds :
        IF ~TerminalId(id) THEN Break(<<"model.protocol_error">>)
        ELSE /\ terminal' = id
             /\ Logged(<<"investigator.done">>)
             /\ phase' = "investigation-finalize" /\ step' = "ask"
             /\ UNCHANGED <<clock, budget, call, tooling, findings, verdicts, ending>>
  BY DEF Done
<1>2. phase = "investigate" /\ step = "act"
  BY DEF Done
<1>3. CASE ~TerminalId(id)
  BY <1>1, <1>2, <1>3, BreakKeeps
<1>4. CASE TerminalId(id)
  <2>1. /\ terminal' = id /\ id \notin ReceiptIds /\ Logged(<<"investigator.done">>)
        /\ phase' = "investigation-finalize" /\ step' = "ask"
        /\ UNCHANGED <<clock, budget, call, pending, claimed, receipts, findings, verdicts,
                       status, completedAt>>
    BY <1>1, <1>4 DEF TerminalId, tooling, ending
  <2>2. "investigator.done" \in Event /\ "investigator.done" = Required[3]
    BY RequiredEvents DEF Event
  <2>3. log' \in Seq(LogEntry)
    BY <1>2, <2>1, <2>2, ActFacts, LogOne
  <2>4. TypeOK'
    <3>1. step' \in Steps /\ phase' \in Phase /\ \A i \in DOMAIN log' : log'[i].phase \in Phase
      BY <2>1, <2>3, LogPhases DEF Steps, Phase, PhaseOrder
    <3> QED BY <2>1, <3>1 DEF IInv, TypeOK
  <2>5. Judged'
    BY <1>2, <2>1, JudgedKept DEF IInv
  <2> QED BY <1>2, <2>1, <2>2, <2>4, <2>5, PassKeeps
<1> QED BY <1>3, <1>4

\* The findings.
LEMMA FinalizeKeeps == ASSUME IInv, Finalize PROVE IInv'
<1>1. phase = "investigation-finalize" /\ step = "act"
  BY DEF Finalize
<1>2. CASE Break(<<>>)
  BY <1>1, <1>2, BreakKeeps
<1>3. ASSUME NEW ids \in SUBSET FindingIds, NEW submitted \in [ids -> Claim],
             /\ findings' = submitted
             /\ Logged(<<"investigator.finished">>)
             /\ phase' = "judge" /\ step' = "ask"
             /\ UNCHANGED <<clock, budget, call, tooling, verdicts, terminal, ending>>
      PROVE  IInv'
  <2>1. /\ findings' = submitted /\ Logged(<<"investigator.finished">>)
        /\ phase' = "judge" /\ step' = "ask"
        /\ UNCHANGED <<clock, budget, call, pending, claimed, receipts, verdicts, terminal,
                       status, completedAt>>
    BY <1>3 DEF tooling, ending
  <2>2. "investigator.finished" \in Event /\ "investigator.finished" = Required[4]
    BY RequiredEvents DEF Event
  <2>3. log' \in Seq(LogEntry) /\ status = "running"
    BY <1>1, <2>1, <2>2, ActFacts, LogOne
  <2>4. DOMAIN verdicts' = {}
    BY <1>1, <2>1 DEF IInv, Judged, TypeOK
  <2>5. TypeOK'
    <3>1. step' \in Steps /\ phase' \in Phase /\ \A i \in DOMAIN log' : log'[i].phase \in Phase
      BY <2>1, <2>3, LogPhases DEF Steps, Phase, PhaseOrder
    <3>2. /\ DOMAIN findings' \subseteq FindingIds /\ DOMAIN verdicts' \subseteq DOMAIN findings'
          /\ \A f \in DOMAIN findings' : findings'[f] \in Claim
          /\ \A f \in DOMAIN verdicts' : verdicts'[f] \in Claim
      BY <2>1, <2>4
    <3> QED BY <2>1, <3>1, <3>2 DEF IInv, TypeOK
  <2>6. Judged'
    BY <2>1, <2>3, <2>4 DEF Judged
  <2> QED BY <1>1, <2>1, <2>2, <2>5, <2>6, PassKeeps
<1> QED BY <1>2, <1>3 DEF Finalize

\* The verdicts.
LEMMA JudgeKeeps == ASSUME IInv, Judge PROVE IInv'
<1>1. phase = "judge" /\ step = "act"
  BY DEF Judge
<1>2. CASE Break(<<>>) \/ Break(<<"judge.unknown_finding_rejected">>)
  BY <1>1, <1>2, BreakKeeps
<1>3. ASSUME NEW submitted \in [DOMAIN findings -> Claim], NEW kept,
             kept = [f \in DOMAIN findings |->
                       [submitted[f] EXCEPT !.status = Kept(findings[f].status, @)]],
             \A f \in DOMAIN findings :
                 /\ kept[f].cites # {} /\ kept[f].cites \subseteq findings[f].cites
                 /\ kept[f].status = "CONFIRMED" => Succeeded(kept[f].cites),
             verdicts' = kept,
             Logged(<<"judge.completed">>),
             phase' = "report" /\ step' = "ask",
             UNCHANGED <<clock, budget, call, tooling, findings, terminal, ending>>
      PROVE  IInv'
  <2>1. UNCHANGED <<clock, budget, call, pending, claimed, receipts, findings, terminal,
                    status, completedAt>>
    BY <1>3 DEF tooling, ending
  <2>2. "judge.completed" \in Event /\ "judge.completed" = Required[6]
    BY RequiredEvents DEF Event
  <2>3. log' \in Seq(LogEntry) /\ status = "running"
    BY <1>1, <1>3, <2>2, ActFacts, LogOne
  <2>4. \A f \in DOMAIN findings : findings[f] \in Claim
    BY DEF IInv, TypeOK
  <2>5. \A x, y \in DOMAIN Rank : Kept(x, y) \in DOMAIN Rank /\ Rank[Kept(x, y)] =< Rank[x]
    <3>1. \A x \in DOMAIN Rank : Rank[x] \in Nat
      BY DEF Rank
    <3> QED BY <3>1 DEF Kept
  <2>6. \A f \in DOMAIN findings :
          /\ kept[f] \in Claim /\ Rank[kept[f].status] =< Rank[findings[f].status]
    <3> SUFFICES ASSUME NEW f \in DOMAIN findings
                 PROVE  kept[f] \in Claim /\ Rank[kept[f].status] =< Rank[findings[f].status]
      OBVIOUS
    <3>1. submitted[f] \in Claim /\ findings[f] \in Claim
      BY <2>4
    <3>2. kept[f] = [submitted[f] EXCEPT !.status = Kept(findings[f].status, submitted[f].status)]
      BY <1>3
    <3>3. submitted[f].status \in DOMAIN Rank /\ findings[f].status \in DOMAIN Rank
      BY <3>1 DEF Claim
    <3>4. kept[f] \in Claim /\ kept[f].status = Kept(findings[f].status, submitted[f].status)
      BY <2>5, <3>1, <3>2, <3>3 DEF Claim
    <3> QED BY <2>5, <3>3, <3>4
  <2>7. DOMAIN verdicts' = DOMAIN findings'
    BY <1>3, <2>1
  <2>8. TypeOK'
    <3>1. step' \in Steps /\ phase' \in Phase /\ \A i \in DOMAIN log' : log'[i].phase \in Phase
      BY <1>3, <2>3, LogPhases DEF Steps, Phase, PhaseOrder
    <3>2. DOMAIN verdicts' \subseteq DOMAIN findings'
          /\ \A f \in DOMAIN verdicts' : verdicts'[f] \in Claim
      BY <1>3, <2>1, <2>6, <2>7
    <3> QED BY <2>1, <3>1, <3>2 DEF IInv, TypeOK
  <2>9. Judged'
    <3>1. \A x : Succeeded(x)' <=> Succeeded(x)
      BY <2>1 DEF Succeeded
    <3>2. Answering'
      BY <1>3, <2>1, <2>6, <2>7, <3>1 DEF Answering
    <3> QED BY <1>3, <3>2 DEF Judged
  <2> QED BY <1>1, <1>3, <2>1, <2>2, <2>8, <2>9, PassKeeps
<1> QED BY <1>2, <1>3 DEF Judge

\* The report.
LEMMA ReportKeeps == ASSUME IInv, Report PROVE IInv'
<1>1. phase = "report" /\ step = "act"
  BY DEF Report
<1>2. CASE Break(<<>>)
  BY <1>1, <1>2, BreakKeeps
<1>3. CASE ~Break(<<>>)
  <2>1. /\ Logged(<<"report.completed">>) /\ phase' = "closing" /\ step' = "check"
        /\ UNCHANGED <<clock, budget, call, pending, claimed, receipts, findings, verdicts,
                       terminal, status, completedAt>>
    BY <1>3 DEF Report, tooling, outcome, ending
  <2>2. "report.completed" \in Event /\ "report.completed" = Required[8]
    BY RequiredEvents DEF Event
  <2>3. log' \in Seq(LogEntry)
    BY <1>1, <2>1, <2>2, ActFacts, LogOne
  <2>4. TypeOK'
    <3>1. step' \in Steps /\ phase' \in Phase /\ \A i \in DOMAIN log' : log'[i].phase \in Phase
      BY <2>1, <2>3, LogPhases DEF Steps, Phase, PhaseOrder
    <3> QED BY <2>1, <3>1 DEF IInv, TypeOK
  <2>5. Judged'
    BY <1>1, <2>1, JudgedKept DEF IInv
  <2> QED BY <1>1, <2>1, <2>2, <2>4, <2>5, PassKeeps
<1> QED BY <1>2, <1>3

\* The opening's tools.
LEMMA OpenKeeps == ASSUME IInv, Open PROVE IInv'
<1>1. phase = "opening" /\ step = "act"
  BY DEF Open
<1>2. PICK n \in 0..(MaxOpeningTools + 1), distinct \in BOOLEAN, sound \in BOOLEAN,
           ids \in SUBSET CallIds :
        /\ Cardinality(ids) =< n
        /\ IF ~Selectable(n, distinct) \/ ~sound THEN Break(<<"model.protocol_error">>)
           ELSE IF Cardinality(ids) < n THEN Break(<<>>)
           ELSE Launch(ids, <<>>)
  BY DEF Open
<1>3. CASE Break(<<"model.protocol_error">>) \/ Break(<<>>)
  BY <1>1, <1>3, BreakKeeps
<1>4. CASE Launch(ids, <<>>) /\ Selectable(n, distinct) /\ ~(Cardinality(ids) < n)
  <2>1. n \in Nat /\ 0 < n
    BY <1>4, InvestigationAssumption DEF Selectable
  <2>2. ids # {}
    BY <1>4, <2>1, FS_EmptySet
  <2> QED BY <1>1, <1>4, <2>2, LaunchKeeps
<1> QED BY <1>2, <1>3, <1>4

\* A turn of the loop.
LEMMA ActKeeps == ASSUME IInv, Act PROVE IInv'
<1>1. phase = "investigate" /\ step = "act"
  BY DEF Act
<1>2. CASE \/ Break(<<"model.protocol_error">>) \/ Break(<<>>)
           \/ Break(<<"investigator.notes.updated">>)
  BY <1>1, <1>2, BreakKeeps
<1>3. ASSUME NEW id \in CallIds, Launch({id}, <<"investigator.notes.updated">>) PROVE IInv'
  BY <1>1, <1>3, LaunchKeeps
<1> QED BY <1>2, <1>3 DEF Act

-------------------------------------------------------------------------------
\* The run ends.

\* The last look at the deadline.
LEMMA CheckLastKeeps == ASSUME IInv, CheckLast PROVE IInv'
<1>1. /\ step = "check" /\ budget' = Checked(budget, clock)
      /\ step' = IF budget'.fired = NoCap THEN "checked" ELSE "capped"
      /\ UNCHANGED <<clock, call, phase, pending, claimed, receipts, findings, verdicts, terminal,
                     log, status, completedAt>>
  BY DEF CheckLast, tooling, outcome, ending
<1>2. budget.fired = NoCap /\ At("cap.fired") = {}
  BY <1>1, OpenBudget
<1>3. /\ phase = "closing" /\ status = "running" /\ pending = {} /\ call \notin {"out", "charged"}
      /\ log \in Seq(LogEntry) /\ budget \in BudgetState /\ clock \in Nat
  BY <1>1 DEF IInv, Control, TypeOK
<1>4. /\ budget' \in BudgetState /\ budget'.toolCalls = budget.toolCalls
  BY <1>1, <1>3, CheckedLemma
<1>5. TypeOK'
  <2>1. step' \in Steps
    BY <1>1 DEF Steps
  <2> QED BY <1>1, <1>4, <2>1 DEF IInv, TypeOK
<1>6. Judged'
  BY <1>1, JudgedKept DEF IInv
<1>7. \A e : At(e)' = At(e)
  BY <1>1 DEF At
<1>8. CASE budget'.fired # NoCap
  <2>1. call' \in {"idle", "accepted", "failed", "capped"}
    BY <1>1, <1>3 DEF IInv, TypeOK
  <2> QED BY <1>1, <1>2, <1>3, <1>4, <1>5, <1>6, <1>7, <1>8, <2>1, GoneWrong
<1>9. CASE budget'.fired = NoCap
  <2>1. step' = "checked"
    BY <1>1, <1>9
  <2>2. Control'
    BY <1>1, <1>3, <2>1 DEF IInv, Control, Asking
  <2>3. Capped'
    BY <1>1, <1>2, <1>3, <1>7, <1>9, <2>1 DEF Capped
  <2>4. Bounded'
    <3>1. Owing /\ Owing' /\ Spare' = Spare
      BY <1>1, <1>3, <2>1 DEF Owing, Spare
    <3> QED BY <1>4, <1>7, <3>1 DEF IInv, Bounded
  <2>5. /\ Accounted /\ OnStage /\ Ordered /\ Unfailed /\ Once /\ Within /\ Followed
    <3>1. Smooth
      BY <1>1, <1>2, <1>3 DEF Smooth
    <3> QED BY <3>1 DEF IInv, OnCourse
  <2>6. Accounted'
    <3>1. phase \notin {"new", "opening", "investigate"}
      BY <1>3
    <3> QED BY <1>1, <1>4, <2>5, <3>1, AccountedKept
  <2>7. Stage = 8 /\ Stage' = 8
    BY <1>1, <1>3 DEF Stage
  <2>8. \A p \in Single \cup {"investigate"} : Answered(p)' <=> Answered(p)
    BY <2>7 DEF Answered, First
  <2>9. Grows
    <3>1. Len(log) \in Nat
      BY <1>3
    <3> QED BY <1>1, <1>3, <3>1 DEF Grows
  <2>10. \A p : Of(p)' = Of(p)
    BY <1>7, <2>9, OfKept
  <2>11. OnStage' /\ Ordered' /\ Within'
    BY <1>7, <2>5, <2>7, <2>10, StageKept, WithinKept
  <2>12. Unfailed'
    BY <1>7, <2>5 DEF Unfailed
  <2>13. Once'
    BY <1>7, <2>5, <2>7, <2>8, <2>9, OnceKept
  <2>14. Followed'
    <3>1. phase # "investigate"
      BY <1>3
    <3> QED BY <2>5, <2>9, <2>10, <3>1, FollowedKept
  <2> QED BY <1>5, <1>6, <2>2, <2>3, <2>4, <2>6, <2>9, <2>11, <2>12, <2>13, <2>14
          DEF IInv, OnCourse, Grows
<1> QED BY <1>8, <1>9

\* What the last event of a run leaves, however it ends.
EndFacts ==
    /\ phase' = "ended" /\ step' = "end" /\ status' \in {"COMPLETE", "PARTIAL"}
    /\ UNCHANGED <<clock, budget, call, pending, claimed, receipts, findings, verdicts, terminal>>
    /\ completedAt' \in Nat /\ log' \in Seq(LogEntry)
    /\ At("model.response")' = At("model.response")

\* The parts of the invariant that every end keeps.
LEMMA EndKeeps ==
    ASSUME IInv, EndFacts, step \in {"checked", "capped", "broken"}
    PROVE  TypeOK' /\ Control' /\ Bounded'
<1>1. TypeOK'
  <2>1. step' \in Steps /\ phase' \in Phase /\ \A i \in DOMAIN log' : log'[i].phase \in Phase
    BY LogPhases DEF EndFacts, Steps, Phase, PhaseOrder
  <2> QED BY <2>1 DEF IInv, TypeOK, EndFacts
<1>2. Control'
  BY DEF IInv, Control, EndFacts, Asking
<1>3. Bounded'
  <2>1. Owing /\ Owing' /\ Spare' = 3 /\ Spare \in 0..3
    BY DEF IInv, Control, EndFacts, Owing, Spare
  <2> DEFINE n == Cardinality(At("model.response"))
             c == budget.toolCalls
             s == Spare
  <2>2. n \in Nat /\ c \in Nat /\ s \in 0..3 /\ n =< c + s + 1
    BY <2>1, FS_CardinalityType DEF IInv, Bounded, TypeOK, BudgetState
  <2> HIDE DEF n, c, s
  <2>3. n =< c + 3 + 1
    BY <2>2
  <2> QED BY <2>1, <2>3 DEF IInv, Bounded, EndFacts, n, c
<1> QED BY <1>1, <1>2, <1>3

\* The run ends COMPLETE.
LEMMA CompleteKeeps == ASSUME IInv, Complete PROVE IInv'
<1>1. /\ step = "checked" /\ Logged(Append(<<>>, "investigation.completed"))
      /\ phase' = "ended" /\ step' = "end" /\ status' = "COMPLETE" /\ completedAt' = clock
      /\ UNCHANGED <<clock, budget, call, pending, claimed, receipts, findings, verdicts, terminal>>
  BY DEF Complete, Conclude, tooling, outcome
<1>2. budget.fired = NoCap /\ At("cap.fired") = {}
  BY <1>1, OpenBudget
<1>3. /\ phase = "closing" /\ status = "running" /\ log \in Seq(LogEntry) /\ clock \in Nat
      /\ phase \in Phase
  BY <1>1 DEF IInv, Control, TypeOK
<1>4. Logged(<<"investigation.completed">>)
  <2>1. Append(<<>>, "investigation.completed") = <<"investigation.completed">>
    OBVIOUS
  <2> QED BY <1>1, <2>1
<1>5. "investigation.completed" \in Event /\ "investigation.completed" = Required[9] /\ 9 \in 1..9
  BY RequiredEvents DEF Event
<1>6. /\ Grows
      /\ \A e : At(e)' = IF e = "investigation.completed" THEN At(e) \cup {Len(log) + 1} ELSE At(e)
  BY <1>3, <1>4, <1>5, LogOne, GrowsOne
<1>7. TypeOK' /\ Control' /\ Bounded'
  <2>1. EndFacts
    BY <1>1, <1>3, <1>6 DEF EndFacts, Grows
  <2> QED BY <1>1, <2>1, EndKeeps
<1>8. Capped'
  BY <1>1, <1>2, <1>6 DEF Capped
<1>9. Judged'
  BY <1>1, <1>3, JudgedKept DEF IInv
<1>10. OnCourse'
  <2>1. /\ Accounted /\ OnStage /\ Ordered /\ Unfailed /\ Once /\ Within /\ Followed
    <3>1. Smooth
      BY <1>1, <1>2, <1>3 DEF Smooth
    <3> QED BY <3>1 DEF IInv, OnCourse
  <2>2. Accounted'
    <3>1. phase \notin {"new", "opening", "investigate"}
      BY <1>3
    <3> QED BY <1>1, <2>1, <3>1, AccountedKept
  <2>3. Stage = 8 /\ Stage' = 9
    BY <1>1, <1>3 DEF Stage
  <2>4. \A p \in Single \cup {"investigate"} : Answered(p)' <=> Answered(p)
    BY <2>3 DEF Answered, First
  <2>5. OnStage' /\ Ordered' /\ Unfailed' /\ Once' /\ Within'
    BY <1>3, <1>4, <1>5, <2>1, <2>3, <2>4, Milestone
  <2>6. Of("investigate")' = Of("investigate")
    BY <1>6, OfKept
  <2>7. Followed'
    <3>1. phase # "investigate"
      BY <1>3
    <3> QED BY <1>6, <2>1, <2>6, <3>1, FollowedKept
  <2> QED BY <2>2, <2>5, <2>7 DEF OnCourse
<1> QED BY <1>6, <1>7, <1>8, <1>9, <1>10 DEF IInv, Grows

\* A cap ends the run, recorded here if no one has recorded it.
LEMMA StopCappedKeeps == ASSUME IInv, StopCapped PROVE IInv'
<1>1. /\ step = "capped"
      /\ Logged(Append(IF Missing("cap.fired") THEN <<"cap.fired">> ELSE <<>>,
                       "investigation.completed"))
      /\ phase' = "ended" /\ step' = "end" /\ status' = "PARTIAL"
      /\ UNCHANGED <<clock, budget, call, pending, claimed, receipts, findings, verdicts, terminal,
                     completedAt>>
  BY DEF StopCapped, Conclude, tooling, outcome
<1>2. budget.fired # NoCap /\ (At("cap.fired") = {} \/ \E i \in Nat : At("cap.fired") = {i})
  BY <1>1 DEF IInv, Capped
<1>3. log \in Seq(LogEntry) /\ Len(log) \in Nat /\ phase \in Phase /\ completedAt \in Nat
  <2>1. log \in Seq(LogEntry)
    BY DEF IInv
  <2> QED BY <2>1 DEF IInv, TypeOK
<1>4. "investigation.completed" \in Event /\ "cap.fired" \in Event
  BY DEF Event
<1>5. Missing("cap.fired") <=> At("cap.fired") = {}
  BY DEF Missing, Recorded, At
<1>6. /\ log' \in Seq(LogEntry) /\ At("model.response")' = At("model.response")
      /\ \E i \in Nat : At("cap.fired")' = {i}
  <2>1. CASE At("cap.fired") = {}
    <3>1. Append(<<"cap.fired">>, "investigation.completed")
            = <<"cap.fired", "investigation.completed">>
      BY <1>4, AppendedTwo
    <3>2. Logged(<<"cap.fired", "investigation.completed">>)
      BY <1>1, <1>5, <2>1, <3>1
    <3> QED BY <1>3, <1>4, <2>1, <3>2, StopLog
  <2>2. CASE At("cap.fired") # {}
    <3>1. Append(<<>>, "investigation.completed") = <<"investigation.completed">>
      OBVIOUS
    <3>2. Logged(<<"investigation.completed">>)
      BY <1>1, <1>5, <2>2, <3>1
    <3>3. /\ log' \in Seq(LogEntry)
          /\ \A e : At(e)' = IF e = "investigation.completed" THEN At(e) \cup {Len(log) + 1}
                                                              ELSE At(e)
      BY <1>3, <1>4, <3>2, LogOne
    <3> QED BY <1>2, <2>2, <3>3
  <2> QED BY <2>1, <2>2
<1>7. TypeOK' /\ Control' /\ Bounded'
  <2>1. EndFacts
    BY <1>1, <1>3, <1>6 DEF EndFacts
  <2> QED BY <1>1, <2>1, EndKeeps
<1>8. Capped'
  <2>1. PICK i \in Nat : At("cap.fired")' = {i}
    BY <1>6
  <2>2. At("cap.fired")' # {}
    BY <2>1
  <2> QED BY <1>1, <1>2, <2>1, <2>2 DEF Capped
<1>9. Judged'
  BY <1>1, JudgedKept DEF IInv
<1>10. OnCourse'
  BY <1>1 DEF OnCourse, Smooth
<1> QED BY <1>6, <1>7, <1>8, <1>9, <1>10 DEF IInv

\* A broken protocol ends the run.
LEMMA StopBrokenKeeps == ASSUME IInv, StopBroken PROVE IInv'
<1>1. /\ step = "broken" /\ Logged(Append(<<>>, "investigation.completed"))
      /\ phase' = "ended" /\ step' = "end" /\ status' = "PARTIAL"
      /\ UNCHANGED <<clock, budget, call, pending, claimed, receipts, findings, verdicts, terminal,
                     completedAt>>
  BY DEF StopBroken, Conclude, tooling, outcome
<1>2. budget.fired = NoCap /\ At("cap.fired") = {}
  BY <1>1, OpenBudget
<1>3. log \in Seq(LogEntry) /\ phase \in Phase /\ completedAt \in Nat
  BY DEF IInv, TypeOK
<1>4. Logged(<<"investigation.completed">>) /\ "investigation.completed" \in Event
  <2>1. Append(<<>>, "investigation.completed") = <<"investigation.completed">>
    OBVIOUS
  <2>2. Logged(<<"investigation.completed">>)
    BY <1>1, <2>1
  <2> QED BY <2>2 DEF Event
<1>5. /\ log' \in Seq(LogEntry)
      /\ \A e : At(e)' = IF e = "investigation.completed" THEN At(e) \cup {Len(log) + 1} ELSE At(e)
  BY <1>3, <1>4, LogOne
<1>6. TypeOK' /\ Control' /\ Bounded'
  <2>1. EndFacts
    BY <1>1, <1>3, <1>5 DEF EndFacts
  <2> QED BY <1>1, <2>1, EndKeeps
<1>7. Capped'
  BY <1>1, <1>2, <1>5 DEF Capped
<1>8. Judged'
  BY <1>1, JudgedKept DEF IInv
<1>9. OnCourse'
  BY <1>1 DEF OnCourse, Smooth
<1> QED BY <1>5, <1>6, <1>7, <1>8, <1>9 DEF IInv

-------------------------------------------------------------------------------

\* Every step keeps the invariant.
LEMMA NextKeeps == ASSUME IInv, [Next]_vars PROVE IInv'
<1>1. CASE UNCHANGED vars
  <2>1. clock' = clock /\ clock \in Nat /\ UNCHANGED <<budget, call, agentVars>>
    BY <1>1 DEF vars, IInv, TypeOK
  <2>2. clock' \in Nat
    BY <2>1
  <2> QED BY <2>1, <2>2, SameRun
<1>2. CASE Tick
  BY <1>2, TickKeeps
<1>3. CASE Agent
  BY <1>3, StartKeeps, AskKeeps, AwaitKeeps, OpenKeeps, ActKeeps, DoneKeeps, ObserveKeeps,
     FinalizeKeeps, JudgeKeeps, ReportKeeps, CheckLastKeeps, CompleteKeeps, StopCappedKeeps,
     StopBrokenKeeps DEF Agent
<1> QED BY <1>1, <1>2, <1>3 DEF Next

(* The inductive invariant holds throughout every run. *)
THEOREM Inductive == Spec => []IInv
<1>1. IInv /\ [Next]_vars => IInv'
  BY NextKeeps
<1> QED BY <1>1, InitHolds, PTL DEF Spec

(* The types of the controller's state, whatever the model and the tools answer. *)
THEOREM TypeCorrect == Spec => []TypeOK
<1>1. IInv => TypeOK
  BY DEF IInv
<1> QED BY <1>1, Inductive, PTL

(* A run stopped by a cap has it on record once, whoever met it (_record_cap). *)
THEOREM CapRecordedOnce == Spec => []CapOnRecordOnce
<1>1. IInv => CapOnRecordOnce
  <2> SUFFICES ASSUME IInv, step = "end"
               PROVE  Cardinality(At("cap.fired")) = IF budget.fired = NoCap THEN 0 ELSE 1
    BY DEF CapOnRecordOnce
  <2>1. CASE budget.fired = NoCap
    BY <2>1, FS_EmptySet DEF IInv, Capped
  <2>2. CASE budget.fired # NoCap
    <3>1. PICK i \in Nat : At("cap.fired") = {i}
      BY <2>2 DEF IInv, Capped
    <3> QED BY <2>2, <3>1, FS_Singleton
  <2> QED BY <2>1, <2>2
<1> QED BY <1>1, Inductive, PTL

(* A completed run's verdicts are one for each finding, none promoted, and each confirmed
   one rests on a tool that succeeded (_parse_verdicts). *)
THEOREM VerdictsKeep == Spec => []VerdictsHold
<1>1. IInv => VerdictsHold
  BY DEF IInv, Judged, Answering, VerdictsHold
<1> QED BY <1>1, Inductive, PTL

(* A run makes at most MaxToolCalls + 4 model requests that are answered. *)
THEOREM RequestsAreBounded == Spec => []RequestsBounded
<1>1. IInv => RequestsBounded
  <2> SUFFICES ASSUME IInv PROVE Cardinality(At("model.response")) =< MaxToolCalls + 4
    BY DEF RequestsBounded
  <2> DEFINE n == Cardinality(At("model.response"))
             c == budget.toolCalls
             s == Spare
             o == IF Owing THEN 1 ELSE 0
  <2>1. /\ n \in Nat /\ c \in Nat /\ MaxToolCalls \in Nat /\ s \in 0..3 /\ o \in 0..1
        /\ n =< c + s + o /\ c =< MaxToolCalls
    BY FS_CardinalityType, CapConfigAssumption DEF IInv, Bounded, TypeOK, BudgetState, Spare
  <2> HIDE DEF n, c, s, o
  <2>2. n =< MaxToolCalls + 4
    BY <2>1
  <2> QED BY <2>2 DEF n
<1> QED BY <1>1, Inductive, PTL

\* The windows of the verifier are the required events around each phase.
LEMMA Windows ==
    \A p \in Single \cup {"investigate"} :
        Window(p)[1] = Required[First(p)] /\ Window(p)[2] = Required[First(p) + 1]
<1> SUFFICES ASSUME NEW p \in Single \cup {"investigate"}
             PROVE  Window(p)[1] = Required[First(p)] /\ Window(p)[2] = Required[First(p) + 1]
  OBVIOUS
<1>1. /\ p = "opening" =>
            First(p) = 1 /\ Window(p) = <<"investigation.started", "opening.completed">>
      /\ p = "investigate" =>
            First(p) = 2 /\ Window(p) = <<"opening.completed", "investigator.done">>
      /\ p = "investigation-finalize" =>
            First(p) = 3 /\ Window(p) = <<"investigator.done", "investigator.finished">>
      /\ p = "judge" => First(p) = 5 /\ Window(p) = <<"judge.started", "judge.completed">>
      /\ p = "report" => First(p) = 7 /\ Window(p) = <<"report.started", "report.completed">>
  BY DEF First, Window
<1>2. \A a, b : <<a, b>>[1] = a /\ <<a, b>>[2] = b
  OBVIOUS
<1>3. 1 + 1 = 2 /\ 2 + 1 = 3 /\ 3 + 1 = 4 /\ 5 + 1 = 6 /\ 7 + 1 = 8
  OBVIOUS
<1> QED BY <1>1, <1>2, <1>3, RequiredEvents DEF Single

\* A turn that was taken is one that the verifier accepts.
LEMMA TurnAccepted ==
    ASSUME log \in Seq(LogEntry), NEW i \in Of("investigate"), Taken(i)
    PROVE  \E j \in DOMAIN log :
             /\ i < j
             /\ \/ /\ [k \in 1..(j - i - 1) |-> log[i + k].event] = <<>>
                   /\ log[j].event = "investigator.done"
                \/ /\ j \in Of("investigate")
                   /\ [k \in 1..(j - i - 1) |-> log[i + k].event]
                        = <<"investigator.notes.updated", "tool.started", "tool.completed",
                            "investigator.action">>
<1>1. /\ Of("investigate") \subseteq 1..Len(log) /\ DOMAIN log = 1..Len(log)
      /\ Len(log) \in Nat /\ i \in 1..Len(log)
  BY AtRange
<1>2. CASE i + 1 =< Len(log) /\ log[i + 1].event = "investigator.done"
  <2>1. i + 1 \in DOMAIN log /\ i < i + 1 /\ (i + 1) - i - 1 = 0
    BY <1>1, <1>2
  <2>2. [k \in 1..0 |-> log[i + k].event] = <<>>
    OBVIOUS
  <2>3. [k \in 1..((i + 1) - i - 1) |-> log[i + k].event] = <<>>
    BY <2>1, <2>2
  <2> QED BY <1>2, <2>1, <2>3
<1>3. CASE i + 5 \in Of("investigate") /\ TurnAt(i)
  <2>1. i + 5 \in DOMAIN log /\ i < i + 5 /\ (i + 5) - i - 1 = 4
    BY <1>1, <1>3
  <2> DEFINE f == [k \in 1..4 |-> log[i + k].event]
             g == <<"investigator.notes.updated", "tool.started", "tool.completed",
                    "investigator.action">>
  <2>2. f[1] = g[1] /\ f[2] = g[2] /\ f[3] = g[3] /\ f[4] = g[4]
    BY <1>3 DEF TurnAt
  <2>3. f = g
    <3>1. \A k \in 1..4 : k = 1 \/ k = 2 \/ k = 3 \/ k = 4
      OBVIOUS
    <3>2. \A k \in 1..4 : f[k] = g[k]
      BY <2>2, <3>1
    <3>3. f = [k \in 1..4 |-> f[k]] /\ g = [k \in 1..4 |-> g[k]]
      OBVIOUS
    <3> HIDE DEF f, g
    <3> QED BY <3>2, <3>3
  <2>4. [k \in 1..((i + 5) - i - 1) |-> log[i + k].event] = g
    BY <2>1, <2>3
  <2> QED BY <1>3, <2>1, <2>4
<1> QED BY <1>2, <1>3 DEF Taken

(* A run that ends COMPLETE leaves the log, the receipts and the budget that the verifier's
   strict completion asks for (run and _verify_complete_lifecycle). *)
THEOREM CompletionAccepted == Spec => []CompleteVerifies
<1>1. IInv => CompleteVerifies
  <2> SUFFICES ASSUME IInv, status = "COMPLETE"
               PROVE  /\ LifecycleAccepted /\ PhasesAccepted
                      /\ \A r \in receipts : r.status # "capped"
                      /\ ReceiptIds = claimed /\ terminal \notin ReceiptIds
                      /\ budget.toolCalls = Cardinality(receipts) /\ budget.fired = NoCap
    BY DEF CompleteVerifies
  <2>1. /\ budget.fired = NoCap /\ step = "end" /\ phase = "ended" /\ pending = {}
        /\ log \in Seq(LogEntry)
    BY DEF IInv, Control, Capped
  <2>2. /\ Accounted /\ OnStage /\ Ordered /\ Unfailed /\ Once /\ Within /\ Followed
    <3>1. Smooth
      BY <2>1 DEF Smooth
    <3> QED BY <3>1 DEF IInv, OnCourse
  <2>3. Stage = 9
    BY <2>1 DEF Stage
  <2>4. DOMAIN Required = 1..9 /\ Len(Required) - 1 = 8
    BY DEF Required
  <2>5. LifecycleAccepted
    <3>1. \A k \in DOMAIN Required : Cardinality(At(Required[k])) = 1
      <4> SUFFICES ASSUME NEW k \in 1..9 PROVE Cardinality(At(Required[k])) = 1
        BY <2>4
      <4>1. PICK i \in Nat : At(Required[k]) = {i}
        BY <2>2, <2>3 DEF OnStage
      <4> QED BY <4>1, FS_Singleton
    <3>2. \A k \in 1..(Len(Required) - 1) :
            \A i \in At(Required[k]), j \in At(Required[k + 1]) : i < j
      BY <2>2, <2>4 DEF Ordered
    <3> QED BY <2>2, <3>1, <3>2 DEF LifecycleAccepted, Unfailed
  <2>6. PhasesAccepted
    <3>1. \A i \in At("model.response") :
            \A b \in At(Window(log[i].phase)[1]), e \in At(Window(log[i].phase)[2]) : b < i /\ i < e
      <4> SUFFICES ASSUME NEW i \in At("model.response"),
                          NEW b \in At(Window(log[i].phase)[1]),
                          NEW e \in At(Window(log[i].phase)[2])
                   PROVE  b < i /\ i < e
        OBVIOUS
      <4> DEFINE p == log[i].phase
      <4>1. p \in Single \cup {"investigate"} /\ i \in Of(p)
        BY <2>2 DEF Once, Of
      <4>2. b \in At(Required[First(p)]) /\ e \in At(Required[First(p) + 1])
        BY <4>1, Windows
      <4> HIDE DEF p
      <4> QED BY <2>2, <4>1, <4>2 DEF Within
    <3>2. \A p \in Single \cup {"investigate"} : Answered(p)
      BY <2>3 DEF Answered, First
    <3>3. Of("investigate") # {}
      BY <2>2, <3>2 DEF Once
    <3>4. \A p \in Single : Cardinality(Of(p)) = 1
      <4> SUFFICES ASSUME NEW p \in Single PROVE Cardinality(Of(p)) = 1
        OBVIOUS
      <4>1. PICK i \in Nat : Of(p) = {i}
        BY <2>2, <3>2 DEF Once
      <4> QED BY <4>1, FS_Singleton
    <3>5. \A i \in Of("investigate") : Taken(i)
      BY <2>1, <2>2 DEF Followed, Taking
    <3> QED BY <2>1, <3>1, <3>3, <3>4, <3>5, TurnAccepted DEF PhasesAccepted, Of, Single
  <2>7. /\ \A r \in receipts : r.status # "capped"
        /\ ReceiptIds = claimed /\ terminal \notin ReceiptIds
    BY <2>1, <2>2 DEF Accounted
  <2>8. budget.toolCalls = Cardinality(receipts)
    BY <2>1, <2>2, FS_EmptySet, FS_CardinalityType DEF Accounted
  <2> QED BY <2>1, <2>5, <2>6, <2>7, <2>8
<1> QED BY <1>1, Inductive, PTL
===============================================================================
