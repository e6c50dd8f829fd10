----------------------------- MODULE RunLifecycle -----------------------------
(* run_cli of cli.py: one run from its first audit record to its exit code, with the
   EvidenceSession, the artifact store and the verification of the bundle it seals.  The
   body of its try statement ends by the agent's result or by an exception, whose handler
   writes a record; then the mount is released, the evidence is hashed again, the bundle
   is sealed, listed and verified.  Appends to the log and writes of files may fail, the
   operator may interrupt, the process may be killed at any point, the evidence may
   change, and the bundle may be damaged afterwards.  The agent is one step, which is
   free in what it submits as long as agent.py accepts it; its phases are Investigation.
   The mount is EvidenceHost's. *)
EXTENDS ProofBundle

CONSTANTS
    Outputs, Texts,    \* outputs of tools and texts of quotes, sequences of bytes
    MaxFaults          \* bound on failures, interrupts, changes and damage

\* The retained output of a call is a JSON document, never empty, which is what Damage makes it.
ASSUME LifecycleAssumption ==
    /\ MaxFaults \in Nat /\ IsFiniteSet(Calls)
    /\ Outputs \cup Texts \subseteq Seq(0..255) /\ <<>> \notin Outputs

VARIABLES
    pc,            \* the statement of run_cli that comes next
    log, files, outputs,
    torn,          \* a failed append has left bytes in audit.jsonl
    temporaries,   \* root files of which a temporary is on disk
    session,       \* the EvidenceSession: none, open or closed
    evidence,      \* the evidence as it is on disk, as a number of changes
    baseline,      \* the evidence as profile() hashed it
    profile,       \* what profile() returned, a set of at most one
    required,      \* custody_required
    released,      \* mount_released
    run,           \* the AgentRun, a set of at most one
    status,        \* terminal_status
    failure,       \* the record that a handler writes, the exception that escapes
    written,       \* root_artifacts
    exit,          \* the exit code, -1 while the run goes on, -2 when it was killed
    faults

bundle == <<log, files, outputs, torn, temporaries>>
case == <<session, evidence, baseline, profile, required, released>>
result == <<run, status, failure, written, exit>>
vars == <<pc, bundle, case, result, faults>>

Running == -1
Killed == -2
NoPayload == <<>>

\* The statements of the try body, of the sealing and of what is around them.
Body == {"caps", "session", "started", "profile", "required", "baseline", "profiled",
         "route", "registry", "agent"}
Sealing == {"seal", "receipts", "complete", "sealed"}
Places == Body \cup Sealing \cup
    {"created", "handle", "close", "unmounted", "final", "rehash", "mismatched", "finalize",
     "manifest", "checksum", "verify", "escape", "end"}

Init ==
    /\ pc = "created" /\ log = <<>> /\ files = <<>> /\ outputs = <<>> /\ torn = FALSE
    /\ temporaries = {} /\ session = "none" /\ evidence = 0 /\ baseline = 0 /\ profile = {}
    /\ required = FALSE /\ released = TRUE /\ run = {} /\ status = "FATAL"
    /\ failure = "none" /\ written = <<>> /\ exit = Running /\ faults = 0

Fault == faults < MaxFaults /\ faults' = faults + 1
Goto(place) == pc' = place /\ UNCHANGED faults
At(place) == exit = Running /\ pc = place

-------------------------------------------------------------------------------
\* Exceptions.

\* The terminal status and the record of the handler that takes an exception.
Handler(exception) ==
    CASE exception = "CapExceeded" -> <<"PARTIAL", "cap.fired">>
      [] exception = "CustodyError" -> <<"FATAL", "custody.mismatch">>
      [] exception \in {"EvidenceDiscoveryError", "ValueError"} ->
            <<"INVALID", "run.preflight_failed">>
      [] exception = "KeyboardInterrupt" -> <<"FATAL", "run.interrupted">>
      [] OTHER -> <<"FATAL", "run.failed">>

\* In the body to its handler; while sealing a last record comes before it goes on.
Throw(exception) ==
    IF pc \in Body
    THEN /\ status' = Handler(exception)[1] /\ failure' = Handler(exception)[2]
         /\ pc' = "handle"
    ELSE /\ failure' = exception
         /\ pc' = IF pc \in Sealing /\ exception # "KeyboardInterrupt" THEN "finalize"
                                                                      ELSE "escape"
         /\ UNCHANGED status

\* What the statement at pc may raise by itself.
Raised(place) ==
    CASE place \in {"caps", "registry"} -> {"ValueError"}
      [] place = "session" -> {"EvidenceDiscoveryError"}
      [] place = "profile" -> {"CapExceeded", "CustodyError", "EvidenceDiscoveryError",
                               "EvidenceError", "OSError"}
      [] place = "route" -> {"EvidenceDiscoveryError", "CapExceeded"}
      [] OTHER -> {}

Raise ==
    /\ exit = Running
    /\ \E exception \in Raised(pc) : Throw(exception)
    /\ UNCHANGED <<bundle, case, run, written, exit, faults>>

Interrupt ==
    /\ exit = Running /\ pc # "escape" /\ Fault
    /\ Throw("KeyboardInterrupt")
    /\ UNCHANGED <<bundle, case, run, written, exit>>

\* audit.append fails: nothing is written, or bytes that the chain does not go on from.
AppendFails ==
    /\ Fault /\ torn' \in {torn, TRUE}
    /\ Throw("OSError")
    /\ UNCHANGED <<log, files, outputs, temporaries, case, run, written, exit>>

\* A path in the text of an error that UTF-8 does not have.
Unencodable ==
    /\ Fault /\ Throw("ValueError")
    /\ UNCHANGED <<bundle, case, run, written, exit>>

\* audit.append, then the statement at next.
Record(event, payload, next) ==
    \/ /\ log' = Append(log, Entry(event, payload)) /\ Goto(next)
       /\ UNCHANGED <<files, outputs, torn, temporaries, case, result>>
    \/ AppendFails

\* os.replace: one name of the directory gets a new content.
Replaced(name, content) ==
    [n \in DOMAIN files \cup {name} |-> IF n = name THEN content ELSE files[n]]

\* ArtifactStore.write_bytes: a temporary, which stays when its write fails, then the
\* replacement, after whose failure it is removed.
Write(name, content, next) ==
    \/ /\ name \notin temporaries
       /\ temporaries' = temporaries \cup {name}
       /\ UNCHANGED <<pc, log, files, outputs, torn, case, result, faults>>
    \/ /\ name \notin temporaries
       /\ Fault /\ temporaries' \in {temporaries, temporaries \cup {name}}
       /\ Throw("OSError")
       /\ UNCHANGED <<log, files, outputs, torn, case, run, written, exit>>
    \/ /\ name \in temporaries
       /\ temporaries' = temporaries \ {name}
       /\ files' = Replaced(name, content)
       /\ written' = IF name \in Range(RootArtifacts) THEN Append(written, name) ELSE written
       /\ Goto(next)
       /\ UNCHANGED <<log, outputs, torn, case, run, status, failure, exit>>
    \/ /\ name \in temporaries
       /\ Fault /\ temporaries' = temporaries \ {name}
       /\ files' \in {files, Replaced(name, content)}
       /\ Throw("OSError")
       /\ UNCHANGED <<log, outputs, torn, case, run, written, exit>>

-------------------------------------------------------------------------------
\* The try statement.

Create == At("created") /\ Record("run.created", NoPayload, "caps")
Configure == At("caps") /\ Record("caps.configured", NoPayload, "session")

OpenSession ==
    /\ At("session") /\ session' = "open" /\ Goto("started")
    /\ UNCHANGED <<bundle, evidence, baseline, profile, required, released, result>>

StartCustody == At("started") /\ Record("custody.initial.started", NoPayload, "profile")

\* EvidenceSession.profile hashes every file, classifies and routes.
Profile ==
    /\ At("profile")
    /\ baseline' = evidence /\ profile' = {[hashes |-> evidence]} /\ Goto("required")
    /\ UNCHANGED <<bundle, session, evidence, required, released, result>>

Require ==
    /\ At("required") /\ required' = TRUE /\ Goto("baseline")
    /\ UNCHANGED <<bundle, session, evidence, baseline, profile, released, result>>

RecordBaseline ==
    At("baseline") /\ Record("custody.initial.completed", [hashes |-> baseline], "profiled")

RecordProfile ==
    /\ At("profiled")
    /\ \E p \in profile : Record("profile.completed", p, "route")

Route ==
    /\ At("route") /\ Goto("registry")
    /\ UNCHANGED <<bundle, case, result>>

LoadTools ==
    /\ At("registry") /\ Goto("agent")
    /\ UNCHANGED <<bundle, case, result>>

-------------------------------------------------------------------------------
\* The agent.

Statuses == {"CONFIRMED", "NEEDS_REVIEW"}
Started(c) == Entry("tool.started", [call |-> c])
Completed(c, receipts) ==
    Entry("tool.completed", [call |-> c, status |-> receipts[c].status,
                             output |-> receipts[c].output])

\* The records of a batch; the output of every call is installed before its receipt.
BatchLog(receipts) ==
    LET calls == SetToSeq(DOMAIN receipts)
    IN  [i \in DOMAIN calls |-> Started(calls[i])] \o
        [i \in DOMAIN calls |-> Completed(calls[i], receipts)]
Retained(receipts) ==
    LET retained == {receipts[c].output : c \in DOMAIN receipts}
    IN  [o \in retained |-> o]

\* What the finalizer may submit over these receipts: at most one finding.
Findings(receipts) ==
    LET calls == DOMAIN receipts
        Quotes == SeqOf([call : calls, text : Texts], MaxQuotes)
    IN  {[status |-> f[1], cites |-> f[2], spans |-> Resolved(f[3], receipts)] :
            f \in {g \in Statuses \X (SUBSET calls) \X Quotes :
                    FindingAccepted(g[1], g[2], g[3], receipts)}}

\* What the judge may return for it; no status above the finding's.
Verdicts(finding, receipts) ==
    LET ids == {finding.spans[i].id : i \in DOMAIN finding.spans}
    IN  {v \in [status : {s \in Statuses : s = "CONFIRMED" => finding.status = s},
                cites : SUBSET finding.cites,
                quotes : SeqOf([id : ids, call : finding.cites, text : Texts], 1)] :
            VerdictAccepted(v.status, v.cites, v.quotes, finding, receipts)}

\* agent.run: findings and verdicts as they were submitted, of a PARTIAL perhaps fewer.
AgentEnds(receipts, findings, verdicts, ended, caps) ==
    /\ outputs' = Retained(receipts)
    /\ log' = log
        \o <<Entry("investigation.started", NoPayload)>> \o BatchLog(receipts)
        \o (IF findings = {} /\ ended = "PARTIAL" THEN <<>>
            ELSE <<Entry("investigator.finished", findings)>>)
        \o (IF verdicts = {} /\ ended = "PARTIAL" THEN <<>>
            ELSE <<Entry("judge.completed", verdicts)>>)
        \o [i \in 1..Cardinality(caps) |-> Entry("cap.fired", NoPayload)]
        \o <<Entry("investigation.completed", NoPayload)>>
    /\ run' = {[status |-> ended, cap |-> caps]} /\ status' = ended
    /\ Goto("close")
    /\ UNCHANGED <<files, torn, temporaries, case, failure, written, exit>>

ReceiptsOver(statuses) == [Calls -> [status : statuses, output : Outputs]]

AgentCompletes ==
    /\ At("agent")
    /\ \E receipts \in ReceiptsOver({"success", "error"}) :
        \/ AgentEnds(receipts, {}, {}, "COMPLETE", {})
        \/ \E f \in Findings(receipts) : \E v \in Verdicts(f, receipts) :
            AgentEnds(receipts, {f}, {v}, "COMPLETE", {})

\* By a cap, or by an answer that breaks the protocol.
AgentStops ==
    /\ At("agent")
    /\ \E receipts \in ReceiptsOver({"success", "capped"}), caps \in SUBSET {"cap"} :
        \/ AgentEnds(receipts, {}, {}, "PARTIAL", caps)
        \/ \E f \in Findings(receipts) : AgentEnds(receipts, {f}, {}, "PARTIAL", caps)

\* agent.run raises: text of the model that UTF-8 does not have (ValueError) between two
\* calls; a failing append or an interrupt, which may leave a call without its receipt.
AgentRaises ==
    /\ At("agent") /\ Fault
    /\ \E exception \in {"ValueError", "OSError", "KeyboardInterrupt"}, c \in Calls,
          output \in Outputs :
        LET receipts == [d \in {c} |-> [status |-> "success", output |-> output]]
            batch == BatchLog(receipts)
        IN  /\ \E n \in (IF exception = "ValueError" THEN {0, Len(batch)} ELSE 0..Len(batch)) :
                /\ log' = log \o <<Entry("investigation.started", NoPayload)>>
                              \o SubSeq(batch, 1, n)
                /\ outputs' \in {IF n = Len(batch) THEN Retained(receipts) ELSE <<>>}
                                \cup (IF n = 1 THEN {Retained(receipts)} ELSE {})
            /\ Throw(exception)
    /\ UNCHANGED <<files, torn, temporaries, case, run, written, exit>>

Handle ==
    /\ At("handle")
    /\ \/ Record(failure, NoPayload, "close")
       \/ failure \in {"custody.mismatch", "run.preflight_failed", "run.failed"} /\ Unencodable

-------------------------------------------------------------------------------
\* Release and custody.

\* finally: session.close; a release that cannot be verified is a fault.
Close ==
    /\ At("close") /\ pc' = "unmounted"
    /\ session' = IF session = "open" THEN "closed" ELSE session
    /\ \/ UNCHANGED <<released, faults>>
       \/ session = "open" /\ Fault /\ released' = FALSE
    /\ UNCHANGED <<bundle, evidence, baseline, profile, required, result>>

CheckReleased ==
    /\ At("unmounted") /\ released /\ Goto("final")
    /\ UNCHANGED <<bundle, case, result>>

ReportUnreleased ==
    /\ At("unmounted") /\ ~released
    /\ \/ /\ status' = "FATAL" /\ Goto("final")
          /\ log' = Append(log, Entry("mount.release_failed", NoPayload))
          /\ UNCHANGED <<files, outputs, torn, temporaries, case, run, failure, written, exit>>
       \/ AppendFails

\* Mutant: the evidence is hashed again only after a run that is complete.
FinalIfComplete ==
    /\ At("final")
    /\ IF required /\ status = "COMPLETE"
       THEN Record("custody.final.started", NoPayload, "rehash")
       ELSE Goto("seal") /\ UNCHANGED <<bundle, case, result>>

StartFinal ==
    /\ At("final")
    /\ IF required THEN Record("custody.final.started", NoPayload, "rehash")
                   ELSE Goto("seal") /\ UNCHANGED <<bundle, case, result>>

\* EvidenceSession.verify_custody.
VerifyCustody ==
    /\ At("rehash")
    /\ IF evidence = baseline
       THEN Record("custody.final.completed", [hashes |-> evidence, released |-> released],
                   "seal")
       ELSE /\ status' = "FATAL" /\ Goto("mismatched")
            /\ UNCHANGED <<bundle, case, run, failure, written, exit>>

ReportMismatch ==
    /\ At("mismatched")
    /\ Record("custody.mismatch", NoPayload, "seal") \/ Unencodable

-------------------------------------------------------------------------------
\* Sealing, and the manifest after it.

CapName == UNION {r.cap : r \in run}
Summary == BuildSummary(log, status, CapName, released)
Report == [report |-> status]

Content(name) ==
    CASE name = "report.md" -> Report
      [] name = "profile.json" -> CHOOSE p \in profile : TRUE
      [] name = "environment.json" -> [environment |-> required]
      [] name = "summary.json" -> Summary
      [] name = "viewer.html" -> RenderViewer(log, status, Summary, Report)

ToWrite == IF profile # {} THEN RootArtifacts
           ELSE <<"report.md", "environment.json", "summary.json", "viewer.html">>

\* Mutant: the last artifact first.
LastUnwritten == Reverse(SubSeq(ToWrite, Len(written) + 1, Len(ToWrite)))
Unwritten == SubSeq(ToWrite, Len(written) + 1, Len(ToWrite))

\* The artifacts in their order; the log is verified before the summary.
Seal ==
    /\ At("seal") /\ Unwritten # <<>>
    /\ IF torn /\ Head(Unwritten) = "summary.json"
       THEN Throw("AuditError") /\ UNCHANGED <<bundle, case, run, written, exit, faults>>
       ELSE Write(Head(Unwritten), Content(Head(Unwritten)),
                  IF Len(Unwritten) = 1 THEN "receipts" ELSE "seal")

RecordWrites ==
    /\ At("receipts")
    /\ LET next == Cardinality(Indices(log, "artifact.written")) + 1
       IN  Record("artifact.written", [path |-> written[next]],
                  IF next = Len(written) THEN "complete" ELSE "receipts")

RecordCompletion ==
    /\ At("complete")
    /\ Record("run.completed", [status |-> status, exit |-> ExitCode[status], cap |-> CapName,
                                released |-> released], "sealed")

Sealed ==
    /\ At("sealed")
    /\ IF torn THEN Throw("AuditError") /\ UNCHANGED faults
               ELSE Goto("manifest") /\ UNCHANGED <<status, failure>>
    /\ UNCHANGED <<bundle, case, run, written, exit>>

\* bundle.finalization_failed, then the exception goes on.
ReportFinalization ==
    /\ At("finalize")
    /\ \/ log' = Append(log, Entry("bundle.finalization_failed", NoPayload)) /\ UNCHANGED torn
       \/ torn' \in {torn, TRUE} /\ UNCHANGED log
    /\ Goto("escape")
    /\ UNCHANGED <<files, outputs, temporaries, case, result>>

\* _tool_output_artifacts: the outputs of the receipts, and no other.
Listed == OutputsOf(log)

WriteManifest ==
    /\ At("manifest")
    /\ \A o \in Listed : o \in DOMAIN outputs /\ outputs[o] = o
    /\ Write("manifest.json",
             BuildManifest(files, outputs, log, status, Range(written), Listed), "checksum")

WriteChecksum ==
    /\ At("checksum")
    /\ Write("manifest.sha256", Checksum(files["manifest.json"]), "verify")

\* verify_run, strict for a COMPLETE run.
Verify ==
    /\ At("verify") /\ Goto("end")
    /\ exit' = IF Verified(files, outputs, log, status = "COMPLETE") THEN ExitCode[status]
                                                                   ELSE ExitCode["FATAL"]
    /\ UNCHANGED <<bundle, case, run, status, failure, written>>

\* An exception out of run_cli: what finally still has to close is closed, and main turns
\* a ValueError into an invalid configuration.
Escape ==
    /\ At("escape") /\ Goto("end")
    /\ session' = IF session = "open" THEN "closed" ELSE session
    /\ exit' = ExitCode[IF failure = "ValueError" THEN "INVALID" ELSE "FATAL"]
    /\ UNCHANGED <<bundle, evidence, baseline, profile, required, released>>
    /\ UNCHANGED <<run, status, failure, written>>

-------------------------------------------------------------------------------
\* The surroundings.

\* A file of the evidence changes, appears or disappears.
Disturb ==
    /\ exit = Running /\ Fault /\ evidence' = evidence + 1
    /\ UNCHANGED <<pc, bundle, session, baseline, profile, required, released, result>>

\* The process is killed; what is on disk stays.
Kill ==
    /\ exit = Running /\ Fault /\ exit' = Killed
    /\ UNCHANGED <<pc, bundle, case, run, status, failure, written>>

\* Once the run has ended one file, one output or one record is changed or lost.
Damage ==
    /\ exit # Running /\ pc # "damaged" /\ Fault /\ pc' = "damaged"
    /\ \/ /\ \E n \in DOMAIN files :
                files' \in {[files EXCEPT ![n] = Damaged], Restrict(files, DOMAIN files \ {n})}
          /\ UNCHANGED <<log, outputs>>
       \/ /\ \E o \in DOMAIN outputs :
                outputs' \in {[outputs EXCEPT ![o] = <<>>],
                              Restrict(outputs, DOMAIN outputs \ {o})}
          /\ UNCHANGED <<log, files>>
       \/ /\ \E i \in DOMAIN log :
                log' \in {[log EXCEPT ![i].event = "damaged"], RemoveAt(log, i)}
          /\ UNCHANGED <<files, outputs>>
    /\ UNCHANGED <<torn, temporaries, case, result>>

Ended == exit # Running /\ UNCHANGED vars

RunCli ==
    \/ Create \/ Configure \/ OpenSession \/ StartCustody \/ Profile \/ Require
    \/ RecordBaseline \/ RecordProfile \/ Route \/ LoadTools \/ Raise
    \/ AgentCompletes \/ AgentStops \/ AgentRaises \/ Handle
    \/ Close \/ CheckReleased \/ ReportUnreleased \/ StartFinal \/ VerifyCustody
    \/ ReportMismatch \/ Seal \/ RecordWrites \/ RecordCompletion \/ Sealed
    \/ ReportFinalization \/ WriteManifest \/ WriteChecksum \/ Verify \/ Escape

Next == RunCli \/ Interrupt \/ Disturb \/ Kill \/ Damage \/ Ended

Spec == Init /\ [][Next]_vars

-------------------------------------------------------------------------------
\* Properties.

\* Names, ranges and the shapes that the other properties rely on.
TypeOK ==
    /\ pc \in Places \cup {"damaged"} /\ torn \in BOOLEAN
    /\ temporaries \subseteq DOMAIN [n \in Range(RootArtifacts) \cup
                                        {"manifest.json", "manifest.sha256"} |-> 0]
    /\ session \in {"none", "open", "closed"} /\ {evidence, baseline} \subseteq 0..MaxFaults
    /\ Cardinality(profile) =< 1 /\ Cardinality(run) =< 1
    /\ required \in BOOLEAN /\ released \in BOOLEAN /\ status \in DOMAIN ExitCode
    /\ IsPrefix(written, ToWrite) /\ exit \in -2..3 /\ faults \in 0..MaxFaults

\* Two spans of one finding have one id.
SharesSpan ==
    \E f \in WorkOf(log).findings : \E i, j \in DOMAIN f.spans :
        i # j /\ f.spans[i].id = f.spans[j].id

\* What a run that was not fatal has sealed passes the verification that ends it, whatever
\* failed, stopped or was refused before: a COMPLETE run under the strict rules.  The runs
\* with two spans of one id are left to HonestRunVerifies.
SealedVerifies ==
    pc = "verify" /\ status # "FATAL" /\ ~SharesSpan =>
        Verified(files, outputs, log, status = "COMPLETE")

\* The comment at the end of run_cli: a COMPLETE run takes the strict verification, so one
\* whose agent accepted every citation must pass it.
HonestRunVerifies ==
    pc = "verify" /\ status = "COMPLETE" => Verified(files, outputs, log, TRUE)

\* The exit code is earned.  Only a run of this status exits with its code; a baseline was
\* compared, after the mount was released, with the evidence as it then was; a COMPLETE
\* run has one.  Exit 2 may also be a ValueError, with nothing sealed.
ExitIsEarned ==
    pc = "end" /\ exit \in {0, 2, 3} =>
        \/ exit = 2 /\ failure = "ValueError" /\ "manifest.json" \notin DOMAIN files
        \/ /\ ExitCode[status] = exit /\ Verified(files, outputs, log, exit = 0)
           /\ released /\ session # "open" /\ (exit = 0 => required)
           /\ required => Payloads(log, "custody.final.completed") =
                            {[hashes |-> baseline, released |-> TRUE]}

\* A bundle verifies only when the run has written all of it and nothing of it has changed
\* since: not before the detached checksum, not after a kill that came earlier, and not
\* with one file, output or record damaged.
VerifiesOnlySealed ==
    Verified(files, outputs, log, FALSE) =>
        pc \in {"verify", "escape", "end"} /\ temporaries = {} /\ ~torn

===============================================================================
