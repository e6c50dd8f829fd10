----------------------------- MODULE ProofBundle -----------------------------
(* The bundle that a run leaves in its directory and the rules by which verify.py
   accepts it, from the bundle alone.  A bundle is three things: files, the named files of
   the root with their contents; outputs, the retained tool outputs by their content
   address; log, the records of audit.jsonl.  Contents are records that say what a file
   was made from, so that equal contents are equal hashes; Damaged is a content that
   nothing is made from.  The chain of the log is in AuditLog, the agent's part of a
   complete lifecycle in Investigation and ModelTransaction. *)
EXTENDS Citations, SequencesExt

Damaged == [damaged |-> TRUE]

ExitCode == [COMPLETE |-> 0, FATAL |-> 1, INVALID |-> 2, PARTIAL |-> 3]

\* The root artifacts in the order in which run_cli writes them.
RootArtifacts == <<"report.md", "profile.json", "environment.json", "summary.json",
                   "viewer.html">>

Entry(event, payload) == [event |-> event, payload |-> payload]
Indices(log, event) == {i \in DOMAIN log : log[i].event = event}
Holds(log, event) == Indices(log, event) # {}
Once(log, event) == Cardinality(Indices(log, event)) = 1
Payloads(log, event) == {log[i].payload : i \in Indices(log, event)}

\* The log up to the first artifact.written.
Preterminal(log) ==
    SelectInSeq(log, LAMBDA e : e.event = "artifact.written")

Prefix(log) == IF Preterminal(log) = 0 THEN log ELSE SubSeq(log, 1, Preterminal(log) - 1)

\* build_summary: status, cap and release as they are given, the rest from the log.
BuildSummary(log, status, cap, released) ==
    [status |-> status, exit |-> ExitCode[status], cap |-> cap, released |-> released,
     tools |-> Cardinality(Indices(log, "tool.completed")),
     findings |-> Payloads(log, "investigator.finished"),
     verdicts |-> Payloads(log, "judge.completed"),
     baseline |-> Holds(log, "custody.initial.completed"),
     checked |-> Holds(log, "custody.final.completed")]

RenderViewer(log, status, summary, report) ==
    [viewer |-> status, summary |-> summary, report |-> report, entries |-> Len(log)]

\* build_manifest over the root artifacts and the outputs that the log names.
BuildManifest(files, outputs, log, status, written, used) ==
    [status |-> status, exit |-> ExitCode[status], audit |-> log,
     artifacts |-> [n \in written |-> files[n]], outputs |-> [o \in used |-> outputs[o]]]

\* The detached checksum.
Checksum(manifest) == [sha256 |-> manifest]

-------------------------------------------------------------------------------

ManifestReadable(files) ==
    "manifest.json" \in DOMAIN files /\ files["manifest.json"] # Damaged

\* Mutant: a checksum that is not there is no error.
ChecksumMatchesIfThere(files) ==
    "manifest.sha256" \in DOMAIN files =>
        files["manifest.sha256"] = Checksum(files["manifest.json"])

\* _verify_detached_checksum.
ChecksumMatches(files) ==
    /\ "manifest.sha256" \in DOMAIN files
    /\ files["manifest.sha256"] = Checksum(files["manifest.json"])

\* _verify_artifacts: what is listed is there, with the content that is listed.
ArtifactsMatch(files, outputs, manifest) ==
    /\ \A n \in DOMAIN manifest.artifacts :
        n \in DOMAIN files /\ files[n] = manifest.artifacts[n]
    /\ \A o \in DOMAIN manifest.outputs :
        o \in DOMAIN outputs /\ outputs[o] = manifest.outputs[o]

AuditMatches(log, manifest) == log = manifest.audit /\ log # <<>>

\* _verify_terminal.
TerminalMatches(log, manifest) ==
    /\ Once(log, "run.completed") /\ Last(log).event = "run.completed"
    /\ Last(log).payload.status = manifest.status /\ Last(log).payload.exit = manifest.exit

CallsOf(log, event) == {p.call : p \in Payloads(log, event)}
OutputsOf(log) == {p.output : p \in Payloads(log, "tool.completed")}

\* _verify_tools: one start and, later, one completion of every call, with an output that
\* the manifest lists and the directory holds; the directory holds no other.
ToolsVerified(outputs, log, manifest) ==
    /\ \A event \in {"tool.started", "tool.completed"}, call \in Calls :
        Cardinality({i \in Indices(log, event) : log[i].payload.call = call}) =< 1
    /\ CallsOf(log, "tool.started") = CallsOf(log, "tool.completed")
    /\ \A i \in Indices(log, "tool.started"), j \in Indices(log, "tool.completed") :
        log[i].payload.call = log[j].payload.call => i < j
    /\ \A o \in OutputsOf(log) : o \in DOMAIN manifest.outputs /\ outputs[o] = o
    /\ DOMAIN outputs = OutputsOf(log)

\* The receipts for the later checks, with the bytes read from the outputs.
Receipts(outputs, log) ==
    [c \in CallsOf(log, "tool.completed") |->
        LET p == CHOOSE q \in Payloads(log, "tool.completed") : q.call = c
        IN  [status |-> p.status, output |-> outputs[p.output]]]

\* What the agent recorded as submitted.
WorkOf(log) ==
    [findings |-> UNION Payloads(log, "investigator.finished"),
     verdicts |-> UNION Payloads(log, "judge.completed")]

\* _verify_custody: a recorded final check must say that all is as it was and released.
CustodyVerified(log, status) ==
    LET initial == Indices(log, "custody.initial.completed")
        final == Indices(log, "custody.final.completed")
    IN  /\ status = "COMPLETE" =>
            /\ Cardinality(initial) = 1 /\ Cardinality(final) = 1
            /\ ~Holds(log, "custody.mismatch") /\ ~Holds(log, "mount.release_failed")
        /\ \A i \in initial, f \in final :
            /\ log[f].payload.released /\ i < f
            /\ log[i].payload.hashes = log[f].payload.hashes

\* _verify_profile_binding: profile.json and profile.completed, both or neither.
ProfileBound(log, manifest, strict) ==
    IF "profile.json" \in DOMAIN manifest.artifacts
    THEN /\ Once(log, "profile.completed")
         /\ Payloads(log, "profile.completed") = {manifest.artifacts["profile.json"]}
         /\ \A p \in Payloads(log, "custody.initial.completed") :
                p.hashes = manifest.artifacts["profile.json"].hashes
    ELSE ~Holds(log, "profile.completed") /\ ~strict

\* _verify_viewer: summary and viewer are made again from the log before the artifacts.
ViewerBound(log, manifest) ==
    LET done == Last(log).payload
        summary == BuildSummary(Prefix(log), manifest.status, done.cap, done.released)
        artifacts == manifest.artifacts
    IN  "viewer.html" \in DOMAIN artifacts =>
        /\ {"summary.json", "report.md"} \subseteq DOMAIN artifacts
        /\ artifacts["summary.json"] = summary
        /\ artifacts["viewer.html"] =
            RenderViewer(Prefix(log), manifest.status, summary, artifacts["report.md"])

\* _verify_artifact_write_receipts: the five root artifacts in order, in one block between
\* the final custody check and run.completed.
WritesVerified(log) ==
    LET first == Preterminal(log)
    IN  /\ Cardinality(Indices(log, "artifact.written")) = Len(RootArtifacts)
        /\ first > 1 /\ first + Len(RootArtifacts) = Len(log)
        /\ \A i \in DOMAIN RootArtifacts :
            /\ log[first + i - 1].event = "artifact.written"
            /\ log[first + i - 1].payload.path = RootArtifacts[i]
        /\ log[first - 1].event = "custody.final.completed"

\* _verify_complete_lifecycle, without the agent's own part.
RequiredEvents == <<"run.created", "caps.configured", "custody.initial.completed",
                    "profile.completed", "investigation.started", "investigator.finished",
                    "judge.completed", "investigation.completed",
                    "custody.final.completed", "run.completed">>
FailureEvents == {"cap.fired", "run.preflight_failed", "run.failed", "run.interrupted",
                  "custody.mismatch", "mount.release_failed", "bundle.finalization_failed"}

LifecycleVerified(log, manifest) ==
    /\ manifest.status = "COMPLETE"
    /\ Range(RootArtifacts) \subseteq DOMAIN manifest.artifacts
    /\ \A i \in DOMAIN RequiredEvents : Once(log, RequiredEvents[i])
    /\ \A i, j \in DOMAIN RequiredEvents : i < j =>
        \A a \in Indices(log, RequiredEvents[i]), b \in Indices(log, RequiredEvents[j]) : a < b
    /\ \A event \in FailureEvents : ~Holds(log, event)
    /\ \A p \in Payloads(log, "tool.completed") : p.status \notin {"capped", "rejected"}
    /\ WritesVerified(log)

\* verify_run, strict when require_complete.
Verified(files, outputs, log, strict) ==
    /\ ManifestReadable(files) /\ ChecksumMatches(files)
    /\ LET manifest == files["manifest.json"]
       IN  /\ ArtifactsMatch(files, outputs, manifest)
           /\ AuditMatches(log, manifest) /\ TerminalMatches(log, manifest)
           /\ ToolsVerified(outputs, log, manifest)
           /\ CitationsVerified(WorkOf(log), Receipts(outputs, log))
           /\ CustodyVerified(log, manifest.status)
           /\ ProfileBound(log, manifest, strict)
           /\ strict => LifecycleVerified(log, manifest)
           /\ ViewerBound(log, manifest)

===============================================================================
