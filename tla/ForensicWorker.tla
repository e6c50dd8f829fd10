----------------------------- MODULE ForensicWorker -----------------------------
(* One call of a forensic tool: _run_isolated_worker of tools.py, which starts a process in
   a session of its own, sends it one request and reads one line back under the deadline of
   the run, and _tool_worker.py, which is that process.  The tool that it runs starts
   descendants, which keep the worker's output open; one may leave the process group. *)
EXTENDS HostResources

VARIABLES
    call,     \* what the caller does next
    answer,   \* what the call returns
    reader,   \* the thread that reads the line: none, reading, line or eof
    broken,   \* the request could not be written and is still in the buffer
    leader,   \* the worker process
    kin       \* descendants in its group are alive

toolVars == <<call, answer, reader, broken, leader, kin>>

ToolInit ==
    /\ call = "idle" /\ answer = "none" /\ reader = "none" /\ broken = FALSE
    /\ leader = "none" /\ kin = FALSE

LeaderAlive == leader \in {"started", "running", "answered"}

-------------------------------------------------------------------------------
\* _run_isolated_worker.

Start ==
    /\ call = "idle"
    /\ \/ call' = "started" /\ leader' = "started" /\ UNCHANGED <<answer, faults>>
       \/ Fault /\ call' = "returned" /\ answer' = "error" /\ UNCHANGED leader
    /\ UNCHANGED <<reader, broken, kin, active, astray, capped, refused>>

\* The request, unless the time is up; then the reader is started.
Ask ==
    /\ call = "started"
    /\ \/ capped /\ call' = "kill" /\ answer' = "timeout" /\ UNCHANGED <<reader, broken>>
       \/ ~LeaderAlive /\ call' = "kill" /\ answer' = "error" /\ broken' = TRUE
          /\ UNCHANGED reader
       \/ LeaderAlive /\ ~capped /\ call' = "asked" /\ reader' = "reading"
          /\ UNCHANGED <<answer, broken>>
    /\ UNCHANGED <<leader, kin, host>>

\* The line, the end of the output, or the deadline.
Receive ==
    /\ call = "asked" /\ call' = "kill"
    /\ \/ reader = "line" /\ answer' \in {"value", "error"}
       \/ reader = "eof" /\ answer' = "error"
       \/ reader = "reading" /\ capped /\ answer' = "timeout"
    /\ UNCHANGED <<reader, broken, leader, kin, host>>

\* Mutant: the worker is killed and its group is not.
KillLeader ==
    /\ call = "kill" /\ call' = "stdin" /\ leader' = "dead"
    /\ UNCHANGED <<answer, reader, broken, kin, host>>

\* _terminate_worker_tree and the wait for the worker, whatever has happened before.
KillGroup ==
    /\ call = "kill" /\ call' = "stdin" /\ leader' = "dead" /\ kin' = FALSE
    /\ UNCHANGED <<answer, reader, broken, host>>

\* What could not be written is written again when stdin is closed, and raises.
CloseStdin ==
    /\ call = "stdin" /\ call' = IF broken THEN "returned" ELSE "stdout"
    /\ UNCHANGED <<answer, reader, broken, leader, kin, host>>

\* stdout cannot be closed while the reader is inside readline.
CloseStdout ==
    /\ call = "stdout" /\ reader # "reading" /\ call' = "returned"
    /\ UNCHANGED <<answer, reader, broken, leader, kin, host>>

\* _run_forensic_worker looks at the deadline, which an exception skips.
CheckDeadline ==
    /\ call = "returned" /\ call' = "done"
    /\ answer' = IF capped /\ ~broken THEN "capped" ELSE answer
    /\ UNCHANGED <<reader, broken, leader, kin, host>>

-------------------------------------------------------------------------------
\* The process and its output.

\* _run: the request is read and a tool started.
RunTool ==
    /\ leader = "started" /\ call = "asked" /\ leader' = "running" /\ kin' \in BOOLEAN
    /\ UNCHANGED <<call, answer, reader, broken, host>>

\* One line; then the worker stays alive, so that its group keeps its id.
Answer ==
    /\ leader = "running" /\ leader' = "answered"
    /\ UNCHANGED <<call, answer, reader, broken, kin, host>>

\* The reader has the line, or the end of the output when nobody keeps it open.
Read ==
    /\ reader = "reading"
    /\ \/ leader = "answered" /\ reader' = "line"
       \/ leader = "dead" /\ ~kin /\ "pipe" \notin astray /\ reader' = "eof"
    /\ UNCHANGED <<call, answer, broken, leader, kin, host>>

LeaderDies ==
    /\ LeaderAlive /\ Fault /\ leader' = "dead"
    /\ UNCHANGED <<call, answer, reader, broken, kin, active, astray, capped, refused>>

\* A descendant makes a session of its own and keeps open what it has open.
Stray ==
    /\ kin /\ Fault /\ kin' \in BOOLEAN
    /\ astray' \in {{"pipe"}, {"mount"} \cap active, {"pipe"} \cup ({"mount"} \cap active)} \ {{}}
    /\ UNCHANGED <<call, answer, reader, broken, leader, active, capped, refused>>

\* A descendant ends when it likes.
DescendantEnds ==
    /\ kin' \in {kin, FALSE} /\ astray' \in {astray, {}}
    /\ UNCHANGED <<call, answer, reader, broken, leader, active, capped, refused, faults>>

CallStep == Start \/ Ask \/ Receive \/ KillGroup \/ CloseStdin \/ CloseStdout \/ CheckDeadline
WorkerStep == RunTool \/ Answer \/ Read

===============================================================================
