------------------------------ MODULE EvidenceHost ------------------------------
(* What a run does on its host, from the mount of the disk to the verdict on its release:
   the mount worker and the forensic workers together, in the order in which run_cli uses
   them.  A mount that raised is closed without a tool having run; the mount is closed only
   when no call is running, as ToolRegistry shows, and once. *)
EXTENDS MountWorker, ForensicWorker

vars == <<mountVars, toolVars, host>>

Init == HostInit /\ MountInit /\ ToolInit

InCall == call \notin {"idle", "done"}

\* The try body of run_cli: the mount by profile(), then the tools, then session.close.
CallTool == at \in {"mounted", "unmounted"} /\ CallStep /\ UNCHANGED mountVars
Close == ~InCall /\ CloseMount /\ UNCHANGED toolVars

Parent == (MountStep \/ CloseStep) /\ UNCHANGED toolVars
Process == ProcessStep /\ UNCHANGED toolVars
Orphans == OrphanEnds /\ UNCHANGED toolVars
Worker == WorkerStep /\ UNCHANGED mountVars
Clock == Deadline /\ UNCHANGED <<mountVars, toolVars>>

MountFault == (Crash \/ InterruptMount) /\ UNCHANGED toolVars
Killed == ParentDies /\ ~InCall /\ UNCHANGED toolVars
ToolFault == (LeaderDies \/ Stray \/ DescendantEnds) /\ UNCHANGED mountVars
Ended == at \in {"closed", "dead"} /\ Gone /\ orphans = {} /\ UNCHANGED vars

Next ==
    \/ Parent \/ CallTool \/ Close \/ Process \/ Orphans \/ Worker \/ Clock
    \/ MountFault \/ Killed \/ ToolFault \/ Ended

\* Every process of the host is scheduled, commands inside the kernel return, and time passes.
Fairness ==
    /\ WF_vars(Parent) /\ WF_vars(CallTool) /\ WF_vars(Close) /\ WF_vars(Process)
    /\ WF_vars(Orphans) /\ WF_vars(Worker) /\ WF_vars(Clock)

Spec == Init /\ [][Next]_vars /\ Fairness

-------------------------------------------------------------------------------
\* Properties.

\* When close() reports the mount as released, nothing that this run made is active, and
\* nothing becomes active again but what a command whose owner had died or was interrupted
\* completes afterwards.
ReleasedIsReal == at = "closed" /\ released => active = {} \/ late

\* A mount is left, or its process is, only for a reason.  A closed mount that is not
\* released was busy, or a command that was to release it failed, or it was made by a command
\* without an owner, or mount() was left by an interrupt before it owned its direct mount.
\* The process of a run that was killed releases what it made, unless it was killed too.
\* No process of its group survives a call.
LeftForAReason ==
    /\ at = "closed" /\ ~released =>
        refused \/ late \/ (worker = "none" /\ ~direct /\ "mount" \in active)
    /\ at = "dead" /\ child = "exited" /\ active # {} => abandoned \/ refused \/ late
    /\ call \in {"returned", "done"} => ~kin /\ ~LeaderAlive

\* The mount is closed, or the run is dead, and no process of the mount is left; only a call
\* whose output a stray descendant keeps open may go on for ever.
Settles ==
    <>[](\/ at \in {"closed", "dead"} /\ Gone /\ orphans = {}
         \/ call = "stdout" /\ "pipe" \in astray)

===============================================================================
