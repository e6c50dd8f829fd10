------------------------------ MODULE MountWorker ------------------------------
(* The read-only mount of disk evidence, in evidence.py: _ReadOnlyMount, which tries the
   pinned methods one after the other or one command of its own; _ReferenceMountWorker,
   which owns the process of one attempt; and that process, which makes the mount through
   the pinned backend, keeps it until it is told to clean up, and answers by lines.  The
   process runs commands in its own process group.  Either side may be slow or die, the
   operator may interrupt mount(), and a command inside the kernel outlives SIGKILL. *)
EXTENDS HostResources

VARIABLES
    at,         \* what the parent does next
    methods,    \* the pinned methods it has left
    method,     \* the method of the current worker
    worker,     \* _reference_worker: none, open or closed
    ok,         \* the worker's _released
    next,       \* what follows the release of a worker: it failed, expired, was rejected or closed
    path,       \* path is set
    direct,     \* _direct_mount
    closed,     \* _closed
    released,   \* _released
    child,      \* the process of the worker
    outcome,    \* the line it still has to emit
    told,       \* lines that it has been sent and has not read
    replies,    \* lines it has emitted, and eof
    helper,     \* the layer that a command of the backend, or the direct mount, is making
    orphans,    \* layers that commands without an owner are still making
    late,       \* history: such a command has succeeded
    abandoned   \* history: a process has exited without its cleanup

mount == <<methods, method, worker, ok, next, path, direct, closed, released>>
process == <<child, outcome, told, replies, helper, orphans, late, abandoned>>
mountVars == <<at, mount, process>>

Methods == <<"raw@0", "ntfs_offsets", "dmpad">>
Gone == child \in {"none", "exited"}
InMount == {"next", "launch", "send", "reply", "readonly", "wait", "term", "grace", "clean",
            "check", "direct", "command", "verify", "settle"}

MountInit ==
    /\ at = "idle" /\ methods = <<>> /\ method = "none" /\ worker = "none" /\ ok = TRUE
    /\ next = "none" /\ path = FALSE /\ direct = FALSE /\ closed = FALSE /\ released = TRUE
    /\ child = "none" /\ outcome = "none" /\ told = 0 /\ replies = <<>>
    /\ helper = "none" /\ orphans = {} /\ late = FALSE /\ abandoned = FALSE

Go(place) == at' = place

-------------------------------------------------------------------------------
\* _ReadOnlyMount.mount.

\* By the filesystem and the privileges: the pinned methods, one command, or neither.
Mount ==
    /\ at = "idle" /\ path' = TRUE /\ released' = FALSE
    /\ \/ capped /\ Go("raised") /\ UNCHANGED methods
       \/ ~capped /\ Go("next") /\ methods' = Methods
       \/ ~capped /\ at' \in {"direct", "settle"} /\ UNCHANGED methods
    /\ UNCHANGED <<method, worker, ok, next, direct, closed, process, host>>

\* The loop over the methods, with the constructor of the worker.
NextMethod ==
    /\ at = "next"
    /\ \/ methods = <<>> /\ Go("settle")
          /\ UNCHANGED <<methods, method, worker, ok, next, faults>>
       \/ methods # <<>> /\ ((capped /\ UNCHANGED faults) \/ Fault) /\ Go("raised")
          /\ UNCHANGED <<methods, method, worker, ok, next>>
       \/ methods # <<>> /\ ~capped /\ Go("launch")
          /\ methods' = Tail(methods) /\ method' = Head(methods)
          /\ worker' = "open" /\ ok' = FALSE /\ next' = "failed" /\ UNCHANGED faults
    /\ UNCHANGED <<path, direct, closed, released, process>>
    /\ UNCHANGED <<active, astray, capped, refused>>

\* A process is started, or not: Popen fails, or dmpad could not be contained.
Launch ==
    /\ at = "launch" /\ told' = 0 /\ replies' = <<>> /\ outcome' = "none"
    /\ \/ capped /\ Go("raised") /\ child' = "none" /\ UNCHANGED faults
       \/ ~capped /\ Go("send") /\ child' = "request" /\ UNCHANGED faults
       \/ method = "dmpad" /\ Go("clean") /\ child' = "none" /\ UNCHANGED faults
       \/ ~capped /\ Fault /\ Go("clean") /\ child' = "none"
    /\ UNCHANGED <<mount, helper, orphans, late, abandoned>>
    /\ UNCHANGED <<active, astray, capped, refused>>

\* A process that has exited already is found by the caller, which closes the worker.
Send ==
    /\ at = "send"
    /\ IF child = "exited" THEN Go("clean") /\ UNCHANGED told ELSE Go("reply") /\ told' = 1
    /\ UNCHANGED <<mount, child, outcome, replies, helper, orphans, late, abandoned, host>>

\* The time left is asked first, which may raise and leave the worker open.  Then the reply,
\* or none in time.  Whatever is not a plain answer in time is contained.
Reply ==
    /\ at = "reply"
    /\ \/ capped /\ Go("raised") /\ UNCHANGED <<next, replies>>
       \/ /\ replies # <<>> /\ replies' = Tail(replies)
          /\ at' = CASE capped -> "term"
                     [] Head(replies) = "mounted" -> "readonly"
                     [] Head(replies) = "unmounted" -> "wait"
                     [] OTHER -> "term"
          /\ next' = IF capped \/ Head(replies) = "eof" THEN "expired" ELSE next
       \/ replies = <<>> /\ Go("term") /\ next' = "expired" /\ UNCHANGED replies
    /\ UNCHANGED <<methods, method, worker, ok, path, direct, closed, released>>
    /\ UNCHANGED <<child, outcome, told, helper, orphans, late, abandoned, host>>

\* mountinfo must show the mount, and show it as read-only.
ReadOnly ==
    /\ at = "readonly"
    /\ \/ "mount" \in active /\ Go("mounted") /\ UNCHANGED next
       \/ Go("closing") /\ next' = "rejected"
    /\ UNCHANGED <<methods, method, worker, ok, path, direct, closed, released>>
    /\ UNCHANGED <<process, host>>

\* _finish_failed_attempt: the process exits by itself, or is made to.
Wait ==
    /\ at = "wait" /\ at' = IF Gone THEN "clean" ELSE "term"
    /\ UNCHANGED <<mount, process, host>>

\* The last look at the mountpoint.
Settle ==
    /\ at = "settle"
    /\ IF "mount" \in active
       THEN Go("raised") /\ UNCHANGED <<path, released>>
       ELSE Go("unmounted") /\ path' = FALSE /\ released' = TRUE
    /\ UNCHANGED <<methods, method, worker, ok, next, direct, closed, process, host>>

-------------------------------------------------------------------------------
\* The direct mount: _run_fixed_command runs mount or apfs-fuse in a session of its own.

Direct ==
    /\ at = "direct"
    /\ \/ capped /\ Go("verify") /\ UNCHANGED helper
       \/ ~capped /\ Go("command") /\ helper' = "mount"
    /\ UNCHANGED <<mount, child, outcome, told, replies, orphans, late, abandoned, host>>

\* It ends, on its own or because its time is up; the parent waits until it has.
CommandEnds ==
    /\ at = "command" /\ Go("verify") /\ helper' = "none"
    /\ active' \in {active, active \cup {"mount"}}
    /\ UNCHANGED <<mount, child, outcome, told, replies, orphans, late, abandoned>>
    /\ UNCHANGED <<astray, capped, refused, faults>>

\* A mount that came too late or that is not read-only is released again.
VerifyDirect ==
    /\ at = "verify"
    /\ \/ /\ ~capped /\ "mount" \in active
          /\ Go("mounted") /\ direct' = TRUE /\ UNCHANGED <<active, refused, faults>>
       \/ /\ TakeDown /\ at' = IF capped \/ "mount" \in active' THEN "raised" ELSE "settle"
          /\ UNCHANGED direct
    /\ UNCHANGED <<methods, method, worker, ok, next, path, closed, released, process>>
    /\ UNCHANGED <<astray, capped>>

-------------------------------------------------------------------------------
\* _terminate_process_group and the release of a worker's resources.

\* What SIGTERM does to the process.  Between cleaned = True and SIG_IGN it raises out of
\* the cleanup, which is not entered a second time.
Cancel ==
    CASE child = "request" -> "exited"
      [] child = "backend" -> "cancelling"
      [] child = "serving" -> "cleaned"
      [] child = "cleaned" -> "exited"
      [] OTHER -> child

Exits == replies' = Append(replies, "eof")

\* Mutant: the process is not stopped before its resources are released.
NoTerminate ==
    /\ at = "term" /\ Go("clean") /\ UNCHANGED <<mount, process, host>>

\* Only a leader that is alive makes the group be signalled.
Terminate ==
    /\ at = "term"
    /\ IF Gone
       THEN Go("clean") /\ UNCHANGED <<child, outcome, replies, abandoned>>
       ELSE /\ Go("grace") /\ child' = Cancel
            /\ outcome' = IF child \in {"backend", "serving"} THEN "none" ELSE outcome
            /\ IF child' = "exited" THEN Exits ELSE UNCHANGED replies
            /\ abandoned' = (abandoned \/ child = "cleaned")
    /\ UNCHANGED <<mount, told, helper, orphans, late, host>>

\* A command of the backend loses its owner.
Orphan == orphans' = orphans \cup ({helper} \ {"none"})

\* The process exits in the time it is given, or its group is killed, which a command inside
\* the kernel survives.
Grace ==
    /\ at = "grace" /\ Go("clean")
    /\ IF Gone
       THEN UNCHANGED <<child, replies, helper, orphans, abandoned, faults>>
       ELSE /\ child' = "exited" /\ Exits /\ abandoned' = TRUE /\ helper' = "none"
            /\ \/ UNCHANGED <<orphans, faults>>
               \/ helper # "none" /\ Fault /\ Orphan
    /\ UNCHANGED <<mount, outcome, told, late, active, astray, capped, refused>>

\* Mutant: the parent relies on the process for the release.
LookOnly ==
    /\ at = "clean" /\ Go("check") /\ UNCHANGED <<mount, process, host>>

\* _cleanup_owned_resources: its commands, then its look at what is left.
Clean ==
    /\ at = "clean" /\ Go("check") /\ TakeDown
    /\ UNCHANGED <<mount, process, astray, capped>>

\* What follows; only where no answer came in time the clock is asked again.
Check ==
    /\ at = "check" /\ ok' = OwnedReleased(method)
    /\ \/ /\ next \in {"failed", "expired"}
          /\ at' = IF ~ok' \/ (capped /\ next = "expired") THEN "raised" ELSE "next"
          /\ worker' = IF at' = "next" THEN "none" ELSE "closed"
       \/ /\ next = "rejected"
          /\ at' = IF ok' THEN "settle" ELSE "raised"
          /\ worker' = IF ok' THEN "none" ELSE "closed"
       \/ next = "closed" /\ Go("final") /\ worker' = "closed"
    /\ UNCHANGED <<methods, method, next, path, direct, closed, released, process, host>>

-------------------------------------------------------------------------------
\* close, of the mount and of the worker.

\* _ReadOnlyMount.close: once, also after mount() has raised.
CloseMount ==
    /\ at \in {"mounted", "unmounted", "raised"} /\ closed' = TRUE /\ next' = "closed"
    /\ \/ worker = "open" /\ Go("closing") /\ UNCHANGED <<active, refused, faults>>
       \/ worker # "open" /\ direct /\ Go("final") /\ TakeDown
       \/ worker # "open" /\ ~direct /\ Go("final") /\ UNCHANGED <<active, refused, faults>>
    /\ UNCHANGED <<methods, method, worker, ok, path, direct, released, process>>
    /\ UNCHANGED <<astray, capped>>

\* _ReferenceMountWorker.close asks a process that is alive to clean up.
CloseWorker ==
    /\ at = "closing"
    /\ IF Gone THEN Go("clean") /\ UNCHANGED told ELSE Go("cleaning") /\ told' = told + 1
    /\ UNCHANGED <<mount, child, outcome, replies, helper, orphans, late, abandoned, host>>

\* Its reply, which may be one that nobody has read before, or none in time: a process that
\* is still there afterwards is terminated.
AwaitCleaned ==
    /\ at = "cleaning" /\ Go("term")
    /\ replies' = IF replies = <<>> THEN replies ELSE Tail(replies)
    /\ UNCHANGED <<mount, child, outcome, told, helper, orphans, late, abandoned, host>>

Final ==
    /\ at = "final" /\ Go("closed")
    /\ released' = (path => (worker = "none" \/ ok) /\ "mount" \notin active)
    /\ UNCHANGED <<methods, method, worker, ok, next, path, direct, closed, process, host>>

-------------------------------------------------------------------------------
\* The process: _reference_mount_worker_main.

\* Its first line is the request; the end of its input without one ends it.
ReadRequest ==
    /\ child = "request"
    /\ \/ told > 0 /\ child' = "backend" /\ told' = told - 1 /\ UNCHANGED replies
       \/ at = "dead" /\ told = 0 /\ child' = "exited" /\ Exits /\ UNCHANGED told
    /\ UNCHANGED <<at, mount, outcome, helper, orphans, late, abandoned, host>>

Missing == Needs(method) \ active

\* The pinned backend makes one layer after the other.
RunBackend ==
    /\ child = "backend" /\ helper = "none"
    /\ \/ Missing # {} /\ helper' = Lowest(Missing) /\ UNCHANGED <<child, outcome, replies>>
       \/ Missing = {} /\ at # "dead" /\ child' = "serving"
          /\ replies' = Append(replies, "mounted") /\ UNCHANGED <<outcome, helper>>
       \/ Missing = {} /\ at = "dead" /\ child' = "cleaned"
          /\ UNCHANGED <<outcome, replies, helper>>
       \/ child' = "cleaned" /\ outcome' \in {"unmounted", "error"}
          /\ UNCHANGED <<replies, helper>>
    /\ UNCHANGED <<at, mount, told, orphans, late, abandoned, host>>

\* A command that fails ends the attempt.
HelperEnds ==
    /\ child \in {"backend", "cancelling"} /\ helper # "none" /\ helper' = "none"
    /\ \/ active' = active \cup {helper} /\ UNCHANGED <<child, outcome>>
       \/ child = "backend" /\ child' = "cleaned" /\ outcome' \in {"unmounted", "error"}
          /\ UNCHANGED active
       \/ child = "cancelling" /\ UNCHANGED <<active, child, outcome>>
    /\ UNCHANGED <<at, mount, told, replies, orphans, late, abandoned>>
    /\ UNCHANGED <<astray, capped, refused, faults>>

\* A cancelled process waits for the command it has killed.
Cancelled ==
    /\ child = "cancelling" /\ helper = "none" /\ child' = "cleaned"
    /\ UNCHANGED <<at, mount, outcome, told, replies, helper, orphans, late, abandoned, host>>

\* The mount is kept until a command comes or the input ends.
Serve ==
    /\ child = "serving" /\ (told > 0 \/ at = "dead")
    /\ child' = "cleaned" /\ outcome' = "cleaned"
    /\ UNCHANGED <<at, mount, told, replies, helper, orphans, late, abandoned, host>>

\* cleaned = True, then SIGTERM is ignored.
IgnoreSigterm ==
    /\ child = "cleaned" /\ child' = "cleanup"
    /\ UNCHANGED <<at, mount, outcome, told, replies, helper, orphans, late, abandoned, host>>

\* The backend's cleanup, the last line and the exit.
CleanUp ==
    /\ child = "cleanup" /\ child' = "exited" /\ TakeDown
    /\ replies' = replies \o (IF outcome = "none" THEN <<>> ELSE <<outcome>>) \o <<"eof">>
    /\ UNCHANGED <<at, mount, outcome, told, helper, orphans, late, abandoned>>
    /\ UNCHANGED <<astray, capped>>

-------------------------------------------------------------------------------
\* What may happen to either side.

\* The process is killed, its commands are not.
Crash ==
    /\ ~Gone /\ Fault /\ child' = "exited" /\ Exits /\ abandoned' = TRUE
    /\ Orphan /\ helper' = "none"
    /\ UNCHANGED <<at, mount, outcome, told, late, active, astray, capped, refused>>

\* A command without an owner succeeds after all, or does not.
OrphanEnds ==
    /\ \E layer \in orphans :
        /\ orphans' = orphans \ {layer}
        /\ \/ active' = active \cup {layer} /\ late' = TRUE
           \/ UNCHANGED <<active, late>>
    /\ UNCHANGED <<at, mount, child, outcome, told, replies, helper, abandoned>>
    /\ UNCHANGED <<astray, capped, refused, faults>>

Leave ==
    IF at = "command" THEN Orphan /\ helper' = "none" ELSE UNCHANGED <<orphans, helper>>

\* An interrupt leaves mount(); a direct mount command goes on in its own session.
InterruptMount ==
    /\ at \in InMount /\ ~closed /\ Fault /\ Go("raised")
    /\ Leave
    /\ UNCHANGED <<mount, child, outcome, told, replies, late, abandoned>>
    /\ UNCHANGED <<active, astray, capped, refused>>

\* The run is killed.
ParentDies ==
    /\ at \notin {"closed", "dead"} /\ Fault /\ Go("dead")
    /\ Leave
    /\ UNCHANGED <<mount, child, outcome, told, replies, late, abandoned>>
    /\ UNCHANGED <<active, astray, capped, refused>>

MountStep ==
    \/ Mount \/ NextMethod \/ Launch \/ Send \/ Reply \/ ReadOnly \/ Wait \/ Settle
    \/ Direct \/ CommandEnds \/ VerifyDirect
CloseStep == CloseWorker \/ AwaitCleaned \/ Terminate \/ Grace \/ Clean \/ Check \/ Final
ProcessStep ==
    ReadRequest \/ RunBackend \/ HelperEnds \/ Cancelled \/ Serve \/ IgnoreSigterm \/ CleanUp

===============================================================================
