--------------------------- MODULE EvidenceHostProofs ---------------------------
(* A mount that is reported as released is released, and one that is left is left for a
   reason, for any number of faults. *)
EXTENDS EvidenceHost, TLAPS

MethodLists == {<<>>, <<"dmpad">>, <<"ntfs_offsets", "dmpad">>, Methods}
WithWorker == {"launch", "send", "reply", "readonly", "wait", "term", "grace", "clean",
               "check", "closing", "cleaning"}
WithoutWorker == {"idle", "next", "direct", "command", "verify", "settle", "unmounted"}
Clear == active = {} \/ late

Types ==
    /\ active \in SUBSET Layers /\ orphans \in SUBSET Layers
    /\ helper \in Layers \cup {"none"} /\ methods \in MethodLists
    /\ late \in BOOLEAN /\ path \in BOOLEAN /\ ok \in BOOLEAN /\ released \in BOOLEAN
    /\ worker \in {"none", "open", "closed"}

\* Which process there may be, by where the parent is and by what it still owns.
Ownership ==
    /\ at \in WithWorker => worker = "open"
    /\ at \in WithoutWorker => worker = "none"
    /\ at \in {"final", "closed"} => worker # "open"
    /\ worker # "open" => Gone
    /\ at \in {"launch", "clean", "check"} => Gone
    /\ helper # "none" =>
        child \in {"backend", "cancelling"} \/ (at = "command" /\ helper = "mount")
    /\ at = "idle" => ~path
    /\ ~path => at \in {"idle", "unmounted", "final", "closed", "dead"} /\ worker = "none"

\* dmpad is the last method, and the only one that has layers below its mount.
LayersOfMethod ==
    /\ at = "idle" => method = "none"
    /\ method = "dmpad" => methods = <<>>
    /\ (active \cup orphans \cup {helper}) \cap {"loop", "dm"} # {} => method = "dmpad"

\* What is known to be gone once a worker has been let go.
LetGo ==
    /\ worker = "none" => active \subseteq {"mount"} \/ late
    /\ worker = "closed" /\ ok => Clear
    /\ ~path => Clear
    /\ at = "closed" /\ released => Clear

IInv == Types /\ Ownership /\ LayersOfMethod /\ LetGo

\* The initial states: nothing is active and nothing is owned.
LEMMA Initially == Init => IInv
  BY DEF Init, HostInit, MountInit, IInv, Types, Ownership, LayersOfMethod, LetGo, Clear,
         MethodLists, WithWorker, WithoutWorker, Gone, Layers

\* The next method is the first of those that are left; dmpad is then the last.
LEMMA NextMethodKeeps == ASSUME IInv, NextMethod PROVE IInv'
<1>1. \/ UNCHANGED <<methods, method>>
      \/ methods' = <<"ntfs_offsets", "dmpad">> /\ method' = "raw@0"
      \/ methods' = <<"dmpad">> /\ method' = "ntfs_offsets"
      \/ methods' = <<>> /\ method' = "dmpad"
  <2>1. \/ UNCHANGED <<methods, method>>
        \/ methods # <<>> /\ methods' = Tail(methods) /\ method' = Head(methods)
    BY DEF NextMethod
  <2>2. CASE methods = Methods
    BY <2>1, <2>2 DEF Methods
  <2>3. CASE methods = <<"ntfs_offsets", "dmpad">>
    BY <2>1, <2>3
  <2>4. CASE methods = <<"dmpad">>
    BY <2>1, <2>4
  <2>5. CASE methods = <<>>
    BY <2>1, <2>5
  <2> QED BY <2>2, <2>3, <2>4, <2>5 DEF IInv, Types, MethodLists
<1>2. Types'
  BY <1>1 DEF IInv, Types, NextMethod, MethodLists, process
<1>3. Ownership'
  BY DEF IInv, Ownership, NextMethod, WithWorker, WithoutWorker, Gone, Go, process
<1>4. LayersOfMethod'
  BY <1>1 DEF IInv, LayersOfMethod, NextMethod, Go, process
<1>5. LetGo'
  BY DEF IInv, Ownership, LetGo, Clear, NextMethod, WithoutWorker, Go, process
<1> QED BY <1>2, <1>3, <1>4, <1>5 DEF IInv

\* Nothing is owned before the mount.
LEMMA MountKeeps == ASSUME IInv, Mount PROVE IInv'
<1>1. Types'
  BY DEF IInv, Mount, process, host, Types, MethodLists
<1>2. Ownership'
  BY DEF IInv, Mount, process, Gone, Go, Ownership, WithWorker
<1>3. LayersOfMethod'
  BY DEF IInv, Mount, process, host, LayersOfMethod
<1>4. LetGo'
  BY DEF IInv, Mount, process, host, LetGo, Clear
<1> QED BY <1>1, <1>2, <1>3, <1>4 DEF IInv

\* A process is started only for an open worker.
LEMMA LaunchKeeps == ASSUME IInv, Launch PROVE IInv'
<1>1. Types'
  BY DEF IInv, Launch, mount, Types
<1>2. Ownership'
  BY DEF IInv, Launch, mount, Gone, Go, Ownership, WithWorker, WithoutWorker
<1>3. LayersOfMethod'
  BY DEF IInv, Launch, mount, Go, LayersOfMethod
<1>4. LetGo'
  BY DEF IInv, Launch, mount, Go, LetGo, Clear
<1> QED BY <1>1, <1>2, <1>3, <1>4 DEF IInv

\* The request changes nothing that is owned.
LEMMA SendKeeps == ASSUME IInv, Send PROVE IInv'
<1>1. Types'
  BY DEF IInv, Send, mount, host, Types
<1>2. Ownership'
  BY DEF IInv, Send, mount, Gone, Go, Ownership, WithWorker, WithoutWorker
<1>3. LayersOfMethod'
  BY DEF IInv, Send, mount, host, Go, LayersOfMethod
<1>4. LetGo'
  BY DEF IInv, Send, mount, Go, Ownership, LetGo, WithWorker
<1> QED BY <1>1, <1>2, <1>3, <1>4 DEF IInv

\* The worker stays open whatever its process answers.
LEMMA ReplyKeeps == ASSUME IInv, Reply PROVE IInv'
<1>1. Types'
  BY DEF IInv, Reply, host, Types
<1>2. Ownership'
  BY DEF IInv, Reply, Go, Ownership, WithWorker, WithoutWorker
<1>3. LayersOfMethod'
  BY DEF IInv, Reply, host, Go, LayersOfMethod
<1>4. LetGo'
  BY DEF IInv, Reply, Go, Ownership, LetGo, WithWorker
<1> QED BY <1>1, <1>2, <1>3, <1>4 DEF IInv

\* A rejected mount still has its worker.
LEMMA ReadOnlyKeeps == ASSUME IInv, ReadOnly PROVE IInv'
<1>1. Types'
  BY DEF IInv, ReadOnly, process, host, Types
<1>2. Ownership'
  BY DEF IInv, ReadOnly, process, Go, Ownership, WithWorker, WithoutWorker
<1>3. LayersOfMethod'
  BY DEF IInv, ReadOnly, process, host, Go, LayersOfMethod
<1>4. LetGo'
  BY DEF IInv, ReadOnly, Go, Ownership, LetGo, WithWorker
<1> QED BY <1>1, <1>2, <1>3, <1>4 DEF IInv

\* An attempt that has failed keeps its worker until it is cleaned up.
LEMMA WaitKeeps == ASSUME IInv, Wait PROVE IInv'
<1>1. Types'
  BY DEF IInv, Wait, mount, process, host, Types
<1>2. Ownership'
  BY DEF IInv, Wait, mount, process, Gone, Ownership, WithWorker, WithoutWorker
<1>3. LayersOfMethod'
  BY DEF IInv, Wait, mount, process, host, LayersOfMethod
<1>4. LetGo'
  BY DEF IInv, Wait, mount, process, host, LetGo, Clear
<1> QED BY <1>1, <1>2, <1>3, <1>4 DEF IInv

\* No worker is left, so an inactive mountpoint means that nothing is.
LEMMA SettleKeeps == ASSUME IInv, Settle PROVE IInv'
<1>1. Types'
  BY DEF IInv, Settle, process, host, Types, Go
<1>2. Ownership'
  BY DEF IInv, Settle, process, Gone, Go, Ownership, WithWorker, WithoutWorker
<1>3. LayersOfMethod'
  BY DEF IInv, Settle, process, host, Go, LayersOfMethod
<1>4. LetGo'
  BY DEF IInv, Settle, process, host, Go, Ownership, LetGo, Clear, WithoutWorker
<1> QED BY <1>1, <1>2, <1>3, <1>4 DEF IInv

\* The command of the direct mount is the only one that makes a layer now.
LEMMA DirectKeeps == ASSUME IInv, Direct PROVE IInv'
<1>1. Types'
  BY DEF IInv, Direct, mount, host, Layers, Types
<1>2. Ownership'
  BY DEF IInv, Direct, mount, Gone, Go, Ownership, WithWorker, WithoutWorker
<1>3. LayersOfMethod'
  BY DEF IInv, Direct, mount, host, Go, LayersOfMethod
<1>4. LetGo'
  BY DEF IInv, Direct, mount, host, Go, LetGo, Clear
<1> QED BY <1>1, <1>2, <1>3, <1>4 DEF IInv

\* It makes the mount and no layer below.
LEMMA CommandEndsKeeps == ASSUME IInv, CommandEnds PROVE IInv'
<1>1. Types'
  BY DEF IInv, CommandEnds, mount, Layers, Types
<1>2. Ownership'
  BY DEF IInv, CommandEnds, mount, Gone, Go, Ownership, WithWorker, WithoutWorker
<1>3. LayersOfMethod'
  BY DEF IInv, CommandEnds, mount, Go, LayersOfMethod
<1>4. LetGo'
  BY DEF IInv, CommandEnds, mount, Go, Ownership, LetGo, WithoutWorker
<1> QED BY <1>1, <1>2, <1>3, <1>4 DEF IInv

\* A direct mount is verified or taken down.
LEMMA VerifyDirectKeeps == ASSUME IInv, VerifyDirect PROVE IInv'
<1>1. Types'
  BY DEF IInv, VerifyDirect, process, TakeDown, Types, Layers
<1>2. Ownership'
  BY DEF IInv, VerifyDirect, process, Gone, Go, Ownership, WithWorker, WithoutWorker
<1>3. LayersOfMethod'
  BY DEF IInv, VerifyDirect, process, Go, TakeDown, LayersOfMethod
<1>4. LetGo'
  BY DEF IInv, VerifyDirect, process, Go, TakeDown, LetGo, Clear
<1> QED BY <1>1, <1>2, <1>3, <1>4 DEF IInv

\* Only an open worker is closed.
LEMMA CloseWorkerKeeps == ASSUME IInv, CloseWorker PROVE IInv'
<1>1. Types'
  BY DEF IInv, CloseWorker, mount, host, Types
<1>2. Ownership'
  BY DEF IInv, CloseWorker, mount, Gone, Go, Ownership, WithWorker, WithoutWorker
<1>3. LayersOfMethod'
  BY DEF IInv, CloseWorker, mount, host, Go, LayersOfMethod
<1>4. LetGo'
  BY DEF IInv, CloseWorker, mount, Go, Ownership, LetGo, WithWorker
<1> QED BY <1>1, <1>2, <1>3, <1>4 DEF IInv

\* Whatever the answer, the worker is still owned.
LEMMA AwaitCleanedKeeps == ASSUME IInv, AwaitCleaned PROVE IInv'
<1>1. Types'
  BY DEF IInv, AwaitCleaned, mount, host, Types
<1>2. Ownership'
  BY DEF IInv, AwaitCleaned, mount, Go, Ownership, WithWorker, WithoutWorker
<1>3. LayersOfMethod'
  BY DEF IInv, AwaitCleaned, mount, host, Go, LayersOfMethod
<1>4. LetGo'
  BY DEF IInv, AwaitCleaned, mount, Go, Ownership, LetGo, WithWorker
<1> QED BY <1>1, <1>2, <1>3, <1>4 DEF IInv

\* The signal does not end a command of the process.
LEMMA TerminateKeeps == ASSUME IInv, Terminate PROVE IInv'
<1>1. Types'
  BY DEF IInv, Terminate, mount, host, Types
<1>2. Ownership'
  BY DEF IInv, Terminate, mount, Gone, Go, Ownership, WithWorker, WithoutWorker, Cancel
<1>3. LayersOfMethod'
  BY DEF IInv, Terminate, mount, host, Go, LayersOfMethod
<1>4. LetGo'
  BY DEF IInv, Terminate, mount, Go, Ownership, LetGo, WithWorker
<1> QED BY <1>1, <1>2, <1>3, <1>4 DEF IInv

\* Afterwards the process is gone, and its command has no owner or has ended.
LEMMA GraceKeeps == ASSUME IInv, Grace PROVE IInv'
<1>1. Types'
  BY DEF IInv, Grace, mount, Types, Orphan
<1>2. Ownership'
  BY DEF IInv, Grace, mount, Gone, Go, Ownership, WithWorker, WithoutWorker
<1>3. LayersOfMethod'
  BY DEF IInv, Grace, mount, Go, LayersOfMethod, Orphan
<1>4. LetGo'
  BY DEF IInv, Grace, mount, Go, LetGo, Clear
<1> QED BY <1>1, <1>2, <1>3, <1>4 DEF IInv

\* Layers only go.
LEMMA CleanKeeps == ASSUME IInv, Clean PROVE IInv'
<1>1. Types'
  BY DEF IInv, Clean, mount, process, TakeDown, Types, Layers
<1>2. Ownership'
  BY DEF IInv, Clean, mount, process, Gone, Go, Ownership, WithWorker, WithoutWorker
<1>3. LayersOfMethod'
  BY DEF IInv, Clean, mount, process, Go, TakeDown, LayersOfMethod
<1>4. LetGo'
  BY DEF IInv, Clean, mount, Go, Ownership, LetGo, WithWorker
<1> QED BY <1>1, <1>2, <1>3, <1>4 DEF IInv

\* A worker is let go as released only if no layer of its method is active.
LEMMA CheckKeeps == ASSUME IInv, Check PROVE IInv'
<1>1. Types'
  BY DEF IInv, Check, process, host, Types, OwnedReleased
<1>2. Ownership'
  BY DEF IInv, Check, process, Gone, Go, Ownership, WithWorker, WithoutWorker
<1>3. LayersOfMethod'
  BY DEF IInv, Check, process, host, Go, LayersOfMethod
<1>4. LetGo'
  BY DEF IInv, Check, Types, Ownership, LayersOfMethod, LetGo, Clear, OwnedReleased, Layers,
         process, host, Go, WithWorker, WithoutWorker
<1> QED BY <1>1, <1>2, <1>3, <1>4 DEF IInv

\* What close() reports rests on the worker and on a last look at the mountpoint.
LEMMA FinalKeeps == ASSUME IInv, Final PROVE IInv'
<1>1. Types'
  BY DEF IInv, Final, process, host, Types
<1>2. Ownership'
  BY DEF IInv, Final, process, Gone, Go, Ownership, WithWorker, WithoutWorker
<1>3. LayersOfMethod'
  BY DEF IInv, Final, process, host, Go, LayersOfMethod
<1>4. LetGo'
  BY DEF IInv, Final, process, host, Types, Ownership, LetGo, Clear
<1> QED BY <1>1, <1>2, <1>3, <1>4 DEF IInv

\* close() keeps an open worker and takes down a direct mount.
LEMMA CloseMountKeeps == ASSUME IInv, CloseMount PROVE IInv'
<1>1. Types'
  BY DEF IInv, CloseMount, process, TakeDown, Types, Layers
<1>2. Ownership'
  BY DEF IInv, CloseMount, process, Gone, Go, Ownership, WithWorker, WithoutWorker
<1>3. LayersOfMethod'
  BY DEF IInv, CloseMount, process, Go, TakeDown, LayersOfMethod
<1>4. LetGo'
  BY DEF IInv, CloseMount, process, Go, TakeDown, LetGo, Clear
<1> QED BY <1>1, <1>2, <1>3, <1>4 DEF IInv

\* A process that has its request belongs to an open worker.
LEMMA ReadRequestKeeps == ASSUME IInv, ReadRequest PROVE IInv'
<1>1. Types'
  BY DEF IInv, ReadRequest, mount, host, Types
<1>2. Ownership'
  BY DEF IInv, ReadRequest, mount, Gone, Ownership
<1>3. LayersOfMethod'
  BY DEF IInv, ReadRequest, mount, host, LayersOfMethod
<1>4. LetGo'
  BY DEF IInv, ReadRequest, mount, host, LetGo, Clear
<1> QED BY <1>1, <1>2, <1>3, <1>4 DEF IInv

\* A command is started by a process that is alive.
LEMMA RunBackendKeeps == ASSUME IInv, RunBackend PROVE IInv'
<1>1. Types'
  BY DEF IInv, RunBackend, mount, host, Layers, Types, Lowest
<1>2. Ownership'
  BY DEF IInv, RunBackend, mount, Gone, Ownership
<1>3. LayersOfMethod'
  BY DEF IInv, RunBackend, mount, host, LayersOfMethod, Missing, Lowest, Needs
<1>4. LetGo'
  BY DEF IInv, RunBackend, mount, host, LetGo, Clear
<1> QED BY <1>1, <1>2, <1>3, <1>4 DEF IInv

\* A layer is made while the process is alive, so while its worker is open.
LEMMA HelperEndsKeeps == ASSUME IInv, HelperEnds PROVE IInv'
<1>1. Types'
  BY DEF IInv, HelperEnds, mount, Types
<1>2. Ownership'
  BY DEF IInv, HelperEnds, mount, Gone, Ownership
<1>3. LayersOfMethod'
  BY DEF IInv, HelperEnds, mount, LayersOfMethod
<1>4. LetGo'
  BY DEF IInv, HelperEnds, mount, Gone, Ownership, LetGo
<1> QED BY <1>1, <1>2, <1>3, <1>4 DEF IInv

\* Cancelling is over once the command has ended.
LEMMA CancelledKeeps == ASSUME IInv, Cancelled PROVE IInv'
<1>1. Types'
  BY DEF IInv, Cancelled, mount, host, Types
<1>2. Ownership'
  BY DEF IInv, Cancelled, mount, Gone, Ownership
<1>3. LayersOfMethod'
  BY DEF IInv, Cancelled, mount, host, LayersOfMethod
<1>4. LetGo'
  BY DEF IInv, Cancelled, mount, Gone, Ownership, LetGo
<1> QED BY <1>1, <1>2, <1>3, <1>4 DEF IInv

\* Serving ends and nothing else changes.
LEMMA ServeKeeps == ASSUME IInv, Serve PROVE IInv'
<1>1. Types'
  BY DEF IInv, Serve, mount, host, Types
<1>2. Ownership'
  BY DEF IInv, Serve, mount, Gone, Ownership
<1>3. LayersOfMethod'
  BY DEF IInv, Serve, mount, host, LayersOfMethod
<1>4. LetGo'
  BY DEF IInv, Serve, mount, Gone, Ownership, LetGo
<1> QED BY <1>1, <1>2, <1>3, <1>4 DEF IInv

\* A handler changes and nothing else.
LEMMA IgnoreSigtermKeeps == ASSUME IInv, IgnoreSigterm PROVE IInv'
<1>1. Types'
  BY DEF IInv, IgnoreSigterm, mount, host, Types
<1>2. Ownership'
  BY DEF IInv, IgnoreSigterm, mount, Gone, Ownership
<1>3. LayersOfMethod'
  BY DEF IInv, IgnoreSigterm, mount, host, LayersOfMethod
<1>4. LetGo'
  BY DEF IInv, IgnoreSigterm, mount, Gone, Ownership, LetGo
<1> QED BY <1>1, <1>2, <1>3, <1>4 DEF IInv

\* Layers only go, and the process with them.
LEMMA CleanUpKeeps == ASSUME IInv, CleanUp PROVE IInv'
<1>1. Types'
  BY DEF IInv, CleanUp, mount, TakeDown, Types, Layers
<1>2. Ownership'
  BY DEF IInv, CleanUp, mount, Gone, Ownership
<1>3. LayersOfMethod'
  BY DEF IInv, CleanUp, mount, TakeDown, LayersOfMethod
<1>4. LetGo'
  BY DEF IInv, CleanUp, mount, TakeDown, LetGo, Clear
<1> QED BY <1>1, <1>2, <1>3, <1>4 DEF IInv

\* The command of a process that dies has no owner any more.
LEMMA CrashKeeps == ASSUME IInv, Crash PROVE IInv'
<1>1. Types'
  BY DEF IInv, Crash, mount, Types, Orphan
<1>2. Ownership'
  BY DEF IInv, Crash, mount, Ownership
<1>3. LayersOfMethod'
  BY DEF IInv, Crash, mount, Orphan, Types, LayersOfMethod
<1>4. LetGo'
  BY DEF IInv, Crash, mount, LetGo, Clear
<1> QED BY <1>1, <1>2, <1>3, <1>4 DEF IInv

\* An interrupt leaves what there is, and may leave a command without an owner.
LEMMA InterruptMountKeeps == ASSUME IInv, InterruptMount PROVE IInv'
<1>1. Types'
  BY DEF IInv, InterruptMount, mount, Types, Orphan, Leave
<1>2. Ownership'
  BY DEF IInv, InterruptMount, mount, Gone, Go, Ownership, WithWorker, WithoutWorker,
         InMount, Leave
<1>3. LayersOfMethod'
  BY DEF IInv, InterruptMount, mount, Go, LayersOfMethod, Orphan, Leave
<1>4. LetGo'
  BY DEF IInv, InterruptMount, mount, Go, LetGo, Clear
<1> QED BY <1>1, <1>2, <1>3, <1>4 DEF IInv

\* Death leaves what there is, and may leave a command without an owner.
LEMMA ParentDiesKeeps == ASSUME IInv, ParentDies PROVE IInv'
<1>1. Types'
  BY DEF IInv, ParentDies, mount, Types, Orphan, Leave
<1>2. Ownership'
  BY DEF IInv, ParentDies, mount, Gone, Go, Ownership, WithWorker, WithoutWorker, Leave
<1>3. LayersOfMethod'
  BY DEF IInv, ParentDies, mount, Go, LayersOfMethod, Orphan, Leave
<1>4. LetGo'
  BY DEF IInv, ParentDies, mount, Go, LetGo, Clear
<1> QED BY <1>1, <1>2, <1>3, <1>4 DEF IInv

\* A command without an owner that succeeds is recorded as late.
LEMMA OrphanEndsKeeps == ASSUME IInv, OrphanEnds PROVE IInv'
<1>1. Types'
  BY DEF IInv, OrphanEnds, mount, Types
<1>2. Ownership'
  BY DEF IInv, OrphanEnds, mount, Gone, Ownership
<1>3. LayersOfMethod'
  BY DEF IInv, OrphanEnds, mount, LayersOfMethod
<1>4. LetGo'
  BY DEF IInv, OrphanEnds, mount, LetGo, Clear
<1> QED BY <1>1, <1>2, <1>3, <1>4 DEF IInv

\* Steps of the tools and of the clock leave the mount alone.
LEMMA OthersKeep == ASSUME IInv, UNCHANGED <<mountVars, active>> PROVE IInv'
  BY DEF IInv, Types, Ownership, LayersOfMethod, LetGo, Clear, Gone, mountVars, mount, process

\* CallTool, Worker and the faults of tools change no layer.
LEMMA ToolsLeaveLayers ==
    ASSUME CallStep \/ WorkerStep \/ LeaderDies \/ Stray \/ DescendantEnds
    PROVE  UNCHANGED active
  BY DEF CallStep, Start, Ask, Receive, KillGroup, CloseStdin, CloseStdout, CheckDeadline,
         WorkerStep, RunTool, Answer, Read, LeaderDies, Stray, DescendantEnds, host, Fault

\* Every step keeps the invariant.
LEMMA NextKeeps == ASSUME IInv, [Next]_vars PROVE IInv'
<1>1. CASE Parent
  BY <1>1, NextMethodKeeps, MountKeeps, LaunchKeeps, SendKeeps, ReplyKeeps, ReadOnlyKeeps,
     WaitKeeps, SettleKeeps, DirectKeeps, CommandEndsKeeps, VerifyDirectKeeps,
     CloseWorkerKeeps, AwaitCleanedKeeps, TerminateKeeps, GraceKeeps, CleanKeeps,
     CheckKeeps, FinalKeeps DEF Parent, MountStep, CloseStep
<1>2. CASE Process
  BY <1>2, ReadRequestKeeps, RunBackendKeeps, HelperEndsKeeps, CancelledKeeps, ServeKeeps,
     IgnoreSigtermKeeps, CleanUpKeeps DEF Process, ProcessStep
<1>3. CASE Close
  BY <1>3, CloseMountKeeps DEF Close
<1>4. CASE Orphans
  BY <1>4, OrphanEndsKeeps DEF Orphans
<1>5. CASE MountFault
  BY <1>5, CrashKeeps, InterruptMountKeeps DEF MountFault
<1>6. CASE Killed
  BY <1>6, ParentDiesKeeps DEF Killed
<1>7. CASE CallTool \/ Worker \/ ToolFault
  BY <1>7, ToolsLeaveLayers, OthersKeep DEF CallTool, Worker, ToolFault
<1>8. CASE Clock
  BY <1>8, OthersKeep DEF Clock, Deadline
<1>9. CASE UNCHANGED vars
  BY <1>9, OthersKeep DEF vars, host
<1> QED
  BY <1>1, <1>2, <1>3, <1>4, <1>5, <1>6, <1>7, <1>8, <1>9 DEF Next, Ended

\* The invariant of the mount, its worker and the process, for any number of faults.
THEOREM InductiveInvariant == Spec => []IInv
<1>1. Init => IInv
  BY Initially
<1>2. IInv /\ [Next]_vars => IInv'
  BY NextKeeps
<1> QED BY <1>1, <1>2, PTL DEF Spec

\* A mount that close() reports as released has no active layer, but for what a command
\* without an owner has completed.
THEOREM ReleaseIsReal == Spec => []ReleasedIsReal
<1>1. IInv => ReleasedIsReal
  BY DEF IInv, LetGo, Clear, ReleasedIsReal
<1> QED BY <1>1, InductiveInvariant, PTL

-------------------------------------------------------------------------------
\* Why something may be left.

\* What is active is there because a command could not release it, or came too late.
Explained == active = {} \/ refused \/ late

\* Where the parent is, and whether the process has exited, tell whether what is active
\* is explained.
Reasons ==
    /\ at \in {"next", "launch", "check"} => Explained
    /\ at = "final" /\ direct => Explained
    /\ worker = "closed" /\ ~ok => refused \/ late
    /\ at \in {"idle", "direct", "command", "verify"} => child = "none"
    /\ child = "request" => Explained
    /\ child = "exited" => Explained \/ abandoned
    /\ at = "closed" /\ ~released =>
        refused \/ late \/ (worker = "none" /\ ~direct /\ "mount" \in active)

\* A worker and its group live only while a call uses them.
CallOwns ==
    /\ kin \in BOOLEAN
    /\ kin => call \in {"asked", "kill"}
    /\ LeaderAlive => call \in {"started", "asked", "kill"}

\* Taking down ends with nothing left, or with a command that has failed.
LEMMA TakeDownExplains == ASSUME TakeDown PROVE (refused => refused') /\ Explained'
  BY DEF TakeDown, Explained

\* Each step of mount() keeps the reasons.
LEMMA MountStepReasons == ASSUME IInv, Reasons, MountStep PROVE Reasons'
<1>1. CASE Mount
  BY <1>1 DEF Mount, process, host, Reasons, Explained, IInv, Ownership, LetGo, Clear, Go
<1>2. CASE NextMethod
  BY <1>2 DEF NextMethod, process, Reasons, Explained, Go
<1>3. CASE Launch
  BY <1>3 DEF Launch, mount, Reasons, Explained, Go
<1>4. CASE Send
  BY <1>4 DEF Send, mount, host, Reasons, Explained, Go
<1>5. CASE Reply
  BY <1>5 DEF Reply, host, Reasons, Explained, Go
<1>6. CASE ReadOnly
  BY <1>6 DEF ReadOnly, process, host, Reasons, Explained, Go
<1>7. CASE Wait
  BY <1>7 DEF Wait, mount, process, host, Reasons, Explained
<1>8. CASE Settle
  BY <1>8 DEF Settle, process, host, Reasons, Explained, Go
<1>9. CASE Direct
  BY <1>9 DEF Direct, mount, host, Reasons, Explained, Go
<1>10. CASE CommandEnds
  BY <1>10 DEF CommandEnds, mount, Reasons, Go
<1>11. CASE VerifyDirect
  BY <1>11, TakeDownExplains DEF VerifyDirect, process, Reasons, Go
<1> QED
  BY <1>1, <1>2, <1>3, <1>4, <1>5, <1>6, <1>7, <1>8, <1>9, <1>10, <1>11 DEF MountStep

\* Each step of close(), or of the release of a worker, keeps them.
LEMMA CloseStepReasons == ASSUME IInv, Reasons, CloseStep PROVE Reasons'
<1>1. CASE CloseWorker
  BY <1>1 DEF CloseWorker, mount, host, Reasons, Explained, Go
<1>2. CASE AwaitCleaned
  BY <1>2 DEF AwaitCleaned, mount, host, Reasons, Explained, Go
<1>3. CASE Terminate
  BY <1>3 DEF Terminate, mount, host, Reasons, Explained, Go, Gone, Cancel
<1>4. CASE Grace
  BY <1>4 DEF Grace, mount, Reasons, Explained, Go, Gone
<1>5. CASE Clean
  BY <1>5, TakeDownExplains DEF Clean, mount, process, Reasons, Explained, Go
<1>6. CASE Check
  <2>1. ok' => active = {}
    BY <1>6 DEF Check, OwnedReleased, IInv, Types, LayersOfMethod, Layers
  <2>2. ~ok' => refused \/ late
    BY <1>6 DEF Check, OwnedReleased, Reasons, Explained
  <2> QED
    BY <1>6, <2>1, <2>2 DEF Check, process, host, Reasons, Explained, Go
<1>7. CASE Final
  BY <1>7 DEF Final, process, host, Reasons, Explained, Go, IInv, Types, Ownership, LetGo, Clear
<1> QED
  BY <1>1, <1>2, <1>3, <1>4, <1>5, <1>6, <1>7 DEF CloseStep

\* Each step of the process keeps them.
LEMMA ProcessStepReasons == ASSUME IInv, Reasons, ProcessStep PROVE Reasons'
<1>1. CASE ReadRequest
  BY <1>1 DEF ReadRequest, mount, host, Reasons, Explained
<1>2. CASE RunBackend
  BY <1>2 DEF RunBackend, mount, host, Reasons, Explained
<1>3. CASE HelperEnds
  BY <1>3 DEF HelperEnds, mount, Reasons, Explained, IInv, Ownership, Gone,
              WithWorker, WithoutWorker
<1>4. CASE Cancelled \/ Serve \/ IgnoreSigterm
  BY <1>4 DEF Cancelled, Serve, IgnoreSigterm, mount, host, Reasons, Explained
<1>5. CASE CleanUp
  BY <1>5, TakeDownExplains DEF CleanUp, mount, Reasons, IInv, Ownership, Gone
<1> QED
  BY <1>1, <1>2, <1>3, <1>4, <1>5 DEF ProcessStep

\* Whatever happens to either side keeps them.
LEMMA FaultReasons ==
    ASSUME IInv, Reasons, CloseMount \/ OrphanEnds \/ Crash \/ InterruptMount \/ ParentDies
    PROVE  Reasons'
<1>1. CASE CloseMount
  BY <1>1, TakeDownExplains DEF CloseMount, process, Reasons, Explained, Go
<1>2. CASE OrphanEnds
  BY <1>2 DEF OrphanEnds, mount, Reasons, Explained
<1>3. CASE Crash
  BY <1>3 DEF Crash, mount, Reasons, Explained, Gone
<1>4. CASE InterruptMount
  BY <1>4 DEF InterruptMount, mount, Reasons, Explained, Go
<1>5. CASE ParentDies
  BY <1>5 DEF ParentDies, mount, Reasons, Explained, Go
<1> QED
  BY <1>1, <1>2, <1>3, <1>4, <1>5

\* Steps of the tools and of the clock leave what the reasons are about.
LEMMA OthersKeepReasons == ASSUME Reasons, UNCHANGED <<mountVars, active, refused>> PROVE Reasons'
  BY DEF Reasons, Explained, mountVars, mount, process

\* A call keeps what it owns, and takes it down before it returns.
LEMMA CallKeeps == ASSUME CallOwns, CallStep \/ WorkerStep \/ LeaderDies \/ Stray \/ DescendantEnds
                   PROVE  CallOwns' /\ UNCHANGED refused
<1>1. CASE CallStep
  <2>1. CASE Start
    BY <2>1 DEF Start, CallOwns, LeaderAlive
  <2>2. CASE Ask
    BY <2>2 DEF Ask, CallOwns, LeaderAlive, host
  <2>3. CASE Receive
    BY <2>3 DEF Receive, CallOwns, LeaderAlive, host
  <2>4. CASE KillGroup
    BY <2>4 DEF KillGroup, CallOwns, LeaderAlive, host
  <2>5. CASE CloseStdin \/ CloseStdout \/ CheckDeadline
    BY <2>5 DEF CloseStdin, CloseStdout, CheckDeadline, CallOwns, LeaderAlive, host
  <2> QED
    BY <1>1, <2>1, <2>2, <2>3, <2>4, <2>5 DEF CallStep
<1>2. CASE WorkerStep
  BY <1>2 DEF WorkerStep, RunTool, Answer, Read, CallOwns, LeaderAlive, host
<1>3. CASE LeaderDies \/ Stray \/ DescendantEnds
  <2>1. CASE LeaderDies
    BY <2>1 DEF LeaderDies, CallOwns, LeaderAlive
  <2>2. CASE Stray
    BY <2>2 DEF Stray, CallOwns, LeaderAlive
  <2>3. CASE DescendantEnds
    <3>1. kin' = kin \/ kin' = FALSE
      BY <2>3, Zenon DEF DescendantEnds
    <3>2. UNCHANGED <<call, leader, refused>>
      BY <2>3, Zenon DEF DescendantEnds
    <3>3. kin' \in BOOLEAN /\ (kin' => kin)
      <4>1. CASE kin' = kin
        BY <4>1 DEF CallOwns
      <4>2. CASE kin' = FALSE
        BY <4>2
      <4> QED
        BY <3>1, <4>1, <4>2
    <3> QED
      BY <3>2, <3>3 DEF CallOwns, LeaderAlive
  <2> QED
    BY <1>3, <2>1, <2>2, <2>3
<1> QED
  BY <1>1, <1>2, <1>3

\* Every step keeps the reasons and what a call owns.
LEMMA NextKeepsReasons ==
    ASSUME IInv, Reasons, CallOwns, [Next]_vars
    PROVE  Reasons' /\ CallOwns'
<1>1. CASE UNCHANGED toolVars
  <2>1. CallOwns'
    BY <1>1 DEF toolVars, CallOwns, LeaderAlive
  <2>2. CASE Parent \/ Process
    BY <2>1, <2>2, MountStepReasons, CloseStepReasons, ProcessStepReasons DEF Parent, Process
  <2>3. CASE Close \/ Orphans \/ MountFault \/ Killed
    BY <2>1, <2>3, FaultReasons DEF Close, Orphans, MountFault, Killed
  <2>4. CASE Clock \/ UNCHANGED vars
    BY <2>1, <2>4, OthersKeepReasons DEF Clock, Deadline, vars, host
  <2>5. CASE CallTool \/ Worker \/ ToolFault
    BY <2>1, <2>5, CallKeeps, ToolsLeaveLayers, OthersKeepReasons DEF CallTool, Worker, ToolFault
  <2> QED
    BY <2>2, <2>3, <2>4, <2>5 DEF Next, Ended
<1>2. CASE CallTool \/ Worker \/ ToolFault
  BY <1>2, CallKeeps, ToolsLeaveLayers, OthersKeepReasons DEF CallTool, Worker, ToolFault
<1> QED
  BY <1>1, <1>2 DEF Next, Ended, Parent, Close, Process, Orphans, Clock, MountFault, Killed, vars

\* A mount, its process and the workers of tools are left only for a reason that is known:
\* a release that failed, a command without an owner, a process that was killed, or an
\* interrupt before the mount had an owner.
THEOREM LeftIsExplained == Spec => []LeftForAReason
<1>1. Init => Reasons /\ CallOwns
  BY DEF Init, HostInit, MountInit, ToolInit, Reasons, Explained, CallOwns, LeaderAlive
<1>2. IInv /\ Reasons /\ CallOwns /\ [Next]_vars => (Reasons /\ CallOwns)'
  BY NextKeepsReasons
<1>3. Reasons /\ CallOwns => LeftForAReason
  BY DEF Reasons, Explained, CallOwns, LeftForAReason
<1> QED BY <1>1, <1>2, <1>3, InductiveInvariant, PTL DEF Spec

===============================================================================
