------------------------------- MODULE AuditLog -------------------------------
(* AuditLog of audit.py: threads append hash-chained records to one file under one
   lock.  A record reaches the file in one or more writes, any of which may fail; it
   is synced, and only then do the in-memory sequence and previous hash advance.  A
   tool's completion first installs the tool's output as a content-addressed file.
   The process may die, the machine may lose power, and a log may be reopened.

   A record's hash is a fresh number: SHA-256 over a record with a fresh event id is
   injective here.  Directory syncs are taken to work where they are issued. *)
EXTENDS Integers, Sequences, FiniteSets

CONSTANTS
    Threads, Nobody,
    Contents,       \* tool outputs, by content
    Note,           \* an event that carries no tool output
    Unpersisted,    \* tool.output_persistence_failed
    MaxAppends,     \* bound on the appends attempted
    MaxCrashes      \* bound on the crashes

ASSUME NamesAssumption ==
    /\ Nobody \notin Threads
    /\ Note \notin Contents /\ Unpersisted \notin Contents /\ Note # Unpersisted

ASSUME BoundsAssumption == MaxAppends \in Nat /\ MaxCrashes \in Nat

VARIABLES
    file,           \* the lines of audit.jsonl; the last may lack its newline
    durable,        \* the number of lines a sync has made durable
    blobs,          \* outputs linked under tool-outputs/
    durableBlobs,   \* those whose directory entry has been synced
    log,            \* the AuditLog object: sequence and previous hash, and its state
    writer,         \* the thread that holds the lock
    pc, job, rec,   \* per thread: where it is, its event, the record it built
    serial,         \* appends attempted; the source of fresh hashes
    crashes,
    acked,          \* history: hashes of the records whose append returned, in order
    faulted,        \* history: a write or sync has failed since the log was opened
    powerLost       \* history: a crash has lost something that was written

process == <<log, writer, pc, job, rec, faulted>>
disk    == <<file, durable, blobs, durableBlobs>>
vars    == <<file, durable, blobs, durableBlobs, log, writer, pc, job, rec, serial, crashes,
             acked, faulted, powerLost>>

Genesis == 0
Garbage == [seq |-> 0, prev |-> 0, hash |-> 0, event |-> Note]
Events  == Contents \cup {Note, Unpersisted}
Record  == [seq : Nat, prev : Nat, hash : Nat, event : Events]
Line    == [record : Record, ended : BOOLEAN]
Places  == {"idle", "installing", "linked", "queued", "writing", "resuming", "syncing"}
Holding == {"writing", "resuming", "syncing"}

Quiet(l) == [t \in Threads |-> l]

\* What O_APPEND makes of more bytes of record r: they join a line that has no newline yet.
Put(lines, r, ended) ==
    LET n == Len(lines)
    IN  IF n = 0 \/ lines[n].ended
        THEN Append(lines, [record |-> r, ended |-> ended])
        ELSE [lines EXCEPT ![n] = [record |-> IF lines[n].record = r THEN r ELSE Garbage,
                                   ended  |-> ended]]

\* The hash that a record after the first n lines links to.
LinkAfter(lines, n) == IF n = 0 THEN Genesis ELSE lines[n].record.hash

\* AuditLog.verify: whole lines, consecutive sequence numbers, each linked to the one before.
Verifies(lines) ==
    \A i \in 1..Len(lines) :
        /\ lines[i].ended /\ lines[i].record # Garbage
        /\ lines[i].record.seq = i
        /\ lines[i].record.prev = LinkAfter(lines, i - 1)

\* __init__: an existing log is verified and continued, or refused.
Opened(lines) ==
    IF Verifies(lines)
    THEN [state |-> "open", sequence |-> Len(lines), previous |-> LinkAfter(lines, Len(lines))]
    ELSE [state |-> "refused", sequence |-> 0, previous |-> Genesis]

Init ==
    /\ file = <<>> /\ durable = 0 /\ blobs = {} /\ durableBlobs = {}
    /\ log = Opened(<<>>)
    /\ writer = Nobody
    /\ pc = Quiet("idle") /\ job = Quiet(Note) /\ rec = Quiet(Garbage)
    /\ serial = 0 /\ crashes = 0
    /\ acked = <<>> /\ faulted = FALSE /\ powerLost = FALSE

-------------------------------------------------------------------------------

\* A caller of append, or of tool_completed with an output to persist first.
Call(t) ==
    /\ log.state \in {"open", "closed"} /\ pc[t] = "idle" /\ serial < MaxAppends
    /\ \E e \in Contents \cup {Note} :
        /\ job' = [job EXCEPT ![t] = e]
        /\ pc' = [pc EXCEPT ![t] = IF e = Note THEN "queued" ELSE "installing"]
    /\ serial' = serial + 1
    /\ rec' = [rec EXCEPT ![t] = [Garbage EXCEPT !.hash = serial + 1]]
    /\ UNCHANGED <<disk, log, writer, crashes, acked, faulted, powerLost>>

\* _install_content_addressed: the synced temporary is linked to its final name; a
\* duplicate that is already there is compared and accepted as it is.
Install(t) ==
    /\ pc[t] = "installing"
    /\ blobs' = blobs \cup {job[t]}
    /\ pc' = [pc EXCEPT ![t] = IF job[t] \in blobs THEN "queued" ELSE "linked"]
    /\ UNCHANGED <<file, durable, durableBlobs, log, writer, job, rec, serial, crashes, acked,
                   faulted, powerLost>>

\* _fsync_directory, by the thread whose link created the entry.
SyncDirectory(t) ==
    /\ pc[t] = "linked"
    /\ durableBlobs' = durableBlobs \cup {job[t]}
    /\ pc' = [pc EXCEPT ![t] = "queued"]
    /\ UNCHANGED <<file, durable, blobs, log, writer, job, rec, serial, crashes, acked, faulted,
                   powerLost>>

\* Mutant: the completion of an output that could not be stored is recorded all the same.
InstallFailsUnnoticed(t) ==
    /\ pc[t] = "installing"
    /\ pc' = [pc EXCEPT ![t] = "queued"]
    /\ UNCHANGED <<disk, log, writer, job, rec, serial, crashes, acked, faulted, powerLost>>

\* The output cannot be persisted: the failure is recorded in place of the completion.
InstallFails(t) ==
    /\ pc[t] = "installing"
    /\ job' = [job EXCEPT ![t] = Unpersisted]
    /\ pc' = [pc EXCEPT ![t] = "queued"]
    /\ UNCHANGED <<disk, log, writer, rec, serial, crashes, acked, faulted, powerLost>>

\* append takes the lock and builds the record; on a closed log it raises.
Enter(t) ==
    /\ pc[t] = "queued" /\ writer = Nobody
    /\ \/ /\ log.state = "open"
          /\ writer' = t
          /\ rec' = [rec EXCEPT ![t] = [seq |-> log.sequence + 1, prev |-> log.previous,
                                        hash |-> @.hash, event |-> job[t]]]
          /\ pc' = [pc EXCEPT ![t] = "writing"]
       \/ /\ log.state = "closed"
          /\ pc' = [pc EXCEPT ![t] = "idle"]
          /\ UNCHANGED <<writer, rec>>
    /\ UNCHANGED <<disk, log, job, serial, crashes, acked, faulted, powerLost>>

\* A short write: part of the record is in the file, and the loop goes on.
WriteSome(t) ==
    /\ pc[t] = "writing"
    /\ file' = Put(file, rec[t], FALSE)
    /\ pc' = [pc EXCEPT ![t] = "resuming"]
    /\ UNCHANGED <<durable, blobs, durableBlobs, log, writer, job, rec, serial, crashes, acked,
                   faulted, powerLost>>

\* The last byte of the record, its newline, is in the file.
WriteRest(t) ==
    /\ pc[t] \in {"writing", "resuming"}
    /\ file' = Put(file, rec[t], TRUE)
    /\ pc' = [pc EXCEPT ![t] = "syncing"]
    /\ UNCHANGED <<durable, blobs, durableBlobs, log, writer, job, rec, serial, crashes, acked,
                   faulted, powerLost>>

\* Mutant: an append that fails keeps the lock.
AbortHoldingLock(t) ==
    /\ pc[t] \in Holding
    /\ pc' = [pc EXCEPT ![t] = "idle"]
    /\ faulted' = TRUE
    /\ UNCHANGED <<disk, log, writer, job, rec, serial, crashes, acked, powerLost>>

\* A write or the sync raises OSError: the lock is released, the object is as it was.
Abort(t) ==
    /\ pc[t] \in Holding
    /\ writer' = Nobody
    /\ pc' = [pc EXCEPT ![t] = "idle"]
    /\ faulted' = TRUE
    /\ UNCHANGED <<disk, log, job, rec, serial, crashes, acked, powerLost>>

\* Mutant: the record is acknowledged without waiting for the sync.
SyncLater(t) ==
    /\ pc[t] = "syncing"
    /\ log' = [log EXCEPT !.sequence = rec[t].seq, !.previous = rec[t].hash]
    /\ writer' = Nobody
    /\ pc' = [pc EXCEPT ![t] = "idle"]
    /\ acked' = Append(acked, rec[t].hash)
    /\ UNCHANGED <<disk, job, rec, serial, crashes, faulted, powerLost>>

\* Mutant: the next record is linked to the one before this.
SyncWithoutLink(t) ==
    /\ pc[t] = "syncing"
    /\ durable' = Len(file)
    /\ log' = [log EXCEPT !.sequence = rec[t].seq]
    /\ writer' = Nobody
    /\ pc' = [pc EXCEPT ![t] = "idle"]
    /\ acked' = Append(acked, rec[t].hash)
    /\ UNCHANGED <<file, blobs, durableBlobs, job, rec, serial, crashes, faulted, powerLost>>

\* os.fsync succeeds: the object advances, and append returns the record.
Sync(t) ==
    /\ pc[t] = "syncing"
    /\ durable' = Len(file)
    /\ log' = [log EXCEPT !.sequence = rec[t].seq, !.previous = rec[t].hash]
    /\ writer' = Nobody
    /\ pc' = [pc EXCEPT ![t] = "idle"]
    /\ acked' = Append(acked, rec[t].hash)
    /\ UNCHANGED <<file, blobs, durableBlobs, job, rec, serial, crashes, faulted, powerLost>>

\* close, under the lock: syncs and gives up the descriptor.
Close ==
    /\ log.state = "open" /\ writer = Nobody
    /\ log' = [log EXCEPT !.state = "closed"]
    /\ durable' = Len(file)
    /\ UNCHANGED <<file, blobs, durableBlobs, writer, pc, job, rec, serial, crashes, acked,
                   faulted, powerLost>>

\* The process dies.  What it wrote stays, unless the machine dies with it: then what
\* was not synced may be lost, lines from the end, any directory entries.
Crash ==
    /\ log.state \in {"open", "closed"} /\ crashes < MaxCrashes
    /\ crashes' = crashes + 1
    /\ \E kept \in durable..Len(file), found \in SUBSET blobs :
        /\ durableBlobs \subseteq found
        /\ file' = SubSeq(file, 1, kept)
        /\ blobs' = found
        /\ powerLost' = (powerLost \/ file' # file \/ blobs' # blobs)
    /\ log' = [state |-> "down", sequence |-> 0, previous |-> Genesis]
    /\ writer' = Nobody
    /\ pc' = Quiet("idle") /\ job' = Quiet(Note) /\ rec' = Quiet(Garbage)
    /\ UNCHANGED <<durable, durableBlobs, serial, acked, faulted>>

\* A new AuditLog on the file that is there.
Reopen ==
    /\ log.state \in {"down", "closed"} /\ pc = Quiet("idle")
    /\ log' = Opened(file)
    /\ faulted' = FALSE
    /\ UNCHANGED <<disk, writer, pc, job, rec, serial, crashes, acked, powerLost>>

Step(t) ==
    \/ Install(t) \/ SyncDirectory(t) \/ InstallFails(t)
    \/ Enter(t) \/ WriteSome(t) \/ WriteRest(t) \/ Abort(t) \/ Sync(t)

Next ==
    \/ \E t \in Threads : Call(t) \/ Step(t)
    \/ Close \/ Crash \/ Reopen

\* A thread inside a call goes on with it; nothing obliges a call, a close or a crash.
Fairness == \A t \in Threads : WF_vars(Step(t))

Spec == Init /\ [][Next]_vars /\ Fairness

-------------------------------------------------------------------------------

TypeOK ==
    /\ file \in Seq(Line) /\ durable \in 0..Len(file)
    /\ durableBlobs \subseteq blobs /\ blobs \subseteq Contents
    /\ log \in [state : {"open", "closed", "down", "refused"}, sequence : Nat, previous : Nat]
    /\ \A t \in Threads : (pc[t] \in Holding) <=> (writer = t)
    /\ pc \in [Threads -> Places] /\ job \in [Threads -> Events] /\ rec \in [Threads -> Record]
    /\ serial \in 0..MaxAppends /\ crashes \in 0..MaxCrashes
    /\ acked \in Seq(Nat) /\ faulted \in BOOLEAN /\ powerLost \in BOOLEAN

HashesOf(lines) == [i \in 1..Len(lines) |-> lines[i].record.hash]

(* While no write or sync has failed, the object's idea of the chain is the file's:
   between appends the file verifies and the next record will extend it, through
   concurrent appenders, short writes, crashes and reopening (append, __init__). *)
ChainIntact ==
    log.state = "open" /\ ~faulted /\ writer = Nobody =>
        /\ Verifies(file)
        /\ log.sequence = Len(file)
        /\ log.previous = LinkAfter(file, Len(file))

(* A log that verifies has lost nothing that a caller was told is recorded, and has it
   in the order the callers were told, also after a crash or a power loss (append
   syncs before it returns). *)
VerifiedHoldsAcked ==
    Verifies(file) =>
        /\ \A i \in DOMAIN acked : \E j \in DOMAIN file : file[j].record.hash = acked[i]
        /\ \A i, k \in DOMAIN acked : \A j, l \in DOMAIN file :
              /\ file[j].record.hash = acked[i] /\ file[l].record.hash = acked[k]
              /\ i < k
              => j < l

(* A completion on record has its output on disk, as long as no power was lost
   (tool_completed persists the output before the completion is appended). *)
CompletedHasArtifact ==
    ~powerLost => \A i \in DOMAIN file : file[i].record.event \in Contents =>
                                            file[i].record.event \in blobs

(* audit.py:365, "Persist exact tool output before its completion event can be
   accepted", also of an output that two calls share when power is lost. *)
PersistedBeforeCompletion ==
    \A i \in DOMAIN file :
        file[i].record.event \in Contents /\ file[i].record.hash \in {acked[k] : k \in DOMAIN acked}
        => file[i].record.event \in blobs

(* Every append returns or raises: no failure leaves the lock taken. *)
AppendsEnd == \A t \in Threads : pc[t] # "idle" ~> pc[t] = "idle"

(* audit.py:171, "Append exactly one canonical JSON record": an append that returns has
   extended the verified chain, also after an append that failed (cli.py records
   run.failed through the same object, "preserve an auditable failed run"). *)
AckedChainVerifies == [][acked' # acked => Verifies(file')]_vars
===============================================================================
