----------------------------- MODULE AuditLogProofs -----------------------------
(* The audit log, for any threads, outputs, and numbers of appends and crashes: what is
   acknowledged is in a log that verifies, and without faults the object and the file
   agree on the chain.  The inductive invariant tracks the writer's own line, keeps the
   hashes apart, and knows which part of the file a sync has made to last. *)
EXTENDS AuditLog, SequenceTheorems, TLAPS

(* A thread inside an append has stored the output its event completes. *)
Stored ==
    \A t \in Threads :
        /\ pc[t] \in {"installing", "linked"} => job[t] \in Contents
        /\ pc[t] \notin {"idle", "installing"} /\ job[t] \in Contents => job[t] \in blobs
        /\ pc[t] \in Holding => rec[t].event = job[t]

(* A hash is given out once: those of calls under way are not in use anywhere else. *)
HashesInFile ==
    /\ \A i \in 1..Len(file) : file[i].record.hash =< serial
    /\ \A i, j \in 1..Len(file) :
          file[i].record.hash = file[j].record.hash => i = j \/ file[i].record.hash = 0
    /\ \A k \in 1..Len(acked) : acked[k] >= 1 /\ acked[k] =< serial

HashesInFlight ==
    \A t \in Threads : pc[t] # "idle" =>
        /\ rec[t].hash >= 1 /\ rec[t].hash =< serial
        /\ \A u \in Threads : pc[u] # "idle" /\ rec[u].hash = rec[t].hash => u = t
        /\ \A i \in 1..Len(file) : file[i].record.hash = rec[t].hash =>
              i = Len(file) /\ pc[t] \in {"resuming", "syncing"}
        /\ \A k \in 1..Len(acked) : acked[k] # rec[t].hash

(* The last line is the writer's once it has written, whole or spoilt. *)
OwnLine ==
    \A t \in Threads : pc[t] \in {"resuming", "syncing"} =>
        /\ Len(file) >= 1
        /\ file[Len(file)].record \in {rec[t], Garbage}
        /\ file[Len(file)].ended <=> pc[t] = "syncing"

(* The lines that were there before the writer's own. *)
Before == IF \E t \in Threads : pc[t] \in {"resuming", "syncing"} THEN Len(file) - 1 ELSE Len(file)

Chained(lines, i) ==
    /\ lines[i].ended /\ lines[i].record # Garbage
    /\ lines[i].record.seq = i
    /\ lines[i].record.prev = LinkAfter(lines, i - 1)

(* Without a fault the object knows the chain before the writer's line, which extends it. *)
ChainSoFar ==
    log.state = "open" /\ ~faulted =>
        /\ \A i \in 1..Before : Chained(file, i)
        /\ log.sequence = Before /\ log.previous = LinkAfter(file, Before)
        /\ \A t \in Threads : pc[t] \in Holding =>
              rec[t].seq = Before + 1 /\ rec[t].prev = log.previous
        /\ \A t \in Threads : pc[t] \in {"resuming", "syncing"} =>
              file[Len(file)].record = rec[t]

(* A spoilt line that was synced: the log will never verify again. *)
Spoilt == \E i \in 1..durable : file[i].record = Garbage /\ file[i].ended

(* What was acknowledged is in the synced part, and in order, or the log is spoilt. *)
Durably(h) == \E j \in 1..durable : file[j].record.hash = h /\ file[j].ended

InOrder ==
    \A k, m \in 1..Len(acked) : \A j, l \in 1..Len(file) :
        file[j].record.hash = acked[k] /\ file[l].record.hash = acked[m] /\ k < m => j < l

AckedKept == Spoilt \/ ((\A k \in 1..Len(acked) : Durably(acked[k])) /\ InOrder)

IInv ==
    /\ TypeOK /\ writer \in Threads \cup {Nobody}
    /\ Stored /\ HashesInFile /\ HashesInFlight /\ OwnLine
    /\ ChainSoFar /\ AckedKept /\ CompletedHasArtifact

-------------------------------------------------------------------------------

\* What a torn write leaves is typed like a record and completes nothing.
LEMMA GarbageIsRecord == Garbage \in Record /\ Garbage.hash = 0 /\ Garbage.event = Note
  BY DEF Garbage, Record, Events

\* More bytes of a record: the lines before the last one stay, and the last one is the
\* record, or garbage if it joined the unfinished line of another.
LEMMA PutLemma ==
    ASSUME NEW lines \in Seq(Line), NEW r \in Record, NEW ended \in BOOLEAN
    PROVE  LET n == Len(lines)
               p == Put(lines, r, ended)
           IN  /\ p \in Seq(Line) /\ n \in Nat
               /\ Len(p) = IF n = 0 \/ lines[n].ended THEN n + 1 ELSE n
               /\ p[Len(p)].ended = ended
               /\ p[Len(p)].record \in {r, Garbage}
               /\ n = 0 \/ lines[n].ended \/ lines[n].record = r => p[Len(p)].record = r
               /\ \A i \in 1..(Len(p) - 1) : i \in 1..n /\ p[i] = lines[i]
<1> DEFINE n == Len(lines)
           p == Put(lines, r, ended)
           last == [record |-> IF lines[n].record = r THEN r ELSE Garbage, ended |-> ended]
           new == [record |-> r, ended |-> ended]
<1>1. n \in Nat /\ new \in Line /\ last \in Line
  BY GarbageIsRecord DEF Line
<1>2. /\ new.ended = ended /\ new.record = r /\ last.ended = ended
      /\ last.record \in {r, Garbage} /\ (lines[n].record = r => last.record = r)
  OBVIOUS
<1>3. CASE n = 0 \/ lines[n].ended
  <2>1. p = Append(lines, new)
    BY <1>3 DEF Put
  <2> HIDE DEF p, new
  <2>2. /\ p \in Seq(Line) /\ Len(p) = n + 1 /\ p[n + 1] = new
        /\ \A i \in 1..n : p[i] = lines[i]
    BY <1>1, <2>1, AppendProperties
  <2>3. (n + 1) - 1 = n
    BY <1>1
  <2> QED BY <1>1, <1>2, <1>3, <2>2, <2>3 DEF p
<1>4. CASE ~(n = 0 \/ lines[n].ended)
  <2>1. p = [lines EXCEPT ![n] = last]
    BY <1>4 DEF Put
  <2>2. n \in 1..Len(lines)
    BY <1>1, <1>4
  <2> HIDE DEF p, last
  <2>3. /\ p \in Seq(Line) /\ Len(p) = n
        /\ \A i \in 1..n : p[i] = IF i = n THEN last ELSE lines[i]
    BY <1>1, <2>1, <2>2, ExceptSeq
  <2>4. p[n] = last /\ \A i \in 1..(n - 1) : i \in 1..n /\ p[i] = lines[i]
    BY <1>1, <2>2, <2>3
  <2> QED BY <1>1, <1>2, <1>4, <2>3, <2>4 DEF p
<1> QED BY <1>3, <1>4

\* Each line of the file holds a record, and its hash is a number.
LEMMA FileTypes ==
    ASSUME file \in Seq(Line)
    PROVE  /\ Len(file) \in Nat
           /\ \A i \in 1..Len(file) : /\ file[i] \in Line /\ file[i].record \in Record
                                      /\ file[i].record.hash \in Nat
<1>1. Len(file) \in Nat /\ \A i \in 1..Len(file) : file[i] \in Line
  OBVIOUS
<1>2. \A l \in Line : l.record \in Record
  BY DEF Line
<1>3. \A r \in Record : r.hash \in Nat
  BY DEF Record
<1> QED BY <1>1, <1>2, <1>3

\* The lock has one holder.
LEMMA OneHolder ==
    ASSUME TypeOK, NEW t \in Threads, NEW u \in Threads, pc[t] \in Holding, pc[u] \in Holding
    PROVE  t = u
  BY DEF TypeOK

\* The invariant holds of an empty log.
LEMMA InitHolds == Init => IInv
<1> SUFFICES ASSUME Init PROVE IInv
  OBVIOUS
<1>1. file = <<>> /\ acked = <<>> /\ Len(file) = 0 /\ Len(acked) = 0 /\ durable = 0
      /\ file \in Seq(Line) /\ acked \in Seq(Nat)
  BY DEF Init
<1>2. \A t \in Threads : pc[t] = "idle" /\ job[t] = Note /\ rec[t] = Garbage
  BY DEF Init, Quiet
<1>3. log = [state |-> "open", sequence |-> 0, previous |-> 0]
  <2>1. Verifies(<<>>)
    BY DEF Verifies
  <2>2. Len(<<>>) = 0
    OBVIOUS
  <2> QED BY <2>1, <2>2 DEF Init, Opened, LinkAfter, Genesis
<1>4. TypeOK /\ writer \in Threads \cup {Nobody}
  <2>1. /\ pc \in [Threads -> Places] /\ job \in [Threads -> Events]
        /\ rec \in [Threads -> Record]
    BY GarbageIsRecord DEF Init, Quiet, Places, Events
  <2>2. \A t \in Threads : (pc[t] \in Holding) <=> (writer = t)
    BY <1>2, NamesAssumption DEF Init, Holding
  <2>3. log \in [state : {"open", "closed", "down", "refused"}, sequence : Nat, previous : Nat]
    BY <1>3
  <2>4. /\ durable \in 0..Len(file) /\ durableBlobs \subseteq blobs /\ blobs \subseteq Contents
        /\ writer = Nobody
    BY <1>1 DEF Init
  <2>5. serial \in 0..MaxAppends /\ crashes \in 0..MaxCrashes
    BY BoundsAssumption DEF Init
  <2>6. faulted \in BOOLEAN /\ powerLost \in BOOLEAN
    BY DEF Init
  <2> QED BY <1>1, <2>1, <2>2, <2>3, <2>4, <2>5, <2>6 DEF TypeOK
<1>5. Stored /\ HashesInFile /\ HashesInFlight /\ OwnLine /\ AckedKept /\ CompletedHasArtifact
  BY <1>1, <1>2, NamesAssumption DEF Stored, HashesInFile, HashesInFlight, OwnLine, AckedKept,
     CompletedHasArtifact, Holding, Durably, InOrder
<1>6. ChainSoFar
  <2>1. Before = 0
    BY <1>1, <1>2 DEF Before
  <2> QED BY <1>1, <1>2, <1>3, <2>1 DEF ChainSoFar, LinkAfter, Genesis, Holding
<1> QED BY <1>4, <1>5, <1>6 DEF IInv

\* What was acknowledged, and the outputs of what is on record, stay while the file does.
LEMMA LogStays ==
    ASSUME IInv, blobs \subseteq blobs', UNCHANGED <<file, durable, acked, powerLost>>
    PROVE  AckedKept' /\ CompletedHasArtifact'
<1>1. file' = file /\ durable' = durable /\ acked' = acked /\ powerLost' = powerLost
  OBVIOUS
<1>2. AckedKept /\ CompletedHasArtifact
  BY DEF IInv
<1>3. /\ Spoilt' <=> Spoilt
      /\ InOrder' <=> InOrder
      /\ (\A k \in 1..Len(acked) : Durably(acked[k]))' <=> \A k \in 1..Len(acked) : Durably(acked[k])
  BY <1>1 DEF Spoilt, Durably, InOrder
<1>4. AckedKept'
  BY <1>2, <1>3 DEF AckedKept
<1>5. CompletedHasArtifact'
  BY <1>1, <1>2 DEF CompletedHasArtifact
<1> QED BY <1>4, <1>5

\* A step of a thread that does not hold the lock leaves the file and the chain alone.
LEMMA OutsideTheLock ==
    ASSUME IInv, NEW t \in Threads, pc[t] \notin Holding, pc'[t] \notin Holding,
           \A u \in Threads : u # t => pc'[u] = pc[u] /\ rec'[u] = rec[u],
           blobs \subseteq blobs',
           UNCHANGED <<file, durable, log, acked, faulted, powerLost>>
    PROVE  OwnLine' /\ ChainSoFar' /\ AckedKept' /\ CompletedHasArtifact'
<1>1. \A u \in Threads :
        /\ pc'[u] \in Holding <=> pc[u] \in Holding
        /\ pc'[u] \in Holding => pc'[u] = pc[u] /\ rec'[u] = rec[u]
  OBVIOUS
<1>2. {"resuming", "syncing"} \subseteq Holding
  BY DEF Holding
<1>3. \A u \in Threads : pc'[u] \in {"resuming", "syncing"} <=> pc[u] \in {"resuming", "syncing"}
  BY <1>1, <1>2
<1>4. Before' = Before
  BY <1>3 DEF Before
<1>5. OwnLine'
  BY <1>1, <1>2 DEF IInv, OwnLine
<1>6. /\ file' = file /\ durable' = durable /\ log' = log /\ acked' = acked
      /\ faulted' = faulted /\ powerLost' = powerLost
  OBVIOUS
<1>7. ChainSoFar'
  <2>1. \A i : Chained(file, i)' <=> Chained(file, i)
    BY <1>6 DEF Chained, LinkAfter
  <2>2. LinkAfter(file, Before)' = LinkAfter(file, Before)
    BY <1>4, <1>6 DEF LinkAfter
  <2> SUFFICES ASSUME log.state = "open", ~faulted
               PROVE  /\ \A i \in 1..Before : Chained(file, i)'
                      /\ log.sequence = Before /\ log.previous = LinkAfter(file, Before)'
                      /\ \A u \in Threads : pc'[u] \in Holding =>
                            rec'[u].seq = Before + 1 /\ rec'[u].prev = log.previous
                      /\ \A u \in Threads : pc'[u] \in {"resuming", "syncing"} =>
                            file[Len(file)].record = rec'[u]
    BY <1>4, <1>6 DEF ChainSoFar
  <2>3. /\ \A i \in 1..Before : Chained(file, i)
        /\ log.sequence = Before /\ log.previous = LinkAfter(file, Before)
        /\ \A u \in Threads : pc[u] \in Holding =>
              rec[u].seq = Before + 1 /\ rec[u].prev = log.previous
        /\ \A u \in Threads : pc[u] \in {"resuming", "syncing"} =>
              file[Len(file)].record = rec[u]
    BY DEF IInv, ChainSoFar
  <2> QED BY <1>1, <1>2, <2>1, <2>2, <2>3
<1>8. AckedKept' /\ CompletedHasArtifact'
  BY <1>6, LogStays
<1> QED BY <1>5, <1>7, <1>8

\* Nor does a step that neither begins an append nor writes one touch the hashes.
LEMMA HashesStay ==
    ASSUME IInv, NEW t \in Threads,
           UNCHANGED <<file, acked, serial>>,
           \A u \in Threads : u # t => pc'[u] = pc[u] /\ rec'[u] = rec[u],
           \/ pc'[t] = "idle"
           \/ /\ pc[t] # "idle" /\ rec'[t].hash = rec[t].hash
              /\ pc[t] \in {"resuming", "syncing"} => pc'[t] \in {"resuming", "syncing"}
    PROVE  HashesInFile' /\ HashesInFlight'
<1>1. HashesInFile'
  BY DEF IInv, HashesInFile
<1>2. \A u \in Threads : pc'[u] # "idle" =>
        /\ pc[u] # "idle" /\ rec'[u].hash = rec[u].hash
        /\ pc[u] \in {"resuming", "syncing"} => pc'[u] \in {"resuming", "syncing"}
  OBVIOUS
<1>3. HashesInFlight'
  BY <1>2 DEF IInv, HashesInFlight
<1> QED BY <1>1, <1>3

\* A call of append.
LEMMA CallKeeps == ASSUME IInv, NEW t \in Threads, Call(t) PROVE IInv'
<1>1. PICK e \in Contents \cup {Note} :
        /\ job' = [job EXCEPT ![t] = e]
        /\ pc' = [pc EXCEPT ![t] = IF e = Note THEN "queued" ELSE "installing"]
  BY DEF Call
<1>2. /\ rec \in [Threads -> Record] /\ pc \in [Threads -> Places] /\ job \in [Threads -> Events]
      /\ serial \in 0..MaxAppends /\ pc[t] = "idle"
  BY DEF IInv, TypeOK, Call
<1> DEFINE fresh == [Garbage EXCEPT !.hash = serial + 1]
<1>3. fresh \in Record /\ fresh.hash = serial + 1
  BY <1>2, BoundsAssumption DEF Garbage, Record, Events
<1>4. /\ serial < MaxAppends /\ serial' = serial + 1 /\ rec' = [rec EXCEPT ![t] = fresh]
      /\ UNCHANGED <<file, durable, blobs, durableBlobs, log, writer, crashes, acked, faulted,
                     powerLost>>
  BY DEF Call, disk
<1> HIDE DEF fresh
<1>5. /\ rec'[t] = fresh /\ job'[t] = e
      /\ pc'[t] = IF e = Note THEN "queued" ELSE "installing"
      /\ \A u \in Threads : u # t => pc'[u] = pc[u] /\ rec'[u] = rec[u] /\ job'[u] = job[u]
  BY <1>1, <1>2, <1>4
<1>6. pc[t] \notin Holding /\ pc'[t] \notin Holding
  BY <1>2, <1>5 DEF Holding
<1>7. TypeOK'
  <2>1. pc' \in [Threads -> Places] /\ job' \in [Threads -> Events] /\ rec' \in [Threads -> Record]
    BY <1>1, <1>2, <1>3, <1>4 DEF Places, Events
  <2>2. serial' \in 0..MaxAppends
    BY <1>2, <1>4, BoundsAssumption
  <2>3. \A u \in Threads : (pc'[u] \in Holding) <=> (writer' = u)
    BY <1>4, <1>5, <1>6 DEF IInv, TypeOK
  <2> QED BY <1>4, <2>1, <2>2, <2>3 DEF IInv, TypeOK
<1>8. Stored'
  BY <1>4, <1>5, <1>6, NamesAssumption DEF IInv, Stored
<1>9. HashesInFile'
  <2>1. file \in Seq(Line) /\ acked \in Seq(Nat) /\ serial \in Int
    BY <1>2, BoundsAssumption DEF IInv, TypeOK
  <2>2. \A i \in 1..Len(file) : file[i].record.hash \in Nat
    BY <2>1, FileTypes
  <2>3. \A k \in 1..Len(acked) : acked[k] \in Nat
    BY <2>1
  <2> QED BY <1>4, <2>1, <2>2, <2>3 DEF IInv, HashesInFile
<1>10. HashesInFlight'
  <2> SUFFICES ASSUME NEW u \in Threads, pc'[u] # "idle"
               PROVE  /\ rec'[u].hash >= 1 /\ rec'[u].hash =< serial'
                      /\ \A w \in Threads : pc'[w] # "idle" /\ rec'[w].hash = rec'[u].hash => w = u
                      /\ \A i \in 1..Len(file) : file[i].record.hash = rec'[u].hash =>
                            i = Len(file) /\ pc'[u] \in {"resuming", "syncing"}
                      /\ \A k \in 1..Len(acked) : acked[k] # rec'[u].hash
    BY <1>4 DEF HashesInFlight
  <2>1. serial \in Nat /\ \A w \in Threads : rec[w].hash \in Nat
    BY <1>2, BoundsAssumption DEF Record
  <2>2. \A w \in Threads : w # t /\ pc[w] # "idle" => rec[w].hash # serial + 1
    BY <2>1 DEF IInv, HashesInFlight
  <2>3. CASE u = t
    <3>1. \A i \in 1..Len(file) : file[i].record.hash # serial + 1
      <4>1. \A i \in 1..Len(file) : file[i].record.hash \in Nat
        BY FileTypes DEF IInv, TypeOK
      <4> QED BY <2>1, <4>1 DEF IInv, HashesInFile
    <3>2. \A k \in 1..Len(acked) : acked[k] # serial + 1
      <4>1. \A k \in 1..Len(acked) : acked[k] \in Nat
        BY DEF IInv, TypeOK
      <4> QED BY <2>1, <4>1 DEF IInv, HashesInFile
    <3> QED BY <1>3, <1>4, <1>5, <2>1, <2>2, <2>3, <3>1, <3>2
  <2>4. CASE u # t
    <3>1. pc'[u] = pc[u] /\ rec'[u] = rec[u] /\ rec[u].hash =< serial
      BY <1>5, <2>4 DEF IInv, HashesInFlight
    <3> QED BY <1>3, <1>4, <1>5, <2>1, <2>2, <2>4, <3>1 DEF IInv, HashesInFlight
  <2> QED BY <2>3, <2>4
<1>11. OwnLine' /\ ChainSoFar' /\ AckedKept' /\ CompletedHasArtifact'
  BY <1>4, <1>5, <1>6, OutsideTheLock
<1> QED BY <1>4, <1>7, <1>8, <1>9, <1>10, <1>11 DEF IInv

\* The output is linked before the thread goes on to its completion event.
LEMMA InstallKeeps == ASSUME IInv, NEW t \in Threads, Install(t) PROVE IInv'
<1>1. /\ pc \in [Threads -> Places] /\ pc[t] = "installing" /\ job[t] \in Contents
  BY DEF IInv, TypeOK, Stored, Install
<1>2. /\ blobs' = blobs \cup {job[t]}
      /\ pc' = [pc EXCEPT ![t] = IF job[t] \in blobs THEN "queued" ELSE "linked"]
      /\ UNCHANGED <<file, durable, durableBlobs, log, writer, job, rec, serial, crashes, acked,
                     faulted, powerLost>>
  BY DEF Install
<1>3. pc'[t] \in {"queued", "linked"} /\ \A u \in Threads : u # t => pc'[u] = pc[u]
  BY <1>1, <1>2
<1>4. pc[t] \notin Holding /\ pc'[t] \notin Holding
  BY <1>1, <1>3 DEF Holding
<1>5. TypeOK'
  <2>1. pc' \in [Threads -> Places]
    BY <1>1, <1>2 DEF Places
  <2>2. durableBlobs' \subseteq blobs' /\ blobs' \subseteq Contents
    BY <1>1, <1>2 DEF IInv, TypeOK
  <2>3. \A u \in Threads : (pc'[u] \in Holding) <=> (writer' = u)
    BY <1>2, <1>3, <1>4 DEF IInv, TypeOK
  <2> QED BY <1>2, <2>1, <2>2, <2>3 DEF IInv, TypeOK
<1>6. Stored'
  BY <1>1, <1>2, <1>3, <1>4 DEF IInv, Stored
<1>7. HashesInFile' /\ HashesInFlight'
  BY <1>1, <1>2, <1>3, HashesStay
<1>8. OwnLine' /\ ChainSoFar' /\ AckedKept' /\ CompletedHasArtifact'
  BY <1>2, <1>3, <1>4, OutsideTheLock
<1> QED BY <1>2, <1>5, <1>6, <1>7, <1>8 DEF IInv

\* The thread whose link made the directory entry synchronises the directory.
LEMMA SyncDirectoryKeeps == ASSUME IInv, NEW t \in Threads, SyncDirectory(t) PROVE IInv'
<1>1. /\ pc \in [Threads -> Places] /\ pc[t] = "linked"
      /\ job[t] \in Contents /\ job[t] \in blobs
  BY DEF IInv, TypeOK, Stored, SyncDirectory
<1>2. /\ durableBlobs' = durableBlobs \cup {job[t]} /\ pc' = [pc EXCEPT ![t] = "queued"]
      /\ UNCHANGED <<file, durable, blobs, log, writer, job, rec, serial, crashes, acked, faulted,
                     powerLost>>
  BY DEF SyncDirectory
<1>3. pc'[t] = "queued" /\ \A u \in Threads : u # t => pc'[u] = pc[u]
  BY <1>1, <1>2
<1>4. pc[t] \notin Holding /\ pc'[t] \notin Holding
  BY <1>1, <1>3 DEF Holding
<1>5. TypeOK'
  <2>1. pc' \in [Threads -> Places]
    BY <1>1, <1>2 DEF Places
  <2>2. durableBlobs' \subseteq blobs' /\ blobs' \subseteq Contents
    BY <1>1, <1>2 DEF IInv, TypeOK
  <2>3. \A u \in Threads : (pc'[u] \in Holding) <=> (writer' = u)
    BY <1>2, <1>3, <1>4 DEF IInv, TypeOK
  <2> QED BY <1>2, <2>1, <2>2, <2>3 DEF IInv, TypeOK
<1>6. Stored'
  BY <1>1, <1>2, <1>3, <1>4 DEF IInv, Stored
<1>7. HashesInFile' /\ HashesInFlight'
  BY <1>1, <1>2, <1>3, HashesStay
<1>8. OwnLine' /\ ChainSoFar' /\ AckedKept' /\ CompletedHasArtifact'
  BY <1>2, <1>3, <1>4, OutsideTheLock
<1> QED BY <1>2, <1>5, <1>6, <1>7, <1>8 DEF IInv

\* An output could not be stored: its failure is queued in its place.
LEMMA InstallFailsKeeps == ASSUME IInv, NEW t \in Threads, InstallFails(t) PROVE IInv'
<1>1. pc \in [Threads -> Places] /\ job \in [Threads -> Events] /\ pc[t] = "installing"
  BY DEF IInv, TypeOK, InstallFails
<1>2. /\ job' = [job EXCEPT ![t] = Unpersisted] /\ pc' = [pc EXCEPT ![t] = "queued"]
      /\ UNCHANGED <<file, durable, blobs, durableBlobs, log, writer, rec, serial, crashes, acked,
                     faulted, powerLost>>
  BY DEF InstallFails, disk
<1>3. /\ pc'[t] = "queued" /\ job'[t] = Unpersisted
      /\ \A u \in Threads : u # t => pc'[u] = pc[u] /\ job'[u] = job[u]
  BY <1>1, <1>2
<1>4. pc[t] \notin Holding /\ pc'[t] \notin Holding
  BY <1>1, <1>3 DEF Holding
<1>5. TypeOK'
  <2>1. pc' \in [Threads -> Places] /\ job' \in [Threads -> Events]
    BY <1>1, <1>2 DEF Places, Events
  <2>2. \A u \in Threads : (pc'[u] \in Holding) <=> (writer' = u)
    BY <1>2, <1>3, <1>4 DEF IInv, TypeOK
  <2> QED BY <1>2, <2>1, <2>2 DEF IInv, TypeOK
<1>6. Stored'
  BY <1>1, <1>2, <1>3, <1>4, NamesAssumption DEF IInv, Stored
<1>7. HashesInFile' /\ HashesInFlight'
  BY <1>1, <1>2, <1>3, HashesStay
<1>8. OwnLine' /\ ChainSoFar' /\ AckedKept' /\ CompletedHasArtifact'
  BY <1>2, <1>3, <1>4, OutsideTheLock
<1> QED BY <1>2, <1>5, <1>6, <1>7, <1>8 DEF IInv

\* Under the lock the record is built from the object's chain; a closed log raises.
LEMMA EnterKeeps == ASSUME IInv, NEW t \in Threads, Enter(t) PROVE IInv'
<1>1. /\ pc \in [Threads -> Places] /\ rec \in [Threads -> Record] /\ job \in [Threads -> Events]
      /\ log.sequence \in Nat /\ log.previous \in Nat
      /\ pc[t] = "queued" /\ writer = Nobody
  BY DEF IInv, TypeOK, Enter
<1>2. UNCHANGED <<file, durable, blobs, durableBlobs, log, job, serial, crashes, acked, faulted,
                  powerLost>>
  BY DEF Enter, disk
<1>3. \A u \in Threads : pc[u] \notin Holding
  BY <1>1, NamesAssumption DEF IInv, TypeOK
<1>4. CASE log.state = "closed" /\ pc' = [pc EXCEPT ![t] = "idle"] /\ UNCHANGED <<writer, rec>>
  <2>1. pc'[t] = "idle" /\ \A u \in Threads : u # t => pc'[u] = pc[u] /\ rec'[u] = rec[u]
    BY <1>1, <1>4
  <2>2. pc'[t] \notin Holding
    BY <2>1 DEF Holding
  <2>3. TypeOK'
    <3>1. pc' \in [Threads -> Places]
      BY <1>1, <1>4 DEF Places
    <3>2. \A u \in Threads : (pc'[u] \in Holding) <=> (writer' = u)
      BY <1>3, <1>4, <2>1, <2>2 DEF IInv, TypeOK
    <3> QED BY <1>2, <1>4, <3>1, <3>2 DEF IInv, TypeOK
  <2>4. Stored'
    BY <1>2, <1>4, <2>1, <2>2 DEF IInv, Stored
  <2>5. HashesInFile' /\ HashesInFlight'
    BY <1>2, <2>1, HashesStay
  <2>6. OwnLine' /\ ChainSoFar' /\ AckedKept' /\ CompletedHasArtifact'
    BY <1>2, <1>3, <2>1, <2>2, OutsideTheLock
  <2> QED BY <1>2, <1>4, <2>3, <2>4, <2>5, <2>6 DEF IInv
<1> DEFINE built == [seq |-> log.sequence + 1, prev |-> log.previous, hash |-> rec[t].hash,
                     event |-> job[t]]
<1>5. CASE /\ log.state = "open" /\ writer' = t
           /\ rec' = [rec EXCEPT ![t] = built] /\ pc' = [pc EXCEPT ![t] = "writing"]
  <2>1. /\ built \in Record /\ built.hash = rec[t].hash /\ built.event = job[t]
        /\ built.seq = log.sequence + 1 /\ built.prev = log.previous
    <3>1. rec[t].hash \in Nat
      BY <1>1 DEF Record
    <3> QED BY <1>1, <3>1 DEF Record
  <2> HIDE DEF built
  <2>2. /\ pc'[t] = "writing" /\ rec'[t] = built
        /\ \A u \in Threads : u # t => pc'[u] = pc[u] /\ rec'[u] = rec[u]
    BY <1>1, <1>5
  <2>3. pc'[t] \in Holding /\ {"resuming", "syncing"} \subseteq Holding
    BY <2>2 DEF Holding
  <2>4. TypeOK'
    <3>1. pc' \in [Threads -> Places] /\ rec' \in [Threads -> Record]
      BY <1>1, <1>5, <2>1 DEF Places
    <3>2. \A u \in Threads : (pc'[u] \in Holding) <=> (writer' = u)
      BY <1>3, <1>5, <2>2, <2>3
    <3> QED BY <1>2, <3>1, <3>2 DEF IInv, TypeOK
  <2>5. Stored'
    BY <1>1, <1>2, <1>3, <2>1, <2>2 DEF IInv, Stored
  <2>6. HashesInFile' /\ HashesInFlight'
    BY <1>1, <1>2, <2>1, <2>2, HashesStay
  <2>7. \A u \in Threads : /\ pc[u] \notin {"resuming", "syncing"}
                           /\ pc'[u] \notin {"resuming", "syncing"}
    BY <1>3, <2>2, <2>3
  <2>8. Before = Len(file) /\ Before' = Len(file)
    BY <1>2, <2>7 DEF Before
  <2>9. ChainSoFar'
    <3> SUFFICES ASSUME log.state = "open", ~faulted
                 PROVE  /\ \A i \in 1..Len(file) : Chained(file, i)'
                        /\ log.sequence = Len(file) /\ log.previous = LinkAfter(file, Len(file))'
                        /\ \A u \in Threads : pc'[u] \in Holding =>
                              rec'[u].seq = Len(file) + 1 /\ rec'[u].prev = log.previous
      BY <1>2, <2>7, <2>8 DEF ChainSoFar
    <3>1. /\ \A i \in 1..Len(file) : Chained(file, i)
          /\ log.sequence = Len(file) /\ log.previous = LinkAfter(file, Len(file))
      BY <2>8 DEF IInv, ChainSoFar
    <3>2. \A i : Chained(file, i)' <=> Chained(file, i)
      BY <1>2 DEF Chained, LinkAfter
    <3>3. LinkAfter(file, Len(file))' = LinkAfter(file, Len(file))
      BY <1>2 DEF LinkAfter
    <3> QED BY <1>3, <2>1, <2>2, <3>1, <3>2, <3>3
  <2>10. OwnLine'
    BY <2>7 DEF OwnLine
  <2>11. AckedKept' /\ CompletedHasArtifact'
    BY <1>2, LogStays
  <2> QED BY <1>2, <1>5, <2>4, <2>5, <2>6, <2>9, <2>10, <2>11 DEF IInv
<1> QED BY <1>4, <1>5 DEF Enter

\* A write or a sync fails: the lock is free, and from here on the log is known to be faulted.
LEMMA AbortKeeps == ASSUME IInv, NEW t \in Threads, Abort(t) PROVE IInv'
<1>1. pc \in [Threads -> Places] /\ pc[t] \in Holding
  BY DEF IInv, TypeOK, Abort
<1>2. /\ writer' = Nobody /\ pc' = [pc EXCEPT ![t] = "idle"] /\ faulted' = TRUE
      /\ UNCHANGED <<file, durable, blobs, durableBlobs, log, job, rec, serial, crashes, acked,
                     powerLost>>
  BY DEF Abort, disk
<1>3. pc'[t] = "idle" /\ \A u \in Threads : u # t => pc'[u] = pc[u] /\ pc'[u] \notin Holding
  BY <1>1, <1>2, OneHolder DEF IInv
<1>4. \A u \in Threads : pc'[u] \notin Holding
  BY <1>3 DEF Holding
<1>5. TypeOK'
  <2>1. pc' \in [Threads -> Places]
    BY <1>1, <1>2 DEF Places
  <2>2. \A u \in Threads : (pc'[u] \in Holding) <=> (writer' = u)
    BY <1>2, <1>4, NamesAssumption
  <2>3. faulted' \in BOOLEAN
    BY <1>2
  <2> QED BY <1>2, <2>1, <2>2, <2>3 DEF IInv, TypeOK
<1>6. Stored'
  BY <1>2, <1>3, <1>4 DEF IInv, Stored
<1>7. HashesInFile' /\ HashesInFlight'
  BY <1>2, <1>3, HashesStay
<1>8. OwnLine' /\ ChainSoFar'
  BY <1>2, <1>4 DEF OwnLine, ChainSoFar, Holding
<1>9. AckedKept' /\ CompletedHasArtifact'
  BY <1>2, LogStays
<1> QED BY <1>2, <1>5, <1>6, <1>7, <1>8, <1>9 DEF IInv

\* What is synced more stays found, and spoils the log if it is garbage.
LEMMA MoreDurable ==
    ASSUME IInv, file' = file, acked' = acked, durable' = Len(file)
    PROVE  AckedKept'
<1>1. durable \in Nat /\ durable =< Len(file) /\ Len(file) \in Nat
  BY DEF IInv, TypeOK
<1>2. 1..durable \subseteq 1..Len(file)
  BY <1>1
<1>3. Spoilt => Spoilt'
  BY <1>2 DEF Spoilt
<1>4. \A k \in 1..Len(acked) : Durably(acked[k]) => Durably(acked[k])'
  BY <1>2 DEF Durably
<1>5. InOrder => InOrder'
  BY DEF InOrder
<1> QED BY <1>3, <1>4, <1>5 DEF IInv, AckedKept

\* The record is acknowledged: its line is the last, and it is synced.
LEMMA SyncKeeps == ASSUME IInv, NEW t \in Threads, Sync(t) PROVE IInv'
<1>1. /\ pc \in [Threads -> Places] /\ rec[t] \in Record /\ pc[t] = "syncing"
      /\ pc[t] \in Holding /\ file \in Seq(Line) /\ acked \in Seq(Nat) /\ Len(file) \in Nat
      /\ Len(file) >= 1
  BY DEF IInv, TypeOK, OwnLine, Sync, Holding
<1>2. /\ durable' = Len(file) /\ writer' = Nobody /\ pc' = [pc EXCEPT ![t] = "idle"]
      /\ log' = [log EXCEPT !.sequence = rec[t].seq, !.previous = rec[t].hash]
      /\ acked' = Append(acked, rec[t].hash)
      /\ UNCHANGED <<file, blobs, durableBlobs, job, rec, serial, crashes, faulted, powerLost>>
  BY DEF Sync
<1>3. pc'[t] = "idle" /\ \A u \in Threads : u # t => pc'[u] = pc[u] /\ pc'[u] \notin Holding
  BY <1>1, <1>2, OneHolder DEF IInv
<1>4. \A u \in Threads : pc'[u] \notin Holding /\ pc'[u] \notin {"resuming", "syncing"}
  BY <1>3 DEF Holding
<1>5. rec[t].seq \in Nat /\ rec[t].hash \in Nat
  BY <1>1 DEF Record
<1>6. /\ acked' \in Seq(Nat) /\ Len(acked') = Len(acked) + 1 /\ Len(acked) \in Nat
      /\ acked'[Len(acked) + 1] = rec[t].hash
      /\ \A k \in 1..Len(acked) : acked'[k] = acked[k]
  BY <1>1, <1>2, <1>5, AppendProperties
<1>7. TypeOK'
  <2>1. pc' \in [Threads -> Places] /\ durable' \in 0..Len(file)
    BY <1>1, <1>2 DEF Places
  <2>2. \A u \in Threads : (pc'[u] \in Holding) <=> (writer' = u)
    BY <1>2, <1>4, NamesAssumption
  <2>3. log' \in [state : {"open", "closed", "down", "refused"}, sequence : Nat, previous : Nat]
    BY <1>2, <1>5 DEF IInv, TypeOK
  <2> QED BY <1>2, <1>6, <2>1, <2>2, <2>3 DEF IInv, TypeOK
<1>8. Stored'
  BY <1>2, <1>3, <1>4 DEF IInv, Stored
<1>9. \A k \in 1..Len(acked') : k \in 1..Len(acked) \/ k = Len(acked) + 1
  BY <1>6
<1>10. HashesInFile'
  <2>1. rec[t].hash >= 1 /\ rec[t].hash =< serial
    BY <1>1 DEF IInv, HashesInFlight
  <2> QED BY <1>2, <1>6, <1>9, <2>1 DEF IInv, HashesInFile
<1>11. HashesInFlight'
  <2>1. \A u \in Threads : pc'[u] # "idle" => u # t /\ pc[u] = pc'[u] /\ rec[u].hash # rec[t].hash
    BY <1>1, <1>3 DEF IInv, HashesInFlight
  <2> QED BY <1>2, <1>6, <1>9, <2>1 DEF IInv, HashesInFlight
<1>12. OwnLine'
  BY <1>4 DEF OwnLine
<1>13. ChainSoFar'
  <2>1. Before = Len(file) - 1 /\ Before' = Len(file)
    BY <1>1, <1>2, <1>4 DEF Before
  <2>2. /\ log'.state = log.state /\ log'.sequence = rec[t].seq /\ log'.previous = rec[t].hash
    BY <1>2 DEF IInv, TypeOK
  <2> SUFFICES ASSUME log.state = "open", ~faulted
               PROVE  /\ \A i \in 1..Len(file) : Chained(file, i)'
                      /\ rec[t].seq = Len(file) /\ rec[t].hash = LinkAfter(file, Len(file))'
    BY <1>2, <1>4, <2>1, <2>2 DEF ChainSoFar
  <2>3. /\ \A i \in 1..(Len(file) - 1) : Chained(file, i)
        /\ log.previous = LinkAfter(file, Len(file) - 1)
        /\ rec[t].seq = (Len(file) - 1) + 1 /\ rec[t].prev = log.previous
        /\ file[Len(file)].record = rec[t]
    BY <1>1, <2>1 DEF IInv, ChainSoFar
  <2>4. file[Len(file)].ended /\ rec[t].hash >= 1
    BY <1>1 DEF IInv, OwnLine, HashesInFlight
  <2>5. Chained(file, Len(file))
    BY <1>1, <2>3, <2>4, GarbageIsRecord DEF Chained
  <2>6. \A i \in 1..Len(file) : Chained(file, i)
    BY <1>1, <2>3, <2>5
  <2>7. \A i : Chained(file, i)' <=> Chained(file, i)
    BY <1>2 DEF Chained, LinkAfter
  <2>8. LinkAfter(file, Len(file))' = rec[t].hash
    BY <1>1, <1>2, <2>3 DEF LinkAfter
  <2> QED BY <1>1, <2>3, <2>6, <2>7, <2>8
<1>14. AckedKept'
  <2>0. file[Len(file)].record \in {rec[t], Garbage} /\ file[Len(file)].ended
    BY <1>1 DEF IInv, OwnLine
  <2>1. /\ Len(file) \in 1..Len(file) /\ file[Len(file)].record \in {rec[t], Garbage}
        /\ file[Len(file)].ended
    BY <1>1, <2>0
  <2>2. CASE file[Len(file)].record = Garbage
    <3>1. Spoilt'
      BY <1>2, <2>1, <2>2 DEF Spoilt
    <3> QED BY <3>1 DEF AckedKept
  <2>3. CASE file[Len(file)].record = rec[t]
    <3>1. 1..durable \subseteq 1..Len(file)
      BY DEF IInv, TypeOK
    <3>2. CASE Spoilt
      <4>1. Spoilt'
        BY <1>2, <3>1, <3>2 DEF Spoilt
      <4> QED BY <4>1 DEF AckedKept
    <3>3. CASE ~Spoilt
      <4>1. (\A k \in 1..Len(acked) : Durably(acked[k])) /\ InOrder
        BY <3>3 DEF IInv, AckedKept
      <4>2. ASSUME NEW k \in 1..Len(acked') PROVE Durably(acked[k])'
        <5>1. CASE k \in 1..Len(acked)
          BY <1>2, <1>6, <3>1, <4>1, <5>1 DEF Durably
        <5>2. CASE k = Len(acked) + 1
          BY <1>2, <1>6, <2>1, <2>3, <5>2 DEF Durably
        <5> QED BY <1>9, <5>1, <5>2
      <4>3. ASSUME NEW k \in 1..Len(acked'), NEW m \in 1..Len(acked'),
                   NEW j \in 1..Len(file), NEW l \in 1..Len(file),
                   file[j].record.hash = acked'[k], file[l].record.hash = acked'[m], k < m
            PROVE  j < l
        <5>1. k \in 1..Len(acked)
          BY <1>6, <1>9, <4>3
        <5>2. CASE m \in 1..Len(acked)
          BY <1>6, <4>1, <4>3, <5>1, <5>2 DEF InOrder
        <5>3. CASE m = Len(acked) + 1
          <6>1. l = Len(file)
            BY <1>1, <1>6, <4>3, <5>3 DEF IInv, HashesInFlight
          <6>2. file[j].record.hash = acked[k]
            BY <1>6, <4>3, <5>1
          <6>3. j # Len(file)
            BY <1>1, <2>3, <5>1, <6>2 DEF IInv, HashesInFlight
          <6> QED BY <1>1, <6>1, <6>3
        <5> QED BY <1>9, <5>2, <5>3
      <4>4. InOrder'
        BY <1>2, <4>3 DEF InOrder
      <4> QED BY <4>2, <4>4 DEF AckedKept
    <3> QED BY <3>2, <3>3
  <2> QED BY <2>1, <2>2, <2>3
<1>15. CompletedHasArtifact'
  BY <1>2 DEF IInv, CompletedHasArtifact
<1> QED BY <1>2, <1>7, <1>8, <1>10, <1>11, <1>12, <1>13, <1>14, <1>15 DEF IInv

\* The log is closed.
LEMMA CloseKeeps == ASSUME IInv, Close PROVE IInv'
<1>1. /\ log.state = "open" /\ writer = Nobody /\ log' = [log EXCEPT !.state = "closed"]
      /\ durable' = Len(file)
      /\ UNCHANGED <<file, blobs, durableBlobs, writer, pc, job, rec, serial, crashes, acked,
                     faulted, powerLost>>
  BY DEF Close
<1>2. TypeOK'
  <2>1. log' \in [state : {"open", "closed", "down", "refused"}, sequence : Nat, previous : Nat]
    BY <1>1 DEF IInv, TypeOK
  <2>2. durable' \in 0..Len(file)
    BY <1>1 DEF IInv, TypeOK
  <2> QED BY <1>1, <2>1, <2>2 DEF IInv, TypeOK
<1>3. Stored' /\ HashesInFile' /\ HashesInFlight' /\ OwnLine'
  BY <1>1 DEF IInv, Stored, HashesInFile, HashesInFlight, OwnLine
<1>4. ChainSoFar'
  <2>1. log'.state = "closed"
    BY <1>1 DEF IInv, TypeOK
  <2> QED BY <2>1 DEF ChainSoFar
<1>5. AckedKept'
  BY <1>1, MoreDurable
<1>6. CompletedHasArtifact'
  BY <1>1 DEF IInv, CompletedHasArtifact
<1> QED BY <1>1, <1>2, <1>3, <1>4, <1>5, <1>6 DEF IInv

\* The chain that a reopened log continues is the one its verification has followed.
LEMMA ReopenKeeps == ASSUME IInv, Reopen PROVE IInv'
<1>1. /\ log' = Opened(file) /\ faulted' = FALSE
      /\ UNCHANGED <<file, durable, blobs, durableBlobs, writer, pc, job, rec, serial, crashes,
                     acked, powerLost>>
  BY DEF Reopen, disk
<1>2. \A t \in Threads : pc[t] = "idle" /\ pc'[t] = "idle"
  BY <1>1 DEF Reopen, Quiet
<1>3. Len(file) \in Nat /\ \A i \in 1..Len(file) : file[i].record.hash \in Nat
  BY FileTypes DEF IInv, TypeOK
<1>4. LinkAfter(file, Len(file)) \in Nat
  BY <1>3 DEF LinkAfter, Genesis
<1>5. TypeOK'
  <2>1. log' \in [state : {"open", "closed", "down", "refused"}, sequence : Nat, previous : Nat]
    BY <1>1, <1>3, <1>4 DEF Opened, Genesis
  <2>2. faulted' \in BOOLEAN
    BY <1>1
  <2> QED BY <1>1, <2>1, <2>2 DEF IInv, TypeOK
<1>6. Stored' /\ HashesInFile' /\ HashesInFlight' /\ OwnLine'
  BY <1>1 DEF IInv, Stored, HashesInFile, HashesInFlight, OwnLine
<1>7. ChainSoFar'
  <2>1. Before' = Len(file)
    BY <1>1, <1>2 DEF Before
  <2> SUFFICES ASSUME log'.state = "open"
               PROVE  /\ \A i \in 1..Len(file) : Chained(file, i)'
                      /\ log'.sequence = Len(file) /\ log'.previous = LinkAfter(file, Len(file))'
    BY <1>1, <1>2, <2>1 DEF ChainSoFar, Holding
  <2>2. /\ Verifies(file) /\ log'.sequence = Len(file)
        /\ log'.previous = LinkAfter(file, Len(file))
    BY <1>1 DEF Opened
  <2>3. \A i \in 1..Len(file) : Chained(file, i)
    BY <2>2 DEF Verifies, Chained
  <2>4. \A i : Chained(file, i)' <=> Chained(file, i)
    BY <1>1 DEF Chained, LinkAfter
  <2>5. LinkAfter(file, Len(file))' = LinkAfter(file, Len(file))
    BY <1>1 DEF LinkAfter
  <2> QED BY <2>2, <2>3, <2>4, <2>5
<1>8. AckedKept' /\ CompletedHasArtifact'
  BY <1>1, LogStays
<1> QED BY <1>1, <1>5, <1>6, <1>7, <1>8 DEF IInv

\* A crash keeps at least what was synced, and every thread and its record are gone.
LEMMA CrashKeeps == ASSUME IInv, Crash PROVE IInv'
<1>1. PICK kept \in durable..Len(file), found \in SUBSET blobs :
        /\ durableBlobs \subseteq found /\ file' = SubSeq(file, 1, kept) /\ blobs' = found
        /\ powerLost' = (powerLost \/ file' # file \/ blobs' # blobs)
  BY DEF Crash
<1>2. /\ crashes < MaxCrashes /\ crashes' = crashes + 1
      /\ log' = [state |-> "down", sequence |-> 0, previous |-> Genesis] /\ writer' = Nobody
      /\ pc' = Quiet("idle") /\ job' = Quiet(Note) /\ rec' = Quiet(Garbage)
      /\ UNCHANGED <<durable, durableBlobs, serial, acked, faulted>>
  BY DEF Crash
<1>3. /\ file \in Seq(Line) /\ durable \in Nat /\ Len(file) \in Nat
      /\ kept \in Nat /\ durable =< kept /\ kept =< Len(file)
  BY DEF IInv, TypeOK
<1>4. /\ file' \in Seq(Line) /\ Len(file') = kept
      /\ \A i \in 1..kept : i \in 1..Len(file) /\ file'[i] = file[i]
  <2>1. \A i \in 1..kept : file[i] \in Line
    BY <1>3
  <2>2. /\ SubSeq(file, 1, kept) \in Seq(Line)
        /\ Len(SubSeq(file, 1, kept)) = IF 1 =< kept THEN kept - 1 + 1 ELSE 0
        /\ \A i \in 1..(kept - 1 + 1) : SubSeq(file, 1, kept)[i] = file[1 + i - 1]
    BY <1>3, <2>1, SubSeqProperties
  <2>3. kept - 1 + 1 = kept /\ \A i \in 1..kept : 1 + i - 1 = i /\ i \in 1..Len(file)
    BY <1>3
  <2>4. (IF 1 =< kept THEN kept - 1 + 1 ELSE 0) = kept
    BY <1>3
  <2> QED BY <1>1, <2>2, <2>3, <2>4
<1>5. \A t \in Threads : pc'[t] = "idle" /\ job'[t] = Note /\ pc'[t] \notin Holding
  BY <1>2 DEF Quiet, Holding
<1>6. TypeOK'
  <2>1. /\ pc' \in [Threads -> Places] /\ job' \in [Threads -> Events]
        /\ rec' \in [Threads -> Record]
    BY <1>2, GarbageIsRecord DEF Quiet, Places, Events
  <2>2. durable' \in 0..Len(file') /\ durableBlobs' \subseteq blobs' /\ blobs' \subseteq Contents
    BY <1>1, <1>2, <1>3, <1>4 DEF IInv, TypeOK
  <2>3. log' \in [state : {"open", "closed", "down", "refused"}, sequence : Nat, previous : Nat]
    BY <1>2 DEF Genesis
  <2>4. crashes' \in 0..MaxCrashes
    BY <1>2, BoundsAssumption DEF IInv, TypeOK
  <2>5. powerLost' \in BOOLEAN
    BY <1>1
  <2>6. \A t \in Threads : (pc'[t] \in Holding) <=> (writer' = t)
    BY <1>2, <1>5, NamesAssumption
  <2> QED BY <1>2, <1>4, <2>1, <2>2, <2>3, <2>4, <2>5, <2>6 DEF IInv, TypeOK
<1>7. Stored' /\ HashesInFlight' /\ OwnLine' /\ ChainSoFar'
  BY <1>2, <1>5 DEF Stored, HashesInFlight, OwnLine, ChainSoFar
<1>8. HashesInFile'
  BY <1>2, <1>4 DEF IInv, HashesInFile
<1>9. AckedKept'
  <2>1. \A i \in 1..durable : i \in 1..kept
    BY <1>3
  <2>2. Spoilt => Spoilt'
    BY <1>2, <1>4, <2>1 DEF Spoilt
  <2>3. \A k \in 1..Len(acked) : Durably(acked[k]) => Durably(acked[k])'
    BY <1>2, <1>4, <2>1 DEF Durably
  <2>4. InOrder => InOrder'
    <3>1. acked' = acked /\ 1..Len(file') = 1..kept
      BY <1>2, <1>4
    <3> SUFFICES ASSUME InOrder, NEW k \in 1..Len(acked), NEW m \in 1..Len(acked),
                        NEW j \in 1..kept, NEW l \in 1..kept,
                        file'[j].record.hash = acked[k], file'[l].record.hash = acked[m], k < m
                 PROVE  j < l
      BY <3>1 DEF InOrder
    <3>2. /\ j \in 1..Len(file) /\ l \in 1..Len(file)
          /\ file[j].record.hash = acked[k] /\ file[l].record.hash = acked[m]
      BY <1>4
    <3> QED BY <3>2 DEF InOrder
  <2>5. acked' = acked
    BY <1>2
  <2> QED BY <2>2, <2>3, <2>4, <2>5 DEF IInv, AckedKept
<1>10. CompletedHasArtifact'
  <2>1. CASE powerLost'
    BY <2>1 DEF CompletedHasArtifact
  <2>2. CASE ~powerLost'
    <3>1. ~powerLost /\ file' = file /\ blobs' = blobs
      BY <1>1, <2>2
    <3> QED BY <3>1 DEF IInv, CompletedHasArtifact
  <2> QED BY <2>1, <2>2
<1> QED BY <1>2, <1>6, <1>7, <1>8, <1>9, <1>10 DEF IInv

\* Bytes of the writer's record reach the file: whole lines and what they prove stay, and
\* the last line is the writer's, or garbage if it joined what an abort had left behind.
LEMMA WriteKeeps ==
    ASSUME IInv, NEW t \in Threads, NEW e \in BOOLEAN, pc[t] \in {"writing", "resuming"},
           file' = Put(file, rec[t], e),
           pc' = [pc EXCEPT ![t] = IF e THEN "syncing" ELSE "resuming"],
           UNCHANGED <<durable, blobs, durableBlobs, log, writer, job, rec, serial, crashes,
                       acked, faulted, powerLost>>
    PROVE  IInv'
<1> DEFINE n == Len(file)
           m == Len(file')
<1>1. /\ pc \in [Threads -> Places] /\ file \in Seq(Line) /\ rec[t] \in Record
      /\ pc[t] \in Holding
  BY DEF IInv, TypeOK, Holding
<1>2. /\ file' \in Seq(Line) /\ n \in Nat
      /\ m = IF n = 0 \/ file[n].ended THEN n + 1 ELSE n
      /\ file'[m].ended = e /\ file'[m].record \in {rec[t], Garbage}
      /\ n = 0 \/ file[n].ended \/ file[n].record = rec[t] => file'[m].record = rec[t]
      /\ \A i \in 1..(m - 1) : i \in 1..n /\ file'[i] = file[i]
  BY <1>1, PutLemma
<1>3. m \in Nat /\ m >= 1 /\ n =< m /\ m \in 1..m
  BY <1>2
<1>4. \A i \in 1..m : i \in 1..(m - 1) \/ i = m
  BY <1>3
<1>5. \A i \in 1..n : file[i].ended => i \in 1..(m - 1)
  BY <1>2
<1> HIDE DEF n, m
<1>6. /\ pc'[t] = IF e THEN "syncing" ELSE "resuming"
      /\ \A u \in Threads : u # t => pc'[u] = pc[u] /\ pc[u] \notin Holding
  BY <1>1, OneHolder DEF IInv
<1>7. pc'[t] \in Holding /\ {"resuming", "syncing"} \subseteq Holding
  BY <1>6 DEF Holding
<1>8. /\ durable' = durable /\ blobs' = blobs /\ log' = log /\ rec' = rec /\ serial' = serial
      /\ acked' = acked /\ faulted' = faulted /\ powerLost' = powerLost /\ job' = job
  OBVIOUS
<1>9. /\ rec[t].hash >= 1 /\ rec[t].hash =< serial
      /\ \A u \in Threads : pc[u] # "idle" /\ rec[u].hash = rec[t].hash => u = t
      /\ \A i \in 1..n : file[i].record.hash = rec[t].hash => i = n /\ pc[t] = "resuming"
      /\ \A k \in 1..Len(acked) : acked[k] # rec[t].hash
  BY <1>1 DEF IInv, HashesInFlight, Holding, n
<1>10. pc[t] = "resuming" => n >= 1 /\ ~file[n].ended
  BY DEF IInv, OwnLine, n
<1>11. \A i \in 1..(m - 1) : file[i].record.hash # rec[t].hash
  BY <1>2, <1>3, <1>9, <1>10
<1>12. file'[m].record.hash \in {rec[t].hash, 0}
  BY <1>2, GarbageIsRecord
<1>13. TypeOK'
  <2>1. pc' \in [Threads -> Places]
    BY <1>1, <1>6 DEF Places
  <2>2. durable' \in 0..m
    BY <1>2, <1>3, <1>8 DEF IInv, TypeOK, n
  <2>3. \A u \in Threads : (pc'[u] \in Holding) <=> (writer' = u)
    BY <1>1, <1>6, <1>7 DEF IInv, TypeOK
  <2> QED BY <1>2, <2>1, <2>2, <2>3 DEF IInv, TypeOK, m
<1>14. Stored'
  <2>1. pc[t] \notin {"idle", "installing", "linked"} /\ pc'[t] \notin {"idle", "installing", "linked"}
    BY <1>6
  <2> QED BY <1>1, <1>6, <1>8, <2>1 DEF IInv, Stored
<1>15. HashesInFile'
  <2>1. \A i \in 1..m : file'[i].record.hash =< serial
    <3>1. serial \in Nat
      BY BoundsAssumption DEF IInv, TypeOK
    <3>2. \A i \in 1..n : file[i].record.hash =< serial
      BY DEF IInv, HashesInFile, n
    <3>3. \A i \in 1..(m - 1) : file'[i].record.hash =< serial
      BY <1>2, <3>2
    <3>4. file'[m].record.hash =< serial
      BY <1>9, <1>12, <3>1
    <3> QED BY <1>4, <3>3, <3>4
  <2>2. ASSUME NEW i \in 1..m, NEW j \in 1..m, file'[i].record.hash = file'[j].record.hash
        PROVE  i = j \/ file'[i].record.hash = 0
    <3>1. CASE i \in 1..(m - 1) /\ j \in 1..(m - 1)
      BY <1>2, <2>2, <3>1 DEF IInv, HashesInFile, n
    <3>2. ASSUME NEW a \in 1..(m - 1), file'[a].record.hash = file'[m].record.hash
          PROVE  file'[m].record.hash = 0
      BY <1>2, <1>11, <1>12, <3>2
    <3> QED BY <1>4, <2>2, <3>1, <3>2
  <2> QED BY <1>8, <2>1, <2>2 DEF IInv, HashesInFile, m
<1>16. HashesInFlight'
  <2> SUFFICES ASSUME NEW u \in Threads, pc'[u] # "idle", NEW i \in 1..m,
                      file'[i].record.hash = rec[u].hash
               PROVE  i = m /\ pc'[u] \in {"resuming", "syncing"}
    <3>1. \A u \in Threads : pc'[u] # "idle" => pc[u] # "idle"
      BY <1>1, <1>6 DEF Holding
    <3> QED BY <1>8, <3>1 DEF IInv, HashesInFlight, m
  <2>1. CASE u = t
    <3>1. i = m
      BY <1>2, <1>4, <1>11, <2>1
    <3> QED BY <1>6, <2>1, <3>1
  <2>2. CASE u # t
    <3>1. pc[u] # "idle" /\ pc[u] \notin {"resuming", "syncing"}
      BY <1>6, <1>7, <2>2
    <3>2. rec[u].hash # rec[t].hash /\ rec[u].hash >= 1
      BY <1>9, <2>2, <3>1 DEF IInv, HashesInFlight
    <3>3. i # m
      BY <1>12, <3>2
    <3>4. i \in 1..n /\ file[i].record.hash = rec[u].hash
      BY <1>2, <1>4, <3>3
    <3>5. FALSE
      BY <3>1, <3>4 DEF IInv, HashesInFlight, n
    <3> QED BY <3>5
  <2> QED BY <2>1, <2>2
<1>17. OwnLine'
  <2>1. \A u \in Threads : pc'[u] \in {"resuming", "syncing"} => u = t
    BY <1>6, <1>7
  <2>2. file'[m].ended <=> pc'[t] = "syncing"
    BY <1>2, <1>6
  <2> QED BY <1>2, <1>3, <1>8, <2>1, <2>2 DEF OwnLine, m
<1>18. ChainSoFar'
  <2> SUFFICES ASSUME log.state = "open", ~faulted
               PROVE  /\ \A i \in 1..Before' : Chained(file, i)'
                      /\ log.sequence = Before' /\ log.previous = LinkAfter(file, Before)'
                      /\ \A u \in Threads : pc'[u] \in Holding =>
                            rec[u].seq = Before' + 1 /\ rec[u].prev = log.previous
                      /\ \A u \in Threads : pc'[u] \in {"resuming", "syncing"} =>
                            file'[m].record = rec[u]
    BY <1>8 DEF ChainSoFar, m
  <2>1. /\ \A i \in 1..Before : Chained(file, i)
        /\ log.sequence = Before /\ log.previous = LinkAfter(file, Before)
        /\ rec[t].seq = Before + 1 /\ rec[t].prev = log.previous
        /\ pc[t] = "resuming" => file[n].record = rec[t]
    BY <1>1 DEF IInv, ChainSoFar, n
  <2>2. Before' = m - 1
    BY <1>6 DEF Before, m
  <2>3. Before = IF pc[t] = "resuming" THEN n - 1 ELSE n
    BY <1>6, <1>7 DEF Before, n
  <2>4. n = 0 \/ file[n].ended \/ file[n].record = rec[t]
    <3>1. CASE pc[t] = "resuming"
      BY <2>1, <3>1
    <3>2. CASE pc[t] # "resuming"
      <4>1. n = 0 \/ n \in 1..Before
        BY <1>2, <2>3, <3>2
      <4> QED BY <2>1, <4>1 DEF Chained
    <3> QED BY <3>1, <3>2
  <2>5. Before = m - 1
    <3>1. CASE pc[t] = "resuming"
      BY <1>2, <1>10, <2>3, <3>1
    <3>2. CASE pc[t] # "resuming"
      <4>1. n = 0 \/ n \in 1..Before
        BY <1>2, <2>3, <3>2
      <4>2. n = 0 \/ file[n].ended
        BY <2>1, <4>1 DEF Chained
      <4> QED BY <1>2, <2>3, <3>2, <4>2
    <3> QED BY <3>1, <3>2
  <2>6. \A i \in 0..(m - 1) : LinkAfter(file, i)' = LinkAfter(file, i)
    BY <1>2 DEF LinkAfter
  <2>7. \A i \in 1..(m - 1) : Chained(file, i)'
    <3> SUFFICES ASSUME NEW i \in 1..(m - 1) PROVE Chained(file, i)'
      OBVIOUS
    <3>1. i - 1 \in 0..(m - 1) /\ file'[i] = file[i]
      BY <1>2, <1>3
    <3>2. Chained(file, i) /\ LinkAfter(file, i - 1)' = LinkAfter(file, i - 1)
      BY <2>1, <2>5, <2>6, <3>1
    <3> QED BY <3>1, <3>2 DEF Chained
  <2>8. LinkAfter(file, Before)' = LinkAfter(file, Before)
    <3> DEFINE k == Before
               link == LinkAfter(file, k)
    <3>1. k \in 0..(m - 1) /\ Before' = k
      BY <1>3, <2>2, <2>5
    <3>2. LinkAfter(file', k) = link
      <4> HIDE DEF k
      <4> QED BY <1>2, <3>1 DEF LinkAfter
    <3> HIDE DEF k, link
    <3>3. LinkAfter(file', Before') = link
      BY <3>1, <3>2
    <3> QED BY <3>3 DEF k, link, LinkAfter
  <2>9. \A u \in Threads : pc'[u] \in Holding => u = t
    BY <1>6
  <2>10. file'[m].record = rec[t]
    BY <1>2, <2>4
  <2> QED BY <1>7, <2>1, <2>2, <2>5, <2>7, <2>8, <2>9, <2>10
<1>19. AckedKept'
  <2>1. \A i \in 1..durable : i \in 1..n
    BY DEF IInv, TypeOK, n
  <2>2. Spoilt => Spoilt'
    BY <1>2, <1>5, <1>8, <2>1 DEF Spoilt
  <2>3. \A k \in 1..Len(acked) : Durably(acked[k]) => Durably(acked[k])'
    BY <1>2, <1>5, <1>8, <2>1 DEF Durably
  <2>4. \A k \in 1..Len(acked) : file'[m].record.hash # acked[k]
    BY <1>9, <1>12 DEF IInv, HashesInFile
  <2>5. InOrder => InOrder'
    <3> SUFFICES ASSUME InOrder, NEW k \in 1..Len(acked), NEW q \in 1..Len(acked),
                        NEW j \in 1..m, NEW l \in 1..m,
                        file'[j].record.hash = acked[k], file'[l].record.hash = acked[q], k < q
                 PROVE  j < l
      BY <1>8 DEF InOrder, m
    <3>1. j \in 1..(m - 1) /\ l \in 1..(m - 1)
      BY <1>4, <2>4
    <3>2. /\ j \in 1..n /\ l \in 1..n
          /\ file[j].record.hash = acked[k] /\ file[l].record.hash = acked[q]
      BY <1>2, <3>1
    <3> QED BY <3>2 DEF InOrder, n
  <2> QED BY <1>8, <2>2, <2>3, <2>5 DEF IInv, AckedKept
<1>20. CompletedHasArtifact'
  <2> SUFFICES ASSUME ~powerLost, NEW i \in 1..m, file'[i].record.event \in Contents
               PROVE  file'[i].record.event \in blobs
    BY <1>2, <1>8 DEF CompletedHasArtifact, m
  <2>1. CASE i \in 1..(m - 1)
    BY <1>1, <1>2, <2>1 DEF IInv, CompletedHasArtifact, n
  <2>2. CASE i = m
    <3>1. file'[m].record = rec[t]
      BY <1>2, <2>2, GarbageIsRecord, NamesAssumption
    <3>2. rec[t].event = job[t] /\ pc[t] \notin {"idle", "installing"}
      BY <1>1 DEF IInv, Stored
    <3> QED BY <2>2, <3>1, <3>2 DEF IInv, Stored
  <2> QED BY <1>4, <2>1, <2>2
<1> QED BY <1>13, <1>14, <1>15, <1>16, <1>17, <1>18, <1>19, <1>20 DEF IInv

\* Every step keeps the invariant.
LEMMA StepKeeps == ASSUME IInv, [Next]_vars PROVE IInv'
<1>1. CASE UNCHANGED vars
  <2>1. /\ UNCHANGED <<file, durable, blobs, log, acked, faulted, powerLost>>
        /\ UNCHANGED <<durableBlobs, writer, pc, job, rec, serial, crashes>>
    BY <1>1 DEF vars
  <2>2. TypeOK' /\ Stored' /\ HashesInFile' /\ HashesInFlight' /\ OwnLine'
    BY <2>1 DEF IInv, TypeOK, Stored, HashesInFile, HashesInFlight, OwnLine
  <2>3. AckedKept' /\ CompletedHasArtifact'
    BY <2>1, LogStays
  <2>4. ChainSoFar'
    <3>1. /\ Before' = Before
          /\ \A i : Chained(file, i)' <=> Chained(file, i)
      BY <2>1 DEF Before, Chained, LinkAfter
    <3>2. LinkAfter(file, Before)' = LinkAfter(file, Before)
      BY <2>1, <3>1 DEF LinkAfter
    <3> QED BY <2>1, <3>1, <3>2 DEF IInv, ChainSoFar
  <2> QED BY <2>1, <2>2, <2>3, <2>4 DEF IInv
<1>2. ASSUME NEW t \in Threads, WriteSome(t) PROVE IInv'
  <2>1. pc' = [pc EXCEPT ![t] = IF FALSE THEN "syncing" ELSE "resuming"] /\ FALSE \in BOOLEAN
    BY <1>2 DEF WriteSome
  <2>2. pc[t] \in {"writing", "resuming"}
    BY <1>2 DEF WriteSome
  <2> QED BY <1>2, <2>1, <2>2, WriteKeeps DEF WriteSome
<1>3. ASSUME NEW t \in Threads, WriteRest(t) PROVE IInv'
  <2>1. pc' = [pc EXCEPT ![t] = IF TRUE THEN "syncing" ELSE "resuming"] /\ TRUE \in BOOLEAN
    BY <1>3 DEF WriteRest
  <2> QED BY <1>3, <2>1, WriteKeeps DEF WriteRest
<1>4. ASSUME NEW t \in Threads, Call(t) \/ Step(t) PROVE IInv'
  BY <1>2, <1>3, <1>4, CallKeeps, InstallKeeps, SyncDirectoryKeeps, InstallFailsKeeps,
     EnterKeeps, AbortKeeps, SyncKeeps DEF Step
<1> QED BY <1>1, <1>4, CloseKeeps, CrashKeeps, ReopenKeeps DEF Next

-------------------------------------------------------------------------------

\* The inductive invariant of the audit log.
THEOREM Inductive == Spec => []IInv
  BY InitHolds, StepKeeps, PTL DEF Spec

\* Every variable keeps its type; the lock and the places of the threads agree.
THEOREM TypeCorrect == Spec => []TypeOK
<1>1. IInv => TypeOK
  BY DEF IInv
<1> QED BY Inductive, <1>1, PTL

(* While no write or sync has failed, the file verifies between appends and the AuditLog
   object holds the position and the hash that the next record must link to, whatever the
   threads, the short writes, the crashes and the reopenings were. *)
THEOREM ChainStaysIntact == Spec => []ChainIntact
<1>1. IInv => ChainIntact
  <2> SUFFICES ASSUME IInv, log.state = "open", ~faulted, writer = Nobody
               PROVE  /\ Verifies(file) /\ log.sequence = Len(file)
                      /\ log.previous = LinkAfter(file, Len(file))
    BY DEF ChainIntact
  <2>1. \A t \in Threads : pc[t] \notin Holding
    BY NamesAssumption DEF IInv, TypeOK
  <2>2. Before = Len(file)
    BY <2>1 DEF Before, Holding
  <2>3. /\ \A i \in 1..Len(file) : Chained(file, i)
        /\ log.sequence = Len(file) /\ log.previous = LinkAfter(file, Len(file))
    BY <2>2 DEF IInv, ChainSoFar
  <2> QED BY <2>3 DEF Verifies, Chained
<1> QED BY Inductive, <1>1, PTL

(* A log that verifies holds every record whose append has returned, in the order of the
   returns, also after power was lost: append syncs before it returns. *)
THEOREM AckedIsKept == Spec => []VerifiedHoldsAcked
<1>1. IInv => VerifiedHoldsAcked
  <2> SUFFICES ASSUME IInv, Verifies(file) PROVE VerifiedHoldsAcked
    BY DEF VerifiedHoldsAcked
  <2>1. file \in Seq(Line) /\ acked \in Seq(Nat) /\ \A i \in 1..durable : i \in 1..Len(file)
    BY DEF IInv, TypeOK
  <2>2. DOMAIN file = 1..Len(file) /\ DOMAIN acked = 1..Len(acked)
    BY <2>1
  <2>3. ~Spoilt
    BY <2>1 DEF Spoilt, Verifies
  <2>4. (\A k \in 1..Len(acked) : Durably(acked[k])) /\ InOrder
    BY <2>3 DEF IInv, AckedKept
  <2>5. \A k \in 1..Len(acked) : \E j \in 1..Len(file) : file[j].record.hash = acked[k]
    BY <2>1, <2>4 DEF Durably
  <2>6. \A i, k \in 1..Len(acked) : \A j, l \in 1..Len(file) :
            file[j].record.hash = acked[i] /\ file[l].record.hash = acked[k] /\ i < k => j < l
    BY <2>4 DEF InOrder
  <2> QED BY <2>2, <2>5, <2>6 DEF VerifiedHoldsAcked
<1> QED BY Inductive, <1>1, PTL

(* As long as no power was lost, the output that a completion on record names is on disk:
   tool_completed installs it before it appends. *)
THEOREM ArtifactFirst == Spec => []CompletedHasArtifact
<1>1. IInv => CompletedHasArtifact
  BY DEF IInv
<1> QED BY Inductive, <1>1, PTL
===============================================================================
