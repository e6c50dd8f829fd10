----------------------------- MODULE HostResources -----------------------------
(* What a run owns on its host besides processes: the layers that a mount of disk evidence
   stacks up, and how _cleanup_owned_resources and its relatives in evidence.py take them
   down.  The state that the mount worker and the forensic workers share is here too: the
   wall deadline, and what processes nobody can kill keep open. *)
EXTENDS Naturals, Sequences, FiniteSets, SequencesExt

CONSTANT MaxFaults   \* bound on failures, crashes, interrupts and stray processes

ASSUME HostAssumption == MaxFaults \in Nat

VARIABLES
    active,    \* layers of this run that are active: loop, dm, mount
    astray,    \* what descendants outside every worker's group keep open: pipe, mount
    capped,    \* the wall deadline has passed, so that budget.check raises
    refused,   \* history: a command that was to release a layer has failed
    faults

host == <<active, astray, capped, refused, faults>>

Layers == {"loop", "dm", "mount"}

\* The layers of a method; a mount of mount(8) looks after its own loop device.
Needs(method) == IF method = "dmpad" THEN Layers ELSE {"mount"}

\* A layer lies on the one before it.
Lowest(layers) ==
    IF "loop" \in layers THEN "loop" ELSE IF "dm" \in layers THEN "dm" ELSE "mount"

HostInit == active = {} /\ astray = {} /\ capped = FALSE /\ refused = FALSE /\ faults = 0

Fault == faults < MaxFaults /\ faults' = faults + 1

Busy == {"mount"} = active \cap astray

\* umount, dmsetup remove, losetup -d in this order: none of them gets past a layer that is
\* still there, because it is busy or because its command has failed.
TakeDown ==
    \/ /\ active' = IF Busy THEN active ELSE {}
       /\ refused' = (refused \/ Busy) /\ UNCHANGED faults
    \/ /\ Fault /\ active # {}
       /\ active' \in {active, active \ {"mount"}, active \ {"mount", "dm"}} \ {{}}
       /\ refused' = TRUE

\* The verdict of _cleanup_owned_resources; loop devices count for dmpad only.
OwnedReleased(method) ==
    /\ active \cap {"mount", "dm"} = {}
    /\ method = "dmpad" => "loop" \notin active

\* The wall deadline passes.
Deadline ==
    /\ ~capped /\ capped' = TRUE
    /\ UNCHANGED <<active, astray, refused, faults>>

===============================================================================
