\* Three faults anywhere.  Deadlock is checked: only what Ended names may stop.
CONSTANT MaxFaults = 3
SPECIFICATION Spec
INVARIANTS ReleasedIsReal LeftForAReason
PROPERTY Settles
