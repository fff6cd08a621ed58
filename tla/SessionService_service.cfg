\* Two callers at once, writes that fail, restarts; long enough for all three gates.
SPECIFICATION Spec
CONSTANTS
    None = None
    ann = ann
    bob = bob
    Callers = {ann, bob}
    MaxTrail = 4
    MaxTails = 1
    Faults = {"write", "restart"}
SYMMETRY MCCallers
INVARIANTS
    OneCrewPerFlow
    DeletedStaysDeleted
    RunsAreOnRecord
PROPERTIES
    TrailOnDiskGrows
    SignedOffIsKept
CHECK_DEADLOCK FALSE
