\* A retry between the two steps of a job that mirrors the status.
SPECIFICATION Spec
CONSTANTS
    None = None
    ann = ann
    bob = bob
    Callers = {ann}
    MaxTrail = 2
    MaxTails = 1
    Faults = {}
INVARIANT
    MirrorAtRest
CHECK_DEADLOCK FALSE
