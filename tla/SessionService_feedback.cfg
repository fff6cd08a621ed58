\* A retry while the rejected job is on its last statements.
SPECIFICATION Spec
CONSTANTS
    None = None
    ann = ann
    bob = bob
    Callers = {ann}
    MaxTrail = 2
    MaxTails = 1
    Faults = {}
INVARIANT
    RetryCarriesTheRejection
CHECK_DEADLOCK FALSE
