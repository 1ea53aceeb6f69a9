SPECIFICATION Spec
CONSTANTS
    Requests = {r1, r2, r3}
    MaxSlot = 2
    Workers = {w1}
    Malformed = {r3}
    MaxFailures = 1
INVARIANTS ProvisionTypeOK RunningApart
PROPERTIES ImplementsLease RemovedGoes WantedRuns
CHECK_DEADLOCK FALSE
