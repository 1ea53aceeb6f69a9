SPECIFICATION Spec
CONSTANTS
    Addresses = {a1, a2}
    NoAddress = NoAddress
    Certs = {x1, x2}
    NoCerts = NoCerts
    MaxChanges = 3
    MaxFailures = 1
INVARIANTS ApidTypeOK HealthyServes IssuedAreCurrent
PROPERTIES ApidServes RebootGoesDown
CHECK_DEADLOCK FALSE
