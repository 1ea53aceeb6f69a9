SPECIFICATION SideroLinkSpec
CONSTANTS
    Uuids = {u1, u2}
    FirstUuid = u1
    Endpoints = 2
    MaxOverrides = 2
    MaxFailures = 1
INVARIANTS SideroLinkTypeOK IdleIsCurrent AddressTracked
PROPERTIES OneAddressArrives
