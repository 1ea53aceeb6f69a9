SPECIFICATION Spec
CONSTANTS
    Services = {apid}
    MachineStatus = MachineStatus
    MaxVersion = 3
    MaxMoves = 2
    MaxSendFailures = 1
INVARIANTS EventTypeOK RecordedIsPublished
PROPERTIES RecordedNotResent StatusReported
CHECK_DEADLOCK FALSE
