SPECIFICATION Spec
CONSTANTS
    Services = {apid, etcd}
    MachineStatus = MachineStatus
    MaxVersion = 2
    MaxMoves = 1
    MaxSendFailures = 0
PROPERTY ServicesReported
CHECK_DEADLOCK FALSE
