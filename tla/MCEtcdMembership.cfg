SPECIFICATION Spec
CONSTANTS
    Machines = {m1}
    Clusters = {c1}
    Roles = {"controlplane", "worker"}
    Callers = {k1}
    MemberIds = {d1, d2}
    NoCluster = NoCluster
    NoMember = NoMember
    MaxFailures = 2
INVARIANTS EtcdTypeOK PublishedIsLocal
PROPERTIES ControlPlaneServes RemovedGoesUnhealthy
