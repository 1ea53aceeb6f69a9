SPECIFICATION Spec
CONSTANTS
    Machines = {m1}
    Clusters = {c1}
    Roles = {"controlplane"}
    Callers = {k1}
    MemberIds = {d1, d2}
    NoCluster = NoCluster
    NoMember = NoMember
    MaxFailures = 1
PROPERTIES ControlPlaneRecovers
