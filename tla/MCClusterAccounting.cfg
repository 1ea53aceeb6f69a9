SPECIFICATION AcctSpec
CONSTANTS
    Machines = {m1, m2}
    Clusters = {c1}
    Callers = {k1, k2}
    NoCluster = NoCluster
    NoMachine = NoMachine
    CounterMod = 8
    Discipline = {"machine", "cluster"}
    Aborts = {"reset", "bootstrap"}
    MaxAborts = 1
INVARIANTS TypeOK CountsCover MembersKeepCluster OnlyEmptyTornDown
PROPERTIES BootstrappedForLife ImplementsMembership EmptyClusterGoes
