SPECIFICATION AcctInitNext
CONSTANTS
    Machines = {m1, m2}
    Clusters = {c1}
    Callers = {k1, k2}
    NoCluster = NoCluster
    NoMachine = NoMachine
    CounterMod = 8
    Discipline = {"machine"}
    Aborts = {}
    MaxAborts = 0
SYMMETRY Symmetry
INVARIANTS OnlyEmptyTornDown
