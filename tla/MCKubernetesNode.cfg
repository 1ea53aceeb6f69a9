SPECIFICATION Spec
CONSTANTS
    PodKinds = 2
    MaxJoins = 2
    MaxNames = 2
    MaxDisturbances = 1
INVARIANTS KubernetesTypeOK ResetLeavesNothing RegisteredAsIs
PROPERTIES ResetEnds
CHECK_DEADLOCK FALSE
