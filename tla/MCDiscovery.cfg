SPECIFICATION DiscoverySpec
CONSTANTS
    Clusters = {a, b}
    Disabled = Disabled
    KubernetesOnly = KubernetesOnly
    NoConfig = NoConfig
    Self = Self
    MaxApplies = 2
    MaxFacts = 1
    MaxFailures = 1
INVARIANTS DiscoveryTypeOK QuietIsCurrent
PROPERTIES SettlesDown
CHECK_DEADLOCK FALSE
