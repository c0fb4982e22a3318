\* A router on two entrypoints, an instance for each.
SPECIFICATION Spec
CONSTANTS
    Absent = Absent
    Words <- MCWords
    Underscored <- MCUnderscored
    MaxLabels = 4
    Listed <- MCListed
    DefaultEntryPoints <- NoEntryPoints
    ProxmoxCfg <- MCProxmoxCfg
    IncusCfg <- MCIncusCfg
    Routable = {"ip1", "ip2"}
    CleanupOnStop = TRUE
    DockerMode = "auto"
    KubernetesCfg <- MCKubernetesCfg
    Items <- MCItems
    PlatformOf <- MCPlatformOf
    Variants <- MCVariants
    Worlds <- MCWorlds
    FileOrder <- MCFileOrder
    Daemons <- MCDaemons
    ConnectTimeout = 2
    MaxBackoff = 10
    Instances <- MCInstances
    MaxChanges = 0
    MaxAttempts = 3
    MaxFaults = 0
CHECK_DEADLOCK FALSE
INVARIANT EntryPointsServed
