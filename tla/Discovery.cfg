\* Six objects on five platforms, one change and two failed calls.
SPECIFICATION Spec
CONSTANTS
    Absent = Absent
    Words <- MCWords
    Underscored <- MCUnderscored
    MaxLabels = 4
    Listed <- MCListed
    DefaultEntryPoints <- NoEntryPoints
    ProxmoxCfg <- MCProxmoxCfg
    IncusCfg <- MCIncusCfg
    Routable = {"ip1", "ip2"}
    CleanupOnStop = TRUE
    DockerMode = "auto"
    KubernetesCfg <- MCKubernetesCfg
    Items <- MCItems
    PlatformOf <- MCPlatformOf
    Variants <- MCVariants
    Worlds <- MCWorlds
    FileOrder <- MCFileOrder
    Daemons <- MCDaemons
    ConnectTimeout = 2
    MaxBackoff = 10
    Instances <- MCInstances
    MaxChanges = 1
    MaxAttempts = 3
    MaxFaults = 2
INVARIANT TypeOK
INVARIANT NothingLost
INVARIANT NothingInvented
INVARIANT AddressesAreLive
PROPERTY Settles
CHECK_DEADLOCK FALSE
