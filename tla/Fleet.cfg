SPECIFICATION Spec
CONSTANTS
    NoSRV = NoSRV
    NoMeta = NoMeta
    NoSpec = NoSpec
    NoHost = NoHost
    NoJob = NoJob
    Copies = {"c1", "c2"}
    Prov = {"p1", "p2"}
    Backends = {"b1"}
    Hosts = {"h1"}
    Types = {"A"}
    Targets = {"t1", "t2"}
    SRVs = {NoSRV}
    Metas = {NoMeta}
    Labels = {"web"}
    Ids = {"id1", "id2"}
    Specs <- PlainOnly
    Cfg <- FleetCfg
    Opt <- FleetOpt
    InitialZone <- NoRecords
    InitialTxt <- NoRecords
    ManualRecords = {}
    MaxFaults = 1
    MaxCrashes = 1
    MaxEdits = 0
    MaxWorkloadChanges = 3
    MaxRetargets = 0
    MaxToggles = 0
INVARIANTS
    ManagedPurgesOnlyMarked
    OwnershipInv
    PurgesOnlyDiscovered
PROPERTIES
    ForeignMarkersKept
