SPECIFICATION Spec
CONSTANTS
    NoSRV = NoSRV
    NoMeta = NoMeta
    NoSpec = NoSpec
    NoHost = NoHost
    NoJob = NoJob
    Copies = {"c1", "c2"}
    Prov = {"p1", "p2"}
    Backends = {"b1"}
    Hosts = {"h1"}
    Types = {"A"}
    Targets = {"t1", "t2"}
    SRVs = {NoSRV}
    Metas = {NoMeta}
    Labels = {"web"}
    Ids = {"id1", "id2"}
    Specs <- PlainOnly
    Cfg <- TwinCfg
    Opt <- TwinOpt
    InitialZone <- NoRecords
    InitialTxt <- NoRecords
    ManualRecords = {}
    MaxFaults = 0
    MaxCrashes = 0
    MaxEdits = 0
    MaxWorkloadChanges = 3
    MaxRetargets = 0
    MaxToggles = 0
PROPERTIES
    CleanupSparesOtherCopies
