SPECIFICATION FairSpec
CONSTANTS
    NoSRV = NoSRV
    NoMeta = NoMeta
    NoSpec = NoSpec
    NoHost = NoHost
    NoJob = NoJob
    Copies = {"c1"}
    Prov = {"p1", "p2"}
    Backends = {"b1"}
    Hosts = {"h1"}
    Types = {"A", "AAAA"}
    Targets = {"t1", "t2", "t6"}
    SRVs = {NoSRV}
    Metas = {NoMeta}
    Labels = {"web"}
    Ids = {"id1"}
    Specs <- PlainOnly
    Cfg <- DualCfg
    Opt <- SoloOpt
    InitialZone <- NoRecords
    InitialTxt <- NoRecords
    ManualRecords = {}
    MaxFaults = 0
    MaxCrashes = 0
    MaxEdits = 0
    MaxWorkloadChanges = 1
    MaxRetargets = 1
    MaxToggles = 0
PROPERTIES
    Converges
