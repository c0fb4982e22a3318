SPECIFICATION FairSpec
CONSTANTS
    NoSRV = NoSRV
    NoMeta = NoMeta
    NoSpec = NoSpec
    NoHost = NoHost
    NoJob = NoJob
    Copies = {"c1"}
    Prov = {"p1", "p2", "p3"}
    Backends = {"b1", "b2"}
    Hosts = {"h1"}
    Types = {"A"}
    Targets = {"t1", "t2"}
    SRVs = {NoSRV}
    Metas = {NoMeta}
    Labels = {"web"}
    Ids = {"id1"}
    Specs <- PlainOnly
    Cfg <- SharedCfg
    Opt <- SoloOpt
    InitialZone <- NoRecords
    InitialTxt <- NoRecords
    ManualRecords <- ManualA
    MaxFaults = 1
    MaxCrashes = 1
    MaxEdits = 1
    MaxWorkloadChanges = 1
    MaxRetargets = 1
    MaxToggles = 0
PROPERTIES
    Converges
    Quiesces
