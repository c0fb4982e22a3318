SPECIFICATION FairSpec
CONSTANTS
    NoSRV = NoSRV
    NoMeta = NoMeta
    NoSpec = NoSpec
    NoHost = NoHost
    NoJob = NoJob
    Copies = {"c1"}
    Prov = {"p1"}
    Backends = {"b1"}
    Hosts = {"h1", "h2"}
    Types = {"A"}
    Targets = {"t1", "t2"}
    SRVs = {NoSRV}
    Metas = {NoMeta}
    Labels = {"web"}
    Ids = {"id1"}
    Specs <- PlainOnly
    Cfg <- SoloCfg
    Opt <- SoloOpt
    InitialZone <- NoRecords
    InitialTxt <- NoRecords
    ManualRecords = {}
    MaxFaults = 0
    MaxCrashes = 0
    MaxEdits = 0
    MaxWorkloadChanges = 4
    MaxRetargets = 0
    MaxToggles = 0
PROPERTIES
    OrphansGone
