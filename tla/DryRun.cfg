SPECIFICATION Spec
CONSTANTS
    NoSRV = NoSRV
    NoMeta = NoMeta
    NoSpec = NoSpec
    NoHost = NoHost
    NoJob = NoJob
    Copies = {"c1"}
    Prov = {"p1", "p2", "p3"}
    Backends = {"b1", "b2", "b3"}
    Hosts = {"h1"}
    Types = {"A"}
    Targets = {"t1", "t2"}
    SRVs = {NoSRV}
    Metas = {NoMeta}
    Labels = {"web"}
    Ids = {"id1"}
    Specs <- PlainOnly
    Cfg <- ModesCfg
    Opt <- DryOpt
    InitialZone <- UsedZone
    InitialTxt <- UsedTxt
    ManualRecords = {}
    MaxFaults = 1
    MaxCrashes = 1
    MaxEdits = 0
    MaxWorkloadChanges = 2
    MaxRetargets = 0
    MaxToggles = 0
PROPERTIES
    DryRunWritesNothing
