SPECIFICATION Spec
CONSTANTS
    NoSRV = NoSRV
    NoMeta = NoMeta
    NoSpec = NoSpec
    NoHost = NoHost
    NoJob = NoJob
    Copies = {"c1"}
    Prov = {"p1", "p2"}
    Backends = {"b1", "b2"}
    Hosts = {"h1"}
    Types = {"A", "CNAME", "SRV"}
    Targets = {"t1", "t2"}
    SRVs = {NoSRV, "s1", "s2"}
    Metas = {NoMeta, "m1"}
    Labels = {"web", "int"}
    Ids = {"id1"}
    Specs <- HintSpecs
    Cfg <- HintCfg
    Opt <- SoloOpt
    InitialZone <- NoRecords
    InitialTxt <- NoRecords
    ManualRecords <- HintManual
    MaxFaults = 1
    MaxCrashes = 1
    MaxEdits = 1
    MaxWorkloadChanges = 2
    MaxRetargets = 0
    MaxToggles = 1
CHECK_DEADLOCK FALSE
INVARIANTS
    TypeOK
PROPERTIES
    WritesAreRouted
