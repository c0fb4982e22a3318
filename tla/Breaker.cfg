SPECIFICATION Spec
CONSTANTS
    NoSRV = NoSRV
    NoMeta = NoMeta
    NoSpec = NoSpec
    NoHost = NoHost
    NoJob = NoJob
    Copies = {"c1"}
    Prov = {"p1"}
    Backends = {"b1"}
    h1 = h1
    h2 = h2
    h3 = h3
    h4 = h4
    Hosts = {h1, h2, h3, h4}
    Types = {"A"}
    Targets = {"t1", "t2"}
    SRVs = {NoSRV}
    Metas = {NoMeta}
    Labels = {"web"}
    Ids = {"id1"}
    Specs <- PlainOnly
    Cfg <- SoloCfg
    Opt <- UntrackedOpt
    InitialZone <- NoRecords
    InitialTxt <- NoRecords
    ManualRecords = {}
    MaxFaults = 0
    MaxCrashes = 0
    MaxEdits = 0
    MaxWorkloadChanges = 7
    MaxRetargets = 0
    MaxToggles = 0
SYMMETRY HostSymmetry
INVARIANTS
    LoopInv
    CleanupIsBounded
