SPECIFICATION FairSpec
CONSTANTS
    Main = Main
    Ticker = Ticker
    Nobody = Nobody
    w1 = w1
    p1 = p1
    c1 = c1
    c2 = c2
    Watchers = {w1}
    Pollers = {p1}
    Callbacks = {c1}
    MaxChanges = 1
    MaxStreamErrors = 1
    MaxListErrors = 1
CHECK_DEADLOCK FALSE
INVARIANTS
    TypeOK
    OneReconciliation
    OnlyStraysLate
PROPERTIES
    ChangesCovered
    ShutdownCompletes
