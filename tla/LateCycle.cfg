SPECIFICATION Spec
CONSTANTS
    Main = Main
    Ticker = Ticker
    Nobody = Nobody
    w1 = w1
    p1 = p1
    c1 = c1
    c2 = c2
    Watchers = {w1}
    Pollers = {p1}
    Callbacks = {c1, c2}
    MaxChanges = 2
    MaxStreamErrors = 0
    MaxListErrors = 0
CHECK_DEADLOCK FALSE
SYMMETRY CallbackSymmetry
INVARIANTS
    NoCycleAfterWait
