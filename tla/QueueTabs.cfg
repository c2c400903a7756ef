SPECIFICATION Spec
CONSTANTS
    t1 = t1
    t2 = t2
    ama = ama
    kofi = kofi
    NoTab = NoTab
    NoUser = NoUser
    Tabs <- TwoTabs
    Users <- OneUser
    MaxEntries = 1
    MaxCrashes = 2
    MaxSignIns = 0
    Flaky = TRUE
    Outages = FALSE
    Aging = TRUE
    QuotaErrors = TRUE
SYMMETRY Symmetry
INVARIANTS AcceptedNeverLost SyncedMeansRecorded
PROPERTIES KeepsOutbox
CHECK_DEADLOCK FALSE
