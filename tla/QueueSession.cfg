SPECIFICATION Spec
CONSTANTS
    t1 = t1
    t2 = t2
    ama = ama
    kofi = kofi
    NoTab = NoTab
    NoUser = NoUser
    Tabs <- OneTab
    Users <- OneUser
    MaxEntries = 2
    MaxCrashes = 0
    MaxSignIns = 0
    Flaky = TRUE
    Outages = TRUE
    Aging = TRUE
    QuotaErrors = TRUE
SYMMETRY Symmetry
INVARIANTS TypeOK AcceptedNeverLost SyncedMeansRecorded
PROPERTIES HumanDecides
CHECK_DEADLOCK FALSE
