SPECIFICATION FairSpec
CONSTANTS
    t1 = t1
    t2 = t2
    ama = ama
    kofi = kofi
    NoTab = NoTab
    NoUser = NoUser
    Tabs <- OneTab
    Users <- OneUser
    MaxEntries = 2
    MaxCrashes = 0
    MaxSignIns = 0
    Flaky = TRUE
    Outages = TRUE
    Aging = FALSE
    QuotaErrors = FALSE
PROPERTIES QueueDrains
CHECK_DEADLOCK FALSE
