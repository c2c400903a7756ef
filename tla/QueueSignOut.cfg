SPECIFICATION Spec
CONSTANTS
    t1 = t1
    t2 = t2
    ama = ama
    kofi = kofi
    NoTab = NoTab
    NoUser = NoUser
    Tabs <- OneTab
    Users <- OneUser
    MaxEntries = 1
    MaxCrashes = 0
    MaxSignIns = 1
    Flaky = TRUE
    Outages = TRUE
    Aging = FALSE
    QuotaErrors = FALSE
SYMMETRY Symmetry
PROPERTIES OnlyTheAuthorIsRefused
CHECK_DEADLOCK FALSE
