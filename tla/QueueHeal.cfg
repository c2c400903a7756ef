SPECIFICATION FairSpec
CONSTANTS
    t1 = t1
    t2 = t2
    ama = ama
    kofi = kofi
    NoTab = NoTab
    NoUser = NoUser
    Tabs <- OneTab
    Users <- TwoUsers
    MaxEntries = 1
    MaxCrashes = 1
    MaxSignIns = 2
    Flaky = FALSE
    Outages = TRUE
    Aging = TRUE
    QuotaErrors = FALSE
PROPERTIES StrandedIsHealed HeldIsReleased
CHECK_DEADLOCK FALSE
