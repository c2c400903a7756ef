SPECIFICATION FairSpec
CONSTANTS
    Products <- FourProducts
    Start <- ThreeProducts
    PageSize = 2
    MaxPages = 3
    MaxEntries = 2
    MaxChanges = 1
    MaxLoads = 2
INVARIANTS TypeOK KeptOffline
CHECK_DEADLOCK FALSE
PROPERTIES PriceConverges UpdateIsOffered
