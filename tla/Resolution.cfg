SPECIFICATION FairSpec
CONSTANTS
    Sales <- OneSale
    Products <- TwoProducts
    Lines <- MixedLines
    Opening <- MixedShelf
    Refused <- NoSale
    MaxFixes = 2
    MaxClicks = 2
    MaxVisits = 2
INVARIANTS TypeOK PlanCovers OneClickAtATime
PROPERTY TopUpGoesThrough
CHECK_DEADLOCK FALSE
