SPECIFICATION FairSpec
CONSTANTS
    ama = ama
    kofi = kofi
    soap = soap
    NoUser = NoUser
    NoProduct = NoProduct
    Users <- TwoUsers
    MaxSignIns = 2
    MaxLoads = 1
    Products <- OneProduct
    Price <- Prices
    Views <- SoldOut
    Entered <- Forms
    MaxQty = 2
    MaxTaps = 2
INVARIANTS TypeOK CacheIsOwn ShownIsSignedIn PreviewIsReceipt OneSaleAtATime NoEmptySale ConfirmNotStuck CartIsItsCashiers
PROPERTIES NotLockedOut FinishTakesOnlyItsOwn LoadingEnds
CHECK_DEADLOCK FALSE
