SPECIFICATION FairSpec
CONSTANTS
    r1 = r1
    r2 = r2
    r3 = r3
    basket = basket
    bottle = bottle
    twoLines = twoLines
    stray = stray
    restock = restock
    delivery = delivery
    correction = correction
    expense = expense
    NoIntent = NoIntent
    Requests <- ThreeRequests
    Intents = {basket, bottle, twoLines, stray, restock, delivery, expense}
    Products <- ThreeProducts
    Stocked <- OneProduct
    Opening <- HalfStock
    Catalog <- TwoProducts
    Effect <- EffectOf
    Need <- NeedOf
    Slots = 2
    Unreliable = TRUE
INVARIANTS TypeOK AnswersAreTrue StockMatchesLedger CheckStillHolds
PROPERTIES KeepsLedger EveryRequestAnswered
CHECK_DEADLOCK FALSE
