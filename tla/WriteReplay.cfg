SPECIFICATION Spec
CONSTANTS
    r1 = r1
    r2 = r2
    r3 = r3
    basket = basket
    bottle = bottle
    twoLines = twoLines
    stray = stray
    restock = restock
    delivery = delivery
    correction = correction
    expense = expense
    NoIntent = NoIntent
    Requests <- ThreeRequests
    Intents = {basket}
    Products <- ThreeProducts
    Stocked <- TwoProducts
    Opening <- SomeStock
    Catalog <- TwoProducts
    Effect <- EffectOf
    Need <- NeedOf
    Slots = 3
    Unreliable = FALSE
SYMMETRY Symmetry
PROPERTIES RefusedMeansUnrecorded
CHECK_DEADLOCK FALSE
