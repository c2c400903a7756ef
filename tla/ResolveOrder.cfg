SPECIFICATION Spec
CONSTANTS
    Sales <- TwoSales
    Products <- OneProduct
    Lines <- OrderLines
    Opening <- Shelf
    Refused <- RefusedSales
    MaxFixes = 1
    MaxClicks = 2
    MaxVisits = 2

PROPERTY ToppedUpIsNotRefused
CHECK_DEADLOCK FALSE
