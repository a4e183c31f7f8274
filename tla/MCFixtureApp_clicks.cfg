SPECIFICATION AppSpec
CONSTANTS
    a = a
    b = b
    Items = {a, b}
    Price <- MCPrice
    Slots = {r1, r2, r3}
    NoItem = none
    MaxClicks = 4
    MaxSessions = 2
    MaxCarts = 4
SYMMETRY SlotSymmetry
CHECK_DEADLOCK FALSE
INVARIANTS
    CartsAreExact
    LoggedOutForGood
    QuietShowsTruth
