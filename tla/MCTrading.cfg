\* Orders that compete for one portfolio.
SPECIFICATION Spec
CONSTANTS
    u1 = u1
    u2 = u2
    o1 = o1
    o2 = o2
    o3 = o3
    Accounts <- MCPortfolios
    Portfolios <- MCPortfolios
    Owner <- MCOwner
    Opening <- MCOpening
    Assets = {"btc", "gold"}
    Supported = {"btc"}
    Held <- MCHeld
    Prices = {1, 6}
    Units = {1, 5}
    Scale = 4
    Orders = {o1, o2, o3}
    Lockers = {o1, o2, o3}
    Free = Free
    OrderRequests <- MCOrderRequests
    NoOrder = NoOrder
    Unread = Unread
SYMMETRY OrderSymmetry
INVARIANTS
    IInv
    BookHolds
    NeverOnCreditNorShort
PROPERTY ImplementsBrokerage
CHECK_DEADLOCK FALSE
