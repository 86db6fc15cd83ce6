\* Transfers and orders on the same rows.
SPECIFICATION FairBankSpec
CONSTANTS
    u1 = u1
    u2 = u2
    k1 = k1
    a1 = a1
    a2 = a2
    o1 = o1
    Accounts <- MCAccounts
    Owner <- MCOwner
    Kind <- MCKind
    Rank <- MCRank
    Opening <- MCOpening
    Keys = {k1}
    NoKey = NoKey
    NoAccount = NoAccount
    Attempts = {a1, a2}
    Lockers = {a1, a2, o1}
    Free = Free
    Requests <- MCRequests
    NoRequest = NoRequest
    UpdateShapes = {"rows", "pair"}
    NotANumber = NotANumber
    Unwritten = Unwritten
    Portfolios = {"i1"}
    Assets = {"btc"}
    Supported = {"btc"}
    Held <- MCHeld
    Prices = {4}
    Units = {1}
    Scale = 1
    Orders = {o1}
    OrderRequests <- MCOrderRequests
    NoOrder = NoOrder
    Unread = Unread
INVARIANT
    MoneyExplained
PROPERTY
    EverythingEnds
CHECK_DEADLOCK FALSE
