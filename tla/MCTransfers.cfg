\* The contract of the transfer path, with either result shape of the driver.
SPECIFICATION Spec
CONSTANTS
    u1 = u1
    u2 = u2
    k1 = k1
    a1 = a1
    a2 = a2
    a3 = a3
    Accounts <- MCAccounts
    Owner <- MCOwner
    Kind <- MCKind
    Rank <- MCRank
    Opening <- MCOpening
    Keys = {k1}
    NoKey = NoKey
    NoAccount = NoAccount
    Attempts = {a1, a2, a3}
    Lockers = {a1, a2, a3}
    Free = Free
    Requests <- MCRequests
    NoRequest = NoRequest
    UpdateShapes = {"rows", "pair"}
    NotANumber = NotANumber
    Unwritten = Unwritten
SYMMETRY Symmetry
INVARIANTS
    IInv
    NoOverdraft
    LedgerAddsUp
    KeyOnce
    AnswersMatchLedger
PROPERTY ImplementsMoneyLedger
CHECK_DEADLOCK FALSE
