\* Requests, decisions and conversations, with failures at every statement.
SPECIFICATION Spec
CONSTANTS
    r1 = r1
    r2 = r2
    d1 = d1
    d2 = d2
    x1 = x1
    x2 = x2
    c1 = c1
    c2 = c2
    Creates = {r1, r2}
    Opens = {o1}
    Decisions = {d1, d2}
    Directors = {x1, x2}
    Clients = {c1, c2}
    Bannable = {x1, x2}
    MaxCalls = 4
    Seed = Seed
    Nobody = Nobody
SYMMETRY Symmetry
INVARIANTS
    DecisionsHold
    TwoPendingNeedOverlap
    ConversationsHold
CHECK_DEADLOCK FALSE
