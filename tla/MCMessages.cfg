\* Three requests on one conversation, failures at every statement.
SPECIFICATION Spec
CONSTANTS
    r1 = r1
    r2 = r2
    r3 = r3
    u1 = u1
    u2 = u2
    u3 = u3
    Requests = {r1, r2, r3}
    Users = {u1, u2, u3}
    Pair = {u1, u2}
    Actors = {u1, u2}
    Client = u1
    Settings <- MCSettings
    Kinds <- AllKinds
    Nobody = Nobody
SYMMETRY Symmetry
INVARIANTS
    HiddenFlagsHold
    UnreadAnnounced
    OneNotificationUnlessOverlap
\* Requests end.
CHECK_DEADLOCK FALSE
