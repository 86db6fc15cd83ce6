\* Two reassignments at once.
SPECIFICATION RegistrationSpec
CONSTANTS
    c1 = c1
    a1 = a1
    a2 = a2
    Clients = {c1}
    Advisors = {a1, a2, a3}
    Requests = {r1, r2}
    Nobody = Nobody
    Seed = Seed
    First <- MCFirst
    Others <- MCOthers
    Kinds = {"reassign"}
    Leaving = {}
    Calls = {v1}
    NoAdvisor = NoAdvisor
    Faults = {}
    MaxDeaths = 1
    Attempts = 2
    q1 = q1
    q2 = q2
    q3 = q3
    Changes = {q3}
    ChangeKinds <- MCKinds
    Start <- MCStart
    RoleSets <- MCRoleSets
    MaxAttempts = 2
    LockFor = 1
    LinkFor = 1
    Horizon = 0
PROPERTY AuditTruthful
\* Calls and requests end.
CHECK_DEADLOCK FALSE
