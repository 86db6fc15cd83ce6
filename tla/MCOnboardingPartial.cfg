\* A replica dies in the middle and the client verifies again.
SPECIFICATION RegistrationSpec
CONSTANTS
    c1 = c1
    a1 = a1
    a2 = a2
    Clients = {c1}
    Advisors = {a1, a2}
    Requests = {r1}
    Nobody = Nobody
    Seed = Seed
    First <- MCFirst
    Others <- MCOthers
    Kinds = {"reassign", "onboard"}
    Leaving = {}
    Calls = {v1, v2}
    NoAdvisor = NoAdvisor
    Faults = {"replica"}
    MaxDeaths = 1
    Attempts = 2
    q1 = q1
    q2 = q2
    q3 = q3
    Changes = {q3}
    ChangeKinds <- MCKinds
    Start <- MCStart
    RoleSets <- MCRoleSets
    MaxAttempts = 2
    LockFor = 1
    LinkFor = 1
    Horizon = 0
PROPERTY DossierCompleted
\* Calls and requests end.
CHECK_DEADLOCK FALSE
