SPECIFICATION Spec

CONSTANTS
    release = release
    security = security
    ann = ann
    bob = bob
    eve = eve
    k1 = k1
    k2 = k2
    k3 = k3
    k4 = k4
    pay = pay
    ship = ship
    Roles = {release, security}
    People = {ann, bob, eve}
    NoIdentity = NoIdentity
    NoVote = NoVote
    NoRecord = NoRecord
    Params = {pay, ship}
    RolesOf <- MCRolesOf
    Workers = {w1, w2}
    Keys = {k1, k2, k3, k4}
    Requests <- MCLifecycle
    Governance = {g1}
    Outcomes = {"allow", "block", "escalate"}
    Quorum <- MCQuorum
    Ttl = 1
    Deployments = {{pay, ship}}
    FailingSteps = {}
    MaxTime = 0
    MaxRevision = 3

SYMMETRY MCSymmetry

PROPERTY
    DeniedNeverExecutes
