SPECIFICATION ApprovalSpec

CONSTANTS
    release = release
    security = security
    finance = finance
    ann = ann
    bob = bob
    Roles = {release, security, finance}
    People = {ann, bob}
    NoIdentity = NoIdentity
    NoVote = NoVote
    Subjects = {pay, ship}
    Governance = {g1, g2}
    PolicyQuorums <- MCQuorums
    RolesOf <- MCRolesOf
    ValidUntil <- MCValidUntil
    RequireIdentity = TRUE
    Ttl = 2
    MaxTime = 3
    MaxRequests = 2

SYMMETRY MCSymmetry

INVARIANTS
    TypeOK
    RunsAreBacked
    SingleUse
    SnapshotRestorable

PROPERTY
    RequestsOnlyAdvance
