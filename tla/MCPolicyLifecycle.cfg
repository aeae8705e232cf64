SPECIFICATION Spec

CONSTANTS
    v1 = v1
    v2 = v2
    v3 = v3
    production = production
    staging = staging
    ann = ann
    bob = bob
    release = release
    security = security
    Versions = {v1, v2, v3}
    NoVersion = NoVersion
    Compiles = {v1, v2}
    ExpiresAt <- MCExpiresAt
    Never = Never
    Environments = {production, staging}
    Production = production
    People = {ann, bob}
    Roles = {release, security}
    Ballots <- MCBallots
    ApproverRoles = {release, security}
    Threshold = 2
    Reasons = {"given", "blank"}
    MaxTime = 1

INVARIANTS
    TypeOK
    ActiveIsApproved
    ServedIsLive
    ExpiredStaysOut
    StatesAgree
    SupersededForEvidence
