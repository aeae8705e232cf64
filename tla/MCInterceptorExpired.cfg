SPECIFICATION Spec

CONSTANTS
    officer = officer
    agent = agent
    pay = pay
    refund = refund
    read = read
    lead = lead
    security = security
    human = human
    gate = gate
    probe = probe
    trace = trace
    k1 = k1
    Actors = {officer, agent}
    Capabilities = {pay, refund, read}
    Covered <- MCCovered
    Holds <- MCHolds
    LevelOf <- MCLevelOf
    ClassOf <- MCClassOf
    Fields = {"amount", "now"}
    Roles = {lead, security, human}
    HumanReviewer = human
    People = {}
    NoIdentity = NoIdentity
    NoVote = NoVote
    None = None
    Depths = {0}
    Expiries <- MCExpiries
    Never = Never
    Root = Root
    MaxTime = 1
    MaxGrants = 1
    Gates = {gate}
    Probes = {probe}
    TraceOf <- MCTraceOf
    Scopes <- MCScopes
    KnownRoles = {lead, security}
    Approvers = {"manager", "handler", "none"}
    Actions <- MCActions
    Budgets = {0}
    Priors <- MCPriors
    CallIds = {k1}
    NoId = NoId
    NoRun = NoRun
    Ttl = 1
    MaxRequests = 1
    MaxEvents = 3

PROPERTY
    ExpiredNeverExecutes
