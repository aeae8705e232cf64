SPECIFICATION DelegationSpec

CONSTANTS
    officer = officer
    agent1 = agent1
    agent2 = agent2
    pay = pay
    payRefund = payRefund
    Actors = {officer, agent1, agent2}
    Capabilities = {pay, payRefund}
    Covered <- MCCovered
    Holds <- MCHolds
    Depths = {0, 1, 2}
    Expiries <- MCExpiries
    Never = Never
    Root = Root
    MaxTime = 1
    MaxGrants = 3

SYMMETRY MCSymmetry

INVARIANTS
    TypeOK
    AuthorityIsGrounded
    ChainsAttenuate
    NoActiveCycle
    SnapshotRestorable

PROPERTIES
    DeadStaysDead
    LossHasCause
