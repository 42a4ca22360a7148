SPECIFICATION OverwriteSpec
CONSTANTS
    t1 = t1
    t2 = t2
    t3 = t3
    d1 = d1
    d2 = d2
    i1 = i1
    i2 = i2
    Deals = {d1}
    Intents = {i1}
    Transactions = {t1, t2}
    Uses = {"pay", "capture", "accept", "deliver", "approve", "openDispute", "resolveForBuyer"}
    MaxDisputes = 1
    MaxVersions = 2
    WindowSlots = 1
    FeeBasisPoints = 1000
    ProposalWindow = 1
    ApprovalWindow = 1
    LateGrace = 0
    RevisionsIncluded = 1
    Prices = {10}
    Slas = {1}
SYMMETRY TransactionSymmetry
INVARIANTS
    EscrowMovesOnce
CHECK_DEADLOCK FALSE
