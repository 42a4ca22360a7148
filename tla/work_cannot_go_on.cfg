SPECIFICATION Spec
CONSTANTS
    d1 = d1
    d2 = d2
    i1 = i1
    i2 = i2
    i3 = i3
    o1 = o1
    o2 = o2
    alice = alice
    Deals <- OneDeal
    Intents = {i1, i2}
    CounterOffers = {o1, o2}
    Buyers = {alice}
    BuyerOf <- OneBuyer
    WindowSlots = 1
    NoticesPerIntent = 2
    FeeBasisPoints = 500
    ProposalWindow = 1
    ApprovalWindow = 1
    LateGrace = 1
    RevisionsIncluded = 1
    Prices = {0, 105, 210}
    Slas = {1, 2}
INVARIANT WorkCanGoOn
CHECK_DEADLOCK FALSE
