SPECIFICATION Spec
CONSTANTS
    d1 = d1
    d2 = d2
    i1 = i1
    i2 = i2
    i3 = i3
    o1 = o1
    o2 = o2
    alice = alice
    Deals <- TwoDeals
    Intents = {i1, i2}
    CounterOffers = {o1}
    Buyers = {alice}
    BuyerOf <- OneBuyer
    WindowSlots = 1
    NoticesPerIntent = 1
    FeeBasisPoints = 500
    ProposalWindow = 1
    ApprovalWindow = 0
    LateGrace = 0
    RevisionsIncluded = 0
    Prices = {105}
    Slas = {1, 2}
SYMMETRY DealSymmetry
INVARIANTS
    SlotsTakenByBookings
    ContentIsPaidOnce
CHECK_DEADLOCK FALSE
