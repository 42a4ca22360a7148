SPECIFICATION ReconciliationFairSpec
CONSTANTS
    i1 = i1
    i2 = i2
    d1 = d1
    p1 = p1
    w1 = w1
    l1 = l1
    t1 = t1
    t2 = t2
    r1 = r1
    PaymentIntents = {i1}
    Deals = {d1}
    Payouts = {p1}
    Wallets = {w1}
    Postings = {l1}
    Tasks = {t1}
    Reviewers = {r1}
    DealPaid <- MCDealPaid
    MaxChanges = 2
    MaxCloses = 0
PROPERTIES
    DivergencesAreFound
CHECK_DEADLOCK FALSE
