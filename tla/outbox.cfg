SPECIFICATION FairSpec
CONSTANTS
    e1 = e1
    e2 = e2
    w1 = w1
    w2 = w2
    buyer = buyer
    creator = creator
    Events = {e1}
    Workers = {w1, w2}
    Buyer = buyer
    Creator = creator
    Types = {"deal.created", "message.created", "payment.captured", "identity.submitted"}
    Hours = {5, 9, 21, 23}
    MaxFaults = 2
INVARIANTS
    SentOnce
    ProcessedReachedEverybody
PROPERTIES
    NightIsSilent
    EventsAreProcessed
CHECK_DEADLOCK FALSE
