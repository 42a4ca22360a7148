SPECIFICATION Spec
CONSTANTS
    e1 = e1
    e2 = e2
    w1 = w1
    w2 = w2
    buyer = buyer
    creator = creator
    Events = {e1, e2}
    Workers = {w1}
    Buyer = buyer
    Creator = creator
    Types = {"deal.created"}
    Hours = {9, 23}
    MaxFaults = 0
INVARIANTS
    SuspensionIsTold
CHECK_DEADLOCK FALSE
