SPECIFICATION DesksSpec
CONSTANTS
    d1 = d1
    ana = ana
    rui = rui
    s1 = s1
    s2 = s2
    m1 = m1
    m2 = m2
    m3 = m3
    thanks = thanks
    sorry = sorry
    u1 = u1
    u2 = u2
    n1 = n1
    n2 = n2
    q1 = q1
    q2 = q2
    o1 = o1
    v1 = v1
    v2 = v2
    b1 = b1
    b2 = b2
    c1 = c1
    f1 = f1
    t1 = t1
    t2 = t2
    t3 = t3
    p1 = p1
    p2 = p2
    r1 = r1
    r2 = r2
    Transactions = {t1, t2}
    Payouts = {p1, p2}
    Releases = {r1, r2}
    Creators = {ana}
    Amounts = {1, 2}
    MinimumPayout = 1
    Desks = {"payouts", "payouts alone", "conversation", "direct messages", "reviews", "accounts", "agenda", "catalogue", "media"}
    TalkDeals = {d1}
    TalkIds = {m1, m2}
    TalkClientIds = {n1}
    TalkRequests = {q1, q2}
    GraceDays = 1
    MaxDay = 2
    MaxReads = 1
    People = {ana, rui}
    Authors = {rui}
    Sends = {s1, s2}
    ClientIds = {m1, m2, m3}
    Page = 2
    Days = {0, 6, 7}
    ReviewedDeals = {d1}
    Grades = {m1, m2}
    Answers = {thanks, sorry}
    ReviewRequests = {q1, q2}
    Persons = {u1, u2}
    Phones = {n1, n2}
    AccountRequests = {q1, q2}
    MaxVerifications = 2
    BookingOffers = {o1}
    Windows = {v1, v2}
    Bookings = {b1, b2}
    AgendaRequests = {q1, q2}
    MaxSlots = 1
    MaxTime = 2
    Sellers = {u1, u2}
    Handles = {n1}
    Items = {c1}
    CreatorOf <- MCCreatorOf
    Prices = {1, 2}
    CatalogueRequests = {q1, q2}
    Media = {f1}
    Contents = {c1}
    MediaOwner = u1
    Readers = {u2}
    Uploads = {q1}
    LinkLife = 1
    MaxClock = 1
    MaxLinks = 2
INVARIANTS
    DesksTypeOK
    NeverOverdrawn
    AloneTheBooksAgree
    ConversationIsOnRecord
    FreeMessagesAreAWeekApart
    OneAccountOnePending
    LevelIsDecided
    WindowsAreKeptAndShown
    PriceFollowsContent
    EveryMediaHasItsFile
    WithdrawnIsNotServed
PROPERTIES
    CancelNeverOverwritesADecision
    WhatIsPublishedStays
    HiddenUntilShown
CHECK_DEADLOCK FALSE
