SPECIFICATION BountySpec
CONSTANTS
    merge = merge
    retry = retry
    d1 = d1
    d2 = d2
    pr = pr
    admin = admin
    author = author
    FeeBps = 0
    PaysFeeWallet = {}
    MergeEvent = {merge}
    Target <- MCTarget
    Author <- MCAuthor
    AmountSats <- MCAmounts
    Source = {merge, retry}
    Delivery = {d1}
    Command <- OneCommand
    QueryTimesOut = FALSE
    Faults <- NoFault
    MayDie = FALSE
INVARIANTS
    BountyPaysOnce
CHECK_DEADLOCK FALSE
