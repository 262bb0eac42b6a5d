SPECIFICATION BountyFairSpec
CONSTANTS
    merge = merge
    retry = retry
    d1 = d1
    d2 = d2
    pr = pr
    admin = admin
    author = author
    FeeBps = 0
    PaysFeeWallet = {}
    MergeEvent = {merge}
    Target <- MCTarget
    Author <- MCAuthor
    AmountSats <- MCAmounts
    Source = {merge}
    Delivery = {d1, d2}
    Command <- OneCommand
    QueryTimesOut = TRUE
    Faults <- InvoiceFails
    MayDie = FALSE
INVARIANTS
    ExceptionsAreExplained
PROPERTIES
    RedeliveryMintsNothing
    SeenPaymentClosesBounty
CHECK_DEADLOCK FALSE
