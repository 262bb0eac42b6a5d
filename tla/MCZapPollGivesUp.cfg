SPECIFICATION Spec
CONSTANTS
    zap = zap
    d1 = d1
    d2 = d2
    d3 = d3
    Delivery <- MCDeliveries
    Source = {zap}
    AmountSats <- MCOneAmount
    PaysFeeWallet = {}
    FeeBps = 0
    Faults <- VerifyFails
    MayDie = FALSE
PROPERTIES
    PollEndsSettledOrTimedOut
CHECK_DEADLOCK FALSE
