SPECIFICATION Spec
CONSTANTS
    zap = zap
    d1 = d1
    d2 = d2
    d3 = d3
    Delivery <- MCDeliveries
    Source = {zap}
    AmountSats <- MCOneAmount
    PaysFeeWallet = {}
    FeeBps = 200
    Faults <- PublishFails
    MayDie = FALSE
PROPERTIES
    FeeNeverAbortsZap
CHECK_DEADLOCK FALSE
