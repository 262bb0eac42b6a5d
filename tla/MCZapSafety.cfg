SPECIFICATION Spec
CONSTANTS
    zap = zap
    d1 = d1
    d2 = d2
    d3 = d3
    Delivery <- MCThreeDeliveries
    Source = {zap}
    AmountSats <- MCOneAmount
    PaysFeeWallet = {}
    FeeBps = 200
    Faults <- AnyFault
    MayDie = TRUE
SYMMETRY MCSymmetry
INVARIANTS
    TypeOK
    AtMostOneInvoice
    ReceiptBacked
    PaidIsAttested
    OutcomeMatchesRow
    FeeBacked
PROPERTIES
    ImplementsLedger
    ImplementsCalls
CHECK_DEADLOCK FALSE
