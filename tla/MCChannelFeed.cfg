SPECIFICATION ChannelFairSpec
CONSTANTS
    post = post
    reply = reply
    reaction = reaction
    d1 = d1
    d2 = d2
    author = author
    replier = replier
    reactor = reactor
    bot = bot
    Bot = bot
    MaxSize = 1
    Source = {reply, reaction}
    Delivery = {d1}
    Message <- MCMessage
    ZapCommand = {}
    AgentReply = {reply}
    Signer <- MCSigned
    Target <- MCTarget
    LinkCommand <- MCLinkCommand
    AgentKey = {author, replier}
    Unanswered = {replier, post}
    AmountSats <- MCHundred
    FeeBps = 100
    PaysFeeWallet = {reply}
    Faults <- MCFaults
    MayDie = FALSE
INVARIANTS
    NoRowIsForgotten
PROPERTIES
    InvoicesAreDue
    TriggersEnd
    RowsClose
    SeenPaymentIsRecorded
CHECK_DEADLOCK FALSE
