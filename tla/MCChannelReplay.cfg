SPECIFICATION ChannelSpec
CONSTANTS
    post = post
    reply = reply
    reaction = reaction
    d1 = d1
    d2 = d2
    author = author
    replier = replier
    reactor = reactor
    bot = bot
    Bot = bot
    MaxSize = 1
    Source = {reply}
    Delivery = {d1, d2}
    Message <- MCMessage
    ZapCommand = {}
    AgentReply = {reply}
    Signer <- MCSigned
    Target <- MCTarget
    LinkCommand <- MCLinkCommand
    AgentKey = {author, replier}
    Unanswered = {replier, post}
    AmountSats <- MCFifty
    FeeBps = 100
    PaysFeeWallet = {}
    Faults <- MCFaults
    MayDie = TRUE
PROPERTIES
    RepliesMintOnce
    RedeliveredReplyIsIgnored
    AgentIsSpared
CHECK_DEADLOCK FALSE
