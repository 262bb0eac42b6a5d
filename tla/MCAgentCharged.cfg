SPECIFICATION TriggerFairSpec
CONSTANTS
    post = post
    reply = reply
    selfReply = selfReply
    reaction = reaction
    selfReaction = selfReaction
    d1 = d1
    author = author
    replier = replier
    reactor = reactor
    bot = bot
    Bot = bot
    MaxSize = 1
    Source = {reply}
    Delivery = {d1}
    Message <- MCMessage
    ZapCommand = {}
    AgentReply = {reply}
    Signer <- MCSigned
    Target <- MCTarget
    LinkCommand = {}
    AgentKey = {author, replier}
    Unanswered = {author}
    MayDie = FALSE
PROPERTIES
    AgentIsNeverCharged
CHECK_DEADLOCK FALSE
