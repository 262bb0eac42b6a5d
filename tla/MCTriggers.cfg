SPECIFICATION TriggerSpec
CONSTANTS
    post = post
    reply = reply
    selfReply = selfReply
    reaction = reaction
    selfReaction = selfReaction
    d1 = d1
    author = author
    replier = replier
    reactor = reactor
    bot = bot
    Bot = bot
    MaxSize = 2
    Source = {reply, selfReply, reaction, selfReaction}
    Delivery = {d1}
    Message <- MCMessage
    ZapCommand = {reply}
    AgentReply = {reply, selfReply}
    Signer <- MCSigned
    Target <- MCTarget
    LinkCommand <- MCLinkCommand
    AgentKey = {author, replier}
    Unanswered = {replier, post}
    MayDie = TRUE
INVARIANTS
    ChargesAreDue
    ZapsGoToTheAuthor
    CachesAreSound
CHECK_DEADLOCK FALSE
