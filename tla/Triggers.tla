------------------------------ MODULE Triggers ------------------------------
(***************************************************************************)
(* The triggers of the channel feed (src/index.ts): a message is a /zap    *)
(* command, a /link command, or the reply of an agent, which charges the   *)
(* author of the message it answers, unless that is found to be an agent;  *)
(* a reaction zaps the author of its target.                               *)
(*                                                                         *)
(* A run <<source event, delivery>> is one handler at work on one delivery *)
(* of an event: handleChannelMessage, handleAgentReply or handleReaction.  *)
(* It asks the caches and the relay who is who, and ends in a call of      *)
(* runZapFlow or in nothing.  An action is the stretch between two awaits; *)
(* the one-shot queries of RelayQuery appear here as their answers.        *)
(***************************************************************************)
EXTENDS ZapCall, BoundedCache

CONSTANTS
    Message,         \* channel messages
    ZapCommand,      \* the sources that are /zap commands
    AgentReply,      \* the sources that are threaded replies (NIP-10)
    Signer,          \* the pubkey that signed each event
    Target,          \* the message a reply or a reaction points to
    Bot,             \* the bot's own pubkey
    LinkCommand,     \* the /link commands posted in the channel
    AgentKey,        \* the pubkeys that may publish an agent profile
    Unanswered       \* pubkeys and messages a query about may time out

Event == Message \cup Source
Reaction == Source \ (ZapCommand \cup AgentReply)
Pubkey == {Signer[e] : e \in Event} \cup {c.by : c \in LinkCommand}

ASSUME MessageAssumption == ZapCommand \cup AgentReply \subseteq Message \cap Source
ASSUME SignerAssumption == DOMAIN Signer = Event
ASSUME TargetAssumption == Target \in [AgentReply \cup Reaction -> Message]

VARIABLES
    links,           \* the user_links table
    agents,          \* pubkeys with a profile (kind 10100) on the relay (external)
    authorCache,     \* MessageAuthorCache: message -> pubkey
    agentCache,      \* AgentPubkeyCache: pubkey -> is an agent
    handler,         \* where each run is
    held,            \* whether the relay held the profile a run asks for, when asked
    party,           \* the author of the target, as the run knows it
    payee            \* the LaWallet username a reaction zaps

triggerVars == <<links, agents, authorCache, agentCache, handler, held, party, payee>>
allVars == <<callVars, triggerVars>>

\* A pubkey is 64 hexadecimal digits.
Nobody == "nobody"
ASSUME NobodyAssumption == Nobody \notin Pubkey

NoName == "no name"
Username == {c.name : c \in LinkCommand}

\* The awaits of the handlers outside runZapFlow.
Asking == {"askSender", "fetchTarget", "askInvoker"}

TriggerTypeOK ==
    /\ called \subseteq Flow
    /\ rows \subseteq called
    /\ links \in [Pubkey -> Username \cup {NoName}]
    /\ agents \subseteq AgentKey
    /\ authorCache \in Seq([key : Event, value : Pubkey])
    /\ agentCache \in Seq([key : Pubkey, value : BOOLEAN])
    /\ handler \in [Flow -> {"idle", "flow", "done"} \cup Asking]
    /\ held \in [Flow -> BOOLEAN]
    /\ party \in [Flow -> Pubkey \cup {Nobody}]
    /\ payee \in [Flow -> Username \cup {NoName}]

TriggerInit ==
    /\ CallInit
    /\ links = [p \in Pubkey |-> NoName]
    /\ agents = {}
    /\ authorCache = EmptyCache
    /\ agentCache = EmptyCache
    /\ handler = [f \in Flow |-> "idle"]
    /\ held = [f \in Flow |-> FALSE]
    /\ party = [f \in Flow |-> Nobody]
    /\ payee = [f \in Flow |-> NoName]

-----------------------------------------------------------------------------
(* The world outside, and what else the feed brings.                       *)

PublishProfile(p) ==
    /\ agents' = agents \cup {p}
    /\ UNCHANGED <<callVars, links, authorCache, agentCache, handler, held, party, payee>>

\* handleLinkCommand.  A /link is handled again whenever the relay replays the
\* channel, in whatever order: the row is that of the last one handled.
HandleLink(c) ==
    /\ links' = [links EXCEPT ![c.by] = c.name]
    /\ UNCHANGED <<callVars, agents, authorCache, agentCache, handler, held, party, payee>>

RemembersAuthor(m) == authorCache' = CacheSet(authorCache, m, Signer[m])

HandleOtherMessage(m) ==
    /\ RemembersAuthor(m)
    /\ UNCHANGED <<callVars, links, agents, agentCache, handler, held, party, payee>>

-----------------------------------------------------------------------------
(* Parts of the handlers.                                                  *)

NeverSeen(s) == FALSE
HasSourceEvent(s) == HasRow(s)

Sender(f) == Signer[Src(f)]
TargetAuthor(f) == Signer[Target[Src(f)]]

Goes(f, stage, asked) ==
    /\ handler' = [handler EXCEPT ![f] = stage]
    /\ held' = [held EXCEPT ![f] = asked]

Skips(f) ==
    /\ Goes(f, "done", FALSE)
    /\ UNCHANGED callVars

\* hasAgentProfile is asked; whether the profile was there decides what the
\* relay may answer.
Asks(f, stage, p) ==
    /\ Goes(f, stage, p \in agents)
    /\ UNCHANGED callVars

Runs(f) ==
    /\ Call(f)
    /\ Goes(f, "flow", FALSE)

AnswersOnlyYes(f, p) == {answer \in {TRUE} : p \in agents}
TrustsTimeout(f, p) ==
    {answer \in BOOLEAN : IF answer THEN p \in agents \cup Unanswered ELSE ~held[f]}

\* What hasAgentProfile may resolve to: a profile that was there when it was
\* asked for is found, unless the query times out (RelayQuery, NothingIsMissed).
Answers(f, p) ==
    {answer \in BOOLEAN :
        IF answer THEN p \in agents ELSE ~held[f] \/ p \in Unanswered}

ChargesWhomever(f, p, known) ==
    /\ party' = [party EXCEPT ![f] = p]
    /\ \/ /\ p \in {Sender(f), Bot}
          /\ Skips(f)
       \/ /\ p \notin {Sender(f), Bot}
          /\ Runs(f)
    /\ UNCHANGED payee

\* The end of handleAgentReply, once it knows who wrote the message the agent
\* answers; "known" is what the agent cache holds by then.
ChargesInvoker(f, p, known) ==
    /\ party' = [party EXCEPT ![f] = p]
    /\ \/ /\ p \in {Sender(f), Bot} \/ Knows(known, p, TRUE)
          /\ Skips(f)
       \/ /\ p \notin {Sender(f), Bot}
          /\ ~HasKey(known, p)
          /\ Asks(f, "askInvoker", p)
       \/ /\ p \notin {Sender(f), Bot}
          /\ Knows(known, p, FALSE)
          /\ Runs(f)
    /\ UNCHANGED payee

ZapsUnlinked(f, p) ==
    /\ party' = [party EXCEPT ![f] = p]
    /\ payee' = [payee EXCEPT ![f] = links[p]]
    /\ IF p = Sender(f) THEN Skips(f) ELSE Runs(f)

\* The end of handleReaction; the link is read right before the call.
ZapsAuthor(f, p) ==
    /\ party' = [party EXCEPT ![f] = p]
    /\ \/ /\ p = Sender(f) \/ links[p] = NoName
          /\ Skips(f)
          /\ UNCHANGED payee
       \/ /\ p # Sender(f)
          /\ links[p] # NoName
          /\ payee' = [payee EXCEPT ![f] = links[p]]
          /\ Runs(f)

FetchesTarget(f) ==
    /\ Goes(f, "fetchTarget", FALSE)
    /\ UNCHANGED <<callVars, party, payee>>

\* The sender is an agent: who wrote the message it answers?
FindsInvoker(f, authorsNow, known) ==
    \/ /\ ~HasKey(authorsNow, Target[Src(f)])
       /\ FetchesTarget(f)
    \/ \E p \in Pubkey :
          /\ Knows(authorsNow, Target[Src(f)], p)
          /\ ChargesInvoker(f, p, known)

-----------------------------------------------------------------------------
(* The handlers.                                                           *)

HandleZapCommand(f) ==
    /\ handler[f] = "idle"
    /\ Src(f) \in ZapCommand
    /\ RemembersAuthor(Src(f))
    /\ Runs(f)
    /\ UNCHANGED <<links, agents, agentCache, party, payee>>

HandleAgentReply(f) ==
    /\ handler[f] = "idle"
    /\ Src(f) \in AgentReply
    /\ RemembersAuthor(Src(f))
    /\ \/ /\ HasSourceEvent(Src(f)) \/ Knows(agentCache, Sender(f), FALSE)
          /\ Skips(f)
          /\ UNCHANGED <<party, payee>>
       \/ /\ ~HasSourceEvent(Src(f))
          /\ ~HasKey(agentCache, Sender(f))
          /\ Asks(f, "askSender", Sender(f))
          /\ UNCHANGED <<party, payee>>
       \/ /\ ~HasSourceEvent(Src(f))
          /\ Knows(agentCache, Sender(f), TRUE)
          /\ FindsInvoker(f, authorCache', agentCache)
    /\ UNCHANGED <<links, agents, agentCache>>

\* resolveIsAgent caches the answer, also one that is only a timeout.
SenderAnswered(f) ==
    /\ handler[f] = "askSender"
    /\ \E answer \in Answers(f, Sender(f)) :
          /\ agentCache' = CacheSet(agentCache, Sender(f), answer)
          /\ \/ /\ ~answer
                /\ Skips(f)
                /\ UNCHANGED <<party, payee>>
             \/ /\ answer
                /\ FindsInvoker(f, authorCache, agentCache')
    /\ UNCHANGED <<links, agents, authorCache>>

InvokerAnswered(f) ==
    /\ handler[f] = "askInvoker"
    /\ \E answer \in Answers(f, party[f]) :
          /\ agentCache' = CacheSet(agentCache, party[f], answer)
          /\ \/ answer /\ Skips(f)
             \/ ~answer /\ Runs(f)
    /\ UNCHANGED <<links, agents, authorCache, party, payee>>

HandleReaction(f) ==
    /\ handler[f] = "idle"
    /\ Src(f) \in Reaction
    /\ \/ /\ ~HasKey(authorCache, Target[Src(f)])
          /\ FetchesTarget(f)
       \/ \E p \in Pubkey :
             /\ Knows(authorCache, Target[Src(f)], p)
             /\ ZapsAuthor(f, p)
    /\ UNCHANGED <<links, agents, authorCache, agentCache>>

\* fetchEventById has found the target, for either handler.
TargetFetched(f) ==
    /\ handler[f] = "fetchTarget"
    /\ RemembersAuthor(Target[Src(f)])
    /\ \/ /\ Src(f) \in AgentReply
          /\ ChargesInvoker(f, TargetAuthor(f), agentCache)
       \/ /\ Src(f) \in Reaction
          /\ ZapsAuthor(f, TargetAuthor(f))
    /\ UNCHANGED <<links, agents, agentCache>>

TargetNotFetched(f) ==
    /\ handler[f] = "fetchTarget"
    /\ Target[Src(f)] \in Unanswered
    /\ Skips(f)
    /\ UNCHANGED <<links, agents, authorCache, agentCache, party, payee>>

\* The flow goes its own way (ZapFlow); its callers meet it again in the row.
FlowInsertsRow(f) ==
    /\ handler[f] = "flow"
    /\ InsertRow(f)
    /\ UNCHANGED triggerVars

\* The caches are in memory, the tables are not.
TriggersDie ==
    /\ MayDie
    /\ authorCache' = EmptyCache
    /\ agentCache' = EmptyCache
    /\ handler' = [f \in Flow |-> IF handler[f] = "idle" THEN "idle" ELSE "done"]
    /\ held' = [f \in Flow |-> FALSE]
    /\ UNCHANGED <<callVars, links, agents, party, payee>>

QueryEnds(f) ==
    \/ SenderAnswered(f)
    \/ InvokerAnswered(f)
    \/ TargetFetched(f)
    \/ TargetNotFetched(f)

TriggerNext ==
    \/ \E p \in AgentKey : PublishProfile(p)
    \/ \E c \in LinkCommand : HandleLink(c)
    \/ \E m \in Message \ Source : HandleOtherMessage(m)
    \/ \E f \in Flow :
          \/ HandleZapCommand(f)
          \/ HandleAgentReply(f)
          \/ HandleReaction(f)
          \/ QueryEnds(f)
          \/ FlowInsertsRow(f)
    \/ TriggersDie

TriggerSpec == TriggerInit /\ [][TriggerNext]_allVars

\* A query to the relay ends, by its timer if by nothing else (RelayQuery,
\* EveryCallEnds).
TriggerFairSpec == TriggerSpec /\ \A f \in Flow : WF_allVars(QueryEnds(f))

-----------------------------------------------------------------------------
(* Properties.                                                             *)

ReplyRun == {f \in Flow : Src(f) \in AgentReply}
ReactionRun == {f \in Flow : Src(f) \in Reaction}

RunsReply(f) == Src(f) \in AgentReply /\ f \in called /\ party[f] # Nobody
RunsReaction(f) == Src(f) \in Reaction /\ f \in called

\* Only the reply of a pubkey that has an agent profile charges anybody, and
\* whom it charges wrote the message it answers and is neither that agent nor
\* the bot: whatever the caches have evicted, and whichever queries timed out.
ChargesAreDue ==
    \A f \in Flow : RunsReply(f) =>
        /\ Sender(f) \in agents
        /\ party[f] = TargetAuthor(f)
        /\ party[f] \notin {Sender(f), Bot}

\* A reaction zaps the author of its target, never the one who reacted, under
\* a username that this author signed, in whatever order the relay replays the
\* /link commands.
ZapsGoToTheAuthor ==
    \A f \in Flow : RunsReaction(f) =>
        /\ party[f] = TargetAuthor(f)
        /\ party[f] # Sender(f)
        /\ \E c \in LinkCommand : c.by = party[f] /\ c.name = payee[f]

\* The caches stay within their size and never hold a wrong author; that a
\* pubkey is an agent is cached only of one that is.
CachesAreSound ==
    /\ CacheOK(authorCache)
    /\ CacheOK(agentCache)
    /\ \A i \in DOMAIN authorCache : authorCache[i].value = Signer[authorCache[i].key]
    /\ \A i \in DOMAIN agentCache : agentCache[i].value => agentCache[i].key \in agents

Asked(p) ==
    \E f \in Flow :
        \/ handler[f] = "askSender" /\ p = Sender(f)
        \/ handler[f] = "askInvoker" /\ p = party[f]

\* An agent whose profile was on the relay before the bot first asked for it is
\* charged by no reply from then on, as long as queries about it are answered.
AgentIsSpared ==
    \A f \in ReplyRun, p \in AgentKey \ Unanswered :
        []((p \in agents /\ ~HasKey(agentCache, p) /\ ~Asked(p) /\ f \notin called)
               => []~(RunsReply(f) /\ party[f] = p))

\* The reply of an agent that is delivered again after its row was inserted
\* does not start another flow (hasSourceEvent).
RedeliveredReplyIsIgnored ==
    \A f \in ReplyRun :
        []((handler[f] = "idle" /\ HasRow(Src(f))) => []~RunsReply(f))

-----------------------------------------------------------------------------
(* What the README says, and the code does not do.                         *)

\* "Ignora si el que invoco ... tambien tiene perfil de agente - evita cobrar
\* cadenas agente-a-agente" (README): a reply delivered when the author of its
\* target has an agent profile does not charge that author.
AgentIsNeverCharged ==
    \A f \in ReplyRun, p \in AgentKey :
        []((handler[f] = "idle" /\ p \in agents) => []~(RunsReply(f) /\ party[f] = p))
=============================================================================
