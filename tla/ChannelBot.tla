----------------------------- MODULE ChannelBot -----------------------------
(***************************************************************************)
(* The channel feed from the event to the receipt: the triggers (Triggers) *)
(* and the flow they end in (ZapFlow), in one process and over one table.  *)
(* A handler calls runZapFlow in the same stretch as its last decision     *)
(* (src/index.ts hands every event to its handlers without waiting), from  *)
(* where the flow runs by itself.  "called" and "rows" are what the        *)
(* triggers see of the flow: that an execution has begun, and its row.     *)
(***************************************************************************)
EXTENDS ZapFlow, Triggers

channelVars == <<vars, allVars>>

ChannelInit == Init /\ TriggerInit

-----------------------------------------------------------------------------

\* What happens in front of the flow: profiles, links, other messages.
FeedBrings ==
    /\ \/ \E p \in AgentKey : PublishProfile(p)
       \/ \E c \in LinkCommand : HandleLink(c)
       \/ \E m \in Message \ Source : HandleOtherMessage(m)
    /\ UNCHANGED vars

\* The handler of an execution has called runZapFlow, or it has not.
CallsFlow(f) ==
    \/ /\ f \in called' \ called
       /\ RunZapFlow(f)
    \/ /\ called' = called
       /\ UNCHANGED vars

Delivered(f) ==
    /\ \/ HandleZapCommand(f)
       \/ HandleAgentReply(f)
       \/ HandleReaction(f)
    /\ CallsFlow(f)

QueryAnswered(f) == QueryEnds(f) /\ CallsFlow(f)

RowsStayUnread == UNCHANGED rows

\* The table hasSourceEvent reads is the one insertPending writes.
RowsAppear == rows' = {f \in Flow : zaps'[f] # "absent"}

FlowRuns ==
    /\ Running
    /\ RowsAppear
    /\ UNCHANGED <<called, triggerVars>>

\* One process: when it dies, handlers, caches, executions and polls go together.
BotDies == ProcessDies /\ TriggersDie

ChannelNext ==
    \/ FeedBrings
    \/ \E f \in Flow : Delivered(f) \/ QueryAnswered(f)
    \/ FlowRuns
    \/ BotDies

ChannelSpec == ChannelInit /\ [][ChannelNext]_channelVars

\* Queries end by their timers (RelayQuery, EveryCallEnds).  Every promise the
\* flow awaits settles: fetch and the publish of nostr-tools have timeouts of
\* their own, timers fire, and the clock passes every deadline.  Nobody owes the
\* bot an event or a payment, and nothing forces a fault.
ChannelFairSpec ==
    /\ ChannelSpec
    /\ \A f \in Flow :
          /\ WF_channelVars(QueryAnswered(f))
          /\ WF_channelVars(FlowStep(f) /\ FlowRuns)
    /\ \A i \in Invoice :
          /\ WF_channelVars(PollStep(i) /\ FlowRuns)
          /\ WF_channelVars(DeadlinePasses(i) /\ FlowRuns)

-----------------------------------------------------------------------------
(* Properties.                                                             *)

\* What the triggers take for the flow is the flow.
SeesTheFlow == called = CalledFlows /\ rows = RowsInserted

DueToReply(f) ==
    /\ Src(f) \in AgentReply
    /\ Sender(f) \in agents
    /\ party[f] = TargetAuthor(f)
    /\ party[f] \notin {Sender(f), Bot}

DueToReaction(f) ==
    /\ Src(f) \in Reaction
    /\ party[f] = TargetAuthor(f)
    /\ party[f] # Sender(f)
    /\ \E c \in LinkCommand : c.by = party[f] /\ c.name = payee[f]

DueToCommand(f) == Src(f) \in ZapCommand /\ party[f] = Nobody

\* A fee is asked for on top of a zap that is in the channel, of one that does not
\* go to the fee wallet itself and is large enough for a share of a sat.
DueAsFee(f) ==
    /\ Sent("invoiceReply", f)
    /\ Src(f) \notin PaysFeeWallet
    /\ AmountSats[Src(f)] * FeeBps >= 10000

IsDue(f) == DueToReply(f) \/ DueToReaction(f) \/ DueToCommand(f)

AllIsDue ==
    \A f \in Flow :
        /\ Sent("invoiceReply", f) \/ Sent("receipt", f) => IsDue(f)
        /\ Sent("feeReply", f) => DueAsFee(f)

AsksForReply(f, p) == Sent("invoiceReply", f) /\ DueToReply(f) /\ party[f] = p

\* No sat is asked for without a reason, and none is attested: an invoice in the
\* channel, or a receipt on the relay, was a /zap command's; or zaps the linked
\* author of the message reacted to; or charges, for the reply of an agent, the
\* author of the message it answers.  Whoever is charged is no agent that had its
\* profile on the relay before the bot first asked for it and whose queries are
\* answered; one that published later, or whose query timed out, may be
\* (AgentIsNeverCharged).  A fee invoice has a zap and an amount it is due to.
InvoicesAreDue ==
    /\ []AllIsDue
    /\ \A f \in ReplyRun, p \in AgentKey \ Unanswered :
          []((p \in agents /\ ~HasKey(agentCache, p) /\ ~Asked(p) /\ f \notin called)
                 => []~AsksForReply(f, p))

\* An agent's reply whose row is there when it is delivered once more does not
\* cost an invoice at LaWallet, in this life of the process or the next.
RepliesMintOnce ==
    \A f \in {g \in Flow : Src(g) \in AgentReply \ ZapCommand} :
        []((handler[f] = "idle" /\ RowExists(Src(f))) => [](invoice[ZapInv(f)] = "none"))

\* Whatever is delivered comes to an end: the handler gives up, or its execution
\* of the flow has an outcome, an exception among them: nothing waits for ever on
\* a query, a payment or a fee.
TriggersEnd ==
    \A f \in Flow : handler[f] # "idle" ~> (handler[f] = "done" \/ pc[f] \in Outcome)
=============================================================================
