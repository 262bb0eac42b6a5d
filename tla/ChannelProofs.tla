--------------------------- MODULE ChannelProofs ---------------------------
(***************************************************************************)
(* Proofs about ChannelBot: the triggers and the flow, put together, are   *)
(* still what each of them is by itself, so that what is proved of either  *)
(* holds of the whole; and then what only the whole can promise.           *)
(***************************************************************************)
EXTENDS ChannelBot, ZapLedgerProofs, TriggerProofs

-----------------------------------------------------------------------------
(* Why a handler calls the flow.                                           *)

\* Of an execution that has been called it is known whom it is for, unless a
\* command was its reason; only replies and reactions have a party.
Reason(f) ==
    /\ handler[f] = "askInvoker" => party[f] # Nobody
    /\ party[f] # Nobody => Src(f) \in AgentReply \cup Reaction
    /\ (f \in called /\ party[f] = Nobody) => Src(f) \in ZapCommand

ReasonGiven == \A f \in Flow : Reason(f)

\* The stages a handler may go to without a call of runZapFlow.
WaitsOrEnds(f) ==
    /\ UNCHANGED callVars
    /\ \E stage \in {"done"} \cup Asking : handler' = [handler EXCEPT ![f] = stage]

\* What a handler does in one step: it calls the flow or it does not, and
\* whom it calls it for it has found out, or was told by a command.
HasReason(f) ==
    /\ handler[f] \in {"idle"} \cup Asking
    /\ Runs(f) \/ WaitsOrEnds(f)
    /\ \/ UNCHANGED party
       \/ /\ Src(f) \in AgentReply \cup Reaction
          /\ \E p \in Pubkey : party' = [party EXCEPT ![f] = p]
    /\ handler'[f] = "askInvoker" => party'[f] # Nobody
    /\ Runs(f) => party'[f] # Nobody \/ Src(f) \in ZapCommand

\* A step without a call of a handler that knows no more than before.
LEMMA WaitingNeedsNoReason ==
    ASSUME RunTypes, NEW f \in Flow, handler[f] \in {"idle"} \cup Asking,
           UNCHANGED <<callVars, party>>,
           NEW stage \in {"done", "askSender", "fetchTarget"},
           handler' = [handler EXCEPT ![f] = stage]
    PROVE  HasReason(f)
<1>1. WaitsOrEnds(f)
  BY DEF WaitsOrEnds, Asking
<1>2. handler'[f] = stage
  BY DEF RunTypes
<1>3. ~Runs(f)
  BY <1>2 DEF Runs, Goes, RunTypes
<1> QED
  BY <1>1, <1>2, <1>3 DEF HasReason

\* A step of a handler that has found out the party.
LEMMA PartyIsReason ==
    ASSUME RunTypes, NEW f \in Flow, handler[f] \in {"idle"} \cup Asking,
           Src(f) \in AgentReply \cup Reaction,
           NEW p \in Pubkey, party' = [party EXCEPT ![f] = p],
           \/ Skips(f)
           \/ Asks(f, "askInvoker", p)
           \/ Runs(f)
    PROVE  HasReason(f)
<1>1. party'[f] # Nobody
  BY NobodyAssumption DEF RunTypes
<1>2. Runs(f) \/ WaitsOrEnds(f)
  BY DEF Skips, Asks, Goes, WaitsOrEnds, Asking
<1> QED
  BY <1>1, <1>2 DEF HasReason

\* Charging the invoker and zapping the author are such steps.
LEMMA EndsHaveReason ==
    ASSUME RunTypes, NEW f \in Flow, handler[f] \in {"idle"} \cup Asking,
           Src(f) \in AgentReply \cup Reaction, NEW p \in Pubkey, NEW known,
           ChargesInvoker(f, p, known) \/ ZapsAuthor(f, p)
    PROVE  HasReason(f)
BY PartyIsReason DEF ChargesInvoker, ZapsAuthor

\* Looking for the invoker.
LEMMA FindingHasReason ==
    ASSUME RunTypes, NEW f \in Flow, handler[f] \in {"idle"} \cup Asking,
           Src(f) \in AgentReply, NEW authorsNow, NEW known,
           FindsInvoker(f, authorsNow, known)
    PROVE  HasReason(f)
<1>1. CASE FetchesTarget(f)
  BY <1>1, WaitingNeedsNoReason DEF FetchesTarget, Goes
<1>2. CASE \E p \in Pubkey : ChargesInvoker(f, p, known)
  BY <1>2, EndsHaveReason
<1> QED
  BY <1>1, <1>2 DEF FindsInvoker

HandlerRuns(f) ==
    \/ HandleZapCommand(f)
    \/ HandleAgentReply(f)
    \/ HandleReaction(f)
    \/ QueryEnds(f)

\* Every step of a handler has its reason.
LEMMA HandlersHaveReason ==
    ASSUME TriggerInv, ReasonGiven, NEW f \in Flow, HandlerRuns(f)
    PROVE  HasReason(f)
<1>0. RunTypes /\ RunOK(f) /\ Reason(f)
  BY DEF TriggerInv, RunInv, ReasonGiven
<1>1. ASSUME Skips(f), UNCHANGED party, handler[f] \in {"idle"} \cup Asking PROVE HasReason(f)
  BY <1>0, <1>1, WaitingNeedsNoReason DEF Skips, Goes
<1>2. CASE HandleZapCommand(f)
  <2>1. handler'[f] = "flow"
    BY <1>0, <1>2 DEF HandleZapCommand, Runs, Goes, RunTypes
  <2> QED
    BY <1>2, <2>1 DEF HandleZapCommand, HasReason
<1>3. CASE HandleAgentReply(f)
  <2>1. handler[f] \in {"idle"} \cup Asking /\ Src(f) \in AgentReply
    BY <1>3 DEF HandleAgentReply
  <2>2. CASE Asks(f, "askSender", Sender(f)) /\ UNCHANGED <<party, payee>>
    BY <1>0, <2>1, <2>2, WaitingNeedsNoReason DEF Asks, Goes
  <2>3. CASE FindsInvoker(f, authorCache', agentCache)
    BY <1>0, <2>1, <2>3, FindingHasReason
  <2> QED
    BY <1>1, <1>3, <2>1, <2>2, <2>3 DEF HandleAgentReply
<1>4. CASE HandleReaction(f)
  <2>1. handler[f] \in {"idle"} \cup Asking /\ Src(f) \in Reaction
    BY <1>4 DEF HandleReaction
  <2>2. CASE FetchesTarget(f)
    BY <1>0, <2>1, <2>2, WaitingNeedsNoReason DEF FetchesTarget, Goes
  <2>3. CASE \E p \in Pubkey : ZapsAuthor(f, p)
    BY <1>0, <2>1, <2>3, EndsHaveReason
  <2> QED
    BY <1>4, <2>2, <2>3 DEF HandleReaction
<1>5. CASE SenderAnswered(f)
  <2>1. handler[f] \in {"idle"} \cup Asking /\ Src(f) \in AgentReply
    BY <1>0, <1>5 DEF SenderAnswered, RunOK, Asking
  <2>2. (Skips(f) /\ UNCHANGED party) \/ FindsInvoker(f, authorCache, agentCache')
    BY <1>5 DEF SenderAnswered
  <2> QED
    BY <1>0, <1>1, <2>1, <2>2, FindingHasReason
<1>6. CASE InvokerAnswered(f)
  <2>1. handler[f] \in {"idle"} \cup Asking /\ party[f] # Nobody /\ UNCHANGED party
    BY <1>0, <1>6 DEF InvokerAnswered, Reason, Asking
  <2>2. CASE Runs(f)
    BY <2>1, <2>2 DEF HasReason
  <2> QED
    BY <1>1, <1>6, <2>1, <2>2 DEF InvokerAnswered
<1>7. CASE TargetFetched(f)
  <2>1. handler[f] \in {"idle"} \cup Asking /\ Src(f) \in AgentReply \cup Reaction
    BY <1>7 DEF TargetFetched, Asking
  <2>2. TargetAuthor(f) \in Pubkey
    BY <2>1, Names
  <2> QED
    BY <1>0, <1>7, <2>1, <2>2, EndsHaveReason DEF TargetFetched
<1>8. CASE TargetNotFetched(f)
  BY <1>1, <1>8 DEF TargetNotFetched, Asking
<1> QED
  BY <1>2, <1>3, <1>4, <1>5, <1>6, <1>7, <1>8 DEF HandlerRuns, QueryEnds

\* No step of the triggers takes a reason away.
LEMMA ReasonStep == TriggerInv /\ ReasonGiven /\ [TriggerNext]_allVars => ReasonGiven'
<1> SUFFICES ASSUME TriggerInv, ReasonGiven, [TriggerNext]_allVars, NEW f \in Flow
             PROVE  Reason(f)'
  BY DEF ReasonGiven
<1>0. RunTypes /\ RunOK(f) /\ Reason(f)
  BY DEF TriggerInv, RunInv, ReasonGiven
<1>1. ASSUME NEW g \in Flow, HandlerRuns(g) PROVE Reason(f)'
  <2>1. HasReason(g)
    BY <1>1, HandlersHaveReason
  <2>2. CASE g = f
    <3>1. CASE Runs(f)
      BY <1>0, <2>1, <2>2, <3>1 DEF HasReason, Runs, Call, Goes, Reason, RunTypes
    <3>2. CASE WaitsOrEnds(f)
      <4>1. f \notin called /\ f \notin called'
        BY <1>0, <2>1, <2>2, <3>2 DEF HasReason, RunOK, WaitsOrEnds, callVars
      <4> QED
        BY <1>0, <2>1, <2>2, <4>1 DEF HasReason, Reason, RunTypes
    <3> QED
      BY <2>1, <2>2, <3>1, <3>2 DEF HasReason
  <2>3. CASE g # f
    <3>1. handler'[f] = handler[f] /\ party'[f] = party[f]
      BY <1>0, <2>1, <2>3 DEF HasReason, Runs, WaitsOrEnds, Goes, RunTypes
    <3>2. f \in called' <=> f \in called
      BY <2>1, <2>3 DEF HasReason, Runs, Call, WaitsOrEnds, callVars
    <3> QED
      BY <1>0, <3>1, <3>2 DEF Reason
  <2> QED
    BY <2>2, <2>3
<1>2. ASSUME \/ UNCHANGED allVars
             \/ \E p \in AgentKey : PublishProfile(p)
             \/ \E c \in LinkCommand : HandleLink(c)
             \/ \E m \in Message \ Source : HandleOtherMessage(m)
             \/ \E g \in Flow : FlowInsertsRow(g)
      PROVE  Reason(f)'
  <2>1. UNCHANGED <<handler, party, called>>
    BY <1>2
       DEF allVars, callVars, triggerVars, PublishProfile, HandleLink, HandleOtherMessage,
           FlowInsertsRow, InsertRow
  <2> QED
    BY <1>0, <2>1 DEF Reason
<1>3. CASE TriggersDie
  <2>1. handler'[f] # "askInvoker" /\ UNCHANGED <<party, called>>
    BY <1>3 DEF TriggersDie, callVars
  <2> QED
    BY <1>0, <2>1 DEF Reason
<1> QED
  BY <1>1, <1>2, <1>3 DEF TriggerNext, HandlerRuns

\* The flow is called for a command, or for somebody.
LEMMA ReasonHolds == TriggerSpec => []ReasonGiven
<1>1. TriggerInit => ReasonGiven
  BY DEF TriggerInit, CallInit, ReasonGiven, Reason
<1> QED
  BY <1>1, ReasonStep, TriggerSafety, PTL DEF TriggerSpec
-----------------------------------------------------------------------------
(* The two parts are one program.                                          *)

\* An execution that is under way has been called by its handler, in this life
\* of the process, and the triggers see the flow as it is.
Linked ==
    /\ SeesTheFlow
    /\ \A f \in Flow : pc[f] \in Live => handler[f] = "flow"

ChannelInv == SafetyInv /\ TriggerInv /\ ReasonGiven /\ Linked

\* What a handler does when it is given an event or an answer.
BotHandles(f) == HandlerRuns(f) /\ CallsFlow(f)

\* The steps of the bot, by who takes them.
LEMMA BotSteps ==
    ChannelNext <=> \/ FeedBrings
                    \/ \E f \in Flow : BotHandles(f)
                    \/ FlowRuns
                    \/ BotDies
BY DEF ChannelNext, BotHandles, HandlerRuns, Delivered, QueryAnswered

\* Every step of the bot is one of the flow, or leaves it alone.
LEMMA BotRunsFlow == SafetyInv /\ [ChannelNext]_channelVars => [Next]_vars
<1> SUFFICES ASSUME SafetyInv, [ChannelNext]_channelVars PROVE [Next]_vars
  OBVIOUS
<1>1. CASE FeedBrings
  BY <1>1 DEF FeedBrings
<1>2. ASSUME NEW f \in Flow, BotHandles(f) PROVE [Next]_vars
  BY <1>2 DEF BotHandles, CallsFlow, Next
<1>3. CASE FlowRuns
  BY <1>3 DEF FlowRuns, Next
<1>4. CASE BotDies
  <2>1. CASE Busy
    BY <1>4, <2>1 DEF BotDies, Next, Crash
  <2>2. CASE ~Busy
    BY <1>4, <2>2 DEF BotDies, Busy, ProcessDies, vars, SafetyInv, TypeOK
  <2> QED
    BY <2>1, <2>2
<1>5. CASE UNCHANGED channelVars
  BY <1>5 DEF channelVars
<1> QED
  BY <1>1, <1>2, <1>3, <1>4, <1>5, BotSteps

\* A step of the flow is, to the triggers, a row that appears or nothing at all.
LEMMA FlowIsSeen ==
    ASSUME ChannelInv, FlowRuns
    PROVE  UNCHANGED allVars \/ \E f \in Flow : FlowInsertsRow(f)
<1>0. SafetyInv /\ Running /\ SeesTheFlow /\ TypeOK
  BY DEF ChannelInv, Linked, FlowRuns, SafetyInv
<1>1. rows = RowsInserted /\ rows' = RowsInserted' /\ UNCHANGED <<called, triggerVars>>
  BY <1>0 DEF SeesTheFlow, FlowRuns, RowsAppear, RowsInserted
<1>2. RowsInserted \subseteq RowsInserted'
  BY <1>0, OthersRun DEF RowsInserted
<1>3. CASE RowsInserted' = RowsInserted
  BY <1>1, <1>3 DEF allVars, callVars
<1>4. CASE RowsInserted' # RowsInserted
  <2>1. PICK f \in Flow : zaps[f] = "absent" /\ zaps'[f] # "absent"
    BY <1>2, <1>4 DEF RowsInserted
  <2>2. InvoiceMinted(f)
    BY <1>0, <2>1, OnlyMintingInserts
  <2>3. handler[f] = "flow" /\ f \in called
    BY <1>0, <2>2 DEF InvoiceMinted, ChannelInv, Linked, SeesTheFlow, CalledFlows, Live
  <2>4. ~HasRow(Src(f))
    BY <1>1, <2>2 DEF InvoiceMinted, HasRow, RowExists, RowsInserted
  <2>5. RowsInserted' = RowsInserted \cup {f}
    BY <1>0, <2>2 DEF InvoiceMinted, RowsInserted, TypeOK
  <2>6. FlowInsertsRow(f)
    BY <1>1, <2>3, <2>4, <2>5 DEF FlowInsertsRow, InsertRow
  <2> QED
    BY <2>6
<1> QED
  BY <1>3, <1>4

\* Every step of the bot is one of the triggers, or leaves them alone.
LEMMA BotRunsTriggers == ChannelInv /\ [ChannelNext]_channelVars => [TriggerNext]_allVars
<1> SUFFICES ASSUME ChannelInv, [ChannelNext]_channelVars PROVE [TriggerNext]_allVars
  OBVIOUS
<1>1. CASE FeedBrings
  BY <1>1 DEF FeedBrings, TriggerNext
<1>2. ASSUME NEW f \in Flow, BotHandles(f) PROVE [TriggerNext]_allVars
  BY <1>2 DEF BotHandles, HandlerRuns, TriggerNext
<1>3. CASE FlowRuns
  BY <1>3, FlowIsSeen DEF TriggerNext
<1>4. CASE BotDies
  BY <1>4 DEF BotDies, TriggerNext
<1>5. CASE UNCHANGED channelVars
  BY <1>5 DEF channelVars
<1> QED
  BY <1>1, <1>2, <1>3, <1>4, <1>5, BotSteps

\* A handler that gets on keeps the flow and what it knows of it together.
LEMMA HandlersKeepLink ==
    ASSUME ChannelInv, NEW f \in Flow, BotHandles(f)
    PROVE  Linked'
<1>0. /\ TypeOK /\ RunTypes /\ called = CalledFlows /\ rows = RowsInserted
      /\ \A g \in Flow : pc[g] \in Live => handler[g] = "flow"
  BY DEF ChannelInv, SafetyInv, TriggerInv, RunInv, Linked, SeesTheFlow
<1>1. HasReason(f) /\ CallsFlow(f)
  BY HandlersHaveReason DEF BotHandles, ChannelInv
<1>2. UNCHANGED rows /\ \A g \in Flow \ {f} : handler'[g] = handler[g]
  BY <1>0, <1>1 DEF HasReason, Runs, WaitsOrEnds, Call, Goes, callVars, RunTypes
<1>3. CASE f \in called' \ called /\ RunZapFlow(f)
  <2>1. called' = called \cup {f} /\ handler'[f] = "flow"
    BY <1>0, <1>1, <1>3 DEF HasReason, Runs, WaitsOrEnds, Call, Goes, callVars, RunTypes
  <2>2. CalledFlows' = CalledFlows \cup {f} /\ UNCHANGED RowsInserted
    BY <1>0, <1>3 DEF RunZapFlow, Goto, CalledFlows, RowsInserted, TypeOK
  <2>3. \A g \in Flow : pc'[g] \in Live => handler'[g] = "flow"
    BY <1>0, <1>2, <1>3, <2>1 DEF RunZapFlow, Goto, TypeOK
  <2> QED
    BY <1>0, <1>2, <2>1, <2>2, <2>3 DEF Linked, SeesTheFlow
<1>4. CASE called' = called /\ UNCHANGED vars
  <2>1. UNCHANGED <<pc, CalledFlows, RowsInserted>>
    BY <1>4 DEF vars, CalledFlows, RowsInserted
  <2>2. pc[f] \notin Live
    BY <1>0, <1>1 DEF HasReason, Asking
  <2> QED
    BY <1>0, <1>2, <1>4, <2>1, <2>2 DEF Linked, SeesTheFlow
<1> QED
  BY <1>1, <1>3, <1>4 DEF CallsFlow

\* No step of the bot takes the two parts apart.
LEMMA LinkedStep == ChannelInv /\ [ChannelNext]_channelVars => Linked'
<1> SUFFICES ASSUME ChannelInv, [ChannelNext]_channelVars PROVE Linked'
  OBVIOUS
<1>0. /\ SafetyInv /\ TypeOK /\ RunTypes /\ called = CalledFlows /\ rows = RowsInserted
      /\ \A g \in Flow : pc[g] \in Live => handler[g] = "flow"
  BY DEF ChannelInv, SafetyInv, TriggerInv, RunInv, Linked, SeesTheFlow
<1>1. ASSUME UNCHANGED <<pc, zaps, called, rows, handler>> PROVE Linked'
  BY <1>0, <1>1 DEF Linked, SeesTheFlow, CalledFlows, RowsInserted
<1>2. CASE FeedBrings
  BY <1>1, <1>2
     DEF FeedBrings, PublishProfile, HandleLink, HandleOtherMessage, callVars, vars
<1>3. ASSUME NEW f \in Flow, BotHandles(f) PROVE Linked'
  BY <1>3, HandlersKeepLink
<1>4. CASE FlowRuns
  <2>1. Running /\ rows' = RowsInserted' /\ UNCHANGED <<called, handler>>
    BY <1>4 DEF FlowRuns, RowsAppear, RowsInserted, triggerVars
  <2>2. \A f \in Flow : pc'[f] = "idle" <=> pc[f] = "idle"
    BY <1>0, <2>1, OthersRun, RunningKeeps DEF Kept
  <2>3. \A f \in Flow : pc'[f] \in Live => pc[f] \in Live
    BY <1>0, <2>1, OnlyTheLiveMove
  <2> QED
    BY <1>0, <2>1, <2>2, <2>3 DEF Linked, SeesTheFlow, CalledFlows
<1>5. CASE BotDies
  <2>1. UNCHANGED <<called, rows, zaps>> /\ \A f \in Flow : pc'[f] \notin Live
    BY <1>0, <1>5
       DEF BotDies, ProcessDies, TriggersDie, callVars, TypeOK, Live, Publishing
  <2>2. \A f \in Flow : pc'[f] = "idle" <=> pc[f] = "idle"
    BY <1>0, <1>5 DEF BotDies, ProcessDies, TypeOK, Live, Publishing
  <2> QED
    BY <1>0, <2>1, <2>2 DEF Linked, SeesTheFlow, CalledFlows, RowsInserted
<1>6. CASE UNCHANGED channelVars
  BY <1>1, <1>6 DEF channelVars, vars, allVars, callVars, triggerVars
<1> QED
  BY <1>2, <1>3, <1>4, <1>5, <1>6, BotSteps

\* The bot starts with nothing called and nothing linked.
LEMMA ChannelStart == ChannelInit => ChannelInv
<1> SUFFICES ASSUME ChannelInit PROVE ChannelInv
  OBVIOUS
<1>1. SafetyInv /\ TriggerInv
  BY SafetyInit, TriggersStart DEF ChannelInit
<1>2. ReasonGiven
  BY DEF ChannelInit, TriggerInit, CallInit, ReasonGiven, Reason
<1>3. Linked
  BY DEF ChannelInit, Init, TriggerInit, CallInit, Linked, SeesTheFlow, CalledFlows,
         RowsInserted, Live, Publishing
<1> QED
  BY <1>1, <1>2, <1>3 DEF ChannelInv

\* The flow and its callers stay together in every reachable state.
THEOREM ChannelHolds == ChannelSpec => []ChannelInv
<1>1. ChannelInv /\ [ChannelNext]_channelVars => ChannelInv'
  BY BotRunsFlow, BotRunsTriggers, SafetyStep, TriggerStep, ReasonStep, LinkedStep DEF ChannelInv
<1> QED
  BY <1>1, ChannelStart, PTL DEF ChannelSpec

\* The flow inside the bot is the flow as specified: whatever is proved of
\* ZapFlow holds of the bot.
THEOREM ChannelRunsFlow == ChannelSpec => Spec
<1>1. ChannelInit => Init
  BY DEF ChannelInit
<1>2. ChannelInv /\ [ChannelNext]_channelVars => [Next]_vars
  BY BotRunsFlow DEF ChannelInv
<1> QED
  BY <1>1, <1>2, ChannelHolds, PTL DEF ChannelSpec, Spec

\* And so are its triggers: what they assume of the flow, it does.
THEOREM ChannelRunsTriggers == ChannelSpec => TriggerSpec
<1>1. ChannelInit => TriggerInit
  BY DEF ChannelInit
<1>2. ChannelInv /\ [ChannelNext]_channelVars => [TriggerNext]_allVars
  BY BotRunsTriggers
<1> QED
  BY <1>1, <1>2, ChannelHolds, PTL DEF ChannelSpec, TriggerSpec

-----------------------------------------------------------------------------
(* What only the whole can promise.                                        *)

\* What is on the relay was posted by an execution somebody called.
LEMMA PostedWasCalled ==
    ASSUME ChannelInv, NEW f \in Flow, Sent("invoiceReply", f) \/ Sent("receipt", f)
    PROVE  f \in called
<1>1. zaps[f] # "absent"
  BY DEF ChannelInv, SafetyInv, Parts, PostedHasRow, ReceiptBacked
<1>2. pc[f] # "idle"
  BY <1>1 DEF ChannelInv, SafetyInv, Parts, RowAtPc
<1> QED
  BY <1>2 DEF ChannelInv, Linked, SeesTheFlow, CalledFlows

\* What each kind of event has to say for a call.
LEMMA CallsAreDue ==
    ASSUME TriggerInv, ReasonGiven, NEW f \in called
    PROVE  IsDue(f)
<1>1. f \in Flow /\ Reason(f) /\ ChargesAreDue /\ ZapsGoToTheAuthor
  BY InvImplies DEF TriggerInv, RunInv, RunTypes, ReasonGiven
<1>2. CASE party[f] = Nobody
  BY <1>1, <1>2 DEF Reason, DueToCommand, IsDue
<1>3. CASE party[f] # Nobody /\ Src(f) \in AgentReply
  BY <1>1, <1>3 DEF ChargesAreDue, RunsReply, DueToReply, IsDue
<1>4. CASE Src(f) \in Reaction
  BY <1>1, <1>4 DEF ZapsGoToTheAuthor, RunsReaction, DueToReaction, IsDue
<1> QED
  BY <1>1, <1>2, <1>3, <1>4 DEF Reason

\* Nothing is asked for, and nothing attested, without a reason: over every
\* interleaving, fault, eviction and timeout, and every death of the process.  An
\* agent seen in time is asked for nothing by an agent's reply, and a fee invoice
\* is a share of at least a sat of a posted zap that is not the fee wallet's.
THEOREM EveryInvoiceIsDue == ChannelSpec => InvoicesAreDue
<1>1. ChannelInv /\ FeesWereDue => AllIsDue
  <2> SUFFICES ASSUME ChannelInv, FeesWereDue, NEW f \in Flow
               PROVE  /\ Sent("invoiceReply", f) \/ Sent("receipt", f) => IsDue(f)
                      /\ Sent("feeReply", f) => DueAsFee(f)
    BY DEF AllIsDue
  <2>1. Sent("invoiceReply", f) \/ Sent("receipt", f) => IsDue(f)
    BY PostedWasCalled, CallsAreDue DEF ChannelInv
  <2>2. ASSUME Sent("feeReply", f) PROVE DueAsFee(f)
    <3>1. FeeDue(Src(f)) /\ Src(f) \in Source
      BY <2>2 DEF FeesWereDue, FeeAsked, Flow, Src
    <3>2. Sent("invoiceReply", f)
      BY <2>2 DEF ChannelInv, SafetyInv, Parts, FeeBacked
    <3> QED
      BY <3>1, <3>2, DueFeeIsAShare DEF DueAsFee
  <2> QED
    BY <2>1, <2>2
<1>2. ASSUME NEW f \in ReplyRun, NEW p \in AgentKey \ Unanswered
      PROVE  ChannelSpec =>
                 []((p \in agents /\ ~HasKey(agentCache, p) /\ ~Asked(p) /\ f \notin called)
                        => []~AsksForReply(f, p))
  <2>1. (p \in agents /\ ~HasKey(agentCache, p) /\ ~Asked(p) /\ f \notin called) => Spared(f, p)
    BY DEF Spared, Protected, HasKey, Knows, Entry, Asked, AsksAbout, RunsReply
  <2>2. TriggerInv /\ Spared(f, p) /\ [TriggerNext]_allVars => Spared(f, p)'
    BY SparedStays
  <2>3. ChannelInv /\ Spared(f, p) => ~AsksForReply(f, p)
    <3> SUFFICES ASSUME ChannelInv, Spared(f, p), AsksForReply(f, p) PROVE FALSE
      OBVIOUS
    <3>1. f \in Flow /\ f \in called
      BY PostedWasCalled DEF ReplyRun, AsksForReply
    <3>2. party[f] # Nobody
      BY <3>1, NobodyAssumption, Names DEF AsksForReply, DueToReply
    <3> QED
      BY <3>1, <3>2 DEF AsksForReply, DueToReply, Spared, RunsReply
  <2> QED
    BY <2>1, <2>2, <2>3, TriggerSafety, ChannelRunsTriggers, ChannelHolds, PTL DEF TriggerSpec
<1>3. ChannelSpec => []AllIsDue
  BY <1>1, ChannelHolds, ChannelRunsFlow, FeesWereDueHold, PTL
<1> QED
  BY <1>2, <1>3 DEF InvoicesAreDue

\* A reply that is delivered once more after its row was inserted costs nothing.
THEOREM RepliesCostOneInvoice == ChannelSpec => RepliesMintOnce
<1>1. ASSUME NEW f \in {g \in Flow : Src(g) \in AgentReply \ ZapCommand}
      PROVE  ChannelSpec =>
                 []((handler[f] = "idle" /\ RowExists(Src(f))) => [](invoice[ZapInv(f)] = "none"))
  <2>1. f \in ReplyRun /\ f \in Flow /\ Src(f) \notin ZapCommand
    BY DEF ReplyRun
  <2>2. ChannelInv /\ RowExists(Src(f)) => HasRow(Src(f))
    BY DEF ChannelInv, Linked, SeesTheFlow, RowsInserted, RowExists, HasRow
  <2>3. ChannelInv /\ NothingMinted /\ ~RunsReply(f) => invoice[ZapInv(f)] = "none"
    <3> SUFFICES ASSUME ChannelInv, NothingMinted, ~RunsReply(f)
                 PROVE  invoice[ZapInv(f)] = "none"
      OBVIOUS
    <3>1. f \notin called
      BY <2>1 DEF RunsReply, ChannelInv, ReasonGiven, Reason
    <3>2. pc[f] = "idle"
      BY <2>1, <3>1 DEF ChannelInv, Linked, SeesTheFlow, CalledFlows
    <3> QED
      BY <2>1, <3>2 DEF NothingMinted
  <2>4. ChannelSpec => []((handler[f] = "idle" /\ HasRow(Src(f))) => []~RunsReply(f))
    <3>1. TriggerInv /\ handler[f] = "idle" /\ HasRow(Src(f)) => Ignored(f)
      BY <2>1 DEF TriggerInv, RunInv, RunOK, Ignored
    <3>2. TriggerInv /\ Ignored(f) /\ [TriggerNext]_allVars => Ignored(f)'
      BY <2>1, IgnoredStays
    <3>3. Ignored(f) => ~RunsReply(f)
      BY DEF Ignored, RunsReply
    <3> QED
      BY <3>1, <3>2, <3>3, TriggerSafety, ChannelRunsTriggers, PTL DEF TriggerSpec
  <2> QED
    BY <2>2, <2>3, <2>4, ChannelHolds, ChannelRunsFlow, NothingMintedHolds, PTL
<1> QED
  BY <1>1 DEF RepliesMintOnce
=============================================================================
