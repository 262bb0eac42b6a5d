----------------------------- MODULE BountyFlow -----------------------------
(***************************************************************************)
(* Bounties (src/bot/bounty-flow.ts, src/db/bounties.ts): an admin         *)
(* promises sats for a pull request with /bounty, and the author is paid   *)
(* through runZapFlow when the merge status event (kind 1631) arrives or   *)
(* an admin runs /retry-bounty.  Both handlers read the bounty once and    *)
(* carry that copy over every later await, up to the payment.              *)
(*                                                                         *)
(* The sources of ZapFlow are here the merge status events and the retry   *)
(* commands; a flow <<source, delivery>> is one run of its handler, which  *)
(* enters runZapFlow in ZapFlow's own variables when all guards have held. *)
(***************************************************************************)
EXTENDS ZapFlow

CONSTANTS
    MergeEvent,      \* the sources that are merge status events, not commands
    Target,          \* the event a bounty is set on, for each source
    Author,          \* who signed it, for the targets that are pull requests
    Command,         \* the /bounty commands the admins of the channel have posted
    QueryTimesOut    \* whether a query to the relay may end without its answer

BountyTarget == {Target[s] : s \in Source}
Pubkey == {c.by : c \in Command} \cup {Author[t] : t \in DOMAIN Author}

ASSUME MergeEventAssumption == MergeEvent \subseteq Source
ASSUME TargetAssumption == DOMAIN Target = Source
ASSUME AuthorAssumption == DOMAIN Author \subseteq BountyTarget
ASSUME CommandAssumption ==
    \A c \in Command : c.target \in BountyTarget /\ c.sats \in Nat \ {0}
ASSUME QueryAssumption == QueryTimesOut \in BOOLEAN

VARIABLES
    bounties,        \* the bounties table, by target
    links,           \* pubkeys that have run /link
    merged,          \* targets with a merge status event on the relay (external)
    handler,         \* where each run of a handler is
    promise          \* the copy of the bounty each run works with

bountyVars == <<bounties, links, merged, handler, promise>>
allVars == <<vars, bountyVars>>

NoBounty == [status |-> "none", sats |-> 0, by |-> "nobody"]
Bounty == [status : {"open", "paid"}, sats : {c.sats : c \in Command},
           by : {c.by : c \in Command}]

TargetOf(f) == Target[Src(f)]

\* The awaits of the handlers outside runZapFlow.
Asking == {"mergeCheck", "fetchPr"}

BountyTypeOK ==
    /\ TypeOK
    /\ bounties \in [BountyTarget -> Bounty \cup {NoBounty}]
    /\ links \subseteq Pubkey
    /\ merged \subseteq BountyTarget
    /\ handler \in [Flow -> {"idle", "flow", "done"} \cup Asking]
    /\ promise \in [Flow -> Bounty \cup {NoBounty}]

BountyInit ==
    /\ Init
    /\ bounties = [t \in BountyTarget |-> NoBounty]
    /\ links = {}
    /\ merged = {}
    /\ handler = [f \in Flow |-> "idle"]
    /\ promise = [f \in Flow |-> NoBounty]

-----------------------------------------------------------------------------
(* The stores, and the world outside.                                      *)

NeverSeen(s) == FALSE
HasSourceEvent(s) == RowExists(s)

IsOpen(t) == bounties[t].status = "open"

RegistersOverPaid(c) ==
    /\ bounties' = [bounties EXCEPT ![c.target] =
                       [status |-> "open", sats |-> c.sats, by |-> c.by]]
    /\ UNCHANGED <<vars, links, merged, handler, promise>>

\* register is an upsert that spares a paid bounty.  The relay replays old
\* messages, so a command may be handled at any time and more than once.
RegisterBounty(c) ==
    /\ bounties[c.target].status # "paid"
    /\ bounties' = [bounties EXCEPT ![c.target] =
                       [status |-> "open", sats |-> c.sats, by |-> c.by]]
    /\ UNCHANGED <<vars, links, merged, handler, promise>>

Link(p) ==
    /\ links' = links \cup {p}
    /\ UNCHANGED <<vars, bounties, merged, handler, promise>>

MergePullRequest(t) ==
    /\ merged' = merged \cup {t}
    /\ UNCHANGED <<vars, bounties, links, handler, promise>>

-----------------------------------------------------------------------------
(* The two handlers, up to runZapFlow.                                     *)

Goes(f, stage) == handler' = [handler EXCEPT ![f] = stage]

Reads(f) == promise' = [promise EXCEPT ![f] = bounties[TargetOf(f)]]

Ends(f) ==
    /\ Goes(f, "done")
    /\ UNCHANGED <<vars, bounties, links, merged, promise>>

MergeDelivered(f) ==
    /\ handler[f] = "idle"
    /\ Src(f) \in MergeEvent
    /\ TargetOf(f) \in merged

\* handleMergeStatus, up to its first await: no bounty yet means no payout.
HandleMergeStatus(f) ==
    /\ MergeDelivered(f)
    /\ \/ /\ HasSourceEvent(Src(f)) \/ ~IsOpen(TargetOf(f))
          /\ Ends(f)
       \/ /\ ~HasSourceEvent(Src(f))
          /\ IsOpen(TargetOf(f))
          /\ Reads(f)
          /\ Goes(f, "fetchPr")
          /\ UNCHANGED <<vars, bounties, links, merged>>

\* handleRetryBountyCommand of an admin, from the answer about the admins on.
HandleRetryBounty(f) ==
    /\ handler[f] = "idle"
    /\ Src(f) \notin MergeEvent
    /\ \/ /\ ~IsOpen(TargetOf(f))
          /\ Ends(f)
       \/ /\ IsOpen(TargetOf(f))
          /\ Reads(f)
          /\ Goes(f, "mergeCheck")
          /\ UNCHANGED <<vars, bounties, links, merged>>

RetryTrustsCommand(f) ==
    /\ handler[f] = "mergeCheck"
    /\ Goes(f, "fetchPr")
    /\ UNCHANGED <<vars, bounties, links, merged, promise>>

MergeConfirmed(f) ==
    /\ handler[f] = "mergeCheck"
    /\ TargetOf(f) \in merged
    /\ Goes(f, "fetchPr")
    /\ UNCHANGED <<vars, bounties, links, merged, promise>>

MergeNotConfirmed(f) ==
    /\ handler[f] = "mergeCheck"
    /\ TargetOf(f) \notin merged \/ QueryTimesOut
    /\ Ends(f)

Eligible(f) ==
    /\ TargetOf(f) \in DOMAIN Author
    /\ Author[TargetOf(f)] # promise[f].by
    /\ Author[TargetOf(f)] \in links

\* attemptBountyPayout: the pull request is fetched, then everything up to the
\* invoice request of runZapFlow happens without an await.
PayoutStarts(f) ==
    /\ handler[f] = "fetchPr"
    /\ Eligible(f)
    /\ RunZapFlow(f)
    /\ Goes(f, "flow")
    /\ UNCHANGED <<bounties, links, merged, promise>>

PayoutRefused(f) ==
    /\ handler[f] = "fetchPr"
    /\ ~Eligible(f) \/ QueryTimesOut
    /\ Ends(f)

-----------------------------------------------------------------------------
(* The payout, and what follows it: only the outcome 'paid' closes the     *)
(* bounty, in the same turn of the event loop as the end of the flow.      *)

ClosedBy(f) == pc[f] = "paidReply" /\ pc'[f] = "paid"

ClosesAnyOutcome ==
    /\ bounties' = [t \in BountyTarget |->
                      IF \E f \in Flow : TargetOf(f) = t /\ pc'[f] # pc[f] /\ pc'[f] \in Outcome
                      THEN [bounties[t] EXCEPT !.status = "paid"]
                      ELSE bounties[t]]
    /\ UNCHANGED <<links, merged, handler, promise>>

NeverCloses == UNCHANGED bountyVars

ClosesPaidBounty ==
    /\ bounties' = [t \in BountyTarget |->
                      IF \E f \in Flow : TargetOf(f) = t /\ ClosedBy(f)
                      THEN [bounties[t] EXCEPT !.status = "paid"]
                      ELSE bounties[t]]
    /\ UNCHANGED <<links, merged, handler, promise>>

PayoutRuns == Running /\ ClosesPaidBounty

BotDies ==
    /\ Busy \/ \E f \in Flow : handler[f] \in Asking
    /\ ProcessDies
    /\ handler' = [f \in Flow |-> IF handler[f] \in Asking THEN "done" ELSE handler[f]]
    /\ UNCHANGED <<bounties, links, merged, promise>>

HandlerStep(f) ==
    \/ MergeConfirmed(f)
    \/ MergeNotConfirmed(f)
    \/ PayoutStarts(f)
    \/ PayoutRefused(f)

BountyNext ==
    \/ \E c \in Command : RegisterBounty(c)
    \/ \E p \in Pubkey : Link(p)
    \/ \E t \in BountyTarget : MergePullRequest(t)
    \/ \E f \in Flow : HandleMergeStatus(f) \/ HandleRetryBounty(f) \/ HandlerStep(f)
    \/ PayoutRuns
    \/ BotDies

BountySpec == BountyInit /\ [][BountyNext]_allVars

\* What the bot awaits ends, and nobody owes it anything.
BountyFairSpec ==
    /\ BountySpec
    /\ \A f \in Flow :
          /\ WF_allVars(HandlerStep(f))
          /\ WF_allVars(FlowStep(f) /\ ClosesPaidBounty)
    /\ \A i \in Invoice :
          /\ WF_allVars(PollStep(i) /\ ClosesPaidBounty)
          /\ WF_allVars(DeadlinePasses(i) /\ ClosesPaidBounty)

-----------------------------------------------------------------------------
(* Properties.                                                             *)

\* A bounty is closed only by a payment with a receipt, to an author who is
\* not the one who promised it: a failed, expired or broken payout leaves it
\* open for a retry.
PaidBountyIsAttested ==
    \A t \in BountyTarget : bounties[t].status = "paid" =>
        \E f \in Flow :
            /\ TargetOf(f) = t
            /\ zaps[f] = "paid"
            /\ Sent("receipt", f)
            /\ promise[f].by # Author[t]

\* Conversely, a payout with a receipt has closed its bounty, which no replayed
\* /bounty opens again, unless its execution has still to say so or broke at that.
ReceiptClosesBounty ==
    \A f \in Flow : Sent("receipt", f) =>
        \/ bounties[TargetOf(f)].status = "paid"
        \/ pc[f] \in {"receipt", "paidReply", "threw", "killed"}

\* Whatever was read when, an invoice is only ever posted for a merged pull
\* request, to a linked author, on a promise made by somebody else.
PayoutIsEligible ==
    \A f \in Flow : pc[f] # "idle" =>
        /\ TargetOf(f) \in merged
        /\ Eligible(f)

\* Once a bounty is closed, no merge event, no retry and no replayed /bounty
\* that is handled from then on ever posts another invoice for it.
PaidForGood ==
    \A f \in Flow :
        []((handler[f] = "idle" /\ bounties[TargetOf(f)].status = "paid")
               => []~Sent("invoiceReply", f))

\* A merge event that is delivered again after its row was inserted does not
\* even ask LaWallet for an invoice (hasSourceEvent).
RedeliveryMintsNothing ==
    \A f \in Flow :
        []((handler[f] = "idle" /\ Src(f) \in MergeEvent /\ RowExists(Src(f)))
               => [](invoice[ZapInv(f)] = "none"))

\* A payout whose payment a check is still to see ends with its bounty closed.
SeenPaymentClosesBounty ==
    \A f \in Flow :
        (poll[ZapInv(f)] = "check" /\ invoice[ZapInv(f)] \in Settled)
            ~> bounties[TargetOf(f)].status = "paid"

-----------------------------------------------------------------------------
(* What the comments and the README say, and the code does not do.         *)

\* "/retry-bounty retries the payout of a bounty that is still open" (README):
\* one bounty is not paid out twice.
BountyPaysOnce ==
    \A f, g \in Flow :
        (TargetOf(f) = TargetOf(g) /\ zaps[f] = "paid" /\ zaps[g] = "paid") => f = g
=============================================================================
