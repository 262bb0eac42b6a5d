---------------------------- MODULE BountyProofs ----------------------------
(***************************************************************************)
(* Proofs about BountyFlow: bounties are paid through ZapFlow, so whatever *)
(* is proved of ZapFlow holds of them, and a bounty is closed only by an   *)
(* attested payment of an eligible pull request.                           *)
(***************************************************************************)
EXTENDS BountyFlow, ZapLedgerProofs

-----------------------------------------------------------------------------
(* A run of the bounty handlers is a run of ZapFlow.                       *)

\* The handlers in front of the flow leave its variables alone.
LEMMA HandlersLeaveFlow ==
    ASSUME NEW f \in Flow,
           \/ HandleMergeStatus(f) \/ HandleRetryBounty(f)
           \/ MergeConfirmed(f) \/ MergeNotConfirmed(f) \/ PayoutRefused(f)
    PROVE  UNCHANGED vars
BY DEF HandleMergeStatus, HandleRetryBounty, MergeConfirmed, MergeNotConfirmed,
       PayoutRefused, Ends

\* Every step of the bounties is a step of the flow, or one it does not see.
LEMMA BountyStepIsFlowStep == TypeOK /\ [BountyNext]_allVars => [Next]_vars
<1> SUFFICES ASSUME TypeOK, [BountyNext]_allVars PROVE [Next]_vars
  OBVIOUS
<1>1. ASSUME NEW c \in Command, RegisterBounty(c) PROVE UNCHANGED vars
  BY <1>1 DEF RegisterBounty
<1>2. ASSUME NEW p \in Pubkey, Link(p) PROVE UNCHANGED vars
  BY <1>2 DEF Link
<1>3. ASSUME NEW t \in BountyTarget, MergePullRequest(t) PROVE UNCHANGED vars
  BY <1>3 DEF MergePullRequest
<1>4. ASSUME NEW f \in Flow, HandleMergeStatus(f) \/ HandleRetryBounty(f) \/ HandlerStep(f)
      PROVE  [Next]_vars
  <2>1. CASE PayoutStarts(f)
    BY <2>1 DEF PayoutStarts, Next
  <2>2. CASE ~PayoutStarts(f)
    BY <1>4, <2>2, HandlersLeaveFlow DEF HandlerStep
  <2> QED
    BY <2>1, <2>2
<1>5. CASE PayoutRuns
  BY <1>5 DEF PayoutRuns, Next
<1>6. CASE BotDies
  <2>1. CASE Busy
    BY <1>6, <2>1 DEF BotDies, Crash, Next
  <2>2. CASE ~Busy
    <3>1. pc' = pc
      BY <1>6, <2>2 DEF BotDies, ProcessDies, Busy, TypeOK
    <3>2. poll' = poll
      BY <1>6, <2>2 DEF BotDies, ProcessDies, Busy, TypeOK
    <3> QED
      BY <1>6, <3>1, <3>2 DEF BotDies, ProcessDies, vars
  <2> QED
    BY <2>1, <2>2
<1>7. CASE UNCHANGED allVars
  BY <1>7 DEF allVars
<1> QED
  BY <1>1, <1>2, <1>3, <1>4, <1>5, <1>6, <1>7 DEF BountyNext

\* The bounty handlers use runZapFlow as any other caller does.
THEOREM BountyImplementsZapFlow == BountySpec => Spec
<1>1. BountyInit => Init
  BY DEF BountyInit
<1> QED
  BY <1>1, TypeInit, TypeStep, BountyStepIsFlowStep, PTL DEF BountySpec, Spec

\* So the ledger promises of ZapFlow hold of the payouts: one invoice for each
\* merge event and each retry, receipts backed by money.
THEOREM BountySafety == BountySpec => []SafetyInv
BY BountyImplementsZapFlow, Safety, PTL

\* To the ledger, a payout is an event like every other.
THEOREM BountyImplementsLedger == BountySpec => ImplementsLedger
BY BountyImplementsZapFlow, FlowImplementsLedger, PTL

\* A payout event is never offered to the channel twice, however often the
\* merge event is delivered while its first payout is under way.
THEOREM BountyOneInvoice == BountySpec => []AtMostOneInvoice
BY BountyImplementsZapFlow, OneInvoice, PTL

-----------------------------------------------------------------------------
(* Who is paid, and what closes a bounty.                                  *)

\* A handler past its start works on a bounty that is in the table.  The
\* guards of a payout hold from the point where they are evaluated to the
\* end of the execution: the copy of the bounty does not change any more, and
\* merges and links are not undone.
Guarded ==
    \A f \in Flow :
        /\ pc[f] # "idle" => handler[f] = "flow"
        /\ handler[f] \in {"flow"} \cup Asking => bounties[TargetOf(f)] # NoBounty
        /\ handler[f] = "fetchPr" => TargetOf(f) \in merged
        /\ handler[f] = "flow" => TargetOf(f) \in merged /\ Eligible(f)

\* The types of the bounty's own variables.
BountyShape ==
    /\ bounties \in [BountyTarget -> Bounty \cup {NoBounty}]
    /\ links \subseteq Pubkey
    /\ merged \subseteq BountyTarget
    /\ handler \in [Flow -> {"idle", "flow", "done"} \cup Asking]
    /\ promise \in [Flow -> Bounty \cup {NoBounty}]

BountyInv == SafetyInv /\ BountyShape /\ Guarded /\ PaidBountyIsAttested

\* A trigger is about one of the targets.
LEMMA TargetIsTarget == \A f \in Flow : TargetOf(f) \in BountyTarget
BY DEF TargetOf, BountyTarget, Flow, Src

\* The initial state satisfies the invariant.
LEMMA BountyInvInit == BountyInit => BountyInv
<1> SUFFICES ASSUME BountyInit PROVE BountyInv
  OBVIOUS
<1>1. SafetyInv
  BY SafetyInit DEF BountyInit
<1>2. BountyShape
  BY DEF BountyInit, BountyShape
<1>3. Guarded
  BY DEF BountyInit, Init, Guarded, Asking
<1>4. PaidBountyIsAttested
  BY DEF BountyInit, PaidBountyIsAttested, NoBounty
<1> QED
  BY <1>1, <1>2, <1>3, <1>4 DEF BountyInv

\* A step that leaves the zaps table, the receipts, the copies and the closed
\* bounties alone leaves the closed bounties attested.
LEMMA AttestationStays ==
    ASSUME PaidBountyIsAttested,
           UNCHANGED <<zaps, published>>,
           \A f \in Flow : zaps[f] = "paid" => promise'[f] = promise[f],
           \A t \in BountyTarget : bounties'[t].status = "paid" => bounties[t].status = "paid"
    PROVE  PaidBountyIsAttested'
BY DEF PaidBountyIsAttested, Sent

\* No step leaves the invariant.
LEMMA BountyInvStep == BountyInv /\ [BountyNext]_allVars => BountyInv'
<1> SUFFICES ASSUME BountyInv, [BountyNext]_allVars PROVE BountyInv'
  OBVIOUS
<1> DEFINE Own == BountyShape /\ Guarded /\ PaidBountyIsAttested
<1>0. TypeOK /\ SafetyInv /\ SafetyInv'
  BY BountyStepIsFlowStep, SafetyStep DEF BountyInv, SafetyInv
<1>1. ASSUME NEW c \in Command, RegisterBounty(c) PROVE Own'
  <2>1. BountyShape'
    BY <1>1, CommandAssumption DEF RegisterBounty, BountyInv, BountyShape, Bounty
  <2>2. Guarded'
    BY <1>1
       DEF RegisterBounty, BountyInv, BountyShape, Guarded, Eligible, NoBounty, vars
  <2>3. \A t \in BountyTarget : bounties'[t].status = "paid" => bounties[t].status = "paid"
    BY <1>1 DEF RegisterBounty, BountyInv, BountyShape
  <2>4. PaidBountyIsAttested'
    BY <1>1, <2>3, AttestationStays DEF RegisterBounty, BountyInv, vars
  <2> QED
    BY <2>1, <2>2, <2>4
<1>2. ASSUME NEW p \in Pubkey, Link(p) PROVE Own'
  BY <1>2, AttestationStays
     DEF Link, BountyInv, BountyShape, Guarded, Eligible, vars
<1>3. ASSUME NEW t \in BountyTarget, MergePullRequest(t) PROVE Own'
  BY <1>3, AttestationStays
     DEF MergePullRequest, BountyInv, BountyShape, Guarded, Eligible, vars
<1>4. ASSUME NEW f \in Flow, HandleMergeStatus(f) \/ HandleRetryBounty(f) PROVE Own'
  <2>1. handler[f] = "idle" /\ pc[f] = "idle" /\ zaps[f] = "absent"
    BY <1>0, <1>4
       DEF HandleMergeStatus, HandleRetryBounty, MergeDelivered, BountyInv, Guarded,
           SafetyInv, Parts, RowAtPc
  <2>2. BountyShape'
    BY <1>4, TargetIsTarget
       DEF HandleMergeStatus, HandleRetryBounty, Ends, Reads, Goes, BountyInv, BountyShape, Asking
  <2>3. Guarded'
    <3>1. CASE Ends(f)
      BY <2>1, <3>1 DEF Ends, Goes, BountyInv, BountyShape, Guarded, Eligible, Asking, vars
    <3>2. CASE ~Ends(f)
      <4>1. bounties[TargetOf(f)] # NoBounty
        BY <1>4, <3>2 DEF HandleMergeStatus, HandleRetryBounty, IsOpen, NoBounty
      <4>2. handler'[f] \in Asking /\ (handler'[f] = "fetchPr" => TargetOf(f) \in merged)
        BY <1>4, <3>2
           DEF HandleMergeStatus, HandleRetryBounty, MergeDelivered, Goes, BountyInv,
               BountyShape, Asking
      <4>3. /\ UNCHANGED <<vars, bounties, links, merged>>
            /\ \A g \in Flow \ {f} : handler'[g] = handler[g] /\ promise'[g] = promise[g]
        BY <1>4, <3>2
           DEF HandleMergeStatus, HandleRetryBounty, Goes, Reads, BountyInv, BountyShape
      <4> QED
        BY <2>1, <4>1, <4>2, <4>3 DEF BountyInv, Guarded, Eligible, Asking, vars
    <3> QED
      BY <3>1, <3>2
  <2>4. PaidBountyIsAttested'
    BY <1>4, <2>1, AttestationStays
       DEF HandleMergeStatus, HandleRetryBounty, Ends, Reads, BountyInv, BountyShape, vars
  <2> QED
    BY <2>2, <2>3, <2>4
<1>5. ASSUME NEW f \in Flow, MergeConfirmed(f) \/ MergeNotConfirmed(f) \/ PayoutRefused(f)
      PROVE  Own'
  <2>1. BountyShape'
    BY <1>5
       DEF MergeConfirmed, MergeNotConfirmed, PayoutRefused, Ends, Goes, BountyInv,
           BountyShape, Asking
  <2>2. Guarded'
    BY <1>5
       DEF MergeConfirmed, MergeNotConfirmed, PayoutRefused, Ends, Goes, BountyInv,
           BountyShape, Guarded, Eligible, vars
  <2>3. PaidBountyIsAttested'
    BY <1>5, AttestationStays
       DEF MergeConfirmed, MergeNotConfirmed, PayoutRefused, Ends, BountyInv, vars
  <2> QED
    BY <2>1, <2>2, <2>3
<1>6. ASSUME NEW f \in Flow, PayoutStarts(f) PROVE Own'
  <2>1. BountyShape'
    BY <1>6 DEF PayoutStarts, Goes, BountyInv, BountyShape
  <2>2. Guarded'
    BY <1>0, <1>6
       DEF PayoutStarts, RunZapFlow, Goto, Goes, BountyInv, BountyShape, Guarded, Eligible, TypeOK
  <2>3. PaidBountyIsAttested'
    BY <1>6, AttestationStays DEF PayoutStarts, RunZapFlow, BountyInv
  <2> QED
    BY <2>1, <2>2, <2>3
<1>7. ASSUME PayoutRuns PROVE Own'
  <2>1. Kept
    BY <1>0, <1>7, RunningKeeps DEF PayoutRuns
  <2>2. ASSUME NEW t \in BountyTarget
        PROVE  /\ bounties'[t] \in Bounty \cup {NoBounty}
               /\ bounties[t] # NoBounty => bounties'[t] # NoBounty
    <3>1. CASE \E f \in Flow : TargetOf(f) = t /\ ClosedBy(f)
      <4>1. bounties[t] \in Bounty
        BY <3>1 DEF ClosedBy, BountyInv, BountyShape, Guarded
      <4>2. bounties'[t] = [bounties[t] EXCEPT !.status = "paid"]
        BY <1>7, <3>1 DEF PayoutRuns, ClosesPaidBounty
      <4> QED
        BY <4>1, <4>2 DEF Bounty, NoBounty
    <3>2. CASE ~ \E f \in Flow : TargetOf(f) = t /\ ClosedBy(f)
      BY <1>7, <3>2 DEF PayoutRuns, ClosesPaidBounty, BountyInv, BountyShape
    <3> QED
      BY <3>1, <3>2
  <2>3. BountyShape' /\ Guarded'
    <3>1. BountyShape'
      BY <1>7, <2>2 DEF PayoutRuns, ClosesPaidBounty, BountyInv, BountyShape
    <3>2. Guarded'
      BY <1>7, <2>1, <2>2, TargetIsTarget
         DEF PayoutRuns, ClosesPaidBounty, BountyInv, Guarded, Eligible, Kept
    <3> QED
      BY <3>1, <3>2
  <2>4. ASSUME NEW f \in Flow, ClosedBy(f)
        PROVE  /\ zaps'[f] = "paid" /\ Sent("receipt", f)'
               /\ promise'[f].by # Author[TargetOf(f)]
    BY <1>0, <1>7, <2>1, <2>4
       DEF ClosedBy, PayoutRuns, ClosesPaidBounty, Kept, SafetyInv, Parts, RowAtPc, PaidIsAttested,
           BountyInv, Guarded, Eligible
  <2>5. ASSUME NEW t \in BountyTarget, bounties'[t].status = "paid"
        PROVE  \E f \in Flow : /\ TargetOf(f) = t
                               /\ zaps'[f] = "paid"
                               /\ Sent("receipt", f)'
                               /\ promise'[f].by # Author[t]
    <3>1. CASE \E f \in Flow : TargetOf(f) = t /\ ClosedBy(f)
      BY <2>4, <3>1
    <3>2. CASE ~ \E f \in Flow : TargetOf(f) = t /\ ClosedBy(f)
      <4>1. bounties[t].status = "paid" /\ promise' = promise
        BY <1>7, <2>5, <3>2 DEF PayoutRuns, ClosesPaidBounty
      <4> QED
        BY <2>1, <4>1 DEF BountyInv, PaidBountyIsAttested, Kept
    <3> QED
      BY <3>1, <3>2
  <2>6. PaidBountyIsAttested'
    BY <2>5 DEF PaidBountyIsAttested
  <2> QED
    BY <2>3, <2>6
<1>8. ASSUME BotDies PROVE Own'
  <2>1. BountyShape'
    BY <1>8 DEF BotDies, BountyInv, BountyShape, Asking
  <2>2. \A f \in Flow :
            /\ pc'[f] # "idle" => pc[f] # "idle"
            /\ handler'[f] # "done" => handler'[f] = handler[f]
            /\ handler[f] \notin Asking => handler'[f] = handler[f]
    BY <1>0, <1>8 DEF BotDies, ProcessDies, BountyInv, BountyShape, TypeOK, Live, Publishing
  <2>3. Guarded'
    BY <1>8, <2>2 DEF BotDies, BountyInv, Guarded, Eligible, Asking
  <2>4. PaidBountyIsAttested'
    BY <1>8, AttestationStays DEF BotDies, ProcessDies, BountyInv
  <2> QED
    BY <2>1, <2>3, <2>4
<1>9. ASSUME UNCHANGED allVars PROVE Own'
  BY <1>9, AttestationStays
     DEF allVars, vars, bountyVars, BountyInv, BountyShape, Guarded, Eligible
<1> QED
  BY <1>0, <1>1, <1>2, <1>3, <1>4, <1>5, <1>6, <1>7, <1>8, <1>9
     DEF BountyNext, HandlerStep, BountyInv

\* The inductive invariant of the handlers: a copy of a promise that passed the
\* guards stays one that passes them, over every await up to the payment.
THEOREM BountyInvariant == BountySpec => []BountyInv
BY BountyInvInit, BountyInvStep, PTL DEF BountySpec

\* Type correctness of the handlers and the bounties table: a row that is closed
\* keeps an amount and a creator some command gave it.
THEOREM BountyTypeCorrect == BountySpec => []BountyTypeOK
<1>1. BountyInv => BountyTypeOK
  BY DEF BountyInv, BountyShape, SafetyInv, BountyTypeOK
<1> QED
  BY <1>1, BountyInvariant, PTL

\* A bounty is closed only by an attested payment, whatever fails.
THEOREM ClosedBountiesAreAttested == BountySpec => []PaidBountyIsAttested
<1>1. BountyInv => PaidBountyIsAttested
  BY DEF BountyInv
<1> QED
  BY <1>1, BountyInvariant, PTL

\* A payout only ever starts for a merged pull request of a linked author who
\* did not make the promise.
THEOREM PayoutsAreEligible == BountySpec => []PayoutIsEligible
<1>1. BountyInv => PayoutIsEligible
  BY DEF BountyInv, Guarded, PayoutIsEligible
<1> QED
  BY <1>1, BountyInvariant, PTL

-----------------------------------------------------------------------------
(* What holds from some state on.                                          *)

\* What bars a trigger when its handler asks: a closed bounty, or for a merge
\* event a row.  A run that has not got past that question mints nothing.
Closed(f) == bounties[TargetOf(f)].status = "paid"
Redelivered(f) == Src(f) \in MergeEvent /\ RowExists(Src(f))
Barred(f) ==
    /\ Closed(f) \/ Redelivered(f)
    /\ handler[f] \in {"idle", "done"}
    /\ Unstarted(f)

\* A closed bounty stays closed, and a row stays in its table.
LEMMA BarsStay ==
    ASSUME BountyInv, [BountyNext]_allVars, NEW f \in Flow
    PROVE  (Closed(f) => Closed(f)') /\ (Redelivered(f) => Redelivered(f)')
<1> DEFINE Stay == (Closed(f) => Closed(f)') /\ (Redelivered(f) => Redelivered(f)')
<1>1. TargetOf(f) \in BountyTarget
  BY TargetIsTarget
<1>2. ASSUME NEW c \in Command, RegisterBounty(c) PROVE Stay
  BY <1>1, <1>2
     DEF RegisterBounty, BountyInv, BountyShape, Closed, Redelivered, RowExists, vars, TargetOf, Src
<1>3. CASE PayoutRuns
  <2>1. Closed(f) => Closed(f)'
    <3> SUFFICES ASSUME Closed(f) PROVE bounties'[TargetOf(f)].status = "paid"
      BY DEF Closed, TargetOf, Src
    <3>1. bounties[TargetOf(f)] \in Bounty
      BY <1>1 DEF Closed, BountyInv, BountyShape, NoBounty
    <3>2. bounties'[TargetOf(f)] \in
              {bounties[TargetOf(f)], [bounties[TargetOf(f)] EXCEPT !.status = "paid"]}
      BY <1>1, <1>3 DEF PayoutRuns, ClosesPaidBounty
    <3> QED
      BY <3>1, <3>2 DEF Closed, Bounty
  <2>2. \A g \in Flow : zaps[g] # "absent" => zaps'[g] # "absent"
    BY <1>3, OthersRun DEF PayoutRuns, BountyInv
  <2> QED
    BY <2>1, <2>2 DEF Redelivered, RowExists, Src
<1>4. CASE ~PayoutRuns /\ ~ \E c \in Command : RegisterBounty(c)
  <2>1. UNCHANGED <<bounties, zaps>>
    BY <1>4
       DEF BountyNext, HandlerStep, Link, MergePullRequest, HandleMergeStatus, HandleRetryBounty,
           Ends, MergeConfirmed, MergeNotConfirmed, PayoutStarts, RunZapFlow, PayoutRefused,
           BotDies, ProcessDies, allVars, bountyVars, vars
  <2> QED
    BY <2>1 DEF Closed, Redelivered, RowExists, TargetOf, Src
<1> QED
  BY <1>2, <1>3, <1>4

\* A trigger that is barred stays barred: its handler only ends.
LEMMA BarredStays ==
    ASSUME BountyInv, NothingMinted, [BountyNext]_allVars, NEW f \in Flow, Barred(f)
    PROVE  Barred(f)'
<1>0. SafetyInv /\ TypeOK /\ handler \in [Flow -> {"idle", "flow", "done"} \cup Asking]
  BY DEF BountyInv, BountyShape, SafetyInv
<1>1. (Closed(f) \/ Redelivered(f))'
  BY BarsStay DEF Barred
<1> SUFFICES ASSUME TRUE PROVE handler'[f] \in {"idle", "done"} /\ Unstarted(f)'
  BY <1>1 DEF Barred
<1>2. CASE PayoutRuns
  BY <1>0, <1>2, OthersRun DEF PayoutRuns, ClosesPaidBounty, Barred
<1>3. CASE BotDies
  <2>1. handler'[f] \in {"idle", "done"}
    BY <1>0, <1>3 DEF BotDies, Barred
  <2>2. pc'[f] = "idle" /\ invoice' = invoice
    BY <1>0, <1>3 DEF BotDies, ProcessDies, Barred, Unstarted, Live, Publishing
  <2> QED
    BY <2>1, <2>2 DEF Barred, Unstarted
<1>4. ASSUME NEW g \in Flow, PayoutStarts(g)
      PROVE  handler'[f] \in {"idle", "done"} /\ Unstarted(f)'
  <2>1. g # f
    BY <1>4 DEF PayoutStarts, Barred
  <2> QED
    BY <1>0, <1>4, <2>1 DEF PayoutStarts, RunZapFlow, Goto, Goes, Barred, Unstarted, TypeOK
<1>5. ASSUME NEW g \in Flow, HandleMergeStatus(g) \/ HandleRetryBounty(g)
      PROVE  handler'[f] \in {"idle", "done"} /\ UNCHANGED vars
  <2>1. CASE g = f
    <3>1. Ends(f)
      BY <1>5, <2>1
         DEF HandleMergeStatus, HandleRetryBounty, HasSourceEvent, IsOpen, Barred, Closed,
             Redelivered
    <3> QED
      BY <1>0, <3>1 DEF Ends, Goes
  <2>2. CASE g # f
    BY <1>0, <1>5, <2>2, HandlersLeaveFlow
       DEF HandleMergeStatus, HandleRetryBounty, Ends, Goes, Barred
  <2> QED
    BY <2>1, <2>2
<1>6. ASSUME NEW g \in Flow, MergeConfirmed(g) \/ MergeNotConfirmed(g) \/ PayoutRefused(g)
      PROVE  handler'[f] \in {"idle", "done"} /\ UNCHANGED vars
  <2>1. g # f
    BY <1>6 DEF MergeConfirmed, MergeNotConfirmed, PayoutRefused, Barred
  <2> QED
    BY <1>0, <1>6, <2>1, HandlersLeaveFlow
       DEF MergeConfirmed, MergeNotConfirmed, PayoutRefused, Ends, Goes, Barred
<1>7. ASSUME \/ UNCHANGED allVars
             \/ \E c \in Command : RegisterBounty(c)
             \/ \E p \in Pubkey : Link(p)
             \/ \E t \in BountyTarget : MergePullRequest(t)
      PROVE  handler'[f] \in {"idle", "done"} /\ UNCHANGED vars
  BY <1>7 DEF allVars, bountyVars, RegisterBounty, Link, MergePullRequest, Barred
<1>8. UNCHANGED vars => Unstarted(f)'
  BY DEF vars, Barred, Unstarted, ZapInv
<1> QED
  BY <1>2, <1>3, <1>4, <1>5, <1>6, <1>7, <1>8 DEF BountyNext, HandlerStep

\* Once a bounty is closed, nothing that is handled from then on posts another
\* invoice for it.
THEOREM ClosedBountiesStayPaid == BountySpec => PaidForGood
<1>1. ASSUME NEW f \in Flow
      PROVE  BountySpec => []((handler[f] = "idle" /\ bounties[TargetOf(f)].status = "paid")
                                  => []~Sent("invoiceReply", f))
  <2>1. BountyInv /\ NothingMinted /\ handler[f] = "idle" /\ bounties[TargetOf(f)].status = "paid"
            => Barred(f)
    BY DEF BountyInv, Guarded, NothingMinted, Unstarted, Barred, Closed
  <2>2. BountyInv /\ NothingMinted /\ Barred(f) /\ [BountyNext]_allVars => Barred(f)'
    BY BarredStays
  <2>3. BountyInv /\ Barred(f) => ~Sent("invoiceReply", f)
    BY DEF BountyInv, SafetyInv, Parts, RowAtPc, PostedHasRow, Barred, Unstarted
  <2> QED
    BY <2>1, <2>2, <2>3, BountyInvariant, BountyImplementsZapFlow, NothingMintedHolds, PTL DEF BountySpec
<1> QED
  BY <1>1 DEF PaidForGood

\* A merge event that is delivered again after its row was inserted does not cost
\* an invoice.
THEOREM RedeliveredMergesMintNothing == BountySpec => RedeliveryMintsNothing
<1>1. ASSUME NEW f \in Flow
      PROVE  BountySpec =>
                 []((handler[f] = "idle" /\ Src(f) \in MergeEvent /\ RowExists(Src(f)))
                        => [](invoice[ZapInv(f)] = "none"))
  <2>1. BountyInv /\ NothingMinted /\ handler[f] = "idle" /\ Src(f) \in MergeEvent
            /\ RowExists(Src(f)) => Barred(f)
    BY DEF BountyInv, Guarded, NothingMinted, Unstarted, Barred, Redelivered
  <2>2. BountyInv /\ NothingMinted /\ Barred(f) /\ [BountyNext]_allVars => Barred(f)'
    BY BarredStays
  <2>3. Barred(f) => invoice[ZapInv(f)] = "none"
    BY DEF Barred, Unstarted
  <2> QED
    BY <2>1, <2>2, <2>3, BountyInvariant, BountyImplementsZapFlow, NothingMintedHolds, PTL DEF BountySpec
<1> QED
  BY <1>1 DEF RedeliveryMintsNothing
-----------------------------------------------------------------------------
(* A payout that is reported has closed its bounty.                        *)

\* Only the report of a payment ends an execution as paid.
LEMMA OnlyReportsEndPaid ==
    ASSUME TypeOK, Running, NEW f \in Flow, pc'[f] = "paid"
    PROVE  pc[f] \in {"paidReply", "paid"}
<1> USE DEF TypeOK, Goto
<1> DEFINE Reported == pc[f] \in {"paidReply", "paid"}
<1>1. ASSUME NEW g \in Flow,
             \/ InvoiceMinted(g)
             \/ InvoiceMintedTwice(g)
             \/ FailureReported(g)
             \/ InvoicePosted(g)
             \/ FeeInvoiceMinted(g)
             \/ FeePosted(g)
             \/ ReceiptPublished(g)
             \/ PaidReported(g)
             \/ ExpiryReported(g)
      PROVE  Reported
  BY <1>1, SMT
     DEF InvoiceMinted, InvoiceMintedTwice, FailureReported, InvoicePosted, FeeInvoiceMinted,
         FeePosted, ReceiptPublished, PaidReported, ExpiryReported, Acked, StartPolling
<1>2. ASSUME NEW g \in Flow,
             \/ InvoiceRefused(g)
             \/ FeeInvoiceRefused(g)
             \/ PublishRejected(g)
             \/ ZapSettled(g)
             \/ ZapTimedOut(g)
             \/ ZapPollThrew(g)
      PROVE  Reported
  BY <1>2, SMT
     DEF InvoiceRefused, FeeInvoiceRefused, PublishRejected, StartPolling, ZapSettled,
         ZapTimedOut, ZapPollThrew
<1>3. ASSUME UNCHANGED pc PROVE Reported
  BY <1>3
<1>4. ASSUME NEW g \in Flow,
             RelayAccepts(g) \/ FeeSettled(g) \/ FeeTimedOut(g) \/ FeePollThrew(g)
      PROVE  Reported
  BY <1>3, <1>4 DEF RelayAccepts, FeeSettled, FeeTimedOut, FeePollThrew
<1>5. ASSUME NEW i \in Invoice, PollStep(i) \/ DeadlinePasses(i) \/ Pay(i) PROVE Reported
  BY <1>3, <1>5 DEF PollStep, CheckUnsettled, CheckAgain, DeadlinePasses, Pay
<1> QED
  BY <1>1, <1>2, <1>4, <1>5 DEF Running, FlowStep, FaultStep

\* The bounty of an execution that has ended as paid is closed.
PaidCloses == \A f \in Flow : pc[f] = "paid" => Closed(f)

\* The turn of the event loop that ends an execution as paid closes its bounty,
\* and nothing opens it again.
LEMMA PaidClosesStep == BountyInv /\ PaidCloses /\ [BountyNext]_allVars => PaidCloses'
<1> SUFFICES ASSUME BountyInv, PaidCloses, [BountyNext]_allVars, NEW f \in Flow,
                    pc'[f] = "paid"
             PROVE  Closed(f)'
  BY DEF PaidCloses, Closed, TargetOf, Src
<1>0. TypeOK /\ TargetOf(f) \in BountyTarget
  BY TargetIsTarget DEF BountyInv, SafetyInv
<1>1. CASE pc[f] = "paid"
  BY <1>1, BarsStay DEF PaidCloses
<1>2. CASE PayoutRuns /\ pc[f] # "paid"
  <2>1. ClosedBy(f)
    BY <1>0, <1>2, OnlyReportsEndPaid DEF PayoutRuns, ClosedBy
  <2>2. bounties[TargetOf(f)] \in Bounty
    BY <1>0, <2>1 DEF ClosedBy, BountyInv, BountyShape, Guarded
  <2>3. bounties'[TargetOf(f)] = [bounties[TargetOf(f)] EXCEPT !.status = "paid"]
    BY <1>0, <1>2, <2>1 DEF PayoutRuns, ClosesPaidBounty
  <2>4. bounties'[TargetOf(f)].status = "paid"
    BY <2>2, <2>3 DEF Bounty
  <2> QED
    BY <2>4 DEF Closed, TargetOf, Src
<1>3. ASSUME ~PayoutRuns PROVE pc[f] = "paid"
  <2>1. CASE BotDies
    BY <1>0, <2>1 DEF BotDies, ProcessDies, TypeOK
  <2>2. ASSUME NEW g \in Flow, PayoutStarts(g) PROVE pc[f] = "paid"
    BY <1>0, <2>2 DEF PayoutStarts, RunZapFlow, Goto, TypeOK
  <2>3. CASE ~BotDies /\ ~ \E g \in Flow : PayoutStarts(g)
    <3>1. UNCHANGED vars
      BY <1>3, <2>3, HandlersLeaveFlow
         DEF BountyNext, HandlerStep, RegisterBounty, Link, MergePullRequest, allVars
    <3> QED
      BY <3>1 DEF vars
  <2> QED
    BY <2>1, <2>2, <2>3
<1> QED
  BY <1>1, <1>2, <1>3

\* Once its receipt is on the relay, a payout closes its bounty for good, unless
\* its execution has still to report the payment or broke before it could.
THEOREM ReceiptsCloseBounties == BountySpec => []ReceiptClosesBounty
<1>1. BountyInit => PaidCloses
  BY DEF BountyInit, Init, PaidCloses
<1>2. BountyInv /\ PaidCloses => ReceiptClosesBounty
  BY DEF BountyInv, SafetyInv, Parts, ReceiptAtPc, PaidCloses, Closed, ReceiptClosesBounty
<1> QED
  BY <1>1, <1>2, PaidClosesStep, BountyInvariant, PTL DEF BountySpec
=============================================================================
