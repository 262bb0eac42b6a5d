------------------------------ MODULE ZapFlow ------------------------------
(***************************************************************************)
(* runZapFlow (src/bot/zap-flow.ts), the flow every trigger of buzz-zaps   *)
(* ends in: ask LaWallet for an invoice, record it, post it, ask for the   *)
(* fee invoice, poll until the invoice settles or the deadline passes,     *)
(* publish the receipt.                                                    *)
(*                                                                         *)
(* An execution of the flow is a pair <<source event, delivery>>: the      *)
(* relay delivers an event again after a reconnection, a resubscription or *)
(* a restart, and each delivery runs the handler again.  Node runs the     *)
(* executions on one thread, so an action is the synchronous stretch of    *)
(* code between two awaits; everything else interleaves.  Every execution  *)
(* asks for at most one invoice and inserts at most one row, so invoices   *)
(* and rows are named after the execution that made them.                  *)
(***************************************************************************)
EXTENDS Integers, FiniteSets, Executions

CONSTANTS
    AmountSats,      \* sats each source asks for
    FeeBps,          \* fee_bps of the community, 0 when it charges no fee
    PaysFeeWallet,   \* sources whose target is the fee wallet itself
    Faults           \* what the environment may do wrong to each source's flow

FaultKind == {"invoice", "publish", "verify"}

ASSUME SourceAssumption == PaysFeeWallet \subseteq Source
ASSUME AmountAssumption == AmountSats \in [Source -> Nat \ {0}]
ASSUME FeeBpsAssumption == FeeBps \in 0..1000
ASSUME FaultsAssumption == Faults \in [Source -> SUBSET FaultKind]

VARIABLES
    pc,              \* where each execution of runZapFlow is
    zaps,            \* status of the row an execution inserted in the zaps table
    fees,            \* status of the row an execution inserted in the fees table
    invoice,         \* what LaWallet holds for each invoice (external)
    poll,            \* the pollUntilSettled loop running for each invoice
    late,            \* invoices whose polling deadline has passed
    published        \* events the relay has accepted, named after their pc

vars == <<pc, zaps, fees, invoice, poll, late, published>>

-----------------------------------------------------------------------------

\* The two invoices an execution may ask for.
ZapInv(f) == <<"zap", f>>
FeeInv(f) == <<"fee", f>>
Invoice == {"zap", "fee"} \X Flow

\* The awaits of runZapFlow.  At a Publishing one a message is on its way to
\* the relay; at "poll" the loop of pollUntilSettled has the control.
Publishing == {"failedReply", "invoiceReply", "feeReply",
               "receipt", "expiredReply", "paidReply"}
Outcome == {"paid", "expired", "invoice_failed", "threw", "killed"}
Live == Publishing \cup {"request", "feeRequest", "poll"}

\* The status a row may have.  The schema also knows 'failed', but nothing
\* calls markFailed: an execution that breaks leaves its row pending.
RowStatus == {"absent", "pending", "paid", "expired"}

\* A paid invoice remembers whether the money beat the polling deadline.
Settled == {"paid", "paidLate"}

TypeOK ==
    /\ pc \in [Flow -> {"idle"} \cup Live \cup Outcome]
    /\ zaps \in [Flow -> RowStatus]
    /\ fees \in [Flow -> RowStatus]
    /\ invoice \in [Invoice -> {"none", "unpaid"} \cup Settled]
    /\ poll \in [Invoice -> {"off", "check", "sleep"}]
    /\ late \subseteq Invoice
    /\ published \subseteq Publishing \X Flow

Init ==
    /\ pc = [f \in Flow |-> "idle"]
    /\ zaps = [f \in Flow |-> "absent"]
    /\ fees = [f \in Flow |-> "absent"]
    /\ invoice = [i \in Invoice |-> "none"]
    /\ poll = [i \in Invoice |-> "off"]
    /\ late = {}
    /\ published = {}

-----------------------------------------------------------------------------
(* Queries of the stores and of the configuration.                         *)

\* source_event_id is UNIQUE in the zaps table.
RowNeverFound(s) == FALSE
RowExists(s) == \E g \in Flow : Src(g) = s /\ zaps[g] # "absent"

FeeSats(s) == (AmountSats[s] * FeeBps) \div 10000

FeeOnFeeWallet(s) == FeeBps # 0 /\ FeeSats(s) >= 1

FeeDue(s) ==
    /\ FeeBps # 0
    /\ s \notin PaysFeeWallet
    /\ FeeSats(s) >= 1

Sent(kind, f) == <<kind, f>> \in published

Goto(f, label) == pc' = [pc EXCEPT ![f] = label]

-----------------------------------------------------------------------------
(* The start of an execution and the invoice request.                      *)

\* A handler calls runZapFlow for its delivery of the event.  Whatever it asked
\* the table before, it asked it some awaits ago: nothing is assumed of it here.
RunZapFlow(f) ==
    /\ pc[f] = "idle"
    /\ Goto(f, "request")
    /\ UNCHANGED <<zaps, fees, invoice, poll, late, published>>

InvoiceMinted(f) ==
    /\ pc[f] = "request"
    /\ ~RowExists(Src(f))
    /\ invoice' = [invoice EXCEPT ![ZapInv(f)] = "unpaid"]
    /\ zaps' = [zaps EXCEPT ![f] = "pending"]
    /\ Goto(f, "invoiceReply")
    /\ UNCHANGED <<fees, poll, late, published>>

\* The invoice exists at the wallet, but insertPending hits the UNIQUE
\* constraint and the execution throws before anybody sees it.
InvoiceMintedTwice(f) ==
    /\ pc[f] = "request"
    /\ RowExists(Src(f))
    /\ invoice' = [invoice EXCEPT ![ZapInv(f)] = "unpaid"]
    /\ Goto(f, "threw")
    /\ UNCHANGED <<zaps, fees, poll, late, published>>

InvoiceRefusalEscapes(f) ==
    /\ "invoice" \in Faults[Src(f)]
    /\ pc[f] = "request"
    /\ Goto(f, "threw")
    /\ UNCHANGED <<zaps, fees, invoice, poll, late, published>>

InvoiceRefused(f) ==
    /\ "invoice" \in Faults[Src(f)]
    /\ pc[f] = "request"
    /\ Goto(f, "failedReply")
    /\ UNCHANGED <<zaps, fees, invoice, poll, late, published>>

-----------------------------------------------------------------------------
(* Publishing.  The relay accepts the event, and later its OK reaches the  *)
(* bot; the promise may be rejected before or after the relay has it.      *)

RelayAccepts(f) ==
    /\ pc[f] \in Publishing
    /\ ~Sent(pc[f], f)
    /\ published' = published \cup {<<pc[f], f>>}
    /\ UNCHANGED <<pc, zaps, fees, invoice, poll, late>>

RejectedReceiptExpires(f) ==
    /\ "publish" \in Faults[Src(f)]
    /\ pc[f] \in Publishing
    /\ zaps' = [zaps EXCEPT ![f] = IF pc[f] = "receipt" THEN "expired" ELSE @]
    /\ Goto(f, "threw")
    /\ UNCHANGED <<fees, invoice, poll, late, published>>

PublishRejected(f) ==
    /\ "publish" \in Faults[Src(f)]
    /\ pc[f] \in Publishing
    /\ Goto(f, "threw")
    /\ UNCHANGED <<zaps, fees, invoice, poll, late, published>>

Acked(f, label) == pc[f] = label /\ Sent(label, f)

FailureReported(f) ==
    /\ Acked(f, "failedReply")
    /\ Goto(f, "invoice_failed")
    /\ UNCHANGED <<zaps, fees, invoice, poll, late, published>>

StartPolling(f) ==
    /\ Goto(f, "poll")
    /\ poll' = [poll EXCEPT ![ZapInv(f)] = "check"]

InvoicePosted(f) ==
    /\ Acked(f, "invoiceReply")
    /\ \/ /\ FeeDue(Src(f))
          /\ Goto(f, "feeRequest")
          /\ UNCHANGED poll
       \/ /\ ~FeeDue(Src(f))
          /\ StartPolling(f)
    /\ UNCHANGED <<zaps, fees, invoice, late, published>>

ReceiptNotRecorded(f) ==
    /\ Acked(f, "receipt")
    /\ Goto(f, "paidReply")
    /\ UNCHANGED <<zaps, fees, invoice, poll, late, published>>

ReceiptPublished(f) ==
    /\ Acked(f, "receipt")
    /\ zaps' = [zaps EXCEPT ![f] = "paid"]
    /\ Goto(f, "paidReply")
    /\ UNCHANGED <<fees, invoice, poll, late, published>>

PaidReported(f) ==
    /\ Acked(f, "paidReply")
    /\ Goto(f, "paid")
    /\ UNCHANGED <<zaps, fees, invoice, poll, late, published>>

ExpiryReported(f) ==
    /\ Acked(f, "expiredReply")
    /\ Goto(f, "expired")
    /\ UNCHANGED <<zaps, fees, invoice, poll, late, published>>

-----------------------------------------------------------------------------
(* The fee middleware.                                                     *)

FeeInvoiceMinted(f) ==
    /\ pc[f] = "feeRequest"
    /\ invoice' = [invoice EXCEPT ![FeeInv(f)] = "unpaid"]
    /\ Goto(f, "feeReply")
    /\ UNCHANGED <<zaps, fees, poll, late, published>>

FeeRefusalEscapes(f) ==
    /\ "invoice" \in Faults[Src(f)]
    /\ pc[f] = "feeRequest"
    /\ Goto(f, "threw")
    /\ UNCHANGED <<zaps, fees, invoice, poll, late, published>>

FeeInvoiceRefused(f) ==
    /\ "invoice" \in Faults[Src(f)]
    /\ pc[f] = "feeRequest"
    /\ StartPolling(f)
    /\ UNCHANGED <<zaps, fees, invoice, late, published>>

\* The fee row is inserted once the fee reply is out; from here the fee is
\* polled in the background while the flow polls its own invoice.
FeePosted(f) ==
    /\ Acked(f, "feeReply")
    /\ fees' = [fees EXCEPT ![f] = "pending"]
    /\ poll' = [poll EXCEPT ![FeeInv(f)] = "check", ![ZapInv(f)] = "check"]
    /\ Goto(f, "poll")
    /\ UNCHANGED <<zaps, invoice, late, published>>

-----------------------------------------------------------------------------
(* pollUntilSettled: check, sleep, and check again while the deadline has  *)
(* not passed.  The deadline is looked at only before a check.             *)

AnyAnswerSettles(i) ==
    /\ poll[i] = "check"
    /\ poll' = [poll EXCEPT ![i] = "off"]

CheckSettled(i) ==
    /\ poll[i] = "check"
    /\ invoice[i] \in Settled
    /\ poll' = [poll EXCEPT ![i] = "off"]

CheckThrew(i) ==
    /\ "verify" \in Faults[Src(i[2])]
    /\ poll[i] = "check"
    /\ poll' = [poll EXCEPT ![i] = "off"]

LoopExpired(i) ==
    /\ poll[i] = "sleep"
    /\ i \in late
    /\ poll' = [poll EXCEPT ![i] = "off"]

CheckUnsettled(i) ==
    /\ poll[i] = "check"
    /\ invoice[i] = "unpaid"
    /\ poll' = [poll EXCEPT ![i] = "sleep"]
    /\ UNCHANGED <<pc, zaps, fees, invoice, late, published>>

CheckForever(i) ==
    /\ poll[i] = "sleep"
    /\ poll' = [poll EXCEPT ![i] = "check"]
    /\ UNCHANGED <<pc, zaps, fees, invoice, late, published>>

CheckAgain(i) ==
    /\ poll[i] = "sleep"
    /\ i \notin late
    /\ poll' = [poll EXCEPT ![i] = "check"]
    /\ UNCHANGED <<pc, zaps, fees, invoice, late, published>>

DeadlinePasses(i) ==
    /\ poll[i] # "off"
    /\ i \notin late
    /\ late' = late \cup {i}
    /\ UNCHANGED <<pc, zaps, fees, invoice, poll, published>>

PaidBeforeReceipt(f) ==
    /\ CheckSettled(ZapInv(f))
    /\ zaps' = [zaps EXCEPT ![f] = "paid"]
    /\ Goto(f, "receipt")
    /\ UNCHANGED <<fees, invoice, late, published>>

ZapSettled(f) ==
    /\ CheckSettled(ZapInv(f))
    /\ Goto(f, "receipt")
    /\ UNCHANGED <<zaps, fees, invoice, late, published>>

TimeoutNotRecorded(f) ==
    /\ LoopExpired(ZapInv(f))
    /\ Goto(f, "expiredReply")
    /\ UNCHANGED <<zaps, fees, invoice, late, published>>

ZapTimedOut(f) ==
    /\ LoopExpired(ZapInv(f))
    /\ zaps' = [zaps EXCEPT ![f] = "expired"]
    /\ Goto(f, "expiredReply")
    /\ UNCHANGED <<fees, invoice, late, published>>

ZapPollThrewMarksFailed(f) ==
    /\ CheckThrew(ZapInv(f))
    /\ zaps' = [zaps EXCEPT ![f] = "failed"]
    /\ Goto(f, "threw")
    /\ UNCHANGED <<fees, invoice, late, published>>

ZapPollThrew(f) ==
    /\ CheckThrew(ZapInv(f))
    /\ Goto(f, "threw")
    /\ UNCHANGED <<zaps, fees, invoice, late, published>>

WatchesZapInvoice(f) ==
    /\ poll[FeeInv(f)] = "check"
    /\ invoice[ZapInv(f)] \in Settled
    /\ poll' = [poll EXCEPT ![FeeInv(f)] = "off"]
    /\ fees' = [fees EXCEPT ![f] = "paid"]
    /\ UNCHANGED <<pc, zaps, invoice, late, published>>

FeeSettled(f) ==
    /\ CheckSettled(FeeInv(f))
    /\ fees' = [fees EXCEPT ![f] = "paid"]
    /\ UNCHANGED <<pc, zaps, invoice, late, published>>

FeeTimedOut(f) ==
    /\ LoopExpired(FeeInv(f))
    /\ fees' = [fees EXCEPT ![f] = "expired"]
    /\ UNCHANGED <<pc, zaps, invoice, late, published>>

\* The watcher catches the error and only logs it.
FeePollThrew(f) ==
    /\ CheckThrew(FeeInv(f))
    /\ UNCHANGED <<pc, zaps, fees, invoice, late, published>>

-----------------------------------------------------------------------------
(* The environment: whoever pays an invoice seen in the channel, and the   *)
(* process dying or being shut down.  The stores survive it; nothing on    *)
(* the way back up looks for rows left pending.                            *)

Offered(i) ==
    IF i[1] = "zap" THEN Sent("invoiceReply", i[2]) ELSE Sent("feeReply", i[2])

Pay(i) ==
    /\ invoice[i] = "unpaid"
    /\ Offered(i)
    /\ invoice' = [invoice EXCEPT ![i] = IF i \in late THEN "paidLate" ELSE "paid"]
    /\ UNCHANGED <<pc, zaps, fees, poll, late, published>>

Busy ==
    \/ \E f \in Flow : pc[f] \in Live
    \/ \E i \in Invoice : poll[i] # "off"

ProcessDies ==
    /\ MayDie
    /\ pc' = [f \in Flow |-> IF pc[f] \in Live THEN "killed" ELSE pc[f]]
    /\ poll' = [i \in Invoice |-> "off"]
    /\ UNCHANGED <<zaps, fees, invoice, late, published>>

Crash == Busy /\ ProcessDies

-----------------------------------------------------------------------------

\* What the bot does by itself once an execution has started, except failing.
FlowStep(f) ==
    \/ InvoiceMinted(f)
    \/ InvoiceMintedTwice(f)
    \/ RelayAccepts(f)
    \/ FailureReported(f)
    \/ InvoicePosted(f)
    \/ FeeInvoiceMinted(f)
    \/ FeePosted(f)
    \/ ReceiptPublished(f)
    \/ PaidReported(f)
    \/ ExpiryReported(f)
    \/ ZapSettled(f)
    \/ ZapTimedOut(f)
    \/ FeeSettled(f)
    \/ FeeTimedOut(f)

PollStep(i) ==
    \/ CheckUnsettled(i)
    \/ CheckAgain(i)

FaultStep(f) ==
    \/ InvoiceRefused(f)
    \/ FeeInvoiceRefused(f)
    \/ PublishRejected(f)
    \/ ZapPollThrew(f)
    \/ FeePollThrew(f)

Running ==
    \/ \E f \in Flow : FlowStep(f) \/ FaultStep(f)
    \/ \E i \in Invoice : PollStep(i) \/ DeadlinePasses(i) \/ Pay(i)

Next ==
    \/ \E f \in Flow : RunZapFlow(f)
    \/ Running
    \/ Crash

Spec == Init /\ [][Next]_vars

-----------------------------------------------------------------------------
(* Safety.                                                                 *)

\* However often an event is delivered, at most one of its invoices reaches
\* the channel: the UNIQUE row is inserted before the invoice is posted.
AtMostOneInvoice ==
    \A f, g \in Flow :
        (Src(f) = Src(g) /\ Sent("invoiceReply", f) /\ Sent("invoiceReply", g)) => f = g

\* A receipt on the relay attests money that did arrive, for an invoice that
\* was posted, and its row can only still be pending or be paid.
ReceiptBacked ==
    \A f \in Flow :
        Sent("receipt", f) =>
            /\ invoice[ZapInv(f)] \in Settled
            /\ Sent("invoiceReply", f)
            /\ zaps[f] \in {"pending", "paid"}

\* A row says paid only once its receipt is on the relay, although the
\* publish may be rejected and the process may die on either side of it.
PaidIsAttested ==
    \A f \in Flow : zaps[f] = "paid" => Sent("receipt", f)

\* The outcome runZapFlow returns, which decides whether a bounty is closed,
\* agrees with the row; only an execution that broke leaves a row pending.
OutcomeMatchesRow ==
    \A f \in Flow :
        /\ pc[f] = "paid" => zaps[f] = "paid"
        /\ pc[f] = "expired" => zaps[f] = "expired" /\ ~Sent("receipt", f)
        /\ pc[f] = "invoice_failed" => zaps[f] = "absent"
        /\ (pc[f] \in Outcome /\ zaps[f] = "pending") => pc[f] \in {"threw", "killed"}

\* A fee is asked for once per event, on top of an invoice that was posted,
\* and the fees table books it as paid only if the fee invoice itself was.
FeeBacked ==
    \A f \in Flow :
        /\ Sent("feeReply", f) => Sent("invoiceReply", f)
        /\ fees[f] = "paid" => invoice[FeeInv(f)] \in Settled
        /\ \A g \in Flow :
            (Src(f) = Src(g) /\ Sent("feeReply", f) /\ Sent("feeReply", g)) => f = g

\* A pending row has somebody at work on it: an execution on its way to the poll
\* or a loop that looks at its invoice.  Only a rejected publish, a failing check
\* or the end of the process leaves one behind, and a fee that cannot be asked
\* for never does.
NoRowIsForgotten ==
    \A f \in Flow :
        /\ zaps[f] = "pending" =>
              \/ pc[f] \in Live \cup {"killed"}
              \/ Faults[Src(f)] \cap {"publish", "verify"} # {}
        /\ pc[f] = "poll" => poll[ZapInv(f)] # "off"
        /\ fees[f] = "pending" =>
              \/ poll[FeeInv(f)] # "off"
              \/ MayDie
              \/ "verify" \in Faults[Src(f)]

\* An execution throws only when the relay or a check has failed it, or when
\* another delivery of its event has the row: a refused invoice is answered, and
\* one of the fee is done without.
ExceptionsAreExplained ==
    \A f \in Flow : pc[f] = "threw" =>
        \/ Faults[Src(f)] \cap {"publish", "verify"} # {}
        \/ zaps[f] = "absent" /\ RowExists(Src(f))

\* The flow implements the ledger of ZapLedger: whichever execution made the
\* row, the event behaves as one that is recorded, settled and closed once.
EventsOf(flows) == {Src(f) : f \in flows}

RecordedEvents == EventsOf({f \in Flow : zaps[f] # "absent"})
SettledEvents ==
    EventsOf({f \in Flow : zaps[f] # "absent" /\ invoice[ZapInv(f)] \in Settled})
AttestedEvents == EventsOf({f \in Flow : Sent("receipt", f)})
PaidEvents == EventsOf({f \in Flow : zaps[f] = "paid"})
ExpiredEvents == EventsOf({f \in Flow : zaps[f] = "expired"})

Ledger == INSTANCE ZapLedger WITH
    recorded <- RecordedEvents,
    settled  <- SettledEvents,
    attested <- AttestedEvents,
    paid     <- PaidEvents,
    expired  <- ExpiredEvents

\* Every step of the flow is a step of the ledger or leaves it alone.
ImplementsLedger == Ledger!LedgerSpec

\* What the triggers know of the flow (ZapCall): an execution is called once,
\* and the row of an event, once inserted, stays and is the only one.
CalledFlows == {f \in Flow : pc[f] # "idle"}
RowsInserted == {f \in Flow : zaps[f] # "absent"}

Calls == INSTANCE ZapCall WITH called <- CalledFlows, rows <- RowsInserted

\* Every step of the flow calls an execution, inserts its row, or does neither.
ImplementsCalls == Calls!CallSpec

-----------------------------------------------------------------------------
(* Liveness.                                                               *)

\* When only invoice requests fail for an event, its row is closed, the fee
\* invoice being refused or not: the fee cannot stop the zap, and what goes
\* wrong with the flows of other events does not either.
OnlyInvoicesFail == {f \in Flow : Faults[Src(f)] \subseteq {"invoice"}}

RowsClose ==
    \A f \in OnlyInvoicesFail :
        zaps[f] = "pending" ~> zaps[f] \in {"paid", "expired"}

\* A payment a check is still to see ends in a paid row and a receipt, also
\* when the deadline passes while the answer is on its way.
SeenPaymentIsRecorded ==
    \A f \in OnlyInvoicesFail :
        (poll[ZapInv(f)] = "check" /\ invoice[ZapInv(f)] \in Settled)
            ~> (zaps[f] = "paid" /\ Sent("receipt", f))

-----------------------------------------------------------------------------
(* What the comments and the README say, and the code does not do.         *)

\* "A fee invoice failing must never affect the main zap" (zap-flow.ts): an
\* execution that is busy with the fee always goes on with the zap.
FeeNeverAbortsZap ==
    [][\A f \in Flow :
          pc[f] \in {"feeRequest", "feeReply"} => pc'[f] # "threw"]_vars

\* "Polls the LUD-21 verify URL until settled or timeoutMs elapses"
\* (lawallet-client.ts): no poll is given up before either.
PollEndsSettledOrTimedOut ==
    [][\A i \in Invoice :
          (poll[i] # "off" /\ poll'[i] = "off") => (invoice[i] \in Settled \/ i \in late)]_vars
=============================================================================
