--------------------------- MODULE ZapFlowProofs ---------------------------
(***************************************************************************)
(* Proofs about ZapFlow, for every set of events, every number of          *)
(* deliveries, every fee and every combination of faults.                  *)
(***************************************************************************)
EXTENDS ZapFlow, TLAPS

-----------------------------------------------------------------------------
(* Names.                                                                  *)

\* The invoices of the executions are told apart, and there are no others.
LEMMA InvoiceNames ==
    /\ \A f \in Flow : ZapInv(f) \in Invoice /\ FeeInv(f) \in Invoice
    /\ \A f, g : ZapInv(f) # FeeInv(g)
    /\ \A f, g : ZapInv(f) = ZapInv(g) => f = g
    /\ \A f, g : FeeInv(f) = FeeInv(g) => f = g
    /\ \A i \in Invoice : \E f \in Flow : i = ZapInv(f) \/ i = FeeInv(f)
BY DEF ZapInv, FeeInv, Invoice

\* An invoice can be paid once the message that carries it is on the relay.
LEMMA OfferedMeansSent ==
    ASSUME NEW f \in Flow
    PROVE  /\ Offered(ZapInv(f)) <=> Sent("invoiceReply", f)
           /\ Offered(FeeInv(f)) <=> Sent("feeReply", f)
BY DEF Offered, ZapInv, FeeInv

\* The fee (fee_bps, at most 1000) is never more than a tenth of the zap, and
\* a fee that is due is at least one sat, whatever the rounding does.
THEOREM FeeIsSmall ==
    ASSUME NEW s \in Source
    PROVE  /\ 10 * FeeSats(s) <= AmountSats[s]
           /\ FeeDue(s) => FeeSats(s) \in 1..AmountSats[s]
<1>1. AmountSats[s] \in Nat /\ FeeBps \in Nat /\ FeeBps <= 1000
  BY AmountAssumption, FeeBpsAssumption
<1>2. \A a, b \in Nat : b <= 1000 => a * b <= a * 1000
  BY SMT
<1>3. AmountSats[s] * FeeBps \in Nat /\ AmountSats[s] * FeeBps <= AmountSats[s] * 1000
  BY <1>1, <1>2, SMT
<1>4. \A a, p \in Nat : p <= a * 1000 => p \div 10000 \in Nat /\ 10 * (p \div 10000) <= a
  BY SMT
<1>5. FeeSats(s) \in Nat /\ 10 * FeeSats(s) <= AmountSats[s]
  BY <1>1, <1>3, <1>4 DEF FeeSats
<1> QED
  BY <1>1, <1>5 DEF FeeDue
-----------------------------------------------------------------------------
(* Type correctness.                                                       *)

\* The initial state is well typed.
LEMMA TypeInit == Init => TypeOK
BY FaultsAssumption DEF Init, TypeOK, Live, Outcome, RowStatus, Settled, Publishing

\* No step leaves the types.
LEMMA TypeStep == TypeOK /\ [Next]_vars => TypeOK'
<1> SUFFICES ASSUME TypeOK, [Next]_vars PROVE TypeOK'
  OBVIOUS
<1> USE InvoiceNames DEF TypeOK, Live, Outcome, RowStatus, Settled, Publishing, Goto
<1>1. ASSUME NEW f \in Flow, RunZapFlow(f) PROVE TypeOK'
  BY <1>1 DEF RunZapFlow
<1>2. ASSUME NEW f \in Flow, InvoiceMinted(f) PROVE TypeOK'
  BY <1>2 DEF InvoiceMinted
<1>3. ASSUME NEW f \in Flow, InvoiceMintedTwice(f) PROVE TypeOK'
  BY <1>3 DEF InvoiceMintedTwice
<1>4. ASSUME NEW f \in Flow, RelayAccepts(f) PROVE TypeOK'
  BY <1>4 DEF RelayAccepts
<1>5. ASSUME NEW f \in Flow, FailureReported(f) PROVE TypeOK'
  BY <1>5 DEF FailureReported
<1>6. ASSUME NEW f \in Flow, InvoicePosted(f) PROVE TypeOK'
  BY <1>6 DEF InvoicePosted, StartPolling
<1>7. ASSUME NEW f \in Flow, FeeInvoiceMinted(f) PROVE TypeOK'
  BY <1>7 DEF FeeInvoiceMinted
<1>8. ASSUME NEW f \in Flow, FeePosted(f) PROVE TypeOK'
  BY <1>8 DEF FeePosted
<1>9. ASSUME NEW f \in Flow, ReceiptPublished(f) PROVE TypeOK'
  BY <1>9 DEF ReceiptPublished
<1>10. ASSUME NEW f \in Flow, PaidReported(f) PROVE TypeOK'
  BY <1>10 DEF PaidReported
<1>11. ASSUME NEW f \in Flow, ExpiryReported(f) PROVE TypeOK'
  BY <1>11 DEF ExpiryReported
<1>12. ASSUME NEW f \in Flow, ZapSettled(f) PROVE TypeOK'
  BY <1>12 DEF ZapSettled, CheckSettled
<1>13. ASSUME NEW f \in Flow, ZapTimedOut(f) PROVE TypeOK'
  BY <1>13 DEF ZapTimedOut, LoopExpired
<1>14. ASSUME NEW f \in Flow, FeeSettled(f) PROVE TypeOK'
  BY <1>14 DEF FeeSettled, CheckSettled
<1>15. ASSUME NEW f \in Flow, FeeTimedOut(f) PROVE TypeOK'
  BY <1>15 DEF FeeTimedOut, LoopExpired
<1>16. ASSUME NEW f \in Flow, InvoiceRefused(f) PROVE TypeOK'
  BY <1>16 DEF InvoiceRefused
<1>17. ASSUME NEW f \in Flow, FeeInvoiceRefused(f) PROVE TypeOK'
  BY <1>17 DEF FeeInvoiceRefused, StartPolling
<1>18. ASSUME NEW f \in Flow, PublishRejected(f) PROVE TypeOK'
  BY <1>18 DEF PublishRejected
<1>19. ASSUME NEW f \in Flow, ZapPollThrew(f) PROVE TypeOK'
  BY <1>19 DEF ZapPollThrew, CheckThrew
<1>20. ASSUME NEW f \in Flow, FeePollThrew(f) PROVE TypeOK'
  BY <1>20 DEF FeePollThrew, CheckThrew
<1>21. ASSUME NEW i \in Invoice, CheckUnsettled(i) PROVE TypeOK'
  BY <1>21 DEF CheckUnsettled
<1>22. ASSUME NEW i \in Invoice, CheckAgain(i) PROVE TypeOK'
  BY <1>22 DEF CheckAgain
<1>23. ASSUME NEW i \in Invoice, DeadlinePasses(i) PROVE TypeOK'
  BY <1>23 DEF DeadlinePasses
<1>24. ASSUME NEW i \in Invoice, Pay(i) PROVE TypeOK'
  BY <1>24 DEF Pay
<1>25. CASE Crash
  BY <1>25 DEF Crash, ProcessDies
<1>26. CASE UNCHANGED vars
  BY <1>26 DEF vars
<1> QED
  BY <1>1, <1>2, <1>3, <1>4, <1>5, <1>6, <1>7, <1>8, <1>9, <1>10, <1>11, <1>12, <1>13,
     <1>14, <1>15, <1>16, <1>17, <1>18, <1>19, <1>20, <1>21, <1>22, <1>23, <1>24, <1>25,
     <1>26
     DEF Next, Running, FlowStep, FaultStep, PollStep

\* Type correctness, for every instance of the constants.
THEOREM TypeCorrect == Spec => []TypeOK
BY TypeInit, TypeStep, PTL DEF Spec

-----------------------------------------------------------------------------
(* The inductive invariant: what the row, the messages and the polling     *)
(* loops look like at each await of an execution.                          *)

\* The UNIQUE column: two executions with a row have different events.
OneRow ==
    \A f, g \in Flow :
        (Src(f) = Src(g) /\ zaps[f] # "absent" /\ zaps[g] # "absent") => f = g

\* How far the row is at each point of the execution.
RowAtPc ==
    \A f \in Flow :
        /\ pc[f] \in {"idle", "request", "failedReply", "invoice_failed"} => zaps[f] = "absent"
        /\ pc[f] \in {"invoiceReply", "feeRequest", "feeReply", "poll", "receipt"}
               => zaps[f] = "pending"
        /\ pc[f] \in {"expiredReply", "expired"} => zaps[f] = "expired"
        /\ pc[f] \in {"paidReply", "paid"} => zaps[f] = "paid"

\* The invoice is on the relay from the first await after its reply on, and
\* whatever is on the relay has a row.
PostedHasRow ==
    \A f \in Flow :
        /\ Sent("invoiceReply", f) => zaps[f] # "absent"
        /\ pc[f] \in {"feeRequest", "feeReply", "poll", "receipt"} => Sent("invoiceReply", f)

\* A loop runs for the zap invoice only while its execution waits for it.
PolledAtPoll == \A f \in Flow : poll[ZapInv(f)] # "off" => pc[f] = "poll"

\* The receipt: published only over a settled invoice, before the row is
\* paid, by an execution that no longer can do anything but say so.
ReceiptAtPc ==
    \A f \in Flow :
        /\ pc[f] = "receipt" => invoice[ZapInv(f)] \in Settled
        /\ Sent("receipt", f) => pc[f] \in {"receipt", "paidReply", "paid", "threw", "killed"}

\* The fee row: inserted when the zap starts to be polled, after its reply.
FeeAtPc ==
    \A f \in Flow :
        /\ pc[f] \in {"idle", "request", "failedReply", "invoiceReply", "feeRequest", "feeReply"}
               => fees[f] = "absent" /\ poll[FeeInv(f)] = "off"

Parts ==
    /\ OneRow
    /\ RowAtPc
    /\ PostedHasRow
    /\ PolledAtPoll
    /\ ReceiptAtPc
    /\ FeeAtPc
    /\ ReceiptBacked
    /\ PaidIsAttested
    /\ FeeBacked

\* Parts is inductive relative to the types.
SafetyInv == TypeOK /\ Parts

\* The initial state satisfies the invariant.
LEMMA SafetyInit == Init => SafetyInv
<1> SUFFICES ASSUME Init PROVE SafetyInv
  OBVIOUS
<1>1. TypeOK
  BY TypeInit
<1>2. OneRow /\ RowAtPc /\ PolledAtPoll /\ FeeAtPc
  BY InvoiceNames DEF Init, OneRow, RowAtPc, PolledAtPoll, FeeAtPc
<1>3. PostedHasRow /\ ReceiptAtPc /\ ReceiptBacked /\ PaidIsAttested /\ FeeBacked
  BY DEF Init, PostedHasRow, ReceiptAtPc, ReceiptBacked, PaidIsAttested, FeeBacked, Sent
<1> QED
  BY <1>1, <1>2, <1>3 DEF SafetyInv, Parts

\* Every step keeps the invariant: one step per action, and under it one per
\* group of parts that the action can disturb.
LEMMA SafetyStep == SafetyInv /\ [Next]_vars => SafetyInv'
<1> SUFFICES ASSUME TypeOK, Parts, [Next]_vars PROVE Parts'
  BY TypeStep DEF SafetyInv
<1> USE DEF Parts
<1>1. ASSUME NEW f \in Flow, RunZapFlow(f) PROVE Parts'
  <2>1. RowAtPc' /\ PolledAtPoll' /\ FeeAtPc'
    BY <1>1 DEF RunZapFlow, TypeOK, RowAtPc, PolledAtPoll, FeeAtPc, Goto
  <2>2. PostedHasRow' /\ ReceiptAtPc'
    BY <1>1
       DEF RunZapFlow, TypeOK, RowAtPc, PostedHasRow, PolledAtPoll,
           ReceiptAtPc, Goto, Sent
  <2>3. OneRow' /\ ReceiptBacked' /\ PaidIsAttested' /\ FeeBacked'
    BY <1>1
       DEF RunZapFlow, OneRow, ReceiptBacked, PaidIsAttested, FeeBacked, Sent
  <2> QED
    BY <2>1, <2>2, <2>3 DEF Parts
<1>2. ASSUME NEW f \in Flow, InvoiceMinted(f) PROVE Parts'
  <2>1. RowAtPc' /\ PolledAtPoll' /\ FeeAtPc'
    BY <1>2, InvoiceNames
       DEF InvoiceMinted, TypeOK, RowAtPc, PolledAtPoll, FeeAtPc, Goto
  <2>2. PostedHasRow' /\ ReceiptAtPc'
    BY <1>2, InvoiceNames
       DEF InvoiceMinted, TypeOK, RowAtPc, PostedHasRow, PolledAtPoll, ReceiptAtPc,
           Goto, Sent, Settled
  <2>3. OneRow' /\ ReceiptBacked' /\ PaidIsAttested'
    BY <1>2, InvoiceNames
       DEF InvoiceMinted, RowExists, TypeOK, OneRow, RowAtPc, PostedHasRow,
           PolledAtPoll, ReceiptAtPc, ReceiptBacked, PaidIsAttested, Goto, Sent, Settled
  <2>4. \A g \in Flow : invoice'[FeeInv(g)] = invoice[FeeInv(g)]
    BY <1>2, InvoiceNames DEF InvoiceMinted, TypeOK
  <2>5. FeeBacked'
    BY <1>2, <2>4 DEF InvoiceMinted, FeeBacked, Sent
  <2> QED
    BY <2>1, <2>2, <2>3, <2>5 DEF Parts
<1>3. ASSUME NEW f \in Flow, InvoiceMintedTwice(f) PROVE Parts'
  <2>1. RowAtPc' /\ PolledAtPoll' /\ FeeAtPc'
    BY <1>3, InvoiceNames
       DEF InvoiceMintedTwice, TypeOK, RowAtPc, PolledAtPoll, FeeAtPc, Goto
  <2>2. PostedHasRow' /\ ReceiptAtPc'
    BY <1>3, InvoiceNames
       DEF InvoiceMintedTwice, TypeOK, RowAtPc, PostedHasRow, PolledAtPoll, ReceiptAtPc,
           Goto, Sent, Settled
  <2>3. ReceiptBacked'
    BY <1>3, InvoiceNames
       DEF InvoiceMintedTwice, TypeOK, RowAtPc, PostedHasRow, PolledAtPoll, ReceiptAtPc,
           ReceiptBacked, Goto, Sent, Settled
  <2>4. \A g \in Flow : invoice'[FeeInv(g)] = invoice[FeeInv(g)]
    BY <1>3, InvoiceNames DEF InvoiceMintedTwice, TypeOK
  <2>5. FeeBacked'
    BY <1>3, <2>4 DEF InvoiceMintedTwice, FeeBacked, Sent
  <2>6. OneRow' /\ PaidIsAttested'
    BY <1>3 DEF InvoiceMintedTwice, OneRow, PaidIsAttested, Sent
  <2> QED
    BY <2>1, <2>2, <2>3, <2>5, <2>6 DEF Parts
<1>4. ASSUME NEW f \in Flow, RelayAccepts(f) PROVE Parts'
  <2>1. PostedHasRow' /\ ReceiptAtPc'
    BY <1>4
       DEF RelayAccepts, TypeOK, RowAtPc, PostedHasRow, PolledAtPoll, ReceiptAtPc, Sent,
           Publishing, Settled
  <2>2. ReceiptBacked' /\ PaidIsAttested'
    BY <1>4
       DEF RelayAccepts, TypeOK, RowAtPc, PostedHasRow, PolledAtPoll, ReceiptAtPc,
           ReceiptBacked, PaidIsAttested, Sent, Publishing, Settled
  <2>3. FeeBacked'
    BY <1>4
       DEF RelayAccepts, TypeOK, OneRow, PostedHasRow, FeeAtPc, FeeBacked, Sent,
           Publishing, Settled
  <2>4. OneRow' /\ RowAtPc' /\ PolledAtPoll' /\ FeeAtPc'
    BY <1>4 DEF RelayAccepts, OneRow, RowAtPc, PolledAtPoll, FeeAtPc
  <2> QED
    BY <2>1, <2>2, <2>3, <2>4 DEF Parts
<1>5. ASSUME NEW f \in Flow, FailureReported(f) PROVE Parts'
  <2>1. RowAtPc' /\ PolledAtPoll' /\ FeeAtPc'
    BY <1>5 DEF FailureReported, Acked, TypeOK, RowAtPc, PolledAtPoll, FeeAtPc, Goto
  <2>2. PostedHasRow' /\ ReceiptAtPc'
    BY <1>5
       DEF FailureReported, Acked, TypeOK, RowAtPc, PostedHasRow, PolledAtPoll,
           ReceiptAtPc, Goto, Sent
  <2>3. OneRow' /\ ReceiptBacked' /\ PaidIsAttested' /\ FeeBacked'
    BY <1>5
       DEF FailureReported, Acked, OneRow, ReceiptBacked, PaidIsAttested, FeeBacked,
           Sent
  <2> QED
    BY <2>1, <2>2, <2>3 DEF Parts
<1>6. ASSUME NEW f \in Flow, InvoicePosted(f) PROVE Parts'
  <2>1. RowAtPc' /\ PolledAtPoll' /\ FeeAtPc'
    BY <1>6, InvoiceNames
       DEF InvoicePosted, StartPolling, Acked, TypeOK, RowAtPc, PolledAtPoll, FeeAtPc,
           Goto
  <2>2. PostedHasRow' /\ ReceiptAtPc'
    BY <1>6, InvoiceNames
       DEF InvoicePosted, StartPolling, Acked, TypeOK, RowAtPc, PostedHasRow,
           PolledAtPoll, ReceiptAtPc, Goto, Sent
  <2>3. OneRow' /\ ReceiptBacked' /\ PaidIsAttested' /\ FeeBacked'
    BY <1>6
       DEF InvoicePosted, StartPolling, Acked, OneRow, ReceiptBacked, PaidIsAttested,
           FeeBacked, Sent
  <2> QED
    BY <2>1, <2>2, <2>3 DEF Parts
<1>7. ASSUME NEW f \in Flow, FeeInvoiceMinted(f) PROVE Parts'
  <2>1. RowAtPc' /\ PolledAtPoll' /\ FeeAtPc'
    BY <1>7, InvoiceNames
       DEF FeeInvoiceMinted, TypeOK, RowAtPc, PolledAtPoll, FeeAtPc, Goto
  <2>2. PostedHasRow' /\ ReceiptAtPc'
    BY <1>7, InvoiceNames
       DEF FeeInvoiceMinted, TypeOK, RowAtPc, PostedHasRow, PolledAtPoll, ReceiptAtPc,
           Goto, Sent, Settled
  <2>3. ReceiptBacked'
    BY <1>7, InvoiceNames
       DEF FeeInvoiceMinted, TypeOK, RowAtPc, PostedHasRow, PolledAtPoll, ReceiptAtPc,
           ReceiptBacked, Goto, Sent, Settled
  <2>4. fees[f] = "absent" /\ \A g \in Flow \ {f} : invoice'[FeeInv(g)] = invoice[FeeInv(g)]
    BY <1>7, InvoiceNames DEF FeeInvoiceMinted, TypeOK, FeeAtPc
  <2>5. FeeBacked'
    BY <1>7, <2>4 DEF FeeInvoiceMinted, FeeBacked, Sent
  <2>6. OneRow' /\ PaidIsAttested'
    BY <1>7 DEF FeeInvoiceMinted, OneRow, PaidIsAttested, Sent
  <2> QED
    BY <2>1, <2>2, <2>3, <2>5, <2>6 DEF Parts
<1>8. ASSUME NEW f \in Flow, FeePosted(f) PROVE Parts'
  <2>1. RowAtPc' /\ PolledAtPoll' /\ FeeAtPc'
    BY <1>8, InvoiceNames
       DEF FeePosted, Acked, TypeOK, RowAtPc, PolledAtPoll, FeeAtPc, Goto
  <2>2. PostedHasRow' /\ ReceiptAtPc'
    BY <1>8, InvoiceNames
       DEF FeePosted, Acked, TypeOK, RowAtPc, PostedHasRow, PolledAtPoll, ReceiptAtPc,
           Goto, Sent
  <2>3. FeeBacked'
    BY <1>8, InvoiceNames
       DEF FeePosted, Acked, TypeOK, OneRow, PostedHasRow, FeeAtPc, FeeBacked, Goto,
           Sent
  <2>4. OneRow' /\ ReceiptBacked' /\ PaidIsAttested'
    BY <1>8 DEF FeePosted, Acked, OneRow, ReceiptBacked, PaidIsAttested, Sent
  <2> QED
    BY <2>1, <2>2, <2>3, <2>4 DEF Parts
<1>9. ASSUME NEW f \in Flow, ReceiptPublished(f) PROVE Parts'
  <2>1. RowAtPc' /\ PolledAtPoll' /\ FeeAtPc'
    BY <1>9 DEF ReceiptPublished, Acked, TypeOK, RowAtPc, PolledAtPoll, FeeAtPc, Goto
  <2>2. PostedHasRow' /\ ReceiptAtPc'
    BY <1>9
       DEF ReceiptPublished, Acked, TypeOK, RowAtPc, PostedHasRow, PolledAtPoll,
           ReceiptAtPc, Goto, Sent
  <2>3. OneRow'
    BY <1>9 DEF ReceiptPublished, Acked, TypeOK, OneRow, RowAtPc, Goto
  <2>4. ReceiptBacked'
    BY <1>9
       DEF ReceiptPublished, Acked, TypeOK, RowAtPc, PostedHasRow, PolledAtPoll,
           ReceiptAtPc, ReceiptBacked, Goto, Sent
  <2>5. PaidIsAttested'
    BY <1>9 DEF ReceiptPublished, Acked, TypeOK, RowAtPc, PaidIsAttested, Goto, Sent
  <2>6. FeeBacked'
    BY <1>9 DEF ReceiptPublished, Acked, FeeBacked, Sent
  <2> QED
    BY <2>1, <2>2, <2>3, <2>4, <2>5, <2>6 DEF Parts
<1>10. ASSUME NEW f \in Flow, PaidReported(f) PROVE Parts'
  <2>1. RowAtPc' /\ PolledAtPoll' /\ FeeAtPc'
    BY <1>10 DEF PaidReported, Acked, TypeOK, RowAtPc, PolledAtPoll, FeeAtPc, Goto
  <2>2. PostedHasRow' /\ ReceiptAtPc'
    BY <1>10
       DEF PaidReported, Acked, TypeOK, RowAtPc, PostedHasRow, PolledAtPoll,
           ReceiptAtPc, Goto, Sent
  <2>3. OneRow' /\ ReceiptBacked' /\ PaidIsAttested' /\ FeeBacked'
    BY <1>10
       DEF PaidReported, Acked, OneRow, ReceiptBacked, PaidIsAttested, FeeBacked, Sent
  <2> QED
    BY <2>1, <2>2, <2>3 DEF Parts
<1>11. ASSUME NEW f \in Flow, ExpiryReported(f) PROVE Parts'
  <2>1. RowAtPc' /\ PolledAtPoll' /\ FeeAtPc'
    BY <1>11 DEF ExpiryReported, Acked, TypeOK, RowAtPc, PolledAtPoll, FeeAtPc, Goto
  <2>2. PostedHasRow' /\ ReceiptAtPc'
    BY <1>11
       DEF ExpiryReported, Acked, TypeOK, RowAtPc, PostedHasRow, PolledAtPoll,
           ReceiptAtPc, Goto, Sent
  <2>3. OneRow' /\ ReceiptBacked' /\ PaidIsAttested' /\ FeeBacked'
    BY <1>11
       DEF ExpiryReported, Acked, OneRow, ReceiptBacked, PaidIsAttested, FeeBacked, Sent
  <2> QED
    BY <2>1, <2>2, <2>3 DEF Parts
<1>12. ASSUME NEW f \in Flow, ZapSettled(f) PROVE Parts'
  <2>1. RowAtPc' /\ PolledAtPoll' /\ FeeAtPc'
    BY <1>12, InvoiceNames
       DEF ZapSettled, CheckSettled, TypeOK, RowAtPc, PolledAtPoll, FeeAtPc, Goto
  <2>2. PostedHasRow' /\ ReceiptAtPc'
    BY <1>12, InvoiceNames
       DEF ZapSettled, CheckSettled, TypeOK, RowAtPc, PostedHasRow, PolledAtPoll,
           ReceiptAtPc, Goto, Sent, Settled
  <2>3. OneRow' /\ ReceiptBacked' /\ PaidIsAttested' /\ FeeBacked'
    BY <1>12
       DEF ZapSettled, CheckSettled, OneRow, ReceiptBacked, PaidIsAttested, FeeBacked,
           Sent
  <2> QED
    BY <2>1, <2>2, <2>3 DEF Parts
<1>13. ASSUME NEW f \in Flow, ZapTimedOut(f) PROVE Parts'
  <2>1. RowAtPc' /\ PolledAtPoll' /\ FeeAtPc'
    BY <1>13, InvoiceNames
       DEF ZapTimedOut, LoopExpired, TypeOK, RowAtPc, PolledAtPoll, FeeAtPc, Goto
  <2>2. PostedHasRow' /\ ReceiptAtPc'
    BY <1>13, InvoiceNames
       DEF ZapTimedOut, LoopExpired, TypeOK, RowAtPc, PostedHasRow, PolledAtPoll,
           ReceiptAtPc, Goto, Sent
  <2>3. OneRow'
    BY <1>13, InvoiceNames
       DEF ZapTimedOut, LoopExpired, TypeOK, OneRow, RowAtPc, PolledAtPoll, Goto
  <2>4. ReceiptBacked'
    BY <1>13, InvoiceNames
       DEF ZapTimedOut, LoopExpired, TypeOK, RowAtPc, PostedHasRow, PolledAtPoll,
           ReceiptAtPc, ReceiptBacked, Goto, Sent
  <2>5. PaidIsAttested'
    BY <1>13, InvoiceNames
       DEF ZapTimedOut, LoopExpired, TypeOK, RowAtPc, PolledAtPoll, PaidIsAttested,
           Goto, Sent
  <2>6. FeeBacked'
    BY <1>13 DEF ZapTimedOut, LoopExpired, FeeBacked, Sent
  <2> QED
    BY <2>1, <2>2, <2>3, <2>4, <2>5, <2>6 DEF Parts
<1>14. ASSUME NEW f \in Flow, FeeSettled(f) PROVE Parts'
  <2>1. PolledAtPoll' /\ FeeAtPc'
    BY <1>14, InvoiceNames DEF FeeSettled, CheckSettled, TypeOK, PolledAtPoll, FeeAtPc
  <2>2. FeeBacked'
    BY <1>14, InvoiceNames
       DEF FeeSettled, CheckSettled, TypeOK, OneRow, PostedHasRow, FeeAtPc, FeeBacked,
           Sent, Settled
  <2>3. OneRow' /\ RowAtPc' /\ PostedHasRow' /\ ReceiptAtPc' /\ ReceiptBacked' /\ PaidIsAttested'
    BY <1>14
       DEF FeeSettled, CheckSettled, OneRow, RowAtPc, PostedHasRow, ReceiptAtPc,
           ReceiptBacked, PaidIsAttested, Sent
  <2> QED
    BY <2>1, <2>2, <2>3 DEF Parts
<1>15. ASSUME NEW f \in Flow, FeeTimedOut(f) PROVE Parts'
  <2>1. PolledAtPoll' /\ FeeAtPc'
    BY <1>15, InvoiceNames DEF FeeTimedOut, LoopExpired, TypeOK, PolledAtPoll, FeeAtPc
  <2>2. FeeBacked'
    BY <1>15, InvoiceNames
       DEF FeeTimedOut, LoopExpired, TypeOK, OneRow, PostedHasRow, FeeAtPc, FeeBacked,
           Sent
  <2>3. OneRow' /\ RowAtPc' /\ PostedHasRow' /\ ReceiptAtPc' /\ ReceiptBacked' /\ PaidIsAttested'
    BY <1>15
       DEF FeeTimedOut, LoopExpired, OneRow, RowAtPc, PostedHasRow, ReceiptAtPc,
           ReceiptBacked, PaidIsAttested, Sent
  <2> QED
    BY <2>1, <2>2, <2>3 DEF Parts
<1>16. ASSUME NEW f \in Flow, InvoiceRefused(f) PROVE Parts'
  <2>1. RowAtPc' /\ PolledAtPoll' /\ FeeAtPc'
    BY <1>16 DEF InvoiceRefused, TypeOK, RowAtPc, PolledAtPoll, FeeAtPc, Goto
  <2>2. PostedHasRow' /\ ReceiptAtPc'
    BY <1>16
       DEF InvoiceRefused, TypeOK, RowAtPc, PostedHasRow, PolledAtPoll, ReceiptAtPc,
           Goto, Sent
  <2>3. OneRow' /\ ReceiptBacked' /\ PaidIsAttested' /\ FeeBacked'
    BY <1>16 DEF InvoiceRefused, OneRow, ReceiptBacked, PaidIsAttested, FeeBacked, Sent
  <2> QED
    BY <2>1, <2>2, <2>3 DEF Parts
<1>17. ASSUME NEW f \in Flow, FeeInvoiceRefused(f) PROVE Parts'
  <2>1. RowAtPc' /\ PolledAtPoll' /\ FeeAtPc'
    BY <1>17, InvoiceNames
       DEF FeeInvoiceRefused, StartPolling, TypeOK, RowAtPc, PolledAtPoll, FeeAtPc, Goto
  <2>2. PostedHasRow' /\ ReceiptAtPc'
    BY <1>17, InvoiceNames
       DEF FeeInvoiceRefused, StartPolling, TypeOK, RowAtPc, PostedHasRow, PolledAtPoll,
           ReceiptAtPc, Goto, Sent
  <2>3. OneRow' /\ ReceiptBacked' /\ PaidIsAttested' /\ FeeBacked'
    BY <1>17
       DEF FeeInvoiceRefused, StartPolling, OneRow, ReceiptBacked, PaidIsAttested,
           FeeBacked, Sent
  <2> QED
    BY <2>1, <2>2, <2>3 DEF Parts
<1>18. ASSUME NEW f \in Flow, PublishRejected(f) PROVE Parts'
  <2>1. RowAtPc' /\ PolledAtPoll' /\ FeeAtPc'
    BY <1>18
       DEF PublishRejected, TypeOK, RowAtPc, PolledAtPoll, FeeAtPc, Goto, Publishing
  <2>2. PostedHasRow' /\ ReceiptAtPc'
    BY <1>18
       DEF PublishRejected, TypeOK, RowAtPc, PostedHasRow, PolledAtPoll, ReceiptAtPc,
           Goto, Sent, Publishing
  <2>3. OneRow' /\ ReceiptBacked' /\ PaidIsAttested' /\ FeeBacked'
    BY <1>18 DEF PublishRejected, OneRow, ReceiptBacked, PaidIsAttested, FeeBacked, Sent
  <2> QED
    BY <2>1, <2>2, <2>3 DEF Parts
<1>19. ASSUME NEW f \in Flow, ZapPollThrew(f) PROVE Parts'
  <2>1. RowAtPc' /\ PolledAtPoll' /\ FeeAtPc'
    BY <1>19, InvoiceNames
       DEF ZapPollThrew, CheckThrew, TypeOK, RowAtPc, PolledAtPoll, FeeAtPc, Goto
  <2>2. PostedHasRow' /\ ReceiptAtPc'
    BY <1>19, InvoiceNames
       DEF ZapPollThrew, CheckThrew, TypeOK, RowAtPc, PostedHasRow, PolledAtPoll,
           ReceiptAtPc, Goto, Sent
  <2>3. OneRow' /\ ReceiptBacked' /\ PaidIsAttested' /\ FeeBacked'
    BY <1>19
       DEF ZapPollThrew, CheckThrew, OneRow, ReceiptBacked, PaidIsAttested, FeeBacked,
           Sent
  <2> QED
    BY <2>1, <2>2, <2>3 DEF Parts
<1>20. ASSUME NEW f \in Flow, FeePollThrew(f) PROVE Parts'
  <2>1. PolledAtPoll' /\ FeeAtPc'
    BY <1>20, InvoiceNames DEF FeePollThrew, CheckThrew, TypeOK, PolledAtPoll, FeeAtPc
  <2>2. /\ OneRow' /\ RowAtPc' /\ PostedHasRow' /\ ReceiptAtPc'
        /\ ReceiptBacked' /\ PaidIsAttested' /\ FeeBacked'
    BY <1>20
       DEF FeePollThrew, CheckThrew, OneRow, RowAtPc, PostedHasRow, ReceiptAtPc,
           ReceiptBacked, PaidIsAttested, FeeBacked, Sent
  <2> QED
    BY <2>1, <2>2 DEF Parts
<1>21. ASSUME NEW i \in Invoice, CheckUnsettled(i) PROVE Parts'
  <2>1. PolledAtPoll' /\ FeeAtPc'
    BY <1>21, InvoiceNames DEF CheckUnsettled, TypeOK, PolledAtPoll, FeeAtPc
  <2>2. /\ OneRow' /\ RowAtPc' /\ PostedHasRow' /\ ReceiptAtPc'
        /\ ReceiptBacked' /\ PaidIsAttested' /\ FeeBacked'
    BY <1>21
       DEF CheckUnsettled, OneRow, RowAtPc, PostedHasRow, ReceiptAtPc, ReceiptBacked,
           PaidIsAttested, FeeBacked, Sent
  <2> QED
    BY <2>1, <2>2 DEF Parts
<1>22. ASSUME NEW i \in Invoice, CheckAgain(i) PROVE Parts'
  <2>1. PolledAtPoll' /\ FeeAtPc'
    BY <1>22, InvoiceNames DEF CheckAgain, TypeOK, PolledAtPoll, FeeAtPc
  <2>2. /\ OneRow' /\ RowAtPc' /\ PostedHasRow' /\ ReceiptAtPc'
        /\ ReceiptBacked' /\ PaidIsAttested' /\ FeeBacked'
    BY <1>22
       DEF CheckAgain, OneRow, RowAtPc, PostedHasRow, ReceiptAtPc, ReceiptBacked,
           PaidIsAttested, FeeBacked, Sent
  <2> QED
    BY <2>1, <2>2 DEF Parts
<1>23. ASSUME NEW i \in Invoice, DeadlinePasses(i) PROVE Parts'
  <2>1. /\ OneRow' /\ RowAtPc' /\ PostedHasRow' /\ PolledAtPoll' /\ ReceiptAtPc'
        /\ FeeAtPc' /\ ReceiptBacked' /\ PaidIsAttested' /\ FeeBacked'
    BY <1>23
       DEF DeadlinePasses, OneRow, RowAtPc, PostedHasRow, PolledAtPoll, ReceiptAtPc,
           FeeAtPc, ReceiptBacked, PaidIsAttested, FeeBacked, Sent
  <2> QED
    BY <2>1 DEF Parts
<1>24. ASSUME NEW i \in Invoice, Pay(i) PROVE Parts'
  <2>1. ReceiptAtPc'
    BY <1>24, InvoiceNames, OfferedMeansSent
       DEF Pay, TypeOK, PolledAtPoll, ReceiptAtPc, Sent, Settled
  <2>2. ReceiptBacked'
    BY <1>24, InvoiceNames, OfferedMeansSent
       DEF Pay, TypeOK, RowAtPc, PostedHasRow, PolledAtPoll, ReceiptAtPc, ReceiptBacked,
           Sent, Settled
  <2>3. FeeBacked'
    BY <1>24, InvoiceNames, OfferedMeansSent
       DEF Pay, TypeOK, OneRow, PostedHasRow, FeeAtPc, FeeBacked, Sent, Settled
  <2>4. OneRow' /\ RowAtPc' /\ PostedHasRow' /\ PolledAtPoll' /\ FeeAtPc' /\ PaidIsAttested'
    BY <1>24
       DEF Pay, OneRow, RowAtPc, PostedHasRow, PolledAtPoll, FeeAtPc, PaidIsAttested,
           Sent
  <2> QED
    BY <2>1, <2>2, <2>3, <2>4 DEF Parts
<1>25. ASSUME Crash PROVE Parts'
  <2>1. RowAtPc' /\ PolledAtPoll' /\ FeeAtPc'
    BY <1>25, InvoiceNames DEF Crash, ProcessDies, TypeOK, RowAtPc, PolledAtPoll, FeeAtPc, Live
  <2>2. PostedHasRow' /\ ReceiptAtPc'
    BY <1>25, InvoiceNames
       DEF Crash, ProcessDies, TypeOK, RowAtPc, PostedHasRow, PolledAtPoll, ReceiptAtPc, Sent, Live
  <2>3. OneRow' /\ ReceiptBacked' /\ PaidIsAttested' /\ FeeBacked'
    BY <1>25 DEF Crash, ProcessDies, OneRow, ReceiptBacked, PaidIsAttested, FeeBacked, Sent
  <2> QED
    BY <2>1, <2>2, <2>3 DEF Parts
<1>26. CASE UNCHANGED vars
  BY <1>26
     DEF vars, OneRow, RowAtPc, PostedHasRow, PolledAtPoll, ReceiptAtPc, FeeAtPc,
         ReceiptBacked, PaidIsAttested, FeeBacked, Sent
<1> QED
  BY <1>1, <1>2, <1>3, <1>4, <1>5, <1>6, <1>7, <1>8, <1>9, <1>10, <1>11, <1>12, <1>13,
     <1>14, <1>15, <1>16, <1>17, <1>18, <1>19, <1>20, <1>21, <1>22, <1>23, <1>24, <1>25,
     <1>26
     DEF Next, Running, FlowStep, FaultStep, PollStep

\* The inductive invariant: the parts the code's own bookkeeping rests on (one
\* row for an event, a receipt after money, a fee after its reply) always hold.
THEOREM Safety == Spec => []SafetyInv
BY SafetyInit, SafetyStep, PTL DEF Spec

-----------------------------------------------------------------------------
(* What follows from it.                                                   *)

\* However often the relay delivers an event, and whatever fails, at most one
\* of its invoices is ever posted.
THEOREM OneInvoice == Spec => []AtMostOneInvoice
<1>1. SafetyInv => AtMostOneInvoice
  BY DEF SafetyInv, Parts, OneRow, PostedHasRow, AtMostOneInvoice
<1> QED
  BY <1>1, Safety, PTL

\* A receipt is only ever published over money that arrived.
THEOREM ReceiptsAreBacked == Spec => []ReceiptBacked
<1>1. SafetyInv => ReceiptBacked
  BY DEF SafetyInv, Parts
<1> QED
  BY <1>1, Safety, PTL

\* A row never says paid without its receipt, wherever the process dies.
THEOREM PaidRowsAreAttested == Spec => []PaidIsAttested
<1>1. SafetyInv => PaidIsAttested
  BY DEF SafetyInv, Parts
<1> QED
  BY <1>1, Safety, PTL

\* The outcome a caller gets is the one the row records.
THEOREM OutcomesAreTrue == Spec => []OutcomeMatchesRow
<1>1. SafetyInv => OutcomeMatchesRow
  BY DEF SafetyInv, Parts, RowAtPc, ReceiptAtPc, OutcomeMatchesRow, Outcome
<1> QED
  BY <1>1, Safety, PTL

\* An event is charged a fee once, and the fee is booked on its own payment.
THEOREM FeesAreBacked == Spec => []FeeBacked
<1>1. SafetyInv => FeeBacked
  BY DEF SafetyInv, Parts
<1> QED
  BY <1>1, Safety, PTL

-----------------------------------------------------------------------------
(* Rows left behind and exceptions.                                        *)

\* A row, once inserted, stays: nothing deletes one.
LEMMA RowsStay ==
    ASSUME TypeOK, [Next]_vars
    PROVE  \A g \in Flow : zaps[g] # "absent" => zaps'[g] # "absent"
BY DEF TypeOK, Next, Running, FlowStep, FaultStep, PollStep, vars, RunZapFlow,
       InvoiceMinted, InvoiceMintedTwice, RelayAccepts, FailureReported, InvoicePosted,
       FeeInvoiceMinted, FeePosted, ReceiptPublished, PaidReported, ExpiryReported,
       ZapSettled, ZapTimedOut, FeeSettled, FeeTimedOut, InvoiceRefused,
       FeeInvoiceRefused, PublishRejected, ZapPollThrew, FeePollThrew, CheckUnsettled,
       CheckAgain, DeadlinePasses, Pay, Crash, ProcessDies

\* Every pending row is watched and every exception explained: inductive together
\* with the invariant, which says what row an execution has that throws.
Explained == NoRowIsForgotten /\ ExceptionsAreExplained

\* At the start there is neither a row nor an exception.
LEMMA ExplainedInit == Init => Explained
BY DEF Init, Explained, NoRowIsForgotten, ExceptionsAreExplained

\* There are three ways to throw, and an execution takes them by itself.
LEMMA OnlyTheseThrow ==
    ASSUME TypeOK, [Next]_vars, NEW f \in Flow, pc[f] # "threw", pc'[f] = "threw"
    PROVE  InvoiceMintedTwice(f) \/ PublishRejected(f) \/ ZapPollThrew(f)
<1> DEFINE Throws == InvoiceMintedTwice(f) \/ PublishRejected(f) \/ ZapPollThrew(f)
<1> USE DEF TypeOK, Goto
<1>1. ASSUME NEW g \in Flow, RunZapFlow(g) \/ FlowStep(g) PROVE Throws
  BY <1>1
     DEF RunZapFlow, FlowStep, InvoiceMinted, InvoiceMintedTwice, RelayAccepts,
         FailureReported, InvoicePosted, StartPolling, FeeInvoiceMinted, FeePosted,
         ReceiptPublished, PaidReported, ExpiryReported, ZapSettled, ZapTimedOut,
         FeeSettled, FeeTimedOut
<1>2. ASSUME NEW g \in Flow, FaultStep(g) PROVE Throws
  <2>1. CASE g = f
    BY <1>2, <2>1 DEF FaultStep, InvoiceRefused, FeeInvoiceRefused, StartPolling, FeePollThrew
  <2>2. CASE g # f
    BY <1>2, <2>2 DEF FaultStep, InvoiceRefused, FeeInvoiceRefused, StartPolling,
                      PublishRejected, ZapPollThrew, FeePollThrew
  <2> QED
    BY <2>1, <2>2
<1>3. ASSUME NEW i \in Invoice, PollStep(i) \/ DeadlinePasses(i) \/ Pay(i) PROVE Throws
  BY <1>3 DEF PollStep, CheckUnsettled, CheckAgain, DeadlinePasses, Pay
<1>4. CASE Crash \/ UNCHANGED vars
  BY <1>4 DEF Crash, ProcessDies, vars
<1> QED
  BY <1>1, <1>2, <1>3, <1>4 DEF Next, Running

\* Only the steps of an execution make it throw.
LEMMA ExceptionsStep ==
    ASSUME SafetyInv, ExceptionsAreExplained, [Next]_vars
    PROVE  ExceptionsAreExplained'
<1> USE DEF SafetyInv, Parts
<1> SUFFICES ASSUME NEW f \in Flow, pc'[f] = "threw",
                    Faults[Src(f)] \cap {"publish", "verify"} = {}
             PROVE  zaps'[f] = "absent" /\ RowExists(Src(f))'
  BY DEF ExceptionsAreExplained
<1>1. CASE pc[f] = "threw"
  <2>1. zaps[f] = "absent" /\ RowExists(Src(f))
    BY <1>1 DEF ExceptionsAreExplained
  <2>2. RowExists(Src(f))'
    BY <2>1, RowsStay DEF RowExists
  <2>3. zaps'[f] = zaps[f]
    BY <1>1, InvoiceNames
       DEF TypeOK, PolledAtPoll, Next, Running, FlowStep, FaultStep, PollStep, vars, RunZapFlow,
           InvoiceMinted, InvoiceMintedTwice, RelayAccepts, FailureReported, InvoicePosted,
           FeeInvoiceMinted, FeePosted, ReceiptPublished, PaidReported, ExpiryReported,
           ZapSettled, ZapTimedOut, FeeSettled, FeeTimedOut, InvoiceRefused, Acked,
           FeeInvoiceRefused, PublishRejected, ZapPollThrew, FeePollThrew, CheckUnsettled,
           CheckAgain, DeadlinePasses, Pay, Crash, ProcessDies, LoopExpired
  <2> QED
    BY <2>1, <2>2, <2>3
<1>2. CASE pc[f] # "threw"
  <2>1. InvoiceMintedTwice(f)
    BY <1>2, OnlyTheseThrow DEF PublishRejected, ZapPollThrew, CheckThrew, ZapInv
  <2> QED
    BY <2>1, RowsStay DEF InvoiceMintedTwice, RowAtPc, RowExists
<1> QED
  BY <1>1, <1>2

\* Whoever stops working on a row closes it, or has an excuse.
LEMMA RowsWatchedStep ==
    ASSUME SafetyInv, NoRowIsForgotten, [Next]_vars
    PROVE  NoRowIsForgotten'
<1> USE InvoiceNames DEF SafetyInv, Parts, TypeOK, Goto
<1> USE DEF NoRowIsForgotten
<1>1. ASSUME NEW g \in Flow,
             \/ RunZapFlow(g) \/ InvoiceMinted(g) \/ InvoiceMintedTwice(g) \/ RelayAccepts(g)
             \/ FailureReported(g) \/ ReceiptPublished(g) \/ PaidReported(g) \/ ExpiryReported(g)
             \/ FeeInvoiceMinted(g) \/ InvoiceRefused(g) \/ PublishRejected(g)
      PROVE  NoRowIsForgotten'
  BY <1>1
     DEF RunZapFlow, InvoiceMinted, InvoiceMintedTwice, RelayAccepts, FailureReported,
         ReceiptPublished, PaidReported, ExpiryReported, FeeInvoiceMinted, InvoiceRefused,
         PublishRejected, Acked, RowAtPc, Live, Publishing
<1>2. ASSUME NEW g \in Flow, InvoicePosted(g) \/ FeeInvoiceRefused(g) \/ FeePosted(g)
      PROVE  NoRowIsForgotten'
  BY <1>2 DEF InvoicePosted, FeeInvoiceRefused, FeePosted, StartPolling, Acked, Live
<1>3. ASSUME NEW g \in Flow, ZapSettled(g) \/ ZapTimedOut(g) \/ ZapPollThrew(g)
      PROVE  NoRowIsForgotten'
  <2>1. pc'[g] # "poll" /\ \A f \in Flow \ {g} : pc'[f] = pc[f] /\ zaps'[f] = zaps[f]
    BY <1>3 DEF ZapSettled, ZapTimedOut, ZapPollThrew
  <2>2. fees' = fees /\ \A i \in Invoice \ {ZapInv(g)} : poll'[i] = poll[i]
    BY <1>3 DEF ZapSettled, ZapTimedOut, ZapPollThrew, CheckSettled, LoopExpired, CheckThrew
  <2>3. \/ pc'[g] \in Live \/ zaps'[g] = "expired"
        \/ "verify" \in Faults[Src(g)]
    BY <1>3 DEF ZapSettled, ZapTimedOut, ZapPollThrew, CheckThrew, ZapInv, Live, Publishing
  <2> QED
    BY <2>1, <2>2, <2>3
<1>4. ASSUME NEW g \in Flow, FeeSettled(g) \/ FeeTimedOut(g) \/ FeePollThrew(g)
      PROVE  NoRowIsForgotten'
  BY <1>4 DEF FeeSettled, FeeTimedOut, FeePollThrew, CheckSettled, LoopExpired, CheckThrew,
              FeeInv
<1>5. ASSUME NEW i \in Invoice, PollStep(i) \/ DeadlinePasses(i) \/ Pay(i)
      PROVE  NoRowIsForgotten'
  BY <1>5 DEF PollStep, CheckUnsettled, CheckAgain, DeadlinePasses, Pay
<1>6. CASE Crash
  BY <1>6 DEF Crash, ProcessDies, Live
<1>7. CASE UNCHANGED vars
  BY <1>7 DEF vars
<1> QED
  BY <1>1, <1>2, <1>3, <1>4, <1>5, <1>6, <1>7 DEF Next, Running, FlowStep, FaultStep, PollStep

\* A pending row is being worked on, unless a publish or a check has failed or
\* the process has died: what RowsClose needs besides fairness.
THEOREM RowsAreWatched == Spec => []NoRowIsForgotten
<1>1. SafetyInv /\ NoRowIsForgotten /\ [Next]_vars => NoRowIsForgotten'
  BY RowsWatchedStep
<1> QED
  BY ExplainedInit, Safety, <1>1, PTL DEF Spec, Explained

\* An execution throws only over the relay, a check, or a row that another
\* delivery of its event has inserted.
THEOREM ExceptionsHaveCauses == Spec => []ExceptionsAreExplained
<1>1. SafetyInv /\ ExceptionsAreExplained /\ [Next]_vars => ExceptionsAreExplained'
  BY ExceptionsStep
<1> QED
  BY ExplainedInit, Safety, <1>1, PTL DEF Spec, Explained

-----------------------------------------------------------------------------
(* What the steps of running executions do, and what they leave alone.     *)

\* What no step of an execution undoes: a paid row, and a message.  Nor does
\* it start an execution that nobody has called.
Kept ==
    \A g \in Flow :
        /\ pc[g] = "idle" => pc'[g] = "idle"
        /\ zaps[g] = "paid" => zaps'[g] = "paid"
        /\ Sent("receipt", g) => Sent("receipt", g)'

\* No step of the flow starts an execution, reopens a paid row or takes back a receipt.
LEMMA RunningKeeps == SafetyInv /\ Running => Kept
<1> SUFFICES ASSUME SafetyInv, Running PROVE Kept
  OBVIOUS
<1> USE DEF SafetyInv, TypeOK, Kept, Sent, Goto
<1>1. ASSUME NEW f \in Flow, InvoiceMinted(f) PROVE Kept
  BY <1>1 DEF InvoiceMinted, Parts, RowAtPc
<1>2. ASSUME NEW f \in Flow, ReceiptPublished(f) PROVE Kept
  BY <1>2 DEF ReceiptPublished, Acked, Parts, RowAtPc
<1>3. ASSUME NEW f \in Flow, RelayAccepts(f) PROVE Kept
  BY <1>3 DEF RelayAccepts
<1>4. ASSUME NEW f \in Flow, ZapSettled(f) PROVE Kept
  BY <1>4, InvoiceNames DEF ZapSettled, CheckSettled, Parts, PolledAtPoll, RowAtPc
<1>5. ASSUME NEW f \in Flow, ZapTimedOut(f) PROVE Kept
  BY <1>5, InvoiceNames DEF ZapTimedOut, LoopExpired, Parts, PolledAtPoll, RowAtPc
<1>6. ASSUME NEW f \in Flow, ZapPollThrew(f) PROVE Kept
  BY <1>6, InvoiceNames DEF ZapPollThrew, CheckThrew, Parts, PolledAtPoll, RowAtPc
<1>7. ASSUME NEW f \in Flow,
             \/ InvoiceMintedTwice(f)
             \/ FailureReported(f)
             \/ InvoicePosted(f)
             \/ FeeInvoiceMinted(f)
             \/ FeePosted(f)
             \/ PaidReported(f)
             \/ ExpiryReported(f)
             \/ InvoiceRefused(f)
             \/ FeeInvoiceRefused(f)
             \/ PublishRejected(f)
      PROVE  Kept
  BY <1>7, SMT
     DEF InvoiceMintedTwice, FailureReported, Acked, InvoicePosted, FeeInvoiceMinted,
         FeePosted, PaidReported, ExpiryReported, InvoiceRefused, FeeInvoiceRefused,
         PublishRejected, StartPolling, Publishing
<1>8. ASSUME NEW f \in Flow, FeeSettled(f) \/ FeeTimedOut(f) \/ FeePollThrew(f) PROVE Kept
  BY <1>8 DEF FeeSettled, FeeTimedOut, FeePollThrew
<1>9. ASSUME NEW i \in Invoice, PollStep(i) \/ DeadlinePasses(i) \/ Pay(i) PROVE Kept
  BY <1>9 DEF PollStep, CheckUnsettled, CheckAgain, DeadlinePasses, Pay
<1> QED
  BY <1>1, <1>2, <1>3, <1>4, <1>5, <1>6, <1>7, <1>8, <1>9
     DEF Running, FlowStep, FaultStep

\* An execution that has not started stays so, without an invoice, whatever the
\* others do; and a row that is there stays there.
Unstarted(f) == pc[f] = "idle" /\ invoice[ZapInv(f)] = "none"

\* The steps of the other executions leave an execution unstarted, and no step
\* takes an execution back to before its start.
LEMMA OthersRun ==
    ASSUME SafetyInv, Running, NEW f \in Flow
    PROVE  /\ pc'[f] = "idle" => pc[f] = "idle"
           /\ Unstarted(f) => Unstarted(f)'
           /\ zaps[f] # "absent" => zaps'[f] # "absent"
<1> USE DEF SafetyInv, TypeOK, Unstarted, Goto
<1> DEFINE Fine == /\ pc'[f] = "idle" => pc[f] = "idle"
                   /\ Unstarted(f) => Unstarted(f)'
                   /\ zaps[f] # "absent" => zaps'[f] # "absent"
<1>0. ZapInv(f) \in Invoice /\ \A g \in Flow : ZapInv(f) # FeeInv(g) /\ (ZapInv(f) = ZapInv(g) => f = g)
  BY InvoiceNames DEF ZapInv, FeeInv
<1>1. ASSUME NEW g \in Flow, InvoiceMinted(g) \/ InvoiceMintedTwice(g) PROVE Fine
  BY <1>0, <1>1, InvoiceNames DEF InvoiceMinted, InvoiceMintedTwice
<1>2. ASSUME NEW g \in Flow, FeeInvoiceMinted(g) PROVE Fine
  BY <1>0, <1>2, InvoiceNames DEF FeeInvoiceMinted
<1>3. ASSUME NEW g \in Flow, ReceiptPublished(g) PROVE Fine
  BY <1>3 DEF ReceiptPublished, Acked
<1>4. ASSUME NEW g \in Flow, ZapSettled(g) \/ ZapTimedOut(g) \/ ZapPollThrew(g) PROVE Fine
  BY <1>4, InvoiceNames DEF Parts, PolledAtPoll, ZapSettled, ZapTimedOut, ZapPollThrew, CheckSettled, LoopExpired, CheckThrew
<1>5. ASSUME NEW g \in Flow,
             \/ FailureReported(g)
             \/ InvoicePosted(g)
             \/ FeePosted(g)
             \/ PaidReported(g)
             \/ ExpiryReported(g)
             \/ InvoiceRefused(g)
             \/ FeeInvoiceRefused(g)
             \/ PublishRejected(g)
             \/ RelayAccepts(g)
      PROVE  Fine
  BY <1>5, SMT
     DEF FailureReported, Acked, InvoicePosted, FeePosted, PaidReported, ExpiryReported,
         InvoiceRefused, FeeInvoiceRefused, PublishRejected, RelayAccepts, StartPolling, Publishing
<1>6. ASSUME NEW g \in Flow, FeeSettled(g) \/ FeeTimedOut(g) \/ FeePollThrew(g) PROVE Fine
  BY <1>6 DEF FeeSettled, FeeTimedOut, FeePollThrew
<1>7. ASSUME NEW i \in Invoice, PollStep(i) \/ DeadlinePasses(i) PROVE Fine
  BY <1>7 DEF PollStep, CheckUnsettled, CheckAgain, DeadlinePasses
<1>8. ASSUME NEW i \in Invoice, Pay(i) PROVE Fine
  BY <1>0, <1>8 DEF Pay
<1> QED
  BY <1>1, <1>2, <1>3, <1>4, <1>5, <1>6, <1>7, <1>8 DEF Running, FlowStep, FaultStep

\* Only an execution that is under way moves, and never back to its start.
LEMMA OnlyTheLiveMove ==
    ASSUME SafetyInv, Running, NEW f \in Flow, pc'[f] # pc[f]
    PROVE  pc[f] \in Live
<1> USE DEF SafetyInv, TypeOK, Goto, Live, Publishing
<1> DEFINE Moves == pc[f] \in Live
<1>1. ASSUME NEW g \in Flow,
             \/ InvoiceMinted(g) \/ InvoiceMintedTwice(g) \/ InvoiceRefused(g)
             \/ FeeInvoiceMinted(g) \/ FeeInvoiceRefused(g) \/ PublishRejected(g)
      PROVE  Moves
  BY <1>1, SMT
     DEF InvoiceMinted, InvoiceMintedTwice, InvoiceRefused, FeeInvoiceMinted,
         FeeInvoiceRefused, PublishRejected, StartPolling
<1>2. ASSUME NEW g \in Flow,
             \/ FailureReported(g) \/ InvoicePosted(g) \/ FeePosted(g)
             \/ ReceiptPublished(g) \/ PaidReported(g) \/ ExpiryReported(g)
      PROVE  Moves
  BY <1>2, SMT
     DEF FailureReported, InvoicePosted, FeePosted, ReceiptPublished, PaidReported,
         ExpiryReported, Acked, StartPolling
<1>3. ASSUME NEW g \in Flow, ZapSettled(g) \/ ZapTimedOut(g) \/ ZapPollThrew(g) PROVE Moves
  BY <1>3, InvoiceNames
     DEF ZapSettled, ZapTimedOut, ZapPollThrew, CheckSettled, LoopExpired, CheckThrew,
         Parts, PolledAtPoll
<1>4. ASSUME NEW g \in Flow,
             RelayAccepts(g) \/ FeeSettled(g) \/ FeeTimedOut(g) \/ FeePollThrew(g)
      PROVE  pc' = pc
  BY <1>4 DEF RelayAccepts, FeeSettled, FeeTimedOut, FeePollThrew
<1>5. ASSUME NEW i \in Invoice, PollStep(i) \/ DeadlinePasses(i) \/ Pay(i) PROVE pc' = pc
  BY <1>5 DEF PollStep, CheckUnsettled, CheckAgain, DeadlinePasses, Pay
<1> QED
  BY <1>1, <1>2, <1>3, <1>4, <1>5 DEF Running, FlowStep, FaultStep

\* A row appears only where insertPending runs.
LEMMA OnlyMintingInserts ==
    ASSUME SafetyInv, Running, NEW f \in Flow, zaps[f] = "absent", zaps'[f] # "absent"
    PROVE  InvoiceMinted(f)
<1> USE DEF SafetyInv, TypeOK
<1>1. ASSUME NEW g \in Flow, InvoiceMinted(g) PROVE InvoiceMinted(f)
  <2>1. g = f
    BY <1>1 DEF InvoiceMinted
  <2> QED
    BY <1>1, <2>1
<1>2. ASSUME NEW g \in Flow, ReceiptPublished(g) \/ ZapTimedOut(g) PROVE FALSE
  <2>1. zaps[g] = "pending"
    BY <1>2, InvoiceNames
       DEF ReceiptPublished, Acked, ZapTimedOut, LoopExpired, Parts, RowAtPc, PolledAtPoll
  <2> QED
    BY <1>2, <2>1 DEF ReceiptPublished, ZapTimedOut
<1>3. ASSUME NEW g \in Flow,
             \/ InvoiceMintedTwice(g) \/ RelayAccepts(g) \/ FailureReported(g)
             \/ InvoicePosted(g) \/ FeeInvoiceMinted(g) \/ FeePosted(g) \/ PaidReported(g)
             \/ ExpiryReported(g) \/ ZapSettled(g) \/ FeeSettled(g) \/ FeeTimedOut(g)
             \/ FaultStep(g)
      PROVE  zaps' = zaps
  BY <1>3
     DEF InvoiceMintedTwice, RelayAccepts, FailureReported, InvoicePosted, FeeInvoiceMinted,
         FeePosted, PaidReported, ExpiryReported, ZapSettled, FeeSettled, FeeTimedOut,
         FaultStep, InvoiceRefused, FeeInvoiceRefused, PublishRejected, ZapPollThrew,
         FeePollThrew
<1>4. ASSUME NEW i \in Invoice, PollStep(i) \/ DeadlinePasses(i) \/ Pay(i) PROVE zaps' = zaps
  BY <1>4 DEF PollStep, CheckUnsettled, CheckAgain, DeadlinePasses, Pay
<1> QED
  BY <1>1, <1>2, <1>3, <1>4 DEF Running, FlowStep

\* An execution that nobody has called has no invoice.
NothingMinted == \A f \in Flow : pc[f] = "idle" => invoice[ZapInv(f)] = "none"

\* No step gives an invoice to an execution that nobody has called.
LEMMA NothingMintedStep == SafetyInv /\ NothingMinted /\ [Next]_vars => NothingMinted'
<1> SUFFICES ASSUME SafetyInv, NothingMinted, [Next]_vars, NEW f \in Flow, pc'[f] = "idle"
             PROVE  pc[f] = "idle" /\ invoice'[ZapInv(f)] = "none"
  BY DEF NothingMinted, ZapInv
<1>1. CASE Running
  BY <1>1, OthersRun DEF Unstarted, NothingMinted
<1>2. CASE Crash
  <2>1. pc[f] = "idle"
    BY <1>2 DEF Crash, ProcessDies, SafetyInv, TypeOK
  <2> QED
    BY <1>2, <2>1 DEF Crash, ProcessDies, NothingMinted
<1>3. ASSUME NEW g \in Flow, RunZapFlow(g) PROVE pc[f] = "idle" /\ invoice' = invoice
  BY <1>3 DEF RunZapFlow, Goto, SafetyInv, TypeOK
<1>4. CASE UNCHANGED vars
  BY <1>4 DEF vars, NothingMinted
<1> QED
  BY <1>1, <1>2, <1>3, <1>4 DEF Next, NothingMinted

\* No invoice is minted for an execution that nobody has called.
LEMMA NothingMintedHolds == Spec => []NothingMinted
<1>1. Init => NothingMinted
  BY DEF Init, NothingMinted, ZapInv, Invoice
<1> QED
  BY <1>1, NothingMintedStep, Safety, PTL DEF Spec

\* A fee that is due is one that was found due: from the request on, and for good.
FeeAsked(f) == pc[f] \in {"feeRequest", "feeReply"} \/ Sent("feeReply", f)
FeesWereDue == \A f \in Flow : FeeAsked(f) => FeeDue(Src(f))

\* A fee that is due is a share of at least a sat.
LEMMA DueFeeIsAShare ==
    ASSUME NEW s \in Source, FeeDue(s)
    PROVE  s \notin PaysFeeWallet /\ AmountSats[s] * FeeBps >= 10000
<1>1. AmountSats[s] \in Nat /\ FeeBps \in Nat
  BY AmountAssumption, FeeBpsAssumption
<1>2. \A a, b \in Nat : a * b \in Nat
  BY SMT
<1>3. \A p \in Nat : p \div 10000 >= 1 => p >= 10000
  BY SMT
<1> QED
  BY <1>1, <1>2, <1>3 DEF FeeDue, FeeSats

\* Only InvoicePosted turns to the fee, and it looks whether one is due.
LEMMA FeesWereDueStep == TypeOK /\ FeesWereDue /\ [Next]_vars => FeesWereDue'
<1> SUFFICES ASSUME TypeOK, FeesWereDue, [Next]_vars, NEW f \in Flow, FeeAsked(f)'
             PROVE  FeeAsked(f) \/ FeeDue(Src(f))
  BY DEF FeesWereDue, FeeDue, FeeSats, Src
<1> USE DEF FeeAsked, Sent, Goto, TypeOK
<1>1. ASSUME NEW g \in Flow, InvoicePosted(g) PROVE FeeAsked(f) \/ FeeDue(Src(f))
  BY <1>1 DEF InvoicePosted, StartPolling
<1>2. ASSUME NEW g \in Flow,
             \/ RunZapFlow(g) \/ InvoiceMinted(g) \/ InvoiceMintedTwice(g)
             \/ InvoiceRefused(g) \/ FailureReported(g) \/ FeeInvoiceMinted(g)
             \/ FeeInvoiceRefused(g) \/ FeePosted(g)
      PROVE  FeeAsked(f)
  BY <1>2
     DEF RunZapFlow, InvoiceMinted, InvoiceMintedTwice, InvoiceRefused, FailureReported,
         FeeInvoiceMinted, FeeInvoiceRefused, FeePosted, StartPolling
<1>3. ASSUME NEW g \in Flow,
             \/ ReceiptPublished(g) \/ PaidReported(g) \/ ExpiryReported(g)
             \/ ZapSettled(g) \/ ZapTimedOut(g) \/ ZapPollThrew(g) \/ PublishRejected(g)
      PROVE  FeeAsked(f)
  BY <1>3
     DEF ReceiptPublished, PaidReported, ExpiryReported, ZapSettled, ZapTimedOut,
         ZapPollThrew, PublishRejected
<1>4. ASSUME NEW g \in Flow, RelayAccepts(g) PROVE FeeAsked(f)
  BY <1>4 DEF RelayAccepts
<1>5. ASSUME NEW g \in Flow, FeeSettled(g) \/ FeeTimedOut(g) \/ FeePollThrew(g)
      PROVE  FeeAsked(f)
  BY <1>5 DEF FeeSettled, FeeTimedOut, FeePollThrew
<1>6. ASSUME NEW i \in Invoice, PollStep(i) \/ DeadlinePasses(i) \/ Pay(i) PROVE FeeAsked(f)
  BY <1>6 DEF PollStep, CheckUnsettled, CheckAgain, DeadlinePasses, Pay
<1>7. CASE Crash
  BY <1>7 DEF Crash, ProcessDies
<1>8. CASE UNCHANGED vars
  BY <1>8 DEF vars
<1> QED
  BY <1>1, <1>2, <1>3, <1>4, <1>5, <1>6, <1>7, <1>8
     DEF Next, Running, FlowStep, FaultStep

\* Whatever fee is asked for was due, for the whole run.
LEMMA FeesWereDueHold == Spec => []FeesWereDue
<1>1. Init => FeesWereDue
  BY DEF Init, FeesWereDue, FeeAsked, Sent
<1>2. SafetyInv => TypeOK
  BY DEF SafetyInv
<1> QED
  BY <1>1, <1>2, FeesWereDueStep, Safety, PTL DEF Spec
=============================================================================
