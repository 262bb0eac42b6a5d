-------------------------- MODULE ZapLedgerProofs --------------------------
(***************************************************************************)
(* The flow implements the ledger: the initial states of ZapFlow are       *)
(* initial states of ZapLedger, and every step of the flow is one step of  *)
(* the ledger, for the event of the execution that took it, or none.  In   *)
(* the same way it implements ZapCall, the interface the triggers use.     *)
(***************************************************************************)
EXTENDS ZapFlowProofs

\* The flow starts with an empty ledger.
LEMMA LedgerInitial == Init => Ledger!LedgerInit
BY DEF Init, Ledger!LedgerInit, EventsOf, RecordedEvents, SettledEvents, AttestedEvents,
       PaidEvents, ExpiredEvents, Sent

\* What the ledger sees of a state: the rows, the receipts, and whether the
\* invoice of a row has been paid.
LEMMA LedgerSeesNothing ==
    ASSUME UNCHANGED zaps,
           \A f \in Flow : Sent("receipt", f)' <=> Sent("receipt", f),
           \A f \in Flow : zaps[f] # "absent" =>
               (invoice'[ZapInv(f)] \in Settled <=> invoice[ZapInv(f)] \in Settled)
    PROVE  UNCHANGED Ledger!ledgerVars
<1>1. UNCHANGED <<RecordedEvents, PaidEvents, ExpiredEvents>>
  BY DEF RecordedEvents, PaidEvents, ExpiredEvents
<1>2. UNCHANGED AttestedEvents
  BY DEF AttestedEvents, EventsOf
<1>3. UNCHANGED SettledEvents
  BY DEF SettledEvents, EventsOf
<1> QED
  BY <1>1, <1>2, <1>3 DEF Ledger!ledgerVars

\* insertPending records the event, which had no row.
LEMMA MintingRecords ==
    ASSUME SafetyInv, NEW f \in Flow, InvoiceMinted(f)
    PROVE  Ledger!Record(Src(f))
<1> USE InvoiceNames DEF SafetyInv, TypeOK, InvoiceMinted, EventsOf
<1>1. Src(f) \notin RecordedEvents
  BY DEF RowExists, RecordedEvents
<1>2. RecordedEvents' = RecordedEvents \cup {Src(f)}
  BY DEF RecordedEvents
<1>3. zaps[f] = "absent" /\ zaps' = [zaps EXCEPT ![f] = "pending"]
  BY DEF Parts, RowAtPc
<1>4. PaidEvents' = PaidEvents /\ ExpiredEvents' = ExpiredEvents
  BY <1>3 DEF PaidEvents, ExpiredEvents
<1>5. AttestedEvents' = AttestedEvents
  BY DEF AttestedEvents, Sent
<1>6. SettledEvents' = SettledEvents
  BY <1>3 DEF SettledEvents, Settled
<1> QED
  BY <1>1, <1>2, <1>4, <1>5, <1>6 DEF Ledger!Record

\* A payment settles the event of the execution that posted the invoice.
LEMMA PayingSettles ==
    ASSUME SafetyInv, NEW f \in Flow, Pay(ZapInv(f))
    PROVE  Ledger!Settle(Src(f))
<1> USE InvoiceNames DEF SafetyInv, TypeOK, Pay, EventsOf
<1>1. zaps[f] # "absent"
  BY OfferedMeansSent DEF Parts, PostedHasRow
<1>2. Src(f) \in RecordedEvents
  BY <1>1 DEF RecordedEvents
<1>3. Src(f) \notin SettledEvents
  BY <1>1 DEF SettledEvents, Settled, Parts, OneRow
<1>4. SettledEvents' = SettledEvents \cup {Src(f)}
  BY <1>1 DEF SettledEvents, Settled
<1>5. UNCHANGED <<RecordedEvents, AttestedEvents, PaidEvents, ExpiredEvents>>
  BY DEF RecordedEvents, AttestedEvents, PaidEvents, ExpiredEvents, Sent
<1> QED
  BY <1>2, <1>3, <1>4, <1>5 DEF Ledger!Settle

\* The relay taking the receipt attests the event: its invoice is settled and
\* its row is still pending, so it has neither a receipt nor expired.
LEMMA ReceiptAttests ==
    ASSUME SafetyInv, NEW f \in Flow, RelayAccepts(f), pc[f] = "receipt"
    PROVE  Ledger!Attest(Src(f))
<1> USE DEF SafetyInv, TypeOK, RelayAccepts, EventsOf
<1>1. zaps[f] = "pending" /\ invoice[ZapInv(f)] \in Settled
  BY DEF Parts, RowAtPc, ReceiptAtPc
<1>2. Src(f) \in SettledEvents
  BY <1>1 DEF SettledEvents
<1>3. Src(f) \notin AttestedEvents
  BY <1>1 DEF AttestedEvents, Parts, ReceiptBacked, OneRow
<1>4. Src(f) \notin ExpiredEvents
  BY <1>1 DEF ExpiredEvents, Parts, OneRow
<1>5. AttestedEvents' = AttestedEvents \cup {Src(f)}
  BY DEF AttestedEvents, Sent
<1>6. UNCHANGED <<RecordedEvents, SettledEvents, PaidEvents, ExpiredEvents>>
  BY DEF RecordedEvents, SettledEvents, PaidEvents, ExpiredEvents
<1> QED
  BY <1>2, <1>3, <1>4, <1>5, <1>6 DEF Ledger!Attest

\* markPaid closes an event that is attested.
LEMMA MarkPaidCloses ==
    ASSUME SafetyInv, NEW f \in Flow, ReceiptPublished(f)
    PROVE  Ledger!ClosePaid(Src(f))
<1> USE DEF SafetyInv, TypeOK, ReceiptPublished, Acked, EventsOf
<1>1. zaps[f] = "pending" /\ zaps' = [zaps EXCEPT ![f] = "paid"]
  BY DEF Parts, RowAtPc
<1>2. Src(f) \in AttestedEvents
  BY DEF AttestedEvents
<1>3. Src(f) \notin PaidEvents
  BY <1>1 DEF PaidEvents, Parts, OneRow
<1>4. PaidEvents' = PaidEvents \cup {Src(f)}
  BY <1>1 DEF PaidEvents
<1>5. RecordedEvents' = RecordedEvents /\ ExpiredEvents' = ExpiredEvents
  BY <1>1 DEF RecordedEvents, ExpiredEvents
<1>6. SettledEvents' = SettledEvents
  BY <1>1 DEF SettledEvents
<1>7. AttestedEvents' = AttestedEvents
  BY DEF AttestedEvents, Sent
<1> QED
  BY <1>2, <1>3, <1>4, <1>5, <1>6, <1>7 DEF Ledger!ClosePaid

\* markExpired closes an event that has no receipt: its row was pending.
LEMMA TimeoutCloses ==
    ASSUME SafetyInv, NEW f \in Flow, ZapTimedOut(f)
    PROVE  Ledger!CloseExpired(Src(f))
<1> USE InvoiceNames DEF SafetyInv, TypeOK, ZapTimedOut, LoopExpired, EventsOf
<1>1. pc[f] = "poll" /\ zaps[f] = "pending" /\ zaps' = [zaps EXCEPT ![f] = "expired"]
  BY DEF Parts, PolledAtPoll, RowAtPc
<1>2. Src(f) \in RecordedEvents
  BY <1>1 DEF RecordedEvents
<1>3. Src(f) \notin AttestedEvents
  BY <1>1 DEF AttestedEvents, Parts, ReceiptAtPc, ReceiptBacked, OneRow
<1>4. Src(f) \notin ExpiredEvents
  BY <1>1 DEF ExpiredEvents, Parts, OneRow
<1>5. ExpiredEvents' = ExpiredEvents \cup {Src(f)}
  BY <1>1 DEF ExpiredEvents
<1>6. RecordedEvents' = RecordedEvents /\ PaidEvents' = PaidEvents
  BY <1>1 DEF RecordedEvents, PaidEvents
<1>7. SettledEvents' = SettledEvents
  BY <1>1 DEF SettledEvents
<1>8. AttestedEvents' = AttestedEvents
  BY DEF AttestedEvents, Sent
<1> QED
  BY <1>2, <1>3, <1>4, <1>5, <1>6, <1>7, <1>8 DEF Ledger!CloseExpired

\* Every step of the flow is a step of the ledger, or one it does not see.
LEMMA LedgerStep == SafetyInv /\ [Next]_vars => [Ledger!LedgerNext]_Ledger!ledgerVars
<1> SUFFICES ASSUME SafetyInv, [Next]_vars PROVE [Ledger!LedgerNext]_Ledger!ledgerVars
  OBVIOUS
<1> DEFINE Simulated == [Ledger!LedgerNext]_Ledger!ledgerVars
<1>1. ASSUME UNCHANGED <<zaps, invoice, published>> PROVE Simulated
  BY <1>1, LedgerSeesNothing DEF Sent
<1>2. ASSUME NEW f \in Flow PROVE Src(f) \in Source
  BY DEF Flow, Src
<1>3. ASSUME NEW f \in Flow, InvoiceMinted(f) PROVE Simulated
  BY <1>2, <1>3, MintingRecords DEF Ledger!LedgerNext
<1>4. ASSUME NEW f \in Flow, InvoiceMintedTwice(f) PROVE Simulated
  <2>1. zaps[f] = "absent"
    BY <1>4 DEF InvoiceMintedTwice, SafetyInv, Parts, RowAtPc
  <2>2. \A g \in Flow : zaps[g] # "absent" => invoice'[ZapInv(g)] = invoice[ZapInv(g)]
    BY <1>4, <2>1, InvoiceNames DEF InvoiceMintedTwice, SafetyInv, TypeOK
  <2> QED
    BY <1>4, <2>2, LedgerSeesNothing DEF InvoiceMintedTwice, Sent
<1>5. ASSUME NEW f \in Flow, RelayAccepts(f) PROVE Simulated
  <2>1. CASE pc[f] = "receipt"
    BY <1>2, <1>5, <2>1, ReceiptAttests DEF Ledger!LedgerNext
  <2>2. CASE pc[f] # "receipt"
    <3>1. \A g \in Flow : Sent("receipt", g)' <=> Sent("receipt", g)
      BY <1>5, <2>2 DEF RelayAccepts, Sent
    <3> QED
      BY <1>5, <3>1, LedgerSeesNothing DEF RelayAccepts
  <2> QED
    BY <2>1, <2>2
<1>6. ASSUME NEW f \in Flow, FeeInvoiceMinted(f) PROVE Simulated
  <2>1. \A g \in Flow : invoice'[ZapInv(g)] = invoice[ZapInv(g)]
    BY <1>6, InvoiceNames DEF FeeInvoiceMinted, SafetyInv, TypeOK
  <2> QED
    BY <1>6, <2>1, LedgerSeesNothing DEF FeeInvoiceMinted, Sent
<1>7. ASSUME NEW f \in Flow, ReceiptPublished(f) PROVE Simulated
  BY <1>2, <1>7, MarkPaidCloses DEF Ledger!LedgerNext
<1>8. ASSUME NEW f \in Flow, ZapTimedOut(f) PROVE Simulated
  BY <1>2, <1>8, TimeoutCloses DEF Ledger!LedgerNext
<1>9. ASSUME NEW i \in Invoice, Pay(i) PROVE Simulated
  <2>1. PICK f \in Flow : i = ZapInv(f) \/ i = FeeInv(f)
    BY InvoiceNames
  <2>2. CASE i = ZapInv(f)
    BY <1>2, <1>9, <2>2, PayingSettles DEF Ledger!LedgerNext
  <2>3. CASE i = FeeInv(f)
    <3>1. \A g \in Flow : invoice'[ZapInv(g)] = invoice[ZapInv(g)]
      BY <1>9, <2>3, InvoiceNames DEF Pay, SafetyInv, TypeOK
    <3> QED
      BY <1>9, <3>1, LedgerSeesNothing DEF Pay, Sent
  <2> QED
    BY <2>1, <2>2, <2>3
<1>10. ASSUME NEW f \in Flow,
             \/ RunZapFlow(f)
             \/ FailureReported(f)
             \/ InvoicePosted(f)
             \/ FeePosted(f)
             \/ PaidReported(f)
             \/ ExpiryReported(f)
             \/ ZapSettled(f)
             \/ FeeSettled(f)
             \/ FeeTimedOut(f)
             \/ InvoiceRefused(f)
             \/ FeeInvoiceRefused(f)
             \/ PublishRejected(f)
             \/ ZapPollThrew(f)
             \/ FeePollThrew(f)
      PROVE  Simulated
  BY <1>1, <1>10
     DEF RunZapFlow, FailureReported, InvoicePosted, FeePosted, PaidReported,
         ExpiryReported, ZapSettled, FeeSettled, FeeTimedOut, LoopExpired,
         InvoiceRefused, FeeInvoiceRefused, PublishRejected, ZapPollThrew, FeePollThrew
<1>11. ASSUME NEW i \in Invoice, CheckUnsettled(i) \/ CheckAgain(i) \/ DeadlinePasses(i)
      PROVE  Simulated
  BY <1>1, <1>11 DEF CheckUnsettled, CheckAgain, DeadlinePasses
<1>12. CASE Crash
  BY <1>1, <1>12 DEF Crash, ProcessDies
<1>13. CASE UNCHANGED vars
  BY <1>1, <1>13 DEF vars
<1> QED
  BY <1>3, <1>4, <1>5, <1>6, <1>7, <1>8, <1>9, <1>10, <1>11, <1>12, <1>13
     DEF Next, Running, FlowStep, FaultStep, PollStep

\* The flow implements the ledger, for any number of deliveries and faults.
THEOREM FlowImplementsLedger == Spec => ImplementsLedger
<1>1. Spec => []SafetyInv
  BY Safety
<1>2. Init => Ledger!LedgerInit
  BY LedgerInitial
<1>3. SafetyInv /\ [Next]_vars => [Ledger!LedgerNext]_Ledger!ledgerVars
  BY LedgerStep
<1> QED
  BY <1>1, <1>2, <1>3, PTL DEF Spec, ImplementsLedger, Ledger!LedgerSpec

-----------------------------------------------------------------------------
(* The interface of the triggers.                                          *)

\* The flow starts without calls and rows.
LEMMA CallsInitial == Init => Calls!CallInit
BY DEF Init, Calls!CallInit, CalledFlows, RowsInserted

\* runZapFlow is called: the only step that leaves "idle".
LEMMA RunningCalls ==
    ASSUME TypeOK, NEW f \in Flow, RunZapFlow(f)
    PROVE  Calls!Call(f)
<1>1. f \notin CalledFlows /\ CalledFlows' = CalledFlows \cup {f}
  BY DEF TypeOK, RunZapFlow, Goto, CalledFlows
<1>2. UNCHANGED RowsInserted
  BY DEF RunZapFlow, RowsInserted
<1> QED
  BY <1>1, <1>2 DEF Calls!Call

\* insertPending inserts the row of an execution that was called, for an event
\* that had none.
LEMMA MintingInserts ==
    ASSUME SafetyInv, NEW f \in Flow, InvoiceMinted(f)
    PROVE  Calls!InsertRow(f)
<1> USE DEF SafetyInv, TypeOK, InvoiceMinted, Goto
<1>1. f \in CalledFlows /\ UNCHANGED CalledFlows
  BY DEF CalledFlows
<1>2. ~Calls!HasRow(Src(f))
  BY DEF Calls!HasRow, Calls!Src, Src, RowExists, RowsInserted
<1>3. RowsInserted' = RowsInserted \cup {f}
  BY DEF RowsInserted
<1> QED
  BY <1>1, <1>2, <1>3 DEF Calls!InsertRow, Calls!Src, Calls!HasRow, Src

\* Every other step moves executions that were called already, and changes the
\* status of rows that are there.
LEMMA CallStep == SafetyInv /\ [Next]_vars => [Calls!CallNext]_Calls!callVars
<1> SUFFICES ASSUME SafetyInv, [Next]_vars PROVE [Calls!CallNext]_Calls!callVars
  OBVIOUS
<1> DEFINE Simulated == [Calls!CallNext]_Calls!callVars
<1>1. ASSUME UNCHANGED <<CalledFlows, RowsInserted>> PROVE Simulated
  BY <1>1 DEF Calls!callVars
<1>2. Calls!Flow = Flow
  BY DEF Calls!Flow, Flow
<1>3. ASSUME NEW f \in Flow, RunZapFlow(f) PROVE Simulated
  BY <1>2, <1>3, RunningCalls DEF Calls!CallNext, SafetyInv
<1>4. ASSUME NEW f \in Flow, InvoiceMinted(f) PROVE Simulated
  BY <1>2, <1>4, MintingInserts DEF Calls!CallNext
<1>5. ASSUME UNCHANGED <<pc, zaps>> PROVE Simulated
  BY <1>1, <1>5 DEF CalledFlows, RowsInserted
<1>6. ASSUME NEW f \in Flow, NEW label \in Live \cup Outcome, pc[f] # "idle",
             UNCHANGED zaps, pc' = [pc EXCEPT ![f] = label]
      PROVE  Simulated
  BY <1>1, <1>6 DEF SafetyInv, TypeOK, CalledFlows, RowsInserted, Live, Publishing, Outcome
<1>7. ASSUME NEW f \in Flow,
             \/ InvoiceMintedTwice(f)
             \/ FailureReported(f)
             \/ PaidReported(f)
             \/ ExpiryReported(f)
             \/ FeeInvoiceMinted(f)
             \/ InvoiceRefused(f)
             \/ PublishRejected(f)
      PROVE  Simulated
  BY <1>6, <1>7
     DEF InvoiceMintedTwice, FailureReported, PaidReported, ExpiryReported, Acked,
         FeeInvoiceMinted, InvoiceRefused, PublishRejected, Goto, Live, Publishing, Outcome
<1>8. ASSUME NEW f \in Flow, InvoicePosted(f) \/ FeePosted(f) \/ FeeInvoiceRefused(f)
      PROVE  Simulated
  BY <1>6, <1>8
     DEF InvoicePosted, FeePosted, FeeInvoiceRefused, StartPolling, Acked, Goto, Live,
         Publishing, Outcome
<1>9. ASSUME NEW f \in Flow, ZapSettled(f) \/ ZapPollThrew(f) PROVE Simulated
  <2>1. pc[f] = "poll"
    BY <1>9 DEF ZapSettled, ZapPollThrew, CheckSettled, CheckThrew, SafetyInv, Parts, PolledAtPoll
  <2> QED
    BY <1>6, <1>9, <2>1
       DEF ZapSettled, ZapPollThrew, Goto, Live, Publishing, Outcome
<1>10. ASSUME NEW f \in Flow, ReceiptPublished(f) \/ ZapTimedOut(f) PROVE Simulated
  <2>1. pc[f] # "idle" /\ zaps[f] = "pending"
    BY <1>10 DEF ReceiptPublished, Acked, ZapTimedOut, LoopExpired, SafetyInv, Parts,
                 PolledAtPoll, RowAtPc
  <2>2. UNCHANGED <<CalledFlows, RowsInserted>>
    BY <1>10, <2>1 DEF ReceiptPublished, ZapTimedOut, Goto, SafetyInv, TypeOK,
                       CalledFlows, RowsInserted
  <2> QED
    BY <1>1, <2>2
<1>11. ASSUME NEW f \in Flow,
              RelayAccepts(f) \/ FeeSettled(f) \/ FeeTimedOut(f) \/ FeePollThrew(f)
      PROVE  Simulated
  BY <1>5, <1>11 DEF RelayAccepts, FeeSettled, FeeTimedOut, FeePollThrew
<1>12. ASSUME NEW i \in Invoice,
              CheckUnsettled(i) \/ CheckAgain(i) \/ DeadlinePasses(i) \/ Pay(i)
      PROVE  Simulated
  BY <1>5, <1>12 DEF CheckUnsettled, CheckAgain, DeadlinePasses, Pay
<1>13. CASE Crash
  BY <1>1, <1>13 DEF Crash, ProcessDies, SafetyInv, TypeOK, CalledFlows, RowsInserted,
                     Live, Publishing
<1>14. CASE UNCHANGED vars
  BY <1>5, <1>14 DEF vars
<1> QED
  BY <1>3, <1>4, <1>7, <1>8, <1>9, <1>10, <1>11, <1>12, <1>13, <1>14
     DEF Next, Running, FlowStep, FaultStep, PollStep

\* The flow implements the interface its callers rely on, for any number of
\* deliveries and faults.
THEOREM FlowImplementsCalls == Spec => ImplementsCalls
<1>1. Spec => []SafetyInv
  BY Safety
<1>2. Init => Calls!CallInit
  BY CallsInitial
<1>3. SafetyInv /\ [Next]_vars => [Calls!CallNext]_Calls!callVars
  BY CallStep
<1> QED
  BY <1>1, <1>2, <1>3, PTL DEF Spec, ImplementsCalls, Calls!CallSpec
=============================================================================
