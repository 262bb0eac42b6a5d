----------------------------- MODULE ZapLedger -----------------------------
(***************************************************************************)
(* What buzz-zaps promises about one trigger event, whatever the relay,    *)
(* the wallet and the process do: the event is recorded at most once, a    *)
(* receipt only follows a settled invoice, a record is closed as paid only *)
(* after its receipt, and a record is never both attested and expired.     *)
(* How often the relay redelivers the event, how the invoice is polled and *)
(* where the process may die is the business of ZapFlow.                   *)
(***************************************************************************)
CONSTANT Source      \* trigger events, by event id

VARIABLES
    recorded,        \* events with a row in the zaps table
    settled,         \* recorded events whose invoice the wallet holds as paid
    attested,        \* events with a kind:9735 receipt on the relay
    paid,            \* events whose row says paid
    expired          \* events whose row says expired

ledgerVars == <<recorded, settled, attested, paid, expired>>

LedgerInit ==
    /\ recorded = {}
    /\ settled = {}
    /\ attested = {}
    /\ paid = {}
    /\ expired = {}

Record(s) ==
    /\ s \notin recorded
    /\ recorded' = recorded \cup {s}
    /\ UNCHANGED <<settled, attested, paid, expired>>

\* Money may arrive at any time after the record, also once it has expired.
Settle(s) ==
    /\ s \in recorded \ settled
    /\ settled' = settled \cup {s}
    /\ UNCHANGED <<recorded, attested, paid, expired>>

Attest(s) ==
    /\ s \in settled \ (attested \cup expired)
    /\ attested' = attested \cup {s}
    /\ UNCHANGED <<recorded, settled, paid, expired>>

ClosePaid(s) ==
    /\ s \in attested \ paid
    /\ paid' = paid \cup {s}
    /\ UNCHANGED <<recorded, settled, attested, expired>>

CloseExpired(s) ==
    /\ s \in recorded \ (attested \cup expired)
    /\ expired' = expired \cup {s}
    /\ UNCHANGED <<recorded, settled, attested, paid>>

LedgerNext ==
    \E s \in Source :
        \/ Record(s)
        \/ Settle(s)
        \/ Attest(s)
        \/ ClosePaid(s)
        \/ CloseExpired(s)

LedgerSpec == LedgerInit /\ [][LedgerNext]_ledgerVars
=============================================================================
