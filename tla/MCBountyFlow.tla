---------------------------- MODULE MCBountyFlow ----------------------------
(* Instances of BountyFlow for TLC: one pull request, an admin and the       *)
(* author, who is an admin too, and no fee (ZapFlow's runs have one).        *)
EXTENDS BountyFlow, TLC

CONSTANTS merge, retry, d1, d2, pr, admin, author

MCTarget == [s \in Source |-> pr]
MCAuthor == pr :> author
MCAmounts == [s \in Source |-> 100]

ByAdmin == [target |-> pr, sats |-> 100, by |-> admin]
ByAuthor == [target |-> pr, sats |-> 100, by |-> author]

OneCommand == {ByAdmin}
OfBoth == {ByAdmin, ByAuthor}

NoFault == [s \in Source |-> {}]
InvoiceFails == [s \in Source |-> {"invoice"}]
InvoiceAndPublishFail == [s \in Source |-> {"invoice", "publish"}]
=============================================================================
