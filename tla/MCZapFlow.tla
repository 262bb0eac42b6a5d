----------------------------- MODULE MCZapFlow -----------------------------
(* Instances of ZapFlow for TLC.  Under a fee of 2%, 50 sats carry the     *)
(* least fee there is.                                                     *)
EXTENDS ZapFlow, TLC

CONSTANTS zap, d1, d2, d3

MCDeliveries == {d1, d2}
MCThreeDeliveries == {d1, d2, d3}

MCOneAmount == (zap :> 50)

\* One fault kind, or all of them.
PublishFails == [s \in Source |-> {"publish"}]
VerifyFails == [s \in Source |-> {"verify"}]
AnyFault == [s \in Source |-> FaultKind]

\* Deliveries of one event are interchangeable (used by safety runs only).
MCSymmetry == Permutations(Delivery)
=============================================================================
