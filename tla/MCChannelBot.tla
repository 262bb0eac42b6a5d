---------------------------- MODULE MCChannelBot ----------------------------
(* Instances of ChannelBot for TLC: a message, the reply of an agent to it *)
(* and the reaction of another user.  The zap of the reaction has a fee of *)
(* one sat, and only its invoices may be refused.  The reply has no fee,   *)
(* because it charges for the fee wallet or because 50 sats are too few    *)
(* for one, and everything may go wrong with it.                           *)
EXTENDS ChannelBot, TLC

CONSTANTS post, reply, reaction, d1, d2, author, replier, reactor, bot

MCMessage == {post} \cup AgentReply
MCSigner == post :> author @@ reply :> replier @@ reaction :> reactor
MCSigned == [e \in MCMessage \cup Source |-> MCSigner[e]]
MCTarget == [s \in AgentReply \cup Reaction |-> post]

MCHundred == [s \in Source |-> 100]
MCFifty == [s \in Source |-> 50]
MCFaults == [s \in Source |-> IF s = reaction THEN {"invoice"} ELSE FaultKind]

MCLinkCommand == {[by |-> author, name |-> "author"]}
=============================================================================
