----------------------------- MODULE MCTriggers -----------------------------
(* Instances of Triggers for TLC: a message whose author is linked twice, the *)
(* reply of an agent to it, which may be a /zap command too, a reply of that  *)
(* agent to itself, a reaction of another user and one of the author.         *)
EXTENDS Triggers, TLC

CONSTANTS post, reply, selfReply, reaction, selfReaction, d1,
          author, replier, reactor, bot

MCMessage == {post} \cup AgentReply
MCSigner == post :> author @@ reply :> replier @@ selfReply :> replier
            @@ reaction :> reactor @@ selfReaction :> author
MCSigned == [e \in MCMessage \cup Source |-> MCSigner[e]]
MCTarget == [s \in AgentReply \cup Reaction |-> IF s = selfReply THEN reply ELSE post]

First == [by |-> author, name |-> "first"]
Second == [by |-> author, name |-> "second"]
MCLinkCommand == {First, Second}
=============================================================================
