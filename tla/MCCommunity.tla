---------------------------- MODULE MCCommunity ----------------------------
(* Instance of Community for TLC: a community with events, whose relay keeps *)
(* the order of what it is sent, and one whose relay may refuse.             *)
EXTENDS Community, TLC

CONSTANTS good, bad, channel

MCMaxEvents == good :> 3 @@ bad :> 1
=============================================================================
