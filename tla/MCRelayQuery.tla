---------------------------- MODULE MCRelayQuery ----------------------------
(* Instances of RelayQuery for TLC: a call of fetchChannelAdmins and a     *)
(* lookup, and up to three events for the filter of each, two of them signed *)
(* within the same second.                                                   *)
EXTENDS RelayQuery

CONSTANTS gate, lookup, channel, profile

MCFilter == [q \in Call |-> IF q = lookup THEN profile ELSE channel]
MCStamps == [v \in 1..3 |-> IF v = 1 THEN 1 ELSE 2]
=============================================================================
