----------------------------- MODULE Executions -----------------------------
(***************************************************************************)
(* The executions of the bot's handlers, and of the flow they end in: one  *)
(* for each delivery of a source event.  The relay delivers an event again *)
(* after a reconnection, a resubscription or a restart.                    *)
(***************************************************************************)
CONSTANTS
    Source,          \* trigger events, by event id (the source_event_id column)
    Delivery,        \* bound: the times one event is delivered to its handler
    MayDie           \* whether the process may die

ASSUME MayDieAssumption == MayDie \in BOOLEAN

Flow == Source \X Delivery
Src(f) == f[1]
=============================================================================
