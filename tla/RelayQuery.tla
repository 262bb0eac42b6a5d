----------------------------- MODULE RelayQuery -----------------------------
(***************************************************************************)
(* The one-shot queries of src/bot/relay-client.ts: hasAgentProfile,       *)
(* fetchEventById, hasMergeStatusEvent and fetchChannelAdmins.  Each opens *)
(* a subscription, arms a timer, and resolves its promise on the first of  *)
(* a matching event, the end of the stored events (EOSE) and the timer;    *)
(* fetchChannelAdmins lets events pass and resolves with the newest one.   *)
(*                                                                         *)
(* The events that match a filter are numbered in the order in which they  *)
(* were signed; Stamp gives their created_at, which is a second and may be *)
(* the same for several.  The relay, the connection and the library that   *)
(* re-opens subscriptions are external.                                    *)
(***************************************************************************)
EXTENDS Integers

CONSTANTS
    Call,            \* the calls of the four functions
    Admins,          \* the calls of fetchChannelAdmins, the one that waits for EOSE
    Filter,          \* what is asked for, for each call
    Stamp,           \* created_at of the events that match a filter
    MaxEvents        \* bound: the events that match one filter

ASSUME AdminsAssumption == Admins \subseteq Call
ASSUME MaxAssumption == MaxEvents \in Nat
ASSUME FilterAssumption == DOMAIN Filter = Call
ASSUME StampAssumption ==
    /\ Stamp \in [1..MaxEvents -> Nat \ {0}]
    /\ \A v, w \in 1..MaxEvents : v <= w => Stamp[v] <= Stamp[w]

Filters == {Filter[q] : q \in Call}

VARIABLES
    signed,          \* how many matching events exist, for each filter (external)
    held,            \* those the relay holds (external)
    call,            \* where each call is
    timer,           \* the calls whose timer is armed
    open,            \* the calls whose subscription the library keeps open
    due,             \* what the relay has still to send; EOSE follows
    fed,             \* the calls whose subscription the relay is serving
    last,            \* created_at of the event each subscription received last
    found,           \* the event the call has, 0 if none
    atStart          \* what the relay held when the call was made

vars == <<signed, held, call, timer, open, due, fed, last, found, atStart>>
relayVars == <<signed, held>>

Event == 1..MaxEvents

\* created_at of the event a call has, 0 if it has none.
Age(v) == IF v = 0 THEN 0 ELSE Stamp[v]

Held(q) == held[Filter[q]]

TypeOK ==
    /\ signed \in [Filters -> 0..MaxEvents]
    /\ held \in [Filters -> SUBSET Event]
    /\ call \in [Call -> {"idle", "waiting", "answered", "timedOut"}]
    /\ timer \subseteq Call
    /\ open \subseteq Call
    /\ due \in [Call -> SUBSET Event]
    /\ fed \subseteq Call
    /\ last \in [Call -> Nat]
    /\ found \in [Call -> 0..MaxEvents]
    /\ atStart \in [Call -> SUBSET Event]

Init ==
    /\ signed = [t \in Filters |-> 0]
    /\ held = [t \in Filters |-> {}]
    /\ call = [q \in Call |-> "idle"]
    /\ timer = {}
    /\ open = {}
    /\ due = [q \in Call |-> {}]
    /\ fed = {}
    /\ last = [q \in Call |-> 0]
    /\ found = [q \in Call |-> 0]
    /\ atStart = [q \in Call |-> {}]

-----------------------------------------------------------------------------
(* The relay.  A new event replaces the ones before it, or joins them when *)
(* it is of another author; subscriptions being served get it at once, in  *)
(* any order with what they have still to get.                             *)

Sign(t) ==
    /\ signed[t] < MaxEvents
    /\ LET v == signed[t] + 1 IN
          /\ signed' = [signed EXCEPT ![t] = v]
          /\ \E rest \in {{}, held[t]} : held' = [held EXCEPT ![t] = rest \cup {v}]
          /\ due' = [q \in Call |-> IF q \in fed /\ Filter[q] = t
                                       THEN due[q] \cup {v} ELSE due[q]]
    /\ UNCHANGED <<call, timer, open, fed, last, found, atStart>>

\* The subscription reaches the relay.  When it was open across a reconnection
\* the library asks again, for what is newer than the event received last.
Serve(q) ==
    /\ q \in open \ fed
    /\ fed' = fed \cup {q}
    /\ due' = [due EXCEPT ![q] = {v \in Held(q) : Stamp[v] > last[q]}]
    /\ UNCHANGED <<relayVars, call, timer, open, last, found, atStart>>

DropConnection ==
    /\ fed # {}
    /\ fed' = {}
    /\ due' = [q \in Call |-> {}]
    /\ UNCHANGED <<relayVars, call, timer, open, last, found, atStart>>

\* CLOSED from the relay: none of the four functions passes an onclose.
CloseByRelay(q) ==
    /\ q \in open
    /\ open' = open \ {q}
    /\ fed' = fed \ {q}
    /\ due' = [due EXCEPT ![q] = {}]
    /\ UNCHANGED <<relayVars, call, timer, last, found, atStart>>

-----------------------------------------------------------------------------
(* The calls.                                                              *)

StartCall(q) ==
    /\ call[q] = "idle"
    /\ call' = [call EXCEPT ![q] = "waiting"]
    /\ timer' = timer \cup {q}
    /\ open' = open \cup {q}
    /\ atStart' = [atStart EXCEPT ![q] = Held(q)]
    /\ UNCHANGED <<relayVars, due, fed, last, found>>

KeepsSubscription(q) == UNCHANGED <<open, fed, due>>

\* sub.close(): nothing the relay may still send is handed over.
Unsubscribe(q) ==
    /\ open' = open \ {q}
    /\ fed' = fed \ {q}
    /\ due' = [due EXCEPT ![q] = {}]

Resolve(q, how) ==
    /\ call' = [call EXCEPT ![q] = how]
    /\ timer' = timer \ {q}
    /\ Unsubscribe(q)

Receives(q, v) ==
    /\ q \in fed
    /\ v \in due[q]
    /\ call[q] = "waiting"
    /\ last' = [last EXCEPT ![q] = Stamp[v]]
    /\ UNCHANGED <<relayVars, atStart>>

OnEvent(q, v) ==
    /\ q \notin Admins
    /\ Receives(q, v)
    /\ found' = [found EXCEPT ![q] = v]
    /\ Resolve(q, "answered")

LastEventWins(q, v) ==
    /\ q \in Admins
    /\ Receives(q, v)
    /\ found' = [found EXCEPT ![q] = v]
    /\ due' = [due EXCEPT ![q] = @ \ {v}]
    /\ UNCHANGED <<call, timer, open, fed>>

OnlyReplacesEvent(q, v) ==
    /\ q \in Admins
    /\ Receives(q, v)
    /\ found' = [found EXCEPT ![q] = IF @ # 0 /\ Stamp[v] > Age(@) THEN v ELSE @]
    /\ due' = [due EXCEPT ![q] = @ \ {v}]
    /\ UNCHANGED <<call, timer, open, fed>>

EventDisarmsTimer(q, v) ==
    /\ q \in Admins
    /\ Receives(q, v)
    /\ found' = [found EXCEPT ![q] = IF Stamp[v] > Age(@) THEN v ELSE @]
    /\ due' = [due EXCEPT ![q] = @ \ {v}]
    /\ timer' = timer \ {q}
    /\ UNCHANGED <<call, open, fed>>

OnAdminsEvent(q, v) ==
    /\ q \in Admins
    /\ Receives(q, v)
    /\ found' = [found EXCEPT ![q] = IF Stamp[v] > Age(@) THEN v ELSE @]
    /\ due' = [due EXCEPT ![q] = @ \ {v}]
    /\ UNCHANGED <<call, timer, open, fed>>

OnEose(q) ==
    /\ q \in fed
    /\ due[q] = {}
    /\ call[q] = "waiting"
    /\ Resolve(q, "answered")
    /\ UNCHANGED <<relayVars, last, found, atStart>>

TimerResolvesWithFound(q) ==
    /\ q \in timer
    /\ Resolve(q, "timedOut")
    /\ UNCHANGED <<relayVars, last, found, atStart>>

OnTimer(q) ==
    /\ q \in timer
    /\ Resolve(q, "timedOut")
    /\ found' = [found EXCEPT ![q] = 0]
    /\ UNCHANGED <<relayVars, last, atStart>>

-----------------------------------------------------------------------------

Next ==
    \/ \E t \in Filters : Sign(t)
    \/ DropConnection
    \/ \E q \in Call :
          \/ StartCall(q)
          \/ Serve(q)
          \/ CloseByRelay(q)
          \/ \E v \in Event : OnEvent(q, v) \/ OnAdminsEvent(q, v)
          \/ OnEose(q)
          \/ OnTimer(q)

Spec == Init /\ [][Next]_vars

\* Timers fire.  Nothing is assumed of the relay or of the connection.
FairSpec == Spec /\ \A q \in Call : WF_vars(OnTimer(q))

-----------------------------------------------------------------------------
(* Properties.                                                             *)

\* fetchChannelAdmins never grants anything on a list older than the one the
\* relay had when the call was made, whatever the order of the events, the
\* reconnections and the timeout do to it: an admin removed before stays out.
AdminsAreCurrent ==
    \A q \in Admins :
        (call[q] \in {"answered", "timedOut"} /\ found[q] # 0)
            => \A v \in atStart[q] : Stamp[v] <= Stamp[found[q]]

\* A call that was not ended by its timer has seen what the relay had when it
\* was made: "no such event" is then an answer, also after a reconnection.
NothingIsMissed ==
    \A q \in Call : (call[q] = "answered" /\ atStart[q] # {}) => found[q] # 0

\* A call that is over has neither a timer nor a subscription left, whichever
\* of the event, the EOSE, the timer and the relay's CLOSED came first.
NothingIsLeft ==
    \A q \in Call : call[q] \in {"answered", "timedOut"} => q \notin timer \cup open

\* A call that waits has its timer, also when the relay has closed the
\* subscription, the connection is gone or events have come: whatever else
\* fails, it can end.
WaitersHaveTimers ==
    \A q \in Call : call[q] = "waiting" => q \in timer

\* Every call ends, although the relay may be silent, gone, or have closed the
\* subscription: the handlers that wait for one are never stuck.
EveryCallEnds ==
    \A q \in Call : call[q] = "waiting" ~> call[q] \in {"answered", "timedOut"}

\* Every event there was when the call was made, replaced since or before: the
\* relay holds at least the newest one of them.
SignedBefore(q) == {w \in Event : \E v \in atStart[q] : w <= v}

Promised == INSTANCE Lookup WITH
    Latest <- Admins,
    None <- 0,
    posted <- [t \in Filters |-> 1..signed[t]],
    status <- call,
    before <- [q \in Call |-> SignedBefore(q)],
    answer <- [q \in Call |-> IF call[q] \in {"answered", "timedOut"} THEN found[q] ELSE 0]

\* A query is as good as reading the relay at one moment between the call and
\* its end, although the answer is put together from a stream that other
\* events, the EOSE, the timer and reconnections interrupt.
ImplementsLookup == Promised!LookupSpec
=============================================================================
