----------------------------- MODULE Community -----------------------------
(***************************************************************************)
(* The process from its start to its end (src/index.ts), and what feeds    *)
(* the handlers meanwhile (src/bot/relay-client.ts): every community       *)
(* connects to its own relay, authenticates (NIP-42), subscribes to its    *)
(* feeds, and subscribes again when the relay closes a subscription.       *)
(*                                                                         *)
(* nostr-tools is external: with enableReconnect it opens a connection     *)
(* that dropped again for ever, answers the AUTH challenge of each, and    *)
(* as soon as a connection is open sends the REQ of every subscription it  *)
(* still tracks, from the last event it received on.  It forgets a         *)
(* subscription the relay has closed.                                      *)
(***************************************************************************)
EXTENDS Naturals

CONSTANTS
    Communities,     \* the communities of communities.yaml
    Feed,            \* the subscriptions of a community: channel, merge events
    Refusing,        \* communities whose relay may be unreachable, never send a
                     \* challenge or refuse to authenticate the bot
    KeepsOrder,      \* communities whose relay answers a REQ that was sent before
                     \* the AUTH before it takes the AUTH
    Forged,          \* events with an invalid signature
    MaxEvents,       \* bound: events posted to a feed, by community
    MaxFaults        \* bound: dropped connections and subscriptions closed at will

ASSUME CommunitiesAssumption == Refusing \cup KeepsOrder \subseteq Communities
ASSUME MaxEventsAssumption == MaxEvents \in [Communities -> Nat]
ASSUME MaxFaultsAssumption == MaxFaults \in Nat

VARIABLES
    process,         \* where main is, and how it ended
    stage,           \* how far the start of each community is
    conn,            \* its connection to the relay
    dropped,         \* communities that have lost a connection
    sub,             \* the subscription nostr-tools tracks for each feed
    timer,           \* whether the two-second timer to subscribe again runs
    posted,          \* events the relay has stored, numbered by created_at
    due,             \* events the relay still has to send on the subscription
    newest,          \* the last event the subscription has received, 0 for none
    handled,         \* events handed to the handlers of the feed
    faults           \* faults so far

procVars == <<process, stage>>
feedVars == <<sub, timer, due, newest>>
vars == <<procVars, conn, dropped, feedVars, posted, handled, faults>>

Sub == Communities \X Feed

Com(s) == s[1]
Event(c) == 1..MaxEvents[c]

Starting == {"connect", "challenge", "auth"}

\* A subscription is "kept" while the connection is down, "refired" or "sent"
\* while its REQ is on its way, "live" once the relay has accepted it.
SubState == {"none", "kept", "refired", "sent", "live"}

CommunityTypeOK ==
    /\ process \in {"starting", "serving", "stopped", "killed", "useless"}
    /\ stage \in [Communities -> Starting \cup {"online", "failed"}]
    /\ conn \in [Communities -> {"none", "down", "open", "authed"}]
    /\ dropped \subseteq Communities
    /\ sub \in [Sub -> SubState]
    /\ timer \in [Sub -> BOOLEAN]
    /\ faults \in 0..MaxFaults
    /\ posted \in [Sub -> Nat] /\ newest \in [Sub -> Nat]
    /\ due \in [Sub -> SUBSET Nat] /\ handled \in [Sub -> SUBSET Nat]
    /\ \A s \in Sub :
          /\ posted[s] \in 0..MaxEvents[Com(s)]
          /\ newest[s] \in 0..posted[s]
          /\ due[s] \cup handled[s] \subseteq 1..posted[s]
          /\ sub[s] \in {"refired", "sent"} => conn[Com(s)] \in {"open", "authed"}
          /\ sub[s] = "live" => conn[Com(s)] = "authed"

Init ==
    /\ process = "starting"
    /\ stage = [c \in Communities |-> "connect"]
    /\ conn = [c \in Communities |-> "none"]
    /\ dropped = {}
    /\ sub = [s \in Sub |-> "none"]
    /\ timer = [s \in Sub |-> FALSE]
    /\ posted = [s \in Sub |-> 0]
    /\ due = [s \in Sub |-> {}]
    /\ newest = [s \in Sub |-> 0]
    /\ handled = [s \in Sub |-> {}]
    /\ faults = 0

Running == process \in {"starting", "serving"}

-----------------------------------------------------------------------------
(* startCommunity, one run per community and all of them at once.          *)

At(c, where) == process = "starting" /\ stage[c] = where
Moves(c, where) == stage' = [stage EXCEPT ![c] = where]

Fails(c) ==
    /\ Moves(c, "failed")
    /\ UNCHANGED <<process, conn, dropped, feedVars, posted, handled, faults>>

Connects(c) ==
    /\ At(c, "connect")
    /\ Moves(c, "challenge")
    /\ conn' = [conn EXCEPT ![c] = "open"]
    /\ UNCHANGED <<process, dropped, feedVars, posted, handled, faults>>

\* Relay.connect rejects: nothing connects again by itself.
ConnectFails(c) ==
    /\ At(c, "connect")
    /\ c \in Refusing
    /\ Fails(c)

\* waitForChallenge sees the challenge of the connection.
ChallengeSeen(c) ==
    /\ At(c, "challenge")
    /\ conn[c] \in {"open", "authed"}
    /\ Moves(c, "auth")
    /\ UNCHANGED <<process, conn, dropped, feedVars, posted, handled, faults>>

MayGoWrong(c) == c \in Refusing \cup dropped

WaitsForEver(c) == FALSE /\ Fails(c)

ChallengeTimesOut(c) ==
    /\ At(c, "challenge")
    /\ MayGoWrong(c)
    /\ Fails(c)

AuthRejected(c) ==
    /\ At(c, "auth")
    /\ MayGoWrong(c)
    /\ Fails(c)

\* relay.auth resolves, and the two subscriptions are made before the next await.
AuthAccepted(c) ==
    /\ At(c, "auth")
    /\ conn[c] \in {"open", "authed"}
    /\ conn' = [conn EXCEPT ![c] = "authed"]
    /\ Moves(c, "online")
    /\ sub' = [s \in Sub |-> IF Com(s) = c THEN "sent" ELSE sub[s]]
    /\ UNCHANGED <<process, dropped, timer, due, newest, posted, handled, faults>>

-----------------------------------------------------------------------------
(* The connection (external).                                              *)

SubsBecome(c, state) ==
    sub' = [s \in Sub |-> IF Com(s) = c /\ sub[s] # "none" THEN state ELSE sub[s]]

Fault == faults < MaxFaults /\ faults' = faults + 1

ConnectionDrops(c) ==
    /\ Running
    /\ Fault
    /\ conn[c] \in {"open", "authed"}
    /\ conn' = [conn EXCEPT ![c] = "down"]
    /\ dropped' = dropped \cup {c}
    /\ SubsBecome(c, "kept")
    /\ UNCHANGED <<procVars, timer, due, newest, posted, handled>>

Reconnects(c) ==
    /\ Running
    /\ conn[c] = "down"
    /\ conn' = [conn EXCEPT ![c] = "open"]
    /\ SubsBecome(c, "refired")
    /\ UNCHANGED <<procVars, dropped, timer, due, newest, posted, handled, faults>>

\* relay.onauth answers the challenge of a connection, also for a community
\* whose start has failed meanwhile.
ReAuthenticates(c) ==
    /\ Running
    /\ stage[c] \notin {"connect", "auth"}
    /\ conn[c] = "open"
    /\ c \in KeepsOrder => \A s \in Sub : Com(s) = c => sub[s] # "refired"
    /\ conn' = [conn EXCEPT ![c] = "authed"]
    /\ UNCHANGED <<procVars, dropped, feedVars, posted, handled, faults>>

-----------------------------------------------------------------------------
(* The feeds: subscribeToChannel and subscribeGlobal.                      *)

\* The relay accepts the REQ, and has to send what is newer than the last event
\* the subscription has received.
RelayAccepts(s) ==
    /\ Running
    /\ sub[s] \in {"refired", "sent"}
    /\ conn[Com(s)] = "authed"
    /\ sub' = [sub EXCEPT ![s] = "live"]
    /\ due' = [due EXCEPT ![s] = {e \in 1..posted[s] : e > newest[s]}]
    /\ UNCHANGED <<procVars, conn, dropped, timer, newest, posted, handled, faults>>

StaysClosed(s) ==
    /\ sub' = [sub EXCEPT ![s] = "none"]
    /\ due' = [due EXCEPT ![s] = {}]
    /\ UNCHANGED <<procVars, conn, dropped, timer, newest, posted, handled>>

\* CLOSED: nostr-tools forgets the subscription and calls its onclose, which
\* starts the timer (resubscribeOnUnexpectedClose).
SubClosed(s) ==
    /\ sub' = [sub EXCEPT ![s] = "none"]
    /\ due' = [due EXCEPT ![s] = {}]
    /\ timer' = [timer EXCEPT ![s] = TRUE]
    /\ UNCHANGED <<procVars, conn, dropped, newest, posted, handled>>

\* "auth-required: not authenticated".
RelayCloses(s) ==
    /\ Running
    /\ sub[s] \in {"refired", "sent"}
    /\ conn[Com(s)] = "open"
    /\ SubClosed(s)
    /\ UNCHANGED faults

RelayClosesAtWill(s) ==
    /\ Running
    /\ Fault
    /\ sub[s] = "live"
    /\ SubClosed(s)

ResubscribesSince(s) ==
    /\ Running
    /\ timer[s]
    /\ timer' = [timer EXCEPT ![s] = FALSE]
    /\ sub' = [sub EXCEPT ![s] = IF conn[Com(s)] = "down" THEN "kept" ELSE "sent"]
    /\ UNCHANGED <<procVars, conn, dropped, due, newest, posted, handled, faults>>

\* A new subscription, with the filter of the first one: the relay sends all it
\* has stored again.
Resubscribes(s) ==
    /\ Running
    /\ timer[s]
    /\ timer' = [timer EXCEPT ![s] = FALSE]
    /\ sub' = [sub EXCEPT ![s] = IF conn[Com(s)] = "down" THEN "kept" ELSE "sent"]
    /\ newest' = [newest EXCEPT ![s] = 0]
    /\ UNCHANGED <<procVars, conn, dropped, due, posted, handled, faults>>

PostEvent(s) ==
    /\ Running
    /\ posted[s] < MaxEvents[Com(s)]
    /\ posted' = [posted EXCEPT ![s] = @ + 1]
    /\ due' = [due EXCEPT ![s] = IF sub[s] = "live" THEN @ \cup {posted'[s]} ELSE @]
    /\ UNCHANGED <<procVars, conn, dropped, sub, timer, newest, handled, faults>>

\* verifyEvent, then the handlers of the feed (Triggers, ZapFlow, BountyFlow).
HandsOver(s, e) == handled' = [handled EXCEPT ![s] = @ \cup ({e} \ Forged)]

\* The relay sends what it owes in any order: nothing asks it for one.
EventArrives(s, e) ==
    /\ Running
    /\ sub[s] = "live"
    /\ e \in due[s]
    /\ due' = [due EXCEPT ![s] = @ \ {e}]
    /\ newest' = [newest EXCEPT ![s] = IF e > @ THEN e ELSE @]
    /\ HandsOver(s, e)
    /\ UNCHANGED <<procVars, conn, dropped, sub, timer, posted, faults>>

-----------------------------------------------------------------------------
(* main.                                                                   *)

Handles == {c \in Communities : stage[c] = "online"}

FirstFailureExits ==
    /\ process = "starting"
    /\ \/ /\ \E c \in Communities : stage[c] = "failed"
          /\ process' = "useless"
       \/ /\ Handles = Communities
          /\ process' = "serving"
    /\ UNCHANGED <<stage, conn, dropped, feedVars, posted, handled, faults>>

\* Promise.allSettled, partitionStartResults, and the handlers of the signals.
MainGoesOn ==
    /\ process = "starting"
    /\ \A c \in Communities : stage[c] \in {"online", "failed"}
    /\ process' = IF Handles = {} THEN "useless" ELSE "serving"
    /\ UNCHANGED <<stage, conn, dropped, feedVars, posted, handled, faults>>

\* A signal before main has put its handler: the process just dies.
KilledAtStart ==
    /\ process = "starting"
    /\ process' = "killed"
    /\ UNCHANGED <<stage, conn, dropped, feedVars, posted, handled, faults>>

\* relay.close closes the subscriptions, and as prepareForShutdown was called
\* before, none of them starts a timer.
Shutdown ==
    /\ process = "serving"
    /\ process' = "stopped"
    /\ conn' = [c \in Communities |-> IF c \in Handles THEN "none" ELSE conn[c]]
    /\ sub' = [s \in Sub |-> IF Com(s) \in Handles THEN "none" ELSE sub[s]]
    /\ UNCHANGED <<stage, dropped, timer, due, newest, posted, handled, faults>>

-----------------------------------------------------------------------------

GivesUp(c) ==
    \/ ConnectFails(c)
    \/ ChallengeTimesOut(c)
    \/ AuthRejected(c)

StartStep(c) ==
    \/ Connects(c)
    \/ ChallengeSeen(c)
    \/ AuthAccepted(c)
    \/ GivesUp(c)

FeedStep(s) ==
    \/ RelayAccepts(s)
    \/ RelayCloses(s)
    \/ Resubscribes(s)

Next ==
    \/ \E c \in Communities :
          \/ StartStep(c)
          \/ ConnectionDrops(c)
          \/ Reconnects(c)
          \/ ReAuthenticates(c)
    \/ \E s \in Sub :
          \/ FeedStep(s)
          \/ RelayClosesAtWill(s)
          \/ PostEvent(s)
          \/ \E e \in due[s] : EventArrives(s, e)
    \/ MainGoesOn
    \/ KilledAtStart
    \/ Shutdown

Spec == Init /\ [][Next]_vars

\* Timers fire, the awaits of the start have a timeout each, nostr-tools retries
\* for ever, and the relays that work answer.  One that refuses owes nothing.
FairSpec ==
    /\ Spec
    /\ WF_vars(MainGoesOn)
    /\ \A c \in Communities : WF_vars(GivesUp(c)) /\ WF_vars(Reconnects(c))
    /\ \A c \in Communities \ Refusing :
          WF_vars(StartStep(c)) /\ WF_vars(ReAuthenticates(c))
    /\ \A s \in Sub :
          /\ WF_vars(FeedStep(s))
          /\ \A e \in Event(Com(s)) : WF_vars(e \in due[s] /\ EventArrives(s, e))

-----------------------------------------------------------------------------
(* Properties.                                                             *)

\* While the process runs, a feed of an online community is never lost and never
\* doubled: either nostr-tools tracks one subscription for it or one timer is
\* about to make one, whichever way drops, CLOSED and timers interleave.
OneSubscription ==
    Running =>
        \A s \in Sub : stage[Com(s)] = "online" => ((sub[s] = "none") <=> timer[s])

\* A community that fails to start takes no other down and serves nobody: the
\* process gives up only when all have failed, and only an online community has
\* subscriptions, timers or events handled.
FailureIsContained ==
    /\ process = "useless" => \A c \in Communities : stage[c] = "failed"
    /\ \A s \in Sub :
          stage[Com(s)] # "online" => sub[s] = "none" /\ ~timer[s] /\ handled[s] = {}

\* A live subscription still owes what it has not handed over: nothing a relay
\* has stored slips through drops, replays cut off in the middle and CLOSED.  Of
\* a relay that takes an early REQ only after the AUTH, what is older than the
\* newest event received may be lost, and nothing else.
NothingSlipsThrough ==
    \A s \in Sub : sub[s] = "live" =>
        \A e \in (1..posted[s]) \ Forged :
            \/ e \in due[s] \cup handled[s]
            \/ Com(s) \notin KeepsOrder /\ e <= newest[s]

\* The start ends: no relay, whatever it does not answer, holds it up for ever.
StartEnds == process = "starting" ~> process # "starting"

\* A community whose relay works comes online, whatever happens to the others,
\* unless a signal ends the process or its connection drops meanwhile.
HealthyCommunityStarts ==
    \A c \in Communities \ Refusing :
        process = "starting" ~>
            (stage[c] = "online" \/ c \in dropped \/ process \in {"killed", "stopped"})

\* An online community is never deaf for ever: after every drop and every CLOSED
\* its feeds are live again.
FeedsComeBack ==
    \A s \in Sub :
        (Com(s) \notin Refusing /\ stage[Com(s)] = "online") ~> (sub[s] = "live" \/ ~Running)

\* Every event the relay has stored reaches the handlers, if the relay closes
\* what was sent before the AUTH: the new subscription then asks for everything.
NoEventIsMissed ==
    \A s \in Sub : \A e \in Event(Com(s)) \ Forged :
        (Com(s) \in KeepsOrder \ Refusing /\ stage[Com(s)] = "online" /\ e <= posted[s])
            ~> (e \in handled[s] \/ ~Running)
=============================================================================
