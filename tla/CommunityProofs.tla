-------------------------- MODULE CommunityProofs --------------------------
(***************************************************************************)
(* Proofs about Community, for every number of communities, feeds, events  *)
(* and faults.                                                             *)
(***************************************************************************)
EXTENDS Community, TLAPS

-----------------------------------------------------------------------------
(* The inductive invariant, one subscription at a time.                    *)

StateTypes ==
    /\ process \in {"starting", "serving", "stopped", "killed", "useless"}
    /\ stage \in [Communities -> Starting \cup {"online", "failed"}]
    /\ conn \in [Communities -> {"none", "down", "open", "authed"}]
    /\ dropped \subseteq Communities
    /\ sub \in [Sub -> SubState]
    /\ timer \in [Sub -> BOOLEAN]
    /\ faults \in 0..MaxFaults
    /\ posted \in [Sub -> Nat] /\ newest \in [Sub -> Nat]
    /\ due \in [Sub -> SUBSET Nat] /\ handled \in [Sub -> SUBSET Nat]

\* The numbers of a subscription are those of events of its feed.
EventsOK(s) ==
    /\ posted[s] \in 0..MaxEvents[Com(s)]
    /\ newest[s] \in 0..posted[s]
    /\ due[s] \cup handled[s] \subseteq 1..posted[s]

\* A REQ is on its way only over a connection, and only an online community has
\* any; until the process ends, each of its feeds has a subscription or a timer.
FeedOK(s) ==
    /\ sub[s] \in {"refired", "sent"} => conn[Com(s)] \in {"open", "authed"}
    /\ sub[s] = "live" => conn[Com(s)] = "authed"
    /\ stage[Com(s)] # "online" => sub[s] = "none" /\ ~timer[s] /\ handled[s] = {}
    /\ (Running /\ stage[Com(s)] = "online") => ((sub[s] = "none") <=> timer[s])

StartOK ==
    /\ process = "useless" => \A c \in Communities : stage[c] = "failed"
    /\ Running => \A c \in Communities : stage[c] \notin {"connect", "failed"} => conn[c] # "none"

CommunityInv ==
    /\ StateTypes
    /\ StartOK
    /\ \A s \in Sub : EventsOK(s) /\ FeedOK(s)

\* The properties of the runs are parts of the invariant.
LEMMA InvImplies == CommunityInv => CommunityTypeOK /\ OneSubscription /\ FailureIsContained
BY DEF CommunityInv, StateTypes, StartOK, EventsOK, FeedOK, CommunityTypeOK, OneSubscription,
       FailureIsContained

\* A feed belongs to one of the communities.
LEMMA ComIsCommunity == \A s \in Sub : Com(s) \in Communities
BY DEF Sub, Com

\* The system starts in a state of the invariant.
LEMMA CommunityStart == Init => CommunityInv
BY ComIsCommunity, MaxEventsAssumption, MaxFaultsAssumption
   DEF Init, CommunityInv, StateTypes, StartOK, EventsOK, FeedOK, Starting, SubState, Running

-----------------------------------------------------------------------------
(* The start.                                                              *)

\* The steps of startCommunity: only the last makes subscriptions, both at once.
LEMMA StartKeeps ==
    ASSUME CommunityInv, NEW c \in Communities, StartStep(c)
    PROVE  CommunityInv'
<1> USE ComIsCommunity DEF CommunityInv, At, Moves, procVars, feedVars
<1>1. CASE Connects(c)
  <2> USE <1>1 DEF Connects
  <2>1. StateTypes'
    BY DEF StateTypes, Starting
  <2>2. StartOK'
    BY DEF StateTypes, StartOK, Running
  <2>3. \A s \in Sub : EventsOK(s)'
    BY DEF EventsOK
  <2>4. \A s \in Sub : FeedOK(s)'
    BY DEF StateTypes, FeedOK, Running
  <2> QED
    BY <2>1, <2>2, <2>3, <2>4
<1>2. CASE ChallengeSeen(c)
  <2> USE <1>2 DEF ChallengeSeen
  <2>1. StateTypes'
    BY DEF StateTypes, Starting
  <2>2. StartOK'
    BY DEF StateTypes, StartOK, Running
  <2>3. \A s \in Sub : EventsOK(s)'
    BY DEF EventsOK
  <2>4. \A s \in Sub : FeedOK(s)'
    BY DEF StateTypes, FeedOK, Running
  <2> QED
    BY <2>1, <2>2, <2>3, <2>4
<1>3. CASE GivesUp(c)
  <2>1. process = "starting" /\ stage[c] # "online" /\ Fails(c)
    BY <1>3 DEF GivesUp, ConnectFails, ChallengeTimesOut, AuthRejected
  <2> USE <2>1 DEF Fails
  <2>2. StateTypes'
    BY DEF StateTypes, Starting
  <2>3. StartOK'
    BY DEF StateTypes, StartOK, Running
  <2>4. \A s \in Sub : EventsOK(s)'
    BY DEF EventsOK
  <2>5. \A s \in Sub : FeedOK(s)'
    BY DEF StateTypes, FeedOK, Running
  <2> QED
    BY <2>2, <2>3, <2>4, <2>5
<1>4. CASE AuthAccepted(c)
  <2> USE <1>4 DEF AuthAccepted
  <2>1. StateTypes'
    BY DEF StateTypes, Starting, SubState
  <2>2. StartOK'
    BY DEF StateTypes, StartOK, Running
  <2>3. \A s \in Sub : EventsOK(s)'
    BY DEF EventsOK
  <2>4. \A s \in Sub : FeedOK(s)'
    BY DEF StateTypes, FeedOK, Running
  <2> QED
    BY <2>1, <2>2, <2>3, <2>4
<1> QED
  BY <1>1, <1>2, <1>3, <1>4 DEF StartStep

-----------------------------------------------------------------------------
(* The connection.                                                         *)

\* A connection that comes and goes changes how its subscriptions stand, not which.
LEMMA ConnectionKeeps ==
    ASSUME CommunityInv, NEW c \in Communities,
           ConnectionDrops(c) \/ Reconnects(c) \/ ReAuthenticates(c)
    PROVE  CommunityInv'
<1> USE ComIsCommunity DEF CommunityInv, procVars, feedVars, SubsBecome
<1>1. CASE ConnectionDrops(c)
  <2> USE <1>1 DEF ConnectionDrops, Fault
  <2>1. StateTypes'
    BY MaxFaultsAssumption DEF StateTypes, SubState
  <2>2. StartOK'
    BY DEF StateTypes, StartOK, Running
  <2>3. \A s \in Sub : EventsOK(s)'
    BY DEF EventsOK
  <2>4. \A s \in Sub : FeedOK(s)'
    BY DEF StateTypes, FeedOK, Running
  <2> QED
    BY <2>1, <2>2, <2>3, <2>4
<1>2. CASE Reconnects(c)
  <2> USE <1>2 DEF Reconnects
  <2>1. StateTypes'
    BY DEF StateTypes, SubState
  <2>2. StartOK'
    BY DEF StateTypes, StartOK, Running
  <2>3. \A s \in Sub : EventsOK(s)'
    BY DEF EventsOK
  <2>4. \A s \in Sub : FeedOK(s)'
    BY DEF StateTypes, FeedOK, Running
  <2> QED
    BY <2>1, <2>2, <2>3, <2>4
<1>3. CASE ReAuthenticates(c)
  <2> USE <1>3 DEF ReAuthenticates
  <2>1. StateTypes'
    BY DEF StateTypes
  <2>2. StartOK'
    BY DEF StateTypes, StartOK, Running
  <2>3. \A s \in Sub : EventsOK(s)'
    BY DEF EventsOK
  <2>4. \A s \in Sub : FeedOK(s)'
    BY DEF StateTypes, FeedOK, Running
  <2> QED
    BY <2>1, <2>2, <2>3, <2>4
<1> QED
  BY <1>1, <1>2, <1>3

-----------------------------------------------------------------------------
(* The feeds.                                                              *)

\* CLOSED trades a subscription for a timer, and the timer for a subscription.
LEMMA FeedKeeps ==
    ASSUME CommunityInv, NEW s \in Sub,
           FeedStep(s) \/ RelayClosesAtWill(s) \/ PostEvent(s) \/ \E e \in due[s] : EventArrives(s, e)
    PROVE  CommunityInv'
<1> USE ComIsCommunity DEF CommunityInv, procVars
<1>1. CASE RelayAccepts(s)
  <2> USE <1>1 DEF RelayAccepts
  <2>1. StateTypes'
    BY DEF StateTypes, SubState
  <2>2. StartOK'
    BY DEF StartOK, Running
  <2>3. \A t \in Sub : EventsOK(t)'
    BY DEF StateTypes, EventsOK
  <2>4. \A t \in Sub : FeedOK(t)'
    BY DEF StateTypes, FeedOK, Running
  <2> QED
    BY <2>1, <2>2, <2>3, <2>4
<1>2. CASE RelayCloses(s) \/ RelayClosesAtWill(s)
  <2>1. Running /\ sub[s] # "none" /\ SubClosed(s) /\ faults' \in 0..MaxFaults
    BY <1>2, MaxFaultsAssumption DEF RelayCloses, RelayClosesAtWill, Fault, StateTypes
  <2> USE <2>1 DEF SubClosed
  <2>2. StateTypes'
    BY DEF StateTypes, SubState
  <2>3. StartOK'
    BY DEF StartOK, Running
  <2>4. \A t \in Sub : EventsOK(t)'
    BY DEF StateTypes, EventsOK
  <2>5. \A t \in Sub : FeedOK(t)'
    BY DEF StateTypes, FeedOK, Running
  <2> QED
    BY <2>2, <2>3, <2>4, <2>5
<1>3. CASE Resubscribes(s)
  <2> USE <1>3 DEF Resubscribes
  <2>1. StateTypes'
    BY DEF StateTypes, SubState
  <2>2. StartOK'
    BY DEF StartOK, Running
  <2>3. \A t \in Sub : EventsOK(t)'
    BY DEF StateTypes, EventsOK
  <2>4. stage[Com(s)] = "online" /\ conn[Com(s)] \in {"down", "open", "authed"}
    BY DEF FeedOK, StartOK, StateTypes
  <2>5. \A t \in Sub : FeedOK(t)'
    BY <2>4 DEF StateTypes, FeedOK, Running
  <2> QED
    BY <2>1, <2>2, <2>3, <2>5
<1>4. CASE PostEvent(s)
  <2> USE <1>4 DEF PostEvent
  <2>1. StateTypes'
    BY DEF StateTypes
  <2>2. StartOK'
    BY DEF StartOK, Running
  <2>3. \A t \in Sub : EventsOK(t)'
    BY MaxEventsAssumption DEF StateTypes, EventsOK
  <2>4. \A t \in Sub : FeedOK(t)'
    BY DEF StateTypes, FeedOK, Running
  <2> QED
    BY <2>1, <2>2, <2>3, <2>4
<1>5. ASSUME NEW e \in due[s], EventArrives(s, e) PROVE CommunityInv'
  <2> USE <1>5 DEF EventArrives, HandsOver
  <2>1. e \in 1..posted[s] /\ e \in Nat
    BY DEF StateTypes, EventsOK
  <2>2. StateTypes'
    BY <2>1 DEF StateTypes
  <2>3. StartOK'
    BY DEF StartOK, Running
  <2>4. \A t \in Sub : EventsOK(t)'
    BY <2>1 DEF StateTypes, EventsOK
  <2>5. \A t \in Sub : FeedOK(t)'
    BY DEF StateTypes, FeedOK, Running
  <2> QED
    BY <2>2, <2>3, <2>4, <2>5
<1> QED
  BY <1>1, <1>2, <1>3, <1>4, <1>5 DEF FeedStep

-----------------------------------------------------------------------------
(* main.                                                                   *)

\* What main does: a process that has ended makes no promise about feeds.
LEMMA MainKeeps ==
    ASSUME CommunityInv, MainGoesOn \/ KilledAtStart \/ Shutdown \/ UNCHANGED vars
    PROVE  CommunityInv'
<1> USE ComIsCommunity DEF CommunityInv, feedVars
<1>1. CASE MainGoesOn \/ KilledAtStart
  <2>1. UNCHANGED <<stage, conn, dropped, sub, timer, due, newest, posted, handled, faults>>
    BY <1>1 DEF MainGoesOn, KilledAtStart
  <2>2. process = "starting" /\ process' \in {"serving", "useless", "killed"}
    BY <1>1 DEF MainGoesOn, KilledAtStart
  <2>3. process' = "useless" => \A c \in Communities : stage[c] = "failed"
    BY <1>1 DEF MainGoesOn, KilledAtStart, Handles
  <2>4. StateTypes'
    BY <2>1, <2>2 DEF StateTypes
  <2>5. StartOK'
    BY <2>1, <2>2, <2>3 DEF StartOK, Running
  <2>6. \A s \in Sub : EventsOK(s)' /\ FeedOK(s)'
    BY <2>1, <2>2 DEF EventsOK, FeedOK, Running
  <2> QED
    BY <2>4, <2>5, <2>6
<1>2. CASE Shutdown
  <2> USE <1>2 DEF Shutdown, Handles
  <2>1. StateTypes'
    BY DEF StateTypes, SubState
  <2>2. StartOK'
    BY DEF StartOK, Running
  <2>3. \A s \in Sub : EventsOK(s)'
    BY DEF EventsOK
  <2>4. \A s \in Sub : FeedOK(s)'
    BY DEF StateTypes, FeedOK, Running
  <2> QED
    BY <2>1, <2>2, <2>3, <2>4
<1>3. CASE UNCHANGED vars
  BY <1>3 DEF vars, procVars, StateTypes, StartOK, EventsOK, FeedOK, Running
<1> QED
  BY <1>1, <1>2, <1>3

\* No step leaves the invariant.
LEMMA CommunityStep == CommunityInv /\ [Next]_vars => CommunityInv'
BY StartKeeps, ConnectionKeeps, FeedKeeps, MainKeeps DEF Next

-----------------------------------------------------------------------------
(* What the relay still has to send.                                       *)

\* A subscription the bot has made has received nothing yet, one the library has
\* sent again never gets past the AUTH of a relay that keeps the order, and a
\* live one owes whatever is newer than what it has received.
ReplayOK(s) ==
    /\ (stage[Com(s)] # "online" \/ sub[s] = "sent") => newest[s] = 0
    /\ (Com(s) \in KeepsOrder /\ sub[s] = "refired") => conn[Com(s)] = "open"
    /\ sub[s] = "live" => \A e \in 1..posted[s] : e > newest[s] => e \in due[s]
    /\ (Com(s) \in KeepsOrder /\ sub[s] = "live") =>
          (1..posted[s]) \ Forged \subseteq due[s] \cup handled[s]

ReplayInv == \A s \in Sub : ReplayOK(s)

\* Before the first subscription nothing was received.
LEMMA ReplayStart == Init => ReplayInv
BY ComIsCommunity DEF Init, ReplayInv, ReplayOK

\* The start and the connection take no event from a subscription; only the first
\* subscriptions and the authentication are not plain losses.
LEMMA ReplayOverConnections ==
    ASSUME CommunityInv, ReplayInv, NEW c \in Communities,
           StartStep(c) \/ ConnectionDrops(c) \/ Reconnects(c) \/ ReAuthenticates(c)
    PROVE  ReplayInv'
<1> USE ComIsCommunity DEF CommunityInv, procVars, feedVars, At, Moves, SubsBecome
<1> SUFFICES ASSUME NEW s \in Sub PROVE ReplayOK(s)'
  BY DEF ReplayInv
<1> USE DEF ReplayInv
<1>1. CASE Connects(c) \/ ChallengeSeen(c) \/ GivesUp(c)
  BY <1>1 DEF Connects, ChallengeSeen, GivesUp, ConnectFails, ChallengeTimesOut, AuthRejected,
              Fails, StateTypes, FeedOK, ReplayOK
<1>2. CASE AuthAccepted(c)
  BY <1>2 DEF AuthAccepted, StateTypes, FeedOK, ReplayOK
<1>3. CASE ConnectionDrops(c)
  BY <1>3 DEF ConnectionDrops, StateTypes, FeedOK, ReplayOK
<1>4. CASE Reconnects(c)
  BY <1>4 DEF Reconnects, StateTypes, FeedOK, ReplayOK
<1>5. CASE ReAuthenticates(c)
  BY <1>5 DEF ReAuthenticates, StateTypes, FeedOK, ReplayOK
<1> QED
  BY <1>1, <1>2, <1>3, <1>4, <1>5 DEF StartStep

\* An accepted subscription owes all that is newer than what it has received, and
\* gives it to the handlers event by event.
LEMMA ReplayOverFeeds ==
    ASSUME CommunityInv, ReplayInv, NEW t \in Sub,
           FeedStep(t) \/ RelayClosesAtWill(t) \/ PostEvent(t) \/ \E e \in due[t] : EventArrives(t, e)
    PROVE  ReplayInv'
<1> USE ComIsCommunity DEF CommunityInv, procVars
<1> SUFFICES ASSUME NEW s \in Sub PROVE ReplayOK(s)'
  BY DEF ReplayInv
<1> USE DEF ReplayInv
<1>1. CASE RelayAccepts(t)
  BY <1>1 DEF RelayAccepts, StateTypes, EventsOK, FeedOK, ReplayOK
<1>2. CASE RelayCloses(t) \/ RelayClosesAtWill(t)
  BY <1>2 DEF RelayCloses, RelayClosesAtWill, SubClosed, StateTypes, FeedOK, ReplayOK
<1>3. CASE Resubscribes(t)
  BY <1>3 DEF Resubscribes, StateTypes, FeedOK, ReplayOK
<1>4. CASE PostEvent(t)
  <2>1. /\ posted' = [posted EXCEPT ![t] = posted[t] + 1]
        /\ due' = [due EXCEPT ![t] = IF sub[t] = "live" THEN due[t] \cup {posted[t] + 1}
                                                       ELSE due[t]]
        /\ UNCHANGED <<stage, sub, conn, newest, handled>>
    BY <1>4 DEF PostEvent, StateTypes
  <2>2. \A e \in 1..posted'[t] : e \in 1..posted[t] \/ e = posted[t] + 1
    BY <2>1 DEF StateTypes
  <2> QED
    BY <2>1, <2>2 DEF StateTypes, ReplayOK
<1>5. ASSUME NEW e \in due[t], EventArrives(t, e) PROVE ReplayOK(s)'
  <2>1. /\ sub[t] = "live" /\ UNCHANGED <<stage, conn, sub, posted>>
        /\ due' = [due EXCEPT ![t] = due[t] \ {e}]
        /\ newest' = [newest EXCEPT ![t] = IF e > newest[t] THEN e ELSE newest[t]]
        /\ handled' = [handled EXCEPT ![t] = handled[t] \cup ({e} \ Forged)]
    BY <1>5 DEF EventArrives, HandsOver, StateTypes
  <2>2. e \in Nat /\ newest[t] \in Nat /\ stage[Com(t)] = "online"
    BY <2>1 DEF StateTypes, FeedOK
  <2> QED
    BY <2>1, <2>2 DEF StateTypes, ReplayOK
<1> QED
  BY <1>1, <1>2, <1>3, <1>4, <1>5 DEF FeedStep

\* The end of the process only takes subscriptions away.
LEMMA ReplayOverMain ==
    ASSUME CommunityInv, ReplayInv, MainGoesOn \/ KilledAtStart \/ Shutdown \/ UNCHANGED vars
    PROVE  ReplayInv'
<1> SUFFICES ASSUME NEW s \in Sub PROVE ReplayOK(s)'
  BY DEF ReplayInv
<1>1. CASE MainGoesOn \/ KilledAtStart \/ UNCHANGED vars
  BY <1>1 DEF MainGoesOn, KilledAtStart, vars, procVars, feedVars, ReplayInv, ReplayOK
<1>2. CASE Shutdown
  BY <1>2, ComIsCommunity DEF Shutdown, CommunityInv, StateTypes, ReplayInv, ReplayOK
<1> QED
  BY <1>1, <1>2

-----------------------------------------------------------------------------
(* The theorems.                                                           *)

\* The inductive invariant holds in every reachable state.
THEOREM CommunitySafety == Spec => []CommunityInv
BY CommunityStart, CommunityStep, PTL DEF Spec

\* Type correctness, for every instance of the constants.
THEOREM CommunityTypeCorrect == Spec => []CommunityTypeOK
BY CommunitySafety, InvImplies, PTL

\* A feed is never lost and never doubled, however drops, CLOSED, timers and
\* authentications interleave, and however many there are.
THEOREM FeedIsKept == Spec => []OneSubscription
BY CommunitySafety, InvImplies, PTL

\* The failure of a community stays its own.
THEOREM FailureStaysContained == Spec => []FailureIsContained
BY CommunitySafety, InvImplies, PTL

\* A live subscription still owes what it has not handed over, for any number of
\* drops, replays and CLOSED: what NoEventIsMissed needs besides fairness.
THEOREM FeedsLoseNothing == Spec => []NothingSlipsThrough
<1>1. Init => ReplayInv
  BY ReplayStart
<1>2. CommunityInv /\ ReplayInv /\ [Next]_vars => ReplayInv'
  BY ReplayOverConnections, ReplayOverFeeds, ReplayOverMain DEF Next
<1>3. CommunityInv /\ ReplayInv => NothingSlipsThrough
  BY DEF CommunityInv, StateTypes, ReplayInv, ReplayOK, NothingSlipsThrough
<1> QED
  BY CommunitySafety, <1>1, <1>2, <1>3, PTL DEF Spec
=============================================================================
