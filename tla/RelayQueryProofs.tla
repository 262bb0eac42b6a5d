-------------------------- MODULE RelayQueryProofs --------------------------
(***************************************************************************)
(* Proofs about the one-shot queries of RelayQuery, for any number of      *)
(* calls, filters and events, and any created_at that respects their order.*)
(*                                                                         *)
(* The two properties are about calls that are over.  What makes them      *)
(* inductive is an account of the calls that still wait: whatever the      *)
(* relay held at the start is no newer than what the call has, or than     *)
(* something it is still to be sent (Accounted); a subscription asks again *)
(* from an event the call has seen (AsksFromSeen); and the newest event of *)
(* a filter is never missing from the relay (NewestIsHeld).                *)
(***************************************************************************)
EXTENDS RelayQuery, TLAPS

Over == {"answered", "timedOut"}

\* The timer of a call exists exactly while it waits, its subscription only then.
OnlyWhileWaiting ==
    /\ \A q \in timer \cup open : call[q] = "waiting"
    /\ WaitersHaveTimers
    /\ fed \subseteq open

\* A call has nothing before it starts, and a lookup nothing before it ends.
NothingYet ==
    \A q \in Call :
        (call[q] = "idle" \/ (call[q] = "waiting" /\ q \notin Admins))
            => found[q] = 0 /\ last[q] = 0

AsksFromSeen ==
    \A q \in Call : call[q] = "waiting" => last[q] <= Age(found[q])

NewestIsHeld ==
    \A t \in Filters : signed[t] > 0 => signed[t] \in held[t]

AlreadySigned ==
    /\ \A t \in Filters : held[t] \subseteq 1..signed[t]
    /\ \A q \in Call :
          /\ atStart[q] \cup due[q] \subseteq 1..signed[Filter[q]]
          /\ found[q] \in 0..signed[Filter[q]]

Accounted ==
    \A q \in fed : \A v \in atStart[q] :
        \/ Stamp[v] <= Age(found[q])
        \/ \E w \in due[q] : Stamp[v] <= Stamp[w]

\* What a call that is over owes.
WellAnswered ==
    \A q \in Call :
        /\ call[q] = "timedOut" => found[q] = 0
        /\ call[q] = "answered" =>
              \A v \in atStart[q] :
                 /\ found[q] # 0
                 /\ q \in Admins => Stamp[v] <= Stamp[found[q]]

QueryInv ==
    /\ TypeOK
    /\ OnlyWhileWaiting
    /\ NothingYet
    /\ AsksFromSeen
    /\ NewestIsHeld
    /\ AlreadySigned
    /\ Accounted
    /\ WellAnswered

-----------------------------------------------------------------------------

\* The filter of a call is one of the filters.
LEMMA FilterOfCall == \A q \in Call : Filter[q] \in Filters
BY DEF Filters

\* Ages are natural numbers, and an event is older than none at all.
LEMMA Ages ==
    /\ \A v \in Event : Stamp[v] \in Nat /\ Stamp[v] > 0 /\ Age(v) = Stamp[v]
    /\ Age(0) = 0
    /\ \A v \in 0..MaxEvents : Age(v) \in Nat
BY StampAssumption, MaxAssumption DEF Age, Event

\* The system starts in a state of the invariant.
LEMMA QueryInit == Init => QueryInv
BY FilterOfCall, Ages, MaxAssumption
   DEF Init, QueryInv, TypeOK, OnlyWhileWaiting, NothingYet, AsksFromSeen, NewestIsHeld,
       AlreadySigned, Accounted, WellAnswered, WaitersHaveTimers, Event

\* A new event may only add to what a call is still to be sent.
LEMMA SignKeeps ==
    ASSUME QueryInv, NEW t \in Filters, Sign(t)
    PROVE  QueryInv'
<1> DEFINE n == signed[t] + 1
<1> USE DEF QueryInv
<1>1. n \in Event /\ signed[t] \in Nat
  BY MaxAssumption DEF Sign, TypeOK, Event
<1>2. /\ signed' = [signed EXCEPT ![t] = n]
      /\ \E rest \in {{}, held[t]} : held' = [held EXCEPT ![t] = rest \cup {n}]
      /\ \A q \in Call : due[q] \subseteq due'[q] /\ due'[q] \subseteq due[q] \cup {n}
      /\ due' \in [Call -> SUBSET Event]
  BY <1>1 DEF Sign, TypeOK
<1>3. UNCHANGED <<call, timer, open, fed, last, found, atStart>>
  BY DEF Sign
<1>4. TypeOK'
  BY <1>1, <1>2, <1>3, MaxAssumption DEF TypeOK, Event
<1>5. OnlyWhileWaiting' /\ NothingYet' /\ AsksFromSeen' /\ WellAnswered'
  BY <1>3 DEF OnlyWhileWaiting, WaitersHaveTimers, NothingYet, AsksFromSeen, WellAnswered
<1>6. NewestIsHeld'
  BY <1>1, <1>2 DEF NewestIsHeld, TypeOK
<1>7. AlreadySigned'
  <2>1. \A u \in Filters : signed'[u] \in Nat /\ signed[u] \in Nat /\ signed[u] <= signed'[u]
    BY <1>1, <1>2, MaxAssumption DEF TypeOK
  <2>2. \A u \in Filters : held'[u] \subseteq 1..signed'[u]
    BY <1>1, <1>2, <2>1 DEF AlreadySigned, TypeOK
  <2>3. \A q \in Call : /\ atStart[q] \cup due[q] \subseteq 1..signed'[Filter[q]]
                       /\ found[q] \in 0..signed'[Filter[q]]
    BY <2>1, FilterOfCall DEF AlreadySigned
  <2>4. \A q \in Call : due'[q] \subseteq 1..signed'[Filter[q]]
    <3> SUFFICES ASSUME NEW q \in Call, NEW v \in due'[q], v \notin due[q]
                 PROVE  v \in 1..signed'[Filter[q]]
      BY <2>3
    <3>1. v = n /\ Filter[q] = t
      BY DEF Sign, TypeOK
    <3> QED
      BY <3>1, <1>1, <1>2, FilterOfCall DEF TypeOK
  <2> QED
    BY <2>2, <2>3, <2>4, <1>3 DEF AlreadySigned
<1>8. Accounted'
  BY <1>2, <1>3 DEF Accounted, TypeOK
<1> QED
  BY <1>4, <1>5, <1>6, <1>7, <1>8

\* Asking from the last event seen leaves out nothing that is newer: the
\* newest event is either still to come or not newer than what was seen.
LEMMA ServeKeeps ==
    ASSUME QueryInv, NEW q \in Call, Serve(q)
    PROVE  QueryInv'
<1> USE DEF QueryInv
<1>1. UNCHANGED <<relayVars, call, timer, open, last, found, atStart>> /\ q \in open \ fed
  BY DEF Serve
<1>2. /\ fed' = fed \cup {q}
      /\ due' = [due EXCEPT ![q] = {v \in Held(q) : Stamp[v] > last[q]}]
  BY DEF Serve
<1>3. TypeOK'
  BY <1>1, <1>2, FilterOfCall DEF TypeOK, relayVars, Held
<1>4. /\ OnlyWhileWaiting' /\ NothingYet' /\ AsksFromSeen' /\ NewestIsHeld'
      /\ WellAnswered'
  BY <1>1, <1>2
     DEF OnlyWhileWaiting, WaitersHaveTimers, NothingYet, AsksFromSeen, NewestIsHeld,
         WellAnswered, relayVars
<1>5. AlreadySigned'
  BY <1>1, <1>2, FilterOfCall DEF AlreadySigned, TypeOK, relayVars, Held
<1>6. Accounted'
  <2> SUFFICES ASSUME NEW p \in fed', NEW v \in atStart[p]
               PROVE  \/ Stamp[v] <= Age(found[p])
                      \/ \E w \in due'[p] : Stamp[v] <= Stamp[w]
    BY <1>1 DEF Accounted
  <2>1. CASE p # q
    BY <2>1, <1>2 DEF Accounted, TypeOK
  <2>2. CASE p = q
    <3> DEFINE n == signed[Filter[q]]
    <3>1. n \in held[Filter[q]] /\ n \in Event /\ v \in Event /\ v <= n
      BY <2>2, FilterOfCall, MaxAssumption DEF NewestIsHeld, AlreadySigned, TypeOK, Event
    <3>2. Stamp[v] <= Stamp[n]
      BY <3>1, StampAssumption DEF Event
    <3>3. last[q] <= Age(found[q]) /\ last[q] \in Nat /\ found[q] \in 0..MaxEvents
      BY <1>1 DEF AsksFromSeen, OnlyWhileWaiting, TypeOK
    <3>4. CASE Stamp[n] > last[q]
      <4>1. n \in due'[q]
        BY <3>1, <3>4, <1>2 DEF TypeOK, Held
      <4> QED
        BY <4>1, <3>2, <2>2
    <3>5. CASE ~(Stamp[n] > last[q])
      BY <3>1, <3>2, <3>3, <3>5, <2>2, Ages
    <3> QED
      BY <3>4, <3>5
  <2> QED
    BY <2>1, <2>2
<1> QED
  BY <1>3, <1>4, <1>5, <1>6

\* A lost connection, or the relay's CLOSED, only takes subscriptions away.
LEMMA LossKeeps ==
    ASSUME QueryInv, DropConnection \/ \E q \in Call : CloseByRelay(q)
    PROVE  QueryInv'
<1> USE DEF QueryInv
<1>1. /\ UNCHANGED <<relayVars, call, timer, last, found, atStart>>
      /\ fed' \subseteq open' /\ open' \subseteq open /\ fed' \subseteq fed
      /\ \A p \in fed' : due'[p] = due[p]
      /\ \A p \in Call : due'[p] \subseteq due[p]
      /\ due' \in [Call -> SUBSET Event]
  BY DEF DropConnection, CloseByRelay, OnlyWhileWaiting, TypeOK
<1>2. TypeOK'
  BY <1>1 DEF TypeOK, relayVars
<1>3. /\ OnlyWhileWaiting' /\ NothingYet' /\ AsksFromSeen' /\ NewestIsHeld'
      /\ AlreadySigned' /\ WellAnswered'
  BY <1>1
     DEF OnlyWhileWaiting, WaitersHaveTimers, NothingYet, AsksFromSeen, NewestIsHeld, AlreadySigned,
         WellAnswered, relayVars
<1>4. Accounted'
  BY <1>1 DEF Accounted
<1> QED
  BY <1>2, <1>3, <1>4

\* A call that starts has its timer and its query, of which nothing was sent yet.
LEMMA StartKeeps ==
    ASSUME QueryInv, NEW q \in Call, StartCall(q)
    PROVE  QueryInv'
<1> USE DEF QueryInv
<1>1. /\ call[q] = "idle"
      /\ call' = [call EXCEPT ![q] = "waiting"]
      /\ timer' = timer \cup {q}
      /\ open' = open \cup {q}
      /\ atStart' = [atStart EXCEPT ![q] = Held(q)]
      /\ UNCHANGED <<relayVars, due, fed, last, found>>
  BY DEF StartCall
<1>2. q \notin open /\ q \notin fed
  BY <1>1 DEF OnlyWhileWaiting
<1>3. TypeOK'
  BY <1>1, FilterOfCall DEF TypeOK, relayVars, Held
<1>4. OnlyWhileWaiting' /\ NothingYet'
  BY <1>1, <1>2 DEF OnlyWhileWaiting, WaitersHaveTimers, NothingYet, TypeOK
<1>5. AsksFromSeen'
  BY <1>1, Ages DEF AsksFromSeen, NothingYet, TypeOK
<1>6. NewestIsHeld' /\ AlreadySigned'
  BY <1>1, FilterOfCall DEF NewestIsHeld, AlreadySigned, relayVars, Held, TypeOK
<1>7. Accounted'
  BY <1>1, <1>2 DEF Accounted, TypeOK
<1>8. WellAnswered'
  BY <1>1 DEF WellAnswered, TypeOK
<1> QED
  BY <1>3, <1>4, <1>5, <1>6, <1>7, <1>8

\* The three ways a call ends: each takes its timer and its subscription.
LEMMA EndKeeps ==
    ASSUME QueryInv, NEW q \in Call,
           (\E v \in Event : OnEvent(q, v)) \/ OnEose(q) \/ OnTimer(q)
    PROVE  QueryInv'
<1> USE DEF QueryInv
<1>1. /\ call' \in [Call -> {"idle", "waiting"} \cup Over]
      /\ call'[q] \in Over
      /\ \A p \in Call \ {q} : call'[p] = call[p]
      /\ timer' = timer \ {q} /\ open' = open \ {q} /\ fed' = fed \ {q}
      /\ \A p \in Call \ {q} : due'[p] = due[p]
      /\ due'[q] = {}
      /\ due' \in [Call -> SUBSET Event]
  BY DEF OnEvent, OnEose, OnTimer, Receives, Resolve, Unsubscribe, TypeOK, Over
<1>2. /\ UNCHANGED <<relayVars, atStart>>
      /\ found' \in [Call -> 0..MaxEvents] /\ last' \in [Call -> Nat]
      /\ \A p \in Call \ {q} : found'[p] = found[p] /\ last'[p] = last[p]
      /\ found'[q] \in {0, found[q]} \cup due[q]
  BY Ages, MaxAssumption DEF OnEvent, OnEose, OnTimer, Receives, TypeOK, Event
<1>3. TypeOK'
  BY <1>1, <1>2 DEF TypeOK, relayVars, Over
<1>4. OnlyWhileWaiting' /\ NewestIsHeld'
  BY <1>1, <1>2 DEF OnlyWhileWaiting, WaitersHaveTimers, NewestIsHeld, relayVars, TypeOK, Over
<1>5. AlreadySigned'
  BY <1>1, <1>2, FilterOfCall, MaxAssumption DEF AlreadySigned, relayVars, TypeOK
<1>6. NothingYet' /\ AsksFromSeen'
  <2> SUFFICES ASSUME NEW p \in Call, call'[p] \notin Over
               PROVE  /\ (call'[p] = "idle" \/ p \notin Admins) => found'[p] = 0 /\ last'[p] = 0
                      /\ call'[p] = "waiting" => last'[p] <= Age(found'[p])
    BY DEF NothingYet, AsksFromSeen, Over
  <2>1. p # q
    BY <1>1
  <2> QED
    BY <2>1, <1>1, <1>2 DEF NothingYet, AsksFromSeen, TypeOK, Over
<1>7. Accounted'
  BY <1>1, <1>2 DEF Accounted, TypeOK, OnlyWhileWaiting
<1>8. WellAnswered'
  <2> SUFFICES ASSUME NEW p \in Call
               PROVE  /\ call'[p] = "timedOut" => found'[p] = 0
                      /\ call'[p] = "answered" =>
                            \A v \in atStart[p] :
                               /\ found'[p] # 0
                               /\ p \in Admins => Stamp[v] <= Stamp[found'[p]]
    BY <1>2 DEF WellAnswered
  <2>1. CASE p # q
    BY <2>1, <1>1, <1>2 DEF WellAnswered
  <2>2. CASE p = q /\ \E v \in Event : OnEvent(q, v)
    BY <2>2, MaxAssumption DEF OnEvent, Receives, Resolve, TypeOK, Event
  <2>3. CASE p = q /\ OnTimer(q)
    BY <2>3 DEF OnTimer, Resolve, TypeOK
  <2>4. CASE p = q /\ OnEose(q)
    <3>1. /\ q \in fed /\ due[q] = {} /\ found' = found
          /\ call' = [call EXCEPT ![q] = "answered"]
      BY <2>4 DEF OnEose, Resolve
    <3>2. \A v \in atStart[q] : Stamp[v] <= Age(found[q]) /\ v \in Event
      BY <3>1 DEF Accounted, TypeOK
    <3>3. \A v \in atStart[q] : found[q] # 0
      BY <3>2, Ages
    <3>4. \A v \in atStart[q] : Stamp[v] <= Stamp[found[q]]
      BY <3>2, <3>3, Ages DEF TypeOK, Event
    <3> QED
      BY <3>1, <3>3, <3>4, <2>4 DEF TypeOK
  <2> QED
    BY <2>1, <2>2, <2>3, <2>4
<1> QED
  BY <1>3, <1>4, <1>5, <1>6, <1>7, <1>8

\* An event that is not newer is dropped, one that is newer is kept: either
\* way what the call has is at least as new as the event.
LEMMA AdminsEventKeeps ==
    ASSUME QueryInv, NEW q \in Call, NEW v \in Event, OnAdminsEvent(q, v)
    PROVE  QueryInv'
<1> USE DEF QueryInv
<1>1. /\ q \in Admins /\ q \in fed /\ v \in due[q] /\ call[q] = "waiting"
      /\ last' = [last EXCEPT ![q] = Stamp[v]]
      /\ found' = [found EXCEPT ![q] = IF Stamp[v] > Age(found[q]) THEN v ELSE found[q]]
      /\ due' = [due EXCEPT ![q] = due[q] \ {v}]
      /\ UNCHANGED <<relayVars, atStart, call, timer, open, fed>>
  BY DEF OnAdminsEvent, Receives, TypeOK
<1>2. /\ Age(found'[q]) >= Age(found[q]) /\ Age(found'[q]) >= Stamp[v]
      /\ Age(found[q]) \in Nat /\ Age(found'[q]) \in Nat /\ Stamp[v] \in Nat
      /\ found'[q] \in 0..MaxEvents
  <2>1. found[q] \in 0..MaxEvents /\ v \in 0..MaxEvents
    BY MaxAssumption DEF TypeOK, Event
  <2>2. Age(found[q]) \in Nat /\ Stamp[v] \in Nat /\ Age(v) = Stamp[v]
    BY <2>1, Ages
  <2>3. found'[q] = IF Stamp[v] > Age(found[q]) THEN v ELSE found[q]
    BY <1>1 DEF TypeOK
  <2>4. CASE Stamp[v] > Age(found[q])
    BY <2>1, <2>2, <2>3, <2>4
  <2>5. CASE ~(Stamp[v] > Age(found[q]))
    BY <2>1, <2>2, <2>3, <2>5
  <2> QED
    BY <2>4, <2>5
<1>3. \A p \in Call \ {q} : found'[p] = found[p] /\ last'[p] = last[p] /\ due'[p] = due[p]
  BY <1>1 DEF TypeOK
<1>4. TypeOK'
  BY <1>1, <1>2 DEF TypeOK, relayVars
<1>5. OnlyWhileWaiting' /\ NewestIsHeld'
  BY <1>1 DEF OnlyWhileWaiting, WaitersHaveTimers, NewestIsHeld, relayVars
<1>6. AlreadySigned'
  BY <1>1, FilterOfCall, MaxAssumption DEF AlreadySigned, relayVars, TypeOK
<1>7. NothingYet' /\ WellAnswered'
  BY <1>1, <1>3 DEF NothingYet, WellAnswered, TypeOK
<1>8. AsksFromSeen'
  BY <1>1, <1>2, <1>3 DEF AsksFromSeen, TypeOK
<1>9. Accounted'
  <2> SUFFICES ASSUME NEW p \in fed, NEW u \in atStart[p]
               PROVE  \/ Stamp[u] <= Age(found'[p])
                      \/ \E w \in due'[p] : Stamp[u] <= Stamp[w]
    BY <1>1 DEF Accounted
  <2>1. CASE p # q
    BY <2>1, <1>3 DEF Accounted, TypeOK
  <2>2. CASE p = q
    <3>1. u \in Event /\ Stamp[u] \in Nat
      BY <2>2, Ages DEF TypeOK
    <3>2. CASE Stamp[u] <= Age(found[q]) \/ Stamp[u] <= Stamp[v]
      BY <2>2, <3>1, <3>2, <1>2
    <3>3. CASE \E w \in due[q] \ {v} : Stamp[u] <= Stamp[w]
      BY <2>2, <3>3, <1>1 DEF TypeOK
    <3> QED
      BY <2>2, <3>2, <3>3 DEF Accounted
  <2> QED
    BY <2>1, <2>2
<1> QED
  BY <1>4, <1>5, <1>6, <1>7, <1>8, <1>9

\* No step leaves the invariant.
LEMMA QueryStep == QueryInv /\ [Next]_vars => QueryInv'
<1> SUFFICES ASSUME QueryInv, [Next]_vars PROVE QueryInv'
  OBVIOUS
<1>1. CASE UNCHANGED vars
  BY <1>1
     DEF vars, QueryInv, TypeOK, OnlyWhileWaiting, NothingYet, AsksFromSeen, NewestIsHeld,
         AlreadySigned, Accounted, WellAnswered, WaitersHaveTimers
<1>2. CASE \E t \in Filters : Sign(t)
  BY <1>2, SignKeeps
<1>3. CASE DropConnection \/ \E q \in Call : CloseByRelay(q)
  BY <1>3, LossKeeps
<1>4. CASE \E q \in Call : StartCall(q)
  BY <1>4, StartKeeps
<1>5. CASE \E q \in Call : Serve(q)
  BY <1>5, ServeKeeps
<1>6. CASE \E q \in Call : (\E v \in Event : OnEvent(q, v)) \/ OnEose(q) \/ OnTimer(q)
  BY <1>6, EndKeeps
<1>7. CASE \E q \in Call : \E v \in Event : OnAdminsEvent(q, v)
  BY <1>7, AdminsEventKeeps
<1> QED
  BY <1>1, <1>2, <1>3, <1>4, <1>5, <1>6, <1>7 DEF Next

\* The inductive invariant holds in every reachable state.
THEOREM QuerySafety == Spec => []QueryInv
BY QueryInit, QueryStep, PTL DEF Spec

\* Type correctness of the queries, for every number of calls and events.
THEOREM QueryTypeCorrect == Spec => []TypeOK
<1>1. QueryInv => TypeOK
  BY DEF QueryInv
<1> QED
  BY <1>1, QuerySafety, PTL

\* fetchChannelAdmins never grants on a list older than the relay's at the
\* time of the call, whatever is reordered, dropped, replaced or timed out.
THEOREM AdminListsAreCurrent == Spec => []AdminsAreCurrent
<1>1. QueryInv => AdminsAreCurrent
  BY AdminsAssumption DEF QueryInv, WellAnswered, AdminsAreCurrent
<1> QED
  BY <1>1, QuerySafety, PTL

\* A query that was not cut off by its timer has not missed what was there.
THEOREM QueriesMissNothing == Spec => []NothingIsMissed
<1>1. QueryInv => NothingIsMissed
  BY DEF QueryInv, WellAnswered, NothingIsMissed
<1> QED
  BY <1>1, QuerySafety, PTL

\* A query that is over has left no timer and no subscription behind.
THEOREM QueriesLeaveNothing == Spec => []NothingIsLeft
<1>1. QueryInv => NothingIsLeft
  BY DEF QueryInv, OnlyWhileWaiting, NothingIsLeft
<1> QED
  BY <1>1, QuerySafety, PTL
\* Every query that waits has the timer that will end it.
THEOREM QueriesHaveTimers == Spec => []WaitersHaveTimers
<1>1. QueryInv => WaitersHaveTimers
  BY DEF QueryInv, OnlyWhileWaiting
<1> QED
  BY <1>1, QuerySafety, PTL

-----------------------------------------------------------------------------
(* The queries implement Lookup.                                           *)

\* What counts as signed before a call is all that had been signed: the relay
\* holds the newest event of every filter.
LEMMA HeldAccountsForSigned ==
    ASSUME QueryInv, NEW t \in Filters
    PROVE  {w \in Event : \E v \in held[t] : w <= v} = 1..signed[t]
<1>1. /\ signed[t] \in 0..MaxEvents
      /\ held[t] \subseteq 1..signed[t]
      /\ signed[t] > 0 => signed[t] \in held[t]
  BY DEF QueryInv, TypeOK, AlreadySigned, NewestIsHeld
<1> QED
  BY <1>1, MaxAssumption DEF Event

\* The queries start where the lookups start.
LEMMA LookupInitial == Init => Promised!LookupInit
<1> SUFFICES ASSUME Init PROVE Promised!LookupInit
  OBVIOUS
<1>1. \A t \in Filters : 1..signed[t] = {}
  BY DEF Init
<1>2. \A q \in Call : SignedBefore(q) = {}
  BY DEF Init, SignedBefore
<1>3. call = [q \in Call |-> "idle"]
  BY DEF Init
<1> QED
  BY <1>1, <1>2, <1>3 DEF Promised!LookupInit, Filters

\* Signing an event posts it.
LEMMA SigningPosts ==
    ASSUME QueryInv, NEW t \in Filters, Sign(t)
    PROVE  \E v \in Event : Promised!Post(t, v)
<1> DEFINE n == signed[t] + 1
<1>1. /\ signed' = [signed EXCEPT ![t] = n]
      /\ signed \in [Filters -> Nat]
      /\ n \in Event /\ n \notin 1..signed[t] /\ 1..n = (1..signed[t]) \cup {n}
  BY MaxAssumption DEF Sign, QueryInv, TypeOK, Event
<1>2. UNCHANGED <<call, atStart, found>>
  BY DEF Sign
<1>3. [u \in Filters |-> 1..signed'[u]]
         = [[u \in Filters |-> 1..signed[u]] EXCEPT ![t] = (1..signed[t]) \cup {n}]
  BY <1>1
<1>4. [u \in Filters |-> 1..signed[u]][t] = 1..signed[t]
  OBVIOUS
<1>5. [q \in Call |-> SignedBefore(q)'] = [q \in Call |-> SignedBefore(q)]
  BY <1>2 DEF SignedBefore
<1> QED
  BY <1>1, <1>2, <1>3, <1>4, <1>5 DEF Promised!Post

\* A call remembers all that had been signed when it was made.
LEMMA StartingAsks ==
    ASSUME QueryInv, NEW q \in Call, StartCall(q)
    PROVE  Promised!Ask(q)
<1>1. /\ call[q] = "idle" /\ call \in [Call -> {"idle", "waiting", "answered", "timedOut"}]
      /\ call' = [call EXCEPT ![q] = "waiting"]
      /\ atStart' = [atStart EXCEPT ![q] = Held(q)] /\ atStart \in [Call -> SUBSET Event]
      /\ UNCHANGED <<signed, found>>
  BY DEF StartCall, QueryInv, TypeOK, relayVars
<1>2. \A p \in Call : SignedBefore(p)'
                        = IF p = q THEN 1..signed[Filter[q]] ELSE SignedBefore(p)
  BY <1>1, HeldAccountsForSigned, FilterOfCall DEF SignedBefore, Held
<1>3. [p \in Call |-> SignedBefore(p)']
         = [[p \in Call |-> SignedBefore(p)] EXCEPT ![q] =
               [t \in Filters |-> 1..signed[t]][Filter[q]]]
  BY <1>2, FilterOfCall
<1>4. [p \in Call |-> IF call'[p] \in {"answered", "timedOut"} THEN found'[p] ELSE 0]
         = [p \in Call |-> IF call[p] \in {"answered", "timedOut"} THEN found[p] ELSE 0]
  BY <1>1
<1> QED
  BY <1>1, <1>3, <1>4 DEF Promised!Ask

\* The shape of every end: one call is over, with what it then has.
LEMMA EndsAlike ==
    ASSUME QueryInv, NEW q \in Call, NEW how \in {"answered", "timedOut"},
           call[q] = "waiting", call' = [call EXCEPT ![q] = how],
           signed' = signed, atStart' = atStart,
           NEW v, found'[q] = v, \A p \in Call \ {q} : found'[p] = found[p]
    PROVE  Promised!Ends(q, how, v)
<1>1. call \in [Call -> {"idle", "waiting", "answered", "timedOut"}]
  BY DEF QueryInv, TypeOK
<1>2. \A p \in Call : SignedBefore(p)' = SignedBefore(p)
  BY DEF SignedBefore
<1>3. [p \in Call |-> IF call'[p] \in {"answered", "timedOut"} THEN found'[p] ELSE 0]
         = [[p \in Call |-> IF call[p] \in {"answered", "timedOut"} THEN found[p] ELSE 0]
               EXCEPT ![q] = v]
  BY <1>1
<1> QED
  BY <1>2, <1>3 DEF Promised!Ends

\* The first event of a lookup is its answer.
LEMMA EventIsFound ==
    ASSUME QueryInv, NEW q \in Call, NEW v \in Event, OnEvent(q, v)
    PROVE  Promised!Find(q, v)
<1>1. /\ q \notin Admins /\ v \in due[q] /\ call[q] = "waiting"
      /\ call' = [call EXCEPT ![q] = "answered"] /\ signed' = signed /\ atStart' = atStart
      /\ found'[q] = v /\ \A p \in Call \ {q} : found'[p] = found[p]
  BY DEF OnEvent, Receives, Resolve, relayVars, QueryInv, TypeOK
<1>2. Promised!Ends(q, "answered", v)
  BY <1>1, EndsAlike
<1>3. v \in [t \in Filters |-> 1..signed[t]][Filter[q]]
  BY <1>1, FilterOfCall DEF QueryInv, AlreadySigned
<1> QED
  BY <1>1, <1>2, <1>3 DEF Promised!Find

\* The EOSE of a list ends the call with an event as new as any signed before
\* it, and without one only when there was none.
LEMMA EoseFindsOrNot ==
    ASSUME QueryInv, NEW q \in Call, OnEose(q)
    PROVE  Promised!FindNothing(q) \/ \E v \in Event : Promised!Find(q, v)
<1>1. PICK n \in 0..MaxEvents : found[q] = n
  BY DEF QueryInv, TypeOK
<1>2. /\ call[q] = "waiting" /\ call' = [call EXCEPT ![q] = "answered"]
      /\ signed' = signed /\ found' = found /\ atStart' = atStart /\ q \in fed /\ due[q] = {}
  BY DEF OnEose, Resolve, relayVars
<1>3. Promised!Ends(q, "answered", n)
  BY <1>1, <1>2, EndsAlike
<1>4. /\ n \in 0..signed[Filter[q]] /\ signed[Filter[q]] \in 0..MaxEvents
      /\ atStart[q] \subseteq Event
  BY <1>1, FilterOfCall DEF QueryInv, AlreadySigned, TypeOK
<1>5. \A v \in atStart[q] : Stamp[v] <= Age(n) /\ v \in Event
  BY <1>1, <1>2, <1>4 DEF QueryInv, Accounted
<1>6. CASE n = 0
  <2>1. atStart[q] = {}
    BY <1>5, <1>6, Ages
  <2>2. [p \in Call |-> SignedBefore(p)][q] = {}
    BY <2>1 DEF SignedBefore
  <2> QED
    BY <1>3, <1>6, <2>2 DEF Promised!FindNothing, Promised!Ends
<1>7. CASE n # 0
  <2>1. n \in Event /\ n \in [t \in Filters |-> 1..signed[t]][Filter[q]]
    BY <1>4, <1>7, FilterOfCall, MaxAssumption DEF Event
  <2>2. ASSUME NEW w \in SignedBefore(q)
        PROVE  Stamp[w] <= Stamp[n]
    <3>1. PICK v \in atStart[q] : w <= v
      BY <2>2 DEF SignedBefore
    <3>2. w \in Event /\ v \in Event /\ Stamp[w] <= Stamp[v]
      BY <3>1, <1>4, <2>2, StampAssumption DEF SignedBefore, Event
    <3> QED
      BY <3>1, <3>2, <1>5, <2>1, Ages
  <2>3. Promised!Find(q, n)
    BY <1>3, <2>1, <2>2 DEF Promised!Find
  <2> QED
    BY <2>1, <2>3
<1> QED
  BY <1>6, <1>7

\* A timer gives up, whatever the call had received by then.
LEMMA TimerGivesUp ==
    ASSUME QueryInv, NEW q \in Call, OnTimer(q)
    PROVE  Promised!GiveUp(q)
<1>1. /\ call[q] = "waiting" /\ call' = [call EXCEPT ![q] = "timedOut"]
      /\ signed' = signed /\ atStart' = atStart
      /\ found'[q] = 0 /\ \A p \in Call \ {q} : found'[p] = found[p]
  BY DEF OnTimer, Resolve, relayVars, QueryInv, TypeOK, OnlyWhileWaiting
<1>2. Promised!Ends(q, "timedOut", 0)
  BY <1>1, EndsAlike
<1> QED
  BY <1>1, <1>2 DEF Promised!GiveUp

\* What the relay, the library and the list of admins do in between shows
\* nothing: nobody has seen what a call that waits has found.
LEMMA RestIsHidden ==
    ASSUME QueryInv,
           \/ DropConnection
           \/ \E q \in Call : \/ Serve(q) \/ CloseByRelay(q)
                              \/ \E v \in Event : OnAdminsEvent(q, v)
    PROVE  UNCHANGED Promised!lookupVars
<1>1. UNCHANGED <<signed, call, atStart>>
  BY DEF DropConnection, Serve, CloseByRelay, OnAdminsEvent, Receives, relayVars
<1>2. \A q \in Call : call[q] # "waiting" => found'[q] = found[q]
  BY DEF DropConnection, Serve, CloseByRelay, OnAdminsEvent, Receives, QueryInv, TypeOK
<1>3. [p \in Call |-> IF call'[p] \in {"answered", "timedOut"} THEN found'[p] ELSE 0]
         = [p \in Call |-> IF call[p] \in {"answered", "timedOut"} THEN found[p] ELSE 0]
  BY <1>1, <1>2
<1> QED
  BY <1>1, <1>3 DEF Promised!lookupVars, SignedBefore

\* Every step of the queries is a step of the lookups or none.
LEMMA LookupStep ==
    QueryInv /\ [Next]_vars => [Promised!LookupNext]_Promised!lookupVars
<1> SUFFICES ASSUME QueryInv, [Next]_vars
             PROVE  [Promised!LookupNext]_Promised!lookupVars
  OBVIOUS
<1>1. CASE UNCHANGED vars
  BY <1>1 DEF vars, Promised!lookupVars, SignedBefore
<1>2. CASE \E t \in Filters : Sign(t)
  BY <1>2, SigningPosts DEF Promised!LookupNext
<1>3. CASE \E q \in Call : StartCall(q)
  BY <1>3, StartingAsks DEF Promised!LookupNext
<1>4. CASE \E q \in Call : \E v \in Event : OnEvent(q, v)
  BY <1>4, EventIsFound DEF Promised!LookupNext
<1>5. CASE \E q \in Call : OnEose(q)
  BY <1>5, EoseFindsOrNot DEF Promised!LookupNext
<1>6. CASE \E q \in Call : OnTimer(q)
  BY <1>6, TimerGivesUp DEF Promised!LookupNext
<1>7. CASE \/ DropConnection
           \/ \E q \in Call : \/ Serve(q) \/ CloseByRelay(q)
                              \/ \E v \in Event : OnAdminsEvent(q, v)
  BY <1>7, RestIsHidden
<1> QED
  BY <1>1, <1>2, <1>3, <1>4, <1>5, <1>6, <1>7 DEF Next

\* A query is as good as reading the relay at one moment between the call and
\* its end, for any number of calls, filters and events.
THEOREM QueriesImplementLookup == Spec => ImplementsLookup
<1>1. Spec => []QueryInv
  BY QuerySafety
<1>2. Init => Promised!LookupInit
  BY LookupInitial
<1>3. QueryInv /\ [Next]_vars => [Promised!LookupNext]_Promised!lookupVars
  BY LookupStep
<1> QED
  BY <1>1, <1>2, <1>3, PTL DEF Spec, ImplementsLookup, Promised!LookupSpec
=============================================================================
