--------------------------- MODULE TriggerProofs ---------------------------
(***************************************************************************)
(* Proofs about Triggers, for every set of events, every number of         *)
(* deliveries, every cache size and whichever queries time out.            *)
(***************************************************************************)
EXTENDS Triggers, SequenceTheorems, TLAPS

-----------------------------------------------------------------------------
(* The caches.                                                             *)

\* Making room keeps the order of what stays, and leaves a place.
LEMMA RoomIsMade ==
    ASSUME NEW S, NEW cache \in Seq(S)
    PROVE  /\ MakesRoom(cache) \in Seq(S)
           /\ Len(cache) <= MaxSize => Len(MakesRoom(cache)) < MaxSize
           /\ \/ MakesRoom(cache) = cache
              \/ /\ Len(MakesRoom(cache)) = Len(cache) - 1
                 /\ \A i \in 1..(Len(cache) - 1) : MakesRoom(cache)[i] = cache[i + 1]
<1>1. CASE Len(cache) >= MaxSize
  <2>1. cache # << >> /\ Len(cache) >= 1
    BY <1>1, MaxSizeAssumption
  <2>2. /\ Tail(cache) \in Seq(S)
        /\ Len(Tail(cache)) = Len(cache) - 1
        /\ \A i \in 1..Len(Tail(cache)) : Tail(cache)[i] = cache[i + 1]
    BY <2>1, HeadTailProperties
  <2>3. MakesRoom(cache) = Tail(cache)
    BY <1>1 DEF MakesRoom
  <2>4. Len(cache) \in Nat /\ MaxSize \in Nat
    BY MaxSizeAssumption
  <2>5. Len(MakesRoom(cache)) = Len(cache) - 1 /\ MakesRoom(cache) \in Seq(S)
    BY <2>2, <2>3
  <2>6. \A i \in 1..(Len(cache) - 1) : MakesRoom(cache)[i] = cache[i + 1]
    BY <2>2, <2>3
  <2>7. Len(cache) <= MaxSize => Len(cache) - 1 < MaxSize
    BY <2>4
  <2> QED
    BY <2>5, <2>6, <2>7
<1>2. CASE ~(Len(cache) >= MaxSize)
  BY <1>2, MaxSizeAssumption DEF MakesRoom
<1> QED
  BY <1>1, <1>2

\* What making room keeps was in the cache, under the same keys at most once.
LEMMA RoomKeeps ==
    ASSUME NEW S, NEW cache \in Seq(S)
    PROVE  /\ \A i \in DOMAIN MakesRoom(cache) :
                  \E j \in DOMAIN cache : MakesRoom(cache)[i] = cache[j]
           /\ CacheOK(cache) => \A i, j \in DOMAIN MakesRoom(cache) :
                  MakesRoom(cache)[i].key = MakesRoom(cache)[j].key => i = j
<1> DEFINE room == MakesRoom(cache)
<1>1. room \in Seq(S)
  BY RoomIsMade
<1>2. CASE room = cache
  BY <1>2 DEF CacheOK
<1>3. CASE /\ Len(room) = Len(cache) - 1
           /\ \A i \in 1..(Len(cache) - 1) : room[i] = cache[i + 1]
  <2>1. \A i \in DOMAIN room : i \in Nat /\ i + 1 \in DOMAIN cache /\ room[i] = cache[i + 1]
    BY <1>1, <1>3
  <2>2. CacheOK(cache) => \A i, j \in DOMAIN room : room[i].key = room[j].key => i + 1 = j + 1
    BY <2>1 DEF CacheOK
  <2> QED
    BY <2>1, <2>2
<1> QED
  BY <1>2, <1>3, RoomIsMade

\* set leaves a cache within its size, with one value at most for each key, and
\* whatever it holds then it held before or was just given.
LEMMA SetKeepsCache ==
    ASSUME NEW S, NEW cache \in Seq(S), NEW k, NEW v, Entry(k, v) \in S
    PROVE  /\ CacheSet(cache, k, v) \in Seq(S)
           /\ CacheOK(cache) => CacheOK(CacheSet(cache, k, v))
           /\ \A i \in DOMAIN CacheSet(cache, k, v) :
                  \/ CacheSet(cache, k, v)[i] = Entry(k, v)
                  \/ \E j \in DOMAIN cache : CacheSet(cache, k, v)[i] = cache[j]
<1> DEFINE room == MakesRoom(cache)
           new == MapSet(room, k, v)
<1>1. room \in Seq(S) /\ Entry(k, v) \in S /\ Entry(k, v).key = k
  BY RoomIsMade DEF Entry
<1>2. Len(cache) <= MaxSize => Len(room) < MaxSize
  BY RoomIsMade
<1>3. /\ \A i \in DOMAIN room : \E j \in DOMAIN cache : room[i] = cache[j]
      /\ CacheOK(cache) => \A i, j \in DOMAIN room : room[i].key = room[j].key => i = j
  BY RoomKeeps
<1>4. new = CacheSet(cache, k, v)
  BY DEF CacheSet
<1> HIDE DEF room
<1>5. CASE HasKey(room, k)
  <2>1. new = [i \in 1..Len(room) |-> IF room[i].key = k THEN Entry(k, v) ELSE room[i]]
    BY <1>1, <1>5 DEF MapSet
  <2>2. \A i \in 1..Len(room) : room[i] \in S /\ new[i] \in S
    BY <1>1, <2>1
  <2>3. new \in Seq(S) /\ Len(new) = Len(room) /\ DOMAIN new = DOMAIN room
    BY <1>1, <2>1, <2>2
  <2>4. \A i \in DOMAIN new : new[i].key = room[i].key
    BY <1>1, <2>1, <2>3
  <2>5. \A i \in DOMAIN new : new[i] = Entry(k, v) \/ new[i] = room[i]
    BY <1>1, <2>1, <2>3
  <2>6. CacheOK(cache) => CacheOK(new)
    BY <1>1, <1>2, <1>3, <2>3, <2>4, MaxSizeAssumption DEF CacheOK
  <2> HIDE DEF new
  <2>7. \A i \in DOMAIN new : new[i] = Entry(k, v) \/ \E j \in DOMAIN cache : new[i] = cache[j]
    BY <1>3, <2>3, <2>5
  <2> QED
    BY <1>4, <2>3, <2>6, <2>7
<1>6. CASE ~HasKey(room, k)
  <2>1. new = Append(room, Entry(k, v))
    BY <1>6 DEF MapSet
  <2>2. /\ new \in Seq(S)
        /\ Len(new) = Len(room) + 1
        /\ DOMAIN new = 1..(Len(room) + 1)
        /\ DOMAIN room = 1..Len(room)
        /\ \A i \in 1..Len(room) : new[i] = room[i]
        /\ new[Len(room) + 1] = Entry(k, v)
    BY <1>1, <2>1
  <2>3. \A i \in 1..Len(room) : room[i].key # k
    BY <1>6, <2>2 DEF HasKey
  <2> HIDE DEF new
  <2>4. \A i \in DOMAIN new : i \in DOMAIN room \/ i = Len(room) + 1
    BY <1>1, <2>2
  <2>5. ASSUME CacheOK(cache), NEW i \in DOMAIN new, NEW j \in DOMAIN new, new[i].key = new[j].key
        PROVE  i = j
    BY <1>1, <1>3, <2>2, <2>3, <2>4, <2>5
  <2>6. CacheOK(cache) => CacheOK(new)
    BY <1>1, <1>2, <2>2, <2>5, MaxSizeAssumption DEF CacheOK
  <2>7. \A i \in DOMAIN new : new[i] = Entry(k, v) \/ \E j \in DOMAIN cache : new[i] = cache[j]
    BY <1>3, <2>2, <2>4
  <2> QED
    BY <1>4, <2>2, <2>6, <2>7
<1> QED
  BY <1>5, <1>6

-----------------------------------------------------------------------------
(* The inductive invariant.                                                *)

AuthorEntry == [key : Event, value : Pubkey]
AgentEntry == [key : Pubkey, value : BOOLEAN]

AuthorsKnown == \A i \in DOMAIN authorCache : authorCache[i].value = Signer[authorCache[i].key]
AgentsKnown == \A i \in DOMAIN agentCache : agentCache[i].value => agentCache[i].key \in agents

\* The caches, and the links: whatever the table holds was signed.
StoreInv ==
    /\ authorCache \in Seq(AuthorEntry)
    /\ agentCache \in Seq(AgentEntry)
    /\ CacheOK(authorCache)
    /\ CacheOK(agentCache)
    /\ AuthorsKnown
    /\ AgentsKnown
    /\ agents \subseteq AgentKey
    /\ links \in [Pubkey -> Username \cup {NoName}]
    /\ \A p \in Pubkey :
           links[p] # NoName => \E c \in LinkCommand : c.by = p /\ c.name = links[p]

RunTypes ==
    /\ called \subseteq Flow
    /\ rows \subseteq called
    /\ handler \in [Flow -> {"idle", "flow", "done"} \cup Asking]
    /\ held \in [Flow -> BOOLEAN]
    /\ party \in [Flow -> Pubkey \cup {Nobody}]
    /\ payee \in [Flow -> Username \cup {NoName}]

\* What the handler of a run knows at each of its awaits, and what it has found
\* out once it has called runZapFlow.
RunOK(f) ==
    /\ handler[f] = "idle" => party[f] = Nobody
    /\ handler[f] \in {"idle"} \cup Asking => f \notin called
    /\ handler[f] \in {"askSender", "askInvoker"} => Src(f) \in AgentReply
    /\ handler[f] = "fetchTarget" => Src(f) \in AgentReply \cup Reaction
    /\ (handler[f] \in {"fetchTarget", "askInvoker"} /\ Src(f) \in AgentReply)
           => Sender(f) \in agents
    /\ handler[f] = "askInvoker" =>
           party[f] = TargetAuthor(f) /\ party[f] \notin {Sender(f), Bot}
    /\ RunsReply(f) =>
           /\ Sender(f) \in agents
           /\ party[f] = TargetAuthor(f)
           /\ party[f] \notin {Sender(f), Bot}
    /\ RunsReaction(f) =>
           /\ party[f] = TargetAuthor(f)
           /\ party[f] # Sender(f)
           /\ \E c \in LinkCommand : c.by = party[f] /\ c.name = payee[f]

RunInv == RunTypes /\ \A f \in Flow : RunOK(f)

TriggerInv == StoreInv /\ RunInv

\* The properties of the runs are parts of the invariant.
LEMMA InvImplies == TriggerInv => TriggerTypeOK /\ CachesAreSound /\ ChargesAreDue /\ ZapsGoToTheAuthor
BY DEF TriggerInv, StoreInv, RunInv, RunTypes, RunOK, TriggerTypeOK, CachesAreSound, ChargesAreDue,
       ZapsGoToTheAuthor, AuthorEntry, AgentEntry, AuthorsKnown, AgentsKnown

\* The system starts in a state of the invariant.
LEMMA TriggersStart == TriggerInit => TriggerInv
<1> SUFFICES ASSUME TriggerInit PROVE TriggerInv
  OBVIOUS
<1> USE DEF TriggerInit, CallInit
<1>1. CacheOK(EmptyCache) /\ DOMAIN EmptyCache = {}
  BY MaxSizeAssumption DEF CacheOK, EmptyCache
<1>2. EmptyCache \in Seq(AuthorEntry) /\ EmptyCache \in Seq(AgentEntry)
  BY DEF EmptyCache
<1>3. StoreInv
  BY <1>1, <1>2 DEF StoreInv, AuthorsKnown, AgentsKnown
<1>4. RunTypes
  BY DEF RunTypes, Asking
<1>5. \A f \in Flow : RunOK(f)
  BY DEF RunOK, RunsReply, RunsReaction, Asking
<1> QED
  BY <1>3, <1>4, <1>5 DEF TriggerInv, RunInv

-----------------------------------------------------------------------------
(* Names.                                                                  *)

\* Senders and the authors of targets are pubkeys.
LEMMA Names ==
    /\ \A f \in Flow : Src(f) \in Source /\ Sender(f) \in Pubkey
    /\ \A f \in Flow : Src(f) \in AgentReply \cup Reaction =>
           Target[Src(f)] \in Message /\ TargetAuthor(f) \in Pubkey
    /\ \A m \in Message \cup Source : m \in Event /\ Signer[m] \in Pubkey
BY MessageAssumption, SignerAssumption, TargetAssumption
   DEF Flow, Src, Sender, TargetAuthor, Pubkey, Event, Reaction

\* What the caches know is true.
LEMMA KnownAuthor ==
    ASSUME StoreInv, NEW m, NEW p, Knows(authorCache, m, p)
    PROVE  p = Signer[m]
BY DEF StoreInv, AuthorsKnown, Knows, Entry

\* Whom the cache calls an agent has a profile.
LEMMA KnownAgent ==
    ASSUME StoreInv, NEW p, Knows(agentCache, p, TRUE)
    PROVE  p \in agents
BY DEF StoreInv, AgentsKnown, Knows, Entry

-----------------------------------------------------------------------------
(* The stores.                                                             *)

\* Remembering the author of a message keeps the author cache sound.
LEMMA AuthorIsRemembered ==
    ASSUME StoreInv, NEW m \in Message \cup Source, RemembersAuthor(m)
    PROVE  authorCache' \in Seq(AuthorEntry) /\ CacheOK(authorCache') /\ AuthorsKnown'
<1>1. m \in Event /\ Signer[m] \in Pubkey
  BY Names
<1>2. authorCache' = CacheSet(authorCache, m, Signer[m])
  BY DEF RemembersAuthor
<1>3. authorCache \in Seq(AuthorEntry) /\ CacheOK(authorCache)
  BY DEF StoreInv
<1>4. Entry(m, Signer[m]) \in AuthorEntry
  BY <1>1 DEF Entry, AuthorEntry
<1>5. /\ authorCache' \in Seq(AuthorEntry)
      /\ CacheOK(authorCache')
      /\ \A i \in DOMAIN authorCache' :
             \/ authorCache'[i] = Entry(m, Signer[m])
             \/ \E j \in DOMAIN authorCache : authorCache'[i] = authorCache[j]
  BY <1>2, <1>3, <1>4, SetKeepsCache
<1> QED
  BY <1>5 DEF StoreInv, AuthorsKnown, Entry

\* Remembering an answer about a pubkey keeps the agent cache sound.
LEMMA AnswerIsRemembered ==
    ASSUME StoreInv, NEW p \in Pubkey, NEW answer \in BOOLEAN, answer => p \in agents,
           agentCache' = CacheSet(agentCache, p, answer), UNCHANGED agents
    PROVE  agentCache' \in Seq(AgentEntry) /\ CacheOK(agentCache') /\ AgentsKnown'
<1>1. agentCache \in Seq(AgentEntry) /\ CacheOK(agentCache)
  BY DEF StoreInv
<1>2. Entry(p, answer) \in AgentEntry
  BY DEF Entry, AgentEntry
<1>3. /\ agentCache' \in Seq(AgentEntry)
      /\ CacheOK(agentCache')
      /\ \A i \in DOMAIN agentCache' :
             \/ agentCache'[i] = Entry(p, answer)
             \/ \E j \in DOMAIN agentCache : agentCache'[i] = agentCache[j]
  BY <1>1, <1>2, SetKeepsCache
<1> QED
  BY <1>3 DEF StoreInv, AgentsKnown, Entry

\* The part of a step that touches the stores.
LEMMA StoresKept ==
    ASSUME StoreInv,
           \/ UNCHANGED authorCache
           \/ \E m \in Message \cup Source : RemembersAuthor(m),
           \/ UNCHANGED agentCache
           \/ \E p \in Pubkey, answer \in BOOLEAN :
                  /\ answer => p \in agents
                  /\ agentCache' = CacheSet(agentCache, p, answer),
           UNCHANGED <<links, agents>>
    PROVE  StoreInv'
<1>1. authorCache' \in Seq(AuthorEntry) /\ CacheOK(authorCache') /\ AuthorsKnown'
  BY AuthorIsRemembered DEF StoreInv, AuthorsKnown
<1>2. agentCache' \in Seq(AgentEntry) /\ CacheOK(agentCache') /\ AgentsKnown'
  BY AnswerIsRemembered DEF StoreInv, AgentsKnown
<1> QED
  BY <1>1, <1>2 DEF StoreInv

-----------------------------------------------------------------------------
(* The runs.                                                               *)

\* A step that leaves a run alone leaves what is known of it.
LEMMA Undisturbed ==
    ASSUME NEW f \in Flow, RunOK(f), agents \subseteq agents',
           handler'[f] = handler[f], party'[f] = party[f], payee'[f] = payee[f],
           f \in called' <=> f \in called
    PROVE  RunOK(f)'
BY DEF RunOK, RunsReply, RunsReaction, Sender, TargetAuthor, Asking

\* A step of one run, which leaves the others alone.
OneRun(f) ==
    /\ called' \in {called, called \cup {f}}
    /\ UNCHANGED <<rows, agents>>
    /\ \E stage \in {"idle", "flow", "done"} \cup Asking : handler' = [handler EXCEPT ![f] = stage]
    /\ \E b \in BOOLEAN : held' = [held EXCEPT ![f] = b]
    /\ party' = party \/ \E p \in Pubkey : party' = [party EXCEPT ![f] = p]
    /\ payee' = payee \/ \E n \in Username : payee' = [payee EXCEPT ![f] = n]

\* A step of one run keeps the rest of the runs in order.
LEMMA OneRunKeeps ==
    ASSUME RunInv, NEW f \in Flow, OneRun(f), RunOK(f)'
    PROVE  RunInv'
<1> USE DEF RunInv, RunTypes, OneRun
<1>1. RunTypes'
  OBVIOUS
<1>2. ASSUME NEW g \in Flow, g # f PROVE RunOK(g)'
  <2>1. /\ handler'[g] = handler[g]
        /\ party'[g] = party[g]
        /\ payee'[g] = payee[g]
        /\ g \in called' <=> g \in called
    BY <1>2
  <2> QED
    BY <2>1, Undisturbed
<1> QED
  BY <1>1, <1>2

-----------------------------------------------------------------------------
(* The ends of the handlers.                                               *)

\* A run that is over without a call has nothing left to find out.
LEMMA SkipKeeps ==
    ASSUME RunInv, NEW f \in Flow, f \notin called, Skips(f), UNCHANGED <<agents, payee>>,
           party' = party \/ \E p \in Pubkey : party' = [party EXCEPT ![f] = p]
    PROVE  OneRun(f) /\ RunOK(f)'
<1> USE DEF RunInv, RunTypes, Skips, Goes, callVars
<1>1. OneRun(f)
  BY DEF OneRun
<1>2. handler'[f] = "done" /\ f \notin called'
  OBVIOUS
<1> QED
  BY <1>1, <1>2 DEF RunOK, RunsReply, RunsReaction, Asking

\* The end of handleAgentReply charges only the author of the target.
LEMMA ChargeKeeps ==
    ASSUME RunInv, NEW f \in Flow, f \notin called, NEW p, NEW known,
           Src(f) \in AgentReply, Sender(f) \in agents, p = TargetAuthor(f),
           ChargesInvoker(f, p, known), UNCHANGED agents
    PROVE  OneRun(f) /\ RunOK(f)'
<1>1. p \in Pubkey
  BY Names
<1>2. party' = [party EXCEPT ![f] = p] /\ UNCHANGED payee
  BY DEF ChargesInvoker
<1>3. Src(f) \notin Reaction
  BY DEF Reaction
<1>4. Sender(f)' = Sender(f) /\ TargetAuthor(f)' = TargetAuthor(f)
  BY DEF Sender, TargetAuthor
<1>5. party'[f] = p
  BY <1>2 DEF RunInv, RunTypes
<1>6. CASE Skips(f)
  BY <1>1, <1>2, <1>6, SkipKeeps
<1>7. CASE p \notin {Sender(f), Bot} /\ Asks(f, "askInvoker", p)
  <2> DEFINE asked == p \in agents
  <2>0. asked \in BOOLEAN /\ held' = [held EXCEPT ![f] = asked]
    BY <1>7 DEF Asks, Goes
  <2> HIDE DEF asked
  <2>1. OneRun(f)
    <3>1. \E b \in BOOLEAN : held' = [held EXCEPT ![f] = b]
      BY <2>0
    <3>2. handler' = [handler EXCEPT ![f] = "askInvoker"] /\ UNCHANGED <<called, rows>>
      BY <1>7 DEF Asks, Goes, callVars
    <3> QED
      BY <1>1, <1>2, <3>1, <3>2 DEF OneRun, Asking
  <2>2. handler'[f] = "askInvoker" /\ f \notin called'
    BY <1>7 DEF RunInv, RunTypes, Asks, Goes, callVars
  <2> QED
    BY <1>3, <1>5, <1>7, <2>1, <2>2 DEF RunOK, RunsReply, RunsReaction, Asking
<1>8. CASE p \notin {Sender(f), Bot} /\ Runs(f)
  <2>1. OneRun(f)
    BY <1>1, <1>2, <1>8 DEF RunInv, RunTypes, OneRun, Runs, Call, Goes
  <2>2. handler'[f] = "flow"
    BY <1>8 DEF RunInv, RunTypes, Runs, Goes
  <2> QED
    BY <1>3, <1>5, <1>8, <2>1, <2>2 DEF RunOK, RunsReply, RunsReaction, Asking
<1> QED
  BY <1>6, <1>7, <1>8 DEF ChargesInvoker

\* The end of handleReaction zaps only the author of the target.
LEMMA ZapKeeps ==
    ASSUME RunInv, StoreInv, NEW f \in Flow, f \notin called, NEW p,
           Src(f) \in Reaction, p = TargetAuthor(f), ZapsAuthor(f, p), UNCHANGED agents
    PROVE  OneRun(f) /\ RunOK(f)'
<1>1. p \in Pubkey
  BY Names
<1>2. party' = [party EXCEPT ![f] = p]
  BY DEF ZapsAuthor
<1>3. Src(f) \notin AgentReply
  BY DEF Reaction
<1>4. party'[f] = p
  BY <1>2 DEF RunInv, RunTypes
<1>5. CASE Skips(f) /\ UNCHANGED payee
  BY <1>1, <1>2, <1>5, SkipKeeps
<1>6. CASE /\ p # Sender(f)
           /\ links[p] # NoName
           /\ payee' = [payee EXCEPT ![f] = links[p]]
           /\ Runs(f)
  <2>1. PICK c \in LinkCommand : c.by = p /\ c.name = links[p]
    BY <1>1, <1>6 DEF StoreInv
  <2>2. links[p] \in Username
    BY <2>1 DEF Username
  <2>3. OneRun(f)
    BY <1>1, <1>2, <1>6, <2>2 DEF RunInv, RunTypes, OneRun, Runs, Call, Goes
  <2>4. handler'[f] = "flow" /\ payee'[f] = links[p]
    BY <1>6 DEF RunInv, RunTypes, Runs, Goes
  <2> QED
    BY <1>3, <1>4, <1>6, <2>1, <2>3, <2>4 DEF RunOK, RunsReply, RunsReaction, Asking, Sender, TargetAuthor
<1> QED
  BY <1>5, <1>6 DEF ZapsAuthor

\* A run that goes to fetch its target is still to find its party.
LEMMA FetchKeeps ==
    ASSUME RunInv, NEW f \in Flow, f \notin called, FetchesTarget(f), UNCHANGED agents,
           Src(f) \in AgentReply \cup Reaction, Src(f) \in AgentReply => Sender(f) \in agents
    PROVE  OneRun(f) /\ RunOK(f)'
<1> USE DEF RunInv, RunTypes, FetchesTarget, Goes, callVars
<1>1. OneRun(f)
  BY DEF OneRun, Asking
<1>2. handler'[f] = "fetchTarget" /\ f \notin called'
  OBVIOUS
<1> QED
  BY <1>1, <1>2 DEF RunOK, RunsReply, RunsReaction, Asking, Sender

\* Whoever the author cache names, if it names anybody, wrote the target.
LEMMA FindKeeps ==
    ASSUME RunInv, NEW f \in Flow, f \notin called, NEW authorsNow, NEW known,
           Src(f) \in AgentReply, Sender(f) \in agents,
           \A p : Knows(authorsNow, Target[Src(f)], p) => p = TargetAuthor(f),
           FindsInvoker(f, authorsNow, known), UNCHANGED agents
    PROVE  OneRun(f) /\ RunOK(f)'
<1>1. CASE FetchesTarget(f)
  BY <1>1, FetchKeeps
<1>2. CASE \E p \in Pubkey : Knows(authorsNow, Target[Src(f)], p) /\ ChargesInvoker(f, p, known)
  BY <1>2, ChargeKeeps
<1> QED
  BY <1>1, <1>2 DEF FindsInvoker

-----------------------------------------------------------------------------
(* Every step.                                                             *)

\* What an action of one run has to show.
LEMMA OneRunSteps ==
    ASSUME TriggerInv, NEW f \in Flow, OneRun(f), RunOK(f)', StoreInv'
    PROVE  TriggerInv'
BY OneRunKeeps DEF TriggerInv

\* A /zap command has no party and no link to find out.
LEMMA ZapCommandKeeps ==
    ASSUME TriggerInv, NEW f \in Flow, HandleZapCommand(f)
    PROVE  TriggerInv'
<1> USE DEF TriggerInv, HandleZapCommand
<1>1. StoreInv'
  BY Names, StoresKept
<1>2. Src(f) \notin Reaction /\ party[f] = Nobody /\ f \notin called
  BY DEF Reaction, RunInv, RunOK
<1>3. OneRun(f)
  BY DEF RunInv, RunTypes, OneRun, Runs, Call, Goes
<1>4. handler'[f] = "flow" /\ party'[f] = Nobody
  BY <1>2 DEF RunInv, RunTypes, Runs, Goes
<1>5. RunOK(f)'
  BY <1>2, <1>4 DEF RunOK, RunsReply, RunsReaction, Asking
<1> QED
  BY <1>1, <1>3, <1>5, OneRunSteps

\* The first stretch of handleAgentReply, up to its first await.
LEMMA AgentReplyKeeps ==
    ASSUME TriggerInv, NEW f \in Flow, HandleAgentReply(f)
    PROVE  TriggerInv'
<1> USE DEF TriggerInv
<1>1. Src(f) \in AgentReply /\ UNCHANGED <<links, agents, agentCache>> /\ RemembersAuthor(Src(f))
  BY DEF HandleAgentReply
<1>2. StoreInv'
  BY <1>1, Names, StoresKept
<1>3. f \notin called /\ party[f] = Nobody
  BY DEF HandleAgentReply, RunInv, RunOK
<1>4. CASE Skips(f) /\ UNCHANGED <<party, payee>>
  BY <1>1, <1>2, <1>3, <1>4, SkipKeeps, OneRunSteps
<1>5. CASE Asks(f, "askSender", Sender(f)) /\ UNCHANGED <<party, payee>>
  <2> DEFINE asked == Sender(f) \in agents
  <2>1. asked \in BOOLEAN /\ held' = [held EXCEPT ![f] = asked]
    BY <1>5 DEF Asks, Goes
  <2> HIDE DEF asked
  <2>2. handler' = [handler EXCEPT ![f] = "askSender"] /\ UNCHANGED <<called, rows>>
    BY <1>5 DEF Asks, Goes, callVars
  <2>3. \E b \in BOOLEAN : held' = [held EXCEPT ![f] = b]
    BY <2>1
  <2>4. OneRun(f)
    BY <1>1, <1>5, <2>2, <2>3 DEF OneRun, Asking
  <2>5. handler'[f] = "askSender" /\ party'[f] = Nobody /\ f \notin called'
    BY <1>3, <1>5, <2>2 DEF RunInv, RunTypes
  <2>6. RunOK(f)'
    BY <1>1, <2>5 DEF RunOK, RunsReply, RunsReaction, Asking
  <2> QED
    BY <1>2, <2>4, <2>6, OneRunSteps
<1>6. CASE /\ Knows(agentCache, Sender(f), TRUE)
           /\ FindsInvoker(f, authorCache', agentCache)
  <2>1. Sender(f) \in agents
    BY <1>6, KnownAgent
  <2>2. \A p : Knows(authorCache', Target[Src(f)], p) => p = TargetAuthor(f)
    BY <1>2 DEF StoreInv, AuthorsKnown, Knows, Entry, TargetAuthor
  <2> QED
    BY <1>1, <1>2, <1>3, <1>6, <2>1, <2>2, FindKeeps, OneRunSteps
<1> QED
  BY <1>4, <1>5, <1>6 DEF HandleAgentReply

\* A true answer is one about a pubkey that has a profile.
LEMMA SenderAnsweredKeeps ==
    ASSUME TriggerInv, NEW f \in Flow, SenderAnswered(f)
    PROVE  TriggerInv'
<1> USE DEF TriggerInv
<1>1. PICK answer \in Answers(f, Sender(f)) :
          /\ agentCache' = CacheSet(agentCache, Sender(f), answer)
          /\ \/ ~answer /\ Skips(f) /\ UNCHANGED <<party, payee>>
             \/ answer /\ FindsInvoker(f, authorCache, agentCache')
  BY DEF SenderAnswered
<1>2. answer \in BOOLEAN /\ (answer => Sender(f) \in agents)
  BY DEF Answers
<1>3. UNCHANGED <<links, agents, authorCache>>
  BY DEF SenderAnswered
<1>4. StoreInv'
  BY <1>1, <1>2, <1>3, Names, StoresKept
<1>5. f \notin called /\ Src(f) \in AgentReply
  BY DEF SenderAnswered, RunInv, RunOK, Asking
<1>6. CASE ~answer /\ Skips(f) /\ UNCHANGED <<party, payee>>
  BY <1>3, <1>4, <1>5, <1>6, SkipKeeps, OneRunSteps
<1>7. CASE answer /\ FindsInvoker(f, authorCache, agentCache')
  <2>1. \A p : Knows(authorCache, Target[Src(f)], p) => p = TargetAuthor(f)
    BY KnownAuthor DEF TargetAuthor
  <2> QED
    BY <1>2, <1>3, <1>4, <1>5, <1>7, <2>1, FindKeeps, OneRunSteps
<1> QED
  BY <1>1, <1>6, <1>7

\* The answer about the invoker changes neither the party nor the target.
LEMMA InvokerAnsweredKeeps ==
    ASSUME TriggerInv, NEW f \in Flow, InvokerAnswered(f)
    PROVE  TriggerInv'
<1> USE DEF TriggerInv
<1>1. PICK answer \in Answers(f, party[f]) :
          /\ agentCache' = CacheSet(agentCache, party[f], answer)
          /\ (answer /\ Skips(f)) \/ (~answer /\ Runs(f))
  BY DEF InvokerAnswered
<1>2. answer \in BOOLEAN /\ (answer => party[f] \in agents)
  BY DEF Answers
<1>3. UNCHANGED <<links, agents, authorCache, party, payee>>
  BY DEF InvokerAnswered
<1>4. /\ f \notin called /\ Src(f) \in AgentReply /\ Sender(f) \in agents
      /\ party[f] = TargetAuthor(f) /\ party[f] \notin {Sender(f), Bot}
  BY DEF InvokerAnswered, RunInv, RunOK, Asking
<1>5. StoreInv'
  BY <1>1, <1>2, <1>3, <1>4, Names, StoresKept
<1>6. CASE Skips(f)
  BY <1>3, <1>4, <1>5, <1>6, SkipKeeps, OneRunSteps
<1>7. CASE Runs(f)
  <2>1. OneRun(f)
    BY <1>3, <1>7 DEF OneRun, Runs, Call, Goes
  <2>2. handler'[f] = "flow"
    BY <1>7 DEF RunInv, RunTypes, Runs, Goes
  <2>3. Src(f) \notin Reaction
    BY <1>4 DEF Reaction
  <2>4. RunOK(f)'
    BY <1>3, <1>4, <2>2, <2>3 DEF RunOK, RunsReply, RunsReaction, Asking, Sender, TargetAuthor
  <2> QED
    BY <1>5, <2>1, <2>4, OneRunSteps
<1> QED
  BY <1>1, <1>6, <1>7

\* The first stretch of handleReaction, up to its await.
LEMMA ReactionKeeps ==
    ASSUME TriggerInv, NEW f \in Flow, HandleReaction(f)
    PROVE  TriggerInv'
<1> USE DEF TriggerInv
<1>1. Src(f) \in Reaction /\ UNCHANGED <<links, agents, authorCache, agentCache>>
  BY DEF HandleReaction
<1>2. f \notin called /\ Src(f) \notin AgentReply
  BY <1>1 DEF HandleReaction, RunInv, RunOK, Reaction
<1>3. StoreInv'
  BY <1>1, StoresKept
<1>4. CASE FetchesTarget(f)
  BY <1>1, <1>2, <1>3, <1>4, FetchKeeps, OneRunSteps
<1>5. CASE \E p \in Pubkey : Knows(authorCache, Target[Src(f)], p) /\ ZapsAuthor(f, p)
  <2>1. PICK p \in Pubkey : Knows(authorCache, Target[Src(f)], p) /\ ZapsAuthor(f, p)
    BY <1>5
  <2>2. p = TargetAuthor(f)
    BY <2>1, KnownAuthor DEF TargetAuthor
  <2> QED
    BY <1>1, <1>2, <1>3, <2>1, <2>2, ZapKeeps, OneRunSteps
<1> QED
  BY <1>4, <1>5 DEF HandleReaction

\* A fetched event names its own author, which is then remembered.
LEMMA FetchedKeeps ==
    ASSUME TriggerInv, NEW f \in Flow, TargetFetched(f)
    PROVE  TriggerInv'
<1> USE DEF TriggerInv
<1>1. UNCHANGED <<links, agents, agentCache>> /\ RemembersAuthor(Target[Src(f)])
  BY DEF TargetFetched
<1>2. /\ f \notin called
      /\ Src(f) \in AgentReply \cup Reaction
      /\ Src(f) \in AgentReply => Sender(f) \in agents
  BY DEF TargetFetched, RunInv, RunOK, Asking
<1>3. Target[Src(f)] \in Message \cup Source
  BY <1>2, Names
<1>4. StoreInv'
  BY <1>1, <1>3, StoresKept
<1>5. CASE Src(f) \in AgentReply /\ ChargesInvoker(f, TargetAuthor(f), agentCache)
  BY <1>1, <1>2, <1>4, <1>5, ChargeKeeps, OneRunSteps
<1>6. CASE Src(f) \in Reaction /\ ZapsAuthor(f, TargetAuthor(f))
  BY <1>1, <1>2, <1>4, <1>6, ZapKeeps, OneRunSteps
<1> QED
  BY <1>5, <1>6 DEF TargetFetched

\* A target that is not found ends its run.
LEMMA NotFetchedKeeps ==
    ASSUME TriggerInv, NEW f \in Flow, TargetNotFetched(f)
    PROVE  TriggerInv'
<1> USE DEF TriggerInv
<1>1. StoreInv'
  BY StoresKept DEF TargetNotFetched
<1>2. f \notin called
  BY DEF TargetNotFetched, RunInv, RunOK, Asking
<1> QED
  BY <1>1, <1>2, SkipKeeps, OneRunSteps DEF TargetNotFetched

\* A row is inserted by a run that has called runZapFlow.
LEMMA InsertionKeeps ==
    ASSUME TriggerInv, NEW f \in Flow, FlowInsertsRow(f)
    PROVE  TriggerInv'
<1> USE DEF TriggerInv, FlowInsertsRow, triggerVars, InsertRow
<1>1. StoreInv'
  BY StoresKept
<1>2. RunTypes'
  BY DEF RunInv, RunTypes
<1>3. \A g \in Flow : RunOK(g)'
  BY Undisturbed DEF RunInv
<1> QED
  BY <1>1, <1>2, <1>3 DEF RunInv

\* The process may die at any await: the caches are empty again, and a run that
\* had called runZapFlow had found out whom it was about.
LEMMA DeathKeeps ==
    ASSUME TriggerInv, TriggersDie
    PROVE  TriggerInv'
<1> USE DEF TriggerInv, TriggersDie, callVars
<1>1. CacheOK(EmptyCache) /\ DOMAIN EmptyCache = {}
  BY MaxSizeAssumption DEF CacheOK, EmptyCache
<1>2. EmptyCache \in Seq(AuthorEntry) /\ EmptyCache \in Seq(AgentEntry)
  BY DEF EmptyCache
<1>3. StoreInv'
  BY <1>1, <1>2 DEF StoreInv, AuthorsKnown, AgentsKnown
<1>4. RunTypes'
  BY DEF RunInv, RunTypes
<1>5. ASSUME NEW f \in Flow PROVE RunOK(f)'
  <2>1. RunOK(f) /\ handler'[f] = IF handler[f] = "idle" THEN "idle" ELSE "done"
    BY DEF RunInv
  <2> QED
    BY <2>1 DEF RunOK, RunsReply, RunsReaction, Asking, Sender, TargetAuthor
<1> QED
  BY <1>3, <1>4, <1>5 DEF RunInv

\* What the rest of the feed and the world outside do.
LEMMA FeedKeeps ==
    ASSUME TriggerInv,
           \/ \E p \in AgentKey : PublishProfile(p)
           \/ \E c \in LinkCommand : HandleLink(c)
           \/ \E m \in Message \ Source : HandleOtherMessage(m)
           \/ UNCHANGED allVars
    PROVE  TriggerInv'
<1> USE DEF TriggerInv
<1>1. UNCHANGED <<callVars, handler, held, party, payee>> /\ agents \subseteq agents'
  BY DEF PublishProfile, HandleLink, HandleOtherMessage, allVars, triggerVars
<1>2. RunInv'
  <2>1. RunTypes'
    BY <1>1 DEF RunInv, RunTypes, callVars
  <2>2. \A f \in Flow : RunOK(f)'
    BY <1>1, Undisturbed DEF RunInv, callVars
  <2> QED
    BY <2>1, <2>2 DEF RunInv
<1>3. ASSUME NEW p \in AgentKey, PublishProfile(p) PROVE StoreInv'
  BY <1>3 DEF PublishProfile, StoreInv, AuthorsKnown, AgentsKnown
<1>4. ASSUME NEW c \in LinkCommand, HandleLink(c) PROVE StoreInv'
  <2>1. c.by \in Pubkey /\ c.name \in Username
    BY DEF Pubkey, Username
  <2>2. links' = [links EXCEPT ![c.by] = c.name] /\ UNCHANGED <<agents, authorCache, agentCache>>
    BY <1>4 DEF HandleLink
  <2>3. links' \in [Pubkey -> Username \cup {NoName}]
    BY <2>1, <2>2 DEF StoreInv
  <2>4. \A p \in Pubkey :
            links'[p] # NoName => \E d \in LinkCommand : d.by = p /\ d.name = links'[p]
    BY <2>1, <2>2 DEF StoreInv
  <2> QED
    BY <2>2, <2>3, <2>4 DEF StoreInv, AuthorsKnown, AgentsKnown
<1>5. ASSUME NEW m \in Message \ Source, HandleOtherMessage(m) PROVE StoreInv'
  BY <1>5, StoresKept DEF HandleOtherMessage
<1>6. ASSUME UNCHANGED allVars PROVE StoreInv'
  <2>1. UNCHANGED <<links, agents, authorCache, agentCache>>
    BY <1>6 DEF allVars, triggerVars
  <2> QED
    BY <2>1 DEF StoreInv, AuthorsKnown, AgentsKnown
<1> QED
  BY <1>2, <1>3, <1>4, <1>5, <1>6

\* No step leaves the invariant.
LEMMA TriggerStep == TriggerInv /\ [TriggerNext]_allVars => TriggerInv'
BY ZapCommandKeeps, AgentReplyKeeps, SenderAnsweredKeeps, InvokerAnsweredKeeps, ReactionKeeps,
   FetchedKeeps, NotFetchedKeeps, InsertionKeeps, DeathKeeps, FeedKeeps
   DEF TriggerNext, QueryEnds

-----------------------------------------------------------------------------
(* The theorems.                                                           *)

\* The inductive invariant holds in every reachable state.
THEOREM TriggerSafety == TriggerSpec => []TriggerInv
BY TriggersStart, TriggerStep, PTL DEF TriggerSpec

\* Type correctness, for every instance of the constants.
THEOREM TriggerTypeCorrect == TriggerSpec => []TriggerTypeOK
BY TriggerSafety, InvImplies, PTL

\* The caches stay within their size and hold nothing wrong, whatever is evicted
\* and however the handlers interleave.
THEOREM CachesStaySound == TriggerSpec => []CachesAreSound
BY TriggerSafety, InvImplies, PTL

\* Only the reply of an agent charges, and it charges who wrote its target.
THEOREM ChargesStayDue == TriggerSpec => []ChargesAreDue
BY TriggerSafety, InvImplies, PTL

\* A reaction zaps the author of its target, under a name the author signed.
THEOREM ZapsReachTheAuthor == TriggerSpec => []ZapsGoToTheAuthor
BY TriggerSafety, InvImplies, PTL

\* The triggers use runZapFlow the way ZapFlow lets them: a step of theirs calls
\* one run, lets one insert its row, or does neither.
THEOREM TriggersImplementCalls == TriggerSpec => CallSpec
<1>1. TriggerInit => CallInit
  BY DEF TriggerInit
<1>2. [TriggerNext]_allVars => [CallNext]_callVars
  <2> SUFFICES ASSUME [TriggerNext]_allVars PROVE [CallNext]_callVars
    OBVIOUS
  <2>1. ASSUME NEW f \in Flow, Call(f) \/ InsertRow(f) PROVE [CallNext]_callVars
    BY <2>1 DEF CallNext
  <2>2. ASSUME NEW f \in Flow, Skips(f) \/ FetchesTarget(f) \/ \E stage, p : Asks(f, stage, p)
        PROVE  UNCHANGED callVars
    BY <2>2 DEF Skips, FetchesTarget, Asks
  <2>3. ASSUME NEW f \in Flow, NEW p, NEW known, ChargesInvoker(f, p, known)
        PROVE  [CallNext]_callVars
    BY <2>1, <2>2, <2>3 DEF ChargesInvoker, Runs
  <2>4. ASSUME NEW f \in Flow, NEW p, ZapsAuthor(f, p) PROVE [CallNext]_callVars
    BY <2>1, <2>2, <2>4 DEF ZapsAuthor, Runs
  <2>5. ASSUME NEW f \in Flow, HandleZapCommand(f) \/ FlowInsertsRow(f) PROVE [CallNext]_callVars
    BY <2>1, <2>5 DEF HandleZapCommand, FlowInsertsRow, Runs
  <2>6. ASSUME NEW f \in Flow, HandleAgentReply(f) PROVE [CallNext]_callVars
    BY <2>2, <2>3, <2>6 DEF HandleAgentReply, FindsInvoker
  <2>7. ASSUME NEW f \in Flow, SenderAnswered(f) PROVE [CallNext]_callVars
    BY <2>2, <2>3, <2>7 DEF SenderAnswered, FindsInvoker
  <2>8. ASSUME NEW f \in Flow, InvokerAnswered(f) PROVE [CallNext]_callVars
    BY <2>1, <2>2, <2>8 DEF InvokerAnswered, Runs
  <2>9. ASSUME NEW f \in Flow, HandleReaction(f) PROVE [CallNext]_callVars
    BY <2>2, <2>4, <2>9 DEF HandleReaction
  <2>10. ASSUME NEW f \in Flow, TargetFetched(f) PROVE [CallNext]_callVars
    BY <2>3, <2>4, <2>10 DEF TargetFetched
  <2>11. ASSUME NEW f \in Flow, TargetNotFetched(f) PROVE [CallNext]_callVars
    BY <2>2, <2>11 DEF TargetNotFetched
  <2>12. ASSUME \/ \E p \in AgentKey : PublishProfile(p)
                \/ \E c \in LinkCommand : HandleLink(c)
                \/ \E m \in Message \ Source : HandleOtherMessage(m)
                \/ TriggersDie
                \/ UNCHANGED allVars
         PROVE  UNCHANGED callVars
    BY <2>12 DEF PublishProfile, HandleLink, HandleOtherMessage, TriggersDie, allVars
  <2> QED
    BY <2>5, <2>6, <2>7, <2>8, <2>9, <2>10, <2>11, <2>12 DEF TriggerNext, QueryEnds
<1> QED
  BY <1>1, <1>2, PTL DEF TriggerSpec, CallSpec

-----------------------------------------------------------------------------
(* What holds from some state on.                                          *)

\* A step of run g leaves every other run alone, and takes no row back.
Alone(g) ==
    /\ \A f \in Flow \ {g} :
          /\ handler'[f] = handler[f]
          /\ party'[f] = party[f]
          /\ held'[f] = held[f]
          /\ f \in called' <=> f \in called
    /\ rows \subseteq rows'

\* The parts a handler is made of leave the other runs alone.
LEMMA PartsAreAlone ==
    ASSUME RunTypes, NEW g \in Flow,
           \/ Skips(g) /\ UNCHANGED party
           \/ FetchesTarget(g)
           \/ \E stage, p : Asks(g, stage, p) /\ UNCHANGED party
           \/ Runs(g) /\ UNCHANGED party
           \/ \E p, known : ChargesInvoker(g, p, known)
           \/ \E p : Skips(g) /\ party' = [party EXCEPT ![g] = p]
           \/ \E p : ZapsAuthor(g, p)
    PROVE  Alone(g)
<1> USE DEF RunTypes, Alone, Goes, callVars
<1>1. ASSUME NEW stage, NEW p, Asks(g, stage, p), NEW q, party' = party \/ party' = [party EXCEPT ![g] = q]
      PROVE  Alone(g)
  BY <1>1 DEF Asks
<1>2. ASSUME Skips(g) \/ Runs(g), NEW q, party' = party \/ party' = [party EXCEPT ![g] = q]
      PROVE  Alone(g)
  BY <1>2 DEF Skips, Runs, Call
<1>3. CASE FetchesTarget(g)
  BY <1>3 DEF FetchesTarget
<1>4. ASSUME NEW p, NEW known, ChargesInvoker(g, p, known) PROVE Alone(g)
  BY <1>1, <1>2, <1>4 DEF ChargesInvoker
<1>5. ASSUME NEW p, ZapsAuthor(g, p) PROVE Alone(g)
  BY <1>2, <1>5 DEF ZapsAuthor
<1> QED
  BY <1>1, <1>2, <1>3, <1>4, <1>5

\* A handler is at work on its own run only.
LEMMA HandlersAreAlone ==
    ASSUME RunTypes, NEW g \in Flow,
           \/ HandleZapCommand(g) \/ HandleAgentReply(g) \/ HandleReaction(g)
           \/ QueryEnds(g) \/ FlowInsertsRow(g)
    PROVE  Alone(g)
<1>1. CASE HandleZapCommand(g)
  BY <1>1, PartsAreAlone DEF HandleZapCommand
<1>2. CASE HandleAgentReply(g)
  BY <1>2, PartsAreAlone DEF HandleAgentReply, FindsInvoker
<1>3. CASE HandleReaction(g)
  BY <1>3, PartsAreAlone DEF HandleReaction
<1>4. CASE SenderAnswered(g)
  BY <1>4, PartsAreAlone DEF SenderAnswered, FindsInvoker
<1>5. CASE InvokerAnswered(g)
  BY <1>5, PartsAreAlone DEF InvokerAnswered
<1>6. CASE TargetFetched(g)
  BY <1>6, PartsAreAlone DEF TargetFetched
<1>7. CASE TargetNotFetched(g)
  BY <1>7, PartsAreAlone DEF TargetNotFetched
<1>8. CASE FlowInsertsRow(g)
  BY <1>8 DEF FlowInsertsRow, InsertRow, triggerVars, Alone
<1> QED
  BY <1>1, <1>2, <1>3, <1>4, <1>5, <1>6, <1>7, <1>8 DEF QueryEnds

\* What becomes of a reply whose event had a row before its handler started: it
\* never gets as far as its first await.
Ignored(f) ==
    /\ HasRow(Src(f))
    /\ party[f] = Nobody
    /\ handler[f] \in {"idle", "flow", "done"}

\* A reply that is ignored stays ignored.
LEMMA IgnoredStays ==
    ASSUME NEW f \in ReplyRun, TriggerInv, Ignored(f), [TriggerNext]_allVars
    PROVE  Ignored(f)'
<1> USE DEF Ignored
<1>0. f \in Flow /\ Src(f) \in AgentReply /\ Src(f) \notin Reaction /\ RunTypes
  BY DEF ReplyRun, Reaction, TriggerInv, RunInv
<1>1. ASSUME rows \subseteq rows', party'[f] = Nobody, handler'[f] \in {"idle", "flow", "done"}
      PROVE  Ignored(f)'
  BY <1>1 DEF HasRow
<1>2. ASSUME NEW g \in Flow,
             \/ HandleZapCommand(g) \/ HandleAgentReply(g) \/ HandleReaction(g)
             \/ QueryEnds(g) \/ FlowInsertsRow(g)
      PROVE  Ignored(f)'
  <2>1. CASE g # f
    BY <1>0, <1>1, <1>2, <2>1, HandlersAreAlone DEF Alone
  <2>2. CASE g = f
    <3>1. ASSUME HandleZapCommand(f) PROVE Ignored(f)'
      BY <1>0, <1>1, <3>1 DEF HandleZapCommand, Runs, Call, Goes, RunTypes
    <3>2. ASSUME HandleAgentReply(f) PROVE Ignored(f)'
      <4>1. Skips(f) /\ UNCHANGED party
        BY <3>2 DEF HandleAgentReply, HasSourceEvent
      <4> QED
        BY <1>0, <1>1, <4>1 DEF Skips, Goes, callVars, RunTypes
    <3>3. ~HandleReaction(f)
      BY <1>0 DEF HandleReaction
    <3>4. ~QueryEnds(f)
      BY DEF QueryEnds, SenderAnswered, InvokerAnswered, TargetFetched, TargetNotFetched
    <3>5. ASSUME FlowInsertsRow(f) PROVE Ignored(f)'
      BY <1>1, <3>5 DEF FlowInsertsRow, InsertRow, triggerVars
    <3> QED
      BY <1>2, <2>2, <3>1, <3>2, <3>3, <3>4, <3>5
  <2> QED
    BY <2>1, <2>2
<1>3. CASE TriggersDie
  BY <1>0, <1>1, <1>3 DEF TriggersDie, callVars
<1>4. CASE \/ \E p \in AgentKey : PublishProfile(p)
           \/ \E c \in LinkCommand : HandleLink(c)
           \/ \E m \in Message \ Source : HandleOtherMessage(m)
           \/ UNCHANGED allVars
  <2>1. UNCHANGED <<rows, party, handler>>
    BY <1>4 DEF PublishProfile, HandleLink, HandleOtherMessage, allVars, triggerVars, callVars
  <2> QED
    BY <1>1, <2>1
<1> QED
  BY <1>2, <1>3, <1>4 DEF TriggerNext

\* The reply of an agent that is delivered again after its row was inserted does
\* not start another flow.
THEOREM RedeliveredRepliesAreIgnored == TriggerSpec => RedeliveredReplyIsIgnored
<1>1. ASSUME NEW f \in ReplyRun
      PROVE  TriggerSpec => []((handler[f] = "idle" /\ HasRow(Src(f))) => []~RunsReply(f))
  <2>1. TriggerInv /\ handler[f] = "idle" /\ HasRow(Src(f)) => Ignored(f)
    BY DEF TriggerInv, RunInv, RunOK, Ignored, ReplyRun
  <2>2. TriggerInv /\ Ignored(f) /\ [TriggerNext]_allVars => Ignored(f)'
    BY IgnoredStays
  <2>3. Ignored(f) => ~RunsReply(f)
    BY DEF Ignored, RunsReply
  <2> QED
    BY <2>1, <2>2, <2>3, TriggerSafety, PTL DEF TriggerSpec
<1> QED
  BY <1>1 DEF RedeliveredReplyIsIgnored

\* A run waits for the answer whether a pubkey is an agent.
AsksAbout(g, p) ==
    \/ handler[g] = "askSender" /\ p = Sender(g)
    \/ handler[g] = "askInvoker" /\ p = party[g]

\* What protects a pubkey that has a profile and whose queries are answered: the
\* cache does not deny it, and whoever asks about it asked when it was there.
Protected(p) ==
    /\ p \in agents
    /\ ~Knows(agentCache, p, FALSE)
    /\ \A g \in Flow : held[g] \/ ~AsksAbout(g, p)

\* A part of a handler charges no protected pubkey, and asks about it in time.
Harmless(g, p) ==
    /\ held'[g] \/ ~AsksAbout(g, p)'
    /\ ~(RunsReply(g)' /\ party'[g] = p)

\* The parts of a handler that has not called runZapFlow yet are harmless.
LEMMA PartsAreHarmless ==
    ASSUME RunTypes, NEW g \in Flow, NEW p \in agents, g \notin called,
           \/ Skips(g)
           \/ FetchesTarget(g)
           \/ Asks(g, "askSender", Sender(g))
           \/ \E q, known : ChargesInvoker(g, q, known) /\ ~Knows(known, p, FALSE)
           \/ \E q : ZapsAuthor(g, q) /\ Src(g) \in Reaction
           \/ Runs(g) /\ UNCHANGED party /\ party[g] \in {Nobody} \cup (Pubkey \ {p})
    PROVE  Harmless(g, p)
<1> USE DEF RunTypes, Goes, callVars, Harmless, AsksAbout, RunsReply
<1>1. ASSUME Skips(g) PROVE Harmless(g, p)
  BY <1>1 DEF Skips
<1>2. ASSUME NEW stage, NEW q, Asks(g, stage, q), party' = [party EXCEPT ![g] = q],
             stage # "askSender"
      PROVE  Harmless(g, p)
  <2> DEFINE asked == q \in agents
  <2>1. held' = [held EXCEPT ![g] = asked]
    BY <1>2 DEF Asks
  <2> HIDE DEF asked
  <2>2. held'[g] = asked
    BY <2>1
  <2>3. q = p => held'[g]
    BY <2>2 DEF asked
  <2>4. party'[g] = q /\ g \notin called' /\ handler'[g] = stage
    BY <1>2 DEF Asks
  <2> QED
    BY <1>2, <2>3, <2>4
<1>3. CASE Asks(g, "askSender", Sender(g))
  <2> DEFINE asked == Sender(g) \in agents
  <2>1. held' = [held EXCEPT ![g] = asked]
    BY <1>3 DEF Asks
  <2> HIDE DEF asked
  <2>2. held'[g] = asked
    BY <2>1
  <2>3. Sender(g) = p => held'[g]
    BY <2>2 DEF asked
  <2>4. g \notin called' /\ handler'[g] = "askSender"
    BY <1>3 DEF Asks
  <2> QED
    BY <2>3, <2>4 DEF Sender
<1>4. CASE FetchesTarget(g)
  BY <1>4 DEF FetchesTarget
<1>5. ASSUME NEW q, NEW known, ChargesInvoker(g, q, known), ~Knows(known, p, FALSE)
      PROVE  Harmless(g, p)
  <2>1. party' = [party EXCEPT ![g] = q]
    BY <1>5 DEF ChargesInvoker
  <2>2. ASSUME Asks(g, "askInvoker", q) PROVE Harmless(g, p)
    BY <1>2, <2>1, <2>2
  <2>3. ASSUME Knows(known, q, FALSE), Runs(g) PROVE Harmless(g, p)
    <3>1. party'[g] = q /\ q # p /\ handler'[g] = "flow"
      BY <1>5, <2>1, <2>3 DEF Runs
    <3> QED
      BY <3>1
  <2> QED
    BY <1>1, <1>5, <2>2, <2>3 DEF ChargesInvoker
<1>6. ASSUME NEW q, ZapsAuthor(g, q), Src(g) \in Reaction PROVE Harmless(g, p)
  <2>1. handler'[g] \in {"flow", "done"} /\ Src(g) \notin AgentReply
    BY <1>6 DEF ZapsAuthor, Skips, Runs, Reaction
  <2> QED
    BY <2>1
<1>7. CASE Runs(g) /\ UNCHANGED party /\ party[g] \in {Nobody} \cup (Pubkey \ {p})
  BY <1>7 DEF Runs
<1> QED
  BY <1>1, <1>3, <1>4, <1>5, <1>6, <1>7

\* An answer about a pubkey that is asked in time, and answered, does not deny it.
LEMMA AnswersDoNotDeny ==
    ASSUME StoreInv, NEW p \in AgentKey \ Unanswered, Protected(p),
           NEW g \in Flow, NEW q \in Pubkey, AsksAbout(g, q), NEW answer \in Answers(g, q),
           agentCache' = CacheSet(agentCache, q, answer)
    PROVE  ~Knows(agentCache', p, FALSE) /\ (q = p => answer)
<1>1. answer \in BOOLEAN /\ (q = p => answer)
  BY DEF Answers, Protected
<1>2. Entry(q, answer) \in AgentEntry /\ agentCache \in Seq(AgentEntry)
  BY <1>1 DEF Entry, AgentEntry, StoreInv
<1>3. \A i \in DOMAIN agentCache' :
          \/ agentCache'[i] = Entry(q, answer)
          \/ \E j \in DOMAIN agentCache : agentCache'[i] = agentCache[j]
  BY <1>2, SetKeepsCache
<1>4. Entry(q, answer) # Entry(p, FALSE)
  BY <1>1 DEF Entry
<1> QED
  BY <1>1, <1>3, <1>4 DEF Protected, Knows

\* Every step of a handler that has not called runZapFlow yet is harmless.
LEMMA HandlersAreHarmless ==
    ASSUME TriggerInv, NEW p \in AgentKey \ Unanswered, Protected(p), NEW g \in Flow,
           \/ HandleZapCommand(g) \/ HandleAgentReply(g) \/ HandleReaction(g) \/ QueryEnds(g)
    PROVE  Harmless(g, p) /\ ~Knows(agentCache', p, FALSE) /\ agents' = agents
<1>0. p \in agents /\ ~Knows(agentCache, p, FALSE) /\ RunTypes /\ StoreInv /\ RunOK(g)
  BY DEF Protected, TriggerInv, RunInv
<1>1. CASE HandleZapCommand(g)
  <2>1. party[g] = Nobody /\ g \notin called
    BY <1>0, <1>1 DEF HandleZapCommand, RunOK
  <2> QED
    BY <1>0, <1>1, <2>1, PartsAreHarmless DEF HandleZapCommand
<1>2. CASE HandleAgentReply(g)
  <2>1. g \notin called
    BY <1>0, <1>2 DEF HandleAgentReply, RunOK
  <2> QED
    BY <1>0, <1>2, <2>1, PartsAreHarmless DEF HandleAgentReply, FindsInvoker
<1>3. CASE HandleReaction(g)
  <2>1. g \notin called
    BY <1>0, <1>3 DEF HandleReaction, RunOK
  <2> QED
    BY <1>0, <1>3, <2>1, PartsAreHarmless DEF HandleReaction
<1>4. CASE SenderAnswered(g)
  <2>1. g \notin called /\ AsksAbout(g, Sender(g)) /\ Sender(g) \in Pubkey
    BY <1>0, <1>4, Names DEF SenderAnswered, RunOK, AsksAbout, Asking
  <2>2. ~Knows(agentCache', p, FALSE)
    BY <1>0, <1>4, <2>1, AnswersDoNotDeny DEF SenderAnswered
  <2> QED
    BY <1>0, <1>4, <2>1, <2>2, PartsAreHarmless DEF SenderAnswered, FindsInvoker
<1>5. CASE InvokerAnswered(g)
  <2>1. /\ g \notin called /\ AsksAbout(g, party[g])
        /\ party[g] \in Pubkey /\ UNCHANGED <<party, agents>>
    BY <1>0, <1>5, Names DEF InvokerAnswered, RunOK, AsksAbout, Asking
  <2>2. PICK answer \in Answers(g, party[g]) :
            /\ agentCache' = CacheSet(agentCache, party[g], answer)
            /\ (answer /\ Skips(g)) \/ (~answer /\ Runs(g))
    BY <1>5 DEF InvokerAnswered
  <2>3. ~Knows(agentCache', p, FALSE) /\ (party[g] = p => answer)
    BY <1>0, <2>1, <2>2, AnswersDoNotDeny
  <2>4. Harmless(g, p)
    BY <1>0, <2>1, <2>2, <2>3, PartsAreHarmless
  <2> QED
    BY <2>1, <2>3, <2>4
<1>6. CASE TargetFetched(g) \/ TargetNotFetched(g)
  <2>1. g \notin called
    BY <1>0, <1>6 DEF TargetFetched, TargetNotFetched, RunOK, Asking
  <2> QED
    BY <1>0, <1>6, <2>1, PartsAreHarmless DEF TargetFetched, TargetNotFetched
<1> QED
  BY <1>1, <1>2, <1>3, <1>4, <1>5, <1>6 DEF QueryEnds

\* A run that does not charge a protected pubkey never will.
Spared(f, p) == Protected(p) /\ ~(RunsReply(f) /\ party[f] = p)

\* A pubkey that is spared stays spared.
LEMMA SparedStays ==
    ASSUME NEW f \in ReplyRun, NEW p \in AgentKey \ Unanswered,
           TriggerInv, Spared(f, p), [TriggerNext]_allVars
    PROVE  Spared(f, p)'
<1>0. f \in Flow /\ RunTypes /\ Protected(p) /\ ~(RunsReply(f) /\ party[f] = p)
  BY DEF ReplyRun, TriggerInv, RunInv, Spared
<1>1. ASSUME NEW g \in Flow,
             HandleZapCommand(g) \/ HandleAgentReply(g) \/ HandleReaction(g) \/ QueryEnds(g)
      PROVE  Spared(f, p)'
  <2>1. Alone(g)
    BY <1>0, <1>1, HandlersAreAlone
  <2>2. Harmless(g, p) /\ ~Knows(agentCache', p, FALSE) /\ agents' = agents
    BY <1>0, <1>1, HandlersAreHarmless
  <2>3. ASSUME NEW h \in Flow PROVE held'[h] \/ ~AsksAbout(h, p)'
    BY <1>0, <2>1, <2>2, <2>3 DEF Alone, Harmless, Protected, AsksAbout, Sender
  <2>4. ~(RunsReply(f)' /\ party'[f] = p)
    BY <1>0, <2>1, <2>2 DEF Alone, Harmless, RunsReply
  <2> QED
    BY <1>0, <2>2, <2>3, <2>4 DEF Spared, Protected
<1>2. ASSUME NEW g \in Flow, FlowInsertsRow(g) PROVE Spared(f, p)'
  BY <1>0, <1>2 DEF FlowInsertsRow, InsertRow, triggerVars, Spared, Protected, AsksAbout,
     RunsReply, Sender
<1>3. CASE TriggersDie
  <2>1. ~Knows(agentCache', p, FALSE)
    BY <1>3 DEF TriggersDie, EmptyCache, Knows
  <2>2. ASSUME NEW h \in Flow PROVE ~AsksAbout(h, p)'
    BY <1>0, <1>3 DEF TriggersDie, AsksAbout
  <2> QED
    BY <1>0, <1>3, <2>1, <2>2 DEF TriggersDie, callVars, Spared, Protected, RunsReply
<1>4. CASE \/ \E q \in AgentKey : PublishProfile(q)
           \/ \E c \in LinkCommand : HandleLink(c)
           \/ \E m \in Message \ Source : HandleOtherMessage(m)
           \/ UNCHANGED allVars
  <2>1. UNCHANGED <<called, agentCache, handler, held, party>> /\ agents \subseteq agents'
    BY <1>4 DEF PublishProfile, HandleLink, HandleOtherMessage, allVars, triggerVars, callVars
  <2> QED
    BY <1>0, <2>1 DEF Spared, Protected, AsksAbout, RunsReply, Sender, Knows
<1> QED
  BY <1>1, <1>2, <1>3, <1>4 DEF TriggerNext

\* An agent whose profile was there before the bot first asked for it is charged by
\* no reply from then on, if queries about it are answered.
THEOREM AgentsAreSpared == TriggerSpec => AgentIsSpared
<1>1. ASSUME NEW f \in ReplyRun, NEW p \in AgentKey \ Unanswered
      PROVE  TriggerSpec =>
                 []((p \in agents /\ ~HasKey(agentCache, p) /\ ~Asked(p) /\ f \notin called)
                        => []~(RunsReply(f) /\ party[f] = p))
  <2>1. (p \in agents /\ ~HasKey(agentCache, p) /\ ~Asked(p) /\ f \notin called) => Spared(f, p)
    BY DEF Spared, Protected, HasKey, Knows, Entry, Asked, AsksAbout, RunsReply
  <2>2. TriggerInv /\ Spared(f, p) /\ [TriggerNext]_allVars => Spared(f, p)'
    BY SparedStays
  <2>3. Spared(f, p) => ~(RunsReply(f) /\ party[f] = p)
    BY DEF Spared
  <2> QED
    BY <2>1, <2>2, <2>3, TriggerSafety, PTL DEF TriggerSpec
<1> QED
  BY <1>1 DEF AgentIsSpared
=============================================================================
