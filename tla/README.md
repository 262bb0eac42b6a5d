# A formal model of buzz-zaps

buzz-zaps is a bot that sits in a Buzz (Nostr) channel and moves sats: a
`/zap` command, a reaction, an agent's reply or a merged pull request makes it
ask a LaWallet server for a Lightning invoice, post the invoice in the channel,
wait until somebody has paid it, and publish a receipt (kind 9735). It holds no
money; what it holds is the record of what was asked, paid and attested. This
directory models that bookkeeping in TLA+, checks it with TLC and proves the
main results with TLAPS.

Paths are relative to the repository; `src/bot/zap-flow.ts` and so on.

## 1. Inventory

The process is one Node event loop per bot. Between two `await`s a handler runs
without interruption; at every `await` any other handler may run. SQLite calls
(`better-sqlite3`) are synchronous, so each is part of the stretch it stands in.

| Component | State | Operations | Talks to | Correct when |
|---|---|---|---|---|
| Zap flow, `bot/zap-flow.ts` | where each execution is | `runZapFlow`, `handleChannelMessage` | LaWallet, relay, zap store | one invoice per event, receipts follow money, rows follow receipts, every execution ends |
| Fee middleware, same file, `db/fees.ts` | a second invoice and its row | `chargeFeeIfConfigured` and its background watcher | LaWallet, relay, fee store | never in the way of the zap, booked only on its own payment |
| LaWallet client, `lightning/lawallet-client.ts` | none | `requestInvoice`, `pollUntilSettled` | LaWallet over HTTP | a poll ends settled or at its deadline |
| Zap store, `db/store.ts` | table `zaps`, `source_event_id` UNIQUE | `insertPending`, `markPaid`, `markExpired`, `hasSourceEvent` | SQLite | one row per event, a row is closed once |
| Bounties, `bot/bounty-flow.ts`, `db/bounties.ts` | table `bounties` | `/bounty`, merge status event, `/retry-bounty` | relay queries, zap flow | closed only by a payment, to an eligible author, once and for good |
| Links, `bot/link-flow.ts`, `db/links.ts` | table `user_links` | `/link` | - | a pubkey has only names it signed |
| Agent trigger, `bot/task-completion-flow.ts` | two caches | `handleAgentReply` | relay queries, zap flow | charges, once, the author of the message an agent answers, unless that is known to be an agent too |
| Reaction trigger, `bot/reaction-flow.ts` | author cache | `handleReaction` | relay queries, zap flow | zaps the linked author, never oneself |
| Caches, `bot/message-author-cache.ts`, `bot/agent-cache.ts` | bounded maps | `get`, `set` | - | bounded, never a wrong entry |
| Relay queries, `bot/relay-client.ts` 154-312 | timer, subscription, promise of each call | `hasAgentProfile`, `fetchEventById`, `fetchChannelAdmins`, `hasMergeStatusEvent` | relay | end, fail closed, never stale, leave nothing behind |
| Connection and subscriptions, `bot/relay-client.ts` 6-147, `index.ts` 89-185 | connection, two subscriptions, `isShuttingDown` | connect, authenticate, subscribe, resubscribe | relay | the feeds come back after a loss, each of them once, and miss nothing |
| Start and shutdown, `index.ts` 201-250 | the communities that run | `main`, `partitionStartResults` | all of the above | one bad community does not stop the others |
| Admin report, `admin/` | none | reads of four tables | the stores of a running bot | - (reads only) |
| Configuration, parser, builders, logger, scripts | none | pure functions | - | - |

How they interact: the relay pushes events into the two subscriptions; `index.ts`
starts every handler for every event without waiting for any of them (`void
handle...().catch(...)`), so handlers of one event and of several events
interleave freely. All triggers end in `runZapFlow`. Events are redelivered after
a reconnection, after a resubscription (which starts from the beginning) and
after a restart; nothing remembers which events were handled except the `zaps`
table.

What is hard here: the same event running twice through code with several awaits;
copies of a row carried over those awaits; a publish whose rejection says nothing
about whether the relay has the event; polls that race their deadline; a process
that may die at any await and never looks for what it left pending. `hazards` in
`PROJECT.json` lists them line by line with the property that is to catch each.

## 2. Modules

| Module | What it is |
|---|---|
| `Executions` | what a run of a handler, and of the flow, is called: <<source event, delivery>> |
| `ZapLedger` | abstract specification: what is promised about one event - recorded at most once, settled, attested, closed, never both attested and expired |
| `ZapCall` | abstract specification: what a caller may know of `runZapFlow` - an execution is called once, and one of each event inserts the row |
| `ZapFlow` | `runZapFlow` with the fee middleware, the poll loops, the zap and fee tables, the wallet, the payers, the relay and crashes; refines `ZapLedger` and `ZapCall` |
| `BountyFlow` | the bounty handlers and table, in front of `ZapFlow`'s variables (`EXTENDS ZapFlow`): a payout enters the flow with `RunZapFlow` and its last step closes the bounty |
| `Triggers` | the other handlers of the channel feed - `/zap`, `/link`, agents' replies, reactions - with the two caches, in front of `ZapCall` |
| `ChannelBot` | `Triggers` and `ZapFlow` in one process: from an event of the channel feed to its receipt |
| `BoundedCache` | the class both caches are: a bounded map that drops its oldest key |
| `Lookup` | abstract specification: what is promised of a one-shot query - it acts as one look at the relay between its call and its end |
| `RelayQuery` | the four one-shot relay queries, event against EOSE against timer against CLOSED against reconnection; refines `Lookup` |
| `Community` | the process from start to end: every community's connection, authentication, subscriptions and resubscriptions |
| `ZapFlowProofs`, `ZapLedgerProofs`, `BountyProofs`, `RelayQueryProofs`, `TriggerProofs`, `ChannelProofs`, `CommunityProofs` | theorems and proofs |
| `MCZapFlow`, `MCBountyFlow`, `MCRelayQuery`, `MCTriggers`, `MCChannelBot`, `MCCommunity` | values for the constants |

How they compose:

    Community    events reach the handlers, any number of times, in any order
       |
    Triggers ----> ZapCall <---- ZapFlow ----> ZapLedger
       |    \                  /   ^
       |      +-- ChannelBot --+    |
       |                         BountyFlow
    RelayQuery (answers) ----> Lookup

`Triggers` implements `ZapCall` (`TriggersImplementCalls`) and so does `ZapFlow`
(`FlowImplementsCalls`): the flow assumes nothing of its callers, and a caller
relies on nothing but the row. `ChannelBot` puts the two together, and shows that
each of them is there what it is by itself (`ChannelRunsFlow`,
`ChannelRunsTriggers`); it states what neither can say alone, that an invoice in the
channel has a reason and that a reply costs one. `BountyFlow` is a caller of its own
and stands in front of the flow in the same way (`BountyImplementsZapFlow`).
`Triggers` takes from `RelayQuery` what a query may resolve to (`Answers`: a
profile that was there when it was asked for is found unless the query times out,
which is `NothingIsMissed`; `Lookup` says the same for every query) and that it
ends (`EveryCallEnds`). That the handlers may see an event at any time and several
times over is what `Community` allows: `Resubscribes` starts from the beginning.

Next to some operations stands a variant of them with one plausible mistake
(`RowNeverFound` beside `RowExists`, `ChargesWhomever` beside `ChargesInvoker`). No
specification uses them: put in the place of the operation, each makes a property
fail, which shows that the property depends on it (`mutants` in `PROJECT.json`).

### ZapFlow and the code

An execution is a pair <<event, delivery>>. Its `pc` names the await it is at:

| `pc` | await in `zap-flow.ts` |
|---|---|
| `request` | `requestInvoice` (145) |
| `failedReply` | reply that there is no invoice (149) |
| `invoiceReply` | reply with the invoice (164) |
| `feeRequest`, `feeReply` | fee invoice (86), reply with it (96) |
| `poll` | `pollUntilSettled` (180) |
| `receipt` | publish of the receipt (201) |
| `expiredReply`, `paidReply` | last replies (185, 205) |
| `paid`, `expired`, `invoice_failed` | the `ZapOutcome` returned |
| `threw`, `killed` | an exception reached `index.ts`; the process died |

A publish has two moments: the relay has the event (`RelayAccepts`, recorded in
`published`) and its OK is back (the action guarded by `Acked`). It may be
rejected on either side of the first (`PublishRejected`), which is what makes the
rows hard to keep true. `poll` is the loop of `pollUntilSettled` for each
invoice, at its check or in its sleep, and `late` the invoices whose deadline has
passed: the loop looks at the deadline only between a sleep and the next check.
`RunZapFlow` assumes nothing of its caller, so the results hold for every
trigger, whatever it asked the table some awaits before. `zaps` and `fees` are
indexed by the execution that inserted the row, `RowExists` is the UNIQUE key
and `hasSourceEvent` at once. Nothing restarts an execution after `Crash`: no
code looks for rows left pending.

What goes wrong in the environment is chosen for each event by the constant
`Faults`: `invoice` (any refusal or error of `requestInvoice`), `publish`, `verify`
(an HTTP error while polling). `MayDie` allows a crash, which is also what the
shutdown of `index.ts` 235-247 is to the executions under way.

### BountyFlow and the code

The sources are merge status events and `/retry-bounty` commands on a target.
`handler` is where the handler is before `runZapFlow`: `mergeCheck`
(`hasMergeStatusEvent`, 177) and `fetchPr` (`fetchEventById`, 79). `promise` is
the `Bounty` object a handler carries from `getOpen` (133, 171) to the payment.
`RegisterBounty` is a `/bounty` whose sender is an admin; what the admin gate
rejects does not happen. It may be handled repeatedly and in any order, since the
relay replays commands. `PayoutRuns` is any step of the flow joined with the
closing of the bounty when the outcome is `paid`, which happens in the same turn
of the event loop. Replies of the two commands change nothing and are left out. The sats a
payout asks for are those of its source, not of `promise`: only whether there is a
fee depends on them.

### Triggers and the code

A run <<event, delivery>> is one handler at work on one delivery; a message that
is both a `/zap` and a reply is two runs, as it is two handlers in `index.ts`
(119, 135). An action is the stretch between two awaits:

| `handler` | await |
|---|---|
| `askSender` | `resolveIsAgent` of the sender (`task-completion-flow.ts` 64) |
| `fetchTarget` | `fetchEventById` of the target (68; `reaction-flow.ts` 46) |
| `askInvoker` | `resolveIsAgent` of the invoker (82) |
| `flow` | `runZapFlow` (92; 71), which goes its own way: `FlowInsertsRow` |

`party` is `invokerPubkey` or `authorPubkey` and `payee` the username read at
`reaction-flow.ts` 60. `held` remembers whether the relay had the profile when it
was asked for, which decides what the answer may be. `BoundedCache` keeps
the order of the keys because eviction depends on it, and evicts as `set` does:
before it looks whether the key is there. `HandleOtherMessage` is any other
message of the channel, whose author is remembered. `/link` commands are handled
repeatedly and in any order, as the relay replays them. Rule and emoji matching
are left out: the sources are the events that match. `TriggersDie` empties the
caches and ends the runs; the tables stay.

### ChannelBot and the code

Nothing is modelled a second time: the variables are those of `Triggers` and of
`ZapFlow`, and every action joins actions of theirs. A handler's last stretch runs
into `runZapFlow` up to its first await (`CallsFlow`: the handler's step and
`RunZapFlow` are one step, or the handler does not call). From there the flow's steps
are its own (`FlowRuns`), and the row it inserts is the one `hasSourceEvent` reads
(`RowsAppear`): both are the one table of the community. `BotDies` takes handlers,
caches, executions and polls in one step. A reply's charge goes to `service_username`
and a `/zap` to whom it names, so neither has a `payee`; that name, and what the
message says, no property is about.

### Community and the code

`stage` follows `startCommunity` and `connectAndAuthenticate` (`connect`,
`challenge`, `auth`, then `online` or `failed`), `process` follows `main`. `conn`
and `sub` are the external part, nostr-tools and the relay, as
`relay-client.ts` 31-46 and `index.ts` 91-102 describe them: a dropped connection
is opened again for ever, each subscription still tracked is sent again at once,
with `since` its `newest` event (`refired`), a REQ that arrives before the
AUTH is answered with CLOSED, and a closed subscription is forgotten. What the bot
does about it is `SubClosed` (the timer) and `Resubscribes` (a new subscription
with the filter of the first, hence everything again). An event is one number,
its place in time; the relay sends what it owes in any order.

`isShuttingDown` has no variable: `shutdown` sets it, closes the relay and calls
`process.exit` in one stretch, so `Shutdown` is one action after which no
subscription, timer or handler exists. `watchConnectionState` only logs.

`Refusing` are the communities whose relay may be unreachable, send no challenge or
reject the authentication; a community whose connection has dropped during its start may
fail the same way (`MayGoWrong`). `KeepsOrder` are those whose relay answers a REQ it got
before the AUTH first. For the others an event can be lost for good: a
replay that comes newest first and is cut off is resumed `since` the newest event,
and what is older never arrives. `NoEventIsMissed` is therefore stated for `KeepsOrder`.

### RelayQuery and the code

One module for four functions that differ in one point: three resolve on the
first event, `fetchChannelAdmins` (`Admins`) keeps the newest and waits for EOSE.
The relay side is external and deliberately generous: events arrive in any order,
new ones while the stored ones are being sent, several for one filter, two within
one second; the connection is lost and the library asks again from the last event
on (`relay-client.ts` 31-46). Taken for granted: EOSE follows the stored events.
A library that reports EOSE on a timeout of its own does what `OnTimer` does
for the three lookups; for the admin list it would be a weaker answer than the
one modelled.

`ImplementsLookup` maps a query to its `Lookup`: `posted` is what was signed for its
filter, `before` all that was signed by the call, which the relay can tell by the
newest event it holds (of a replaceable list it keeps only that), and `answer` what a
call that is over found. A query that its timer or a CLOSED ends is one that gives up.

## 3. Runs

| Run | Question | States |
|---|---|---|
| `MCZapSafety` | one event, three deliveries, all faults, the least fee: types, the safety properties, and every step is a step of the ledger and of the call interface | 80 080 (symmetry on deliveries) |
| `MCBountyRace` | merge event against retry against two admins' commands, refusals, rejections, a crash: a bounty is closed only by an attested payment to an eligible author, and for good; a payout with a receipt closes it | 34 856 |
| `MCBountyRedelivery` | a merge event twice: no second invoice after the row, no exception but against that row, a seen payment closes the bounty (without a crash, because that is liveness; with one, `RedeliveryMintsNothing` is proved) | 1 516 |
| `MCTriggers` | two replies, two reactions, caches of two, two links, timeouts, a crash: who is charged and zapped, and what the caches hold | 157 664 |
| `MCChannelFeed` | triggers and flow together, caches of one: a reply that charges for the fee wallet, with every fault but a crash, a reaction whose zap has a fee and whose invoices may be refused: no invoice without a reason, none to an agent seen in time, no fee that is not due, every delivery comes to an end, every pending row is looked after; of the reaction every row is closed and every seen payment is recorded | 98 588 |
| `MCChannelReplay` | one reply delivered twice, caches of one, every fault, a crash: with its row in the table the other delivery starts and mints nothing, and an agent seen in time is spared | 24 264 |
| `MCRelayQueries` | an admin lookup and an existence lookup, three events per filter: current, nothing missed, nothing left, a timer for whoever waits, every call ends, and each is one look at the relay | 86 973 |
| `MCCommunity` | a community that works and one that may refuse, drops, CLOSED, a forged event: the start ends, failures are contained, feeds come back once and miss nothing, and a live one owes what it has not handed over | 74 076 |

Types are checked by `MCZapSafety` for the flow; the types of the other modules
(`BountyTypeOK`, `TriggerTypeOK`, `CommunityTypeOK`, `TypeOK` of `RelayQuery`) are
theorems, proved for every instance.

Runs that end in a counterexample, each against a line of the repository:

| Run | The repository says | The code does |
|---|---|---|
| `MCZapFeeAborts` | a fee invoice failing "must never affect the main zap" (`zap-flow.ts` 61) | the fee reply (96) is awaited outside the `try`; when its publish is rejected the execution throws and the main invoice, already posted, is never polled |
| `MCZapPollGivesUp` | "until settled or timeoutMs elapses" (`lawallet-client.ts` 91) | one failing verify request throws out of the loop, the row stays pending |
| `MCBountyTwice` | `/retry-bounty` retries a bounty "que sigue `open`" (`README.md` 193) | both handlers read the open row first and pay later |
| `MCAgentCharged` | an invoker with an agent profile is ignored, "evita cobrar cadenas agente-a-agente" (`README.md` 251) | a profile query that times out counts, and is cached, as "not an agent" (`task-completion-flow.ts` 30) |

Bounds. Executions of different events share nothing but the process, so one
event with several deliveries is where the flow can go wrong; three deliveries
are one more than the two that race. For bounties one target, one merge event and one
retry are the smallest race; two commands (`OfBoth`) differ in their creator. In
`RelayQuery` three events (`MaxEvents`) are the fewest for an old one, and two of the same second, to be reordered; the calls interact only
through the relay. Caches of one entry
(`MCChannelFeed`, `MCChannelReplay`) and of two (`MCTriggers`) are smaller than the
messages and the pubkeys that go through them, so that each run evicts and asks
again; the author of the target is one of the two pubkeys that may be agents (in
`MCTriggers` with two names), and one pubkey and one message (`Unanswered`) may time out.
`MCChannelFeed` has two events, because fairness matters there and executions could
starve each other: the zap of one has a fee, the other goes to the fee wallet and has
none (in `MCChannelReplay` it is the fee that rounds to none). It has
one delivery of each, and these share the caches. A crash is left to the safety
runs: it ends what it interrupts. Deliveries of one event meet in the row alone, and
`MCChannelReplay` has two of these and the crash between them. The reply that is a
`/zap` too is in `MCTriggers`; for the two halves together, `InvoicesAreDue` is proved
with it. In `Community` three events are the fewest for a replay to be cut off with one received
and one still owed on either side of it, and two faults (`MaxFaults`) let a drop follow
a CLOSED and a CLOSED follow a drop; a CLOSED for a missing AUTH is not counted. One
feed per community: the two subscriptions share nothing but the connection
(`OneSubscription` is proved for any number). `MCZapSafety` uses
symmetry on deliveries; it has no liveness property. All runs turn the deadlock check
off because the bot may truly stop: every execution is over, everything is answered,
no event comes, or the process has ended.

Fairness. `ChannelFairSpec` gives weak fairness to what the bot does by itself in each
delivery (`FlowStep`, and the handlers' steps with the end of their queries), to the
polls of each invoice (`PollStep`) and to the clock (`DeadlinePasses`): promises of
`fetch` and of the publish settle, timers fire, and queries have timers, which
`RelayQuery` shows to suffice (`EveryCallEnds`, with fairness for the timer alone).
There is none for a payment, a fault, a crash or a delivery. `BountyFairSpec` is the
same for the handlers of bounties. `TriggerFairSpec` has the end of the queries alone:
the counterexample of `MCAgentCharged` needs no more.
`FairSpec` of `Community`: `main` goes on, the awaits of the start give up in time
where they must (the challenge has a deadline in the code, the connection and the
authentication one in nostr-tools), the library reconnects for ever, the two-second
timer fires, and a relay that is not `Refusing` answers and sends what it owes. None for a
fault, a signal or a post, and none for the answers of a relay that refuses.

## 4. Proofs

All theorems hold for any sets of events, deliveries, targets, calls, filters,
messages, pubkeys, communities and feeds and any size of the caches;
the assumptions are the named `ASSUME`s of the modules: positive amounts,
`fee_bps` at most 1000 (the schema in `config.ts`), `created_at` growing with the
order of signing, a `Nobody` that is no pubkey, and consistent constants.

- `ZapFlowProofs`. `SafetyInv` is inductive. The properties alone are not:
  `ReceiptBacked` needs to know that an execution at its receipt has seen a
  settled invoice of its own (`ReceiptAtPc`), which row each `pc` goes with
  (`RowAtPc`), that a polled invoice was posted (`PolledAtPoll`, `PostedHasRow`),
  what the fee has (`FeeAtPc`), and that an event has one row (`OneRow`). One step
  per action shows that the parts survive it. `AtMostOneInvoice`, `ReceiptBacked`,
  `PaidIsAttested`, `OutcomeMatchesRow` and `FeeBacked` follow. `FeeIsSmall` is
  the arithmetic of the fee. `NoRowIsForgotten` and `ExceptionsAreExplained` are
  inductive once `SafetyInv` says what row an execution has at each await: a pending
  row is left behind by three ways to throw and by a death, and by nothing else
  (`OnlyTheseThrow`). This is what `RowsClose` needs besides fairness.
- `ZapLedgerProofs`. Under `SafetyInv` every step of the flow maps to a step of
  the ledger or leaves it alone (`FlowImplementsLedger`), and to a step of the call
  interface or leaves that alone (`FlowImplementsCalls`).
- `BountyProofs`. `BountySpec => Spec`: the bounty handlers are one more caller of
  the flow, so what is proved of the flow holds of payouts. With it, `BountyInv`
  carries the guards over the awaits: a copy of a promise that was checked stays
  eligible, since links and merges are never taken back and the copy does not
  change. `ClosedBountiesAreAttested` and `PayoutsAreEligible` follow.
  `PaidForGood` and `RedeliveryMintsNothing` speak of all that comes after a state;
  both follow from one predicate that no step undoes: `Barred`, a trigger whose handler
  has not got past its guard while the bounty is closed or the merge event has a row.
  It rests on `BarsStay` (a closed bounty is never reopened, no row is ever deleted) and
  on `OthersRun` (no other execution starts this one or mints its invoice).
  `ReceiptClosesBounty` is the safety half of `SeenPaymentClosesBounty`: only the report
  of a payment makes an execution's outcome `paid` (`OnlyReportsEndPaid`), that step
  closes the bounty, and nothing opens it again.
- `RelayQueryProofs`. `QueryInv` accounts for calls that wait: whatever the relay
  held at the start is no newer than what the call has or is still to be sent
  (`Accounted`), a re-opened subscription asks from an event the call has seen
  (`AsksFromSeen`), and the newest event is always held (`NewestIsHeld`).
  `QueriesImplementLookup` maps each step of a query to one of `Lookup` or to none: an
  event that resolves a call finds, an EOSE finds the newest or nothing, a timer gives
  up, and all that goes on between the relay and the library is not to be seen.
  `HeldAccountsForSigned` is what makes a replaceable list comparable with all the lists
  that were signed. `QueriesHaveTimers` is the safety half of `EveryCallEnds`.
- `TriggerProofs`. First `BoundedCache`: `SetKeepsCache` shows, for every size, that
  a cache stays within its size with one value per key and holds nothing it did not
  hold or was not given. `TriggerInv` then has two parts. `StoreInv` is about the caches
  and tables: every author in the cache is the signer, every agent in it has a profile,
  every link was signed. `RunInv` is about each run by itself (`RunOK`): at an
  await after the sender was resolved the sender has a profile, and the party, once
  known, wrote the target and is neither the sender nor the bot. `ChargesAreDue` and
  `ZapsGoToTheAuthor` speak of runs that have called and are not inductive without what
  a run knows at its awaits. `OneRunKeeps` reduces every handler's step to its own run.
  `RedeliveredReplyIsIgnored` and `AgentIsSpared` are proved from a stable predicate
  too: `Ignored`, and `Spared`, where a pubkey is `Protected` as long as the cache does
  not deny it and whoever asks about it asked when its profile was already there.
- `ChannelProofs`. What ties the two halves together is `Linked`: the triggers see the
  flow's calls and rows as they are, and an execution that is under way has a handler
  that called it in this life of the process. It is inductive only together with
  `SafetyInv`, `TriggerInv` and `ReasonGiven` (a handler at an await has not called yet;
  one that has called has found out for whom, or was told by a command), and each of
  these needs the step of the whole to be a step of its own half: so `ChannelInv` is
  proved at one go, with `BotRunsFlow` and `BotRunsTriggers` showing the two
  simulations under it (a step of the flow is to the triggers a row that appears, or
  nothing: `FlowIsSeen`). `ChannelRunsFlow` and `ChannelRunsTriggers` follow, and with
  them everything proved of either half. `InvoicesAreDue` then goes back from the
  message on the relay to the row, the execution, the call and its reason, for an agent
  seen in time with `Spared` of the triggers, and for a fee to the check that found it
  due (`FeesWereDue` of the flow). `RepliesMintOnce` joins `Ignored` of the triggers with `NothingMinted` of the flow.
- `CommunityProofs`. `CommunityInv` states the three properties one subscription at a
  time (`EventsOK`, `FeedOK`), so that each step has to be looked at for its own feed
  only, and adds what ties `stage` to `conn` (`StartOK`): while the process runs, a
  community past its connect has a connection, up or down, so that its subscriptions
  are kept over a drop and a timer that fires finds something to subscribe on.
  `FeedsLoseNothing` adds `ReplayInv`: a live subscription still owes whatever is newer
  than what it has received; where the relay keeps the order, whatever it has not handed
  over, because there a subscription the library sends again is closed before the AUTH,
  and the bot's own start from the beginning. It is the safety half of `NoEventIsMissed`.

Checked by TLC only: the liveness properties (`RowsClose`,
`SeenPaymentIsRecorded`, `SeenPaymentClosesBounty`, `EveryCallEnds`, `TriggersEnd`,
`StartEnds`, `HealthyCommunityStarts`, `FeedsComeBack`, `NoEventIsMissed`), which rest
on fairness and are out of the prover's reach. What they rest on besides fairness is
proved where it is more than a guard: `NoRowIsForgotten`, `ReceiptClosesBounty`,
`WaitersHaveTimers` and `NothingSlipsThrough`. Every other property of the passing runs
is a theorem.

## 5. Not modelled

- Configuration, command parser, message and receipt builders, logger, key
  generation: pure functions of their input, without state.
- The admin report and server: reads only. The counts are taken one after another
  while the bot writes, but nothing promises that they are of one moment.
- HTTP, signatures, SQL: an operation of theirs succeeds or fails as a whole.
- A failing SQLite write, and an invoice minted although its answer is lost: in
  both the execution throws or reports a failure as modelled, and nobody has seen
  the invoice.
- Two communities given the same `db_path`, or the same relay and channel: the
  configuration refuses only equal names. Each community is modelled with stores of its own.
- nostr-tools and the Buzz relay are external: modelled as the comments in
  `relay-client.ts` and `index.ts` describe them.
- The whole bot is not one product. `ChannelBot` has the channel feed and the flow
  together, `BountyFlow` the bounties and the flow; the two share only the `zaps` table,
  in which their events differ. Queries reach them as answers (`Lookup` is what is
  promised of these), and the delivery of events (`Community`) is taken as arbitrary.
