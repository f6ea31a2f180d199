# Utter in TLA+

Utter lets creators publish paid HTTP resources. A buyer deposits USDC in an
escrow contract, signs one authorization per call (x402), and the resource's
payment gate reserves, runs the handler, and settles what the call cost. Around
that path sit bonds and slashing, spend caps, batching, the deployer and its
sandboxes, a scorer, and two applications.

This directory holds TLA+ models of the parts where order, failure or arithmetic
decide whether money is right, the TLC configurations that check them on small
instances, and TLAPS proofs of what is most important. `PROJECT.json` lists
runs, mutants, hazards and, for each definition, the source lines it models.

    tlc -workers 2 -config MCPaymentEscrow.cfg MCPaymentEscrow
    tlapm PaymentEscrowProofs.tla         # ServicesProofs takes about a quarter of an hour

Paths below are relative to `src/`.

## 1. The system

### Contracts (`contracts/src`)

| Part | State | Operations | What makes it correct |
|---|---|---|---|
| ResourceRegistry | resource records (creator, treasury, split, active, bond mirror), one pending slash each | register, updateSplit, pause, authorizeSlash, cancelSlash, consumeSlashAuthorization, recordBond | a slash is executed at most once, only after its own dispute window; nobody can register shares to address(0) |
| PaymentEscrow | buyer balances, used nonces, USDC held, the one admin that may debit | deposit, withdraw, debit, setAdmin | solvency; a nonce charged at most once, never above the signed cap; only the payer's consent lowers a balance |
| StakingVault | bonds, owners, cooldowns, insurance pool | bondDeposit, requestWithdraw, withdraw, slash, refund | bonds plus pool equal the USDC held; a bond leaves only to the pool or, after the cooldown, to its owner |
| PaymentSplitter | an updatable split | distribute, updateSplit | the whole balance is paid out, dust included |
| ERC-8004 mocks | write-once entries | register, giveFeedback, respond | an entry is never changed |

The vault consumes the registry's slash authorizations (a call inside its own
transaction); the escrow reads the registry's split at the moment of the debit,
not of the signature. Both are single transactions: what interleaves is whole
calls by different accounts.

### The paid call

`packages/x402-arc/src/gate.ts` (in the resource's own process) talks HTTP to
`services/facilitator` (one process, with a relayer key), which keeps Redis keys
(reservations with a TTL, spent markers, the buyer lock, settle transactions)
and Postgres rows (payments, results, revenue), and talks to the escrow over RPC.

    gate: challenge -> POST /verify -> handler -> classify -> POST /settle | /release -> answer
    /verify: buyer lock [ balance - reservations, nonce pending?, used?, spent? ] reserve
    /settle: reservation? -> result? -> stored result? -> debit -> wait -> mark spent -> store -> revenue

Hard: every `await` is a place where another request, another handler of the
*same* payment, the buyer (withdraw), a creator (pause), the clock or a crash
may come in; replies get lost; keys expire; a mined transaction may have
reverted. Correct when: one payment buys one answer and at most one debit, no
answer is paid for without a debit and no debit is taken without a reservation,
every call is answered, and reservations come back.

### Services and packages around it

| Part | State | Operations and hard behaviour | Correct when |
|---|---|---|---|
| Spend cap (`facilitator/src/spend-cap-gate.ts`, `stores/spend-cap-redis.ts`, `data-proxy/src/spend-cap.ts`) | per payer, the spends of the last 24 h | hold around the reserve, refund when it is refused; two stores; clocks read before the store call | no window above the cap, refunds complete, no unjustified denial |
| Batching (`batch-settler.ts`, `batch-ledger.ts`, `batch-route.ts`) | open batch and its sequence (memory), ledger, results | accrue below a threshold, flush by size or age, carry dust; overlapping flushes, thrown calls, reverted debits, restart | nobody overcharged, no accrued debit lost, a batch left only once a transaction for it was mined |
| Relayer pool (`relayer.ts`) | round-robin index; nonces are the library's | pick a signer | every configured signer may debit |
| Staking drivers (`packages/staking`) | idempotency marks of refunds, per window | read, submit, mark; runs that overlap or stop half way | a payment refunded once per window |
| AI scorer (`packages/ai-scorer`) | strike counters | probe without paying, strike, deactivate; overlapping ticks, apply failures | inactive after the limit of consecutive failures, and only then; handed over once |
| Deployer (`services/deployer`) | records, slug owners, containers, networks, routes, slots | census, record, launch, route, verify, record; the tick beside it; recovery of gates by a script | a slug's containers are its owner's; a launch is not torn down under a deploy; nothing stays deploying, no slot held, no orphan |
| Orchestrator (`services/orchestrator`) | warm pool, runs, idle times | schedule, top up, reap, drain | a sandbox never serves two schedules, and idle ones go, or are dropped by a stop that failed |
| Data proxy (`packages/data-proxy`) | call and byte quotas | allowlist, quota, two looks at DNS, pinned fetch | no connection beyond the quota or to an unchecked address |
| Buyer SDK (`packages/buyer-sdk`) | budgets of the MCP server | reserve the cap of the card read at start-up, pay by the card as it is now, commit or release; fund the escrow | holds, and what was charged within them, stay in the budget; funded once |
| Marketplace (`apps/marketplace`) | index, cards, review queue | publish with or without a claimed creator, review, take down; a test runner that pays | a listing keeps its creator; a takedown is complete |
| AI runtime (`packages/ai-runtime`) | an untrusted directory, a best bundle | ask an agent, validate, ask for repairs, start again | ends; accepts only what is whole |
| Studio (`apps/studio`) | build slots, rate windows, listing memo, build streams; the state of its forms | admit, build, stream; pay, deposit, withdraw, reclaim a bond | ceilings hold, readers are released, forms report what became of the money |
| Observability (`packages/observability`) | shutdown phase | drain, stop the loop, close, exit | clients closed after their last user; the process exits |
| Treasury, cost, sandbox, plugin generator, infrastructure | none that changes in an order that matters | burns and payouts without a caller; arithmetic; arguments; text | - |

Two kinds of interaction matter: components call each other over HTTP or RPC and may get
no answer (gate and facilitator, buyer and gate, deployer and Docker, studio and deployer),
or two activities of one Node process share its memory or a store (a tick beside
a request, work that outlives its deadline, a reader beside a build). In both, what
interleaves is the code from one `await` to the next.

## 2. Plan

All modules of the plan are built. In order: the contracts with the abstract
`PaymentPromise` (`ResourceRegistry`, `PaymentEscrow`, `StakingVault`) and their
proofs; the paid call (`Facilitator`, `Reservations`); `SpendCap`, `Batching`; then the hosting
side (`Deployer`, `Recovery`, `Orchestrator`, `Shutdown`, `Generation`,
`BuildStream`), the services that count and list (`Refunds`, `Scoring`,
`BuyerBudget`, `DataProxy`, `Marketplace`, `Admission`, `PaymentSplitter`), and those
who pay and move their own money (`PayPage`, `Wallet`).

The proofs follow the same order, in eight modules (section 7): sums over finite
sets, the contracts, the paid call, its reservation, what the facilitator counts, the other
services, the hosting side. Every safety property that a run checks and that holds is now
proved. What is left to prove is in no run yet: a theorem about a new
component goes into the module of its neighbours.

## 3. Modules and code

| Module | Models | State corresponds to | Actions correspond to |
|---|---|---|---|
| `ResourceRegistry` | ResourceRegistry.sol | `resources`, `pendingSlashes` mappings, `now` = block.timestamp | each external function, with its sender |
| `PaymentEscrow` | PaymentEscrow.sol over the registry | `balanceOf`, `usedNonce`, `admin`; `usdcOf` is the token's ledger, `debited` the Debited log | deposit, withdraw, debit, setAdmin |
| `PaymentPromise` | what escrow and path promise | `reserved` nonces, `charges` | reserve a nonce; charge it once, as signed, after it was reserved |
| `Facilitator` | gate.ts, verify.ts, settle.ts, app.ts, pgRedis.ts, buyer-lock-redis.ts | `gate`, `settling`: positions in the code between two awaits; `working`: handlers that run, a gate waiting or not; `reservation`, `indexed` (cap), `spent`, `settleTx`: Redis keys; `row`, `results`, `revenue`: Postgres | the code from one await to the next |
| `Reservations` | pgRedis.ts command by command, store.ts, the critical section of verify.ts | `lockUntil`, `indexed`, `capUntil`, `spentMarks`: Redis keys, or the maps in memory; `buyerHeldBy`: the lock | one per Redis command of the sum, the reserve and the drop; each operation of the in-memory store; expiry |
| `StakingVault` | StakingVault.sol over the registry | bonds, owners, cooldowns, pool, custody; history for the properties | each external function |
| `SpendCap` | spend-cap gate and its two stores | the scored spends of one payer, `store` which of the two | read the clock, hold, reserve, refund |
| `Batching` | batch route, settler, ledger | `ledger`: the durable batches; `batchSeq`, `windowStart`: memory; positions as above | the code from one await to the next, thrown calls, mining as a debit or a revert, restart |
| `Deployer` | server.ts, live-deploy.ts, orchestrate.ts, reconcile.ts, reaper.ts, record-deploy.ts, stores/memory.ts | `record`, `slugOwner`: the store; `up`, `net`, `routed`: Docker and the routing files; `route`, `work`: where a request's handler and its work are, which part at the deadline; `holding`: slots | census, admit, the write before, network, handler, gate, route, verify, the write after; the tick's quarantine, stale pass, list, reaps; crash |
| `Recovery` | recover-resources.ts | `gate`, `handler`, `routes`: the host; `listed`: the marketplace; `pass`: the script | one per slug and phase of a pass; dry runs, throws, stops |
| `Orchestrator` | local-driver.ts, warm-pool.ts, reaper.ts | `pool`, `runs`, `running`, `topUp`, `reap`; `leaked`: dropped by a stop that failed | schedule warm or cold, top-up, the reap's stops, settling and drain, a stop that is swallowed or throws |
| `Shutdown` | shutdown.ts around the loop of reconcile.ts | `phase`, `open` clients, `request`s, the `timer` and the tick in flight | signal, drain or its timeout, stop of the loop, close, exit |
| `Generation` | claude-backend.ts, validate.ts, live.ts | `tmp`, `bundle`: a directory as missing files and flaws; `gen`: the loop | an agent's call that writes anything or throws, the gates, repair, next attempt, hand over |
| `BuildStream` | build-channel.ts, build-slots.server.ts, live.ts, the events route | `streams`: buffer, subscribers, done; `build`, `reader` positions | create, stages, finish, connect, read, park, abort, expiry, eviction |
| `Refunds` | refund.ts | `marks`: the idempotency store; `mempool`, `repaid`, pool | check, bound, write, mark, mined or reverted, stop and retry |
| `Scoring` | schedule.ts, prober.ts, strikes.ts | `strikes`; `scoring`: the ticks | start, probe card and call, fold, apply or throw |
| `BuyerBudget` | budget.ts, tools.ts, client.ts, server.ts | `committed`, `pending` per tool and day; `signed` for a call, `debited` by the seller | reserve, sign for the card as it is now and post, answered, lost, midnight |
| `DataProxy` | proxy.ts, allowlist.ts, quota.ts | `egress` position, counted usage, `dns`, what was connected to | count, check credential and host, first look, second look, connect, meter |
| `Marketplace` | publish.ts, server.ts, takedown.ts, identity.ts, live-deps.ts, pg.ts | `index`, `card`, `queue`, `chain`, `pauseTx`; `publish` position | one per await of a publish; queue for review; stop, delist, broadcast the pause, which is mined or reverts; register by the deployer |
| `Admission` | fixed-window.server.ts, create-gate.server.ts, browse.server.ts, discover.tsx | `counters` per window and key, `memo` of promises | admit and count, browse over the memo, publish, invalidate, time |
| `PaymentSplitter` | PaymentSplitter.sol | the token's balances, split, treasury | receive, distribute, setSplit, setTreasury |
| `PayPage` | PlaygroundPlayer.tsx, usePayPerCall.ts, submit-payment.ts, test-endpoint.ts | `payer` position and quote; `auth`: what each nonce was charged | discover, quote, sign and send, answer or not, retry; a charge at any time after |
| `Wallet` | DepositForm, WithdrawForm, EarningsWithdrawCard, BondReclaimPanel, their hooks, deposit.ts | `flow`, `watch`, `modal`, `view`, `underway`: React state and pending reads; `sent`, `purse`, `bond`: the chain | submit, sign, refuse, receipt, read lands, account switched, mined in nonce order |

Constants that a proof sums or counts over are assumed finite (accounts, resources, nonces,
calls of each kind): the program has finitely many of each at a time. `Facilitator` assumes
of its splits what `Register` leaves (no payee is address(0)) and of address(0) that it has no
funds; the other assumptions say that bounds are naturals and functions are defined where they are
used. `Admission` keeps its memo as a function from criteria to a read and
a place in the order of insertion, which is all that a JavaScript `Map` tells.

`MC*` modules give the constants values for TLC. Signatures are abstracted to
membership (`SignedAuths`), a nonce, an account and a resource to model values,
amounts to small naturals, ABI and JSON encodings to records.

Simplifications worth knowing:

- In `Facilitator`, the payments row, which no handler reads, is written in
  one step with the Redis operation beside it, and the SET NX of the reservation with the set
  it is indexed in, unless one of them throws (`ReserveThrows`, `ReleaseThrows`), which leaves
  any part of them undone; `Reservations` interleaves them. The exact scheme, the sanctions screen and the spend cap
  (which has its own module) are not on the path. One relayer key is used.
- `withTimeout` of the gate races the handler and does not stop it: in `Facilitator` a
  handler may run on after its gate has released and answered (`HandlerTimesOut`,
  `HandlerEnds`), beside the next handler of the same nonce.
- The relayer, creator and treasury are one account in the facilitator's instances;
  in the escrow's, creator and treasury are any of buyer and relayer.
- In `SpendCap`, a call reaches its store within `MaxLatency` of the time it read;
  the source has no such bound, but the window's meaning depends on one.
- `Batching` keeps the ledger over a restart although only an in-memory ledger
  exists in the repository: the interface and its comments are written for a durable
  one, and the in-memory one loses everything. The settler is exported
  and tested but not constructed in `server.ts`. A debit may be mined as a revert for any
  reason (a used nonce, a balance withdrawn, a resource paused, an authorization expired);
  which of them it was makes no difference to a settler that does not read the status.
- `Batching` has one buyer and one resource: the source keys every part of its
  state by that pair.
- `Deployer`: every resource asks for one slug; deposit, registration and build are
  one step that may fail (`Prepare`); a get and put of the record store, the removal of
  both names of a pair, and a reap are one step each. A tick that finds nothing to do
  changes nothing and is no step. Relaunching a missing pair has no hook in production.
  `LaunchIntact` excludes deploys that were `disturbed`: overlapped by a deploy of the
  same resource, quarantined, or whose record could not be written.
- `Orchestrator`: nothing constructs the driver in production. A rejected top-up
  is handled by nobody and its spares are in no list (`launchFailed`); a stop may fail, at most
  `MaxStopFaults` times: the runner swallows a kill that fails, and a stop that throws ends the
  reap (`leaked` is what no list holds any more); the surplus
  branch of the pool is unreachable; a warm spare past its deadline is not modelled.
- `Reservations`: every cap is one unit; the time left of a reservation, computed once
  from the process's clock, is any positive value up to the TTL. A restart, which empties the in-memory adapter,
  is left out.
- `Shutdown`: a tick and a client's close return (fairness); a request need not.
- `DataProxy`: the quota store may throw; the response is metered at best effort.
- `BuyerBudget`: the card may have any of the caps `Served` each time it is read again; the
  one of the hold is read once, when the MCP server starts.
- `Marketplace`: one resource. A request claims a creator or none. What is bonded is left
  open: the bond gate, which a setting of its own arms, may pass or refuse. The pause is
  reported at its broadcast; it is mined, or reverts, at any time after.
- `Admission`: a denied request changes nothing and is no step; the sweep removes only
  what counts for nothing; a restart forgets everything and is left out.
- `PayPage`: the fixture submitter, which moves no money, is left out; a caller of
  `usePayPerCall.retry` and the SDK's client have the same shape.
- `Wallet`: a read returns the chain as it was when it began or as it is when it lands.
  Left out are disconnecting, replacement transactions, the wallet's token balance
  and the transaction feed, whose hooks have the same shape.
- `Generation`: an empty file counts as a flaw; clearing a directory never fails.

## 4. Runs

The eight below end without an error, and each
property of theirs is shown to bite by a variant of a modelled definition that
breaks it (`mutants`; the variants stand in the modules, named after the definition they alter).
Each takes at most about three minutes with two workers.

`MCHosting` and `MCServices` check several components that share no state. A
variable `component`, chosen initially, says whose specification runs; the others
rest in an initial state. This is the sum of the components and not their product: the
same states as a run for each, in one configuration.

| Run | Instance | Shows |
|---|---|---|
| `MCPaymentEscrow` | buyer, and a relayer who is every administrator; creator and treasury are either of them; one resource, 2 nonces, 4 authorizations: two share a nonce, one is altered after signing, one expires; amounts 0, 1, 3; a split of 3333, a refused one of 10001 | solvency with rounding and with one account in several parts; single use of nonces; charges as signed; nothing at address(0); payers consent; the contract implements `PaymentPromise` |
| `FacilitatorConcurrent` | 3 calls, two carry one authorization (and are symmetric); the deposit covers one cap; withdraw, pause, thrown calls (a reserve or a release half done among them), handlers past their timeout, expiry of a stored result | one answer for one payment; no two handlers of one nonce that a gate waits for, and none charged that its gate gave up; reservations within the deposit. The instance meets the hypotheses of `ReservationExcludes` and `AnswerBoughtOnce` |
| `FacilitatorFaults` | 2 calls with one authorization; crashes of the facilitator or the gate, lost replies, thrown calls, all three TTLs | an answer is paid with a mined transaction of its nonce; a nonce marked spent is consumed or its transaction reverted; path and chain together implement `PaymentPromise` |
| `FacilitatorLiveness` | 2 calls of one buyer, 2 nonces; withdraw, expiring lock, thrown calls, a clock | every call is answered; every reservation is freed without its TTL, unless the store threw while its own call reserved or released |
| `MCStakingVault` | creator, other depositor, operator; one resource; window 1, cooldown 2, clock to 4; two recorded authorizations | custody, timelocked slashes, cooldown covers the latest deposit, bonds are safe |
| `DeployerConcurrent` | two deploys at once, of one or two resources that ask for one slug; room for two pairs; one fault (crash, failed store or Docker call, wedged container) | a slug's containers and network are its owner's; nothing removes what a deploy launched while its handler waits |
| `MCHosting` | deployer: one deploy of either of two resources, three faults; orchestrator: two schedules, a pool of two, two stops that fail; shutdown: two requests, one hung; stream: two builds and readers, one stream; generation: two attempts with two repairs | types; a sandbox serves one schedule; readers stay attached; only whole bundles accepted; clients closed quietly. Live: records leave deploying, slots come back, orphans are collected, idle sandboxes go unless their stop failed, the process exits, generation ends, readers are released |
| `MCServices` | spend cap: 3 calls of 2, 1, 1 under a cap of 2, both stores, window 3, clock to 5; reservations: 3 verifies, 2 nonces, one released and one spent, a TTL of 2, both stores; batching: 3 debits, a batch is full with 2, crashes, throws and reverts; refunds: 3 payments, 2 windows that share one, a retry; buyer: 3 calls, 2 tools with cards of 1 and 2, cards read later of 0, 1 and 3 under a ceiling of 2, 2 days; proxy: 5 requests, two without a credential, a call budget of 1; scorer: 2 overlapping ticks, 3 strikes; marketplace: 2 publishes that claim one of 2 creators or none, a takedown whose pause may revert; recovery: 2 slugs, 3 passes; payers: the page, a caller, a runner; admission: 2 visitors, 3 windows; splitter: 5 units, 2 splits; wallet: 2 accounts, 2 flows of a form, one switch, one foreign change of balance or bond | the properties of each, listed in `PROJECT.json`; `ServicesOK` holds the types and the invariants of the smaller ones |

Four runs end in a counterexample to what the source says of itself:

- `DocReceipt`, `PaidMeansDebited`. `packages/x402-arc/src/gate.ts:225`: the receipt
  header "is set ONLY when the debit genuinely landed". `settle.ts:367` waits for the
  transaction without reading its status. Trace: a deposit of two and three calls of one each, no
  fault at all; the third reads the balance before the first is debited and the
  reservations after, and is admitted; all three are broadcast while the
  estimation still passes, and the last one mined reverts; its nonce is marked
  spent, its result stored, the call answered as paid.
- `DocDodge`, `WithdrawCannotDodge`. `contracts/src/StakingVault.sol:25`: "so a
  creator cannot front-run a pending slash by withdrawing first". Trace: bond,
  request a withdraw, let the cooldown pass and keep the bond; a slash is
  recorded; withdraw during its dispute window.
- `DocBatchOverlap`, `NoDebitLost`. `app.ts:478`: a batched call "settles on a later
  accrual". `flushBatch` computes the amount from a copy, awaits the chain, and
  `markFlushed` deletes the batch as it then is. Trace: a debit accrues while the
  flush of its batch waits.
- `DocPayTwice`, `DocPaidOnce`. `apps/studio/app/wallet/submit-payment.ts:134`: a
  non-200 "means the call was NOT paid; rejecting keeps the paywall up for a retry
  (the SAME header, never a re-sign)". The page takes only `pay` from the hook, which signs a
  new nonce at every click. Trace: pay, an answer other than 200 although the
  charge goes through, pay again.

### Statements seen to fail, without a run of their own

These were stated while modelling and refuted by TLC on the same instances. The
properties named are in the modules of their components; adding one to the
configuration in brackets, with the changes stated there, shows its trace.

| Statement in the source | What happens |
|---|---|
| `verify.ts:134-136`, `store.ts:69-70`: verifies "cannot over-commit one balance" | `NoOverCommit` (FacilitatorConcurrent): the balance is read before the sum of reservations (`verify.ts:205-211`); a withdrawal, or a settlement between the two, leaves reservations the balance does not cover. `ReservedWithinDeposit` is what holds |
| `verify.ts:138`: a nonce that is pending is rejected (`nonce_used`) | `ExclusiveReservation` (FacilitatorConcurrent with the fault `clock`, `MaxTime` = 1, all three calls on one authorization, a deposit of three): `/settle` on an authorization that has expired meanwhile releases the reservation itself (`app.ts:445-458`), and the gate, told of the failure, releases again without condition (`gate.ts:248-251`). A call that passed its own look at the expiry before, and reserves between the two, loses its lock to the second release; a third reserves too, and two gates wait for a handler at once. Found by the proof, hence the third hypothesis of `ReservationExcludes` |
| `verify.ts:231-232`: "so the lock outlives the handler run + on-chain debit" | `OneHandlerRun` (FacilitatorConcurrent): at the timeout the gate releases (`gate.ts:203-209`) while the handler runs on; a replay reserves the nonce and runs its handler beside it |
| the same | `NoRunDuringDebit` (FacilitatorFaults): the wait for the receipt is not bounded by the buffer |
| `gate.ts:17-19`: an error or a timeout releases; `gate.ts:226`: no "dangling-reservation leak (CR-02)" | `FreedWithoutTTL` (FacilitatorLiveness): a Redis call of `reserve` throws after the SET NX (`pgRedis.ts:65-90`), or one of `/release` before it has deleted the lock (`app.ts:348`), whose 500 the gate does not read (`gate.ts:122`) |
| `publish.ts:312-314`, `320-322`: the creator is none that "a slug-colliding second publisher can overwrite", "so a second creator re-creating the same slug cannot take over an existing listing" | `DocFirstWriter` (MCServices): a record that names no creator goes to the next who claims one; and with three publishes, one reads an older claim's record before the owner is listed, and writes the claim back after (found by the proof). What holds, checked and proved, is the state property `CreatorKept` |
| `gate.ts:226-228`: a settle failure releases, strikes, "but never a debit" | `StruckMeansUncharged` (FacilitatorFaults): settle throws, or its reply is lost, after the broadcast |
| `settle.ts:10-13`: "settle catches that revert and REBUILDS the identical receipt" | `UsedNonceIsRebuilt` (FacilitatorFaults, without `throw`, with `RevertNamed = FALSE`): `escrowAbi` declares no errors, so the text of the revert need not name `NonceUsed`; settle then fails a call whose debit is on chain |
| `buyer-lock-redis.ts:4-5`: the lock "serializes every fn() for the SAME buyer" | the key expires after `lockTtlMs` under a slow holder (`LockExpires`); with it `ReservedWithinDeposit` fails |
| `pgRedis.ts:75-76`: the member "is pruned lazily ... when its cap key is gone" | `GrantedIsCounted`, `SumCovers` (MCServices with `LockLapses = TRUE`): a verify that reads between another's SADD and its SET of the cap finds no cap, prunes the entry afterwards, and the reservation then counts for nothing. Under a lock that holds both are true |
| `spend-cap-redis.ts:29-32`: the trim matches the in-memory rule "exactly" | the Redis script keeps an entry of exactly one window's age, the list drops it (`Kept`, and `Recent` in `DenialsAreJustified`) |
| `batch-ledger.ts:30-31`: a crash "must not double-charge or lose a debit" | `NoDebitLost` (DocBatchOverlap, with `Faults` and a clock): after a restart `batchSeq` is 0 again, and a new batch reuses a key whose result is cached |
| `gate.ts:248`: a settle without a receipt is a failure | `FailedMeansUncharged` (DocBatchOverlap, with `Faults` and a clock): an accrued call is answered `receipt: null` (`app.ts:479`); the gate refuses it, and it is charged later |
| `memory.ts:29`: "Monotonic deploy version" | `VersionMonotonic` (DeployerConcurrent): a tick, or work past its deadline, writes a record back from an older copy |
| `server.ts:121-124`: no deploy pushes running and in-flight containers past `maxContainers` | `HostCapKept` (DeployerConcurrent, with a slug for each resource and `MaxContainers = 2`): work past its deadline holds no slot and was not running at the census |
| `identity.ts:85-87`: the agent id goes into registry and card "so the two can never diverge" | `DocIdentity` (MCServices): of two concurrent publishes one writes the registry last, the other the card |
| `takedown.ts:3-5`: "a killed resource must be delisted + paused" | `DocPaused` (MCServices): `paused: true` is answered at the broadcast (67-74); the transaction reverts, and nobody looks |
| `takedown.ts:51-53`: "never left listed-but-killed" | `DocTakedown` (MCServices): a publish under way when the takedown begins lists it again |
| `batch-settler.ts:1-3`: one settle per batch, "preserving the Phase 2 exactly-once guarantee" | `SettledMeansDebited` (MCServices): a debit mined as a revert, for a balance or a pause say, counts as any receipt (`settle.ts:367`); the batch leaves the ledger uncharged. `SettledMeansMined` is what holds |
| `refund.ts:152-154`: a refunded buyer is "never paid twice" | `DocRefund` (MCServices): a stop between broadcast and mark, or overlapping runs |
| `budget.ts:11-13`: "N parallel calls can never collectively exceed the cap" | `DocParallel` (MCServices): the hold is the cap of the card read at start-up (`mcp/server.ts:99`), the signature that of the card read again (`client.ts:210`), which may be dearer. `BudgetHolds` is what holds |
| `budget.ts:14`: release "undoes the reservation so a reverted pay does not leak budget room" | `DocBudget` (MCServices): the answer is lost, the hold released, the call charged |
| `warm-pool.ts:75-79`: drain is how "an idle resource truly scales to zero" | `ScalesFully` (MCHosting): a kill that fails is swallowed (`docker-dev.ts:131`) and the run forgotten, or a stop throws in the drain loop (`local-driver.ts:163`) and the pool is already empty. `ScalesToZero` says what remains |
| `deposit.ts:92-93`: "depositing the shortfall ONCE (not per call)" | `DocDepositOnce` (MCServices): no receipt is waited for, so the next call sees the old balance |
| `build-channel.ts:23-24`: complete streams are kept, "keeping late-reload replay working" | `ReloadReplays` (MCHosting, with two readers of one resource, `MaxReaders = 2` and `MaxStreams = 2`): events are shifted out of the one buffer (222), so a reload gets only what the first reader left |
| `claude-backend.ts:167-169`: leaving the card out "avoids a wasted repair" | `NoHopelessCall` without its exception (MCHosting): a prompt that the scan takes for a secret is repeated in the card, and counts as repairable |

## 5. Bounds

- *Calls and nonces.* The hazards of the paid path involve a payment, its replay and one
  other payment of the buyer: three calls, two of them on one nonce. With faults two
  calls suffice: the first fails or crashes at every step, the second retries the nonce.
- *Amounts* are small, chosen so that a deposit covers one call but not two, a computed
  amount lies above and below its cap, a split does not divide evenly, and two
  debits dust each but carry together.
- *Clock*: `MaxTime` lets every deadline in the instance pass at least once, and in the
  vault a cooldown, a dispute window and a second request.
- `MaxLog` bounds recorded slash authorizations (not their execution), `MaxSeq` the
  batch sequence, both above what the other bounds let happen except `MaxLog`, which
  is one authorization and its successor.
- Runs stop when every call is answered or the clock stops; such configurations say
  `CHECK_DEADLOCK FALSE`. The escrow never stops, and is checked for it.

- *Deploys.* Every hazard is between a deploy and one other activity: a second deploy
  of the slug, the tick, or its own work past the deadline. Three faults let a crash
  follow a failed write, and a second failure follow the restart.
- *Pools, streams, windows* have capacity one or two, with one more user than that.
- *Retries, passes, flows* happen twice, so that the second meets what the first left;
  `MaxPasses` is 3 because a dry run and two real ones are the way the script is used.
- `MaxStopFaults` is 2: one stop that fails among the idle runs and one in the drain. `Served`
  holds a cap of zero, one as at start-up or cheaper, and one above the client's ceiling;
  `Claimants` are two, so that two claims can differ.
- `MaxFolds` is beyond the strike limit by two: a reset and a fresh run of failures fit.

Symmetry is used in `FacilitatorConcurrent` only, which checks invariants: the replay and the
call it replays carry the same authorization to the same resource and can be exchanged.

## 6. Fairness

`FairSpec` makes the gate, the handlers and the chain take their next step
(`WF` per call): Node runs a continuation once its promise settles, HTTP calls
and RPC reads answer or fail within their deadlines, and a broadcast transaction
is eventually mined. Nothing of the environment is fair: no TTL has to expire
and no buyer has to act. Waiting for the buyer's lock is weakly fair only, which is
enough because a call takes the lock at most once. `ReservationFreed` therefore says
that the code frees a reservation itself. It does not under a crash or a lost reply, when the TTL is all
there is: those faults are not in that run. Nor does it when a store call throws between the
SET NX and the end of `reserve`, or in `/release`: such a reservation is excepted
(`storeThrew`). A handler that its gate gave up is not fair either: it may never end.

`HostingSpec` asks, of each component, for the steps its scheduler takes: a request's
handler and its deadline timer, the clock that ages a record, and the reconcile
interval (`Deployer`; its *work* is not fair, since a build may hang); the reap interval
and the top-up it waits for (`Orchestrator`; a stop need neither fail nor succeed); drain, timeout, stop and exit, and the end
of a tick (`Shutdown`; a request may hang); a build's and a reader's own steps
(`BuildStream`); and that the agent's calls end (`Generation`: the SDK bounds their
turns, nothing their time). The components of `MCServices` claim safety only:
nobody there is obliged to call again.

## 7. Proofs

Eight modules hold the theorems; `tlapm` proves them for all values of the constants under
the assumptions that the modules name: `RegistryAssumption`, `EscrowAssumption`,
`VaultAssumption`, `FacilitatorAssumption`, `SpendCapAssumption`, `BatchAssumption`,
`RefundAssumption`, `ReservationsAssumption`, `BudgetAssumption`, `MarketAssumption`,
`ScoringAssumption`, `RecoveryAssumption`, `DataProxyAssumption`, `SplitterAssumption`,
`PayPageAssumption`, `AdmissionAssumption`, `WalletAssumption`, `DeployerAssumption`,
`OrchestratorAssumption`, `ShutdownAssumption`, `GenerationAssumption`,
`BuildStreamAssumption` (section 3 says what they ask). Each safety property of a passing run
is the conclusion of a theorem. Four theorems have a hypothesis besides:
`ReservationExcludes` and `AnswerBoughtOnce`, `CapsWithinDeposit`, and `AllServicesHold`
with the `ReservationsAreCounted` it contains; each is explained below, and each is met by the
instance of the run.

Every proof has the same shape: an invariant `XInv` of the component that `Init` establishes
and each action keeps, and the properties read off it. Most properties are not inductive
alone; what follows names what had to be added and why.

`FiniteSums`. Balances, caps and counts are summed with `MapThenSumSet`. Its definition
is a recursive function over subsets, so a sum is *the* function that satisfies the
recursion; that there is one, and that removing, adding, changing or shifting a summand has
the expected effect, follows by `SubsetInduction` (the smallest counterexample of a finite
set). `Solvent`, `Custody`, `ReservedWithinDeposit`, the counting modules, `BudgetHolds`
and `SplitIsFair` all rest on it.

`PaymentEscrowProofs`. The range of the
balances needs the split to be sound, which needs the registry's records to be
well-typed and their payees not to be address(0) (`PayeesNamed`), and single use
needs the consumed nonces to be those of the log. `EscrowInv` is their conjunction.
`ShareBounded` and `SplitSound` are the arithmetic of `debit`, with its three writes in
order and any of the accounts equal. From `EscrowInvariant` follow `EscrowTypesHold`,
`NoncesSingleUse`, `ChargesAsSigned`, `NothingStranded`; with a case for each action
`PayersConsent`; and `EscrowImplementsPromise`, where a debit maps to `Settle` and every
other step to a stutter. `EscrowSolvent` adds the sum: a debit moves the amount between
summands, whichever of the three accounts coincide.

`StakingVaultProofs`. `SlashesTimelocked` speaks of the log, the contract only of
`pendingSlashes`: `PendingRecorded` ties them (every pending authorization is the last
event of its resource in the log), and is preserved because overwriting, cancelling
and consuming each append an event. `CooldownCoversDeposit` needs `DepositsPast`
(a deposit was made at or before now). `VaultInv` conjoins these; `BondsStaySafe` is proved
from it for each step, `VaultKeepsCustody` with the sum of the bonds.

`FacilitatorProofs`, under every fault of the model. `PaidMeansMined` speaks of what the
caller got, `SpentMeansMined` of a store; the chain knows of neither. `PathInv` conjoins the
types, the escrow's invariant, the positions that a gate and its settlement can
have together (`Positions`), where a receipt held by a handler comes from (`Receipts`) and what a row or
a result in the stores says of its transaction (`Stores`). `PathKeepsPromise` is the
refinement: the step that mines a debit maps to `Settle`, all others stutter.

`ReservationProofs`. What the reservation is for needs more than the promise.
`ReservationsLast` names what must not happen: a lost reply (the settlement goes on while the
gate gives its reservation back), a reservation or a lock key that expires under a running
call, an authorization that runs out after it was reserved (section 4), one nonce
signed by two buyers (the lock is per buyer). Any other fault may
happen, crashes included. `LockHeld` (who is inside holds the lock of its buyer) makes what was
checked inside stay true (`Cleared`); `Held`, `GivenUp`, `Awaited` say whose the reservation is
until it is given up or spent, `SpentFree` and `ThroughOnce` that past that point nobody
holds it again. A handler is waited for, or was given up by a gate that never settled
(`GaveUp`). From these follow `ReservationExcludes`, which is about the handlers a gate waits for,
and `AnswerBoughtOnce`.
`CapsWithinDeposit` needs `BuyersOnlyPay` instead: locks that do not expire, and buyers who are
not also payees, whose balance a share would raise above the deposit. The
balance read before the sum is stale, yet what was deposited bounds it
(`SeenFits`, `CountFits`, `CapsFit`). The sum is that of the cap keys: a reserve
that throws half way may leave a lock without one.

`CountingProofs`.
- *Spend cap*: a window sums what is stored, the property what was granted. The invariant
  shares the stored entries out among the calls that own them, with the latency that
  delays a reservation or its refund; the windows then cannot hold more than the cap, and a denial
  has its reason in calls that were counted at that time.
- *Batching*: a call is in one batch only (`OneBatch`), no amount is carried over, since the
  creator's leg takes the remainder (`NothingCarried`), and how far a flush is tells what it
  read and what the chain did (`Flushing`). A call can be lost (`DocBatchOverlap`), and a
  batch be left although its debit reverted (`SettledIsMined` says no more than that it was
  mined); none is charged twice.
- *Refunds*: each payment of a run's window is to check, pending or marked
  (`NoneForgotten`), and whoever is marked was paid (`MarksArePaid`). Unless an operator was careless (a
  stop between broadcast and mark, overlapping runs), one run of a window is at work
  (`OneAtWork`) and a payment is refunded at most once for each window that covers it (`CoveredOnce`).
- *Reservations in Redis and in memory*: with a lock that holds (`~LockLapses`), one verify of a payer
  is inside (`OneInside`), and a cap that counts is in the index (`Indexed`).
  With a lock that lapses the statement is false (section 4).

`ServicesProofs`. `Recovery`: the order of a pass. `Scoring`: the counter is the length of the
trailing run of failures (`EndsInFailures`), which is what `DeactivationJustified` says of
history. `BuyerBudget`: what is held or committed on a line is the sum over its calls, and a charge
within a hold is no more than either (`SumSmaller`). `Marketplace`: a claim, or none, is rightful when it was read; a
takedown that is done has a pause sent, mined or reverted. `DataProxy`: requests within the quota are counted. `PaymentSplitter`:
each flush rounds down by less than one. `PayPage`: an authorization is signed by one
payer in one position. `Admission`: windows count what was admitted since their start, a memo keeps the
order of its insertions. `Wallet`: a flow of a form knows the transactions it sent, and what a view shows was
true when it was read; the SDK's part holds while its calls do not overlap.
`AllServicesHold` composes the thirteen: while one runs, the invariants of the others are kept
by their variables not changing.

`HostingProofs`. `Deployer` is the largest: two deploys, their work past the deadline, and a tick
of the reaper share a store, a Docker host and the slots of `maxContainers`. `Claims` and `Begun` say what a request has done by
its position, `Apart` that a deploy nobody disturbed shares its resource with no other
that has work outstanding, and `TickSpares` that what the tick is about to remove is not of
an intact launch.
`Isolated` and `LaunchIntact` are conjuncts. `Orchestrator` needs that a sandbox is in
the pool or owned by one schedule, and that a container no list names was dropped by a stop that failed, `BuildStream` that slots and readers are counted by
their positions, `Shutdown` and `Generation` their order. `HostingHolds` composes the five.

Proving changed the picture in four places: the
hypotheses of `ReservationsLast` (one of them a trace nobody had looked for), the reading of
`CreatorKept` that is false (both section 4), the conditions of `BuyersOnlyPay`, and assumptions of
finiteness and on the registry's splits that the models had used without saying so.

Only model-checked: liveness under fairness, which is out of the prover's reach
(`EveryCallAnswered`, `ReservationFreed`, `HostingSettles`, `OrphansCollected`, `ScalesToZero`,
`ReadersReturn`); and the four `Doc*` runs, which show an instance that violates a statement.

## 8. Not modelled

`PROJECT.json` lists every part with its status and reason. In short:

- *Pure text, arguments and encodings*: prompts, scaffold and agent card, bundling,
  gate injection, the plugin generator, container arguments, firewall rules, static
  scans, ABIs, codecs, signatures. They keep no state, or their effect lies in tools
  outside the repository.
- *User interface*: a third of the code is the studio's. The parts that move
  money are modelled (`PayPage`, `Wallet`, `Generation`, `BuildStream`); the others render
  what a loader read.
- *Checks against configuration that does not change*: callers' tokens, API keys, the
  sanctions screen, sessions (a signed cookie, checked by its library).
- *Code without a caller*: the x402 `exact` scheme of settle (its splitter is
  modelled), treasury payouts and the cross-chain funder, the gate's response cache, the
  Nomad driver, `resyncNonce` of the relayer pool.
- *Arithmetic without order*: cost attribution, price floor.
- *Bootstrap and tooling*: environment parsing, wiring, seed and smoke scripts, demos.
- `GET /results`, `/revenue`, `/strikes`, marketplace queries, metrics and logs only read or write out.

This is why the map names a part of the lines only: what is left keeps no state of its
own that a later step could find in the wrong order.
