# Verification of the JJSKIN oracle server

TLA+ models, TLC runs and TLAPS proofs of the server in `src/`: a TLSNotary
verifier that watches one Steam request of a prover over MPC-TLS, reads the
escrow from the chain, decides between release and refund, and signs the decision.
A wrong signature moves money and cannot be taken back; a leaked permit, a lost
outcome or a task that never ends closes the service. The server also attests the
items of Steam inventories with 64-bit details that it signs, passes a prover's bytes
to Steam, and proves who it is with a TDX quote. The project is about those signatures,
about who may make them after a restart, and about the service staying up.

## 1. The system

| part | source | state | operations |
|---|---|---|---|
| session service | `main.rs` | session map, `verifier_claimed` flag, the one-shot sender and receiver of each session, semaphore permits, gauge | `POST /session`, its TTL task, `GET /notarize` and the task of its upgrade, `GET /session/result` |
| notarization task | `main.rs`, `verifier.rs` | overall deadline, protocol stage, driver task, timers | `run_mpc_tls`, driver shutdown, chain read, `create_settlement_result` |
| settlement decision | `settlement/oracle.rs`, `decision.rs`, `types.rs` | none (pure) | `decide` with its three proof sources |
| proof parsing | `settlement/parsing.rs` | none (pure) | body extraction, the JSON and HTML parsers, request scanning |
| chain reader | `settlement/chain_reader.rs` | `next_rpc_id`, the retry loops of a read | `read_escrow`, `eth_call` |
| signer | `settlement/signer.rs` | key, domain separator | choice of the key, EIP-712 digests and signatures |
| inventory attestation | `inventory_attestation/mod.rs`, `cache.rs` | LRU cache with TTL | `attest_handler` |
| inventory fetcher | `steam_inventory.rs` | proxy pool index | pagination, retries, proxy rotation |
| catalog, item detail | `catalog.rs`, `item_detail.rs` | read-only catalog | resolution, bit packing |
| WebSocket proxy | `proxy.rs` | one TCP and one WebSocket connection | two copy directions |
| WebSocket upgrade | `axum_websocket.rs` | the pending upgrade | `on_upgrade` and its failure path |
| attestation quote | `attestation.rs` | the bound oracle address (`OnceLock`) | `GET /attestation`, one call to dstack |
| configuration and start | `config.rs`, `main.rs` (`run_serve`) | `Config` | loading with defaults, checks, wiring, listening; `GET /info` |
| heartbeat, metrics | `observability.rs` | counters | sampling |

How they interact. A client opens a session (`POST /session`), connects a prover to
it (`/notarize`), and waits for the result (`/session/result`), in parallel and in
any order. The `/notarize` handler takes a semaphore permit, finds the session,
claims it, and hands permit and session to the task that runs after the WebSocket
upgrade. That task runs the protocol, shuts its driver down, reads the chain,
decides and signs, all against one deadline, and sends the outcome through the
session's one-shot channel. The TTL task and the result handler remove sessions from
the map, whatever the others are doing; what keeps a session alive after that is the
`Arc`s that handlers hold.

Apart from that, `POST /inventory/attest` looks an asset up in the owner's Steam
inventory, page by page and with retries through a shared pool of proxies, resolves
it in the embedded catalog, packs what it is into an `itemDetail`, signs that and
caches the answer.

`GET /proxy` connects a browser's prover to a Steam host: two tasks copy bytes, one in
each direction, over the halves of one WebSocket and one TCP connection, and the handler
joins both. `GET /info` and `GET /attestation` tell the address of the signing key; people
register it on the JJSKIN contracts, which from then on accept its signatures. Key,
configuration and bound address are in memory only, and every start makes them again.

What is hard, and where each property comes from (`hazards` in PROJECT.json has the
list with lines):

* interleavings of handlers at locks, atomics and awaits, of clients that disconnect
  at any await, of upgrades that fail and tasks that panic: permits, claims and
  outcomes must survive all of them;
* timers that race with the thing they time: the result wait with the outcome, the
  protocol with its deadline, the driver with its grace, retries with the caller's
  deadline;
* stale observations: the transcript was taken earlier than the decision, the escrow
  was read earlier than the signature, the five calls of a read are not one moment;
* mirrored views: seller and buyer see the same offer from opposite sides and the
  fault of a failed trade depends on reading them correctly;
* two copy directions that share a socket: partial writes, windows that are full, ends
  and resets right behind the last bytes, one direction over before the other;
* restarts: what the contracts trust was said by an earlier process, and the next one
  must be the same oracle or be recognised as another;
* names that are not identities: one name stands for several phases or stickers, one
  number for an agent, a sticker and a slab, and Steam may leave out what tells them
  apart.

## 2. Modules

| module | models |
|---|---|
| `SessionService` | the session service; one process per handler invocation |
| `OneTimeSettlement` | abstract promise: a session opens and closes once, is settled at most once, delivered at most once |
| `SessionRefinement` | the refinement mapping from `SessionService` to `OneTimeSettlement` |
| `OracleDecision` | `decide`, fault attribution, and what the parsers extract, as operators |
| `SteamWorld` | external: one trade offer, the trade it starts, Steam's answers to each account, a clock |
| `Notarization` | the notarization task, running `OracleDecision` on what it captured from `SteamWorld` |
| `ChainReader` | `read_escrow` and `eth_call`, with the contracts as external state |
| `EscrowRead` | abstract promise of a chain read: one look at an active purchase, then that purchase or nothing |
| `ReaderRefinement` | the refinement mapping from `ChainReader` to `EscrowRead` |
| `InventoryAttestation` | `attest_handler` with its cache, `find_asset` with pages, retries and proxies; concurrent requests, Steam external |
| `Catalog` | `build_inventory_item`, `CatalogResolver`, `encode_item_detail_with_flags`, applied to assets that Steam describes in different ways |
| `Proxy` | admission, connect and the two copy tasks of one bridge; client, Steam host and sockets external |
| `OracleIdentity` | `Config::load`, `run_serve` up to the listening socket, the choice of the key, the digests, `/info`, `/attestation`; dstack, contracts and operators external |
| `SessionServiceProofs`, `NotarizationProofs`, `DecisionProofs`, `ChainReaderProofs`, `InventoryProofs`, `CatalogProofs`, `ProxyProofs`, `IdentityProofs` | theorems |
| `MCSessionService`, `MCNotarization`, `MCChainReader`, `MCInventoryAttestation`, `MCCatalog`, `MCProxy`, `MCOracleIdentity` | constants for TLC |

The composition is by layers. `Notarization` extends `SteamWorld`, which extends
`OracleDecision`, so what a task signs is computed by the translated decision code on
what the modelled Steam really showed. Two steps of a module stand for a whole other
module: `NotarizeEnds` of `SessionService` ("signed" or "failed") for a run of
`Notarization`, whose property `TaskEnds` justifies its fairness, and the chain phases of
`Notarization` for a run of `ChainReader`. `EscrowRead` is what the two have in common:
`ChainReader` implements it, and the steps of a task in its chain phases are steps of it
(`DriverStops` is `Begin`, `PurchaseRead` is `Look`, `ChainRead` is `Return`,
`ChainReadFails` and `DeadlineExceeded` are `GiveUp`, `PurchaseSettled` is
`Transaction`; no step of `EscrowRead` is left without an action). `SnapshotFresh` adds
how far the rest of a snapshot is from being one moment: each part of it was so during the
read, the parts not necessarily together, since no block is pinned. In the same way `Signed` and `AttestFails` of
`InventoryAttestation` stand for an evaluation of `attest` of `Catalog`. The two signing
steps, `Sign` of `Notarization` and `Signed` of `InventoryAttestation`, are the steps
`sign_settlement` and `sign_item_attestation` of `OracleIdentity`: there it is what is
signed that counts, here who signs it and who accepts it, with any outcome of the decision
code as the message.

### SessionService

Every lock acquisition, atomic operation and await of the three handlers is a step
boundary, and nothing else is. `sessions` is the map; `claimed`, `sender`,
`receiver` are the three cells of `SessionData`; `chan[s]` is the value inside the
one-shot channel; `permits` is the semaphore; `active` the gauge. `Held` derives from
the handlers' phases whether an `Arc<SessionData>` is still alive, because that
decides whether a waiting receiver sees its sender dropped. `...Dropped` actions are
clients that disconnect: the server drops the handler future at an await.
`POST /session` has no await between the insert and the spawn of the TTL task, so no
action separates them by a disconnect; other handlers can run in between.
`NotarizePanics` drops the permit by unwinding and leaves the gauge as it is.
Timers carry no time: arrivals are arbitrary, so any order of timers, arrivals and
progress exists in the program as well. The one order that tokio does guarantee,
that `timeout` polls its future before its timer, is a guard of `ResultExpires`. The
receiver is dropped only when the await ends, which is a step of its own,
`ResultTimesOut`: in between (phase `overdue`) a verifier on another worker thread can
still send into it.

### OracleDecision and SteamWorld

A transcript is its server name, the facts the request scanners extract, and a body
of one of the forms the parsers tell apart. Parsers are modelled by what they extract
and refuse (the first CS2 item with an asset id that parses; `is_our_offer` missing
means false; the page of somebody who is logged out is refused), not byte by byte.
`SteamWorld` is marked external: states and statuses are Steam's numbers as the code
interprets them; an offer waits for its creator's confirmation, ends in one of the
states 3, 5-8, 10; a trade completes with a `time_settlement` and can be reverted
only before it. `blamed` records whose doing ended the offer, so that the oracle's
blame can be compared with the truth.

### Notarization

Discrete time. `Due` timers must be served before `Tick`; a future that is ready at
its deadline may still win, as in tokio. Phases follow the awaits of
`handle_notarize_websocket` and `run_mpc_tls`. `Continue` is `remaining_deadline`:
the rest of the overall deadline, or the end of the task if nothing is left.
`Observe` is the moment Steam answers; `Sign` takes `proof_timestamp` at its own,
later moment. The chain read has two steps because the code has two batches: the purchase
is seen active in the first (`PurchaseRead`), and may be settled before the second has
found the parties (`ChainRead`). `PurchaseSettled` is the contract settling the purchase by
any other signature.

### ChainReader

Five calls with their own attempt counter and timer; `Answered` reads the contracts
at the moment the node answers ("latest"). `history` collects the states the
contracts had since the read began, to say what a snapshot may contain. `Fails`
covers every error that is not retried, a result that cannot be decoded included.
The clock counts from the start of the read.

### InventoryAttestation

One process per request, which is idle, has a request out (`sent`), has the headers
of a page (`served`), sleeps before a retry, or computes and signs (`signing`, no
await, so the clock does not move). The cache is `cache` (`inserted_at` of each key)
and `lru`, the order of use; the proxy pool is its size and the shared index. A page
is what follows the cursor, at most `ITEMS_PER_PAGE` assets; assets leave and arrive
between pages. Steam (external) lists an inventory in a fixed order, sets
`last_assetid` with `more_items`, and never gives an id back to an account: a traded
asset gets a new id. Clients may leave at every await. Errors other than
`ASSET_NOT_FOUND` are one code, because no property tells them apart. `leftAt`,
`uses`, `begun` and `there` record history for the properties.

### Catalog

A name is its leading words, weapon, pattern and suffix, the parts that the code
takes apart with string operations; a detail is the six bit fields of the layout; a
float counts tenths of a millionth, so that rounding to millionths is visible. An
asset is one item with one seed and one float for ever (`asset`), but each request may
see it described with or without wear in its name and with any property missing
(`Descriptions`). The catalog may lack items that Steam has. `attest` is the chain
`build_inventory_item`, `resolve`, `encode_item_detail_with_flags`.

`CatalogAssumption` says what the embedded catalog satisfies; its clauses about
entries (`ItemRanges`, `ItemShape`, `PairAssumption`, no duplicates) are facts of the
embedded JSON: painted items have an exterior, a 13-bit defindex and no tint; only
graffiti have a tint; an extended detail belongs to one entry; a painted entry is
determined by its name and paint. That a catalog which lists a name lists all of
Steam's items of that name is an assumption about Steam. It matters: without it, a
phase that the catalog does not know would be signed as the one it knows when Steam
leaves the finish out.

### Proxy

Bytes are numbered in each direction, so that a lost, repeated or displaced one shows.
Each await of the two tasks is a step boundary: the next frame, each part of `write_all`
that the TCP window takes, the read, the flush of a frame. `send` takes a frame in the poll
that read it and then awaits its flush, so read and hand-over are one action and the flush
is another. What a socket holds is bounded by a window. The WebSocket's own state
(`socket`) is shared by both tasks: once a Close frame has been read or sent, later sends
are refused. The client may send, close, stop reading or vanish with frames still on the
way; the host may read, send, finish or reset. Bridges share nothing, so there is one.
Ping and pong are the library's, text frames are dropped: both are kind "other".

### OracleIdentity

The steps of `run_serve` are the values of `pc`; everything in `process` is lost when it
stops, at whatever step. `host` is what a start finds: image, dstack sockets,
`ORACLE_SIGNING_KEY`, key file, config file. `epoch` counts starts that came to serve.
`told` and `signatures` record every statement with the image and the start that made it;
`registered` is what each contract trusts. keccak256 is collision-free and an address
stands for its key; the contracts recompute the digests from what they hold
(`AcceptsSettlement`, `AcceptsItem`). dstack derives one key per image and quotes the image
with the report data it is given; a quote is asked for in one step and answered in another.
`AgentChanges` lets the dstack sockets appear or vanish under a running process.

## 3. Runs

| run | checks | bounds | states |
|---|---|---|---|
| `session_safety` | five invariants of `SessionService`, what can lose an outcome | 2 sessions, 3 `/notarize`, 2 `/session/result`, 1 place in the map, 2 permits; symmetry over all three sets | 0.85 million |
| `session_progress` | refinement of `OneTimeSettlement`, three liveness properties | 1 session, 3 `/notarize`, 2 results, 2 permits; no symmetry | 0.2 million |
| `settlement_decisions` | what is signed is true, the same for both sides, final | 1 task, every offer, item list, account, capture; clock to 3 | 3.6 million |
| `settlement_timing` | deadline, driver, staleness, termination | 1 task, timeout 1, grace 1, protection 2, clock to 4 | 0.4 million |
| `chain_reads` | bounded time, freshness, refinement of `EscrowRead` | 2 wallets, timeout 1, base delay 1, 1 transaction, any initial state | 4.5 million |
| `inventory_requests` | cache and proxy index consistent, bounded time, staleness, no asset missed | 2 requests, 1 account, 3 assets, pages of 1, 2 pages, 0 or 2 proxies, cache of 1, TTL 1, 1 asset moves; symmetry over requests | 2.4 million |
| `attested_details` | details read back, identify, do not change | 2 assets, 21 items, 8 catalogs, seeds 661 and 1000, a float that rounds up to 1; symmetry over assets | 25 thousand |
| `proxy_bridge` | streams intact, orderly ends complete, delivery, end of the bridge | 1 bridge, buffer 2, windows of 2 frames and 2 bytes, frames of up to 3 bytes, 3 bytes each way | 0.16 million |
| `oracle_identity` | one identity per start, registration across restarts, acceptance, configuration | 12 hosts (5 that run, 7 broken), 2 contracts at one address on 2 chains, 3 random keys, 2 changes, 1 signature, 2 registrations | 0.65 million |
| `release_observation`, `rollback_range`, `stattrak_quality` | one sentence of the documentation each, violated (section 5) | | |

What they show, property by property:

* `PermitsConserved`, `PermitsComeBack`: permits free plus permits held is always
  `max_active_sessions`, on all seven ways a `/notarize` request can end, and all
  come back.
* `OneVerifierPerSession`, `OutcomeDeliveredOnce`, `ChannelNeverCloses`,
  `MapBoundedAndExpiring`: a session is verified once; its outcome reaches at most one
  request, and that request's answer is 200 only for a signed settlement; the 500
  "channel closed" is unreachable; the map respects its limit and every entry has a timer
  that will remove it.
* `OutcomeLossExplained`: delivery is at most once, and this says what can lose an
  outcome: the TTL of its session, a client that disconnects, and a timer that ran out
  before the outcome was sent. The last includes a narrow window: after `timeout` has
  polled the empty receiver and before it is dropped, `send` still returns `Ok` and the
  outcome goes with the 504 (TLC reaches such states). Nothing else loses one: an outcome
  that is there when the receiver is polled wins over the timer, one that is published
  before anyone asks waits in the session, and 409s, 404s and retries take nothing away.
* `OneTimePromise`: all of that seen from outside.
* `ReleaseTruthful`, `ReleaseMargin`: a signed release means that the seller gave the
  asset to the buyer and that `time_settlement` has passed; the observation may be
  older than that, but a trade that was reverted after it was reverted within one
  notarization timeout of `time_settlement`.
* `RefundTruthful`: blame falls on the account whose doing it was. It is stated for
  captures by the seller or the buyer: `decide_trade_offer` infers the capturer from
  the partner, and a third account with an offer of its own to the seller or the
  buyer is taken for the other party.
* `ProversAgree`, `DecisionsAreFinal`: the same offer gives the same settlement from
  both sides; a decision that settles does not change with time.
* `DeadlineHolds`, `DriverNeverOutlives`, `StaleSignatureBounded`, `TaskEnds`: one
  deadline for everything, no driver left behind, no signature later than one timeout
  after the purchase was settled, and every task ends.
* `ReadBounded`, `SnapshotFresh`: a read ends within two batches of three timeouts and
  two delays (61.6 s with the code's 10 s and 200 ms, against the default notarization
  timeout of 120 s) and reports only what was so during the read, never the zero id of a
  wallet that is not registered. The run checks for deadlock too; with `ReadBounded` that
  means that every read ends. `ReadsAtOneMoment`: for the purchase, which decides whether
  anything is signed, five calls with their retries amount to one look while it was active.
* `StaleAttestationBounded`: an attestation is handed out only for an asset that the
  account had, and no later than the TTL plus one request timeout after it left,
  whatever the interleaving of misses, inserts, evictions and hits.
  `NotFoundMeansAbsent`: although assets come and go between pages, an asset that is
  there all the time is never reported missing. `AnsweredInTime`: no timeout covers
  the handler, but pages times attempts do, and with the absence of deadlock every
  request ends. With the code's numbers that bound is long: 50 pages of up to 11
  attempts of 30 s.
* `DetailDescribesAsset`, `DetailNeverChanges`, `DetailIdentifiesItem`: the signed
  detail, read back by the layout, is the asset (quality apart, see section 5), always the
  same one, tier included, and never that of another unpainted item.
* `StreamsIntact`, `CloseMeansComplete`, `CloseLosesNothing`: what arrives is a prefix of
  what was sent, whatever is written in parts, lost or over; a client that sees the proxy's
  Close after the host has ended in order has the whole response, and a client that closes
  in order has not cut off its own request. `BytesDelivered`: a client that does not read
  fills its own direction and nothing else, and neither direction is cut off by the end of
  the other. `BridgeEnds`: once both ends are through, the handler ends. It says no more
  because the code does no more: nothing times out a direction that is idle, and a
  WebSocket close does not shut the TCP connection down, so a host that stays open and
  silent keeps the bridge of a client that has left.
* `QuoteNamesSigner`: whatever is told and signed between two starts names one address.
  `RestartKeepsRegistration`, `RegisteredComesBack`: what a registered image signs with its
  derived key is accepted after any crash, and an image that is started again whenever it
  is down comes back with that key. `RegistrationCoversIdentity`: a registration does not
  cover another image nor, with a random key, another start. `AcceptedMeansDecided`: a
  contract accepts a signature only for the message that was signed for it; nothing carries
  over to another contract, chain, decision or kind of message, also when one operator key
  signs for several. `ServesOnlyConfigured`: missing files and keys become defaults, and
  the server then stops instead of serving with them.

Bounds. For sessions: two sessions for one place exercise the capacity, three
`/notarize` for two permits exercise 429 and, on one session, 409; two result
requests are what it takes to deliver twice. The theorems hold for any numbers. For
notarizations: tasks share nothing but the world and the settled purchase, which they
only read, so one task is enough; the theorems are about any number of them. Time
values are the smallest that separate the events (timeout 1, grace 1, protection
shorter and longer than the timeout). `MaxTime` leaves room for a task that starts
late; `Start` does not begin one that the clock bound would cut off. The clock stops
at its bound, so the notarization runs do not check for deadlock; `TaskEnds` does that
job. For `ChainReader`, `MaxTime` is above the proved bound and never limits.
For inventories: two requests are what it takes for a miss to race with a hit, and
two keys for one place in the cache make them evict each other; three assets on pages
of one reach the page limit of two. `Horizon` ends arrivals, not requests. For the
catalog the items are one of each kind that the code treats differently, with the
numbers that collide in the embedded catalog. For the proxy, frames of three bytes do not
fit the TCP window of two, and three bytes do not fit one read, so that partial writes and
short reads happen in both directions; the theorems hold for any sizes. For identities,
two changes are a crash after a crash, a redeployment and the way back, or dstack sockets
that vanish before a restart; one signature and two registrations suffice because each
property is about one signature and one or two statements. A host is one of each way in
which a configuration or a key can be given or wrong.

Fairness. `SessionService`: weak fairness of each handler's own next step (the
scheduler runs ready tasks, locks and one-shots wake their waiters), of the TTL timer,
of a pending upgrade (it resolves or fails), and of a running notarization, which
`TaskEnds` justifies. No fairness for clients: they need not send, and they need not
disconnect. `Notarization`: weak fairness of the clock and of timers that are due,
and nothing else: not of the prover, Steam, the driver or the node. `Proxy`: weak
fairness of the connect, which has a timeout of ten seconds, of each copy task and of the
join (tokio runs what can go on), and of the host's reading. A host that stops reading for
ever holds the request up for ever, the code has no timeout against that. That the client
reads is a premise of the properties that need it. `OracleIdentity`: weak fairness of
the next step of `run_serve`, which includes that dstack answers: the code has no timeout
there. That somebody starts the container again is a premise of `RegisteredComesBack`,
because the compose files state no restart policy. Neither of the two runs checks for
deadlock: a bridge that has ended and a server that is down do nothing more.

Mutants. Every property of a passing run has a faulty variant of a translated
definition (the `..._Suffix` operators beside the originals) that violates it. Properties
that are proved for all instances and add little to a run (the type invariants of
`SessionService`, `Notarization`, `ChainReader`, `Catalog`, `Proxy` and `OracleIdentity`,
and `GaugeTracksTasks`, `AnsweredSessionIsGone`, `RequestsBounded`, `NothingLeftBehind`,
`TaskReadsEscrow`, `RotationEven`, `DirectionsIndependent`, `QualityMissesStarStatTrak`,
`TierIgnoresVariant`) are theorems only.

## 4. Proofs

All theorems hold for every value of the constants, under the named assumptions of
the modules: finite sets of sessions and requests, natural capacities and times,
distinct parties, rollback statuses other than 0-3, `None` distinct from real values.
`AssetAssumption` says that the buyer's side of an offer never shows the seller's asset
as its first CS2 item: an asset is in one inventory at a time. `SizesAssumption` asks for
positive windows and buffers; `HostAssumption`, `DeploymentAssumption`, `BoundAssumption`
and `OutcomeAssumption` say what hosts, contracts and outcomes are. Of the catalog,
`CatalogAssumption` is described in section 2; `VariantAssumption` says that the words
before a painted item's name are one of the five combinations of the embedded catalog and
agree with its `statTrak` and `souvenir`, `TaxonomyAssumption` that the tiers of the
buckets are natural numbers (`u32` in the code), `EvidenceAssumption` that seeds are at
most 1000 and floats at most 1. TLC evaluates all of them on the instances.

* `SessionServiceProofs`: `Invariance` proves the inductive invariant `IInv`. The
  safety properties are not inductive alone: that a channel never closes needs to know
  that a live receiver's sender is unconsumed or has left its value (`ReceiverInv`),
  that a value in the channel was put there by the session's claimer after it consumed
  the sender (`ChanInv`), that phases and statuses of requests agree
  (`NotaryCoupled`, `ResultCoupled`), that the receiver is taken once (`TakeInv`) and only
  by a request (`TakenInv`), that a session leaves the map by its TTL or after its receiver
  was taken (`LeftInv`), and that an id not inserted has no timer (`PostInv`). From it: `TypeCorrect`,
  `PermitSafety`, `SingleVerifier`, `MapSafety`, `SingleDelivery`, `NoClosedChannel`,
  `LossIsExplained` (an action property), `GaugeIsExact` (except that each panic leaves the gauge one too
  high) and `AnsweredIsGone`. `Refinement` proves that initial states map to initial states
  and each step to a step of `OneTimeSettlement` or a stutter.
* `NotarizationProofs`: `IInv` ties each phase to the timer it awaits under and to
  the deadline; the clock cannot pass a timer that is due. From it `DeadlineSafety`,
  `DriverSafety`, `StaleSafety`.
* `DecisionProofs`: `LaterAgrees` (a settled decision is the same at any later time)
  and `ReleaseRests` (what a release says of the body) are facts about `decide`
  alone. `DInv` adds what a captured status answer still says of the trade after the
  world has moved on (`StatusSeen`), and what a captured offer still says of the offer and
  of who ended it (`OfferSeen`: an end is final and blames one account). From it
  `ReleaseIsTruthful`, `ReleaseMarginHolds`, `CapturersAgree`, `DecisionsFinal`,
  `TaskTypes` and `RefundIsTruthful`. `TaskImplementsRead` maps each task's chain phases to
  `EscrowRead`; it needs that an escrow is there exactly once the read has returned.
  `RefundIsTruthful` needs that the refund reasons of the
  three proof sources are disjoint (`ReasonTellsSource`), so that the signed reason tells
  which body it was read from; `OfferRefundTrue` and `StatusRefundTrue` then follow the
  decision back to that body.
* `ChainReaderProofs`: `CInv` gives each call the latest end of its current attempt
  or delay, counted from the start of its batch, and accounts for every request;
  the clock moves only while some call of the batch is pending, so no batch outlasts
  the budget of the last attempt. `FInv` says of every returned value that it was so in
  some state of `history`, and of the ids that they are registered. From them `ReadTime`,
  `RequestCount`, `NoLeftovers`, `FreshSnapshot`, `ReaderTypes`, and the refinement
  `ReaderImplementsRead`: the answer of the `purchases` call is the look, the end of the
  second batch the return, everything else a stutter or the end of the read.
* `InventoryProofs`: `IInv` says of a page that was served that the asset was there
  when the page was, at most one request timeout ago, and of a cache entry that its
  asset was there within a request timeout of the insert; of a request whose asset
  has been there all the time that its cursor has not passed it; and of the proxies
  that those before the index are exactly one use ahead of the others. From it
  `StaleBound`, `NotFoundSound`, `RotationIsEven`, for any number of requests, any
  limits and times. `TimeInv` bounds when a request can have sent its current attempt by
  the pages and attempts behind it (`SentBy`), each attempt worth a timeout and its
  longest wait (`Spent`, `Longest`); since the bound is a product of constants, `TimesMonotone` and
  its companions do the multiplication once. It gives `HandlerEnds`. `LruInv` says that the
  order lists each cached key once and nothing else: `ListsWithout`, `ListsPush`,
  `ListsCut` are what a hit, an insert and an eviction do to such a list. It gives
  `TypeCorrect`.
* `CatalogProofs`: every answer in a state was computed from some description of its
  asset (`IInv`); `ResolvedItem` shows that whichever index finds an entry, it has the
  asset's defindex, paint, tint and type, and `SignedDetail` that the detail is the
  encoding of `AssetIdentity`, which does not mention the description. From it
  `DetailIsStable`, for every catalog that satisfies the assumptions, any taxonomy and
  any asset. The identity of an asset is `Encodable`, so `EncodingReadsBack`: no field is cut
  or spills over, in either layout. With it `TypeCorrect`, `DetailIsFaithful`, and
  `DetailIsUnique`, where equal details of unpainted items mean equal static keys, which
  `Representable` refuses in standard mode and the catalog rules out in extended mode.
  `QualityRule` is the exact extent of the third divergence of section 5: the quality is
  Steam's for every painted item but those whose name begins with a star and StatTrak.
  `TierRule`: the variants and wears of a gun share a catalog key and so a tier.
* `ProxyProofs`: in each direction, what an end has received, what the sockets hold and
  what the task holds are consecutive parts of what the other end has sent (`Continues`,
  and `Chain` for frames). The safety properties do not imply this and are not inductive
  without it. From it `ProxyTypes`, `NoByteLostOrMoved`, `CompleteResponse`,
  `CompleteRequest`, `IndependentDirections`, for any sizes, frames and traffic.
* `IdentityProofs`: answers and signatures are one set of statements, each an address, an
  image and a start. `Consistent` says which statements there can be: one per start, a
  derived address of its image only, a random address of one start only; `Ongoing` that
  the running process, serving or not yet, can only add one that fits; `Process` that
  what it holds comes from its configuration; `Faithful` that a signature's digest is that
  of its message and target; `TrustedWereTold` that contracts trust only what was told.
  From them `IdentityTypes`, `OneAddressPerStart`, `TrustSurvivesRestarts`,
  `TrustIsOfOneIdentity`, `AcceptanceMeansDecision` (digests are injective, the two
  structs differ, and so do the codes of decisions and reasons), `ConfiguredOrStopped`.

Only model-checked: the seven liveness properties (`ResultRequestsAnswered`,
`SessionsLeaveMap`, `PermitsComeBack`, `TaskEnds`, `BytesDelivered`, `BridgeEnds`,
`RegisteredComesBack`), since the prover does not do fairness or `ENABLED`, and the absence
of deadlock. Every invariant and every action property that a run checks is also a theorem,
but for the three sentences of the documentation that fail.

## 5. Where documentation and code differ

With a run that shows it:

* `README.md:67` says a release needs "status 3 + escrow passed"; status 3 may have been
  seen before `time_settlement`, up to one notarization timeout (`release_observation`).
* `README.md:67` says "status 4-12 rollback"; status 10 does not refund
  (`rollback_range`).
* `item_detail.rs:52` says that `quality` is Steam's raw value, 9 for StatTrak;
  `build_inventory_item` recognises StatTrak by the start of the name and by a tag equal
  to it, and both begin with a star for knives, which are signed as normal
  (`stattrak_quality`). The same prefix keeps these knives from exact tier matchers: they
  get tier 0.

Met while modelling, plain from the text:

* `config.rs:23` calls `max_pending_sessions` the number of sessions "waiting for
  WebSocket upgrade"; upgraded sessions count too until they are answered or expire.
* `chain_reader.rs:196` says "Retries up to 3 times ... (200ms, 600ms, 1800ms)"; there
  are three attempts, hence two retries. Line 85 says 4 `eth_call`s; there are five.
* `attestation.rs:10` and `:62` and `README.md:110` say that `/attestation` answers 503
  outside TDX. `bind_oracle_address`, a "no-op" there according to `attestation.rs:36` and
  `main.rs:414`, sets the address all the same, so the handler goes on and answers 500.
* The sample configuration of `README.md:114-129` has no `steam_factory_address`; a server
  with that file stops at its check.
* The check for the zero address compares texts (`config.rs:118`, `main.rs:378`): forty
  zeros without `0x` pass it.
* `config-mainnet.yaml:15` and `config-tdx.yaml:13` say that the key is generated "at each
  boot"; it is derived, the same at each boot of an image (`signer.rs:44`).

## 6. Not modelled

* The MPC-TLS protocol, TLS and EIP-712 cryptography: libraries, taken to be sound.
  The transcript a task verifies is what Steam answered; a signature belongs to its key.
* Byte-level parsing, gzip, chunked encoding, digit limits; ABI encoding. A parser
  that panics appears as `NotarizePanics`.
* 64-bit overflow of `purchase_time + abandoned_window`: both come from the contract
  (`uint40`, 12-72 hours), far from the limit.
* The encoding of a trade offer id above 2^48, which the contract cuts off: the comment
  at `signer.rs:192` knows it, and ids are model values here.
* That `rpc_url` belongs to `chain_id`: nothing in the code relates the two, so
  `AcceptedMeansDecided` says of the escrow that was read only that its contract has the
  right address.
* A catalog older than Steam's (see `CatalogAssumption`).
* WebSocket framing: a malformed or oversized frame of a client that stays connected also
  ends `ws_to_tcp` (`proxy.rs:151`), and the model ends it for a stream error only when
  the client is gone. `DirectionsIndependent` and `BytesDelivered` are about clients that
  keep to the protocol.
* What TCP does with bytes still on the way when a socket is closed with unread data:
  `BothEnded` leaves them.
* Header negotiation of the upgrade (adapted library code), logging, metrics other than the gauge, the
  heartbeat, the `test-decide` command line: no state that a property could be about.

## 7. Plan

Done, in this order because a wrong signature is the worst outcome and a stuck
service the next: `SessionService` with its abstraction and proofs; `OracleDecision`,
`SteamWorld`, `Notarization` with proofs; `ChainReader` with proofs;
`InventoryAttestation` and `Catalog` with their first proofs; `Proxy` and
`OracleIdentity` with proofs; the remaining invariants of all modules; the chain read of
`Notarization` and `ChainReader` brought together in `EscrowRead`.

Next:

1. Refinement of `SessionService`'s `NotarizeEnds` by `Notarization`.
2. The invariants from which the liveness properties follow by fairness alone (for each
   waiting state, the timer or the other party that ends it), as theorems.
