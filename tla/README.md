# Verification of the Oussouri marketplace

TLA+ specifications of Oussouri, a B2B marketplace for sturgeon products: orders paid into
escrow, stock held in lots, customs and CITES papers, disputes, quotes and brokers
(`src/apps/api`), the work pages of the web application (`src/apps/web`) and the scripts that
import and clear data (`src/apps/api/scripts`). The modules say what the code does, step by
step; TLC checks them on small instances, TLAPS proves the central results for all values of
the constants.

Contents: 1 the system, 2 modelling conventions, 3 modules and code, 4 runs, 5 bounds,
6 fairness, 7 proofs, 8 what does not hold, 9 what is not modelled, 10 plan.

## 1 The system

One NestJS process serves HTTP and WebSocket, receives the webhooks of Stripe, and runs the
outbox dispatcher (an interval) and several cron jobs. All state is in PostgreSQL, reached
through Prisma at the default isolation level, READ COMMITTED; files are in an object storage.
Nothing is shared in memory between requests except the flag that keeps the dispatcher from
overlapping itself, a cache of visibility policies, and the sockets of the notification gateway.
So the actors are request handlers and jobs, their shared state is tables, and every `await` on
the database is a point where another actor may run or the process may die. The browser adds its
own: tabs that share cookies, pages that show what was so when they were loaded, answers that
arrive out of order. The scripts are processes beside the API, run by hand and killed by hand.

### Components

The table lists the parts under `src/apps/api/src` (`modules/` unless it says otherwise), the
state each keeps, its operations and what makes it right. The last column names the module here.

| component | state | operations | what is hard | what makes it correct | module |
|---|---|---|---|---|---|
| state machine (kernel) | `state_transitions`, audit and event rows | `assertAllowed`, `recordInTx` | the check and the write are in different steps of the caller | every change of a status is an edge, by a role on it | `StateMachines` |
| orders (`trading.service.ts`) | `trade_orders` with status and version, items, cart | `addToCart`, `placeOrders`, `transition` | a read before the transaction, a versioned update, side effects on stock, groups that commit one by one | the table is followed, stock moves once, nothing unpaid ships | `Trading`, `Placement` |
| milestones | `payment_milestones` | `createForOrder`, `markPaid`, `settleByPayment`, `assertShippable` | offline and online payments of one order; rounding | blocking instalments are paid before shipping; they add up to the price | `Trading`, `Settlement`, `Pricing` |
| commission, price tiers | rules and tiers | `resolveCommissionRate`, `pickPriceTier`, `create`, `remove` | boundaries, rules that change | the rule or tier in force is used | `Pricing` |
| framework contracts | `trade_contracts` | `create`, `assertCapacity` | capacity read before the orders are written | the volume is kept | `Placement` |
| RFQ and quotes | `rfqs`, `quotes` | `create`, `submitQuote`, `acceptQuote` | status and round are read before the transaction | one order per RFQ, rounds without gaps | `Quotation` |
| settlement | `payments`, `ledger_entries`, payout accounts | `checkout`, `handleWebhook`, `releaseEscrow`, `connectOnboarding` | repeated announcements, four steps of a release, crashes | the ledger balances and follows Stripe, the supplier is paid once | `Settlement` |
| ledger invariants | none (a report) | `checkEscrowNotOverdrawn` and others | | its rules hold | `Marketplace` |
| disputes | `disputes` | `open`, `addEvidence`, `resolve` | row, journal and order status are separate transactions | money is distributed before the order closes | `Disputes` |
| reservation sweeper | none | `sweep`, `releaseOrphan` | reads without locks, racing payments and shipments | abandoned orders give their stock back, others keep it | `Sweeper` |
| inventory | lots, `reservations`, `inventory_transactions` | `inbound`, `reserveInTx`, `releaseInTx`, `outboundInTx` | HELD rows read without a lock; splits over lots | balance, rows and journal agree; first expired, first out | `Inventory` |
| customs (`fulfillment.service.ts`) | `customs_declarations` | `createDeclaration`, `transitionDeclaration` | writes the order without its version | declaration and order move along their tables | `Customs` |
| shipments, documents | shipments, legs, temperature logs, documents, masked copies | `registerShipment`, `addTemperatureLogs`, `registerDocument`, upload, masking | existence checks outside the transaction; storage and row are two writes | an order ships once, with its papers; no row names a file that is not there | `Shipments` |
| CITES | permits and quota lines | `createCitesPermit`, `deductCites`, the migration script | remaining quota read before the transaction | totals are the sums of the lines, quotas are kept | `Cites` |
| certificate expiry | status of certificates, permits, documents | a daily scan | crashes between notifications, scans that overlap | nothing expires early, each holder is reminded once | `Expiry` |
| brokerage, matchmaking | `opportunities` | `claim`, `transition`, `createBrokerOrder`, `runRules` | existence check outside the transaction, writes by id | one open opportunity, transitions along the table | `Brokerage` |
| outbox (kernel) | `outbox_events` | `emitInTx`, `dispatch` | at least once: emitted again after a crash | every event is published in the end | `Outbox`, `Settlement` |
| communication | conversations, strikes, messages, notifications, sockets | `sendMessage`, `notifyUser`, the gateway, the bell of the web | a message passes while the conversation freezes; pushes and lists cross | the third strike freezes, a frozen conversation is quiet, the bell shows each notice once | `Messaging` |
| parties, escalation, code generator | organizations, contacts, escalations, code sequences | register, approve, contacts, request and decide access, `viewSensitive` | sequences that jump, decisions without a status check, a window of time | codes do not collide, confidential fields are read by grant | `Parties` |
| catalog, translations | products, translations | create, update, submit, review; draft, review | a text reviewed is not the text approved; a draft over a review | what is on sale was looked at; a reviewed text stays | `Listings` |
| traceability | care, processing batches, lots | care, process, quality control, inbound | the withdrawal is checked outside the transaction | nothing is processed within a withdrawal | `Listings` |
| visibility (kernel) | policies and their cache | `apply`, change of a policy | a read that races a change fills the cache afterwards | a change is in force when the cache has lapsed | `Policies` |
| sessions (`iam`) | accounts, sessions, tickets, reset tokens | login, MFA, refresh, logout, change and reset of the password | rotation with a grace of 10 s, tabs that share a cookie | a browser stays signed in until its user ends it | `Sessions` |
| data-subject requests (`compliance`) | requests, exports | submit, decide, export, erase | erasability is checked before the transaction, files before rows; access tokens outlive the account | who is erased is gone, and on request | `Access` |
| files (kernel) | object storage | put, presign | a put that fails | see documents, exports | `Shipments`, `Access` |
| web application (`src/apps/web`) | what pages show, cookies | load, act, reload | stale pages, answers out of order, lost answers | what a page offers is not refused, stale acts do no harm, nobody is stranded | `Pages`, `Desk`; bell in `Messaging`, refresh in `Sessions` |
| import scripts (`scripts/seed-*.ts`) | none | sequences of guarded writes | killed and run again | they can be repeated | `Imports` |
| purge of test data (`scripts/lib/test-data.ts`) | none | find, collect, delete | runs beside the traffic | real data stays, nothing dangles | `Upkeep` |
| PII filter, crypto, audit, config | audit log | | | no state that two actors meet in | none |

### Interactions

* `placeOrders`, `acceptQuote` and `createBrokerOrder` write an order in PLACED and call
  `InventoryService.reserveInTx` in the same transaction.
* `TradingService.transition` is called by the order endpoints, the webhook, the release, the
  sweeper and disputes. It calls `InventoryService` (release on CANCELLED, outbound on SHIPPED),
  `FulfillmentService` and `MilestoneService` (guards), and writes the outbox.
* Customs writes the status of an order itself, next to `transition`.
* The dispatcher emits `OrderDelivered` to `SettlementService.onOrderDelivered`, which pays the
  supplier and asks for COMPLETED; `AccessEscalated` to the notifications of super admins;
  `ProductPublished` to the translations.
* `DisputeService` reads and writes payments and the ledger, and moves the order.
* The sweeper reads reservations, orders and payments, and cancels through `transition` or
  releases the stock itself.
* The matchmaking reads RFQs, orders and lots and writes opportunities; brokers place orders.
* The expiry scan writes the rows that documents, permits and certificates are, and notifies.
* An erasure asks for orders under way, revokes sessions and deletes memberships.
* Pages call the API and read it again; the bell has a socket as well as the list.
* Import scripts go through the API and the database; a purge goes through the database only.

## 2 Modelling conventions

* A handler is a sequence of actions cut at its database statements wherever another actor
  could make a difference. Its local variables are a *frame*: a record with `at` (what it does
  next) and what it has read. A pool such as `Hooks` is the set of handlers of one kind that can
  be in progress at once; a pool given as `{}` leaves the component out of an instance.
* A group of components that hardly meet is composed into one module, and a variable drawn in
  the initial state and never changed (`team`, `cast`, `desk`) says which actors take part in a
  behaviour. The sets it is drawn from (`Teams`, `Casts`, `Desks`) are in the MC modules. Some members are no
  actors but switch a behaviour on: `"crash"` lets handlers be lost, `"fail"` lets listeners throw,
  `"cross"` lets handlers of one row overlap that are kept apart otherwise, `"order"` lets orders be placed meanwhile. A
  property that needs such a condition has it as a hypothesis, and section 8 says what
  happens without it.
* A row lock that a transaction holds across several of our steps is a guard of the steps that
  would wait for it (`Locked`, `DeclarationLocked`). A transaction whose first statement takes
  the lock and whose other statements touch nothing contended is one step.
* Two reads are merged into one step only when what they read cannot change back: a registered
  document is never unregistered, a paid milestone never unpaid.
* A crash loses every frame and keeps every table. `Marketplace` has it as the action `Crash`. In
  `Sourcing` and `Inventory` a handler that never takes its next step is one that crashed, and
  `Rollback` returns it; without fairness every run includes that.
* A request carries one role. The code unions the roles of a user; an edge is allowed if one of
  them is on it, so a user with two roles is two requests here.
* Amounts are integers in minor units; the rounding of the commission is modelled; how prices,
  instalments and commissions come about is `Pricing`, which has amounts in hundredths of a cent until they are
  stored (a fixed instalment is any positive number, `trading.controller.ts:23`, and `Decimal(14,2)` rounds it). Quantities in `Placement` are units of
  one order line.
* Stripe, the buyer and the passage of time are environment: `Charge`, `PaymentAges`,
  `TtlExpires`, `DisputeWindowCloses`, `Deadline`, `ValidityEnds`, `MonthPasses`, `DayPasses`, `Tick`.
* One API process is assumed, as the code assumes it (the dispatcher's flag is per process).
* Properties that belong together are checked as one (`MoneyOnce`, `BooksAgree`, `RequestsKept`
  ...); its conjuncts are definitions of their own with a comment each. The type invariant of a
  root module is one of the conjuncts.
* Definitions whose comment begins "Mutant of" are not part of a specification. Each is a bug that
  could be made at that place and that the named property must detect.

## 3 Modules and code

```
StateMachines
  |- Trading ---------- orders, transition(), guards, requests
  |    |- Settlement -- checkout, webhook, release       |- Customs
  |    |    |- Disputes
  |    |    |- Sweeper
  |    `----------------> Marketplace  (all of the above, with crashes)
  |                         |- MCMarketplace          INSTANCE EscrowSale (abstract)
  |                         `- MarketplaceSafety   (proofs)
  |- Placement <- Quotation <- Brokerage --.
  |                              Pricing --+- Sourcing <- MCSourcing,  SourcingSafety  (proofs, with Sums)
  |- Sessions <- Access <- MCAccess --.
  `- Pages <---- Desk <--- MCDesk ----+- WebSafety  (proofs of Access and Desk, with Sums)
Inventory <- MCInventory,  InventorySafety  (proofs, with Sums)
Expiry <- Shipments --.
   `----- Cites ------+- Fulfillment <- MCFulfillment,  FulfillmentSafety  (proofs, with Sums)
Outbox <- Messaging <- Parties --.
   |- Listings ------------------+- Platform <- MCPlatform,  PlatformSafety  (proofs, with Sums)
   `- Policies ------------------'
Imports <- Upkeep <- MCUpkeep,  UpkeepSafety  (proofs)
```

| module | code | state |
|---|---|---|
| `StateMachines` | `prisma/seed/index.ts`, `kernel/state-machine` | none: tables as sets of edges, `Allowed`, `Emits` |
| `Trading` | `trading.service.ts`, `milestone.service.ts`, guards of `fulfillment.service.ts` | `order` (status, version, dispute window), `reservation`, `paid`, `paperwork`, `outbox`, and per caller the `transition()` it is in (`call`) |
| `Settlement` | `settlement.service.ts`, `outbox.dispatcher.ts` | `payment`, `ledger` (balance per account and order), `transfers` and `charged` at Stripe, `onboarded`, frames `checkout`, `hook`, `release` |
| `Disputes` | `dispute.service.ts` | `dispute`, frames `opening`, `evidence`, `ruling` |
| `Sweeper` | `reservation-sweeper.service.ts` | frame `sweep` |
| `Customs` | `fulfillment.service.ts:426-495` | `declaration`, frame `customs` |
| `Marketplace` | the composition; its end maps `order`, `reservation`, `ledger` and guards to `EscrowSale` | `crashes` |
| `EscrowSale` | what the platform promises of a sale | `stage`, `goods`, `received`, `cleared`, `shared` |
| `Inventory` | `inventory.service.ts` and the CHECK constraints | `lot`, `row`, `journal`, `inbound`, `spoiled`, the open transactions `tx` |
| `Placement` | `trading.service.ts:42-207`, `contract.service.ts` | `orders`, `available`, `contract`, `cart`, frame `placing` |
| `Quotation` | `rfq.service.ts` | `rfq`, `quotes`, frames `submitting`, `accepting` |
| `Brokerage` | `brokerage.service.ts:146-295`, `matchmaking.service.ts` | `opportunity`, `aged`, frames `working`, `matching` |
| `Pricing` | `price-tier.util.ts`, `commission.controller.ts`, `milestone.service.ts`, money of `trading.service.ts` and `settlement.service.ts` | `rules`, `bill` |
| `Sourcing` | the composition | `team` |
| `Expiry` | `cert-expiry.service.ts` | `cert`, `inbox`, frame `scan`, `today` |
| `Shipments` | documents, uploads, masked copies, shipments, legs and temperatures of `fulfillment.service.ts` | `fileKey`, `masked`, `stored`, `copies`, frames `upload`, `copier`; `goods`, `shipments`, `breaches`, `alarms`, frames `registrar`, `shipper`, `logger` |
| `Cites` | permits of `fulfillment.service.ts`, `scripts/migrate-cites-lines.ts` | `permit`, `line`, frames `inspector`, `migrator` |
| `Sessions` | `auth.service.ts`, `web/lib/api.ts` | `account`, `sessions`, `resets`, `ticket`; `jar`, `signedIn`, `refreshing`, `calling`, `form` of the browsers |
| `Access` | `gdpr.service.ts`; the composition with `Sessions` | `requests`, `exports`, `order`, `member`, frames `submitting`, `deciding`; `team` |
| `Outbox` | `outbox.service.ts`, `outbox.dispatcher.ts` | `events`, `running`, frame `dispatch` |
| `Messaging` | `communication.service.ts`, `notification.gateway.ts`, the bell of the web | `strikes`, `frozen`, `notices`, `sockets`, `bell` with the lists it has asked for, frames `sending`, `telling` |
| `Parties` | `party.service.ts`, `code-generator.service.ts`, registration of `auth.service.ts` | `parties`, `currentSeq`, `contacts`, `escalations`, frames |
| `Listings` | `catalog.service.ts`, `translation.service.ts`; of the batches that are listed, `traceability.service.ts` and the guard of `inbound` | `product`, `translation`, frames `editing`, `reviewing`, `drafting`; `care`, `batches`, `lots`, frames |
| `Policies` | `visibility.service.ts` | `policy`, `cache`, frames `reading`, `changing` |
| `Pages` | the pages and panels of `apps/web`, the endpoints they call | none: tables of buttons, requests and handlers |
| `Desk` | how the pages load, act and reload (`page.tsx`, `lib/api.ts`) | `row` (the database), `shown`, `loads`, `acts`, `busy`, `forgot` (forms that went away during their call); `desk` |
| `Imports` | `scripts/seed-*.ts` | `orgs`, `rows`, `stock`, `orders`, `enriched`, `runs` |
| `Upkeep` | `scripts/lib/test-data.ts` and its callers; the composition with `Imports` | `lots`, `checked` (buyers whom a placement has read), `deals`, `holds`, `purges`; `cast` |
| `Fulfillment`, `Platform` | the compositions | `team` |

How `transition()` (`trading.service.ts:235-287`) is cut: `Begin` is the read and
`assertAllowed`; `ShipGuards` the two guards of a shipment; then one of `VersionConflict`,
`CommitTransition`, `CommitCancel`, or `LockShip` followed by `CommitShip` or `AbortShip`. A
shipment is two steps because `outboundInTx` reads the HELD rows without a lock and the sweeper
may release them before they are marked; `AbortShip` is the CHECK constraint that this can
violate. Callers that continue after `transition()` (a rejected dispute) do it in `Continue`.

How a payment is handled (`settlement.service.ts:96-138`): `HookStart` reads payment and order,
`HookSettle` opens the transaction with the update of the payment and reads the unpaid
instalments, `HookBook` commits payment, instalments and journal, `HookAdvance` starts a
transition of its own.

How the escrow is released (`settlement.service.ts:142-208`): `Dispatch` emits the event,
`ReleaseStatus` reads the order, `ReleaseTransfer` looks for a dispute and pays at Stripe,
`ReleaseBook` writes the journal, `ReleaseComplete` starts the transition, `Publish` marks the
event. A refusal at any place goes on to `Publish`, since `onOrderDelivered` catches it.

`Inventory` looks closely at what `Trading` keeps as one record per order: several lots per
order, quantities and the journal. Its `phase` is the order status reduced to what decides which
inventory transaction may run. `Placement` keeps the stock as one number per supplier, `Pricing`
the money of one order that `Settlement` has as `Total` and `Terms`.

`EscrowSale` is the abstract specification: an order is open, funded, shipped, closed or
cancelled; goods are held and leave with the shipment; a shipment needs money received and
conditions cleared, a closing needs the price shared out. `Marketplace` maps the statuses to
stages, the reservation to the goods, and evaluates the conditions on ledger, papers and
instalments (`Sale`). Two actions of the abstract specification, `GiveBack` and `Reopen`, are no promise but what the
code does besides (section 8).

How the web is modelled: `Pages` has, per page, which kinds of rows it requests and which
buttons it draws from them, and, per call, from which rows the API accepts it and what it makes
of them. Rows that no page shows but a handler asks for (a deadline, the validity of a quote, stock, which
Stripe there is, who looks at an order) are kinds of their own, drawn or changed by `Setbacks`. `Desk` lets people load pages, press buttons and load again, with requests that fail,
answers that are lost and answers that overtake each other. A behaviour is *patient*
(everybody waits for every answer: is anybody stranded, is anything offered refused?) or not
(do stale pages do harm?).

A script is a sequence of steps: a gate looks whether something exists, a write
depends on what its gate found, and a kill may come between any two. What a rerun repeats and
what it finds follows from the rows that are left. Looks are assumed to be answered (section 8). The papers of an
order (confirmation, shipment, documents, declarations) are written by the run that placed it; the contract of
Liangmei likewise, by every run.

A bell has one row per list it has asked for (`loads`), since nothing cancels a request: a list asked for in one
session may come in the next. `reached` is what was pushed and is not in a list that came later. A placement
beside a purge is two steps, the look at the buyer (`DealChecks`) and the transaction (`Deal`).

## 4 Runs

Passing runs (distinct states found by TLC):

| run | states | question and answer |
|---|---|---|
| `MCLifecycle` | 1.5 M | Do requests, a webhook, offline transfers and an officer who writes without a version keep an order with deposit and blocking balance on its table, ship it once and only paid? Yes: the version check of `transition()` is what carries it. |
| `MCDisputes` | 1.2 M | Release, dispute, evidence and ruling on one delivered order, with a crash: the journals balance, an order in DISPUTED has its row, and it closes only after its price was distributed. |
| `MCEscrow` | 216 k | Two intents, each announced twice, the release and the sweeper, one webhook at a time and without a crash: the handlers implement `EscrowSale`; intents are reused, the ledger equals what Stripe collected, the escrow is not overdrawn, there is one transfer (each under the condition its definition names); a cancelled order holds nothing; abandoned orders are swept and collected payments advance their order (section 6). |
| `MCInventory` | 100 k | Three orders on two lots, cancellations, shipments and an orphan release interleaved: the journal explains the balances, also when a release and a shipment consume the same rows; without such a race the rows explain them too; a shipment is complete; holds are first-expired-first. |
| `MCSourcing` | 502 k | Placements, quotes, acceptance, matchmaking and brokers on one stock: the volume of a contract, the rounds of quotes, the table of opportunities and the absence of duplicates are kept, each under the concurrency its comment names. In other behaviours, the price of an order: instalments add up to it (to the cent, if the amounts asked for are in whole cents), no payment settles what it did not bring. |
| `MCFulfillment` | 829 k | Scans that crash or overlap, uploads and copies whose storage fails, registrations that race a shipment, deductions that race each other and the migration: nothing expires early, a scan started over reminds nobody twice, no row names a file that is not stored, an order ships once with its papers, permits and lines count the same. |
| `MCAccess` | 1.6 M | Tabs and browsers that refresh while one changes or resets the password, and staff that exports and erases: within its grace the rotation signs nobody out, an export has its file, an erased account starts no sign-in, change or reset, no order is left to a party that is gone. |
| `MCPlatform` | 454 k | Outbox, notifications, freezing, registration, contacts, escalations, reviews, translations, the trace and the policies: an escalation is told to all, a bell shows once what no later list has replaced, the third strike freezes, codes do not collide, confidential fields are read by grant or in the list of the parties, a change of a policy comes into force, a reviewed translation stays. |
| `MCDesk` | 77 k | What a page just loaded offers is accepted, but for the refusals that `KnownRefusal` lists; nobody who works at the pages gets stuck, but with the tenders and leads of `KnownStranded`; decisions on what is no longer so are refused; failed and late answers hide no queue but the one of the disputes; a form sends once and comes back. |
| `MCUpkeep` | 1.3 M | Import scripts killed once and run up to three times, purges beside orders: nothing with a number is doubled but the contract of Liangmei, HZB and Tuopai come to their end once at most, real companies are never cleared, a purge leaves no row that points to what is gone, but for those that came while it ran. |

Runs that find a disagreement between the code and what it says of itself:

| run | property | what happens |
|---|---|---|
| `VReleaseTwice` | `EscrowNotOverdrawn` | crash after the journal of a release and before the event is published: emitted again, the order is still DELIVERED, the escrow is debited twice |
| `VEditSlipsIn` | `PublishedIsReviewed` | `review()` sets ACTIVE by id; an edit made while a reviewer looks at the product goes on sale unseen |

Deadlock checking is off in every run: orders end, users need do nothing, and pools and bounds
run out, so a state without a successor is a normal end. Where something must go on, a liveness
property says so.

## 5 Bounds, and why they are enough

* `Orders`: one. No handler of `Marketplace` touches two orders and no invariant relates two;
  what orders share is stock, and `Inventory` has three orders on two lots. The theorems are for
  any number of orders.
* Pools: two handlers where a race of two of the same kind is the question (`Clients` in
  MCLifecycle, `Submitters`, `Brokers`, `Scans`, `Registrars`, `Inspectors`, `Clerks`), else one. A race of
  three handlers on one versioned row has one winner and two conflicts, like two races of two.
  Three senders and three registrations are there since the threshold is three strikes and the
  codes jump by up to `JumpMax` = 2.
* `MaxPayments`: a checkout needs an intent left; two allow a deposit and a balance, or a
  retried checkout. A checkout begun after the last intent could only reuse one or fail.
* `MaxDeliveries`: one or two announcements of each payment; the second is the case of interest.
* `MaxDisputes`, `MaxEdits`, `MaxCrashes`: one dispute, edited up to version 2; one crash.
* `Total` = 100, `RatePct` = 8, `Refunds` = {30}: commission that rounds, a partial refund with
  three shares that must add up; the proofs leave them open.
* `Inventory`: two lots and quantities 1 and 2 make splits, exact fits and shortages; `MaxStock`
  = 2 per lot.
* `Sourcing`: `Stock` = 1 makes shortages at once, two suppliers make two groups, `Cap` = 1 is
  exceeded by two lines. `Teams`: any two handlers, all handlers of one service, and a placement
  with a broker and two suppliers. The services meet only in `orders`, `available` and
  (matchmaking) `rfq`, so three-way interleavings add no new meeting of two steps.
* `Pricing`: weights of 1.25, 2 and 3.33 lie below, on and above the border of two tiers and leave
  fractions of a cent; the ten term lists have shares that do not divide evenly, that are
  off by 0.01 %, zero or negative, and fixed amounts below and above the price, in whole cents and not; two rules are of
  the category and of none.
* `Fulfillment`: `MaxDay` = 2 passes two buckets (1 and 2 days, for 7, 30 and 60 in the code) and the expiry;
  two permits of one number make a merge, two species two lines; `Kg` = {1, 2} fits,
  exhausts or exceeds a quota.
* `Access`: `REFRESH_GRACE` = 2 ticks and `Latency` = 1, so that an answer may take half of the grace;
  `MaxClock` = 3 passes it; `MaxSessions` = 4 rotations, `MaxTokens` = 1 reset mail, `MaxRequests` = 3.
* `Platform`: a batch of one (50 in the code) makes every second event wait for the next firing;
  `MaxFails` = 1 failure or restart, wherever one can happen; `Window` = 1 (30 min),
  `CACHE_TTL` = 2 (60 s), `Latency` = 1 and `MaxClock` = 3 let a window and a cache lapse; one
  change of a policy, two texts per product, one drop of a socket or end of a session (so two lists of one bell), one escalation;
  of the fields of high sensitivity one that the list of the parties shows and one that it does not.
* `Desk`: the rows of one case at a time; two presses, one change elsewhere (a setback, such as a deadline that passes,
  among them) and one failure on two pages make every order of a press, an answer and a change. One behaviour has three presses of the
  checkout, the least that lets it go away and come back while its call is in flight. Patient
  behaviours have no bound.
* `Upkeep`: `MaxRuns` = 3 of a script with one kill, so that a rerun follows a rerun; one order
  placed during a purge, before or after it has committed, and one abort.
* Symmetry is used on interchangeable handlers, suppliers, members and orders, and only where a
  run checks no liveness.

The bounds do not hide the cases: each property of a passing run has a mutant that TLC finds
within the same bounds.

## 6 Fairness

`Marketplace!FairSpec` assumes weak fairness of: the steps of a `transition()` that was begun (the
process runs it), the start and the steps of a webhook for a payment that Stripe collected (Stripe
announces it), the dispatcher, the two later steps of a ruling, and a sweep (cron). Weak fairness
is enough: a step that is enabled stays enabled until it is taken, except for starts, which are
retried by timers. Users, checkouts and customs officers have none. MCEscrow has no crash: with
crashes `PaymentAdvancesOrder` fails, since after a crash between booking and transition Stripe
announces the payment again, it is SUCCEEDED, and nothing else moves the order.

`Platform!FairSpec` assumes weak fairness of the dispatcher with its listeners: the interval
fires and the event loop runs what is due. Failures of the database, throwing listeners and
restarts happen, but at most `MaxFails` times. Nothing else is fair there; `AllPublished` needs no more.

`Desk!FairSpec` assumes that requests in flight are answered or fail, and calls likewise: an HTTP
client ends every request. Nobody has to press anything.

## 7 Proofs

A theorem holds for any number of orders, handlers, users and rows, and for any behaviour of the
environment, crashes included. Assumptions: those of the `ASSUME`s in the modules, nothing else. Pools of
handlers are subsets of `Callers`, at most one dispatcher, terms are sequences of positive amounts,
`Total` is positive, `Kg` is not empty, `RatePct` \in 0..100, bounds are natural numbers. What is counted is finite (`Refs`, `Buyers`,
`Scans`, `Registrars`, `Loggers`, `Species`, `Permits`, `Buckets`, `Senders`, `Keepers`, `Suppliers`, `Placers`,
`Acceptors`, `Matchers`, `Inspectors`, `Migrators`, `Kg`: there are finitely many handlers, orders and rows in any system), as are `Clerks` and the `Browsers`, which are signed in when a
behaviour begins and therefore no more than `MaxSessions`. An answer to a refresh takes at most half of
the grace (`2 * Latency <= REFRESH_GRACE`: 5 s of 10; with a longer one a tab may find its token revoked for
good). No super admin has the name `"rule"`, no contract the
name for the absence of one, and the lifetime of the cache is positive. The four companies that the scripts register have
accounts that `PROTECTED_EMAILS` names (`lib/test-data.ts:40`), Tuopai has a farm at least (the list is a literal), and the lots of
the importers that order are enough for one order, those of HZB and Tuopai not for two (50 kg for an order of 50 kg,
`seed-hzb-case.ts:106-116`; 15 and 45 kg for orders of 11 and 41 kg, `seed-tuopai-supplier.ts:132,137`; 20 kg for 5 kg,
`seed-liangmei-supplier.ts:156,161`). TLC evaluates all of them in every run.

Everywhere the difficulty is the same: no property is inductive by itself, because a handler decides on what it
has read earlier, while others write. The invariant therefore says of every frame what is still
true of what it remembers, and why nobody can have made it false.

`MarketplaceSafety` proves `TypeOK` (`TypeCorrect`) and the life of an order first. `OrderInv` adds what the version
column guarantees:

* `CallsOK`: the version of a frame is at most that of its order, and if they are equal the status
  the frame has seen is the current one, the edge to its target was allowed from it, and, for a
  shipment past its guards, the order is paid up and ready;
* `OneShipper`: at most one caller is inside the transaction that ships an order, since it holds the row;
* `CustomsOK`: a customs frame that is about to move an order follows a status past SHIPPED, from
  which no step leads back;
* then `OutboundOnce`, `PaidUpBeforeShipping` and `CancelledHoldsNothing`.

It follows that goods leave once (`GoodsLeaveOnce`), that guards evaluated before a transaction
still hold in it (`NothingUnpaidShips`), that cancelled orders hold nothing
(`CancelledOrdersHoldNothing`) and that `transition()` takes edges from the status at the moment
of the write (`TransitionsAreEdges`).

Then it proves four properties of the money. `MoneyInv` adds to `OrderInv` what frames remember of
what their handler has written (`HandlersPrepared`, `CallsPrepared`): a hook about to advance an
order has booked its payment, a release or ruling about to close an order has written its journal,
an opening about to move an order has written its dispute. As journals only add and disputes
are never deleted, this stays true until the transition commits. `NeverNegative` and
`PositiveAmounts` make "booked" mean more than zero. Results: `LedgerBalances`,
`NoProgressUnpaid`, `ClosedIsPaidOut`, `DisputedOrdersHaveRows`.

Its fourth part proves that the handlers implement the abstract sale (`SaleImplemented`). `SaleInv`
adds to `MoneyInv` that a hold is HELD or not as its order says (`HoldFollowsOrder`), that payments are of
orders that exist (`PaymentsOfOrders`), that a swept orphan is of an order past its placement
(`OrphansArePast`) and that a payout follows a shipment (`PayoutsOfShipped`). One lemma says which handlers
write orders, holds and ledgers at all; every other step stutters. The twelve that do write
have a lemma each, which names the action of `EscrowSale` the step is: its guard on money and conditions comes
from the frame (the guards of the shipment, the prepared journal), not from the state read again.

Its last part is `MoneyMovesOnce`. What is counted (pending intents, transfers, what is in transit) is compared with
what may still come: `BookingInv` adds to `SaleInv` that the intents pending plus the checkouts that
may still create one are no more than there are checkouts (`IntentsCounted`); that the announcements of a payment
are counted with the frames that may still book it (`AnnouncementsCounted`, `BookedOnce`), so that the ledger gets each
collected payment once when they come in turn; that the event of a delivery is in the outbox once, and nothing is
transferred or paid out before the dispatcher gets that far with it (`PayoutsCounted`); that an order without instalments
is paid in whole or not at all (`WholePrices`) and that only a dispute refunds (`RefundsDisputed`).

`Sums` has what the next modules need of sums over finite sets. The library defines them by folds, and induction over
sets is out of reach here; the facts (a sum does not depend on the order, one element more, one element
changed, equal terms, bounds) are obtained by looking at a smallest set that would violate them.

`InventorySafety`: `InventoryInv` says of each transaction in progress that it has read all rows of its order, that
these are all held or none is, that what is not held any more was undone once at least, and that one
transaction at a time has locked the lots of an order (`OneLock`). With it the two sums of
`BooksAgree` move with each row: `StockIsJournal` and `ReservedIsHeld` (`BooksAgreeAlways`). `EarliestFirst` shows the
allocation of `reserve` to be first-expired-first by how much each lot leaves to the next.

`FulfillmentSafety`, one part per group of handlers:

* reminders: what a scan will mark EXPIRED was overdue when it listed it (`MarksOverdue`) and no step moves
  the date of a row; whom a scan has still to tell was not told in this bucket (`ScanOK`, `SendsAreNew`);
* files: an object is put before the row that names it is written;
* shipments: the only registration that has seen no shipment will create the first
  (`RegistrationsOK`); what was checked before the transaction stays, since papers are only added (`ChecksHold`);
  alarms told plus alarms owed, summed over the loggers, are the breaches (`AlarmsDue`);
* permits: what is used and what deductions in progress are about to add exceed the quota by no more than the
  largest deduction of each inspector but one (`QuotaOK`): one alone has seen what is used now. Rows of one
  number differ in species, what the script has read of its groups is still so (`LinesHold`), and a merge moves the sums
  of the rows to the lines of the one that stays (`Pooled`, `GroupSums`).

Results: `RemindersAlwaysKept`, `FilesAlwaysStored`, `ShipmentsAlwaysKept`, `PermitsAlwaysKept`. The last holds under the
hypotheses that `PermitsKept` states: one run of the migration at a time for the totals, and for the quota a migration
or several inspectors at once, not both. Both are needed (section 8).

`PlatformSafety`: the parts of `Platform` share the outbox, the clock and the team only. `PlatformInv` has a
conjunct for each, and a step of one part changes nothing the others speak of (`PartSteps`,
`DeliverySteps`).

* Whom a listener has not on its list any more has a notice (`AdminsTold`); a notice is pushed by one firing
  (`PushedOnce`, from `OneDispatch`) to one connection (`OneSocket`), and leaves `reached` with the answer of any list that
  does not have it, of whichever session: `NoticesArriveTheorem`.
* Three strikes have a handler that will count them or a frozen conversation (`StrikesHandled`: of the handlers that
  count, the last sees all strikes); the messages after a freeze leave out one request (`FrozenLeavesOne`):
  `FreezeHoldsTheorem`.
* Codes in use are not beyond the counter, a code about to be used is (`CodesAhead`, the row lock); a request that is alone
  finds no primary contact after it has demoted them (`FirstIsFree`); an approval runs out a window after its grant
  (`ApprovedByGrant`), and what no grant covers is in the list of the parties: `PartiesKeptTheorem`.
* Rows of the cache that are not those of the policy were asked for before it changed (`StaleWasEarly`), so they are gone one lifetime
  and one latency later: `PolicyInForceTheorem`.
* Unless handlers of a row cross, what a reviewer looks at is what the product is (`LooksAndEdits`) and medications
  have ended when a batch is made (`CareEnded`): `GuardsHoldTheorem`.
* The listener that waits for the model has found no row of the translation (`NoRowYet`), and there is one dispatch at a time:
  `ReviewedStaysTheorem`.

`WebSafety`, first part: `AccessInv` is `SessionsInv` for the rotation of tokens and `PrivacyInv` for requests.

* A refresh token is in the hands of one browser, that of its user: in its jar or with its tabs
  (`SessionsOwned`), what is on its way to a tab is nowhere else (`NewIsUnseen`), and answers come within
  `Latency` (`OnTime`). So as long as nobody ended the sessions, a token is revoked only by a tab
  that will bring the next one, and the other tabs that have sent it are within the grace
  (`TokensLast`): `SessionsHoldTheorem`.
* A submission that is alone has found no pending request (`SubmissionsOK`), what a clerk does fits the request, and
  a clerk who is alone decides on a pending one (`DecisionsOK`): `RequestsKeptTheorem`.
* The links of an erased account are gone (`LinksGone`), and orders of who is no member, or about to be none, are
  over (`OrdersDone`, with `EdgesInFlight`: no edge leaves a status that does not count as in flight, but the
  DRAFT no order is in): `ErasedIsGoneTheorem`.

`WebSafety`, second part: `DeskInv`, for any set `Desks` of behaviours that begin with rows that agree (`Sound`) and, where
everybody waits, with the pages of all who take part (`Staffed`); `DeskAssumption` says that and no more. Thousands
of combinations of rows are possible, so the tables of `Pages` are proved one group of calls at a time:

* whatever a handler accepts, it leaves rows that agree (`RowsKept`). The lemmas `Takes...` say for which rows each group of
  calls has a handler; from them a button drawn from what the rows are is served but for the known refusals (`DeskServes`), and a case that is
  neither final nor one of the stranded has a button or a job that moves it (`AllOnward`, one lemma per kind of case): `DeskLeadsOn`.
* an answer carries rows as they were when it was read, not before the change its page knows of (`ShownInv`, `OwnInv`), and what
  lists of administrators were told is in `past` (`KnownInv`); a failed request empties none of them but that of the disputes.
  Each deciding button is drawn from the one status its handler asks for (`ButtonsOf`, `AsksFor`), so a handler that accepts
  finds what the presser saw: `DeskIsTrue`.
* as long as a form stays on its page its call in flight has it disabled and is the only one (`BusyInv`): `DeskHolds`.

The proof corrected the model twice. The answer to one call must not enable the form of another: confirming a delivery leaves
the checkout of the same page as it is. And the checkout is removed from the page when the order is no longer payable and
forgets its call, which needed `Mounted` and `forgot` (section 8).

`SourcingSafety`: `SourcingInv` has a conjunct for each of the four parts of `Sourcing`, which share the orders and what is
available. An order that another part writes names no contract and comes after those that are linked
(`OrderedElsewhere`, `OrdersGrow`).

* A placement that is alone has room in its contract for what it has still to write (`RoomLeft`): a
  group takes one unit from the room and one line from the rest, a cancellation only adds room. An item of the cart
  changes without its version in the step that ends a placement and nowhere else: `PlacingKeptTheorem`.
* The rounds of a supplier on an RFQ are all the numbers up to the count of its quotes (`RoundsTaken`), so a
  round that was counted is either taken by now, and the write is refused, or still the next one
  (`RoundsCounted`). Quotes are never deleted, and who accepts alone finds the RFQ as it was when it
  looked (`StillQuoting`: no step but an acceptance leads away from QUOTING): `TendersKeptTheorem`.
* A move whose version is that of its opportunity was allowed from the status the opportunity has
  (`MovesAllowed`), an order is linked once (`LinksOnce`), and the opportunity that a lone run is about to
  create has no rival (`RunsLookFirst`): `OpportunitiesKeptTheorem`.
* `BillsHoldTheorem`: the rounding of each share is off by half a cent at most (`NearestShare`); what the
  instalments before the last leave is what the last gets (`PlacedAddsUp`), each amount that is not in whole cents being off by half a cent when it is stored; summed over the terms, with a sum
  of percentages within 0.01 % of the whole, the last is off by the rounding of the others and that
  tolerance (`PlacedShared`). A payment settles a set whose sum it covers (`CoveredSum`). All sums are
  of arbitrary length, by the lemmas of `Sums`.

`UpkeepSafety`: first what the five scripts are, whatever the number of farms: sequences of proper steps (`ScriptsAreProper`),
whose kinds are listed in `StepsOf` and whose order follows one ranking (`ScriptsAreMade`), so that all that follows argues about
the kinds and ranks of steps and not about five lists. Then `UpkeepInv`, which is `ImportsInv` for the runs (one at a time, `OneRun`) and `PurgesInv` for the purges:

* what is real and was found is there when a purge asks for the protected accounts, since nothing real
  is ever cleared, so from then on its list is free of it (`SparesReal`): `RealIsUntouched`;
* from the moment it has collected, its orders are all those of its companies but the ones it was too early for
  (`OrdersCollected`); from the deletion of the holds on, what it has deleted are all the holds of its orders and lots
  but those that came before the lots were locked (`HoldsCollected`). Other purges only take away from what it
  looks at, no order is placed with a lot that is being deleted, and an order whose buyer is cleared when it is written is one
  of those named: `PurgesAreClean`.

`ImportsRepeatable` has five parts and needs five more invariants:

* `OnceInv`. A row that is looked up is there once (`OwnOnce`). A row behind a gate implies what the gate looks for (`Gated`) and
  has as many copies as a whole run writes, or, in the run that found the gate missing, as many as the steps it has passed
  (`NewInTurn`). The two hold each other up: a later run finds the gate, because what the gate looks for was written first
  (`GateFirst`). The gates of units and farms look for what is written last, or count, which is why `Doubled` is
  excepted. What has no lookup but comes with an order is bounded by `SoldOnce`.
* `Stocked`: what is in stock and what live orders hold add up to the lot, through placing, paying, delivering and the sweeper. A
  second live order would need twice what the lot has: `OneOrderEach`. `LastIsLive` says that the order a run pays or delivers
  is the one it has placed; the sweeper takes none that is paid, and none while a run is under way.
* `SuccessInv`: what a run needs before it orders is there (`Stepped`, `Approving`), and what would stop it is not: where nothing was
  killed there is an order per run that ended and one of the run that has placed its own (`OrderPerRun`), and the lots of HZB are out of date
  only after a run of it (`Expired`). So the lots hold one more order unless the runs that ended have used them up (`UsedUp`), or
  the buyer has registered himself: `FirstRunsSucceed`.
  The last case is in the property because the API lets anybody register, and the scripts then only log in.
* `SoldOnce`: an order of HZB or Tuopai that was paid is never cancelled and leaves too little stock for a second. So until a run has
  paid, none was sold, no paper of an order is written and no run has ended; afterwards no run gets past its order. The papers
  are there as often as that one run has got to (`NothingComesTwice`), and a run ends once (`SellersEndOnce`).
* `Whole`: an import that was never killed has been done up to one of three halts (nothing, up to the order that was
  refused, all) and, in its run, up to where the run is; what has no lookup is there once for every run that ended. With it,
  a run that begins again writes nothing before its halt (`GatesSeen`) and everything after it, whatever the other
  imports wrote to the companies they share: `ImportsRepeat`.

Checked by TLC only:

* the liveness properties (`PaymentAdvancesOrder`, `AbandonedIsSwept`, `AllPublished`, `FormsComeBack`, which is the liveness of
  `FormsHold`): fairness is out of reach of the prover. Every safety property of the passing runs is proved.

## 8 What does not hold

Besides the two runs above, the model contains these behaviours of the code, or a property has
a hypothesis because of them; no property denies them and none is claimed to be intended.

Orders and money:

* **Announced twice at once.** Two announcements of one payment pass the status check of
  `settlement.service.ts:110`, which is outside the transaction, and both book. A refunded payment
  announced again is booked again: `onPaymentSucceeded` stops only at SUCCEEDED.
* **Stock swept from a paid order.** Payment does not clear `expiresAt` of the hold; after 24 h the
  sweeper gives the stock of the paid order back as an orphan (`GiveBack` of `EscrowSale`).
* **Two rulings.** `addEvidence` checks the status and later writes INVESTIGATING by id, over a ruling
  made in between (`dispute.service.ts:98-107`); the dispute can be ruled on again and pays out again. No property denies it:
  both journals balance (`Conservation`), and `MoneyOnce` speaks of transfers and of orders without a dispute.
* **Dispute against release.** A dispute opened between `ReleaseTransfer` and `ReleaseBook` does not stop
  the release (`settlement.service.ts:157-206`).
* **Ruling that stops half way.** `resolve` commits ruling and journal, then asks for RESOLVED. A
  `SUPER_ADMIN` may call it but is on no edge from DISPUTED, and a crash may come in between: the
  dispute is RESOLVED, the order stays DISPUTED.
* **Release that is not retried.** A refused release is caught and its event published
  (`settlement.service.ts:142-150`): an order delivered before its supplier has an account is never
  released by it.
* **Paid and cancelled.** A buyer or a sweep that cancels between `HookBook` and the commit of the
  transition leaves a CANCELLED order with money in escrow. A crash there strands it in PLACED.
* **Customs overwrite.** `transitionDeclaration` checks the edge from a status it read without a lock
  and writes by id (`fulfillment.service.ts:484-490`): a DELIVERED order can go back to CUSTOMS_CLEARED,
  be delivered again and released again. `TransitionFollowsTable` therefore excludes its steps, and
  `EscrowSale` has `Reopen`.
* **Two pending intents.** Two checkouts of one order at once both find none.
* **Release of more than came in.** `releaseEscrow` books the grand total also when only a deposit
  reached escrow and the balance was paid offline.
* **Transfers carry no idempotency key**, so a crash after `ReleaseTransfer` repeats the transfer.
* **Paid offline.** `markPaid` moves no order: an order whose instalments were all paid by transfer
  stays PLACED; checkout then charges the whole price again (`settlement.service.ts:76`), or the
  sweeper cancels the order.
* **Sums.** Percentages may be negative or mixed with amounts, which skips the check of their sum;
  the last instalment is then zero or negative. Stripe takes no such amount and a zero instalment is
  never settled by a payment after which nothing is left, so it blocks the shipment until `markPaid`.
  Whether percentages that are off by 0.01 pass is up to the rounding of floating point.
* **Instalments off by cents.** A fixed amount is any positive number (`trading.controller.ts:23`) and the last instalment is what
  is left of the price before the others are rounded (`milestone.service.ts:47-52`), while the column is `Decimal(14,2)`
  (`schema.prisma:1198`): 33.335 of 100.00 is stored as 33.34 and 66.67. `PartsAddUp` has half a cent for each such
  amount, and none where all are in whole cents.
* **Choice of tiers and rules.** Tiers are read without an order, so overlapping ones make the choice
  arbitrary, as do ties of priority between rules. A rule of the category beats a general one of
  any priority; the order type of a rule is ignored; RFQ and broker orders always pay 8 %.
* **Minor units.** Checkout and release multiply by 100 for every currency, JPY included
  (`settlement.service.ts:69,174`). A rule of 0 % makes `releaseEscrow` write a zero entry, which
  rule 3 of `ledger-invariants.ts` excludes.

Sourcing:

* **Contract volume** is exceeded by two placements at once; a partly failed placement keeps the
  orders already made and the cart as it was. An SKU that was ordered once stays deleted in the
  cart when it is added again.
* **Quotes** can be submitted to an RFQ that is ACCEPTED; two first quotes at once set an accepted
  RFQ back to QUOTING, and it is ordered again; two acceptances at once order twice.
* **Opportunities**: two runs of the rules at once (cron and `POST matchmaking/run`) create duplicates,
  and an order of a broker reopens a LOST opportunity (`brokerage.service.ts:262`).
* `placeOrders` asks for the status of the SKU and not of its product (`trading.service.ts:86-92`).

Fulfilment:

* The guard of a shipment does not ask whether its documents have expired, though
  `cert-expiry.service.ts:159` says that expired papers must not serve new business; a scan that
  crashed and starts over does not tell the holders it had not reached the day before.
* Two registrations at once make two shipments; deductions at once overdraw a quota by what
  overlaps; the migration writes over deductions made while it runs.
* A merge adds up what several inspectors have overdrawn on the rows it merges. When two runs of the migration overlap
  and a permit is registered in between, the run that writes last has read first: the total of the merged
  permit is below the sum of its lines.

Access:

* A refresh that is in flight or within its grace issues a session after a change or a reset of the
  password, a logout or an erasure (`auth.service.ts:156-178`). A refused refresh clears
  what the browser shows although another tab has signed in (`api.ts:75`). A crash
  between rotation and issue signs the browser out. Two resets with one token both pass (312-317).
* An access token that was issued before an erasure still submits a request of its account afterwards: `submit` asks for
  no more than a PENDING one (`gdpr.service.ts:44-53`) and the guard looks no account up (`jwt-auth.guard.ts:34-37`). So an
  erased account starts no sign-in, change or reset, but may still have a request pending.
* `mfaEnable` writes by id, also for an erased account. Files of exports stay after an erasure.
  A rejection can overwrite a request completed in between. Orders may be placed with a party
  while it is erased.

Platform:

* `@nestjs/event-emitter` swallows errors of listeners: an event whose listener failed is marked
  published and its effect is lost. Consumers do not look at the id of an event, which the comment
  of `outbox.dispatcher.ts` expects of them.
* The bell does not load its list again after a reconnection and gives up after five; a list
  that answers late overwrites a push, a row of it is shown twice when its push comes later. Nothing cancels a list at the end
  of a session (`notification-bell.tsx:30-49`): one that was read before a notice and answers after its push removes it until
  the next load, also in the next session, and its items appear after the session has ended. The bells
  of the model have one user each; in a tab where another user signs in, the list of the first would be shown to the second.
* `listParties` decrypts the numbers of registration and of tax for every administrator (`party.service.ts:79-80`), although
  the comment on `HIGH_SENSITIVITY_FIELDS` says that reading them must go through an escalation (line 9).
  `ViewsAreGranted` excepts that list; the legal representative and the address are only read by grant.
* `review()` asks neither for status nor text; media and SKUs added to an ACTIVE product are not reviewed.
  The reviewed translation of an old text stays when the text is edited.
* Only the creator is a participant of a conversation; strikes count over all conversations of a
  user; a crash between strike and freeze leaves the conversation open until the next strike.
* `approve` and `decideEscalation` ask for no status. Two contacts added at once can both be
  primary; a crash between the two writes leaves none.
* A medication recorded while a batch is processed is missed; a QC_FAIL after inbound leaves the
  lot on sale; inbound accepts a batch whose quality nobody has decided.
* A policy read before a change may be cached after the cache was deleted for it: the change is in force
  one lifetime plus one latency later.

Web:

* Buttons that are offered and refused (`KnownRefusal`): receipt in customs; shipping before instalments or papers; a lead
  of another broker; acceptance of a quote that has expired (`buyer/page.tsx:163`, `rfq.service.ts:144`); orders, from the cart, a quote or
  a lead, for an SKU that was withdrawn or is out of stock (`rfq.service.ts:148-162,199`); the payment button of the
  buyer's page, which announces the payment itself, unsigned, and is refused where Stripe is real (`buyer/page.tsx:54-59`,
  `settlement.service.ts:98-99`); and, at the page of an order, disputes for staff (`dispute.service.ts:52-54`) and the booking of
  a transfer for staff who are neither finance nor administrators (`trading.controller.ts:146`). No page moves an opportunity to WON.
* Tenders that stop (`KnownStranded`): an RFQ whose deadline passes without a quote is listed to no supplier and closed by
  nobody (`rfq.service.ts:80,108`). When a quote expires, the supplier who gave it has no button to renew it
  (`supplier/page.tsx:433`); before the deadline another supplier may still quote. The same when the SKU that a quote stands for is
  taken off sale.
* The list of the disputes turns a failed request into an empty one (`admin-disputes.tsx:16`), contrary to
  what `admin/page.tsx:64` says of queues: `QueuesAreTrue` allows it that and nothing else.
* `deliver` and `lost` are accepted in several statuses, so a press on a stale page may take effect in another status than
  the one seen; `StaleIsRefused` speaks of calls that are accepted in one.
* A double click on placing orders places two. A refused act does not reload the page. An answer
  that overtakes another may hide the own act until the next load. An administrator approves the
  text the product has by then, not the one shown. `deleteRule` swallows errors. Lists of
  traders show a failed request as empty.
* The checkout of the page of an order keeps `busy` in its own state (`stripe-checkout.tsx:49`) and is removed when the
  order is drawn as not payable (`orders/[code]/page.tsx:233-238`). When an older answer, which comes late, draws the order as
  payable again, a new checkout can be pressed while the call of the first is in flight. `OneSubmission` therefore
  excepts forms that went away during a call (`forgot`).
* `POST supplier/orders/:code/prepare` (`trading.controller.ts:185-188`) is called by no page, and no page has a button for an
  order in PREPARING, neither to ship nor to cancel it. `Elsewhere` leaves this call out.
* The editor of the portal fills in defaults when its load fails and saves them over the content.

Scripts:

* `seed-hzb-case.ts:11`, `seed-tuopai-supplier.ts:12` and `seed-demo.ts:6` say they can be repeated. But the gate
  of the orders looks at fields that `listOrders` does not return (`trading.service.ts:300-324`): Liangmei
  orders again on every run until its lots are used up, and registers its contract anew with each order
  (`seed-liangmei-supplier.ts:298-300`; `registerDocument` asks for no uniqueness); the demo orders while the buyer has fewer than four; HZB
  and Tuopai come to their end once at most, and every run after that throws at its order for lack of stock (`EndsOnce`).
* A kill between registration and approval leaves the buyer PENDING, and every run fails at placing until an
  administrator approves. Products stay DRAFT, batches without quality control, farms are doubled.
  The model assumes that every look is answered: `api()` hands on any status, so an error answer to the GET of the lots would read
  as "not there", and the lot would be stocked again, since inbound adds (`inventory.service.ts:53`).
* Tuopai writes the contacts of HZB to any organisation of that name (192-205).
* An order of a cleared buyer stays when its placement has read the buyer (`trading.service.ts:81`) before the purge commits and
  writes after it (135): no foreign key repeats the check. `PurgedClean` excepts it (`late`).
* The purge (`lib/test-data.ts`) deletes an order placed after it collected its ids only by half; a
  hold placed between the reservations and the lots stays; a test buyer's reservations of
  a real supplier's stock go without giving it back; an error of the purge is swallowed by
  `finishSmoke`; an erased account loses its protection.

## 9 What is not modelled, and why

* Audit, mail, telephony, PDF and the drawing of masks: effects that no decision reads.
* Search, public pages, the academy, texts and styles of the web: functions of one request. PII filters
  and masks: functions of one string.
* Crypto, TOTP, hashing, configuration: library code and I/O.
* Profiles, farms, units, media and SKUs: rows written by their owner, which no property relates.
* Import declarations: they move no order.
* The fake-mode endpoint that simulates a payment: in `Settlement` it is `Charge` and an announcement, in `Pages` the call
  `simulate`.
* Of the pages: what is typed into forms (assumed valid), the checks of prices, limits and roles that no row of `Pages` stands
  for, and the card form of Stripe (`stripe-checkout.tsx:19-29`), whose call goes to Stripe and whose `busy` has no `finally`.
* Smoke scripts: tests; of the scripts for imports only the guarded writes are modelled, not the data, and not the
  masked report at the end of the demo (`seed-demo.ts:250-262`).

## 10 Plan

Done: kernel tables, orders, settlement, disputes, sweeper, customs, their composition and proofs;
inventory; sourcing with prices; fulfilment; access; platform; web; scripts; the abstract sale
with its refinement, proved step by step; the properties of the marketplace, inventory, sourcing, fulfilment,
access, platform, pages, imports and purges for any values of the constants, but for the liveness that section 7 names.

Left:

1. An abstract stock (one counter per SKU) that `Inventory` implements.
