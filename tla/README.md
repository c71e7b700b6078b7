# FINALPRO: a verification project

FINALPRO is a multi-vendor marketplace: a NestJS API (`src/apps/api`) over one Postgres
database and a Redis, and a web client. Sellers register, are reviewed and open
branches; their offers are matched to the platform's own products; customers compare
them, check out carts that span branches, and return what they do not want; background
sweeps end what nobody acts on. Orders, stock, delivery slots, money and notifications
are rows of that database, changed by transactions of several API processes and timers
at once. This project models those transactions, from a seller's application to the last
refund and notification, checks them with TLC on small instances, and proves the most
important results with TLAPS for instances of any size.

Paths below are relative to `src/apps/api/src` unless they start with `apps/` or `docs/`.
`PROJECT.json` maps every definition to the lines it stands for, and lists the components,
hazards, runs and theorems.

## 1. Inventory

| component | state it keeps | operations | interacts with |
|---|---|---|---|
| orders (`orders/`) | `branch_orders`, their items and refunds | customer: cancel, confirm or deny receipt, reschedule, convert to pickup, change the address, ask for a refund; staff: prepare, send, deliver, hand over, fail a delivery, cancel; admin: force-cancel | stock (restock on cancel), slots (reschedule), outbox (every transition enqueues) |
| fulfilment sweeps (`orders/fulfilment-*`) | the clock columns of an order | auto-confirm, remind, mark a slot missed, time out | orders, through the same row lock; `common/periodic-task.util.ts` fires them with no guard against overlap |
| checkout (`checkout/`) | `checkout_reservations`, their items and slots | quote, reserve, cancel, confirm | stock, slots, orders, cart, subscriptions, customers |
| stock (`checkout/stock-lock.util.ts`, `inventory/`) | `branch_stock`, `stock_movements` | sweep expired holds, reserve, record a movement, restock, alert | checkout, orders, returns, favourites |
| delivery windows (`delivery-windows/`) | `delivery_windows`, their exceptions | create, update, remove, close a date | checkout, reschedule |
| outbox (`outbox/`) | `outbox_events`, `outbox_delivery_targets`, `notifications` | enqueue, claim, dispatch, fan out, dead-letter | everything that notifies |
| idempotency (`common/idempotency/`) | `idempotency_keys` | claim, replay, take over, complete, fail | 77 endpoints |
| returns (`returns/`) | `returns`, `exchange_settlements` | submit, cancel, dispute, decide, resolve, redeem; remind, escalate, close, expire | stock, orders' refunds, branch archival |
| auth, customers (`auth/`, `customers/`) | `users`, `otp_codes`, addresses; sessions and tokens in Redis | send and check a code, register, log in, reset, change phone, remove and reactivate an account; the address book | confirm() and orders, invitations |
| vendors, verification, subscriptions, administration (`vendors/`, `*-verification/`, `subscriptions/`, `platform-admin/`) | vendors, branches, evidence, staff, invitations | apply, submit and decide evidence, add, close and archive a branch, invite, accept, transfer, publish, suspend, subscribe | checkout, catalogue, storefront |
| matching (`matching/`) | canonical products and variants, candidates, reports | propose, confirm, decide, report, requeue, merge, split, publish, rename | offers |
| offers (`offers/`) | offers, variants, price history, media, imports | create, import, edit, price, publish, archive; the discount sweep | matching, inventory, outbox |
| catalogue and discovery (`catalog/`, `discovery/`, `favorites/`) | categories, sections, comparison sets, favourites; otherwise computed on each read | cards, browsing, comparison, store pages, feed | everything above, reading only |
| reviews (`reviews/`) | reviews and reports | submit, report, decide, list, rate | orders |
| cart, flags, audit, performance | cart lines, flags, audit rows | edit a line; set a flag; cursor listings | checkout, administration |
| web client (`apps/web`) | nothing the API relies on | | the API |

What is hard here, and what makes each component correct:

* **orders.** A dozen handlers of four actors change one row. Refunds must be exactly
  what the order's history owes, the cash collected never too little, and an order must
  close with its last item.
* **sweeps.** A candidate is stale by the time it is locked, and ticks overlap. Nothing
  is closed early on stale knowledge, and nothing waits for ever.
* **stock and slots.** Expired holds are released by whichever transaction needs the row;
  which ones is found out before any lock is taken. Counter and holds agree, a live
  hold becomes exactly its order, a slot takes no more than its capacity.
* **outbox.** Workers crash and stall between claiming a row and publishing it. Everybody
  is told once, and every event is settled.
* **idempotency.** Retries race each other, the first call and a crash. One effect.
* **returns.** Clerks look a code up before they lock; four sweeps act on old candidates. An
  item is settled once and deadlines hold.
* **accounts.** A handler writes Postgres, then Redis, and can be overtaken or die
  between. No session outlives what it was opened for; a code changes one thing.
* **sellers.** Reviews, archival, invitations, suspensions and checkouts overlap. Decisions
  are about the evidence read, and closed shops get no orders.
* **matching and offers.** Two reviewers, a merge and a vendor change one product. An offer
  follows one product, merges end, prices are on record, followers hear once.
* **shopping.** Two requests of one customer or administrator each check, then write.
  Limits, trees, defaults and audit trails survive that; and what is computed twice, in
  SQL and in TypeScript, in the quote and in the reservation, agrees.

## 2. Modules and the code they stand for

Three conventions hold everywhere. A transaction that locks its row first and re-reads
under the lock is one action, or, in the modules over `Transactions`, two: *begins* takes
the locks and reads, *commits* writes, and whatever needs none of its locks
happens between. Where the code reads before it locks, that read is a step of its own.
Time is an age in ticks up to the largest threshold it is compared with, or a flag that
the time has passed; money is the set of lines it pays for, or a small number where sums are
compared; SQL NULL is `None`, `NoOne` or `NoMoney`.

| module | models |
|---|---|
| `BranchOrderStateMachine` | the transition table with its conditions on method, payment and attempt count |
| `BranchOrder` | every handler of a branch order, one action each; the two COD hand-overs are two steps, as they read the amount due before locking |
| `FulfilmentSweeps` | both sweeps: candidate queries, candidates one by one, overlapping exception ticks, reconciliation on read. It extends `BranchOrder` and uses its system actions |
| `OrderSettlement`, `BranchOrderSettlement` | what orders promise about money, and the mapping under which `BranchOrder` implements it |
| `BranchStock` | holds, exchanges, stock movements and restocks; a job is a transaction in two phases: the unlocked query for expired holds, then everything under the locks |
| `DeliverySlots` | windows, exceptions, holds and orders on slots; `confirm()` is three steps (check, insert, commit), and its hold may expire in between |
| `OutboxRelay`, `NotificationDelivery` | the relay with leases, crashes, yields and batches; what the outbox promises, and the mapping between them |
| `IdempotencyKey` | one key and the calls that carry it, for endpoints completed in the handler's transaction and for those recorded afterwards |
| `Returns`, `ItemReturn`, `ReturnsOfItem` | returns and exchanges with their sweep; what an item's returns may ever come to; the mapping between them |
| `Transactions` | requests that hold locks between a step that reads and a step that writes, or roll back |
| `Accounts` | codes, tokens, sessions, registration, login, reset, phone change, removal, reactivation and `confirm()`, each in its Postgres and Redis steps, which a crash may cut off |
| `Sellers` | a vendor and its branches from application to archival: evidence and decisions, quorum, warehouses, store type, publication, subscription, suspension |
| `Marketplace` | `Sellers` composed with those who work and buy there: invitations, memberships, transfers, reservations and confirmations |
| `Matching` | canonical products and the offers matched to them: proposals, confirmation, the review queue, reports, merge, split, status, rename |
| `Catalogue` | `Matching` composed with the vendors' side: creation, import, edits, prices, publication, images, the discount sweep |
| `Shoppers` | one customer's address book and one cart line, with the checkouts that use both |
| `Reviews` | a review, the reports against it, the moderators, and what listings and rating show |
| `Assortment` | the category tree; store sections and comparison sets under their limits |
| `Pages` | a cursor walk over rows that come, change, tie and go; one definition for each kind of sort key |
| `Settings` | a setting with its audit rows, and how its handlers lock: flags, minimums, policies, thresholds |
| `Restock` | the writers that raise stock, which compare an offer variant's stock over all branches before and after, and whom they alert |
| `Storefront` | cards, browsing facts, comparison pages, store pages, feed and favourites, as functions of one catalogue |
| `CheckoutRules` | the quote, `reserve()` and `confirm()` of one customer at one vendor: grouping, prices, fees, minimums, slots |
| `BranchOrderProofs`, `RetryProofs`, `CheckoutProofs`, `ReturnsProofs`, `AccountsProofs`, `MarketplaceProofs`, `CatalogueProofs`, `ShoppingProofs` | the theorems of section 4: orders and their sweeps; outbox and idempotency keys; stock and slots; returns; accounts; sellers and the marketplace; matching and the catalogue; the eight shopping modules |
| `MC*` | the instances TLC checks |

Composition. `FulfilmentSweeps` runs over `BranchOrder`, `Marketplace` over `Sellers`,
`Catalogue` over `Matching`. Checkout touches most components; each models its own
side of `reserve()` and `confirm()`: stock rows in `BranchStock`, the calendar in
`DeliverySlots`, the vendor's state in `Marketplace`, the account in `Accounts`, cart and address in
`Shoppers`, what is charged in `CheckoutRules`.

Definitions marked `Slip:` are variants of the definition that follows, the way the code could
plausibly have been wrong. No specification uses them; they are the mutants under
which each property was seen to fail.

## 3. Runs

| run | checks | instance | states |
|---|---|---|---|
| `branch_order` | `RefundLedger`, `CodNeverUnderCollected`, `SettlementSpec` | one order, two items of one offer, two slots; thresholds 2 < 3, 2, 1 ticks | 67,704 |
| `cod_race` (violation) | `CollectedNetOfCancelledItems` | the same | stops at the violation |
| `sweeps` | `SweepsKeepDeadlines`, `NoOrderWaitsForEver` | one order and item, two slots, one tick of each sweep | 100,922 |
| `branch_stock` | `StockLedger`, `OrderIsWhatWasReserved` | two stock rows, two reservations, an exchange, two transactions at once, at most 2 units on a row | 1,115,575 |
| `checkout` | `PromisedHoursKept`, `BookingRespectsCapacity`, `EffectOnce` | `DeliverySlots`, then `IdempotencyKey`: two windows, one date, two customers, capacities 1 and 2; four calls with one payload, one with another, one lost take-over each | 768,515 |
| `outbox` | `ChannelAtMostOnce`, `DeliverySpec`, `EventuallySettled` | two events (a fan-out to three in batches of two, and a single one), two workers, three attempts | 346,444 |
| `returns` | `DeadlinesKept`, `ItemSpec`, `NothingStaysForEver` | one item, two returns, two clerks, one branch, one tick of the sweep | 67,268 |
| `accounts` | `SessionsAreCurrent`, `OneChangePerCode`, `RemovedAccountsHaveNoOrder` | two users, phones, passwords and idempotency keys; two codes; two requests at a time, six in all | 935,157 |
| `marketplace` | `DecisionsMatchEvidence`, `QuorumDecides`, `InvitesAreForTheUnemployed`, `ArchivedBranchesTakeNoWork`, `NoSelfReview`, `OrdersComeFromOpenShops` | two vendors, three branches, a reviewer who is also invited, one hold; three starting points; two requests at a time, four in all | 401,872 |
| `catalogue` | `OfferFollowsItsVariants`, `MergesEnd`, `PricesOnRecord`, `ToldOnce`, `NameIsFirstConfirmed` | two products and the one a split makes, two offers, three variants; matched and unmatched starting points; two requests at a time, three in all | 511,941 |
| `discount_twice` (violation) | `ToldOncePerDiscount` | the same | stops at the violation |
| `shopping` | `OneDefaultAddress`, `CartKeepsTheRest`, `ReportedWhilePending`, `CategoriesFormATree`, `LimitsHold`, `PagesNeitherRepeatNorSkip`, `AuditIsAChain`, `ListingsAgree`, `AlertedOncePerRestock`, `ReserveHonoursQuote` | eight modules one at a time (nine parts); two requests at a time, three to seven in all; amounts 0, 1 and 3, and null | 697,792 |

Why the bounds are enough. Orders never touch each other's rows but through stock and
slots, which have modules of their own, so one order suffices; two items are what it
takes to cancel one, then the last. Thresholds keep the order the real ones have
(48 < 72 hours, 48, 24), and ages are never told apart beyond them. Two stock rows let a
transaction lock part of what another needs; two jobs let one sweep what another found.
Two customers are a race for a slot of capacity 1. A fan-out of three in batches of two
yields once. A call that loses its first take-over inspects the key again, so four calls
cover losing to a call that itself was taken over. Two returns of one item are the first
and its resubmission. Two requests at a time are what every race in the accounts,
sellers, catalogue and shopping code takes: each checks, then writes, and the hazard is the
other's commit in between; the bound on requests in all leaves two or more before or
after. The catalogue starts both with nothing matched and with what confirmations
and decisions have made, so that three requests reach past them; the marketplace
starts with applicants, with a shop that is open beside one that is not, and with two open shops.

Named bounds: `MaxCalls` (requests started), `MaxCodes`, `MaxRevisions`, `MaxAddresses`,
`MaxUnits`, `MaxStock`, `MaxQuantity`, `MaxLine`, `RowIds`, `Times`, `Levels`, `Money`,
`ListPrices` are not in the code. `MaxAttempts`, `MaxTakeover`, `PageSize`, `BatchSize`, `MaxSections`, `MaxItems` and `MaxCardLogos` are limits
of the code with smaller or equal values.

**Runs of several modules.** The eight shopping modules share no state but the requests in
progress. `MCShopping` has a variable `part`, chosen at the start and never changed, and one
disjunct of `MCNext` for each part; the others' variables stay. The run costs the sum of
their state spaces, and nothing is lost, since no step of one part enables or disables
another's. `MCCheckout` does the same with `DeliverySlots` and `IdempotencyKey`. `Budget` gives each part its own number of requests, and `Fixed` one initial state to
the parts that are not explored. `SYMMETRY` permutes the requests (and users and
idempotency keys in `accounts`, reservations and jobs in `branch_stock`, three of the calls with one payload in `checkout`); no run with symmetry checks liveness, and no
formula names a permuted value.

Deadlock is checked in `branch_order`, `sweeps` and `branch_stock`. The others may stop: all
events settled, all calls answered, all returns ended, the budget of requests used up.

### Fairness

* `sweeps`: time passes (`Tick`), and a confirmation tick and an exception tick keep running,
  weakly fair: `setInterval` fires again whatever the last call did, and a query or a
  transaction ends. Nothing is assumed of customers and staff.
* `outbox`: a worker that has something to do does it (the interval again), and clock
  conditions come true. Crashes are not prevented.
* `returns`: time passes, ticks enter their next phase, and a candidate's step is strongly
  fair, which says that a transaction attempted in tick after tick does not fail in
  every one. The code needs that: a candidate that throws ends the whole tick
  (`returns/return-sweep.service.ts:94-101` has no handler per candidate), so one row that
  always threw would keep later phases from ever running.

### What some properties deliberately except

* `BookingRespectsCapacity`, `PromisedHoursKept`: `confirm()` looks at `expiresAt` once, at its start
  (`checkout/checkout.service.ts:1311`), and never locks the window. A hold that expires while it runs no
  longer counts for others, who may book its place or edit its window; its order appears all the
  same. A slot of capacity 1 then carries two bookings, which
  `orders/branch-order-reschedule.service.ts:43` says cannot happen. The property shows that this is the
  only way.
* `OfferFollowsItsVariants`, `NameIsFirstConfirmed`: an offer linked under the lock of another product (the
  field `stale`). `confirmMatch()` locks the product its proposal named when it was read; `updateVariant()`
  recomputes the proposal, although `offers/vendor-offers.controller.ts:1531` calls it immutable.
* `MergesEnd` does not say that no offer is linked to a merged product: neither `confirmMatch()`
  (`offers/vendor-offers.controller.ts:1590`) nor `decide()` (`matching/match-review.controller.ts:343`) reads the product's
  status under the lock, and a confirmation that waited for a merge links to the loser. The comment at
  `matching/canonical-product-merge.service.ts:41-48` says the lock closes this.
* `AlertedOncePerRestock`: siblings are listed before the locks; a branch added or archived
  meanwhile may cost an alert or cause a second one.
* `ReserveHonoursQuote`: units an exchange holds are in the row's counter and not in the quote (comment at
  `checkout/checkout.service.ts:424-431`); and a quote without `address_id`, or for an address without a
  region, looks at no zone (:248, :370), so that it shows no blocker for a delivery that `reserve()` then
  refuses: no region, no fee for the region, or less than the minimum. Null and 0 are told apart here as in the code: a
  fee of 0 is a free delivery, and a zone's minimum of 0 replaces that of the branch (`checkout/minimum-order.util.ts:27-34`).
* `ToldOnce` is about the sweep and the first publication. What an edit of a price announces is left to
  `ToldOncePerDiscount`, which the code violates.
* `EffectOnce` is about handlers that complete their key in their own transaction. One whose answer
  the interceptor records afterwards runs again if the process dies in between. And a claim is
  abandoned after 30 seconds whether or not its owner lives
  (`common/idempotency/idempotency.interceptor.ts:338`), while an import takes up to 2000 rows
  (`offers/offers-import.controller.ts:332`): its retry runs it a second time beside the first, contrary to the
  comment at interceptor :126. `IdempotencyKey` has both, and its theorems name the kinds they hold for.

### What the violation runs show

`cod_race`: `pickupHandover` and `markDelivered` compute the cash due before they lock the order;
an item cancelled in between is recorded as collected. The run `branch_order` shows the other
half: it is never too little.

`discount_twice`: `updateVariant()` announces a lower price at once. If it is a discount set while its
window is already open (a start in the past is accepted), no `DiscountActivationNotice` is written
(`offers/vendor-offers.controller.ts:1327-1335`), and the sweep's query takes every discount that is on
(`offers/discount-activation-sweep.service.ts:79-95`): its next tick inserts the missing notice and tells the
followers again. The comments of both files give the immediate discount to the edit and the scheduled one to
the sweep, "EXACTLY ONCE per (variant, discountStartAt) instance".

## 4. Theorems

Proved by TLAPS for every value of the constants that satisfies the named assumptions. These
say that `None` is no value (`NoneAssumption`, `NoOneAssumption`, `MatchingAssumption`,
`ValueAssumption`, `CategoryAssumption`), that thresholds, limits and amounts are numbers in the
order the code's are in (`TimeAssumption`, `RelayAssumption`, `PageAssumption`, `ShopperAssumption`),
that what is counted or summed is finite, as rows are (`ItemsAssumption`, `StockAssumption`, `CalendarAssumption`,
`EventsAssumption`, `CallsAssumption`, `ReturnsAssumption`, `LimitAssumption`, `UnitAssumption`,
`StorefrontAssumption`, `CheckoutAssumption`), and where a module starts
(`OwnerAssumption`, `StartsAssumption`, `RegisteredAssumption`, `AuthorAssumption`,
`CatalogueAssumption`). TLC evaluates each on its run. Every safety property of
every passing run is the statement of a theorem. They also hold the type invariants and
several properties that no run lists any more because a theorem says them for every instance:
`ClosedMeansSettled`, `AttemptDiscipline`, `StockReturnedOnce`, `ClocksMatchStatus`, `ClosingNeverRefused`,
`TerminalIsFrozen`, `ReportHoldsOrder`, `LiveHoldUntouched`, `OneOwner`, `AnswersAgree`, `CompletedIsFinal`,
`SettledOnce`, `HoldsAreLive`, `StoreTypeMatchesBranches`.

**Branch orders** (`BranchOrderProofs`). The inductive invariant `Inv` has five parts:
`TypeOK`; `LedgerInv`, which ties the refund rows to the status, the cancelled items and
how the order came to close; `ConductInv`, which ties the attempt count and the clocks to the
status; `CodInv`, which says that an amount read for a hand-over covers the active items
(they only shrink, so a stale amount is never too small); and `StockReturnedOnce`.
None of the properties is inductive alone: `RefundLedger` needs to know that an order
with no active item is closed, `AttemptDiscipline` which clocks are running, and
`ClosingNeverRefused` both. The proof goes through `StepShape`: every action but the clock
is a move, a cancellation or a closing of one order, so each part of `Inv` is proved for three
shapes of step and not for each of some thirty actions. From `Inv` follow
`TypeCorrect`, `RefundLedgerCorrect`, `ClosingSettles`, `AttemptsAreDisciplined`, `ClocksAgree`,
`StockIsReturnedOnce`, `CodIsCovered`, `ClosingIsNeverRefused`, and the action properties
`FinishedIsFrozen` and `ReportsHold`.

**Refinement** (`BranchOrderProofs` too). `SettlementIsImplemented`: under `Inv`,
every step is a `GiveBack`, `Fulfil` or `Void` of one order, or changes nothing there.

**Sweeps** (`BranchOrderProofs`, over `FulfilmentSweeps`). `DeadlinesAreKept`: a confirmation looks at the
age again under the lock, but `resolveTimeoutOnce()` does not, and its candidate may be old. The invariant
`SweepInv` says what the code relies on: a candidate has `attempts >= 1`, and if it still is (or again is)
a first failure, its clock has run out. It holds because no step uncounts an attempt, so an order that was
rescheduled and failed again is a second failure, which the transaction refuses. `OnTime` is what
each action is proved to do.

**Outbox** (`RetryProofs`). `ChannelIsToldOnce`: `ChannelInv` says that a pair is sent or waits at one
worker, and that its notification exists; a worker queues only pairs it has just inserted. It needs no
lease: the unique notification row decides. `DeliveryIsImplemented`: only a worker that still owns the
row, so that the event is open, changes what was notified or how far the event is.

**Slots** (`CheckoutProofs`). `SlotInv` joins the types, how the rows of a hold and of its
order go together (`Course`), what a transaction in progress has read (`InProgress`) and `PromisedHoursKept`. `CapacityIsRespected`
and `PromisedHoursAreKept`: bookings of a slot grow where `HasRoom` was asked under the window's lock, or
by the late commit of section 3, and the hours of a window with a booking that counts are not edited.
The bookings are counted with the library's facts about cardinalities.

**Stock** (`CheckoutProofs`). `HoldsStayWhole`: a hold that has not expired has all
its items, whatever found it expired earlier; hence `OrdersAreWhatWasReserved` and
`LiveHoldsAreUntouched`, for any number of overlapping transactions. `StockLedgerHolds`: the reserved counter is the
sum of the units held, the units held are on the shelf, and shelf and movement log agree. A sum over
holds is stated as the number of pairs of a hold and one of its units, so that what a step takes or adds is
a set of pairs whose size is known. `StockLedger` is not inductive: `LedgerInv` adds that a reservation which
is not held has no units and one that is not yet an order bought none (`HoldsAreHeld`), so that a step knows
what it adds or frees, and that a reserving transaction holds the locks of all rows it
takes units from (`ReserveLocksWhatItWants`), since it asks for room only in those.

**Idempotency keys** (`RetryProofs`). `KeyInv` says what the place of a call says of
the row: a take-over that would still succeed is of an abandoned claim (`createdAt` grows with
every claim), an owner's claim is fresh or completed, and nobody has been told what is not
recorded. `OneOwner` alone is not inductive: a step of another call would be enough to break
it if an owner's claim could be abandoned, which is what an import does. Hence
`OneOwnerRuns`, `EffectHappensOnce`, `AnswersDoAgree`, `CompletionIsFinal`.

**Returns** (`ReturnsProofs`). `ReturnsInv` adds to the types that two rows of an item are never
open together, that money or stock moved for an item only if one of its rows is settled, and
that a sweep's candidate stays old enough for as long as its row is requested. `TypeCorrect`
rests on `HoldsAreLive`: no hold is released twice, so the counter never goes below
zero. `StepShape` says that a step adds a row, moves one out of a status in which somebody
has to act, or changes no row. Hence `ItemsSettleOnce`, `HoldsAreThoseOfRows`, `DeadlinesAreKept`, and
`ReturnsImplementItemReturn`: how an item stands is what its only open row says.

**Accounts** (`AccountsProofs`). `SessionsStayCurrent`: `Sound` says of a session, stored or still in
the hands of the handler about to write it, that its version is at most the account's, and that
with the same version it stands for the present phone and password. `Grows` says of a step
that versions grow and that these facts change only with them; so every session stays sound, whatever
order Redis is written in. `RemovedAccountsOrderNothing`: the removal and `confirm()` hold the user's
row from their reads to their commit, so each sees the other's result. `CodesGateOneChange`: `GateInv` says that
a token belongs to the code and the key it was made for, and is handed out only once that key has consumed
the code (`TokensFit`); that a code that has gated a change has no token left under its key, unless it is a reset code, whose token
gates nothing (`UsesFit`); that no two
requests verify with one key or are about to use one code (`Apart`); and that a request still
verifying is not of the key that consumed its code, reset codes again excepted, so that it cannot make a redeemed
token again (`Holds`). A reset takes its code itself, with its own key; `otp/verify` accepts a reset code all the same. Proving it takes
that the latest unconsumed row exists, which is a well-founded argument over finite sets (`LargestOf`).

**Sellers and marketplace** (`MarketplaceProofs`). One argument carries all seven theorems, for any number of
requests in progress. `Exclusive`: two requests never hold one lock. `Fits(q, locks)`: what request `q` has
read and relies on when it commits is still true, and which of its locks keeps it so. `Steady(L)`: a step
under the locks `L` changes nothing that a lock outside `L` protects. A step of one request is
`Steady` in its own locks, which are not another's, so the other's `Fits` survives it; and a commit
finds what it read. This is what the comment of
`common/branch-operational-lock.util.ts` claims, written out. Hence `DecisionsFitTheirEvidence`,
`QuorumIsNeverLost`, `StoreTypeIsRight`, `ArchivedBranchesStayQuiet`, `EmployeesAreNotInvited`,
`NobodyReviewsTheirEmployer` and `OrdersAreFromOpenShops`. `StoreTypeIsRight` needs, beside the locks,
that evidence of a warehouse exists for online stores only.

**Matching and the catalogue** (`CatalogueProofs`). The same argument over `Catalogue`, whose requests
hold the locks of products, offers and variants. `Fits` has a part for each kind of handler; the
difficult ones are `FitsLink` (a confirmation or approval that holds its product's lock knows that the offer
follows that product or none, and that a name it is about to give is the first) and `FitsMerge` and `FitsSplit` (the offers listed
under the product locks are still all that follow the product, but for the excepted ones). Those two are why
`OfferFollowsItsVariantsHolds` is not local to an offer: a merge moves offers by a list it read
before. `States` adds to the properties that rows refer to rows that exist, and that an offer whose followers
were told is marked published. `PricesOnRecordHolds` needs that an edit which records no price leaves the price it
read; `MergesEndHolds` that both products of a merge are still mergeable under their locks; `ToldOnceHolds` that
the first publication is decided under the offer's lock, and that the sweep tells only what has no notice yet and
leaves one. `NameIsFirstConfirmedHolds` is the
action property; `CatalogueTyped` the type invariant.

**Shopping** (`ShoppingProofs`). Each of the eight modules has an invariant and a specification of its own;
`Alone` (no lock is held twice) and two lemmas about `Transactions` serve them all.

* Under a lock. `OneDefaultAddressHolds`, `CartKeepsTheRestHolds`, `ReportedWhilePendingHolds`, `LimitsHoldAlways` and
  `AuditIsAChainHolds`: what a request read under its lock (the default address, the lines, the pending
  reports, how many members a group has, the setting's value) is what it finds when it commits. The limit needs
  the union of what an addition locks, not any one lock. `CategoriesFormATreeHolds`: a move or
  creation read, under the tree's lock, that the new parent is not beneath the category (`MayMove`: there is a set
  of categories, closed under parents, with the new parent and without the category), so that the argument
  against cycles needs no recursion.
* Pages. `PagesNeitherRepeatNorSkipHolds`: of the rows that do not change, those beyond the cursor have not been
  shown and the others have been shown once (`Ahead`). It rests on the sort keys with their tie-breaks being
  totally ordered, for each kind of listing, and on the last row of a page being its greatest.
* Restock. `AlertedOncePerRestockHolds`: `FitsWriter` says that the sum a writer took before its write is still
  the vendor's stock, because it holds every row it summed; and a sum is zero exactly if every row is.
* Storefront. `ListingsAgreeHolds` is about functions of one state, so the types suffice: the first offer of the total
  order by price is the minimum the facts carry, whether over offers or over their summaries; the number of stores
  is the same over both; availability and discount flags agree.
* CheckoutRules. `ReserveHonoursQuoteHolds`: as long as a quote is fresh, each of its choices is still `Possible`,
  and what is possible `reserve()` grants. `Possible` knows whether the quote saw a region;
  without one it promises of a delivery only its stock and slot. The only steps that change stock and leave a
  quote fresh are those of the customer's own checkout, and they take units from shelf and counter alike.

Least and greatest elements (the cheapest offer, the last row of a page, the newest code) exist by minimal
counterexamples over finite subsets, which the well-foundedness theorems give without an induction rule.

## 5. Only model-checked

* Liveness: `NoOrderWaitsForEver`, `EventuallySettled`, `NothingStaysForEver`. It is out of the prover's
  reach, as is `ENABLED`.
* Sums of money in `CheckoutRules` (`Worth`) are folds. The proofs use that two calls with the same arguments agree,
  never what the sum is: an induction over data cannot be instantiated here.
* That the instances of `Starts` in `MCMarketplace` and `MCCatalogue` are states the code can reach is
  seen by reading them; the theorems hold for any that fit `StartsAssumption` and `WellFormed`.
* `CollectedNetOfCancelledItems` is refuted.

## 6. Not modelled, and why

* The database itself: its transactions, row locks and unique indexes are taken to work as documented;
  Redis likewise, one command at a time.
* Deadlock between transactions. A transaction's locks are taken in one step here, which is sound for
  safety, since what is read is read under all of them, but a cycle of waits cannot show. Section 7
  lists the orders that contradict each other.
* Skew between the clocks of several processes: one clock is assumed.
* Batch limits of the fulfilment and return sweeps: rows beyond a limit wait for the next tick.
* In `Storefront`, the two reads of one browsing request (facts, then cards) are of one instant; a card that
  vanished in between is dropped by the code. `Assortment`, `Reviews` and `Settings` have one
  instance of each kind of row a handler locks.
* `CheckoutRules` has one vendor, whose branches `reserve()` treats one by one, and one window a branch.
* Text search, the women's category rules, brands, attributes and media but the primary image, match
  scores, performance figures, throttling, hashing, file storage and the sandbox payment's form: data
  without control, or computations no property is about.
* Who owns a vendor, in `Accounts`: the removal of an account that is the last owner of an active vendor is refused, and
  the model has either answer (no module keeps the owners of a vendor).
* Pickup points, operating hours and storefront texts: single-row edits that nothing reads together.
* Seeds, scripts, DTO validation and the web client. A response's form is a property of no module.

## 7. Observations without a run

Met while reading, each at its line; the exceptions of section 3 are not repeated.

Locks and races:

* `inventory/inventory.controller.ts:544` and :563 lock the stock row before the foreign key locks its vendor;
  `confirm()` and `reserve()` lock the vendor first. `auth/auth.controller.ts:940` locks the vendor before the
  foreign key locks the user; `confirm()` locks the user first. Both contradict
  `common/branch-operational-lock.util.ts:35-38`, and two such transactions may deadlock.
* `confirm()` takes no branch lock, so an order may begin at a branch archived since the reservation; the
  comment in `reserve()` calls that a decision. An address may be archived between the two as well,
  and neither `quote()` nor `reserve()` looks at `archivedAt`.
* A branch's operating hours (`vendors/branch-operating-hours.controller.ts:109-131`) and a store's categories
  are replaced without a lock: two requests may leave rows of both, or one fails. The audit rows of storefront texts,
  section renames, and restricting or removing a category may record an old before-state, since nothing
  locks what they read. `AuditIsAChain` is about the settings whose handlers do lock.
* Removing a category checks its uses without a lock; the foreign keys are the backstop.
* Sections may share a sort order after a removal and a creation.

Sellers and accounts:

* Setting a member of staff active again (`vendors/staff.controller.ts:202`, :216) looks at no branch, so
  staff may work at an archived one; the comment at `vendors/vendors.controller.ts:478` rules it out.
* `confirmPasswordReset()` and `acceptStaffInvite()` open a session for a removed account that the guard
  accepts, unlike what the comment at `auth/auth.controller.ts:353-360` asks of login.
* An invitation that expired stays `PENDING` and blocks the next one.
* A code that a newer one replaced is valid again once the newer one is consumed.
* A vendor under review whose unapproved branch is archived is never approved nor rejected.
* `refreshStatus()` inside `reserve()` and `confirm()` never stores `EXPIRED`: the refusal rolls it back.
* `updateStoreType()` can never change a stored type.

Matching and offers:

* `decide()` sets the match without the proposal's status; a rejected candidate that had been requeued
  leaves the match in place; two candidates of a variant can be approved.
* "Fires exactly once" (`offers/vendor-offers.controller.ts:1634-1639`) is not so after a requeue and a new approval.
* A variant can be added to a merged product, and exact matching proposes such variants; reviews,
  favourites and proposals stay with the loser of a merge, and its offers keep its name.
* Titles stay editable after a match; restricting a published product leaves it published; removing the
  primary image leaves an active offer without one.
* The discount sweep takes the 200 oldest discounts first, those it has announced included: beyond 200
  running discounts a new one is not announced while they run.
* "A null in any one discount field means 'clear the discount'" (`offers/vendor-offers.controller.ts:1241`) does not
  happen: `resolveDiscountFields()`, called just before, refuses an incomplete window, so that :1242-1249 never run.
* An import that reuses an offer records its identifiers by another path than a new one.

What customers are shown:

* The cart's limit and public availability count stock at archived, unapproved and closed branches that
  the quote leaves out; "buyable" ignores the subscription that checkout requires.
* A comparison marks the cheapest offer even if it is sold out; a card prefers one in stock.
* A cancellation at an archived branch may alert that an item is back.
* `confirm()` does not check the minimum order again.
* The listings with `page` and `page_size` have no cursor and give no such guarantee as
  `PagesNeitherRepeatNorSkip`; with an ascending cursor on a creation time, a row that commits late may be missed.

Orders, slots and returns:

* `orders/branch-orders-staff.controller.ts:399` passes `deliveryFeeRefunded = false` when it computes the cash due,
  so an order converted to pickup relies on other fields to leave the fee out.
* `orders/fulfilment-exception-sweep.service.ts:331-345` re-checks that `slotMissedAt` is set, not how old it
  is. A reschedule and a new miss between the query and the lock are closed at once; a slot
  has to pass while a tick runs.
* A preparation reminder is decided from the candidate query: after a reschedule it may announce the old slot.
* `delivery-windows/delivery-windows.controller.ts:506` accepts an exception on a date that already has orders
  (PDR-024, `docs/approved-product-decisions-2026-09.md:40`); they keep their slot. Removing a window is refused
  as having order history when only an expired hold refers to it.
* `apps/api/prisma/schema.prisma:2011-2016` says that stock changes through movements only;
  `checkout/checkout.service.ts:1437` and `orders/branch-order-cancellation.service.ts:392` write the quantity without one.
* A plain return may be received at an archived branch (`returns/returns.service.ts:991`).
* No `return.*` event type has a mapping (`outbox/outbox-relay.service.ts:66`): all end as dead letters, contrary to
  `returns/return-sweep.service.ts:26` and `docs/srs/02-functional-requirements.md:495`.

## 8. What was done in which order, and what is left

Orders and their sweeps; outbox; stock and slots; idempotency keys and returns; then accounts; sellers and
the marketplace; matching and the catalogue; the shopping modules. Each module was checked before it was
proved about.

Left, in this order: a module of lock orders, with the locks of checkout, exchange, archive, movement and
invitation transactions as steps of their own, for the cycles of section 7; brands,
media and the price difference of exchanges; what an abstract specification could promise of the
marketplace and of stock, as `OrderSettlement` does of orders, with the mapping proved.
