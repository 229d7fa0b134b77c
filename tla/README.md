# TLA+ models of the SCS platform's order core

The SCS platform is a multi-merchant marketplace (`apps/api`, NestJS over PostgreSQL through
Drizzle). A checkout splits a cart into one *sub-order* per store under one *master order*. Each
sub-order is decided by its merchant, may wait for a bank transfer, has one shipment, draws its
stock from inventory rows whose every movement is also a row of a ledger, is completed by its
buyer or by a timer, and may come back as a return that is refunded and taken out of the merchant's
settlement. Buyers, merchants, drivers, carriers, administrators and timers all write to the same
few rows, from any number of API processes, under READ COMMITTED isolation. The code protects
itself with four devices, in different combinations in different handlers: `UPDATE ... WHERE status
= <what I read>` (an optimistic lock), `SELECT ... FOR UPDATE`, transactions that do several writes
together, and partial unique indexes. This directory checks what these devices do, and do not,
guarantee.

All paths are relative to `apps/api/src/` unless they begin with `docs/`. The two documents quoted
most are called the *P12 lock* and the *P13 lock*:
`docs/production/SCS-CATALOG-PRODUCT-MANAGEMENT-PHASE-9-P12-BUSINESS-RULES-ARCHITECTURE-LOCK.md` and
`docs/production/SCS-CATALOG-PRODUCT-MANAGEMENT-PHASE-10-P13-BUSINESS-RULES-ARCHITECTURE-LOCK.md`.

## 1. Inventory

| Component | State it keeps | Operations | Interacts through | Hard behaviours | What makes it correct | Modelled |
|---|---|---|---|---|---|---|
| **Order lifecycle** (`modules/orders/orders.service.ts`) | `orders.status`; one `shipments` row; `inventory_items` (on hand, reserved); `stock_movements` | accept, partial accept, reject, transition, cancel, driver and carrier delivery, fulfilment, exceptions, retry, return-to-sender, physical return, stock settlement | shared rows; master recalculation; outbox | handlers interleave between a check and its write; two rows are written by two requests in either order; a process dies between two commits | no oversell; each reserved unit settled once; stock agrees with status; statuses move along the matrix; shipment agrees with order | `OrderLifecycle`, `StockPromise` |
| **Master orders** (same file) | `master_orders.status` | `recalculateMasterOrderStatus` after each sub-order change | reads all sub-orders | status read before the lock that should protect it | the master never announces what its sub-orders have not reached | `MasterOrder`, `OrderSystem` |
| **Completion** (same file, `auto-complete.worker.ts`) | `buyer_confirmed_at`, `auto_complete_at` | confirmDelivery, completeOrder, polling worker | order status, outbox | several workers claim one row; a dispute between read and write; crash | completed once; no dispute undone; eventually completed | `OrderCompletion` |
| **Payments** (`modules/payments`) | payment records, refunds | submit, verify, confirm, expire, cancel, request and approve refund | order status | two refund requests sum at once; expiry races confirmation and cancellation; lock order | refunds never exceed the money; payment and order close together | `Payments`, `RefundPromise` |
| **Return requests** (`modules/returns/returns.service.ts`) | return requests, refunds with a key | request, decide, ship, receive, inspect, refund, fail, escalate, resolve | payments, inventory, settlements | stale check long before an insert; refund and return in two transactions; crash between them; a refund under a key of the buyer's choice | one return under way; refunded once, restocked at most once; within the order | `ReturnRequests` |
| **Return finance** (`commission-reversal.service.ts`, `settlement-adjustment.service.ts`, `reconciliation.service.ts`) | settlement rows, commission reversals | calculate, pay, adjust, reverse | returns, refunds | sums read outside the transaction; row rewritten by id | reversals within the commission; credits within the ledger | in `ReturnRequests`, partly |
| **Worker lease** (`modules/operations/worker-lease.service.ts`) and **return expiration** (`modules/returns/return-expiration.worker.ts`) | lease row: holder, epoch, expiry, failure counter; pause control | acquire, renew and fence, release, record failure; tick, claim, escalate | return requests | a holder that stalls past its lease; crash; shutdown in mid-tick; pause in mid-batch | one owner per epoch; an overtaken owner stops; overdue returns are escalated | `WorkerLease`, `LeasePromise` |
| **Shipment cancel endpoint** (`modules/shipping/shipment-operations.controller.ts`) | the shipment row | cancel; label, pickup, tracking | order lifecycle | row cancelled by id | shipment agrees with order | cancel, in `OrderLifecycle` |
| **Checkout** (`orders.service.ts`) | master order, sub-orders, idempotency key | `checkout` | cart, pricing, promotions, payments | a retry after a lost answer; last status write after the commit | one order per key; a decided order is not reopened | its last write only |
| **Inventory administration** (`modules/inventory`) | `inventory_items` | adjust, transfer | order lifecycle's stock | quantity computed from a read outside the write | no lost stock update | no |
| **Outbox dispatcher, carrier worker** (`common/outbox`, `modules/shipping`) | outbox events, carrier references, webhook inbox | publish, dispatch, claim, create or cancel at the carrier, poll, webhook | `processCarrierDelivery` | two dispatchers without a claim | at least once | no |
| **Circuit breaker, retry policy** (`modules/shipping`) | counters in memory | call, probe | carrier worker | concurrent half-open probes | one probe | no |
| Cart, pricing, promotions; catalog, governance, import, search; identity, merchant, admin, reviews, disputes; notifications, realtime, audit, analytics | their own rows | CRUD, validation, reporting | - | - | outside the order core | no |

`PROJECT.json` lists the components with their status, under `hazards` each place in the code that is
hard to test, with the properties that cover it, and under `map` the lines each definition models.

## 2. Plan

Done, in the order of importance: order lifecycle and its stock; master orders; worker lease with
the job it protects; payments, with an abstract specification and its refinement; completion, with
liveness; return requests with their refunds, settlements and commission; an abstract specification
of the stock, which `OrderLifecycle` is proved to implement, and one of the lease, which `WorkerLease`
is; the composition of the orders with their master, which is proved to implement `MasterOrder`.

Left: the checkout transaction with its idempotency key; inventory administration (its stale read is
described in section 6); the outbox dispatcher and the carrier worker, once polled events reach
their handlers.

## 3. Modules and the code

In every module an action is what a request does between two points where another request can see
it: an unlocked SELECT, one conditional UPDATE, or a transaction from its last relevant read to its
commit. A request in flight is a record `job[h]` of its local variables and of the step it is at. A
*handler* serves one request at a time, so the number of handlers is the number of requests that
overlap. `Abort` is a request that throws, or whose process dies, between two steps: its open
transaction is rolled back and what it committed stays. Definitions whose name ends in `Bug` are
plausible mistakes; no specification uses them, and each property is shown to fail when one takes the
place of the definition it is named after.

**OrderStatus** holds `OrdersService.TRANSITIONS`, the list of statuses `cancelOrder` accepts (a
separate list in the code: it adds OUT_FOR_DELIVERY), their union `Edge`, and
`computeMasterStatus`, on the set of sub-order statuses since `every` and `some` do not see order
or multiplicity.

### OrderLifecycle: every request that writes a sub-order, its shipment or its stock

| Code | Module |
|---|---|
| `orders.status` | `status` |
| `shipments.status`, `assigned_driver_id`, `cancelled_at`, `exception_status`, `exception_type` | `ship`, `driver`, `cancelledAt`, `exc`, `excType` (types in three classes: those the code tells apart) |
| `inventory_items.qty_on_hand`, `qty_reserved` | `onHand`, `reserved` |
| `stock_movements` of an order, by type | `resv`, `rel`, `sold`; `back` is the part of `rel` that `recordReturn` wrote; `prints` its fingerprints |
| an order row's lock held by an open transaction | `lock` |
| `checkout` reached its post-commit write | `posted` |
| `acceptOrder`, `partiallyAcceptOrder`, `rejectOrder` | `DecideRead`, `autoAdvance`, then `plainFlip`, `reserveStock`, `createShipment`, or `partiallyAccept`, or `rejectReadsLedger`, `rejectReleases`, `rejectWrites` |
| `transitionStatus`, `cancelOrder`, `deliverOrder`, `processCarrierDelivery`, the fulfilment methods | their request action, then `flipConflict` (409), `plainFlip` or `settlingFlip`, then `transitionCommits`, `cancelReadsShipment` and `cancelCommits`, `deliveryCommits` or `fulfilShipment` |
| `settleStockForStatus` | `Owed` read at the flip; `Release` or `Sell` at the commit |
| exception, retry, return-to-sender methods | prechecks (one action each), `exceptionRechecks`, `exceptionClaims` |
| `recordReturn` | `recordReturn`, `returnViews`, `returnCommits` |
| `cancelShipment` of the shipment controller | `cancelShipment`, `cancelShipmentWrites` |
| payment confirmation and expiry, checkout's last write | `paymentConfirmed`, `paymentExpired`, `checkoutGate` |

Reductions, and why they lose nothing:

- A request reads the order and the shipment in one action. Every write that follows is either
  conditional on what was read or by id alone, so an interleaving between the two reads gives a pair
  of values that some later check, or none, looks at again; a stale pair is already possible, since
  arbitrarily many steps separate the read from the write. The exception flows that re-read the order
  inside their transaction have that re-read as an action (`exceptionRechecks`).
- The effect of a settlement on stock is placed at the commit of its transaction, which holds the
  inventory row until then; what is owed is computed when the ledger is read, which is before the
  inventory row is locked, as in the code.
- Each order has one line, and all orders draw on one inventory row: settlement, reservation and
  return treat lines independently, and the interesting case is orders that compete for a row.
- The retry limit never refuses because attempts count deliveries. Manual inventory adjustments are
  not modelled, so `NoOversell` is about what order requests do.

**StockPromise** is the abstract specification of the inventory row: units that are left are set
aside for an order; of those set aside for it, and of no others, each is given back once or sold once.
`OrderLifecycle` instantiates it (`Promise`) with what is available and what each order still holds by
the ledger, and `StockKept` says that every step is a step of the promise or a stutter: neither the
floors at zero nor the unlocked reads of the ledger show. It is model-checked, and proved
(`StockIsKept`).

### MasterOrder: the aggregation

`recalculateMasterOrderStatus` statement by statement (read the master, lock it, load the sub-orders,
write if the aggregate differs from what was read), with a sub-order change in front of it: a step
along `Edge`, by a request that has no recalculation to finish. Payment confirmation and expiry change
a sub-order with no recalculation, as in the code, and a carrier delivery recalculates even when it has
changed nothing (`recalculatesAnyway`). A recalculation may fail at any step.

### OrderSystem: the orders with their master

All that `OrderLifecycle` does, each step that writes a status obliging its request to recalculate
the master once nothing else of it is left (the calls at `orders.service.ts:773`, 866, 936, 1153, 1387,
1767, 1920, 3458, 3539, 4253). So does a carrier delivery that finds its order changed: the `return` at
4166 leaves the transaction's callback only, and the request goes on to the auto-complete schedule
(4244-4250, in `OrderCompletion`) and to the recalculation (4253). A request that throws or dies before has its change committed and
its recalculation dropped; a second shipment, refused by its UNIQUE constraint, is one way to throw. The
recalculation's own steps are those of `MasterOrder`, instantiated on the same sub-orders, and
`MasterFollows` says that the whole implements `MasterOrder`: what that module takes for granted of
requests is what they do. Its other caller, `completeOrder` (4109), is the manual transition to COMPLETED
as far as the master can tell.

### OrderCompletion: delivery, confirmation, the polling workers

`status`, `confirmed` (`buyer_confirmed_at`), `due` (`auto_complete_at`: absent, ahead, passed) and
`published` (order.completed events) of one order. A worker looks at each claimed row by itself and
catches what it throws, so orders do not influence one another; `BATCH_SIZE` only delays a row and is
left out (section 6 says when it matters). `deliveryFlips` and `writeSchedule` are the two commits of
a delivery; `confirmationFlips` and the three steps of `completeOrder`, `completionFlips`,
`publishCompleted` those of a confirmation, the latter three shared with a worker's `poll` and
`processCompletion`. The claim is `FOR UPDATE SKIP LOCKED` in a statement that commits at once, so
it excludes nobody and is a read. `throws` is a failing statement, `dies` and `starts` a process.

### Payments: one payment, its refunds, the order they move

| Code | Module |
|---|---|
| `payment_records.status`, `confirmed_amount_minor`, `payment_method` | `pay`, `confirmed` (0 for NULL), `method` |
| `orders.status` as payments read or write it | `order`, with ACCEPTED to OUT_FOR_DELIVERY as UNDERWAY |
| `checkout` reached its post-commit write | `posted`; the write is `checkoutGate` (`orders.service.ts:592`) |
| `refunds` rows | `refund` |
| `transitionToAwaitingVerification`, `submitProof`, `verifyPayment`, `confirmCash`, `expirePayment` | `awaitPayment` and the actions of those names, then `flip`; `settle` is the order write in the same transaction |
| conditional order writes of merchants and the status endpoint | `orderMoves`, along `Onward` |
| the order writes by id: auto-advance (650), partial acceptance (824), rejection (890) | `decideOrder`, then `autoAdvance`, `partiallyAccept`, `rejectWrites` |
| `cancelOrder` with `cancelPayment`, `rejectOrder` with its automatic refund | `cancelFlips`, `cancelReadsPayment`, `cancelPayment`; `rejectWrites`, `autoRefund` |
| `requestRefund` (payment row locked), `approveRefund` | `insertRefund`; `approveFlips`, `approveCommits` |

Row locks are not variables: `PaymentFree`, `OrderFree` and `RefundFree` read off the requests in
flight who has written a row and not committed. `confirmPayment` locks payment then order,
`cancelOrder` order then payment; `victim` is the database aborting one of the two.

Every behaviour starts where the checkout has committed the order: SUBMITTED, its first status not yet
written. Merchants may decide it there, advance it by id, and the status endpoint may take it from
PAYMENT_PENDING to PAYMENT_CONFIRMED, all of which go round the payment gate; and an order may be
written by id after it has changed. Two history variables in one, `strays`, record that it happened:
"gate", a transfer order left SUBMITTED or PAYMENT_PENDING by anything but the checkout, a
confirmation, an expiry or a cancellation; "order", the checkout's write, an auto-advance or a partial
acceptance found another status than its request had read. No guard reads it. What is said of money
(`ConfirmedOnce`, `RefundsWithinConfirmed`, `RefundedMeansAll`, `PromiseKept`) holds whatever is in
`strays`. `GateNeedsConfirmation` is said until "gate" is in it, `ClosedWithOrder` while it is empty:
after that the code gives neither (section 6). The rejection's write by id does not count as a stray,
since a rejected order goes nowhere and both properties survive it.

The amount confirmed comes unchecked from the request, so it may be 0 or less. `confirmed` is 0 for
NULL too; `requestRefund`, the one reader that tells them apart, runs only when a confirmation has set
the amount.

**RefundPromise** is the abstract specification: money is received once; what is promised back and
what is repaid never exceeds it; a repayment is never undone. `Payments` instantiates it with the
sums over its rows (`Promise`), and `PromiseKept` says that every step of the code is a step of the
promise or a stutter. It is model-checked, and proved (`PaymentsKeepPromise`).

### ReturnRequests: from the buyer's request to the merchant's settlement

| Code | Module |
|---|---|
| `return_requests` and its row of `commission_reversals` | `ret` (status, quantity, responsibility, refund, reversal) |
| `restoreInventory` runs of a return | `restored` |
| `refunds`, with `idempotency_key` | `refund` |
| `settlement_records` | `settlement` |
| `createReturnRequest`: payment, refunded amount, active return, insert | `createReturnRequest`, `readRefunded`, `readActive`, `insertReturn` (with the partial unique index of migration 0059) |
| approve, reject, cancel, ship, receive, inspect, reject after inspection, fail, escalate, resolve | `transitionReturn` or `resolveEscalation`, then `flip` |
| `createRefundRequest` | `findRefund`, `askRefund`, `linkRefund` |
| `requestRefund` through the refund endpoint, with a key of the caller's choice | `requestRefund` |
| `markRefunded` with `adjustSettlement` and `processCommissionReversal` | `markRefunded`, `markFlips`, `post` |
| `calculateSettlement`, `markSettlementPaid` | `calculateSettlement`, `insertSettlement`, `markSettlementPaid` |

The order is of one product at price one, so an amount of money is a number of units; proportions are
still rounded down, since the commission need not divide. The three categories that reverse the
commission are one, MERCHANT. Approving a refund is one action: its races are those of `Payments`.

The refund endpoint takes the idempotency key from its caller (`payments.controller.ts:94-99`,
`payments.service.ts:651`), so a buyer may insert a row of key `return-refund:<id>`, and
`createRefundRequest` takes any row of that key for the return's (641-650). `BuyerKeys` is the set of
returns this may happen to, at any time after the return exists; before, its id is not known. Such a
row has any amount that fits; one of amount 0 is a row of another payment, which takes nothing from
this order, and what it takes elsewhere is not followed. No key is assumed safe: every theorem holds for every
`BuyerKeys`, and where a property needs a return's own key it says `r \notin BuyerKeys`.

### WorkerLease: the lease and the job it protects

| Code | Module |
|---|---|
| `worker_leases`: holder, epoch, `expires_at > now()`, failure counter | `holder`, `leaseEpoch`, `fresh`, `pollFailures` |
| the process: timer, lifecycle state, its epoch, where its tick is, its batch | `life`, `state`, `epoch`, `at`, `batch`, `item`, `failed`, `rested` |
| `tryAcquire`, `renewAndFence`, `release`, `recordPollFailure`/`Success` | `tryAcquire`, `renewAndFence`/`fenceLost`, `release`, `Failure`/`reportCycle` |
| `ReturnExpirationWorker`'s tick, batch and items | `tick`, `isPaused`, `claim`, `isPausedAgain`, `processExpiration`, `escalateReturn` |

A member of `Workers` is one lifetime of a process: its holder id is made at start, so a restarted
process is another member. Of the clock only `expires_at > now()` matters, so time is `leaseExpires`.
`late`, `afterPause`, `misses` and `escalations` are history variables that count what the
properties forbid; no guard reads them.

`LeasePromise` says what the lease is good for, without epochs, ticks or batches: a live lease is not
taken from its owner, an item is worked on once, and only the owner works, but for one item of a process
that has lost the lease without knowing. The `owner` of the promise is the row's holder, `live` is
`fresh`, `done` is `escalations`, and a process has its item to `spare` while it believes in an epoch
and has not escalated without owning it.

**UnitSums** writes a sum as the number of units: a row of amount n is the pairs `<<row, 1>>` to
`<<row, n>>`. A sum over rows then needs no recursion, and its lemmas say what a change of one row
does to it. The `MC*` modules add the quantities and the symmetry sets of the instances.

## 4. Runs

| Run | Instance | Shows |
|---|---|---|
| `stock` | 1 order of 2 units, 2 requests, every operation but the manual transition (it multiplies the states by five; `settle` has it, and the theorems of these properties have every operation), aborts, bank transfer, stock 3 | types; stock is never oversold; concurrent returns are capped; a parcel reported lost is never restocked |
| `gate` | 1 order of 2 units whose checkout is not finished, 2 requests (also partial acceptances and shipment cancellations), aborts, stock 3 | inventory counters and ledger agree although requests overtake the checkout's last write, and an order may even be accepted twice; a short reservation happens |
| `settle` | 1 order of 2 units, 2 requests, the conditionally writing operations, aborts, bank transfer | a unit is settled once, an order reserves once, stock and shipment agree with status, every visible status change is an edge |
| `system` | 2 sub-orders of one unit, one of them by bank transfer, 1 on the shelf, 2 requests (acceptance, fulfilment, carrier delivery), aborts | the two orders' stock implements `StockPromise`; the orders and their master implement `MasterOrder` |
| `master_ending` | 2 sub-orders, one by bank transfer, 3 recalculations, failures | DELIVERED, COMPLETED and CANCELLED are never announced falsely |
| `lease_owner` | 2 process lifetimes, one of which may die, 2 overdue returns claimed together, 1 fault | an epoch has one owner; an overtaken or paused owner finishes at most the item it is on; only the owner's failures count; a live lease is only released by its holder; `LeasePromise` is kept, so a return is escalated once |
| `lease_takeover` | the same with 1 return and 2 faults, fairness | an overdue return is escalated or answered in the end |
| `money` | 3 overlapping requests, 2 refund rows, both methods, every operation, from the unfinished checkout on, confirmed amounts 0 and 2, aborts | money is confirmed once; `RefundPromise` is kept; REFUNDED means all of the money; an order that has not gone round the gate passes it with a confirmation only, and an order that has not strayed is closed with its payment |
| `late_money` | 2 requests, 1 refund row, bank transfer | counterexample, section 6 |
| `returns` | 2 requests, 2 returns, one of whose keys the buyer may use, 2 refund rows, 1 unit, aborts | one return under way; restocked at most once, and only after an inspection; refunded by one refund; returns and direct refunds within the order; reversals within the commission; only edges of `TRANSITIONS` |
| `settled` | 2 requests, 1 return, whose key the buyer may use, 2 refund rows, 2 settlement rows, 2 units, commission 2, aborts | settlements credit no commission that the ledger did not reverse |
| `completion` | 2 requests, 2 workers of which one survives, 2 failing statements, fairness | completed once; disputes stand; a scheduled delivery is completed in the end |

Bounds, and why they are enough. Two overlapping requests suffice for every race on one row: each
conflict found, and each case of the proofs, is between the holder of one stale value and one other
writer. A third is there where two writers meet at a third row (`money`, where an approval's stale
sum, a second approval and a cancellation or rejection can meet; `master_ending`), and two orders
where they share an inventory row and a master. Two units make partial returns possible, three on
the shelf a short reservation. In `money` the amount 2 admits two partial refunds and one of all; 0
is the confirmation that should not count as money, and negative amounts, which behave like 0, are
left to the theorems. In `returns` two refund rows are all that one unit admits, one of amount 0 and
one of the unit, and the second return is refunded after the first only if that one was paid by such
a row, which is what puts two reversals on one commission of 1. The same run with two units would be
nine million states: partial returns are in `settled`, with one return; a reversal cut down to a
part that is left, and returns of different amounts, are in the theorems (`ReturnReversalsCapped`,
`ReturnsWithinOrder`), with any number. `MaxFaults` and `MaxErrors` bound only what goes wrong in a
process that lives; dying and starting are free. `MaxRefund`, `Refunds`, `Requests`, `Settlements`
bound how much is ever asked for; a request that finds no free row ends as if refused.

`CHECK_DEADLOCK FALSE` appears only where an ended order, payment or return with no request left is the
normal end; the worker runs check deadlock. Symmetry is over interchangeable requests and rows, and
not used in a run with liveness.

## 5. Fairness

- `WorkerLease!Fairness`: a surviving process starts, the timer of a process that lives fires and its
  statements return (each fails at most `MaxFaults` times in all), intervals and lease times pass. Time
  and timers are the code's own scheduling (`setInterval`, `expires_at`). Nothing is assumed of
  operators, of merchants, or of a process that may die: it need not die, nor start, nor finish its
  shutdown. `OverdueIsEscalated` presupposes that the job does not stay paused, for a pause is obeyed.
- `OrderCompletion!FairSpec`: the window elapses, and a surviving worker's poll goes on. No request
  has to continue, since nothing in the code resumes one: a delivery may stop before it writes its
  schedule, and the property is therefore about orders that have one.
- The order, payment and return handlers have no fairness: nothing retries them.

## 6. Where the code departs from what the repository says

**A cancelled order takes money** (run `late_money`, property `CancelledTakesNoMoney`). `cancelOrder`
reads the payment as AWAITING_PAYMENT; the buyer submits a proof; `cancelPayment`
(`payments.service.ts:977-999`) finds the status changed, leaves the payment open, and the order is
cancelled all the same. `verifyPayment` (279-300) looks at the payment alone and confirms it. The P12
lock, 1183-1185: "If cancellation first", "payment confirmation blocked (order is CANCELLED)".

The following were found while modelling, most with a TLC trace at the time. They have no run: the
properties above are stated so as to say what remains true, and where nothing does there is none.

Orders and stock (`orders.service.ts`):
- *Return and cancellation release the same units.* A cancellation's settlement reads the ledger
  (3680) before it locks the inventory row (3711); `recordReturn` never touches the order row, so it
  commits in between. `docs/production/SCS-M7.3-C-BUSINESS-RULES-ARCHITECTURE-LOCK.md:381-383`
  promises "only the remainder".
- *A rejection overwrites a cancellation.* `rejectOrder` writes by id (890) on a status read long
  before, and settles before that write (886); `partiallyAcceptOrder` writes by id too (824). The
  matrix has `CANCELLED: []` (3876).
- *Stock reserved for ever.* `acceptOrder` flips the order (753) and reserves after (763): a
  cancellation in between finds nothing to release. The comment at 3647-3648 names this as the fault
  settlement was written to remove.
- *A delivered parcel enters return-to-sender.* `requestRTS` re-reads the order without a lock
  (2312-2324); INV-B5-12, `docs/production/SCS-M7.3-B.5-BUSINESS-RULES-ARCHITECTURE-LOCK.md:1218`.
- *An authorised retry cannot deliver.* Delivery refuses RETRY_PENDING (1818, 4152) and nothing but a
  cancellation leaves it; `docs/production/SCS-M7.3-B.4-BUSINESS-RULES-ARCHITECTURE-LOCK.md:351`.
- *The checkout reopens an accepted order.* The auto-advance (650) and the payment gate (592) write by
  id after the order is visible.
- *A cancelled order goes on with its CANCELLED payment.* A partial acceptance reads the order (791); a
  cancellation closes order and payment; the acceptance writes the order by id (824-834). An
  auto-advance (650) and the checkout's gate (592) do the same to an order cancelled before they write.
  `ClosedWithOrder` is checked and proved until such a write happens.
- *A late fulfilment takes a shipment back.* A fulfilment step writes the shipment by id (3430) after its
  flip has committed; the delivery or cancellation that follows may write the shipment first. The order
  is then DELIVERED or CANCELLED and its shipment READY_FOR_PICKUP, say. `ShipmentOutcomeAgrees` relates
  a shipment's outcome to its order and does not say that an order's outcome reaches its shipment.
- *The master order is left behind.* The status compared with is read (3942) before the row is locked
  (3949). Accept order A; while its recalculation is about to write ACCEPTED, cancel A: the
  cancellation's recalculation has read SUBMITTED, computes SUBMITTED, and skips the write. The next
  change of a sub-order repairs the master; if there is none, nothing does.
- The shipment cancel endpoint cancels the row of an order that goes on; `EXCEPTION_TRANSITIONS` (1035)
  is consulted by no handler; the matrix lacks SUBMITTED to PAYMENT_PENDING, which the checkout writes.

Completion:
- A crash between the `buyerConfirmedAt` write (4012-4022) and `completeOrder` (4033) leaves an order
  DELIVERED for ever: the worker skips confirmed orders, and a second confirmation is a 409, although
  the comment at 3987-3988 and `docs/production/SCS-M7.3-A-IMPLEMENTATION-RESULTS.md:139` say
  idempotent success.
- `auto_complete_at` is written after the delivery commits (1911-1917, 4244-4250), not at all by a
  delivery through the status endpoint, and also by a carrier delivery that lost the race.
- `order.completed` is published outside the flip's transaction: an error in between loses it.
- Two instances can claim the same order (the document cited, :203, says they claim different ones);
  the flip's WHERE saves it. Twenty orders that fail for ever would keep later ones from a batch.

Payments (`payments.service.ts`):
- *An order is accepted before its payment gate exists.* The checkout commits a transfer order as
  SUBMITTED (`orders.service.ts:441`) and writes PAYMENT_PENDING in a later statement (592). `acceptOrder`
  in between finds SUBMITTED, advances it by id (650, 732-734) and takes it on, with its payment CREATED.
  The comment at 587 says that the buyer "must submit proof first"; the P12 lock, 422: "Merchant
  acceptance now requires PAYMENT_CONFIRMED status first".
- *The status endpoint passes the gate without a payment.* `transitionStatus` (`orders.service.ts:1059-1097`)
  looks at the matrix only, and that has PAYMENT_PENDING to PAYMENT_CONFIRMED (3874). The P12 lock, 305:
  "payment verified". `GateNeedsConfirmation` is checked and proved until one of the two happens.
- A confirmed amount of 0 or less opens the gate: `verifyPayment` (298) and `confirmCash` (405) take it
  from the request as it is.
- Two approvals that sum without one another leave a wholly refunded payment PARTIALLY_REFUNDED
  (780-800); `approveRefund` writes the status by id and may overwrite CANCELLED; `cancelPayment` may
  take PARTIALLY_REFUNDED to CANCELLED, which the matrix forbids.
- A rejected proof can never be resubmitted (the matrix refuses what the method admits); a payment
  stays CREATED if `transitionToAwaitingVerification` fails (`orders.service.ts:602-607`);
  `expirePayment` has no caller.
- When `cancelOrder` is the deadlock victim its error is swallowed, COMMIT rolls back, and the caller
  is told that it cancelled.
- The automatic refund after a rejection asks for the full amount: after a partial refund it fails,
  and a crash before it loses it.

Returns, settlements, commission (`modules/returns`):
- *A return is refunded by another amount than it asked for.* A refund that its buyer asked for with key
  `return-refund:<id>` is inserted like any other, and `createRefundRequest` (641-650) takes it for the
  return's, whatever its amount or payment; when it is approved the return is REFUNDED. The P13 lock, 829
  (AC-P13-006): "Exact amount match". What survives, and is checked and proved: the return has that one
  refund, and the order is never refunded more than it had.
- *A rejected return has been restocked.* The inventory is restored by the inspection (547-577), before
  the decision, and the rejection (607-631) takes nothing back. The P13 lock, 404 (BD-P13-INVTRIG-003):
  "no inventory restoration occurs"; also 840 (AC-P13-017). `RestoredOnce` therefore says only "at most
  once, and not before an inspection".
- *Double debit.* A settlement calculated between a refund's approval and its return's REFUNDED counts
  the refund, and `adjustSettlement` (`returns.service.ts:1057`, see the comment at 1002) adds it again.
- `calculateSettlement` sums refunds outside its transaction (P13 lock, BD-P13-CONC-017, says inside);
  after PAID it can make a second full settlement; `adjustSettlement` rewrites by id a row that may have
  been paid since; direct refunds after settlement never adjust it; the reconciliation's net formula
  (`reconciliation.service.ts:322`) flags every ADJUSTMENT row with a reversal.
- `restoreInventory` releases `qty_reserved` although the sale consumed it, and a write-off lowers on
  hand again (AC-P13-016, :839 of the P13 lock).
- No status leads to EXPIRED, so the endpoint that expires a return always conflicts; a rejection after
  inspection that overtakes `createRefundRequest` leaves a live refund that can be approved (:130, :174);
  `refunds.return_request_id` is read by nothing; the quantity check of a new return omits REFUND_FAILED.

Worker lease: a failed acquisition records its failure with epoch 0, which owns nothing, so it is
never counted; a tick in flight at shutdown may acquire after the release was skipped, and strands the
lease until it runs out; the escalation itself is not fenced, hence "at most one item".

Not modelled: `claimEvents` returns raw rows with snake_case columns
(`shipping-carrier.worker.ts:171-188`) and `processEvent` reads `event.eventType` (199), so every
claimed event takes the default branch (220) and is marked DISPATCHED (225-233);
`OutboxDispatcher.poll` (80-95) takes all pending events, those of the carrier worker too; HALF_OPEN
admits every caller of the circuit breaker; `adjustStock` and `transferStock`
(`inventory.service.ts:271-303`, 488) write a quantity computed from a stale read.

## 7. Proofs

Every `*Proofs` module and `UnitSums` is checked by TLAPS from nothing. The theorems hold for any
handlers, rows, workers and quantities that satisfy the modules' assumptions, which are what the
schema gives (`RowsAssumption`, `MasterAssumption`, `PaymentAssumption`, `ReturnAssumption`,
`ActorsAssumption`, `WorkersAssumption`, ...), and with aborts, deaths and faults.

**OrderLifecycleProofs.** For every operation and every interleaving:
- `Typing`: type correctness, with what each request in flight has established when it reaches each
  step (`WellFormed`), which the others need.
- `NeverOversold`: `reserved <= onHand`. `reserveStock` takes what the locked row has left, `Sell` and
  the write-off lower both counters together; every other step lowers `reserved`.
- `ReturnsAreCapped`: the cap is evaluated again under the row lock and nothing lowers `resv`.
- `LostIsNeverRestocked`: the exception type is checked on a stale read. Once a return is in flight its
  order's exception has been reported, and the only step that writes a type needs an exception status
  that never comes back.

- `RowsAreLocked`: a transaction between its flip and its commit holds the order row, still in the
  status it read. This is where the row lock is used, and it needs no condition at all.

Six more properties do not hold with every operation: section 6 has the counterexamples. Each theorem
excludes the operations that break its property, and no others (`Without` names them; TLC finds a
violation with each operation of the second column added, and the third lists operations of the same
kind with which the theorem holds all the same). *Checkouts over* is `Fresh = {}`.

| Theorem (property) | Excludes | Includes, although it writes by id alone or out of order |
|---|---|---|
| `UnitsSettleOnce` (`SettledOnce`) | rejection, physical return | partial acceptance, shipment cancel endpoint, unfinished checkouts |
| `LedgerAgrees` (`StockMatchesLedger`), `StockIsKept` (`StockKept`) | rejection, physical return | partial acceptance, shipment cancel endpoint, unfinished checkouts |
| `AcceptancesReserveOnce` (`ReservedOnce`) | unfinished checkouts | every operation |
| `StatusTakesEdges` (`StatusEdges`) | partial acceptance, rejection, unfinished checkouts | physical return, shipment cancel endpoint |
| `SettlementFollowsStatus` (`SettlementMatchesStatus`) | partial acceptance, rejection, physical return, unfinished checkouts | shipment cancel endpoint |
| `ShipmentFollowsOrder` (`ShipmentOutcomeAgrees`) | partial acceptance, rejection, shipment cancel endpoint, unfinished checkouts | physical return |

None of these is inductive alone. `UnitsSettleOnce` adds that a settlement owes at most what is
outstanding (`Owes`): the ledger is read once the order row is locked, two settlements of an order
exclude one another by that lock, and an acceptance in between only adds. `AcceptancesReserveOnce` adds
that an order still undecided has reserved nothing and that the request about to reserve is the only
one: of requests that accept, one flips the row, and no operation makes a decided order undecided again.
`StatusTakesEdges` follows from the lock, from what a request knows of its target, and from
`CheckedOut`: every checkout is over, and no automatic advance is to come. The two agreements of stock
and shipment with the status use the edges. `LedgerAgrees` and `StockIsKept` classify the steps that
move stock (`StockMoves`): an acceptance takes no more than is available, a release or sale takes no
more than is held, so `GREATEST(.., 0)` never hides a difference, and the sums over the orders move
with the counters (`SumChanges`).

**MasterOrderProofs.** `MasterEndingIsTrue`: the statuses an ending stands for are closed under edges
(`EndingStable`), and the aggregate yields an ending only if every sub-order is in them, so both what
the master says and what a recalculation computed but has not written stay true, however late it
writes (`HonestInv`).

**OrderSystemProofs.** `SystemOrders`: with the master left out, a step of the composition is a step of
`OrderLifecycle` or a stutter, so its theorems hold here too. `MasterIsFollowed`, with checkouts over and
without partial acceptances and rejections (whose writes by id may leave the matrix): each step maps to
a step of `MasterOrder` or a stutter. The invariant is `OneRecalculation`: a request owes a recalculation
from its flip to its end, starts it when nothing else of it is left, and has none when it flips again;
a carrier delivery that lost its flip owes one as well.
`SystemEndingIsTrue` then carries `MasterEndingIsTrue` over to the composed system.

**OrderCompletionProofs.** `CompletionInvariant`: at most one actor is between its flip to COMPLETED
and its publication, and then nothing is published; hence `CompletionIsOnce` and `DisputesStand`.

**PaymentsProofs.** `MoneyInvariant`: what each request has read (`Sound`), that two transactions hold
no row together (`Alone`), and that refunds asked for and paid fit in the money. It has no hypothesis:
it holds from an unfinished checkout on, with every operation and any integer confirmed. From it follow
`RefundsAreCapped`, `RefundedIsAll`, `ConfirmationIsOnce`, and `PaymentsKeepPromise`: each step maps to
a step of `RefundPromise` or a stutter. The two properties that tie the payment to its order have no
hypothesis either; they carry their condition in `strays`, which only grows (`StraysGrow`):
- `GateIsPaid`: `GateInv` adds that, until the gate is gone round, a request about to write the order by
  id has read it past the gate with a payment on record, or still SUBMITTED, and then its auto-advance
  is the stray.
- `ClosedTogether`: `CheckoutInv` adds that a SUBMITTED order's checkout is not over, that a transfer
  payment leaves CREATED only after it, and that a decision has read an order that may be decided. A
  cancellation closes the payment with the order; an expiry that does not find the order PAYMENT_PENDING
  finds it CANCELLED, for past the gate it would have its money; and only a stray takes an order out of
  CANCELLED or REJECTED (`ClosedStays`).

**ReturnRequestsProofs**, in four layers, each inductive with the ones before:
- `ReturnFlow`: one active return; what a request checked still holds when it flips; at most one
  transaction posts a return, and its row is locked. Gives `ReturnsAreOneActive`, `ReturnsRestoreOnce`,
  `ReturnsTakeEdges`.
- `ReturnKeys`: one refund per key, linked from REFUND_PENDING on, however often the request crashed
  between the two transactions, and whoever put it there; of the return's quantity, unless a buyer may
  have used the key. Gives `ReturnsAreRefundedOnce`.
- `ReturnLedger`: a reversal about to be posted still fits in what is left although it was summed
  before, since one active return means one such transaction (`OnlyPost`). Gives
  `ReturnReversalsCapped`, `ReturnsCreditWithinLedger`.
- `ReturnMoney`: refunds asked for or paid fit in the order; the units of refunded returns map
  one-to-one into those of their refunds (`MoneyCovers`), those whose key a buyer may have used aside,
  which count by what was paid. Gives `ReturnsWithinOrder`.

**WorkerLeaseProofs.** `LeaseInvariants`: epochs only grow and are handed out one by one, so an owner's
epoch equal to the row's means that nobody took over; with what each step of a tick has checked it gives
the safety properties of `lease_owner` and `EscalatedOnce`. `LeaseIsKept` maps every step to one of
`LeasePromise` or to a stutter: an acquisition, answered or not, to `Take`; a fence to `Extend`; a lost
fence or a death to `Stop`; an escalation by a process that does not own the lease uses up its spare
item, which `OvertakenInv` shows it still has.

**UnitSums**: the lemmas about sums as numbers of units, on which three of these modules rest.

Only model-checked: the liveness properties `OverdueIsEscalated` and `ScheduledIsCompleted` (fairness
is beyond the prover) and the counterexample. Every invariant and action property of a passing run has
its theorem.

## 8. Not modelled

What section 1 marks so, and within the modelled components: authorisation (any handler may run any
operation), history rows, notifications and outbox rows except order.completed, prices and the 5%
price-change check of an acceptance (a refusal like any other), date arithmetic and the business
calendar, evidence files and return windows, several lines per return, several currencies and payment
providers, the dual approval of manual settlement adjustments (sequential under a row lock), the
reconciliation report, and the carrier's HTTP calls. PostgreSQL's READ COMMITTED behaviour (row locks,
re-evaluated WHERE, statement snapshots, deadlock detection) is assumed. Most of the repository is
user interface, catalog maintenance and copies of the sources kept as scratch; it has no protocol of
the kind treated here.
