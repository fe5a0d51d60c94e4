# ANYQ: a verification of the shop, its till and its office

ANYQ is a point-of-sale and warehouse system for small shops. This directory
holds TLA+ specifications of the parts of it where requests overlap, arrive
twice, arrive late or fail half way, the TLC configurations that check them on
small shops, and TLAPS proofs of what holds in any shop.

Line numbers are those of the commit the specifications were written from.
`apps/api/src/routes/pos.ts` is written `pos.ts`, `apps/pos/src/App.tsx` is
written `App.tsx`.

## The system

| Part | Where | State it keeps |
|---|---|---|
| API | `apps/api/src` (Express, Prisma) | next to nothing of its own; every fact is a row in Postgres, every change a transaction at READ COMMITTED |
| Till and warehouse terminal | `apps/pos/src` | a queue of sales, a queue of warehouse commands, the open shift and the closed ones, the session, the place chosen, all in localStorage |
| Storefront | `apps/orders/src` | a cart; it places orders |
| Admin panel | `apps/admin/src` | nothing |
| Database package | `packages/db` | the schema: 36 tables |
| Operations scripts | `scripts` | dumps on a disk, on a second disk and in a storage elsewhere; a scheduler that calls the API |

The parts meet in the database. A till sends a sale or a command over a mobile
connection and repeats it until it is answered; the API runs it in one
transaction, with the client's key as a row of that transaction; the rows it
changes are changed by other tills, managers, storefront orders, counts and
repairs at the same time, and hardly a transaction locks a row before it writes
it. So nearly every handler looks first and writes later, and what keeps it right
is the condition it writes under, where it has one.

### Components, what is hard in them, and what makes them correct

- **Stock rows and holds** (`stock.ts`, `bins.ts`, `count-holds.ts`, handlers of
  `pos.ts` and `supply.ts`). State: per product, location and bin a row
  (quantity, reserved, blocked); the movement ledger; order, quarantine and
  bin_block documents. Hard: plans from a snapshot, splits over bins. Correct
  when: counters never go below zero, the ledger explains every row, goods
  promised to an order go to that customer or to nobody, no more is held out of
  sale than lies there.
- **Idempotency** (`idempotency.ts`). State: the key table. Hard: lost replies,
  two copies of one request at once. Correct when an accepted command is applied
  once.
- **Warehouse outbox** (`outbox.ts`, `hooks/useOutboxSync.ts`). State: a queue in
  localStorage. Hard: order across failures, a refusal that freezes the queue,
  restarts. Correct when commands reach the server in the order they were given,
  none is lost, all are sent eventually.
- **Till: shifts and sales on their way** (`sales-queue.ts`,
  `hooks/useSalesSync.ts`, `storage.ts`, `sales-retention.ts`, `shift-tally.ts`,
  `App.tsx`). State: sales, open shift, closed shifts, room in the browser. Hard:
  the shift must be on the server before its sales; the cashier acts while a reply
  is awaited; sales are pruned and squeezed out. Correct when every sale reaches
  the server once and in its shift, and the closing screen expects what went
  through the drawer.
- **Where the till is** (`App.tsx`, `locations.ts`). State: session, place chosen,
  grid, open shift. Hard: every answer is written into what the till was when it
  asked. Correct when goods, shifts and sales are of one place.
- **Transfers** (`transfers.ts`), **order desk** (`picking.ts`), **purchasing and
  supplier returns** (`purchasing.ts`, `supplier-returns.ts`), **customer returns**
  (`returns.ts`), **tables, kitchen, production**. State: a document with lines,
  and the rows, batches and packs it moves. Hard: two people decide on one
  document. Correct when goods, packs and money are accounted for and a decision
  is made on the document as it stands.
- **Shifts and the drawer** (`shift-drawer.ts`): one drawer per payment, from two
  different queries. **Credit, loyalty, settlements** (`settlements.ts`,
  `loyalty.ts`, `payments.ts`): points and debts add up over concurrent tills.
- **Counts** (`counts.ts`): a count made at noon and sent at five corrects by the
  difference it saw at noon. **Reconciliation and repair** (`reconciliation.ts`):
  rows are rewritten from the ledger while the shop trades. **Batches and marked
  codes** (`batches.ts`, `marking*.ts`): three books about one pack.
- **Fiscal queue** (`fiscal-worker.ts`, `fiscal-network.ts`): a sale is filed once,
  what is shown as filed is, nothing waits for ever.
- **Staff** (`staff-operations.ts`, `staff.ts`, `pin.ts`), **registers**
  (`registers.ts`, `devices.ts`), **support access** (`support-access.ts`), **the
  cabinet's lock** (`cabinet.ts`, `totp.ts`), **tariff and licence** (`tariff.ts`,
  `tariff-gate.ts`, `useLicence.ts`). State: who may come in. Correct when a
  change of that holds against everything that was decided before it.
- **Catalogue and import** (`products.ts`, `import.ts`): a barcode names one
  product. **Replenishment** (`replenishment.ts`): what is ordered is not ordered
  again.
- **Backups** (`scripts/backup.mjs`) and **the morning summary** (`morning.ts`,
  `scripts/maintenance.mjs`): steps that can die anywhere and overlap.

`PROJECT.json` lists every component with its status, and every place where one
of these can go wrong with the properties about it.

## Modules

| Module | What it is |
|---|---|
| `StockRows` | arithmetic of the rows of one product at one location: availability, the split of an amount over bins, the single UPDATEs and their conditions |
| `StockHolds` | requests that read, plan and commit over those rows |
| `PromisedGoods` | what a point of sale promises about one product, with no bins and no requests |
| `IdempotentServer` | a command with a key, from its first copy on the wire to the commit or the answer |
| `WarehouseOutbox` | the device's queue and drain loop, composed with `IdempotentServer` |
| `CommandsInOrder` | what such a queue promises: once each, in order |
| `TillSync` | the till's storage, its routines and the three endpoints they call |
| `ClosingScreen` | what the till keeps of its sales when room is short, and the cash it expects at the close |
| `TillPlace` | the place the till sells at, its session, its grid, and answers that come late |
| `Collections` | sums, what is kept of a list, an amount spread over numbered places with room (batches, document lines, bins): each a recursive function, so that it can be proved about |
| `Transfers` | goods, batches and packs between two locations |
| `OrderDesk` | picking, shipping, handing out and turning down, beside the counter |
| `Purchasing` | orders to suppliers, deliveries, what is sent back |
| `Refunds` | one sale taken back in parts: money, points, packs |
| `Restaurant` | tables, kitchen, production from recipes |
| `Drawer` | whose drawer a payment is in |
| `Checkout` | points, credit, payment and settlements of a known customer |
| `Counts` | a count that arrives after the shop has gone on |
| `Reconciliation` | the repair's statements beside trade |
| `Packs` | row, batches and codes of a marked product |
| `FiscalQueue` | the receipts to file and the worker that files them |
| `Staff`, `Registers`, `Consent`, `Cabinet`, `Licence` | who may come in, and until when |
| `Catalogue`, `Replenishment` | barcodes and imports; what to order |
| `Backups`, `Morning` | scripts and their scheduler |
| `Documents`, `Shop`, `Office` | the compositions: papers; the books and the till's screen; who may come in and what is kept |
| `MCStockHolds`, `MCWarehouseOutbox`, `MCDocuments`, `MCShop`, `MCOffice` | small shops for TLC; the runs of `TillSync`, `FiscalQueue` and `Counts` need constants only |
| `CollectionsProofs` | lemmas about sums, lists and spreading, which the other proofs cite |
| `StockHoldsProofs`, `WarehouseOutboxProofs`, `TillSyncProofs`, `FiscalQueueProofs`, `DocumentsProofs`, `ShopProofs`, `OfficeProofs` | theorems |

### How a handler becomes actions

A handler of the API is two actions or more, cut where the code awaits something
others can come between: one reads the rows, checks what the handler checks
before it writes, and leaves a plan in a variable of the request (`requests[r]`,
`loading[c]`, `picking[c]`, `buying[c]`, `selling[c]`, `visit[v]`, ...); the next
is the transaction's writes, guarded by the conditions of its UPDATEs evaluated on
the rows as they are then. A condition that fails undoes the whole transaction,
and so does a process that dies. Reads inside a transaction are at READ COMMITTED,
so they are no protection and are kept apart from the writes wherever another
request can come between.

Variables that no code keeps are history for the properties: `ledger`, `told`,
`soldTimes`, `spentOn`, `shipped`, `given`, `proven`, and the marks `crossed`,
`restored`, `overtaken`, `overrun`, `lapped`, `brought`, `calm`, `sameCode`,
`unsettled`, `revived`, `blind`, `astray`, `spoiled`. A mark is set by the very
step in which one of the cases listed under "What the code does against its
comments" happens, and a property with a mark speaks of everything else; beside it
stands the same property without the mark, with the remark that the code does not
keep it. No guard of the code's part reads a mark.

### Stock: StockHolds, PromisedGoods

`SaleRead` and `SaleCommit` are named after the handler, and so are the others. A
request whose condition fails can only `Abandon`. Shipping and handing out an
order has a third step, because it lifts its own hold, reads the rows again and
holds row locks in between (`ShipFree`, `LockedAgainst`). `stock` stands for the
rows, `ledger` for the sum of each bin's movements, `orders` for order documents,
`shelf` for storage bins with their confirmed block documents, `told` for the units
of reservation that counts have reported in their answers (`holdsReleased`).

The loops that spread an amount over bins appear by their result: `FromBins`,
`ReleaseParts` and `InReadOrder` state the finished split, in which each bin gives
the smaller of what it offers and what the bins before it have left over. Where
the order of rows is whatever the database returns (quarantine reads without an
ORDER BY) every order is allowed.

Three abstractions. A `sale` stands for every deduction that respects
reservations: table orders, transfers out, production, supplier returns. The claim
on an order document precedes the reading of the rows in the code and is asked at
the first write here: a request that loses the claim does nothing either way. A
count and its cutting of holds are one step.

`PromisedGoods` is the abstract specification: goods on hand, open orders, and the
units that a count has declared missing. `KeepsItsWord` says that `StockHolds`
implements it, with the rows summed over bins.

### Commands: IdempotentServer, WarehouseOutbox, CommandsInOrder

`attempts[s]` is one copy of a command: sent, past the checks that the handler
makes outside the transaction (`Check`), past the key row (`Claim`, which waits
while another transaction holds the same key and answers from a committed one), at
work (`Work`, or `RollBack` when the condition of an UPDATE fails), answered.
`awaited` says that the client still waits; `Dies` is a copy that never got
through or whose transaction was cut off. The commit of the work and of the key is
one step because it is one transaction.

| `WarehouseOutbox` | code |
|---|---|
| `queue` | the list in localStorage (`outbox.ts`) |
| `draining`, `waiting` | `drainingRef`, the `await` in `drain` (`useOutboxSync.ts`) |
| `GiveCommand` | `queueCommand`, then `drain` |
| `SendNext`, `LoopEnds`, `HearsOk`, `HearsRefusal`, `HearsNothing` | the turns and exits of the loop in `drain` |
| `Retry`, `Discard` | the buttons of the banner |
| `GoesOnline`, `GoesOffline`, `Restart` | the browser's events, a mount of the hook |

A command moves one unit between two places or in or out of the shop, because what
a retry meets depends only on whether the goods are still where the command takes
them from. The server prunes keys after thirty days; that no copy is older than
that is assumed. `CommandsInOrder` is the abstract specification; a discarded
command may still be carried out late there, since discarding does not recall a
copy on its way.

### The till: TillSync, ClosingScreen, TillPlace

| `TillSync` | code |
|---|---|
| `shift`, `history`, `rung` with `sales` | the open shift, the closed ones and the sales in localStorage (`storage.ts`) |
| `routines[Loop]` | the sales loop of `useSalesSync`, of which `syncingRef` allows one |
| `routines` of `Asides` | the asynchronous functions of `App.tsx` that run beside it: `openShift`, `closeShift`, `flushShiftCloses`, hand-over |
| `OpenShift`, `CompleteSale`, `CloseShift`, `RetrySale`, `RetryClose`, `HandOver` | what a person does |
| `EnsureShift`, `FlushCloses`, `NextClose`, `AfterCloses`, `NextSale` | how a routine goes on: `ensureShiftSynced`, then `flushShiftCloses`, then the pending sales |
| `HearsCreate`, `HearsCreateClosed`, `HearsClose`, `HearsSale` | the lines after each `await` |
| `HandleCreate`, `HandleClose`, `HandleSale` | `POST /shifts`, `PATCH /shifts/:id/close`, `POST /sales` |
| `Loses`, `late`, `ArrivesLate` | a call that did not arrive, arrived without its answer, or arrives after its routine has given up |

Between a call and its answer a routine keeps the snapshot it took (`closes`,
`sending`) and the shift it captured, and everything else may change. `POST
/shifts` is refused only where the location is not the company's; two of them that
race on the unique key are a lost answer for the loser.

`ClosingScreen` is about the same sales as data: `pruneSales` forgets what is sent
and old, `saveSales` in a browser without room falls back on `keepOnlyUnsent`, and
the closing screen asks the server for the shift's cash (`fetchShiftCash`, here
`questions`) and adds what waits here. It does not repeat the calls of `TillSync`:
a sale is sent and answered, or its answer is lost.

`TillPlace` models the place: the one chosen by hand if the person signed in has
it, otherwise the one the grid is of. `calls` are grids, switches and openings on
their way, each with the session it was made in. Places are numbered in the order
of their names, because the server lists them so and the first is the default.

### Papers: Transfers, OrderDesk, Purchasing, Refunds, Restaurant

| Module | State | Actions |
|---|---|---|
| `Transfers` | `atPlace`, `lots` (batches), `packs` (codes), `vans` (documents with their lines) | send, receive in full or short, call back, and a sale between |
| `OrderDesk` | `orders` with picked lines, `shelf`, `held`, `spentOn` | pick, ship what was found, hand out, turn down, sell at the counter |
| `Purchasing` | `purchases`, `deliveries`, `stockroom` | create, decide (approve, send, cancel), receive, send back |
| `Refunds` | what came back of each line, in money and points; packs | a refund of any part, by several tellers |
| `Restaurant` | `bills`, `pantry`, `made` | add lines, pay, mark ready, produce |

What travels is split by `InOrder` of `Collections`, the loop over batches by
expiry and over document lines, by its result. One product travels in `Transfers`; two,
one of them marked, are at the desk.

### The shop's books: Drawer, Checkout, Counts, Reconciliation, Packs

`Drawer` keeps shifts and rows of money and evaluates both queries, the till's
about one shift and the owner's report. `Checkout` cuts a sale where the code does:
limit, points read, points written under a condition, payment compared, document
written; a settlement works out what it pays for before it writes; `running`
says whether the server process lives. `Counts` keeps what the books say apart from
what lies on the shelf, and a movement by the walks it comes after, which is all
that the comparison of `createdAt` with `countedAt` asks. `Reconciliation` takes
the repair statement by statement with its row locks: a statement that waits for a
lock evaluates its subquery on the snapshot it began with, which is what READ
COMMITTED does. A shelf may have no row at all (`absent`): the repair makes one
with the sum it had read (`RepairCreates`), unless a delivery has made it meanwhile,
when nothing of the repair stays (`RepairFails`). A sale that finds less
in the batch than it had counted on fails as a whole (`SaleFails`). `Packs` keeps
row, batches and codes; a clerk scans packs that are in the clerk's hands. Goods
whose batches are all used up (`Remaining = {}`) are sold like goods that never had
one, as far as the row has them, whatever the policy says (`pos.ts:1089`).

### The fiscal queue

`pass[d]` is one drain: the receipts it listed, the one it has sent, the answer it
has not written yet. The provider is external: what it owes is that two calls with
one key are one filing. It may refuse, answer nonsense or lose its answer
(`MaxMishaps` times). Back-off is `rested`: a receipt tried in vain waits until
its time has come.

### The office

`Staff`: people with a role and a PIN in either form (fingerprint, old PIN), the
owner's screen, the panel, the door that upgrades an old PIN, and sessions.
`Registers`: tablets, tokens and register rows. `Consent`: requests of support,
answers of several phones, and a clock. `Cabinet`: password, second factor and
paper codes, for the owner's cabinet and the platform's panel (`door`), which run
the same code twice. `Licence`: the tariff, the till's session, shift and sales, and
answers on the wire. `Catalogue`: products with name and barcode, edits and
imports in two steps. `Replenishment`: stock, vans on their way, orders, and the
screens that read them one after the other and show what to order; drafts are made of
a screen as often as somebody asks, count for nothing until they are sent, and can be
put aside. A draft that waits for approval and one that is approved are one status,
and the batches and shelves of the goods are not told apart. The demand is a number of
units sold before the goods can be here (`Covers`): the daily balances behind it are
left out, and so are orders typed in by hand, which another order sent stands for.
`Backups`: files whole or cut on three places, and runs that can stop anywhere.
`Morning`: what was sent to whom and when, and calls that die or overlap.

## What the runs show

Several modules share a run where their properties ask one question of different
books. `Init` then chooses the topic of the behaviour, and a run's property is the
conjunction of the modules' properties: no two topics write a row that another's
property speaks of, so nothing is lost by checking them apart.

| Run | System | Shows |
|---|---|---|
| `core_promises` | sales, two orders placed, shipped in part, rejected, deliveries; or counts and quarantine around one order | `TypeOK`, `PromisesCovered`, `HoldsCoverPromises`: no counter below zero, no row holds less than it has promised, open orders and what the counts declared missing are covered; `OneClosingEach`: an order closes once; `KeepsItsWord`: `StockHolds` implements `PromisedGoods` |
| `core_floor` | write-offs and putaways beside sales and an order; or two managers who isolate, release, count and block | `LedgerAgrees`, `BlocksFit` (no more out of sale than lies there), `TradeKeepsPromises` (a sale or shipment takes nothing that its row holds for another) |
| `outbox` | three commands that depend on each other, two copies at work, restarts, lost requests and answers | `AppliedOnce`, `NoneLost`, `OrderKept`, `RefusalFreezes`, `KeepsTheBook` (implements `CommandsInOrder`), `Settles` |
| `till` | a shift, a sale, cashier and manager, the loop and one routine beside it, one late call | `TillKnowsTheServer`, `CloseFindsItsShift`, `ClosedIsFinal` |
| `till_sales` | two sales, failing connection, timer | `SalesGoOut`: each sale is filed or shown as refused in the end |
| `documents` | topics transfers, desk, buying, refunds, restaurant | `GoodsAccountedFor`, `PacksGoWithGoods`, `HoldsAreOpenOrders`, `GuestsMoneyIsRight`, `ApprovalsHold` |
| `shop` | topics drawer, checkout, counts, repair, packs, closing, place | `MoneyAddsUp` (`ExpectedOnce`, `SameMoneyForBoth`, `PointsAddUp`, `PaidExactly`, `DebtIsMoney`, `UnsentIsKept`, `FigureIsTheDrawer`, `ListIsOfHere`), `RowsMatchGoods` (`SoldOnce`, `CodesWithinGoods`, `BatchesWithinGoods`, `RepairedAgrees`), `WorkSettles` (`CountSettles`, `BatchesCovered`, `HoldsCut`, `ForgetsOnlySent`, `ChoiceOutlivesShift`) |
| `fiscal` | two receipts, two drains, a typist, mishaps of the provider | `FiledOnce`, `RegisteredIsFiled`, `QueueMoves` |
| `office` | topics staff, registers, consent, cabinet, backups, morning, licence, catalogue, replenishment | `AccessIsKept` (`PinsOpenOneDoor`, `OwnerRemains`, `RevokedStaysOut`, `NoIsFinal`, `FactorWasShown`, `CodesOpenOnce`), `AccessChangesTell` (`ChangeSignsOut`, `NumbersGrow`, `LooksByConsent`, `ShiftCanBeClosed`), `SalesOutliveTariff`, `RecordsAreKept` (`CopyRemains`, `BarcodesAreApart`), `DoneOnce` (`OnceAMorning`, `EveryoneIsReached`, `ImportTwiceIsOnce`, `NeverOrderedTwice`) |

`TypeOK`, `PapersTypeOK`, `ShopTypeOK`, `FiscalTypeOK` and `OfficeTypeOK` are the
type invariants. Those of `TillPlace`, `ClosingScreen`, `FiscalQueue` and others also say
what shapes never occur together.

Runs in which TLC finds the code at odds with what a comment or a test says
(`findings` in `PROJECT.json` quotes both):

| Run | The shortest story |
|---|---|
| `orders_closed_together` | two orders over two bins are closed at once; both aim their release at the same row, the floor at zero swallows a part, and a reservation stays with no order behind it (`stock.ts:373`) |
| `refund_twice` | two tellers take one sale back at once; both read that nothing was returned, both pay out (`pos.ts:1520`) |
| `counted_twice` | two people walk a shelf and send their counts one after the other; the second takes the first's correction back as if goods had moved and applies the difference again (`counts.ts:194`) |

### What the code does against its comments

The models behave as listed here because the code does. The name in brackets is
the property, stated in the module, that TLC refutes when it is checked; where
there is none, the case was met in reading the code and is left out of the models
or is an action of theirs.

**Stock** (`StockHolds`)
- A sale or an order that planned before a quarantine goes through after it and
  leaves a row with more held than there is: the UPDATE asks about the quantity and
  the reservations and not about quarantine (`stock.ts:166`), although blocked
  goods are "equally not for sale" (`stock.ts:77`).
- A putaway checks availability before its transaction and asks only for the
  quantity when it writes (`pos.ts:6376`), so goods promised in between are moved
  although "reserved and quarantined goods stay where they are" (`pos.ts:6343`).
- A putaway reads whether the shelf is blocked before its transaction
  (`pos.ts:6308`); a shelf blocked in between receives goods.
- A write-off takes goods by one order of bins and lifts quarantine by another, so
  the hold of the bin that was emptied can stay while another's is freed
  (`pos.ts:5691`).
- An unblock reads the block documents before it claims the bin: when the shelf was
  unblocked and blocked again in between, it lifts the earlier block's amount
  (`pos.ts:6209`).
- Releasing a quarantine is bounded by the sum of all holds on a row, so it can
  free what only a shelf block holds (`pos.ts:5909`, against `pos.ts:6084`).
- Deleting a bin or a packaging and putting goods into it race: the check that it
  is empty or unused comes before the deletion.

**Commands and the till** (`WarehouseOutbox`, `TillSync`, `ClosingScreen`, `TillPlace`)
- A putaway is carried out and its answer lost; the retry is refused because the
  source is now empty, before the key is looked at (`pos.ts:6338`)
  [`RefusedIsNotApplied`].
- A command that fails once while the browser stays online is not sent again by
  itself: no timer, only events (`useOutboxSync.ts:114`) [`GoesByItself`].
- A shift is closed while the call that opens it is unanswered; the answer writes
  the old shift back (`App.tsx:3130`) [`CurrentShiftKept`].
- The till is handed over before a close got through; the server answers 403, and
  the till neither shows it nor passes over it (`App.tsx:3214`)
  [`ForbiddenIsShown`].
- An opening that fails is swallowed and the sales go out after it
  (`App.tsx:3133`, against `useSalesSync.ts:49`); such a sale is filed under no
  shift.
- The figure of the closing screen is what the server said when it was asked. A
  sale sent while the screen is open falls out of both numbers, one whose answer
  was lost is counted twice (`shift-tally.ts:151`), and a late answer about an
  earlier shift is taken for the present one (`App.tsx:4418`)
  [`FigureIsAlwaysTheDrawer`].
- `keepOnlyUnsent` drops sent sales of the open shift too when the browser is full;
  the closing screen without the server then counts less.
- A shift that was opened without choosing a place by hand stays open over a
  change of cashiers; the company meanwhile gets a place whose name sorts first.
  The next sign-in puts the till there, and its sales (`App.tsx:3555`) and the
  opening, if it was not sent yet (`App.tsx:3125`), are booked at the new place,
  against `App.tsx:933`: "A shift belongs to the location it was opened at, and its
  sales are booked there" [`BookedWhereOpened`].
- A refresh asked before a switch of places writes the old place's grid back
  (`App.tsx:2106`), the case `App.tsx:944` sets out to prevent; and right after
  signing in with a remembered place the grid is that of the first place until a
  refresh, which goods left in the cart prevent [`GridIsOfHere`].
- A late grid (`App.tsx:2106`, also 885 and 947) saves the session it was asked in:
  who has signed out is signed in again [`SignedOutStaysOut`].
- In the same way the lines of a table (`App.tsx:2910`) and the statement of a
  counterparty (`App.tsx:1873`, against `App.tsx:1900`) can appear under another.
- Two tabs of the till rewrite the same lists from what each of them read.

**Papers** (`Transfers`, `OrderDesk`, `Purchasing`, `Refunds`, `Restaurant`)
- A van is called back line by line. Where the source has no row without a bin, each
  line makes one, and with two batches of one product the second is refused by the
  database: the van cannot be called back, against `pos.ts:9171` [`CancelWorks`]. A
  sending that looked while there were no packs takes units whose packs came back
  before it wrote, and the packs stay behind, against `pos.ts:8768`
  [`PacksHaveGoods`]. The packs are asked for their state and not for their place
  (`pos.ts:8932`): a pack that went elsewhere and was received there after this
  sending looked leaves on this van all the same [`PacksLeaveFromTheirPlace`].
- Picking is written without asking whether the order is still open, and writes
  every line ever looked at, also those this request did not name: what the list
  shows as shipped, "the number the wholesaler bills" (`pos.ts:8276`), is not what
  left (`picking.ts:123`) [`BilledAsShipped`].
- Two deliveries against one order both read what came before and both write the
  sum [`ReceivedAddsUp`]; a delivery that overlaps with a cancellation brings the
  order back, against `purchasing.ts:26` [`CancelledStaysCancelled`]; two returns
  of one delivery both go through, against `supplier-returns.ts:106`
  [`SentBackOnce`].
- A table is paid with the sum of its bill as it was read: lines added in between
  are served and not charged (`pos.ts:10510`) [`BillPaidInFull`]; two waiters who
  start a table at once make two bills (`pos.ts:10380`) [`OneBillPerTable`].
- Partial refunds are rounded each; a pack that was resold meanwhile can be put
  back by a late return; with four equal ways of payment and a refund of a few
  units the shares of `refundSplit` (`payments.ts:187`) sum to more than it, since
  negative shares are dropped.
- A supplier return with two lines of one product is capped by the last delivery
  line (`supplier-returns.ts:114`); an order with two lines of one product credits
  only the last; a receipt with two lines of one new product creates its row twice.

**The books** (`Checkout`, `Counts`, `Reconciliation`, `Packs`)
- Credit is checked before the transaction: two sales at once pass the limit
  (`pos.ts:947`) [`DebtWithinLimit`].
- The update of the points is started without being awaited; when the payment is
  refused first, or the update fails before anybody awaits it, the rejection has no
  handler and the process ends (`pos.ts:1138`-`1179`), against the answer "repeat
  the sale" (`pos.ts:1311`) [`LoserIsAnswered`].
- A sale made before the walk and sent after the count is deducted twice; so is a
  sale that commits between the reading of the rows and of the movements
  (`pos.ts:9719`). `CountSettles` leaves both aside.
- A repair that has to wait for a row's lock writes the sum it took before it
  waited, although "a sale of a second ago is already in it" (`pos.ts:7327`)
  [`RepairMissesNothing`]. Batches are cut without a condition (`pos.ts:7385`) and
  holds set to a number computed from an earlier read (`pos.ts:7416`); a finding
  of a missing row whose row exists by then fails the whole repair (`RepairFails`).
- A quarantine writes the state of the codes it read without asking: a pack sold in
  between is quarantined, and its release puts it back on sale (`pos.ts:5927`)
  [`SoldStaysSold`]. A write-off of quarantined goods leaves their codes
  quarantined (`pos.ts:5564`); two write-offs without codes can leave more codes than
  goods.
- The dashboard's net revenue (`pos.ts:4830`) does not deduct discounts and points,
  the report's (`pos.ts:2557`) does.

**The fiscal queue** (`FiscalQueue`)
- A point that is switched off with more receipts than a pass takes keeps the
  others waiting (`fiscal-worker.ts:95`) [`NobodyStarves`].
- A pass that was under way while a number was typed in writes its own answer, or
  its failure, over it (`fiscal-worker.ts:161`-`178`, against `pos.ts:5083`)
  [`NumberStays`].

**The office**
- Two owners who demote each other at once both succeed (`staff-operations.ts:182`)
  [`AlwaysAnOwner`]; a card saved late writes the PIN it read back over one that
  was changed or taken away (`staff-operations.ts:204`, `pos.ts:327`)
  [`NoPinComesBack`]. With the role it is the same: a card read before a promotion and
  saved with a new name only writes the old role back, and as it compares with what it
  has read (`staff-operations.ts:209`) it raises no `tokenVersion`, so the session of the
  promoted person goes on being served, against `staff-operations.ts:206`
  [`EveryChangeSignsOut`]; `ChangeSignsOut` leaves out exactly that, and the sign-in
  that renews an old PIN. The limits of users, registers and products are counted
  before the row is created (`staff-operations.ts:121`).
- A tablet whose register is claimed by another goes on being served under it
  until it signs in again, against `pos.ts:4234` [`OneTabletPerRegister`]; a claim
  read before a switch-off moves the register all the same.
- Asking again on top of an open access closes it until the owner answers,
  although it is "an extension" (`routes/companies.ts:277`) [`AskingKeepsAccess`];
  a yes decided before a no is written over the answered request
  (`routes/cabinet.ts:307`) [`AnsweredOnce`]. `NoIsFinal` holds: the no wins.
- Two first visits to a cabinet both set its password [`FirstPasswordStays`].
- As many dumps as are kept, started during one run, remove what that run has
  proven; broken files count as copies and push whole ones out; `pull` writes a
  damaged object over a whole local dump of that name; `--keep 0` removes
  everything; a dump cut by a failing `pg_dump` is a valid archive; `move --force`
  drops the target before the dump is made (`scripts/backup.mjs`).
- The scheduler gives up after two minutes and calls again while the first call
  still walks: summaries are sent twice, although "there will be no repeats"
  (`morning.ts:43`) [`NeverTwice`].
- A shift that was opened without a network and is not on the server when the
  tariff ends cannot be closed: signing in is refused [`LetInToClose`]. A late 401
  or 403 of an earlier session ends a fresh one; a session that was locked stays
  locked after the payment until it is left.
- Two rows of one file can take one product, one by barcode and one by name: the
  second lands on the first, against `import.ts:505` [`NoRowIsLost`]. A file
  without barcodes erases barcodes; two requests with one barcode at once both
  pass, which `BarcodesAreApart` marks.
- A draft counts for nothing until it is sent (`pos.ts:5182`) and may be made again at
  any time (`pos.ts:5294`): whoever looks again is suggested the same goods, and both
  drafts can be sent. Goods that come in between the readings of the stock, of the vans
  and of the orders (`pos.ts:3047`, `3070`) are in none of them, and those of an order
  that was given up or called off come on top of what was ordered in their place
  [`OrderedOnceByAnybody`]. The lead time runs from the making of the draft, so a
  draft sent late is overdue at once and ordered again (`pos.ts:5202`); the daily
  balances are rebuilt from what is available and not from what is on hand
  (`pos.ts:3164`).

### Bounds, and why they are enough

- *Two requests, people, calls or visits at a time*, everywhere. Every hazard found
  in this code is one step of a request between the read and the write of
  another; the theorems hold for any number.
- `core_*`: a pile and one shelf, `MaxUnits` 2 and 1, opening stock up to three
  units: a split over bins needs two bins, a release that misses needs amounts that
  straddle them. `MaxBlocks` 2 in `core_floor`: a document of an earlier block meets
  a later one.
- `outbox`: three commands and two slots, `MaxGoods` 1: a chain of dependent
  commands, a copy at work beside its retry, a source that holds the unit or not.
- `till`: one shift, one sale, one routine beside the loop, `MaxLate` 1.
  `CloseFindsItsShift` is checked for one shift at a time.
- `documents`: two papers each, two packs, three units to send in two batches and
  one of none; two orders, one of them for the marked product only; a refund of 2 + 3
  units with a discount, points spent and earned, so that rounding matters; two lines
  on a bill.
- `shop`: two shifts over three hours and one row of money (`ExpectedOnce` speaks of
  each row by itself); two receipts on two tills with three points of room before
  the limit; two shelves, three movements and one sale still on a till; a repair over
  two shelves with one sale holding a row; three packs, two batches, four tickets; a
  browser with room for up to two sales, one question, two shifts; two places, two
  sign-ins, two calls on their way. `KeepMax` = 0 and `KeepOnOverflow` = 1 let two
  sales meet the limits that are 3000 and 500 in the code.
- `fiscal`: one point, two receipts, two drains, one mishap, two attempts and one
  receipt per pass: what is behind the head waits for a second pass. With two points
  `NobodyStarves` fails.
- `office`: three people and two PINs; three tablets; two requests of support over
  four ticks; two keys and two versions of a lock; three dumps of which two are kept;
  two shops, one per call, three calls; two changes of tariff, two sessions, one
  sale, two answers on the wire; two names and barcodes, two rows per file; two
  dates and one screen, two orders in packs of two, up to two units in the shop and one
  on a van, an owner's target and a demand without one, an order that was due before it
  was sent and one unit more than was ordered. One screen is enough: screens share
  nothing but the orders, and one makes any number of drafts. A delivery writes over
  what it read just now or before anything came.
- `CHECK_DEADLOCK FALSE` stands where a shop comes to rest: all papers closed, all
  bounded movements spent, nothing on the shelf.
- Symmetry is used over requests, people, packs and papers only, in runs that check
  safety and action properties; never in a run with liveness.

### Fairness

`WarehouseOutbox` assumes that the loop takes its next turn and reads an answer
that has come, and that the server finishes what it has begun. Nobody has to give
commands, press a button, lose coverage or regain it. `Settles` therefore says:
once no answer is lost and the app is not restarted any more, and provided that
*something* starts the loop again and again, every command leaves the queue or
stands refused at its head. The proviso is real: without it the queue can wait for
ever (`GoesByItself`).

`TillSync` assumes the timer of `useSalesSync` (`setInterval`, while sales are
pending) and that answers come and are read. `SalesGoOut` needs the connection to
hold from some point on, and no event of the browser.

`FiscalSpec` assumes that the drain is "called on a schedule" (`app.ts:201`), that a
pass goes on, and that time goes by. Nobody has to sell, type a number or flip a
switch, and the provider need not answer: a receipt that is never answered ends as
`failed`, which is a state somebody sees.

The other specifications state no fairness and have no liveness properties: their
handlers are started by people.

## What is proved

Each theorem is proved by TLAPS for every value of the constants under the named
assumptions of its module: bounds are numbers, opening stock is not negative, a
marker such as "none" is nobody's identifier, there is an owner to begin with, the
shelf holds at first what the orders on the books were promised
(`FirstShelfAssumption`), and the sets that something is summed or counted over
(bins, shelves, orders, receipts, packs, places, vans, batches, bills, recipes, sold
lines, late sales, shops) are finite.
Nothing is assumed of how many requests, people, tablets or calls there are. TLC
evaluates the assumptions in every run of the module. Where a theorem has a
hypothesis of its own the table says so.

*Stock* (`StockHoldsProofs`)

| Theorem | Says | Argument |
|---|---|---|
| `Typing` (`TypeOK`) | no counter of a row goes below zero | inductive as it stands; every write is covered by the condition of its UPDATE |
| `LedgerAlwaysAgrees` | rows equal the sums of their movements | each write moves row and ledger alike |
| `PromisesAlwaysCovered` | without write-offs and putaways no row holds less than it has promised | takings are bounded by what is unpromised on the row *as it is at the write*; nothing is asked of the split or of the snapshot |
| `TradeAlwaysKeepsPromises` | with everything allowed, a sale or a shipment still leaves the row it takes from able to keep its promises | the same lemmas, for the one request that steps |
| `PromisesAlwaysHeld` (`HoldsCoverPromises`) | what the rows hold, with what counts have let go of and said so, covers the open orders | with `PlansFit`: a plan that waits to be written reserves, lifts or ships no more and no less than its order. The floor at zero can swallow only a part of the order that is being closed, so the sum of the holds falls by at most what the sum of the promises falls by |
| `PromiseKept` (`KeepsItsWord`) | without write-offs and putaways `StockHolds` implements `PromisedGoods` | the three invariants above, and one step of the abstract shop, or none, for each kind of commit |
| `HoldsAlwaysFit`, `BlocksAlwaysFit` | where nothing takes goods without asking what is out of sale, no row holds out of sale more than it has | the condition of each write, one lemma per kind of write; sales, orders, write-offs and putaways do break it, see above |
| `OrdersLiftOwnHold`, `OneClosingForEach` | an order is closed once and lifts at most its own hold | the claim on the order document, and `PlansFit` |

*Commands* (`WarehouseOutboxProofs`)

| Theorem | Says | Argument |
|---|---|---|
| `ServerAppliesOnce` | any clients: each command is carried out at most once | `OnceInv`: whatever was carried out has its key in the table; a copy past the key found it free and is the only one there with it. `AppliedOnce` alone is not inductive |
| `OutboxIsAClient`, `OutboxAppliesOnce` | the same for the outbox | every step of the composition is a step of `ServerSpec` or leaves the server alone |
| `OutboxTypes`, `NoCommandLost` | the queue keeps its shape; what was given is in the queue, was carried out, or was discarded by a person | `QueueInv`: the queue is what is left of the list of all commands given after those that have left it, and each of those is settled |
| `OrderAlwaysKept`, `RefusalAlwaysFreezes` | commands about one document are carried out in their order, and nothing passes a refused one | also in `QueueInv`: nothing is on the wire, or discarded, that the queue has not got to; what the loop waits for is the head. A copy the loop has given up on is why the order needs an invariant of its own (`Ordered`): it may be carried out after its command has left the head |
| `BookAlwaysKept` (`KeepsTheBook`) | the outbox with the server implements `CommandsInOrder` | each step writes a command down, carries one out, strikes one off, or is invisible in the book |

*Till* (`TillSyncProofs`) *and fiscal queue* (`FiscalQueueProofs`)

| Theorem | Says | Argument |
|---|---|---|
| `TillAlwaysKnowsTheServer` | what the till shows as sent is on the server | `KnowledgeInv`: the answer a routine holds is true of the server; the server takes nothing back (`Later`); a thing is marked only for an answer to the call about it. Nothing is said of what the snapshots contain |
| `ClosedStaysClosed` | a closed shift stays closed and keeps its owner | `Later` holds of every step |
| `TillTypes`, `CloseAlwaysFindsItsShift` | a close finds its shift at the server, for any number of shifts (the run has one) | `PlaceInv`: now of the snapshots too. A close in any list a routine holds, in memory or in storage, that says its shift is known there is right |
| `AlwaysFiledOnce` | a sale is filed once, for any number of points, drains, typists and mishaps | `FilingInv`: every filing was made under the key of its receipt, and a receipt has one key |
| `RegisteredWasFiled` | what is shown as fiscalised was filed or typed in | `FilingInv` also says that a good answer a pass has not written yet is about a filing; without that the write that registers a receipt proves nothing |
| `TriesAreBounded` (`FiscalTypeOK`) | no receipt is tried more often than `MaxAttempts` | `TriesInv`: a pass lists only receipts that wait, and what it holds is one of them |

*Papers* (`DocumentsProofs`): each component first, then their composition

| Theorem | Says | Argument |
|---|---|---|
| `OnlyApprovedEverArrives`, `DecisionsAlwaysInOrder`, `ApprovalsAlwaysHold` | no goods come in on an order nobody with the right to spend approved; an order is approved once and as a draft, sent when approved, cancelled before it is complete | `BuyingInv`: who approved an order is written by a head and never taken away, so the delivery that is written after somebody cancelled still has a name on its order; the status would not do, for a late write overruns it. What waits to be written was allowed from the status it read, and the UPDATE asks for that status again |
| `DeskAlwaysHoldsForOpenOrders` | what the shelf holds back is exactly what the open orders were promised | `DeskInv`; the sum over orders changes by the one that is closed (`OnePromiseLess`), which is claimed in the same transaction |
| `GoodsAlwaysAccountedFor` | every unit of every batch is at a place, on the road, missing or sold; what left the pantry is on a bill or in what was made | `TransferInv`, `RestaurantInv`: sums over places, vans and lines of which a step changes one or two terms (`OneChanges`) |
| `PacksAlwaysGoWithGoods` | packs travel, arrive and leave with their units | a request took as many packs as goods or all there were; while it waits packs may go but none comes to where it looked. For the road the van must have one sender (`OneSenderEach`), since a document is created by the request that fills it |
| `GuestsMoneyIsAlwaysRight`, `RefundsAlwaysSettle` | the parts of a refund settle to what the sale took, up to half a unit of rounding per part; nobody pays for what the table never had | `RefundInv` with `PaidFor`: each part but the last is off by half a unit at most, multiplied out to stay in the integers, and the last one settles. *Hypothesis* `OneTeller`: two tellers at once pay twice, which is the run `refund_twice` |
| `PapersHoldTheirTypes` | shapes; nothing is shipped, received or paid out beyond what there was | the type parts of the same invariants |

*The shop's books* (`ShopProofs`)

| Theorem | Says | Argument |
|---|---|---|
| `AlwaysExpectedOnce`, `AlwaysTheSameMoney` | a row of money is in one drawer at most, and the till's question and the owner's report count the same rows, from whatever hour the report starts | `DrawerInv`: a row that names its shift was written while that shift was there, not before it began. For rows that name none nothing is remembered: whoever can claim one crosses in time with everybody else who can, so each question compares the same claimants |
| `PointsAlwaysAddUp` | points are what was there, what receipts earned and what they spent | inductive as it stands: the write adds to the points as they are, and asks again whether they are enough |
| `AlwaysPaidExactly`, `DebtIsAlwaysMoney` | receipts are paid to the unit; the debt is what was sold on credit without the money that was brought | `CheckoutInv`: what waits to be written is paid for what it will owe; what was settled on receipts and kept aside is what was taken, whichever receipts two settlements chose at once |
| `CountsAlwaysSettle` | a count that nothing spoiled leaves the books saying what lies there and what tills still have to report | `CountsInv`: until it reads the movements, what was found and what happened since (`since`) is what lies there; from then on the rows with its difference are, whatever is booked in between, because every movement changes both sides |
| `RepairedAlwaysAgrees`, `HoldsAreAlwaysCut` | a repaired row is the sum of its movements; after a repair no shelf has more held than lies on it | `RepairInv`: a row a repair has set is locked, so nobody moves it before the repair ends; a shelf whose row is missing has not moved since the list was read (`AbsentInv`), so the row that is made with that sum is right; what is left blocked fits what lies there while the row was not sold from |
| `BatchesAreAlwaysCovered` | a repair that nothing crossed leaves no more in the batches than on the shelves | `BatchInv`: such a repair has listed every row that disagrees, so the sum it cuts the batches to is that of the movements; and sales that began when the batch was used up take goods of no batch, of which there are as many beside the batches |
| `SoldOnceAlways` | a marked pack that no quarantine brought back is sold once | `CodesInv`: it was sold as often as its code says, never or once; nothing is needed of what the requests had read |
| `CodesAlwaysWithinGoods`, `BatchesAlwaysWithinGoods` | codes in stock are never more than packs in the row; where goods of no batch are not for sale, neither are the batches' | `PacksInv`. Codes: until something goes without a code of its own (`blind`), the row counts the packs that have no code yet, those in stock and those in quarantine. Batches: write-offs take from them without a condition, and sales of goods whose batches are used up ask for none, so what a request means to take beyond the batches must fit the goods of no batch *together* with all the others that can still commit; their packs are apart, which bounds the sum |
| `UnsentIsAlwaysKept`, `FigureIsAlwaysOfTheDrawer`, `OnlySentIsForgotten` | a sale is at the server or in the till; the closing screen expects the cash of the drawer; only what is sent is forgotten | `ClosingInv`: whatever list is written back holds every sale that is not marked as sent; a mark says so only after the server did, and the sale on the wire is marked as waiting |
| `ListIsAlwaysOfHere`, `ChoiceAlwaysOutlivesShift` | the list of open shifts is of the person and place at the till; no switch lands under an open shift | `PlaceInv`: one question is wanted at a time, and it is about what the till is now; while a switch is on its way the screen has no way to open a shift, and one call at most is a switch |
| `DrawerTypes`, `CheckoutTypes`, `CountTypes`, `RepairTypes`, `PackTypes`, `ClosingTypes`, `PlaceTypes` | shapes | the type parts of the same invariants |
| `ShopTypes`, `MoneyAlwaysAddsUp`, `RowsAlwaysMatchGoods`, `WorkAlwaysSettles` | the conjunctions that the run `shop` checks | composition, see below |

*The office* (`OfficeProofs`)

| Theorem | Says | Argument |
|---|---|---|
| `PinsAlwaysOpenOneDoor`, `OwnerAlwaysRemains`, `ChangeAlwaysSignsOut` | one PIN opens one till; an owner remains; a new PIN or role ends the sessions of the old one, unless a request puts back what it had read | `StaffInv`: what each request was allowed to write when it read. An old PIN is written nowhere but by a late write that puts it back, so a PIN that was free of old ones when it was asked for still is |
| `RevokedAlwaysStaysOut`, `NumbersAlwaysGrow` | a register that was switched off stays out until it is claimed anew; numbers are given once | `RegistersInv`: a tablet that is a register has no other token in memory, none is being made for it, and it is not asked which register it is |
| `NoStaysFinal`, `AlwaysLooksByConsent` | nobody looks by a request an owner refused; only by the latest, within its hours | `ConsentInv`: the no is a field of its own which no answer clears, an open grant has none, and an opening ends `GrantHours` after it was made |
| `FactorAlwaysShown`, `CodesAlwaysOpenOnce` | the second factor was shown by every session of the present lock; a paper code opens once | `CabinetInv`: what a request has read of a lock of this version is still so |
| `SalesAlwaysOutliveTariff`, `ShiftCanAlwaysBeClosed` | every sale is at the server or in the queue, none set aside because a tariff or session ended; whoever was let in to close the shift can | `LicenceInv`: what is on the wire is honest, an answer says of its sale what the server did with it |
| `CopyAlwaysRemains` | a dump that was read back from the storage stays there whole, and one at least as new stays on the disk and the mirror, while fewer than `Keep` dumps start during a run | `BackupsInv`: what a run removes is older than its own dump by as many as `Keep`, and no two runs write one name |
| `BarcodesAlwaysApart`, `ImportTwiceIsAlwaysOnce` | no two products have one barcode, unless two requests with that barcode overlapped; a file imported twice makes its goods once | `CatalogueInv`: a request that waits writes no barcode that a product or another request has. `FileStands`: every row of the file that was imported is some product's, so any map read from the table finds one by its name |
| `AlwaysOnceAMorning`, `EveryoneIsAlwaysReached` | while no two calls walk at once no shop gets a summary twice a day; when calls enough have ended every shop that pays was visited | `MorningInv`: the one call that walks has none of the marked shops before it and all the others, and each call that ended marked `PerCall` or all |
| `NothingIsOrderedTwice` | a draft asks for less than a pack over what is missing of the shop, the vans and the orders, unless another order sent, a van that set out, goods nobody announced or goods that came between its readings have overtaken it | `ReplenishmentInv`: until something overtakes it a screen has found at least what there is of each figure it has read (`ScreensKnow`), and a draft knows what its screen knew. Goods that move from a van or an order to the shelf are missed only by a screen that has read the figure they reach and not the one they leave, which is what overtakes it; that an order is owed less from day to day, never more, is a fact about the sum over orders |
| `LicenceTypes`, `ConsentTypes`, `RegisterTypes`, `CabinetTypes`, `StaffTypes`, `BackupTypes`, `CatalogueTypes`, `MorningTypes`, `ReplenishmentTypes` | shapes | the type parts of the same invariants |
| `OfficeTypes`, `AccessIsAlwaysKept`, `RecordsAreAlwaysKept`, `WhatIsDoneIsDoneOnce`, `AccessChangesAlwaysTell` | the conjunctions that the run `office` checks | composition, see below |

A composed behaviour (`Documents`, `Shop`, `Office`, the topics of `StockHolds` in
`MCStockHolds`) satisfies the specification of each of its components: the
initial states are theirs, and a step is a step of one and leaves the variables of
the others alone. So the theorems about the components carry over, and that is the
whole proof of the composed ones.

Sums, filters and spreading are recursive functions in `Collections`.
`CollectionsProofs` proves what the other modules need of them by induction over a
natural number or a finite set, stated with a *set* of those for which the fact
holds: a sum does not depend on the order it is taken in (`SumIsOverDomain`), one
term changes it by its own change (`OneChanges`), filtering a list commutes with
appending to it, the shares of an amount add up to it and stay within the room
(`InOrderShares`).

Two properties were found to be false of larger shops in the attempt to prove
them, and say less now than TLC had let them say: `CodesWithinGoods` also leaves
aside what follows when a pack that a quarantine has brought back leaves a second
time (`blind`), and `BatchesCovered` what follows when *another* repair beside this
one has set a row wrongly (`crossed`). Both need more requests at once than the run
has.

Only model-checked, and why: all liveness (`Settles`, `SalesGoOut`, `QueueMoves`),
which is out of the prover's reach. The properties of the runs that find a
violation are false and have no theorem; every other property of a run is proved.

## Not modelled, and why

- *Reading*: reports, dashboards, lists, exports. They compute from rows and keep
  nothing; where two of them must agree (`Drawer`), they are modelled.
- *Screens, texts and styles* of the till, the storefront and the panel; two thirds
  of the source. Only what they keep between two answers is state (`TillPlace`,
  `ClosingScreen`, `TillSync`, `Licence`).
- *Formats*: import files, 1C exchange, parsing of codes, receipts on paper.
- *Photos, push, metrics, health*: input and output around the core.
- *Price lists, discounts, variants, modifiers, the estimate of demand*: arithmetic
  of one request.
- *Attempts at PINs*: limits that live in the memory of one process.
- *The storefront*: a client that places orders without a key; its order is the
  `place` operation of `StockHolds`.
- *The admin panel and the schema package*: forms over company rows, and
  declarations; the tables are the variables of the modules, Prisma is external.
- *Verifying, restoring and moving a database* (`backup.mjs`): one person, one
  command at a time; their failures are listed above.
- *Two tabs* on one localStorage: nothing coordinates them, and a model would say
  only that.

What would come next: a second shift in `till`; the estimate of demand as a
function with a reference definition.
