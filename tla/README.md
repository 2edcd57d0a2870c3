# Verification of the accounting backend

The backend (`src/backend`, Django on PostgreSQL at READ COMMITTED) is an ERP
for a trading company: a general ledger, fiscal periods, customers' accounts,
sales with customer-owned goods in custody, goods in transit, inventory at
moving average cost, purchases with landed cost, supplier advances. This
directory models its core in TLA+, checks the models with TLC on small
instances and proves with TLAPS the posting pipeline, the accounts of customers
and suppliers, custody, transit lots, and the stock with its valuation.

## The system

| Component | State | Operations | Hard part |
|---|---|---|---|
| Journal posting (`accounting/services.py`, `core/idempotency.py`, `documents/services.py`) | journal entries, idempotency records, number series, audit events | `post_journal`, `reverse_journal`, `next_document_number` | concurrent retries under one key, unique numbers, rollback of part of a call |
| Fiscal periods (`fiscal_periods/services.py`) | periods with a status | create, close, reopen, lock, unlock, the gate every posting passes | the gate reads what the close is about to change |
| Customer payments and settlements (`payments/`) | payments, cross-currency settlements | create, reverse | reversal after use; two currencies, rounding |
| Customer allocations (`allocations/`) | allocations and reversals | allocate (with or without a settlement), reverse | capacities in two currencies, journals of overpayments |
| Sales returns and refunds (`sales/returns_services.py`) | returns, refunds, reversals | create and reverse each | splitting a return between receivable and credit; remainders |
| Sales and warehouse checks (`sales/services.py`) | sales, allocations to warehouses, checks | create, finalize, prepare/finalize/cancel a check, resolve negative-stock obligations | partial deliveries, cancellation after a return |
| Customer custody (`customer_custody/`) | ownership entitlements, custody events | place, release, reverse | idempotent events under keys of others |
| Goods in transit (`goods_in_transit/`) | lots, receipts, transfers, completion, losses | receive, transfer, complete, record a loss | one lot shared by company, customers and supplier returns |
| Inventory (`inventory/`) | stock movements, obligations of issues below zero | receive, issue, transfer, adjust, record and settle a shortage, return, reverse, open | average cost after negative stock, order of movements |
| Purchases, returns, refunds (`purchases/`) | purchases, returns, refunds | post, return, refund and reversals | allocation of discount and freight |
| Landed cost (`purchases/landed_cost_*.py`) | documents, allocations, adjustments | post, reverse, value a transit loss | replay of later movements at a new cost |
| Supplier advances (`supplier_advances/`) | advances, allocations | create, allocate, reverse | capacities, as for customers |
| Party ledger, balances (`party_ledger/`, `accounting/balances.py`) | attribution of journal lines | attribute, read | readers of the journal |
| Security (`security/`) | roles, grants, audit | resolve a permission, record an event | precedence of grants |
| Master data, bootstrap, HTTP, front end | single rows, configuration | create, rename, deactivate | none over time |

Services call each other inside one database transaction. A document service
(say `create_sales_return`) locks the rows it depends on, reads what they allow,
posts through `post_journal`, moves stock or custody and writes its own row and
audit event; everything commits or rolls back together. Two sessions meet only
at committed rows, row locks and unique constraints, and that is where the
models interleave them.

What makes each component correct: a business fact is posted once and reversed
at most once; balances are the sum of the facts in force; a closed period's
contents are fixed; control accounts tie with the documents behind them; nothing
(a payment, a debt, the units or price of a line, a credit, a lot) is used
twice; what was delivered, returned, received, sold and lost adds up; every
transaction ends.

## Modules

| Module | Models | State and steps |
|---|---|---|
| `Ledger` | what the ledger promises: facts recorded once per key, never changed, voided once | one action per promise |
| `Posting` | `post_journal`, `reverse_journal`, the number series, idempotency, the period gate and the period lifecycle | a session is `pc`, `req`, `number`, `target`, ...; each action is what happens between two points another session can see |
| `PostingProperties` | properties, the refinement mapping, the inductive invariant | |
| `CustomerAccount` | payments, settlements, allocations, returns, refunds of one customer and the six accounts they post to | one action per service call; a sales return is prepared and committed in two |
| `WarehouseCustody` | entitlements, custody events, checks, cancellations, quantities of returns | one action per service call |
| `TransitLot` (extends `WarehouseCustody`) | one lot from purchase to customer, supplier return, completion, loss | one action per service call |
| `Stock` | the movements of one product, their cost, the obligations below zero stock, and the inventory, COGS and payable accounts they book | one action per service call |
| `LandedCost` (extends `Stock`) | late costs over purchases in stock: drafts, posting with the replay of what followed, reversal | one action per service call; a reversal is checked and committed in two |
| `SupplierAccount` | purchases, advances, allocations, claims, refunds of several suppliers and the five accounts they post to | one action per service call |
| `*Properties`, `MC*` | properties and TLC instances of each | |
| `PostingProofs`, `CustomerAccountProofs`, `SupplierAccountProofs`, `TransitLotProofs`, `StockProofs`, `StockValuationProofs`, `LandedCostProofs` | the theorems | |
| `SumTheorems` | what the sums of all modules are: the laws of finite sums the proofs cite | |

**Posting.** `BeginPost` is the call; `DrawNumber` is `next_document_number`, in
the posting transaction (`INSIDE`, the row stays locked until it ends) or ahead
of it (`BEFORE`, committed alone); `CheckGate`/`RefuseGate` validate the lines
and read the period; `ReserveKey` inserts the idempotency record, which waits
for an uncommitted insert of the same key; `CommitPost` writes entry, record
body and audit event; `GiveKeyBack`, `RefuseKeyedNumber`, `ReturnOriginal` and
`RefuseMismatch` are the paths of the `DuplicateOperationError` handler, which a
duplicate journal number also reaches. `BeginReverse` to `CommitReverse` hold
the original's row lock. `BeginClose`/`CommitClose` are apart because the close
verifies the journals it sees and commits later; the other transitions lock one
row and rewrite it. `Abort` is any crash or error of the caller. Contents (lines,
currency, rate, creator) are one model value `Op`, `Balanced` those that pass
the line checks; the fingerprint compares number, date and contents.

**CustomerAccount.** `gl` is the posted balance of each account and currency in
cents; documents are records with a status. The services lock the customer's
row through `select_for_update().select_related(...)`, so they are single
steps; `create_payment`, `reverse_payment`, `reverse_sales_return` and
`reverse_refund` do not, and may commit between `PrepareReturn`, which holds the
customer, and `CommitReturn`. Retries and numbers are those of `Posting`.
`HalfUp` is `quantize_half_up`, `HalfEven` is `Decimal.quantize` without a mode.

**WarehouseCustody, TransitLot.** Quantities of sold goods: `events` is the
custody ledger, `checks` and `returns` the documents, `lot` the transit lot.
`FinalizeCheck` places what is missing and releases; both events answer a key
in use with its event, as `place_customer_custody` and
`release_customer_custody` do. Costs are abstracted: `owing` says which lines
were issued below zero stock, `movedOn` that something happened after a loss
was valued. The service path for sales made before warehouse allocations
existed is not modelled; sales of `FUTURE` goods are left out because no code
creates their entitlement.

**Stock.** `moves` is the movement table in the order of its ids, with the cost
each row was given; `links` are the parts of receipts that served obligations,
`settled` the shortages settled. The `Kardex` orders the movements by date, then
id: a movement's `Rank` is its place in `movements_for`. `PlainReplay` is
`avco_for`: a fold over the Kardex of `Arrive` and `Leave`, the two halves of the loop of
`inventory/stock.py`, which restart the average when stock was not positive.
`LayeredReplay` is `effective_avco_for_product_warehouse`, the same with the
shares of posted landed costs. `Sell`, `SellFromTwo`, `Transfer`, `TakeOut` ask
for a temporary cost and an acknowledgement below zero stock (`IssueCosts`,
`Below`); `Purchase` is `post_purchase` with `resolve_negative_obligations`,
which serves obligations oldest first (`NewLinks`) and moves the difference
between their temporary and actual cost from COGS (`Corrects`). Unit costs are
integers, `Cent` of them to a cent (10000 and 100 in the code), so that both
roundings of the code occur with small numbers; base currency only. Every
operation locks the product's row first, so each is one action.

**LandedCost.** A document is a draft with shares by receipt (`Shares` is
`_allocate` of `landed_cost_services.py`), then posted at a number of movements
`at` and in a `turn`. `PostLandedCost` computes the replay with and without the
document, and posts for each sale, transfer, return and obligation downstream
what changed (`Changed`, `LinkShare`), and what is left as `Residual`.
`Adjustable` is what `_post_adjustment` refuses: a second adjustment of one kind
and reference with another movement or amount. `Untouched` is
`_assert_no_later_activity`. Posting holds the product's row and is one step;
`reverse_landed_cost` locks only its document, so it is `BeginReverse`, which
checks, and `ReverseLandedCost`, which mirrors the journals and commits, with
stock operations, postings and other reversals in between. `overtaken` remembers
the reversals that something overtook.

**SupplierAccount.** `gl` is kept by account, supplier and currency, which is
what the party attribution of the journal lines provides. A purchase is a draft
with lines, whose shares of discount and freight are `DiscountShares` and
`FreightShares`, and is posted once; a return becomes a claim at the unit cost
of its receipt, rounded; `RefundJournal` has the two branches of
`create_supplier_refund`, as the code books them. Retries are left out: they
change nothing.

## What TLC checks

Passing runs:

| Run | Question | Bounds |
|---|---|---|
| `posting_idempotency` | Does the journal implement the once-only `Ledger`, whatever the retries, key reuse, reversals and aborts? Are numbers unique however they are obtained? Balances and audit agree with it. | 2 sessions, 3 entries, 2 contents and one that does not balance, 1 key or none, number supplied, drawn inside or before; no periods |
| `posting_periods` | What does closing a period guarantee? Does every transaction end? | 2 sessions, 2 entries, 1 key or none, 2 dates in 2 years, a period over the later one, numbers supplied (both sessions can be past the gate, one holds a key without the series) or drawn inside (it waits for a key with the series); fairness |
| `customer_account` | Do the receivable and credit accounts tie with the documents in two currencies? Is anything used twice? Is a line's price returned to the cent through partial returns and reversals? Are refunds backed? | either 2 payments, 2 allocations, invoices of 2 and 3 cents in two currencies, a cash sale, one return, settlements at 5/2; or 1 invoice of 4 cents for 3 units, 3 returns with a refund or 2 with 2, a payment of 3 cents and its allocation |
| `transit_lot` | Where is each unit of the lot? Do customers get what they bought, in order? Does the lot's status say what it holds? Do checks, custody events and returns agree? | either a lot of 3 units, 2 sales, 1 supplier return, 1 check, 1 return, a loss; or 1 ordinary line of 3 units from 2 warehouses, 3 checks, 2 returns; callers bring no keys |
| `stock` | Is the average between the costs that came in, and does it restart at zero? Do the inventory accounts tie with the valuation? Are obligations and returns served within their sources? | any 4 movements of 1 or 2 units in 2 warehouses; a purchase of 20 cents, an opening or adjustment at 25 steps, a temporary cost of 31, 3 steps to a cent |
| `landed_cost` | After late costs, further movements and reversals, is each warehouse's account still the value of its stock? Is the residual only rounding? | any 3 movements in 2 warehouses, 2 documents of 5 cents over one or two receipts |
| `supplier` | Do the prepaid, payable and clearing accounts tie with the open documents by supplier and currency? Is anything committed twice? Are the shares of a discount fair and the claims within the cost? | 2 suppliers, 2 currencies, 1 purchase of up to 3 lines, 1 advance with 2 allocations, 2 claims, 2 refunds |

`customer_account` and `transit_lot` each follow one of two cases: `MCSpec` in
their MC modules takes the steps of `Next` that stay in one of them. The cases
have no invoice or line in common; what one payment does to invoices of both is
left to the proofs, which have no such bound.

The bounds let every interesting case happen: two sessions are all that a row
lock or a unique constraint can set against each other, and a third entry lets
a mirror and a second posting exist together. Four cents over three units
round down and then leave a remainder; three cents paid on two leave an
overpayment; at 5/2 a settlement of one cent is paid with 2 cents, half even,
and would take 3 when applied, half up. One line from two warehouses in
three checks allows a partial delivery, a cancellation and a delivery again.
Three units sold as one and two allow receipts that split between company and
customers and between customers. Four movements reach below zero, cross it in
one receipt that serves two obligations, and return; three with two documents
let a cost be posted on top of another, over a sale or a transfer, be reversed
in the wrong order, and be overtaken between a reversal's check and its commit. 20 cents over two units and three steps to a cent
make unit costs and journals round; lines of 1, 2 and 4 units with discounts
that do not divide leave the last line a remainder, in one draft one that it
cannot take.

`MaxNumber`, `EntryId`, `Check`, `Return`, `Payment`, `MaxMoves`, `MaxCosts`, ...
bound what an instance creates, so all but the posting runs may stop
(`CHECK_DEADLOCK FALSE`); the posting runs check deadlock. Sessions, rows and
documents are symmetric; the run with liveness uses no symmetry. In `stock` and
`landed_cost` all movements have one date: `Stock` has back-dated movements
(`Backdated`), and the ties are stated for histories without them, because a
movement entered before others revalues nothing that was booked (`Inserted` in
`StockProperties`).

`InventoryTies` and `LayeredInventoryTies` are about the histories for which the
code books what its replay says; `Irregular` names the others, each a place where
they differ by construction: adjustments and shortages post no journal, a
purchase return and the reversal of a sales return are booked at their source's
cost and relieved at the average, an issue that straddles zero is booked whole
at the temporary cost, goods that come in below zero by other ways than a
purchase serve no obligation. With landed costs, `RegularCosts` also leaves out
returns at an old cost, two shares under one reference (`landed_reconciles`) and
reversals that were overtaken (`landed_overtaken`). Within them the bound on the difference is half a
unit of rounding per journal and movement (`Dust`, `CostDust`), and a mutant that
forgets one correction breaks it.

Fairness (`posting_periods`): a session whose transaction can go on does, and
row locks are granted in turn (strong fairness of a session's posting and
reversal steps, since the lock it waits for may be taken again by others before
it). PostgreSQL queues lock waiters, so a waiter is not overtaken for ever. The
property lets a transaction off when the instance has run out of entries or
numbers.

Runs that TLC refutes, each a claim of the repository that the code does not
keep:

- `posting_unverified`: `close_period` verifies and then closes while a posting
  that passed the gate commits; the closed period holds an unverified entry.
- `transit_closed`: part of a lot is sold and the rest returned to the supplier;
  the lot is closed, accepts no receipt, and the sold goods never reach their
  customer. A loss of the rest closes it the same way.
- `landed_overtaken`: a sale at the layered cost, open while the reversal of the
  landed cost looks for later activity, commits before the reversal does. The
  account is then short of the stock's value by the share the sale took to COGS:
  without `overtaken = {}` the same trace breaks `LayeredInventoryTies`.
- `landed_reconciles`: a document over two receipts that filled one obligation
  posts the share of one; the other's is taken for a retry and stays in the
  inventory account although the goods are gone.
- `supplier_refund`: a refund in the claim's own currency debits the payable and
  credits cash, the opposite of settling a claim; across currencies the code
  books it the right way round.

Other divergences, met while modelling and listed with the hazards or stated in
the properties' exceptions rather than given a run each:

- Postings: the number series has one row per type and restarts when the year
  changes, so a back-dated posting makes it issue numbers in use, which only the
  unique constraint refuses (`JournalSound` holds); a call that draws its own
  journal number is refused as a different operation when retried
  (`SameFingerprint`).
- Periods: two sessions that each find no clash create overlapping periods
  (`BeginCreate`, `CommitCreate`); the gate then refuses the dates they share.
- Customers: `invoice_outstanding` ignores what returns took off the invoice, so
  payments and returns together can exceed its total; a payment is reversed
  under its allocations, and a settlement under allocations made without it
  (`Strays` and `Overdrawn` in `CustomerAccountProperties` account for it); a
  settlement made half even can fall a cent short of its debt applied half up;
  returns rounded up can leave nothing for the last unit.
- Custody: a check finalized with the caller's key and short of custody uses the
  key for the placement, and its release never happens (`CallerKey`); ordinary
  goods can be returned to a warehouse that did not deliver them; the check of
  transit goods can be cancelled after their return.
- Transit: goods of a completed
  purchase can be sold in transit; a supplier return can be reversed after a
  loss was valued without it.
- Stock: a sales return after a late cost comes back at the recorded cost
  (`ReturnedAtOldCost`); a back-dated issue can make the Kardex negative where
  the stock was not; reversing a purchase return does not make the goods
  returnable again; a retried issue is compared at the average of the day of
  the retry.
- Landed cost: a document is refused when a sale left in two issues or two
  transfers of one name have to be adjusted (`Adjustable`), and when a sales
  return was reversed (its issue has no COGS journal).
- Suppliers: an allocation's limit ignores what was returned of the purchase
  (`OwedTo` may be negative); a draft's last line can get a negative discount;
  retried purchases and reversals of refunds are refused rather than answered.

## What is proved

`PostingProofs` proves for any number of sessions,
entries, keys, dates and periods, from `PostingAssumption` alone:

- `TypeCorrect`, `KeysAreUsedOnce`, `RetriesAgree`, `ReversedOnce`,
  `SoundJournal`, `FaithfulAudit`: the invariants `TypeOK`, `OncePerKey`,
  `RepliesAgree`, `MirroredOnce`, `JournalSound`, `AuditIsTheJournal`;
- `BalancesCountLiveFacts`: `BalancesAreLiveFacts`, by pairing each mirror with
  the entry it reverses;
- `ImmutableHistory`: a committed entry changes only from POSTED to REVERSED,
  together with the commit of its mirror;
- `PostingImplementsLedger`: `Posting` implements `Ledger` under the mapping
  `FactOf`, which forgets numbers, mirrors, periods, locks and retries;
- `GateStaysShut`, `ClosedContentsAreFixed`: what a close is worth, the action
  properties `ClosedGateHolds` and `DrainedPeriodIsFixed`.

The argument is one inductive invariant, `IInv`. The published invariants are
not inductive alone: `OncePerKey` needs to know that no session is about to
commit under a key already recorded, which is why it also speaks of `HoldsKey`;
`MirroredOnce` needs that a session past `BeginReverse` still faces a POSTED
forward entry and that only one session does; `JournalSound` needs what
`SessionOK` says a session has validated; `RepliesAgree` follows from each reply
being backed by its key's record (`RepliesRecorded`). `PostingProofs` first
settles types and sessions (`...Typed` lemmas), then shows per group of actions
that the rest of `IInv` is preserved (`...Rest` lemmas), and `Inductive`
combines them. For the refinement only `CommitPost` (a `Record`) and
`CommitReverse` (a `Void`) change the mapped facts, `JournalWriters`.
The two period theorems need no further invariant: a session is past a gate only
by having read it (`GateIsTheOnlyWay`), the gate is shut for a date of a closed
period (`ClosedIsShut`), a committed entry keeps its date (`DatesAreKept`), and
what a commit adds to a period comes from a session past its gate
(`OnlyPastGateWrites`).

The other modules are proved for any number of documents, parties, warehouses
and currencies and any amounts and rates. Nearly all they promise is about sums
over rows. `SumTheorems` proves that the order in which the community modules'
`SumFunctionOnSet` picks rows does not matter, and from it what a sum does when
a row comes, goes or changes, is split or is regrouped by a key (`SumByKey`).
The library's induction theorems cannot be used with these provers, so each
induction is a minimal counterexample: the sizes of the sets that refute a
statement have a least member (`LeastNatural`). That the posted rows are finite
is part of each invariant and not assumed, since a step writes one row at a time.

**Customers** (`CustomerAccountProofs`). `RefundsStand`, `CustomerTypeCorrect`,
`NothingIsUsedTwice`, `ReturnsGiveThePriceBack`, `ReturnsRespectTheDebt`,
`CreditAccountTies`, `ReceivableAccountTies` prove every property the run
checks. Every step posts one document row, reverses one, or takes or drops a
draft (`StepIs`). `DocInv` says what rows look like and stand on; `UseInv`
bounds what is used of a payment, an invoice, a line and a return, and says of
the draft of a return what is still true when it commits although payments may
be reversed in between (`DraftStands`); `LedgerInv` says that the receivable and
the credit account are sums over the rows in force (`TiesAt`). The ties follow
by splitting these sums at the exceptions the code makes (`Strays`,
`Overdrawn`).

**Suppliers** (`SupplierAccountProofs`). `SourcesStand`, `SupplierTypeCorrect`,
`NothingIsOvercommitted`, `ClaimsStayWithinCost`, `DiscountIsShared`,
`DocumentsTie` prove every property the run checks, by `AccountInv`: types and
what was recorded (`DocInv`), references (`SourceInv`; the delicate step is that
saving a draft again cannot change the supplier or currency under an
allocation, since only posted purchases have any), capacities, the claims on a
line and the accounts as sums. The tie of the payable is proved with a refund
in the claim's own currency on the wrong side, at twice its amount, which is
what `supplier_refund` shows to be the disagreement with the claim.

**Custody and transit** (`TransitLotProofs`), all for
`CallerKey = {}`: with caller keys a release can be lost, as in the code.
`ReleasesAgree`, `CustodyStaysWithinOwnership`, `ReturnsWereDelivered` rest on
`ReleaseInv` (a release's key names its check, so the release of a draft never
meets a key in use) and on `CustodyInv` (what is placed, released and returned
of a line, by warehouse, stays within its allocation). `LotTypeCorrect`,
`NoUnitIsLost`, `CustomersAreServed`, `SalesAreServedInOrder`, `StatusIsHonest`
rest on `LotInv`, whose core is how a receipt is handed out along the queue of
sales. `StatusIsHonest` includes the closed lot: sold goods are on the way to it
only while a supplier return or a loss stands, the two ways `transit_closed`
refutes the stronger claim.

**Stock** (`StockProofs`). `ReturnsStayWithinSource` and
`ObligationsServedInOrder`. `ListInv` is about the list of movements: a return
names a receipt or an issue before it, with all returns that stand it stays
within it, and it is taken back whole and once. `LinksFit` says no sale below
zero was given more than it took. The obligations of a warehouse are a queue in
the order of the Kardex; `ServedInFull` and `ServedInTurn` say what handing out
goods along a queue gives, and `CoversServe` that `Covers` does so.

**Stock valuation** (`StockValuationProofs`). `StockTypeOK`,
`CyclesAlwaysStartClean`, `AverageStaysBetweenCosts` and `InventoryAlwaysTies`
prove the rest of the `stock` run's properties, before any landed cost
(`costs = <<>>`, which `Spec` keeps), for any number of movements on any dates.

- The Kardex: ranks are different and fill `1 .. Len(moves)`, so the Kardex is a
  permutation in the order of `Earlier` (`RanksHold`, `KardexIs`).
- The replay: a fold is the end of a path of states (`FoldExists`,
  `PlainWalks`), and what the path does to one warehouse is a tape of its units
  and their cost basis (`Tape`, `PlainTapes`), on which each arrival and each
  issue of that warehouse is one step. The units at the end are `stock_for`
  (`TapeUnits`), the basis is a natural number and 0 when there are no units
  (`TapeBasis`), so the average divides by what is there and `StockTypeOK`
  holds: `issue_stock` books averages as costs.
- `CyclesStartClean` follows the last step of a tape, `AverageIsBetweenCosts`
  bounds every step (`BoundIn`, `BoundOut`): an issue at a rounded average moves
  the next one by at most half a step per unit.
- `InventoryTies` is not inductive: a purchase below zero corrects what the
  obligations took, and that equals what the replay drops only when the units
  the obligations still miss are exactly those below zero. `TiedInv` says so of
  every warehouse (`Ties`: `OpenSum` is the stock below zero, 0 if there is
  any), together with the tape of the list, which is the Kardex when nothing was
  inserted (`KardexIsList`). A movement row is `Fair` to its warehouse when it
  moves the account like the basis, to half a cent and half a step per unit; each
  action writes fair rows (`FairIn`, `FairBelow`, `FairOut`) or one that ends the
  histories the property is about (`Rough`), and a purchase (`PurchaseTies`)
  hands units to obligations and corrects their cost link by link
  (`CorrectsNear`, `ServedBasis`).

**Landed cost** (`LandedCostProofs`). `LandedCostTypeOK`,
`MovementsHoldWithCosts`, `ResidualStaysRounding` and
`LayeredInventoryAlwaysTies`, for `CostSpec`. The first
two rest on `CostInv`: `ValueInv`, and every document has shares above zero on
receipts that exist (`DocsFit`), so that both replays of a posting are valuations
and what it books are integers. The third follows the two replays movement by
movement:

- `HistoryInv` says what a regular history is made of: the units before and after
  a movement are the tape's, an arrival of a transfer is the row after its issue,
  a receipt at or above zero stock has no links, one below gave its links what
  was missing, and what issues took is covered by links or open. `RegularStep`
  reduces every action to the few kinds of step such a history allows.
- In such a history each row of a layered replay is one step of the basis of its
  warehouse, at the arrival's own cost raised by the documents or at the average
  (`Layer`, `LaidRow`), and one more document raises only the receipts it has
  shares on (`ExtraAdds`).
- Each movement moves the basis of its warehouse, with the document less without
  it, by what its adjustment books, to the grain of its row: half a cent per
  booking and a step per unit, an average being rounded with the document and
  without it (`RowsFitAll`, `Grain`). What one warehouse sends at a changed cost the other receives
  (`PassedOn`), and what a receipt gave to sales below zero is booked link by link
  (`Allocated`).
- Summed over all movements, adjustments and stock take the document's amount to
  the sum of the grains (`BookedSum`, `GainSumAll`, `ServedSum`, `StockApart`,
  `ResidualNear`), which with the rounding of each warehouse's stock is `CostDust`
  (`GrainsAddUp`).
- The residual is fixed when a document is posted and `CostDust` only grows
  (`DustGrows`), and a history that is regular was regular before
  (`RegularEarlier`): `ResidualInv` is inductive.

`LayeredInventoryAlwaysTies` takes each warehouse by itself, over all documents
that stand. Its invariant (`LayerInv`) says more than that the accounts tie now,
because a reversal has to arrive at a state that was left behind: for every
set `D` of standing documents such that the others were posted after them and
after the last movement, the accounts without what the others booked tie with
the layers of `D` alone (`Stages`, `Net`). A movement leaves one stage, the present one (`RowsEnd`): it is booked at
the average of the layers, so it moves the account as it moves the basis. A
posting adds a stage, tied because what it books by warehouse is what its replay
adds (`PostLaid`, `PostStocked`). A reversal that nothing
overtook drops the last stage and stands on the one before (`StagesReverse`). One
that was overtaken has no stage to stand on, so `OpenInv` asks for `LayerInv`
only while there was none, and `CheckedStep` keeps the documents under reversal
posted until they commit.

Assumptions: each module's `...Assumption` on its constants, which TLC evaluates
on every run. Beyond types they say that warehouses and invoices are finitely
many, as rows of a table are, and that the allocations of a sale line that is
not in transit add up to the line, which `create_sale` and `finalize_sale`
require (a line is issued in the quantities they name).

`TypeCorrect`, `Inductive`, `ReversedOnce` and `ImmutableHistory` are proved and
not listed in a run's configuration: `JournalSound`, `BalancesAreLiveFacts` and
the refinement already exercise them there.

Only model-checked:

- liveness (`EveryTransactionEnds`): the provers do not reason about fairness
  here;
- the five refuted claims, which have a counterexample instead.

## Not modelled, and why

- Transit lots' unit costs and the replay that values a loss
  (`landed_cost_posting.py` after its first half): the lot's quantities are in
  `TransitLot`, and its stock never meets the Kardex of `Stock` until received.
- `assign_warehouse_account`, `customer_dispatch`, the sales return of transit
  goods: one row each, no interplay with cost.
- Exchange-house trades and realized gains (`accounting/fx.py`): the documents
  use only the conversion and rounding modelled here.
- The party ledger's readers: queries over attributed lines; the ties by
  customer and supplier say what they would sum.
- The permission resolver: a pure function of committed rows.
- Master data, the chart of accounts' bootstrap, settings, HTTP views and the
  desktop shell have no behaviour over time that the ledgers depend on. Line
  pricing and document texts are data.
- Lock order across services (a sale's products against its customer, an
  advance against a purchase): each module takes its own locks in one order and
  has one action per transaction. Retries outside the posting pipeline: they
  commit nothing, and what they answer is only modelled in `Posting`.

## Plan

1. `Posting`, its properties and proofs. Done.
2. `CustomerAccount`, `WarehouseCustody`, `TransitLot`. Done, with every safety
   property proved (custody and transit without caller keys).
3. `Stock`, `LandedCost`, `SupplierAccount`. Done, with every safety property
   proved.
4. `LayeredInventoryTies` with overtaken reversals apart. Done, proved.
5. Next: a model of lock order across services, with the several postings of one
   transaction; the valuation of transit losses over `Stock`; the permission resolver against a declarative definition.
