--------------------------- MODULE WarehouseCustody ---------------------------
(***************************************************************************)
(* Sold goods from the invoice to the customer: ownership entitlements,    *)
(* the custody event ledger, warehouse checks and their cancellation, and  *)
(* what sales returns take back (customer_custody/services.py, the check   *)
(* half of sales/services.py, the quantities of sales/returns_services.py).*)
(*                                                                         *)
(* Ordinary lines have their stock issued and allocated to warehouses when *)
(* the sale is finalized; transit lines wait for receipts of their lot.    *)
(* Every action but PrepareCheck, ReversePlacement and ReverseReturn locks *)
(* the sale line, those three read or write nothing the others race with,  *)
(* so each is one step.  The period gate is that of Posting.tla.           *)
(***************************************************************************)
EXTENDS Integers, FiniteSets, FiniteSetsExt

CONSTANTS
  Line, TransitLine, Quantity,
  Warehouse,
  Allocated,          \* Allocated[l][w]: what an ordinary line was issued from w
  Check, Return,      \* rows the instance may create
  CallerKey, NoKey    \* idempotency keys of callers, and a call without one

\* "Warehouse allocations must sum to the SaleLine quantity"
ASSUME CustodyAssumption ==
  /\ TransitLine \subseteq Line
  /\ Quantity \in [Line -> Nat \ {0}]
  /\ IsFiniteSet(Warehouse)
  /\ Allocated \in [Line -> [Warehouse -> Nat]]
  /\ \A l \in Line \ TransitLine : SumFunction(Allocated[l]) = Quantity[l]
  /\ NoKey \notin CallerKey

VARIABLES
  entitled,  \* lines with an ownership entitlement
  events,    \* CustomerCustodyEvent rows
  checks,    \* WarehouseCheck rows
  returns,   \* SalesReturn rows
  owing      \* lines issued below zero stock, at a cost not settled yet

custodyVars == <<entitled, events, checks, returns, owing>>
-----------------------------------------------------------------------------
Absent == [status |-> "ABSENT"]

\* The reference of a placement made by a transit receipt.
Receipt == "TRANSIT"

\* A placement or a release; a reversal event only takes its original away.
Event ==
  [key: CallerKey \cup ({"place", "release"} \X Check) \cup ({"receipt"} \X Line \X Nat),
   type: {"PLACED", "RELEASED"}, line: Line, warehouse: Warehouse, quantity: Nat \ {0},
   reference: Check \cup {Receipt}, reversed: BOOLEAN]

CheckRow ==
  [status: {"DRAFT", "FINALIZED", "CANCELLED"}, line: Line, warehouse: Warehouse,
   quantity: Nat \ {0}]

ReturnRow ==
  [status: {"POSTED", "REVERSED"}, line: Line, warehouse: Warehouse, quantity: Nat \ {0}]

CustodyTypeOK ==
  /\ entitled \subseteq Line
  /\ events \subseteq Event
  /\ checks \in [Check -> CheckRow \cup {Absent}]
  /\ returns \in [Return -> ReturnRow \cup {Absent}]
  /\ owing \subseteq Line

CustodyInit ==
  /\ entitled = {}
  /\ events = {}
  /\ checks = [c \in Check |-> Absent]
  /\ returns = [r \in Return |-> Absent]
  /\ owing = {}

Sum(S, f(_)) == SumFunctionOnSet([x \in S |-> f(x)], S)

Total(type, l, W) ==
  Sum({e \in events : /\ e.type = type /\ e.line = l
                      /\ e.warehouse \in W /\ ~e.reversed}, LAMBDA e : e.quantity)

\* _balance and _total_balance
Balance(l, w) == Total("PLACED", l, {w}) - Total("RELEASED", l, {w})
TotalBalance(l) == Total("PLACED", l, Warehouse) - Total("RELEASED", l, Warehouse)

\* unallocated_custody_balance
Unallocated(l) == Max({0, Quantity[l] - TotalBalance(l)})

ReleasedFrom(l, W) ==
  Sum({c \in Check : /\ checks[c].status = "FINALIZED" /\ checks[c].line = l
                     /\ checks[c].warehouse \in W}, LAMBDA c : checks[c].quantity)

Released(l) == ReleasedFrom(l, Warehouse)

ReturnedTo(l, W) ==
  Sum({r \in Return : /\ returns[r].status = "POSTED" /\ returns[r].line = l
                      /\ returns[r].warehouse \in W}, LAMBDA r : returns[r].quantity)

Returned(l) == ReturnedTo(l, Warehouse)

\* Inventory returns of a line, reversed or not.
HasReturnHistory(l) == \E r \in Return : returns[r] # Absent /\ returns[r].line = l
-----------------------------------------------------------------------------
\* finalize_sale of an AVAILABLE sale: create_ownership_entitlement, and for an
\* ordinary line the stock issue, which may leave a negative-cost obligation.
Entitle(l) ==
  /\ l \notin entitled
  /\ entitled' = entitled \cup {l}
  /\ owing' \in {owing, owing \cup ({l} \ TransitLine)}
  /\ UNCHANGED <<events, checks, returns>>

\* resolve_negative_obligations
ResolveObligation(l) ==
  /\ l \in owing
  /\ owing' = owing \ {l}
  /\ UNCHANGED <<entitled, events, checks, returns>>

\* prepare_warehouse_check: drafts are not counted against each other.
PrepareCheck(c, l, w, q) ==
  /\ checks[c] = Absent
  /\ l \in entitled
  /\ q <= Quantity[l] - Released(l)
  /\ checks' = [checks EXCEPT ![c] =
       [status |-> "DRAFT", line |-> l, warehouse |-> w, quantity |-> q]]
  /\ UNCHANGED <<entitled, events, returns, owing>>

\* place_customer_custody and release_customer_custody answer a key already
\* used with its event, whatever that event is.
WithEvent(E, e) == IF \E f \in E : f.key = e.key THEN E ELSE E \cup {e}

CheckEvent(c, type, key, q) ==
  [key |-> key, type |-> type, line |-> checks[c].line, warehouse |-> checks[c].warehouse,
   quantity |-> q, reference |-> c, reversed |-> FALSE]

\* Mutant: the checks already finalized are not counted at the warehouse.
MayReleaseAllocated(l, w, q) ==
  IF l \in TransitLine THEN q <= Balance(l, w)
  ELSE q <= Allocated[l][w]

\* What the warehouse may still release of the line.
MayRelease(l, w, q) ==
  IF l \in TransitLine THEN q <= Balance(l, w)
  ELSE /\ q <= Allocated[l][w] - ReleasedFrom(l, {w})
       /\ q - Balance(l, w) <= Unallocated(l)

\* The part of the check not yet in custody at the warehouse is placed first.
Placed(c, key) ==
  LET missing == checks[c].quantity - Balance(checks[c].line, checks[c].warehouse)
  IN IF missing <= 0 THEN events
     ELSE WithEvent(events, CheckEvent(c, "PLACED", IF key = NoKey THEN <<"place", c>> ELSE key, missing))

\* finalize_warehouse_check: one caller key serves both custody events.
FinalizeCheck(c, key) ==
  LET row == checks[c]
  IN /\ row.status = "DRAFT"
     /\ row.quantity <= Quantity[row.line] - Released(row.line)
     /\ MayRelease(row.line, row.warehouse, row.quantity)
     /\ events' = WithEvent(Placed(c, key),
          CheckEvent(c, "RELEASED", IF key = NoKey THEN <<"release", c>> ELSE key, row.quantity))
     /\ checks' = [checks EXCEPT ![c].status = "FINALIZED"]
     /\ UNCHANGED <<entitled, returns, owing>>

\* Mutant: the check is cancelled and its release stands.
CancelCheckOnly(c) ==
  LET l == checks[c].line
  IN /\ checks[c].status = "FINALIZED"
     /\ l \notin TransitLine => ~HasReturnHistory(l)
     /\ l \notin owing
     /\ checks' = [checks EXCEPT ![c].status = "CANCELLED"]
     /\ UNCHANGED <<entitled, events, returns, owing>>

\* Mutant: returned goods are no obstacle.
CancelCheckDespiteReturns(c) ==
  LET l == checks[c].line
  IN /\ checks[c].status = "FINALIZED"
     /\ l \notin owing
     /\ \E e \in events :
          /\ e.type = "RELEASED" /\ e.reference = c /\ ~e.reversed
          /\ events' = (events \ {e}) \cup {[e EXCEPT !.reversed = TRUE]}
     /\ checks' = [checks EXCEPT ![c].status = "CANCELLED"]
     /\ UNCHANGED <<entitled, returns, owing>>

\* cancel_warehouse_check: the goods never left, the release is reversed.
CancelCheck(c) ==
  LET l == checks[c].line
  IN /\ checks[c].status = "FINALIZED"
     /\ l \notin TransitLine => ~HasReturnHistory(l)
     /\ l \notin owing
     /\ \E e \in events :
          /\ e.type = "RELEASED" /\ e.reference = c /\ ~e.reversed
          /\ events' = (events \ {e}) \cup {[e EXCEPT !.reversed = TRUE]}
     /\ checks' = [checks EXCEPT ![c].status = "CANCELLED"]
     /\ UNCHANGED <<entitled, returns, owing>>

\* reverse_customer_custody_event of a placement.
ReversePlacement(e) ==
  /\ e \in events
  /\ e.type = "PLACED" /\ ~e.reversed
  /\ Balance(e.line, e.warehouse) >= e.quantity
  /\ events' = (events \ {e}) \cup {[e EXCEPT !.reversed = TRUE]}
  /\ UNCHANGED <<entitled, checks, returns, owing>>

\* What create_sales_return takes back: at a transit line's warehouse what was
\* released there, of an ordinary line what was released anywhere, against the
\* issue of the warehouse it comes back to.
MayReturn(l, w, q) ==
  IF l \in TransitLine THEN q <= ReleasedFrom(l, {w}) - ReturnedTo(l, {w})
  ELSE q <= Released(l) - Returned(l) /\ q <= Allocated[l][w] - ReturnedTo(l, {w})

CreateReturn(r, l, w, q) ==
  /\ returns[r] = Absent
  /\ l \in entitled
  /\ MayReturn(l, w, q)
  /\ returns' = [returns EXCEPT ![r] =
       [status |-> "POSTED", line |-> l, warehouse |-> w, quantity |-> q]]
  /\ UNCHANGED <<entitled, events, checks, owing>>

ReverseReturn(r) ==
  /\ returns[r].status = "POSTED"
  /\ returns' = [returns EXCEPT ![r].status = "REVERSED"]
  /\ UNCHANGED <<entitled, events, checks, owing>>
-----------------------------------------------------------------------------
CheckStep(c) ==
  \/ \E l \in Line, w \in Warehouse : \E q \in 1 .. Quantity[l] : PrepareCheck(c, l, w, q)
  \/ \E key \in CallerKey \cup {NoKey} : FinalizeCheck(c, key)
  \/ CancelCheck(c)

CustodyReturnStep(r) ==
  \/ \E l \in Line, w \in Warehouse : \E q \in 1 .. Quantity[l] : CreateReturn(r, l, w, q)
  \/ ReverseReturn(r)

\* The steps of a line that its sale has finalized.
CustodyStep ==
  \/ \E c \in Check : CheckStep(c)
  \/ \E r \in Return : CustodyReturnStep(r)
  \/ \E e \in events : ReversePlacement(e)
  \/ \E l \in Line : ResolveObligation(l)

CustodyNext == (\E l \in Line \ TransitLine : Entitle(l)) \/ CustodyStep

\* Ordinary lines alone; TransitLot.tla adds the transit lines.
CustodySpec == CustodyInit /\ [][CustodyNext]_custodyVars
=============================================================================
