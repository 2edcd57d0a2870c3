------------------------------ MODULE LandedCost ------------------------------
(***************************************************************************)
(* Late landed costs of one product over its stock: drafts with allocated  *)
(* shares, posting with the revaluation of everything downstream, reversal *)
(* (purchases/landed_cost_services.py, landed_cost_posting.py,             *)
(* landed_cost_reversal.py) for purchases received into warehouses.        *)
(*                                                                         *)
(* A document is posted in one transaction that holds the product's row, as *)
(* every stock operation does, so it is one step; a step that raises       *)
(* changes nothing, so every refusal is a guard.  A reversal locks only its *)
(* document: stock operations and postings commit between its check of what *)
(* came later and its own commit, so it is two steps.                      *)
(***************************************************************************)
EXTENDS Stock

CONSTANTS
  Amount,     \* amounts of a document, in cents
  Weight,     \* measured weights of purchase lines
  MaxCosts    \* documents the instance may create

ASSUME LandedCostAssumption ==
  /\ Amount \subseteq Nat \ {0}
  /\ Weight \subseteq Nat \ {0}
  /\ MaxCosts \in Nat
  /\ IsFiniteSet(Warehouse)

VARIABLES
  checked,    \* documents under reversal that nothing later was found for
  overtaken   \* history: documents reversed although something later had committed

reversals == <<checked, overtaken>>

costVars == <<vars, reversals>>

CostInit == Init /\ checked = {} /\ overtaken = {}

\* What a document did to the accounts.
NoJournals == [inventory |-> [w \in Warehouse |-> 0], cogs |-> 0, payable |-> 0]

Receipts(d) == DOMAIN costs[d].share

AmountOf(d) == SumOf(Receipts(d), LAMBDA r : costs[d].share[r])
-----------------------------------------------------------------------------
\* _allocate: the last line takes the rest.
Shares(amount, weights) ==
  LET n == Len(weights)
      total == FoldLeft(+, 0, weights)
      rounded(k) == HalfUp(amount * weights[k], total)
  IN [k \in 1 .. n |-> IF k < n THEN rounded(k) ELSE amount - SumOf(1 .. (n - 1), rounded)]

\* create_landed_cost_draft over the receipts rs, in the caller's order.  The
\* document's date, not before its purchases', only dates its journals.
CreateDraft(rs, weights, amount) ==
  LET shares == Shares(amount, weights)
  IN /\ Len(costs) < MaxCosts
     /\ \A k \in DOMAIN rs : Original(rs[k], "PURCHASE_RECEIPT")
     /\ \A k \in DOMAIN rs : shares[k] > 0
     /\ costs' = Append(costs,
          [status |-> "DRAFT",
           share |-> [r \in ToSet(rs) |-> shares[CHOOSE k \in DOMAIN rs : rs[k] = r]],
           posted |-> NoJournals, residual |-> 0, at |-> 0, turn |-> 0])
     /\ UNCHANGED <<moves, links, settled, accounts, reversals>>
-----------------------------------------------------------------------------
\* The replay of post_landed_cost is strict.  An issue below zero is accepted
\* only when some receipt resolved part of it.
Resolved == {l.issue : l \in links}

Before(i) ==
  SumOf({j \in DOMAIN moves : moves[j].warehouse = moves[i].warehouse /\ Earlier(j, i)},
        LAMBDA j : moves[j].quantity)

StrictlyReplayable(earliest) ==
  /\ Replayable
  /\ \A i \in DOMAIN moves :
       moves[i].day >= earliest =>
         /\ moves[i].temporary => i \in Resolved
         /\ moves[i].type \notin {"ADJUSTMENT_OUT", "SHORTAGE"}
  /\ \A i \in DOMAIN moves :
       moves[i].quantity < 0 => i \in Resolved \/ Before(i) >= Units(i)
  /\ \A w \in Warehouse : OnHand(w) >= 0

Earliest(d) == Min({moves[r].day : r \in Receipts(d)})

\* Old and new are the replays before and after the document.  What it changes
\* in the value of movement i, in cents.
Change(old, new, i) ==
  HalfUp(IF Is(i, "SALES_RETURN") THEN Units(i) * (new.unit[i] - old.unit[i])
                                  ELSE new.relief[i] - old.relief[i], Cent)

\* The movements of a type that get an adjustment.
Changed(old, new, d, type) ==
  {i \in DOMAIN moves : Is(i, type) /\ moves[i].day >= Earliest(d) /\ Change(old, new, i) # 0}

\* What the supplier owes more for a return, at the cost of its receipt.
ClaimChange(old, new, i) ==
  HalfUp(Units(i) * (new.unit[moves[i].src] - old.unit[moves[i].src]), Cent)

\* The share of the links that a document's receipts have with obligations.
Linked(d) == {l \in links : l.receipt \in Receipts(d)}

LinkShare(d, l) ==
  HalfUp(l.quantity * HalfUp(Steps(costs[d].share[l.receipt]), Units(l.receipt)), Cent)

\* Mutant: sales that went out before the goods came in are forgotten.
SharedNever(d) == {l \in Linked(d) : FALSE}

Shared(d) == {l \in Linked(d) : LinkShare(d, l) > 0}

\* _post_adjustment: one adjustment per kind and reference.  A second one for
\* the same movement and amount is taken for a retry, any other is refused.
OneEach(S) == \A i, j \in S : i # j => moves[i].ref # moves[j].ref

Adjustable(old, new, d) ==
  /\ \A type \in {"SALES_ISSUE", "TRANSFER_OUT", "PURCHASE_RETURN", "SALES_RETURN"} :
       OneEach(Changed(old, new, d, type))
  /\ \A i \in Changed(old, new, d, "SALES_ISSUE") : moves[i].src = 0
  /\ \A l, m \in Shared(d) :
       moves[l.issue].ref = moves[m.issue].ref =>
         l.issue = m.issue /\ LinkShare(d, l) = LinkShare(d, m)

\* The links whose adjustment is posted: one of those with the same obligation.
Posted(d) == {l \in Shared(d) : \A m \in Shared(d) : m.issue = l.issue => l.receipt <= m.receipt}
-----------------------------------------------------------------------------
SumChanges(old, new, S) == SumOf(S, LAMBDA i : Change(old, new, i))

\* The part of the allocated amount the adjustments leave over.
Residual(old, new, d) ==
  LET changed(type) == Changed(old, new, d, type)
      stock == SumOf(Warehouse, LAMBDA w : HalfUp(new.basis[w] - old.basis[w], Cent))
      sold == SumOf(Shared(d), LAMBDA l : LinkShare(d, l))
              + SumChanges(old, new, changed("SALES_ISSUE"))
              - SumChanges(old, new, changed("SALES_RETURN"))
              + SumChanges(old, new, changed("PURCHASE_RETURN"))
  IN AmountOf(d) - (stock + sold)

\* What a warehouse's account gains: the invoice, less what went on to COGS,
\* suppliers and other warehouses, plus what came from them.
InventoryGain(old, new, d, w, residual) ==
  LET at(S) == {i \in S : moves[i].warehouse = w}
      changed(type) == Changed(old, new, d, type)
      arrived == {i \in changed("TRANSFER_OUT") : moves[i + 1].warehouse = w}
      first == Min(Receipts(d))
  IN SumOf({r \in Receipts(d) : moves[r].warehouse = w}, LAMBDA r : costs[d].share[r])
     - SumOf({l \in Posted(d) : moves[l.issue].warehouse = w}, LAMBDA l : LinkShare(d, l))
     - SumChanges(old, new, at(changed("SALES_ISSUE")))
     - SumChanges(old, new, at(changed("PURCHASE_RETURN")))
     + SumChanges(old, new, at(changed("SALES_RETURN")))
     - SumChanges(old, new, at(changed("TRANSFER_OUT")))
     + SumChanges(old, new, arrived)
     - (IF moves[first].warehouse = w THEN residual ELSE 0)

\* All journals of post_landed_cost together; they balance.
JournalsOf(old, new, d) ==
  LET residual == Residual(old, new, d)
      claims == SumOf(Changed(old, new, d, "PURCHASE_RETURN"), LAMBDA i : ClaimChange(old, new, i))
      gain == [w \in Warehouse |-> InventoryGain(old, new, d, w, residual)]
      payableGain == AmountOf(d) - claims
  IN [inventory |-> gain, payable |-> payableGain, cogs |-> payableGain - SumOf(Warehouse, LAMBDA w : gain[w])]

Book(journals, sign) ==
  /\ inventory' = [w \in Warehouse |-> inventory[w] + sign * journals.inventory[w]]
  /\ cogs' = cogs + sign * journals.cogs
  /\ payable' = payable + sign * journals.payable

Turn == Max({0} \cup {costs[d].turn : d \in DOMAIN costs})

\* post_landed_cost.  A posted document is returned as it is.
PostLandedCost(d) ==
  LET old == LayeredReplay(Active)
      new == LayeredReplay(Active \cup {d})
      journals == JournalsOf(old, new, d)
  IN /\ costs[d].status = "DRAFT"
     /\ StrictlyReplayable(Earliest(d))
     /\ Adjustable(old, new, d)
     /\ Book(journals, 1)
     /\ costs' = [costs EXCEPT ![d].status = "POSTED", ![d].posted = journals,
                               ![d].residual = Residual(old, new, d),
                               ![d].at = Len(moves), ![d].turn = Turn + 1]
     /\ UNCHANGED <<moves, links, settled, reversals>>

\* Mutant: movements after the posting are not looked at.
UntouchedByCosts(d) == \A e \in Active : costs[e].turn <= costs[d].turn

\* _assert_no_later_activity
Untouched(d) ==
  /\ Len(moves) = costs[d].at
  /\ \A e \in Active : costs[e].turn <= costs[d].turn

\* reverse_landed_cost up to its check, which sees only what has committed.  A
\* stock operation that is open at that moment, holding the product's row, is
\* one that takes its step before the reversal commits: the two leave the same
\* state in either order.  A reversal that rolls back is one that never began.
BeginReverse(d) ==
  /\ costs[d].status = "POSTED"
  /\ d \notin checked
  /\ Untouched(d)
  /\ checked' = checked \cup {d}
  /\ UNCHANGED <<vars, overtaken>>

\* The rest of reverse_landed_cost, and its commit: every journal of the
\* document is mirrored, without another look at what came later.
ReverseLandedCost(d) ==
  /\ d \in checked
  /\ Book(costs[d].posted, -1)
  /\ costs' = [costs EXCEPT ![d].status = "REVERSED"]
  /\ checked' = checked \ {d}
  /\ overtaken' = IF Untouched(d) THEN overtaken ELSE overtaken \cup {d}
  /\ UNCHANGED <<moves, links, settled>>
-----------------------------------------------------------------------------
CostStep ==
  \/ \E r \in DOMAIN moves, amount \in Amount : CreateDraft(<<r>>, <<1>>, amount)
  \/ \E r, s \in DOMAIN moves, amount \in Amount, v, w \in Weight :
       r # s /\ CreateDraft(<<r, s>>, <<v, w>>, amount)
  \/ \E d \in DOMAIN costs : PostLandedCost(d) \/ BeginReverse(d) \/ ReverseLandedCost(d)

CostNext ==
  \/ StockStep /\ UNCHANGED reversals
  \/ CostStep

CostSpec == CostInit /\ [][CostNext]_costVars
=============================================================================
