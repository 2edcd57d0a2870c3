---------------------------- MODULE LandedCostProofs ----------------------------
(***************************************************************************)
(* Proofs about LandedCost: what its documents are, what their postings    *)
(* book, that the stock they revalue keeps its invariants, that what a     *)
(* document leaves over is rounding, and that the inventory accounts stay  *)
(* the valuation of the stock.                                             *)
(***************************************************************************)
EXTENDS LandedCostProperties, StockValuationProofs

-----------------------------------------------------------------------------
(* Two weights and their sum.                                               *)
PlusFold(seq, g, s) == IF s = {} THEN 0 ELSE g[s \ {Max(s)}] + seq[Max(s)]

LEMMA PlusIsChosen ==
  ASSUME NEW seq
  PROVE  FoldLeft(+, 0, seq)
           = (CHOOSE g : g = [s \in SUBSET DOMAIN seq |-> PlusFold(seq, g, s)])[DOMAIN seq]
  BY Zenon DEF FoldLeft, MapThenFoldSet, PlusFold

LEMMA PlusOfTwo ==
  ASSUME NEW seq, NEW v \in Int, NEW w \in Int, seq = <<v, w>>
  PROVE  FoldLeft(+, 0, seq) = v + w
  <1>2. DOMAIN seq = 1 .. 2 /\ seq[1] = v /\ seq[2] = w
    OBVIOUS
  <1>3. PICK F : F = [p \in (1 .. 2) \X Int |-> p[2] + seq[p[1]]]
    OBVIOUS
  <1>4. \A k \in 1 .. 2, x \in Int : F[<<k, x>>] = x + seq[k] /\ F[<<k, x>>] \in Int
    BY <1>2, <1>3
  <1>5. PICK g : Solved(g, 2, Int, 0, F)
    <2>1. 0 \in Int /\ 2 \in Nat /\ \A k \in 1 .. 2, x \in Int : F[<<k, x>>] \in Int
      BY <1>4
    <2> QED
      BY <2>1, FoldLeftExists
  <1>6. \A s \in SUBSET (1 .. 2) : s # {} => Max(s) \in s /\ s \ {Max(s)} \in SUBSET (1 .. 2)
    BY MaxIn
  <1>7. \A s \in SUBSET (1 .. 2) : g[s] = PlusFold(seq, g, s)
    BY <1>4, <1>5, <1>6 DEF Solved, PlusFold
  <1> DEFINE Eq(f) == f = [s \in SUBSET (1 .. 2) |-> PlusFold(seq, f, s)]
  <1>8. Eq(g)
    BY <1>5, <1>7 DEF Solved
  <1>9. PICK h : h = CHOOSE f : Eq(f)
    OBVIOUS
  <1>10. Eq(h)
    BY <1>8, <1>9, Zenon
  <1>11. FoldLeft(+, 0, seq) = h[1 .. 2]
    BY <1>2, <1>9, PlusIsChosen
  <1>12. /\ Max(1 .. 2) = 2 /\ (1 .. 2) \ {2} = 1 .. 1 /\ Max(1 .. 1) = 1 /\ (1 .. 1) \ {1} = 1 .. 0
    <2>1. PICK a \in 1 .. 2 : a = 1
      OBVIOUS
    <2>2. PICK b \in 1 .. 2 : b = 2
      OBVIOUS
    <2>3. 2 \in Nat /\ \A k \in 1 .. 2 : Max(1 .. k) = k /\ (1 .. k) \ {k} = 1 .. (k - 1)
      BY MaxOfInterval
    <2> QED
      BY <2>1, <2>2, <2>3
  <1>13. /\ 1 .. 2 \in SUBSET (1 .. 2) /\ 1 .. 1 \in SUBSET (1 .. 2) /\ 1 .. 0 \in SUBSET (1 .. 2)
         /\ 1 .. 2 # {} /\ 1 .. 1 # {} /\ 1 .. 0 = {}
    OBVIOUS
  <1>14. h[1 .. 0] = 0
    BY <1>10, <1>13 DEF PlusFold
  <1>15. h[1 .. 1] = h[1 .. 0] + seq[1]
    <2>1. h[1 .. 1] = h[(1 .. 1) \ {Max(1 .. 1)}] + seq[Max(1 .. 1)]
      BY <1>10, <1>13 DEF PlusFold
    <2> QED
      BY <1>12, <2>1
  <1>16. h[1 .. 2] = h[1 .. 1] + seq[2]
    <2>1. h[1 .. 2] = h[(1 .. 2) \ {Max(1 .. 2)}] + seq[Max(1 .. 2)]
      BY <1>10, <1>13 DEF PlusFold
    <2> QED
      BY <1>12, <2>1
  <1>17. h[1 .. 2] = v + w
    BY <1>2, <1>14, <1>15, <1>16
  <1> QED
    BY <1>11, <1>17, Zenon

-----------------------------------------------------------------------------
(* The documents.                                                           *)
IsDocument(c) ==
  c = [status |-> c.status, share |-> c.share, posted |-> c.posted,
       residual |-> c.residual, at |-> c.at, turn |-> c.turn]

\* A receipt that a document may be about.
ReceiptIn(M, r) == r \in DOMAIN M /\ M[r].type = "PURCHASE_RECEIPT" /\ M[r].src = 0

JournalsFit(j) == j.inventory \in [Warehouse -> Int] /\ j.cogs \in Int /\ j.payable \in Int

DocFits(M, c) ==
  /\ IsDocument(c) /\ c.status \in {"DRAFT", "POSTED", "REVERSED"}
  /\ IsFiniteSet(DOMAIN c.share) /\ DOMAIN c.share # {}
  /\ \A r \in DOMAIN c.share : ReceiptIn(M, r) /\ c.share[r] \in Nat \ {0}
  /\ JournalsFit(c.posted) /\ c.residual \in Int

DocsFit(M, C) == IsList(C) /\ \A d \in DOMAIN C : DocFits(M, C[d])

LEMMA DocsShares ==
  ASSUME NEW M, NEW C, DocsFit(M, C)
  PROVE  /\ IsFiniteSet(DOMAIN C)
         /\ \A d \in DOMAIN C : \A i \in DOMAIN C[d].share : C[d].share[i] \in Nat
  <1>1. PICK n \in Nat : n = Len(C)
    BY DEF DocsFit, IsList
  <1>2. DOMAIN C = 1 .. n
    BY <1>1 DEF DocsFit, IsList
  <1> QED
    BY <1>2, FS_Interval DEF DocsFit, DocFits

\* A longer list of movements keeps them.
LEMMA DocsKeep ==
  ASSUME NEW M, NEW N, NEW C, DocsFit(M, C), DOMAIN M \subseteq DOMAIN N, \A i \in DOMAIN M : N[i] = M[i]
  PROVE  DocsFit(N, C)
  BY DEF DocsFit, DocFits, ReceiptIn

LEMMA FunctionIsList ==
  ASSUME NEW n \in Nat, NEW f, f = [i \in 1 .. n |-> f[i]]
  PROVE  IsList(f) /\ Len(f) = n
  <1> DEFINE S == {f[i] : i \in 1 .. n}
  <1>1. f \in [1 .. n -> S]
    OBVIOUS
  <1>2. f \in Seq(S)
    BY <1>1
  <1> HIDE DEF S
  <1>3. Len(f) \in Nat /\ DOMAIN f = 1 .. Len(f)
    BY <1>2
  <1>4. DOMAIN f = 1 .. n
    BY <1>1
  <1>5. Len(f) = n
    BY <1>2, <1>4
  <1> QED
    BY <1>5 DEF IsList

\* One document changes.
LEMMA DocsChange ==
  ASSUME NEW M, NEW C, DocsFit(M, C), NEW d \in DOMAIN C, NEW c, DocFits(M, c),
         NEW K, K = [C EXCEPT ![d] = c]
  PROVE  DocsFit(M, K) /\ DOMAIN K = DOMAIN C /\ K[d] = c /\ \A e \in DOMAIN C : e # d => K[e] = C[e]
  <1>1. PICK n \in Nat : n = Len(C)
    BY DEF DocsFit, IsList
  <1>2. DOMAIN C = 1 .. n
    BY <1>1 DEF DocsFit, IsList
  <1>3. K = [i \in 1 .. n |-> K[i]]
    BY <1>2
  <1>4. IsList(K)
    BY <1>3, FunctionIsList
  <1> QED
    BY <1>2, <1>4 DEF DocsFit

LEMMA DocsAppend ==
  ASSUME NEW M, NEW C, DocsFit(M, C), NEW c, DocFits(M, c)
  PROVE  /\ DocsFit(M, Append(C, c)) /\ Longer(C, Append(C, c), c)
  <1>1. PICK K : K = Append(C, c) /\ Longer(C, K, c)
    BY AppendIsLonger DEF DocsFit
  <1>2. PICK n : n = Len(C) + 1
    OBVIOUS
  <1>3. /\ DOMAIN K = DOMAIN C \cup {n} /\ n \notin DOMAIN C /\ K[n] = c
        /\ \A i \in DOMAIN C : K[i] = C[i]
    BY <1>1, <1>2, Domains
  <1>4. DocsFit(M, K)
    BY <1>1, <1>3 DEF DocsFit, Longer
  <1> QED
    BY <1>1, <1>4

\* The shares of one and of two lines.
SharesBy(amount, weights, total) ==
  [k \in 1 .. Len(weights) |->
     IF k < Len(weights) THEN HalfUp(amount * weights[k], total)
     ELSE amount - SumFunctionOnSet([j \in 1 .. (Len(weights) - 1) |-> HalfUp(amount * weights[j], total)],
                                    1 .. (Len(weights) - 1))]

LEMMA SharesAre ==
  ASSUME NEW amount, NEW weights
  PROVE  Shares(amount, weights) = SharesBy(amount, weights, FoldLeft(+, 0, weights))
  BY Zenon DEF Shares, SharesBy, SumOf

LEMMA OneShare ==
  ASSUME NEW amount \in Nat, NEW weights, weights = << 1 >>
  PROVE  DOMAIN Shares(amount, weights) = 1 .. 1 /\ \A k \in 1 .. 1 : Shares(amount, weights)[k] \in Int
  <1>1. PICK total : Shares(amount, weights) = SharesBy(amount, weights, total)
    BY SharesAre
  <1>2. PICK s : s = SharesBy(amount, weights, total)
    OBVIOUS
  <1>3. Len(weights) = 1 /\ 1 .. (1 - 1) = {}
    OBVIOUS
  <1>4. DOMAIN s = 1 .. 1 /\ s[1] = amount - 0
    BY <1>2, <1>3, SumEmpty DEF SharesBy
  <1> QED
    BY <1>1, <1>2, <1>4

LEMMA TwoShares ==
  ASSUME NEW amount \in Nat, NEW v \in Nat \ {0}, NEW w \in Nat \ {0}, NEW weights, weights = <<v, w>>
  PROVE  DOMAIN Shares(amount, weights) = 1 .. 2 /\ \A k \in 1 .. 2 : Shares(amount, weights)[k] \in Int
  <1>1. PICK total : Shares(amount, weights) = SharesBy(amount, weights, total) /\ total = v + w
    <2>0. v \in Int /\ w \in Int
      OBVIOUS
    <2>1. FoldLeft(+, 0, weights) = v + w
      BY <2>0, PlusOfTwo, Zenon
    <2>2. PICK total : total = FoldLeft(+, 0, weights)
      OBVIOUS
    <2>3. total = v + w
      BY <2>1, <2>2, Zenon
    <2>4. Shares(amount, weights) = SharesBy(amount, weights, total)
      BY <2>2, SharesAre, Zenon
    <2> QED
      BY <2>3, <2>4
  <1>2. PICK s : s = SharesBy(amount, weights, total)
    OBVIOUS
  <1>3. PICK n : n = Len(weights)
    OBVIOUS
  <1>4. n = 2 /\ 1 .. (n - 1) = {1} /\ weights[1] = v
    BY <1>3
  <1>5. PICK h \in Int : h = HalfUp(amount * v, total)
    <2>1. amount * v \in Int /\ total \in Nat \ {0}
      BY <1>1
    <2> QED
      BY <2>1, HalfUpIs
  <1>6. PICK f : f = [j \in 1 .. (n - 1) |-> HalfUp(amount * weights[j], total)]
    OBVIOUS
  <1>7. SumFunctionOnSet(f, {1}) \in Int
    <2>1. f[1] = h /\ IsFiniteSet({1})
      BY <1>4, <1>5, <1>6, FS_Singleton
    <2> QED
      BY <2>1, SumInt DEF IntOn
  <1>8. DOMAIN s = 1 .. 2 /\ s[1] = h /\ s[2] = amount - SumFunctionOnSet(f, {1})
    BY <1>2, <1>3, <1>4, <1>5, <1>6 DEF SharesBy
  <1> QED
    BY <1>1, <1>2, <1>5, <1>7, <1>8

-----------------------------------------------------------------------------
(* What a posting books are integers.                                       *)
CostInv == ValueInv /\ DocsFit(moves, costs)

LEMMA CostInvIs ==
  ASSUME CostInv
  PROVE  /\ ListInv(moves) /\ LinksFit(moves, links) /\ CostsOK(moves) /\ SharesOK
         /\ DocsFit(moves, costs) /\ IsFiniteSet(DOMAIN moves) /\ IsFiniteSet(links)
         /\ links \subseteq Link /\ IsFiniteSet(Warehouse)
         /\ \A i \in DOMAIN moves : Units(i) \in Nat \ {0}
  <1>1. ListInv(moves) /\ LinksFit(moves, links) /\ CostsOK(moves) /\ SharesOK
    BY ValueInvIs DEF CostInv
  <1>2. IsFiniteSet(DOMAIN moves)
    BY <1>1, LengthIs, FS_Interval
  <1>3. \A i \in DOMAIN moves : Units(i) \in Nat \ {0}
    BY <1>1, RowsTyped DEF RowOK, Units, Absolute
  <1> QED
    BY <1>1, <1>2, <1>3, LandedCostAssumption DEF CostInv, ValueInv, TypeOK, LinksFit

LEMMA ChangeInt ==
  ASSUME CostInv, NEW old \in ReplayState, NEW new \in ReplayState, NEW i \in DOMAIN moves
  PROVE  Change(old, new, i) \in Int
  <1>1. /\ new.unit[i] \in Nat /\ old.unit[i] \in Nat /\ new.relief[i] \in Nat /\ old.relief[i] \in Nat
        /\ Units(i) \in Nat
    BY CostInvIs DEF ReplayState
  <1>2. PICK n \in Int : n = IF Is(i, "SALES_RETURN") THEN Units(i) * (new.unit[i] - old.unit[i])
                             ELSE new.relief[i] - old.relief[i]
    BY <1>1
  <1>3. HalfUp(n, Cent) \in Int
    BY HalfUpIs, StockAssumption
  <1> QED
    BY <1>2, <1>3 DEF Change

LEMMA ClaimInt ==
  ASSUME CostInv, NEW old \in ReplayState, NEW new \in ReplayState, NEW i \in DOMAIN moves,
         Is(i, "PURCHASE_RETURN")
  PROVE  ClaimChange(old, new, i) \in Int
  <1>1. moves[i].src \in DOMAIN moves
    BY CostInvIs DEF ListInv, RowsStand, Kind, ReturnTypes, Is
  <1>2. /\ new.unit[moves[i].src] \in Nat /\ old.unit[moves[i].src] \in Nat /\ Units(i) \in Nat
    BY <1>1, CostInvIs DEF ReplayState
  <1>3. PICK n \in Int : n = Units(i) * (new.unit[moves[i].src] - old.unit[moves[i].src])
    BY <1>2
  <1>4. HalfUp(n, Cent) \in Int
    BY HalfUpIs, StockAssumption
  <1> QED
    BY <1>3, <1>4 DEF ClaimChange

LEMMA LinkShareNat ==
  ASSUME CostInv, NEW d \in DOMAIN costs, NEW l \in Linked(d)
  PROVE  LinkShare(d, l) \in Nat
  <1>1. l \in Link /\ l.receipt \in DOMAIN costs[d].share
    BY CostInvIs DEF Linked, Receipts
  <1>2. l.receipt \in DOMAIN moves /\ costs[d].share[l.receipt] \in Nat
    BY <1>1, CostInvIs DEF DocsFit, DocFits, ReceiptIn
  <1>3. PICK q \in Nat \ {0} : q = Units(l.receipt)
    BY <1>2, CostInvIs
  <1>4. PICK a \in Nat : a = Steps(costs[d].share[l.receipt])
    BY <1>2, StockAssumption DEF Steps
  <1>5. PICK h \in Nat : h = HalfUp(a, q)
    BY HalfUpNat
  <1>6. PICK n \in Nat : n = l.quantity * h
    BY <1>1, ProductNat DEF Link
  <1>7. HalfUp(n, Cent) \in Nat
    BY HalfUpNat, StockAssumption
  <1> QED
    BY <1>3, <1>4, <1>5, <1>6, <1>7 DEF LinkShare

LEMMA MovementsSum ==
  ASSUME CostInv, NEW S, S \subseteq DOMAIN moves, NEW f, \A i \in S : f[i] \in Int
  PROVE  SumFunctionOnSet(f, S) \in Int
  <1>1. S \in SUBSET DOMAIN moves
    OBVIOUS
  <1>2. IsFiniteSet(S)
    BY <1>1, CostInvIs, FS_Subset
  <1> QED
    BY <1>2, SumInt DEF IntOn

LEMMA ChangesSum ==
  ASSUME CostInv, NEW old \in ReplayState, NEW new \in ReplayState, NEW S, S \subseteq DOMAIN moves
  PROVE  SumChanges(old, new, S) \in Int
  <1>1. PICK f : f = [i \in S |-> Change(old, new, i)]
    OBVIOUS
  <1>2. \A i \in S : f[i] \in Int
    BY <1>1, ChangeInt
  <1>3. SumFunctionOnSet(f, S) \in Int
    BY <1>2, MovementsSum
  <1> QED
    BY <1>1, <1>3 DEF SumChanges, SumOf

ShareSum(d, S) == SumFunctionOnSet([l \in S |-> LinkShare(d, l)], S)

LEMMA SharesSum ==
  ASSUME CostInv, NEW d \in DOMAIN costs, NEW S, S \subseteq Linked(d)
  PROVE  ShareSum(d, S) \in Nat
  <1>1. PICK f : f = [l \in S |-> LinkShare(d, l)]
    OBVIOUS
  <1>2. \A l \in S : f[l] \in Nat
    BY <1>1, LinkShareNat
  <1>3. IsFiniteSet(S)
    <2>1. S \in SUBSET links
      BY DEF Linked
    <2> QED
      BY <2>1, CostInvIs, FS_Subset
  <1>4. SumFunctionOnSet(f, S) \in Nat
    BY <1>2, <1>3, SumNat
  <1> QED
    BY <1>1, <1>4 DEF ShareSum

LEMMA AmountsSum ==
  ASSUME CostInv, NEW d \in DOMAIN costs, NEW S, S \subseteq Receipts(d)
  PROVE  SumOf(S, LAMBDA r : costs[d].share[r]) \in Int
  <1>1. PICK f : f = [r \in S |-> costs[d].share[r]]
    OBVIOUS
  <1>2. S \subseteq DOMAIN moves /\ \A r \in S : f[r] \in Int
    BY <1>1, CostInvIs DEF Receipts, DocsFit, DocFits, ReceiptIn
  <1>3. SumFunctionOnSet(f, S) \in Int
    BY <1>2, MovementsSum
  <1> QED
    BY <1>1, <1>3 DEF SumOf

LEMMA ResidualInt ==
  ASSUME CostInv, NEW d \in DOMAIN costs, NEW old \in ReplayState, NEW new \in ReplayState
  PROVE  Residual(old, new, d) \in Int /\ AmountOf(d) \in Int
  <1>1. AmountOf(d) \in Int
    BY AmountsSum DEF AmountOf
  <1>2. \A type : Changed(old, new, d, type) \subseteq DOMAIN moves
    BY DEF Changed
  <1>3. PICK c : c = [type \in InTypes \cup OutTypes |-> SumChanges(old, new, Changed(old, new, d, type))]
    OBVIOUS
  <1>4. \A type \in InTypes \cup OutTypes : c[type] \in Int
    BY <1>2, <1>3, ChangesSum
  <1>5. PICK s \in Int : s = ShareSum(d, Shared(d))
    <2>1. Shared(d) \subseteq Linked(d)
      BY DEF Shared
    <2> QED
      BY <2>1, SharesSum
  <1>6. PICK f : f = [w \in Warehouse |-> HalfUp(new.basis[w] - old.basis[w], Cent)]
    OBVIOUS
  <1>7. \A w \in Warehouse : f[w] \in Int
    <2> SUFFICES ASSUME NEW w \in Warehouse PROVE f[w] \in Int
      OBVIOUS
    <2>1. PICK n \in Int : n = new.basis[w] - old.basis[w]
      BY DEF ReplayState
    <2>2. HalfUp(n, Cent) \in Int
      BY HalfUpIs, StockAssumption
    <2> QED
      BY <1>6, <2>1, <2>2
  <1>8. PICK t \in Int : t = SumFunctionOnSet(f, Warehouse)
    BY <1>7, CostInvIs, SumInt DEF IntOn
  <1>9. Residual(old, new, d)
          = AmountOf(d) - (t + (s + c["SALES_ISSUE"] - c["SALES_RETURN"] + c["PURCHASE_RETURN"]))
    BY <1>3, <1>5, <1>6, <1>8 DEF Residual, SumOf, ShareSum, InTypes, OutTypes
  <1>10. c["SALES_ISSUE"] \in Int /\ c["SALES_RETURN"] \in Int /\ c["PURCHASE_RETURN"] \in Int
    BY <1>4 DEF InTypes, OutTypes
  <1> QED
    BY <1>1, <1>9, <1>10

LEMMA GainInt ==
  ASSUME CostInv, NEW d \in DOMAIN costs, NEW old \in ReplayState, NEW new \in ReplayState,
         NEW w \in Warehouse, NEW residual \in Int
  PROVE  InventoryGain(old, new, d, w, residual) \in Int
  <1>1. PICK c : c = [type \in InTypes \cup OutTypes |->
                        SumChanges(old, new, {i \in Changed(old, new, d, type) : moves[i].warehouse = w})]
    OBVIOUS
  <1>2. \A type : Changed(old, new, d, type) \subseteq DOMAIN moves
    BY DEF Changed
  <1>3. \A type \in InTypes \cup OutTypes : c[type] \in Int
    BY <1>1, <1>2, ChangesSum
  <1>4. PICK a \in Int : a = SumChanges(old, new, {i \in Changed(old, new, d, "TRANSFER_OUT") :
                                                     moves[i + 1].warehouse = w})
    BY <1>2, ChangesSum
  <1>5. PICK g \in Int : g = SumOf({r \in Receipts(d) : moves[r].warehouse = w}, LAMBDA r : costs[d].share[r])
    BY AmountsSum
  <1>5a. PICK S : S = {l \in Posted(d) : moves[l.issue].warehouse = w}
    OBVIOUS
  <1>6. PICK s \in Int : s = ShareSum(d, S)
    <2>1. S \subseteq Linked(d)
      BY <1>5a DEF Posted, Shared
    <2> QED
      BY <2>1, SharesSum
  <1>7. PICK e \in Int : e = IF moves[Min(Receipts(d))].warehouse = w THEN residual ELSE 0
    OBVIOUS
  <1>8. InventoryGain(old, new, d, w, residual)
          = g - s - c["SALES_ISSUE"] - c["PURCHASE_RETURN"] + c["SALES_RETURN"] - c["TRANSFER_OUT"] + a - e
    BY <1>1, <1>4, <1>5, <1>5a, <1>6, <1>7 DEF InventoryGain, SumOf, ShareSum, InTypes, OutTypes
  <1>9. /\ c["SALES_ISSUE"] \in Int /\ c["PURCHASE_RETURN"] \in Int
        /\ c["SALES_RETURN"] \in Int /\ c["TRANSFER_OUT"] \in Int
    BY <1>3 DEF InTypes, OutTypes
  <1> QED
    BY <1>8, <1>9

LEMMA JournalsInt ==
  ASSUME CostInv, NEW d \in DOMAIN costs, NEW old \in ReplayState, NEW new \in ReplayState
  PROVE  JournalsFit(JournalsOf(old, new, d))
  <1>1. PICK residual \in Int : residual = Residual(old, new, d)
    BY ResidualInt
  <1>2. PICK gain : gain = [w \in Warehouse |-> InventoryGain(old, new, d, w, residual)]
    OBVIOUS
  <1>3. \A w \in Warehouse : gain[w] \in Int
    BY <1>2, GainInt
  <1>4. PICK g \in Int : g = SumFunctionOnSet([w \in Warehouse |-> gain[w]], Warehouse)
    <2>1. PICK f : f = [w \in Warehouse |-> gain[w]]
      OBVIOUS
    <2>2. IntOn(f, Warehouse)
      BY <1>3, <2>1 DEF IntOn
    <2>3. SumFunctionOnSet(f, Warehouse) \in Int
      BY <2>2, CostInvIs, SumInt
    <2> QED
      BY <2>1, <2>3
  <1>5. PICK claims \in Int :
          claims = SumOf(Changed(old, new, d, "PURCHASE_RETURN"), LAMBDA i : ClaimChange(old, new, i))
    <2>1. PICK S : S = Changed(old, new, d, "PURCHASE_RETURN")
      OBVIOUS
    <2>2. PICK f : f = [i \in S |-> ClaimChange(old, new, i)]
      OBVIOUS
    <2>3. S \subseteq DOMAIN moves /\ \A i \in S : Is(i, "PURCHASE_RETURN")
      BY <2>1 DEF Changed
    <2>4. \A i \in S : f[i] \in Int
      BY <2>2, <2>3, ClaimInt
    <2>5. SumFunctionOnSet(f, S) \in Int
      BY <2>3, <2>4, MovementsSum
    <2> QED
      BY <2>1, <2>2, <2>5 DEF SumOf
  <1>6. PICK amount \in Int : amount = AmountOf(d)
    BY ResidualInt
  <1>7. JournalsOf(old, new, d) = [inventory |-> gain, payable |-> amount - claims, cogs |-> amount - claims - g]
    BY <1>1, <1>2, <1>4, <1>5, <1>6 DEF JournalsOf, SumOf
  <1>8. gain \in [Warehouse -> Int]
    BY <1>2, <1>3
  <1> QED
    BY <1>7, <1>8 DEF JournalsFit

\* Booking a journal.
LEMMA BookInt ==
  ASSUME TypedBooks(inventory, cogs, payable), NEW j, JournalsFit(j), NEW sign \in {1, -1}, Book(j, sign)
  PROVE  TypedBooks(inventory', cogs', payable')
  BY DEF TypedBooks, JournalsFit, Book

\* The replays a posting compares.
LEMMA ReplaysAre ==
  ASSUME CostInv, NEW D \in SUBSET DOMAIN costs
  PROVE  Extras(D) /\ LayeredReplay(D) \in ReplayState
  BY CostInvIs, ExtraNat, RevaluedIs

KeepsStock == moves' = moves /\ links' = links /\ settled' = settled

LEMMA DraftStep ==
  ASSUME CostInv, NEW rs, NEW weights, NEW amount, CreateDraft(rs, weights, amount),
         DOMAIN rs = 1 .. Len(weights), Len(weights) \in Nat \ {0}, IsFiniteSet(ToSet(rs)),
         \A k \in DOMAIN rs : rs[k] \in DOMAIN moves /\ Shares(amount, weights)[k] \in Int
  PROVE  /\ KeepsStock /\ accounts' = accounts /\ DocsFit(moves', costs')
         /\ \E c : Longer(costs, costs', c) /\ c.status = "DRAFT" /\ DocFits(moves, c)
  <1>1. PICK shares : shares = Shares(amount, weights)
    OBVIOUS
  <1>2. PICK share : share = [r \in ToSet(rs) |-> shares[CHOOSE k \in DOMAIN rs : rs[k] = r]]
    OBVIOUS
  <1>3. PICK c : c = [status |-> "DRAFT", share |-> share,
                      posted |-> NoJournals, residual |-> 0, at |-> 0, turn |-> 0]
    OBVIOUS
  <1>4. /\ costs' = Append(costs, c) /\ KeepsStock /\ accounts' = accounts
        /\ \A k \in DOMAIN rs : Original(rs[k], "PURCHASE_RECEIPT") /\ shares[k] > 0
    BY <1>1, <1>2, <1>3 DEF CreateDraft, KeepsStock
  <1>5. PICK n \in Nat \ {0} : n = Len(weights)
    OBVIOUS
  <1>6. DOMAIN rs = 1 .. n
    BY <1>5
  <1>7. ToSet(rs) = {rs[k] : k \in 1 .. n}
    BY <1>6 DEF ToSet
  <1>9. 1 \in 1 .. n
    BY <1>5
  <1>10. DOMAIN share = ToSet(rs) /\ ToSet(rs) # {}
    BY <1>2, <1>7, <1>9
  <1>11. ASSUME NEW r \in ToSet(rs) PROVE ReceiptIn(moves, r) /\ share[r] \in Nat \ {0}
    <2>1. PICK k : k = CHOOSE m \in DOMAIN rs : rs[m] = r
      OBVIOUS
    <2>2. k \in DOMAIN rs /\ rs[k] = r
      <3>1. \E m \in DOMAIN rs : rs[m] = r
        BY <1>6, <1>7
      <3> QED
        BY <2>1, <3>1, Zenon
    <2>3. share[r] = shares[k]
      BY <1>2, <2>1
    <2> QED
      BY <1>1, <1>4, <2>2, <2>3 DEF ReceiptIn, Original, Is
  <1>12. JournalsFit(NoJournals)
    BY DEF JournalsFit, NoJournals
  <1>13. DocFits(moves, c)
    BY <1>3, <1>10, <1>11, <1>12 DEF DocFits, IsDocument
  <1>14. DocsFit(moves, Append(costs, c)) /\ Longer(costs, Append(costs, c), c)
    BY <1>13, DocsAppend DEF CostInv
  <1>15. moves' = moves /\ c.status = "DRAFT"
    BY <1>3, <1>4 DEF KeepsStock
  <1>16. DocsFit(moves', costs')
    <2>1. PICK M : M = moves
      OBVIOUS
    <2>2. PICK C : C = Append(costs, c)
      OBVIOUS
    <2>3. DocsFit(M, C) /\ moves' = M /\ costs' = C
      BY <1>4, <1>14, <1>15, <2>1, <2>2
    <2> QED
      BY <2>3
  <1> QED
    BY <1>4, <1>13, <1>14, <1>15, <1>16

\* A document's posting and its reversal.
LEMMA PostStep ==
  ASSUME CostInv, NEW d \in DOMAIN costs, PostLandedCost(d)
  PROVE  KeepsStock /\ TypedBooks(inventory', cogs', payable') /\ DocsFit(moves', costs')
  <1>1. PICK old : old = LayeredReplay(Active)
    OBVIOUS
  <1>2. PICK new : new = LayeredReplay(Active \cup {d})
    OBVIOUS
  <1>3. Active \in SUBSET DOMAIN costs /\ Active \cup {d} \in SUBSET DOMAIN costs
    BY DEF Active
  <1>4. old \in ReplayState /\ new \in ReplayState
    BY <1>1, <1>2, <1>3, ReplaysAre
  <1>5. PICK journals : journals = JournalsOf(old, new, d)
    OBVIOUS
  <1>6. PICK residual : residual = Residual(old, new, d)
    OBVIOUS
  <1>7. JournalsFit(journals) /\ residual \in Int
    BY <1>4, <1>5, <1>6, JournalsInt, ResidualInt
  <1>8. PICK c : c = [costs[d] EXCEPT !.status = "POSTED", !.posted = journals, !.residual = residual,
                                      !.at = Len(moves), !.turn = Turn + 1]
    OBVIOUS
  <1>9. Book(journals, 1) /\ KeepsStock /\ costs' = [costs EXCEPT ![d] = c]
    <2>1. /\ Book(journals, 1) /\ KeepsStock
          /\ costs' = [costs EXCEPT ![d].status = "POSTED", ![d].posted = journals,
                                    ![d].residual = residual, ![d].at = Len(moves), ![d].turn = Turn + 1]
      BY <1>1, <1>2, <1>5, <1>6 DEF PostLandedCost, KeepsStock
    <2> QED
      BY <1>8, <2>1
  <1>10. DocsFit(moves, costs) /\ DocFits(moves, costs[d])
    BY CostInvIs DEF DocsFit
  <1>11. DocFits(moves, c)
    <2>1. PICK b : b = costs[d]
      OBVIOUS
    <2>2. DocFits(moves, b) /\ b = [status |-> b.status, share |-> b.share, posted |-> b.posted,
                                    residual |-> b.residual, at |-> b.at, turn |-> b.turn]
      BY <1>10, <2>1 DEF DocFits, IsDocument
    <2>3. c = [status |-> "POSTED", share |-> b.share, posted |-> journals,
               residual |-> residual, at |-> Len(moves), turn |-> Turn + 1]
      BY <1>8, <2>1, <2>2
    <2> QED
      BY <1>7, <2>2, <2>3 DEF DocFits, IsDocument
  <1>12. DocsFit(moves, [costs EXCEPT ![d] = c])
    BY <1>10, <1>11, DocsChange
  <1>13. TypedBooks(inventory', cogs', payable')
    <2>1. TypedBooks(inventory, cogs, payable) /\ 1 \in {1, -1}
      BY ValueInvIs DEF CostInv
    <2> QED
      BY <1>7, <1>9, <2>1, BookInt
  <1> QED
    BY <1>9, <1>12, <1>13 DEF KeepsStock

LEMMA ReverseStep ==
  ASSUME CostInv, NEW d \in DOMAIN costs, ReverseLandedCost(d)
  PROVE  KeepsStock /\ TypedBooks(inventory', cogs', payable') /\ DocsFit(moves', costs')
  <1>1. PICK b : b = costs[d]
    OBVIOUS
  <1>2. DocsFit(moves, costs) /\ DocFits(moves, b)
    BY <1>1, CostInvIs DEF DocsFit
  <1>3. PICK c : c = [b EXCEPT !.status = "REVERSED"]
    OBVIOUS
  <1>4. Book(b.posted, -1) /\ KeepsStock /\ costs' = [costs EXCEPT ![d] = c]
    BY <1>1, <1>3 DEF ReverseLandedCost, KeepsStock
  <1>5. DocFits(moves, c)
    <2>1. b = [status |-> b.status, share |-> b.share, posted |-> b.posted,
               residual |-> b.residual, at |-> b.at, turn |-> b.turn]
      BY <1>2 DEF DocFits, IsDocument
    <2>2. c = [status |-> "REVERSED", share |-> b.share, posted |-> b.posted,
               residual |-> b.residual, at |-> b.at, turn |-> b.turn]
      BY <1>3, <2>1
    <2> QED
      BY <1>2, <2>2 DEF DocFits, IsDocument
  <1>6. DocsFit(moves, [costs EXCEPT ![d] = c])
    BY <1>2, <1>5, DocsChange
  <1>7. TypedBooks(inventory', cogs', payable')
    <2>1. TypedBooks(inventory, cogs, payable) /\ -1 \in {1, -1}
      BY ValueInvIs DEF CostInv
    <2>2. JournalsFit(b.posted)
      BY <1>2 DEF DocFits
    <2> QED
      BY <1>4, <2>1, <2>2, BookInt
  <1> QED
    BY <1>4, <1>6, <1>7 DEF KeepsStock

\* Drafts over one receipt and over two.
LEMMA OneDraft ==
  ASSUME CostInv, NEW r \in DOMAIN moves, NEW amount \in Amount, CreateDraft(<<r>>, << 1 >>, amount)
  PROVE  KeepsStock /\ accounts' = accounts /\ DocsFit(moves', costs')
  <1>1. amount \in Nat
    BY LandedCostAssumption
  <1>2. PICK rs : rs = <<r>>
    OBVIOUS
  <1>3. PICK weights : weights = << 1 >>
    OBVIOUS
  <1>4. DOMAIN rs = 1 .. Len(weights) /\ Len(weights) = 1 /\ ToSet(rs) = {r} /\ rs[1] = r
    BY <1>2, <1>3 DEF ToSet
  <1>5. \A k \in 1 .. 1 : Shares(amount, weights)[k] \in Int
    BY <1>1, <1>3, OneShare
  <1>6. \A k \in DOMAIN rs : rs[k] \in DOMAIN moves /\ Shares(amount, weights)[k] \in Int
    BY <1>4, <1>5
  <1>7. CreateDraft(rs, weights, amount)
    BY <1>2, <1>3
  <1>8. IsFiniteSet(ToSet(rs))
    BY <1>4, FS_Singleton
  <1>9. DOMAIN rs = 1 .. Len(weights) /\ Len(weights) \in Nat \ {0}
    BY <1>4
  <1> QED
    BY <1>6, <1>7, <1>8, <1>9, DraftStep

LEMMA TwoDraft ==
  ASSUME CostInv, NEW r \in DOMAIN moves, NEW s \in DOMAIN moves, NEW amount \in Amount,
         NEW v \in Weight, NEW w \in Weight, CreateDraft(<<r, s>>, <<v, w>>, amount)
  PROVE  KeepsStock /\ accounts' = accounts /\ DocsFit(moves', costs')
  <1>1. amount \in Nat /\ v \in Nat \ {0} /\ w \in Nat \ {0}
    BY LandedCostAssumption
  <1>2. PICK rs : rs = <<r, s>>
    OBVIOUS
  <1>3. PICK weights : weights = <<v, w>>
    OBVIOUS
  <1>4. DOMAIN rs = 1 .. Len(weights) /\ Len(weights) = 2 /\ ToSet(rs) = {r} \cup {s} /\ rs[1] = r /\ rs[2] = s
    BY <1>2, <1>3 DEF ToSet
  <1>5. \A k \in 1 .. 2 : Shares(amount, weights)[k] \in Int
    BY <1>1, <1>3, TwoShares
  <1>6. \A k \in DOMAIN rs : rs[k] \in DOMAIN moves /\ Shares(amount, weights)[k] \in Int
    BY <1>4, <1>5
  <1>7. CreateDraft(rs, weights, amount)
    BY <1>2, <1>3
  <1>8. IsFiniteSet(ToSet(rs))
    <2>1. IsFiniteSet({r}) /\ IsFiniteSet({s})
      BY FS_Singleton
    <2>2. IsFiniteSet({r} \cup {s})
      BY <2>1, FS_Union
    <2> QED
      BY <1>4, <2>2
  <1>9. DOMAIN rs = 1 .. Len(weights) /\ Len(weights) \in Nat \ {0}
    BY <1>4
  <1> QED
    BY <1>6, <1>7, <1>8, <1>9, DraftStep

\* What a reversal finds before it books anything changes no stock and no
\* document.
BookStep ==
  \/ \E r \in DOMAIN moves, amount \in Amount : CreateDraft(<<r>>, <<1>>, amount)
  \/ \E r, s \in DOMAIN moves, amount \in Amount, v, w \in Weight :
       r # s /\ CreateDraft(<<r, s>>, <<v, w>>, amount)
  \/ \E d \in DOMAIN costs : PostLandedCost(d) \/ ReverseLandedCost(d)

LEMMA StepCases ==
  ASSUME [CostNext]_costVars
  PROVE  BookStep \/ [Next]_vars
  BY DEF CostNext, CostStep, BookStep, BeginReverse, costVars, Next

LEMMA BookStepIs ==
  ASSUME CostInv, BookStep
  PROVE  KeepsStock /\ TypedBooks(inventory', cogs', payable') /\ DocsFit(moves', costs')
  <1>1. accounts' = accounts => TypedBooks(inventory', cogs', payable')
    <2>1. TypedBooks(inventory, cogs, payable)
      BY ValueInvIs DEF CostInv
    <2> QED
      BY <2>1 DEF accounts
  <1> QED
    BY <1>1, OneDraft, TwoDraft, PostStep, ReverseStep DEF BookStep

\* Movements are only added.
LEMMA MovesStay ==
  ASSUME ListInv(moves), [Next]_vars
  PROVE  DOMAIN moves \subseteq DOMAIN moves' /\ \A i \in DOMAIN moves : moves'[i] = moves[i]
  <1>1. CASE Written
    BY <1>1, Domains DEF Written
  <1>2. CASE WrittenTwo
    <2>1. PICK N, a, b : Longer(moves, N, a) /\ Longer(N, moves', b)
      BY <1>2 DEF WrittenTwo
    <2>2. DOMAIN moves \subseteq DOMAIN N /\ \A i \in DOMAIN moves : N[i] = moves[i]
      BY <2>1, Domains
    <2>3. PICK L : L = moves'
      OBVIOUS
    <2>4. DOMAIN N \subseteq DOMAIN L /\ \A i \in DOMAIN N : L[i] = N[i]
      <3>1. Longer(N, L, b)
        BY <2>1, <2>3
      <3> QED
        BY <3>1, Domains
    <2> QED
      BY <2>2, <2>3, <2>4
  <1>3. CASE Bought
    BY <1>3, Domains DEF Bought, Received
  <1>4. CASE UNCHANGED <<moves, links>>
    BY <1>4
  <1>5. Bought \/ Written \/ WrittenTwo \/ UNCHANGED <<moves, links>>
    BY StepWrites
  <1> QED
    BY <1>1, <1>2, <1>3, <1>4, <1>5

LEMMA CostInvStep == CostInv /\ [CostNext]_costVars => CostInv'
  <1> SUFFICES ASSUME CostInv, [CostNext]_costVars PROVE CostInv'
    OBVIOUS
  <1>1. CASE BookStep
    <2>1. KeepsStock /\ TypedBooks(inventory', cogs', payable') /\ DocsFit(moves', costs')
      BY <1>1, BookStepIs
    <2>2. TypedMoves(moves) /\ links \subseteq Link /\ settled \subseteq DOMAIN moves
      BY TypeOKIs DEF CostInv, ValueInv
    <2>3. TypeOK'
      BY <2>1, <2>2, TypeOKNext DEF KeepsStock
    <2>4. StockInv'
      BY <2>1 DEF KeepsStock, CostInv, ValueInv, StockInv
    <2>5. SharesOK'
      BY <2>1, DocsShares DEF SharesOK
    <2> QED
      BY <2>1, <2>3, <2>4, <2>5 DEF CostInv, ValueInv
  <1>2. CASE [Next]_vars
    <2>1. ValueInv' /\ costs' = costs
      BY <1>2, ValueStep DEF CostInv
    <2>2. ListInv(moves) /\ DocsFit(moves, costs)
      BY CostInvIs
    <2>3. DocsFit(moves', costs)
      BY <1>2, <2>2, MovesStay, DocsKeep
    <2> QED
      BY <2>1, <2>3 DEF CostInv
  <1> QED
    BY <1>1, <1>2, StepCases

LEMMA CostInvInit == Init => CostInv
  BY ValueInit DEF CostInv, DocsFit, IsList

LEMMA CostInvHolds == CostSpec => []CostInv
  BY CostInvInit, CostInvStep, PTL DEF CostSpec, CostInit

\* The types hold with landed costs too: what a posting books are integers,
\* and its receipts are purchases with shares above zero.
THEOREM LandedCostTypeOK == CostSpec => []TypeOK
  BY CostInvHolds, PTL DEF CostInv, ValueInv

\* What Stock promises of its movements holds with landed costs posted and
\* reversed among them: returns stay within their sources, goods that arrive at
\* or below zero stock set the average, and the average lies between the costs.
THEOREM MovementsHoldWithCosts ==
  CostSpec => [](ReturnsWithinSource /\ CyclesStartClean /\ AverageIsBetweenCosts)
  <1>1. CostInv => ReturnsWithinSource /\ CyclesStartClean /\ AverageIsBetweenCosts
    BY ValueInvIs, ReturnsAreWithin, CyclesAreClean, AveragesHold DEF CostInv, ValueInv
  <1> QED
    BY <1>1, CostInvHolds, PTL
-----------------------------------------------------------------------------
(* The steps that keep a history regular.                                   *)
\* An issue, and what its journal adds to the account of its warehouse.
IssueRow(row, type, q, cost, v) ==
  /\ q \in Nat \ {0} /\ cost \in Nat /\ cost \in IssueCosts(row.warehouse, q) /\ row.warehouse \in Warehouse
  /\ Made(row, type, row.warehouse, q, cost, Below(row.warehouse, q), 0)
  /\ v = -Value(q, cost) /\ v \in Int /\ ~Rough(row)

\* Goods that come in by other ways than a purchase.
ArrivalRow(row, type, q, cost, v) ==
  /\ q \in Nat \ {0} /\ cost \in Nat /\ row.warehouse \in Warehouse
  /\ \E temporary, src :
       /\ Made(row, type, row.warehouse, q, cost, temporary, src)
       /\ type = "SALES_RETURN" =>
            /\ src \in DOMAIN moves /\ moves[src].type = "SALES_ISSUE" /\ moves[src].src = 0
            /\ cost = moves[src].cost
       /\ type = "TRANSFER_IN" => src = Len(moves) + 1
  /\ v = Value(q, cost) /\ v \in Int /\ ~Rough(row)

OneWritten(row, v) ==
  /\ OneRow(moves, moves', links, row) /\ links' = links
  /\ inventory' = [inventory EXCEPT ![row.warehouse] = @ + v]

TwoWritten(N, a, b, s, t) ==
  /\ OneRow(moves, N, links, a) /\ OneRow(N, moves', links, b) /\ links' = links
  /\ a.warehouse # b.warehouse
  /\ inventory' = [inventory EXCEPT ![a.warehouse] = @ + s, ![b.warehouse] = @ + t]

Rests == UNCHANGED <<moves, links, inventory>>

Issues ==
  \E row, q, cost, v : OneWritten(row, v) /\ IssueRow(row, "SALES_ISSUE", q, cost, v)

Admits ==
  \E row, q, cost, v, type :
    OneWritten(row, v) /\ type \in {"OPENING", "SALES_RETURN"} /\ ArrivalRow(row, type, q, cost, v)

IssuesTwo ==
  \E N, a, b, p, q, c, d, s, t :
    /\ TwoWritten(N, a, b, s, t)
    /\ IssueRow(a, "SALES_ISSUE", p, c, s) /\ IssueRow(b, "SALES_ISSUE", q, d, t)

Transfers ==
  \E N, a, b, q, c, s, t :
    /\ TwoWritten(N, a, b, s, t)
    /\ IssueRow(a, "TRANSFER_OUT", q, c, s) /\ ArrivalRow(b, "TRANSFER_IN", q, c, t)

Buys ==
  \E w \in Warehouse, q \in Quantity, total \in Total, d \in Day : Purchase(w, q, total, d)

RegularStep == Rests \/ Issues \/ Admits \/ IssuesTwo \/ Transfers \/ Buys

\* One row was written, and it is not rough.
LEMMA RowWritten ==
  ASSUME ValueInv, RegularIn(moves'), NEW type, NEW w \in Warehouse, NEW q \in Nat, q # 0, NEW d, NEW cost \in Nat,
         NEW temporary, NEW src, Move(type, w, q, d, cost, temporary, src)
  PROVE  \E row : /\ OneRow(moves, moves', links, row) /\ Made(row, type, w, q, cost, temporary, src)
                  /\ ~Rough(row) /\ row.warehouse = w
  <1>1. PICK row : OneRow(moves, moves', links, row) /\ Made(row, type, w, q, cost, temporary, src)
    BY MoveRow
  <1>2. PICK N : N = moves'
    OBVIOUS
  <1>3. ~Rough(row)
    BY <1>1, <1>2, RegularBefore DEF OneRow
  <1> QED
    BY <1>1, <1>3 DEF Made

LEMMA OpenIsRegular ==
  ASSUME ValueInv, RegularIn(moves'), NEW w \in Warehouse, NEW q \in Quantity, NEW d \in Day, NEW cost \in Cost,
         OpenStock(w, q, cost, d) \/ AdjustIn(w, q, cost, d)
  PROVE  Admits
  <1>1. q \in Nat /\ q # 0 /\ cost \in Nat
    BY DataInputs
  <1>2. ~AdjustIn(w, q, cost, d)
    <2> SUFFICES ASSUME AdjustIn(w, q, cost, d) PROVE FALSE
      OBVIOUS
    <2>1. PICK type, temporary, src : /\ type = "ADJUSTMENT_IN" /\ temporary = FALSE /\ src = 0
                                      /\ Move(type, w, q, d, cost, temporary, src)
      BY DEF AdjustIn
    <2>2. PICK row : Made(row, type, w, q, cost, temporary, src) /\ ~Rough(row)
      BY <1>1, <2>1, RowWritten
    <2> QED
      BY <2>1, <2>2 DEF Made, Rough
  <1>3. PICK v \in Int : v = Value(q, cost)
    BY <1>1, ValueNear
  <1>4. PICK temporary : temporary = FALSE /\ Move("OPENING", w, q, d, cost, temporary, 0)
    BY <1>2 DEF OpenStock
  <1>4a. links' = links /\ inventory' = [inventory EXCEPT ![w] = @ + v]
    BY <1>2, <1>3 DEF OpenStock, Unlinked
  <1>5. PICK row : /\ OneRow(moves, moves', links, row) /\ Made(row, "OPENING", w, q, cost, temporary, 0)
                   /\ ~Rough(row) /\ row.warehouse = w
    BY <1>1, <1>4, RowWritten
  <1>6. OneWritten(row, v)
    BY <1>4a, <1>5 DEF OneWritten
  <1>7. ArrivalRow(row, "OPENING", q, cost, v)
    BY <1>1, <1>3, <1>5 DEF ArrivalRow
  <1> QED
    BY <1>6, <1>7 DEF Admits

LEMMA SellIsRegular ==
  ASSUME ValueInv, RegularIn(moves'), NEW w \in Warehouse, NEW q \in Quantity, NEW d \in Day, NEW cost,
         Sell(w, q, d, cost) \/ \E type \in {"ADJUSTMENT_OUT", "SHORTAGE"} : TakeOut(type, w, q, d, cost)
  PROVE  Issues
  <1>1. q \in Nat /\ q # 0
    BY DataInputs
  <1>2. cost \in IssueCosts(w, q) /\ cost \in Nat
    BY <1>1, IssueCostIs DEF Sell, TakeOut
  <1>3. Sell(w, q, d, cost)
    <2> SUFFICES ASSUME NEW type \in {"ADJUSTMENT_OUT", "SHORTAGE"}, TakeOut(type, w, q, d, cost) PROVE FALSE
      OBVIOUS
    <2>1. PICK t : t = Below(w, q)
      OBVIOUS
    <2>2. Move(type, w, q, d, cost, t, 0)
      BY <2>1 DEF TakeOut
    <2>3. PICK row : Made(row, type, w, q, cost, t, 0) /\ ~Rough(row)
      BY <1>1, <1>2, <2>2, RowWritten
    <2> QED
      BY <2>3 DEF Made, Rough
  <1>4. PICK h \in Int : h = Value(q, cost)
    BY <1>1, <1>2, ValueNear
  <1>5. PICK v \in Int : v = -h
    OBVIOUS
  <1>6. /\ Move("SALES_ISSUE", w, q, d, cost, Below(w, q), 0) /\ links' = links
        /\ inventory' = [inventory EXCEPT ![w] = @ + v]
    <2>1. inventory' = [inventory EXCEPT ![w] = @ - h]
      BY <1>3, <1>4 DEF Sell, ToCogs
    <2>2. inventory[w] \in Int
      BY ListFits
    <2>3. inventory[w] - h = inventory[w] + v
      BY <1>5, <2>2
    <2> QED
      BY <1>3, <2>1, <2>3 DEF Sell, Unlinked
  <1>7. PICK row : /\ OneRow(moves, moves', links, row)
                   /\ Made(row, "SALES_ISSUE", w, q, cost, Below(w, q), 0)
                   /\ ~Rough(row) /\ row.warehouse = w
    BY <1>1, <1>2, <1>6, RowWritten
  <1>8. OneWritten(row, v)
    BY <1>6, <1>7 DEF OneWritten
  <1>9. IssueRow(row, "SALES_ISSUE", q, cost, v)
    BY <1>1, <1>2, <1>4, <1>5, <1>7 DEF IssueRow
  <1> QED
    BY <1>8, <1>9 DEF Issues

LEMMA ReturnIsRegular ==
  ASSUME ValueInv, RegularIn(moves'), NEW i \in DOMAIN moves, NEW q \in Quantity, NEW d \in Day,
         ReturnPurchase(i, q, d) \/ ReturnSale(i, q, d)
  PROVE  Admits
  <1>1. q \in Nat /\ q # 0
    BY DataInputs
  <1>2. PICK w \in Warehouse : w = moves[i].warehouse
    BY SourceTyped
  <1>3. PICK cost \in Nat : cost = moves[i].cost
    BY SourceTyped
  <1>4. PICK temporary : temporary = moves[i].temporary
    OBVIOUS
  <1>5. PICK v \in Int : v = Value(q, cost)
    BY <1>1, ValueNear
  <1>6. ReturnSale(i, q, d)
    <2> SUFFICES ASSUME ReturnPurchase(i, q, d) PROVE FALSE
      OBVIOUS
    <2>1. Move("PURCHASE_RETURN", w, q, d, cost, FALSE, i)
      BY <1>2, <1>3 DEF ReturnPurchase
    <2> QED
      BY <1>1, <2>1, RowWritten DEF Made, Rough
  <1>7. /\ Move("SALES_RETURN", w, q, d, cost, temporary, i) /\ links' = links
        /\ inventory' = [inventory EXCEPT ![w] = @ + v]
    <2>1. inventory' = [inventory EXCEPT ![w] = @ - (-v)]
      BY <1>2, <1>3, <1>5, <1>6 DEF ReturnSale, ToCogs
    <2>2. inventory[w] \in Int
      BY ListFits
    <2>3. inventory[w] - (-v) = inventory[w] + v
      BY <2>2
    <2> QED
      BY <1>2, <1>3, <1>4, <1>6, <2>1, <2>3 DEF ReturnSale, Unlinked
  <1>8. PICK row : /\ OneRow(moves, moves', links, row)
                   /\ Made(row, "SALES_RETURN", w, q, cost, temporary, i)
                   /\ ~Rough(row) /\ row.warehouse = w
    BY <1>1, <1>7, RowWritten
  <1>9. OneWritten(row, v)
    BY <1>7, <1>8 DEF OneWritten
  <1>10. ArrivalRow(row, "SALES_RETURN", q, cost, v)
    <2>1. moves[i].type = "SALES_ISSUE" /\ moves[i].src = 0
      BY <1>6 DEF ReturnSale, Original, Is
    <2> QED
      BY <1>1, <1>3, <1>5, <1>8, <2>1 DEF ArrivalRow
  <1> QED
    BY <1>9, <1>10 DEF Admits

LEMMA UndoIsRough ==
  ASSUME ValueInv, NEW i \in DOMAIN moves,
         ReversePurchaseReturn(i) \/ \E d \in Day : ReverseSalesReturn(i, d)
  PROVE  ~RegularIn(moves')
  <1> SUFFICES ASSUME RegularIn(moves') PROVE FALSE
    OBVIOUS
  <1>1. Units(i) \in Nat /\ Units(i) # 0 /\ moves[i].cost \in Nat /\ i # 0
    BY SourceTyped
  <1>2. PICK w \in Warehouse : w = moves[i].warehouse
    BY SourceTyped
  <1>3. ASSUME NEW d \in Day, ReverseSalesReturn(i, d) PROVE FALSE
    <2>1. PICK t : t = moves[i].temporary
      OBVIOUS
    <2>2. PICK q, cost \in Nat : q = Units(i) /\ q # 0 /\ cost = moves[i].cost
      BY <1>1
    <2>3. Move("SALES_ISSUE", w, q, d, cost, t, i)
      BY <1>2, <1>3, <2>1, <2>2 DEF ReverseSalesReturn
    <2>4. PICK row : Made(row, "SALES_ISSUE", w, q, cost, t, i) /\ ~Rough(row)
      BY <2>2, <2>3, RowWritten
    <2> QED
      BY <1>1, <2>4 DEF Made, Rough
  <1>4. ASSUME ReversePurchaseReturn(i) PROVE FALSE
    <2>1. Move("PURCHASE_RECEIPT", w, Units(i), moves[i].day, moves[i].cost, FALSE, i)
      BY <1>2, <1>4 DEF ReversePurchaseReturn
    <2>2. PICK row : OneRow(moves, moves', links, row)
      BY <1>1, <2>1, MoveRow
    <2>3. PICK M : M = moves
      OBVIOUS
    <2>4. PICK N : N = moves'
      OBVIOUS
    <2>5. Longer(M, N, row) /\ RegularIn(N)
      BY <2>2, <2>3, <2>4 DEF OneRow
    <2>6. RegularIn(M)
      BY <2>5, RegularBefore
    <2> QED
      BY <1>4, <2>3, <2>6 DEF RegularIn, Rough, ReversePurchaseReturn, Is
  <1> QED
    BY <1>3, <1>4
\* Two rows were written, and neither is rough.
LEMMA TwoWritesRegular ==
  ASSUME ValueInv, RegularIn(moves'), NEW a, NEW b, RowFits(a), RowFits(b), moves' = moves \o <<a, b>>
  PROVE  /\ ~Rough(a) /\ ~Rough(b) /\ RegularIn(moves)
         /\ \E N : OneRow(moves, N, links, a) /\ OneRow(N, moves', links, b)
  BY TwoRegular, TwoRows

LEMMA SellFromTwoIsRegular ==
  ASSUME ValueInv, RegularIn(moves'), NEW v \in Warehouse, NEW w \in Warehouse,
         NEW p \in Quantity, NEW q \in Quantity,
         NEW d \in Day, NEW costV, NEW costW, SellFromTwo(v, w, p, q, d, costV, costW)
  PROVE  IssuesTwo
  <1>1. p \in Nat /\ p # 0 /\ q \in Nat /\ q # 0
    BY DataInputs
  <1>2. costV \in IssueCosts(v, p) /\ costW \in IssueCosts(w, q)
    BY DEF SellFromTwo
  <1>3. costV \in Nat
    BY <1>1, <1>2, IssueCostIs
  <1>3a. costW \in Nat
    BY <1>1, <1>2, IssueCostIs
  <1>4. PICK a : a = Row("SALES_ISSUE", v, p, d, costV, Below(v, p), 0)
    OBVIOUS
  <1>5. PICK b : b = Row("SALES_ISSUE", w, q, d, costW, Below(w, q), 0)
    OBVIOUS
  <1>6. /\ Made(a, "SALES_ISSUE", v, p, costV, Below(v, p), 0)
        /\ Made(b, "SALES_ISSUE", w, q, costW, Below(w, q), 0)
    BY <1>4, <1>5, RowMade
  <1>7. a.warehouse = v /\ b.warehouse = w
    BY <1>6 DEF Made
  <1>7a. RowFits(a)
    BY <1>1, <1>3, <1>6, MadeFits
  <1>7b. RowFits(b)
    BY <1>1, <1>3a, <1>6, MadeFits
  <1>8. moves' = moves \o <<a, b>> /\ links' = links /\ v # w
    BY <1>4, <1>5 DEF SellFromTwo, Unlinked
  <1>9. ~Rough(a) /\ ~Rough(b)
    BY <1>7a, <1>7b, <1>8, TwoWritesRegular
  <1>10. PICK N : OneRow(moves, N, links, a) /\ OneRow(N, moves', links, b)
    BY <1>7a, <1>7b, <1>8, TwoWritesRegular
  <1>11. PICK g \in Int : g = Value(p, costV)
    BY <1>1, <1>3, ValueNear
  <1>12. PICK h \in Int : h = Value(q, costW)
    BY <1>1, <1>3a, ValueNear
  <1>13. PICK s \in Int : s = -g
    OBVIOUS
  <1>14. PICK t \in Int : t = -h
    OBVIOUS
  <1>15. inventory' = [inventory EXCEPT ![v] = @ + s, ![w] = @ + t]
    <2>1. inventory \in [Warehouse -> Int]
      BY ValueInvIs DEF TypedBooks
    <2>4. inventory' = [inventory EXCEPT ![v] = @ - g, ![w] = @ - h]
      BY <1>11, <1>12 DEF SellFromTwo
    <2>5. inventory[v] - g = inventory[v] + s /\ inventory[w] - h = inventory[w] + t
      BY <1>13, <1>14, <2>1
    <2> QED
      BY <1>8, <2>1, <2>4, <2>5
  <1>16. TwoWritten(N, a, b, s, t)
    BY <1>7, <1>8, <1>10, <1>15 DEF TwoWritten
  <1>17. IssueRow(a, "SALES_ISSUE", p, costV, s)
    BY <1>1, <1>2, <1>3, <1>6, <1>7, <1>9, <1>11, <1>13 DEF IssueRow
  <1>18. IssueRow(b, "SALES_ISSUE", q, costW, t)
    BY <1>1, <1>2, <1>3a, <1>6, <1>7, <1>9, <1>12, <1>14 DEF IssueRow
  <1> QED
    BY <1>16, <1>17, <1>18 DEF IssuesTwo

LEMMA TransferIsRegular ==
  ASSUME ValueInv, RegularIn(moves'), NEW v \in Warehouse, NEW w \in Warehouse, NEW q \in Quantity,
         NEW d \in Day, NEW cost, NEW ref, Transfer(v, w, q, d, cost, ref)
  PROVE  Transfers
  <1>1. q \in Nat /\ q # 0
    BY DataInputs
  <1>2. cost \in IssueCosts(v, q)
    BY DEF Transfer
  <1>3. cost \in Nat
    BY <1>1, <1>2, IssueCostIs
  <1>4. PICK a : a = [Row("TRANSFER_OUT", v, q, d, cost, Below(v, q), 0) EXCEPT !.ref = ref]
    OBVIOUS
  <1>5. PICK b : b = [Row("TRANSFER_IN", w, q, d, cost, Below(v, q), Len(moves) + 1) EXCEPT !.ref = ref]
    OBVIOUS
  <1>6. /\ Made(a, "TRANSFER_OUT", v, q, cost, Below(v, q), 0)
        /\ Made(b, "TRANSFER_IN", w, q, cost, Below(v, q), Len(moves) + 1)
    BY <1>4, <1>5, RowMade
  <1>7. a.warehouse = v /\ b.warehouse = w
    BY <1>6 DEF Made
  <1>7a. RowFits(a)
    BY <1>1, <1>3, <1>6, MadeFits
  <1>7b. RowFits(b)
    BY <1>1, <1>3, <1>6, MadeFits
  <1>8. moves' = moves \o <<a, b>> /\ links' = links /\ v # w
    BY <1>4, <1>5 DEF Transfer, Unlinked
  <1>9. ~Rough(a) /\ ~Rough(b)
    BY <1>7a, <1>7b, <1>8, TwoWritesRegular
  <1>10. PICK N : OneRow(moves, N, links, a) /\ OneRow(N, moves', links, b)
    BY <1>7a, <1>7b, <1>8, TwoWritesRegular
  <1>11. PICK t \in Int : t = Value(q, cost)
    BY <1>1, <1>3, ValueNear
  <1>12. PICK s \in Int : s = -t
    OBVIOUS
  <1>13. inventory' = [inventory EXCEPT ![v] = @ + s, ![w] = @ + t]
    <2>1. inventory \in [Warehouse -> Int]
      BY ValueInvIs DEF TypedBooks
    <2>2. inventory' = [inventory EXCEPT ![v] = @ - t, ![w] = @ + t]
      BY <1>11 DEF Transfer
    <2>4. inventory[v] - t = inventory[v] + s
      BY <1>12, <2>1
    <2> QED
      BY <1>8, <2>1, <2>2, <2>4
  <1>14. TwoWritten(N, a, b, s, t)
    BY <1>7, <1>8, <1>10, <1>13 DEF TwoWritten
  <1>15. IssueRow(a, "TRANSFER_OUT", q, cost, s)
    BY <1>1, <1>2, <1>3, <1>6, <1>7, <1>9, <1>11, <1>12 DEF IssueRow
  <1>16. ArrivalRow(b, "TRANSFER_IN", q, cost, t)
    BY <1>1, <1>3, <1>6, <1>7, <1>9, <1>11 DEF ArrivalRow
  <1> QED
    BY <1>14, <1>15, <1>16 DEF Transfers

LEMMA RegularSteps ==
  ASSUME ValueInv, [Next]_vars, RegularIn(moves')
  PROVE  RegularStep
  <1>1. CASE InboundStep
    <2>1. PICK w \in Warehouse, q \in Quantity, d \in Day :
            \/ \E total \in Total : Purchase(w, q, total, d)
            \/ \E cost \in Cost : OpenStock(w, q, cost, d) \/ AdjustIn(w, q, cost, d)
      BY <1>1 DEF InboundStep
    <2>2. (\E total \in Total : Purchase(w, q, total, d)) => Buys
      BY DEF Buys
    <2> QED
      BY <2>1, <2>2, OpenIsRegular DEF RegularStep
  <1>2. CASE OutboundStep
    <2>1. PICK w \in Warehouse, q \in Quantity, d \in Day : \E cost \in IssueCosts(w, q) :
            \/ Sell(w, q, d, cost)
            \/ \E v \in Warehouse, p \in Quantity : \E other \in IssueCosts(v, p) :
                 SellFromTwo(w, v, q, p, d, cost, other)
            \/ \E v \in Warehouse, ref \in TransferNames : Transfer(w, v, q, d, cost, ref)
            \/ \E type \in {"ADJUSTMENT_OUT", "SHORTAGE"} : TakeOut(type, w, q, d, cost)
      BY <1>2 DEF OutboundStep
    <2> QED
      BY <2>1, SellIsRegular, SellFromTwoIsRegular, TransferIsRegular DEF RegularStep
  <1>3. CASE ReturnStep
    <2>1. PICK i \in DOMAIN moves :
            \/ \E q \in Quantity, d \in Day : ReturnPurchase(i, q, d) \/ ReturnSale(i, q, d)
            \/ \E d \in Day : ReverseSalesReturn(i, d)
            \/ ReversePurchaseReturn(i)
            \/ SettleShortage(i)
      BY <1>3 DEF ReturnStep
    <2>2. SettleShortage(i) => Rests
      BY DEF SettleShortage, Rests, accounts
    <2> QED
      BY <2>1, <2>2, ReturnIsRegular, UndoIsRough DEF RegularStep
  <1>4. CASE UNCHANGED vars
    BY <1>4 DEF vars, accounts, Rests, RegularStep
  <1> QED
    BY <1>1, <1>2, <1>3, <1>4 DEF Next, StockStep
-----------------------------------------------------------------------------
(* The history of a warehouse: its units before and after every movement,   *)
(* what each movement asked of them and what the receipts gave.             *)
UnitsTape(M, w, u) ==
  /\ u \in [0 .. Len(M) -> Int] /\ u[0] = 0
  /\ \A k \in 1 .. Len(M) : u[k] = UnitsNext(u[k - 1], M[k], w)

\* A regular row of a warehouse that had x units.
SoundRow(row, x) ==
  /\ row.quantity < 0 => IF Obliges(row, row.warehouse) THEN x <= 0 ELSE x + row.quantity >= 0
  /\ row.quantity > 0 => ~Obliges(row, row.warehouse) /\ (Receipt(row) \/ x >= 0)

Told(M, L, w, u) ==
  /\ UnitsTape(M, w, u)
  /\ OpenSum(M, L, w) = Over(-u[Len(M)])
  /\ \A k \in DOMAIN M :
       M[k].warehouse = w =>
         /\ SoundRow(M[k], u[k - 1])
         /\ Receipt(M[k]) => Taken(L, k) = Least(M[k].quantity, Over(-u[k - 1]))

\* A transfer is two movements in a row.
Paired(M) ==
  \A k \in DOMAIN M :
    /\ M[k].type = "TRANSFER_IN" =>
         /\ k - 1 \in DOMAIN M /\ M[k - 1].type = "TRANSFER_OUT"
         /\ M[k].src = k - 1 /\ M[k].quantity = -M[k - 1].quantity
    /\ M[k].type = "TRANSFER_OUT" => k + 1 \in DOMAIN M /\ M[k + 1].type = "TRANSFER_IN"

LinksHome(M, L) ==
  \A l \in L : Receipt(M[l.receipt]) /\ M[l.issue].warehouse = M[l.receipt].warehouse

AllTold(M, L) == \A w \in Warehouse : \E u : Told(M, L, w, u)

History(M, L) == RegularIn(M) => AllTold(M, L) /\ Paired(M) /\ LinksHome(M, L)

LEMMA UnitsAgree ==
  ASSUME NEW M, Len(M) \in Nat, NEW w, NEW u, NEW v, UnitsTape(M, w, u), UnitsTape(M, w, v)
  PROVE  \A k \in 0 .. Len(M) : u[k] = v[k]
  <1>1. PICK n \in Nat : n = Len(M)
    OBVIOUS
  <1>2. PICK G : G = {k \in 0 .. n : u[k] = v[k]}
    OBVIOUS
  <1>3. 0 \in G
    BY <1>1, <1>2 DEF UnitsTape
  <1>4. ASSUME NEW k \in 1 .. n, k - 1 \in G PROVE k \in G
    <2>1. u[k] = UnitsNext(u[k - 1], M[k], w) /\ v[k] = UnitsNext(v[k - 1], M[k], w)
      BY <1>1 DEF UnitsTape
    <2> QED
      BY <1>2, <1>4, <2>1
  <1>5. \A k \in 0 .. n : k \in G
    BY <1>3, <1>4, StepByStep
  <1> QED
    BY <1>1, <1>2, <1>5

\* One row more.
LEMMA UnitsGrow ==
  ASSUME NEW M, NEW N, NEW row, Longer(M, N, row), RowFits(row), NEW w, NEW u, UnitsTape(M, w, u)
  PROVE  \E v : /\ UnitsTape(N, w, v) /\ \A k \in 0 .. Len(M) : v[k] = u[k]
                /\ v[Len(N)] = UnitsNext(u[Len(M)], row, w)
  <1>1. PICK n \in Nat : n = Len(M)
    BY DEF Longer, IsList
  <1>2. u \in [0 .. n -> Int] /\ u[n] \in Int
    BY <1>1 DEF UnitsTape
  <1>3. PICK x \in Int : x = UnitsNext(u[n], row, w)
    BY <1>2 DEF UnitsNext, RowFits
  <1>4. PICK v : v = [k \in 0 .. (n + 1) |-> IF k = n + 1 THEN x ELSE u[k]]
    OBVIOUS
  <1>5. \A k \in 0 .. n : v[k] = u[k]
    BY <1>4
  <1>6. v[n + 1] = x /\ v \in [0 .. (n + 1) -> Int]
    BY <1>2, <1>4
  <1>7. Len(N) = n + 1 /\ N[n + 1] = row /\ \A k \in 1 .. n : N[k] = M[k]
    BY <1>1 DEF Longer
  <1>8. ASSUME NEW k \in 1 .. (n + 1) PROVE v[k] = UnitsNext(v[k - 1], N[k], w)
    <2>1. CASE k = n + 1
      BY <1>3, <1>5, <1>6, <1>7, <2>1
    <2>2. CASE k # n + 1
      <3>1. k \in 1 .. n /\ k \in 0 .. n /\ k - 1 \in 0 .. n
        BY <2>2
      <3>2. u[k] = UnitsNext(u[k - 1], M[k], w)
        BY <1>1, <3>1 DEF UnitsTape
      <3> QED
        BY <1>5, <1>7, <3>1, <3>2
    <2> QED
      BY <2>1, <2>2
  <1>9. v[0] = 0
    BY <1>1, <1>5 DEF UnitsTape
  <1>10. UnitsTape(N, w, v)
    BY <1>6, <1>7, <1>8, <1>9 DEF UnitsTape
  <1> QED
    BY <1>1, <1>3, <1>5, <1>6, <1>7, <1>10

\* The units are stock_for.
LEMMA UnitsOnHand ==
  ASSUME ListInv(moves), CostsOK(moves), InOrder(moves), NEW w \in Warehouse, NEW u, UnitsTape(moves, w, u)
  PROVE  u[Len(moves)] = OnHand(w)
  <1>1. PICK v, b : PlainTape(w, v, b)
    BY PlainTapes
  <1>2. Tape(moves, Kardex, Len(moves), w, v, b) /\ Kardex = Ident(Len(moves))
    BY <1>1, KardexIsList DEF PlainTape
  <1>3. v[Len(moves)] = OnHand(w)
    BY <1>2, TapeUnits DEF SameStock
  <1>4. PICK n \in Nat : n = Len(moves)
    BY LengthIs
  <1>5. \A k \in 1 .. n : Ident(n)[k] = k
    BY DEF Ident
  <1>6. UnitsTape(moves, w, v)
    BY <1>2, <1>4, <1>5 DEF UnitsTape, Tape
  <1> QED
    BY <1>3, <1>4, <1>6, UnitsAgree

\* A row that is no receipt.
LEMMA ToldNext ==
  ASSUME NEW M, NEW N, NEW L, NEW row, OneRow(M, N, L, row), ~Receipt(row),
         NEW w, NEW u, Told(M, L, w, u), row.warehouse = w => SoundRow(row, u[Len(M)])
  PROVE  \E v : Told(N, L, w, v) /\ v[Len(N)] = UnitsNext(u[Len(M)], row, w)
  <1>1. Longer(M, N, row) /\ RowsFit(M) /\ RowFits(row) /\ LinksFit(M, L)
    BY DEF OneRow
  <1>2. PICK n \in Nat : n = Len(M)
    BY <1>1 DEF Longer, IsList
  <1>3. PICK v : /\ UnitsTape(N, w, v) /\ \A k \in 0 .. n : v[k] = u[k]
                 /\ v[Len(N)] = UnitsNext(u[n], row, w)
    BY <1>1, <1>2, UnitsGrow DEF Told
  <1>4. PICK x \in Int : x = u[n]
    BY <1>2 DEF Told, UnitsTape
  <1>5. PICK q \in Int : q = row.quantity /\ q # 0
    BY <1>1 DEF RowFits
  <1>6. OpenSum(N, L, w) = OpenSum(M, L, w) + OpenBy(row, w)
    BY <1>1, SumsGrow DEF SumsNext, OpenBy
  <1>7. Over(-UnitsNext(x, row, w)) = Over(-x) + OpenBy(row, w)
    <2>1. CASE row.warehouse # w
      BY <1>4, <2>1 DEF UnitsNext, OpenBy, Obliges, Over
    <2>2. CASE row.warehouse = w
      <3>1. SoundRow(row, x) /\ UnitsNext(x, row, w) = x + q
        BY <1>2, <1>4, <1>5, <2>2 DEF UnitsNext
      <3>2. CASE q < 0
        <4>1. IF Obliges(row, w) THEN x <= 0 ELSE x + q >= 0
          BY <1>5, <2>2, <3>1, <3>2 DEF SoundRow
        <4>2. CASE Obliges(row, w)
          <5>1. OpenBy(row, w) = -q
            BY <1>5, <3>2, <4>2 DEF OpenBy, Absolute
          <5> QED
            BY <3>1, <3>2, <4>1, <4>2, <5>1 DEF Over
        <4>3. CASE ~Obliges(row, w)
          <5>1. OpenBy(row, w) = 0
            BY <4>3 DEF OpenBy
          <5> QED
            BY <3>1, <3>2, <4>1, <4>3, <5>1 DEF Over
        <4> QED
          BY <4>2, <4>3
      <3>3. CASE q > 0
        <4>1. OpenBy(row, w) = 0 /\ x >= 0
          BY <1>5, <2>2, <3>1, <3>3 DEF SoundRow, OpenBy
        <4> QED
          BY <3>1, <3>3, <4>1 DEF Over
      <3> QED
        BY <1>5, <3>2, <3>3
    <2> QED
      BY <2>1, <2>2
  <1>8. OpenSum(N, L, w) = Over(-v[Len(N)])
    BY <1>2, <1>3, <1>4, <1>6, <1>7 DEF Told
  <1>9. /\ DOMAIN N = DOMAIN M \cup {n + 1} /\ N[n + 1] = row /\ DOMAIN M = 1 .. n
        /\ \A k \in DOMAIN M : N[k] = M[k]
    BY <1>1, <1>2, Domains
  <1>10. ASSUME NEW k \in DOMAIN N, N[k].warehouse = w
         PROVE  /\ SoundRow(N[k], v[k - 1])
                /\ Receipt(N[k]) => Taken(L, k) = Least(N[k].quantity, Over(-v[k - 1]))
    <2>1. CASE k = n + 1
      <3>1. N[k] = row /\ k - 1 = n /\ v[k - 1] = u[n]
        BY <1>3, <1>9, <2>1
      <3> QED
        BY <1>2, <1>10, <3>1
    <2>2. CASE k \in DOMAIN M
      <3>1. N[k] = M[k] /\ k - 1 \in 0 .. n
        BY <1>9, <2>2
      <3>2. v[k - 1] = u[k - 1]
        BY <1>3, <3>1
      <3> QED
        BY <1>10, <2>2, <3>1, <3>2 DEF Told
    <2> QED
      BY <1>9, <2>1, <2>2
  <1>11. Told(N, L, w, v)
    BY <1>3, <1>8, <1>10 DEF Told
  <1> QED
    BY <1>2, <1>3, <1>11

LEMMA AllToldNext ==
  ASSUME NEW M, NEW N, NEW L, NEW row, OneRow(M, N, L, row), ~Receipt(row), AllTold(M, L),
         \A u : Told(M, L, row.warehouse, u) => SoundRow(row, u[Len(M)])
  PROVE  AllTold(N, L)
  <1> SUFFICES ASSUME NEW w \in Warehouse PROVE \E v : Told(N, L, w, v)
    BY DEF AllTold
  <1>1. PICK u : Told(M, L, w, u)
    BY DEF AllTold
  <1>2. row.warehouse = w => SoundRow(row, u[Len(M)])
    BY <1>1
  <1> QED
    BY <1>1, <1>2, ToldNext
-----------------------------------------------------------------------------
(* Every step continues the history.                                        *)
LEMMA IssueSound ==
  ASSUME NEW row, NEW type \in {"SALES_ISSUE", "TRANSFER_OUT"}, NEW q, NEW cost, NEW v,
         IssueRow(row, type, q, cost, v), NEW x \in Int, x = OnHand(row.warehouse)
  PROVE  SoundRow(row, x) /\ ~Receipt(row) /\ row.type = type /\ row.warehouse \in Warehouse
  <1>1. /\ q \in Nat \ {0} /\ row.type = type /\ row.quantity = -q /\ row.src = 0 /\ row.before = x
        /\ row.temporary = Below(row.warehouse, q) /\ ~Rough(row) /\ row.warehouse \in Warehouse
    BY DEF IssueRow, Made, InTypes
  <1>1a. (row.temporary = TRUE /\ x < q) \/ (row.temporary = FALSE /\ x >= q)
    <2>1. CASE x < q
      BY <1>1, <2>1 DEF Below
    <2>2. CASE ~(x < q)
      <3>1. Below(row.warehouse, q) = FALSE
        BY <2>2 DEF Below
      <3> QED
        BY <1>1, <2>2, <3>1
    <2> QED
      BY <2>1, <2>2
  <1>2. row.temporary = TRUE => type = "SALES_ISSUE" /\ x <= 0
    BY <1>1 DEF Rough
  <1>3. IF Obliges(row, row.warehouse) THEN x <= 0 ELSE x + row.quantity >= 0
    BY <1>1, <1>1a, <1>2 DEF Obliges
  <1> QED
    BY <1>1, <1>3 DEF SoundRow, Receipt

LEMMA ArrivalSound ==
  ASSUME NEW row, NEW type \in {"OPENING", "SALES_RETURN", "TRANSFER_IN"}, NEW q, NEW cost, NEW v,
         ArrivalRow(row, type, q, cost, v), NEW x \in Int, x = OnHand(row.warehouse)
  PROVE  SoundRow(row, x) /\ ~Receipt(row) /\ row.type = type /\ row.warehouse \in Warehouse
  <1>1. /\ q \in Nat \ {0} /\ row.type = type /\ row.quantity = q /\ row.before = x
        /\ ~Rough(row) /\ row.warehouse \in Warehouse
    BY DEF ArrivalRow, Made, InTypes
  <1>2. x >= 0 /\ ~Receipt(row) /\ ~Obliges(row, row.warehouse)
    BY <1>1 DEF Rough, Receipt, Obliges
  <1> QED
    BY <1>1, <1>2 DEF SoundRow

\* One row that is no receipt leaves the other warehouses as they were.
LEMMA OneTold ==
  ASSUME ValueInv, RegularIn(moves), AllTold(moves, links), NEW N, NEW row, OneRow(moves, N, links, row),
         row.warehouse \in Warehouse, SoundRow(row, OnHand(row.warehouse)), ~Receipt(row)
  PROVE  /\ AllTold(N, links)
         /\ \A w \in Warehouse : w # row.warehouse => \A u : Told(N, links, w, u) => u[Len(N)] = OnHand(w)
  <1>1. PICK M : M = moves
    OBVIOUS
  <1>2. PICK L : L = links
    OBVIOUS
  <1>3. \A w \in Warehouse : \A u : Told(M, L, w, u) => u[Len(M)] = OnHand(w)
    <2> SUFFICES ASSUME NEW w \in Warehouse, NEW u, Told(M, L, w, u) PROVE u[Len(M)] = OnHand(w)
      OBVIOUS
    <2>1. UnitsTape(moves, w, u)
      BY <1>1 DEF Told
    <2> QED
      BY <1>1, <2>1, UnitsOnHand, ValueInvIs DEF RegularIn
  <1>4. OneRow(M, N, L, row) /\ AllTold(M, L)
    BY <1>1, <1>2
  <1>5. \A u : Told(M, L, row.warehouse, u) => SoundRow(row, u[Len(M)])
    BY <1>3
  <1>6. AllTold(N, L)
    BY <1>4, <1>5, AllToldNext
  <1>7. ASSUME NEW w \in Warehouse, w # row.warehouse, NEW u, Told(N, L, w, u) PROVE u[Len(N)] = OnHand(w)
    <2>1. PICK z : Told(M, L, w, z)
      BY <1>4 DEF AllTold
    <2>2. PICK v : Told(N, L, w, v) /\ v[Len(N)] = UnitsNext(z[Len(M)], row, w)
      BY <1>4, <1>7, <2>1, ToldNext
    <2>3. v[Len(N)] = OnHand(w)
      BY <1>3, <1>7, <2>1, <2>2 DEF UnitsNext
    <2>4. Len(N) \in Nat
      BY <1>4 DEF OneRow, Longer, IsList
    <2>5. UnitsTape(N, w, u) /\ UnitsTape(N, w, v)
      BY <1>7, <2>2 DEF Told
    <2> QED
      BY <2>3, <2>4, <2>5, UnitsAgree
  <1> QED
    BY <1>2, <1>6, <1>7

LEMMA PairedKeeps ==
  ASSUME NEW M, NEW N, NEW row, Longer(M, N, row), Paired(M), row.type \notin {"TRANSFER_IN", "TRANSFER_OUT"}
  PROVE  Paired(N)
  <1>1. PICK n \in Nat : /\ n = Len(M) /\ DOMAIN M = 1 .. n /\ DOMAIN N = 1 .. (n + 1)
                         /\ N[n + 1] = row /\ \A i \in DOMAIN M : N[i] = M[i]
    BY Domains
  <1> SUFFICES ASSUME NEW k \in 1 .. (n + 1)
               PROVE  /\ N[k].type = "TRANSFER_IN" =>
                           /\ k - 1 \in DOMAIN N /\ N[k - 1].type = "TRANSFER_OUT"
                           /\ N[k].src = k - 1 /\ N[k].quantity = -N[k - 1].quantity
                      /\ N[k].type = "TRANSFER_OUT" => k + 1 \in DOMAIN N /\ N[k + 1].type = "TRANSFER_IN"
    BY <1>1 DEF Paired
  <1>2. CASE k = n + 1
    BY <1>1, <1>2
  <1>3. CASE k \in DOMAIN M
    <2>1. N[k] = M[k]
      BY <1>1, <1>3
    <2>2. /\ M[k].type = "TRANSFER_IN" =>
               /\ k - 1 \in DOMAIN M /\ M[k - 1].type = "TRANSFER_OUT"
               /\ M[k].src = k - 1 /\ M[k].quantity = -M[k - 1].quantity
          /\ M[k].type = "TRANSFER_OUT" => k + 1 \in DOMAIN M /\ M[k + 1].type = "TRANSFER_IN"
      BY <1>3 DEF Paired
    <2> QED
      BY <1>1, <2>1, <2>2
  <1> QED
    BY <1>1, <1>2, <1>3

\* The two rows a transfer appends, and the rows before them.
LEMMA DomainsTwo ==
  ASSUME NEW M, NEW H, NEW N, NEW a, NEW b, Longer(M, H, a), Longer(H, N, b)
  PROVE  \E n \in Nat :
           /\ n = Len(M) /\ DOMAIN M = 1 .. n /\ Len(H) = n + 1 /\ DOMAIN N = 1 .. (n + 2)
           /\ N[n + 1] = a /\ N[n + 2] = b /\ \A i \in DOMAIN M : N[i] = M[i]
  <1>1. PICK n \in Nat : n = Len(M) /\ DOMAIN M = 1 .. n /\ DOMAIN H = 1 .. (n + 1) /\ Len(H) = n + 1
    BY DEF Longer, IsList
  <1>2. H[n + 1] = a /\ \A i \in DOMAIN M : H[i] = M[i]
    BY <1>1 DEF Longer
  <1>3. DOMAIN N = 1 .. ((n + 1) + 1) /\ N[(n + 1) + 1] = b /\ \A i \in DOMAIN H : N[i] = H[i]
    BY <1>1 DEF Longer
  <1>4. (n + 1) + 1 = n + 2 /\ n + 1 \in DOMAIN H /\ \A i \in DOMAIN M : i \in DOMAIN H
    BY <1>1
  <1> QED
    BY <1>1, <1>2, <1>3, <1>4

LEMMA PairedTwo ==
  ASSUME NEW M, NEW H, NEW N, NEW a, NEW b, Longer(M, H, a), Longer(H, N, b), Paired(M),
         a.type = "TRANSFER_OUT", b.type = "TRANSFER_IN", b.src = Len(M) + 1, b.quantity = -a.quantity
  PROVE  Paired(N)
  <1>1. PICK n \in Nat : /\ n = Len(M) /\ DOMAIN M = 1 .. n /\ Len(H) = n + 1 /\ DOMAIN N = 1 .. (n + 2)
                        /\ N[n + 1] = a /\ N[n + 2] = b /\ \A i \in DOMAIN M : N[i] = M[i]
    BY DomainsTwo
  <1>3. DOMAIN N = 1 .. (n + 2) /\ N[n + 2] = b /\ N[n + 1] = a /\ \A i \in DOMAIN M : N[i] = M[i]
    BY <1>1
  <1> SUFFICES ASSUME NEW k \in 1 .. (n + 2)
               PROVE  /\ N[k].type = "TRANSFER_IN" =>
                           /\ k - 1 \in DOMAIN N /\ N[k - 1].type = "TRANSFER_OUT"
                           /\ N[k].src = k - 1 /\ N[k].quantity = -N[k - 1].quantity
                      /\ N[k].type = "TRANSFER_OUT" => k + 1 \in DOMAIN N /\ N[k + 1].type = "TRANSFER_IN"
    BY <1>3 DEF Paired
  <1>4. CASE k = n + 1
    BY <1>3, <1>4
  <1>5. CASE k = n + 2
    <2>1. k - 1 = n + 1 /\ N[k] = b /\ N[k - 1] = a /\ k - 1 \in DOMAIN N
      BY <1>3, <1>5
    <2> QED
      BY <1>1, <2>1
  <1>6. CASE k \in DOMAIN M
    <2>1. N[k] = M[k]
      BY <1>3, <1>6
    <2>2. /\ M[k].type = "TRANSFER_IN" =>
               /\ k - 1 \in DOMAIN M /\ M[k - 1].type = "TRANSFER_OUT"
               /\ M[k].src = k - 1 /\ M[k].quantity = -M[k - 1].quantity
          /\ M[k].type = "TRANSFER_OUT" => k + 1 \in DOMAIN M /\ M[k + 1].type = "TRANSFER_IN"
      BY <1>6 DEF Paired
    <2> QED
      BY <1>1, <1>3, <2>1, <2>2
  <1> QED
    BY <1>1, <1>4, <1>5, <1>6

LEMMA HomesKeep ==
  ASSUME NEW M, NEW N, NEW L, NEW row, OneRow(M, N, L, row), LinksHome(M, L)
  PROVE  LinksHome(N, L)
  <1>1. \A i \in DOMAIN M : N[i] = M[i]
    BY Domains DEF OneRow
  <1>2. \A l \in L : l.issue \in DOMAIN M /\ l.receipt \in DOMAIN M
    BY DEF OneRow, LinksFit
  <1> QED
    BY <1>1, <1>2 DEF LinksHome, Receipt
\* A receipt gives what its warehouse owed below zero.
LEMMA ServedTold ==
  ASSUME NEW M, NEW N, NEW L, NEW K, NEW w, NEW q \in Nat, q # 0, NEW cost \in Nat, NEW row, NEW C,
         NEW s, NEW r, NEW v, Serving(M, N, L, K, w, q, cost, row, C, s, r, v), LinksFit(N, K),
         NEW z, NEW u, Told(M, L, z, u)
  PROVE  \E t : Told(N, K, z, t)
  <1>1. /\ OneRow(M, N, L, row) /\ Made(row, "PURCHASE_RECEIPT", w, q, cost, FALSE, 0)
        /\ K = L \cup C /\ Taken(K, Len(M) + 1) = s /\ s = Least(q, OpenSum(M, L, w))
        /\ \A l \in C : l.receipt = Len(M) + 1
    BY DEF Serving
  <1>2. Longer(M, N, row) /\ RowsFit(M) /\ RowFits(row) /\ LinksFit(M, L)
    BY <1>1 DEF OneRow
  <1>3. PICK n \in Nat : n = Len(M)
    BY <1>2 DEF Longer, IsList
  <1>4. /\ DOMAIN N = DOMAIN M \cup {n + 1} /\ N[n + 1] = row /\ DOMAIN M = 1 .. n
        /\ \A k \in DOMAIN M : N[k] = M[k]
    BY <1>2, <1>3, Domains
  <1>5. row.quantity = q /\ row.warehouse = w /\ Receipt(row) /\ \A y : ~Obliges(row, y)
    BY <1>1 DEF Made, InTypes, Receipt, Obliges
  <1>6. PICK t : /\ UnitsTape(N, z, t) /\ \A k \in 0 .. n : t[k] = u[k]
                 /\ t[Len(N)] = UnitsNext(u[n], row, z)
    BY <1>2, <1>3, UnitsGrow DEF Told
  <1>7. PICK x \in Int : x = u[n] /\ OpenSum(M, L, z) = Over(-x)
    BY <1>3 DEF Told, UnitsTape
  <1>8. /\ OpenSum(M, L, w) = OpenSum(N, K, w) + s
        /\ z # w => OpenSum(N, K, z) = OpenSum(M, L, z)
    BY ServingSums
  <1>9. z = w => s = Least(q, Over(-x)) /\ OpenSum(N, K, z) = Over(-(x + q))
    <2> SUFFICES ASSUME z = w PROVE s = Least(q, Over(-x)) /\ OpenSum(N, K, z) = Over(-(x + q))
      OBVIOUS
    <2>1. s = Least(q, Over(-x))
      BY <1>1, <1>7
    <2>2. PICK o \in Int : o = OpenSum(N, K, w)
      BY <1>2, SumsGrow, SumsAreInts
    <2>3. Over(-x) = o + s
      BY <1>7, <1>8, <2>2
    <2>5. o = Over(-(x + q))
      BY <2>1, <2>3 DEF Least, Over
    <2> QED
      BY <2>1, <2>2, <2>5
  <1>10. OpenSum(N, K, z) = Over(-t[Len(N)])
    BY <1>5, <1>6, <1>7, <1>8, <1>9 DEF UnitsNext
  <1>11. ASSUME NEW k \in DOMAIN M PROVE Taken(K, k) = Taken(L, k)
    <2>1. k # n + 1
      BY <1>4
    <2>2. PICK B : B = {l \in L : l.receipt = k}
      OBVIOUS
    <2>3. {l \in K : l.receipt = k} = B
      BY <1>1, <1>3, <2>1, <2>2
    <2>4. PICK e : e = Amounts(K)
      OBVIOUS
    <2>5. PICK f : f = Amounts(L)
      OBVIOUS
    <2>6. \A l \in B : e[l] = f[l]
      BY <1>1, <2>2, <2>4, <2>5 DEF Amounts
    <2>7. IsFiniteSet(B)
      BY <1>2, <2>2, FS_Subset DEF LinksFit
    <2>8. SumFunctionOnSet(e, B) = SumFunctionOnSet(f, B)
      BY <2>6, <2>7, SumAgree
    <2> QED
      BY <2>2, <2>3, <2>4, <2>5, <2>8 DEF Taken
  <1>12. ASSUME NEW k \in DOMAIN N, N[k].warehouse = z
         PROVE  /\ SoundRow(N[k], t[k - 1])
                /\ Receipt(N[k]) => Taken(K, k) = Least(N[k].quantity, Over(-t[k - 1]))
    <2>1. CASE k = n + 1
      <3>1. N[k] = row /\ k - 1 = n /\ t[k - 1] = x /\ z = w
        BY <1>3, <1>4, <1>5, <1>6, <1>7, <1>12, <2>1
      <3>2. SoundRow(row, x)
        BY <1>5 DEF SoundRow
      <3> QED
        BY <1>1, <1>3, <1>5, <1>9, <2>1, <3>1, <3>2
    <2>2. CASE k \in DOMAIN M
      <3>1. N[k] = M[k] /\ k - 1 \in 0 .. n
        BY <1>4, <2>2
      <3>2. t[k - 1] = u[k - 1]
        BY <1>6, <3>1
      <3> QED
        BY <1>11, <1>12, <2>2, <3>1, <3>2 DEF Told
    <2> QED
      BY <1>4, <2>1, <2>2
  <1>13. Told(N, K, z, t)
    BY <1>6, <1>10, <1>12 DEF Told
  <1> QED
    BY <1>13

LEMMA ServedHistory ==
  ASSUME NEW M, NEW N, NEW L, NEW K, NEW w \in Warehouse, NEW q \in Nat, q # 0, NEW cost \in Nat, NEW row,
         NEW C, NEW s, NEW r, NEW v, Serving(M, N, L, K, w, q, cost, row, C, s, r, v), LinksFit(N, K),
         History(M, L)
  PROVE  History(N, K)
  <1> SUFFICES ASSUME RegularIn(N) PROVE AllTold(N, K) /\ Paired(N) /\ LinksHome(N, K)
    BY DEF History
  <1>1. /\ OneRow(M, N, L, row) /\ Made(row, "PURCHASE_RECEIPT", w, q, cost, FALSE, 0)
        /\ K = L \cup C
        /\ \A l \in C : l.receipt = Len(M) + 1 /\ l.issue \in DOMAIN M /\ M[l.issue].warehouse = w
    BY DEF Serving
  <1>2. RegularIn(M) /\ Longer(M, N, row)
    BY <1>1, RegularBefore DEF OneRow
  <1>3. AllTold(M, L) /\ Paired(M) /\ LinksHome(M, L)
    BY <1>2 DEF History
  <1>4. AllTold(N, K)
    <2> SUFFICES ASSUME NEW z \in Warehouse PROVE \E t : Told(N, K, z, t)
      BY DEF AllTold
    <2>1. PICK u : Told(M, L, z, u)
      BY <1>3 DEF AllTold
    <2> QED
      BY <2>1, ServedTold
  <1>5. row.type = "PURCHASE_RECEIPT" /\ row.src = 0 /\ row.warehouse = w
    BY <1>1 DEF Made
  <1>6. Paired(N)
    BY <1>2, <1>3, <1>5, PairedKeeps
  <1>7. LinksHome(N, L)
    BY <1>1, <1>3, HomesKeep
  <1>8. \A l \in C : Receipt(N[l.receipt]) /\ N[l.issue].warehouse = N[l.receipt].warehouse
    <2>1. N[Len(M) + 1] = row /\ \A i \in DOMAIN M : N[i] = M[i]
      BY <1>2, Domains
    <2> QED
      BY <1>1, <1>5, <2>1 DEF Receipt
  <1>9. LinksHome(N, K)
    BY <1>1, <1>7, <1>8 DEF LinksHome
  <1> QED
    BY <1>4, <1>6, <1>9

\* Every step, as a regular one.
LEMMA HistoryOne ==
  ASSUME ValueInv, History(moves, links), RegularIn(moves'),
         NEW row, OneRow(moves, moves', links, row), links' = links, row.warehouse \in Warehouse,
         SoundRow(row, OnHand(row.warehouse)), ~Receipt(row), row.type \notin {"TRANSFER_IN", "TRANSFER_OUT"}
  PROVE  History(moves', links')
  <1>1. PICK N : N = moves'
    OBVIOUS
  <1>2. OneRow(moves, N, links, row) /\ RegularIn(N)
    BY <1>1
  <1>3. RegularIn(moves) /\ Longer(moves, N, row)
    BY <1>2, RegularBefore DEF OneRow
  <1>4. AllTold(moves, links) /\ Paired(moves) /\ LinksHome(moves, links)
    BY <1>3 DEF History
  <1>5. AllTold(N, links)
    BY <1>2, <1>3, <1>4, OneTold
  <1>6. Paired(N)
    BY <1>3, <1>4, PairedKeeps
  <1>7. LinksHome(N, links)
    BY <1>2, <1>4, HomesKeep
  <1> QED
    BY <1>1, <1>5, <1>6, <1>7 DEF History

LEMMA HistoryTwo ==
  ASSUME ValueInv, History(moves, links), RegularIn(moves'),
         NEW H, NEW a, NEW b, OneRow(moves, H, links, a), OneRow(H, moves', links, b), links' = links,
         a.warehouse \in Warehouse, b.warehouse \in Warehouse, a.warehouse # b.warehouse,
         SoundRow(a, OnHand(a.warehouse)), SoundRow(b, OnHand(b.warehouse)), ~Receipt(a), ~Receipt(b),
         Paired(moves) => Paired(moves')
  PROVE  History(moves', links')
  <1>1. PICK N : N = moves'
    OBVIOUS
  <1>2. OneRow(H, N, links, b) /\ RegularIn(N)
    BY <1>1
  <1>3. RegularIn(H)
    BY <1>2, RegularBefore DEF OneRow
  <1>4. RegularIn(moves)
    BY <1>3, RegularBefore DEF OneRow
  <1>5. AllTold(moves, links) /\ Paired(moves) /\ LinksHome(moves, links)
    BY <1>4 DEF History
  <1>6. AllTold(H, links) /\ \A u : Told(H, links, b.warehouse, u) => u[Len(H)] = OnHand(b.warehouse)
    BY <1>4, <1>5, OneTold
  <1>7. \A u : Told(H, links, b.warehouse, u) => SoundRow(b, u[Len(H)])
    BY <1>6
  <1>8. AllTold(N, links)
    BY <1>2, <1>6, <1>7, AllToldNext
  <1>9. LinksHome(H, links)
    BY <1>5, HomesKeep
  <1>10. LinksHome(N, links)
    BY <1>2, <1>9, HomesKeep
  <1> QED
    BY <1>1, <1>5, <1>8, <1>10 DEF History

LEMMA HistoryStep ==
  ASSUME ValueInv, History(moves, links), [Next]_vars
  PROVE  History(moves', links')
  <1> SUFFICES ASSUME RegularIn(moves') PROVE History(moves', links')
    BY DEF History
  <1>0. \A w \in Warehouse : OnHand(w) \in Int
    BY ValueInvIs DEF ValuationIs
  <1>1. CASE Rests
    BY <1>1 DEF Rests
  <1>2. CASE Issues
    <2>1. PICK row, q, cost, v : OneWritten(row, v) /\ IssueRow(row, "SALES_ISSUE", q, cost, v)
      BY <1>2 DEF Issues
    <2>2. PICK type \in {"SALES_ISSUE", "TRANSFER_OUT"} : type = "SALES_ISSUE"
      OBVIOUS
    <2>3. row.warehouse \in Warehouse
      BY <2>1 DEF IssueRow
    <2>4. SoundRow(row, OnHand(row.warehouse)) /\ ~Receipt(row) /\ row.type = "SALES_ISSUE"
      BY <1>0, <2>1, <2>2, <2>3, IssueSound
    <2>5. OneRow(moves, moves', links, row) /\ links' = links
      BY <2>1 DEF OneWritten
    <2> QED
      BY <2>3, <2>4, <2>5, HistoryOne
  <1>3. CASE Admits
    <2>1. PICK row, q, cost, v, type : OneWritten(row, v) /\ type \in {"OPENING", "SALES_RETURN"}
                                       /\ ArrivalRow(row, type, q, cost, v)
      BY <1>3 DEF Admits
    <2>2. type \in {"OPENING", "SALES_RETURN", "TRANSFER_IN"}
      BY <2>1
    <2>3. row.warehouse \in Warehouse
      BY <2>1 DEF ArrivalRow
    <2>4. SoundRow(row, OnHand(row.warehouse)) /\ ~Receipt(row) /\ row.type = type
      BY <1>0, <2>1, <2>2, <2>3, ArrivalSound
    <2>5. OneRow(moves, moves', links, row) /\ links' = links
      BY <2>1 DEF OneWritten
    <2>6. row.type \notin {"TRANSFER_IN", "TRANSFER_OUT"}
      BY <2>1, <2>4
    <2> QED
      BY <2>3, <2>4, <2>5, <2>6, HistoryOne
  <1>4. CASE IssuesTwo
    <2>1. PICK H, a, b, p, q, c, d, s, t :
            /\ TwoWritten(H, a, b, s, t)
            /\ IssueRow(a, "SALES_ISSUE", p, c, s) /\ IssueRow(b, "SALES_ISSUE", q, d, t)
      BY <1>4 DEF IssuesTwo
    <2>2. PICK type \in {"SALES_ISSUE", "TRANSFER_OUT"} : type = "SALES_ISSUE"
      OBVIOUS
    <2>3. a.warehouse \in Warehouse /\ b.warehouse \in Warehouse
      BY <2>1 DEF IssueRow
    <2>4. SoundRow(a, OnHand(a.warehouse)) /\ ~Receipt(a) /\ a.type = "SALES_ISSUE"
      BY <1>0, <2>1, <2>2, <2>3, IssueSound
    <2>5. SoundRow(b, OnHand(b.warehouse)) /\ ~Receipt(b) /\ b.type = "SALES_ISSUE"
      BY <1>0, <2>1, <2>2, <2>3, IssueSound
    <2>6. /\ OneRow(moves, H, links, a) /\ OneRow(H, moves', links, b) /\ links' = links
          /\ a.warehouse # b.warehouse
      BY <2>1 DEF TwoWritten
    <2>7. Paired(moves) => Paired(moves')
      <3> SUFFICES ASSUME Paired(moves) PROVE Paired(moves')
        OBVIOUS
      <3>1. PICK N : N = moves'
        OBVIOUS
      <3>2. Longer(moves, H, a) /\ Longer(H, N, b)
        BY <2>6, <3>1 DEF OneRow
      <3>3. Paired(H)
        BY <2>4, <3>2, PairedKeeps
      <3>4. Paired(N)
        BY <2>5, <3>2, <3>3, PairedKeeps
      <3> QED
        BY <3>1, <3>4
    <2> QED
      BY <2>3, <2>4, <2>5, <2>6, <2>7, HistoryTwo
  <1>5. CASE Transfers
    <2>1. PICK H, a, b, q, c, s, t :
            /\ TwoWritten(H, a, b, s, t)
            /\ IssueRow(a, "TRANSFER_OUT", q, c, s) /\ ArrivalRow(b, "TRANSFER_IN", q, c, t)
      BY <1>5 DEF Transfers
    <2>2. PICK type \in {"SALES_ISSUE", "TRANSFER_OUT"} : type = "TRANSFER_OUT"
      OBVIOUS
    <2>2a. PICK kind \in {"OPENING", "SALES_RETURN", "TRANSFER_IN"} : kind = "TRANSFER_IN"
      OBVIOUS
    <2>3. a.warehouse \in Warehouse /\ b.warehouse \in Warehouse
      BY <2>1 DEF IssueRow, ArrivalRow
    <2>4. SoundRow(a, OnHand(a.warehouse)) /\ ~Receipt(a) /\ a.type = "TRANSFER_OUT"
      BY <1>0, <2>1, <2>2, <2>3, IssueSound
    <2>5. SoundRow(b, OnHand(b.warehouse)) /\ ~Receipt(b) /\ b.type = "TRANSFER_IN"
      BY <1>0, <2>1, <2>2a, <2>3, ArrivalSound
    <2>6. /\ OneRow(moves, H, links, a) /\ OneRow(H, moves', links, b) /\ links' = links
          /\ a.warehouse # b.warehouse
      BY <2>1 DEF TwoWritten
    <2>7. q \in Nat /\ a.quantity = -q /\ b.quantity = q /\ b.src = Len(moves) + 1
      BY <2>1 DEF IssueRow, ArrivalRow, Made, InTypes
    <2>8. Paired(moves) => Paired(moves')
      <3> SUFFICES ASSUME Paired(moves) PROVE Paired(moves')
        OBVIOUS
      <3>1. PICK N : N = moves'
        OBVIOUS
      <3>2. Longer(moves, H, a) /\ Longer(H, N, b)
        BY <2>6, <3>1 DEF OneRow
      <3>3. b.quantity = -a.quantity
        BY <2>7
      <3>4. Paired(N)
        BY <2>4, <2>5, <2>7, <3>2, <3>3, PairedTwo
      <3> QED
        BY <3>1, <3>4
    <2> QED
      BY <2>3, <2>4, <2>5, <2>6, <2>8, HistoryTwo
  <1>6. CASE Buys
    <2>1. PICK w \in Warehouse, q \in Quantity, total \in Total, d \in Day : Purchase(w, q, total, d)
      BY <1>6 DEF Buys
    <2>2. q \in Nat /\ q # 0 /\ total \in Nat
      BY <2>1, DataInputs
    <2>3. PICK cost \in Nat : cost = HalfUp(Steps(total), q)
      <3>1. Steps(total) \in Nat
        BY <2>2, DataInputs, ProductNat DEF Steps
      <3> QED
        BY <2>2, <3>1, HalfUpNat
    <2>4. Move("PURCHASE_RECEIPT", w, q, d, cost, FALSE, 0) /\ links' = links \cup NewLinks(w, q, cost)
      BY <2>1, <2>3 DEF Purchase
    <2>5. LinksFit(moves', links')
      BY LinksStep DEF ValueInv
    <2>6. PICK N : N = moves'
      OBVIOUS
    <2>7. PICK K : K = links'
      OBVIOUS
    <2>8. PICK row, C, s, r, v : Serving(moves, moves', links, links', w, q, cost, row, C, s, r, v)
      BY <2>2, <2>4, <2>5, PurchaseHands
    <2>9. Serving(moves, N, links, K, w, q, cost, row, C, s, r, v) /\ LinksFit(N, K)
      BY <2>5, <2>6, <2>7, <2>8
    <2>10. History(N, K)
      BY <2>2, <2>9, ServedHistory
    <2> QED
      BY <2>6, <2>7, <2>10
  <1> QED
    BY <1>1, <1>2, <1>3, <1>4, <1>5, <1>6, RegularSteps DEF RegularStep

LEMMA HistoryInit == Init => History(moves, links)
  <1> SUFFICES ASSUME Init PROVE AllTold(moves, links) /\ Paired(moves) /\ LinksHome(moves, links)
    BY DEF History
  <1>1. moves = <<>> /\ links = {} /\ Len(moves) = 0 /\ DOMAIN moves = {}
    BY DEF Init
  <1>2. Paired(moves) /\ LinksHome(moves, links)
    BY <1>1 DEF Paired, LinksHome
  <1>3. ASSUME NEW w \in Warehouse PROVE \E u : Told(moves, links, w, u)
    <2>1. PICK u : u = [k \in 0 .. 0 |-> 0]
      OBVIOUS
    <2>2. u \in [0 .. 0 -> Int] /\ u[0] = 0
      BY <2>1
    <2>3. UnitsTape(moves, w, u)
      BY <1>1, <2>2 DEF UnitsTape
    <2>4. PICK f : f = Opens(moves, links)
      OBVIOUS
    <2>5. Debts(moves, w) = {}
      BY <1>1 DEF Debts
    <2>6. SumFunctionOnSet(f, {}) = 0
      BY SumEmpty
    <2>7. OpenSum(moves, links, w) = 0
      BY <2>4, <2>5, <2>6 DEF OpenSum
    <2>8. Over(-u[Len(moves)]) = 0
      BY <1>1, <2>2 DEF Over
    <2> QED
      BY <1>1, <2>3, <2>7, <2>8 DEF Told
  <1> QED
    BY <1>2, <1>3 DEF AllTold

HistoryInv == CostInv /\ History(moves, links)

LEMMA HistoryInvStep == HistoryInv /\ [CostNext]_costVars => HistoryInv'
  <1> SUFFICES ASSUME HistoryInv, [CostNext]_costVars PROVE HistoryInv'
    OBVIOUS
  <1>1. CostInv'
    BY CostInvStep DEF HistoryInv
  <1>2. CASE BookStep
    BY <1>1, <1>2, BookStepIs DEF HistoryInv, KeepsStock
  <1>3. CASE [Next]_vars
    BY <1>1, <1>3, HistoryStep DEF HistoryInv, CostInv
  <1>4. BookStep \/ [Next]_vars
    BY StepCases
  <1> QED
    BY <1>2, <1>3, <1>4

LEMMA HistoryInvHolds == CostSpec => []HistoryInv
  <1>1. Init => HistoryInv
    BY CostInvInit, HistoryInit DEF HistoryInv
  <1> QED
    BY <1>1, HistoryInvStep, PTL DEF CostSpec, CostInit

-----------------------------------------------------------------------------
(* What a replay with late costs makes of a regular history.                *)
SourceUnit(D, k) ==
  IF moves[k].type \in {"TRANSFER_IN", "SALES_RETURN"} THEN LayeredReplay(D).unit[moves[k].src] ELSE moves[k].cost

\* Movement k takes the basis of its warehouse, which had x units, from y to z.
LaidRow(D, k, x, y, z) ==
  /\ x <= 0 => y = 0
  /\ moves[k].quantity > 0 =>
       /\ z = BasisIn(x, y, Units(k), LayeredReplay(D).unit[k])
       /\ LayeredReplay(D).unit[k] = SourceUnit(D, k) + Extra(D, k)
  /\ moves[k].quantity < 0 =>
       /\ z = BasisOut(x, y, Units(k), moves[k].cost)
       /\ LayeredReplay(D).relief[k] = ReliefOf(x, y, Units(k), moves[k].cost)
       /\ LayeredReplay(D).unit[k] = AverageOf(x, y, moves[k].cost)

\* The basis of w before and after every movement.
Layer(D, w, u, b) ==
  /\ b \in [0 .. Len(moves) -> Nat] /\ b[0] = 0 /\ b[Len(moves)] = LayeredReplay(D).basis[w]
  /\ \A k \in 1 .. Len(moves) :
       /\ moves[k].warehouse # w => b[k] = b[k - 1]
       /\ moves[k].warehouse = w => LaidRow(D, k, u[k - 1], b[k - 1], b[k])

LEMMA LaidOut ==
  ASSUME ListInv(moves), CostsOK(moves), NEW D, Extras(D), NEW r, LayeredPath(D, r), InOrder(moves),
         NEW k \in 1 .. Len(moves), NEW w, w = moves[k].warehouse,
         NEW x, x = r[k - 1].units[w], NEW y, y = r[k - 1].basis[w]
  PROVE  /\ moves[k].quantity > 0 => LayeredReplay(D).unit[k] = SourceUnit(D, k) + Extra(D, k)
         /\ moves[k].quantity < 0 =>
              /\ LayeredReplay(D).relief[k] = ReliefOf(x, y, Units(k), moves[k].cost)
              /\ LayeredReplay(D).unit[k] = AverageOf(x, y, moves[k].cost)
  <1>1. PICK n \in Nat : n = Len(moves)
    BY LengthIs
  <1>2. \A m \in 1 .. n : Kardex[m] = m
    BY <1>1, KardexIsList DEF Ident
  <1>3. k \in DOMAIN moves /\ k - 1 \in 0 .. n /\ k \in 0 .. n
    BY <1>1, LengthIs
  <1>4. PICK s \in ReplayState : s = r[k - 1]
    BY <1>1, <1>3 DEF LayeredPath
  <1>5. PICK t \in ReplayState : t = r[k]
    BY <1>1, <1>3 DEF LayeredPath
  <1>6. t = LayeredAt(D, s, k)
    BY <1>1, <1>2, <1>4, <1>5 DEF LayeredPath
  <1>7. LayeredReplay(D).unit[k] = t.unit[k] /\ LayeredReplay(D).relief[k] = t.relief[k]
    BY <1>1, <1>2, <1>5, PathKeeps
  <1>8. /\ s.unit \in [DOMAIN moves -> Nat] /\ s.relief \in [DOMAIN moves -> Nat]
    BY DEF ReplayState
  <1>9. ASSUME moves[k].quantity > 0 PROVE LayeredReplay(D).unit[k] = SourceUnit(D, k) + Extra(D, k)
    <2>1. Arrives(s, t, k, ArrivalCost(D, s, k))
      BY <1>3, <1>6, <1>9, LayeredAtDoes
    <2>2. t.unit[k] = ArrivalCost(D, s, k)
      BY <1>3, <1>8, <2>1 DEF Arrives
    <2>3. moves[k].type \in {"TRANSFER_IN", "SALES_RETURN"} =>
            s.unit[moves[k].src] = LayeredReplay(D).unit[moves[k].src]
      <3> SUFFICES ASSUME moves[k].type \in {"TRANSFER_IN", "SALES_RETURN"}
                   PROVE  s.unit[moves[k].src] = LayeredReplay(D).unit[moves[k].src]
        OBVIOUS
      <3>1. PICK i : i = moves[k].src
        OBVIOUS
      <3>2. i \in 1 .. n /\ i <= k - 1
        <4>1. i \in DOMAIN moves
          BY <1>3, <3>1, SourceIn
        <4>2. i \in 0 .. (k - 1)
          BY <1>3, <3>1, RowsTyped DEF RowOK
        <4> QED
          BY <1>1, <1>3, <4>1, <4>2, LengthIs
      <3>3. Kardex[i] = i /\ k - 1 \in i .. n
        BY <1>2, <1>3, <3>2
      <3>4. r[k - 1].unit[i] = r[i].unit[i]
        BY <1>1, <3>2, <3>3, PathRests
      <3>5. LayeredReplay(D).unit[i] = r[i].unit[i]
        BY <1>1, <3>2, <3>3, PathKeeps
      <3> QED
        BY <1>4, <3>1, <3>4, <3>5
    <2> QED
      BY <1>7, <2>2, <2>3 DEF ArrivalCost, SourceUnit
  <1>10. ASSUME moves[k].quantity < 0
         PROVE  /\ LayeredReplay(D).relief[k] = ReliefOf(x, y, Units(k), moves[k].cost)
                /\ LayeredReplay(D).unit[k] = AverageOf(x, y, moves[k].cost)
    <2>1. ~(moves[k].quantity > 0)
      BY <1>3, <1>10, RowsTyped DEF RowOK
    <2>2. Leaves(s, t, k)
      BY <1>3, <1>6, <2>1, LayeredAtDoes
    <2>3. t.relief[k] = ReliefOf(x, y, Units(k), moves[k].cost) /\ t.unit[k] = AverageOf(x, y, moves[k].cost)
      BY <1>3, <1>4, <1>8, <2>2 DEF Leaves
    <2> QED
      BY <1>7, <2>3
  <1> QED
    BY <1>9, <1>10

LEMMA Layers ==
  ASSUME ListInv(moves), CostsOK(moves), NEW D, Extras(D), InOrder(moves), NEW w \in Warehouse,
         NEW u, UnitsTape(moves, w, u)
  PROVE  \E b : Layer(D, w, u, b)
  <1>1. PICK n \in Nat : n = Len(moves) /\ DOMAIN moves = 1 .. n
    BY LengthIs
  <1>2. \A m \in 1 .. n : Kardex[m] = m
    BY <1>1, KardexIsList DEF Ident
  <1>3. PICK r : LayeredPath(D, r)
    BY LayeredWalks
  <1>4. PICK v : v = [k \in 0 .. n |-> r[k].units[w]]
    OBVIOUS
  <1>5. PICK b : b = [k \in 0 .. n |-> r[k].basis[w]]
    OBVIOUS
  <1>6. LayeredTape(D, w, v, b)
    BY <1>1, <1>3, <1>4, <1>5, LayeredTapes
  <1>7. PICK P : P = Revalued(D)
    OBVIOUS
  <1>8. SameStock(P) /\ CostsOK(P) /\ DOMAIN P = DOMAIN moves
    BY <1>7, RevaluedIs
  <1>9. Tape(P, Kardex, n, w, v, b) /\ LayeredReplay(D).basis[w] = b[n]
    BY <1>1, <1>6, <1>7 DEF LayeredTape
  <1>10. \A k \in 1 .. n : /\ P[k].warehouse = moves[k].warehouse /\ P[k].quantity = moves[k].quantity
                           /\ P[k].cost \in Nat /\ P[k].quantity \in Int /\ P[k].quantity # 0
    BY <1>1, <1>8, RowsTyped DEF SameStock, CostsOK, RowOK
  <1>11. UnitsTape(moves, w, v)
    <2>1. ASSUME NEW k \in 1 .. n PROVE v[k] = UnitsNext(v[k - 1], moves[k], w)
      <3>1. Kardex[k] = k /\ v[k] = UnitsNext(v[k - 1], P[Kardex[k]], w)
        BY <1>2, <1>9 DEF Tape
      <3>2. P[k].warehouse = moves[k].warehouse /\ P[k].quantity = moves[k].quantity
        BY <1>10
      <3> QED
        BY <3>1, <3>2 DEF UnitsNext
    <2> QED
      BY <1>1, <1>9, <2>1 DEF Tape, UnitsTape
  <1>12. \A k \in 0 .. n : u[k] = v[k]
    BY <1>1, <1>11, UnitsAgree
  <1>13. \A k \in 0 .. n : v[k] <= 0 => b[k] = 0
    <2>1. Rows(P, n, Kardex)
      BY <1>2, <1>10 DEF Rows
    <2> QED
      BY <1>9, <2>1, TapeBasis
  <1>14. ASSUME NEW k \in 1 .. n
         PROVE  /\ moves[k].warehouse # w => b[k] = b[k - 1]
                /\ moves[k].warehouse = w => LaidRow(D, k, u[k - 1], b[k - 1], b[k])
    <2>1. k - 1 \in 0 .. n /\ k \in 0 .. n /\ Kardex[k] = k
      BY <1>2
    <2>2. b[k] = BasisNext(v[k - 1], b[k - 1], P[k], w)
      BY <1>9, <2>1 DEF Tape
    <2>3. CASE moves[k].warehouse # w
      BY <1>10, <2>2, <2>3 DEF BasisNext
    <2>4. CASE moves[k].warehouse = w
      <3>1. PICK x, y : x = v[k - 1] /\ y = b[k - 1]
        OBVIOUS
      <3>2. x = r[k - 1].units[w] /\ y = r[k - 1].basis[w]
        BY <1>4, <1>5, <2>1, <3>1
      <3>3. /\ moves[k].quantity > 0 => LayeredReplay(D).unit[k] = SourceUnit(D, k) + Extra(D, k)
            /\ moves[k].quantity < 0 =>
                 /\ LayeredReplay(D).relief[k] = ReliefOf(x, y, Units(k), moves[k].cost)
                 /\ LayeredReplay(D).unit[k] = AverageOf(x, y, moves[k].cost)
        BY <1>1, <1>3, <2>4, <3>2, LaidOut
      <3>4. x <= 0 => y = 0
        BY <1>13, <2>1, <3>1
      <3>5. P[k].warehouse = w /\ P[k].quantity = moves[k].quantity /\ moves[k].quantity \in Int
        BY <1>10, <2>4
      <3>6. moves[k].quantity > 0 => b[k] = BasisIn(x, y, Units(k), LayeredReplay(D).unit[k])
        <4> SUFFICES ASSUME moves[k].quantity > 0
                     PROVE  b[k] = BasisIn(x, y, Units(k), LayeredReplay(D).unit[k])
          OBVIOUS
        <4>1. P[k].cost = LayeredReplay(D).unit[k]
          BY <1>1, <1>7 DEF Revalued, AtCost
        <4>2. Units(k) = moves[k].quantity
          BY <3>5 DEF Units, Absolute
        <4> QED
          BY <2>2, <3>1, <3>5, <4>1, <4>2 DEF BasisNext
      <3>7. moves[k].quantity < 0 => b[k] = BasisOut(x, y, Units(k), moves[k].cost)
        <4> SUFFICES ASSUME moves[k].quantity < 0
                     PROVE  b[k] = BasisOut(x, y, Units(k), moves[k].cost)
          OBVIOUS
        <4>1. ~(moves[k].quantity > 0)
          BY <3>5
        <4>2. P[k].cost = moves[k].cost
          BY <1>1, <1>7, <4>1 DEF Revalued, AtCost
        <4>3. Units(k) = -moves[k].quantity
          BY <3>5 DEF Units, Absolute
        <4> QED
          BY <2>2, <3>1, <3>5, <4>1, <4>2, <4>3 DEF BasisNext
      <3>8. LaidRow(D, k, x, y, b[k])
        BY <3>3, <3>4, <3>6, <3>7 DEF LaidRow
      <3> QED
        BY <1>12, <2>1, <2>4, <3>1, <3>8
    <2> QED
      BY <2>3, <2>4
  <1>15. b \in [0 .. n -> Nat] /\ b[0] = 0
    BY <1>9 DEF Tape
  <1>16. Layer(D, w, u, b)
    BY <1>1, <1>9, <1>14, <1>15 DEF Layer
  <1> QED
    BY <1>16
-----------------------------------------------------------------------------
(* What one more document does to what the receipts cost.                   *)
Grown(D, d) == D \cup {d}

ExtraGrows(D, d, i) == Extra(Grown(D, d), i) - Extra(D, i)
UnitGrows(D, d, i) == LayeredReplay(Grown(D, d)).unit[i] - LayeredReplay(D).unit[i]
ReliefGrows(D, d, i) == LayeredReplay(Grown(D, d)).relief[i] - LayeredReplay(D).relief[i]

ShareOn(D, i) == SumFunctionOnSet([d \in {e \in D : i \in DOMAIN costs[e].share} |-> costs[d].share[i]],
                                  {e \in D : i \in DOMAIN costs[e].share})

LEMMA ExtraOn ==
  ASSUME NEW D, NEW i
  PROVE  Extra(D, i) = HalfUp(Steps(ShareOn(D, i)), Units(i))
  BY Zenon DEF Extra, ShareOn, SumOf

LEMMA ExtraRests ==
  ASSUME NEW D, NEW d, NEW i, i \notin Receipts(d)
  PROVE  Extra(Grown(D, d), i) = Extra(D, i)
  <1>1. {e \in Grown(D, d) : i \in DOMAIN costs[e].share} = {e \in D : i \in DOMAIN costs[e].share}
    BY DEF Grown, Receipts
  <1>2. ShareOn(Grown(D, d), i) = ShareOn(D, i)
    BY <1>1 DEF ShareOn
  <1> QED
    BY <1>2, ExtraOn

\* Two roundings to the unit, of what the document's share is the difference.
LEMMA ExtraAdds ==
  ASSUME CostInv, NEW D \in SUBSET DOMAIN costs, NEW d \in DOMAIN costs \ D, NEW i \in Receipts(d),
         NEW X, X = Steps(costs[d].share[i]), NEW q, q = Units(i)
  PROVE  /\ X \in Nat /\ q \in Nat \ {0} /\ ExtraGrows(D, d, i) \in Int
         /\ X - q * ExtraGrows(D, d, i) <= q /\ -(X - q * ExtraGrows(D, d, i)) <= q
  <1>1. i \in DOMAIN moves /\ costs[d].share[i] \in Nat /\ SharesOK
    BY CostInvIs DEF DocsFit, DocFits, Receipts, ReceiptIn
  <1>2. X \in Nat /\ q \in Nat \ {0}
    BY <1>1, CostInvIs, StockAssumption, ProductNat DEF Steps
  <1>3. PICK S : S = {e \in D : i \in DOMAIN costs[e].share}
    OBVIOUS
  <1>4. {e \in Grown(D, d) : i \in DOMAIN costs[e].share} = S \cup {d} /\ d \notin S
    BY <1>3 DEF Grown, Receipts
  <1>5. PICK f : f = [e \in S |-> costs[e].share[i]]
    OBVIOUS
  <1>6. PICK g : g = [e \in S \cup {d} |-> costs[e].share[i]]
    OBVIOUS
  <1>7. IsFiniteSet(S) /\ IntOn(f, S) /\ \A e \in S : f[e] \in Nat
    <2>1. IsFiniteSet(S)
      BY <1>1, <1>3, FS_Subset DEF SharesOK
    <2>2. \A e \in S : f[e] \in Nat
      BY <1>1, <1>3, <1>5 DEF SharesOK
    <2> QED
      BY <2>1, <2>2 DEF IntOn
  <1>8. PICK a \in Nat : a = SumFunctionOnSet(f, S)
    BY <1>7, SumNat
  <1>9. PICK x \in Nat : x = costs[d].share[i]
    BY <1>1
  <1>10. SumFunctionOnSet(g, S \cup {d}) = a + x
    <2>1. g[d] = x /\ \A e \in S : g[e] = f[e]
      BY <1>5, <1>6, <1>9
    <2>2. PICK T : T = S \cup {d}
      OBVIOUS
    <2>2a. g[d] \in Int /\ \A e \in S : g[e] = f[e]
      BY <2>1
    <2>3. SumFunctionOnSet(g, T) = SumFunctionOnSet(f, S) + g[d]
      BY <1>4, <1>7, <2>2, <2>2a, SumAdded
    <2> QED
      BY <1>8, <2>1, <2>2, <2>3
  <1>11. ShareOn(D, i) = a /\ ShareOn(Grown(D, d), i) = a + x
    BY <1>3, <1>4, <1>5, <1>6, <1>8, <1>10 DEF ShareOn
  <1>12. PICK A \in Nat : A = Steps(a)
    BY ProductNat, StockAssumption DEF Steps
  <1>13. Steps(a + x) = A + X
    <2>1. (a + x) * Cent = a * Cent + x * Cent
      BY StockAssumption
    <2> QED
      BY <1>9, <1>12, <2>1 DEF Steps
  <1>14. PICK h \in Int : h = HalfUp(A, q) /\ 2 * (q * h) <= 2 * A + q /\ 2 * A <= 2 * (q * h) + q
    <2>1. A \in Int
      OBVIOUS
    <2> QED
      BY <1>2, <2>1, HalfUpIs
  <1>15. PICK k \in Int : k = HalfUp(A + X, q) /\ 2 * (q * k) <= 2 * (A + X) + q /\ 2 * (A + X) <= 2 * (q * k) + q
    <2>1. A + X \in Int
      BY <1>2
    <2> QED
      BY <1>2, <2>1, HalfUpIs
  <1>16. ExtraGrows(D, d, i) = k - h
    BY <1>11, <1>12, <1>13, <1>14, <1>15, ExtraOn DEF ExtraGrows
  <1>17. q * (k - h) = q * k - q * h /\ q * k \in Int /\ q * h \in Int
    BY <1>2
  <1>18. PICK y \in Int : y = q * k
    BY <1>17
  <1>19. PICK z \in Int : z = q * h
    BY <1>17
  <1>20. X - (y - z) <= q /\ -(X - (y - z)) <= q
    BY <1>2, <1>14, <1>15, <1>18, <1>19
  <1> QED
    BY <1>2, <1>16, <1>17, <1>18, <1>19, <1>20

\* Up to the first receipt that costs more the replays walk together.
LEMMA PathsAgree ==
  ASSUME ListInv(moves), NEW D, NEW E, NEW r, NEW t, LayeredPath(D, r), LayeredPath(E, t),
         NEW m \in 0 .. Len(moves), \A k \in 1 .. m : Extra(D, Kardex[k]) = Extra(E, Kardex[k])
  PROVE  \A k \in 0 .. m : r[k] = t[k]
  <1>1. PICK n \in Nat : n = Len(moves)
    BY LengthIs
  <1>2. PICK G : G = {k \in 0 .. m : r[k] = t[k]}
    OBVIOUS
  <1>3. 0 \in G /\ m \in Nat
    BY <1>1, <1>2 DEF LayeredPath
  <1>4. ASSUME NEW k \in 1 .. m, k - 1 \in G PROVE k \in G
    <2>1. k \in 1 .. n /\ r[k - 1] = t[k - 1]
      BY <1>1, <1>2, <1>4
    <2>2. r[k] = LayeredAt(D, r[k - 1], Kardex[k]) /\ t[k] = LayeredAt(E, t[k - 1], Kardex[k])
      BY <1>1, <2>1 DEF LayeredPath
    <2>3. PICK i : i = Kardex[k]
      OBVIOUS
    <2>4. PICK s : s = r[k - 1]
      OBVIOUS
    <2>5. Extra(D, i) = Extra(E, i)
      BY <2>3
    <2>6. LayeredAt(D, s, i) = LayeredAt(E, s, i)
      BY <2>5 DEF LayeredAt
    <2> QED
      BY <1>2, <2>1, <2>2, <2>3, <2>4, <2>6
  <1>5. \A k \in 0 .. m : k \in G
    BY <1>3, <1>4, StepByStep
  <1> QED
    BY <1>2, <1>5

\* Movements dated before the receipts of d are as they were.
LEMMA EarlyRows ==
  ASSUME CostInv, InOrder(moves), NEW D \in SUBSET DOMAIN costs, NEW d \in DOMAIN costs,
         NEW k \in DOMAIN moves, \A i \in Receipts(d) : moves[k].day < moves[i].day
  PROVE  UnitGrows(D, d, k) = 0 /\ ReliefGrows(D, d, k) = 0
  <1>1. PICK n \in Nat : n = Len(moves) /\ DOMAIN moves = 1 .. n
    BY CostInvIs, LengthIs
  <1>2. \A m \in 1 .. n : Kardex[m] = m
    BY <1>1, CostInvIs, KardexIsList DEF Ident
  <1>3. PICK E : E = Grown(D, d)
    OBVIOUS
  <1>4. /\ Extras(D) /\ Extras(E) /\ LayeredReplay(D) \in ReplayState /\ LayeredReplay(E) \in ReplayState
    <2>1. E \in SUBSET DOMAIN costs
      BY <1>3 DEF Grown
    <2> QED
      BY <2>1, ReplaysAre
  <1>5. PICK r : LayeredPath(D, r)
    BY <1>4, CostInvIs, LayeredWalks
  <1>6. PICK t : LayeredPath(E, t)
    BY <1>4, CostInvIs, LayeredWalks
  <1>7. \A j \in 1 .. k : Extra(D, Kardex[j]) = Extra(E, Kardex[j])
    <2> SUFFICES ASSUME NEW j \in 1 .. k PROVE Extra(D, j) = Extra(E, j)
      BY <1>1, <1>2
    <2>1. j \notin Receipts(d)
      <3> SUFFICES ASSUME j \in Receipts(d) PROVE FALSE
        OBVIOUS
      <3>1. j \in DOMAIN moves /\ moves[k].day < moves[j].day /\ j # k
        <4>1. j \in DOMAIN moves /\ moves[k].day < moves[j].day
          BY <1>1
        <4>2. moves[k].day \in Nat
          BY CostInvIs, RowsTyped DEF RowOK
        <4> QED
          BY <4>1, <4>2
      <3>2. j \in 1 .. (k - 1)
        BY <1>1, <3>1
      <3>3. ~(moves[j].day > moves[k].day)
        BY <3>2 DEF InOrder
      <3>4. moves[k].day \in Nat /\ moves[j].day \in Nat
        BY <3>1, CostInvIs, RowsTyped DEF RowOK
      <3> QED
        BY <3>1, <3>3, <3>4
    <2> QED
      BY <1>3, <2>1, ExtraRests
  <1>8. r[k] = t[k]
    <2>1. k \in 0 .. Len(moves) /\ k \in 0 .. k
      BY <1>1
    <2> QED
      BY <1>5, <1>6, <1>7, <2>1, CostInvIs, PathsAgree
  <1>9. k \in 1 .. Len(moves) /\ k = Kardex[k]
    BY <1>1, <1>2
  <1>10. /\ LayeredReplay(D).unit[k] = r[k].unit[k] /\ LayeredReplay(D).relief[k] = r[k].relief[k]
    BY <1>4, <1>5, <1>9, CostInvIs, PathKeeps
  <1>11. /\ LayeredReplay(E).unit[k] = t[k].unit[k] /\ LayeredReplay(E).relief[k] = t[k].relief[k]
    BY <1>4, <1>6, <1>9, CostInvIs, PathKeeps
  <1>12. LayeredReplay(D).unit[k] \in Nat /\ LayeredReplay(D).relief[k] \in Nat
    BY <1>4 DEF ReplayState
  <1> QED
    BY <1>3, <1>8, <1>10, <1>11, <1>12 DEF UnitGrows, ReliefGrows
-----------------------------------------------------------------------------
(* What a movement adds to the value of its warehouse, with the document    *)
(* and without it, against what its adjustment books.                       *)
LEMMA TimesCancel ==
  ASSUME NEW q \in Nat \ {0}, NEW x \in Int, NEW y \in Int, q * x <= q * y
  PROVE  x <= y
  <1> SUFFICES ASSUME ~(x <= y) PROVE FALSE
    OBVIOUS
  <1>1. y + 1 <= x /\ y + 1 \in Int
    OBVIOUS
  <1>2. q * (y + 1) <= q * x
    BY <1>1, ProductGrows
  <1>3. q * (y + 1) = q * y + q /\ q * y \in Int /\ q * x \in Int
    OBVIOUS
  <1> QED
    BY <1>2, <1>3

\* q units cost X together: Q of them are valued at h, S at g.
LEMMA TwoRoundings ==
  ASSUME NEW q \in Nat \ {0}, NEW Q \in Nat, NEW S \in Nat, Q + S = q,
         NEW X \in Int, NEW h \in Int, NEW g \in Int,
         X - q * h <= q, -(X - q * h) <= q, X - q * g <= q, -(X - q * g) <= q
  PROVE  X - Q * h - S * g <= q /\ -(X - Q * h - S * g) <= q
  <1>1. PICK a \in Int : a = X - q * h
    OBVIOUS
  <1>2. PICK b \in Int : b = X - q * g
    OBVIOUS
  <1>3. PICK v \in Int : v = X - Q * h - S * g
    OBVIOUS
  <1>4. a <= q /\ -q <= a /\ b <= q /\ -q <= b /\ -q \in Int
    BY <1>1, <1>2
  <1>5. Q * a <= Q * q /\ Q * (-q) <= Q * a /\ S * b <= S * q /\ S * (-q) <= S * b
    <2>1. Q * a <= Q * q
      BY <1>4, ProductGrows
    <2>2. Q * (-q) <= Q * a
      BY <1>4, ProductGrows
    <2>3. S * b <= S * q
      BY <1>4, ProductGrows
    <2>4. S * (-q) <= S * b
      BY <1>4, ProductGrows
    <2> QED
      BY <2>1, <2>2, <2>3, <2>4
  <1>6. q * v = Q * a + S * b
    <2>1. q * v = Q * v + S * v
      OBVIOUS
    <2>2. Q * v = Q * X - Q * (Q * h) - Q * (S * g)
      BY <1>3
    <2>3. S * v = S * X - S * (Q * h) - S * (S * g)
      BY <1>3
    <2>4. Q * a = Q * X - Q * (Q * h) - Q * (S * h)
      BY <1>1
    <2>5. S * b = S * X - S * (Q * g) - S * (S * g)
      BY <1>2
    <2>6. Q * (S * g) = S * (Q * g) /\ S * (Q * h) = Q * (S * h)
      OBVIOUS
    <2>7. /\ Q * X \in Int /\ S * X \in Int /\ Q * (Q * h) \in Int /\ Q * (S * g) \in Int
          /\ S * (Q * h) \in Int /\ S * (S * g) \in Int
      OBVIOUS
    <2> QED
      BY <2>1, <2>2, <2>3, <2>4, <2>5, <2>6, <2>7
  <1>7. q * q = Q * q + S * q /\ q * (-q) = Q * (-q) + S * (-q)
    OBVIOUS
  <1>8. q * v <= q * q /\ q * (-q) <= q * v
    <2>1. /\ Q * a \in Int /\ S * b \in Int /\ Q * q \in Int /\ S * q \in Int
          /\ Q * (-q) \in Int /\ S * (-q) \in Int
      OBVIOUS
    <2> QED
      BY <1>5, <1>6, <1>7, <2>1
  <1>9. v <= q
    BY <1>8, TimesCancel
  <1>10. -q <= v
    BY <1>4, <1>8, TimesCancel
  <1> QED
    BY <1>3, <1>9, <1>10

\* An issue of q of x units, from the bases y and yy.
LEMMA OutGrows ==
  ASSUME NEW x \in Int, NEW q \in Nat \ {0}, NEW cost \in Nat, NEW y \in Nat, NEW yy \in Nat,
         x <= 0 \/ x >= q, x <= 0 => y = 0 /\ yy = 0,
         NEW r, r = ReliefOf(x, y, q, cost), NEW rr, rr = ReliefOf(x, yy, q, cost),
         NEW z, z = BasisOut(x, y, q, cost), NEW zz, zz = BasisOut(x, yy, q, cost),
         NEW c, c = AverageOf(x, y, cost), NEW cc, cc = AverageOf(x, yy, cost)
  PROVE  /\ r \in Nat /\ rr \in Nat /\ z \in Nat /\ zz \in Nat /\ c \in Nat /\ cc \in Nat
         /\ (rr - r) + ((zz - yy) - (z - y)) <= q
         /\ -((rr - r) + ((zz - yy) - (z - y))) <= q
         /\ x >= q => rr - r = q * (cc - c)
  <1>1. CASE x <= 0
    <2>1. z = 0 /\ zz = 0 /\ c = cost /\ cc = cost /\ Over(Least(q, x)) = 0
      BY <1>1 DEF BasisOut, AverageOf, Over, Least
    <2>2. r = 0 /\ rr = 0
      BY <2>1 DEF ReliefOf
    <2> QED
      BY <1>1, <2>1, <2>2
  <1>2. CASE x >= q
    <2>1. x \in Nat /\ x > 0
      BY <1>2
    <2>2. c = HalfUp(y, x) /\ cc = HalfUp(yy, x) /\ Over(Least(q, x)) = q
      BY <1>2, <2>1 DEF AverageOf, Over, Least
    <2>3. r = q * c /\ rr = q * cc
      BY <2>2 DEF ReliefOf
    <2>4. z = BasisOut(x, y, q, c) /\ zz = BasisOut(x, yy, q, cc)
      BY <2>1 DEF BasisOut, ReliefOf, AverageOf
    <2>5. c \in Nat /\ z \in Nat /\ 2 * (z - y + q * c) <= q /\ -(2 * (z - y + q * c)) <= q
      BY <1>2, <2>1, <2>2, <2>4, OutNear
    <2>6. cc \in Nat /\ zz \in Nat /\ 2 * (zz - yy + q * cc) <= q /\ -(2 * (zz - yy + q * cc)) <= q
      BY <1>2, <2>1, <2>2, <2>4, OutNear
    <2>7. r \in Nat /\ rr \in Nat
      BY <2>3, <2>5, <2>6, ProductNat
    <2>8. /\ (rr - r) + ((zz - yy) - (z - y)) <= q
          /\ -((rr - r) + ((zz - yy) - (z - y))) <= q
      BY <2>3, <2>5, <2>6, <2>7
    <2>9. rr - r = q * (cc - c)
      BY <2>3, <2>5, <2>6
    <2> QED
      BY <2>5, <2>6, <2>7, <2>8, <2>9
  <1> QED
    BY <1>1, <1>2
-----------------------------------------------------------------------------
(* The rows of a regular history with one document more.                    *)
Compared(D, d) == HistoryInv /\ RegularIn(moves) /\ D \subseteq DOMAIN costs /\ d \in DOMAIN costs \ D

LEMMA ComparedIs ==
  ASSUME NEW D, NEW d, Compared(D, d)
  PROVE  /\ CostInv /\ ListInv(moves) /\ CostsOK(moves) /\ InOrder(moves) /\ LinksFit(moves, links)
         /\ AllTold(moves, links) /\ Paired(moves) /\ LinksHome(moves, links)
         /\ \A k \in DOMAIN moves : ~Rough(moves[k]) /\ Units(k) \in Nat \ {0}
         /\ D \in SUBSET DOMAIN costs /\ Grown(D, d) \in SUBSET DOMAIN costs /\ d \in DOMAIN costs
         /\ Extras(D) /\ Extras(Grown(D, d))
         /\ LayeredReplay(D) \in ReplayState /\ LayeredReplay(Grown(D, d)) \in ReplayState
  <1>1. CostInv /\ History(moves, links) /\ RegularIn(moves)
    BY DEF Compared, HistoryInv
  <1>2. D \in SUBSET DOMAIN costs /\ Grown(D, d) \in SUBSET DOMAIN costs /\ d \in DOMAIN costs
    BY DEF Compared, Grown
  <1>3. /\ Extras(D) /\ Extras(Grown(D, d))
        /\ LayeredReplay(D) \in ReplayState /\ LayeredReplay(Grown(D, d)) \in ReplayState
    BY <1>1, <1>2, ReplaysAre
  <1>4. AllTold(moves, links) /\ Paired(moves) /\ LinksHome(moves, links)
    BY <1>1 DEF History
  <1> QED
    BY <1>1, <1>2, <1>3, <1>4, CostInvIs DEF RegularIn

LEMMA RegularKinds ==
  ASSUME NEW D, NEW d, Compared(D, d), NEW k \in DOMAIN moves
  PROVE  /\ moves[k].quantity \in Int /\ moves[k].warehouse \in Warehouse
         /\ moves[k].quantity < 0 => moves[k].type \in {"SALES_ISSUE", "TRANSFER_OUT"} /\ Units(k) = -moves[k].quantity
         /\ moves[k].quantity > 0 =>
              /\ moves[k].type \in {"OPENING", "PURCHASE_RECEIPT", "SALES_RETURN", "TRANSFER_IN"}
              /\ Units(k) = moves[k].quantity
         /\ moves[k].quantity < 0 \/ moves[k].quantity > 0
         /\ moves[k].type = "PURCHASE_RECEIPT" => Receipt(moves[k])
  <1>1. PICK row : row = moves[k]
    OBVIOUS
  <1>2. /\ row.type \in InTypes \cup OutTypes /\ row.quantity \in Int /\ row.quantity # 0
        /\ row.quantity > 0 <=> row.type \in InTypes
        /\ row.warehouse \in Warehouse /\ ~Rough(row)
    BY <1>1, ComparedIs, RowsTyped DEF RowOK
  <1>3. row.quantity < 0 => row.type \in {"SALES_ISSUE", "TRANSFER_OUT"}
    BY <1>2 DEF Rough, InTypes, OutTypes
  <1>4. row.quantity > 0 => row.type \in {"OPENING", "PURCHASE_RECEIPT", "SALES_RETURN", "TRANSFER_IN"}
    BY <1>2 DEF Rough, InTypes, OutTypes
  <1>5. row.type = "PURCHASE_RECEIPT" => row.src = 0
    <2> SUFFICES ASSUME row.type = "PURCHASE_RECEIPT", row.src # 0 PROVE FALSE
      OBVIOUS
    <2>1. row.src \in DOMAIN moves /\ moves[row.src].type = "PURCHASE_RETURN"
      BY <1>1, ComparedIs DEF ListInv, RowsStand, Kind, Returns, TakesBack, ReturnTypes
    <2> QED
      BY <2>1, ComparedIs DEF Rough
  <1> QED
    BY <1>1, <1>2, <1>3, <1>4, <1>5 DEF Receipt, Units, Absolute

\* The units of a warehouse and its bases without the document and with it.
Lay(D, d, w, p) ==
  Told(moves, links, w, p.units) /\ Layer(D, w, p.units, p.old) /\ Layer(Grown(D, d), w, p.units, p.new)

TapeOf(D, d, w) == CHOOSE p : Lay(D, d, w, p)

LEMMA LaysHold ==
  ASSUME NEW D, NEW d, Compared(D, d), NEW w \in Warehouse
  PROVE  Lay(D, d, w, TapeOf(D, d, w))
  <1>1. PICK u : Told(moves, links, w, u)
    BY ComparedIs DEF AllTold
  <1>2. UnitsTape(moves, w, u)
    BY <1>1 DEF Told
  <1>3. PICK b : Layer(D, w, u, b)
    BY <1>2, ComparedIs, Layers
  <1>4. PICK c : Layer(Grown(D, d), w, u, c)
    BY <1>2, ComparedIs, Layers
  <1>5. PICK p : p = [units |-> u, old |-> b, new |-> c]
    OBVIOUS
  <1>6. Lay(D, d, w, p)
    BY <1>1, <1>3, <1>4, <1>5 DEF Lay
  <1> QED
    BY <1>6, Zenon DEF TapeOf

\* What movement k adds to the value of its warehouse with the document more
\* than without it.
RowGain(D, d, k) ==
  LET p == TapeOf(D, d, moves[k].warehouse)
  IN (p.new[k] - p.new[k - 1]) - (p.old[k] - p.old[k - 1])

\* What the rows of a layer have: x units and the bases y and yy before k, z
\* and zz after it.
RowLaid(D, d, k, x, y, yy, z, zz) ==
  /\ x \in Int /\ y \in Nat /\ yy \in Nat /\ z \in Nat /\ zz \in Nat
  /\ SoundRow(moves[k], x)
  /\ Receipt(moves[k]) => Taken(links, k) = Least(moves[k].quantity, Over(-x))
  /\ LaidRow(D, k, x, y, z) /\ LaidRow(Grown(D, d), k, x, yy, zz)
  /\ RowGain(D, d, k) = (zz - yy) - (z - y)

LEMMA RowIsLaid ==
  ASSUME NEW D, NEW d, Compared(D, d), NEW k \in DOMAIN moves
  PROVE  \E x, y, yy, z, zz : RowLaid(D, d, k, x, y, yy, z, zz)
  <1>1. PICK w \in Warehouse : w = moves[k].warehouse
    BY RegularKinds
  <1>2. PICK p : p = TapeOf(D, d, w)
    OBVIOUS
  <1>3. Told(moves, links, w, p.units) /\ Layer(D, w, p.units, p.old) /\ Layer(Grown(D, d), w, p.units, p.new)
    BY <1>2, LaysHold DEF Lay
  <1>4. PICK n \in Nat : n = Len(moves) /\ DOMAIN moves = 1 .. n
    BY ComparedIs, LengthIs
  <1>5. k \in 1 .. n /\ k \in 0 .. n /\ k - 1 \in 0 .. n
    BY <1>4
  <1>6. PICK x \in Int : x = p.units[k - 1]
    BY <1>3, <1>4, <1>5 DEF Told, UnitsTape
  <1>7. PICK y, z \in Nat : y = p.old[k - 1] /\ z = p.old[k]
    BY <1>3, <1>4, <1>5 DEF Layer
  <1>8. PICK yy, zz \in Nat : yy = p.new[k - 1] /\ zz = p.new[k]
    BY <1>3, <1>4, <1>5 DEF Layer
  <1>9. /\ SoundRow(moves[k], x)
        /\ Receipt(moves[k]) => Taken(links, k) = Least(moves[k].quantity, Over(-x))
    BY <1>1, <1>3, <1>6 DEF Told
  <1>10. LaidRow(D, k, x, y, z)
    BY <1>1, <1>3, <1>4, <1>5, <1>6, <1>7 DEF Layer
  <1>11. LaidRow(Grown(D, d), k, x, yy, zz)
    BY <1>1, <1>3, <1>4, <1>5, <1>6, <1>8 DEF Layer
  <1>12. RowGain(D, d, k) = (zz - yy) - (z - y)
    BY <1>1, <1>2, <1>7, <1>8 DEF RowGain
  <1> QED
    BY <1>9, <1>10, <1>11, <1>12 DEF RowLaid

LEMMA GrowsInt ==
  ASSUME NEW D, NEW d, Compared(D, d), NEW k \in DOMAIN moves
  PROVE  /\ UnitGrows(D, d, k) \in Int /\ ReliefGrows(D, d, k) \in Int /\ ExtraGrows(D, d, k) \in Int
         /\ LayeredReplay(D).unit[k] \in Nat /\ LayeredReplay(Grown(D, d)).unit[k] \in Nat
         /\ RowGain(D, d, k) \in Int
  <1>1. /\ LayeredReplay(D).unit[k] \in Nat /\ LayeredReplay(Grown(D, d)).unit[k] \in Nat
        /\ LayeredReplay(D).relief[k] \in Nat /\ LayeredReplay(Grown(D, d)).relief[k] \in Nat
        /\ Extra(D, k) \in Nat /\ Extra(Grown(D, d), k) \in Nat
    BY ComparedIs DEF ReplayState, Extras
  <1>2. RowGain(D, d, k) \in Int
    BY RowIsLaid DEF RowLaid
  <1> QED
    BY <1>1, <1>2 DEF UnitGrows, ReliefGrows, ExtraGrows

\* An issue takes what it relieves; a transfer relieves its quantity at its unit.
LEMMA IssueGrows ==
  ASSUME NEW D, NEW d, Compared(D, d), NEW k \in DOMAIN moves, moves[k].quantity < 0, NEW q, q = Units(k)
  PROVE  /\ ReliefGrows(D, d, k) + RowGain(D, d, k) <= q
         /\ -(ReliefGrows(D, d, k) + RowGain(D, d, k)) <= q
         /\ moves[k].type = "TRANSFER_OUT" => ReliefGrows(D, d, k) = q * UnitGrows(D, d, k)
  <1>1. PICK x, y, yy, z, zz : RowLaid(D, d, k, x, y, yy, z, zz)
    BY RowIsLaid
  <1>2. x \in Int /\ y \in Nat /\ yy \in Nat /\ SoundRow(moves[k], x) /\ q \in Nat \ {0} /\ q = -moves[k].quantity
    BY <1>1, RegularKinds, ComparedIs DEF RowLaid
  <1>3. IF Obliges(moves[k], moves[k].warehouse) THEN x <= 0 ELSE x >= q
    BY <1>2, RegularKinds DEF SoundRow
  <1>4. x <= 0 \/ x >= q
    BY <1>3
  <1>5. PICK cost \in Nat : cost = moves[k].cost
    BY ComparedIs DEF CostsOK
  <1>6. PICK r : r = LayeredReplay(D).relief[k]
    OBVIOUS
  <1>7. PICK rr : rr = LayeredReplay(Grown(D, d)).relief[k]
    OBVIOUS
  <1>8. PICK c : c = LayeredReplay(D).unit[k]
    OBVIOUS
  <1>9. PICK cc : cc = LayeredReplay(Grown(D, d)).unit[k]
    OBVIOUS
  <1>10. /\ x <= 0 => y = 0
         /\ z = BasisOut(x, y, q, cost) /\ r = ReliefOf(x, y, q, cost) /\ c = AverageOf(x, y, cost)
    BY <1>1, <1>2, <1>5, <1>6, <1>8 DEF RowLaid, LaidRow
  <1>11. /\ x <= 0 => yy = 0
         /\ zz = BasisOut(x, yy, q, cost) /\ rr = ReliefOf(x, yy, q, cost) /\ cc = AverageOf(x, yy, cost)
    BY <1>1, <1>2, <1>5, <1>7, <1>9 DEF RowLaid, LaidRow
  <1>12. /\ (rr - r) + ((zz - yy) - (z - y)) <= q
         /\ -((rr - r) + ((zz - yy) - (z - y))) <= q
         /\ x >= q => rr - r = q * (cc - c)
    BY <1>2, <1>4, <1>10, <1>11, OutGrows
  <1>13. ReliefGrows(D, d, k) = rr - r /\ UnitGrows(D, d, k) = cc - c
    BY <1>6, <1>7, <1>8, <1>9 DEF ReliefGrows, UnitGrows
  <1>14. RowGain(D, d, k) = (zz - yy) - (z - y)
    BY <1>1 DEF RowLaid
  <1>15. moves[k].type = "TRANSFER_OUT" => x >= q
    BY <1>3 DEF Obliges
  <1> QED
    BY <1>12, <1>13, <1>14, <1>15

\* Goods that arrive add what they cost, but for those that fill what was owed.
LEMMA ArrivalGrows ==
  ASSUME NEW D, NEW d, Compared(D, d), NEW k \in DOMAIN moves, moves[k].quantity > 0, NEW q, q = Units(k)
  PROVE  /\ Receipt(moves[k]) => /\ Taken(links, k) \in Nat /\ q - Taken(links, k) \in Nat
                                 /\ RowGain(D, d, k) = (q - Taken(links, k)) * UnitGrows(D, d, k)
         /\ ~Receipt(moves[k]) => RowGain(D, d, k) = q * UnitGrows(D, d, k)
         /\ moves[k].type \notin {"TRANSFER_IN", "SALES_RETURN"} => UnitGrows(D, d, k) = ExtraGrows(D, d, k)
         /\ moves[k].type \in {"TRANSFER_IN", "SALES_RETURN"} =>
              UnitGrows(D, d, k) = UnitGrows(D, d, moves[k].src) + ExtraGrows(D, d, k)
  <1>1. PICK x, y, yy, z, zz : RowLaid(D, d, k, x, y, yy, z, zz)
    BY RowIsLaid
  <1>2. x \in Int /\ y \in Nat /\ yy \in Nat /\ SoundRow(moves[k], x) /\ q \in Nat \ {0} /\ q = moves[k].quantity
    BY <1>1, RegularKinds, ComparedIs DEF RowLaid
  <1>3. Receipt(moves[k]) \/ x >= 0
    BY <1>2 DEF SoundRow
  <1>4. PICK c : c = LayeredReplay(D).unit[k]
    OBVIOUS
  <1>5. PICK cc : cc = LayeredReplay(Grown(D, d)).unit[k]
    OBVIOUS
  <1>6. c \in Nat /\ cc \in Nat
    BY <1>4, <1>5, GrowsInt
  <1>7. (x <= 0 => y = 0) /\ z = BasisIn(x, y, q, c) /\ c = SourceUnit(D, k) + Extra(D, k)
    BY <1>1, <1>4 DEF RowLaid, LaidRow
  <1>8. (x <= 0 => yy = 0) /\ zz = BasisIn(x, yy, q, cc) /\ cc = SourceUnit(Grown(D, d), k) + Extra(Grown(D, d), k)
    BY <1>1, <1>5 DEF RowLaid, LaidRow
  <1>9. PICK Q : Q = Least(q, Over(-x))
    OBVIOUS
  <1>10. /\ Q \in Nat /\ q - Q \in Nat
         /\ (zz - yy) - (z - y) = (q - Q) * (cc - c)
         /\ x >= 0 => (zz - yy) - (z - y) = q * (cc - c)
    <2>1. CASE x >= 0
      <3>1. Q = 0 /\ z = y + q * c /\ zz = yy + q * cc
        BY <1>2, <1>7, <1>8, <1>9, <2>1 DEF Least, Over, BasisIn
      <3>2. q * c \in Nat /\ q * cc \in Nat
        BY <1>2, <1>6, ProductNat
      <3>3. q * (cc - c) = q * cc - q * c
        BY <1>2, <1>6
      <3> QED
        BY <1>2, <3>1, <3>2, <3>3
    <2>2. CASE x < 0
      <3>1. PICK s \in Nat : s = Over(x + q)
        BY <1>2 DEF Over
      <3>2. Q = q - s /\ q - Q = s /\ Q \in Nat
        BY <1>2, <1>9, <2>2, <3>1 DEF Least, Over
      <3>3. z = s * c /\ zz = s * cc /\ y = 0 /\ yy = 0
        BY <1>2, <1>7, <1>8, <2>2, <3>1 DEF BasisIn
      <3>4. s * c \in Nat /\ s * cc \in Nat
        BY <1>6, ProductNat
      <3>5. s * (cc - c) = s * cc - s * c
        BY <1>6
      <3>6. PICK m, mm \in Nat : m = s * c /\ mm = s * cc
        BY <3>4
      <3>7. (zz - yy) - (z - y) = mm - m /\ s * (cc - c) = mm - m
        BY <3>3, <3>5, <3>6
      <3>8. (q - Q) * (cc - c) = s * (cc - c) /\ q - Q \in Nat
        BY <3>2
      <3> QED
        BY <1>2, <2>2, <3>2, <3>7, <3>8
    <2> QED
      BY <1>2, <2>1, <2>2
  <1>11. UnitGrows(D, d, k) = cc - c /\ RowGain(D, d, k) = (zz - yy) - (z - y)
    BY <1>1, <1>4, <1>5 DEF RowLaid, UnitGrows
  <1>12. Receipt(moves[k]) => Taken(links, k) = Q
    BY <1>1, <1>2, <1>9 DEF RowLaid
  <1>13. Extra(D, k) \in Nat /\ Extra(Grown(D, d), k) \in Nat
    BY ComparedIs DEF Extras
  <1>14. moves[k].type \notin {"TRANSFER_IN", "SALES_RETURN"} => UnitGrows(D, d, k) = ExtraGrows(D, d, k)
    <2> SUFFICES ASSUME moves[k].type \notin {"TRANSFER_IN", "SALES_RETURN"}
                 PROVE  cc - c = Extra(Grown(D, d), k) - Extra(D, k)
      BY <1>11 DEF ExtraGrows
    <2>1. PICK cost \in Nat : cost = moves[k].cost
      BY ComparedIs DEF CostsOK
    <2>2. c = cost + Extra(D, k) /\ cc = cost + Extra(Grown(D, d), k)
      BY <1>7, <1>8, <2>1 DEF SourceUnit
    <2> QED
      BY <1>13, <2>2
  <1>15. moves[k].type \in {"TRANSFER_IN", "SALES_RETURN"} =>
           UnitGrows(D, d, k) = UnitGrows(D, d, moves[k].src) + ExtraGrows(D, d, k)
    <2> SUFFICES ASSUME moves[k].type \in {"TRANSFER_IN", "SALES_RETURN"}
                 PROVE  cc - c = UnitGrows(D, d, moves[k].src) + ExtraGrows(D, d, k)
      BY <1>11
    <2>1. PICK j \in DOMAIN moves : j = moves[k].src
      BY SourceIn, ComparedIs
    <2>2. LayeredReplay(D).unit[j] \in Nat /\ LayeredReplay(Grown(D, d)).unit[j] \in Nat
      BY GrowsInt
    <2>3. /\ c = LayeredReplay(D).unit[j] + Extra(D, k)
          /\ cc = LayeredReplay(Grown(D, d)).unit[j] + Extra(Grown(D, d), k)
      BY <1>7, <1>8, <2>1 DEF SourceUnit
    <2> QED
      BY <1>13, <2>1, <2>2, <2>3 DEF UnitGrows, ExtraGrows
  <1> QED
    BY <1>3, <1>10, <1>11, <1>12, <1>14, <1>15
-----------------------------------------------------------------------------
(* What the adjustments of a document book on movement k, in cents.         *)
Ch(D, d, k) == Change(LayeredReplay(D), LayeredReplay(Grown(D, d)), k)

ServedAt(k) == {l \in links : l.receipt = k}

Booked(D, d, k) ==
  IF k \in Receipts(d) THEN costs[d].share[k] - ShareSum(d, ServedAt(k))
  ELSE IF moves[k].type \in {"SALES_ISSUE", "TRANSFER_OUT"} THEN -Ch(D, d, k)
  ELSE IF moves[k].type = "SALES_RETURN" THEN Ch(D, d, k)
  ELSE IF moves[k].type = "TRANSFER_IN" THEN Ch(D, d, k - 1)
  ELSE 0

Grain(k) == 2 * Units(k) + Cent * (1 + Cardinality(ServedAt(k)))

LEMMA ChangeNear ==
  ASSUME NEW D, NEW d, Compared(D, d), NEW k \in DOMAIN moves,
         NEW n, n = IF Is(k, "SALES_RETURN") THEN Units(k) * UnitGrows(D, d, k) ELSE ReliefGrows(D, d, k)
  PROVE  /\ n \in Int /\ Ch(D, d, k) \in Int /\ Cent * Ch(D, d, k) \in Int
         /\ 2 * (Cent * Ch(D, d, k) - n) <= Cent /\ -(2 * (Cent * Ch(D, d, k) - n)) <= Cent
  <1>1. UnitGrows(D, d, k) \in Int /\ ReliefGrows(D, d, k) \in Int /\ Units(k) \in Nat
    BY GrowsInt, ComparedIs
  <1>2. n \in Int
    BY <1>1
  <1>3. Ch(D, d, k) = HalfUp(n, Cent)
    BY DEF Ch, Change, UnitGrows, ReliefGrows
  <1>4. PICK h : h = HalfUp(n, Cent)
    OBVIOUS
  <1>5. h \in Int /\ 2 * (Cent * h) <= 2 * n + Cent /\ 2 * n <= 2 * (Cent * h) + Cent
    BY <1>2, <1>4, HalfUpIs, StockAssumption
  <1>6. PICK c \in Int : c = Cent * h
    BY <1>5, StockAssumption
  <1>7. Cent \in Int
    BY StockAssumption
  <1>8. 2 * (c - n) <= Cent /\ -(2 * (c - n)) <= Cent
    BY <1>2, <1>5, <1>6, <1>7
  <1> QED
    BY <1>2, <1>3, <1>4, <1>5, <1>6, <1>8

LEMMA ServedIs ==
  ASSUME NEW D, NEW d, Compared(D, d), NEW k
  PROVE  /\ ServedAt(k) \in SUBSET links /\ IsFiniteSet(ServedAt(k)) /\ Cardinality(ServedAt(k)) \in Nat
         /\ Taken(links, k) = SumFunctionOnSet(Amounts(links), ServedAt(k))
         /\ \A l \in ServedAt(k) : l.quantity \in Nat
         /\ k \in Receipts(d) => ServedAt(k) \subseteq Linked(d)
  <1>1. ServedAt(k) \in SUBSET links /\ IsFiniteSet(links)
    BY ComparedIs DEF ServedAt, LinksFit
  <1>2. IsFiniteSet(ServedAt(k))
    BY <1>1, FS_Subset
  <1>3. Cardinality(ServedAt(k)) \in Nat
    BY <1>2, FS_CardinalityType
  <1>4. \A l \in ServedAt(k) : l.quantity \in Nat
    BY <1>1, ComparedIs DEF LinksFit
  <1> QED
    BY <1>1, <1>2, <1>3, <1>4 DEF Taken, ServedAt, Linked

\* The shares of the links of a receipt, against the units they served.
LEMMA LinkSharesNear ==
  ASSUME NEW D, NEW d, Compared(D, d), NEW k \in Receipts(d), NEW h,
         h = HalfUp(Steps(costs[d].share[k]), Units(k)), h \in Int, Taken(links, k) \in Nat,
         NEW T, T = ShareSum(d, ServedAt(k))
  PROVE  /\ T \in Nat /\ Cent * T \in Int
         /\ 2 * (Cent * T - Taken(links, k) * h) <= Cent * Cardinality(ServedAt(k))
         /\ -(2 * (Cent * T - Taken(links, k) * h)) <= Cent * Cardinality(ServedAt(k))
  <1>1. PICK S : S = ServedAt(k)
    OBVIOUS
  <1>2. /\ S \in SUBSET links /\ IsFiniteSet(S) /\ Cardinality(S) \in Nat /\ S \subseteq Linked(d)
        /\ Taken(links, k) = SumFunctionOnSet(Amounts(links), S)
        /\ \A l \in S : l.quantity \in Nat
    BY <1>1, ServedIs
  <1>3. PICK f : f = [l \in S |-> LinkShare(d, l)]
    OBVIOUS
  <1>4. PICK g : g = Amounts(links)
    OBVIOUS
  <1>5. \A l \in S : f[l] = HalfUp(l.quantity * h, Cent) /\ g[l] = l.quantity
    BY <1>1, <1>2, <1>3, <1>4 DEF LinkShare, Amounts, ServedAt
  <1>6. ASSUME NEW l \in S
        PROVE  /\ f[l] \in Int /\ g[l] \in Int
               /\ (2 * Cent) * f[l] <= (2 * h) * g[l] + Cent
               /\ (-(2 * Cent)) * f[l] <= (-(2 * h)) * g[l] + Cent
    <2>1. PICK n \in Int : n = l.quantity * h
      BY <1>2
    <2>2. HalfUp(n, Cent) \in Int /\ 2 * (Cent * HalfUp(n, Cent)) <= 2 * n + Cent
                                  /\ 2 * n <= 2 * (Cent * HalfUp(n, Cent)) + Cent
      BY HalfUpIs, StockAssumption
    <2>3. PICK b \in Int : b = HalfUp(n, Cent) /\ f[l] = b
      BY <1>5, <2>1, <2>2
    <2>4. PICK c \in Int : c = Cent * b
      BY StockAssumption
    <2>5. (2 * Cent) * b = 2 * c /\ (-(2 * Cent)) * b = -(2 * c)
      BY <2>4, StockAssumption
    <2>6. PICK a \in Nat : a = l.quantity /\ g[l] = a
      BY <1>2, <1>5
    <2>7. (2 * h) * a = 2 * n /\ (-(2 * h)) * a = -(2 * n)
      BY <2>1, <2>6
    <2>8. 2 * c <= 2 * n + Cent /\ 2 * n <= 2 * c + Cent
      BY <2>2, <2>3, <2>4
    <2> QED
      BY <2>1, <2>3, <2>4, <2>5, <2>6, <2>7, <2>8, StockAssumption
  <1>7. IntOn(f, S) /\ IntOn(g, S)
    BY <1>6 DEF IntOn
  <1>8. PICK Q \in Nat : Q = SumFunctionOnSet(g, S) /\ Q = Taken(links, k)
    BY <1>2, <1>4
  <1>9. T = SumFunctionOnSet(f, S)
    BY <1>1, <1>3 DEF ShareSum
  <1>10. T \in Nat
    <2>1. d \in DOMAIN costs /\ CostInv
      BY ComparedIs
    <2> QED
      BY <1>1, <1>2, <2>1, SharesSum
  <1>11. PICK m \in Nat : m = Cardinality(S)
    BY <1>2
  <1>12. PICK a, b, aa, bb \in Int : a = 2 * Cent /\ b = 2 * h /\ aa = -(2 * Cent) /\ bb = -(2 * h)
    BY StockAssumption
  <1>13. Cent \in Int
    BY StockAssumption
  <1>14. a * T <= b * Q + Cent * m
    <2>1. \A l \in S : a * f[l] <= b * g[l] + Cent
      BY <1>6, <1>12
    <2>2. a * SumFunctionOnSet(f, S) <= b * SumFunctionOnSet(g, S) + Cent * Cardinality(S)
      BY <1>2, <1>7, <1>13, <2>1, SumLinear
    <2> QED
      BY <1>8, <1>9, <1>11, <2>2
  <1>15. aa * T <= bb * Q + Cent * m
    <2>1. \A l \in S : aa * f[l] <= bb * g[l] + Cent
      BY <1>6, <1>12
    <2>2. aa * SumFunctionOnSet(f, S) <= bb * SumFunctionOnSet(g, S) + Cent * Cardinality(S)
      BY <1>2, <1>7, <1>13, <2>1, SumLinear
    <2> QED
      BY <1>8, <1>9, <1>11, <2>2
  <1>16. PICK c \in Int : c = Cent * T
    BY <1>10, <1>13
  <1>17. PICK e \in Int : e = Q * h
    OBVIOUS
  <1>18. PICK o \in Int : o = Cent * m
    BY <1>13
  <1>19. a * T = 2 * c /\ aa * T = -(2 * c) /\ b * Q = 2 * e /\ bb * Q = -(2 * e)
    BY <1>10, <1>12, <1>13, <1>16, <1>17
  <1>20. 2 * (c - e) <= o /\ -(2 * (c - e)) <= o
    BY <1>14, <1>15, <1>18, <1>19
  <1> QED
    BY <1>1, <1>8, <1>10, <1>11, <1>16, <1>17, <1>18, <1>20

Fits(D, d, k) ==
  /\ Booked(D, d, k) \in Int /\ Grain(k) \in Nat
  /\ 2 * (Cent * Booked(D, d, k) - RowGain(D, d, k)) <= Grain(k)
  /\ -(2 * (Cent * Booked(D, d, k) - RowGain(D, d, k))) <= Grain(k)

\* A gap within a cent and two steps per unit is within the grain.
LEMMA FitsWhen ==
  ASSUME NEW D, NEW d, Compared(D, d), NEW k \in DOMAIN moves, NEW b \in Int, Booked(D, d, k) = b,
         NEW q, q = Units(k),
         2 * (Cent * b - RowGain(D, d, k)) <= Cent + 2 * q,
         -(2 * (Cent * b - RowGain(D, d, k))) <= Cent + 2 * q
  PROVE  Fits(D, d, k)
  <1>1. q \in Nat /\ RowGain(D, d, k) \in Int /\ Cardinality(ServedAt(k)) \in Nat
    BY ComparedIs, GrowsInt, ServedIs
  <1>2. PICK m \in Nat : m = Cardinality(ServedAt(k))
    BY <1>1
  <1>3. PICK o \in Nat : o = Cent * m
    BY StockAssumption, ProductNat
  <1>4. Cent * (1 + m) = Cent + o /\ Cent \in Nat
    BY <1>3, StockAssumption
  <1>5. Grain(k) = 2 * q + Cent + o
    BY <1>1, <1>2, <1>4 DEF Grain
  <1>6. PICK v \in Int : v = Cent * b
    BY StockAssumption
  <1> QED
    BY <1>1, <1>4, <1>5, <1>6 DEF Fits
LEMMA IssueFits ==
  ASSUME NEW D, NEW d, Compared(D, d), NEW k \in DOMAIN moves, moves[k].quantity < 0
  PROVE  Fits(D, d, k)
  <1>1. PICK q \in Nat : q = Units(k)
    BY ComparedIs
  <1>2. moves[k].type \in {"SALES_ISSUE", "TRANSFER_OUT"}
    BY RegularKinds
  <1>3. k \notin Receipts(d)
    BY <1>2, ComparedIs, CostInvIs DEF DocsFit, DocFits, Receipts, ReceiptIn
  <1>4. PICK n \in Int : n = ReliefGrows(D, d, k)
    BY GrowsInt
  <1>5. n = IF Is(k, "SALES_RETURN") THEN Units(k) * UnitGrows(D, d, k) ELSE ReliefGrows(D, d, k)
    BY <1>2, <1>4 DEF Is
  <1>6. PICK h \in Int : h = Ch(D, d, k) /\ 2 * (Cent * h - n) <= Cent /\ -(2 * (Cent * h - n)) <= Cent
    BY <1>5, ChangeNear
  <1>7. PICK g \in Int : g = RowGain(D, d, k) /\ n + g <= q /\ -(n + g) <= q
    BY <1>1, <1>4, GrowsInt, IssueGrows
  <1>8. Booked(D, d, k) = -h
    BY <1>2, <1>3, <1>6 DEF Booked
  <1>9. PICK c \in Int : c = Cent * h
    BY StockAssumption
  <1>10. Cent * (-h) = -c
    BY <1>9, StockAssumption
  <1>11. PICK b \in Int : b = -h
    OBVIOUS
  <1>12. 2 * (Cent * b - g) <= Cent + 2 * q /\ -(2 * (Cent * b - g)) <= Cent + 2 * q
    <2>1. Cent \in Int /\ Cent * b = -c /\ 2 * (c - n) <= Cent /\ -(2 * (c - n)) <= Cent
      BY <1>6, <1>9, <1>10, <1>11, StockAssumption
    <2> QED
      BY <1>7, <2>1
  <1>13. Booked(D, d, k) = b
    BY <1>8, <1>11
  <1> QED
    BY <1>1, <1>7, <1>12, <1>13, FitsWhen

\* A row that is booked at h, the value of n steps, and adds n steps.
LEMMA FitsAt ==
  ASSUME NEW D, NEW d, Compared(D, d), NEW k \in DOMAIN moves,
         NEW n \in Int, RowGain(D, d, k) = n, NEW h \in Int, Booked(D, d, k) = h,
         2 * (Cent * h - n) <= Cent, -(2 * (Cent * h - n)) <= Cent
  PROVE  Fits(D, d, k)
  <1>1. PICK q \in Nat : q = Units(k)
    BY ComparedIs
  <1>2. PICK c \in Int : c = Cent * h
    BY StockAssumption
  <1>3. 2 * (Cent * h - RowGain(D, d, k)) <= Cent + 2 * q /\ -(2 * (Cent * h - RowGain(D, d, k))) <= Cent + 2 * q
    BY <1>2, StockAssumption
  <1> QED
    BY <1>1, <1>3, FitsWhen

LEMMA ReturnFits ==
  ASSUME NEW D, NEW d, Compared(D, d), NEW k \in DOMAIN moves, moves[k].quantity > 0, k \notin Receipts(d)
  PROVE  Fits(D, d, k)
  <1>1. PICK q \in Nat : q = Units(k)
    BY ComparedIs
  <1>2. moves[k].type \in {"OPENING", "PURCHASE_RECEIPT", "SALES_RETURN", "TRANSFER_IN"}
    BY RegularKinds
  <1>3. ExtraGrows(D, d, k) = 0
    <2>1. Extra(D, k) \in Nat /\ Extra(Grown(D, d), k) = Extra(D, k)
      BY ComparedIs, ExtraRests DEF Extras
    <2> QED
      BY <2>1 DEF ExtraGrows
  <1>4. CASE moves[k].type \in {"OPENING", "PURCHASE_RECEIPT"}
    <2>1. UnitGrows(D, d, k) = 0
      BY <1>1, <1>3, <1>4, ArrivalGrows
    <2>2. RowGain(D, d, k) = 0
      <3>1. CASE Receipt(moves[k])
        <4>1. PICK s \in Nat : s = q - Taken(links, k) /\ RowGain(D, d, k) = s * 0
          BY <1>1, <2>1, <3>1, ArrivalGrows
        <4> QED
          BY <4>1
      <3>2. CASE ~Receipt(moves[k])
        <4>1. RowGain(D, d, k) = q * 0
          BY <1>1, <2>1, <3>2, ArrivalGrows
        <4> QED
          BY <4>1
      <3> QED
        BY <3>1, <3>2
    <2>3. Booked(D, d, k) = 0
      BY <1>4 DEF Booked
    <2>4. PICK z \in Int : z = 0
      OBVIOUS
    <2>5. 2 * (Cent * z - z) <= Cent /\ -(2 * (Cent * z - z)) <= Cent
      BY <2>4, StockAssumption
    <2>6. RowGain(D, d, k) = z /\ Booked(D, d, k) = z
      BY <2>2, <2>3, <2>4
    <2> QED
      BY <2>5, <2>6, FitsAt
  <1>5. CASE moves[k].type = "SALES_RETURN"
    <2>1. PICK n \in Int : n = q * UnitGrows(D, d, k)
      BY GrowsInt
    <2>2. ~Receipt(moves[k])
      BY <1>5 DEF Receipt
    <2>3. RowGain(D, d, k) = n
      BY <1>1, <2>1, <2>2, ArrivalGrows
    <2>4. n = IF Is(k, "SALES_RETURN") THEN Units(k) * UnitGrows(D, d, k) ELSE ReliefGrows(D, d, k)
      BY <1>1, <1>5, <2>1 DEF Is
    <2>5. PICK h \in Int : h = Ch(D, d, k) /\ 2 * (Cent * h - n) <= Cent /\ -(2 * (Cent * h - n)) <= Cent
      BY <2>4, ChangeNear
    <2>6. Booked(D, d, k) = h
      BY <1>5, <2>5 DEF Booked
    <2> QED
      BY <2>3, <2>5, <2>6, FitsAt
  <1>6. CASE moves[k].type = "TRANSFER_IN"
    <2>1. PICK j \in DOMAIN moves : /\ j = k - 1 /\ moves[j].type = "TRANSFER_OUT"
                                    /\ moves[k].src = j /\ moves[k].quantity = -moves[j].quantity
      BY <1>6, ComparedIs DEF Paired
    <2>2. moves[j].quantity < 0 /\ Units(j) = q
      BY <1>1, <2>1, RegularKinds
    <2>3. PICK g \in Int : g = UnitGrows(D, d, j)
      BY GrowsInt
    <2>4. ReliefGrows(D, d, j) = q * g
      BY <2>1, <2>2, <2>3, IssueGrows
    <2>5. UnitGrows(D, d, k) = g
      BY <1>1, <1>3, <1>6, <2>1, <2>3, ArrivalGrows
    <2>6. ~Receipt(moves[k])
      BY <1>6 DEF Receipt
    <2>7. PICK n \in Int : n = q * g
      OBVIOUS
    <2>8. RowGain(D, d, k) = n
      BY <1>1, <2>5, <2>6, <2>7, ArrivalGrows
    <2>9. n = IF Is(j, "SALES_RETURN") THEN Units(j) * UnitGrows(D, d, j) ELSE ReliefGrows(D, d, j)
      BY <2>1, <2>4, <2>7 DEF Is
    <2>10. PICK h \in Int : h = Ch(D, d, j) /\ 2 * (Cent * h - n) <= Cent /\ -(2 * (Cent * h - n)) <= Cent
      BY <2>9, ChangeNear
    <2>11. Booked(D, d, k) = h
      BY <1>6, <2>1, <2>10 DEF Booked
    <2> QED
      BY <2>8, <2>10, <2>11, FitsAt
  <1> QED
    BY <1>2, <1>4, <1>5, <1>6

\* A receipt of the document: what its links do not pass on to COGS stays.
LEMMA ReceiptFits ==
  ASSUME NEW D, NEW d, Compared(D, d), NEW k \in Receipts(d)
  PROVE  k \in DOMAIN moves /\ Fits(D, d, k)
  <1>1. d \in DOMAIN costs \ D /\ D \in SUBSET DOMAIN costs /\ CostInv
    BY ComparedIs DEF Compared
  <1>2. k \in DOMAIN moves /\ Receipt(moves[k]) /\ costs[d].share[k] \in Nat
    BY <1>1, CostInvIs DEF DocsFit, DocFits, Receipts, ReceiptIn, Receipt
  <1>3. PICK q \in Nat \ {0} : q = Units(k)
    BY <1>2, ComparedIs
  <1>4. moves[k].quantity > 0 /\ moves[k].type \notin {"TRANSFER_IN", "SALES_RETURN"}
    <2>1. moves[k].type = "PURCHASE_RECEIPT"
      BY <1>2 DEF Receipt
    <2> QED
      BY <1>2, <2>1, RegularKinds
  <1>5. PICK Q \in Nat : Q = Taken(links, k) /\ q - Q \in Nat /\ RowGain(D, d, k) = (q - Q) * UnitGrows(D, d, k)
    BY <1>2, <1>3, <1>4, ArrivalGrows
  <1>6. PICK X \in Nat : X = Steps(costs[d].share[k])
    BY <1>2, StockAssumption, ProductNat DEF Steps
  <1>7. PICK g \in Int : g = ExtraGrows(D, d, k) /\ X - q * g <= q /\ -(X - q * g) <= q
    BY <1>1, <1>3, <1>6, ExtraAdds
  <1>8. UnitGrows(D, d, k) = g
    BY <1>2, <1>3, <1>4, <1>7, ArrivalGrows
  <1>9. PICK h : h = HalfUp(X, q)
    OBVIOUS
  <1>10. h \in Int /\ 2 * (q * h) <= 2 * X + q /\ 2 * X <= 2 * (q * h) + q
    <2>1. X \in Int
      OBVIOUS
    <2> QED
      BY <1>9, <2>1, HalfUpIs
  <1>11. X - q * h <= q /\ -(X - q * h) <= q
    <2>1. PICK p \in Int : p = q * h
      BY <1>10
    <2> QED
      BY <1>10, <2>1
  <1>12. PICK S \in Nat : S = q - Q
    BY <1>5
  <1>13. X - Q * h - S * g <= q /\ -(X - Q * h - S * g) <= q
    <2>1. Q + S = q /\ X \in Int
      BY <1>12
    <2> QED
      BY <1>7, <1>10, <1>11, <2>1, TwoRoundings
  <1>14. PICK m \in Nat : m = Cardinality(ServedAt(k))
    BY ServedIs
  <1>15. PICK T : T = ShareSum(d, ServedAt(k))
    OBVIOUS
  <1>16. T \in Nat /\ 2 * (Cent * T - Q * h) <= Cent * m /\ -(2 * (Cent * T - Q * h)) <= Cent * m
    <2>1. h = HalfUp(Steps(costs[d].share[k]), Units(k)) /\ Taken(links, k) \in Nat
      BY <1>3, <1>5, <1>6, <1>9
    <2> QED
      BY <1>5, <1>10, <1>14, <1>15, <2>1, LinkSharesNear
  <1>17. PICK s \in Nat : s = costs[d].share[k]
    BY <1>2
  <1>18. PICK b \in Int : b = s - T
    BY <1>16
  <1>19. Booked(D, d, k) = b
    BY <1>15, <1>17, <1>18 DEF Booked
  <1>20. PICK c \in Int : c = Cent * T
    BY <1>16, StockAssumption
  <1>21. PICK e \in Int : e = Q * h
    BY <1>10
  <1>22. PICK v \in Int : v = S * g
    BY <1>7
  <1>23. PICK o \in Nat : o = Cent * m
    BY StockAssumption, ProductNat
  <1>24. Cent * b = X - c
    <2>1. Cent * b = Cent * s - Cent * T
      BY <1>16, <1>18, StockAssumption
    <2>2. X = Cent * s
      BY <1>6, <1>17, StockAssumption DEF Steps
    <2> QED
      BY <1>20, <2>1, <2>2
  <1>25. RowGain(D, d, k) = v
    BY <1>5, <1>8, <1>12, <1>22
  <1>26. Grain(k) = 2 * q + (Cent + o)
    <2>1. Cent * (1 + m) = Cent + o
      BY <1>23, StockAssumption
    <2> QED
      BY <1>3, <1>14, <2>1 DEF Grain
  <1>27. Cent \in Nat
    BY StockAssumption
  <1>28. X - e - v <= q /\ -(X - e - v) <= q /\ 2 * (c - e) <= o /\ -(2 * (c - e)) <= o
    BY <1>13, <1>16, <1>20, <1>21, <1>22, <1>23
  <1>29. /\ 2 * ((X - c) - v) <= 2 * q + (Cent + o) /\ -(2 * ((X - c) - v)) <= 2 * q + (Cent + o)
         /\ 2 * q + (Cent + o) \in Nat
    BY <1>27, <1>28
  <1> QED
    BY <1>2, <1>19, <1>24, <1>25, <1>26, <1>29 DEF Fits

LEMMA RowsFitAll ==
  ASSUME NEW D, NEW d, Compared(D, d), NEW k \in DOMAIN moves
  PROVE  Fits(D, d, k)
  BY IssueFits, ReturnFits, ReceiptFits, RegularKinds

-----------------------------------------------------------------------------
(* What the adjustments of a document book on a set of movements.           *)
LEMMA EarliestIs ==
  ASSUME CostInv, NEW d \in DOMAIN costs
  PROVE  /\ Earliest(d) \in Nat
         /\ \A r \in Receipts(d) : moves[r].day \in Nat /\ Earliest(d) <= moves[r].day
  <1>1. PICK T : T = {moves[r].day : r \in Receipts(d)}
    OBVIOUS
  <1>2. \A r \in Receipts(d) : r \in DOMAIN moves
    BY CostInvIs DEF DocsFit, DocFits, Receipts, ReceiptIn
  <1>3. \A r \in Receipts(d) : moves[r].day \in Nat
    BY <1>2, CostInvIs, RowsTyped DEF RowOK
  <1>4. T \in SUBSET Nat /\ T # {}
    <2>1. Receipts(d) # {}
      BY CostInvIs DEF DocsFit, DocFits, Receipts
    <2> QED
      BY <1>1, <1>3, <2>1
  <1>5. \E m \in T : \A k \in T : m <= k
    BY <1>4, LeastNatural
  <1>6. Min(T) \in T /\ \A k \in T : Min(T) <= k
    BY <1>5, Zenon DEF Min
  <1>7. Earliest(d) = Min(T)
    BY <1>1 DEF Earliest
  <1> QED
    BY <1>1, <1>3, <1>4, <1>6, <1>7

ChangedBy(D, d, type) == Changed(LayeredReplay(D), LayeredReplay(Grown(D, d)), d, type)

\* Movements that get no adjustment have nothing to adjust.
LEMMA Unchanged ==
  ASSUME NEW D, NEW d, Compared(D, d), NEW k \in DOMAIN moves, NEW type, Is(k, type),
         k \notin ChangedBy(D, d, type)
  PROVE  Ch(D, d, k) = 0
  <1>1. CostInv /\ InOrder(moves) /\ D \in SUBSET DOMAIN costs /\ d \in DOMAIN costs
    BY ComparedIs
  <1>2. Ch(D, d, k) = 0 \/ ~(moves[k].day >= Earliest(d))
    BY DEF ChangedBy, Changed, Ch
  <1>3. CASE ~(moves[k].day >= Earliest(d))
    <2>1. moves[k].day \in Nat
      BY <1>1, CostInvIs, RowsTyped DEF RowOK
    <2>2. \A i \in Receipts(d) : moves[k].day < moves[i].day
      BY <1>1, <1>3, <2>1, EarliestIs
    <2>3. UnitGrows(D, d, k) = 0 /\ ReliefGrows(D, d, k) = 0
      BY <1>1, <2>2, EarlyRows
    <2>4. PICK q \in Nat : q = Units(k)
      BY ComparedIs
    <2>5. PICK n \in Int : n = 0
      OBVIOUS
    <2>6. n = IF Is(k, "SALES_RETURN") THEN Units(k) * UnitGrows(D, d, k) ELSE ReliefGrows(D, d, k)
      <3>1. q * 0 = 0
        OBVIOUS
      <3> QED
        BY <2>3, <2>4, <2>5, <3>1
    <2>7. PICK h \in Int : h = Ch(D, d, k) /\ 2 * (Cent * h - n) <= Cent /\ -(2 * (Cent * h - n)) <= Cent
      BY <2>6, ChangeNear
    <2>8. PICK c \in Int : c = Cent * h
      BY StockAssumption
    <2>9. 2 * c <= Cent /\ -(2 * c) <= Cent
      BY <2>5, <2>7, <2>8
    <2>10. Cent \in Nat \ {0}
      BY StockAssumption
    <2>11. h >= 1 => c >= Cent
      <3>1. h >= 1 => Cent * 1 <= Cent * h
        BY <2>10, ProductGrows
      <3> QED
        BY <2>8, <2>10, <3>1
    <2>12. h <= -1 => c <= -Cent
      <3>1. h <= -1 => Cent * h <= Cent * (-1)
        BY <2>10, ProductGrows
      <3> QED
        BY <2>8, <2>10, <3>1
    <2> QED
      BY <2>7, <2>9, <2>10, <2>11, <2>12
  <1> QED
    BY <1>2, <1>3

LEMMA ChInt ==
  ASSUME NEW D, NEW d, Compared(D, d), NEW k \in DOMAIN moves
  PROVE  Ch(D, d, k) \in Int
  BY ChangeNear

ChSum(D, d, S) == SumFunctionOnSet([i \in S |-> Ch(D, d, i)], S)

\* The adjustments of a type are all that the type's movements change.
LEMMA TypeChanges ==
  ASSUME NEW D, NEW d, Compared(D, d), NEW T, T \subseteq DOMAIN moves, IsFiniteSet(T), NEW type,
         NEW f, f = [k \in T |-> IF Is(k, type) THEN Ch(D, d, k) ELSE 0]
  PROVE  /\ SumFunctionOnSet(f, T) = ChSum(D, d, ChangedBy(D, d, type) \cap T)
         /\ IntOn(f, T)
  <1>1. PICK S : S = ChangedBy(D, d, type) \cap T
    OBVIOUS
  <1>2. PICK e : e = [i \in S |-> Ch(D, d, i)]
    OBVIOUS
  <1>3. S \subseteq T /\ \A k \in S : Is(k, type)
    BY <1>1 DEF ChangedBy, Changed
  <1>4. \A k \in T : Ch(D, d, k) \in Int
    BY ChInt
  <1>5. \A k \in S : f[k] \in Int /\ e[k] = f[k]
    BY <1>2, <1>3, <1>4
  <1>6. ASSUME NEW k \in T, k \notin S PROVE f[k] = 0
    <2>1. Is(k, type) => Ch(D, d, k) = 0
      BY <1>1, <1>6, Unchanged
    <2> QED
      BY <2>1
  <1>7. SumFunctionOnSet(f, T) = SumFunctionOnSet(e, S)
    BY <1>3, <1>5, <1>6, SumFiltered
  <1> QED
    BY <1>1, <1>2, <1>4, <1>7 DEF ChSum, IntOn

\* Transfers that arrive at the movements of a set, and the like.
ArrivingAt(D, d, T) == {i \in ChangedBy(D, d, "TRANSFER_OUT") : i + 1 \in T}
SharedAt(d, T) == {l \in Shared(d) : l.receipt \in T}
ShareTotal(d, S) == SumFunctionOnSet([r \in S |-> costs[d].share[r]], S)

\* What a transfer changes where it arrives.
LEMMA ArrivalChanges ==
  ASSUME NEW D, NEW d, Compared(D, d), NEW T, T \subseteq DOMAIN moves, IsFiniteSet(T),
         NEW f, f = [k \in T |-> IF Is(k, "TRANSFER_IN") THEN Ch(D, d, k - 1) ELSE 0]
  PROVE  /\ SumFunctionOnSet(f, T) = ChSum(D, d, ArrivingAt(D, d, T))
         /\ IntOn(f, T)
  <1>1. PICK C : C = ChangedBy(D, d, "TRANSFER_OUT")
    OBVIOUS
  <1>2. PICK S : S = {i \in C : i + 1 \in T}
    OBVIOUS
  <1>3. C \subseteq DOMAIN moves /\ \A i \in C : Is(i, "TRANSFER_OUT")
    BY <1>1 DEF ChangedBy, Changed
  <1>4. PICK n \in Nat : n = Len(moves) /\ DOMAIN moves = 1 .. n
    BY ComparedIs, LengthIs
  <1>5. IsFiniteSet(S) /\ S \subseteq DOMAIN moves
    <2>1. S \in SUBSET DOMAIN moves
      BY <1>2, <1>3
    <2> QED
      BY <2>1, ComparedIs, CostInvIs, FS_Subset
  <1>6. PICK e : e = [i \in S |-> Ch(D, d, i)]
    OBVIOUS
  <1>7. PICK key : key = [i \in S |-> i + 1]
    OBVIOUS
  <1>8. \A i \in S : e[i] \in Int /\ e[i] = Ch(D, d, i) /\ key[i] = i + 1 /\ key[i] \in T /\ i \in 1 .. n
    BY <1>2, <1>4, <1>5, <1>6, <1>7, ChInt
  <1>9. ASSUME NEW k \in T
        PROVE  f[k] \in Int /\ f[k] = SumFunctionOnSet(e, {i \in S : key[i] = k})
    <2>1. k \in 1 .. n
      BY <1>4
    <2>2. PICK R : R = {i \in S : key[i] = k}
      OBVIOUS
    <2>3. \A i \in R : i = k - 1 /\ i \in S
      BY <1>8, <2>1, <2>2
    <2>4. CASE Is(k, "TRANSFER_IN")
      <3>1. PICK j \in DOMAIN moves : j = k - 1 /\ Is(j, "TRANSFER_OUT")
        BY <2>4, ComparedIs DEF Paired, Is
      <3>2. f[k] = Ch(D, d, j) /\ f[k] \in Int
        BY <2>4, <3>1, ChInt
      <3>3. CASE j \in C
        <4>1. j + 1 = k
          BY <2>1, <3>1
        <4>2. j \in S
          BY <1>2, <3>3, <4>1
        <4>3. R = {j}
          BY <1>8, <2>2, <2>3, <3>1, <4>1, <4>2
        <4>4. R \ {j} = {} /\ j \in R /\ IsFiniteSet(R) /\ IntOn(e, R)
          BY <1>8, <4>2, <4>3, FS_Singleton DEF IntOn
        <4>5. SumFunctionOnSet(e, R) = e[j] + SumFunctionOnSet(e, {})
          BY <4>4, SumRemove
        <4>6. SumFunctionOnSet(e, {}) = 0 /\ e[j] = Ch(D, d, j)
          BY <1>8, <4>2, SumEmpty
        <4> QED
          BY <2>2, <3>2, <4>5, <4>6
      <3>4. CASE j \notin C
        <4>1. R = {}
          BY <1>2, <2>3, <3>1, <3>4
        <4>2. f[k] = 0
          BY <1>1, <3>1, <3>2, <3>4, Unchanged
        <4> QED
          BY <2>2, <4>1, <4>2, SumEmpty
      <3> QED
        BY <3>3, <3>4
    <2>5. CASE ~Is(k, "TRANSFER_IN")
      <3>1. R = {}
        <4> SUFFICES ASSUME NEW i \in R PROVE FALSE
          OBVIOUS
        <4>1. i = k - 1 /\ i \in S /\ i \in DOMAIN moves /\ Is(i, "TRANSFER_OUT")
          BY <1>2, <1>3, <2>3
        <4>2. i + 1 = k
          BY <2>1, <4>1
        <4>3. moves[i + 1].type = "TRANSFER_IN"
          BY <4>1, ComparedIs DEF Paired, Is
        <4> QED
          BY <2>5, <4>2, <4>3 DEF Is
      <3> QED
        BY <2>2, <2>5, <3>1, SumEmpty
    <2> QED
      BY <2>4, <2>5
  <1>10. ByKey(e, S, key, T, f)
    BY <1>5, <1>8, <1>9 DEF ByKey, IntOn
  <1>11. SumFunctionOnSet(e, S) = SumFunctionOnSet(f, T)
    BY <1>10, SumByKey
  <1> QED
    BY <1>1, <1>2, <1>6, <1>9, <1>11 DEF ChSum, IntOn, ArrivingAt

\* What the links of the document's receipts pass on.
LEMMA PassedOn ==
  ASSUME NEW D, NEW d, Compared(D, d), NEW T, T \subseteq DOMAIN moves, IsFiniteSet(T),
         NEW f, f = [k \in T |-> IF k \in Receipts(d) THEN ShareSum(d, ServedAt(k)) ELSE 0]
  PROVE  /\ SumFunctionOnSet(f, T) = ShareSum(d, SharedAt(d, T))
         /\ IntOn(f, T)
  <1>1. CostInv /\ d \in DOMAIN costs
    BY ComparedIs
  <1>2. PICK L : L = {l \in Linked(d) : l.receipt \in T}
    OBVIOUS
  <1>3. PICK e : e = [l \in L |-> LinkShare(d, l)]
    OBVIOUS
  <1>4. PICK key : key = [l \in L |-> l.receipt]
    OBVIOUS
  <1>5. L \subseteq Linked(d) /\ IsFiniteSet(L)
    <2>1. L \in SUBSET links
      BY <1>2 DEF Linked
    <2> QED
      BY <1>1, <1>2, <2>1, CostInvIs, FS_Subset
  <1>6. \A l \in L : e[l] \in Nat /\ e[l] = LinkShare(d, l) /\ key[l] = l.receipt /\ key[l] \in T
    BY <1>1, <1>2, <1>3, <1>4, <1>5, LinkShareNat
  <1>7. ASSUME NEW k \in T
        PROVE  f[k] \in Int /\ f[k] = SumFunctionOnSet(e, {l \in L : key[l] = k})
    <2>1. PICK R : R = {l \in L : key[l] = k}
      OBVIOUS
    <2>2. CASE k \in Receipts(d)
      <3>1. R = ServedAt(k)
        <4>1. \A l \in R : l \in links /\ l.receipt = k
          BY <1>2, <1>6, <2>1 DEF Linked
        <4>2. \A l \in ServedAt(k) : l \in L
          BY <1>2, <2>2 DEF ServedAt, Linked
        <4>3. \A l \in ServedAt(k) : key[l] = k
          BY <1>6, <4>2 DEF ServedAt
        <4> QED
          BY <2>1, <4>1, <4>2, <4>3 DEF ServedAt
      <3>2. PICK g : g = [l \in R |-> LinkShare(d, l)]
        OBVIOUS
      <3>3. R \subseteq L /\ IsFiniteSet(R)
        <4>1. R \in SUBSET L
          BY <2>1
        <4> QED
          BY <1>5, <4>1, FS_Subset
      <3>4. \A l \in R : g[l] = e[l]
        BY <1>6, <3>2, <3>3
      <3>5. SumFunctionOnSet(g, R) = SumFunctionOnSet(e, R)
        BY <3>3, <3>4, SumAgree
      <3>6. f[k] = ShareSum(d, R)
        BY <2>2, <3>1
      <3>7. ShareSum(d, R) \in Nat
        <4>1. R \subseteq Linked(d)
          BY <1>5, <3>3
        <4> QED
          BY <1>1, <4>1, SharesSum
      <3>8. ShareSum(d, R) = SumFunctionOnSet(g, R)
        BY <3>2 DEF ShareSum
      <3> QED
        BY <2>1, <3>5, <3>6, <3>7, <3>8
    <2>3. CASE k \notin Receipts(d)
      <3>1. R = {}
        BY <1>2, <1>6, <2>1, <2>3 DEF Linked
      <3> QED
        BY <2>1, <2>3, <3>1, SumEmpty
    <2> QED
      BY <2>2, <2>3
  <1>8. ByKey(e, L, key, T, f)
    <2>1. IntOn(e, L) /\ \A l \in L : key[l] \in T
      BY <1>6 DEF IntOn
    <2>2. \A k \in T : f[k] = SumFunctionOnSet(e, {l \in L : key[l] = k})
      BY <1>7
    <2> QED
      BY <1>5, <2>1, <2>2 DEF ByKey
  <1>9. SumFunctionOnSet(e, L) = SumFunctionOnSet(f, T)
    BY <1>8, SumByKey
  <1>10. PICK S : S = {l \in Shared(d) : l.receipt \in T}
    OBVIOUS
  <1>11. PICK h : h = [l \in S |-> LinkShare(d, l)]
    OBVIOUS
  <1>12. S \subseteq L /\ \A l \in L : l \notin S => ~(LinkShare(d, l) > 0)
    BY <1>2, <1>10 DEF Shared
  <1>13. \A l \in S : e[l] \in Int /\ h[l] = e[l]
    BY <1>6, <1>11, <1>12
  <1>14. \A l \in L : l \notin S => e[l] = 0
    BY <1>6, <1>12
  <1>15. SumFunctionOnSet(e, L) = SumFunctionOnSet(h, S)
    BY <1>5, <1>12, <1>13, <1>14, SumFiltered
  <1> QED
    BY <1>7, <1>9, <1>10, <1>11, <1>15 DEF ShareSum, IntOn, SharedAt

\* What the document's receipts were allocated.
LEMMA Allocated ==
  ASSUME NEW D, NEW d, Compared(D, d), NEW T, T \subseteq DOMAIN moves, IsFiniteSet(T),
         NEW f, f = [k \in T |-> IF k \in Receipts(d) THEN costs[d].share[k] ELSE 0]
  PROVE  /\ SumFunctionOnSet(f, T) = ShareTotal(d, Receipts(d) \cap T)
         /\ IntOn(f, T)
  <1>1. \A k \in Receipts(d) : costs[d].share[k] \in Nat
    BY ComparedIs, CostInvIs DEF DocsFit, DocFits, Receipts
  <1>2. PICK S : S = Receipts(d) \cap T
    OBVIOUS
  <1>3. PICK e : e = [r \in S |-> costs[d].share[r]]
    OBVIOUS
  <1>4. S \subseteq T /\ (\A k \in S : f[k] \in Int /\ e[k] = f[k]) /\ \A k \in T : k \notin S => f[k] = 0
    BY <1>1, <1>2, <1>3
  <1>5. SumFunctionOnSet(f, T) = SumFunctionOnSet(e, S)
    BY <1>4, SumFiltered
  <1> QED
    BY <1>1, <1>2, <1>3, <1>5 DEF IntOn, ShareTotal

\* The journals of a document over the movements of a set.
LEMMA BookedSum ==
  ASSUME NEW D, NEW d, Compared(D, d), NEW T, T \subseteq DOMAIN moves,
         NEW b, b = [k \in T |-> Booked(D, d, k)]
  PROVE  /\ IntOn(b, T) /\ IsFiniteSet(T)
         /\ SumFunctionOnSet(b, T)
              = ShareTotal(d, Receipts(d) \cap T)
                - ShareSum(d, SharedAt(d, T))
                - ChSum(D, d, ChangedBy(D, d, "SALES_ISSUE") \cap T)
                - ChSum(D, d, ChangedBy(D, d, "TRANSFER_OUT") \cap T)
                + ChSum(D, d, ChangedBy(D, d, "SALES_RETURN") \cap T)
                + ChSum(D, d, ArrivingAt(D, d, T))
  <1>0. IsFiniteSet(T)
    <2>1. T \in SUBSET DOMAIN moves
      OBVIOUS
    <2> QED
      BY <2>1, ComparedIs, CostInvIs, FS_Subset
  <1>1. PICK a : a = [k \in T |-> IF k \in Receipts(d) THEN costs[d].share[k] ELSE 0]
    OBVIOUS
  <1>2. PICK p : p = [k \in T |-> IF k \in Receipts(d) THEN ShareSum(d, ServedAt(k)) ELSE 0]
    OBVIOUS
  <1>3. PICK i : i = [k \in T |-> IF Is(k, "SALES_ISSUE") THEN Ch(D, d, k) ELSE 0]
    OBVIOUS
  <1>4. PICK o : o = [k \in T |-> IF Is(k, "TRANSFER_OUT") THEN Ch(D, d, k) ELSE 0]
    OBVIOUS
  <1>5. PICK r : r = [k \in T |-> IF Is(k, "SALES_RETURN") THEN Ch(D, d, k) ELSE 0]
    OBVIOUS
  <1>6. PICK t : t = [k \in T |-> IF Is(k, "TRANSFER_IN") THEN Ch(D, d, k - 1) ELSE 0]
    OBVIOUS
  <1>7. IntOn(a, T) /\ SumFunctionOnSet(a, T)
          = ShareTotal(d, Receipts(d) \cap T)
    BY <1>0, <1>1, Allocated
  <1>8. IntOn(p, T) /\ SumFunctionOnSet(p, T) = ShareSum(d, SharedAt(d, T))
    BY <1>0, <1>2, PassedOn
  <1>9. IntOn(i, T) /\ SumFunctionOnSet(i, T) = ChSum(D, d, ChangedBy(D, d, "SALES_ISSUE") \cap T)
    BY <1>0, <1>3, TypeChanges
  <1>10. IntOn(o, T) /\ SumFunctionOnSet(o, T) = ChSum(D, d, ChangedBy(D, d, "TRANSFER_OUT") \cap T)
    BY <1>0, <1>4, TypeChanges
  <1>11. IntOn(r, T) /\ SumFunctionOnSet(r, T) = ChSum(D, d, ChangedBy(D, d, "SALES_RETURN") \cap T)
    BY <1>0, <1>5, TypeChanges
  <1>12. IntOn(t, T)
         /\ SumFunctionOnSet(t, T) = ChSum(D, d, ArrivingAt(D, d, T))
    BY <1>0, <1>6, ArrivalChanges
  <1>13. ASSUME NEW k \in T PROVE b[k] = a[k] - p[k] - i[k] - o[k] + r[k] + t[k]
    <2>1. /\ a[k] \in Int /\ p[k] \in Int /\ i[k] \in Int /\ o[k] \in Int /\ r[k] \in Int /\ t[k] \in Int
      BY <1>7, <1>8, <1>9, <1>10, <1>11, <1>12 DEF IntOn
    <2>2. CASE k \in Receipts(d)
      <3>1. moves[k].type = "PURCHASE_RECEIPT"
        BY <2>2, ComparedIs, CostInvIs DEF DocsFit, DocFits, Receipts, ReceiptIn
      <3>2. i[k] = 0 /\ o[k] = 0 /\ r[k] = 0 /\ t[k] = 0
        BY <1>3, <1>4, <1>5, <1>6, <3>1 DEF Is
      <3>3. b[k] = a[k] - p[k]
        BY <1>1, <1>2, <2>2 DEF Booked
      <3> QED
        BY <2>1, <3>2, <3>3
    <2>3. CASE k \notin Receipts(d)
      <3>1. a[k] = 0 /\ p[k] = 0
        BY <1>1, <1>2, <2>3
      <3>2. b[k] = - i[k] - o[k] + r[k] + t[k]
        <4>1. CASE moves[k].type = "SALES_ISSUE"
          <5>1. b[k] = -Ch(D, d, k) /\ i[k] = Ch(D, d, k) /\ o[k] = 0 /\ r[k] = 0 /\ t[k] = 0
            BY <1>3, <1>4, <1>5, <1>6, <2>3, <4>1 DEF Is, Booked
          <5> QED
            BY <2>1, <5>1
        <4>2. CASE moves[k].type = "TRANSFER_OUT"
          <5>1. b[k] = -Ch(D, d, k) /\ o[k] = Ch(D, d, k) /\ i[k] = 0 /\ r[k] = 0 /\ t[k] = 0
            BY <1>3, <1>4, <1>5, <1>6, <2>3, <4>2 DEF Is, Booked
          <5> QED
            BY <2>1, <5>1
        <4>3. CASE moves[k].type = "SALES_RETURN"
          <5>1. b[k] = Ch(D, d, k) /\ r[k] = Ch(D, d, k) /\ i[k] = 0 /\ o[k] = 0 /\ t[k] = 0
            BY <1>3, <1>4, <1>5, <1>6, <2>3, <4>3 DEF Is, Booked
          <5> QED
            BY <2>1, <5>1
        <4>4. CASE moves[k].type = "TRANSFER_IN"
          <5>1. b[k] = Ch(D, d, k - 1) /\ t[k] = Ch(D, d, k - 1) /\ i[k] = 0 /\ o[k] = 0 /\ r[k] = 0
            BY <1>3, <1>4, <1>5, <1>6, <2>3, <4>4 DEF Is, Booked
          <5> QED
            BY <2>1, <5>1
        <4>5. CASE moves[k].type \notin {"SALES_ISSUE", "TRANSFER_OUT", "SALES_RETURN", "TRANSFER_IN"}
          <5>1. b[k] = 0 /\ t[k] = 0 /\ i[k] = 0 /\ o[k] = 0 /\ r[k] = 0
            BY <1>3, <1>4, <1>5, <1>6, <2>3, <4>5 DEF Is, Booked
          <5> QED
            BY <5>1
        <4> QED
          BY <4>1, <4>2, <4>3, <4>4, <4>5
      <3> QED
        BY <2>1, <3>1, <3>2
    <2> QED
      BY <2>2, <2>3
  <1>14. IntOn(b, T) /\ SumFunctionOnSet(b, T) =
              SumFunctionOnSet(a, T) - SumFunctionOnSet(p, T) - SumFunctionOnSet(i, T)
              - SumFunctionOnSet(o, T) + SumFunctionOnSet(r, T) + SumFunctionOnSet(t, T)
    BY <1>0, <1>7, <1>8, <1>9, <1>10, <1>11, <1>12, <1>13, SixSums
  <1> QED
    BY <1>0, <1>7, <1>8, <1>9, <1>10, <1>11, <1>12, <1>14
-----------------------------------------------------------------------------
(* What the rows of a warehouse add to its stock, and their grains.         *)
BasisGain(D, d, w) == LayeredReplay(Grown(D, d)).basis[w] - LayeredReplay(D).basis[w]

LEMMA BasisGainInt ==
  ASSUME NEW D, NEW d, Compared(D, d), NEW w \in Warehouse
  PROVE  BasisGain(D, d, w) \in Int
  <1>1. LayeredReplay(Grown(D, d)).basis[w] \in Nat /\ LayeredReplay(D).basis[w] \in Nat
    BY ComparedIs DEF ReplayState
  <1> QED
    BY <1>1 DEF BasisGain

LEMMA GainSum ==
  ASSUME NEW D, NEW d, Compared(D, d), NEW w \in Warehouse,
         NEW T, T = {k \in DOMAIN moves : moves[k].warehouse = w},
         NEW f, \A k \in T : f[k] = RowGain(D, d, k)
  PROVE  SumFunctionOnSet(f, T) = BasisGain(D, d, w)
  <1>1. PICK n \in Nat : n = Len(moves) /\ DOMAIN moves = 1 .. n
    BY ComparedIs, LengthIs
  <1>2. \A k \in 1 .. n : Kardex[k] = k
    BY <1>1, ComparedIs, KardexIsList DEF Ident
  <1>3. T \in SUBSET DOMAIN moves /\ IntOn(f, T)
    BY GrowsInt DEF IntOn
  <1>4. PICK s : Sums(s, T, f)
    BY <1>3, ComparedIs, RunningSum
  <1>5. /\ s[0] = 0 /\ s[n] = SumFunctionOnSet(f, T)
        /\ \A k \in 1 .. n : s[k] = IF k \in T THEN s[k - 1] + f[k] ELSE s[k - 1]
    BY <1>1, <1>2, <1>4 DEF Sums
  <1>6. PICK p : p = TapeOf(D, d, w)
    OBVIOUS
  <1>7. Layer(D, w, p.units, p.old) /\ Layer(Grown(D, d), w, p.units, p.new)
    BY <1>6, LaysHold DEF Lay
  <1>8. PICK old \in [0 .. n -> Nat] : old = p.old
    BY <1>1, <1>7 DEF Layer
  <1>9. PICK new \in [0 .. n -> Nat] : new = p.new
    BY <1>1, <1>7 DEF Layer
  <1>10. /\ old[0] = 0 /\ new[0] = 0
         /\ old[n] = LayeredReplay(D).basis[w] /\ new[n] = LayeredReplay(Grown(D, d)).basis[w]
         /\ \A k \in 1 .. n : moves[k].warehouse # w => old[k] = old[k - 1] /\ new[k] = new[k - 1]
    BY <1>1, <1>7, <1>8, <1>9 DEF Layer
  <1>11. PICK G : G = {k \in 0 .. n : s[k] = new[k] - old[k]}
    OBVIOUS
  <1>12. 0 \in G
    BY <1>5, <1>10, <1>11
  <1>13. ASSUME NEW k \in 1 .. n, k - 1 \in G PROVE k \in G
    <2>1. /\ s[k - 1] = new[k - 1] - old[k - 1] /\ k \in 0 .. n
          /\ old[k] \in Nat /\ old[k - 1] \in Nat /\ new[k] \in Nat /\ new[k - 1] \in Nat
      BY <1>11, <1>13
    <2>2. CASE k \in T
      <3>1. f[k] = (new[k] - new[k - 1]) - (old[k] - old[k - 1])
        BY <1>6, <1>8, <1>9, <2>2 DEF RowGain
      <3>2. s[k] = s[k - 1] + f[k]
        BY <1>5, <2>2
      <3>3. s[k] = new[k] - old[k]
        BY <2>1, <3>1, <3>2
      <3> QED
        BY <1>11, <2>1, <3>3
    <2>3. CASE k \notin T
      <3>1. old[k] = old[k - 1] /\ new[k] = new[k - 1] /\ s[k] = s[k - 1]
        BY <1>1, <1>5, <1>10, <2>3
      <3> QED
        BY <1>11, <2>1, <3>1
    <2> QED
      BY <2>2, <2>3
  <1>14. \A k \in 1 .. n : k - 1 \in G => k \in G
    BY ONLY <1>13
  <1>15. n \in Nat
    OBVIOUS
  <1>16. \A k \in 0 .. n : k \in G
    BY ONLY <1>12, <1>14, <1>15, StepByStep
  <1>17. n \in G
    BY <1>15, <1>16
  <1> QED
    BY <1>5, <1>10, <1>11, <1>17 DEF BasisGain

LEMMA GainSumAll ==
  ASSUME NEW D, NEW d, Compared(D, d),
         NEW f, f = [k \in DOMAIN moves |-> RowGain(D, d, k)],
         NEW g, g = [w \in Warehouse |-> BasisGain(D, d, w)]
  PROVE  SumFunctionOnSet(f, DOMAIN moves) = SumFunctionOnSet(g, Warehouse)
  <1>1. PICK key : key = [k \in DOMAIN moves |-> moves[k].warehouse]
    OBVIOUS
  <1>2. PICK S : S = DOMAIN moves
    OBVIOUS
  <1>3. \A k \in S : f[k] \in Int /\ key[k] \in Warehouse
    BY <1>1, <1>2, GrowsInt, RegularKinds
  <1>4. ASSUME NEW w \in Warehouse PROVE g[w] = SumFunctionOnSet(f, {k \in S : key[k] = w})
    <2>1. PICK T : T = {k \in DOMAIN moves : moves[k].warehouse = w}
      OBVIOUS
    <2>2. {k \in S : key[k] = w} = T
      BY <1>1, <1>2, <2>1
    <2>3. \A k \in T : f[k] = RowGain(D, d, k)
      BY <2>1
    <2>4. SumFunctionOnSet(f, T) = BasisGain(D, d, w)
      BY <2>1, <2>3, GainSum
    <2> QED
      BY <2>2, <2>4
  <1>5. IsFiniteSet(S) /\ IsFiniteSet(Warehouse) /\ IntOn(f, S)
    BY <1>2, <1>3, ComparedIs, CostInvIs DEF IntOn
  <1>6. ByKey(f, S, key, Warehouse, g)
    BY <1>3, <1>4, <1>5 DEF ByKey
  <1> QED
    BY <1>2, <1>6, SumByKey

\* Each link serves one receipt.
LEMMA ServedSum ==
  ASSUME NEW D, NEW d, Compared(D, d), NEW c, c = [k \in DOMAIN moves |-> Cardinality(ServedAt(k))]
  PROVE  SumFunctionOnSet(c, DOMAIN moves) = Cardinality(links)
  <1>1. PICK e : e = [l \in links |-> 1]
    OBVIOUS
  <1>2. PICK key : key = [l \in links |-> l.receipt]
    OBVIOUS
  <1>3. PICK S : S = DOMAIN moves
    OBVIOUS
  <1>4. IsFiniteSet(links) /\ IsFiniteSet(S) /\ \A l \in links : key[l] \in S
    BY <1>2, <1>3, ComparedIs, CostInvIs DEF LinksFit
  <1>5. ASSUME NEW k \in S PROVE c[k] = SumFunctionOnSet(e, {l \in links : key[l] = k})
    <2>1. {l \in links : key[l] = k} = ServedAt(k)
      BY <1>2 DEF ServedAt
    <2>2. PICK R : R = ServedAt(k)
      OBVIOUS
    <2>3. IsFiniteSet(R) /\ R \in SUBSET links /\ Cardinality(R) \in Nat
      BY <2>2, ServedIs
    <2>4. (\A l \in R : e[l] = 1) /\ 1 \in Int
      BY <1>1, <2>3
    <2>5. SumFunctionOnSet(e, R) = 1 * Cardinality(R)
      BY <2>3, <2>4, SumOnes
    <2>6. PICK m \in Nat : m = Cardinality(R)
      BY <2>3
    <2>7. SumFunctionOnSet(e, R) = m
      BY <2>5, <2>6
    <2>8. c[k] = m
      BY <1>3, <2>2, <2>6
    <2> QED
      BY <2>1, <2>2, <2>7, <2>8
  <1>6. IntOn(e, links)
    BY <1>1 DEF IntOn
  <1>7. ByKey(e, links, key, S, c)
    BY <1>4, <1>5, <1>6 DEF ByKey
  <1>8. SumFunctionOnSet(e, links) = SumFunctionOnSet(c, S)
    BY <1>7, SumByKey
  <1>9. (\A l \in links : e[l] = 1) /\ 1 \in Int
    BY <1>1
  <1>10. SumFunctionOnSet(e, links) = 1 * Cardinality(links)
    BY <1>4, <1>9, SumOnes
  <1>11. Cardinality(links) \in Nat
    BY <1>4, FS_CardinalityType
  <1>12. PICK m \in Nat : m = Cardinality(links)
    BY <1>11
  <1>13. SumFunctionOnSet(e, links) = m
    BY <1>10, <1>12
  <1> QED
    BY <1>3, <1>8, <1>12, <1>13

AllUnits == SumFunctionOnSet([k \in DOMAIN moves |-> Units(k)], DOMAIN moves)

LEMMA GrainsAddUp ==
  ASSUME NEW D, NEW d, Compared(D, d), NEW e, e = [k \in DOMAIN moves |-> Grain(k)]
  PROVE  /\ IntOn(e, DOMAIN moves)
         /\ SumFunctionOnSet(e, DOMAIN moves)
              = 2 * AllUnits + Cent * (Len(moves) + Cardinality(links))
  <1>1. PICK n \in Nat : n = Len(moves) /\ DOMAIN moves = 1 .. n
    BY ComparedIs, LengthIs
  <1>2. PICK S : S = DOMAIN moves
    OBVIOUS
  <1>3. IsFiniteSet(S) /\ Cardinality(S) = n
    <2>1. IsFiniteSet(1 .. n) /\ Cardinality(1 .. n) = IF 1 > n THEN 0 ELSE n - 1 + 1
      BY FS_Interval
    <2> QED
      BY <1>1, <1>2, <2>1
  <1>4. PICK u : u = [k \in S |-> Units(k)]
    OBVIOUS
  <1>5. PICK c : c = [k \in S |-> Cardinality(ServedAt(k))]
    OBVIOUS
  <1>6. PICK i : i = [k \in S |-> 1]
    OBVIOUS
  <1>7. PICK r : r = [k \in S |-> i[k] + c[k]]
    OBVIOUS
  <1>8. PICK p : p = [k \in S |-> 2 * u[k]]
    OBVIOUS
  <1>9. PICK q : q = [k \in S |-> Cent * r[k]]
    OBVIOUS
  <1>10. \A k \in S : u[k] \in Nat /\ c[k] \in Nat /\ i[k] = 1 /\ u[k] = Units(k) /\ c[k] = Cardinality(ServedAt(k))
    BY <1>2, <1>4, <1>5, <1>6, ComparedIs, ServedIs
  <1>11. (\A k \in S : r[k] = i[k] + c[k]) /\ IntOn(u, S) /\ IntOn(c, S) /\ IntOn(i, S) /\ IntOn(r, S)
    BY <1>7, <1>10 DEF IntOn
  <1>12. IntOn(p, S) /\ (\A k \in S : p[k] = 2 * u[k]) /\ 2 \in Int
    BY <1>8, <1>10 DEF IntOn
  <1>13. IntOn(q, S) /\ (\A k \in S : q[k] = Cent * r[k]) /\ Cent \in Int
    BY <1>9, <1>11, StockAssumption DEF IntOn
  <1>14. ASSUME NEW k \in S PROVE e[k] = p[k] + q[k] /\ e[k] \in Int
    <2>1. r[k] = 1 + c[k]
      BY <1>7, <1>10
    <2>2. e[k] = 2 * u[k] + Cent * (1 + c[k])
      BY <1>2, <1>10 DEF Grain
    <2>3. e[k] = p[k] + q[k]
      BY <1>12, <1>13, <2>1, <2>2
    <2> QED
      BY <1>12, <1>13, <2>3 DEF IntOn
  <1>15. SumFunctionOnSet(e, S) = SumFunctionOnSet(p, S) + SumFunctionOnSet(q, S)
    BY <1>3, <1>12, <1>13, <1>14, SumPlus
  <1>16. SumFunctionOnSet(p, S) = 2 * SumFunctionOnSet(u, S)
    BY <1>3, <1>11, <1>12, SumScale
  <1>17. SumFunctionOnSet(q, S) = Cent * SumFunctionOnSet(r, S)
    BY <1>3, <1>11, <1>13, SumScale
  <1>18. SumFunctionOnSet(r, S) = SumFunctionOnSet(i, S) + SumFunctionOnSet(c, S)
    BY <1>3, <1>11, SumPlus
  <1>19. SumFunctionOnSet(i, S) = Len(moves)
    <2>1. (\A k \in S : i[k] = 1) /\ 1 \in Int
      BY <1>10
    <2>2. SumFunctionOnSet(i, S) = 1 * Cardinality(S)
      BY <1>3, <2>1, SumOnes
    <2> QED
      BY <1>1, <1>3, <2>2
  <1>20. SumFunctionOnSet(c, S) = Cardinality(links)
    BY <1>2, <1>5, ServedSum
  <1>21. SumFunctionOnSet(u, S) = AllUnits
    BY <1>2, <1>4 DEF AllUnits
  <1>22. IntOn(e, S)
    BY <1>14 DEF IntOn
  <1>23. SumFunctionOnSet(r, S) = Len(moves) + Cardinality(links)
    BY <1>18, <1>19, <1>20
  <1>24. SumFunctionOnSet(e, S) = 2 * AllUnits + Cent * (Len(moves) + Cardinality(links))
    BY <1>15, <1>16, <1>17, <1>21, <1>23, Zenon
  <1>25. IntOn(e, DOMAIN moves)
    BY <1>2, <1>22
  <1>26. SumFunctionOnSet(e, DOMAIN moves) = 2 * AllUnits + Cent * (Len(moves) + Cardinality(links))
    BY <1>2, <1>24
  <1> QED
    BY <1>25, <1>26
-----------------------------------------------------------------------------
(* What a document leaves over.                                             *)
LEMMA ApartInt ==
  ASSUME NEW f \in Int, NEW g \in Int, NEW h \in Int, NEW e \in Int, NEW c \in Int,
         Apart(Cent, f, g, e), Apart(Cent, h, g, c)
  PROVE  2 * (Cent * (f - h)) <= e + c /\ -(2 * (Cent * (f - h))) <= e + c
  <1>1. PICK x \in Int : x = Cent * f
    BY StockAssumption
  <1>2. PICK y \in Int : y = Cent * h
    BY StockAssumption
  <1>3. Cent * (f - h) = x - y
    BY <1>1, <1>2, StockAssumption
  <1>4. 2 * (x - g) <= e /\ -(2 * (x - g)) <= e /\ 2 * (y - g) <= c /\ -(2 * (y - g)) <= c
    BY <1>1, <1>2 DEF Apart
  <1> QED
    BY <1>3, <1>4

\* Of the warehouses' stock, half a cent each is rounding.
LEMMA StockApart ==
  ASSUME NEW D, NEW d, Compared(D, d),
         NEW g, g = [w \in Warehouse |-> BasisGain(D, d, w)],
         NEW h, h = [w \in Warehouse |-> HalfUp(BasisGain(D, d, w), Cent)]
  PROVE  /\ SumFunctionOnSet(g, Warehouse) \in Int /\ SumFunctionOnSet(h, Warehouse) \in Int
         /\ Apart(Cent, SumFunctionOnSet(h, Warehouse), SumFunctionOnSet(g, Warehouse),
                  Cent * Cardinality(Warehouse))
  <1>1. PICK e : e = [w \in Warehouse |-> Cent]
    OBVIOUS
  <1>2. Cent \in Int /\ Cent \in Nat \ {0} /\ IsFiniteSet(Warehouse)
    BY StockAssumption, ComparedIs, CostInvIs
  <1>3. ASSUME NEW w \in Warehouse
        PROVE  g[w] \in Int /\ h[w] \in Int /\ e[w] \in Int /\ Apart(Cent, h[w], g[w], e[w])
    <2>1. PICK n \in Int : n = BasisGain(D, d, w)
      BY BasisGainInt
    <2>2. PICK b : b = HalfUp(n, Cent)
      OBVIOUS
    <2>3. b \in Int /\ 2 * (Cent * b) <= 2 * n + Cent /\ 2 * n <= 2 * (Cent * b) + Cent
      BY <1>2, <2>2, HalfUpIs
    <2>4. PICK c \in Int : c = Cent * b
      BY <1>2, <2>3
    <2>5. 2 * (c - n) <= Cent /\ -(2 * (c - n)) <= Cent
      BY <1>2, <2>3, <2>4
    <2>6. Apart(Cent, b, n, Cent)
      BY <2>4, <2>5 DEF Apart
    <2>7. g[w] = n /\ h[w] = b /\ e[w] = Cent
      BY <1>1, <2>1, <2>2
    <2> QED
      BY <1>2, <2>3, <2>6, <2>7
  <1>4. IntOn(g, Warehouse) /\ IntOn(h, Warehouse) /\ IntOn(e, Warehouse)
    BY <1>3 DEF IntOn
  <1>5. \A w \in Warehouse : Apart(Cent, h[w], g[w], e[w])
    BY <1>3
  <1>6. Apart(Cent, SumFunctionOnSet(h, Warehouse), SumFunctionOnSet(g, Warehouse), SumFunctionOnSet(e, Warehouse))
    BY <1>2, <1>4, <1>5, SumApart
  <1>7. \A w \in Warehouse : e[w] = Cent
    BY <1>1
  <1>8. SumFunctionOnSet(e, Warehouse) = Cent * Cardinality(Warehouse)
    BY <1>2, <1>7, SumOnes
  <1>9. SumFunctionOnSet(g, Warehouse) \in Int
    BY <1>2, <1>4, SumInt
  <1>10. SumFunctionOnSet(h, Warehouse) \in Int
    BY <1>2, <1>4, SumInt
  <1> QED
    BY <1>6, <1>8, <1>9, <1>10

DustOf(M, L) ==
  2 * SumFunctionOnSet([k \in DOMAIN M |-> Absolute(M[k].quantity)], DOMAIN M)
  + Cent * (Len(M) + Cardinality(L) + Cardinality(Warehouse))

LEMMA CostDustIs == CostDust = DustOf(moves, links)
  <1>1. PICK f : f = [k \in DOMAIN moves |-> Absolute(moves[k].quantity)]
    OBVIOUS
  <1>2. f = [k \in DOMAIN moves |-> Units(k)]
    BY <1>1 DEF Units
  <1>3. SumOf(DOMAIN moves, Units) = SumFunctionOnSet(f, DOMAIN moves)
    BY <1>2, Zenon DEF SumOf
  <1>4. CostDust = 2 * SumFunctionOnSet(f, DOMAIN moves) + Cent * (Len(moves) + Cardinality(links) + Cardinality(Warehouse))
    BY <1>3, Zenon DEF CostDust
  <1> QED
    BY <1>1, <1>4, Zenon DEF DustOf

\* What the document books in all, less what the stock gains.
LEMMA ResidualIsBooked ==
  ASSUME NEW D, NEW d, Compared(D, d),
         NEW b, b = [k \in DOMAIN moves |-> Booked(D, d, k)],
         NEW h, h = [w \in Warehouse |-> HalfUp(BasisGain(D, d, w), Cent)],
         SumFunctionOnSet(h, Warehouse) \in Int
  PROVE  /\ IntOn(b, DOMAIN moves)
         /\ Residual(LayeredReplay(D), LayeredReplay(Grown(D, d)), d)
              = SumFunctionOnSet(b, DOMAIN moves) - SumFunctionOnSet(h, Warehouse)
  <1>1. PICK T : T = DOMAIN moves
    OBVIOUS
  <1>2. PICK n \in Nat : n = Len(moves) /\ DOMAIN moves = 1 .. n
    BY ComparedIs, LengthIs
  <1>3. PICK old : old = LayeredReplay(D)
    OBVIOUS
  <1>4. PICK new : new = LayeredReplay(Grown(D, d))
    OBVIOUS
  <1>5. CostInv /\ d \in DOMAIN costs /\ old \in ReplayState /\ new \in ReplayState
    BY <1>3, <1>4, ComparedIs
  <1>6. PICK A \in Int : A = AmountOf(d)
    BY <1>5, ResidualInt
  <1>7. PICK s \in Int : s = ShareSum(d, Shared(d))
    <2>1. Shared(d) \subseteq Linked(d)
      BY DEF Shared
    <2> QED
      BY <1>5, <2>1, SharesSum
  <1>8. PICK c : c = [type \in InTypes \cup OutTypes |-> ChSum(D, d, ChangedBy(D, d, type))]
    OBVIOUS
  <1>9. \A type : ChangedBy(D, d, type) \subseteq T
    BY <1>1 DEF ChangedBy, Changed
  <1>10. ASSUME NEW type \in InTypes \cup OutTypes
         PROVE  /\ c[type] \in Int /\ c[type] = ChSum(D, d, ChangedBy(D, d, type))
                /\ c[type] = SumChanges(old, new, Changed(old, new, d, type))
    <2>1. PICK S : S = ChangedBy(D, d, type)
      OBVIOUS
    <2>2. PICK f : f = [i \in S |-> Ch(D, d, i)]
      OBVIOUS
    <2>3. S \subseteq DOMAIN moves /\ \A i \in S : f[i] \in Int
      BY <1>1, <1>9, <2>1, <2>2, ChInt
    <2>4. SumFunctionOnSet(f, S) \in Int
      BY <1>5, <2>3, MovementsSum
    <2>5. c[type] = SumFunctionOnSet(f, S)
      BY <1>8, <2>1, <2>2 DEF ChSum
    <2>6. f = [i \in S |-> Change(old, new, i)] /\ S = Changed(old, new, d, type)
      BY <1>3, <1>4, <2>1, <2>2 DEF Ch, ChangedBy
    <2>7. SumFunctionOnSet(f, S) = SumChanges(old, new, S)
      BY <2>6 DEF SumChanges, SumOf
    <2> QED
      BY <1>8, <2>4, <2>5, <2>6, <2>7
  <1>11. c["PURCHASE_RETURN"] = 0
    <2>1. ChangedBy(D, d, "PURCHASE_RETURN") = {}
      BY ComparedIs DEF ChangedBy, Changed, Is, Rough
    <2>2. PICK f : f = [i \in {} |-> Ch(D, d, i)]
      OBVIOUS
    <2>3. ChSum(D, d, {}) = SumFunctionOnSet(f, {})
      BY <2>2 DEF ChSum
    <2>4. SumFunctionOnSet(f, {}) = 0
      BY SumEmpty
    <2> QED
      BY <1>10, <2>1, <2>3, <2>4 DEF OutTypes
  <1>12. /\ c["SALES_ISSUE"] \in Int /\ c["SALES_ISSUE"] = ChSum(D, d, ChangedBy(D, d, "SALES_ISSUE"))
         /\ c["SALES_ISSUE"] = SumChanges(old, new, Changed(old, new, d, "SALES_ISSUE"))
    BY <1>10 DEF OutTypes
  <1>13. /\ c["SALES_RETURN"] \in Int /\ c["SALES_RETURN"] = ChSum(D, d, ChangedBy(D, d, "SALES_RETURN"))
         /\ c["SALES_RETURN"] = SumChanges(old, new, Changed(old, new, d, "SALES_RETURN"))
    BY <1>10 DEF InTypes
  <1>14. c["PURCHASE_RETURN"] = SumChanges(old, new, Changed(old, new, d, "PURCHASE_RETURN"))
    BY <1>10 DEF OutTypes
  <1>15. c["TRANSFER_OUT"] \in Int /\ c["TRANSFER_OUT"] = ChSum(D, d, ChangedBy(D, d, "TRANSFER_OUT"))
    BY <1>10 DEF OutTypes
  <1>16. /\ ChangedBy(D, d, "SALES_ISSUE") \cap T = ChangedBy(D, d, "SALES_ISSUE")
         /\ ChangedBy(D, d, "SALES_RETURN") \cap T = ChangedBy(D, d, "SALES_RETURN")
         /\ ChangedBy(D, d, "TRANSFER_OUT") \cap T = ChangedBy(D, d, "TRANSFER_OUT")
    BY <1>9
  <1>17. ArrivingAt(D, d, T) = ChangedBy(D, d, "TRANSFER_OUT")
    BY <1>1, ComparedIs DEF ArrivingAt, ChangedBy, Changed, Is, Paired
  <1>18. SharedAt(d, T) = Shared(d)
    BY <1>1, ComparedIs DEF SharedAt, Shared, Linked, LinksFit
  <1>19. Receipts(d) \cap T = Receipts(d)
    BY <1>1, ComparedIs, CostInvIs DEF DocsFit, DocFits, Receipts, ReceiptIn
  <1>20. ShareTotal(d, Receipts(d)) = A
    BY <1>6, Zenon DEF AmountOf, SumOf, ShareTotal
  <1>21. T \subseteq DOMAIN moves /\ b = [k \in T |-> Booked(D, d, k)]
    BY <1>1
  <1>22. IntOn(b, T) /\ SumFunctionOnSet(b, T)
              = ShareTotal(d, Receipts(d) \cap T)
                - ShareSum(d, SharedAt(d, T))
                - ChSum(D, d, ChangedBy(D, d, "SALES_ISSUE") \cap T)
                - ChSum(D, d, ChangedBy(D, d, "TRANSFER_OUT") \cap T)
                + ChSum(D, d, ChangedBy(D, d, "SALES_RETURN") \cap T)
                + ChSum(D, d, ArrivingAt(D, d, T))
    BY <1>21, BookedSum
  <1>23. SumFunctionOnSet(b, T)
           = A - s - c["SALES_ISSUE"] - c["TRANSFER_OUT"] + c["SALES_RETURN"] + c["TRANSFER_OUT"]
    BY <1>7, <1>12, <1>13, <1>15, <1>16, <1>17, <1>18, <1>19, <1>20, <1>22, Zenon
  <1>24. PICK g : g = SumFunctionOnSet(h, Warehouse)
    OBVIOUS
  <1>25. h = [w \in Warehouse |-> HalfUp(new.basis[w] - old.basis[w], Cent)]
    BY <1>3, <1>4 DEF BasisGain
  <1>26. Residual(old, new, d) = A - (g + (s + c["SALES_ISSUE"] - c["SALES_RETURN"] + c["PURCHASE_RETURN"]))
    BY <1>6, <1>7, <1>12, <1>13, <1>14, <1>24, <1>25, Zenon DEF Residual, SumOf, ShareSum
  <1>27. SumFunctionOnSet(b, T) = A - s - c["SALES_ISSUE"] + c["SALES_RETURN"]
    BY <1>12, <1>13, <1>15, <1>23
  <1>28. Residual(old, new, d) = SumFunctionOnSet(b, T) - g
    BY <1>11, <1>12, <1>13, <1>24, <1>26, <1>27
  <1> QED
    BY <1>1, <1>3, <1>4, <1>22, <1>24, <1>28

LEMMA ResidualNear ==
  ASSUME NEW D, NEW d, Compared(D, d),
         NEW r, r = Residual(LayeredReplay(D), LayeredReplay(Grown(D, d)), d)
  PROVE  /\ r \in Int /\ CostDust \in Int
         /\ 2 * (Cent * r) <= CostDust /\ -(2 * (Cent * r)) <= CostDust
  <1>1. PICK S : S = DOMAIN moves
    OBVIOUS
  <1>2. IsFiniteSet(S)
    BY <1>1, ComparedIs, CostInvIs
  <1>3. PICK b : b = [k \in DOMAIN moves |-> Booked(D, d, k)]
    OBVIOUS
  <1>4. PICK f : f = [k \in DOMAIN moves |-> RowGain(D, d, k)]
    OBVIOUS
  <1>5. PICK e : e = [k \in DOMAIN moves |-> Grain(k)]
    OBVIOUS
  <1>6. PICK g : g = [w \in Warehouse |-> BasisGain(D, d, w)]
    OBVIOUS
  <1>7. PICK h : h = [w \in Warehouse |-> HalfUp(BasisGain(D, d, w), Cent)]
    OBVIOUS
  <1>8. PICK H \in Int : H = SumFunctionOnSet(h, Warehouse)
    BY <1>6, <1>7, StockApart
  <1>9. PICK G \in Int : G = SumFunctionOnSet(g, Warehouse)
    BY <1>6, <1>7, StockApart
  <1>10. IntOn(b, S) /\ r = SumFunctionOnSet(b, S) - H
    BY <1>1, <1>3, <1>7, <1>8, ResidualIsBooked
  <1>11. PICK B \in Int : B = SumFunctionOnSet(b, S)
    BY <1>2, <1>10, SumInt
  <1>12. IntOn(f, S)
    BY <1>1, <1>4, GrowsInt DEF IntOn
  <1>13. SumFunctionOnSet(f, S) = G
    BY <1>1, <1>4, <1>6, <1>9, GainSumAll
  <1>14. IntOn(e, S) /\ SumFunctionOnSet(e, S) = 2 * AllUnits + Cent * (Len(moves) + Cardinality(links))
    BY <1>1, <1>5, GrainsAddUp
  <1>15. PICK E \in Int : E = SumFunctionOnSet(e, S)
    BY <1>2, <1>14, SumInt
  <1>16. Apart(Cent, B, G, E)
    <2>1. \A k \in S : Apart(Cent, b[k], f[k], e[k])
      BY <1>1, <1>3, <1>4, <1>5, RowsFitAll DEF Fits, Apart
    <2>2. Cent \in Int
      BY StockAssumption
    <2>3. Apart(Cent, SumFunctionOnSet(b, S), SumFunctionOnSet(f, S), SumFunctionOnSet(e, S))
      BY <1>2, <1>10, <1>12, <1>14, <2>1, <2>2, SumApart
    <2> QED
      BY <1>11, <1>13, <1>15, <2>3
  <1>17. PICK m \in Nat : m = Cardinality(Warehouse)
    BY ComparedIs, CostInvIs, FS_CardinalityType
  <1>18. PICK W \in Int : W = Cent * m
    BY StockAssumption
  <1>19. Apart(Cent, H, G, W)
    BY <1>6, <1>7, <1>8, <1>9, <1>17, <1>18, StockApart
  <1>20. 2 * (Cent * (B - H)) <= E + W /\ -(2 * (Cent * (B - H))) <= E + W
    BY <1>16, <1>19, ApartInt
  <1>21. r = B - H
    BY <1>10, <1>11
  <1>22. CostDust = E + W
    <2>1. PICK u : u = AllUnits
      OBVIOUS
    <2>2. u \in Int
      <3>1. PICK v : v = [k \in DOMAIN moves |-> Units(k)]
        OBVIOUS
      <3>2. IntOn(v, S)
        BY <1>1, <3>1, ComparedIs DEF IntOn
      <3>3. SumFunctionOnSet(v, S) \in Int
        BY <1>2, <3>2, SumInt
      <3> QED
        BY <1>1, <2>1, <3>1, <3>3 DEF AllUnits
    <2>3. PICK x \in Nat : x = Len(moves)
      BY ComparedIs, LengthIs
    <2>4. PICK y \in Nat : y = Cardinality(links)
      BY ComparedIs, CostInvIs, FS_CardinalityType
    <2>5. E = 2 * u + Cent * (x + y)
      BY <1>14, <1>15, <2>1, <2>3, <2>4
    <2>6. CostDust = 2 * u + Cent * (x + y + m)
      BY <1>17, <2>1, <2>3, <2>4, Zenon DEF CostDust, AllUnits, SumOf
    <2>7. Cent * (x + y + m) = Cent * (x + y) + Cent * m /\ Cent * (x + y) \in Int
      BY StockAssumption
    <2> QED
      BY <1>18, <2>2, <2>5, <2>6, <2>7
  <1> QED
    BY <1>20, <1>21, <1>22
-----------------------------------------------------------------------------
(* The residual of a document stays within what rounding can leave.         *)
Continues(M, N, L, K) ==
  /\ DOMAIN M \subseteq DOMAIN N /\ \A i \in DOMAIN M : N[i] = M[i]
  /\ L \subseteq K

LEMMA HistoryGrows ==
  ASSUME ListInv(moves), [Next]_vars
  PROVE  Continues(moves, moves', links, links')
  <1>1. CASE Bought
    BY <1>1, MovesStay DEF Bought, Purchase, Continues
  <1>2. CASE Written \/ WrittenTwo \/ UNCHANGED <<moves, links>>
    BY <1>2, MovesStay DEF Written, WrittenTwo, Continues
  <1> QED
    BY <1>1, <1>2, StepWrites

LEMMA RegularEarlier ==
  ASSUME NEW M, NEW N, NEW L, NEW K, Continues(M, N, L, K), ListInv(M), RegularIn(N)
  PROVE  RegularIn(M)
  <1>1. PICK n \in Nat : n = Len(M) /\ DOMAIN M = 1 .. n
    BY DEF ListInv, IsList
  <1>2. \A i \in DOMAIN M : i \in DOMAIN N /\ N[i] = M[i]
    BY DEF Continues
  <1>3. \A i \in DOMAIN M : ~Rough(M[i])
    BY <1>2 DEF RegularIn
  <1>4. InOrder(M)
    <2> SUFFICES ASSUME NEW i \in DOMAIN M, NEW j \in 1 .. (i - 1) PROVE ~(M[j].day > M[i].day)
      BY DEF InOrder
    <2>1. j \in DOMAIN M
      BY <1>1
    <2>2. ~(N[j].day > N[i].day)
      BY <1>2 DEF RegularIn, InOrder
    <2> QED
      BY <1>2, <2>1, <2>2
  <1> QED
    BY <1>3, <1>4 DEF RegularIn

LEMMA DustGrows ==
  ASSUME NEW M, NEW N, NEW L, NEW K, Continues(M, N, L, K), ListInv(M), ListInv(N), IsFiniteSet(K)
  PROVE  DustOf(M, L) \in Int /\ DustOf(N, K) \in Int /\ DustOf(M, L) <= DustOf(N, K)
  <1>1. PICK n \in Nat : n = Len(N) /\ DOMAIN N = 1 .. n
    BY DEF ListInv, IsList
  <1>2. PICK m \in Nat : m = Len(M) /\ DOMAIN M = 1 .. m
    BY DEF ListInv, IsList
  <1>3. m <= n
    BY <1>1, <1>2 DEF Continues
  <1>4. PICK f : f = [k \in DOMAIN M |-> Absolute(M[k].quantity)]
    OBVIOUS
  <1>5. PICK g : g = [k \in DOMAIN N |-> Absolute(N[k].quantity)]
    OBVIOUS
  <1>6. PICK S : S = DOMAIN M
    OBVIOUS
  <1>7. PICK T : T = DOMAIN N
    OBVIOUS
  <1>8. IsFiniteSet(T) /\ IsFiniteSet(S) /\ S \in SUBSET T
    <2>1. IsFiniteSet(1 .. n) /\ IsFiniteSet(1 .. m)
      BY FS_Interval
    <2>2. S \in SUBSET T
      BY <1>6, <1>7 DEF Continues
    <2> QED
      BY <1>1, <1>2, <1>6, <1>7, <2>1, <2>2
  <1>9. \A k \in T : g[k] \in Nat
    <2>1. \A k \in T : N[k].quantity \in Int
      BY <1>7 DEF ListInv, RowsStand, RowOK
    <2> QED
      BY <1>5, <1>7, <2>1 DEF Absolute
  <1>10. \A k \in S : f[k] = g[k]
    BY <1>4, <1>5, <1>6 DEF Continues
  <1>11. SumFunctionOnSet(f, S) = SumFunctionOnSet(g, S)
    BY <1>8, <1>10, SumAgree
  <1>12. SumFunctionOnSet(g, S) <= SumFunctionOnSet(g, T)
    BY <1>8, <1>9, SumSubset
  <1>13. \A k \in S : g[k] \in Nat
    BY <1>8, <1>9
  <1>14. PICK x \in Nat : x = SumFunctionOnSet(g, S)
    BY <1>8, <1>13, SumNat
  <1>15. PICK y \in Nat : y = SumFunctionOnSet(g, T)
    BY <1>8, <1>9, SumNat
  <1>16. L \subseteq K
    BY DEF Continues
  <1>17. Cardinality(L) \in Nat /\ Cardinality(K) \in Nat /\ Cardinality(L) <= Cardinality(K)
    BY <1>16, FS_Subset, FS_CardinalityType
  <1>18. PICK a \in Nat : a = Cardinality(L)
    BY <1>17
  <1>19. PICK b \in Nat : b = Cardinality(K) /\ a <= b
    BY <1>17, <1>18
  <1>20. PICK w \in Nat : w = Cardinality(Warehouse)
    BY LandedCostAssumption, FS_CardinalityType
  <1>21. DustOf(M, L) = 2 * x + Cent * (m + a + w)
    BY <1>2, <1>4, <1>6, <1>11, <1>14, <1>18, <1>20 DEF DustOf
  <1>22. DustOf(N, K) = 2 * y + Cent * (n + b + w)
    BY <1>1, <1>5, <1>7, <1>15, <1>19, <1>20 DEF DustOf
  <1>23. Cent * (m + a + w) <= Cent * (n + b + w) /\ Cent * (m + a + w) \in Int /\ Cent * (n + b + w) \in Int
    <2>1. PICK c \in Int : c = m + a + w
      OBVIOUS
    <2>2. PICK e \in Int : e = n + b + w
      OBVIOUS
    <2>3. c <= e /\ Cent \in Nat
      BY <1>3, <1>19, <2>1, <2>2, StockAssumption
    <2>4. Cent * c <= Cent * e /\ Cent * c \in Int /\ Cent * e \in Int
      BY <2>3, ProductGrows
    <2> QED
      BY <2>1, <2>2, <2>4
  <1>24. x <= y
    BY <1>12, <1>14, <1>15
  <1> QED
    BY <1>21, <1>22, <1>23, <1>24

Within(r, e) == 2 * (Cent * r) <= e /\ -(2 * (Cent * r)) <= e

\* The residuals of the posted documents of C.
SmallIn(C, e) == \A d \in DOMAIN C : C[d].status = "POSTED" => Within(C[d].residual, e)

LEMMA SmallGrows ==
  ASSUME NEW C, \A d \in DOMAIN C : C[d].residual \in Int, NEW e \in Int, NEW f \in Int, e <= f, SmallIn(C, e)
  PROVE  SmallIn(C, f)
  <1> SUFFICES ASSUME NEW d \in DOMAIN C, C[d].status = "POSTED" PROVE Within(C[d].residual, f)
    BY DEF SmallIn
  <1>1. PICK r \in Int : r = C[d].residual
    OBVIOUS
  <1>2. PICK x \in Int : x = Cent * r
    BY StockAssumption
  <1>3. 2 * x <= e /\ -(2 * x) <= e
    BY <1>1, <1>2 DEF SmallIn, Within
  <1> QED
    BY <1>1, <1>2, <1>3 DEF Within

ResidualInv == HistoryInv /\ (RegularIn(moves) => SmallIn(costs, DustOf(moves, links)))

LEMMA DraftSmall ==
  ASSUME NEW rs, NEW weights, NEW amount, CreateDraft(rs, weights, amount),
         CostInv, NEW e, SmallIn(costs, e)
  PROVE  SmallIn(costs', e)
  <1>1. PICK c : costs' = Append(costs, c) /\ c.status = "DRAFT"
    <2>1. PICK shares : shares = Shares(amount, weights)
      OBVIOUS
    <2>2. PICK share : share = [r \in ToSet(rs) |-> shares[CHOOSE k \in DOMAIN rs : rs[k] = r]]
      OBVIOUS
    <2>3. PICK c : c = [status |-> "DRAFT", share |-> share,
                        posted |-> NoJournals, residual |-> 0, at |-> 0, turn |-> 0]
      OBVIOUS
    <2>4. costs' = Append(costs, c)
      BY <2>1, <2>2, <2>3 DEF CreateDraft
    <2> QED
      BY <2>3, <2>4
  <1>2. IsList(costs)
    BY CostInvIs DEF DocsFit
  <1>3. PICK C : C = Append(costs, c) /\ Longer(costs, C, c)
    BY <1>2, AppendIsLonger
  <1>4. /\ DOMAIN C = DOMAIN costs \cup {Len(costs) + 1}
        /\ C[Len(costs) + 1] = c /\ \A i \in DOMAIN costs : C[i] = costs[i]
    BY <1>3, Domains
  <1>5. SmallIn(C, e)
    BY <1>1, <1>4 DEF SmallIn
  <1> QED
    BY <1>1, <1>3, <1>5

LEMMA ReverseSmall ==
  ASSUME NEW d \in DOMAIN costs, ReverseLandedCost(d), CostInv, NEW e, SmallIn(costs, e)
  PROVE  SmallIn(costs', e)
  <1>1. PICK C : C = costs'
    OBVIOUS
  <1>2. PICK b : b = [costs[d] EXCEPT !.status = "REVERSED"]
    OBVIOUS
  <1>3. C = [costs EXCEPT ![d] = b]
    BY <1>1, <1>2 DEF ReverseLandedCost
  <1>4. b.status = "REVERSED"
    <2>1. PICK a : a = costs[d]
      OBVIOUS
    <2>2. a = [status |-> a.status, share |-> a.share, posted |-> a.posted,
               residual |-> a.residual, at |-> a.at, turn |-> a.turn]
      BY <2>1, CostInvIs DEF DocsFit, DocFits, IsDocument
    <2> QED
      BY <1>2, <2>1, <2>2
  <1>5. DOMAIN C = DOMAIN costs /\ C[d] = b /\ \A i \in DOMAIN costs : i # d => C[i] = costs[i]
    BY <1>3
  <1>6. SmallIn(C, e)
    BY <1>4, <1>5 DEF SmallIn
  <1> QED
    BY <1>1, <1>6

LEMMA PostSmall ==
  ASSUME NEW d \in DOMAIN costs, PostLandedCost(d), HistoryInv, RegularIn(moves),
         NEW e, e = DustOf(moves, links), SmallIn(costs, e)
  PROVE  SmallIn(costs', e)
  <1>1. CostInv /\ Active \subseteq DOMAIN costs /\ d \in DOMAIN costs \ Active
    BY DEF HistoryInv, Active, PostLandedCost
  <1>2. Compared(Active, d)
    BY <1>1 DEF Compared
  <1>3. PICK r : r = Residual(LayeredReplay(Active), LayeredReplay(Grown(Active, d)), d)
    OBVIOUS
  <1>4. r \in Int /\ 2 * (Cent * r) <= CostDust /\ -(2 * (Cent * r)) <= CostDust
    BY <1>2, <1>3, ResidualNear
  <1>5. Within(r, e)
    BY <1>4, CostDustIs DEF Within
  <1>6. PICK a : a = costs[d]
    OBVIOUS
  <1>7. a = [status |-> a.status, share |-> a.share, posted |-> a.posted,
             residual |-> a.residual, at |-> a.at, turn |-> a.turn]
    BY <1>1, <1>6, CostInvIs DEF DocsFit, DocFits, IsDocument
  <1>8. PICK j : j = JournalsOf(LayeredReplay(Active), LayeredReplay(Active \cup {d}), d)
    OBVIOUS
  <1>9. PICK b : b = [a EXCEPT !.status = "POSTED", !.posted = j, !.residual = r, !.at = Len(moves), !.turn = Turn + 1]
    OBVIOUS
  <1>10. PICK C : C = costs'
    OBVIOUS
  <1>11. C = [costs EXCEPT ![d] = b]
    <2>1. costs' = [costs EXCEPT ![d].status = "POSTED", ![d].posted = j,
                                 ![d].residual = r, ![d].at = Len(moves), ![d].turn = Turn + 1]
      BY <1>3, <1>8 DEF PostLandedCost, Grown
    <2> QED
      BY <1>6, <1>9, <1>10, <2>1
  <1>12. b.residual = r
    BY <1>7, <1>9
  <1>13. DOMAIN C = DOMAIN costs /\ C[d] = b /\ \A i \in DOMAIN costs : i # d => C[i] = costs[i]
    BY <1>11
  <1>14. SmallIn(C, e)
    BY <1>5, <1>12, <1>13 DEF SmallIn
  <1> QED
    BY <1>10, <1>14

LEMMA ResidualInvStep == ResidualInv /\ [CostNext]_costVars => ResidualInv'
  <1> SUFFICES ASSUME ResidualInv, [CostNext]_costVars PROVE ResidualInv'
    OBVIOUS
  <1>1. HistoryInv /\ CostInv /\ ListInv(moves) /\ IsFiniteSet(links)
    BY CostInvIs DEF ResidualInv, HistoryInv
  <1>2. HistoryInv'
    BY <1>1, HistoryInvStep
  <1>3. PICK N : N = moves'
    OBVIOUS
  <1>4. PICK K : K = links'
    OBVIOUS
  <1>5. PICK C : C = costs'
    OBVIOUS
  <1> SUFFICES ASSUME RegularIn(N) PROVE SmallIn(C, DustOf(N, K))
    BY <1>2, <1>3, <1>4, <1>5 DEF ResidualInv
  <1>6. CASE BookStep
    <2>1. N = moves /\ K = links
      BY <1>1, <1>3, <1>4, <1>6, BookStepIs DEF KeepsStock
    <2>2. RegularIn(moves)
      BY <2>1
    <2>3. PICK e : e = DustOf(moves, links) /\ SmallIn(costs, e)
      BY <2>2 DEF ResidualInv
    <2>4. SmallIn(costs', e)
      <3>1. ASSUME NEW r \in DOMAIN moves, NEW amount \in Amount, CreateDraft(<<r>>, << 1 >>, amount)
            PROVE  SmallIn(costs', e)
        BY <1>1, <2>3, <3>1, DraftSmall
      <3>2. ASSUME NEW r \in DOMAIN moves, NEW s \in DOMAIN moves, NEW amount \in Amount,
                   NEW v \in Weight, NEW w \in Weight, CreateDraft(<<r, s>>, <<v, w>>, amount)
            PROVE  SmallIn(costs', e)
        BY <1>1, <2>3, <3>2, DraftSmall
      <3>3. ASSUME NEW d \in DOMAIN costs, PostLandedCost(d) PROVE SmallIn(costs', e)
        BY <1>1, <2>2, <2>3, <3>3, PostSmall
      <3>4. ASSUME NEW d \in DOMAIN costs, ReverseLandedCost(d) PROVE SmallIn(costs', e)
        BY <1>1, <2>3, <3>4, ReverseSmall
      <3> QED
        BY <1>6, <3>1, <3>2, <3>3, <3>4 DEF BookStep
    <2> QED
      BY <1>5, <2>1, <2>3, <2>4
  <1>7. CASE [Next]_vars
    <2>1. Continues(moves, N, links, K)
      BY <1>1, <1>3, <1>4, <1>7, HistoryGrows
    <2>2. C = costs
      BY <1>1, <1>5, <1>7, ValueStep DEF CostInv
    <2>3. RegularIn(moves)
      BY <1>1, <2>1, RegularEarlier
    <2>4. SmallIn(costs, DustOf(moves, links))
      BY <2>3 DEF ResidualInv
    <2>5. ListInv(N) /\ IsFiniteSet(K)
      <3>1. CostInv'
        BY <1>2 DEF HistoryInv
      <3>2. ListInv(moves') /\ LinksFit(moves', links')
        BY <3>1 DEF CostInv, ValueInv, StockInv
      <3> QED
        BY <1>3, <1>4, <3>2 DEF LinksFit
    <2>6. PICK e \in Int : e = DustOf(moves, links)
      BY <1>1, <2>1, <2>5, DustGrows
    <2>7. PICK f \in Int : f = DustOf(N, K) /\ e <= f
      BY <1>1, <2>1, <2>5, <2>6, DustGrows
    <2>8. \A d \in DOMAIN costs : costs[d].residual \in Int
      BY <1>1, CostInvIs DEF DocsFit, DocFits
    <2>9. SmallIn(costs, f)
      BY <2>4, <2>6, <2>7, <2>8, SmallGrows
    <2> QED
      BY <2>2, <2>7, <2>9
  <1>8. BookStep \/ [Next]_vars
    BY StepCases
  <1> QED
    BY <1>6, <1>7, <1>8

LEMMA ResidualInvHolds == CostSpec => []ResidualInv
  <1>1. Init => HistoryInv
    BY CostInvInit, HistoryInit DEF HistoryInv
  <1>2. Init => costs = << >>
    BY DEF Init
  <1>3. Init => ResidualInv
    BY <1>1, <1>2 DEF ResidualInv, SmallIn
  <1> QED
    BY <1>3, ResidualInvStep, PTL DEF CostSpec, CostInit

\* In a regular history what a posted document leaves undistributed is
\* rounding: the adjustments of post_landed_cost and the stock take its amount,
\* movement for movement, to half a cent and a step per unit each.
THEOREM ResidualStaysRounding == CostSpec => []ResidualIsRounding
  <1>1. ASSUME ResidualInv PROVE ResidualIsRounding
    <2> SUFFICES ASSUME RegularCosts, NEW d \in Active
                 PROVE  2 * Cent * Absolute(costs[d].residual) <= CostDust
      BY DEF ResidualIsRounding
    <2>1. RegularIn(moves)
      BY RegularIs DEF RegularCosts
    <2>2. d \in DOMAIN costs /\ costs[d].status = "POSTED" /\ CostInv
      BY <1>1 DEF Active, ResidualInv, HistoryInv
    <2>3. PICK r \in Int : r = costs[d].residual
      BY <2>2, CostInvIs DEF DocsFit, DocFits
    <2>4. Within(r, DustOf(moves, links))
      BY <1>1, <2>1, <2>2, <2>3 DEF ResidualInv, SmallIn
    <2>5. PICK x \in Int : x = Cent * r
      BY StockAssumption
    <2>6. PICK e : e = CostDust
      OBVIOUS
    <2>7. 2 * x <= e /\ -(2 * x) <= e
      BY <2>4, <2>5, <2>6, CostDustIs DEF Within
    <2>8. 2 * Cent * r = 2 * x /\ 2 * Cent * (-r) = -(2 * x)
      BY <2>5, StockAssumption
    <2>9. 2 * Cent * Absolute(r) <= e
      BY <2>7, <2>8 DEF Absolute
    <2> QED
      BY <2>3, <2>6, <2>9
  <1> QED
    BY <1>1, ResidualInvHolds, PTL

-----------------------------------------------------------------------------
(* What a posting books on each warehouse.                                  *)
\* Two receipts of document c filled one obligation.
ShareIn(M, c, l) ==
  HalfUp(l.quantity * HalfUp(Steps(c.share[l.receipt]), Absolute(M[l.receipt].quantity)), Cent)

SharedIn(M, L, c) == {l \in L : l.receipt \in DOMAIN c.share /\ ShareIn(M, c, l) > 0}

TwiceIn(M, L, c) ==
  \E l, m \in SharedIn(M, L, c) : m.issue = l.issue /\ ~(l.receipt <= m.receipt)

LEMMA TwiceIs ==
  ASSUME NEW d
  PROVE  SharesObligation(d) <=> TwiceIn(moves, links, costs[d])
  <1>1. \A l : LinkShare(d, l) = ShareIn(moves, costs[d], l)
    BY DEF LinkShare, ShareIn, Units
  <1>2. Shared(d) = SharedIn(moves, links, costs[d])
    BY <1>1 DEF Shared, SharedIn, Linked, Receipts
  <1>3. Posted(d) # Shared(d) <=> \E l, m \in Shared(d) : m.issue = l.issue /\ ~(l.receipt <= m.receipt)
    BY DEF Posted
  <1> QED
    BY <1>2, <1>3 DEF SharesObligation, TwiceIn

\* The movements of a warehouse.
At(w) == {k \in DOMAIN moves : moves[k].warehouse = w}

\* What is left of the document's amount is booked where its first receipt was.
LEMMA GainIsBooked ==
  ASSUME NEW D, NEW d, Compared(D, d), ~SharesObligation(d), NEW w \in Warehouse, NEW residual \in Int,
         NEW b, b = [k \in At(w) |-> Booked(D, d, k)]
  PROVE  InventoryGain(LayeredReplay(D), LayeredReplay(Grown(D, d)), d, w, residual)
           = SumFunctionOnSet(b, At(w)) - (IF moves[Min(Receipts(d))].warehouse = w THEN residual ELSE 0)
  <1>1. PICK T : T = At(w)
    OBVIOUS
  <1>2. T \subseteq DOMAIN moves /\ \A k : k \in T <=> k \in DOMAIN moves /\ moves[k].warehouse = w
    BY <1>1 DEF At
  <1>3. PICK old : old = LayeredReplay(D)
    OBVIOUS
  <1>4. PICK new : new = LayeredReplay(Grown(D, d))
    OBVIOUS
  <1>5. CostInv /\ d \in DOMAIN costs /\ old \in ReplayState /\ new \in ReplayState
    BY <1>3, <1>4, ComparedIs
  <1>6. PICK at : at = [type \in InTypes \cup OutTypes |->
                          {i \in Changed(old, new, d, type) : moves[i].warehouse = w}]
    OBVIOUS
  <1>7. \A type : Changed(old, new, d, type) \subseteq DOMAIN moves
    BY DEF Changed
  <1>8. ASSUME NEW S, S \subseteq DOMAIN moves
        PROVE  SumChanges(old, new, S) = ChSum(D, d, S) /\ ChSum(D, d, S) \in Int
    <2>1. [i \in S |-> Ch(D, d, i)] = [i \in S |-> Change(old, new, i)]
      BY <1>3, <1>4 DEF Ch
    <2>2. SumChanges(old, new, S) = ChSum(D, d, S)
      BY <2>1 DEF SumChanges, SumOf, ChSum
    <2> QED
      BY <1>5, <1>8, <2>2, ChangesSum
  <1>9. PICK c : c = [type \in InTypes \cup OutTypes |-> ChSum(D, d, at[type])]
    OBVIOUS
  <1>10. ASSUME NEW type \in InTypes \cup OutTypes
         PROVE  /\ c[type] \in Int /\ c[type] = ChSum(D, d, ChangedBy(D, d, type) \cap T)
                /\ c[type] = SumChanges(old, new, {i \in Changed(old, new, d, type) : moves[i].warehouse = w})
    <2>1. at[type] = ChangedBy(D, d, type) \cap T
      BY <1>2, <1>3, <1>4, <1>6, <1>7 DEF ChangedBy
    <2>2. at[type] \subseteq DOMAIN moves
      BY <1>2, <2>1
    <2> QED
      BY <1>6, <1>8, <1>9, <2>1, <2>2
  <1>11. c["PURCHASE_RETURN"] = 0
    <2>1. ChangedBy(D, d, "PURCHASE_RETURN") \cap T = {}
      BY ComparedIs DEF ChangedBy, Changed, Is, Rough
    <2>2. PICK f : f = [i \in {} |-> Ch(D, d, i)]
      OBVIOUS
    <2>3. ChSum(D, d, {}) = SumFunctionOnSet(f, {})
      BY <2>2 DEF ChSum
    <2>4. SumFunctionOnSet(f, {}) = 0
      BY SumEmpty
    <2> QED
      BY <1>10, <2>1, <2>3, <2>4 DEF OutTypes
  <1>12. /\ c["SALES_ISSUE"] \in Int /\ c["SALES_ISSUE"] = ChSum(D, d, ChangedBy(D, d, "SALES_ISSUE") \cap T)
         /\ c["TRANSFER_OUT"] \in Int /\ c["TRANSFER_OUT"] = ChSum(D, d, ChangedBy(D, d, "TRANSFER_OUT") \cap T)
         /\ c["SALES_RETURN"] \in Int /\ c["SALES_RETURN"] = ChSum(D, d, ChangedBy(D, d, "SALES_RETURN") \cap T)
    BY <1>10 DEF InTypes, OutTypes
  <1>13. PICK A : A = {i \in Changed(old, new, d, "TRANSFER_OUT") : moves[i + 1].warehouse = w}
    OBVIOUS
  <1>14. A = ArrivingAt(D, d, T)
    <2>1. \A i \in Changed(old, new, d, "TRANSFER_OUT") : i + 1 \in DOMAIN moves
      BY ComparedIs DEF Changed, Is, Paired
    <2> QED
      BY <1>2, <1>3, <1>4, <1>13, <2>1 DEF ArrivingAt, ChangedBy
  <1>15. PICK a \in Int : a = SumChanges(old, new, A) /\ a = ChSum(D, d, ArrivingAt(D, d, T))
    <2>1. A \subseteq DOMAIN moves
      BY <1>7, <1>13
    <2> QED
      BY <1>8, <1>14, <2>1
  <1>16. PICK R : R = {r \in Receipts(d) : moves[r].warehouse = w}
    OBVIOUS
  <1>17. R = Receipts(d) \cap T
    BY <1>2, <1>16, ComparedIs, CostInvIs DEF DocsFit, DocFits, Receipts, ReceiptIn
  <1>18. PICK g \in Int : g = SumOf(R, LAMBDA r : costs[d].share[r]) /\ g = ShareTotal(d, Receipts(d) \cap T)
    <2>1. R \subseteq Receipts(d)
      BY <1>16
    <2>2. SumOf(R, LAMBDA r : costs[d].share[r]) \in Int
      BY <1>5, <2>1, AmountsSum
    <2>3. SumOf(R, LAMBDA r : costs[d].share[r]) = ShareTotal(d, R)
      BY Zenon DEF SumOf, ShareTotal
    <2> QED
      BY <1>17, <2>2, <2>3
  <1>19. PICK S : S = {l \in Posted(d) : moves[l.issue].warehouse = w}
    OBVIOUS
  <1>20. S = SharedAt(d, T)
    <2>1. Posted(d) = Shared(d)
      BY DEF SharesObligation
    <2>2. \A l \in Shared(d) : l.receipt \in DOMAIN moves
                              /\ (moves[l.issue].warehouse = w <=> moves[l.receipt].warehouse = w)
      BY ComparedIs DEF Shared, Linked, LinksFit, LinksHome
    <2> QED
      BY <1>2, <1>19, <2>1, <2>2 DEF SharedAt
  <1>21. PICK s \in Int : s = ShareSum(d, S) /\ s = ShareSum(d, SharedAt(d, T))
    <2>1. S \subseteq Linked(d)
      BY <1>20 DEF SharedAt, Shared
    <2> QED
      BY <1>5, <1>20, <2>1, SharesSum
  <1>22. PICK e \in Int : e = IF moves[Min(Receipts(d))].warehouse = w THEN residual ELSE 0
    OBVIOUS
  <1>23. InventoryGain(old, new, d, w, residual)
           = g - s - c["SALES_ISSUE"] - c["PURCHASE_RETURN"] + c["SALES_RETURN"] - c["TRANSFER_OUT"] + a - e
    BY <1>10, <1>13, <1>15, <1>16, <1>18, <1>19, <1>21, <1>22
    DEF InventoryGain, SumOf, ShareSum, InTypes, OutTypes
  <1>24. SumFunctionOnSet(b, T) = g - s - c["SALES_ISSUE"] - c["TRANSFER_OUT"] + c["SALES_RETURN"] + a
    <2>1. b = [k \in T |-> Booked(D, d, k)]
      BY <1>1
    <2> QED
      BY <1>2, <1>12, <1>15, <1>18, <1>21, <2>1, BookedSum
  <1>25. InventoryGain(old, new, d, w, residual) = SumFunctionOnSet(b, T) - e
    BY <1>11, <1>12, <1>23, <1>24
  <1> QED
    BY <1>1, <1>3, <1>4, <1>22, <1>25

\* The rows of a set, booked and gained.
LEMMA SetApart ==
  ASSUME NEW D, NEW d, Compared(D, d), NEW T \in SUBSET DOMAIN moves,
         NEW b, b = [k \in DOMAIN moves |-> Booked(D, d, k)],
         NEW f, f = [k \in DOMAIN moves |-> RowGain(D, d, k)]
  PROVE  /\ IsFiniteSet(T) /\ IntOn(b, T) /\ IntOn(f, T)
         /\ SumFunctionOnSet(b, T) \in Int /\ SumFunctionOnSet(f, T) \in Int
         /\ \E E \in Int : /\ Apart(Cent, SumFunctionOnSet(b, T), SumFunctionOnSet(f, T), E)
                           /\ E + Cent * Cardinality(Warehouse) <= CostDust /\ E <= CostDust
                           /\ CostDust \in Int /\ Cent * Cardinality(Warehouse) \in Int
  <1>1. PICK S : S = DOMAIN moves
    OBVIOUS
  <1>2. IsFiniteSet(S) /\ IsFiniteSet(T)
    BY <1>1, ComparedIs, CostInvIs, FS_Subset
  <1>3. PICK e : e = [k \in DOMAIN moves |-> Grain(k)]
    OBVIOUS
  <1>4. \A k \in S : /\ b[k] \in Int /\ f[k] \in Int /\ e[k] \in Nat
                     /\ Apart(Cent, b[k], f[k], e[k])
    BY <1>1, <1>3, RowsFitAll, GrowsInt DEF Fits, Apart
  <1>5. IntOn(b, T) /\ IntOn(f, T) /\ IntOn(e, T)
    BY <1>1, <1>4 DEF IntOn
  <1>6. PICK E \in Int : E = SumFunctionOnSet(e, T)
    BY <1>2, <1>5, SumInt
  <1>7. SumFunctionOnSet(b, T) \in Int /\ SumFunctionOnSet(f, T) \in Int
    BY <1>2, <1>5, SumInt
  <1>8. Apart(Cent, SumFunctionOnSet(b, T), SumFunctionOnSet(f, T), E)
    <2>1. Cent \in Int /\ \A k \in T : Apart(Cent, b[k], f[k], e[k])
      BY <1>1, <1>4, StockAssumption
    <2> QED
      BY <1>2, <1>5, <1>6, <2>1, SumApart
  <1>9. E <= 2 * AllUnits + Cent * (Len(moves) + Cardinality(links))
    <2>1. SumFunctionOnSet(e, T) <= SumFunctionOnSet(e, S)
      BY <1>1, <1>2, <1>4, SumSubset
    <2>2. SumFunctionOnSet(e, S) = 2 * AllUnits + Cent * (Len(moves) + Cardinality(links))
      BY <1>1, <1>3, GrainsAddUp
    <2> QED
      BY <1>6, <2>1, <2>2
  <1>10. PICK m \in Nat : m = Cardinality(Warehouse)
    BY ComparedIs, CostInvIs, FS_CardinalityType
  <1>11. PICK W \in Nat : W = Cent * m
    BY StockAssumption, ProductNat
  <1>12. CostDust \in Int /\ E + W <= CostDust
    <2>1. PICK u : u = AllUnits
      OBVIOUS
    <2>2. u \in Int
      <3>1. PICK v : v = [k \in DOMAIN moves |-> Units(k)]
        OBVIOUS
      <3>2. IntOn(v, S)
        BY <1>1, <3>1, ComparedIs DEF IntOn
      <3>3. SumFunctionOnSet(v, S) \in Int
        BY <1>2, <3>2, SumInt
      <3> QED
        BY <1>1, <2>1, <3>1, <3>3 DEF AllUnits
    <2>3. PICK x \in Nat : x = Len(moves)
      BY ComparedIs, LengthIs
    <2>4. PICK y \in Nat : y = Cardinality(links)
      BY ComparedIs, CostInvIs, FS_CardinalityType
    <2>5. E <= 2 * u + Cent * (x + y)
      BY <1>9, <2>1, <2>3, <2>4
    <2>6. CostDust = 2 * u + Cent * (x + y + m)
      BY <1>10, <2>1, <2>3, <2>4, Zenon DEF CostDust, AllUnits, SumOf
    <2>7. Cent * (x + y + m) = Cent * (x + y) + Cent * m /\ Cent * (x + y) \in Int
      BY StockAssumption
    <2> QED
      BY <1>11, <2>2, <2>5, <2>6, <2>7
  <1>13. E + Cent * Cardinality(Warehouse) <= CostDust /\ E <= CostDust /\ Cent * Cardinality(Warehouse) \in Int
    BY <1>10, <1>11, <1>12
  <1> QED
    BY <1>2, <1>5, <1>7, <1>8, <1>12, <1>13

\* What a posting books on a warehouse is what its stock gains, to the dust.
LEMMA GainNear ==
  ASSUME NEW D, NEW d, Compared(D, d), ~SharesObligation(d), NEW w \in Warehouse,
         NEW r, r = Residual(LayeredReplay(D), LayeredReplay(Grown(D, d)), d),
         NEW v, v = InventoryGain(LayeredReplay(D), LayeredReplay(Grown(D, d)), d, w, r)
  PROVE  v \in Int /\ Apart(Cent, v, BasisGain(D, d, w), CostDust)
  <1>1. PICK S : S = DOMAIN moves
    OBVIOUS
  <1>2. PICK T : T = At(w)
    OBVIOUS
  <1>3. PICK R : R = S \ T
    OBVIOUS
  <1>4. T \in SUBSET DOMAIN moves /\ R \in SUBSET DOMAIN moves /\ T \cap R = {} /\ T \cup R = S
    BY <1>1, <1>2, <1>3 DEF At
  <1>5. PICK b : b = [k \in DOMAIN moves |-> Booked(D, d, k)]
    OBVIOUS
  <1>6. PICK f : f = [k \in DOMAIN moves |-> RowGain(D, d, k)]
    OBVIOUS
  <1>7. PICK E \in Int : /\ Apart(Cent, SumFunctionOnSet(b, T), SumFunctionOnSet(f, T), E) /\ E <= CostDust
    BY <1>4, <1>5, <1>6, SetApart
  <1>8. PICK F \in Int : /\ Apart(Cent, SumFunctionOnSet(b, R), SumFunctionOnSet(f, R), F)
                         /\ F + Cent * Cardinality(Warehouse) <= CostDust /\ Cent * Cardinality(Warehouse) \in Int
                         /\ CostDust \in Int
    BY <1>4, <1>5, <1>6, SetApart
  <1>9. /\ IsFiniteSet(T) /\ IntOn(b, T) /\ IntOn(f, T)
        /\ SumFunctionOnSet(b, T) \in Int /\ SumFunctionOnSet(f, T) \in Int
    BY <1>4, <1>5, <1>6, SetApart
  <1>10. /\ IsFiniteSet(R) /\ IntOn(b, R) /\ IntOn(f, R)
         /\ SumFunctionOnSet(b, R) \in Int /\ SumFunctionOnSet(f, R) \in Int
    BY <1>4, <1>5, <1>6, SetApart
  <1>11. SumFunctionOnSet(f, T) = BasisGain(D, d, w)
    <2>1. \A k \in T : f[k] = RowGain(D, d, k)
      BY <1>4, <1>6
    <2> QED
      BY <1>2, <2>1, GainSum DEF At
  <1>12. /\ SumFunctionOnSet(b, S) = SumFunctionOnSet(b, T) + SumFunctionOnSet(b, R)
         /\ SumFunctionOnSet(f, S) = SumFunctionOnSet(f, T) + SumFunctionOnSet(f, R)
    BY <1>4, <1>9, <1>10, SumUnion
  <1>13. PICK g : g = [u \in Warehouse |-> BasisGain(D, d, u)]
    OBVIOUS
  <1>14. PICK h : h = [u \in Warehouse |-> HalfUp(BasisGain(D, d, u), Cent)]
    OBVIOUS
  <1>15. PICK H \in Int : H = SumFunctionOnSet(h, Warehouse)
    BY <1>13, <1>14, StockApart
  <1>16. PICK G \in Int : G = SumFunctionOnSet(g, Warehouse)
    BY <1>13, <1>14, StockApart
  <1>17. PICK W \in Int : W = Cent * Cardinality(Warehouse)
    BY <1>8
  <1>18. Apart(Cent, H, G, W)
    BY <1>13, <1>14, <1>15, <1>16, <1>17, StockApart
  <1>19. SumFunctionOnSet(f, S) = G
    BY <1>1, <1>6, <1>13, <1>16, GainSumAll
  <1>20. r = SumFunctionOnSet(b, S) - H
    BY <1>1, <1>5, <1>14, <1>15, ResidualIsBooked
  <1>21. PICK bt \in Int : bt = SumFunctionOnSet(b, T)
    BY <1>9
  <1>22. PICK br \in Int : br = SumFunctionOnSet(b, R)
    BY <1>10
  <1>23. PICK ft \in Int : ft = SumFunctionOnSet(f, T)
    BY <1>9
  <1>24. PICK fr \in Int : fr = SumFunctionOnSet(f, R)
    BY <1>10
  <1>25. r \in Int /\ r = bt + br - H /\ G = ft + fr
    BY <1>12, <1>19, <1>20, <1>21, <1>22, <1>23, <1>24
  <1>26. v = bt - (IF moves[Min(Receipts(d))].warehouse = w THEN r ELSE 0)
    <2>1. PICK e : e = [k \in At(w) |-> Booked(D, d, k)]
      OBVIOUS
    <2>2. \A k \in T : e[k] = b[k]
      BY <1>2, <1>4, <1>5, <2>1
    <2>3. SumFunctionOnSet(e, T) = SumFunctionOnSet(b, T)
      BY <1>9, <2>2, SumAgree
    <2> QED
      BY <1>2, <1>21, <1>25, <2>1, <2>3, GainIsBooked
  <1>27. CASE moves[Min(Receipts(d))].warehouse # w
    <2>1. v = bt
      BY <1>26, <1>27
    <2>2. PICK x \in Int : x = Cent * bt
      BY StockAssumption
    <2>3. 2 * (x - ft) <= E /\ -(2 * (x - ft)) <= E
      BY <1>7, <1>21, <1>23, <2>2 DEF Apart
    <2> QED
      BY <1>7, <1>8, <1>11, <1>23, <2>1, <2>2, <2>3 DEF Apart
  <1>28. CASE moves[Min(Receipts(d))].warehouse = w
    <2>1. v = H - br
      BY <1>25, <1>26, <1>28
    <2>2. PICK x \in Int : x = Cent * br
      BY StockAssumption
    <2>3. PICK y \in Int : y = Cent * H
      BY StockAssumption
    <2>4. Cent * (H - br) = y - x
      BY <2>2, <2>3, StockAssumption
    <2>5. 2 * (x - fr) <= F /\ -(2 * (x - fr)) <= F
      BY <1>8, <1>22, <1>24, <2>2 DEF Apart
    <2>6. 2 * (y - G) <= W /\ -(2 * (y - G)) <= W
      BY <1>18, <2>3 DEF Apart
    <2>7. F + W <= CostDust
      BY <1>8, <1>17
    <2>8. 2 * ((y - x) - ft) <= CostDust /\ -(2 * ((y - x) - ft)) <= CostDust
      BY <1>8, <1>25, <2>5, <2>6, <2>7
    <2> QED
      BY <1>11, <1>23, <2>1, <2>4, <2>8 DEF Apart
  <1> QED
    BY <1>27, <1>28

-----------------------------------------------------------------------------
(* Layers of a list.  Its goods come in at the units U, with X of late costs *)
(* on each row; U and the basis of a warehouse follow from the rows, and one *)
(* more row is one more step.                                                *)
Following == {"TRANSFER_IN", "SALES_RETURN"}

Brings(M, U, k) == IF M[k].type \in Following THEN U[M[k].src] ELSE M[k].cost

RowAt(M, X, U, k, x, y, z) ==
  /\ x <= 0 => y = 0
  /\ M[k].quantity > 0 =>
       z = BasisIn(x, y, Absolute(M[k].quantity), U[k]) /\ U[k] = Brings(M, U, k) + X[k]
  /\ M[k].quantity < 0 =>
       z = BasisOut(x, y, Absolute(M[k].quantity), M[k].cost) /\ U[k] = AverageOf(x, y, M[k].cost)

LaidIn(M, X, U, w, u, b) ==
  /\ UnitsTape(M, w, u)
  /\ b \in [0 .. Len(M) -> Nat] /\ b[0] = 0
  /\ \A k \in 1 .. Len(M) :
       /\ M[k].warehouse # w => b[k] = b[k - 1]
       /\ M[k].warehouse = w => RowAt(M, X, U, k, u[k - 1], b[k - 1], b[k])

\* Goods that follow others come at the cost of an issue before them.
FollowsIn(M) ==
  \A k \in DOMAIN M :
    M[k].type \in Following =>
      /\ M[k].src \in 1 .. (k - 1)
      /\ M[M[k].src].quantity < 0 /\ M[M[k].src].cost = M[k].cost

Homed(M) == IsList(M) /\ RowsFit(M) /\ \A k \in DOMAIN M : M[k].warehouse \in Warehouse

LayersOf(M, X, U) == \A w \in Warehouse : \E u, b : LaidIn(M, X, U, w, u, b)

\* The rows leave one choice of units and bases.
LEMMA LayersAgree ==
  ASSUME NEW M, Homed(M), FollowsIn(M), NEW X, NEW U, LayersOf(M, X, U), NEW V, LayersOf(M, X, V)
  PROVE  /\ \A k \in DOMAIN M : U[k] = V[k]
         /\ \A w, u, b, v, c :
              LaidIn(M, X, U, w, u, b) /\ LaidIn(M, X, V, w, v, c) =>
                u[Len(M)] = v[Len(M)] /\ b[Len(M)] = c[Len(M)]
  <1>1. PICK n \in Nat : n = Len(M) /\ DOMAIN M = 1 .. n
    BY DEF Homed, IsList
  <1> DEFINE Same(k) == \A w, u, b, v, c :
                          LaidIn(M, X, U, w, u, b) /\ LaidIn(M, X, V, w, v, c) => b[k] = c[k]
  <1>2. PICK G : G = {k \in 0 .. n : Same(k) /\ \A j \in 1 .. k : U[j] = V[j]}
    OBVIOUS
  <1>3. 0 \in G
    <2>1. Same(0)
      BY DEF LaidIn
    <2> QED
      BY <1>1, <1>2, <2>1
  <1>4. \A w, u, b, v, c : LaidIn(M, X, U, w, u, b) /\ LaidIn(M, X, V, w, v, c) => \A k \in 0 .. n : u[k] = v[k]
    BY <1>1, UnitsAgree DEF LaidIn
  <1>5. ASSUME NEW k \in 1 .. n, k - 1 \in G PROVE k \in G
    <2>1. k - 1 \in 0 .. n /\ k \in 0 .. n /\ Same(k - 1) /\ \A j \in 1 .. (k - 1) : U[j] = V[j]
      BY <1>2, <1>5
    <2>2. M[k].quantity \in Int /\ M[k].quantity # 0 /\ M[k].warehouse \in Warehouse
      BY <1>1 DEF Homed, RowsFit, RowFits
    <2>3. Brings(M, U, k) = Brings(M, V, k)
      BY <1>1, <2>1 DEF Brings, FollowsIn
    <2>4. ASSUME NEW w, NEW u, NEW b, NEW v, NEW c, w = M[k].warehouse,
                 LaidIn(M, X, U, w, u, b), LaidIn(M, X, V, w, v, c)
          PROVE  U[k] = V[k] /\ b[k] = c[k]
      <3>1. u[k - 1] = v[k - 1] /\ b[k - 1] = c[k - 1]
        BY <1>4, <2>1, <2>4
      <3>2. RowAt(M, X, U, k, u[k - 1], b[k - 1], b[k]) /\ RowAt(M, X, V, k, u[k - 1], b[k - 1], c[k])
        BY <1>1, <2>4, <3>1 DEF LaidIn
      <3>3. CASE M[k].quantity > 0
        BY <2>3, <3>2, <3>3 DEF RowAt
      <3>4. CASE M[k].quantity < 0
        BY <3>2, <3>4 DEF RowAt
      <3> QED
        BY <2>2, <3>3, <3>4
    <2>5. U[k] = V[k]
      BY <2>2, <2>4 DEF LayersOf
    <2>6. Same(k)
      <3> SUFFICES ASSUME NEW w, NEW u, NEW b, NEW v, NEW c,
                          LaidIn(M, X, U, w, u, b), LaidIn(M, X, V, w, v, c)
                   PROVE  b[k] = c[k]
        OBVIOUS
      <3>1. CASE w = M[k].warehouse
        BY <2>4, <3>1
      <3>2. CASE w # M[k].warehouse
        <4>1. b[k] = b[k - 1] /\ c[k] = c[k - 1]
          BY <1>1, <3>2 DEF LaidIn
        <4>2. b[k - 1] = c[k - 1]
          BY <2>1
        <4> QED
          BY <4>1, <4>2
      <3> QED
        BY <3>1, <3>2
    <2>7. \A j \in 1 .. k : U[j] = V[j]
      BY <2>1, <2>5
    <2> QED
      BY <1>2, <2>1, <2>6, <2>7
  <1>6. \A k \in 0 .. n : k \in G
    BY <1>3, <1>5, StepByStep
  <1>7. n \in 0 .. n /\ n \in G
    BY <1>6
  <1>8. Same(n) /\ \A j \in 1 .. n : U[j] = V[j]
    BY <1>2, <1>7
  <1> QED
    BY <1>1, <1>4, <1>7, <1>8

\* One row more: goods that come at their own cost, or that leave.
Onward(M, N, row, X, Y, U, V, w, u, b, n, x, y) ==
  /\ Longer(M, N, row) /\ RowFits(row) /\ FollowsIn(M)
  /\ \A k \in DOMAIN M : Y[k] = X[k] /\ V[k] = U[k]
  /\ LaidIn(M, X, U, w, u, b)
  /\ n = Len(M) + 1 /\ x = u[Len(M)] /\ y = b[Len(M)]
  /\ x <= 0 => y = 0
  /\ row.warehouse = w =>
       /\ row.quantity > 0 => V[n] = row.cost /\ V[n] = Brings(N, V, n) + Y[n]
       /\ row.quantity < 0 => V[n] = AverageOf(x, y, row.cost)

LEMMA LaidNext ==
  ASSUME NEW M, NEW N, NEW row, NEW X, NEW Y, NEW U, NEW V, NEW w, NEW u, NEW b, NEW n, NEW x, NEW y,
         Onward(M, N, row, X, Y, U, V, w, u, b, n, x, y)
  PROVE  \E v, c : /\ LaidIn(N, Y, V, w, v, c)
                   /\ v[n] = UnitsNext(x, row, w) /\ c[n] = BasisNext(x, y, row, w)
  <1> USE DEF Onward
  <1>1. PICK m \in Nat : m = Len(M) /\ n = m + 1 /\ DOMAIN M = 1 .. m
    BY DEF Longer, IsList
  <1>2. PICK v : /\ UnitsTape(N, w, v) /\ \A k \in 0 .. m : v[k] = u[k]
                 /\ v[Len(N)] = UnitsNext(u[m], row, w)
    BY <1>1, UnitsGrow DEF LaidIn
  <1>3. b \in [0 .. m -> Nat] /\ x \in Int /\ y \in Nat
    BY <1>1 DEF LaidIn, UnitsTape
  <1>4. PICK z \in Nat : z = BasisNext(x, y, row, w)
    <2>1. CASE row.warehouse # w
      BY <1>3, <2>1 DEF BasisNext
    <2>2. CASE row.warehouse = w /\ row.quantity > 0
      <3>1. row.quantity \in Nat /\ row.cost \in Nat
        BY <2>2 DEF RowFits
      <3>2. BasisIn(x, y, row.quantity, row.cost) \in Nat
        BY <1>3, <3>1, BasisNat
      <3> QED
        BY <2>2, <3>2 DEF BasisNext
    <2>3. CASE row.warehouse = w /\ row.quantity < 0
      <3>1. -row.quantity \in Nat /\ ~(row.quantity > 0) /\ row.cost \in Nat
        BY <2>3 DEF RowFits
      <3>2. BasisOut(x, y, -row.quantity, row.cost) \in Nat
        BY <1>3, <3>1, BasisNat
      <3> QED
        BY <2>3, <3>1, <3>2 DEF BasisNext
    <2> QED
      BY <2>1, <2>2, <2>3 DEF RowFits
  <1>5. PICK c : c = [k \in 0 .. n |-> IF k = n THEN z ELSE b[k]]
    OBVIOUS
  <1>6. c \in [0 .. n -> Nat] /\ c[n] = z /\ c[0] = 0 /\ \A k \in 0 .. m : c[k] = b[k]
    BY <1>1, <1>3, <1>4, <1>5 DEF LaidIn
  <1>7. Len(N) = n /\ N[n] = row /\ \A k \in 1 .. m : N[k] = M[k]
    BY <1>1 DEF Longer
  <1>8. ASSUME NEW k \in 1 .. n
        PROVE  /\ N[k].warehouse # w => c[k] = c[k - 1]
               /\ N[k].warehouse = w => RowAt(N, Y, V, k, v[k - 1], c[k - 1], c[k])
    <2>1. CASE k = n
      <3>1. k - 1 = m /\ v[k - 1] = x /\ c[k - 1] = y /\ c[k] = z /\ N[k] = row
        BY <1>1, <1>2, <1>6, <1>7, <2>1
      <3>2. row.warehouse # w => z = y
        BY <1>4 DEF BasisNext
      <3>3. ASSUME row.warehouse = w PROVE RowAt(N, Y, V, n, x, y, z)
        <4>1. CASE row.quantity > 0
          <5>1. z = BasisIn(x, y, row.quantity, row.cost) /\ Absolute(row.quantity) = row.quantity
                /\ ~(row.quantity < 0)
            BY <1>4, <3>3, <4>1 DEF BasisNext, Absolute, RowFits
          <5> QED
            BY <1>7, <3>3, <4>1, <5>1 DEF RowAt
        <4>2. CASE row.quantity < 0
          <5>1. z = BasisOut(x, y, -row.quantity, row.cost) /\ Absolute(row.quantity) = -row.quantity
                /\ ~(row.quantity > 0)
            BY <1>4, <3>3, <4>2 DEF BasisNext, Absolute, RowFits
          <5> QED
            BY <1>7, <3>3, <4>2, <5>1 DEF RowAt
        <4> QED
          BY <4>1, <4>2 DEF RowFits
      <3> QED
        BY <2>1, <3>1, <3>2, <3>3
    <2>2. CASE k # n
      <3>1. k \in 1 .. m /\ k - 1 \in 0 .. m /\ k \in 0 .. m /\ k \in DOMAIN M
        BY <1>1, <2>2
      <3>2. v[k - 1] = u[k - 1] /\ c[k - 1] = b[k - 1] /\ c[k] = b[k] /\ N[k] = M[k] /\ V[k] = U[k] /\ Y[k] = X[k]
        BY <1>2, <1>6, <1>7, <3>1
      <3>3. Brings(N, V, k) = Brings(M, U, k)
        <4>1. M[k].type \in Following => M[k].src \in DOMAIN M
          BY <1>1, <3>1 DEF FollowsIn
        <4> QED
          BY <3>2, <4>1 DEF Brings
      <3>4. /\ M[k].warehouse # w => b[k] = b[k - 1]
            /\ M[k].warehouse = w => RowAt(M, X, U, k, u[k - 1], b[k - 1], b[k])
        BY <1>1, <3>1 DEF LaidIn
      <3> QED
        BY <3>2, <3>3, <3>4 DEF RowAt
    <2> QED
      BY <2>1, <2>2
  <1>9. LaidIn(N, Y, V, w, v, c)
    BY <1>2, <1>6, <1>7, <1>8 DEF LaidIn
  <1> QED
    BY <1>1, <1>2, <1>4, <1>6, <1>7, <1>9

\* Goods that all come at their own cost make a plain replay.
LEMMA LaidIsWorth ==
  ASSUME NEW M, Homed(M), FollowsIn(M), NEW X, NEW U, \A k \in DOMAIN M : X[k] = 0,
         \A k \in DOMAIN M : M[k].quantity < 0 => U[k] = M[k].cost,
         LayersOf(M, X, U), NEW w \in Warehouse, NEW u, NEW b, LaidIn(M, X, U, w, u, b)
  PROVE  Worth(M, w, u[Len(M)], b[Len(M)])
  <1>1. PICK n \in Nat : n = Len(M) /\ DOMAIN M = 1 .. n
    BY DEF Homed, IsList
  <1>2. \A k \in 1 .. n : M[k].quantity \in Int /\ M[k].quantity # 0 /\ M[k].cost \in Nat /\ M[k].warehouse \in Warehouse
    BY <1>1 DEF Homed, RowsFit, RowFits
  <1>3. ASSUME NEW k \in 1 .. n, M[k].quantity > 0 PROVE U[k] = M[k].cost
    <2>1. Brings(M, U, k) = M[k].cost
      <3>1. M[k].type \in Following => M[k].src \in 1 .. n /\ M[M[k].src].quantity < 0 /\ M[M[k].src].cost = M[k].cost
        BY <1>1 DEF FollowsIn
      <3> QED
        BY <1>1, <3>1 DEF Brings
    <2>2. U[k] = Brings(M, U, k) + X[k]
      BY <1>1, <1>2, <1>3 DEF LayersOf, LaidIn, RowAt
    <2> QED
      BY <1>1, <1>2, <2>1, <2>2
  <1>4. ASSUME NEW k \in 1 .. n PROVE b[k] = BasisNext(u[k - 1], b[k - 1], M[k], w)
    <2>1. CASE M[k].warehouse # w
      BY <1>1, <2>1 DEF LaidIn, BasisNext
    <2>2. CASE M[k].warehouse = w /\ M[k].quantity > 0
      <3>1. Absolute(M[k].quantity) = M[k].quantity
        BY <1>2, <2>2 DEF Absolute
      <3> QED
        BY <1>1, <1>3, <2>2, <3>1 DEF LaidIn, RowAt, BasisNext
    <2>3. CASE M[k].warehouse = w /\ M[k].quantity < 0
      <3>1. Absolute(M[k].quantity) = -M[k].quantity /\ ~(M[k].quantity > 0)
        BY <1>2, <2>3 DEF Absolute
      <3> QED
        BY <1>1, <2>3, <3>1 DEF LaidIn, RowAt, BasisNext
    <2> QED
      BY <1>2, <2>1, <2>2, <2>3
  <1>5. \A k \in 1 .. n : Ident(n)[k] = k
    BY DEF Ident
  <1>6. Tape(M, Ident(n), n, w, u, b)
    BY <1>1, <1>4, <1>5 DEF Tape, LaidIn, UnitsTape
  <1> QED
    BY <1>1, <1>6 DEF Worth

-----------------------------------------------------------------------------
(* The late costs of documents C on the rows of M.                          *)
XOn(M, C, D) ==
  [k \in DOMAIN M |->
     HalfUp(Steps(SumFunctionOnSet([d \in {e \in D : k \in DOMAIN C[e].share} |-> C[d].share[k]],
                                   {e \in D : k \in DOMAIN C[e].share})),
            Absolute(M[k].quantity))]

LEMMA ExtraIsX ==
  ASSUME NEW D, NEW k \in DOMAIN moves
  PROVE  XOn(moves, costs, D)[k] = Extra(D, k)
  <1>1. Extra(D, k) = HalfUp(Steps(ShareOn(D, k)), Units(k))
    BY ExtraOn
  <1> QED
    BY <1>1 DEF XOn, ShareOn, Units

LEMMA HomedNow ==
  ASSUME HistoryInv
  PROVE  Homed(moves)
  <1>1. ListInv(moves) /\ CostsOK(moves)
    BY CostInvIs DEF HistoryInv
  <1>2. \A k \in DOMAIN moves : RowFits(moves[k]) /\ moves[k].warehouse \in Warehouse
    BY <1>1, RowsTyped DEF RowFits, RowOK, CostsOK
  <1> QED
    BY <1>1, <1>2 DEF Homed, RowsFit, ListInv

\* The replay lays out the movements.
LEMMA ReplayLaid ==
  ASSUME HistoryInv, RegularIn(moves), NEW D \in SUBSET DOMAIN costs, NEW w \in Warehouse
  PROVE  \E u, b : /\ LaidIn(moves, XOn(moves, costs, D), LayeredReplay(D).unit, w, u, b)
                   /\ u[Len(moves)] = OnHand(w) /\ b[Len(moves)] = LayeredReplay(D).basis[w]
  <1>1. CostInv /\ ListInv(moves) /\ CostsOK(moves) /\ InOrder(moves) /\ AllTold(moves, links)
    BY CostInvIs DEF HistoryInv, History, RegularIn
  <1>2. Extras(D)
    BY <1>1, ReplaysAre
  <1>3. PICK u : UnitsTape(moves, w, u)
    BY <1>1 DEF AllTold, Told
  <1>4. u[Len(moves)] = OnHand(w)
    BY <1>1, <1>3, UnitsOnHand
  <1>5. PICK b : Layer(D, w, u, b)
    BY <1>1, <1>2, <1>3, Layers
  <1>6. DOMAIN moves = 1 .. Len(moves)
    BY <1>1, LengthIs
  <1>7. PICK U : U = LayeredReplay(D).unit
    OBVIOUS
  <1>8. PICK X : X = XOn(moves, costs, D)
    OBVIOUS
  <1>9. ASSUME NEW k \in 1 .. Len(moves), NEW x, NEW y, NEW z, LaidRow(D, k, x, y, z)
        PROVE  RowAt(moves, X, U, k, x, y, z)
    <2>1. X[k] = Extra(D, k)
      BY <1>6, <1>8, ExtraIsX
    <2>2. SourceUnit(D, k) = Brings(moves, U, k)
      BY <1>7 DEF SourceUnit, Brings, Following
    <2>3. Units(k) = Absolute(moves[k].quantity)
      BY DEF Units
    <2> QED
      BY <1>7, <1>9, <2>1, <2>2, <2>3 DEF LaidRow, RowAt
  <1>10. LaidIn(moves, X, U, w, u, b)
    BY <1>3, <1>5, <1>9 DEF Layer, LaidIn
  <1> QED
    BY <1>4, <1>5, <1>7, <1>8, <1>10 DEF Layer

-----------------------------------------------------------------------------
(* The accounts against the layers, row by row.                             *)
\* An issue after every posting of S took its goods at the layers' average.
AtOwn(M, U, S) == \A k \in DOMAIN M : M[k].quantity < 0 /\ (\A a \in S : a < k) => U[k] = M[k].cost

\* The layers leave x units of basis y in each warehouse.
Laid(M, X, U, x, y) ==
  \A w \in Warehouse : \E u, b : LaidIn(M, X, U, w, u, b) /\ u[Len(M)] = x[w] /\ b[Len(M)] = y[w]

\* The accounts J are their value, to the dust and h.
Backed(M, L, J, h, x, y) == \A w \in Warehouse : Stocked(M, L, w, x[w], y[w], J[w], h)

Ends(M, L, X, J, S, h, x, y) == Backed(M, L, J, h, x, y) /\ \E U : AtOwn(M, U, S) /\ Laid(M, X, U, x, y)

\* A row that follows an issue comes at its cost.
Follows(M, row) ==
  row.type \in Following => row.src \in DOMAIN M /\ M[row.src].quantity < 0 /\ M[row.src].cost = row.cost

LEMMA FollowsNext ==
  ASSUME NEW M, NEW N, NEW row, Longer(M, N, row), FollowsIn(M), Follows(M, row)
  PROVE  FollowsIn(N)
  <1>1. PICK m \in Nat : m = Len(M)
    BY DEF Longer, IsList
  <1>2. DOMAIN M = 1 .. m /\ DOMAIN N = 1 .. (m + 1) /\ N[m + 1] = row /\ \A k \in 1 .. m : N[k] = M[k]
    BY <1>1 DEF Longer, IsList
  <1> SUFFICES ASSUME NEW k \in 1 .. (m + 1), N[k].type \in Following
               PROVE  /\ N[k].src \in 1 .. (k - 1)
                      /\ N[N[k].src].quantity < 0 /\ N[N[k].src].cost = N[k].cost
    BY <1>2 DEF FollowsIn
  <1>3. CASE k = m + 1
    BY <1>2, <1>3 DEF Follows
  <1>4. CASE k # m + 1
    <2>1. k \in 1 .. m
      BY <1>4
    <2>2. M[k].src \in 1 .. (k - 1) /\ M[M[k].src].quantity < 0 /\ M[M[k].src].cost = M[k].cost
      BY <1>2, <2>1 DEF FollowsIn
    <2> QED
      BY <1>2, <2>1, <2>2
  <1> QED
    BY <1>3, <1>4

\* One row more: an issue at the average, or goods at their own cost.
Settled(M, S, row, x, y) ==
  /\ row.quantity < 0 => AverageOf(x, y, row.cost) = row.cost
  /\ Follows(M, row)
  /\ row.type \in Following => \A a \in S : a < row.src

UnitsAfter(x, row) == [w \in Warehouse |-> UnitsNext(x[w], row, w)]
BasisAfter(x, y, row) == [w \in Warehouse |-> BasisNext(x[w], y[w], row, w)]

LEMMA LaidAllNext ==
  ASSUME NEW M, NEW N, NEW row, Longer(M, N, row), RowFits(row), FollowsIn(M),
         NEW X, NEW Y, \A k \in DOMAIN M : Y[k] = X[k], Y[Len(M) + 1] = 0,
         NEW U, NEW S, AtOwn(M, U, S), NEW x, NEW y, Laid(M, X, U, x, y),
         \A w \in Warehouse : x[w] <= 0 => y[w] = 0,
         Settled(M, S, row, x[row.warehouse], y[row.warehouse])
  PROVE  \E V : AtOwn(N, V, S) /\ Laid(N, Y, V, UnitsAfter(x, row), BasisAfter(x, y, row))
  <1>1. PICK m \in Nat : m = Len(M)
    BY DEF Longer, IsList
  <1>2. PICK n \in Nat : n = m + 1
    OBVIOUS
  <1>3. /\ DOMAIN M = 1 .. m /\ DOMAIN N = 1 .. n /\ Len(N) = n /\ N[n] = row
        /\ \A k \in 1 .. m : N[k] = M[k] /\ k \in 1 .. n /\ k # n
    BY <1>1, <1>2 DEF Longer, IsList
  <1>4. PICK V : V = [k \in 1 .. n |-> IF k = n THEN row.cost ELSE U[k]]
    OBVIOUS
  <1>5. V[n] = row.cost /\ \A k \in 1 .. m : V[k] = U[k]
    BY <1>2, <1>3, <1>4
  <1>6. AtOwn(N, V, S)
    <2> SUFFICES ASSUME NEW k \in 1 .. n, N[k].quantity < 0, \A a \in S : a < k PROVE V[k] = N[k].cost
      BY <1>3 DEF AtOwn
    <2>1. CASE k = n
      BY <1>3, <1>5, <2>1
    <2>2. CASE k # n
      <3>1. k \in 1 .. m
        BY <1>2, <2>2
      <3> QED
        BY <1>3, <1>5, <3>1 DEF AtOwn
    <2> QED
      BY <2>1, <2>2
  <1>7. Brings(N, V, n) = row.cost
    <2>1. CASE row.type \in Following
      <3>1. row.src \in 1 .. m /\ M[row.src].quantity < 0 /\ M[row.src].cost = row.cost /\ \A a \in S : a < row.src
        BY <1>3, <2>1 DEF Settled, Follows
      <3>2. U[row.src] = row.cost
        BY <1>3, <3>1 DEF AtOwn
      <3> QED
        BY <1>3, <1>5, <2>1, <3>1, <3>2 DEF Brings
    <2>2. CASE row.type \notin Following
      BY <1>3, <2>2 DEF Brings
    <2> QED
      BY <2>1, <2>2
  <1>8. V[n] = Brings(N, V, n) + Y[n]
    BY <1>1, <1>2, <1>5, <1>7 DEF RowFits
  <1>9. ASSUME NEW w \in Warehouse
        PROVE  \E v, c : /\ LaidIn(N, Y, V, w, v, c)
                         /\ v[n] = UnitsNext(x[w], row, w) /\ c[n] = BasisNext(x[w], y[w], row, w)
    <2>1. PICK u, b : LaidIn(M, X, U, w, u, b) /\ u[m] = x[w] /\ b[m] = y[w]
      BY <1>1 DEF Laid
    <2>2. PICK p : p = x[w]
      OBVIOUS
    <2>3. PICK q : q = y[w]
      OBVIOUS
    <2>4. p <= 0 => q = 0
      BY <2>2, <2>3
    <2>5. row.warehouse = w =>
            /\ row.quantity > 0 => V[n] = row.cost /\ V[n] = Brings(N, V, n) + Y[n]
            /\ row.quantity < 0 => V[n] = AverageOf(p, q, row.cost)
      BY <1>5, <1>8, <2>2, <2>3 DEF Settled
    <2>6. n = Len(M) + 1 /\ p = u[Len(M)] /\ q = b[Len(M)]
      BY <1>1, <1>2, <2>1, <2>2, <2>3
    <2>7. \A k \in DOMAIN M : V[k] = U[k]
      BY <1>3, <1>5
    <2>8. \E v, c : /\ LaidIn(N, Y, V, w, v, c)
                    /\ v[n] = UnitsNext(p, row, w) /\ c[n] = BasisNext(p, q, row, w)
      <3>1. \A k \in DOMAIN M : Y[k] = X[k] /\ V[k] = U[k]
        BY <2>7
      <3>2. Onward(M, N, row, X, Y, U, V, w, u, b, n, p, q)
        BY <2>1, <2>4, <2>5, <2>6, <3>1 DEF Onward
      <3> QED
        BY <3>2, LaidNext
    <2> QED
      BY <2>2, <2>3, <2>8
  <1>10. Laid(N, Y, V, UnitsAfter(x, row), BasisAfter(x, y, row))
    BY <1>3, <1>9 DEF Laid, UnitsAfter, BasisAfter
  <1> QED
    BY <1>6, <1>10

\* A row that is fair to its warehouse leaves the accounts backed.
Upon(M, N, L, row, X, Y, J, K, S, h, x, y) ==
  /\ OneRow(M, N, L, row) /\ FollowsIn(M) /\ row.warehouse \in Warehouse /\ h \in Nat
  /\ (\A k \in DOMAIN M : Y[k] = X[k]) /\ Y[Len(M) + 1] = 0
  /\ Ends(M, L, X, J, S, h, x, y) /\ Settled(M, S, row, x[row.warehouse], y[row.warehouse])
  /\ \A w \in Warehouse : w # row.warehouse => K[w] = J[w]
  /\ \E xx, yy : Fair(row, row.warehouse, x[row.warehouse], y[row.warehouse], J[row.warehouse],
                      xx, yy, K[row.warehouse])

LEMMA EndsNext ==
  ASSUME NEW M, NEW N, NEW L, NEW row, NEW X, NEW Y, NEW J, NEW K, NEW S, NEW h, NEW x, NEW y,
         Upon(M, N, L, row, X, Y, J, K, S, h, x, y)
  PROVE  Ends(N, L, Y, K, S, h, UnitsAfter(x, row), BasisAfter(x, y, row))
  <1> SUFFICES ASSUME OneRow(M, N, L, row), FollowsIn(M), row.warehouse \in Warehouse, h \in Nat,
                      \A k \in DOMAIN M : Y[k] = X[k], Y[Len(M) + 1] = 0, Ends(M, L, X, J, S, h, x, y),
                      Settled(M, S, row, x[row.warehouse], y[row.warehouse]),
                      \A w \in Warehouse : w # row.warehouse => K[w] = J[w],
                      \E xx, yy : Fair(row, row.warehouse, x[row.warehouse], y[row.warehouse], J[row.warehouse],
                                       xx, yy, K[row.warehouse])
               PROVE  Ends(N, L, Y, K, S, h, UnitsAfter(x, row), BasisAfter(x, y, row))
    BY DEF Upon
  <1>1. PICK U : AtOwn(M, U, S) /\ Laid(M, X, U, x, y)
    BY DEF Ends
  <1>2. \A w \in Warehouse : Stocked(M, L, w, x[w], y[w], J[w], h)
    BY DEF Ends, Backed
  <1>3. Longer(M, N, row) /\ RowFits(row)
    BY DEF OneRow
  <1>4. \A w \in Warehouse : x[w] <= 0 => y[w] = 0
    BY <1>2 DEF Stocked
  <1>5. \E V : AtOwn(N, V, S) /\ Laid(N, Y, V, UnitsAfter(x, row), BasisAfter(x, y, row))
    BY <1>1, <1>3, <1>4, LaidAllNext
  <1>6. ASSUME NEW w \in Warehouse
        PROVE  Stocked(N, L, w, UnitsNext(x[w], row, w), BasisNext(x[w], y[w], row, w), K[w], h)
    <2>1. PICK p : p = x[w]
      OBVIOUS
    <2>2. PICK q : q = y[w]
      OBVIOUS
    <2>3. PICK z : z = J[w]
      OBVIOUS
    <2>4. PICK zz : zz = K[w]
      OBVIOUS
    <2>5. Stocked(M, L, w, p, q, z, h)
      BY <1>2, <2>1, <2>2, <2>3
    <2>6. PICK pp, qq : Fair(row, w, p, q, z, pp, qq, zz)
      <3>1. CASE w = row.warehouse
        BY <2>1, <2>2, <2>3, <2>4, <3>1
      <3>2. CASE w # row.warehouse
        <4>1. zz = z
          BY <2>3, <2>4, <3>2
        <4>2. p \in Int /\ q \in Nat /\ z \in Int /\ (p <= 0 => q = 0)
          BY <2>5 DEF Stocked
        <4>3. Fair(row, w, p, q, z, p, q, z)
          BY <1>3, <3>2, <4>2, FairElsewhere
        <4> QED
          BY <4>1, <4>3
      <3> QED
        BY <3>1, <3>2
    <2>7. Stocked(N, L, w, pp, qq, zz, h)
      BY <2>5, <2>6, StockedNext
    <2>8. pp = UnitsNext(p, row, w) /\ qq = BasisNext(p, q, row, w)
      BY <2>6 DEF Fair
    <2> QED
      BY <2>1, <2>2, <2>4, <2>7, <2>8
  <1>7. Backed(N, L, K, h, UnitsAfter(x, row), BasisAfter(x, y, row))
    BY <1>6 DEF Backed, UnitsAfter, BasisAfter
  <1> QED
    BY <1>5, <1>7 DEF Ends

\* A purchase serves what its warehouse owes.
LEMMA EndsServed ==
  ASSUME NEW M, NEW N, NEW L, NEW K, NEW w \in Warehouse, NEW q \in Nat, q # 0, NEW cost \in Nat, NEW row, NEW C,
         NEW s, NEW r, NEW v, Serving(M, N, L, K, w, q, cost, row, C, s, r, v), LinksFit(N, K),
         NEW total \in Nat, cost = HalfUp(Steps(total), q), FollowsIn(M),
         NEW X, NEW Y, \A k \in DOMAIN M : Y[k] = X[k], Y[Len(M) + 1] = 0,
         NEW I, NEW S, NEW h \in Nat, NEW x, NEW y, Ends(M, L, X, I, S, h, x, y),
         NEW J, J[w] = I[w] + total - v, \A u \in Warehouse : u # w => J[u] = I[u]
  PROVE  Ends(N, K, Y, J, S, h, UnitsAfter(x, row), BasisAfter(x, y, row))
  <1>1. PICK U : AtOwn(M, U, S) /\ Laid(M, X, U, x, y)
    BY DEF Ends
  <1>2. \A u \in Warehouse : Stocked(M, L, u, x[u], y[u], I[u], h)
    BY DEF Ends, Backed
  <1>3. Longer(M, N, row) /\ RowFits(row) /\ Made(row, "PURCHASE_RECEIPT", w, q, cost, FALSE, 0)
    BY DEF Serving, OneRow
  <1>4. row.warehouse = w /\ row.quantity = q /\ row.cost = cost /\ row.type = "PURCHASE_RECEIPT"
    BY <1>3 DEF Made, InTypes
  <1>5. \A u \in Warehouse : x[u] <= 0 => y[u] = 0
    BY <1>2 DEF Stocked
  <1>6. Settled(M, S, row, x[row.warehouse], y[row.warehouse])
    BY <1>4 DEF Settled, Follows, Following
  <1>7. \E V : AtOwn(N, V, S) /\ Laid(N, Y, V, UnitsAfter(x, row), BasisAfter(x, y, row))
    BY <1>1, <1>3, <1>5, <1>6, LaidAllNext
  <1>8. ASSUME NEW u \in Warehouse
        PROVE  Stocked(N, K, u, UnitsNext(x[u], row, u), BasisNext(x[u], y[u], row, u), J[u], h)
    <2>1. PICK a : a = x[u]
      OBVIOUS
    <2>2. PICK b : b = y[u]
      OBVIOUS
    <2>3. PICK z : z = I[u]
      OBVIOUS
    <2>4. Stocked(M, L, u, a, b, z, h)
      BY <1>2, <2>1, <2>2, <2>3
    <2>5. CASE u = w
      <3>1. PICK zz : zz = z + total - v
        OBVIOUS
      <3>2. Stocked(M, L, w, a, b, z, h)
        BY <2>4, <2>5
      <3>3. Stocked(N, K, w, a + q, BasisIn(a, b, q, cost), zz, h)
        BY <3>1, <3>2, ServedStocked
      <3>4. UnitsNext(a, row, u) = a + q /\ BasisNext(a, b, row, u) = BasisIn(a, b, q, cost)
        BY <1>4, <2>5 DEF UnitsNext, BasisNext
      <3>5. J[u] = zz
        BY <2>3, <2>5, <3>1
      <3> QED
        BY <2>1, <2>2, <2>5, <3>3, <3>4, <3>5
    <2>6. CASE u # w
      <3>1. Stocked(N, K, u, a, b, z, h)
        BY <2>4, <2>6, StockedElsewhere
      <3>2. UnitsNext(a, row, u) = a /\ BasisNext(a, b, row, u) = b
        BY <1>4, <2>6 DEF UnitsNext, BasisNext
      <3> QED
        BY <2>1, <2>2, <2>3, <2>6, <3>1, <3>2
    <2> QED
      BY <2>5, <2>6
  <1>9. Backed(N, K, J, h, UnitsAfter(x, row), BasisAfter(x, y, row))
    BY <1>8 DEF Backed, UnitsAfter, BasisAfter
  <1> QED
    BY <1>7, <1>9 DEF Ends

-----------------------------------------------------------------------------
(* The posted documents, in the order of their postings.                    *)
ActiveIn(C) == {d \in DOMAIN C : C[d].status = "POSTED"}

TurnsFit(C, n) ==
  /\ \A d \in DOMAIN C : C[d].turn \in Nat /\ C[d].at \in 0 .. n
  /\ \A d, e \in ActiveIn(C) : d # e => C[d].turn # C[e].turn

\* Those of D came before the others, and no movement came after the others.
Later(M, C, D) ==
  \A f \in ActiveIn(C) \ D : C[f].at = Len(M) /\ \A e \in D : C[e].turn < C[f].turn

\* RegularCosts, of the documents D.
RegularFor(M, L, C, D) ==
  /\ RegularIn(M)
  /\ \A d \in D : ~TwiceIn(M, L, C[d])
  /\ \A k \in DOMAIN M : M[k].type = "SALES_RETURN" => \A d \in D : ~(C[d].at \in M[k].src .. (k - 1))

\* The accounts I without what the posted documents outside D booked.
PostedOn(C, S, w) == SumFunctionOnSet([f \in S |-> C[f].posted.inventory[w]], S)
Net(C, I, D) == [w \in Warehouse |-> I[w] - PostedOn(C, ActiveIn(C) \ D, w)]

Slack(M, L, D) == DustOf(M, L) * Cardinality(D)
PostedAt(C, D) == {C[d].at : d \in D}

\* The accounts J against the layers with the late costs of D.
StageOf(M, L, C, J, D) ==
  \E x, y : Ends(M, L, XOn(M, C, D), J, PostedAt(C, D), Slack(M, L, D), x, y)

\* The accounts tie now, and they tied before each of the postings since the
\* last movement.
Stages(M, L, C, I) ==
  \A D \in SUBSET ActiveIn(C) :
    Later(M, C, D) /\ RegularFor(M, L, C, D) => StageOf(M, L, C, Net(C, I, D), D)

LEMMA DustNat ==
  ASSUME NEW M, NEW L, ListInv(M), IsFiniteSet(L)
  PROVE  DustOf(M, L) \in Nat
  <1>1. PICK n \in Nat : n = Len(M) /\ DOMAIN M = 1 .. n
    BY DEF ListInv, IsList
  <1>2. PICK f : f = [k \in DOMAIN M |-> Absolute(M[k].quantity)]
    OBVIOUS
  <1>3. \A k \in DOMAIN M : f[k] \in Nat
    <2>1. \A k \in DOMAIN M : M[k].quantity \in Int
      BY DEF ListInv, RowsStand, RowOK
    <2> QED
      BY <1>2, <2>1 DEF Absolute
  <1>4. PICK x \in Nat : x = SumFunctionOnSet(f, DOMAIN M)
    <2>1. IsFiniteSet(1 .. n)
      BY FS_Interval
    <2>2. PICK S : S = DOMAIN M /\ IsFiniteSet(S) /\ \A k \in S : f[k] \in Nat
      BY <1>1, <1>3, <2>1
    <2>3. SumFunctionOnSet(f, S) \in Nat
      BY <2>2, SumNat
    <2> QED
      BY <2>2, <2>3
  <1>5. PICK a \in Nat : a = Cardinality(L)
    BY FS_CardinalityType
  <1>6. PICK w \in Nat : w = Cardinality(Warehouse)
    BY LandedCostAssumption, FS_CardinalityType
  <1>7. PICK c \in Nat : c = n + a + w
    OBVIOUS
  <1>8. Cent * c \in Nat
    BY StockAssumption, ProductNat
  <1> QED
    BY <1>1, <1>2, <1>4, <1>5, <1>6, <1>7, <1>8 DEF DustOf

LEMMA SlackNat ==
  ASSUME NEW M, NEW L, NEW C, ListInv(M), IsFiniteSet(L), DocsFit(M, C), NEW D \in SUBSET DOMAIN C
  PROVE  /\ Slack(M, L, D) \in Nat /\ DustOf(M, L) \in Nat
         /\ IsFiniteSet(D) /\ Cardinality(D) \in Nat
  <1>1. IsFiniteSet(D)
    BY DocsShares, FS_Subset
  <1>2. PICK c \in Nat : c = Cardinality(D)
    BY <1>1, FS_CardinalityType
  <1>3. PICK e \in Nat : e = DustOf(M, L)
    BY DustNat
  <1>4. e * c \in Nat
    BY ProductNat
  <1> QED
    BY <1>1, <1>2, <1>3, <1>4 DEF Slack

LEMMA SlackGrows ==
  ASSUME NEW M, NEW N, NEW L, NEW K, Continues(M, N, L, K), ListInv(M), ListInv(N), IsFiniteSet(K),
         NEW C, DocsFit(M, C), NEW D \in SUBSET DOMAIN C
  PROVE  Slack(M, L, D) <= Slack(N, K, D)
  <1>1. L \subseteq K /\ DOMAIN M \subseteq DOMAIN N /\ \A i \in DOMAIN M : N[i] = M[i]
    BY DEF Continues
  <1>2. IsFiniteSet(L)
    BY <1>1, FS_Subset
  <1>3. DocsFit(N, C)
    BY <1>1, DocsKeep
  <1>4. PICK c \in Nat : c = Cardinality(D)
    BY <1>2, SlackNat
  <1>5. PICK e \in Nat : e = DustOf(M, L)
    BY <1>2, DustNat
  <1>6. PICK f \in Nat : f = DustOf(N, K)
    BY DustNat
  <1>7. e <= f
    BY <1>5, <1>6, DustGrows
  <1>8. c * e <= c * f
    BY <1>7, ProductGrows
  <1>9. e * c = c * e /\ f * c = c * f
    OBVIOUS
  <1> QED
    BY <1>4, <1>5, <1>6, <1>8, <1>9 DEF Slack

LEMMA StockedWeaken ==
  ASSUME NEW M, NEW L, NEW w, NEW x, NEW y, NEW z, NEW h \in Nat, Stocked(M, L, w, x, y, z, h),
         RowsFit(M), LinksFit(M, L), NEW k \in Nat, h <= k
  PROVE  Stocked(M, L, w, x, y, z, k)
  <1>1. x \in Int /\ y \in Nat /\ z \in Int
    BY DEF Stocked
  <1>2. GrainSum(M) \in Int /\ OwedSum(M, L, w) \in Int
    BY SumsAreInts
  <1>3. PICK c \in Nat : c = Cardinality(L)
    BY FS_CardinalityType DEF LinksFit
  <1>4. Cent * c \in Int
    BY StockAssumption
  <1>5. PICK e \in Int : e = DustSum(M, L)
    BY <1>2, <1>3, <1>4 DEF DustSum
  <1>6. PICK o \in Int : o = OwedSum(M, L, w)
    BY <1>2
  <1>7. PICK g \in Int : g = Gap(z, y, o)
    <2>1. Cent * z \in Int
      BY <1>1, StockAssumption
    <2> QED
      BY <1>1, <2>1 DEF Gap
  <1>8. 2 * Absolute(g) <= e + h
    BY <1>5, <1>6, <1>7 DEF Stocked, Near
  <1>9. 2 * Absolute(g) <= e + k
    BY <1>8 DEF Absolute
  <1> QED
    BY <1>5, <1>6, <1>7, <1>9 DEF Stocked, Near

LEMMA EndsWeaken ==
  ASSUME NEW M, NEW L, NEW X, NEW J, NEW S, NEW h \in Nat, NEW x, NEW y, Ends(M, L, X, J, S, h, x, y),
         RowsFit(M), LinksFit(M, L), NEW k \in Nat, h <= k, NEW K, \A w \in Warehouse : K[w] = J[w]
  PROVE  Ends(M, L, X, K, S, k, x, y)
  <1>1. ASSUME NEW w \in Warehouse PROVE Stocked(M, L, w, x[w], y[w], K[w], k)
    <2>1. PICK p, q, z : p = x[w] /\ q = y[w] /\ z = K[w]
      OBVIOUS
    <2>2. Stocked(M, L, w, p, q, z, h)
      BY <2>1 DEF Ends, Backed
    <2>3. Stocked(M, L, w, p, q, z, k)
      BY <2>2, StockedWeaken
    <2> QED
      BY <2>1, <2>3
  <1> QED
    BY <1>1 DEF Ends, Backed

\* No late cost reaches a new row.
LEMMA XGrows ==
  ASSUME NEW M, NEW N, NEW row, Longer(M, N, row), RowFits(row), NEW C, DocsFit(M, C), NEW D \in SUBSET DOMAIN C
  PROVE  /\ \A k \in DOMAIN M : XOn(N, C, D)[k] = XOn(M, C, D)[k]
         /\ XOn(N, C, D)[Len(M) + 1] = 0
  <1>1. PICK n : n = Len(M) + 1
    OBVIOUS
  <1>2. DOMAIN N = DOMAIN M \cup {n} /\ n \notin DOMAIN M /\ N[n] = row /\ \A i \in DOMAIN M : N[i] = M[i]
    BY <1>1, Domains
  <1>3. \A k \in DOMAIN M : XOn(N, C, D)[k] = XOn(M, C, D)[k]
    BY <1>2 DEF XOn
  <1>4. {e \in D : n \in DOMAIN C[e].share} = {}
    BY <1>2 DEF DocsFit, DocFits, ReceiptIn
  <1>5. PICK f : f = [d \in {e \in D : n \in DOMAIN C[e].share} |-> C[d].share[n]]
    OBVIOUS
  <1>6. SumFunctionOnSet(f, {e \in D : n \in DOMAIN C[e].share}) = 0
    BY <1>4, SumEmpty
  <1>7. PICK q \in Nat \ {0} : q = Absolute(row.quantity)
    BY DEF RowFits, Absolute
  <1>8. HalfUp(Steps(0), q) = 0
    <2>1. Steps(0) = 0
      BY StockAssumption DEF Steps
    <2>2. q * 0 = 0
      OBVIOUS
    <2>3. HalfUp(q * 0, q) = 0
      BY HalfUpExact
    <2> QED
      BY <2>1, <2>2, <2>3
  <1> QED
    BY <1>1, <1>2, <1>3, <1>5, <1>6, <1>7, <1>8 DEF XOn

LEMMA NetOfAll ==
  ASSUME NEW C, NEW I, NEW w \in Warehouse, I[w] \in Int
  PROVE  Net(C, I, ActiveIn(C))[w] = I[w]
  <1>1. PICK f : f = [e \in {} |-> C[e].posted.inventory[w]]
    OBVIOUS
  <1>2. ActiveIn(C) \ ActiveIn(C) = {}
    OBVIOUS
  <1>3. SumFunctionOnSet(f, {}) = 0
    BY SumEmpty
  <1>4. PostedOn(C, ActiveIn(C) \ ActiveIn(C), w) = 0
    BY <1>1, <1>2, <1>3 DEF PostedOn
  <1> QED
    BY <1>4 DEF Net

-----------------------------------------------------------------------------
(* What follows an issue comes at its cost.                                 *)
FollowInv == HistoryInv /\ (RegularIn(moves) => FollowsIn(moves))

LEMMA IssueFollows ==
  ASSUME NEW row, NEW type \in {"SALES_ISSUE", "TRANSFER_OUT"}, NEW q, NEW cost, NEW v,
         IssueRow(row, type, q, cost, v), NEW M
  PROVE  /\ Follows(M, row) /\ row.type \notin Following /\ ~Receipt(row) /\ row.type = type
         /\ row.quantity = -q /\ q \in Nat /\ q # 0 /\ row.cost = cost /\ cost \in Nat
  <1>1. Made(row, type, row.warehouse, q, cost, Below(row.warehouse, q), 0) /\ q \in Nat \ {0} /\ cost \in Nat
    BY DEF IssueRow
  <1>2. type \notin InTypes /\ type \notin Following /\ type # "PURCHASE_RECEIPT"
    BY DEF InTypes, Following
  <1>3. row.type = type /\ row.quantity = -q /\ row.cost = cost
    BY <1>1, <1>2 DEF Made
  <1> QED
    BY <1>1, <1>2, <1>3 DEF Follows, Receipt

LEMMA ArrivalFollows ==
  ASSUME ListInv(moves), NEW row, NEW type \in {"OPENING", "SALES_RETURN"}, NEW q, NEW cost, NEW v,
         ArrivalRow(row, type, q, cost, v)
  PROVE  Follows(moves, row) /\ row.type = type /\ ~Receipt(row)
  <1>1. PICK temporary, src :
          /\ Made(row, type, row.warehouse, q, cost, temporary, src)
          /\ type = "SALES_RETURN" =>
               src \in DOMAIN moves /\ moves[src].type = "SALES_ISSUE" /\ cost = moves[src].cost
    BY DEF ArrivalRow
  <1>2. row.type = type /\ row.src = src /\ row.cost = cost
    BY <1>1 DEF Made
  <1>3. ASSUME type = "SALES_RETURN" PROVE moves[src].quantity < 0
    <2>1. RowOK(moves[src], src) /\ moves[src].type = "SALES_ISSUE"
      BY <1>1, <1>3 DEF ListInv, RowsStand
    <2> QED
      BY <2>1 DEF RowOK, InTypes
  <1> QED
    BY <1>1, <1>2, <1>3 DEF Follows, Following, Receipt

LEMMA TransferFollows ==
  ASSUME NEW N, NEW a, NEW b, Longer(moves, N, a), NEW q, NEW c, NEW s, NEW t,
         IssueRow(a, "TRANSFER_OUT", q, c, s), ArrivalRow(b, "TRANSFER_IN", q, c, t)
  PROVE  /\ Follows(N, b) /\ b.type = "TRANSFER_IN" /\ b.src = Len(moves) + 1 /\ ~Receipt(b)
         /\ b.quantity = q /\ b.cost = c
  <1>1. PICK temporary, src : Made(b, "TRANSFER_IN", b.warehouse, q, c, temporary, src) /\ src = Len(moves) + 1
    BY DEF ArrivalRow
  <1>2. b.type = "TRANSFER_IN" /\ b.src = src /\ b.cost = c /\ b.quantity = q
    BY <1>1 DEF Made, InTypes
  <1>3. a.quantity = -q /\ q \in Nat /\ q # 0 /\ a.cost = c
    BY IssueFollows
  <1>4. src \in DOMAIN N /\ N[src] = a
    BY <1>1, Domains
  <1> QED
    BY <1>1, <1>2, <1>3, <1>4 DEF Follows, Receipt

LEMMA FollowsAfter ==
  ASSUME ValueInv, [Next]_vars, RegularIn(moves) => FollowsIn(moves), RegularIn(moves')
  PROVE  FollowsIn(moves')
  <1>1. PICK H : H = moves'
    OBVIOUS
  <1>2. ListInv(moves) /\ RegularStep
    BY ValueInvIs, RegularSteps
  <1>3. FollowsIn(moves)
    <2>1. PICK K : K = links'
      OBVIOUS
    <2>2. Continues(moves, H, links, K)
      BY <1>1, <1>2, <2>1, HistoryGrows
    <2>3. RegularIn(moves)
      BY <1>1, <1>2, <2>2, RegularEarlier
    <2> QED
      BY <2>3
  <1>4. CASE Rests
    BY <1>3, <1>4 DEF Rests
  <1>5. CASE Issues
    <2>1. PICK row, q, cost, v : OneWritten(row, v) /\ IssueRow(row, "SALES_ISSUE", q, cost, v)
      BY <1>5 DEF Issues
    <2>2. Longer(moves, H, row) /\ Follows(moves, row)
      BY <1>1, <2>1, IssueFollows DEF OneWritten, OneRow
    <2> QED
      BY <1>1, <1>3, <2>2, FollowsNext
  <1>6. CASE Admits
    <2>1. PICK row, q, cost, v, type :
            OneWritten(row, v) /\ type \in {"OPENING", "SALES_RETURN"} /\ ArrivalRow(row, type, q, cost, v)
      BY <1>6 DEF Admits
    <2>2. Longer(moves, H, row) /\ Follows(moves, row)
      BY <1>1, <1>2, <2>1, ArrivalFollows DEF OneWritten, OneRow
    <2> QED
      BY <1>1, <1>3, <2>2, FollowsNext
  <1>7. CASE IssuesTwo
    <2>1. PICK N, a, b, p, q, c, d, s, t :
            /\ TwoWritten(N, a, b, s, t)
            /\ IssueRow(a, "SALES_ISSUE", p, c, s) /\ IssueRow(b, "SALES_ISSUE", q, d, t)
      BY <1>7 DEF IssuesTwo
    <2>2. Longer(moves, N, a) /\ Longer(N, H, b)
      BY <1>1, <2>1 DEF TwoWritten, OneRow
    <2>3. Follows(moves, a) /\ Follows(N, b)
      BY <2>1, IssueFollows
    <2>4. FollowsIn(N)
      BY <1>3, <2>2, <2>3, FollowsNext
    <2> QED
      BY <1>1, <2>2, <2>3, <2>4, FollowsNext
  <1>8. CASE Transfers
    <2>1. PICK N, a, b, q, c, s, t :
            /\ TwoWritten(N, a, b, s, t)
            /\ IssueRow(a, "TRANSFER_OUT", q, c, s) /\ ArrivalRow(b, "TRANSFER_IN", q, c, t)
      BY <1>8 DEF Transfers
    <2>2. Longer(moves, N, a) /\ Longer(N, H, b)
      BY <1>1, <2>1 DEF TwoWritten, OneRow
    <2>3. Follows(moves, a)
      BY <2>1, IssueFollows
    <2>4. Follows(N, b)
      BY <2>1, <2>2, TransferFollows
    <2>5. FollowsIn(N)
      BY <1>3, <2>2, <2>3, FollowsNext
    <2> QED
      BY <1>1, <2>2, <2>4, <2>5, FollowsNext
  <1>9. CASE Buys
    <2>1. PICK w, q, total, d, cost :
            w \in Warehouse /\ q \in Quantity /\ total \in Total /\ cost = HalfUp(Steps(total), q)
            /\ Purchase(w, q, total, d) /\ Move("PURCHASE_RECEIPT", w, q, d, cost, FALSE, 0)
      BY <1>9 DEF Buys, Purchase
    <2>2. PICK row : row = Row("PURCHASE_RECEIPT", w, q, d, cost, FALSE, 0)
      OBVIOUS
    <2>3. H = Append(moves, row)
      BY <1>1, <2>1, <2>2 DEF Move
    <2>4. Longer(moves, H, row)
      BY <1>2, <2>3, AppendIsLonger DEF ListInv
    <2>5. row.type = "PURCHASE_RECEIPT"
      BY <2>2 DEF Row
    <2>6. Follows(moves, row)
      BY <2>5 DEF Follows, Following
    <2> QED
      BY <1>1, <1>3, <2>4, <2>6, FollowsNext
  <1> QED
    BY <1>2, <1>4, <1>5, <1>6, <1>7, <1>8, <1>9 DEF RegularStep

LEMMA FollowInvStep == FollowInv /\ [CostNext]_costVars => FollowInv'
  <1> SUFFICES ASSUME FollowInv, [CostNext]_costVars PROVE FollowInv'
    OBVIOUS
  <1>1. HistoryInv /\ CostInv /\ ValueInv
    BY DEF FollowInv, HistoryInv, CostInv
  <1>2. HistoryInv'
    BY <1>1, HistoryInvStep
  <1>3. CASE BookStep
    <2>1. moves' = moves
      BY <1>1, <1>3, BookStepIs DEF KeepsStock
    <2> QED
      BY <1>2, <2>1 DEF FollowInv
  <1>4. CASE [Next]_vars
    <2>1. RegularIn(moves') => FollowsIn(moves')
      BY <1>1, <1>4, FollowsAfter DEF FollowInv
    <2> QED
      BY <1>2, <2>1 DEF FollowInv
  <1>5. BookStep \/ [Next]_vars
    BY StepCases
  <1> QED
    BY <1>3, <1>4, <1>5

-----------------------------------------------------------------------------
(* The accounts and the valuation, as they stand.                           *)
LayerInv ==
  /\ FollowInv
  /\ TurnsFit(costs, Len(moves))
  /\ Stages(moves, links, costs, inventory)

LEMMA ActiveIs == Active = ActiveIn(costs) /\ Active \subseteq DOMAIN costs
  BY DEF Active, ActiveIn

NowEnds(h, x, y) ==
  Ends(moves, links, XOn(moves, costs, Active), inventory, PostedAt(costs, Active), h, x, y)

LEMMA NowStands ==
  ASSUME LayerInv, RegularFor(moves, links, costs, Active)
  PROVE  \E x, y : NowEnds(Slack(moves, links, Active), x, y)
  <1>1. PICK D : D = Active
    OBVIOUS
  <1>2. D = ActiveIn(costs) /\ D \in SUBSET ActiveIn(costs) /\ D \in SUBSET DOMAIN costs
    BY <1>1, ActiveIs
  <1>3. Later(moves, costs, D)
    BY <1>2 DEF Later
  <1>4. ValueInv /\ CostInv
    BY DEF LayerInv, FollowInv, HistoryInv, CostInv
  <1>5. StageOf(moves, links, costs, Net(costs, inventory, D), D)
    BY <1>1, <1>2, <1>3 DEF LayerInv, Stages
  <1>6. PICK J : J = Net(costs, inventory, D)
    OBVIOUS
  <1>7. PICK x, y : Ends(moves, links, XOn(moves, costs, D), J, PostedAt(costs, D), Slack(moves, links, D), x, y)
    BY <1>5, <1>6 DEF StageOf
  <1>8. \A w \in Warehouse : inventory[w] = J[w]
    <2>1. \A w \in Warehouse : inventory[w] \in Int
      BY <1>4, ListFits
    <2>2. \A w \in Warehouse : Net(costs, inventory, ActiveIn(costs))[w] = inventory[w]
      BY <2>1, NetOfAll
    <2> QED
      BY <1>2, <1>6, <2>2
  <1>9. PICK X : X = XOn(moves, costs, D)
    OBVIOUS
  <1>10. PICK S : S = PostedAt(costs, D)
    OBVIOUS
  <1>11. PICK h : h = Slack(moves, links, D)
    OBVIOUS
  <1>12. h \in Nat
    BY <1>2, <1>4, <1>11, SlackNat, CostInvIs
  <1>13. RowsFit(moves) /\ LinksFit(moves, links)
    BY <1>4, ListFits
  <1>14. Ends(moves, links, X, J, S, h, x, y)
    BY <1>7, <1>9, <1>10, <1>11
  <1>15. h <= h
    BY <1>12
  <1>16. Ends(moves, links, X, inventory, S, h, x, y)
    BY <1>8, <1>12, <1>13, <1>14, <1>15, EndsWeaken
  <1> QED
    BY <1>1, <1>9, <1>10, <1>11, <1>16 DEF NowEnds

\* The layers of the posted documents are their replay.
LEMMA LayersAreReplayed ==
  ASSUME FollowInv, RegularIn(moves), NEW h, NEW x, NEW y, NowEnds(h, x, y), NEW w \in Warehouse
  PROVE  x[w] = OnHand(w) /\ y[w] = LayeredReplay(Active).basis[w]
  <1>1. HistoryInv /\ FollowsIn(moves) /\ Homed(moves)
    BY HomedNow DEF FollowInv
  <1>2. PICK X : X = XOn(moves, costs, Active)
    OBVIOUS
  <1>3. PICK U : Laid(moves, X, U, x, y)
    BY <1>2 DEF NowEnds, Ends
  <1>4. PICK u, b : LaidIn(moves, X, U, w, u, b) /\ u[Len(moves)] = x[w] /\ b[Len(moves)] = y[w]
    BY <1>3 DEF Laid
  <1>5. LayersOf(moves, X, U)
    BY <1>3 DEF Laid, LayersOf
  <1>6. PICK V : V = LayeredReplay(Active).unit
    OBVIOUS
  <1>7. \A z \in Warehouse : \E v, c : /\ LaidIn(moves, X, V, z, v, c)
                                       /\ v[Len(moves)] = OnHand(z) /\ c[Len(moves)] = LayeredReplay(Active).basis[z]
    BY <1>1, <1>2, <1>6, ActiveIs, ReplayLaid
  <1>8. PICK v, c : /\ LaidIn(moves, X, V, w, v, c)
                    /\ v[Len(moves)] = OnHand(w) /\ c[Len(moves)] = LayeredReplay(Active).basis[w]
    BY <1>7
  <1>9. LayersOf(moves, X, V)
    BY <1>7 DEF LayersOf
  <1>10. \A z, p, q, r, s :
           LaidIn(moves, X, U, z, p, q) /\ LaidIn(moves, X, V, z, r, s) =>
             p[Len(moves)] = r[Len(moves)] /\ q[Len(moves)] = s[Len(moves)]
    BY <1>1, <1>5, <1>9, LayersAgree
  <1>11. u[Len(moves)] = v[Len(moves)] /\ b[Len(moves)] = c[Len(moves)]
    BY ONLY <1>4, <1>8, <1>10
  <1> QED
    BY <1>4, <1>8, <1>11

\* The layers of the posted documents are the valuation.
LEMMA LayersAreValued ==
  ASSUME FollowInv, RegularIn(moves), NEW h, NEW x, NEW y, NowEnds(h, x, y), NEW w \in Warehouse
  PROVE  x[w] = OnHand(w) /\ y[w] = Valuation.basis[w]
  <1>1. HistoryInv /\ ValueInv /\ FollowsIn(moves) /\ Homed(moves)
    BY HomedNow DEF FollowInv, HistoryInv, CostInv
  <1>2. ListInv(moves) /\ CostsOK(moves) /\ InOrder(moves)
    BY <1>1, ValueInvIs DEF RegularIn
  <1>3. PICK X : X = XOn(moves, costs, Active)
    OBVIOUS
  <1>4. PICK U : AtOwn(moves, U, PostedAt(costs, Active)) /\ Laid(moves, X, U, x, y)
    BY <1>3 DEF NowEnds, Ends
  <1>5. PICK u, b : LaidIn(moves, X, U, w, u, b) /\ u[Len(moves)] = x[w] /\ b[Len(moves)] = y[w]
    BY <1>4 DEF Laid
  <1>6. LayersOf(moves, X, U)
    BY <1>4 DEF Laid, LayersOf
  <1>7. CASE Active = {}
    <2>1. \A k \in DOMAIN moves : X[k] = 0
      <3> SUFFICES ASSUME NEW k \in DOMAIN moves PROVE X[k] = 0
        OBVIOUS
      <3>1. PICK f : f = [d \in {e \in Active : k \in DOMAIN costs[e].share} |-> costs[d].share[k]]
        OBVIOUS
      <3>2. {e \in Active : k \in DOMAIN costs[e].share} = {}
        BY <1>7
      <3>3. SumFunctionOnSet(f, {e \in Active : k \in DOMAIN costs[e].share}) = 0
        BY <3>2, SumEmpty
      <3>4. PICK q \in Nat \ {0} : q = Absolute(moves[k].quantity)
        BY <1>1 DEF Homed, RowsFit, RowFits, Absolute
      <3>5. HalfUp(Steps(0), q) = 0
        <4>1. Steps(0) = 0
          BY StockAssumption DEF Steps
        <4>2. HalfUp(q * 0, q) = 0
          BY HalfUpExact
        <4>3. q * 0 = 0
          OBVIOUS
        <4> QED
          BY <4>1, <4>2, <4>3
      <3> QED
        BY <1>3, <3>1, <3>3, <3>4, <3>5 DEF XOn
    <2>2. PostedAt(costs, Active) = {}
      BY <1>7 DEF PostedAt
    <2>3. \A k \in DOMAIN moves : moves[k].quantity < 0 => U[k] = moves[k].cost
      BY <1>4, <2>2 DEF AtOwn
    <2>4. Worth(moves, w, x[w], y[w])
      BY <1>1, <1>5, <1>6, <2>1, <2>3, LaidIsWorth
    <2>5. Worth(moves, w, OnHand(w), Valuation.basis[w])
      BY <1>2, <1>7, ValuationIsWorth
    <2>6. Len(moves) \in Nat
      BY <1>2, LengthIs
    <2> QED
      BY <2>4, <2>5, <2>6, WorthIsOne
  <1>8. CASE Active # {}
    <2>1. Valuation = LayeredReplay(Active)
      BY <1>8 DEF Valuation
    <2> QED
      BY <2>1, LayersAreReplayed
  <1> QED
    BY <1>7, <1>8

LEMMA HoldsNow ==
  ASSUME FollowInv, RegularIn(moves), NEW h, NEW x, NEW y, NowEnds(h, x, y), NEW w \in Warehouse
  PROVE  Holds(w, x[w], y[w])
  <1>1. ValueInv
    BY DEF FollowInv, HistoryInv, CostInv
  <1>2. ValuationIs(w) /\ inventory[w] \in Int
    BY <1>1, ValueInvIs, ListFits
  <1>3. PICK p, q : p = x[w] /\ q = y[w]
    OBVIOUS
  <1>4. p = OnHand(w) /\ q = Valuation.basis[w]
    BY <1>3, LayersAreValued
  <1>5. Holds(w, p, q)
    BY <1>2, <1>4 DEF Holds, ValuationIs
  <1> QED
    BY <1>3, <1>5

-----------------------------------------------------------------------------
(* The rows a regular step writes, against the layers.                      *)
\* Row is settled on the layers and fair to its warehouse, whose account v goes to.
Goes(M, S, row, x, y, v) ==
  /\ row.warehouse \in Warehouse /\ v \in Int
  /\ Settled(M, S, row, x[row.warehouse], y[row.warehouse])
  /\ \E xx, yy : Fair(row, row.warehouse, x[row.warehouse], y[row.warehouse], inventory[row.warehouse],
                      xx, yy, inventory[row.warehouse] + v)

LEMMA IssueGoes ==
  ASSUME ValueInv, NEW row, NEW type \in {"SALES_ISSUE", "TRANSFER_OUT"}, NEW q, NEW cost, NEW v,
         IssueRow(row, type, q, cost, v), NEW x, NEW y, Holds(row.warehouse, x[row.warehouse], y[row.warehouse]),
         NEW M, NEW S
  PROVE  Goes(M, S, row, x, y, v)
  <1>1. PICK w \in Warehouse : w = row.warehouse
    BY DEF IssueRow
  <1>2. PICK p, r : p = x[w] /\ r = y[w]
    OBVIOUS
  <1>3. Holds(w, p, r)
    BY <1>1, <1>2
  <1>4. /\ q \in Nat /\ q # 0 /\ cost \in IssueCosts(w, q) /\ cost \in Nat
        /\ Made(row, type, w, q, cost, Below(w, q), 0) /\ ~Rough(row)
        /\ v = -Value(q, cost) /\ v \in Int
    BY <1>1 DEF IssueRow
  <1>5. PICK xx, yy : Fair(row, w, p, r, inventory[w], xx, yy, inventory[w] - Value(q, cost))
    BY <1>3, <1>4, FairIssue
  <1>6. inventory[w] \in Int /\ p \in Int /\ OnHand(w) = p /\ (p > 0 => Average(w) = HalfUp(r, p))
    BY <1>3 DEF Holds
  <1>7. inventory[w] - Value(q, cost) = inventory[w] + v
    <2>1. PICK z : z = Value(q, cost)
      OBVIOUS
    <2>2. z \in Int
      BY <1>4, <2>1, ValueInt
    <2>3. v = -z
      BY <1>4, <2>1
    <2> QED
      BY <1>6, <2>1, <2>2, <2>3
  <1>8. AverageOf(p, r, row.cost) = row.cost
    <2>1. row.cost = cost /\ row.temporary = Below(w, q) /\ row.before = p /\ row.quantity < 0
      <3>1. row.quantity = -q
        BY <1>1, IssueFollows
      <3> QED
        BY <1>4, <1>6, <3>1 DEF Made
    <2>2. CASE p > 0
      <3>1. ~Below(w, q)
        BY <1>4, <2>1, <2>2 DEF Rough
      <3>2. cost \in {Average(w)}
        BY <1>4, <3>1 DEF Below, IssueCosts
      <3> QED
        BY <1>6, <2>1, <2>2, <3>2 DEF AverageOf
    <2>3. CASE ~(p > 0)
      BY <2>3 DEF AverageOf
    <2> QED
      BY <2>2, <2>3
  <1>9. Follows(M, row) /\ row.type \notin Following
    BY IssueFollows
  <1>10. Settled(M, S, row, p, r)
    BY <1>8, <1>9 DEF Settled
  <1>11. Fair(row, w, p, r, inventory[w], xx, yy, inventory[w] + v)
    BY <1>5, <1>7
  <1> QED
    BY <1>1, <1>2, <1>4, <1>10, <1>11 DEF Goes

LEMMA ArrivalGoes ==
  ASSUME NEW row, NEW type \in {"OPENING", "SALES_RETURN", "TRANSFER_IN"}, NEW q, NEW cost, NEW v,
         ArrivalRow(row, type, q, cost, v), NEW x, NEW y, Holds(row.warehouse, x[row.warehouse], y[row.warehouse]),
         NEW M, Follows(M, row), NEW S, row.type \in Following => \A a \in S : a < row.src
  PROVE  Goes(M, S, row, x, y, v)
  <1>1. PICK w \in Warehouse : w = row.warehouse
    BY DEF ArrivalRow
  <1>2. PICK p, r : p = x[w] /\ r = y[w]
    OBVIOUS
  <1>3. Holds(w, p, r)
    BY <1>1, <1>2
  <1>4. PICK temporary, src :
          /\ q \in Nat /\ q # 0 /\ cost \in Nat /\ Made(row, type, w, q, cost, temporary, src) /\ ~Rough(row)
          /\ v = Value(q, cost) /\ v \in Int
    BY <1>1 DEF ArrivalRow
  <1>5. PICK xx, yy : Fair(row, w, p, r, inventory[w], xx, yy, inventory[w] + Value(q, cost))
    BY <1>3, <1>4, FairReceipt
  <1>6. ~(row.quantity < 0)
    BY <1>4 DEF Made, InTypes
  <1>7. Settled(M, S, row, p, r)
    BY <1>6 DEF Settled
  <1>8. Fair(row, w, p, r, inventory[w], xx, yy, inventory[w] + v)
    BY <1>4, <1>5
  <1> QED
    BY <1>1, <1>2, <1>4, <1>7, <1>8 DEF Goes

LEMMA FollowFacts ==
  ASSUME FollowInv
  PROVE  /\ HistoryInv /\ CostInv /\ ValueInv /\ ListInv(moves) /\ RowsFit(moves) /\ LinksFit(moves, links)
         /\ DocsFit(moves, costs) /\ Active \in SUBSET DOMAIN costs
         /\ \A w \in Warehouse : inventory[w] \in Int
         /\ RegularIn(moves) => FollowsIn(moves)
  BY ListFits, CostInvIs, ActiveIs DEF FollowInv, HistoryInv, CostInv

LEMMA LongerKeeps ==
  ASSUME NEW M, NEW N, NEW row, Longer(M, N, row)
  PROVE  DOMAIN M \subseteq DOMAIN N /\ \A i \in DOMAIN M : N[i] = M[i]
  BY Domains

\* One such row.
LEMMA EndsOne ==
  ASSUME FollowInv, RegularIn(moves), NEW h \in Nat, NEW x, NEW y, NowEnds(h, x, y),
         NEW N, NEW row, OneRow(moves, N, links, row), NEW v,
         NEW S, S = PostedAt(costs, Active), Goes(moves, S, row, x, y, v),
         NEW I, I = [inventory EXCEPT ![row.warehouse] = @ + v]
  PROVE  Ends(N, links, XOn(N, costs, Active), I, S, h, UnitsAfter(x, row), BasisAfter(x, y, row))
  <1>1. PICK X : X = XOn(moves, costs, Active)
    OBVIOUS
  <1>2. PICK Y : Y = XOn(N, costs, Active)
    OBVIOUS
  <1>3. (\A k \in DOMAIN moves : Y[k] = X[k]) /\ Y[Len(moves) + 1] = 0
    BY <1>1, <1>2, XGrows, FollowFacts DEF OneRow
  <1>4. PICK w \in Warehouse : w = row.warehouse
    BY DEF Goes
  <1>5. inventory \in [Warehouse -> Int]
    BY FollowFacts, ValueInvIs DEF TypedBooks
  <1>6. I[w] = inventory[w] + v /\ \A u \in Warehouse : u # w => I[u] = inventory[u]
    BY <1>4, <1>5
  <1>7. FollowsIn(moves)
    BY FollowFacts
  <1>8. Ends(moves, links, X, inventory, S, h, x, y)
    BY <1>1 DEF NowEnds
  <1>9. Settled(moves, S, row, x[row.warehouse], y[row.warehouse])
    BY DEF Goes
  <1>10. \E xx, yy : Fair(row, row.warehouse, x[row.warehouse], y[row.warehouse], inventory[row.warehouse],
                          xx, yy, I[row.warehouse])
    BY <1>4, <1>6 DEF Goes
  <1>11. row.warehouse \in Warehouse /\ \A u \in Warehouse : u # row.warehouse => I[u] = inventory[u]
    BY <1>4, <1>6
  <1>12. Upon(moves, N, links, row, X, Y, inventory, I, S, h, x, y)
    BY <1>3, <1>7, <1>8, <1>9, <1>10, <1>11 DEF Upon
  <1>13. Ends(N, links, Y, I, S, h, UnitsAfter(x, row), BasisAfter(x, y, row))
    BY <1>12, EndsNext
  <1> QED
    BY <1>2, <1>13

\* Two of different warehouses.
LEMMA EndsTwo ==
  ASSUME FollowInv, RegularIn(moves), NEW h \in Nat, NEW x, NEW y, NowEnds(h, x, y),
         NEW N, NEW P, NEW a, NEW b, OneRow(moves, N, links, a), OneRow(N, P, links, b), a.warehouse # b.warehouse,
         NEW s, NEW t, NEW S, S = PostedAt(costs, Active), Goes(moves, S, a, x, y, s), Goes(N, S, b, x, y, t),
         NEW I, I = [inventory EXCEPT ![a.warehouse] = @ + s, ![b.warehouse] = @ + t]
  PROVE  \E xx, yy : Ends(P, links, XOn(P, costs, Active), I, S, h, xx, yy)
  <1>1. PICK H : H = [inventory EXCEPT ![a.warehouse] = @ + s]
    OBVIOUS
  <1>2. PICK X : X = XOn(N, costs, Active)
    OBVIOUS
  <1>3. PICK Y : Y = XOn(P, costs, Active)
    OBVIOUS
  <1>4. PICK xx : xx = UnitsAfter(x, a)
    OBVIOUS
  <1>5. PICK yy : yy = BasisAfter(x, y, a)
    OBVIOUS
  <1>6. Ends(N, links, X, H, S, h, xx, yy)
    BY <1>1, <1>2, <1>4, <1>5, EndsOne
  <1>7. Longer(moves, N, a) /\ Longer(N, P, b) /\ RowFits(b)
    BY DEF OneRow
  <1>8. DocsFit(N, costs)
    <2>1. DOMAIN moves \subseteq DOMAIN N /\ \A i \in DOMAIN moves : N[i] = moves[i]
      BY <1>7, LongerKeeps
    <2>2. DocsFit(moves, costs)
      BY FollowFacts
    <2> QED
      BY <2>1, <2>2, DocsKeep
  <1>9. (\A k \in DOMAIN N : Y[k] = X[k]) /\ Y[Len(N) + 1] = 0
    BY <1>2, <1>3, <1>7, <1>8, XGrows, FollowFacts
  <1>10. FollowsIn(N)
    BY <1>7, FollowsNext, FollowFacts DEF Goes, Settled
  <1>11. PICK w \in Warehouse : w = b.warehouse
    BY DEF Goes
  <1>12. a.warehouse \in Warehouse /\ a.warehouse # w
    BY <1>11 DEF Goes
  <1>13. xx[w] = x[w] /\ yy[w] = y[w]
    BY <1>4, <1>5, <1>12 DEF UnitsAfter, BasisAfter, UnitsNext, BasisNext
  <1>14. inventory \in [Warehouse -> Int]
    BY FollowFacts, ValueInvIs DEF TypedBooks
  <1>15. H[w] = inventory[w] /\ I[w] = inventory[w] + t /\ \A u \in Warehouse : u # w => I[u] = H[u]
    BY <1>1, <1>11, <1>12, <1>14
  <1>16. Settled(N, S, b, xx[b.warehouse], yy[b.warehouse])
    BY <1>11, <1>13 DEF Goes
  <1>17. \E p, q : Fair(b, b.warehouse, xx[b.warehouse], yy[b.warehouse], H[b.warehouse], p, q, I[b.warehouse])
    BY <1>11, <1>13, <1>15 DEF Goes
  <1>18. b.warehouse \in Warehouse /\ \A u \in Warehouse : u # b.warehouse => I[u] = H[u]
    BY <1>11, <1>15
  <1>19. OneRow(N, P, links, b)
    OBVIOUS
  <1>20. h \in Nat
    OBVIOUS
  <1>21. Upon(N, P, links, b, X, Y, H, I, S, h, xx, yy)
    BY ONLY <1>6, <1>9, <1>10, <1>16, <1>17, <1>18, <1>19, <1>20 DEF Upon
  <1>22. Ends(P, links, Y, I, S, h, UnitsAfter(xx, b), BasisAfter(xx, yy, b))
    BY <1>21, EndsNext
  <1> QED
    BY <1>3, <1>22

-----------------------------------------------------------------------------
(* A step of the movements keeps the stages.                                *)
LEMMA TwiceStays ==
  ASSUME NEW M, NEW N, NEW L, NEW K, Continues(M, N, L, K), NEW c, DocFits(M, c), TwiceIn(M, L, c)
  PROVE  TwiceIn(N, K, c)
  <1>1. ASSUME NEW l \in SharedIn(M, L, c) PROVE l \in SharedIn(N, K, c)
    <2>1. l \in K /\ l.receipt \in DOMAIN c.share /\ ShareIn(M, c, l) > 0
      BY DEF SharedIn, Continues
    <2>2. l.receipt \in DOMAIN M
      BY <2>1 DEF DocFits, ReceiptIn
    <2>3. N[l.receipt] = M[l.receipt]
      BY <2>2 DEF Continues
    <2>4. ShareIn(N, c, l) = ShareIn(M, c, l)
      BY <2>3 DEF ShareIn
    <2> QED
      BY <2>1, <2>4 DEF SharedIn
  <1> QED
    BY <1>1 DEF TwiceIn

LEMMA RegularForEarlier ==
  ASSUME NEW M, NEW N, NEW L, NEW K, Continues(M, N, L, K), ListInv(M), NEW C, DocsFit(M, C),
         NEW D \in SUBSET DOMAIN C, RegularFor(N, K, C, D)
  PROVE  RegularFor(M, L, C, D)
  <1>1. RegularIn(M)
    <2>1. RegularIn(N)
      BY DEF RegularFor
    <2> QED
      BY <2>1, RegularEarlier
  <1>2. \A d \in D : ~TwiceIn(M, L, C[d])
    <2> SUFFICES ASSUME NEW d \in D, TwiceIn(M, L, C[d]) PROVE FALSE
      OBVIOUS
    <2>1. PICK c : c = C[d]
      OBVIOUS
    <2>2. DocFits(M, c) /\ TwiceIn(M, L, c)
      BY <2>1 DEF DocsFit
    <2>3. TwiceIn(N, K, c)
      BY <2>2, TwiceStays
    <2> QED
      BY <2>1, <2>3 DEF RegularFor
  <1>3. \A k \in DOMAIN M : M[k].type = "SALES_RETURN" => \A d \in D : ~(C[d].at \in M[k].src .. (k - 1))
    BY DEF RegularFor, Continues
  <1> QED
    BY <1>1, <1>2, <1>3 DEF RegularFor

\* A movement came after every posting.
LEMMA LaterIsAll ==
  ASSUME NEW C, NEW n \in Nat, TurnsFit(C, n), NEW N, n < Len(N), Len(N) \in Nat,
         NEW D \in SUBSET ActiveIn(C), Later(N, C, D)
  PROVE  D = ActiveIn(C)
  BY DEF TurnsFit, Later, ActiveIn

LEMMA LongerLen ==
  ASSUME NEW M, NEW N, NEW row, Longer(M, N, row)
  PROVE  Len(M) \in Nat /\ Len(N) = Len(M) + 1
  BY DEF Longer, IsList

LEMMA RowsCome ==
  ASSUME ValueInv, RegularStep, ~Rests
  PROVE  Len(moves) < Len(moves')
  <1>1. PICK N : N = moves'
    OBVIOUS
  <1>2. CASE Issues \/ Admits
    <2>1. PICK row : Longer(moves, N, row)
      BY <1>1, <1>2 DEF Issues, Admits, OneWritten, OneRow
    <2> QED
      BY <1>1, <2>1, LongerLen
  <1>3. CASE IssuesTwo \/ Transfers
    <2>1. PICK H, a, b : Longer(moves, H, a) /\ Longer(H, N, b)
      BY <1>1, <1>3 DEF IssuesTwo, Transfers, TwoWritten, OneRow
    <2>2. Len(moves) \in Nat /\ Len(H) = Len(moves) + 1 /\ Len(N) = Len(H) + 1
      BY <2>1, LongerLen
    <2> QED
      BY <1>1, <2>2
  <1>4. CASE Buys
    <2>1. PICK row : moves' = Append(moves, row)
      BY <1>4 DEF Buys, Purchase, Move
    <2>2. Longer(moves, N, row)
      <3>1. IsList(moves) /\ N = Append(moves, row)
        BY <1>1, <2>1, ListFits
      <3> QED
        BY <3>1, AppendIsLonger
    <2> QED
      BY <1>1, <2>2, LongerLen
  <1> QED
    BY <1>2, <1>3, <1>4 DEF RegularStep

\* Movements came, and the books still end so.
EndsAfter(h) ==
  \E xx, yy : Ends(moves', links', XOn(moves', costs, Active), inventory', PostedAt(costs, Active), h, xx, yy)

LEMMA IssuesEnd ==
  ASSUME FollowInv, RegularIn(moves), NEW h \in Nat, NEW x, NEW y, NowEnds(h, x, y), Issues
  PROVE  EndsAfter(h)
  <1>1. PICK row, q, cost, v : OneWritten(row, v) /\ IssueRow(row, "SALES_ISSUE", q, cost, v)
    BY DEF Issues
  <1>2. PICK N : N = moves'
    OBVIOUS
  <1>3. PICK I : I = inventory'
    OBVIOUS
  <1>4. PICK S : S = PostedAt(costs, Active)
    OBVIOUS
  <1>5. OneRow(moves, N, links, row) /\ links' = links /\ I = [inventory EXCEPT ![row.warehouse] = @ + v]
    BY <1>1, <1>2, <1>3 DEF OneWritten
  <1>6. Holds(row.warehouse, x[row.warehouse], y[row.warehouse])
    <2>1. row.warehouse \in Warehouse
      BY <1>1 DEF IssueRow
    <2> QED
      BY <2>1, HoldsNow
  <1>7. Goes(moves, S, row, x, y, v)
    <2>1. IssueRow(row, "SALES_ISSUE", q, cost, v) /\ ValueInv
      BY <1>1, FollowFacts
    <2> QED
      BY <1>6, <2>1, IssueGoes
  <1>8. Ends(N, links, XOn(N, costs, Active), I, S, h, UnitsAfter(x, row), BasisAfter(x, y, row))
    BY <1>4, <1>5, <1>7, EndsOne
  <1> QED
    BY <1>2, <1>3, <1>4, <1>5, <1>8 DEF EndsAfter

LEMMA AdmitsEnd ==
  ASSUME FollowInv, RegularIn(moves), NEW h \in Nat, NEW x, NEW y, NowEnds(h, x, y), Admits,
         TurnsFit(costs, Len(moves)), RegularFor(moves', links', costs, Active)
  PROVE  EndsAfter(h)
  <1>1. PICK row, q, cost, v, type :
          OneWritten(row, v) /\ type \in {"OPENING", "SALES_RETURN"} /\ ArrivalRow(row, type, q, cost, v)
    BY DEF Admits
  <1>2. PICK N : N = moves'
    OBVIOUS
  <1>3. PICK I : I = inventory'
    OBVIOUS
  <1>4. PICK S : S = PostedAt(costs, Active)
    OBVIOUS
  <1>5. OneRow(moves, N, links, row) /\ links' = links /\ I = [inventory EXCEPT ![row.warehouse] = @ + v]
    BY <1>1, <1>2, <1>3 DEF OneWritten
  <1>6. Holds(row.warehouse, x[row.warehouse], y[row.warehouse])
    <2>1. row.warehouse \in Warehouse
      BY <1>1 DEF ArrivalRow
    <2> QED
      BY <2>1, HoldsNow
  <1>7. Longer(moves, N, row)
    BY <1>5 DEF OneRow
  <1>8. Follows(moves, row) /\ row.type = type
    BY <1>1, FollowFacts, ArrivalFollows
  <1>9. ASSUME row.type \in Following, NEW a \in S PROVE a < row.src
    <2>1. row.type = "SALES_RETURN"
      BY <1>1, <1>8, <1>9 DEF Following
    <2>2. PICK n \in Nat : n = Len(moves) /\ Len(N) = n + 1
      BY <1>7, LongerLen
    <2>3. n + 1 \in DOMAIN N /\ N[n + 1] = row
      BY <1>7, <2>2, Domains
    <2>4. PICK d \in Active : a = costs[d].at
      BY <1>4, <1>9 DEF PostedAt
    <2>5. ~(costs[d].at \in row.src .. n)
      BY <1>2, <2>1, <2>2, <2>3 DEF RegularFor
    <2>6. a \in 0 .. n
      BY <2>2, <2>4, ActiveIs DEF TurnsFit
    <2>7. row.src \in DOMAIN moves
      BY <1>8, <1>9 DEF Follows
    <2>8. row.src \in Nat
      BY <2>7, FollowFacts DEF ListInv, IsList
    <2> QED
      BY <2>4, <2>5, <2>6, <2>8
  <1>10. Goes(moves, S, row, x, y, v)
    <2>1. ArrivalRow(row, type, q, cost, v) /\ type \in {"OPENING", "SALES_RETURN", "TRANSFER_IN"}
      BY <1>1
    <2>2. row.type \in Following => \A a \in S : a < row.src
      BY <1>9
    <2> QED
      BY <1>6, <1>8, <2>1, <2>2, ArrivalGoes
  <1>11. Ends(N, links, XOn(N, costs, Active), I, S, h, UnitsAfter(x, row), BasisAfter(x, y, row))
    BY <1>4, <1>5, <1>10, EndsOne
  <1> QED
    BY <1>2, <1>3, <1>4, <1>5, <1>11 DEF EndsAfter

LEMMA IssuesTwoEnd ==
  ASSUME FollowInv, RegularIn(moves), NEW h \in Nat, NEW x, NEW y, NowEnds(h, x, y), IssuesTwo
  PROVE  EndsAfter(h)
  <1>1. PICK H, a, b, p, q, c, d, s, t :
          /\ TwoWritten(H, a, b, s, t)
          /\ IssueRow(a, "SALES_ISSUE", p, c, s) /\ IssueRow(b, "SALES_ISSUE", q, d, t)
    BY DEF IssuesTwo
  <1>2. PICK N : N = moves'
    OBVIOUS
  <1>3. PICK I : I = inventory'
    OBVIOUS
  <1>4. PICK S : S = PostedAt(costs, Active)
    OBVIOUS
  <1>5. /\ OneRow(moves, H, links, a) /\ OneRow(H, N, links, b) /\ links' = links /\ a.warehouse # b.warehouse
        /\ I = [inventory EXCEPT ![a.warehouse] = @ + s, ![b.warehouse] = @ + t]
    BY <1>1, <1>2, <1>3 DEF TwoWritten
  <1>6. Holds(a.warehouse, x[a.warehouse], y[a.warehouse]) /\ Holds(b.warehouse, x[b.warehouse], y[b.warehouse])
    <2>1. a.warehouse \in Warehouse /\ b.warehouse \in Warehouse
      BY <1>1 DEF IssueRow
    <2> QED
      BY <2>1, HoldsNow
  <1>7. ValueInv
    BY FollowFacts
  <1>8. Goes(moves, S, a, x, y, s)
    BY <1>1, <1>6, <1>7, IssueGoes
  <1>9. Goes(H, S, b, x, y, t)
    BY <1>1, <1>6, <1>7, IssueGoes
  <1>10. \E xx, yy : Ends(N, links, XOn(N, costs, Active), I, S, h, xx, yy)
    BY <1>4, <1>5, <1>8, <1>9, EndsTwo
  <1> QED
    BY <1>2, <1>3, <1>4, <1>5, <1>10 DEF EndsAfter

LEMMA TransfersEnd ==
  ASSUME FollowInv, RegularIn(moves), NEW h \in Nat, NEW x, NEW y, NowEnds(h, x, y), Transfers,
         TurnsFit(costs, Len(moves))
  PROVE  EndsAfter(h)
  <1>1. PICK H, a, b, q, c, s, t :
          /\ TwoWritten(H, a, b, s, t)
          /\ IssueRow(a, "TRANSFER_OUT", q, c, s) /\ ArrivalRow(b, "TRANSFER_IN", q, c, t)
    BY DEF Transfers
  <1>2. PICK N : N = moves'
    OBVIOUS
  <1>3. PICK I : I = inventory'
    OBVIOUS
  <1>4. PICK S : S = PostedAt(costs, Active)
    OBVIOUS
  <1>5. /\ OneRow(moves, H, links, a) /\ OneRow(H, N, links, b) /\ links' = links /\ a.warehouse # b.warehouse
        /\ I = [inventory EXCEPT ![a.warehouse] = @ + s, ![b.warehouse] = @ + t]
    BY <1>1, <1>2, <1>3 DEF TwoWritten
  <1>6. Holds(a.warehouse, x[a.warehouse], y[a.warehouse]) /\ Holds(b.warehouse, x[b.warehouse], y[b.warehouse])
    <2>1. a.warehouse \in Warehouse /\ b.warehouse \in Warehouse
      BY <1>1 DEF IssueRow, ArrivalRow
    <2> QED
      BY <2>1, HoldsNow
  <1>7. ValueInv
    BY FollowFacts
  <1>8. Goes(moves, S, a, x, y, s)
    BY <1>1, <1>6, <1>7, IssueGoes
  <1>9. Follows(H, b) /\ b.type = "TRANSFER_IN" /\ b.src = Len(moves) + 1
    BY <1>1, <1>5, TransferFollows DEF OneRow
  <1>10. \A e \in S : e < b.src
    <2>1. PICK n \in Nat : n = Len(moves)
      BY <1>5, LongerLen DEF OneRow
    <2>2. \A e \in S : e \in 0 .. n
      BY <1>4, <2>1, ActiveIs DEF PostedAt, TurnsFit
    <2> QED
      BY <1>9, <2>1, <2>2
  <1>11. Goes(H, S, b, x, y, t)
    <2>1. ArrivalRow(b, "TRANSFER_IN", q, c, t)
      BY <1>1
    <2> QED
      BY <1>6, <1>9, <1>10, <2>1, ArrivalGoes
  <1>12. \E xx, yy : Ends(N, links, XOn(N, costs, Active), I, S, h, xx, yy)
    BY <1>4, <1>5, <1>8, <1>11, EndsTwo
  <1> QED
    BY <1>2, <1>3, <1>4, <1>5, <1>12 DEF EndsAfter

LEMMA BuysEnd ==
  ASSUME FollowInv, RegularIn(moves), NEW h \in Nat, NEW x, NEW y, NowEnds(h, x, y), Buys,
         LinksFit(moves', links')
  PROVE  EndsAfter(h)
  <1>1. PICK w \in Warehouse, q \in Quantity, total \in Total, d \in Day : Purchase(w, q, total, d)
    BY DEF Buys
  <1>2. q \in Nat /\ q # 0 /\ total \in Nat
    BY DataInputs, StockAssumption
  <1>3. PICK cost \in Nat : cost = HalfUp(Steps(total), q)
    <2>1. Steps(total) \in Nat
      BY <1>2, StockAssumption DEF Steps
    <2> QED
      BY <1>2, <2>1, HalfUpNat
  <1>4. /\ Move("PURCHASE_RECEIPT", w, q, d, cost, FALSE, 0)
        /\ links' = links \cup NewLinks(w, q, cost)
        /\ inventory' = [inventory EXCEPT ![w] = @ + total - Corrects(w, q, cost)]
    BY <1>1, <1>3 DEF Purchase
  <1>5. PICK N : N = moves'
    OBVIOUS
  <1>6. PICK K : K = links'
    OBVIOUS
  <1>7. PICK J : J = inventory'
    OBVIOUS
  <1>8. PICK S : S = PostedAt(costs, Active)
    OBVIOUS
  <1>9. PICK row, C, s, r, v : v = Corrects(w, q, cost) /\ Serving(moves, N, links, K, w, q, cost, row, C, s, r, v)
    <2>1. \E row, C, s, r, v : /\ v = Corrects(w, q, cost)
                               /\ Serving(moves, moves', links, links', w, q, cost, row, C, s, r, v)
      BY <1>2, <1>4, PurchaseHands, FollowFacts
    <2> QED
      BY <1>5, <1>6, <2>1
  <1>10. Longer(moves, N, row) /\ RowFits(row)
    BY <1>9 DEF Serving, OneRow
  <1>11. PICK X : X = XOn(moves, costs, Active)
    OBVIOUS
  <1>12. PICK Y : Y = XOn(N, costs, Active)
    OBVIOUS
  <1>13. (\A k \in DOMAIN moves : Y[k] = X[k]) /\ Y[Len(moves) + 1] = 0
    BY <1>10, <1>11, <1>12, XGrows, FollowFacts
  <1>14. J[w] = inventory[w] + total - v /\ \A u \in Warehouse : u # w => J[u] = inventory[u]
    <2>1. inventory \in [Warehouse -> Int]
      BY FollowFacts, ValueInvIs DEF TypedBooks
    <2> QED
      BY <1>4, <1>7, <1>9, <2>1
  <1>15. LinksFit(N, K)
    BY <1>5, <1>6
  <1>16. FollowsIn(moves)
    BY FollowFacts
  <1>17. Ends(moves, links, X, inventory, S, h, x, y)
    BY <1>8, <1>11 DEF NowEnds
  <1>18. Serving(moves, N, links, K, w, q, cost, row, C, s, r, v)
    BY <1>9
  <1>19. w \in Warehouse /\ cost \in Nat /\ h \in Nat
    OBVIOUS
  <1>20. Ends(N, K, Y, J, S, h, UnitsAfter(x, row), BasisAfter(x, y, row))
    BY ONLY <1>2, <1>3, <1>13, <1>14, <1>15, <1>16, <1>17, <1>18, <1>19, EndsServed
  <1> QED
    BY <1>5, <1>6, <1>7, <1>8, <1>12, <1>20 DEF EndsAfter

\* The next movements, of whatever kind.
LEMMA RowsEnd ==
  ASSUME LayerInv, [Next]_vars, RegularFor(moves', links', costs, Active), ~Rests
  PROVE  EndsAfter(Slack(moves, links, Active))
  <1>1. FollowInv /\ TurnsFit(costs, Len(moves))
    BY DEF LayerInv
  <1>2. /\ ValueInv /\ ListInv(moves) /\ DocsFit(moves, costs) /\ Active \in SUBSET DOMAIN costs
        /\ IsFiniteSet(links)
    BY <1>1, FollowFacts DEF LinksFit
  <1>3. PICK N : N = moves'
    OBVIOUS
  <1>4. PICK K : K = links'
    OBVIOUS
  <1>5. RegularFor(N, K, costs, Active) /\ RegularIn(moves')
    BY <1>3, <1>4 DEF RegularFor
  <1>6. Continues(moves, N, links, K)
    BY <1>2, <1>3, <1>4, HistoryGrows
  <1>7. RegularFor(moves, links, costs, Active)
    BY <1>2, <1>5, <1>6, RegularForEarlier
  <1>8. PICK h : h = Slack(moves, links, Active)
    OBVIOUS
  <1>9. h \in Nat
    BY <1>2, <1>8, SlackNat
  <1>10. PICK x, y : NowEnds(h, x, y)
    BY <1>7, <1>8, NowStands
  <1>11. RegularIn(moves)
    BY <1>7 DEF RegularFor
  <1>12. RegularStep
    BY <1>2, <1>5, RegularSteps
  <1>13. CASE Issues
    BY <1>1, <1>8, <1>9, <1>10, <1>11, <1>13, IssuesEnd
  <1>14. CASE Admits
    BY <1>1, <1>8, <1>9, <1>10, <1>11, <1>14, AdmitsEnd
  <1>15. CASE IssuesTwo
    BY <1>1, <1>8, <1>9, <1>10, <1>11, <1>15, IssuesTwoEnd
  <1>16. CASE Transfers
    BY <1>1, <1>8, <1>9, <1>10, <1>11, <1>16, TransfersEnd
  <1>17. CASE Buys
    <2>1. LinksFit(moves', links')
      BY <1>2, LinksStep DEF ValueInv
    <2> QED
      BY <1>1, <1>8, <1>9, <1>10, <1>11, <1>17, <2>1, BuysEnd
  <1> QED
    BY <1>12, <1>13, <1>14, <1>15, <1>16, <1>17 DEF RegularStep

\* What a stage still has to show when movements came.
LEMMA StageAfter ==
  ASSUME NEW M, NEW N, NEW L, NEW K, Continues(M, N, L, K), ListInv(M), ListInv(N), RowsFit(N), LinksFit(N, K),
         NEW C, DocsFit(M, C), NEW D \in SUBSET DOMAIN C, D = ActiveIn(C),
         NEW I, \A w \in Warehouse : I[w] \in Int,
         NEW x, NEW y, Ends(N, K, XOn(N, C, D), I, PostedAt(C, D), Slack(M, L, D), x, y)
  PROVE  StageOf(N, K, C, Net(C, I, D), D)
  <1>1. IsFiniteSet(K) /\ IsFiniteSet(L) /\ DocsFit(N, C)
    <2>1. IsFiniteSet(K) /\ L \subseteq K
      BY DEF LinksFit, Continues
    <2>2. IsFiniteSet(L)
      BY <2>1, FS_Subset
    <2>3. DOMAIN M \subseteq DOMAIN N /\ \A i \in DOMAIN M : N[i] = M[i]
      BY DEF Continues
    <2> QED
      BY <2>1, <2>2, <2>3, DocsKeep
  <1>2. PICK h \in Nat : h = Slack(M, L, D)
    BY <1>1, SlackNat
  <1>3. PICK k \in Nat : k = Slack(N, K, D)
    BY <1>1, SlackNat
  <1>4. h <= k
    BY <1>1, <1>2, <1>3, SlackGrows
  <1>5. PICK J : J = Net(C, I, D)
    OBVIOUS
  <1>6. \A w \in Warehouse : J[w] = I[w]
    BY <1>5, NetOfAll
  <1>7. PICK X : X = XOn(N, C, D)
    OBVIOUS
  <1>8. PICK S : S = PostedAt(C, D)
    OBVIOUS
  <1>9. Ends(N, K, X, I, S, h, x, y)
    BY <1>2, <1>7, <1>8
  <1>10. Ends(N, K, X, J, S, k, x, y)
    BY <1>4, <1>6, <1>9, EndsWeaken
  <1> QED
    BY <1>3, <1>5, <1>7, <1>8, <1>10 DEF StageOf

LEMMA StagesKeep ==
  ASSUME LayerInv, FollowInv', [Next]_vars
  PROVE  TurnsFit(costs, Len(moves')) /\ Stages(moves', links', costs, inventory')
  <1>1. FollowInv /\ TurnsFit(costs, Len(moves)) /\ Stages(moves, links, costs, inventory)
    BY DEF LayerInv
  <1>2. ValueInv /\ ListInv(moves) /\ DocsFit(moves, costs)
    BY <1>1, FollowFacts
  <1>3. PICK N : N = moves'
    OBVIOUS
  <1>4. PICK K : K = links'
    OBVIOUS
  <1>5. PICK I : I = inventory'
    OBVIOUS
  <1>6. Continues(moves, N, links, K)
    BY <1>2, <1>3, <1>4, HistoryGrows
  <1>7. ListInv(N) /\ RowsFit(N) /\ LinksFit(N, K) /\ \A w \in Warehouse : I[w] \in Int
    <2>1. ListInv(moves') /\ LinksFit(moves', links') /\ TypeOK'
      BY DEF FollowInv, HistoryInv, CostInv, ValueInv, StockInv
    <2>2. TypedMoves(moves') /\ TypedBooks(inventory', cogs', payable')
      BY <2>1, TypeOKNext
    <2>3. \A i \in DOMAIN N : RowFits(N[i])
      BY <1>3, <2>2 DEF TypedMoves, TypedRow, Movement, RowFits
    <2>4. RowsFit(N)
      BY <1>3, <2>1, <2>3 DEF RowsFit, ListInv
    <2> QED
      BY <1>3, <1>4, <1>5, <2>1, <2>2, <2>4 DEF TypedBooks
  <1>8. PICK n \in Nat : n = Len(moves) /\ DOMAIN moves = 1 .. n
    BY <1>2 DEF ListInv, IsList
  <1>9. PICK m \in Nat : m = Len(N) /\ DOMAIN N = 1 .. m
    BY <1>7 DEF ListInv, IsList
  <1>10. n <= m
    BY <1>6, <1>8, <1>9 DEF Continues
  <1>11. TurnsFit(costs, m)
    BY <1>1, <1>8, <1>10 DEF TurnsFit
  <1>12. CASE Rests
    <2>1. N = moves /\ K = links /\ I = inventory
      BY <1>3, <1>4, <1>5, <1>12 DEF Rests
    <2>2. Stages(N, K, costs, I)
      BY <1>1, <2>1
    <2> QED
      BY <1>3, <1>4, <1>5, <1>9, <1>11, <2>2
  <1>13. CASE ~Rests
    <2>1. Stages(N, K, costs, I)
      <3> SUFFICES ASSUME NEW D \in SUBSET ActiveIn(costs), Later(N, costs, D), RegularFor(N, K, costs, D)
                   PROVE  StageOf(N, K, costs, Net(costs, I, D), D)
        BY DEF Stages
      <3>1. RegularStep
        <4>1. RegularIn(moves')
          BY <1>3 DEF RegularFor
        <4> QED
          BY <1>2, <4>1, RegularSteps
      <3>2. n < Len(N) /\ Len(N) \in Nat
        BY <1>2, <1>3, <1>8, <1>9, <1>13, <3>1, RowsCome
      <3>3. D = ActiveIn(costs)
        BY <1>1, <1>8, <3>2, LaterIsAll
      <3>4. D = Active /\ D \in SUBSET DOMAIN costs
        BY <3>3, ActiveIs
      <3>5. PICK h : h = Slack(moves, links, D)
        OBVIOUS
      <3>6. EndsAfter(h)
        BY <1>3, <1>4, <1>13, <3>4, <3>5, RowsEnd
      <3>7. PICK x, y : Ends(N, K, XOn(N, costs, D), I, PostedAt(costs, D), h, x, y)
        BY <1>3, <1>4, <1>5, <3>4, <3>6 DEF EndsAfter
      <3> QED
        BY <1>2, <1>6, <1>7, <3>3, <3>4, <3>5, <3>7, StageAfter
    <2> QED
      BY <1>3, <1>4, <1>5, <1>9, <1>11, <2>1
  <1> QED
    BY <1>12, <1>13

-----------------------------------------------------------------------------
(* A document is drafted, posted or reversed; the movements stay.           *)
\* The documents C and K have the members of D alike.
Alike(C, K, D) == D \subseteq DOMAIN C /\ D \subseteq DOMAIN K /\ \A e \in D : K[e] = C[e]

LEMMA RegularForAlike ==
  ASSUME NEW M, NEW L, NEW C, NEW K, NEW D, Alike(C, K, D)
  PROVE  RegularFor(M, L, K, D) <=> RegularFor(M, L, C, D)
  BY DEF Alike, RegularFor

\* Late costs depend on the shares alone.
LEMMA XAlike ==
  ASSUME NEW M, NEW C, NEW K, NEW D, D \subseteq DOMAIN C, D \subseteq DOMAIN K,
         \A e \in D : K[e].share = C[e].share
  PROVE  XOn(M, K, D) = XOn(M, C, D)
  <1>1. ASSUME NEW k
        PROVE  /\ {e \in D : k \in DOMAIN K[e].share} = {e \in D : k \in DOMAIN C[e].share}
               /\ [d \in {e \in D : k \in DOMAIN C[e].share} |-> K[d].share[k]]
                    = [d \in {e \in D : k \in DOMAIN C[e].share} |-> C[d].share[k]]
    OBVIOUS
  <1> QED
    BY <1>1 DEF XOn

LEMMA StageAlike ==
  ASSUME NEW M, NEW L, RowsFit(M), LinksFit(M, L), ListInv(M), NEW C, NEW K, NEW D, Alike(C, K, D), DocsFit(M, C),
         NEW J, NEW I, \A w \in Warehouse : J[w] = I[w], StageOf(M, L, C, I, D)
  PROVE  StageOf(M, L, K, J, D)
  <1>1. PICK X : X = XOn(M, C, D) /\ X = XOn(M, K, D)
    BY XAlike DEF Alike
  <1>2. PICK S : S = PostedAt(C, D) /\ S = PostedAt(K, D)
    BY DEF PostedAt, Alike
  <1>3. PICK h \in Nat : h = Slack(M, L, D)
    BY SlackNat DEF Alike, LinksFit
  <1>4. PICK x, y : Ends(M, L, X, I, S, h, x, y)
    BY <1>1, <1>2, <1>3 DEF StageOf
  <1>5. h <= h
    OBVIOUS
  <1>6. Ends(M, L, X, J, S, h, x, y)
    BY <1>4, <1>5, EndsWeaken
  <1> QED
    BY <1>1, <1>2, <1>3, <1>6 DEF StageOf

\* K is C with document d posted.
Turned(C, K, d) ==
  /\ DOMAIN K = DOMAIN C /\ d \in DOMAIN C
  /\ C[d].status # "POSTED" /\ K[d].status = "POSTED"
  /\ \A e \in DOMAIN C : e # d => K[e] = C[e]

LEMMA TurnedActive ==
  ASSUME NEW C, NEW K, NEW d, Turned(C, K, d)
  PROVE  d \notin ActiveIn(C) /\ ActiveIn(K) = ActiveIn(C) \cup {d} /\ Alike(C, K, ActiveIn(C))
  BY DEF Turned, ActiveIn, Alike

LEMMA PostedInt ==
  ASSUME NEW M, NEW C, DocsFit(M, C), NEW S \in SUBSET DOMAIN C, NEW w \in Warehouse
  PROVE  /\ IsFiniteSet(S) /\ IntOn([f \in S |-> C[f].posted.inventory[w]], S)
         /\ PostedOn(C, S, w) \in Int
  <1>1. IsFiniteSet(S)
    BY DocsShares, FS_Subset
  <1>2. PICK g : g = [f \in S |-> C[f].posted.inventory[w]]
    OBVIOUS
  <1>3. IntOn(g, S)
    BY <1>2 DEF IntOn, DocsFit, DocFits, JournalsFit
  <1>4. SumFunctionOnSet(g, S) \in Int
    BY <1>1, <1>3, SumInt
  <1> QED
    BY <1>1, <1>2, <1>3, <1>4 DEF PostedOn

\* What the others booked, without d and with it.
LEMMA NetTurned ==
  ASSUME NEW M, NEW C, NEW K, NEW d, Turned(C, K, d), DocsFit(M, C), DocsFit(M, K), NEW D \in SUBSET ActiveIn(C),
         NEW w \in Warehouse, NEW I, I[w] \in Int, NEW J, J[w] = I[w] + K[d].posted.inventory[w]
  PROVE  Net(K, J, D)[w] = Net(C, I, D)[w]
  <1>1. PICK S : S = ActiveIn(C) \ D
    OBVIOUS
  <1>2. PICK T : T = ActiveIn(K) \ D
    OBVIOUS
  <1>3. d \notin S /\ T = S \cup {d} /\ Alike(C, K, S) /\ T \subseteq DOMAIN K
    <2>1. d \notin ActiveIn(C) /\ ActiveIn(K) = ActiveIn(C) \cup {d} /\ Alike(C, K, ActiveIn(C))
      BY TurnedActive
    <2>2. ActiveIn(K) \subseteq DOMAIN K
      BY DEF ActiveIn
    <2> QED
      BY <1>1, <1>2, <2>1, <2>2 DEF Alike
  <1>4. PICK f : f = [e \in S |-> C[e].posted.inventory[w]]
    OBVIOUS
  <1>5. PICK g : g = [e \in T |-> K[e].posted.inventory[w]]
    OBVIOUS
  <1>6. IsFiniteSet(S) /\ IntOn(f, S) /\ PostedOn(C, S, w) \in Int
    BY <1>3, <1>4, PostedInt DEF Alike
  <1>7. IntOn(g, T)
    BY <1>3, <1>5, PostedInt
  <1>8. PICK p \in Int : p = K[d].posted.inventory[w] /\ p = g[d]
    BY <1>3, <1>5, <1>7 DEF IntOn
  <1>9. \A e \in S : g[e] = f[e]
    BY <1>3, <1>4, <1>5 DEF Alike
  <1>10. SumFunctionOnSet(g, T) = SumFunctionOnSet(f, S) + g[d]
    <2>1. d \notin S /\ T = S \cup {d} /\ g[d] \in Int
      BY <1>3, <1>8
    <2>2. IsFiniteSet(S) /\ IntOn(f, S)
      BY <1>6
    <2> QED
      BY ONLY <1>9, <2>1, <2>2, SumAdded
  <1>11. PICK r \in Int : r = PostedOn(C, S, w)
    BY <1>6
  <1>12. PostedOn(K, T, w) = r + p
    BY <1>4, <1>5, <1>8, <1>10, <1>11 DEF PostedOn
  <1>13. PICK i \in Int : i = I[w]
    OBVIOUS
  <1>14. (i + p) - (r + p) = i - r
    OBVIOUS
  <1> QED
    BY <1>1, <1>2, <1>8, <1>11, <1>12, <1>13, <1>14 DEF Net

\* Posting d, or its reversal undone, leaves the earlier stages alike.
LEMMA StageTurned ==
  ASSUME NEW M, NEW L, RowsFit(M), LinksFit(M, L), ListInv(M),
         NEW C, NEW K, NEW d, Turned(C, K, d), DocsFit(M, C), DocsFit(M, K), NEW D \in SUBSET ActiveIn(C),
         NEW I, NEW J, \A w \in Warehouse : I[w] \in Int /\ J[w] = I[w] + K[d].posted.inventory[w]
  PROVE  /\ StageOf(M, L, C, Net(C, I, D), D) <=> StageOf(M, L, K, Net(K, J, D), D)
         /\ RegularFor(M, L, C, D) <=> RegularFor(M, L, K, D)
  <1>1. Alike(C, K, D) /\ Alike(K, C, D)
    BY TurnedActive DEF Alike
  <1>2. PICK P : P = Net(C, I, D)
    OBVIOUS
  <1>3. PICK Q : Q = Net(K, J, D)
    OBVIOUS
  <1>4. \A w \in Warehouse : Q[w] = P[w] /\ P[w] = Q[w]
    <2> SUFFICES ASSUME NEW w \in Warehouse PROVE Q[w] = P[w]
      OBVIOUS
    <2>1. I[w] \in Int /\ J[w] = I[w] + K[d].posted.inventory[w]
      OBVIOUS
    <2>2. Net(K, J, D)[w] = Net(C, I, D)[w]
      BY <2>1, NetTurned
    <2> QED
      BY <1>2, <1>3, <2>2
  <1>5. StageOf(M, L, C, P, D) => StageOf(M, L, K, Q, D)
    BY <1>1, <1>4, StageAlike
  <1>6. StageOf(M, L, K, Q, D) => StageOf(M, L, C, P, D)
    BY <1>1, <1>4, StageAlike
  <1>7. RegularFor(M, L, C, D) <=> RegularFor(M, L, K, D)
    BY <1>1, RegularForAlike
  <1> QED
    BY <1>2, <1>3, <1>5, <1>6, <1>7

LEMMA StagesDraft ==
  ASSUME NEW M, NEW L, RowsFit(M), LinksFit(M, L), ListInv(M), NEW C, NEW K, NEW c, Longer(C, K, c),
         c.status = "DRAFT", c.turn = 0, c.at = 0, DocsFit(M, C), DocsFit(M, K), NEW n \in Nat, TurnsFit(C, n),
         NEW I, \A w \in Warehouse : I[w] \in Int, Stages(M, L, C, I)
  PROVE  TurnsFit(K, n) /\ Stages(M, L, K, I)
  <1>1. PICK m : m = Len(C) + 1
    OBVIOUS
  <1>2. DOMAIN K = DOMAIN C \cup {m} /\ m \notin DOMAIN C /\ K[m] = c /\ \A i \in DOMAIN C : K[i] = C[i]
    BY <1>1, Domains
  <1>3. ActiveIn(K) = ActiveIn(C) /\ \A e \in ActiveIn(C) : K[e] = C[e]
    BY <1>2 DEF ActiveIn
  <1>4. TurnsFit(K, n)
    BY <1>2, <1>3 DEF TurnsFit
  <1>5. ASSUME NEW D \in SUBSET ActiveIn(K), Later(M, K, D), RegularFor(M, L, K, D)
        PROVE  StageOf(M, L, K, Net(K, I, D), D)
    <2>1. Alike(C, K, D) /\ D \in SUBSET ActiveIn(C)
      BY <1>2, <1>3 DEF Alike, ActiveIn
    <2>2. RegularFor(M, L, C, D)
      BY <1>5, <2>1, RegularForAlike
    <2>3. Later(M, C, D)
      BY <1>3, <1>5, <2>1 DEF Later
    <2>4. StageOf(M, L, C, Net(C, I, D), D)
      BY <2>1, <2>2, <2>3 DEF Stages
    <2>5. PICK J : J = Net(C, I, D)
      OBVIOUS
    <2>6. PICK H : H = Net(K, I, D)
      OBVIOUS
    <2>7. \A w \in Warehouse : H[w] = J[w]
      <3> SUFFICES ASSUME NEW w \in Warehouse PROVE H[w] = J[w]
        OBVIOUS
      <3>1. [f \in ActiveIn(K) \ D |-> K[f].posted.inventory[w]] = [f \in ActiveIn(C) \ D |-> C[f].posted.inventory[w]]
        BY <1>3
      <3>2. PostedOn(K, ActiveIn(K) \ D, w) = PostedOn(C, ActiveIn(C) \ D, w)
        BY <1>3, <3>1 DEF PostedOn
      <3> QED
        BY <2>5, <2>6, <3>2 DEF Net
    <2>8. StageOf(M, L, C, J, D)
      BY <2>4, <2>5
    <2>9. StageOf(M, L, K, H, D)
      BY <2>1, <2>7, <2>8, StageAlike
    <2> QED
      BY <2>6, <2>9
  <1> QED
    BY <1>4, <1>5 DEF Stages

\* The turn of a posting is after those of all others.
LEMMA TurnIsLast ==
  ASSUME DocsFit(moves, costs), NEW n, TurnsFit(costs, n)
  PROVE  Turn \in Nat /\ \A d \in DOMAIN costs : costs[d].turn <= Turn
  <1>1. PICK S : S = DOMAIN costs \cup {0}
    OBVIOUS
  <1>2. IsFiniteSet(S) /\ S # {}
    <2>1. IsFiniteSet(DOMAIN costs) /\ IsFiniteSet({0})
      BY DocsShares, FS_Singleton
    <2>2. IsFiniteSet(DOMAIN costs \cup {0})
      BY <2>1, FS_Union
    <2> QED
      BY <1>1, <2>2
  <1>3. 0 \notin DOMAIN costs
    <2>1. PICK m \in Nat : m = Len(costs) /\ DOMAIN costs = 1 .. m
      BY DEF DocsFit, IsList
    <2> QED
      BY <2>1
  <1>4. PICK f : f = [x \in S |-> IF x = 0 THEN 0 ELSE costs[x].turn]
    OBVIOUS
  <1>5. \A x \in S : f[x] \in Nat
    BY <1>1, <1>4 DEF TurnsFit
  <1>6. PICK T : T = {0} \cup {costs[d].turn : d \in DOMAIN costs}
    OBVIOUS
  <1>7. T = {f[x] : x \in S}
    <2>1. f[0] = 0 /\ \A d \in DOMAIN costs : f[d] = costs[d].turn
      BY <1>1, <1>3, <1>4
    <2> QED
      BY <1>1, <1>6, <2>1
  <1>8. Extremes(T, S, f)
    BY <1>2, <1>5, <1>7, CostExtremes
  <1>9. Turn = Max(T)
    BY <1>6 DEF Turn
  <1>10. \A d \in DOMAIN costs : f[d] = costs[d].turn /\ d \in S
    BY <1>1, <1>3, <1>4
  <1> QED
    BY <1>8, <1>9, <1>10 DEF Extremes

\* A replay leaves nothing where nothing is left.
LEMMA ReplayEmpty ==
  ASSUME CostInv, NEW D \in SUBSET DOMAIN costs, NEW w \in Warehouse
  PROVE  LayeredReplay(D).basis[w] \in Nat /\ (OnHand(w) <= 0 => LayeredReplay(D).basis[w] = 0)
  <1>1. ListInv(moves) /\ CostsOK(moves) /\ Extras(D)
    BY CostInvIs, ReplaysAre
  <1>2. PICK r : LayeredPath(D, r)
    BY <1>1, LayeredWalks
  <1>3. PICK u, b : LayeredTape(D, w, u, b)
    BY <1>1, <1>2, LayeredTapes
  <1>4. PICK P : P = Revalued(D)
    OBVIOUS
  <1>5. SameStock(P) /\ CostsOK(P) /\ DOMAIN P = DOMAIN moves
    BY <1>1, <1>4, RevaluedIs
  <1>6. PICK n \in Nat : n = Len(moves)
    BY <1>1, LengthIs
  <1>7. Tape(P, Kardex, n, w, u, b) /\ LayeredReplay(D).basis[w] = b[n]
    BY <1>3, <1>4, <1>6 DEF LayeredTape
  <1>8. u[n] = OnHand(w)
    BY <1>1, <1>5, <1>6, <1>7, TapeUnits
  <1>9. Rows(P, n, Kardex)
    <2>1. \A k \in 1 .. n : Kardex[k] \in DOMAIN moves
      BY <1>1, <1>6, KardexIs DEF KardexOrders
    <2>2. \A i \in DOMAIN moves : P[i].quantity \in Int /\ P[i].quantity # 0 /\ P[i].cost \in Nat
      BY <1>1, <1>5, RowsTyped DEF RowOK, CostsOK, SameStock
    <2> QED
      BY <2>1, <2>2 DEF Rows
  <1>10. n \in 0 .. n /\ b[n] \in Nat
    BY <1>6, <1>7 DEF Tape
  <1>11. u[n] <= 0 => b[n] = 0
    BY <1>7, <1>9, <1>10, TapeBasis
  <1> QED
    BY <1>7, <1>8, <1>10, <1>11

-----------------------------------------------------------------------------
(* The stage a posting opens.                                               *)
LEMMA TwiceShare ==
  ASSUME NEW M, NEW L, NEW a, NEW b, a.share = b.share
  PROVE  TwiceIn(M, L, a) <=> TwiceIn(M, L, b)
  <1>1. \A l : ShareIn(M, a, l) = ShareIn(M, b, l)
    BY DEF ShareIn
  <1>2. SharedIn(M, L, a) = SharedIn(M, L, b)
    BY <1>1 DEF SharedIn
  <1> QED
    BY <1>2 DEF TwiceIn

\* What a posting of d books on w.
GainOf(d, w) ==
  InventoryGain(LayeredReplay(Active), LayeredReplay(Grown(Active, d)), d, w,
                Residual(LayeredReplay(Active), LayeredReplay(Grown(Active, d)), d))

\* The documents K and the accounts I are those after d was posted.
PostedAs(K, I, d) ==
  /\ Turned(costs, K, d) /\ DocsFit(moves, K)
  /\ K[d].share = costs[d].share /\ K[d].at = Len(moves) /\ K[d].turn = Turn + 1
  /\ \A w \in Warehouse : I[w] = inventory[w] + K[d].posted.inventory[w]
  /\ \A w \in Warehouse : K[d].posted.inventory[w] = GainOf(d, w)

LEMMA PostUnfolds ==
  ASSUME CostInv, NEW d \in DOMAIN costs, PostLandedCost(d)
  PROVE  PostedAs(costs', inventory', d)
  <1>1. PICK r : r = Residual(LayeredReplay(Active), LayeredReplay(Grown(Active, d)), d)
    OBVIOUS
  <1>2. PICK a : a = costs[d]
    OBVIOUS
  <1>3. a = [status |-> a.status, share |-> a.share, posted |-> a.posted,
             residual |-> a.residual, at |-> a.at, turn |-> a.turn]
    BY <1>2, CostInvIs DEF DocsFit, DocFits, IsDocument
  <1>4. PICK j : j = JournalsOf(LayeredReplay(Active), LayeredReplay(Grown(Active, d)), d)
    OBVIOUS
  <1>5. PICK b : b = [a EXCEPT !.status = "POSTED", !.posted = j, !.residual = r, !.at = Len(moves), !.turn = Turn + 1]
    OBVIOUS
  <1>6. PICK C : C = costs'
    OBVIOUS
  <1>7. PICK I : I = inventory'
    OBVIOUS
  <1>8. C = [costs EXCEPT ![d] = b]
    <2>1. costs' = [costs EXCEPT ![d].status = "POSTED", ![d].posted = j,
                                 ![d].residual = r, ![d].at = Len(moves), ![d].turn = Turn + 1]
      BY <1>1, <1>4 DEF PostLandedCost, Grown
    <2> QED
      BY <1>2, <1>5, <1>6, <2>1
  <1>9. b = [status |-> "POSTED", share |-> a.share, posted |-> j, residual |-> r, at |-> Len(moves), turn |-> Turn + 1]
    BY <1>3, <1>5
  <1>10. DOMAIN C = DOMAIN costs /\ C[d] = b /\ \A i \in DOMAIN costs : i # d => C[i] = costs[i]
    BY <1>8
  <1>11. Book(j, 1)
    BY <1>4 DEF PostLandedCost, Grown
  <1>12. I = [w \in Warehouse |-> inventory[w] + 1 * j.inventory[w]]
    BY <1>7, <1>11 DEF Book
  <1>13. j.inventory = [w \in Warehouse |-> GainOf(d, w)]
    BY <1>1, <1>4 DEF JournalsOf, GainOf
  <1>14. DocsFit(moves, C)
    <2>1. KeepsStock /\ DocsFit(moves', costs')
      BY PostStep
    <2> QED
      BY <1>6, <2>1 DEF KeepsStock
  <1>15. j.inventory \in [Warehouse -> Int]
    <2>1. JournalsFit(b.posted)
      BY <1>10, <1>14 DEF DocsFit, DocFits
    <2> QED
      BY <1>9, <2>1 DEF JournalsFit
  <1>16. \A w \in Warehouse : I[w] = inventory[w] + j.inventory[w]
    BY <1>12, <1>15
  <1>17. Turned(costs, C, d)
    BY <1>9, <1>10 DEF Turned, PostLandedCost
  <1>18. PostedAs(C, I, d)
    BY <1>2, <1>9, <1>10, <1>13, <1>14, <1>16, <1>17 DEF PostedAs
  <1> QED
    BY <1>6, <1>7, <1>18

\* What every posting starts from.
PostFrom(K, I, d) == LayerInv /\ PostedAs(K, I, d)

LEMMA PostFacts ==
  ASSUME NEW K, NEW I, NEW d, PostFrom(K, I, d)
  PROVE  /\ HistoryInv /\ CostInv /\ ListInv(moves) /\ RowsFit(moves) /\ LinksFit(moves, links)
         /\ DocsFit(moves, costs) /\ DocsFit(moves, K) /\ TurnsFit(costs, Len(moves)) /\ Len(moves) \in Nat
         /\ \A w \in Warehouse : inventory[w] \in Int /\ I[w] = inventory[w] + K[d].posted.inventory[w]
         /\ d \in DOMAIN costs /\ d \notin Active /\ Active \subseteq DOMAIN costs
         /\ ActiveIn(costs) = Active /\ ActiveIn(K) = Grown(Active, d)
         /\ Alike(costs, K, Active) /\ Grown(Active, d) \subseteq DOMAIN costs /\ DOMAIN K = DOMAIN costs
  <1>1. HistoryInv /\ CostInv /\ ListInv(moves) /\ RowsFit(moves) /\ LinksFit(moves, links) /\ DocsFit(moves, costs)
    BY FollowFacts DEF PostFrom, LayerInv
  <1>2. Len(moves) \in Nat
    BY <1>1, LengthIs
  <1>3. \A w \in Warehouse : inventory[w] \in Int
    BY FollowFacts DEF PostFrom, LayerInv
  <1>4. ActiveIn(costs) = Active /\ Active \subseteq DOMAIN costs
    BY ActiveIs
  <1>5. Turned(costs, K, d)
    BY DEF PostFrom, PostedAs
  <1>6. d \notin ActiveIn(costs) /\ ActiveIn(K) = ActiveIn(costs) \cup {d} /\ Alike(costs, K, ActiveIn(costs))
    BY <1>5, TurnedActive
  <1>7. d \in DOMAIN costs /\ DOMAIN K = DOMAIN costs
    BY <1>5 DEF Turned
  <1> QED
    BY <1>1, <1>2, <1>3, <1>4, <1>6, <1>7 DEF PostFrom, PostedAs, LayerInv, Grown

LEMMA PostRegular ==
  ASSUME NEW K, NEW I, NEW d, PostFrom(K, I, d), RegularFor(moves, links, K, Grown(Active, d))
  PROVE  RegularFor(moves, links, costs, Active) /\ RegularIn(moves) /\ ~SharesObligation(d)
  <1>1. Alike(costs, K, Active)
    BY PostFacts
  <1>2. Active \subseteq Grown(Active, d) /\ d \in Grown(Active, d)
    BY DEF Grown
  <1>3. RegularFor(moves, links, K, Active) /\ RegularIn(moves) /\ ~TwiceIn(moves, links, K[d])
    BY <1>2 DEF RegularFor
  <1>4. RegularFor(moves, links, costs, Active)
    BY <1>1, <1>3, RegularForAlike
  <1>5. TwiceIn(moves, links, K[d]) <=> TwiceIn(moves, links, costs[d])
    BY TwiceShare DEF PostFrom, PostedAs
  <1> QED
    BY <1>3, <1>4, <1>5, TwiceIs

LEMMA SlackMore ==
  ASSUME NEW M, NEW L, NEW C, ListInv(M), IsFiniteSet(L), DocsFit(M, C), NEW D \in SUBSET DOMAIN C,
         NEW d \in DOMAIN C \ D
  PROVE  Slack(M, L, Grown(D, d)) = Slack(M, L, D) + DustOf(M, L)
  <1>1. PICK n \in Nat : n = DustOf(M, L)
    BY SlackNat
  <1>2. PICK c \in Nat : c = Cardinality(D)
    BY SlackNat
  <1>3. IsFiniteSet(D)
    BY SlackNat
  <1>4. Cardinality(D \cup {d}) = c + 1
    BY <1>2, <1>3, FS_AddElement
  <1>5. n * (c + 1) = n * c + n
    BY <1>1, <1>2
  <1> QED
    BY <1>1, <1>2, <1>4, <1>5 DEF Slack, Grown

\* The account of each warehouse gains what its replay gains.
LEMMA PostStocked ==
  ASSUME NEW K, NEW I, NEW d, PostFrom(K, I, d), RegularIn(moves), ~SharesObligation(d),
         NEW h \in Nat, NEW x, NEW y, NowEnds(h, x, y), NEW w \in Warehouse,
         NEW k \in Nat, k = h + DustOf(moves, links)
  PROVE  Stocked(moves, links, w, x[w], LayeredReplay(Grown(Active, d)).basis[w], I[w], k)
  <1>1. /\ HistoryInv /\ CostInv /\ RowsFit(moves) /\ LinksFit(moves, links) /\ inventory[w] \in Int
        /\ I[w] = inventory[w] + K[d].posted.inventory[w] /\ d \in DOMAIN costs \ Active
        /\ Active \subseteq DOMAIN costs /\ Grown(Active, d) \in SUBSET DOMAIN costs
    BY PostFacts
  <1>2. Compared(Active, d)
    BY <1>1 DEF Compared
  <1>3. PICK r : r = Residual(LayeredReplay(Active), LayeredReplay(Grown(Active, d)), d)
    OBVIOUS
  <1>4. PICK v : v = InventoryGain(LayeredReplay(Active), LayeredReplay(Grown(Active, d)), d, w, r)
    OBVIOUS
  <1>5. v \in Int /\ Apart(Cent, v, BasisGain(Active, d, w), CostDust)
    BY <1>2, <1>3, <1>4, GainNear
  <1>6. K[d].posted.inventory[w] = v
    BY <1>3, <1>4 DEF PostFrom, PostedAs, GainOf
  <1>7. x[w] = OnHand(w) /\ y[w] = LayeredReplay(Active).basis[w]
    BY LayersAreReplayed DEF PostFrom, LayerInv
  <1>8. PICK b : b = LayeredReplay(Grown(Active, d)).basis[w]
    OBVIOUS
  <1>9. b \in Nat /\ (x[w] <= 0 => b = 0)
    BY <1>1, <1>7, <1>8, ReplayEmpty
  <1>10. Stocked(moves, links, w, x[w], y[w], inventory[w], h)
    BY DEF NowEnds, Ends, Backed
  <1>11. PICK z \in Int : z = inventory[w]
    BY <1>1
  <1>12. PICK a \in Nat : a = y[w]
    BY <1>10 DEF Stocked
  <1>13. PICK o \in Int : o = OwedSum(moves, links, w)
    BY <1>1, SumsAreInts
  <1>14. PICK e \in Int : e = DustSum(moves, links)
    BY <1>1, DustIs DEF CostInv
  <1>15. PICK f \in Nat : f = DustOf(moves, links)
    BY <1>1, DustNat, CostInvIs
  <1>16. Near(z, a, o, e + h)
    BY <1>10, <1>11, <1>12, <1>13, <1>14 DEF Stocked
  <1>17. PICK m \in Int : m = Cent * v - (b - a)
    BY <1>5, <1>9, StockAssumption
  <1>18. 2 * m <= f /\ -(2 * m) <= f
    BY <1>5, <1>7, <1>8, <1>12, <1>15, <1>17, CostDustIs DEF Apart, BasisGain
  <1>19. Gap(z + v, b, o) = Gap(z, a, o) + m
    <2>1. Cent * (z + v) = Cent * z + Cent * v
      BY <1>5, StockAssumption
    <2>2. PICK p \in Int : p = Cent * z
      BY StockAssumption
    <2>3. PICK q \in Int : q = Cent * v
      BY <1>5, StockAssumption
    <2> QED
      BY <1>9, <1>17, <2>1, <2>2, <2>3 DEF Gap
  <1>20. z + v \in Int /\ b \in Int /\ a \in Int /\ e + h \in Int /\ e + k \in Int /\ f \in Int /\ (e + h) + f <= e + k
    BY <1>5, <1>9, <1>15
  <1>21. Near(z + v, b, o, e + k)
    BY ONLY <1>16, <1>17, <1>18, <1>19, <1>20, NearMoves
  <1>22. I[w] = z + v
    BY <1>1, <1>6, <1>11
  <1> QED
    BY <1>8, <1>9, <1>10, <1>13, <1>14, <1>20, <1>21, <1>22 DEF Stocked

\* The replay with d lays out the movements.
LEMMA PostLaid ==
  ASSUME NEW K, NEW I, NEW d, PostFrom(K, I, d), RegularIn(moves),
         NEW h, NEW x, NEW y, NowEnds(h, x, y), NEW D, D = Grown(Active, d),
         NEW z, z = [w \in Warehouse |-> LayeredReplay(D).basis[w]]
  PROVE  \E U : AtOwn(moves, U, PostedAt(K, D)) /\ Laid(moves, XOn(moves, K, D), U, x, z)
  <1>1. /\ HistoryInv /\ D \in SUBSET DOMAIN costs /\ DOMAIN K = DOMAIN costs /\ Alike(costs, K, Active)
        /\ Len(moves) \in Nat /\ ListInv(moves)
    BY PostFacts
  <1>2. K[d].share = costs[d].share /\ K[d].at = Len(moves)
    BY DEF PostFrom, PostedAs
  <1>3. \A e \in D : K[e].share = costs[e].share
    BY <1>1, <1>2 DEF Alike, Grown
  <1>4. PICK X : X = XOn(moves, K, D) /\ X = XOn(moves, costs, D)
    BY <1>1, <1>3, XAlike
  <1>5. PICK U : U = LayeredReplay(D).unit
    OBVIOUS
  <1>6. Laid(moves, X, U, x, z)
    <2> SUFFICES ASSUME NEW w \in Warehouse
                 PROVE  \E u, b : LaidIn(moves, X, U, w, u, b) /\ u[Len(moves)] = x[w] /\ b[Len(moves)] = z[w]
      BY DEF Laid
    <2>1. PICK u, b : /\ LaidIn(moves, X, U, w, u, b)
                      /\ u[Len(moves)] = OnHand(w) /\ b[Len(moves)] = LayeredReplay(D).basis[w]
      BY <1>1, <1>4, <1>5, ReplayLaid
    <2>2. x[w] = OnHand(w)
      BY LayersAreReplayed DEF PostFrom, LayerInv
    <2> QED
      BY <2>1, <2>2
  <1>7. AtOwn(moves, U, PostedAt(K, D))
    <2>1. Len(moves) \in PostedAt(K, D)
      BY <1>2 DEF PostedAt, Grown
    <2>2. \A k \in DOMAIN moves : k \in Nat /\ ~(Len(moves) < k)
      BY <1>1, LengthIs
    <2> QED
      BY <2>1, <2>2 DEF AtOwn
  <1> QED
    BY <1>4, <1>6, <1>7

LEMMA PostStage ==
  ASSUME NEW K, NEW I, NEW d, PostFrom(K, I, d), NEW D, D = ActiveIn(K), RegularFor(moves, links, K, D)
  PROVE  StageOf(moves, links, K, Net(K, I, D), D)
  <1>1. /\ D = Grown(Active, d) /\ DocsFit(moves, costs) /\ DocsFit(moves, K) /\ ListInv(moves) /\ RowsFit(moves)
        /\ LinksFit(moves, links) /\ Active \in SUBSET DOMAIN costs /\ d \in DOMAIN costs \ Active
        /\ IsFiniteSet(links)
    BY PostFacts DEF LinksFit
  <1>2. RegularFor(moves, links, costs, Active) /\ RegularIn(moves) /\ ~SharesObligation(d)
    BY <1>1, PostRegular
  <1>3. PICK h \in Nat : h = Slack(moves, links, Active)
    BY <1>1, SlackNat
  <1>4. PICK f \in Nat : f = DustOf(moves, links)
    BY <1>1, SlackNat
  <1>5. PICK k \in Nat : k = h + f
    BY <1>3, <1>4
  <1>6. Slack(moves, links, D) = k
    BY <1>1, <1>3, <1>4, <1>5, SlackMore
  <1>7. PICK x, y : NowEnds(h, x, y)
    BY <1>2, <1>3, NowStands DEF PostFrom
  <1>8. PICK z : z = [w \in Warehouse |-> LayeredReplay(D).basis[w]]
    OBVIOUS
  <1>9. Backed(moves, links, I, k, x, z)
    <2> SUFFICES ASSUME NEW w \in Warehouse PROVE Stocked(moves, links, w, x[w], z[w], I[w], k)
      BY DEF Backed
    <2>1. Stocked(moves, links, w, x[w], LayeredReplay(Grown(Active, d)).basis[w], I[w], k)
      BY <1>2, <1>4, <1>5, <1>7, PostStocked
    <2> QED
      BY <1>1, <1>8, <2>1
  <1>10. \E U : AtOwn(moves, U, PostedAt(K, D)) /\ Laid(moves, XOn(moves, K, D), U, x, z)
    BY <1>1, <1>2, <1>7, <1>8, PostLaid
  <1>11. PICK X : X = XOn(moves, K, D)
    OBVIOUS
  <1>12. PICK S : S = PostedAt(K, D)
    OBVIOUS
  <1>13. Ends(moves, links, X, I, S, k, x, z)
    BY <1>9, <1>10, <1>11, <1>12 DEF Ends
  <1>14. PICK J : J = Net(K, I, D)
    OBVIOUS
  <1>15. \A w \in Warehouse : J[w] = I[w]
    <2> SUFFICES ASSUME NEW w \in Warehouse PROVE J[w] = I[w]
      OBVIOUS
    <2>1. Stocked(moves, links, w, x[w], z[w], I[w], k)
      BY <1>9 DEF Backed
    <2>2. I[w] \in Int
      BY <2>1 DEF Stocked
    <2>3. Net(K, I, ActiveIn(K))[w] = I[w]
      BY <2>2, NetOfAll
    <2> QED
      BY <1>14, <2>3
  <1>16. k <= k
    OBVIOUS
  <1>17. Ends(moves, links, X, J, S, k, x, z)
    BY <1>1, <1>13, <1>15, <1>16, EndsWeaken
  <1> QED
    BY <1>6, <1>11, <1>12, <1>14, <1>17 DEF StageOf

\* The stages before a posting, and the one it opens.
LEMMA StagesPost ==
  ASSUME NEW K, NEW I, NEW d, PostFrom(K, I, d)
  PROVE  TurnsFit(K, Len(moves)) /\ Stages(moves, links, K, I)
  <1>1. /\ DocsFit(moves, costs) /\ DocsFit(moves, K) /\ ListInv(moves) /\ RowsFit(moves) /\ LinksFit(moves, links)
        /\ TurnsFit(costs, Len(moves)) /\ Len(moves) \in Nat /\ ActiveIn(costs) = Active
        /\ ActiveIn(K) = Grown(Active, d) /\ Alike(costs, K, Active) /\ d \notin Active
        /\ \A w \in Warehouse : inventory[w] \in Int /\ I[w] = inventory[w] + K[d].posted.inventory[w]
    BY PostFacts
  <1>2. Turned(costs, K, d) /\ K[d].at = Len(moves) /\ K[d].turn = Turn + 1
    BY DEF PostFrom, PostedAs
  <1>3. Turn \in Nat /\ \A e \in DOMAIN costs : costs[e].turn <= Turn
    BY <1>1, TurnIsLast
  <1>4. PICK t \in Nat : t = Turn
    BY <1>3
  <1>5. K[d].turn = t + 1 /\ \A e \in DOMAIN costs : costs[e].turn \in Nat /\ costs[e].turn <= t
    BY <1>1, <1>2, <1>3, <1>4 DEF TurnsFit
  <1>6. DOMAIN K = DOMAIN costs /\ d \in DOMAIN costs /\ \A e \in DOMAIN costs : e # d => K[e] = costs[e]
    BY <1>2 DEF Turned
  <1>7. ASSUME NEW e \in DOMAIN K
        PROVE  K[e].turn \in Nat /\ K[e].at \in 0 .. Len(moves) /\ (e # d => K[e].turn < K[d].turn)
    <2>1. CASE e = d
      BY <1>1, <1>2, <1>5, <2>1
    <2>2. CASE e # d
      <3>1. costs[e].turn \in Nat /\ costs[e].at \in 0 .. Len(moves) /\ costs[e].turn <= t
        BY <1>1, <1>5, <1>6 DEF TurnsFit
      <3> QED
        BY <1>5, <1>6, <2>2, <3>1
    <2> QED
      BY <2>1, <2>2
  <1>8. TurnsFit(K, Len(moves))
    <2> SUFFICES ASSUME NEW a \in ActiveIn(K), NEW b \in ActiveIn(K), a # b PROVE K[a].turn # K[b].turn
      BY <1>7 DEF TurnsFit
    <2>1. a \in DOMAIN K /\ b \in DOMAIN K
      BY DEF ActiveIn
    <2>2. CASE a # d /\ b # d
      <3>1. a \in Active /\ b \in Active
        BY <1>1, <2>2 DEF Grown
      <3> QED
        BY <1>1, <1>6, <2>1, <2>2, <3>1 DEF TurnsFit
    <2>3. CASE a = d \/ b = d
      BY <1>7, <2>1, <2>3
    <2> QED
      BY <2>2, <2>3
  <1>9. ASSUME NEW D \in SUBSET ActiveIn(K), Later(moves, K, D), RegularFor(moves, links, K, D), d \in D
        PROVE  StageOf(moves, links, K, Net(K, I, D), D)
    <2>1. D = ActiveIn(K)
      <3> SUFFICES ASSUME NEW f \in ActiveIn(K) \ D PROVE FALSE
        OBVIOUS
      <3>1. K[d].turn < K[f].turn
        BY <1>9 DEF Later
      <3>2. f # d /\ f \in DOMAIN K
        BY <1>9 DEF ActiveIn
      <3>3. K[f].turn < K[d].turn /\ K[f].turn \in Nat /\ K[d].turn \in Nat
        BY <1>6, <1>7, <3>2
      <3> QED
        BY <3>1, <3>3
    <2> QED
      BY <1>9, <2>1, PostStage
  <1>10. ASSUME NEW D \in SUBSET ActiveIn(K), Later(moves, K, D), RegularFor(moves, links, K, D), d \notin D
         PROVE  StageOf(moves, links, K, Net(K, I, D), D)
    <2>1. D \in SUBSET ActiveIn(costs) /\ Alike(costs, K, ActiveIn(costs))
      BY <1>1, <1>10 DEF Grown
    <2>2. /\ StageOf(moves, links, costs, Net(costs, inventory, D), D) <=> StageOf(moves, links, K, Net(K, I, D), D)
          /\ RegularFor(moves, links, costs, D) <=> RegularFor(moves, links, K, D)
      BY <1>1, <1>2, <2>1, StageTurned
    <2>3. Later(moves, costs, D)
      <3> SUFFICES ASSUME NEW f \in ActiveIn(costs) \ D
                   PROVE  costs[f].at = Len(moves) /\ \A e \in D : costs[e].turn < costs[f].turn
        BY DEF Later
      <3>1. f \in ActiveIn(K) \ D
        BY <1>1 DEF Grown
      <3>2. K[f].at = Len(moves) /\ \A e \in D : K[e].turn < K[f].turn
        BY <1>10, <3>1 DEF Later
      <3> QED
        BY <2>1, <3>2 DEF Alike
    <2>4. StageOf(moves, links, costs, Net(costs, inventory, D), D)
      BY <1>10, <2>1, <2>2, <2>3 DEF PostFrom, LayerInv, Stages
    <2> QED
      BY <2>2, <2>4
  <1> QED
    BY <1>8, <1>9, <1>10 DEF Stages

-----------------------------------------------------------------------------
(* A reversal ends the last stage.                                          *)
\* The documents C and the accounts I are those after d was reversed.
UndoneAs(C, I, d) ==
  /\ Turned(C, costs, d) /\ DocsFit(moves, C) /\ Untouched(d)
  /\ C[d].at = costs[d].at /\ C[d].turn = costs[d].turn
  /\ \A w \in Warehouse : I[w] \in Int /\ inventory[w] = I[w] + costs[d].posted.inventory[w]

LEMMA ReverseUnfolds ==
  ASSUME CostInv, NEW d \in Active, ReverseLandedCost(d), Untouched(d)
  PROVE  UndoneAs(costs', inventory', d)
  <1>1. PICK a : a = costs[d] /\ d \in DOMAIN costs /\ a.status = "POSTED"
    BY DEF Active
  <1>2. /\ a = [status |-> a.status, share |-> a.share, posted |-> a.posted,
                residual |-> a.residual, at |-> a.at, turn |-> a.turn]
        /\ JournalsFit(a.posted)
    BY <1>1, CostInvIs DEF DocsFit, DocFits, IsDocument
  <1>3. PICK b : b = [a EXCEPT !.status = "REVERSED"]
    OBVIOUS
  <1>4. PICK C : C = costs'
    OBVIOUS
  <1>5. PICK I : I = inventory'
    OBVIOUS
  <1>6. C = [costs EXCEPT ![d] = b]
    BY <1>1, <1>3, <1>4 DEF ReverseLandedCost
  <1>7. b.status = "REVERSED" /\ b.at = a.at /\ b.turn = a.turn
    BY <1>2, <1>3
  <1>8. DOMAIN C = DOMAIN costs /\ C[d] = b /\ \A i \in DOMAIN costs : i # d => C[i] = costs[i]
    BY <1>1, <1>6
  <1>9. I = [w \in Warehouse |-> inventory[w] + (-1) * a.posted.inventory[w]]
    BY <1>1, <1>5 DEF ReverseLandedCost, Book
  <1>10. inventory \in [Warehouse -> Int]
    BY ValueInvIs DEF CostInv, TypedBooks
  <1>11. \A w \in Warehouse : I[w] \in Int /\ inventory[w] = I[w] + a.posted.inventory[w]
    <2> SUFFICES ASSUME NEW w \in Warehouse PROVE I[w] \in Int /\ inventory[w] = I[w] + a.posted.inventory[w]
      OBVIOUS
    <2>1. PICK p \in Int : p = a.posted.inventory[w]
      BY <1>2 DEF JournalsFit
    <2>2. PICK i \in Int : i = inventory[w]
      BY <1>10
    <2>3. I[w] = i + (-1) * p
      BY <1>9, <2>1, <2>2
    <2> QED
      BY <2>1, <2>2, <2>3
  <1>12. DocsFit(moves, C)
    <2>1. KeepsStock /\ DocsFit(moves', costs')
      BY <1>1, ReverseStep
    <2> QED
      BY <1>4, <2>1 DEF KeepsStock
  <1>13. Turned(C, costs, d)
    BY <1>1, <1>7, <1>8 DEF Turned
  <1>14. UndoneAs(C, I, d)
    BY <1>1, <1>7, <1>8, <1>11, <1>12, <1>13 DEF UndoneAs
  <1> QED
    BY <1>4, <1>5, <1>14

LEMMA StagesReverse ==
  ASSUME LayerInv, NEW C, NEW I, NEW d, UndoneAs(C, I, d)
  PROVE  TurnsFit(C, Len(moves)) /\ Stages(moves, links, C, I)
  <1>1. /\ DocsFit(moves, costs) /\ ListInv(moves) /\ RowsFit(moves) /\ LinksFit(moves, links)
        /\ TurnsFit(costs, Len(moves)) /\ ActiveIn(costs) = Active
    BY FollowFacts, ActiveIs DEF LayerInv
  <1>2. /\ Turned(C, costs, d) /\ DocsFit(moves, C) /\ Untouched(d)
        /\ C[d].at = costs[d].at /\ C[d].turn = costs[d].turn
        /\ \A w \in Warehouse : I[w] \in Int /\ inventory[w] = I[w] + costs[d].posted.inventory[w]
    BY DEF UndoneAs
  <1>3. d \notin ActiveIn(C) /\ ActiveIn(costs) = ActiveIn(C) \cup {d} /\ Alike(C, costs, ActiveIn(C))
    BY <1>2, TurnedActive
  <1>4. DOMAIN C = DOMAIN costs /\ d \in DOMAIN costs /\ \A e \in DOMAIN C : e # d => costs[e] = C[e]
    BY <1>2 DEF Turned
  <1>5. \A e \in DOMAIN C : C[e].at = costs[e].at /\ C[e].turn = costs[e].turn
    BY <1>2, <1>4
  <1>6. TurnsFit(C, Len(moves))
    <2>1. \A e \in DOMAIN C : C[e].turn \in Nat /\ C[e].at \in 0 .. Len(moves)
      BY <1>1, <1>4, <1>5 DEF TurnsFit
    <2>2. ASSUME NEW e \in ActiveIn(C), NEW f \in ActiveIn(C), e # f PROVE C[e].turn # C[f].turn
      <3>1. e \in ActiveIn(costs) /\ f \in ActiveIn(costs) /\ e \in DOMAIN C /\ f \in DOMAIN C
        BY <1>3 DEF ActiveIn
      <3>2. costs[e].turn # costs[f].turn
        BY <1>1, <2>2, <3>1 DEF TurnsFit
      <3> QED
        BY <1>5, <3>1, <3>2
    <2> QED
      BY <2>1, <2>2 DEF TurnsFit
  <1>7. ASSUME NEW D \in SUBSET ActiveIn(C), Later(moves, C, D), RegularFor(moves, links, C, D)
        PROVE  StageOf(moves, links, C, Net(C, I, D), D)
    <2>1. D \in SUBSET ActiveIn(costs) /\ d \notin D
      BY <1>3
    <2>2. ASSUME NEW e \in D PROVE costs[e].turn < costs[d].turn
      <3>1. e \in Active /\ e # d /\ d \in Active /\ e \in DOMAIN costs
        BY <1>1, <1>3, <2>1 DEF ActiveIn
      <3>2. costs[e].turn \in Nat /\ costs[d].turn \in Nat /\ costs[e].turn # costs[d].turn
        BY <1>1, <1>4, <3>1 DEF TurnsFit
      <3>3. costs[e].turn <= costs[d].turn
        BY <1>2, <3>1 DEF Untouched
      <3> QED
        BY <3>2, <3>3
    <2>3. Later(moves, costs, D)
      <3> SUFFICES ASSUME NEW f \in ActiveIn(costs) \ D
                   PROVE  costs[f].at = Len(moves) /\ \A e \in D : costs[e].turn < costs[f].turn
        BY DEF Later
      <3>1. CASE f = d
        BY <1>2, <2>2, <3>1 DEF Untouched
      <3>2. CASE f # d
        <4>1. f \in ActiveIn(C) \ D /\ f \in DOMAIN C
          BY <1>3, <3>2 DEF ActiveIn
        <4>2. C[f].at = Len(moves) /\ \A e \in D : C[e].turn < C[f].turn
          BY <1>7, <4>1 DEF Later
        <4>3. \A e \in D : e \in DOMAIN C
          BY DEF ActiveIn
        <4> QED
          BY <1>5, <4>1, <4>2, <4>3
      <3> QED
        BY <3>1, <3>2
    <2>4. /\ StageOf(moves, links, C, Net(C, I, D), D) <=> StageOf(moves, links, costs, Net(costs, inventory, D), D)
          /\ RegularFor(moves, links, C, D) <=> RegularFor(moves, links, costs, D)
      BY <1>1, <1>2, <1>7, StageTurned
    <2>5. RegularFor(moves, links, costs, D)
      BY <1>7, <2>4
    <2>6. StageOf(moves, links, costs, Net(costs, inventory, D), D)
      BY <2>1, <2>3, <2>5 DEF LayerInv, Stages
    <2> QED
      BY <2>4, <2>6
  <1> QED
    BY <1>6, <1>7 DEF Stages

-----------------------------------------------------------------------------
(* Every step.                                                              *)
\* What a step of the documents has to leave.
StagesAfter == TurnsFit(costs', Len(moves)) /\ Stages(moves, links, costs', inventory')

LEMMA DraftStages ==
  ASSUME LayerInv, NEW rs, NEW weights, NEW amount, CreateDraft(rs, weights, amount), DocsFit(moves', costs')
  PROVE  StagesAfter
  <1>1. /\ DocsFit(moves, costs) /\ ListInv(moves) /\ RowsFit(moves) /\ LinksFit(moves, links)
        /\ TurnsFit(costs, Len(moves)) /\ Stages(moves, links, costs, inventory) /\ Len(moves) \in Nat
        /\ \A w \in Warehouse : inventory[w] \in Int
    BY FollowFacts, LengthIs DEF LayerInv
  <1>2. PICK c : costs' = Append(costs, c) /\ c.status = "DRAFT" /\ c.turn = 0 /\ c.at = 0
    <2>1. PICK shares : shares = Shares(amount, weights)
      OBVIOUS
    <2>2. PICK share : share = [r \in ToSet(rs) |-> shares[CHOOSE k \in DOMAIN rs : rs[k] = r]]
      OBVIOUS
    <2>3. PICK c : c = [status |-> "DRAFT", share |-> share,
                        posted |-> NoJournals, residual |-> 0, at |-> 0, turn |-> 0]
      OBVIOUS
    <2>4. costs' = Append(costs, c)
      BY <2>1, <2>2, <2>3 DEF CreateDraft
    <2> QED
      BY <2>3, <2>4
  <1>3. PICK K : K = Append(costs, c) /\ Longer(costs, K, c)
    BY <1>1, AppendIsLonger DEF DocsFit
  <1>4. moves' = moves /\ inventory' = inventory
    BY DEF CreateDraft, accounts
  <1>5. DocsFit(moves, K)
    <2>1. costs' = K
      BY <1>2, <1>3
    <2> QED
      BY <1>4, <2>1
  <1>6. TurnsFit(K, Len(moves)) /\ Stages(moves, links, K, inventory)
    BY <1>1, <1>2, <1>3, <1>5, StagesDraft
  <1> QED
    BY <1>2, <1>3, <1>4, <1>6 DEF StagesAfter

LEMMA PostStages ==
  ASSUME LayerInv, NEW d \in DOMAIN costs, PostLandedCost(d)
  PROVE  StagesAfter
  <1>1. PICK K : K = costs'
    OBVIOUS
  <1>2. PICK I : I = inventory'
    OBVIOUS
  <1>3. PostedAs(costs', inventory', d)
    BY FollowFacts, PostUnfolds DEF LayerInv
  <1>4. PostFrom(K, I, d)
    BY <1>1, <1>2, <1>3 DEF PostFrom
  <1>5. TurnsFit(K, Len(moves)) /\ Stages(moves, links, K, I)
    BY <1>4, StagesPost
  <1> QED
    BY <1>1, <1>2, <1>5 DEF StagesAfter

LEMMA ReverseStages ==
  ASSUME LayerInv, NEW d \in Active, ReverseLandedCost(d), Untouched(d)
  PROVE  StagesAfter
  <1>1. PICK K : K = costs'
    OBVIOUS
  <1>2. PICK I : I = inventory'
    OBVIOUS
  <1>3. UndoneAs(costs', inventory', d)
    BY FollowFacts, ReverseUnfolds DEF LayerInv
  <1>4. UndoneAs(K, I, d)
    BY <1>1, <1>2, <1>3
  <1>5. TurnsFit(K, Len(moves)) /\ Stages(moves, links, K, I)
    BY <1>4, StagesReverse
  <1> QED
    BY <1>1, <1>2, <1>5 DEF StagesAfter

LEMMA LayerInvStep ==
  ASSUME LayerInv, checked \subseteq Active, [CostNext]_costVars, overtaken' = {}
  PROVE  LayerInv'
  <1>1. CostInv /\ FollowInv
    BY FollowFacts DEF LayerInv
  <1>2. FollowInv'
    BY <1>1, FollowInvStep
  <1>3. CASE BookStep
    <2>1. KeepsStock /\ DocsFit(moves', costs')
      BY <1>1, <1>3, BookStepIs
    <2>2. StagesAfter
      <3>1. ASSUME NEW r \in DOMAIN moves, NEW amount \in Amount, CreateDraft(<<r>>, << 1 >>, amount)
            PROVE  StagesAfter
        BY <2>1, <3>1, DraftStages
      <3>2. ASSUME NEW r \in DOMAIN moves, NEW s \in DOMAIN moves, NEW amount \in Amount,
                   NEW v \in Weight, NEW w \in Weight, CreateDraft(<<r, s>>, <<v, w>>, amount)
            PROVE  StagesAfter
        BY <2>1, <3>2, DraftStages
      <3>3. ASSUME NEW d \in DOMAIN costs, PostLandedCost(d) PROVE StagesAfter
        BY <3>3, PostStages
      <3>4. ASSUME NEW d \in DOMAIN costs, ReverseLandedCost(d) PROVE StagesAfter
        <4>1. d \in Active /\ Untouched(d)
          BY <3>4 DEF ReverseLandedCost
        <4> QED
          BY <3>4, <4>1, ReverseStages
      <3> QED
        BY <1>3, <3>1, <3>2, <3>3, <3>4 DEF BookStep
    <2> QED
      BY <1>2, <2>1, <2>2 DEF LayerInv, StagesAfter, KeepsStock
  <1>4. CASE [Next]_vars
    <2>1. TurnsFit(costs, Len(moves')) /\ Stages(moves', links', costs, inventory')
      BY <1>2, <1>4, StagesKeep
    <2>2. costs' = costs
      BY <1>1, <1>4, ValueStep DEF CostInv
    <2> QED
      BY <1>2, <2>1, <2>2 DEF LayerInv
  <1>5. BookStep \/ [Next]_vars
    BY StepCases
  <1> QED
    BY <1>3, <1>4, <1>5

\* A document under reversal stays posted, and what was overtaken stays so.
OpenInv == FollowInv /\ checked \subseteq Active /\ (overtaken = {} => LayerInv)

LEMMA CheckedStep ==
  ASSUME CostInv, checked \subseteq Active, [CostNext]_costVars
  PROVE  checked' \subseteq Active' /\ (overtaken' = {} => overtaken = {})
  <1>1. PICK C : C = costs'
    OBVIOUS
  <1>2. DocsFit(moves, costs)
    BY CostInvIs
  <1>3. ASSUME NEW rs, NEW weights, NEW amount, CreateDraft(rs, weights, amount)
        PROVE  checked' = checked /\ overtaken' = overtaken /\ checked \subseteq ActiveIn(C)
    <2>1. PICK c : C = Append(costs, c)
      BY <1>1, <1>3 DEF CreateDraft
    <2>2. Longer(costs, C, c)
      BY <1>2, <2>1, AppendIsLonger DEF DocsFit
    <2>3. DOMAIN costs \subseteq DOMAIN C /\ \A e \in DOMAIN costs : C[e] = costs[e]
      BY <2>2, Domains
    <2> QED
      BY <1>3, <2>3 DEF CreateDraft, reversals, Active, ActiveIn
  <1>4. ASSUME NEW d \in DOMAIN costs, PostLandedCost(d)
        PROVE  checked' = checked /\ overtaken' = overtaken /\ checked \subseteq ActiveIn(C)
    <2>1. DOMAIN C = DOMAIN costs /\ \A e \in DOMAIN costs : e # d => C[e] = costs[e]
      BY <1>1, <1>4 DEF PostLandedCost
    <2>2. d \notin checked
      BY <1>4 DEF PostLandedCost, Active
    <2> QED
      BY <1>4, <2>1, <2>2 DEF PostLandedCost, reversals, Active, ActiveIn
  <1>5. ASSUME NEW d \in DOMAIN costs, BeginReverse(d)
        PROVE  checked' \subseteq ActiveIn(C) /\ overtaken' = overtaken
    BY <1>1, <1>5 DEF BeginReverse, vars, Active, ActiveIn
  <1>6. ASSUME NEW d \in DOMAIN costs, ReverseLandedCost(d)
        PROVE  checked' \subseteq ActiveIn(C) /\ overtaken \subseteq overtaken'
    <2>1. DOMAIN C = DOMAIN costs /\ \A e \in DOMAIN costs : e # d => C[e] = costs[e]
      BY <1>1, <1>6 DEF ReverseLandedCost
    <2> QED
      BY <1>6, <2>1 DEF ReverseLandedCost, Active, ActiveIn
  <1>7. CASE [Next]_vars /\ UNCHANGED reversals
    <2>1. C = costs
      BY <1>1, <1>7, ValueStep DEF CostInv
    <2> QED
      BY <1>1, <1>7, <2>1 DEF reversals, Active
  <1>8. CASE CostStep
    <2>1. checked' \subseteq ActiveIn(C) /\ overtaken \subseteq overtaken'
      BY <1>3, <1>4, <1>5, <1>6, <1>8 DEF CostStep
    <2> QED
      BY <1>1, <2>1 DEF Active, ActiveIn
  <1>9. CostStep \/ ([Next]_vars /\ UNCHANGED reversals)
    BY DEF CostNext, Next, costVars
  <1> QED
    BY <1>7, <1>8, <1>9

LEMMA LayerInvInit == Init => LayerInv
  <1> SUFFICES ASSUME Init PROVE LayerInv
    OBVIOUS
  <1>1. moves = << >> /\ costs = << >> /\ DOMAIN moves = {} /\ DOMAIN costs = {} /\ Len(moves) = 0
    BY DEF Init
  <1>2. HistoryInv /\ CostInv
    BY CostInvInit, HistoryInit DEF HistoryInv
  <1>3. FollowInv
    BY <1>1, <1>2 DEF FollowInv, FollowsIn
  <1>4. TurnsFit(costs, Len(moves)) /\ ActiveIn(costs) = {}
    BY <1>1 DEF TurnsFit, ActiveIn
  <1>5. PICK D : D = {}
    OBVIOUS
  <1>6. PICK J : J = Net(costs, inventory, D)
    OBVIOUS
  <1>7. PICK x : x = [w \in Warehouse |-> 0]
    OBVIOUS
  <1>8. Slack(moves, links, D) = 0
    <2>1. DustOf(moves, links) \in Nat
      BY <1>2, DustNat, CostInvIs
    <2>2. Cardinality(D) = 0
      BY <1>5, FS_EmptySet
    <2> QED
      BY <2>1, <2>2 DEF Slack
  <1>9. Backed(moves, links, J, 0, x, x)
    <2> SUFFICES ASSUME NEW w \in Warehouse PROVE Stocked(moves, links, w, 0, 0, J[w], 0)
      BY <1>7 DEF Backed
    <2>1. Stocked(moves, links, w, 0, 0, inventory[w], 0)
      BY StartsTied DEF Ties
    <2>2. inventory[w] \in Int
      BY <2>1 DEF Stocked
    <2>3. J[w] = inventory[w]
      BY <1>4, <1>5, <1>6, <2>2, NetOfAll
    <2> QED
      BY <2>1, <2>3
  <1>10. PICK X : X = XOn(moves, costs, D)
    OBVIOUS
  <1>11. AtOwn(moves, X, PostedAt(costs, D))
    BY <1>1 DEF AtOwn
  <1>12. Laid(moves, X, X, x, x)
    <2> SUFFICES ASSUME NEW w \in Warehouse
                 PROVE  \E u, b : LaidIn(moves, X, X, w, u, b) /\ u[Len(moves)] = x[w] /\ b[Len(moves)] = x[w]
      BY DEF Laid
    <2>1. PICK u : u = [k \in 0 .. 0 |-> 0]
      OBVIOUS
    <2>2. u \in [0 .. 0 -> Int] /\ u \in [0 .. 0 -> Nat] /\ u[0] = 0 /\ 1 .. 0 = {}
      BY <2>1
    <2>3. LaidIn(moves, X, X, w, u, u)
      BY <1>1, <2>2 DEF LaidIn, UnitsTape
    <2> QED
      BY <1>1, <1>7, <2>2, <2>3
  <1>13. Ends(moves, links, X, J, PostedAt(costs, D), 0, x, x)
    BY <1>9, <1>11, <1>12 DEF Ends
  <1>14. StageOf(moves, links, costs, J, D)
    BY <1>8, <1>10, <1>13 DEF StageOf
  <1>15. Stages(moves, links, costs, inventory)
    <2>1. \A S \in SUBSET ActiveIn(costs) : S = D
      BY <1>4, <1>5
    <2>2. StageOf(moves, links, costs, Net(costs, inventory, D), D)
      BY <1>6, <1>14
    <2> QED
      BY <2>1, <2>2 DEF Stages
  <1> QED
    BY <1>3, <1>4, <1>15 DEF LayerInv

LEMMA OpenInvStep == OpenInv /\ [CostNext]_costVars => OpenInv'
  <1> SUFFICES ASSUME OpenInv, [CostNext]_costVars PROVE OpenInv'
    OBVIOUS
  <1>1. FollowInv /\ CostInv /\ checked \subseteq Active /\ (overtaken = {} => LayerInv)
    BY DEF OpenInv, FollowInv, HistoryInv
  <1>2. FollowInv' /\ checked' \subseteq Active' /\ (overtaken' = {} => overtaken = {})
    BY <1>1, FollowInvStep, CheckedStep
  <1>3. ASSUME overtaken' = {} PROVE LayerInv'
    BY <1>1, <1>2, <1>3, LayerInvStep
  <1> QED
    BY <1>2, <1>3 DEF OpenInv

LEMMA OpenInvHolds == CostSpec => []OpenInv
  <1>1. CostInit => OpenInv
    BY LayerInvInit DEF CostInit, OpenInv, LayerInv
  <1> QED
    BY <1>1, OpenInvStep, PTL DEF CostSpec

LEMMA RegularCostsIs ==
  ASSUME RegularCosts
  PROVE  RegularFor(moves, links, costs, Active)
  <1>1. RegularIn(moves)
    BY RegularIs DEF RegularCosts
  <1>2. \A d \in Active : ~TwiceIn(moves, links, costs[d])
    BY TwiceIs DEF RegularCosts
  <1>3. \A k \in DOMAIN moves : moves[k].type = "SALES_RETURN" => \A d \in Active : ~(costs[d].at \in moves[k].src .. (k - 1))
    BY DEF RegularCosts, ReturnedAtOldCost, Is
  <1> QED
    BY <1>1, <1>2, <1>3 DEF RegularFor

\* In a regular history with late costs the account of every warehouse is the
\* basis the valuation gives its stock, less what open obligations took at
\* temporary costs, to the dust of the movements and of each posted document:
\* what post_landed_cost books is what its replay adds to the stock, the
\* movements after it are valued on the changed layers, and
\* reverse_landed_cost gives back the accounts as they stood, as long as
\* nothing commits between its check and its own commit.
THEOREM LayeredInventoryAlwaysTies == CostSpec => []LayeredInventoryTies
  <1>1. OpenInv => LayeredInventoryTies
    <2> SUFFICES ASSUME OpenInv, RegularCosts, NEW w \in Warehouse
                 PROVE  LET basis == Valuation.basis
                            owed(v) == SumOf(Obligations(v), LAMBDA i : Open(i) * moves[i].cost)
                        IN 2 * Absolute(Cent * inventory[w] - (basis[w] - owed(w)))
                             <= Dust + CostDust * Cardinality(Active)
      BY DEF LayeredInventoryTies
    <2>0. LayerInv
      BY DEF OpenInv, RegularCosts
    <2>1. ValueInv /\ FollowInv
      BY <2>0, FollowFacts DEF LayerInv
    <2>2. RegularFor(moves, links, costs, Active) /\ RegularIn(moves)
      BY RegularCostsIs DEF RegularFor
    <2>3. PICK h : h = Slack(moves, links, Active)
      OBVIOUS
    <2>4. PICK x, y : NowEnds(h, x, y)
      BY <2>0, <2>2, <2>3, NowStands
    <2>5. y[w] = Valuation.basis[w]
      BY <2>1, <2>2, <2>4, LayersAreValued
    <2>6. Near(inventory[w], y[w], OwedSum(moves, links, w), DustSum(moves, links) + h)
      BY <2>4 DEF NowEnds, Ends, Backed, Stocked
    <2>7. SumOf(Obligations(w), LAMBDA i : Open(i) * moves[i].cost) = OwedSum(moves, links, w)
      BY <2>1, OwedIs
    <2>8. h = CostDust * Cardinality(Active)
      BY <2>3, CostDustIs DEF Slack
    <2>9. DustSum(moves, links) = Dust
      BY <2>1, DustIs
    <2> QED
      BY <2>5, <2>6, <2>7, <2>8, <2>9 DEF Near, Gap
  <1> QED
    BY <1>1, OpenInvHolds, PTL
=============================================================================
