-------------------------- MODULE StockValuationProofs --------------------------
(***************************************************************************)
(* Proofs about the valuation of Stock: what avco_for computes, for any    *)
(* number of movements in any order of dates.  The Kardex is a permutation *)
(* of the movements (KardexIs) and the fold over it a path of states       *)
(* (PlainWalks); what happens to one warehouse on that path is a tape of   *)
(* its units and their cost basis (Tape, PlainTape), and the properties of *)
(* the valuation are proved step by step along a tape.  With landed costs  *)
(* the layered replay is such a path too (LayeredWalks): a plain one of    *)
(* the rows at what their goods came in at (Revalued, LayeredTape).        *)
(*                                                                         *)
(* The second half follows the inventory account of a warehouse along the  *)
(* list of movements.  Ties says how the account stands to the basis while *)
(* units are on hand and to the open obligations while they are below      *)
(* zero; a row that moves both alike is Fair, and every action writes fair *)
(* rows or ends the histories InventoryTies speaks of (Rough).             *)
(***************************************************************************)
EXTENDS StockProofs

(* Rounding.                                                                *)
LEMMA Division ==
  ASSUME NEW n \in Int, NEW d \in Nat \ {0}
  PROVE  n \div d \in Int /\ d * (n \div d) <= n /\ n < d * (n \div d) + d
  OBVIOUS

\* What quantize_half_up returns is within half of what it divides by.
LEMMA HalfUpIs ==
  ASSUME NEW n \in Int, NEW d \in Nat \ {0}
  PROVE  /\ HalfUp(n, d) \in Int
         /\ 2 * (d * HalfUp(n, d)) <= 2 * n + d
         /\ 2 * n <= 2 * (d * HalfUp(n, d)) + d
  <1> DEFINE N == 2 * n + d
             C == d - 2 * n
             D == 2 * d
             Q == N \div D
             R == C \div D
  <1>1. N \in Int /\ C \in Int /\ D \in Nat \ {0}
    OBVIOUS
  <1>2. /\ Q \in Int /\ D * Q <= N /\ N < D * Q + D
        /\ R \in Int /\ D * R <= C /\ C < D * R + D
    <2> HIDE DEF N, C, D
    <2> QED
      BY <1>1, Division
  <1>3. D * Q = 2 * (d * Q) /\ D * R = 2 * (d * R)
    <2> HIDE DEF N, C
    <2> QED
      BY <1>2
  <1>4. CASE n >= 0
    BY <1>2, <1>3, <1>4 DEF HalfUp
  <1>5. CASE n < 0
    <2>1. HalfUp(n, d) = -R
      BY <1>5 DEF HalfUp
    <2>2. d * (-R) = -(d * R) /\ d * R \in Int
      <3> HIDE DEF C, D
      <3> QED
        BY <1>2
    <2> HIDE DEF R
    <2> QED
      BY <1>2, <1>3, <2>1, <2>2
  <1> QED
    BY <1>4, <1>5

LEMMA HalfUpNat ==
  ASSUME NEW n \in Nat, NEW d \in Nat \ {0}
  PROVE  HalfUp(n, d) \in Nat
  <1> DEFINE h == HalfUp(n, d)
  <1>1. h \in Int /\ 0 <= 2 * n /\ 2 * n <= 2 * (d * h) + d
    BY HalfUpIs
  <1> HIDE DEF h
  <1>2. h < 0 => d * h <= -d
    BY <1>1
  <1> QED
    BY <1>1, <1>2 DEF h

\* A multiple is rounded to what it is a multiple of.
LEMMA HalfUpExact ==
  ASSUME NEW c \in Nat, NEW d \in Nat \ {0}
  PROVE  HalfUp(d * c, d) = c
  <1> DEFINE h == HalfUp(d * c, d)
  <1>1. d * c \in Int
    OBVIOUS
  <1>2. h \in Int /\ 2 * (d * h) <= 2 * (d * c) + d /\ 2 * (d * c) <= 2 * (d * h) + d
    BY <1>1, HalfUpIs
  <1> HIDE DEF h
  <1>3. h > c => d * h >= d * c + d
    <2>1. h > c => d * (h - c) >= d
      BY <1>2
    <2> QED
      BY <1>2, <2>1
  <1>4. h < c => d * c >= d * h + d
    <2>1. h < c => d * (c - h) >= d
      BY <1>2
    <2> QED
      BY <1>2, <2>1
  <1>5. PICK p \in Int : d * h = p
    BY <1>2
  <1>6. PICK r \in Int : d * c = r
    BY <1>1
  <1>7. 2 * p <= 2 * r + d /\ 2 * r <= 2 * p + d
    BY <1>2, <1>5, <1>6
  <1>8. (h > c => p >= r + d) /\ (h < c => r >= p + d)
    BY <1>3, <1>4, <1>5, <1>6
  <1>9. h = c
    <2>1. h \in Int /\ c \in Int
      BY <1>2
    <2>2. d > 0 /\ d \in Int
      OBVIOUS
    <2> QED
      BY ONLY <1>7, <1>8, <2>1, <2>2, <1>5, <1>6
  <1> QED
    BY <1>9 DEF h
-----------------------------------------------------------------------------
(* Walks.                                                                   *)

\* What holds at first and after every step of n holds at last.
LEMMA StepByStep ==
  ASSUME NEW n \in Nat, NEW G, 0 \in G, \A k \in 1 .. n : k - 1 \in G => k \in G
  PROVE  \A k \in 0 .. n : k \in G
  <1> DEFINE Bad == {k \in 0 .. n : k \notin G}
  <1>1. SUFFICES ASSUME Bad # {} PROVE FALSE
    OBVIOUS
  <1>2. PICK m \in Bad : \A k \in Bad : m <= k
    <2>1. Bad \in SUBSET Nat
      OBVIOUS
    <2> HIDE DEF Bad
    <2> QED
      BY <1>1, <2>1, LeastNatural
  <1>3. m # 0 /\ m \in 1 .. n /\ m - 1 \in 0 .. n /\ m - 1 \notin Bad
    BY <1>2
  <1> QED
    BY <1>3

\* A fold that takes c[s] out of s: the equation has a solution.
FoldRest(c, s) == s \ {c[s]}

Foldable(S, V, base, c, F) ==
  /\ IsFiniteSet(S) /\ base \in V
  /\ \A s \in SUBSET S : s # {} => c[s] \in s
  /\ \A s \in SUBSET S, v \in V : F[<<s, v>>] \in V

Folds(g, S, V, base, c, F) ==
  /\ g \in [SUBSET S -> V]
  /\ \A s \in SUBSET S : g[s] = IF s = {} THEN base ELSE F[<<s, g[FoldRest(c, s)]>>]

LEMMA FoldExists ==
  ASSUME NEW S, NEW V, NEW base, NEW c, NEW F, Foldable(S, V, base, c, F)
  PROVE  \E g : Folds(g, S, V, base, c, F)
  <1>0. /\ IsFiniteSet(S) /\ base \in V
        /\ \A s \in SUBSET S : s # {} => c[s] \in s
        /\ \A s \in SUBSET S, v \in V : F[<<s, v>>] \in V
    BY DEF Foldable
  <1> DEFINE At(g, s) == IF s = {} THEN base ELSE F[<<s, g[FoldRest(c, s)]>>]
             Good(n) == \E g \in [SUBSET S -> V] :
                          \A s \in SUBSET S : Cardinality(s) <= n => g[s] = At(g, s)
             G == {n \in Nat : Good(n)}
  <1>1. \A s \in SUBSET S : IsFiniteSet(s) /\ Cardinality(s) \in Nat /\ Cardinality(s) <= Cardinality(S)
    BY <1>0, FS_Subset, FS_CardinalityType
  <1>2. \A s \in SUBSET S : s # {} => /\ FoldRest(c, s) \in SUBSET S
                                      /\ Cardinality(FoldRest(c, s)) = Cardinality(s) - 1
    BY <1>0, <1>1, Smaller DEF FoldRest
  <1>3. Good(0)
    <2> DEFINE g == [s \in SUBSET S |-> base]
    <2>1. \A s \in SUBSET S : Cardinality(s) <= 0 => s = {}
      BY <1>1, FS_EmptySet
    <2>2. g \in [SUBSET S -> V] /\ \A s \in SUBSET S : Cardinality(s) <= 0 => g[s] = At(g, s)
      BY <1>0, <2>1
    <2> HIDE DEF g, At
    <2> QED
      BY <2>2
  <1>4. ASSUME NEW n \in Nat, Good(n) PROVE Good(n + 1)
    <2>1. PICK g \in [SUBSET S -> V] : \A s \in SUBSET S : Cardinality(s) <= n => g[s] = At(g, s)
      BY <1>4
    <2> DEFINE h == [s \in SUBSET S |-> At(g, s)]
    <2>2. h \in [SUBSET S -> V]
      <3>1. \A s \in SUBSET S : At(g, s) \in V
        BY <1>0, <1>2
      <3> HIDE DEF At
      <3> QED
        BY <3>1
    <2>3. \A s \in SUBSET S : Cardinality(s) <= n => h[s] = g[s]
      BY <2>1
    <2>4. \A s \in SUBSET S : Cardinality(s) <= n + 1 => h[s] = At(h, s)
      <3> SUFFICES ASSUME NEW s \in SUBSET S, Cardinality(s) <= n + 1, s # {}
                   PROVE  At(g, s) = At(h, s)
        OBVIOUS
      <3>1. h[FoldRest(c, s)] = g[FoldRest(c, s)]
        <4>1. FoldRest(c, s) \in SUBSET S /\ Cardinality(FoldRest(c, s)) <= n
          BY <1>1, <1>2
        <4> HIDE DEF h
        <4> QED
          BY <2>3, <4>1
      <3> HIDE DEF h
      <3> QED
        BY <3>1
    <2> HIDE DEF h, At
    <2> QED
      BY <2>2, <2>4
  <1>5. Good(Cardinality(S))
    <2>1. PICK n \in Nat : n = Cardinality(S)
      BY <1>1
    <2> HIDE DEF Good
    <2>2. 0 \in G /\ \A k \in 1 .. n : k - 1 \in G => k \in G
      <3>1. ASSUME NEW k \in 1 .. n, k - 1 \in G PROVE k \in G
        <4>1. k - 1 \in Nat /\ Good(k - 1)
          BY <3>1
        <4>2. Good((k - 1) + 1) /\ (k - 1) + 1 = k
          BY <1>4, <4>1
        <4> QED
          BY <4>2
      <3> QED
        BY <1>3, <3>1
    <2> HIDE DEF G
    <2>3. n \in G
      BY <2>2, StepByStep
    <2> QED
      BY <2>1, <2>3 DEF G
  <1>6. PICK g \in [SUBSET S -> V] : \A s \in SUBSET S : Cardinality(s) <= Cardinality(S) => g[s] = At(g, s)
    BY <1>5
  <1>7. \A s \in SUBSET S : g[s] = At(g, s)
    BY <1>1, <1>6
  <1> QED
    BY <1>6, <1>7 DEF Folds

-----------------------------------------------------------------------------
(* The Kardex.                                                              *)
NotAfter(i) == {j \in DOMAIN moves : ~Earlier(i, j)}

EarlierOrders ==
  /\ \A i, j, k \in DOMAIN moves : Earlier(i, j) /\ Earlier(j, k) => Earlier(i, k)
  /\ \A i \in DOMAIN moves : ~Earlier(i, i)
  /\ \A i, j \in DOMAIN moves : i # j => Earlier(i, j) \/ Earlier(j, i)

LEMMA EarlierIsOrder == ListInv(moves) => EarlierOrders
  <1> SUFFICES ASSUME ListInv(moves) PROVE EarlierOrders
    OBVIOUS
  <1>1. \A i \in DOMAIN moves : i \in Int /\ moves[i].day \in Int
    BY LengthIs, RowsTyped
  <1> QED
    BY <1>1 DEF Earlier, EarlierOrders

\* A movement's rank is its place.
RanksAre ==
  /\ \A i \in DOMAIN moves : Rank(i) \in 1 .. Len(moves)
  /\ \A i, j \in DOMAIN moves : Earlier(i, j) => Rank(i) < Rank(j)
  /\ \A i, j \in DOMAIN moves : Rank(i) = Rank(j) => i = j

LEMMA RanksHold == ListInv(moves) => RanksAre
  <1> SUFFICES ASSUME ListInv(moves) PROVE RanksAre
    OBVIOUS
  <1>1. /\ Len(moves) \in Nat /\ DOMAIN moves = 1 .. Len(moves)
        /\ IsFiniteSet(DOMAIN moves) /\ Cardinality(DOMAIN moves) = Len(moves)
    <2>1. Len(moves) \in Nat /\ DOMAIN moves = 1 .. Len(moves)
      BY LengthIs
    <2>2. IsFiniteSet(1 .. Len(moves)) /\ Cardinality(1 .. Len(moves)) = Len(moves)
      <3>1. PICK n \in Nat : n = Len(moves)
        BY <2>1
      <3>2. IsFiniteSet(1 .. n) /\ Cardinality(1 .. n) = n
        BY FS_Interval
      <3> QED
        BY <3>1, <3>2
    <2> QED
      BY <2>1, <2>2
  <1>2. EarlierOrders
    BY EarlierIsOrder
  <1>3. ASSUME NEW i \in DOMAIN moves
        PROVE  /\ IsFiniteSet(NotAfter(i)) /\ Rank(i) = Cardinality(NotAfter(i))
               /\ Rank(i) \in Nat /\ Rank(i) \in 1 .. Len(moves)
    <2>1. NotAfter(i) \in SUBSET DOMAIN moves /\ i \in NotAfter(i)
      BY <1>2 DEF NotAfter, EarlierOrders
    <2>2. IsFiniteSet(NotAfter(i)) /\ Cardinality(NotAfter(i)) <= Len(moves)
      BY <1>1, <2>1, FS_Subset
    <2>3. Cardinality(NotAfter(i)) \in Nat /\ Cardinality(NotAfter(i)) # 0
      BY <2>1, <2>2, FS_CardinalityType, FS_EmptySet
    <2>4. Rank(i) = Cardinality(NotAfter(i))
      BY DEF Rank, NotAfter
    <2> QED
      BY <1>1, <2>2, <2>3, <2>4
  <1>4. ASSUME NEW i \in DOMAIN moves, NEW j \in DOMAIN moves, Earlier(i, j) PROVE Rank(i) < Rank(j)
    <2>1. NotAfter(i) \subseteq NotAfter(j) /\ j \in NotAfter(j) /\ j \notin NotAfter(i)
      BY <1>2, <1>4 DEF NotAfter, EarlierOrders
    <2>2. Cardinality(NotAfter(i)) <= Cardinality(NotAfter(j))
          /\ (Cardinality(NotAfter(j)) = Cardinality(NotAfter(i)) => NotAfter(j) = NotAfter(i))
      BY <1>3, <2>1, FS_Subset
    <2> QED
      BY <1>3, <2>1, <2>2
  <1>5. \A i, j \in DOMAIN moves : Rank(i) = Rank(j) => i = j
    BY <1>2, <1>3, <1>4 DEF EarlierOrders
  <1> QED
    BY <1>3, <1>4, <1>5 DEF RanksAre

\* Every place is taken by the movement of that rank.
KardexOrders ==
  /\ DOMAIN Kardex = 1 .. Len(moves)
  /\ \A k \in 1 .. Len(moves) : Kardex[k] \in DOMAIN moves /\ Rank(Kardex[k]) = k
  /\ \A i \in DOMAIN moves : Kardex[Rank(i)] = i

LEMMA KardexIs == ListInv(moves) => KardexOrders
  <1> SUFFICES ASSUME ListInv(moves) PROVE KardexOrders
    OBVIOUS
  <1>1. PICK n \in Nat : n = Len(moves)
    BY LengthIs
  <1>2. DOMAIN moves = 1 .. n
    BY <1>1, LengthIs
  <1>3. /\ \A i \in 1 .. n : Rank(i) \in 1 .. n
        /\ \A i, j \in 1 .. n : Rank(i) = Rank(j) => i = j
    BY <1>1, <1>2, RanksHold DEF RanksAre
  <1>4. PICK f : f = [i \in 1 .. n |-> Rank(i)]
    OBVIOUS
  <1>5. f \in Injection(1 .. n, 1 .. n)
    BY <1>3, <1>4 DEF Injection, IsInjective
  <1>6. IsFiniteSet(1 .. n)
    BY FS_Interval
  <1>7. f \in Surjection(1 .. n, 1 .. n)
    BY <1>5, <1>6, FS_Injection
  <1>8. \A k \in 1 .. n : \E i \in 1 .. n : Rank(i) = k
    BY <1>4, <1>7 DEF Surjection
  <1>9. \A k \in 1 .. n : Kardex[k] \in 1 .. n /\ Rank(Kardex[k]) = k
    <2> SUFFICES ASSUME NEW k \in 1 .. n PROVE Kardex[k] \in 1 .. n /\ Rank(Kardex[k]) = k
      OBVIOUS
    <2>1. Kardex[k] = CHOOSE i \in 1 .. n : Rank(i) = k
      BY <1>2 DEF Kardex
    <2> QED
      BY <1>8, <2>1, Zenon
  <1>10. \A i \in 1 .. n : Kardex[Rank(i)] = i
    BY <1>3, <1>9
  <1>11. DOMAIN Kardex = 1 .. n
    BY <1>2 DEF Kardex
  <1> QED
    BY <1>1, <1>2, <1>9, <1>10, <1>11 DEF KardexOrders

-----------------------------------------------------------------------------
(* The replay.                                                              *)
PlainAt(s, i) == IF moves[i].quantity > 0 THEN Arrive(s, i, moves[i].cost) ELSE Leave(s, i)
FoldAt(g, s) == IF s = {} THEN Start ELSE PlainAt(g[s \ {Max(s)}], Kardex[Max(s)])

LEMMA PlainIsChosen ==
  PlainReplay = (CHOOSE g : g = [s \in SUBSET DOMAIN Kardex |-> FoldAt(g, s)])[DOMAIN Kardex]
  BY Zenon DEF PlainReplay, FoldLeft, MapThenFoldSet, FoldAt, PlainAt

ReplayState ==
  [units: [Warehouse -> Int], basis: [Warehouse -> Nat],
   relief: [DOMAIN moves -> Nat], unit: [DOMAIN moves -> Nat]]

CostsOK(M) == \A i \in DOMAIN M : M[i].cost \in Nat

Over(x) == IF x <= 0 THEN 0 ELSE x

\* The basis of a warehouse after q units arrive at a cost, or leave.
BasisIn(u, b, q, unit) == IF u >= 0 THEN b + q * unit ELSE Over(u + q) * unit
AverageOf(u, b, unit) == IF u > 0 THEN HalfUp(b, u) ELSE unit
ReliefOf(u, b, q, unit) == Over(Least(q, u)) * AverageOf(u, b, unit)
BasisOut(u, b, q, unit) == IF u > q THEN Over(b - ReliefOf(u, b, q, unit)) ELSE 0

LEMMA ProductNat == ASSUME NEW x \in Nat, NEW y \in Nat PROVE x * y \in Nat
  OBVIOUS

LEMMA BasisNat ==
  ASSUME NEW u \in Int, NEW b \in Nat, NEW q \in Nat, NEW unit \in Nat
  PROVE  /\ BasisIn(u, b, q, unit) \in Nat /\ BasisOut(u, b, q, unit) \in Nat
         /\ AverageOf(u, b, unit) \in Nat /\ ReliefOf(u, b, q, unit) \in Nat
  <1>1. Over(u + q) \in Nat /\ Over(Least(q, u)) \in Nat
    BY DEF Over, Least
  <1>2. q * unit \in Nat /\ Over(u + q) * unit \in Nat
    BY <1>1, ProductNat
  <1>3. AverageOf(u, b, unit) \in Nat
    BY HalfUpNat DEF AverageOf
  <1>4. ReliefOf(u, b, q, unit) \in Nat
    BY <1>1, <1>3, ProductNat DEF ReliefOf
  <1>5. BasisIn(u, b, q, unit) \in Nat
    BY <1>2 DEF BasisIn
  <1>6. BasisOut(u, b, q, unit) \in Nat
    BY <1>4 DEF BasisOut, Over
  <1> QED
    BY <1>3, <1>4, <1>5, <1>6

\* What one movement does to a replay.
Arrives(s, t, i, unit) ==
  LET w == moves[i].warehouse
  IN t = [units |-> [s.units EXCEPT ![w] = @ + Units(i)],
          basis |-> [s.basis EXCEPT ![w] = BasisIn(s.units[w], @, Units(i), unit)],
          relief |-> s.relief, unit |-> [s.unit EXCEPT ![i] = unit]]

Leaves(s, t, i) ==
  LET w == moves[i].warehouse
      c == moves[i].cost
  IN t = [units |-> [s.units EXCEPT ![w] = @ - Units(i)],
          basis |-> [s.basis EXCEPT ![w] = BasisOut(s.units[w], @, Units(i), c)],
          relief |-> [s.relief EXCEPT ![i] = ReliefOf(s.units[w], s.basis[w], Units(i), c)],
          unit |-> [s.unit EXCEPT ![i] = AverageOf(s.units[w], s.basis[w], c)]]

LEMMA ArriveIs ==
  ASSUME ListInv(moves), NEW i \in DOMAIN moves, NEW unit \in Nat, NEW s \in ReplayState
  PROVE  Arrives(s, Arrive(s, i, unit), i, unit) /\ Arrive(s, i, unit) \in ReplayState
  <1>1. PICK w \in Warehouse : w = moves[i].warehouse
    BY RowsTyped
  <1>2. PICK q \in Nat : q = Units(i)
    BY RowsTyped
  <1>3. PICK u \in Int : u = s.units[w]
    BY DEF ReplayState
  <1>4. PICK b \in Nat : b = s.basis[w]
    BY DEF ReplayState
  <1>5. Max({u + q, 0}) = Over(u + q)
    BY MaxOfTwo DEF Over
  <1>6. Arrive(s, i, unit) = [s EXCEPT !.units[w] = @ + q,
               !.basis[w] = IF u >= 0 THEN @ + q * unit ELSE Over(u + q) * unit,
               !.unit[i] = unit]
    BY <1>1, <1>2, <1>3, <1>5 DEF Arrive
  <1>7. PICK c \in Nat : c = BasisIn(u, b, q, unit)
    BY BasisNat
  <1>8. Arrive(s, i, unit) = [s EXCEPT !.units[w] = u + q, !.basis[w] = c, !.unit[i] = unit]
    BY <1>3, <1>4, <1>6, <1>7 DEF BasisIn, ReplayState
  <1>9. Arrive(s, i, unit) = [units |-> [s.units EXCEPT ![w] = u + q],
                              basis |-> [s.basis EXCEPT ![w] = c],
                              relief |-> s.relief, unit |-> [s.unit EXCEPT ![i] = unit]]
    BY <1>8 DEF ReplayState
  <1>10. Arrives(s, Arrive(s, i, unit), i, unit)
    BY <1>1, <1>2, <1>3, <1>4, <1>7, <1>9 DEF Arrives
  <1>11. Arrive(s, i, unit) \in ReplayState
    BY <1>9 DEF ReplayState
  <1> QED
    BY <1>10, <1>11

LEMMA LeaveIs ==
  ASSUME ListInv(moves), CostsOK(moves), NEW i \in DOMAIN moves, NEW s \in ReplayState
  PROVE  Leaves(s, Leave(s, i), i) /\ Leave(s, i) \in ReplayState
  <1>1. PICK w \in Warehouse : w = moves[i].warehouse
    BY RowsTyped
  <1>2. PICK q \in Nat : q = Units(i)
    BY RowsTyped
  <1>3. PICK u \in Int : u = s.units[w]
    BY DEF ReplayState
  <1>4. PICK b \in Nat : b = s.basis[w]
    BY DEF ReplayState
  <1>5. PICK c \in Nat : c = moves[i].cost
    BY DEF CostsOK
  <1>6. PICK a \in Nat : a = AverageOf(u, b, c)
    BY BasisNat
  <1>7. PICK r \in Nat : r = ReliefOf(u, b, q, c)
    BY BasisNat
  <1>8. Max({0, Min({q, u})}) * a = r
    <2>1. Min({q, u}) = Least(q, u) /\ Least(q, u) \in Int
      BY MinOfTwo DEF Least
    <2>2. Max({0, Least(q, u)}) = Over(Least(q, u))
      BY <2>1, MaxOfTwo DEF Over
    <2> QED
      BY <1>6, <1>7, <2>1, <2>2 DEF ReliefOf
  <1>9. Max({b - r, 0}) = Over(b - r)
    BY MaxOfTwo DEF Over
  <1>10. PICK e \in Nat : e = BasisOut(u, b, q, c)
    BY BasisNat
  <1>11. Leave(s, i) = [s EXCEPT !.units[w] = @ - q,
               !.basis[w] = IF u > q THEN Max({@ - r, 0}) ELSE 0,
               !.relief[i] = r, !.unit[i] = a]
    BY <1>1, <1>2, <1>3, <1>4, <1>5, <1>6, <1>8 DEF Leave, AverageOf
  <1>12. Leave(s, i) = [s EXCEPT !.units[w] = u - q, !.basis[w] = e, !.relief[i] = r, !.unit[i] = a]
    BY <1>3, <1>4, <1>7, <1>9, <1>10, <1>11 DEF BasisOut, ReplayState
  <1>13. Leave(s, i) = [units |-> [s.units EXCEPT ![w] = u - q],
                        basis |-> [s.basis EXCEPT ![w] = e],
                        relief |-> [s.relief EXCEPT ![i] = r], unit |-> [s.unit EXCEPT ![i] = a]]
    BY <1>12 DEF ReplayState
  <1>14. Leaves(s, Leave(s, i), i)
    BY <1>1, <1>2, <1>3, <1>4, <1>5, <1>6, <1>7, <1>10, <1>13 DEF Leaves
  <1>15. Leave(s, i) \in ReplayState
    BY <1>13 DEF ReplayState
  <1> QED
    BY <1>14, <1>15

LEMMA MaxIn ==
  ASSUME NEW n \in Nat, NEW s \in SUBSET (1 .. n), s # {}
  PROVE  Max(s) \in s /\ \A x \in s : x <= Max(s)
  <1>1. PICK T : T = {n - x : x \in s}
    OBVIOUS
  <1>2. T \in SUBSET Nat /\ T # {}
    <2>1. \A x \in s : n - x \in Nat
      OBVIOUS
    <2>2. PICK x : x \in s
      OBVIOUS
    <2> QED
      BY <1>1, <2>1, <2>2
  <1>3. PICK m \in T : \A k \in T : m <= k
    BY <1>2, LeastNatural
  <1>4. PICK y \in s : m = n - y
    BY <1>1, <1>3
  <1>5. \A x \in s : y >= x
    BY <1>1, <1>3, <1>4
  <1>6. \E z \in s : \A x \in s : z >= x
    BY <1>5
  <1>7. Max(s) \in s /\ \A x \in s : Max(s) >= x
    BY <1>6, Zenon DEF Max
  <1> QED
    BY <1>7

LEMMA MaxOfInterval ==
  ASSUME NEW n \in Nat, NEW k \in 1 .. n
  PROVE  Max(1 .. k) = k /\ (1 .. k) \ {k} = 1 .. (k - 1)
  <1>1. Max(1 .. k) \in 1 .. k /\ k <= Max(1 .. k)
    <2>1. PICK s : s = 1 .. k
      OBVIOUS
    <2>2. s \in SUBSET (1 .. n) /\ k \in s
      BY <2>1
    <2>3. Max(s) \in s /\ k <= Max(s)
      BY <2>2, MaxIn
    <2> QED
      BY <2>1, <2>3
  <1> QED
    BY <1>1

\* A fold over 1..n from the left has a solution.
Solved(g, n, V, base, F) ==
  /\ g \in [SUBSET (1 .. n) -> V]
  /\ \A s \in SUBSET (1 .. n) : g[s] = IF s = {} THEN base ELSE F[<<Max(s), g[s \ {Max(s)}]>>]

LEMMA FoldLeftExists ==
  ASSUME NEW n \in Nat, NEW V, NEW base \in V, NEW F,
         \A k \in 1 .. n, v \in V : F[<<k, v>>] \in V
  PROVE  \E g : Solved(g, n, V, base, F)
  <1> DEFINE S == 1 .. n
  <1>1. PICK c : c = [s \in SUBSET S |-> Max(s)]
    OBVIOUS
  <1>2. PICK H : H = [p \in (SUBSET S) \X V |-> IF p[1] = {} THEN base ELSE F[<<Max(p[1]), p[2]>>]]
    OBVIOUS
  <1>3. IsFiniteSet(S)
    BY FS_Interval
  <1>4. \A s \in SUBSET S : s # {} => Max(s) \in s
    BY MaxIn
  <1>5. \A s \in SUBSET S : s # {} => c[s] \in s
    BY <1>1, <1>4
  <1>6. \A s \in SUBSET S, v \in V : H[<<s, v>>] = IF s = {} THEN base ELSE F[<<Max(s), v>>]
    BY <1>2
  <1>7. \A s \in SUBSET S, v \in V : H[<<s, v>>] \in V
    BY <1>4, <1>6
  <1>8. PICK g : Folds(g, S, V, base, c, H)
    <2>1. Foldable(S, V, base, c, H)
      BY <1>3, <1>5, <1>7 DEF Foldable
    <2> HIDE DEF S
    <2> QED
      BY <2>1, FoldExists
  <1>9. \A s \in SUBSET S : FoldRest(c, s) = s \ {Max(s)} /\ FoldRest(c, s) \in SUBSET S
    BY <1>1 DEF FoldRest
  <1>10. \A s \in SUBSET S : g[s] = IF s = {} THEN base ELSE F[<<Max(s), g[s \ {Max(s)}]>>]
    <2>1. \A s \in SUBSET S : g[s] \in V /\ g[s] = IF s = {} THEN base ELSE H[<<s, g[FoldRest(c, s)]>>]
      BY <1>8 DEF Folds
    <2> QED
      BY <1>6, <1>9, <2>1
  <1>11. g \in [SUBSET S -> V]
    BY <1>8 DEF Folds
  <1> QED
    BY <1>10, <1>11 DEF Solved

\* The replay is the last of the states it passes through.
PlainPath(r) ==
  /\ r \in [0 .. Len(moves) -> ReplayState] /\ r[0] = Start
  /\ \A k \in 1 .. Len(moves) : r[k] = PlainAt(r[k - 1], Kardex[k])
  /\ PlainReplay = r[Len(moves)]

LEMMA StartIs == CostsOK(moves) => Start \in ReplayState
  BY DEF CostsOK, Start, ReplayState

LEMMA PlainAtIs ==
  ASSUME ListInv(moves), CostsOK(moves), NEW i \in DOMAIN moves, NEW s \in ReplayState
  PROVE  PlainAt(s, i) \in ReplayState
  <1>1. moves[i].cost \in Nat
    BY DEF CostsOK
  <1>2. Arrive(s, i, moves[i].cost) \in ReplayState /\ Leave(s, i) \in ReplayState
    BY <1>1, ArriveIs, LeaveIs
  <1> QED
    BY <1>2 DEF PlainAt

LEMMA PlainWalks ==
  ASSUME ListInv(moves), CostsOK(moves)
  PROVE  \E r : PlainPath(r)
  <1>1. PICK n \in Nat : n = Len(moves)
    BY LengthIs
  <1>2. DOMAIN moves = 1 .. n /\ DOMAIN Kardex = 1 .. n /\ \A k \in 1 .. n : Kardex[k] \in DOMAIN moves
    BY <1>1, LengthIs, KardexIs DEF KardexOrders
  <1>3. PICK F : F = [p \in (1 .. n) \X ReplayState |-> PlainAt(p[2], Kardex[p[1]])]
    OBVIOUS
  <1>4. \A k \in 1 .. n, v \in ReplayState : F[<<k, v>>] = PlainAt(v, Kardex[k]) /\ F[<<k, v>>] \in ReplayState
    <2> SUFFICES ASSUME NEW k \in 1 .. n, NEW v \in ReplayState
                 PROVE  F[<<k, v>>] = PlainAt(v, Kardex[k]) /\ F[<<k, v>>] \in ReplayState
      OBVIOUS
    <2>1. F[<<k, v>>] = PlainAt(v, Kardex[k])
      BY <1>3
    <2> QED
      BY <1>2, <2>1, PlainAtIs
  <1>5. Start \in ReplayState
    BY StartIs
  <1>6. PICK g : Solved(g, n, ReplayState, Start, F)
    BY <1>4, <1>5, FoldLeftExists
  <1>7. \A s \in SUBSET (1 .. n) : s # {} => Max(s) \in s /\ s \ {Max(s)} \in SUBSET (1 .. n)
    BY MaxIn
  <1>8. \A s \in SUBSET (1 .. n) : g[s] = FoldAt(g, s)
    BY <1>4, <1>6, <1>7 DEF Solved, FoldAt
  <1> DEFINE Eq(f) == f = [s \in SUBSET (1 .. n) |-> FoldAt(f, s)]
  <1>9. Eq(g)
    BY <1>6, <1>8 DEF Solved
  <1>10. PICK h : h = CHOOSE f : Eq(f)
    OBVIOUS
  <1>11. Eq(h)
    BY <1>9, <1>10, Zenon
  <1>12. PlainReplay = h[1 .. n]
    BY <1>2, <1>10, PlainIsChosen
  <1>13. PICK r : r = [k \in 0 .. n |-> h[1 .. k]]
    OBVIOUS
  <1>14. r[0] = Start
    <2>1. 1 .. 0 = {} /\ {} \in SUBSET (1 .. n)
      OBVIOUS
    <2> QED
      BY <1>11, <1>13, <2>1 DEF FoldAt
  <1>15. \A k \in 1 .. n : r[k] = PlainAt(r[k - 1], Kardex[k])
    <2> SUFFICES ASSUME NEW k \in 1 .. n PROVE r[k] = PlainAt(r[k - 1], Kardex[k])
      OBVIOUS
    <2>1. 1 .. k \in SUBSET (1 .. n) /\ 1 .. k # {} /\ k - 1 \in 0 .. n /\ k \in 0 .. n
      OBVIOUS
    <2>2. Max(1 .. k) = k /\ (1 .. k) \ {k} = 1 .. (k - 1)
      BY MaxOfInterval
    <2>3. h[1 .. k] = PlainAt(h[(1 .. k) \ {Max(1 .. k)}], Kardex[Max(1 .. k)])
      BY <1>11, <2>1 DEF FoldAt
    <2> QED
      BY <1>13, <2>1, <2>2, <2>3
  <1>16. \A k \in 0 .. n : r[k] \in ReplayState
    <2> DEFINE G == {k \in 0 .. n : r[k] \in ReplayState}
    <2>1. 0 \in G
      BY <1>5, <1>14
    <2>2. \A k \in 1 .. n : k - 1 \in G => k \in G
      <3> SUFFICES ASSUME NEW k \in 1 .. n, k - 1 \in G PROVE r[k] \in ReplayState /\ k \in 0 .. n
        OBVIOUS
      <3>1. r[k - 1] \in ReplayState
        OBVIOUS
      <3> QED
        BY <1>2, <1>15, <3>1, PlainAtIs
    <2> HIDE DEF G
    <2>3. \A k \in 0 .. n : k \in G
      BY <2>1, <2>2, StepByStep
    <2> QED
      BY <2>3 DEF G
  <1>17. r \in [0 .. n -> ReplayState]
    BY <1>13, <1>16
  <1>18. PlainReplay = r[n]
    BY <1>12, <1>13
  <1> QED
    BY <1>1, <1>14, <1>15, <1>17, <1>18 DEF PlainPath

-----------------------------------------------------------------------------
(* The replay with landed costs.                                            *)
LayeredAt(D, s, i) ==
  LET follows == moves[i].type \in {"TRANSFER_IN", "SALES_RETURN"}
      unit == IF follows THEN s.unit[moves[i].src] ELSE moves[i].cost
  IN IF moves[i].quantity > 0 THEN Arrive(s, i, unit + Extra(D, i)) ELSE Leave(s, i)

LayeredFold(D, g, s) ==
  IF s = {} THEN Start ELSE LayeredAt(D, g[s \ {Max(s)}], Kardex[Max(s)])

LEMMA LayeredIsChosen ==
  ASSUME NEW D
  PROVE  LayeredReplay(D)
           = (CHOOSE g : g = [s \in SUBSET DOMAIN Kardex |-> LayeredFold(D, g, s)])[DOMAIN Kardex]
  BY Zenon DEF LayeredReplay, FoldLeft, MapThenFoldSet, LayeredFold, LayeredAt

\* What the documents hold of their receipts.
SharesOK ==
  /\ IsFiniteSet(DOMAIN costs)
  /\ \A d \in DOMAIN costs : \A i \in DOMAIN costs[d].share : costs[d].share[i] \in Nat

Extras(D) == \A i \in DOMAIN moves : Extra(D, i) \in Nat

LEMMA ExtraNat ==
  ASSUME ListInv(moves), SharesOK, NEW D \in SUBSET DOMAIN costs
  PROVE  Extras(D)
  <1> SUFFICES ASSUME NEW i \in DOMAIN moves PROVE Extra(D, i) \in Nat
    BY DEF Extras
  <1>1. PICK S : S = {d \in D : i \in DOMAIN costs[d].share}
    OBVIOUS
  <1>2. PICK f : f = [d \in S |-> costs[d].share[i]]
    OBVIOUS
  <1>3. IsFiniteSet(S) /\ \A d \in S : f[d] \in Nat
    <2>1. S \in SUBSET DOMAIN costs
      BY <1>1
    <2> QED
      BY <1>1, <1>2, <2>1, FS_Subset DEF SharesOK
  <1>4. PICK a \in Nat : a = SumFunctionOnSet(f, S)
    BY <1>3, SumNat
  <1>5. PICK q \in Nat \ {0} : q = Units(i)
    BY RowsTyped DEF RowOK, Units, Absolute
  <1>6. Steps(a) \in Nat
    BY StockAssumption DEF Steps
  <1>7. HalfUp(Steps(a), q) \in Nat
    BY <1>6, HalfUpNat
  <1> QED
    BY <1>1, <1>2, <1>4, <1>5, <1>7 DEF Extra, SumOf

LEMMA SourceIn ==
  ASSUME ListInv(moves), NEW i \in DOMAIN moves, moves[i].type \in {"TRANSFER_IN", "SALES_RETURN"}
  PROVE  moves[i].src \in DOMAIN moves
  BY DEF ListInv, RowsStand, Kind, ReturnTypes

LEMMA LayeredAtIs ==
  ASSUME ListInv(moves), CostsOK(moves), NEW D, Extras(D), NEW i \in DOMAIN moves, NEW s \in ReplayState
  PROVE  LayeredAt(D, s, i) \in ReplayState
  <1>1. moves[i].cost \in Nat /\ Extra(D, i) \in Nat
    BY DEF CostsOK, Extras
  <1>2. moves[i].type \in {"TRANSFER_IN", "SALES_RETURN"} => s.unit[moves[i].src] \in Nat
    <2>1. moves[i].type \in {"TRANSFER_IN", "SALES_RETURN"} => moves[i].src \in DOMAIN moves
      BY SourceIn
    <2> QED
      BY <2>1 DEF ReplayState
  <1>3. PICK unit :
          unit = IF moves[i].type \in {"TRANSFER_IN", "SALES_RETURN"} THEN s.unit[moves[i].src]
                 ELSE moves[i].cost
    OBVIOUS
  <1>4. unit + Extra(D, i) \in Nat
    BY <1>1, <1>2, <1>3
  <1>5. Arrive(s, i, unit + Extra(D, i)) \in ReplayState /\ Leave(s, i) \in ReplayState
    BY <1>4, ArriveIs, LeaveIs
  <1> QED
    BY <1>3, <1>5 DEF LayeredAt

LayeredPath(D, r) ==
  /\ r \in [0 .. Len(moves) -> ReplayState] /\ r[0] = Start
  /\ \A k \in 1 .. Len(moves) : r[k] = LayeredAt(D, r[k - 1], Kardex[k])
  /\ LayeredReplay(D) = r[Len(moves)]

LEMMA LayeredWalks ==
  ASSUME ListInv(moves), CostsOK(moves), NEW D, Extras(D)
  PROVE  \E r : LayeredPath(D, r)
  <1>1. PICK n \in Nat : n = Len(moves)
    BY LengthIs
  <1>2. DOMAIN moves = 1 .. n /\ DOMAIN Kardex = 1 .. n /\ \A k \in 1 .. n : Kardex[k] \in DOMAIN moves
    BY <1>1, LengthIs, KardexIs DEF KardexOrders
  <1>3. PICK F : F = [p \in (1 .. n) \X ReplayState |-> LayeredAt(D, p[2], Kardex[p[1]])]
    OBVIOUS
  <1>4. \A k \in 1 .. n, v \in ReplayState : F[<<k, v>>] = LayeredAt(D, v, Kardex[k]) /\ F[<<k, v>>] \in ReplayState
    <2> SUFFICES ASSUME NEW k \in 1 .. n, NEW v \in ReplayState
                 PROVE  F[<<k, v>>] = LayeredAt(D, v, Kardex[k]) /\ F[<<k, v>>] \in ReplayState
      OBVIOUS
    <2>1. F[<<k, v>>] = LayeredAt(D, v, Kardex[k])
      BY <1>3
    <2> QED
      BY <1>2, <2>1, LayeredAtIs
  <1>5. Start \in ReplayState
    BY StartIs
  <1>6. PICK g : Solved(g, n, ReplayState, Start, F)
    BY <1>4, <1>5, FoldLeftExists
  <1>7. \A s \in SUBSET (1 .. n) : s # {} => Max(s) \in s /\ s \ {Max(s)} \in SUBSET (1 .. n)
    BY MaxIn
  <1>8. \A s \in SUBSET (1 .. n) : g[s] = LayeredFold(D, g, s)
    BY <1>4, <1>6, <1>7 DEF Solved, LayeredFold
  <1> DEFINE Eq(f) == f = [s \in SUBSET (1 .. n) |-> LayeredFold(D, f, s)]
  <1>9. Eq(g)
    BY <1>6, <1>8 DEF Solved
  <1>10. PICK h : h = CHOOSE f : Eq(f)
    OBVIOUS
  <1>11. Eq(h)
    BY <1>9, <1>10, Zenon
  <1>12. LayeredReplay(D) = h[1 .. n]
    BY <1>2, <1>10, LayeredIsChosen
  <1>13. PICK r : r = [k \in 0 .. n |-> h[1 .. k]]
    OBVIOUS
  <1>14. r[0] = Start
    <2>1. 1 .. 0 = {} /\ {} \in SUBSET (1 .. n)
      OBVIOUS
    <2> QED
      BY <1>11, <1>13, <2>1 DEF LayeredFold
  <1>15. \A k \in 1 .. n : r[k] = LayeredAt(D, r[k - 1], Kardex[k])
    <2> SUFFICES ASSUME NEW k \in 1 .. n PROVE r[k] = LayeredAt(D, r[k - 1], Kardex[k])
      OBVIOUS
    <2>1. 1 .. k \in SUBSET (1 .. n) /\ 1 .. k # {} /\ k - 1 \in 0 .. n /\ k \in 0 .. n
      OBVIOUS
    <2>2. Max(1 .. k) = k /\ (1 .. k) \ {k} = 1 .. (k - 1)
      BY MaxOfInterval
    <2>3. h[1 .. k] = LayeredAt(D, h[(1 .. k) \ {Max(1 .. k)}], Kardex[Max(1 .. k)])
      BY <1>11, <2>1 DEF LayeredFold
    <2> QED
      BY <1>13, <2>1, <2>2, <2>3
  <1>16. \A k \in 0 .. n : r[k] \in ReplayState
    <2> DEFINE G == {k \in 0 .. n : r[k] \in ReplayState}
    <2>1. 0 \in G
      BY <1>5, <1>14
    <2>2. \A k \in 1 .. n : k - 1 \in G => k \in G
      <3> SUFFICES ASSUME NEW k \in 1 .. n, k - 1 \in G PROVE r[k] \in ReplayState /\ k \in 0 .. n
        OBVIOUS
      <3>1. r[k - 1] \in ReplayState
        OBVIOUS
      <3> QED
        BY <1>2, <1>15, <3>1, LayeredAtIs
    <2> HIDE DEF G
    <2>3. \A k \in 0 .. n : k \in G
      BY <2>1, <2>2, StepByStep
    <2> QED
      BY <2>3 DEF G
  <1>17. r \in [0 .. n -> ReplayState]
    BY <1>13, <1>16
  <1>18. LayeredReplay(D) = r[n]
    BY <1>12, <1>13
  <1> QED
    BY <1>1, <1>14, <1>15, <1>17, <1>18 DEF LayeredPath

-----------------------------------------------------------------------------
(* One warehouse along the Kardex.                                          *)
UnitsNext(u, row, w) == IF row.warehouse = w THEN u + row.quantity ELSE u

BasisNext(u, b, row, w) ==
  IF row.warehouse # w THEN b
  ELSE IF row.quantity > 0 THEN BasisIn(u, b, row.quantity, row.cost)
  ELSE BasisOut(u, b, -row.quantity, row.cost)

\* The units and the basis of w after each of the first n rows of M in order K.
Tape(M, K, n, w, u, b) ==
  /\ u \in [0 .. n -> Int] /\ b \in [0 .. n -> Nat]
  /\ u[0] = 0 /\ b[0] = 0
  /\ \A k \in 1 .. n : /\ u[k] = UnitsNext(u[k - 1], M[K[k]], w)
                       /\ b[k] = BasisNext(u[k - 1], b[k - 1], M[K[k]], w)

LEMMA PlainAtWarehouse ==
  ASSUME ListInv(moves), CostsOK(moves), NEW i \in DOMAIN moves, NEW s \in ReplayState,
         NEW w \in Warehouse, NEW t, t = PlainAt(s, i)
  PROVE  /\ t.units[w] = UnitsNext(s.units[w], moves[i], w)
         /\ t.basis[w] = BasisNext(s.units[w], s.basis[w], moves[i], w)
  <1>1. /\ moves[i].cost \in Nat /\ moves[i].quantity \in Int
        /\ Units(i) = IF moves[i].quantity > 0 THEN moves[i].quantity ELSE -moves[i].quantity
    BY RowsTyped DEF CostsOK, RowOK, Units, Absolute
  <1>2. s.units \in [Warehouse -> Int] /\ s.basis \in [Warehouse -> Nat]
    BY DEF ReplayState
  <1>3. PICK v \in Warehouse : v = moves[i].warehouse
    BY RowsTyped
  <1>4. CASE moves[i].quantity > 0
    <2>1. Arrives(s, t, i, moves[i].cost)
      BY <1>1, <1>4, ArriveIs DEF PlainAt
    <2>2. /\ t.units = [s.units EXCEPT ![v] = @ + Units(i)]
          /\ t.basis = [s.basis EXCEPT ![v] = BasisIn(s.units[v], @, Units(i), moves[i].cost)]
      BY <1>3, <2>1 DEF Arrives
    <2>3. CASE v = w
      BY <1>1, <1>2, <1>3, <1>4, <2>2, <2>3 DEF UnitsNext, BasisNext
    <2>4. CASE v # w
      BY <1>1, <1>2, <1>3, <1>4, <2>2, <2>4 DEF UnitsNext, BasisNext
    <2> QED
      BY <2>3, <2>4
  <1>5. CASE ~(moves[i].quantity > 0)
    <2>1. Leaves(s, t, i)
      BY <1>1, <1>5, LeaveIs DEF PlainAt
    <2>2. /\ t.units = [s.units EXCEPT ![v] = @ - Units(i)]
          /\ t.basis = [s.basis EXCEPT ![v] = BasisOut(s.units[v], @, Units(i), moves[i].cost)]
      BY <1>3, <2>1 DEF Leaves
    <2>3. CASE v = w
      BY <1>1, <1>2, <1>3, <1>5, <2>2, <2>3 DEF UnitsNext, BasisNext
    <2>4. CASE v # w
      BY <1>1, <1>2, <1>3, <1>5, <2>2, <2>4 DEF UnitsNext, BasisNext
    <2> QED
      BY <2>3, <2>4
  <1> QED
    BY <1>4, <1>5

PlainTape(w, u, b) ==
  /\ Tape(moves, Kardex, Len(moves), w, u, b)
  /\ PlainReplay.units[w] = u[Len(moves)] /\ PlainReplay.basis[w] = b[Len(moves)]

LEMMA PlainTapes ==
  ASSUME ListInv(moves), CostsOK(moves), NEW w \in Warehouse
  PROVE  \E u, b : PlainTape(w, u, b)
  <1>1. PICK n \in Nat : n = Len(moves)
    BY LengthIs
  <1>2. PICK r : PlainPath(r)
    BY PlainWalks
  <1>3. /\ r \in [0 .. n -> ReplayState] /\ r[0] = Start /\ PlainReplay = r[n]
        /\ \A k \in 1 .. n : r[k] = PlainAt(r[k - 1], Kardex[k])
    BY <1>1, <1>2 DEF PlainPath
  <1>4. PICK u : u = [k \in 0 .. n |-> r[k].units[w]]
    OBVIOUS
  <1>5. PICK b : b = [k \in 0 .. n |-> r[k].basis[w]]
    OBVIOUS
  <1>6. \A k \in 0 .. n : u[k] = r[k].units[w] /\ b[k] = r[k].basis[w] /\ u[k] \in Int /\ b[k] \in Nat
    BY <1>3, <1>4, <1>5 DEF ReplayState
  <1>7. u \in [0 .. n -> Int] /\ b \in [0 .. n -> Nat]
    BY <1>4, <1>5, <1>6
  <1>8. u[0] = 0 /\ b[0] = 0
    BY <1>3, <1>6 DEF Start
  <1>9. \A k \in 1 .. n : Kardex[k] \in DOMAIN moves
    BY <1>1, KardexIs DEF KardexOrders
  <1>10. ASSUME NEW k \in 1 .. n
         PROVE  /\ u[k] = UnitsNext(u[k - 1], moves[Kardex[k]], w)
                /\ b[k] = BasisNext(u[k - 1], b[k - 1], moves[Kardex[k]], w)
    <2>1. k - 1 \in 0 .. n /\ k \in 0 .. n
      OBVIOUS
    <2>2. r[k - 1] \in ReplayState /\ r[k] = PlainAt(r[k - 1], Kardex[k]) /\ Kardex[k] \in DOMAIN moves
      BY <1>3, <1>9, <2>1
    <2>3. /\ r[k].units[w] = UnitsNext(r[k - 1].units[w], moves[Kardex[k]], w)
          /\ r[k].basis[w] = BasisNext(r[k - 1].units[w], r[k - 1].basis[w], moves[Kardex[k]], w)
      BY <2>2, PlainAtWarehouse
    <2> QED
      BY <1>6, <2>1, <2>3
  <1>11. Tape(moves, Kardex, n, w, u, b)
    BY <1>7, <1>8, <1>10 DEF Tape
  <1>12. PlainReplay.units[w] = u[n] /\ PlainReplay.basis[w] = b[n]
    BY <1>3, <1>6
  <1> QED
    BY <1>1, <1>11, <1>12 DEF PlainTape

\* The sum over a set of movements, one movement after the other.
Sums(s, S, f) ==
  /\ s \in [0 .. Len(moves) -> Int] /\ s[0] = 0
  /\ \A k \in 1 .. Len(moves) :
       s[k] = IF Kardex[k] \in S THEN s[k - 1] + f[Kardex[k]] ELSE s[k - 1]
  /\ s[Len(moves)] = SumFunctionOnSet(f, S)

LEMMA RunningSum ==
  ASSUME ListInv(moves), NEW S \in SUBSET DOMAIN moves, NEW f, IntOn(f, S)
  PROVE  \E s : Sums(s, S, f)
  <1>1. PICK n \in Nat : n = Len(moves)
    BY LengthIs
  <1>2. PICK rank : rank = [i \in DOMAIN moves |-> Rank(i)]
    OBVIOUS
  <1>3. PICK K : K = Kardex
    OBVIOUS
  <1>4. /\ \A i \in DOMAIN moves : rank[i] \in 1 .. n /\ K[rank[i]] = i
        /\ \A k \in 1 .. n : K[k] \in DOMAIN moves /\ rank[K[k]] = k
    BY <1>1, <1>2, <1>3, KardexIs, RanksHold DEF KardexOrders, RanksAre
  <1>5. IsFiniteSet(S)
    <2>1. IsFiniteSet(DOMAIN moves)
      BY LengthIs, <1>1, FS_Interval
    <2> QED
      BY <2>1, FS_Subset
  <1> DEFINE P(k) == {i \in S : rank[i] <= k}
  <1>6. PICK s : s = [k \in 0 .. n |-> SumFunctionOnSet(f, P(k))]
    OBVIOUS
  <1>7. \A k \in 0 .. n : IsFiniteSet(P(k)) /\ IntOn(f, P(k)) /\ s[k] = SumFunctionOnSet(f, P(k)) /\ s[k] \in Int
    <2> SUFFICES ASSUME NEW k \in 0 .. n
                 PROVE  IsFiniteSet(P(k)) /\ IntOn(f, P(k)) /\ s[k] = SumFunctionOnSet(f, P(k)) /\ s[k] \in Int
      OBVIOUS
    <2>1. IsFiniteSet(P(k)) /\ IntOn(f, P(k))
      BY <1>5, FS_Subset DEF IntOn
    <2>2. s[k] = SumFunctionOnSet(f, P(k))
      BY <1>6
    <2> QED
      BY <2>1, <2>2, SumInt
  <1>8. s[0] = 0
    <2>1. P(0) = {}
      BY <1>4
    <2> QED
      BY <1>7, <2>1, SumEmpty
  <1>9. s[n] = SumFunctionOnSet(f, S)
    <2>1. P(n) = S
      BY <1>4
    <2> QED
      BY <1>7, <2>1
  <1>10. ASSUME NEW k \in 1 .. n PROVE s[k] = IF K[k] \in S THEN s[k - 1] + f[K[k]] ELSE s[k - 1]
    <2>1. k \in 0 .. n /\ k - 1 \in 0 .. n
      OBVIOUS
    <2>2. \A i \in S : rank[i] \in Int /\ (rank[i] = k <=> i = K[k])
      BY <1>4
    <2>3. CASE K[k] \in S
      <3>1. P(k) = P(k - 1) \cup {K[k]} /\ K[k] \notin P(k - 1) /\ f[K[k]] \in Int
        BY <2>2, <2>3, <1>4 DEF IntOn
      <3>2. SumFunctionOnSet(f, P(k)) = f[K[k]] + SumFunctionOnSet(f, P(k - 1))
        <4> HIDE DEF P
        <4>1. PICK A, x : A = P(k - 1) /\ x = K[k]
          OBVIOUS
        <4>2. IsFiniteSet(A) /\ IntOn(f, A) /\ x \notin A /\ f[x] \in Int /\ P(k) = A \cup {x}
          BY <1>7, <2>1, <3>1, <4>1
        <4>3. SumFunctionOnSet(f, A \cup {x}) = f[x] + SumFunctionOnSet(f, A)
          BY <4>2, SumAdd
        <4> QED
          BY <4>1, <4>2, <4>3
      <3> HIDE DEF P
      <3> QED
        BY <1>7, <2>1, <2>3, <3>1, <3>2
    <2>4. CASE K[k] \notin S
      <3>1. P(k) = P(k - 1)
        BY <2>2, <2>4
      <3> HIDE DEF P
      <3> QED
        BY <1>7, <2>1, <2>4, <3>1
    <2> QED
      BY <2>3, <2>4
  <1>11. s \in [0 .. n -> Int]
    <2> HIDE DEF P
    <2> QED
      BY <1>6, <1>7
  <1> QED
    BY <1>1, <1>3, <1>8, <1>9, <1>10, <1>11 DEF Sums

\* The units at the end of a tape are those on hand, and without units there is
\* no basis anywhere on it.
SameStock(P) ==
  \A i \in DOMAIN moves : P[i].warehouse = moves[i].warehouse /\ P[i].quantity = moves[i].quantity

LEMMA TapeUnits ==
  ASSUME ListInv(moves), NEW P, SameStock(P), NEW w, NEW u, NEW b, Tape(P, Kardex, Len(moves), w, u, b)
  PROVE  u[Len(moves)] = OnHand(w) /\ OnHand(w) \in Int
  <1>1. PICK n \in Nat : n = Len(moves)
    BY LengthIs
  <1>2. PICK S : S = {i \in DOMAIN moves : moves[i].warehouse = w}
    OBVIOUS
  <1>3. PICK f : f = [i \in S |-> moves[i].quantity]
    OBVIOUS
  <1>4. \A i \in DOMAIN moves : moves[i].quantity \in Int
    BY RowsTyped DEF RowOK
  <1>5. S \in SUBSET DOMAIN moves /\ IntOn(f, S) /\ OnHand(w) = SumFunctionOnSet(f, S)
    BY <1>2, <1>3, <1>4 DEF IntOn, OnHand, SumOf
  <1>6. PICK s : Sums(s, S, f)
    BY <1>5, RunningSum
  <1>7. \A k \in 1 .. n : Kardex[k] \in DOMAIN moves
    BY <1>1, KardexIs DEF KardexOrders
  <1> DEFINE G == {k \in 0 .. n : u[k] = s[k]}
  <1>8. 0 \in G
    BY <1>6 DEF Sums, Tape
  <1>9. ASSUME NEW k \in 1 .. n, k - 1 \in G PROVE k \in G
    <2>1. u[k] = UnitsNext(u[k - 1], P[Kardex[k]], w)
      BY <1>1 DEF Tape
    <2>2. s[k] = IF Kardex[k] \in S THEN s[k - 1] + f[Kardex[k]] ELSE s[k - 1]
      BY <1>1, <1>6 DEF Sums
    <2>3. u[k - 1] = s[k - 1] /\ k \in 0 .. n
      BY <1>9
    <2> QED
      BY <1>2, <1>3, <1>7, <2>1, <2>2, <2>3 DEF UnitsNext, SameStock
  <1> HIDE DEF G
  <1>10. \A k \in 0 .. n : k \in G
    BY <1>8, <1>9, StepByStep
  <1>11. u[n] = s[n]
    BY <1>10 DEF G
  <1>12. s[n] = SumFunctionOnSet(f, S) /\ s[n] \in Int
    BY <1>1, <1>6 DEF Sums
  <1> QED
    BY <1>1, <1>5, <1>11, <1>12

\* One row of a warehouse, and what it does to the basis.
LEMMA NoUnitsNoBasis ==
  ASSUME NEW u \in Int, NEW b \in Nat, NEW q \in Nat, q # 0, NEW unit \in Nat, u <= 0 => b = 0
  PROVE  /\ u + q <= 0 => BasisIn(u, b, q, unit) = 0
         /\ u - q <= 0 => BasisOut(u, b, q, unit) = 0
         /\ u <= 0 => BasisIn(u, b, q, unit) = Over(u + q) * unit
  <1>1. 0 * unit = 0
    OBVIOUS
  <1>2. u + q <= 0 => BasisIn(u, b, q, unit) = 0
    <2>1. u + q <= 0 => ~(u >= 0) /\ Over(u + q) = 0
      BY DEF Over
    <2> QED
      BY <1>1, <2>1 DEF BasisIn
  <1>3. u <= 0 => BasisIn(u, b, q, unit) = Over(u + q) * unit
    <2>1. CASE u = 0
      <3>1. Over(u + q) = q /\ b = 0
        BY <2>1 DEF Over
      <3>2. q * unit \in Nat
        BY ProductNat
      <3> QED
        BY <2>1, <3>1, <3>2 DEF BasisIn
    <2>2. CASE u # 0
      BY <2>2 DEF BasisIn
    <2> QED
      BY <2>1, <2>2
  <1>4. u - q <= 0 => BasisOut(u, b, q, unit) = 0
    BY DEF BasisOut
  <1> QED
    BY <1>2, <1>3, <1>4

\* The rows of a list that a tape may be about.
Rows(M, n, K) ==
  \A k \in 1 .. n : M[K[k]].quantity \in Int /\ M[K[k]].quantity # 0 /\ M[K[k]].cost \in Nat

LEMMA KardexRows == ListInv(moves) /\ CostsOK(moves) => Rows(moves, Len(moves), Kardex)
  <1> SUFFICES ASSUME ListInv(moves), CostsOK(moves) PROVE Rows(moves, Len(moves), Kardex)
    OBVIOUS
  <1>1. \A k \in 1 .. Len(moves) : Kardex[k] \in DOMAIN moves
    BY KardexIs DEF KardexOrders
  <1>2. \A i \in DOMAIN moves : moves[i].quantity \in Int /\ moves[i].quantity # 0 /\ moves[i].cost \in Nat
    BY RowsTyped DEF RowOK, CostsOK
  <1> QED
    BY <1>1, <1>2 DEF Rows

LEMMA TapeBasis ==
  ASSUME NEW n \in Nat, NEW M, NEW K, Rows(M, n, K), NEW w, NEW u, NEW b, Tape(M, K, n, w, u, b)
  PROVE  \A k \in 0 .. n : u[k] <= 0 => b[k] = 0
  <1> DEFINE G == {k \in 0 .. n : u[k] <= 0 => b[k] = 0}
  <1>1. 0 \in G
    BY DEF Tape
  <1>2. ASSUME NEW k \in 1 .. n, k - 1 \in G PROVE k \in G
    <2>1. k - 1 \in 0 .. n /\ k \in 0 .. n /\ (u[k - 1] <= 0 => b[k - 1] = 0)
      BY <1>2
    <2>2. PICK x \in Int : x = u[k - 1]
      BY <2>1 DEF Tape
    <2>3. PICK y \in Nat : y = b[k - 1]
      BY <2>1 DEF Tape
    <2>4. PICK row : row = M[K[k]]
      OBVIOUS
    <2>5. row.quantity \in Int /\ row.quantity # 0 /\ row.cost \in Nat
      BY <2>4 DEF Rows
    <2>6. u[k] = UnitsNext(x, row, w) /\ b[k] = BasisNext(x, y, row, w)
      BY <2>2, <2>3, <2>4 DEF Tape
    <2>7. CASE row.warehouse # w
      BY <2>1, <2>2, <2>3, <2>6, <2>7 DEF UnitsNext, BasisNext
    <2>8. CASE row.warehouse = w /\ row.quantity > 0
      <3>1. row.quantity \in Nat /\ u[k] = x + row.quantity /\ b[k] = BasisIn(x, y, row.quantity, row.cost)
        BY <2>5, <2>6, <2>8 DEF UnitsNext, BasisNext
      <3>2. u[k] <= 0 => b[k] = 0
        BY <2>1, <2>2, <2>3, <2>5, <3>1, NoUnitsNoBasis
      <3> QED
        BY <2>1, <3>2
    <2>9. CASE row.warehouse = w /\ ~(row.quantity > 0)
      <3>1. PICK q \in Nat : q = -row.quantity
        BY <2>5, <2>9
      <3>2. q # 0 /\ u[k] = x - q /\ b[k] = BasisOut(x, y, q, row.cost)
        BY <2>5, <2>6, <2>9, <3>1 DEF UnitsNext, BasisNext
      <3>3. u[k] <= 0 => b[k] = 0
        BY <2>1, <2>2, <2>3, <2>5, <3>2, NoUnitsNoBasis
      <3> QED
        BY <2>1, <3>3
    <2> QED
      BY <2>7, <2>8, <2>9
  <1> HIDE DEF G
  <1>3. \A k \in 0 .. n : k \in G
    BY <1>1, <1>2, StepByStep
  <1> QED
    BY <1>3 DEF G

\* A row at another cost.
AtCost(row, c) ==
  [type |-> row.type, warehouse |-> row.warehouse, quantity |-> row.quantity, day |-> row.day,
   cost |-> c, temporary |-> row.temporary, before |-> row.before, src |-> row.src, ref |-> row.ref]

\* A layered replay is a plain one of the rows at what their goods came in at.
Revalued(D) ==
  [i \in DOMAIN moves |->
     AtCost(moves[i], IF moves[i].quantity > 0 THEN LayeredReplay(D).unit[i] ELSE moves[i].cost)]

ArrivalCost(D, s, i) ==
  (IF moves[i].type \in {"TRANSFER_IN", "SALES_RETURN"} THEN s.unit[moves[i].src] ELSE moves[i].cost)
  + Extra(D, i)

LEMMA LayeredAtDoes ==
  ASSUME ListInv(moves), CostsOK(moves), NEW D, Extras(D), NEW i \in DOMAIN moves, NEW s \in ReplayState,
         NEW t, t = LayeredAt(D, s, i)
  PROVE  /\ IF moves[i].quantity > 0
            THEN ArrivalCost(D, s, i) \in Nat /\ Arrives(s, t, i, ArrivalCost(D, s, i))
            ELSE Leaves(s, t, i)
         /\ t \in ReplayState
  <1>1. moves[i].cost \in Nat /\ Extra(D, i) \in Nat
    BY DEF CostsOK, Extras
  <1>2. moves[i].type \in {"TRANSFER_IN", "SALES_RETURN"} => s.unit[moves[i].src] \in Nat
    BY SourceIn DEF ReplayState
  <1>3. ArrivalCost(D, s, i) \in Nat
    BY <1>1, <1>2 DEF ArrivalCost
  <1>4. moves[i].quantity > 0 => t = Arrive(s, i, ArrivalCost(D, s, i))
    BY DEF LayeredAt, ArrivalCost
  <1>5. ~(moves[i].quantity > 0) => t = Leave(s, i)
    BY DEF LayeredAt
  <1>6. t \in ReplayState
    BY LayeredAtIs
  <1> QED
    BY <1>3, <1>4, <1>5, <1>6, ArriveIs, LeaveIs

\* The units and the basis of w, and what the others keep.
LEMMA LayeredAtWarehouse ==
  ASSUME ListInv(moves), CostsOK(moves), NEW D, Extras(D), NEW i \in DOMAIN moves, NEW s \in ReplayState,
         NEW t, t = LayeredAt(D, s, i), NEW row,
         row = AtCost(moves[i], IF moves[i].quantity > 0 THEN t.unit[i] ELSE moves[i].cost),
         NEW w \in Warehouse
  PROVE  /\ t.units[w] = UnitsNext(s.units[w], row, w)
         /\ t.basis[w] = BasisNext(s.units[w], s.basis[w], row, w)
         /\ \A j \in DOMAIN moves : j # i => t.unit[j] = s.unit[j] /\ t.relief[j] = s.relief[j]
  <1>1. /\ moves[i].cost \in Nat /\ moves[i].quantity \in Int
        /\ Units(i) = IF moves[i].quantity > 0 THEN moves[i].quantity ELSE -moves[i].quantity
    BY RowsTyped DEF CostsOK, RowOK, Units, Absolute
  <1>2. /\ s.units \in [Warehouse -> Int] /\ s.basis \in [Warehouse -> Nat]
        /\ s.unit \in [DOMAIN moves -> Nat] /\ s.relief \in [DOMAIN moves -> Nat]
    BY DEF ReplayState
  <1>3. PICK v \in Warehouse : v = moves[i].warehouse
    BY RowsTyped
  <1>4. row.warehouse = v /\ row.quantity = moves[i].quantity
    BY <1>3 DEF AtCost
  <1>5. CASE moves[i].quantity > 0
    <2>1. PICK c \in Nat : c = ArrivalCost(D, s, i) /\ Arrives(s, t, i, c)
      BY <1>5, LayeredAtDoes
    <2>2. /\ t.units = [s.units EXCEPT ![v] = @ + Units(i)]
          /\ t.basis = [s.basis EXCEPT ![v] = BasisIn(s.units[v], @, Units(i), c)]
          /\ t.unit = [s.unit EXCEPT ![i] = c] /\ t.relief = s.relief
      BY <1>3, <2>1 DEF Arrives
    <2>3. row.cost = c
      BY <1>2, <1>5, <2>2 DEF AtCost
    <2>4. CASE v = w
      BY <1>1, <1>2, <1>4, <1>5, <2>2, <2>3, <2>4 DEF UnitsNext, BasisNext
    <2>5. CASE v # w
      BY <1>1, <1>2, <1>4, <1>5, <2>2, <2>3, <2>5 DEF UnitsNext, BasisNext
    <2> QED
      BY <2>4, <2>5
  <1>6. CASE ~(moves[i].quantity > 0)
    <2>1. Leaves(s, t, i)
      BY <1>6, LayeredAtDoes
    <2>2. PICK c \in Nat : c = moves[i].cost
      BY <1>1
    <2>3. /\ t.units = [s.units EXCEPT ![v] = @ - Units(i)]
          /\ t.basis = [s.basis EXCEPT ![v] = BasisOut(s.units[v], @, Units(i), c)]
      BY <1>3, <2>1, <2>2 DEF Leaves
    <2>4. \A j \in DOMAIN moves : j # i => t.unit[j] = s.unit[j] /\ t.relief[j] = s.relief[j]
      BY <1>2, <2>1 DEF Leaves
    <2>5. row.cost = c
      BY <1>6, <2>2 DEF AtCost
    <2>6. CASE v = w
      BY <1>1, <1>2, <1>4, <1>6, <2>3, <2>4, <2>5, <2>6 DEF UnitsNext, BasisNext
    <2>7. CASE v # w
      BY <1>1, <1>2, <1>4, <1>6, <2>3, <2>4, <2>5, <2>7 DEF UnitsNext, BasisNext
    <2> QED
      BY <2>6, <2>7
  <1> QED
    BY <1>5, <1>6

\* What a movement came in or went out at stays what it is.
LEMMA PathRests ==
  ASSUME ListInv(moves), CostsOK(moves), NEW D, Extras(D), NEW r, LayeredPath(D, r),
         NEW k \in 1 .. Len(moves), NEW i, i = Kardex[k]
  PROVE  \A m \in k .. Len(moves) : r[m].unit[i] = r[k].unit[i] /\ r[m].relief[i] = r[k].relief[i]
  <1>1. PICK n \in Nat : n = Len(moves)
    BY LengthIs
  <1>2. /\ r \in [0 .. n -> ReplayState] /\ LayeredReplay(D) = r[n]
        /\ \A m \in 1 .. n : r[m] = LayeredAt(D, r[m - 1], Kardex[m])
    BY <1>1 DEF LayeredPath
  <1>3. /\ \A m \in 1 .. n : Kardex[m] \in DOMAIN moves
        /\ \A m \in 1 .. n : m # k => Kardex[m] # i
    BY <1>1, KardexIs DEF KardexOrders
  <1> DEFINE G == {m \in 0 .. n : m >= k => r[m].unit[i] = r[k].unit[i] /\ r[m].relief[i] = r[k].relief[i]}
  <1>4. 0 \in G
    BY <1>1
  <1>5. ASSUME NEW m \in 1 .. n, m - 1 \in G PROVE m \in G
    <2>1. CASE m <= k
      BY <1>1, <2>1
    <2>2. CASE m > k
      <3>1. m - 1 >= k /\ m - 1 \in 0 .. n
        BY <1>1, <2>2
      <3>2. r[m - 1] \in ReplayState /\ r[m] = LayeredAt(D, r[m - 1], Kardex[m])
        BY <1>2, <3>1
      <3>3. PICK w \in Warehouse : w = moves[i].warehouse
        BY <1>1, <1>3, RowsTyped
      <3>4. Kardex[m] # i /\ i \in DOMAIN moves /\ Kardex[m] \in DOMAIN moves
        BY <1>1, <1>3, <2>2
      <3>5. r[m].unit[i] = r[m - 1].unit[i] /\ r[m].relief[i] = r[m - 1].relief[i]
        <4>1. PICK j \in DOMAIN moves : j = Kardex[m]
          BY <3>4
        <4>2. PICK t : t = r[m]
          OBVIOUS
        <4>3. PICK s \in ReplayState : s = r[m - 1]
          BY <3>2
        <4>4. t = LayeredAt(D, s, j)
          BY <3>2, <4>1, <4>2, <4>3
        <4>5. \A e \in DOMAIN moves : e # j => t.unit[e] = s.unit[e] /\ t.relief[e] = s.relief[e]
          BY <3>3, <4>4, LayeredAtWarehouse
        <4> QED
          BY <3>4, <4>1, <4>2, <4>3, <4>5
      <3>6. r[m - 1].unit[i] = r[k].unit[i] /\ r[m - 1].relief[i] = r[k].relief[i]
        BY <1>5, <3>1
      <3> QED
        BY <3>5, <3>6
    <2> QED
      BY <1>1, <2>1, <2>2
  <1> HIDE DEF G
  <1>6. \A m \in 0 .. n : m \in G
    BY <1>4, <1>5, StepByStep
  <1>7. \A m \in k .. n : m \in G /\ m >= k
    BY <1>1, <1>6
  <1> QED
    BY <1>1, <1>7 DEF G

LEMMA PathKeeps ==
  ASSUME ListInv(moves), CostsOK(moves), NEW D, Extras(D), NEW r, LayeredPath(D, r),
         NEW k \in 1 .. Len(moves), NEW i, i = Kardex[k]
  PROVE  /\ LayeredReplay(D).unit[i] = r[k].unit[i]
         /\ LayeredReplay(D).relief[i] = r[k].relief[i]
  <1>1. Len(moves) \in k .. Len(moves) /\ LayeredReplay(D) = r[Len(moves)]
    BY LengthIs DEF LayeredPath
  <1> QED
    BY <1>1, PathRests

LayeredTape(D, w, u, b) ==
  /\ Tape(Revalued(D), Kardex, Len(moves), w, u, b)
  /\ LayeredReplay(D).units[w] = u[Len(moves)] /\ LayeredReplay(D).basis[w] = b[Len(moves)]

LEMMA RevaluedIs ==
  ASSUME ListInv(moves), CostsOK(moves), NEW D, Extras(D)
  PROVE  /\ SameStock(Revalued(D)) /\ CostsOK(Revalued(D)) /\ DOMAIN Revalued(D) = DOMAIN moves
         /\ LayeredReplay(D) \in ReplayState
  <1>1. PICK n \in Nat : n = Len(moves)
    BY LengthIs
  <1>2. PICK r : LayeredPath(D, r)
    BY LayeredWalks
  <1>3. LayeredReplay(D) \in ReplayState
    BY <1>1, <1>2 DEF LayeredPath
  <1>4. \A i \in DOMAIN moves : LayeredReplay(D).unit[i] \in Nat /\ moves[i].cost \in Nat
    BY <1>3 DEF ReplayState, CostsOK
  <1>5. CostsOK(Revalued(D))
    BY <1>4 DEF Revalued, AtCost, CostsOK
  <1> QED
    BY <1>3, <1>5 DEF Revalued, AtCost, SameStock

LEMMA LayeredTapes ==
  ASSUME ListInv(moves), CostsOK(moves), NEW D, Extras(D), NEW r, LayeredPath(D, r), NEW w \in Warehouse
  PROVE  LayeredTape(D, w, [k \in 0 .. Len(moves) |-> r[k].units[w]], [k \in 0 .. Len(moves) |-> r[k].basis[w]])
  <1>1. PICK n \in Nat : n = Len(moves)
    BY LengthIs
  <1>3. /\ r \in [0 .. n -> ReplayState] /\ r[0] = Start /\ LayeredReplay(D) = r[n]
        /\ \A k \in 1 .. n : r[k] = LayeredAt(D, r[k - 1], Kardex[k])
    BY <1>1 DEF LayeredPath
  <1>4. PICK u : u = [k \in 0 .. n |-> r[k].units[w]]
    OBVIOUS
  <1>5. PICK b : b = [k \in 0 .. n |-> r[k].basis[w]]
    OBVIOUS
  <1>6. \A k \in 0 .. n : u[k] = r[k].units[w] /\ b[k] = r[k].basis[w] /\ u[k] \in Int /\ b[k] \in Nat
    BY <1>3, <1>4, <1>5 DEF ReplayState
  <1>7. u \in [0 .. n -> Int] /\ b \in [0 .. n -> Nat]
    BY <1>4, <1>5, <1>6
  <1>8. u[0] = 0 /\ b[0] = 0
    BY <1>3, <1>6 DEF Start
  <1>9. \A k \in 1 .. n : Kardex[k] \in DOMAIN moves
    BY <1>1, KardexIs DEF KardexOrders
  <1>10. ASSUME NEW k \in 1 .. n
         PROVE  /\ u[k] = UnitsNext(u[k - 1], Revalued(D)[Kardex[k]], w)
                /\ b[k] = BasisNext(u[k - 1], b[k - 1], Revalued(D)[Kardex[k]], w)
    <2>1. k - 1 \in 0 .. n /\ k \in 0 .. n
      OBVIOUS
    <2>2. PICK i \in DOMAIN moves : i = Kardex[k]
      BY <1>9
    <2>3. PICK s \in ReplayState : s = r[k - 1]
      BY <1>3, <2>1
    <2>4. PICK t : t = r[k]
      OBVIOUS
    <2>5. t = LayeredAt(D, s, i)
      BY <1>3, <2>2, <2>3, <2>4
    <2>6. LayeredReplay(D).unit[i] = t.unit[i]
      BY <1>1, <2>2, <2>4, PathKeeps
    <2>7. PICK row : row = AtCost(moves[i], IF moves[i].quantity > 0 THEN t.unit[i] ELSE moves[i].cost)
      OBVIOUS
    <2>8. Revalued(D)[Kardex[k]] = row
      BY <2>2, <2>6, <2>7 DEF Revalued
    <2>9. t.units[w] = UnitsNext(s.units[w], row, w) /\ t.basis[w] = BasisNext(s.units[w], s.basis[w], row, w)
      BY <2>5, <2>7, LayeredAtWarehouse
    <2> QED
      BY <1>6, <2>1, <2>3, <2>4, <2>8, <2>9
  <1>11. Tape(Revalued(D), Kardex, n, w, u, b)
    BY <1>7, <1>8, <1>10 DEF Tape
  <1>12. LayeredReplay(D).units[w] = u[n] /\ LayeredReplay(D).basis[w] = b[n]
    BY <1>3, <1>6
  <1> QED
    BY <1>1, <1>4, <1>5, <1>11, <1>12 DEF LayeredTape

\* What the valuation says of a warehouse.
ValuationIs(w) ==
  /\ Valuation.units[w] = OnHand(w) /\ OnHand(w) \in Int
  /\ Valuation.basis[w] \in Nat /\ (OnHand(w) <= 0 => Valuation.basis[w] = 0)
  /\ OnHand(w) > 0 => Average(w) = HalfUp(Valuation.basis[w], OnHand(w)) /\ Average(w) \in Nat

LEMMA TapeValues ==
  ASSUME ListInv(moves), NEW w \in Warehouse, NEW P, SameStock(P), CostsOK(P), DOMAIN P = DOMAIN moves,
         NEW u, NEW b, Tape(P, Kardex, Len(moves), w, u, b),
         Valuation.units[w] = u[Len(moves)], Valuation.basis[w] = b[Len(moves)]
  PROVE  ValuationIs(w)
  <1>1. PICK n \in Nat : n = Len(moves)
    BY LengthIs
  <1>2. u[n] = OnHand(w) /\ OnHand(w) \in Int
    BY <1>1, TapeUnits
  <1>3. b[n] \in Nat /\ n \in 0 .. n
    BY <1>1 DEF Tape
  <1>4. Rows(P, n, Kardex)
    <2>1. \A k \in 1 .. n : Kardex[k] \in DOMAIN moves
      BY <1>1, KardexIs DEF KardexOrders
    <2>2. \A i \in DOMAIN moves : P[i].quantity \in Int /\ P[i].quantity # 0 /\ P[i].cost \in Nat
      BY RowsTyped DEF RowOK, CostsOK, SameStock
    <2> QED
      BY <2>1, <2>2 DEF Rows
  <1>5. u[n] <= 0 => b[n] = 0
    BY <1>1, <1>3, <1>4, TapeBasis
  <1>6. Average(w) = HalfUp(b[n], u[n])
    BY <1>1 DEF Average
  <1>7. OnHand(w) > 0 => HalfUp(b[n], u[n]) \in Nat
    <2> SUFFICES ASSUME OnHand(w) > 0 PROVE HalfUp(b[n], u[n]) \in Nat
      OBVIOUS
    <2>1. PICK x \in Nat \ {0} : x = u[n]
      BY <1>2
    <2>2. PICK y \in Nat : y = b[n]
      BY <1>3
    <2> QED
      BY <2>1, <2>2, HalfUpNat
  <1> QED
    BY <1>1, <1>2, <1>3, <1>5, <1>6, <1>7 DEF ValuationIs

LEMMA ValuationHolds ==
  ASSUME ListInv(moves), CostsOK(moves), SharesOK, NEW w \in Warehouse
  PROVE  ValuationIs(w)
  <1>1. CASE Active = {}
    <2>1. PICK u, b : PlainTape(w, u, b)
      BY PlainTapes
    <2>2. Valuation = PlainReplay /\ SameStock(moves)
      BY <1>1 DEF Valuation, SameStock
    <2> QED
      BY <2>1, <2>2, TapeValues DEF PlainTape
  <1>2. CASE Active # {}
    <2>1. PICK D \in SUBSET DOMAIN costs : D = Active
      BY DEF Active
    <2>2. Extras(D)
      BY <2>1, ExtraNat
    <2>3. PICK r : LayeredPath(D, r)
      BY <2>2, LayeredWalks
    <2>4. PICK u, b : LayeredTape(D, w, u, b)
      BY <2>2, <2>3, LayeredTapes
    <2>5. Valuation = LayeredReplay(D)
      BY <1>2, <2>1 DEF Valuation
    <2>6. SameStock(Revalued(D)) /\ CostsOK(Revalued(D)) /\ DOMAIN Revalued(D) = DOMAIN moves
      BY <2>2, RevaluedIs
    <2> QED
      BY <2>4, <2>5, <2>6, TapeValues DEF LayeredTape
  <1> QED
    BY <1>1, <1>2

-----------------------------------------------------------------------------
(* A cycle starts clean.                                                    *)

\* After the last row of a warehouse nothing changes on its tape.
LEMMA TapeRests ==
  ASSUME NEW n \in Nat, NEW M, NEW K, NEW w, NEW u, NEW b, Tape(M, K, n, w, u, b),
         NEW m \in 0 .. n, \A k \in 1 .. n : k > m => M[K[k]].warehouse # w
  PROVE  u[n] = u[m] /\ b[n] = b[m]
  <1> DEFINE G == {k \in 0 .. n : k >= m => u[k] = u[m] /\ b[k] = b[m]}
  <1>1. 0 \in G
    OBVIOUS
  <1>2. ASSUME NEW k \in 1 .. n, k - 1 \in G PROVE k \in G
    <2>1. k \in 0 .. n /\ k - 1 \in 0 .. n
      OBVIOUS
    <2>2. CASE k > m
      <3>1. M[K[k]].warehouse # w /\ k - 1 >= m
        BY <2>2
      <3>2. u[k] = u[k - 1] /\ b[k] = b[k - 1]
        BY <3>1 DEF Tape, UnitsNext, BasisNext
      <3> QED
        BY <1>2, <2>1, <3>1, <3>2
    <2>3. CASE ~(k > m)
      BY <2>1, <2>3
    <2> QED
      BY <2>2, <2>3
  <1> HIDE DEF G
  <1>3. \A k \in 0 .. n : k \in G
    BY <1>1, <1>2, StepByStep
  <1> QED
    BY <1>3 DEF G

LEMMA CycleStarts ==
  ASSUME ListInv(moves), CostsOK(moves), Active = {}, NEW i \in DOMAIN moves, NEW w,
         w = moves[i].warehouse,
         \A j \in DOMAIN moves : moves[j].warehouse = w => ~Earlier(i, j),
         OnHand(w) - moves[i].quantity <= 0, OnHand(w) > 0
  PROVE  Average(w) = moves[i].cost
  <1>1. PICK n \in Nat : n = Len(moves)
    BY LengthIs
  <1>2. w \in Warehouse
    BY RowsTyped
  <1>3. PICK u, b : PlainTape(w, u, b)
    BY <1>2, PlainTapes
  <1>4. Tape(moves, Kardex, n, w, u, b) /\ PlainReplay.basis[w] = b[n] /\ PlainReplay.units[w] = u[n]
    BY <1>1, <1>3 DEF PlainTape
  <1>5. u[n] = OnHand(w) /\ OnHand(w) \in Int
    BY <1>1, <1>4, TapeUnits DEF SameStock
  <1>6. PICK m \in 1 .. n : m = Rank(i)
    BY <1>1, RanksHold DEF RanksAre
  <1>7. Kardex[m] = i /\ m \in 0 .. n /\ m - 1 \in 0 .. n
    BY <1>6, KardexIs DEF KardexOrders
  <1>8. \A k \in 1 .. n : k > m => moves[Kardex[k]].warehouse # w
    <2> SUFFICES ASSUME NEW k \in 1 .. n, k > m PROVE moves[Kardex[k]].warehouse # w
      OBVIOUS
    <2>1. Kardex[k] \in DOMAIN moves /\ Rank(Kardex[k]) = k
      BY <1>1, KardexIs DEF KardexOrders
    <2>2. Kardex[k] # i
      BY <1>6, <2>1
    <2>3. Earlier(i, Kardex[k]) \/ Earlier(Kardex[k], i)
      BY <2>1, <2>2, EarlierIsOrder DEF EarlierOrders
    <2>4. Earlier(Kardex[k], i) => k < m
      BY <1>6, <2>1, RanksHold DEF RanksAre
    <2> QED
      BY <2>1, <2>3, <2>4
  <1>9. u[n] = u[m] /\ b[n] = b[m]
    BY <1>4, <1>7, <1>8, TapeRests
  <1>10. PICK x \in Int : x = u[m - 1]
    BY <1>4, <1>7 DEF Tape
  <1>11. PICK y \in Nat : y = b[m - 1]
    BY <1>4, <1>7 DEF Tape
  <1>12. PICK row : row = moves[i]
    OBVIOUS
  <1>13. row.quantity \in Int /\ row.cost \in Nat
    BY <1>12, RowsTyped DEF RowOK, CostsOK
  <1>14. u[m] = UnitsNext(x, row, w) /\ b[m] = BasisNext(x, y, row, w)
    BY <1>4, <1>7, <1>10, <1>11, <1>12 DEF Tape
  <1>15. u[m] = x + row.quantity /\ x <= 0 /\ row.quantity > 0
    BY <1>5, <1>9, <1>12, <1>13, <1>14 DEF UnitsNext
  <1>16. PICK q \in Nat : q = row.quantity /\ q # 0
    BY <1>13, <1>15
  <1>17. y = 0
    BY <1>1, <1>4, <1>7, <1>10, <1>11, <1>15, KardexRows, TapeBasis
  <1>18. b[m] = Over(x + q) * row.cost
    BY <1>12, <1>13, <1>14, <1>15, <1>16, <1>17, NoUnitsNoBasis DEF BasisNext
  <1>19. PICK z \in Nat \ {0} : z = u[n]
    BY <1>5
  <1>20. b[n] = z * row.cost
    BY <1>9, <1>15, <1>16, <1>18, <1>19 DEF Over
  <1>21. HalfUp(z * row.cost, z) = row.cost
    BY <1>13, <1>19, HalfUpExact
  <1>22. Average(w) = HalfUp(b[n], u[n])
    BY <1>4 DEF Average, Valuation
  <1> QED
    BY <1>12, <1>19, <1>20, <1>21, <1>22

LEMMA CyclesAreClean == ListInv(moves) /\ CostsOK(moves) => CyclesStartClean
  BY CycleStarts DEF CyclesStartClean

-----------------------------------------------------------------------------
(* The average lies between the costs.                                      *)

\* Basis b of u units of which e left at rounded costs.
Bounded(u, b, e, low, high) == u > 0 => 2 * b <= 2 * (u * high) + e /\ 2 * (u * low) <= 2 * b + e

LEMMA Products ==
  ASSUME NEW x \in Int, NEW y \in Int, NEW z \in Int
  PROVE  /\ (x + y) * z = x * z + y * z /\ (x - y) * z = x * z - y * z
         /\ x * z \in Int /\ y * z \in Int
  OBVIOUS

LEMMA ProductGrows ==
  ASSUME NEW x \in Nat, NEW y \in Int, NEW z \in Int, y <= z
  PROVE  x * y <= x * z
  <1>1. z - y \in Nat
    OBVIOUS
  <1>2. x * (z - y) \in Nat
    BY <1>1, ProductNat
  <1>3. x * (z - y) = x * z - x * y /\ x * z \in Int /\ x * y \in Int
    OBVIOUS
  <1> QED
    BY <1>2, <1>3

LEMMA BoundIn ==
  ASSUME NEW u \in Int, NEW b \in Nat, NEW e \in Nat, NEW q \in Nat, q # 0,
         NEW unit \in Nat, NEW low \in Nat, NEW high \in Nat, low <= unit, unit <= high,
         u <= 0 => b = 0, Bounded(u, b, e, low, high)
  PROVE  Bounded(u + q, BasisIn(u, b, q, unit), e, low, high)
  <1> SUFFICES ASSUME u + q > 0 PROVE Bounded(u + q, BasisIn(u, b, q, unit), e, low, high)
    BY DEF Bounded
  <1>1. CASE u > 0
    <2>1. q * low <= q * unit /\ q * unit <= q * high
      BY ProductGrows
    <2>2. /\ (u + q) * high = u * high + q * high /\ u * high \in Int /\ q * high \in Int
          /\ (u + q) * low = u * low + q * low /\ u * low \in Int /\ q * low \in Int
      BY Products
    <2>3. BasisIn(u, b, q, unit) = b + q * unit /\ q * unit \in Int
      BY <1>1, ProductNat DEF BasisIn
    <2>4. 2 * b <= 2 * (u * high) + e /\ 2 * (u * low) <= 2 * b + e
      BY <1>1 DEF Bounded
    <2>5. PICK c \in Int : c = q * unit
      BY <2>3
    <2>6. PICK h \in Int : h = u * high
      BY <2>2
    <2>7. PICK i \in Int : i = q * high
      BY <2>2
    <2>8. PICK k \in Int : k = u * low
      BY <2>2
    <2>9. PICK l \in Int : l = q * low
      BY <2>2
    <2>10. l <= c /\ c <= i /\ 2 * b <= 2 * h + e /\ 2 * k <= 2 * b + e
      BY <2>1, <2>4, <2>5, <2>6, <2>7, <2>8, <2>9
    <2>11. 2 * (b + c) <= 2 * (h + i) + e /\ 2 * (k + l) <= 2 * (b + c) + e
      BY <2>10
    <2>12. /\ BasisIn(u, b, q, unit) = b + c
           /\ (u + q) * high = h + i /\ (u + q) * low = k + l
      BY <2>2, <2>3, <2>5, <2>6, <2>7, <2>8, <2>9
    <2> QED
      BY <2>11, <2>12 DEF Bounded
  <1>2. CASE ~(u > 0)
    <2>1. PICK s \in Nat : s = u + q
      OBVIOUS
    <2>2. BasisIn(u, b, q, unit) = s * unit
      BY <1>2, <2>1, NoUnitsNoBasis DEF Over
    <2>3. s * low <= s * unit /\ s * unit <= s * high
      BY ProductGrows
    <2>4. s * low \in Int /\ s * unit \in Int /\ s * high \in Int
      OBVIOUS
    <2>5. 2 * (s * unit) <= 2 * (s * high) + e /\ 2 * (s * low) <= 2 * (s * unit) + e
      BY <2>3, <2>4
    <2> QED
      BY <2>1, <2>2, <2>5 DEF Bounded
  <1> QED
    BY <1>1, <1>2

LEMMA BoundOut ==
  ASSUME NEW u \in Int, NEW b \in Nat, NEW e \in Nat, NEW q \in Nat, q # 0,
         NEW unit \in Nat, NEW low \in Nat, NEW high \in Nat, low <= high,
         Bounded(u, b, e, low, high)
  PROVE  Bounded(u - q, BasisOut(u, b, q, unit), e + q, low, high)
  <1> SUFFICES ASSUME u - q > 0 PROVE Bounded(u - q, BasisOut(u, b, q, unit), e + q, low, high)
    BY DEF Bounded
  <1>1. PICK r \in Nat : r = u - q
    OBVIOUS
  <1>2. r > 0 /\ u = r + q /\ u \in Nat \ {0}
    BY <1>1
  <1>3. PICK a \in Nat : a = HalfUp(b, u)
    BY <1>2, HalfUpNat
  <1>4. 2 * (u * a) <= 2 * b + u /\ 2 * b <= 2 * (u * a) + u
    BY <1>2, <1>3, HalfUpIs
  <1>5. 2 * b <= 2 * (u * high) + e /\ 2 * (u * low) <= 2 * b + e
    BY <1>2 DEF Bounded
  <1>6. PICK t \in Nat : t = q * a
    BY ProductNat
  <1>7. BasisOut(u, b, q, unit) = Over(b - t)
    <2>1. Least(q, u) = q /\ Over(q) = q
      BY <1>2 DEF Least, Over
    <2>2. AverageOf(u, b, unit) = a
      BY <1>2, <1>3 DEF AverageOf
    <2>3. ReliefOf(u, b, q, unit) = t
      BY <1>6, <2>1, <2>2 DEF ReliefOf
    <2> QED
      BY <1>2, <2>3 DEF BasisOut
  <1>8. PICK ra \in Int : ra = r * a
    OBVIOUS
  <1>9. PICK rh \in Int : rh = r * high
    OBVIOUS
  <1>10. PICK qh \in Int : qh = q * high
    OBVIOUS
  <1>11. PICK rl \in Int : rl = r * low
    OBVIOUS
  <1>12. PICK ql \in Int : ql = q * low
    OBVIOUS
  <1>13. u * a = ra + t /\ u * high = rh + qh /\ u * low = rl + ql
    BY <1>2, <1>6, <1>8, <1>9, <1>10, <1>11, <1>12, Products
  <1>14. /\ 2 * (ra + t) <= 2 * b + u /\ 2 * b <= 2 * (ra + t) + u
         /\ 2 * b <= 2 * (rh + qh) + e /\ 2 * (rl + ql) <= 2 * b + e
    BY <1>4, <1>5, <1>13
  <1>15. rh \in Nat /\ rh >= rl
    BY <1>9, <1>11, ProductNat, ProductGrows
  <1>16. /\ a >= high => t >= qh
         /\ ~(a >= high) => ra + r <= rh
         /\ a <= low => t <= ql
         /\ ~(a <= low) => ra >= rl + r
    <2>1. a >= high => t >= qh
      BY <1>6, <1>10, ProductGrows
    <2>2. ~(a >= high) => ra + r <= rh
      <3>1. ~(a >= high) => r * (a + 1) <= r * high
        BY ProductGrows
      <3>2. r * (a + 1) = r * a + r
        OBVIOUS
      <3> QED
        BY <1>8, <1>9, <3>1, <3>2
    <2>3. a <= low => t <= ql
      BY <1>6, <1>12, ProductGrows
    <2>4. ~(a <= low) => ra >= rl + r
      <3>1. ~(a <= low) => r * (low + 1) <= r * a
        BY ProductGrows
      <3>2. r * (low + 1) = r * low + r
        OBVIOUS
      <3> QED
        BY <1>8, <1>11, <3>1, <3>2
    <2> QED
      BY <2>1, <2>2, <2>3, <2>4
  <1>17. PICK c \in Nat : c = Over(b - t)
    <2>1. b - t \in Int
      OBVIOUS
    <2>2. Over(b - t) \in Nat
      BY <2>1 DEF Over
    <2> QED
      BY <2>2
  <1>18. c >= b - t /\ (c = 0 \/ c = b - t)
    BY <1>17 DEF Over
  <1>19. 2 * c <= 2 * rh + (e + q)
    BY <1>2, <1>14, <1>15, <1>16, <1>18
  <1>20. 2 * rl <= 2 * c + (e + q)
    BY <1>2, <1>14, <1>16, <1>18
  <1> QED
    BY <1>1, <1>7, <1>9, <1>11, <1>17, <1>19, <1>20 DEF Bounded

\* What left w along its tape.
Left(e, M, K, n, w) ==
  /\ e \in [0 .. n -> Int] /\ e[0] = 0
  /\ \A k \in 1 .. n : e[k] = IF M[K[k]].warehouse = w /\ M[K[k]].quantity < 0
                             THEN e[k - 1] - M[K[k]].quantity ELSE e[k - 1]

CostsWithin(M, K, n, w, low, high) ==
  \A k \in 1 .. n : M[K[k]].warehouse = w /\ M[K[k]].quantity > 0 =>
                       low <= M[K[k]].cost /\ M[K[k]].cost <= high

LEMMA TapeBounded ==
  ASSUME NEW n \in Nat, NEW M, NEW K, Rows(M, n, K), NEW w, NEW u, NEW b, Tape(M, K, n, w, u, b),
         NEW low \in Nat, NEW high \in Nat, low <= high,
         CostsWithin(M, K, n, w, low, high), NEW e, Left(e, M, K, n, w)
  PROVE  e[n] \in Nat /\ Bounded(u[n], b[n], e[n], low, high)
  <1> DEFINE G == {k \in 0 .. n : e[k] \in Nat /\ Bounded(u[k], b[k], e[k], low, high)}
  <1>1. 0 \in G
    BY DEF Tape, Bounded, Left
  <1>2. ASSUME NEW k \in 1 .. n, k - 1 \in G PROVE k \in G
    <2>1. k - 1 \in 0 .. n /\ k \in 0 .. n /\ (u[k - 1] <= 0 => b[k - 1] = 0)
      BY TapeBasis
    <2>2. PICK x \in Int : x = u[k - 1]
      BY <2>1 DEF Tape
    <2>3. PICK y \in Nat : y = b[k - 1]
      BY <2>1 DEF Tape
    <2>4. PICK z \in Nat : z = e[k - 1]
      BY <1>2
    <2>5. Bounded(x, y, z, low, high) /\ (x <= 0 => y = 0)
      BY <1>2, <2>1, <2>2, <2>3, <2>4
    <2>6. PICK row : row = M[K[k]]
      OBVIOUS
    <2>7. /\ row.quantity \in Int /\ row.quantity # 0 /\ row.cost \in Nat
          /\ row.warehouse = w /\ row.quantity > 0 => low <= row.cost /\ row.cost <= high
          /\ e[k] = IF row.warehouse = w /\ row.quantity < 0 THEN z - row.quantity ELSE z
      BY <2>4, <2>6 DEF Rows, CostsWithin, Left
    <2>8. u[k] = UnitsNext(x, row, w) /\ b[k] = BasisNext(x, y, row, w)
      BY <2>2, <2>3, <2>6 DEF Tape
    <2>9. CASE row.warehouse # w
      <3>1. u[k] = x /\ b[k] = y
        BY <2>8, <2>9 DEF UnitsNext, BasisNext
      <3>2. e[k] = z
        BY <2>7, <2>9
      <3> QED
        BY <2>1, <2>5, <3>1, <3>2
    <2>10. CASE row.warehouse = w /\ row.quantity > 0
      <3>1. PICK q \in Nat : q = row.quantity
        BY <2>7, <2>10
      <3>2. /\ u[k] = x + q /\ b[k] = BasisIn(x, y, q, row.cost)
            /\ e[k] = z /\ q # 0
        <4>1. u[k] = x + q /\ b[k] = BasisIn(x, y, q, row.cost)
          BY <2>7, <2>8, <2>10, <3>1 DEF UnitsNext, BasisNext
        <4>2. e[k] = z /\ q # 0
          BY <2>7, <2>10, <3>1
        <4> QED
          BY <4>1, <4>2
      <3>3. low <= row.cost /\ row.cost <= high
        BY <2>7, <2>10
      <3>4. Bounded(x + q, BasisIn(x, y, q, row.cost), z, low, high)
        BY <2>5, <2>7, <3>2, <3>3, BoundIn
      <3> QED
        BY <2>1, <3>2, <3>4
    <2>11. CASE row.warehouse = w /\ ~(row.quantity > 0)
      <3>1. PICK q \in Nat : q = -row.quantity
        BY <2>7, <2>11
      <3>2. /\ u[k] = x - q /\ b[k] = BasisOut(x, y, q, row.cost)
            /\ e[k] = z + q /\ q # 0
        <4>1. u[k] = x - q /\ b[k] = BasisOut(x, y, q, row.cost)
          BY <2>7, <2>8, <2>11, <3>1 DEF UnitsNext, BasisNext
        <4>2. e[k] = z + q /\ q # 0
          BY <2>7, <2>11, <3>1
        <4> QED
          BY <4>1, <4>2
      <3>3. Bounded(x - q, BasisOut(x, y, q, row.cost), z + q, low, high)
        BY <2>5, <2>7, <3>2, BoundOut
      <3> QED
        BY <2>1, <3>2, <3>3
    <2> QED
      BY <2>9, <2>10, <2>11
  <1> HIDE DEF G
  <1>3. n \in G
    <2>1. \A k \in 0 .. n : k \in G
      BY <1>1, <1>2, StepByStep
    <2> QED
      BY <2>1
  <1> QED
    BY <1>3 DEF G

Extremes(C, S, f) ==
  /\ Min(C) \in Nat /\ Max(C) \in Nat
  /\ \A x \in S : Min(C) <= f[x] /\ f[x] <= Max(C)

LEMMA CostExtremes ==
  ASSUME NEW S, IsFiniteSet(S), S # {}, NEW f, \A x \in S : f[x] \in Nat,
         NEW C, C = {f[x] : x \in S}
  PROVE  Extremes(C, S, f)
  <1>2. C \in SUBSET Nat /\ C # {}
    OBVIOUS
  <1>3. Min(C) \in C /\ \A y \in C : Min(C) <= y
    <2>1. \E y \in C : \A z \in C : y <= z
      BY <1>2, LeastNatural
    <2> QED
      BY <2>1, Zenon DEF Min
  <1>4. Max(C) \in C /\ \A y \in C : Max(C) >= y
    <2>1. PICK total : total = SumFunctionOnSet(f, S)
      OBVIOUS
    <2>2. total \in Nat /\ \A x \in S : f[x] <= total
      BY <2>1, SumNat, SumAtLeast
    <2>3. PICK T : T = {total - y : y \in C}
      OBVIOUS
    <2>4. T \in SUBSET Nat /\ T # {}
      <3>1. \A y \in C : total - y \in Nat
        BY <1>2, <2>2
      <3>2. PICK y : y \in C
        BY <1>2
      <3> QED
        BY <2>3, <3>1, <3>2
    <2>5. PICK m \in T : \A k \in T : m <= k
      BY <2>4, LeastNatural
    <2>6. PICK y \in C : m = total - y
      BY <2>3, <2>5
    <2>7. \A z \in C : y >= z
      <3> SUFFICES ASSUME NEW z \in C PROVE y >= z
        OBVIOUS
      <3>1. total - z \in T /\ y \in Nat /\ z \in Nat
        BY <1>2, <2>3
      <3>2. total - y <= total - z
        BY <2>5, <2>6, <3>1
      <3> QED
        BY <2>2, <3>1, <3>2
    <2>8. \E z \in C : \A x \in C : z >= x
      BY <2>7
    <2> QED
      BY <2>8, Zenon DEF Max
  <1> QED
    BY <1>2, <1>3, <1>4 DEF Extremes

LEMMA AveragesAreBetween ==
  ASSUME ListInv(moves), CostsOK(moves), Active = {}, NEW w \in Warehouse, OnHand(w) > 0,
         NEW came, came = {i \in DOMAIN moves : moves[i].warehouse = w /\ moves[i].quantity > 0},
         NEW went, went = {i \in DOMAIN moves : moves[i].warehouse = w /\ moves[i].quantity < 0},
         NEW C, C = {moves[i].cost : i \in came},
         NEW dust, dust = SumOf(went, Units) + OnHand(w)
  PROVE  /\ 2 * OnHand(w) * Average(w) <= 2 * OnHand(w) * Max(C) + dust
         /\ 2 * OnHand(w) * Average(w) >= 2 * OnHand(w) * Min(C) - dust
  <1>1. PICK n \in Nat : n = Len(moves)
    BY LengthIs
  <1>2. PICK u, b : PlainTape(w, u, b)
    BY PlainTapes
  <1>3. Tape(moves, Kardex, n, w, u, b) /\ PlainReplay.units[w] = u[n] /\ PlainReplay.basis[w] = b[n]
    BY <1>1, <1>2 DEF PlainTape
  <1>4. u[n] = OnHand(w) /\ OnHand(w) \in Int
    BY <1>1, <1>3, TapeUnits DEF SameStock
  <1>5. \A i \in DOMAIN moves : moves[i].quantity \in Int /\ moves[i].cost \in Nat
    BY RowsTyped DEF RowOK, CostsOK
  <1>6. \A k \in 1 .. n : Kardex[k] \in DOMAIN moves
    BY <1>1, KardexIs DEF KardexOrders
  <1>7. PICK M : M = moves
    OBVIOUS
  <1>8. PICK K : K = Kardex
    OBVIOUS
  <1>9. Rows(M, n, K)
    BY <1>1, <1>7, <1>8, KardexRows
  <1>10. IsFiniteSet(came) /\ IsFiniteSet(went) /\ went \in SUBSET DOMAIN moves
    <2>1. IsFiniteSet(DOMAIN moves)
      BY LengthIs, <1>1, FS_Interval
    <2> QED
      BY <2>1, FS_Subset
  <1>11. came # {}
    <2> SUFFICES ASSUME came = {} PROVE FALSE
      OBVIOUS
    <2> DEFINE G == {k \in 0 .. n : u[k] <= 0}
    <2>1. 0 \in G
      BY <1>3 DEF Tape
    <2>2. ASSUME NEW k \in 1 .. n, k - 1 \in G PROVE k \in G
      <3>1. k \in 0 .. n /\ k - 1 \in 0 .. n /\ u[k - 1] \in Int /\ u[k - 1] <= 0
        BY <1>3, <2>2 DEF Tape
      <3>2. u[k] = UnitsNext(u[k - 1], moves[Kardex[k]], w)
        BY <1>3 DEF Tape
      <3>3. moves[Kardex[k]].warehouse = w => moves[Kardex[k]].quantity <= 0
        BY <1>5, <1>6
      <3> QED
        BY <1>5, <1>6, <3>1, <3>2, <3>3 DEF UnitsNext
    <2> HIDE DEF G
    <2>3. \A k \in 0 .. n : k \in G
      BY <2>1, <2>2, StepByStep
    <2> QED
      BY <1>4, <2>3 DEF G
  <1>12. PICK price : price = [i \in came |-> moves[i].cost]
    OBVIOUS
  <1>13. Extremes(C, came, price)
    <2>1. C = {price[i] : i \in came} /\ \A i \in came : price[i] \in Nat
      BY <1>5, <1>12
    <2> QED
      BY <1>10, <1>11, <2>1, CostExtremes
  <1>14. PICK low \in Nat, high \in Nat : low = Min(C) /\ high = Max(C)
    BY <1>13 DEF Extremes
  <1>15. \A i \in came : low <= moves[i].cost /\ moves[i].cost <= high
    BY <1>12, <1>13, <1>14 DEF Extremes
  <1>16. low <= high
    BY <1>5, <1>11, <1>15
  <1>17. PICK f : f = [i \in went |-> Units(i)]
    OBVIOUS
  <1>18. /\ \A i \in went : f[i] \in Nat /\ f[i] = -moves[i].quantity
         /\ SumOf(went, Units) = SumFunctionOnSet(f, went)
    <2>1. \A i \in went : f[i] = Units(i) /\ Units(i) = -moves[i].quantity /\ Units(i) \in Nat
      <3>1. \A i \in went : i \in DOMAIN moves /\ moves[i].quantity < 0
        OBVIOUS
      <3> QED
        BY ONLY <1>5, <1>17, <3>1 DEF Units, Absolute
    <2> QED
      BY <1>17, <2>1 DEF SumOf
  <1>19. PICK e : Sums(e, went, f)
    <2>1. IntOn(f, went)
      BY <1>18 DEF IntOn
    <2> QED
      BY <1>10, <2>1, RunningSum
  <1>20. /\ e \in [0 .. n -> Int] /\ e[0] = 0 /\ e[n] = SumOf(went, Units)
         /\ \A k \in 1 .. n : e[k] = IF K[k] \in went THEN e[k - 1] + f[K[k]] ELSE e[k - 1]
    BY <1>1, <1>8, <1>18, <1>19 DEF Sums
  <1>21. \A k \in 1 .. n : e[k] = IF M[K[k]].warehouse = w /\ M[K[k]].quantity < 0
                                  THEN e[k - 1] - M[K[k]].quantity ELSE e[k - 1]
    <2> SUFFICES ASSUME NEW k \in 1 .. n
                 PROVE e[k] = IF M[K[k]].warehouse = w /\ M[K[k]].quantity < 0
                                  THEN e[k - 1] - M[K[k]].quantity ELSE e[k - 1]
      OBVIOUS
    <2>1. K[k] \in DOMAIN moves /\ M[K[k]].quantity \in Int
      BY <1>5, <1>6, <1>7, <1>8
    <2>2. K[k] \in went <=> M[K[k]].warehouse = w /\ M[K[k]].quantity < 0
      BY <1>7, <2>1
    <2>3. e[k - 1] \in Int
      BY <1>20
    <2> QED
      BY <1>7, <1>18, <1>20, <2>1, <2>2, <2>3
  <1>22. CostsWithin(M, K, n, w, low, high)
    BY <1>6, <1>7, <1>8, <1>15 DEF CostsWithin
  <1>23. e[n] \in Nat /\ Bounded(u[n], b[n], e[n], low, high)
    <2>1. Tape(M, K, n, w, u, b)
      BY <1>3, <1>7, <1>8
    <2>2. Left(e, M, K, n, w)
      BY <1>20, <1>21 DEF Left
    <2> QED
      BY <1>9, <1>16, <1>22, <2>1, <2>2, TapeBounded
  <1>24. PICK v \in Nat \ {0} : v = OnHand(w)
    BY <1>4
  <1>25. PICK y \in Nat : y = b[n]
    BY <1>3 DEF Tape
  <1>26. PICK a \in Nat : a = Average(w)
    <2>1. Average(w) = HalfUp(y, v)
      BY <1>3, <1>4, <1>24, <1>25 DEF Average, Valuation
    <2> QED
      BY <2>1, HalfUpNat
  <1>27. 2 * (v * a) <= 2 * y + v /\ 2 * y <= 2 * (v * a) + v
    <2>1. a = HalfUp(y, v)
      BY <1>3, <1>4, <1>24, <1>25, <1>26 DEF Average, Valuation
    <2> QED
      BY <2>1, HalfUpIs
  <1>28. 2 * y <= 2 * (v * high) + e[n] /\ 2 * (v * low) <= 2 * y + e[n]
    BY <1>4, <1>23, <1>24, <1>25 DEF Bounded
  <1>29. dust = e[n] + v
    BY <1>20, <1>24
  <1>30. v * a \in Int /\ v * high \in Int /\ v * low \in Int
    OBVIOUS
  <1>31. 2 * (v * a) <= 2 * (v * high) + dust /\ 2 * (v * a) >= 2 * (v * low) - dust
    BY <1>23, <1>27, <1>28, <1>29, <1>30
  <1>32. 2 * v * a = 2 * (v * a) /\ 2 * v * high = 2 * (v * high) /\ 2 * v * low = 2 * (v * low)
    OBVIOUS
  <1> QED
    BY <1>14, <1>24, <1>26, <1>31, <1>32

LEMMA AveragesHold == ListInv(moves) /\ CostsOK(moves) => AverageIsBetweenCosts
  <1> SUFFICES ASSUME ListInv(moves), CostsOK(moves), NEW w \in Warehouse, Active = {}, OnHand(w) > 0
               PROVE  LET came == {i \in DOMAIN moves : moves[i].warehouse = w /\ moves[i].quantity > 0}
                          went == {i \in DOMAIN moves : moves[i].warehouse = w /\ moves[i].quantity < 0}
                          low == Min({moves[i].cost : i \in came})
                          high == Max({moves[i].cost : i \in came})
                          units == OnHand(w)
                          average == Average(w)
                          dust == SumOf(went, Units) + units
                      IN /\ 2 * units * average <= 2 * units * high + dust
                         /\ 2 * units * average >= 2 * units * low - dust
    BY DEF AverageIsBetweenCosts
  <1> QED
    BY AveragesAreBetween

-----------------------------------------------------------------------------
(* Types.                                                                   *)
TypedRow(row, n) ==
  /\ row \in Movement
  /\ row.quantity > 0 <=> row.type \in InTypes
  /\ row.src \in 0 .. (n - 1)
  /\ row.ref \in 1 .. n

TypedMoves(M) == M \in Seq(Movement) /\ \A i \in DOMAIN M : TypedRow(M[i], i)

TypedBooks(I, c, p) == I \in [Warehouse -> Int] /\ c \in Int /\ p \in Int

\* What both Spec and CostSpec keep.
ValueInv == StockInv /\ TypeOK /\ SharesOK

LEMMA TypeOKIs == TypeOK <=> /\ TypedMoves(moves) /\ links \subseteq Link
                             /\ settled \subseteq DOMAIN moves /\ TypedBooks(inventory, cogs, payable)
  <1>1. TypeOK <=> /\ moves \in Seq(Movement)
                   /\ \A i \in DOMAIN moves : /\ moves[i].quantity > 0 <=> moves[i].type \in InTypes
                                              /\ moves[i].src \in 0 .. (i - 1)
                                              /\ moves[i].ref \in 1 .. i
                   /\ links \subseteq Link /\ settled \subseteq DOMAIN moves
                   /\ TypedBooks(inventory, cogs, payable)
    BY DEF TypeOK, TypedBooks
  <1>2. moves \in Seq(Movement) => \A i \in DOMAIN moves : moves[i] \in Movement
    OBVIOUS
  <1> QED
    BY <1>1, <1>2 DEF TypedMoves, TypedRow

LEMMA ValueInvIs ==
  ASSUME ValueInv
  PROVE  /\ ListInv(moves) /\ LinksFit(moves, links) /\ CostsOK(moves) /\ SharesOK
         /\ \A w \in Warehouse : ValuationIs(w)
         /\ TypedMoves(moves) /\ TypedBooks(inventory, cogs, payable)
  <1>1. ListInv(moves) /\ LinksFit(moves, links)
    BY DEF ValueInv, StockInv
  <1>2. TypedMoves(moves) /\ TypedBooks(inventory, cogs, payable)
    BY TypeOKIs DEF ValueInv
  <1>3. CostsOK(moves)
    BY <1>2 DEF TypedMoves, TypedRow, Movement, CostsOK
  <1>4. SharesOK
    BY DEF ValueInv
  <1> QED
    BY <1>1, <1>2, <1>3, <1>4, ValuationHolds

LEMMA IssueCostIs ==
  ASSUME ValueInv, NEW w \in Warehouse, NEW q \in Nat, q # 0, NEW cost \in IssueCosts(w, q)
  PROVE  cost \in Nat
  <1>1. ValuationIs(w)
    BY ValueInvIs
  <1>2. CASE OnHand(w) < q
    BY <1>2, StockAssumption DEF IssueCosts
  <1>3. CASE ~(OnHand(w) < q)
    <2>1. OnHand(w) > 0
      BY <1>1, <1>3 DEF ValuationIs
    <2> QED
      BY <1>1, <1>3, <2>1 DEF IssueCosts, ValuationIs
  <1> QED
    BY <1>2, <1>3

LEMMA ValueInt == ASSUME NEW q \in Int, NEW cost \in Int PROVE Value(q, cost) \in Int
  <1>1. PICK n \in Int : n = q * cost
    OBVIOUS
  <1>2. Cent \in Nat \ {0}
    BY StockAssumption
  <1>3. HalfUp(n, Cent) \in Int
    BY <1>2, HalfUpIs
  <1> QED
    BY <1>1, <1>3 DEF Value

LEMMA RowTyped ==
  ASSUME ValueInv, NEW type \in InTypes \cup OutTypes, NEW w \in Warehouse, NEW q \in Nat, q # 0,
         NEW d \in Day, NEW cost \in Nat, NEW temporary \in BOOLEAN,
         NEW n \in Nat, Len(moves) + 1 <= n, NEW src \in 0 .. (n - 1),
         type \in ReturnTypes => src \in DOMAIN moves
  PROVE  TypedRow(Row(type, w, q, d, cost, temporary, src), n)
  <1>1. ListInv(moves) /\ TypedMoves(moves) /\ OnHand(w) \in Int
    BY ValueInvIs DEF ValuationIs
  <1>2. PICK row : row = Row(type, w, q, d, cost, temporary, src)
    OBVIOUS
  <1>3. PICK before \in Int : before = OnHand(w)
    BY <1>1
  <1>4. PICK ref \in 1 .. n :
          ref = IF type \in {"SALES_RETURN", "PURCHASE_RETURN"} THEN moves[src].ref ELSE Len(moves) + 1
    <2>1. CASE type \in ReturnTypes
      <3>1. src \in DOMAIN moves /\ src < n
        BY <2>1
      <3>2. moves[src].ref \in 1 .. src
        BY <1>1, <3>1 DEF TypedMoves, TypedRow
      <3> QED
        BY <2>1, <3>1, <3>2, LengthIs, <1>1 DEF ReturnTypes
    <2>2. CASE type \notin ReturnTypes
      <3>1. Len(moves) + 1 \in 1 .. n
        BY <1>1, LengthIs
      <3> QED
        BY <2>2, <3>1 DEF ReturnTypes
    <2> QED
      BY <2>1, <2>2
  <1>5. PICK k \in Int \ {0} : k = (IF type \in InTypes THEN q ELSE -q)
    OBVIOUS
  <1>6. row = [type |-> type, warehouse |-> w, quantity |-> k, day |-> d, cost |-> cost,
               temporary |-> temporary, before |-> before, src |-> src, ref |-> ref]
    BY <1>2, <1>3, <1>4, <1>5 DEF Row
  <1>7. row \in Movement
    BY <1>6 DEF Movement
  <1>8. row.quantity > 0 <=> row.type \in InTypes
    BY <1>5, <1>6
  <1> QED
    BY <1>2, <1>6, <1>7, <1>8 DEF TypedRow

LEMMA RefTyped ==
  ASSUME NEW n \in Nat, NEW row, TypedRow(row, n), NEW ref \in 1 .. n
  PROVE  TypedRow([row EXCEPT !.ref = ref], n)
  BY DEF TypedRow, Movement

LEMMA AppendTyped ==
  ASSUME NEW M, TypedMoves(M), NEW row, TypedRow(row, Len(M) + 1)
  PROVE  TypedMoves(Append(M, row)) /\ DOMAIN M \subseteq DOMAIN Append(M, row)
  <1>1. M \in Seq(Movement) /\ row \in Movement
    BY DEF TypedMoves, TypedRow
  <1>2. PICK n \in Nat : n = Len(M) /\ DOMAIN M = 1 .. n
    BY <1>1
  <1>3. PICK N : N = Append(M, row)
    OBVIOUS
  <1>4. N \in Seq(Movement) /\ Len(N) = n + 1 /\ DOMAIN N = 1 .. (n + 1)
    BY <1>1, <1>2, <1>3
  <1>5. N[n + 1] = row /\ \A i \in 1 .. n : N[i] = M[i]
    BY <1>1, <1>2, <1>3
  <1>6. \A i \in 1 .. n : TypedRow(M[i], i)
    BY <1>2 DEF TypedMoves
  <1>7. TypedRow(row, n + 1)
    BY <1>2
  <1>8. \A i \in 1 .. (n + 1) : i \in 1 .. n \/ i = n + 1
    BY <1>2
  <1>9. \A i \in DOMAIN N : TypedRow(N[i], i)
    BY <1>4, <1>5, <1>6, <1>7, <1>8
  <1>10. DOMAIN M \subseteq DOMAIN N
    BY <1>2, <1>4
  <1> QED
    BY <1>3, <1>4, <1>9, <1>10 DEF TypedMoves

LEMMA AppendTwoTyped ==
  ASSUME NEW M, TypedMoves(M), NEW a, NEW b, TypedRow(a, Len(M) + 1), TypedRow(b, Len(M) + 2)
  PROVE  TypedMoves(M \o <<a, b>>) /\ DOMAIN M \subseteq DOMAIN (M \o <<a, b>>)
  <1>1. M \in Seq(Movement) /\ a \in Movement /\ b \in Movement
    BY DEF TypedMoves, TypedRow
  <1>2. PICK N : N = Append(M, a)
    OBVIOUS
  <1>3. TypedMoves(N) /\ DOMAIN M \subseteq DOMAIN N
    BY <1>2, AppendTyped
  <1>4. Len(N) + 1 = Len(M) + 2
    BY <1>1, <1>2
  <1>5. TypedMoves(Append(N, b)) /\ DOMAIN N \subseteq DOMAIN Append(N, b)
    BY <1>3, <1>4, AppendTyped
  <1>6. M \o <<a, b>> = Append(N, b)
    BY <1>1, <1>2
  <1> QED
    BY <1>3, <1>5, <1>6

\* What a step writes, and what becomes of the books.
TypedStep ==
  /\ TypedMoves(moves') /\ DOMAIN moves \subseteq DOMAIN moves'
  /\ TypedBooks(inventory', cogs', payable') /\ costs' = costs
KeepsRest == links' = links /\ settled' = settled

LEMMA MoveTyped ==
  ASSUME ValueInv, NEW type \in InTypes \cup OutTypes, NEW w \in Warehouse, NEW q \in Nat, q # 0,
         NEW d \in Day, NEW cost \in Nat, NEW temporary \in BOOLEAN, NEW src \in 0 .. Len(moves),
         type \in ReturnTypes => src # 0, Move(type, w, q, d, cost, temporary, src)
  PROVE  TypedMoves(moves') /\ DOMAIN moves \subseteq DOMAIN moves'
  <1>1. Len(moves) \in Nat /\ DOMAIN moves = 1 .. Len(moves) /\ TypedMoves(moves)
    BY ValueInvIs, LengthIs
  <1>2. PICK n \in Nat : n = Len(moves) + 1
    BY <1>1
  <1>3. src \in 0 .. (n - 1) /\ (type \in ReturnTypes => src \in DOMAIN moves) /\ Len(moves) + 1 <= n
    BY <1>1, <1>2
  <1>4. PICK row : row = Row(type, w, q, d, cost, temporary, src)
    OBVIOUS
  <1>5. TypedRow(row, n)
    BY <1>3, <1>4, RowTyped
  <1>6. moves' = Append(moves, row)
    BY <1>4 DEF Move
  <1>7. PICK M : M = moves
    OBVIOUS
  <1>8. TypedMoves(Append(M, row)) /\ DOMAIN M \subseteq DOMAIN Append(M, row)
    BY <1>1, <1>2, <1>5, <1>7, AppendTyped
  <1> QED
    BY <1>6, <1>7, <1>8

Moves(type, w, q, d, cost, temporary, src) ==
  /\ type \in InTypes \cup OutTypes /\ w \in Warehouse /\ q \in Nat /\ q # 0
  /\ d \in Day /\ cost \in Nat /\ temporary \in BOOLEAN /\ src \in 0 .. Len(moves)
  /\ type \in ReturnTypes => src # 0
  /\ Move(type, w, q, d, cost, temporary, src)

LEMMA MovesTyped ==
  ASSUME ValueInv, NEW type, NEW w, NEW q, NEW d, NEW cost, NEW temporary, NEW src,
         Moves(type, w, q, d, cost, temporary, src)
  PROVE  TypedMoves(moves') /\ DOMAIN moves \subseteq DOMAIN moves'
  BY MoveTyped DEF Moves

LEMMA CogsTyped ==
  ASSUME TypedBooks(inventory, cogs, payable), NEW w \in Warehouse, NEW v \in Int, ToCogs(w, v)
  PROVE  TypedBooks(inventory', cogs', payable')
  BY DEF TypedBooks, ToCogs

LEMMA SupplierTyped ==
  ASSUME TypedBooks(inventory, cogs, payable), NEW w \in Warehouse, NEW v \in Int, FromSupplier(w, v)
  PROVE  TypedBooks(inventory', cogs', payable')
  BY DEF TypedBooks, FromSupplier

LEMMA DataInputs ==
  /\ \A q \in Quantity : q \in Nat /\ q # 0
  /\ \A cost \in Cost : cost \in Nat
  /\ \A total \in Total : total \in Nat /\ total # 0
  /\ Cent \in Nat \ {0}
  BY StockAssumption

LEMMA BelowIs ==
  ASSUME ValueInv, NEW w \in Warehouse, NEW q \in Nat
  PROVE  Below(w, q) \in BOOLEAN
  BY DEF Below

LEMMA OpenTyped ==
  ASSUME ValueInv, NEW w \in Warehouse, NEW q \in Quantity, NEW d \in Day, NEW cost \in Cost,
         OpenStock(w, q, cost, d) \/ AdjustIn(w, q, cost, d)
  PROVE  TypedStep /\ KeepsRest
  <1>1. q \in Nat /\ q # 0 /\ cost \in Nat
    BY DataInputs
  <1>2. TypedBooks(inventory, cogs, payable)
    BY ValueInvIs
  <1>3. 0 \in 0 .. Len(moves) /\ {"OPENING", "ADJUSTMENT_IN"} \subseteq InTypes \cup OutTypes
        /\ "OPENING" \notin ReturnTypes /\ "ADJUSTMENT_IN" \notin ReturnTypes
    BY ValueInvIs, LengthIs DEF InTypes, ReturnTypes
  <1>4. PICK v \in Int : v = Value(q, cost)
    BY <1>1, ValueInt
  <1>5. CASE OpenStock(w, q, cost, d)
    <2>1. Move("OPENING", w, q, d, cost, FALSE, 0)
      BY <1>5 DEF OpenStock
    <2>2. TypedMoves(moves') /\ DOMAIN moves \subseteq DOMAIN moves'
      BY <1>1, <1>3, <2>1, MoveTyped
    <2>3. inventory' = [inventory EXCEPT ![w] = @ + v] /\ cogs' = cogs /\ payable' = payable
          /\ links' = links /\ settled' = settled /\ costs' = costs
      BY <1>4, <1>5 DEF OpenStock, Unlinked
    <2>4. TypedBooks(inventory', cogs', payable')
      BY <1>2, <2>3 DEF TypedBooks
    <2> QED
      BY <2>2, <2>3, <2>4 DEF TypedStep, KeepsRest
  <1>6. CASE AdjustIn(w, q, cost, d)
    <2>1. Move("ADJUSTMENT_IN", w, q, d, cost, FALSE, 0)
      BY <1>6 DEF AdjustIn
    <2>2. TypedMoves(moves') /\ DOMAIN moves \subseteq DOMAIN moves'
      BY <1>1, <1>3, <2>1, MoveTyped
    <2>3. inventory' = inventory /\ cogs' = cogs /\ payable' = payable
          /\ links' = links /\ settled' = settled /\ costs' = costs
      BY <1>6 DEF AdjustIn, accounts, Unlinked
    <2> QED
      BY <1>2, <2>2, <2>3 DEF TypedStep, KeepsRest
  <1> QED
    BY <1>5, <1>6

LEMMA SellTyped ==
  ASSUME ValueInv, NEW w \in Warehouse, NEW q \in Quantity, NEW d \in Day, NEW cost,
         Sell(w, q, d, cost) \/ \E type \in {"ADJUSTMENT_OUT", "SHORTAGE"} : TakeOut(type, w, q, d, cost)
  PROVE  TypedStep /\ KeepsRest
  <1>1. q \in Nat /\ q # 0
    BY DataInputs
  <1>2. TypedBooks(inventory, cogs, payable)
    BY ValueInvIs
  <1>3. 0 \in 0 .. Len(moves) /\ Below(w, q) \in BOOLEAN
    BY ValueInvIs, LengthIs, BelowIs, <1>1
  <1>4. cost \in Nat
    <2>1. cost \in IssueCosts(w, q)
      BY DEF Sell, TakeOut
    <2> QED
      BY <1>1, <2>1, IssueCostIs
  <1>5. PICK below \in BOOLEAN : below = Below(w, q)
    BY <1>3
  <1>6. CASE Sell(w, q, d, cost)
    <2>1. Move("SALES_ISSUE", w, q, d, cost, below, 0) /\ ToCogs(w, Value(q, cost))
          /\ links' = links /\ settled' = settled /\ costs' = costs
      BY <1>5, <1>6 DEF Sell, Unlinked
    <2>2. "SALES_ISSUE" \in InTypes \cup OutTypes /\ "SALES_ISSUE" \notin ReturnTypes
      BY DEF OutTypes, ReturnTypes
    <2>3. TypedMoves(moves') /\ DOMAIN moves \subseteq DOMAIN moves'
      <3>1. Moves("SALES_ISSUE", w, q, d, cost, below, 0)
        BY <1>1, <1>3, <1>4, <2>1, <2>2 DEF Moves
      <3> QED
        BY <3>1, MovesTyped
    <2>4. TypedBooks(inventory', cogs', payable')
      BY <1>1, <1>2, <1>4, <2>1, ValueInt, CogsTyped
    <2> QED
      BY <2>1, <2>3, <2>4 DEF TypedStep, KeepsRest
  <1>7. ASSUME NEW type \in {"ADJUSTMENT_OUT", "SHORTAGE"}, TakeOut(type, w, q, d, cost)
        PROVE  TypedStep /\ KeepsRest
    <2>1. Move(type, w, q, d, cost, below, 0)
          /\ inventory' = inventory /\ cogs' = cogs /\ payable' = payable
          /\ links' = links /\ settled' = settled /\ costs' = costs
      BY <1>5, <1>7 DEF TakeOut, accounts, Unlinked
    <2>2. type \in InTypes \cup OutTypes /\ type \notin ReturnTypes
      BY DEF OutTypes, ReturnTypes
    <2>3. TypedMoves(moves') /\ DOMAIN moves \subseteq DOMAIN moves'
      <3>1. Moves(type, w, q, d, cost, below, 0)
        BY <1>1, <1>3, <1>4, <2>1, <2>2 DEF Moves
      <3> QED
        BY <3>1, MovesTyped
    <2> QED
      BY <1>2, <2>1, <2>3 DEF TypedStep, KeepsRest
  <1> QED
    BY <1>6, <1>7

LEMMA TwoTyped ==
  ASSUME ValueInv, NEW a, NEW b, TypedRow(a, Len(moves) + 1), TypedRow(b, Len(moves) + 2),
         moves' = moves \o <<a, b>>
  PROVE  TypedMoves(moves') /\ DOMAIN moves \subseteq DOMAIN moves'
  <1>1. PICK M : M = moves
    OBVIOUS
  <1>2. TypedMoves(M \o <<a, b>>) /\ DOMAIN M \subseteq DOMAIN (M \o <<a, b>>)
    BY <1>1, AppendTwoTyped, ValueInvIs
  <1> QED
    BY <1>1, <1>2

LEMMA SellFromTwoTyped ==
  ASSUME ValueInv, NEW v \in Warehouse, NEW w \in Warehouse, NEW p \in Quantity, NEW q \in Quantity,
         NEW d \in Day, NEW costV, NEW costW, SellFromTwo(v, w, p, q, d, costV, costW)
  PROVE  TypedStep /\ KeepsRest
  <1>1. p \in Nat /\ p # 0 /\ q \in Nat /\ q # 0
    BY DataInputs
  <1>2. TypedBooks(inventory, cogs, payable) /\ Len(moves) \in Nat
    BY ValueInvIs, LengthIs
  <1>3. costV \in Nat /\ costW \in Nat
    <2>1. costV \in IssueCosts(v, p) /\ costW \in IssueCosts(w, q)
      BY DEF SellFromTwo
    <2> QED
      BY <1>1, <2>1, IssueCostIs
  <1>4. Below(v, p) \in BOOLEAN /\ Below(w, q) \in BOOLEAN
    BY <1>1, BelowIs
  <1>5. "SALES_ISSUE" \in InTypes \cup OutTypes /\ "SALES_ISSUE" \notin ReturnTypes
    BY DEF OutTypes, ReturnTypes
  <1>6. PICK n \in Nat : n = Len(moves)
    BY <1>2
  <1>7. PICK a : a = Row("SALES_ISSUE", v, p, d, costV, Below(v, p), 0)
    OBVIOUS
  <1>8. PICK b : b = Row("SALES_ISSUE", w, q, d, costW, Below(w, q), 0)
    OBVIOUS
  <1>9. TypedRow(a, n + 1) /\ TypedRow(b, n + 2)
    <2>1. 0 \in 0 .. ((n + 1) - 1) /\ 0 \in 0 .. ((n + 2) - 1) /\ n + 1 \in Nat /\ n + 2 \in Nat
          /\ Len(moves) + 1 <= n + 1 /\ Len(moves) + 1 <= n + 2
      BY <1>6
    <2>2. TypedRow(a, n + 1)
      BY <1>1, <1>3, <1>4, <1>5, <1>7, <2>1, RowTyped
    <2>3. TypedRow(b, n + 2)
      BY <1>1, <1>3, <1>4, <1>5, <1>8, <2>1, RowTyped
    <2> QED
      BY <2>2, <2>3
  <1>10. moves' = moves \o <<a, b>>
    BY <1>7, <1>8 DEF SellFromTwo
  <1>11. TypedMoves(moves') /\ DOMAIN moves \subseteq DOMAIN moves'
    BY <1>6, <1>9, <1>10, TwoTyped
  <1>12. PICK x \in Int : x = Value(p, costV)
    BY <1>1, <1>3, ValueInt
  <1>13. PICK y \in Int : y = Value(q, costW)
    BY <1>1, <1>3, ValueInt
  <1>14. /\ inventory' = [inventory EXCEPT ![v] = @ - x, ![w] = @ - y]
         /\ cogs' = cogs + x + y /\ payable' = payable
         /\ links' = links /\ settled' = settled /\ costs' = costs
    BY <1>12, <1>13 DEF SellFromTwo, Unlinked
  <1>15. TypedBooks(inventory', cogs', payable')
    BY <1>2, <1>14 DEF TypedBooks
  <1> QED
    BY <1>11, <1>14, <1>15 DEF TypedStep, KeepsRest

LEMMA TransferTyped ==
  ASSUME ValueInv, NEW v \in Warehouse, NEW w \in Warehouse, NEW q \in Quantity,
         NEW d \in Day, NEW cost, NEW ref, Transfer(v, w, q, d, cost, ref)
  PROVE  TypedStep /\ KeepsRest
  <1>1. q \in Nat /\ q # 0
    BY DataInputs
  <1>2. TypedBooks(inventory, cogs, payable) /\ Len(moves) \in Nat /\ TypedMoves(moves)
    BY ValueInvIs, LengthIs
  <1>3. cost \in Nat
    <2>1. cost \in IssueCosts(v, q)
      BY DEF Transfer
    <2> QED
      BY <1>1, <2>1, IssueCostIs
  <1>4. Below(v, q) \in BOOLEAN
    BY <1>1, BelowIs
  <1>5. {"TRANSFER_OUT", "TRANSFER_IN"} \subseteq InTypes \cup OutTypes
        /\ "TRANSFER_OUT" \notin ReturnTypes /\ "TRANSFER_IN" \notin ReturnTypes
    BY DEF InTypes, OutTypes, ReturnTypes
  <1>6. PICK n \in Nat : n = Len(moves)
    BY <1>2
  <1>7. PICK a : a = Row("TRANSFER_OUT", v, q, d, cost, Below(v, q), 0)
    OBVIOUS
  <1>8. PICK b : b = Row("TRANSFER_IN", w, q, d, cost, Below(v, q), n + 1)
    OBVIOUS
  <1>9. TypedRow(a, n + 1) /\ TypedRow(b, n + 2)
    <2>1. 0 \in 0 .. ((n + 1) - 1) /\ n + 1 \in 0 .. ((n + 2) - 1) /\ n + 1 \in Nat /\ n + 2 \in Nat
          /\ Len(moves) + 1 <= n + 1 /\ Len(moves) + 1 <= n + 2
      BY <1>6
    <2>2. TypedRow(a, n + 1)
      BY <1>1, <1>3, <1>4, <1>5, <1>7, <2>1, RowTyped
    <2>3. TypedRow(b, n + 2)
      BY <1>1, <1>3, <1>4, <1>5, <1>8, <2>1, RowTyped
    <2> QED
      BY <2>2, <2>3
  <1>10. ref \in 1 .. (n + 1)
    <2>1. ref \in TransferNames
      BY DEF Transfer
    <2>2. CASE ref = Len(moves) + 1
      BY <1>6, <2>2
    <2>3. CASE ref # Len(moves) + 1
      <3>1. PICK i \in DOMAIN moves : ref = moves[i].ref
        BY <2>1, <2>3 DEF TransferNames
      <3>2. moves[i].ref \in 1 .. i /\ i \in 1 .. n
        BY <1>2, <1>6, <3>1, LengthIs, ValueInvIs DEF TypedMoves, TypedRow
      <3> QED
        BY <3>1, <3>2
    <2> QED
      BY <2>2, <2>3
  <1>11. PICK c : c = [a EXCEPT !.ref = ref]
    OBVIOUS
  <1>12. PICK e : e = [b EXCEPT !.ref = ref]
    OBVIOUS
  <1>13. TypedRow(c, n + 1) /\ TypedRow(e, n + 2)
    <2>1. ref \in 1 .. (n + 2) /\ n + 1 \in Nat /\ n + 2 \in Nat
      BY <1>10
    <2>2. TypedRow(c, n + 1)
      BY <1>9, <1>10, <1>11, <2>1, RefTyped
    <2>3. TypedRow(e, n + 2)
      BY <1>9, <1>12, <2>1, RefTyped
    <2> QED
      BY <2>2, <2>3
  <1>14. moves' = moves \o <<c, e>>
    BY <1>6, <1>7, <1>8, <1>11, <1>12 DEF Transfer
  <1>15. TypedMoves(moves') /\ DOMAIN moves \subseteq DOMAIN moves'
    BY <1>6, <1>13, <1>14, TwoTyped
  <1>16. PICK x \in Int : x = Value(q, cost)
    BY <1>1, <1>3, ValueInt
  <1>17. /\ inventory' = [inventory EXCEPT ![v] = @ - x, ![w] = @ + x]
         /\ cogs' = cogs /\ payable' = payable
         /\ links' = links /\ settled' = settled /\ costs' = costs
    BY <1>16 DEF Transfer, Unlinked
  <1>18. TypedBooks(inventory', cogs', payable')
    BY <1>2, <1>17 DEF TypedBooks
  <1> QED
    BY <1>15, <1>17, <1>18 DEF TypedStep, KeepsRest

\* The movement that a return or a reversal names.
LEMMA SourceTyped ==
  ASSUME ValueInv, NEW i \in DOMAIN moves
  PROVE  /\ moves[i].warehouse \in Warehouse /\ moves[i].day \in Day /\ moves[i].cost \in Nat
         /\ moves[i].temporary \in BOOLEAN /\ Units(i) \in Nat /\ Units(i) # 0
         /\ i \in 0 .. Len(moves) /\ i # 0
  <1>1. moves[i] \in Movement
    BY ValueInvIs DEF TypedMoves, TypedRow
  <1>2. Units(i) \in Nat /\ Units(i) # 0 /\ i \in 0 .. Len(moves) /\ i # 0
    BY ValueInvIs, RowsTyped
  <1> QED
    BY <1>1, <1>2 DEF Movement

LEMMA ReturnTyped ==
  ASSUME ValueInv, NEW i \in DOMAIN moves, NEW q \in Quantity, NEW d \in Day,
         ReturnPurchase(i, q, d) \/ ReturnSale(i, q, d)
  PROVE  TypedStep /\ KeepsRest
  <1>1. q \in Nat /\ q # 0
    BY DataInputs
  <1>2. TypedBooks(inventory, cogs, payable)
    BY ValueInvIs
  <1>3. PICK w \in Warehouse : w = moves[i].warehouse
    BY SourceTyped
  <1>4. PICK cost \in Nat : cost = moves[i].cost
    BY SourceTyped
  <1>5. i \in 0 .. Len(moves) /\ i # 0 /\ moves[i].temporary \in BOOLEAN
    BY SourceTyped
  <1>6. PICK v \in Int : v = -Value(q, cost)
    BY <1>1, ValueInt
  <1>7. CASE ReturnPurchase(i, q, d)
    <2>1. Move("PURCHASE_RETURN", w, q, d, cost, FALSE, i) /\ FromSupplier(w, v)
          /\ links' = links /\ settled' = settled /\ costs' = costs
      BY <1>3, <1>4, <1>6, <1>7 DEF ReturnPurchase, Unlinked
    <2>2. "PURCHASE_RETURN" \in InTypes \cup OutTypes
      BY DEF OutTypes
    <2>3. TypedMoves(moves') /\ DOMAIN moves \subseteq DOMAIN moves'
      BY <1>1, <1>5, <2>1, <2>2, MoveTyped
    <2>4. TypedBooks(inventory', cogs', payable')
      BY <1>2, <2>1, SupplierTyped
    <2> QED
      BY <2>1, <2>3, <2>4 DEF TypedStep, KeepsRest
  <1>8. CASE ReturnSale(i, q, d)
    <2>1. Move("SALES_RETURN", w, q, d, cost, moves[i].temporary, i) /\ ToCogs(w, v)
          /\ links' = links /\ settled' = settled /\ costs' = costs
      BY <1>3, <1>4, <1>6, <1>8 DEF ReturnSale, Unlinked
    <2>2. "SALES_RETURN" \in InTypes \cup OutTypes
      BY DEF InTypes
    <2>3. TypedMoves(moves') /\ DOMAIN moves \subseteq DOMAIN moves'
      BY <1>1, <1>5, <2>1, <2>2, MoveTyped
    <2>4. TypedBooks(inventory', cogs', payable')
      BY <1>2, <2>1, CogsTyped
    <2> QED
      BY <2>1, <2>3, <2>4 DEF TypedStep, KeepsRest
  <1> QED
    BY <1>7, <1>8

LEMMA UndoTyped ==
  ASSUME ValueInv, NEW i \in DOMAIN moves,
         ReversePurchaseReturn(i) \/ \E d \in Day : ReverseSalesReturn(i, d)
  PROVE  TypedStep /\ KeepsRest
  <1>1. PICK q \in Nat : q = Units(i) /\ q # 0
    BY SourceTyped
  <1>2. TypedBooks(inventory, cogs, payable)
    BY ValueInvIs
  <1>3. PICK w \in Warehouse : w = moves[i].warehouse
    BY SourceTyped
  <1>4. PICK cost \in Nat : cost = moves[i].cost
    BY SourceTyped
  <1>5. i \in 0 .. Len(moves) /\ i # 0 /\ moves[i].temporary \in BOOLEAN /\ moves[i].day \in Day
    BY SourceTyped
  <1>6. PICK v \in Int : v = Value(q, cost)
    BY <1>1, ValueInt
  <1>7. CASE ReversePurchaseReturn(i)
    <2>0. PICK d \in Day : d = moves[i].day
      BY <1>5
    <2>1. Move("PURCHASE_RECEIPT", w, q, d, cost, FALSE, i) /\ FromSupplier(w, v)
          /\ links' = links /\ settled' = settled /\ costs' = costs
      BY <1>1, <1>3, <1>4, <1>6, <1>7, <2>0 DEF ReversePurchaseReturn, Unlinked
    <2>2. "PURCHASE_RECEIPT" \in InTypes \cup OutTypes
      BY DEF InTypes
    <2>3. TypedMoves(moves') /\ DOMAIN moves \subseteq DOMAIN moves'
      <3>1. Moves("PURCHASE_RECEIPT", w, q, d, cost, FALSE, i)
        BY <1>1, <1>5, <2>1, <2>2 DEF Moves, ReturnTypes
      <3> QED
        BY <3>1, MovesTyped
    <2>4. TypedBooks(inventory', cogs', payable')
      BY <1>2, <2>1, SupplierTyped
    <2> QED
      BY <2>1, <2>3, <2>4 DEF TypedStep, KeepsRest
  <1>8. ASSUME NEW d \in Day, ReverseSalesReturn(i, d) PROVE TypedStep /\ KeepsRest
    <2>1. Move("SALES_ISSUE", w, q, d, cost, moves[i].temporary, i) /\ ToCogs(w, v)
          /\ links' = links /\ settled' = settled /\ costs' = costs
      BY <1>1, <1>3, <1>4, <1>6, <1>8 DEF ReverseSalesReturn, Unlinked
    <2>2. "SALES_ISSUE" \in InTypes \cup OutTypes
      BY DEF OutTypes
    <2>3. TypedMoves(moves') /\ DOMAIN moves \subseteq DOMAIN moves'
      <3>1. Moves("SALES_ISSUE", w, q, d, cost, moves[i].temporary, i)
        BY <1>1, <1>5, <2>1, <2>2 DEF Moves, ReturnTypes
      <3> QED
        BY <3>1, MovesTyped
    <2>4. TypedBooks(inventory', cogs', payable')
      BY <1>2, <2>1, CogsTyped
    <2> QED
      BY <2>1, <2>3, <2>4 DEF TypedStep, KeepsRest
  <1> QED
    BY <1>7, <1>8

\* What a purchase of q units gives the obligations of w: whole units, and the
\* correction of COGS is an integer.
LEMMA LinksTyped ==
  ASSUME ValueInv, NEW w \in Warehouse, NEW q \in Nat, NEW cost \in Nat
  PROVE  /\ NewLinks(w, q, cost) \subseteq Link /\ IsFiniteSet(NewLinks(w, q, cost))
         /\ \A l \in NewLinks(w, q, cost) : l.issue \in DOMAIN moves /\ l.quantity \in Nat
  <1>1. PICK S : S = Obligations(w)
    OBVIOUS
  <1>2. PICK b : b = [i \in S |-> {j \in S : Earlier(j, i)}]
    OBVIOUS
  <1>3. PICK f : f = [i \in S |-> Open(i)]
    OBVIOUS
  <1>4. PICK c : c = [i \in S |-> Covers(w, q, i)]
    OBVIOUS
  <1>5. ListInv(moves) /\ LinksFit(moves, links) /\ Len(moves) + 1 \in Nat
    BY ValueInvIs, LengthIs
  <1>6. Serves(S, b, f, q, c) /\ Queue(S, b)
    BY <1>1, <1>2, <1>3, <1>4, <1>5, CoversServe, ObligationsQueue
  <1>7. IsFiniteSet(S) /\ S \subseteq DOMAIN moves /\ (\A i \in S : i \in Nat)
        /\ \A i \in S : Covers(w, q, i) \in Nat
    <2>1. \A i \in S : c[i] \in Nat /\ c[i] = Covers(w, q, i)
      BY <1>4, <1>6 DEF Serves
    <2>2. S \subseteq DOMAIN moves
      BY <1>1 DEF Obligations
    <2> QED
      BY <1>5, <1>6, <2>1, <2>2, LengthIs DEF Queue
  <1>8. PICK P : P = {j \in S : Covers(w, q, j) > 0}
    OBVIOUS
  <1>9. IsFiniteSet(P) /\ P \subseteq S
    BY <1>7, <1>8, FS_Subset
  <1>10. PICK n \in Nat : n = Len(moves) + 1
    BY <1>5
  <1>11. PICK L : L = NewLinks(w, q, cost)
    OBVIOUS
  <1>12. L = {[issue |-> i, receipt |-> n, quantity |-> Covers(w, q, i)] : i \in P}
    BY <1>1, <1>8, <1>10, <1>11 DEF NewLinks
  <1>13. PICK make : make = [i \in P |-> [issue |-> i, receipt |-> n, quantity |-> Covers(w, q, i)]]
    OBVIOUS
  <1>14. make \in Surjection(P, L)
    BY <1>12, <1>13 DEF Surjection
  <1>15. IsFiniteSet(L)
    BY <1>9, <1>14, FS_Surjection
  <1>16. \A i \in P : i \in Nat /\ i \in DOMAIN moves /\ Covers(w, q, i) \in Nat \ {0}
    BY <1>7, <1>8, <1>9
  <1>17. L \subseteq Link /\ \A l \in L : l.issue \in DOMAIN moves /\ l.quantity \in Nat
    BY <1>10, <1>12, <1>16 DEF Link
  <1> QED
    BY <1>11, <1>15, <1>17

LEMMA CorrectsInt ==
  ASSUME ValueInv, NEW w \in Warehouse, NEW q \in Nat, NEW cost \in Nat
  PROVE  Corrects(w, q, cost) \in Int
  <1>1. PICK L : L = NewLinks(w, q, cost)
    OBVIOUS
  <1>2. PICK f : f = [l \in L |-> Value(l.quantity, cost - moves[l.issue].cost)]
    OBVIOUS
  <1>3. \A l \in L : f[l] \in Int
    <2> SUFFICES ASSUME NEW l \in L PROVE f[l] \in Int
      OBVIOUS
    <2>1. l.issue \in DOMAIN moves /\ l.quantity \in Int
      BY <1>1, LinksTyped
    <2>2. moves[l.issue].cost \in Nat
      BY <2>1, SourceTyped
    <2>3. PICK k \in Int : k = cost - moves[l.issue].cost
      BY <2>2
    <2>4. Value(l.quantity, k) \in Int
      BY <2>1, ValueInt
    <2> QED
      BY <1>2, <2>3, <2>4
  <1>4. IsFiniteSet(L)
    BY <1>1, LinksTyped
  <1>5. IntOn(f, L)
    BY <1>3 DEF IntOn
  <1>6. SumFunctionOnSet(f, L) \in Int
    BY <1>4, <1>5, SumInt
  <1>7. Corrects(w, q, cost) = SumFunctionOnSet(f, L)
    BY <1>1, <1>2 DEF Corrects, SumOf
  <1> QED
    BY <1>6, <1>7

LEMMA PurchaseTyped ==
  ASSUME ValueInv, NEW w \in Warehouse, NEW q \in Quantity, NEW d \in Day, NEW total \in Total,
         Purchase(w, q, total, d)
  PROVE  TypedStep /\ links' \subseteq Link /\ settled' = settled
  <1>1. q \in Nat /\ q # 0 /\ total \in Nat
    BY DataInputs
  <1>2. TypedBooks(inventory, cogs, payable) /\ 0 \in 0 .. Len(moves) /\ links \subseteq Link
    BY ValueInvIs, LengthIs DEF ValueInv, TypeOK
  <1>3. PICK cost \in Nat : cost = HalfUp(Steps(total), q)
    <2>1. Steps(total) \in Nat
      BY <1>1, DataInputs, ProductNat DEF Steps
    <2> QED
      BY <1>1, <2>1, HalfUpNat
  <1>4. PICK x \in Int : x = Corrects(w, q, cost)
    BY <1>1, CorrectsInt
  <1>5. /\ Move("PURCHASE_RECEIPT", w, q, d, cost, FALSE, 0)
        /\ links' = links \cup NewLinks(w, q, cost)
        /\ inventory' = [inventory EXCEPT ![w] = @ + total - x]
        /\ cogs' = cogs + x /\ payable' = payable + total
        /\ settled' = settled /\ costs' = costs
    BY <1>3, <1>4 DEF Purchase
  <1>6. "PURCHASE_RECEIPT" \in InTypes \cup OutTypes /\ "PURCHASE_RECEIPT" \notin ReturnTypes
    BY DEF InTypes, ReturnTypes
  <1>7. TypedMoves(moves') /\ DOMAIN moves \subseteq DOMAIN moves'
    <2>1. Moves("PURCHASE_RECEIPT", w, q, d, cost, FALSE, 0)
      BY <1>1, <1>2, <1>5, <1>6 DEF Moves
    <2> QED
      BY <2>1, MovesTyped
  <1>8. TypedBooks(inventory', cogs', payable')
    BY <1>1, <1>2, <1>5 DEF TypedBooks
  <1>9. links' \subseteq Link
    BY <1>1, <1>2, <1>5, LinksTyped
  <1> QED
    BY <1>5, <1>7, <1>8, <1>9 DEF TypedStep

LEMMA InboundTyped ==
  ASSUME ValueInv, InboundStep
  PROVE  TypedStep /\ links' \subseteq Link /\ settled' = settled
  <1>0. links \subseteq Link
    BY DEF ValueInv, TypeOK
  <1>1. PICK w \in Warehouse, q \in Quantity, d \in Day :
          \/ \E total \in Total : Purchase(w, q, total, d)
          \/ \E cost \in Cost : OpenStock(w, q, cost, d) \/ AdjustIn(w, q, cost, d)
    BY DEF InboundStep
  <1>2. CASE \E total \in Total : Purchase(w, q, total, d)
    BY <1>2, PurchaseTyped
  <1>3. CASE \E cost \in Cost : OpenStock(w, q, cost, d) \/ AdjustIn(w, q, cost, d)
    <2>1. TypedStep /\ KeepsRest
      BY <1>3, OpenTyped
    <2> QED
      BY <1>0, <2>1 DEF KeepsRest
  <1> QED
    BY <1>1, <1>2, <1>3

LEMMA OutboundTyped ==
  ASSUME ValueInv, OutboundStep
  PROVE  TypedStep /\ KeepsRest
  <1>1. PICK w \in Warehouse, q \in Quantity, d \in Day : \E cost \in IssueCosts(w, q) :
          \/ Sell(w, q, d, cost)
          \/ \E v \in Warehouse, p \in Quantity : \E other \in IssueCosts(v, p) :
               SellFromTwo(w, v, q, p, d, cost, other)
          \/ \E v \in Warehouse, ref \in TransferNames : Transfer(w, v, q, d, cost, ref)
          \/ \E type \in {"ADJUSTMENT_OUT", "SHORTAGE"} : TakeOut(type, w, q, d, cost)
    BY DEF OutboundStep
  <1>2. PICK cost \in IssueCosts(w, q) :
          \/ Sell(w, q, d, cost)
          \/ \E v \in Warehouse, p \in Quantity : \E other \in IssueCosts(v, p) :
               SellFromTwo(w, v, q, p, d, cost, other)
          \/ \E v \in Warehouse, ref \in TransferNames : Transfer(w, v, q, d, cost, ref)
          \/ \E type \in {"ADJUSTMENT_OUT", "SHORTAGE"} : TakeOut(type, w, q, d, cost)
    BY <1>1
  <1>3. CASE Sell(w, q, d, cost) \/ \E type \in {"ADJUSTMENT_OUT", "SHORTAGE"} : TakeOut(type, w, q, d, cost)
    BY <1>3, SellTyped
  <1>4. CASE \E v \in Warehouse, p \in Quantity : \E other \in IssueCosts(v, p) :
               SellFromTwo(w, v, q, p, d, cost, other)
    BY <1>4, SellFromTwoTyped
  <1>5. CASE \E v \in Warehouse, ref \in TransferNames : Transfer(w, v, q, d, cost, ref)
    BY <1>5, TransferTyped
  <1> QED
    BY <1>2, <1>3, <1>4, <1>5

Settles ==
  /\ \E i \in DOMAIN moves : settled' = settled \cup {i}
  /\ moves' = moves /\ links' = links /\ costs' = costs
  /\ inventory' = inventory /\ cogs' = cogs /\ payable' = payable

LEMMA ReturnStepTyped ==
  ASSUME ValueInv, ReturnStep
  PROVE  (TypedStep /\ KeepsRest) \/ Settles
  <1>1. PICK i \in DOMAIN moves :
          \/ \E q \in Quantity, d \in Day : ReturnPurchase(i, q, d) \/ ReturnSale(i, q, d)
          \/ \E d \in Day : ReverseSalesReturn(i, d)
          \/ ReversePurchaseReturn(i)
          \/ SettleShortage(i)
    BY DEF ReturnStep
  <1>2. CASE \E q \in Quantity, d \in Day : ReturnPurchase(i, q, d) \/ ReturnSale(i, q, d)
    BY <1>2, ReturnTyped
  <1>3. CASE ReversePurchaseReturn(i) \/ \E d \in Day : ReverseSalesReturn(i, d)
    BY <1>3, UndoTyped
  <1>4. CASE SettleShortage(i)
    BY <1>4 DEF SettleShortage, Settles, accounts
  <1> QED
    BY <1>1, <1>2, <1>3, <1>4

LEMMA TypeOKNext == TypeOK' <=> /\ TypedMoves(moves') /\ links' \subseteq Link
                                /\ settled' \subseteq DOMAIN moves'
                                /\ TypedBooks(inventory', cogs', payable')
  <1>1. TypeOK' <=> /\ moves' \in Seq(Movement)
                    /\ \A i \in DOMAIN moves' : /\ moves'[i].quantity > 0 <=> moves'[i].type \in InTypes
                                                /\ moves'[i].src \in 0 .. (i - 1)
                                                /\ moves'[i].ref \in 1 .. i
                    /\ links' \subseteq Link /\ settled' \subseteq DOMAIN moves'
                    /\ TypedBooks(inventory', cogs', payable')
    BY DEF TypeOK, TypedBooks
  <1>2. moves' \in Seq(Movement) => \A i \in DOMAIN moves' : moves'[i] \in Movement
    OBVIOUS
  <1> QED
    BY <1>1, <1>2 DEF TypedMoves, TypedRow

LEMMA TypeStep == ValueInv /\ [Next]_vars => TypeOK' /\ costs' = costs
  <1> SUFFICES ASSUME ValueInv, [Next]_vars PROVE TypeOK' /\ costs' = costs
    OBVIOUS
  <1>0. links \subseteq Link /\ settled \subseteq DOMAIN moves /\ TypeOK
    BY DEF ValueInv, TypeOK
  <1>1. TypeOK' <=> /\ TypedMoves(moves') /\ links' \subseteq Link
                    /\ settled' \subseteq DOMAIN moves' /\ TypedBooks(inventory', cogs', payable')
    BY TypeOKNext
  <1>2. CASE TypedStep /\ links' \subseteq Link /\ settled' = settled
    BY <1>0, <1>1, <1>2 DEF TypedStep
  <1>3. CASE TypedStep /\ KeepsRest
    BY <1>0, <1>2, <1>3 DEF KeepsRest
  <1>4. CASE Settles
    <2>1. TypedMoves(moves) /\ TypedBooks(inventory, cogs, payable)
      BY ValueInvIs
    <2> QED
      BY <1>0, <1>1, <1>4, <2>1 DEF Settles
  <1>5. CASE UNCHANGED vars
    <2>1. TypedMoves(moves) /\ TypedBooks(inventory, cogs, payable)
      BY ValueInvIs
    <2> QED
      BY <1>0, <1>1, <1>5, <2>1 DEF vars, accounts
  <1> QED
    BY <1>2, <1>3, <1>4, <1>5, InboundTyped, OutboundTyped, ReturnStepTyped DEF Next, StockStep

LEMMA ValueInit == Init => ValueInv /\ costs = <<>>
  <1>1. Init => StockInv /\ TypeOK /\ costs = <<>>
    BY StockInit DEF Init, TypeOK, Link
  <1>2. costs = <<>> => SharesOK
    <2>1. costs = <<>> => DOMAIN costs = {}
      OBVIOUS
    <2> QED
      BY <2>1, FS_EmptySet DEF SharesOK
  <1> QED
    BY <1>1, <1>2 DEF ValueInv

LEMMA ValueStep == ValueInv /\ [Next]_vars => ValueInv' /\ costs' = costs
  BY TypeStep, ListStep, LinksStep DEF ValueInv, StockInv, SharesOK

LEMMA ValueInvHolds == Spec => []ValueInv
  BY ValueInit, ValueStep, PTL DEF Spec

\* Every movement has the sign of its type, a unit cost that is not negative
\* and a source before it, and the accounts stay integers: what issue_stock
\* books when the stock lasts is the average, which is a natural number as long
\* as the replay never divides by what is not there.
THEOREM StockTypeOK == Spec => []TypeOK
  BY ValueInvHolds, PTL DEF ValueInv

\* Goods that arrive at or below zero stock set the average to their own cost,
\* whatever came before: the replay drops the basis when a warehouse runs out
\* (avco_for).
THEOREM CyclesAlwaysStartClean == Spec => []CyclesStartClean
  <1>1. ValueInv => CyclesStartClean
    BY ValueInvIs, CyclesAreClean
  <1> QED
    BY <1>1, ValueInvHolds, PTL

\* The average of a warehouse lies between the lowest and the highest cost at
\* which goods came in, but for half a step per unit that left and half a step
\* for the division: no order of receipts, issues, returns and crossings of
\* zero makes or loses value (avco_for).
THEOREM AverageStaysBetweenCosts == Spec => []AverageIsBetweenCosts
  <1>1. ValueInv => AverageIsBetweenCosts
    BY ValueInvIs, AveragesHold
  <1> QED
    BY <1>1, ValueInvHolds, PTL

-----------------------------------------------------------------------------
(* The books against the valuation, along the list of movements.            *)
Ident(n) == [k \in 1 .. n |-> k]

\* x units of w at basis y after the rows of M in the order they were written.
Worth(M, w, x, y) ==
  \E u, b : /\ Tape(M, Ident(Len(M)), Len(M), w, u, b)
            /\ x = u[Len(M)] /\ y = b[Len(M)]

\* A tape has one end.
LEMMA TapesAgree ==
  ASSUME NEW n \in Nat, NEW M, NEW K, NEW w, NEW u, NEW b, Tape(M, K, n, w, u, b),
         NEW v, NEW c, Tape(M, K, n, w, v, c)
  PROVE  u[n] = v[n] /\ b[n] = c[n]
  <1> DEFINE G == {k \in 0 .. n : u[k] = v[k] /\ b[k] = c[k]}
  <1>1. 0 \in G
    BY DEF Tape
  <1>2. ASSUME NEW k \in 1 .. n, k - 1 \in G PROVE k \in G
    <2>1. k \in 0 .. n /\ u[k - 1] = v[k - 1] /\ b[k - 1] = c[k - 1]
      BY <1>2
    <2>2. /\ u[k] = UnitsNext(u[k - 1], M[K[k]], w) /\ b[k] = BasisNext(u[k - 1], b[k - 1], M[K[k]], w)
          /\ v[k] = UnitsNext(v[k - 1], M[K[k]], w) /\ c[k] = BasisNext(v[k - 1], c[k - 1], M[K[k]], w)
      BY DEF Tape
    <2> QED
      BY <2>1, <2>2
  <1> HIDE DEF G
  <1>3. \A k \in 0 .. n : k \in G
    BY <1>1, <1>2, StepByStep
  <1> QED
    BY <1>3 DEF G

LEMMA WorthIsOne ==
  ASSUME NEW M, Len(M) \in Nat, NEW w, NEW x, NEW y, NEW p, NEW q, Worth(M, w, x, y), Worth(M, w, p, q)
  PROVE  x = p /\ y = q
  <1>1. PICK u, b : Tape(M, Ident(Len(M)), Len(M), w, u, b) /\ x = u[Len(M)] /\ y = b[Len(M)]
    BY DEF Worth
  <1>2. PICK v, c : Tape(M, Ident(Len(M)), Len(M), w, v, c) /\ p = v[Len(M)] /\ q = c[Len(M)]
    BY DEF Worth
  <1>3. u[Len(M)] = v[Len(M)] /\ b[Len(M)] = c[Len(M)]
    BY <1>1, <1>2, TapesAgree
  <1> QED
    BY <1>1, <1>2, <1>3

RowFits(row) == row.quantity \in Int /\ row.quantity # 0 /\ row.cost \in Nat

\* One row more is one step more.
LEMMA WorthNext ==
  ASSUME NEW M, NEW N, NEW row, Longer(M, N, row), RowFits(row),
         NEW w, NEW x \in Int, NEW y \in Nat, Worth(M, w, x, y)
  PROVE  Worth(N, w, UnitsNext(x, row, w), BasisNext(x, y, row, w))
  <1>1. PICK n \in Nat : n = Len(M)
    BY Domains
  <1>2. Len(N) = n + 1 /\ N[n + 1] = row /\ \A i \in 1 .. n : N[i] = M[i]
    BY <1>1 DEF Longer
  <1>3. PICK u, b : Tape(M, Ident(n), n, w, u, b) /\ x = u[n] /\ y = b[n]
    BY <1>1 DEF Worth
  <1>4. PICK p \in Int : p = UnitsNext(x, row, w)
    BY DEF UnitsNext, RowFits
  <1>5. PICK c \in Nat : c = BasisNext(x, y, row, w)
    <2>1. CASE row.warehouse # w
      BY <2>1 DEF BasisNext
    <2>2. CASE row.warehouse = w /\ row.quantity > 0
      <3>1. row.quantity \in Nat /\ row.cost \in Nat
        BY <2>2 DEF RowFits
      <3>2. BasisIn(x, y, row.quantity, row.cost) \in Nat
        BY <3>1, BasisNat
      <3> QED
        BY <2>2, <3>2 DEF BasisNext
    <2>3. CASE row.warehouse = w /\ ~(row.quantity > 0)
      <3>1. PICK q \in Nat : q = -row.quantity
        BY <2>3 DEF RowFits
      <3>2. BasisOut(x, y, q, row.cost) \in Nat
        BY BasisNat DEF RowFits
      <3> QED
        BY <2>3, <3>1, <3>2 DEF BasisNext
    <2> QED
      BY <2>1, <2>2, <2>3
  <1>6. PICK v : v = [k \in 0 .. (n + 1) |-> IF k = n + 1 THEN p ELSE u[k]]
    OBVIOUS
  <1>7. PICK d : d = [k \in 0 .. (n + 1) |-> IF k = n + 1 THEN c ELSE b[k]]
    OBVIOUS
  <1>8. \A k \in 0 .. n : v[k] = u[k] /\ d[k] = b[k] /\ u[k] \in Int /\ b[k] \in Nat
    BY <1>3, <1>6, <1>7 DEF Tape
  <1>9. v[n + 1] = p /\ d[n + 1] = c
    BY <1>6, <1>7
  <1>10. v \in [0 .. (n + 1) -> Int] /\ d \in [0 .. (n + 1) -> Nat]
    <2>1. \A k \in 0 .. (n + 1) : k = n + 1 \/ k \in 0 .. n
      OBVIOUS
    <2>2. \A k \in 0 .. (n + 1) : v[k] \in Int /\ d[k] \in Nat
      BY <1>8, <1>9, <2>1
    <2> QED
      BY <1>6, <1>7, <2>2
  <1>11. \A k \in 1 .. n : Ident(n + 1)[k] = k /\ Ident(n)[k] = k
    BY DEF Ident
  <1>12. Ident(n + 1)[n + 1] = n + 1
    BY DEF Ident
  <1>13. ASSUME NEW k \in 1 .. (n + 1)
         PROVE  /\ v[k] = UnitsNext(v[k - 1], N[Ident(n + 1)[k]], w)
                /\ d[k] = BasisNext(v[k - 1], d[k - 1], N[Ident(n + 1)[k]], w)
    <2>1. CASE k = n + 1
      <3>1. k - 1 = n /\ n \in 0 .. n
        BY <2>1
      <3>2. v[k - 1] = x /\ d[k - 1] = y
        BY <1>3, <1>8, <3>1
      <3> QED
        BY <1>2, <1>4, <1>5, <1>9, <1>12, <2>1, <3>2
    <2>2. CASE k # n + 1
      <3>1. k \in 1 .. n /\ k \in 0 .. n /\ k - 1 \in 0 .. n
        BY <2>2
      <3>2. /\ u[k] = UnitsNext(u[k - 1], M[k], w)
            /\ b[k] = BasisNext(u[k - 1], b[k - 1], M[k], w)
        BY <1>3, <1>11, <3>1 DEF Tape
      <3> QED
        BY <1>2, <1>8, <1>11, <3>1, <3>2
    <2> QED
      BY <2>1, <2>2
  <1>14. v[0] = 0 /\ d[0] = 0
    <2>1. u[0] = 0 /\ b[0] = 0
      BY <1>3 DEF Tape
    <2> QED
      BY <1>8, <2>1
  <1>15. Tape(N, Ident(n + 1), n + 1, w, v, d)
    BY <1>10, <1>13, <1>14 DEF Tape
  <1>16. Worth(N, w, p, c)
    BY <1>2, <1>9, <1>15 DEF Worth
  <1> QED
    BY <1>4, <1>5, <1>16

\* When no movement entered before others the Kardex is the list.
InOrder(M) == \A i \in DOMAIN M : \A j \in 1 .. (i - 1) : ~(M[j].day > M[i].day)

LEMMA KardexIsList ==
  ASSUME ListInv(moves), InOrder(moves)
  PROVE  Kardex = Ident(Len(moves))
  <1>1. PICK n \in Nat : n = Len(moves)
    BY LengthIs
  <1>2. DOMAIN moves = 1 .. n /\ \A i \in 1 .. n : moves[i].day \in Int
    BY <1>1, LengthIs, RowsTyped
  <1>3. \A i \in 1 .. n : Rank(i) = i
    <2> SUFFICES ASSUME NEW i \in 1 .. n PROVE Rank(i) = i
      OBVIOUS
    <2>1. \A j \in 1 .. n : ~Earlier(i, j) <=> j \in 1 .. i
      <3> SUFFICES ASSUME NEW j \in 1 .. n PROVE ~Earlier(i, j) <=> j \in 1 .. i
        OBVIOUS
      <3>1. j < i => ~(moves[j].day > moves[i].day)
        BY <1>2 DEF InOrder
      <3>2. i < j => ~(moves[i].day > moves[j].day)
        BY <1>2 DEF InOrder
      <3> QED
        BY <1>2, <3>1, <3>2 DEF Earlier
    <2>2. {j \in DOMAIN moves : ~Earlier(i, j)} = 1 .. i
      BY <1>2, <2>1
    <2>3. Cardinality(1 .. i) = i
      BY FS_Interval
    <2> QED
      BY <2>2, <2>3 DEF Rank
  <1>4. \A k \in 1 .. n : Kardex[k] = k
    BY <1>1, <1>2, <1>3, KardexIs DEF KardexOrders
  <1>5. Kardex = [k \in 1 .. n |-> Kardex[k]]
    BY <1>2 DEF Kardex
  <1> QED
    BY <1>1, <1>4, <1>5 DEF Ident

LEMMA ValuationIsWorth ==
  ASSUME ListInv(moves), CostsOK(moves), Active = {}, InOrder(moves), NEW w \in Warehouse
  PROVE  Worth(moves, w, OnHand(w), Valuation.basis[w])
  <1>1. PICK u, b : PlainTape(w, u, b)
    BY PlainTapes
  <1>2. /\ Tape(moves, Ident(Len(moves)), Len(moves), w, u, b)
        /\ PlainReplay.basis[w] = b[Len(moves)]
    BY <1>1, KardexIsList DEF PlainTape
  <1>3. u[Len(moves)] = OnHand(w)
    BY <1>1, TapeUnits DEF PlainTape, SameStock
  <1>4. Valuation = PlainReplay
    BY DEF Valuation
  <1> QED
    BY <1>2, <1>3, <1>4 DEF Worth

\* An issue that is an obligation of w.
Obliges(row, w) == row.type = "SALES_ISSUE" /\ row.src = 0 /\ row.temporary /\ row.warehouse = w

OpenIn(M, L, i) == Size(M, i) - Given(L, i)

Opens(M, L) == [i \in DOMAIN M |-> OpenIn(M, L, i)]
Owes(M, L) == [i \in DOMAIN M |-> OpenIn(M, L, i) * M[i].cost]
Grains(M) == [i \in DOMAIN M |-> Cent + Size(M, i)]
Debts(M, w) == {i \in DOMAIN M : Obliges(M[i], w)}

OpenSum(M, L, w) == SumFunctionOnSet(Opens(M, L), Debts(M, w))
OwedSum(M, L, w) == SumFunctionOnSet(Owes(M, L), Debts(M, w))
GrainSum(M) == SumFunctionOnSet(Grains(M), DOMAIN M)
DustSum(M, L) == GrainSum(M) + Cent * Cardinality(L)

RowsFit(M) == IsList(M) /\ \A i \in DOMAIN M : RowFits(M[i])

\* Cent is positive.
LEMMA SumsAreInts ==
  ASSUME NEW M, RowsFit(M), NEW L, LinksFit(M, L), NEW w
  PROVE  /\ IsFiniteSet(DOMAIN M) /\ IsFiniteSet(Debts(M, w)) /\ Debts(M, w) \subseteq DOMAIN M
         /\ IntOn(Opens(M, L), DOMAIN M) /\ IntOn(Owes(M, L), DOMAIN M) /\ IntOn(Grains(M), DOMAIN M)
         /\ OpenSum(M, L, w) \in Int /\ OwedSum(M, L, w) \in Int /\ GrainSum(M) \in Int
         /\ \A i \in DOMAIN M : Size(M, i) \in Nat /\ Given(L, i) \in Nat /\ OpenIn(M, L, i) \in Nat
  <1>1. IsFiniteSet(DOMAIN M)
    <2>1. PICK n \in Nat : n = Len(M)
      BY DEF RowsFit, IsList
    <2>2. DOMAIN M = 1 .. n
      BY <2>1 DEF RowsFit, IsList
    <2> QED
      BY <2>2, FS_Interval
  <1>2. IsFiniteSet(Debts(M, w)) /\ Debts(M, w) \subseteq DOMAIN M
    <2>1. Debts(M, w) \in SUBSET DOMAIN M
      BY DEF Debts
    <2> QED
      BY <1>1, <2>1, FS_Subset
  <1>3. \A i \in DOMAIN M : Size(M, i) \in Nat /\ M[i].cost \in Nat
    BY DEF RowsFit, RowFits, Size, Absolute
  <1>4. \A i : Given(L, i) \in Nat
    BY GivenIs DEF LinksFit
  <1>5. \A i \in DOMAIN M : OpenIn(M, L, i) \in Nat
    BY <1>3, <1>4 DEF OpenIn, LinksFit
  <1>6. IntOn(Opens(M, L), DOMAIN M)
    BY <1>5 DEF Opens, IntOn
  <1>7. IntOn(Owes(M, L), DOMAIN M)
    <2>1. \A i \in DOMAIN M : OpenIn(M, L, i) * M[i].cost \in Int
      BY <1>3, <1>5
    <2> QED
      BY <2>1 DEF Owes, IntOn
  <1>8. IntOn(Grains(M), DOMAIN M)
    BY <1>3, StockAssumption DEF Grains, IntOn
  <1>9. IntOn(Opens(M, L), Debts(M, w)) /\ IntOn(Owes(M, L), Debts(M, w))
    BY <1>2, <1>6, <1>7 DEF IntOn
  <1>10. OpenSum(M, L, w) \in Int /\ OwedSum(M, L, w) \in Int /\ GrainSum(M) \in Int
    BY <1>1, <1>2, <1>8, <1>9, SumInt DEF OpenSum, OwedSum, GrainSum
  <1> QED
    BY <1>1, <1>2, <1>3, <1>4, <1>5, <1>6, <1>7, <1>8, <1>10

\* What one row more adds.
SumsNext(M, N, L, row) ==
  LET q == Absolute(row.quantity)
  IN /\ GrainSum(N) = GrainSum(M) + (Cent + q)
     /\ \A w : /\ OpenSum(N, L, w) = OpenSum(M, L, w) + (IF Obliges(row, w) THEN q ELSE 0)
               /\ OwedSum(N, L, w) = OwedSum(M, L, w) + (IF Obliges(row, w) THEN q * row.cost ELSE 0)

LEMMA SumsGrow ==
  ASSUME NEW M, NEW N, NEW row, Longer(M, N, row), RowsFit(M), RowFits(row), NEW L, LinksFit(M, L)
  PROVE  SumsNext(M, N, L, row) /\ RowsFit(N)
  <1>1. PICK n : n = Len(M) + 1
    OBVIOUS
  <1>2. /\ DOMAIN N = DOMAIN M \cup {n} /\ n \notin DOMAIN M /\ N[n] = row
        /\ \A i \in DOMAIN M : N[i] = M[i]
    BY <1>1, Domains
  <1>3. RowsFit(N)
    BY <1>2 DEF RowsFit, Longer
  <1>4. IsFiniteSet(DOMAIN M) /\ IntOn(Grains(M), DOMAIN M)
    BY SumsAreInts
  <1>5. PICK q \in Nat : q = Absolute(row.quantity)
    BY DEF RowFits, Absolute
  <1>6. GrainSum(N) = GrainSum(M) + (Cent + q)
    <2>1. PICK f : f = Grains(M)
      OBVIOUS
    <2>2. PICK g : g = Grains(N)
      OBVIOUS
    <2>3. \A i \in DOMAIN M : g[i] = f[i]
      BY <1>2, <2>1, <2>2 DEF Grains, Size
    <2>4. g[n] = Cent + q /\ g[n] \in Int
      BY <1>2, <1>5, <2>2, StockAssumption DEF Grains, Size
    <2>5. PICK S : S = DOMAIN M
      OBVIOUS
    <2>6. PICK T : T = DOMAIN N
      OBVIOUS
    <2>7. T = S \cup {n} /\ n \notin S
      BY <1>2, <2>5, <2>6
    <2>8. IsFiniteSet(S) /\ IntOn(f, S) /\ \A i \in S : g[i] = f[i]
      BY <1>4, <2>1, <2>3, <2>5
    <2>9. g[n] \in Int
      BY <2>4
    <2>10. SumFunctionOnSet(g, T) = SumFunctionOnSet(f, S) + g[n]
      BY ONLY <2>7, <2>8, <2>9, SumAdded
    <2> QED
      BY <2>1, <2>2, <2>4, <2>5, <2>6, <2>10 DEF GrainSum
  <1>7. Given(L, n) = 0
    <2>1. {l \in L : l.issue = n} = {}
      BY <1>2 DEF LinksFit
    <2> QED
      BY <2>1, SumEmpty DEF Given
  <1>8. /\ \A i \in DOMAIN M : OpenIn(N, L, i) = OpenIn(M, L, i)
        /\ OpenIn(N, L, n) = q
    BY <1>2, <1>5, <1>7 DEF OpenIn, Size
  <1>9. ASSUME NEW w
        PROVE  /\ OpenSum(N, L, w) = OpenSum(M, L, w) + (IF Obliges(row, w) THEN q ELSE 0)
               /\ OwedSum(N, L, w) = OwedSum(M, L, w) + (IF Obliges(row, w) THEN q * row.cost ELSE 0)
    <2>1. PICK S : S = Debts(M, w)
      OBVIOUS
    <2>2. PICK T : T = Debts(N, w)
      OBVIOUS
    <2>3. T = IF Obliges(row, w) THEN S \cup {n} ELSE S
      BY <1>2, <2>1, <2>2 DEF Debts
    <2>4. /\ IsFiniteSet(S) /\ S \subseteq DOMAIN M /\ n \notin S
          /\ OpenSum(M, L, w) \in Int /\ OwedSum(M, L, w) \in Int
          /\ IntOn(Opens(M, L), S) /\ IntOn(Owes(M, L), S)
      BY <1>2, <2>1, SumsAreInts DEF IntOn
    <2>5. PICK f : f = Opens(M, L)
      OBVIOUS
    <2>6. PICK g : g = Opens(N, L)
      OBVIOUS
    <2>7. PICK h : h = Owes(M, L)
      OBVIOUS
    <2>8. PICK k : k = Owes(N, L)
      OBVIOUS
    <2>9. \A i \in S : g[i] = f[i] /\ k[i] = h[i]
      BY <1>2, <1>8, <2>4, <2>5, <2>6, <2>7, <2>8 DEF Opens, Owes
    <2>10. g[n] = q /\ k[n] = q * row.cost /\ q * row.cost \in Int
      BY <1>2, <1>8, <2>6, <2>8 DEF Opens, Owes, RowFits
    <2>11. CASE Obliges(row, w)
      <3>1. T = S \cup {n}
        BY <2>3, <2>11
      <3>2. IsFiniteSet(S) /\ n \notin S
        BY <2>4
      <3>3. IntOn(f, S) /\ IntOn(h, S)
        BY <2>4, <2>5, <2>7
      <3>4. g[n] \in Int /\ k[n] \in Int
        BY <2>10
      <3>5. (\A i \in S : g[i] = f[i]) /\ (\A i \in S : k[i] = h[i])
        BY <2>9
      <3>6. SumFunctionOnSet(g, T) = SumFunctionOnSet(f, S) + g[n]
        BY ONLY <3>1, <3>2, <3>3, <3>4, <3>5, SumAdded
      <3>7. SumFunctionOnSet(k, T) = SumFunctionOnSet(h, S) + k[n]
        BY ONLY <3>1, <3>2, <3>3, <3>4, <3>5, SumAdded
      <3> QED
        BY <2>1, <2>2, <2>5, <2>6, <2>7, <2>8, <2>10, <2>11, <3>6, <3>7 DEF OpenSum, OwedSum
    <2>12. CASE ~Obliges(row, w)
      <3>1. T = S
        BY <2>3, <2>12
      <3>2. SumFunctionOnSet(g, T) = SumFunctionOnSet(f, S) /\ SumFunctionOnSet(k, T) = SumFunctionOnSet(h, S)
        BY <2>4, <2>9, <3>1, SumAgree
      <3> QED
        BY <2>1, <2>2, <2>4, <2>5, <2>6, <2>7, <2>8, <2>12, <3>2 DEF OpenSum, OwedSum
    <2> QED
      BY <2>11, <2>12
  <1> QED
    BY <1>3, <1>5, <1>6, <1>9 DEF SumsNext

-----------------------------------------------------------------------------
(* The account of a warehouse against its basis, row by row.                *)

\* The account z, in cents, is the basis y less what is owed, o, up to e / 2.
Gap(z, y, o) == Cent * z - (y - o)
Near(z, y, o, e) == 2 * Absolute(Gap(z, y, o)) <= e

LEMMA NearMoves ==
  ASSUME NEW z \in Int, NEW y \in Int, NEW o \in Int, NEW e \in Int, Near(z, y, o, e),
         NEW zz \in Int, NEW yy \in Int, NEW oo \in Int, NEW ee \in Int,
         NEW m \in Int, NEW k \in Int, 2 * m <= k, -(2 * m) <= k, e + k <= ee,
         Gap(zz, yy, oo) = Gap(z, y, o) + m
  PROVE  Near(zz, yy, oo, ee)
  <1>1. PICK a \in Int : a = Gap(z, y, o)
    BY StockAssumption DEF Gap
  <1>2. PICK b \in Int : b = Gap(zz, yy, oo)
    BY StockAssumption DEF Gap
  <1>3. b = a + m
    BY <1>1, <1>2
  <1>4. 2 * Absolute(a) <= e
    BY <1>1 DEF Near
  <1>5. 2 * Absolute(b) <= ee
    BY <1>3, <1>4 DEF Absolute
  <1> QED
    BY <1>2, <1>5 DEF Near

\* What a journal books is within half a cent of its value.
LEMMA ValueNear ==
  ASSUME NEW q \in Int, NEW cost \in Int
  PROVE  /\ Value(q, cost) \in Int /\ q * cost \in Int /\ Cent * Value(q, cost) \in Int
         /\ 2 * (Cent * Value(q, cost) - q * cost) <= Cent
         /\ 2 * (q * cost - Cent * Value(q, cost)) <= Cent
  <1>1. PICK n \in Int : n = q * cost
    OBVIOUS
  <1>2. PICK h : h = HalfUp(n, Cent)
    OBVIOUS
  <1>3. h \in Int /\ 2 * (Cent * h) <= 2 * n + Cent /\ 2 * n <= 2 * (Cent * h) + Cent
    BY <1>1, <1>2, HalfUpIs, StockAssumption
  <1>4. Value(q, cost) = h
    BY <1>1, <1>2 DEF Value
  <1>5. PICK c \in Int : c = Cent * h
    BY <1>3, StockAssumption
  <1>6. Cent \in Int
    BY StockAssumption
  <1>7. 2 * (c - n) <= Cent /\ 2 * (n - c) <= Cent
    BY <1>1, <1>3, <1>5, <1>6
  <1> QED
    BY <1>1, <1>3, <1>4, <1>5, <1>7

\* What row adds to what is open in w, and to what is owed at its cost.
OpenBy(row, w) == IF Obliges(row, w) THEN Absolute(row.quantity) ELSE 0
OwedBy(row, w) == IF Obliges(row, w) THEN Absolute(row.quantity) * row.cost ELSE 0

\* With x units of basis y in w, the list M, the links L and the account z
\* agree, to the dust and h.
Stocked(M, L, w, x, y, z, h) ==
  /\ x \in Int /\ y \in Nat /\ z \in Int
  /\ x <= 0 => y = 0
  /\ OpenSum(M, L, w) = Over(-x)
  /\ Near(z, y, OwedSum(M, L, w), DustSum(M, L) + h)

\* The list M and the links L have w at x units with basis y, and z is its account.
Ties(M, L, w, x, y, z) == Worth(M, w, x, y) /\ Stocked(M, L, w, x, y, z, 0)

\* A list, its links, and one row more.
OneRow(M, N, L, row) ==
  Longer(M, N, row) /\ RowsFit(M) /\ RowFits(row) /\ LinksFit(M, L)

\* Row takes w from x units with basis y and account z to xx, yy and zz.
Fair(row, w, x, y, z, xx, yy, zz) ==
  /\ xx = UnitsNext(x, row, w) /\ yy = BasisNext(x, y, row, w)
  /\ yy \in Nat /\ zz \in Int
  /\ xx <= 0 => yy = 0
  /\ Over(-xx) = Over(-x) + OpenBy(row, w)
  /\ \E m \in Int : /\ Cent * zz - Cent * z = yy - y - OwedBy(row, w) + m
                    /\ 2 * m <= Cent + Absolute(row.quantity)
                    /\ -(2 * m) <= Cent + Absolute(row.quantity)

LEMMA StockedNext ==
  ASSUME NEW M, NEW N, NEW L, NEW row, OneRow(M, N, L, row),
         NEW w, NEW x, NEW y, NEW z, NEW a \in Nat, Stocked(M, L, w, x, y, z, a),
         NEW xx, NEW yy, NEW zz, Fair(row, w, x, y, z, xx, yy, zz)
  PROVE  Stocked(N, L, w, xx, yy, zz, a)
  <1>1. /\ Longer(M, N, row) /\ RowsFit(M) /\ RowFits(row) /\ LinksFit(M, L)
        /\ x \in Int /\ y \in Nat /\ z \in Int
        /\ OpenSum(M, L, w) = Over(-x) /\ Near(z, y, OwedSum(M, L, w), DustSum(M, L) + a)
        /\ xx = UnitsNext(x, row, w) /\ yy = BasisNext(x, y, row, w)
        /\ yy \in Nat /\ zz \in Int /\ (xx <= 0 => yy = 0)
        /\ Over(-xx) = Over(-x) + OpenBy(row, w)
    BY DEF OneRow, Stocked, Fair
  <1>3. PICK q \in Nat : q = Absolute(row.quantity)
    BY <1>1 DEF RowFits, Absolute
  <1>4. xx \in Int /\ OwedBy(row, w) \in Int
    <2>1. row.quantity \in Int /\ row.cost \in Nat /\ q * row.cost \in Int
      BY <1>1, <1>3 DEF RowFits
    <2> QED
      BY <1>1, <1>3, <2>1 DEF UnitsNext, OwedBy
  <1>5. SumsNext(M, N, L, row)
    BY <1>1, SumsGrow
  <1>6. OpenSum(N, L, w) = Over(-xx)
    BY <1>1, <1>5 DEF SumsNext, OpenBy
  <1>7. PICK o \in Int : o = OwedSum(M, L, w)
    BY <1>1, SumsAreInts
  <1>8. PICK oo \in Int : oo = OwedSum(N, L, w) /\ oo = o + OwedBy(row, w)
    <2>1. OwedSum(N, L, w) = OwedSum(M, L, w) + OwedBy(row, w)
      BY <1>5 DEF SumsNext, OwedBy
    <2> QED
      BY <1>4, <1>7, <2>1
  <1>9. PICK c \in Nat : c = Cardinality(L)
    BY <1>1, FS_CardinalityType DEF LinksFit
  <1>10. PICK d \in Int : d = Cent * c
    BY StockAssumption
  <1>11. GrainSum(M) \in Int
    BY <1>1, SumsAreInts
  <1>12. PICK e \in Int : e = DustSum(M, L) + a
    BY <1>9, <1>10, <1>11 DEF DustSum
  <1>13. PICK ee \in Int : ee = DustSum(N, L) + a /\ ee = e + (Cent + q)
    <2>1. GrainSum(N) = GrainSum(M) + (Cent + q)
      BY <1>3, <1>5 DEF SumsNext
    <2>2. DustSum(N, L) = GrainSum(N) + d /\ DustSum(M, L) = GrainSum(M) + d
      BY <1>9, <1>10 DEF DustSum
    <2> QED
      BY <1>11, <1>12, <2>1, <2>2, StockAssumption
  <1>14. PICK m \in Int : /\ Cent * zz - Cent * z = yy - y - OwedBy(row, w) + m
                          /\ 2 * m <= Cent + q /\ -(2 * m) <= Cent + q
    BY <1>3 DEF Fair
  <1>15. PICK g \in Int : g = Cent * z
    BY <1>1, StockAssumption
  <1>16. PICK h \in Int : h = Cent * zz
    BY <1>1, StockAssumption
  <1>17. Gap(zz, yy, oo) = Gap(z, y, o) + m
    <2>1. h - g = yy - y - OwedBy(row, w) + m
      BY <1>14, <1>15, <1>16
    <2>2. h - (yy - oo) = g - (y - o) + m
      BY <1>1, <1>4, <1>8, <2>1
    <2> QED
      BY <1>15, <1>16, <2>2 DEF Gap
  <1>18. PICK k \in Int : k = Cent + q
    BY StockAssumption
  <1>19. Near(z, y, o, e)
    BY <1>1, <1>7, <1>12
  <1>20. y \in Int /\ yy \in Int
    BY <1>1
  <1>21. e + k <= ee /\ 2 * m <= k /\ -(2 * m) <= k
    BY <1>13, <1>14, <1>18
  <1>22. Near(zz, yy, oo, ee)
    <2>1. z \in Int /\ zz \in Int /\ o \in Int /\ oo \in Int /\ e \in Int /\ ee \in Int /\ m \in Int /\ k \in Int
      BY <1>1
    <2> QED
      BY ONLY <1>17, <1>19, <1>20, <1>21, <2>1, NearMoves
  <1> QED
    BY <1>1, <1>4, <1>6, <1>8, <1>13, <1>22 DEF Stocked

LEMMA TiesNext ==
  ASSUME NEW M, NEW N, NEW L, NEW row, OneRow(M, N, L, row),
         NEW w, NEW x, NEW y, NEW z, Ties(M, L, w, x, y, z),
         NEW xx, NEW yy, NEW zz, Fair(row, w, x, y, z, xx, yy, zz)
  PROVE  Ties(N, L, w, xx, yy, zz)
  <1>1. Worth(M, w, x, y) /\ Stocked(M, L, w, x, y, z, 0) /\ x \in Int /\ y \in Nat
    BY DEF Ties, Stocked
  <1>2. Stocked(N, L, w, xx, yy, zz, 0)
    BY <1>1, StockedNext
  <1>3. Longer(M, N, row) /\ RowFits(row) /\ xx = UnitsNext(x, row, w) /\ yy = BasisNext(x, y, row, w)
    BY DEF OneRow, Fair
  <1>4. Worth(N, w, xx, yy)
    BY <1>1, <1>3, WorthNext
  <1> QED
    BY <1>2, <1>4 DEF Ties

\* A row of another warehouse.
LEMMA FairElsewhere ==
  ASSUME NEW row, RowFits(row), NEW w, row.warehouse # w,
         NEW x \in Int, NEW y \in Nat, NEW z \in Int, x <= 0 => y = 0
  PROVE  Fair(row, w, x, y, z, x, y, z)
  <1>1. UnitsNext(x, row, w) = x /\ BasisNext(x, y, row, w) = y
    BY DEF UnitsNext, BasisNext
  <1>2. OpenBy(row, w) = 0 /\ OwedBy(row, w) = 0
    BY DEF OpenBy, OwedBy, Obliges
  <1>3. PICK g \in Int : g = Cent * z
    BY StockAssumption
  <1>4. Over(-x) \in Int
    BY DEF Over
  <1>5. PICK q \in Nat : q = Absolute(row.quantity)
    BY DEF RowFits, Absolute
  <1>6. /\ 0 \in Int /\ g - g = y - y - 0 + 0
        /\ 2 * 0 <= Cent + q /\ -(2 * 0) <= Cent + q
    BY <1>5, StockAssumption
  <1>7. \E m \in Int : /\ Cent * z - Cent * z = y - y - OwedBy(row, w) + m
                       /\ 2 * m <= Cent + Absolute(row.quantity)
                       /\ -(2 * m) <= Cent + Absolute(row.quantity)
    BY <1>2, <1>3, <1>5, <1>6
  <1> QED
    BY <1>1, <1>2, <1>4, <1>7 DEF Fair

\* A row of w that takes the account from z to zz, given the error m.
LEMMA FairHere ==
  ASSUME NEW row, RowFits(row), NEW w, row.warehouse = w,
         NEW x \in Int, NEW y \in Nat, NEW z \in Int,
         NEW xx \in Int, xx = x + row.quantity,
         NEW yy \in Nat, yy = BasisNext(x, y, row, w), xx <= 0 => yy = 0,
         Over(-xx) = Over(-x) + OpenBy(row, w),
         NEW v \in Int, NEW zz \in Int, zz = z + v,
         NEW m \in Int, Cent * v = yy - y - OwedBy(row, w) + m,
         2 * m <= Cent + Absolute(row.quantity), -(2 * m) <= Cent + Absolute(row.quantity)
  PROVE  Fair(row, w, x, y, z, xx, yy, zz)
  <1>1. UnitsNext(x, row, w) = xx
    BY DEF UnitsNext
  <1>2. Cent * zz - Cent * z = Cent * v
    <2>1. PICK g \in Int : g = Cent * z
      BY StockAssumption
    <2>2. PICK h \in Int : h = Cent * v
      BY StockAssumption
    <2>3. Cent * zz = g + h
      BY <2>1, <2>2, StockAssumption
    <2> QED
      BY <2>1, <2>2, <2>3
  <1>3. \E k \in Int : /\ Cent * zz - Cent * z = yy - y - OwedBy(row, w) + k
                       /\ 2 * k <= Cent + Absolute(row.quantity)
                       /\ -(2 * k) <= Cent + Absolute(row.quantity)
    BY <1>2
  <1> QED
    BY <1>1, <1>3 DEF Fair

\* Goods arrive at or above zero.
LEMMA FairIn ==
  ASSUME NEW row, RowFits(row), NEW w, row.warehouse = w, NEW q \in Nat, row.quantity = q,
         row.type # "SALES_ISSUE",
         NEW x \in Int, x >= 0, NEW y \in Nat, NEW z \in Int
  PROVE  \E xx, yy : Fair(row, w, x, y, z, xx, yy, z + Value(q, row.cost))
  <1>1. PICK cost \in Nat : cost = row.cost
    BY DEF RowFits
  <1>2. PICK p \in Nat : p = q * cost
    OBVIOUS
  <1>3. PICK v \in Int : v = Value(q, cost)
    BY ValueNear
  <1>4. PICK g \in Int : g = Cent * v
    BY <1>3, StockAssumption
  <1>5. 2 * (g - p) <= Cent /\ 2 * (p - g) <= Cent
    BY <1>2, <1>3, <1>4, ValueNear
  <1>6. q > 0
    BY DEF RowFits
  <1>7. PICK xx \in Int : xx = x + q
    OBVIOUS
  <1>8. PICK yy \in Nat : yy = y + p
    BY <1>2
  <1>9. yy = BasisNext(x, y, row, w)
    BY <1>1, <1>2, <1>6, <1>8 DEF BasisNext, BasisIn
  <1>10. OpenBy(row, w) = 0 /\ OwedBy(row, w) = 0
    BY DEF OpenBy, OwedBy, Obliges
  <1>11. Over(-xx) = Over(-x) + 0 /\ xx > 0
    BY <1>6, <1>7 DEF Over
  <1>12. Absolute(row.quantity) = q
    BY DEF Absolute
  <1>13. PICK m \in Int : m = g - p
    OBVIOUS
  <1>14. Cent * v = yy - y - 0 + m /\ 2 * m <= Cent + q /\ -(2 * m) <= Cent + q
    BY <1>4, <1>5, <1>8, <1>13, StockAssumption
  <1>15. PICK zz \in Int : zz = z + v
    BY <1>3
  <1>16. Fair(row, w, x, y, z, xx, yy, zz)
    <2>1. /\ xx = x + row.quantity /\ (xx <= 0 => yy = 0)
          /\ Over(-xx) = Over(-x) + OpenBy(row, w)
          /\ Cent * v = yy - y - OwedBy(row, w) + m
          /\ 2 * m <= Cent + Absolute(row.quantity) /\ -(2 * m) <= Cent + Absolute(row.quantity)
      BY <1>7, <1>10, <1>11, <1>12, <1>14
    <2> QED
      BY <1>9, <1>15, <2>1, FairHere
  <1> QED
    BY <1>1, <1>3, <1>15, <1>16

\* A sale below zero is owed at its temporary cost.
LEMMA FairBelow ==
  ASSUME NEW row, RowFits(row), NEW w, NEW q \in Nat, row.quantity = -q, Obliges(row, w),
         NEW x \in Int, x <= 0, NEW y \in Nat, y = 0, NEW z \in Int
  PROVE  \E xx, yy : Fair(row, w, x, y, z, xx, yy, z - Value(q, row.cost))
  <1>1. PICK cost \in Nat : cost = row.cost
    BY DEF RowFits
  <1>2. PICK p \in Nat : p = q * cost
    OBVIOUS
  <1>3. PICK h \in Int : h = Value(q, cost)
    BY ValueNear
  <1>3a. /\ Cent * h \in Int
         /\ 2 * (Cent * h - q * cost) <= Cent /\ 2 * (q * cost - Cent * h) <= Cent
    BY <1>3, ValueNear
  <1>4. PICK g \in Int : g = Cent * h
    BY <1>3a
  <1>5. 2 * (g - p) <= Cent /\ 2 * (p - g) <= Cent
    BY <1>2, <1>3a, <1>4
  <1>6. q > 0 /\ row.warehouse = w
    BY DEF RowFits, Obliges
  <1>7. PICK xx \in Int : xx = x - q
    OBVIOUS
  <1>8. PICK yy \in Nat : yy = 0
    OBVIOUS
  <1>9. yy = BasisNext(x, y, row, w)
    <2>1. ~(row.quantity > 0) /\ -row.quantity = q
      BY <1>6
    <2>2. ~(x > q)
      BY <1>6
    <2> QED
      BY <1>6, <1>8, <2>1, <2>2 DEF BasisNext, BasisOut
  <1>10. Absolute(row.quantity) = q
    BY <1>6 DEF Absolute
  <1>11. OpenBy(row, w) = q /\ OwedBy(row, w) = p
    BY <1>1, <1>2, <1>10 DEF OpenBy, OwedBy
  <1>12. Over(-xx) = Over(-x) + q
    BY <1>6, <1>7 DEF Over
  <1>13. PICK m \in Int : m = p - g
    OBVIOUS
  <1>14. PICK v \in Int : v = -h
    BY <1>3
  <1>15. Cent * v = -g
    BY <1>3, <1>4, <1>14, StockAssumption
  <1>16. -g = 0 - 0 - p + m /\ 2 * m <= Cent + q /\ -(2 * m) <= Cent + q
    BY <1>5, <1>13, StockAssumption
  <1>17. PICK zz \in Int : zz = z + v
    BY <1>14
  <1>18. Fair(row, w, x, y, z, xx, yy, zz)
    <2>1. /\ xx = x + row.quantity /\ (xx <= 0 => yy = 0)
          /\ Over(-xx) = Over(-x) + OpenBy(row, w)
          /\ Cent * v = yy - y - OwedBy(row, w) + m
          /\ 2 * m <= Cent + Absolute(row.quantity) /\ -(2 * m) <= Cent + Absolute(row.quantity)
      BY <1>7, <1>8, <1>10, <1>11, <1>12, <1>15, <1>16
    <2> QED
      BY <1>6, <1>9, <1>17, <2>1, FairHere
  <1>19. zz = z - Value(q, row.cost)
    BY <1>1, <1>3, <1>14, <1>17
  <1> QED
    BY <1>18, <1>19

\* What q of x units take at the average c, against a basis of y.
LEMMA OutNear ==
  ASSUME NEW x \in Nat, NEW q \in Nat, q # 0, x >= q, NEW y \in Nat,
         NEW c, c = HalfUp(y, x),
         NEW yy, yy = BasisOut(x, y, q, c)
  PROVE  /\ c \in Nat /\ yy \in Nat /\ (x = q => yy = 0)
         /\ 2 * (yy - y + q * c) <= q /\ -(2 * (yy - y + q * c)) <= q
  <1>1. c \in Nat /\ 2 * (x * c) <= 2 * y + x /\ 2 * y <= 2 * (x * c) + x
    <2>1. x \in Nat \ {0} /\ y \in Int
      OBVIOUS
    <2> QED
      BY <2>1, HalfUpIs, HalfUpNat
  <1>2. PICK p \in Nat : p = q * c
    BY <1>1
  <1>3. PICK s \in Nat : s = x * c
    BY <1>1
  <1>4. 2 * s <= 2 * y + x /\ 2 * y <= 2 * s + x
    BY <1>1, <1>3
  <1>5. CASE x = q
    <2>1. yy = 0
      BY <1>5 DEF BasisOut
    <2>2. p = s
      BY <1>2, <1>3, <1>5
    <2>3. 2 * (0 - y + p) <= q /\ -(2 * (0 - y + p)) <= q
      BY <1>4, <1>5, <2>2
    <2> QED
      BY <1>1, <1>2, <2>1, <2>3
  <1>6. CASE x # q
    <2>1. x > q /\ x > 0
      BY <1>6
    <2>2. Least(q, x) = q /\ Over(q) = q /\ AverageOf(x, y, c) = c
      BY <2>1 DEF Least, Over, AverageOf
    <2>3. yy = Over(y - p)
      BY <1>2, <2>1, <2>2 DEF BasisOut, ReliefOf
    <2>4. CASE p <= y
      <3>1. yy = y - p
        BY <2>3, <2>4 DEF Over
      <3>2. yy - y + p = 0 /\ yy \in Nat
        BY <2>4, <3>1
      <3> QED
        BY <1>1, <1>2, <1>6, <3>2
    <2>5. CASE ~(p <= y)
      <3>1. yy = 0
        BY <2>3, <2>5 DEF Over
      <3>2. PICK r \in Nat : r = x - q
        BY <2>1
      <3>3. PICK t \in Nat : t = r * c
        BY <1>1
      <3>4. s = p + t
        BY <1>1, <1>2, <1>3, <3>2, <3>3
      <3>5. c # 0
        BY <1>1, <1>2, <2>5
      <3>6. r <= t
        <4>1. PICK k \in Nat : c = k + 1
          <5>1. c - 1 \in Nat
            BY <1>1, <3>5
          <5> QED
            BY <1>1, <5>1
        <4>2. PICK l \in Nat : l = r * k
          OBVIOUS
        <4>3. t = l + r
          BY <3>3, <4>1, <4>2
        <4> QED
          BY <4>2, <4>3
      <3>7. 2 * (0 - y + p) <= q /\ -(2 * (0 - y + p)) <= q
        BY <1>4, <2>1, <2>5, <3>2, <3>4, <3>6
      <3> QED
        BY <1>1, <1>2, <1>6, <3>1, <3>7
    <2> QED
      BY <2>4, <2>5
  <1> QED
    BY <1>5, <1>6

\* Goods leave at the average while they last.
LEMMA FairOut ==
  ASSUME NEW row, RowFits(row), NEW w, row.warehouse = w, NEW q \in Nat, row.quantity = -q,
         ~Obliges(row, w), NEW x \in Int, x >= q, NEW y \in Nat, NEW z \in Int,
         row.cost = HalfUp(y, x)
  PROVE  \E xx, yy : Fair(row, w, x, y, z, xx, yy, z - Value(q, row.cost))
  <1>1. PICK cost : cost = row.cost
    OBVIOUS
  <1>2. q > 0 /\ x \in Nat
    BY DEF RowFits
  <1>3. PICK yy : yy = BasisOut(x, y, q, cost)
    OBVIOUS
  <1>4. /\ cost \in Nat /\ yy \in Nat /\ (x = q => yy = 0)
        /\ 2 * (yy - y + q * cost) <= q /\ -(2 * (yy - y + q * cost)) <= q
    BY <1>1, <1>2, <1>3, OutNear
  <1>5. PICK p \in Nat : p = q * cost
    BY <1>4
  <1>6. PICK h \in Int : h = Value(q, cost)
    <2>1. q \in Int /\ cost \in Int
      BY <1>4
    <2> QED
      BY ONLY <2>1, ValueNear
  <1>7. PICK g \in Int : g = Cent * h
    BY <1>6, StockAssumption
  <1>8. 2 * (g - p) <= Cent /\ 2 * (p - g) <= Cent
    BY <1>4, <1>5, <1>6, <1>7, ValueNear
  <1>9. PICK xx \in Int : xx = x - q
    OBVIOUS
  <1>10. yy = BasisNext(x, y, row, w)
    <2>1. ~(row.quantity > 0) /\ -row.quantity = q
      BY <1>2
    <2> QED
      BY <1>1, <1>3, <2>1 DEF BasisNext
  <1>11. Absolute(row.quantity) = q /\ OpenBy(row, w) = 0 /\ OwedBy(row, w) = 0
    BY <1>2 DEF Absolute, OpenBy, OwedBy
  <1>12. Over(-xx) = Over(-x) + 0 /\ (xx <= 0 => yy = 0)
    BY <1>2, <1>4, <1>9 DEF Over
  <1>13. PICK m \in Int : m = y - yy - g
    BY <1>4
  <1>14. PICK v \in Int : v = -h
    BY <1>6
  <1>15. Cent * v = -g
    BY <1>6, <1>7, <1>14, StockAssumption
  <1>16. -g = yy - y - 0 + m /\ 2 * m <= Cent + q /\ -(2 * m) <= Cent + q
    <2>1. 2 * (yy - y + p) <= q /\ -(2 * (yy - y + p)) <= q
      BY <1>4, <1>5
    <2> QED
      BY <1>4, <1>8, <1>13, <2>1, StockAssumption
  <1>17. PICK zz \in Int : zz = z + v
    BY <1>14
  <1>18. Fair(row, w, x, y, z, xx, yy, zz)
    <2>1. /\ xx = x + row.quantity /\ (xx <= 0 => yy = 0)
          /\ Over(-xx) = Over(-x) + OpenBy(row, w)
          /\ Cent * v = yy - y - OwedBy(row, w) + m
          /\ 2 * m <= Cent + Absolute(row.quantity) /\ -(2 * m) <= Cent + Absolute(row.quantity)
      BY <1>9, <1>11, <1>12, <1>15, <1>16
    <2> QED
      BY <1>4, <1>10, <1>17, <2>1, FairHere
  <1>19. zz = z - Value(q, row.cost)
    BY <1>1, <1>6, <1>14, <1>17
  <1> QED
    BY <1>18, <1>19

-----------------------------------------------------------------------------
(* Histories for which the journals follow the valuation.                   *)
Rough(row) ==
  \/ row.type \in {"ADJUSTMENT_IN", "ADJUSTMENT_OUT", "SHORTAGE", "PURCHASE_RETURN"}
  \/ row.type = "SALES_ISSUE" /\ row.src # 0
  \/ row.temporary /\ row.quantity < 0 /\ (row.before > 0 \/ row.type = "TRANSFER_OUT")
  \/ row.quantity > 0 /\ row.before < 0 /\ ~(row.type = "PURCHASE_RECEIPT" /\ row.src = 0)

RegularIn(M) == InOrder(M) /\ \A i \in DOMAIN M : ~Rough(M[i])

LEMMA RegularIs == Regular <=> RegularIn(moves)
  <1>1. \A i \in DOMAIN moves : Irregular(i) <=> Rough(moves[i]) \/ Inserted(i)
    BY DEF Irregular, Rough, Unjournalled, AtSourceCost, PartlyTemporary, FillsUnasked, Original, Is
  <1> QED
    BY <1>1 DEF Regular, RegularIn, InOrder, Inserted

LEMMA RegularBefore ==
  ASSUME NEW M, NEW N, NEW row, Longer(M, N, row), RegularIn(N)
  PROVE  RegularIn(M) /\ ~Rough(row)
  <1>1. PICK n \in Nat : n = Len(M)
    BY Domains
  <1>2. /\ DOMAIN M = 1 .. n /\ DOMAIN N = 1 .. (n + 1) /\ N[n + 1] = row
        /\ \A i \in 1 .. n : N[i] = M[i]
    BY <1>1 DEF Longer, IsList
  <1>3. InOrder(M)
    <2> SUFFICES ASSUME NEW i \in 1 .. n, NEW j \in 1 .. (i - 1) PROVE ~(M[j].day > M[i].day)
      BY <1>2 DEF InOrder
    <2>1. i \in 1 .. (n + 1) /\ j \in 1 .. n
      OBVIOUS
    <2>2. ~(N[j].day > N[i].day)
      BY <1>2, <2>1 DEF RegularIn, InOrder
    <2> QED
      BY <1>2, <2>1, <2>2
  <1>4. \A i \in DOMAIN M : ~Rough(M[i])
    <2>1. \A i \in 1 .. n : i \in 1 .. (n + 1)
      OBVIOUS
    <2> QED
      BY <1>2, <2>1 DEF RegularIn
  <1>5. n + 1 \in DOMAIN N
    BY <1>2
  <1>6. ~Rough(row)
    BY <1>2, <1>5 DEF RegularIn
  <1> QED
    BY <1>3, <1>4, <1>6 DEF RegularIn

\* Every warehouse ties.
TiesAll(M, L, I) == \A u \in Warehouse : \E x, y : Ties(M, L, u, x, y, I[u])

Tied(M, L, I) == RegularIn(M) => TiesAll(M, L, I)

\* A row that is fair to its warehouse leaves all of them tied.
LEMMA AllTie ==
  ASSUME NEW M, NEW N, NEW L, NEW row, OneRow(M, N, L, row), NEW I, TiesAll(M, L, I),
         NEW w, w = row.warehouse, NEW J, \A u \in Warehouse : u # w => J[u] = I[u],
         NEW x, NEW y, Ties(M, L, w, x, y, I[w]),
         NEW xx, NEW yy, Fair(row, w, x, y, I[w], xx, yy, J[w])
  PROVE  TiesAll(N, L, J)
  <1> SUFFICES ASSUME NEW u \in Warehouse PROVE \E a, b : Ties(N, L, u, a, b, J[u])
    BY DEF TiesAll
  <1>1. CASE u = w
    <2>1. PICK z : z = I[w]
      OBVIOUS
    <2>2. PICK zz : zz = J[w]
      OBVIOUS
    <2>3. Ties(N, L, w, xx, yy, zz)
      BY <2>1, <2>2, TiesNext
    <2> QED
      BY <1>1, <2>2, <2>3
  <1>2. CASE u # w
    <2>1. PICK z : z = I[u]
      OBVIOUS
    <2>2. PICK a, b : Ties(M, L, u, a, b, z)
      BY <2>1 DEF TiesAll
    <2>3. a \in Int /\ b \in Nat /\ z \in Int /\ (a <= 0 => b = 0) /\ RowFits(row)
      BY <2>2 DEF Ties, Stocked, OneRow
    <2>4. Fair(row, u, a, b, z, a, b, z)
      BY <1>2, <2>3, FairElsewhere
    <2>5. Ties(N, L, u, a, b, z)
      BY <2>2, <2>4, TiesNext
    <2> QED
      BY <1>2, <2>1, <2>5
  <1> QED
    BY <1>1, <1>2

\* w holds x units of basis y as issue_stock sees it.
Holds(w, x, y) ==
  /\ x \in Int /\ y \in Nat /\ inventory[w] \in Int /\ (x <= 0 => y = 0)
  /\ OnHand(w) = x
  /\ x > 0 => Average(w) = HalfUp(y, x)

\* The books have it so too.
Stands(w, x, y) == Ties(moves, links, w, x, y, inventory[w]) /\ Holds(w, x, y)

LEMMA StandsNow ==
  ASSUME ValueInv, Active = {}, Tied(moves, links, inventory), RegularIn(moves), NEW w \in Warehouse
  PROVE  \E x, y : Stands(w, x, y) /\ Valuation.basis[w] = y
  <1>1. /\ ListInv(moves) /\ CostsOK(moves) /\ Active = {} /\ ValuationIs(w)
        /\ InOrder(moves) /\ Len(moves) \in Nat
    BY ValueInvIs, LengthIs DEF RegularIn
  <1>2. PICK x, y : Ties(moves, links, w, x, y, inventory[w])
    BY DEF Tied, TiesAll
  <1>3. Worth(moves, w, x, y)
    BY <1>2 DEF Ties
  <1>4. PICK u : u = OnHand(w)
    OBVIOUS
  <1>5. PICK b : b = Valuation.basis[w]
    OBVIOUS
  <1>6. Worth(moves, w, u, b)
    BY <1>1, <1>4, <1>5, ValuationIsWorth
  <1>7. PICK M : M = moves
    OBVIOUS
  <1>8. x = u /\ y = b
    BY <1>1, <1>3, <1>6, <1>7, WorthIsOne
  <1>9. /\ x \in Int /\ y \in Nat /\ inventory[w] \in Int /\ (x <= 0 => y = 0)
    BY <1>2 DEF Ties, Stocked
  <1>10. x > 0 => Average(w) = HalfUp(y, x)
    BY <1>1, <1>4, <1>5, <1>8, <1>9 DEF ValuationIs, Average
  <1> QED
    BY <1>2, <1>4, <1>5, <1>8, <1>9, <1>10 DEF Stands, Holds

-----------------------------------------------------------------------------
(* The rows a step writes.                                                  *)
Made(row, type, w, q, cost, temporary, src) ==
  /\ row.type = type /\ row.warehouse = w
  /\ row.quantity = (IF type \in InTypes THEN q ELSE -q)
  /\ row.cost = cost /\ row.temporary = temporary
  /\ row.before = OnHand(w) /\ row.src = src

LEMMA RowMade ==
  ASSUME NEW type, NEW w, NEW q, NEW d, NEW cost, NEW temporary, NEW src,
         NEW row, row = Row(type, w, q, d, cost, temporary, src)
  PROVE  /\ Made(row, type, w, q, cost, temporary, src)
         /\ \A ref : Made([row EXCEPT !.ref = ref], type, w, q, cost, temporary, src)
  BY DEF Row, Made

LEMMA MadeFits ==
  ASSUME NEW row, NEW type, NEW w, NEW q \in Nat, q # 0, NEW cost \in Nat, NEW temporary, NEW src,
         Made(row, type, w, q, cost, temporary, src)
  PROVE  RowFits(row)
  BY DEF Made, RowFits

LEMMA ListFits ==
  ASSUME ValueInv
  PROVE  /\ RowsFit(moves) /\ LinksFit(moves, links) /\ IsList(moves)
         /\ \A w \in Warehouse : inventory[w] \in Int
  <1>1. /\ ListInv(moves) /\ LinksFit(moves, links) /\ TypedMoves(moves)
        /\ TypedBooks(inventory, cogs, payable)
    BY ValueInvIs
  <1>2. \A i \in DOMAIN moves : moves[i] \in Movement
    BY <1>1 DEF TypedMoves, TypedRow
  <1>3. \A i \in DOMAIN moves : RowFits(moves[i])
    BY <1>2 DEF Movement, RowFits
  <1> QED
    BY <1>1, <1>3 DEF ListInv, RowsFit, TypedBooks

LEMMA MoveRow ==
  ASSUME ValueInv, NEW type, NEW w, NEW q \in Nat, q # 0, NEW d, NEW cost \in Nat, NEW temporary, NEW src,
         Move(type, w, q, d, cost, temporary, src)
  PROVE  \E row : OneRow(moves, moves', links, row) /\ Made(row, type, w, q, cost, temporary, src)
  <1>1. PICK row : row = Row(type, w, q, d, cost, temporary, src)
    OBVIOUS
  <1>2. Made(row, type, w, q, cost, temporary, src)
    BY <1>1, RowMade
  <1>3. RowFits(row)
    BY <1>2, MadeFits
  <1>4. PICK M : M = moves
    OBVIOUS
  <1>5. moves' = Append(M, row)
    BY <1>1, <1>4 DEF Move
  <1>6. Longer(M, Append(M, row), row)
    BY <1>4, ListFits, AppendIsLonger
  <1> QED
    BY <1>2, <1>3, <1>4, <1>5, <1>6, ListFits DEF OneRow

LEMMA TwoRows ==
  ASSUME ValueInv, NEW a, NEW b, RowFits(a), RowFits(b), moves' = moves \o <<a, b>>
  PROVE  \E N : OneRow(moves, N, links, a) /\ OneRow(N, moves', links, b)
  <1>1. PICK M : M = moves
    OBVIOUS
  <1>2. RowsFit(M) /\ LinksFit(M, links) /\ IsList(M)
    BY <1>1, ListFits
  <1>3. PICK N : Longer(M, N, a) /\ Longer(N, M \o <<a, b>>, b)
    BY <1>2, TwoAreLonger
  <1>4. RowsFit(N)
    BY <1>2, <1>3, SumsGrow
  <1>5. LinksFit(N, links)
    <2>1. PICK n : n = Len(M) + 1
      OBVIOUS
    <2>2. /\ DOMAIN N = DOMAIN M \cup {n} /\ n \notin DOMAIN M /\ N[n] = a
          /\ \A i \in DOMAIN M : N[i] = M[i]
      BY <1>3, <2>1, Domains
    <2>3. Given(links, n) = 0
      <3>1. {l \in links : l.issue = n} = {}
        BY <1>2, <2>2 DEF LinksFit
      <3> QED
        BY <3>1, SumEmpty DEF Given
    <2>4. Size(N, n) \in Nat /\ \A i \in DOMAIN M : Size(N, i) = Size(M, i)
      BY <2>2 DEF Size, Absolute, RowFits
    <2>5. \A i \in DOMAIN N : Given(links, i) <= Size(N, i)
      BY <1>2, <2>2, <2>3, <2>4 DEF LinksFit
    <2> QED
      BY <1>2, <2>2, <2>5 DEF LinksFit
  <1> QED
    BY <1>1, <1>2, <1>3, <1>4, <1>5 DEF OneRow

\* What issue_stock writes.
LEMMA FairIssue ==
  ASSUME ValueInv, NEW w \in Warehouse, NEW x, NEW y, Holds(w, x, y),
         NEW q \in Nat, q # 0, NEW cost \in IssueCosts(w, q),
         NEW type \in {"SALES_ISSUE", "TRANSFER_OUT"}, NEW row,
         Made(row, type, w, q, cost, Below(w, q), 0), ~Rough(row)
  PROVE  /\ \E xx, yy : Fair(row, w, x, y, inventory[w], xx, yy, inventory[w] - Value(q, cost))
         /\ type = "TRANSFER_OUT" => ~Below(w, q)
  <1>1. cost \in Nat
    BY IssueCostIs
  <1>2. RowFits(row)
    BY <1>1, MadeFits
  <1>3. /\ row.type = type /\ row.warehouse = w /\ row.quantity = -q /\ row.cost = cost
        /\ row.temporary = Below(w, q) /\ row.before = x /\ row.src = 0
    BY DEF Made, Holds, InTypes
  <1>4. PICK z \in Int : z = inventory[w]
    BY DEF Holds
  <1>5. x \in Int /\ y \in Nat /\ (x <= 0 => y = 0) /\ OnHand(w) = x
    BY DEF Holds
  <1>6. CASE x < q
    <2>1. Below(w, q) /\ row.temporary
      BY <1>3, <1>5, <1>6 DEF Below
    <2>2. ~(x > 0) /\ type = "SALES_ISSUE"
      BY <1>3, <2>1 DEF Rough
    <2>3. Obliges(row, w)
      BY <1>3, <2>1, <2>2 DEF Obliges
    <2>4. x <= 0 /\ y = 0
      BY <1>5, <2>2
    <2>5. \E xx, yy : Fair(row, w, x, y, z, xx, yy, z - Value(q, row.cost))
      BY <1>2, <1>3, <1>5, <2>3, <2>4, FairBelow
    <2> QED
      BY <1>3, <1>4, <2>2, <2>5
  <1>7. CASE ~(x < q)
    <2>1. ~Below(w, q) /\ ~row.temporary
      BY <1>3, <1>5, <1>7 DEF Below
    <2>2. ~Obliges(row, w)
      BY <2>1 DEF Obliges
    <2>3. x >= q /\ x > 0
      BY <1>5, <1>7
    <2>4. row.cost = HalfUp(y, x)
      BY <1>3, <1>5, <1>7, <2>3 DEF IssueCosts, Holds
    <2>5. \E xx, yy : Fair(row, w, x, y, z, xx, yy, z - Value(q, row.cost))
      BY <1>2, <1>3, <1>5, <2>2, <2>3, <2>4, FairOut
    <2> QED
      BY <1>3, <1>4, <2>1, <2>5
  <1> QED
    BY <1>6, <1>7

\* Goods that come in by other ways than a purchase.
LEMMA FairReceipt ==
  ASSUME NEW w \in Warehouse, NEW x, NEW y, Holds(w, x, y),
         NEW q \in Nat, q # 0, NEW cost \in Nat, NEW temporary, NEW src,
         NEW type \in {"OPENING", "SALES_RETURN", "TRANSFER_IN"}, NEW row,
         Made(row, type, w, q, cost, temporary, src), ~Rough(row)
  PROVE  \E xx, yy : Fair(row, w, x, y, inventory[w], xx, yy, inventory[w] + Value(q, cost))
  <1>1. RowFits(row)
    BY MadeFits
  <1>2. /\ row.type = type /\ row.warehouse = w /\ row.quantity = q /\ row.cost = cost /\ row.before = x
    BY DEF Made, Holds, InTypes
  <1>3. PICK z \in Int : z = inventory[w]
    BY DEF Holds
  <1>4. x \in Int /\ y \in Nat
    BY DEF Holds
  <1>5. x >= 0
    BY <1>2, <1>4 DEF Rough
  <1>6. \E xx, yy : Fair(row, w, x, y, z, xx, yy, z + Value(q, row.cost))
    BY <1>1, <1>2, <1>4, <1>5, FairIn
  <1> QED
    BY <1>2, <1>3, <1>6

-----------------------------------------------------------------------------
(* The steps that serve no obligation.                                      *)
\* Before any landed cost.
TiedInv == ValueInv /\ costs = <<>> /\ Tied(moves, links, inventory)

LEMMA TiedNow == TiedInv => ValueInv /\ Active = {} /\ Tied(moves, links, inventory)
  BY DEF TiedInv, Active

\* What every step has to show.
TiedAfter == RegularIn(moves') => TiesAll(moves', links', inventory')

LEMMA OneRowTies ==
  ASSUME TiedInv, NEW row, OneRow(moves, moves', links, row), links' = links, RegularIn(moves'),
         NEW w \in Warehouse, row.warehouse = w,
         NEW v \in Int, inventory' = [inventory EXCEPT ![w] = @ + v],
         \A x, y : Stands(w, x, y) =>
           \E xx, yy : Fair(row, w, x, y, inventory[w], xx, yy, inventory[w] + v)
  PROVE  TiesAll(moves', links', inventory')
  <1>1. PICK M : M = moves
    OBVIOUS
  <1>2. PICK N : N = moves'
    OBVIOUS
  <1>3. PICK I : I = inventory
    OBVIOUS
  <1>4. PICK J : J = inventory'
    OBVIOUS
  <1>5. OneRow(M, N, links, row) /\ Longer(M, N, row)
    BY <1>1, <1>2 DEF OneRow
  <1>6. RegularIn(M)
    BY <1>2, <1>5, RegularBefore
  <1>7. TiesAll(M, links, I)
    BY <1>1, <1>3, <1>6 DEF TiedInv, Tied
  <1>8. PICK x, y : Stands(w, x, y)
    BY <1>1, <1>6, StandsNow, TiedNow
  <1>9. Ties(M, links, w, x, y, I[w])
    BY <1>1, <1>3, <1>8 DEF Stands
  <1>10. I \in [Warehouse -> Int] /\ J = [I EXCEPT ![w] = @ + v]
    BY <1>3, <1>4, ValueInvIs DEF TiedInv, TypedBooks
  <1>11. J[w] = I[w] + v /\ \A u \in Warehouse : u # w => J[u] = I[u]
    BY <1>10
  <1>12. PICK xx, yy : Fair(row, w, x, y, I[w], xx, yy, J[w])
    BY <1>3, <1>8, <1>11
  <1>13. TiesAll(N, links, J)
    BY <1>5, <1>7, <1>9, <1>11, <1>12, AllTie
  <1> QED
    BY <1>2, <1>4, <1>13

\* A movement that the journals do not follow ends the regular history.
LEMMA RoughEnds ==
  ASSUME ValueInv, NEW type, NEW w, NEW q \in Nat, q # 0, NEW d, NEW cost \in Nat, NEW temporary, NEW src,
         Move(type, w, q, d, cost, temporary, src),
         \A row : Made(row, type, w, q, cost, temporary, src) => Rough(row)
  PROVE  TiedAfter
  <1>1. PICK row : OneRow(moves, moves', links, row) /\ Made(row, type, w, q, cost, temporary, src)
    BY MoveRow
  <1>2. PICK M : M = moves
    OBVIOUS
  <1>3. PICK N : N = moves'
    OBVIOUS
  <1>4. Longer(M, N, row) /\ Rough(row)
    BY <1>1, <1>2, <1>3 DEF OneRow
  <1>5. ~RegularIn(N)
    BY <1>4, RegularBefore
  <1> QED
    BY <1>3, <1>5 DEF TiedAfter

LEMMA OpenTies ==
  ASSUME TiedInv, NEW w \in Warehouse, NEW q \in Quantity, NEW d \in Day, NEW cost \in Cost,
         OpenStock(w, q, cost, d)
  PROVE  TiedAfter
  <1> SUFFICES ASSUME RegularIn(moves') PROVE TiesAll(moves', links', inventory')
    BY DEF TiedAfter
  <1>1. q \in Nat /\ q # 0 /\ cost \in Nat
    BY DataInputs
  <1>2. PICK v \in Int : v = Value(q, cost)
    BY <1>1, ValueNear
  <1>3. /\ Move("OPENING", w, q, d, cost, FALSE, 0) /\ links' = links
        /\ inventory' = [inventory EXCEPT ![w] = @ + v]
    BY <1>2 DEF OpenStock, Unlinked
  <1>4. PICK row : OneRow(moves, moves', links, row) /\ Made(row, "OPENING", w, q, cost, FALSE, 0)
    BY <1>1, <1>3, MoveRow DEF TiedInv
  <1>5. ~Rough(row) /\ row.warehouse = w
    <2>1. PICK N : N = moves'
      OBVIOUS
    <2> QED
      BY <1>4, <2>1, RegularBefore DEF OneRow, Made
  <1>6. ASSUME NEW x, NEW y, Stands(w, x, y)
        PROVE  \E xx, yy : Fair(row, w, x, y, inventory[w], xx, yy, inventory[w] + v)
    BY <1>1, <1>2, <1>4, <1>5, <1>6, FairReceipt DEF Stands
  <1> QED
    BY <1>3, <1>4, <1>5, <1>6, OneRowTies

LEMMA AdjustTies ==
  ASSUME TiedInv, NEW w \in Warehouse, NEW q \in Quantity, NEW d \in Day, NEW cost \in Cost,
         AdjustIn(w, q, cost, d)
  PROVE  TiedAfter
  <1>1. q \in Nat /\ q # 0 /\ cost \in Nat
    BY DataInputs
  <1>2. Move("ADJUSTMENT_IN", w, q, d, cost, FALSE, 0)
    BY DEF AdjustIn
  <1>3. \A row : Made(row, "ADJUSTMENT_IN", w, q, cost, FALSE, 0) => Rough(row)
    BY DEF Made, Rough
  <1> QED
    BY <1>1, <1>2, <1>3, RoughEnds DEF TiedInv

LEMMA TakeOutTies ==
  ASSUME TiedInv, NEW w \in Warehouse, NEW q \in Quantity, NEW d \in Day, NEW cost,
         NEW type \in {"ADJUSTMENT_OUT", "SHORTAGE"}, TakeOut(type, w, q, d, cost)
  PROVE  TiedAfter
  <1>1. q \in Nat /\ q # 0
    BY DataInputs
  <1>2. Move(type, w, q, d, cost, Below(w, q), 0) /\ cost \in IssueCosts(w, q)
    BY DEF TakeOut
  <1>3. cost \in Nat
    BY <1>1, <1>2, IssueCostIs DEF TiedInv
  <1>4. \A row : Made(row, type, w, q, cost, Below(w, q), 0) => Rough(row)
    BY DEF Made, Rough
  <1> QED
    BY <1>1, <1>2, <1>3, <1>4, RoughEnds DEF TiedInv

LEMMA SellTies ==
  ASSUME TiedInv, NEW w \in Warehouse, NEW q \in Quantity, NEW d \in Day, NEW cost, Sell(w, q, d, cost)
  PROVE  TiedAfter
  <1> SUFFICES ASSUME RegularIn(moves') PROVE TiesAll(moves', links', inventory')
    BY DEF TiedAfter
  <1>1. q \in Nat /\ q # 0
    BY DataInputs
  <1>2. cost \in IssueCosts(w, q) /\ cost \in Nat
    BY <1>1, IssueCostIs DEF Sell, TiedInv
  <1>3. PICK h \in Int : h = Value(q, cost)
    BY <1>1, <1>2, ValueNear
  <1>4. PICK v \in Int : v = -h
    OBVIOUS
  <1>5. /\ Move("SALES_ISSUE", w, q, d, cost, Below(w, q), 0) /\ links' = links
        /\ inventory' = [inventory EXCEPT ![w] = @ + v]
    <2>1. inventory' = [inventory EXCEPT ![w] = @ - h]
      BY <1>3 DEF Sell, ToCogs
    <2>2. inventory[w] \in Int
      BY ListFits DEF TiedInv
    <2>3. inventory[w] - h = inventory[w] + v
      BY <1>4, <2>2
    <2> QED
      BY <2>1, <2>3 DEF Sell, Unlinked
  <1>6. PICK row : OneRow(moves, moves', links, row) /\ Made(row, "SALES_ISSUE", w, q, cost, Below(w, q), 0)
    BY <1>1, <1>2, <1>5, MoveRow DEF TiedInv
  <1>7. ~Rough(row) /\ row.warehouse = w
    <2>1. PICK N : N = moves'
      OBVIOUS
    <2> QED
      BY <1>6, <2>1, RegularBefore DEF OneRow, Made
  <1>8. ASSUME NEW x, NEW y, Stands(w, x, y)
        PROVE  \E xx, yy : Fair(row, w, x, y, inventory[w], xx, yy, inventory[w] + v)
    <2>1. \E xx, yy : Fair(row, w, x, y, inventory[w], xx, yy, inventory[w] - Value(q, cost))
      BY <1>1, <1>2, <1>6, <1>7, <1>8, FairIssue DEF TiedInv, Stands
    <2>2. inventory[w] - Value(q, cost) = inventory[w] + v
      BY <1>3, <1>4, <1>8 DEF Stands, Holds
    <2> QED
      BY <2>1, <2>2
  <1> QED
    BY <1>5, <1>6, <1>7, <1>8, OneRowTies

LEMMA ReturnSaleTies ==
  ASSUME TiedInv, NEW i \in DOMAIN moves, NEW q \in Quantity, NEW d \in Day, ReturnSale(i, q, d)
  PROVE  TiedAfter
  <1> SUFFICES ASSUME RegularIn(moves') PROVE TiesAll(moves', links', inventory')
    BY DEF TiedAfter
  <1>1. q \in Nat /\ q # 0
    BY DataInputs
  <1>2. PICK w \in Warehouse : w = moves[i].warehouse
    BY SourceTyped DEF TiedInv
  <1>3. PICK cost \in Nat : cost = moves[i].cost
    BY SourceTyped DEF TiedInv
  <1>4. PICK temporary : temporary = moves[i].temporary
    OBVIOUS
  <1>5. PICK v \in Int : v = Value(q, cost)
    BY <1>1, ValueNear
  <1>6. /\ Move("SALES_RETURN", w, q, d, cost, temporary, i) /\ links' = links
        /\ inventory' = [inventory EXCEPT ![w] = @ + v]
    <2>1. inventory' = [inventory EXCEPT ![w] = @ - (-v)]
      BY <1>2, <1>3, <1>5 DEF ReturnSale, ToCogs
    <2>2. inventory[w] \in Int
      BY ListFits DEF TiedInv
    <2>3. inventory[w] - (-v) = inventory[w] + v
      BY <2>2
    <2> QED
      BY <1>2, <1>3, <1>4, <2>1, <2>3 DEF ReturnSale, Unlinked
  <1>7. PICK row : OneRow(moves, moves', links, row) /\ Made(row, "SALES_RETURN", w, q, cost, temporary, i)
    BY <1>1, <1>6, MoveRow DEF TiedInv
  <1>8. ~Rough(row) /\ row.warehouse = w
    <2>1. PICK N : N = moves'
      OBVIOUS
    <2> QED
      BY <1>7, <2>1, RegularBefore DEF OneRow, Made
  <1>9. ASSUME NEW x, NEW y, Stands(w, x, y)
        PROVE  \E xx, yy : Fair(row, w, x, y, inventory[w], xx, yy, inventory[w] + v)
    BY <1>1, <1>5, <1>7, <1>8, <1>9, FairReceipt DEF Stands
  <1> QED
    BY <1>6, <1>7, <1>8, <1>9, OneRowTies

LEMMA ReturnPurchaseTies ==
  ASSUME TiedInv, NEW i \in DOMAIN moves, NEW q \in Quantity, NEW d \in Day, ReturnPurchase(i, q, d)
  PROVE  TiedAfter
  <1>1. q \in Nat /\ q # 0 /\ moves[i].cost \in Nat
    BY DataInputs, SourceTyped DEF TiedInv
  <1>2. Move("PURCHASE_RETURN", moves[i].warehouse, q, d, moves[i].cost, FALSE, i)
    BY DEF ReturnPurchase
  <1>3. \A row : Made(row, "PURCHASE_RETURN", moves[i].warehouse, q, moves[i].cost, FALSE, i) => Rough(row)
    BY DEF Made, Rough
  <1> QED
    BY <1>1, <1>2, <1>3, RoughEnds DEF TiedInv

LEMMA UndoSaleTies ==
  ASSUME TiedInv, NEW i \in DOMAIN moves, NEW d \in Day, ReverseSalesReturn(i, d)
  PROVE  TiedAfter
  <1>1. Units(i) \in Nat /\ Units(i) # 0 /\ moves[i].cost \in Nat /\ i # 0
    BY SourceTyped DEF TiedInv
  <1>2. Move("SALES_ISSUE", moves[i].warehouse, Units(i), d, moves[i].cost, moves[i].temporary, i)
    BY DEF ReverseSalesReturn
  <1>3. \A row : Made(row, "SALES_ISSUE", moves[i].warehouse, Units(i), moves[i].cost, moves[i].temporary, i)
                 => Rough(row)
    BY <1>1 DEF Made, Rough
  <1> QED
    BY <1>1, <1>2, <1>3, RoughEnds DEF TiedInv

\* The purchase return that is undone already ended the regular history.
LEMMA UndoPurchaseTies ==
  ASSUME TiedInv, NEW i \in DOMAIN moves, ReversePurchaseReturn(i)
  PROVE  TiedAfter
  <1>1. Units(i) \in Nat /\ Units(i) # 0 /\ moves[i].cost \in Nat
    BY SourceTyped DEF TiedInv
  <1>2. PICK w : w = moves[i].warehouse
    OBVIOUS
  <1>3. Move("PURCHASE_RECEIPT", w, Units(i), moves[i].day, moves[i].cost, FALSE, i)
    BY <1>2 DEF ReversePurchaseReturn
  <1>4. PICK row : OneRow(moves, moves', links, row)
    BY <1>1, <1>3, MoveRow DEF TiedInv
  <1>5. PICK M : M = moves
    OBVIOUS
  <1>6. PICK N : N = moves'
    OBVIOUS
  <1>7. Longer(M, N, row)
    BY <1>4, <1>5, <1>6 DEF OneRow
  <1>8. ~RegularIn(M)
    BY <1>5 DEF RegularIn, Rough, ReversePurchaseReturn, Is
  <1>9. ~RegularIn(N)
    BY <1>7, <1>8, RegularBefore
  <1> QED
    BY <1>6, <1>9 DEF TiedAfter

LEMMA TwoRegular ==
  ASSUME ValueInv, NEW a, NEW b, moves' = moves \o <<a, b>>, RegularIn(moves')
  PROVE  RegularIn(moves) /\ ~Rough(a) /\ ~Rough(b)
  <1>1. PICK M : M = moves
    OBVIOUS
  <1>2. PICK K : K = moves'
    OBVIOUS
  <1>3. PICK N : Longer(M, N, a) /\ Longer(N, M \o <<a, b>>, b)
    BY <1>1, ListFits, TwoAreLonger
  <1>4. Longer(N, K, b) /\ RegularIn(K)
    BY <1>1, <1>2, <1>3
  <1>5. RegularIn(N) /\ ~Rough(b)
    BY <1>4, RegularBefore
  <1>6. RegularIn(M) /\ ~Rough(a)
    BY <1>3, <1>5, RegularBefore
  <1> QED
    BY <1>1, <1>5, <1>6

FairNow(row, w, v) ==
  \E x, y, xx, yy : Stands(w, x, y) /\ Fair(row, w, x, y, inventory[w], xx, yy, inventory[w] + v)

LEMMA TwoRowsTie ==
  ASSUME TiedInv, NEW a, NEW b, RowFits(a), RowFits(b), moves' = moves \o <<a, b>>, links' = links,
         RegularIn(moves'), NEW v \in Warehouse, NEW w \in Warehouse, v # w,
         a.warehouse = v, b.warehouse = w, NEW s \in Int, NEW t \in Int,
         inventory' = [inventory EXCEPT ![v] = @ + s, ![w] = @ + t],
         FairNow(a, v, s), FairNow(b, w, t)
  PROVE  TiesAll(moves', links', inventory')
  <1>1. PICK M : M = moves
    OBVIOUS
  <1>2. PICK K : K = moves'
    OBVIOUS
  <1>3. PICK I : I = inventory
    OBVIOUS
  <1>4. PICK J : J = inventory'
    OBVIOUS
  <1>5. PICK N : OneRow(M, N, links, a) /\ OneRow(N, K, links, b)
    BY <1>1, <1>2, TwoRows DEF TiedInv
  <1>6. TiesAll(M, links, I)
    BY <1>1, <1>3, TwoRegular DEF TiedInv, Tied
  <1>7. I \in [Warehouse -> Int] /\ J = [I EXCEPT ![v] = @ + s, ![w] = @ + t]
    BY <1>3, <1>4, ValueInvIs DEF TiedInv, TypedBooks
  <1>8. PICK H : H = [I EXCEPT ![v] = @ + s]
    OBVIOUS
  <1>9. /\ H[v] = I[v] + s /\ \A u \in Warehouse : u # v => H[u] = I[u]
    BY <1>7, <1>8
  <1>10. J[w] = I[w] + t /\ \A u \in Warehouse : u # w => J[u] = H[u]
    BY <1>7, <1>8
  <1>11. PICK x, y, xx, yy : Stands(v, x, y) /\ Fair(a, v, x, y, I[v], xx, yy, H[v])
    BY <1>3, <1>9 DEF FairNow
  <1>12. Ties(M, links, v, x, y, I[v])
    BY <1>1, <1>3, <1>11 DEF Stands
  <1>13. TiesAll(N, links, H)
    BY <1>5, <1>6, <1>9, <1>11, <1>12, AllTie
  <1>14. PICK p, r, pp, rr : Stands(w, p, r) /\ Fair(b, w, p, r, H[w], pp, rr, J[w])
    <2>1. H[w] = I[w]
      BY <1>9
    <2> QED
      BY <1>3, <1>10, <2>1 DEF FairNow
  <1>15. PICK z : z = H[w]
    OBVIOUS
  <1>16. Ties(M, links, w, p, r, z)
    BY <1>1, <1>3, <1>9, <1>14, <1>15 DEF Stands
  <1>17. p \in Int /\ r \in Nat /\ z \in Int /\ (p <= 0 => r = 0)
    BY <1>16 DEF Ties, Stocked
  <1>18. Fair(a, w, p, r, z, p, r, z)
    BY <1>17, FairElsewhere
  <1>19. Ties(N, links, w, p, r, z)
    BY <1>5, <1>16, <1>18, TiesNext
  <1>20. TiesAll(K, links, J)
    BY <1>5, <1>10, <1>13, <1>14, <1>15, <1>19, AllTie
  <1> QED
    BY <1>2, <1>4, <1>20

LEMMA IssueNow ==
  ASSUME TiedInv, RegularIn(moves), NEW w \in Warehouse,
         NEW q \in Nat, q # 0, NEW cost \in IssueCosts(w, q),
         NEW type \in {"SALES_ISSUE", "TRANSFER_OUT"}, NEW row,
         Made(row, type, w, q, cost, Below(w, q), 0), ~Rough(row),
         NEW v \in Int, v = -Value(q, cost)
  PROVE  FairNow(row, w, v) /\ (type = "TRANSFER_OUT" => ~Below(w, q))
  <1>1. PICK x, y : Stands(w, x, y)
    BY StandsNow, TiedNow
  <1>2. PICK xx, yy : Fair(row, w, x, y, inventory[w], xx, yy, inventory[w] - Value(q, cost))
    BY <1>1, FairIssue DEF TiedInv, Stands
  <1>3. cost \in Nat
    BY IssueCostIs DEF TiedInv
  <1>4. inventory[w] - Value(q, cost) = inventory[w] + v
    <2>1. PICK h \in Int : h = Value(q, cost)
      BY <1>3, ValueNear
    <2>2. PICK z \in Int : z = inventory[w]
      BY <1>1 DEF Stands, Holds
    <2> QED
      BY <2>1, <2>2
  <1>5. type = "TRANSFER_OUT" => ~Below(w, q)
    BY <1>1, FairIssue DEF TiedInv, Stands
  <1> QED
    BY <1>1, <1>2, <1>4, <1>5 DEF FairNow

LEMMA SellFromTwoTies ==
  ASSUME TiedInv, NEW v \in Warehouse, NEW w \in Warehouse, NEW p \in Quantity, NEW q \in Quantity,
         NEW d \in Day, NEW costV, NEW costW, SellFromTwo(v, w, p, q, d, costV, costW)
  PROVE  TiedAfter
  <1> SUFFICES ASSUME RegularIn(moves') PROVE TiesAll(moves', links', inventory')
    BY DEF TiedAfter
  <1>1. p \in Nat /\ p # 0 /\ q \in Nat /\ q # 0
    BY DataInputs
  <1>2. costV \in IssueCosts(v, p) /\ costW \in IssueCosts(w, q)
    BY DEF SellFromTwo
  <1>3. costV \in Nat /\ costW \in Nat
    <2>1. costV \in Nat
      BY <1>1, <1>2, IssueCostIs DEF TiedInv
    <2>2. costW \in Nat
      BY <1>1, <1>2, IssueCostIs DEF TiedInv
    <2> QED
      BY <2>1, <2>2
  <1>4. PICK a : a = Row("SALES_ISSUE", v, p, d, costV, Below(v, p), 0)
    OBVIOUS
  <1>5. PICK b : b = Row("SALES_ISSUE", w, q, d, costW, Below(w, q), 0)
    OBVIOUS
  <1>6. /\ Made(a, "SALES_ISSUE", v, p, costV, Below(v, p), 0)
        /\ Made(b, "SALES_ISSUE", w, q, costW, Below(w, q), 0)
    BY <1>4, <1>5, RowMade
  <1>7. RowFits(a) /\ RowFits(b) /\ a.warehouse = v /\ b.warehouse = w
    <2>1. RowFits(a)
      BY <1>1, <1>3, <1>6, MadeFits
    <2>2. RowFits(b)
      BY <1>1, <1>3, <1>6, MadeFits
    <2> QED
      BY <1>6, <2>1, <2>2 DEF Made
  <1>8. moves' = moves \o <<a, b>> /\ links' = links /\ v # w
    BY <1>4, <1>5 DEF SellFromTwo, Unlinked
  <1>9. RegularIn(moves) /\ ~Rough(a) /\ ~Rough(b)
    BY <1>8, TwoRegular DEF TiedInv
  <1>10. PICK s \in Int : s = -Value(p, costV)
    <2>1. PICK h \in Int : h = Value(p, costV)
      BY <1>1, <1>3, ValueNear
    <2> QED
      BY <2>1
  <1>11. PICK t \in Int : t = -Value(q, costW)
    <2>1. PICK h \in Int : h = Value(q, costW)
      BY <1>1, <1>3, ValueNear
    <2> QED
      BY <2>1
  <1>12. inventory' = [inventory EXCEPT ![v] = @ + s, ![w] = @ + t]
    <2>1. inventory \in [Warehouse -> Int]
      BY ValueInvIs DEF TiedInv, TypedBooks
    <2>2. PICK g \in Int : g = Value(p, costV)
      BY <1>1, <1>3, ValueNear
    <2>3. PICK h \in Int : h = Value(q, costW)
      BY <1>1, <1>3, ValueNear
    <2>4. inventory' = [inventory EXCEPT ![v] = @ - g, ![w] = @ - h]
      BY <2>2, <2>3 DEF SellFromTwo
    <2>5. \A k \in Int : k - g = k + s /\ k - h = k + t
      BY <1>10, <1>11, <2>2, <2>3
    <2>6. inventory[v] \in Int /\ inventory[w] \in Int
      BY <2>1
    <2>7. inventory[v] - g = inventory[v] + s /\ inventory[w] - h = inventory[w] + t
      BY <2>5, <2>6
    <2> QED
      BY <1>8, <2>1, <2>4, <2>7
  <1>13. FairNow(a, v, s)
    BY <1>1, <1>2, <1>6, <1>9, <1>10, IssueNow
  <1>14. FairNow(b, w, t)
    BY <1>1, <1>2, <1>6, <1>9, <1>11, IssueNow
  <1> QED
    BY <1>7, <1>8, <1>12, <1>13, <1>14, TwoRowsTie

LEMMA TransferTies ==
  ASSUME TiedInv, NEW v \in Warehouse, NEW w \in Warehouse, NEW q \in Quantity,
         NEW d \in Day, NEW cost, NEW ref, Transfer(v, w, q, d, cost, ref)
  PROVE  TiedAfter
  <1> SUFFICES ASSUME RegularIn(moves') PROVE TiesAll(moves', links', inventory')
    BY DEF TiedAfter
  <1>1. q \in Nat /\ q # 0
    BY DataInputs
  <1>2. cost \in IssueCosts(v, q)
    BY DEF Transfer
  <1>3. cost \in Nat
    BY <1>1, <1>2, IssueCostIs DEF TiedInv
  <1>4. PICK a : a = [Row("TRANSFER_OUT", v, q, d, cost, Below(v, q), 0) EXCEPT !.ref = ref]
    OBVIOUS
  <1>5. PICK b : b = [Row("TRANSFER_IN", w, q, d, cost, Below(v, q), Len(moves) + 1) EXCEPT !.ref = ref]
    OBVIOUS
  <1>6. /\ Made(a, "TRANSFER_OUT", v, q, cost, Below(v, q), 0)
        /\ Made(b, "TRANSFER_IN", w, q, cost, Below(v, q), Len(moves) + 1)
    BY <1>4, <1>5, RowMade
  <1>7. RowFits(a) /\ RowFits(b) /\ a.warehouse = v /\ b.warehouse = w
    <2>1. RowFits(a)
      BY <1>1, <1>3, <1>6, MadeFits
    <2>2. RowFits(b)
      BY <1>1, <1>3, <1>6, MadeFits
    <2> QED
      BY <1>6, <2>1, <2>2 DEF Made
  <1>8. moves' = moves \o <<a, b>> /\ links' = links /\ v # w
    BY <1>4, <1>5 DEF Transfer, Unlinked
  <1>9. RegularIn(moves) /\ ~Rough(a) /\ ~Rough(b)
    BY <1>8, TwoRegular DEF TiedInv
  <1>10. PICK t \in Int : t = Value(q, cost)
    BY <1>1, <1>3, ValueNear
  <1>11. PICK s \in Int : s = -t
    OBVIOUS
  <1>12. inventory' = [inventory EXCEPT ![v] = @ + s, ![w] = @ + t]
    <2>1. inventory \in [Warehouse -> Int]
      BY ValueInvIs DEF TiedInv, TypedBooks
    <2>2. inventory' = [inventory EXCEPT ![v] = @ - t, ![w] = @ + t]
      BY <1>10 DEF Transfer
    <2>3. inventory[v] \in Int
      BY <2>1
    <2>4. inventory[v] - t = inventory[v] + s
      BY <1>11, <2>3
    <2> QED
      BY <1>8, <2>1, <2>2, <2>4
  <1>13. FairNow(a, v, s)
    BY <1>1, <1>2, <1>6, <1>9, <1>10, <1>11, IssueNow
  <1>14. FairNow(b, w, t)
    <2>1. PICK x, y : Stands(w, x, y)
      BY <1>9, StandsNow, TiedNow
    <2>2. \E xx, yy : Fair(b, w, x, y, inventory[w], xx, yy, inventory[w] + Value(q, cost))
      BY <1>1, <1>3, <1>6, <1>9, <2>1, FairReceipt DEF Stands
    <2> QED
      BY <1>10, <2>1, <2>2 DEF FairNow
  <1> QED
    BY <1>7, <1>8, <1>12, <1>13, <1>14, TwoRowsTie

-----------------------------------------------------------------------------
(* What a purchase gives, and what it corrects.                             *)

\* f says of a gift what g says of the issue it goes to.
Spread(S, c, n, C, f, g) ==
  /\ IsFiniteSet(S) /\ C = Gifts(S, c, n) /\ IntOn(f, C)
  /\ \A i \in S : c[i] \in Nat /\ (c[i] = 0 => g[i] = 0)
  /\ \A l \in C : f[l] = g[l.issue]

LEMMA GiftSum ==
  ASSUME NEW S, NEW c, NEW n, NEW C, NEW f, NEW g, Spread(S, c, n, C, f, g)
  PROVE  IsFiniteSet(C) /\ SumFunctionOnSet(f, C) = SumFunctionOnSet(g, S)
  <1>0. /\ IsFiniteSet(S) /\ IntOn(f, C) /\ (\A i \in S : c[i] \in Nat /\ (c[i] = 0 => g[i] = 0))
        /\ \A l \in C : f[l] = g[l.issue]
    BY DEF Spread
  <1>1. /\ \A l \in C : l.issue \in S /\ l = [issue |-> l.issue, receipt |-> n, quantity |-> c[l.issue]]
        /\ \A i \in S : c[i] > 0 => [issue |-> i, receipt |-> n, quantity |-> c[i]] \in C
        /\ \A l \in C : c[l.issue] > 0
    BY DEF Spread, Gifts
  <1>2. IsFiniteSet(C)
    <2>1. PICK P : P = {j \in S : c[j] > 0}
      OBVIOUS
    <2>2. IsFiniteSet(P)
      BY <1>0, <2>1, FS_Subset
    <2>3. PICK make : make = [i \in P |-> [issue |-> i, receipt |-> n, quantity |-> c[i]]]
      OBVIOUS
    <2>4. make \in [P -> C] /\ \A l \in C : \E i \in P : make[i] = l
      BY <1>1, <2>1, <2>3
    <2>5. make \in Surjection(P, C)
      BY <2>4 DEF Surjection
    <2> QED
      BY <2>2, <2>5, FS_Surjection
  <1>3. PICK key : key = [l \in C |-> l.issue]
    OBVIOUS
  <1>4. \A l \in C : key[l] \in S /\ key[l] = l.issue
    BY <1>1, <1>3
  <1>5. ASSUME NEW i \in S PROVE g[i] = SumFunctionOnSet(f, {l \in C : key[l] = i})
    <2>1. CASE c[i] > 0
      <3>1. PICK x : x = [issue |-> i, receipt |-> n, quantity |-> c[i]]
        OBVIOUS
      <3>2. {l \in C : key[l] = i} = {} \cup {x} /\ x \in C /\ x.issue = i
        BY <1>1, <1>4, <2>1, <3>1
      <3>3. f[x] = g[i] /\ f[x] \in Int
        BY <1>0, <3>2 DEF IntOn
      <3>4. IsFiniteSet({}) /\ x \notin {} /\ IntOn(f, {})
        BY FS_EmptySet DEF IntOn
      <3>5. SumFunctionOnSet(f, {} \cup {x}) = f[x] + SumFunctionOnSet(f, {})
        BY ONLY <3>3, <3>4, SumAdd
      <3>6. SumFunctionOnSet(f, {}) = 0
        BY SumEmpty
      <3>7. f[x] + SumFunctionOnSet(f, {}) = g[i]
        BY <3>3, <3>6
      <3> QED
        BY <3>2, <3>5, <3>7
    <2>2. CASE ~(c[i] > 0)
      <3>1. {l \in C : key[l] = i} = {}
        BY <1>1, <1>4, <2>2
      <3>2. g[i] = 0
        BY <1>0, <2>2
      <3> QED
        BY <3>1, <3>2, SumEmpty
    <2> QED
      BY <2>1, <2>2
  <1>6. ByKey(f, C, key, S, g)
    BY <1>0, <1>2, <1>4, <1>5 DEF ByKey
  <1> QED
    BY <1>2, <1>6, SumByKey

\* The corrections V of the gifts C of goods at cost: A is how many, Q what the
\* issues took them at.
Corrections(C, cost, k, V, A, Q) ==
  /\ IsFiniteSet(C) /\ cost \in Int
  /\ \A l \in C : l.quantity \in Int /\ k[l.issue] \in Int
  /\ V = [l \in C |-> Value(l.quantity, cost - k[l.issue])]
  /\ A = [l \in C |-> l.quantity]
  /\ Q = [l \in C |-> l.quantity * k[l.issue]]

LEMMA CorrectsNear ==
  ASSUME NEW C, NEW cost, NEW k, NEW V, NEW A, NEW Q, Corrections(C, cost, k, V, A, Q)
  PROVE  \E v, a, r \in Int :
           /\ v = SumFunctionOnSet(V, C) /\ a = SumFunctionOnSet(A, C) /\ r = SumFunctionOnSet(Q, C)
           /\ 2 * (Cent * v - (cost * a - r)) <= Cent * Cardinality(C)
           /\ -(2 * (Cent * v - (cost * a - r))) <= Cent * Cardinality(C)
  <1>0. IsFiniteSet(C) /\ cost \in Int
    BY DEF Corrections
  <1>1. PICK P : P = [l \in C |-> l.quantity * (cost - k[l.issue])]
    OBVIOUS
  <1>2. PICK B : B = [l \in C |-> cost * l.quantity]
    OBVIOUS
  <1>3. ASSUME NEW l \in C
        PROVE  /\ A[l] \in Int /\ V[l] \in Int /\ P[l] \in Int /\ Q[l] \in Int /\ B[l] \in Int
               /\ B[l] = P[l] + Q[l] /\ B[l] = cost * A[l]
               /\ (2 * Cent) * V[l] <= 2 * P[l] + Cent
               /\ 2 * P[l] <= (2 * Cent) * V[l] + Cent
    <2>1. PICK m \in Int : m = l.quantity
      BY DEF Corrections
    <2>2. PICK h \in Int : h = k[l.issue]
      BY DEF Corrections
    <2>3. PICK j \in Int : j = cost - h
      BY <1>0
    <2>4. /\ A[l] = m /\ V[l] = Value(m, j) /\ P[l] = m * j /\ Q[l] = m * h /\ B[l] = cost * m
      BY <1>1, <1>2, <2>1, <2>2, <2>3 DEF Corrections
    <2>5. PICK p \in Int : p = m * j
      OBVIOUS
    <2>6. PICK u \in Int : u = Value(m, j)
      BY ValueNear
    <2>7. PICK g \in Int : g = Cent * u
      BY StockAssumption
    <2>8. 2 * (g - p) <= Cent /\ 2 * (p - g) <= Cent
      BY <2>5, <2>6, <2>7, ValueNear
    <2>9. cost * m = m * j + m * h /\ cost * m \in Int /\ m * h \in Int
      <3>1. cost = j + h
        BY <1>0, <2>2, <2>3
      <3>2. (j + h) * m = m * j + m * h
        OBVIOUS
      <3> QED
        BY <3>1, <3>2
    <2>10. (2 * Cent) * u = 2 * g
      BY <2>7, StockAssumption
    <2>11. (2 * Cent) * u <= 2 * p + Cent /\ 2 * p <= (2 * Cent) * u + Cent
      BY <2>8, <2>10, StockAssumption
    <2> QED
      BY <2>4, <2>5, <2>6, <2>9, <2>11
  <1>4. IntOn(A, C) /\ IntOn(V, C) /\ IntOn(P, C) /\ IntOn(Q, C) /\ IntOn(B, C)
    BY <1>3 DEF IntOn
  <1>5. PICK a \in Int : a = SumFunctionOnSet(A, C)
    BY <1>0, <1>4, SumInt
  <1>6. PICK v \in Int : v = SumFunctionOnSet(V, C)
    BY <1>0, <1>4, SumInt
  <1>7. PICK p \in Int : p = SumFunctionOnSet(P, C)
    BY <1>0, <1>4, SumInt
  <1>8. PICK r \in Int : r = SumFunctionOnSet(Q, C)
    BY <1>0, <1>4, SumInt
  <1>9. PICK b \in Int : b = SumFunctionOnSet(B, C)
    BY <1>0, <1>4, SumInt
  <1>10. PICK c \in Nat : c = Cardinality(C)
    BY <1>0, FS_CardinalityType
  <1>11. b = p + r
    <2>1. \A l \in C : B[l] = P[l] + Q[l]
      BY <1>3
    <2> QED
      BY <1>0, <1>4, <1>7, <1>8, <1>9, <2>1, SumPlus
  <1>12. b = cost * a
    <2>1. \A l \in C : 1 * B[l] <= cost * A[l] + 0
      <3> SUFFICES ASSUME NEW l \in C PROVE 1 * B[l] <= cost * A[l] + 0
        OBVIOUS
      <3>1. PICK t \in Int : t = B[l] /\ t = cost * A[l]
        BY <1>3
      <3> QED
        BY <3>1
    <2>2. \A l \in C : cost * A[l] <= 1 * B[l] + 0
      <3> SUFFICES ASSUME NEW l \in C PROVE cost * A[l] <= 1 * B[l] + 0
        OBVIOUS
      <3>1. PICK t \in Int : t = B[l] /\ t = cost * A[l]
        BY <1>3
      <3> QED
        BY <3>1
    <2>3. 1 \in Int /\ 0 \in Int
      OBVIOUS
    <2>4. 1 * SumFunctionOnSet(B, C) <= cost * SumFunctionOnSet(A, C) + 0 * Cardinality(C)
      BY ONLY <1>0, <1>4, <2>1, <2>3, SumLinear
    <2>5. cost * SumFunctionOnSet(A, C) <= 1 * SumFunctionOnSet(B, C) + 0 * Cardinality(C)
      BY ONLY <1>0, <1>4, <2>2, <2>3, SumLinear
    <2>6. PICK t \in Int : t = cost * a
      BY <1>0
    <2>7. b <= t /\ t <= b
      BY <1>5, <1>9, <1>10, <2>4, <2>5, <2>6
    <2> QED
      BY <2>6, <2>7
  <1>13. PICK d \in Int : d = 2 * Cent
    BY StockAssumption
  <1>14. PICK e \in Int : e = Cent
    BY StockAssumption
  <1>15. d * v <= 2 * p + e * c
    <2>1. \A l \in C : d * V[l] <= 2 * P[l] + e
      BY <1>3, <1>13, <1>14
    <2>2. 2 \in Int
      OBVIOUS
    <2>3. d * SumFunctionOnSet(V, C) <= 2 * SumFunctionOnSet(P, C) + e * Cardinality(C)
      BY ONLY <1>0, <1>4, <1>13, <1>14, <2>1, <2>2, SumLinear
    <2> QED
      BY <1>6, <1>7, <1>10, <2>3
  <1>16. 2 * p <= d * v + e * c
    <2>1. \A l \in C : 2 * P[l] <= d * V[l] + e
      BY <1>3, <1>13, <1>14
    <2>2. 2 \in Int
      OBVIOUS
    <2>3. 2 * SumFunctionOnSet(P, C) <= d * SumFunctionOnSet(V, C) + e * Cardinality(C)
      BY ONLY <1>0, <1>4, <1>13, <1>14, <2>1, <2>2, SumLinear
    <2> QED
      BY <1>6, <1>7, <1>10, <2>3
  <1>17. PICK g \in Int : g = Cent * v
    BY StockAssumption
  <1>18. d * v = 2 * g
    BY <1>13, <1>17, StockAssumption
  <1>19. PICK f \in Int : f = Cent * c
    BY StockAssumption
  <1>20. 2 * (g - (b - r)) <= f /\ -(2 * (g - (b - r))) <= f
    BY <1>11, <1>14, <1>15, <1>16, <1>18, <1>19
  <1> QED
    BY <1>5, <1>6, <1>8, <1>10, <1>12, <1>17, <1>19, <1>20

\* What the obligations S of w were taken at.
TakenAt(M, S, c) == [i \in S |-> c[i] * M[i].cost]

Handed(M, L, K, w, C, s, r) ==
  /\ OpenSum(M, L, w) = OpenSum(M, K, w) + s
  /\ OwedSum(M, L, w) = OwedSum(M, K, w) + r
  /\ \A u : u # w => OpenSum(M, K, u) = OpenSum(M, L, u) /\ OwedSum(M, K, u) = OwedSum(M, L, u)
  /\ Cardinality(K) = Cardinality(L) + Cardinality(C)

LEMMA GiftsMove ==
  ASSUME NEW M, RowsFit(M), NEW L, LinksFit(M, L), NEW w, NEW S, S = Debts(M, w),
         NEW c, NEW n, GiftsFit(L, S, c, n), NEW C, C = Gifts(S, c, n),
         NEW K, K = L \cup C, LinksFit(M, K)
  PROVE  \E s, r \in Int : /\ s = SumFunctionOnSet(c, S) /\ r = SumFunctionOnSet(TakenAt(M, S, c), S)
                           /\ Handed(M, L, K, w, C, s, r)
  <1>1. \A i : Given(K, i) = Given(L, i) + (IF i \in S THEN c[i] ELSE 0)
    <2>1. GiftsGiven(L, K, S, c, n)
      BY GiftsAdd
    <2> QED
      BY <2>1 DEF GiftsGiven
  <1>2. /\ IsFiniteSet(S) /\ S \subseteq DOMAIN M /\ IsFiniteSet(L)
        /\ (\A i \in S : c[i] \in Nat) /\ \A l \in L : l.receipt # n
    BY SumsAreInts DEF GiftsFit
  <1>3. \A i \in DOMAIN M : /\ OpenIn(M, L, i) \in Nat /\ OpenIn(M, K, i) \in Nat
                            /\ Size(M, i) \in Nat /\ Given(L, i) \in Nat /\ Given(K, i) \in Nat
    <2>1. \A i \in DOMAIN M : OpenIn(M, L, i) \in Nat /\ Size(M, i) \in Nat /\ Given(L, i) \in Nat
      BY SumsAreInts
    <2>2. \A i \in DOMAIN M : OpenIn(M, K, i) \in Nat /\ Given(K, i) \in Nat
      BY SumsAreInts
    <2> QED
      BY <2>1, <2>2
  <1>4. \A i \in S : OpenIn(M, L, i) = OpenIn(M, K, i) + c[i]
    <2> SUFFICES ASSUME NEW i \in S PROVE OpenIn(M, L, i) = OpenIn(M, K, i) + c[i]
      OBVIOUS
    <2>1. Given(K, i) = Given(L, i) + c[i] /\ c[i] \in Nat
      BY <1>1, <1>2
    <2>2. Size(M, i) \in Nat /\ Given(L, i) \in Nat
      BY <1>2, <1>3
    <2> QED
      BY <2>1, <2>2 DEF OpenIn
  <1>5. \A i \in DOMAIN M : i \notin S => OpenIn(M, L, i) = OpenIn(M, K, i)
    <2> SUFFICES ASSUME NEW i \in DOMAIN M, i \notin S PROVE OpenIn(M, L, i) = OpenIn(M, K, i)
      OBVIOUS
    <2>1. Given(K, i) = Given(L, i)
      <3>1. PICK x \in Nat : x = Given(L, i)
        BY <1>3
      <3>2. Given(K, i) = x + 0
        BY <1>1, <3>1
      <3> QED
        BY <3>1, <3>2
    <2> QED
      BY <2>1 DEF OpenIn
  <1>6. \A i \in DOMAIN M : M[i].cost \in Nat
    BY DEF RowsFit, RowFits
  <1>7. PICK f : f = Opens(M, L)
    OBVIOUS
  <1>8. PICK g : g = Opens(M, K)
    OBVIOUS
  <1>9. PICK h : h = Owes(M, L)
    OBVIOUS
  <1>10. PICK k : k = Owes(M, K)
    OBVIOUS
  <1>11. PICK t : t = TakenAt(M, S, c)
    OBVIOUS
  <1>12. ASSUME NEW i \in S
         PROVE  /\ g[i] \in Int /\ k[i] \in Int /\ t[i] \in Int /\ c[i] \in Int
                /\ f[i] = g[i] + c[i] /\ h[i] = k[i] + t[i]
    <2>1. i \in DOMAIN M
      BY <1>2
    <2>2. PICK cost \in Nat : cost = M[i].cost
      BY <1>6, <2>1
    <2>3. PICK x \in Nat : x = OpenIn(M, K, i)
      BY <1>3, <2>1
    <2>4. PICK y \in Nat : y = c[i]
      BY <1>2
    <2>5. f[i] = x + y /\ g[i] = x
      BY <1>4, <1>7, <1>8, <2>1, <2>3, <2>4 DEF Opens
    <2>6. h[i] = (x + y) * cost /\ k[i] = x * cost /\ t[i] = y * cost
      BY <1>4, <1>9, <1>10, <1>11, <2>1, <2>2, <2>3, <2>4 DEF Owes, TakenAt
    <2>7. (x + y) * cost = x * cost + y * cost /\ x * cost \in Int /\ y * cost \in Int
      OBVIOUS
    <2> QED
      BY <2>4, <2>5, <2>6, <2>7
  <1>13. IntOn(g, S) /\ IntOn(k, S) /\ IntOn(t, S) /\ IntOn(c, S)
    BY <1>12 DEF IntOn
  <1>14. PICK s \in Int : s = SumFunctionOnSet(c, S)
    BY <1>2, <1>13, SumInt
  <1>15. PICK r \in Int : r = SumFunctionOnSet(t, S)
    BY <1>2, <1>13, SumInt
  <1>16. SumFunctionOnSet(f, S) = SumFunctionOnSet(g, S) + SumFunctionOnSet(c, S)
    <2>1. \A i \in S : f[i] = g[i] + c[i]
      BY <1>12
    <2> QED
      BY ONLY <1>2, <1>13, <2>1, SumPlus
  <1>17. SumFunctionOnSet(h, S) = SumFunctionOnSet(k, S) + SumFunctionOnSet(t, S)
    <2>1. \A i \in S : h[i] = k[i] + t[i]
      BY <1>12
    <2> QED
      BY ONLY <1>2, <1>13, <2>1, SumPlus
  <1>18. OpenSum(M, L, w) = OpenSum(M, K, w) + s /\ OwedSum(M, L, w) = OwedSum(M, K, w) + r
    BY <1>7, <1>8, <1>9, <1>10, <1>14, <1>15, <1>16, <1>17 DEF OpenSum, OwedSum
  <1>19. ASSUME NEW u, u # w
         PROVE  OpenSum(M, K, u) = OpenSum(M, L, u) /\ OwedSum(M, K, u) = OwedSum(M, L, u)
    <2>1. PICK U : U = Debts(M, u)
      OBVIOUS
    <2>2. U \subseteq DOMAIN M /\ U \cap S = {}
      BY <1>19, <2>1 DEF Debts, Obliges
    <2>3. IsFiniteSet(U)
      BY <2>1, SumsAreInts
    <2>4. \A i \in U : OpenIn(M, L, i) = OpenIn(M, K, i)
      BY <1>5, <2>2
    <2>5. \A i \in U : g[i] = f[i] /\ k[i] = h[i]
      BY <1>7, <1>8, <1>9, <1>10, <2>2, <2>4 DEF Opens, Owes
    <2>6. SumFunctionOnSet(g, U) = SumFunctionOnSet(f, U)
      BY <2>3, <2>5, SumAgree
    <2>7. SumFunctionOnSet(k, U) = SumFunctionOnSet(h, U)
      BY <2>3, <2>5, SumAgree
    <2> QED
      BY <1>7, <1>8, <1>9, <1>10, <2>1, <2>6, <2>7 DEF OpenSum, OwedSum
  <1>20. Cardinality(K) = Cardinality(L) + Cardinality(C)
    <2>1. L \cap C = {}
      BY <1>2 DEF Gifts
    <2>2. IsFiniteSet(K) /\ C \in SUBSET K
      BY DEF LinksFit
    <2>3. IsFiniteSet(C)
      BY <2>2, FS_Subset
    <2>4. L \cap C = {} => Cardinality(L \cap C) = 0
      BY FS_EmptySet
    <2>5. Cardinality(L) \in Nat /\ Cardinality(C) \in Nat
      BY <1>2, <2>3, FS_CardinalityType
    <2>6. Cardinality(L \cup C) = Cardinality(L) + Cardinality(C) - Cardinality(L \cap C)
      BY <1>2, <2>3, FS_Union
    <2> QED
      BY <2>1, <2>4, <2>5, <2>6
  <1> QED
    BY <1>11, <1>14, <1>15, <1>18, <1>19, <1>20 DEF Handed

\* What receipt k gave.
Taken(L, k) == SumFunctionOnSet(Amounts(L), {l \in L : l.receipt = k})

\* What becomes of the goods of a receipt: s units serve obligations that took
\* them at r, by the gifts C, and v corrects COGS.
Serving(M, N, L, K, w, q, cost, row, C, s, r, v) ==
  /\ OneRow(M, N, L, row) /\ Made(row, "PURCHASE_RECEIPT", w, q, cost, FALSE, 0)
  /\ IsFiniteSet(C) /\ s \in Int /\ r \in Int /\ v \in Int
  /\ K = L \cup C /\ Taken(K, Len(M) + 1) = s
  /\ \A l \in C : l.receipt = Len(M) + 1 /\ l.issue \in DOMAIN M /\ M[l.issue].warehouse = w
  /\ s = Least(q, OpenSum(M, L, w))
  /\ Handed(N, L, K, w, C, s, r)
  /\ 2 * (Cent * v - (cost * s - r)) <= Cent * Cardinality(C)
  /\ -(2 * (Cent * v - (cost * s - r))) <= Cent * Cardinality(C)

LEMMA PurchaseHands ==
  ASSUME ValueInv, LinksFit(moves', links'), NEW w \in Warehouse, NEW q \in Nat, q # 0, NEW cost \in Nat,
         NEW d, Move("PURCHASE_RECEIPT", w, q, d, cost, FALSE, 0), links' = links \cup NewLinks(w, q, cost)
  PROVE  \E row, C, s, r, v : /\ v = Corrects(w, q, cost)
                              /\ Serving(moves, moves', links, links', w, q, cost, row, C, s, r, v)
  <1>1. PICK M : M = moves
    OBVIOUS
  <1>2. PICK N : N = moves'
    OBVIOUS
  <1>3. PICK L : L = links
    OBVIOUS
  <1>4. PICK K : K = links'
    OBVIOUS
  <1>5. PICK row : OneRow(M, N, L, row) /\ Made(row, "PURCHASE_RECEIPT", w, q, cost, FALSE, 0)
    BY <1>1, <1>2, <1>3, MoveRow
  <1>6. Longer(M, N, row) /\ RowsFit(M) /\ RowFits(row) /\ LinksFit(M, L)
    BY <1>5 DEF OneRow
  <1>7. RowsFit(N)
    BY <1>6, SumsGrow
  <1>8. PICK n : n = Len(M) + 1
    OBVIOUS
  <1>9. /\ DOMAIN N = DOMAIN M \cup {n} /\ n \notin DOMAIN M /\ N[n] = row
        /\ \A i \in DOMAIN M : N[i] = M[i]
    BY <1>6, <1>8, Domains
  <1>10. PICK S : S = Obligations(w)
    OBVIOUS
  <1>11. S = Debts(M, w) /\ S \subseteq DOMAIN M
    BY <1>1, <1>10 DEF Obligations, Debts, Obliges, Original, Is
  <1>12. S = Debts(N, w)
    BY <1>5, <1>9, <1>11 DEF Debts, Obliges, Made
  <1>13. PICK b : b = [i \in S |-> {j \in S : Earlier(j, i)}]
    OBVIOUS
  <1>14. PICK f : f = [i \in S |-> Open(i)]
    OBVIOUS
  <1>15. PICK c : c = [i \in S |-> Covers(w, q, i)]
    OBVIOUS
  <1>16. Queue(S, b) /\ Serves(S, b, f, q, c)
    BY <1>10, <1>13, <1>14, <1>15, ObligationsQueue, CoversServe, ValueInvIs
  <1>17. IsFiniteSet(S) /\ \A i \in S : f[i] \in Nat /\ c[i] \in Nat
    BY <1>16 DEF Queue, Serves
  <1>18. SumFunctionOnSet(c, S) = Least(q, OpenSum(M, L, w))
    <2>1. SumFunctionOnSet(c, S) = Least(q, SumFunctionOnSet(f, S))
      BY <1>16, ServedInFull
    <2>2. PICK g : g = Opens(M, L)
      OBVIOUS
    <2>3. ASSUME NEW i \in S PROVE f[i] = g[i]
      <3>1. i \in DOMAIN moves
        BY <1>1, <1>11
      <3>2. Open(i) = Units(i) - Given(links, i)
        BY <3>1, OpenIs, ValueInvIs
      <3> QED
        BY <1>1, <1>3, <1>14, <2>2, <3>1, <3>2 DEF Opens, OpenIn, Size, Units
    <2>4. SumFunctionOnSet(f, S) = SumFunctionOnSet(g, S)
      BY <1>17, <2>3, SumAgree
    <2> QED
      BY <1>11, <2>1, <2>2, <2>4 DEF OpenSum
  <1>19. PICK C : C = NewLinks(w, q, cost)
    OBVIOUS
  <1>20. C = Gifts(S, c, n)
    <2>1. \A i \in S : c[i] = Covers(w, q, i)
      BY <1>15
    <2> QED
      BY <1>1, <1>8, <1>10, <1>19, <2>1 DEF NewLinks, Gifts
  <1>21. K = L \cup C
    BY <1>3, <1>4, <1>19
  <1>22. LinksFit(N, K)
    BY <1>2, <1>4
  <1>23. LinksFit(N, L)
    <2>1. Given(L, n) = 0
      <3>1. {l \in L : l.issue = n} = {}
        BY <1>6, <1>9 DEF LinksFit
      <3> QED
        BY <3>1, SumEmpty DEF Given
    <2>2. Size(N, n) \in Nat /\ \A i \in DOMAIN M : Size(N, i) = Size(M, i)
      BY <1>6, <1>9 DEF Size, Absolute, RowFits
    <2>3. \A i \in DOMAIN N : Given(L, i) <= Size(N, i)
      BY <1>6, <1>9, <2>1, <2>2 DEF LinksFit
    <2> QED
      BY <1>6, <1>9, <2>3 DEF LinksFit
  <1>24. GiftsFit(L, S, c, n)
    BY <1>6, <1>9, <1>17 DEF GiftsFit, LinksFit
  <1>25. PICK s, r \in Int : /\ s = SumFunctionOnSet(c, S) /\ r = SumFunctionOnSet(TakenAt(N, S, c), S)
                             /\ Handed(N, L, K, w, C, s, r)
    BY <1>7, <1>12, <1>20, <1>21, <1>22, <1>23, <1>24, GiftsMove
  <1>26. PICK k : k = [i \in S |-> M[i].cost]
    OBVIOUS
  <1>27. /\ \A i \in S : k[i] = N[i].cost /\ k[i] = moves[i].cost /\ k[i] \in Nat
         /\ \A l \in C : l.issue \in S /\ l.quantity = c[l.issue]
    <2>1. \A i \in S : k[i] = N[i].cost /\ k[i] = moves[i].cost /\ k[i] \in Nat
      BY <1>1, <1>6, <1>9, <1>11, <1>26 DEF RowsFit, RowFits
    <2> QED
      BY <1>20, <2>1 DEF Gifts
  <1>28. PICK V : V = [l \in C |-> Value(l.quantity, cost - k[l.issue])]
    OBVIOUS
  <1>29. PICK A : A = [l \in C |-> l.quantity]
    OBVIOUS
  <1>30. PICK Q : Q = [l \in C |-> l.quantity * k[l.issue]]
    OBVIOUS
  <1>31. IsFiniteSet(C)
    BY <1>19, LinksTyped
  <1>32. Corrections(C, cost, k, V, A, Q)
    BY <1>17, <1>27, <1>28, <1>29, <1>30, <1>31 DEF Corrections
  <1>33. PICK v, a, e \in Int :
           /\ v = SumFunctionOnSet(V, C) /\ a = SumFunctionOnSet(A, C) /\ e = SumFunctionOnSet(Q, C)
           /\ 2 * (Cent * v - (cost * a - e)) <= Cent * Cardinality(C)
           /\ -(2 * (Cent * v - (cost * a - e))) <= Cent * Cardinality(C)
    BY <1>32, CorrectsNear
  <1>34. a = s
    <2>1. IntOn(A, C) /\ \A l \in C : A[l] = c[l.issue]
      BY <1>17, <1>27, <1>29 DEF IntOn
    <2>2. Spread(S, c, n, C, A, c)
      BY <1>17, <1>20, <2>1 DEF Spread
    <2> QED
      BY <1>25, <1>33, <2>2, GiftSum
  <1>35. e = r
    <2>1. PICK t : t = TakenAt(N, S, c)
      OBVIOUS
    <2>2. ASSUME NEW i \in S PROVE c[i] = 0 => t[i] = 0
      <3>1. PICK x \in Nat : x = N[i].cost
        BY <1>27
      <3>2. t[i] = c[i] * x /\ 0 * x = 0
        BY <2>1, <3>1 DEF TakenAt
      <3> QED
        BY <3>2
    <2>3. ASSUME NEW l \in C PROVE Q[l] = t[l.issue] /\ Q[l] \in Int
      <3>1. PICK i \in S : i = l.issue
        BY <1>27
      <3>2. PICK x \in Nat : x = N[i].cost /\ x = k[i]
        BY <1>27
      <3>3. PICK y \in Nat : y = c[i] /\ y = l.quantity
        BY <1>17, <1>27, <3>1
      <3>4. Q[l] = y * x /\ t[i] = y * x
        BY <1>30, <2>1, <3>1, <3>2, <3>3 DEF TakenAt
      <3> QED
        BY <3>1, <3>4
    <2>4. IntOn(Q, C)
      BY <2>3 DEF IntOn
    <2>5. Spread(S, c, n, C, Q, t)
      BY <1>17, <1>20, <2>2, <2>3, <2>4 DEF Spread
    <2> QED
      BY <1>25, <1>33, <2>1, <2>5, GiftSum
  <1>36. v = Corrects(w, q, cost)
    <2>1. V = [l \in C |-> Value(l.quantity, cost - moves[l.issue].cost)]
      BY <1>27, <1>28
    <2> QED
      BY <1>19, <1>33, <2>1 DEF Corrects, SumOf
  <1>37. Taken(K, n) = s
    <2>1. GiftsGiven(L, K, S, c, n)
      BY <1>20, <1>21, <1>24, GiftsAdd
    <2> QED
      BY <1>25, <2>1 DEF GiftsGiven, Taken
  <1>38. \A l \in C : l.receipt = n /\ l.issue \in DOMAIN M /\ M[l.issue].warehouse = w
    BY <1>11, <1>20 DEF Gifts, Debts, Obliges
  <1>39. Serving(M, N, L, K, w, q, cost, row, C, s, r, v)
    BY <1>5, <1>8, <1>18, <1>21, <1>25, <1>31, <1>33, <1>34, <1>35, <1>37, <1>38 DEF Serving
  <1> QED
    BY <1>1, <1>2, <1>3, <1>4, <1>36, <1>39

-----------------------------------------------------------------------------
(* The account of a warehouse that a purchase reaches, and of the others.   *)

\* What a receipt adds to the sums, and what its gifts take off them.
LEMMA ServingSums ==
  ASSUME NEW M, NEW N, NEW L, NEW K, NEW w, NEW q \in Nat, q # 0, NEW cost, NEW row, NEW C,
         NEW s, NEW r, NEW v, Serving(M, N, L, K, w, q, cost, row, C, s, r, v)
  PROVE  /\ OpenSum(M, L, w) = OpenSum(N, K, w) + s /\ OwedSum(M, L, w) = OwedSum(N, K, w) + r
         /\ \A u : u # w => OpenSum(N, K, u) = OpenSum(M, L, u) /\ OwedSum(N, K, u) = OwedSum(M, L, u)
         /\ DustSum(N, K) = DustSum(M, L) + (Cent + q + Cent * Cardinality(C))
         /\ DustSum(M, L) \in Int /\ Cardinality(C) \in Nat
  <1>1. /\ OneRow(M, N, L, row) /\ Made(row, "PURCHASE_RECEIPT", w, q, cost, FALSE, 0)
        /\ IsFiniteSet(C) /\ Handed(N, L, K, w, C, s, r)
    BY DEF Serving
  <1>2. SumsNext(M, N, L, row) /\ IsFiniteSet(L) /\ GrainSum(M) \in Int
    BY <1>1, SumsGrow, SumsAreInts DEF OneRow, LinksFit
  <1>3. Absolute(row.quantity) = q /\ \A u : ~Obliges(row, u)
    BY <1>1 DEF Made, Absolute, Obliges, InTypes
  <1>4. \A u : OpenSum(M, L, u) \in Int /\ OwedSum(M, L, u) \in Int
    BY <1>1, SumsAreInts DEF OneRow
  <1>5. /\ GrainSum(N) = GrainSum(M) + (Cent + q)
        /\ \A u : OpenSum(N, L, u) = OpenSum(M, L, u) + 0 /\ OwedSum(N, L, u) = OwedSum(M, L, u) + 0
    BY <1>2, <1>3 DEF SumsNext
  <1>6. \A u : OpenSum(N, L, u) = OpenSum(M, L, u) /\ OwedSum(N, L, u) = OwedSum(M, L, u)
    BY <1>4, <1>5
  <1>7. PICK c \in Nat : c = Cardinality(C)
    BY <1>1, FS_CardinalityType
  <1>8. PICK l \in Nat : l = Cardinality(L)
    BY <1>2, FS_CardinalityType
  <1>9. Cardinality(K) = l + c
    BY <1>1, <1>7, <1>8 DEF Handed
  <1>10. PICK a \in Int : a = Cent * l
    BY StockAssumption
  <1>11. PICK b \in Int : b = Cent * c
    BY StockAssumption
  <1>12. Cent * (l + c) = a + b
    BY <1>10, <1>11, StockAssumption
  <1>13. DustSum(M, L) = GrainSum(M) + a /\ DustSum(N, K) = GrainSum(N) + (a + b)
    BY <1>8, <1>9, <1>10, <1>12 DEF DustSum
  <1>14. PICK g \in Int : g = GrainSum(M)
    BY <1>2
  <1>15. (g + (Cent + q)) + (a + b) = (g + a) + (Cent + q + b) /\ g + a \in Int
    BY StockAssumption
  <1>16. DustSum(N, K) = DustSum(M, L) + (Cent + q + b) /\ DustSum(M, L) \in Int
    BY <1>5, <1>13, <1>14, <1>15
  <1>17. OpenSum(M, L, w) = OpenSum(N, K, w) + s /\ OwedSum(M, L, w) = OwedSum(N, K, w) + r
    BY <1>1, <1>6 DEF Handed
  <1>18. \A u : u # w => OpenSum(N, K, u) = OpenSum(M, L, u) /\ OwedSum(N, K, u) = OwedSum(M, L, u)
    BY <1>1, <1>6 DEF Handed
  <1> QED
    BY <1>7, <1>11, <1>16, <1>17, <1>18

\* Units below zero are served from what arrives; the basis takes the rest.
LEMMA ServedBasis ==
  ASSUME NEW x \in Int, NEW y \in Nat, x <= 0 => y = 0, NEW q \in Nat, q # 0, NEW cost \in Nat,
         NEW s, s = Least(q, Over(-x)), NEW o \in Int, Over(-x) = o + s
  PROVE  /\ s \in Nat /\ o = Over(-(x + q))
         /\ BasisIn(x, y, q, cost) = y + q * cost - cost * s
         /\ BasisIn(x, y, q, cost) \in Nat
         /\ x + q <= 0 => BasisIn(x, y, q, cost) = 0
  <1>1. s \in Nat /\ o = Over(-(x + q)) /\ (x >= 0 => s = 0) /\ (~(x >= 0) => q - s = Over(x + q))
    BY DEF Least, Over
  <1>2. PICK p \in Nat : p = q * cost
    OBVIOUS
  <1>3. PICK t \in Nat : t = cost * s
    BY <1>1
  <1>4. CASE x >= 0
    <2>1. s = 0 /\ x + q > 0
      BY <1>1, <1>4
    <2>2. t = 0
      BY <1>3, <2>1
    <2>3. PICK b : b = BasisIn(x, y, q, cost)
      OBVIOUS
    <2>4. b = y + p - t /\ b \in Nat
      BY <1>2, <1>4, <2>2, <2>3 DEF BasisIn
    <2> QED
      BY <1>1, <1>2, <1>3, <2>1, <2>3, <2>4
  <1>5. CASE ~(x >= 0)
    <2>1. y = 0 /\ q - s = Over(x + q)
      BY <1>1, <1>5
    <2>2. PICK n \in Nat : n = Over(x + q)
      BY DEF Over
    <2>3. BasisIn(x, y, q, cost) = n * cost
      BY <1>5, <2>2 DEF BasisIn
    <2>4. n * cost = p - t
      <3>1. n = q - s
        BY <2>1, <2>2
      <3>2. (q - s) * cost = q * cost - cost * s
        BY <1>1
      <3> QED
        BY <1>2, <1>3, <3>1, <3>2
    <2>5. n * cost \in Nat /\ (n = 0 => n * cost = 0)
      OBVIOUS
    <2>6. x + q <= 0 => n = 0
      BY <2>2 DEF Over
    <2>7. y + p - t = p - t
      BY <1>2, <1>3, <2>1
    <2> QED
      BY <1>1, <1>2, <1>3, <2>3, <2>4, <2>5, <2>6, <2>7
  <1> QED
    BY <1>4, <1>5

\* The warehouse of the purchase: cost is the total per unit, rounded once.
LEMMA ServedStocked ==
  ASSUME NEW M, NEW N, NEW L, NEW K, NEW w, NEW q \in Nat, q # 0, NEW cost \in Nat, NEW row, NEW C,
         NEW s, NEW r, NEW v, Serving(M, N, L, K, w, q, cost, row, C, s, r, v), LinksFit(N, K),
         NEW total \in Nat, cost = HalfUp(Steps(total), q),
         NEW x, NEW y, NEW z, NEW a \in Nat, Stocked(M, L, w, x, y, z, a), NEW zz, zz = z + total - v
  PROVE  Stocked(N, K, w, x + q, BasisIn(x, y, q, cost), zz, a)
  <1>1. /\ x \in Int /\ y \in Nat /\ z \in Int /\ (x <= 0 => y = 0)
        /\ OpenSum(M, L, w) = Over(-x) /\ Near(z, y, OwedSum(M, L, w), DustSum(M, L) + a)
    BY DEF Stocked
  <1>2. /\ Longer(M, N, row) /\ RowsFit(M) /\ RowFits(row) /\ LinksFit(M, L)
        /\ Made(row, "PURCHASE_RECEIPT", w, q, cost, FALSE, 0)
        /\ r \in Int /\ v \in Int /\ s \in Int /\ s = Least(q, OpenSum(M, L, w))
        /\ 2 * (Cent * v - (cost * s - r)) <= Cent * Cardinality(C)
        /\ -(2 * (Cent * v - (cost * s - r))) <= Cent * Cardinality(C)
    BY DEF Serving, OneRow
  <1>4. /\ OpenSum(M, L, w) = OpenSum(N, K, w) + s /\ OwedSum(M, L, w) = OwedSum(N, K, w) + r
        /\ DustSum(N, K) = DustSum(M, L) + (Cent + q + Cent * Cardinality(C))
        /\ DustSum(M, L) \in Int /\ Cardinality(C) \in Nat
    <2>1. /\ OpenSum(M, L, w) = OpenSum(N, K, w) + s /\ OwedSum(M, L, w) = OwedSum(N, K, w) + r
          /\ \A u : u # w => OpenSum(N, K, u) = OpenSum(M, L, u) /\ OwedSum(N, K, u) = OwedSum(M, L, u)
          /\ DustSum(N, K) = DustSum(M, L) + (Cent + q + Cent * Cardinality(C))
          /\ DustSum(M, L) \in Int /\ Cardinality(C) \in Nat
      BY ONLY q \in Nat, q # 0, Serving(M, N, L, K, w, q, cost, row, C, s, r, v), ServingSums
    <2> QED
      BY <2>1
  <1>5. RowsFit(N) /\ LinksFit(N, K)
    BY <1>2, SumsGrow
  <1>6. PICK op \in Int : op = OpenSum(N, K, w)
    BY <1>5, SumsAreInts
  <1>7. PICK oo \in Int : oo = OwedSum(N, K, w)
    BY <1>5, SumsAreInts
  <1>8. PICK o \in Int : o = OwedSum(M, L, w) /\ o = oo + r
    BY <1>2, <1>4, <1>7
  <1>9. PICK e \in Int : e = DustSum(M, L) + a
    BY <1>4
  <1>10. PICK c \in Nat : c = Cardinality(C)
    BY <1>4
  <1>11. PICK d \in Int : d = Cent * c
    BY StockAssumption
  <1>12. PICK k \in Int : k = Cent + q + d
    BY StockAssumption
  <1>13. PICK ee \in Int : ee = DustSum(N, K) + a /\ ee = e + k
    BY <1>4, <1>9, <1>10, <1>11, <1>12
  <1>14. PICK p \in Nat : p = q * cost
    OBVIOUS
  <1>15. PICK xx \in Int : xx = x + q
    BY <1>1
  <1>16. PICK yy \in Nat : yy = BasisIn(x, y, q, cost)
    BY <1>1, BasisNat
  <1>17. s \in Nat /\ op = Over(-(x + q)) /\ yy = y + p - cost * s /\ (x + q <= 0 => yy = 0)
    <2>1. /\ x \in Int /\ y \in Nat /\ (x <= 0 => y = 0) /\ s = Least(q, Over(-x)) /\ op \in Int
          /\ Over(-x) = op + s /\ q \in Nat /\ q # 0 /\ cost \in Nat
      BY <1>1, <1>2, <1>4, <1>6
    <2>2. /\ s \in Nat /\ op = Over(-(x + q))
          /\ BasisIn(x, y, q, cost) = y + q * cost - cost * s
          /\ x + q <= 0 => BasisIn(x, y, q, cost) = 0
      BY ONLY <2>1, ServedBasis
    <2> QED
      BY <1>14, <1>16, <2>2
  <1>18. PICK t \in Nat : t = cost * s
    BY <1>17
  <1>19. PICK g \in Int : g = Cent * total
    BY StockAssumption
  <1>20. 2 * (g - p) <= q /\ -(2 * (g - p)) <= q
    <2>1. Steps(total) = g
      BY <1>19, StockAssumption DEF Steps
    <2>2. 2 * p <= 2 * g + q /\ 2 * g <= 2 * p + q
      <3>1. q \in Nat \ {0} /\ cost = HalfUp(g, q)
        BY <2>1
      <3> QED
        BY <1>14, <3>1, HalfUpIs
    <2> QED
      BY <2>2
  <1>21. PICK f \in Int : f = Cent * v
    BY <1>2, StockAssumption
  <1>22. 2 * (f - (t - r)) <= d /\ -(2 * (f - (t - r))) <= d
    BY <1>2, <1>10, <1>11, <1>18, <1>21
  <1>23. PICK m \in Int : m = (g - p) - (f - (t - r))
    BY <1>2
  <1>24. 2 * m <= k /\ -(2 * m) <= k
    BY <1>2, <1>12, <1>20, <1>22, <1>23, StockAssumption
  <1>25. zz \in Int
    BY <1>1, <1>2
  <1>26. PICK h \in Int : h = Cent * z
    BY <1>1, StockAssumption
  <1>27. Cent * zz = h + g - f
    <2>1. Cent * (z + total - v) = Cent * z + Cent * total - Cent * v
      BY <1>1, <1>2, StockAssumption
    <2> QED
      BY <1>19, <1>21, <1>26, <2>1
  <1>28. Gap(zz, yy, oo) = Gap(z, y, o) + m
    <2>1. h + g - f - (yy - oo) = h - (y - o) + m
      BY <1>1, <1>2, <1>8, <1>17, <1>18, <1>23
    <2> QED
      BY <1>26, <1>27, <2>1 DEF Gap
  <1>29. Near(z, y, o, e)
    BY <1>1, <1>8, <1>9
  <1>30. y \in Int /\ yy \in Int /\ e + k <= ee
    BY <1>1, <1>13
  <1>31. Near(zz, yy, oo, ee)
    <2>1. z \in Int /\ zz \in Int /\ o \in Int /\ oo \in Int /\ e \in Int /\ ee \in Int /\ m \in Int /\ k \in Int
      BY <1>1, <1>25
    <2> QED
      BY ONLY <1>24, <1>28, <1>29, <1>30, <2>1, NearMoves
  <1> QED
    BY <1>6, <1>7, <1>13, <1>15, <1>16, <1>17, <1>25, <1>31 DEF Stocked

LEMMA ServedTies ==
  ASSUME NEW M, NEW N, NEW L, NEW K, NEW w, NEW q \in Nat, q # 0, NEW cost \in Nat, NEW row, NEW C,
         NEW s, NEW r, NEW v, Serving(M, N, L, K, w, q, cost, row, C, s, r, v), LinksFit(N, K),
         NEW total \in Nat, cost = HalfUp(Steps(total), q),
         NEW x, NEW y, NEW z, Ties(M, L, w, x, y, z), NEW zz, zz = z + total - v
  PROVE  \E xx, yy : Ties(N, K, w, xx, yy, zz)
  <1>1. Worth(M, w, x, y) /\ Stocked(M, L, w, x, y, z, 0) /\ x \in Int /\ y \in Nat
    BY DEF Ties, Stocked
  <1>2. Stocked(N, K, w, x + q, BasisIn(x, y, q, cost), zz, 0)
    BY <1>1, ServedStocked
  <1>3. /\ Longer(M, N, row) /\ RowFits(row)
        /\ row.warehouse = w /\ row.quantity = q /\ row.cost = cost
    BY DEF Serving, OneRow, Made, InTypes
  <1>4. UnitsNext(x, row, w) = x + q /\ BasisNext(x, y, row, w) = BasisIn(x, y, q, cost)
    BY <1>3 DEF UnitsNext, BasisNext
  <1>5. Worth(N, w, x + q, BasisIn(x, y, q, cost))
    BY <1>1, <1>3, <1>4, WorthNext
  <1> QED
    BY <1>2, <1>5 DEF Ties

\* Another warehouse: the corrections of w only add to the dust.
LEMMA StockedElsewhere ==
  ASSUME NEW M, NEW N, NEW L, NEW K, NEW w, NEW q \in Nat, q # 0, NEW cost, NEW row, NEW C,
         NEW s, NEW r, NEW v, Serving(M, N, L, K, w, q, cost, row, C, s, r, v),
         NEW u, u # w, NEW x, NEW y, NEW z, NEW a \in Nat, Stocked(M, L, u, x, y, z, a)
  PROVE  Stocked(N, K, u, x, y, z, a)
  <1>1. /\ x \in Int /\ y \in Nat /\ z \in Int /\ (x <= 0 => y = 0)
        /\ OpenSum(M, L, u) = Over(-x) /\ Near(z, y, OwedSum(M, L, u), DustSum(M, L) + a)
    BY DEF Stocked
  <1>2. /\ Longer(M, N, row) /\ RowsFit(M) /\ RowFits(row) /\ LinksFit(M, L)
        /\ Made(row, "PURCHASE_RECEIPT", w, q, cost, FALSE, 0)
    BY DEF Serving, OneRow
  <1>3. /\ OpenSum(N, K, u) = OpenSum(M, L, u) /\ OwedSum(N, K, u) = OwedSum(M, L, u)
        /\ DustSum(N, K) = DustSum(M, L) + (Cent + q + Cent * Cardinality(C))
        /\ DustSum(M, L) \in Int /\ Cardinality(C) \in Nat
    <2>1. /\ OpenSum(M, L, w) = OpenSum(N, K, w) + s /\ OwedSum(M, L, w) = OwedSum(N, K, w) + r
          /\ \A b : b # w => OpenSum(N, K, b) = OpenSum(M, L, b) /\ OwedSum(N, K, b) = OwedSum(M, L, b)
          /\ DustSum(N, K) = DustSum(M, L) + (Cent + q + Cent * Cardinality(C))
          /\ DustSum(M, L) \in Int /\ Cardinality(C) \in Nat
      BY ONLY q \in Nat, q # 0, Serving(M, N, L, K, w, q, cost, row, C, s, r, v), ServingSums
    <2> QED
      BY <2>1
  <1>4. PICK o \in Int : o = OwedSum(M, L, u)
    BY <1>2, SumsAreInts
  <1>5. PICK e \in Int : e = DustSum(M, L) + a
    BY <1>3
  <1>6. PICK c \in Nat : c = Cardinality(C)
    BY <1>3
  <1>7. PICK d \in Nat : d = Cent * c
    BY StockAssumption
  <1>8. PICK k \in Nat : k = Cent + q + d
    BY StockAssumption
  <1>9. PICK ee \in Int : ee = DustSum(N, K) + a /\ ee = e + k
    BY <1>3, <1>5, <1>6, <1>7, <1>8
  <1>10. PICK g \in Int : g = Cent * z
    BY <1>1, StockAssumption
  <1>11. Gap(z, y, o) = Gap(z, y, o) + 0
    <2>1. Gap(z, y, o) = g - (y - o)
      BY <1>10 DEF Gap
    <2> QED
      BY <1>1, <2>1
  <1>12. Near(z, y, o, ee)
    <2>1. z \in Int /\ o \in Int /\ e \in Int /\ ee \in Int /\ 0 \in Int /\ k \in Int /\ y \in Int
      BY <1>1
    <2>2. 2 * 0 <= k /\ -(2 * 0) <= k /\ e + k <= ee
      BY <1>9
    <2>3. Near(z, y, o, e)
      BY <1>1, <1>4, <1>5
    <2> QED
      BY ONLY <1>11, <2>1, <2>2, <2>3, NearMoves
  <1> QED
    BY <1>1, <1>3, <1>4, <1>9, <1>12 DEF Stocked

LEMMA ServedElsewhere ==
  ASSUME NEW M, NEW N, NEW L, NEW K, NEW w, NEW q \in Nat, q # 0, NEW cost, NEW row, NEW C,
         NEW s, NEW r, NEW v, Serving(M, N, L, K, w, q, cost, row, C, s, r, v),
         NEW u, u # w, NEW x, NEW y, NEW z, Ties(M, L, u, x, y, z)
  PROVE  Ties(N, K, u, x, y, z)
  <1>1. Worth(M, u, x, y) /\ Stocked(M, L, u, x, y, z, 0) /\ x \in Int /\ y \in Nat
    BY DEF Ties, Stocked
  <1>2. Stocked(N, K, u, x, y, z, 0)
    BY <1>1, StockedElsewhere
  <1>3. Longer(M, N, row) /\ RowFits(row) /\ row.warehouse = w
    BY DEF Serving, OneRow, Made
  <1>4. UnitsNext(x, row, u) = x /\ BasisNext(x, y, row, u) = y
    BY <1>3 DEF UnitsNext, BasisNext
  <1>5. Worth(N, u, x, y)
    BY <1>1, <1>3, <1>4, WorthNext
  <1> QED
    BY <1>2, <1>5 DEF Ties

LEMMA PurchaseTies ==
  ASSUME TiedInv, LinksFit(moves', links'), NEW w \in Warehouse, NEW q \in Quantity,
         NEW total \in Total, NEW d \in Day, Purchase(w, q, total, d)
  PROVE  TiedAfter
  <1> SUFFICES ASSUME RegularIn(moves') PROVE TiesAll(moves', links', inventory')
    BY DEF TiedAfter
  <1>1. q \in Nat /\ q # 0 /\ total \in Nat
    BY DataInputs, StockAssumption
  <1>2. PICK cost \in Nat : cost = HalfUp(Steps(total), q)
    <2>1. Steps(total) \in Nat
      BY <1>1, StockAssumption DEF Steps
    <2> QED
      BY <1>1, <2>1, HalfUpNat
  <1>3. /\ Move("PURCHASE_RECEIPT", w, q, d, cost, FALSE, 0)
        /\ links' = links \cup NewLinks(w, q, cost)
        /\ inventory' = [inventory EXCEPT ![w] = @ + total - Corrects(w, q, cost)]
    BY <1>2 DEF Purchase
  <1>4. PICK M : M = moves
    OBVIOUS
  <1>5. PICK N : N = moves'
    OBVIOUS
  <1>6. PICK L : L = links
    OBVIOUS
  <1>7. PICK K : K = links'
    OBVIOUS
  <1>8. PICK I : I = inventory
    OBVIOUS
  <1>9. PICK J : J = inventory'
    OBVIOUS
  <1>10. PICK row, C, s, r, v : v = Corrects(w, q, cost) /\ Serving(M, N, L, K, w, q, cost, row, C, s, r, v)
    <2>1. \E row, C, s, r, v : /\ v = Corrects(w, q, cost)
                               /\ Serving(moves, moves', links, links', w, q, cost, row, C, s, r, v)
      BY <1>1, <1>3, PurchaseHands DEF TiedInv
    <2> QED
      BY <1>4, <1>5, <1>6, <1>7, <2>1
  <1>11. TiesAll(M, L, I)
    <2>1. Longer(M, N, row)
      BY <1>10 DEF Serving, OneRow
    <2>2. RegularIn(M)
      BY <1>5, <2>1, RegularBefore
    <2> QED
      BY <1>4, <1>6, <1>8, <2>2 DEF TiedInv, Tied
  <1>12. J[w] = I[w] + total - v /\ \A u \in Warehouse : u # w => J[u] = I[u]
    <2>1. I \in [Warehouse -> Int] /\ J = [I EXCEPT ![w] = @ + total - v]
      BY <1>3, <1>8, <1>9, <1>10, ValueInvIs DEF TiedInv, TypedBooks
    <2> QED
      BY <2>1
  <1>13. LinksFit(N, K)
    BY <1>5, <1>7
  <1>14. ASSUME NEW u \in Warehouse PROVE \E x, y : Ties(N, K, u, x, y, J[u])
    <2>1. PICK z : z = I[u]
      OBVIOUS
    <2>2. PICK x, y : Ties(M, L, u, x, y, z)
      BY <1>11, <2>1 DEF TiesAll
    <2>3. CASE u # w
      <3>1. Ties(N, K, u, x, y, z)
        BY <1>1, <1>10, <2>2, <2>3, ServedElsewhere
      <3> QED
        BY <1>12, <2>1, <2>3, <3>1
    <2>4. CASE u = w
      <3>1. PICK zz : zz = z + total - v
        OBVIOUS
      <3>2. Ties(M, L, w, x, y, z)
        BY <2>2, <2>4
      <3>3. \E xx, yy : Ties(N, K, w, xx, yy, zz)
        BY ONLY <1>1, <1>2, <1>10, <1>13, <3>1, <3>2, ServedTies
      <3>4. J[u] = zz
        BY <1>12, <2>1, <2>4, <3>1
      <3> QED
        BY <2>4, <3>3, <3>4
    <2> QED
      BY <2>3, <2>4
  <1>15. TiesAll(N, K, J)
    BY <1>14 DEF TiesAll
  <1> QED
    BY <1>5, <1>7, <1>9, <1>15

-----------------------------------------------------------------------------
(* InventoryTies.                                                           *)
LEMMA TiedStep == TiedInv /\ [Next]_vars => Tied(moves', links', inventory')
  <1> SUFFICES ASSUME TiedInv, [Next]_vars PROVE TiedAfter
    BY DEF TiedAfter, Tied
  <1>0. LinksFit(moves', links')
    BY LinksStep DEF TiedInv, ValueInv
  <1>1. CASE InboundStep
    <2>1. PICK w \in Warehouse, q \in Quantity, d \in Day :
            \/ \E total \in Total : Purchase(w, q, total, d)
            \/ \E cost \in Cost : OpenStock(w, q, cost, d) \/ AdjustIn(w, q, cost, d)
      BY <1>1 DEF InboundStep
    <2>2. CASE \E total \in Total : Purchase(w, q, total, d)
      BY <1>0, <2>2, PurchaseTies
    <2>3. CASE \E cost \in Cost : OpenStock(w, q, cost, d) \/ AdjustIn(w, q, cost, d)
      BY <2>3, OpenTies, AdjustTies
    <2> QED
      BY <2>1, <2>2, <2>3
  <1>2. CASE OutboundStep
    <2>1. PICK w \in Warehouse, q \in Quantity, d \in Day : \E cost \in IssueCosts(w, q) :
            \/ Sell(w, q, d, cost)
            \/ \E v \in Warehouse, p \in Quantity : \E other \in IssueCosts(v, p) :
                 SellFromTwo(w, v, q, p, d, cost, other)
            \/ \E v \in Warehouse, ref \in TransferNames : Transfer(w, v, q, d, cost, ref)
            \/ \E type \in {"ADJUSTMENT_OUT", "SHORTAGE"} : TakeOut(type, w, q, d, cost)
      BY <1>2 DEF OutboundStep
    <2>2. PICK cost \in IssueCosts(w, q) :
            \/ Sell(w, q, d, cost)
            \/ \E v \in Warehouse, p \in Quantity : \E other \in IssueCosts(v, p) :
                 SellFromTwo(w, v, q, p, d, cost, other)
            \/ \E v \in Warehouse, ref \in TransferNames : Transfer(w, v, q, d, cost, ref)
            \/ \E type \in {"ADJUSTMENT_OUT", "SHORTAGE"} : TakeOut(type, w, q, d, cost)
      BY <2>1
    <2>3. CASE Sell(w, q, d, cost)
      BY <2>3, SellTies
    <2>4. CASE \E v \in Warehouse, p \in Quantity : \E other \in IssueCosts(v, p) :
                 SellFromTwo(w, v, q, p, d, cost, other)
      BY <2>4, SellFromTwoTies
    <2>5. CASE \E v \in Warehouse, ref \in TransferNames : Transfer(w, v, q, d, cost, ref)
      BY <2>5, TransferTies
    <2>6. CASE \E type \in {"ADJUSTMENT_OUT", "SHORTAGE"} : TakeOut(type, w, q, d, cost)
      BY <2>6, TakeOutTies
    <2> QED
      BY <2>2, <2>3, <2>4, <2>5, <2>6
  <1>3. CASE moves' = moves /\ links' = links /\ inventory' = inventory
    BY <1>3 DEF TiedInv, Tied, TiedAfter
  <1>4. CASE ReturnStep
    <2>1. PICK i \in DOMAIN moves :
            \/ \E q \in Quantity, d \in Day : ReturnPurchase(i, q, d) \/ ReturnSale(i, q, d)
            \/ \E d \in Day : ReverseSalesReturn(i, d)
            \/ ReversePurchaseReturn(i)
            \/ SettleShortage(i)
      BY <1>4 DEF ReturnStep
    <2>2. CASE \E q \in Quantity, d \in Day : ReturnPurchase(i, q, d) \/ ReturnSale(i, q, d)
      BY <2>2, ReturnPurchaseTies, ReturnSaleTies
    <2>3. CASE \E d \in Day : ReverseSalesReturn(i, d)
      BY <2>3, UndoSaleTies
    <2>4. CASE ReversePurchaseReturn(i)
      BY <2>4, UndoPurchaseTies
    <2>5. CASE SettleShortage(i)
      BY <1>3, <2>5 DEF SettleShortage, accounts
    <2> QED
      BY <2>1, <2>2, <2>3, <2>4, <2>5
  <1>5. CASE UNCHANGED vars
    BY <1>3, <1>5 DEF vars, accounts
  <1> QED
    BY <1>1, <1>2, <1>4, <1>5 DEF Next, StockStep

LEMMA StartsTied ==
  ASSUME Init, NEW w \in Warehouse
  PROVE  Ties(moves, links, w, 0, 0, inventory[w])
  <1>1. moves = <<>> /\ links = {} /\ inventory[w] = 0 /\ DOMAIN moves = {} /\ Len(moves) = 0
    BY DEF Init
  <1>2. Worth(moves, w, 0, 0)
    <2>1. PICK u : u = [k \in 0 .. 0 |-> 0]
      OBVIOUS
    <2>2. u \in [0 .. 0 -> Int] /\ u \in [0 .. 0 -> Nat] /\ u[0] = 0 /\ 1 .. 0 = {}
      BY <2>1
    <2>3. Tape(moves, Ident(0), 0, w, u, u)
      BY <2>2 DEF Tape
    <2> QED
      BY <1>1, <2>2, <2>3 DEF Worth
  <1>3. Debts(moves, w) = {}
    BY <1>1 DEF Debts
  <1>4. OpenSum(moves, links, w) = 0 /\ OwedSum(moves, links, w) = 0 /\ GrainSum(moves) = 0
    BY <1>1, <1>3, SumEmpty DEF OpenSum, OwedSum, GrainSum
  <1>5. DustSum(moves, links) + 0 = 0
    <2>1. Cardinality(links) = 0
      BY <1>1, FS_EmptySet
    <2>2. Cent * 0 = 0
      BY StockAssumption
    <2> QED
      BY <1>4, <2>1, <2>2 DEF DustSum
  <1>6. Near(0, 0, 0, 0)
    <2>1. Cent * 0 - (0 - 0) = 0
      BY StockAssumption
    <2> QED
      BY <2>1 DEF Near, Gap, Absolute
  <1>7. Over(-0) = 0
    BY DEF Over
  <1> QED
    BY <1>1, <1>2, <1>4, <1>5, <1>6, <1>7 DEF Ties, Stocked

LEMMA TiedInit == Init => Tied(moves, links, inventory)
  BY StartsTied DEF Tied, TiesAll

LEMMA TiedInvHolds == Spec => []TiedInv
  <1>1. Init => TiedInv
    BY ValueInit, TiedInit DEF TiedInv
  <1>2. TiedInv /\ [Next]_vars => TiedInv'
    <2>1. TiedInv /\ [Next]_vars => ValueInv' /\ costs' = costs
      BY ValueStep DEF TiedInv
    <2> QED
      BY <2>1, TiedStep DEF TiedInv
  <1> QED
    BY <1>1, <1>2, PTL DEF Spec

\* What the books owe and how exact they are, as InventoryTies states them.
LEMMA OwedIs ==
  ASSUME ValueInv, NEW w
  PROVE  SumOf(Obligations(w), LAMBDA i : Open(i) * moves[i].cost) = OwedSum(moves, links, w)
  <1>1. PICK S : S = Obligations(w)
    OBVIOUS
  <1>2. S = Debts(moves, w) /\ S \subseteq DOMAIN moves
    BY <1>1 DEF Obligations, Debts, Obliges, Original, Is
  <1>3. IsFiniteSet(S)
    BY <1>2, ListFits, SumsAreInts
  <1>4. PICK f : f = [i \in S |-> Open(i) * moves[i].cost]
    OBVIOUS
  <1>5. PICK g : g = Owes(moves, links)
    OBVIOUS
  <1>6. ASSUME NEW i \in S PROVE f[i] = g[i]
    <2>1. i \in DOMAIN moves
      BY <1>2
    <2>2. Open(i) = OpenIn(moves, links, i)
      BY <2>1, OpenIs, ValueInvIs DEF OpenIn, Size, Units
    <2> QED
      BY <1>4, <1>5, <2>1, <2>2 DEF Owes
  <1>7. SumFunctionOnSet(f, S) = SumFunctionOnSet(g, S)
    BY <1>3, <1>6, SumAgree
  <1> QED
    BY <1>1, <1>2, <1>4, <1>5, <1>7 DEF SumOf, OwedSum

LEMMA DustIs == ValueInv => Dust = DustSum(moves, links) /\ DustSum(moves, links) \in Int
  <1> SUFFICES ASSUME ValueInv PROVE Dust = DustSum(moves, links) /\ DustSum(moves, links) \in Int
    OBVIOUS
  <1>1. [i \in DOMAIN moves |-> Cent + Units(i)] = Grains(moves)
    BY DEF Grains, Units, Size
  <1>2. RowsFit(moves) /\ LinksFit(moves, links)
    BY ListFits
  <1>3. GrainSum(moves) \in Int
    BY <1>2, SumsAreInts
  <1>4. PICK c \in Nat : c = Cardinality(links)
    BY <1>2, FS_CardinalityType DEF LinksFit
  <1>5. Cent * c \in Int
    BY StockAssumption
  <1>6. DustSum(moves, links) \in Int
    BY <1>3, <1>4, <1>5 DEF DustSum
  <1> QED
    BY <1>1, <1>6 DEF Dust, DustSum, GrainSum, SumOf

\* While no movement is one the journals do not follow, the account of every
\* warehouse is the basis of its stock less what open obligations took at
\* temporary costs, to half a cent per journal and half a step per unit: every
\* document service books what the replay of the Kardex says of its movement
\* (_post_effects, finalize_sale, resolve_negative_obligations, avco_for).
THEOREM InventoryAlwaysTies == Spec => []InventoryTies
  <1>1. TiedInv => InventoryTies
    <2> SUFFICES ASSUME TiedInv, Regular, NEW w \in Warehouse
                 PROVE  LET basis == Valuation.basis
                            owed(v) == SumOf(Obligations(v), LAMBDA i : Open(i) * moves[i].cost)
                        IN 2 * Absolute(Cent * inventory[w] - (basis[w] - owed(w))) <= Dust
      BY DEF InventoryTies
    <2>1. ValueInv /\ Active = {} /\ RegularIn(moves) /\ Tied(moves, links, inventory)
      BY RegularIs, TiedNow
    <2>2. PICK x, y : Stands(w, x, y) /\ Valuation.basis[w] = y
      BY <2>1, StandsNow
    <2>3. Near(inventory[w], y, OwedSum(moves, links, w), DustSum(moves, links) + 0)
      BY <2>2 DEF Stands, Ties, Stocked
    <2>4. SumOf(Obligations(w), LAMBDA i : Open(i) * moves[i].cost) = OwedSum(moves, links, w)
      BY <2>1, OwedIs
    <2>5. DustSum(moves, links) + 0 = Dust
      BY <2>1, DustIs
    <2> QED
      BY <2>2, <2>3, <2>4, <2>5 DEF Near, Gap
  <1> QED
    BY <1>1, TiedInvHolds, PTL

=============================================================================
