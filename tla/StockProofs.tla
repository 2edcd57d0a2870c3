------------------------------ MODULE StockProofs ------------------------------
(***************************************************************************)
(* Proofs about Stock.  What the rows of the list of movements are to each *)
(* other (ListInv): a return names a receipt or an issue before it, with   *)
(* all its returns it stays within it, and it is taken back whole and      *)
(* once.  What receipts gave the sales below zero (LinksFit).  Every step  *)
(* receives a purchase, or writes one or two other rows (StepWrites); how  *)
(* a purchase serves the obligations is a queue of claims on its goods     *)
(* (ServedInFull, ServedInTurn).                                           *)
(***************************************************************************)
EXTENDS StockProperties, SumTheorems, TLAPS

(* Rows in a list. *)
IsList(M) == Len(M) \in Nat /\ M = [i \in 1 .. Len(M) |-> M[i]]

\* The list with one row more.
Longer(M, N, row) ==
  /\ IsList(M) /\ IsList(N)
  /\ Len(N) = Len(M) + 1
  /\ N[Len(M) + 1] = row
  /\ \A i \in 1 .. Len(M) : N[i] = M[i]

LEMMA AppendIsLonger ==
  ASSUME NEW M, IsList(M), NEW row
  PROVE  Longer(M, Append(M, row), row)
  <1> DEFINE S == {M[i] : i \in 1 .. Len(M)} \cup {row}
  <1>1. M \in [1 .. Len(M) -> S]
    BY DEF IsList
  <1>2. M \in Seq(S) /\ row \in S
    BY <1>1 DEF IsList
  <1> HIDE DEF S
  <1>3. Append(M, row) \in Seq(S) /\ Len(Append(M, row)) = Len(M) + 1
    BY <1>2
  <1>4. Append(M, row)[Len(M) + 1] = row /\ \A i \in 1 .. Len(M) : Append(M, row)[i] = M[i]
    BY <1>2
  <1>5. PICK N \in Seq(S) : N = Append(M, row)
    BY <1>3
  <1>6. IsList(N)
    BY DEF IsList
  <1>7. N[Len(M) + 1] = row /\ Len(N) = Len(M) + 1 /\ \A i \in 1 .. Len(M) : N[i] = M[i]
    BY <1>3, <1>4, <1>5
  <1> QED
    BY <1>5, <1>6, <1>7 DEF Longer

LEMMA TwoAreLonger ==
  ASSUME NEW M, IsList(M), NEW a, NEW b
  PROVE  \E N : Longer(M, N, a) /\ Longer(N, M \o <<a, b>>, b)
  <1> DEFINE S == {M[i] : i \in 1 .. Len(M)} \cup {a, b}
  <1>1. M \in [1 .. Len(M) -> S]
    BY DEF IsList
  <1>2. M \in Seq(S) /\ a \in S /\ b \in S
    BY <1>1 DEF IsList
  <1> HIDE DEF S
  <1>3. M \o <<a, b>> = Append(Append(M, a), b)
    BY <1>2
  <1>4. Longer(M, Append(M, a), a)
    BY AppendIsLonger
  <1>5. IsList(Append(M, a))
    BY <1>4 DEF Longer
  <1> QED
    BY <1>3, <1>4, <1>5, AppendIsLonger
-----------------------------------------------------------------------------
(* What the rows of a list of movements are to each other.                  *)
ReturnTypes == {"SALES_RETURN", "PURCHASE_RETURN"}
SourceTypes == {"SALES_ISSUE", "PURCHASE_RECEIPT"}

Size(M, i) == Absolute(M[i].quantity)
BackIn(M, i) == {j \in DOMAIN M : M[j].src = i /\ M[j].type \in ReturnTypes}
UndoneIn(M, j) == \E k \in DOMAIN M : M[k].src = j /\ M[k].type \in SourceTypes
StandingIn(M, i) == {j \in BackIn(M, i) : ~(M[j].type = "SALES_RETURN" /\ UndoneIn(M, j))}
Sizes(M, S) == SumFunctionOnSet([j \in S |-> Size(M, j)], S)
LeftIn(M, i) == Size(M, i) - Sizes(M, StandingIn(M, i))

RowOK(row, n) ==
  /\ row.type \in InTypes \cup OutTypes
  /\ row.quantity \in Int /\ row.quantity # 0
  /\ row.quantity > 0 <=> row.type \in InTypes
  /\ row.src \in 0 .. (n - 1)
  /\ row.warehouse \in Warehouse
  /\ row.day \in Nat

\* A movement stands alone, is the second half of a transfer, returns what a
\* sale or a purchase moved, or takes such a return back whole.
Returns(row, source) ==
  /\ \/ row.type = "SALES_RETURN" /\ source.type = "SALES_ISSUE"
     \/ row.type = "PURCHASE_RETURN" /\ source.type = "PURCHASE_RECEIPT"
  /\ source.src = 0

TakesBack(row, source) ==
  /\ \/ row.type = "SALES_ISSUE" /\ source.type = "SALES_RETURN"
     \/ row.type = "PURCHASE_RECEIPT" /\ source.type = "PURCHASE_RETURN"
  /\ Absolute(row.quantity) = Absolute(source.quantity)

Kind(M, row) ==
  \/ row.src = 0 /\ row.type \notin ReturnTypes /\ row.type # "TRANSFER_IN"
  \/ /\ row.src \in DOMAIN M
     /\ \/ row.type = "TRANSFER_IN" /\ M[row.src].type = "TRANSFER_OUT"
        \/ Returns(row, M[row.src])
        \/ TakesBack(row, M[row.src])

RowsStand(M) == \A i \in DOMAIN M : RowOK(M[i], i) /\ Kind(M, M[i])

UndoneOnce(M) ==
  \A j, k \in DOMAIN M :
    /\ M[j].src = M[k].src /\ M[j].src # 0
    /\ M[j].type \in SourceTypes /\ M[k].type \in SourceTypes
    => j = k

ReturnsFit(M) ==
  \A i \in DOMAIN M : M[i].src = 0 /\ M[i].type \in SourceTypes => LeftIn(M, i) >= 0

ListInv(M) == IsList(M) /\ RowsStand(M) /\ UndoneOnce(M) /\ ReturnsFit(M)

\* What the services check before they write a row.
May(M, row) ==
  /\ RowOK(row, Len(M) + 1) /\ Kind(M, row)
  /\ row.type \in ReturnTypes => Absolute(row.quantity) <= LeftIn(M, row.src)
  /\ row.type \in SourceTypes /\ row.src # 0 => ~UndoneIn(M, row.src)

LEMMA Domains ==
  ASSUME NEW M, NEW N, NEW row, Longer(M, N, row)
  PROVE  /\ Len(M) \in Nat /\ DOMAIN M = 1 .. Len(M) /\ DOMAIN N = 1 .. (Len(M) + 1)
         /\ DOMAIN N = DOMAIN M \cup {Len(M) + 1} /\ Len(M) + 1 \notin DOMAIN M
         /\ \A i \in DOMAIN M : N[i] = M[i]
         /\ N[Len(M) + 1] = row /\ IsFiniteSet(DOMAIN M) /\ IsFiniteSet(DOMAIN N)
  <1>1. Len(M) \in Nat /\ DOMAIN M = 1 .. Len(M) /\ DOMAIN N = 1 .. (Len(M) + 1)
    BY DEF Longer, IsList
  <1>2. IsFiniteSet(1 .. Len(M)) /\ IsFiniteSet(1 .. (Len(M) + 1))
    BY <1>1, FS_Interval
  <1> QED
    BY <1>1, <1>2 DEF Longer

LEMMA SizeIs ==
  ASSUME NEW M, RowsStand(M), NEW i \in DOMAIN M
  PROVE  Size(M, i) \in Nat /\ Size(M, i) > 0
  BY DEF RowsStand, RowOK, Size, Absolute

\* A source has index before what refers to it.
LEMMA RowsKeep ==
  ASSUME NEW M, NEW N, NEW row, Longer(M, N, row), RowsStand(M), UndoneOnce(M), May(M, row)
  PROVE  RowsStand(N) /\ UndoneOnce(N)
  <1> DEFINE n == Len(M) + 1
  <1>1. /\ DOMAIN N = DOMAIN M \cup {n} /\ n \notin DOMAIN M /\ N[n] = row
        /\ \A i \in DOMAIN M : N[i] = M[i]
    BY Domains
  <1>2. /\ RowOK(row, n) /\ Kind(M, row)
        /\ row.type \in SourceTypes /\ row.src # 0 => ~UndoneIn(M, row.src)
    BY DEF May
  <1> HIDE DEF n
  <1>3. ASSUME NEW x, Kind(M, x) PROVE Kind(N, x)
    BY <1>1, <1>3 DEF Kind
  <1>4. RowsStand(N)
    BY <1>1, <1>2, <1>3 DEF RowsStand
  <1>5. UndoneOnce(N)
    BY <1>1, <1>2 DEF UndoneOnce, UndoneIn
  <1> QED
    BY <1>4, <1>5

LEMMA FitKeeps ==
  ASSUME NEW M, NEW N, NEW row, Longer(M, N, row), RowsStand(M), ReturnsFit(M), May(M, row)
  PROVE  ReturnsFit(N)
  <1> DEFINE n == Len(M) + 1
  <1>1. /\ DOMAIN N = DOMAIN M \cup {n} /\ n \notin DOMAIN M /\ N[n] = row
        /\ \A i \in DOMAIN M : N[i] = M[i]
        /\ IsFiniteSet(DOMAIN M) /\ n \in Nat /\ DOMAIN M = 1 .. (n - 1)
    <2>1. Len(M) \in Nat /\ DOMAIN M = 1 .. Len(M) /\ n = Len(M) + 1
      BY Domains
    <2>2. n \in Nat /\ n - 1 = Len(M)
      BY <2>1
    <2> QED
      BY <2>1, <2>2, Domains
  <1>2. RowOK(row, n) /\ Kind(M, row)
    BY DEF May
  <1>3. row.type \in ReturnTypes => Absolute(row.quantity) <= LeftIn(M, row.src)
    BY DEF May
  <1> HIDE DEF n
  <1>4. /\ \A i \in DOMAIN M : Size(N, i) = Size(M, i) /\ Size(M, i) \in Nat
        /\ Size(N, n) = Absolute(row.quantity) /\ Size(N, n) \in Nat
    <2>1. \A i \in DOMAIN M : Size(M, i) \in Nat
      BY SizeIs
    <2>2. Size(N, n) = Absolute(row.quantity) /\ Size(N, n) \in Nat
      BY <1>1, <1>2 DEF Size, RowOK, Absolute
    <2> QED
      BY <1>1, <2>1, <2>2 DEF Size
  <1>5. \A i \in DOMAIN M : M[i].src # n /\ row.src # n
    BY <1>1, <1>2 DEF RowsStand, RowOK
  <1> SUFFICES ASSUME NEW i \in DOMAIN N, N[i].src = 0, N[i].type \in SourceTypes
               PROVE  LeftIn(N, i) >= 0
    BY DEF ReturnsFit
  <1>6. CASE i = n
    <2>1. row.src # n
      BY <1>1, <1>2 DEF RowOK
    <2>2. StandingIn(N, n) = {}
      BY <1>1, <1>5, <2>1 DEF StandingIn, BackIn
    <2>3. Sizes(N, StandingIn(N, n)) = 0
      BY <2>2, SumEmpty DEF Sizes
    <2> QED
      BY <1>4, <1>6, <2>3 DEF LeftIn
  <1>7. CASE i # n
    <2> DEFINE S == StandingIn(M, i)
               T == StandingIn(N, i)
               f == [j \in S |-> Size(M, j)]
               g == [j \in T |-> Size(N, j)]
    <2>1. i \in DOMAIN M /\ LeftIn(M, i) >= 0
      BY <1>1, <1>7 DEF ReturnsFit
    <2>2. S \subseteq DOMAIN M /\ IsFiniteSet(S)
      BY <1>1, FS_Subset DEF StandingIn, BackIn
    <2>3. \A j \in DOMAIN M : j \in BackIn(N, i) <=> j \in BackIn(M, i)
      BY <1>1 DEF BackIn
    <2>4. \A j \in DOMAIN M : UndoneIn(M, j) => UndoneIn(N, j)
      BY <1>1 DEF UndoneIn
    <2>5. \A j \in DOMAIN M : j \in T => j \in S
      <3> SUFFICES ASSUME NEW j \in DOMAIN M, j \in T PROVE j \in S
        OBVIOUS
      <3>1. N[j] = M[j]
        BY <1>1
      <3> QED
        BY <2>3, <2>4, <3>1 DEF StandingIn
    <2>6. /\ Sizes(M, S) = SumFunctionOnSet(f, S) /\ Sizes(N, T) = SumFunctionOnSet(g, T)
          /\ Size(M, i) \in Nat /\ LeftIn(N, i) = Size(M, i) - Sizes(N, T)
          /\ LeftIn(M, i) = Size(M, i) - Sizes(M, S)
      BY <1>4, <2>1 DEF Sizes, LeftIn
    <2>7. /\ \A j \in S : f[j] \in Nat
          /\ \A j \in T \cap S : g[j] = f[j]
      BY <1>4, <2>2
    <2>8. n \in T => g[n] = Absolute(row.quantity) /\ g[n] \in Nat /\ row.type \in ReturnTypes /\ row.src = i
      BY <1>1, <1>4 DEF StandingIn, BackIn
    <2>9. T \subseteq S \cup {n} /\ n \notin S
      <3>1. T \subseteq DOMAIN N
        BY DEF StandingIn, BackIn
      <3> QED
        BY <1>1, <2>2, <2>5, <3>1
    <2> HIDE DEF S, T, f, g
    <2>10. SumFunctionOnSet(f, S) \in Nat
      BY <2>2, <2>7, SumNat
    <2>11. CASE n \notin T
      <3>1. T \subseteq S
        BY <2>9, <2>11
      <3>2. IsFiniteSet(T) /\ \A j \in T : g[j] = f[j]
        BY <2>2, <2>7, <3>1, FS_Subset
      <3>3. SumFunctionOnSet(g, T) = SumFunctionOnSet(f, T)
        BY <3>2, SumAgree
      <3>4. SumFunctionOnSet(f, T) <= SumFunctionOnSet(f, S) /\ SumFunctionOnSet(f, T) \in Nat
        <4>1. SumFunctionOnSet(f, T) <= SumFunctionOnSet(f, S)
          BY <2>2, <2>7, <3>1, SumSubset
        <4>2. SumFunctionOnSet(f, T) \in Nat
          BY <2>7, <3>1, <3>2, SumNat
        <4> QED
          BY <4>1, <4>2
      <3> QED
        BY <2>1, <2>6, <2>10, <3>3, <3>4
    <2>12. CASE n \in T
      <3>1. PICK R : R = T \ {n}
        OBVIOUS
      <3>2. R \subseteq S /\ T = R \cup {n} /\ n \notin R
        BY <2>9, <2>12, <3>1
      <3>3. IsFiniteSet(R) /\ (\A j \in R : g[j] = f[j]) /\ (\A j \in R : f[j] \in Nat)
        BY <2>2, <2>7, <3>1, <3>2, FS_Subset
      <3>4. IntOn(f, R)
        BY <3>3 DEF IntOn
      <3>5. g[n] \in Nat /\ g[n] \in Int
        BY <2>8, <2>12
      <3>6. SumFunctionOnSet(g, T) = SumFunctionOnSet(f, R) + g[n]
        BY ONLY <3>2, <3>3, <3>4, <3>5, SumAdded
      <3>7. SumFunctionOnSet(f, R) <= SumFunctionOnSet(f, S)
        BY <2>2, <2>7, <3>2, SumSubset
      <3>8. SumFunctionOnSet(f, R) \in Nat
        BY <3>3, SumNat
      <3>9. g[n] <= LeftIn(M, i)
        BY <1>3, <2>8, <2>12
      <3> QED
        BY <2>6, <2>10, <3>5, <3>6, <3>7, <3>8, <3>9
    <2> QED
      BY <2>11, <2>12
  <1> QED
    BY <1>6, <1>7

LEMMA ListKeeps ==
  ASSUME NEW M, NEW N, NEW row, Longer(M, N, row), ListInv(M), May(M, row)
  PROVE  ListInv(N)
  BY RowsKeep, FitKeeps DEF ListInv, Longer
-----------------------------------------------------------------------------
(* Every return is within its source.                                       *)

\* What takes the returns of i back is as much as the returns it takes back.
LEMMA TakenBackIs ==
  ASSUME NEW M, ListInv(M), NEW i, NEW A, A = BackIn(M, i), NEW U, U = {j \in A : UndoneIn(M, j)},
         NEW K, K = {k \in DOMAIN M : \E j \in A : M[k].src = j}
  PROVE  Sizes(M, K) = Sizes(M, U)
  <1>1. /\ IsFiniteSet(DOMAIN M) /\ A \subseteq DOMAIN M /\ U \subseteq A
        /\ \A j \in A : M[j].type \in ReturnTypes
    <2>1. IsFiniteSet(DOMAIN M)
      BY FS_Interval DEF ListInv, IsList
    <2> QED
      BY <2>1 DEF BackIn
  <1>2. IsFiniteSet(K) /\ IsFiniteSet(U) /\ K \subseteq DOMAIN M /\ U \subseteq DOMAIN M
    BY <1>1, FS_Subset
  <1>3. \A j \in DOMAIN M : Size(M, j) \in Nat /\ Size(M, j) \in Int
    BY SizeIs DEF ListInv
  <1>4. \A k \in K : /\ M[k].src \in A /\ M[k].type \in SourceTypes
                     /\ Size(M, k) = Size(M, M[k].src) /\ M[k].src # 0
    <2> SUFFICES ASSUME NEW k \in K
                 PROVE  /\ M[k].src \in A /\ M[k].type \in SourceTypes
                        /\ Size(M, k) = Size(M, M[k].src) /\ M[k].src # 0
      OBVIOUS
    <2>1. k \in DOMAIN M /\ M[k].src \in A /\ M[k].src \in DOMAIN M /\ M[M[k].src].type \in ReturnTypes
      BY <1>1
    <2>2. Kind(M, M[k]) /\ M[k].src # 0
      BY <2>1 DEF ListInv, RowsStand, IsList
    <2>3. TakesBack(M[k], M[M[k].src])
      BY <2>1, <2>2 DEF Kind, Returns, ReturnTypes
    <2> QED
      BY <2>1, <2>2, <2>3 DEF TakesBack, Size, SourceTypes
  <1>5. \A k \in K : M[k].src \in U
    BY <1>2, <1>4 DEF UndoneIn
  <1>6. \A w \in U : \E k \in K : {x \in K : M[x].src = w} = {k} /\ Size(M, k) = Size(M, w)
    <2> SUFFICES ASSUME NEW w \in U
                 PROVE  \E k \in K : {x \in K : M[x].src = w} = {k} /\ Size(M, k) = Size(M, w)
      OBVIOUS
    <2>1. PICK k \in DOMAIN M : M[k].src = w /\ M[k].type \in SourceTypes
      BY DEF UndoneIn
    <2>2. k \in K
      BY <1>1, <2>1
    <2>3. \A x \in K : M[x].src = w => x = k
      BY <1>2, <1>4, <2>1, <2>2 DEF ListInv, UndoneOnce
    <2> QED
      BY <1>4, <2>1, <2>2, <2>3
  <1> DEFINE f == [k \in K |-> Size(M, k)]
             g == [w \in U |-> Size(M, w)]
             key == [k \in K |-> M[k].src]
  <1>7. IntOn(f, K) /\ (\A k \in K : key[k] \in U)
    BY <1>2, <1>3, <1>5 DEF IntOn
  <1>8. \A w \in U : g[w] = SumFunctionOnSet(f, {x \in K : key[x] = w})
    <2> SUFFICES ASSUME NEW w \in U PROVE g[w] = SumFunctionOnSet(f, {x \in K : key[x] = w})
      OBVIOUS
    <2>1. PICK k \in K : {x \in K : key[x] = w} = {k} /\ f[k] = g[w]
      BY <1>6
    <2>2. {k} = {} \cup {k} /\ k \notin {} /\ IsFiniteSet({}) /\ IntOn(f, {}) /\ f[k] \in Int
      BY <1>7, FS_EmptySet DEF IntOn
    <2> HIDE DEF f, g, key
    <2>3. SumFunctionOnSet(f, {} \cup {k}) = f[k] + SumFunctionOnSet(f, {})
      BY ONLY <2>2, SumAdd
    <2>4. SumFunctionOnSet(f, {k}) = f[k]
      BY <2>2, <2>3, SumEmpty
    <2> QED
      BY <2>1, <2>4
  <1> HIDE DEF f, g, key
  <1>9. SumFunctionOnSet(f, K) = SumFunctionOnSet(g, U)
    <2>1. ByKey(f, K, key, U, g)
      BY <1>2, <1>7, <1>8 DEF ByKey
    <2> QED
      BY <2>1, SumByKey
  <1> QED
    BY <1>9 DEF f, g, Sizes

LEMMA ReturnsAreWithin == ListInv(moves) => ReturnsWithinSource
  <1> SUFFICES ASSUME ListInv(moves), NEW i \in DOMAIN moves,
                      Original(i, "SALES_ISSUE") \/ Original(i, "PURCHASE_RECEIPT")
               PROVE  SumOf(ReturnsOf(i), Units)
                      - SumOf({k \in DOMAIN moves : \E j \in ReturnsOf(i) : moves[k].src = j}, Units)
                        \in 0 .. Units(i)
    BY DEF ReturnsWithinSource
  <1>1. PICK M : M = moves
    OBVIOUS
  <1>2. PICK A : A = BackIn(M, i)
    OBVIOUS
  <1>3. PICK U : U = {j \in A : UndoneIn(M, j)}
    OBVIOUS
  <1>4. PICK K : K = {k \in DOMAIN M : \E j \in A : M[k].src = j}
    OBVIOUS
  <1>5. PICK S : S = StandingIn(M, i)
    OBVIOUS
  <1>6. PICK R : R = A \ U
    OBVIOUS
  <1>7. /\ ReturnsOf(i) = A /\ {k \in DOMAIN moves : \E j \in ReturnsOf(i) : moves[k].src = j} = K
        /\ \A j : Units(j) = Size(M, j)
    BY <1>1, <1>2, <1>4 DEF ReturnsOf, BackIn, ReturnTypes, Units, Size
  <1>8. /\ SumOf(ReturnsOf(i), Units) = Sizes(M, A)
        /\ SumOf({k \in DOMAIN moves : \E j \in ReturnsOf(i) : moves[k].src = j}, Units) = Sizes(M, K)
    BY <1>7 DEF SumOf, Sizes
  <1>9. Sizes(M, K) = Sizes(M, U)
    BY <1>1, <1>2, <1>3, <1>4, TakenBackIs
  <1>10. /\ IsFiniteSet(A) /\ A \subseteq DOMAIN M
         /\ \A j \in DOMAIN M : Size(M, j) \in Nat /\ Size(M, j) \in Int
    <2>1. IsFiniteSet(DOMAIN M) /\ A \subseteq DOMAIN M
      <3>1. Len(M) \in Int /\ DOMAIN M = 1 .. Len(M)
        BY <1>1 DEF ListInv, IsList
      <3> QED
        BY <1>2, <3>1, FS_Interval DEF BackIn
    <2> QED
      BY <1>1, <2>1, FS_Subset, SizeIs DEF ListInv
  <1>11. /\ R \cup U = A /\ R \cap U = {} /\ R \subseteq S /\ S \subseteq A
         /\ IsFiniteSet(R) /\ IsFiniteSet(U) /\ IsFiniteSet(S)
    <2>1. R \cup U = A /\ R \cap U = {} /\ R \subseteq S /\ S \subseteq A
      BY <1>2, <1>3, <1>5, <1>6 DEF StandingIn
    <2> QED
      BY <1>10, <2>1, FS_Subset
  <1>12. PICK f : f = [j \in DOMAIN M |-> Size(M, j)]
    OBVIOUS
  <1>13. /\ \A j \in A : f[j] \in Nat
         /\ \A X \in SUBSET A : IsFiniteSet(X) => Sizes(M, X) = SumFunctionOnSet(f, X)
    <2>1. \A j \in A : f[j] \in Nat
      BY <1>10, <1>12
    <2>2. ASSUME NEW X \in SUBSET A, IsFiniteSet(X)
          PROVE  SumFunctionOnSet([j \in X |-> Size(M, j)], X) = SumFunctionOnSet(f, X)
      <3> DEFINE e == [j \in X |-> Size(M, j)]
      <3>1. \A j \in X : e[j] = f[j]
        BY <1>10, <1>12
      <3> HIDE DEF e
      <3>2. SumFunctionOnSet(e, X) = SumFunctionOnSet(f, X)
        BY <2>2, <3>1, SumAgree
      <3> QED
        BY <3>2 DEF e
    <2> QED
      BY <2>1, <2>2 DEF Sizes
  <1>14. Sizes(M, A) = Sizes(M, R) + Sizes(M, U)
    <2>1. IntOn(f, R) /\ IntOn(f, U)
      BY <1>11, <1>13 DEF IntOn
    <2>2. SumFunctionOnSet(f, R \cup U) = SumFunctionOnSet(f, R) + SumFunctionOnSet(f, U)
      BY ONLY <1>11, <2>1, SumUnion
    <2> QED
      BY <1>10, <1>11, <1>13, <2>2
  <1>15. Sizes(M, R) <= Sizes(M, S) /\ Sizes(M, R) \in Nat /\ Sizes(M, S) \in Nat /\ Sizes(M, U) \in Nat
    <2>1. \A j \in S : f[j] \in Nat
      BY <1>11, <1>13
    <2>2. \A j \in R : f[j] \in Nat
      BY <1>11, <1>13
    <2>3. \A j \in U : f[j] \in Nat
      BY <1>11, <1>13
    <2>4. SumFunctionOnSet(f, R) <= SumFunctionOnSet(f, S)
      BY <1>11, <2>1, SumSubset
    <2>5. SumFunctionOnSet(f, R) \in Nat /\ SumFunctionOnSet(f, S) \in Nat /\ SumFunctionOnSet(f, U) \in Nat
      BY <1>11, <2>1, <2>2, <2>3, SumNat
    <2> QED
      BY <1>11, <1>13, <2>4, <2>5
  <1>16. LeftIn(M, i) >= 0 /\ Size(M, i) \in Nat
    BY <1>1, <1>10 DEF ListInv, ReturnsFit, Original, Is, SourceTypes
  <1>17. Size(M, i) - Sizes(M, S) >= 0
    BY <1>5, <1>16 DEF LeftIn
  <1>18. Sizes(M, A) - Sizes(M, K) \in 0 .. Size(M, i)
    BY <1>9, <1>14, <1>15, <1>16, <1>17
  <1> QED
    <2>1. Units(i) = Size(M, i)
      BY <1>7
    <2> QED
      BY <1>8, <1>18, <2>1
-----------------------------------------------------------------------------
(* Every step writes rows the services have checked.                        *)
LEMMA RowIs ==
  ASSUME NEW type \in InTypes \cup OutTypes, NEW w \in Warehouse, NEW q \in Nat, q # 0, NEW d \in Nat,
         NEW cost, NEW temporary, NEW src \in Nat, NEW row, row = Row(type, w, q, d, cost, temporary, src)
  PROVE  /\ row.type = type /\ row.src = src /\ Absolute(row.quantity) = q
         /\ row.warehouse = w /\ row.day = d
         /\ \A n \in Nat : src < n => RowOK(row, n)
  <1>1. /\ row.type = type /\ row.src = src /\ row.quantity = (IF type \in InTypes THEN q ELSE -q)
        /\ row.warehouse = w /\ row.day = d
    BY DEF Row
  <1>2. /\ type \in InTypes => row.quantity = q
        /\ type \notin InTypes => row.quantity = -q
    BY <1>1
  <1>3. /\ row.quantity \in Int /\ row.quantity # 0 /\ (row.quantity > 0 <=> type \in InTypes)
        /\ Absolute(row.quantity) = q
    BY <1>2 DEF Absolute
  <1> QED
    BY <1>1, <1>3 DEF RowOK

LEMMA RefIs ==
  ASSUME NEW row, NEW ref, NEW type, NEW w, NEW q, NEW d, NEW cost, NEW temporary, NEW src,
         row = [Row(type, w, q, d, cost, temporary, src) EXCEPT !.ref = ref]
  PROVE  LET r == Row(type, w, q, d, cost, temporary, src)
         IN /\ row.type = r.type /\ row.src = r.src /\ row.quantity = r.quantity
            /\ row.warehouse = r.warehouse /\ row.day = r.day
  BY DEF Row

LEMMA Inputs ==
  /\ \A d \in Day : d \in Nat
  /\ \A q \in Quantity : q \in Nat /\ q # 0
  BY StockAssumption

\* A movement of its own needs no leave.
LEMMA FreshMay ==
  ASSUME NEW M, NEW row, RowOK(row, Len(M) + 1), row.src = 0,
         row.type \notin ReturnTypes, row.type # "TRANSFER_IN"
  PROVE  May(M, row)
  BY DEF May, Kind

\* A purchase is received, or one or two other rows are written.
Receipt(row) == row.type = "PURCHASE_RECEIPT" /\ row.src = 0

Received(w, q) ==
  \E row : /\ Longer(moves, moves', row) /\ May(moves, row) /\ Receipt(row)
           /\ row.warehouse = w /\ row.quantity = q
Written ==
  /\ \E row : Longer(moves, moves', row) /\ May(moves, row) /\ ~Receipt(row)
  /\ links' = links
WrittenTwo ==
  /\ \E N, a, b : /\ Longer(moves, N, a) /\ May(moves, a) /\ ~Receipt(a)
                  /\ Longer(N, moves', b) /\ May(N, b) /\ ~Receipt(b)
  /\ links' = links

LEMMA MoveWrites ==
  ASSUME ListInv(moves), NEW row, moves' = Append(moves, row), May(moves, row),
         ~Receipt(row), links' = links
  PROVE  Written
  <1>1. Longer(moves, Append(moves, row), row)
    BY AppendIsLonger DEF ListInv
  <1> QED
    BY <1>1 DEF Written

LEMMA LengthIs == ListInv(moves) => /\ Len(moves) \in Nat /\ Len(moves) + 1 \in Nat
                                    /\ DOMAIN moves = 1 .. Len(moves)
                                    /\ \A i \in DOMAIN moves : i \in Nat /\ i # 0 /\ i < Len(moves) + 1
  BY DEF ListInv, IsList

FreshTypes == (InTypes \cup OutTypes) \ (ReturnTypes \cup {"TRANSFER_IN"})

LEMMA FreshWrites ==
  ASSUME ListInv(moves), NEW type \in FreshTypes,
         NEW w \in Warehouse, NEW q \in Quantity, NEW d \in Day, NEW cost, NEW temporary,
         Move(type, w, q, d, cost, temporary, 0)
  PROVE  /\ type = "PURCHASE_RECEIPT" => Received(w, q)
         /\ type # "PURCHASE_RECEIPT" /\ links' = links => Written
  <1>1. PICK row : row = Row(type, w, q, d, cost, temporary, 0)
    OBVIOUS
  <1>2. type \in InTypes \cup OutTypes /\ type \notin ReturnTypes /\ type # "TRANSFER_IN"
    BY DEF FreshTypes
  <1>3. RowOK(row, Len(moves) + 1) /\ row.type = type /\ row.src = 0
    BY <1>1, <1>2, RowIs, LengthIs, Inputs
  <1>4. May(moves, row)
    BY <1>2, <1>3, FreshMay
  <1>5. moves' = Append(moves, row)
    BY <1>1 DEF Move
  <1>6. type # "PURCHASE_RECEIPT" /\ links' = links => Written
    BY <1>3, <1>4, <1>5, MoveWrites DEF Receipt
  <1>7. ASSUME type = "PURCHASE_RECEIPT" PROVE Received(w, q)
    <2>1. Longer(moves, moves', row)
      BY <1>5, AppendIsLonger DEF ListInv
    <2>2. row.warehouse = w /\ row.quantity = q
      BY <1>1, <1>7 DEF Row, InTypes
    <2> QED
      BY <1>3, <1>4, <1>7, <2>1, <2>2 DEF Received, Receipt
  <1> QED
    BY <1>6, <1>7

\* A purchase as it is written.
Bought ==
  \E w \in Warehouse, q \in Quantity, d \in Day, total \in Total :
    Purchase(w, q, total, d) /\ Received(w, q)

LEMMA InboundWrites == ListInv(moves) /\ InboundStep => Bought \/ Written
  <1> SUFFICES ASSUME ListInv(moves), InboundStep PROVE Bought \/ Written
    OBVIOUS
  <1>1. PICK w \in Warehouse, q \in Quantity, d \in Day :
          \/ \E total \in Total : Purchase(w, q, total, d)
          \/ \E cost \in Cost : OpenStock(w, q, cost, d) \/ AdjustIn(w, q, cost, d)
    BY DEF InboundStep
  <1>2. {"PURCHASE_RECEIPT", "OPENING", "ADJUSTMENT_IN"} \subseteq FreshTypes
    BY DEF FreshTypes, InTypes, ReturnTypes
  <1>3. ASSUME NEW total \in Total, Purchase(w, q, total, d) PROVE Bought
    <2>1. \E cost : Move("PURCHASE_RECEIPT", w, q, d, cost, FALSE, 0)
      BY <1>3 DEF Purchase
    <2>2. Received(w, q)
      BY <1>2, <2>1, FreshWrites
    <2> QED
      BY <1>3, <2>2 DEF Bought
  <1>4. ASSUME NEW cost \in Cost, OpenStock(w, q, cost, d) PROVE Written
    <2>1. Move("OPENING", w, q, d, cost, FALSE, 0) /\ links' = links
      BY <1>4 DEF OpenStock, Unlinked
    <2> QED
      BY <1>2, <2>1, FreshWrites
  <1>5. ASSUME NEW cost \in Cost, AdjustIn(w, q, cost, d) PROVE Written
    <2>1. Move("ADJUSTMENT_IN", w, q, d, cost, FALSE, 0) /\ links' = links
      BY <1>5 DEF AdjustIn, Unlinked
    <2> QED
      BY <1>2, <2>1, FreshWrites
  <1> QED
    BY <1>1, <1>3, <1>4, <1>5

LEMMA SellFromTwoWrites ==
  ASSUME ListInv(moves), NEW v \in Warehouse, NEW w \in Warehouse, NEW p \in Quantity, NEW q \in Quantity,
         NEW d \in Day, NEW costV, NEW costW, SellFromTwo(v, w, p, q, d, costV, costW)
  PROVE  WrittenTwo
  <1>1. PICK a : a = Row("SALES_ISSUE", v, p, d, costV, Below(v, p), 0)
    OBVIOUS
  <1>2. PICK b : b = Row("SALES_ISSUE", w, q, d, costW, Below(w, q), 0)
    OBVIOUS
  <1>3. moves' = moves \o <<a, b>> /\ links' = links
    BY <1>1, <1>2 DEF SellFromTwo, Unlinked
  <1>4. PICK N : Longer(moves, N, a) /\ Longer(N, moves', b)
    BY <1>3, TwoAreLonger DEF ListInv
  <1>5. "SALES_ISSUE" \in InTypes \cup OutTypes /\ "SALES_ISSUE" \notin ReturnTypes
    BY DEF OutTypes, ReturnTypes
  <1>6. Len(moves) \in Nat /\ Len(N) = Len(moves) + 1 /\ Len(moves) + 1 \in Nat /\ Len(N) + 1 \in Nat
        /\ 0 < Len(moves) + 1 /\ 0 < Len(N) + 1
    BY <1>4, LengthIs DEF Longer
  <1>7. RowOK(a, Len(moves) + 1) /\ a.type = "SALES_ISSUE" /\ a.src = 0
    BY <1>1, <1>5, <1>6, RowIs, Inputs
  <1>8. RowOK(b, Len(N) + 1) /\ b.type = "SALES_ISSUE" /\ b.src = 0
    BY <1>2, <1>5, <1>6, RowIs, Inputs
  <1>9. May(moves, a) /\ May(N, b)
    BY <1>5, <1>7, <1>8, FreshMay
  <1> QED
    BY <1>3, <1>4, <1>7, <1>8, <1>9 DEF WrittenTwo, Receipt

LEMMA TransferWrites ==
  ASSUME ListInv(moves), NEW v \in Warehouse, NEW w \in Warehouse, NEW q \in Quantity,
         NEW d \in Day, NEW cost, NEW ref, Transfer(v, w, q, d, cost, ref)
  PROVE  WrittenTwo
  <1>1. PICK a : a = [Row("TRANSFER_OUT", v, q, d, cost, Below(v, q), 0) EXCEPT !.ref = ref]
    OBVIOUS
  <1>2. PICK b : b = [Row("TRANSFER_IN", w, q, d, cost, Below(v, q), Len(moves) + 1) EXCEPT !.ref = ref]
    OBVIOUS
  <1>3. moves' = moves \o <<a, b>> /\ links' = links
    BY <1>1, <1>2 DEF Transfer, Unlinked
  <1>4. PICK N : Longer(moves, N, a) /\ Longer(N, moves', b)
    BY <1>3, TwoAreLonger DEF ListInv
  <1>5. /\ "TRANSFER_OUT" \in InTypes \cup OutTypes /\ "TRANSFER_OUT" \notin ReturnTypes
        /\ "TRANSFER_IN" \in InTypes \cup OutTypes /\ "TRANSFER_IN" \notin ReturnTypes \cup SourceTypes
    BY DEF InTypes, OutTypes, ReturnTypes, SourceTypes
  <1>6. Len(moves) \in Nat /\ Len(N) = Len(moves) + 1 /\ Len(moves) + 1 \in Nat /\ Len(N) + 1 \in Nat
        /\ 0 < Len(moves) + 1 /\ Len(moves) + 1 < Len(N) + 1
    BY <1>4, LengthIs DEF Longer
  <1>7. RowOK(a, Len(moves) + 1) /\ a.type = "TRANSFER_OUT" /\ a.src = 0
    <2>1. PICK r : r = Row("TRANSFER_OUT", v, q, d, cost, Below(v, q), 0)
      OBVIOUS
    <2>2. RowOK(r, Len(moves) + 1) /\ r.type = "TRANSFER_OUT" /\ r.src = 0
      BY <2>1, <1>5, <1>6, RowIs, Inputs
    <2>3. a.type = r.type /\ a.src = r.src /\ a.quantity = r.quantity /\ a.warehouse = r.warehouse /\ a.day = r.day
      BY <1>1, <2>1, RefIs
    <2> QED
      BY <2>2, <2>3 DEF RowOK
  <1>8. RowOK(b, Len(N) + 1) /\ b.type = "TRANSFER_IN" /\ b.src = Len(moves) + 1
    <2>1. PICK r : r = Row("TRANSFER_IN", w, q, d, cost, Below(v, q), Len(moves) + 1)
      OBVIOUS
    <2>2. RowOK(r, Len(N) + 1) /\ r.type = "TRANSFER_IN" /\ r.src = Len(moves) + 1
      BY <2>1, <1>5, <1>6, RowIs, Inputs
    <2>3. b.type = r.type /\ b.src = r.src /\ b.quantity = r.quantity /\ b.warehouse = r.warehouse /\ b.day = r.day
      BY <1>2, <2>1, RefIs
    <2> QED
      BY <2>2, <2>3 DEF RowOK
  <1>9. May(moves, a)
    BY <1>5, <1>7, FreshMay
  <1>10. Len(moves) + 1 \in DOMAIN N /\ N[Len(moves) + 1] = a
    BY <1>4, <1>6, Domains DEF Longer, IsList
  <1>11. May(N, b)
    BY <1>5, <1>7, <1>8, <1>10 DEF May, Kind
  <1> QED
    BY <1>3, <1>4, <1>7, <1>8, <1>9, <1>11 DEF WrittenTwo, Receipt

LEMMA OutboundWrites == ListInv(moves) /\ OutboundStep => Written \/ WrittenTwo
  <1> SUFFICES ASSUME ListInv(moves), OutboundStep PROVE Written \/ WrittenTwo
    OBVIOUS
  <1>1. PICK w \in Warehouse, q \in Quantity, d \in Day : \E cost \in IssueCosts(w, q) :
          \/ Sell(w, q, d, cost)
          \/ \E v \in Warehouse, p \in Quantity : \E other \in IssueCosts(v, p) :
               SellFromTwo(w, v, q, p, d, cost, other)
          \/ \E v \in Warehouse, ref \in TransferNames : Transfer(w, v, q, d, cost, ref)
          \/ \E type \in {"ADJUSTMENT_OUT", "SHORTAGE"} : TakeOut(type, w, q, d, cost)
    BY DEF OutboundStep
  <1>2. {"SALES_ISSUE", "ADJUSTMENT_OUT", "SHORTAGE"} \subseteq FreshTypes
    BY DEF FreshTypes, OutTypes, ReturnTypes
  <1>3. ASSUME NEW cost, Sell(w, q, d, cost) PROVE Written
    <2>1. (\E t : Move("SALES_ISSUE", w, q, d, cost, t, 0)) /\ links' = links
      BY <1>3 DEF Sell, Unlinked
    <2> QED
      BY <1>2, <2>1, FreshWrites
  <1>4. ASSUME NEW cost, NEW type \in {"ADJUSTMENT_OUT", "SHORTAGE"}, TakeOut(type, w, q, d, cost)
        PROVE  Written
    <2>1. (\E t : Move(type, w, q, d, cost, t, 0)) /\ links' = links
      BY <1>4 DEF TakeOut, Unlinked
    <2> QED
      BY <1>2, <2>1, FreshWrites
  <1>5. ASSUME NEW cost, NEW v \in Warehouse, NEW p \in Quantity, NEW other, SellFromTwo(w, v, q, p, d, cost, other)
        PROVE  WrittenTwo
    BY <1>5, SellFromTwoWrites
  <1>6. ASSUME NEW cost, NEW v \in Warehouse, NEW ref, Transfer(w, v, q, d, cost, ref)
        PROVE  WrittenTwo
    BY <1>6, TransferWrites
  <1> QED
    BY <1>1, <1>3, <1>4, <1>5, <1>6
\* The list's words are the model's.
LEMMA ListIs ==
  ASSUME NEW i
  PROVE  /\ Units(i) = Size(moves, i) /\ Returnable(i) = LeftIn(moves, i)
         /\ UndoneIn(moves, i) <=> Reversed(i)
  <1>1. \A j : Units(j) = Size(moves, j)
    BY DEF Units, Size
  <1>2. \A j : UndoneIn(moves, j) <=> Reversed(j)
    BY DEF UndoneIn, Reversed, SourceTypes
  <1>3. {j \in ReturnsOf(i) : ~(Is(j, "SALES_RETURN") /\ Reversed(j))} = StandingIn(moves, i)
    BY <1>2 DEF ReturnsOf, Is, StandingIn, BackIn, ReturnTypes
  <1>4. SumOf(StandingIn(moves, i), Units) = Sizes(moves, StandingIn(moves, i))
    BY <1>1 DEF SumOf, Sizes
  <1> QED
    BY <1>1, <1>2, <1>3, <1>4 DEF Returnable, LeftIn

LEMMA RowsTyped ==
  ASSUME ListInv(moves), NEW i \in DOMAIN moves
  PROVE  /\ moves[i].warehouse \in Warehouse /\ moves[i].day \in Nat /\ RowOK(moves[i], i)
         /\ Units(i) \in Nat /\ Units(i) # 0
         /\ i \in Nat /\ i < Len(moves) + 1 /\ i # 0 /\ Len(moves) + 1 \in Nat
  <1>1. Units(i) = Size(moves, i)
    BY ListIs
  <1>2. RowsStand(moves)
    BY DEF ListInv
  <1>3. RowOK(moves[i], i)
    BY <1>2 DEF RowsStand
  <1>4. moves[i].warehouse \in Warehouse /\ moves[i].day \in Nat
    BY <1>3 DEF RowOK
  <1>5. Units(i) \in Nat /\ Units(i) # 0
    BY <1>1, <1>2, SizeIs
  <1> QED
    BY <1>3, <1>4, <1>5, LengthIs

LEMMA ReturnWrites ==
  ASSUME ListInv(moves), NEW i \in DOMAIN moves, NEW q \in Quantity, NEW d \in Day,
         ReturnPurchase(i, q, d) \/ ReturnSale(i, q, d)
  PROVE  Written
  <1>0. links' = links
    BY DEF ReturnPurchase, ReturnSale, Unlinked
  <1>1. PICK type, cost, temporary :
          /\ \/ type = "PURCHASE_RETURN" /\ moves[i].type = "PURCHASE_RECEIPT"
             \/ type = "SALES_RETURN" /\ moves[i].type = "SALES_ISSUE"
          /\ moves[i].src = 0 /\ q <= Returnable(i)
          /\ Move(type, moves[i].warehouse, q, d, cost, temporary, i)
    BY DEF ReturnPurchase, ReturnSale, Original, Is
  <1>2. PICK row : row = Row(type, moves[i].warehouse, q, d, cost, temporary, i)
    OBVIOUS
  <1>3. type \in InTypes \cup OutTypes /\ type \in ReturnTypes /\ type \notin SourceTypes
    BY <1>1 DEF InTypes, OutTypes, ReturnTypes, SourceTypes
  <1>4. /\ RowOK(row, Len(moves) + 1) /\ row.type = type /\ row.src = i /\ Absolute(row.quantity) = q
    BY <1>2, <1>3, RowsTyped, RowIs, Inputs
  <1>5. Returns(row, moves[i])
    BY <1>1, <1>4 DEF Returns
  <1>6. Absolute(row.quantity) <= LeftIn(moves, i)
    BY <1>1, <1>4, ListIs
  <1>7. May(moves, row)
    BY <1>3, <1>4, <1>5, <1>6 DEF May, Kind
  <1> QED
    BY <1>0, <1>1, <1>2, <1>4, <1>7, MoveWrites DEF Move, Receipt

\* A return is taken back whole, once.
Undoes(i, type, d, cost, temporary) ==
  /\ \/ type = "PURCHASE_RECEIPT" /\ moves[i].type = "PURCHASE_RETURN"
     \/ type = "SALES_ISSUE" /\ moves[i].type = "SALES_RETURN"
  /\ ~Reversed(i)
  /\ Move(type, moves[i].warehouse, Units(i), d, cost, temporary, i)

LEMMA UndoWrites ==
  ASSUME ListInv(moves), NEW i \in DOMAIN moves,
         ReversePurchaseReturn(i) \/ \E d \in Day : ReverseSalesReturn(i, d)
  PROVE  Written
  <1>1. links' = links
    BY DEF ReversePurchaseReturn, ReverseSalesReturn, Unlinked
  <1>2. PICK type, cost, temporary, d : d \in Nat /\ Undoes(i, type, d, cost, temporary)
    <2>1. CASE ReversePurchaseReturn(i)
      <3>1. Undoes(i, "PURCHASE_RECEIPT", moves[i].day, moves[i].cost, FALSE) /\ moves[i].day \in Nat
        BY <2>1, RowsTyped DEF ReversePurchaseReturn, Is, Undoes
      <3> QED
        BY <3>1
    <2>2. CASE \E d \in Day : ReverseSalesReturn(i, d)
      <3>1. PICK d \in Day : ReverseSalesReturn(i, d)
        BY <2>2
      <3>2. Undoes(i, "SALES_ISSUE", d, moves[i].cost, moves[i].temporary) /\ d \in Nat
        BY <3>1, Inputs DEF ReverseSalesReturn, Is, Undoes
      <3> QED
        BY <3>2
    <2> QED
      BY <2>1, <2>2
  <1>3. /\ \/ type = "PURCHASE_RECEIPT" /\ moves[i].type = "PURCHASE_RETURN"
           \/ type = "SALES_ISSUE" /\ moves[i].type = "SALES_RETURN"
        /\ ~Reversed(i)
        /\ Move(type, moves[i].warehouse, Units(i), d, cost, temporary, i)
    BY <1>2 DEF Undoes
  <1>4. PICK row : row = Row(type, moves[i].warehouse, Units(i), d, cost, temporary, i)
    OBVIOUS
  <1>5. type \in InTypes \cup OutTypes /\ type \notin ReturnTypes
    BY <1>3 DEF InTypes, OutTypes, ReturnTypes
  <1>6. /\ RowOK(row, Len(moves) + 1) /\ row.type = type /\ row.src = i /\ Absolute(row.quantity) = Units(i)
    BY <1>2, <1>4, <1>5, RowsTyped, RowIs
  <1>7. TakesBack(row, moves[i])
    BY <1>3, <1>6 DEF TakesBack, Units
  <1>8. row.src # 0
    BY <1>6, RowsTyped
  <1>9. ~UndoneIn(moves, i)
    BY <1>3, ListIs
  <1>10. May(moves, row)
    BY <1>5, <1>6, <1>7, <1>9 DEF May, Kind
  <1> QED
    BY <1>3, <1>4, <1>6, <1>10, <1>8, <1>1, MoveWrites DEF Move, Receipt

LEMMA StepWrites ==
  ASSUME ListInv(moves), [Next]_vars
  PROVE  Bought \/ Written \/ WrittenTwo \/ UNCHANGED <<moves, links>>
  <1>1. CASE InboundStep
    BY <1>1, InboundWrites
  <1>2. CASE OutboundStep
    BY <1>2, OutboundWrites
  <1>3. CASE ReturnStep
    <2>1. PICK i \in DOMAIN moves :
            \/ \E q \in Quantity, d \in Day : ReturnPurchase(i, q, d) \/ ReturnSale(i, q, d)
            \/ \E d \in Day : ReverseSalesReturn(i, d)
            \/ ReversePurchaseReturn(i)
            \/ SettleShortage(i)
      BY <1>3 DEF ReturnStep
    <2>2. SettleShortage(i) => UNCHANGED <<moves, links>>
      BY DEF SettleShortage
    <2> QED
      BY <2>1, <2>2, ReturnWrites, UndoWrites
  <1>4. CASE UNCHANGED vars
    BY <1>4 DEF vars
  <1> QED
    BY <1>1, <1>2, <1>3, <1>4 DEF Next, StockStep

LEMMA ListStep == ListInv(moves) /\ [Next]_vars => ListInv(moves)'
  <1> SUFFICES ASSUME ListInv(moves), [Next]_vars PROVE ListInv(moves')
    OBVIOUS
  <1>1. CASE Written
    BY <1>1, ListKeeps DEF Written
  <1>2. CASE WrittenTwo
    BY <1>2, ListKeeps DEF WrittenTwo
  <1>3. CASE Bought
    BY <1>3, ListKeeps DEF Bought, Received
  <1> QED
    BY <1>1, <1>2, <1>3, StepWrites

LEMMA ListInit == Init => ListInv(moves)
  BY DEF Init, ListInv, IsList, RowsStand, UndoneOnce, ReturnsFit
-----------------------------------------------------------------------------
(* First come, first served.                                                *)

\* b[i] are the members of S before i, in a strict total order.
Queue(S, b) ==
  /\ IsFiniteSet(S)
  /\ \A i \in S : b[i] \subseteq S /\ i \notin b[i]
  /\ \A i \in S : \A j \in b[i] : b[j] \subseteq b[i]
  /\ \A i, j \in S : i # j => i \in b[j] \/ j \in b[i]

LEMMA LastOfQueue ==
  ASSUME NEW S, NEW b, Queue(S, b), S # {}
  PROVE  \E m \in S : b[m] = S \ {m}
  <1> DEFINE after(i) == S \ b[i]
             T == {Cardinality(after(i)) : i \in S}
  <1>0. /\ IsFiniteSet(S)
        /\ \A i \in S : b[i] \subseteq S /\ i \notin b[i]
        /\ \A i \in S : \A j \in b[i] : b[j] \subseteq b[i]
        /\ \A i, j \in S : i # j => i \in b[j] \/ j \in b[i]
    BY DEF Queue
  <1>1. \A i \in S : IsFiniteSet(after(i)) /\ Cardinality(after(i)) \in Nat
    BY <1>0, FS_Difference, FS_CardinalityType
  <1>2. T \in SUBSET Nat /\ T # {}
    BY <1>1
  <1>3. PICK m \in S : \A i \in S : Cardinality(after(m)) <= Cardinality(after(i))
    <2>1. PICK n \in T : \A k \in T : n <= k
      BY <1>2, LeastNatural
    <2> QED
      BY <2>1
  <1>4. ASSUME NEW i \in S, i # m, i \notin b[m] PROVE FALSE
    <2>1. m \in b[i] /\ b[m] \subseteq b[i] /\ m \notin b[m]
      BY <1>0, <1>4
    <2>2. after(i) \subseteq after(m) /\ after(i) # after(m)
      BY <2>1
    <2> HIDE DEF after
    <2>3. Cardinality(after(i)) < Cardinality(after(m))
      BY <1>1, <2>2, FS_Subset
    <2> QED
      BY <1>1, <1>3, <2>3
  <1> QED
    BY <1>0, <1>4

\* What each in the queue is given of q: what is left after those before it,
\* and no more than it wants.
Serves(S, b, f, q, c) ==
  /\ q \in Nat
  /\ \A i \in S : f[i] \in Nat /\ c[i] \in Nat
  /\ \A i \in S : LET left == q - SumFunctionOnSet(f, b[i])
                  IN c[i] = IF left <= 0 THEN 0 ELSE IF left <= f[i] THEN left ELSE f[i]

Least(x, y) == IF x <= y THEN x ELSE y

LEMMA ServedInFull ==
  ASSUME NEW S, NEW b, Queue(S, b), NEW f, NEW q, NEW c, Serves(S, b, f, q, c)
  PROVE  SumFunctionOnSet(c, S) = Least(q, SumFunctionOnSet(f, S))
  <1> DEFINE Right(D) == SumFunctionOnSet(c, D) = Least(q, SumFunctionOnSet(f, D))
             Bad == {n \in Nat : \E D \in SUBSET S : Queue(D, b) /\ Cardinality(D) = n /\ ~Right(D)}
  <1>0. IsFiniteSet(S)
    BY DEF Queue
  <1>1. ASSUME NEW D \in SUBSET S, Queue(D, b), ~Right(D),
               \A k \in Bad : Cardinality(D) <= k
        PROVE  FALSE
    <2>1. CASE D = {}
      <3>1. SumFunctionOnSet(c, D) = 0 /\ SumFunctionOnSet(f, D) = 0
        BY <2>1, SumEmpty
      <3> QED
        BY <1>1, <3>1 DEF Serves, Least
    <2>2. CASE D # {}
      <3>1. PICK m \in D : b[m] = D \ {m}
        BY <1>1, <2>2, LastOfQueue
      <3>2. PICK E : E = D \ {m}
        OBVIOUS
      <3>3. Queue(E, b)
        <4>1. IsFiniteSet(D) /\ IsFiniteSet(E) /\ \A i \in E : i \in D /\ i \in b[m]
          BY <1>1, <3>1, <3>2, FS_Subset DEF Queue
        <4>2. \A i \in E : b[i] \subseteq E /\ i \notin b[i]
          BY <1>1, <3>1, <3>2, <4>1 DEF Queue
        <4> QED
          BY <1>1, <3>2, <4>1, <4>2 DEF Queue
      <3>4. IsFiniteSet(D) /\ IsFiniteSet(E) /\ Cardinality(E) \in Nat /\ Cardinality(E) < Cardinality(D)
        <4>1. IsFiniteSet(D)
          BY <1>1 DEF Queue
        <4> QED
          BY <3>2, <4>1, Smaller
      <3>5. Right(E)
        <4>1. E \in SUBSET S
          BY <3>2
        <4>2. ~Right(E) => Cardinality(E) \in Bad
          BY <3>3, <3>4, <4>1
        <4>3. Cardinality(D) \in Nat
          BY <3>4, FS_CardinalityType
        <4> QED
          BY <1>1, <3>4, <4>2, <4>3
      <3>6. /\ \A i \in D : f[i] \in Nat /\ c[i] \in Nat
            /\ q \in Nat /\ f[m] \in Nat /\ c[m] \in Nat
        BY DEF Serves
      <3>7. /\ SumFunctionOnSet(f, D) = f[m] + SumFunctionOnSet(f, E)
            /\ SumFunctionOnSet(c, D) = c[m] + SumFunctionOnSet(c, E)
        <4>1. IntOn(f, D) /\ IntOn(c, D)
          BY <3>6 DEF IntOn
        <4> QED
          BY <3>2, <3>4, <4>1, SumRemove
      <3>8. SumFunctionOnSet(f, E) \in Nat /\ SumFunctionOnSet(c, E) \in Nat
        BY <3>2, <3>4, <3>6, SumNat
      <3>9. c[m] = LET left == q - SumFunctionOnSet(f, E)
                   IN IF left <= 0 THEN 0 ELSE IF left <= f[m] THEN left ELSE f[m]
        BY <3>1, <3>2 DEF Serves
      <3>10. SumFunctionOnSet(c, E) = Least(q, SumFunctionOnSet(f, E))
        BY <3>5
      <3>11. SumFunctionOnSet(c, D) = Least(q, SumFunctionOnSet(f, D))
        BY <3>6, <3>7, <3>8, <3>9, <3>10 DEF Least
      <3> QED
        BY <1>1, <3>11
    <2> QED
      BY <2>1, <2>2
  <1>2. CASE Right(S)
    BY <1>2
  <1>3. CASE ~Right(S)
    <2>1. Cardinality(S) \in Bad /\ Bad \in SUBSET Nat
      BY <1>0, <1>3, FS_CardinalityType
    <2>2. PICK n \in Bad : \A k \in Bad : n <= k
      BY <2>1, LeastNatural
    <2>3. PICK D \in SUBSET S : Queue(D, b) /\ Cardinality(D) = n /\ ~Right(D)
      BY <2>2
    <2> HIDE DEF Bad, Right
    <2> QED
      BY <1>1, <2>2, <2>3
  <1> QED
    BY <1>2, <1>3

\* Who is before someone served wants nothing more.
LEMMA ServedInTurn ==
  ASSUME NEW S, NEW b, Queue(S, b), NEW f, NEW q, NEW c, Serves(S, b, f, q, c),
         NEW j \in S, c[j] > 0, NEW i \in b[j]
  PROVE  c[i] = f[i]
  <1>1. /\ i \in S /\ b[i] \subseteq b[j] /\ i \notin b[i] /\ b[j] \subseteq S
        /\ IsFiniteSet(b[i]) /\ IsFiniteSet(b[j])
    BY FS_Subset DEF Queue
  <1>2. PICK B : B = b[i] \cup {i}
    OBVIOUS
  <1>3. B \subseteq b[j]
    BY <1>1, <1>2
  <1>4. /\ \A x \in S : f[x] \in Nat
        /\ q \in Nat /\ f[i] \in Nat /\ f[j] \in Nat
    BY <1>1 DEF Serves
  <1>5. SumFunctionOnSet(f, B) = f[i] + SumFunctionOnSet(f, b[i])
    BY <1>1, <1>2, <1>4, SumAdd DEF IntOn
  <1>6. SumFunctionOnSet(f, B) <= SumFunctionOnSet(f, b[j])
    BY <1>1, <1>3, <1>4, SumSubset
  <1>7. /\ SumFunctionOnSet(f, b[i]) \in Nat /\ SumFunctionOnSet(f, b[j]) \in Nat
    BY <1>1, <1>4, SumNat
  <1>8. q - SumFunctionOnSet(f, b[j]) > 0
    <2>1. PICK x \in Int : x = q - SumFunctionOnSet(f, b[j])
      BY <1>4, <1>7
    <2>2. c[j] = IF x <= 0 THEN 0 ELSE IF x <= f[j] THEN x ELSE f[j]
      BY <2>1 DEF Serves
    <2> QED
      BY <1>4, <2>1, <2>2
  <1>9. c[i] = LET left == q - SumFunctionOnSet(f, b[i])
               IN IF left <= 0 THEN 0 ELSE IF left <= f[i] THEN left ELSE f[i]
    BY <1>1 DEF Serves
  <1> QED
    BY <1>4, <1>5, <1>6, <1>7, <1>8, <1>9
-----------------------------------------------------------------------------
(* What receipts gave the obligations.                                      *)
Amounts(L) == [l \in L |-> l.quantity]
Given(L, i) == SumFunctionOnSet(Amounts(L), {l \in L : l.issue = i})

\* Every link leads from an issue to a receipt, and no issue was given more
\* than it moved.
LinksFit(M, L) ==
  /\ IsFiniteSet(L)
  /\ \A l \in L : l.issue \in DOMAIN M /\ l.receipt \in DOMAIN M /\ l.quantity \in Nat
  /\ \A i \in DOMAIN M : Given(L, i) <= Size(M, i)

LEMMA SumOfLinks ==
  ASSUME NEW L, NEW S \in SUBSET L, IsFiniteSet(S)
  PROVE  SumOf(S, LAMBDA l : l.quantity) = SumFunctionOnSet(Amounts(L), S)
  <1>1. PICK e : e = [l \in S |-> l.quantity]
    OBVIOUS
  <1>2. PICK f : f = Amounts(L)
    OBVIOUS
  <1>3. \A l \in S : e[l] = f[l]
    BY <1>1, <1>2 DEF Amounts
  <1>4. SumFunctionOnSet(e, S) = SumFunctionOnSet(f, S)
    BY <1>3, SumAgree
  <1> QED
    BY <1>1, <1>2, <1>4 DEF SumOf

LEMMA GivenIs ==
  ASSUME NEW L, IsFiniteSet(L), \A l \in L : l.quantity \in Nat, NEW i
  PROVE  /\ SumOf({l \in L : l.issue = i}, LAMBDA l : l.quantity) = Given(L, i)
         /\ Given(L, i) \in Nat
  <1>1. PICK S : S = {l \in L : l.issue = i}
    OBVIOUS
  <1>2. S \in SUBSET L /\ IsFiniteSet(S)
    BY <1>1, FS_Subset
  <1>3. SumOf(S, LAMBDA l : l.quantity) = SumFunctionOnSet(Amounts(L), S)
    BY <1>2, SumOfLinks
  <1>4. PICK f : f = Amounts(L)
    OBVIOUS
  <1>5. \A l \in S : f[l] \in Nat
    BY <1>2, <1>4 DEF Amounts
  <1>6. SumFunctionOnSet(f, S) \in Nat
    BY <1>2, <1>5, SumNat
  <1> QED
    BY <1>1, <1>3, <1>4, <1>6 DEF Given

\* A new movement was given nothing yet.
LEMMA LinksStay ==
  ASSUME NEW M, NEW N, NEW row, Longer(M, N, row), RowsStand(N), NEW L, LinksFit(M, L)
  PROVE  LinksFit(N, L)
  <1>1. PICK n : n = Len(M) + 1
    OBVIOUS
  <1>2. /\ DOMAIN N = DOMAIN M \cup {n} /\ n \notin DOMAIN M
        /\ \A i \in DOMAIN M : N[i] = M[i]
    BY <1>1, Domains
  <1>3. {l \in L : l.issue = n} = {}
    BY <1>2 DEF LinksFit
  <1>4. Given(L, n) = 0
    BY <1>3, SumEmpty DEF Given
  <1>5. Size(N, n) \in Nat
    BY <1>2, SizeIs
  <1>6. \A i \in DOMAIN M : Size(N, i) = Size(M, i)
    BY <1>2 DEF Size
  <1>7. \A i \in DOMAIN N : Given(L, i) <= Size(N, i)
    <2> SUFFICES ASSUME NEW i \in DOMAIN N PROVE Given(L, i) <= Size(N, i)
      OBVIOUS
    <2>1. CASE i = n
      BY <1>4, <1>5, <2>1
    <2>2. CASE i \in DOMAIN M
      BY <1>6, <2>2 DEF LinksFit
    <2> QED
      BY <1>2, <2>1, <2>2
  <1> QED
    BY <1>2, <1>7 DEF LinksFit

\* The links of receipt n, which gives every i of S its c[i].
Gifts(S, c, n) == {[issue |-> i, receipt |-> n, quantity |-> c[i]] : i \in {j \in S : c[j] > 0}}

GiftsFit(L, S, c, n) ==
  /\ IsFiniteSet(L) /\ \A l \in L : l.quantity \in Nat /\ l.receipt # n
  /\ IsFiniteSet(S) /\ \A i \in S : c[i] \in Nat

GiftsGiven(L, K, S, c, n) ==
  /\ IsFiniteSet(K) /\ \A l \in K : l.quantity \in Nat
  /\ \A i : Given(K, i) = Given(L, i) + (IF i \in S THEN c[i] ELSE 0)
  /\ SumFunctionOnSet(Amounts(K), {l \in K : l.receipt = n}) = SumFunctionOnSet(c, S)

LEMMA GiftsAdd ==
  ASSUME NEW L, NEW S, NEW c, NEW n, GiftsFit(L, S, c, n)
  PROVE  \A K : K = L \cup Gifts(S, c, n) => GiftsGiven(L, K, S, c, n)
  <1> SUFFICES ASSUME NEW K, K = L \cup Gifts(S, c, n) PROVE GiftsGiven(L, K, S, c, n)
    OBVIOUS
  <1>0. /\ IsFiniteSet(L) /\ \A l \in L : l.quantity \in Nat /\ l.receipt # n
        /\ IsFiniteSet(S) /\ \A i \in S : c[i] \in Nat
    BY DEF GiftsFit
  <1>1. PICK C : C = Gifts(S, c, n)
    OBVIOUS
  <1>2. /\ \A l \in C : l.issue \in S /\ l.receipt = n /\ l.quantity = c[l.issue] /\ l.quantity > 0
                        /\ l = [issue |-> l.issue, receipt |-> n, quantity |-> c[l.issue]]
        /\ \A i \in S : c[i] > 0 => [issue |-> i, receipt |-> n, quantity |-> c[i]] \in C
    BY <1>1 DEF Gifts
  <1>3. IsFiniteSet(C)
    <2>1. PICK P : P = {j \in S : c[j] > 0}
      OBVIOUS
    <2>2. IsFiniteSet(P)
      BY <1>0, <2>1, FS_Subset
    <2>3. PICK make : make = [i \in P |-> [issue |-> i, receipt |-> n, quantity |-> c[i]]]
      OBVIOUS
    <2>4. make \in [P -> C] /\ \A l \in C : \E i \in P : make[i] = l
      BY <1>1, <2>1, <2>3 DEF Gifts
    <2>5. make \in Surjection(P, C)
      BY <2>4 DEF Surjection
    <2> QED
      BY <2>2, <2>5, FS_Surjection
  <1>4. K = L \cup C /\ IsFiniteSet(K) /\ L \cap C = {}
    BY <1>0, <1>1, <1>2, <1>3, FS_Union
  <1>5. \A l \in K : l.quantity \in Nat
    BY <1>0, <1>2, <1>4
  <1>6. PICK f : f = Amounts(K)
    OBVIOUS
  <1>7. \A l \in K : f[l] = l.quantity /\ f[l] \in Nat
    BY <1>5, <1>6 DEF Amounts
  <1>8. \A i : SumFunctionOnSet(f, {l \in C : l.issue = i}) = IF i \in S THEN c[i] ELSE 0
    <2> SUFFICES ASSUME NEW i PROVE SumFunctionOnSet(f, {l \in C : l.issue = i}) = IF i \in S THEN c[i] ELSE 0
      OBVIOUS
    <2>1. CASE i \in S /\ c[i] > 0
      <3>1. PICK x : x = [issue |-> i, receipt |-> n, quantity |-> c[i]]
        OBVIOUS
      <3>2. {l \in C : l.issue = i} = {} \cup {x} /\ x \in K /\ x.quantity = c[i]
        BY <1>2, <1>4, <2>1, <3>1
      <3>3. f[x] = c[i] /\ f[x] \in Int
        BY <1>7, <3>2
      <3>4. IsFiniteSet({}) /\ x \notin {} /\ IntOn(f, {})
        BY FS_EmptySet DEF IntOn
      <3>5. SumFunctionOnSet(f, {} \cup {x}) = f[x] + SumFunctionOnSet(f, {})
        BY ONLY <3>3, <3>4, SumAdd
      <3>6. SumFunctionOnSet(f, {}) = 0
        BY SumEmpty
      <3>7. f[x] + SumFunctionOnSet(f, {}) = c[i]
        BY <3>3, <3>6
      <3> QED
        BY <2>1, <3>2, <3>5, <3>7
    <2>2. CASE ~(i \in S /\ c[i] > 0)
      <3>1. {l \in C : l.issue = i} = {}
        BY <1>2, <2>2
      <3>2. i \in S => c[i] = 0
        BY <1>0, <2>2
      <3> QED
        BY <3>1, <3>2, SumEmpty
    <2> QED
      BY <2>1, <2>2
  <1>9. ASSUME NEW i PROVE Given(K, i) = Given(L, i) + (IF i \in S THEN c[i] ELSE 0)
    <2>1. PICK A : A = {l \in L : l.issue = i}
      OBVIOUS
    <2>2. PICK B : B = {l \in C : l.issue = i}
      OBVIOUS
    <2>3. PICK e : e = Amounts(L)
      OBVIOUS
    <2>4. /\ {l \in K : l.issue = i} = A \cup B /\ A \cap B = {}
          /\ IsFiniteSet(A) /\ IsFiniteSet(B) /\ A \subseteq L /\ A \subseteq K /\ B \subseteq K
      BY <1>0, <1>3, <1>4, <2>1, <2>2, FS_Subset
    <2>5. IntOn(f, A) /\ IntOn(f, B)
      BY <1>7, <2>4 DEF IntOn
    <2>6. SumFunctionOnSet(f, A \cup B) = SumFunctionOnSet(f, A) + SumFunctionOnSet(f, B)
      BY ONLY <2>4, <2>5, SumUnion
    <2>7. \A l \in A : e[l] = f[l]
      BY <1>7, <2>3, <2>4 DEF Amounts
    <2>8. SumFunctionOnSet(e, A) = SumFunctionOnSet(f, A)
      BY <2>4, <2>7, SumAgree
    <2>9. Given(K, i) = SumFunctionOnSet(f, A \cup B) /\ Given(L, i) = SumFunctionOnSet(e, A)
      BY <1>6, <2>1, <2>3, <2>4 DEF Given
    <2>10. SumFunctionOnSet(f, B) = IF i \in S THEN c[i] ELSE 0
      BY <1>8, <2>2
    <2> QED
      BY <2>6, <2>8, <2>9, <2>10
  <1>10. SumFunctionOnSet(f, C) = SumFunctionOnSet(c, S)
    <2>1. PICK key : key = [l \in C |-> l.issue]
      OBVIOUS
    <2>2. IntOn(f, C)
      BY <1>4, <1>7 DEF IntOn
    <2>3. \A l \in C : key[l] \in S /\ key[l] = l.issue
      BY <1>2, <2>1
    <2>4. ASSUME NEW i \in S PROVE c[i] = SumFunctionOnSet(f, {l \in C : key[l] = i})
      <3>1. {l \in C : key[l] = i} = {l \in C : l.issue = i}
        BY <2>3
      <3> QED
        BY <1>8, <2>4, <3>1
    <2>5. ByKey(f, C, key, S, c)
      BY <1>0, <1>3, <2>2, <2>3, <2>4 DEF ByKey
    <2> QED
      BY <2>5, SumByKey
  <1>11. {l \in K : l.receipt = n} = C
    BY <1>0, <1>2, <1>4
  <1> QED
    BY <1>4, <1>5, <1>6, <1>9, <1>10, <1>11 DEF GiftsGiven
-----------------------------------------------------------------------------
(* A purchase serves the obligations in their order.                        *)
LEMMA MinOfTwo == ASSUME NEW x \in Int, NEW y \in Int PROVE Min({x, y}) = Least(x, y)
  <1>1. \E z \in {x, y} : \A u \in {x, y} : z <= u
    BY x <= y \/ y <= x
  <1>2. Min({x, y}) \in {x, y} /\ \A u \in {x, y} : Min({x, y}) <= u
    BY <1>1, Zenon DEF Min
  <1> QED
    BY <1>2 DEF Least

LEMMA MaxOfTwo == ASSUME NEW x \in Int, NEW y \in Int PROVE Max({x, y}) = IF x <= y THEN y ELSE x
  <1>1. \E z \in {x, y} : \A u \in {x, y} : z >= u
    BY x <= y \/ y <= x
  <1>2. Max({x, y}) \in {x, y} /\ \A u \in {x, y} : Max({x, y}) >= u
    BY <1>1, Zenon DEF Max
  <1> QED
    BY <1>2

LEMMA OpenIs ==
  ASSUME ListInv(moves), LinksFit(moves, links), NEW i \in DOMAIN moves
  PROVE  /\ Open(i) = Units(i) - Given(links, i) /\ Open(i) \in Nat
         /\ Units(i) \in Nat /\ Given(links, i) \in Nat
  <1>1. SumOf({l \in links : l.issue = i}, LAMBDA l : l.quantity) = Given(links, i) /\ Given(links, i) \in Nat
    BY GivenIs DEF LinksFit
  <1>2. Units(i) \in Nat /\ Units(i) = Size(moves, i)
    BY SizeIs DEF ListInv, Units, Size
  <1>3. Given(links, i) <= Units(i)
    BY <1>2 DEF LinksFit
  <1>4. Open(i) = Units(i) - Given(links, i)
    BY <1>1 DEF Open
  <1> QED
    BY <1>1, <1>2, <1>3, <1>4

\* What the code calls the older obligations is a queue.
LEMMA ObligationsQueue ==
  ASSUME ListInv(moves), NEW w, NEW S, S = Obligations(w),
         NEW b, b = [i \in S |-> {j \in S : Earlier(j, i)}]
  PROVE  Queue(S, b)
  <1>1. /\ S \subseteq DOMAIN moves /\ IsFiniteSet(S)
        /\ \A i \in S : i \in Int /\ moves[i].day \in Int
    <2>1. S \subseteq DOMAIN moves
      BY DEF Obligations
    <2>2. Len(moves) \in Nat /\ DOMAIN moves = 1 .. Len(moves)
      BY LengthIs
    <2>3. IsFiniteSet(S)
      <3>1. Len(moves) \in Int /\ 1 \in Int
        BY <2>2
      <3>2. IsFiniteSet(DOMAIN moves)
        BY <2>2, <3>1, FS_Interval
      <3> QED
        BY <2>1, <3>2, FS_Subset
    <2> QED
      BY <2>1, <2>2, <2>3 DEF ListInv, RowsStand, RowOK
  <1>2. \A i \in S : b[i] = {j \in S : Earlier(j, i)}
    OBVIOUS
  <1>3. \A i, j, k \in S : Earlier(i, j) /\ Earlier(j, k) => Earlier(i, k)
    BY <1>1 DEF Earlier
  <1>4. \A i, j \in S : ~Earlier(i, i) /\ (i # j => Earlier(i, j) \/ Earlier(j, i))
    BY <1>1 DEF Earlier
  <1> HIDE DEF Earlier
  <1>5. \A i \in S : b[i] \subseteq S /\ i \notin b[i]
    BY <1>2, <1>4
  <1>6. \A i \in S : \A j \in b[i] : b[j] \subseteq b[i]
    BY <1>2, <1>3
  <1>7. \A i, j \in S : i # j => i \in b[j] \/ j \in b[i]
    BY <1>2, <1>4
  <1> QED
    BY <1>1, <1>5, <1>6, <1>7 DEF Queue

LEMMA CoversServe ==
  ASSUME ListInv(moves), LinksFit(moves, links), NEW w, NEW q \in Nat, NEW S, S = Obligations(w),
         NEW b, b = [i \in S |-> {j \in S : Earlier(j, i)}],
         NEW f, f = [i \in S |-> Open(i)], NEW c, c = [i \in S |-> Covers(w, q, i)]
  PROVE  Serves(S, b, f, q, c)
  <1>1. Queue(S, b) /\ IsFiniteSet(S)
    <2>1. Queue(S, b)
      BY ObligationsQueue
    <2> QED
      BY <2>1 DEF Queue
  <1>2. S \subseteq DOMAIN moves
    BY DEF Obligations
  <1>3. \A i \in S : f[i] = Open(i) /\ f[i] \in Nat
    BY <1>2, OpenIs
  <1>4. ASSUME NEW i \in S
        PROVE  LET left == q - SumFunctionOnSet(f, b[i])
               IN /\ c[i] = IF left <= 0 THEN 0 ELSE IF left <= f[i] THEN left ELSE f[i]
                  /\ c[i] \in Nat
    <2>1. PICK D : D = {j \in Obligations(w) : Earlier(j, i)}
      OBVIOUS
    <2>2. b[i] = D /\ D \subseteq S /\ IsFiniteSet(D)
      BY <1>1, <1>4, <2>1, FS_Subset
    <2>3. PICK e : e = [j \in D |-> Open(j)]
      OBVIOUS
    <2>4. \A j \in D : e[j] = f[j] /\ f[j] \in Nat
      BY <1>3, <2>2, <2>3
    <2>5. SumFunctionOnSet(e, D) = SumFunctionOnSet(f, D) /\ SumFunctionOnSet(f, D) \in Nat
      BY ZenonT(30), <2>2, <2>4, SumAgree, SumNat
    <2>6. SumOf(D, Open) = SumFunctionOnSet(e, D)
      BY <2>3 DEF SumOf
    <2>7. PICK left \in Int : left = q - SumFunctionOnSet(f, D)
      BY <2>5
    <2>8. c[i] = Max({0, Min({f[i], left})})
      <3>1. c[i] = Covers(w, q, i) /\ f[i] = Open(i)
        OBVIOUS
      <3>2. Covers(w, q, i) = Max({0, Min({Open(i), q - SumOf(D, Open)})})
        BY <2>1 DEF Covers
      <3> QED
        BY <2>5, <2>6, <2>7, <3>1, <3>2
    <2>9. PICK m : m = Min({f[i], left})
      OBVIOUS
    <2>10. m = Least(f[i], left) /\ m \in Int
      BY <1>3, <2>9, MinOfTwo DEF Least
    <2>11. Max({0, m}) = IF 0 <= m THEN m ELSE 0
      BY <2>10, MaxOfTwo
    <2>12. c[i] = IF 0 <= m THEN m ELSE 0
      BY <2>8, <2>9, <2>11
    <2>13. f[i] \in Nat
      BY <1>3
    <2>14. /\ c[i] = IF left <= 0 THEN 0 ELSE IF left <= f[i] THEN left ELSE f[i]
           /\ c[i] \in Nat
      BY ONLY <2>10, <2>12, <2>13, left \in Int DEF Least
    <2> QED
      BY <2>2, <2>7, <2>14
  <1> QED
    BY <1>3, <1>4 DEF Serves

\* What each was given adds up to the receipt or to all that was wanted.
LEMMA AllServed ==
  ASSUME NEW S, NEW b, Queue(S, b), NEW f, NEW q, NEW c, Serves(S, b, f, q, c)
  PROVE  /\ SumFunctionOnSet(c, S) <= q
         /\ \A i \in S : c[i] <= f[i]
         /\ SumFunctionOnSet(c, S) < q => \A i \in S : c[i] = f[i]
  <1>0. IsFiniteSet(S) /\ q \in Nat /\ \A i \in S : f[i] \in Nat /\ c[i] \in Nat
    BY DEF Queue, Serves
  <1>1. PICK given : given = SumFunctionOnSet(c, S)
    OBVIOUS
  <1>2. PICK wanted : wanted = SumFunctionOnSet(f, S)
    OBVIOUS
  <1>3. given \in Nat /\ wanted \in Nat /\ given = Least(q, wanted)
    BY <1>0, <1>1, <1>2, SumNat, ServedInFull
  <1>4. ASSUME NEW i \in S PROVE c[i] <= f[i]
    <2>1. IsFiniteSet(b[i]) /\ \A j \in b[i] : f[j] \in Nat
      BY <1>0, FS_Subset DEF Queue
    <2>2. PICK left \in Int : left = q - SumFunctionOnSet(f, b[i])
      BY <1>0, <2>1, SumNat
    <2>3. c[i] = IF left <= 0 THEN 0 ELSE IF left <= f[i] THEN left ELSE f[i]
      BY <2>2 DEF Serves
    <2> QED
      BY <1>0, <2>2, <2>3
  <1>5. ASSUME given < q, NEW i \in S PROVE c[i] = f[i]
    <2>1. given = wanted
      BY <1>0, <1>3, <1>5 DEF Least
    <2>2. PICK h : h = [j \in S |-> f[j] - c[j]]
      OBVIOUS
    <2>3. \A j \in S : h[j] \in Nat /\ f[j] = h[j] + c[j]
      BY <1>0, <1>4, <2>2
    <2>4. IntOn(h, S) /\ IntOn(c, S)
      BY <1>0, <2>3 DEF IntOn
    <2>5. SumFunctionOnSet(f, S) = SumFunctionOnSet(h, S) + SumFunctionOnSet(c, S)
      BY ONLY <1>0, <2>3, <2>4, SumPlus
    <2>6. SumFunctionOnSet(h, S) \in Nat /\ h[i] <= SumFunctionOnSet(h, S)
      BY <1>0, <2>3, SumNat, SumAtLeast
    <2> QED
      BY <1>0, <1>1, <1>2, <1>3, <2>1, <2>3, <2>5, <2>6
  <1> QED
    BY <1>0, <1>1, <1>3, <1>4, <1>5 DEF Least

\* What a purchase of q units into w, movement n, leaves the obligations of w.
LeftAfter(i) == Units(i) - SumOf({l \in links' : l.issue = i}, LAMBDA l : l.quantity)
GivenBy(n) == SumOf({l \in links' : l.receipt = n}, LAMBDA l : l.quantity)

ServedBy(w, q, n) ==
  /\ \A i \in Obligations(w) : LeftAfter(i) >= 0
  /\ GivenBy(n) <= q
  /\ GivenBy(n) < q => \A i \in Obligations(w) : LeftAfter(i) = 0
  /\ \A l \in links' \ links, i \in Obligations(w) : Earlier(i, l.issue) => LeftAfter(i) = 0

\* Row n is new.
Grows(M, N, row, n) ==
  /\ DOMAIN N = DOMAIN M \cup {n} /\ n \notin DOMAIN M /\ N[n] = row
  /\ \A i \in DOMAIN M : N[i] = M[i]

LEMMA OneMore ==
  ASSUME NEW M, NEW N, NEW row, Longer(M, N, row)
  PROVE  \A n : n = Len(M) + 1 => Grows(M, N, row, n)
  <1>1. /\ DOMAIN N = DOMAIN M \cup {Len(M) + 1} /\ Len(M) + 1 \notin DOMAIN M
        /\ N[Len(M) + 1] = row /\ \A i \in DOMAIN M : N[i] = M[i]
    BY Domains
  <1> QED
    BY <1>1 DEF Grows

LEMMA PurchaseServes ==
  ASSUME ListInv(moves), ListInv(moves'), LinksFit(moves, links),
         NEW w \in Warehouse, NEW q \in Quantity, NEW d \in Day, NEW total \in Total,
         Purchase(w, q, total, d), NEW row, Longer(moves, moves', row), NEW n, n = Len(moves) + 1
  PROVE  ServedBy(w, q, n) /\ LinksFit(moves', links')
  <1>1. PICK S : S = Obligations(w)
    OBVIOUS
  <1>2. PICK b : b = [i \in S |-> {j \in S : Earlier(j, i)}]
    OBVIOUS
  <1>3. PICK f : f = [i \in S |-> Open(i)]
    OBVIOUS
  <1>4. PICK c : c = [i \in S |-> Covers(w, q, i)]
    OBVIOUS
  <1>5. PICK L : L = links
    OBVIOUS
  <1>6. PICK K : K = links'
    OBVIOUS
  <1>7. PICK M : M = moves
    OBVIOUS
  <1>8. PICK N : N = moves'
    OBVIOUS
  <1>9. q \in Nat
    BY Inputs
  <1>10. Queue(S, b) /\ Serves(S, b, f, q, c)
    BY <1>1, <1>2, <1>3, <1>4, <1>9, ObligationsQueue, CoversServe
  <1>11. /\ IsFiniteSet(S) /\ S \subseteq DOMAIN M
         /\ \A i \in S : f[i] \in Nat /\ c[i] \in Nat
    BY <1>1, <1>7, <1>10 DEF Queue, Serves, Obligations
  <1>12. K = L \cup Gifts(S, c, n)
    <2>1. \E cost : K = L \cup NewLinks(w, q, cost)
      BY <1>5, <1>6 DEF Purchase
    <2>2. \A i \in S : c[i] = Covers(w, q, i)
      BY <1>4
    <2>3. \A cost : NewLinks(w, q, cost) = Gifts(S, c, n)
      BY <1>1, <2>2 DEF NewLinks, Gifts
    <2> QED
      BY <2>1, <2>3
  <1>13. /\ Longer(M, N, row) /\ DOMAIN N = DOMAIN M \cup {n} /\ n \notin DOMAIN M
         /\ \A i \in DOMAIN M : N[i] = M[i]
    <2>1. Longer(M, N, row) /\ n = Len(M) + 1
      BY <1>7, <1>8
    <2>2. Grows(M, N, row, n)
      BY <2>1, OneMore
    <2> QED
      BY <2>1, <2>2 DEF Grows
  <1>14. LinksFit(N, L) /\ LinksFit(M, L)
    BY <1>5, <1>7, <1>8, <1>13, LinksStay DEF ListInv
  <1>15. \A l \in L : l.receipt # n /\ l.quantity \in Nat
    BY <1>13, <1>14 DEF LinksFit
  <1>16. /\ IsFiniteSet(K) /\ \A l \in K : l.quantity \in Nat
         /\ \A i : Given(K, i) = Given(L, i) + (IF i \in S THEN c[i] ELSE 0)
         /\ SumFunctionOnSet(Amounts(K), {l \in K : l.receipt = n}) = SumFunctionOnSet(c, S)
    <2>1. GiftsFit(L, S, c, n)
      BY <1>11, <1>14, <1>15 DEF LinksFit, GiftsFit
    <2>2. GiftsGiven(L, K, S, c, n)
      BY <1>12, <2>1, GiftsAdd
    <2> QED
      BY <2>2 DEF GiftsGiven
  <1>17. GivenBy(n) = SumFunctionOnSet(c, S)
    <2>1. PICK R : R = {l \in K : l.receipt = n}
      OBVIOUS
    <2>2. R \in SUBSET K /\ IsFiniteSet(R)
      BY <1>16, <2>1, FS_Subset
    <2>3. SumOf(R, LAMBDA l : l.quantity) = SumFunctionOnSet(Amounts(K), R)
      BY <2>2, SumOfLinks
    <2> QED
      BY <1>6, <1>16, <2>1, <2>3 DEF GivenBy
  <1>18. \A i \in S : LeftAfter(i) = f[i] - c[i]
    <2> SUFFICES ASSUME NEW i \in S PROVE LeftAfter(i) = f[i] - c[i]
      OBVIOUS
    <2>1. SumOf({l \in K : l.issue = i}, LAMBDA l : l.quantity) = Given(K, i)
      BY <1>16, GivenIs
    <2>2. LeftAfter(i) = Units(i) - Given(K, i)
      BY <1>6, <2>1 DEF LeftAfter
    <2>3. f[i] = Units(i) - Given(L, i) /\ Units(i) \in Nat /\ Given(L, i) \in Nat
      BY <1>3, <1>5, <1>7, <1>11, OpenIs
    <2>4. Given(K, i) = Given(L, i) + c[i] /\ c[i] \in Nat
      BY <1>11, <1>16
    <2> QED
      BY <2>2, <2>3, <2>4
  <1>19. /\ SumFunctionOnSet(c, S) <= q
         /\ \A i \in S : c[i] <= f[i]
         /\ SumFunctionOnSet(c, S) < q => \A i \in S : c[i] = f[i]
    BY <1>10, AllServed
  <1>20. ASSUME NEW l \in K \ L, NEW i \in S, Earlier(i, l.issue) PROVE LeftAfter(i) = 0
    <2>1. PICK j \in S : l = [issue |-> j, receipt |-> n, quantity |-> c[j]] /\ c[j] > 0
      BY <1>12, <1>20 DEF Gifts
    <2>2. i \in b[j]
      BY <1>2, <1>20, <2>1
    <2>3. c[i] = f[i]
      BY <1>10, <2>1, <2>2, ServedInTurn
    <2> QED
      BY <1>11, <1>18, <2>3
  <1>21. ServedBy(w, q, n)
    <2>1. \A i \in S : LeftAfter(i) >= 0
      BY <1>11, <1>18, <1>19
    <2>2. GivenBy(n) < q => \A i \in S : LeftAfter(i) = 0
      BY <1>11, <1>17, <1>18, <1>19
    <2> QED
      BY <1>1, <1>5, <1>6, <1>17, <1>19, <1>20, <2>1, <2>2 DEF ServedBy
  <1>22. LinksFit(N, K)
    <2>1. \A l \in K : l.issue \in DOMAIN N /\ l.receipt \in DOMAIN N
      BY <1>11, <1>12, <1>13, <1>14 DEF LinksFit, Gifts
    <2>2. ASSUME NEW i \in DOMAIN N PROVE Given(K, i) <= Size(N, i)
      <3>1. CASE i \in S
        <4>1. Size(N, i) = Size(M, i) /\ Size(M, i) = Units(i) /\ i \in DOMAIN M
          BY <1>7, <1>11, <1>13, <3>1 DEF Size, Units
        <4>2. f[i] = Units(i) - Given(L, i) /\ Units(i) \in Nat /\ Given(L, i) \in Nat
          BY <1>3, <1>5, <1>7, <4>1, <3>1, OpenIs
        <4>3. Given(K, i) = Given(L, i) + c[i] /\ c[i] \in Nat /\ c[i] <= f[i]
          BY <1>11, <1>16, <1>19, <3>1
        <4> QED
          BY <4>1, <4>2, <4>3
      <3>2. CASE i \notin S
        <4>1. Given(K, i) = Given(L, i) + 0 /\ Given(L, i) \in Nat
          <5>1. Given(L, i) \in Nat
            BY <1>14, GivenIs DEF LinksFit
          <5> QED
            BY <1>16, <3>2, <5>1
        <4>2. Given(L, i) <= Size(N, i)
          BY <1>14, <2>2 DEF LinksFit
        <4> QED
          BY <4>1, <4>2
      <3> QED
        BY <3>1, <3>2
    <2> QED
      BY <1>16, <2>1, <2>2 DEF LinksFit
  <1> QED
    BY <1>6, <1>8, <1>21, <1>22
-----------------------------------------------------------------------------
(* The specification.                                                       *)
StockInv == ListInv(moves) /\ LinksFit(moves, links)

LEMMA StockInit == Init => StockInv
  <1> SUFFICES ASSUME Init PROVE LinksFit(moves, links)
    BY ListInit DEF StockInv
  <1>1. moves = <<>> /\ links = {}
    BY DEF Init
  <1> QED
    BY <1>1, FS_EmptySet DEF LinksFit

LEMMA LinksStep == StockInv /\ [Next]_vars => LinksFit(moves', links')
  <1> SUFFICES ASSUME StockInv, [Next]_vars PROVE LinksFit(moves', links')
    OBVIOUS
  <1>1. ListInv(moves) /\ LinksFit(moves, links) /\ ListInv(moves')
    BY ListStep DEF StockInv
  <1>2. CASE Written
    BY <1>1, <1>2, LinksStay DEF Written, ListInv
  <1>3. CASE WrittenTwo
    <2>1. PICK N, a, b : Longer(moves, N, a) /\ May(moves, a) /\ Longer(N, moves', b)
      BY <1>3 DEF WrittenTwo
    <2>2. ListInv(N)
      BY <1>1, <2>1, ListKeeps
    <2>3. LinksFit(N, links)
      BY <1>1, <2>1, <2>2, LinksStay DEF ListInv
    <2> QED
      BY <1>1, <1>3, <2>1, <2>3, LinksStay DEF WrittenTwo, ListInv
  <1>4. CASE Bought
    BY <1>1, <1>4, PurchaseServes DEF Bought, Received
  <1> QED
    BY <1>1, <1>2, <1>3, <1>4, StepWrites

LEMMA StockInvHolds == Spec => []StockInv
  <1>1. StockInv /\ [Next]_vars => StockInv'
    BY ListStep, LinksStep DEF StockInv
  <1> QED
    BY <1>1, StockInit, PTL DEF Spec

\* What came back against a sale or a purchase, less what was taken back, is
\* never more than it moved, and never negative: _post_return compares with
\* what is left, and a return is taken back whole and once.
THEOREM ReturnsStayWithinSource == Spec => []ReturnsWithinSource
  <1>1. StockInv => ReturnsWithinSource
    BY ReturnsAreWithin DEF StockInv
  <1> QED
    BY <1>1, StockInvHolds, PTL

\* A step that receives a purchase serves the obligations of its warehouse in
\* the order of their days, and leaves none while it has goods.
LEMMA ServesInOrder ==
  ASSUME StockInv, [Next]_vars, NEW r \in DOMAIN moves' \ DOMAIN moves,
         moves'[r].type = "PURCHASE_RECEIPT", moves'[r].src = 0
  PROVE  ServedBy(moves'[r].warehouse, moves'[r].quantity, r)
  <1>1. ListInv(moves) /\ LinksFit(moves, links) /\ ListInv(moves')
    BY ListStep DEF StockInv
  <1>2. PICK M : M = moves
    OBVIOUS
  <1>3. PICK N : N = moves'
    OBVIOUS
  <1>4. Receipt(N[r]) /\ r \in DOMAIN N /\ r \notin DOMAIN M
    BY <1>2, <1>3 DEF Receipt
  <1>5. ~Written
    <2> SUFFICES ASSUME Written PROVE FALSE
      OBVIOUS
    <2>1. PICK row : Longer(M, N, row) /\ ~Receipt(row)
      BY <1>2, <1>3 DEF Written
    <2>2. PICK n : n = Len(M) + 1
      OBVIOUS
    <2>3. Grows(M, N, row, n)
      BY <2>1, <2>2, OneMore
    <2> QED
      BY <1>4, <2>1, <2>3 DEF Grows
  <1>6. ~WrittenTwo
    <2> SUFFICES ASSUME WrittenTwo PROVE FALSE
      OBVIOUS
    <2>1. PICK O, a, e : Longer(M, O, a) /\ ~Receipt(a) /\ Longer(O, N, e) /\ ~Receipt(e)
      BY <1>2, <1>3 DEF WrittenTwo
    <2>2. PICK n : n = Len(M) + 1
      OBVIOUS
    <2>3. PICK m : m = Len(O) + 1
      OBVIOUS
    <2>4. Grows(M, O, a, n)
      BY <2>1, <2>2, OneMore
    <2>5. Grows(O, N, e, m)
      BY <2>1, <2>3, OneMore
    <2> QED
      BY <1>4, <2>1, <2>4, <2>5 DEF Grows
  <1>7. ~UNCHANGED <<moves, links>>
    BY <1>2, <1>3, <1>4
  <1>8. Bought
    BY <1>1, <1>5, <1>6, <1>7, StepWrites
  <1>9. PICK w \in Warehouse, q \in Quantity, d \in Day, total \in Total :
          Purchase(w, q, total, d) /\ Received(w, q)
    BY <1>8 DEF Bought
  <1>10. PICK row : Longer(M, N, row) /\ row.warehouse = w /\ row.quantity = q
    BY <1>2, <1>3, <1>9 DEF Received
  <1>11. PICK n : n = Len(moves) + 1
    OBVIOUS
  <1>12. r = n /\ N[r] = row
    <2>1. n = Len(M) + 1
      BY <1>2, <1>11
    <2>2. Grows(M, N, row, n)
      BY <1>10, <2>1, OneMore
    <2> QED
      BY <1>4, <2>2 DEF Grows
  <1>13. ServedBy(w, q, n)
    BY <1>1, <1>2, <1>3, <1>9, <1>10, <1>11, PurchaseServes
  <1> QED
    BY <1>3, <1>10, <1>12, <1>13

\* A purchase serves the sales that went below zero in its warehouse oldest
\* first, none twice, and stops only when the goods or the obligations are used
\* up: resolve_negative_obligations walks them by day and takes from each what
\* is open, as long as anything is left.
THEOREM ObligationsServedInOrder == Spec => ObligationsAreServed
  <1> DEFINE Served ==
        \A r \in DOMAIN moves' \ DOMAIN moves :
          moves'[r].type = "PURCHASE_RECEIPT" /\ moves'[r].src = 0 =>
            LET w == moves'[r].warehouse
                given == SumOf({l \in links' : l.receipt = r}, LAMBDA l : l.quantity)
                left(i) == Units(i) - SumOf({l \in links' : l.issue = i}, LAMBDA l : l.quantity)
            IN /\ \A i \in Obligations(w) : left(i) >= 0
               /\ given <= moves'[r].quantity
               /\ given < moves'[r].quantity => \A i \in Obligations(w) : left(i) = 0
               /\ \A l \in links' \ links, i \in Obligations(w) :
                    Earlier(i, l.issue) => left(i) = 0
  <1>1. StockInv /\ [Next]_vars => Served
    BY ServesInOrder DEF ServedBy, GivenBy, LeftAfter
  <1>2. ObligationsAreServed <=> [][Served]_vars
    BY DEF ObligationsAreServed
  <1> HIDE DEF Served
  <1> QED
    BY <1>1, <1>2, StockInvHolds, PTL DEF Spec
=============================================================================
