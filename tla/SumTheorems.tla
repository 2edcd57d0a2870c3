---------------------------- MODULE SumTheorems ----------------------------
(***************************************************************************)
(* What a sum over a finite set is.  The models add up rows with           *)
(* SumFunctionOnSet of the community modules, whose recursion picks the    *)
(* members of the set in an order of its own; the proofs need that the     *)
(* order does not matter.  No induction theorem of the library can be      *)
(* instantiated, so each induction here is a minimal counterexample: the   *)
(* sizes that refute a statement are a set of naturals, and a nonempty set *)
(* of naturals has a least member.                                         *)
(***************************************************************************)
EXTENDS Integers, FiniteSets, Functions, FiniteSetTheorems, WellFoundedInduction, TLAPS

(* The member the recursion takes, and its equation at one set. *)
Pick(s) == CHOOSE x \in s : TRUE
SumAt(f, g, s) == IF s = {} THEN 0 ELSE f[Pick(s)] + g[s \ {Pick(s)}]
Solves(f, g, S) == \A s \in SUBSET S : g[s] = SumAt(f, g, s)
IntOn(f, S) == \A x \in S : f[x] \in Int

(* A nonempty set of naturals has a least member. *)
LEMMA LeastNatural ==
  ASSUME NEW T \in SUBSET Nat, T # {}
  PROVE  \E m \in T : \A k \in T : m <= k
<1>1. IsWellFoundedOn(OpToRel(<, Nat), Nat)
  BY NatLessThanWellFounded
<1>2. PICK m \in T : \A k \in T : ~(<<k, m>> \in OpToRel(<, Nat))
  BY <1>1, WFMin
<1>3. \A k \in T : ~(k < m)
  BY <1>2 DEF OpToRel
<1> QED BY <1>3

(* Taking one member out of a finite set makes it smaller by one. *)
LEMMA Smaller ==
  ASSUME NEW S, IsFiniteSet(S), NEW x \in S
  PROVE  /\ IsFiniteSet(S \ {x})
         /\ Cardinality(S) \in Nat
         /\ Cardinality(S \ {x}) = Cardinality(S) - 1
         /\ Cardinality(S \ {x}) \in Nat
  BY FS_RemoveElement, FS_CardinalityType

LEMMA PickIn == ASSUME NEW s, s # {} PROVE Pick(s) \in s
  BY DEF Pick

(* The community operator is a solution of the equation, if there is one. *)
LEMMA SumIsChosen ==
  ASSUME NEW f, NEW S
  PROVE  SumFunctionOnSet(f, S) = (CHOOSE g : g = [s \in SUBSET S |-> SumAt(f, g, s)])[S]
  BY Zenon DEF SumFunctionOnSet, FoldFunctionOnSet, MapThenFoldSet, SumAt, Pick

(* One more application of the equation serves sets one larger. *)
LEMMA SolutionExists ==
  ASSUME NEW f, NEW S, IsFiniteSet(S)
  PROVE  \E g : g = [s \in SUBSET S |-> SumAt(f, g, s)]
<1> DEFINE Good(n) == \E g : \A s \in SUBSET S : Cardinality(s) <= n => g[s] = SumAt(f, g, s)
           Bad == {n \in Nat : ~Good(n)}
<1>0. \A s \in SUBSET S : IsFiniteSet(s) /\ Cardinality(s) \in Nat
  BY FS_Subset, FS_CardinalityType
<1>1. Good(0)
  <2>1. \A s \in SUBSET S : Cardinality(s) <= 0 => s = {}
    BY <1>0, FS_EmptySet
  <2> DEFINE g == [s \in SUBSET S |-> 0]
  <2>2. \A s \in SUBSET S : Cardinality(s) <= 0 => g[s] = SumAt(f, g, s)
    BY <2>1 DEF SumAt
  <2> HIDE DEF g
  <2> QED BY <2>2
<1>2. ASSUME NEW n \in Nat, Good(n)  PROVE Good(n + 1)
  <2>1. PICK g : \A s \in SUBSET S : Cardinality(s) <= n => g[s] = SumAt(f, g, s)
    BY <1>2
  <2> DEFINE h == [s \in SUBSET S |-> SumAt(f, g, s)]
  <2>2. SUFFICES ASSUME NEW s \in SUBSET S, Cardinality(s) <= n + 1
                 PROVE  h[s] = SumAt(f, h, s)
    OBVIOUS
  <2>3. CASE s = {}
    BY <2>3 DEF SumAt
  <2>4. CASE s # {}
    <3> DEFINE r == s \ {Pick(s)}
    <3>1. r \in SUBSET S /\ Cardinality(r) <= n
      BY <2>2, <2>4, <1>0, PickIn, Smaller
    <3>2. h[r] = SumAt(f, g, r) /\ g[r] = SumAt(f, g, r)
      BY <3>1, <2>1
    <3>3. h[s] = f[Pick(s)] + g[r]
      BY <2>4 DEF SumAt
    <3> QED BY <3>2, <3>3, <2>4 DEF SumAt
  <2> QED BY <2>3, <2>4
<1>3. Bad = {}
  <2>1. SUFFICES ASSUME Bad # {} PROVE FALSE
    OBVIOUS
  <2>2. PICK m \in Bad : \A k \in Bad : m <= k
    <3> HIDE DEF Good
    <3> QED BY <2>1, LeastNatural
  <2>3. m # 0
    <3> HIDE DEF Good
    <3> QED BY <1>1
  <2>4. m - 1 \in Nat /\ ~(m - 1 \in Bad)
    <3> HIDE DEF Good
    <3> QED BY <2>2, <2>3
  <2> HIDE DEF Good
  <2> QED BY <2>4, <1>2
<1>4. Good(Cardinality(S))
  <2> HIDE DEF Good
  <2> QED BY <1>3, <1>0
<1>5. PICK g : \A s \in SUBSET S : g[s] = SumAt(f, g, s)
  <2>1. \A s \in SUBSET S : Cardinality(s) <= Cardinality(S)
    BY FS_Subset
  <2> QED BY <1>4, <2>1
<1> DEFINE h == [s \in SUBSET S |-> SumAt(f, g, s)]
<1>6. \A s \in SUBSET S : h[s] = g[s]
  BY <1>5
<1>7. ASSUME NEW s \in SUBSET S  PROVE SumAt(f, g, s) = SumAt(f, h, s)
  <2>1. s # {} => s \ {Pick(s)} \in SUBSET S
    OBVIOUS
  <2> HIDE DEF h
  <2> QED BY <1>6, <2>1 DEF SumAt
<1>8. h = [s \in SUBSET S |-> SumAt(f, h, s)]
  <2>1. [s \in SUBSET S |-> SumAt(f, g, s)] = [s \in SUBSET S |-> SumAt(f, h, s)]
    <3> HIDE DEF h
    <3> QED BY <1>7
  <2> QED BY <2>1
<1> QED BY <1>8

LEMMA SumSolves ==
  ASSUME NEW f, NEW S, IsFiniteSet(S)
  PROVE  \E g : Solves(f, g, S) /\ SumFunctionOnSet(f, S) = g[S]
<1> DEFINE g == CHOOSE g : g = [s \in SUBSET S |-> SumAt(f, g, s)]
<1>1. g = [s \in SUBSET S |-> SumAt(f, g, s)]
  BY SolutionExists, Zenon
<1>2. SumFunctionOnSet(f, S) = g[S]
  BY SumIsChosen
<1> HIDE DEF g
<1> QED BY <1>1, <1>2 DEF Solves

(* Two solutions agree, on every set where the functions summed agree. *)
LEMMA SolutionsAgree ==
  ASSUME NEW e, NEW f, NEW g, NEW h, NEW S, IsFiniteSet(S),
         Solves(e, g, S), Solves(f, h, S), \A x \in S : e[x] = f[x]
  PROVE  g[S] = h[S]
<1> DEFINE Bad == {n \in Nat : \E s \in SUBSET S : Cardinality(s) = n /\ g[s] # h[s]}
<1>0. \A s \in SUBSET S : IsFiniteSet(s) /\ Cardinality(s) \in Nat
  BY FS_Subset, FS_CardinalityType
<1>1. SUFFICES ASSUME Bad # {} PROVE FALSE
  BY <1>0
<1>2. PICK m \in Bad : \A k \in Bad : m <= k
  BY <1>1, LeastNatural
<1>3. PICK s \in SUBSET S : Cardinality(s) = m /\ g[s] # h[s]
  BY <1>2
<1>4. s # {}
  BY <1>3 DEF Solves, SumAt
<1> DEFINE r == s \ {Pick(s)}
<1>5. r \in SUBSET S /\ Cardinality(r) = m - 1 /\ m - 1 \in Nat
  BY <1>0, <1>3, <1>4, PickIn, Smaller
<1>6. g[r] = h[r]
  BY <1>5, <1>2
<1>7. e[Pick(s)] = f[Pick(s)]
  BY <1>4, PickIn
<1> QED BY <1>3, <1>4, <1>6, <1>7 DEF Solves, SumAt

(* The sum of nothing, and the equation at a nonempty set. *)
LEMMA SumEmpty == ASSUME NEW f PROVE SumFunctionOnSet(f, {}) = 0
<1>1. PICK g : Solves(f, g, {}) /\ SumFunctionOnSet(f, {}) = g[{}]
  BY SumSolves, FS_EmptySet
<1> QED BY <1>1 DEF Solves, SumAt

LEMMA SumPick ==
  ASSUME NEW f, NEW S, IsFiniteSet(S), S # {}
  PROVE  SumFunctionOnSet(f, S) = f[Pick(S)] + SumFunctionOnSet(f, S \ {Pick(S)})
<1> DEFINE R == S \ {Pick(S)}
<1>0. IsFiniteSet(R) /\ R \in SUBSET S
  BY PickIn, Smaller
<1>1. PICK g : Solves(f, g, S) /\ SumFunctionOnSet(f, S) = g[S]
  BY SumSolves
<1>2. PICK h : Solves(f, h, R) /\ SumFunctionOnSet(f, R) = h[R]
  BY <1>0, SumSolves
<1>3. Solves(f, g, R)
  BY <1>0, <1>1 DEF Solves
<1>4. g[R] = h[R]
  BY <1>0, <1>2, <1>3, SolutionsAgree
<1>5. g[S] = f[Pick(S)] + g[R]
  BY <1>1 DEF Solves, SumAt
<1> QED BY <1>1, <1>2, <1>4, <1>5

(* Only the values on the set matter. *)
LEMMA SumAgree ==
  ASSUME NEW S, IsFiniteSet(S), NEW e, NEW f, \A x \in S : e[x] = f[x]
  PROVE  SumFunctionOnSet(e, S) = SumFunctionOnSet(f, S)
<1>1. PICK g : Solves(e, g, S) /\ SumFunctionOnSet(e, S) = g[S]
  BY SumSolves
<1>2. PICK h : Solves(f, h, S) /\ SumFunctionOnSet(f, S) = h[S]
  BY SumSolves
<1> QED BY <1>1, <1>2, SolutionsAgree

(* A sum of integers is an integer. *)
LEMMA SumInt ==
  ASSUME NEW S, IsFiniteSet(S), NEW f, IntOn(f, S)
  PROVE  SumFunctionOnSet(f, S) \in Int
<1> DEFINE Bad == {n \in Nat : \E s \in SUBSET S : Cardinality(s) = n /\ SumFunctionOnSet(f, s) \notin Int}
<1>0. \A s \in SUBSET S : IsFiniteSet(s) /\ Cardinality(s) \in Nat
  BY FS_Subset, FS_CardinalityType
<1>1. SUFFICES ASSUME Bad # {} PROVE FALSE
  BY <1>0
<1>2. PICK m \in Bad : \A k \in Bad : m <= k
  BY <1>1, LeastNatural
<1>3. PICK s \in SUBSET S : Cardinality(s) = m /\ SumFunctionOnSet(f, s) \notin Int
  BY <1>2
<1>4. s # {}
  BY <1>3, SumEmpty
<1>5. s \ {Pick(s)} \in SUBSET S /\ Cardinality(s \ {Pick(s)}) = m - 1 /\ m - 1 \in Nat
  BY <1>0, <1>3, <1>4, PickIn, Smaller
<1>6. SumFunctionOnSet(f, s \ {Pick(s)}) \in Int
  BY <1>5, <1>2
<1>7. f[Pick(s)] \in Int
  BY <1>4, PickIn DEF IntOn
<1>8. SumFunctionOnSet(f, s) = f[Pick(s)] + SumFunctionOnSet(f, s \ {Pick(s)})
  BY <1>0, <1>4, SumPick
<1> QED BY <1>3, <1>6, <1>7, <1>8

(* Whatever order the recursion takes, any member can be taken out first. *)
LEMMA SumRemove ==
  ASSUME NEW S, IsFiniteSet(S), NEW f, IntOn(f, S), NEW x \in S
  PROVE  SumFunctionOnSet(f, S) = f[x] + SumFunctionOnSet(f, S \ {x})
<1> DEFINE Wrong(s) == \E y \in s : SumFunctionOnSet(f, s) # f[y] + SumFunctionOnSet(f, s \ {y})
           Bad == {n \in Nat : \E s \in SUBSET S : Cardinality(s) = n /\ Wrong(s)}
<1>0. \A s \in SUBSET S : /\ IsFiniteSet(s) /\ Cardinality(s) \in Nat /\ IntOn(f, s)
                          /\ SumFunctionOnSet(f, s) \in Int
  BY FS_Subset, FS_CardinalityType, SumInt DEF IntOn
<1>1. SUFFICES ASSUME Bad # {} PROVE FALSE
  BY <1>0
<1>2. PICK m \in Bad : \A k \in Bad : m <= k
  <2> HIDE DEF Wrong
  <2> QED BY <1>1, LeastNatural
<1>3. PICK s \in SUBSET S : Cardinality(s) = m /\ Wrong(s)
  <2> HIDE DEF Wrong
  <2> QED BY <1>2
<1>4. PICK y \in s : SumFunctionOnSet(f, s) # f[y] + SumFunctionOnSet(f, s \ {y})
  BY <1>3
<1> DEFINE p == Pick(s)
<1>5. p \in s /\ SumFunctionOnSet(f, s) = f[p] + SumFunctionOnSet(f, s \ {p})
  BY <1>0, <1>4, PickIn, SumPick
<1>6. p # y
  BY <1>4, <1>5
<1>7. \A z \in s : s \ {z} \in SUBSET S /\ Cardinality(s \ {z}) = m - 1 /\ m - 1 \in Nat
  BY <1>0, <1>3, Smaller
<1>8. \A z \in s : ~Wrong(s \ {z})
  <2> HIDE DEF Wrong, p
  <2> SUFFICES ASSUME NEW z \in s PROVE ~Wrong(s \ {z})
    OBVIOUS
  <2>1. ~(m - 1 \in Bad)
    BY <1>2, <1>7
  <2> QED BY <2>1, <1>7
<1> DEFINE r == (s \ {p}) \ {y}
<1>9. (s \ {y}) \ {p} = r
  OBVIOUS
<1>10. SumFunctionOnSet(f, s \ {p}) = f[y] + SumFunctionOnSet(f, r)
  BY <1>5, <1>6, <1>8
<1>11. SumFunctionOnSet(f, s \ {y}) = f[p] + SumFunctionOnSet(f, r)
  <2>1. p \in s \ {y}
    BY <1>5, <1>6
  <2>2. ~Wrong(s \ {y})
    BY <1>8
  <2> QED BY <2>1, <2>2, <1>9
<1>12. f[p] \in Int /\ f[y] \in Int /\ SumFunctionOnSet(f, r) \in Int
  BY <1>0, <1>5 DEF IntOn
<1> HIDE DEF p, r
<1> QED BY <1>4, <1>5, <1>10, <1>11, <1>12

LEMMA SumAdd ==
  ASSUME NEW S, IsFiniteSet(S), NEW x, x \notin S, NEW f, IntOn(f, S), f[x] \in Int
  PROVE  SumFunctionOnSet(f, S \cup {x}) = f[x] + SumFunctionOnSet(f, S)
<1>1. IsFiniteSet(S \cup {x}) /\ IntOn(f, S \cup {x})
  BY FS_AddElement DEF IntOn
<1>2. (S \cup {x}) \ {x} = S
  OBVIOUS
<1> QED BY <1>1, <1>2, SumRemove

(* Induction over the subsets of a finite set, the statement given as the *)
(* set of the subsets it holds of.                                        *)
LEMMA SubsetInduction ==
  ASSUME NEW S, IsFiniteSet(S), NEW Good \in SUBSET SUBSET S,
         {} \in Good,
         \A s \in Good : \A x \in S \ s : s \cup {x} \in Good
  PROVE  S \in Good
<1> DEFINE Bad == {n \in Nat : \E s \in SUBSET S : Cardinality(s) = n /\ s \notin Good}
<1>0. \A s \in SUBSET S : IsFiniteSet(s) /\ Cardinality(s) \in Nat
  BY FS_Subset, FS_CardinalityType
<1>1. SUFFICES ASSUME Bad # {} PROVE FALSE
  BY <1>0
<1>2. PICK m \in Bad : \A k \in Bad : m <= k
  BY <1>1, LeastNatural
<1>3. PICK s \in SUBSET S : Cardinality(s) = m /\ s \notin Good
  BY <1>2
<1>4. PICK x \in s : TRUE
  BY <1>3
<1>5. s \ {x} \in SUBSET S /\ Cardinality(s \ {x}) = m - 1 /\ m - 1 \in Nat
  BY <1>0, <1>3, Smaller
<1>6. s \ {x} \in Good
  BY <1>2, <1>5
<1>7. (s \ {x}) \cup {x} = s
  OBVIOUS
<1> QED BY <1>3, <1>6, <1>7

(* A sum of naturals is a natural, and a sum of larger values is larger. *)
LEMMA SumMonotone ==
  ASSUME NEW S, IsFiniteSet(S), NEW f, NEW g, IntOn(f, S), IntOn(g, S),
         \A x \in S : f[x] <= g[x]
  PROVE  SumFunctionOnSet(f, S) <= SumFunctionOnSet(g, S)
<1> DEFINE Good == {s \in SUBSET S : SumFunctionOnSet(f, s) <= SumFunctionOnSet(g, s)}
<1>1. {} \in Good
  BY SumEmpty
<1>2. ASSUME NEW s \in Good, NEW x \in S \ s  PROVE s \cup {x} \in Good
  <2>1. IsFiniteSet(s) /\ IntOn(f, s) /\ IntOn(g, s) /\ f[x] \in Int /\ g[x] \in Int /\ f[x] <= g[x]
    BY FS_Subset DEF IntOn
  <2>2. /\ SumFunctionOnSet(f, s \cup {x}) = f[x] + SumFunctionOnSet(f, s)
        /\ SumFunctionOnSet(g, s \cup {x}) = g[x] + SumFunctionOnSet(g, s)
    BY <2>1, SumAdd
  <2>3. SumFunctionOnSet(f, s) \in Int /\ SumFunctionOnSet(g, s) \in Int
    BY <2>1, SumInt
  <2> QED BY <2>1, <2>2, <2>3
<1> HIDE DEF Good
<1>3. S \in Good
  BY <1>1, <1>2, SubsetInduction DEF Good
<1> QED BY <1>3 DEF Good

LEMMA SumZero ==
  ASSUME NEW S, IsFiniteSet(S), NEW f, \A x \in S : f[x] = 0
  PROVE  SumFunctionOnSet(f, S) = 0
<1> DEFINE Good == {s \in SUBSET S : SumFunctionOnSet(f, s) = 0}
<1>1. {} \in Good
  BY SumEmpty
<1>2. ASSUME NEW s \in Good, NEW x \in S \ s  PROVE s \cup {x} \in Good
  <2>1. IsFiniteSet(s) /\ IntOn(f, s) /\ f[x] = 0 /\ f[x] \in Int
    BY FS_Subset DEF IntOn
  <2>2. SumFunctionOnSet(f, s \cup {x}) = f[x] + SumFunctionOnSet(f, s)
    BY <2>1, SumAdd
  <2> QED BY <2>1, <2>2
<1> HIDE DEF Good
<1>3. S \in Good
  BY <1>1, <1>2, SubsetInduction DEF Good
<1> QED BY <1>3 DEF Good

LEMMA SumNat ==
  ASSUME NEW S, IsFiniteSet(S), NEW f, \A x \in S : f[x] \in Nat
  PROVE  SumFunctionOnSet(f, S) \in Nat
<1> DEFINE z == [x \in S |-> 0]
<1>1. IntOn(f, S) /\ IntOn(z, S) /\ \A x \in S : z[x] <= f[x]
  BY DEF IntOn
<1>2. SumFunctionOnSet(z, S) = 0
  BY SumZero
<1>3. SumFunctionOnSet(f, S) \in Int
  BY <1>1, SumInt
<1>4. SumFunctionOnSet(z, S) <= SumFunctionOnSet(f, S)
  <2> HIDE DEF z
  <2> QED BY <1>1, SumMonotone
<1> QED BY <1>2, <1>3, <1>4

(* No term of a sum of naturals exceeds the sum. *)
LEMMA SumAtLeast ==
  ASSUME NEW S, IsFiniteSet(S), NEW f, \A x \in S : f[x] \in Nat, NEW x \in S
  PROVE  f[x] <= SumFunctionOnSet(f, S)
<1>1. SumFunctionOnSet(f, S) = f[x] + SumFunctionOnSet(f, S \ {x})
  BY SumRemove DEF IntOn
<1>2. SumFunctionOnSet(f, S \ {x}) \in Nat
  BY Smaller, SumNat
<1> QED BY <1>1, <1>2

(* Sums over disjoint sets add up. *)
LEMMA SumUnion ==
  ASSUME NEW S, IsFiniteSet(S), NEW T, IsFiniteSet(T), S \cap T = {},
         NEW f, IntOn(f, S), IntOn(f, T)
  PROVE  SumFunctionOnSet(f, S \cup T) = SumFunctionOnSet(f, S) + SumFunctionOnSet(f, T)
<1> DEFINE Good == {t \in SUBSET T : SumFunctionOnSet(f, S \cup t)
                                     = SumFunctionOnSet(f, S) + SumFunctionOnSet(f, t)}
<1>0. SumFunctionOnSet(f, S) \in Int
  BY SumInt
<1>1. {} \in Good
  <2>1. S \cup {} = S
    OBVIOUS
  <2> QED BY <1>0, <2>1, SumEmpty
<1>2. ASSUME NEW t \in Good, NEW x \in T \ t  PROVE t \cup {x} \in Good
  <2>1. IsFiniteSet(t) /\ IsFiniteSet(S \cup t) /\ IntOn(f, t) /\ IntOn(f, S \cup t) /\ f[x] \in Int
    BY FS_Subset, FS_Union DEF IntOn
  <2>2. x \notin S \cup t
    OBVIOUS
  <2>3. SumFunctionOnSet(f, t \cup {x}) = f[x] + SumFunctionOnSet(f, t)
    BY <2>1, SumAdd
  <2>4. SumFunctionOnSet(f, (S \cup t) \cup {x}) = f[x] + SumFunctionOnSet(f, S \cup t)
    BY <2>1, <2>2, SumAdd
  <2>5. SumFunctionOnSet(f, t) \in Int /\ S \cup (t \cup {x}) = (S \cup t) \cup {x}
    BY <2>1, SumInt
  <2>6. SumFunctionOnSet(f, S \cup t) = SumFunctionOnSet(f, S) + SumFunctionOnSet(f, t)
    OBVIOUS
  <2>7. SumFunctionOnSet(f, S \cup (t \cup {x}))
        = SumFunctionOnSet(f, S) + SumFunctionOnSet(f, t \cup {x})
    <3>1. SumFunctionOnSet(f, S \cup (t \cup {x})) = f[x] + SumFunctionOnSet(f, S \cup t)
      BY <2>4, <2>5
    <3> HIDE DEF Good
    <3> QED BY <1>0, <2>1, <2>3, <2>5, <2>6, <3>1
  <2> QED BY <2>7
<1> HIDE DEF Good
<1>3. T \in Good
  BY <1>1, <1>2, SubsetInduction DEF Good
<1> QED BY <1>3 DEF Good

(* One term changed, the others kept. *)
LEMMA SumUpdate ==
  ASSUME NEW S, IsFiniteSet(S), NEW f, NEW g, NEW x \in S, IntOn(f, S), g[x] \in Int,
         \A y \in S \ {x} : g[y] = f[y]
  PROVE  SumFunctionOnSet(g, S) = SumFunctionOnSet(f, S) - f[x] + g[x]
<1> DEFINE R == S \ {x}
<1>1. IsFiniteSet(R) /\ IntOn(f, R) /\ IntOn(g, S) /\ f[x] \in Int
  BY Smaller DEF IntOn
<1>2. SumFunctionOnSet(f, S) = f[x] + SumFunctionOnSet(f, R)
  BY SumRemove
<1>3. SumFunctionOnSet(g, S) = g[x] + SumFunctionOnSet(g, R)
  BY <1>1, SumRemove
<1>4. SumFunctionOnSet(g, R) = SumFunctionOnSet(f, R) /\ SumFunctionOnSet(f, R) \in Int
  BY <1>1, SumAgree, SumInt
<1> HIDE DEF R
<1> QED BY <1>1, <1>2, <1>3, <1>4

(* How a sum over one state compares with a sum over the next: a term came *)
(* or went, the others kept their values.                                 *)
LEMMA SumAdded ==
  ASSUME NEW S, IsFiniteSet(S), NEW T, NEW x, x \notin S, T = S \cup {x},
         NEW f, NEW g, IntOn(f, S), g[x] \in Int, \A y \in S : g[y] = f[y]
  PROVE  SumFunctionOnSet(g, T) = SumFunctionOnSet(f, S) + g[x]
<1>1. IntOn(g, S) /\ SumFunctionOnSet(g, S) = SumFunctionOnSet(f, S)
  BY SumAgree DEF IntOn
<1>2. SumFunctionOnSet(g, T) = g[x] + SumFunctionOnSet(g, S)
  BY <1>1, SumAdd
<1>3. SumFunctionOnSet(f, S) \in Int
  BY SumInt
<1> QED BY <1>1, <1>2, <1>3

LEMMA SumRemoved ==
  ASSUME NEW S, IsFiniteSet(S), NEW T, NEW x \in S, T = S \ {x},
         NEW f, NEW g, IntOn(f, S), \A y \in T : g[y] = f[y]
  PROVE  SumFunctionOnSet(g, T) = SumFunctionOnSet(f, S) - f[x]
<1>1. IsFiniteSet(T) /\ IntOn(f, T) /\ f[x] \in Int
  BY Smaller DEF IntOn
<1>2. SumFunctionOnSet(f, S) = f[x] + SumFunctionOnSet(f, T)
  BY SumRemove
<1>3. SumFunctionOnSet(g, T) = SumFunctionOnSet(f, T)
  BY <1>1, SumAgree
<1>4. SumFunctionOnSet(f, T) \in Int
  BY <1>1, SumInt
<1> QED BY <1>1, <1>2, <1>3, <1>4

(* One row of a table changed: its old term goes, its new term comes. *)
LEMMA SumChange ==
  ASSUME NEW S, IsFiniteSet(S), NEW T, NEW x, S \ {x} = T \ {x},
         NEW f, NEW g, IntOn(f, S), IntOn(g, T), \A y \in S \ {x} : g[y] = f[y]
  PROVE  /\ IsFiniteSet(T)
         /\ SumFunctionOnSet(f, S) \in Int /\ SumFunctionOnSet(g, T) \in Int
         /\ SumFunctionOnSet(g, T) = SumFunctionOnSet(f, S) - (IF x \in S THEN f[x] ELSE 0)
                                                            + (IF x \in T THEN g[x] ELSE 0)
<1> DEFINE R == S \ {x}
<1>1. IsFiniteSet(R) /\ x \notin R /\ IntOn(f, R) /\ IntOn(g, R)
  BY FS_Subset DEF IntOn
<1>2. SumFunctionOnSet(g, R) = SumFunctionOnSet(f, R) /\ SumFunctionOnSet(f, R) \in Int
  BY <1>1, SumAgree, SumInt
<1>3. T = R \/ T = R \cup {x}
  OBVIOUS
<1>4. IsFiniteSet(T)
  BY <1>1, <1>3, FS_AddElement
<1>5. SumFunctionOnSet(f, S) \in Int /\ SumFunctionOnSet(g, T) \in Int
  BY <1>4, SumInt
<1>6. SumFunctionOnSet(f, S) = SumFunctionOnSet(f, R) + (IF x \in S THEN f[x] ELSE 0)
  <2>1. CASE x \in S
    BY <1>2, <2>1, SumRemove DEF IntOn
  <2>2. CASE x \notin S
    <3>1. S = R
      BY <2>2
    <3> HIDE DEF R
    <3> QED BY <1>2, <2>2, <3>1
  <2> QED BY <2>1, <2>2
<1>7. SumFunctionOnSet(g, T) = SumFunctionOnSet(g, R) + (IF x \in T THEN g[x] ELSE 0)
  <2>1. CASE x \in T
    <3>1. R = T \ {x}
      OBVIOUS
    <3> QED BY <1>2, <1>4, <2>1, <3>1, SumRemove DEF IntOn
  <2>2. CASE x \notin T
    <3>1. T = R
      BY <2>2
    <3> HIDE DEF R
    <3> QED BY <1>2, <2>2, <3>1
  <2> QED BY <2>1, <2>2
<1>8. (x \in S => f[x] \in Int) /\ (x \in T => g[x] \in Int)
  BY DEF IntOn
<1> HIDE DEF R
<1> QED BY <1>2, <1>4, <1>5, <1>6, <1>7, <1>8

(* One term gains m. *)
LEMMA SumMoved ==
  ASSUME NEW S, IsFiniteSet(S), NEW x, NEW f, NEW g, IntOn(f, S), IntOn(g, S),
         \A y \in S \ {x} : g[y] = f[y], NEW m \in Int, x \in S => g[x] = f[x] + m
  PROVE  SumFunctionOnSet(g, S) = SumFunctionOnSet(f, S) + (IF x \in S THEN m ELSE 0)
<1>0. PICK T : T = S
  OBVIOUS
<1>1. /\ SumFunctionOnSet(f, S) \in Int
      /\ SumFunctionOnSet(g, T) = SumFunctionOnSet(f, S) - (IF x \in S THEN f[x] ELSE 0)
                                                         + (IF x \in T THEN g[x] ELSE 0)
  <2>1. S \ {x} = T \ {x} /\ IntOn(g, T)
    BY <1>0
  <2> QED
    BY <2>1, SumChange
<1>2. x \in S => f[x] \in Int
  BY DEF IntOn
<1> QED
  BY <1>0, <1>1, <1>2

(* A smaller set of naturals has a smaller sum. *)
LEMMA SumSubset ==
  ASSUME NEW S, IsFiniteSet(S), NEW T \in SUBSET S, NEW f, \A x \in S : f[x] \in Nat
  PROVE  SumFunctionOnSet(f, T) <= SumFunctionOnSet(f, S)
<1> DEFINE R == S \ T
<1>1. IsFiniteSet(R) /\ IsFiniteSet(T) /\ R \cap T = {} /\ T \cup R = S
  BY FS_Subset
<1>2. IntOn(f, R) /\ IntOn(f, T)
  BY DEF IntOn
<1>3. SumFunctionOnSet(f, R) \in Nat /\ SumFunctionOnSet(f, T) \in Nat
  BY <1>1, SumNat
<1> HIDE DEF R
<1>4. SumFunctionOnSet(f, T \cup R) = SumFunctionOnSet(f, T) + SumFunctionOnSet(f, R)
  BY <1>1, <1>2, SumUnion
<1>5. SumFunctionOnSet(f, S) = SumFunctionOnSet(f, T) + SumFunctionOnSet(f, R)
  BY <1>1, <1>4
<1> QED BY <1>3, <1>5

(* A sum of sums. *)
LEMMA SumPlus ==
  ASSUME NEW S, IsFiniteSet(S), NEW f, NEW g, NEW h, IntOn(f, S), IntOn(g, S),
         \A x \in S : h[x] = f[x] + g[x]
  PROVE  SumFunctionOnSet(h, S) = SumFunctionOnSet(f, S) + SumFunctionOnSet(g, S)
<1> DEFINE Good == {s \in SUBSET S : SumFunctionOnSet(h, s)
                                     = SumFunctionOnSet(f, s) + SumFunctionOnSet(g, s)}
<1>1. {} \in Good
  BY SumEmpty
<1>2. ASSUME NEW s \in Good, NEW x \in S \ s  PROVE s \cup {x} \in Good
  <2>1. /\ IsFiniteSet(s) /\ IntOn(f, s) /\ IntOn(g, s) /\ IntOn(h, s)
        /\ f[x] \in Int /\ g[x] \in Int /\ h[x] \in Int /\ h[x] = f[x] + g[x]
    BY FS_Subset DEF IntOn
  <2>2. /\ SumFunctionOnSet(f, s \cup {x}) = f[x] + SumFunctionOnSet(f, s)
        /\ SumFunctionOnSet(g, s \cup {x}) = g[x] + SumFunctionOnSet(g, s)
        /\ SumFunctionOnSet(h, s \cup {x}) = h[x] + SumFunctionOnSet(h, s)
    BY <2>1, SumAdd
  <2>3. SumFunctionOnSet(f, s) \in Int /\ SumFunctionOnSet(g, s) \in Int
    BY <2>1, SumInt
  <2> QED BY <2>1, <2>2, <2>3
<1> HIDE DEF Good
<1>3. S \in Good
  BY <1>1, <1>2, SubsetInduction DEF Good
<1> QED BY <1>3 DEF Good

(* A sum is the sum over the values of a key of the terms with that key. *)
ByKey(f, S, key, W, g) ==
  /\ IsFiniteSet(S) /\ IsFiniteSet(W) /\ IntOn(f, S)
  /\ \A x \in S : key[x] \in W
  /\ \A w \in W : g[w] = SumFunctionOnSet(f, {x \in S : key[x] = w})

LEMMA SumByKey ==
  ASSUME NEW f, NEW S, NEW key, NEW W, NEW g, ByKey(f, S, key, W, g)
  PROVE  SumFunctionOnSet(f, S) = SumFunctionOnSet(g, W)
<1>0. /\ IsFiniteSet(S) /\ IsFiniteSet(W) /\ IntOn(f, S)
      /\ \A x \in S : key[x] \in W
      /\ \A w \in W : g[w] = SumFunctionOnSet(f, {x \in S : key[x] = w})
  BY DEF ByKey
<1> DEFINE At(s, w) == {x \in s : key[x] = w}
           by(s) == [w \in W |-> SumFunctionOnSet(f, At(s, w))]
           Good == {s \in SUBSET S : SumFunctionOnSet(f, s) = SumFunctionOnSet(by(s), W)}
<1>1. {} \in Good
  <2>1. \A w \in W : by({})[w] = 0
    <3>1. \A w \in W : At({}, w) = {}
      OBVIOUS
    <3> HIDE DEF At
    <3> QED BY <3>1, SumEmpty
  <2> HIDE DEF by
  <2>2. SumFunctionOnSet(by({}), W) = 0
    BY <1>0, <2>1, SumZero
  <2> QED BY <2>2, SumEmpty
<1>2. ASSUME NEW s \in Good, NEW x \in S \ s  PROVE s \cup {x} \in Good
  <2> DEFINE t == s \cup {x}
  <2>1. IsFiniteSet(s) /\ IntOn(f, s) /\ f[x] \in Int /\ key[x] \in W
    BY <1>0, FS_Subset DEF IntOn
  <2>2. \A w \in W : IsFiniteSet(At(s, w)) /\ IntOn(f, At(s, w))
    BY <2>1, FS_Subset DEF IntOn
  <2>3. \A w \in W : by(s)[w] = SumFunctionOnSet(f, At(s, w)) /\ by(s)[w] \in Int
    <3> HIDE DEF At
    <3> QED BY <2>2, SumInt
  <2>4. /\ At(t, key[x]) = At(s, key[x]) \cup {x} /\ x \notin At(s, key[x])
        /\ \A w \in W \ {key[x]} : At(t, w) = At(s, w)
    OBVIOUS
  <2>5. /\ by(t)[key[x]] = SumFunctionOnSet(f, At(t, key[x]))
        /\ \A w \in W \ {key[x]} : by(t)[w] = by(s)[w]
    <3> HIDE DEF At
    <3> QED BY <2>1, <2>4
  <2> DEFINE old == At(s, key[x])
             new == At(t, key[x])
             c == by(s)
             d == by(t)
  <2>6. d[key[x]] = f[x] + c[key[x]]
    <3>1. IsFiniteSet(old) /\ IntOn(f, old) /\ x \notin old /\ new = old \cup {x}
      BY <2>1, <2>2, <2>4
    <3>2. c[key[x]] = SumFunctionOnSet(f, old)
      BY <2>1
    <3>3. d[key[x]] = SumFunctionOnSet(f, new)
      BY <2>1
    <3> HIDE DEF old, new, c, d
    <3>4. SumFunctionOnSet(f, old \cup {x}) = f[x] + SumFunctionOnSet(f, old)
      BY <2>1, <3>1, SumAdd
    <3> QED BY <3>1, <3>2, <3>3, <3>4
  <2>7. SumFunctionOnSet(d, W) = SumFunctionOnSet(c, W) + f[x]
    <3>1. IntOn(c, W)
      BY <2>3 DEF IntOn
    <3>2. c[key[x]] \in Int /\ \A w \in W \ {key[x]} : d[w] = c[w]
      BY <2>1, <2>3, <2>5
    <3> HIDE DEF d, c
    <3>3. SumFunctionOnSet(d, W) = SumFunctionOnSet(c, W) - c[key[x]] + d[key[x]]
      <4>1. d[key[x]] \in Int
        BY <2>1, <2>6, <3>2
      <4>2. PICK k \in W : k = key[x]
        BY <2>1
      <4>3. \A w \in W \ {k} : d[w] = c[w]
        BY <3>2, <4>2
      <4>4. SumFunctionOnSet(d, W) = SumFunctionOnSet(c, W) - c[k] + d[k]
        BY <1>0, <3>1, <4>1, <4>2, <4>3, SumUpdate
      <4> QED BY <4>2, <4>4
    <3>4. SumFunctionOnSet(c, W) \in Int
      BY <1>0, <3>1, SumInt
    <3> QED BY <2>1, <2>6, <3>2, <3>3, <3>4
  <2>8. SumFunctionOnSet(f, t) = f[x] + SumFunctionOnSet(f, s)
    BY <2>1, SumAdd
  <2>9. SumFunctionOnSet(f, s) \in Int /\ SumFunctionOnSet(f, s) = SumFunctionOnSet(by(s), W)
    <3> HIDE DEF by
    <3> QED BY <2>1, SumInt
  <2>10. t \in SUBSET S
    OBVIOUS
  <2> HIDE DEF t, by
  <2>11. SumFunctionOnSet(f, t) = SumFunctionOnSet(by(t), W)
    BY <2>1, <2>7, <2>8, <2>9
  <2>12. t \in Good
    BY <2>10, <2>11
  <2> QED BY <2>12 DEF t
<1> HIDE DEF Good
<1>3. S \in Good
  BY <1>0, <1>1, <1>2, SubsetInduction DEF Good
<1>4. SumFunctionOnSet(by(S), W) = SumFunctionOnSet(g, W)
  <2>1. \A w \in W : by(S)[w] = g[w]
    BY <1>0
  <2> HIDE DEF by
  <2> QED BY <1>0, <2>1, SumAgree
<1> HIDE DEF by
<1> QED BY <1>3, <1>4 DEF Good

(* A bound on each term is a bound on the sum, the constant once per term. *)
LEMMA SumLinear ==
  ASSUME NEW S, IsFiniteSet(S), NEW f, NEW g, IntOn(f, S), IntOn(g, S),
         NEW a \in Int, NEW b \in Int, NEW c \in Int,
         \A x \in S : a * f[x] <= b * g[x] + c
  PROVE  a * SumFunctionOnSet(f, S) <= b * SumFunctionOnSet(g, S) + c * Cardinality(S)
<1> DEFINE Good == {s \in SUBSET S : a * SumFunctionOnSet(f, s)
                                       <= b * SumFunctionOnSet(g, s) + c * Cardinality(s)}
<1>1. {} \in Good
  BY SumEmpty, FS_EmptySet
<1>2. ASSUME NEW s \in Good, NEW x \in S \ s  PROVE s \cup {x} \in Good
  <2>1. IsFiniteSet(s) /\ IntOn(f, s) /\ IntOn(g, s) /\ f[x] \in Int /\ g[x] \in Int
    BY FS_Subset DEF IntOn
  <2>2. /\ SumFunctionOnSet(f, s \cup {x}) = f[x] + SumFunctionOnSet(f, s)
        /\ SumFunctionOnSet(g, s \cup {x}) = g[x] + SumFunctionOnSet(g, s)
    BY <2>1, SumAdd
  <2>3. SumFunctionOnSet(f, s) \in Int /\ SumFunctionOnSet(g, s) \in Int
    BY <2>1, SumInt
  <2>4. Cardinality(s) \in Int /\ Cardinality(s \cup {x}) = Cardinality(s) + 1
    <3>1. IsFiniteSet(s) /\ x \notin s
      BY <2>1
    <3> HIDE DEF Good
    <3> QED BY <3>1, FS_AddElement, FS_CardinalityType
  <2> DEFINE F == SumFunctionOnSet(f, s)
             G == SumFunctionOnSet(g, s)
             n == Cardinality(s)
  <2>5. a * F <= b * G + c * n /\ a * f[x] <= b * g[x] + c
    OBVIOUS
  <2>6. F \in Int /\ G \in Int /\ n \in Int
    BY <2>3, <2>4
  <2> HIDE DEF F, G, n, Good
  <2>7. /\ a * (f[x] + F) = a * f[x] + a * F /\ b * (g[x] + G) = b * g[x] + b * G
        /\ c * (n + 1) = c * n + c
    BY <2>1, <2>6
  <2>8. a * (f[x] + F) <= b * (g[x] + G) + c * (n + 1)
    BY <2>1, <2>5, <2>6, <2>7
  <2> QED BY <2>2, <2>4, <2>8 DEF F, G, n, Good
<1> HIDE DEF Good
<1>3. S \in Good
  BY <1>1, <1>2, SubsetInduction DEF Good
<1> QED BY <1>3 DEF Good

\* A sum of differences is the difference of the sums.
LEMMA SumMinus ==
  ASSUME NEW S, IsFiniteSet(S), NEW f, NEW g, NEW h, IntOn(f, S), IntOn(g, S),
         \A x \in S : h[x] = f[x] - g[x]
  PROVE  SumFunctionOnSet(h, S) = SumFunctionOnSet(f, S) - SumFunctionOnSet(g, S)
  <1>1. IntOn(h, S)
    BY DEF IntOn
  <1>2. \A x \in S : f[x] = h[x] + g[x]
    BY DEF IntOn
  <1>3. SumFunctionOnSet(f, S) = SumFunctionOnSet(h, S) + SumFunctionOnSet(g, S)
    BY <1>1, <1>2, SumPlus
  <1>4. SumFunctionOnSet(h, S) \in Int /\ SumFunctionOnSet(g, S) \in Int
    BY <1>1, SumInt
  <1> QED
    BY <1>3, <1>4

\* A common factor comes out of a sum.
LEMMA SumScale ==
  ASSUME NEW S, IsFiniteSet(S), NEW f, IntOn(f, S), NEW a \in Int, NEW h, \A x \in S : h[x] = a * f[x]
  PROVE  SumFunctionOnSet(h, S) = a * SumFunctionOnSet(f, S)
  <1>1. IntOn(h, S)
    BY DEF IntOn
  <1>2. PICK n \in Nat : n = Cardinality(S)
    BY FS_CardinalityType
  <1>3. PICK s \in Int : s = SumFunctionOnSet(f, S)
    BY SumInt
  <1>4. PICK t \in Int : t = SumFunctionOnSet(h, S)
    BY <1>1, SumInt
  <1>5. PICK i, o \in Int : i = 1 /\ o = 0
    OBVIOUS
  <1>6. i * t <= a * s + o * n
    <2>1. \A x \in S : i * h[x] <= a * f[x] + o
      BY <1>1, <1>5 DEF IntOn
    <2> QED
      BY <1>1, <1>2, <1>3, <1>4, <2>1, SumLinear
  <1>7. a * s <= i * t + o * n
    <2>1. \A x \in S : a * f[x] <= i * h[x] + o
      BY <1>1, <1>5 DEF IntOn
    <2> QED
      BY <1>1, <1>2, <1>3, <1>4, <2>1, SumLinear
  <1>8. PICK z \in Int : z = a * s
    OBVIOUS
  <1>9. i * t = t /\ o * n = 0
    BY <1>5
  <1>10. t <= z
    BY <1>6, <1>8, <1>9
  <1>11. z <= t
    BY <1>7, <1>8, <1>9
  <1>12. t = z
    BY <1>10, <1>11
  <1> QED
    BY <1>3, <1>4, <1>8, <1>12

\* Terms that are zero may be left out.
LEMMA SumFiltered ==
  ASSUME NEW T, IsFiniteSet(T), NEW S, S \subseteq T, NEW f, NEW e,
         \A x \in S : f[x] \in Int /\ e[x] = f[x], \A x \in T : x \notin S => f[x] = 0
  PROVE  SumFunctionOnSet(f, T) = SumFunctionOnSet(e, S)
  <1>1. PICK R : R = T \ S
    OBVIOUS
  <1>2. R \in SUBSET T /\ S \in SUBSET T /\ S \cap R = {} /\ T = S \cup R
    BY <1>1
  <1>3. IsFiniteSet(R) /\ IsFiniteSet(S)
    BY <1>2, FS_Subset
  <1>4. \A x \in R : f[x] = 0
    BY <1>1
  <1>5. IntOn(f, S) /\ IntOn(f, R)
    BY <1>4 DEF IntOn
  <1>6. SumFunctionOnSet(f, S \cup R) = SumFunctionOnSet(f, S) + SumFunctionOnSet(f, R)
    BY <1>2, <1>3, <1>5, SumUnion
  <1>7. SumFunctionOnSet(f, R) = 0
    BY <1>3, <1>4, SumZero
  <1>8. SumFunctionOnSet(e, S) = SumFunctionOnSet(f, S)
    BY <1>3, SumAgree
  <1>9. SumFunctionOnSet(f, S) \in Int
    BY <1>3, <1>5, SumInt
  <1> QED
    BY <1>2, <1>6, <1>7, <1>8, <1>9

\* f in cents and g in steps are within e of each other, twice.
Apart(c, f, g, e) == 2 * (c * f - g) <= e /\ -(2 * (c * f - g)) <= e

\* Rows that are near each other have sums that are near each other.
LEMMA SumApart ==
  ASSUME NEW S, IsFiniteSet(S), NEW f, NEW g, NEW e, IntOn(f, S), IntOn(g, S), IntOn(e, S), NEW c \in Int,
         \A x \in S : Apart(c, f[x], g[x], e[x])
  PROVE  Apart(c, SumFunctionOnSet(f, S), SumFunctionOnSet(g, S), SumFunctionOnSet(e, S))
  <1>1. PICK p : p = [x \in S |-> (2 * c) * f[x]]
    OBVIOUS
  <1>2. PICK q : q = [x \in S |-> 2 * g[x]]
    OBVIOUS
  <1>3. PICK h : h = [x \in S |-> p[x] - q[x]]
    OBVIOUS
  <1>4. PICK k : k = [x \in S |-> q[x] - p[x]]
    OBVIOUS
  <1>5. PICK a, b \in Int : a = 2 * c /\ b = 2
    OBVIOUS
  <1>6. (\A x \in S : p[x] = a * f[x]) /\ (\A x \in S : q[x] = b * g[x]) /\ IntOn(p, S) /\ IntOn(q, S)
    BY <1>1, <1>2, <1>5 DEF IntOn
  <1>7. SumFunctionOnSet(p, S) = a * SumFunctionOnSet(f, S)
    BY <1>6, SumScale
  <1>8. SumFunctionOnSet(q, S) = b * SumFunctionOnSet(g, S)
    BY <1>6, SumScale
  <1>9. \A x \in S : h[x] = p[x] - q[x]
    BY <1>3
  <1>10. \A x \in S : k[x] = q[x] - p[x]
    BY <1>4
  <1>11. SumFunctionOnSet(h, S) = SumFunctionOnSet(p, S) - SumFunctionOnSet(q, S)
    BY <1>6, <1>9, SumMinus
  <1>12. SumFunctionOnSet(k, S) = SumFunctionOnSet(q, S) - SumFunctionOnSet(p, S)
    BY <1>6, <1>10, SumMinus
  <1>13. ASSUME NEW x \in S PROVE h[x] \in Int /\ k[x] \in Int /\ h[x] <= e[x] /\ k[x] <= e[x]
    <2>1. PICK m \in Int : m = f[x]
      BY DEF IntOn
    <2>2. PICK n \in Int : n = g[x]
      BY DEF IntOn
    <2>3. PICK o \in Int : o = e[x]
      BY DEF IntOn
    <2>4. PICK z \in Int : z = c * m
      OBVIOUS
    <2>5. a * m = 2 * z
      BY <1>5, <2>4
    <2>6. h[x] = 2 * z - 2 * n /\ k[x] = 2 * n - 2 * z
      BY <1>5, <1>6, <1>9, <1>10, <2>1, <2>2, <2>5
    <2>7. 2 * (z - n) <= o /\ -(2 * (z - n)) <= o
      BY <2>1, <2>2, <2>3, <2>4 DEF Apart
    <2> QED
      BY <2>3, <2>6, <2>7
  <1>14. IntOn(h, S) /\ IntOn(k, S) /\ (\A x \in S : h[x] <= e[x]) /\ (\A x \in S : k[x] <= e[x])
    BY <1>13 DEF IntOn
  <1>15. SumFunctionOnSet(h, S) <= SumFunctionOnSet(e, S)
    BY <1>14, SumMonotone
  <1>16. SumFunctionOnSet(k, S) <= SumFunctionOnSet(e, S)
    BY <1>14, SumMonotone
  <1>17. PICK F \in Int : F = SumFunctionOnSet(f, S)
    BY SumInt
  <1>18. PICK G \in Int : G = SumFunctionOnSet(g, S)
    BY SumInt
  <1>19. PICK E \in Int : E = SumFunctionOnSet(e, S)
    BY SumInt
  <1>20. PICK z \in Int : z = c * F
    OBVIOUS
  <1>21. a * F = 2 * z /\ b * G = 2 * G
    BY <1>5, <1>20
  <1>22. 2 * z - 2 * G <= E /\ 2 * G - 2 * z <= E
    BY <1>7, <1>8, <1>11, <1>12, <1>15, <1>16, <1>17, <1>18, <1>19, <1>21
  <1> QED
    BY <1>17, <1>18, <1>19, <1>20, <1>22 DEF Apart

\* A sum of equal terms.
LEMMA SumOnes ==
  ASSUME NEW S, IsFiniteSet(S), NEW c \in Int, NEW f, \A x \in S : f[x] = c
  PROVE  SumFunctionOnSet(f, S) = c * Cardinality(S)
  <1>1. IntOn(f, S)
    BY DEF IntOn
  <1>2. PICK n \in Nat : n = Cardinality(S)
    BY FS_CardinalityType
  <1>3. PICK s \in Int : s = SumFunctionOnSet(f, S)
    BY <1>1, SumInt
  <1>4. PICK i, j, o, b \in Int : i = 1 /\ j = -1 /\ o = 0 /\ b = -c
    OBVIOUS
  <1>5. i * s <= o * s + c * n
    <2>1. \A x \in S : i * f[x] <= o * f[x] + c
      BY <1>4
    <2> QED
      BY <1>1, <1>2, <1>3, <2>1, SumLinear
  <1>6. j * s <= o * s + b * n
    <2>1. \A x \in S : j * f[x] <= o * f[x] + b
      BY <1>4
    <2> QED
      BY <1>1, <1>2, <1>3, <1>4, <2>1, SumLinear
  <1>7. PICK m \in Int : m = c * n
    OBVIOUS
  <1>8. i * s = s /\ j * s = -s /\ o * s = 0 /\ b * n = -m
    BY <1>4, <1>7
  <1>9. s <= m
    BY <1>5, <1>7, <1>8
  <1>10. -s <= -m
    BY <1>6, <1>8
  <1>11. s = m
    BY <1>9, <1>10
  <1> QED
    BY <1>2, <1>3, <1>7, <1>11

\* A sum of six terms is the six sums.
LEMMA SixSums ==
  ASSUME NEW S, IsFiniteSet(S), NEW a, NEW b, NEW c, NEW e, NEW f, NEW g, NEW h,
         IntOn(a, S), IntOn(b, S), IntOn(c, S), IntOn(e, S), IntOn(f, S), IntOn(g, S),
         \A x \in S : h[x] = a[x] - b[x] - c[x] - e[x] + f[x] + g[x]
  PROVE  /\ IntOn(h, S)
         /\ SumFunctionOnSet(h, S) =
              SumFunctionOnSet(a, S) - SumFunctionOnSet(b, S) - SumFunctionOnSet(c, S)
              - SumFunctionOnSet(e, S) + SumFunctionOnSet(f, S) + SumFunctionOnSet(g, S)
  <1>1. PICK p : p = [x \in S |-> a[x] - b[x]]
    OBVIOUS
  <1>2. PICK q : q = [x \in S |-> p[x] - c[x]]
    OBVIOUS
  <1>3. PICK r : r = [x \in S |-> q[x] - e[x]]
    OBVIOUS
  <1>4. PICK t : t = [x \in S |-> r[x] + f[x]]
    OBVIOUS
  <1>5. /\ \A x \in S : p[x] = a[x] - b[x]
        /\ \A x \in S : q[x] = p[x] - c[x]
        /\ \A x \in S : r[x] = q[x] - e[x]
        /\ \A x \in S : t[x] = r[x] + f[x]
        /\ \A x \in S : h[x] = t[x] + g[x]
        /\ IntOn(p, S) /\ IntOn(q, S) /\ IntOn(r, S) /\ IntOn(t, S) /\ IntOn(h, S)
    BY <1>1, <1>2, <1>3, <1>4 DEF IntOn
  <1>6. SumFunctionOnSet(p, S) = SumFunctionOnSet(a, S) - SumFunctionOnSet(b, S)
    BY <1>5, SumMinus
  <1>7. SumFunctionOnSet(q, S) = SumFunctionOnSet(p, S) - SumFunctionOnSet(c, S)
    BY <1>5, SumMinus
  <1>8. SumFunctionOnSet(r, S) = SumFunctionOnSet(q, S) - SumFunctionOnSet(e, S)
    BY <1>5, SumMinus
  <1>9. SumFunctionOnSet(t, S) = SumFunctionOnSet(r, S) + SumFunctionOnSet(f, S)
    BY <1>5, SumPlus
  <1>10. SumFunctionOnSet(h, S) = SumFunctionOnSet(t, S) + SumFunctionOnSet(g, S)
    BY <1>5, SumPlus
  <1> QED
    BY <1>5, <1>6, <1>7, <1>8, <1>9, <1>10
=============================================================================
