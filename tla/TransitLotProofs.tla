---------------------------- MODULE TransitLotProofs ----------------------------
(***************************************************************************)
(* Proofs about WarehouseCustody, then about TransitLot, which extends it. *)
(*                                                                         *)
(* Custody: the two records of a delivery agree, the custody ledger stays  *)
(* within what the customer bought, and no more comes back than went out.  *)
(* Lots: no unit is lost or counted twice, customers receive what arrived  *)
(* for them and in the order of their sales, and the status of the lot     *)
(* says whether anything is still to come.                                 *)
(***************************************************************************)
EXTENDS TransitLotProperties, WarehouseCustodyProperties, SumTheorems, SequenceTheorems

CheckFields == {"status", "line", "warehouse", "quantity"}
EventFields == {"key", "type", "line", "warehouse", "quantity", "reference", "reversed"}

\* The check rows by shape.
ChecksShaped ==
  /\ checks = [c \in Check |-> checks[c]]
  /\ DOMAIN checks = Check
  /\ \A c \in Check : checks[c] = Absent \/ DOMAIN checks[c] = CheckFields

\* A release names its check in its key, the check is past its draft, and no
\* placement has such a key.
KeyOK(e) ==
  /\ DOMAIN e = EventFields
  /\ e = [i \in EventFields |-> e[i]]
  /\ e.type \in {"PLACED", "RELEASED"}
  /\ e.type = "RELEASED" =>
       /\ e.reference \in Check
       /\ e.key = <<"release", e.reference>>
       /\ checks[e.reference].status \in {"FINALIZED", "CANCELLED"}
  /\ e.type = "PLACED" => \A c \in Check : e.key # <<"release", c>>

KeysOfReleases == \A e \in events : KeyOK(e)

\* The releases of a check that stand.
InForce(c) == {e \in events : e.type = "RELEASED" /\ e.reference = c /\ ~e.reversed}

ReleaseInv == ChecksShaped /\ KeysOfReleases /\ ReleasesMatchChecks
-----------------------------------------------------------------------------
\* No checks and no events at first.
LEMMA ReleaseInit == CustodyInit => ReleaseInv
  BY DEF CustodyInit, ReleaseInv, ChecksShaped, KeysOfReleases, ReleasesMatchChecks, Absent

\* A prepared check takes an absent row, which no release refers to.
LEMMA PrepareKeeps ==
  ASSUME ReleaseInv, NEW c \in Check, NEW l \in Line, NEW w \in Warehouse,
         NEW q \in 1 .. Quantity[l], PrepareCheck(c, l, w, q)
  PROVE  ReleaseInv'
  <1> DEFINE row == [status |-> "DRAFT", line |-> l, warehouse |-> w, quantity |-> q]
  <1>1. checks[c] = Absent /\ checks' = [checks EXCEPT ![c] = row] /\ events' = events
    BY DEF PrepareCheck
  <1>2. /\ checks'[c] = row /\ row.status = "DRAFT" /\ DOMAIN row = CheckFields
        /\ \A d \in Check \ {c} : checks'[d] = checks[d]
    BY <1>1 DEF ReleaseInv, ChecksShaped, CheckFields
  <1> HIDE DEF row
  <1>3. ChecksShaped'
    BY <1>1, <1>2 DEF ReleaseInv, ChecksShaped
  <1>4. \A e \in events : e.type = "RELEASED" => e.reference # c
    BY <1>1 DEF ReleaseInv, KeysOfReleases, KeyOK, Absent
  <1>5. KeysOfReleases'
    BY <1>1, <1>2, <1>4 DEF ReleaseInv, KeysOfReleases, KeyOK
  <1>6. ReleasesMatchChecks'
    BY <1>1, <1>2, <1>4 DEF ReleaseInv, ReleasesMatchChecks
  <1> QED
    BY <1>3, <1>5, <1>6 DEF ReleaseInv

\* Finalizing adds one release, under a key that no event has yet, and at most
\* a placement.
LEMMA FinalizeKeeps ==
  ASSUME ReleaseInv, NEW c \in Check, FinalizeCheck(c, NoKey)
  PROVE  ReleaseInv'
  <1> DEFINE missing == checks[c].quantity - Balance(checks[c].line, checks[c].warehouse)
             placement == CheckEvent(c, "PLACED", <<"place", c>>, missing)
             release == CheckEvent(c, "RELEASED", <<"release", c>>, checks[c].quantity)
  <1>1. /\ checks[c].status = "DRAFT"
        /\ checks' = [checks EXCEPT ![c].status = "FINALIZED"]
        /\ events' = WithEvent(Placed(c, NoKey), release)
    BY DEF FinalizeCheck
  <1>2. /\ placement.type = "PLACED" /\ placement.key = <<"place", c>>
        /\ DOMAIN placement = EventFields
        /\ placement = [i \in EventFields |-> placement[i]]
    BY DEF CheckEvent, EventFields
  <1>3. /\ release.type = "RELEASED" /\ release.key = <<"release", c>>
        /\ release.reference = c /\ release.reversed = FALSE
        /\ release.quantity = checks[c].quantity
        /\ DOMAIN release = EventFields
        /\ release = [i \in EventFields |-> release[i]]
    BY DEF CheckEvent, EventFields
  <1>4. Placed(c, NoKey) = events \/ Placed(c, NoKey) = events \cup {placement}
    BY DEF Placed, WithEvent
  <1> HIDE DEF missing, placement, release
  <1>5. \A e \in events : e.key # <<"release", c>> /\ (e.type = "RELEASED" => e.reference # c)
    BY <1>1 DEF ReleaseInv, KeysOfReleases, KeyOK
  <1>6. \A d \in Check : <<"place", c>> # <<"release", d>>
    OBVIOUS
  <1>7. events' = Placed(c, NoKey) \cup {release}
    BY <1>1, <1>2, <1>3, <1>4, <1>5, <1>6 DEF WithEvent
  <1>8. /\ DOMAIN checks[c] = CheckFields
        /\ checks'[c].status = "FINALIZED" /\ checks'[c].quantity = checks[c].quantity
        /\ DOMAIN checks'[c] = CheckFields
        /\ \A d \in Check \ {c} : checks'[d] = checks[d]
    <2>1. DOMAIN checks[c] = CheckFields
      BY <1>1 DEF ReleaseInv, ChecksShaped, Absent
    <2> QED
      BY <1>1, <2>1 DEF ReleaseInv, ChecksShaped, CheckFields
  <1>9. ChecksShaped'
    BY <1>1, <1>8 DEF ReleaseInv, ChecksShaped
  <1>10. \A e \in events' : e \in events \/ e = placement \/ e = release
    BY <1>4, <1>7
  <1>11. KeysOfReleases'
    <2> SUFFICES ASSUME NEW e \in events' PROVE KeyOK(e)'
      BY DEF KeysOfReleases
    <2>1. CASE e \in events
      BY <1>8, <2>1 DEF ReleaseInv, KeysOfReleases, KeyOK
    <2>2. CASE e = placement
      BY <1>2, <1>6, <2>2 DEF KeyOK
    <2>3. CASE e = release
      BY <1>3, <1>8, <2>3 DEF KeyOK
    <2> QED
      BY <1>10, <2>1, <2>2, <2>3
  <1>12. InForce(c)' = {release}
    BY <1>2, <1>3, <1>5, <1>7, <1>10 DEF InForce
  <1>13. \A d \in Check \ {c} : InForce(d)' = InForce(d)
    BY <1>2, <1>3, <1>4, <1>7 DEF InForce
  <1>14. ReleasesMatchChecks'
    BY <1>3, <1>8, <1>12, <1>13 DEF ReleaseInv, ReleasesMatchChecks, InForce
  <1> QED
    BY <1>9, <1>11, <1>14 DEF ReleaseInv

\* What the reversal of an event that keeps its key leaves alone.
LEMMA ReversedEvent ==
  ASSUME ReleaseInv, NEW e \in events
  PROVE  LET r == [e EXCEPT !.reversed = TRUE]
         IN /\ DOMAIN r = EventFields /\ r = [i \in EventFields |-> r[i]]
            /\ r.reversed
            /\ \A i \in EventFields \ {"reversed"} : r[i] = e[i]
  BY DEF ReleaseInv, KeysOfReleases, KeyOK, EventFields

\* Cancelling a check reverses its one release.
LEMMA CancelKeeps ==
  ASSUME ReleaseInv, NEW c \in Check, CancelCheck(c)
  PROVE  ReleaseInv'
  <1>1. /\ checks[c].status = "FINALIZED"
        /\ checks' = [checks EXCEPT ![c].status = "CANCELLED"]
    BY DEF CancelCheck
  <1>2. PICK e \in InForce(c) : events' = (events \ {e}) \cup {[e EXCEPT !.reversed = TRUE]}
    BY DEF CancelCheck, InForce
  <1> DEFINE r == [e EXCEPT !.reversed = TRUE]
  <1>3. /\ DOMAIN r = EventFields /\ r = [i \in EventFields |-> r[i]] /\ r.reversed
        /\ r.type = e.type /\ r.reference = e.reference /\ r.key = e.key
    BY <1>2, ReversedEvent DEF InForce, EventFields
  <1> HIDE DEF r
  <1>4. events' = (events \ {e}) \cup {r}
    BY <1>2 DEF r
  <1>5. /\ checks'[c].status = "CANCELLED" /\ DOMAIN checks'[c] = CheckFields
        /\ \A d \in Check \ {c} : checks'[d] = checks[d]
    <2>1. DOMAIN checks[c] = CheckFields
      BY <1>1 DEF ReleaseInv, ChecksShaped, Absent
    <2> QED
      BY <1>1, <2>1 DEF ReleaseInv, ChecksShaped, CheckFields
  <1>6. ChecksShaped'
    BY <1>1, <1>5 DEF ReleaseInv, ChecksShaped
  <1>7. KeysOfReleases'
    <2> SUFFICES ASSUME NEW f \in events' PROVE KeyOK(f)'
      BY DEF KeysOfReleases
    <2>1. CASE f \in events
      BY <1>5, <2>1 DEF ReleaseInv, KeysOfReleases, KeyOK
    <2>2. CASE f = r
      BY <1>2, <1>3, <1>5, <2>2 DEF ReleaseInv, KeysOfReleases, KeyOK, InForce
    <2> QED
      BY <1>4, <2>1, <2>2
  <1>8. InForce(c) = {e}
    BY <1>1, <1>2 DEF ReleaseInv, ReleasesMatchChecks, InForce
  <1>9. InForce(c)' = {}
    BY <1>3, <1>4, <1>8 DEF InForce
  <1>10. \A d \in Check \ {c} : InForce(d)' = InForce(d)
    BY <1>2, <1>3, <1>4 DEF InForce
  <1>11. ReleasesMatchChecks'
    BY <1>5, <1>9, <1>10 DEF ReleaseInv, ReleasesMatchChecks, InForce
  <1> QED
    BY <1>6, <1>7, <1>11 DEF ReleaseInv

\* The reversal of a placement is no release's.
LEMMA ReversePlacementKeeps ==
  ASSUME ReleaseInv, NEW e \in events, ReversePlacement(e)
  PROVE  ReleaseInv'
  <1> DEFINE r == [e EXCEPT !.reversed = TRUE]
  <1>1. /\ e.type = "PLACED" /\ checks' = checks
        /\ events' = (events \ {e}) \cup {r}
    BY DEF ReversePlacement
  <1>2. /\ DOMAIN r = EventFields /\ r = [i \in EventFields |-> r[i]]
        /\ r.type = e.type /\ r.key = e.key
    BY ReversedEvent DEF EventFields
  <1> HIDE DEF r
  <1>3. ChecksShaped'
    BY <1>1 DEF ReleaseInv, ChecksShaped
  <1>4. KeysOfReleases'
    BY <1>1, <1>2 DEF ReleaseInv, KeysOfReleases, KeyOK
  <1>5. \A c \in Check : InForce(c)' = InForce(c)
    BY <1>1, <1>2 DEF InForce
  <1>6. ReleasesMatchChecks'
    BY <1>1, <1>5 DEF ReleaseInv, ReleasesMatchChecks, InForce
  <1> QED
    BY <1>3, <1>4, <1>6 DEF ReleaseInv
-----------------------------------------------------------------------------
\* Every step keeps the invariant when the checks name their events themselves.
LEMMA ReleaseStep ==
  ASSUME CallerKey = {}
  PROVE  ReleaseInv /\ [CustodyNext]_custodyVars => ReleaseInv'
  <1> SUFFICES ASSUME ReleaseInv, [CustodyNext]_custodyVars PROVE ReleaseInv'
    OBVIOUS
  <1>1. ASSUME UNCHANGED <<checks, events>> PROVE ReleaseInv'
    BY <1>1 DEF ReleaseInv, ChecksShaped, KeysOfReleases, KeyOK, ReleasesMatchChecks
  <1>2. ASSUME NEW l \in Line, Entitle(l) PROVE ReleaseInv'
    BY <1>1, <1>2 DEF Entitle
  <1>3. ASSUME NEW c \in Check, CheckStep(c) PROVE ReleaseInv'
    BY <1>3, PrepareKeeps, FinalizeKeeps, CancelKeeps DEF CheckStep
  <1>4. ASSUME NEW r \in Return, CustodyReturnStep(r) PROVE ReleaseInv'
    BY <1>1, <1>4 DEF CustodyReturnStep, CreateReturn, ReverseReturn
  <1>5. ASSUME NEW l \in Line, ResolveObligation(l) PROVE ReleaseInv'
    BY <1>1, <1>5 DEF ResolveObligation
  <1>6. CASE UNCHANGED custodyVars
    BY <1>1, <1>6 DEF custodyVars
  <1> QED
    BY <1>2, <1>3, <1>4, <1>5, <1>6, ReversePlacementKeeps DEF CustodyNext, CustodyStep

\* While no caller brings a key, a finalized check has exactly one release in
\* force, of its quantity, and no other check has one, however checks are
\* prepared, finalized and cancelled (sales/services.py
\* finalize_warehouse_check, cancel_warehouse_check).
THEOREM ReleasesAgree ==
  ASSUME CallerKey = {}
  PROVE  CustodySpec => []ReleasesMatchChecks
  <1>1. ReleaseInv => ReleasesMatchChecks
    BY DEF ReleaseInv
  <1>2. ReleaseInv /\ [CustodyNext]_custodyVars => ReleaseInv'
    BY ReleaseStep
  <1> QED
    BY <1>1, <1>2, ReleaseInit, PTL DEF CustodySpec
-----------------------------------------------------------------------------
(***************************************************************************)
(* Units.  What a set of events, or a table of checks or of returns, adds  *)
(* up to for a line at some warehouses, and how one event or row more, or  *)
(* less, changes it.  Stated for any set and table, so that the same facts *)
(* serve a state and the next one.                                         *)
(***************************************************************************)
Matching(E, type, l, W) ==
  {e \in E : e.type = type /\ e.line = l /\ e.warehouse \in W /\ ~e.reversed}

TotalOf(E, type, l, W) ==
  SumFunctionOnSet([e \in Matching(E, type, l, W) |-> e.quantity], Matching(E, type, l, W))

CountedRows(T, status, l, W) ==
  {i \in DOMAIN T : T[i].status = status /\ T[i].line = l /\ T[i].warehouse \in W}

UnitsOf(T, status, l, W) ==
  SumFunctionOnSet([i \in CountedRows(T, status, l, W) |-> T[i].quantity],
                   CountedRows(T, status, l, W))

Present(T) == {i \in DOMAIN T : T[i].status # "ABSENT"}

Table(T) == \A i \in Present(T) : T[i].quantity \in Nat

LEMMA TotalIsNat ==
  ASSUME NEW E \in SUBSET Event, IsFiniteSet(E), NEW type, NEW l, NEW W
  PROVE  TotalOf(E, type, l, W) \in Nat
  <1> DEFINE S == Matching(E, type, l, W)
             f == [e \in S |-> e.quantity]
  <1>1. IsFiniteSet(S) /\ \A e \in S : f[e] \in Nat
    BY FS_Subset DEF Matching, Event
  <1> HIDE DEF S, f
  <1>2. SumFunctionOnSet(f, S) \in Nat
    BY <1>1, SumNat
  <1> QED
    BY <1>2 DEF TotalOf, S, f

\* An event in force adds its units where it belongs.
LEMMA EventAdds ==
  ASSUME NEW E \in SUBSET Event, IsFiniteSet(E), NEW x \in Event, x \notin E, ~x.reversed,
         NEW type, NEW l, NEW W
  PROVE  TotalOf(E \cup {x}, type, l, W) = TotalOf(E, type, l, W)
           + (IF x.type = type /\ x.line = l /\ x.warehouse \in W THEN x.quantity ELSE 0)
  <1> DEFINE S == Matching(E, type, l, W)
             T == Matching(E \cup {x}, type, l, W)
             f == [e \in S |-> e.quantity]
             g == [e \in T |-> e.quantity]
  <1>1. IsFiniteSet(S) /\ IntOn(f, S) /\ IntOn(g, T) /\ S \ {x} = T \ {x} /\ x \notin S
    BY FS_Subset DEF Matching, Event, IntOn
  <1>2. \A e \in S \ {x} : g[e] = f[e]
    BY DEF Matching
  <1>3. x \in T <=> x.type = type /\ x.line = l /\ x.warehouse \in W
    BY DEF Matching
  <1>4. x \in T => g[x] = x.quantity
    OBVIOUS
  <1>5. TotalOf(E, type, l, W) = SumFunctionOnSet(f, S)
        /\ TotalOf(E \cup {x}, type, l, W) = SumFunctionOnSet(g, T)
    BY DEF TotalOf
  <1> HIDE DEF S, T, f, g
  <1>6. /\ SumFunctionOnSet(f, S) \in Int /\ SumFunctionOnSet(g, T) \in Int
        /\ SumFunctionOnSet(g, T) = SumFunctionOnSet(f, S) - (IF x \in S THEN f[x] ELSE 0)
                                                           + (IF x \in T THEN g[x] ELSE 0)
    BY <1>1, <1>2, SumChange
  <1> QED
    BY <1>1, <1>3, <1>4, <1>5, <1>6

\* An event reversed takes its units away.
LEMMA ReversalTakes ==
  ASSUME NEW E \in SUBSET Event, IsFiniteSet(E), NEW x \in E, ~x.reversed,
         NEW r \in Event, r.reversed, NEW type, NEW l, NEW W
  PROVE  TotalOf((E \ {x}) \cup {r}, type, l, W) = TotalOf(E, type, l, W)
           - (IF x.type = type /\ x.line = l /\ x.warehouse \in W THEN x.quantity ELSE 0)
  <1> DEFINE S == Matching(E, type, l, W)
             T == Matching((E \ {x}) \cup {r}, type, l, W)
             f == [e \in S |-> e.quantity]
             g == [e \in T |-> e.quantity]
  <1>0. T \in SUBSET (E \ {x}) /\ S \ {x} = T
    BY DEF Matching
  <1>1. IsFiniteSet(S) /\ IntOn(f, S) /\ IntOn(g, T) /\ S \ {x} = T \ {x} /\ x \notin T
    <2>1. IsFiniteSet(S) /\ S \in SUBSET E
      BY FS_Subset DEF Matching
    <2>2. \A e \in E : e.quantity \in Int
      BY DEF Event
    <2> QED
      BY <1>0, <2>1, <2>2 DEF IntOn
  <1>2. \A e \in S \ {x} : g[e] = f[e]
    BY <1>0
  <1>3. x \in S <=> x.type = type /\ x.line = l /\ x.warehouse \in W
    BY DEF Matching
  <1>4. x \in S => f[x] = x.quantity
    OBVIOUS
  <1>5. TotalOf(E, type, l, W) = SumFunctionOnSet(f, S)
        /\ TotalOf((E \ {x}) \cup {r}, type, l, W) = SumFunctionOnSet(g, T)
    BY DEF TotalOf
  <1> HIDE DEF S, T, f, g
  <1>6. /\ SumFunctionOnSet(f, S) \in Int /\ SumFunctionOnSet(g, T) \in Int
        /\ SumFunctionOnSet(g, T) = SumFunctionOnSet(f, S) - (IF x \in S THEN f[x] ELSE 0)
                                                           + (IF x \in T THEN g[x] ELSE 0)
    BY <1>1, <1>2, SumChange
  <1>7. x.quantity \in Int /\ x \notin T
    BY <1>1 DEF Event
  <1>8. SumFunctionOnSet(g, T) = SumFunctionOnSet(f, S) - (IF x \in S THEN x.quantity ELSE 0)
    BY <1>4, <1>6, <1>7
  <1> QED
    BY <1>3, <1>5, <1>8

LEMMA UnitsAreNat ==
  ASSUME NEW T, Table(T), IsFiniteSet(Present(T)), NEW status, status # "ABSENT", NEW l, NEW W
  PROVE  UnitsOf(T, status, l, W) \in Nat
  <1> DEFINE S == CountedRows(T, status, l, W)
             f == [i \in S |-> T[i].quantity]
  <1>1. S \in SUBSET Present(T)
    BY DEF CountedRows, Present
  <1>2. IsFiniteSet(S) /\ \A i \in S : f[i] \in Nat
    BY <1>1, FS_Subset DEF Table
  <1> HIDE DEF S, f
  <1>3. SumFunctionOnSet(f, S) \in Nat
    BY <1>2, SumNat
  <1> QED
    BY <1>3 DEF UnitsOf, S, f

\* A changed row takes what it counted for and brings what it counts for now.
Counts(T, i, status, l, W) ==
  IF T[i].status = status /\ T[i].line = l /\ T[i].warehouse \in W THEN T[i].quantity ELSE 0

LEMMA RowChanges ==
  ASSUME NEW T, NEW U, DOMAIN U = DOMAIN T, Table(T), Table(U), IsFiniteSet(Present(T)),
         NEW x \in DOMAIN T, \A i \in DOMAIN T \ {x} : U[i] = T[i],
         NEW status, status # "ABSENT", NEW l, NEW W
  PROVE  UnitsOf(U, status, l, W) = UnitsOf(T, status, l, W) - Counts(T, x, status, l, W)
                                                           + Counts(U, x, status, l, W)
  <1> DEFINE S == CountedRows(T, status, l, W)
             V == CountedRows(U, status, l, W)
             f == [i \in S |-> T[i].quantity]
             g == [i \in V |-> U[i].quantity]
  <1>1. S \in SUBSET Present(T) /\ V \in SUBSET Present(U)
    BY DEF CountedRows, Present
  <1>2. IsFiniteSet(S) /\ IntOn(f, S) /\ IntOn(g, V)
    BY <1>1, FS_Subset DEF Table, IntOn
  <1>3. S \ {x} = V \ {x}
    BY DEF CountedRows
  <1>4. \A i \in S \ {x} : g[i] = f[i]
    BY <1>3 DEF CountedRows
  <1>5. /\ (IF x \in S THEN f[x] ELSE 0) = Counts(T, x, status, l, W)
        /\ (IF x \in V THEN g[x] ELSE 0) = Counts(U, x, status, l, W)
    BY DEF CountedRows, Counts
  <1>6. UnitsOf(T, status, l, W) = SumFunctionOnSet(f, S)
        /\ UnitsOf(U, status, l, W) = SumFunctionOnSet(g, V)
    BY DEF UnitsOf
  <1> HIDE DEF S, V, f, g
  <1>7. SumFunctionOnSet(g, V) = SumFunctionOnSet(f, S) - (IF x \in S THEN f[x] ELSE 0)
                                                        + (IF x \in V THEN g[x] ELSE 0)
    BY <1>2, <1>3, <1>4, SumChange
  <1> QED
    BY <1>5, <1>6, <1>7

\* One row more or less leaves the rows present finite.
LEMMA StaysFinite ==
  ASSUME NEW T, NEW U, DOMAIN U = DOMAIN T, IsFiniteSet(Present(T)),
         NEW x, \A i \in DOMAIN T \ {x} : U[i] = T[i]
  PROVE  IsFiniteSet(Present(U))
  <1>1. Present(U) \in SUBSET (Present(T) \cup {x})
    BY DEF Present
  <1> QED
    BY <1>1, FS_AddElement, FS_Subset
-----------------------------------------------------------------------------
(* The rows are of their types, and there are finitely many. *)
CustodyTyped ==
  /\ CustodyTypeOK
  /\ IsFiniteSet(events)
  /\ IsFiniteSet(Present(checks))
  /\ IsFiniteSet(Present(returns))

LEMMA RowsTyped ==
  ASSUME CustodyTyped
  PROVE  /\ DOMAIN checks = Check /\ Table(checks)
         /\ \A c \in Check : checks[c] = Absent \/ checks[c] \in CheckRow
         /\ DOMAIN returns = Return /\ Table(returns)
         /\ \A r \in Return : returns[r] = Absent \/ returns[r] \in ReturnRow
  BY DEF CustodyTyped, CustodyTypeOK, Table, Present, Absent, CheckRow, ReturnRow

LEMMA TotalsAreNat ==
  ASSUME CustodyTyped, NEW l, NEW W
  PROVE  /\ \A type : Total(type, l, W) = TotalOf(events, type, l, W) /\ Total(type, l, W) \in Nat
         /\ ReleasedFrom(l, W) = UnitsOf(checks, "FINALIZED", l, W) /\ ReleasedFrom(l, W) \in Nat
         /\ ReturnedTo(l, W) = UnitsOf(returns, "POSTED", l, W) /\ ReturnedTo(l, W) \in Nat
  <1>1. \A type : Total(type, l, W) = TotalOf(events, type, l, W)
    BY DEF Total, Sum, TotalOf, Matching
  <1>2. \A type : TotalOf(events, type, l, W) \in Nat
    BY TotalIsNat DEF CustodyTyped, CustodyTypeOK
  <1>3. ReleasedFrom(l, W) = UnitsOf(checks, "FINALIZED", l, W)
        /\ ReturnedTo(l, W) = UnitsOf(returns, "POSTED", l, W)
    BY RowsTyped DEF ReleasedFrom, ReturnedTo, Sum, UnitsOf, CountedRows
  <1>4. UnitsOf(checks, "FINALIZED", l, W) \in Nat /\ UnitsOf(returns, "POSTED", l, W) \in Nat
    BY RowsTyped, UnitsAreNat DEF CustodyTyped
  <1> QED
    BY <1>1, <1>2, <1>3, <1>4

LEMMA BalanceIsInt ==
  ASSUME CustodyTyped, NEW l, NEW w
  PROVE  Balance(l, w) \in Int
  <1>1. Total("PLACED", l, {w}) \in Nat /\ Total("RELEASED", l, {w}) \in Nat
    BY TotalsAreNat
  <1> QED
    BY <1>1 DEF Balance

\* What one row changed in the table of checks does to what was delivered.
LEMMA ChecksChange ==
  ASSUME CustodyTyped, CustodyTypeOK', NEW c \in Check,
         \A d \in Check \ {c} : checks'[d] = checks[d]
  PROVE  /\ IsFiniteSet(Present(checks'))
         /\ \A l, W : ReleasedFrom(l, W)' = ReleasedFrom(l, W) - Counts(checks, c, "FINALIZED", l, W)
                                                               + Counts(checks', c, "FINALIZED", l, W)
  <1>1. DOMAIN checks' = Check /\ Table(checks')
    BY DEF CustodyTypeOK, Table, Present, Absent, CheckRow
  <1>2. IsFiniteSet(Present(checks')) /\ IsFiniteSet(Present(checks))
    BY <1>1, RowsTyped, StaysFinite DEF CustodyTyped
  <1>3. ASSUME NEW l, NEW W
        PROVE  ReleasedFrom(l, W)' = ReleasedFrom(l, W) - Counts(checks, c, "FINALIZED", l, W)
                                                        + Counts(checks', c, "FINALIZED", l, W)
    <2>1. /\ ReleasedFrom(l, W) = UnitsOf(checks, "FINALIZED", l, W)
          /\ ReleasedFrom(l, W)' = UnitsOf(checks', "FINALIZED", l, W)
      BY <1>1, RowsTyped DEF ReleasedFrom, Sum, UnitsOf, CountedRows
    <2>2. UnitsOf(checks', "FINALIZED", l, W)
            = UnitsOf(checks, "FINALIZED", l, W) - Counts(checks, c, "FINALIZED", l, W)
                                                 + Counts(checks', c, "FINALIZED", l, W)
      BY <1>1, <1>2, RowsTyped, RowChanges
    <2> QED
      BY <2>1, <2>2
  <1> QED
    BY <1>2, <1>3

LEMMA ReturnsChange ==
  ASSUME CustodyTyped, CustodyTypeOK', NEW r \in Return,
         \A d \in Return \ {r} : returns'[d] = returns[d]
  PROVE  /\ IsFiniteSet(Present(returns'))
         /\ \A l, W : ReturnedTo(l, W)' = ReturnedTo(l, W) - Counts(returns, r, "POSTED", l, W)
                                                           + Counts(returns', r, "POSTED", l, W)
  <1>1. DOMAIN returns' = Return /\ Table(returns')
    BY DEF CustodyTypeOK, Table, Present, Absent, ReturnRow
  <1>2. IsFiniteSet(Present(returns')) /\ IsFiniteSet(Present(returns))
    BY <1>1, RowsTyped, StaysFinite DEF CustodyTyped
  <1>3. ASSUME NEW l, NEW W
        PROVE  ReturnedTo(l, W)' = ReturnedTo(l, W) - Counts(returns, r, "POSTED", l, W)
                                                    + Counts(returns', r, "POSTED", l, W)
    <2>1. /\ ReturnedTo(l, W) = UnitsOf(returns, "POSTED", l, W)
          /\ ReturnedTo(l, W)' = UnitsOf(returns', "POSTED", l, W)
      BY <1>1, RowsTyped DEF ReturnedTo, Sum, UnitsOf, CountedRows
    <2>2. UnitsOf(returns', "POSTED", l, W)
            = UnitsOf(returns, "POSTED", l, W) - Counts(returns, r, "POSTED", l, W)
                                               + Counts(returns', r, "POSTED", l, W)
      BY <1>1, <1>2, RowsTyped, RowChanges
    <2> QED
      BY <2>1, <2>2
  <1> QED
    BY <1>2, <1>3

LEMMA TypedInit == CustodyInit => CustodyTyped
  <1> SUFFICES ASSUME CustodyInit PROVE CustodyTyped
    OBVIOUS
  <1>1. CustodyTypeOK
    BY DEF CustodyInit, CustodyTypeOK
  <1>2. events = {} /\ Present(checks) = {} /\ Present(returns) = {}
    BY DEF CustodyInit, Present, Absent
  <1> QED
    BY <1>1, <1>2, FS_EmptySet DEF CustodyTyped

\* Steps that touch no event, check or return.
LEMMA TypedIdle ==
  ASSUME CustodyTyped, UNCHANGED <<events, checks, returns>>,
         entitled' \subseteq Line, owing' \subseteq Line
  PROVE  CustodyTyped'
  BY DEF CustodyTyped, CustodyTypeOK, Present

LEMMA PrepareTyped ==
  ASSUME CustodyTyped, NEW c \in Check, NEW l \in Line, NEW w \in Warehouse,
         NEW q \in 1 .. Quantity[l], PrepareCheck(c, l, w, q)
  PROVE  CustodyTyped' /\ \A k, W : ReleasedFrom(k, W)' = ReleasedFrom(k, W)
  <1> DEFINE row == [status |-> "DRAFT", line |-> l, warehouse |-> w, quantity |-> q]
  <1>1. /\ checks[c] = Absent /\ checks' = [checks EXCEPT ![c] = row]
        /\ UNCHANGED <<entitled, events, returns, owing>>
    BY DEF PrepareCheck
  <1>2. row \in CheckRow /\ row.status = "DRAFT"
    BY CustodyAssumption DEF CheckRow
  <1> HIDE DEF row
  <1>3. checks'[c] = row /\ \A d \in Check \ {c} : checks'[d] = checks[d]
    BY <1>1, RowsTyped
  <1>4. CustodyTypeOK'
    BY <1>1, <1>2 DEF CustodyTyped, CustodyTypeOK
  <1>5. \A k, W : /\ Counts(checks, c, "FINALIZED", k, W) = 0
                  /\ Counts(checks', c, "FINALIZED", k, W) = 0
    BY <1>1, <1>2, <1>3 DEF Counts, Absent
  <1>6. \A k, W : ReleasedFrom(k, W) \in Nat
    BY TotalsAreNat
  <1>7. /\ IsFiniteSet(Present(checks'))
        /\ \A k, W : ReleasedFrom(k, W)' = ReleasedFrom(k, W) - 0 + 0
    BY <1>3, <1>4, <1>5, ChecksChange
  <1> QED
    BY <1>1, <1>4, <1>6, <1>7 DEF CustodyTyped

LEMMA CreateReturnTyped ==
  ASSUME CustodyTyped, NEW r \in Return, NEW l \in Line, NEW w \in Warehouse,
         NEW q \in 1 .. Quantity[l], CreateReturn(r, l, w, q)
  PROVE  /\ CustodyTyped'
         /\ \A k, W : ReturnedTo(k, W)' = ReturnedTo(k, W) + (IF k = l /\ w \in W THEN q ELSE 0)
  <1> DEFINE row == [status |-> "POSTED", line |-> l, warehouse |-> w, quantity |-> q]
  <1>1. /\ returns[r] = Absent /\ returns' = [returns EXCEPT ![r] = row]
        /\ UNCHANGED <<entitled, events, checks, owing>>
    BY DEF CreateReturn
  <1>2. /\ row \in ReturnRow /\ row.status = "POSTED" /\ row.line = l /\ row.warehouse = w
        /\ row.quantity = q /\ q \in Int
    BY CustodyAssumption DEF ReturnRow
  <1> HIDE DEF row
  <1>3. returns'[r] = row /\ \A d \in Return \ {r} : returns'[d] = returns[d]
    BY <1>1, RowsTyped
  <1>4. CustodyTypeOK'
    BY <1>1, <1>2 DEF CustodyTyped, CustodyTypeOK
  <1>5. \A k, W : /\ Counts(returns, r, "POSTED", k, W) = 0
                  /\ Counts(returns', r, "POSTED", k, W) = (IF k = l /\ w \in W THEN q ELSE 0)
    BY <1>1, <1>2, <1>3 DEF Counts, Absent
  <1>6. \A k, W : ReturnedTo(k, W) \in Nat
    BY TotalsAreNat
  <1>7. /\ IsFiniteSet(Present(returns'))
        /\ \A k, W : ReturnedTo(k, W)' = ReturnedTo(k, W) - 0 + (IF k = l /\ w \in W THEN q ELSE 0)
    BY <1>3, <1>4, <1>5, ReturnsChange
  <1> QED
    BY <1>1, <1>2, <1>4, <1>6, <1>7 DEF CustodyTyped

LEMMA ReverseReturnTyped ==
  ASSUME CustodyTyped, NEW r \in Return, ReverseReturn(r)
  PROVE  CustodyTyped' /\ \A k, W : ReturnedTo(k, W)' <= ReturnedTo(k, W)
  <1>1. /\ returns[r].status = "POSTED" /\ returns' = [returns EXCEPT ![r].status = "REVERSED"]
        /\ UNCHANGED <<entitled, events, checks, owing>>
    BY DEF ReverseReturn
  <1>2. returns[r] \in ReturnRow
    BY <1>1, RowsTyped DEF Absent
  <1>3. /\ returns'[r] = [returns[r] EXCEPT !.status = "REVERSED"]
        /\ \A d \in Return \ {r} : returns'[d] = returns[d]
    BY <1>1, RowsTyped
  <1>4. returns'[r] \in ReturnRow /\ returns'[r].status = "REVERSED"
    BY <1>2, <1>3 DEF ReturnRow
  <1>5. CustodyTypeOK'
    BY <1>1, <1>3, <1>4 DEF CustodyTyped, CustodyTypeOK
  <1>6. \A k, W : /\ Counts(returns, r, "POSTED", k, W) \in Nat
                  /\ Counts(returns', r, "POSTED", k, W) = 0
    BY <1>2, <1>4 DEF Counts, ReturnRow
  <1>7. \A k, W : ReturnedTo(k, W) \in Nat
    BY TotalsAreNat
  <1>8. /\ IsFiniteSet(Present(returns'))
        /\ \A k, W : ReturnedTo(k, W)' = ReturnedTo(k, W) - Counts(returns, r, "POSTED", k, W) + 0
    BY <1>3, <1>5, <1>6, ReturnsChange
  <1>9. \A k, W : ReturnedTo(k, W)' <= ReturnedTo(k, W)
    <2> SUFFICES ASSUME NEW k, NEW W PROVE ReturnedTo(k, W)' <= ReturnedTo(k, W)
      OBVIOUS
    <2> QED
      BY <1>6, <1>7, <1>8
  <1> QED
    BY <1>1, <1>5, <1>8, <1>9 DEF CustodyTyped
-----------------------------------------------------------------------------
(* A custody event names its line and warehouse after its check, and a placement *)
(* has its check's own key only once the check is past its draft.                *)
EventOK(e) ==
  /\ e.type = "RELEASED" => /\ e.line = checks[e.reference].line
                            /\ e.warehouse = checks[e.reference].warehouse
  /\ \A c \in Check : e.key = <<"place", c>> => checks[c].status \in {"FINALIZED", "CANCELLED"}

CustodyRows == CustodyTyped /\ ReleaseInv /\ \A e \in events : EventOK(e)

\* What the placement of a finalized check adds.
Missing(c) ==
  LET n == checks[c].quantity - Balance(checks[c].line, checks[c].warehouse)
  IN IF n <= 0 THEN 0 ELSE n

Here(c, l, W) == checks[c].line = l /\ checks[c].warehouse \in W

LEMMA FinalizeEffect ==
  ASSUME CustodyRows, NEW c \in Check, FinalizeCheck(c, NoKey)
  PROVE  /\ CustodyRows'
         /\ checks[c].quantity \in Nat /\ Missing(c) \in Nat
         /\ \A l, W :
              /\ Total("PLACED", l, W)' = Total("PLACED", l, W) + (IF Here(c, l, W) THEN Missing(c) ELSE 0)
              /\ Total("RELEASED", l, W)' = Total("RELEASED", l, W)
                                             + (IF Here(c, l, W) THEN checks[c].quantity ELSE 0)
              /\ ReleasedFrom(l, W)' = ReleasedFrom(l, W)
                                             + (IF Here(c, l, W) THEN checks[c].quantity ELSE 0)
  <1> DEFINE q == checks[c].quantity
             m == q - Balance(checks[c].line, checks[c].warehouse)
             placement == CheckEvent(c, "PLACED", <<"place", c>>, m)
             release == CheckEvent(c, "RELEASED", <<"release", c>>, q)
  <1>1. /\ checks[c].status = "DRAFT"
        /\ checks' = [checks EXCEPT ![c].status = "FINALIZED"]
        /\ events' = WithEvent(Placed(c, NoKey), release)
        /\ UNCHANGED <<entitled, returns, owing>>
    BY DEF FinalizeCheck
  <1>2. checks[c] \in CheckRow /\ q \in Nat \ {0} /\ m \in Int
    <2>1. checks[c] \in CheckRow
      BY <1>1, RowsTyped DEF CustodyRows, Absent
    <2>2. Balance(checks[c].line, checks[c].warehouse) \in Int
      BY BalanceIsInt DEF CustodyRows
    <2> QED
      BY <2>1, <2>2 DEF CheckRow
  <1>3. /\ placement.type = "PLACED" /\ placement.key = <<"place", c>> /\ ~placement.reversed
        /\ placement.line = checks[c].line /\ placement.warehouse = checks[c].warehouse
        /\ placement.quantity = m
        /\ m > 0 => placement \in Event
    BY <1>2 DEF CheckEvent, Event, CheckRow
  <1>4. /\ release.type = "RELEASED" /\ release.key = <<"release", c>> /\ ~release.reversed
        /\ release.line = checks[c].line /\ release.warehouse = checks[c].warehouse
        /\ release.quantity = q /\ release.reference = c
        /\ release \in Event
    BY <1>2 DEF CheckEvent, Event, CheckRow
  <1>5. \A e \in events : e.key # <<"release", c>> /\ e.key # <<"place", c>>
    BY <1>1 DEF CustodyRows, ReleaseInv, KeysOfReleases, KeyOK, EventOK
  <1>6. Placed(c, NoKey) = IF m <= 0 THEN events ELSE events \cup {placement}
    BY <1>3, <1>5 DEF Placed, WithEvent
  <1>7. Missing(c) = IF m <= 0 THEN 0 ELSE m
    BY DEF Missing
  <1> HIDE DEF placement, release, m, q
  <1>8. Placed(c, NoKey) \in SUBSET Event /\ IsFiniteSet(Placed(c, NoKey))
    <2>1. events \in SUBSET Event /\ IsFiniteSet(events)
      BY DEF CustodyRows, CustodyTyped, CustodyTypeOK
    <2>2. CASE m <= 0
      BY <1>6, <2>1, <2>2
    <2>3. CASE m > 0
      <3>1. ~(m <= 0) /\ placement \in Event
        BY <1>2, <1>3, <2>3
      <3>2. Placed(c, NoKey) = events \cup {placement}
        BY <1>6, <3>1
      <3>3. IsFiniteSet(events \cup {placement})
        BY <2>1, FS_AddElement
      <3>4. events \cup {placement} \in SUBSET Event
        BY <2>1, <3>1
      <3> QED
        BY <3>2, <3>3, <3>4
    <2>4. m <= 0 \/ m > 0
      BY <1>2
    <2> QED
      BY <2>2, <2>3, <2>4
  <1>9. release \notin Placed(c, NoKey) /\ events' = Placed(c, NoKey) \cup {release}
    BY <1>1, <1>3, <1>4, <1>5, <1>6 DEF WithEvent
  <1>10. /\ events' \in SUBSET Event /\ IsFiniteSet(events')
         /\ events \in SUBSET Event /\ IsFiniteSet(events)
    BY <1>4, <1>8, <1>9, FS_AddElement DEF CustodyRows, CustodyTyped, CustodyTypeOK
  <1>11. /\ checks'[c] = [checks[c] EXCEPT !.status = "FINALIZED"]
         /\ \A d \in Check \ {c} : checks'[d] = checks[d]
    BY <1>1, RowsTyped DEF CustodyRows
  <1>12. /\ checks'[c] \in CheckRow /\ checks'[c].status = "FINALIZED"
         /\ checks'[c].line = checks[c].line /\ checks'[c].warehouse = checks[c].warehouse
         /\ checks'[c].quantity = q
    BY <1>2, <1>11 DEF CheckRow, q
  <1>13. CustodyTypeOK'
    BY <1>1, <1>10, <1>11, <1>12 DEF CustodyRows, CustodyTyped, CustodyTypeOK
  <1>14. CustodyTyped /\ ReleaseInv
    BY DEF CustodyRows
  <1>15. \A l, W : /\ Counts(checks, c, "FINALIZED", l, W) = 0
                   /\ Counts(checks', c, "FINALIZED", l, W) = (IF Here(c, l, W) THEN q ELSE 0)
    BY <1>1, <1>12 DEF Counts, Here
  <1>16. /\ IsFiniteSet(Present(checks'))
         /\ \A l, W : ReleasedFrom(l, W)' = ReleasedFrom(l, W) - 0 + (IF Here(c, l, W) THEN q ELSE 0)
    BY <1>11, <1>13, <1>14, <1>15, ChecksChange
  <1>17. CustodyTyped'
    BY <1>1, <1>10, <1>13, <1>14, <1>16 DEF CustodyTyped
  <1>18. \A e \in events' : EventOK(e)'
    <2> SUFFICES ASSUME NEW e \in events' PROVE EventOK(e)'
      OBVIOUS
    <2>1. \A d \in Check : /\ checks'[d].line = checks[d].line
                           /\ checks'[d].warehouse = checks[d].warehouse
      BY <1>11, <1>12
    <2>2. \A d \in Check : checks[d].status \in {"FINALIZED", "CANCELLED"}
                             => checks'[d].status \in {"FINALIZED", "CANCELLED"}
      BY <1>11, <1>12
    <2>3. CASE e \in events
      <3>1. EventOK(e) /\ KeyOK(e)
        BY <2>3 DEF CustodyRows, ReleaseInv, KeysOfReleases
      <3> QED
        BY <2>1, <2>2, <3>1 DEF EventOK, KeyOK
    <2>4. CASE e = placement
      BY <1>3, <1>12, <2>4 DEF EventOK
    <2>5. CASE e = release
      BY <1>4, <1>12, <2>5 DEF EventOK
    <2> QED
      BY <1>6, <1>9, <2>3, <2>4, <2>5
  <1>19. CustodyRows'
    BY <1>14, <1>17, <1>18, FinalizeKeeps DEF CustodyRows
  <1>20. ASSUME NEW l, NEW W
         PROVE  /\ Total("PLACED", l, W)' = Total("PLACED", l, W)
                                              + (IF Here(c, l, W) THEN Missing(c) ELSE 0)
                /\ Total("RELEASED", l, W)' = Total("RELEASED", l, W)
                                              + (IF Here(c, l, W) THEN q ELSE 0)
    <2>1. \A type : TotalOf(events', type, l, W) = TotalOf(Placed(c, NoKey), type, l, W)
            + (IF release.type = type /\ release.line = l /\ release.warehouse \in W
               THEN release.quantity ELSE 0)
      BY <1>4, <1>8, <1>9, EventAdds
    <2>2. m > 0 => \A type : TotalOf(events \cup {placement}, type, l, W) = TotalOf(events, type, l, W)
            + (IF placement.type = type /\ placement.line = l /\ placement.warehouse \in W
               THEN placement.quantity ELSE 0)
      <3>1. placement \notin events
        BY <1>3, <1>5
      <3>2. ASSUME m > 0, NEW type
            PROVE  TotalOf(events \cup {placement}, type, l, W) = TotalOf(events, type, l, W)
              + (IF placement.type = type /\ placement.line = l /\ placement.warehouse \in W
                 THEN placement.quantity ELSE 0)
        BY <1>3, <1>10, <3>1, <3>2, EventAdds
      <3> QED
        BY <3>2
    <2>3. \A type : TotalOf(events, type, l, W) \in Nat /\ TotalOf(Placed(c, NoKey), type, l, W) \in Nat
      BY <1>8, <1>10, TotalIsNat
    <2>4. \A type : /\ Total(type, l, W) = TotalOf(events, type, l, W)
                    /\ Total(type, l, W)' = TotalOf(events', type, l, W)
      BY DEF Total, Sum, TotalOf, Matching
    <2>5. TotalOf(events', "PLACED", l, W) = TotalOf(Placed(c, NoKey), "PLACED", l, W)
      BY <1>4, <2>1, <2>3
    <2>6. TotalOf(Placed(c, NoKey), "PLACED", l, W)
            = TotalOf(events, "PLACED", l, W) + (IF Here(c, l, W) THEN Missing(c) ELSE 0)
      BY SMTT(30), <1>2, <1>3, <1>6, <1>7, <2>2, <2>3 DEF Here
    <2>7. TotalOf(Placed(c, NoKey), "RELEASED", l, W) = TotalOf(events, "RELEASED", l, W)
      BY <1>2, <1>3, <1>6, <2>2, <2>3
    <2>8. TotalOf(events', "RELEASED", l, W) = TotalOf(Placed(c, NoKey), "RELEASED", l, W)
            + (IF Here(c, l, W) THEN q ELSE 0)
      BY <1>4, <2>1 DEF Here
    <2> QED
      BY <2>4, <2>5, <2>6, <2>7, <2>8
  <1>21. \A l, W : ReleasedFrom(l, W)' = ReleasedFrom(l, W) + (IF Here(c, l, W) THEN q ELSE 0)
    BY <1>2, <1>14, <1>16, TotalsAreNat
  <1>22. q \in Nat /\ Missing(c) \in Nat
    BY <1>2, <1>7
  <1> QED
    BY <1>19, <1>20, <1>21, <1>22 DEF q

\* The reversal of an event takes its units away and keeps the other facts.
LEMMA ReversalEffect ==
  ASSUME CustodyTyped, NEW e \in events, ~e.reversed,
         events' = (events \ {e}) \cup {[e EXCEPT !.reversed = TRUE]}
  PROVE  /\ events' \in SUBSET Event /\ IsFiniteSet(events')
         /\ e.quantity \in Nat
         /\ \A type, l, W : Total(type, l, W)' = Total(type, l, W)
              - (IF e.type = type /\ e.line = l /\ e.warehouse \in W THEN e.quantity ELSE 0)
  <1> DEFINE r == [e EXCEPT !.reversed = TRUE]
  <1>1. events \in SUBSET Event /\ IsFiniteSet(events) /\ e \in Event
    BY DEF CustodyTyped, CustodyTypeOK
  <1>2. r \in Event /\ r.reversed
    BY <1>1 DEF Event
  <1> HIDE DEF r
  <1>3. events' = (events \ {e}) \cup {r}
    BY DEF r
  <1>4. IsFiniteSet(events \ {e})
    BY <1>1, FS_Subset
  <1>5. events' \in SUBSET Event /\ IsFiniteSet(events')
    BY SMTT(30), <1>1, <1>2, <1>3, <1>4, FS_AddElement
  <1>6. ASSUME NEW type, NEW l, NEW W
        PROVE  Total(type, l, W)' = Total(type, l, W)
                 - (IF e.type = type /\ e.line = l /\ e.warehouse \in W THEN e.quantity ELSE 0)
    <2>1. /\ Total(type, l, W) = TotalOf(events, type, l, W)
          /\ Total(type, l, W)' = TotalOf(events', type, l, W)
      BY DEF Total, Sum, TotalOf, Matching
    <2>2. TotalOf((events \ {e}) \cup {r}, type, l, W) = TotalOf(events, type, l, W)
            - (IF e.type = type /\ e.line = l /\ e.warehouse \in W THEN e.quantity ELSE 0)
      BY <1>1, <1>2, ReversalTakes
    <2> QED
      BY <1>3, <2>1, <2>2
  <1> QED
    BY <1>1, <1>5, <1>6 DEF Event

\* Cancelling a check takes its release back with the delivery it counts for.
LEMMA CancelEffect ==
  ASSUME CustodyRows, NEW c \in Check, CancelCheck(c)
  PROVE  /\ CustodyRows'
         /\ checks[c].quantity \in Nat
         /\ \A l, W :
              /\ Total("PLACED", l, W)' = Total("PLACED", l, W)
              /\ Total("RELEASED", l, W)' = Total("RELEASED", l, W)
                                             - (IF Here(c, l, W) THEN checks[c].quantity ELSE 0)
              /\ ReleasedFrom(l, W)' = ReleasedFrom(l, W)
                                             - (IF Here(c, l, W) THEN checks[c].quantity ELSE 0)
  <1> DEFINE q == checks[c].quantity
  <1>1. /\ checks[c].status = "FINALIZED"
        /\ checks' = [checks EXCEPT ![c].status = "CANCELLED"]
        /\ UNCHANGED <<entitled, returns, owing>>
    BY DEF CancelCheck
  <1>2. PICK e \in InForce(c) : events' = (events \ {e}) \cup {[e EXCEPT !.reversed = TRUE]}
    BY DEF CancelCheck, InForce
  <1>3. CustodyTyped /\ ReleaseInv
    BY DEF CustodyRows
  <1>4. /\ e \in events /\ ~e.reversed /\ e.type = "RELEASED" /\ e.quantity = q
        /\ e.line = checks[c].line /\ e.warehouse = checks[c].warehouse
    <2>1. e \in events /\ ~e.reversed /\ e.type = "RELEASED" /\ e.reference = c
      BY <1>2 DEF InForce
    <2>2. EventOK(e)
      BY <2>1 DEF CustodyRows
    <2>3. e.quantity = q
      BY <1>1, <1>2, <1>3 DEF ReleaseInv, ReleasesMatchChecks, InForce
    <2> QED
      BY <2>1, <2>2, <2>3 DEF EventOK
  <1>5. checks[c] \in CheckRow
    BY <1>1, <1>3, RowsTyped DEF Absent
  <1>6. /\ checks'[c] = [checks[c] EXCEPT !.status = "CANCELLED"]
        /\ \A d \in Check \ {c} : checks'[d] = checks[d]
    BY <1>1, <1>3, RowsTyped
  <1>7. /\ checks'[c] \in CheckRow /\ checks'[c].status = "CANCELLED"
        /\ checks'[c].line = checks[c].line /\ checks'[c].warehouse = checks[c].warehouse
        /\ q \in Nat
    BY <1>5, <1>6 DEF CheckRow
  <1>8. /\ events' \in SUBSET Event /\ IsFiniteSet(events')
        /\ \A type, l, W : Total(type, l, W)' = Total(type, l, W)
             - (IF e.type = type /\ e.line = l /\ e.warehouse \in W THEN e.quantity ELSE 0)
    BY <1>2, <1>3, <1>4, ReversalEffect
  <1>9. CustodyTypeOK'
    BY <1>1, <1>3, <1>6, <1>7, <1>8 DEF CustodyTyped, CustodyTypeOK
  <1>10. \A l, W : /\ Counts(checks, c, "FINALIZED", l, W) = (IF Here(c, l, W) THEN q ELSE 0)
                   /\ Counts(checks', c, "FINALIZED", l, W) = 0
    BY <1>1, <1>7 DEF Counts, Here
  <1> HIDE DEF q
  <1>11. /\ IsFiniteSet(Present(checks'))
         /\ \A l, W : ReleasedFrom(l, W)' = ReleasedFrom(l, W) - (IF Here(c, l, W) THEN q ELSE 0) + 0
    BY <1>3, <1>6, <1>9, <1>10, ChecksChange
  <1>12. CustodyTyped'
    BY <1>1, <1>3, <1>8, <1>9, <1>11 DEF CustodyTyped
  <1>13. \A f \in events' : EventOK(f)'
    <2> SUFFICES ASSUME NEW f \in events' PROVE EventOK(f)'
      OBVIOUS
    <2>1. \A d \in Check : /\ checks'[d].line = checks[d].line
                           /\ checks'[d].warehouse = checks[d].warehouse
      BY <1>6, <1>7
    <2>2. \A d \in Check : checks[d].status \in {"FINALIZED", "CANCELLED"}
                             => checks'[d].status \in {"FINALIZED", "CANCELLED"}
      BY <1>6, <1>7
    <2>3. PICK g \in events : /\ f.type = g.type /\ f.line = g.line /\ f.warehouse = g.warehouse
                              /\ f.reference = g.reference /\ f.key = g.key
      <3>1. LET r == [e EXCEPT !.reversed = TRUE]
            IN \A i \in EventFields \ {"reversed"} : r[i] = e[i]
        BY <1>3, <1>4, ReversedEvent
      <3> QED
        BY <1>2, <1>4, <3>1 DEF EventFields
    <2>4. EventOK(g) /\ KeyOK(g)
      BY DEF CustodyRows, ReleaseInv, KeysOfReleases
    <2> QED
      BY <2>1, <2>2, <2>3, <2>4 DEF EventOK, KeyOK
  <1>14. CustodyRows'
    BY <1>3, <1>12, <1>13, CancelKeeps DEF CustodyRows
  <1>15. ASSUME NEW l, NEW W
         PROVE  /\ Total("PLACED", l, W)' = Total("PLACED", l, W)
                /\ Total("RELEASED", l, W)' = Total("RELEASED", l, W) - (IF Here(c, l, W) THEN q ELSE 0)
                /\ ReleasedFrom(l, W)' = ReleasedFrom(l, W) - (IF Here(c, l, W) THEN q ELSE 0)
    <2>1. Total("PLACED", l, W) \in Nat /\ ReleasedFrom(l, W) \in Nat
      BY <1>3, TotalsAreNat
    <2> QED
      BY <1>4, <1>7, <1>8, <1>11, <2>1 DEF Here
  <1> QED
    BY <1>7, <1>14, <1>15 DEF q

LEMMA ReversePlacementEffect ==
  ASSUME CustodyRows, NEW e \in events, ReversePlacement(e)
  PROVE  /\ CustodyRows'
         /\ e.quantity \in Nat
         /\ \A l, W :
              /\ Total("PLACED", l, W)' = Total("PLACED", l, W)
                   - (IF e.line = l /\ e.warehouse \in W THEN e.quantity ELSE 0)
              /\ Total("RELEASED", l, W)' = Total("RELEASED", l, W)
              /\ ReleasedFrom(l, W)' = ReleasedFrom(l, W)
  <1>1. /\ e.type = "PLACED" /\ ~e.reversed
        /\ events' = (events \ {e}) \cup {[e EXCEPT !.reversed = TRUE]}
        /\ UNCHANGED <<entitled, checks, returns, owing>>
    BY DEF ReversePlacement
  <1>2. CustodyTyped /\ ReleaseInv
    BY DEF CustodyRows
  <1>3. /\ events' \in SUBSET Event /\ IsFiniteSet(events') /\ e.quantity \in Nat
        /\ \A type, l, W : Total(type, l, W)' = Total(type, l, W)
             - (IF e.type = type /\ e.line = l /\ e.warehouse \in W THEN e.quantity ELSE 0)
    BY <1>1, <1>2, ReversalEffect
  <1>4. CustodyTyped'
    BY <1>1, <1>2, <1>3 DEF CustodyTyped, CustodyTypeOK, Present
  <1>5. \A f \in events' : EventOK(f)'
    <2> SUFFICES ASSUME NEW f \in events' PROVE EventOK(f)'
      OBVIOUS
    <2>1. PICK g \in events : /\ f.type = g.type /\ f.line = g.line /\ f.warehouse = g.warehouse
                              /\ f.reference = g.reference /\ f.key = g.key
      <3>1. LET r == [e EXCEPT !.reversed = TRUE]
            IN \A i \in EventFields \ {"reversed"} : r[i] = e[i]
        BY <1>2, ReversedEvent
      <3> QED
        BY <1>1, <3>1 DEF EventFields
    <2> QED
      BY <1>1, <2>1 DEF CustodyRows, EventOK
  <1>6. CustodyRows'
    BY <1>2, <1>4, <1>5, ReversePlacementKeeps DEF CustodyRows
  <1>7. ASSUME NEW l, NEW W
        PROVE  /\ Total("PLACED", l, W)' = Total("PLACED", l, W)
                    - (IF e.line = l /\ e.warehouse \in W THEN e.quantity ELSE 0)
               /\ Total("RELEASED", l, W)' = Total("RELEASED", l, W)
               /\ ReleasedFrom(l, W)' = ReleasedFrom(l, W)
    <2>1. Total("RELEASED", l, W) \in Nat
      BY <1>2, TotalsAreNat
    <2>2. ReleasedFrom(l, W)' = ReleasedFrom(l, W)
      BY <1>1 DEF ReleasedFrom, Sum
    <2> QED
      BY <1>1, <1>3, <2>1, <2>2
  <1> QED
    BY <1>3, <1>6, <1>7

\* Steps that touch no event and change no check but an absent one.
LEMMA RowsIdle ==
  ASSUME CustodyRows, CustodyTyped', ReleaseInv', events' = events,
         \A c \in Check : checks'[c] = checks[c] \/ checks[c] = Absent
  PROVE  CustodyRows'
  <1> SUFFICES ASSUME NEW e \in events PROVE EventOK(e)'
    BY DEF CustodyRows
  <1>1. EventOK(e) /\ KeyOK(e)
    BY DEF CustodyRows, ReleaseInv, KeysOfReleases
  <1>2. \A c \in Check : checks[c].status \in {"FINALIZED", "CANCELLED"} => checks'[c] = checks[c]
    BY DEF Absent
  <1> QED
    BY <1>1, <1>2 DEF EventOK, KeyOK
-----------------------------------------------------------------------------
(***************************************************************************)
(* Ordinary lines.  Warehouse by warehouse, what is in custody with what   *)
(* was delivered stays within what was issued there; the bound on the      *)
(* whole line follows by adding up, because the issues of a line add up to *)
(* its quantity.                                                           *)
(***************************************************************************)
WithinIssue ==
  \A l \in OrdinaryLine, w \in Warehouse :
    /\ Balance(l, w) >= 0
    /\ Balance(l, w) + ReleasedFrom(l, {w}) <= Allocated[l][w]

\* Only lines with an entitlement have checks, and those are ordinary.
CustodyLines ==
  /\ entitled \in SUBSET OrdinaryLine
  /\ \A c \in Check : checks[c] # Absent => checks[c].line \in entitled

ReturnedWithinReleased == \A l \in Line : Returned(l) <= Released(l)

CustodyInv == CustodyRows /\ CustodyLines /\ WithinIssue /\ ReturnedWithinReleased

\* The units of a line are those of its warehouses together.
LEMMA TotalByWarehouse ==
  ASSUME CustodyTyped, NEW type, NEW l,
         NEW g, \A w \in Warehouse : g[w] = Total(type, l, {w})
  PROVE  Total(type, l, Warehouse) = SumFunctionOnSet(g, Warehouse)
  <1> DEFINE S == Matching(events, type, l, Warehouse)
             f == [e \in S |-> e.quantity]
             key == [e \in S |-> e.warehouse]
  <1>1. IsFiniteSet(S) /\ IntOn(f, S)
    BY FS_Subset DEF CustodyTyped, CustodyTypeOK, Matching, Event, IntOn
  <1>2. IsFiniteSet(Warehouse)
    BY CustodyAssumption
  <1>3. \A e \in S : key[e] \in Warehouse
    BY DEF Matching
  <1>4. ASSUME NEW w \in Warehouse
        PROVE  g[w] = SumFunctionOnSet(f, {x \in S : key[x] = w})
    <2> DEFINE T == Matching(events, type, l, {w})
               h == [e \in T |-> e.quantity]
    <2>1. T = {x \in S : key[x] = w}
      BY DEF Matching
    <2>2. IsFiniteSet(T) /\ \A e \in T : f[e] = h[e]
      BY <1>1, <2>1, FS_Subset
    <2>3. g[w] = SumFunctionOnSet(h, T)
      BY DEF Total, Sum, Matching
    <2> HIDE DEF T, h, S, f, key
    <2>4. SumFunctionOnSet(f, T) = SumFunctionOnSet(h, T)
      BY <2>2, SumAgree
    <2> QED
      BY <2>1, <2>3, <2>4
  <1>5. Total(type, l, Warehouse) = SumFunctionOnSet(f, S)
    BY DEF Total, Sum, Matching
  <1> HIDE DEF S, f, key
  <1>6. ByKey(f, S, key, Warehouse, g)
    BY <1>1, <1>2, <1>3, <1>4 DEF ByKey
  <1> QED
    BY <1>5, <1>6, SumByKey

LEMMA ReleasedByWarehouse ==
  ASSUME CustodyTyped, NEW l,
         NEW g, \A w \in Warehouse : g[w] = ReleasedFrom(l, {w})
  PROVE  Released(l) = SumFunctionOnSet(g, Warehouse)
  <1> DEFINE S == CountedRows(checks, "FINALIZED", l, Warehouse)
             f == [c \in S |-> checks[c].quantity]
             key == [c \in S |-> checks[c].warehouse]
  <1>0. DOMAIN checks = Check /\ Table(checks)
    BY RowsTyped
  <1>1. IsFiniteSet(S) /\ IntOn(f, S)
    <2>1. S \in SUBSET Present(checks)
      BY DEF CountedRows, Present
    <2> QED
      BY <1>0, <2>1, FS_Subset DEF CustodyTyped, Table, IntOn
  <1>2. IsFiniteSet(Warehouse)
    BY CustodyAssumption
  <1>3. \A c \in S : key[c] \in Warehouse
    BY DEF CountedRows
  <1>4. ASSUME NEW w \in Warehouse
        PROVE  g[w] = SumFunctionOnSet(f, {x \in S : key[x] = w})
    <2> DEFINE T == CountedRows(checks, "FINALIZED", l, {w})
               h == [c \in T |-> checks[c].quantity]
    <2>1. T = {x \in S : key[x] = w}
      BY DEF CountedRows
    <2>2. IsFiniteSet(T) /\ \A c \in T : f[c] = h[c]
      BY <1>1, <2>1, FS_Subset
    <2>3. g[w] = SumFunctionOnSet(h, T)
      BY <1>0 DEF ReleasedFrom, Sum, CountedRows
    <2> HIDE DEF T, h, S, f, key
    <2>4. SumFunctionOnSet(f, T) = SumFunctionOnSet(h, T)
      BY <2>2, SumAgree
    <2> QED
      BY <2>1, <2>3, <2>4
  <1>5. Released(l) = SumFunctionOnSet(f, S)
    BY <1>0 DEF Released, ReleasedFrom, Sum, CountedRows
  <1> HIDE DEF S, f, key
  <1> QED
    <2>1. SumFunctionOnSet(f, S) = SumFunctionOnSet(g, Warehouse)
      <3>1. ByKey(f, S, key, Warehouse, g)
        BY <1>1, <1>2, <1>3, <1>4 DEF ByKey
      <3> QED
        BY <3>1, SumByKey
    <2> QED
      BY <1>5, <2>1

LEMMA WithinOwnership == CustodyInv => CustodyWithinOwnership
  <1> SUFFICES ASSUME CustodyInv, NEW l \in entitled
               PROVE  /\ TotalBalance(l) + Released(l) <= Quantity[l]
                      /\ \A w \in Warehouse :
                           /\ Balance(l, w) >= 0
                           /\ l \in OrdinaryLine => Balance(l, w) + ReleasedFrom(l, {w}) <= Allocated[l][w]
    BY DEF CustodyWithinOwnership
  <1>1. l \in OrdinaryLine /\ CustodyTyped
    BY DEF CustodyInv, CustodyLines, CustodyRows
  <1>2. \A w \in Warehouse : /\ Balance(l, w) >= 0
                             /\ Balance(l, w) + ReleasedFrom(l, {w}) <= Allocated[l][w]
    BY <1>1 DEF CustodyInv, WithinIssue
  <1> DEFINE in == [w \in Warehouse |-> Total("PLACED", l, {w})]
             out == [w \in Warehouse |-> Total("RELEASED", l, {w})]
             gone == [w \in Warehouse |-> ReleasedFrom(l, {w})]
             issued == Allocated[l]
             left == [w \in Warehouse |-> in[w] + gone[w]]
             right == [w \in Warehouse |-> issued[w] + out[w]]
  <1>3. /\ IsFiniteSet(Warehouse)
        /\ IntOn(in, Warehouse) /\ IntOn(out, Warehouse) /\ IntOn(gone, Warehouse)
        /\ IntOn(issued, Warehouse)
    <2>1. \A w \in Warehouse : /\ Total("PLACED", l, {w}) \in Nat /\ Total("RELEASED", l, {w}) \in Nat
                               /\ ReleasedFrom(l, {w}) \in Nat
      BY <1>1, TotalsAreNat
    <2>2. \A w \in Warehouse : issued[w] \in Int
      BY <1>1, CustodyAssumption DEF OrdinaryLine
    <2>3. IntOn(in, Warehouse) /\ IntOn(out, Warehouse) /\ IntOn(gone, Warehouse)
      BY <2>1 DEF IntOn
    <2>4. IntOn(issued, Warehouse)
      BY <2>2 DEF IntOn
    <2> QED
      BY <2>3, <2>4, CustodyAssumption
  <1>4. \A w \in Warehouse : in[w] + gone[w] <= issued[w] + out[w]
    <2> SUFFICES ASSUME NEW w \in Warehouse PROVE in[w] + gone[w] <= issued[w] + out[w]
      OBVIOUS
    <2>1. /\ in[w] = Total("PLACED", l, {w}) /\ out[w] = Total("RELEASED", l, {w})
          /\ gone[w] = ReleasedFrom(l, {w})
      OBVIOUS
    <2>2. in[w] \in Int /\ out[w] \in Int /\ gone[w] \in Int /\ issued[w] \in Int
      BY <1>3 DEF IntOn
    <2>3. in[w] - out[w] + gone[w] <= issued[w]
      BY <1>2, <2>1 DEF Balance
    <2> HIDE DEF in, out, gone, issued
    <2> QED
      BY <2>2, <2>3
  <1>5. Quantity[l] = SumFunctionOnSet(issued, Warehouse)
    BY <1>1, CustodyAssumption DEF OrdinaryLine, SumFunction
  <1>6. /\ Total("PLACED", l, Warehouse) = SumFunctionOnSet(in, Warehouse)
        /\ Total("RELEASED", l, Warehouse) = SumFunctionOnSet(out, Warehouse)
    BY <1>1, TotalByWarehouse
  <1>7. Released(l) = SumFunctionOnSet(gone, Warehouse)
    BY <1>1, ReleasedByWarehouse
  <1>8. /\ \A w \in Warehouse : left[w] = in[w] + gone[w] /\ right[w] = issued[w] + out[w]
        /\ \A w \in Warehouse : left[w] <= right[w]
    BY <1>4
  <1> HIDE DEF in, out, gone, issued, left, right
  <1>9. /\ SumFunctionOnSet(left, Warehouse)
             = SumFunctionOnSet(in, Warehouse) + SumFunctionOnSet(gone, Warehouse)
        /\ SumFunctionOnSet(right, Warehouse)
             = SumFunctionOnSet(issued, Warehouse) + SumFunctionOnSet(out, Warehouse)
    BY <1>3, <1>8, SumPlus
  <1>10. IntOn(left, Warehouse) /\ IntOn(right, Warehouse)
    BY <1>3, <1>8 DEF IntOn
  <1>11. SumFunctionOnSet(left, Warehouse) <= SumFunctionOnSet(right, Warehouse)
    BY <1>3, <1>8, <1>10, SumMonotone
  <1>12. /\ SumFunctionOnSet(in, Warehouse) \in Int /\ SumFunctionOnSet(out, Warehouse) \in Int
         /\ SumFunctionOnSet(gone, Warehouse) \in Int /\ SumFunctionOnSet(issued, Warehouse) \in Int
    BY <1>3, SumInt
  <1>13. TotalBalance(l) + Released(l) <= Quantity[l]
    BY <1>5, <1>6, <1>7, <1>9, <1>11, <1>12 DEF TotalBalance
  <1> QED
    BY <1>2, <1>13
-----------------------------------------------------------------------------
LEMMA CustodyInvInit == CustodyInit => CustodyInv
  <1> SUFFICES ASSUME CustodyInit PROVE CustodyInv
    OBVIOUS
  <1>1. CustodyRows
    BY TypedInit, ReleaseInit DEF CustodyRows, CustodyInit
  <1>2. CustodyLines
    BY DEF CustodyLines, CustodyInit
  <1>3. CustodyTyped /\ events = {} /\ checks = [c \in Check |-> Absent] /\ returns = [r \in Return |-> Absent]
    BY <1>1 DEF CustodyRows, CustodyInit
  <1>4. \A type, l, W : Total(type, l, W) = 0
    BY <1>3, SumEmpty DEF Total, Sum
  <1>5. \A l, W : ReleasedFrom(l, W) = 0 /\ ReturnedTo(l, W) = 0
    <2> SUFFICES ASSUME NEW l, NEW W PROVE ReleasedFrom(l, W) = 0 /\ ReturnedTo(l, W) = 0
      OBVIOUS
    <2>1. /\ {c \in Check : /\ checks[c].status = "FINALIZED" /\ checks[c].line = l
                            /\ checks[c].warehouse \in W} = {}
          /\ {r \in Return : /\ returns[r].status = "POSTED" /\ returns[r].line = l
                             /\ returns[r].warehouse \in W} = {}
      BY <1>3 DEF Absent
    <2> QED
      BY <2>1, SumEmpty DEF ReleasedFrom, ReturnedTo, Sum
  <1>6. WithinIssue
    BY <1>4, <1>5, CustodyAssumption DEF WithinIssue, Balance, OrdinaryLine
  <1>7. ReturnedWithinReleased
    BY <1>5 DEF ReturnedWithinReleased, Returned, Released
  <1> QED
    BY <1>1, <1>2, <1>6, <1>7 DEF CustodyInv

\* When no unit moved, in custody or out of it, and no more came back, the
\* bounds hold as before.
LEMMA NothingMoves ==
  ASSUME CustodyInv, CustodyTyped', \A l, W : ReturnedTo(l, W)' <= ReturnedTo(l, W),
         \A l, W : ReleasedFrom(l, W)' = ReleasedFrom(l, W), events' = events
  PROVE  WithinIssue' /\ ReturnedWithinReleased'
  <1>1. \A type, l, W : Total(type, l, W)' = Total(type, l, W)
    BY DEF Total, Sum
  <1>2. WithinIssue'
    BY <1>1 DEF CustodyInv, WithinIssue, Balance
  <1>3. CustodyTyped
    BY DEF CustodyInv, CustodyRows
  <1>4. ReturnedWithinReleased'
    <2> SUFFICES ASSUME NEW l \in Line PROVE Returned(l)' <= Released(l)'
      BY DEF ReturnedWithinReleased
    <2>1. /\ ReturnedTo(l, Warehouse) \in Nat /\ ReleasedFrom(l, Warehouse) \in Nat
          /\ ReturnedTo(l, Warehouse)' \in Nat
      <3>1. ReturnedTo(l, Warehouse) \in Nat /\ ReleasedFrom(l, Warehouse) \in Nat
        BY <1>3, TotalsAreNat
      <3>2. ReturnedTo(l, Warehouse)' \in Nat
        <4>1. DOMAIN returns' = Return /\ Table(returns')
          BY DEF CustodyTyped, CustodyTypeOK, Table, Present, Absent, ReturnRow
        <4>2. ReturnedTo(l, Warehouse)' = UnitsOf(returns', "POSTED", l, Warehouse)
          BY <4>1 DEF ReturnedTo, Sum, UnitsOf, CountedRows
        <4> QED
          BY <4>1, <4>2, UnitsAreNat DEF CustodyTyped
      <3> QED
        BY <3>1, <3>2
    <2>2. ReturnedTo(l, Warehouse) <= ReleasedFrom(l, Warehouse)
      BY DEF CustodyInv, ReturnedWithinReleased, Returned, Released
    <2>3. ReturnedTo(l, Warehouse)' <= ReleasedFrom(l, Warehouse)'
      BY <2>1, <2>2
    <2> QED
      BY <2>3 DEF Returned, Released
  <1> QED
    BY <1>2, <1>4

\* A line with no return history has had nothing returned.
LEMMA NoHistoryNoReturn ==
  ASSUME NEW l, ~HasReturnHistory(l)
  PROVE  \A W : ReturnedTo(l, W) = 0
  <1> SUFFICES ASSUME NEW W PROVE ReturnedTo(l, W) = 0
    OBVIOUS
  <1>1. {r \in Return : /\ returns[r].status = "POSTED" /\ returns[r].line = l
                        /\ returns[r].warehouse \in W} = {}
    BY DEF HasReturnHistory, Absent
  <1> QED
    BY <1>1, SumEmpty DEF ReturnedTo, Sum

\* Finalizing a check: what it places and what it releases stay within the issue
\* because the guard counts what was released there before.
LEMMA FinalizeWithin ==
  ASSUME CustodyInv, NEW c \in Check, FinalizeCheck(c, NoKey)
  PROVE  CustodyInv'
  <1> DEFINE l == checks[c].line
             w == checks[c].warehouse
             q == checks[c].quantity
  <1>1. CustodyRows /\ CustodyTyped
    BY DEF CustodyInv, CustodyRows
  <1>2. /\ checks[c].status = "DRAFT" /\ MayRelease(l, w, q)
        /\ checks' = [checks EXCEPT ![c].status = "FINALIZED"]
        /\ UNCHANGED <<entitled, returns, owing>>
    BY DEF FinalizeCheck
  <1>3. checks[c] \in CheckRow /\ l \in OrdinaryLine /\ w \in Warehouse
    BY <1>1, <1>2, RowsTyped DEF CustodyInv, CustodyLines, Absent, CheckRow
  <1>4. q <= Allocated[l][w] - ReleasedFrom(l, {w})
    BY <1>2, <1>3 DEF MayRelease, OrdinaryLine
  <1>5. /\ CustodyRows' /\ q \in Nat /\ Missing(c) \in Nat
        /\ \A k, W :
              /\ Total("PLACED", k, W)' = Total("PLACED", k, W) + (IF Here(c, k, W) THEN Missing(c) ELSE 0)
              /\ Total("RELEASED", k, W)' = Total("RELEASED", k, W) + (IF Here(c, k, W) THEN q ELSE 0)
              /\ ReleasedFrom(k, W)' = ReleasedFrom(k, W) + (IF Here(c, k, W) THEN q ELSE 0)
    BY <1>1, FinalizeEffect
  <1>6. CustodyLines'
    <2>1. /\ checks'[c].line = l
          /\ \A d \in Check \ {c} : checks'[d] = checks[d]
      BY <1>1, <1>2, <1>3, RowsTyped DEF CheckRow
    <2> QED
      BY <1>2, <2>1 DEF CustodyInv, CustodyLines, Absent
  <1>7. \A k, W : /\ Total("PLACED", k, W) \in Nat /\ Total("RELEASED", k, W) \in Nat
                  /\ ReleasedFrom(k, W) \in Nat /\ ReturnedTo(k, W) \in Nat
    BY <1>1, TotalsAreNat
  <1>8. Missing(c) = IF q - Balance(l, w) <= 0 THEN 0 ELSE q - Balance(l, w)
    BY DEF Missing
  <1>9. WithinIssue'
    <2> SUFFICES ASSUME NEW k \in OrdinaryLine, NEW v \in Warehouse
                 PROVE  /\ Balance(k, v)' >= 0
                        /\ Balance(k, v)' + ReleasedFrom(k, {v})' <= Allocated[k][v]
      BY DEF WithinIssue
    <2>1. /\ Balance(k, v) \in Int /\ Balance(k, v) >= 0 /\ ReleasedFrom(k, {v}) \in Nat
          /\ Balance(k, v) + ReleasedFrom(k, {v}) <= Allocated[k][v]
          /\ Allocated[k][v] \in Int
      BY <1>1, <1>7, BalanceIsInt, CustodyAssumption DEF CustodyInv, WithinIssue, OrdinaryLine
    <2>2. Here(c, k, {v}) <=> k = l /\ v = w
      BY DEF Here
    <2> HIDE DEF l, w, q
    <2>3. CASE k = l /\ v = w
      <3>1. /\ Balance(k, v)' = Balance(k, v) + Missing(c) - q
            /\ ReleasedFrom(k, {v})' = ReleasedFrom(k, {v}) + q
        BY <1>5, <1>7, <2>2, <2>3 DEF Balance
      <3>2. CASE q - Balance(l, w) <= 0
        BY <1>5, <1>8, <2>1, <2>3, <3>1, <3>2
      <3>3. CASE q - Balance(l, w) > 0
        BY <1>4, <1>5, <1>8, <2>1, <2>3, <3>1, <3>3
      <3> QED
        BY <1>5, <2>1, <2>3, <3>2, <3>3
    <2>4. CASE ~(k = l /\ v = w)
      <3>1. Balance(k, v)' = Balance(k, v) /\ ReleasedFrom(k, {v})' = ReleasedFrom(k, {v})
        BY <1>5, <1>7, <2>2, <2>4 DEF Balance
      <3> QED
        BY <2>1, <3>1
    <2> QED
      BY <2>3, <2>4
  <1>10. ReturnedWithinReleased'
    <2> SUFFICES ASSUME NEW k \in Line PROVE Returned(k)' <= Released(k)'
      BY DEF ReturnedWithinReleased
    <2>1. ReturnedTo(k, Warehouse)' = ReturnedTo(k, Warehouse)
      BY <1>2 DEF ReturnedTo, Sum
    <2>2. ReturnedTo(k, Warehouse) <= ReleasedFrom(k, Warehouse)
      BY DEF CustodyInv, ReturnedWithinReleased, Returned, Released
    <2>3. ReleasedFrom(k, Warehouse)' >= ReleasedFrom(k, Warehouse)
      BY <1>5, <1>7
    <2>4. ReturnedTo(k, Warehouse)' <= ReleasedFrom(k, Warehouse)'
      BY <1>5, <1>7, <2>1, <2>2, <2>3
    <2> QED
      BY <2>4 DEF Returned, Released
  <1> QED
    BY <1>5, <1>6, <1>9, <1>10 DEF CustodyInv

\* Cancelling a check: what left the delivered goods is in custody again, and
\* nothing of the line had come back.
LEMMA CancelWithin ==
  ASSUME CustodyInv, NEW c \in Check, CancelCheck(c)
  PROVE  CustodyInv'
  <1> DEFINE l == checks[c].line
             q == checks[c].quantity
  <1>1. CustodyRows /\ CustodyTyped
    BY DEF CustodyInv, CustodyRows
  <1>2. /\ checks[c].status = "FINALIZED" /\ (l \notin TransitLine => ~HasReturnHistory(l))
        /\ checks' = [checks EXCEPT ![c].status = "CANCELLED"]
        /\ UNCHANGED <<entitled, returns, owing>>
    BY DEF CancelCheck
  <1>3. checks[c] \in CheckRow /\ l \in OrdinaryLine
    BY <1>1, <1>2, RowsTyped DEF CustodyInv, CustodyLines, Absent, CheckRow
  <1>4. \A W : ReturnedTo(l, W) = 0
    BY <1>2, <1>3, NoHistoryNoReturn DEF OrdinaryLine
  <1>5. /\ CustodyRows' /\ q \in Nat
        /\ \A k, W :
              /\ Total("PLACED", k, W)' = Total("PLACED", k, W)
              /\ Total("RELEASED", k, W)' = Total("RELEASED", k, W) - (IF Here(c, k, W) THEN q ELSE 0)
              /\ ReleasedFrom(k, W)' = ReleasedFrom(k, W) - (IF Here(c, k, W) THEN q ELSE 0)
    BY <1>1, CancelEffect
  <1>6. CustodyLines'
    <2>1. /\ checks'[c].line = l
          /\ \A d \in Check \ {c} : checks'[d] = checks[d]
      BY <1>1, <1>2, <1>3, RowsTyped DEF CheckRow
    <2>2. checks[c] # Absent
      BY <1>2 DEF Absent
    <2> QED
      BY <1>2, <2>1, <2>2 DEF CustodyInv, CustodyLines
  <1>7. \A k, W : /\ Total("PLACED", k, W) \in Nat /\ Total("RELEASED", k, W) \in Nat
                  /\ ReleasedFrom(k, W) \in Nat /\ ReturnedTo(k, W) \in Nat
    BY <1>1, TotalsAreNat
  <1>8. WithinIssue'
    <2> SUFFICES ASSUME NEW k \in OrdinaryLine, NEW v \in Warehouse
                 PROVE  /\ Balance(k, v)' >= 0
                        /\ Balance(k, v)' + ReleasedFrom(k, {v})' <= Allocated[k][v]
      BY DEF WithinIssue
    <2>1. /\ Balance(k, v) \in Int /\ Balance(k, v) >= 0 /\ ReleasedFrom(k, {v}) \in Nat
          /\ Balance(k, v) + ReleasedFrom(k, {v}) <= Allocated[k][v]
          /\ Allocated[k][v] \in Int
      BY <1>1, <1>7, BalanceIsInt, CustodyAssumption DEF CustodyInv, WithinIssue, OrdinaryLine
    <2> DEFINE n == IF Here(c, k, {v}) THEN q ELSE 0
    <2>2. n \in Nat
      BY <1>5
    <2>3. /\ Balance(k, v)' = Balance(k, v) + n
          /\ ReleasedFrom(k, {v})' = ReleasedFrom(k, {v}) - n
      BY <1>5, <1>7, <2>2 DEF Balance
    <2> HIDE DEF n
    <2> QED
      BY <2>1, <2>2, <2>3
  <1>9. ReturnedWithinReleased'
    <2> SUFFICES ASSUME NEW k \in Line PROVE Returned(k)' <= Released(k)'
      BY DEF ReturnedWithinReleased
    <2>1. ReturnedTo(k, Warehouse)' = ReturnedTo(k, Warehouse)
      BY <1>2 DEF ReturnedTo, Sum
    <2>2. ReturnedTo(k, Warehouse) <= ReleasedFrom(k, Warehouse)
      BY DEF CustodyInv, ReturnedWithinReleased, Returned, Released
    <2>3. CASE k = l
      <3>1. ReleasedFrom(k, Warehouse)' \in Nat
        <4>1. DOMAIN checks' = Check /\ Table(checks') /\ IsFiniteSet(Present(checks'))
          BY <1>5 DEF CustodyRows, CustodyTyped, CustodyTypeOK, Table, Present, Absent, CheckRow
        <4>2. ReleasedFrom(k, Warehouse)' = UnitsOf(checks', "FINALIZED", k, Warehouse)
          BY <4>1 DEF ReleasedFrom, Sum, UnitsOf, CountedRows
        <4> QED
          BY <4>1, <4>2, UnitsAreNat
      <3> QED
        BY <1>4, <2>1, <2>3, <3>1 DEF Returned, Released
    <2>4. CASE k # l
      <3>1. ReleasedFrom(k, Warehouse)' = ReleasedFrom(k, Warehouse)
        BY <1>5, <1>7, <2>4 DEF Here
      <3> QED
        BY <2>1, <2>2, <3>1 DEF Returned, Released
    <2> QED
      BY <2>3, <2>4
  <1> QED
    BY <1>5, <1>6, <1>8, <1>9 DEF CustodyInv

\* Reversing a placement that is still in custody.
LEMMA ReversePlacementWithin ==
  ASSUME CustodyInv, NEW e \in events, ReversePlacement(e)
  PROVE  CustodyInv'
  <1>1. CustodyRows /\ CustodyTyped
    BY DEF CustodyInv, CustodyRows
  <1>2. /\ Balance(e.line, e.warehouse) >= e.quantity
        /\ UNCHANGED <<entitled, checks, returns, owing>>
    BY DEF ReversePlacement
  <1>3. /\ CustodyRows' /\ e.quantity \in Nat
        /\ \A k, W :
              /\ Total("PLACED", k, W)' = Total("PLACED", k, W)
                   - (IF e.line = k /\ e.warehouse \in W THEN e.quantity ELSE 0)
              /\ Total("RELEASED", k, W)' = Total("RELEASED", k, W)
              /\ ReleasedFrom(k, W)' = ReleasedFrom(k, W)
    BY <1>1, ReversePlacementEffect
  <1>4. \A k, W : Total("PLACED", k, W) \in Nat /\ Total("RELEASED", k, W) \in Nat
    BY <1>1, TotalsAreNat
  <1>5. CustodyLines'
    BY <1>2 DEF CustodyInv, CustodyLines
  <1>6. WithinIssue'
    <2> SUFFICES ASSUME NEW k \in OrdinaryLine, NEW v \in Warehouse
                 PROVE  /\ Balance(k, v)' >= 0
                        /\ Balance(k, v)' + ReleasedFrom(k, {v})' <= Allocated[k][v]
      BY DEF WithinIssue
    <2>1. /\ Balance(k, v) \in Int /\ Balance(k, v) >= 0 /\ ReleasedFrom(k, {v}) \in Nat
          /\ Balance(k, v) + ReleasedFrom(k, {v}) <= Allocated[k][v]
          /\ Allocated[k][v] \in Int
      BY <1>1, BalanceIsInt, TotalsAreNat, CustodyAssumption DEF CustodyInv, WithinIssue, OrdinaryLine
    <2> DEFINE n == IF e.line = k /\ e.warehouse \in {v} THEN e.quantity ELSE 0
    <2>2. n \in Nat /\ n <= Balance(k, v)
      BY <1>2, <1>3, <2>1
    <2>3. Balance(k, v)' = Balance(k, v) - n /\ ReleasedFrom(k, {v})' = ReleasedFrom(k, {v})
      BY <1>3, <1>4, <2>2 DEF Balance
    <2> HIDE DEF n
    <2> QED
      BY <2>1, <2>2, <2>3
  <1>7. ReturnedWithinReleased'
    BY <1>2 DEF CustodyInv, ReturnedWithinReleased, Returned, ReturnedTo, Released, ReleasedFrom, Sum
  <1> QED
    BY <1>3, <1>5, <1>6, <1>7 DEF CustodyInv

\* A return takes back what was delivered and had not come back.
LEMMA CreateReturnWithin ==
  ASSUME CustodyInv, NEW r \in Return, NEW l \in Line, NEW w \in Warehouse,
         NEW q \in 1 .. Quantity[l], CreateReturn(r, l, w, q)
  PROVE  CustodyInv'
  <1>1. CustodyRows /\ CustodyTyped
    BY DEF CustodyInv, CustodyRows
  <1>2. /\ l \in entitled /\ MayReturn(l, w, q)
        /\ UNCHANGED <<entitled, events, checks, owing>>
    BY DEF CreateReturn
  <1>3. q <= Released(l) - Returned(l) /\ q \in Int
    BY <1>2, CustodyAssumption DEF CustodyInv, CustodyLines, OrdinaryLine, MayReturn
  <1>4. /\ CustodyTyped'
        /\ \A k, W : ReturnedTo(k, W)' = ReturnedTo(k, W) + (IF k = l /\ w \in W THEN q ELSE 0)
    BY <1>1, CreateReturnTyped
  <1>5. ReleaseInv'
    BY <1>1, <1>2 DEF CustodyRows, ReleaseInv, ChecksShaped, KeysOfReleases, KeyOK, ReleasesMatchChecks
  <1>6. CustodyRows'
    BY <1>1, <1>2, <1>4, <1>5, RowsIdle
  <1>7. CustodyLines'
    BY <1>2 DEF CustodyInv, CustodyLines
  <1>8. WithinIssue'
    BY ZenonT(30), <1>2 DEF CustodyInv, WithinIssue, Balance, Total, ReleasedFrom, Sum
  <1>9. ReturnedWithinReleased'
    <2> SUFFICES ASSUME NEW k \in Line PROVE Returned(k)' <= Released(k)'
      BY DEF ReturnedWithinReleased
    <2>1. ReleasedFrom(k, Warehouse)' = ReleasedFrom(k, Warehouse)
      BY <1>2 DEF ReleasedFrom, Sum
    <2>2. ReturnedTo(k, Warehouse) <= ReleasedFrom(k, Warehouse)
      BY DEF CustodyInv, ReturnedWithinReleased, Returned, Released
    <2>3. ReturnedTo(k, Warehouse) \in Nat /\ ReleasedFrom(k, Warehouse) \in Nat
      BY <1>1, TotalsAreNat
    <2>4. k = l => q <= ReleasedFrom(k, Warehouse) - ReturnedTo(k, Warehouse)
      BY <1>3 DEF Returned, Released
    <2>5. ReturnedTo(k, Warehouse)' <= ReleasedFrom(k, Warehouse)'
      BY <1>3, <1>4, <2>1, <2>2, <2>3, <2>4
    <2> QED
      BY <2>5 DEF Returned, Released
  <1> QED
    BY <1>6, <1>7, <1>8, <1>9 DEF CustodyInv

\* Every step of the ordinary lines keeps the bounds.
LEMMA CustodyInvStep ==
  ASSUME CallerKey = {}
  PROVE  CustodyInv /\ [CustodyNext]_custodyVars => CustodyInv'
  <1> SUFFICES ASSUME CustodyInv, [CustodyNext]_custodyVars PROVE CustodyInv'
    OBVIOUS
  <1>1. CustodyRows /\ CustodyTyped /\ ReleaseInv
    BY DEF CustodyInv, CustodyRows
  <1>2. ReleaseInv'
    BY <1>1, ReleaseStep
  <1>3. \A l, W : ReturnedTo(l, W) \in Nat
    BY <1>1, TotalsAreNat
  <1>4. ASSUME UNCHANGED <<events, checks, returns>>, owing' \subseteq Line,
               entitled \subseteq entitled', entitled' \in SUBSET OrdinaryLine
        PROVE  CustodyInv'
    <2>1. CustodyTyped'
      BY <1>1, <1>4, TypedIdle DEF OrdinaryLine
    <2>2. CustodyRows'
      BY <1>1, <1>2, <1>4, <2>1, RowsIdle
    <2>3. CustodyLines'
      BY <1>4 DEF CustodyInv, CustodyLines
    <2>4. WithinIssue' /\ ReturnedWithinReleased'
      BY <1>4 DEF CustodyInv, WithinIssue, Balance, Total, ReleasedFrom, Sum,
                  ReturnedWithinReleased, Returned, ReturnedTo, Released
    <2> QED
      BY <2>2, <2>3, <2>4 DEF CustodyInv
  <1>5. ASSUME NEW l \in Line \ TransitLine, Entitle(l) PROVE CustodyInv'
    <2>1. owing \subseteq Line
      BY <1>1 DEF CustodyTyped, CustodyTypeOK
    <2> QED
      BY <1>4, <1>5, <2>1 DEF Entitle, CustodyInv, CustodyLines, OrdinaryLine
  <1>6. ASSUME NEW c \in Check, NEW l \in Line, NEW w \in Warehouse,
               NEW q \in 1 .. Quantity[l], PrepareCheck(c, l, w, q)
        PROVE  CustodyInv'
    <2>1. CustodyTyped' /\ \A k, W : ReleasedFrom(k, W)' = ReleasedFrom(k, W)
      BY <1>1, <1>6, PrepareTyped
    <2>2. /\ l \in entitled /\ UNCHANGED <<entitled, events, returns, owing>> /\ checks[c] = Absent
          /\ checks'[c].line = l
          /\ \A d \in Check \ {c} : checks'[d] = checks[d]
      BY <1>1, <1>6, RowsTyped DEF PrepareCheck
    <2>3. CustodyRows'
      BY <1>1, <1>2, <2>1, <2>2, RowsIdle
    <2>4. CustodyLines'
      BY <2>2 DEF CustodyInv, CustodyLines
    <2>5. \A k, W : ReturnedTo(k, W)' <= ReturnedTo(k, W)
      <3>1. \A k, W : ReturnedTo(k, W)' = ReturnedTo(k, W)
        BY <2>2 DEF ReturnedTo, Sum
      <3> QED
        BY <1>3, <3>1
    <2>6. WithinIssue' /\ ReturnedWithinReleased'
      BY <2>1, <2>2, <2>5, NothingMoves
    <2> QED
      BY <2>3, <2>4, <2>6 DEF CustodyInv
  <1>7. ASSUME NEW c \in Check, CheckStep(c) PROVE CustodyInv'
    <2>1. \A key \in CallerKey \cup {NoKey} : FinalizeCheck(c, key) => CustodyInv'
      BY FinalizeWithin
    <2> QED
      BY <1>6, <1>7, <2>1, CancelWithin DEF CheckStep
  <1>8. ASSUME NEW r \in Return, ReverseReturn(r) PROVE CustodyInv'
    <2>1. CustodyTyped' /\ \A k, W : ReturnedTo(k, W)' <= ReturnedTo(k, W)
      BY <1>1, <1>8, ReverseReturnTyped
    <2>2. UNCHANGED <<entitled, events, checks, owing>>
      BY <1>8 DEF ReverseReturn
    <2>3. CustodyRows'
      BY <1>1, <1>2, <2>1, <2>2, RowsIdle
    <2>4. CustodyLines'
      BY <2>2 DEF CustodyInv, CustodyLines
    <2>5. \A k, W : ReleasedFrom(k, W)' = ReleasedFrom(k, W)
      BY <2>2 DEF ReleasedFrom, Sum
    <2>6. WithinIssue' /\ ReturnedWithinReleased'
      BY <2>1, <2>2, <2>5, NothingMoves
    <2> QED
      BY <2>3, <2>4, <2>6 DEF CustodyInv
  <1>9. ASSUME NEW r \in Return, CustodyReturnStep(r) PROVE CustodyInv'
    BY <1>8, <1>9, CreateReturnWithin DEF CustodyReturnStep
  <1>10. ASSUME NEW l \in Line, ResolveObligation(l) PROVE CustodyInv'
    <2>1. owing \subseteq Line
      BY <1>1 DEF CustodyTyped, CustodyTypeOK
    <2> QED
      BY <1>4, <1>10, <2>1 DEF ResolveObligation, CustodyInv, CustodyLines
  <1>11. CASE UNCHANGED custodyVars
    <2>1. owing \subseteq Line
      BY <1>1 DEF CustodyTyped, CustodyTypeOK
    <2> QED
      BY <1>4, <1>11, <2>1 DEF custodyVars, CustodyInv, CustodyLines
  <1> QED
    BY <1>5, <1>7, <1>9, <1>10, <1>11, ReversePlacementWithin DEF CustodyNext, CustodyStep

\* While no caller brings a key, the custody ledger of an ordinary line never
\* goes negative and never holds, with what was delivered, more than was issued
\* at the warehouse or bought on the line (customer_custody/services.py,
\* sales/services.py finalize_warehouse_check, cancel_warehouse_check).
THEOREM CustodyStaysWithinOwnership ==
  ASSUME CallerKey = {}
  PROVE  CustodySpec => []CustodyWithinOwnership
  <1> QED
    BY WithinOwnership, CustodyInvInit, CustodyInvStep, PTL DEF CustodySpec

\* What customers returned of a line had been delivered, also when checks are
\* cancelled in between (sales/returns_services.py create_sales_return).
THEOREM ReturnsWereDelivered ==
  ASSUME CallerKey = {}
  PROVE  CustodySpec => []ReturnedWasDelivered
  <1>1. CustodyInv => ReturnedWasDelivered
    BY DEF CustodyInv, ReturnedWithinReleased, ReturnedWasDelivered, OrdinaryLine
  <1> QED
    BY <1>1, CustodyInvInit, CustodyInvStep, PTL DEF CustodySpec
-----------------------------------------------------------------------------
(***************************************************************************)
(* Serving a queue.  Lines want a[1], a[2], ... and n units are handed out *)
(* front to back: line i takes what is left after those before it, at most *)
(* what it wants.                                                          *)
(***************************************************************************)
LEMMA MinOfTwo ==
  ASSUME NEW a \in Int, NEW b \in Int
  PROVE  Min({a, b}) = IF a <= b THEN a ELSE b
  BY DEF Min

LEMMA MaxOfTwo ==
  ASSUME NEW a \in Int, NEW b \in Int
  PROVE  Max({a, b}) = IF a <= b THEN b ELSE a
  BY DEF Max

\* The first i terms, and the next one.
LEMMA Prefix ==
  ASSUME NEW N \in Nat, NEW a, \A i \in 1 .. N : a[i] \in Nat, NEW i \in 1 .. N
  PROVE  /\ SumFunctionOnSet(a, 1 .. (i - 1)) \in Nat
         /\ SumFunctionOnSet(a, 1 .. i) = SumFunctionOnSet(a, 1 .. (i - 1)) + a[i]
  <1> DEFINE S == 1 .. (i - 1)
  <1>1. IsFiniteSet(S)
    BY FS_Interval
  <1>2. i \notin S /\ 1 .. i = S \cup {i} /\ \A j \in S : a[j] \in Nat
    OBVIOUS
  <1>3. IntOn(a, S) /\ a[i] \in Int
    BY <1>2 DEF IntOn
  <1> HIDE DEF S
  <1>4. SumFunctionOnSet(a, S) \in Nat
    BY <1>1, <1>2, SumNat
  <1>5. SumFunctionOnSet(a, S \cup {i}) = a[i] + SumFunctionOnSet(a, S)
    BY <1>1, <1>2, <1>3, SumAdd
  <1>6. SumFunctionOnSet(a, 1 .. i) = SumFunctionOnSet(a, S) + a[i]
    <2>1. SumFunctionOnSet(a, 1 .. i) = SumFunctionOnSet(a, S \cup {i})
      BY <1>2, Zenon
    <2> QED
      BY <1>3, <1>4, <1>5, <2>1
  <1> QED
    BY <1>4, <1>6 DEF S

LEMMA PrefixGrows ==
  ASSUME NEW N \in Nat, NEW a, \A i \in 1 .. N : a[i] \in Nat, NEW i \in 1 .. N, NEW j \in 1 .. N, i < j
  PROVE  SumFunctionOnSet(a, 1 .. i) <= SumFunctionOnSet(a, 1 .. (j - 1))
  <1> DEFINE S == 1 .. i
             T == 1 .. (j - 1)
  <1>1. IsFiniteSet(T) /\ S \in SUBSET T /\ \A k \in T : a[k] \in Nat
    BY FS_Interval
  <1> HIDE DEF S, T
  <1>2. SumFunctionOnSet(a, S) <= SumFunctionOnSet(a, T)
    BY <1>1, SumSubset
  <1> QED
    BY <1>2 DEF S, T

Before(a, i) == SumFunctionOnSet(a, 1 .. (i - 1))

Served(a, n, i) == Max({0, Min({a[i], n - Before(a, i)})})

LEMMA ServedIs ==
  ASSUME NEW N \in Nat, NEW a, \A i \in 1 .. N : a[i] \in Nat, NEW n \in Nat, NEW i \in 1 .. N
  PROVE  /\ Served(a, n, i) = IF n <= Before(a, i) THEN 0
                                ELSE IF n - Before(a, i) <= a[i] THEN n - Before(a, i) ELSE a[i]
         /\ Served(a, n, i) \in Nat /\ Served(a, n, i) <= a[i] /\ Before(a, i) \in Nat
  <1> DEFINE b == Before(a, i)
  <1>1. b \in Nat /\ a[i] \in Nat
    BY Prefix DEF Before
  <1> HIDE DEF b
  <1>2. Min({a[i], n - b}) = IF a[i] <= n - b THEN a[i] ELSE n - b
    BY <1>1, MinOfTwo
  <1>3. Max({0, Min({a[i], n - b})}) = IF 0 <= Min({a[i], n - b}) THEN Min({a[i], n - b}) ELSE 0
    BY <1>1, <1>2, MaxOfTwo
  <1>4. Served(a, n, i) = Max({0, Min({a[i], n - b})})
    BY DEF Served, b
  <1>5. /\ Served(a, n, i) = IF n <= b THEN 0 ELSE IF n - b <= a[i] THEN n - b ELSE a[i]
        /\ Served(a, n, i) \in Nat /\ Served(a, n, i) <= a[i]
    BY <1>1, <1>2, <1>3, <1>4
  <1> QED
    BY <1>1, <1>5 DEF b

\* Nobody is served before those in front have what they want.
LEMMA ServedFrontToBack ==
  ASSUME NEW N \in Nat, NEW a, \A i \in 1 .. N : a[i] \in Nat, NEW n \in Nat,
         NEW i \in 1 .. N, NEW j \in 1 .. N, i < j, Served(a, n, j) > 0
  PROVE  Served(a, n, i) = a[i]
  <1> DEFINE b == Before(a, i)
             c == Before(a, j)
  <1>1. /\ Served(a, n, i) = IF n <= b THEN 0 ELSE IF n - b <= a[i] THEN n - b ELSE a[i]
        /\ b \in Nat
    BY ServedIs
  <1>2. /\ Served(a, n, j) = IF n <= c THEN 0 ELSE IF n - c <= a[j] THEN n - c ELSE a[j]
        /\ c \in Nat
    BY ServedIs
  <1>3. b + a[i] <= c
    BY Prefix, PrefixGrows DEF Before
  <1> HIDE DEF b, c
  <1> QED
    BY <1>1, <1>2, <1>3

\* All n units are handed out, if they are wanted.
LEMMA AllServed ==
  ASSUME NEW N \in Nat, NEW a, \A i \in 1 .. N : a[i] \in Nat, NEW n \in Nat,
         n <= SumFunctionOnSet(a, 1 .. N),
         NEW t, \A i \in 1 .. N : t[i] = Served(a, n, i)
  PROVE  SumFunctionOnSet(t, 1 .. N) = n
  <1> DEFINE A(i) == SumFunctionOnSet(a, 1 .. i)
             T(i) == SumFunctionOnSet(t, 1 .. i)
             Bad == {i \in 0 .. N : T(i) # IF n <= A(i) THEN n ELSE A(i)}
  <1>1. ASSUME Bad # {} PROVE FALSE
    <2>1. Bad \in SUBSET Nat
      OBVIOUS
    <2>2. PICK m \in Bad : \A k \in Bad : m <= k
      <3> HIDE DEF Bad
      <3> QED
        BY <1>1, <2>1, LeastNatural
    <2>3. T(m) # IF n <= A(m) THEN n ELSE A(m)
      OBVIOUS
    <2>4. CASE m = 0
      <3>1. 1 .. m = {}
        BY <2>4
      <3>2. T(m) = 0 /\ A(m) = 0
        BY <3>1, SumEmpty
      <3> QED
        BY <2>3, <3>2
    <2>5. CASE m # 0
      <3>1. m \in 1 .. N /\ m - 1 \in 0 .. N /\ m - 1 < m
        BY <2>5
      <3>2. ~(m - 1 \in Bad)
        <4> HIDE DEF Bad
        <4> QED
          BY <2>1, <2>2, <3>1
      <3>3. T(m - 1) = IF n <= A(m - 1) THEN n ELSE A(m - 1)
        BY <3>1, <3>2
      <3>4. \A i \in 1 .. N : t[i] \in Nat
        BY SMTT(30), ServedIs
      <3>5. A(m) = A(m - 1) + a[m] /\ A(m - 1) \in Nat /\ a[m] \in Nat
        BY <3>1, Prefix
      <3>6. T(m) = T(m - 1) + t[m] /\ T(m - 1) \in Nat
        BY <3>1, <3>4, Prefix
      <3>7. t[m] = IF n <= A(m - 1) THEN 0 ELSE IF n - A(m - 1) <= a[m] THEN n - A(m - 1) ELSE a[m]
        BY <3>1, ServedIs DEF Before
      <3> HIDE DEF A, T
      <3> QED
        BY SMTT(30), <2>3, <3>3, <3>5, <3>6, <3>7
    <2> QED
      BY <2>4, <2>5
  <1>2. N \notin Bad
    BY <1>1
  <1>3. T(N) = IF n <= A(N) THEN n ELSE A(N)
    BY <1>2
  <1> QED
    BY <1>3
-----------------------------------------------------------------------------
(***************************************************************************)
(* What receipts brought a line, for a set of events.                      *)
(***************************************************************************)
Arrivals(E, l) == {e \in E : e.type = "PLACED" /\ e.reference = Receipt /\ e.line = l}

ArrivedOf(E, l) == SumFunctionOnSet([e \in Arrivals(E, l) |-> e.quantity], Arrivals(E, l))

LEMMA ArrivedIsNat ==
  ASSUME NEW E \in SUBSET Event, IsFiniteSet(E), NEW l
  PROVE  ArrivedOf(E, l) \in Nat
  <1> DEFINE S == Arrivals(E, l)
             f == [e \in S |-> e.quantity]
  <1>1. IsFiniteSet(S) /\ \A e \in S : f[e] \in Nat
    BY FS_Subset DEF Arrivals, Event
  <1> HIDE DEF S, f
  <1>2. SumFunctionOnSet(f, S) \in Nat
    BY <1>1, SumNat
  <1> QED
    BY <1>2 DEF ArrivedOf, S, f

LEMMA ArrivalAdds ==
  ASSUME NEW E \in SUBSET Event, IsFiniteSet(E), NEW x \in Event, x \notin E, NEW l,
         x.type = "PLACED" /\ x.reference = Receipt /\ x.line = l
  PROVE  ArrivedOf(E \cup {x}, l) = ArrivedOf(E, l) + x.quantity
  <1> DEFINE S == Arrivals(E, l)
             T == Arrivals(E \cup {x}, l)
             f == [e \in S |-> e.quantity]
             g == [e \in T |-> e.quantity]
  <1>1. IsFiniteSet(S) /\ IntOn(f, S) /\ x \notin S
    BY FS_Subset DEF Arrivals, Event, IntOn
  <1>2. T = S \cup {x}
    BY DEF Arrivals
  <1>3. g[x] = x.quantity /\ g[x] \in Int
    <2>1. x \in T
      BY <1>2
    <2>2. x.quantity \in Int
      BY DEF Event
    <2> QED
      BY <2>1, <2>2
  <1>4. \A e \in S : g[e] = f[e]
    BY <1>2
  <1>5. ArrivedOf(E, l) = SumFunctionOnSet(f, S) /\ ArrivedOf(E \cup {x}, l) = SumFunctionOnSet(g, T)
    BY DEF ArrivedOf
  <1> HIDE DEF S, T, f, g
  <1>6. SumFunctionOnSet(g, T) = SumFunctionOnSet(f, S) + g[x]
    BY <1>1, <1>2, <1>3, <1>4, SumAdded
  <1> QED
    BY <1>3, <1>5, <1>6

\* Reversing an event leaves what arrived: it came, whatever became of it.
LEMMA ArrivedKept ==
  ASSUME NEW E \in SUBSET Event, IsFiniteSet(E), NEW x \in E, NEW r \in Event, r \notin E,
         r.type = x.type, r.reference = x.reference, r.line = x.line, r.quantity = x.quantity,
         NEW l
  PROVE  ArrivedOf((E \ {x}) \cup {r}, l) = ArrivedOf(E, l)
  <1> DEFINE S == Arrivals(E, l)
             M == Arrivals(E \ {x}, l)
             T == Arrivals((E \ {x}) \cup {r}, l)
             f == [e \in S |-> e.quantity]
             h == [e \in M |-> e.quantity]
             g == [e \in T |-> e.quantity]
  <1>1. IsFiniteSet(S) /\ IsFiniteSet(M) /\ IntOn(f, S) /\ IntOn(h, M)
    BY FS_Subset DEF Arrivals, Event, IntOn
  <1>2. /\ ArrivedOf(E, l) = SumFunctionOnSet(f, S)
        /\ ArrivedOf((E \ {x}) \cup {r}, l) = SumFunctionOnSet(g, T)
    BY DEF ArrivedOf
  <1>3. CASE x \in S
    <2>1. M = S \ {x} /\ T = M \cup {r} /\ r \notin M
      BY <1>3 DEF Arrivals
    <2>7. x.quantity \in Int
      BY DEF Event
    <2>8. r \in T
      BY <2>1
    <2>2. f[x] = x.quantity /\ g[r] = x.quantity
      BY <1>3, <2>8
    <2>9. \A e \in M : e \in S /\ e \in T
      BY <2>1
    <2>6. (\A e \in M : h[e] = f[e]) /\ (\A e \in M : g[e] = h[e])
      BY <2>9
    <2> HIDE DEF S, M, T, f, g, h
    <2>11. IsFiniteSet(S) /\ IntOn(f, S) /\ M = S \ {x} /\ \A e \in M : h[e] = f[e]
      BY <1>1, <2>1, <2>6
    <2>3. SumFunctionOnSet(h, M) = SumFunctionOnSet(f, S) - f[x]
      BY <1>3, <2>11, SumRemoved
    <2>10. g[r] \in Int /\ (\A e \in M : g[e] = h[e]) /\ IsFiniteSet(M)
      BY <1>1, <2>1, <2>2, <2>6, <2>7, FS_Subset
    <2>4. SumFunctionOnSet(g, T) = SumFunctionOnSet(h, M) + g[r]
      BY <1>1, <2>1, <2>10, SumAdded
    <2>5. SumFunctionOnSet(f, S) \in Int
      BY <1>1, SumInt
    <2> QED
      BY <1>2, <2>2, <2>3, <2>4, <2>5, <2>7
  <1>4. CASE x \notin S
    <2>1. T = S
      BY <1>4 DEF Arrivals
    <2>2. \A e \in S : g[e] = f[e]
      BY <2>1
    <2> HIDE DEF S, T, f, g
    <2> QED
      BY <1>1, <1>2, <2>1, <2>2, SumAgree
  <1> QED
    BY <1>3, <1>4

\* One more term at the end of a sequence of terms.
LEMMA TermAppended ==
  ASSUME NEW n \in Nat, NEW f, NEW g, \A i \in 1 .. n : f[i] \in Int /\ g[i] = f[i],
         g[n + 1] \in Int
  PROVE  SumFunctionOnSet(g, 1 .. (n + 1)) = SumFunctionOnSet(f, 1 .. n) + g[n + 1]
  <1> DEFINE S == 1 .. n
             T == 1 .. (n + 1)
  <1>0. IsFiniteSet(S)
    BY FS_Interval
  <1>1. n + 1 \notin S /\ T = S \cup {n + 1}
    OBVIOUS
  <1>2. IntOn(f, S) /\ \A i \in S : g[i] = f[i]
    BY DEF IntOn
  <1> HIDE DEF S, T
  <1>3. SumFunctionOnSet(g, T) = SumFunctionOnSet(f, S) + g[n + 1]
    BY <1>0, <1>1, <1>2, SumAdded
  <1> QED
    BY <1>3 DEF S, T
-----------------------------------------------------------------------------
(***************************************************************************)
(* What the sold lines, the receipts and the supplier returns add up to,   *)
(* and what one more of each adds.                                         *)
(***************************************************************************)
\* What a sequence with one more element looks like.
LEMMA Appended ==
  ASSUME NEW S, NEW s \in Seq(S), NEW x \in S
  PROVE  /\ Append(s, x) \in Seq(S) /\ Append(s, x)[Len(s) + 1] = x
         /\ \A i \in 1 .. Len(s) : s[i] \in S /\ Append(s, x)[i] = s[i]
         /\ Len(s) \in Nat /\ DOMAIN s = 1 .. Len(s)
         /\ Len(Append(s, x)) = Len(s) + 1 /\ DOMAIN Append(s, x) = 1 .. (Len(s) + 1)
  <1>1. /\ Append(s, x) \in Seq(S) /\ Append(s, x)[Len(s) + 1] = x
        /\ Len(Append(s, x)) = Len(s) + 1
        /\ \A i \in 1 .. Len(s) : Append(s, x)[i] = s[i]
    BY AppendProperties
  <1> QED
    BY <1>1, LenProperties, ElementOfSeq

SoldUnits(s) == SumFunctionOnSet([i \in DOMAIN s |-> Quantity[s[i]]], DOMAIN s)

SoldArrived(E, s) == SumFunctionOnSet([i \in DOMAIN s |-> ArrivedOf(E, s[i])], DOMAIN s)

Waiting(E, s) == [i \in DOMAIN s |-> Quantity[s[i]] - ArrivedOf(E, s[i])]

SoldWaiting(E, s) == SumFunctionOnSet(Waiting(E, s), DOMAIN s)

LEMMA SoldTyped ==
  ASSUME NEW s \in Seq(TransitLine), NEW E \in SUBSET Event, IsFiniteSet(E)
  PROVE  /\ Len(s) \in Nat /\ DOMAIN s = 1 .. Len(s) /\ IsFiniteSet(DOMAIN s)
         /\ \A i \in DOMAIN s : /\ s[i] \in TransitLine /\ Quantity[s[i]] \in Nat \ {0}
                               /\ ArrivedOf(E, s[i]) \in Nat
  <1>1. Len(s) \in Nat /\ DOMAIN s = 1 .. Len(s) /\ \A i \in DOMAIN s : s[i] \in TransitLine
    BY LenProperties, ElementOfSeq
  <1>2. IsFiniteSet(DOMAIN s)
    BY <1>1, FS_Interval
  <1> QED
    BY <1>1, <1>2, CustodyAssumption, ArrivedIsNat

\* What is still to come is what was sold less what arrived.
LEMMA SoldWaits ==
  ASSUME NEW s \in Seq(TransitLine), NEW E \in SUBSET Event, IsFiniteSet(E)
  PROVE  /\ SoldUnits(s) \in Nat /\ SoldArrived(E, s) \in Nat
         /\ SoldWaiting(E, s) = SoldUnits(s) - SoldArrived(E, s)
  <1> DEFINE S == DOMAIN s
             f == [i \in S |-> Quantity[s[i]]]
             g == [i \in S |-> ArrivedOf(E, s[i])]
             h == Waiting(E, s)
  <1>1. /\ IsFiniteSet(S)
        /\ \A i \in S : f[i] \in Nat
        /\ \A i \in S : g[i] \in Nat
    BY SoldTyped
  <1>2. \A i \in S : h[i] = f[i] - g[i]
    BY DEF Waiting
  <1>3. /\ SoldUnits(s) = SumFunctionOnSet(f, S) /\ SoldArrived(E, s) = SumFunctionOnSet(g, S)
        /\ SoldWaiting(E, s) = SumFunctionOnSet(h, S)
    BY DEF SoldUnits, SoldArrived, SoldWaiting
  <1> HIDE DEF S, f, g, h
  <1>4. SumFunctionOnSet(f, S) \in Nat /\ SumFunctionOnSet(g, S) \in Nat
    BY <1>1, SumNat
  <1>5. IntOn(g, S) /\ IntOn(h, S) /\ \A i \in S : f[i] = g[i] + h[i]
    BY <1>1, <1>2 DEF IntOn
  <1>6. SumFunctionOnSet(f, S) = SumFunctionOnSet(g, S) + SumFunctionOnSet(h, S)
    BY <1>1, <1>5, SumPlus
  <1>7. SumFunctionOnSet(h, S) \in Int
    BY <1>1, <1>5, SumInt
  <1> QED
    BY <1>3, <1>4, <1>6, <1>7

LEMMA SoldAppended ==
  ASSUME NEW s \in Seq(TransitLine), NEW E \in SUBSET Event, IsFiniteSet(E), NEW l \in TransitLine
  PROVE  /\ SoldUnits(Append(s, l)) = SoldUnits(s) + Quantity[l]
         /\ SoldArrived(E, Append(s, l)) = SoldArrived(E, s) + ArrivedOf(E, l)
  <1> DEFINE u == Append(s, l)
             n == Len(s)
             f == [i \in DOMAIN s |-> Quantity[s[i]]]
             g == [i \in DOMAIN u |-> Quantity[u[i]]]
             p == [i \in DOMAIN s |-> ArrivedOf(E, s[i])]
             q == [i \in DOMAIN u |-> ArrivedOf(E, u[i])]
  <1>1. u[n + 1] = l /\ \A i \in 1 .. n : u[i] = s[i]
    BY Appended
  <1>2. n \in Nat /\ DOMAIN s = 1 .. n /\ DOMAIN u = 1 .. (n + 1)
    BY Appended
  <1>3. \A i \in 1 .. n : Quantity[s[i]] \in Nat /\ ArrivedOf(E, s[i]) \in Nat
    BY <1>2, SoldTyped
  <1>4. Quantity[l] \in Nat /\ ArrivedOf(E, l) \in Nat
    BY CustodyAssumption, ArrivedIsNat
  <1> HIDE DEF u, n
  <1>5. (\A i \in 1 .. n : f[i] \in Int /\ g[i] = f[i]) /\ g[n + 1] = Quantity[l] /\ g[n + 1] \in Int
    BY <1>1, <1>2, <1>3, <1>4
  <1>6. (\A i \in 1 .. n : p[i] \in Int /\ q[i] = p[i]) /\ q[n + 1] = ArrivedOf(E, l) /\ q[n + 1] \in Int
    BY <1>1, <1>2, <1>3, <1>4
  <1>7. /\ SoldUnits(s) = SumFunctionOnSet(f, 1 .. n)
        /\ SoldUnits(u) = SumFunctionOnSet(g, 1 .. (n + 1))
        /\ SoldArrived(E, s) = SumFunctionOnSet(p, 1 .. n)
        /\ SoldArrived(E, u) = SumFunctionOnSet(q, 1 .. (n + 1))
    BY <1>2 DEF SoldUnits, SoldArrived
  <1> HIDE DEF f, g, p, q
  <1>8. SumFunctionOnSet(g, 1 .. (n + 1)) = SumFunctionOnSet(f, 1 .. n) + g[n + 1]
    BY <1>2, <1>5, TermAppended
  <1>9. SumFunctionOnSet(q, 1 .. (n + 1)) = SumFunctionOnSet(p, 1 .. n) + q[n + 1]
    BY <1>2, <1>6, TermAppended
  <1> QED
    BY <1>5, <1>6, <1>7, <1>8, <1>9 DEF u

CompanyUnits(R) == SumFunctionOnSet([k \in DOMAIN R |-> R[k].company], DOMAIN R)

CustomerUnits(R) == SumFunctionOnSet([k \in DOMAIN R |-> R[k].customers], DOMAIN R)

LEMMA ReceiptsAreNat ==
  ASSUME NEW R \in Seq(ReceiptRow)
  PROVE  CompanyUnits(R) \in Nat /\ CustomerUnits(R) \in Nat
  <1> DEFINE S == DOMAIN R
             f == [k \in S |-> R[k].company]
             g == [k \in S |-> R[k].customers]
  <1>1. Len(R) \in Nat /\ S = 1 .. Len(R) /\ \A k \in S : R[k] \in ReceiptRow
    BY LenProperties, ElementOfSeq
  <1>2. IsFiniteSet(S)
    BY <1>1, FS_Interval
  <1>3. (\A k \in S : f[k] \in Nat) /\ (\A k \in S : g[k] \in Nat)
    BY <1>1 DEF ReceiptRow
  <1>4. CompanyUnits(R) = SumFunctionOnSet(f, S) /\ CustomerUnits(R) = SumFunctionOnSet(g, S)
    BY DEF CompanyUnits, CustomerUnits
  <1> HIDE DEF S, f, g
  <1>5. SumFunctionOnSet(f, S) \in Nat /\ SumFunctionOnSet(g, S) \in Nat
    BY <1>2, <1>3, SumNat
  <1> QED
    BY <1>4, <1>5

LEMMA ReceiptAppended ==
  ASSUME NEW R \in Seq(ReceiptRow), NEW r \in ReceiptRow
  PROVE  /\ CompanyUnits(Append(R, r)) = CompanyUnits(R) + r.company
         /\ CustomerUnits(Append(R, r)) = CustomerUnits(R) + r.customers
  <1> DEFINE u == Append(R, r)
             n == Len(R)
             f == [k \in DOMAIN R |-> R[k].company]
             g == [k \in DOMAIN u |-> u[k].company]
             p == [k \in DOMAIN R |-> R[k].customers]
             q == [k \in DOMAIN u |-> u[k].customers]
  <1>1. /\ u[n + 1] = r
        /\ \A i \in 1 .. n : R[i] \in ReceiptRow /\ u[i] = R[i]
    BY Appended
  <1>2. n \in Nat /\ DOMAIN R = 1 .. n /\ DOMAIN u = 1 .. (n + 1)
    BY Appended
  <1>3. \A i \in 1 .. n : R[i].company \in Nat /\ R[i].customers \in Nat
    BY <1>1 DEF ReceiptRow
  <1>4. r.company \in Nat /\ r.customers \in Nat
    BY DEF ReceiptRow
  <1> HIDE DEF u, n
  <1>5. (\A i \in 1 .. n : f[i] \in Int /\ g[i] = f[i]) /\ g[n + 1] = r.company /\ g[n + 1] \in Int
    BY <1>1, <1>2, <1>3, <1>4
  <1>6. (\A i \in 1 .. n : p[i] \in Int /\ q[i] = p[i]) /\ q[n + 1] = r.customers /\ q[n + 1] \in Int
    BY <1>1, <1>2, <1>3, <1>4
  <1>7. /\ CompanyUnits(R) = SumFunctionOnSet(f, 1 .. n)
        /\ CompanyUnits(u) = SumFunctionOnSet(g, 1 .. (n + 1))
        /\ CustomerUnits(R) = SumFunctionOnSet(p, 1 .. n)
        /\ CustomerUnits(u) = SumFunctionOnSet(q, 1 .. (n + 1))
    BY <1>2 DEF CompanyUnits, CustomerUnits
  <1> HIDE DEF f, g, p, q
  <1>8. SumFunctionOnSet(g, 1 .. (n + 1)) = SumFunctionOnSet(f, 1 .. n) + g[n + 1]
    BY <1>2, <1>5, TermAppended
  <1>9. SumFunctionOnSet(q, 1 .. (n + 1)) = SumFunctionOnSet(p, 1 .. n) + q[n + 1]
    BY <1>2, <1>6, TermAppended
  <1> QED
    BY <1>5, <1>6, <1>7, <1>8, <1>9 DEF u

PostedRows(T) == {p \in DOMAIN T : T[p].status = "POSTED"}

PostedUnits(T) == SumFunctionOnSet([p \in PostedRows(T) |-> T[p].quantity], PostedRows(T))

LEMMA PostedIsNat ==
  ASSUME NEW T, Table(T), IsFiniteSet(Present(T))
  PROVE  PostedUnits(T) \in Nat
  <1> DEFINE S == PostedRows(T)
             f == [p \in S |-> T[p].quantity]
  <1>1. S \in SUBSET Present(T)
    BY DEF PostedRows, Present
  <1>2. IsFiniteSet(S) /\ \A p \in S : f[p] \in Nat
    BY <1>1, FS_Subset DEF Table
  <1> HIDE DEF S, f
  <1>3. SumFunctionOnSet(f, S) \in Nat
    BY <1>2, SumNat
  <1> QED
    BY <1>3 DEF PostedUnits, S, f

LEMMA PostedChanges ==
  ASSUME NEW T, NEW U, DOMAIN U = DOMAIN T, Table(T), Table(U), IsFiniteSet(Present(T)),
         NEW x \in DOMAIN T, \A p \in DOMAIN T \ {x} : U[p] = T[p]
  PROVE  PostedUnits(U) = PostedUnits(T) - (IF T[x].status = "POSTED" THEN T[x].quantity ELSE 0)
                                         + (IF U[x].status = "POSTED" THEN U[x].quantity ELSE 0)
  <1> DEFINE S == PostedRows(T)
             V == PostedRows(U)
             f == [p \in S |-> T[p].quantity]
             g == [p \in V |-> U[p].quantity]
  <1>1. S \in SUBSET Present(T) /\ V \in SUBSET Present(U) /\ S \ {x} = V \ {x}
    BY DEF PostedRows, Present
  <1>2. IsFiniteSet(S) /\ IntOn(f, S) /\ IntOn(g, V)
    BY <1>1, FS_Subset DEF Table, IntOn
  <1>3. \A p \in S \ {x} : g[p] = f[p]
    BY <1>1 DEF PostedRows
  <1>4. /\ x \in S <=> T[x].status = "POSTED"
        /\ x \in V <=> U[x].status = "POSTED"
        /\ x \in S => f[x] = T[x].quantity
        /\ x \in V => g[x] = U[x].quantity
    BY DEF PostedRows
  <1>5. PostedUnits(T) = SumFunctionOnSet(f, S) /\ PostedUnits(U) = SumFunctionOnSet(g, V)
    BY DEF PostedUnits
  <1> HIDE DEF S, V, f, g
  <1>6. SumFunctionOnSet(g, V) = SumFunctionOnSet(f, S) - (IF x \in S THEN f[x] ELSE 0)
                                                        + (IF x \in V THEN g[x] ELSE 0)
    BY <1>1, <1>2, <1>3, SumChange
  <1> QED
    BY <1>4, <1>5, <1>6
-----------------------------------------------------------------------------
(***************************************************************************)
(* A receipt: the events it writes, what they add, and that the custody    *)
(* records stay in order.                                                  *)
(***************************************************************************)
ReceiptEvent(s, t, k, w, i) ==
  [key |-> <<"receipt", s[i], k>>, type |-> "PLACED", line |-> s[i], warehouse |-> w,
   quantity |-> t[i], reference |-> Receipt, reversed |-> FALSE]

ReceiptEvents(s, t, k, w) ==
  {ReceiptEvent(s, t, k, w, i) : i \in {j \in DOMAIN s : t[j] > 0}}

Distinct(s) == \A i, j \in DOMAIN s : s[i] = s[j] => i = j

LEMMA ReceiptEventTyped ==
  ASSUME NEW s \in Seq(TransitLine), NEW t, \A i \in DOMAIN s : t[i] \in Nat,
         NEW k \in Nat, NEW w \in Warehouse, NEW i \in DOMAIN s, t[i] > 0
  PROVE  ReceiptEvent(s, t, k, w, i) \in Event
  <1>1. s[i] \in Line /\ t[i] \in Nat \ {0}
    <2>1. s[i] \in TransitLine
      BY LenProperties, ElementOfSeq
    <2> QED
      BY <2>1, CustodyAssumption
  <1>2. <<"receipt", s[i], k>> \in {"receipt"} \X Line \X Nat
    BY <1>1
  <1> QED
    BY <1>1, <1>2 DEF ReceiptEvent, Event

LEMMA ReceiptEventsTyped ==
  ASSUME NEW s \in Seq(TransitLine), NEW t, \A i \in DOMAIN s : t[i] \in Nat,
         NEW k \in Nat, NEW w \in Warehouse
  PROVE  ReceiptEvents(s, t, k, w) \in SUBSET Event /\ IsFiniteSet(ReceiptEvents(s, t, k, w))
  <1> DEFINE J == {j \in DOMAIN s : t[j] > 0}
             A == ReceiptEvents(s, t, k, w)
             f == [i \in J |-> ReceiptEvent(s, t, k, w, i)]
  <1>1. A \in SUBSET Event
    BY ReceiptEventTyped DEF ReceiptEvents
  <1>2. IsFiniteSet(J)
    <2>1. Len(s) \in Nat /\ DOMAIN s = 1 .. Len(s)
      BY LenProperties
    <2>2. IsFiniteSet(DOMAIN s)
      BY <2>1, FS_Interval
    <2> QED
      BY <2>2, FS_Subset
  <1>3. f \in Surjection(J, A)
    <2>1. f \in [J -> A] /\ \A e \in A : \E i \in J : f[i] = e
      BY DEF ReceiptEvents
    <2> QED
      BY <2>1 DEF Surjection
  <1> QED
    BY <1>1, <1>2, <1>3, FS_Surjection

WithReceipt(E, s, t, k, w) == E \cup ReceiptEvents(s, t, k, w)

\* A line has at most one event of a receipt, with what it takes.
LEMMA ReceiptAdds ==
  ASSUME NEW s \in Seq(TransitLine), Distinct(s), NEW t, \A i \in DOMAIN s : t[i] \in Nat,
         NEW k \in Nat, NEW w \in Warehouse,
         NEW E \in SUBSET Event, IsFiniteSet(E),
         \A e \in E, i \in DOMAIN s : e.key # <<"receipt", s[i], k>>,
         NEW i \in DOMAIN s, NEW F, F = WithReceipt(E, s, t, k, w), NEW W
  PROVE  /\ ArrivedOf(F, s[i]) = ArrivedOf(E, s[i]) + t[i]
         /\ TotalOf(F, "PLACED", s[i], W) = TotalOf(E, "PLACED", s[i], W)
                                              + (IF w \in W THEN t[i] ELSE 0)
  <1>0. (t[i] > 0 \/ t[i] = 0) /\ F = E \cup ReceiptEvents(s, t, k, w)
    BY DEF WithReceipt
  <1> DEFINE x == ReceiptEvent(s, t, k, w, i)
             A == ReceiptEvents(s, t, k, w)
  <1>1. \A e \in A : e.line = s[i] => e = x /\ t[i] > 0
    BY DEF ReceiptEvents, ReceiptEvent, Distinct
  <1>2. t[i] > 0 => x \in A
    BY DEF ReceiptEvents
  <1>3. /\ x.type = "PLACED" /\ x.reference = Receipt /\ x.line = s[i] /\ x.warehouse = w
        /\ x.quantity = t[i] /\ ~x.reversed /\ x.key = <<"receipt", s[i], k>>
    BY DEF ReceiptEvent
  <1>4. x \notin E
    BY <1>3
  <1>5. t[i] > 0 => x \in Event
    BY ReceiptEventTyped
  <1> HIDE DEF x, A
  <1>6. CASE t[i] > 0
    <2>1. Arrivals(F, s[i]) = Arrivals(E \cup {x}, s[i])
      BY <1>0, <1>1, <1>2, <1>3, <1>6 DEF Arrivals, A
    <2>2. Matching(F, "PLACED", s[i], W) = Matching(E \cup {x}, "PLACED", s[i], W)
      BY <1>0, <1>1, <1>2, <1>3, <1>6 DEF Matching, A
    <2>3. ArrivedOf(E \cup {x}, s[i]) = ArrivedOf(E, s[i]) + x.quantity
      BY <1>3, <1>4, <1>5, <1>6, ArrivalAdds
    <2>8. \A type, l, V : TotalOf(E \cup {x}, type, l, V) = TotalOf(E, type, l, V)
            + (IF x.type = type /\ x.line = l /\ x.warehouse \in V THEN x.quantity ELSE 0)
      <3>1. x \in Event /\ x \notin E /\ ~x.reversed
        BY <1>3, <1>4, <1>5, <1>6
      <3> QED
        BY <3>1, EventAdds
    <2>4. TotalOf(E \cup {x}, "PLACED", s[i], W) = TotalOf(E, "PLACED", s[i], W)
                   + (IF x.type = "PLACED" /\ x.line = s[i] /\ x.warehouse \in W THEN x.quantity ELSE 0)
      BY <2>8
    <2>5. ArrivedOf(F, s[i]) = ArrivedOf(E \cup {x}, s[i])
      BY <2>1 DEF ArrivedOf
    <2>6. TotalOf(F, "PLACED", s[i], W) = TotalOf(E \cup {x}, "PLACED", s[i], W)
      BY <2>2 DEF TotalOf
    <2>7. TotalOf(F, "PLACED", s[i], W) = TotalOf(E, "PLACED", s[i], W)
                                                   + (IF w \in W THEN t[i] ELSE 0)
      BY <1>3, <2>4, <2>6
    <2> QED
      BY <1>3, <2>3, <2>5, <2>7
  <1>7. CASE t[i] = 0
    <2>1. Arrivals(F, s[i]) = Arrivals(E, s[i])
      BY <1>0, <1>1, <1>7 DEF Arrivals, A
    <2>2. Matching(F, "PLACED", s[i], W) = Matching(E, "PLACED", s[i], W)
      BY <1>0, <1>1, <1>7 DEF Matching, A
    <2>3. ArrivedOf(F, s[i]) = ArrivedOf(E, s[i]) /\ ArrivedOf(E, s[i]) \in Nat
      BY <2>1, ArrivedIsNat DEF ArrivedOf
    <2>4. TotalOf(F, "PLACED", s[i], W) = TotalOf(E, "PLACED", s[i], W)
      BY <2>2 DEF TotalOf
    <2>5. TotalOf(E, "PLACED", s[i], W) \in Nat
      BY TotalIsNat
    <2>6. TotalOf(F, "PLACED", s[i], W) = TotalOf(E, "PLACED", s[i], W)
                                                   + (IF w \in W THEN t[i] ELSE 0)
      BY <1>7, <2>4, <2>5
    <2> QED
      BY <1>7, <2>3, <2>6
  <1> QED
    BY <1>0, <1>6, <1>7

\* Lines the lot was not sold to get nothing, and nothing is released.
LEMMA ReceiptLeaves ==
  ASSUME NEW s, NEW t, NEW k, NEW w,
         NEW E, NEW F, F = WithReceipt(E, s, t, k, w), NEW l, NEW W
  PROVE  /\ TotalOf(F, "RELEASED", l, W) = TotalOf(E, "RELEASED", l, W)
         /\ (\A i \in DOMAIN s : l # s[i]) =>
               /\ ArrivedOf(F, l) = ArrivedOf(E, l)
               /\ TotalOf(F, "PLACED", l, W) = TotalOf(E, "PLACED", l, W)
  <1>1. \A e \in ReceiptEvents(s, t, k, w) : e.type = "PLACED" /\ \E i \in DOMAIN s : e.line = s[i]
    BY DEF ReceiptEvents, ReceiptEvent
  <1>2. \A X : Matching(F, "RELEASED", l, X) = Matching(E, "RELEASED", l, X)
    BY <1>1 DEF Matching, WithReceipt
  <1>3. ASSUME \A i \in DOMAIN s : l # s[i]
        PROVE  /\ Arrivals(F, l) = Arrivals(E, l)
               /\ \A X : Matching(F, "PLACED", l, X) = Matching(E, "PLACED", l, X)
    BY <1>1, <1>3 DEF Matching, Arrivals, WithReceipt
  <1> QED
    BY <1>2, <1>3 DEF TotalOf, ArrivedOf
-----------------------------------------------------------------------------
(* The lot's invariant.  Only lines sold from the lot have custody events,  *)
(* checks and arrivals, no event is written twice, and a receipt's events   *)
(* have the number of a receipt there is.                                   *)
SoldLines ==
  /\ Distinct(sold)
  /\ \A l \in entitled : \E i \in DOMAIN sold : sold[i] = l
  /\ \A i \in DOMAIN sold : sold[i] \in entitled
  /\ \A c \in Check : checks[c] # Absent => checks[c].line \in entitled
  /\ \A e \in events : e.line \in entitled

EventKeys ==
  /\ \A e, f \in events : e.key = f.key => e = f
  /\ \A e \in events, l \in Line, k \in Nat :
       e.key = <<"receipt", l, k>> => k <= Len(receipts)

LotInv ==
  /\ CustodyRows
  /\ TypeOK
  /\ IsFiniteSet(Present(supplierReturns))
  /\ SoldLines
  /\ EventKeys
  /\ UnitsAreConserved
  /\ CustomersReceiveWhatArrived
  /\ ServedInOrder
  /\ LotStatusIsHonest
-----------------------------------------------------------------------------
\* The model's sums are those of the lemmas, in a state and in the next.
LineInOrder(l) ==
  /\ Arrived(l) <= Quantity[l]
  /\ TotalBalance(l) + Released(l) <= Arrived(l)
  /\ \A w \in Warehouse : Balance(l, w) >= 0

\* Front to back: a later line has goods only when those before it have all.
InOrder(E, s) ==
  \A i, j \in DOMAIN s : i < j /\ ArrivedOf(E, s[j]) > 0 => Quantity[s[i]] - ArrivedOf(E, s[i]) = 0

LEMMA LotReads ==
  ASSUME DOMAIN supplierReturns = SupplierReturn, DOMAIN supplierReturns' = SupplierReturn
  PROVE  /\ \A l : Arrived(l) = ArrivedOf(events, l) /\ Arrived(l)' = ArrivedOf(events', l)
         /\ SoldInTransit = SoldWaiting(events, sold)
         /\ SoldInTransit' = SoldWaiting(events', sold')
         /\ ReceivedByCompany = CompanyUnits(receipts) /\ ReceivedByCompany' = CompanyUnits(receipts')
         /\ ReceivedByCustomers = CustomerUnits(receipts)
         /\ ReceivedByCustomers' = CustomerUnits(receipts')
         /\ ReturnedToSupplier = PostedUnits(supplierReturns)
         /\ ReturnedToSupplier' = PostedUnits(supplierReturns')
         /\ UnitsAreConserved <=>
              lot.remaining + CompanyUnits(receipts) + SoldUnits(sold)
                + PostedUnits(supplierReturns) + loss.quantity = Original
         /\ UnitsAreConserved' <=>
              lot'.remaining + CompanyUnits(receipts') + SoldUnits(sold')
                + PostedUnits(supplierReturns') + loss'.quantity = Original
         /\ CustomersReceiveWhatArrived <=>
              /\ SoldArrived(events, sold) = CustomerUnits(receipts)
              /\ \A l \in TransitLine : LineInOrder(l)
         /\ CustomersReceiveWhatArrived' <=>
              /\ SoldArrived(events', sold') = CustomerUnits(receipts')
              /\ \A l \in TransitLine : LineInOrder(l)'
         /\ ServedInOrder <=> InOrder(events, sold)
         /\ ServedInOrder' <=> InOrder(events', sold')
  <1>1. \A l : Arrived(l) = ArrivedOf(events, l) /\ Arrived(l)' = ArrivedOf(events', l)
    BY DEF Arrived, ArrivedOf, Arrivals, Sum
  <1>2. SoldInTransit = SoldWaiting(events, sold) /\ SoldInTransit' = SoldWaiting(events', sold')
    BY <1>1 DEF SoldInTransit, InTransit, SoldWaiting, Waiting, Sum
  <1>3. /\ ReceivedByCompany = CompanyUnits(receipts) /\ ReceivedByCompany' = CompanyUnits(receipts')
        /\ ReceivedByCustomers = CustomerUnits(receipts)
        /\ ReceivedByCustomers' = CustomerUnits(receipts')
    BY DEF ReceivedByCompany, ReceivedByCustomers, CompanyUnits, CustomerUnits, Sum
  <1>4. /\ ReturnedToSupplier = PostedUnits(supplierReturns)
        /\ ReturnedToSupplier' = PostedUnits(supplierReturns')
    BY DEF ReturnedToSupplier, PostedUnits, PostedRows, Sum
  <1>6. /\ UnitsAreConserved <=>
              lot.remaining + CompanyUnits(receipts) + SoldUnits(sold)
                + PostedUnits(supplierReturns) + loss.quantity = Original
        /\ UnitsAreConserved' <=>
              lot'.remaining + CompanyUnits(receipts') + SoldUnits(sold')
                + PostedUnits(supplierReturns') + loss'.quantity = Original
    BY <1>3, <1>4 DEF UnitsAreConserved, SoldUnits, Sum
  <1>7. /\ CustomersReceiveWhatArrived <=>
             /\ SoldArrived(events, sold) = CustomerUnits(receipts)
             /\ \A l \in TransitLine : LineInOrder(l)
        /\ CustomersReceiveWhatArrived' <=>
             /\ SoldArrived(events', sold') = CustomerUnits(receipts')
             /\ \A l \in TransitLine : LineInOrder(l)'
    BY <1>1, <1>3 DEF CustomersReceiveWhatArrived, LineInOrder, SoldArrived, Sum
  <1>8. ServedInOrder <=> InOrder(events, sold)
    BY <1>1 DEF ServedInOrder, InOrder, InTransit
  <1>9. ServedInOrder' <=> InOrder(events', sold')
    BY <1>1 DEF ServedInOrder, InOrder, InTransit
  <1> QED
    BY <1>1, <1>2, <1>3, <1>4, <1>6, <1>7, <1>8, <1>9

LEMMA LotTyped ==
  ASSUME LotInv
  PROVE  /\ CustodyTyped /\ events \in SUBSET Event /\ IsFiniteSet(events)
         /\ sold \in Seq(TransitLine) /\ receipts \in Seq(ReceiptRow)
         /\ lot.remaining \in Nat /\ lot.destination \in Warehouse /\ loss.quantity \in Nat
         /\ DOMAIN supplierReturns = SupplierReturn /\ Table(supplierReturns)
  <1>1. TypeOK /\ CustodyTyped
    BY DEF LotInv, CustodyRows
  <1>2. events \in SUBSET Event /\ IsFiniteSet(events)
    BY <1>1 DEF CustodyTyped, CustodyTypeOK
  <1>3. /\ sold \in Seq(TransitLine) /\ receipts \in Seq(ReceiptRow)
        /\ lot.remaining \in Nat /\ lot.destination \in Warehouse
    BY <1>1, LotAssumption DEF TypeOK
  <1>4. loss.quantity \in Nat
    BY <1>1 DEF TypeOK, NoLoss
  <1>5. DOMAIN supplierReturns = SupplierReturn /\ Table(supplierReturns)
    BY <1>1 DEF TypeOK, Table, Present, Absent
  <1> QED
    BY <1>1, <1>2, <1>3, <1>4, <1>5

\* What is still to come for customers is never negative.
LEMMA WaitingIsNat ==
  ASSUME NEW s \in Seq(TransitLine), NEW E \in SUBSET Event, IsFiniteSet(E),
         \A l \in TransitLine : ArrivedOf(E, l) <= Quantity[l]
  PROVE  /\ \A i \in DOMAIN s : Waiting(E, s)[i] \in Nat
         /\ SoldWaiting(E, s) \in Nat
  <1> DEFINE S == DOMAIN s
             f == Waiting(E, s)
  <1>1. IsFiniteSet(S) /\ \A i \in S : /\ s[i] \in TransitLine /\ Quantity[s[i]] \in Nat
                                        /\ ArrivedOf(E, s[i]) \in Nat
    BY SoldTyped
  <1>2. \A i \in S : f[i] \in Nat
    BY <1>1 DEF Waiting
  <1> HIDE DEF S, f
  <1>3. SumFunctionOnSet(f, S) \in Nat
    BY <1>1, <1>2, SumNat
  <1> QED
    BY <1>2, <1>3 DEF SoldWaiting, S, f

\* Steps of the lot alone: the units move between the lot, the supplier and the
\* loss, and the status says what is left.
LotTypes ==
  /\ lot \in [remaining: Nat, status: {"OPEN", "CLOSED"}, destination: Warehouse]
  /\ supplierReturns \in [SupplierReturn -> [status: {"POSTED", "REVERSED"}, quantity: Nat \ {0}] \cup {Absent}]
  /\ completed \in BOOLEAN
  /\ loss \in {NoLoss} \cup [status: {"POSTED"}, quantity: Nat \ {0}, good: Nat \ {0}]
  /\ movedOn \in BOOLEAN

LEMMA LotUpdated ==
  ASSUME NEW x \in [remaining: Nat, status: {"OPEN", "CLOSED"}, destination: Warehouse],
         NEW n \in Nat, NEW st \in {"OPEN", "CLOSED"},
         NEW y, y = [x EXCEPT !.remaining = n, !.status = st]
  PROVE  /\ y.remaining = n /\ y.status = st
         /\ y \in [remaining: Nat, status: {"OPEN", "CLOSED"}, destination: Warehouse]
  OBVIOUS

\* What the lot holds is at most what was bought, because all else is counted too.
LEMMA RemainingBounded ==
  ASSUME CustodyTypeOK', LotTypes', sold' \in Seq(TransitLine), receipts' \in Seq(ReceiptRow),
         IsFiniteSet(Present(supplierReturns')), DOMAIN supplierReturns = SupplierReturn,
         IsFiniteSet(events'), UnitsAreConserved'
  PROVE  TypeOK'
  <1>1. DOMAIN supplierReturns' = SupplierReturn /\ Table(supplierReturns')
    BY DEF LotTypes, Table, Present, Absent
  <1>2. loss'.quantity \in Nat /\ lot'.remaining \in Nat
    BY DEF LotTypes, NoLoss
  <1>3. PostedUnits(supplierReturns') \in Nat
    BY <1>1, PostedIsNat
  <1>4. CompanyUnits(receipts') \in Nat
    BY ReceiptsAreNat
  <1>5. SoldUnits(sold') \in Nat
    <2>1. events' \in SUBSET Event
      BY DEF CustodyTypeOK
    <2> QED
      BY <2>1, SoldWaits
  <1>6. lot'.remaining + CompanyUnits(receipts') + SoldUnits(sold')
          + PostedUnits(supplierReturns') + loss'.quantity = Original
    BY <1>1, LotReads
  <1>7. lot'.remaining \in 0 .. Original
    BY <1>2, <1>3, <1>4, <1>5, <1>6, LotAssumption
  <1>8. lot' \in [remaining: 0 .. Original, status: {"OPEN", "CLOSED"}, destination: Warehouse]
    BY <1>7 DEF LotTypes
  <1> QED
    BY <1>8 DEF TypeOK, LotTypes

\* A lot a with n sold units on the way, u units with the supplier and loss x.
Honest(a, n, u, x) ==
  IF a.status = "OPEN" THEN a.remaining + n > 0
  ELSE a.remaining = 0 /\ (n > 0 => u > 0 \/ x.status = "POSTED")

LEMMA LotMoves ==
  ASSUME LotInv, LotTypes', UNCHANGED <<custodyVars, sold, receipts>>,
         IsFiniteSet(Present(supplierReturns')),
         lot'.remaining + PostedUnits(supplierReturns') + loss'.quantity
           = lot.remaining + PostedUnits(supplierReturns) + loss.quantity,
         Honest(lot', SoldInTransit, PostedUnits(supplierReturns'), loss')
  PROVE  LotInv'
  <1>1. UNCHANGED <<entitled, events, checks, returns, owing, sold, receipts>>
    BY DEF custodyVars
  <1>2. DOMAIN supplierReturns = SupplierReturn
    BY LotTyped
  <1>3. DOMAIN supplierReturns' = SupplierReturn
    BY DEF LotTypes
  <1>4. CustodyRows'
    <2>1. CustodyRows
      BY DEF LotInv
    <2> QED
      BY <1>1, <2>1 DEF CustodyRows, CustodyTyped, CustodyTypeOK, Present, ReleaseInv, ChecksShaped,
                        KeysOfReleases, KeyOK, ReleasesMatchChecks, EventOK
  <1>5. SoldLines' /\ EventKeys'
    BY <1>1 DEF LotInv, SoldLines, EventKeys, Distinct
  <1>6. UnitsAreConserved'
    <2>1. /\ CompanyUnits(receipts) \in Nat /\ SoldUnits(sold) \in Nat
          /\ PostedUnits(supplierReturns) \in Nat /\ PostedUnits(supplierReturns') \in Nat
          /\ lot.remaining \in Nat /\ loss.quantity \in Nat
          /\ lot'.remaining \in Nat /\ loss'.quantity \in Nat
      <3>1. lot'.remaining \in Nat /\ loss'.quantity \in Nat
        BY DEF LotTypes, NoLoss
      <3>2. Table(supplierReturns')
        BY DEF LotTypes, Table, Present, Absent
      <3>3. IsFiniteSet(Present(supplierReturns))
        BY DEF LotInv
      <3>4. PostedUnits(supplierReturns) \in Nat /\ PostedUnits(supplierReturns') \in Nat
        BY <3>2, <3>3, LotTyped, PostedIsNat
      <3> QED
        BY <3>1, <3>4, LotTyped, SoldWaits, ReceiptsAreNat
    <2>2. lot.remaining + CompanyUnits(receipts) + SoldUnits(sold)
            + PostedUnits(supplierReturns) + loss.quantity = Original
      BY <1>2, <1>3, LotReads DEF LotInv
    <2>3. lot'.remaining + CompanyUnits(receipts') + SoldUnits(sold')
            + PostedUnits(supplierReturns') + loss'.quantity = Original
      BY <1>1, <2>1, <2>2, LotAssumption
    <2> QED
      BY <1>2, <1>3, <2>3, LotReads
  <1>7. CustomersReceiveWhatArrived' /\ ServedInOrder'
    <2>1. \A l : Arrived(l)' = Arrived(l)
      BY <1>1 DEF Arrived, Sum
    <2>2. \A type, l, W : Total(type, l, W)' = Total(type, l, W)
      BY <1>1 DEF Total, Sum
    <2>3. \A l : Released(l)' = Released(l)
      BY <1>1 DEF Released, ReleasedFrom, Sum
    <2>4. \A l \in TransitLine : LineInOrder(l)' <=> LineInOrder(l)
      BY <2>1, <2>2, <2>3 DEF LineInOrder, TotalBalance, Balance
    <2>5. CustomersReceiveWhatArrived'
      BY <1>1, <1>2, <1>3, <2>4, LotReads DEF LotInv
    <2>6. ServedInOrder'
      BY <1>1, <2>1 DEF LotInv, ServedInOrder, InTransit
    <2> QED
      BY <2>5, <2>6
  <1>8. LotStatusIsHonest'
    <2>1. SoldInTransit' = SoldInTransit
      BY <1>1 DEF SoldInTransit, InTransit, Arrived, Sum
    <2>2. ReturnedToSupplier' = PostedUnits(supplierReturns')
      BY <1>2, <1>3, LotReads
    <2> QED
      BY <2>1, <2>2 DEF LotStatusIsHonest, Honest
  <1>9. TypeOK'
    <2>1. CustodyTypeOK' /\ IsFiniteSet(events')
      BY <1>4 DEF CustodyRows, CustodyTyped
    <2> QED
      BY <1>1, <1>2, <1>6, <2>1, LotTyped, RemainingBounded
  <1> QED
    BY <1>4, <1>5, <1>6, <1>7, <1>8, <1>9 DEF LotInv

LEMMA LotInvInit == Init => LotInv
  <1> SUFFICES ASSUME Init PROVE LotInv
    OBVIOUS
  <1>1. /\ CustodyInit /\ events = {} /\ entitled = {} /\ checks = [c \in Check |-> Absent]
        /\ sold = <<>> /\ receipts = <<>> /\ loss = NoLoss
        /\ lot = [remaining |-> Original, status |-> "OPEN", destination |-> Destination]
        /\ supplierReturns = [p \in SupplierReturn |-> Absent]
    BY DEF Init, CustodyInit
  <1>2. CustodyRows
    BY <1>1, TypedInit, ReleaseInit DEF CustodyRows
  <1>3. TypeOK
    <2>1. CustodyTypeOK
      BY <1>2 DEF CustodyRows, CustodyTyped
    <2>2. sold \in Seq(TransitLine) /\ receipts \in Seq(ReceiptRow)
      BY <1>1
    <2>3. lot \in [remaining: 0 .. Original, status: {"OPEN", "CLOSED"}, destination: Warehouse]
      BY <1>1, LotAssumption
    <2> QED
      BY <2>1, <2>2, <2>3 DEF Init, TypeOK
  <1>4. DOMAIN sold = {} /\ DOMAIN receipts = {} /\ Present(supplierReturns) = {}
    BY <1>1 DEF Present, Absent
  <1>5. IsFiniteSet(Present(supplierReturns))
    BY <1>4, FS_EmptySet
  <1>6. SoldLines /\ EventKeys
    BY <1>1, <1>4 DEF SoldLines, EventKeys, Distinct
  <1>7. /\ Sum(DOMAIN sold, LAMBDA i : Quantity[sold[i]]) = 0
        /\ Sum(DOMAIN sold, LAMBDA i : Arrived(sold[i])) = 0
        /\ ReceivedByCompany = 0 /\ ReceivedByCustomers = 0
        /\ SoldInTransit = 0
    BY <1>4, SumEmpty DEF Sum, ReceivedByCompany, ReceivedByCustomers, SoldInTransit
  <1>8. ReturnedToSupplier = 0
    <2>1. {p \in SupplierReturn : supplierReturns[p].status = "POSTED"} = {}
      BY <1>1 DEF Absent
    <2> QED
      BY <2>1, SumEmpty DEF ReturnedToSupplier, Sum
  <1>9. UnitsAreConserved
    BY <1>1, <1>7, <1>8, LotAssumption DEF UnitsAreConserved, NoLoss
  <1>10. CustomersReceiveWhatArrived
    <2>1. \A l : Arrived(l) = 0
      BY <1>1, SumEmpty DEF Arrived, Sum
    <2>2. \A type, l, W : Total(type, l, W) = 0
      BY <1>1, SumEmpty DEF Total, Sum
    <2>3. \A l : Released(l) = 0
      <3>1. \A l : {c \in Check : /\ checks[c].status = "FINALIZED" /\ checks[c].line = l
                                  /\ checks[c].warehouse \in Warehouse} = {}
        BY <1>1 DEF Absent
      <3> QED
        BY <3>1, SumEmpty DEF Released, ReleasedFrom, Sum
    <2> QED
      BY <1>7, <2>1, <2>2, <2>3, CustodyAssumption
      DEF CustomersReceiveWhatArrived, TotalBalance, Balance
  <1>11. ServedInOrder /\ LotStatusIsHonest
    BY <1>1, <1>4, <1>7, LotAssumption DEF ServedInOrder, LotStatusIsHonest
  <1> QED
    BY <1>2, <1>3, <1>5, <1>6, <1>9, <1>10, <1>11 DEF LotInv

\* The steps that move the company's own units.
LEMMA LotStepsKeep ==
  ASSUME LotInv
  PROVE  /\ \A w \in Warehouse : TransferDestination(w) => LotInv'
         /\ \A p \in SupplierReturn : \A q \in 1 .. Original : ReturnToSupplier(p, q) => LotInv'
         /\ \A p \in SupplierReturn : ReverseSupplierReturn(p) => LotInv'
         /\ CompletePurchase => LotInv'
         /\ RecordLoss => LotInv'
         /\ ReverseLoss => LotInv'
  <1>1. LotTypes
    BY DEF LotInv, TypeOK, LotTypes
  <1>2. /\ DOMAIN supplierReturns = SupplierReturn /\ Table(supplierReturns)
        /\ IsFiniteSet(Present(supplierReturns)) /\ PostedUnits(supplierReturns) \in Nat
    BY LotTyped, PostedIsNat DEF LotInv
  <1>3. lot.remaining \in Nat /\ loss.quantity \in Nat /\ SoldInTransit \in Nat
    <2>1. \A l \in TransitLine : ArrivedOf(events, l) <= Quantity[l]
      <3>1. \A l \in TransitLine : Arrived(l) <= Quantity[l]
        BY DEF LotInv, CustomersReceiveWhatArrived
      <3> QED
        BY <3>1 DEF Arrived, ArrivedOf, Arrivals, Sum
    <2>2. SoldWaiting(events, sold) \in Nat
      BY <2>1, LotTyped, WaitingIsNat
    <2>3. SoldInTransit = SoldWaiting(events, sold)
      BY DEF SoldInTransit, InTransit, Arrived, ArrivedOf, Arrivals, SoldWaiting, Waiting, Sum
    <2> QED
      BY <2>2, <2>3, LotTyped
  <1>4. Honest(lot, SoldInTransit, PostedUnits(supplierReturns), loss)
    <2>1. ReturnedToSupplier = PostedUnits(supplierReturns)
      BY <1>2 DEF ReturnedToSupplier, PostedUnits, PostedRows, Sum
    <2> QED
      BY <2>1 DEF LotInv, LotStatusIsHonest, Honest
  <1>5. lot = [remaining |-> lot.remaining, status |-> lot.status, destination |-> lot.destination]
        /\ lot.status \in {"OPEN", "CLOSED"} /\ lot.destination \in Warehouse
    BY <1>1 DEF LotTypes
  <1>6. ASSUME NEW w \in Warehouse, TransferDestination(w) PROVE LotInv'
    <2>1. /\ UNCHANGED <<custodyVars, sold, receipts, supplierReturns, completed, loss, movedOn>>
          /\ lot' = [lot EXCEPT !.destination = w]
      BY <1>6 DEF TransferDestination
    <2>2. lot'.remaining = lot.remaining /\ lot'.status = lot.status /\ LotTypes'
      BY <1>1, <2>1 DEF LotTypes
    <2>3. Honest(lot', SoldInTransit, PostedUnits(supplierReturns'), loss')
      BY <1>4, <2>1, <2>2 DEF Honest
    <2> QED
      BY <1>2, <2>1, <2>2, <2>3, LotMoves
  <1>7. ASSUME NEW p \in SupplierReturn, NEW q \in 1 .. Original, ReturnToSupplier(p, q) PROVE LotInv'
    <2> DEFINE row == [status |-> "POSTED", quantity |-> q]
    <2>1. /\ UNCHANGED <<custodyVars, sold, receipts, completed, loss, movedOn>>
          /\ lot' = [lot EXCEPT !.remaining = @ - q,
                                !.status = IF lot.remaining = q THEN "CLOSED" ELSE "OPEN"]
          /\ supplierReturns' = [supplierReturns EXCEPT ![p] = row]
          /\ supplierReturns[p] = Absent /\ q <= lot.remaining
      BY <1>7 DEF ReturnToSupplier
    <2>2. q \in Nat /\ q > 0 /\ row.quantity = q /\ row.status = "POSTED"
      BY LotAssumption
    <2>3. /\ lot'.remaining = lot.remaining - q
          /\ lot'.status = IF lot.remaining = q THEN "CLOSED" ELSE "OPEN"
          /\ lot' \in [remaining: Nat, status: {"OPEN", "CLOSED"}, destination: Warehouse]
      <3>1. /\ lot \in [remaining: Nat, status: {"OPEN", "CLOSED"}, destination: Warehouse]
            /\ lot.remaining - q \in Nat
            /\ (IF lot.remaining = q THEN "CLOSED" ELSE "OPEN") \in {"OPEN", "CLOSED"}
        BY <1>1, <1>3, <2>1, <2>2 DEF LotTypes
      <3> HIDE DEF row
      <3> QED
        BY <2>1, <3>1, LotUpdated
    <2>4. row \in [status: {"POSTED", "REVERSED"}, quantity: Nat \ {0}]
      BY <2>2
    <2> HIDE DEF row
    <2>5. supplierReturns'[p] = row /\ \A x \in SupplierReturn \ {p} : supplierReturns'[x] = supplierReturns[x]
      BY <1>2, <2>1
    <2>6. LotTypes'
      BY <1>1, <2>1, <2>3, <2>4 DEF LotTypes
    <2>7. DOMAIN supplierReturns' = SupplierReturn /\ Table(supplierReturns')
      BY <2>6 DEF LotTypes, Table, Present, Absent
    <2>8. IsFiniteSet(Present(supplierReturns'))
      BY <1>2, <2>5, <2>7, StaysFinite
    <2>9. PostedUnits(supplierReturns') = PostedUnits(supplierReturns) + q
      <3>1. PostedUnits(supplierReturns')
              = PostedUnits(supplierReturns)
                  - (IF supplierReturns[p].status = "POSTED" THEN supplierReturns[p].quantity ELSE 0)
                  + (IF supplierReturns'[p].status = "POSTED" THEN supplierReturns'[p].quantity ELSE 0)
        BY <1>2, <2>5, <2>7, PostedChanges
      <3>2. supplierReturns[p].status # "POSTED"
        BY <2>1 DEF Absent
      <3> QED
        BY <1>2, <2>2, <2>5, <3>1, <3>2
    <2>10. loss' = loss
      BY <2>1
    <2>11. lot'.remaining + PostedUnits(supplierReturns') + loss'.quantity
             = lot.remaining + PostedUnits(supplierReturns) + loss.quantity
      BY <1>2, <1>3, <2>2, <2>3, <2>9, <2>10
    <2>12. Honest(lot', SoldInTransit, PostedUnits(supplierReturns'), loss')
      BY <1>2, <1>3, <2>1, <2>2, <2>3, <2>9 DEF Honest
    <2> QED
      BY <2>1, <2>6, <2>8, <2>11, <2>12, LotMoves
  <1>8. ASSUME NEW p \in SupplierReturn, ReverseSupplierReturn(p) PROVE LotInv'
    <2>1. /\ UNCHANGED <<custodyVars, sold, receipts, completed, loss, movedOn>>
          /\ lot' = [lot EXCEPT !.remaining = @ + supplierReturns[p].quantity, !.status = "OPEN"]
          /\ supplierReturns' = [supplierReturns EXCEPT ![p].status = "REVERSED"]
          /\ supplierReturns[p].status = "POSTED"
      BY <1>8 DEF ReverseSupplierReturn
    <2> DEFINE q == supplierReturns[p].quantity
    <2>2. /\ supplierReturns[p] \in [status: {"POSTED", "REVERSED"}, quantity: Nat \ {0}]
          /\ q \in Nat /\ q > 0
      BY <1>1, <2>1 DEF LotTypes, Absent
    <2>3. /\ lot'.remaining = lot.remaining + q /\ lot'.status = "OPEN"
          /\ lot' \in [remaining: Nat, status: {"OPEN", "CLOSED"}, destination: Warehouse]
      <3>1. /\ lot \in [remaining: Nat, status: {"OPEN", "CLOSED"}, destination: Warehouse]
            /\ lot.remaining + q \in Nat /\ "OPEN" \in {"OPEN", "CLOSED"}
        BY <1>1, <1>3, <2>2 DEF LotTypes
      <3> QED
        BY <2>1, <3>1, LotUpdated
    <2>4. /\ supplierReturns'[p] = [supplierReturns[p] EXCEPT !.status = "REVERSED"]
          /\ \A x \in SupplierReturn \ {p} : supplierReturns'[x] = supplierReturns[x]
      BY <1>2, <2>1
    <2>5. /\ supplierReturns'[p] \in [status: {"POSTED", "REVERSED"}, quantity: Nat \ {0}]
          /\ supplierReturns'[p].status = "REVERSED"
      BY <2>2, <2>4
    <2>6. LotTypes'
      BY <1>1, <2>1, <2>3, <2>4, <2>5 DEF LotTypes
    <2>7. DOMAIN supplierReturns' = SupplierReturn /\ Table(supplierReturns')
      BY <2>6 DEF LotTypes, Table, Present, Absent
    <2>8. IsFiniteSet(Present(supplierReturns'))
      BY <1>2, <2>4, <2>7, StaysFinite
    <2>9. PostedUnits(supplierReturns') = PostedUnits(supplierReturns) - q
      <3>1. PostedUnits(supplierReturns')
              = PostedUnits(supplierReturns)
                  - (IF supplierReturns[p].status = "POSTED" THEN supplierReturns[p].quantity ELSE 0)
                  + (IF supplierReturns'[p].status = "POSTED" THEN supplierReturns'[p].quantity ELSE 0)
        BY ZenonT(30), <1>2, <2>4, <2>7, PostedChanges
      <3> QED
        BY <1>2, <2>1, <2>2, <2>5, <3>1
    <2>10. loss' = loss
      BY <2>1
    <2> HIDE DEF q
    <2>11. lot'.remaining + PostedUnits(supplierReturns') + loss'.quantity
             = lot.remaining + PostedUnits(supplierReturns) + loss.quantity
      BY <1>2, <1>3, <2>2, <2>3, <2>9, <2>10
    <2>12. Honest(lot', SoldInTransit, PostedUnits(supplierReturns'), loss')
      BY <1>3, <2>2, <2>3 DEF Honest
    <2> QED
      BY <2>1, <2>6, <2>8, <2>11, <2>12, LotMoves
  <1>9. ASSUME CompletePurchase PROVE LotInv'
    <2>1. UNCHANGED <<custodyVars, lot, sold, receipts, supplierReturns, loss, movedOn>> /\ completed' = TRUE
      BY <1>9 DEF CompletePurchase
    <2>2. LotTypes'
      BY <1>1, <2>1 DEF LotTypes
    <2>3. Honest(lot', SoldInTransit, PostedUnits(supplierReturns'), loss')
      BY <1>4, <2>1 DEF Honest
    <2> QED
      BY <1>2, <2>1, <2>2, <2>3, LotMoves
  <1>10. ASSUME RecordLoss PROVE LotInv'
    <2> DEFINE q == lot.remaining
               good == Original - ReturnedToSupplier - q
    <2>1. /\ UNCHANGED <<custodyVars, sold, receipts, supplierReturns, completed>> /\ movedOn' = FALSE
          /\ lot' = [lot EXCEPT !.remaining = 0, !.status = "CLOSED"]
          /\ loss' = [status |-> "POSTED", quantity |-> q, good |-> good]
          /\ loss = NoLoss /\ q > 0 /\ q + ReturnedToSupplier < Original
      BY <1>10 DEF RecordLoss
    <2>2. ReturnedToSupplier \in Nat
      BY <1>2 DEF ReturnedToSupplier, PostedUnits, PostedRows, Sum
    <2>3. good \in Nat \ {0} /\ q \in Nat \ {0}
      BY <1>3, <2>1, <2>2, LotAssumption
    <2> HIDE DEF q, good
    <2>4. LotTypes'
      BY <1>1, <2>1, <2>3 DEF LotTypes
    <2>5. lot'.remaining = 0 /\ lot'.status = "CLOSED" /\ loss'.quantity = q /\ loss.quantity = 0
      BY <1>5, <2>1 DEF NoLoss
    <2>6. lot'.remaining + PostedUnits(supplierReturns') + loss'.quantity
            = lot.remaining + PostedUnits(supplierReturns) + loss.quantity
      BY <1>2, <1>3, <2>1, <2>5 DEF q
    <2>7. loss'.status = "POSTED"
      BY <2>1
    <2>8. Honest(lot', SoldInTransit, PostedUnits(supplierReturns'), loss')
      BY <2>5, <2>7 DEF Honest
    <2> QED
      BY <1>2, <2>1, <2>4, <2>6, <2>8, LotMoves
  <1>11. ASSUME ReverseLoss PROVE LotInv'
    <2>1. /\ UNCHANGED <<custodyVars, sold, receipts, supplierReturns, completed, movedOn>>
          /\ lot' = [lot EXCEPT !.remaining = @ + loss.quantity, !.status = "OPEN"]
          /\ loss' = NoLoss /\ loss.status = "POSTED"
      BY <1>11 DEF ReverseLoss
    <2>2. loss.quantity \in Nat \ {0}
      BY <1>1, <2>1 DEF LotTypes, NoLoss
    <2>6. /\ lot'.remaining = lot.remaining + loss.quantity /\ lot'.status = "OPEN"
          /\ lot' \in [remaining: Nat, status: {"OPEN", "CLOSED"}, destination: Warehouse]
      <3>1. /\ lot \in [remaining: Nat, status: {"OPEN", "CLOSED"}, destination: Warehouse]
            /\ lot.remaining + loss.quantity \in Nat /\ "OPEN" \in {"OPEN", "CLOSED"}
        BY <1>1, <1>3, <2>2 DEF LotTypes
      <3> QED
        BY <2>1, <3>1, LotUpdated
    <2>3. LotTypes' /\ loss'.quantity = 0
      BY <1>1, <2>1, <2>6 DEF LotTypes, NoLoss
    <2>4. lot'.remaining + PostedUnits(supplierReturns') + loss'.quantity
            = lot.remaining + PostedUnits(supplierReturns) + loss.quantity
      BY <1>2, <1>3, <2>1, <2>3, <2>6
    <2>5. Honest(lot', SoldInTransit, PostedUnits(supplierReturns'), loss')
      BY <1>3, <2>2, <2>6 DEF Honest
    <2> QED
      BY <1>2, <2>1, <2>3, <2>4, <2>5, LotMoves
  <1> QED
    BY <1>6, <1>7, <1>8, <1>9, <1>10, <1>11
-----------------------------------------------------------------------------
\* A sale from the lot: its units leave the company's and wait for arrival.
LEMMA SaleKeeps ==
  ASSUME LotInv, NEW l \in TransitLine, SellFromLot(l)
  PROVE  LotInv'
  <1> DEFINE q == Quantity[l]
  <1>1. /\ Entitle(l) /\ q <= lot.remaining /\ lot.status = "OPEN"
        /\ lot' = [lot EXCEPT !.remaining = @ - q]
        /\ sold' = Append(sold, l) /\ movedOn' = TRUE
        /\ UNCHANGED <<receipts, supplierReturns, completed, loss>>
    BY DEF SellFromLot
  <1>2. /\ l \notin entitled /\ entitled' = entitled \cup {l}
        /\ owing' \in {owing, owing \cup ({l} \ TransitLine)}
        /\ UNCHANGED <<events, checks, returns>>
    BY <1>1 DEF Entitle
  <1>3. CustodyRows /\ CustodyTyped /\ ReleaseInv /\ TypeOK
    BY DEF LotInv, CustodyRows
  <1>4. CustodyRows'
    <2>1. l \in Line /\ entitled \subseteq Line /\ owing \subseteq Line
      BY <1>3, CustodyAssumption DEF CustodyTyped, CustodyTypeOK
    <2>2. entitled' \subseteq Line /\ owing' \subseteq Line
      BY <1>2, <2>1
    <2>3. CustodyTyped'
      BY <1>2, <1>3, <2>2, TypedIdle
    <2>4. ReleaseInv'
      BY <1>2, <1>3 DEF ReleaseInv, ChecksShaped, KeysOfReleases, KeyOK, ReleasesMatchChecks
    <2> QED
      BY <1>2, <1>3, <2>3, <2>4, RowsIdle
  <1>5. /\ sold \in Seq(TransitLine) /\ receipts \in Seq(ReceiptRow)
        /\ events \in SUBSET Event /\ IsFiniteSet(events)
        /\ lot.remaining \in Nat /\ DOMAIN supplierReturns = SupplierReturn
        /\ IsFiniteSet(Present(supplierReturns)) /\ PostedUnits(supplierReturns) \in Nat
        /\ loss.quantity \in Nat
    BY LotTyped, PostedIsNat DEF LotInv
  <1>6. q \in Nat \ {0}
    BY CustodyAssumption
  <1>7. Arrivals(events, l) = {}
    BY <1>2 DEF LotInv, SoldLines, Arrivals
  <1>8. ArrivedOf(events, l) = 0
    BY <1>7, SumEmpty DEF ArrivedOf
  <1>9. /\ SoldUnits(sold') = SoldUnits(sold) + q
        /\ SoldArrived(events, sold') = SoldArrived(events, sold) + 0
    BY <1>1, <1>5, <1>8, SoldAppended
  <1>10. /\ sold' \in Seq(TransitLine) /\ Len(sold) \in Nat
         /\ DOMAIN sold = 1 .. Len(sold) /\ DOMAIN sold' = 1 .. (Len(sold) + 1)
         /\ sold'[Len(sold) + 1] = l
         /\ \A i \in DOMAIN sold : i \in DOMAIN sold' /\ sold'[i] = sold[i]
         /\ \A i \in DOMAIN sold' : i \in DOMAIN sold \/ i = Len(sold) + 1
    <2>1. /\ sold' \in Seq(TransitLine) /\ Len(sold) \in Nat
          /\ DOMAIN sold = 1 .. Len(sold) /\ DOMAIN sold' = 1 .. (Len(sold) + 1)
          /\ sold'[Len(sold) + 1] = l
          /\ \A i \in 1 .. Len(sold) : sold'[i] = sold[i]
      BY <1>1, <1>5, Appended
    <2> QED
      BY <2>1
  <1>11. SoldLines'
    <2>1. Distinct(sold')
      <3> SUFFICES ASSUME NEW i \in DOMAIN sold', NEW j \in DOMAIN sold', sold'[i] = sold'[j]
                   PROVE  i = j
        BY DEF Distinct
      <3>1. \A m \in DOMAIN sold : sold[m] # l
        BY <1>2 DEF LotInv, SoldLines
      <3> QED
        BY <1>10, <3>1 DEF LotInv, SoldLines, Distinct
    <2>2. \A m \in entitled' : \E i \in DOMAIN sold' : sold'[i] = m
      <3>1. Len(sold) + 1 \in DOMAIN sold'
        BY <1>10
      <3> QED
        BY <1>2, <1>10, <3>1 DEF LotInv, SoldLines
    <2>3. \A i \in DOMAIN sold' : sold'[i] \in entitled'
      BY <1>2, <1>10 DEF LotInv, SoldLines
    <2> QED
      BY <1>2, <2>1, <2>2, <2>3 DEF LotInv, SoldLines
  <1>12. EventKeys'
    BY <1>1, <1>2 DEF LotInv, EventKeys
  <1>13. /\ lot'.remaining = lot.remaining - q /\ lot'.status = "OPEN"
         /\ LotTypes'
    <2>1. /\ lot \in [remaining: Nat, status: {"OPEN", "CLOSED"}, destination: Warehouse]
          /\ lot.remaining - q \in Nat
      BY <1>1, <1>3, <1>5, <1>6 DEF TypeOK
    <2>2. lot' = [lot EXCEPT !.remaining = lot.remaining - q, !.status = "OPEN"]
      BY <1>1, <2>1
    <2>3. /\ lot'.remaining = lot.remaining - q /\ lot'.status = "OPEN"
          /\ lot' \in [remaining: Nat, status: {"OPEN", "CLOSED"}, destination: Warehouse]
      BY <2>1, <2>2, LotUpdated
    <2> QED
      BY <1>1, <1>3, <2>3 DEF TypeOK, LotTypes
  <1>14. DOMAIN supplierReturns' = SupplierReturn
    BY <1>1, <1>5
  <1>15. CompanyUnits(receipts) \in Nat /\ SoldUnits(sold) \in Nat /\ SoldArrived(events, sold) \in Nat
    BY <1>5, ReceiptsAreNat, SoldWaits
  <1>16. UnitsAreConserved'
    <2>1. lot.remaining + CompanyUnits(receipts) + SoldUnits(sold)
            + PostedUnits(supplierReturns) + loss.quantity = Original
      BY <1>5, <1>14, LotReads DEF LotInv
    <2>2. lot'.remaining + CompanyUnits(receipts') + SoldUnits(sold')
            + PostedUnits(supplierReturns') + loss'.quantity = Original
      BY SMTT(30), <1>1, <1>5, <1>6, <1>9, <1>13, <1>15, <2>1, LotAssumption
    <2> QED
      BY <1>5, <1>14, <2>2, LotReads
  <1>17. \A m : Arrived(m)' = Arrived(m)
    BY <1>2 DEF Arrived, Sum
  <1>18. CustomersReceiveWhatArrived'
    <2>1. SoldArrived(events', sold') = CustomerUnits(receipts')
      <3>1. SoldArrived(events, sold) = CustomerUnits(receipts)
        BY <1>5, <1>14, LotReads DEF LotInv
      <3> QED
        BY <1>1, <1>2, <1>9, <1>15, <3>1
    <2>2. \A m \in TransitLine : LineInOrder(m)'
      <3>1. \A m \in TransitLine : LineInOrder(m)
        BY <1>5, <1>14, LotReads DEF LotInv
      <3>2. /\ \A type, m, W : Total(type, m, W)' = Total(type, m, W)
            /\ \A m : Released(m)' = Released(m)
        BY <1>2 DEF Total, Released, ReleasedFrom, Sum
      <3> QED
        BY <1>17, <3>1, <3>2 DEF LineInOrder, TotalBalance, Balance
    <2> QED
      BY <1>5, <1>14, <2>1, <2>2, LotReads
  <1>19. ServedInOrder'
    <2>1. InOrder(events, sold)
      BY <1>5, <1>14, LotReads DEF LotInv
    <2>2. InOrder(events, sold')
      <3> SUFFICES ASSUME NEW i \in DOMAIN sold', NEW j \in DOMAIN sold',
                          i < j, ArrivedOf(events, sold'[j]) > 0
                   PROVE  Quantity[sold'[i]] - ArrivedOf(events, sold'[i]) = 0
        BY DEF InOrder
      <3>1. j # Len(sold) + 1
        BY <1>8, <1>10
      <3>2. j \in DOMAIN sold /\ i \in DOMAIN sold
        BY <1>10, <3>1
      <3> QED
        BY <1>10, <2>1, <3>2 DEF InOrder
    <2> QED
      BY <1>2, <1>5, <1>14, <2>2, LotReads
  <1>20. LotStatusIsHonest'
    <2>1. SoldInTransit = SoldUnits(sold) - SoldArrived(events, sold)
      BY <1>5, <1>14, LotReads, SoldWaits
    <2>2. SoldWaiting(events, sold') = SoldUnits(sold') - SoldArrived(events, sold')
      BY <1>5, <1>10, SoldWaits
    <2>3. SoldInTransit' = SoldWaiting(events', sold')
      BY <1>5, <1>14, LotReads
    <2>4. SoldInTransit' = SoldInTransit + q
      BY <1>2, <1>6, <1>9, <1>15, <2>1, <2>2, <2>3
    <2>5. lot.remaining + SoldInTransit > 0
      BY <1>1 DEF LotInv, LotStatusIsHonest
    <2>6. lot'.remaining + SoldInTransit' > 0
      BY <1>5, <1>6, <1>13, <1>15, <2>1, <2>4, <2>5
    <2> QED
      BY <1>13, <2>6 DEF LotStatusIsHonest
  <1>21. TypeOK'
    <2>1. CustodyTypeOK' /\ IsFiniteSet(events')
      BY <1>4 DEF CustodyRows, CustodyTyped
    <2> QED
      BY <1>1, <1>5, <1>10, <1>13, <1>16, <2>1, RemainingBounded
  <1> QED
    BY <1>1, <1>4, <1>5, <1>11, <1>12, <1>16, <1>18, <1>19, <1>20, <1>21 DEF LotInv
-----------------------------------------------------------------------------
\* The steps of customers' goods: what arrived and what the lot holds stay, and
\* each line stays in order.
LEMMA CustodyMoves ==
  ASSUME LotInv, CustodyRows', SoldLines', EventKeys', movedOn' \in BOOLEAN,
         UNCHANGED <<lot, sold, receipts, supplierReturns, completed, loss>>,
         \A l : Arrived(l)' = Arrived(l),
         \A l \in TransitLine : LineInOrder(l)'
  PROVE  LotInv'
  <1>1. DOMAIN supplierReturns = SupplierReturn /\ DOMAIN supplierReturns' = SupplierReturn
    BY LotTyped
  <1>2. UnitsAreConserved'
    BY <1>1, LotReads DEF LotInv
  <1>3. CustomersReceiveWhatArrived'
    <2>1. SoldArrived(events', sold) = SoldArrived(events, sold)
      <3>1. \A l : ArrivedOf(events', l) = ArrivedOf(events, l)
        BY <1>1, LotReads
      <3> QED
        BY <3>1 DEF SoldArrived
    <2> QED
      BY <1>1, <2>1, LotReads DEF LotInv
  <1>4. ServedInOrder'
    BY DEF LotInv, ServedInOrder, InTransit
  <1>5. LotStatusIsHonest'
    <2>1. SoldInTransit' = SoldInTransit
      BY DEF SoldInTransit, InTransit, Sum
    <2>2. ReturnedToSupplier' = ReturnedToSupplier
      BY DEF ReturnedToSupplier, Sum
    <2> QED
      BY <2>1, <2>2 DEF LotInv, LotStatusIsHonest
  <1>6. TypeOK'
    BY DEF LotInv, TypeOK, CustodyRows, CustodyTyped
  <1> QED
    BY <1>2, <1>3, <1>4, <1>5, <1>6 DEF LotInv

LEMMA LinesInOrder == ASSUME LotInv PROVE \A l \in TransitLine : LineInOrder(l)
  BY DEF LotInv, CustomersReceiveWhatArrived, LineInOrder

\* Reversing an event: arrivals, keys and lines stay as they were.
LEMMA ReversalLeaves ==
  ASSUME LotInv, NEW e \in events, ~e.reversed,
         events' = (events \ {e}) \cup {[e EXCEPT !.reversed = TRUE]},
         UNCHANGED <<entitled, receipts>>
  PROVE  /\ \A l : Arrived(l)' = Arrived(l)
         /\ EventKeys'
         /\ \A f \in events' : f.line \in entitled
  <1> DEFINE r == [e EXCEPT !.reversed = TRUE]
  <1>1. CustodyRows /\ ReleaseInv /\ events \in SUBSET Event /\ IsFiniteSet(events)
    BY LotTyped DEF LotInv, CustodyRows
  <1>2. /\ r.reversed /\ r.key = e.key /\ r.type = e.type /\ r.line = e.line
        /\ r.quantity = e.quantity /\ r.reference = e.reference
    <2>1. LET x == [e EXCEPT !.reversed = TRUE]
          IN x.reversed /\ \A i \in EventFields \ {"reversed"} : x[i] = e[i]
      BY <1>1, ReversedEvent
    <2> QED
      BY <2>1 DEF EventFields
  <1>3. r \in Event
    <2>1. e \in Event
      BY <1>1
    <2> QED
      BY <2>1 DEF Event
  <1> HIDE DEF r
  <1>4. events' = (events \ {e}) \cup {r}
    BY DEF r
  <1>5. r \notin events
    BY <1>2 DEF LotInv, EventKeys
  <1>6. ASSUME NEW l PROVE Arrived(l)' = Arrived(l)
    <2>1. ArrivedOf((events \ {e}) \cup {r}, l) = ArrivedOf(events, l)
      BY <1>1, <1>2, <1>3, <1>5, ArrivedKept
    <2>2. Arrived(l) = ArrivedOf(events, l) /\ Arrived(l)' = ArrivedOf(events', l)
      BY DEF Arrived, ArrivedOf, Arrivals, Sum
    <2> QED
      BY <1>4, <2>1, <2>2
  <1>7. \A f \in events' : f = r \/ (f \in events /\ f # e)
    BY <1>4
  <1>8. EventKeys'
    <2>1. \A f, g \in events : f.key = g.key => f = g
      BY DEF LotInv, EventKeys
    <2>2. ASSUME NEW f \in events', NEW g \in events', f.key = g.key PROVE f = g
      BY <1>2, <1>7, <2>1, <2>2
    <2>3. ASSUME NEW f \in events', NEW l \in Line, NEW k \in Nat, f.key = <<"receipt", l, k>>
          PROVE  k <= Len(receipts)
      BY <1>2, <1>7, <2>3 DEF LotInv, EventKeys
    <2> QED
      BY <2>2, <2>3 DEF EventKeys
  <1>9. ASSUME NEW f \in events' PROVE f.line \in entitled
    BY <1>2, <1>7 DEF LotInv, SoldLines
  <1> QED
    BY <1>6, <1>8, <1>9

\* A check releases what is in custody: nothing is placed for it.
LEMMA FinalizeTransit ==
  ASSUME LotInv, NEW c \in Check, FinalizeCheck(c, NoKey), receipts' = receipts
  PROVE  /\ checks[c].line \in TransitLine /\ checks[c].line \in entitled
         /\ checks[c].warehouse \in Warehouse
         /\ checks[c].quantity <= Balance(checks[c].line, checks[c].warehouse)
         /\ Missing(c) = 0
         /\ \A l : Arrived(l)' = Arrived(l)
         /\ EventKeys'
         /\ \A f \in events' : f.line \in entitled
  <1> DEFINE l == checks[c].line
             w == checks[c].warehouse
             q == checks[c].quantity
             release == CheckEvent(c, "RELEASED", <<"release", c>>, q)
  <1>1. /\ checks[c].status = "DRAFT" /\ MayRelease(l, w, q)
        /\ events' = WithEvent(Placed(c, NoKey), release)
        /\ UNCHANGED <<entitled, returns, owing>>
    BY DEF FinalizeCheck
  <1>2. CustodyRows /\ CustodyTyped
    BY DEF LotInv, CustodyRows
  <1>3. checks[c] \in CheckRow /\ checks[c] # Absent
    BY <1>1, <1>2, RowsTyped DEF Absent
  <1>4. l \in TransitLine /\ l \in entitled
    <2>1. l \in entitled
      BY <1>3 DEF LotInv, SoldLines
    <2>2. PICK i \in DOMAIN sold : sold[i] = l
      BY <2>1 DEF LotInv, SoldLines
    <2> QED
      BY <2>1, <2>2, LotTyped, SoldTyped
  <1>5. q <= Balance(l, w) /\ q \in Int /\ w \in Warehouse /\ Balance(l, w) \in Int
    BY <1>1, <1>2, <1>3, <1>4, BalanceIsInt DEF MayRelease, CheckRow
  <1>6. Missing(c) = 0 /\ Placed(c, NoKey) = events
    BY <1>5 DEF Missing, Placed
  <1>7. /\ release.key = <<"release", c>> /\ release.type = "RELEASED" /\ release.line = l
    BY DEF CheckEvent
  <1> HIDE DEF release
  <1>8. \/ events' = events
        \/ events' = events \cup {release} /\ \A f \in events : f.key # release.key
    BY <1>1, <1>6 DEF WithEvent
  <1>9. ASSUME NEW m PROVE Arrived(m)' = Arrived(m)
    <2>1. Arrivals(events', m) = Arrivals(events, m)
      BY <1>7, <1>8 DEF Arrivals
    <2>2. Arrived(m) = ArrivedOf(events, m) /\ Arrived(m)' = ArrivedOf(events', m)
      BY DEF Arrived, ArrivedOf, Arrivals, Sum
    <2> QED
      BY <2>1, <2>2 DEF ArrivedOf
  <1>10. EventKeys'
    <2>1. \A m, k : <<"release", c>> # <<"receipt", m, k>>
      OBVIOUS
    <2> QED
      BY <1>7, <1>8, <2>1 DEF LotInv, EventKeys
  <1>11. \A f \in events' : f.line \in entitled
    BY <1>4, <1>7, <1>8 DEF LotInv, SoldLines
  <1> QED
    BY <1>4, <1>5, <1>6, <1>9, <1>10, <1>11

LEMMA CustomerKeeps ==
  ASSUME CallerKey = {}, LotInv, CustomerStep
  PROVE  LotInv'
  <1>1. /\ CustodyStep /\ movedOn' = (movedOn \/ returns' # returns)
        /\ UNCHANGED <<lot, sold, receipts, supplierReturns, completed, loss>>
    BY DEF CustomerStep
  <1>2. CustodyRows /\ CustodyTyped /\ ReleaseInv /\ movedOn' \in BOOLEAN
    BY <1>1 DEF LotInv, CustodyRows, TypeOK
  <1>3. ReleaseInv'
    <2>1. CustodyNext
      BY <1>1 DEF CustodyNext
    <2> QED
      BY <1>2, <2>1, ReleaseStep
  <1>4. \A l \in TransitLine : LineInOrder(l)
    BY LinesInOrder
  <1>5. \A l, W : /\ Total("PLACED", l, W) \in Nat /\ Total("RELEASED", l, W) \in Nat
                  /\ ReleasedFrom(l, W) \in Nat
    BY <1>2, TotalsAreNat
  <1>6. \A l : Arrived(l) \in Nat
    <2>1. \A l : Arrived(l) = ArrivedOf(events, l)
      BY DEF Arrived, ArrivedOf, Arrivals, Sum
    <2> QED
      BY <2>1, LotTyped, ArrivedIsNat
  \* Steps that write no event.
  <1>7. ASSUME UNCHANGED <<entitled, events>>, CustodyRows',
               \A l, W : ReleasedFrom(l, W)' = ReleasedFrom(l, W),
               \A c \in Check : checks'[c] # Absent => checks'[c].line \in entitled
        PROVE  LotInv'
    <2>1. \A l : Arrived(l)' = Arrived(l)
      BY <1>7 DEF Arrived, Sum
    <2>2. \A type, l, W : Total(type, l, W)' = Total(type, l, W)
      BY <1>7 DEF Total, Sum
    <2>3. \A l \in TransitLine : LineInOrder(l)'
      BY <1>4, <1>7, <2>1, <2>2 DEF LineInOrder, TotalBalance, Balance, Released
    <2>4. SoldLines' /\ EventKeys'
      BY <1>1, <1>7 DEF LotInv, SoldLines, EventKeys
    <2> QED
      BY <1>1, <1>2, <1>7, <2>1, <2>3, <2>4, CustodyMoves
  <1>8. ASSUME NEW c \in Check, NEW l \in Line, NEW w \in Warehouse,
               NEW q \in 1 .. Quantity[l], PrepareCheck(c, l, w, q)
        PROVE  LotInv'
    <2>1. CustodyTyped' /\ \A k, W : ReleasedFrom(k, W)' = ReleasedFrom(k, W)
      BY <1>2, <1>8, PrepareTyped
    <2>2. /\ l \in entitled /\ UNCHANGED <<entitled, events, returns, owing>> /\ checks[c] = Absent
          /\ checks'[c].line = l
          /\ \A d \in Check \ {c} : checks'[d] = checks[d]
      BY <1>2, <1>8, RowsTyped DEF PrepareCheck
    <2>3. CustodyRows'
      BY <1>2, <1>3, <2>1, <2>2, RowsIdle
    <2>4. \A d \in Check : checks'[d] # Absent => checks'[d].line \in entitled
      BY <2>2 DEF LotInv, SoldLines
    <2> QED
      BY <1>7, <2>1, <2>2, <2>3, <2>4
  <1>9. ASSUME NEW c \in Check, FinalizeCheck(c, NoKey) PROVE LotInv'
    <2> DEFINE l == checks[c].line
               w == checks[c].warehouse
               q == checks[c].quantity
    <2>1. /\ l \in TransitLine /\ l \in entitled /\ w \in Warehouse /\ q <= Balance(l, w)
          /\ Missing(c) = 0
          /\ \A m : Arrived(m)' = Arrived(m)
          /\ EventKeys'
          /\ \A f \in events' : f.line \in entitled
      BY <1>1, <1>9, FinalizeTransit
    <2>2. /\ CustodyRows' /\ q \in Nat
          /\ \A m, W :
               /\ Total("PLACED", m, W)' = Total("PLACED", m, W) + (IF Here(c, m, W) THEN Missing(c) ELSE 0)
               /\ Total("RELEASED", m, W)' = Total("RELEASED", m, W) + (IF Here(c, m, W) THEN q ELSE 0)
               /\ ReleasedFrom(m, W)' = ReleasedFrom(m, W) + (IF Here(c, m, W) THEN q ELSE 0)
      BY <1>2, <1>9, FinalizeEffect
    <2>3. /\ checks' = [checks EXCEPT ![c].status = "FINALIZED"]
          /\ checks[c].status = "DRAFT" /\ entitled' = entitled
      BY <1>9 DEF FinalizeCheck
    <2>4. checks[c] \in CheckRow
      BY <1>2, <2>3, RowsTyped DEF Absent
    <2>5. SoldLines'
      <3>1. checks'[c].line = l /\ \A d \in Check \ {c} : checks'[d] = checks[d]
        BY <1>2, <2>3, <2>4, RowsTyped DEF CheckRow
      <3> QED
        BY <1>1, <2>1, <2>3, <3>1 DEF LotInv, SoldLines
    <2>6. ASSUME NEW m \in TransitLine PROVE LineInOrder(m)'
      <3>1. /\ Arrived(m) <= Quantity[m] /\ TotalBalance(m) + Released(m) <= Arrived(m)
            /\ \A v \in Warehouse : Balance(m, v) >= 0
        BY <1>4 DEF LineInOrder
      <3>2. ASSUME NEW v \in Warehouse PROVE Balance(m, v)' >= 0
        <4>1. Here(c, m, {v}) => m = l /\ v = w
          BY DEF Here
        <4> HIDE DEF l, w, q
        <4>2. Balance(m, v)' = Balance(m, v) - (IF Here(c, m, {v}) THEN q ELSE 0)
          BY <1>5, <2>1, <2>2 DEF Balance
        <4>3. Balance(m, v) \in Int
          BY <1>2, BalanceIsInt
        <4> QED
          BY <2>1, <2>2, <3>1, <4>1, <4>2, <4>3
      <3> HIDE DEF l, w, q
      <3>3. TotalBalance(m)' + Released(m)' = TotalBalance(m) + Released(m)
        BY <1>5, <2>1, <2>2 DEF TotalBalance, Released
      <3> QED
        BY <2>1, <3>1, <3>2, <3>3 DEF LineInOrder
    <2> QED
      BY <1>1, <1>2, <2>1, <2>2, <2>5, <2>6, CustodyMoves
  <1>10. ASSUME NEW c \in Check, CancelCheck(c) PROVE LotInv'
    <2> DEFINE q == checks[c].quantity
    <2>1. PICK e \in events :
            /\ ~e.reversed /\ events' = (events \ {e}) \cup {[e EXCEPT !.reversed = TRUE]}
      BY <1>10 DEF CancelCheck
    <2>2. /\ checks' = [checks EXCEPT ![c].status = "CANCELLED"]
          /\ checks[c].status = "FINALIZED" /\ entitled' = entitled
      BY <1>10 DEF CancelCheck
    <2>3. /\ \A m : Arrived(m)' = Arrived(m)
          /\ EventKeys'
          /\ \A f \in events' : f.line \in entitled
      BY <1>1, <2>1, <2>2, ReversalLeaves
    <2>4. /\ CustodyRows' /\ q \in Nat
          /\ \A m, W :
               /\ Total("PLACED", m, W)' = Total("PLACED", m, W)
               /\ Total("RELEASED", m, W)' = Total("RELEASED", m, W) - (IF Here(c, m, W) THEN q ELSE 0)
               /\ ReleasedFrom(m, W)' = ReleasedFrom(m, W) - (IF Here(c, m, W) THEN q ELSE 0)
      BY <1>2, <1>10, CancelEffect
    <2>5. checks[c] \in CheckRow /\ checks[c] # Absent
      BY <1>2, <2>2, RowsTyped DEF Absent
    <2>6. SoldLines'
      <3>1. checks'[c].line = checks[c].line /\ \A d \in Check \ {c} : checks'[d] = checks[d]
        BY <1>2, <2>2, <2>5, RowsTyped DEF CheckRow
      <3> QED
        BY <1>1, <2>2, <2>3, <2>5, <3>1 DEF LotInv, SoldLines
    <2>7. ASSUME NEW m \in TransitLine PROVE LineInOrder(m)'
      <3> HIDE DEF q
      <3>1. /\ Arrived(m) <= Quantity[m] /\ TotalBalance(m) + Released(m) <= Arrived(m)
            /\ \A v \in Warehouse : Balance(m, v) >= 0
        BY <1>4 DEF LineInOrder
      <3>2. ASSUME NEW v \in Warehouse PROVE Balance(m, v)' >= 0
        BY <1>5, <2>4, <3>1 DEF Balance
      <3>3. TotalBalance(m)' + Released(m)' = TotalBalance(m) + Released(m)
        BY <1>5, <2>4 DEF TotalBalance, Released
      <3> QED
        BY <2>3, <3>1, <3>2, <3>3 DEF LineInOrder
    <2> QED
      BY <1>1, <1>2, <2>3, <2>4, <2>6, <2>7, CustodyMoves
  <1>11. ASSUME NEW e \in events, ReversePlacement(e) PROVE LotInv'
    <2>1. /\ ~e.reversed /\ events' = (events \ {e}) \cup {[e EXCEPT !.reversed = TRUE]}
          /\ Balance(e.line, e.warehouse) >= e.quantity
          /\ UNCHANGED <<entitled, checks, returns, owing>>
      BY <1>11 DEF ReversePlacement
    <2>2. /\ \A m : Arrived(m)' = Arrived(m)
          /\ EventKeys'
          /\ \A f \in events' : f.line \in entitled
      BY <1>1, <2>1, ReversalLeaves
    <2>3. /\ CustodyRows' /\ e.quantity \in Nat
          /\ \A m, W :
               /\ Total("PLACED", m, W)' = Total("PLACED", m, W)
                    - (IF e.line = m /\ e.warehouse \in W THEN e.quantity ELSE 0)
               /\ Total("RELEASED", m, W)' = Total("RELEASED", m, W)
               /\ ReleasedFrom(m, W)' = ReleasedFrom(m, W)
      BY <1>2, <1>11, ReversePlacementEffect
    <2>4. SoldLines'
      BY <1>1, <2>1, <2>2 DEF LotInv, SoldLines
    <2>5. ASSUME NEW m \in TransitLine PROVE LineInOrder(m)'
      <3>1. /\ Arrived(m) <= Quantity[m] /\ TotalBalance(m) + Released(m) <= Arrived(m)
            /\ \A v \in Warehouse : Balance(m, v) >= 0
        BY <1>4 DEF LineInOrder
      <3>2. ASSUME NEW v \in Warehouse PROVE Balance(m, v)' >= 0
        <4> DEFINE n == IF e.line = m /\ e.warehouse \in {v} THEN e.quantity ELSE 0
        <4>1. Balance(m, v) \in Int
          BY <1>2, BalanceIsInt
        <4>2. n \in Nat /\ n <= Balance(m, v)
          BY <2>1, <2>3, <3>1, <4>1
        <4>3. Balance(m, v)' = Balance(m, v) - n
          BY <1>5, <2>3, <4>2 DEF Balance
        <4> HIDE DEF n
        <4> QED
          BY <4>1, <4>2, <4>3
      <3>3. TotalBalance(m)' + Released(m)' <= TotalBalance(m) + Released(m)
        BY <1>5, <2>3 DEF TotalBalance, Released
      <3>4. TotalBalance(m)' + Released(m)' \in Int /\ TotalBalance(m) + Released(m) \in Int
        BY <1>5, <2>3 DEF TotalBalance, Released
      <3> QED
        BY <1>6, <2>2, <3>1, <3>2, <3>3, <3>4 DEF LineInOrder
    <2> QED
      BY <1>1, <1>2, <2>2, <2>3, <2>4, <2>5, CustodyMoves
  <1>12. ASSUME NEW r \in Return, CustodyReturnStep(r) PROVE LotInv'
    <2>1. UNCHANGED <<entitled, events, checks, owing>>
      BY <1>12 DEF CustodyReturnStep, CreateReturn, ReverseReturn
    <2>2. CustodyTyped'
      BY <1>2, <1>12, CreateReturnTyped, ReverseReturnTyped DEF CustodyReturnStep
    <2>3. CustodyRows'
      BY <1>2, <1>3, <2>1, <2>2, RowsIdle
    <2>4. \A l, W : ReleasedFrom(l, W)' = ReleasedFrom(l, W)
      BY <2>1 DEF ReleasedFrom, Sum
    <2> QED
      BY <1>7, <2>1, <2>3, <2>4 DEF LotInv, SoldLines
  <1>13. ASSUME NEW l \in Line, ResolveObligation(l) PROVE LotInv'
    <2>1. UNCHANGED <<entitled, events, checks, returns>> /\ owing' \subseteq owing
      BY <1>13 DEF ResolveObligation
    <2>2. CustodyTyped'
      <3>1. entitled' \subseteq Line /\ owing' \subseteq Line
        BY <1>2, <2>1 DEF CustodyTyped, CustodyTypeOK
      <3> QED
        BY <1>2, <2>1, <3>1, TypedIdle
    <2>3. CustodyRows'
      BY <1>2, <1>3, <2>1, <2>2, RowsIdle
    <2>4. \A m, W : ReleasedFrom(m, W)' = ReleasedFrom(m, W)
      BY <2>1 DEF ReleasedFrom, Sum
    <2> QED
      BY <1>7, <2>1, <2>3, <2>4 DEF LotInv, SoldLines
  <1>14. ASSUME NEW c \in Check, CheckStep(c) PROVE LotInv'
    <2>1. \A key \in CallerKey \cup {NoKey} : FinalizeCheck(c, key) => LotInv'
      BY <1>9
    <2> QED
      BY <1>8, <1>10, <1>14, <2>1 DEF CheckStep
  <1> QED
    BY <1>1, <1>11, <1>12, <1>13, <1>14 DEF CustodyStep
-----------------------------------------------------------------------------
\* What the lines wait for, front to back, is what Takes gives them.
LEMMA TakesServes ==
  ASSUME LotInv, NEW n \in Nat, NEW i \in DOMAIN sold
  PROVE  Takes(i, n) = Served(Waiting(events, sold), n, i)
  <1> DEFINE a == Waiting(events, sold)
             S == 1 .. (i - 1)
             f == [j \in S |-> InTransit(sold[j])]
  <1>1. Len(sold) \in Nat /\ DOMAIN sold = 1 .. Len(sold)
    BY LotTyped, SoldTyped
  <1>8. i \in Int /\ S \in SUBSET DOMAIN sold
    BY <1>1
  <1>2. IsFiniteSet(S) /\ S \in SUBSET DOMAIN sold
    BY <1>8, FS_Interval
  <1>3. \A j \in DOMAIN sold : InTransit(sold[j]) = a[j]
    BY DEF InTransit, Waiting, Arrived, ArrivedOf, Arrivals, Sum
  <1>4. \A j \in S : f[j] = a[j]
    BY <1>2, <1>3
  <1>5. Takes(i, n) = Max({0, Min({InTransit(sold[i]), n - SumFunctionOnSet(f, S)})})
    BY DEF Takes, Sum
  <1> HIDE DEF a, f, S
  <1>6. SumFunctionOnSet(f, S) = SumFunctionOnSet(a, S)
    BY <1>2, <1>4, SumAgree
  <1>7. Served(a, n, i) = Max({0, Min({a[i], n - SumFunctionOnSet(a, S)})})
    BY DEF Served, Before, S
  <1> QED
    BY <1>3, <1>5, <1>6, <1>7 DEF a

\* A receipt's events keep the custody records in order.
LEMMA ReceiptRows ==
  ASSUME LotInv, NEW t, \A i \in DOMAIN sold : t[i] \in Nat, NEW k \in Nat, NEW w \in Warehouse,
         events' = events \cup ReceiptEvents(sold, t, k, w),
         UNCHANGED <<entitled, checks, returns, owing>>
  PROVE  CustodyRows'
  <1> DEFINE A == ReceiptEvents(sold, t, k, w)
  <1>1. CustodyRows /\ CustodyTyped /\ ReleaseInv /\ sold \in Seq(TransitLine)
    BY LotTyped DEF LotInv, CustodyRows
  <1>2. A \in SUBSET Event /\ IsFiniteSet(A)
    BY <1>1, ReceiptEventsTyped
  <1>3. \A e \in A : \E i \in DOMAIN sold : e = ReceiptEvent(sold, t, k, w, i)
    BY DEF ReceiptEvents
  <1>4. ASSUME NEW e \in A PROVE KeyOK(e)' /\ EventOK(e)' /\ e.type = "PLACED"
    <2>1. PICK i \in DOMAIN sold : e = ReceiptEvent(sold, t, k, w, i)
      BY <1>3
    <2>2. /\ DOMAIN e = EventFields /\ e.type = "PLACED" /\ e.key = <<"receipt", sold[i], k>>
          /\ e = [x \in EventFields |-> e[x]]
      BY <2>1 DEF ReceiptEvent, EventFields
    <2>3. \A c : <<"receipt", sold[i], k>> # <<"release", c>> /\ <<"receipt", sold[i], k>> # <<"place", c>>
      OBVIOUS
    <2> QED
      BY <2>2, <2>3 DEF KeyOK, EventOK
  <1> HIDE DEF A
  <1>5. events' = events \cup A
    BY DEF A
  <1>6. CustodyTyped'
    <2>1. IsFiniteSet(events')
      BY <1>1, <1>2, <1>5, FS_Union DEF CustodyTyped
    <2>2. CustodyTypeOK'
      BY <1>1, <1>2, <1>5 DEF CustodyTyped, CustodyTypeOK
    <2> QED
      BY <1>1, <2>1, <2>2 DEF CustodyTyped
  <1>7. ReleaseInv'
    <2>1. ChecksShaped'
      BY <1>1 DEF ReleaseInv, ChecksShaped
    <2>2. KeysOfReleases'
      <3>1. \A e \in events : KeyOK(e)'
        BY <1>1 DEF ReleaseInv, KeysOfReleases, KeyOK
      <3> QED
        BY <1>4, <1>5, <3>1 DEF KeysOfReleases
    <2>3. ReleasesMatchChecks'
      <3>1. \A c : InForce(c)' = InForce(c)
        BY <1>4, <1>5 DEF InForce
      <3> QED
        BY <1>1, <3>1 DEF ReleaseInv, ReleasesMatchChecks, InForce
    <2> QED
      BY <2>1, <2>2, <2>3 DEF ReleaseInv
  <1>8. \A e \in events' : EventOK(e)'
    <2>1. \A e \in events : EventOK(e)'
      BY <1>1 DEF CustodyRows, EventOK
    <2> QED
      BY <1>4, <1>5, <2>1
  <1> QED
    BY <1>6, <1>7, <1>8 DEF CustodyRows

LEMMA ReceiptKeys ==
  ASSUME LotInv, NEW t, NEW w,
         events' = events \cup ReceiptEvents(sold, t, Len(receipts) + 1, w),
         Len(receipts') = Len(receipts) + 1
  PROVE  /\ EventKeys'
         /\ \A e \in events, i \in DOMAIN sold : e.key # <<"receipt", sold[i], Len(receipts) + 1>>
         /\ \A e \in events' : e.line \in entitled
  <1> DEFINE k == Len(receipts) + 1
             A == ReceiptEvents(sold, t, k, w)
  <1>1. Len(receipts) \in Nat /\ sold \in Seq(TransitLine)
    BY LotTyped, LenProperties
  <1>2. \A i \in DOMAIN sold : sold[i] \in Line
    BY <1>1, SoldTyped, LotTyped, CustodyAssumption
  <1>3. \A e \in events, i \in DOMAIN sold : e.key # <<"receipt", sold[i], k>>
    BY <1>1, <1>2 DEF LotInv, EventKeys
  <1>4. \A e \in A : \E i \in DOMAIN sold : /\ e = ReceiptEvent(sold, t, k, w, i)
                                           /\ e.key = <<"receipt", sold[i], k>> /\ e.line = sold[i]
    BY DEF ReceiptEvents, ReceiptEvent
  <1> HIDE DEF A, k
  <1>5. events' = events \cup A /\ k \in Nat /\ Len(receipts') = k /\ Len(receipts) < k
    BY <1>1 DEF A, k
  <1>6. ASSUME NEW e \in events', NEW f \in events', e.key = f.key PROVE e = f
    <2>1. CASE e \in A /\ f \in A
      <3>1. PICK i \in DOMAIN sold : e = ReceiptEvent(sold, t, k, w, i) /\ e.key = <<"receipt", sold[i], k>>
        BY <1>4, <2>1
      <3>2. PICK j \in DOMAIN sold : f = ReceiptEvent(sold, t, k, w, j) /\ f.key = <<"receipt", sold[j], k>>
        BY <1>4, <2>1
      <3>3. sold[i] = sold[j]
        BY <1>6, <3>1, <3>2
      <3>4. i = j
        BY <3>3 DEF LotInv, SoldLines, Distinct
      <3> QED
        BY <3>1, <3>2, <3>4
    <2>2. CASE e \in events /\ f \in events
      BY <1>6, <2>2 DEF LotInv, EventKeys
    <2>3. CASE e \in A /\ f \in events
      BY <1>3, <1>4, <1>6, <2>3
    <2>4. CASE e \in events /\ f \in A
      BY <1>3, <1>4, <1>6, <2>4
    <2>5. (e \in A \/ e \in events) /\ (f \in A \/ f \in events)
      BY <1>5
    <2> QED
      BY <2>1, <2>2, <2>3, <2>4, <2>5
  <1>7. ASSUME NEW e \in events', NEW l \in Line, NEW m \in Nat, e.key = <<"receipt", l, m>>
        PROVE  m <= Len(receipts')
    <2>1. CASE e \in events
      <3>1. m <= Len(receipts)
        BY <1>7, <2>1 DEF LotInv, EventKeys
      <3> QED
        BY <1>1, <1>5, <3>1
    <2>2. CASE e \in A
      BY <1>4, <1>5, <1>7, <2>2
    <2> QED
      BY <1>5, <2>1, <2>2
  <1>8. ASSUME NEW e \in events' PROVE e.line \in entitled
    BY <1>4, <1>5 DEF LotInv, SoldLines
  <1> QED
    BY <1>3, <1>6, <1>7, <1>8 DEF EventKeys, k

\* A receipt: the company's part leaves the lot, the rest is handed out to the
\* lines that wait, in their order.
LEMMA ReceiveKeeps ==
  ASSUME LotInv, NEW n \in 1 .. Original, ReceiveTransit(n)
  PROVE  LotInv'
  <1> DEFINE company == Min({n, lot.remaining})
             customers == n - company
             k == Len(receipts) + 1
             w == lot.destination
             a == Waiting(events, sold)
             t == [i \in DOMAIN sold |-> Takes(i, customers)]
             row == [warehouse |-> w, company |-> company, customers |-> customers]
  <1>1. /\ lot.status = "OPEN" /\ Fits(n)
        /\ lot' = [lot EXCEPT !.remaining = @ - company,
                              !.status = IF Closes(company, customers) THEN "CLOSED" ELSE "OPEN"]
        /\ receipts' = Append(receipts, row)
        /\ movedOn' = TRUE
        /\ UNCHANGED <<entitled, checks, returns, owing, sold, supplierReturns, completed, loss>>
    BY DEF ReceiveTransit
  <1>2. events' = events \cup ReceiptEvents(sold, t, k, w)
    BY DEF ReceiveTransit, ReceiptEvents, ReceiptEvent
  <1>3. /\ CustodyTyped /\ sold \in Seq(TransitLine) /\ receipts \in Seq(ReceiptRow)
        /\ events \in SUBSET Event /\ IsFiniteSet(events) /\ w \in Warehouse
        /\ lot.remaining \in Nat /\ loss.quantity \in Nat
        /\ DOMAIN supplierReturns = SupplierReturn /\ DOMAIN supplierReturns' = SupplierReturn
        /\ IsFiniteSet(Present(supplierReturns)) /\ PostedUnits(supplierReturns) \in Nat
    BY <1>1, LotTyped, PostedIsNat DEF LotInv
  <1>4. /\ Len(sold) \in Nat /\ DOMAIN sold = 1 .. Len(sold) /\ k \in Nat
        /\ IsFiniteSet(DOMAIN sold)
    BY <1>3, SoldTyped, LenProperties
  <1>5. /\ company \in Nat /\ customers \in Nat /\ company <= lot.remaining /\ n = company + customers
        /\ customers <= SoldInTransit
    <2>1. n \in Nat
      BY LotAssumption
    <2>2. company = IF n <= lot.remaining THEN n ELSE lot.remaining
      BY <1>3, <2>1, MinOfTwo
    <2>3. n - company <= SoldInTransit
      BY <1>1 DEF Fits
    <2> QED
      BY <1>3, <2>1, <2>2, <2>3
  <1>6. \A l \in TransitLine : LineInOrder(l)
    BY LinesInOrder
  <1>7. \A l \in TransitLine : ArrivedOf(events, l) <= Quantity[l] /\ Arrived(l) = ArrivedOf(events, l)
    BY <1>6, <1>3, LotReads DEF LineInOrder
  <1>8. /\ \A i \in 1 .. Len(sold) : a[i] \in Nat
        /\ SoldWaiting(events, sold) \in Nat
        /\ SoldWaiting(events, sold) = SumFunctionOnSet(a, 1 .. Len(sold))
    BY <1>3, <1>4, <1>7, WaitingIsNat DEF SoldWaiting
  <1>9. /\ SoldInTransit = SoldWaiting(events, sold)
        /\ SoldWaiting(events, sold) = SoldUnits(sold) - SoldArrived(events, sold)
        /\ SoldUnits(sold) \in Nat /\ SoldArrived(events, sold) \in Nat
    BY <1>3, LotReads, SoldWaits
  <1>10. \A i \in 1 .. Len(sold) : t[i] = Served(a, customers, i)
    <2> SUFFICES ASSUME NEW i \in 1 .. Len(sold) PROVE t[i] = Served(a, customers, i)
      OBVIOUS
    <2>1. i \in DOMAIN sold /\ t[i] = Takes(i, customers)
      BY <1>4
    <2> HIDE DEF customers, t
    <2> QED
      BY <1>5, <2>1, TakesServes
  <1> HIDE DEF company, customers, k, w, a, t
  <1>11. \A i \in 1 .. Len(sold) : t[i] \in Nat /\ t[i] <= a[i]
    <2> SUFFICES ASSUME NEW i \in 1 .. Len(sold) PROVE t[i] \in Nat /\ t[i] <= a[i]
      OBVIOUS
    <2>1. /\ \A j \in 1 .. Len(sold) : a[j] \in Nat
          /\ Len(sold) \in Nat /\ customers \in Nat
      BY <1>4, <1>5, <1>8
    <2>2. Served(a, customers, i) \in Nat /\ Served(a, customers, i) <= a[i]
      BY ONLY <2>1, i \in 1 .. Len(sold), ServedIs
    <2> QED
      BY <1>10, <2>2
  <1>12. SumFunctionOnSet(t, 1 .. Len(sold)) = customers
    BY <1>4, <1>5, <1>8, <1>9, <1>10, AllServed
  <1>13. \A i \in DOMAIN sold : t[i] \in Nat
    BY <1>4, <1>11
  <1>14. CustodyRows'
    BY <1>1, <1>2, <1>3, <1>4, <1>13, ReceiptRows
  <1>15. row \in ReceiptRow /\ row.company = company /\ row.customers = customers
    BY <1>3, <1>5 DEF ReceiptRow
  <1> HIDE DEF row
  <1>16. /\ receipts' \in Seq(ReceiptRow) /\ Len(receipts') = Len(receipts) + 1
         /\ CompanyUnits(receipts') = CompanyUnits(receipts) + company
         /\ CustomerUnits(receipts') = CustomerUnits(receipts) + customers
         /\ CompanyUnits(receipts) \in Nat /\ CustomerUnits(receipts) \in Nat
    <2>1. receipts' \in Seq(ReceiptRow) /\ Len(receipts') = Len(receipts) + 1
      BY <1>1, <1>3, <1>15, Appended
    <2>2. /\ CompanyUnits(receipts') = CompanyUnits(receipts) + row.company
          /\ CustomerUnits(receipts') = CustomerUnits(receipts) + row.customers
      BY <1>1, <1>3, <1>15, ReceiptAppended
    <2> QED
      BY <1>3, <1>15, <2>1, <2>2, ReceiptsAreNat
  <1>17. /\ EventKeys'
         /\ \A e \in events, i \in DOMAIN sold : e.key # <<"receipt", sold[i], k>>
         /\ \A e \in events' : e.line \in entitled
    BY <1>2, <1>16, ReceiptKeys DEF k
  <1>18. SoldLines'
    BY <1>1, <1>17 DEF LotInv, SoldLines
  <1>19. Distinct(sold)
    BY DEF LotInv, SoldLines
  <1>20. \A i \in DOMAIN sold :
           /\ ArrivedOf(events', sold[i]) = ArrivedOf(events, sold[i]) + t[i]
           /\ \A W : TotalOf(events', "PLACED", sold[i], W) = TotalOf(events, "PLACED", sold[i], W)
                                                              + (IF w \in W THEN t[i] ELSE 0)
    <2> SUFFICES ASSUME NEW i \in DOMAIN sold
                 PROVE  /\ ArrivedOf(events', sold[i]) = ArrivedOf(events, sold[i]) + t[i]
                        /\ \A W : TotalOf(events', "PLACED", sold[i], W)
                                    = TotalOf(events, "PLACED", sold[i], W) + (IF w \in W THEN t[i] ELSE 0)
      OBVIOUS
    <2>1. /\ sold \in Seq(TransitLine) /\ Distinct(sold) /\ k \in Nat /\ w \in Warehouse
          /\ events \in SUBSET Event /\ IsFiniteSet(events)
      BY <1>3, <1>4, <1>19
    <2>2. \A e \in events, j \in DOMAIN sold : e.key # <<"receipt", sold[j], k>>
      BY <1>17
    <2>3. events' = WithReceipt(events, sold, t, k, w)
      BY <1>2 DEF WithReceipt
    <2>4. ASSUME NEW W
          PROVE  /\ ArrivedOf(events', sold[i]) = ArrivedOf(events, sold[i]) + t[i]
                 /\ TotalOf(events', "PLACED", sold[i], W)
                      = TotalOf(events, "PLACED", sold[i], W) + (IF w \in W THEN t[i] ELSE 0)
      BY SMTT(30), <1>13, <2>1, <2>2, <2>3, ReceiptAdds
    <2> QED
      BY <2>4
  <1>21. \A l : /\ \A W : TotalOf(events', "RELEASED", l, W) = TotalOf(events, "RELEASED", l, W)
                /\ (\A i \in DOMAIN sold : l # sold[i]) =>
                     /\ ArrivedOf(events', l) = ArrivedOf(events, l)
                     /\ \A W : TotalOf(events', "PLACED", l, W) = TotalOf(events, "PLACED", l, W)
    <2> SUFFICES ASSUME NEW l
                 PROVE  /\ \A W : TotalOf(events', "RELEASED", l, W) = TotalOf(events, "RELEASED", l, W)
                        /\ (\A i \in DOMAIN sold : l # sold[i]) =>
                             /\ ArrivedOf(events', l) = ArrivedOf(events, l)
                             /\ \A W : TotalOf(events', "PLACED", l, W) = TotalOf(events, "PLACED", l, W)
      OBVIOUS
    <2>1. events' = WithReceipt(events, sold, t, k, w)
      BY <1>2 DEF WithReceipt
    <2>2. ASSUME NEW W
          PROVE  /\ TotalOf(events', "RELEASED", l, W) = TotalOf(events, "RELEASED", l, W)
                 /\ (\A i \in DOMAIN sold : l # sold[i]) =>
                       /\ ArrivedOf(events', l) = ArrivedOf(events, l)
                       /\ TotalOf(events', "PLACED", l, W) = TotalOf(events, "PLACED", l, W)
      BY <2>1, ReceiptLeaves
    <2> QED
      BY <2>2
  <1>22. SoldArrived(events', sold) = SoldArrived(events, sold) + customers
    <2> DEFINE S == DOMAIN sold
               f == [i \in S |-> ArrivedOf(events, sold[i])]
               g == [i \in S |-> ArrivedOf(events', sold[i])]
    <2>1. \A i \in S : f[i] \in Nat
      BY <1>3, SoldTyped
    <2>2. IntOn(f, S) /\ IntOn(t, S) /\ \A i \in S : g[i] = f[i] + t[i]
      BY <1>13, <1>20, <2>1 DEF IntOn
    <2>3. SoldArrived(events', sold) = SumFunctionOnSet(g, S) /\ SoldArrived(events, sold) = SumFunctionOnSet(f, S)
      BY DEF SoldArrived
    <2>4. SumFunctionOnSet(t, S) = customers
      BY <1>4, <1>12
    <2> HIDE DEF S, f, g
    <2>5. IsFiniteSet(S)
      BY <1>4 DEF S
    <2>6. SumFunctionOnSet(g, S) = SumFunctionOnSet(f, S) + SumFunctionOnSet(t, S)
      BY <2>2, <2>5, SumPlus
    <2> QED
      BY <2>3, <2>4, <2>6
  <1>23. ASSUME NEW l \in TransitLine PROVE LineInOrder(l)'
    <2>1. /\ Arrived(l) <= Quantity[l] /\ TotalBalance(l) + Released(l) <= Arrived(l)
          /\ \A v \in Warehouse : Balance(l, v) >= 0
      BY <1>6 DEF LineInOrder
    <2>2. /\ Arrived(l) = ArrivedOf(events, l) /\ Arrived(l)' = ArrivedOf(events', l)
          /\ ArrivedOf(events, l) \in Nat
      BY <1>3, LotReads, ArrivedIsNat
    <2>3. \A type, W : /\ Total(type, l, W) = TotalOf(events, type, l, W)
                       /\ Total(type, l, W)' = TotalOf(events', type, l, W)
                       /\ TotalOf(events, type, l, W) \in Nat
      <3>1. \A type, W : /\ Total(type, l, W) = TotalOf(events, type, l, W)
                         /\ Total(type, l, W)' = TotalOf(events', type, l, W)
        BY DEF Total, Sum, TotalOf, Matching
      <3>2. \A type, W : TotalOf(events, type, l, W) \in Nat
        BY <1>3, TotalIsNat
      <3> QED
        BY <3>1, <3>2
    <2>4. Released(l)' = Released(l) /\ Released(l) \in Nat
      <3>1. Released(l)' = Released(l)
        BY <1>1 DEF Released, ReleasedFrom, Sum
      <3>2. ReleasedFrom(l, Warehouse) \in Nat
        BY <1>3, TotalsAreNat
      <3> QED
        BY <3>1, <3>2 DEF Released
    <2>5. CASE \E i \in DOMAIN sold : l = sold[i]
      <3>1. PICK i \in DOMAIN sold : l = sold[i]
        BY <2>5
      <3>2. t[i] \in Nat /\ t[i] <= Quantity[l] - ArrivedOf(events, l)
        BY <1>4, <1>11, <3>1 DEF a, Waiting
      <3>3. Arrived(l)' = Arrived(l) + t[i]
        BY <1>20, <2>2, <3>1
      <3>4. \A W : Total("PLACED", l, W)' = Total("PLACED", l, W) + (IF w \in W THEN t[i] ELSE 0)
        BY <1>20, <2>3, <3>1
      <3>5. \A W : Total("RELEASED", l, W)' = Total("RELEASED", l, W)
        BY <1>21, <2>3
      <3>6. TotalBalance(l)' = TotalBalance(l) + t[i] /\ TotalBalance(l) \in Int
        BY <1>3, <2>3, <3>2, <3>4, <3>5 DEF TotalBalance
      <3>7. ASSUME NEW v \in Warehouse PROVE Balance(l, v)' >= 0
        <4>1. Balance(l, v)' = Balance(l, v) + (IF w \in {v} THEN t[i] ELSE 0) /\ Balance(l, v) \in Int
          BY <2>3, <3>2, <3>4, <3>5 DEF Balance
        <4> QED
          BY <2>1, <3>2, <4>1
      <3>8. Arrived(l)' <= Quantity[l]
        BY <2>2, <3>2, <3>3, CustodyAssumption
      <3>9. TotalBalance(l)' + Released(l)' <= Arrived(l)'
        BY <2>1, <2>2, <2>4, <3>2, <3>3, <3>6
      <3> QED
        BY <3>7, <3>8, <3>9 DEF LineInOrder
    <2>6. CASE ~\E i \in DOMAIN sold : l = sold[i]
      <3>1. Arrived(l)' = Arrived(l) /\ \A type : type \in {"PLACED", "RELEASED"} =>
                                         \A W : Total(type, l, W)' = Total(type, l, W)
        BY <1>21, <2>2, <2>3, <2>6
      <3> QED
        BY <2>1, <2>4, <3>1 DEF LineInOrder, TotalBalance, Balance
    <2> QED
      BY <2>5, <2>6
  <1>24. CustomersReceiveWhatArrived'
    <2>1. SoldArrived(events, sold) = CustomerUnits(receipts)
      BY <1>3, LotReads DEF LotInv
    <2>2. SoldArrived(events', sold') = CustomerUnits(receipts')
      BY <1>1, <1>16, <1>22, <2>1
    <2> QED
      BY <1>3, <1>23, <2>2, LotReads
  <1>25. ServedInOrder'
    <2>1. InOrder(events, sold)
      BY <1>3, LotReads DEF LotInv
    <2>2. InOrder(events', sold)
      <3> SUFFICES ASSUME NEW i \in DOMAIN sold, NEW j \in DOMAIN sold,
                          i < j, ArrivedOf(events', sold[j]) > 0
                   PROVE  Quantity[sold[i]] - ArrivedOf(events', sold[i]) = 0
        BY DEF InOrder
      <3>1. /\ a[i] = Quantity[sold[i]] - ArrivedOf(events, sold[i]) /\ a[i] \in Nat
            /\ ArrivedOf(events', sold[i]) = ArrivedOf(events, sold[i]) + t[i]
            /\ ArrivedOf(events', sold[j]) = ArrivedOf(events, sold[j]) + t[j]
            /\ t[i] \in Nat /\ t[j] \in Nat /\ t[i] <= a[i]
            /\ ArrivedOf(events, sold[i]) \in Nat /\ ArrivedOf(events, sold[j]) \in Nat
            /\ Quantity[sold[i]] \in Nat
        BY <1>3, <1>4, <1>8, <1>11, <1>20, SoldTyped DEF a, Waiting
      <3>2. CASE t[j] > 0
        <4>1. Served(a, customers, i) = a[i]
          <5>1. /\ i \in 1 .. Len(sold) /\ j \in 1 .. Len(sold) /\ i < j
                /\ Len(sold) \in Nat /\ customers \in Nat
            BY <1>4, <1>5
          <5>2. \A m \in 1 .. Len(sold) : a[m] \in Nat
            BY <1>8
          <5>3. Served(a, customers, j) > 0
            BY <1>10, <3>2, <5>1
          <5> QED
            BY ONLY <5>1, <5>2, <5>3, ServedFrontToBack
        <4> QED
          BY <1>4, <1>10, <3>1, <4>1
      <3>3. CASE t[j] = 0
        <4>1. ArrivedOf(events, sold[j]) > 0
          BY <3>1, <3>3
        <4>2. a[i] = 0
          BY <2>1, <3>1, <4>1 DEF InOrder
        <4> QED
          BY <3>1, <4>2
      <3> QED
        BY <3>1, <3>2, <3>3
    <2> QED
      BY <1>1, <1>3, <2>2, LotReads
  <1>26. /\ lot'.remaining = lot.remaining - company
         /\ lot'.status = (IF Closes(company, customers) THEN "CLOSED" ELSE "OPEN")
         /\ LotTypes'
    <2>1. /\ lot \in [remaining: Nat, status: {"OPEN", "CLOSED"}, destination: Warehouse]
          /\ lot.remaining - company \in Nat
          /\ (IF Closes(company, customers) THEN "CLOSED" ELSE "OPEN") \in {"OPEN", "CLOSED"}
      BY <1>3, <1>5 DEF LotInv, TypeOK
    <2>2. /\ lot'.remaining = lot.remaining - company
          /\ lot'.status = (IF Closes(company, customers) THEN "CLOSED" ELSE "OPEN")
          /\ lot' \in [remaining: Nat, status: {"OPEN", "CLOSED"}, destination: Warehouse]
      BY <1>1, <2>1, LotUpdated
    <2> QED
      BY <1>1, <2>2 DEF LotInv, TypeOK, LotTypes
  <1>27. UnitsAreConserved'
    <2>1. lot.remaining + CompanyUnits(receipts) + SoldUnits(sold)
            + PostedUnits(supplierReturns) + loss.quantity = Original
      BY <1>3, LotReads DEF LotInv
    <2>2. lot'.remaining + CompanyUnits(receipts') + SoldUnits(sold')
            + PostedUnits(supplierReturns') + loss'.quantity = Original
      BY SMTT(30), <1>1, <1>3, <1>5, <1>9, <1>16, <1>26, <2>1, LotAssumption
    <2> QED
      BY <1>3, <2>2, LotReads
  <1>28. LotStatusIsHonest'
    <2>1. SoldInTransit' = SoldInTransit - customers
      <3>1. events' \in SUBSET Event /\ IsFiniteSet(events')
        BY <1>14 DEF CustodyRows, CustodyTyped, CustodyTypeOK
      <3>2. SoldWaiting(events', sold) = SoldUnits(sold) - SoldArrived(events', sold)
        BY <1>3, <3>1, SoldWaits
      <3>3. SoldInTransit' = SoldWaiting(events', sold)
        BY <1>1, <1>3, LotReads
      <3> QED
        BY <1>5, <1>9, <1>22, <3>2, <3>3
    <2>2. SoldInTransit \in Nat
      BY <1>8, <1>9
    <2>3. CASE Closes(company, customers)
      <3>1. lot'.remaining = 0 /\ SoldInTransit' = 0 /\ lot'.status = "CLOSED"
        BY <1>3, <1>5, <1>26, <2>1, <2>2, <2>3 DEF Closes
      <3> QED
        BY <3>1 DEF LotStatusIsHonest
    <2>4. CASE ~Closes(company, customers)
      <3>1. lot'.remaining + SoldInTransit' > 0
        BY <1>3, <1>5, <1>26, <2>1, <2>2, <2>4 DEF Closes
      <3> QED
        BY <1>26, <2>4, <3>1 DEF LotStatusIsHonest
    <2> QED
      BY <2>3, <2>4
  <1>29. TypeOK'
    <2>1. CustodyTypeOK' /\ IsFiniteSet(events') /\ sold' \in Seq(TransitLine)
          /\ IsFiniteSet(Present(supplierReturns'))
      BY <1>1, <1>3, <1>14 DEF CustodyRows, CustodyTyped
    <2> QED
      BY <1>3, <1>16, <1>26, <1>27, <2>1, RemainingBounded
  <1> QED
    BY <1>1, <1>3, <1>14, <1>17, <1>18, <1>24, <1>25, <1>27, <1>28, <1>29 DEF LotInv
-----------------------------------------------------------------------------
\* Every step keeps the lot's invariant.
LEMMA LotInvStep ==
  ASSUME CallerKey = {}
  PROVE  LotInv /\ [Next]_vars => LotInv'
  <1> SUFFICES ASSUME LotInv, [Next]_vars PROVE LotInv'
    OBVIOUS
  <1>1. CASE UNCHANGED vars
    <2>1. UNCHANGED <<custodyVars, lot, sold, receipts, supplierReturns, completed, loss, movedOn>>
      BY <1>1 DEF vars, lotVars
    <2>2. LotTypes' /\ IsFiniteSet(Present(supplierReturns'))
      BY <2>1 DEF LotInv, TypeOK, LotTypes, Present
    <2>3. /\ lot'.remaining + PostedUnits(supplierReturns') + loss'.quantity
               = lot.remaining + PostedUnits(supplierReturns) + loss.quantity
      BY <2>1
    <2>4. ReturnedToSupplier = PostedUnits(supplierReturns)
      BY LotTyped DEF ReturnedToSupplier, PostedUnits, PostedRows, Sum
    <2>5. Honest(lot', SoldInTransit, PostedUnits(supplierReturns'), loss')
      BY <2>1, <2>4 DEF LotInv, LotStatusIsHonest, Honest
    <2> QED
      BY <2>1, <2>2, <2>3, <2>5, LotMoves
  <1> QED
    BY <1>1, SaleKeeps, ReceiveKeeps, LotStepsKeep, CustomerKeeps DEF Next

\* The rows of the lot and of its custody have the shapes the code gives them,
\* and the lot never holds more than was bought nor less than nothing
\* (goods_in_transit/services.py).
THEOREM LotTypeCorrect ==
  ASSUME CallerKey = {}
  PROVE  Spec => []TypeOK
  <1>1. LotInv => TypeOK
    BY DEF LotInv
  <1> QED
    BY <1>1, LotInvInit, LotInvStep, PTL DEF Spec

\* Whatever is sold, received, returned, lost and undone, every unit bought is
\* counted in one place (goods_in_transit/services.py,
\* purchases/landed_cost_posting.py).
THEOREM NoUnitIsLost ==
  ASSUME CallerKey = {}
  PROVE  Spec => []UnitsAreConserved
  <1>1. LotInv => UnitsAreConserved
    BY DEF LotInv
  <1> QED
    BY <1>1, LotInvInit, LotInvStep, PTL DEF Spec

\* What the receipts took for customers is in the lines' custody, no line gets
\* more than it bought, and nothing is in custody or delivered that did not
\* arrive (goods_in_transit/services.py receive_transit).
THEOREM CustomersAreServed ==
  ASSUME CallerKey = {}
  PROVE  Spec => []CustomersReceiveWhatArrived
  <1>1. LotInv => CustomersReceiveWhatArrived
    BY DEF LotInv
  <1> QED
    BY <1>1, LotInvInit, LotInvStep, PTL DEF Spec

\* Receipts serve the lines in the order of their sales, however the arrivals
\* are cut into receipts (goods_in_transit/services.py receive_transit).
THEOREM SalesAreServedInOrder ==
  ASSUME CallerKey = {}
  PROVE  Spec => []ServedInOrder
  <1>1. LotInv => ServedInOrder
    BY DEF LotInv
  <1> QED
    BY <1>1, LotInvInit, LotInvStep, PTL DEF Spec

\* An open lot has something to come; a closed one holds nothing of the
\* company's, and has sold goods on the way only while a supplier return or a
\* loss stands (goods_in_transit/services.py, purchases/services.py).
THEOREM StatusIsHonest ==
  ASSUME CallerKey = {}
  PROVE  Spec => []LotStatusIsHonest
  <1>1. LotInv => LotStatusIsHonest
    BY DEF LotInv
  <1> QED
    BY <1>1, LotInvInit, LotInvStep, PTL DEF Spec
=============================================================================
