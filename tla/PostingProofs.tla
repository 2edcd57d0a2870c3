--------------------------- MODULE PostingProofs ---------------------------
(***************************************************************************)
(* The safety of the posting pipeline for any number of sessions, entries, *)
(* keys, dates and periods.  IInv (PostingProperties.tla) is inductive:    *)
(* its typing half is kept by the ...Typed lemmas, the rest by the         *)
(* ...Rest lemmas, one per group of actions.  The properties follow from   *)
(* it, and each commit maps to a step of Ledger.tla.                       *)
(***************************************************************************)
EXTENDS PostingProperties, FiniteSetTheorems, TLAPS

\* The empty database is well typed.
LEMMA InitTyped == Init => TypeOK /\ SessionOK
  BY PostingAssumption DEF Init, TypeOK, SessionOK, PostSteps, ReverseSteps, PeriodSteps, NoEntry

\* Ending a transaction leaves the sessions well typed.
LEMMA FinishTyped ==
  ASSUME TypeOK, SessionOK, NEW w \in Worker, Finish(w)
  PROVE  /\ pc' \in [Worker -> {"idle"} \cup PostSteps \cup ReverseSteps \cup PeriodSteps]
         /\ req' \in [Worker -> Request \cup {None}]
         /\ number' \in [Worker -> Number \cup {None}]
         /\ target' \in [Worker -> EntryId \cup {None}]
         /\ period' \in [Worker -> Period \cup {None}]
         /\ seen' \in [Worker -> SUBSET EntryId]
         /\ SessionOK'
  BY DEF TypeOK, SessionOK, Finish, PostSteps, ReverseSteps, PeriodSteps

\* The series row after a number was drawn.
LEMMA AdvancedTyped == ASSUME NEW n \in Number PROVE AdvancedTo(n) \in [year: Nat, next: Nat]
  BY DEF Number, AdvancedTo

\* What the series would issue is a number.
LEMMA NextTyped ==
  ASSUME TypeOK, NEW y \in Nat PROVE NextNumber(y) \in Number
  BY DEF TypeOK, Number, NextNumber

\* A posting's commit writes well-typed rows.
LEMMA CommitPostTyped ==
  ASSUME TypeOK, SessionOK, NEW w \in Worker, NEW e \in EntryId, CommitPost(w, e)
  PROVE  TypeOK' /\ SessionOK'
  <1>1. req[w] \in Request /\ number[w] \in Number
    BY DEF CommitPost, SessionOK, PostSteps
  <1>2. [status |-> "POSTED", number |-> number[w], op |-> req[w].op,
         date |-> req[w].date, key |-> req[w].key, reverses |-> None] \in Entry
    BY <1>1 DEF Request, Entry
  <1>3. journal' \in [EntryId -> Entry \cup {NoEntry}]
    BY <1>2 DEF CommitPost, TypeOK
  <1>4. records' \in [Key -> EntryId \cup {None}]
    BY DEF CommitPost, TypeOK
  <1>5. seq' \in [year: Nat, next: Nat]
    BY <1>1, AdvancedTyped DEF CommitPost, TypeOK
  <1>6. audit' \subseteq ({"POST", "REVERSE"} \X EntryId)
    BY DEF CommitPost, TypeOK
  <1>7. returned' \subseteq [req: Request, entry: EntryId]
    BY <1>1 DEF CommitPost, TypeOK
  <1> QED
    BY <1>3, <1>4, <1>5, <1>6, <1>7, FinishTyped DEF CommitPost, TypeOK

\* A reversal's commit writes well-typed rows.
LEMMA CommitReverseTyped ==
  ASSUME TypeOK, SessionOK, NEW w \in Worker, NEW m \in EntryId,
         CommitReverse(w, m), journal[target[w]] \in Entry
  PROVE  TypeOK' /\ SessionOK'
  <1> DEFINE e == target[w]
  <1>1. e \in EntryId /\ number[w] \in Number
    BY DEF CommitReverse, SessionOK, ReverseSteps
  <1>2. [status |-> "POSTED", number |-> number[w], op |-> journal[e].op,
         date |-> journal[e].date, key |-> NoKey, reverses |-> e] \in Entry
    BY <1>1 DEF Entry
  <1>3. [journal[e] EXCEPT !.status = "REVERSED"] \in Entry
    BY DEF Entry
  <1>4. journal' \in [EntryId -> Entry \cup {NoEntry}]
    BY <1>1, <1>2, <1>3 DEF CommitReverse, TypeOK
  <1>5. seq' \in [year: Nat, next: Nat]
    BY <1>1, AdvancedTyped DEF CommitReverse
  <1>6. audit' \subseteq ({"POST", "REVERSE"} \X EntryId)
    BY <1>1 DEF CommitReverse, TypeOK
  <1> QED
    BY <1>4, <1>5, <1>6, FinishTyped DEF CommitReverse, TypeOK

\* The steps of post_journal keep the types.
LEMMA PostStepTyped ==
  ASSUME TypeOK, SessionOK, NEW w \in Worker, PostStep(w)
  PROVE  TypeOK' /\ SessionOK'
  <1>1. CASE DrawNumber(w)
    <2>1. req[w] \in Request
      BY <1>1 DEF DrawNumber, SessionOK, PostSteps
    <2>2. YearOf[req[w].date] \in Nat
      BY <2>1, PostingAssumption DEF Request
    <2>3. number'[w] \in Number /\ seq' \in [year: Nat, next: Nat]
      BY <1>1, <2>2, NextTyped, AdvancedTyped DEF DrawNumber, TypeOK
    <2> QED
      BY <1>1, <2>1, <2>3 DEF DrawNumber, Goto, TypeOK, SessionOK, PostSteps, ReverseSteps,
         PeriodSteps
  <1>2. CASE CheckGate(w)
    BY <1>2 DEF CheckGate, Goto, TypeOK, SessionOK, PostSteps, ReverseSteps, PeriodSteps,
       shared
  <1>3. CASE RefuseGate(w)
    BY <1>3, FinishTyped DEF RefuseGate, Rollback, TypeOK, shared
  <1>4. CASE ReserveKey(w)
    BY <1>4 DEF ReserveKey, Goto, TypeOK, SessionOK, PostSteps, ReverseSteps, PeriodSteps,
       shared
  <1>5. CASE ReturnOriginal(w)
    <2>1. req[w] \in Request /\ number[w] \in Number
      BY <1>5 DEF ReturnOriginal, SessionOK, PostSteps
    <2>2. records[req[w].key] \in EntryId
      BY <1>5, <2>1 DEF ReturnOriginal, SessionOK, TypeOK, Request
    <2> QED
      BY <1>5, <2>1, <2>2, FinishTyped, AdvancedTyped DEF ReturnOriginal, TypeOK
  <1>6. CASE RefuseMismatch(w)
    BY <1>6, FinishTyped DEF RefuseMismatch, Rollback, TypeOK, shared
  <1>7. ASSUME NEW e \in EntryId, CommitPost(w, e) PROVE TypeOK' /\ SessionOK'
    BY <1>7, CommitPostTyped
  <1>8. CASE RefuseNumber(w) \/ RefuseKeyedNumber(w)
    BY <1>8, FinishTyped DEF RefuseNumber, RefuseKeyedNumber, Rollback, TypeOK, shared
  <1>9. CASE GiveKeyBack(w)
    BY <1>9 DEF GiveKeyBack, Goto, TypeOK, SessionOK, PostSteps, ReverseSteps, PeriodSteps,
       shared
  <1> QED
    BY <1>1, <1>2, <1>3, <1>4, <1>5, <1>6, <1>7, <1>8, <1>9 DEF PostStep

\* The steps of reverse_journal keep the types.
LEMMA ReverseStepTyped ==
  ASSUME TypeOK, SessionOK, NEW w \in Worker, ReverseStep(w),
         pc[w] \in ReverseSteps => journal[target[w]] \in Entry
  PROVE  TypeOK' /\ SessionOK'
  <1>1. CASE CheckReverseGate(w)
    BY <1>1 DEF CheckReverseGate, Goto, TypeOK, SessionOK, PostSteps, ReverseSteps,
       PeriodSteps, shared
  <1>2. CASE RefuseReverseGate(w)
    BY <1>2, FinishTyped DEF RefuseReverseGate, Rollback, TypeOK, shared
  <1>3. CASE DrawReverseNumber(w)
    <2>1. target[w] \in EntryId /\ journal[target[w]] \in Entry
      BY <1>3 DEF DrawReverseNumber, SessionOK, ReverseSteps
    <2>2. YearOf[journal[target[w]].date] \in Nat
      BY <2>1, PostingAssumption DEF Entry
    <2>3. number'[w] \in Number
      BY <1>3, <2>2, NextTyped DEF DrawReverseNumber, TypeOK
    <2> QED
      BY <1>3, <2>1, <2>3 DEF DrawReverseNumber, Goto, TypeOK, SessionOK, PostSteps,
         ReverseSteps, PeriodSteps, shared
  <1>4. ASSUME NEW m \in EntryId, CommitReverse(w, m) PROVE TypeOK' /\ SessionOK'
    BY <1>4, CommitReverseTyped DEF CommitReverse, ReverseSteps
  <1> QED
    BY <1>1, <1>2, <1>3, <1>4 DEF ReverseStep

\* Starting a service call keeps the types.
LEMMA BeginTyped ==
  ASSUME TypeOK, SessionOK, NEW w \in Worker, Begin(w)
  PROVE  TypeOK' /\ SessionOK'
  <1>1. ASSUME NEW r \in Request, BeginPost(w, r) PROVE TypeOK' /\ SessionOK'
    <2>1. <<0, r.supplied>> \in Number
      BY PostingAssumption DEF Request, Number
    <2> QED
      BY <1>1, <2>1 DEF BeginPost, Goto, TypeOK, SessionOK, PostSteps, ReverseSteps,
         PeriodSteps, shared
  <1>2. ASSUME NEW e \in EntryId, BeginReverse(w, e) PROVE TypeOK' /\ SessionOK'
    BY <1>2 DEF BeginReverse, Goto, TypeOK, SessionOK, PostSteps, ReverseSteps,
       PeriodSteps, shared
  <1>3. ASSUME NEW p \in Period, BeginCreate(w, p) PROVE TypeOK' /\ SessionOK'
    BY <1>3 DEF BeginCreate, Goto, TypeOK, SessionOK, PostSteps, ReverseSteps,
       PeriodSteps, shared
  <1>4. ASSUME NEW p \in Period, BeginClose(w, p) PROVE TypeOK' /\ SessionOK'
    BY <1>4 DEF BeginClose, EntriesIn, Present, Goto, TypeOK, SessionOK, PostSteps,
       ReverseSteps, PeriodSteps, shared
  <1> QED
    BY <1>1, <1>2, <1>3, <1>4 DEF Begin

\* The commits of create_period and close_period keep the types.
LEMMA PeriodStepTyped ==
  ASSUME TypeOK, SessionOK, NEW w \in Worker, PeriodStep(w)
  PROVE  TypeOK' /\ SessionOK'
  <1>1. CASE CommitCreate(w)
    BY <1>1, FinishTyped DEF CommitCreate, TypeOK
  <1>2. CASE CommitClose(w)
    BY <1>2, FinishTyped DEF CommitClose, TypeOK, SessionOK, PeriodSteps
  <1> QED
    BY <1>1, <1>2 DEF PeriodStep

\* reopen_period, lock_period and unlock_period keep the types.
LEMMA TransitionTyped ==
  ASSUME TypeOK, SessionOK, NEW p \in Period, ReopenPeriod(p) \/ LockPeriod(p) \/ UnlockPeriod(p)
  PROVE  TypeOK' /\ SessionOK'
  BY DEF ReopenPeriod, LockPeriod, UnlockPeriod, Transition, TypeOK, SessionOK, session

\* A transaction that dies keeps the types.
LEMMA AbortTyped ==
  ASSUME TypeOK, SessionOK, NEW w \in Worker, Abort(w)
  PROVE  TypeOK' /\ SessionOK'
  BY FinishTyped DEF Abort, Rollback, TypeOK, shared
-----------------------------------------------------------------------------
\* The part of IInv that is not typing.
Rest == OncePerKey /\ RepliesRecorded /\ MirroredOnce /\ JournalSound /\ AuditIsTheJournal

\* The rows present are those that hold an entry.
LEMMA PresentIsEntry ==
  ASSUME TypeOK, NEW e \in EntryId
  PROVE  e \in Present <=> journal[e] \in Entry
  BY DEF TypeOK, Present, Entry, NoEntry

\* A step that leaves the rows alone and reserves no key keeps the key records.
LEMMA KeysUnmoved ==
  ASSUME IInv, UNCHANGED <<journal, records>>,
         \A v \in Worker, k \in Key : HoldsKey(v, k)' => HoldsKey(v, k)
  PROVE  OncePerKey'
  BY DEF IInv, OncePerKey, Present

\* A step that leaves the journal alone and locks no entry keeps the mirrors.
LEMMA MirrorsUnmoved ==
  ASSUME IInv, UNCHANGED journal,
         \A v \in Worker : pc'[v] \in ReverseSteps => pc[v] \in ReverseSteps /\ target'[v] = target[v]
  PROVE  MirroredOnce'
  <1>1. \A v \in Worker, e \in EntryId : HoldsEntry(v, e)' => HoldsEntry(v, e)
    BY DEF HoldsEntry
  <1> QED
    BY <1>1 DEF IInv, MirroredOnce, Present, Mirrors, Forward

\* A step that writes neither entries nor events keeps what they say.
LEMMA BooksUnmoved ==
  ASSUME IInv, UNCHANGED <<journal, audit>>
  PROVE  JournalSound' /\ AuditIsTheJournal'
  BY DEF IInv, JournalSound, AuditIsTheJournal, Present, Forward

\* A step inside a session: no rows written, no key reserved, no entry locked.
LEMMA SessionStep ==
  ASSUME IInv, UNCHANGED <<journal, records, audit, returned>>,
         \A v \in Worker, k \in Key : HoldsKey(v, k)' => HoldsKey(v, k),
         \A v \in Worker : pc'[v] \in ReverseSteps => pc[v] \in ReverseSteps /\ target'[v] = target[v]
  PROVE  Rest'
  <1>1. RepliesRecorded'
    BY DEF IInv, RepliesRecorded
  <1> QED
    BY <1>1, KeysUnmoved, MirrorsUnmoved, BooksUnmoved DEF Rest

\* The end of a transaction gives up what the session held.
LEMMA FinishReleases ==
  ASSUME IInv, NEW w \in Worker, Finish(w)
  PROVE  /\ \A v \in Worker, k \in Key : HoldsKey(v, k)' => HoldsKey(v, k)
         /\ \A v \in Worker : pc'[v] \in ReverseSteps => pc[v] \in ReverseSteps /\ target'[v] = target[v]
  <1>1. \A v \in Worker, k \in Key : HoldsKey(v, k)' => HoldsKey(v, k)
    BY DEF Finish, HoldsKey, IInv, TypeOK
  <1>2. \A v \in Worker : pc'[v] \in ReverseSteps => pc[v] \in ReverseSteps /\ target'[v] = target[v]
    BY DEF Finish, IInv, TypeOK, ReverseSteps
  <1> QED
    BY <1>1, <1>2

\* A session that only ends its transaction, or that ends it with a refusal.
LEMMA RollbackRest ==
  ASSUME IInv, NEW w \in Worker, Finish(w), UNCHANGED <<journal, records, audit, returned>>
  PROVE  Rest'
  BY FinishReleases, SessionStep

\* A posting commits: its key was reserved by no other and its number was free.
LEMMA CommitPostRest ==
  ASSUME IInv, NEW w \in Worker, NEW e \in EntryId, CommitPost(w, e)
  PROVE  Rest'
  <1> DEFINE new == [status |-> "POSTED", number |-> number[w], op |-> req[w].op,
                     date |-> req[w].date, key |-> req[w].key, reverses |-> None]
  <1>1. /\ TypeOK /\ TypeOK'
        /\ req[w] \in Request
        /\ req[w].op \in Balanced
        /\ e \notin Present
    BY CommitPostTyped DEF IInv, CommitPost, SessionOK, PostSteps
  <1>2. /\ journal'[e] = new
        /\ \A f \in EntryId : f # e => journal'[f] = journal[f]
    BY <1>1 DEF CommitPost, TypeOK
  <1>3. Present' = Present \cup {e}
    BY <1>2 DEF Present
  <1>a. \A f \in Present : f \in EntryId /\ f # e /\ f # None /\ journal'[f] = journal[f]
    BY <1>1, <1>2, PostingAssumption DEF Present
  <1>4. pc'[w] = "idle" /\ \A v \in Worker : v # w =>
          pc'[v] = pc[v] /\ req'[v] = req[v] /\ target'[v] = target[v]
    BY <1>1 DEF CommitPost, Finish, TypeOK
  <1>5. OncePerKey'
    <2>1. CASE req[w].key = NoKey
      <3>1. records' = records
        BY <2>1 DEF CommitPost
      <3>2. \A v \in Worker, k \in Key : HoldsKey(v, k)' => HoldsKey(v, k)
        BY <1>4 DEF HoldsKey
      <3> QED
        BY <1>a, <1>2, <1>3, <2>1, <3>1, <3>2 DEF IInv, OncePerKey
    <2>2. CASE req[w].key \in Key
      <3>0. PICK k0 \in Key : k0 = req[w].key
        BY <2>2
      <3>1. records'[k0] = e /\ \A k \in Key : k # k0 => records'[k] = records[k]
        BY <1>1, <3>0, PostingAssumption DEF CommitPost, TypeOK
      <3>2. \A v \in Worker, k \in Key : HoldsKey(v, k)' => v # w /\ HoldsKey(v, k)
        BY <1>4 DEF HoldsKey
      <3>3. HoldsKey(w, k0) /\ records[k0] = None
        BY <3>0 DEF HoldsKey, CommitPost, IInv, OncePerKey
      <3>4. \A v \in Worker : ~HoldsKey(v, k0)'
        BY <3>2, <3>3 DEF IInv, OncePerKey
      <3>5. \A f \in Present' : journal'[f].key # NoKey => records'[journal'[f].key] = f
        <4> SUFFICES ASSUME NEW f \in Present', journal'[f].key # NoKey
                     PROVE  records'[journal'[f].key] = f
          OBVIOUS
        <4>1. CASE f = e
          BY <1>2, <3>0, <3>1, <4>1
        <4>2. CASE f # e
          <5>1. f \in Present /\ journal'[f] = journal[f] /\ journal[f].key \in Key
            BY <1>1, <1>2, <1>3, <4>2, PresentIsEntry DEF Present, Entry
          <5>2. records[journal[f].key] = f
            BY <5>1 DEF IInv, OncePerKey
          <5>3. f # None
            BY PostingAssumption DEF Present
          <5> QED
            BY <5>1, <5>2, <5>3, <3>1, <3>3
        <4> QED
          BY <4>1, <4>2
      <3>6. \A k \in Key : records'[k] # None =>
              records'[k] \in Present' /\ journal'[records'[k]].key = k /\ \A v \in Worker : ~HoldsKey(v, k)'
        <4> SUFFICES ASSUME NEW k \in Key, records'[k] # None
                     PROVE  records'[k] \in Present' /\ journal'[records'[k]].key = k
                            /\ \A v \in Worker : ~HoldsKey(v, k)'
          OBVIOUS
        <4>1. CASE k = k0
          BY <1>2, <1>3, <3>0, <3>1, <3>4, <4>1
        <4>2. CASE k # k0
          <5>1. records[k] \in Present /\ journal[records[k]].key = k /\ records'[k] = records[k]
            BY <3>1, <4>2 DEF IInv, OncePerKey
          <5> QED
            BY <1>a, <1>3, <3>2, <5>1 DEF IInv, OncePerKey
        <4> QED
          BY <4>1, <4>2
      <3> QED
        BY <3>2, <3>5, <3>6 DEF IInv, OncePerKey
    <2> QED
      BY <1>1, <2>1, <2>2 DEF Request
  <1>6. RepliesRecorded'
    <2> SUFFICES ASSUME NEW r \in returned'
                 PROVE  /\ r.req.key \in Key
                        /\ records'[r.req.key] = r.entry
                        /\ journal'[r.entry].op = r.req.op
                        /\ journal'[r.entry].date = r.req.date
      BY DEF RepliesRecorded
    <2>1. CASE r \in returned
      <3>1. r.req.key \in Key /\ records[r.req.key] = r.entry /\ r.entry \in EntryId
        BY <1>1, <2>1 DEF IInv, RepliesRecorded, TypeOK
      <3>2. r.entry \in Present /\ r.entry # None /\ r.entry # e
        BY <1>1, <3>1, PostingAssumption DEF IInv, OncePerKey
      <3>3. records'[r.req.key] = r.entry
        <4>1. HoldsKey(w, req[w].key)
          BY DEF HoldsKey, CommitPost
        <4>2. r.req.key # req[w].key
          BY <3>1, <3>2, <4>1 DEF IInv, OncePerKey
        <4> QED
          BY <3>1, <4>2 DEF CommitPost, IInv, TypeOK
      <3> QED
        BY <1>2, <2>1, <3>1, <3>2, <3>3 DEF IInv, RepliesRecorded
    <2>2. CASE r \notin returned
      <3>1. req[w].key # NoKey /\ r = [req |-> req[w], entry |-> e]
        BY <2>2 DEF CommitPost
      <3>2. req[w].key \in Key /\ records'[req[w].key] = e
        BY <1>1, <3>1 DEF CommitPost, TypeOK, Request
      <3> QED
        BY <1>2, <3>1, <3>2
    <2> QED
      BY <2>1, <2>2
  <1>7. MirroredOnce'
    <2>0. None \notin EntryId
      BY PostingAssumption
    <2>1. \A v \in Worker : pc'[v] \in ReverseSteps => v # w /\ pc[v] \in ReverseSteps /\ target'[v] = target[v]
      BY <1>4 DEF ReverseSteps
    <2>2. \A v \in Worker, f \in EntryId : HoldsEntry(v, f)' => HoldsEntry(v, f)
      BY <2>1 DEF HoldsEntry
    <2>3. \A f \in Present : Mirrors(f)' = Mirrors(f) /\ e \notin Mirrors(f)
      BY <1>1, <1>2, <1>3, <2>0 DEF Mirrors, Present
    <2>4. Mirrors(e)' = {}
      <3> SUFFICES ASSUME NEW m \in Present', journal'[m].reverses = e PROVE FALSE
        BY DEF Mirrors
      <3>1. m \in Present /\ journal[m].reverses = e
        BY <1>a, <1>2, <1>3, <2>0
      <3>2. e \in Forward
        BY <1>a, <3>1, <2>0 DEF IInv, MirroredOnce
      <3> QED
        BY <1>1, <3>2 DEF Forward
    <2>5. Forward' = Forward \cup {e}
      BY <1>a, <1>2, <1>3 DEF Forward
    <2>6. \A f \in Present' : journal'[f].status = "REVERSED" <=> Mirrors(f)' # {}
      BY <1>a, <1>2, <1>3, <2>3, <2>4 DEF IInv, MirroredOnce
    <2>7. \A m \in Present' : journal'[m].reverses # None =>
            m \in Present /\ journal'[m] = journal[m]
      BY <1>a, <1>2, <1>3
    <2>8. \A m1, m2 \in Present' :
            journal'[m1].reverses = journal'[m2].reverses /\ journal'[m1].reverses # None => m1 = m2
      BY <2>7 DEF IInv, MirroredOnce
    <2>9. \A m \in Present' : journal'[m].reverses # None =>
            /\ journal'[m].status = "POSTED"
            /\ journal'[m].reverses \in Forward'
            /\ journal'[m].op = journal'[journal'[m].reverses].op
            /\ journal'[m].date = journal'[journal'[m].reverses].date
      <3> SUFFICES ASSUME NEW m \in Present', journal'[m].reverses # None
                   PROVE  /\ journal'[m].status = "POSTED"
                          /\ journal'[m].reverses \in Forward'
                          /\ journal'[m].op = journal'[journal'[m].reverses].op
                          /\ journal'[m].date = journal'[journal'[m].reverses].date
        OBVIOUS
      <3>1. m \in Present /\ journal'[m] = journal[m]
        BY <2>7
      <3>2. journal[m].reverses \in Forward /\ journal[m].reverses \in Present
        BY <3>1 DEF IInv, MirroredOnce, Forward
      <3> QED
        BY <1>a, <2>5, <3>1, <3>2 DEF IInv, MirroredOnce
    <2>10. \A v \in Worker : pc'[v] \in ReverseSteps =>
             target'[v] \in Forward' /\ journal'[target'[v]].status = "POSTED"
      BY <1>a, <2>1, <2>5 DEF IInv, MirroredOnce, Forward
    <2>11. \A f \in EntryId, v, u \in Worker : HoldsEntry(v, f)' /\ HoldsEntry(u, f)' => v = u
      BY <2>2 DEF IInv, MirroredOnce
    <2> QED
      BY <2>6, <2>8, <2>9, <2>10, <2>11 DEF MirroredOnce
  <1>8. JournalSound'
    BY <1>1, <1>2, <1>3 DEF IInv, JournalSound, CommitPost, NumberTaken, Present
  <1>9. AuditIsTheJournal'
    BY <1>1, <1>2, <1>3 DEF IInv, AuditIsTheJournal, CommitPost, Forward, Present
  <1> QED
    BY <1>5, <1>6, <1>7, <1>8, <1>9 DEF Rest

\* Reserving a free key.
LEMMA ReserveKeyRest ==
  ASSUME IInv, NEW w \in Worker, ReserveKey(w)
  PROVE  Rest'
  <1>1. TypeOK /\ UNCHANGED <<journal, records, audit, returned>> /\ req' = req /\ target' = target
    BY DEF IInv, ReserveKey, shared
  <1>2. pc'[w] = "persisting" /\ \A v \in Worker : v # w => pc'[v] = pc[v]
    BY <1>1 DEF ReserveKey, Goto, TypeOK
  <1>3. OncePerKey'
    <2>1. \A v \in Worker, k \in Key : HoldsKey(v, k)' => HoldsKey(v, k) \/ (v = w /\ k = req[w].key)
      BY <1>1, <1>2 DEF HoldsKey
    <2>2. \A v \in Worker, k \in Key : k = req[w].key => ~HoldsKey(v, k) /\ records[k] = None
      BY DEF ReserveKey
    <2> QED
      BY <1>1, <2>1, <2>2 DEF IInv, OncePerKey, Present
  <1>4. \A v \in Worker : pc'[v] \in ReverseSteps => pc[v] \in ReverseSteps /\ target'[v] = target[v]
    BY <1>1, <1>2 DEF ReverseSteps
  <1>5. RepliesRecorded'
    BY <1>1 DEF IInv, RepliesRecorded
  <1> QED
    BY <1>1, <1>3, <1>4, <1>5, MirrorsUnmoved, BooksUnmoved DEF Rest

\* Answering a retry with the entry its key stands for.
LEMMA ReturnOriginalRest ==
  ASSUME IInv, NEW w \in Worker, ReturnOriginal(w)
  PROVE  Rest'
  <1>1. UNCHANGED <<journal, records, audit>>
    BY DEF ReturnOriginal
  <1>2. req[w] \in Request /\ req[w].key \in Key
    BY DEF IInv, SessionOK, ReturnOriginal, PostSteps, Request
  <1>3. RepliesRecorded'
    BY <1>1, <1>2 DEF IInv, RepliesRecorded, ReturnOriginal, SameFingerprint
  <1>4. Finish(w)
    BY DEF ReturnOriginal
  <1> QED
    BY <1>1, <1>3, <1>4, FinishReleases, KeysUnmoved, MirrorsUnmoved, BooksUnmoved DEF Rest

\* The remaining steps of post_journal.
LEMMA PostStepRest ==
  ASSUME IInv, NEW w \in Worker, PostStep(w)
  PROVE  Rest'
  <1>1. CASE DrawNumber(w)
    <2>1. UNCHANGED <<journal, records, audit, returned, req, target>>
      BY <1>1 DEF DrawNumber
    <2>2. pc'[w] = "gating" /\ \A v \in Worker : v # w => pc'[v] = pc[v]
      BY <1>1 DEF DrawNumber, Goto, IInv, TypeOK
    <2> QED
      BY <2>1, <2>2, SessionStep DEF HoldsKey, ReverseSteps
  <1>2. CASE CheckGate(w)
    <2>1. UNCHANGED <<journal, records, audit, returned, req, target>>
      BY <1>2 DEF CheckGate, shared
    <2>2. /\ pc'[w] = "reserving" \/ (pc'[w] = "persisting" /\ req[w].key = NoKey)
          /\ \A v \in Worker : v # w => pc'[v] = pc[v]
      BY <1>2 DEF CheckGate, Goto, IInv, TypeOK
    <2>3. \A v \in Worker, k \in Key : HoldsKey(v, k)' => HoldsKey(v, k)
      BY <2>1, <2>2, PostingAssumption DEF HoldsKey
    <2>4. \A v \in Worker : pc'[v] \in ReverseSteps => pc[v] \in ReverseSteps /\ target'[v] = target[v]
      BY <2>1, <2>2 DEF ReverseSteps
    <2> QED
      BY <2>1, <2>3, <2>4, SessionStep
  <1>3. CASE RefuseGate(w) \/ RefuseNumber(w) \/ RefuseKeyedNumber(w)
    BY <1>3, RollbackRest DEF RefuseGate, RefuseNumber, RefuseKeyedNumber, Rollback, shared
  <1>4. CASE RefuseMismatch(w)
    BY <1>4, RollbackRest DEF RefuseMismatch, Rollback, shared
  <1>5. CASE ReserveKey(w) \/ ReturnOriginal(w)
    BY <1>5, ReserveKeyRest, ReturnOriginalRest
  <1>6. ASSUME NEW e \in EntryId, CommitPost(w, e) PROVE Rest'
    BY <1>6, CommitPostRest
  <1>7. CASE GiveKeyBack(w)
    <2>1. UNCHANGED <<journal, records, audit, returned, req, target>>
      BY <1>7 DEF GiveKeyBack, shared
    <2>2. pc'[w] = "rechecking" /\ \A v \in Worker : v # w => pc'[v] = pc[v]
      BY <1>7 DEF GiveKeyBack, Goto, IInv, TypeOK
    <2> QED
      BY <2>1, <2>2, SessionStep DEF HoldsKey, ReverseSteps
  <1> QED
    BY <1>1, <1>2, <1>3, <1>4, <1>5, <1>6, <1>7 DEF PostStep

\* A reversal commits: one mirror more, for an entry that had none.
LEMMA CommitReverseRest ==
  ASSUME IInv, NEW w \in Worker, NEW m \in EntryId, CommitReverse(w, m)
  PROVE  Rest'
  <1> PICK e \in EntryId : e = target[w]
    BY DEF IInv, SessionOK, CommitReverse, ReverseSteps
  <1>1. /\ TypeOK
        /\ e \in Forward /\ e \in Present
        /\ journal[e] \in Entry /\ journal[e].status = "POSTED"
        /\ m \notin Present /\ m # e /\ e # None /\ m # None
    BY PostingAssumption, PresentIsEntry
       DEF IInv, MirroredOnce, CommitReverse, ReverseSteps, Forward
  <1>2. /\ journal'[m] = [status |-> "POSTED", number |-> number[w], op |-> journal[e].op,
                          date |-> journal[e].date, key |-> NoKey, reverses |-> e]
        /\ journal'[e] = [journal[e] EXCEPT !.status = "REVERSED"]
        /\ \A f \in EntryId : f # m /\ f # e => journal'[f] = journal[f]
    BY <1>1 DEF CommitReverse, TypeOK
  <1>3. /\ journal'[e].status = "REVERSED"
        /\ journal'[e].number = journal[e].number
        /\ journal'[e].op = journal[e].op
        /\ journal'[e].date = journal[e].date
        /\ journal'[e].key = journal[e].key
        /\ journal'[e].reverses = journal[e].reverses
    BY <1>1, <1>2 DEF Entry
  <1>m. /\ journal'[m].status = "POSTED"
        /\ journal'[m].number = number[w]
        /\ journal'[m].op = journal[e].op
        /\ journal'[m].date = journal[e].date
        /\ journal'[m].key = NoKey
        /\ journal'[m].reverses = e
    BY <1>2
  <1>n. \A f \in EntryId : f # m /\ f # e => journal'[f] = journal[f]
    BY <1>2
  <1>4. Present' = Present \cup {m}
    <2>1. \A f \in EntryId : journal'[f].status # "ABSENT" <=> journal[f].status # "ABSENT" \/ f = m
      BY <1>1, <1>n, <1>m, <1>3
    <2> QED
      BY <2>1 DEF Present
  <1>5. \A f \in Present : /\ f \in EntryId /\ f # m /\ f # None
                           /\ journal'[f].number = journal[f].number
                           /\ journal'[f].op = journal[f].op
                           /\ journal'[f].date = journal[f].date
                           /\ journal'[f].key = journal[f].key
                           /\ journal'[f].reverses = journal[f].reverses
                           /\ f # e => journal'[f].status = journal[f].status
    BY <1>1, <1>m, <1>n, <1>3, PostingAssumption DEF Present
  <1>6. Finish(w) /\ records' = records /\ returned' = returned
    BY DEF CommitReverse
  <1>7. /\ \A v \in Worker, k \in Key : HoldsKey(v, k)' => HoldsKey(v, k)
        /\ \A v \in Worker : pc'[v] \in ReverseSteps => pc[v] \in ReverseSteps /\ target'[v] = target[v]
        /\ pc'[w] = "idle"
    BY <1>1, <1>6, FinishReleases DEF Finish, TypeOK
  <1>8. OncePerKey'
    BY <1>m, <1>n, <1>4, <1>5, <1>6, <1>7 DEF IInv, OncePerKey
  <1>9. RepliesRecorded'
    <2>1. \A r \in returned : r.entry \in Present
      BY <1>1, PostingAssumption DEF IInv, RepliesRecorded, OncePerKey, TypeOK
    <2> QED
      BY <1>5, <1>6, <2>1 DEF IInv, RepliesRecorded
  <1>10. MirroredOnce'
    <2>1. Forward' = Forward
      BY <1>1, <1>m, <1>n, <1>4, <1>5 DEF Forward
    <2>2. Mirrors(e) = {} /\ m \in Mirrors(e)'
      BY <1>1, <1>m, <1>n, <1>4 DEF IInv, MirroredOnce, Mirrors
    <2>3. \A f \in Present' : journal'[f].status = "REVERSED" <=> Mirrors(f)' # {}
      <3> SUFFICES ASSUME NEW f \in Present'
                   PROVE  journal'[f].status = "REVERSED" <=> Mirrors(f)' # {}
        OBVIOUS
      <3>1. CASE f = e
        BY <1>3, <2>2, <3>1
      <3>2. CASE f = m
        <4>1. \A x \in Present' : journal'[x].reverses # m
          BY <1>1, <1>m, <1>n, <1>4, <1>5 DEF IInv, MirroredOnce, Forward
        <4> QED
          BY <1>m, <1>n, <3>2, <4>1 DEF Mirrors
      <3>3. CASE f # e /\ f # m
        <4>1. Mirrors(f)' = Mirrors(f)
          BY <1>m, <1>n, <1>4, <1>5, <3>3 DEF Mirrors
        <4> QED
          BY <1>4, <1>5, <3>3, <4>1 DEF IInv, MirroredOnce
      <3> QED
        BY <3>1, <3>2, <3>3
    <2>4. \A m1, m2 \in Present' :
            journal'[m1].reverses = journal'[m2].reverses /\ journal'[m1].reverses # None => m1 = m2
      BY <1>m, <1>n, <1>4, <1>5, <2>2 DEF IInv, MirroredOnce, Mirrors
    <2>5. \A x \in Present' : journal'[x].reverses # None =>
            /\ journal'[x].status = "POSTED"
            /\ journal'[x].reverses \in Forward'
            /\ journal'[x].op = journal'[journal'[x].reverses].op
            /\ journal'[x].date = journal'[journal'[x].reverses].date
      <3> SUFFICES ASSUME NEW x \in Present', journal'[x].reverses # None
                   PROVE  /\ journal'[x].status = "POSTED"
                          /\ journal'[x].reverses \in Forward'
                          /\ journal'[x].op = journal'[journal'[x].reverses].op
                          /\ journal'[x].date = journal'[journal'[x].reverses].date
        OBVIOUS
      <3>1. CASE x = m
        BY <1>1, <1>m, <1>n, <1>3, <2>1, <3>1
      <3>2. CASE x \in Present
        <4>1. /\ journal[x].reverses # None /\ x # e
              /\ journal[x].reverses \in Forward /\ journal[x].reverses \in Present
          BY <1>1, <1>5, <3>2 DEF IInv, MirroredOnce, Forward
        <4> QED
          BY <1>5, <2>1, <3>2, <4>1 DEF IInv, MirroredOnce
      <3> QED
        BY <1>4, <3>1, <3>2
    <2>6. \A v \in Worker : pc'[v] \in ReverseSteps =>
            target'[v] \in Forward' /\ journal'[target'[v]].status = "POSTED"
      <3> SUFFICES ASSUME NEW v \in Worker, pc'[v] \in ReverseSteps
                   PROVE  target'[v] \in Forward' /\ journal'[target'[v]].status = "POSTED"
        OBVIOUS
      <3>1. v # w /\ pc[v] \in ReverseSteps /\ target'[v] = target[v]
        BY <1>7 DEF ReverseSteps
      <3>2. HoldsEntry(w, e) /\ HoldsEntry(v, e) => v = w
        BY DEF IInv, MirroredOnce
      <3>3. target[v] # e
        BY <3>1, <3>2 DEF HoldsEntry, CommitReverse, ReverseSteps
      <3> QED
        BY <1>5, <2>1, <3>1, <3>3 DEF IInv, MirroredOnce, Forward
    <2>7. \A f \in EntryId, v, u \in Worker : HoldsEntry(v, f)' /\ HoldsEntry(u, f)' => v = u
      <3>1. \A v \in Worker, f \in EntryId : HoldsEntry(v, f)' => HoldsEntry(v, f)
        BY <1>7 DEF HoldsEntry
      <3> QED
        BY <3>1 DEF IInv, MirroredOnce
    <2> QED
      BY <2>3, <2>4, <2>5, <2>6, <2>7 DEF MirroredOnce
  <1>11. JournalSound'
    <2>1. \A f \in Present : journal[f].number # number[w]
      BY DEF CommitReverse, NumberTaken
    <2> QED
      BY <1>1, <1>m, <1>n, <1>4, <1>5, <2>1 DEF IInv, JournalSound
  <1>12. AuditIsTheJournal'
    <2>1. Forward' = Forward
      BY <1>1, <1>m, <1>4, <1>5 DEF Forward
    <2>2. audit' = audit \cup {<<"REVERSE", e>>}
      BY DEF CommitReverse
    <2>3. \A f \in EntryId : <<"POST", f>> \in audit' <=> f \in Forward'
      BY <2>1, <2>2 DEF IInv, AuditIsTheJournal
    <2>4. \A f \in EntryId : <<"REVERSE", f>> \in audit' <=>
            f \in Present' /\ journal'[f].status = "REVERSED"
      BY ZenonT(30), <1>1, <1>3, <1>4, <1>5, <1>m, <2>2 DEF IInv, AuditIsTheJournal
    <2> QED
      BY <2>3, <2>4 DEF AuditIsTheJournal
  <1> QED
    BY <1>8, <1>9, <1>10, <1>11, <1>12 DEF Rest

\* The remaining steps of reverse_journal.
LEMMA ReverseStepRest ==
  ASSUME IInv, NEW w \in Worker, ReverseStep(w)
  PROVE  Rest'
  <1>1. CASE CheckReverseGate(w) \/ DrawReverseNumber(w)
    <2>1. /\ UNCHANGED <<journal, records, audit, returned, req, target>>
          /\ pc[w] \in ReverseSteps
          /\ pc'[w] \in {"r_drawing", "r_persisting"} /\ \A v \in Worker : v # w => pc'[v] = pc[v]
      BY <1>1 DEF CheckReverseGate, DrawReverseNumber, Goto, IInv, TypeOK, ReverseSteps,
         shared
    <2> QED
      BY <2>1, SessionStep DEF HoldsKey
  <1>2. CASE RefuseReverseGate(w)
    BY <1>2, RollbackRest DEF RefuseReverseGate, Rollback, shared
  <1>3. ASSUME NEW m \in EntryId, CommitReverse(w, m) PROVE Rest'
    BY <1>3, CommitReverseRest
  <1> QED
    BY <1>1, <1>2, <1>3 DEF ReverseStep

\* A session starts: a reversal locks an entry nobody else has locked.
LEMMA BeginRest ==
  ASSUME IInv, NEW w \in Worker, Begin(w)
  PROVE  Rest'
  <1>1. /\ UNCHANGED <<journal, records, audit, returned>>
        /\ \A v \in Worker : v # w => pc'[v] = pc[v] /\ req'[v] = req[v] /\ target'[v] = target[v]
        /\ pc'[w] \notin {"persisting"}
    BY DEF Begin, BeginPost, BeginReverse, BeginCreate, BeginClose, Goto, shared,
       IInv, TypeOK
  <1>2. \A v \in Worker, k \in Key : HoldsKey(v, k)' => HoldsKey(v, k)
    BY <1>1 DEF HoldsKey
  <1>3. ASSUME NEW e \in EntryId, BeginReverse(w, e) PROVE Rest'
    <2>1. RepliesRecorded'
      BY <1>1 DEF IInv, RepliesRecorded
    <2>2. Present' = Present /\ Forward' = Forward /\ journal' = journal
      BY <1>1 DEF Present, Forward
    <2>3. \A v \in Worker, f \in EntryId : HoldsEntry(v, f)' => HoldsEntry(v, f) \/ (v = w /\ f = e)
      BY <1>1, <1>3 DEF HoldsEntry, BeginReverse, IInv, TypeOK
    <2>4. \A v \in Worker : ~HoldsEntry(v, e)
      BY <1>3 DEF BeginReverse
    <2>5. e \in Forward /\ journal[e].status = "POSTED"
      BY <1>3 DEF BeginReverse, Forward, Present
    <2>6. \A v \in Worker : pc'[v] \in ReverseSteps =>
            target'[v] \in Forward' /\ journal'[target'[v]].status = "POSTED"
      BY <1>1, <1>3, <2>2, <2>5 DEF BeginReverse, IInv, TypeOK, MirroredOnce
    <2>7. MirroredOnce'
      BY <2>2, <2>3, <2>4, <2>6 DEF IInv, MirroredOnce, Mirrors
    <2> QED
      BY <1>1, <1>2, <2>1, <2>7, KeysUnmoved, BooksUnmoved DEF Rest
  <1>4. CASE ~\E e \in EntryId : BeginReverse(w, e)
    <2>1. pc'[w] \notin ReverseSteps
      BY <1>4 DEF Begin, BeginPost, BeginCreate, BeginClose, Goto, IInv, TypeOK, ReverseSteps
    <2> QED
      BY <1>1, <1>2, <2>1, SessionStep
  <1> QED
    BY <1>3, <1>4

-----------------------------------------------------------------------------
\* Every step of the pipeline keeps the inductive invariant.
LEMMA NextInductive == IInv /\ [Next]_vars => IInv'
  <1> SUFFICES ASSUME IInv, [Next]_vars PROVE IInv'
    OBVIOUS
  <1>1. ASSUME NEW w \in Worker, Begin(w) PROVE IInv'
    BY <1>1, BeginTyped, BeginRest DEF IInv, Rest
  <1>2. ASSUME NEW w \in Worker, PostStep(w) PROVE IInv'
    BY <1>2, PostStepTyped, PostStepRest DEF IInv, Rest
  <1>3. ASSUME NEW w \in Worker, ReverseStep(w) PROVE IInv'
    <2>1. pc[w] \in ReverseSteps => journal[target[w]] \in Entry
      BY PresentIsEntry DEF IInv, MirroredOnce, SessionOK, Forward
    <2> QED
      BY <1>3, <2>1, ReverseStepTyped, ReverseStepRest DEF IInv, Rest
  <1>4. ASSUME NEW w \in Worker, PeriodStep(w) PROVE IInv'
    <2>1. Finish(w) /\ UNCHANGED <<journal, records, audit, returned>>
      BY <1>4 DEF PeriodStep, CommitCreate, CommitClose
    <2> QED
      BY <1>4, <2>1, PeriodStepTyped, RollbackRest DEF IInv, Rest
  <1>5. ASSUME NEW w \in Worker, Abort(w) PROVE IInv'
    <2>1. Finish(w) /\ UNCHANGED <<journal, records, audit, returned>>
      BY <1>5 DEF Abort, Rollback, shared
    <2> QED
      BY <1>5, <2>1, AbortTyped, RollbackRest DEF IInv, Rest
  <1>6. ASSUME NEW p \in Period, ReopenPeriod(p) \/ LockPeriod(p) \/ UnlockPeriod(p) PROVE IInv'
    <2>1. UNCHANGED <<journal, records, audit, returned, pc, req, target>>
      BY <1>6 DEF ReopenPeriod, LockPeriod, UnlockPeriod, Transition, session
    <2>2. Rest'
      BY <2>1, SessionStep DEF HoldsKey
    <2> QED
      BY <1>6, <2>2, TransitionTyped DEF IInv, Rest
  <1>7. CASE UNCHANGED vars
    BY <1>7 DEF vars, shared, session, IInv, TypeOK, SessionOK, OncePerKey, Present,
       HoldsKey, RepliesRecorded, MirroredOnce, Mirrors, Forward, HoldsEntry, JournalSound,
       AuditIsTheJournal
  <1> QED
    BY <1>1, <1>2, <1>3, <1>4, <1>5, <1>6, <1>7 DEF Next

\* The empty database satisfies the inductive invariant.
LEMMA InitInductive == Init => IInv
  BY InitTyped, PostingAssumption
     DEF Init, IInv, OncePerKey, RepliesRecorded, MirroredOnce, JournalSound,
         AuditIsTheJournal, Present, Forward, Mirrors, HoldsKey, HoldsEntry, NoEntry, ReverseSteps

\* Every behaviour of the pipeline satisfies the inductive invariant.
THEOREM Inductive == Spec => []IInv
  BY InitInductive, NextInductive, PTL DEF Spec

\* Rows, sessions and replies keep their types, whatever sessions interleave.
THEOREM TypeCorrect == Spec => []TypeOK
  <1>1. IInv => TypeOK
    BY DEF IInv
  <1> QED
    BY <1>1, Inductive, PTL

\* At most one committed entry per idempotency key, for any number of sessions.
THEOREM KeysAreUsedOnce == Spec => []OncePerKey
  <1>1. IInv => OncePerKey
    BY DEF IInv
  <1> QED
    BY <1>1, Inductive, PTL

\* All successful answers to one key name one entry, with the contents asked for.
THEOREM RetriesAgree == Spec => []RepliesAgree
  <1>1. IInv => RepliesAgree
    BY DEF IInv, RepliesRecorded, RepliesAgree
  <1> QED
    BY <1>1, Inductive, PTL

\* Each reversed entry has exactly one mirror and each mirror one original.
THEOREM ReversedOnce == Spec => []MirroredOnce
  <1>1. IInv => MirroredOnce
    BY DEF IInv
  <1> QED
    BY <1>1, Inductive, PTL

\* Journal numbers are unique and every committed entry balances.
THEOREM SoundJournal == Spec => []JournalSound
  <1>1. IInv => JournalSound
    BY DEF IInv
  <1> QED
    BY <1>1, Inductive, PTL

\* The audit trail tells exactly the committed postings and reversals.
THEOREM FaithfulAudit == Spec => []AuditIsTheJournal
  <1>1. IInv => AuditIsTheJournal
    BY DEF IInv
  <1> QED
    BY <1>1, Inductive, PTL
-----------------------------------------------------------------------------
\* Only the two commits write the journal.
LEMMA JournalWriters ==
  ASSUME IInv, [Next]_vars, journal' # journal
  PROVE  \E w \in Worker, e \in EntryId : CommitPost(w, e) \/ CommitReverse(w, e)
  <1>1. ASSUME NEW w \in Worker, Begin(w) PROVE FALSE
    BY <1>1 DEF Begin, BeginPost, BeginReverse, BeginCreate, BeginClose, shared
  <1>2. ASSUME NEW w \in Worker, PostStep(w) PROVE \E e \in EntryId : CommitPost(w, e)
    BY <1>2 DEF PostStep, DrawNumber, CheckGate, RefuseGate, ReserveKey, ReturnOriginal,
       RefuseMismatch, RefuseNumber, GiveKeyBack, RefuseKeyedNumber, Rollback, shared
  <1>3. ASSUME NEW w \in Worker, ReverseStep(w) PROVE \E e \in EntryId : CommitReverse(w, e)
    BY <1>3 DEF ReverseStep, CheckReverseGate, RefuseReverseGate, DrawReverseNumber, Rollback, shared
  <1>4. ASSUME NEW w \in Worker, PeriodStep(w) \/ Abort(w) PROVE FALSE
    BY <1>4 DEF PeriodStep, CommitCreate, CommitClose, Abort, Rollback, shared
  <1>5. ASSUME NEW p \in Period, ReopenPeriod(p) \/ LockPeriod(p) \/ UnlockPeriod(p) PROVE FALSE
    BY <1>5 DEF ReopenPeriod, LockPeriod, UnlockPeriod, Transition
  <1>6. CASE UNCHANGED vars
    BY <1>6 DEF vars, shared
  <1> QED
    BY <1>1, <1>2, <1>3, <1>4, <1>5, <1>6 DEF Next

\* What a posting's commit does to the rows.
LEMMA CommitPostEffect ==
  ASSUME IInv, NEW w \in Worker, NEW e \in EntryId, CommitPost(w, e)
  PROVE  /\ req[w] \in Request /\ e \notin Present
         /\ journal'[e] = [status |-> "POSTED", number |-> number[w], op |-> req[w].op,
                           date |-> req[w].date, key |-> req[w].key, reverses |-> None]
         /\ \A f \in EntryId : f # e => journal'[f] = journal[f]
         /\ Present' = Present \cup {e}
  <1>1. /\ req[w] \in Request /\ e \notin Present
        /\ journal'[e] = [status |-> "POSTED", number |-> number[w], op |-> req[w].op,
                          date |-> req[w].date, key |-> req[w].key, reverses |-> None]
        /\ \A f \in EntryId : f # e => journal'[f] = journal[f]
    BY DEF IInv, TypeOK, SessionOK, CommitPost, PostSteps
  <1> QED
    BY <1>1 DEF Present

\* What a reversal's commit does to the rows.
LEMMA CommitReverseEffect ==
  ASSUME IInv, NEW w \in Worker, NEW m \in EntryId, CommitReverse(w, m), NEW e, e = target[w]
  PROVE  /\ e \in Forward /\ e \in Present /\ m \notin Present /\ m # e
         /\ journal[e] \in Entry /\ journal[e].status = "POSTED"
         /\ journal'[e] = [journal[e] EXCEPT !.status = "REVERSED"]
         /\ journal'[m].status = "POSTED" /\ journal'[m].reverses = e
         /\ \A f \in EntryId : f # m /\ f # e => journal'[f] = journal[f]
         /\ Present' = Present \cup {m}
  <1>1. /\ e \in Forward /\ e \in Present /\ m \notin Present /\ m # e
        /\ journal[e] \in Entry /\ journal[e].status = "POSTED"
    BY PresentIsEntry DEF IInv, MirroredOnce, SessionOK, CommitReverse, ReverseSteps, Forward
  <1>2. /\ journal'[e] = [journal[e] EXCEPT !.status = "REVERSED"]
        /\ journal'[m].status = "POSTED" /\ journal'[m].reverses = e
        /\ \A f \in EntryId : f # m /\ f # e => journal'[f] = journal[f]
    BY <1>1 DEF CommitReverse, IInv, TypeOK, SessionOK, ReverseSteps
  <1>3. journal'[e].status = "REVERSED"
    BY <1>1, <1>2 DEF Entry
  <1>4. \A f \in EntryId : journal'[f].status # "ABSENT" <=> journal[f].status # "ABSENT" \/ f = m
    BY <1>1, <1>2, <1>3
  <1> QED
    BY <1>1, <1>2, <1>4 DEF Present

\* A committed entry is never removed or rewritten, only marked by its mirror.
THEOREM ImmutableHistory == Spec => HistoryIsImmutable
  <1> DEFINE Kept == \A e \in Present :
               \/ journal'[e] = journal[e]
               \/ /\ journal'[e] = [journal[e] EXCEPT !.status = "REVERSED"]
                  /\ \E m \in EntryId \ Present : m \in Present' /\ journal'[m].reverses = e
  <1>1. IInv /\ [Next]_vars => [Kept]_journal
    <2> SUFFICES ASSUME IInv, [Next]_vars, journal' # journal PROVE Kept
      OBVIOUS
    <2>1. \A e \in Present : e \in EntryId
      BY DEF Present
    <2>2. ASSUME NEW w \in Worker, NEW e \in EntryId, CommitPost(w, e) PROVE Kept
      BY <2>1, <2>2, CommitPostEffect
    <2>3. ASSUME NEW w \in Worker, NEW m \in EntryId, CommitReverse(w, m) PROVE Kept
      <3>1. PICK e : e = target[w]
        OBVIOUS
      <3>2. /\ m \notin Present /\ m \in Present' /\ journal'[m].reverses = e
            /\ journal'[e] = [journal[e] EXCEPT !.status = "REVERSED"]
            /\ \A f \in EntryId : f # m /\ f # e => journal'[f] = journal[f]
        BY <2>3, <3>1, CommitReverseEffect
      <3> QED
        BY <2>1, <3>2
    <2> QED
      BY <2>2, <2>3, JournalWriters
  <1> QED
    BY <1>1, Inductive, PTL DEF Spec, HistoryIsImmutable
-----------------------------------------------------------------------------
\* The facts recorded are the forward entries.
LEMMA RecordedIsForward == Abstract!Recorded = Forward
  BY DEF Abstract!Recorded, FactOf, Forward, Present

\* A posting's commit records its fact.
LEMMA CommitPostRecords ==
  ASSUME IInv, NEW w \in Worker, NEW e \in EntryId, CommitPost(w, e)
  PROVE  Abstract!LedgerNext
  <1>1. /\ req[w] \in Request /\ e \notin Present
        /\ journal'[e].status = "POSTED" /\ journal'[e].reverses = None
        /\ journal'[e].op = req[w].op /\ journal'[e].date = req[w].date
        /\ journal'[e].key = req[w].key
        /\ \A f \in EntryId : f # e => journal'[f] = journal[f]
        /\ Present' = Present \cup {e}
    <2>1. /\ journal'[e] = [status |-> "POSTED", number |-> number[w], op |-> req[w].op,
                            date |-> req[w].date, key |-> req[w].key, reverses |-> None]
          /\ req[w] \in Request /\ e \notin Present
          /\ \A f \in EntryId : f # e => journal'[f] = journal[f]
          /\ Present' = Present \cup {e}
      BY CommitPostEffect
    <2> QED
      BY <2>1
  <1>2. \A f \in EntryId : f # e => FactOf(f)' = FactOf(f)
    BY <1>1 DEF FactOf, Forward
  <1>3. FactOf(e)' = [state |-> "LIVE", op |-> req[w].op, date |-> req[w].date, key |-> req[w].key]
    BY <1>1 DEF FactOf, Forward
  <1>4. [f \in EntryId |-> FactOf(f)]' = [[f \in EntryId |-> FactOf(f)] EXCEPT ![e] =
           [state |-> "LIVE", op |-> req[w].op, date |-> req[w].date, key |-> req[w].key]]
    BY <1>2, <1>3
  <1>5. e \notin Abstract!Recorded
    BY <1>1, RecordedIsForward DEF Forward
  <1>6. req[w].key # NoKey => \A g \in Abstract!Recorded : [f \in EntryId |-> FactOf(f)][g].key # req[w].key
    <2> SUFFICES ASSUME req[w].key # NoKey, NEW g \in Forward, FactOf(g).key = req[w].key PROVE FALSE
      BY RecordedIsForward DEF Forward, Present
    <2>1. g \in Present /\ journal[g].key = req[w].key /\ g # None
      BY PostingAssumption DEF FactOf, Forward, Present
    <2>2. req[w].key \in Key /\ records[req[w].key] = g
      BY <1>1, <2>1 DEF Request, IInv, OncePerKey
    <2> QED
      BY <2>1, <2>2 DEF IInv, OncePerKey, HoldsKey, CommitPost
  <1>7. Abstract!Record(e, req[w].op, req[w].date, req[w].key)
    BY <1>4, <1>5, <1>6 DEF Abstract!Record
  <1>8. req[w].op \in Op /\ req[w].date \in Date /\ req[w].key \in Key \cup {NoKey}
    BY <1>1 DEF Request
  <1> QED
    BY <1>7, <1>8 DEF Abstract!LedgerNext

\* A reversal's commit voids its fact; the mirror is not a fact of its own.
LEMMA CommitReverseVoids ==
  ASSUME IInv, NEW w \in Worker, NEW m \in EntryId, CommitReverse(w, m)
  PROVE  Abstract!LedgerNext
  <1>1. PICK e : e = target[w]
    OBVIOUS
  <1>2. /\ e \in EntryId /\ e \in Forward /\ m \notin Present /\ m # e /\ e # None
        /\ journal[e].status = "POSTED"
        /\ journal'[e].status = "REVERSED" /\ journal'[e].op = journal[e].op
        /\ journal'[e].date = journal[e].date /\ journal'[e].key = journal[e].key
        /\ journal'[e].reverses = journal[e].reverses
        /\ journal'[m].reverses = e
        /\ \A f \in EntryId : f # m /\ f # e => journal'[f] = journal[f]
        /\ Present' = Present \cup {m}
    <2>1. /\ e \in Forward /\ e \in Present /\ m \notin Present /\ m # e
          /\ journal[e] \in Entry /\ journal[e].status = "POSTED"
          /\ journal'[e] = [journal[e] EXCEPT !.status = "REVERSED"]
          /\ journal'[m].reverses = e
          /\ \A f \in EntryId : f # m /\ f # e => journal'[f] = journal[f]
          /\ Present' = Present \cup {m}
      BY <1>1, CommitReverseEffect
    <2>2. e \in EntryId /\ e # None
      BY <2>1, PostingAssumption DEF Present
    <2>3. /\ journal'[e].status = "REVERSED" /\ journal'[e].op = journal[e].op
          /\ journal'[e].date = journal[e].date /\ journal'[e].key = journal[e].key
          /\ journal'[e].reverses = journal[e].reverses
      BY <2>1 DEF Entry
    <2> QED
      BY <2>1, <2>2, <2>3
  <1>3. Forward' = Forward
    BY <1>2 DEF Forward, Present
  <1>4. \A f \in EntryId : f # e => FactOf(f)' = FactOf(f)
    BY <1>2, <1>3 DEF FactOf, Forward
  <1>5. FactOf(e) = [state |-> "LIVE", op |-> journal[e].op, date |-> journal[e].date, key |-> journal[e].key]
    BY <1>2 DEF FactOf
  <1>6. FactOf(e)' = [state |-> "VOID", op |-> journal[e].op, date |-> journal[e].date, key |-> journal[e].key]
    BY <1>2, <1>3 DEF FactOf
  <1>7. FactOf(e)' = [FactOf(e) EXCEPT !.state = "VOID"]
    BY <1>5, <1>6
  <1>8. [f \in EntryId |-> FactOf(f)]' = [[f \in EntryId |-> FactOf(f)] EXCEPT ![e].state = "VOID"]
    BY <1>2, <1>4, <1>7
  <1>9. Abstract!Void(e)
    BY <1>2, <1>5, <1>8 DEF Abstract!Void
  <1> QED
    BY <1>2, <1>9 DEF Abstract!LedgerNext

\* The pipeline implements the once-only ledger.
THEOREM PostingImplementsLedger == Spec => ImplementsLedger
  <1>1. Init => Abstract!LedgerInit
    BY DEF Init, Abstract!LedgerInit, Abstract!NoFact, FactOf, Forward, Present, NoEntry
  <1>2. IInv /\ [Next]_vars => [Abstract!LedgerNext]_([e \in EntryId |-> FactOf(e)])
    <2> SUFFICES ASSUME IInv, [Next]_vars
                 PROVE  Abstract!LedgerNext \/ UNCHANGED [e \in EntryId |-> FactOf(e)]
      OBVIOUS
    <2>1. CASE journal' = journal
      BY <2>1 DEF FactOf, Forward, Present
    <2>2. CASE journal' # journal
      BY <2>2, JournalWriters, CommitPostRecords, CommitReverseVoids
    <2> QED
      BY <2>1, <2>2
  <1> QED
    BY <1>1, <1>2, Inductive, PTL DEF Spec, ImplementsLedger, Abstract!LedgerSpec
-----------------------------------------------------------------------------
\* Each step commits at most one entry, so there are finitely many.
LEMMA PresentFinite == Spec => []IsFiniteSet(Present)
  <1>1. Init => IsFiniteSet(Present)
    <2>1. Init => Present = {}
      BY DEF Init, Present, NoEntry
    <2> QED
      BY <2>1, FS_EmptySet
  <1>2. IInv /\ IsFiniteSet(Present) /\ [Next]_vars => IsFiniteSet(Present)'
    <2> SUFFICES ASSUME IInv, IsFiniteSet(Present), [Next]_vars PROVE IsFiniteSet(Present')
      OBVIOUS
    <2>1. CASE journal' = journal
      BY <2>1 DEF Present
    <2>2. CASE journal' # journal
      <3>1. \E e \in EntryId : Present' = Present \cup {e}
        BY <2>2, JournalWriters, CommitPostEffect, CommitReverseEffect
      <3> QED
        BY <3>1, FS_AddElement
    <2> QED
      BY <2>1, <2>2
  <1> QED
    BY <1>1, <1>2, Inductive, PTL DEF Spec

MirrorsSaying(o, d) == {e \in Present \ Forward : journal[e].op = o /\ journal[e].date = d}
ReversedSaying(o, d) ==
  {e \in Forward : journal[e].op = o /\ journal[e].date = d /\ journal[e].status = "REVERSED"}

\* The reversed entries of a content and a date and their mirrors are as many.
LEMMA MirrorsMatch ==
  ASSUME IInv, IsFiniteSet(Present), NEW o, NEW d
  PROVE  Cardinality(MirrorsSaying(o, d)) = Cardinality(ReversedSaying(o, d))
  <1> DEFINE M == MirrorsSaying(o, d)
             R == ReversedSaying(o, d)
             original == [m \in M |-> journal[m].reverses]
  <1>1. IsFiniteSet(M)
    BY FS_Subset DEF MirrorsSaying
  <1>2. \A m \in M : original[m] \in R
    <2> SUFFICES ASSUME NEW m \in M PROVE journal[m].reverses \in R
      OBVIOUS
    <2>1. m \in Present /\ journal[m].reverses # None
      BY DEF Forward, MirrorsSaying
    <2>2. /\ journal[m].reverses \in Forward /\ journal[m].reverses \in Present
          /\ journal[m].op = journal[journal[m].reverses].op
          /\ journal[m].date = journal[journal[m].reverses].date
          /\ m \in Mirrors(journal[m].reverses)
      BY <2>1 DEF IInv, MirroredOnce, Forward, Mirrors
    <2>3. journal[journal[m].reverses].status = "REVERSED"
      BY <2>2 DEF IInv, MirroredOnce
    <2> QED
      BY <2>2, <2>3 DEF MirrorsSaying, ReversedSaying
  <1>3. \A m, n \in M : original[m] = original[n] => m = n
    BY DEF IInv, MirroredOnce, Forward, MirrorsSaying
  <1>4. ASSUME NEW e \in R PROVE \E m \in M : original[m] = e
    <2>1. e \in Present /\ Mirrors(e) # {} /\ e # None
      BY PostingAssumption DEF IInv, MirroredOnce, Forward, Present, ReversedSaying
    <2>2. PICK m \in Present : journal[m].reverses = e
      BY <2>1 DEF Mirrors
    <2>3. /\ m \in Present \ Forward
          /\ journal[m].op = journal[e].op /\ journal[m].date = journal[e].date
      BY <2>1, <2>2 DEF IInv, MirroredOnce, Forward
    <2> QED
      BY <2>2, <2>3 DEF MirrorsSaying, ReversedSaying
  <1>5. original \in Bijection(M, R)
    <2>1. original \in [M -> R]
      BY <1>2
    <2> QED
      BY <1>3, <1>4, <2>1 DEF Bijection, Injection, Surjection, IsInjective
  <1>6. ExistsBijection(M, R)
    BY <1>5 DEF ExistsBijection
  <1> QED
    BY <1>1, <1>6, FS_Bijection

\* For each content and date, the journal's net effect is the number of live
\* facts: what balances.py adds up is what the business posted and kept.
THEOREM BalancesCountLiveFacts == Spec => []BalancesAreLiveFacts
  <1>1. ASSUME IInv, IsFiniteSet(Present) PROVE BalancesAreLiveFacts
    <2> SUFFICES ASSUME NEW o \in Op, NEW d \in Date
                 PROVE  NetEffect(o, d) =
                          Cardinality({e \in Forward : /\ journal[e].status = "POSTED"
                                                       /\ journal[e].op = o
                                                       /\ journal[e].date = d})
      BY DEF BalancesAreLiveFacts
    <2> DEFINE F == {e \in Forward : journal[e].op = o /\ journal[e].date = d}
               M == MirrorsSaying(o, d)
               R == ReversedSaying(o, d)
               L == {e \in Forward : /\ journal[e].status = "POSTED"
                                     /\ journal[e].op = o
                                     /\ journal[e].date = d}
    <2>1. NetEffect(o, d) = Cardinality(F) - Cardinality(M)
      BY DEF NetEffect, MirrorsSaying
    <2>2. Cardinality(M) = Cardinality(R)
      BY <1>1, MirrorsMatch
    <2>3. \A e \in Present : journal[e].status = "POSTED" \/ journal[e].status = "REVERSED"
      BY <1>1, PresentIsEntry DEF Present, IInv, Entry
    <2>4. F = L \cup R /\ L \cap R = {} /\ L \in SUBSET Present /\ R \in SUBSET Present
      BY <2>3 DEF Forward, ReversedSaying
    <2> HIDE DEF F, M, R, L
    <2>5. IsFiniteSet(L) /\ IsFiniteSet(R)
      BY <1>1, <2>4, FS_Subset
    <2>6. Cardinality(F) = Cardinality(L) + Cardinality(R)
      <3>1. Cardinality(L \cup R) = Cardinality(L) + Cardinality(R) - Cardinality(L \cap R)
        BY <2>5, FS_Union
      <3>2. Cardinality(L \cap R) = 0
        BY <2>4, FS_EmptySet
      <3> QED
        BY <2>4, <2>5, <3>1, <3>2, FS_CardinalityType
    <2>7. Cardinality(L) \in Nat /\ Cardinality(R) \in Nat
      BY <2>5, FS_CardinalityType
    <2>8. NetEffect(o, d) = Cardinality(L)
      BY <2>1, <2>2, <2>6, <2>7
    <2> QED
      BY <2>8 DEF L
  <1> QED
    BY <1>1, Inductive, PresentFinite, PTL
-----------------------------------------------------------------------------
(* What closing or locking a fiscal period is worth.  The gate reads the    *)
(* period without a lock, so the two properties speak of the sessions past  *)
(* it.                                                                      *)
PastPosting == {"reserving", "persisting", "rechecking"}
PastReversing == {"r_drawing", "r_persisting"}

\* A date of a closed or locked period passes no gate.
LEMMA ClosedIsShut ==
  ASSUME NEW p \in Period, periods[p] \in {"CLOSED", "LOCKED"}, NEW d \in Span[p]
  PROVE  ~GateOpen(d)
  BY DEF GateOpen, Covering

\* No step changes the date of a committed entry.
LEMMA DatesAreKept ==
  ASSUME IInv, [Next]_vars, NEW e \in Present
  PROVE  journal'[e].date = journal[e].date
  <1>1. e \in EntryId
    BY DEF Present
  <1>2. ASSUME NEW w \in Worker, NEW f \in EntryId, CommitPost(w, f)
        PROVE  journal'[e].date = journal[e].date
    BY <1>1, <1>2, CommitPostEffect
  <1>3. ASSUME NEW w \in Worker, NEW m \in EntryId, CommitReverse(w, m)
        PROVE  journal'[e].date = journal[e].date
    <2>1. PICK t : t = target[w]
      OBVIOUS
    <2>2. /\ m # e /\ journal[t] \in Entry
          /\ journal'[t] = [journal[t] EXCEPT !.status = "REVERSED"]
          /\ \A f \in EntryId : f # m /\ f # t => journal'[f] = journal[f]
      BY <1>3, <2>1, CommitReverseEffect
    <2>3. journal'[t].date = journal[t].date
      BY <2>2 DEF Entry
    <2> QED
      BY <1>1, <2>2, <2>3
  <1> QED
    BY <1>2, <1>3, JournalWriters

\* How a session comes to be past a gate: through it in this step, or earlier.
ThroughGate(v) ==
  /\ pc'[v] \in PastPosting =>
       req'[v] = req[v] /\ (CheckGate(v) \/ pc[v] \in PastPosting)
  /\ pc'[v] \in PastReversing =>
       target'[v] = target[v] /\ (CheckReverseGate(v) \/ pc[v] \in PastReversing)

\* What a step of session w leaves of another session.
LEMMA OthersUntouched ==
  ASSUME IInv, NEW w \in Worker, NEW v \in Worker, v # w,
         Begin(w) \/ PostStep(w) \/ ReverseStep(w) \/ PeriodStep(w) \/ Abort(w)
  PROVE  pc'[v] = pc[v] /\ req'[v] = req[v] /\ target'[v] = target[v]
  <1>1. CASE Begin(w)
    BY <1>1 DEF Begin, BeginPost, BeginReverse, BeginCreate, BeginClose, Goto, IInv, TypeOK
  <1>2. CASE PostStep(w)
    BY <1>2 DEF PostStep, DrawNumber, CheckGate, RefuseGate, ReserveKey, ReturnOriginal,
       RefuseMismatch, CommitPost, RefuseNumber, GiveKeyBack, RefuseKeyedNumber, Rollback,
       Finish, Goto, IInv, TypeOK
  <1>3. CASE ReverseStep(w)
    BY <1>3 DEF ReverseStep, CheckReverseGate, RefuseReverseGate, DrawReverseNumber,
       CommitReverse, Rollback, Finish, Goto, IInv, TypeOK
  <1>4. CASE PeriodStep(w) \/ Abort(w)
    BY <1>4 DEF PeriodStep, CommitCreate, CommitClose, Abort, Rollback, Finish, IInv, TypeOK
  <1> QED
    BY <1>1, <1>2, <1>3, <1>4

\* The only ways past a gate are the two that read it.
LEMMA GateIsTheOnlyWay ==
  ASSUME IInv, [Next]_vars, NEW v \in Worker
  PROVE  ThroughGate(v)
  <1>1. CASE Begin(v)
    BY <1>1 DEF Begin, BeginPost, BeginReverse, BeginCreate, BeginClose, Goto, IInv, TypeOK,
       ThroughGate, PastPosting, PastReversing
  <1>2. ASSUME Finish(v) PROVE ThroughGate(v)
    BY <1>2 DEF Finish, IInv, TypeOK, ThroughGate, PastPosting, PastReversing
  <1>3. CASE PostStep(v)
    <2>1. CASE DrawNumber(v)
      BY <2>1 DEF DrawNumber, Goto, IInv, TypeOK, ThroughGate, PastPosting, PastReversing
    <2>2. CASE CheckGate(v)
      BY <2>2 DEF CheckGate, Goto, IInv, TypeOK, ThroughGate, PastPosting, PastReversing
    <2>3. CASE ReserveKey(v) \/ GiveKeyBack(v)
      BY <2>3 DEF ReserveKey, GiveKeyBack, Goto, IInv, TypeOK, ThroughGate, PastPosting,
         PastReversing
    <2>4. CASE ~(DrawNumber(v) \/ CheckGate(v) \/ ReserveKey(v) \/ GiveKeyBack(v))
      <3>1. Finish(v)
        BY <1>3, <2>4 DEF PostStep, RefuseGate, ReturnOriginal, RefuseMismatch, CommitPost,
           RefuseNumber, RefuseKeyedNumber, Rollback
      <3> QED
        BY <3>1, <1>2
    <2> QED
      BY <2>1, <2>2, <2>3, <2>4
  <1>4. CASE ReverseStep(v)
    <2>1. CASE CheckReverseGate(v)
      BY <2>1 DEF CheckReverseGate, Goto, IInv, TypeOK, ThroughGate, PastPosting, PastReversing
    <2>2. CASE DrawReverseNumber(v)
      BY <2>2 DEF DrawReverseNumber, Goto, IInv, TypeOK, ThroughGate, PastPosting, PastReversing
    <2>3. CASE ~(CheckReverseGate(v) \/ DrawReverseNumber(v))
      <3>1. Finish(v)
        BY <1>4, <2>3 DEF ReverseStep, RefuseReverseGate, CommitReverse, Rollback
      <3> QED
        BY <3>1, <1>2
    <2> QED
      BY <2>1, <2>2, <2>3
  <1>5. CASE PeriodStep(v) \/ Abort(v)
    BY <1>5, <1>2 DEF PeriodStep, CommitCreate, CommitClose, Abort, Rollback
  <1>6. ASSUME NEW w \in Worker, w # v,
               Begin(w) \/ PostStep(w) \/ ReverseStep(w) \/ PeriodStep(w) \/ Abort(w)
        PROVE  ThroughGate(v)
    BY <1>6, OthersUntouched DEF ThroughGate
  <1>7. ASSUME NEW p \in Period, ReopenPeriod(p) \/ LockPeriod(p) \/ UnlockPeriod(p)
        PROVE  ThroughGate(v)
    BY <1>7 DEF ReopenPeriod, LockPeriod, UnlockPeriod, Transition, session, ThroughGate
  <1>8. CASE UNCHANGED vars
    BY <1>8 DEF vars, session, ThroughGate
  <1> QED
    BY <1>1, <1>3, <1>4, <1>5, <1>6, <1>7, <1>8 DEF Next

\* A session that reads the gate of a closed period does not get past it, and
\* one that is past it with a date of the period was so before.
LEMMA NoneEnters ==
  ASSUME IInv, [Next]_vars, NEW p \in Period, periods[p] \in {"CLOSED", "LOCKED"},
         NEW v \in PastGate(p)'
  PROVE  v \in PastGate(p)
  <1>1. v \in Worker /\ ThroughGate(v)
    BY GateIsTheOnlyWay DEF PastGate
  <1>2. CASE pc'[v] \in PastPosting /\ req'[v].date \in Span[p]
    <2>1. req[v].date \in Span[p] /\ (CheckGate(v) \/ pc[v] \in PastPosting)
      BY <1>1, <1>2 DEF ThroughGate
    <2>2. ~CheckGate(v)
      BY <2>1, ClosedIsShut DEF CheckGate
    <2> QED
      BY <1>1, <2>1, <2>2 DEF PastGate, PastPosting
  <1>3. CASE pc'[v] \in PastReversing /\ journal'[target'[v]].date \in Span[p]
    <2>1. target'[v] = target[v] /\ (CheckReverseGate(v) \/ pc[v] \in PastReversing)
      BY <1>1, <1>3 DEF ThroughGate
    <2>2. target[v] \in Present
      BY <1>1, <2>1 DEF CheckReverseGate, PastReversing, ReverseSteps, IInv, MirroredOnce, Forward
    <2>3. journal[target[v]].date \in Span[p]
      BY <1>3, <2>1, <2>2, DatesAreKept
    <2>4. ~CheckReverseGate(v)
      BY <2>3, ClosedIsShut DEF CheckReverseGate
    <2> QED
      BY <1>1, <2>1, <2>3, <2>4 DEF PastGate, PastReversing
  <1> QED
    BY <1>2, <1>3 DEF PastGate, PastPosting, PastReversing

\* While a period is closed or locked no further session gets past its gate.
THEOREM GateStaysShut == Spec => ClosedGateHolds
  <1> DEFINE Held == \A p \in Period :
               periods[p] \in {"CLOSED", "LOCKED"} /\ periods'[p] = periods[p]
                 => PastGate(p)' \subseteq PastGate(p)
  <1>1. IInv /\ [Next]_vars => [Held]_vars
    BY NoneEnters
  <1> QED
    BY <1>1, Inductive, PTL DEF Spec, ClosedGateHolds
-----------------------------------------------------------------------------
\* A commit adds to a period only what a session past its gate brings.
LEMMA OnlyPastGateWrites ==
  ASSUME IInv, [Next]_vars, NEW p \in Period, PastGate(p) = {}
  PROVE  EntriesIn(p)' = EntriesIn(p)
  <1>1. \A e \in Present : journal'[e].date = journal[e].date
    BY DatesAreKept
  <1>2. ASSUME NEW w \in Worker, NEW e \in EntryId, CommitPost(w, e)
        PROVE  EntriesIn(p)' = EntriesIn(p)
    <2>1. /\ journal'[e] = [status |-> "POSTED", number |-> number[w], op |-> req[w].op,
                            date |-> req[w].date, key |-> req[w].key, reverses |-> None]
          /\ e \notin Present /\ Present' = Present \cup {e}
      BY <1>2, CommitPostEffect
    <2>2. journal'[e].date \notin Span[p]
      BY <1>2, <2>1 DEF PastGate, CommitPost
    <2> QED
      BY <1>1, <2>1, <2>2 DEF EntriesIn
  <1>3. ASSUME NEW w \in Worker, NEW m \in EntryId, CommitReverse(w, m)
        PROVE  EntriesIn(p)' = EntriesIn(p)
    <2>1. PICK t : t = target[w]
      OBVIOUS
    <2>2. m \notin Present /\ Present' = Present \cup {m} /\ m # t
      BY <1>3, <2>1, CommitReverseEffect
    <2>3. journal'[m].date = journal[t].date
      BY <1>3, <2>1, <2>2 DEF CommitReverse, IInv, TypeOK
    <2>4. journal[t].date \notin Span[p]
      BY <1>3, <2>1 DEF PastGate, CommitReverse
    <2> QED
      BY <1>1, <2>2, <2>3, <2>4 DEF EntriesIn
  <1>4. CASE journal' = journal
    BY <1>4 DEF EntriesIn, Present
  <1> QED
    BY <1>2, <1>3, <1>4, JournalWriters

\* Once the sessions past its gate have ended, a closed period is fixed.
THEOREM ClosedContentsAreFixed == Spec => DrainedPeriodIsFixed
  <1> DEFINE Fixed == \A p \in Period :
               periods[p] \in {"CLOSED", "LOCKED"} /\ PastGate(p) = {}
                 => EntriesIn(p)' = EntriesIn(p)
  <1>1. IInv /\ [Next]_vars => [Fixed]_vars
    BY OnlyPastGateWrites
  <1> QED
    BY <1>1, Inductive, PTL DEF Spec, DrainedPeriodIsFixed
=============================================================================
