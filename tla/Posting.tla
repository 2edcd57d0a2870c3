------------------------------ MODULE Posting ------------------------------
(***************************************************************************)
(* The posting pipeline of the ERP: post_journal, reverse_journal, the     *)
(* JE number series, the idempotency records and the fiscal-period gate    *)
(* with its lifecycle, run by concurrent database sessions.                *)
(*                                                                         *)
(* A session executes one service call as one READ COMMITTED transaction.  *)
(* Each action is what happens between two points at which another session *)
(* can be seen: a read of committed rows, a row lock, a commit.  What a    *)
(* transaction has not committed is in the session's own variables; the    *)
(* locks it holds follow from where it stands.                             *)
(***************************************************************************)
EXTENDS Naturals, FiniteSets

CONSTANTS
  Worker,     \* database sessions
  EntryId,    \* journal entry rows the instance may create
  Op,         \* what a posting says: lines, source, currency, rate, creator
  Balanced,   \* those whose debits equal their credits, with a positive total
  Key, NoKey, \* idempotency keys, and a call without one
  Date, YearOf,
  Period, Span,
  Numbering,  \* the ways callers obtain the journal number, see NumberingMode
  Supplied,   \* numbers callers make themselves (document hashes)
  MaxNumber,  \* bound: highest value drawn from the number series
  None

\* SUPPLIED: the caller brings a number.  INSIDE: drawn by next_document_number
\* inside the transaction that posts.  BEFORE: drawn and committed ahead of it.
NumberingMode == {"SUPPLIED", "INSIDE", "BEFORE"}

ASSUME PostingAssumption ==
  /\ Balanced \subseteq Op
  /\ NoKey \notin Key
  /\ None \notin EntryId
  /\ YearOf \in [Date -> Nat \ {0}]
  /\ Span \in [Period -> SUBSET Date]
  /\ Numbering \subseteq NumberingMode
  /\ Supplied \subseteq Nat
  /\ MaxNumber \in Nat

VARIABLES
  journal,    \* JournalEntry rows
  records,    \* IdempotencyRecord rows: the entry a key stands for
  seq,        \* the NumberSequence row of document type JE
  periods,    \* FiscalPeriod.status
  verified,   \* entries checked by the close now in force
  audit,      \* AuditEvent rows of the pipeline
  pc, req, number, target, period, seen,  \* the sessions' transactions
  returned    \* <<request, entry>> for each successful keyed call

shared == <<journal, records, seq, periods, verified, audit>>
session == <<pc, req, number, target, period, seen>>
vars == <<shared, session, returned>>
-----------------------------------------------------------------------------
(* Data *)

\* Number series 0 holds the supplied numbers, series y the numbers of year y.
Number == Nat \X Nat

Request ==
  [op: Op, date: Date, key: Key \cup {NoKey}, numbering: Numbering, supplied: Supplied]

NoEntry == [status |-> "ABSENT"]

Entry ==
  [status: {"POSTED", "REVERSED"}, number: Number, op: Op, date: Date,
   key: Key \cup {NoKey}, reverses: EntryId \cup {None}]

PostSteps == {"drawing", "gating", "reserving", "persisting", "rechecking"}
ReverseSteps == {"r_gating", "r_drawing", "r_persisting"}
PeriodSteps == {"closing", "creating"}

Present == {e \in EntryId : journal[e].status # "ABSENT"}
Mirrors(e) == {m \in Present : journal[m].reverses = e}

TypeOK ==
  /\ journal \in [EntryId -> Entry \cup {NoEntry}]
  /\ records \in [Key -> EntryId \cup {None}]
  /\ seq \in [year: Nat, next: Nat]
  /\ periods \in [Period -> {"ABSENT", "OPEN", "CLOSED", "LOCKED"}]
  /\ verified \in [Period -> SUBSET EntryId]
  /\ audit \subseteq ({"POST", "REVERSE"} \X EntryId)
  /\ pc \in [Worker -> {"idle"} \cup PostSteps \cup ReverseSteps \cup PeriodSteps]
  /\ req \in [Worker -> Request \cup {None}]
  /\ number \in [Worker -> Number \cup {None}]
  /\ target \in [Worker -> EntryId \cup {None}]
  /\ period \in [Worker -> Period \cup {None}]
  /\ seen \in [Worker -> SUBSET EntryId]
  /\ returned \subseteq [req: Request, entry: EntryId]

Init ==
  /\ journal = [e \in EntryId |-> NoEntry]
  /\ records = [k \in Key |-> None]
  /\ seq = [year |-> 0, next |-> 1]
  /\ periods = [p \in Period |-> "ABSENT"]
  /\ verified = [p \in Period |-> {}]
  /\ audit = {}
  /\ pc = [w \in Worker |-> "idle"]
  /\ req = [w \in Worker |-> None]
  /\ number = [w \in Worker |-> None]
  /\ target = [w \in Worker |-> None]
  /\ period = [w \in Worker |-> None]
  /\ seen = [w \in Worker |-> {}]
  /\ returned = {}
-----------------------------------------------------------------------------
(* Locks and reads *)

\* Sessions holding the lock on the number series row.
HoldsSeries(w) ==
  \/ pc[w] \in PostSteps \ {"drawing"} /\ req[w].numbering = "INSIDE"
  \/ pc[w] = "r_persisting"

SeriesFree == \A w \in Worker : ~HoldsSeries(w)

\* Sessions that inserted the record of key k and have not committed.
HoldsKey(w, k) == pc[w] = "persisting" /\ req[w].key = k

HoldsEntry(w, e) == pc[w] \in ReverseSteps /\ target[w] = e

HoldsPeriod(w, p) == pc[w] = "closing" /\ period[w] = p

\* next_document_number: one row per type, restarted when the year changes.
NextNumber(y) == IF seq.year = y THEN <<y, seq.next>> ELSE <<y, 1>>

AdvancedTo(n) == [year |-> n[1], next |-> n[2] + 1]

\* assert_posting_date_open
Covering(d) == {p \in Period : periods[p] # "ABSENT" /\ d \in Span[p]}

\* Mutant: only a CLOSED period stops a posting, not a LOCKED one.
GateNotClosed(d) ==
  \/ \E p \in Period : Covering(d) = {p} /\ periods[p] # "CLOSED"
  \/ \A p \in Period : periods[p] = "ABSENT"

GateOpen(d) ==
  \/ \E p \in Period : Covering(d) = {p} /\ periods[p] = "OPEN"
  \/ \A p \in Period : periods[p] = "ABSENT"

NumberTaken(n) == \E e \in Present : journal[e].number = n

\* The transaction ends; what the session held is gone.
Finish(w) ==
  /\ pc' = [pc EXCEPT ![w] = "idle"]
  /\ req' = [req EXCEPT ![w] = None]
  /\ number' = [number EXCEPT ![w] = None]
  /\ target' = [target EXCEPT ![w] = None]
  /\ period' = [period EXCEPT ![w] = None]
  /\ seen' = [seen EXCEPT ![w] = {}]

Rollback(w) == Finish(w) /\ UNCHANGED <<shared, returned>>

Goto(w, step) == pc' = [pc EXCEPT ![w] = step]
-----------------------------------------------------------------------------
(* post_journal *)

BeginPost(w, r) ==
  /\ pc[w] = "idle"
  /\ Goto(w, IF r.numbering = "SUPPLIED" THEN "gating" ELSE "drawing")
  /\ req' = [req EXCEPT ![w] = r]
  /\ number' = [number EXCEPT ![w] = IF r.numbering = "SUPPLIED" THEN <<0, r.supplied>> ELSE None]
  /\ UNCHANGED <<shared, returned, target, period, seen>>

DrawNumber(w) ==
  /\ pc[w] = "drawing"
  /\ SeriesFree
  /\ LET n == NextNumber(YearOf[req[w].date])
     IN /\ n[2] <= MaxNumber
        /\ number' = [number EXCEPT ![w] = n]
        /\ seq' = IF req[w].numbering = "BEFORE" THEN AdvancedTo(n) ELSE seq
  /\ Goto(w, "gating")
  /\ UNCHANGED <<journal, records, periods, verified, audit, returned, req, target, period, seen>>

\* The lines are validated and the period is read, not locked.
CheckGate(w) ==
  /\ pc[w] = "gating"
  /\ req[w].op \in Balanced
  /\ GateOpen(req[w].date)
  /\ Goto(w, IF req[w].key = NoKey THEN "persisting" ELSE "reserving")
  /\ UNCHANGED <<shared, returned, req, number, target, period, seen>>

RefuseGate(w) ==
  /\ pc[w] = "gating"
  /\ req[w].op \notin Balanced \/ ~GateOpen(req[w].date)
  /\ Rollback(w)

\* Mutant: the key is checked against committed records only.
ReserveKeyUnlocked(w) ==
  /\ pc[w] = "reserving"
  /\ records[req[w].key] = None
  /\ Goto(w, "persisting")
  /\ UNCHANGED <<shared, returned, req, number, target, period, seen>>

\* Mutant: a key already in use is reserved again.
ReserveKeyAgain(w) ==
  /\ pc[w] = "reserving"
  /\ \A v \in Worker : ~HoldsKey(v, req[w].key)
  /\ Goto(w, "persisting")
  /\ UNCHANGED <<shared, returned, req, number, target, period, seen>>

\* idempotent_operation inserts the record; an uncommitted one is waited for.
ReserveKey(w) ==
  /\ pc[w] = "reserving"
  /\ \A v \in Worker : ~HoldsKey(v, req[w].key)
  /\ records[req[w].key] = None
  /\ Goto(w, "persisting")
  /\ UNCHANGED <<shared, returned, req, number, target, period, seen>>

\* Mutant: the fingerprint leaves the contents out.
NumberAndDateOnly(w, e) ==
  /\ journal[e].number = number[w]
  /\ journal[e].date = req[w].date

\* _resolve_idempotent_retry: the stored fingerprint is the hash of the
\* entry's number, date and contents, which never change.
SameFingerprint(w, e) ==
  /\ journal[e].number = number[w]
  /\ journal[e].date = req[w].date
  /\ journal[e].op = req[w].op

ReturnOriginal(w) ==
  /\ pc[w] \in {"reserving", "rechecking"}
  /\ LET e == records[req[w].key]
     IN /\ e # None
        /\ SameFingerprint(w, e)
        /\ returned' = returned \cup {[req |-> req[w], entry |-> e]}
  /\ seq' = IF req[w].numbering = "INSIDE" THEN AdvancedTo(number[w]) ELSE seq
  /\ Finish(w)
  /\ UNCHANGED <<journal, records, periods, verified, audit>>

RefuseMismatch(w) ==
  /\ pc[w] \in {"reserving", "rechecking"}
  /\ LET e == records[req[w].key] IN e # None /\ ~SameFingerprint(w, e)
  /\ Rollback(w)

\* Mutant: journal numbers without their unique constraint.
CommitPostAnyNumber(w, e) ==
  /\ pc[w] = "persisting"
  /\ e \notin Present
  /\ journal' = [journal EXCEPT ![e] =
       [status |-> "POSTED", number |-> number[w], op |-> req[w].op,
        date |-> req[w].date, key |-> req[w].key, reverses |-> None]]
  /\ records' = IF req[w].key = NoKey THEN records
                ELSE [records EXCEPT ![req[w].key] = e]
  /\ seq' = IF req[w].numbering = "INSIDE" THEN AdvancedTo(number[w]) ELSE seq
  /\ audit' = audit \cup {<<"POST", e>>}
  /\ returned' = returned
  /\ Finish(w)
  /\ UNCHANGED <<periods, verified>>

\* Mutant: a call that brought its number locks the number series after its key.
CommitPostInSeries(w, e) ==
  /\ pc[w] = "persisting"
  /\ req[w].numbering = "INSIDE" \/ SeriesFree
  /\ e \notin Present
  /\ ~NumberTaken(number[w])
  /\ journal' = [journal EXCEPT ![e] =
       [status |-> "POSTED", number |-> number[w], op |-> req[w].op,
        date |-> req[w].date, key |-> req[w].key, reverses |-> None]]
  /\ records' = IF req[w].key = NoKey THEN records
                ELSE [records EXCEPT ![req[w].key] = e]
  /\ seq' = IF req[w].numbering = "INSIDE" THEN AdvancedTo(number[w]) ELSE seq
  /\ audit' = audit \cup {<<"POST", e>>}
  /\ returned' = IF req[w].key = NoKey THEN returned
                 ELSE returned \cup {[req |-> req[w], entry |-> e]}
  /\ Finish(w)
  /\ UNCHANGED <<periods, verified>>

\* _persist_entry, the record's body, the audit event and the commit.
CommitPost(w, e) ==
  /\ pc[w] = "persisting"
  /\ e \notin Present
  /\ ~NumberTaken(number[w])
  /\ journal' = [journal EXCEPT ![e] =
       [status |-> "POSTED", number |-> number[w], op |-> req[w].op,
        date |-> req[w].date, key |-> req[w].key, reverses |-> None]]
  /\ records' = IF req[w].key = NoKey THEN records
                ELSE [records EXCEPT ![req[w].key] = e]
  /\ seq' = IF req[w].numbering = "INSIDE" THEN AdvancedTo(number[w]) ELSE seq
  /\ audit' = audit \cup {<<"POST", e>>}
  /\ returned' = IF req[w].key = NoKey THEN returned
                 ELSE returned \cup {[req |-> req[w], entry |-> e]}
  /\ Finish(w)
  /\ UNCHANGED <<periods, verified>>

\* The unique constraint on JournalEntry.number, met by a call without a key.
RefuseNumber(w) ==
  /\ pc[w] \in {"persisting", "r_persisting"}
  /\ NumberTaken(number[w])
  /\ pc[w] = "persisting" => req[w].key = NoKey
  /\ Rollback(w)

\* Met by a keyed call, it looks like a key in use: the savepoint gives the key
\* back, and the call looks whether the key now has a record after all.
GiveKeyBack(w) ==
  /\ pc[w] = "persisting"
  /\ req[w].key # NoKey
  /\ NumberTaken(number[w])
  /\ Goto(w, "rechecking")
  /\ UNCHANGED <<shared, returned, req, number, target, period, seen>>

RefuseKeyedNumber(w) ==
  /\ pc[w] = "rechecking"
  /\ records[req[w].key] = None
  /\ Rollback(w)
-----------------------------------------------------------------------------
(* reverse_journal *)

\* Mutant: a reversal can itself be reversed.
BeginReverseOfAny(w, e) ==
  /\ pc[w] = "idle"
  /\ \A v \in Worker : ~HoldsEntry(v, e)
  /\ journal[e].status = "POSTED"
  /\ Goto(w, "r_gating")
  /\ target' = [target EXCEPT ![w] = e]
  /\ UNCHANGED <<shared, returned, req, number, period, seen>>

BeginReverse(w, e) ==
  /\ pc[w] = "idle"
  /\ \A v \in Worker : ~HoldsEntry(v, e)
  /\ journal[e].status = "POSTED"
  /\ journal[e].reverses = None
  /\ Goto(w, "r_gating")
  /\ target' = [target EXCEPT ![w] = e]
  /\ UNCHANGED <<shared, returned, req, number, period, seen>>

CheckReverseGate(w) ==
  /\ pc[w] = "r_gating"
  /\ GateOpen(journal[target[w]].date)
  /\ Goto(w, "r_drawing")
  /\ UNCHANGED <<shared, returned, req, number, target, period, seen>>

RefuseReverseGate(w) ==
  /\ pc[w] = "r_gating"
  /\ ~GateOpen(journal[target[w]].date)
  /\ Rollback(w)

DrawReverseNumber(w) ==
  /\ pc[w] = "r_drawing"
  /\ SeriesFree
  /\ LET n == NextNumber(YearOf[journal[target[w]].date])
     IN n[2] <= MaxNumber /\ number' = [number EXCEPT ![w] = n]
  /\ Goto(w, "r_persisting")
  /\ UNCHANGED <<shared, returned, req, target, period, seen>>

\* Mutant: the reversal writes no audit event.
CommitReverseSilently(w, m) ==
  LET e == target[w]
  IN /\ pc[w] = "r_persisting"
     /\ m \notin Present
     /\ ~NumberTaken(number[w])
     /\ journal' = [journal EXCEPT
          ![e].status = "REVERSED",
          ![m] = [status |-> "POSTED", number |-> number[w], op |-> journal[e].op,
                  date |-> journal[e].date, key |-> NoKey, reverses |-> e]]
     /\ seq' = AdvancedTo(number[w])
     /\ Finish(w)
     /\ UNCHANGED <<records, periods, verified, audit, returned>>

\* Mutant: the mirror is dated when it is made.
CommitReverseAnyDay(w, m) ==
  LET e == target[w]
  IN /\ pc[w] = "r_persisting"
     /\ m \notin Present
     /\ ~NumberTaken(number[w])
     /\ \E d \in Date : journal' = [journal EXCEPT
          ![e].status = "REVERSED",
          ![m] = [status |-> "POSTED", number |-> number[w], op |-> journal[e].op,
                  date |-> d, key |-> NoKey, reverses |-> e]]
     /\ seq' = AdvancedTo(number[w])
     /\ audit' = audit \cup {<<"REVERSE", e>>}
     /\ Finish(w)
     /\ UNCHANGED <<records, periods, verified, returned>>

\* The mirror entry m, the original's status, the audit event and the commit.
CommitReverse(w, m) ==
  LET e == target[w]
  IN /\ pc[w] = "r_persisting"
     /\ m \notin Present
     /\ ~NumberTaken(number[w])
     /\ journal' = [journal EXCEPT
          ![e].status = "REVERSED",
          ![m] = [status |-> "POSTED", number |-> number[w], op |-> journal[e].op,
                  date |-> journal[e].date, key |-> NoKey, reverses |-> e]]
     /\ seq' = AdvancedTo(number[w])
     /\ audit' = audit \cup {<<"REVERSE", e>>}
     /\ Finish(w)
     /\ UNCHANGED <<records, periods, verified, returned>>
-----------------------------------------------------------------------------
(* Fiscal periods *)

\* create_period looks for a clash, then inserts; nothing is locked.
BeginCreate(w, p) ==
  /\ pc[w] = "idle"
  /\ periods[p] = "ABSENT"
  /\ \A v \in Worker : ~(pc[v] = "creating" /\ period[v] = p)  \* a row of its own
  /\ \A q \in Period : periods[q] # "ABSENT" => Span[q] \cap Span[p] = {}
  /\ Goto(w, "creating")
  /\ period' = [period EXCEPT ![w] = p]
  /\ UNCHANGED <<shared, returned, req, number, target, seen>>

CommitCreate(w) ==
  /\ pc[w] = "creating"
  /\ periods' = [periods EXCEPT ![period[w]] = "OPEN"]
  /\ Finish(w)
  /\ UNCHANGED <<journal, records, seq, verified, audit, returned>>

EntriesIn(p) == {e \in Present : journal[e].date \in Span[p]}

\* close_period locks the period row and verifies the range.
BeginClose(w, p) ==
  /\ pc[w] = "idle"
  /\ \A v \in Worker : ~HoldsPeriod(v, p)
  /\ periods[p] = "OPEN"
  /\ \A e \in EntriesIn(p) : journal[e].op \in Balanced
  /\ Goto(w, "closing")
  /\ period' = [period EXCEPT ![w] = p]
  /\ seen' = [seen EXCEPT ![w] = EntriesIn(p)]
  /\ UNCHANGED <<shared, returned, req, number, target>>

CommitClose(w) ==
  /\ pc[w] = "closing"
  /\ periods' = [periods EXCEPT ![period[w]] = "CLOSED"]
  /\ verified' = [verified EXCEPT ![period[w]] = seen[w]]
  /\ Finish(w)
  /\ UNCHANGED <<journal, records, seq, audit, returned>>

\* reopen_period, lock_period and unlock_period: one row, locked and rewritten.
Transition(p, from, to) ==
  /\ \A v \in Worker : ~HoldsPeriod(v, p)
  /\ periods[p] = from
  /\ periods' = [periods EXCEPT ![p] = to]
  /\ verified' = [verified EXCEPT ![p] = {}]
  /\ UNCHANGED <<journal, records, seq, audit, session, returned>>

ReopenPeriod(p) == Transition(p, "CLOSED", "OPEN")
LockPeriod(p) == Transition(p, "OPEN", "LOCKED")
UnlockPeriod(p) == Transition(p, "LOCKED", "OPEN")
-----------------------------------------------------------------------------
\* A crash, a lost connection or an error in the caller's own transaction.
Abort(w) == pc[w] # "idle" /\ Rollback(w)

PostStep(w) ==
  \/ DrawNumber(w) \/ CheckGate(w) \/ RefuseGate(w)
  \/ ReserveKey(w) \/ ReturnOriginal(w) \/ RefuseMismatch(w)
  \/ \E e \in EntryId : CommitPost(w, e)
  \/ RefuseNumber(w) \/ GiveKeyBack(w) \/ RefuseKeyedNumber(w)

ReverseStep(w) ==
  \/ CheckReverseGate(w) \/ RefuseReverseGate(w) \/ DrawReverseNumber(w)
  \/ \E m \in EntryId : CommitReverse(w, m)

PeriodStep(w) == CommitCreate(w) \/ CommitClose(w)

Begin(w) ==
  \/ \E r \in Request : BeginPost(w, r)
  \/ \E e \in EntryId : BeginReverse(w, e)
  \/ \E p \in Period : BeginCreate(w, p) \/ BeginClose(w, p)

Next ==
  \/ \E w \in Worker :
       Begin(w) \/ PostStep(w) \/ ReverseStep(w) \/ PeriodStep(w) \/ Abort(w)
  \/ \E p \in Period : ReopenPeriod(p) \/ LockPeriod(p) \/ UnlockPeriod(p)

Spec == Init /\ [][Next]_vars

\* A transaction that can go on does; row locks are granted in turn.
Fairness ==
  \A w \in Worker : SF_vars(PostStep(w)) /\ SF_vars(ReverseStep(w)) /\ WF_vars(PeriodStep(w))

FairSpec == Spec /\ Fairness
=============================================================================
