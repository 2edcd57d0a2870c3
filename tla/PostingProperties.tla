------------------------- MODULE PostingProperties -------------------------
(* What the posting pipeline guarantees, and what it does not. *)
EXTENDS Posting

\* A forward entry is a posted business document, a mirror is its reversal.
Forward == {e \in Present : journal[e].reverses = None}

\* The business facts the journal carries, as Ledger.tla sees them.
FactOf(e) ==
  IF e \notin Forward THEN [state |-> "NONE"]
  ELSE [state |-> IF journal[e].status = "POSTED" THEN "LIVE" ELSE "VOID",
        op |-> journal[e].op, date |-> journal[e].date, key |-> journal[e].key]

Abstract == INSTANCE Ledger WITH FactId <- EntryId, fact <- [e \in EntryId |-> FactOf(e)]

\* Retried, concurrent, aborted and reversed submissions together implement
\* the once-only ledger of Ledger.tla (accounting/services.py post_journal,
\* reverse_journal).
ImplementsLedger == Abstract!LedgerSpec
-----------------------------------------------------------------------------
\* An idempotency key stands for at most one committed entry, its record
\* names that entry, and no session can be about to commit a second one.
OncePerKey ==
  /\ \A e \in Present : journal[e].key # NoKey => records[journal[e].key] = e
  /\ \A k \in Key : records[k] # None =>
       /\ records[k] \in Present
       /\ journal[records[k]].key = k
       /\ \A w \in Worker : ~HoldsKey(w, k)
  /\ \A k \in Key, v, w \in Worker : HoldsKey(v, k) /\ HoldsKey(w, k) => v = w

\* Whatever the retries, all successful answers to one key name one entry, and
\* that entry says what each of the answered requests said.
RepliesAgree ==
  \A r1, r2 \in returned :
    r1.req.key = r2.req.key =>
      /\ r1.entry = r2.entry
      /\ journal[r1.entry].op = r1.req.op
      /\ journal[r1.entry].date = r1.req.date

\* An entry is REVERSED exactly when one mirror offsets it; the mirror has its
\* contents and date and is itself never reversed.  Sessions reversing one
\* entry exclude each other.
MirroredOnce ==
  /\ \A e \in Present : journal[e].status = "REVERSED" <=> Mirrors(e) # {}
  /\ \A m1, m2 \in Present :
       journal[m1].reverses = journal[m2].reverses /\ journal[m1].reverses # None => m1 = m2
  /\ \A m \in Present : journal[m].reverses # None =>
       /\ journal[m].status = "POSTED"
       /\ journal[m].reverses \in Forward
       /\ journal[m].op = journal[journal[m].reverses].op
       /\ journal[m].date = journal[journal[m].reverses].date
  /\ \A w \in Worker : pc[w] \in ReverseSteps =>
       /\ target[w] \in Forward
       /\ journal[target[w]].status = "POSTED"
  /\ \A e \in EntryId, v, w \in Worker : HoldsEntry(v, e) /\ HoldsEntry(w, e) => v = w

\* balances.py adds POSTED and REVERSED entries alike, mirrors with debit and
\* credit swapped: for each content and date the sum is the number of live facts.
NetEffect(o, d) ==
  LET Of(S) == Cardinality({e \in S : journal[e].op = o /\ journal[e].date = d})
  IN Of(Forward) - Of(Present \ Forward)

BalancesAreLiveFacts ==
  \A o \in Op, d \in Date :
    NetEffect(o, d) =
      Cardinality({e \in Forward : /\ journal[e].status = "POSTED"
                                   /\ journal[e].op = o
                                   /\ journal[e].date = d})

\* Each posting and each reversal that committed left its audit event, and no
\* event speaks of a posting or a reversal that rolled back.
AuditIsTheJournal ==
  /\ \A e \in EntryId : <<"POST", e>> \in audit <=> e \in Forward
  /\ \A e \in EntryId : <<"REVERSE", e>> \in audit <=>
       e \in Present /\ journal[e].status = "REVERSED"

\* No two committed entries have one number, and everything posted balances.
JournalSound ==
  /\ \A e1, e2 \in Present : journal[e1].number = journal[e2].number => e1 = e2
  /\ \A e \in Present : journal[e].op \in Balanced

\* A committed entry is never removed or rewritten: the only change it can see
\* is POSTED to REVERSED, together with the commit of its mirror.
HistoryIsImmutable ==
  [][\A e \in Present :
       \/ journal'[e] = journal[e]
       \/ /\ journal'[e] = [journal[e] EXCEPT !.status = "REVERSED"]
          /\ \E m \in EntryId \ Present : m \in Present' /\ journal'[m].reverses = e
    ]_journal
-----------------------------------------------------------------------------
\* The inductive invariant of PostingProofs.tla: what a session has read or
\* reserved is still true of it, and each reply is backed by its key's record.

SessionOK ==
  \A w \in Worker :
    /\ pc[w] \in PostSteps => req[w] \in Request
    /\ pc[w] \in {"gating", "reserving", "persisting", "rechecking", "r_persisting"} => number[w] \in Number
    /\ pc[w] \in {"reserving", "rechecking"} => req[w].key # NoKey
    /\ pc[w] \in {"reserving", "persisting", "rechecking"} => req[w].op \in Balanced
    /\ pc[w] \in ReverseSteps => target[w] \in EntryId
    /\ pc[w] \in PeriodSteps => period[w] \in Period

RepliesRecorded ==
  \A r \in returned :
    /\ r.req.key \in Key
    /\ records[r.req.key] = r.entry
    /\ journal[r.entry].op = r.req.op
    /\ journal[r.entry].date = r.req.date

IInv ==
  /\ TypeOK
  /\ SessionOK
  /\ OncePerKey
  /\ RepliesRecorded
  /\ MirroredOnce
  /\ JournalSound
  /\ AuditIsTheJournal
-----------------------------------------------------------------------------
\* Sessions past the gate with a date of period p.
PastGate(p) ==
  {w \in Worker :
     \/ pc[w] \in {"reserving", "persisting", "rechecking"} /\ req[w].date \in Span[p]
     \/ pc[w] \in {"r_drawing", "r_persisting"} /\ journal[target[w]].date \in Span[p]}

\* The gate reads without a lock, so a posting may commit after the close.  It
\* can only be one that was past the gate when the period closed: while p stays
\* closed or locked, no further session gets past the gate with a date of p.
ClosedGateHolds ==
  [][\A p \in Period :
       periods[p] \in {"CLOSED", "LOCKED"} /\ periods'[p] = periods[p]
         => PastGate(p)' \subseteq PastGate(p)]_vars

\* Once every such session has ended, the contents of a closed period are fixed.
DrainedPeriodIsFixed ==
  [][\A p \in Period :
       periods[p] \in {"CLOSED", "LOCKED"} /\ PastGate(p) = {}
         => EntriesIn(p)' = EntriesIn(p)]_vars

\* The instance ran out of entry rows or of numbers, a bound of the model.
Exhausted == Present = EntryId \/ seq.next > MaxNumber

\* A session that drew its number inside its transaction holds the series while
\* it waits for a key; one that brought its number holds the key.  Because the
\* holder of a key never waits for the series (documents/services.py:12,
\* core/idempotency.py:17), every transaction ends.  A transaction of the model
\* posts one entry: the services post several while they hold their documents'
\* rows, and the order of those locks is not in this property.
EveryTransactionEnds == \A w \in Worker : pc[w] # "idle" ~> (pc[w] = "idle" \/ Exhausted)
-----------------------------------------------------------------------------
\* Claims of the repository that the code does not keep, each checked by a run
\* that TLC must refute.

\* fiscal_periods/services.py:219 "OPEN -> CLOSED, atomically: integrity-check
\* the range, flip status": a close has checked all that its period holds.
CloseVerifiedEverything ==
  \A p \in Period : periods[p] = "CLOSED" => EntriesIn(p) \subseteq verified[p]
=============================================================================
