------------------------------- MODULE Ledger -------------------------------
(***************************************************************************)
(* What the general ledger promises to every service that posts to it,     *)
(* with no numbers, periods, locks or retries: a business fact is recorded *)
(* once, whatever the number of submissions that carry its idempotency     *)
(* key, it never changes, and it can be voided once.  Posting.tla is shown *)
(* to implement this module.                                               *)
(***************************************************************************)
CONSTANTS FactId, Op, Date, Key, NoKey

VARIABLE fact

NoFact == [state |-> "NONE"]

Fact == [state: {"LIVE", "VOID"}, op: Op, date: Date, key: Key \cup {NoKey}]

LedgerTypeOK == fact \in [FactId -> Fact \cup {NoFact}]

Recorded == {f \in FactId : fact[f].state # "NONE"}

LedgerInit == fact = [f \in FactId |-> NoFact]

\* A submission takes effect: the first one with its key, or one with no key.
Record(f, o, d, k) ==
  /\ f \notin Recorded
  /\ k # NoKey => \A g \in Recorded : fact[g].key # k
  /\ fact' = [fact EXCEPT ![f] = [state |-> "LIVE", op |-> o, date |-> d, key |-> k]]

\* A reversal takes the effect back, once.
Void(f) ==
  /\ fact[f].state = "LIVE"
  /\ fact' = [fact EXCEPT ![f].state = "VOID"]

LedgerNext ==
  \E f \in FactId :
    \/ \E o \in Op, d \in Date, k \in Key \cup {NoKey} : Record(f, o, d, k)
    \/ Void(f)

LedgerSpec == LedgerInit /\ [][LedgerNext]_fact
=============================================================================
