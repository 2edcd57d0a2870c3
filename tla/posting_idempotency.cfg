\* Retries, key reuse, reversals and aborts, with every way to draw a number; no
\* periods, so the gate is open.
SPECIFICATION Spec
CONSTANTS
  e1 = e1  e2 = e2  e3 = e3  w1 = w1  w2 = w2
  d1 = d1  d2 = d2  p1 = p1  p2 = p2
  EntryId = {e1, e2, e3}
  Worker = {w1, w2}
  Op = {"sale", "cost", "bad"}
  Balanced = {"sale", "cost"}
  Key = {"k"}
  NoKey = "-"
  Date = {d1}
  YearOf <- MCOneYear
  Period = {}
  Span <- MCNoSpan
  Numbering = {"SUPPLIED", "INSIDE", "BEFORE"}
  Supplied = {1}
  MaxNumber = 2
  None = None
SYMMETRY Symmetry
INVARIANTS JournalSound OncePerKey RepliesAgree BalancesAreLiveFacts AuditIsTheJournal
PROPERTIES ImplementsLedger
