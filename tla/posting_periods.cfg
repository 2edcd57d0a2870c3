\* Numbers of two Jalali years, drawn and supplied, a key and a period over the
\* later date; sessions pass the gate together and wait for each other's series
\* and keys.  Fair sessions, so no symmetry.
SPECIFICATION FairSpec
CONSTANTS
  e1 = e1  e2 = e2  e3 = e3  w1 = w1  w2 = w2
  d1 = d1  d2 = d2  p1 = p1  p2 = p2
  EntryId = {e1, e2}
  Worker = {w1, w2}
  Op = {"sale"}
  Balanced = {"sale"}
  Key = {"k"}
  NoKey = "-"
  Date = {d1, d2}
  YearOf <- MCYearOf
  Period = {p2}
  Span <- MCLate
  Numbering = {"SUPPLIED", "INSIDE"}
  Supplied = {1}
  MaxNumber = 2
  None = None
PROPERTIES ClosedGateHolds DrainedPeriodIsFixed EveryTransactionEnds
