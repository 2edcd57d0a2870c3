\* A closed period holds an entry its close never verified.
SPECIFICATION Spec
CONSTANTS
  e1 = e1  e2 = e2  e3 = e3  w1 = w1  w2 = w2
  d1 = d1  d2 = d2  p1 = p1  p2 = p2
  EntryId = {e1, e2}
  Worker = {w1, w2}
  Op = {"sale"}
  Balanced = {"sale"}
  Key = {}
  NoKey = "-"
  Date = {d1}
  YearOf <- MCOneYear
  Period = {p1}
  Span <- MCOnePeriod
  Numbering = {"SUPPLIED"}
  Supplied = {1}
  MaxNumber = 2
  None = None
SYMMETRY Symmetry
INVARIANTS CloseVerifiedEverything
