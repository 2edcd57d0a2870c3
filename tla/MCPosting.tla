----------------------------- MODULE MCPosting -----------------------------
(* Instances of Posting for TLC. *)
EXTENDS PostingProperties, TLC

CONSTANTS e1, e2, e3, w1, w2, d1, d2, p1, p2

\* Two dates in consecutive Jalali years.
MCYearOf == (d1 :> 1403) @@ (d2 :> 1404)
MCOneYear == (d1 :> 1404)

\* p2 covers the later of the two dates, p1 the only one.
MCLate == p2 :> {d2}
MCNoSpan == [p \in {} |-> {}]
MCOnePeriod == (p1 :> {d1})

Symmetry == Permutations(EntryId) \cup Permutations(Worker)
=============================================================================
