----------------------------- MODULE MCExtraction -----------------------------
(***************************************************************************)
(* Extraction for TLC: two documents and two runs, so that a run meets what *)
(* another has stored, two deliveries of each, and a second model version. *)
(***************************************************************************)
EXTENDS Extraction, TLC

CONSTANTS d1, d2, r1, r2
TwoDocs == {d1, d2}
TwoRuns == {r1, r2}
Symmetry == Permutations(Docs) \cup Permutations(Runs)

\* A constraint: one document stays; of the histories the properties exempt there is one
\* at a time; and beside a second run there is a deletion, or a second change while one
\* of the two tasks is with the broker, but not both.
BothAsked == \A r \in Runs : run[r].status # "none"
Focus ==
    /\ \E d \in Docs : doc[d] = "processed"
    /\ ~(unsettled /\ flipped)
    /\ late # {} => ~unsettled /\ ~flipped
    /\ BothAsked /\ changes = MaxChanges =>
          /\ \A d \in Docs : doc[d] = "processed"
          /\ queue # Runs
===============================================================================
