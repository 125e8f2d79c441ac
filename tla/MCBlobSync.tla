---- MODULE MCBlobSync ----
(***************************************************************************)
(* BlobSync for TLC. Two absences and the ingestion before them take three *)
(* executions; what comes after them, or a sighting between, a fourth.     *)
(***************************************************************************)
EXTENDS BlobSync, TLC

CONSTANTS r1, r2, r3, r4, o1, d1, d2

FourRuns == {r1, r2, r3, r4}
OneObject == {o1}
TwoDocs == {d1, d2}

FourRunSymmetry == Permutations(FourRuns)

Active == {r \in Runs : run[r].stage \notin {"idle"} \cup Ended}

\* Executions that died, failed, were refused, or were aborted.
CutShort == {r \in Runs : run[r].stage = "crashed"} \cup
            {r \in Runs : /\ run[r].stage \in {"release", "done"}
                          /\ run[r].outcome \in {"started", "blocked", "failed"}}

\* Constraints: executions one after the other, or the first and the last of
\* them alone and the others, between them, in every order; the last one for
\* the sake of the objects that come back after they were confirmed missing; one of
\* them at most is cut short.
OneAtATime == Cardinality(Active) <= 1
Begun == {r \in Runs : run[r].stage # "idle"}
PairInTheMiddle ==
    /\ Begun = Runs => OneAtATime /\ \E d \in Docs : hidden[d] # "none"
    /\ Cardinality(Active) = 2 => Cardinality(Begun) >= 3
    /\ Cardinality(CutShort) <= 1
====
