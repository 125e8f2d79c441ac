--------------------------- MODULE MCTrainingJobs ---------------------------
(***************************************************************************)
(* TrainingJobs for TLC. Two tasks and three requests let a job be         *)
(* approved twice or approved and cancelled; two versions let a redelivery *)
(* train again.                                                            *)
(***************************************************************************)
EXTENDS TrainingJobs, TLC

CONSTANTS j1, j2, q1, q2, q3, w1, t1, t2, v1, v2, m1, a1

TwoJobs == {j1, j2}
TwoRequests == {q1, q2}
ThreeRequests == {q1, q2, q3}
OneWorker == {w1}
TwoTasks == {t1, t2}
TwoVersions == {v1, v2}
OneManual == {m1}
NoSpan == {}
AllData == {"none"}

\* A span is deleted, or loses its text, and a version's run stays open, only while
\* one job is submitted and one request made.
OneJobMeanwhile ==
    \/ /\ \A s \in Spans : spans[s] \in {"unborn", "readable"}
       /\ blinked = {} /\ unclosed = {}
    \/ /\ Cardinality({j \in Jobs : job[j].status # "absent"}) <= 1
       /\ Cardinality({r \in Requests : req[r].stage # "idle"}) <= 1

Symmetry == Permutations(ThreeRequests) \cup Permutations(TwoTasks)
                \cup Permutations(TwoVersions) \cup Permutations(TwoJobs)
=============================================================================
