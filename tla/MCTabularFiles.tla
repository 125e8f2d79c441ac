---- MODULE MCTabularFiles ----
(***************************************************************************)
(* TabularFiles for TLC: a served version, one waiting to replace it and   *)
(* one that supersedes the waiting one; two requests at a time.            *)
(***************************************************************************)
EXTENDS TabularFiles, TLC

CONSTANTS q1, q2

TwoRequests == {q1, q2}
Symmetry == Permutations(TwoRequests)

\* A constraint: the last version is there to supersede, and no worker takes it up;
\* nothing but its superseding follows, no loss and no deletion; one version is
\* abandoned or revived, not several.
LastUploaded == version[MaxVersions].status # "none"
Focus ==
    /\ worker.version # MaxVersions
    /\ Cardinality(abandoned) + Cardinality(revived) <= 1
    /\ LastUploaded => /\ abandoned = {} /\ ~file.deleted
                       /\ \A q \in Requests : req[q].stage # "delete"
====
