--------------------------- MODULE MCDataSources ---------------------------
(***************************************************************************)
(* DataSources for TLC. Two connections make a replacement and two stores  *)
(* a wrong one; two requests overlap; two provisioning executions race.    *)
(* Requests and executions overlap while there is one connection (Focus).  *)
(***************************************************************************)
EXTENDS DataSources, TLC

CONSTANTS c1, c2, s1, s2, r1, r2, p1, p2

TwoConns == {c1, c2}
TwoStores == {s1, s2}
OneRequest == {r1}
TwoRequests == {r1, r2}
TwoProvisioners == {p1, p2}

Symmetry == Permutations(TwoConns) \cup Permutations(TwoStores)
                \cup Permutations(TwoRequests) \cup Permutations(TwoProvisioners)

\* A constraint: three at most of the requests, the executions and the deploy are in
\* hand; one of each beside a second connection, and no request beside the deploy then.
ReqsInHand == {r \in Requests : req[r].stage # "idle"}
ProvsInHand == {p \in Provisioners : prov[p].stage # "none"}
Migrating == mig.stage # "none"
Focus ==
    /\ Cardinality(ReqsInHand) + Cardinality(ProvsInHand) <= IF Migrating THEN 2 ELSE 3
    /\ (\A c \in Conns : conn[c].status # "absent") =>
          /\ Cardinality(ReqsInHand) <= 1 /\ Cardinality(ProvsInHand) <= 1
          /\ Migrating => ReqsInHand = {}
          /\ misjudged = {}
=============================================================================
