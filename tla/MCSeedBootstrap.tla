---------------------------- MODULE MCSeedBootstrap ----------------------------
(***************************************************************************)
(* SeedBootstrap for TLC: two documents, an initial and a large batch, one *)
(* request beside the worker.                                              *)
(***************************************************************************)
EXTENDS SeedBootstrap, TLC

CONSTANTS d1, d2, i1, l1, r1

TwoDocs == {d1, d2}
OneInitial == {i1}
OneLarge == {l1}
OneRequest == {r1}

Symmetry == Permutations(TwoDocs)

\* A constraint: the initial batch is of both documents, and its task is done with
\* when a large batch is asked for.
Focus ==
    \A i \in Initial :
        /\ batch[i].docs \in {{}, Docs}
        /\ \A l \in Large : batch[l] # Absent =>
              /\ i \notin queue
              /\ worker = Free \/ worker.batch # i
================================================================================
