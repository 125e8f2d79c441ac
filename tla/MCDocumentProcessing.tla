------------------------- MODULE MCDocumentProcessing -------------------------
(***************************************************************************)
(* DocumentProcessing for TLC: one request or task at a time beside the    *)
(* worker. Both process the document, so a dispatch and a sweep, or a      *)
(* replay, can be at it at once; and either can delete what the other is   *)
(* still extracting.                                                       *)
(***************************************************************************)
EXTENDS DocumentProcessing

CONSTANT q1
OneRequest == {q1}

\* A constraint: of the histories the invariants exempt, one at a time.
Focus == ~(stolen /\ abandoned) /\ ~(superseded /\ (stolen \/ abandoned))
===============================================================================
